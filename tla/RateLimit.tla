------------------------------ MODULE RateLimit ------------------------------
(***************************************************************************)
(* The in-memory limiter of the unauthenticated endpoints, on one replica: *)
(* internal/server/ratelimit.go.                                           *)
(*                                                                         *)
(* allow() and reap() read the clock BEFORE they take l.mu, so each is two *)
(* steps: the stamp, and the critical section.  Between the two a          *)
(* goroutine may be preempted or wait for the lock, for at most MaxStall   *)
(* units of time.  Times are kept relative to the present, so that time    *)
(* may pass for ever in a finite model: a bucket knows how much of its     *)
(* window is left, and a goroutine how old the stamp is that it holds.     *)
(***************************************************************************)
EXTENDS Integers, Sequences, FiniteSets

CONSTANTS
    Keys,        \* bucket keys: a route's prefix with an address or an email
    Routes,      \* what a keyFn returns: the keys of a request, in order
    Reqs,        \* requests in the middleware at the same time
    Attempts, Window,    \* settings.RateLimit
    MaxStall     \* bound: how old a stamp may be when it is used

ASSUME RateLimitAssumption ==
    /\ Routes \subseteq Seq(Keys) \ {<<>>}
    /\ Attempts \in Nat \ {0} /\ Window \in Nat \ {0} /\ MaxStall \in Nat

VARIABLES
    buckets,    \* l.buckets
    req,        \* the goroutines in rateLimit
    reaper,     \* the goroutine in runReaper
    verdict,    \* history: allow's last answer for each key
    grants      \* history: the attempts let through during the last window

vars == <<buckets, req, reaper, verdict, grants>>

\* A bucket with `count` 0 is not in the map.  What is left of a window that
\* is over for every stamp still in use is Gone.
Gone == -(MaxStall + 1)
Bucket == [count : 0..Attempts, left : Gone..Window]
Absent == [count |-> 0, left |-> Gone]

\* Bug: expiresAt is set to now, without the window.
ExpiredAtOnce(b, age) == b.count = 0 \/ b.left + age < Window

\* `!ok || now.After(b.expiresAt)`, for a `now` that is `age` old.
Expired(b, age) == b.count = 0 \/ b.left + age < 0

Goroutine == [keys : Seq(Keys),
              stamped : BOOLEAN, age : 0..MaxStall]
Free == [keys |-> <<>>, stamped |-> FALSE, age |-> 0]

\* An attempt that was let through `age` ago, as the nth of its bucket, when `newer`
\* buckets have been opened for the key since.  If it opened its own, then perhaps
\* `late`: with a stamp that was not of that moment.
Attempt == [age : 0..Window, nth : 1..Attempts, newer : Nat, late : BOOLEAN]
Ages(g) == [g EXCEPT !.age = @ + 1]
Supersede(g) == [g EXCEPT !.newer = @ + 1]
Aged(gs) == {Ages(g) : g \in {h \in gs : h.age < Window}}
Superseded(gs) == {Supersede(g) : g \in gs}

-----------------------------------------------------------------------------

\* A request reaches rateLimit, and keyFn names the keys that must all pass.
Arrive(q, keys) ==
    /\ req[q].keys = <<>>
    /\ req' = [req EXCEPT ![q].keys = keys]
    /\ UNCHANGED <<buckets, reaper, verdict, grants>>

\* allow: now := time.Now().
Stamp(q) ==
    /\ req[q].keys # <<>> /\ ~req[q].stamped
    /\ req' = [req EXCEPT ![q].stamped = TRUE]
    /\ UNCHANGED <<buckets, reaper, verdict, grants>>

\* The request goes on to its next key, or past the limiter.
Grant(q, k) ==
    /\ req' = [req EXCEPT ![q] = [Free EXCEPT !.keys = Tail(req[q].keys)]]
    /\ verdict' = [verdict EXCEPT ![k] = "granted"]
    /\ LET nth == buckets'[k].count
           earlier == IF nth = 1 THEN Superseded(grants[k]) ELSE grants[k] IN
       grants' = [grants EXCEPT ![k] = earlier \cup
                    {[age |-> 0, nth |-> nth, newer |-> 0,
                      late |-> nth = 1 /\ req[q].age > 0]}]

\* 429: the keys after this one are not asked.
Deny(q, k) ==
    /\ req' = [req EXCEPT ![q] = Free]
    /\ verdict' = [verdict EXCEPT ![k] = "denied"]
    /\ UNCHANGED grants

\* Bug: one more than the limit is let through.
AllowOneMore(q) ==
    LET k == Head(req[q].keys)
        b == buckets[k]
        expired == Expired(b, req[q].age) IN
    /\ req[q].stamped
    /\ \/ /\ expired
          /\ buckets' = [buckets EXCEPT ![k] = [count |-> 1,
                                                left |-> Window - req[q].age]]
          /\ Grant(q, k)
       \/ ~expired /\ b.count > Attempts /\ UNCHANGED buckets /\ Deny(q, k)
       \/ /\ ~expired /\ b.count <= Attempts
          /\ buckets' = [buckets EXCEPT ![k].count = @ + 1]
          /\ Grant(q, k)
    /\ UNCHANGED reaper

\* allow: what it does under the lock.
Allow(q) ==
    LET k == Head(req[q].keys)
        b == buckets[k]
        expired == Expired(b, req[q].age) IN
    /\ req[q].stamped
    /\ \/ /\ expired
          /\ buckets' = [buckets EXCEPT ![k] = [count |-> 1,
                                                left |-> Window - req[q].age]]
          /\ Grant(q, k)
       \/ ~expired /\ b.count >= Attempts /\ UNCHANGED buckets /\ Deny(q, k)
       \/ /\ ~expired /\ b.count < Attempts
          /\ buckets' = [buckets EXCEPT ![k].count = @ + 1]
          /\ Grant(q, k)
    /\ UNCHANGED reaper

\* reap: now := time.Now(), some time after the ticker fired.
ReaperStamp ==
    /\ ~reaper.stamped
    /\ reaper' = [stamped |-> TRUE, age |-> 0]
    /\ UNCHANGED <<buckets, req, verdict, grants>>

\* Bug: the reaper drops the buckets that have not expired.
ReapOpen ==
    /\ reaper.stamped
    /\ buckets' = [k \in Keys |-> IF Expired(buckets[k], reaper.age)
                                  THEN buckets[k] ELSE Absent]
    /\ reaper' = [stamped |-> FALSE, age |-> 0]
    /\ UNCHANGED <<req, verdict, grants>>

Reap ==
    /\ reaper.stamped
    /\ buckets' = [k \in Keys |-> IF Expired(buckets[k], reaper.age)
                                  THEN Absent ELSE buckets[k]]
    /\ reaper' = [stamped |-> FALSE, age |-> 0]
    /\ UNCHANGED <<req, verdict, grants>>

\* Time passes, while no stamp is at its bound.
Older(g) == [g EXCEPT !.age = IF g.stamped THEN @ + 1 ELSE 0]

Tick ==
    /\ \A q \in Reqs : req[q].stamped => req[q].age < MaxStall
    /\ reaper.stamped => reaper.age < MaxStall
    /\ buckets' = [k \in Keys |->
                     IF buckets[k].left > Gone THEN [buckets[k] EXCEPT !.left = @ - 1]
                     ELSE buckets[k]]
    /\ req' = [q \in Reqs |-> Older(req[q])]
    /\ reaper' = Older(reaper)
    /\ grants' = [k \in Keys |-> Aged(grants[k])]
    /\ UNCHANGED verdict

-----------------------------------------------------------------------------

Init ==
    /\ buckets = [k \in Keys |-> Absent]
    /\ req = [q \in Reqs |-> Free]
    /\ reaper = [stamped |-> FALSE, age |-> 0]
    /\ verdict = [k \in Keys |-> "none"]
    /\ grants = [k \in Keys |-> {}]

Middleware(q) ==
    \/ \E keys \in Routes : Arrive(q, keys)
    \/ Stamp(q)
    \/ Allow(q)

Next ==
    \/ \E q \in Reqs : Middleware(q)
    \/ ReaperStamp
    \/ Reap
    \/ Tick

Spec == Init /\ [][Next]_vars

\* The clock runs, the ticker fires for as long as the server is open, and the
\* scheduler runs every goroutine that is not waiting for anything.
Fairness ==
    /\ WF_vars(Tick)
    /\ WF_vars(ReaperStamp) /\ WF_vars(Reap)
    /\ \A q \in Reqs : WF_vars(Stamp(q)) /\ WF_vars(Allow(q))

FairSpec == Spec /\ Fairness

-----------------------------------------------------------------------------
(* Properties. *)

\* The type invariant.
TypeOK ==
    /\ buckets \in [Keys -> Bucket]
    /\ req \in [Reqs -> Goroutine]
    /\ reaper \in [stamped : BOOLEAN, age : 0..MaxStall]
    /\ verdict \in [Keys -> {"none", "granted", "denied"}]
    /\ grants \in [Keys -> SUBSET Attempt]

\* The attempts of a key that were let through during the last window.
Recent(k) == Cardinality(grants[k])

\* "up to 2x the limit across a window boundary" (ratelimit.go:38): no interval as
\* long as a window lets more through than that, unless one of its buckets was opened
\* with a late stamp, and so for less than a window.
AtMostTwice ==
    \A k \in Keys : (\A g \in grants[k] : ~g.late) => Recent(k) <= 2 * Attempts

\* What is left of it when goroutines are held up between the stamp and the lock,
\* each for no longer than half a window.
AtMostThrice == \A k \in Keys : Recent(k) <= 3 * Attempts

\* "nothing would ever remove it" (ratelimit.go:84-88) is what the reaper is for: an
\* address or an email that is not heard of again leaves nothing in the map.
Forgotten ==
    \A k \in Keys :
        <>[](\A q \in Reqs : \A i \in DOMAIN req[q].keys : req[q].keys[i] # k)
            => <>[](buckets[k] = Absent)

\* The limiter is the fixed-window counter it says it is (ratelimit.go:36), as far as
\* its decisions are made with a stamp of that moment: an expired bucket is as good as
\* none, so neither the map nor the reaper, however late, changes such an answer.
Open(b) == b.count > 0 /\ b.left >= 0
Abstract == INSTANCE FixedWindow WITH
    used <- [k \in Keys |-> IF Open(buckets[k]) THEN buckets[k].count ELSE 0],
    left <- [k \in Keys |-> IF Open(buckets[k]) THEN buckets[k].left ELSE -1]
LateDecision ==
    \E q \in Reqs : req[q].stamped /\ req[q].age > 0 /\ ~req'[q].stamped
ImplementsFixedWindow ==
    Abstract!Init /\ [][LateDecision \/ Abstract!Next]_(Abstract!vars)
=============================================================================
