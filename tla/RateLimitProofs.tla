---------------------------- MODULE RateLimitProofs ----------------------------
(***************************************************************************)
(* Theorems about RateLimit, for any keys, routes, number of requests,     *)
(* limit, window and stall: how many attempts get through during a window  *)
(* when stamps are of the moment and when they are late, and that but for  *)
(* the decisions made late the limiter is a FixedWindow.                   *)
(***************************************************************************)
EXTENDS RateLimit, FiniteSetTheorems, TLAPS

-----------------------------------------------------------------------------
(* The inductive invariant. *)

RequestsOK == \A q \in Reqs : req[q].stamped => req[q].keys # <<>>

\* What is left of a key's last window: once its bucket is gone, nothing.
Left(b) == IF b.count = 0 THEN -1 ELSE b.left

\* The attempts of a key, beside its bucket.  No two are the same one of the same
\* bucket, and those of the present bucket are counted in it.  Those of the bucket
\* before were let through before the present one was stored, which is at most
\* MaxStall after its stamp; those of the one before that, before the bucket before
\* was stored, which may have been reaped by a stamp that was MaxStall old.
Spaced(b, gs) ==
    /\ \A g, h \in gs : g.newer = h.newer /\ g.nth = h.nth => g = h
    /\ \A g \in gs : b.count > 0 /\ g.newer = 0 => g.nth <= b.count
    /\ \A g \in gs : g.newer >= 1 => g.age >= Window - Left(b) - MaxStall
    /\ \A g \in gs : g.newer >= 2 => g.age >= 2 * Window + 1 - Left(b) - 2 * MaxStall

LimiterInv ==
    /\ TypeOK /\ RequestsOK
    /\ \A k \in Keys : Spaced(buckets[k], grants[k])

\* A bucket that was opened on time.
Prompt(o) == o.nth = 1 /\ ~o.late

\* The openings.  An attempt of a bucket that was followed by another is older than
\* the opening of that one; a bucket that was opened on time has the rest of a window
\* left, so that when it is followed, its opening is not recent any more.
Dated(b, gs) ==
    /\ \A g \in gs : g.newer >= 1 =>
         \E o \in gs : o.nth = 1 /\ o.newer = g.newer - 1 /\ o.age <= g.age
    /\ \A o \in gs : Prompt(o) /\ o.newer = 0 => Left(b) = Window - o.age
    /\ \A o \in gs : Prompt(o) => o.newer = 0

DatedInv == \A k \in Keys : Dated(buckets[k], grants[k])

\* The attempts of the last window come from n + 1 buckets at most.
Few(n, gs) == \A g \in gs : g.newer <= n

-----------------------------------------------------------------------------
(* Buckets and attempts. *)

LEMMA Sizes ==
  /\ Window \in Nat \ {0} /\ Attempts \in Nat \ {0} /\ MaxStall \in Nat
  /\ Gone = 0 - MaxStall - 1 /\ Gone \in Int
  BY RateLimitAssumption DEF Gone

LEMMA BucketTyped ==
  ASSUME NEW b \in Bucket
  PROVE  /\ b.count \in 0..Attempts /\ b.left \in Gone..Window
         /\ b.left \in Int /\ Left(b) \in Int /\ b.count \in Nat
  BY Sizes DEF Bucket, Left

LEMMA AttemptTyped ==
  ASSUME NEW g \in Attempt
  PROVE  /\ g.age \in 0..Window /\ g.nth \in 1..Attempts /\ g.newer \in Nat
         /\ g.late \in BOOLEAN
  BY DEF Attempt

\* The attempt that opens a bucket, with a stamp that is `age` old, and one after it.
First(age) == [age |-> 0, nth |-> 1, newer |-> 0, late |-> age > 0]
Another(nth) == [age |-> 0, nth |-> nth, newer |-> 0, late |-> FALSE]

LEMMA FirstFacts ==
  ASSUME NEW age \in Nat
  PROVE  /\ First(age) \in Attempt /\ First(age).age = 0 /\ First(age).nth = 1
         /\ First(age).newer = 0 /\ First(age).late = (age > 0)
  BY Sizes DEF First, Attempt

LEMMA SupersedeFacts ==
  ASSUME NEW h \in Attempt
  PROVE  /\ Supersede(h) \in Attempt /\ Supersede(h).age = h.age
         /\ Supersede(h).nth = h.nth /\ Supersede(h).newer = h.newer + 1
         /\ Supersede(h).late = h.late
  BY DEF Attempt, Supersede

LEMMA AgesFacts ==
  ASSUME NEW h \in Attempt, h.age < Window
  PROVE  /\ Ages(h) \in Attempt /\ Ages(h).age = h.age + 1
         /\ Ages(h).nth = h.nth /\ Ages(h).newer = h.newer /\ Ages(h).late = h.late
  <1>1. h.age + 1 \in 0..Window
    BY Sizes DEF Attempt
  <1> QED
    BY <1>1 DEF Attempt, Ages

LEMMA SupersededFacts ==
  ASSUME NEW gs \in SUBSET Attempt
  PROVE  \A g \in Superseded(gs) :
           /\ g \in Attempt
           /\ \E h \in gs : /\ g = Supersede(h)
                            /\ g.age = h.age /\ g.nth = h.nth /\ g.newer = h.newer + 1
                            /\ g.late = h.late
  BY SupersedeFacts DEF Superseded

LEMMA AgedFacts ==
  ASSUME NEW gs \in SUBSET Attempt
  PROVE  \A g \in Aged(gs) :
           /\ g \in Attempt
           /\ \E h \in gs : /\ g = Ages(h)
                            /\ g.age = h.age + 1 /\ g.nth = h.nth /\ g.newer = h.newer
                            /\ g.late = h.late
  BY AgesFacts DEF Aged

\* A bucket is opened when the last one's window is over, or it is gone.
LEMMA OpenedSpaced ==
  ASSUME NEW b \in Bucket, NEW gs \in SUBSET Attempt, Spaced(b, gs), Left(b) <= -1,
         NEW age \in 0..MaxStall
  PROVE  /\ [count |-> 1, left |-> Window - age] \in Bucket
         /\ Superseded(gs) \cup {First(age)} \in SUBSET Attempt
         /\ Spaced([count |-> 1, left |-> Window - age], Superseded(gs) \cup {First(age)})
  <1> DEFINE new == [count |-> 1, left |-> Window - age]
             first == First(age)
             all == Superseded(gs) \cup {first}
  <1>1. new.count = 1 /\ new.left = Window - age /\ Left(new) = Window - age
    BY DEF Left
  <1>2. new \in Bucket
    BY Sizes DEF Bucket
  <1>3. first \in Attempt /\ first.age = 0 /\ first.nth = 1 /\ first.newer = 0
    BY FirstFacts, Sizes
  <1>4. all \in SUBSET Attempt
    BY <1>3, SupersededFacts
  <1>5. \A g \in all :
          \/ g = first
          \/ \E h \in gs : /\ g = Supersede(h)
                           /\ g.age = h.age /\ g.nth = h.nth /\ g.newer = h.newer + 1
    BY SupersededFacts
  <1>6. \A g \in all : g.newer = 0 => g = first
    BY <1>5, AttemptTyped
  <1> HIDE DEF new, first, all
  <1>7. \A g, h \in all : g.newer = h.newer /\ g.nth = h.nth => g = h
    <2> SUFFICES ASSUME NEW g \in all, NEW h \in all, g.newer = h.newer, g.nth = h.nth
                 PROVE  g = h
      OBVIOUS
    <2>1. CASE g = first
      BY <1>3, <1>6, <2>1
    <2>2. CASE h = first
      BY <1>3, <1>6, <2>2
    <2>3. CASE g # first /\ h # first
      <3>1. PICK c \in gs : /\ g = Supersede(c)
                            /\ g.nth = c.nth /\ g.newer = c.newer + 1
        BY <1>5, <2>3
      <3>2. PICK d \in gs : /\ h = Supersede(d)
                            /\ h.nth = d.nth /\ h.newer = d.newer + 1
        BY <1>5, <2>3
      <3>3. c.newer = d.newer /\ c.nth = d.nth
        BY AttemptTyped, <3>1, <3>2
      <3>4. c = d
        BY <3>3 DEF Spaced
      <3> QED
        BY <3>1, <3>2, <3>4
    <2> QED
      BY <2>1, <2>2, <2>3
  <1>8. \A g \in all : new.count > 0 /\ g.newer = 0 => g.nth <= new.count
    BY <1>1, <1>3, <1>6
  <1>9. \A g \in all : g.newer >= 1 => g.age >= Window - Left(new) - MaxStall
    BY <1>1, <1>4, AttemptTyped, Sizes
  <1>10. \A g \in all : g.newer >= 2 => g.age >= 2 * Window + 1 - Left(new) - 2 * MaxStall
    <2> SUFFICES ASSUME NEW g \in all, g.newer >= 2
                 PROVE  g.age >= 2 * Window + 1 - Left(new) - 2 * MaxStall
      OBVIOUS
    <2>0. g # first
      BY <1>3
    <2>1. PICK h \in gs : g.age = h.age /\ g.newer = h.newer + 1
      BY <1>5, <2>0
    <2>2. h.newer >= 1
      BY AttemptTyped, <2>1
    <2>3. h.age >= Window - Left(b) - MaxStall
      BY <2>2 DEF Spaced
    <2> QED
      BY <1>1, AttemptTyped, <2>1, <2>3, BucketTyped, Sizes
  <1> QED
    BY <1>2, <1>4, <1>7, <1>8, <1>9, <1>10 DEF Spaced, new, first, all

\* An attempt that is counted in the bucket there is.
LEMMA CountedSpaced ==
  ASSUME NEW b \in Bucket, NEW gs \in SUBSET Attempt, Spaced(b, gs),
         b.count > 0, b.count < Attempts
  PROVE  LET new == [b EXCEPT !.count = @ + 1]
             all == gs \cup {Another(new.count)} IN
         new \in Bucket /\ all \in SUBSET Attempt /\ Spaced(new, all)
  <1> DEFINE new == [b EXCEPT !.count = @ + 1]
             last == Another(new.count)
             all == gs \cup {last}
  <1>0. b.count \in 0..Attempts /\ b.left \in Gone..Window /\ Left(b) = b.left
    BY BucketTyped DEF Left
  <1>1. new.count = b.count + 1 /\ new.left = b.left
    BY DEF Bucket
  <1>2. new \in Bucket
    <2>1. b.count + 1 \in 0..Attempts
      BY <1>0, Sizes
    <2> QED
      BY <2>1 DEF Bucket
  <1>3. Left(new) = Left(b)
    BY <1>0, <1>1, Sizes DEF Left
  <1>4. last.age = 0 /\ last.nth = b.count + 1 /\ last.newer = 0 /\ last \in Attempt
    BY <1>0, <1>1, Sizes DEF Attempt, Another
  <1>5. all \in SUBSET Attempt
    BY <1>4
  <1> HIDE DEF new, last
  <1>7. \A g, h \in all : g.newer = h.newer /\ g.nth = h.nth => g = h
    <2>1. ASSUME NEW g \in gs, g.newer = last.newer PROVE g.nth # last.nth
      <3>1. g.newer = 0 /\ g.nth \in 1..Attempts
        BY <1>4, <2>1, AttemptTyped
      <3>2. g.nth <= b.count
        BY <3>1 DEF Spaced
      <3> QED
        BY <1>0, <1>4, <3>1, <3>2, Sizes
    <2> QED
      BY <2>1 DEF Spaced
  <1>8. ASSUME NEW g \in all, g.newer = 0 PROVE g.nth <= new.count
    <2>1. CASE g = last
      BY <1>0, <1>1, <1>4, <2>1, Sizes
    <2>2. CASE g \in gs
      <3>1. g.nth <= b.count /\ g.nth \in 1..Attempts
        BY <1>8, <2>2, AttemptTyped DEF Spaced
      <3> QED
        BY <1>0, <1>1, <3>1, Sizes
    <2> QED
      BY <2>1, <2>2
  <1>9. ASSUME NEW g \in all, g.newer >= 1
        PROVE  /\ g.age >= Window - Left(new) - MaxStall
               /\ g.newer >= 2 => g.age >= 2 * Window + 1 - Left(new) - 2 * MaxStall
    <2>1. g \in gs
      BY <1>4, <1>9
    <2> QED
      BY <1>3, <1>9, <2>1 DEF Spaced
  <1>10. ASSUME NEW g \in all, g.newer >= 2
         PROVE  g.age >= 2 * Window + 1 - Left(new) - 2 * MaxStall
    <2>1. g.newer >= 1
      BY <1>5, <1>10, AttemptTyped
    <2> QED
      BY <1>9, <1>10, <2>1
  <1> QED
    BY <1>2, <1>5, <1>7, <1>8, <1>9, <1>10 DEF Spaced, new, last

\* Nothing is let through after the bucket is gone, until there is another.
LEMMA ReapedSpaced ==
  ASSUME NEW b \in Bucket, NEW gs \in SUBSET Attempt, Spaced(b, gs), Left(b) <= -1
  PROVE  Absent \in Bucket /\ Spaced(Absent, gs)
  <1>1. Absent \in Bucket /\ Absent.count = 0 /\ Left(Absent) = -1
    BY Sizes DEF Absent, Bucket, Left
  <1>2. ASSUME NEW g \in gs, g.newer >= 1 PROVE g.age >= Window - (-1) - MaxStall
    <2>1. g.age >= Window - Left(b) - MaxStall /\ g.age \in 0..Window
      BY <1>2, AttemptTyped DEF Spaced
    <2> QED
      BY <2>1, BucketTyped, Sizes
  <1>3. ASSUME NEW g \in gs, g.newer >= 2
        PROVE  g.age >= 2 * Window + 1 - (-1) - 2 * MaxStall
    <2>1. g.age >= 2 * Window + 1 - Left(b) - 2 * MaxStall /\ g.age \in 0..Window
      BY <1>3, AttemptTyped DEF Spaced
    <2> QED
      BY <2>1, BucketTyped, Sizes
  <1> QED
    BY <1>1, <1>2, <1>3 DEF Spaced

LEMMA AgedSpaced ==
  ASSUME NEW b \in Bucket, NEW gs \in SUBSET Attempt, Spaced(b, gs)
  PROVE  LET new == IF b.left > Gone THEN [b EXCEPT !.left = @ - 1] ELSE b IN
         new \in Bucket /\ Aged(gs) \in SUBSET Attempt /\ Spaced(new, Aged(gs))
  <1> DEFINE new == IF b.left > Gone THEN [b EXCEPT !.left = @ - 1] ELSE b
  <1>0. /\ b.count \in 0..Attempts /\ b.left \in Gone..Window /\ Left(b) \in Int
        /\ b.left \in Int
    BY BucketTyped
  <1>1. new \in Bucket /\ new.count = b.count
        /\ new.left = IF b.left > Gone THEN b.left - 1 ELSE b.left
    <2>1. b.left > Gone => b.left - 1 \in Gone..Window
      BY <1>0, Sizes
    <2> QED
      BY <2>1 DEF Bucket
  <1>2. /\ Left(new) \in Int /\ Left(new) <= Left(b)
        /\ \/ Left(new) = Left(b) - 1
           \/ Left(new) = Left(b)
           \/ Left(b) = 0 - MaxStall - 1
    BY <1>0, <1>1, Sizes DEF Left
  <1>3. \A g \in Aged(gs) :
           /\ g \in Attempt
           /\ \E h \in gs : /\ g = Ages(h)
                            /\ g.age = h.age + 1 /\ g.nth = h.nth /\ g.newer = h.newer
    BY AgedFacts
  <1> HIDE DEF new
  <1>5. \A g, h \in Aged(gs) : g.newer = h.newer /\ g.nth = h.nth => g = h
    <2> SUFFICES ASSUME NEW g \in Aged(gs), NEW h \in Aged(gs),
                        g.newer = h.newer, g.nth = h.nth
                 PROVE  g = h
      OBVIOUS
    <2>1. PICK c \in gs : g = Ages(c) /\ g.nth = c.nth /\ g.newer = c.newer
      BY <1>3
    <2>2. PICK d \in gs : h = Ages(d) /\ h.nth = d.nth /\ h.newer = d.newer
      BY <1>3
    <2>3. c = d
      BY <2>1, <2>2 DEF Spaced
    <2> QED
      BY <2>1, <2>2, <2>3
  <1>6. \A g \in Aged(gs) : new.count > 0 /\ g.newer = 0 => g.nth <= new.count
    BY <1>1, <1>3 DEF Spaced
  <1>7. ASSUME NEW g \in Aged(gs), g.newer >= 1
        PROVE  /\ g.age >= Window - Left(new) - MaxStall
               /\ g.newer >= 2 => g.age >= 2 * Window + 1 - Left(new) - 2 * MaxStall
    <2>1. PICK h \in gs : g.age = h.age + 1 /\ g.newer = h.newer
      BY <1>3
    <2>2. h.age \in 0..Window /\ h.age + 1 <= Window
      BY <1>3, <2>1, AttemptTyped
    <2>3. h.age >= Window - Left(b) - MaxStall
      BY <1>7, <2>1 DEF Spaced
    <2>4. Left(new) = Left(b) - 1 \/ Left(new) = Left(b)
      BY <1>0, <1>2, <2>2, <2>3, Sizes
    <2>5. g.age >= Window - Left(new) - MaxStall
      BY <1>0, <1>2, <2>1, <2>2, <2>3, <2>4, Sizes
    <2>6. ASSUME g.newer >= 2
          PROVE  g.age >= 2 * Window + 1 - Left(new) - 2 * MaxStall
      <3>1. h.age >= 2 * Window + 1 - Left(b) - 2 * MaxStall
        BY <2>1, <2>6 DEF Spaced
      <3> QED
        BY <1>0, <1>2, <2>1, <2>2, <2>4, <3>1, Sizes
    <2> QED
      BY <2>5, <2>6
  <1>8. ASSUME NEW g \in Aged(gs), g.newer >= 2 PROVE g.newer >= 1
    BY <1>3, <1>8, AttemptTyped
  <1> QED
    BY <1>1, <1>3, <1>5, <1>6, <1>7, <1>8 DEF Spaced, new

-----------------------------------------------------------------------------
(* The steps. *)

LEMMA HeadAndTail ==
  ASSUME NEW s \in Seq(Keys), s # <<>>
  PROVE  Head(s) \in Keys /\ Tail(s) \in Seq(Keys)
  OBVIOUS

LEMMA FreeTyped == Free \in Goroutine /\ ~Free.stamped
  <1>1. <<>> \in Seq(Keys)
    OBVIOUS
  <1> QED
    BY <1>1, Sizes DEF Free, Goroutine

\* What a step of a request has to show when it leaves the buckets alone.
LEMMA RequestInv ==
  ASSUME LimiterInv, NEW q \in Reqs, NEW g \in Goroutine,
         req' = [req EXCEPT ![q] = g], g.stamped => g.keys # <<>>,
         UNCHANGED <<buckets, reaper, grants>>,
         verdict' \in [Keys -> {"none", "granted", "denied"}]
  PROVE  LimiterInv'
  <1>1. TypeOK /\ RequestsOK /\ \A k \in Keys : Spaced(buckets[k], grants[k])
    BY DEF LimiterInv
  <1>2. req' \in [Reqs -> Goroutine] /\ RequestsOK'
    BY <1>1 DEF TypeOK, RequestsOK
  <1> QED
    BY <1>1, <1>2 DEF LimiterInv, TypeOK

\* What a step that changes the bucket of one key has to show of that key.
LEMMA KeyInv ==
  ASSUME LimiterInv, NEW q \in Reqs, NEW k \in Keys, NEW b \in Bucket,
         NEW gs \in SUBSET Attempt, Spaced(b, gs),
         buckets' = [buckets EXCEPT ![k] = b], grants' = [grants EXCEPT ![k] = gs],
         NEW g \in Goroutine, req' = [req EXCEPT ![q] = g], ~g.stamped,
         verdict' = [verdict EXCEPT ![k] = "granted"], UNCHANGED reaper
  PROVE  LimiterInv'
  <1>1. TypeOK /\ RequestsOK /\ \A p \in Keys : Spaced(buckets[p], grants[p])
    BY DEF LimiterInv
  <1>2. req' \in [Reqs -> Goroutine] /\ RequestsOK'
    BY <1>1 DEF TypeOK, RequestsOK
  <1>3. /\ buckets' \in [Keys -> Bucket] /\ grants' \in [Keys -> SUBSET Attempt]
        /\ buckets'[k] = b /\ grants'[k] = gs
        /\ \A p \in Keys \ {k} : buckets'[p] = buckets[p] /\ grants'[p] = grants[p]
    BY <1>1 DEF TypeOK
  <1>4. \A p \in Keys : Spaced(buckets'[p], grants'[p])
    BY <1>1, <1>3
  <1>5. verdict' \in [Keys -> {"none", "granted", "denied"}]
    BY <1>1 DEF TypeOK
  <1> QED
    BY <1>1, <1>2, <1>3, <1>4, <1>5 DEF LimiterInv, TypeOK

\* What allow does to the bucket of the key and to its attempts.
LEMMA AllowFacts ==
  ASSUME LimiterInv, NEW q \in Reqs, Allow(q)
  PROVE  LET k == Head(req[q].keys)
             b == buckets[k]
             age == req[q].age
             opened == [count |-> 1, left |-> Window - age]
             counted == [b EXCEPT !.count = @ + 1]
             next == [Free EXCEPT !.keys = Tail(req[q].keys)] IN
         /\ k \in Keys /\ b \in Bucket /\ grants[k] \in SUBSET Attempt
         /\ Spaced(b, grants[k]) /\ age \in 0..MaxStall /\ UNCHANGED reaper
         /\ next \in Goroutine /\ ~next.stamped
         /\ \/ /\ Expired(b, age) /\ Left(b) <= -1
               /\ buckets' = [buckets EXCEPT ![k] = opened]
               /\ grants' = [grants EXCEPT ![k] = Superseded(grants[k]) \cup {First(age)}]
               /\ req' = [req EXCEPT ![q] = next]
               /\ verdict' = [verdict EXCEPT ![k] = "granted"]
            \/ /\ ~Expired(b, age) /\ b.count >= Attempts
               /\ UNCHANGED <<buckets, grants>> /\ req' = [req EXCEPT ![q] = Free]
               /\ verdict' = [verdict EXCEPT ![k] = "denied"]
            \/ /\ ~Expired(b, age) /\ b.count > 0 /\ b.count < Attempts
               /\ buckets' = [buckets EXCEPT ![k] = counted]
               /\ grants' = [grants EXCEPT ![k] =
                    @ \cup {Another(counted.count)}]
               /\ req' = [req EXCEPT ![q] = next]
               /\ verdict' = [verdict EXCEPT ![k] = "granted"]
  <1> DEFINE k == Head(req[q].keys)
             b == buckets[k]
             age == req[q].age
             opened == [count |-> 1, left |-> Window - age]
             counted == [b EXCEPT !.count = @ + 1]
             next == [Free EXCEPT !.keys = Tail(req[q].keys)]
  <1>0. TypeOK /\ RequestsOK /\ \A p \in Keys : Spaced(buckets[p], grants[p])
    BY DEF LimiterInv
  <1>1. req[q].keys \in Seq(Keys) /\ req[q].keys # <<>> /\ age \in 0..MaxStall
    BY <1>0 DEF TypeOK, RequestsOK, Allow, Goroutine
  <1>2. k \in Keys /\ Tail(req[q].keys) \in Seq(Keys)
    BY <1>1, HeadAndTail
  <1>3. next \in Goroutine /\ ~next.stamped
    BY <1>2, FreeTyped DEF Goroutine
  <1>4. b \in Bucket /\ grants[k] \in SUBSET Attempt /\ Spaced(b, grants[k])
    BY <1>0, <1>2 DEF TypeOK
  <1>5. b.count \in 0..Attempts /\ b.left \in Int
    BY <1>4, BucketTyped
  <1>6. UNCHANGED reaper
    BY DEF Allow
  <1> HIDE DEF next
  <1>7. CASE Expired(b, age)
    <2>1. buckets' = [buckets EXCEPT ![k] = opened] /\ Grant(q, k)
      BY <1>7 DEF Allow
    <2>2. buckets'[k] = opened
      BY <1>0, <1>2, <2>1 DEF TypeOK
    <2>3. buckets'[k].count = 1
      BY <2>2
    <2>4. grants' = [grants EXCEPT ![k] = Superseded(grants[k]) \cup {First(age)}]
      <3> DEFINE nth == buckets'[k].count
                 late == nth = 1 /\ req[q].age > 0
                 earlier == IF nth = 1 THEN Superseded(grants[k]) ELSE grants[k]
      <3>1. grants' = [grants EXCEPT ![k] = earlier \cup
                         {[age |-> 0, nth |-> nth, newer |-> 0, late |-> late]}]
        BY <2>1 DEF Grant
      <3>2. late = (age > 0)
        BY <2>3
      <3>3. earlier = Superseded(grants[k]) /\ nth = 1
        BY <2>3
      <3> HIDE DEF late, earlier, nth, k, age
      <3> QED
        BY <3>1, <3>2, <3>3 DEF First
    <2>5. Left(b) <= -1
      <3>1. b.count = 0 \/ b.left + age < 0
        BY <1>7 DEF Expired
      <3>2. age >= 0
        BY <1>1, Sizes
      <3> HIDE DEF b, age
      <3> QED
        BY <1>1, <1>5, <3>1, <3>2, Sizes DEF Left
    <2>6. req' = [req EXCEPT ![q] = next] /\ verdict' = [verdict EXCEPT ![k] = "granted"]
      BY <2>1 DEF Grant, next
    <2> QED
      BY <1>1, <1>2, <1>3, <1>4, <1>6, <1>7, <2>1, <2>4, <2>5, <2>6 DEF next
  <1>8. CASE ~Expired(b, age) /\ b.count >= Attempts
    <2>1. UNCHANGED buckets /\ Deny(q, k)
      BY <1>5, <1>8, Sizes DEF Allow
    <2> QED
      BY <1>1, <1>2, <1>3, <1>4, <1>6, <1>8, <2>1 DEF Deny, next
  <1>9. CASE ~Expired(b, age) /\ b.count < Attempts
    <2>1. buckets' = [buckets EXCEPT ![k].count = @ + 1] /\ Grant(q, k)
      BY <1>5, <1>9, Sizes DEF Allow
    <2>2. buckets' = [buckets EXCEPT ![k] = counted]
      BY <2>1
    <2>3. b.count > 0 /\ counted.count = b.count + 1
      BY <1>4, <1>5, <1>9 DEF Expired, Bucket
    <2>4. buckets'[k] = counted
      BY <1>0, <1>2, <2>2 DEF TypeOK
    <2>5. buckets'[k].count = counted.count /\ counted.count # 1
      BY <1>5, <2>3, <2>4
    <2> HIDE DEF counted
    <2>6. grants' = [grants EXCEPT ![k] =
                       grants[k] \cup {Another(counted.count)}]
      BY <2>1, <2>5 DEF Grant, Another
    <2>7. req' = [req EXCEPT ![q] = next] /\ verdict' = [verdict EXCEPT ![k] = "granted"]
      BY <2>1 DEF Grant, next
    <2> QED
      BY <1>1, <1>2, <1>3, <1>4, <1>6, <1>9, <2>2, <2>3, <2>6, <2>7 DEF next, counted
  <1>10. b.count >= Attempts \/ b.count < Attempts
    BY <1>5, Sizes
  <1> HIDE DEF k, b, age, opened, counted
  <1> QED
    BY <1>7, <1>8, <1>9, <1>10

LEMMA AllowInv ==
  ASSUME LimiterInv, NEW q \in Reqs, Allow(q)
  PROVE  LimiterInv'
  <1> DEFINE k == Head(req[q].keys)
             b == buckets[k]
             age == req[q].age
             opened == [count |-> 1, left |-> Window - age]
             counted == [b EXCEPT !.count = @ + 1]
             last == Another(counted.count)
             next == [Free EXCEPT !.keys = Tail(req[q].keys)]
  <1>1. /\ k \in Keys /\ b \in Bucket /\ grants[k] \in SUBSET Attempt
        /\ Spaced(b, grants[k]) /\ age \in 0..MaxStall /\ UNCHANGED reaper
        /\ next \in Goroutine /\ ~next.stamped
    BY AllowFacts
  <1>2. CASE /\ Left(b) <= -1
             /\ buckets' = [buckets EXCEPT ![k] = opened]
             /\ grants' = [grants EXCEPT ![k] = Superseded(grants[k]) \cup {First(age)}]
             /\ req' = [req EXCEPT ![q] = next]
             /\ verdict' = [verdict EXCEPT ![k] = "granted"]
    <2>1. /\ opened \in Bucket /\ Superseded(grants[k]) \cup {First(age)} \in SUBSET Attempt
          /\ Spaced(opened, Superseded(grants[k]) \cup {First(age)})
      BY <1>1, <1>2, OpenedSpaced
    <2> HIDE DEF opened, next, k
    <2> QED
      BY <1>1, <1>2, <2>1, KeyInv
  <1>3. CASE /\ UNCHANGED <<buckets, grants>> /\ req' = [req EXCEPT ![q] = Free]
             /\ verdict' = [verdict EXCEPT ![k] = "denied"]
    <2>1. verdict' \in [Keys -> {"none", "granted", "denied"}]
      BY <1>1, <1>3 DEF LimiterInv, TypeOK
    <2> QED
      BY <1>1, <1>3, <2>1, FreeTyped, RequestInv
  <1>4. CASE /\ b.count > 0 /\ b.count < Attempts
             /\ buckets' = [buckets EXCEPT ![k] = counted]
             /\ grants' = [grants EXCEPT ![k] = @ \cup {last}]
             /\ req' = [req EXCEPT ![q] = next]
             /\ verdict' = [verdict EXCEPT ![k] = "granted"]
    <2>1. /\ counted \in Bucket /\ grants[k] \cup {last} \in SUBSET Attempt
          /\ Spaced(counted, grants[k] \cup {last})
      BY <1>1, <1>4, CountedSpaced
    <2>2. grants' = [grants EXCEPT ![k] = grants[k] \cup {last}]
      BY <1>4
    <2> HIDE DEF counted, last, next, k
    <2> QED
      BY <1>1, <1>4, <2>1, <2>2, KeyInv
  <1> QED
    BY <1>2, <1>3, <1>4, AllowFacts

LEMMA ArriveStampInv ==
  ASSUME LimiterInv, NEW q \in Reqs,
         \/ \E keys \in Routes : Arrive(q, keys)
         \/ Stamp(q)
  PROVE  LimiterInv'
  <1>1. /\ req \in [Reqs -> Goroutine] /\ verdict \in [Keys -> {"none", "granted", "denied"}]
        /\ RequestsOK
    BY DEF LimiterInv, TypeOK
  <1>2. ASSUME NEW keys \in Routes, Arrive(q, keys) PROVE LimiterInv'
    <2> DEFINE g == [req[q] EXCEPT !.keys = keys]
    <2>1. keys \in Seq(Keys) /\ keys # <<>>
      BY RateLimitAssumption
    <2>2. g \in Goroutine /\ g.keys = keys
      BY <1>1, <2>1 DEF Goroutine
    <2>3. req' = [req EXCEPT ![q] = g] /\ UNCHANGED <<buckets, reaper, verdict, grants>>
      BY <1>1, <1>2 DEF Arrive
    <2> HIDE DEF g
    <2> QED
      BY <1>1, <2>1, <2>2, <2>3, RequestInv
  <1>3. CASE Stamp(q)
    <2> DEFINE g == [req[q] EXCEPT !.stamped = TRUE]
    <2>1. req[q].keys # <<>>
      BY <1>3 DEF Stamp
    <2>2. g \in Goroutine /\ g.keys # <<>>
      BY <1>1, <2>1 DEF Goroutine
    <2>3. req' = [req EXCEPT ![q] = g] /\ UNCHANGED <<buckets, reaper, verdict, grants>>
      BY <1>1, <1>3 DEF Stamp
    <2> HIDE DEF g
    <2> QED
      BY <1>1, <2>2, <2>3, RequestInv
  <1> QED
    BY <1>2, <1>3

LEMMA ReaperStampInv ==
  ASSUME LimiterInv, ReaperStamp
  PROVE  LimiterInv'
  <1>1. /\ reaper' = [stamped |-> TRUE, age |-> 0]
        /\ UNCHANGED <<buckets, req, verdict, grants>>
    BY DEF ReaperStamp
  <1>2. reaper' \in [stamped : BOOLEAN, age : 0..MaxStall]
    BY <1>1, Sizes
  <1> QED
    BY <1>1, <1>2 DEF LimiterInv, TypeOK, RequestsOK

LEMMA ReapInv ==
  ASSUME LimiterInv, Reap
  PROVE  LimiterInv'
  <1>1. /\ reaper' = [stamped |-> FALSE, age |-> 0] /\ UNCHANGED <<req, verdict, grants>>
        /\ buckets' = [k \in Keys |-> IF Expired(buckets[k], reaper.age)
                                      THEN Absent ELSE buckets[k]]
    BY DEF Reap
  <1>2. reaper' \in [stamped : BOOLEAN, age : 0..MaxStall]
    BY <1>1, Sizes
  <1>3. reaper.age \in 0..MaxStall
    BY DEF LimiterInv, TypeOK
  <1>4. ASSUME NEW k \in Keys
        PROVE  buckets'[k] \in Bucket /\ Spaced(buckets'[k], grants[k])
    <2>1. /\ buckets[k] \in Bucket /\ grants[k] \in SUBSET Attempt
          /\ Spaced(buckets[k], grants[k])
      BY DEF LimiterInv, TypeOK
    <2>2. CASE Expired(buckets[k], reaper.age)
      <3>1. Left(buckets[k]) <= -1
        BY <1>3, <2>1, <2>2, BucketTyped, Sizes DEF Expired, Left
      <3> QED
        BY <1>1, <2>1, <2>2, <3>1, ReapedSpaced
    <2>3. CASE ~Expired(buckets[k], reaper.age)
      BY <1>1, <2>1, <2>3
    <2> QED
      BY <2>2, <2>3
  <1>5. buckets' \in [Keys -> Bucket]
    <2>1. \A k \in Keys : (IF Expired(buckets[k], reaper.age)
                           THEN Absent ELSE buckets[k]) \in Bucket
      BY <1>1, <1>4
    <2> QED
      BY <1>1, <2>1
  <1> QED
    BY <1>1, <1>2, <1>4, <1>5 DEF LimiterInv, TypeOK, RequestsOK

LEMMA OlderTyped ==
  ASSUME NEW g \in Goroutine, g.stamped => g.age < MaxStall
  PROVE  Older(g) \in Goroutine /\ Older(g).keys = g.keys /\ Older(g).stamped = g.stamped
  <1>1. (IF g.stamped THEN g.age + 1 ELSE 0) \in 0..MaxStall
    BY Sizes DEF Goroutine
  <1> QED
    BY <1>1 DEF Goroutine, Older

LEMMA TickInv ==
  ASSUME LimiterInv, Tick
  PROVE  LimiterInv'
  <1>0. /\ req \in [Reqs -> Goroutine] /\ RequestsOK
        /\ reaper \in [stamped : BOOLEAN, age : 0..MaxStall]
        /\ verdict \in [Keys -> {"none", "granted", "denied"}]
    BY DEF LimiterInv, TypeOK
  <1>1. /\ \A q \in Reqs : req[q].stamped => req[q].age < MaxStall
        /\ reaper.stamped => reaper.age < MaxStall
        /\ buckets' = [k \in Keys |-> IF buckets[k].left > Gone
                                      THEN [buckets[k] EXCEPT !.left = @ - 1]
                                      ELSE buckets[k]]
        /\ req' = [q \in Reqs |-> Older(req[q])] /\ reaper' = Older(reaper)
        /\ grants' = [k \in Keys |-> Aged(grants[k])] /\ UNCHANGED verdict
    BY DEF Tick
  <1>2. /\ req' \in [Reqs -> Goroutine] /\ RequestsOK'
    BY <1>0, <1>1, OlderTyped DEF RequestsOK
  <1>3. reaper' \in [stamped : BOOLEAN, age : 0..MaxStall]
    <2>1. (IF reaper.stamped THEN reaper.age + 1 ELSE 0) \in 0..MaxStall
      BY <1>0, <1>1, Sizes
    <2> QED
      BY <1>0, <1>1, <2>1 DEF Older
  <1>4. ASSUME NEW k \in Keys
        PROVE  /\ buckets'[k] \in Bucket /\ grants'[k] \in SUBSET Attempt
               /\ Spaced(buckets'[k], grants'[k])
    <2>1. /\ buckets[k] \in Bucket /\ grants[k] \in SUBSET Attempt
          /\ Spaced(buckets[k], grants[k])
      BY DEF LimiterInv, TypeOK
    <2> DEFINE new == IF buckets[k].left > Gone THEN [buckets[k] EXCEPT !.left = @ - 1]
                      ELSE buckets[k]
    <2>2. new \in Bucket /\ Aged(grants[k]) \in SUBSET Attempt /\ Spaced(new, Aged(grants[k]))
      BY <2>1, AgedSpaced
    <2>3. buckets'[k] = new /\ grants'[k] = Aged(grants[k])
      BY <1>1
    <2> QED
      BY <2>2, <2>3
  <1>5. buckets' \in [Keys -> Bucket] /\ grants' \in [Keys -> SUBSET Attempt]
    <2>1. /\ \A k \in Keys : (IF buckets[k].left > Gone
                              THEN [buckets[k] EXCEPT !.left = @ - 1]
                              ELSE buckets[k]) \in Bucket
          /\ \A k \in Keys : Aged(grants[k]) \in SUBSET Attempt
      BY <1>1, <1>4
    <2> QED
      BY <1>1, <2>1
  <1> QED
    BY <1>0, <1>1, <1>2, <1>3, <1>4, <1>5 DEF LimiterInv, TypeOK

LEMMA InitLimiterInv == Init => LimiterInv
  <1> SUFFICES ASSUME Init PROVE LimiterInv
    OBVIOUS
  <1>1. Absent \in Bucket
    BY Sizes DEF Absent, Bucket
  <1>2. \A k \in Keys : grants[k] = {}
    BY DEF Init
  <1>3. \A k \in Keys : Spaced(buckets[k], grants[k])
    BY <1>2 DEF Spaced
  <1>4. TypeOK /\ RequestsOK
    BY <1>1, FreeTyped, Sizes DEF Init, TypeOK, RequestsOK
  <1> QED
    BY <1>3, <1>4 DEF LimiterInv

LEMMA NextLimiterInv == LimiterInv /\ [Next]_vars => LimiterInv'
  <1> SUFFICES ASSUME LimiterInv, [Next]_vars PROVE LimiterInv'
    OBVIOUS
  <1>1. ASSUME NEW q \in Reqs, Middleware(q) PROVE LimiterInv'
    BY <1>1, ArriveStampInv, AllowInv DEF Middleware
  <1>2. CASE UNCHANGED vars
    BY <1>2 DEF vars, LimiterInv, TypeOK, RequestsOK
  <1> QED
    BY <1>1, <1>2, ReaperStampInv, ReapInv, TickInv DEF Next

LEMMA LimiterInvariant == Spec => []LimiterInv
  BY InitLimiterInv, NextLimiterInv, PTL DEF Spec

-----------------------------------------------------------------------------
(* When the buckets of recent attempts were opened. *)

LEMMA OpenedDated ==
  ASSUME NEW b \in Bucket, NEW gs \in SUBSET Attempt, Dated(b, gs), Left(b) <= -1,
         NEW age \in 0..MaxStall
  PROVE  Dated([count |-> 1, left |-> Window - age], Superseded(gs) \cup {First(age)})
  <1> DEFINE new == [count |-> 1, left |-> Window - age]
             first == First(age)
             all == Superseded(gs) \cup {first}
  <1>1. Left(new) = Window - age
    BY DEF Left
  <1>2. /\ first.age = 0 /\ first.nth = 1 /\ first.newer = 0 /\ first.late = (age > 0)
        /\ age \in Nat
    BY FirstFacts, Sizes
  <1>3. \A g \in Superseded(gs) :
          \E h \in gs : /\ g = Supersede(h) /\ g.age = h.age /\ g.nth = h.nth
                        /\ g.newer = h.newer + 1 /\ g.late = h.late
    BY SupersededFacts
  <1> HIDE DEF new, first
  <1>4. ASSUME NEW h \in gs PROVE Supersede(h) \in all
    BY DEF Superseded
  <1>5. ASSUME NEW g \in all, g.newer >= 1
        PROVE  \E o \in all : o.nth = 1 /\ o.newer = g.newer - 1 /\ o.age <= g.age
    <2>1. PICK h \in gs : g.age = h.age /\ g.newer = h.newer + 1
      BY <1>2, <1>3, <1>5
    <2>2. h.age \in 0..Window /\ h.newer \in Nat
      BY AttemptTyped
    <2>3. CASE h.newer = 0
      BY <1>2, <2>1, <2>2, <2>3
    <2>4. CASE h.newer >= 1
      <3>1. PICK o \in gs : o.nth = 1 /\ o.newer = h.newer - 1 /\ o.age <= h.age
        BY <2>4 DEF Dated
      <3>2. /\ Supersede(o).nth = 1 /\ Supersede(o).age = o.age
            /\ Supersede(o).newer = o.newer + 1
        BY <3>1, SupersedeFacts
      <3>3. Supersede(o).newer = g.newer - 1 /\ Supersede(o).age <= g.age
        BY <2>1, <2>2, <3>1, <3>2
      <3> QED
        BY <1>4, <3>2, <3>3
    <2> QED
      BY <2>2, <2>3, <2>4
  <1>6. ASSUME NEW o \in Superseded(gs) PROVE ~Prompt(o)
    <2>1. PICK h \in gs : o.nth = h.nth /\ o.late = h.late
      BY <1>3
    <2>2. h.age \in 0..Window
      BY AttemptTyped
    <2>3. Prompt(h) => h.newer = 0 /\ Left(b) = Window - h.age
      BY DEF Dated
    <2> QED
      BY <2>1, <2>2, <2>3, Sizes DEF Prompt
  <1>7. ASSUME NEW o \in all, Prompt(o)
        PROVE  o.newer = 0 /\ Left(new) = Window - o.age
    <2>1. o = first
      BY <1>6, <1>7
    <2>2. age = 0
      <3>1. Prompt(First(age))
        BY <1>7, <2>1 DEF first
      <3>2. ~(age > 0)
        BY <3>1 DEF Prompt, First
      <3> QED
        BY <1>2, <3>2
    <2> QED
      BY <1>1, <1>2, <2>1, <2>2
  <1> QED
    BY <1>5, <1>7 DEF Dated, new, first

LEMMA CountedDated ==
  ASSUME NEW b \in Bucket, NEW gs \in SUBSET Attempt, Dated(b, gs),
         b.count > 0, b.count < Attempts
  PROVE  LET new == [b EXCEPT !.count = @ + 1] IN
         Dated(new, gs \cup {Another(new.count)})
  <1> DEFINE new == [b EXCEPT !.count = @ + 1]
             last == Another(new.count)
             all == gs \cup {last}
  <1>1. b.count \in Nat /\ new.count = b.count + 1 /\ new.left = b.left
    BY BucketTyped DEF Bucket
  <1>2. Left(new) = Left(b)
    BY <1>1 DEF Left
  <1>3. last.newer = 0 /\ last.nth = b.count + 1
    BY <1>1 DEF Another
  <1> HIDE DEF new, last
  <1>4. ~Prompt(last)
    BY <1>1, <1>3 DEF Prompt
  <1>5. ASSUME NEW g \in all, g.newer >= 1
        PROVE  \E o \in all : o.nth = 1 /\ o.newer = g.newer - 1 /\ o.age <= g.age
    <2>1. g \in gs
      BY <1>3, <1>5
    <2> QED
      BY <1>5, <2>1 DEF Dated
  <1>6. ASSUME NEW o \in all, Prompt(o)
        PROVE  o.newer = 0 /\ Left(new) = Window - o.age
    BY <1>2, <1>4, <1>6 DEF Dated
  <1> QED
    BY <1>5, <1>6 DEF Dated, new, last

LEMMA ReapedDated ==
  ASSUME NEW b \in Bucket, NEW gs \in SUBSET Attempt, Dated(b, gs), Left(b) <= -1
  PROVE  Dated(Absent, gs)
  <1>1. ASSUME NEW o \in gs, Prompt(o), o.newer = 0 PROVE FALSE
    <2>1. Left(b) = Window - o.age /\ o.age \in 0..Window
      BY <1>1, AttemptTyped DEF Dated
    <2> QED
      BY <2>1, Sizes
  <1> QED
    BY <1>1 DEF Dated

LEMMA AgedDated ==
  ASSUME NEW b \in Bucket, NEW gs \in SUBSET Attempt, Dated(b, gs)
  PROVE  Dated(IF b.left > Gone THEN [b EXCEPT !.left = @ - 1] ELSE b, Aged(gs))
  <1> DEFINE new == IF b.left > Gone THEN [b EXCEPT !.left = @ - 1] ELSE b
  <1>0. b.left \in Gone..Window /\ b.count \in Nat
    BY BucketTyped
  <1>1. new.count = b.count /\ new.left = IF b.left > Gone THEN b.left - 1 ELSE b.left
    BY DEF Bucket
  <1>2. Left(b) >= 0 => Left(new) = Left(b) - 1
    BY <1>0, <1>1, Sizes DEF Left
  <1>3. \A g \in Aged(gs) :
          /\ g \in Attempt
          /\ \E h \in gs : /\ g = Ages(h) /\ g.age = h.age + 1 /\ g.nth = h.nth
                           /\ g.newer = h.newer /\ g.late = h.late
    BY AgedFacts
  <1> HIDE DEF new
  <1>4. ASSUME NEW g \in Aged(gs), g.newer >= 1
        PROVE  \E o \in Aged(gs) : o.nth = 1 /\ o.newer = g.newer - 1 /\ o.age <= g.age
    <2>1. PICK h \in gs : g.age = h.age + 1 /\ g.newer = h.newer
      BY <1>3
    <2>2. h.age \in 0..Window /\ h.age + 1 <= Window
      BY <1>3, <2>1, AttemptTyped
    <2>3. PICK o \in gs : o.nth = 1 /\ o.newer = h.newer - 1 /\ o.age <= h.age
      BY <1>4, <2>1 DEF Dated
    <2>4. o.age \in 0..Window /\ o.age < Window
      BY <2>2, <2>3, AttemptTyped, Sizes
    <2>5. Ages(o).nth = 1 /\ Ages(o).newer = o.newer /\ Ages(o).age = o.age + 1
      BY <2>3, <2>4, AgesFacts
    <2>6. Ages(o) \in Aged(gs)
      BY <2>4 DEF Aged
    <2>7. Ages(o).newer = g.newer - 1 /\ Ages(o).age <= g.age
      BY <2>1, <2>2, <2>3, <2>4, <2>5
    <2> QED
      BY <2>5, <2>6, <2>7
  <1>5. ASSUME NEW o \in Aged(gs), Prompt(o)
        PROVE  o.newer = 0 /\ Left(new) = Window - o.age
    <2>1. PICK h \in gs : /\ o.age = h.age + 1 /\ o.nth = h.nth /\ o.newer = h.newer
                          /\ o.late = h.late
      BY <1>3
    <2>2. h.newer = 0 /\ Left(b) = Window - h.age
      BY <1>5, <2>1 DEF Dated, Prompt
    <2>3. h.age \in 0..Window /\ h.age + 1 <= Window
      BY <1>3, <2>1, AttemptTyped
    <2> QED
      BY <1>2, <2>1, <2>2, <2>3, Sizes
  <1> QED
    BY <1>4, <1>5 DEF Dated, new

LEMMA NextDated ==
  ASSUME LimiterInv, DatedInv, [Next]_vars
  PROVE  DatedInv'
  <1>0. /\ grants \in [Keys -> SUBSET Attempt] /\ buckets \in [Keys -> Bucket]
        /\ \A k \in Keys : Dated(buckets[k], grants[k])
    BY DEF LimiterInv, TypeOK, DatedInv
  <1>1. ASSUME NEW k \in Keys, NEW b, NEW gs, Dated(b, gs),
               buckets' = [buckets EXCEPT ![k] = b], grants' = [grants EXCEPT ![k] = gs]
        PROVE  DatedInv'
    BY <1>0, <1>1 DEF DatedInv
  <1>2. ASSUME NEW q \in Reqs, Allow(q) PROVE DatedInv'
    <2> DEFINE k == Head(req[q].keys)
               b == buckets[k]
               age == req[q].age
               opened == [count |-> 1, left |-> Window - age]
               counted == [b EXCEPT !.count = @ + 1]
               last == Another(counted.count)
    <2>1. /\ k \in Keys /\ b \in Bucket /\ grants[k] \in SUBSET Attempt /\ age \in 0..MaxStall
          /\ \/ /\ Left(b) <= -1 /\ buckets' = [buckets EXCEPT ![k] = opened]
                /\ grants' = [grants EXCEPT ![k] = Superseded(grants[k]) \cup {First(age)}]
             \/ UNCHANGED <<buckets, grants>>
             \/ /\ b.count > 0 /\ b.count < Attempts
                /\ buckets' = [buckets EXCEPT ![k] = counted]
                /\ grants' = [grants EXCEPT ![k] = @ \cup {last}]
      BY <1>2, AllowFacts
    <2>2. Dated(b, grants[k])
      BY <1>0, <2>1
    <2>3. CASE /\ Left(b) <= -1 /\ buckets' = [buckets EXCEPT ![k] = opened]
               /\ grants' = [grants EXCEPT ![k] = Superseded(grants[k]) \cup {First(age)}]
      <3>1. Dated(opened, Superseded(grants[k]) \cup {First(age)})
        BY <2>1, <2>2, <2>3, OpenedDated
      <3> HIDE DEF opened, k
      <3> QED
        BY <1>1, <2>1, <2>3, <3>1
    <2>4. CASE /\ b.count > 0 /\ b.count < Attempts
               /\ buckets' = [buckets EXCEPT ![k] = counted]
               /\ grants' = [grants EXCEPT ![k] = @ \cup {last}]
      <3>1. Dated(counted, grants[k] \cup {last})
        BY <2>1, <2>2, <2>4, CountedDated
      <3>2. grants' = [grants EXCEPT ![k] = grants[k] \cup {last}]
        BY <2>4
      <3> HIDE DEF counted, last, k
      <3> QED
        BY <1>1, <2>1, <2>4, <3>1, <3>2
    <2>5. CASE UNCHANGED <<buckets, grants>>
      BY <2>5 DEF DatedInv
    <2> HIDE DEF opened, counted, last, k
    <2> QED
      BY <2>1, <2>3, <2>4, <2>5
  <1>3. CASE Reap
    <2>1. ASSUME NEW k \in Keys PROVE Dated(buckets'[k], grants[k])
      <3>1. /\ buckets[k] \in Bucket /\ grants[k] \in SUBSET Attempt
            /\ Dated(buckets[k], grants[k]) /\ reaper.age \in 0..MaxStall
        BY <1>0 DEF LimiterInv, TypeOK
      <3>2. buckets'[k] = IF Expired(buckets[k], reaper.age) THEN Absent ELSE buckets[k]
        BY <1>3 DEF Reap
      <3>3. Expired(buckets[k], reaper.age) => Left(buckets[k]) <= -1
        BY <3>1, BucketTyped, Sizes DEF Expired, Left
      <3> QED
        BY <3>1, <3>2, <3>3, ReapedDated
    <2>2. UNCHANGED grants
      BY <1>3 DEF Reap
    <2> QED
      BY <2>1, <2>2 DEF DatedInv
  <1>4. CASE Tick
    <2>1. ASSUME NEW k \in Keys PROVE Dated(buckets'[k], grants'[k])
      <3>1. /\ buckets'[k] = IF buckets[k].left > Gone
                             THEN [buckets[k] EXCEPT !.left = @ - 1] ELSE buckets[k]
            /\ grants'[k] = Aged(grants[k])
        BY <1>4 DEF Tick
      <3> QED
        BY <1>0, <3>1, AgedDated
    <2> QED
      BY <2>1 DEF DatedInv
  <1>5. CASE UNCHANGED <<buckets, grants>>
    BY <1>5 DEF DatedInv
  <1> QED
    BY <1>2, <1>3, <1>4, <1>5 DEF Next, Middleware, Arrive, Stamp, ReaperStamp, vars

LEMMA DatedInvariant == Spec => []DatedInv
  <1>1. Init => DatedInv
    BY DEF Init, DatedInv, Dated
  <1>2. LimiterInv /\ DatedInv /\ [Next]_vars => DatedInv'
    BY NextDated
  <1> QED
    BY <1>1, <1>2, LimiterInvariant, PTL DEF Spec

-----------------------------------------------------------------------------
(* How many attempts there are. *)

\* If no bucket was opened late, the recent attempts come from two of them: the opening
\* of the one between would have to be recent, with its window over.
LEMMA OnTimeFew ==
  ASSUME NEW b, NEW gs \in SUBSET Attempt, Dated(b, gs), \A g \in gs : ~g.late
  PROVE  Few(1, gs)
  <1> SUFFICES ASSUME NEW g \in gs, ~(g.newer <= 1) PROVE FALSE
    BY DEF Few
  <1>1. g.newer \in Nat /\ g.newer >= 2
    BY AttemptTyped
  <1>2. PICK o \in gs : o.nth = 1 /\ o.newer = g.newer - 1
    BY <1>1 DEF Dated
  <1>3. o.newer = 0
    BY <1>2 DEF Dated, Prompt
  <1> QED
    BY <1>1, <1>2, <1>3

\* When a bucket is opened, the attempts that were two buckets old have left the window,
\* if stamps are late by no more than half of it.
LEMMA OpenedFew ==
  ASSUME 2 * MaxStall <= Window, NEW b \in Bucket, NEW gs \in SUBSET Attempt,
         Spaced(b, gs), Left(b) <= -1, Few(2, gs), NEW age \in Nat
  PROVE  Few(2, Superseded(gs) \cup {First(age)})
  <1>1. ASSUME NEW h \in gs PROVE h.newer + 1 <= 2
    <2>1. h.age \in 0..Window /\ h.newer \in Nat /\ h.newer <= 2
      BY AttemptTyped DEF Few
    <2>2. h.newer >= 2 => h.age >= 2 * Window + 1 - Left(b) - 2 * MaxStall
      BY DEF Spaced
    <2> QED
      BY <2>1, <2>2, BucketTyped, Sizes
  <1>2. First(age).newer = 0
    BY FirstFacts
  <1>3. \A g \in Superseded(gs) : \E h \in gs : g.newer = h.newer + 1
    BY SupersededFacts
  <1>4. ASSUME NEW g \in Superseded(gs) PROVE g.newer <= 2
    <2>1. PICK h \in gs : g.newer = h.newer + 1
      BY <1>3
    <2> QED
      BY <1>1, <2>1
  <1> QED
    BY <1>2, <1>4 DEF Few

LEMMA NextFew ==
  ASSUME 2 * MaxStall <= Window, LimiterInv, \A k \in Keys : Few(2, grants[k]), [Next]_vars
  PROVE  \A k \in Keys : Few(2, grants'[k])
  <1>0. grants \in [Keys -> SUBSET Attempt]
    BY DEF LimiterInv, TypeOK
  <1>1. ASSUME NEW q \in Reqs, Allow(q) PROVE \A k \in Keys : Few(2, grants'[k])
    <2> DEFINE k == Head(req[q].keys)
               b == buckets[k]
               age == req[q].age
               counted == [b EXCEPT !.count = @ + 1]
               last == Another(counted.count)
    <2>1. /\ k \in Keys /\ b \in Bucket /\ grants[k] \in SUBSET Attempt
          /\ Spaced(b, grants[k]) /\ age \in 0..MaxStall
          /\ \/ /\ Left(b) <= -1
                /\ grants' = [grants EXCEPT ![k] = Superseded(grants[k]) \cup {First(age)}]
             \/ UNCHANGED grants
             \/ grants' = [grants EXCEPT ![k] = @ \cup {last}]
      BY <1>1, AllowFacts
    <2>2. last.newer = 0 /\ age \in Nat
      BY <2>1, Sizes DEF Another
    <2> HIDE DEF last, k, age
    <2>3. CASE /\ Left(b) <= -1
               /\ grants' = [grants EXCEPT ![k] = Superseded(grants[k]) \cup {First(age)}]
      BY <1>0, <2>1, <2>2, <2>3, OpenedFew
    <2>4. CASE grants' = [grants EXCEPT ![k] = @ \cup {last}]
      <3>1. Few(2, grants[k] \cup {last})
        BY <2>1, <2>2 DEF Few
      <3> QED
        BY <1>0, <2>1, <2>4, <3>1
    <2> QED
      BY <2>1, <2>3, <2>4
  <1>2. CASE Tick
    <2>1. ASSUME NEW k \in Keys PROVE Few(2, grants'[k])
      <3>1. grants'[k] = Aged(grants[k]) /\ grants[k] \in SUBSET Attempt
        BY <1>0, <1>2 DEF Tick
      <3>2. \A g \in Aged(grants[k]) : \E h \in grants[k] : g.newer = h.newer
        BY <3>1, AgedFacts
      <3> QED
        BY <3>1, <3>2 DEF Few
    <2> QED
      BY <2>1
  <1>3. CASE UNCHANGED grants
    BY <1>3
  <1> QED
    BY <1>1, <1>2, <1>3 DEF Next, Middleware, Arrive, Stamp, ReaperStamp, Reap, vars

\* The attempts of one bucket are told apart by their numbers.
LEMMA OneBucket ==
  ASSUME NEW gs \in SUBSET Attempt, NEW n \in Nat,
         \A g, h \in gs : g.newer = h.newer /\ g.nth = h.nth => g = h
  PROVE  LET those == {g \in gs : g.newer = n} IN
         IsFiniteSet(those) /\ Cardinality(those) \in Nat /\ Cardinality(those) <= Attempts
  <1> DEFINE those == {g \in gs : g.newer = n}
             number == [g \in those |-> g.nth]
  <1>1. number \in [those -> 1..Attempts]
    BY AttemptTyped
  <1>2. \A g, h \in those : number[g] = number[h] => g = h
    OBVIOUS
  <1> HIDE DEF those, number
  <1>3. number \in Injection(those, 1..Attempts)
    BY <1>1, <1>2 DEF Injection, IsInjective
  <1>4. IsFiniteSet(1..Attempts) /\ Cardinality(1..Attempts) = Attempts
    BY FS_Interval, Sizes
  <1>5. IsFiniteSet(those) /\ Cardinality(those) <= Attempts
    BY <1>3, <1>4, FS_Injection
  <1>6. Cardinality(those) \in Nat
    BY <1>5, FS_CardinalityType
  <1> QED
    BY <1>5, <1>6 DEF those

LEMMA DisjointSizes ==
  ASSUME NEW S, IsFiniteSet(S), NEW T, IsFiniteSet(T), S \cap T = {}
  PROVE  /\ IsFiniteSet(S \cup T)
         /\ Cardinality(S \cup T) = Cardinality(S) + Cardinality(T)
  <1>1. Cardinality(S \cap T) = 0
    BY FS_EmptySet
  <1>2. Cardinality(S) \in Nat /\ Cardinality(T) \in Nat
    BY FS_CardinalityType
  <1>3. /\ IsFiniteSet(S \cup T)
        /\ Cardinality(S \cup T) = Cardinality(S) + Cardinality(T) - Cardinality(S \cap T)
    BY FS_Union
  <1> QED
    BY <1>1, <1>2, <1>3

LEMMA TwoBuckets ==
  ASSUME NEW gs \in SUBSET Attempt, Few(1, gs),
         \A g, h \in gs : g.newer = h.newer /\ g.nth = h.nth => g = h
  PROVE  IsFiniteSet(gs) /\ Cardinality(gs) <= 2 * Attempts
  <1> DEFINE young == {g \in gs : g.newer = 0}
             old == {g \in gs : g.newer = 1}
  <1>1. /\ IsFiniteSet(young) /\ Cardinality(young) \in Nat
        /\ Cardinality(young) <= Attempts
        /\ IsFiniteSet(old) /\ Cardinality(old) \in Nat /\ Cardinality(old) <= Attempts
    BY OneBucket
  <1>2. gs = young \cup old /\ young \cap old = {}
    BY AttemptTyped DEF Few
  <1> HIDE DEF young, old
  <1>3. IsFiniteSet(gs) /\ Cardinality(gs) = Cardinality(young) + Cardinality(old)
    BY <1>1, <1>2, DisjointSizes
  <1> QED
    BY <1>1, <1>2, <1>3, Sizes

LEMMA ThreeBuckets ==
  ASSUME NEW gs \in SUBSET Attempt, Few(2, gs),
         \A g, h \in gs : g.newer = h.newer /\ g.nth = h.nth => g = h
  PROVE  Cardinality(gs) <= 3 * Attempts
  <1> DEFINE young == {g \in gs : g.newer <= 1}
             old == {g \in gs : g.newer = 2}
  <1>1. IsFiniteSet(old) /\ Cardinality(old) \in Nat /\ Cardinality(old) <= Attempts
    BY OneBucket
  <1>2. IsFiniteSet(young) /\ Cardinality(young) <= 2 * Attempts
    <2>1. young \in SUBSET Attempt /\ Few(1, young)
      BY DEF Few
    <2>2. \A g, h \in young : g.newer = h.newer /\ g.nth = h.nth => g = h
      OBVIOUS
    <2> HIDE DEF young
    <2> QED
      BY <2>1, <2>2, TwoBuckets
  <1>3. Cardinality(young) \in Nat
    BY <1>2, FS_CardinalityType
  <1>4. gs = young \cup old /\ young \cap old = {}
    BY AttemptTyped DEF Few
  <1> HIDE DEF young, old
  <1>5. Cardinality(young \cup old) = Cardinality(young) + Cardinality(old)
    BY <1>1, <1>2, <1>4, DisjointSizes
  <1> QED
    BY <1>1, <1>2, <1>3, <1>4, <1>5, Sizes

-----------------------------------------------------------------------------
(* The theorems. *)

\* Every bucket holds at most Attempts and every goroutine a stamp within its bound.
THEOREM LimiterTypeCorrect == Spec => []TypeOK
  <1>1. LimiterInv => TypeOK
    BY DEF LimiterInv
  <1> QED
    BY <1>1, LimiterInvariant, PTL

\* Whatever the limit, the window and the stall of goroutines, no interval as long as a
\* window lets more than twice the limit through, unless one of the buckets its attempts
\* come from was opened late: otherwise they come from two.
THEOREM LimiterLetsTwice == Spec => []AtMostTwice
  <1>1. LimiterInv /\ DatedInv => AtMostTwice
    <2> SUFFICES ASSUME LimiterInv, DatedInv, NEW k \in Keys, \A g \in grants[k] : ~g.late
                 PROVE  Recent(k) <= 2 * Attempts
      BY DEF AtMostTwice
    <2>1. /\ grants[k] \in SUBSET Attempt /\ Spaced(buckets[k], grants[k])
          /\ Dated(buckets[k], grants[k])
      BY DEF LimiterInv, TypeOK, DatedInv
    <2>2. Few(1, grants[k])
      BY <2>1, OnTimeFew
    <2> QED
      BY <2>1, <2>2, TwoBuckets DEF Recent, Spaced
  <1> QED
    BY <1>1, LimiterInvariant, DatedInvariant, PTL

\* When goroutines are held up between the clock and the lock for half a window at the
\* most, it is three times the limit: the reaper, or allow, may have judged a bucket
\* by a stamp that another goroutine's was older than.
THEOREM StalledLimiterLetsThrice ==
  ASSUME 2 * MaxStall <= Window
  PROVE  Spec => []AtMostThrice
  <1> DEFINE Three == \A k \in Keys : Few(2, grants[k])
  <1>1. Init => Three
    BY DEF Init, Few
  <1>2. LimiterInv /\ Three /\ [Next]_vars => Three'
    BY NextFew
  <1>3. LimiterInv /\ Three => AtMostThrice
    <2> SUFFICES ASSUME LimiterInv, Three, NEW k \in Keys PROVE Recent(k) <= 3 * Attempts
      BY DEF AtMostThrice
    <2>1. grants[k] \in SUBSET Attempt /\ Few(2, grants[k]) /\ Spaced(buckets[k], grants[k])
      BY DEF LimiterInv, TypeOK
    <2> QED
      BY <2>1, ThreeBuckets DEF Recent, Spaced
  <1> HIDE DEF Three
  <1> QED
    BY <1>1, <1>2, <1>3, LimiterInvariant, PTL DEF Spec

-----------------------------------------------------------------------------
(* The refinement of FixedWindow. *)

UsedOf(b) == IF Open(b) THEN b.count ELSE 0
LeftOf(b) == IF Open(b) THEN b.left ELSE -1

Used == [k \in Keys |-> UsedOf(buckets[k])]
Remaining == [k \in Keys |-> LeftOf(buckets[k])]

LEMMA UsedChanges ==
  ASSUME NEW k \in Keys, NEW new, buckets \in [Keys -> Bucket],
         buckets' = [buckets EXCEPT ![k] = new]
  PROVE  /\ Used' = [Used EXCEPT ![k] = UsedOf(new)]
         /\ Remaining' = [Remaining EXCEPT ![k] = LeftOf(new)]
  <1>1. \A p \in Keys : buckets'[p] = IF p = k THEN new ELSE buckets[p]
    OBVIOUS
  <1>2. Used' = [p \in Keys |-> IF p = k THEN UsedOf(new) ELSE UsedOf(buckets[p])]
    BY <1>1, Zenon DEF Used
  <1>3. Remaining' = [p \in Keys |-> IF p = k THEN LeftOf(new) ELSE LeftOf(buckets[p])]
    BY <1>1, Zenon DEF Remaining
  <1> QED
    BY <1>2, <1>3 DEF Used, Remaining

LEMMA AbstractVars ==
  /\ Used = [k \in Keys |-> IF Open(buckets[k]) THEN buckets[k].count ELSE 0]
  /\ Remaining = [k \in Keys |-> IF Open(buckets[k]) THEN buckets[k].left ELSE -1]
  /\ Used' = [k \in Keys |-> IF Open(buckets'[k]) THEN buckets'[k].count ELSE 0]
  /\ Remaining' = [k \in Keys |-> IF Open(buckets'[k]) THEN buckets'[k].left ELSE -1]
  BY DEF Used, Remaining, UsedOf, LeftOf

LEMMA BeginStep ==
  ASSUME NEW k \in Keys, NEW new, buckets \in [Keys -> Bucket],
         buckets' = [buckets EXCEPT ![k] = new], UsedOf(new) = 1, LeftOf(new) = Window,
         ~Open(buckets[k]), verdict' = [verdict EXCEPT ![k] = "granted"]
  PROVE  Abstract!Begin(k)
  <1>1. /\ Used' = [Used EXCEPT ![k] = 1]
        /\ Remaining' = [Remaining EXCEPT ![k] = Window]
    BY UsedChanges, Zenon
  <1>2. ~(Remaining[k] >= 0)
    BY DEF Remaining, LeftOf
  <1> QED
    BY <1>1, <1>2, AbstractVars, Zenon DEF Abstract!Begin, Abstract!Open

LEMMA GrantStep ==
  ASSUME NEW k \in Keys, NEW new, buckets \in [Keys -> Bucket],
         buckets' = [buckets EXCEPT ![k] = new],
         UsedOf(new) = UsedOf(buckets[k]) + 1, LeftOf(new) = LeftOf(buckets[k]),
         LeftOf(buckets[k]) >= 0, UsedOf(buckets[k]) < Attempts,
         verdict' = [verdict EXCEPT ![k] = "granted"]
  PROVE  Abstract!Grant(k)
  <1>1. Used[k] = UsedOf(buckets[k]) /\ Remaining[k] = LeftOf(buckets[k])
    BY DEF Used, Remaining
  <1>0. /\ Used' = [Used EXCEPT ![k] = UsedOf(new)]
        /\ Remaining' = [Remaining EXCEPT ![k] = LeftOf(new)]
    BY UsedChanges, Zenon
  <1>2. Used' = [Used EXCEPT ![k] = UsedOf(buckets[k]) + 1]
    BY <1>0, Zenon
  <1>3. Remaining' = [Remaining EXCEPT ![k] = LeftOf(buckets[k])]
    BY <1>0, Zenon
  <1>4. Used' = [Used EXCEPT ![k] = @ + 1]
    BY <1>1, <1>2, Zenon
  <1>5. Remaining' = Remaining
    BY <1>3 DEF Remaining
  <1>6. Remaining[k] >= 0 /\ Used[k] < Attempts
    BY <1>1, Zenon
  <1> QED
    BY <1>4, <1>5, <1>6, AbstractVars, Zenon DEF Abstract!Grant, Abstract!Open

LEMMA Expiry ==
  ASSUME NEW b \in Bucket, NEW age \in 0..MaxStall
  PROVE  /\ Expired(b, age) => ~Open(b)
         /\ age = 0 /\ ~Open(b) => Expired(b, age)
         /\ Open(b) => b.count \in 1..Attempts /\ b.left \in 0..Window
  BY BucketTyped, Sizes DEF Expired, Open

\* A bucket that is gone is one that is not open.
LEMMA ReapIsHidden ==
  ASSUME LimiterInv, Reap
  PROVE  UNCHANGED Abstract!vars
  <1>1. /\ buckets' = [k \in Keys |-> IF Expired(buckets[k], reaper.age)
                                      THEN Absent ELSE buckets[k]]
        /\ UNCHANGED verdict
    BY DEF Reap
  <1>2. reaper.age \in 0..MaxStall /\ \A k \in Keys : buckets[k] \in Bucket
    BY DEF LimiterInv, TypeOK
  <1>3. ~Open(Absent)
    BY DEF Open, Absent
  <1>4. \A k \in Keys : UsedOf(buckets'[k]) = UsedOf(buckets[k])
                        /\ LeftOf(buckets'[k]) = LeftOf(buckets[k])
    BY <1>1, <1>2, <1>3, Expiry DEF UsedOf, LeftOf
  <1> QED
    BY <1>1, <1>4 DEF Abstract!vars, UsedOf, LeftOf

LEMMA TickIsTick ==
  ASSUME LimiterInv, Tick
  PROVE  Abstract!Tick
  <1>1. /\ buckets' = [k \in Keys |-> IF buckets[k].left > Gone
                                      THEN [buckets[k] EXCEPT !.left = @ - 1]
                                      ELSE buckets[k]]
        /\ UNCHANGED verdict
    BY DEF Tick
  <1>2. ASSUME NEW k \in Keys
        PROVE  /\ LeftOf(buckets'[k]) = IF LeftOf(buckets[k]) >= 0
                                        THEN LeftOf(buckets[k]) - 1 ELSE -1
               /\ UsedOf(buckets'[k]) = IF LeftOf(buckets[k]) > 0
                                        THEN UsedOf(buckets[k]) ELSE 0
    <2>1. /\ buckets[k] \in Bucket /\ buckets[k].count \in Nat
          /\ buckets[k].left \in Gone..Window /\ Gone <= -1 /\ Gone \in Int
      BY BucketTyped, Sizes DEF LimiterInv, TypeOK
    <2>2. /\ buckets'[k].count = buckets[k].count
          /\ buckets'[k].left = IF buckets[k].left > Gone THEN buckets[k].left - 1
                                ELSE buckets[k].left
      BY <1>1, <2>1 DEF Bucket
    <2> QED
      BY <2>1, <2>2, Sizes DEF LeftOf, UsedOf, Open
  <1> QED
    BY <1>1, <1>2 DEF Abstract!Tick, Abstract!Open, LeftOf, UsedOf

\* With a stamp of the moment allow opens a window, counts in the open one, or refuses because it is full.
LEMMA PromptAllow ==
  ASSUME LimiterInv, NEW q \in Reqs, Allow(q), ~(req[q].age > 0)
  PROVE  \E k \in Keys : Abstract!Begin(k) \/ Abstract!Grant(k) \/ Abstract!Deny(k)
  <1>k. PICK k \in Keys : k = Head(req[q].keys)
    BY AllowFacts
  <1> DEFINE b == buckets[k]
             age == req[q].age
             opened == [count |-> 1, left |-> Window - age]
             counted == [b EXCEPT !.count = @ + 1]
  <1>0. buckets \in [Keys -> Bucket] /\ \A p \in Keys : buckets[p] \in Bucket
    BY DEF LimiterInv, TypeOK
  <1>1. /\ k \in Keys /\ b \in Bucket /\ age \in 0..MaxStall
        /\ \/ /\ Expired(b, age) /\ buckets' = [buckets EXCEPT ![k] = opened]
              /\ verdict' = [verdict EXCEPT ![k] = "granted"]
           \/ /\ ~Expired(b, age) /\ b.count >= Attempts /\ UNCHANGED buckets
              /\ verdict' = [verdict EXCEPT ![k] = "denied"]
           \/ /\ ~Expired(b, age) /\ b.count < Attempts
              /\ buckets' = [buckets EXCEPT ![k] = counted]
              /\ verdict' = [verdict EXCEPT ![k] = "granted"]
    BY <1>k, AllowFacts
  <1>2. /\ age = 0 /\ (Expired(b, age) <=> ~Open(b))
        /\ Open(b) => b.count \in 1..Attempts /\ b.left \in 0..Window
    BY <1>1, Expiry, Sizes
  <1>3. Used[k] = UsedOf(b) /\ Remaining[k] = LeftOf(b)
    BY <1>1 DEF Used, Remaining
  <1>4. CASE Expired(b, age) /\ buckets' = [buckets EXCEPT ![k] = opened]
    <2>1. opened.count = 1 /\ opened.left = Window /\ Open(opened)
      BY <1>2, Sizes DEF Open
    <2> HIDE DEF opened
    <2>2. UsedOf(opened) = 1 /\ LeftOf(opened) = Window
      BY <2>1 DEF UsedOf, LeftOf
    <2>3. ~Open(b) /\ verdict' = [verdict EXCEPT ![k] = "granted"]
      BY <1>1, <1>2, <1>4
    <2>5. Abstract!Begin(k)
      BY <1>0, <1>1, <1>4, <2>2, <2>3, BeginStep
    <2> QED
      BY <1>1, <2>5
  <1>5. CASE ~Expired(b, age) /\ b.count >= Attempts
    <2>1. UNCHANGED buckets /\ verdict' = [verdict EXCEPT ![k] = "denied"]
      BY <1>1, <1>2, <1>5, Sizes
    <2>2. Remaining[k] >= 0 /\ Used[k] = Attempts
      BY <1>2, <1>3, <1>5, Sizes DEF LeftOf, UsedOf
    <2>3. Abstract!Deny(k)
      BY <2>1, <2>2 DEF Abstract!Deny, Abstract!Open, Used, Remaining, UsedOf, LeftOf
    <2> QED
      BY <1>1, <2>3
  <1>6. CASE ~Expired(b, age) /\ b.count < Attempts
    <2>1. buckets' = [buckets EXCEPT ![k] = counted] /\ verdict' = [verdict EXCEPT ![k] = "granted"]
      BY <1>1, <1>2, <1>6, Sizes
    <2>2. counted.count = b.count + 1 /\ counted.left = b.left /\ Open(counted) /\ Open(b)
      BY <1>1, <1>2, <1>6 DEF Open, Bucket
    <2> HIDE DEF counted
    <2>3. UsedOf(counted) = UsedOf(b) + 1 /\ LeftOf(counted) = LeftOf(b)
      BY <2>2 DEF UsedOf, LeftOf
    <2>4. LeftOf(b) >= 0 /\ UsedOf(b) < Attempts
      BY <1>2, <1>6, <2>2 DEF LeftOf, UsedOf
    <2>5. Abstract!Grant(k)
      BY <1>0, <1>1, <2>1, <2>3, <2>4, GrantStep
    <2> QED
      BY <1>1, <2>5
  <1> QED
    BY <1>1, <1>4, <1>5, <1>6

LEMMA AllowIsDecision ==
  ASSUME LimiterInv, NEW q \in Reqs, Allow(q)
  PROVE  LateDecision \/ Abstract!Next
  <1>1. CASE req[q].age > 0
    <2>1. PICK g \in Goroutine : req' = [req EXCEPT ![q] = g] /\ ~g.stamped
      BY AllowFacts, FreeTyped
    <2>2. ~req'[q].stamped
      BY <2>1 DEF LimiterInv, TypeOK
    <2> QED
      BY <1>1, <2>2 DEF LateDecision, Allow
  <1>2. CASE ~(req[q].age > 0)
    BY <1>2, PromptAllow DEF Abstract!Next
  <1> QED
    BY <1>1, <1>2

LEMMA StepIsDecision ==
  ASSUME LimiterInv, [Next]_vars
  PROVE  [LateDecision \/ Abstract!Next]_(Abstract!vars)
  <1>1. CASE UNCHANGED <<buckets, verdict>>
    BY <1>1 DEF Abstract!vars
  <1>2. ASSUME NEW q \in Reqs, Middleware(q)
        PROVE  [LateDecision \/ Abstract!Next]_(Abstract!vars)
    BY <1>1, <1>2, AllowIsDecision DEF Middleware, Arrive, Stamp
  <1>3. CASE Reap
    BY <1>3, ReapIsHidden
  <1>4. CASE Tick
    BY <1>4, TickIsTick DEF Abstract!Next
  <1> QED
    BY <1>1, <1>2, <1>3, <1>4 DEF Next, ReaperStamp, vars

\* "A fixed-window counter, keyed by an arbitrary string" (ratelimit.go:36), for any
\* stall: whatever late stamps have done to the buckets before, every decision made with
\* a stamp of the moment is the counter's, and the reaper's deletions are not to be seen.
THEOREM LimiterIsFixedWindow == Spec => ImplementsFixedWindow
  <1>1. Init => Abstract!Init
    BY DEF Init, Abstract!Init, Open, Absent
  <1>2. LimiterInv /\ [Next]_vars => [LateDecision \/ Abstract!Next]_(Abstract!vars)
    BY StepIsDecision
  <1> QED
    BY <1>1, <1>2, LimiterInvariant, PTL DEF Spec, ImplementsFixedWindow
=============================================================================
