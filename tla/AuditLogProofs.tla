---------------------------- MODULE AuditLogProofs ----------------------------
(***************************************************************************)
(* Theorems about AuditLog, for any requests, readers, filters,            *)
(* retentions, page size and bounds.                                       *)
(***************************************************************************)
EXTENDS AuditLog, FiniteSetTheorems, TLAPS

-----------------------------------------------------------------------------
(* The inductive invariant. *)

\* The entries of changes that were committed.
Changes(rows) ==
    {i \in DOMAIN rows : rows[i].kind = "change" /\ rows[i].state \in {"visible", "purged"}}

\* The entry a transaction has drawn is pending, and its own; a refusal is no change.
Drawn(rq, rows) ==
    \A q \in Reqs :
        /\ rq[q].pc = "recorded" =>
             /\ rq[q].entry \in DOMAIN rows
             /\ rows[rq[q].entry].state = "pending" /\ rows[rq[q].entry].kind = "change"
             /\ \A p \in Reqs : rq[p].pc = "recorded" /\ rq[p].entry = rq[q].entry => p = q
        /\ rq[q].pc = "refused" => rq[q].kind \in {"denial", "login"}

Shown(t) == {t.seen[n] : n \in DOMAIN t.seen}

\* What a reader has passed by was shown, newest first, or is purged.
Passed(t, i) == t.pc = "done" \/ (t.before # 0 /\ t.before <= i)
Sound(t, rows) ==
    /\ \A i \in t.due : /\ i \in DOMAIN rows /\ rows[i].kind \in t.filter
                        /\ rows[i].state \in {"visible", "purged"}
                        /\ rows[i].state = "visible" /\ Passed(t, i) => i \in Shown(t)
    /\ Descending(t.seen)
    /\ t.pc = "reading" => IF t.before = 0 THEN t.seen = <<>>
                           ELSE t.seen # <<>> /\ t.before = t.seen[Len(t.seen)]

AuditLogInv ==
    /\ TypeOK
    /\ Drawn(req, log)
    /\ applied = Cardinality(Changes(log))
    /\ \A s \in Scrolls : Sound(scroll[s], log)

-----------------------------------------------------------------------------
(* The log only grows, and what was committed in it stays. *)

Grows(old, new) ==
    \A i \in DOMAIN old :
        /\ i \in DOMAIN new
        /\ old[i].state \in {"visible", "purged"} =>
             /\ new[i].kind = old[i].kind /\ new[i].state \in {"visible", "purged"}
             /\ new[i].state = "visible" => old[i].state = "visible"

LEMMA SoundKept ==
  ASSUME NEW t, NEW old, NEW new, Grows(old, new), Sound(t, old)
  PROVE  Sound(t, new)
  <1>1. ASSUME NEW i \in t.due
        PROVE  /\ i \in DOMAIN new /\ new[i].kind \in t.filter
               /\ new[i].state \in {"visible", "purged"}
               /\ new[i].state = "visible" /\ Passed(t, i) => i \in Shown(t)
    BY <1>1 DEF Sound, Grows
  <1> QED
    BY <1>1 DEF Sound

LEMMA ChangesBounded ==
  ASSUME NEW rows \in Seq(Entry)
  PROVE  IsFiniteSet(Changes(rows)) /\ Cardinality(Changes(rows)) \in 0..Len(rows)
  <1>1. Changes(rows) \subseteq 1..Len(rows) /\ Len(rows) \in Nat
    BY DEF Changes
  <1>2. IsFiniteSet(1..Len(rows)) /\ Cardinality(1..Len(rows)) = Len(rows)
    <2>1. /\ IsFiniteSet(1..Len(rows))
          /\ Cardinality(1..Len(rows)) = IF 1 > Len(rows) THEN 0 ELSE Len(rows) - 1 + 1
      BY <1>1, FS_Interval
    <2> QED
      BY <1>1, <2>1
  <1>3. IsFiniteSet(Changes(rows)) /\ Cardinality(Changes(rows)) <= Len(rows)
    BY <1>1, <1>2, FS_Subset
  <1>4. Cardinality(Changes(rows)) \in Nat
    BY <1>3, FS_CardinalityType
  <1> QED
    BY <1>1, <1>3, <1>4

\* What a step of a request has to show.
LEMMA LogInv ==
  ASSUME AuditLogInv, UNCHANGED <<clock, scroll>>,
         req' \in [Reqs -> Request], log' \in Seq(Entry), Len(log') <= MaxEntries,
         Grows(log, log'), Drawn(req', log'), applied' = Cardinality(Changes(log'))
  PROVE  AuditLogInv'
  <1>1. applied' \in 0..MaxEntries
    <2>1. Cardinality(Changes(log')) \in 0..Len(log') /\ Len(log') \in Nat
      BY ChangesBounded
    <2> QED
      BY <2>1, AuditLogAssumption
  <1>2. TypeOK'
    BY <1>1 DEF AuditLogInv, TypeOK, Drawn, Ids
  <1>3. \A s \in Scrolls : Sound(scroll'[s], log')
    BY SoundKept DEF AuditLogInv
  <1> QED
    BY <1>2, <1>3 DEF AuditLogInv

\* A new entry changes nothing of the old ones.
LEMMA AppendFacts ==
  ASSUME NEW rows \in Seq(Entry), NEW e \in Entry
  PROVE  /\ Append(rows, e) \in Seq(Entry) /\ Len(Append(rows, e)) = Len(rows) + 1
         /\ Grows(rows, Append(rows, e))
         /\ Append(rows, e)[Len(rows) + 1] = e
         /\ \A i \in DOMAIN rows : /\ i \in DOMAIN Append(rows, e) /\ i <= Len(rows)
                                   /\ Append(rows, e)[i] = rows[i]
         /\ e.kind # "change" \/ e.state = "pending" =>
              Changes(Append(rows, e)) = Changes(rows)
  <1> DEFINE new == Append(rows, e)
  <1>1. /\ new \in Seq(Entry) /\ Len(new) = Len(rows) + 1 /\ new[Len(rows) + 1] = e
        /\ DOMAIN new = 1..Len(rows) + 1 /\ DOMAIN rows = 1..Len(rows)
        /\ Len(rows) \in Nat /\ \A i \in 1..Len(rows) : new[i] = rows[i]
    OBVIOUS
  <1> HIDE DEF new
  <1>2. \A i \in DOMAIN rows : i \in DOMAIN new /\ i <= Len(rows) /\ new[i] = rows[i]
    BY <1>1
  <1>3. Grows(rows, new)
    BY <1>2 DEF Grows
  <1>4. ASSUME e.kind # "change" \/ e.state = "pending" PROVE Changes(new) = Changes(rows)
    <2>1. \A i \in DOMAIN new : i \in DOMAIN rows \/ i = Len(rows) + 1
      BY <1>1
    <2>2. e.state \notin {"visible", "purged"} \/ e.kind # "change"
      BY <1>4
    <2> QED
      BY <1>1, <1>2, <2>1, <2>2 DEF Changes
  <1> QED
    BY <1>1, <1>2, <1>3, <1>4 DEF new

-----------------------------------------------------------------------------
(* The steps of a request. *)

\* What the invariant says of one request.
LEMMA OneRequest ==
  ASSUME AuditLogInv, NEW q \in Reqs
  PROVE  /\ req \in [Reqs -> Request] /\ req[q] \in Request /\ Drawn(req, log)
         /\ log \in Seq(Entry) /\ Len(log) <= MaxEntries /\ Len(log) \in Nat
         /\ clock \in 0..MaxClock /\ applied = Cardinality(Changes(log))
         /\ DOMAIN log = 1..Len(log)
  BY DEF AuditLogInv, TypeOK

\* A slot that has drawn nothing takes nothing from the others, as long as the step
\* leaves what they have drawn alone.
LEMMA DrawnKept ==
  ASSUME AuditLogInv, NEW q \in Reqs, NEW x \in Request,
         req' = [req EXCEPT ![q] = x], x.pc # "recorded",
         x.pc = "refused" => x.kind \in {"denial", "login"},
         \A p \in Reqs \ {q} : req[p].pc = "recorded" =>
            /\ req[p].entry \in DOMAIN log'
            /\ log'[req[p].entry].state = "pending" /\ log'[req[p].entry].kind = "change"
  PROVE  req' \in [Reqs -> Request] /\ Drawn(req', log')
  <1>1. req \in [Reqs -> Request] /\ Drawn(req, log)
    BY OneRequest
  <1>2. /\ req' \in [Reqs -> Request] /\ req'[q] = x
        /\ \A p \in Reqs \ {q} : req'[p] = req[p]
    BY <1>1
  <1>3. Drawn(req', log')
    BY <1>1, <1>2 DEF Drawn
  <1> QED
    BY <1>2, <1>3

LEMMA QuietInv ==
  ASSUME AuditLogInv, NEW q \in Reqs, NEW x \in Request,
         req' = [req EXCEPT ![q] = x], x.pc # "recorded",
         x.pc = "refused" => x.kind \in {"denial", "login"},
         UNCHANGED <<clock, log, applied, scroll>>
  PROVE  AuditLogInv'
  <1>1. /\ log' \in Seq(Entry) /\ Len(log') <= MaxEntries /\ Grows(log, log')
        /\ applied' = Cardinality(Changes(log'))
    BY OneRequest DEF Grows
  <1>2. req' \in [Reqs -> Request] /\ Drawn(req', log')
    BY OneRequest, DrawnKept DEF Drawn
  <1> QED
    BY <1>1, <1>2, LogInv

LEMMA IdleTyped == Idle \in Request /\ Idle.pc = "idle"
  BY AuditLogAssumption DEF Idle, Request, Kinds

LEMMA SilentInv ==
  ASSUME AuditLogInv, NEW q \in Reqs,
         Begin(q) \/ Refuse(q) \/ Disconnect(q) \/ LoseRefusal(q)
  PROVE  AuditLogInv'
  <1>0. /\ req[q] \in Request /\ clock \in 0..MaxClock /\ Drawn(req, log)
        /\ 0 \in 0..MaxClock
    BY OneRequest, AuditLogAssumption
  <1>1. CASE Begin(q)
    <2> DEFINE x == [Idle EXCEPT !.pc = "open", !.created = clock]
    <2>1. x \in Request /\ x.pc = "open"
      BY <1>0, IdleTyped DEF Request
    <2>2. req' = [req EXCEPT ![q] = x] /\ UNCHANGED <<clock, log, applied, scroll>>
      BY <1>1 DEF Begin
    <2> HIDE DEF x
    <2> QED
      BY <2>1, <2>2, QuietInv
  <1>2. CASE Refuse(q)
    <2>1. ASSUME NEW kind \in {"denial", "login"}, NEW created \in 0..MaxClock,
                 req' = [req EXCEPT ![q] = [req[q] EXCEPT !.pc = "refused",
                           !.kind = kind, !.created = created]]
          PROVE  AuditLogInv'
      <3> DEFINE x == [req[q] EXCEPT !.pc = "refused", !.kind = kind,
                                     !.created = created]
      <3>1. x \in Request /\ x.pc = "refused" /\ x.kind = kind
        BY <1>0 DEF Request, Kinds
      <3>2. req' = [req EXCEPT ![q] = x] /\ UNCHANGED <<clock, log, applied, scroll>>
        BY <1>2, <2>1 DEF Refuse
      <3> HIDE DEF x
      <3> QED
        BY <3>1, <3>2, QuietInv
    <2>2. ASSUME NEW kind \in {"denial", "login"},
                 req' = [req EXCEPT ![q] = [req[q] EXCEPT !.pc = "refused", !.kind = kind]]
          PROVE  AuditLogInv'
      <3> DEFINE x == [req[q] EXCEPT !.pc = "refused", !.kind = kind]
      <3>1. x \in Request /\ x.pc = "refused" /\ x.kind = kind
        BY <1>0 DEF Request, Kinds
      <3>2. req' = [req EXCEPT ![q] = x] /\ UNCHANGED <<clock, log, applied, scroll>>
        BY <1>2, <2>2 DEF Refuse
      <3> HIDE DEF x
      <3> QED
        BY <3>1, <3>2, QuietInv
    <2> QED
      BY <1>0, <1>2, <2>1, <2>2 DEF Refuse
  <1>3. CASE Disconnect(q)
    <2> DEFINE x == [req[q] EXCEPT !.gone = TRUE]
    <2>1. /\ x \in Request /\ x.pc = req[q].pc /\ x.kind = req[q].kind
      BY <1>0 DEF Request
    <2>2. /\ req' = [req EXCEPT ![q] = x] /\ UNCHANGED <<clock, log, applied, scroll>>
          /\ req[q].pc # "recorded"
      BY <1>3 DEF Disconnect
    <2> HIDE DEF x
    <2> QED
      BY <1>0, <2>1, <2>2, QuietInv DEF Drawn
  <1>4. CASE LoseRefusal(q)
    BY <1>4, IdleTyped, QuietInv DEF LoseRefusal
  <1> QED
    BY <1>1, <1>2, <1>3, <1>4

\* The entry a change draws is the next, and nobody else's.
LEMMA RecordInv ==
  ASSUME AuditLogInv, NEW q \in Reqs, Record(q)
  PROVE  AuditLogInv'
  <1> DEFINE e == [state |-> "pending", kind |-> "change", created |-> req[q].created]
             x == [req[q] EXCEPT !.pc = "recorded", !.entry = Len(log')]
  <1>0. /\ req[q] \in Request /\ req \in [Reqs -> Request] /\ Drawn(req, log)
        /\ log \in Seq(Entry) /\ Len(log) \in Nat /\ MaxEntries \in Nat
        /\ DOMAIN log = 1..Len(log)
    BY OneRequest, AuditLogAssumption
  <1>1. e \in Entry /\ e.state = "pending" /\ e.kind = "change"
    BY <1>0 DEF Entry, Request, Kinds
  <1>2. /\ Len(log) < MaxEntries /\ log' = Append(log, e)
        /\ req' = [req EXCEPT ![q] = x] /\ UNCHANGED <<clock, applied, scroll>>
    BY DEF Record, Insert
  <1> HIDE DEF e
  <1>3. /\ log' \in Seq(Entry) /\ Len(log') = Len(log) + 1 /\ Grows(log, log')
        /\ log'[Len(log) + 1] = e /\ Changes(log') = Changes(log)
        /\ \A i \in DOMAIN log : /\ i \in DOMAIN log' /\ i <= Len(log)
                                 /\ log'[i] = log[i]
    BY <1>0, <1>1, <1>2, AppendFacts
  <1>4. /\ x \in Request /\ x.pc = "recorded" /\ x.entry = Len(log) + 1
        /\ Len(log) + 1 \in DOMAIN log'
    <2>1. Len(log) + 1 \in DOMAIN log' /\ Len(log) + 1 \in 0..MaxEntries
      BY <1>0, <1>2, <1>3
    <2>2. x = [req[q] EXCEPT !.pc = "recorded", !.entry = Len(log) + 1]
      BY <1>3
    <2> HIDE DEF x
    <2> QED
      BY <1>0, <2>1, <2>2 DEF Request
  <1> HIDE DEF x
  <1>5. req'[q] = x /\ \A p \in Reqs \ {q} : req'[p] = req[p]
    BY <1>0, <1>2
  <1>6. \A p \in Reqs : req[p].pc = "recorded" => req[p].entry # Len(log) + 1
    BY <1>0, <1>3 DEF Drawn
  <1>7. Drawn(req', log')
    BY <1>0, <1>1, <1>3, <1>4, <1>5, <1>6 DEF Drawn
  <1>8. /\ req' \in [Reqs -> Request] /\ Len(log') <= MaxEntries
        /\ applied' = Cardinality(Changes(log'))
    BY <1>0, <1>2, <1>3, <1>4, OneRequest
  <1> QED
    BY <1>2, <1>3, <1>7, <1>8, LogInv

LEMMA CommitInv ==
  ASSUME AuditLogInv, NEW q \in Reqs, Commit(q)
  PROVE  AuditLogInv'
  <1> DEFINE i == req[q].entry
  <1>0. /\ req[q] \in Request /\ req \in [Reqs -> Request] /\ Drawn(req, log)
        /\ log \in Seq(Entry) /\ Len(log) <= MaxEntries
        /\ applied = Cardinality(Changes(log))
    BY OneRequest
  <1>1. /\ req[q].pc = "recorded" /\ log' = [log EXCEPT ![i].state = "visible"]
        /\ req' = [req EXCEPT ![q] = Idle] /\ applied' = applied + 1
        /\ UNCHANGED <<clock, scroll>>
    BY DEF Commit
  <1>2. /\ i \in DOMAIN log /\ log[i].state = "pending" /\ log[i].kind = "change"
        /\ \A p \in Reqs \ {q} : req[p].pc = "recorded" => req[p].entry # i
    BY <1>0, <1>1 DEF Drawn
  <1> HIDE DEF i
  <1>3. log[i] \in Entry
    BY <1>0, <1>2
  <1>4. [log[i] EXCEPT !.state = "visible"] \in Entry
    BY <1>3 DEF Entry
  <1>5. /\ log' \in Seq(Entry) /\ Len(log') = Len(log) /\ DOMAIN log' = DOMAIN log
        /\ log'[i].state = "visible" /\ log'[i].kind = "change"
        /\ \A j \in DOMAIN log \ {i} : log'[j] = log[j]
    <2>1. /\ log' \in Seq(Entry) /\ Len(log') = Len(log) /\ DOMAIN log' = DOMAIN log
          /\ log'[i] = [log[i] EXCEPT !.state = "visible"]
          /\ \A j \in DOMAIN log \ {i} : log'[j] = log[j]
      BY <1>0, <1>1, <1>2, <1>4
    <2> QED
      BY <1>2, <1>3, <2>1 DEF Entry
  <1>6. Grows(log, log')
    BY <1>2, <1>5 DEF Grows
  <1>7. applied' = Cardinality(Changes(log'))
    <2>1. Changes(log') = Changes(log) \cup {i} /\ i \notin Changes(log)
      BY <1>2, <1>5 DEF Changes
    <2>2. IsFiniteSet(Changes(log))
      BY <1>0, ChangesBounded
    <2> QED
      BY <1>0, <1>1, <2>1, <2>2, FS_AddElement
  <1>8. req' \in [Reqs -> Request] /\ Drawn(req', log')
    <2>1. \A p \in Reqs \ {q} : req[p].pc = "recorded" =>
            /\ req[p].entry \in DOMAIN log'
            /\ log'[req[p].entry].state = "pending" /\ log'[req[p].entry].kind = "change"
      BY <1>0, <1>2, <1>5 DEF Drawn
    <2> QED
      BY <1>1, <2>1, IdleTyped, DrawnKept
  <1> QED
    BY <1>0, <1>1, <1>5, <1>6, <1>7, <1>8, LogInv

\* What is rolled back was nobody else's to see, and is nobody else's entry.
LEMMA FailInv ==
  ASSUME AuditLogInv, NEW q \in Reqs, Fail(q)
  PROVE  AuditLogInv'
  <1> DEFINE i == req[q].entry
  <1>0. /\ req[q] \in Request /\ req \in [Reqs -> Request] /\ Drawn(req, log)
        /\ log \in Seq(Entry) /\ Len(log) <= MaxEntries
        /\ applied = Cardinality(Changes(log))
    BY OneRequest
  <1>1. /\ req' = [req EXCEPT ![q] = Idle] /\ UNCHANGED <<clock, applied, scroll>>
        /\ Undo(q)
    BY DEF Fail
  <1>2. CASE UNCHANGED log
    BY <1>1, <1>2, IdleTyped, QuietInv
  <1>3. CASE ~UNCHANGED log
    <2>1. req[q].pc = "recorded" /\ log' = [log EXCEPT ![i] = Aborted]
      BY <1>1, <1>3 DEF Undo
    <2>2. /\ i \in DOMAIN log /\ log[i].state = "pending"
          /\ \A p \in Reqs \ {q} : req[p].pc = "recorded" => req[p].entry # i
      BY <1>0, <2>1 DEF Drawn
    <2>3. Aborted \in Entry /\ Aborted.state = "aborted"
      BY AuditLogAssumption DEF Aborted, Entry, Kinds
    <2> HIDE DEF i
    <2>4. /\ log' \in Seq(Entry) /\ Len(log') = Len(log) /\ DOMAIN log' = DOMAIN log
          /\ log'[i] = Aborted /\ \A j \in DOMAIN log \ {i} : log'[j] = log[j]
      BY <1>0, <2>1, <2>2, <2>3
    <2>5. Grows(log, log') /\ Changes(log') = Changes(log)
      BY <2>2, <2>3, <2>4 DEF Grows, Changes
    <2>6. \A p \in Reqs \ {q} : req[p].pc = "recorded" =>
            /\ req[p].entry \in DOMAIN log'
            /\ log'[req[p].entry].state = "pending" /\ log'[req[p].entry].kind = "change"
      BY <1>0, <2>2, <2>4 DEF Drawn
    <2>7. req' \in [Reqs -> Request] /\ Drawn(req', log')
      BY <1>1, <2>6, IdleTyped, DrawnKept
    <2> QED
      BY <1>0, <1>1, <2>4, <2>5, <2>7, LogInv
  <1> QED
    BY <1>2, <1>3

LEMMA RecordRefusalInv ==
  ASSUME AuditLogInv, NEW q \in Reqs, RecordRefusal(q)
  PROVE  AuditLogInv'
  <1> DEFINE e == [state |-> "visible", kind |-> req[q].kind, created |-> clock]
  <1>0. /\ req[q] \in Request /\ Drawn(req, log)
        /\ log \in Seq(Entry) /\ Len(log) \in Nat /\ MaxEntries \in Nat
        /\ applied = Cardinality(Changes(log)) /\ clock \in 0..MaxClock
    BY OneRequest, AuditLogAssumption
  <1>1. e \in Entry /\ e.kind # "change"
    BY <1>0 DEF Entry, Request, Drawn, RecordRefusal
  <1>2. /\ Len(log) < MaxEntries /\ log' = Append(log, e)
        /\ req' = [req EXCEPT ![q] = Idle] /\ UNCHANGED <<clock, applied, scroll>>
    BY DEF RecordRefusal, Insert
  <1> HIDE DEF e
  <1>3. /\ log' \in Seq(Entry) /\ Len(log') = Len(log) + 1 /\ Grows(log, log')
        /\ Changes(log') = Changes(log)
        /\ \A i \in DOMAIN log : i \in DOMAIN log' /\ log'[i] = log[i]
    BY <1>0, <1>1, <1>2, AppendFacts
  <1>4. req' \in [Reqs -> Request] /\ Drawn(req', log')
    <2>1. \A p \in Reqs \ {q} : req[p].pc = "recorded" =>
            /\ req[p].entry \in DOMAIN log'
            /\ log'[req[p].entry].state = "pending" /\ log'[req[p].entry].kind = "change"
      BY <1>0, <1>3 DEF Drawn
    <2> QED
      BY <1>2, <2>1, IdleTyped, DrawnKept
  <1>5. Len(log') <= MaxEntries
    BY <1>0, <1>2, <1>3
  <1> QED
    BY <1>0, <1>2, <1>3, <1>4, <1>5, LogInv

LEMMA HandlerInv ==
  ASSUME AuditLogInv, NEW q \in Reqs, Handler(q)
  PROVE  AuditLogInv'
  BY SilentInv, RecordInv, CommitInv, FailInv, RecordRefusalInv DEF Handler

-----------------------------------------------------------------------------
(* Purges, time and readers. *)

\* What a purge leaves, whatever its retention and the time of its transaction.
LEMMA PurgeFacts ==
  ASSUME AuditLogInv, NEW retain \in Retentions, NEW now \in 0..clock,
         Purge(retain, now)
  PROVE  /\ log' \in Seq(Entry) /\ Len(log') = Len(log) /\ DOMAIN log' = DOMAIN log
         /\ \A i \in DOMAIN log :
              \/ log'[i] = log[i]
              \/ /\ log[i].state = "visible" /\ log'[i].state = "purged"
                 /\ log'[i].kind = log[i].kind
                 /\ retain \in Retentions \ {0} /\ log[i].created + retain < clock
  <1>0. /\ log \in Seq(Entry) /\ Len(log) \in Nat /\ DOMAIN log = 1..Len(log)
        /\ clock \in Nat /\ now <= clock /\ now \in Nat /\ retain \in Nat
        /\ 0 \in 0..MaxClock
    BY AuditLogAssumption DEF AuditLogInv, TypeOK
  <1> DEFINE row(i) == IF Expired(i, retain, now)
                       THEN [log[i] EXCEPT !.state = "purged", !.created = 0]
                       ELSE log[i]
  <1>1. log' = [i \in 1..Len(log) |-> row(i)]
    BY <1>0 DEF Purge, Ids
  <1>2. ASSUME NEW i \in DOMAIN log
        PROVE  /\ row(i) \in Entry
               /\ \/ row(i) = log[i]
                  \/ /\ log[i].state = "visible" /\ row(i).state = "purged"
                     /\ row(i).kind = log[i].kind
                     /\ retain \in Retentions \ {0} /\ log[i].created + retain < clock
    <2>1. log[i] \in Entry
      BY <1>0, <1>2
    <2>2. CASE Expired(i, retain, now)
      <3>1. row(i) = [log[i] EXCEPT !.state = "purged", !.created = 0]
        BY <2>2
      <3>2. /\ row(i) \in Entry /\ row(i).state = "purged" /\ row(i).kind = log[i].kind
            /\ log[i].created \in Nat
        <4> HIDE DEF row
        <4>1. row(i) \in Entry /\ row(i).state = "purged" /\ row(i).kind = log[i].kind
          BY <1>0, <2>1, <3>1 DEF Entry
        <4>2. log[i].created \in 0..MaxClock
          BY <2>1 DEF Entry
        <4> QED
          BY <4>1, <4>2
      <3>3. log[i].state = "visible" /\ retain # 0 /\ log[i].created + retain < now
        BY <1>0, <2>2 DEF Expired
      <3> QED
        BY <1>0, <3>2, <3>3
    <2>3. CASE ~Expired(i, retain, now)
      BY <2>1, <2>3
    <2> QED
      BY <2>2, <2>3
  <1> HIDE DEF row
  <1>3. \A i \in 1..Len(log) : log'[i] = row(i) /\ row(i) \in Entry
    BY <1>0, <1>1, <1>2
  <1>4. log' \in [1..Len(log) -> Entry]
    BY <1>1, <1>3
  <1>5. log' \in Seq(Entry) /\ Len(log') = Len(log) /\ DOMAIN log' = DOMAIN log
    BY <1>0, <1>4
  <1> QED
    BY <1>0, <1>2, <1>3, <1>5

LEMMA PurgeInv ==
  ASSUME AuditLogInv, NEW retain \in Retentions, NEW now \in 0..clock,
         Purge(retain, now)
  PROVE  AuditLogInv'
  <1>0. /\ log \in Seq(Entry) /\ Len(log) <= MaxEntries /\ req \in [Reqs -> Request]
        /\ applied = Cardinality(Changes(log)) /\ Drawn(req, log)
    BY DEF AuditLogInv, TypeOK
  <1>1. UNCHANGED <<clock, applied, req, scroll>>
    BY DEF Purge
  <1>2. /\ log' \in Seq(Entry) /\ Len(log') = Len(log) /\ DOMAIN log' = DOMAIN log
        /\ \A i \in DOMAIN log :
             \/ log'[i] = log[i]
             \/ /\ log[i].state = "visible" /\ log'[i].state = "purged"
                /\ log'[i].kind = log[i].kind
    BY PurgeFacts
  <1>3. Grows(log, log')
    BY <1>2 DEF Grows
  <1>4. Changes(log') = Changes(log)
    BY <1>2 DEF Changes
  <1>5. Drawn(req', log')
    BY <1>0, <1>1, <1>2 DEF Drawn
  <1> QED
    BY <1>0, <1>1, <1>2, <1>3, <1>4, <1>5, LogInv

LEMMA TickInv ==
  ASSUME AuditLogInv, Tick
  PROVE  AuditLogInv'
  <1>1. clock' \in 0..MaxClock /\ UNCHANGED <<log, applied, req, scroll>>
    BY AuditLogAssumption DEF AuditLogInv, TypeOK, Tick
  <1>2. TypeOK'
    BY <1>1 DEF AuditLogInv, TypeOK, Ids
  <1> QED
    BY <1>1, <1>2 DEF AuditLogInv

\* What a step of a reader has to show.
LEMMA ScrollInv ==
  ASSUME AuditLogInv, NEW s \in Scrolls, NEW t \in Scroll, Sound(t, log),
         scroll' = [scroll EXCEPT ![s] = t], UNCHANGED <<clock, log, applied, req>>
  PROVE  AuditLogInv'
  <1>1. /\ scroll' \in [Scrolls -> Scroll] /\ scroll'[s] = t
        /\ \A r \in Scrolls \ {s} : scroll'[r] = scroll[r]
    BY DEF AuditLogInv, TypeOK
  <1>2. \A r \in Scrolls : Sound(scroll'[r], log')
    BY <1>1 DEF AuditLogInv
  <1>3. TypeOK'
    BY <1>1 DEF AuditLogInv, TypeOK, Ids
  <1> QED
    BY <1>2, <1>3 DEF AuditLogInv

LEMMA StartScrollInv ==
  ASSUME AuditLogInv, NEW s \in Scrolls, NEW filter \in Filters, StartScroll(s, filter)
  PROVE  AuditLogInv'
  <1> DEFINE t == [NotReading EXCEPT !.pc = "reading", !.filter = filter,
                                     !.due = Matching(filter)]
  <1>1. /\ log \in Seq(Entry) /\ Len(log) <= MaxEntries /\ Len(log) \in Nat
        /\ DOMAIN log = 1..Len(log) /\ MaxEntries \in Nat /\ filter \subseteq Kinds
    BY AuditLogAssumption, FiltersAssumption DEF AuditLogInv, TypeOK
  <1>2. /\ Matching(filter) \subseteq 1..MaxEntries
        /\ \A i \in Matching(filter) : /\ i \in DOMAIN log /\ log[i].kind \in filter
                                       /\ log[i].state = "visible"
    BY <1>1 DEF Matching, Visible, Ids
  <1>3. /\ NotReading \in Scroll /\ NotReading.before = 0 /\ NotReading.seen = <<>>
    <2>1. <<>> \in Seq(1..MaxEntries)
      OBVIOUS
    <2> QED
      BY <1>1, <2>1 DEF NotReading, Scroll
  <1>4. /\ t \in Scroll /\ t.pc = "reading" /\ t.filter = filter /\ t.before = 0
        /\ t.seen = <<>> /\ t.due = Matching(filter)
    BY <1>1, <1>2, <1>3 DEF Scroll
  <1>5. DOMAIN t.seen = {}
    BY <1>4
  <1>6. scroll' = [scroll EXCEPT ![s] = t] /\ UNCHANGED <<clock, log, applied, req>>
    BY DEF StartScroll
  <1> HIDE DEF t
  <1>7. Sound(t, log)
    BY <1>2, <1>4, <1>5 DEF Sound, Passed, Descending
  <1> QED
    BY <1>4, <1>6, <1>7, ScrollInv

LEMMA ElementOfSeq ==
  ASSUME NEW S, NEW ids \in Seq(S), NEW j \in DOMAIN ids
  PROVE  ids[j] \in S
  OBVIOUS

\* A page put after what was shown, all of whose entries are older.
LEMMA ConcatFacts ==
  ASSUME NEW n \in Nat, NEW ids \in Seq(1..n), NEW page \in Seq(1..n),
         Descending(ids), Descending(page),
         \A j \in DOMAIN ids, k \in DOMAIN page : page[k] < ids[j]
  PROVE  /\ ids \o page \in Seq(1..n) /\ Descending(ids \o page)
         /\ \A j \in DOMAIN ids : \E k \in DOMAIN (ids \o page) : (ids \o page)[k] = ids[j]
         /\ \A j \in DOMAIN page : \E k \in DOMAIN (ids \o page) : (ids \o page)[k] = page[j]
         /\ page # <<>> => /\ ids \o page # <<>>
                           /\ (ids \o page)[Len(ids \o page)] = page[Len(page)]
  <1> DEFINE all == ids \o page
  <1>1. /\ all \in Seq(1..n) /\ Len(all) = Len(ids) + Len(page)
        /\ Len(ids) \in Nat /\ Len(page) \in Nat /\ DOMAIN all = 1..Len(ids) + Len(page)
        /\ DOMAIN ids = 1..Len(ids) /\ DOMAIN page = 1..Len(page)
        /\ \A k \in 1..Len(ids) : all[k] = ids[k]
        /\ \A k \in 1..Len(page) : all[Len(ids) + k] = page[k]
    OBVIOUS
  <1> HIDE DEF all
  <1>2. ASSUME NEW k \in DOMAIN all
        PROVE  (k \in DOMAIN ids /\ all[k] = ids[k])
                 \/ (k - Len(ids) \in DOMAIN page /\ all[k] = page[k - Len(ids)])
    <2>1. CASE k <= Len(ids)
      BY <1>1, <2>1
    <2>2. CASE k > Len(ids)
      <3>1. k - Len(ids) \in 1..Len(page) /\ Len(ids) + (k - Len(ids)) = k
        BY <1>1, <2>2
      <3> QED
        BY <1>1, <3>1
    <2> QED
      BY <1>1, <2>1, <2>2
  <1>3. Descending(all)
    <2> SUFFICES ASSUME NEW j \in DOMAIN all, NEW k \in DOMAIN all, j < k
                 PROVE  all[k] < all[j]
      BY DEF Descending
    <2>1. j \in Nat /\ k \in Nat
      BY <1>1
    <2>2. CASE k \in DOMAIN ids
      <3>1. j \in DOMAIN ids
        BY <1>1, <2>1, <2>2
      <3> QED
        BY <1>1, <2>2, <3>1 DEF Descending
    <2>3. CASE j \notin DOMAIN ids
      <3>1. k \notin DOMAIN ids
        BY <1>1, <2>1, <2>3
      <3>2. /\ j - Len(ids) \in DOMAIN page /\ k - Len(ids) \in DOMAIN page
            /\ all[j] = page[j - Len(ids)] /\ all[k] = page[k - Len(ids)]
        BY <1>2, <2>3, <3>1
      <3>3. j - Len(ids) < k - Len(ids)
        BY <1>1, <2>1
      <3> QED
        BY <3>2, <3>3 DEF Descending
    <2>4. CASE j \in DOMAIN ids /\ k \notin DOMAIN ids
      BY <1>1, <1>2, <2>4
    <2> QED
      BY <2>2, <2>3, <2>4
  <1>4. \A j \in DOMAIN ids : j \in DOMAIN all /\ all[j] = ids[j]
    BY <1>1
  <1>5. ASSUME NEW j \in DOMAIN page
        PROVE  Len(ids) + j \in DOMAIN all /\ all[Len(ids) + j] = page[j]
    <2>1. j \in 1..Len(page) /\ Len(page) \in Nat /\ Len(ids) \in Nat
      BY <1>1
    <2>2. Len(ids) + j \in 1..Len(ids) + Len(page)
      BY <2>1
    <2>3. all[Len(ids) + j] = page[j] /\ DOMAIN all = 1..Len(ids) + Len(page)
      BY <1>1, <2>1
    <2> QED
      BY <2>2, <2>3
  <1>6. page # <<>> => Len(page) \in DOMAIN page /\ all # <<>>
    <2> SUFFICES ASSUME page # <<>> PROVE Len(page) \in DOMAIN page /\ all # <<>>
      OBVIOUS
    <2>1. Len(page) \in Nat /\ Len(page) > 0
      BY <1>1
    <2>2. Len(page) \in DOMAIN page
      BY <1>1, <2>1
    <2>3. Len(all) > 0
      BY <1>1, <2>1
    <2> QED
      BY <2>2, <2>3
  <1> QED
    BY <1>1, <1>3, <1>4, <1>5, <1>6 DEF all

LEMMA ReadPageInv ==
  ASSUME AuditLogInv, NEW s \in Scrolls, ReadPage(s)
  PROVE  AuditLogInv'
  <1> DEFINE t == scroll[s]
  <1>0. /\ t \in Scroll /\ Sound(t, log) /\ t.pc = "reading"
        /\ log \in Seq(Entry) /\ DOMAIN log = 1..Len(log) /\ Len(log) \in Nat
        /\ MaxEntries \in Nat /\ PageSize \in Nat \ {0}
        /\ UNCHANGED <<clock, log, applied, req>>
    BY AuditLogAssumption DEF AuditLogInv, TypeOK, ReadPage
  <1>1. PICK page \in Pages :
          /\ Page(page, Rest(t))
          /\ scroll' = [scroll EXCEPT ![s] =
               IF Len(page) = PageSize
               THEN [t EXCEPT !.before = page[PageSize], !.seen = @ \o page]
               ELSE [t EXCEPT !.pc = "done", !.seen = @ \o page]]
    BY DEF ReadPage
  <1> HIDE DEF t
  <1>2. /\ page \in Seq(1..MaxEntries) /\ DOMAIN page = 1..Len(page) /\ Len(page) \in Nat
        /\ Descending(page) /\ \A k \in DOMAIN page : page[k] \in Rest(t)
    <2>1. PICK n \in 0..PageSize : page \in [1..n -> 1..MaxEntries]
      BY DEF Pages
    <2>2. page \in Seq(1..MaxEntries) /\ DOMAIN page = 1..Len(page) /\ Len(page) \in Nat
      BY <1>0, <2>1
    <2> QED
      BY <1>1, <2>2 DEF Page
  <1>3. /\ t.seen \in Seq(1..MaxEntries) /\ t.before \in Nat /\ t.due \subseteq Nat
        /\ Descending(t.seen)
        /\ IF t.before = 0 THEN t.seen = <<>>
           ELSE t.seen # <<>> /\ t.before = t.seen[Len(t.seen)]
    BY <1>0 DEF Scroll, Sound
  <1>4. \A j \in DOMAIN t.seen, k \in DOMAIN page : page[k] < t.seen[j]
    <2> SUFFICES ASSUME NEW j \in DOMAIN t.seen, NEW k \in DOMAIN page
                 PROVE  page[k] < t.seen[j]
      OBVIOUS
    <2>1. t.before # 0 /\ Len(t.seen) \in DOMAIN t.seen /\ j <= Len(t.seen)
      BY <1>3
    <2>2. page[k] < t.before
      BY <1>2, <2>1 DEF Rest
    <2>3. page[k] \in 1..MaxEntries /\ t.seen[j] \in 1..MaxEntries
      BY <1>2, <1>3, ElementOfSeq
    <2>4. j \in Nat /\ Len(t.seen) \in Nat
      BY <1>3
    <2>5. CASE j = Len(t.seen)
      BY <1>3, <2>1, <2>2, <2>5
    <2>6. CASE j < Len(t.seen)
      <3>1. t.before < t.seen[j]
        BY <1>3, <2>1, <2>6 DEF Descending
      <3> QED
        BY <1>3, <2>2, <2>3, <3>1
    <2> QED
      BY <2>1, <2>4, <2>5, <2>6
  <1> DEFINE all == t.seen \o page
  <1>5. /\ all \in Seq(1..MaxEntries) /\ Descending(all)
        /\ \A j \in DOMAIN t.seen : \E k \in DOMAIN all : all[k] = t.seen[j]
        /\ \A j \in DOMAIN page : \E k \in DOMAIN all : all[k] = page[j]
        /\ page # <<>> => all # <<>> /\ all[Len(all)] = page[Len(page)]
    BY <1>0, <1>2, <1>3, <1>4, ConcatFacts
  <1> HIDE DEF all
  \* Of what was due, what neither was shown nor is on the page is older than the page.
  <1>6. ASSUME NEW i \in t.due, log[i].state = "visible",
               \A k \in DOMAIN all : all[k] # i
        PROVE  Len(page) = PageSize /\ i < page[PageSize]
    <2>1. i \in DOMAIN log /\ log[i].kind \in t.filter /\ ~Passed(t, i)
      BY <1>0, <1>5, <1>6 DEF Sound, Shown
    <2>2. i \in Rest(t)
      BY <1>0, <1>3, <1>6, <2>1 DEF Rest, Matching, Visible, Ids, Passed
    <2> QED
      BY <1>1, <1>5, <1>6, <2>2 DEF Page
  <1>7. \A i \in t.due : /\ i \in DOMAIN log /\ log[i].kind \in t.filter
                         /\ log[i].state \in {"visible", "purged"}
    BY <1>0 DEF Sound
  <1>8. CASE Len(page) = PageSize
    <2> DEFINE last == page[PageSize]
               x == [t EXCEPT !.before = last, !.seen = all]
    <2>1. PageSize \in DOMAIN page /\ page # <<>> /\ last \in 1..MaxEntries
      BY <1>0, <1>2, <1>8
    <2>2. /\ x \in Scroll /\ x.pc = "reading" /\ x.filter = t.filter /\ x.due = t.due
          /\ x.before = page[PageSize] /\ x.seen = all
      <3>1. last \in 0..MaxEntries
        BY <2>1
      <3> HIDE DEF last
      <3>2. /\ x \in Scroll /\ x.pc = "reading" /\ x.filter = t.filter
            /\ x.due = t.due /\ x.before = last /\ x.seen = all
        BY <1>0, <1>5, <3>1 DEF Scroll
      <3> QED
        BY <3>2 DEF last
    <2>3. scroll' = [scroll EXCEPT ![s] = x]
      BY <1>1, <1>8 DEF all
    <2> HIDE DEF x
    <2>4. \A i \in x.due : log[i].state = "visible" /\ Passed(x, i) => i \in Shown(x)
      <3> SUFFICES ASSUME NEW i \in t.due, log[i].state = "visible",
                          page[PageSize] <= i
                   PROVE  \E k \in DOMAIN all : all[k] = i
        BY <2>2 DEF Passed, Shown
      <3> QED
        BY <1>3, <1>6, <2>1
    <2>5. Sound(x, log)
      BY <1>5, <1>7, <1>8, <2>1, <2>2, <2>4 DEF Sound
    <2> QED
      BY <1>0, <2>2, <2>3, <2>5, ScrollInv
  <1>9. CASE Len(page) # PageSize
    <2> DEFINE x == [t EXCEPT !.pc = "done", !.seen = all]
    <2>1. /\ x \in Scroll /\ x.pc = "done" /\ x.filter = t.filter /\ x.due = t.due
          /\ x.seen = all
      BY <1>0, <1>5 DEF Scroll
    <2>2. scroll' = [scroll EXCEPT ![s] = x]
      BY <1>1, <1>9 DEF all
    <2> HIDE DEF x
    <2>3. \A i \in x.due : log[i].state = "visible" => i \in Shown(x)
      BY <1>6, <1>9, <2>1 DEF Shown
    <2>4. Sound(x, log)
      BY <1>5, <1>7, <2>1, <2>3 DEF Sound
    <2> QED
      BY <1>0, <2>1, <2>2, <2>4, ScrollInv
  <1> QED
    BY <1>8, <1>9

-----------------------------------------------------------------------------
(* The theorems. *)

LEMMA InitInv == Init => AuditLogInv
  <1> SUFFICES ASSUME Init PROVE AuditLogInv
    OBVIOUS
  <1>1. /\ log = <<>> /\ log \in Seq(Entry) /\ Len(log) = 0 /\ DOMAIN log = {}
        /\ <<>> \in Seq(1..MaxEntries)
    BY DEF Init
  <1>2. /\ NotReading \in Scroll /\ NotReading.seen = <<>> /\ NotReading.due = {}
        /\ NotReading.pc = "idle"
    BY <1>1, AuditLogAssumption DEF NotReading, Scroll
  <1>3. TypeOK
    BY <1>1, <1>2, IdleTyped, AuditLogAssumption DEF Init, TypeOK
  <1>4. Drawn(req, log)
    BY IdleTyped DEF Init, Drawn
  <1>5. applied = Cardinality(Changes(log))
    <2>1. Changes(log) = {}
      BY <1>1 DEF Changes
    <2> QED
      BY <2>1, FS_EmptySet DEF Init
  <1>6. \A s \in Scrolls : Sound(scroll[s], log)
    BY <1>1, <1>2 DEF Init, Sound, Descending
  <1> QED
    BY <1>3, <1>4, <1>5, <1>6 DEF AuditLogInv

LEMMA NextInv == AuditLogInv /\ [Next]_vars => AuditLogInv'
  <1> SUFFICES ASSUME AuditLogInv, [Next]_vars PROVE AuditLogInv'
    OBVIOUS
  <1>1. ASSUME NEW q \in Reqs, Handler(q) PROVE AuditLogInv'
    BY <1>1, HandlerInv
  <1>2. ASSUME NEW s \in Scrolls, Reader(s) PROVE AuditLogInv'
    BY <1>2, StartScrollInv, ReadPageInv DEF Reader
  <1>3. ASSUME NEW retain \in Retentions, NEW now \in 0..clock, Purge(retain, now)
        PROVE  AuditLogInv'
    BY <1>3, PurgeInv
  <1>4. ASSUME Tick PROVE AuditLogInv'
    BY <1>4, TickInv
  <1>5. CASE UNCHANGED vars
    <2>1. UNCHANGED <<clock, log, applied, req, scroll>>
      BY <1>5 DEF vars
    <2>2. TypeOK'
      BY <2>1 DEF AuditLogInv, TypeOK, Ids
    <2> QED
      BY <2>1, <2>2 DEF AuditLogInv
  <1> QED
    BY <1>1, <1>2, <1>3, <1>4, <1>5 DEF Next

LEMMA AuditLogInvariant == Spec => []AuditLogInv
  <1>1. AuditLogInv /\ [Next]_vars => AuditLogInv'
    BY NextInv
  <1> QED
    BY InitInv, <1>1, PTL DEF Spec

\* Type correctness; the entry a transaction has inserted is pending until it ends.
THEOREM AuditLogTypeCorrect == Spec => []TypeOK
  <1>1. AuditLogInv => TypeOK
    BY DEF AuditLogInv
  <1> QED
    BY AuditLogInvariant, <1>1, PTL

\* As many entries of changes as changes committed: no action without its entry, and
\* no entry of an action that was rolled back (audit.go:203-206).
THEOREM EveryChangeIsLogged == Spec => []ChangesMatchEntries
  <1>1. AuditLogInv => ChangesMatchEntries
    BY DEF AuditLogInv, ChangesMatchEntries, Changes, Ids, Lasting
  <1> QED
    BY AuditLogInvariant, <1>1, PTL

\* A scroll to the end has shown all there was when it began, newest first and nothing
\* twice, but for what was purged; whatever the size of a page (audit.go:288-291).
THEOREM ScrollsAreComplete == Spec => []ScrollsComplete
  <1>1. AuditLogInv => ScrollsComplete
    <2> SUFFICES ASSUME AuditLogInv, NEW s \in Scrolls, scroll[s].pc = "done"
                 PROVE  /\ Descending(scroll[s].seen)
                        /\ \A i \in scroll[s].due \cap Visible :
                             \E n \in DOMAIN scroll[s].seen : scroll[s].seen[n] = i
      BY DEF ScrollsComplete
    <2>1. Sound(scroll[s], log)
      BY DEF AuditLogInv
    <2> QED
      BY <2>1 DEF Sound, Passed, Shown, Visible
  <1> QED
    BY AuditLogInvariant, <1>1, PTL

\* The entries of a committed transaction stay as they are, and leave only by a purge
\* whose retention, not 0, has run out for them (audit.go:341-348).
THEOREM LogIsAppendOnly == Spec => AppendOnly
  <1> DEFINE Kept == \A i \in Ids : Lasting(i) =>
                \/ log'[i] = log[i]
                \/ /\ log'[i].state = "purged" /\ log'[i].kind = log[i].kind
                   /\ \E retain \in Retentions \ {0} : log[i].created + retain < clock
  <1>1. AuditLogInv /\ [Next]_vars => Kept
    <2> SUFFICES ASSUME AuditLogInv, [Next]_vars PROVE Kept
      OBVIOUS
    <2>0. log \in Seq(Entry) /\ Drawn(req, log)
      BY DEF AuditLogInv, TypeOK
    <2>1. ASSUME UNCHANGED log PROVE Kept
      BY <2>1
    <2>2. ASSUME NEW e \in Entry, log' = Append(log, e) PROVE Kept
      BY <2>0, <2>2, AppendFacts DEF Ids
    <2>3. ASSUME NEW q \in Reqs, req[q].pc = "recorded",
                 \A i \in DOMAIN log \ {req[q].entry} : log'[i] = log[i]
          PROVE  Kept
      BY <2>0, <2>3 DEF Drawn, Ids, Lasting
    <2>4. ASSUME NEW retain \in Retentions, NEW now \in 0..clock, Purge(retain, now)
          PROVE  Kept
      BY <2>4, PurgeFacts DEF Ids
    <2>5. ASSUME NEW q \in Reqs, Handler(q) PROVE Kept
      <3>1. CASE Record(q)
        <4> DEFINE e == [state |-> "pending", kind |-> "change",
                         created |-> req[q].created]
        <4>1. e \in Entry
          BY OneRequest DEF Entry, Request, Kinds
        <4>2. log' = Append(log, e)
          BY <3>1 DEF Record, Insert
        <4> QED
          BY <2>2, <4>1, <4>2
      <3>2. CASE RecordRefusal(q)
        <4> DEFINE e == [state |-> "visible", kind |-> req[q].kind, created |-> clock]
        <4>1. e \in Entry
          BY OneRequest DEF Entry, Request
        <4>2. log' = Append(log, e)
          BY <3>2 DEF RecordRefusal, Insert
        <4> QED
          BY <2>2, <4>1, <4>2
      <3>3. CASE Commit(q)
        BY <2>0, <2>3, <3>3 DEF Commit
      <3>4. CASE Fail(q)
        BY <2>0, <2>1, <2>3, <3>4 DEF Fail, Undo
      <3>5. CASE Begin(q) \/ Refuse(q) \/ Disconnect(q) \/ LoseRefusal(q)
        BY <2>1, <3>5 DEF Begin, Refuse, Disconnect, LoseRefusal
      <3> QED
        BY <2>5, <3>1, <3>2, <3>3, <3>4, <3>5 DEF Handler
    <2>6. ASSUME NEW s \in Scrolls, Reader(s) PROVE Kept
      BY <2>1, <2>6 DEF Reader, StartScroll, ReadPage
    <2>7. ASSUME Tick \/ UNCHANGED vars PROVE Kept
      BY <2>1, <2>7 DEF Tick, vars
    <2> QED
      BY <2>4, <2>5, <2>6, <2>7 DEF Next
  <1>2. AuditLogInv /\ [Next]_vars => [Kept]_vars
    BY <1>1
  <1> QED
    BY AuditLogInvariant, <1>2, PTL DEF Spec, AppendOnly
=============================================================================
