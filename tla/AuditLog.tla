------------------------------ MODULE AuditLog ------------------------------
(***************************************************************************)
(* The audit log: internal/audit/audit.go, the transactions and the error  *)
(* handler that write it, the handler that pages through it, and `server   *)
(* purge`.                                                                 *)
(*                                                                         *)
(* An entry's id is a uuidv7 drawn when it is inserted, so ids count up in *)
(* the order of the INSERTs; created_at is now(), the start of the         *)
(* transaction; and the entry is seen from the commit on.  These three     *)
(* orders differ, which is all the difficulty there is.                    *)
(*                                                                         *)
(* A request is a slot of `req`.  What it changes is of no interest here   *)
(* but for one thing: whether it was committed.                            *)
(***************************************************************************)
EXTENDS Naturals, FiniteSets, Sequences

CONSTANTS
    Reqs, Scrolls,      \* requests, and readers paging through the log
    Filters,            \* sets of kinds a reader may ask for
    Retentions,         \* values of AUDIT_RETENTION; 0 keeps for ever
    PageSize,
    MaxEntries, MaxClock    \* bounds

ASSUME AuditLogAssumption ==
    /\ PageSize \in Nat \ {0} /\ MaxEntries \in Nat /\ MaxClock \in Nat
    /\ Retentions \subseteq Nat

VARIABLES
    clock,
    log,        \* rows of audit_log, in the order of their ids
    applied,    \* history: changes committed so far
    req,
    scroll

vars == <<clock, log, applied, req, scroll>>

Kinds == {"change", "denial", "login"}
ASSUME FiltersAssumption == Filters \subseteq SUBSET Kinds

Ids == DOMAIN log

Entry == [state : {"pending", "visible", "aborted", "purged"},
          kind : Kinds, created : 0..MaxClock]

Visible == {i \in Ids : log[i].state = "visible"}
\* Rows that were committed, whether or not retention has ended since.
Lasting(i) == log[i].state \in {"visible", "purged"}

\* A row nobody sees again: its id is used up.
Aborted == [state |-> "aborted", kind |-> "change", created |-> 0]

-----------------------------------------------------------------------------
(* Requests. *)

\* `entry` is the id the transaction has drawn, or 0; `gone` says that the client
\* hung up and the request's context is cancelled.
Request ==
    [pc : {"idle", "open", "recorded", "refused"}, kind : Kinds,
     created : 0..MaxClock, entry : 0..MaxEntries, gone : BOOLEAN]

Idle == [pc |-> "idle", kind |-> "change", created |-> 0, entry |-> 0, gone |-> FALSE]

\* The INSERT of an entry.
Insert(kind, created, state) ==
    /\ Len(log) < MaxEntries
    /\ log' = Append(log, [state |-> state, kind |-> kind, created |-> created])

\* InTx opens the transaction of a change.
Begin(q) ==
    /\ req[q].pc = "idle"
    /\ req' = [req EXCEPT ![q] = [Idle EXCEPT !.pc = "open", !.created = clock]]
    /\ UNCHANGED <<clock, log, applied, scroll>>

\* Bug: the entry is written on the pool.
RecordOnPool(q) ==
    /\ req[q].pc = "open" /\ ~req[q].gone
    /\ Insert("change", clock, "visible")
    /\ req' = [req EXCEPT ![q] = [@ EXCEPT !.pc = "recorded", !.entry = Len(log')]]
    /\ UNCHANGED <<clock, applied, scroll>>

\* The change is made and Record joins its transaction.
Record(q) ==
    /\ req[q].pc = "open" /\ ~req[q].gone
    /\ Insert("change", req[q].created, "pending")
    /\ req' = [req EXCEPT ![q] = [@ EXCEPT !.pc = "recorded", !.entry = Len(log')]]
    /\ UNCHANGED <<clock, applied, scroll>>

\* The commit.  The caller may be told of an error all the same, if the
\* acknowledgement is lost.
Commit(q) ==
    /\ req[q].pc = "recorded"
    /\ log' = [log EXCEPT ![req[q].entry].state = "visible"]
    /\ applied' = applied + 1
    /\ req' = [req EXCEPT ![q] = Idle]
    /\ UNCHANGED <<clock, scroll>>

\* What a rollback leaves of the entry the transaction had inserted, if any.
Undo(q) ==
    IF req[q].pc = "recorded" /\ log[req[q].entry].state = "pending"
    THEN log' = [log EXCEPT ![req[q].entry] = Aborted] ELSE UNCHANGED log

\* The transaction fails: on a statement, on the commit, because the client hung
\* up and its context is cancelled, or because the process dies.
Fail(q) ==
    /\ req[q].pc \in {"open", "recorded"}
    /\ Undo(q)
    /\ req' = [req EXCEPT ![q] = Idle]
    /\ UNCHANGED <<clock, applied, scroll>>

\* A refusal worth auditing: by a guard inside the transaction, which is rolled
\* back, by requirePermission before there is one, or of a login.
Refuse(q) ==
    /\ \/ req[q].pc = "open" /\ req' = [req EXCEPT ![q] =
                [@ EXCEPT !.pc = "refused", !.kind = "denial", !.created = 0]]
       \/ /\ req[q].pc = "idle"
          /\ \E kind \in {"denial", "login"} : req' = [req EXCEPT ![q] =
                               [@ EXCEPT !.pc = "refused", !.kind = kind]]
    /\ UNCHANGED <<clock, log, applied, scroll>>

\* auditDenial and recordFailedLogin: one INSERT on the pool, and the answer.  The
\* first is made WithoutCancel, the second under the request's context.
RecordRefusal(q) ==
    /\ req[q].pc = "refused"
    /\ req[q].kind = "login" => ~req[q].gone
    /\ Insert(req[q].kind, clock, "visible")
    /\ req' = [req EXCEPT ![q] = Idle]
    /\ UNCHANGED <<clock, applied, scroll>>

Disconnect(q) ==
    /\ req[q].pc \in {"open", "refused"} /\ ~req[q].gone
    /\ req' = [req EXCEPT ![q].gone = TRUE]
    /\ UNCHANGED <<clock, log, applied, scroll>>

\* The INSERT fails, which is swallowed, or the process dies before it is made.
LoseRefusal(q) ==
    /\ req[q].pc = "refused"
    /\ req' = [req EXCEPT ![q] = Idle]
    /\ UNCHANGED <<clock, log, applied, scroll>>

-----------------------------------------------------------------------------
(* Reading. *)

\* `before` is the cursor, 0 for none.  `due` is history: what there was to see
\* when the scroll began.
Scroll == [pc : {"idle", "reading", "done"}, filter : SUBSET Kinds,
           before : 0..MaxEntries, seen : Seq(1..MaxEntries), due : SUBSET (1..MaxEntries)]

NotReading == [pc |-> "idle", filter |-> {}, before |-> 0, seen |-> <<>>, due |-> {}]

Matching(filter) == {i \in Visible : log[i].kind \in filter}

\* Bug: OFFSET instead of a cursor.
RestByOffset(t) ==
    {i \in Matching(t.filter) :
        Cardinality({j \in Matching(t.filter) : j > i}) >= Len(t.seen)}

\* List: WHERE id < before AND <filter>.
Rest(t) == {i \in Matching(t.filter) : t.before # 0 => i < t.before}

Descending(ids) == \A m, n \in DOMAIN ids : m < n => ids[n] < ids[m]

\* ORDER BY id DESC LIMIT: what is left out comes after a page that is full.
Page(page, rest) ==
    /\ \A n \in DOMAIN page : page[n] \in rest
    /\ Descending(page)
    /\ \A i \in rest : \/ \E n \in DOMAIN page : page[n] = i
                       \/ Len(page) = PageSize /\ i < page[PageSize]

Pages == UNION {[1..n -> 1..MaxEntries] : n \in 0..PageSize}

StartScroll(s, filter) ==
    /\ scroll[s].pc \in {"idle", "done"}
    /\ scroll' = [scroll EXCEPT ![s] = [NotReading EXCEPT !.pc = "reading",
                                        !.filter = filter, !.due = Matching(filter)]]
    /\ UNCHANGED <<clock, log, applied, req>>

\* handleListAuditLog: a full page comes with the cursor of the next.
ReadPage(s) ==
    LET t == scroll[s] IN
    /\ t.pc = "reading"
    /\ \E page \in Pages :
         /\ Page(page, Rest(t))
         /\ scroll' = [scroll EXCEPT ![s] =
                IF Len(page) = PageSize
                THEN [t EXCEPT !.before = page[PageSize], !.seen = @ \o page]
                ELSE [t EXCEPT !.pc = "done", !.seen = @ \o page]]
    /\ UNCHANGED <<clock, log, applied, req>>

-----------------------------------------------------------------------------
(* Purging, and time. *)

\* Bug: no retention is taken for a retention of nothing.
ExpiredAny(i, retain, now) ==
    log[i].state = "visible" /\ log[i].created + retain < now

\* Purge's WHERE clause; runPurge and Purge do nothing with no retention.
Expired(i, retain, now) ==
    /\ retain > 0
    /\ log[i].state = "visible"
    /\ log[i].created + retain < now

\* Purge: the DELETE, in a transaction begun at `now`, and the commit.  The trigger
\* lets it pass because the transaction has set app.audit_purge; no other statement
\* of the program deletes an entry.
Purge(retain, now) ==
    /\ \E i \in Ids : Expired(i, retain, now)
    /\ log' = [i \in Ids |-> IF Expired(i, retain, now)
                             THEN [log[i] EXCEPT !.state = "purged", !.created = 0]
                             ELSE log[i]]
    /\ UNCHANGED <<clock, applied, req, scroll>>

Tick ==
    /\ clock < MaxClock
    /\ clock' = clock + 1
    /\ UNCHANGED <<log, applied, req, scroll>>

-----------------------------------------------------------------------------

Init ==
    /\ clock = 0 /\ log = <<>> /\ applied = 0
    /\ req = [q \in Reqs |-> Idle]
    /\ scroll = [s \in Scrolls |-> NotReading]

Handler(q) ==
    \/ Begin(q) \/ Record(q) \/ Commit(q) \/ Fail(q)
    \/ Refuse(q) \/ RecordRefusal(q) \/ Disconnect(q) \/ LoseRefusal(q)

Reader(s) == (\E filter \in Filters : StartScroll(s, filter)) \/ ReadPage(s)

Next ==
    \/ \E q \in Reqs : Handler(q)
    \/ \E s \in Scrolls : Reader(s)
    \/ \E retain \in Retentions, now \in 0..clock : Purge(retain, now)
    \/ Tick

Spec == Init /\ [][Next]_vars

-----------------------------------------------------------------------------
(* Properties. *)

\* The type invariant; a transaction's entry is nobody else's to see.
TypeOK ==
    /\ clock \in 0..MaxClock /\ applied \in 0..MaxEntries
    /\ log \in Seq(Entry) /\ Len(log) <= MaxEntries
    /\ req \in [Reqs -> Request]
    /\ \A q \in Reqs : req[q].pc = "recorded" =>
         req[q].entry \in Ids /\ log[req[q].entry].state = "pending"
    /\ scroll \in [Scrolls -> Scroll]

\* It is "impossible to perform an action and fail to log it, or to log one that
\* then got rolled back" (audit.go:203-206): there are as many entries of changes
\* as changes committed, whatever fails in between and whatever the caller is told.
ChangesMatchEntries ==
    applied = Cardinality({i \in Ids : log[i].kind = "change" /\ Lasting(i)})

\* "A row arriving mid-scroll cannot shift the pages under the reader"
\* (audit.go:288-291): a scroll to the end shows no entry twice, or out of order,
\* and has shown every entry there was when it began, but for those purged in the
\* meantime, whatever was inserted, committed or purged between its pages.
ScrollsComplete ==
    \A s \in Scrolls : scroll[s].pc = "done" =>
        /\ Descending(scroll[s].seen)
        /\ \A i \in scroll[s].due \cap Visible :
             \E n \in DOMAIN scroll[s].seen : scroll[s].seen[n] = i

\* The log is append-only: an entry that was committed stays as it is, and leaves
\* only by a purge with a retention that has run out for it.  Without one it is
\* kept for ever (audit.go:341-348).
AppendOnly ==
    [][\A i \in Ids : Lasting(i) =>
         \/ log'[i] = log[i]
         \/ /\ log'[i].state = "purged" /\ log'[i].kind = log[i].kind
            /\ \E retain \in Retentions \ {0} : log[i].created + retain < clock]_vars
=============================================================================
