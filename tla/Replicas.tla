------------------------------ MODULE Replicas ------------------------------
(***************************************************************************)
(* The life of the server's replicas: run() of cmd/server/main.go, with    *)
(* SyncPermissions and the catalog (internal/identity/permissions.go) and  *)
(* the server's Start and Shutdown (internal/server/server.go).            *)
(*                                                                         *)
(* The catalog is compiled in, and the table of permissions is one: during *)
(* an upgrade or a rollback replicas of several builds start, serve and    *)
(* stop beside each other on the same database.                            *)
(*                                                                         *)
(* What a replica serves is one kind of request: a superuser saves a       *)
(* custom role.  It is the request that the two catalogs matter to, and a  *)
(* transaction that holds a connection of the pool like any other.         *)
(***************************************************************************)
EXTENDS Naturals, Sequences

CONSTANTS
    Replicas, Builds, Permissions,
    Catalog,     \* each build's `var Catalog`, in source order
    Seeded,      \* what the migration has put in the table
    Edits        \* sets of permissions a role may be saved with

ASSUME ReplicasAssumption ==
    /\ Catalog \in [Builds -> Seq(Permissions)]
    /\ Seeded \subseteq Permissions /\ Edits \subseteq SUBSET Permissions

VARIABLES
    table,      \* rows of permissions
    grants,     \* role_permissions of the custom role
    replica,    \* run(), on each replica
    request     \* the request it serves

vars == <<table, grants, replica, request>>

Enforced(b) == {Catalog[b][i] : i \in DOMAIN Catalog[b]}

\* `synced` are the rows locked by an open SyncPermissions; `late` says that the
\* shutdown deadline has passed.
Replica ==
    [pc : {"down", "syncing", "starting", "serving", "draining", "closing"},
     build : Builds, synced : SUBSET Permissions,
     signalled : BOOLEAN, late : BOOLEAN]

Request == [pc : {"none", "accepted", "writing", "committed", "answered", "cut", "killed"},
            perms : SUBSET Permissions]
NoRequest == [pc |-> "none", perms |-> {}]

InFlight(r) == request[r].pc \in {"accepted", "writing", "committed"}

Go(r, pc) == replica' = [replica EXCEPT ![r].pc = pc]
Ask(r, pc) == request' = [request EXCEPT ![r].pc = pc]

\* The process ends, and the request it was serving ends as `fate`.
Exit(r, fate) ==
    /\ replica' = [replica EXCEPT ![r] = [@ EXCEPT !.pc = "down", !.synced = {},
                                            !.signalled = FALSE, !.late = FALSE]]
    /\ request' = [request EXCEPT ![r] = IF InFlight(r) THEN [NoRequest EXCEPT !.pc = fate]
                                         ELSE NoRequest]

-----------------------------------------------------------------------------
(* Starting. *)

\* NewPool has reached the database, and SyncPermissions opens its transaction.
Start(r, b) ==
    /\ replica[r].pc = "down"
    /\ replica' = [replica EXCEPT ![r] = [@ EXCEPT !.pc = "syncing", !.build = b]]
    /\ request' = [request EXCEPT ![r] = NoRequest]
    /\ UNCHANGED <<table, grants>>

Syncing(r) == replica[r].pc = "syncing"
Unsynced(r) == Enforced(replica[r].build) \ replica[r].synced

\* Bug: the catalog is a map, and is walked in any order.
NextKeysAny(r) == Unsynced(r)

\* Where the loop over the Catalog stands.
NextKeys(r) ==
    LET catalog == Catalog[replica[r].build] IN
    {catalog[i] : i \in {n \in DOMAIN catalog :
        /\ catalog[n] \in Unsynced(r)
        /\ \A k \in 1..n - 1 : catalog[k] \in replica[r].synced}}

\* One upsert.  It locks its row, new or not, until the transaction ends.
SyncKey(r, p) ==
    /\ Syncing(r) /\ p \in NextKeys(r)
    /\ \A s \in Replicas : p \notin replica[s].synced
    /\ replica' = [replica EXCEPT ![r].synced = @ \cup {p}]
    /\ UNCHANGED <<table, grants, request>>

\* Bug: what the code no longer enforces is deleted, unless a role grants it.
SyncAndStrip(r) ==
    /\ Syncing(r) /\ Unsynced(r) = {}
    /\ table' = (table \cap grants) \cup replica[r].synced
    /\ replica' = [replica EXCEPT ![r].pc = "starting", ![r].synced = {}]
    /\ UNCHANGED <<grants, request>>

\* Bug: the transaction is left open.
SyncUnfinished(r) ==
    /\ Syncing(r) /\ Unsynced(r) = {}
    /\ table' = table \cup replica[r].synced
    /\ Go(r, "starting")
    /\ UNCHANGED <<grants, request>>

\* The commit.  Permissions the build does not know are logged, and stay.
SyncCommit(r) ==
    /\ Syncing(r) /\ Unsynced(r) = {}
    /\ table' = table \cup replica[r].synced
    /\ replica' = [replica EXCEPT ![r].pc = "starting", ![r].synced = {}]
    /\ UNCHANGED <<grants, request>>

\* The root context is cancelled: run returns the error of a statement.
SyncCancelled(r) ==
    /\ Syncing(r) /\ replica[r].signalled
    /\ Exit(r, "cut")
    /\ UNCHANGED <<table, grants>>

\* r's next upsert waits for a row that s has locked.
WaitsFor(r, s) ==
    /\ Syncing(r) /\ r # s
    /\ NextKeys(r) # {} /\ NextKeys(r) \subseteq replica[s].synced

\* A replica waits for one row and so for one other: a set of replicas in which
\* everyone waits and is waited for is made of cycles.
InCycle(r) ==
    \E W \in SUBSET Replicas : r \in W /\ \A s \in W :
        (\E t \in W : WaitsFor(s, t)) /\ (\E t \in W : WaitsFor(t, s))

\* Postgres ends one of the transactions that wait for each other.
SyncDeadlocked(r) ==
    /\ Syncing(r) /\ InCycle(r)
    /\ Exit(r, "cut")
    /\ UNCHANGED <<table, grants>>

\* `go srv.Start()`: ListenAndServe, which fails if Shutdown came first or the
\* address is taken; in the second case run returns without a Shutdown.
Listen(r) ==
    /\ replica[r].pc = "starting"
    /\ \/ Go(r, "serving") \/ Go(r, "closing")
    /\ UNCHANGED <<table, grants, request>>

-----------------------------------------------------------------------------
(* Serving. *)

\* UpdateRole up to its transaction: Valid and the guard ask this build's catalog.
Accept(r, perms) ==
    /\ replica[r].pc = "serving" /\ request[r].pc = "none"
    /\ perms \subseteq Enforced(replica[r].build)
    /\ request' = [request EXCEPT ![r] = [pc |-> "accepted", perms |-> perms]]
    /\ UNCHANGED <<table, grants, replica>>

\* The transaction gets its connection, or the pool has been closed.
Begin(r) ==
    /\ request[r].pc = "accepted"
    /\ IF replica[r].pc = "closing" THEN Ask(r, "answered") ELSE Ask(r, "writing")
    /\ UNCHANGED <<table, grants, replica>>

\* Bug: no rollback when the guard refuses: the connection is never returned.
SaveLeaking(r) ==
    /\ request[r].pc = "writing"
    /\ grants \subseteq Enforced(replica[r].build)
    /\ Ask(r, "committed")
    /\ grants' = IF request[r].perms \subseteq table THEN request[r].perms ELSE grants
    /\ UNCHANGED <<table, replica>>

\* The second guard refuses to edit a role that grants what this build does not
\* know; otherwise the role is rewritten, if the foreign key finds its permissions.
Save(r) ==
    /\ request[r].pc = "writing"
    /\ Ask(r, "committed")
    /\ grants' = IF grants \subseteq Enforced(replica[r].build)
                    /\ request[r].perms \subseteq table
                 THEN request[r].perms ELSE grants
    /\ UNCHANGED <<table, replica>>

Answer(r) ==
    /\ request[r].pc = "committed"
    /\ Ask(r, "answered")
    /\ UNCHANGED <<table, grants, replica>>

\* The connection is idle again.
Release(r) ==
    /\ request[r].pc = "answered"
    /\ request' = [request EXCEPT ![r] = NoRequest]
    /\ UNCHANGED <<table, grants, replica>>

-----------------------------------------------------------------------------
(* Stopping. *)

Signal(r) ==
    /\ replica[r].pc # "down" /\ ~replica[r].signalled
    /\ replica' = [replica EXCEPT ![r].signalled = TRUE]
    /\ UNCHANGED <<table, grants, request>>

\* Bug: the deadline hangs off the cancelled context, and expires at once.
ShutdownExpired(r) ==
    /\ replica[r].pc \in {"starting", "serving"} /\ replica[r].signalled
    /\ Go(r, "closing")
    /\ UNCHANGED <<table, grants, request>>

\* Shutdown closes the listener, open or not yet.
Shutdown(r) ==
    /\ replica[r].pc \in {"starting", "serving"} /\ replica[r].signalled
    /\ Go(r, "draining")
    /\ UNCHANGED <<table, grants, request>>

\* No request is in flight.
Drained(r) ==
    /\ replica[r].pc = "draining" /\ ~InFlight(r)
    /\ Go(r, "closing")
    /\ UNCHANGED <<table, grants, request>>

\* ShutdownTimeout has passed.  The handler is not told.
Deadline(r) ==
    /\ replica[r].pc = "draining" /\ InFlight(r)
    /\ replica' = [replica EXCEPT ![r].pc = "closing", ![r].late = TRUE]
    /\ UNCHANGED <<table, grants, request>>

\* run returns: pool.Close waits for every connection that is in use.
Close(r) ==
    /\ replica[r].pc = "closing" /\ request[r].pc # "writing"
    /\ Exit(r, "cut")
    /\ UNCHANGED <<table, grants>>

Crash(r) ==
    /\ replica[r].pc # "down"
    /\ Exit(r, "killed")
    /\ UNCHANGED <<table, grants>>

-----------------------------------------------------------------------------

Init ==
    /\ table = Seeded /\ grants = {}
    /\ replica \in [Replicas -> {[pc |-> "down", build |-> b, synced |-> {},
                                  signalled |-> FALSE, late |-> FALSE] : b \in Builds}]
    /\ request = [r \in Replicas |-> NoRequest]

Run(r) ==
    \/ \E p \in Permissions : SyncKey(r, p)
    \/ SyncCommit(r) \/ SyncCancelled(r) \/ SyncDeadlocked(r)
    \/ Listen(r) \/ Shutdown(r) \/ Drained(r) \/ Close(r)

Handle(r) == Begin(r) \/ Save(r) \/ Answer(r) \/ Release(r)

Next ==
    \E r \in Replicas :
        \/ Run(r) \/ Handle(r)
        \/ \E b \in Builds : Start(r, b)
        \/ \E perms \in Edits : Accept(r, perms)
        \/ Signal(r) \/ Deadline(r) \/ Crash(r)

Spec == Init /\ [][Next]_vars

\* A process runs, its handlers and statements end, and Postgres gives a row to
\* whoever has waited for it longest.  Nobody has to start or to signal a replica,
\* and the deadline need not strike.
Fairness ==
    \A r \in Replicas :
        /\ WF_vars(Run(r)) /\ WF_vars(Handle(r))
        /\ SF_vars(\E p \in Permissions : SyncKey(r, p))

FairSpec == Spec /\ Fairness

-----------------------------------------------------------------------------
(* Properties. *)

\* The type invariant; only a replica that is synchronising has rows locked.
TypeOK ==
    /\ table \subseteq Permissions /\ grants \subseteq table
    /\ replica \in [Replicas -> Replica]
    /\ \A r \in Replicas : replica[r].synced # {} => Syncing(r)
    /\ request \in [Replicas -> Request]

\* A permission that Valid has let pass is in the table when it is written: the
\* foreign key never turns a 400 into a 500 (permissions.go:102-104), whichever
\* builds have started and stopped since the replica synchronised.
ServedPermissionsExist ==
    \A r \in Replicas : InFlight(r) => request[r].perms \subseteq table

Precedes(b, p, q) ==
    \E i, j \in DOMAIN Catalog[b] : i < j /\ Catalog[b][i] = p /\ Catalog[b][j] = q

\* Replicas that start together lock each other's rows, but it takes two builds that
\* list two permissions in different orders for them to wait for each other:
\* replicas of one build never do (permissions.go:208-214).
DeadlockTakesTwoOrders ==
    \A r, s \in Replicas : WaitsFor(r, s) /\ WaitsFor(s, r) =>
        \E p, q \in Permissions :
            Precedes(replica[r].build, p, q) /\ Precedes(replica[s].build, q, p)

\* A replica that has begun to start comes to serve, or has ended: the replicas it
\* waits for in SyncPermissions do not keep it for ever.
StartsOrEnds ==
    \A r \in Replicas :
        replica[r].pc = "syncing" ~> replica[r].pc \in {"serving", "closing", "down"}

\* "A signal unwinds the whole process in order" (main.go:203-205), at whatever
\* point it comes.  "Not forever" (main.go:248) holds as long as the handlers end:
\* past the deadline, pool.Close still waits for the connections they hold.
SignalStops == \A r \in Replicas : replica[r].signalled ~> replica[r].pc = "down"

\* "Drain in-flight requests" (main.go:248-250): a request that was accepted is
\* answered, whenever the signal comes, unless the deadline passes or the process
\* is killed.
AcceptedIsAnswered ==
    \A r \in Replicas :
        request[r].pc = "accepted" ~>
            request[r].pc \in {"answered", "killed"} \/ replica[r].late
=============================================================================
