---------------------------- MODULE ReplicasProofs ----------------------------
(***************************************************************************)
(* Theorems about Replicas, for any replicas, builds, catalogs and edits.  *)
(***************************************************************************)
EXTENDS Replicas, TLAPS

-----------------------------------------------------------------------------
(* The inductive invariant. *)

\* The rows a replica has locked are a prefix of its catalog.
InOrder(x) ==
    \A p \in x.synced : \E i \in DOMAIN Catalog[x.build] :
        /\ Catalog[x.build][i] = p
        /\ \A k \in 1..i - 1 : Catalog[x.build][k] \in x.synced

\* Past SyncPermissions, the table has all that the build enforces.
Synced(x, rows) ==
    x.pc \notin {"down", "syncing"} => Enforced(x.build) \subseteq rows

ReplicasInv ==
    /\ TypeOK
    /\ \A r \in Replicas : InOrder(replica[r]) /\ Synced(replica[r], table)
    /\ ServedPermissionsExist

\* What a step has to show if it takes the replicas and their requests one by one.
LEMMA PointwiseInv ==
  ASSUME ReplicasInv, table \subseteq table', table' \subseteq Permissions,
         grants' \subseteq table',
         NEW r \in Replicas, NEW x \in Replica, NEW y \in Request,
         replica' = [replica EXCEPT ![r] = x],
         request' = [request EXCEPT ![r] = y],
         x.synced # {} => x.pc = "syncing",
         InOrder(x),
         Synced(x, table'),
         y.pc \in {"accepted", "writing", "committed"} => y.perms \subseteq table'
  PROVE  ReplicasInv'
  <1>1. /\ replica \in [Replicas -> Replica] /\ request \in [Replicas -> Request]
        /\ \A s \in Replicas : replica[s].synced # {} => replica[s].pc = "syncing"
    BY DEF ReplicasInv, TypeOK, Syncing
  <1>2. /\ \A s \in Replicas : replica'[s] = IF s = r THEN x ELSE replica[s]
        /\ \A s \in Replicas : request'[s] = IF s = r THEN y ELSE request[s]
    BY <1>1
  <1>3. TypeOK'
    BY <1>1, <1>2 DEF TypeOK, Syncing
  <1>4. \A s \in Replicas : InOrder(replica'[s]) /\ Synced(replica'[s], table')
    BY <1>2 DEF ReplicasInv, Synced
  <1>5. ServedPermissionsExist'
    BY <1>2 DEF ReplicasInv, ServedPermissionsExist, InFlight
  <1> QED
    BY <1>3, <1>4, <1>5 DEF ReplicasInv

-----------------------------------------------------------------------------
(* Steps of one replica. *)

\* What the invariant says of one replica and its request.
LEMMA OneReplica ==
  ASSUME ReplicasInv, NEW r \in Replicas
  PROVE  /\ replica \in [Replicas -> Replica] /\ request \in [Replicas -> Request]
         /\ replica[r] \in Replica /\ request[r] \in Request
         /\ replica[r].synced # {} => replica[r].pc = "syncing"
         /\ InOrder(replica[r]) /\ Synced(replica[r], table)
         /\ InFlight(r) => request[r].perms \subseteq table
         /\ table \subseteq Permissions /\ grants \subseteq table
  BY DEF ReplicasInv, TypeOK, Syncing, ServedPermissionsExist

\* The replica moves on, and its request does not.
LEMMA MoveInv ==
  ASSUME ReplicasInv, NEW r \in Replicas, NEW x \in Replica,
         replica' = [replica EXCEPT ![r] = x], UNCHANGED <<table, grants, request>>,
         x.synced # {} => x.pc = "syncing", InOrder(x), Synced(x, table)
  PROVE  ReplicasInv'
  <1> DEFINE y == request[r]
  <1>1. /\ y \in Request /\ request' = [request EXCEPT ![r] = y]
        /\ y.pc \in {"accepted", "writing", "committed"} => y.perms \subseteq table'
        /\ table \subseteq table' /\ table' \subseteq Permissions
        /\ grants' \subseteq table' /\ Synced(x, table')
    BY OneReplica DEF InFlight
  <1> HIDE DEF y
  <1> QED
    BY <1>1, PointwiseInv

\* A replica that has locked nothing is in order, whatever it does.
LEMMA NothingLocked ==
  ASSUME NEW x, x.synced = {}
  PROVE  InOrder(x) /\ (x.synced # {} => x.pc = "syncing")
  BY DEF InOrder

\* The process goes on to another stage of run(), past SyncPermissions.
LEMMA GoInv ==
  ASSUME ReplicasInv, NEW r \in Replicas, NEW x \in Replica,
         replica[r].pc \notin {"down", "syncing"},
         x.synced = replica[r].synced, x.build = replica[r].build,
         replica' = [replica EXCEPT ![r] = x],
         UNCHANGED <<table, grants, request>>
  PROVE  ReplicasInv'
  <1>1. replica[r].synced = {} /\ Synced(replica[r], table)
    BY OneReplica
  <1>2. Synced(x, table)
    BY <1>1 DEF Synced
  <1> QED
    BY <1>1, <1>2, NothingLocked, MoveInv

\* The request moves on, and its replica does not.
LEMMA AskInv ==
  ASSUME ReplicasInv, NEW r \in Replicas, NEW y \in Request,
         request' = [request EXCEPT ![r] = y], UNCHANGED <<table, replica>>,
         grants' \subseteq table,
         y.pc \in {"accepted", "writing", "committed"} => y.perms \subseteq table
  PROVE  ReplicasInv'
  <1> DEFINE x == replica[r]
  <1>1. /\ x \in Replica /\ replica' = [replica EXCEPT ![r] = x]
        /\ x.synced # {} => x.pc = "syncing"
        /\ InOrder(x) /\ Synced(x, table') /\ table \subseteq table'
        /\ table' \subseteq Permissions /\ grants' \subseteq table'
    BY OneReplica
  <1> HIDE DEF x
  <1> QED
    BY <1>1, PointwiseInv

LEMMA ExitInv ==
  ASSUME ReplicasInv, NEW r \in Replicas, NEW fate \in {"cut", "killed"},
         Exit(r, fate), UNCHANGED <<table, grants>>
  PROVE  ReplicasInv'
  <1> DEFINE x == [replica[r] EXCEPT !.pc = "down", !.synced = {},
                                     !.signalled = FALSE, !.late = FALSE]
             y == IF InFlight(r) THEN [NoRequest EXCEPT !.pc = fate] ELSE NoRequest
  <1>0. /\ replica[r] \in Replica /\ replica \in [Replicas -> Replica]
        /\ table \subseteq Permissions /\ grants \subseteq table
    BY OneReplica
  <1>1. x \in Replica /\ x.synced = {} /\ x.pc = "down"
    BY <1>0 DEF Replica
  <1>2. y \in Request /\ y.pc \in {"none", "cut", "killed"}
    BY DEF Request, NoRequest
  <1>3. replica' = [replica EXCEPT ![r] = x] /\ request' = [request EXCEPT ![r] = y]
    BY DEF Exit
  <1> HIDE DEF x, y
  <1>4. Synced(x, table') /\ InOrder(x)
    BY <1>1, NothingLocked DEF Synced
  <1> QED
    BY <1>0, <1>1, <1>2, <1>3, <1>4, PointwiseInv

-----------------------------------------------------------------------------
(* The actions. *)

LEMMA StartInv ==
  ASSUME ReplicasInv, NEW r \in Replicas, NEW b \in Builds, Start(r, b)
  PROVE  ReplicasInv'
  <1> DEFINE x == [replica[r] EXCEPT !.pc = "syncing", !.build = b]
  <1>1. /\ replica[r] \in Replica /\ replica[r].synced = {}
        /\ table \subseteq Permissions /\ grants \subseteq table
    BY OneReplica DEF Start
  <1>2. x \in Replica /\ x.synced = {} /\ x.pc = "syncing"
    BY <1>1 DEF Replica
  <1>3. /\ replica' = [replica EXCEPT ![r] = x] /\ UNCHANGED <<table, grants>>
        /\ request' = [request EXCEPT ![r] = NoRequest]
    BY DEF Start
  <1> HIDE DEF x
  <1>4. NoRequest \in Request /\ NoRequest.pc = "none"
    BY DEF Request, NoRequest
  <1>5. InOrder(x) /\ Synced(x, table')
    BY <1>2, NothingLocked DEF Synced
  <1> QED
    BY <1>1, <1>2, <1>3, <1>4, <1>5, PointwiseInv

\* The loop over the Catalog locks the rows in its order.
LEMMA SyncKeyInv ==
  ASSUME ReplicasInv, NEW r \in Replicas, NEW p \in Permissions, SyncKey(r, p)
  PROVE  ReplicasInv'
  <1> DEFINE x == [replica[r] EXCEPT !.synced = @ \cup {p}]
  <1>1. /\ replica[r] \in Replica /\ InOrder(replica[r])
        /\ replica[r].pc = "syncing"
    BY OneReplica DEF SyncKey, Syncing
  <1>2. /\ x \in Replica /\ x.pc = "syncing" /\ x.build = replica[r].build
        /\ x.synced = replica[r].synced \cup {p}
    BY <1>1 DEF Replica
  <1>3. replica' = [replica EXCEPT ![r] = x] /\ UNCHANGED <<table, grants, request>>
    BY DEF SyncKey
  <1>4. PICK n \in DOMAIN Catalog[x.build] :
          /\ Catalog[x.build][n] = p
          /\ \A k \in 1..n - 1 : Catalog[x.build][k] \in x.synced
    BY <1>2 DEF SyncKey, NextKeys
  <1> HIDE DEF x
  <1>5. InOrder(x) /\ Synced(x, table)
    BY <1>1, <1>2, <1>4 DEF InOrder, Synced
  <1> QED
    BY <1>2, <1>3, <1>5, MoveInv

\* When the loop is through, all that the build enforces is locked, and is committed.
LEMMA SyncCommitInv ==
  ASSUME ReplicasInv, NEW r \in Replicas, SyncCommit(r)
  PROVE  ReplicasInv'
  <1> DEFINE x == [replica[r] EXCEPT !.pc = "starting", !.synced = {}]
             y == request[r]
  <1>1. /\ replica[r] \in Replica /\ y \in Request
        /\ request \in [Replicas -> Request]
        /\ table \subseteq Permissions /\ grants \subseteq table
        /\ InFlight(r) => y.perms \subseteq table
    BY OneReplica
  <1>2. /\ x \in Replica /\ x.synced = {} /\ x.build = replica[r].build
        /\ replica[r].synced \subseteq Permissions
    BY <1>1 DEF Replica
  <1>3. /\ replica' = [replica EXCEPT ![r] = x] /\ request' = [request EXCEPT ![r] = y]
        /\ table' = table \cup replica[r].synced /\ grants' = grants
        /\ Enforced(x.build) \subseteq replica[r].synced
    BY <1>1, <1>2 DEF SyncCommit, Unsynced
  <1>4. y.pc \in {"accepted", "writing", "committed"} => y.perms \subseteq table'
    BY <1>1, <1>3 DEF InFlight
  <1> HIDE DEF x, y
  <1>5. InOrder(x) /\ Synced(x, table')
    BY <1>2, <1>3, NothingLocked DEF Synced
  <1> QED
    BY <1>1, <1>2, <1>3, <1>4, <1>5, PointwiseInv

LEMMA StageInv ==
  ASSUME ReplicasInv, NEW r \in Replicas,
         Listen(r) \/ Shutdown(r) \/ Drained(r) \/ Deadline(r)
  PROVE  ReplicasInv'
  <1>0. /\ replica[r] \in Replica /\ replica \in [Replicas -> Replica]
        /\ replica[r].pc \notin {"down", "syncing"}
        /\ UNCHANGED <<table, grants, request>>
    BY OneReplica DEF Listen, Shutdown, Drained, Deadline
  <1>1. ASSUME NEW pc \in {"serving", "draining", "closing"}, Go(r, pc)
        PROVE  ReplicasInv'
    <2> DEFINE x == [replica[r] EXCEPT !.pc = pc]
    <2>1. /\ x \in Replica /\ x.synced = replica[r].synced
          /\ x.build = replica[r].build
      BY <1>0 DEF Replica
    <2>2. replica' = [replica EXCEPT ![r] = x]
      BY <1>1 DEF Go
    <2> HIDE DEF x
    <2> QED
      BY <1>0, <2>1, <2>2, GoInv
  <1>2. CASE Deadline(r)
    <2> DEFINE x == [replica[r] EXCEPT !.pc = "closing", !.late = TRUE]
    <2>1. /\ x \in Replica /\ x.synced = replica[r].synced
          /\ x.build = replica[r].build
      BY <1>0 DEF Replica
    <2>2. replica' = [replica EXCEPT ![r] = x]
      BY <1>0, <1>2 DEF Deadline
    <2> HIDE DEF x
    <2> QED
      BY <1>0, <2>1, <2>2, GoInv
  <1> QED
    BY <1>1, <1>2 DEF Listen, Shutdown, Drained

LEMMA SignalInv ==
  ASSUME ReplicasInv, NEW r \in Replicas, Signal(r)
  PROVE  ReplicasInv'
  <1> DEFINE x == [replica[r] EXCEPT !.signalled = TRUE]
  <1>1. /\ replica[r] \in Replica /\ InOrder(replica[r])
        /\ Synced(replica[r], table)
        /\ replica[r].synced # {} => replica[r].pc = "syncing"
    BY OneReplica
  <1>2. /\ x \in Replica /\ x.synced = replica[r].synced
        /\ x.build = replica[r].build /\ x.pc = replica[r].pc
    BY <1>1 DEF Replica
  <1>3. replica' = [replica EXCEPT ![r] = x] /\ UNCHANGED <<table, grants, request>>
    BY DEF Signal
  <1> HIDE DEF x
  <1>4. InOrder(x) /\ Synced(x, table)
    BY <1>1, <1>2 DEF InOrder, Synced
  <1> QED
    BY <1>1, <1>2, <1>3, <1>4, MoveInv

LEMMA EndInv ==
  ASSUME ReplicasInv, NEW r \in Replicas,
         SyncCancelled(r) \/ SyncDeadlocked(r) \/ Close(r) \/ Crash(r)
  PROVE  ReplicasInv'
  BY ExitInv DEF SyncCancelled, SyncDeadlocked, Close, Crash

\* The request asks the catalog of its build, which the table has.
LEMMA AcceptInv ==
  ASSUME ReplicasInv, NEW r \in Replicas, NEW perms \in Edits, Accept(r, perms)
  PROVE  ReplicasInv'
  <1> DEFINE y == [pc |-> "accepted", perms |-> perms]
  <1>1. Synced(replica[r], table) /\ grants \subseteq table
    BY OneReplica
  <1>2. y \in Request /\ y.perms \subseteq table
    BY <1>1, ReplicasAssumption DEF Accept, Synced, Request
  <1>3. request' = [request EXCEPT ![r] = y] /\ UNCHANGED <<table, grants, replica>>
    BY DEF Accept
  <1> HIDE DEF y
  <1> QED
    BY <1>1, <1>2, <1>3, AskInv

LEMMA HandleInv ==
  ASSUME ReplicasInv, NEW r \in Replicas, Handle(r)
  PROVE  ReplicasInv'
  <1>0. /\ request[r] \in Request /\ grants \subseteq table
        /\ InFlight(r) => request[r].perms \subseteq table
    BY OneReplica
  <1>1. ASSUME NEW pc \in {"writing", "committed", "answered"}, Ask(r, pc), InFlight(r),
               UNCHANGED <<table, replica>>, grants' \subseteq table
        PROVE  ReplicasInv'
    <2> DEFINE y == [request[r] EXCEPT !.pc = pc]
    <2>1. y \in Request /\ y.perms \subseteq table
      BY <1>0, <1>1 DEF Request
    <2>2. request' = [request EXCEPT ![r] = y]
      BY <1>1 DEF Ask
    <2> HIDE DEF y
    <2> QED
      BY <1>1, <2>1, <2>2, AskInv
  <1>2. CASE Begin(r)
    BY <1>0, <1>1, <1>2 DEF Begin, InFlight
  <1>3. CASE Save(r)
    BY <1>0, <1>1, <1>3 DEF Save, InFlight
  <1>4. CASE Answer(r)
    BY <1>0, <1>1, <1>4 DEF Answer, InFlight
  <1>5. CASE Release(r)
    <2>1. NoRequest \in Request /\ NoRequest.pc = "none"
      BY DEF Request, NoRequest
    <2> QED
      BY <1>0, <1>5, <2>1, AskInv DEF Release
  <1> QED
    BY <1>2, <1>3, <1>4, <1>5 DEF Handle

-----------------------------------------------------------------------------
(* The theorems. *)

LEMMA InitInv == Init => ReplicasInv
  <1> SUFFICES ASSUME Init PROVE ReplicasInv
    OBVIOUS
  <1>1. \A r \in Replicas : /\ replica[r] \in Replica /\ replica[r].synced = {}
                            /\ replica[r].pc = "down" /\ request[r] = NoRequest
    <2> SUFFICES ASSUME NEW r \in Replicas
                 PROVE  /\ replica[r] \in Replica /\ replica[r].synced = {}
                        /\ replica[r].pc = "down" /\ request[r] = NoRequest
      OBVIOUS
    <2> DEFINE fresh(b) == [pc |-> "down", build |-> b, synced |-> {},
                            signalled |-> FALSE, late |-> FALSE]
    <2>1. /\ replica \in [Replicas -> {fresh(b) : b \in Builds}]
          /\ request = [s \in Replicas |-> NoRequest]
      BY DEF Init
    <2>2. PICK b \in Builds : replica[r] = fresh(b)
      BY <2>1
    <2> QED
      BY <2>1, <2>2 DEF Replica
  <1>2. NoRequest \in Request /\ NoRequest.pc = "none"
    BY DEF Request, NoRequest
  <1>3. replica \in [Replicas -> Replica] /\ request \in [Replicas -> Request]
    BY <1>1, <1>2 DEF Init
  <1>4. TypeOK
    BY <1>1, <1>3, ReplicasAssumption DEF Init, TypeOK
  <1>5. \A r \in Replicas : InOrder(replica[r]) /\ Synced(replica[r], table)
    BY <1>1, NothingLocked DEF Synced
  <1>6. ServedPermissionsExist
    BY <1>1, <1>2 DEF ServedPermissionsExist, InFlight
  <1> QED
    BY <1>4, <1>5, <1>6 DEF ReplicasInv

LEMMA NextInv == ReplicasInv /\ [Next]_vars => ReplicasInv'
  <1> SUFFICES ASSUME ReplicasInv, [Next]_vars PROVE ReplicasInv'
    OBVIOUS
  <1>1. ASSUME NEW r \in Replicas, Run(r) PROVE ReplicasInv'
    BY <1>1, SyncKeyInv, SyncCommitInv, StageInv, EndInv DEF Run
  <1>2. ASSUME NEW r \in Replicas, Handle(r) PROVE ReplicasInv'
    BY <1>2, HandleInv
  <1>3. ASSUME NEW r \in Replicas, NEW b \in Builds, Start(r, b) PROVE ReplicasInv'
    BY <1>3, StartInv
  <1>4. ASSUME NEW r \in Replicas, NEW perms \in Edits, Accept(r, perms)
        PROVE  ReplicasInv'
    BY <1>4, AcceptInv
  <1>5. ASSUME NEW r \in Replicas, Signal(r) \/ Deadline(r) \/ Crash(r)
        PROVE  ReplicasInv'
    BY <1>5, SignalInv, StageInv, EndInv
  <1>6. CASE UNCHANGED vars
    <2>1. UNCHANGED <<table, grants, replica, request>>
      BY <1>6 DEF vars
    <2>2. TypeOK'
      BY <2>1 DEF ReplicasInv, TypeOK, Syncing
    <2>3. ServedPermissionsExist'
      BY <2>1 DEF ReplicasInv, ServedPermissionsExist, InFlight
    <2>4. \A r \in Replicas : InOrder(replica'[r]) /\ Synced(replica'[r], table')
      BY <2>1 DEF ReplicasInv
    <2> QED
      BY <2>2, <2>3, <2>4 DEF ReplicasInv
  <1> QED
    BY <1>1, <1>2, <1>3, <1>4, <1>5, <1>6 DEF Next

LEMMA ReplicasInvariant == Spec => []ReplicasInv
  <1>1. ReplicasInv /\ [Next]_vars => ReplicasInv'
    BY NextInv
  <1> QED
    BY InitInv, <1>1, PTL DEF Spec

\* Type correctness; rows of the catalog are locked only by a replica that is
\* synchronising, and roles grant what the table has.
THEOREM ReplicasTypeCorrect == Spec => []TypeOK
  <1>1. ReplicasInv => TypeOK
    BY DEF ReplicasInv
  <1> QED
    BY ReplicasInvariant, <1>1, PTL

\* What a replica's catalog has let pass is in the table when it is written, whichever
\* builds, however many, start and stop beside it (permissions.go:102-104, 208-218).
THEOREM PermissionsServedExist == Spec => []ServedPermissionsExist
  <1>1. ReplicasInv => ServedPermissionsExist
    BY DEF ReplicasInv
  <1> QED
    BY ReplicasInvariant, <1>1, PTL

\* A row that r has locked comes before the one it waits for.
LEMMA LockedComesFirst ==
  ASSUME ReplicasInv, NEW r \in Replicas, NEW p \in NextKeys(r),
         NEW q \in replica[r].synced
  PROVE  Precedes(replica[r].build, q, p)
  <1> DEFINE c == Catalog[replica[r].build]
             synced == replica[r].synced
  <1>1. replica[r] \in Replica /\ InOrder(replica[r])
    BY OneReplica
  <1>2. c \in Seq(Permissions)
    BY <1>1, ReplicasAssumption DEF Replica
  <1>3. PICK n \in DOMAIN c : c[n] = p /\ p \notin synced
    BY DEF NextKeys, Unsynced
  <1>4. PICK i \in DOMAIN c : c[i] = q /\ \A k \in 1..i - 1 : c[k] \in synced
    BY <1>1 DEF InOrder
  <1> HIDE DEF c, synced
  <1>5. i \in Nat /\ n \in Nat /\ n >= 1 /\ i >= 1
    BY <1>2
  <1>6. i < n
    <2>1. CASE n < i
      BY <1>3, <1>4, <1>5, <2>1
    <2>2. CASE n = i
      BY <1>3, <1>4, <2>2 DEF synced
    <2> QED
      BY <1>5, <2>1, <2>2
  <1> QED
    BY <1>3, <1>4, <1>6 DEF Precedes, c

\* Two replicas that wait for each other run builds which list two permissions in
\* opposite orders: as long as the order of the catalog is kept from build to build,
\* no upgrade deadlocks in SyncPermissions (permissions.go:208-214).
THEOREM DeadlocksTakeTwoOrders == Spec => []DeadlockTakesTwoOrders
  <1>1. ReplicasInv => DeadlockTakesTwoOrders
    <2> SUFFICES ASSUME ReplicasInv, NEW r \in Replicas, NEW s \in Replicas,
                        WaitsFor(r, s), WaitsFor(s, r)
                 PROVE  \E p, q \in Permissions :
                          /\ Precedes(replica[r].build, p, q)
                          /\ Precedes(replica[s].build, q, p)
      BY DEF DeadlockTakesTwoOrders
    <2>1. PICK q \in NextKeys(r) : q \in replica[s].synced
      BY DEF WaitsFor
    <2>2. PICK p \in NextKeys(s) : p \in replica[r].synced
      BY DEF WaitsFor
    <2>3. p \in Permissions /\ q \in Permissions
      BY <2>1, <2>2, OneReplica DEF Replica
    <2>4. Precedes(replica[r].build, p, q) /\ Precedes(replica[s].build, q, p)
      BY <2>1, <2>2, LockedComesFirst
    <2> QED
      BY <2>3, <2>4
  <1> QED
    BY ReplicasInvariant, <1>1, PTL
=============================================================================
