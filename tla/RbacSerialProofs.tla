--------------------------- MODULE RbacSerialProofs ---------------------------
(***************************************************************************)
(* Theorems about Rbac when requests are served one at a time, for any     *)
(* users, roles and permissions: what its handlers ask of the database     *)
(* still holds when they write, so they keep an admin, tell the truth in   *)
(* the audit log and are the atomic operations of AtomicRbac.              *)
(***************************************************************************)
EXTENDS RbacProofs, FiniteSetTheorems

\* At most one request is in flight.
Serial == \A p, q \in Reqs : p = q

\* An installation that has been set up.
Staffed == \E u \in Users : AdminRole \in SeedUserRoles[u]

-----------------------------------------------------------------------------
(* Somebody stays an admin, whatever the operator does meanwhile. *)

\* Somebody other than t is an admin.
OtherAdmin(t) == \E u \in Users : u # t /\ AdminRole \in userRoles[u]

\* An assignment that leaves the admin role out takes it from nobody, or not from
\* the last one.
LeavesAdmin(x) ==
    x.pc \in {"clearing", "assigning"} /\ AdminRole \notin x.ids
        => OtherAdmin(x.target)

AdminInv == AdminRemains /\ \A q \in Reqs : LeavesAdmin(req[q])

LEMMA SecondMember ==
  ASSUME NEW S, IsFiniteSet(S), Cardinality(S) > 1, NEW t
  PROVE  \E u \in S : u # t
  <1> SUFFICES ASSUME S \subseteq {t} PROVE FALSE
    OBVIOUS
  <1>1. IsFiniteSet({t}) /\ Cardinality({t}) = 1
    BY FS_Singleton
  <1>2. Cardinality(S) <= Cardinality({t})
    BY <1>1, FS_Subset
  <1>3. Cardinality(S) \in Nat
    BY FS_CardinalityType
  <1> QED
    BY <1>1, <1>2, <1>3

LEMMA OneSlot ==
  ASSUME Serial, NEW q \in Reqs
  PROVE  \A p \in Reqs : p = q
  BY DEF Serial

LEMMA AnsweredDone ==
  ASSUME NEW x \in Request, NEW result \in Results
  PROVE  /\ Answered(x, result).pc = "done"
         /\ result = "ok" => Answered(x, result) =
              [x EXCEPT !.pc = "done", !.result = "ok", !.isSuper = FALSE,
                        !.access = NoAccess, !.rows = {}]
  <1>1. CASE result = "ok"
    BY <1>1 DEF Answered, Request
  <1>2. CASE result # "ok"
    BY <1>2 DEF Answered, Idle
  <1> QED
    BY <1>1, <1>2

LEMMA AnswerDone ==
  ASSUME TypeOK, NEW q \in Reqs, NEW result \in Results, Answer(q, result)
  PROVE  req'[q].pc = "done"
  BY AnsweredDone DEF Answer, TypeOK

\* Where a step of request q can leave it.
LEMMA MiddlewareGoesTo ==
  ASSUME TypeOK, NEW q \in Reqs, Middleware(q)
  PROVE  /\ UNCHANGED db
         /\ req'[q].pc \in {"authenticated", "authorized", "done", "idle"}
  <1>1. ASSUME NEW u \in Callers, Authenticate(q, u)
        PROVE  UNCHANGED db /\ req'[q].pc = "authenticated"
    BY <1>1 DEF Authenticate, TypeOK, Idle
  <1>2. ASSUME Authorize(q) PROVE UNCHANGED db /\ req'[q].pc = "authorized"
    <2>1. req[q] \in Request
      BY DEF TypeOK
    <2> QED
      BY <1>2, <2>1 DEF Authorize, TypeOK, Request
  <1>3. ASSUME NEW p, Forbid(q, p) PROVE UNCHANGED db /\ req'[q].pc = "done"
    <2>1. "forbidden" \in Results
      BY DEF Results
    <2> QED
      BY <1>3, <2>1, AnswerDone DEF Forbid, Refuse
  <1>4. ASSUME Finish(q) PROVE UNCHANGED db /\ req'[q].pc = "idle"
    BY <1>4 DEF Finish, Idle, TypeOK
  <1> QED
    BY <1>1, <1>2, <1>3, <1>4 DEF Middleware

LEMMA MiddlewareAdmin ==
  ASSUME Serial, TypeOK, AdminInv, NEW q \in Reqs, Middleware(q)
  PROVE  AdminInv'
  <1>1. /\ UNCHANGED userRoles
        /\ req'[q].pc \in {"authenticated", "authorized", "done", "idle"}
    BY MiddlewareGoesTo DEF db
  <1> QED
    BY <1>1, OneSlot DEF AdminInv, AdminRemains, Admins, LeavesAdmin

\* The steps of a role handler that write answer, with a refusal or without.
LEMMA RoleWritesAnswer ==
  ASSUME TypeOK, NEW q \in Reqs,
         \/ \E r \in RoleIds, perms \in SUBSET Perms : CreateRole(q, r, perms)
         \/ UpdateRoleWrite(q) \/ DeleteRoleWrite(q)
  PROVE  /\ UNCHANGED <<registered, active, superuser, userRoles>>
         /\ req'[q].pc = "done"
  <1> DEFINE Done == /\ UNCHANGED <<registered, active, superuser, userRoles>>
                     /\ req'[q].pc = "done"
  <1>0. /\ req[q] \in Request
        /\ {"ok", "invalid", "escalation", "not_found", "key_taken", "role_in_use"}
               \subseteq Results
    BY DEF TypeOK, Results
  <1>1. ASSUME NEW result \in Results, Refuse(q, result) PROVE Done
    BY <1>1, AnswerDone DEF Refuse, db
  <1>2. ASSUME Answer(q, "ok"), UNCHANGED <<registered, active, superuser, userRoles>>
        PROVE  Done
    BY <1>2, AnswerDone DEF Results
  <1>3. ASSUME NEW r \in RoleIds, NEW perms \in SUBSET Perms, CreateRole(q, r, perms)
        PROVE  Done
    <2>1. [req[q] EXCEPT !.op = "create", !.role = r] \in Request
      BY <1>0 DEF Request, Ops
    <2>2. CASE req' = [req EXCEPT ![q] =
                Answered([req[q] EXCEPT !.op = "create", !.role = r], "ok")]
      BY <1>0, <1>3, <2>1, <2>2, AnsweredDone DEF CreateRole, TypeOK, Refuse, db
    <2> HIDE DEF Done
    <2> QED
      BY <1>0, <1>1, <1>3, <2>2 DEF CreateRole
  <1> HIDE DEF Done
  <1>4. ASSUME UpdateRoleWrite(q) PROVE Done
    BY <1>0, <1>1, <1>2, <1>4 DEF UpdateRoleWrite, Refuse
  <1>5. ASSUME DeleteRoleWrite(q) PROVE Done
    BY <1>0, <1>1, <1>2, <1>5 DEF DeleteRoleWrite
  <1> QED
    BY <1>3, <1>4, <1>5 DEF Done

LEMMA RoleHandlersGoTo ==
  ASSUME TypeOK, NEW q \in Reqs, RoleHandlers(q)
  PROVE  /\ UNCHANGED <<registered, active, superuser, userRoles>>
         /\ req'[q].pc \in {"updating", "deleting", "done"}
  <1> DEFINE Goes == /\ UNCHANGED <<registered, active, superuser, userRoles>>
                     /\ req'[q].pc \in {"updating", "deleting", "done"}
  <1>0. /\ req[q] \in Request
        /\ {"invalid", "escalation", "not_found", "system_role"} \subseteq Results
    BY DEF TypeOK, Results
  <1>1. ASSUME NEW result \in Results, Refuse(q, result) PROVE Goes
    BY <1>1, AnswerDone DEF Refuse, db
  <1>2. ASSUME UNCHANGED <<db, conferred>>, NEW y \in Request,
               y.pc \in {"updating", "deleting"}, req' = [req EXCEPT ![q] = y]
        PROVE  Goes
    BY <1>2 DEF TypeOK, db
  <1> HIDE DEF Goes
  <1>3. ASSUME NEW r \in RoleIds, NEW perms \in SUBSET Perms, UpdateRoleRead(q, r, perms)
        PROVE  Goes
    <2> DEFINE y == [req[q] EXCEPT !.pc = "updating", !.op = "update", !.role = r,
                                   !.perms = perms]
    <2>1. y \in Request /\ y.pc = "updating"
      BY <1>0 DEF Request, Pcs, Ops
    <2>2. CASE UNCHANGED <<db, conferred>> /\ req' = [req EXCEPT ![q] = y]
      BY <1>2, <2>1, <2>2
    <2>3. CASE \E result \in Results : Refuse(q, result)
      BY <1>1, <2>3
    <2> QED
      BY <1>0, <1>3, <2>2, <2>3 DEF UpdateRoleRead
  <1>4. ASSUME NEW r \in RoleIds, DeleteRoleRead(q, r) PROVE Goes
    <2> DEFINE y == [req[q] EXCEPT !.pc = "deleting", !.op = "delete", !.role = r]
    <2>1. y \in Request /\ y.pc = "deleting"
      BY <1>0 DEF Request, Pcs, Ops
    <2>2. CASE UNCHANGED <<db, conferred>> /\ req' = [req EXCEPT ![q] = y]
      BY <1>2, <2>1, <2>2
    <2>3. CASE \E result \in Results : Refuse(q, result)
      BY <1>1, <2>3
    <2> QED
      BY <1>0, <1>4, <2>2, <2>3 DEF DeleteRoleRead
  <1> QED
    BY <1>3, <1>4, RoleWritesAnswer DEF RoleHandlers, Goes

LEMMA RoleHandlersAdmin ==
  ASSUME Serial, TypeOK, AdminInv, NEW q \in Reqs, RoleHandlers(q)
  PROVE  AdminInv'
  <1>1. UNCHANGED userRoles /\ req'[q].pc \in {"updating", "deleting", "done"}
    BY RoleHandlersGoTo
  <1> QED
    BY <1>1, OneSlot DEF AdminInv, AdminRemains, Admins, LeavesAdmin

\* A request that is answered, or asks and writes nothing, leaves the admins alone.
LEMMA AskedAdmin ==
  ASSUME Serial, AdminInv, NEW q \in Reqs, UNCHANGED userRoles, LeavesAdmin(req[q])'
  PROVE  AdminInv'
  BY OneSlot DEF AdminInv, AdminRemains, Admins

LEMMA AnsweredAdmin ==
  ASSUME Serial, TypeOK, AdminInv, NEW q \in Reqs, NEW result \in Results,
         Answer(q, result), UNCHANGED userRoles
  PROVE  AdminInv'
  <1>1. req'[q].pc = "done"
    BY AnswerDone
  <1> QED
    BY <1>1, AskedAdmin DEF LeavesAdmin

LEMMA UserHandlersAdmin ==
  ASSUME IsFiniteSet(Users), Serial, TypeOK, AdminInv, NEW q \in Reqs, UserHandlers(q)
  PROVE  AdminInv'
  <1> USE DEF db
  <1>0. /\ req[q] \in Request
        /\ {"ok", "invalid", "forbidden", "escalation", "not_found", "last_admin",
            "conflict"} \subseteq Results
        /\ IsFiniteSet(Admins)
    BY FS_Subset DEF TypeOK, Results, Admins
  <1>1. ASSUME NEW result \in Results, Refuse(q, result) PROVE AdminInv'
    BY <1>1, AnsweredAdmin DEF Refuse
  <1>2. ASSUME NEW t \in Users, NEW ids \in SUBSET RoleIds, SetUserRolesResolve(q, t, ids)
        PROVE  AdminInv'
    <2>1. CASE /\ UNCHANGED <<db, conferred>>
               /\ req' = [req EXCEPT ![q] = [req[q] EXCEPT
                    !.pc = "loading", !.op = "roles", !.target = t, !.ids = ids]]
      <3>1. UNCHANGED userRoles /\ req'[q].pc = "loading"
        BY <1>0, <2>1 DEF TypeOK, Request
      <3> QED
        BY <3>1, AskedAdmin DEF LeavesAdmin
    <2>2. CASE \E result \in Results : Refuse(q, result)
      BY <1>1, <2>2
    <2> QED
      BY <1>0, <1>2, <2>1, <2>2 DEF SetUserRolesResolve
  <1>3. ASSUME SetUserRolesLoad(q) PROVE AdminInv'
    <2> DEFINE t == req[q].target
               next == IF AdminRole \in userRoles[t] /\ AdminRole \notin req[q].ids
                       THEN "counting" ELSE "clearing"
    <2>0. UNCHANGED userRoles /\ req[q].pc = "loading" /\ t \in Users
      BY <1>3 DEF SetUserRolesLoad, TypeOK, Shape
    <2>1. CASE Answer(q, "forbidden")
      BY <1>0, <2>0, <2>1, AnsweredAdmin
    <2>2. CASE req' = [req EXCEPT ![q] = [req[q] EXCEPT
                  !.pc = next, !.before = userRoles[t]]]
      <3>1. /\ req'[q].pc = next /\ req'[q].ids = req[q].ids
            /\ req'[q].target = t
        BY <1>0, <2>2 DEF TypeOK, Request
      <3>2. CASE AdminRole \in userRoles[t] /\ AdminRole \notin req[q].ids
        BY <2>0, <3>1, <3>2, AskedAdmin DEF LeavesAdmin
      <3>3. CASE AdminRole \notin userRoles[t] \/ AdminRole \in req[q].ids
        <4>1. AdminRole \notin req'[q].ids => OtherAdmin(t)
          BY <3>1, <3>3 DEF OtherAdmin, AdminInv, AdminRemains, Admins
        <4>2. LeavesAdmin(req[q])'
          BY <2>0, <3>1, <4>1 DEF LeavesAdmin, OtherAdmin
        <4> QED
          BY <2>0, <4>2, AskedAdmin
      <3> QED
        BY <3>2, <3>3
    <2> QED
      BY <1>3, <2>1, <2>2 DEF SetUserRolesLoad
  <1>4. ASSUME SetUserRolesCount(q) PROVE AdminInv'
    <2>0. UNCHANGED userRoles
      BY <1>4 DEF SetUserRolesCount
    <2>1. CASE Answer(q, "last_admin")
      BY <1>0, <2>0, <2>1, AnsweredAdmin
    <2>2. CASE Cardinality(Admins) > 1 /\ req' = [req EXCEPT ![q].pc = "clearing"]
      <3>1. OtherAdmin(req[q].target)
        BY <1>0, <2>2, SecondMember DEF OtherAdmin, Admins
      <3>2. req'[q].target = req[q].target
        BY <1>0, <2>2 DEF TypeOK, Request
      <3>3. LeavesAdmin(req[q])'
        BY <2>0, <3>1, <3>2 DEF LeavesAdmin, OtherAdmin
      <3> QED
        BY <2>0, <3>3, AskedAdmin
    <2> QED
      BY <1>4, <2>1, <2>2 DEF SetUserRolesCount

  <1>5. ASSUME SetUserRolesClear(q) PROVE AdminInv'
    <2>1. /\ UNCHANGED userRoles /\ req[q].pc = "clearing" /\ req'[q].ids = req[q].ids
          /\ req'[q].target = req[q].target
      BY <1>0, <1>5 DEF SetUserRolesClear, TypeOK, Request
    <2>2. LeavesAdmin(req[q])'
      BY <2>1 DEF LeavesAdmin, OtherAdmin, AdminInv
    <2> QED
      BY <2>1, <2>2, AskedAdmin
  <1>6. ASSUME SetUserRolesAssign(q) PROVE AdminInv'
    <2> DEFINE t == req[q].target
               ids == req[q].ids
    <2>1. CASE Refuse(q, "conflict")
      BY <1>0, <1>1, <2>1
    <2>2. CASE /\ userRoles' = [userRoles EXCEPT ![t] =
                                  (userRoles[t] \ req[q].rows) \cup ids]
               /\ req' = [p \in Reqs |->
                       IF p = q
                       THEN Answered(req[p], "ok")
                       ELSE IF req[p].pc = "assigning" /\ req[p].target = t
                       THEN [req[p] EXCEPT !.rows = @ \ req[q].rows]
                       ELSE req[p]]
      <3>1. req[q].pc = "assigning" /\ t \in Users
        BY <1>6 DEF SetUserRolesAssign, TypeOK, Shape
      <3>2. req'[q].pc = "done"
        BY <1>0, <2>2, AnsweredDone
      <3>3. AdminRemains'
        <4>1. CASE AdminRole \in ids
          <5>1. AdminRole \in userRoles'[t]
            BY <2>2, <3>1, <4>1 DEF TypeOK
          <5> QED
            BY <3>1, <5>1 DEF AdminRemains, Admins
        <4>2. CASE AdminRole \notin ids
          <5>1. PICK u \in Users : u # t /\ AdminRole \in userRoles[u]
            BY <3>1, <4>2 DEF AdminInv, LeavesAdmin, OtherAdmin
          <5>2. AdminRole \in userRoles'[u]
            BY <2>2, <5>1 DEF TypeOK
          <5> QED
            BY <5>2 DEF AdminRemains, Admins
        <4> QED
          BY <4>1, <4>2
      <3> QED
        BY <3>2, <3>3, OneSlot DEF AdminInv, LeavesAdmin
    <2> QED
      BY <1>6, <2>1, <2>2 DEF SetUserRolesAssign
  <1>7. ASSUME NEW t \in Users, NEW activate \in BOOLEAN, SetUserActiveLoad(q, t, activate)
        PROVE  AdminInv'
    <2> DEFINE next == IF ~activate /\ ~req[q].isSuper /\ AdminRole \in userRoles[t]
                       THEN "countingActive" ELSE "activating"
    <2>1. CASE Refuse(q, "invalid")
      BY <1>0, <1>1, <2>1
    <2>2. CASE /\ UNCHANGED <<db, conferred>>
               /\ req' = [req EXCEPT ![q] = [req[q] EXCEPT
                    !.pc = next, !.op = "active", !.target = t, !.activate = activate]]
      <3>1. UNCHANGED userRoles /\ req'[q].pc = next
        BY <1>0, <2>2 DEF TypeOK, Request
      <3> QED
        BY <3>1, AskedAdmin DEF LeavesAdmin
    <2> QED
      BY <1>7, <2>1, <2>2 DEF SetUserActiveLoad
  <1>8. ASSUME SetUserActiveCount(q) PROVE AdminInv'
    <2>0. UNCHANGED userRoles
      BY <1>8 DEF SetUserActiveCount
    <2>1. CASE Answer(q, "last_admin")
      BY <1>0, <2>0, <2>1, AnsweredAdmin
    <2>2. CASE req' = [req EXCEPT ![q].pc = "activating"]
      <3>1. req'[q].pc = "activating"
        BY <1>0, <2>2 DEF TypeOK, Request
      <3> QED
        BY <2>0, <3>1, AskedAdmin DEF LeavesAdmin
    <2> QED
      BY <1>8, <2>1, <2>2 DEF SetUserActiveCount
  <1>9. ASSUME SetUserActiveWrite(q) PROVE AdminInv'
    <2>1. CASE Refuse(q, "not_found")
      BY <1>0, <1>1, <2>1
    <2>2. CASE Answer(q, "ok") /\ UNCHANGED userRoles
      BY <1>0, <2>2, AnsweredAdmin
    <2> QED
      BY <1>9, <2>1, <2>2 DEF SetUserActiveWrite
  <1> QED
    BY <1>2, <1>3, <1>4, <1>5, <1>6, <1>7, <1>8, <1>9 DEF UserHandlers

\* Registration and the CLI take no role from anybody.
LEMMA OutsideAdmin ==
  ASSUME TypeOK, AdminInv, Cli \/ \E u \in Users : Register(u)
  PROVE  AdminInv'
  <1>1. UNCHANGED req /\ \A u \in Users : userRoles[u] \subseteq userRoles'[u]
    BY DEF Cli, SetSuperuser, GrantRoleByKey, Register, TypeOK
  <1> QED
    BY <1>1 DEF AdminInv, AdminRemains, Admins, LeavesAdmin, OtherAdmin

LEMMA NextAdmin ==
  IsFiniteSet(Users) /\ Serial /\ TypeOK /\ AdminInv /\ [Next]_vars => AdminInv'
  <1>1. ASSUME AdminInv, UNCHANGED vars PROVE AdminInv'
    BY <1>1 DEF vars, db, AdminInv, AdminRemains, Admins, LeavesAdmin, OtherAdmin
  <1> QED
    BY <1>1, MiddlewareAdmin, RoleHandlersAdmin, UserHandlersAdmin, OutsideAdmin DEF Next

\* An installation that has an admin keeps one for as long as requests are served one
\* at a time, though the operator's commands come in between the steps of a request.
THEOREM AnAdminRemains ==
  ASSUME IsFiniteSet(Users), Serial, Staffed
  PROVE  Spec => []AdminRemains
  <1>1. Init => AdminInv
    BY DEF Init, Staffed, AdminInv, AdminRemains, Admins, LeavesAdmin, Idle
  <1>2. AdminInv => AdminRemains
    BY DEF AdminInv
  <1> QED
    BY <1>1, <1>2, TypeCorrect, NextAdmin, PTL DEF Spec

-----------------------------------------------------------------------------
(* What a request in flight has found is still so when it writes.           *)

\* The caller's row and authority are those the middleware read.
Current(x) ==
    x.pc \notin {"idle", "done"} =>
        /\ x.actor \in Callers \cap registered /\ active[x.actor]
        /\ x.isSuper = superuser[x.actor]
        /\ x.pc # "authenticated" => x.access = AccessOf(x.actor, x.isSuper)

\* The custom role to be edited or deleted is there and grants what it did.
Editable(x) ==
    /\ x.pc \in {"updating", "deleting"} =>
         x.role \in Live \ SystemRoles /\ rolePerms[x.role] \subseteq x.access.perms
    /\ x.pc = "updating" =>
         /\ x.op = "update" /\ PermRolesUpdate \in x.access.perms
         /\ x.perms \subseteq Catalog \cap x.access.perms
    /\ x.pc = "deleting" => x.op = "delete" /\ PermRolesDelete \in x.access.perms

\* The roles to be assigned are there and grant what they did; the target's roles are
\* those that were loaded, that the caller outranks and that are to be deleted.
Outranked(x) == x.access.viaSuperuser \/ AdminRole \in x.access.roles

Assignable(x) ==
    /\ x.pc \in {"loading", "counting", "clearing", "assigning"} =>
         /\ x.op = "roles" /\ PermUsersUpdate \in x.access.perms
         /\ x.ids \subseteq Live /\ UnionPerms(x.ids) \subseteq x.access.perms
    /\ x.pc \in {"counting", "clearing", "assigning"} =>
         x.before = userRoles[x.target] /\ (AdminRole \in x.before => Outranked(x))
    /\ x.pc \in {"clearing", "assigning"} =>
         (AdminRole \in x.before \ x.ids => OtherAdmin(x.target))
    /\ x.pc = "assigning" => x.rows = userRoles[x.target]

\* The user to be deactivated is not the caller, nor the last active admin.
OtherActiveAdmin(t) == \E u \in Users : u # t /\ active[u] /\ AdminRole \in userRoles[u]

Deactivatable(x) ==
    /\ x.pc \in {"countingActive", "activating"} =>
         /\ x.op = "active" /\ PermUsersUpdate \in x.access.perms
         /\ x.activate \/ x.target # x.actor
    /\ x.pc = "activating" =>
         (~x.activate /\ ~x.isSuper /\ AdminRole \in userRoles[x.target]
            => OtherActiveAdmin(x.target))

Fits(x) == Current(x) /\ Editable(x) /\ Assignable(x) /\ Deactivatable(x)
SerialInv == \A q \in Reqs : Fits(req[q])

\* A request that has only asked, and fits what it was told.
LEMMA AskedFits ==
  ASSUME Serial, NEW q \in Reqs, NEW y, req'[q] = y, UNCHANGED db, Fits(y)
  PROVE  SerialInv'
  <1>1. UNCHANGED <<registered, active, superuser, roleState, rolePerms, userRoles>>
    BY DEF db
  <1>2. Fits(req[q])'
    BY <1>1 DEF Fits, Current, Editable, Assignable, Deactivatable, OtherAdmin,
       OtherActiveAdmin, Outranked, AccessOf, UnionPerms, Live
  <1> QED
    BY <1>2, OneSlot DEF SerialInv

\* A request that has been answered.
LEMMA AnsweredFits ==
  ASSUME Serial, NEW q \in Reqs, req'[q].pc \in {"idle", "done"}
  PROVE  SerialInv'
  <1>1. Fits(req[q])'
    BY DEF Fits, Current, Editable, Assignable, Deactivatable
  <1> QED
    BY <1>1, OneSlot DEF SerialInv

LEMMA MiddlewareFits ==
  ASSUME Serial, TypeOK, SerialInv, NEW q \in Reqs, Middleware(q)
  PROVE  SerialInv'
  <1>0. req[q] \in Request /\ UNCHANGED db
    BY MiddlewareGoesTo DEF TypeOK
  <1>1. ASSUME NEW u \in Callers, Authenticate(q, u) PROVE SerialInv'
    <2> DEFINE y == [Idle EXCEPT !.pc = "authenticated", !.actor = u,
                                 !.isSuper = superuser[u]]
    <2>1. /\ y.pc = "authenticated" /\ y.actor = u /\ y.isSuper = superuser[u]
          /\ u \in registered /\ active[u] /\ req'[q] = y
      BY <1>1 DEF Authenticate, Idle, TypeOK
    <2> HIDE DEF y
    <2>2. Fits(y)
      BY <2>1 DEF Fits, Current, Editable, Assignable, Deactivatable
    <2> QED
      BY <1>0, <2>1, <2>2, AskedFits
  <1>2. ASSUME Authorize(q) PROVE SerialInv'
    <2> DEFINE y == [req[q] EXCEPT !.pc = "authorized",
                           !.access = AccessOf(req[q].actor, req[q].isSuper)]
    <2>1. /\ y.pc = "authorized" /\ y.actor = req[q].actor
          /\ y.isSuper = req[q].isSuper /\ y.access = AccessOf(y.actor, y.isSuper)
          /\ req[q].pc = "authenticated" /\ req'[q] = y
      BY <1>0, <1>2 DEF Authorize, Request, TypeOK
    <2> HIDE DEF y
    <2>2. Current(y)
      BY <2>1 DEF SerialInv, Fits, Current
    <2>3. Fits(y)
      BY <2>1, <2>2 DEF Fits, Editable, Assignable, Deactivatable
    <2> QED
      BY <1>0, <2>1, <2>3, AskedFits
  <1>3. ASSUME NEW p, Forbid(q, p) PROVE SerialInv'
    <2>1. "forbidden" \in Results
      BY DEF Results
    <2> QED
      BY <1>3, <2>1, AnswerDone, AnsweredFits DEF Forbid, Refuse
  <1>4. ASSUME Finish(q) PROVE SerialInv'
    <2>1. req'[q].pc = "idle"
      BY <1>4 DEF Finish, Idle, TypeOK
    <2> QED
      BY <2>1, AnsweredFits
  <1> QED
    BY <1>1, <1>2, <1>3, <1>4 DEF Middleware

LEMMA RoleHandlersFits ==
  ASSUME Serial, TypeOK, SerialInv, NEW q \in Reqs, RoleHandlers(q)
  PROVE  SerialInv'
  <1>0. /\ req[q] \in Request
        /\ {"ok", "invalid", "escalation", "not_found", "system_role",
            "key_taken", "role_in_use"} \subseteq Results
        /\ Fits(req[q])
    BY DEF TypeOK, Results, SerialInv
  <1>1. CASE req'[q].pc = "done"
    BY <1>1, AnsweredFits
  <1>2. ASSUME NEW result \in Results, Refuse(q, result) PROVE req'[q].pc = "done"
    BY <1>2, AnswerDone DEF Refuse
  <1>3. ASSUME NEW r \in RoleIds, NEW perms \in SUBSET Perms, UpdateRoleRead(q, r, perms)
        PROVE  SerialInv'
    <2> DEFINE y == [req[q] EXCEPT !.pc = "updating", !.op = "update", !.role = r,
                                   !.perms = perms]
    <2>1. CASE /\ r \in Live \ SystemRoles /\ ValidPerms(perms)
               /\ MayGrant(q, perms) /\ MayGrant(q, rolePerms[r])
               /\ UNCHANGED <<db, conferred>> /\ req' = [req EXCEPT ![q] = y]
      <3>1. /\ y.pc = "updating" /\ y.op = "update" /\ y.role = r /\ y.perms = perms
            /\ y.actor = req[q].actor /\ y.isSuper = req[q].isSuper
            /\ y.access = req[q].access /\ req'[q] = y
        BY <1>0, <2>1 DEF Request, TypeOK
      <3>2. req[q].pc = "authorized" /\ PermRolesUpdate \in req[q].access.perms
        BY <1>3 DEF UpdateRoleRead, Authorized
      <3> HIDE DEF y
      <3>3. Current(y)
        BY <1>0, <3>1, <3>2 DEF Fits, Current
      <3>4. Editable(y)
        BY <2>1, <3>1, <3>2 DEF Editable, MayGrant, ValidPerms
      <3>5. Fits(y)
        BY <3>1, <3>3, <3>4 DEF Fits, Assignable, Deactivatable
      <3> QED
        BY <2>1, <3>1, <3>5, AskedFits
    <2>2. CASE \E result \in Results : Refuse(q, result)
      BY <1>1, <1>2, <2>2
    <2> QED
      BY <1>0, <1>3, <2>1, <2>2 DEF UpdateRoleRead
  <1>4. ASSUME NEW r \in RoleIds, DeleteRoleRead(q, r) PROVE SerialInv'
    <2> DEFINE y == [req[q] EXCEPT !.pc = "deleting", !.op = "delete", !.role = r]
    <2>1. CASE /\ r \in Live \ SystemRoles /\ MayGrant(q, rolePerms[r])
               /\ UNCHANGED <<db, conferred>> /\ req' = [req EXCEPT ![q] = y]
      <3>1. /\ y.pc = "deleting" /\ y.op = "delete" /\ y.role = r
            /\ y.actor = req[q].actor /\ y.isSuper = req[q].isSuper
            /\ y.access = req[q].access /\ req'[q] = y
        BY <1>0, <2>1 DEF Request, TypeOK
      <3>2. req[q].pc = "authorized" /\ PermRolesDelete \in req[q].access.perms
        BY <1>4 DEF DeleteRoleRead, Authorized
      <3> HIDE DEF y
      <3>3. Current(y)
        BY <1>0, <3>1, <3>2 DEF Fits, Current
      <3>4. Editable(y)
        BY <2>1, <3>1, <3>2 DEF Editable, MayGrant
      <3>5. Fits(y)
        BY <3>1, <3>3, <3>4 DEF Fits, Assignable, Deactivatable
      <3> QED
        BY <2>1, <3>1, <3>5, AskedFits
    <2>2. CASE \E result \in Results : Refuse(q, result)
      BY <1>1, <1>2, <2>2
    <2> QED
      BY <1>0, <1>4, <2>1, <2>2 DEF DeleteRoleRead
  <1>5. ASSUME \/ \E r \in RoleIds, perms \in SUBSET Perms : CreateRole(q, r, perms)
               \/ UpdateRoleWrite(q) \/ DeleteRoleWrite(q)
        PROVE  SerialInv'
    BY <1>1, <1>5, RoleWritesAnswer
  <1> QED
    BY <1>3, <1>4, <1>5 DEF RoleHandlers

LEMMA UserHandlersFits ==
  ASSUME IsFiniteSet(Users), Serial, TypeOK, SerialInv,
         NEW q \in Reqs, UserHandlers(q)
  PROVE  SerialInv'
  <1>0. /\ req[q] \in Request
        /\ {"ok", "invalid", "forbidden", "escalation", "not_found", "last_admin",
            "conflict"} \subseteq Results
        /\ Fits(req[q])
        /\ IsFiniteSet(Admins) /\ IsFiniteSet(ActiveAdmins)
    BY FS_Subset DEF TypeOK, Results, SerialInv, Admins, ActiveAdmins
  <1>1. ASSUME NEW result \in Results, Answer(q, result) PROVE SerialInv'
    BY <1>1, AnswerDone, AnsweredFits
  <1>2. ASSUME NEW t \in Users, NEW ids \in SUBSET RoleIds, SetUserRolesResolve(q, t, ids)
        PROVE  SerialInv'
    <2> DEFINE y == [req[q] EXCEPT !.pc = "loading", !.op = "roles", !.target = t,
                                   !.ids = ids]
    <2>1. CASE /\ ids \subseteq Live /\ MayGrant(q, UnionPerms(ids))
               /\ UNCHANGED <<db, conferred>> /\ req' = [req EXCEPT ![q] = y]
      <3>1. /\ y.pc = "loading" /\ y.op = "roles" /\ y.target = t /\ y.ids = ids
            /\ y.actor = req[q].actor /\ y.isSuper = req[q].isSuper
            /\ y.access = req[q].access /\ req'[q] = y
        BY <1>0, <2>1 DEF Request, TypeOK
      <3>2. req[q].pc = "authorized" /\ PermUsersUpdate \in req[q].access.perms
        BY <1>2 DEF SetUserRolesResolve, Authorized
      <3> HIDE DEF y
      <3>3. Current(y)
        BY <1>0, <3>1, <3>2 DEF Fits, Current
      <3>4. Assignable(y)
        BY <2>1, <3>1, <3>2 DEF Assignable, MayGrant
      <3>5. Fits(y)
        BY <3>1, <3>3, <3>4 DEF Fits, Editable, Deactivatable
      <3> QED
        BY <2>1, <3>1, <3>5, AskedFits
    <2>2. CASE \E result \in Results : Answer(q, result)
      BY <1>1, <2>2
    <2> QED
      BY <1>0, <1>2, <2>1, <2>2 DEF SetUserRolesResolve, Refuse
  <1>3. ASSUME SetUserRolesLoad(q) PROVE SerialInv'
    <2> DEFINE t == req[q].target
               ids == req[q].ids
               isAdmin == AdminRole \in userRoles[t]
               next == IF isAdmin /\ AdminRole \notin ids THEN "counting" ELSE "clearing"
               y == [req[q] EXCEPT !.pc = next, !.before = userRoles[t]]
    <2>0. UNCHANGED db /\ req[q].pc = "loading"
      BY <1>3 DEF SetUserRolesLoad
    <2>1. CASE ~(isAdmin /\ ~Outranked(req[q])) /\ req' = [req EXCEPT ![q] = y]
      <3>1. /\ y.pc = next /\ y.op = req[q].op /\ y.target = t /\ y.ids = ids
            /\ y.actor = req[q].actor /\ y.isSuper = req[q].isSuper
            /\ y.access = req[q].access /\ y.before = userRoles[t] /\ req'[q] = y
        BY <1>0, <2>1 DEF Request, TypeOK
      <3> HIDE DEF y
      <3>2. Current(y)
        BY <1>0, <2>0, <3>1 DEF Fits, Current
      <3>3. Assignable(y)
        BY <1>0, <2>0, <2>1, <3>1 DEF Fits, Assignable, Outranked
      <3>4. Fits(y)
        BY <3>1, <3>2, <3>3 DEF Fits, Editable, Deactivatable
      <3> QED
        BY <2>0, <3>1, <3>4, AskedFits
    <2>2. CASE Answer(q, "forbidden")
      BY <1>0, <1>1, <2>2
    <2> QED
      BY <1>3, <2>1, <2>2 DEF SetUserRolesLoad, Outranked
  <1>4. ASSUME SetUserRolesCount(q) PROVE SerialInv'
    <2> DEFINE y == [req[q] EXCEPT !.pc = "clearing"]
    <2>0. UNCHANGED db /\ req[q].pc = "counting"
      BY <1>4 DEF SetUserRolesCount
    <2>1. CASE Cardinality(Admins) > 1 /\ req' = [req EXCEPT ![q] = y]
      <3>1. /\ y.pc = "clearing" /\ y.op = req[q].op /\ y.target = req[q].target
            /\ y.ids = req[q].ids /\ y.actor = req[q].actor
            /\ y.isSuper = req[q].isSuper /\ y.access = req[q].access
            /\ y.before = req[q].before /\ req'[q] = y
        BY <1>0, <2>1 DEF Request, TypeOK
      <3>2. OtherAdmin(req[q].target)
        BY <1>0, <2>1, SecondMember DEF OtherAdmin, Admins
      <3> HIDE DEF y
      <3>3. Current(y)
        BY <1>0, <2>0, <3>1 DEF Fits, Current
      <3>4. Assignable(y)
        BY <1>0, <2>0, <3>1, <3>2 DEF Fits, Assignable, Outranked
      <3>5. Fits(y)
        BY <3>1, <3>3, <3>4 DEF Fits, Editable, Deactivatable
      <3> QED
        BY <2>0, <3>1, <3>5, AskedFits
    <2>2. CASE Answer(q, "last_admin")
      BY <1>0, <1>1, <2>2
    <2> QED
      BY <1>4, <2>1, <2>2 DEF SetUserRolesCount
  <1>5. ASSUME SetUserRolesClear(q) PROVE SerialInv'
    <2> DEFINE y == [req[q] EXCEPT !.pc = "assigning",
                                   !.rows = userRoles[req[q].target]]
    <2>1. /\ UNCHANGED db /\ req[q].pc = "clearing" /\ req'[q] = y
          /\ y.pc = "assigning" /\ y.op = req[q].op /\ y.target = req[q].target
          /\ y.ids = req[q].ids /\ y.actor = req[q].actor
          /\ y.isSuper = req[q].isSuper /\ y.access = req[q].access
          /\ y.before = req[q].before /\ y.rows = userRoles[req[q].target]
      BY <1>0, <1>5 DEF SetUserRolesClear, Request, TypeOK
    <2> HIDE DEF y
    <2>2. Current(y)
      BY <1>0, <2>1 DEF Fits, Current
    <2>3. Assignable(y)
      BY <1>0, <2>1 DEF Fits, Assignable, Outranked
    <2>4. Fits(y)
      BY <2>1, <2>2, <2>3 DEF Fits, Editable, Deactivatable
    <2> QED
      BY <2>1, <2>4, AskedFits
  <1>6. ASSUME SetUserRolesAssign(q) PROVE SerialInv'
    <2>1. CASE Refuse(q, "conflict")
      BY <1>0, <1>1, <2>1 DEF Refuse
    <2>2. CASE req'[q] = Answered(req[q], "ok")
      <3>1. "ok" \in Results
        BY DEF Results
      <3>2. req[q] \in Request
        BY <1>0
      <3>3. Answered(req[q], "ok").pc = "done"
        BY <3>1, <3>2, AnsweredDone
      <3>4. req'[q].pc = "done"
        BY <2>2, <3>3
      <3> QED
        BY <3>4, AnsweredFits
    <2> QED
      BY <1>6, <2>1, <2>2 DEF SetUserRolesAssign
  <1>7. ASSUME NEW t \in Users, NEW activate \in BOOLEAN, SetUserActiveLoad(q, t, activate)
        PROVE  SerialInv'
    <2> DEFINE next == IF ~activate /\ ~req[q].isSuper /\ AdminRole \in userRoles[t]
                       THEN "countingActive" ELSE "activating"
               y == [req[q] EXCEPT !.pc = next, !.op = "active", !.target = t,
                                   !.activate = activate]
    <2>1. CASE Refuse(q, "invalid")
      BY <1>0, <1>1, <2>1 DEF Refuse
    <2>2. CASE /\ activate \/ t # req[q].actor
               /\ UNCHANGED <<db, conferred>> /\ req' = [req EXCEPT ![q] = y]
      <3>1. /\ y.pc = next /\ y.op = "active" /\ y.target = t /\ y.activate = activate
            /\ y.actor = req[q].actor /\ y.isSuper = req[q].isSuper
            /\ y.access = req[q].access /\ req'[q] = y
        BY <1>0, <2>2 DEF Request, TypeOK
      <3>2. req[q].pc = "authorized" /\ PermUsersUpdate \in req[q].access.perms
        BY <1>7 DEF SetUserActiveLoad, Authorized
      <3> HIDE DEF y
      <3>3. Current(y)
        BY <1>0, <3>1, <3>2 DEF Fits, Current
      <3>4. Deactivatable(y)
        BY <2>2, <3>1, <3>2 DEF Deactivatable
      <3>5. Fits(y)
        BY <3>1, <3>3, <3>4 DEF Fits, Editable, Assignable
      <3> QED
        BY <2>2, <3>1, <3>5, AskedFits
    <2> QED
      BY <1>7, <2>1, <2>2 DEF SetUserActiveLoad
  <1>8. ASSUME SetUserActiveCount(q) PROVE SerialInv'
    <2> DEFINE y == [req[q] EXCEPT !.pc = "activating"]
    <2>0. UNCHANGED db /\ req[q].pc = "countingActive"
      BY <1>8 DEF SetUserActiveCount
    <2>1. CASE Answer(q, "last_admin")
      BY <1>0, <1>1, <2>1
    <2>2. CASE Cardinality(ActiveAdmins) > 1 /\ req' = [req EXCEPT ![q] = y]
      <3>1. /\ y.pc = "activating" /\ y.op = req[q].op /\ y.target = req[q].target
            /\ y.activate = req[q].activate /\ y.actor = req[q].actor
            /\ y.isSuper = req[q].isSuper /\ y.access = req[q].access /\ req'[q] = y
        BY <1>0, <2>2 DEF Request, TypeOK
      <3>2. OtherActiveAdmin(req[q].target)
        BY <1>0, <2>2, SecondMember DEF OtherActiveAdmin, ActiveAdmins, Admins
      <3> HIDE DEF y
      <3>3. Current(y)
        BY <1>0, <2>0, <3>1 DEF Fits, Current
      <3>4. Deactivatable(y)
        BY <1>0, <2>0, <3>1, <3>2 DEF Fits, Deactivatable
      <3>5. Fits(y)
        BY <3>1, <3>3, <3>4 DEF Fits, Editable, Assignable
      <3> QED
        BY <2>0, <3>1, <3>5, AskedFits
    <2> QED
      BY <1>8, <2>1, <2>2 DEF SetUserActiveCount
  <1>9. ASSUME SetUserActiveWrite(q) PROVE SerialInv'
    <2>1. Answer(q, "not_found") \/ Answer(q, "ok")
      BY <1>9 DEF SetUserActiveWrite, Refuse
    <2> QED
      BY <1>0, <1>1, <2>1
  <1> QED
    BY <1>2, <1>3, <1>4, <1>5, <1>6, <1>7, <1>8, <1>9 DEF UserHandlers

\* An account that registers is nobody's caller and takes no role from anybody.
LEMMA RegisterFits ==
  ASSUME TypeOK, SerialInv, NEW u \in Users, Register(u)
  PROVE  SerialInv'
  <1>1. /\ registered \subseteq registered' /\ u \notin registered
        /\ UNCHANGED <<superuser, roleState, rolePerms, userRoles, req>>
        /\ \A v \in Users : active'[v] = IF v = u THEN TRUE ELSE active[v]
    BY DEF Register, TypeOK
  <1> SUFFICES ASSUME NEW q \in Reqs PROVE Fits(req[q])'
    BY DEF SerialInv
  <1>2. Fits(req[q])
    BY DEF SerialInv
  <1>3. Current(req[q])'
    <2> DEFINE x == req[q]
    <2>1. CASE x.pc \in {"idle", "done"}
      BY <1>1, <2>1 DEF Current
    <2>2. CASE x.pc \notin {"idle", "done"}
      <3>1. x.actor \in Callers \cap registered /\ active[x.actor]
            /\ x.isSuper = superuser[x.actor] /\ x.actor \in Users
        BY <1>2, <2>2, RbacAssumption DEF Fits, Current
      <3>2. x.actor \in registered' /\ active'[x.actor]
        BY <1>1, <3>1
      <3>3. AccessOf(x.actor, x.isSuper)' = AccessOf(x.actor, x.isSuper)
        BY <1>1 DEF AccessOf, UnionPerms
      <3> QED
        BY <1>1, <1>2, <2>2, <3>1, <3>2, <3>3 DEF Fits, Current
    <2> QED
      BY <2>1, <2>2
  <1>4. Editable(req[q])' /\ Assignable(req[q])'
    BY <1>1, <1>2 DEF Fits, Editable, Assignable, Outranked, OtherAdmin, UnionPerms, Live
  <1>5. Deactivatable(req[q])'
    BY <1>1, <1>2 DEF Fits, Deactivatable, OtherActiveAdmin
  <1> QED
    BY <1>3, <1>4, <1>5 DEF Fits

LEMMA NextFits ==
  IsFiniteSet(Users) /\ Serial /\ CliUsers = {} /\ TypeOK /\ SerialInv /\ [Next]_vars
    => SerialInv'
  <1>1. ASSUME SerialInv, UNCHANGED vars PROVE SerialInv'
    <2> SUFFICES ASSUME NEW q \in Reqs PROVE Fits(req[q])'
      BY DEF SerialInv
    <2>1. /\ UNCHANGED <<registered, active, superuser, roleState, rolePerms, userRoles>>
          /\ req' = req /\ Fits(req[q])
      BY <1>1 DEF vars, db, SerialInv
    <2>2. Current(req[q])' /\ Editable(req[q])'
      BY <2>1 DEF Fits, Current, Editable, AccessOf, UnionPerms, Live
    <2>3. Assignable(req[q])' /\ Deactivatable(req[q])'
      BY <2>1 DEF Fits, Assignable, Deactivatable, OtherAdmin, OtherActiveAdmin,
         Outranked, UnionPerms, Live
    <2> QED
      BY <2>2, <2>3 DEF Fits
  <1>2. ASSUME CliUsers = {}, Cli PROVE FALSE
    BY <1>2 DEF Cli
  <1> QED
    BY <1>1, <1>2, MiddlewareFits, RoleHandlersFits, UserHandlersFits, RegisterFits DEF Next

\* Served one at a time, a request finds what it was told until it is answered.
LEMMA SerialInvariant ==
  ASSUME IsFiniteSet(Users), Serial, CliUsers = {}
  PROVE  Spec => [](TypeOK /\ SerialInv)
  <1>1. Init => SerialInv
    BY DEF Init, SerialInv, Fits, Current, Editable, Assignable, Deactivatable, Idle
  <1> QED
    BY <1>1, TypeCorrect, NextFits, PTL DEF Spec

-----------------------------------------------------------------------------
(* Who takes the admin role away, and what the audit log says of it. *)

LEMMA AssignFacts ==
  ASSUME TypeOK, SerialInv, NEW q \in Reqs, SetUserRolesAssign(q)
  PROVE  \/ Refuse(q, "conflict")
         \/ /\ req[q].pc = "assigning" /\ req[q].target \in Users
            /\ userRoles' = [userRoles EXCEPT ![req[q].target] = req[q].ids]
            /\ req'[q].before = req[q].before /\ req'[q].ids = req[q].ids
            /\ Commits(q, "roles")
            /\ UNCHANGED <<registered, active, superuser, roleState, rolePerms>>
  <1> DEFINE t == req[q].target
             ids == req[q].ids
             kept == userRoles[t] \ req[q].rows
  <1> SUFFICES ASSUME ~Refuse(q, "conflict")
               PROVE  /\ req[q].pc = "assigning" /\ t \in Users
                      /\ userRoles' = [userRoles EXCEPT ![t] = ids]
                      /\ req'[q].before = req[q].before /\ req'[q].ids = ids
                      /\ Commits(q, "roles")
                      /\ UNCHANGED <<registered, active, superuser, roleState, rolePerms>>
    OBVIOUS
  <1>1. /\ userRoles' = [userRoles EXCEPT ![t] = kept \cup ids]
        /\ req'[q] = Answered(req[q], "ok") /\ req[q].pc = "assigning"
        /\ UNCHANGED <<registered, active, superuser, roleState, rolePerms>>
    BY DEF SetUserRolesAssign
  <1>2. req[q] \in Request /\ t \in Users
    BY <1>1 DEF TypeOK, Shape
  <1>3. kept = {} /\ req[q].op = "roles"
    BY <1>1 DEF SerialInv, Fits, Assignable
  <1>4. userRoles' = [userRoles EXCEPT ![t] = ids]
    <2>1. kept \cup ids = ids
      BY <1>3
    <2> HIDE DEF kept
    <2> QED
      BY <1>1, <2>1, Zenon
  <1>5. "ok" \in Results
    BY DEF Results
  <1>6. /\ req'[q].pc = "done" /\ req'[q].result = "ok" /\ req'[q].op = req[q].op
        /\ req'[q].before = req[q].before /\ req'[q].ids = ids
    <2>1. req'[q] = [req[q] EXCEPT !.pc = "done", !.result = "ok", !.isSuper = FALSE,
                                   !.access = NoAccess, !.rows = {}]
      BY <1>1, <1>2, <1>5, AnsweredDone
    <2> QED
      BY <1>2, <2>1 DEF Request
  <1>7. Commits(q, "roles")
    BY <1>1, <1>3, <1>6 DEF Commits
  <1> QED
    BY <1>1, <1>2, <1>4, <1>6, <1>7

\* Nothing but an assignment changes who has which roles.
LEMMA AssignersOnly ==
  ASSUME CliUsers = {}, Next, userRoles' # userRoles
  PROVE  \E q \in Reqs : SetUserRolesAssign(q) /\ ~Refuse(q, "conflict")
  <1>1. ASSUME NEW q \in Reqs, Refuse(q, "conflict") PROVE FALSE
    BY <1>1 DEF Refuse, db
  <1>2. ASSUME NEW q \in Reqs, NEW r \in RoleIds, NEW perms \in SUBSET Perms,
               CreateRole(q, r, perms)
        PROVE  FALSE
    BY <1>2 DEF CreateRole, Refuse, db
  <1>3. ASSUME NEW q \in Reqs, UpdateRoleWrite(q) \/ DeleteRoleWrite(q) PROVE FALSE
    BY <1>3 DEF UpdateRoleWrite, DeleteRoleWrite, Refuse, db
  <1> QED
    BY <1>1, <1>2, <1>3, RoleWriters DEF roleTables

LEMMA NextDemotion ==
  ASSUME CliUsers = {}, TypeOK, SerialInv, Next,
         NEW u \in Users, AdminRole \in userRoles[u] \ userRoles'[u]
  PROVE  \E q \in Reqs : /\ Commits(q, "roles") /\ req[q].target = u
                         /\ \/ req[q].access.viaSuperuser
                            \/ AdminRole \in req[q].access.roles
  <1>1. PICK q \in Reqs : SetUserRolesAssign(q) /\ ~Refuse(q, "conflict")
    BY AssignersOnly
  <1>2. /\ req[q].pc = "assigning" /\ Commits(q, "roles")
        /\ userRoles' = [userRoles EXCEPT ![req[q].target] = req[q].ids]
    BY <1>1, AssignFacts
  <1>3. req[q].target = u
    BY <1>2 DEF TypeOK
  <1>4. req[q].before = userRoles[u] /\ (AdminRole \in req[q].before => Outranked(req[q]))
    BY <1>2, <1>3 DEF SerialInv, Fits, Assignable
  <1> QED
    BY <1>2, <1>3, <1>4 DEF Outranked

\* Demoting an admin takes an admin or a superuser, when requests are served one at
\* a time and the operator is at rest.
THEOREM OnlyAdminsDemote ==
  ASSUME IsFiniteSet(Users), Serial, CliUsers = {}
  PROVE  Spec => DemotionByAdmin
  <1> DEFINE Demoted == \A u \in Users : AdminRole \in userRoles[u] \ userRoles'[u] =>
         \E q \in Reqs : /\ Commits(q, "roles") /\ req[q].target = u
                         /\ \/ req[q].access.viaSuperuser
                            \/ AdminRole \in req[q].access.roles
  <1>1. TypeOK /\ SerialInv /\ [Next]_vars => [Demoted]_vars
    BY NextDemotion
  <1> HIDE DEF Demoted
  <1>2. Spec => [][Demoted]_vars
    BY <1>1, SerialInvariant, PTL DEF Spec
  <1> QED
    BY <1>2 DEF DemotionByAdmin, Demoted

\* What Commits tells of an answer.
LEMMA AnswerCommits ==
  ASSUME TypeOK, NEW q \in Reqs, NEW result \in Results, Answer(q, result),
         Commits(q, "roles")
  PROVE  result = "ok" /\ req[q].op = "roles"
  <1>1. req[q] \in Request /\ req'[q] = Answered(req[q], result)
    BY DEF Answer, TypeOK
  <1>2. result = "ok"
    BY <1>1 DEF Commits, Answered, Idle
  <1>3. req'[q] = [req[q] EXCEPT !.pc = "done", !.result = "ok", !.isSuper = FALSE,
                                 !.access = NoAccess, !.rows = {}]
    BY <1>1, <1>2, AnsweredDone
  <1>4. req'[q].op = req[q].op
    BY <1>1, <1>3 DEF Request
  <1> QED
    BY <1>2, <1>4 DEF Commits

\* The audit row of an assignment is written by SetUserRolesAssign and nothing else.
LEMMA AssignCommits ==
  ASSUME Serial, TypeOK, SerialInv, [Next]_vars, NEW q \in Reqs, Commits(q, "roles")
  PROVE  SetUserRolesAssign(q) /\ ~Refuse(q, "conflict")
  <1>0. /\ req[q] \in Request /\ Fits(req[q])
        /\ {"ok", "invalid", "forbidden", "escalation", "not_found", "system_role",
            "key_taken", "role_in_use", "last_admin", "conflict"} \subseteq Results
    BY DEF TypeOK, Results, SerialInv
  <1>1. ASSUME NEW result \in Results, Answer(q, result)
        PROVE  result = "ok" /\ req[q].op = "roles"
    BY <1>1, AnswerCommits
  <1>2. ASSUME NEW result \in Results, Refuse(q, result) PROVE result = "ok"
    BY <1>1, <1>2 DEF Refuse
  <1>3. ASSUME req' = req PROVE FALSE
    BY <1>3 DEF Commits
  <1>4. ASSUME Middleware(q) PROVE FALSE
    <2>1. req'[q].pc = "done"
      BY DEF Commits
    <2>2. ASSUME NEW u, Authenticate(q, u) PROVE FALSE
      BY <2>1, <2>2 DEF Authenticate, Idle, TypeOK
    <2>3. ASSUME Authorize(q) PROVE FALSE
      BY <1>0, <2>1, <2>3 DEF Authorize, TypeOK, Request
    <2>4. ASSUME NEW p, Forbid(q, p) PROVE FALSE
      BY <1>0, <1>2, <2>4 DEF Forbid
    <2>5. ASSUME Finish(q) PROVE FALSE
      BY <2>1, <2>5 DEF Finish, Idle, TypeOK
    <2> QED
      BY <1>4, <2>2, <2>3, <2>4, <2>5 DEF Middleware
  <1>5. ASSUME NEW y \in Request, y.pc # "done" \/ y.op # "roles",
               req' = [req EXCEPT ![q] = y]
        PROVE  FALSE
    BY <1>5 DEF Commits, TypeOK
  <1>6. ASSUME NEW r \in RoleIds, NEW perms \in SUBSET Perms, CreateRole(q, r, perms)
        PROVE  FALSE
    <2> DEFINE x == [req[q] EXCEPT !.op = "create", !.role = r]
    <2>1. x \in Request /\ x.op = "create"
      BY <1>0 DEF Request, Ops
    <2>2. Answered(x, "ok") = [x EXCEPT !.pc = "done", !.result = "ok", !.isSuper = FALSE,
                                        !.access = NoAccess, !.rows = {}]
      BY <1>0, <2>1, AnsweredDone
    <2> HIDE DEF x
    <2>3. Answered(x, "ok") \in Request
      BY <1>0, <2>1, AnsweredType
    <2>4. Answered(x, "ok").op = "create"
      BY <2>1, <2>2 DEF Request
    <2>5. req' # [req EXCEPT ![q] = Answered(x, "ok")]
      BY <1>5, <2>3, <2>4
    <2> QED
      BY <1>0, <1>2, <1>6, <2>5 DEF CreateRole, x
  <1>7. ASSUME NEW r \in RoleIds, NEW perms \in SUBSET Perms, UpdateRoleRead(q, r, perms)
        PROVE  FALSE
    <2> DEFINE y == [req[q] EXCEPT !.pc = "updating", !.op = "update", !.role = r,
                                   !.perms = perms]
    <2>1. y \in Request /\ y.op = "update"
      BY <1>0 DEF Request, Pcs, Ops
    <2>2. req' # [req EXCEPT ![q] = y]
      BY <1>5, <2>1
    <2> QED
      BY <1>0, <1>2, <1>7, <2>2 DEF UpdateRoleRead
  <1>8. ASSUME NEW r \in RoleIds, DeleteRoleRead(q, r) PROVE FALSE
    <2> DEFINE y == [req[q] EXCEPT !.pc = "deleting", !.op = "delete", !.role = r]
    <2>1. y \in Request /\ y.op = "delete"
      BY <1>0 DEF Request, Pcs, Ops
    <2>2. req' # [req EXCEPT ![q] = y]
      BY <1>5, <2>1
    <2> QED
      BY <1>0, <1>2, <1>8, <2>2 DEF DeleteRoleRead
  <1>9. ASSUME UpdateRoleWrite(q) \/ DeleteRoleWrite(q) \/ SetUserActiveWrite(q)
        PROVE  FALSE
    <2>1. req[q].op # "roles"
      BY <1>0, <1>9 DEF UpdateRoleWrite, DeleteRoleWrite, SetUserActiveWrite, Fits,
         Editable, Deactivatable
    <2>2. \E result \in Results : Answer(q, result)
      BY <1>0, <1>9 DEF UpdateRoleWrite, DeleteRoleWrite, SetUserActiveWrite, Refuse
    <2> QED
      BY <1>1, <2>1, <2>2
  <1>10. ASSUME UserHandlers(q) PROVE SetUserRolesAssign(q) /\ ~Refuse(q, "conflict")
    <2>0. ~Refuse(q, "conflict")
      BY <1>0, <1>2
    <2>1. ASSUME NEW t \in Users, NEW ids \in SUBSET RoleIds, SetUserRolesResolve(q, t, ids)
          PROVE  FALSE
      <3> DEFINE y == [req[q] EXCEPT !.pc = "loading", !.op = "roles", !.target = t,
                                     !.ids = ids]
      <3>1. y \in Request /\ y.pc = "loading"
        BY <1>0 DEF Request, Pcs, Ops
      <3>2. req' # [req EXCEPT ![q] = y]
        BY <1>5, <3>1
      <3> QED
        BY <1>0, <1>2, <2>1, <3>2 DEF SetUserRolesResolve
    <2>2. ASSUME SetUserRolesLoad(q) PROVE FALSE
      <3> DEFINE t == req[q].target
                 next == IF AdminRole \in userRoles[t] /\ AdminRole \notin req[q].ids
                         THEN "counting" ELSE "clearing"
                 y == [req[q] EXCEPT !.pc = next, !.before = userRoles[t]]
      <3>1. t \in Users /\ userRoles[t] \subseteq RoleIds
        BY <2>2 DEF SetUserRolesLoad, TypeOK, Shape
      <3>2. next \in Pcs /\ next # "done"
        BY DEF Pcs
      <3> HIDE DEF next
      <3>3. y \in Request /\ y.pc # "done"
        BY <1>0, <3>1, <3>2 DEF Request
      <3>4. req' # [req EXCEPT ![q] = y]
        BY <1>5, <3>3
      <3> QED
        BY <1>0, <1>1, <2>2, <3>4 DEF SetUserRolesLoad, next
    <2>3. ASSUME SetUserRolesCount(q) \/ SetUserActiveCount(q) PROVE FALSE
      <3>1. ASSUME NEW pc \in {"clearing", "activating"}
            PROVE  req' # [req EXCEPT ![q].pc = pc]
        BY <1>0, <3>1 DEF Commits, Request, TypeOK
      <3> QED
        BY <1>0, <1>1, <2>3, <3>1 DEF SetUserRolesCount, SetUserActiveCount
    <2>4. ASSUME SetUserRolesClear(q) PROVE FALSE
      BY <1>0, <2>4 DEF SetUserRolesClear, Commits, Request, TypeOK
    <2>5. ASSUME NEW t \in Users, NEW flag \in BOOLEAN, SetUserActiveLoad(q, t, flag)
          PROVE  FALSE
      <3> DEFINE next == IF ~flag /\ ~req[q].isSuper /\ AdminRole \in userRoles[t]
                         THEN "countingActive" ELSE "activating"
                 y == [req[q] EXCEPT !.pc = next, !.op = "active", !.target = t,
                                     !.activate = flag]
      <3>1. next \in Pcs /\ "active" \in Ops
        BY DEF Pcs, Ops
      <3> HIDE DEF next
      <3>2. y \in Request /\ y.op = "active"
        BY <1>0, <3>1 DEF Request
      <3>3. req' # [req EXCEPT ![q] = y]
        BY <1>5, <3>2
      <3> QED
        BY <1>0, <1>2, <2>5, <3>3 DEF SetUserActiveLoad, next
    <2> QED
      BY <1>9, <1>10, <2>0, <2>1, <2>2, <2>3, <2>4, <2>5 DEF UserHandlers
  <1>11. ~UNCHANGED vars /\ \A u \in Users : ~Register(u)
    BY <1>3 DEF vars, Register
  <1>12. ~Cli
    BY <1>3 DEF Cli, SetSuperuser, GrantRoleByKey
  <1> QED
    BY <1>4, <1>6, <1>7, <1>8, <1>9, <1>10, <1>11, <1>12, OneSlot DEF Next, RoleHandlers

\* The audit row of an assignment tells what happened, when requests are served one at
\* a time and the operator is at rest: "from" was loaded before the roles were counted
\* and deleted, and is what they replaced.
THEOREM AuditTellsTheChange ==
  ASSUME IsFiniteSet(Users), Serial, CliUsers = {}
  PROVE  Spec => AuditTellsChange
  <1> DEFINE Told == \A q \in Reqs : Commits(q, "roles") =>
                       LET t == req[q].target IN
                       userRoles[t] = req'[q].before /\ userRoles'[t] = req'[q].ids
  <1>1. ASSUME TypeOK, SerialInv, [Next]_vars, NEW q \in Reqs, Commits(q, "roles")
        PROVE  LET t == req[q].target IN
               userRoles[t] = req'[q].before /\ userRoles'[t] = req'[q].ids
    <2>1. /\ req[q].pc = "assigning" /\ req[q].target \in Users
          /\ userRoles' = [userRoles EXCEPT ![req[q].target] = req[q].ids]
          /\ req'[q].before = req[q].before /\ req'[q].ids = req[q].ids
      BY <1>1, AssignCommits, AssignFacts
    <2>2. req[q].before = userRoles[req[q].target]
      BY <1>1, <2>1 DEF SerialInv, Fits, Assignable
    <2> QED
      BY <1>1, <2>1, <2>2 DEF TypeOK
  <1>2. TypeOK /\ SerialInv /\ [Next]_vars => [Told]_vars
    BY <1>1
  <1> HIDE DEF Told
  <1>3. Spec => [][Told]_vars
    BY <1>2, SerialInvariant, PTL DEF Spec
  <1> QED
    BY <1>3 DEF AuditTellsChange, Told

-----------------------------------------------------------------------------
(* The refinement of AtomicRbac. *)

\* What a request was given when it was authorized is what its caller has.
LEMMA CallerHolds ==
  ASSUME TypeOK, NEW q \in Reqs, Fits(req[q]),
         req[q].pc \notin {"idle", "authenticated", "done"}
  PROVE  LET a == req[q].actor IN
         /\ a \in Callers /\ req[q].isSuper = superuser[a]
         /\ \A p \in req[q].access.perms : Atomic!May(a, p)
         /\ req[q].access.perms = Atomic!Held(a)
         /\ Outranked(req[q]) <=> Atomic!Outranks(a)
  <1> DEFINE a == req[q].actor
  <1>1. /\ a \in Callers \cap registered /\ active[a] /\ req[q].isSuper = superuser[a]
        /\ req[q].access = AccessOf(a, superuser[a]) /\ superuser[a] \in BOOLEAN
    BY RbacAssumption DEF Fits, Current, TypeOK
  <1>2. req[q].access.perms = Atomic!Held(a)
    BY <1>1 DEF AccessOf, UnionPerms, Atomic!Held
  <1>3. Outranked(req[q]) <=> Atomic!Outranks(a)
    BY <1>1 DEF AccessOf, Outranked, Atomic!Outranks, Atomic!IsAdmin
  <1>4. \A p \in req[q].access.perms : Atomic!May(a, p)
    BY <1>1, <1>2 DEF Atomic!May
  <1> QED
    BY <1>1, <1>2, <1>3, <1>4

LEMMA AtomicRoleHandlers ==
  ASSUME TypeOK, SerialInv, NEW q \in Reqs, RoleHandlers(q)
  PROVE  [Atomic!Next]_(Atomic!atomicVars)
  <1> USE DEF Atomic!atomicVars, Atomic!accounts, Atomic!roleTable, db
  <1>0. Fits(req[q])
    BY DEF SerialInv
  <1> DEFINE a == req[q].actor
             held == req[q].access.perms
  <1>1. ASSUME NEW r \in RoleIds, NEW perms \in SUBSET Perms, CreateRole(q, r, perms)
        PROVE  UNCHANGED Atomic!atomicVars
                 \/ (a \in Callers /\ perms \subseteq Catalog /\ Atomic!Create(a, r, perms))
    <2>1. CASE UNCHANGED db
      BY <2>1
    <2>2. CASE /\ ValidPerms(perms) /\ MayGrant(q, perms)
               /\ \A s \in Live : KeyOf[s] # KeyOf[r]
               /\ roleState' = [roleState EXCEPT ![r] = "live"]
               /\ rolePerms' = [rolePerms EXCEPT ![r] = perms]
               /\ UNCHANGED <<registered, active, superuser, userRoles, conferred>>
      <3>1. /\ req[q].pc = "authorized" /\ PermRolesCreate \in held
            /\ roleState[r] = "unused"
        BY <1>1 DEF CreateRole, Authorized
      <3>2. a \in Callers /\ Atomic!May(a, PermRolesCreate) /\ held = Atomic!Held(a)
        BY <1>0, <3>1, CallerHolds
      <3>3. Atomic!Create(a, r, perms)
        BY <2>2, <3>1, <3>2 DEF Atomic!Create, Atomic!Exists, MayGrant, Live
      <3> QED
        BY <2>2, <3>2, <3>3 DEF ValidPerms
    <2> QED
      BY <1>1, <2>1, <2>2 DEF CreateRole, Refuse
  <1>2. ASSUME UpdateRoleWrite(q)
        PROVE  UNCHANGED Atomic!atomicVars
                 \/ (a \in Callers /\ req[q].role \in RoleIds
                       /\ req[q].perms \subseteq Catalog
                       /\ Atomic!Edit(a, req[q].role, req[q].perms))
    <2> DEFINE r == req[q].role
               perms == req[q].perms
    <2>1. CASE UNCHANGED db
      BY <2>1
    <2>2. CASE /\ rolePerms' = [rolePerms EXCEPT ![r] = perms]
               /\ UNCHANGED <<registered, active, superuser, roleState, userRoles,
                              conferred>>
      <3>1. /\ req[q].pc = "updating" /\ r \in Live \ SystemRoles
            /\ rolePerms[r] \subseteq held /\ PermRolesUpdate \in held
            /\ perms \subseteq Catalog \cap held
        BY <1>0, <1>2 DEF UpdateRoleWrite, Fits, Editable
      <3>2. a \in Callers /\ Atomic!May(a, PermRolesUpdate) /\ held = Atomic!Held(a)
        BY <1>0, <3>1, CallerHolds
      <3>3. Atomic!Edit(a, r, perms)
        BY <2>2, <3>1, <3>2 DEF Atomic!Edit, Atomic!Exists, Live
      <3> QED
        BY <3>1, <3>2, <3>3 DEF Live
    <2> QED
      BY <1>2, <2>1, <2>2 DEF UpdateRoleWrite
  <1>3. ASSUME DeleteRoleWrite(q)
        PROVE  UNCHANGED Atomic!atomicVars
                 \/ (a \in Callers /\ req[q].role \in RoleIds
                       /\ Atomic!Delete(a, req[q].role))
    <2> DEFINE r == req[q].role
    <2>1. CASE UNCHANGED db
      BY <2>1
    <2>2. CASE /\ ~(\E u \in Users : r \in userRoles[u])
               /\ roleState' = [roleState EXCEPT ![r] = "deleted"]
               /\ rolePerms' = [rolePerms EXCEPT ![r] = {}]
               /\ UNCHANGED <<registered, active, superuser, userRoles, conferred>>
      <3>1. /\ req[q].pc = "deleting" /\ r \in Live \ SystemRoles
            /\ rolePerms[r] \subseteq held /\ PermRolesDelete \in held
        BY <1>0, <1>3 DEF DeleteRoleWrite, Fits, Editable
      <3>2. a \in Callers /\ Atomic!May(a, PermRolesDelete) /\ held = Atomic!Held(a)
        BY <1>0, <3>1, CallerHolds
      <3>3. Atomic!Delete(a, r)
        BY <2>2, <3>1, <3>2 DEF Atomic!Delete, Atomic!Exists, Live
      <3> QED
        BY <3>1, <3>2, <3>3 DEF Live
    <2> QED
      BY <1>3, <2>1, <2>2 DEF DeleteRoleWrite, Refuse
  <1>4. ASSUME \/ \E r \in RoleIds, perms \in SUBSET Perms : UpdateRoleRead(q, r, perms)
               \/ \E r \in RoleIds : DeleteRoleRead(q, r)
        PROVE  UNCHANGED Atomic!atomicVars
    BY <1>4 DEF UpdateRoleRead, DeleteRoleRead, Refuse
  <1> QED
    BY <1>1, <1>2, <1>3, <1>4 DEF RoleHandlers, Atomic!Next

LEMMA AtomicAssign ==
  ASSUME TypeOK, SerialInv, NEW q \in Reqs, SetUserRolesAssign(q), ~Refuse(q, "conflict")
  PROVE  LET a == req[q].actor IN
         /\ a \in Callers /\ req[q].target \in Users /\ req[q].ids \subseteq RoleIds
         /\ Atomic!Assign(a, req[q].target, req[q].ids)
  <1> DEFINE a == req[q].actor
             t == req[q].target
             ids == req[q].ids
             held == req[q].access.perms
  <1>1. /\ req[q].pc = "assigning" /\ t \in Users
        /\ userRoles' = [userRoles EXCEPT ![t] = ids]
        /\ UNCHANGED <<registered, active, superuser, roleState, rolePerms>>
    BY AssignFacts
  <1>2. /\ PermUsersUpdate \in held /\ ids \subseteq Live /\ UnionPerms(ids) \subseteq held
        /\ AdminRole \in userRoles[t] => Outranked(req[q])
        /\ AdminRole \in userRoles[t] \ ids => OtherAdmin(t)
    BY <1>1 DEF SerialInv, Fits, Assignable
  <1>3. /\ a \in Callers /\ Atomic!May(a, PermUsersUpdate) /\ held = Atomic!Held(a)
        /\ Outranked(req[q]) <=> Atomic!Outranks(a)
    BY <1>1, <1>2, CallerHolds DEF SerialInv
  <1>4. \A r \in ids : Atomic!Exists(r) /\ rolePerms[r] \subseteq held
    BY <1>2 DEF Live, UnionPerms, Atomic!Exists
  <1>5. ASSUME Atomic!IsAdmin(t) PROVE \E u \in Users : Atomic!IsAdmin(u)'
    <2>1. CASE AdminRole \in ids
      <3>1. AdminRole \in userRoles'[t]
        BY <1>1, <2>1 DEF TypeOK
      <3> QED
        BY <1>1, <3>1 DEF Atomic!IsAdmin
    <2>2. CASE AdminRole \notin ids
      <3>1. PICK u \in Users : u # t /\ AdminRole \in userRoles[u]
        BY <1>2, <1>5, <2>2 DEF OtherAdmin, Atomic!IsAdmin
      <3>2. AdminRole \in userRoles'[u]
        BY <1>1, <3>1 DEF TypeOK
      <3> QED
        BY <3>2 DEF Atomic!IsAdmin
    <2> QED
      BY <2>1, <2>2
  <1>6. Atomic!IsAdmin(t) => Atomic!Outranks(a)
    BY <1>2, <1>3 DEF Atomic!IsAdmin
  <1>7. Atomic!Assign(a, t, ids)
    BY <1>1, <1>3, <1>4, <1>5, <1>6
       DEF Atomic!Assign, Atomic!accounts, Atomic!roleTable
  <1> QED
    BY <1>1, <1>2, <1>3, <1>7 DEF Live

LEMMA AtomicSwitch ==
  ASSUME TypeOK, SerialInv, NEW q \in Reqs, SetUserActiveWrite(q)
  PROVE  \/ UNCHANGED db
         \/ /\ req[q].actor \in Callers /\ req[q].target \in Users
            /\ req[q].activate \in BOOLEAN
            /\ Atomic!Switch(req[q].actor, req[q].target, req[q].activate)
  <1> DEFINE a == req[q].actor
             t == req[q].target
             flag == req[q].activate
  <1>1. CASE UNCHANGED db
    BY <1>1
  <1>2. CASE /\ t \in registered /\ active' = [active EXCEPT ![t] = flag]
             /\ UNCHANGED <<registered, superuser, roleState, rolePerms, userRoles,
                            conferred>>
    <2>1. /\ req[q].pc = "activating" /\ t \in Users /\ flag \in BOOLEAN
          /\ Fits(req[q])
      BY DEF SetUserActiveWrite, TypeOK, Shape, Request, SerialInv
    <2>2. /\ PermUsersUpdate \in req[q].access.perms /\ (flag \/ t # a)
          /\ ~flag /\ ~req[q].isSuper /\ AdminRole \in userRoles[t] => OtherActiveAdmin(t)
      BY <2>1 DEF Fits, Deactivatable
    <2>3. /\ a \in Callers /\ Atomic!May(a, PermUsersUpdate)
          /\ req[q].isSuper = superuser[a]
      BY <2>1, <2>2, CallerHolds
    <2>4. ASSUME ~flag, ~superuser[a], Atomic!IsAdmin(t)
          PROVE  \E u \in Users : active'[u] /\ Atomic!IsAdmin(u)
      <3>1. PICK u \in Users : u # t /\ active[u] /\ AdminRole \in userRoles[u]
        BY <2>2, <2>3, <2>4 DEF OtherActiveAdmin, Atomic!IsAdmin
      <3>2. active'[u]
        BY <1>2, <3>1 DEF TypeOK
      <3> QED
        BY <3>1, <3>2 DEF Atomic!IsAdmin
    <2>5. Atomic!Switch(a, t, flag)
      BY <1>2, <2>2, <2>3, <2>4 DEF Atomic!Switch, Atomic!roleTable
    <2> QED
      BY <2>1, <2>3, <2>5
  <1> QED
    BY <1>1, <1>2 DEF SetUserActiveWrite, Refuse

\* A step of the promise, or the exception.
AtomicNext == Atomic!Next \/ Atomic!UnrankedSwitch

LEMMA AtomicStep ==
  ASSUME CliUsers = {}, TypeOK, SerialInv, [Next]_vars
  PROVE  [AtomicNext]_(Atomic!atomicVars)
  <1> USE DEF Atomic!atomicVars, Atomic!accounts, Atomic!roleTable, db
  <1>1. CASE UNCHANGED db
    BY <1>1
  <1>2. ASSUME NEW q \in Reqs, SetUserRolesAssign(q) PROVE [AtomicNext]_(Atomic!atomicVars)
    <2>1. CASE Refuse(q, "conflict")
      BY <1>1, <2>1 DEF Refuse
    <2>2. CASE ~Refuse(q, "conflict")
      BY <1>2, <2>2, AtomicAssign DEF AtomicNext, Atomic!Next
    <2> QED
      BY <2>1, <2>2
  <1>3. ASSUME NEW q \in Reqs, SetUserActiveWrite(q) PROVE [AtomicNext]_(Atomic!atomicVars)
    <2>1. CASE UNCHANGED db
      BY <1>1, <2>1
    <2>2. CASE ~UNCHANGED db
      <3> DEFINE a == req[q].actor
                 t == req[q].target
                 flag == req[q].activate
      <3>1. /\ a \in Callers /\ t \in Users /\ flag \in BOOLEAN
            /\ Atomic!Switch(a, t, flag)
        BY <1>3, <2>2, AtomicSwitch
      <3>2. CASE ~flag /\ Atomic!IsAdmin(t) /\ ~Atomic!Outranks(a)
        <4>1. flag = FALSE
          BY <3>1, <3>2
        <4>2. Atomic!UnrankedSwitch
          BY <3>1, <3>2, <4>1 DEF Atomic!UnrankedSwitch
        <4> QED
          BY <4>2 DEF AtomicNext
      <3>3. CASE ~(~flag /\ Atomic!IsAdmin(t) /\ ~Atomic!Outranks(a))
        <4>1. Atomic!Activate(a, t, flag)
          BY <3>1, <3>3 DEF Atomic!Activate
        <4> QED
          BY <3>1, <4>1 DEF AtomicNext, Atomic!Next
      <3> QED
        BY <3>2, <3>3
    <2> QED
      BY <2>1, <2>2
  <1>4. ASSUME NEW q \in Reqs, UserHandlers(q) PROVE [AtomicNext]_(Atomic!atomicVars)
    BY <1>1, <1>2, <1>3, <1>4 DEF UserHandlers, SetUserRolesResolve, SetUserRolesLoad,
       SetUserRolesCount, SetUserRolesClear, SetUserActiveLoad, SetUserActiveCount, Refuse
  <1>5. ASSUME NEW q \in Reqs, Middleware(q) PROVE [AtomicNext]_(Atomic!atomicVars)
    BY <1>1, <1>5, MiddlewareGoesTo
  <1>6. ASSUME NEW u \in Users, Register(u) PROVE [AtomicNext]_(Atomic!atomicVars)
    <2>1. Atomic!SignUp(u)
      BY <1>6 DEF Register, Atomic!SignUp
    <2> QED
      BY <2>1 DEF AtomicNext, Atomic!Next
  <1>7. ~Cli
    BY DEF Cli
  <1>8. UNCHANGED vars => UNCHANGED db
    BY DEF vars
  <1> QED
    BY <1>1, <1>4, <1>5, <1>6, <1>7, <1>8, AtomicRoleHandlers DEF Next, AtomicNext

\* Served one at a time, the staged handlers are the atomic operations of AtomicRbac, for
\* any users, roles and permissions: every guard of the promise still holds when its write
\* commits, but for the caller's rank when an admin is deactivated.
THEOREM SerialRbacIsAtomicButForRank ==
  ASSUME IsFiniteSet(Users), Serial, CliUsers = {}
  PROVE  Spec => AtomicButForRank
  <1>1. Init => Atomic!Init
    BY DEF Init, Atomic!Init
  <1>2. TypeOK /\ SerialInv /\ [Next]_vars => [AtomicNext]_(Atomic!atomicVars)
    BY AtomicStep
  <1> QED
    BY <1>1, <1>2, SerialInvariant, PTL DEF Spec, AtomicButForRank, Atomic!SpecButForRank, AtomicNext
=============================================================================
