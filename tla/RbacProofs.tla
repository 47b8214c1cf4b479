----------------------------- MODULE RbacProofs -----------------------------
(***************************************************************************)
(* Theorems about Rbac, for any users, roles, permissions and number of    *)
(* requests served at the same time.                                       *)
(***************************************************************************)
EXTENDS Rbac, TLAPS

-----------------------------------------------------------------------------
(* Type correctness. *)

LEMMA InitType == Init => TypeOK
  <1> SUFFICES ASSUME Init PROVE TypeOK
    OBVIOUS
  <1>1. conferred \subseteq Perms
    <2>1. \A u \in Callers : Authority(u) \cup UnionPerms(userRoles[u]) \subseteq Perms
      BY RbacAssumption DEF Init, Authority, AccessOf, UnionPerms
    <2> QED
      BY <2>1 DEF Init
  <1>2. Idle \in Request /\ Shape(Idle)
    BY DEF Idle, Request, NoAccess, Access, Pcs, Ops, Results, Shape
  <1>3. userRoles \in [Users -> SUBSET RoleIds]
    BY RbacAssumption DEF Init
  <1> QED
    BY <1>1, <1>2, <1>3, RbacAssumption DEF Init, TypeOK

\* A well-formed record may be put into any slot.
LEMMA SlotType ==
  ASSUME TypeOK, NEW q \in Reqs, NEW x \in Request, Shape(x),
         req' = [req EXCEPT ![q] = x]
  PROVE  req' \in [Reqs -> Request] /\ \A p \in Reqs : Shape(req'[p])
  BY DEF TypeOK

LEMMA AnsweredType ==
  ASSUME NEW x \in Request, NEW result \in Results
  PROVE  Answered(x, result) \in Request /\ Shape(Answered(x, result))
  <1> DEFINE y == Answered(x, result)
  <1>1. "done" \in Pcs /\ NoAccess \in Access /\ Idle \in Request
    BY DEF Pcs, NoAccess, Access, Idle, Request, Ops, Results
  <1>2. y \in Request /\ y.pc = "done"
    <2>1. CASE result = "ok"
      BY <1>1, <2>1 DEF Answered, Request
    <2>2. CASE result # "ok"
      BY <1>1, <2>2 DEF Answered, Request
    <2> QED
      BY <2>1, <2>2
  <1> QED
    BY <1>2 DEF Shape

LEMMA AnswerType ==
  ASSUME TypeOK, NEW q \in Reqs, NEW result \in Results, Answer(q, result)
  PROVE  req' \in [Reqs -> Request] /\ \A p \in Reqs : Shape(req'[p])
  <1>1. req[q] \in Request
    BY DEF TypeOK
  <1> QED
    BY <1>1, AnsweredType, SlotType DEF Answer

LEMMA RefuseType ==
  ASSUME TypeOK, NEW q \in Reqs, NEW result \in Results, Refuse(q, result)
  PROVE  TypeOK'
  BY AnswerType DEF Refuse, TypeOK, db

LEMMA MiddlewareType ==
  ASSUME TypeOK, NEW q \in Reqs, Middleware(q)
  PROVE  TypeOK'
  <1> USE DEF db
  <1>1. ASSUME NEW u \in Callers, Authenticate(q, u) PROVE TypeOK'
    <2> DEFINE x == [Idle EXCEPT !.pc = "authenticated", !.actor = u,
                                 !.isSuper = superuser[u]]
    <2>1. u \in Users /\ superuser[u] \in BOOLEAN
      BY RbacAssumption DEF TypeOK
    <2>2. x \in Request /\ x.pc = "authenticated" /\ x.actor = u
      BY <2>1 DEF Idle, Request, NoAccess, Access, Pcs, Ops, Results
    <2>3. Shape(x)
      BY <2>2 DEF Shape
    <2>4. req' \in [Reqs -> Request] /\ \A p \in Reqs : Shape(req'[p])
      BY <1>1, <2>2, <2>3, SlotType DEF Authenticate
    <2> QED
      BY <1>1, <2>4 DEF Authenticate, TypeOK
  <1>2. ASSUME Authorize(q) PROVE TypeOK'
    <2> DEFINE a == AccessOf(req[q].actor, req[q].isSuper)
               x == [req[q] EXCEPT !.pc = "authorized", !.access = a]
    <2>1. req[q] \in Request /\ req[q].actor \in Users
      BY <1>2, RbacAssumption DEF Authorize, TypeOK, Shape
    <2>2. a \in Access
      BY <2>1, RbacAssumption DEF AccessOf, Access, UnionPerms, TypeOK
    <2>3. "authorized" \in Pcs
      BY DEF Pcs
    <2>4. x \in Request /\ x.pc = "authorized"
      BY <2>1, <2>2, <2>3 DEF Request
    <2>5. Shape(x)
      BY <2>4 DEF Shape
    <2>6. req' \in [Reqs -> Request] /\ \A p \in Reqs : Shape(req'[p])
      BY <1>2, <2>4, <2>5, SlotType DEF Authorize
    <2> QED
      BY <1>2, <2>6 DEF Authorize, TypeOK
  <1>3. ASSUME NEW perm \in RoutePerms, Forbid(q, perm) PROVE TypeOK'
    <2>1. "forbidden" \in Results
      BY DEF Results
    <2> QED
      BY <1>3, <2>1, RefuseType DEF Forbid
  <1>4. ASSUME Finish(q) PROVE TypeOK'
    <2>1. Idle \in Request /\ Shape(Idle)
      BY DEF Idle, Request, NoAccess, Access, Pcs, Ops, Results, Shape
    <2>2. req' \in [Reqs -> Request] /\ \A p \in Reqs : Shape(req'[p])
      BY <1>4, <2>1, SlotType DEF Finish
    <2> QED
      BY <1>4, <2>2 DEF Finish, TypeOK
  <1> QED
    BY <1>1, <1>2, <1>3, <1>4 DEF Middleware

LEMMA RoleHandlersType ==
  ASSUME TypeOK, NEW q \in Reqs, RoleHandlers(q)
  PROVE  TypeOK'
  <1> USE DEF db
  <1>0. /\ req[q] \in Request
        /\ {"create", "update", "delete"} \subseteq Ops
        /\ {"done", "updating", "deleting"} \subseteq Pcs
        /\ {"ok", "invalid", "escalation", "not_found", "system_role",
            "key_taken", "role_in_use"} \subseteq Results
    BY DEF TypeOK, Ops, Pcs, Results
  <1>1. ASSUME NEW r \in RoleIds, NEW perms \in SUBSET Perms,
               CreateRole(q, r, perms)
        PROVE  TypeOK'
    <2> DEFINE x == [req[q] EXCEPT !.op = "create", !.role = r]
    <2>1. CASE Refuse(q, "invalid")
      BY <1>0, <2>1, RefuseType
    <2>2. CASE Refuse(q, "escalation")
      BY <1>0, <2>2, RefuseType
    <2>3. CASE Refuse(q, "key_taken")
      BY <1>0, <2>3, RefuseType
    <2>4. CASE /\ roleState' = [roleState EXCEPT ![r] = "live"]
               /\ rolePerms' = [rolePerms EXCEPT ![r] = perms]
               /\ req' = [req EXCEPT ![q] = Answered(x, "ok")]
               /\ UNCHANGED <<registered, active, superuser, userRoles, conferred>>
      <3>1. x \in Request
        BY <1>0 DEF Request
      <3>2. Answered(x, "ok") \in Request /\ Shape(Answered(x, "ok"))
        BY <1>0, <3>1, AnsweredType
      <3>3. req' \in [Reqs -> Request] /\ \A p \in Reqs : Shape(req'[p])
        BY <2>4, <3>2, SlotType
      <3> QED
        BY <2>4, <3>3 DEF TypeOK
    <2> QED
      BY <1>1, <2>1, <2>2, <2>3, <2>4 DEF CreateRole
  <1>2. ASSUME NEW r \in RoleIds, NEW perms \in SUBSET Perms,
               UpdateRoleRead(q, r, perms)
        PROVE  TypeOK'
    <2> DEFINE x == [req[q] EXCEPT !.pc = "updating", !.op = "update",
                                   !.role = r, !.perms = perms]
    <2>1. CASE \E result \in Results : Refuse(q, result)
      BY <1>0, <2>1, RefuseType
    <2>2. CASE /\ r \in Live \ SystemRoles
               /\ req' = [req EXCEPT ![q] = x]
               /\ UNCHANGED <<db, conferred>>
      <3>1. x \in Request /\ x.pc = "updating" /\ x.role = r
        BY <1>0 DEF Request
      <3>2. Shape(x)
        BY <2>2, <3>1 DEF Shape
      <3>3. req' \in [Reqs -> Request] /\ \A p \in Reqs : Shape(req'[p])
        BY <2>2, <3>1, <3>2, SlotType
      <3> QED
        BY <2>2, <3>3 DEF TypeOK
    <2> QED
      BY <1>0, <1>2, <2>1, <2>2 DEF UpdateRoleRead
  <1>3. ASSUME UpdateRoleWrite(q) PROVE TypeOK'
    <2>1. \E result \in Results : Answer(q, result)
      BY <1>0, <1>3 DEF UpdateRoleWrite, Refuse
    <2>2. req' \in [Reqs -> Request] /\ \A p \in Reqs : Shape(req'[p])
      BY <2>1, AnswerType
    <2>3. req[q].perms \subseteq Perms
      BY <1>0 DEF Request
    <2>4. rolePerms' \in [RoleIds -> SUBSET Perms]
      BY <1>3, <2>3 DEF UpdateRoleWrite, Refuse, TypeOK
    <2> QED
      BY <1>3, <2>2, <2>4 DEF UpdateRoleWrite, Refuse, TypeOK
  <1>4. ASSUME NEW r \in RoleIds, DeleteRoleRead(q, r) PROVE TypeOK'
    <2> DEFINE x == [req[q] EXCEPT !.pc = "deleting", !.op = "delete", !.role = r]
    <2>1. CASE \E result \in Results : Refuse(q, result)
      BY <1>0, <2>1, RefuseType
    <2>2. CASE /\ r \in Live \ SystemRoles
               /\ req' = [req EXCEPT ![q] = x]
               /\ UNCHANGED <<db, conferred>>
      <3>1. x \in Request /\ x.pc = "deleting" /\ x.role = r
        BY <1>0 DEF Request
      <3>2. Shape(x)
        BY <2>2, <3>1 DEF Shape
      <3>3. req' \in [Reqs -> Request] /\ \A p \in Reqs : Shape(req'[p])
        BY <2>2, <3>1, <3>2, SlotType
      <3> QED
        BY <2>2, <3>3 DEF TypeOK
    <2> QED
      BY <1>0, <1>4, <2>1, <2>2 DEF DeleteRoleRead
  <1>5. ASSUME DeleteRoleWrite(q) PROVE TypeOK'
    <2>1. \E result \in Results : Answer(q, result)
      BY <1>0, <1>5 DEF DeleteRoleWrite, Refuse
    <2>2. req' \in [Reqs -> Request] /\ \A p \in Reqs : Shape(req'[p])
      BY <2>1, AnswerType
    <2> QED
      BY <1>5, <2>2 DEF DeleteRoleWrite, Refuse, TypeOK
  <1> QED
    BY <1>1, <1>2, <1>3, <1>4, <1>5 DEF RoleHandlers

LEMMA UserHandlersType ==
  ASSUME TypeOK, NEW q \in Reqs, UserHandlers(q)
  PROVE  TypeOK'
  <1> USE DEF db
  <1>0. /\ req[q] \in Request /\ Shape(req[q])
        /\ {"roles", "active"} \subseteq Ops
        /\ {"done", "loading", "counting", "clearing", "assigning",
            "countingActive", "activating"} \subseteq Pcs
        /\ {"ok", "invalid", "forbidden", "escalation", "not_found",
            "last_admin", "conflict"} \subseteq Results
    BY DEF TypeOK, Ops, Pcs, Results
  <1>1. ASSUME NEW t \in Users, NEW ids \in SUBSET RoleIds,
               SetUserRolesResolve(q, t, ids)
        PROVE  TypeOK'
    <2> DEFINE x == [req[q] EXCEPT !.pc = "loading", !.op = "roles",
                                   !.target = t, !.ids = ids]
    <2>1. CASE \E result \in Results : Refuse(q, result)
      BY <1>0, <2>1, RefuseType
    <2>2. CASE req' = [req EXCEPT ![q] = x] /\ UNCHANGED <<db, conferred>>
      <3>1. x \in Request /\ x.pc = "loading" /\ x.target = t
        BY <1>0 DEF Request
      <3>2. Shape(x)
        BY <3>1 DEF Shape
      <3>3. req' \in [Reqs -> Request] /\ \A p \in Reqs : Shape(req'[p])
        BY <2>2, <3>1, <3>2, SlotType
      <3> QED
        BY <2>2, <3>3 DEF TypeOK
    <2> QED
      BY <1>0, <1>1, <2>1, <2>2 DEF SetUserRolesResolve
  <1>2. ASSUME SetUserRolesLoad(q) PROVE TypeOK'
    <2> DEFINE before == userRoles[req[q].target]
    <2>1. req[q].target \in Users
      BY <1>0, <1>2 DEF SetUserRolesLoad, Shape
    <2>2. before \subseteq RoleIds
      BY <2>1 DEF TypeOK
    <2>3. CASE Answer(q, "forbidden")
      BY <1>0, <1>2, <2>3, AnswerType DEF SetUserRolesLoad, TypeOK
    <2>4. ASSUME NEW pc \in {"counting", "clearing"},
                 req' = [req EXCEPT ![q] = [req[q] EXCEPT !.pc = pc,
                                                          !.before = before]]
          PROVE  TypeOK'
      <3> DEFINE x == [req[q] EXCEPT !.pc = pc, !.before = before]
      <3>1. x \in Request /\ x.pc = pc /\ x.target = req[q].target
        BY <1>0, <2>2 DEF Request
      <3>2. Shape(x)
        BY <2>1, <3>1 DEF Shape
      <3>3. req' \in [Reqs -> Request] /\ \A p \in Reqs : Shape(req'[p])
        BY <2>4, <3>1, <3>2, SlotType
      <3> QED
        BY <1>2, <3>3 DEF SetUserRolesLoad, TypeOK
    <2> QED
      BY <1>2, <2>3, <2>4 DEF SetUserRolesLoad
  <1>3. ASSUME SetUserRolesCount(q) PROVE TypeOK'
    <2>1. CASE Answer(q, "last_admin")
      BY <1>0, <1>3, <2>1, AnswerType DEF SetUserRolesCount, TypeOK
    <2>2. CASE req' = [req EXCEPT ![q].pc = "clearing"]
      <3> DEFINE x == [req[q] EXCEPT !.pc = "clearing"]
      <3>1. x \in Request /\ x.pc = "clearing" /\ x.target = req[q].target
        BY <1>0 DEF Request
      <3>2. Shape(x)
        BY <1>0, <1>3, <3>1 DEF Shape, SetUserRolesCount
      <3>3. req' \in [Reqs -> Request] /\ \A p \in Reqs : Shape(req'[p])
        BY <2>2, <3>1, <3>2, SlotType
      <3> QED
        BY <1>3, <3>3 DEF SetUserRolesCount, TypeOK
    <2> QED
      BY <1>3, <2>1, <2>2 DEF SetUserRolesCount
  <1>4. ASSUME SetUserRolesClear(q) PROVE TypeOK'
    <2> DEFINE x == [req[q] EXCEPT !.pc = "assigning",
                                   !.rows = userRoles[req[q].target]]
    <2>1. req[q].target \in Users
      BY <1>0, <1>4 DEF SetUserRolesClear, Shape
    <2>2. userRoles[req[q].target] \subseteq RoleIds
      BY <2>1 DEF TypeOK
    <2>3. x \in Request /\ x.pc = "assigning" /\ x.target = req[q].target
      BY <1>0, <2>2 DEF Request
    <2>4. Shape(x)
      BY <2>1, <2>3 DEF Shape
    <2>5. req' \in [Reqs -> Request] /\ \A p \in Reqs : Shape(req'[p])
      BY <1>4, <2>3, <2>4, SlotType DEF SetUserRolesClear
    <2> QED
      BY <1>4, <2>5 DEF SetUserRolesClear, TypeOK
  <1>5. ASSUME SetUserRolesAssign(q) PROVE TypeOK'
    <2> DEFINE t == req[q].target
               ids == req[q].ids
               kept == userRoles[t] \ req[q].rows
               fewer(p) == [req[p] EXCEPT !.rows = @ \ req[q].rows]
               done == Answered(req[q], "ok")
    <2>1. t \in Users /\ ids \subseteq RoleIds /\ kept \subseteq RoleIds
      BY <1>0, <1>5 DEF SetUserRolesAssign, Shape, TypeOK, Request
    <2>2. CASE Refuse(q, "conflict")
      BY <1>0, <2>2, RefuseType
    <2>3. CASE /\ userRoles' = [userRoles EXCEPT ![t] = kept \cup ids]
               /\ req' = [p \in Reqs |->
                            IF p = q THEN done
                            ELSE IF req[p].pc = "assigning" /\ req[p].target = t
                            THEN fewer(p) ELSE req[p]]
               /\ UNCHANGED <<registered, active, superuser, roleState, rolePerms,
                              conferred>>
      <3>1. done \in Request
        BY <1>0, AnsweredType
      <3>2. Shape(done)
        BY <1>0, AnsweredType
      <3>3. ASSUME NEW p \in Reqs
            PROVE  fewer(p) \in Request /\ Shape(fewer(p))
        <4>1. req[p] \in Request /\ Shape(req[p])
          BY DEF TypeOK
        <4>2. /\ fewer(p) \in Request
              /\ fewer(p).pc = req[p].pc /\ fewer(p).actor = req[p].actor
              /\ fewer(p).role = req[p].role /\ fewer(p).target = req[p].target
          BY <4>1 DEF Request
        <4> QED
          BY <4>1, <4>2 DEF Shape
      <3>4. req' \in [Reqs -> Request] /\ \A p \in Reqs : Shape(req'[p])
        BY <2>3, <3>1, <3>2, <3>3 DEF TypeOK
      <3>5. userRoles' \in [Users -> SUBSET RoleIds]
        BY <2>1, <2>3 DEF TypeOK
      <3> QED
        BY <2>3, <3>4, <3>5 DEF TypeOK
    <2> QED
      BY <1>5, <2>2, <2>3 DEF SetUserRolesAssign
  <1>6. ASSUME NEW t \in Users, NEW activate \in BOOLEAN,
               SetUserActiveLoad(q, t, activate)
        PROVE  TypeOK'
    <2>1. CASE Refuse(q, "invalid")
      BY <1>0, <2>1, RefuseType
    <2>2. ASSUME NEW pc \in {"countingActive", "activating"},
                 req' = [req EXCEPT ![q] =
                           [req[q] EXCEPT !.pc = pc, !.op = "active", !.target = t,
                                          !.activate = activate]],
                 UNCHANGED <<db, conferred>>
          PROVE  TypeOK'
      <3> DEFINE x == [req[q] EXCEPT !.pc = pc, !.op = "active", !.target = t,
                                     !.activate = activate]
      <3>1. x \in Request /\ x.pc = pc /\ x.target = t
        BY <1>0 DEF Request
      <3>2. Shape(x)
        BY <3>1 DEF Shape
      <3>3. req' \in [Reqs -> Request] /\ \A p \in Reqs : Shape(req'[p])
        BY <2>2, <3>1, <3>2, SlotType
      <3> QED
        BY <2>2, <3>3 DEF TypeOK
    <2> QED
      BY <1>6, <2>1, <2>2 DEF SetUserActiveLoad
  <1>7. ASSUME SetUserActiveCount(q) PROVE TypeOK'
    <2>1. CASE Answer(q, "last_admin")
      BY <1>0, <1>7, <2>1, AnswerType DEF SetUserActiveCount, TypeOK
    <2>2. CASE req' = [req EXCEPT ![q].pc = "activating"]
      <3> DEFINE x == [req[q] EXCEPT !.pc = "activating"]
      <3>1. x \in Request /\ x.pc = "activating" /\ x.target = req[q].target
        BY <1>0 DEF Request
      <3>2. Shape(x)
        BY <1>0, <1>7, <3>1 DEF Shape, SetUserActiveCount
      <3>3. req' \in [Reqs -> Request] /\ \A p \in Reqs : Shape(req'[p])
        BY <2>2, <3>1, <3>2, SlotType
      <3> QED
        BY <1>7, <3>3 DEF SetUserActiveCount, TypeOK
    <2> QED
      BY <1>7, <2>1, <2>2 DEF SetUserActiveCount
  <1>8. ASSUME SetUserActiveWrite(q) PROVE TypeOK'
    <2>1. \E result \in Results : Answer(q, result)
      BY <1>0, <1>8 DEF SetUserActiveWrite, Refuse
    <2>2. req' \in [Reqs -> Request] /\ \A p \in Reqs : Shape(req'[p])
      BY <2>1, AnswerType
    <2>3. req[q].activate \in BOOLEAN
      BY <1>0 DEF Request
    <2>4. active' \in [Users -> BOOLEAN]
      BY <1>8, <2>3 DEF SetUserActiveWrite, Refuse, TypeOK
    <2> QED
      BY <1>8, <2>2, <2>4 DEF SetUserActiveWrite, Refuse, TypeOK
  <1> QED
    BY <1>1, <1>2, <1>3, <1>4, <1>5, <1>6, <1>7, <1>8 DEF UserHandlers

LEMMA OutsideType ==
  ASSUME TypeOK, (\E u \in Users : Register(u)) \/ Cli
  PROVE  TypeOK'
  <1>1. ASSUME NEW u \in Users, Register(u) PROVE TypeOK'
    BY <1>1 DEF Register, TypeOK
  <1>2. ASSUME NEW u \in CliUsers, NEW isSuper \in BOOLEAN, SetSuperuser(u, isSuper)
        PROVE  TypeOK'
    <2>1. conferred' \subseteq Perms
      BY <1>2, RbacAssumption DEF SetSuperuser, Confer, TypeOK
    <2> QED
      BY <1>2, <2>1 DEF SetSuperuser, TypeOK
  <1>3. ASSUME NEW u \in CliUsers, NEW r \in RoleIds, GrantRoleByKey(u, r)
        PROVE  TypeOK'
    <2>1. conferred' \subseteq Perms
      BY <1>3 DEF GrantRoleByKey, Confer, TypeOK
    <2> QED
      BY <1>3, <2>1 DEF GrantRoleByKey, TypeOK
  <1> QED
    BY <1>1, <1>2, <1>3 DEF Cli

LEMMA NextType == TypeOK /\ [Next]_vars => TypeOK'
  <1> SUFFICES ASSUME TypeOK, [Next]_vars PROVE TypeOK'
    OBVIOUS
  <1>1. CASE UNCHANGED vars
    BY <1>1 DEF vars, db, TypeOK
  <1>2. CASE Next
    BY <1>2, MiddlewareType, RoleHandlersType, UserHandlersType, OutsideType
    DEF Next
  <1> QED
    BY <1>1, <1>2

\* Every row and every request in flight keeps its shape.
THEOREM TypeCorrect == Spec => []TypeOK
  BY InitType, NextType, PTL DEF Spec

-----------------------------------------------------------------------------
(* No escalation. *)

\* The parts of a request that Ceiling speaks of.
Carried(x) == <<x.pc, x.access, x.isSuper, x.perms, x.ids>>

\* A step keeps Ceiling if what was conferred only grows, roles and callers take
\* nothing beyond it, and only request q takes on something new.
LEMMA CeilingStep ==
  ASSUME TypeOK, Ceiling, NEW q \in Reqs,
         conferred \subseteq conferred',
         \A r \in RoleIds :
           rolePerms'[r] = rolePerms[r] \/ rolePerms'[r] \subseteq conferred',
         \A u \in Callers :
           /\ superuser'[u] => superuser[u] \/ Catalog \subseteq conferred'
           /\ \A r \in userRoles'[u] :
                r \in userRoles[u] \/ rolePerms'[r] \subseteq conferred',
         \A p \in Reqs \ {q} : Carried(req'[p]) = Carried(req[p]),
         RequestBound(req[q])'
  PROVE  Ceiling'
  <1>1. ASSUME NEW u \in Callers
        PROVE  (superuser[u] => Catalog \subseteq conferred)'
               /\ Within(userRoles[u], conferred)'
    BY RbacAssumption DEF Ceiling, Within, TypeOK
  <1>2. ASSUME NEW p \in Reqs \ {q} PROVE RequestBound(req[p])'
    <2>1. /\ req'[p].pc = req[p].pc /\ req'[p].access = req[p].access
          /\ req'[p].isSuper = req[p].isSuper /\ req'[p].perms = req[p].perms
          /\ req'[p].ids = req[p].ids
      BY DEF Carried
    <2>2. RequestBound(req[p]) /\ req[p].ids \subseteq RoleIds
      BY DEF Ceiling, TypeOK, Request
    <2> QED
      BY <2>1, <2>2 DEF RequestBound, Within
  <1> QED
    BY <1>1, <1>2 DEF Ceiling

\* The initial state: the callers hold what they were given.
LEMMA InitCeiling == Init => Ceiling
  <1> SUFFICES ASSUME Init PROVE Ceiling
    OBVIOUS
  <1>1. ASSUME NEW u \in Callers
        PROVE  /\ superuser[u] => Catalog \subseteq conferred
               /\ Within(userRoles[u], conferred)
    <2>1. Authority(u) \cup UnionPerms(userRoles[u]) \subseteq conferred
      BY DEF Init
    <2>2. Within(userRoles[u], conferred)
      BY <2>1 DEF UnionPerms, Within
    <2>3. ASSUME superuser[u] PROVE Catalog \subseteq conferred
      BY <2>1, <2>3 DEF Authority, AccessOf
    <2> QED
      BY <2>2, <2>3
  <1>2. ASSUME NEW q \in Reqs PROVE RequestBound(req[q])
    BY DEF Init, Idle, NoAccess, RequestBound
  <1> QED
    BY <1>1, <1>2 DEF Ceiling

\* A request that is answered carries no authority any more.
LEMMA AnsweredCarries ==
  ASSUME NEW x \in Request, NEW result
  PROVE  /\ Answered(x, result).pc = "done"
         /\ Answered(x, result).access = NoAccess
         /\ Answered(x, result).isSuper = FALSE
  <1>1. CASE result = "ok"
    BY <1>1 DEF Answered, Request
  <1>2. CASE result # "ok"
    BY <1>2 DEF Answered, Idle
  <1> QED
    BY <1>1, <1>2

LEMMA AnsweredBound ==
  ASSUME NEW q \in Reqs, NEW x \in Request, NEW result,
         req'[q] = Answered(x, result)
  PROVE  RequestBound(req[q])'
  <1>1. /\ req'[q].pc = "done" /\ req'[q].access = NoAccess
        /\ req'[q].isSuper = FALSE
    BY AnsweredCarries
  <1> QED
    BY <1>1 DEF RequestBound, NoAccess

LEMMA AnswerCeiling ==
  ASSUME TypeOK, NEW q \in Reqs, NEW result, Answer(q, result)
  PROVE  /\ RequestBound(req[q])'
         /\ \A p \in Reqs \ {q} : Carried(req'[p]) = Carried(req[p])
  <1>1. req[q] \in Request /\ req'[q] = Answered(req[q], result)
    BY DEF TypeOK, Answer
  <1>2. RequestBound(req[q])'
    BY <1>1, AnsweredBound
  <1> QED
    BY <1>2 DEF Answer, TypeOK

LEMMA RefuseCeiling ==
  ASSUME TypeOK, Ceiling, NEW q \in Reqs, NEW result, Refuse(q, result)
  PROVE  Ceiling'
  BY AnswerCeiling, CeilingStep DEF Refuse, db

LEMMA MiddlewareCeiling ==
  ASSUME TypeOK, Ceiling, NEW q \in Reqs, Middleware(q)
  PROVE  Ceiling'
  <1> USE DEF db
  <1>0. req[q] \in Request /\ RequestBound(req[q])
    BY DEF TypeOK, Ceiling
  <1>1. ASSUME NEW u \in Callers, Authenticate(q, u) PROVE Ceiling'
    <2>1. req'[q] = [Idle EXCEPT !.pc = "authenticated", !.actor = u,
                                 !.isSuper = superuser[u]]
      BY <1>1 DEF Authenticate, TypeOK
    <2>2. /\ req'[q].pc = "authenticated" /\ req'[q].access = NoAccess
          /\ req'[q].isSuper = superuser[u]
      BY <2>1 DEF Idle
    <2>3. RequestBound(req[q])'
      BY <1>1, <2>2 DEF Authenticate, RequestBound, NoAccess, Ceiling
    <2>4. \A p \in Reqs \ {q} : req'[p] = req[p]
      BY <1>1 DEF Authenticate, TypeOK
    <2> QED
      BY <1>1, <2>3, <2>4, CeilingStep DEF Authenticate, Carried
  <1>2. ASSUME Authorize(q) PROVE Ceiling'
    <2> DEFINE a == AccessOf(req[q].actor, req[q].isSuper)
    <2>1. /\ req'[q].pc = "authorized" /\ req'[q].access = a
          /\ req'[q].isSuper = req[q].isSuper
      BY <1>0, <1>2 DEF Authorize, TypeOK, Request
    <2>2. Within(userRoles[req[q].actor], conferred)
      BY <1>2 DEF Authorize, TypeOK, Shape, Ceiling
    <2>3. a.perms \subseteq conferred
      <3>1. CASE req[q].isSuper
        BY <1>0, <3>1 DEF AccessOf, RequestBound
      <3>2. CASE ~req[q].isSuper
        BY <2>2, <3>2 DEF AccessOf, UnionPerms, Within
      <3> QED
        BY <3>1, <3>2
    <2>4. RequestBound(req[q])'
      BY <1>0, <1>2, <2>1, <2>3 DEF Authorize, RequestBound
    <2>5. \A p \in Reqs \ {q} : req'[p] = req[p]
      BY <1>2 DEF Authorize, TypeOK
    <2> QED
      BY <1>2, <2>4, <2>5, CeilingStep DEF Authorize, Carried
  <1>3. ASSUME NEW perm \in RoutePerms, Forbid(q, perm) PROVE Ceiling'
    BY <1>3, RefuseCeiling DEF Forbid
  <1>4. ASSUME Finish(q) PROVE Ceiling'
    <2>1. req'[q] = Idle /\ \A p \in Reqs \ {q} : req'[p] = req[p]
      BY <1>4 DEF Finish, TypeOK
    <2>2. RequestBound(req[q])'
      BY <2>1 DEF Idle, NoAccess, RequestBound
    <2> QED
      BY <1>4, <2>1, <2>2, CeilingStep DEF Finish, Carried
  <1> QED
    BY <1>1, <1>2, <1>3, <1>4 DEF Middleware

LEMMA RoleHandlersCeiling ==
  ASSUME TypeOK, Ceiling, NEW q \in Reqs, RoleHandlers(q)
  PROVE  Ceiling'
  <1> USE DEF db
  <1>0. req[q] \in Request /\ RequestBound(req[q])
    BY DEF TypeOK, Ceiling
  <1>1. ASSUME NEW r \in RoleIds, NEW perms \in SUBSET Perms,
               CreateRole(q, r, perms)
        PROVE  Ceiling'
    <2> DEFINE x == [req[q] EXCEPT !.op = "create", !.role = r]
    <2>1. CASE \E result : Refuse(q, result)
      BY <2>1, RefuseCeiling
    <2>2. CASE /\ MayGrant(q, perms)
               /\ rolePerms' = [rolePerms EXCEPT ![r] = perms]
               /\ req' = [req EXCEPT ![q] = Answered(x, "ok")]
               /\ UNCHANGED <<registered, active, superuser, userRoles, conferred>>
      <3>1. x \in Request /\ req'[q] = Answered(x, "ok")
        <4>1. x \in Request
          BY <1>0 DEF Request, Ops
        <4> QED
          BY <2>2, <4>1 DEF TypeOK
      <3>2. RequestBound(req[q])'
        BY <3>1, AnsweredBound
      <3>3. perms \subseteq conferred
        BY <1>0, <2>2 DEF MayGrant, RequestBound
      <3>4. \A p \in Reqs \ {q} : req'[p] = req[p]
        BY <2>2 DEF TypeOK
      <3>5. \A s \in RoleIds :
            rolePerms'[s] = rolePerms[s] \/ rolePerms'[s] \subseteq conferred'
        BY <2>2, <3>3 DEF TypeOK
      <3> QED
        BY <2>2, <3>2, <3>4, <3>5, CeilingStep DEF Carried
    <2> QED
      BY <1>1, <2>1, <2>2 DEF CreateRole
  <1>2. ASSUME NEW r \in RoleIds, NEW perms \in SUBSET Perms,
               UpdateRoleRead(q, r, perms)
        PROVE  Ceiling'
    <2>1. CASE \E result : Refuse(q, result)
      BY <2>1, RefuseCeiling
    <2>2. CASE /\ MayGrant(q, perms)
               /\ req' = [req EXCEPT ![q] =
                            [req[q] EXCEPT !.pc = "updating", !.op = "update",
                                           !.role = r, !.perms = perms]]
               /\ UNCHANGED <<db, conferred>>
      <3>1. /\ req'[q].pc = "updating" /\ req'[q].access = req[q].access
            /\ req'[q].isSuper = req[q].isSuper /\ req'[q].perms = perms
        BY <1>0, <2>2 DEF TypeOK, Request
      <3>2. RequestBound(req[q])'
        BY <1>0, <2>2, <3>1 DEF RequestBound, MayGrant
      <3>3. \A p \in Reqs \ {q} : req'[p] = req[p]
        BY <2>2 DEF TypeOK
      <3> QED
        BY <2>2, <3>2, <3>3, CeilingStep DEF Carried
    <2> QED
      BY <1>2, <2>1, <2>2 DEF UpdateRoleRead
  <1>3. ASSUME UpdateRoleWrite(q) PROVE Ceiling'
    <2>1. \E result : Answer(q, result)
      BY <1>3 DEF UpdateRoleWrite, Refuse
    <2>2. UNCHANGED <<superuser, userRoles, conferred>>
      BY <1>3 DEF UpdateRoleWrite, Refuse
    <2>3. \A s \in RoleIds :
            rolePerms'[s] = rolePerms[s] \/ rolePerms'[s] \subseteq conferred'
      <3>1. req[q].perms \subseteq conferred
        BY <1>0, <1>3 DEF UpdateRoleWrite, RequestBound
      <3> QED
        BY <1>3, <2>2, <3>1 DEF UpdateRoleWrite, Refuse, TypeOK
    <2> QED
      BY <2>1, <2>2, <2>3, AnswerCeiling, CeilingStep
  <1>4. ASSUME NEW r \in RoleIds, DeleteRoleRead(q, r) PROVE Ceiling'
    <2>1. CASE \E result : Refuse(q, result)
      BY <2>1, RefuseCeiling
    <2>2. CASE /\ req' = [req EXCEPT ![q] =
                            [req[q] EXCEPT !.pc = "deleting", !.op = "delete",
                                           !.role = r]]
               /\ UNCHANGED <<db, conferred>>
      <3>1. /\ req'[q].pc = "deleting" /\ req'[q].access = req[q].access
            /\ req'[q].isSuper = req[q].isSuper
        BY <1>0, <2>2 DEF TypeOK, Request
      <3>2. RequestBound(req[q])'
        BY <1>0, <2>2, <3>1 DEF RequestBound
      <3>3. \A p \in Reqs \ {q} : req'[p] = req[p]
        BY <2>2 DEF TypeOK
      <3> QED
        BY <2>2, <3>2, <3>3, CeilingStep DEF Carried
    <2> QED
      BY <1>4, <2>1, <2>2 DEF DeleteRoleRead
  <1>5. ASSUME DeleteRoleWrite(q) PROVE Ceiling'
    <2>1. \E result : Answer(q, result)
      BY <1>5 DEF DeleteRoleWrite, Refuse
    <2>2. UNCHANGED <<superuser, userRoles, conferred>>
      BY <1>5 DEF DeleteRoleWrite, Refuse
    <2>3. \A s \in RoleIds :
            rolePerms'[s] = rolePerms[s] \/ rolePerms'[s] \subseteq conferred'
      BY <1>5 DEF DeleteRoleWrite, Refuse, TypeOK
    <2> QED
      BY <2>1, <2>2, <2>3, AnswerCeiling, CeilingStep
  <1> QED
    BY <1>1, <1>2, <1>3, <1>4, <1>5 DEF RoleHandlers

\* A step that only moves request q along, granting nothing new.
LEMMA AdvanceCeiling ==
  ASSUME TypeOK, Ceiling, NEW q \in Reqs, NEW x \in Request,
         req' = [req EXCEPT ![q] = x], UNCHANGED <<db, conferred>>,
         x.access = req[q].access, x.isSuper = req[q].isSuper,
         x.pc # "updating",
         x.pc \in {"loading", "counting", "clearing", "assigning"} =>
           Within(x.ids, conferred)
  PROVE  Ceiling'
  <1>1. req'[q] = x /\ \A p \in Reqs \ {q} : req'[p] = req[p]
    BY DEF TypeOK
  <1>2. RequestBound(req[q])
    BY DEF Ceiling
  <1>3. RequestBound(req[q])'
    BY <1>1, <1>2 DEF RequestBound, Within, db
  <1> QED
    BY <1>1, <1>3, CeilingStep DEF Carried, db

LEMMA UserHandlersCeiling ==
  ASSUME TypeOK, Ceiling, NEW q \in Reqs, UserHandlers(q)
  PROVE  Ceiling'
  <1>0. /\ req[q] \in Request /\ RequestBound(req[q]) /\ Shape(req[q])
        /\ {"roles", "active"} \subseteq Ops
        /\ {"loading", "counting", "clearing", "assigning",
            "countingActive", "activating"} \subseteq Pcs
    BY DEF TypeOK, Ceiling, Ops, Pcs
  <1>a. ASSUME NEW result, Answer(q, result), UNCHANGED <<db, conferred>>
        PROVE  Ceiling'
    BY <1>a, AnswerCeiling, CeilingStep DEF db
  <1>1. ASSUME NEW t \in Users, NEW ids \in SUBSET RoleIds,
               SetUserRolesResolve(q, t, ids)
        PROVE  Ceiling'
    <2> DEFINE x == [req[q] EXCEPT !.pc = "loading", !.op = "roles",
                                   !.target = t, !.ids = ids]
    <2>1. CASE \E result : Refuse(q, result)
      BY <2>1, RefuseCeiling
    <2>2. CASE /\ MayGrant(q, UnionPerms(ids))
               /\ req' = [req EXCEPT ![q] = x]
               /\ UNCHANGED <<db, conferred>>
      <3>1. /\ x \in Request /\ x.pc = "loading" /\ x.ids = ids
            /\ x.access = req[q].access /\ x.isSuper = req[q].isSuper
        BY <1>0 DEF Request
      <3>2. UnionPerms(ids) \subseteq conferred
        BY <1>0, <2>2 DEF MayGrant, RequestBound
      <3>3. Within(ids, conferred)
        BY <3>2 DEF UnionPerms, Within
      <3> QED
        BY <2>2, <3>1, <3>3, AdvanceCeiling
    <2> QED
      BY <1>1, <2>1, <2>2 DEF SetUserRolesResolve
  <1>2. ASSUME SetUserRolesLoad(q) PROVE Ceiling'
    <2> DEFINE before == userRoles[req[q].target]
    <2>1. before \subseteq RoleIds
      BY <1>0, <1>2 DEF SetUserRolesLoad, Shape, TypeOK
    <2>2. CASE Answer(q, "forbidden")
      BY <1>2, <1>a, <2>2 DEF SetUserRolesLoad
    <2>3. ASSUME NEW pc \in {"counting", "clearing"},
                 req' = [req EXCEPT ![q] = [req[q] EXCEPT !.pc = pc,
                                                          !.before = before]]
          PROVE  Ceiling'
      <3> DEFINE x == [req[q] EXCEPT !.pc = pc, !.before = before]
      <3>1. /\ x \in Request /\ x.pc = pc /\ x.ids = req[q].ids
            /\ x.access = req[q].access /\ x.isSuper = req[q].isSuper
        BY <1>0, <2>1 DEF Request
      <3>2. Within(req[q].ids, conferred)
        BY <1>0, <1>2 DEF SetUserRolesLoad, RequestBound
      <3> QED
        BY <1>2, <2>3, <3>1, <3>2, AdvanceCeiling DEF SetUserRolesLoad
    <2> QED
      BY <1>2, <2>2, <2>3 DEF SetUserRolesLoad
  <1>3. ASSUME SetUserRolesCount(q) PROVE Ceiling'
    <2>1. CASE Answer(q, "last_admin")
      BY <1>3, <1>a, <2>1 DEF SetUserRolesCount
    <2>2. CASE req' = [req EXCEPT ![q].pc = "clearing"]
      <3> DEFINE x == [req[q] EXCEPT !.pc = "clearing"]
      <3>1. /\ x \in Request /\ x.pc = "clearing" /\ x.ids = req[q].ids
            /\ x.access = req[q].access /\ x.isSuper = req[q].isSuper
        BY <1>0 DEF Request
      <3>2. Within(req[q].ids, conferred)
        BY <1>0, <1>3 DEF SetUserRolesCount, RequestBound
      <3> QED
        BY <1>3, <2>2, <3>1, <3>2, AdvanceCeiling DEF SetUserRolesCount
    <2> QED
      BY <1>3, <2>1, <2>2 DEF SetUserRolesCount
  <1>4. ASSUME SetUserRolesClear(q) PROVE Ceiling'
    <2> DEFINE x == [req[q] EXCEPT !.pc = "assigning",
                                   !.rows = userRoles[req[q].target]]
    <2>1. userRoles[req[q].target] \subseteq RoleIds
      BY <1>0, <1>4 DEF SetUserRolesClear, Shape, TypeOK
    <2>2. /\ x \in Request /\ x.pc = "assigning" /\ x.ids = req[q].ids
          /\ x.access = req[q].access /\ x.isSuper = req[q].isSuper
      BY <1>0, <2>1 DEF Request
    <2>3. Within(req[q].ids, conferred)
      BY <1>0, <1>4 DEF SetUserRolesClear, RequestBound
    <2> QED
      BY <1>4, <2>2, <2>3, AdvanceCeiling DEF SetUserRolesClear
  <1>5. ASSUME SetUserRolesAssign(q) PROVE Ceiling'
    <2> DEFINE t == req[q].target
               ids == req[q].ids
               kept == userRoles[t] \ req[q].rows
    <2>1. CASE Refuse(q, "conflict")
      BY <2>1, RefuseCeiling
    <2>2. CASE /\ userRoles' = [userRoles EXCEPT ![t] = kept \cup ids]
               /\ req' = [p \in Reqs |->
                       IF p = q
                       THEN Answered(req[p], "ok")
                       ELSE IF req[p].pc = "assigning" /\ req[p].target = t
                       THEN [req[p] EXCEPT !.rows = @ \ req[q].rows]
                       ELSE req[p]]
               /\ UNCHANGED <<registered, active, superuser, roleState, rolePerms,
                              conferred>>
      <3>1. Within(ids, conferred)
        BY <1>0, <1>5 DEF SetUserRolesAssign, RequestBound
      <3>2. \A u \in Callers : \A r \in userRoles'[u] :
              r \in userRoles[u] \/ rolePerms'[r] \subseteq conferred'
        BY <2>2, <3>1, RbacAssumption DEF Within, TypeOK
      <3>3. req'[q] = Answered(req[q], "ok")
        BY <2>2
      <3>4. RequestBound(req[q])'
        BY <1>0, <3>3, AnsweredBound
      <3>5. ASSUME NEW p \in Reqs \ {q} PROVE Carried(req'[p]) = Carried(req[p])
        <4>1. req[p] \in Request
          BY DEF TypeOK
        <4>2. CASE req'[p] = req[p]
          BY <4>2
        <4>3. CASE req'[p] = [req[p] EXCEPT !.rows = @ \ req[q].rows]
          BY <4>1, <4>3 DEF Carried, Request
        <4> QED
          BY <2>2, <4>2, <4>3
      <3> QED
        BY <2>2, <3>2, <3>4, <3>5, CeilingStep
    <2> QED
      BY <1>5, <2>1, <2>2 DEF SetUserRolesAssign
  <1>6. ASSUME NEW t \in Users, NEW activate \in BOOLEAN,
               SetUserActiveLoad(q, t, activate)
        PROVE  Ceiling'
    <2>1. CASE Refuse(q, "invalid")
      BY <2>1, RefuseCeiling
    <2>2. ASSUME NEW pc \in {"countingActive", "activating"},
                 req' = [req EXCEPT ![q] =
                           [req[q] EXCEPT !.pc = pc, !.op = "active", !.target = t,
                                          !.activate = activate]],
                 UNCHANGED <<db, conferred>>
          PROVE  Ceiling'
      <3> DEFINE x == [req[q] EXCEPT !.pc = pc, !.op = "active", !.target = t,
                                     !.activate = activate]
      <3>1. /\ x \in Request /\ x.pc = pc
            /\ x.access = req[q].access /\ x.isSuper = req[q].isSuper
        BY <1>0 DEF Request
      <3> QED
        BY <2>2, <3>1, AdvanceCeiling
    <2> QED
      BY <1>6, <2>1, <2>2 DEF SetUserActiveLoad
  <1>7. ASSUME SetUserActiveCount(q) PROVE Ceiling'
    <2>1. CASE Answer(q, "last_admin")
      BY <1>7, <1>a, <2>1 DEF SetUserActiveCount
    <2>2. CASE req' = [req EXCEPT ![q].pc = "activating"]
      <3> DEFINE x == [req[q] EXCEPT !.pc = "activating"]
      <3>1. /\ x \in Request /\ x.pc = "activating"
            /\ x.access = req[q].access /\ x.isSuper = req[q].isSuper
        BY <1>0 DEF Request
      <3> QED
        BY <1>7, <2>2, <3>1, AdvanceCeiling DEF SetUserActiveCount
    <2> QED
      BY <1>7, <2>1, <2>2 DEF SetUserActiveCount
  <1>8. ASSUME SetUserActiveWrite(q) PROVE Ceiling'
    <2>1. \E result : Answer(q, result)
      BY <1>8 DEF SetUserActiveWrite, Refuse
    <2>2. UNCHANGED <<superuser, rolePerms, userRoles, conferred>>
      BY <1>8 DEF SetUserActiveWrite, Refuse, db
    <2> QED
      BY <2>1, <2>2, AnswerCeiling, CeilingStep
  <1> QED
    BY <1>1, <1>2, <1>3, <1>4, <1>5, <1>6, <1>7, <1>8 DEF UserHandlers

\* What the CLI gives to a caller raises the ceiling by as much.
LEMMA OutsideCeiling ==
  ASSUME TypeOK, Ceiling, (\E u \in Users : Register(u)) \/ Cli
  PROVE  Ceiling'
  <1>1. conferred \subseteq conferred' /\ UNCHANGED <<rolePerms, req>>
    BY DEF Register, Cli, SetSuperuser, GrantRoleByKey, Confer
  <1>2. \A q \in Reqs : RequestBound(req[q])'
    BY <1>1 DEF Ceiling, RequestBound, Within
  <1>3. ASSUME NEW u \in Callers, superuser'[u] PROVE Catalog \subseteq conferred'
    <2>1. CASE superuser[u]
      BY <1>1, <2>1 DEF Ceiling
    <2>2. CASE ~superuser[u]
      BY <1>3, <2>2, RbacAssumption
      DEF Register, Cli, SetSuperuser, GrantRoleByKey, Confer, TypeOK
    <2> QED
      BY <2>1, <2>2
  <1>4. ASSUME NEW u \in Callers, NEW r \in userRoles'[u]
        PROVE  rolePerms'[r] \subseteq conferred'
    <2>1. CASE r \in userRoles[u]
      BY <1>1, <2>1 DEF Ceiling, Within
    <2>2. CASE r \notin userRoles[u]
      BY <1>1, <1>4, <2>2, RbacAssumption
      DEF Register, Cli, SetSuperuser, GrantRoleByKey, Confer, TypeOK
    <2> QED
      BY <2>1, <2>2
  <1> QED
    BY <1>2, <1>3, <1>4 DEF Ceiling, Within

LEMMA NextCeiling == TypeOK /\ Ceiling /\ [Next]_vars => Ceiling'
  <1> SUFFICES ASSUME TypeOK, Ceiling, [Next]_vars PROVE Ceiling'
    OBVIOUS
  <1>1. CASE UNCHANGED vars
    BY <1>1 DEF vars, db, Ceiling, RequestBound, Within
  <1>2. CASE Next
    BY <1>2, MiddlewareCeiling, RoleHandlersCeiling, UserHandlersCeiling,
       OutsideCeiling
    DEF Next
  <1> QED
    BY <1>1, <1>2

LEMMA CeilingBoundsAuthority == Ceiling => NoEscalation
  BY DEF Ceiling, Within, NoEscalation, Authority, AccessOf, UnionPerms

\* However the callers' requests interleave, no caller comes to hold a permission
\* that was not given to one of them from outside the API.
THEOREM EscalationImpossible == Spec => []NoEscalation
  <1>1. Spec => []TypeOK
    BY TypeCorrect
  <1>2. Spec => []Ceiling
    BY <1>1, InitCeiling, NextCeiling, PTL DEF Spec
  <1> QED
    BY <1>2, CeilingBoundsAuthority, PTL

-----------------------------------------------------------------------------
(* The role table. *)

roleTables == <<roleState, rolePerms, userRoles>>

\* Five actions write the role tables; every other step leaves them alone.
LEMMA RoleWriters ==
  ASSUME Next, roleTables' # roleTables
  PROVE  \/ \E q \in Reqs, r \in RoleIds, perms \in SUBSET Perms :
              CreateRole(q, r, perms)
         \/ \E q \in Reqs :
              UpdateRoleWrite(q) \/ DeleteRoleWrite(q) \/ SetUserRolesAssign(q)
         \/ \E u \in CliUsers, r \in RoleIds : GrantRoleByKey(u, r)
  <1> USE DEF db, roleTables
  <1>1. ASSUME NEW q \in Reqs, Middleware(q) PROVE UNCHANGED roleTables
    BY <1>1 DEF Middleware, Authenticate, Authorize, Forbid, Refuse, Finish
  <1>2. ASSUME NEW q \in Reqs, RoleHandlers(q),
               \A r \in RoleIds, perms \in SUBSET Perms : ~CreateRole(q, r, perms),
               ~UpdateRoleWrite(q), ~DeleteRoleWrite(q)
        PROVE  UNCHANGED roleTables
    BY <1>2 DEF RoleHandlers, UpdateRoleRead, DeleteRoleRead, Refuse
  <1>3. ASSUME NEW q \in Reqs, UserHandlers(q), ~SetUserRolesAssign(q)
        PROVE  UNCHANGED roleTables
    BY <1>3 DEF UserHandlers, SetUserRolesResolve, SetUserRolesLoad,
       SetUserRolesCount, SetUserRolesClear, SetUserActiveLoad,
       SetUserActiveCount, SetUserActiveWrite, Refuse
  <1>4. ASSUME NEW u \in Users, Register(u) PROVE UNCHANGED roleTables
    BY <1>4 DEF Register
  <1>5. ASSUME Cli, \A u \in CliUsers, r \in RoleIds : ~GrantRoleByKey(u, r)
        PROVE  UNCHANGED roleTables
    BY <1>5 DEF Cli, SetSuperuser
  <1> QED
    BY <1>1, <1>2, <1>3, <1>4, <1>5 DEF Next

LEMMA NextHeldRolesExist ==
  TypeOK /\ HeldRolesExist /\ [Next]_vars => HeldRolesExist'
  <1> SUFFICES ASSUME TypeOK, HeldRolesExist, [Next]_vars PROVE HeldRolesExist'
    OBVIOUS
  <1>0. CASE UNCHANGED roleTables
    BY <1>0 DEF roleTables, HeldRolesExist, Live
  <1>1. ASSUME NEW q \in Reqs, NEW r \in RoleIds, NEW perms \in SUBSET Perms,
               CreateRole(q, r, perms), ~UNCHANGED roleTables
        PROVE  HeldRolesExist'
    BY <1>1 DEF CreateRole, Refuse, db, roleTables, HeldRolesExist, Live, TypeOK
  <1>2. ASSUME NEW q \in Reqs, UpdateRoleWrite(q) PROVE HeldRolesExist'
    BY <1>2 DEF UpdateRoleWrite, Refuse, db, HeldRolesExist, Live, TypeOK
  <1>3. ASSUME NEW q \in Reqs, DeleteRoleWrite(q) PROVE HeldRolesExist'
    BY <1>3 DEF DeleteRoleWrite, Refuse, db, HeldRolesExist, Live, TypeOK
  <1>4. ASSUME NEW q \in Reqs, SetUserRolesAssign(q) PROVE HeldRolesExist'
    <2> DEFINE t == req[q].target
               ids == req[q].ids
    <2>1. roleState' = roleState
      BY <1>4 DEF SetUserRolesAssign, Refuse, db
    <2>2. CASE UNCHANGED userRoles
      BY <2>1, <2>2 DEF HeldRolesExist, Live
    <2>3. CASE /\ ids \subseteq Live
               /\ userRoles' = [userRoles EXCEPT ![t] =
                                  (userRoles[t] \ req[q].rows) \cup ids]
      BY <2>1, <2>3 DEF HeldRolesExist, Live, TypeOK
    <2> QED
      BY <1>4, <2>2, <2>3 DEF SetUserRolesAssign, Refuse, db
  <1>5. ASSUME NEW u \in CliUsers, NEW r \in RoleIds, GrantRoleByKey(u, r)
        PROVE  HeldRolesExist'
    BY <1>5 DEF GrantRoleByKey, HeldRolesExist, Live, TypeOK
  <1> QED
    BY <1>0, <1>1, <1>2, <1>3, <1>4, <1>5, RoleWriters DEF vars, db, roleTables

\* A role somebody holds exists, whatever is assigned while it is being deleted.
THEOREM HeldRolesAlwaysExist == Spec => []HeldRolesExist
  <1>1. Init => HeldRolesExist
    BY RbacAssumption DEF Init, HeldRolesExist, Live
  <1> QED
    BY <1>1, TypeCorrect, NextHeldRolesExist, PTL DEF Spec

LEMMA NextSystemRolesIntact ==
  TypeOK /\ SystemRolesIntact /\ [Next]_vars => SystemRolesIntact'
  <1> SUFFICES ASSUME TypeOK, SystemRolesIntact, [Next]_vars
               PROVE  SystemRolesIntact'
    OBVIOUS
  <1> USE RbacAssumption
  <1>0. CASE UNCHANGED roleTables
    BY <1>0 DEF roleTables, SystemRolesIntact
  <1>1. ASSUME NEW q \in Reqs, NEW r \in RoleIds, NEW perms \in SUBSET Perms,
               CreateRole(q, r, perms), ~UNCHANGED roleTables
        PROVE  SystemRolesIntact'
    BY <1>1 DEF CreateRole, Refuse, db, roleTables, SystemRolesIntact, TypeOK
  <1>2. ASSUME NEW q \in Reqs, UpdateRoleWrite(q) \/ DeleteRoleWrite(q)
        PROVE  SystemRolesIntact'
    <2>1. req[q].role \in RoleIds \ SystemRoles
      BY <1>2 DEF UpdateRoleWrite, DeleteRoleWrite, TypeOK, Shape
    <2> QED
      BY <1>2, <2>1 DEF UpdateRoleWrite, DeleteRoleWrite, Refuse, db, SystemRolesIntact,
             TypeOK
  <1>3. ASSUME NEW q \in Reqs, SetUserRolesAssign(q) PROVE SystemRolesIntact'
    BY <1>3 DEF SetUserRolesAssign, Refuse, db, SystemRolesIntact
  <1>4. ASSUME NEW u \in CliUsers, NEW r \in RoleIds, GrantRoleByKey(u, r)
        PROVE  SystemRolesIntact'
    BY <1>4 DEF GrantRoleByKey, SystemRolesIntact
  <1> QED
    BY <1>0, <1>1, <1>2, <1>3, <1>4, RoleWriters DEF vars, db, roleTables

\* The admin role keeps every permission it was shipped with.
THEOREM SystemRolesStayIntact == Spec => []SystemRolesIntact
  <1>1. Init => SystemRolesIntact
    BY RbacAssumption DEF Init, SystemRolesIntact
  <1> QED
    BY <1>1, TypeCorrect, NextSystemRolesIntact, PTL DEF Spec
=============================================================================
