--------------------------- MODULE RbacKeysProofs ---------------------------
(***************************************************************************)
(* Theorems about RbacKeys, for any users, roles, permissions, keys and    *)
(* number of requests.  A step of Rbac's own is dealt with by the lemmas   *)
(* of RbacProofs; what is left is what keys add.                           *)
(***************************************************************************)
EXTENDS RbacKeys, RbacProofs

-----------------------------------------------------------------------------
(* What keys add to Ceiling. *)

\* A request that has a caller's row in hand has one of the callers'.
Acting(x) == x.pc \in {"authenticated", "authorized"} => x.actor \in Callers

\* A key was minted by a caller, with permissions that had been conferred.
KeysBound ==
    /\ \A k \in KeyIds : /\ keys[k].perms \subseteq conferred
                         /\ keys[k].state # "unused" => keys[k].owner \in Callers
    /\ \A q \in Reqs : Acting(req[q])

KeysInv == KeysTypeOK /\ Ceiling /\ KeysBound

LEMMA InitKeys == KeysInit => KeysInv
  <1> SUFFICES ASSUME KeysInit PROVE KeysInv
    OBVIOUS
  <1>1. TypeOK /\ Ceiling
    BY InitType, InitCeiling DEF KeysInit
  <1>2. UnusedKey \in KeyRow
    BY DEF UnusedKey, KeyRow
  <1>3. KeysTypeOK
    BY <1>1, <1>2 DEF KeysInit, KeysTypeOK
  <1>4. KeysBound
    BY DEF KeysInit, Init, KeysBound, Acting, UnusedKey, Idle
  <1> QED
    BY <1>1, <1>3, <1>4 DEF KeysInv

-----------------------------------------------------------------------------
(* Steps of Rbac. *)

LEMMA RbacStepIsNext == RbacStep => Next
  BY DEF RbacStep, SessionMiddleware, Next, Middleware

\* Nothing takes back what was conferred.
LEMMA ConferredGrows == RbacStep => conferred \subseteq conferred'
  <1> SUFFICES ASSUME RbacStep PROVE conferred \subseteq conferred'
    OBVIOUS
  <1> USE DEF db, Refuse
  <1>1. ASSUME NEW q \in Reqs, SessionMiddleware(q)
        PROVE  UNCHANGED conferred
    BY <1>1 DEF SessionMiddleware, Authenticate, Authorize, Forbid, Finish
  <1>2. ASSUME NEW q \in Reqs, RoleHandlers(q)
        PROVE  UNCHANGED conferred
    BY <1>2 DEF RoleHandlers, CreateRole, UpdateRoleRead, UpdateRoleWrite,
                DeleteRoleRead, DeleteRoleWrite
  <1>3. ASSUME NEW q \in Reqs, UserHandlers(q)
        PROVE  UNCHANGED conferred
    BY <1>3 DEF UserHandlers, SetUserRolesResolve, SetUserRolesLoad,
                SetUserRolesCount, SetUserRolesClear, SetUserRolesAssign,
                SetUserActiveLoad, SetUserActiveCount, SetUserActiveWrite
  <1>4. ASSUME NEW u \in Users, Register(u)
        PROVE  UNCHANGED conferred
    BY <1>4 DEF Register
  <1>5. ASSUME Cli
        PROVE  conferred \subseteq conferred'
    BY <1>5 DEF Cli, SetSuperuser, GrantRoleByKey, Confer
  <1> QED
    BY <1>1, <1>2, <1>3, <1>4, <1>5 DEF RbacStep

\* A slot is only given an actor by Authenticate.
LEMMA SlotActing ==
  ASSUME TypeOK, \A p \in Reqs : Acting(req[p]),
         NEW q \in Reqs, NEW x, Acting(x), req' = [req EXCEPT ![q] = x]
  PROVE  \A p \in Reqs : Acting(req'[p])
  BY DEF TypeOK

LEMMA AnswerActing ==
  ASSUME TypeOK, \A p \in Reqs : Acting(req[p]),
         NEW q \in Reqs, NEW result, Answer(q, result)
  PROVE  \A p \in Reqs : Acting(req'[p])
  <1>1. req[q] \in Request
    BY DEF TypeOK
  <1>2. Acting(Answered(req[q], result))
    BY <1>1, AnsweredCarries DEF Acting
  <1> QED
    BY <1>2, SlotActing DEF Answer

LEMMA MiddlewareActing ==
  ASSUME TypeOK, \A p \in Reqs : Acting(req[p]), NEW q \in Reqs,
         SessionMiddleware(q)
  PROVE  \A p \in Reqs : Acting(req'[p])
  <1>0. req[q] \in Request
    BY DEF TypeOK
  <1>1. ASSUME NEW u \in Callers, Authenticate(q, u)
        PROVE  \A p \in Reqs : Acting(req'[p])
    <2> DEFINE x == [Idle EXCEPT !.pc = "authenticated", !.actor = u,
                                 !.isSuper = superuser[u]]
    <2>1. Acting(x)
      BY DEF Acting, Idle
    <2>2. req' = [req EXCEPT ![q] = x]
      BY <1>1 DEF Authenticate
    <2> QED
      BY <2>1, <2>2, SlotActing
  <1>2. CASE Authorize(q)
    <2> DEFINE x == [req[q] EXCEPT !.pc = "authorized",
                       !.access = AccessOf(req[q].actor, req[q].isSuper)]
    <2>1. req[q].actor \in Callers
      BY <1>2 DEF Authorize, Acting
    <2>2. Acting(x)
      BY <1>0, <2>1 DEF Acting, Request
    <2>3. req' = [req EXCEPT ![q] = x]
      BY <1>2 DEF Authorize
    <2> QED
      BY <2>2, <2>3, SlotActing
  <1>3. ASSUME NEW p \in RoutePerms, Forbid(q, p)
        PROVE  \A s \in Reqs : Acting(req'[s])
    BY <1>3, AnswerActing DEF Forbid, Refuse
  <1>4. CASE Finish(q)
    <2>1. Acting(Idle)
      BY DEF Acting, Idle
    <2> QED
      BY <1>4, <2>1, SlotActing DEF Finish
  <1> QED
    BY <1>1, <1>2, <1>3, <1>4 DEF SessionMiddleware

LEMMA RoleHandlersActing ==
  ASSUME TypeOK, \A p \in Reqs : Acting(req[p]), NEW q \in Reqs, RoleHandlers(q)
  PROVE  \A p \in Reqs : Acting(req'[p])
  <1> DEFINE Goal == \A p \in Reqs : Acting(req'[p])
  <1> USE DEF Refuse
  <1>0. req[q] \in Request
    BY DEF TypeOK
  <1>1. ASSUME NEW r \in RoleIds, NEW perms \in SUBSET Perms, CreateRole(q, r, perms)
        PROVE  Goal
    <2> DEFINE y == [req[q] EXCEPT !.op = "create", !.role = r]
    <2>1. y \in Request
      BY <1>0 DEF Request, Ops
    <2>2. Acting(Answered(y, "ok"))
      BY <2>1, AnsweredCarries DEF Acting
    <2>3. CASE req' = [req EXCEPT ![q] = Answered(y, "ok")]
      BY <2>2, <2>3, SlotActing
    <2> QED
      BY <1>1, <2>3, AnswerActing DEF CreateRole
  <1>2. ASSUME NEW r \in RoleIds, NEW perms \in SUBSET Perms,
               UpdateRoleRead(q, r, perms)
        PROVE  Goal
    <2> DEFINE x == [req[q] EXCEPT !.pc = "updating", !.op = "update",
                                   !.role = r, !.perms = perms]
    <2>1. Acting(x)
      BY <1>0 DEF Acting, Request
    <2>2. CASE req' = [req EXCEPT ![q] = x]
      BY <2>1, <2>2, SlotActing
    <2> QED
      BY <1>2, <2>2, AnswerActing DEF UpdateRoleRead
  <1>3. CASE UpdateRoleWrite(q)
    BY <1>3, AnswerActing DEF UpdateRoleWrite
  <1>4. ASSUME NEW r \in RoleIds, DeleteRoleRead(q, r)
        PROVE  Goal
    <2> DEFINE x == [req[q] EXCEPT !.pc = "deleting", !.op = "delete", !.role = r]
    <2>1. Acting(x)
      BY <1>0 DEF Acting, Request
    <2>2. CASE req' = [req EXCEPT ![q] = x]
      BY <2>1, <2>2, SlotActing
    <2> QED
      BY <1>4, <2>2, AnswerActing DEF DeleteRoleRead
  <1>5. CASE DeleteRoleWrite(q)
    BY <1>5, AnswerActing DEF DeleteRoleWrite
  <1> QED
    BY <1>1, <1>2, <1>3, <1>4, <1>5 DEF RoleHandlers

LEMMA AssignActing ==
  ASSUME TypeOK, \A p \in Reqs : Acting(req[p]), NEW q \in Reqs,
         SetUserRolesAssign(q)
  PROVE  \A p \in Reqs : Acting(req'[p])
  <1>1. CASE Refuse(q, "conflict")
    BY <1>1, AnswerActing DEF Refuse
  <1>2. CASE ~Refuse(q, "conflict")
    <2> SUFFICES ASSUME NEW p \in Reqs PROVE Acting(req'[p])
      OBVIOUS
    <2>1. req[p] \in Request
      BY DEF TypeOK
    <2>2. Acting(Answered(req[p], "ok"))
      BY <2>1, AnsweredCarries DEF Acting
    <2>3. Acting([req[p] EXCEPT !.rows = @ \ req[q].rows])
      BY <2>1 DEF Acting, Request
    <2> QED
      BY <1>2, <2>2, <2>3 DEF SetUserRolesAssign
  <1> QED
    BY <1>1, <1>2

LEMMA UserHandlersActing ==
  ASSUME TypeOK, \A p \in Reqs : Acting(req[p]), NEW q \in Reqs, UserHandlers(q)
  PROVE  \A p \in Reqs : Acting(req'[p])
  <1> DEFINE Goal == \A p \in Reqs : Acting(req'[p])
  <1> USE DEF Refuse
  <1>0. req[q] \in Request
    BY DEF TypeOK
  <1>1. ASSUME NEW t \in Users, NEW ids \in SUBSET RoleIds,
               SetUserRolesResolve(q, t, ids)
        PROVE  Goal
    <2> DEFINE x == [req[q] EXCEPT !.pc = "loading", !.op = "roles",
                                   !.target = t, !.ids = ids]
    <2>1. Acting(x)
      BY <1>0 DEF Acting, Request
    <2>2. CASE req' = [req EXCEPT ![q] = x]
      BY <2>1, <2>2, SlotActing
    <2> QED
      BY <1>1, <2>2, AnswerActing DEF SetUserRolesResolve
  <1>2. CASE SetUserRolesLoad(q)
    <2> DEFINE x(pc) == [req[q] EXCEPT !.pc = pc, !.before = userRoles[req[q].target]]
    <2>1. ASSUME NEW pc \in {"counting", "clearing"} PROVE Acting(x(pc))
      BY <1>0 DEF Acting, Request
    <2>2. ASSUME NEW pc \in {"counting", "clearing"}, req' = [req EXCEPT ![q] = x(pc)]
          PROVE  Goal
      BY <2>1, <2>2, SlotActing
    <2>3. \/ Answer(q, "forbidden")
          \/ \E pc \in {"counting", "clearing"} : req' = [req EXCEPT ![q] = x(pc)]
      BY <1>2 DEF SetUserRolesLoad
    <2> QED
      BY <2>2, <2>3, AnswerActing
  <1>3. CASE SetUserRolesCount(q)
    <2> DEFINE x == [req[q] EXCEPT !.pc = "clearing"]
    <2>1. Acting(x)
      BY <1>0 DEF Acting, Request
    <2>2. CASE req' = [req EXCEPT ![q] = x]
      BY <2>1, <2>2, SlotActing
    <2> QED
      BY <1>3, <2>2, AnswerActing DEF SetUserRolesCount
  <1>4. CASE SetUserRolesClear(q)
    <2> DEFINE x == [req[q] EXCEPT !.pc = "assigning",
                                   !.rows = userRoles[req[q].target]]
    <2>1. Acting(x)
      BY <1>0 DEF Acting, Request
    <2>2. req' = [req EXCEPT ![q] = x]
      BY <1>4 DEF SetUserRolesClear
    <2> QED
      BY <2>1, <2>2, SlotActing
  <1>5. CASE SetUserRolesAssign(q)
    BY <1>5, AssignActing
  <1>6. ASSUME NEW t \in Users, NEW activate \in BOOLEAN,
               SetUserActiveLoad(q, t, activate)
        PROVE  Goal
    <2> DEFINE x(pc) == [req[q] EXCEPT !.pc = pc, !.op = "active", !.target = t,
                                       !.activate = activate]
    <2>1. ASSUME NEW pc \in {"countingActive", "activating"} PROVE Acting(x(pc))
      BY <1>0 DEF Acting, Request
    <2>2. ASSUME NEW pc \in {"countingActive", "activating"},
                 req' = [req EXCEPT ![q] = x(pc)]
          PROVE  Goal
      BY <2>1, <2>2, SlotActing
    <2>3. \/ Answer(q, "invalid")
          \/ \E pc \in {"countingActive", "activating"} :
               req' = [req EXCEPT ![q] = x(pc)]
      BY <1>6 DEF SetUserActiveLoad
    <2> QED
      BY <2>2, <2>3, AnswerActing
  <1>7. CASE SetUserActiveCount(q)
    <2> DEFINE x == [req[q] EXCEPT !.pc = "activating"]
    <2>1. Acting(x)
      BY <1>0 DEF Acting, Request
    <2>2. CASE req' = [req EXCEPT ![q] = x]
      BY <2>1, <2>2, SlotActing
    <2> QED
      BY <1>7, <2>2, AnswerActing DEF SetUserActiveCount
  <1>8. CASE SetUserActiveWrite(q)
    BY <1>8, AnswerActing DEF SetUserActiveWrite
  <1> QED
    BY <1>1, <1>2, <1>3, <1>4, <1>5, <1>6, <1>7, <1>8 DEF UserHandlers

LEMMA ReleaseType ==
  ASSUME via \in [Reqs -> KeyIds \cup {NoKey}], Release
  PROVE  via' \in [Reqs -> KeyIds \cup {NoKey}]
  BY DEF Release

LEMMA RbacStepInv ==
  ASSUME KeysInv, RbacStep
  PROVE  KeysInv'
  <1>1. Next /\ Release /\ UNCHANGED keys
    BY RbacStepIsNext DEF RbacStep
  <1>2. TypeOK' /\ Ceiling'
    BY <1>1, NextType, NextCeiling DEF KeysInv, KeysTypeOK
  <1>3. KeysTypeOK'
    BY <1>1, <1>2, ReleaseType DEF KeysInv, KeysTypeOK
  <1>4. \A q \in Reqs : Acting(req'[q])
    <2>1. TypeOK /\ \A q \in Reqs : Acting(req[q])
      BY DEF KeysInv, KeysTypeOK, KeysBound
    <2>2. CASE \E q \in Reqs :
                 SessionMiddleware(q) \/ RoleHandlers(q) \/ UserHandlers(q)
      BY <2>1, <2>2, MiddlewareActing, RoleHandlersActing, UserHandlersActing
    <2>3. CASE (\E u \in Users : Register(u)) \/ Cli
      BY <2>1, <2>3 DEF Register, Cli, SetSuperuser, GrantRoleByKey
    <2> QED
      BY <2>2, <2>3 DEF RbacStep
  <1>5. KeysBound'
    BY <1>1, <1>4, ConferredGrows DEF KeysInv, KeysBound, Acting
  <1> QED
    BY <1>2, <1>3, <1>5 DEF KeysInv

-----------------------------------------------------------------------------
(* Steps of this module. *)

\* Of Rbac's tables and of the keys nothing changes, and one slot becomes x.
LEMMA SlotInv ==
  ASSUME KeysInv, NEW q \in Reqs, NEW x \in Request, Shape(x), Acting(x),
         RequestBound(x),
         req' = [req EXCEPT ![q] = x], UNCHANGED <<db, conferred, keys>>,
         via' \in [Reqs -> KeyIds \cup {NoKey}]
  PROVE  KeysInv'
  <1> USE DEF db
  <1>0. TypeOK /\ Ceiling /\ KeysBound
    BY DEF KeysInv, KeysTypeOK
  <1>1. TypeOK'
    BY <1>0, SlotType DEF TypeOK
  <1>2. \A p \in Reqs : Acting(req'[p])
    BY <1>0, SlotActing DEF KeysBound
  <1>3. \A p \in Reqs : req'[p] = IF p = q THEN x ELSE req[p]
    BY <1>0 DEF TypeOK
  <1>4. Ceiling'
    BY <1>0, <1>3 DEF Ceiling, RequestBound, Within
  <1>5. KeysTypeOK'
    BY <1>1 DEF KeysInv, KeysTypeOK
  <1>6. KeysBound'
    BY <1>0, <1>2 DEF KeysBound, Acting
  <1> QED
    BY <1>4, <1>5, <1>6 DEF KeysInv

\* A request is answered, which may write keys whose rows are bounded.
RowsBound(rows) ==
    /\ rows \in [KeyIds -> KeyRow]
    /\ \A k \in KeyIds : /\ rows[k].perms \subseteq conferred
                         /\ rows[k].state # "unused" => rows[k].owner \in Callers

LEMMA RowsAreBound == KeysInv => RowsBound(keys)
  BY DEF KeysInv, KeysTypeOK, KeysBound, RowsBound

LEMMA AnswerInv ==
  ASSUME KeysInv, NEW q \in Reqs, NEW result \in Results, Answer(q, result),
         UNCHANGED <<db, conferred>>, Release, RowsBound(keys')
  PROVE  KeysInv'
  <1>0. TypeOK /\ Ceiling /\ KeysBound
    BY DEF KeysInv, KeysTypeOK
  <1>1. TypeOK' /\ Ceiling'
    BY <1>0, RefuseType, RefuseCeiling DEF Refuse
  <1>2. KeysTypeOK'
    BY <1>1, ReleaseType DEF KeysInv, KeysTypeOK, RowsBound
  <1>3. \A p \in Reqs : Acting(req'[p])
    BY <1>0, AnswerActing DEF KeysBound
  <1>4. KeysBound'
    BY <1>3 DEF KeysBound, RowsBound, Acting
  <1> QED
    BY <1>1, <1>2, <1>4 DEF KeysInv

LEMMA AuthenticateInv ==
  ASSUME KeysInv, NEW q \in Reqs, NEW k \in KeyIds, AuthenticateAPIKey(q, k)
  PROVE  KeysInv'
  <1> DEFINE x == [Idle EXCEPT !.pc = "authenticated", !.actor = keys[k].owner]
  <1>1. keys[k].owner \in Callers /\ Callers \subseteq Users
    BY RbacAssumption DEF AuthenticateAPIKey, Authenticates, KeysInv, KeysBound
  <1>2. x \in Request /\ Shape(x) /\ Acting(x) /\ RequestBound(x)
    BY <1>1 DEF Idle, Request, NoAccess, Access, Pcs, Ops, Results, Shape, Acting,
                RequestBound
  <1>3. req' = [req EXCEPT ![q] = x] /\ UNCHANGED <<db, conferred, keys>>
    BY DEF AuthenticateAPIKey
  <1>4. via' \in [Reqs -> KeyIds \cup {NoKey}]
    BY DEF AuthenticateAPIKey, KeysInv, KeysTypeOK
  <1> QED
    BY <1>2, <1>3, <1>4, SlotInv

LEMMA AuthorizeInv ==
  ASSUME KeysInv, NEW q \in Reqs, AuthorizeKey(q)
  PROVE  KeysInv'
  <1> DEFINE a == [perms |-> keys[via[q]].perms, roles |-> {},
                   viaSuperuser |-> FALSE]
             x == [req[q] EXCEPT !.pc = "authorized",
                                 !.isSuper = superuser[req[q].actor],
                                 !.access = a]
  <1>0. /\ req[q] \in Request /\ Acting(req[q])
        /\ via[q] \in KeyIds
        /\ superuser \in [Users -> BOOLEAN]
    BY DEF KeysInv, KeysTypeOK, KeysBound, TypeOK, AuthorizeKey, EnterWithKey
  <1>1. req[q].actor \in Callers /\ req[q].actor \in Users
    BY <1>0, RbacAssumption DEF Acting, AuthorizeKey, EnterWithKey
  <1>2. a \in Access /\ a.perms \subseteq conferred
    BY <1>0 DEF KeysInv, KeysTypeOK, KeysBound, KeyRow, Access
  <1>3. superuser[req[q].actor] \in BOOLEAN
    BY <1>0, <1>1
  <1>4. x \in Request /\ x.pc = "authorized" /\ x.actor = req[q].actor
        /\ x.isSuper = superuser[req[q].actor] /\ x.access = a
    BY <1>0, <1>2, <1>3 DEF Request, Pcs
  <1>5. Shape(x) /\ Acting(x)
    BY <1>1, <1>4 DEF Shape, Acting
  <1>6. RequestBound(x)
    BY <1>1, <1>2, <1>4 DEF RequestBound, KeysInv, Ceiling
  <1>7. /\ req' = [req EXCEPT ![q] = x] /\ UNCHANGED <<db, conferred, keys>>
        /\ via' \in [Reqs -> KeyIds \cup {NoKey}]
    BY DEF AuthorizeKey, EnterWithKey, KeysInv, KeysTypeOK
  <1> QED
    BY <1>4, <1>5, <1>6, <1>7, SlotInv

\* The new key has what checkEscalation let pass, and the caller as its owner.
LEMMA CreateInv ==
  ASSUME KeysInv, NEW q \in Reqs, NEW k \in KeyIds, NEW perms \in SUBSET Perms,
         CreateAPIKey(q, k, perms), Release
  PROVE  KeysInv'
  <1> DEFINE row == [state |-> "live", owner |-> req[q].actor, perms |-> perms]
  <1>0. {"ok", "invalid", "escalation"} \subseteq Results
    BY DEF Results
  <1>1. CASE UNCHANGED keys /\ (Answer(q, "invalid") \/ Answer(q, "escalation"))
    BY <1>0, <1>1, AnswerInv, RowsAreBound DEF CreateAPIKey
  <1>2. ASSUME MayGrant(q, perms), Answer(q, "ok"),
               keys' = [keys EXCEPT ![k] = row]
        PROVE  KeysInv'
    <2>1. req[q].actor \in Callers /\ req[q].actor \in Users
      BY RbacAssumption DEF KeysInv, KeysBound, Acting, CreateAPIKey, Authorized
    <2>2. perms \subseteq conferred
      BY <1>2 DEF MayGrant, KeysInv, Ceiling, RequestBound
    <2>3. row \in KeyRow
      BY <2>1 DEF KeyRow
    <2>4. RowsBound(keys')
      BY <1>2, <2>1, <2>2, <2>3, RowsAreBound DEF RowsBound
    <2> QED
      BY <1>0, <1>2, <2>4, AnswerInv DEF CreateAPIKey
  <1> QED
    BY <1>1, <1>2 DEF CreateAPIKey, InsertKey

\* A key that leaves its state keeps its owner and its permissions.
LEMMA KeyStateBound ==
  ASSUME KeysInv, NEW k \in KeyIds, NEW state \in {"expired", "revoked"},
         keys[k].state # "unused"
  PROVE  RowsBound([keys EXCEPT ![k].state = state])
  <1> DEFINE rows == [keys EXCEPT ![k].state = state]
  <1>1. RowsBound(keys)
    BY RowsAreBound
  <1>2. rows \in [KeyIds -> KeyRow]
    BY <1>1 DEF RowsBound, KeyRow
  <1>3. \A j \in KeyIds : /\ rows[j].owner = keys[j].owner
                          /\ rows[j].perms = keys[j].perms
                          /\ rows[j].state # "unused" => keys[j].state # "unused"
    BY <1>1 DEF RowsBound, KeyRow
  <1> QED
    BY <1>1, <1>2, <1>3 DEF RowsBound

LEMMA RevokeInv ==
  ASSUME KeysInv, NEW q \in Reqs, NEW k \in KeyIds, RevokeAPIKey(q, k), Release
  PROVE  KeysInv'
  <1>0. {"ok", "not_found"} \subseteq Results
    BY DEF Results
  <1>1. CASE UNCHANGED keys /\ Answer(q, "not_found")
    BY <1>0, <1>1, AnswerInv, RowsAreBound DEF RevokeAPIKey
  <1>2. CASE /\ keys[k].state # "unused" /\ Answer(q, "ok")
             /\ keys' = [keys EXCEPT ![k].state = "revoked"]
    BY <1>0, <1>2, AnswerInv, KeyStateBound DEF RevokeAPIKey
  <1> QED
    BY <1>1, <1>2 DEF RevokeAPIKey

LEMMA ExpireInv ==
  ASSUME KeysInv, NEW k \in KeyIds, ExpireAPIKey(k)
  PROVE  KeysInv'
  <1> USE DEF vars, db
  <1>1. RowsBound(keys')
    BY KeyStateBound DEF ExpireAPIKey
  <1>2. TypeOK' /\ Ceiling'
    BY DEF ExpireAPIKey, KeysInv, KeysTypeOK, TypeOK, Ceiling, RequestBound, Within
  <1> QED
    BY <1>1, <1>2 DEF ExpireAPIKey, KeysInv, KeysTypeOK, KeysBound, RowsBound, Acting

LEMMA NextKeysInv == KeysInv /\ [KeysNext]_keyVars => KeysInv'
  <1> SUFFICES ASSUME KeysInv, [KeysNext]_keyVars PROVE KeysInv'
    OBVIOUS
  <1>1. CASE UNCHANGED keyVars
    BY <1>1 DEF keyVars, vars, db, KeysInv, KeysTypeOK, TypeOK, Ceiling,
                RequestBound, Within, KeysBound, Acting
  <1>2. ASSUME NEW q \in Reqs, KeyMiddleware(q) PROVE KeysInv'
    <2>1. ASSUME NEW p \in {PermAPIKeysCreate, PermAPIKeysDelete},
                 Forbid(q, p), Release, UNCHANGED keys
          PROVE  KeysInv'
      <3>1. "forbidden" \in Results
        BY DEF Results
      <3> QED
        BY <2>1, <3>1, AnswerInv, RowsAreBound DEF Forbid, Refuse
    <2> QED
      BY <1>2, <2>1, AuthenticateInv, AuthorizeInv DEF KeyMiddleware
  <1>3. ASSUME NEW q \in Reqs, KeyHandlers(q) PROVE KeysInv'
    BY <1>3, CreateInv, RevokeInv DEF KeyHandlers
  <1>4. ASSUME NEW k \in KeyIds, ExpireAPIKey(k) PROVE KeysInv'
    BY <1>4, ExpireInv
  <1>5. CASE RbacStep
    BY <1>5, RbacStepInv
  <1> QED
    BY <1>1, <1>2, <1>3, <1>4, <1>5 DEF KeysNext

-----------------------------------------------------------------------------
(* Theorems. *)

LEMMA KeysInvariant == KeysSpec => []KeysInv
  BY InitKeys, NextKeysInv, PTL DEF KeysSpec

\* Every row, every key and every request in flight has its shape, whether it is
\* served with a session or a key (requireAuth, middleware.go).
THEOREM KeysTypeCorrect == KeysSpec => []KeysTypeOK
  <1>1. KeysInv => KeysTypeOK
    BY DEF KeysInv
  <1> QED
    BY <1>1, KeysInvariant, PTL

\* Keys open no way round checkEscalation: neither what a caller may do, nor the
\* scope of a key, nor the authority of a request in flight ever exceeds what the
\* callers had at the start or the CLI gave to one of them.
THEOREM KeysDoNotEscalate == KeysSpec => []NoKeyEscalation
  <1>1. KeysInv => NoKeyEscalation
    BY CeilingBoundsAuthority
    DEF KeysInv, KeysBound, Ceiling, RequestBound, NoKeyEscalation
  <1> QED
    BY <1>1, KeysInvariant, PTL
-----------------------------------------------------------------------------
(* A key's scope. *)

\* What a request that came with a key of this scope may write.  With others beside it
\* a role may have been edited since it was read, given roles that grant `held`.
Scoped(q, x, scope, held) ==
    x.pc \notin {"authenticated", "idle", "done"} =>
        /\ x.access.perms = scope
        /\ x.pc = "updating" => x.perms \subseteq scope
        /\ Reqs = {q} =>
             /\ x.pc \in {"updating", "deleting"} => held[x.role] \subseteq scope
             /\ x.pc \in {"loading", "counting", "clearing", "assigning"} =>
                  \A r \in x.ids : held[r] \subseteq scope

KeyScope ==
    \A q \in Reqs : via[q] # NoKey =>
        /\ req[q].pc \notin {"idle", "done"}
        /\ keys[via[q]].state # "unused"
        /\ Scoped(q, req[q], keys[via[q]].perms, rolePerms)

\* No handler gives a request more than its access, and what it takes on is checked.
ScopeKept ==
    \A p \in Reqs : \A scope :
        Scoped(p, req[p], scope, rolePerms) => Scoped(p, req'[p], scope, rolePerms')

LEMMA SlotScope ==
  ASSUME TypeOK, NEW q \in Reqs, NEW x,
         \A scope : Scoped(q, req[q], scope, rolePerms) => Scoped(q, x, scope, rolePerms'),
         req' = [req EXCEPT ![q] = x]
  PROVE  ScopeKept
  <1> SUFFICES ASSUME NEW p \in Reqs, NEW scope, Scoped(p, req[p], scope, rolePerms)
               PROVE  Scoped(p, req'[p], scope, rolePerms')
    BY DEF ScopeKept
  <1>1. CASE p = q
    BY <1>1 DEF TypeOK
  <1>2. CASE p # q
    <2>1. req'[p] = req[p] /\ Reqs # {p}
      BY <1>2 DEF TypeOK
    <2> QED
      BY <2>1 DEF Scoped
  <1> QED
    BY <1>1, <1>2

LEMMA AnswerScope ==
  ASSUME TypeOK, NEW q \in Reqs, NEW result, Answer(q, result)
  PROVE  ScopeKept
  <1>1. Answered(req[q], result).pc = "done"
    BY AnsweredCarries DEF TypeOK
  <1>2. \A scope : Scoped(q, Answered(req[q], result), scope, rolePerms')
    BY <1>1 DEF Scoped
  <1> QED
    BY <1>2, SlotScope DEF Answer

LEMMA RoleHandlersScope ==
  ASSUME TypeOK, NEW q \in Reqs, RoleHandlers(q)
  PROVE  ScopeKept
  <1> USE DEF Refuse
  <1>0. req[q] \in Request
    BY DEF TypeOK
  <1>1. ASSUME NEW r \in RoleIds, NEW perms \in SUBSET Perms, CreateRole(q, r, perms)
        PROVE  ScopeKept
    <2> DEFINE y == [req[q] EXCEPT !.op = "create", !.role = r]
    <2>1. y \in Request
      BY <1>0 DEF Request, Ops
    <2>2. \A scope : Scoped(q, Answered(y, "ok"), scope, rolePerms')
      BY <2>1, AnsweredCarries DEF Scoped
    <2>3. CASE req' = [req EXCEPT ![q] = Answered(y, "ok")]
      BY <2>2, <2>3, SlotScope
    <2> QED
      BY <1>1, <2>3, AnswerScope DEF CreateRole
  <1>2. ASSUME NEW r \in RoleIds, NEW perms \in SUBSET Perms,
               UpdateRoleRead(q, r, perms)
        PROVE  ScopeKept
    <2> DEFINE x == [req[q] EXCEPT !.pc = "updating", !.op = "update",
                                   !.role = r, !.perms = perms]
    <2>1. /\ x.pc = "updating" /\ x.access = req[q].access
          /\ x.role = r /\ x.perms = perms
      BY <1>0 DEF Request
    <2>2. CASE /\ req' = [req EXCEPT ![q] = x] /\ UNCHANGED rolePerms
               /\ MayGrant(q, perms) /\ MayGrant(q, rolePerms[r])
      <3>1. req[q].pc = "authorized"
        BY <1>2 DEF UpdateRoleRead, Authorized
      <3> HIDE DEF x
      <3>2. \A scope : Scoped(q, req[q], scope, rolePerms) => Scoped(q, x, scope, rolePerms')
        BY <2>1, <2>2, <3>1 DEF Scoped, MayGrant
      <3> QED
        BY <2>2, <3>2, SlotScope
    <2> QED
      BY <1>2, <2>2, AnswerScope DEF UpdateRoleRead, db
  <1>3. CASE UpdateRoleWrite(q)
    BY <1>3, AnswerScope DEF UpdateRoleWrite
  <1>4. ASSUME NEW r \in RoleIds, DeleteRoleRead(q, r)
        PROVE  ScopeKept
    <2> DEFINE x == [req[q] EXCEPT !.pc = "deleting", !.op = "delete", !.role = r]
    <2>1. x.pc = "deleting" /\ x.access = req[q].access /\ x.role = r
      BY <1>0 DEF Request
    <2>2. CASE /\ req' = [req EXCEPT ![q] = x] /\ UNCHANGED rolePerms
               /\ MayGrant(q, rolePerms[r])
      <3>1. req[q].pc = "authorized"
        BY <1>4 DEF DeleteRoleRead, Authorized
      <3> HIDE DEF x
      <3>2. \A scope : Scoped(q, req[q], scope, rolePerms) => Scoped(q, x, scope, rolePerms')
        BY <2>1, <2>2, <3>1 DEF Scoped, MayGrant
      <3> QED
        BY <2>2, <3>2, SlotScope
    <2> QED
      BY <1>4, <2>2, AnswerScope DEF DeleteRoleRead, db
  <1>5. CASE DeleteRoleWrite(q)
    BY <1>5, AnswerScope DEF DeleteRoleWrite
  <1> QED
    BY <1>1, <1>2, <1>3, <1>4, <1>5 DEF RoleHandlers

\* SetUserRoles goes on to its next statement, with the roles it has checked.
Onwards == {"loading", "counting", "clearing", "assigning"}

LEMMA AssignmentScope ==
  ASSUME TypeOK, NEW q \in Reqs, NEW x, UNCHANGED rolePerms,
         req[q].pc \in Onwards, x.pc \in Onwards,
         x.access = req[q].access, x.ids = req[q].ids,
         req' = [req EXCEPT ![q] = x]
  PROVE  ScopeKept
  <1>1. \A scope : Scoped(q, req[q], scope, rolePerms) => Scoped(q, x, scope, rolePerms')
    BY DEF Scoped, Onwards
  <1> QED
    BY <1>1, SlotScope

\* SetUserActive goes on to its next statement: it writes no permissions.
LEMMA ActivationScope ==
  ASSUME TypeOK, NEW q \in Reqs, NEW x,
         req[q].pc = "authorized" \/ req[q].pc = "countingActive",
         x.pc = "countingActive" \/ x.pc = "activating",
         x.access = req[q].access, req' = [req EXCEPT ![q] = x]
  PROVE  ScopeKept
  <1>1. \A scope : Scoped(q, req[q], scope, rolePerms) => Scoped(q, x, scope, rolePerms')
    BY DEF Scoped
  <1> QED
    BY <1>1, SlotScope

LEMMA AssignScope ==
  ASSUME TypeOK, NEW q \in Reqs, SetUserRolesAssign(q)
  PROVE  ScopeKept
  <1>1. CASE Refuse(q, "conflict")
    BY <1>1, AnswerScope DEF Refuse
  <1>2. CASE ~Refuse(q, "conflict")
    <2> SUFFICES ASSUME NEW p \in Reqs, NEW scope, Scoped(p, req[p], scope, rolePerms)
                 PROVE  Scoped(p, req'[p], scope, rolePerms')
      BY DEF ScopeKept
    <2>1. req[p] \in Request /\ UNCHANGED rolePerms
      BY <1>2 DEF TypeOK, SetUserRolesAssign
    <2>2. Answered(req[p], "ok").pc = "done"
      BY <2>1, AnsweredCarries
    <2>3. Scoped(p, [req[p] EXCEPT !.rows = @ \ req[q].rows], scope, rolePerms')
      <3> DEFINE x == [req[p] EXCEPT !.rows = @ \ req[q].rows]
      <3>1. /\ x.pc = req[p].pc /\ x.access = req[p].access /\ x.ids = req[p].ids
            /\ x.perms = req[p].perms /\ x.role = req[p].role
        BY <2>1 DEF Request
      <3> HIDE DEF x
      <3>2. Scoped(p, x, scope, rolePerms')
        BY <2>1, <3>1 DEF Scoped
      <3> QED
        BY <3>2 DEF x
    <2>4. Scoped(p, Answered(req[p], "ok"), scope, rolePerms')
      BY <2>2 DEF Scoped
    <2> QED
      BY <1>2, <2>1, <2>3, <2>4 DEF SetUserRolesAssign
  <1> QED
    BY <1>1, <1>2

LEMMA UserHandlersScope ==
  ASSUME TypeOK, NEW q \in Reqs, UserHandlers(q)
  PROVE  ScopeKept
  <1> USE DEF Refuse
  <1>0. req[q] \in Request
    BY DEF TypeOK
  <1>1. ASSUME NEW t \in Users, NEW ids \in SUBSET RoleIds,
               SetUserRolesResolve(q, t, ids)
        PROVE  ScopeKept
    <2> DEFINE x == [req[q] EXCEPT !.pc = "loading", !.op = "roles",
                                   !.target = t, !.ids = ids]
    <2>1. x.pc = "loading" /\ x.access = req[q].access /\ x.ids = ids
      BY <1>0 DEF Request
    <2>2. CASE /\ req' = [req EXCEPT ![q] = x] /\ UNCHANGED rolePerms
               /\ MayGrant(q, UnionPerms(ids))
      <3>1. req[q].pc = "authorized"
        BY <1>1 DEF SetUserRolesResolve, Authorized
      <3>2. \A r \in ids : rolePerms[r] \subseteq req[q].access.perms
        BY <2>2 DEF MayGrant, UnionPerms
      <3> HIDE DEF x
      <3>3. \A scope : Scoped(q, req[q], scope, rolePerms) => Scoped(q, x, scope, rolePerms')
        BY <2>1, <2>2, <3>1, <3>2 DEF Scoped
      <3> QED
        BY <2>2, <3>3, SlotScope
    <2> QED
      BY <1>1, <2>2, AnswerScope DEF SetUserRolesResolve, db
  <1>2. CASE SetUserRolesLoad(q)
    <2> DEFINE x(pc) == [req[q] EXCEPT !.pc = pc, !.before = userRoles[req[q].target]]
    <2>1. ASSUME NEW pc \in {"counting", "clearing"}, req' = [req EXCEPT ![q] = x(pc)]
          PROVE  ScopeKept
      <3>1. /\ x(pc).pc = pc /\ x(pc).access = req[q].access /\ x(pc).ids = req[q].ids
            /\ UNCHANGED rolePerms /\ req[q].pc = "loading"
        BY <1>0, <1>2 DEF Request, SetUserRolesLoad, db
      <3> QED
        BY <2>1, <3>1, AssignmentScope DEF Onwards
    <2>2. \/ Answer(q, "forbidden")
          \/ \E pc \in {"counting", "clearing"} : req' = [req EXCEPT ![q] = x(pc)]
      BY <1>2 DEF SetUserRolesLoad
    <2> QED
      BY <2>1, <2>2, AnswerScope
  <1>3. CASE SetUserRolesCount(q)
    <2> DEFINE x == [req[q] EXCEPT !.pc = "clearing"]
    <2>1. /\ x.pc = "clearing" /\ x.access = req[q].access /\ x.ids = req[q].ids
          /\ UNCHANGED rolePerms /\ req[q].pc = "counting"
      BY <1>0, <1>3 DEF Request, SetUserRolesCount, db
    <2>2. CASE req' = [req EXCEPT ![q] = x]
      BY <2>1, <2>2, AssignmentScope DEF Onwards
    <2> QED
      BY <1>3, <2>2, AnswerScope DEF SetUserRolesCount
  <1>4. CASE SetUserRolesClear(q)
    <2> DEFINE x == [req[q] EXCEPT !.pc = "assigning",
                                   !.rows = userRoles[req[q].target]]
    <2>1. /\ x.pc = "assigning" /\ x.access = req[q].access /\ x.ids = req[q].ids
          /\ UNCHANGED rolePerms /\ req[q].pc = "clearing"
      BY <1>0, <1>4 DEF Request, SetUserRolesClear, db
    <2>2. req' = [req EXCEPT ![q] = x]
      BY <1>4 DEF SetUserRolesClear
    <2> QED
      BY <2>1, <2>2, AssignmentScope DEF Onwards
  <1>5. ASSUME NEW t \in Users, NEW activate \in BOOLEAN,
               SetUserActiveLoad(q, t, activate)
        PROVE  ScopeKept
    <2> DEFINE x(pc) == [req[q] EXCEPT !.pc = pc, !.op = "active", !.target = t,
                                       !.activate = activate]
    <2>1. ASSUME NEW pc \in {"countingActive", "activating"},
                 req' = [req EXCEPT ![q] = x(pc)]
          PROVE  ScopeKept
      <3>1. x(pc).pc = pc /\ x(pc).access = req[q].access /\ req[q].pc = "authorized"
        BY <1>0, <1>5 DEF Request, SetUserActiveLoad, Authorized
      <3> QED
        BY <2>1, <3>1, ActivationScope
    <2>2. \/ Answer(q, "invalid")
          \/ \E pc \in {"countingActive", "activating"} :
               req' = [req EXCEPT ![q] = x(pc)]
      BY <1>5 DEF SetUserActiveLoad
    <2> QED
      BY <2>1, <2>2, AnswerScope
  <1>6. CASE SetUserActiveCount(q)
    <2> DEFINE x == [req[q] EXCEPT !.pc = "activating"]
    <2>1. /\ x.pc = "activating" /\ x.access = req[q].access
          /\ req[q].pc = "countingActive"
      BY <1>0, <1>6 DEF Request, SetUserActiveCount
    <2>2. CASE req' = [req EXCEPT ![q] = x]
      BY <2>1, <2>2, ActivationScope
    <2> QED
      BY <1>6, <2>2, AnswerScope DEF SetUserActiveCount
  <1>7. CASE SetUserActiveWrite(q)
    BY <1>7, AnswerScope DEF SetUserActiveWrite
  <1> QED
    BY <1>1, <1>2, <1>3, <1>4, <1>5, <1>6, <1>7, AssignScope DEF UserHandlers

LEMMA SessionMiddlewareScope ==
  ASSUME TypeOK, KeyScope, NEW q \in Reqs, SessionMiddleware(q), Release,
         UNCHANGED keys
  PROVE  KeyScope'
  <1>0. UNCHANGED rolePerms /\ \A p \in Reqs \ {q} : req'[p] = req[p]
    BY DEF TypeOK, SessionMiddleware, Authenticate, Authorize, Forbid, Refuse,
           Answer, Finish, db
  <1>1. ASSUME NEW p \in Reqs \ {q}, via'[p] # NoKey
        PROVE  /\ req'[p].pc \notin {"idle", "done"} /\ keys'[via'[p]].state # "unused"
               /\ Scoped(p, req'[p], keys'[via'[p]].perms, rolePerms')
    BY <1>0, <1>1 DEF KeyScope, Release
  <1>2. via'[q] = NoKey
    <2>1. CASE via[q] = NoKey
      BY <2>1 DEF Release
    <2>2. CASE req'[q].pc \in {"idle", "done"}
      BY <2>2 DEF Release
    <2>3. ASSUME NEW p \in RoutePerms, Forbid(q, p) PROVE req'[q].pc = "done"
      BY <2>3, AnsweredCarries DEF Forbid, Refuse, Answer, TypeOK
    <2>4. ASSUME Finish(q) PROVE req'[q].pc = "idle"
      BY <2>4 DEF Finish, TypeOK, Idle
    <2>5. ASSUME NEW u \in Callers, Authenticate(q, u) PROVE via[q] = NoKey
      BY <2>5 DEF Authenticate, KeyScope
    <2> QED
      BY <2>1, <2>2, <2>3, <2>4, <2>5 DEF SessionMiddleware
  <1> QED
    BY <1>1, <1>2 DEF KeyScope

LEMMA RbacStepScope ==
  ASSUME TypeOK, KeyScope, RbacStep
  PROVE  KeyScope'
  <1>0. Release /\ UNCHANGED keys
    BY DEF RbacStep
  <1>1. ASSUME ScopeKept PROVE KeyScope'
    <2> SUFFICES ASSUME NEW p \in Reqs, via'[p] # NoKey
                 PROVE  /\ req'[p].pc \notin {"idle", "done"}
                        /\ keys'[via'[p]].state # "unused"
                        /\ Scoped(p, req'[p], keys'[via'[p]].perms, rolePerms')
      BY DEF KeyScope
    <2>1. via'[p] = via[p] /\ req'[p].pc \notin {"idle", "done"}
      BY <1>0 DEF Release
    <2>2. Scoped(p, req[p], keys[via[p]].perms, rolePerms) /\ keys[via[p]].state # "unused"
      BY <2>1 DEF KeyScope
    <2> QED
      BY <1>0, <1>1, <2>1, <2>2 DEF ScopeKept
  <1>2. ASSUME NEW q \in Reqs, SessionMiddleware(q) PROVE KeyScope'
    BY <1>0, <1>2, SessionMiddlewareScope
  <1>3. ASSUME NEW q \in Reqs, RoleHandlers(q) \/ UserHandlers(q) PROVE KeyScope'
    BY <1>1, <1>3, RoleHandlersScope, UserHandlersScope
  <1>4. CASE (\E u \in Users : Register(u)) \/ Cli
    <2>1. UNCHANGED <<req, rolePerms>>
      BY <1>4 DEF Register, Cli, SetSuperuser, GrantRoleByKey
    <2> QED
      BY <1>1, <2>1 DEF ScopeKept
  <1> QED
    BY <1>2, <1>3, <1>4 DEF RbacStep

\* The permissions of a row of api_keys are written when it is inserted, and only then.
ScopesFrozen ==
    \A k \in KeyIds : keys[k].state # "unused" =>
        keys'[k].state # "unused" /\ keys'[k].perms = keys[k].perms

LEMMA InsertFrozen ==
  ASSUME KeysTypeOK, NEW q \in Reqs, NEW k \in KeyIds, NEW perms,
         keys[k].state = "unused", InsertKey(q, k, perms)
  PROVE  ScopesFrozen
  BY DEF KeysTypeOK, InsertKey, ScopesFrozen

LEMMA StateFrozen ==
  ASSUME KeysTypeOK, NEW k \in KeyIds, NEW state, state # "unused",
         keys' = [keys EXCEPT ![k].state = state]
  PROVE  ScopesFrozen
  BY DEF KeysTypeOK, KeyRow, ScopesFrozen

LEMMA KeyHandlersFrozen ==
  ASSUME KeysTypeOK, NEW q \in Reqs, KeyHandlers(q)
  PROVE  ScopesFrozen
  <1>1. ASSUME UNCHANGED keys PROVE ScopesFrozen
    BY <1>1 DEF ScopesFrozen
  <1>2. ASSUME NEW k \in KeyIds, NEW perms \in SUBSET Perms, CreateAPIKey(q, k, perms)
        PROVE  ScopesFrozen
    BY <1>1, <1>2, InsertFrozen DEF CreateAPIKey
  <1>3. ASSUME NEW k \in KeyIds, RevokeAPIKey(q, k)
        PROVE  ScopesFrozen
    BY <1>1, <1>3, StateFrozen DEF RevokeAPIKey
  <1> QED
    BY <1>2, <1>3 DEF KeyHandlers

\* The requests keep their keys, and these their scopes.
LEMMA FrozenScope ==
  ASSUME KeysTypeOK, KeyScope, ScopeKept, ScopesFrozen,
         \A q \in Reqs : via'[q] # NoKey =>
             via'[q] = via[q] /\ req'[q].pc \notin {"idle", "done"}
  PROVE  KeyScope'
  <1> SUFFICES ASSUME NEW p \in Reqs, via'[p] # NoKey
               PROVE  /\ req'[p].pc \notin {"idle", "done"}
                      /\ keys'[via'[p]].state # "unused"
                      /\ Scoped(p, req'[p], keys'[via'[p]].perms, rolePerms')
    BY DEF KeyScope
  <1>1. via'[p] = via[p] /\ via[p] \in KeyIds /\ req'[p].pc \notin {"idle", "done"}
    BY DEF KeysTypeOK
  <1>2. Scoped(p, req[p], keys[via[p]].perms, rolePerms) /\ keys[via[p]].state # "unused"
    BY <1>1 DEF KeyScope
  <1>3. keys'[via[p]].state # "unused" /\ keys'[via[p]].perms = keys[via[p]].perms
    BY <1>1, <1>2 DEF ScopesFrozen
  <1>4. Scoped(p, req'[p], keys[via[p]].perms, rolePerms')
    BY <1>2 DEF ScopeKept
  <1> QED
    BY <1>1, <1>3, <1>4

LEMMA KeyMiddlewareScope ==
  ASSUME KeysTypeOK, KeyScope, NEW q \in Reqs, KeyMiddleware(q)
  PROVE  KeyScope'
  <1>0. TypeOK /\ via \in [Reqs -> KeyIds \cup {NoKey}]
    BY DEF KeysTypeOK
  <1>1. ASSUME NEW k \in KeyIds, AuthenticateAPIKey(q, k)
        PROVE  KeyScope'
    <2> DEFINE x == [Idle EXCEPT !.pc = "authenticated", !.actor = keys[k].owner]
    <2>1. x.pc = "authenticated"
      BY DEF Idle
    <2>2. /\ req' = [req EXCEPT ![q] = x] /\ via' = [via EXCEPT ![q] = k]
          /\ UNCHANGED <<rolePerms, keys>> /\ keys[k].state # "unused"
      BY <1>1 DEF AuthenticateAPIKey, Authenticates, db
    <2> HIDE DEF x
    <2>3. ASSUME NEW p \in Reqs \ {q} PROVE req'[p] = req[p] /\ via'[p] = via[p]
      BY <1>0, <2>2, <2>3 DEF TypeOK
    <2>4. req'[q] = x /\ via'[q] = k
      BY <1>0, <2>2 DEF TypeOK
    <2>5. Scoped(q, x, keys[k].perms, rolePerms)
      BY <2>1 DEF Scoped
    <2> QED
      BY <2>1, <2>2, <2>3, <2>4, <2>5 DEF KeyScope
  <1>2. CASE AuthorizeKey(q)
    <2> DEFINE a == [perms |-> keys[via[q]].perms, roles |-> {},
                     viaSuperuser |-> FALSE]
               x == [req[q] EXCEPT !.pc = "authorized",
                                   !.isSuper = superuser[req[q].actor],
                                   !.access = a]
    <2>1. req[q] \in Request
      BY <1>0 DEF TypeOK
    <2>2. x.pc = "authorized" /\ x.access.perms = keys[via[q]].perms
      BY <2>1 DEF Request
    <2>3. req' = [req EXCEPT ![q] = x] /\ UNCHANGED <<via, keys, rolePerms>>
      BY <1>2 DEF AuthorizeKey, EnterWithKey, db
    <2> HIDE DEF x
    <2>4. ASSUME NEW p \in Reqs \ {q} PROVE req'[p] = req[p]
      BY <1>0, <2>3, <2>4 DEF TypeOK
    <2>5. req'[q] = x
      BY <1>0, <2>3 DEF TypeOK
    <2>6. Scoped(q, x, keys[via[q]].perms, rolePerms)
      BY <2>2 DEF Scoped
    <2> QED
      BY <2>2, <2>3, <2>4, <2>5, <2>6 DEF KeyScope
  <1>3. ASSUME NEW p \in {PermAPIKeysCreate, PermAPIKeysDelete},
               Forbid(q, p), Release, UNCHANGED keys
        PROVE  KeyScope'
    <2>1. ScopeKept
      BY <1>0, <1>3, AnswerScope DEF Forbid, Refuse
    <2>2. ScopesFrozen
      BY <1>3 DEF ScopesFrozen
    <2> QED
      BY <1>3, <2>1, <2>2, FrozenScope DEF Release
  <1> QED
    BY <1>1, <1>2, <1>3 DEF KeyMiddleware

LEMMA NextKeyScope ==
  KeysTypeOK /\ KeyScope /\ [KeysNext]_keyVars => KeyScope'
  <1> SUFFICES ASSUME KeysTypeOK, KeyScope, [KeysNext]_keyVars PROVE KeyScope'
    OBVIOUS
  <1>0. TypeOK
    BY DEF KeysTypeOK
  <1>1. ASSUME UNCHANGED <<req, via, rolePerms>>, ScopesFrozen PROVE KeyScope'
    <2>1. ScopeKept
      BY <1>1 DEF ScopeKept
    <2>2. \A q \in Reqs : via'[q] # NoKey =>
              via'[q] = via[q] /\ req'[q].pc \notin {"idle", "done"}
      BY <1>1 DEF KeyScope
    <2> QED
      BY <1>1, <2>1, <2>2, FrozenScope
  <1>2. ASSUME NEW q \in Reqs, KeyHandlers(q) PROVE KeyScope'
    <2>1. Release /\ \E result : Answer(q, result)
      BY <1>2 DEF KeyHandlers, CreateAPIKey, RevokeAPIKey
    <2>2. ScopeKept
      BY <1>0, <2>1, AnswerScope
    <2>3. ScopesFrozen
      BY <1>2, KeyHandlersFrozen
    <2> QED
      BY <2>1, <2>2, <2>3, FrozenScope DEF Release
  <1>3. ASSUME NEW k \in KeyIds, ExpireAPIKey(k) PROVE KeyScope'
    <2>1. ScopesFrozen
      BY <1>3, StateFrozen DEF ExpireAPIKey
    <2> QED
      BY <1>1, <1>3, <2>1 DEF ExpireAPIKey, vars, db
  <1>4. CASE UNCHANGED keyVars
    <2>1. ScopesFrozen
      BY <1>4 DEF keyVars, ScopesFrozen
    <2> QED
      BY <1>1, <1>4, <2>1 DEF keyVars, vars, db
  <1> QED
    BY <1>0, <1>2, <1>3, <1>4, KeyMiddlewareScope, RbacStepScope DEF KeysNext

-----------------------------------------------------------------------------
(* What a request with a key leaves behind. *)

\* Nothing is written that a scope is asked about.
LEMMA NothingWritten ==
  ASSUME NEW scope, NEW alone, UNCHANGED <<rolePerms, userRoles, keys>>
  PROVE  Confined(scope, alone)
  BY DEF Confined

\* One role is given permissions of the scope, and had no others if q is alone.
RoleWritten(r, scope, alone) ==
    /\ \A s \in RoleIds : rolePerms'[s] # rolePerms[s] =>
         s = r /\ rolePerms'[s] \subseteq scope
    /\ alone => rolePerms[r] \subseteq scope

LEMMA RoleWrittenConfined ==
  ASSUME NEW r, NEW scope, NEW alone, RoleWritten(r, scope, alone),
         UNCHANGED userRoles, UNCHANGED keys
  PROVE  Confined(scope, alone)
  <1>1. \A k \in KeyIds : keys'[k].perms = keys[k].perms
    OBVIOUS
  <1>2. \A u \in Users : userRoles'[u] \ userRoles[u] = {}
    OBVIOUS
  <1> QED
    BY <1>1, <1>2, Zenon DEF Confined, RoleWritten

LEMMA RefusalNotOk ==
  ASSUME TypeOK, NEW q \in Reqs, NEW result, result # "ok", Answer(q, result)
  PROVE  req'[q].result # "ok"
  <1>1. req'[q] = Answered(req[q], result)
    BY DEF TypeOK, Answer
  <1>2. Answered(req[q], result).result = result
    BY DEF Answered, Idle
  <1> QED
    BY <1>1, <1>2

\* A handler that has not answered yet is not done.
LEMMA OnlyOneMoves ==
  ASSUME TypeOK, NEW q \in Reqs, NEW x, req' = [req EXCEPT ![q] = x]
  PROVE  req'[q] = x /\ \A p \in Reqs \ {q} : req'[p].pc = req[p].pc
  BY DEF TypeOK

LEMMA RoleHandlersWait ==
  ASSUME TypeOK, NEW q \in Reqs, RoleHandlers(q)
  PROVE  \A p \in Reqs \ {q} : req'[p].pc = req[p].pc
  <1>1. \E x : req' = [req EXCEPT ![q] = x]
    BY DEF RoleHandlers, CreateRole, UpdateRoleRead, UpdateRoleWrite, DeleteRoleRead,
           DeleteRoleWrite, Refuse, Answer
  <1> QED
    BY <1>1, OnlyOneMoves

LEMMA UserHandlersWait ==
  ASSUME TypeOK, NEW q \in Reqs, UserHandlers(q)
  PROVE  \A p \in Reqs \ {q} : req'[p].pc = req[p].pc
  <1>1. CASE SetUserRolesAssign(q)
    <2>1. CASE Refuse(q, "conflict")
      BY <2>1, OnlyOneMoves DEF Refuse, Answer
    <2>2. CASE ~Refuse(q, "conflict")
      <3> SUFFICES ASSUME NEW p \in Reqs \ {q} PROVE req'[p].pc = req[p].pc
        OBVIOUS
      <3>1. req[p] \in Request
        BY DEF TypeOK
      <3>2. [req[p] EXCEPT !.rows = @ \ req[q].rows].pc = req[p].pc
        BY <3>1 DEF Request
      <3> QED
        BY <1>1, <2>2, <3>2 DEF SetUserRolesAssign
    <2> QED
      BY <2>1, <2>2
  <1>2. CASE ~SetUserRolesAssign(q)
    <2>1. \E x : req' = [req EXCEPT ![q] = x]
      BY <1>2 DEF UserHandlers, SetUserRolesResolve, SetUserRolesLoad,
                  SetUserRolesCount, SetUserRolesClear, SetUserActiveLoad,
                  SetUserActiveCount, SetUserActiveWrite, Refuse, Answer
    <2> QED
      BY <2>1, OnlyOneMoves
  <1> QED
    BY <1>1, <1>2

LEMMA RoleHandlersConfined ==
  ASSUME KeysTypeOK, KeyScope, NEW q \in Reqs, via[q] # NoKey, RoleHandlers(q),
         UNCHANGED keys, req'[q].pc = "done", req'[q].result = "ok"
  PROVE  Confined(keys[via[q]].perms, Reqs = {q})
  <1> DEFINE scope == keys[via[q]].perms
             alone == Reqs = {q}
  <1> SUFFICES Confined(scope, alone)
    OBVIOUS
  <1> USE DEF Refuse
  <1>0. /\ TypeOK /\ req[q] \in Request /\ Scoped(q, req[q], scope, rolePerms)
        /\ rolePerms \in [RoleIds -> SUBSET Perms]
    BY DEF KeysTypeOK, TypeOK, KeyScope
  <1>1. ASSUME NEW r \in RoleIds, NEW perms \in SUBSET Perms, CreateRole(q, r, perms)
        PROVE  Confined(scope, alone)
    <2>1. /\ MayGrant(q, perms) /\ rolePerms' = [rolePerms EXCEPT ![r] = perms]
          /\ roleState[r] = "unused" /\ UNCHANGED userRoles
      BY <1>0, <1>1, RefusalNotOk DEF CreateRole
    <2>2. perms \subseteq scope
      BY <1>0, <1>1, <2>1 DEF CreateRole, Authorized, MayGrant, Scoped
    <2> HIDE DEF scope, alone
    <2> QED
      BY <1>0, <2>1, <2>2 DEF Confined
  <1>2. ASSUME NEW r \in RoleIds, NEW perms \in SUBSET Perms,
               UpdateRoleRead(q, r, perms)
        PROVE  FALSE
    <2> DEFINE x == [req[q] EXCEPT !.pc = "updating", !.op = "update",
                                   !.role = r, !.perms = perms]
    <2>1. x.pc = "updating"
      BY <1>0 DEF Request
    <2>2. req' = [req EXCEPT ![q] = x]
      BY <1>0, <1>2, RefusalNotOk DEF UpdateRoleRead
    <2> QED
      BY <1>0, <2>1, <2>2, OnlyOneMoves
  <1>3. CASE UpdateRoleWrite(q)
    <2>1. /\ rolePerms' = [rolePerms EXCEPT ![req[q].role] = req[q].perms]
          /\ req[q].pc = "updating" /\ UNCHANGED userRoles
      BY <1>0, <1>3, RefusalNotOk DEF UpdateRoleWrite
    <2>2. /\ req[q].perms \subseteq scope
          /\ alone => rolePerms[req[q].role] \subseteq scope
      BY <1>0, <2>1 DEF Scoped
    <2> HIDE DEF scope, alone
    <2> QED
      BY <1>0, <2>1, <2>2, RoleWrittenConfined DEF RoleWritten
  <1>4. ASSUME NEW r \in RoleIds, DeleteRoleRead(q, r)
        PROVE  FALSE
    <2> DEFINE x == [req[q] EXCEPT !.pc = "deleting", !.op = "delete", !.role = r]
    <2>1. x.pc = "deleting"
      BY <1>0 DEF Request
    <2>2. req' = [req EXCEPT ![q] = x]
      BY <1>0, <1>4, RefusalNotOk DEF DeleteRoleRead
    <2> QED
      BY <1>0, <2>1, <2>2, OnlyOneMoves
  <1>5. CASE DeleteRoleWrite(q)
    <2>1. /\ rolePerms' = [rolePerms EXCEPT ![req[q].role] = {}]
          /\ req[q].pc = "deleting" /\ UNCHANGED userRoles
      BY <1>0, <1>5, RefusalNotOk DEF DeleteRoleWrite
    <2>2. alone => rolePerms[req[q].role] \subseteq scope
      BY <1>0, <2>1 DEF Scoped
    <2>3. {} \subseteq scope
      OBVIOUS
    <2> HIDE DEF scope, alone
    <2> QED
      BY <1>0, <2>1, <2>2, <2>3, RoleWrittenConfined DEF RoleWritten
  <1> QED
    BY <1>1, <1>2, <1>3, <1>4, <1>5 DEF RoleHandlers

LEMMA UserHandlersConfined ==
  ASSUME KeysTypeOK, KeyScope, NEW q \in Reqs, via[q] # NoKey, UserHandlers(q),
         UNCHANGED keys, req'[q].pc = "done", req'[q].result = "ok"
  PROVE  Confined(keys[via[q]].perms, Reqs = {q})
  <1> DEFINE scope == keys[via[q]].perms
             alone == Reqs = {q}
  <1> SUFFICES Confined(scope, alone)
    OBVIOUS
  <1> USE DEF Refuse
  <1>0. /\ TypeOK /\ req[q] \in Request /\ Scoped(q, req[q], scope, rolePerms)
        /\ userRoles \in [Users -> SUBSET RoleIds]
    BY DEF KeysTypeOK, TypeOK, KeyScope
  <1>1. CASE SetUserRolesAssign(q)
    <2> DEFINE t == req[q].target
    <2>1. /\ userRoles' = [userRoles EXCEPT ![t] = (userRoles[t] \ req[q].rows) \cup req[q].ids]
          /\ req[q].pc = "assigning" /\ UNCHANGED rolePerms
      BY <1>0, <1>1, RefusalNotOk DEF SetUserRolesAssign
    <2>2. alone => \A r \in req[q].ids : rolePerms[r] \subseteq scope
      BY <1>0, <2>1 DEF Scoped
    <2>3. ASSUME NEW u \in Users, NEW r \in userRoles'[u] \ userRoles[u]
          PROVE  r \in req[q].ids
      BY <1>0, <2>1, <2>3
    <2> HIDE DEF scope, alone
    <2>4. \A r \in RoleIds : rolePerms'[r] = rolePerms[r]
      BY <2>1
    <2>5. \A k \in KeyIds : keys'[k].perms = keys[k].perms
      OBVIOUS
    <2> QED
      BY <2>2, <2>3, <2>4, <2>5, Zenon DEF Confined
  <1>2. CASE ~SetUserRolesAssign(q)
    <2>1. UNCHANGED <<rolePerms, userRoles>>
      BY <1>2 DEF UserHandlers, SetUserRolesResolve, SetUserRolesLoad,
                  SetUserRolesCount, SetUserRolesClear, SetUserActiveLoad,
                  SetUserActiveCount, SetUserActiveWrite, db
    <2> QED
      BY <2>1, NothingWritten
  <1> QED
    BY <1>1, <1>2

LEMMA KeyHandlersConfined ==
  ASSUME KeysTypeOK, KeyScope, NEW q \in Reqs, via[q] # NoKey, KeyHandlers(q)
  PROVE  Confined(keys[via[q]].perms, Reqs = {q})
  <1> DEFINE scope == keys[via[q]].perms
  <1>0. /\ TypeOK /\ Scoped(q, req[q], scope, rolePerms)
        /\ keys \in [KeyIds -> KeyRow] /\ UNCHANGED <<rolePerms, userRoles>>
    BY DEF KeysTypeOK, KeyScope, KeyHandlers, CreateAPIKey, RevokeAPIKey, db
  <1>1. ASSUME NEW k \in KeyIds, NEW perms \in SUBSET Perms, CreateAPIKey(q, k, perms)
        PROVE  Confined(scope, Reqs = {q})
    <2>1. CASE UNCHANGED keys
      BY <1>0, <2>1, NothingWritten
    <2>2. CASE MayGrant(q, perms) /\ InsertKey(q, k, perms)
      <3>1. perms \subseteq scope
        BY <1>0, <1>1, <2>2 DEF CreateAPIKey, Authorized, MayGrant, Scoped
      <3>2. \A s \in KeyIds : keys'[s].perms = IF s = k THEN perms ELSE keys[s].perms
        BY <1>0, <2>2 DEF InsertKey
      <3> HIDE DEF scope
      <3> QED
        BY <1>0, <3>1, <3>2 DEF Confined
    <2> QED
      BY <1>1, <2>1, <2>2 DEF CreateAPIKey
  <1>2. ASSUME NEW k \in KeyIds, RevokeAPIKey(q, k)
        PROVE  Confined(scope, Reqs = {q})
    <2>1. \A s \in KeyIds : keys'[s].perms = keys[s].perms
      BY <1>0, <1>2 DEF RevokeAPIKey, KeyRow
    <2> QED
      BY <1>0, <2>1 DEF Confined
  <1> QED
    BY <1>1, <1>2 DEF KeyHandlers

LEMMA NextConfined ==
  KeysTypeOK /\ KeyScope /\ [KeysNext]_keyVars =>
    [\A q \in Reqs : via[q] # NoKey /\ req'[q].pc = "done" /\ req'[q].result = "ok" =>
       Confined(keys[via[q]].perms, Reqs = {q})]_keyVars
  <1> SUFFICES ASSUME KeysTypeOK, KeyScope, KeysNext, NEW q \in Reqs, via[q] # NoKey,
                      req'[q].pc = "done", req'[q].result = "ok"
               PROVE  Confined(keys[via[q]].perms, Reqs = {q})
    OBVIOUS
  <1>0. TypeOK /\ req[q].pc \notin {"idle", "done"}
    BY DEF KeysTypeOK, KeyScope
  <1>1. ASSUME NEW p \in Reqs, KeyMiddleware(p) PROVE FALSE
    <2>1. req'[p].pc # "done" \/ req'[p].result # "ok"
      <3>1. ASSUME NEW k \in KeyIds, AuthenticateAPIKey(p, k)
            PROVE  req'[p].pc = "authenticated"
        BY <1>0, <3>1 DEF AuthenticateAPIKey, TypeOK, Idle
      <3>2. ASSUME AuthorizeKey(p) PROVE req'[p].pc = "authorized"
        BY <1>0, <3>2 DEF AuthorizeKey, EnterWithKey, TypeOK, Request
      <3>3. ASSUME NEW c, Forbid(p, c) PROVE req'[p].result # "ok"
        BY <1>0, <3>3, RefusalNotOk DEF Forbid, Refuse
      <3> QED
        BY <1>1, <3>1, <3>2, <3>3 DEF KeyMiddleware
    <2>2. \A s \in Reqs \ {p} : req'[s].pc = req[s].pc
      BY <1>0, <1>1, OnlyOneMoves
      DEF KeyMiddleware, AuthenticateAPIKey, AuthorizeKey, EnterWithKey, Forbid,
          Refuse, Answer
    <2> QED
      BY <1>0, <2>1, <2>2
  <1>2. ASSUME NEW p \in Reqs, KeyHandlers(p)
        PROVE  Confined(keys[via[q]].perms, Reqs = {q})
    <2>1. \A s \in Reqs \ {p} : req'[s].pc = req[s].pc
      BY <1>0, <1>2, OnlyOneMoves DEF KeyHandlers, CreateAPIKey, RevokeAPIKey, Answer
    <2>2. p = q
      BY <1>0, <2>1
    <2> QED
      BY <1>2, <2>2, KeyHandlersConfined
  <1>3. ASSUME NEW p \in Reqs, SessionMiddleware(p) PROVE FALSE
    <2>1. req'[p].pc # "done" \/ req'[p].result # "ok"
      <3>1. ASSUME NEW u \in Callers, Authenticate(p, u)
            PROVE  req'[p].pc = "authenticated"
        BY <1>0, <3>1 DEF Authenticate, TypeOK, Idle
      <3>2. ASSUME Authorize(p) PROVE req'[p].pc = "authorized"
        BY <1>0, <3>2 DEF Authorize, TypeOK, Request
      <3>3. ASSUME NEW c, Forbid(p, c) PROVE req'[p].result # "ok"
        BY <1>0, <3>3, RefusalNotOk DEF Forbid, Refuse
      <3>4. ASSUME Finish(p) PROVE req'[p].pc = "idle"
        BY <1>0, <3>4 DEF Finish, TypeOK, Idle
      <3> QED
        BY <1>3, <3>1, <3>2, <3>3, <3>4 DEF SessionMiddleware
    <2>2. \A s \in Reqs \ {p} : req'[s].pc = req[s].pc
      BY <1>0, <1>3, OnlyOneMoves
      DEF SessionMiddleware, Authenticate, Authorize, Forbid, Finish, Refuse, Answer
    <2> QED
      BY <1>0, <2>1, <2>2
  <1>4. ASSUME NEW p \in Reqs, RoleHandlers(p) \/ UserHandlers(p), UNCHANGED keys
        PROVE  Confined(keys[via[q]].perms, Reqs = {q})
    <2>1. p = q
      BY <1>0, <1>4, RoleHandlersWait, UserHandlersWait
    <2> QED
      BY <1>4, <2>1, RoleHandlersConfined, UserHandlersConfined
  <1>5. ASSUME NEW k \in KeyIds, ExpireAPIKey(k) PROVE FALSE
    BY <1>0, <1>5 DEF ExpireAPIKey, vars
  <1>6. ASSUME NEW u \in Users, Register(u) PROVE FALSE
    BY <1>0, <1>6 DEF Register
  <1>7. ASSUME Cli PROVE FALSE
    BY <1>0, <1>7 DEF Cli, SetSuperuser, GrantRoleByKey
  <1> QED
    BY <1>1, <1>2, <1>3, <1>4, <1>5, <1>6, <1>7 DEF KeysNext, RbacStep

\* A key stays within the scope it was made with: for any number of requests, keys and
\* roles, and whatever the operator makes of its owner, no request that came with it
\* puts a permission outside that scope into a role or another key; alone, it neither
\* hands out nor edits nor deletes a role that grants one (README.md:300-309).
THEOREM KeysStayConfined == KeysSpec => KeysConfined
  <1>1. KeysInit => KeyScope
    BY DEF KeysInit, KeyScope
  <1> QED
    BY <1>1, KeysTypeCorrect, NextKeyScope, NextConfined, PTL DEF KeysSpec, KeysConfined
=============================================================================
