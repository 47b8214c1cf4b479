-------------------------------- MODULE Rbac --------------------------------
(***************************************************************************)
(* Users, roles and the assignment of one to the other: the HTTP requests  *)
(* that change them (internal/identity/roles_service.go, service.go) and   *)
(* the commands of the operator's CLI, over one Postgres database.         *)
(*                                                                         *)
(* A request is a slot of `req`.  It authenticates, has its authority      *)
(* resolved once by the middleware, and then runs one handler against that *)
(* snapshot.  database.InTx opens a READ COMMITTED transaction and nothing *)
(* in the code locks a row it has only read, so every SELECT is a step of  *)
(* its own and sees whatever has been committed by then; the writes of a   *)
(* transaction become visible together, in the step that commits.          *)
(*                                                                         *)
(* A request that ends with result "ok" has committed its audit row in the *)
(* same transaction: `op`, `actor`, `target`, `before` and `ids` of the    *)
(* finished slot are the columns and metadata of that row.                 *)
(***************************************************************************)
EXTENDS Naturals, FiniteSets

CONSTANTS
    Users,            \* accounts, registered or yet to register
    RoleIds,          \* role ids: the seeded ones and those CreateRole will draw
    Perms,            \* rows of the permissions table
    Reqs,             \* requests the replicas serve at the same time
    Callers,          \* users who send requests
    CliUsers,         \* users the operator names in a CLI command
    Catalog,          \* permissions this build enforces
    PermUsersUpdate, PermRolesCreate, PermRolesUpdate, PermRolesDelete,
    SystemRoles,      \* roles with is_system, seeded by the migration
    AdminRole,        \* the system role whose key is "admin"
    KeyOf,            \* the unique key a role id is (or will be) stored under
    Nobody, NoRole,   \* fillers for fields a request does not use
    SeedUsers, SeedSuperusers, SeedRoles, SeedPerms, SeedUserRoles

ASSUME RbacAssumption ==
    /\ Callers \subseteq Users /\ CliUsers \subseteq Users
    /\ Catalog \subseteq Perms
    /\ {PermUsersUpdate, PermRolesCreate, PermRolesUpdate, PermRolesDelete}
           \subseteq Catalog
    /\ AdminRole \in SystemRoles /\ SystemRoles \subseteq SeedRoles
    /\ Nobody \notin Users /\ NoRole \notin RoleIds
    /\ SeedUsers \subseteq Users /\ SeedSuperusers \subseteq SeedUsers
    /\ SeedRoles \subseteq RoleIds
    /\ SeedPerms \in [RoleIds -> SUBSET Perms]
    /\ \A r \in RoleIds \ SeedRoles : SeedPerms[r] = {}
    /\ SeedUserRoles \in [Users -> SUBSET SeedRoles]

VARIABLES
    registered,   \* rows of users
    active,       \* users.is_active
    superuser,    \* users.is_superuser
    roleState,    \* rows of roles; ids are never drawn twice
    rolePerms,    \* role_permissions
    userRoles,    \* user_roles
    conferred,    \* history: what the callers were given from outside the API
    req           \* the requests in flight

db == <<registered, active, superuser, roleState, rolePerms, userRoles>>
vars == <<db, conferred, req>>

Live == {r \in RoleIds : roleState[r] = "live"}

\* unionPermissions: a set of roles grants the union of their permissions.
UnionPerms(rs) == UNION {rolePerms[r] : r \in rs}

(***************************************************************************)
(* Service.Authorize.  A superuser holds the catalog and no roles at all.  *)
(***************************************************************************)
AccessOf(u, isSuper) ==
    IF isSuper
    THEN [perms |-> Catalog, roles |-> {}, viaSuperuser |-> TRUE]
    ELSE [perms |-> UnionPerms(userRoles[u]), roles |-> userRoles[u],
          viaSuperuser |-> FALSE]

\* What user u could do with a request authorized now.
Authority(u) == AccessOf(u, superuser[u]).perms

\* CountUsersWithRole and CountActiveUsersWithRole, for the admin role.
Admins == {u \in Users : AdminRole \in userRoles[u]}
ActiveAdmins == {u \in Admins : active[u]}

-----------------------------------------------------------------------------
(* Requests. *)

Access == [perms : SUBSET Perms, roles : SUBSET RoleIds, viaSuperuser : BOOLEAN]
NoAccess == [perms |-> {}, roles |-> {}, viaSuperuser |-> FALSE]

Pcs == {"idle", "authenticated", "authorized", "updating", "deleting",
        "loading", "counting", "clearing", "assigning",
        "countingActive", "activating", "done"}
Ops == {"none", "create", "update", "delete", "roles", "active"}
Results == {"none", "ok", "invalid", "forbidden", "escalation", "not_found",
            "system_role", "key_taken", "role_in_use", "last_admin", "conflict"}

Request ==
    [pc : Pcs, op : Ops, actor : Users \cup {Nobody},
     isSuper : BOOLEAN,             \* the caller's users row, as authenticated
     access : Access,               \* the authority resolved by requireAccess
     role : RoleIds \cup {NoRole},  \* UpdateRole, DeleteRole: the role named
     perms : SUBSET Perms,          \* UpdateRole: the new permission set
     target : Users \cup {Nobody},  \* SetUserRoles, SetUserActive
     ids : SUBSET RoleIds,          \* SetUserRoles: the new role set
     before : SUBSET RoleIds,       \* SetUserRoles: LoadUserRoles' answer
     rows : SUBSET RoleIds,         \* SetUserRoles: rows the DELETE can see
     activate : BOOLEAN,            \* SetUserActive: the new flag
     result : Results]

Idle == [pc |-> "idle", op |-> "none", actor |-> Nobody, isSuper |-> FALSE,
         access |-> NoAccess, role |-> NoRole, perms |-> {}, target |-> Nobody,
         ids |-> {}, before |-> {}, rows |-> {}, activate |-> FALSE,
         result |-> "none"]

\* What a request in flight has been given by the steps before.
Shape(x) ==
    /\ x.pc = "authenticated" => x.actor \in Callers
    /\ x.pc \in {"updating", "deleting"} => x.role \in RoleIds \ SystemRoles
    /\ x.pc \in {"loading", "counting", "clearing", "assigning",
                "countingActive", "activating"} => x.target \in Users

\* What is left of request x once it is answered: of a refusal, the answer.
Answered(x, result) ==
    IF result = "ok"
    THEN [x EXCEPT !.pc = "done", !.result = result,
                   !.isSuper = FALSE, !.access = NoAccess, !.rows = {}]
    ELSE [Idle EXCEPT !.pc = "done", !.result = result]

\* The handler of request q answers.
Answer(q, result) == req' = [req EXCEPT ![q] = Answered(@, result)]

\* It refuses, which also rolls its transaction back.
Refuse(q, result) == Answer(q, result) /\ UNCHANGED <<db, conferred>>

\* The route of an operation, behind requirePermission(p).
Authorized(q, p) == req[q].pc = "authorized" /\ p \in req[q].access.perms

\* Bug: checkEscalation is not called.
MayGrantAll(q, perms) == TRUE

\* checkEscalation: nobody grants what their own snapshot does not hold.
MayGrant(q, perms) == perms \subseteq req[q].access.perms

\* validateRoleInput, for the permissions: at least one, all of them enforced.
ValidPerms(perms) == perms # {} /\ perms \subseteq Catalog

-----------------------------------------------------------------------------
(* The middleware. *)

\* requireAuth: the session's user, read while the account is active.
Authenticate(q, u) ==
    /\ req[q].pc = "idle"
    /\ u \in registered /\ active[u]
    /\ req' = [req EXCEPT ![q] = [Idle EXCEPT !.pc = "authenticated",
                                              !.actor = u,
                                              !.isSuper = superuser[u]]]
    /\ UNCHANGED <<db, conferred>>

\* requireAccess: the authority every later check of this request will use.
Authorize(q) ==
    /\ req[q].pc = "authenticated"
    /\ req' = [req EXCEPT ![q] =
                 [@ EXCEPT !.pc = "authorized",
                           !.access = AccessOf(req[q].actor, req[q].isSuper)]]
    /\ UNCHANGED <<db, conferred>>

\* requirePermission turns away a caller whose snapshot lacks the permission.
Forbid(q, p) ==
    /\ req[q].pc = "authorized"
    /\ p \notin req[q].access.perms
    /\ Refuse(q, "forbidden")

\* The client has its answer, or is gone before it: the slot is free again, and
\* InTx has rolled back whatever transaction was open.
Finish(q) ==
    /\ req[q].pc # "idle"
    /\ req' = [req EXCEPT ![q] = Idle]
    /\ UNCHANGED <<db, conferred>>

-----------------------------------------------------------------------------
(* CreateRole, UpdateRole, DeleteRole. *)

\* The guard reads only the snapshot, and the key's uniqueness is the index's,
\* so one step serves: r is the id the new row gets.
CreateRole(q, r, perms) ==
    /\ Authorized(q, PermRolesCreate)
    /\ roleState[r] = "unused"
    /\ \/ ~ValidPerms(perms) /\ Refuse(q, "invalid")
       \/ /\ ValidPerms(perms) /\ ~MayGrant(q, perms)
          /\ Refuse(q, "escalation")
       \/ /\ ValidPerms(perms) /\ MayGrant(q, perms)
          /\ \E s \in Live : KeyOf[s] = KeyOf[r]
          /\ Refuse(q, "key_taken")
       \/ /\ ValidPerms(perms) /\ MayGrant(q, perms)
          /\ \A s \in Live : KeyOf[s] # KeyOf[r]
          /\ roleState' = [roleState EXCEPT ![r] = "live"]
          /\ rolePerms' = [rolePerms EXCEPT ![r] = perms]
          /\ req' = [req EXCEPT ![q] =
                       Answered([@ EXCEPT !.op = "create", !.role = r], "ok")]
          /\ UNCHANGED <<registered, active, superuser, userRoles, conferred>>

\* Bug: is_system is not looked at.
UpdateRoleReadAny(q, r, perms) ==
    /\ Authorized(q, PermRolesUpdate)
    /\ r \in Live /\ ValidPerms(perms)
    /\ MayGrant(q, perms) /\ MayGrant(q, rolePerms[r])
    /\ req' = [req EXCEPT ![q] = [@ EXCEPT !.pc = "updating", !.op = "update",
                                           !.role = r, !.perms = perms]]
    /\ UNCHANGED <<db, conferred>>

\* UpdateRole up to repo.GetRole and the checks on the role it returned.
UpdateRoleRead(q, r, perms) ==
    /\ Authorized(q, PermRolesUpdate)
    /\ \/ ~ValidPerms(perms) /\ Refuse(q, "invalid")
       \/ /\ ValidPerms(perms) /\ ~MayGrant(q, perms)
          /\ Refuse(q, "escalation")
       \/ /\ ValidPerms(perms) /\ MayGrant(q, perms)
          /\ \/ r \notin Live /\ Refuse(q, "not_found")
             \/ r \in SystemRoles /\ Refuse(q, "system_role")
             \/ /\ r \in Live \ SystemRoles /\ ~MayGrant(q, rolePerms[r])
                /\ Refuse(q, "escalation")
             \/ /\ r \in Live \ SystemRoles /\ MayGrant(q, rolePerms[r])
                /\ req' = [req EXCEPT ![q] =
                             [@ EXCEPT !.pc = "updating", !.op = "update",
                                       !.role = r, !.perms = perms]]
                /\ UNCHANGED <<db, conferred>>

\* repo.UpdateRole: the UPDATE locks the row, then replaceRolePermissions.
UpdateRoleWrite(q) ==
    LET r == req[q].role IN
    /\ req[q].pc = "updating"
    /\ \/ /\ r \notin Live
          /\ Answer(q, "not_found")
          /\ UNCHANGED <<db, conferred>>
       \/ /\ r \in Live
          /\ rolePerms' = [rolePerms EXCEPT ![r] = req[q].perms]
          /\ Answer(q, "ok")
          /\ UNCHANGED <<registered, active, superuser, roleState, userRoles,
                         conferred>>

DeleteRoleRead(q, r) ==
    /\ Authorized(q, PermRolesDelete)
    /\ \/ r \notin Live /\ Refuse(q, "not_found")
       \/ r \in SystemRoles /\ Refuse(q, "system_role")
       \/ /\ r \in Live \ SystemRoles /\ ~MayGrant(q, rolePerms[r])
          /\ Refuse(q, "escalation")
       \/ /\ r \in Live \ SystemRoles /\ MayGrant(q, rolePerms[r])
          /\ req' = [req EXCEPT ![q] = [@ EXCEPT !.pc = "deleting",
                                                 !.op = "delete", !.role = r]]
          /\ UNCHANGED <<db, conferred>>

\* Bug: user_roles.role_id does not restrict the deletion.
DeleteRoleWriteAny(q) ==
    LET r == req[q].role IN
    /\ req[q].pc = "deleting" /\ r \in Live
    /\ roleState' = [roleState EXCEPT ![r] = "deleted"]
    /\ rolePerms' = [rolePerms EXCEPT ![r] = {}]
    /\ Answer(q, "ok")
    /\ UNCHANGED <<registered, active, superuser, userRoles, conferred>>

\* repo.DeleteRole: user_roles.role_id is ON DELETE RESTRICT.
DeleteRoleWrite(q) ==
    LET r == req[q].role
        held == \E u \in Users : r \in userRoles[u] IN
    /\ req[q].pc = "deleting"
    /\ \/ r \notin Live /\ Refuse(q, "not_found")
       \/ r \in Live /\ held /\ Refuse(q, "role_in_use")
       \/ /\ r \in Live /\ ~held
          /\ roleState' = [roleState EXCEPT ![r] = "deleted"]
          /\ rolePerms' = [rolePerms EXCEPT ![r] = {}]
          /\ Answer(q, "ok")
          /\ UNCHANGED <<registered, active, superuser, userRoles, conferred>>

-----------------------------------------------------------------------------
(* SetUserRoles: five statements, each with a snapshot of its own. *)

\* GetRolesByIDs, then the escalation guard on what it returned.
SetUserRolesResolve(q, t, ids) ==
    /\ Authorized(q, PermUsersUpdate)
    /\ \/ ~(ids \subseteq Live) /\ Refuse(q, "not_found")
       \/ /\ ids \subseteq Live /\ ~MayGrant(q, UnionPerms(ids))
          /\ Refuse(q, "escalation")
       \/ /\ ids \subseteq Live /\ MayGrant(q, UnionPerms(ids))
          /\ req' = [req EXCEPT ![q] = [@ EXCEPT !.pc = "loading", !.op = "roles",
                                                 !.target = t, !.ids = ids]]
          /\ UNCHANGED <<db, conferred>>

\* Bug: anyone with users.update may take the admin role away.
SetUserRolesLoadAny(q) ==
    LET before == userRoles[req[q].target] IN
    /\ req[q].pc = "loading"
    /\ req' = [req EXCEPT ![q] =
                 [@ EXCEPT !.pc = IF AdminRole \in before \ req[q].ids
                                  THEN "counting" ELSE "clearing",
                           !.before = before]]
    /\ UNCHANGED <<db, conferred>>

\* LoadUserRoles(target), then the two questions asked of an admin's roles.
SetUserRolesLoad(q) ==
    LET before == userRoles[req[q].target]
        isAdmin == AdminRole \in before
        outranked == ~req[q].access.viaSuperuser
                        /\ AdminRole \notin req[q].access.roles IN
    /\ req[q].pc = "loading"
    /\ \/ isAdmin /\ outranked /\ Answer(q, "forbidden")
       \/ /\ ~(isAdmin /\ outranked)
          /\ req' = [req EXCEPT ![q] =
                       [@ EXCEPT !.pc = IF isAdmin /\ AdminRole \notin req[q].ids
                                        THEN "counting" ELSE "clearing",
                                 !.before = before]]
    /\ UNCHANGED <<db, conferred>>

\* Bug: off by one, the last admin may go.
SetUserRolesCountLess(q) ==
    /\ req[q].pc = "counting"
    /\ \/ Cardinality(Admins) < 1 /\ Answer(q, "last_admin")
       \/ /\ Cardinality(Admins) >= 1
          /\ req' = [req EXCEPT ![q].pc = "clearing"]
    /\ UNCHANGED <<db, conferred>>

\* CountUsersWithRole(admin), active or not.
SetUserRolesCount(q) ==
    /\ req[q].pc = "counting"
    /\ \/ Cardinality(Admins) <= 1 /\ Answer(q, "last_admin")
       \/ /\ Cardinality(Admins) > 1
          /\ req' = [req EXCEPT ![q].pc = "clearing"]
    /\ UNCHANGED <<db, conferred>>

\* Bug: no DELETE, the new roles are added to the old ones.
SetUserRolesClearNot(q) ==
    /\ req[q].pc = "clearing"
    /\ req' = [req EXCEPT ![q] = [@ EXCEPT !.pc = "assigning", !.rows = {}]]
    /\ UNCHANGED <<db, conferred>>

\* DELETE FROM user_roles: only rows committed by now can be deleted, even if
\* the statement then waits for another transaction that is deleting them.
SetUserRolesClear(q) ==
    /\ req[q].pc = "clearing"
    /\ req' = [req EXCEPT ![q] = [@ EXCEPT !.pc = "assigning",
                                           !.rows = userRoles[req[q].target]]]
    /\ UNCHANGED <<db, conferred>>

\* The INSERTs and the commit.  A row that appeared after the DELETE's snapshot
\* stays, and collides with an INSERT of the same row; a role or a user that is
\* not there fails the foreign key.  The rows deleted here are gone for a DELETE
\* that has seen them too: a row inserted anew is not the one it saw.
SetUserRolesAssign(q) ==
    LET t == req[q].target
        ids == req[q].ids
        kept == userRoles[t] \ req[q].rows
        insertable == /\ kept \cap ids = {}
                      /\ ids \subseteq Live
                      /\ ids # {} => t \in registered IN
    /\ req[q].pc = "assigning"
    /\ \/ ~insertable /\ Refuse(q, "conflict")
       \/ /\ insertable
          /\ userRoles' = [userRoles EXCEPT ![t] = kept \cup ids]
          /\ req' = [p \in Reqs |->
                       IF p = q
                       THEN Answered(req[p], "ok")
                       ELSE IF req[p].pc = "assigning" /\ req[p].target = t
                       THEN [req[p] EXCEPT !.rows = @ \ req[q].rows]
                       ELSE req[p]]
          /\ UNCHANGED <<registered, active, superuser, roleState, rolePerms,
                         conferred>>

-----------------------------------------------------------------------------
(* SetUserActive. *)

\* Bug: no self-check.
SetUserActiveLoadSelf(q, t, activate) ==
    /\ Authorized(q, PermUsersUpdate)
    /\ req' = [req EXCEPT ![q] =
                 [@ EXCEPT !.pc = IF /\ ~activate /\ ~req[q].isSuper
                                     /\ AdminRole \in userRoles[t]
                                  THEN "countingActive" ELSE "activating",
                           !.op = "active", !.target = t, !.activate = activate]]
    /\ UNCHANGED <<db, conferred>>

\* The self-check, and LoadUserRoles(target) on a deactivation by anyone whose
\* own users row is not a superuser's.
SetUserActiveLoad(q, t, activate) ==
    /\ Authorized(q, PermUsersUpdate)
    /\ \/ t = req[q].actor /\ ~activate /\ Refuse(q, "invalid")
       \/ /\ activate \/ t # req[q].actor
          /\ req' = [req EXCEPT ![q] =
                       [@ EXCEPT !.pc = IF /\ ~activate /\ ~req[q].isSuper
                                           /\ AdminRole \in userRoles[t]
                                        THEN "countingActive" ELSE "activating",
                                 !.op = "active", !.target = t,
                                 !.activate = activate]]
          /\ UNCHANGED <<db, conferred>>

\* CountActiveUsersWithRole(admin).
SetUserActiveCount(q) ==
    /\ req[q].pc = "countingActive"
    /\ \/ Cardinality(ActiveAdmins) <= 1 /\ Answer(q, "last_admin")
       \/ /\ Cardinality(ActiveAdmins) > 1
          /\ req' = [req EXCEPT ![q].pc = "activating"]
    /\ UNCHANGED <<db, conferred>>

\* repo.SetUserActive and the commit.  The sessions it revokes on a
\* deactivation could not authenticate anyway: Authenticate asks for is_active.
SetUserActiveWrite(q) ==
    LET t == req[q].target IN
    /\ req[q].pc = "activating"
    /\ \/ t \notin registered /\ Refuse(q, "not_found")
       \/ /\ t \in registered
          /\ active' = [active EXCEPT ![t] = req[q].activate]
          /\ Answer(q, "ok")
          /\ UNCHANGED <<registered, superuser, roleState, rolePerms, userRoles,
                         conferred>>

-----------------------------------------------------------------------------
(* Registration, and the CLI, which has no caller whose authority to check.  *)
(* What it gives to a caller is added to `conferred`.                        *)

Register(u) ==
    /\ u \notin registered
    /\ registered' = registered \cup {u}
    /\ active' = [active EXCEPT ![u] = TRUE]
    /\ UNCHANGED <<superuser, roleState, rolePerms, userRoles, conferred, req>>

Confer(u, perms) ==
    conferred' = IF u \in Callers THEN conferred \cup perms ELSE conferred

SetSuperuser(u, isSuper) ==
    /\ u \in registered
    /\ superuser' = [superuser EXCEPT ![u] = isSuper]
    /\ Confer(u, IF isSuper THEN Catalog ELSE {})
    /\ UNCHANGED <<registered, active, roleState, rolePerms, userRoles, req>>

GrantRoleByKey(u, r) ==
    /\ u \in registered /\ r \in Live
    /\ userRoles' = [userRoles EXCEPT ![u] = @ \cup {r}]
    /\ Confer(u, rolePerms[r])
    /\ UNCHANGED <<registered, active, superuser, roleState, rolePerms, req>>

-----------------------------------------------------------------------------

Init ==
    /\ registered = SeedUsers
    /\ active = [u \in Users |-> u \in SeedUsers]
    /\ superuser = [u \in Users |-> u \in SeedSuperusers]
    /\ roleState = [r \in RoleIds |-> IF r \in SeedRoles THEN "live" ELSE "unused"]
    /\ rolePerms = SeedPerms
    /\ userRoles = SeedUserRoles
    /\ conferred = UNION {Authority(u) \cup UnionPerms(userRoles[u]) : u \in Callers}
    /\ req = [q \in Reqs |-> Idle]

RoutePerms ==
    {PermRolesCreate, PermRolesUpdate, PermRolesDelete, PermUsersUpdate}

Middleware(q) ==
    \/ \E u \in Callers : Authenticate(q, u)
    \/ Authorize(q)
    \/ \E p \in RoutePerms : Forbid(q, p)
    \/ Finish(q)

RoleHandlers(q) ==
    \/ \E r \in RoleIds, perms \in SUBSET Perms : CreateRole(q, r, perms)
    \/ \E r \in RoleIds, perms \in SUBSET Perms : UpdateRoleRead(q, r, perms)
    \/ UpdateRoleWrite(q)
    \/ \E r \in RoleIds : DeleteRoleRead(q, r)
    \/ DeleteRoleWrite(q)

UserHandlers(q) ==
    \/ \E t \in Users, ids \in SUBSET RoleIds : SetUserRolesResolve(q, t, ids)
    \/ SetUserRolesLoad(q)
    \/ SetUserRolesCount(q)
    \/ SetUserRolesClear(q)
    \/ SetUserRolesAssign(q)
    \/ \E t \in Users, activate \in BOOLEAN : SetUserActiveLoad(q, t, activate)
    \/ SetUserActiveCount(q)
    \/ SetUserActiveWrite(q)

Cli ==
    \/ \E u \in CliUsers, isSuper \in BOOLEAN : SetSuperuser(u, isSuper)
    \/ \E u \in CliUsers, r \in RoleIds : GrantRoleByKey(u, r)

Next ==
    \/ \E q \in Reqs : Middleware(q) \/ RoleHandlers(q) \/ UserHandlers(q)
    \/ \E u \in Users : Register(u)
    \/ Cli

Spec == Init /\ [][Next]_vars

-----------------------------------------------------------------------------
(* Properties. *)

\* The type invariant: every row and every request in flight has its shape.
TypeOK ==
    /\ registered \subseteq Users
    /\ active \in [Users -> BOOLEAN]
    /\ superuser \in [Users -> BOOLEAN]
    /\ roleState \in [RoleIds -> {"unused", "live", "deleted"}]
    /\ rolePerms \in [RoleIds -> SUBSET Perms]
    /\ userRoles \in [Users -> SUBSET RoleIds]
    /\ conferred \subseteq Perms
    /\ req \in [Reqs -> Request]
    /\ \A q \in Reqs : Shape(req[q])

\* Nobody escalates: however the callers' requests interleave, none of them can
\* come to hold a permission that no caller held at the start and the CLI gave to
\* none of them, because every path that moves a permission passes
\* checkEscalation (roles_service.go:14-22).
NoEscalation == \A u \in Callers : Authority(u) \subseteq conferred

\* Why it holds: what a request may still hand out stays under what was conferred.
\* A role named by an assignment, or a permission set on its way into a role, was
\* within the snapshot of the caller who sent it; and if that role is edited in the
\* meantime, the new permissions are within another caller's.
Within(rs, limit) == \A r \in rs : rolePerms[r] \subseteq limit

RequestBound(x) ==
    /\ x.access.perms \subseteq conferred
    /\ x.isSuper => Catalog \subseteq conferred
    /\ x.pc = "updating" => x.perms \subseteq conferred
    /\ x.pc \in {"loading", "counting", "clearing", "assigning"} =>
         Within(x.ids, conferred)

Ceiling ==
    /\ \A u \in Callers : /\ superuser[u] => Catalog \subseteq conferred
                          /\ Within(userRoles[u], conferred)
    /\ \A q \in Reqs : RequestBound(req[q])

\* A role somebody holds exists: DeleteRole refuses it while in use, and an
\* assignment racing with the deletion fails its foreign key.
HeldRolesExist == \A u \in Users : userRoles[u] \subseteq Live

\* The roles the application ships are never edited or deleted
\* (ErrSystemRole), so the admin role can always be handed on.
SystemRolesIntact ==
    \A r \in SystemRoles : roleState[r] = "live" /\ rolePerms[r] = SeedPerms[r]

\* An installation with an admin keeps one: demoting the last is refused
\* (CountUsersWithRole).  It holds while requests run one at a time.
AdminRemains == Admins # {}

\* The request that commits in this step: it was about to write and is answered.
Commits(q, op) ==
    req[q].pc # "done" /\ req'[q].pc = "done" /\ req'[q].result = "ok"
        /\ req'[q].op = op

\* Demoting an admin is an admin-level act (roles_service.go:219-223): the admin
\* role is only taken by a request whose caller is an admin or a superuser.
DemotionByAdmin ==
    [][\A u \in Users : AdminRole \in userRoles[u] \ userRoles'[u] =>
         \E q \in Reqs : /\ Commits(q, "roles") /\ req[q].target = u
                         /\ \/ req[q].access.viaSuperuser
                            \/ AdminRole \in req[q].access.roles]_vars

\* An ordinary member may not deactivate an admin either (README.md:158-163).  The
\* code asks how many admins are active and not who the caller is, so this one is
\* violated, by one request and nothing beside it.
DeactivationByAdmin ==
    [][\A u \in Users : active[u] /\ ~active'[u] /\ AdminRole \in userRoles[u] =>
         \E q \in Reqs : /\ Commits(q, "active") /\ req[q].target = u
                         /\ \/ req[q].access.viaSuperuser
                            \/ AdminRole \in req[q].access.roles]_vars

\* The audit row of SetUserRoles tells what happened: its "from" and "to" are the
\* role sets on either side of the commit.
AuditTellsChange ==
    [][\A q \in Reqs : Commits(q, "roles") =>
         LET t == req[q].target IN
         userRoles[t] = req'[q].before /\ userRoles'[t] = req'[q].ids]_vars

-----------------------------------------------------------------------------
\* Served one at a time, the staged handlers are the atomic operations of
\* AtomicRbac, whose guards all still hold when the write commits.  Deactivating an
\* admin without outranking them is the one exception (see DeactivationByAdmin).
Atomic == INSTANCE AtomicRbac
AtomicButForRank == Atomic!SpecButForRank
=============================================================================
