----------------------------- MODULE AtomicRbac -----------------------------
(***************************************************************************)
(* What the role editor promises, with every operation a single step that  *)
(* judges the caller by the authority they hold at that very moment.  The  *)
(* rank rules are those of README.md:158-163: only an admin or a superuser *)
(* demotes or deactivates an admin.                                        *)
(***************************************************************************)
EXTENDS FiniteSets

CONSTANTS
    Users, RoleIds, Perms, Callers, CliUsers, Catalog,
    PermUsersUpdate, PermRolesCreate, PermRolesUpdate, PermRolesDelete,
    SystemRoles, AdminRole, KeyOf,
    SeedUsers, SeedSuperusers, SeedRoles, SeedPerms, SeedUserRoles

VARIABLES registered, active, superuser, roleState, rolePerms, userRoles

accounts == <<registered, active, superuser>>
roleTable == <<roleState, rolePerms>>
atomicVars == <<accounts, roleTable, userRoles>>

Exists(r) == roleState[r] = "live"

Held(a) ==
    IF superuser[a] THEN Catalog ELSE UNION {rolePerms[r] : r \in userRoles[a]}

\* An account that may log in and use the route guarded by p.
May(a, p) == a \in Callers \cap registered /\ active[a] /\ p \in Held(a)

IsAdmin(u) == AdminRole \in userRoles[u]
Outranks(a) == superuser[a] \/ IsAdmin(a)

Init ==
    /\ registered = SeedUsers
    /\ active = [u \in Users |-> u \in SeedUsers]
    /\ superuser = [u \in Users |-> u \in SeedSuperusers]
    /\ roleState = [r \in RoleIds |-> IF r \in SeedRoles THEN "live" ELSE "unused"]
    /\ rolePerms = SeedPerms
    /\ userRoles = SeedUserRoles

\* A new role, under a free key, grants what its creator holds.
Create(a, r, perms) ==
    /\ May(a, PermRolesCreate)
    /\ perms \subseteq Held(a)
    /\ roleState[r] = "unused"
    /\ \A s \in RoleIds : Exists(s) => KeyOf[s] # KeyOf[r]
    /\ roleState' = [roleState EXCEPT ![r] = "live"]
    /\ rolePerms' = [rolePerms EXCEPT ![r] = perms]
    /\ UNCHANGED <<accounts, userRoles>>

\* A custom role is edited by someone who holds what it grants, before and after.
Edit(a, r, perms) ==
    /\ May(a, PermRolesUpdate)
    /\ Exists(r) /\ r \notin SystemRoles
    /\ perms \cup rolePerms[r] \subseteq Held(a)
    /\ rolePerms' = [rolePerms EXCEPT ![r] = perms]
    /\ UNCHANGED <<accounts, roleState, userRoles>>

\* It is deleted by someone who holds what it grants, while nobody holds it.
Delete(a, r) ==
    /\ May(a, PermRolesDelete)
    /\ Exists(r) /\ r \notin SystemRoles
    /\ rolePerms[r] \subseteq Held(a)
    /\ \A u \in Users : r \notin userRoles[u]
    /\ roleState' = [roleState EXCEPT ![r] = "deleted"]
    /\ rolePerms' = [rolePerms EXCEPT ![r] = {}]
    /\ UNCHANGED <<accounts, userRoles>>

\* A user ends up with exactly the roles asked for.  Whoever asks holds all that
\* these roles grant, outranks the user, and leaves the installation an admin.
Assign(a, t, ids) ==
    /\ May(a, PermUsersUpdate)
    /\ \A r \in ids : Exists(r) /\ rolePerms[r] \subseteq Held(a)
    /\ IsAdmin(t) => Outranks(a)
    /\ userRoles' = [userRoles EXCEPT ![t] = ids]
    /\ IsAdmin(t) => \E u \in Users : IsAdmin(u)'
    /\ UNCHANGED <<accounts, roleTable>>

\* What Activate does and asks, rank apart.
Switch(a, t, flag) ==
    /\ May(a, PermUsersUpdate)
    /\ t \in registered
    /\ flag \/ t # a
    /\ active' = [active EXCEPT ![t] = flag]
    /\ ~flag /\ ~superuser[a] /\ IsAdmin(t) =>
         \E u \in Users : active'[u] /\ IsAdmin(u)
    /\ UNCHANGED <<registered, superuser, roleTable, userRoles>>

\* An account is switched on or off.  Nobody locks themselves out, nobody but a
\* superuser switches off the last active admin, and nobody an admin they do not
\* outrank.
Activate(a, t, flag) ==
    /\ Switch(a, t, flag)
    /\ ~flag /\ IsAdmin(t) => Outranks(a)

SignUp(u) ==
    /\ u \notin registered
    /\ registered' = registered \cup {u}
    /\ active' = [active EXCEPT ![u] = TRUE]
    /\ UNCHANGED <<superuser, roleTable, userRoles>>

\* The operator's shell answers to nobody.
Operator(u) ==
    /\ u \in registered
    /\ \/ /\ \E flag \in BOOLEAN : superuser' = [superuser EXCEPT ![u] = flag]
          /\ UNCHANGED userRoles
       \/ /\ \E r \in RoleIds :
                Exists(r) /\ userRoles' = [userRoles EXCEPT ![u] = @ \cup {r}]
          /\ UNCHANGED superuser
    /\ UNCHANGED <<registered, active, roleTable>>

Next ==
    \/ \E a \in Callers, r \in RoleIds :
         \/ \E perms \in SUBSET Catalog : Create(a, r, perms) \/ Edit(a, r, perms)
         \/ Delete(a, r)
    \/ \E a \in Callers, t \in Users :
         \/ \E ids \in SUBSET RoleIds : Assign(a, t, ids)
         \/ \E flag \in BOOLEAN : Activate(a, t, flag)
    \/ \E u \in Users : SignUp(u)
    \/ \E u \in CliUsers : Operator(u)

Spec == Init /\ [][Next]_atomicVars

\* The one thing the code lets happen and the promise does not: an admin is
\* switched off by somebody of lower rank, whose request is otherwise in order.
UnrankedSwitch ==
    \E a \in Callers, t \in Users :
        IsAdmin(t) /\ ~Outranks(a) /\ Switch(a, t, FALSE)

SpecButForRank == Init /\ [][Next \/ UnrankedSwitch]_atomicVars
=============================================================================
