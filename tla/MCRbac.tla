------------------------------- MODULE MCRbac -------------------------------
(***************************************************************************)
(* Small installations for Rbac.  The admin role grants everything; member *)
(* is the other role the migration ships, with none of the permissions     *)
(* here; desk is a custom role that manages users and roles but no more;   *)
(* spare is an id CreateRole has yet to draw.                              *)
(***************************************************************************)
EXTENDS Rbac, TLC

CONSTANTS ann, bob, cyd,                 \* users
          admin, member, desk, spare,    \* role ids
          pUsers, pRoles, pOther         \* permissions

\* spare is asked for under a key of its own, or under the one desk has.
MCOwnKeys == [r \in RoleIds |-> r]
MCReusedKey == [r \in RoleIds |-> IF r = spare THEN desk ELSE r]

MCSeedPerms ==
    [r \in RoleIds |-> CASE r = admin -> Perms
                         [] r = desk -> {pUsers, pRoles} \cap Perms
                         [] OTHER -> {}]

\* One admin, one who works the desk, and anybody else without a role.
MCStaff ==
    [u \in Users |-> CASE u = ann -> {admin} [] u = bob -> {desk} [] OTHER -> {}]

\* One admin, and nobody else with a role: bob has yet to register.
MCOneAdmin == [u \in Users |-> IF u = ann THEN {admin} ELSE {}]

\* ann and bob are both admins, and cyd works the desk.
MCTwoAdmins ==
    [u \in Users |-> IF u \in {ann, bob} THEN {admin} ELSE {desk}]

Symmetry == Permutations(Reqs)
=============================================================================
