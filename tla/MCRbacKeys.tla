----------------------------- MODULE MCRbacKeys -----------------------------
(***************************************************************************)
(* A small installation for RbacKeys: an admin, a role that manages users, *)
(* roles and keys but no more, and somebody who has yet to register.       *)
(***************************************************************************)
EXTENDS RbacKeys, TLC

CONSTANTS ann, bob,                      \* users
          admin, desk,                   \* role ids
          pDesk, pOther                  \* permissions

MCOwnKeys == [r \in RoleIds |-> r]
MCSeedPerms == [r \in RoleIds |-> IF r = admin THEN Perms ELSE {pDesk}]
MCStaff == [u \in Users |-> IF u = ann THEN {admin} ELSE {}]

\* One key's row is as good as another's.
Symmetry == Permutations(KeyIds)
=============================================================================
