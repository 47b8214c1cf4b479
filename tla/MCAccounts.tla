------------------------------ MODULE MCAccounts ------------------------------
(***************************************************************************)
(* Small instances of Accounts.                                            *)
(***************************************************************************)
EXTENDS Accounts, TLC

Symmetry == Permutations(InvitationIds) \cup Permutations(Reqs)
              \cup Permutations(LinkIds) \cup Permutations(Emails)
=============================================================================
