----------------------------- MODULE MCAuditLog -----------------------------
(***************************************************************************)
(* Two requests and one reader, who does not ask for the failed logins.    *)
(***************************************************************************)
EXTENDS AuditLog, TLC

MCFilters == {{"change", "denial"}}
Symmetry == Permutations(Reqs)
=============================================================================
