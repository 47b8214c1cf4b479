---------------------------- MODULE MCCredentials ----------------------------
(***************************************************************************)
(* Small instances of Credentials.  Session, link and request ids are      *)
(* interchangeable, which the safety runs use.                             *)
(***************************************************************************)
EXTENDS Credentials, TLC

Symmetry == Permutations(SessionIds) \cup Permutations(LinkIds)
              \cup Permutations(Reqs) \cup Permutations(Passwords)
=============================================================================
