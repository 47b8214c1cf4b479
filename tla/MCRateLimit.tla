----------------------------- MODULE MCRateLimit -----------------------------
(***************************************************************************)
(* A small instance of RateLimit: logging in is limited by the address and *)
(* then by the email.                                                      *)
(***************************************************************************)
EXTENDS RateLimit

CONSTANTS ip, email

MCRoutes == {<<ip, email>>}
=============================================================================
