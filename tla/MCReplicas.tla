------------------------------ MODULE MCReplicas ------------------------------
(***************************************************************************)
(* Two replicas and two builds.  The new build lists the permissions in    *)
(* another order and has dropped one.                                      *)
(***************************************************************************)
EXTENDS Replicas, TLC

CONSTANTS old, new, read, write, gone

MCCatalog == (old :> <<read, write, gone>>) @@ (new :> <<write, read>>)
MCEdits == {{read}, {read, gone}}
=============================================================================
