------------------------------- MODULE MCHost -------------------------------
(***************************************************************************)
(* Instances of Host: two releases, two process ids, one command at a time *)
(***************************************************************************)
EXTENDS Host
=============================================================================
