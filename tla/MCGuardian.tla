----------------------------- MODULE MCGuardian -----------------------------
(***************************************************************************)
(* Instances of Guardian for TLC; the .cfg files give the constants.       *)
(***************************************************************************)
EXTENDS Guardian
=============================================================================
