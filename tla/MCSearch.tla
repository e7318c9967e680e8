------------------------------ MODULE MCSearch ------------------------------
(***************************************************************************)
(* Instances of Search for TLC; the constants are given by the .cfg files. *)
(***************************************************************************)
EXTENDS Search
=============================================================================
