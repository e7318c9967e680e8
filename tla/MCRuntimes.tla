----------------------------- MODULE MCRuntimes -----------------------------
(* An instance of Runtimes for TLC: two engines that are interchangeable,   *)
(* an upgrade and another command, two nodes.                               *)
EXTENDS Runtimes, TLC

Symmetry == Permutations(Engines)
=============================================================================
