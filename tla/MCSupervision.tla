--------------------------- MODULE MCSupervision ---------------------------
(* Instances of Supervision for TLC: the replicas are model values.         *)
EXTENDS Supervision, TLC

Symmetry == Permutations(Indices)

=============================================================================
