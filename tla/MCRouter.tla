------------------------------ MODULE MCRouter ------------------------------
(* Instances of Router for TLC: requests and replica ids are model values,  *)
(* or requests are numbers, where they arrive in order.                     *)
EXTENDS Router, TLC

Symmetry == Permutations(Requests) \cup Permutations(ReplicaIds)

\* Requests are interchangeable, so nothing is lost when they arrive in the order of their
\* numbers.  Arrivals are under no fairness, so liveness is not affected either.
ArriveInOrder ==
    \A r, s \in Requests :
        r < s /\ pc[s] = "idle" /\ pc'[s] # "idle" => pc[r] # "idle"

=============================================================================
