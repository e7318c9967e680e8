----------------------------- MODULE MCWorkflow -----------------------------
(* An instance of Workflow for TLC.                                         *)
EXTENDS Workflow, TLC

\* Commands are interchangeable, so they begin in the order of their numbers; two of them
\* may run at a time, and a third one finds what they have left.
BeginInOrder ==
    \A q \in Processes : at[q] = "off" /\ at'[q] # "off" =>
        /\ \A p \in Processes : p < q => at[p] # "off"
        /\ q > 2 => \A p \in Processes : p < q => at[p] = "ended"

\* A change of the world commutes with every step that does not look at what has changed, so
\* it is enough to let it happen where somebody is about to look.
DriftWhenSeen ==
    /\ world'.image # world.image => \E p \in Processes : at[p] = "inspected"
    /\ world'.gpus # world.gpus =>
           \/ \E p \in Processes : at[p] = "setup"
           \/ recipe = "good" /\ \E p \in Processes : at[p] = "off"
    /\ world'.model # world.model => \E p \in Processes : at[p] \in {"setup", "loading", "staging"}
=============================================================================
