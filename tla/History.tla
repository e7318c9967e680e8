------------------------------ MODULE History ------------------------------
(***************************************************************************)
(* What optimization/store.py promises its readers (the agent, the report, *)
(* the deployment): one experiment at a time, numbered without gaps, each  *)
(* settled once, by a verdict that never changes afterwards.  Crashes and  *)
(* resumed searches do not show at this level.                             *)
(***************************************************************************)
EXTENDS Naturals, Sequences

CONSTANTS
    Verdicts,  \* what an experiment can be settled with
    Open       \* not one of them: an experiment that was started and has no verdict

VARIABLE history  \* history[n]: the verdict of experiment n, or Open

Init == history = << >>

\* Every earlier experiment is settled before the next one starts.
Start ==
    /\ \A n \in DOMAIN history : history[n] # Open
    /\ history' = Append(history, Open)

Settle(n, v) ==
    /\ history[n] = Open
    /\ history' = [history EXCEPT ![n] = v]

Next == Start \/ \E n \in DOMAIN history, v \in Verdicts : Settle(n, v)

Spec == Init /\ [][Next]_history
=============================================================================
