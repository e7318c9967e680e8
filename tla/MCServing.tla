------------------------------ MODULE MCServing ------------------------------
(***************************************************************************)
(* Two topologies.  The first is fast and reaches a plateau, the second    *)
(* gains from concurrency but may break the latency limit or fail          *)
(* requests.                                                               *)
(***************************************************************************)
EXTENDS Serving, TLC

O(tps, lat, err, some) == [tps |-> tps, lat |-> lat, err |-> err, some |-> some]

MCOptions == {[plans |-> <<"p", "q">>, fixed |-> FALSE], [plans |-> <<"q">>, fixed |-> TRUE]}
MCGoals == {[objective |-> "throughput", limit |-> 0], [objective |-> "latency", limit |-> 20]}
Elsewhere == [c \in 1..32 |-> {O(90, 30, 0, TRUE)}]
MCOutcomes ==
    [p |-> (2 :> {O(100, 10, 0, TRUE)} @@ 4 :> {O(150, 12, 0, TRUE), O(101, 30, 0, TRUE)}
            @@ 6 :> {O(160, 14, 0, TRUE)} @@ 8 :> {O(151, 30, 0, TRUE)} @@ 12 :> {O(90, 40, 0, TRUE)}
            @@ Elsewhere),
     q |-> (2 :> {O(80, 10, 0, TRUE)} @@ 4 :> {O(120, 15, 1, TRUE), O(120, 15, 7, TRUE)}
            @@ 6 :> {O(140, 17, 0, TRUE)} @@ 8 :> {O(200, 19, 0, TRUE), O(0, 1, 100, FALSE)}
            @@ 12 :> {O(205, 25, 0, TRUE)} @@ Elsewhere)]
MCSweepPoints == <<2, 4, 8>>
MCRaised == (80 :> 82 @@ 84 :> 84)
MCFree == (80 :> 83 @@ 84 :> 88)
MCMinor == <<1, 1, 2>>

\* The tuner neither reads nor writes the state file, and the other terminals do not read
\* the record: what they do while it runs may as well be done before or after, and it is
\* enough to have them while the records are few.
Alone == shell["there"] = "off" /\ stopper = "idle" /\ file \in {"none", "here"} /\ raced = {}
Apart ==
    /\ Running => UNCHANGED <<file, stopper>> /\ shell'["there"] = shell["there"]
    /\ Alone' \/ (runs' <= 1 /\ setbacks' = 0)
=============================================================================
