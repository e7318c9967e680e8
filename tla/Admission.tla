----------------------------- MODULE Admission -----------------------------
(***************************************************************************)
(* What the router promises its clients about admission, without           *)
(* semaphore, futures or counters: at most Limit requests are served at a   *)
(* time, at most Depth wait, they are served in the order they came, and a  *)
(* request is refused only when the line is full and nobody could be        *)
(* served instead of waiting.                                               *)
(***************************************************************************)
EXTENDS Integers, FiniteSets, Sequences, SequencesExt

CONSTANTS Requests, Limit, Depth

VARIABLES
    line,     \* requests that wait, in the order they came
    gaveUp,   \* those of them that no longer want to be served
    served,   \* requests being served
    settled,  \* requests that are over, by an answer or because nobody wants one
    refused   \* requests told that the server is overloaded

vars == <<line, gaveUp, served, settled, refused>>

Fresh(r) == r \notin Range(line) \cup served \cup settled \cup refused

HasRoom == Cardinality(served) < Limit

NobodyWaits == Range(line) \subseteq gaveUp

\* r is the one to be served next.
IsNext(r) ==
    \/ Fresh(r) /\ NobodyWaits
    \/ \E i \in DOMAIN line :
          /\ line[i] = r /\ r \notin gaveUp
          /\ \A j \in 1..(i - 1) : line[j] \in gaveUp

MustWait == ~NobodyWaits \/ ~HasRoom

\* r is taken out of the line, if it is in it.
TakeOut(r) ==
    \/ r \notin Range(line) /\ UNCHANGED line
    \/ \E i \in DOMAIN line : line[i] = r /\ line' = RemoveAt(line, i)

Init ==
    /\ line = <<>>
    /\ gaveUp = {}
    /\ served = {}
    /\ settled = {}
    /\ refused = {}

Join(r) ==
    /\ Fresh(r) /\ MustWait /\ Len(line) < Depth
    /\ line' = Append(line, r)
    /\ UNCHANGED <<gaveUp, served, settled, refused>>

Refuse(r) ==
    /\ Fresh(r) /\ MustWait /\ Len(line) >= Depth
    /\ refused' = refused \cup {r}
    /\ UNCHANGED <<line, gaveUp, served, settled>>

Serve(r) ==
    /\ IsNext(r) /\ HasRoom
    /\ TakeOut(r)
    /\ served' = served \cup {r}
    /\ UNCHANGED <<gaveUp, settled, refused>>

\* The next request is sent away: no replica is healthy, or it was cancelled
\* just when its turn came.
TurnAway(r) ==
    /\ IsNext(r) /\ HasRoom
    /\ TakeOut(r)
    /\ settled' = settled \cup {r}
    /\ UNCHANGED <<gaveUp, served, refused>>

GiveUp(r) ==
    /\ r \in Range(line) \ gaveUp
    /\ gaveUp' = gaveUp \cup {r}
    /\ UNCHANGED <<line, served, settled, refused>>

Depart(r) ==
    /\ r \in gaveUp
    /\ TakeOut(r)
    /\ gaveUp' = gaveUp \ {r}
    /\ settled' = settled \cup {r}
    /\ UNCHANGED <<served, refused>>

Finish(r) ==
    /\ r \in served
    /\ served' = served \ {r}
    /\ settled' = settled \cup {r}
    /\ UNCHANGED <<line, gaveUp, refused>>

Next ==
    \E r \in Requests :
        \/ Join(r) \/ Refuse(r) \/ Serve(r) \/ TurnAway(r)
        \/ GiveUp(r) \/ Depart(r) \/ Finish(r)

Spec == Init /\ [][Next]_vars

=============================================================================
