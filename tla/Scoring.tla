------------------------------ MODULE Scoring ------------------------------
(***************************************************************************)
(* planner/scoring.py: which measurements count, how they are scored and   *)
(* compared, when a concurrency sweep stops and where it settles.          *)
(*                                                                         *)
(* A measurement is a record with conc (requests in flight), tps (output   *)
(* tokens per second), lat (p95 latency, standing for TTFT and TPOT too),  *)
(* err (error rate in percent) and some (a request succeeded).  Scores are *)
(* integers that order measurements as the floating-point scores do.       *)
(***************************************************************************)
EXTENDS Integers, Sequences, FiniteSets, SequencesExt

CONSTANTS
    Objective,      \* "throughput", "latency" or "balanced"
    LatencyLimit    \* the SLO on p95 latency, 0 for none

MaxErrorRate == 1       \* MAX_ACCEPTABLE_ERROR_RATE, percent
Scale == 1000

Smallest(S) == CHOOSE x \in S : \A y \in S : x <= y
Largest(S) == CHOOSE x \in S : \A y \in S : x >= y

IsValid(r) == r.some /\ r.err <= MaxErrorRate
MeetsSLO(r) == LatencyLimit # 0 => r.lat <= LatencyLimit
Eligible(r) == IsValid(r) /\ MeetsSLO(r)

\* max(0, 1 - 5 * error_rate), in percent.
ErrorFactor(r) == Largest({0, 100 - 5 * r.err})

\* The score of r among the measurements rs; the norms use the valid ones.
\* For "balanced" it is the square of the code's score.
Score(r, rs) ==
    LET valid == {x \in rs : IsValid(x)}
        latency == (Scale * Smallest({x.lat : x \in valid})) \div r.lat
        throughput == (Scale * r.tps) \div Largest({x.tps : x \in valid})
    IN  CASE Objective = "throughput" -> r.tps * ErrorFactor(r)
          [] Objective = "latency" -> IF valid = {} THEN 0 ELSE latency * ErrorFactor(r)
          [] Objective = "balanced" ->
               IF valid = {} THEN 0 ELSE throughput * latency * ErrorFactor(r) * ErrorFactor(r)

\* select_best: the first with the highest score among the eligible ones, else
\* among the valid ones; 0 when there is none.
SelectBest(rs) ==
    LET eligible == {i \in DOMAIN rs : Eligible(rs[i])}
        valid == {i \in DOMAIN rs : IsValid(rs[i])}
        pool == IF eligible # {} THEN eligible ELSE valid
        score(i) == Score(rs[i], Range(rs))
    IN  IF pool = {} THEN 0
        ELSE Smallest({i \in pool : \A j \in pool : score(i) >= score(j)})

\* The score s1 is at least 2% above s0 (memory_min_gain).
Gains(s0, s1) ==
    s1 > s0 /\ IF Objective = "balanced" THEN 10000 * s1 >= 10404 * s0 ELSE 100 * s1 >= 102 * s0

\* A step from a to b gains less than 2% throughput / costs over 10% latency.
SmallGain(a, b) == 100 * (b.tps - a.tps) < 2 * a.tps
LatencyRose(a, b) == 10 * (b.lat - a.lat) > a.lat

\* should_continue_sweep
ContinueSweep(history) ==
    LET n == Len(history)
        last == history[n]
        best == Largest({history[i].tps : i \in DOMAIN history})
    IN  \/ n = 0
        \/ /\ Eligible(last)
           /\ n >= 2 =>
                /\ 100 * last.tps >= 95 * best
                /\ ~(SmallGain(history[n - 1], last) /\ LatencyRose(history[n - 1], last))
                /\ ~(n >= 3 /\ SmallGain(history[n - 1], last)
                     /\ SmallGain(history[n - 2], history[n - 1]))

\* The valid measurements by concurrency; equal ones keep their order.
ByConcurrency(history) ==
    LET valid == {i \in DOMAIN history : IsValid(history[i])}
        rank(i) == Cardinality({j \in valid : \/ history[j].conc < history[i].conc
                                              \/ history[j].conc = history[i].conc /\ j <= i})
    IN  [k \in 1..Cardinality(valid) |-> history[CHOOSE i \in valid : rank(i) = k]]

Walk(pool) ==
    FoldLeft(LAMBDA current, r :
                IF r.tps <= current.tps \/ (SmallGain(current, r) /\ LatencyRose(current, r))
                THEN current ELSE r,
             Head(pool), Tail(pool))

\* choose_concurrency: the operating point of a sweep as <<r>>, or <<>>.
ChooseConcurrency(history) ==
    LET points == ByConcurrency(history)
        eligible == SelectSeq(points, MeetsSLO)
        pool == IF eligible # <<>> THEN eligible ELSE points
        fastest == Smallest({r.lat : r \in Range(pool)})
    IN  CASE points = <<>> -> <<>>
          [] points # <<>> /\ Objective = "latency" ->
               IF eligible # <<>> /\ LatencyLimit # 0
               THEN <<eligible[Smallest({i \in DOMAIN eligible :
                                           eligible[i].conc = eligible[Len(eligible)].conc})]>>
               ELSE <<SelectSeq(pool, LAMBDA r : r.lat = fastest)[1]>>
          [] OTHER -> <<Walk(pool)>>
=============================================================================
