------------------------------- MODULE Tuning -------------------------------
(***************************************************************************)
(* The staged tuner (benchmark/tuner.py) on the evaluator that launches    *)
(* real engines (benchmark/evaluator.py), and the tuning record that       *)
(* run_tune (cli/pipeline.py) keeps in the cache (cache/store.py).         *)
(*                                                                         *)
(* A run takes the planned candidates through a structural search (A), a   *)
(* concurrency sweep of the best (B), a trial with more memory (C) and a   *)
(* confirmation (D).  Launching, measuring and closing are its awaits: at  *)
(* each it may be interrupted, or its process killed.  The next run may    *)
(* resume, after the engine or the free memory has changed or without.     *)
(*                                                                         *)
(* What is launched is a record [plan, frac]: a topology and its memory    *)
(* fraction.  Topologies stand for their structural keys.                  *)
(***************************************************************************)
EXTENDS Integers, Sequences, FiniteSets, SequencesExt

CONSTANTS
    Options,        \* what the options of a command leave of the planning: [plans, fixed],
                    \* the viable topologies, best first, and is the memory fraction given?
    Goals,          \* objectives: [objective, limit]
    Outcomes,       \* Outcomes[plan][conc]: what a benchmark may measure
    TopK,           \* top_k
    StageAConc,     \* concurrency of stage A, the base of a latency sweep
    SweepPoints,    \* the result of _sweep_points, the same for every plan
    Refinements,    \* refinement_points
    Budgets,        \* memory fractions the planner may give
    Raised,         \* Raised[f]: the fraction stage C tries, f for none
    MaxVersion, MaxRuns, MaxSetbacks, \* bounds: upgrades, runs, setbacks
    NONE

ASSUME TuningAssumption ==
    /\ \A o \in Options : o.plans # <<>> /\ o.fixed \in BOOLEAN
    /\ TopK > 0 /\ SweepPoints # <<>> /\ Budgets # {}
    /\ \A g \in Goals : g.objective \in {"throughput", "latency", "balanced"} /\ g.limit \in Nat

VARIABLES
    goal,           \* the workload's objective and SLO
    planned,        \* of the Options, those of the run, or NONE
    env,            \* [version, budget]: the installed engine, the planned fraction
    stage,          \* "idle", "A", "B", "C", "D", "done"
    step,           \* "open", "measure", "refine", "close", "finish"
    todo,           \* what the stage has still to launch
    points,         \* concurrencies still to measure in the open session
    current,        \* results of the evaluation that is being built
    evaluations,    \* the evaluations of this run
    top,            \* stage B's candidates, in its order
    best,           \* the winner so far: [of, result], or NONE
    session,        \* the open session, or NONE
    left,           \* engines of a failed launch: "none", "idle", "holding" memory
    disk,           \* the record in the cache, or NONE
    completed,      \* evaluations taken over from a record
    runs, setbacks

given == <<goal, planned>>
tunerVars == <<given, env, stage, step, todo, points, current, evaluations, top, best, session,
               left, disk, completed, runs, setbacks>>

INSTANCE Scoring WITH Objective <- goal.objective, LatencyLimit <- goal.limit

Running == stage \in {"A", "B", "C", "D"}
Plan == Head(todo).plan
Setback == setbacks < MaxSetbacks /\ setbacks' = setbacks + 1
----------------------------------------------------------------------------
(* The record: persist and run_tune.                                        *)

\* Those elements of the sequence s that are in P, in their order.
Those(s, P) ==
    LET those[n \in 0..Len(s)] ==
            IF n = 0 THEN <<>>
            ELSE IF s[n] \in P THEN Append(those[n - 1], s[n]) ELSE those[n - 1]
    IN  those[Len(s)]

Finished(evals) == Those(evals, {e \in Range(evals) : e.stage = "A" /\ e.ok})
Usable(evals) == Those(Finished(evals), {e \in Range(evals) : e.version = env.version})

Save(status, evals, winner) ==
    disk' = [status |-> status, evals |-> evals, winner |-> winner, version |-> env.version]

\* Mutant: the record of a resumed run starts empty.
KeepNew(evals) == evals
\* record.candidates: what was taken over, and every evaluation since.
Keep(evals) == completed \o Those(evals, Range(evals) \ Range(completed))

Record(of, ok, results) ==
    LET e == [of |-> of, stage |-> stage, ok |-> ok, results |-> results, version |-> env.version]
    IN  /\ evaluations' = Append(evaluations, e)
        /\ Save("in_progress", Keep(Append(evaluations, e)), NONE)

\* run_tune begins: with --resume from a record that is in progress.
Begin(options, resume) ==
    /\ ~Running /\ runs < MaxRuns
    /\ planned' = options
    /\ completed' = IF resume /\ disk # NONE /\ disk.status = "in_progress"
                    THEN Usable(disk.evals) ELSE <<>>
    /\ stage' = "A" /\ step' = "open"
    /\ todo' = [i \in DOMAIN options.plans |->
                    [plan |-> options.plans[i], frac |-> env.budget]]
    /\ evaluations' = <<>> /\ left' = "none" /\ runs' = runs + 1
    /\ UNCHANGED <<goal, env, points, current, top, best, session, disk, setbacks>>

\* The finally of tune() closes the session, that of run_tune stops every engine.
End ==
    /\ stage' = "done" /\ step' = "open" /\ todo' = <<>> /\ points' = <<>> /\ current' = <<>>
    /\ top' = <<>> /\ best' = NONE /\ session' = NONE /\ left' = "none" /\ planned' = NONE
    /\ UNCHANGED <<goal, env, evaluations, completed, runs>>

NoViablePlan == Save("failed", Keep(evaluations), NONE) /\ End /\ UNCHANGED setbacks

\* Any other exception: "keep finished candidates resumable".
EndEarly ==
    Save(IF evaluations # <<>> THEN "in_progress" ELSE "failed", Keep(evaluations), NONE) /\ End

Interrupted == Running /\ Setback /\ EndEarly

\* The process is killed; guardians and operating system stop its engines.
Killed == Running /\ Setback /\ End /\ UNCHANGED disk

Complete ==
    /\ step = "finish"
    /\ Save("complete", evaluations, best) /\ End
    /\ UNCHANGED setbacks

\* Between two runs an engine is upgraded, or the free memory changes.
EnvironmentChanges ==
    /\ ~Running /\ disk # NONE /\ Setback
    /\ \/ env.version < MaxVersion /\ env' = [env EXCEPT !.version = @ + 1]
       \/ \E b \in Budgets \ {env.budget} : env' = [env EXCEPT !.budget = b]
    /\ UNCHANGED <<given, stage, step, todo, points, current, evaluations, top, best, session,
                   left,
                   disk, completed, runs>>
----------------------------------------------------------------------------
(* Sessions: _open and _close_session, LaunchingEvaluator, LaunchedSession. *)

\* A resumed run finds a finished evaluation by its plan's id, the latest one,
\* and takes it over when the plan is the same in everything it launches with.
Prior(of) ==
    LET same == {i \in DOMAIN completed : completed[i].of.plan = of.plan}
    IN  IF same # {} /\ completed[Largest(same)].of = of
        THEN {completed[Largest(same)]} ELSE {}

MustLaunch == step = "open" /\ todo # <<>> /\ (stage = "A" => Prior(Head(todo)) = {})

\* A session of another plan, or with other memory, is closed first.
CloseOther ==
    /\ MustLaunch /\ session \notin {NONE, Head(todo)}
    /\ session' = NONE
    /\ UNCHANGED <<given, env, stage, step, todo, points, current, evaluations, top, best, left,
                   disk,
                   completed, runs, setbacks>>

\* Engines that a close cannot terminate end the tuning.
CloseFails ==
    /\ Running /\ session # NONE /\ Setback
    /\ step \in {"close", "finish"} \/ (MustLaunch /\ session # Head(todo))
    /\ EndEarly

\* The concurrencies to measure, by stage.
StagePoints ==
    LET base == IF stage = "A" \/ stage = "B" THEN StageAConc ELSE best.result.conc
        Doublings == SelectSeq(<<2 * base, 4 * base>>, LAMBDA c : c <= Largest(Range(SweepPoints)))
    IN  CASE stage = "B" /\ goal.objective # "latency" -> SweepPoints
          [] stage = "B" /\ goal.objective = "latency" ->
               <<base>> \o (IF goal.limit # 0 THEN Doublings ELSE <<>>)
          [] stage = "C" -> <<base, 2 * base>>
          [] OTHER -> <<base>>

\* The open session serves the plan, or its engines are launched and become ready.
Open ==
    /\ MustLaunch
    /\ session = Head(todo) \/ (session = NONE /\ left # "holding")
    /\ session' = Head(todo)
    /\ step' = "measure" /\ points' = StagePoints /\ current' = <<>>
    /\ UNCHANGED <<given, env, stage, todo, evaluations, top, best, left, disk, completed, runs,
                   setbacks>>

\* Too little free memory, or a launch that fails: its engines are stopped, but
\* nobody asks whether they are gone.
OpenFails ==
    /\ MustLaunch /\ session = NONE
    /\ \/ left = "holding" /\ UNCHANGED <<left, setbacks>>
       \/ left # "holding" /\ Setback /\ left' \in {left, "idle", "holding"}
    /\ Record(Head(todo), FALSE, <<>>)
    /\ todo' = IF stage = "C" THEN <<best.of>> ELSE Tail(todo)
    /\ stage' = IF stage = "C" THEN "D" ELSE stage
    /\ step' = IF stage = "D" THEN "finish" ELSE "open"
    /\ UNCHANGED <<given, env, points, current, top, best, session, completed, runs>>

\* The session is closed after a candidate of stage A or a trial that gains too little.
Close ==
    /\ step = "close"
    /\ session' = NONE /\ step' = "open"
    /\ IF stage = "A" THEN todo' = Tail(todo) /\ UNCHANGED stage
       ELSE todo' = <<best.of>> /\ stage' = "D"
    /\ UNCHANGED <<given, env, points, current, evaluations, top, best, left, disk, completed,
                   runs, setbacks>>

\* session.benchmark: a result under the label, or NONE for a BenchmarkError.
Results(label) ==
    {[conc |-> Head(points), label |-> label, tps |-> o.tps, lat |-> o.lat, err |-> o.err,
      some |-> o.some] : o \in Outcomes[Plan][Head(points)]}
Benchmark(label, r) ==
    \/ r \in Results(label) /\ UNCHANGED setbacks
    \/ r = NONE /\ Setback
With(results, r) == IF r = NONE THEN results ELSE Append(results, r)
----------------------------------------------------------------------------
(* Stage A.                                                                 *)

ReusePrior ==
    /\ stage = "A" /\ step = "open" /\ todo # <<>>
    /\ \E e \in Prior(Head(todo)) : evaluations' = Append(evaluations, e)
    /\ todo' = Tail(todo)
    /\ UNCHANGED <<given, env, stage, step, points, current, top, best, session, left, disk,
                   completed,
                   runs, setbacks>>

\* The session of the last candidate stays open.
MeasureA ==
    /\ stage = "A" /\ step = "measure"
    /\ \E r \in Results("stage-a") \cup {NONE} :
          /\ Benchmark("stage-a", r)
          /\ Record(Head(todo), r # NONE, With(<<>>, r))
          /\ IF r = NONE \/ Len(todo) > 1 THEN step' = "close" /\ UNCHANGED todo
             ELSE step' = "open" /\ todo' = <<>>
    /\ UNCHANGED <<given, env, stage, points, current, top, best, session, left, completed,
                   runs>>

\* _rank_structural: eligible before not, then by score; the order is stable.
Ranked(es) ==
    LET rs == [i \in DOMAIN es |-> es[i].results[1]]
        Key(i) == <<IF Eligible(rs[i]) THEN 0 ELSE 1, 0 - Score(rs[i], Range(rs)), i>>
        Above(i, j) == \E k \in 1..3 :
            Key(i)[k] < Key(j)[k] /\ \A l \in 1..(k - 1) : Key(i)[l] = Key(j)[l]
        place(i) == 1 + Cardinality({j \in DOMAIN es : Above(j, i)})
    IN  [k \in DOMAIN es |-> es[CHOOSE i \in DOMAIN es : place(i) = k].of]

\* The first top_k, the plan that is still open in front.
EndA ==
    /\ stage = "A" /\ step = "open" /\ todo = <<>>
    /\ LET es == Finished(evaluations)
           first == SubSeq(Ranked(es), 1, Smallest({TopK, Len(es)}))
           open(of) == session # NONE /\ of.plan = session.plan
           order == SelectSeq(first, open) \o SelectSeq(first, LAMBDA of : ~open(of))
       IN  \/ es = <<>> /\ NoViablePlan
           \/ /\ es # <<>>
              /\ stage' = "B" /\ todo' = order /\ top' = order
              /\ UNCHANGED <<given, env, step, points, current, evaluations, best, session,
                             left, disk,
                             completed, runs, setbacks>>
----------------------------------------------------------------------------
(* Stage B.                                                                 *)

ResultsOf(plan) ==
    LET mine == SelectSeq(evaluations, LAMBDA e : e.of.plan = plan)
    IN  FlattenSeq([i \in DOMAIN mine |-> mine[i].results])

\* The candidate's stage A result and those of its sweep so far.
History(rs) ==
    LET mine == SelectSeq(Finished(evaluations), LAMBDA e : e.of = Head(todo)) IN mine[1].results \o rs

\* Concurrencies between the best point and its neighbours, the upper first.
Midpoints(rs) ==
    LET valid == {i \in DOMAIN History(rs) : History(rs)[i].some}
        at(i) == History(rs)[i].conc
        rank(i) == Cardinality({j \in valid : at(j) < at(i) \/ (at(j) = at(i) /\ j <= i)})
        line == [k \in 1..Cardinality(valid) |-> History(rs)[CHOOSE i \in valid : rank(i) = k]]
        peak == Smallest({k \in DOMAIN line : \A l \in DOMAIN line : line[k].tps >= line[l].tps})
        middle(k) == (line[peak].conc + line[k].conc) \div 2
        both == (IF peak < Len(line) THEN <<middle(peak + 1)>> ELSE <<>>)
                \o (IF peak > 1 THEN <<middle(peak - 1)>> ELSE <<>>)
        tested == {r.conc : r \in Range(line)}
    IN  IF Len(line) < 2 THEN <<>>
        ELSE SelectSeq(SubSeq(both, 1, Smallest({Refinements, Len(both)})),
                       LAMBDA c : c > 0 /\ c \notin tested)

\* The points left after a result: a sweep stops at a plateau, at the SLO or at
\* errors, a latency sweep at a benchmark that fails above its base as well.
Further(rs, r) ==
    LET base == Head(points) = StageAConc
        swept == IF goal.objective = "latency"
                 THEN SelectSeq(History(rs), LAMBDA x : x.conc = StageAConc \/ x.label = "sweep")
                 ELSE rs
    IN  CASE goal.objective = "latency" /\ base -> Tail(points)
          [] r = NONE -> IF goal.objective = "latency" THEN <<>> ELSE Tail(points)
          [] OTHER -> IF ContinueSweep(swept) THEN Tail(points) ELSE <<>>

Swept(rs) ==
    /\ Record(Head(todo), TRUE, rs)
    /\ step' = "open" /\ todo' = Tail(todo) /\ points' = <<>> /\ current' = <<>>

MeasureB ==
    /\ stage = "B" /\ step = "measure"
    /\ LET label == IF goal.objective = "latency" /\ Head(points) = StageAConc THEN "latency" ELSE "sweep"
       IN  \E r \in Results(label) \cup {NONE} :
              LET rs == With(current, r)
                  more == Further(rs, r)
                  mids == IF goal.objective = "latency" THEN <<>> ELSE Midpoints(rs)
              IN  /\ Benchmark(label, r)
                  /\ \/ /\ more = <<>> /\ mids = <<>> /\ Swept(rs)
                     \/ /\ more # <<>> \/ mids # <<>>
                        /\ points' = IF more # <<>> THEN more ELSE mids
                        /\ step' = IF more # <<>> THEN "measure" ELSE "refine"
                        /\ current' = rs
                        /\ UNCHANGED <<todo, evaluations, disk>>
    /\ UNCHANGED <<given, env, stage, top, best, session, left, completed, runs>>

Refine ==
    /\ stage = "B" /\ step = "refine"
    /\ \E r \in Results("refine") \cup {NONE} :
          /\ Benchmark("refine", r)
          /\ \/ Len(points) = 1 /\ Swept(With(current, r))
             \/ /\ Len(points) > 1
                /\ points' = Tail(points) /\ current' = With(current, r)
                /\ UNCHANGED <<step, todo, evaluations, disk>>
    /\ UNCHANGED <<given, env, stage, top, best, session, left, completed, runs>>

\* Mutant: the operating point is the one with the highest concurrency.
OperatingLast(pool) ==
    [i \in DOMAIN pool |-> [of |-> pool[i], result |-> ResultsOf(pool[i].plan)[Len(ResultsOf(pool[i].plan))]]]

\* The operating point of each candidate that was swept (_pick_winner).
Operating(pool) ==
    LET points_of(of) == ChooseConcurrency(ResultsOf(of.plan))
        chosen == SelectSeq(pool, LAMBDA of : points_of(of) # <<>>)
    IN  [i \in DOMAIN chosen |-> [of |-> chosen[i], result |-> points_of(chosen[i])[1]]]

\* tuning_settings: a fraction that the user has set is not tuned.
MemoryTuning == ~planned.fixed

\* When no candidate could be launched again, stage A decides.
EndB ==
    /\ stage = "B" /\ step = "open" /\ todo = <<>>
    /\ LET sweeps == SelectSeq(evaluations, LAMBDA e : e.stage = "B" /\ e.ok)
           pool == IF sweeps = <<>> THEN top ELSE [i \in DOMAIN sweeps |-> sweeps[i].of]
           operating == Operating(pool)
           k == SelectBest([i \in DOMAIN operating |-> operating[i].result])
           of == operating[k].of
           trial == goal.objective # "latency" /\ MemoryTuning /\ Raised[of.frac] > of.frac
       IN  \/ k = 0 /\ NoViablePlan
           \/ /\ k # 0
              /\ best' = operating[k]
              /\ stage' = IF trial THEN "C" ELSE "D"
              /\ todo' = <<[of EXCEPT !.frac = IF trial THEN Raised[@] ELSE @]>>
              /\ UNCHANGED <<given, env, step, points, current, evaluations, top, session, left,
                             disk,
                             completed, runs, setbacks>>
----------------------------------------------------------------------------
(* Stages C and D.                                                          *)

\* More memory is adopted when it measurably helps.
MeasureC ==
    /\ stage = "C" /\ step = "measure"
    /\ \E r \in Results("memory") \cup {NONE} :
          LET rs == With(current, r)
              choice == ChooseConcurrency(rs)
              both == {best.result, choice[1]}
              adopt == /\ Eligible(choice[1])
                       /\ Gains(Score(best.result, both), Score(choice[1], both))
          IN  /\ Benchmark("memory", r)
              /\ points' = Tail(points)
              /\ \/ /\ Len(points) > 1
                    /\ current' = rs
                    /\ UNCHANGED <<stage, step, todo, best, evaluations, disk>>
                 \/ /\ Len(points) = 1
                    /\ Record(Head(todo), rs # <<>>, rs)
                    /\ current' = <<>>
                    /\ \/ /\ choice # <<>> /\ adopt
                          /\ best' = [of |-> Head(todo), result |-> choice[1]]
                          /\ stage' = "D" /\ step' = "open" /\ UNCHANGED todo
                       \/ /\ choice # <<>> /\ ~adopt
                          /\ step' = "close" /\ UNCHANGED <<stage, todo, best>>
                       \/ /\ choice = <<>>
                          /\ stage' = "D" /\ step' = "open" /\ todo' = <<best.of>> /\ UNCHANGED best
    /\ UNCHANGED <<given, env, top, session, left, completed, runs>>

\* The confirmation replaces the preliminary result unless it fails.
MeasureD ==
    /\ stage = "D" /\ step = "measure"
    /\ \E r \in Results("final") \cup {NONE} :
          /\ Benchmark("final", r)
          /\ Record(Head(todo), r # NONE, With(<<>>, r))
          /\ best' = IF r = NONE THEN best ELSE [best EXCEPT !.result = r]
    /\ step' = "finish" /\ points' = <<>>
    /\ UNCHANGED <<given, env, stage, todo, current, top, session, left, completed, runs>>
----------------------------------------------------------------------------
TunerInit ==
    /\ goal \in Goals /\ planned = NONE
    /\ env \in [version : {1}, budget : Budgets]
    /\ stage = "idle" /\ step = "open" /\ todo = <<>> /\ points = <<>> /\ current = <<>>
    /\ evaluations = <<>> /\ top = <<>> /\ best = NONE /\ session = NONE /\ left = "none"
    /\ disk = NONE /\ completed = <<>> /\ runs = 0 /\ setbacks = 0

Stages ==
    \/ Interrupted \/ Killed
    \/ CloseOther \/ CloseFails \/ Open \/ OpenFails \/ Close
    \/ ReusePrior \/ MeasureA \/ EndA
    \/ MeasureB \/ Refine \/ EndB
    \/ MeasureC \/ MeasureD

TunerNext ==
    \/ \E o \in Options, resume \in BOOLEAN : Begin(o, resume)
    \/ EnvironmentChanges \/ Stages \/ Complete

TunerSpec == TunerInit /\ [][TunerNext]_tunerVars
----------------------------------------------------------------------------
(* Properties.                                                              *)

\* What the tuner is about to announce was measured, on the launch it announces
\* (topology and memory fraction), by the installed engine and within what the
\* planner now allows, whatever was taken over from interrupted runs.
WinnerIsEvidence ==
    best # NONE =>
        /\ best.of.frac \in {env.budget, Raised[env.budget]}
        /\ \E e \in Range(evaluations) :
              e.of = best.of /\ e.version = env.version /\ best.result \in Range(e.results)

\* With stages A and B done the tuner has settled well: on a measurement that
\* meets the SLO if a swept candidate has one, and for throughput none of those
\* has a score more than 8% higher (2% where the walk over concurrencies stops
\* short, 5% for the errors that it does not weigh).
SettlesWell ==
    (best # NONE /\ \A e \in Range(evaluations) : e.stage \in {"A", "B"}) =>
        LET swept == {e.of.plan : e \in {x \in Range(evaluations) : x.stage = "B" /\ x.ok}}
            rivals == {r \in UNION {Range(ResultsOf(p)) : p \in swept} : Eligible(r)}
        IN  rivals # {} =>
               /\ Eligible(best.result)
               /\ goal.objective = "throughput" =>
                     \A r \in rivals : 95 * Score(r, rivals) <= 102 * Score(best.result, rivals)

\* A resumed run, however often it is interrupted, keeps every finished
\* candidate of the record that the installed engine has measured.
FinishedIsKept ==
    [][(/\ completed # <<>> /\ disk # NONE
        /\ disk.status = "in_progress" /\ disk'.status = "in_progress") =>
          Range(Usable(disk.evals)) \subseteq Range(disk'.evals)]_tunerVars
=============================================================================
