------------------------------- MODULE Search -------------------------------
(***************************************************************************)
(* The controller of a search: optimization/loop.py (Optimizer) over the    *)
(* experiment store of optimization/store.py, with the engine processes of  *)
(* optimization/container_backend.py as the only thing it owns on the GPUs. *)
(*                                                                         *)
(* The store survives the controller: a crash may fall between any two     *)
(* writes, and `optimize --resume` continues from what is on disk.  Each    *)
(* write is one action (atomic_write fsyncs and renames), and so is each    *)
(* stretch of the coroutine between two awaits that writes nothing.         *)
(***************************************************************************)
EXTENDS Integers, Sequences, FiniteSets, FiniteSetsExt

CONSTANTS
    NumBaselines,    \* plans the planner found: the baselines to try
    MaxExperiments,  \* bound: experiments started in all
    MaxTurns,        \* bound: agent turns recorded in all
    MaxRuns          \* bound: controller processes, the first one included

ASSUME SearchAssumption ==
    /\ NumBaselines \in Nat \ {0}
    /\ MaxExperiments \in Nat
    /\ MaxTurns \in Nat
    /\ MaxRuns \in Nat

VARIABLES
    journal,    \* experiments.jsonl: the events, oldest first
    results,    \* experiments/*/result.json: the outcome, or Nothing
    turnFiles,  \* experiments/agent-turn-*.json: the numbers of the files
    engines,    \* experiments whose engine processes are still on the GPUs
    pc,         \* where the controller is; "down": no process owns the store
    current,    \* the experiment being evaluated, or 0
    outcome,    \* its outcome so far, or Nothing
    tainted,    \* cleanup_error: its engine could not be removed
    memory,     \* Optimizer._best, _baseline and _reference, as experiment ids
    stop,       \* Optimizer.stop_requested
    cancelled,  \* request_stop cancelled the active task, which has not ended
    expired,    \* TimeBudget.expired
    left,       \* baselines not tried yet
    empties,    \* empty_turns
    proposed,   \* the turn that just ended submitted an experiment
    runs        \* bound: processes started so far

store == <<journal, results, turnFiles>>
active == <<current, outcome, tainted>>
signals == <<stop, cancelled, expired>>
loop == <<left, empties, proposed>>
vars == <<store, engines, pc, active, memory, signals, loop, runs>>

Ids == 1..MaxExperiments
Kinds == {"search_started", "experiment_started", "experiment_finished", "agent_turn",
          "controller_error", "search_stopped"}

(* An outcome is the part of an ExperimentResult later steps depend on: the  *)
(* verdict, and whether the correctness suite passed.  "accepted" and         *)
(* "verified" are status verified with and without decision.accepted,         *)
(* "rejected" is status rejected with every trial valid, "unmeasured" without. *)
Verdicts == {"accepted", "verified", "rejected", "unmeasured", "failed", "interrupted"}
Complete == {"accepted", "verified", "rejected"}  \* the fixed set of trials is valid
Outcomes == {o \in [verdict : Verdicts, passed : BOOLEAN] : o.verdict \in Complete => o.passed}
Nothing == [verdict |-> "none", passed |-> FALSE]

-----------------------------------------------------------------------------
(* The store *)

Event(kind, n) == [kind |-> kind, id |-> n]
Append1(kind, n) == journal' = Append(journal, Event(kind, n))

Places(kind) == {k \in DOMAIN journal : journal[k].kind = kind}
IdsOf(kind) == {journal[k].id : k \in Places(kind)}
Pending == IdsOf("experiment_started") \ IdsOf("experiment_finished")

NextId == Max({0} \cup IdsOf("experiment_started")) + 1

NextTurn == Cardinality(Places("agent_turn")) + 1

\* The places in the journal of the results() that satisfy a condition on outcomes.
FinishedIn(S) == {k \in Places("experiment_finished") : results[journal[k].id] \in S}
FirstOf(K) == IF K = {} THEN 0 ELSE journal[Min(K)].id
LastOf(K)  == IF K = {} THEN 0 ELSE journal[Max(K)].id

Accepted == {o \in Outcomes : o.verdict = "accepted"}
Measured == {o \in Outcomes : o.verdict \in Complete}
Passed   == {o \in Outcomes : o.passed}

\* What _recover rebuilds from results().
Replayed == [best      |-> LastOf(FinishedIn(Accepted)),
             baseline  |-> FirstOf(FinishedIn(Measured)),
             reference |-> FirstOf(FinishedIn(Passed))]
Forgotten == [best |-> 0, baseline |-> 0, reference |-> 0]

-----------------------------------------------------------------------------
Init ==
    /\ journal = << >>
    /\ results = [n \in Ids |-> Nothing]
    /\ turnFiles = {}
    /\ engines = {}
    /\ pc = "down"
    /\ current = 0 /\ outcome = Nothing /\ tainted = FALSE
    /\ memory = Forgotten
    /\ stop = FALSE /\ cancelled = FALSE /\ expired = FALSE
    /\ left = NumBaselines /\ empties = 0 /\ proposed = FALSE
    /\ runs = 0

\* What a process that ends or starts leaves of the volatile state.
Volatile(place) ==
    /\ pc' = place
    /\ current' = 0 /\ outcome' = Nothing /\ tainted' = FALSE
    /\ memory' = Forgotten
    /\ stop' = FALSE /\ cancelled' = FALSE /\ expired' = FALSE
    /\ left' = NumBaselines /\ empties' = 0 /\ proposed' = FALSE

\* optimize: the lock is free, and cleanup_previous_run removed every container of the
\* run (if it cannot, the process ends without touching the store).
Resume ==
    /\ pc = "down" /\ runs < MaxRuns
    /\ Volatile("recovering")
    /\ engines' = {}
    /\ runs' = runs + 1
    /\ UNCHANGED store

\* Mutant: does not look for the result the last process may have written.
RecoverWriteAlways(n) ==
    /\ pc = "recovering"
    /\ n \in Pending
    /\ results' = [results EXCEPT ![n] = [verdict |-> "interrupted", passed |-> FALSE]]
    /\ UNCHANGED <<journal, turnFiles, engines, pc, active, memory, signals, loop, runs>>

\* _recover: a started experiment that left no result is recorded as interrupted.
RecoverWrite(n) ==
    /\ pc = "recovering"
    /\ n \in Pending /\ results[n] = Nothing
    /\ results' = [results EXCEPT ![n] = [verdict |-> "interrupted", passed |-> FALSE]]
    /\ UNCHANGED <<journal, turnFiles, engines, pc, active, memory, signals, loop, runs>>

RecoverAppend(n) ==
    /\ pc = "recovering"
    /\ n \in Pending /\ results[n] # Nothing
    /\ Append1("experiment_finished", n)
    /\ UNCHANGED <<results, turnFiles, engines, pc, active, memory, signals, loop, runs>>

\* Mutant: the search goes on before the last experiment is settled.
RecoveredEarly ==
    /\ pc = "recovering"
    /\ memory' = Replayed
    /\ Append1("search_started", 0)
    /\ pc' = "choosing"
    /\ UNCHANGED <<results, turnFiles, engines, active, signals, loop, runs>>

Recovered ==
    /\ pc = "recovering" /\ Pending = {}
    /\ memory' = Replayed
    /\ Append1("search_started", 0)
    /\ pc' = "choosing"
    /\ UNCHANGED <<results, turnFiles, engines, active, signals, loop, runs>>

-----------------------------------------------------------------------------
(* Choosing the next experiment *)

\* Mutant: only the budget ends the loop.
RunningToTheEnd == ~expired

Running == ~expired /\ ~stop

NeedsBaseline == memory.baseline = 0 /\ left > 0

\* The part of _evaluate before its task is created.
Begin ==
    /\ NextId \in Ids
    /\ Append1("experiment_started", NextId)
    /\ current' = NextId
    /\ pc' = "measuring"
    /\ UNCHANGED <<results, turnFiles, engines, outcome, tainted, memory, signals, runs>>

TryBaseline ==
    /\ pc = "choosing" /\ Running /\ NeedsBaseline
    /\ Begin
    /\ left' = left - 1
    /\ UNCHANGED <<empties, proposed>>

\* _evaluate refuses a baseline that the definition of the run does not allow.
RefuseBaseline ==
    /\ pc = "choosing" /\ Running /\ NeedsBaseline
    /\ pc' = "failing"
    /\ left' = left - 1
    /\ UNCHANGED <<store, engines, active, memory, signals, empties, proposed, runs>>

Plan ==
    /\ pc = "choosing" /\ Running /\ ~NeedsBaseline
    /\ pc' = "planning"
    /\ UNCHANGED <<store, engines, active, memory, signals, loop, runs>>

\* The loop is left: deadline, manual stop, or plateau_seconds without improvement.
EndLoop ==
    /\ pc = "choosing"
    /\ ~Running \/ ~NeedsBaseline
    /\ pc' = "closing"
    /\ UNCHANGED <<store, engines, active, memory, signals, loop, runs>>

\* agent.turn returned; its events are written under the number of the next turn.
WriteTurn(submitted) ==
    /\ pc = "planning" /\ ~cancelled
    /\ NextTurn \in 1..MaxTurns
    /\ submitted => NextId \in Ids
    /\ turnFiles' = turnFiles \cup {NextTurn}
    /\ proposed' = submitted
    /\ pc' = "logging"
    /\ UNCHANGED <<journal, results, engines, active, memory, signals, left, empties, runs>>

\* artifact(): a file of that number holds the events of another turn.
RefuseTurn ==
    /\ pc = "planning" /\ ~cancelled
    /\ NextTurn \in turnFiles
    /\ pc' = "failing"
    /\ UNCHANGED <<store, engines, active, memory, signals, loop, runs>>

LogTurn ==
    /\ pc = "logging"
    /\ Append1("agent_turn", 0)
    /\ pc' = "proposed"
    /\ UNCHANGED <<results, turnFiles, engines, active, memory, signals, loop, runs>>

\* The turn raised BudgetExpired, or was cancelled by request_stop.
LeaveTurn ==
    /\ pc = "planning" /\ (expired \/ cancelled)
    /\ cancelled' = FALSE
    /\ pc' = "closing"
    /\ UNCHANGED <<store, engines, active, memory, stop, expired, loop, runs>>

FailTurn ==
    /\ pc = "planning"
    /\ cancelled' = FALSE
    /\ pc' = "failing"
    /\ UNCHANGED <<store, engines, active, memory, stop, expired, loop, runs>>

\* The task of the turn ended, and run() goes on.
TakeProposal ==
    /\ pc = "proposed" /\ proposed
    /\ Begin
    /\ empties' = 0
    /\ proposed' = FALSE
    /\ UNCHANGED left

TooManyEmptyTurns(count) == count >= 3

TakeNothing ==
    /\ pc = "proposed" /\ ~proposed
    /\ empties' = empties + 1
    /\ pc' = IF TooManyEmptyTurns(empties') THEN "closing" ELSE "choosing"
    /\ UNCHANGED <<store, engines, active, memory, signals, left, proposed, runs>>

-----------------------------------------------------------------------------
(* Evaluating an experiment *)

\* backend.open: the engine processes of the experiment come up.
Launch ==
    /\ pc = "measuring" /\ current \notin engines
    /\ ~expired /\ ~cancelled
    /\ engines' = engines \cup {current}
    /\ UNCHANGED <<store, pc, active, memory, signals, loop, runs>>

\* What verifier.decide and the paths around it can come to.
Possible(o) ==
    /\ o.verdict = "verified" => memory.best # 0
    /\ o.verdict = "interrupted" => expired \/ cancelled
    /\ o.passed \/ o.verdict = "unmeasured" => current \in engines

\* measure() and budget.run end; with no incumbent, any eligible experiment is accepted.
Measure(o) ==
    /\ pc = "measuring"
    /\ Possible(o)
    /\ outcome' = o
    /\ cancelled' = FALSE
    /\ pc' = "cleaning"
    /\ UNCHANGED <<store, engines, current, tainted, memory, stop, expired, loop, runs>>

CleanUp ==
    /\ pc = "cleaning"
    /\ engines' = engines \ {current}
    /\ pc' = "settling"
    /\ UNCHANGED <<store, active, memory, signals, loop, runs>>

\* Mutant: the decision taken before the cleanup stands.
CleanUpFailsKeepingVerdict ==
    /\ pc = "cleaning"
    /\ tainted' = TRUE
    /\ pc' = "settling"
    /\ UNCHANGED <<store, engines, current, outcome, memory, signals, loop, runs>>

\* The handles or the GPU memory show that something is left.
CleanUpFails ==
    /\ pc = "cleaning"
    /\ outcome' = [outcome EXCEPT !.verdict = "failed"]
    /\ tainted' = TRUE
    /\ pc' = "settling"
    /\ UNCHANGED <<store, engines, current, memory, signals, loop, runs>>

\* finish(): first the result, then the event that makes it count.  It refuses to
\* replace a different result; ResultsImmutable shows that it never has to.
WriteResult ==
    /\ pc = "settling"
    /\ results' = [results EXCEPT ![current] = outcome]
    /\ pc' = "recording"
    /\ UNCHANGED <<journal, turnFiles, engines, active, memory, signals, loop, runs>>

\* Mutant: the reference outputs follow the latest experiment that passed.
RememberLatest(m, n, o) ==
    [best      |-> IF o \in Accepted THEN n ELSE m.best,
     baseline  |-> IF m.baseline = 0 /\ o \in Measured THEN n ELSE m.baseline,
     reference |-> IF o \in Passed THEN n ELSE m.reference]

\* _remember_reference, and _best when the experiment was accepted.
Remember(m, n, o) ==
    [best      |-> IF o \in Accepted THEN n ELSE m.best,
     baseline  |-> IF m.baseline = 0 /\ o \in Measured THEN n ELSE m.baseline,
     reference |-> IF m.reference = 0 /\ o \in Passed THEN n ELSE m.reference]

\* Where the loop goes on once an experiment is recorded.
AfterCleanup == IF tainted THEN "failing" ELSE "choosing"

FinishExperiment ==
    /\ pc = "recording"
    /\ Append1("experiment_finished", current)
    /\ memory' = Remember(memory, current, outcome)
    /\ pc' = AfterCleanup
    /\ current' = 0 /\ outcome' = Nothing /\ tainted' = FALSE
    /\ UNCHANGED <<results, turnFiles, engines, signals, loop, runs>>

-----------------------------------------------------------------------------
(* Ending the search *)

RecordError ==
    /\ pc = "failing"
    /\ Append1("controller_error", 0)
    /\ pc' = "closing"
    /\ UNCHANGED <<results, turnFiles, engines, active, memory, signals, loop, runs>>

\* The finally of run(); backend.close may leave processes it no longer has a handle of.
Close ==
    /\ pc = "closing"
    /\ Append1("search_stopped", memory.best)
    /\ engines' \in SUBSET engines
    /\ Volatile("down")
    /\ UNCHANGED <<results, turnFiles, runs>>

\* backend.close raises: the process ends without the event.
CloseFails ==
    /\ pc = "closing"
    /\ engines' \in SUBSET engines
    /\ Volatile("down")
    /\ UNCHANGED <<store, runs>>

Crash ==
    /\ pc # "down"
    /\ Volatile("down")
    /\ UNCHANGED <<store, engines, runs>>

\* The guardian of an engine ends it when the controller's heartbeat stops.
GuardianStops(n) ==
    /\ pc = "down" /\ n \in engines
    /\ engines' = engines \ {n}
    /\ UNCHANGED <<store, pc, active, memory, signals, loop, runs>>

\* Places where run() waits, so that the signal handler may be called.
Waiting == {"planning", "proposed", "measuring", "cleaning", "closing"}

\* request_stop: the active task, if it has not ended, is cancelled.
RequestStop ==
    /\ pc \in Waiting /\ ~stop
    /\ stop' = TRUE
    /\ cancelled' = (pc \in {"planning", "measuring"})
    /\ UNCHANGED <<store, engines, pc, active, memory, expired, loop, runs>>

Expire ==
    /\ pc # "down" /\ ~expired
    /\ expired' = TRUE
    /\ UNCHANGED <<store, engines, pc, active, memory, stop, cancelled, loop, runs>>

-----------------------------------------------------------------------------
Recover == (\E n \in Ids : RecoverWrite(n) \/ RecoverAppend(n)) \/ Recovered

Choose ==
    \/ TryBaseline \/ RefuseBaseline \/ Plan \/ EndLoop
    \/ \E submitted \in BOOLEAN : WriteTurn(submitted)
    \/ RefuseTurn \/ LogTurn \/ LeaveTurn \/ FailTurn \/ TakeProposal \/ TakeNothing

Evaluate ==
    \/ Launch \/ (\E o \in Outcomes : Measure(o)) \/ CleanUp \/ CleanUpFails
    \/ WriteResult \/ FinishExperiment

End == RecordError \/ Close \/ CloseFails

Environment ==
    \/ Resume \/ Crash \/ RequestStop \/ Expire
    \/ \E n \in Ids : GuardianStops(n)

Next == Recover \/ Choose \/ Evaluate \/ End \/ Environment

Spec == Init /\ [][Next]_vars

\* The controller goes on as long as it runs.  A wait in an evaluation is bounded by
\* budget.run and the request timeouts, the cleanup by deadlines of its own, and a turn
\* that is cancelled or out of budget ends; an agent left alone may take forever.
Progress ==
    \/ Recover \/ Evaluate \/ End
    \/ TryBaseline \/ Plan \/ EndLoop \/ LogTurn \/ LeaveTurn \/ TakeProposal \/ TakeNothing

FairSpec == Spec /\ WF_vars(Progress)

-----------------------------------------------------------------------------
(* Properties *)

\* Every variable stays in its range; in particular a third turn in a row without a
\* proposal ends the search (loop.py, empty_turns >= 3).
TypeOK ==
    /\ journal \in Seq([kind : Kinds, id : 0..MaxExperiments])
    /\ results \in [Ids -> Outcomes \cup {Nothing}]
    /\ turnFiles \subseteq 1..MaxTurns
    /\ engines \subseteq Ids
    /\ pc \in {"down", "recovering", "choosing", "planning", "logging", "proposed", "measuring",
               "cleaning", "settling", "recording", "failing", "closing"}
    /\ current \in 0..MaxExperiments
    /\ outcome \in Outcomes \cup {Nothing}
    /\ memory \in [best : 0..MaxExperiments, baseline : 0..MaxExperiments,
                   reference : 0..MaxExperiments]
    /\ {tainted, stop, cancelled, expired, proposed} \subseteq BOOLEAN
    /\ left \in 0..NumBaselines
    /\ empties \in 0..3 /\ (pc \in {"choosing", "planning"} => empties < 3)
    /\ runs \in 0..MaxRuns

\* Only an experiment whose processes were verifiably removed counts as accepted: the
\* cleanup comes after the decision and may still take it back (loop.py:234-246).
AcceptedWasCleaned == \A n \in Ids : results[n] \in Accepted => n \notin engines

\* A controller that resumed judges by the incumbent, baseline and reference outputs that
\* one that never stopped would use: what it holds is what results() would rebuild.
BooksMatchHistory == pc \notin {"down", "recovering"} => memory = Replayed

\* A result that reached the disk is never replaced, not even by the recovery of a crash
\* between the result and its event (loop.py:99, store.finish).
ResultsImmutable ==
    [][\A n \in Ids : results[n] # Nothing => results'[n] = results[n]]_vars

\* The store, with its crashes and recoveries, is the history that History describes.
Ledger == INSTANCE History WITH
    Open <- "open",
    history <- [n \in 1..(Max({0} \cup IdsOf("experiment_started"))) |->
                   IF n \in IdsOf("experiment_finished") THEN results[n].verdict ELSE "open"]

ImplementsHistory == Ledger!Spec

\* A stop or the deadline ends the search, whatever it was doing (instructions.md:322,
\* TimeBudget).
SearchStops == (stop \/ expired) /\ pc # "down" ~> pc = "down"
=============================================================================
