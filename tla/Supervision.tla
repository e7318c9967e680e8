---------------------------- MODULE Supervision ----------------------------
(***************************************************************************)
(* Keeping the replicas of a serving deployment alive, and taking it down: *)
(* runtime/health.py (HealthChecker), restart_replica and stop of          *)
(* runtime/replicas.py, and the shutdown of runtime/supervisor.py.         *)
(*                                                                         *)
(* The checker's loop, one restart task per dead replica and the shutdown   *)
(* are tasks of one event loop; the runtime state file is written by        *)
(* threads.  Engine processes die at any time.  The launcher is LocalLauncher *)
(* or the ContainerLauncher that serves a deployed recipe.                  *)
(* The model starts when the deployment serves: every replica is listed,    *)
(* alive, HEALTHY and recorded in the state file.                           *)
(***************************************************************************)
EXTENDS Integers, FiniteSets

CONSTANTS
    Indices,         \* the replicas: indices into the plan's gpu_groups
    MaxRestarts,     \* restarts allowed per replica within the rolling window
    UnhealthyAfter,  \* failed probes in a row that make a replica UNHEALTHY
    MaxMishaps       \* bound: crashes, failed launches and readiness timeouts

ASSUME SupervisionAssumption ==
    /\ IsFiniteSet(Indices)
    /\ MaxRestarts \in Nat
    /\ UnhealthyAfter \in Nat \ {0}
    /\ MaxMishaps \in Nat

VARIABLES
    phase,      \* how far Deployment.shutdown has come
    checker,    \* HealthChecker._loop: between checks, probing, or cancelled
    live,       \* check_once: the replicas being probed, as listed before
    status,     \* ReplicaState.status in the router; "absent": no entry
    missed,     \* consecutive_health_failures, counted up to UnhealthyAfter
    recent,     \* restart times of a replica that are still in the window
    task,       \* where the restart task of a replica is suspended
    cancelled,  \* restart tasks that health.stop has cancelled, not yet run
    listed,     \* the process of the Replica in ReplicaSet.replicas
    launched,   \* how many processes were launched for a replica so far
    alive,      \* which of them are running
    snapshots,  \* the state each running writer thread is about to write
    files,      \* the runtime state file: the processes it records, if it exists
    launcher,   \* which launcher the deployment was started with
    mishaps     \* bound: what went wrong so far

checkerVars == <<checker, live, missed, recent>>
recordVars  == <<snapshots, files, launcher>>
vars == <<phase, checkerVars, status, task, cancelled, listed, launched, alive,
          recordVars, mishaps>>

Phases   == {"serving", "stopping", "terminating", "collecting", "clearing", "down"}
Statuses == {"absent", "starting", "healthy", "unhealthy", "stopped"}
Tasks    == {"none", "sleeping", "terminating", "reaping", "launching", "waiting",
             "discarding", "recording", "saving"}

Launchers == {"local", "container"}
Containers == launcher = "container"

\* HealthChecker._restarting: the replicas that have a restart task.
Restarting == {i \in Indices : task[i] # "none"}

\* From the death of a replica's process to the success or failure of its restart.
Replacing == {"sleeping", "terminating", "reaping", "launching", "waiting", "discarding"}

Dead(i) == listed[i] \notin alive[i]

Mishap == mishaps < MaxMishaps /\ mishaps' = mishaps + 1

Init ==
    /\ phase = "serving"
    /\ checker = "idle"
    /\ live = {}
    /\ status = [i \in Indices |-> "healthy"]
    /\ missed = [i \in Indices |-> 0]
    /\ recent = [i \in Indices |-> 0]
    /\ task = [i \in Indices |-> "none"]
    /\ cancelled = {}
    /\ listed = [i \in Indices |-> 1]
    /\ launched = [i \in Indices |-> 1]
    /\ alive = [i \in Indices |-> {1}]
    /\ snapshots = [i \in Indices |-> {}]
    /\ files = {listed}
    /\ launcher \in Launchers
    /\ mishaps = 0

-----------------------------------------------------------------------------
(* check_once(): one synchronous pass over the list, then the probes, then  *)
(* one synchronous pass over their answers.                                 *)

\* Mutant: replicas that are being restarted are looked at as well.
ConsideredRestarting == {i \in Indices : status[i] \notin {"absent", "stopped"}}

\* Mutant: a replica that was given up is looked at again.
ConsideredStopped == {i \in Indices \ Restarting : status[i] # "absent"}

\* The replicas a check looks at.
Considered == {i \in Indices \ Restarting : status[i] \notin {"absent", "stopped"}}

BudgetSpent(i) == recent[i] >= MaxRestarts

\* Mutant: only giving up changes the status.
StatusOfDeadUnmarked(i) == IF BudgetSpent(i) THEN "stopped" ELSE status[i]

\* _handle_dead: the status of a replica found dead.
StatusOfDead(i) == IF BudgetSpent(i) THEN "stopped" ELSE "unhealthy"

BeginCheck ==
    /\ checker = "idle"
    /\ LET dead    == {i \in Considered : Dead(i)}
           restart == {i \in dead : ~BudgetSpent(i)}
       IN  /\ live' = Considered \ dead
           /\ status' = [i \in Indices |-> IF i \in dead THEN StatusOfDead(i) ELSE status[i]]
           /\ recent' = [i \in Indices |-> IF i \in restart THEN recent[i] + 1 ELSE recent[i]]
           /\ task' = [i \in Indices |-> IF i \in restart THEN "sleeping" ELSE task[i]]
    /\ checker' = "probing"
    /\ UNCHANGED <<phase, missed, cancelled, listed, launched, alive, recordVars, mishaps>>

MissedNow(i, ok) ==
    IF i \in ok THEN 0
    ELSE IF missed[i] < UnhealthyAfter THEN missed[i] + 1 ELSE UnhealthyAfter

StatusNow(i, ok) ==
    IF i \in ok THEN "healthy"
    ELSE IF status[i] = "healthy" /\ MissedNow(i, ok) = UnhealthyAfter THEN "unhealthy"
    ELSE status[i]

\* A probe may fail though its replica is alive, and may have been answered
\* before the replica died.
ApplyProbes ==
    /\ checker = "probing"
    /\ \E ok \in SUBSET live :
          LET answered == {i \in live : status[i] # "absent"}
          IN  /\ status' = [i \in Indices |->
                               IF i \in answered THEN StatusNow(i, ok) ELSE status[i]]
              /\ missed' = [i \in Indices |->
                               IF i \in answered THEN MissedNow(i, ok) ELSE missed[i]]
    /\ live' = {}
    /\ checker' = "idle"
    /\ UNCHANGED <<phase, recent, task, cancelled, listed, launched, alive, recordVars, mishaps>>

\* A restart time leaves the rolling window.
Expire(i) ==
    /\ recent[i] > 0
    /\ recent' = [recent EXCEPT ![i] = @ - 1]
    /\ UNCHANGED <<phase, checker, live, missed, status, task, cancelled, listed,
                   launched, alive, recordVars, mishaps>>

-----------------------------------------------------------------------------
(* _restart() and restart_replica(): one action per stretch between awaits.  *)

Runs(i, place) == task[i] = place /\ i \notin cancelled

\* The backoff is over; the process (already dead) is terminated: wait for
\* it, then scan the process table for what is left of its group.
WakeUp(i) ==
    /\ Runs(i, "sleeping")
    /\ task' = [task EXCEPT ![i] = "terminating"]
    /\ UNCHANGED <<phase, checkerVars, status, cancelled, listed, launched, alive,
                   recordVars, mishaps>>

\* terminate() has returned: the router forgets the replica, and the launch
\* of a new process on its port begins.
ForgetAndLaunch(i) ==
    /\ task' = [task EXCEPT ![i] = "launching"]
    /\ status' = [status EXCEPT ![i] = "absent"]
    /\ UNCHANGED <<phase, checkerVars, listed, launched, alive, recordVars, mishaps>>

TerminateOld(i) ==
    /\ Runs(i, "terminating")
    /\ UNCHANGED cancelled
    /\ ForgetAndLaunch(i)

\* Something in the group had kept the output pipes open, so terminate() has
\* to await its reader tasks ...
AwaitReaders(i) ==
    /\ Runs(i, "terminating") /\ ~Containers
    /\ task' = [task EXCEPT ![i] = "reaping"]
    /\ UNCHANGED <<phase, checkerVars, status, cancelled, listed, launched, alive,
                   recordVars, mishaps>>

\* ... and does so suppressing CancelledError, its own task's included.
ReapReaders(i) ==
    /\ task[i] = "reaping"
    /\ cancelled' = cancelled \ {i}
    /\ ForgetAndLaunch(i)

LaunchSucceeds(i) ==
    /\ Runs(i, "launching")
    /\ launched' = [launched EXCEPT ![i] = @ + 1]
    /\ alive' = [alive EXCEPT ![i] = @ \cup {launched'[i]}]
    /\ status' = [status EXCEPT ![i] = "starting"]
    /\ missed' = [missed EXCEPT ![i] = 0]
    /\ task' = [task EXCEPT ![i] = "waiting"]
    /\ UNCHANGED <<phase, checker, live, recent, cancelled, listed, recordVars, mishaps>>

\* What becomes of the running processes when a launch fails or is cancelled:
\* ContainerLauncher.launch cleans up everything its manager has started.
AfterFailedLaunch == IF Containers THEN [i \in Indices |-> {}] ELSE alive

\* Mutant: a failed launch ends the restart before the replica is registered.
LaunchFailsUnregistered(i) ==
    /\ Runs(i, "launching") /\ Mishap
    /\ alive' = AfterFailedLaunch
    /\ task' = [task EXCEPT ![i] = "none"]
    /\ UNCHANGED <<phase, checkerVars, status, cancelled, listed, launched, recordVars>>

\* A LaunchError: the replica is registered again, UNHEALTHY.
LaunchFails(i) ==
    /\ Runs(i, "launching") /\ Mishap
    /\ alive' = AfterFailedLaunch
    /\ status' = [status EXCEPT ![i] = "unhealthy"]
    /\ missed' = [missed EXCEPT ![i] = 0]
    /\ task' = [task EXCEPT ![i] = "none"]
    /\ UNCHANGED <<phase, checker, live, recent, cancelled, listed, launched, recordVars>>

\* Any other exception (TimeoutError of the SSH guardian's handshake) skips
\* the registration.  LocalLauncher raises none.
LaunchRaises(i) ==
    /\ Runs(i, "launching") /\ Containers /\ Mishap
    /\ alive' = AfterFailedLaunch
    /\ task' = [task EXCEPT ![i] = "none"]
    /\ UNCHANGED <<phase, checkerVars, status, cancelled, listed, launched, recordVars>>

BecomesReady(i) ==
    /\ Runs(i, "waiting") /\ launched[i] \in alive[i]
    /\ status' = [status EXCEPT ![i] = "healthy"]
    /\ listed' = [listed EXCEPT ![i] = launched[i]]
    /\ task' = [task EXCEPT ![i] = "recording"]
    /\ UNCHANGED <<phase, checkerVars, cancelled, launched, alive, recordVars, mishaps>>

\* The fresh process has exited, or has not answered within startup_timeout.
NotReady(i) ==
    /\ Runs(i, "waiting")
    /\ \/ launched[i] \notin alive[i] /\ UNCHANGED mishaps
       \/ launched[i] \in alive[i] /\ Mishap
    /\ task' = [task EXCEPT ![i] = "discarding"]
    /\ UNCHANGED <<phase, checkerVars, status, cancelled, listed, launched, alive, recordVars>>

\* It is terminated; a cancellation may be suppressed here too.
Discard(i) ==
    /\ task[i] = "discarding" /\ (Containers => i \notin cancelled)
    /\ alive' = [alive EXCEPT ![i] = @ \ {launched[i]}]
    /\ status' = [status EXCEPT ![i] = "unhealthy"]
    /\ task' = [task EXCEPT ![i] = "none"]
    /\ cancelled' = cancelled \ {i}
    /\ UNCHANGED <<phase, checkerVars, listed, launched, recordVars, mishaps>>

\* on_restart: a thread reads the list of replicas, then replaces the file.
TakeSnapshot(i) ==
    /\ Runs(i, "recording")
    /\ snapshots' = [snapshots EXCEPT ![i] = {listed}]
    /\ task' = [task EXCEPT ![i] = "saving"]
    /\ UNCHANGED <<phase, checkerVars, status, cancelled, listed, launched, alive,
                   files, launcher, mishaps>>

\* The thread goes on even when the task that waits for it was cancelled.
WriteFile(i) ==
    /\ snapshots[i] # {}
    /\ files' = snapshots[i]
    /\ snapshots' = [snapshots EXCEPT ![i] = {}]
    /\ UNCHANGED <<phase, checkerVars, status, task, cancelled, listed, launched,
                   alive, launcher, mishaps>>

FinishRestart(i) ==
    /\ Runs(i, "saving") /\ snapshots[i] = {}
    /\ task' = [task EXCEPT ![i] = "none"]
    /\ UNCHANGED <<phase, checkerVars, status, cancelled, listed, launched, alive,
                   recordVars, mishaps>>

\* Mutant: a task cancelled before it ever ran is waited for ever, as it skips its finally.
CancelTaskThatRan(i) ==
    /\ i \in cancelled /\ task[i] \notin {"reaping", "sleeping"}
    /\ task' = [task EXCEPT ![i] = "none"]
    /\ cancelled' = cancelled \ {i}
    /\ alive' = IF task[i] = "launching" THEN AfterFailedLaunch ELSE alive
    /\ UNCHANGED <<phase, checkerVars, status, listed, launched, recordVars, mishaps>>

\* A cancelled task ends where it is suspended.  A fresh process that it was
\* waiting for, or had begun to terminate, is left to the launcher.
CancelTask(i) ==
    /\ i \in cancelled /\ task[i] # "reaping"
    /\ task' = [task EXCEPT ![i] = "none"]
    /\ cancelled' = cancelled \ {i}
    /\ alive' = IF task[i] = "launching" THEN AfterFailedLaunch ELSE alive
    /\ UNCHANGED <<phase, checkerVars, status, listed, launched, recordVars, mishaps>>

-----------------------------------------------------------------------------
(* Deployment.shutdown(): stop the checker and the restarts, then the HTTP   *)
(* server (which nothing here sees), the replicas, the launcher's other      *)
(* processes, and remove the state file.                                     *)

\* health.stop() cancels the loop and every restart task ...
StopHealth ==
    /\ phase = "serving"
    /\ phase' = "stopping"
    /\ checker' = "cancelled"
    /\ live' = {}
    /\ cancelled' = Restarting
    /\ UNCHANGED <<missed, recent, status, task, listed, launched, alive, recordVars, mishaps>>

\* ... and returns when each of them has ended.
HealthStopped ==
    /\ phase = "stopping" /\ Restarting = {}
    /\ phase' = "terminating"
    /\ UNCHANGED <<checkerVars, status, task, cancelled, listed, launched, alive,
                   recordVars, mishaps>>

\* replica_set.stop() knows the listed processes only.
StopReplicas ==
    /\ phase = "terminating"
    /\ phase' = "collecting"
    /\ alive' = [i \in Indices |-> alive[i] \ {listed[i]}]
    /\ status' = [i \in Indices |-> "absent"]
    /\ UNCHANGED <<checkerVars, task, cancelled, listed, launched, recordVars, mishaps>>

\* launcher.shutdown_all()
ShutdownLauncher ==
    /\ phase = "collecting"
    /\ phase' = "clearing"
    /\ alive' = [i \in Indices |-> {}]
    /\ UNCHANGED <<checkerVars, status, task, cancelled, listed, launched, recordVars, mishaps>>

ClearState ==
    /\ phase = "clearing"
    /\ phase' = "down"
    /\ files' = {}
    /\ UNCHANGED <<checkerVars, status, task, cancelled, listed, launched, alive,
                   snapshots, launcher, mishaps>>

-----------------------------------------------------------------------------
\* An engine process dies.
Crash(i) ==
    /\ Mishap
    /\ \E n \in alive[i] : alive' = [alive EXCEPT ![i] = @ \ {n}]
    /\ UNCHANGED <<phase, checkerVars, status, task, cancelled, listed, launched, recordVars>>

Check == BeginCheck \/ ApplyProbes

Restart(i) ==
    \/ WakeUp(i) \/ TerminateOld(i) \/ AwaitReaders(i) \/ ReapReaders(i)
    \/ LaunchSucceeds(i) \/ LaunchFails(i) \/ LaunchRaises(i)
    \/ BecomesReady(i) \/ NotReady(i) \/ Discard(i)
    \/ TakeSnapshot(i) \/ FinishRestart(i) \/ CancelTask(i)

Shutdown ==
    StopHealth \/ HealthStopped \/ StopReplicas \/ ShutdownLauncher \/ ClearState

Next ==
    \/ Check \/ Shutdown
    \/ \E i \in Indices : Restart(i) \/ WriteFile(i) \/ Expire(i) \/ Crash(i)

Spec == Init /\ [][Next]_vars

\* The loop checks again after every interval, a backoff ends, a launch and
\* the wait for readiness have timeouts, and so has every step of a shutdown
\* that was asked for.  Nothing makes processes crash, restart times expire or
\* a shutdown be requested.
FairSpec ==
    /\ Spec
    /\ WF_vars(Check)
    /\ WF_vars(Shutdown /\ phase # "serving")
    /\ \A i \in Indices : WF_vars(Restart(i)) /\ WF_vars(WriteFile(i))

-----------------------------------------------------------------------------
(* Properties                                                               *)

\* Every variable keeps its shape; in particular no replica has more restart
\* times in its window than the budget allows.
TypeOK ==
    /\ phase \in Phases
    /\ checker \in {"idle", "probing", "cancelled"}
    /\ live \subseteq Indices
    /\ status \in [Indices -> Statuses]
    /\ missed \in [Indices -> 0..UnhealthyAfter]
    /\ recent \in [Indices -> 0..MaxRestarts]
    /\ task \in [Indices -> Tasks]
    /\ cancelled \subseteq Indices
    /\ listed \in [Indices -> Nat]
    /\ launched \in [Indices -> Nat]
    /\ alive \in [Indices -> SUBSET Nat]
    /\ snapshots \in [Indices -> SUBSET [Indices -> Nat]]
    /\ files \subseteq [Indices -> Nat]
    /\ launcher \in Launchers
    /\ mishaps \in Nat

\* A replica never has two engine processes at once: they would share its
\* port and its GPUs.  Checks, restarts and the shutdown may interleave.
OneProcessPerReplica == \A i \in Indices : \A m, n \in alive[i] : m = n

\* While a replica is being replaced the router sends it no request and no
\* probe can put it back into rotation (architecture.md, Serving path 4:
\* "pulls dead or failing ones out of rotation").
ReplacedOutOfRotation ==
    \A i \in Indices : task[i] \in Replacing => status[i] # "healthy" /\ i \notin live

\* restart_replica's docstring: after a failed restart the replica keeps "an
\* UNHEALTHY router entry, so the health checker sees it as dead again and
\* may retry".  A replica without an entry is one whose launch is under way.
\* A ContainerLauncher may leave one without (LaunchRaises).
FailedRestartIsRetried ==
    \A i \in Indices :
        ~Containers /\ phase = "serving" /\ status[i] = "absent" => task[i] = "launching"

\* When the deployment is down no engine process is left, those of restarts
\* cut off half-way included.
NothingSurvives == phase = "down" => \A i \in Indices : alive[i] = {}

\* A replica that was given up is never probed, restarted or routed to again,
\* even when old restart times leave the window.
StoppedIsFinal ==
    [][\A i \in Indices :
          status[i] = "stopped" /\ phase # "terminating" =>
              status'[i] = "stopped" /\ task'[i] = "none" /\ i \notin live']_vars

\* While the deployment serves, a replica whose process is dead is replaced by
\* a live one or given up (architecture.md: restarted "with backoff up to a
\* limit"), whatever else fails meanwhile.  Of the processes of a ContainerLauncher this
\* is not so: see LaunchRaises.
DeadIsReplaced ==
    \A i \in Indices :
        ~Containers /\ phase = "serving" /\ Dead(i)
            ~> ~Dead(i) \/ status[i] = "stopped" \/ phase # "serving"

\* A shutdown that was requested ends, whatever the restart tasks are doing.
ShutdownCompletes == phase # "serving" ~> phase = "down"
=============================================================================
