----------------------------- MODULE Containers -----------------------------
(***************************************************************************)
(* Engine containers over the experiments of a search: ContainerLauncher    *)
(* and ContainerManager (cluster/), started by a ReplicaSet                 *)
(* (runtime/replicas.py) for the LaunchBackend (optimization/backend.py),   *)
(* which lets no experiment begin before the memory of the last one is free.*)
(*                                                                         *)
(* A replica is a group of processes, started one after the other: one, the *)
(* ranks of a native runtime, Ray's daemons and driver, or the stages and   *)
(* router of a disaggregated one.  The first replica comes up alone, the    *)
(* others are concurrent tasks; a launch that fails cleans up everything    *)
(* the manager has started.  Guardians are what module Guardian shows them  *)
(* to be: they end their container when told, or when the lease is over.    *)
(***************************************************************************)
EXTENDS Integers, Sequences, FiniteSets, SequencesExt

CONSTANTS
    Groups,           \* Groups[r]: the processes of replica r, in launch order
    MaxExperiments,   \* bound: experiments
    MaxMishaps        \* bound: what goes wrong, interruptions included

Replicas == DOMAIN Groups
Processes == UNION {Range(Groups[r]) : r \in Replicas}

ASSUME ContainersAssumption ==
    /\ Groups # <<>> /\ \A r \in Replicas : Groups[r] # <<>>
    /\ IsFiniteSet(Processes)
    /\ MaxExperiments \in Nat /\ MaxMishaps \in Nat

VARIABLES
    phase,      \* where the experiment is
    task,       \* _launch_one of each replica
    at,         \* the process of its group that a task is starting
    handle,     \* "none", "new" (no SSH client yet), "open", "ended"
    told,       \* handles whose guardian was sent the stop line
    engine,     \* the container: "none", "empty", "loaded" (holds GPU memory)
    kept,       \* ContainerManager._handles
    targets,    \* the handles that a cleanup waits for, by task; 0 is the backend's
    listed,     \* ReplicaSet.replicas
    grouped,    \* ContainerLauncher._groups
    baseline,   \* _memory_baseline, by GPU (every process has its own)
    foreign,    \* memory of other programs
    released,   \* GPUs where somebody else's memory was freed since the sample
    stray,      \* containers of earlier experiments that still run
    cancelled,  \* tasks that were cancelled and have not run since
    over,       \* stop or deadline: no experiment follows
    exp, mishaps

launch == <<task, at, handle, told, engine, kept, targets, listed, grouped, cancelled>>
memory == <<baseline, foreign, released>>
vars == <<phase, launch, memory, stray, over, exp, mishaps>>

Bit(b) == IF b THEN 1 ELSE 0
Strays(p) == {s \in stray : s.at = p}
Used(p) == foreign[p] + Bit(engine[p] = "loaded") + Cardinality({s \in Strays(p) : s.holds})

\* terminate() has returned for each of them; at once, if there is no SSH client.
Ended(P) == \A p \in P : handle[p] # "open"

Process(r) == Groups[r][at[r]]

\* The next process of a group: a rank, a Ray worker that finds the head, a stage, or the
\* router once every stage is ready.
NextProcess(r) == Groups[r][at[r] + 1]
Mishap == mishaps < MaxMishaps /\ mishaps' = mishaps + 1

Init ==
    /\ phase = "idle" /\ exp = 0 /\ over = FALSE /\ mishaps = 0
    /\ task = [r \in Replicas |-> "none"] /\ at = [r \in Replicas |-> 1]
    /\ handle = [p \in Processes |-> "none"] /\ engine = [p \in Processes |-> "none"]
    /\ told = {} /\ kept = {} /\ listed = {} /\ grouped = {} /\ cancelled = {}
    /\ targets = [r \in Replicas \cup {0} |-> {}]
    /\ baseline = [p \in Processes |-> 0] /\ foreign = [p \in Processes |-> 0]
    /\ released = {} /\ stray = {}
-----------------------------------------------------------------------------
(* LaunchBackend.open: the memory sample, then the runtime, then replica 1. *)

\* _start: the handle is in the manager's list before its SSH client exists.
Begin(R) ==
    /\ task' = [r \in Replicas |-> IF r \in R THEN "forking" ELSE task[r]]
    /\ handle' = [p \in Processes |-> IF \E r \in R : p = Groups[r][1] THEN "new" ELSE handle[p]]
    /\ kept' = kept \cup {Groups[r][1] : r \in R}

Sample == baseline' = [p \in Processes |-> Used(p)] /\ released' = {} /\ UNCHANGED foreign

\* configure() refuses while a group is tracked.
Tracked == {r \in grouped : ~Ended(Range(Groups[r]))}

CanOpen == phase = "idle" /\ ~over /\ exp < MaxExperiments

Open ==
    /\ CanOpen /\ Tracked = {}
    /\ Sample /\ Begin({1})
    /\ phase' = "first" /\ exp' = exp + 1
    /\ UNCHANGED <<at, told, engine, targets, listed, grouped, cancelled, stray, over, mishaps>>

\* A build, a configuration or a validation that fails.
OpenFails ==
    /\ CanOpen /\ (Tracked = {} => Mishap) /\ (Tracked # {} => UNCHANGED mishaps)
    /\ Sample
    /\ phase' = "shutting" /\ exp' = exp + 1
    /\ UNCHANGED <<launch, stray, over>>
-----------------------------------------------------------------------------
(* ContainerLauncher.launch and start_guarded, as a task of _launch_one.    *)

Runs(r, what) == task[r] = what /\ r \notin cancelled

Others == <<phase, memory, stray, over, exp>>

Fork(r) ==
    /\ Runs(r, "forking")
    /\ handle' = [handle EXCEPT ![Process(r)] = "open"]
    /\ task' = [task EXCEPT ![r] = "handshake"]
    /\ UNCHANGED <<at, told, engine, kept, targets, listed, grouped, cancelled, Others, mishaps>>

\* The guardian has started the container and said so.
Started(r) ==
    /\ Runs(r, "handshake") /\ handle[Process(r)] = "open"
    /\ engine' = [engine EXCEPT ![Process(r)] = "empty"]
    /\ task' = [task EXCEPT ![r] = IF at[r] = Len(Groups[r]) THEN "waiting" ELSE "next"]
    /\ grouped' = IF at[r] = Len(Groups[r]) THEN grouped \cup {r} ELSE grouped
    /\ UNCHANGED <<at, handle, told, kept, targets, listed, cancelled, Others, mishaps>>

StartNext(r) ==
    /\ Runs(r, "next")
    /\ at' = [at EXCEPT ![r] = @ + 1]
    /\ task' = [task EXCEPT ![r] = "forking"]
    /\ handle' = [handle EXCEPT ![NextProcess(r)] = "new"]
    /\ kept' = kept \cup {NextProcess(r)}
    /\ UNCHANGED <<told, engine, targets, listed, grouped, cancelled, Others, mishaps>>

\* Mutant: a handle that has no SSH client yet is waited for as well.
CollectUnstarted(t) ==
    /\ targets' = [targets EXCEPT ![t] = kept]
    /\ told' = told \cup {p \in kept : handle[p] = "open"}
    /\ kept' = {}

\* ContainerManager.cleanup: the list is emptied, then every handle terminated; one that
\* has no SSH client yet is not.
Collect(t) ==
    /\ targets' = [targets EXCEPT ![t] = {p \in kept : handle[p] = "open"}]
    /\ told' = told \cup targets'[t]
    /\ kept' = {}

\* No SSH client, no port, no head, no member that joins, a stage that is not ready, or a
\* cancellation: launch() cleans up.
GiveUp(r) ==
    /\ task[r] \in {"forking", "next"}
    /\ \/ r \in cancelled /\ cancelled' = cancelled \ {r} /\ UNCHANGED mishaps
       \/ r \notin cancelled /\ UNCHANGED cancelled
          /\ IF task[r] = "next" /\ handle[Process(r)] = "ended" THEN UNCHANGED mishaps ELSE Mishap
    /\ Collect(r)
    /\ task' = [task EXCEPT ![r] = "collecting"]
    /\ UNCHANGED <<at, handle, engine, listed, grouped, Others>>

\* The handshake fails, takes 30 seconds or is cancelled: the container may run already.
HandshakeFails(r) ==
    /\ task[r] = "handshake"
    /\ \/ r \in cancelled /\ cancelled' = cancelled \ {r} /\ UNCHANGED mishaps
       \/ r \notin cancelled /\ UNCHANGED cancelled
          /\ IF handle[Process(r)] = "ended" THEN UNCHANGED mishaps ELSE Mishap
    /\ \/ handle[Process(r)] = "open" /\ engine' = [engine EXCEPT ![Process(r)] = "empty"]
       \/ UNCHANGED engine
    /\ told' = told \cup {Process(r)}
    /\ task' = [task EXCEPT ![r] = "undoing"]
    /\ UNCHANGED <<at, handle, kept, targets, listed, grouped, Others>>

\* terminate() has returned, `docker rm --force' was tried; then launch() cleans up.
Undo(r) ==
    /\ task[r] = "undoing" /\ (Ended({Process(r)}) \/ r \in cancelled)
    /\ \/ r \notin cancelled /\ engine' = [engine EXCEPT ![Process(r)] = "none"] /\ UNCHANGED mishaps
       \/ r \notin cancelled /\ Mishap /\ UNCHANGED engine
       \/ r \in cancelled /\ UNCHANGED <<engine, mishaps>>
    /\ cancelled' = cancelled \ {r}
    /\ Collect(r)
    /\ task' = [task EXCEPT ![r] = "collecting"]
    /\ UNCHANGED <<at, handle, listed, grouped, Others>>

\* A cleanup, or the end of a group that did not become ready, is over or cancelled.
TaskFails(r) ==
    /\ \/ task[r] = "collecting" /\ Ended(targets[r])
       \/ task[r] = "terminating" /\ Ended(Range(Groups[r]))
       \/ task[r] \in {"collecting", "terminating"} /\ r \in cancelled
    /\ task' = [task EXCEPT ![r] = "failed"]
    /\ cancelled' = cancelled \ {r}
    /\ UNCHANGED <<at, handle, told, engine, kept, targets, listed, grouped, Others, mishaps>>

Ready(r) ==
    /\ Runs(r, "waiting")
    /\ \A p \in Range(Groups[r]) : engine[p] = "loaded" /\ handle[p] = "open"
    /\ task' = [task EXCEPT ![r] = "ready"]
    /\ UNCHANGED <<at, handle, told, engine, kept, targets, listed, grouped, cancelled, Others, mishaps>>

\* A process of the group has ended, the time is over, or the wait is cancelled.
NotReady(r) ==
    /\ task[r] = "waiting"
    /\ \/ r \in cancelled /\ UNCHANGED mishaps
       \/ r \notin cancelled
          /\ IF \E p \in Range(Groups[r]) : handle[p] = "ended" THEN UNCHANGED mishaps ELSE Mishap
    /\ told' = told \cup {p \in Range(Groups[r]) : handle[p] = "open"}
    /\ task' = [task EXCEPT ![r] = "terminating"]
    /\ cancelled' = cancelled \ {r}
    /\ UNCHANGED <<at, handle, engine, kept, targets, listed, grouped, Others>>

Launch(r) ==
    \/ Fork(r) \/ Started(r) \/ StartNext(r) \/ GiveUp(r) \/ HandshakeFails(r) \/ Undo(r)
    \/ TaskFails(r) \/ Ready(r) \/ NotReady(r)
-----------------------------------------------------------------------------
(* ReplicaSet.start: the first replica, then the others under gather().     *)

Settled(r) == task[r] \in {"ready", "failed"}
Rest == Replicas \ {1}
Listing(R, next) == listed' = listed \cup R /\ phase' = next

FirstDone ==
    /\ phase = "first" /\ Settled(1)
    /\ \/ task[1] = "failed" /\ Listing({}, "stopping") /\ UNCHANGED <<task, handle, kept>>
       \/ task[1] = "ready" /\ Rest = {} /\ Listing({1}, "serving") /\ UNCHANGED <<task, handle, kept>>
       \/ task[1] = "ready" /\ Rest # {} /\ Listing({1}, "rest") /\ Begin(Rest)
    /\ UNCHANGED <<at, told, engine, targets, grouped, cancelled, memory, stray, over, exp, mishaps>>

\* A gather() that was cancelled returns no replica, those that are ready included.
RestDone ==
    /\ phase = "rest" /\ \A r \in Rest : Settled(r)
    /\ LET up == {r \in Rest : task[r] = "ready"}
       IN  CASE over -> Listing({}, "stopping")
             [] ~over /\ up # Rest -> Listing(up, "stopping")
             [] OTHER -> Listing(up, "serving")
    /\ UNCHANGED <<task, at, handle, told, engine, kept, targets, grouped, cancelled, memory, stray,
                   over, exp, mishaps>>

\* request_stop() or the deadline cancels the experiment, and so whatever it awaits.
Interrupt ==
    /\ phase \in {"first", "rest", "serving"} /\ ~over /\ Mishap
    /\ phase = "first" => ~Settled(1)
    /\ over' = TRUE
    /\ cancelled' = {r \in Replicas : ~Settled(r) /\ task[r] # "none"}
    /\ phase' = IF phase = "serving" THEN "stopping" ELSE phase
    /\ UNCHANGED <<task, at, handle, told, engine, kept, targets, listed, grouped, memory, stray, exp>>
-----------------------------------------------------------------------------
(* The end of an experiment: ReplicaSet.stop, by a failed start() or by     *)
(* Session.close, then LaunchBackend.close.                                 *)

Measured ==
    /\ phase = "serving" /\ phase' = "stopping"
    /\ UNCHANGED <<launch, memory, stray, over, exp, mishaps>>

\* replica_set.stop() terminates the listed replicas and waits for them.
Terminate ==
    /\ phase = "stopping"
    /\ told' = told \cup {p \in UNION {Range(Groups[r]) : r \in listed} : handle[p] = "open"}
    /\ phase' = "stopped"
    /\ UNCHANGED <<task, at, handle, engine, kept, targets, listed, grouped, cancelled, memory, stray,
                   over, exp, mishaps>>

Terminated ==
    /\ phase = "stopped" /\ \A r \in listed : Ended(Range(Groups[r]))
    /\ phase' = "shutting"
    /\ UNCHANGED <<launch, memory, stray, over, exp, mishaps>>

\* launcher.shutdown_all
ShutDown ==
    /\ phase = "shutting"
    /\ Collect(0)
    /\ phase' = "collecting"
    /\ UNCHANGED <<task, at, handle, engine, listed, grouped, cancelled, memory, stray, over, exp, mishaps>>

ShutDownDone ==
    /\ phase = "collecting" /\ Ended(targets[0])
    /\ grouped' = {} /\ phase' = "gate"
    /\ UNCHANGED <<task, at, handle, told, engine, kept, targets, listed, cancelled, memory, stray,
                   over, exp, mishaps>>

\* Mutant: one GPU that is free again is enough.
FreeAgainSomewhere == \E p \in Processes : Used(p) <= baseline[p]

FreeAgain == \A p \in Processes : Used(p) <= baseline[p]

\* What is left runs on: with heartbeats, if its handle is open.  A container is blind to
\* the gate if it holds no memory yet, or while somebody else has freed as much.
GatePasses ==
    /\ phase = "gate" /\ FreeAgain
    /\ phase' = "idle"
    /\ stray' = stray \cup
          {[at |-> p, exp |-> exp, tended |-> handle[p] = "open", holds |-> engine[p] = "loaded",
            blind |-> engine[p] # "loaded" \/ p \in released] : p \in {q \in Processes : engine[q] # "none"}}
    /\ task' = [r \in Replicas |-> "none"] /\ at' = [r \in Replicas |-> 1]
    /\ handle' = [p \in Processes |-> "none"] /\ engine' = [p \in Processes |-> "none"]
    /\ told' = {} /\ listed' = {} /\ targets' = [r \in Replicas \cup {0} |-> {}]
    /\ baseline' = [p \in Processes |-> 0] /\ released' = {}
    /\ UNCHANGED <<kept, grouped, cancelled, foreign, over, exp, mishaps>>

\* The deadline of the gate: the search stops.
GateFails ==
    /\ phase = "gate" /\ ~FreeAgain
    /\ phase' = "halted"
    /\ UNCHANGED <<launch, memory, stray, over, exp, mishaps>>

\* The controller ends, and every SSH client with it; it may also be killed.
ControllerEnds ==
    /\ phase # "ended"
    /\ \/ phase = "halted" /\ UNCHANGED mishaps
       \/ phase = "idle" /\ (over \/ exp = MaxExperiments) /\ UNCHANGED mishaps
       \/ Mishap
    /\ phase' = "ended"
    /\ handle' = [p \in Processes |-> IF handle[p] = "none" THEN "none" ELSE "ended"]
    /\ stray' = {[s EXCEPT !.tended = FALSE] : s \in stray}
    /\ task' = [r \in Replicas |-> "none"] /\ cancelled' = {}
    /\ UNCHANGED <<at, told, engine, kept, targets, listed, grouped, memory, over, exp>>
-----------------------------------------------------------------------------
(* The nodes.                                                               *)

World(p) == UNCHANGED <<phase, task, at, told, kept, targets, listed, grouped, cancelled, over, exp>>

Load(p) ==
    /\ engine[p] = "empty" /\ engine' = [engine EXCEPT ![p] = "loaded"]
    /\ UNCHANGED <<handle, memory, stray, mishaps>> /\ World(p)

\* The stop line is heeded, and the guardian reports the exit.
GuardianStops(p) ==
    /\ p \in told /\ handle[p] = "open"
    /\ handle' = [handle EXCEPT ![p] = "ended"] /\ engine' = [engine EXCEPT ![p] = "none"]
    /\ UNCHANGED <<memory, stray, mishaps>> /\ World(p)

EngineExits(p) ==
    /\ engine[p] # "none" /\ handle[p] = "open" /\ p \notin told /\ Mishap
    /\ handle' = [handle EXCEPT ![p] = "ended"] /\ engine' = [engine EXCEPT ![p] = "none"]
    /\ UNCHANGED <<memory, stray>> /\ World(p)

\* The controller's end of the connection is gone; the node may not know for a while.
ConnectionLost(p) ==
    /\ handle[p] = "open" /\ Mishap
    /\ handle' = [handle EXCEPT ![p] = "ended"]
    /\ UNCHANGED <<engine, memory, stray>> /\ World(p)

\* Mutant: a guardian waits for the controller to come back.
LeaseForgotten(p) ==
    /\ handle[p] = "ended" /\ engine[p] # "none" /\ p \in told
    /\ engine' = [engine EXCEPT ![p] = "none"]
    /\ UNCHANGED <<handle, memory, stray, mishaps>> /\ World(p)

\* The guardian notices, at the end of its lease at the latest.
LeaseEnds(p) ==
    /\ handle[p] = "ended" /\ engine[p] # "none"
    /\ engine' = [engine EXCEPT ![p] = "none"]
    /\ UNCHANGED <<handle, memory, stray, mishaps>> /\ World(p)

StrayLoads(s) ==
    /\ ~s.holds /\ stray' = (stray \ {s}) \cup {[s EXCEPT !.holds = TRUE]}
    /\ UNCHANGED <<handle, engine, memory, mishaps>> /\ World(s.at)

StrayEnds(s) ==
    /\ ~s.tended /\ stray' = stray \ {s}
    /\ released' = IF s.holds THEN released \cup {s.at} ELSE released
    /\ UNCHANGED <<handle, engine, baseline, foreign, mishaps>> /\ World(s.at)

ForeignChanges(p) ==
    /\ Mishap
    /\ foreign' = [foreign EXCEPT ![p] = 1 - @]
    /\ released' = IF foreign[p] = 1 THEN released \cup {p} ELSE released
    /\ UNCHANGED <<handle, engine, baseline, stray>> /\ World(p)

Node(p) == Load(p) \/ GuardianStops(p) \/ LeaseEnds(p)
-----------------------------------------------------------------------------
Controller ==
    \/ FirstDone \/ RestDone \/ Measured \/ Terminate \/ Terminated
    \/ ShutDown \/ ShutDownDone \/ GatePasses \/ GateFails

Next ==
    \/ Open \/ OpenFails \/ Interrupt \/ ControllerEnds \/ Controller
    \/ \E r \in Replicas : Launch(r)
    \/ \E p \in Processes : Node(p) \/ EngineExits(p) \/ ConnectionLost(p) \/ ForeignChanges(p)
    \/ \E s \in stray : StrayLoads(s) \/ StrayEnds(s)

Spec == Init /\ [][Next]_vars

\* Launches, terminations and the gate have timeouts, a measurement its requests';
\* guardians keep their leases.  Nothing makes an experiment begin or a fault happen.
FairSpec ==
    /\ Spec
    /\ WF_vars(Controller)
    /\ \A r \in Replicas : WF_vars(Launch(r))
    /\ \A p \in Processes : WF_vars(Node(p))
    /\ WF_vars(\E s \in stray : StrayEnds(s))
-----------------------------------------------------------------------------
(* Properties.                                                              *)

\* loop.py, "Never continue on contaminated GPUs": what an earlier experiment left on a
\* node while another one runs is a container that the gate could not see.
SoleOnGpus == phase \in {"first", "rest", "serving"} => \A s \in stray : s.blind

\* backend.py:143, "verifies memory after every owned container has stopped": when the
\* memory is looked at, no container has a guardian that is kept alive by heartbeats.
GateAfterAllStopped ==
    phase = "gate" => \A p \in Processes : engine[p] # "none" => handle[p] = "ended"

\* Every experiment that was begun ends, whichever of its tasks wait for each other.
ExperimentEnds == phase \notin {"idle", "halted", "ended"} ~> phase \in {"idle", "halted", "ended"}

\* No container outlives the controller, not even one it had lost sight of.
EnginesEnd == phase = "ended" ~> stray = {} /\ \A p \in Processes : engine[p] = "none"
=============================================================================
