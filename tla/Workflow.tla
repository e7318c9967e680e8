------------------------------ MODULE Workflow ------------------------------
(***************************************************************************)
(* One output directory of `servepilot optimize' and the commands that work *)
(* with it: optimize and `optimize --resume' (optimization/workflow.py),    *)
(* `deploy' of its recipe, and `stop' (controller_state.py, runtime/state.py)*)
(* from another shell.  Each command is a process that may fail, be stopped *)
(* by a signal or be killed at any step; what it leaves are the files of    *)
(* the directory, two state files, and containers whose guardians end them. *)
(*                                                                         *)
(* The search is module Search, an experiment is module Containers; here    *)
(* they are one container that is there while they run.                     *)
(***************************************************************************)
EXTENDS Integers, FiniteSets

CONSTANTS
    Processes,    \* the commands that are started, by process number
    MaxDrift,     \* bound: how often an image tag, the GPUs or the model change
    MaxSignals,   \* bound: stop commands
    MaxMishaps    \* bound: failing steps and kills

ASSUME WorkflowAssumption ==
    /\ Processes \subseteq Nat \ {0} /\ IsFiniteSet(Processes)
    /\ {MaxDrift, MaxSignals, MaxMishaps} \subseteq Nat

VARIABLES
    at,           \* where each process is
    kind,         \* "optimize", "resume" or "deploy", once it has begun
    namespace,    \* the label of a process's containers
    loaded,       \* engine_images and model of the checkpoint that it has loaded
    ground,       \* what it works with: base image, GPUs, model
    stopped,      \* optimize's `stopped' event
    cancelled,    \* its task has a cancellation that it has not seen
    event,        \* Deployment._stop_event
    lock,         \* who holds .controller.lock
    setup,        \* .setup.json: namespace, engine_images and model
    run,          \* run.json: engine_images, hardware and model
    litter,       \* a temporary file that a killed process was writing
    recorded,     \* the namespace in the last setup_complete event
    recipe,       \* "none", "good" or "torn": its files are not those it names
    controller,   \* who optimization.json names
    state,        \* who the runtime state file names
    containers,   \* what runs on the nodes
    world,        \* what the image tag, the GPUs and the model stand for today
    used,         \* history: the grounds that this output was measured and served on
    signals, mishaps

process == <<kind, namespace, loaded, ground>>
flags   == <<stopped, cancelled, event>>
output  == <<lock, setup, run, litter, recorded, recipe>>
records == <<controller, state>>
vars == <<at, process, flags, output, records, containers, world, used, signals, mishaps>>

None == 0
NoSetup == [label |-> None, images |-> None, model |-> None]
Nothing == [images |-> None, gpus |-> None, model |-> None]

SetupPlaces == {"setup", "inspected", "probing", "prepared", "clean", "loading", "staged"}
Deploying == {"starting", "verifying", "serving", "stopping"}

Live(p) == p # None /\ at[p] # "ended"
Go(p, from, to) == at[p] = from /\ at' = [at EXCEPT ![p] = to]
Mishap == mishaps < MaxMishaps /\ mishaps' = mishaps + 1
Own(p) == {c \in containers : c.owner = p}
Launched(p) == containers \cup {[owner |-> p, label |-> namespace[p], tended |-> TRUE]}
Disowned(p) == (containers \ Own(p)) \cup {[c EXCEPT !.tended = FALSE] : c \in Own(p)}
Unlocked(p) == IF lock = p THEN None ELSE lock
ClearedBy(p) == IF controller = p THEN None ELSE controller

Init ==
    /\ at = [p \in Processes |-> "off"] /\ kind = [p \in Processes |-> "none"]
    /\ namespace = [p \in Processes |-> None] /\ ground = [p \in Processes |-> Nothing]
    /\ loaded = [p \in Processes |-> NoSetup]
    /\ stopped = {} /\ cancelled = {} /\ event = {}
    /\ lock = None /\ setup = NoSetup /\ run = Nothing /\ litter = FALSE
    /\ recorded = None /\ recipe = "none"
    /\ controller = None /\ state = None /\ containers = {}
    /\ world \in [image : {1}, gpus : {1}, model : {1}, local : BOOLEAN]
    /\ used = {} /\ signals = 0 /\ mishaps = 0
-----------------------------------------------------------------------------
(* A command begins.                                                        *)

\* require_available
Available == ~Live(state) /\ ~Live(controller)

BeginOptimize(p) ==
    /\ Available /\ Go(p, "off", "checked")
    /\ kind' \in {[kind EXCEPT ![p] = "optimize"], [kind EXCEPT ![p] = "resume"]}
    /\ UNCHANGED <<namespace, loaded, ground, flags, output, records, containers, world, used, signals,
                   mishaps>>

\* compatibility(hardware) with the hardware of the recipe.
Suits == world.gpus = run.gpus

\* The recipe, whose files have the sums it names, is deployed on GPUs like those it was
\* measured on, or refused.
BeginDeploy(p) ==
    /\ Available /\ recipe = "good"
    /\ Go(p, "off", IF Suits THEN "staging" ELSE "ended")
    /\ kind' = [kind EXCEPT ![p] = "deploy"]
    /\ namespace' = [namespace EXCEPT ![p] = p]
    /\ ground' = [ground EXCEPT ![p] =
           [images |-> run.images, gpus |-> world.gpus, model |-> run.model]]
    /\ UNCHANGED <<loaded, flags, output, records, containers, world, used, signals, mishaps>>

\* Another controller has the lock, there is nothing to resume, or the directory is in use.
Refused(p) ==
    \/ lock # None
    \/ kind[p] = "resume" /\ setup = NoSetup /\ run = Nothing
    \/ kind[p] = "optimize" /\ (setup # NoSetup \/ run # Nothing \/ litter)

\* The record is written as soon as the lock is taken, and cleared at the end.
Refuse(p) ==
    /\ Refused(p) /\ Go(p, "checked", "ended")
    /\ controller' = IF lock = None THEN None ELSE controller
    /\ UNCHANGED <<process, flags, output, state, containers, world, used, signals, mishaps>>

\* Mutant: a setup that was never completed is begun anew.
NamespaceAnew(p) == IF recorded # None THEN recorded ELSE p

\* The label of the last complete setup, or of the checkpoint, or a new one.
Namespace(p) ==
    CASE run # Nothing /\ recorded # None -> recorded
      [] (run = Nothing \/ recorded = None) /\ setup # NoSetup -> setup.label
      [] OTHER -> p

\* The lock is taken, the controller recorded, and a new setup written down.
Enter(p) ==
    /\ ~Refused(p) /\ Go(p, "checked", "setup")
    /\ lock' = p /\ controller' = p
    /\ namespace' = [namespace EXCEPT ![p] = Namespace(p)]
    /\ loaded' = [loaded EXCEPT ![p] = setup]
    /\ setup' = IF kind[p] = "optimize" THEN [NoSetup EXCEPT !.label = p] ELSE setup
    /\ UNCHANGED <<kind, ground, flags, run, litter, recorded, recipe, state, containers, world, used,
                   signals, mishaps>>
-----------------------------------------------------------------------------
(* Setup: a cancellation ends it at its next await.                         *)

Proceeds(p) == p \notin cancelled

PinnedModel(p) == IF run # Nothing THEN run.model ELSE loaded[p].model

\* A local directory is read anew; a revision of the hub is resolved once.
Model(p) == IF world.local \/ PinnedModel(p) = None THEN world.model ELSE PinnedModel(p)

\* "hardware, topology, or drivers changed", "local model contents changed"
Changed(p) ==
    \/ run # Nothing /\ world.gpus # run.gpus
    \/ PinnedModel(p) \notin {None, Model(p)}

\* The machines and the model are inspected, and the model is written down.
Inspect(p) ==
    /\ Proceeds(p) /\ ~Changed(p) /\ Go(p, "setup", "inspected")
    /\ ground' = [ground EXCEPT ![p] = [images |-> None, gpus |-> world.gpus, model |-> Model(p)]]
    /\ setup' = IF run = Nothing THEN [setup EXCEPT !.model = Model(p)] ELSE setup
    /\ UNCHANGED <<kind, namespace, loaded, flags, lock, run, litter, recorded, recipe, records, containers,
                   world, used, signals, mishaps>>

\* Mutant: a resumed run resolves the tag again, unless a failed setup has pinned it.
PinsOfSetup(p) == IF loaded[p].images # None THEN loaded[p].images ELSE world.image

\* run.json's digests, those of an earlier attempt, or what the tag stands for today.
Pins(p) == IF run # Nothing THEN run.images ELSE PinsOfSetup(p)

\* manager.prepare: the images are pulled, then tried out in a container.
Probe(p) ==
    /\ Proceeds(p) /\ Go(p, "inspected", "probing")
    /\ ground' = [ground EXCEPT ![p].images = Pins(p)]
    /\ containers' = Launched(p)
    /\ UNCHANGED <<kind, namespace, loaded, flags, output, records, world, used, signals, mishaps>>

Prepared(p) ==
    /\ Proceeds(p) /\ Go(p, "probing", "prepared")
    /\ containers' = containers \ Own(p)
    /\ UNCHANGED <<process, flags, output, records, world, used, signals, mishaps>>

CleanUpPrevious(p) ==
    /\ Proceeds(p) /\ Go(p, "prepared", "clean")
    /\ containers' = {c \in containers : c.label # namespace[p]}
    /\ UNCHANGED <<process, flags, output, records, world, used, signals, mishaps>>

\* NCCL is tried out and the model is staged, both in containers.
Stage(p) ==
    /\ Proceeds(p) /\ Go(p, "clean", "loading")
    /\ containers' = Launched(p)
    /\ UNCHANGED <<process, flags, output, records, world, used, signals, mishaps>>

\* The files that have been uploaded are not those of the manifest.
StaleModel(p) == world.local /\ world.model # ground[p].model

Loaded(p) ==
    /\ Proceeds(p) /\ ~StaleModel(p) /\ Go(p, "loading", "staged")
    /\ containers' = containers \ Own(p)
    /\ UNCHANGED <<process, flags, output, records, world, used, signals, mishaps>>

\* A new run wants its directory empty but for the files of a setup.
Create(p) ==
    /\ Proceeds(p) /\ (run = Nothing => ~litter) /\ Go(p, "staged", "created")
    /\ run' = IF run = Nothing THEN ground[p] ELSE run
    /\ UNCHANGED <<process, flags, lock, setup, litter, recorded, recipe, records, containers, world, used,
                   signals, mishaps>>

\* setup_complete; from here on the optimizer gets the stop requests.
Record(p) ==
    /\ Go(p, "created", "searching")
    /\ recorded' = namespace[p]
    /\ UNCHANGED <<process, flags, lock, setup, run, litter, recipe, records, containers, world, used,
                   signals, mishaps>>

Cancel(p) ==
    /\ p \in cancelled /\ at[p] \in SetupPlaces
    /\ cancelled' = cancelled \ {p} /\ Go(p, at[p], "failing")
    /\ lock' = Unlocked(p)
    /\ UNCHANGED <<process, stopped, event, setup, run, litter, recorded, recipe, records, containers, world,
                   used, signals, mishaps>>
-----------------------------------------------------------------------------
(* Search, export and deployment.                                           *)

Experiment(p) ==
    /\ Go(p, "searching", "measuring")
    /\ containers' = Launched(p) /\ used' = used \cup {ground[p]}
    /\ UNCHANGED <<process, flags, output, records, world, signals, mishaps>>

\* Stopped, out of time or settled, with a winner or without one.
SearchEnds(p) ==
    /\ containers' = containers \ Own(p)
    /\ \/ Go(p, "measuring", "exporting") /\ UNCHANGED lock
       \/ Go(p, "measuring", "unwinding") /\ lock' = Unlocked(p)
       \/ Go(p, "searching", "unwinding") /\ lock' = Unlocked(p)
    /\ UNCHANGED <<process, flags, setup, run, litter, recorded, recipe, records, world, used, signals, mishaps>>

\* An archive or the Dockerfile is replaced: the recipe of an earlier winner has other sums.
Export(p) ==
    /\ Go(p, "exporting", "writing")
    /\ recipe' \in {recipe, IF recipe = "good" THEN "torn" ELSE recipe}
    /\ UNCHANGED <<process, flags, lock, setup, run, litter, recorded, records, containers, world, used,
                   signals, mishaps>>

\* Mutant: the winner is deployed although the search was stopped.
DeploysAnyway(p) == TRUE

Deploys(p) == p \notin stopped

\* The recipe; then, with no await in between, the handlers of the deployment are installed.
WriteRecipe(p) ==
    /\ recipe' = "good"
    /\ \/ Deploys(p) /\ Go(p, "writing", "starting") /\ UNCHANGED lock
       \/ Go(p, "writing", "unwinding") /\ lock' = Unlocked(p)
    /\ UNCHANGED <<process, flags, setup, run, litter, recorded, records, containers, world, used, signals,
                   mishaps>>

\* deploy_recipe: images imported, model staged; it has no record and no handlers until now.
Staged(p) ==
    /\ ~StaleModel(p) /\ Go(p, "staging", "starting")
    /\ UNCHANGED <<process, flags, output, records, containers, world, used, signals, mishaps>>

Launch(p) ==
    /\ at[p] = "starting" /\ Own(p) = {}
    /\ containers' = Launched(p) /\ used' = used \cup {ground[p]}
    /\ UNCHANGED <<at, process, flags, output, records, world, signals, mishaps>>

\* Deployment.start ends with the state file.
Started(p) ==
    /\ Go(p, "starting", "verifying") /\ Own(p) # {}
    /\ state' = p
    /\ UNCHANGED <<process, flags, output, controller, containers, world, used, signals, mishaps>>

\* on_ready: from now on the deployment's state file is the only record.
Verified(p) ==
    /\ Go(p, "verifying", "serving")
    /\ controller' = IF kind[p] = "deploy" THEN controller ELSE ClearedBy(p)
    /\ UNCHANGED <<process, flags, output, state, containers, world, used, signals, mishaps>>

StopServing(p) ==
    /\ p \in event /\ Go(p, "serving", "stopping")
    /\ UNCHANGED <<process, flags, output, records, containers, world, used, signals, mishaps>>

ShutDown(p) ==
    /\ Go(p, "stopping", "unwinding")
    /\ containers' = containers \ Own(p) /\ state' = None /\ lock' = Unlocked(p)
    /\ UNCHANGED <<process, flags, setup, run, litter, recorded, recipe, controller, world, used, signals,
                   mishaps>>
-----------------------------------------------------------------------------
(* Failures and the way out.                                                *)

\* The steps of a setup that cannot be taken.
Blocked(p) ==
    \/ at[p] = "setup" /\ Changed(p)
    \/ at[p] \in {"loading", "staging"} /\ StaleModel(p)
    \/ at[p] = "staged" /\ run = Nothing /\ litter

\* The lock is released on the way to the handlers of the failure.
Fail(p) ==
    /\ IF Blocked(p) THEN UNCHANGED mishaps ELSE Mishap
    /\ \/ at[p] \in SetupPlaces /\ Go(p, at[p], "failing") /\ lock' = Unlocked(p)
       \/ /\ at[p] \in {"created", "searching", "measuring", "exporting", "writing"}
          /\ Go(p, at[p], "unwinding") /\ lock' = Unlocked(p)
       \/ Go(p, "staging", "unwinding") /\ UNCHANGED lock
       \/ at[p] \in {"starting", "verifying"} /\ Go(p, at[p], "stopping") /\ UNCHANGED lock
    /\ UNCHANGED <<process, flags, setup, run, litter, recorded, recipe, records, containers, world, used,
                   signals>>

\* With no run definition yet, the checkpoint is written again, with the images known now,
\* unless it fails before there is a manager.
SaveSetup(p) ==
    /\ Go(p, "failing", "cleaning")
    /\ \/ /\ run = Nothing /\ ground[p].model # None
          /\ setup' = [label |-> namespace[p], images |-> ground[p].images, model |-> ground[p].model]
       \/ (run # Nothing \/ ground[p].images = None) /\ UNCHANGED setup
    /\ UNCHANGED <<process, flags, lock, run, litter, recorded, recipe, records, containers, world, used,
                   signals, mishaps>>

\* backend.close, or manager.cleanup after a setup, then the record of the controller.
Unwound(p) ==
    /\ Proceeds(p) /\ at[p] \in {"unwinding", "cleaning"} /\ Go(p, at[p], "ended")
    /\ containers' = containers \ Own(p)
    /\ controller' = IF kind[p] = "deploy" THEN controller ELSE ClearedBy(p)
    /\ UNCHANGED <<process, flags, output, state, world, used, signals, mishaps>>

\* A cleanup that fails or is cancelled skips the rest; the clients end with the process.
UnwindFails(p) ==
    /\ \/ p \in cancelled /\ UNCHANGED mishaps
       \/ p \notin cancelled /\ Mishap
    /\ at[p] \in {"unwinding", "cleaning"} /\ Go(p, at[p], "ended")
    /\ containers' = Disowned(p) /\ cancelled' = cancelled \ {p}
    /\ UNCHANGED <<process, stopped, event, output, records, world, used, signals>>

\* A crash, or the SIGKILL of a stop command that has waited long enough.
Kill(p) ==
    /\ at[p] \notin {"off", "ended"} /\ Mishap
    /\ Go(p, at[p], "ended")
    /\ litter' \in {litter, litter \/ at[p] \in {"setup", "failing"}}
    /\ containers' = Disowned(p) /\ lock' = Unlocked(p) /\ cancelled' = cancelled \ {p}
    /\ UNCHANGED <<process, stopped, event, setup, run, recorded, recipe, records, world, used,
                   signals>>

\* `servepilot stop' signals a live controller or else a live deployment.
Addressee == IF Live(controller) THEN controller ELSE state

\* The handler of optimize cancels the task as long as there is no optimizer.
Stop ==
    /\ signals < MaxSignals /\ signals' = signals + 1
    /\ LET p == Addressee
       IN  /\ Live(p)
           /\ IF at[p] \in Deploying \/ kind[p] = "deploy"
              THEN event' = event \cup {p} /\ UNCHANGED <<stopped, cancelled>>
              ELSE /\ stopped' = stopped \cup {p} /\ UNCHANGED event
                   /\ cancelled' = IF at[p] \in SetupPlaces \cup {"failing", "cleaning"}
                                  THEN cancelled \cup {p} ELSE cancelled
    /\ UNCHANGED <<at, process, output, records, containers, world, used, mishaps>>

\* The stop command removes the state file of a deployment that is gone.
Forget ==
    /\ ~Live(controller) /\ state # None /\ ~Live(state)
    /\ state' = None
    /\ UNCHANGED <<at, process, flags, output, controller, containers, world, used, signals, mishaps>>

\* Guardians end containers whose controller is gone.
LeaseEnds ==
    /\ \E c \in containers : ~c.tended /\ containers' = containers \ {c}
    /\ UNCHANGED <<at, process, flags, output, records, world, used, signals, mishaps>>

\* A registry moves the tag, GPUs or drivers are exchanged, the model is edited or updated.
Drift ==
    /\ world.image + world.gpus + world.model < 3 + MaxDrift
    /\ world' \in {[world EXCEPT !.image = @ + 1], [world EXCEPT !.gpus = @ + 1],
                   [world EXCEPT !.model = @ + 1]}
    /\ UNCHANGED <<at, process, flags, output, records, containers, used, signals, mishaps>>
-----------------------------------------------------------------------------
Setup(p) ==
    \/ Inspect(p) \/ Probe(p) \/ Prepared(p) \/ CleanUpPrevious(p) \/ Stage(p) \/ Loaded(p)
    \/ Create(p) \/ Record(p) \/ Cancel(p)

Deploy(p) ==
    Staged(p) \/ Launch(p) \/ Started(p) \/ Verified(p) \/ StopServing(p) \/ ShutDown(p)

Work(p) ==
    \/ Refuse(p) \/ Enter(p) \/ Setup(p) \/ Experiment(p) \/ SearchEnds(p) \/ Export(p)
    \/ WriteRecipe(p) \/ Deploy(p) \/ SaveSetup(p) \/ Unwound(p) \/ UnwindFails(p)

Next ==
    \/ \E p \in Processes : BeginOptimize(p) \/ BeginDeploy(p) \/ Work(p) \/ Fail(p) \/ Kill(p)
    \/ Stop \/ Forget \/ LeaseEnds \/ Drift

Spec == Init /\ [][Next]_vars

\* Every step of a command has a timeout or a budget, but for serving; guardians keep
\* their leases.
FairSpec == Spec /\ (\A p \in Processes : WF_vars(Work(p))) /\ WF_vars(LeaseEnds)
-----------------------------------------------------------------------------
(* Properties.                                                              *)

\* cleanup_previous_run, "only objects with this exact persisted run label": at any point
\* where the process may be killed, that label covers what an optimization has started.
LabelCovers ==
    \A c \in containers : kind[c.owner] # "deploy" => c.label = setup.label

\* All experiments of an output are measured with one base image, on the same GPUs and with
\* the same model, and its recipe serves with them, however often it is resumed, whatever
\* failed before, and whatever tag, drivers and model files have become meanwhile.
SameGround == Cardinality(used) <= 1

\* A stop that reached a command ends it and its containers, at whatever step it came: no
\* stop is lost where the handlers change from the setup to the optimizer to the deployment.
StopEnds ==
    \A p \in Processes : p \in stopped \cup event ~> at[p] = "ended" /\ Own(p) = {}
=============================================================================
