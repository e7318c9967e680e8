# TLA+ models of ServePilot

Models, model-checking configurations and machine-checked proofs for ServePilot
(`src/servepilot`): the serving path, the supervision of replicas, the optimization
workflow from its command line down to the guardians of remote containers, the planner,
the tuner and the benchmark.

Every model is written from the source, at the granularity of what can interleave in
it. The program is mostly one asyncio event loop, so an action is what a task does
between two awaits; writer threads, remote processes, other commands and crashes get
actions of their own. `PROJECT.json` maps every definition to the lines it models.

## 1. Inventory

| part | state | operations | hard behaviour | what makes it correct | module |
|---|---|---|---|---|---|
| `runtime/router.py`, `policies.py` | replicas and their books, an asyncio semaphore, a waiting counter | acquire, reroute, release, select, add/remove/set_status | cancellation at any await, waiters that are granted but have not run, books of replaced objects | slots conserved, books exact, first come first served | `Router` |
| `api/proxy.py` | one lease, response and error per request | send with one retry, stream, cleanup | client leaves, backend drops, 5xx, failures between hand-off and first byte | released and charged exactly once | `Router` |
| `runtime/health.py` | probe results, restart times, restart tasks | check_once, _restart, stop | stale answers, overlapping restarts, cancelled tasks | one process per replica, dead ones replaced or given up | `Supervision` |
| `runtime/replicas.py` | the list of replicas, their ports | start, restart_replica, stop | failures half way through a start or restart | nothing lost, nothing left | `Supervision`, `Containers` |
| `runtime/supervisor.py`, `state.py` | the deployment's phase, the runtime state file | start, shutdown, write and clear the file | threads that write in any order, shutdown during restarts, two commands and one file | nothing survives, `stop` finds what serves | `Supervision`, `Serving`, `Workflow` |
| `engines/process.py` | process groups, reader tasks | start, terminate, verify | swallowed cancellations, descendants | nothing survives | `Supervision` |
| `optimization/loop.py`, `store.py`, `budget.py` | incumbent, baseline, reference; event journal, results, artifacts; a deadline | evaluate, propose, recover, stop; append, begin, finish | crash between two writes, resume, stop during any wait, failing cleanup | history immutable and complete, the search ends | `Search` |
| `optimization/container_backend.py`, `agent.py` | the agent's draft, its tool calls | runtime tools, propose, materialize | a tool cut off, a moving package index, pruned images | what is measured is what was edited | `Runtimes` |
| `optimization/backend.py` | a memory sample, an open session | open, measure, close, gate | other programs' memory, half-open connections | no experiment beside an older one | `Containers` |
| `optimization/workflow.py`, `controller_state.py` | run lock, checkpoints, records of running commands, signal handlers | optimize, resume, export, deploy, stop | kills at any step, handlers that change hands, a world that changes between two commands | one ground, one label, no stop lost | `Workflow` |
| `optimization/verifier.py`, `correctness.py` | none | decide | missing or invalid measurements | fails closed | `Search` (which verdicts are possible) |
| `optimization/validation.py` | none | validate a proposal | plans at the limits | what the planner offers may be run | `Planner` |
| `cluster/containers.py`, `container_launcher.py`, `disaggregation.py` | handles, containers, groups | launch on one or several nodes, cleanup, build | partial and concurrent launches | cleanup is complete; one recipe on all nodes | `Containers`, `Runtimes` |
| `cluster/worker.py`, `ssh_launcher.py`, `transport.py` | remote process, lease, pipe, lock; event reader | heartbeat, stop, kill, report | lost or stalled connection, full pipe, three threads and one lock | nothing outlives its controller | `Guardian` |
| `planner/` | none | groups, memory, candidates, pruning, scores | ties, small memory, several nodes | sound, safe and best layouts | `Planner`, `Scoring` |
| `benchmark/tuner.py`, `evaluator.py`, `cache/`, `cli/pipeline.py` | evaluations, an open session, the record | stages A to D, record, resume | failing candidates, interruptions, a changed engine | the winner was measured, finished work is kept | `Tuning`, `Scoring` |
| `cli/app.py` (`tune`, `serve`, `stop`) | what is selected to be served | select, tune, deploy, stop | a record made by another engine, two commands at a time | what is served was measured and fits | `Serving` |
| `benchmark/runner.py`, `client.py`, `metrics.py` | requests in flight, answers so far | closed and open loop, stream, aggregate | streams that end anyhow, cancellation | the load is that of the spec, the report faithful | `Benchmark` |

Calls between the parts: the proxy calls the router; the health checker calls the
replica set (restarts), which calls the engine's launcher and the router; the
supervisor owns all of them and writes the state file from a thread after each restart.
`optimize` owns the store's lock, the optimizer and its backend; the backend builds
images and starts replica sets through the container launcher, whose processes are SSH
handles with a guardian on the other side. `deploy` and the winner of `optimize` run the
same supervisor; `stop` reads the records both leave and sends them signals.

How the modules meet: each takes the others as an environment that is at least as free
as they are. `Router` allows any status change or replacement at any time, `Supervision`
says which ones happen. `Search` has one step for an experiment, `Containers` shows what
that step does on the nodes, with one step for a guardian, which is `Guardian`; images
are `Runtimes`. In `Workflow` search and deployment are a few steps each, between the
commands that surround them. `Serving` puts the commands around `Tuning`, which it extends, and
has a few steps for the deployment that `Supervision` is about. `Planner` and `Tuning` share
the operators of `Scoring`.
What a module assumes of another is a property that is checked there: `Containers` uses
a guardian that ends its engine when told or without connection (`EndsWhenTold`), `Workflow` a search that ends (`SearchStops`) and containers that
end with their controller (`EnginesEnd`).

`PROJECT.json` lists the hazards of this code, each with its line and the properties
that would catch it, and every component with what is left out of it.

## 2. Modules

| module | what it is |
|---|---|
| `Router` | router, routing policy and proxy of one deployment |
| `Admission` | abstract: what the router promises about admission |
| `Supervision` | health checker, restarts, shutdown, state file, with either launcher |
| `Search` | optimizer loop over the experiment store, with crashes and resumed searches |
| `History` | abstract: what the experiment store promises its readers |
| `Containers` | groups of engine containers over the experiments of a search, and the memory gate |
| `Guardian` | one remote engine, its guardian and the controller's handle |
| `Runtimes` | the images of experiments: draft, proposal, build, inheritance |
| `Workflow` | optimize, resume, deploy and stop on one output directory |
| `Planner` | one planning, and a second one with one more option |
| `Scoring` | operators of `planner/scoring.py` |
| `Tuning` | the stages of the tuner and its record, over several runs |
| `Serving` | tune, serve and stop: the tuner, the record it leaves, and the state file |
| `Benchmark` | one benchmark run |
| `RouterProofs`, `SupervisionProofs`, `SearchProofs`, `ContainersProofs`, `GuardianProofs`, `RuntimesProofs`, `WorkflowProofs`, `BenchmarkProofs` | theorems about the module of that name; those about `Serving` and `Tuning` are in `SupervisionProofs` as well |
| `MC...` | instances for TLC, one per module that runs |

A definition whose comment begins with "Mutant:" is not part of the model. It is a variant of
the definition that follows it, with a plausible bug; `PROJECT.json` says which property
finds it.

### Router

State: `pc` (where a request's task is suspended), the semaphore as asyncio implements
it (`permits` its value, `waiters` its deque of futures), `waiting` (`_waiting`), the
lease with its `excluded` ids and `attempts`, and per `ReplicaState` *object* the books
`inflight` and `failures`. An object is a pair of id and generation, because a restart
registers a fresh object under the same id while leases still hold the old one.

`Refuse`, `Join`, `Enter`, `Resume` are the paths of `acquire()`; `Abandon`, `LeaveLine`,
`CancelWoken`, `CancelSend` are a cancellation at each await; `Respond` to
`FinishCleanup` are the proxy. `LeaveRotation`, `EnterRotation` and `ReplaceState` are
all the rest of the program may do to the registry.

Left out: `set_max_concurrency` (nothing calls it), the metrics, bodies and headers. The
round-robin among equally loaded replicas is a free choice.

### Supervision

State: the checker (`checker`, `live`, `missed`), restart times in the window
(`recent`), one restart task per replica (`task`, at each of its awaits), the router's
`status`, the processes (`listed` in `ReplicaSet.replicas`, `launched` so far, `alive`),
writer threads (`snapshots`) and the state file (`files`), the `phase` of a shutdown, and
which `launcher` the deployment was started with.

`BeginCheck` and `ApplyProbes` are the two synchronous passes of `check_once`, with the
probes in between. `WakeUp` to `FinishRestart` are `_restart` and `restart_replica`;
`CancelTask` is the cancellation by `health.stop()`, which `ReapReaders` and `Discard`
may swallow as `terminate()` does. With the container launcher a failed launch ends
everything the container manager has started, as `ContainerLauncher.launch` does, and may
raise what `restart_replica` does not expect (`LaunchRaises`).

Left out: the HTTP server's stop, failing writes of the file, a shutdown step that
raises, processes that survive SIGKILL.

### Search

State on disk: `journal` (the events), `results`, `turnFiles`. On the GPUs: `engines`,
the experiments whose processes may still run. Of the process: `pc`, the experiment in
hand, and `memory` (`_best`, `_baseline`, `_reference` as experiment ids). Each disk
write is one action, so `Crash` may fall between any two. `Volatile` is what a process
starts with; `Resume` is `optimize --resume` after a successful `cleanup_previous_run`.

`RequestStop` is the signal handler: it may be called at every await, and cancels the
active task only while that has not ended. `Measure(o)` picks an outcome, restricted by
`Possible` to those the verifier and the error paths can reach in the current state.

Left out: failing disk writes and checksums (the program stops on them), what the agent
does inside its turn, the trials of an experiment, the deployment after the search, and
the outer cancellation of `run()`, which no caller uses once the optimizer exists. Whether
`plateau_seconds` has passed is a free choice. Two turns never have the same content, so
a file under the number of a turn always refuses it, except the file that a turn without
any event would leave; `WriteTurn` allows that one.

### Containers

A replica is a group of processes that are started one after the other: one engine, the
ranks of a native runtime, Ray's daemons and driver, or the stages and the router of a
disaggregated one. State: for every replica its task (`task`, `at`) with a pending
cancellation (`cancelled`); for every process the `handle` (`new` before it has an SSH
client), whether it was `told` to stop, and the `engine` container on the node; the three
lists that are meant to find it again (`kept` by the manager, `grouped` by the launcher,
`listed` by the replica set) and what a cleanup is waiting for (`targets`). `baseline`,
`foreign` and `released` are the memory that the gate sees; `stray` are containers of
experiments that were given up.

`Open` samples the memory and starts the first replica, `FirstDone` and `RestDone` are
`ReplicaSet.start`, `Fork` to `NotReady` are `ContainerLauncher.launch` with
`start_guarded` and the wait for readiness, `Collect` is `ContainerManager.cleanup`.
`Interrupt` cancels whatever is awaited; `Terminate` to `GateFails` are the end of an
experiment. Nodes act on their own.

Left out: ports, command lines, one-shot commands (a failing one is a mishap), what is
measured.

### Guardian

State: the handle of the controller and the return code it would report, the connection
(`open`, `stalled`: nothing passes and nobody knows, `cut`), the `pipe` of events, and of
the guardian its main thread, the `stopped` event, the age of the lease, the lock of
`emit()` and the two forwarding threads; on the node the engine, its process group and
its container. `Write` blocks while the pipe is full, as `print()` does.

SIGTERM, grace period and SIGKILL are one action; `docker rm` is assumed to work. The
feeding of `input_text` is not modelled (engines are started without it).

### Runtimes

An image is an engine and a sequence of commands, each with the state of the package
index in which it ran. State: the agent's `draft` with the command a tool call is
running, the `proposal`, a build that goes from node to node and command to command,
`versions` as the registry knows them, and the stored `results`, from which a proposal may
inherit. Commands may fail, images be pruned, the index move, the controller crash.
`Materialized` is the image that an inherited runtime starts from.

Left out: files a command changes beyond its effect as a whole, archives and their
checksums, the profiler.

### Workflow

The processes are numbered commands; `at` says where each is, `kind` what it is. On disk:
`.setup.json` (`setup`), `run.json` (`run`), the last `setup_complete` event (`recorded`),
the recipe, the records `optimization.json` (`controller`) and runtime state (`state`),
and the lock. `world` is what an image tag, the GPUs and the model stand for at present,
`ground` what a process works with, and `used` remembers every ground that something was
measured or served on. `stopped`, `cancelled` and `event` are the three ways in which a stop
may reach a process, depending on whose handlers are installed.

One action per stretch between two awaits that a stop or a kill can tell apart. `Fail(p)`
stands for every step that can raise; where the code is certain to raise (`Blocked`) it
needs no mishap. `Kill` leaves temporary files, records and containers behind.

Left out: the reuse of a process number by another program, report pages, what the
commands print.

### Planner, Scoring

`Planner` is a deterministic program, so its runs differ only in their inputs
(`Scenarios`): snapshots of one or two machines, models, workloads and options. The
operators follow the code's functions: `GroupsOnNode` with the exhaustive and the greedy
search, the memory estimate, the candidates within machines (`PlansFor`) with the pruning, the layouts across machines,
and the ranking. `Rerun` plans the same input again with one more option, so that a
property can compare the two.

Left out: explanations; floating point is replaced by the integer units named at the top
of the module, with the code's roundings.

### Tuning

State: what the options of the command leave of the planning (`planned`), the stage and the
await it is at, the candidates still to launch, the open session, the measurements of this
run, the record on `disk`, and the environment (engine version, memory budget) that may
change between two runs. A run may be interrupted at an await, be killed, fail to launch or
to measure, and be resumed.

Left out: how `_sweep_points` picks its points (a constant), the wording of the rationale,
two tuners at a time.

### Serving

State: how far `serve` has come in each of two terminals (`shell`), what it has `selected`
here and from where (the tuner, a record of an earlier command, the planner's first choice),
whose deployment the state `file` names, and what a `stop` has read in it (`stopper`).
`raced` is a history variable: the deployments that were launched while another launch, a
shutdown or a stop had read the file and was still to write or remove it.

`Tune` and `Serve` begin; `Select` is `_select_plan`, which may take a record that is still
`Valid` (`validate_record`) or begin a run of the tuner, whose steps are `Stage` and `Tuned`.
`Launch` reads the file again and binds or gives up; `WriteState`, `Clear`, `WriteLate` and
`Exit` are what `run()` does with the file, `ReadState` and `ClearState` what `stop` does.
`Change` is an upgrade or another amount of free memory between two commands.

Left out: fingerprints (there is one model, one machine, one workload, so one record), a cap on
the concurrency of a replica, dry runs and the commands that only read, the reuse of a process
number by another program. The second terminal only serves without tuning.

### Benchmark

State: the requests that have `arrived`, wait (`backlog`) and are `sent`, what each answer
has brought (`wire`, `seen`), the results and the report. `deserved` is a history
variable: what `docs/benchmarking.md` says an answer is worth, computed from the answer
alone, while the results are computed as the client does.

Left out: generated prompts, percentiles, the energy figures, latencies as numbers.

## 3. Runs

Sizes are distinct states.

| run | instance | shows |
|---|---|---|
| `router_safety` | 3 requests, 2 replicas, 2 slots, queue 1, 1 replacement per id; 1.0M | slots, books and charges stay exact; a retry goes once, elsewhere |
| `router_queue` | 5 requests, arriving in order, 1 replica, 2 slots, queue 2, fair; 402k | `Router` implements `Admission`: first come first served within the limits; the queue's books are exact; every request that arrives settles |
| `supervision_safety` | 2 replicas, 2 restarts, 3 mishaps, both launchers, fair; 236k | one process per replica, none routed to while replaced; a dead replica is replaced or given up, for good; a shutdown ends |
| `search_runs` | 2 baselines, 2 experiments, 2 turns, 3 processes, fair; 601k | nothing accepted before its cleanup; results immutable, `Search` implements `History`; a resumed controller judges alike; a stop or the deadline ends the search |
| `containers_ends` | 3 replicas, one of them of 2 processes, 2 experiments, 2 mishaps, fair; 282k | what runs beside an experiment is only what the memory gate cannot see; every experiment ends, and every container with its controller |
| `containers_forgotten` | 1 experiment, 2 mishaps | the finding |
| `guardian_ends` | pipe 2, lease 2, container kept on success, fair; 100k | a reported exit, a closed connection, a stop and an expired lease leave nothing, but for a lease that expires while the pipe is full |
| `runtimes` | 2 nodes, 2 engines, 2 commands, 2 edits, 2 experiments, 1 release, 1 mishap; 9.2M | what is measured holds the edits that worked, all of them, in one version |
| `workflow` | 3 commands, 1 change of the world, 1 stop, 1 mishap, fair; 347k | one ground, one label, no stop lost |
| `planning` | 100 scenarios with 7 options each; 5k | plans are sound and may be run, best connected and memory-safe; options narrow |
| `serving` | 2 plans, 6 outcomes, 3 runs, 3 versions, 2 mishaps, 2 terminals and a stop; 3.7M | what is served was measured as it is launched, by an engine like the one installed, and fits; `stop` finds it; the tuner settles well; finished work is kept |
| `benchmark_loops` | 2 warm-up and 3 requests, 2 at a time, 2 chunks of 6 kinds; 198k | load as specified, nothing in flight afterwards, a faithful report |

Why these bounds are enough to be interesting:

* Router: an overtaking or a lost wake-up needs a holder, a granted waiter, a pending
  waiter and an arrival, a refusal two holders and two waiters before it: hence five
  requests for two slots in `router_queue`. Requests are interchangeable, so they arrive
  in the order of their numbers (`ArriveInOrder`) instead of declaring a symmetry, which
  liveness would not allow. The books of replaced objects need one replacement and two ids.
* Supervision: two replicas suffice for what one does to another; with two restarts in
  the budget and three mishaps a replica can fail, be restarted, fail again and be given
  up.
* Search: two experiments are the first with an incumbent; three processes let a recovery
  crash and be recovered; two turns let one be lost and counted again.
* Containers: the first replica comes up alone, so two concurrent launches need three
  replicas; one of them is a group so that a launch can fail in its middle; the second
  experiment meets what the first has left. Two mishaps are the fault and the
  interruption that fall together in the finding.
* Guardian: two lines fill the pipe with one of them the started event; one heartbeat
  period more than the lease is the first in which it expires.
* Runtimes: an experiment on an experiment needs two; two edits have an order, two nodes
  and one release let a replay meet a newer index half way.
* Workflow: two commands run at a time, and a third finds what both have left
  (`BeginInOrder`: their numbers carry no meaning). One change of the world is enough for
  any two grounds to differ; it commutes with every step that does not look at what has
  changed, so it happens where somebody is about to look (`DriftWhenSeen`). Neither matters
  to the proofs, which need no bounds.
* Planner: four GPUs are the most the exhaustive search of this instance takes
  (`ExhaustiveMax`, a parameter so that the greedy one is reached with six); wirings have
  several equally good and several bad partitions; nodes are of equal and of unequal size.
* Tuning and Serving: one plan that reaches a plateau and one that gains but may fail or break
  the limit; a first, an interrupted and a resumed run. Of the three versions two differ in
  their patch level alone, which a record survives, and the third in its minor number, which
  it does not (`MCMinor`). One set of options fixes the memory fraction and leaves one plan. The
  tuner neither reads nor writes the state file, and the other terminal and `stop` do not read
  the record: their steps commute, so the action constraint `Apart` lets them act while no
  tuner runs, and only over the records of a first run without mishap. The theorems about
  `StopFindsDeployment` and `FinishedIsKept` do without it.
* Benchmark: with three requests for two places one waits; two chunks distinguish text
  before and after a usage count or an end.

Mishaps, generations, experiments, turns, processes, drift, signals, edits and releases are
bounded by constants that exist for this alone (`MaxMishaps`, `MaxSetbacks`, `MaxGeneration`,
`MaxExperiments`, `MaxTurns`, `MaxRuns`, `MaxDrift`, `MaxSignals`, `MaxEdits`, `MaxIndex`,
`MaxVersion`, `MaxChunks`); `age` stops counting when the lease is over. Runs have
`CHECK_DEADLOCK FALSE` because each of these systems may really stop: all requests
settled, the deployment down, the last process ended, the plan made.

### Fairness

* Router: tasks that can go on do (`Resume`, `LeaveLine`), the HTTP client answers or
  times out (`DEFAULT_PROXY_TIMEOUT_SECONDS`), a stream ends or breaks. No client has to
  send, cancel or leave.
* Supervision: the checker's loop, launches and readiness (which have timeouts), writer
  threads, and the shutdown once it was asked for. No crash and no request for a shutdown
  is forced.
* Search: the controller goes on; waits in an evaluation are bounded by the budget and
  request timeouts, and a turn that was cancelled or is out of budget ends. An agent left
  alone may take for ever.
* Containers: launches, terminations and the gate have timeouts, a measurement its
  requests'; guardians keep their leases. Nothing makes an experiment begin or fail.
* Guardian: its threads run when they can; taking the lock is strongly fair (a lock is
  not withheld from one thread for ever); time passes; the controller reads what arrives.
  A stalled connection need not heal or end, and the controller need not act.
* Workflow: every step of a command has a timeout or a budget, but for serving, which ends
  only when it is told to; guardians keep their leases. Nobody has to start or stop anything.

The other runs check safety only.

## 4. Findings

`containers_forgotten` is a violation run: `GateAfterAllStopped` states a sentence of
`backend.py`, "This backend verifies memory after every owned container has stopped", and
the code does not always do so. `ContainerManager.cleanup`, called by a launch that fails,
takes the whole list of handles; that of a concurrent launch may have no SSH client yet, so
that its `terminate()` returns at once, and from then on nobody's list has it. If the
search is interrupted before `ReplicaSet.start` returns, the replica that has become ready
is in no other list either: the shutdown succeeds, and the gate looks at memory which an
engine that is still loading does not hold yet. Two launches that fail do the same without
an interruption: the cleanup of the first takes the new handle of the second off the list,
and that of the second no longer finds it there. `SoleOnGpus` says that this is all that
escapes the gate, and `EnginesEnd` that the lease ends it with the controller.

Also behaviour of the code, reachable in the models or met while writing them:

* Serving. `acquire` refuses a request while a slot is free, when waiters that were granted
  have not run yet: they still count as waiting (`router.py:115`). `terminate()` swallows
  the cancellation of a restart task, which may then launch an engine during the shutdown;
  it is still collected (`NothingEverSurvives`). With the container launcher a launch that
  fails with another exception than `LaunchError` leaves the replica without router entry,
  where no check finds it, and one that fails ends the engines of the other replicas, while
  `health.py:34` says that they keep serving. Two writers may leave the older list in the
  state file, or a file after the shutdown. `ReplicaSet.start`'s own failure path does not
  look at whether `stop()` succeeded.
* Search. A crash between the file of an agent turn and its event makes every later search
  fail at its first agent turn (`loop.py:360`, `store.py:210`). A stop between the end of a
  turn and the next step of `run()` cancels nothing, and the proposal is evaluated before
  the search stops. When the model's context limit is below what the traffic needs, the
  planner cuts the context to the limit (`candidates.py:105-130`) and `validate_proposal`
  refuses every such plan, so that no baseline is ever evaluated.
* Guardians. An expired lease is reported before anything is stopped, behind a writer that
  may be blocked on the full pipe (`worker.py:76`). A handle that reports "not running" may
  say no more than that the local ssh client ended (`ssh_launcher.py:118`). An engine whose
  connection is half open passes the memory gate as long as it holds no memory.
* Runtimes. After `prepare()` the registry keeps the version of the edited engine; an
  uploaded model volume keeps files that the model no longer has.
* Workflow. A kill while `.setup.json` is written leaves a file for which
  `ExperimentStore.create` refuses the directory. A second setup that fails while it
  prepares its images replaces the pinned ones by none in the checkpoint. An export replaces archives before `recipe.yaml`
  and may leave a recipe with other sums. The checkpoint after a failed setup is written
  after the lock was released. `deploy` has neither record nor handlers until its model is
  staged, and two processes may both pass `require_available`. A stop during the cleanup
  cancels it and leaves the controller's record. The state file says that a deployment is
  up before its correctness check.
* Planner. `-dpa` layouts, `--replicas` and the heads of layouts across nodes are exceptions
  to what `docs/planner.md` says of options and pruning: `Narrows` and `BestGroups` name the
  cases in which it holds. With fewer replicas than fit, groups of the last nodes are dropped
  after the best ones were chosen for all (`gpu_groups.py:93`).
* Serving. A deployment is on record only once it is ready, minutes after `serve` has read the
  file for the last time (`app.py:607`). Two `serve` that pass that check both launch; the one
  that ends, or fails to bind, removes the file of the other (`supervisor.py:126`), and `stop`
  may remove a file that was written after it had read an older one. `docs/architecture.md:89`
  says that `status` and `stop` work from another shell: `StopFindsDeployment` holds for every
  deployment outside `raced`.
* Tuning. A resumed tuning that is interrupted before its first evaluation closes the record
  as failed (`pipeline.py:254`, against the comment above it), and a fresh one that is
  interrupted early replaces a complete record.
* Benchmark. `GPUSampler.__aexit__` swallows a cancellation that arrives while it waits for
  its task (`gpu_sampler.py:49-54`). The open loop that is cancelled between two arrivals
  leaves its tasks to the closing of the client. The duration of an open loop includes the
  sleep after the last arrival.

## 5. Proofs

The eight modules of theorems are checked by TLAPS, for all values of the constants that
the named assumptions allow: finite sets of requests and processes, natural limits, a lease
and a pipe of at least one unit, chunks of the shape that a stream can have. None of them
bounds what a run explores; the bounds of section 3 are only numbers here.

**Router.** `IInv` is `TypeOK /\ LeaseOK /\ SlotsConserved /\ InflightExact`. The two
counts are not inductive alone: releasing and rerouting change the books of the object a
lease refers to, which has to exist (`LeaseOK`), and a reroute must not move a lease to
the object it is on, which follows from that object's id being in `excluded`. The lemmas
go bottom-up: how one request's move changes the number of claims (`ClaimsChange`), that
waking a waiter turns a permit into a claim (`WakeNextLemma`, `ReleaseSemLemma`,
`WakeIfSpareLemma`), then one lemma per operation of the router (`GiveBackKeeps`,
`LeaseReplicaKeeps`, `ReleaseKeeps`, `RerouteKeeps`, `MoveKeeps`), then one per group of
actions, with one step per action.

Two more invariants stand on it. `LineInv` adds to `QueueExact` that nobody is woken while
an earlier waiter is not (`InOrder`). `StoryInv` says of each request what it has failed on
in terms of its lease, its attempts and its outcome (`Story`), which is what makes
`FailuresExact` survive a step: between a failure and its charge lies an await, at which the
request still holds the object that failed (`Uncharged`). `RetriedOnceElsewhere` and the
refinement of `Admission` (`AdmissionImplemented`) use all three: first come first served is `InOrder`, and that a
refusal is rightful is `SlotsConserved`, by which permits that are neither free nor leased
belong to waiters that were woken. A router without a semaphore is an `Admission` whose
limit is the number of requests.

**Supervision.** `IInv` adds to `TypeOK` what holds at each place a restart task can be
(`Placed`, `Watched`) and which phases of the shutdown allow what (`Phased`). The safety
properties follow from it, `StoppedIsFinal` as an action property.
`LocalRestartIsRetried` needs the local launcher; what happens with the other one is
described above.

**Search.** That only what was cleaned up is accepted, and that a resumed controller judges
by the books of one that never stopped, both depend on experiments being settled one at a
time: otherwise the recovery of one could append behind another. `IInv` therefore adds that
the journal numbers experiments without gaps (`Numbered`), that nothing has a result, a last
event or a process without having started (`OfStarted`), that one experiment at most is
unsettled, with what is known of it at each place of the loop (`OneAtATime`, `Evaluated`),
and that a third empty turn ends the loop (`Patience`). The refinement of `History`
(`StoreIsHistory`) maps an experiment to its verdict once its last event is in the journal:
until then a crash leaves it open, and the recovery settles it with what is on disk.

**Containers.** `SoleOnGpus` is about memory that is compared with a sample. The invariant
under it (`FreedIsReleased`): a GPU which nobody else has freed holds at least as much
memory now as at the sample, without the containers of the present experiment. So a gate
that reads no more than the sample has missed only containers that held nothing yet, or
that sit where another program has freed memory (`AllBlind`).

**Guardian.** `WorkDone` says what is left of the engine at each place of the guardian's
last steps, `LastWord` that "exited" is written after all of them; together they give
`ReportedGone` for every way the lease, the pipe and the connection interleave.
`LockAlwaysInUse` is about the threads that share `emit()`: the holder of its lock is
always one that is about to write, so that who waits for it waits for the pipe.

**Runtimes.** `IInv` carries one equation through the whole path of an edit: a draft is its
parent with the commands that worked (`DraftOK`), a proposal is what the agent saw
(`ProposalOK`), on the node being built what is done followed by what is left is the recipe
(`BuildOK`), and what is measured has all of it on all nodes and one version (`MeasureOK`).
That an inherited recipe is complete needs the same of every result on record
(`HistoryOK`), over any number of generations.

**Workflow.** `SameGround` and `LabelCovers` say nothing of why a resumed run meets the
same `run.json` and the same label, so they are not inductive. `IInv` adds what excludes
other commands (`Exclusion`, which needs to know what kind of command may be where,
`Kinds`), what a process past its inspection knows of `run.json` (`Grounded`, `Definite`:
nothing is measured or served before it is written, and its ground is that of whoever holds
the lock), and that every label in use is the one in `.setup.json` (`Labels`, `Covered`).
There is one lemma per conjunct, each with a step per group of actions. The same argument
gives `OneController`: the lock is never held twice.

**Benchmark.** `LoadOK` partitions the requests that have arrived into waiting, in flight
and answered, and says that requests wait only while every place is taken; the exact load
follows by counting. `OverOK` and `EarlyOK` say what the other phases leave, `PlainOK`
that without streaming nothing has a first token. `ReportFaithful` compares what the client
has counted with what the documentation says an answer is worth, so a second invariant,
`FInv`, says at every chunk what the client has gathered of the answer so far (`WireOK`: the
sum of its text, its last usage count, whether it was finished), at every answer that the
result is the one deserved (`JudgedOK`), and of the report that it counts the results
(`CountOK`). The sum over an answer is a recursive function and the last usage count a maximum.
What they are after one more chunk is the induction step of a proof that cannot use
induction (its theorem takes an operator). It is replaced by a least counterexample: a set of
natural numbers has a smallest element (`SmallestOf`, from the finite segments below one), so
a shortest answer without sums would have a shorter beginning without (`SumsExist`).

**Tuning and Serving.** `FinishedIsAlwaysKept` needs what `Those`, the filter that all lists of
evaluations are made with, holds (`ThoseOf`, again by a least counterexample), and from it
that a record saved by a resumed run holds what was taken over and all evaluations since
(`KeepIsAll`). The invariant is `RecordInv`: while the run goes on, what the record holds of
today's engine has been taken over or is among the evaluations. `CommandsRunTheTuner` carries it
from the tuner to the commands. `StopAlwaysFindsDeployment` is about two terminals and a `stop`:
`OnRecord` says that of two deployments both have been launched while the other one was about
to change the file, and that no `stop` holds an old reading of it without the deployment
being noted.

Only model-checked:

* liveness (all `FairSpec` runs) and what needs ENABLED, which TLAPS does not support;
* all of `Planner` and `Scoring`, which use recursive operators: their properties are
  statements about what a program computes, checked for the inputs listed;
* `ServedIsEvidence` and `SettlesWell`: which candidate wins depends on how the stages sort by
  scores and walk over a sweep, with `SelectSeq` (which TLAPS cannot expand) and folds;
* `GateAfterAllStopped`, which does not hold.

## 6. Not modelled

* `api/app.py`, `health.py`, `status.py`, `metrics.py`: read-only views and counters.
* `runtime/ports.py`: one cursor behind a lock. Ports that were reserved stay so when a range is
  exhausted (`ports.py:64`).
* `runtime/server.py`, `cluster/ray_*.py`: wrappers of libraries whose semantics would be all
  of the model.
* `engines/` but for readiness and what an engine supports: command lines and patterns over
  log lines; `models/`, `hardware/`: parsers and readings, which are inputs of `Planner`.
* `schemas/`, `settings.py`, `cli/` but for the commands of `Serving` and `Workflow` and the
  options of a plan: values, wording and rendering. `testing/`: doubles.
* Failing disk writes, checksums and a failing step of a shutdown: the program stops there.

## 7. Plan

Built in the order of what users depend on: requests being served, replicas being kept
alive, results being kept, nothing being left behind, then what is measured and chosen.

Next theorems: `ServedIsEvidence`, by what the sorts and walks of `Scoring` return, and the
grouping of `Planner` once its recursive operators are recursive functions.

Next models: a shutdown whose steps may fail, the port reservations of a start.
