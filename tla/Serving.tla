------------------------------- MODULE Serving ------------------------------
(***************************************************************************)
(* The commands that surround the tuner (cli/app.py, cli/pipeline.py): tune *)
(* and serve in one terminal, another serve and a stop in others.  They     *)
(* share the tuning record, which serve reuses when it is still valid       *)
(* (cache/fingerprints.py), and the runtime state file, which says what is  *)
(* being served (runtime/supervisor.py, runtime/state.py).                  *)
(*                                                                         *)
(* The fingerprints of model, hardware and workload are the name of the     *)
(* record: there is one of each.  Of what --retune, use_cache and           *)
(* tuning.enabled leave to choose, --no-tune or tuning is what follows.  A  *)
(* dry run, and the commands that list or show, only read.  A cap on the    *)
(* concurrency of a replica, which a record may exceed, is left out.        *)
(***************************************************************************)
EXTENDS Tuning, TLC

CONSTANTS
    Minor,          \* Minor[v]: what engine_versions_compatible compares of a version
    Free            \* Free[b]: the fraction that is free when the planner gives b

Shells == {"here", "there"}

ASSUME ServingAssumption ==
    \A b \in Budgets : Free[b] >= b /\ Free[b] >= Raised[b]

VARIABLES
    shell,          \* how far `serve' has come in each terminal
    selected,       \* what it serves here: [of, result, source], or NONE
    file,           \* whose deployment the state file names: of a terminal, "stale", "none"
    stopper,        \* what a `stop' has read in it, or "idle"
    raced           \* history: deployments that were launched while the file was about to change

stateFile == <<file, stopper, raced>>
serving == <<shell, selected, stateFile>>

ServingInit ==
    /\ TunerInit
    /\ shell = [d \in Shells |-> "off"] /\ selected = NONE
    /\ file = "none" /\ stopper = "idle" /\ raced = {}
----------------------------------------------------------------------------
(* What is served.                                                          *)

\* engine_versions_compatible
Compatible(v, w) == Minor[v] = Minor[w]

\* Mutant: a record is reused whatever engine measured it.
ValidOld(record, options) ==
    /\ record.status = "complete"
    /\ record.winner.of.plan \in Range(options.plans)
    /\ options.fixed => record.winner.of.frac = env.budget
    /\ record.winner.of.frac <= Free[env.budget]

\* validate_record: no reason against the winner.  A plan stands for its structural key,
\* its KV cache type and its engine arguments.
Valid(record, options) ==
    /\ record.status = "complete"
    /\ Compatible(record.version, env.version)
    /\ record.winner.of.plan \in Range(options.plans)
    /\ options.fixed => record.winner.of.frac = env.budget
    /\ record.winner.of.frac <= Free[env.budget]

\* CacheStore.find; a record that cannot be read counts as none.
Find == {disk} \ {NONE}

Lookup(options) == {record \in Find : Valid(record, options)}

Heuristic(options) ==
    [of |-> [plan |-> Head(options.plans), frac |-> env.budget],
     result |-> NONE, source |-> "heuristic"]

\* A deployment whose process lives is on record.
Refused == file \in Shells

Unserved == shell["here"] = "off" /\ ~Running

Tune(options, resume) ==
    /\ Unserved
    /\ Begin(options, resume)
    /\ UNCHANGED serving

\* _select_plan: the heuristic plan, the winner on record, or a run of the tuner comes first.
Select(options, resume) ==
    \/ /\ selected' \in {Heuristic(options)}
                        \cup {r.winner @@ [source |-> "cached"] : r \in Lookup(options)}
       /\ shell' = [shell EXCEPT !["here"] = "selected"]
       /\ UNCHANGED tunerVars
    \/ /\ Begin(options, resume)
       /\ shell' = [shell EXCEPT !["here"] = "tuning"]
       /\ UNCHANGED selected

Serve(options, resume) ==
    /\ Unserved /\ ~Refused
    /\ Select(options, resume)
    /\ UNCHANGED stateFile

\* The run of the tuner for a serve goes on, or ends without a winner and ends it.
Stage ==
    /\ Stages
    /\ shell' = IF Running' THEN shell ELSE [shell EXCEPT !["here"] = "off"]
    /\ UNCHANGED <<selected, stateFile>>

Tuned ==
    /\ Complete
    /\ IF shell["here"] = "tuning"
       THEN /\ selected' = best @@ [source |-> "tuned"]
            /\ shell' = [shell EXCEPT !["here"] = "selected"]
       ELSE UNCHANGED <<shell, selected>>
    /\ UNCHANGED stateFile

\* Between two commands.
Change ==
    /\ shell["here"] = "off"
    /\ EnvironmentChanges
    /\ UNCHANGED serving
----------------------------------------------------------------------------
(* Deployments.                                                             *)

\* A `serve --no-tune' in the other terminal.
ServeThere ==
    /\ shell["there"] = "off" /\ ~Refused
    /\ shell' = [shell EXCEPT !["there"] = "selected"]
    /\ UNCHANGED <<tunerVars, selected, file, stopper, raced>>

\* Launched, and not what the state file names.
Unnamed(d) == shell[d] \in {"starting", "serving", "stopping", "leaving"} /\ file # d

Off(d) ==
    /\ shell' = [shell EXCEPT ![d] = "off"]
    /\ selected' = IF d = "here" THEN NONE ELSE selected
    /\ raced' = raced \ {d}

\* run() of the deployment begins.  Those that the file does not name yet, or no longer, and
\* one that a `stop' has already decided on, may now take the file from each other.
Deploy(d) ==
    /\ shell' = [shell EXCEPT ![d] = "starting"] /\ UNCHANGED selected
    /\ raced' = IF stopper # "idle" \/ \E e \in Shells : Unnamed(e)
                THEN raced \cup {d} \cup {e \in Shells : Unnamed(e)} ELSE raced

\* Mutant: the state file is not read again after the tuning.
LaunchUnchecked(d) ==
    /\ shell[d] = "selected"
    /\ Deploy(d)
    /\ UNCHANGED <<tunerVars, file, stopper>>

\* "tuning may have taken a while; check again before binding".
Launch(d) ==
    /\ shell[d] = "selected"
    /\ IF Refused THEN Off(d) ELSE Deploy(d)
    /\ UNCHANGED <<tunerVars, file, stopper>>

\* The replicas and the HTTP server are up and the file is written, as it is again after
\* the restart of a replica.
WriteState(d) ==
    /\ shell[d] \in {"starting", "serving"}
    /\ shell' = [shell EXCEPT ![d] = "serving"] /\ file' = d
    /\ UNCHANGED <<tunerVars, selected, stopper, raced>>

\* A replica or the HTTP server fails to start, or a signal arrives.
Leave(d) ==
    /\ shell[d] \in {"starting", "serving"}
    /\ shell' = [shell EXCEPT ![d] = "stopping"]
    /\ UNCHANGED <<tunerVars, selected, stateFile>>

\* The file is removed, whosever it is.
Clear(d) ==
    /\ shell[d] = "stopping"
    /\ shell' = [shell EXCEPT ![d] = "leaving"] /\ file' = "none"
    /\ UNCHANGED <<tunerVars, selected, stopper, raced>>

\* A thread that was writing for a restart which the shutdown has cancelled comes late.
WriteLate(d) ==
    /\ shell[d] = "leaving"
    /\ file' = d
    /\ UNCHANGED <<tunerVars, shell, selected, stopper, raced>>

\* The process ends, or is killed by a `stop' that has waited long enough or by anyone: who
\* has read its number finds a stale one.
Exit(d) ==
    /\ shell[d] \in {"selected", "starting", "serving", "stopping", "leaving"} /\ Off(d)
    /\ file' = IF file = d THEN "stale" ELSE file
    /\ stopper' = IF stopper = d THEN "stale" ELSE stopper
    /\ UNCHANGED tunerVars

\* `stop' reads the file and signals the process it names, if that is still alive.
ReadState ==
    /\ stopper = "idle" /\ file # "none"
    /\ stopper' = file
    /\ shell' = [d \in Shells |-> IF d = file /\ shell[d] = "serving" THEN "stopping"
                                  ELSE shell[d]]
    /\ raced' = raced \cup {d \in Shells : shell[d] = "starting"}
    /\ UNCHANGED <<tunerVars, selected, file>>

\* That process is gone; the file is removed unless engines of it cannot be stopped.
ClearStale ==
    /\ stopper = "stale" /\ stopper' = "idle"
    /\ file' \in {"none", file}
    /\ UNCHANGED <<tunerVars, shell, selected, raced>>

ServingNext ==
    \/ \E o \in Options, resume \in BOOLEAN : Tune(o, resume) \/ Serve(o, resume)
    \/ Stage \/ Tuned \/ Change
    \/ ServeThere
    \/ \E d \in Shells : Launch(d) \/ WriteState(d) \/ Leave(d)
                         \/ Clear(d) \/ WriteLate(d) \/ Exit(d)
    \/ ReadState \/ ClearStale

ServingSpec == ServingInit /\ [][ServingNext]_<<tunerVars, serving>>
----------------------------------------------------------------------------
(* Properties.                                                              *)

\* What is announced as tuned is evidence (WinnerIsEvidence), and what is served as such,
\* now or from a record of an earlier command, was measured as it is launched, by an engine
\* of the same minor version, and fits into what is free.
ServedIsEvidence ==
    /\ WinnerIsEvidence
    /\ selected # NONE /\ selected.source # "heuristic" =>
          /\ selected.of.frac <= Free[env.budget]
          /\ \E e \in Range(disk.evals) :
                /\ e.of = selected.of /\ selected.result \in Range(e.results)
                /\ Minor[e.version] = Minor[env.version]

\* docs/architecture.md: the state file records the deployment, "so `servepilot status' and
\* `servepilot stop' work from another shell".  They find it, and a second one is refused,
\* unless it was launched while another launch, shutdown or stop was under way that had read
\* the file and was still to write or remove it.
StopFindsDeployment ==
    \A d \in Shells : shell[d] = "serving" /\ d \notin raced => file = d
=============================================================================
