------------------------------ MODULE Runtimes ------------------------------
(***************************************************************************)
(* The images that experiments run from: the draft that the agent edits     *)
(* with its tools (optimization/container_backend.py, served by agent.py),  *)
(* the proposal it is submitted in, and the build that replays it on every  *)
(* node (ContainerManager.build in cluster/containers.py).                  *)
(*                                                                         *)
(* An image is its engine and the commands that were run in it, each with   *)
(* the state of the package index at that time: a command of Upgrades       *)
(* installs the engine version of the day.  Two commits of the same content *)
(* count as one image.  Docker's image prune, a moving index and crashes of *)
(* the controller are there; what a measurement finds is a choice.          *)
(***************************************************************************)
EXTENDS Integers, Sequences, SequencesExt

CONSTANTS
    Nodes,            \* the number of nodes; the agent edits on node 1
    Engines,          \* the engines prepared for this run
    Commands,         \* what the agent may run in an image
    Upgrades,         \* those that install another version of the engine
    MaxEdits,         \* bound: commands of one turn
    MaxExperiments,   \* bound: experiments
    MaxIndex,         \* bound: releases on the package index
    MaxMishaps        \* bound: failures, prunes and crashes

ASSUME RuntimesAssumption ==
    /\ Nodes \in Nat \ {0} /\ Upgrades \subseteq Commands
    /\ {MaxEdits, MaxExperiments, MaxIndex, MaxMishaps} \subseteq Nat

VARIABLES
    phase,      \* "idle", "turn", "build" or "measure"
    draft,      \* _draft_engine, _draft_parent, _draft_image, _draft_commands
    tool,       \* the command a runtime_shell call is running, or None
    edits,      \* runtime_shell calls of this turn
    proposal,   \* `proposed', or the experiment under way
    images,     \* build: the image of each node that is done, by node
    image,      \* build: the image of the node at work
    left,       \* build: the commands left to run there
    versions,   \* the engine versions in self.registry
    results,    \* ExperimentStore.results(), failed experiments included
    pruned,     \* images that a node has lost
    index,      \* releases of the package index
    mishaps

turnVars == <<draft, tool, edits>>
buildVars == <<images, image, left>>
vars == <<phase, turnVars, proposal, buildVars, versions, results, pruned, index, mishaps>>

None == <<>>
Members == 1..Nodes
Base(e) == [engine |-> e, steps |-> <<>>]
Bases == {Base(e) : e \in Engines}

\* Running a command and committing the container.
Ran(i, c) == [i EXCEPT !.steps = Append(@, <<c, index>>)]

\* The engine version in an image: that of its last upgrade, 0 before any.
Version(i) ==
    LET upgrades == SelectSeq(i.steps, LAMBDA s : s[1] \in Upgrades)
    IN  IF upgrades = <<>> THEN 0 ELSE Last(upgrades)[2] + 1

CommandsOf(i) == [k \in DOMAIN i.steps |-> i.steps[k][1]]

Mishap == mishaps < MaxMishaps /\ mishaps' = mishaps + 1

\* Results that a proposal may name as its parent; 0 is the prepared engine.
Parents(e) ==
    {0} \cup {r \in DOMAIN results : results[r].accepted /\ results[r].engine = e}

Inherited(p) == IF p = 0 THEN <<>> ELSE results[p].applied
ParentImage(e, p, n) == IF p = 0 THEN Base(e) ELSE results[p].images[n]

Init ==
    /\ phase = "idle" /\ tool = None /\ edits = 0 /\ proposal = None
    /\ draft = [engine |-> None, parent |-> 0, image |-> None, commands |-> <<>>]
    /\ images = <<>> /\ image = None /\ left = <<>>
    /\ versions = [e \in Engines |-> 0]
    /\ results = <<>> /\ pruned = [n \in Members |-> {}] /\ index = 0 /\ mishaps = 0
-----------------------------------------------------------------------------
(* The agent's turn.  Tools are serialised by a lock.                       *)

Reset(e, p) == [engine |-> e, parent |-> p, image |-> ParentImage(e, p, 1), commands |-> <<>>]

\* agent_tools: the draft starts from the incumbent, the last accepted experiment.
StartTurn ==
    /\ phase = "idle" /\ Len(results) < MaxExperiments
    /\ LET won == {r \in DOMAIN results : results[r].accepted}
           best == CHOOSE r \in won : \A s \in won : s <= r
       IN  IF won = {} THEN \E e \in Engines : draft' = Reset(e, 0)
           ELSE draft' = Reset(results[best].engine, best)
    /\ phase' = "turn" /\ edits' = 0 /\ proposal' = None
    /\ UNCHANGED <<tool, buildVars, versions, results, pruned, index, mishaps>>

Free == phase = "turn" /\ tool = None
InTurn == UNCHANGED <<phase, buildVars, versions, results, index>>

\* reset_runtime
ResetRuntime ==
    /\ Free /\ edits < MaxEdits
    /\ \E e \in Engines : \E p \in Parents(e) : draft' = Reset(e, p)
    /\ edits' = edits + 1
    /\ UNCHANGED <<tool, proposal, pruned, mishaps>> /\ InTurn

\* runtime_shell, and with it write_runtime_file and apply_runtime_patch: the container is
\* created from the draft.
Shell ==
    /\ Free /\ edits < MaxEdits /\ draft.image \notin pruned[1]
    /\ \E c \in Commands : tool' = <<c>>
    /\ edits' = edits + 1
    /\ UNCHANGED <<draft, proposal, pruned, mishaps>> /\ InTurn

\* Mutant: the command is recorded before it is known to have worked.
DraftAfterFailure(c) == [draft EXCEPT !.commands = Append(@, c)]

\* The container is discarded with whatever the command has done in it.
DraftIfFailed(c) == draft

ShellEnds ==
    /\ tool # None
    /\ LET new == Ran(draft.image, tool[1])
       IN  /\ pruned' = [pruned EXCEPT ![1] = @ \ {new}]
           /\ draft' = [draft EXCEPT !.image = new, !.commands = Append(@, tool[1])]
    /\ tool' = None
    /\ UNCHANGED <<edits, proposal, mishaps>> /\ InTurn

\* A bad exit code, a failing commit or cleanup, or the tool server that cancels the call
\* when the agent has been gone for a while.  An image committed all the same is nobody's.
ShellFails ==
    /\ tool # None
    /\ draft' = DraftIfFailed(tool[1])
    /\ tool' = None
    /\ UNCHANGED <<edits, proposal, pruned, mishaps>> /\ InTurn

\* materialize: an edited draft is only good for the engine and parent it was made from.
EditedFor(e, p) == e = draft.engine /\ p = draft.parent

\* The edits of the draft come before the changes of the proposal itself.
Materialized(own) == draft.commands \o own

\* submit_experiment: materialize, then validate.  A proposal may have a change of its own;
\* `saw' is what the agent has tried out, and that change.
Submit ==
    /\ Free /\ proposal = None
    /\ \E e \in Engines : \E p \in Parents(e) : \E own \in {<<>>} \cup {<<c>> : c \in Commands \ Upgrades} :
          /\ draft.commands = <<>> \/ EditedFor(e, p)
          /\ proposal' = [engine |-> e, parent |-> p, commands |-> Materialized(own),
                          saw |-> IF draft.commands = <<>> THEN None
                                  ELSE CommandsOf(draft.image) \o own]
    /\ UNCHANGED <<turnVars, pruned, mishaps>> /\ InTurn

\* The agent process has ended, or its time is over, and its tool server has stopped: calls
\* that were under way or waiting have ended, and nothing changes the draft any more.
TurnEnds ==
    /\ phase = "turn" /\ tool = None
    /\ IF proposal = None
       THEN phase' = "idle" /\ UNCHANGED buildVars
       ELSE /\ phase' = "build" /\ image' = ParentImage(proposal.engine, proposal.parent, 1)
            /\ left' = proposal.commands /\ images' = <<>>
    /\ edits' = 0
    /\ UNCHANGED <<draft, tool, proposal, versions, results, pruned, index, mishaps>>
-----------------------------------------------------------------------------
(* ContainerBackend.prepare: one node after the other.                      *)

Here == Len(images) + 1
InBuild == UNCHANGED <<turnVars, proposal, results, index>>
Close(result) ==
    /\ results' = Append(results, result) /\ phase' = "idle" /\ proposal' = None
    /\ images' = <<>> /\ image' = None /\ left' = <<>>

Failed == [engine |-> proposal.engine, accepted |-> FALSE, images |-> <<>>, applied |-> <<>>,
           version |-> 0]

BuildStep ==
    /\ phase = "build" /\ left # <<>> /\ image \notin pruned[Here]
    /\ image' = Ran(image, Head(left)) /\ left' = Tail(left)
    /\ pruned' = [pruned EXCEPT ![Here] = @ \ {image'}]
    /\ UNCHANGED <<phase, images, versions, mishaps>> /\ InBuild

NodeDone ==
    /\ phase = "build" /\ left = <<>> /\ Here <= Nodes /\ image \notin pruned[Here]
    /\ images' = Append(images, image)
    /\ IF Here < Nodes
       THEN /\ image' = ParentImage(proposal.engine, proposal.parent, Here + 1)
            /\ left' = proposal.commands
       ELSE UNCHANGED <<image, left>>
    /\ UNCHANGED <<phase, versions, pruned, mishaps>> /\ InBuild

\* Mutant: the version is asked of the images that the proposal starts from.
AgreedBefore ==
    \A m, n \in Members : Version(ParentImage(proposal.engine, proposal.parent, m)) =
                          Version(ParentImage(proposal.engine, proposal.parent, n))

Agreed == \A m, n \in Members : Version(images[m]) = Version(images[n])

\* Mutant: what the parent already holds is left out of the recipe.
AppliedNow == proposal.commands

Applied == Inherited(proposal.parent) \o proposal.commands

\* The versions agree: the registry is replaced, the proposal validated by it, the
\* launcher configured.
Prepared ==
    /\ phase = "build" /\ Here > Nodes /\ Agreed
    /\ versions' = [[e \in Engines |-> 0] EXCEPT ![proposal.engine] = Version(images[1])]
    /\ phase' = "measure"
    /\ UNCHANGED <<buildVars, pruned, mishaps>> /\ InBuild

\* A missing image, a failing command, versions that differ, or a validation that fails.
BuildFails ==
    /\ phase = "build"
    /\ IF (Here <= Nodes /\ image \in pruned[Here]) \/ (Here > Nodes /\ ~Agreed)
       THEN UNCHANGED mishaps ELSE Mishap
    /\ Close(Failed)
    /\ UNCHANGED <<turnVars, versions, pruned, index>>

\* What follows is the measurement; its verdict is a choice.
Measured ==
    /\ phase = "measure"
    /\ \E verdict \in BOOLEAN :
          Close([engine |-> proposal.engine, accepted |-> verdict, images |-> images,
                 applied |-> Applied, version |-> versions[proposal.engine]])
    /\ UNCHANGED <<turnVars, versions, pruned, index, mishaps>>
-----------------------------------------------------------------------------
(* What happens around the controller, where it makes a difference.         *)

Working == {"turn", "build"}

\* Images that something refers to.
Kept(n) ==
    ({draft.image, image} \ {None}) \cup {results[r].images[n] : r \in {q \in DOMAIN results : results[q].accepted}}

\* `docker image prune' takes what no container uses and no tag or digest keeps.
Prune(n) ==
    /\ phase \in Working /\ Mishap
    /\ pruned' = [pruned EXCEPT ![n] = Kept(n) \ Bases]
    /\ UNCHANGED <<phase, turnVars, proposal, buildVars, versions, results, index>>

Release ==
    /\ phase \in Working /\ index < MaxIndex /\ index' = index + 1
    /\ UNCHANGED <<phase, turnVars, proposal, buildVars, versions, results, pruned, mishaps>>

\* The controller dies and is resumed: pinned images are pulled again, results are read
\* from the store, an experiment under way is recorded as interrupted.
CrashAndResume ==
    /\ phase # "idle" /\ Mishap
    /\ IF phase \in {"build", "measure"} THEN Close(Failed)
       ELSE phase' = "idle" /\ proposal' = None /\ UNCHANGED <<results, buildVars>>
    /\ tool' = None /\ edits' = 0 /\ versions' = [e \in Engines |-> 0]
    /\ UNCHANGED <<draft, pruned, index>>

Turn ==
    \/ StartTurn \/ ResetRuntime \/ Shell \/ ShellEnds \/ ShellFails \/ Submit
    \/ TurnEnds

Build == BuildStep \/ NodeDone \/ Prepared \/ BuildFails \/ Measured

Next == Turn \/ Build \/ (\E n \in Members : Prune(n)) \/ Release \/ CrashAndResume

Spec == Init /\ [][Next]_vars
-----------------------------------------------------------------------------
(* Properties.                                                              *)

\* container_backend.py, "Successful commands are saved and replayed on every node": what
\* is measured holds, on every node, the edits that worked for the agent and no others, in
\* their order, on the image they were made on.
EditsAreReplayed ==
    phase = "measure" /\ proposal.saw # None =>
        \A n \in Members : CommandsOf(images[n]) = proposal.saw

\* The recorded recipe of an experiment (commands_applied, its Dockerfile) is that of the
\* images it ran from, however many accepted experiments these descend from.
RecipeIsComplete ==
    \A r \in DOMAIN results : \A n \in DOMAIN results[r].images :
        CommandsOf(results[r].images[n]) = results[r].applied

\* No experiment compares nodes that run different versions of the engine, or was validated
\* against another version than the one it runs, although the index moves during a build.
OneVersion ==
    phase = "measure" => \A n \in Members : Version(images[n]) = versions[proposal.engine]
=============================================================================
