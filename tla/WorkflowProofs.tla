--------------------------- MODULE WorkflowProofs ---------------------------
(***************************************************************************)
(* For any number of commands, signals, changes of the world and mishaps:   *)
(* everything an output is measured and served on is one ground             *)
(* (SameGround), and the label in .setup.json covers every container an      *)
(* optimization has started (LabelCovers).  Both follow from one inductive   *)
(* invariant: what the controller lock excludes, what a process that holds   *)
(* it knows of run.json, and which label it works under.                     *)
(***************************************************************************)
EXTENDS Workflow, FiniteSetTheorems, TLAPS

Searching == {"created", "searching", "measuring", "exporting", "writing"}
Places ==
    {"off", "checked", "staging", "failing", "cleaning", "unwinding", "ended"}
        \cup SetupPlaces \cup Searching \cup Deploying

Grounds == [images : Nat, gpus : Nat, model : Nat]
Setups == [label : Nat, images : Nat, model : Nat]
Engines == [owner : Processes, label : Nat, tended : BOOLEAN]

TypeOK ==
    /\ at \in [Processes -> Places]
    /\ kind \in [Processes -> {"none", "optimize", "resume", "deploy"}]
    /\ namespace \in [Processes -> Nat]
    /\ ground \in [Processes -> Grounds]
    /\ loaded \in [Processes -> Setups]
    /\ lock \in Nat /\ setup \in Setups /\ run \in Grounds /\ recorded \in Nat
    /\ recipe \in {"none", "good", "torn"}
    /\ containers \subseteq Engines
    /\ world \in [image : Nat \ {0}, gpus : Nat \ {0}, model : Nat \ {0}, local : BOOLEAN]

\* What a process does says what kind of command it is.
Kinds ==
    \A p \in Processes :
        /\ at[p] = "staging" => kind[p] = "deploy"
        /\ at[p] \in SetupPlaces \cup Searching \cup {"checked", "failing", "cleaning"} =>
               kind[p] \in {"optimize", "resume"}

\* The lock: from the first step of a setup to the end of the deployment.
Holding(p) == at[p] \in SetupPlaces \cup Searching \/ (at[p] \in Deploying /\ kind[p] # "deploy")
Exclusion == \A p \in Processes : Holding(p) => lock = p

\* run.json, once it is there, is what every process works with that has got past the
\* inspection, and all that anything was measured or served on.
Written == run # Nothing
Pinned == {"probing", "prepared", "clean", "loading", "staged"}
Grounded(p) ==
    /\ at[p] \in Searching \cup Deploying \cup {"staging"} => Written /\ ground[p] = run
    /\ at[p] \in Pinned \cup {"inspected"} => ground[p].gpus # 0 /\ ground[p].model # 0
    /\ at[p] \in Pinned \cup {"inspected"} /\ Written =>
           ground[p].gpus = run.gpus /\ ground[p].model = run.model
    /\ at[p] \in Pinned /\ Written => ground[p].images = run.images

Definite ==
    /\ Written => run.gpus # 0 /\ run.model # 0
    /\ recipe # "none" => Written
    /\ used \subseteq {run}
    /\ used # {} => Written

\* The label: nothing is started, recorded or defined before .setup.json has one, and then
\* it never changes.
Entered(p) == kind[p] # "deploy" /\ at[p] \notin {"off", "checked", "ended"}
Labelled(p) == Entered(p) => setup.label # None /\ namespace[p] = setup.label
Covered(c) ==
    /\ at[c.owner] # "off"
    /\ kind[c.owner] # "deploy" => setup.label # None /\ c.label = setup.label
Labels ==
    /\ setup # NoSetup => setup.label # None
    /\ Written => setup.label # None
    /\ recorded \in {None, setup.label}
    /\ \A p \in Processes : Labelled(p)

IInv ==
    /\ TypeOK /\ Kinds /\ Exclusion /\ Definite /\ Labels
    /\ \A p \in Processes : Grounded(p)
    /\ \A c \in containers : Covered(c)
-----------------------------------------------------------------------------
\* A container that a process starts is a container like the others.
LEMMA LaunchedTyped == ASSUME TypeOK, NEW p \in Processes PROVE Launched(p) \subseteq Engines
<1>1. containers \subseteq Engines /\ namespace[p] \in Nat
    BY DEF TypeOK
<1>2. [owner |-> p, label |-> namespace[p], tended |-> TRUE] \in Engines
    BY <1>1 DEF Engines
<1> QED
    BY <1>1, <1>2 DEF Launched

\* Containers that were lost are the same ones, without heartbeats.
LEMMA DisownedTyped == ASSUME TypeOK, NEW p \in Processes PROVE Disowned(p) \subseteq Engines
<1>1. containers \subseteq Engines
    BY DEF TypeOK
<1>2. ASSUME NEW c \in Own(p) PROVE [c EXCEPT !.tended = FALSE] \in Engines
    BY <1>1, <1>2 DEF Own, Engines
<1> QED
    BY <1>1, <1>2 DEF Disowned

\* Every variable keeps its type.
LEMMA TypeOKKept == TypeOK /\ [Next]_vars => TypeOK'
<1> SUFFICES ASSUME TypeOK, [Next]_vars PROVE TypeOK'
    OBVIOUS
<1> USE DEF TypeOK, Places, SetupPlaces, Searching, Deploying, Grounds, Setups, Engines,
        Namespace, Pins, PinsOfSetup, PinnedModel, Model, NoSetup, Nothing, None, Go, Own,
        Unlocked, vars, process, output
<1>1. ASSUME NEW p \in Processes, BeginOptimize(p) PROVE TypeOK'
    BY <1>1, WorkflowAssumption DEF BeginOptimize
<1>2. ASSUME NEW p \in Processes, BeginDeploy(p) PROVE TypeOK'
    BY <1>2, WorkflowAssumption DEF BeginDeploy
<1>3. ASSUME NEW p \in Processes, Refuse(p) PROVE TypeOK'
    BY <1>3, WorkflowAssumption DEF Refuse
<1>4. ASSUME NEW p \in Processes, Enter(p) PROVE TypeOK'
    BY <1>4, WorkflowAssumption DEF Enter
<1>5. ASSUME NEW p \in Processes, Inspect(p) PROVE TypeOK'
    BY <1>5, WorkflowAssumption DEF Inspect
<1>6. ASSUME NEW p \in Processes, Probe(p) PROVE TypeOK'
    BY <1>6, LaunchedTyped, WorkflowAssumption DEF Probe
<1>7. ASSUME NEW p \in Processes, Prepared(p) PROVE TypeOK'
    BY <1>7, WorkflowAssumption DEF Prepared
<1>8. ASSUME NEW p \in Processes, CleanUpPrevious(p) PROVE TypeOK'
    BY <1>8, WorkflowAssumption DEF CleanUpPrevious
<1>9. ASSUME NEW p \in Processes, Stage(p) PROVE TypeOK'
    BY <1>9, LaunchedTyped, WorkflowAssumption DEF Stage
<1>10. ASSUME NEW p \in Processes, Loaded(p) PROVE TypeOK'
    BY <1>10, WorkflowAssumption DEF Loaded
<1>11. ASSUME NEW p \in Processes, Create(p) PROVE TypeOK'
    BY <1>11, WorkflowAssumption DEF Create
<1>12. ASSUME NEW p \in Processes, Record(p) PROVE TypeOK'
    BY <1>12, WorkflowAssumption DEF Record
<1>13. ASSUME NEW p \in Processes, Cancel(p) PROVE TypeOK'
    BY <1>13, WorkflowAssumption DEF Cancel
<1>14. ASSUME NEW p \in Processes, Experiment(p) PROVE TypeOK'
    BY <1>14, LaunchedTyped, WorkflowAssumption DEF Experiment
<1>15. ASSUME NEW p \in Processes, SearchEnds(p) PROVE TypeOK'
    BY <1>15, WorkflowAssumption DEF SearchEnds
<1>16. ASSUME NEW p \in Processes, Export(p) PROVE TypeOK'
    BY <1>16, WorkflowAssumption DEF Export
<1>17. ASSUME NEW p \in Processes, WriteRecipe(p) PROVE TypeOK'
    BY <1>17, WorkflowAssumption DEF WriteRecipe
<1>18. ASSUME NEW p \in Processes, Staged(p) PROVE TypeOK'
    BY <1>18, WorkflowAssumption DEF Staged
<1>19. ASSUME NEW p \in Processes, Launch(p) PROVE TypeOK'
    BY <1>19, LaunchedTyped, WorkflowAssumption DEF Launch
<1>20. ASSUME NEW p \in Processes, Started(p) PROVE TypeOK'
    BY <1>20, WorkflowAssumption DEF Started
<1>21. ASSUME NEW p \in Processes, Verified(p) PROVE TypeOK'
    BY <1>21, WorkflowAssumption DEF Verified
<1>22. ASSUME NEW p \in Processes, StopServing(p) PROVE TypeOK'
    BY <1>22, WorkflowAssumption DEF StopServing
<1>23. ASSUME NEW p \in Processes, ShutDown(p) PROVE TypeOK'
    BY <1>23, WorkflowAssumption DEF ShutDown
<1>24. ASSUME NEW p \in Processes, Fail(p) PROVE TypeOK'
    BY <1>24, WorkflowAssumption DEF Fail
<1>25. ASSUME NEW p \in Processes, SaveSetup(p) PROVE TypeOK'
    BY <1>25, WorkflowAssumption DEF SaveSetup
<1>26. ASSUME NEW p \in Processes, Unwound(p) PROVE TypeOK'
    BY <1>26, WorkflowAssumption DEF Unwound
<1>27. ASSUME NEW p \in Processes, UnwindFails(p) PROVE TypeOK'
    BY <1>27, DisownedTyped, WorkflowAssumption DEF UnwindFails
<1>28. ASSUME NEW p \in Processes, Kill(p) PROVE TypeOK'
    BY <1>28, DisownedTyped, WorkflowAssumption DEF Kill
<1>29. CASE Stop
    BY <1>29 DEF Stop
<1>30. CASE Forget
    BY <1>30 DEF Forget
<1>31. CASE LeaseEnds
    BY <1>31 DEF LeaseEnds
<1>32. CASE Drift
    BY <1>32 DEF Drift
<1>33. CASE UNCHANGED vars
    BY <1>33
<1> HIDE DEF TypeOK
<1> QED
    BY <1>1, <1>2, <1>3, <1>4, <1>5, <1>6, <1>7, <1>8, <1>9, <1>10, <1>11, <1>12, <1>13,
       <1>14, <1>15, <1>16, <1>17, <1>18, <1>19, <1>20, <1>21, <1>22, <1>23, <1>24, <1>25,
       <1>26, <1>27, <1>28, <1>29, <1>30, <1>31, <1>32, <1>33 DEF Next, Work, Setup, Deploy

\* A process keeps its kind, and goes only where a command of that kind goes.
LEMMA KindsKept == IInv /\ [Next]_vars => Kinds'
<1> SUFFICES ASSUME IInv, [Next]_vars PROVE Kinds'
    OBVIOUS
<1> USE DEF IInv, TypeOK, Kinds, Places, SetupPlaces, Searching, Deploying, Suits, Go, vars,
        process, output
<1>1. ASSUME NEW p \in Processes, BeginOptimize(p) \/ BeginDeploy(p) \/ Refuse(p) \/
        Enter(p) PROVE Kinds'
    BY <1>1, WorkflowAssumption DEF BeginOptimize, BeginDeploy, Refuse, Enter
<1>2. ASSUME NEW p \in Processes, Inspect(p) \/ Probe(p) \/ Prepared(p) \/
        CleanUpPrevious(p) \/ Stage(p) \/ Loaded(p) PROVE Kinds'
    BY <1>2, WorkflowAssumption DEF Inspect, Probe, Prepared, CleanUpPrevious, Stage, Loaded
<1>3. ASSUME NEW p \in Processes, Create(p) \/ Record(p) \/ Cancel(p) PROVE Kinds'
    BY <1>3, WorkflowAssumption DEF Create, Record, Cancel
<1>4. ASSUME NEW p \in Processes, Experiment(p) \/ SearchEnds(p) \/ Export(p) \/
        WriteRecipe(p) PROVE Kinds'
    BY <1>4, WorkflowAssumption DEF Experiment, SearchEnds, Export, WriteRecipe
<1>5. ASSUME NEW p \in Processes, Staged(p) \/ Launch(p) \/ Started(p) \/ Verified(p) \/
        StopServing(p) \/ ShutDown(p) PROVE Kinds'
    BY <1>5, WorkflowAssumption DEF Staged, Launch, Started, Verified, StopServing, ShutDown
<1>6. ASSUME NEW p \in Processes, Fail(p) \/ SaveSetup(p) \/ Unwound(p) \/ UnwindFails(p) \/
        Kill(p) PROVE Kinds'
    BY <1>6, WorkflowAssumption DEF Fail, SaveSetup, Unwound, UnwindFails, Kill
<1>7. CASE Stop
    BY <1>7 DEF Stop
<1>8. CASE Forget
    BY <1>8 DEF Forget
<1>9. CASE LeaseEnds
    BY <1>9 DEF LeaseEnds
<1>10. CASE Drift
    BY <1>10 DEF Drift
<1>11. CASE UNCHANGED vars
    BY <1>11
<1> QED
    BY <1>1, <1>2, <1>3, <1>4, <1>5, <1>6, <1>7, <1>8, <1>9, <1>10, <1>11 DEF Next, Work,
       Setup, Deploy

\* The lock is taken only when nobody holds it, and released only by who does.
LEMMA ExclusionKept == IInv /\ [Next]_vars => Exclusion'
<1> SUFFICES ASSUME IInv, [Next]_vars PROVE Exclusion'
    OBVIOUS
<1> USE DEF IInv, TypeOK, Kinds, Exclusion, Places, SetupPlaces, Searching, Deploying,
        Holding, None, Refused, Go, Unlocked, vars, process, output
<1>1. ASSUME NEW p \in Processes, BeginOptimize(p) \/ BeginDeploy(p) \/ Refuse(p) \/
        Enter(p) PROVE Exclusion'
    BY <1>1, WorkflowAssumption DEF BeginOptimize, BeginDeploy, Refuse, Enter
<1>2. ASSUME NEW p \in Processes, Inspect(p) \/ Probe(p) \/ Prepared(p) \/
        CleanUpPrevious(p) \/ Stage(p) \/ Loaded(p) PROVE Exclusion'
    BY <1>2, WorkflowAssumption DEF Inspect, Probe, Prepared, CleanUpPrevious, Stage, Loaded
<1>3. ASSUME NEW p \in Processes, Create(p) \/ Record(p) \/ Cancel(p) PROVE Exclusion'
    BY <1>3, WorkflowAssumption DEF Create, Record, Cancel
<1>4. ASSUME NEW p \in Processes, Experiment(p) \/ SearchEnds(p) \/ Export(p) \/
        WriteRecipe(p) PROVE Exclusion'
    BY <1>4, WorkflowAssumption DEF Experiment, SearchEnds, Export, WriteRecipe
<1>5. ASSUME NEW p \in Processes, Staged(p) \/ Launch(p) \/ Started(p) \/ Verified(p) \/
        StopServing(p) \/ ShutDown(p) PROVE Exclusion'
    BY <1>5, WorkflowAssumption DEF Staged, Launch, Started, Verified, StopServing, ShutDown
<1>6. ASSUME NEW p \in Processes, Fail(p) \/ SaveSetup(p) \/ Unwound(p) \/ UnwindFails(p) \/
        Kill(p) PROVE Exclusion'
    BY <1>6, WorkflowAssumption DEF Fail, SaveSetup, Unwound, UnwindFails, Kill
<1>7. CASE Stop
    BY <1>7 DEF Stop
<1>8. CASE Forget
    BY <1>8 DEF Forget
<1>9. CASE LeaseEnds
    BY <1>9 DEF LeaseEnds
<1>10. CASE Drift
    BY <1>10 DEF Drift
<1>11. CASE UNCHANGED vars
    BY <1>11
<1> QED
    BY <1>1, <1>2, <1>3, <1>4, <1>5, <1>6, <1>7, <1>8, <1>9, <1>10, <1>11 DEF Next, Work,
       Setup, Deploy

\* run.json is written once; what is measured or served has the ground it names.
LEMMA DefiniteKept == IInv /\ [Next]_vars => Definite'
<1> SUFFICES ASSUME IInv, [Next]_vars PROVE Definite'
    OBVIOUS
<1> USE DEF IInv, TypeOK, Kinds, Exclusion, Grounded, Definite, Places, SetupPlaces,
        Searching, Deploying, Written, Holding, Nothing, Pinned, Go, vars, process, output
<1>1. ASSUME NEW p \in Processes, BeginOptimize(p) \/ BeginDeploy(p) \/ Refuse(p) \/
        Enter(p) PROVE Definite'
    BY <1>1, WorkflowAssumption DEF BeginOptimize, BeginDeploy, Refuse, Enter
<1>2. ASSUME NEW p \in Processes, Inspect(p) \/ Probe(p) \/ Prepared(p) \/
        CleanUpPrevious(p) \/ Stage(p) \/ Loaded(p) PROVE Definite'
    BY <1>2, WorkflowAssumption DEF Inspect, Probe, Prepared, CleanUpPrevious, Stage, Loaded
<1>3. ASSUME NEW p \in Processes, Create(p) \/ Record(p) \/ Cancel(p) PROVE Definite'
    BY <1>3, WorkflowAssumption DEF Create, Record, Cancel
<1>4. ASSUME NEW p \in Processes, Experiment(p) \/ SearchEnds(p) \/ Export(p) \/
        WriteRecipe(p) PROVE Definite'
    BY <1>4, WorkflowAssumption DEF Experiment, SearchEnds, Export, WriteRecipe
<1>5. ASSUME NEW p \in Processes, Staged(p) \/ Launch(p) \/ Started(p) \/ Verified(p) \/
        StopServing(p) \/ ShutDown(p) PROVE Definite'
    BY <1>5, WorkflowAssumption DEF Staged, Launch, Started, Verified, StopServing, ShutDown
<1>6. ASSUME NEW p \in Processes, Fail(p) \/ SaveSetup(p) \/ Unwound(p) \/ UnwindFails(p) \/
        Kill(p) PROVE Definite'
    BY <1>6, WorkflowAssumption DEF Fail, SaveSetup, Unwound, UnwindFails, Kill
<1>7. CASE Stop
    BY <1>7 DEF Stop
<1>8. CASE Forget
    BY <1>8 DEF Forget
<1>9. CASE LeaseEnds
    BY <1>9 DEF LeaseEnds
<1>10. CASE Drift
    BY <1>10 DEF Drift
<1>11. CASE UNCHANGED vars
    BY <1>11
<1> QED
    BY <1>1, <1>2, <1>3, <1>4, <1>5, <1>6, <1>7, <1>8, <1>9, <1>10, <1>11 DEF Next, Work,
       Setup, Deploy

\* A label is chosen once, and whoever enters later takes it over.
LEMMA LabelsKept == IInv /\ [Next]_vars => Labels'
<1> SUFFICES ASSUME IInv, [Next]_vars PROVE Labels'
    OBVIOUS
<1> USE DEF IInv, TypeOK, Kinds, Exclusion, Labels, Places, SetupPlaces, Searching,
        Deploying, Written, Holding, Entered, Labelled, Refused, Namespace, NoSetup, Setups,
        None, Go, vars, process, output
<1>1. ASSUME NEW p \in Processes, BeginOptimize(p) PROVE Labels'
    BY <1>1, WorkflowAssumption DEF BeginOptimize
<1>2. ASSUME NEW p \in Processes, BeginDeploy(p) PROVE Labels'
    BY <1>2, WorkflowAssumption DEF BeginDeploy
<1>3. ASSUME NEW p \in Processes, Refuse(p) PROVE Labels'
    BY <1>3, WorkflowAssumption DEF Refuse
<1>4. ASSUME NEW p \in Processes, Enter(p) PROVE Labels'
    <2>1. setup.label # None => setup' = setup /\ namespace'[p] = setup.label
        BY <1>4 DEF Enter
    <2>2. p # None
        BY WorkflowAssumption
    <2>3. setup.label = None => namespace'[p] = p /\ kind[p] = "optimize"
        BY <1>4 DEF Enter
    <2>4. kind[p] = "optimize" => setup'.label = p
        BY <1>4 DEF Enter
    <2>5. \A q \in Processes \ {p} : kind'[q] = kind[q] /\ at'[q] = at[q] /\ namespace'[q] = namespace[q]
        BY <1>4 DEF Enter
    <2>6. recorded' = recorded /\ run' = run /\ kind'[p] = kind[p]
        BY <1>4 DEF Enter
    <2> QED
        BY <2>1, <2>2, <2>3, <2>4, <2>5, <2>6
<1>5. ASSUME NEW p \in Processes, Inspect(p) \/ Probe(p) \/ Prepared(p) \/
        CleanUpPrevious(p) \/ Stage(p) \/ Loaded(p) PROVE Labels'
    BY <1>5, WorkflowAssumption DEF Inspect, Probe, Prepared, CleanUpPrevious, Stage, Loaded
<1>6. ASSUME NEW p \in Processes, Create(p) \/ Record(p) \/ Cancel(p) PROVE Labels'
    BY <1>6, WorkflowAssumption DEF Create, Record, Cancel
<1>7. ASSUME NEW p \in Processes, Experiment(p) \/ SearchEnds(p) \/ Export(p) \/
        WriteRecipe(p) PROVE Labels'
    BY <1>7, WorkflowAssumption DEF Experiment, SearchEnds, Export, WriteRecipe
<1>8. ASSUME NEW p \in Processes, Staged(p) \/ Launch(p) \/ Started(p) \/ Verified(p) \/
        StopServing(p) \/ ShutDown(p) PROVE Labels'
    BY <1>8, WorkflowAssumption DEF Staged, Launch, Started, Verified, StopServing, ShutDown
<1>9. ASSUME NEW p \in Processes, Fail(p) PROVE Labels'
    BY <1>9, WorkflowAssumption DEF Fail
<1>10. ASSUME NEW p \in Processes, SaveSetup(p) PROVE Labels'
    BY <1>10, WorkflowAssumption DEF SaveSetup
<1>11. ASSUME NEW p \in Processes, Unwound(p) PROVE Labels'
    BY <1>11, WorkflowAssumption DEF Unwound
<1>12. ASSUME NEW p \in Processes, UnwindFails(p) PROVE Labels'
    BY <1>12, WorkflowAssumption DEF UnwindFails
<1>13. ASSUME NEW p \in Processes, Kill(p) PROVE Labels'
    BY <1>13, WorkflowAssumption DEF Kill
<1>14. CASE Stop
    BY <1>14 DEF Stop
<1>15. CASE Forget
    BY <1>15 DEF Forget
<1>16. CASE LeaseEnds
    BY <1>16 DEF LeaseEnds
<1>17. CASE Drift
    BY <1>17 DEF Drift
<1>18. CASE UNCHANGED vars
    BY <1>18
<1> QED
    BY <1>1, <1>2, <1>3, <1>4, <1>5, <1>6, <1>7, <1>8, <1>9, <1>10, <1>11, <1>12, <1>13,
       <1>14, <1>15, <1>16, <1>17, <1>18 DEF Next, Work, Setup, Deploy

\* A container has the label of the process that has started it.
LEMMA CoveredKept == IInv /\ [Next]_vars => \A c \in containers' : Covered(c)'
<1> SUFFICES ASSUME IInv, [Next]_vars, NEW c \in containers' PROVE Covered(c)'
    OBVIOUS
<1> USE DEF IInv, TypeOK, Kinds, Exclusion, Labels, Places, SetupPlaces, Searching,
        Deploying, Written, Holding, Entered, Labelled, Covered, Engines, Refused,
        Namespace, NoSetup, Setups, None, Go, Own, Launched, Disowned, vars, process, output
<1>1. ASSUME NEW p \in Processes, BeginOptimize(p) \/ BeginDeploy(p) \/ Refuse(p) \/
        Enter(p) PROVE Covered(c)'
    BY <1>1, WorkflowAssumption DEF BeginOptimize, BeginDeploy, Refuse, Enter
<1>2. ASSUME NEW p \in Processes, Inspect(p) \/ Probe(p) \/ Prepared(p) \/
        CleanUpPrevious(p) \/ Stage(p) \/ Loaded(p) PROVE Covered(c)'
    BY <1>2, WorkflowAssumption DEF Inspect, Probe, Prepared, CleanUpPrevious, Stage, Loaded
<1>3. ASSUME NEW p \in Processes, Create(p) PROVE Covered(c)'
    BY <1>3, WorkflowAssumption DEF Create
<1>4. ASSUME NEW p \in Processes, Record(p) PROVE Covered(c)'
    BY <1>4, WorkflowAssumption DEF Record
<1>5. ASSUME NEW p \in Processes, Cancel(p) PROVE Covered(c)'
    BY <1>5, WorkflowAssumption DEF Cancel
<1>6. ASSUME NEW p \in Processes, Experiment(p) PROVE Covered(c)'
    BY <1>6, WorkflowAssumption DEF Experiment
<1>7. ASSUME NEW p \in Processes, SearchEnds(p) PROVE Covered(c)'
    BY <1>7, WorkflowAssumption DEF SearchEnds
<1>8. ASSUME NEW p \in Processes, Export(p) PROVE Covered(c)'
    BY <1>8, WorkflowAssumption DEF Export
<1>9. ASSUME NEW p \in Processes, WriteRecipe(p) PROVE Covered(c)'
    <2>1. containers' = containers /\ setup' = setup /\ kind' = kind /\ at[p] # "off"
        BY <1>9 DEF WriteRecipe
    <2>2. \A q \in Processes : at[q] # "off" => at'[q] # "off"
        BY <1>9 DEF WriteRecipe
    <2> QED
        BY <2>1, <2>2
<1>10. ASSUME NEW p \in Processes, Staged(p) PROVE Covered(c)'
    BY <1>10, WorkflowAssumption DEF Staged
<1>11. ASSUME NEW p \in Processes, Launch(p) PROVE Covered(c)'
    BY <1>11, WorkflowAssumption DEF Launch
<1>12. ASSUME NEW p \in Processes, Started(p) PROVE Covered(c)'
    BY <1>12, WorkflowAssumption DEF Started
<1>13. ASSUME NEW p \in Processes, Verified(p) PROVE Covered(c)'
    BY <1>13, WorkflowAssumption DEF Verified
<1>14. ASSUME NEW p \in Processes, StopServing(p) PROVE Covered(c)'
    BY <1>14, WorkflowAssumption DEF StopServing
<1>15. ASSUME NEW p \in Processes, ShutDown(p) PROVE Covered(c)'
    BY <1>15, WorkflowAssumption DEF ShutDown
<1>16. ASSUME NEW p \in Processes, Fail(p) \/ SaveSetup(p) \/ Unwound(p) \/ UnwindFails(p)
        \/ Kill(p) PROVE Covered(c)'
    BY <1>16, WorkflowAssumption DEF Fail, SaveSetup, Unwound, UnwindFails, Kill
<1>17. CASE Stop
    BY <1>17 DEF Stop
<1>18. CASE Forget
    BY <1>18 DEF Forget
<1>19. CASE LeaseEnds
    BY <1>19 DEF LeaseEnds
<1>20. CASE Drift
    BY <1>20 DEF Drift
<1>21. CASE UNCHANGED vars
    BY <1>21
<1> QED
    BY <1>1, <1>2, <1>3, <1>4, <1>5, <1>6, <1>7, <1>8, <1>9, <1>10, <1>11, <1>12, <1>13,
       <1>14, <1>15, <1>16, <1>17, <1>18, <1>19, <1>20, <1>21 DEF Next, Work, Setup, Deploy

\* The ground of a process follows run.json, which changes only under the lock.
LEMMA GroundedKept == IInv /\ [Next]_vars => \A q \in Processes : Grounded(q)'
<1> SUFFICES ASSUME IInv, [Next]_vars, NEW q \in Processes PROVE Grounded(q)'
    OBVIOUS
<1> USE DEF IInv, TypeOK, Kinds, Exclusion, Grounded, Definite, Places, SetupPlaces,
        Searching, Deploying, Written, Holding, Nothing, Pinned, Grounds, Pins, PinsOfSetup,
        PinnedModel, Model, Changed, Suits, None, Go, vars, process, output
<1>1. ASSUME NEW p \in Processes, BeginOptimize(p) \/ BeginDeploy(p) \/ Refuse(p) \/
        Enter(p) PROVE Grounded(q)'
    BY <1>1, WorkflowAssumption DEF BeginOptimize, BeginDeploy, Refuse, Enter
<1>2. ASSUME NEW p \in Processes, Inspect(p) \/ Probe(p) \/ Prepared(p) \/
        CleanUpPrevious(p) \/ Stage(p) \/ Loaded(p) PROVE Grounded(q)'
    BY <1>2, WorkflowAssumption DEF Inspect, Probe, Prepared, CleanUpPrevious, Stage, Loaded
<1>3. ASSUME NEW p \in Processes, Create(p) \/ Record(p) \/ Cancel(p) PROVE Grounded(q)'
    BY <1>3, WorkflowAssumption DEF Create, Record, Cancel
<1>4. ASSUME NEW p \in Processes, Experiment(p) \/ SearchEnds(p) \/ Export(p) \/
        WriteRecipe(p) PROVE Grounded(q)'
    BY <1>4, WorkflowAssumption DEF Experiment, SearchEnds, Export, WriteRecipe
<1>5. ASSUME NEW p \in Processes, Staged(p) \/ Launch(p) \/ Started(p) \/ Verified(p) \/
        StopServing(p) \/ ShutDown(p) PROVE Grounded(q)'
    BY <1>5, WorkflowAssumption DEF Staged, Launch, Started, Verified, StopServing, ShutDown
<1>6. ASSUME NEW p \in Processes, Fail(p) \/ SaveSetup(p) \/ Unwound(p) \/ UnwindFails(p) \/
        Kill(p) PROVE Grounded(q)'
    BY <1>6, WorkflowAssumption DEF Fail, SaveSetup, Unwound, UnwindFails, Kill
<1>7. CASE Stop
    BY <1>7 DEF Stop
<1>8. CASE Forget
    BY <1>8 DEF Forget
<1>9. CASE LeaseEnds
    BY <1>9 DEF LeaseEnds
<1>10. CASE Drift
    BY <1>10 DEF Drift
<1>11. CASE UNCHANGED vars
    BY <1>11
<1> QED
    BY <1>1, <1>2, <1>3, <1>4, <1>5, <1>6, <1>7, <1>8, <1>9, <1>10, <1>11 DEF Next, Work,
       Setup, Deploy

-----------------------------------------------------------------------------
\* An output directory that nobody has used yet.
LEMMA InitEstablishes == Init => IInv
<1> SUFFICES ASSUME Init PROVE IInv
    OBVIOUS
<1> USE DEF Init
<1>1. TypeOK
    BY DEF TypeOK, Engines, Places, Grounds, Setups, NoSetup, Nothing, None
<1>2. Kinds /\ Exclusion
    BY DEF Kinds, Exclusion, Holding, SetupPlaces, Searching, Deploying
<1>3. Definite /\ Labels
    BY DEF Definite, Written, Labels, Entered, Labelled, NoSetup, None
<1>4. (\A p \in Processes : Grounded(p)) /\ (\A c \in containers : Covered(c))
    BY DEF Grounded, Searching, Deploying, Pinned
<1> QED
    BY <1>1, <1>2, <1>3, <1>4 DEF IInv

\* Every step of every command, stop, guardian and of the world keeps the invariant.
LEMMA StepKeeps == IInv /\ [Next]_vars => IInv'
<1> SUFFICES ASSUME IInv, [Next]_vars PROVE IInv'
    OBVIOUS
<1>1. TypeOK' /\ Kinds' /\ Exclusion' /\ Definite' /\ Labels'
    BY TypeOKKept, KindsKept, ExclusionKept, DefiniteKept, LabelsKept DEF IInv
<1>2. \A p \in Processes : Grounded(p)'
    BY GroundedKept
<1>3. \A c \in containers' : Covered(c)'
    BY CoveredKept
<1> QED
    BY <1>1, <1>2, <1>3 DEF IInv

-----------------------------------------------------------------------------
\* One controller at a time, one ground for all, one label for everything: in every state
\* of the commands on one output directory.
THEOREM Invariance == Spec => []IInv
    BY InitEstablishes, StepKeeps, PTL DEF Spec

\* However often an output is resumed, stopped, killed and deployed, and whatever changes
\* meanwhile, all its experiments and its deployments have the base image, the GPUs and the
\* model that run.json names (workflow.py's checks on a resume, deploy_recipe's on a recipe).
THEOREM OneGround == Spec => []SameGround
<1>1. IInv => SameGround
    <2> SUFFICES ASSUME IInv PROVE Cardinality(used) <= 1
        BY DEF SameGround
    <2>1. used \subseteq {run}
        BY DEF IInv, Definite
    <2>2. IsFiniteSet({run}) /\ Cardinality({run}) = 1
        BY FS_Singleton
    <2> QED
        BY <2>1, <2>2, FS_Subset
<1> QED
    BY <1>1, Invariance, PTL

\* cleanup_previous_run finds every container that any optimization of this output has
\* started by the one label in .setup.json, at whatever step a process was killed.
THEOREM LabelAlwaysCovers == Spec => []LabelCovers
<1>1. IInv => LabelCovers
    BY DEF IInv, Covered, LabelCovers
<1> QED
    BY <1>1, Invariance, PTL

\* fcntl.flock on .controller.lock: two controllers never work in one directory.
THEOREM OneController ==
    Spec => [](\A p, q \in Processes : Holding(p) /\ Holding(q) => p = q)
<1>1. IInv => \A p, q \in Processes : Holding(p) /\ Holding(q) => p = q
    BY DEF IInv, Exclusion
<1> QED
    BY <1>1, Invariance, PTL
=============================================================================
