-------------------------- MODULE ContainersProofs --------------------------
(***************************************************************************)
(* For any replicas, groups and experiments: what an earlier experiment     *)
(* left on the GPUs while another one runs is a container that the gate on  *)
(* the memory could not see.                                                *)
(***************************************************************************)
EXTENDS Containers, FiniteSetTheorems, TLAPS

\* Containers of earlier experiments, and those that hold memory of a GPU.
Leftovers == [at : Processes, exp : Nat, tended : BOOLEAN, holds : BOOLEAN, blind : BOOLEAN]
HoldersIn(S, p) == {s \in S : s.at = p /\ s.holds}

\* What is counted, and the number of the experiment.
TypeOK ==
    /\ baseline \in [Processes -> Nat] /\ foreign \in [Processes -> {0, 1}]
    /\ stray \in SUBSET Leftovers /\ IsFiniteSet(stray)
    /\ exp \in Nat

\* Before the first launch of an experiment nothing of it runs.
NothingYet ==
    phase = "idle" => /\ task = [r \in Replicas |-> "none"]
                      /\ engine = [p \in Processes |-> "none"]

\* Memory that is less than at the sample was freed by somebody else, and noticed.
FreedIsReleased ==
    phase # "ended" =>
        \A p \in Processes \ released :
            baseline[p] <= foreign[p] + Cardinality(HoldersIn(stray, p))

AllBlind == \A s \in stray : s.blind

IInv == TypeOK /\ NothingYet /\ FreedIsReleased /\ AllBlind

-----------------------------------------------------------------------------
(* Lemmas about what is counted *)

\* A function has as many values as arguments, or fewer.
LEMMA FiniteImage ==
    ASSUME NEW S, IsFiniteSet(S), NEW f, f = [x \in S |-> f[x]]
    PROVE  IsFiniteSet({f[x] : x \in S})
<1> DEFINE T == {f[x] : x \in S}
<1>1. f \in Surjection(S, T)
  BY DEF Surjection
<1> HIDE DEF T
<1>2. IsFiniteSet(T)
  BY <1>1, FS_Surjection
<1>. QED  BY <1>2 DEF T

\* How many hold memory of a GPU is a number, and more of them are not fewer.
LEMMA HoldersCount ==
    ASSUME NEW S, IsFiniteSet(S), NEW p
    PROVE  IsFiniteSet(HoldersIn(S, p)) /\ Cardinality(HoldersIn(S, p)) \in Nat
<1>1. IsFiniteSet(HoldersIn(S, p))
  BY FS_Subset DEF HoldersIn
<1>. QED  BY <1>1, FS_CardinalityType

\* More containers hold no less of the memory of a GPU.
LEMMA HoldersGrow ==
    ASSUME NEW S, NEW T, IsFiniteSet(T), NEW p, HoldersIn(S, p) \subseteq HoldersIn(T, p)
    PROVE  Cardinality(HoldersIn(S, p)) <= Cardinality(HoldersIn(T, p))
<1>1. IsFiniteSet(HoldersIn(T, p))
  BY HoldersCount
<1>. QED  BY <1>1, FS_Subset

\* The memory in use, by who uses it.
LEMMA UsedFacts ==
    ASSUME TypeOK, NEW p \in Processes
    PROVE  /\ Used(p) = foreign[p] + Bit(engine[p] = "loaded") + Cardinality(HoldersIn(stray, p))
           /\ Used(p) \in Nat /\ Cardinality(HoldersIn(stray, p)) \in Nat
<1>1. Cardinality(HoldersIn(stray, p)) \in Nat
  BY HoldersCount DEF TypeOK
<1>2. {s \in Strays(p) : s.holds} = HoldersIn(stray, p)
  BY DEF Strays, HoldersIn
<1> DEFINE b == Bit(engine[p] = "loaded")
<1>3. foreign[p] \in Nat /\ b \in Nat
  BY DEF TypeOK, Bit
<1>4. Used(p) = foreign[p] + b + Cardinality(HoldersIn(stray, p))
  BY <1>2 DEF Used
<1> HIDE DEF b
<1>5. Used(p) \in Nat
  BY <1>1, <1>3, <1>4
<1>. QED  BY <1>1, <1>4, <1>5 DEF b

-----------------------------------------------------------------------------
(* Steps *)

\* As the search starts.
LEMMA InitEstablishes == Init => IInv
<1> SUFFICES ASSUME Init PROVE IInv
  OBVIOUS
<1>1. TypeOK
  BY FS_EmptySet DEF Init, TypeOK
<1>2. FreedIsReleased
  <2> SUFFICES ASSUME NEW p \in Processes
               PROVE  baseline[p] <= foreign[p] + Cardinality(HoldersIn(stray, p))
    BY DEF FreedIsReleased
  <2>1. baseline[p] = 0 /\ foreign[p] = 0
    BY DEF Init
  <2>. QED  BY <1>1, <2>1, UsedFacts
<1>. QED  BY <1>1, <1>2 DEF Init, IInv, NothingYet, AllBlind

\* A step that leaves the memory and the containers of earlier experiments.
LEMMA MemoryIsKept ==
    ASSUME IInv, UNCHANGED <<memory, stray, exp>>, phase = "ended" => phase' = "ended",
           NothingYet'
    PROVE  IInv'
<1>1. TypeOK' /\ AllBlind'
  BY DEF IInv, TypeOK, AllBlind, memory
<1>2. FreedIsReleased'
  BY DEF IInv, FreedIsReleased, memory
<1>. QED  BY <1>1, <1>2 DEF IInv

\* An experiment begins with a sample of the memory, when nothing of it runs.
LEMMA OpenKeeps == IInv /\ (Open \/ OpenFails) => IInv'
<1> SUFFICES ASSUME IInv, Open \/ OpenFails PROVE IInv'
  OBVIOUS
<1>1. phase = "idle" /\ phase' # "idle" /\ Sample /\ UNCHANGED stray /\ exp' = exp + 1
  BY DEF Open, OpenFails, CanOpen
<1>2. ASSUME NEW p \in Processes
      PROVE  baseline'[p] = foreign[p] + Cardinality(HoldersIn(stray, p)) /\ Used(p) \in Nat
  <2>1. Bit(engine[p] = "loaded") = 0
    BY <1>1 DEF IInv, NothingYet, Bit
  <2>2. foreign[p] \in Nat
    BY DEF IInv, TypeOK
  <2>3. baseline'[p] = Used(p)
    BY <1>1 DEF Sample
  <2>. QED  BY <2>1, <2>2, <2>3, UsedFacts DEF IInv
<1>3. TypeOK'
  BY <1>1, <1>2 DEF IInv, TypeOK, Sample
<1>4. FreedIsReleased'
  <2> SUFFICES ASSUME NEW p \in Processes
               PROVE  baseline'[p] <= foreign'[p] + Cardinality(HoldersIn(stray', p))
    BY DEF FreedIsReleased
  <2>1. foreign'[p] = foreign[p] /\ stray' = stray
    BY <1>1 DEF Sample
  <2>2. foreign[p] \in Nat /\ Cardinality(HoldersIn(stray, p)) \in Nat
    BY UsedFacts DEF IInv, TypeOK
  <2>. QED  BY <1>2, <2>1, <2>2
<1>. QED  BY <1>1, <1>3, <1>4 DEF IInv, NothingYet, AllBlind

\* A launch is a step of a task that has been started, so not of an idle search.
LEMMA LaunchKeeps ==
    ASSUME IInv, NEW r \in Replicas, Launch(r)
    PROVE  IInv'
<1>1. task[r] # "none" /\ UNCHANGED <<phase, memory, stray, exp>>
  BY DEF Launch, Fork, Started, StartNext, GiveUp, HandshakeFails, Undo, TaskFails, Ready,
         NotReady, Runs, Others
<1>2. NothingYet'
  BY <1>1 DEF IInv, NothingYet
<1>. QED  BY <1>1, <1>2, MemoryIsKept

\* The controller's own steps, but for the gate.
LEMMA ControllerKeeps ==
    ASSUME IInv, Interrupt \/ FirstDone \/ RestDone \/ Measured \/ Terminate \/ Terminated
                 \/ ShutDown \/ ShutDownDone \/ GateFails
    PROVE  IInv'
<1>1. phase # "ended" /\ phase' # "idle" /\ UNCHANGED <<memory, stray, exp>>
  BY DEF Interrupt, FirstDone, RestDone, Listing, Measured, Terminate, Terminated, ShutDown,
         ShutDownDone, GateFails
<1>2. NothingYet'
  BY <1>1 DEF NothingYet
<1>. QED  BY <1>1, <1>2, MemoryIsKept

\* What the gate lets pass is blind to it: memory that is used and was not there at the
\* sample, on a GPU where nobody else has freed any, shows.
LEMMA GateKeeps == IInv /\ GatePasses => IInv'
<1> SUFFICES ASSUME IInv, GatePasses PROVE IInv'
  OBVIOUS
<1> DEFINE running == {q \in Processes : engine[q] # "none"}
           L(p) == [at |-> p, exp |-> exp, tended |-> handle[p] = "open",
                    holds |-> engine[p] = "loaded",
                    blind |-> engine[p] # "loaded" \/ p \in released]
           f == [p \in running |-> L(p)]
           new == {f[p] : p \in running}
<1>1. /\ phase = "gate" /\ phase' = "idle" /\ FreeAgain /\ stray' = stray \cup new
      /\ task' = [r \in Replicas |-> "none"] /\ engine' = [p \in Processes |-> "none"]
      /\ baseline' = [p \in Processes |-> 0] /\ UNCHANGED <<foreign, exp>>
  BY DEF GatePasses
<1>2. ASSUME NEW p \in running PROVE f[p] \in Leftovers /\ f[p].blind
  <2>1. f[p] = L(p) /\ p \in Processes /\ L(p) \in Leftovers
    BY DEF IInv, TypeOK, Leftovers
  <2>2. ASSUME engine[p] = "loaded", p \notin released PROVE FALSE
    <3>1. Used(p) = foreign[p] + 1 + Cardinality(HoldersIn(stray, p))
      BY <2>1, <2>2, UsedFacts DEF IInv, Bit
    <3>2. baseline[p] <= foreign[p] + Cardinality(HoldersIn(stray, p))
      BY <1>1, <2>1, <2>2 DEF IInv, FreedIsReleased
    <3>3. Used(p) <= baseline[p]
      BY <1>1, <2>1 DEF FreeAgain
    <3>4. foreign[p] \in Nat /\ baseline[p] \in Nat /\ Cardinality(HoldersIn(stray, p)) \in Nat
      BY <2>1, UsedFacts DEF IInv, TypeOK
    <3>. QED  BY <3>1, <3>2, <3>3, <3>4
  <2>. QED  BY <2>1, <2>2
<1>3. IsFiniteSet(new)
  <2>1. IsFiniteSet(running)
    BY FS_Subset, ContainersAssumption
  <2>2. f = [p \in running |-> f[p]]
    OBVIOUS
  <2> HIDE DEF running, f
  <2>. QED  BY <2>1, <2>2, FiniteImage
<1>4. new \subseteq Leftovers /\ \A s \in new : s.blind
  <2> HIDE DEF f, running
  <2>. QED  BY <1>2
<1> HIDE DEF new
<1>5. stray' \in SUBSET Leftovers /\ IsFiniteSet(stray') /\ AllBlind'
  BY <1>1, <1>3, <1>4, FS_Union DEF IInv, TypeOK, AllBlind
<1>6. TypeOK'
  BY <1>1, <1>5 DEF IInv, TypeOK
<1>7. FreedIsReleased'
  <2> SUFFICES ASSUME NEW p \in Processes
               PROVE  baseline'[p] <= foreign'[p] + Cardinality(HoldersIn(stray', p))
    BY DEF FreedIsReleased
  <2>1. baseline'[p] = 0 /\ foreign'[p] \in Nat
    BY <1>1, <1>6 DEF TypeOK
  <2>2. Cardinality(HoldersIn(stray', p)) \in Nat
    BY <1>5, HoldersCount
  <2>. QED  BY <2>1, <2>2
<1>. QED  BY <1>1, <1>5, <1>6, <1>7 DEF IInv, NothingYet

\* No experiment follows the end of the controller.
LEMMA EndKeeps == IInv /\ ControllerEnds => IInv'
<1> SUFFICES ASSUME IInv, ControllerEnds PROVE IInv'
  OBVIOUS
<1> DEFINE f == [s \in stray |-> [s EXCEPT !.tended = FALSE]]
<1>1. phase' = "ended" /\ stray' = {f[s] : s \in stray} /\ UNCHANGED <<memory, exp>>
  BY DEF ControllerEnds
<1>2. \A s \in stray : f[s] \in Leftovers /\ f[s].blind = s.blind
  BY DEF IInv, TypeOK, Leftovers
<1>3. IsFiniteSet(stray') /\ stray' \subseteq Leftovers /\ AllBlind'
  <2>1. f = [s \in stray |-> f[s]] /\ IsFiniteSet(stray)
    BY DEF IInv, TypeOK
  <2> HIDE DEF f
  <2>2. IsFiniteSet({f[s] : s \in stray})
    BY <2>1, FiniteImage
  <2>. QED  BY <1>1, <1>2, <2>2 DEF IInv, AllBlind
<1>. QED  BY <1>1, <1>3 DEF IInv, TypeOK, NothingYet, FreedIsReleased, memory

\* The nodes and their guardians; an idle search has no container they could start.
LEMMA NodeKeeps ==
    ASSUME IInv, NEW p \in Processes, Node(p) \/ EngineExits(p) \/ ConnectionLost(p)
    PROVE  IInv'
<1>1. UNCHANGED <<phase, memory, stray, exp, task>>
  BY DEF Node, Load, GuardianStops, LeaseEnds, EngineExits, ConnectionLost, World
<1>2. ASSUME phase = "idle" PROVE engine' = engine
  <2>1. engine = [q \in Processes |-> "none"]
    BY <1>2 DEF IInv, NothingYet
  <2>2. engine[p] = "none" /\ [engine EXCEPT ![p] = "none"] = engine
    BY <2>1
  <2>. QED  BY <2>2 DEF Node, Load, GuardianStops, LeaseEnds, EngineExits, ConnectionLost
<1>3. NothingYet'
  BY <1>1, <1>2 DEF IInv, NothingYet
<1>. QED  BY <1>1, <1>3, MemoryIsKept

\* Memory of another program comes, or goes and is noticed.
LEMMA ForeignKeeps ==
    ASSUME IInv, NEW q \in Processes, ForeignChanges(q)
    PROVE  IInv'
<1>1. /\ foreign' = [foreign EXCEPT ![q] = 1 - foreign[q]]
      /\ released' = IF foreign[q] = 1 THEN released \cup {q} ELSE released
      /\ UNCHANGED <<phase, engine, task, baseline, stray, exp>>
  BY DEF ForeignChanges, World
<1>2. TypeOK'
  <2>1. foreign[q] = 0 \/ foreign[q] = 1
    BY DEF IInv, TypeOK
  <2>2. 1 - foreign[q] \in {0, 1}
    BY <2>1
  <2>. QED  BY <1>1, <2>2 DEF IInv, TypeOK
<1>3. ASSUME NEW p \in Processes \ released', phase # "ended"
      PROVE  baseline[p] <= foreign'[p] + Cardinality(HoldersIn(stray, p))
  <2>1. p \notin released /\ (p = q => foreign[p] = 0)
    <3>1. foreign[q] = 0 \/ foreign[q] = 1
      BY DEF IInv, TypeOK
    <3>. QED  BY <1>1, <3>1, <1>3
  <2>2. baseline[p] <= foreign[p] + Cardinality(HoldersIn(stray, p))
    BY <1>3, <2>1 DEF IInv, FreedIsReleased
  <2>3. foreign[p] \in Nat /\ baseline[p] \in Nat /\ Cardinality(HoldersIn(stray, p)) \in Nat
    BY UsedFacts DEF IInv, TypeOK
  <2>4. foreign'[p] = IF p = q THEN 1 - foreign[p] ELSE foreign[p]
    BY <1>1 DEF IInv, TypeOK
  <2>. QED  BY <2>1, <2>2, <2>3, <2>4
<1>4. FreedIsReleased'
  BY <1>1, <1>3 DEF FreedIsReleased
<1>. QED  BY <1>1, <1>2, <1>4 DEF IInv, NothingYet, AllBlind

\* A container of an earlier experiment takes its memory, or gives it back.
LEMMA StrayKeeps ==
    ASSUME IInv, NEW s \in stray, StrayLoads(s) \/ StrayEnds(s)
    PROVE  IInv'
<1> DEFINE t == [s EXCEPT !.holds = TRUE]
<1>1. UNCHANGED <<phase, engine, task, baseline, foreign, exp>>
  BY DEF StrayLoads, StrayEnds, World, memory
<1>2. s \in Leftovers /\ t \in Leftovers /\ t.blind = s.blind
  BY DEF IInv, TypeOK, Leftovers
<1>3. \/ stray' = (stray \ {s}) \cup {t} /\ ~s.holds /\ released' = released
      \/ stray' = stray \ {s} /\ released' = IF s.holds THEN released \cup {s.at} ELSE released
  BY DEF StrayLoads, StrayEnds, memory
<1> HIDE DEF t
<1>4. IsFiniteSet(stray') /\ stray' \in SUBSET Leftovers /\ AllBlind'
  <2>1. /\ IsFiniteSet(stray) /\ stray \in SUBSET Leftovers /\ \A x \in stray : x.blind
    BY DEF IInv, TypeOK, AllBlind
  <2>2. IsFiniteSet(stray \ {s})
    BY <2>1, FS_RemoveElement
  <2>3. IsFiniteSet((stray \ {s}) \cup {t})
    BY <2>2, FS_AddElement
  <2>4. IsFiniteSet(stray')
    BY <1>3, <2>2, <2>3
  <2>5. \A x \in stray' : x \in stray \/ x = t
    BY <1>3
  <2>. QED  BY <1>2, <2>1, <2>4, <2>5 DEF AllBlind
<1>5. TypeOK'
  BY <1>1, <1>4 DEF IInv, TypeOK
<1>6. ASSUME NEW p \in Processes \ released', phase # "ended"
      PROVE  baseline[p] <= foreign[p] + Cardinality(HoldersIn(stray', p))
  <2>1. p \notin released /\ HoldersIn(stray, p) \subseteq HoldersIn(stray', p)
    BY <1>3, <1>6 DEF HoldersIn
  <2>2. baseline[p] <= foreign[p] + Cardinality(HoldersIn(stray, p))
    BY <1>6, <2>1 DEF IInv, FreedIsReleased
  <2>3. Cardinality(HoldersIn(stray, p)) <= Cardinality(HoldersIn(stray', p))
    BY <1>4, <2>1, HoldersGrow
  <2>4. /\ foreign[p] \in Nat /\ baseline[p] \in Nat /\ Cardinality(HoldersIn(stray, p)) \in Nat
        /\ Cardinality(HoldersIn(stray', p)) \in Nat
    BY <1>4, UsedFacts, HoldersCount DEF IInv, TypeOK
  <2>. QED  BY <2>2, <2>3, <2>4
<1>7. FreedIsReleased'
  BY <1>1, <1>6 DEF FreedIsReleased
<1>. QED  BY <1>1, <1>4, <1>5, <1>7 DEF IInv, NothingYet

\* Every step keeps the invariant.
LEMMA NextKeeps == IInv /\ [Next]_vars => IInv'
<1> SUFFICES ASSUME IInv, [Next]_vars PROVE IInv'
  OBVIOUS
<1>1. CASE Open \/ OpenFails
  BY <1>1, OpenKeeps
<1>2. CASE ControllerEnds
  BY <1>2, EndKeeps
<1>3. CASE Interrupt \/ Controller
  BY <1>3, ControllerKeeps, GateKeeps DEF Controller
<1>4. CASE \E r \in Replicas : Launch(r)
  BY <1>4, LaunchKeeps
<1>5. CASE \E p \in Processes :
               Node(p) \/ EngineExits(p) \/ ConnectionLost(p) \/ ForeignChanges(p)
  BY <1>5, NodeKeeps, ForeignKeeps
<1>6. CASE \E s \in stray : StrayLoads(s) \/ StrayEnds(s)
  BY <1>6, StrayKeeps
<1>7. CASE UNCHANGED vars
  <2>1. NothingYet' /\ UNCHANGED <<memory, stray, exp, phase>>
    BY <1>7 DEF IInv, NothingYet, vars, launch
  <2>. QED  BY <2>1, MemoryIsKept
<1>. QED  BY <1>1, <1>2, <1>3, <1>4, <1>5, <1>6, <1>7 DEF Next

-----------------------------------------------------------------------------
\* The inductive invariant holds throughout: a GPU with less memory in use than at the
\* sample, the experiment's own left aside, is one where somebody else has freed some.
THEOREM Invariance == Spec => []IInv
<1>. QED  BY InitEstablishes, NextKeeps, PTL DEF Spec

\* Whatever is launched, fails, is cancelled or loses its connection, in any order: the only
\* containers of earlier experiments beside a new one are those the gate could not see.
THEOREM AlwaysSoleOnGpus == Spec => []SoleOnGpus
<1>1. IInv => SoleOnGpus
  BY DEF IInv, AllBlind, SoleOnGpus
<1>. QED  BY Invariance, <1>1, PTL
=============================================================================
