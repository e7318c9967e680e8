------------------------- MODULE SupervisionProofs -------------------------
(***************************************************************************)
(* For any number of replicas, any restart budget and both launchers: the   *)
(* safety properties of Supervision.  They all follow from one inductive    *)
(* invariant, which says for every place a restart task can be at what is   *)
(* running, what the router believes, and which phases of a shutdown allow  *)
(* it.                                                                      *)
(*                                                                          *)
(* Then the commands around a deployment (Serving): what the state file     *)
(* says of it, and what becomes of the tuning record it may be chosen from. *)
(***************************************************************************)
EXTENDS Supervision, Serving, FiniteSetTheorems, TLAPS

\* The shutdown: the checker lives exactly as long as the deployment serves,
\* only a stopping deployment has tasks that are cancelled, and once the
\* checker has stopped there are no tasks at all.
Phased ==
    /\ checker = "cancelled" <=> phase # "serving"
    /\ checker # "probing" => live = {}
    /\ \A i \in cancelled : task[i] # "none"
    /\ cancelled # {} => phase = "stopping"
    /\ phase \notin {"serving", "stopping"} => \A i \in Indices : task[i] = "none"
    /\ phase \in {"clearing", "down"} => \A i \in Indices : alive[i] = {}

\* The processes: which ones may be running, by the place of the restart task.
Placed(i) ==
    /\ OneProcessPerReplica
    /\ task[i] \in {"sleeping", "terminating", "reaping", "launching"} => alive[i] = {}
    /\ task[i] \in {"waiting", "discarding"} => alive[i] \subseteq {launched[i]}
    /\ task[i] \in {"recording", "saving"} => alive[i] \subseteq {listed[i]}
    /\ task[i] = "none" /\ phase = "serving" => alive[i] \subseteq {listed[i]}

\* What the checker and the router believe.
Watched(i) ==
    /\ i \in live => task[i] = "none" /\ status[i] # "stopped"
    /\ task[i] \in Replacing => status[i] # "healthy"
    /\ task[i] # "none" => status[i] # "stopped"
    /\ ~Containers /\ phase = "serving" /\ status[i] = "absent" => task[i] = "launching"

IInv ==
    /\ TypeOK
    /\ Phased
    /\ \A i \in Indices : Placed(i) /\ Watched(i)

-----------------------------------------------------------------------------
\* A deployment that has just been started satisfies the invariant.
LEMMA InitEstablishes == Init => IInv
<1>1. SUFFICES ASSUME Init PROVE IInv
    OBVIOUS
<1>2. TypeOK
    BY <1>1, SupervisionAssumption DEF Init, TypeOK, Phases, Statuses, Tasks, Launchers
<1>3. Phased
    BY <1>1 DEF Init, Phased
<1>4. \A i \in Indices : Placed(i) /\ Watched(i)
    BY <1>1 DEF Init, Placed, Watched, OneProcessPerReplica, Replacing, Containers
<1> QED
    BY <1>2, <1>3, <1>4 DEF IInv

\* The two passes of a check.  The first starts a restart only where nothing
\* runs; the second touches no replica that has a restart task.
LEMMA CheckKeeps == IInv /\ Check => IInv'
<1>1. SUFFICES ASSUME IInv, Check PROVE IInv'
    OBVIOUS
<1> USE DEF IInv
<1>2. CASE BeginCheck
    <2>1. TypeOK'
        BY <1>1, <1>2, SupervisionAssumption
        DEF TypeOK, BeginCheck, Considered, BudgetSpent, StatusOfDead, Statuses, Tasks,
            recordVars
    <2>2. Phased'
        BY <1>1, <1>2 DEF TypeOK, Phased, BeginCheck, recordVars
    <2>3. ASSUME NEW i \in Indices PROVE Placed(i)'
        BY <1>1, <1>2, <2>3 DEF TypeOK, Phased, Placed, BeginCheck, Considered, Restarting,
            Dead, OneProcessPerReplica
    <2>4. ASSUME NEW i \in Indices PROVE Watched(i)'
        BY <1>1, <1>2, <2>4 DEF TypeOK, Phased, Watched, BeginCheck, Considered, Restarting,
            BudgetSpent, StatusOfDead, Replacing, Containers, recordVars
    <2> QED
        BY <2>1, <2>2, <2>3, <2>4
<1>3. CASE ApplyProbes
    <2>1. TypeOK'
        BY <1>1, <1>3, SupervisionAssumption
        DEF TypeOK, ApplyProbes, StatusNow, MissedNow, Statuses, recordVars
    <2>2. Phased'
        BY <1>1, <1>3 DEF TypeOK, Phased, ApplyProbes
    <2>3. ASSUME NEW i \in Indices PROVE Placed(i)'
        BY <1>1, <1>3, <2>3 DEF Placed, ApplyProbes, OneProcessPerReplica
    <2>4. ASSUME NEW i \in Indices PROVE Watched(i)'
        BY <1>1, <1>3, <2>4 DEF TypeOK, Watched, ApplyProbes, StatusNow, Replacing,
            Containers, recordVars
    <2> QED
        BY <2>1, <2>2, <2>3, <2>4
<1> QED
    BY <1>1, <1>2, <1>3 DEF Check

\* One step of a restart task.  It changes nothing of any other replica but,
\* after a failed launch of a ContainerLauncher, ends their processes.
LEMMA RestartKeeps == ASSUME NEW k \in Indices, IInv, Restart(k) PROVE IInv'
<1> USE DEF IInv
<1>1. TypeOK'
    BY SupervisionAssumption
    DEF TypeOK, Restart, WakeUp, TerminateOld, AwaitReaders, ReapReaders, LaunchSucceeds,
        LaunchFails, LaunchRaises, BecomesReady, NotReady, Discard, TakeSnapshot,
        FinishRestart, CancelTask, ForgetAndLaunch, AfterFailedLaunch, Mishap, Runs,
        Statuses, Tasks, checkerVars, recordVars
<1>2. Phased'
    BY DEF TypeOK, Phased, Restart, WakeUp, TerminateOld, AwaitReaders, ReapReaders,
        LaunchSucceeds, LaunchFails, LaunchRaises, BecomesReady, NotReady, Discard,
        TakeSnapshot, FinishRestart, CancelTask, ForgetAndLaunch, AfterFailedLaunch, Runs,
        checkerVars
<1>3. ASSUME NEW i \in Indices PROVE Placed(i)'
    BY <1>3 DEF TypeOK, Phased, Placed, OneProcessPerReplica, Restart, WakeUp, TerminateOld,
        AwaitReaders, ReapReaders, LaunchSucceeds, LaunchFails, LaunchRaises, BecomesReady,
        NotReady, Discard, TakeSnapshot, FinishRestart, CancelTask, ForgetAndLaunch,
        AfterFailedLaunch, Runs
<1>4. ASSUME NEW i \in Indices PROVE Watched(i)'
    BY <1>4 DEF TypeOK, Phased, Watched, Replacing, Restart, WakeUp, TerminateOld,
        AwaitReaders, ReapReaders, LaunchSucceeds, LaunchFails, LaunchRaises, BecomesReady,
        NotReady, Discard, TakeSnapshot, FinishRestart, CancelTask, ForgetAndLaunch, Runs,
        checkerVars, Containers, recordVars
<1> QED
    BY <1>1, <1>2, <1>3, <1>4

\* One step of Deployment.shutdown.
LEMMA ShutdownKeeps == IInv /\ Shutdown => IInv'
<1>1. SUFFICES ASSUME IInv, Shutdown PROVE IInv'
    OBVIOUS
<1> USE DEF IInv, Shutdown, StopHealth, HealthStopped, StopReplicas, ShutdownLauncher, ClearState
<1>2. TypeOK'
    BY <1>1 DEF TypeOK, Phases, Statuses, Restarting, checkerVars, recordVars
<1>3. Phased'
    BY <1>1 DEF TypeOK, Phased, Restarting, checkerVars
<1>4. ASSUME NEW i \in Indices PROVE Placed(i)'
    BY <1>1, <1>4 DEF TypeOK, Phased, Placed, OneProcessPerReplica, Restarting
<1>5. ASSUME NEW i \in Indices PROVE Watched(i)'
    BY <1>1, <1>5 DEF TypeOK, Phased, Watched, Replacing, checkerVars, Containers, recordVars
<1> QED
    BY <1>2, <1>3, <1>4, <1>5

\* Threads that write the state file, the rolling window, and crashes.
LEMMA RestKeeps ==
    ASSUME NEW k \in Indices, IInv, WriteFile(k) \/ Expire(k) \/ Crash(k)
    PROVE  IInv'
<1> USE DEF IInv, WriteFile, Expire, Crash
<1>1. TypeOK'
    <2>1. CASE WriteFile(k)
        BY <2>1 DEF TypeOK, checkerVars, recordVars
    <2>2. CASE Expire(k)
        BY <2>2, SupervisionAssumption DEF TypeOK, recordVars
    <2>3. CASE Crash(k)
        BY <2>3, SupervisionAssumption DEF TypeOK, Mishap, checkerVars, recordVars
    <2> QED
        BY <2>1, <2>2, <2>3
<1>2. Phased'
    BY DEF TypeOK, Phased, checkerVars
<1>3. ASSUME NEW i \in Indices PROVE Placed(i)'
    BY <1>3 DEF TypeOK, Placed, OneProcessPerReplica
<1>4. ASSUME NEW i \in Indices PROVE Watched(i)'
    BY <1>4 DEF TypeOK, Watched, Replacing, checkerVars, Containers, recordVars
<1> QED
    BY <1>1, <1>2, <1>3, <1>4

\* The invariant is inductive.
LEMMA NextKeeps == IInv /\ [Next]_vars => IInv'
<1>1. SUFFICES ASSUME IInv, [Next]_vars PROVE IInv'
    OBVIOUS
<1>2. CASE UNCHANGED vars
    BY <1>1, <1>2 DEF vars, checkerVars, recordVars, IInv, TypeOK, Phased, Placed, Watched,
        OneProcessPerReplica, Replacing, Containers
<1>3. CASE Next
    BY <1>1, <1>3, CheckKeeps, ShutdownKeeps, RestartKeeps, RestKeeps DEF Next
<1> QED
    BY <1>1, <1>2, <1>3

\* The inductive invariant holds in every reachable state.
THEOREM Invariance == Spec => []IInv
    BY InitEstablishes, NextKeeps, PTL DEF Spec

-----------------------------------------------------------------------------
\* Every variable keeps its shape, and no restart budget is exceeded.
THEOREM TypeCorrect == Spec => []TypeOK
    BY Invariance, PTL DEF IInv

\* However checks, restarts, crashes and the shutdown interleave, a replica
\* never has two engine processes on its port and GPUs.
THEOREM NeverTwoProcesses == Spec => []OneProcessPerReplica
<1>1. IInv => OneProcessPerReplica
    BY DEF IInv, Placed, OneProcessPerReplica
<1> QED
    BY <1>1, Invariance, PTL

\* A replica that is being replaced is neither routed to nor probed.
THEOREM ReplacedStaysOut == Spec => []ReplacedOutOfRotation
<1>1. IInv => ReplacedOutOfRotation
    BY DEF IInv, Watched, ReplacedOutOfRotation, Replacing
<1> QED
    BY <1>1, Invariance, PTL

\* With a LocalLauncher a failed restart always leaves the replica where the
\* checker finds it again; with a ContainerLauncher it may not.
THEOREM LocalRestartIsRetried == Spec => []FailedRestartIsRetried
<1>1. IInv => FailedRestartIsRetried
    BY DEF IInv, Watched, FailedRestartIsRetried
<1> QED
    BY <1>1, Invariance, PTL

\* No engine process outlives the deployment.
THEOREM NothingEverSurvives == Spec => []NothingSurvives
<1>1. IInv => NothingSurvives
    BY DEF IInv, Phased, NothingSurvives
<1> QED
    BY <1>1, Invariance, PTL

\* Giving a replica up is final until the shutdown unregisters it.
THEOREM GivenUpForGood == Spec => StoppedIsFinal
<1> DEFINE Final(i) ==
        status[i] = "stopped" /\ phase # "terminating" =>
            status'[i] = "stopped" /\ task'[i] = "none" /\ i \notin live'
<1>1. ASSUME IInv, Next, NEW i \in Indices PROVE Final(i)
    <2> USE <1>1 DEF IInv, TypeOK, Watched
    <2>1. CASE Check
        BY <2>1 DEF Check, BeginCheck, ApplyProbes, Considered
    <2>2. CASE Shutdown
        BY <2>2 DEF Phased, Shutdown, StopHealth, HealthStopped, StopReplicas,
            ShutdownLauncher, ClearState, checkerVars
    <2>3. ASSUME NEW k \in Indices, Restart(k) PROVE Final(i)
        BY <2>3 DEF Restart, WakeUp, TerminateOld, AwaitReaders, ReapReaders, LaunchSucceeds,
            LaunchFails, LaunchRaises, BecomesReady, NotReady, Discard, TakeSnapshot,
            FinishRestart, CancelTask, ForgetAndLaunch, Runs, Phased, checkerVars
    <2>4. ASSUME NEW k \in Indices, WriteFile(k) \/ Expire(k) \/ Crash(k) PROVE Final(i)
        BY <2>4 DEF WriteFile, Expire, Crash, checkerVars
    <2> QED
        BY <1>1, <2>1, <2>2, <2>3, <2>4 DEF Next
<1>2. IInv /\ [Next]_vars => [\A i \in Indices : Final(i)]_vars
    BY <1>1
<1> QED
    BY <1>2, Invariance, PTL DEF Spec, StoppedIsFinal

-----------------------------------------------------------------------------
(***************************************************************************)
(* The deployment as the commands of other terminals see it.                *)
(***************************************************************************)

\* Launched, and not yet ended.
Deployed(d) == shell[d] \in {"starting", "serving", "stopping", "leaving"}

\* Two deployments at a time have both been launched while another one was about to change
\* the file, and a `stop' that has read the file is known to those it may take it from.
OnRecord ==
    /\ shell \in [Shells -> {"off", "tuning", "selected", "starting", "serving", "stopping",
                             "leaving"}]
    /\ raced \subseteq Shells
    /\ \A d, e \in Shells : Deployed(d) /\ Deployed(e) /\ d # e => d \in raced
    /\ \A d \in Shells :
          shell[d] \in {"starting", "serving"} /\ d \notin raced => stopper = "idle"
    /\ StopFindsDeployment

\* At first nothing is deployed.
LEMMA CommandsInit == ServingInit => OnRecord
<1>1. SUFFICES ASSUME ServingInit PROVE OnRecord
    OBVIOUS
<1> QED
    BY <1>1 DEF ServingInit, OnRecord, Shells, Deployed, StopFindsDeployment

\* A deployment that is launched while the file is about to change is noted; any other one is
\* alone, and the file is its own.
LEMMA CommandsKeep == OnRecord /\ [ServingNext]_<<tunerVars, serving>> => OnRecord'
<1>1. SUFFICES ASSUME OnRecord, [ServingNext]_<<tunerVars, serving>> PROVE OnRecord'
    OBVIOUS
<1> USE DEF OnRecord, Shells, Deployed, StopFindsDeployment
<1>2. CASE UNCHANGED <<tunerVars, serving>>
    BY <1>1, <1>2 DEF serving, stateFile
\* Tuning, and a serve before it is launched: no deployment.
<1>3. ASSUME NEW o \in Options, NEW resume \in BOOLEAN, Tune(o, resume) \/ Serve(o, resume)
      PROVE  OnRecord'
    BY <1>1, <1>3 DEF Tune, Serve, Select, serving, stateFile, Unserved
<1>4. CASE Stage \/ Tuned \/ Change
    BY <1>1, <1>4 DEF Stage, Tuned, Change, serving, stateFile
<1>5. CASE ServeThere
    BY <1>1, <1>5 DEF ServeThere
<1>6. ASSUME NEW d \in Shells, Launch(d) PROVE OnRecord'
    BY <1>1, <1>6 DEF Launch, Off, Deploy, Refused, Unnamed
<1>7. ASSUME NEW d \in Shells, WriteState(d) PROVE OnRecord'
    BY <1>1, <1>7 DEF WriteState
<1>8. ASSUME NEW d \in Shells, Leave(d) PROVE OnRecord'
    BY <1>1, <1>8 DEF Leave, stateFile
<1>9. ASSUME NEW d \in Shells, Clear(d) \/ WriteLate(d) PROVE OnRecord'
    BY <1>1, <1>9 DEF Clear, WriteLate
<1>10. ASSUME NEW d \in Shells, Exit(d) PROVE OnRecord'
    BY <1>1, <1>10 DEF Exit, Off
<1>11. CASE ReadState
    BY <1>1, <1>11 DEF ReadState
<1>12. CASE ClearStale
    BY <1>1, <1>12 DEF ClearStale
<1> QED
    BY <1>1, <1>2, <1>3, <1>4, <1>5, <1>6, <1>7, <1>8, <1>9, <1>10, <1>11, <1>12 DEF ServingNext

\* Whatever the commands of both terminals do, `stop' finds a deployment that serves, unless
\* it was launched beside another launch, shutdown or stop that had read the state file.
THEOREM StopAlwaysFindsDeployment == ServingSpec => []StopFindsDeployment
<1> QED
    BY CommandsInit, CommandsKeep, PTL DEF ServingSpec, OnRecord

-----------------------------------------------------------------------------
(***************************************************************************)
(* The tuning record, over any number of commands, runs, upgrades and       *)
(* interruptions.                                                           *)
(***************************************************************************)

\* Among the initial segments 0..x of the elements one has no smaller one inside it, so a
\* set of natural numbers that is not empty has a smallest element.
LEMMA SmallestOf ==
    ASSUME NEW S, S \subseteq Nat, S # {}
    PROVE  Smallest(S) \in S /\ \A y \in S : Smallest(S) <= y
<1> DEFINE T == {0..x : x \in S}
<1>1. T \subseteq FiniteSubsetsOf(Nat) /\ T # {}
  <2>1. ASSUME NEW x \in S PROVE 0..x \in FiniteSubsetsOf(Nat)
    <3>1. x \in Int /\ 0..x \subseteq Nat
      OBVIOUS
    <3>. QED  BY <3>1, FS_Interval DEF FiniteSubsetsOf
  <2>. QED  BY <2>1
<1>2. PICK t \in T : \A u \in T : <<u, t>> \notin StrictSubsetOrdering(Nat)
  <2> HIDE DEF T
  <2>. QED  BY <1>1, WFMin, FS_StrictSubsetOrderingWellFounded
<1>3. PICK x \in S : t = 0..x
  BY <1>2
<1>4. \A y \in S : x <= y
  <2> SUFFICES ASSUME NEW y \in S, y < x PROVE FALSE
    OBVIOUS
  <2>1. 0..y \subseteq 0..x /\ x \in 0..x /\ x \notin 0..y /\ 0..x \subseteq Nat
    OBVIOUS
  <2>2. <<0..y, 0..x>> \in StrictSubsetOrdering(Nat)
    <3>1. 0..y \subseteq Nat /\ 0..y # 0..x
      BY <2>1
    <3>. QED  BY <2>1, <3>1 DEF StrictSubsetOrdering
  <2>3. 0..y \in T
    OBVIOUS
  <2>. QED  BY <1>2, <1>3, <2>2, <2>3
<1>. QED  BY <1>4 DEF Smallest

\* Those of the first n elements of s that are in P, for each n.
IsThose(s, P, f) ==
    f = [n \in 0..Len(s) |-> IF n = 0 THEN <<>>
                             ELSE IF s[n] \in P THEN Append(f[n - 1], s[n]) ELSE f[n - 1]]

\* Every sequence has them: a shortest one without would have a shorter beginning without.
LEMMA ThoseExist == \A S, P : \A s \in Seq(S) : \E f : IsThose(s, P, f)
<1> SUFFICES ASSUME NEW S, NEW P PROVE \A s \in Seq(S) : \E f : IsThose(s, P, f)
  OBVIOUS
<1> DEFINE Bad == {n \in Nat : \E s \in Seq(S) : Len(s) = n /\ \A f : ~IsThose(s, P, f)}
<1> SUFFICES ASSUME Bad # {} PROVE FALSE
  OBVIOUS
<1>1. PICK m \in Bad : \A n \in Bad : m <= n
  <2>1. Bad \subseteq Nat
    OBVIOUS
  <2> HIDE DEF Bad
  <2>. QED  BY <2>1, SmallestOf
<1>2. PICK s \in Seq(S) : Len(s) = m /\ \A f : ~IsThose(s, P, f)
  OBVIOUS
<1>3. CASE m = 0
  <2> DEFINE h == [n \in 0..0 |-> <<>>]
  <2>1. IsThose(s, P, h)
    BY <1>2, <1>3 DEF IsThose
  <2>. QED  BY <1>2, <2>1
<1>4. CASE m # 0
  <2> DEFINE t == [i \in 1..(m - 1) |-> s[i]]
  <2>1. m \in Nat /\ m - 1 \in Nat /\ m - 1 < m
    BY <1>4
  <2>2. t \in Seq(S) /\ Len(t) = m - 1 /\ \A i \in 1..(m - 1) : t[i] = s[i]
    BY <1>2, <2>1
  <2>3. m - 1 \notin Bad
    BY <1>1, <2>1
  <2> HIDE DEF t
  <2>4. PICK g : IsThose(t, P, g)
    BY <2>1, <2>2, <2>3
  <2>5. \A n \in 0..(m - 1) : g[n] = IF n = 0 THEN <<>>
                                     ELSE IF s[n] \in P THEN Append(g[n - 1], s[n]) ELSE g[n - 1]
    <3>1. \A n \in 0..(m - 1) : g[n] = IF n = 0 THEN <<>>
                                       ELSE IF t[n] \in P THEN Append(g[n - 1], t[n]) ELSE g[n - 1]
      BY <2>2, <2>4 DEF IsThose
    <3> TAKE n \in 0..(m - 1)
    <3>2. n # 0 => t[n] = s[n]
      BY <2>1, <2>2
    <3>. QED  BY <3>1, <3>2
  <2> DEFINE h == [n \in 0..m |-> IF n < m THEN g[n]
                                  ELSE IF s[m] \in P THEN Append(g[m - 1], s[m]) ELSE g[m - 1]]
  <2>6. \A n \in 0..m : h[n] = IF n = 0 THEN <<>>
                               ELSE IF s[n] \in P THEN Append(h[n - 1], s[n]) ELSE h[n - 1]
    <3> TAKE n \in 0..m
    <3>1. CASE n = 0
      BY <2>1, <2>5, <3>1
    <3>2. CASE n \in 1..(m - 1)
      <4>1. h[n] = g[n] /\ h[n - 1] = g[n - 1] /\ n \in 0..(m - 1) /\ n # 0
        BY <2>1, <3>2
      <4> HIDE DEF h
      <4>. QED  BY <2>5, <4>1
    <3>3. CASE n = m
      <4>1. h[m - 1] = g[m - 1] /\ h[m] = IF s[m] \in P THEN Append(g[m - 1], s[m]) ELSE g[m - 1]
        BY <2>1
      <4> HIDE DEF h
      <4>. QED  BY <2>1, <3>3, <4>1
    <3>. QED  BY <2>1, <3>1, <3>2, <3>3
  <2>7. h = [n \in 0..Len(s) |-> IF n = 0 THEN <<>>
                               ELSE IF s[n] \in P THEN Append(h[n - 1], s[n]) ELSE h[n - 1]]
    BY <1>2, <2>6
  <2> HIDE DEF h
  <2>8. IsThose(s, P, h)
    BY <2>7 DEF IsThose
  <2>. QED  BY <1>2, <2>8
<1>. QED  BY <1>3, <1>4

\* Those(s, P) holds what s has in P, and nothing else.
LEMMA ThoseOf ==
    ASSUME NEW S, NEW P, NEW s \in Seq(S)
    PROVE  /\ Those(s, P) \in Seq(S)
           /\ Range(Those(s, P)) = Range(s) \cap P
<1> DEFINE f == CHOOSE g : IsThose(s, P, g)
<1>1. IsThose(s, P, f) /\ Those(s, P) = f[Len(s)]
  <2>1. IsThose(s, P, f)
    BY ThoseExist
  <2>2. Those(s, P) = f[Len(s)]
    BY DEF Those, IsThose
  <2>. QED  BY <2>1, <2>2
<1> HIDE DEF f
<1>2. \A n \in 0..Len(s) : f[n] = IF n = 0 THEN <<>>
                                  ELSE IF s[n] \in P THEN Append(f[n - 1], s[n]) ELSE f[n - 1]
  BY <1>1 DEF IsThose
<1> DEFINE Good(n) == /\ f[n] \in Seq(S)
                      /\ Range(f[n]) = {s[i] : i \in 1..n} \cap P
           Bad == {n \in 0..Len(s) : ~Good(n)}
<1>3. Bad = {}
  <2> SUFFICES ASSUME Bad # {} PROVE FALSE
    OBVIOUS
  <2>1. PICK m \in Bad : \A n \in Bad : m <= n
    <3>1. Bad \subseteq Nat
      OBVIOUS
    <3> HIDE DEF Bad
    <3>. QED  BY <3>1, SmallestOf
  <2>2. CASE m = 0
    <3>1. f[0] = <<>>
      BY <1>2
    <3>2. Good(0)
      BY <3>1 DEF Range
    <3>. QED  BY <2>1, <2>2, <3>2
  <2>3. CASE m # 0
    <3>1. m \in 1..Len(s) /\ m \in Nat /\ m - 1 \in 0..Len(s) /\ m - 1 \notin Bad
      <4>1. Len(s) \in Nat /\ m \in 0..Len(s)
        BY <2>1
      <4>2. m \in 1..Len(s) /\ m \in Nat /\ m - 1 \in 0..Len(s) /\ ~(m <= m - 1)
        BY <2>3, <4>1
      <4> HIDE DEF Bad
      <4>. QED  BY <2>1, <4>2
    <3>2. Good(m - 1)
      BY <3>1
    <3>3. f[m] = IF s[m] \in P THEN Append(f[m - 1], s[m]) ELSE f[m - 1]
      BY <1>2, <3>1
    <3>4. {s[i] : i \in 1..m} = {s[i] : i \in 1..(m - 1)} \cup {s[m]}
      BY <3>1
    <3>5. s[m] \in S
      BY <3>1
    <3>6. Range(Append(f[m - 1], s[m])) = Range(f[m - 1]) \cup {s[m]}
      <4> DEFINE u == f[m - 1]
                 v == Append(u, s[m])
      <4>1. /\ u \in Seq(S) /\ DOMAIN u = 1..Len(u)
            /\ Len(v) = Len(u) + 1 /\ DOMAIN v = 1..(Len(u) + 1)
        BY <3>2, <3>5
      <4>2. v[Len(u) + 1] = s[m] /\ \A i \in 1..Len(u) : v[i] = u[i]
        BY <3>2, <3>5
      <4>3. Len(u) \in Nat
        BY <4>1
      <4> HIDE DEF u, v
      <4>4. 1..(Len(u) + 1) = 1..Len(u) \cup {Len(u) + 1}
        BY <4>3
      <4>5. Range(v) = Range(u) \cup {s[m]}
        BY <4>1, <4>2, <4>4 DEF Range
      <4>. QED  BY <4>5 DEF u, v
    <3>7. Good(m)
      BY <3>2, <3>3, <3>4, <3>5, <3>6
    <3>. QED  BY <2>1, <3>7
  <2>. QED  BY <2>2, <2>3
<1>4. Good(Len(s)) /\ Range(s) = {s[i] : i \in 1..Len(s)}
  BY <1>3 DEF Range
<1>. QED  BY <1>1, <1>4
\* A sequence, of whatever it holds.
IsSeq(s) == s \in Seq(Range(s))

\* What a step of the tuner may never do, of FinishedIsKept.
Kept ==
    (/\ completed # <<>> /\ disk # NONE
     /\ disk.status = "in_progress" /\ disk'.status = "in_progress") =>
        Range(Usable(disk.evals)) \subseteq Range(disk'.evals)

\* While a run that was resumed goes on, what the record holds of today's engine has been
\* taken over or is among the evaluations of the run.
RecordInv ==
    /\ IsSeq(completed) /\ IsSeq(evaluations) /\ (disk # NONE => IsSeq(disk.evals))
    /\ ~Running => step = "open" /\ todo = <<>>
    /\ Running /\ completed # <<>> /\ disk # NONE /\ disk.status = "in_progress" =>
          Range(Usable(disk.evals)) \subseteq Range(completed) \cup Range(evaluations)

\* A concatenation holds what its parts hold.
LEMMA RangeOfConcat ==
    ASSUME NEW s, NEW t, IsSeq(s), IsSeq(t)
    PROVE  IsSeq(s \o t) /\ Range(s \o t) = Range(s) \cup Range(t)
<1> DEFINE u == s \o t
           m == Len(s)
           n == Len(t)
<1>1. m \in Nat /\ n \in Nat /\ DOMAIN s = 1..m /\ DOMAIN t = 1..n
  BY DEF IsSeq
<1>2. u \in Seq(Range(s) \cup Range(t)) /\ Len(u) = m + n
  BY DEF IsSeq
<1>3. /\ \A i \in 1..m : u[i] = s[i]
      /\ \A i \in 1..n : u[m + i] = t[i]
  BY <1>1 DEF IsSeq
<1>4. DOMAIN u = 1..(m + n)
  BY <1>2
<1> HIDE DEF u, m, n
<1>5. Range(u) \subseteq Range(s) \cup Range(t)
  BY <1>2, <1>4 DEF Range
<1>6. ASSUME NEW i \in 1..m PROVE s[i] \in Range(u)
  <2>1. i \in 1..(m + n)
    BY <1>1
  <2>. QED  BY <1>3, <1>4, <2>1 DEF Range
<1>7. ASSUME NEW i \in 1..n PROVE t[i] \in Range(u)
  <2>1. m + i \in 1..(m + n)
    BY <1>1
  <2>. QED  BY <1>3, <1>4, <2>1 DEF Range
<1>8. Range(u) = Range(s) \cup Range(t)
  BY <1>1, <1>5, <1>6, <1>7 DEF Range
<1>. QED  BY <1>2, <1>8 DEF IsSeq, u

\* An appended element is all that is new.
LEMMA RangeOfAppend ==
    ASSUME NEW s, NEW e, IsSeq(s)
    PROVE  IsSeq(Append(s, e)) /\ Range(Append(s, e)) = Range(s) \cup {e}
<1>1. IsSeq(<<e>>) /\ Range(<<e>>) = {e}
  BY DEF IsSeq, Range
<1>2. Append(s, e) = s \o <<e>>
  BY DEF IsSeq
<1>. QED  BY <1>1, <1>2, RangeOfConcat

\* Those(s, P) is a sequence of what is in P.
LEMMA ThoseIsSeq ==
    ASSUME NEW s, NEW P, IsSeq(s)
    PROVE  IsSeq(Those(s, P)) /\ Range(Those(s, P)) = Range(s) \cap P
<1> DEFINE t == Those(s, P)
<1>1. t \in Seq(Range(s)) /\ Range(t) = Range(s) \cap P
  BY ThoseOf DEF IsSeq
<1> HIDE DEF t
<1>2. t \in Seq(Range(t))
  <2>1. \A i \in 1..Len(t) : t[i] \in Range(t)
    BY <1>1 DEF Range
  <2>2. t = [i \in 1..Len(t) |-> t[i]] /\ Len(t) \in Nat
    BY <1>1
  <2>. QED  BY <2>1, <2>2
<1>. QED  BY <1>1, <1>2 DEF IsSeq, t

\* What a resumed run takes over was in the record.
LEMMA UsableIsOf ==
    ASSUME NEW s, IsSeq(s)
    PROVE  IsSeq(Usable(s)) /\ Range(Usable(s)) \subseteq Range(s)
<1>1. IsSeq(Finished(s)) /\ Range(Finished(s)) \subseteq Range(s)
  BY ThoseIsSeq DEF Finished
<1>. QED  BY <1>1, ThoseIsSeq DEF Usable

\* A record that is saved holds what was taken over and all evaluations since.
LEMMA KeepIsAll ==
    ASSUME NEW s, IsSeq(s), IsSeq(completed)
    PROVE  IsSeq(Keep(s)) /\ Range(Keep(s)) = Range(completed) \cup Range(s)
<1> DEFINE t == Those(s, Range(s) \ Range(completed))
<1>1. IsSeq(t) /\ Range(t) = Range(s) \ Range(completed)
  BY ThoseIsSeq
<1>2. Keep(s) = completed \o t
  BY DEF Keep
<1> HIDE DEF t
<1>3. IsSeq(completed \o t) /\ Range(completed \o t) = Range(completed) \cup Range(t)
  BY <1>1, RangeOfConcat
<1>. QED  BY <1>1, <1>2, <1>3

\* A step that leaves the record and the run alone.
LEMMA QuietKeeps ==
    ASSUME RecordInv, UNCHANGED <<disk, completed, env>>,
           IsSeq(evaluations'), Range(evaluations) \subseteq Range(evaluations'),
           Running' => Running,
           ~Running' => step' = "open" /\ todo' = <<>>
    PROVE  RecordInv' /\ Kept
<1>1. IsSeq(completed') /\ (disk' # NONE => IsSeq(disk'.evals))
  BY DEF RecordInv, IsSeq
<1>3. Usable(disk.evals)' = Usable(disk.evals)
  BY DEF Usable, Finished
<1>4. disk # NONE => Range(Usable(disk.evals)) \subseteq Range(disk.evals)
  BY UsableIsOf DEF RecordInv
<1>. QED  BY <1>1, <1>3, <1>4 DEF RecordInv, Kept, IsSeq

\* An evaluation is saved behind what was taken over and the evaluations before it.
LEMMA RecordKeeps ==
    ASSUME RecordInv, Running, Running', UNCHANGED <<completed, env>>, NEW e,
           evaluations' = Append(evaluations, e), disk'.evals = Keep(Append(evaluations, e))
    PROVE  RecordInv' /\ Kept
<1> DEFINE new == Append(evaluations, e)
<1>1. evaluations' = new /\ disk'.evals = Keep(new)
  OBVIOUS
<1>2. IsSeq(new) /\ Range(new) = Range(evaluations) \cup {e}
  BY RangeOfAppend DEF RecordInv
<1> HIDE DEF new
<1>3. IsSeq(Keep(new)) /\ Range(Keep(new)) = Range(completed) \cup Range(new)
  BY <1>2, KeepIsAll DEF RecordInv
<1>4. Range(Usable(Keep(new))) \subseteq Range(Keep(new))
  BY <1>3, UsableIsOf
<1>5. Usable(disk.evals)' = Usable(Keep(new))
  BY <1>1 DEF Usable, Finished
<1>6. Kept
  BY <1>1, <1>2, <1>3 DEF Kept, RecordInv
<1>. QED  BY <1>1, <1>2, <1>3, <1>4, <1>5, <1>6 DEF RecordInv, IsSeq

\* A run ends with what was taken over and its evaluations in the record.
LEMMA EndOfRunKeeps ==
    RecordInv /\ Running /\ End /\ disk'.evals = Keep(evaluations) => RecordInv' /\ Kept
<1> SUFFICES ASSUME RecordInv, Running, End, disk'.evals = Keep(evaluations)
             PROVE  RecordInv' /\ Kept
  OBVIOUS
<1>1. /\ IsSeq(Keep(evaluations))
      /\ Range(Keep(evaluations)) = Range(completed) \cup Range(evaluations)
  BY KeepIsAll DEF RecordInv
<1>2. UNCHANGED <<completed, evaluations, env>>
  BY DEF End
<1>3. ~Running' /\ step' = "open" /\ todo' = <<>>
  BY DEF End, Running
<1>4. RecordInv'
  BY <1>1, <1>2, <1>3 DEF RecordInv, IsSeq
<1>5. Kept
  BY <1>1, <1>2 DEF RecordInv, Kept
<1>. QED  BY <1>4, <1>5

\* At first there is no record.
LEMMA RecordInit == ServingInit => RecordInv
<1>. QED
  BY DEF ServingInit, TunerInit, RecordInv, IsSeq, Running, Range

\* A resumed run takes over all of today's engine; another one takes over nothing.
LEMMA BeginOfRunKeeps ==
    ASSUME RecordInv, NEW o, NEW resume, Begin(o, resume)
    PROVE  RecordInv' /\ Kept
<1>1. ~Running /\ Running' /\ UNCHANGED <<disk, env>> /\ evaluations' = <<>>
  BY DEF Begin, Running
<1>2. completed' = Usable(disk.evals) \/ completed' = <<>>
  BY DEF Begin
<1>3. disk # NONE =>
         /\ Range(Usable(disk.evals)) \subseteq Range(disk.evals)
         /\ IsSeq(Usable(disk.evals))
  BY UsableIsOf DEF RecordInv
<1>4. completed' = <<>> \/ (disk # NONE /\ completed' = Usable(disk.evals))
  BY DEF Begin
<1>5. IsSeq(<<>>)
  BY DEF IsSeq
<1>6. Usable(disk.evals)' = Usable(disk.evals)
  BY <1>1 DEF Usable, Finished
<1>. QED  BY <1>1, <1>3, <1>4, <1>5, <1>6 DEF RecordInv, Kept, IsSeq

\* Every step of the stages saves an evaluation, ends the run or leaves the record alone.
LEMMA StagesKeep == RecordInv /\ Stages => RecordInv' /\ Kept
<1> SUFFICES ASSUME RecordInv, Stages PROVE RecordInv' /\ Kept
  OBVIOUS
<1> DEFINE Quiet == UNCHANGED <<disk, completed, env, evaluations>>
<1>a. ASSUME Quiet, Running, Running' PROVE RecordInv' /\ Kept
  BY <1>a, QuietKeeps DEF RecordInv, IsSeq
<1>b. ASSUME NEW e, evaluations' = Append(evaluations, e),
             disk'.evals = Keep(Append(evaluations, e)),
             UNCHANGED <<completed, env>>, Running, Running'
      PROVE  RecordInv' /\ Kept
  BY <1>b, RecordKeeps
<1>c. MustLaunch \/ step # "open" => Running
  BY DEF MustLaunch, RecordInv
<1>1. CASE Interrupted
  BY <1>1, EndOfRunKeeps DEF Interrupted, EndEarly, Save
<1>2. CASE Killed
  <2>1. /\ UNCHANGED <<disk, completed, env, evaluations>>
        /\ ~Running' /\ step' = "open" /\ todo' = <<>>
    BY <1>2 DEF Killed, End, Running
  <2>. QED  BY <2>1, QuietKeeps DEF RecordInv, IsSeq
<1>3. CASE CloseOther \/ Open
  BY <1>3, <1>a, <1>c DEF CloseOther, Open, Running
<1>4. CASE CloseFails
  BY <1>4, EndOfRunKeeps DEF CloseFails, EndEarly, Save
<1>5. CASE OpenFails
  BY <1>5, <1>b, <1>c DEF OpenFails, Record, Save, Running
<1>6. CASE Close
  BY <1>6, <1>a, <1>c DEF Close, Running
<1>7. CASE ReusePrior
  <2>1. PICK e : evaluations' = Append(evaluations, e)
    BY <1>7 DEF ReusePrior
  <2>2. IsSeq(evaluations') /\ Range(evaluations) \subseteq Range(evaluations')
    BY <2>1, RangeOfAppend DEF RecordInv
  <2>3. Running /\ Running' /\ UNCHANGED <<disk, completed, env>>
    BY <1>7 DEF ReusePrior, Running
  <2>. QED  BY <2>2, <2>3, QuietKeeps
<1>8. CASE MeasureA
  BY <1>8, <1>b DEF MeasureA, Record, Save, Running
<1>9. CASE EndA
  <2>1. CASE NoViablePlan
    BY <1>9, <2>1, EndOfRunKeeps DEF NoViablePlan, Save, EndA, Running
  <2>2. CASE ~NoViablePlan
    <3>1. stage = "A" /\ stage' = "B" /\ Quiet
      BY <1>9, <2>2 DEF EndA
    <3>. QED  BY <3>1, <1>a DEF Running
  <2>. QED  BY <2>1, <2>2
<1>10. CASE MeasureB
  BY <1>10, <1>a, <1>b DEF MeasureB, Swept, Record, Save, Running
<1>11. CASE Refine
  BY <1>11, <1>a, <1>b DEF Refine, Swept, Record, Save, Running
<1>12. CASE EndB
  <2>1. CASE NoViablePlan
    BY <1>12, <2>1, EndOfRunKeeps DEF NoViablePlan, Save, EndB, Running
  <2>2. CASE ~NoViablePlan
    <3>1. stage = "B" /\ stage' \in {"C", "D"} /\ Quiet
      BY <1>12, <2>2 DEF EndB
    <3>. QED  BY <3>1, <1>a DEF Running
  <2>. QED  BY <2>1, <2>2
<1>13. CASE MeasureC
  BY <1>13, <1>a, <1>b DEF MeasureC, Record, Save, Running
<1>14. CASE MeasureD
  BY <1>14, <1>b DEF MeasureD, Record, Save, Running
<1>. QED
  BY <1>1, <1>2, <1>3, <1>4, <1>5, <1>6, <1>7, <1>8, <1>9, <1>10, <1>11, <1>12, <1>13, <1>14
     DEF Stages
\* So does every step of the tuner, and what changes between two runs is not in the record.
LEMMA TunerKeeps == RecordInv /\ [TunerNext]_tunerVars => RecordInv' /\ Kept
<1> SUFFICES ASSUME RecordInv, [TunerNext]_tunerVars PROVE RecordInv' /\ Kept
  OBVIOUS
<1>1. CASE UNCHANGED tunerVars
  <2>1. UNCHANGED <<disk, completed, env, evaluations, stage, step, todo>>
    BY <1>1 DEF tunerVars
  <2>. QED  BY <2>1, QuietKeeps DEF RecordInv, IsSeq, Running
<1>2. CASE \E o \in Options, resume \in BOOLEAN : Begin(o, resume)
  BY <1>2, BeginOfRunKeeps
<1>3. CASE EnvironmentChanges
  <2>1. UNCHANGED <<disk, completed, evaluations, stage, step, todo>> /\ ~Running
    BY <1>3 DEF EnvironmentChanges
  <2>2. disk # NONE => Range(Usable(disk.evals)) \subseteq Range(disk.evals)
    BY UsableIsOf DEF RecordInv
  <2>. QED  BY <2>1, <2>2 DEF RecordInv, Kept, IsSeq, Running
<1>4. CASE Stages
  BY <1>4, StagesKeep
<1>5. CASE Complete
  <2>1. /\ disk'.status = "complete" /\ disk'.evals = evaluations
        /\ UNCHANGED <<completed, evaluations>>
        /\ ~Running' /\ step' = "open" /\ todo' = <<>>
    BY <1>5 DEF Complete, Save, End, Running
  <2>. QED  BY <2>1 DEF RecordInv, Kept, IsSeq
<1>. QED  BY <1>1, <1>2, <1>3, <1>4, <1>5 DEF TunerNext

\* To the tuner, a step of a command is one of its own or none.
LEMMA CommandsTune == [ServingNext]_<<tunerVars, serving>> => [TunerNext]_tunerVars
<1> SUFFICES ASSUME [ServingNext]_<<tunerVars, serving>> PROVE [TunerNext]_tunerVars
  OBVIOUS
<1>1. CASE UNCHANGED <<tunerVars, serving>>
  BY <1>1
<1>2. ASSUME NEW o \in Options, NEW resume \in BOOLEAN, Tune(o, resume) \/ Serve(o, resume)
      PROVE  [TunerNext]_tunerVars
  BY <1>2 DEF Tune, Serve, Select, TunerNext
<1>3. CASE Stage \/ Tuned \/ Change
  BY <1>3 DEF Stage, Tuned, Change, TunerNext
<1>4. CASE ServeThere \/ ReadState \/ ClearStale
  BY <1>4 DEF ServeThere, ReadState, ClearStale
<1>5. ASSUME NEW d \in Shells,
             \/ Launch(d) \/ WriteState(d) \/ Leave(d)
             \/ Clear(d) \/ WriteLate(d) \/ Exit(d)
      PROVE  [TunerNext]_tunerVars
  BY <1>5 DEF Launch, WriteState, Leave, Clear, WriteLate, Exit
<1>. QED  BY <1>1, <1>2, <1>3, <1>4, <1>5 DEF ServingNext

\* tune and serve use the tuner as run_tune does: whatever the commands of both terminals do,
\* its record, its stages and the environment change only by steps of Tuning.
THEOREM CommandsRunTheTuner == ServingSpec => TunerSpec
<1>1. ServingInit => TunerInit
  BY DEF ServingInit
<1>. QED  BY <1>1, CommandsTune, PTL DEF ServingSpec, TunerSpec

\* However often a tuning is interrupted, killed or resumed, by tune or by serve, what the
\* installed engine has finished stays in the record while that is in progress.
THEOREM FinishedIsAlwaysKept == ServingSpec => FinishedIsKept
<1>1. RecordInv /\ [ServingNext]_<<tunerVars, serving>> => RecordInv'
  BY CommandsTune, TunerKeeps
<1>2. RecordInv /\ [ServingNext]_<<tunerVars, serving>> => Kept
  BY CommandsTune, TunerKeeps
<1>. QED  BY <1>1, <1>2, RecordInit, PTL DEF ServingSpec, FinishedIsKept, Kept
=============================================================================
