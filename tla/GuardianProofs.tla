--------------------------- MODULE GuardianProofs ---------------------------
(***************************************************************************)
(* For a pipe of any capacity and a lease of any length: the guardian's     *)
(* variables keep their types, the pipe never holds more than it can, and   *)
(* a controller that has the guardian's word for it may reuse the GPUs.     *)
(***************************************************************************)
EXTENDS Guardian, SequenceTheorems, TLAPS

\* "exited" is on its way to the controller.
OnItsWay == \E i \in DOMAIN pipe : pipe[i] = "exited"

\* How much of the engine is left, by what the guardian has done.
WorkDone ==
    /\ main = "launching" => engine = "none" /\ ~group /\ ~container
    /\ main \in {"sweeping", "removing", "reporting", "done"} => engine # "running"
    /\ main \in {"removing", "reporting", "done"} => ~group
    /\ main \in {"reporting", "done"} => (container => Preserve /\ engine = "succeeded")

\* The guardian says that it is over only when it is.
LastWord == OnItsWay \/ code = "guardian" => main = "done"

IInv == TypeOK /\ WorkDone /\ LastWord

\* The shape of TypeOK without the pipe and the numbers.
Shape ==
    /\ handle \in {"starting", "up", "stopping", "closed"}
    /\ code \in {"none", "guardian", "client"}
    /\ link \in {"open", "stalled", "cut"}
    /\ main \in {"launching", "watching", "expiring", "killing", "sweeping", "removing",
                 "reporting", "done"}
    /\ stopped \in BOOLEAN
    /\ lock \in Writers \cup {"free"}
    /\ readers \in [Streams -> {"reading", "emitting", "ended"}]
    /\ engine \in {"none", "running", "failed", "succeeded"}
    /\ group \in BOOLEAN /\ container \in BOOLEAN

PipeOK == pipe \in Seq({"started", "log", "exited"}) /\ Len(pipe) <= PipeCapacity
AgeOK  == age \in 0..(LeasePeriods + 1)

\* TypeOK, in parts.
LEMMA Parts == TypeOK <=> Shape /\ PipeOK /\ AgeOK
BY DEF TypeOK, Shape, PipeOK, AgeOK

\* A line written to the pipe: it has room, and only its own kind is new in it.
LEMMA WriteFacts ==
    ASSUME PipeOK, stopped \in BOOLEAN, NEW e \in {"started", "log", "exited"}, Write(e)
    PROVE  PipeOK' /\ stopped' \in BOOLEAN /\ (OnItsWay' => OnItsWay \/ e = "exited")
<1>1. CASE UNCHANGED pipe /\ stopped' = TRUE
  BY <1>1 DEF PipeOK, OnItsWay
<1>2. CASE Len(pipe) < PipeCapacity /\ pipe' = Append(pipe, e) /\ UNCHANGED stopped
  <2>1. pipe \in Seq({"started", "log", "exited"}) /\ Len(pipe) \in Nat
    BY LenProperties DEF PipeOK
  <2>2. /\ pipe' \in Seq({"started", "log", "exited"}) /\ Len(pipe') = Len(pipe) + 1
        /\ \A i \in 1..Len(pipe) : pipe'[i] = pipe[i]
        /\ pipe'[Len(pipe) + 1] = e
    BY <1>2, <2>1, AppendProperties
  <2>3. DOMAIN pipe = 1..Len(pipe) /\ DOMAIN pipe' = 1..(Len(pipe) + 1)
    BY <2>1, <2>2, LenProperties
  <2>4. PipeOK'
    BY <1>2, <2>1, <2>2, GuardianAssumption DEF PipeOK
  <2>5. ASSUME NEW i \in DOMAIN pipe', pipe'[i] = "exited"
        PROVE  OnItsWay \/ e = "exited"
    <3>1. i \in 1..Len(pipe) \/ i = Len(pipe) + 1
      BY <2>1, <2>3
    <3>. QED  BY <2>2, <2>3, <2>5, <3>1 DEF OnItsWay
  <2>. QED  BY <1>2, <2>4, <2>5 DEF OnItsWay
<1>. QED  BY <1>1, <1>2 DEF Write

\* What the controller reads leaves the pipe and brings nothing new.
LEMMA TailFacts ==
    ASSUME PipeOK, pipe # << >>, pipe' = Tail(pipe)
    PROVE  PipeOK' /\ (OnItsWay' => OnItsWay) /\ (Head(pipe) = "exited" => OnItsWay)
<1>1. pipe \in Seq({"started", "log", "exited"}) /\ Len(pipe) \in Nat /\ Len(pipe) # 0
  BY LenProperties, EmptySeq DEF PipeOK
<1>2. /\ pipe' \in Seq({"started", "log", "exited"}) /\ Len(pipe') = Len(pipe) - 1
      /\ \A i \in 1..Len(pipe') : pipe'[i] = pipe[i + 1]
  BY <1>1, HeadTailProperties
<1>3. DOMAIN pipe = 1..Len(pipe) /\ DOMAIN pipe' = 1..(Len(pipe) - 1)
  BY <1>1, <1>2, LenProperties
<1>4. PipeOK'
  BY <1>1, <1>2, GuardianAssumption DEF PipeOK
<1>5. ASSUME NEW i \in DOMAIN pipe', pipe'[i] = "exited"
      PROVE  OnItsWay
  <2>1. i + 1 \in DOMAIN pipe /\ pipe[i + 1] = "exited"
    BY <1>1, <1>2, <1>3, <1>5
  <2>. QED  BY <2>1 DEF OnItsWay
<1>6. 1 \in DOMAIN pipe /\ Head(pipe) = pipe[1]
  BY <1>1, <1>3
<1>. QED  BY <1>4, <1>5, <1>6 DEF OnItsWay

\* The guardian and its controller as they start.
LEMMA InitEstablishes == Init => IInv
<1> SUFFICES ASSUME Init PROVE IInv
  OBVIOUS
<1>1. Shape
  BY DEF Init, Shape, Writers, Streams
<1>2. pipe = << >> /\ DOMAIN pipe = {} /\ Len(pipe) = 0
  BY DEF Init
<1>3. PipeOK
  BY <1>2, EmptySeq, GuardianAssumption DEF PipeOK
<1>4. AgeOK
  BY GuardianAssumption DEF Init, AgeOK
<1>5. WorkDone /\ LastWord
  BY <1>2 DEF Init, WorkDone, LastWord, OnItsWay
<1>. QED  BY <1>1, <1>3, <1>4, <1>5, Parts DEF IInv

\* The pipe, whether "exited" is in it, and the age, after any step.
LEMMA PipeKept ==
    ASSUME IInv, [Next]_vars
    PROVE  /\ PipeOK' /\ AgeOK'
           /\ OnItsWay' => OnItsWay \/ Report
<1>. USE DEF vars, controllerVars, guardianVars, nodeVars
<1>1. PipeOK /\ AgeOK /\ stopped \in BOOLEAN
  BY Parts DEF IInv, Shape
<1>2. ASSUME UNCHANGED pipe PROVE PipeOK' /\ (OnItsWay' => OnItsWay)
  BY <1>1, <1>2 DEF PipeOK, OnItsWay
<1>3. ASSUME UNCHANGED age PROVE AgeOK'
  BY <1>1, <1>3 DEF AgeOK
<1>4. CASE Launch
  BY <1>1, <1>3, <1>4, WriteFacts DEF Launch
<1>5. CASE SayExpired
  BY <1>1, <1>3, <1>5, WriteFacts DEF SayExpired
<1>6. CASE Report
  BY <1>1, <1>3, <1>6, WriteFacts DEF Report
<1>7. CASE \E s \in Streams : Log(s)
  BY <1>1, <1>2, <1>3, <1>7, WriteFacts DEF Log, ReadLog, Forward, EndOfLog
<1>8. CASE Receive
  BY <1>1, <1>3, <1>8, TailFacts DEF Receive
<1>9. CASE Silence
  <2>1. AgeOK'
    BY <1>1, <1>9, GuardianAssumption DEF Silence, LeaseIsOver, AgeOK
  <2>. QED  BY <1>2, <1>9, <2>1 DEF Silence
<1>10. CASE ReadHeartbeat
  <2>1. AgeOK'
    BY <1>10, GuardianAssumption DEF ReadHeartbeat, AgeOK
  <2>. QED  BY <1>2, <1>10, <2>1 DEF ReadHeartbeat
<1>11. CASE Disconnect
  <2>1. CASE pipe' = << >>
    <3>1. DOMAIN pipe' = {} /\ Len(pipe') = 0
      BY <2>1
    <3>2. PipeOK' /\ ~OnItsWay'
      BY <2>1, <3>1, EmptySeq, GuardianAssumption DEF PipeOK, OnItsWay
    <3>. QED  BY <1>3, <1>11, <3>2 DEF Disconnect
  <2>. QED  BY <1>2, <1>3, <1>11, <2>1 DEF Disconnect
<1>12. CASE LaunchFails \/ ReadStop \/ LeaveLoop \/ LeaseExpires \/ KillEngine \/ Sweep \/ Remove
            \/ Terminate \/ WaitReturns \/ StopClient \/ NoticeLoss
            \/ ControllerDies \/ Stall \/ Heal \/ EngineExits
            \/ (\E w \in Writers : TakeLock(w)) \/ UNCHANGED vars
  <2>1. UNCHANGED <<pipe, age>>
    BY <1>12 DEF LaunchFails, ReadStop, LeaveLoop, LeaseExpires, KillEngine, Sweep, Remove,
                 Terminate, WaitReturns, StopClient, NoticeLoss, ControllerDies, Stall, Heal,
                 EngineExits, TakeLock
  <2>. QED  BY <1>2, <1>3, <2>1
<1>. QED
  BY <1>4, <1>5, <1>6, <1>7, <1>8, <1>9, <1>10, <1>11, <1>12
     DEF Next, Watch, Kill, Controller, World

\* Everything else keeps its shape, and the guardian's word stays true: a step of the
\* guardian's threads.
LEMMA GuardianKeepsWord ==
    ASSUME IInv, Watch \/ Kill \/ (\E s \in Streams : Log(s)) \/ (\E w \in Writers : TakeLock(w)),
           OnItsWay' => OnItsWay \/ Report
    PROVE  Shape' /\ WorkDone' /\ LastWord'
<1>. USE DEF controllerVars, guardianVars, nodeVars
<1>1. Shape /\ WorkDone /\ LastWord /\ PipeOK /\ stopped \in BOOLEAN
  BY Parts DEF IInv, Shape
<1>2. ASSUME NEW e \in {"started", "log", "exited"}, Write(e) PROVE stopped' \in BOOLEAN
  BY <1>1, <1>2, WriteFacts
<1>3. CASE Launch
  <2>1. stopped' \in BOOLEAN
    BY <1>2, <1>3 DEF Launch
  <2>. QED  BY <1>1, <1>3, <2>1 DEF Launch, Report, Shape, WorkDone, LastWord
<1>4. CASE LaunchFails
  BY <1>1, <1>4 DEF LaunchFails, Report, Shape, WorkDone, LastWord
<1>5. CASE ReadHeartbeat
  BY <1>1, <1>5 DEF ReadHeartbeat, Report, Shape, WorkDone, LastWord
<1>6. CASE ReadStop \/ LeaveLoop \/ LeaseExpires
  BY <1>1, <1>6 DEF ReadStop, LeaveLoop, LeaseExpires, Report, Shape, WorkDone, LastWord
<1>7. CASE SayExpired
  <2>1. stopped' \in BOOLEAN
    BY <1>2, <1>7 DEF SayExpired
  <2>. QED  BY <1>1, <1>7, <2>1 DEF SayExpired, Report, Shape, WorkDone, LastWord
<1>8. CASE KillEngine
  BY <1>1, <1>8 DEF KillEngine, Report, Shape, WorkDone, LastWord
<1>9. CASE Sweep
  BY <1>1, <1>9 DEF Sweep, Report, Shape, WorkDone, LastWord
<1>10. CASE Remove
  BY <1>1, <1>10, GuardianAssumption DEF Remove, Keeps, Report, Shape, WorkDone, LastWord
<1>11. CASE Report
  <2>1. stopped' \in BOOLEAN
    BY <1>2, <1>11 DEF Report
  <2>. QED  BY <1>1, <1>11, <2>1 DEF Report, Shape, WorkDone, LastWord
<1>12. ASSUME NEW s \in Streams, Log(s) PROVE Shape' /\ WorkDone' /\ LastWord'
  <2>1. stopped' \in BOOLEAN
    BY <1>1, <1>2, <1>12 DEF Log, ReadLog, Forward, EndOfLog
  <2>2. UNCHANGED <<handle, code, link, main, engine, group, container>>
    BY <1>12 DEF Log, ReadLog, Forward, EndOfLog
  <2>3. ~Report
    BY <2>2 DEF Report
  <2>4. lock' \in Writers \cup {"free"}
    BY <1>1, <1>12 DEF Log, ReadLog, Forward, EndOfLog, Shape
  <2>5. readers' \in [Streams -> {"reading", "emitting", "ended"}]
    BY <1>1, <1>12 DEF Log, ReadLog, Forward, EndOfLog, Shape
  <2>. QED  BY <1>1, <2>1, <2>2, <2>3, <2>4, <2>5 DEF Shape, WorkDone, LastWord
<1>13. ASSUME NEW w \in Writers, TakeLock(w) PROVE Shape' /\ WorkDone' /\ LastWord'
  BY <1>1, <1>13 DEF TakeLock, Report, Shape, WorkDone, LastWord
<1>. QED
  BY <1>3, <1>4, <1>5, <1>6, <1>7, <1>8, <1>9, <1>10, <1>11, <1>12, <1>13 DEF Watch, Kill

\* The same of a step of the controller or of the world, and of no step.
LEMMA OthersKeepWord ==
    ASSUME IInv, Controller \/ World \/ UNCHANGED vars, OnItsWay' => OnItsWay \/ Report
    PROVE  Shape' /\ WorkDone' /\ LastWord'
<1>. USE DEF vars, controllerVars, guardianVars, nodeVars
<1>1. Shape /\ WorkDone /\ LastWord /\ PipeOK
  BY Parts DEF IInv
<1>2. ASSUME UNCHANGED main PROVE OnItsWay' => OnItsWay
  BY <1>1, <1>2 DEF Report
<1>3. CASE Receive
  <2>1. Head(pipe) = "exited" => OnItsWay
    BY <1>1, <1>3, TailFacts DEF Receive
  <2>2. code' = "guardian" => code = "guardian" \/ OnItsWay
    BY <1>3, <2>1 DEF Receive
  <2>. QED  BY <1>1, <1>2, <1>3, <2>2 DEF Receive, Shape, WorkDone, LastWord
<1>4. CASE Terminate \/ WaitReturns \/ StopClient \/ NoticeLoss
  BY <1>1, <1>2, <1>4 DEF Terminate, WaitReturns, StopClient, NoticeLoss, CodeOfClient, Shape,
                          WorkDone, LastWord
<1>5. CASE ControllerDies \/ Disconnect \/ Stall \/ Heal \/ Silence
  BY <1>1, <1>2, <1>5 DEF ControllerDies, Disconnect, Stall, Heal, Silence, Shape, WorkDone,
                          LastWord
<1>6. CASE EngineExits
  BY <1>1, <1>2, <1>6 DEF EngineExits, Shape, WorkDone, LastWord
<1>7. CASE UNCHANGED vars
  BY <1>1, <1>2, <1>7 DEF Shape, WorkDone, LastWord
<1>. QED  BY <1>3, <1>4, <1>5, <1>6, <1>7 DEF Controller, World

\* Every step keeps the invariant.
LEMMA NextKeeps == IInv /\ [Next]_vars => IInv'
<1> SUFFICES ASSUME IInv, [Next]_vars PROVE IInv'
  OBVIOUS
<1>1. PipeOK' /\ AgeOK' /\ (OnItsWay' => OnItsWay \/ Report)
  BY PipeKept
<1>2. Shape' /\ WorkDone' /\ LastWord'
  <2>1. CASE Watch \/ Kill \/ (\E s \in Streams : Log(s)) \/ (\E w \in Writers : TakeLock(w))
    BY <1>1, <2>1, GuardianKeepsWord
  <2>2. CASE Controller \/ World \/ UNCHANGED vars
    BY <1>1, <2>2, OthersKeepWord
  <2>. QED  BY <2>1, <2>2 DEF Next
<1>3. TypeOK'
  BY <1>1, <1>2 DEF TypeOK, Shape, PipeOK, AgeOK
<1>. QED  BY <1>2, <1>3 DEF IInv

-----------------------------------------------------------------------------
(* The lock of emit() *)

\* The lock is held by a thread that has a line to write, and by nobody else.
LockInUse == \A w \in Writers : lock = w => Wants(w)

\* The threads start with the engine.
NotYet ==
    main = "launching" => lock = "free" /\ \A s \in Streams : readers[s] = "ended"

LInv == IInv /\ LockInUse /\ NotYet

\* A thread that holds the lock keeps it until it has written, and nobody else takes it.
LEMMA LockKept == LInv /\ [Next]_vars => LInv'
<1> SUFFICES ASSUME LInv, [Next]_vars PROVE LInv'
  OBVIOUS
<1>. USE DEF vars, controllerVars, guardianVars, nodeVars
<1>1. /\ IInv' /\ LockInUse /\ NotYet /\ lock \in Writers \cup {"free"}
      /\ readers \in [Streams -> {"reading", "emitting", "ended"}]
  BY NextKeeps DEF LInv, IInv, TypeOK
<1> SUFFICES LockInUse' /\ NotYet'
  BY <1>1 DEF LInv
<1>2. CASE Launch
  <2>1. lock' = "free" /\ main' = "watching"
    BY <1>1, <1>2 DEF Launch, NotYet
  <2>. QED  BY <2>1 DEF LockInUse, NotYet, Writers, Streams
<1>3. CASE LaunchFails \/ ReadHeartbeat \/ ReadStop \/ LeaveLoop \/ LeaseExpires
            \/ KillEngine \/ Sweep \/ Remove
  <2>1. /\ main \notin {"expiring", "reporting"} /\ main' # "launching"
        /\ UNCHANGED <<lock, readers>>
    BY <1>3 DEF LaunchFails, ReadHeartbeat, ReadStop, LeaveLoop, LeaseExpires, KillEngine,
                Sweep, Remove
  <2>. QED  BY <1>1, <2>1 DEF LockInUse, NotYet, Wants
<1>4. CASE SayExpired \/ Report
  <2>1. lock' = "free" /\ main' # "launching"
    BY <1>4 DEF SayExpired, Report
  <2>. QED  BY <2>1 DEF LockInUse, NotYet, Writers, Streams
<1>5. ASSUME NEW s \in Streams, Log(s) PROVE LockInUse' /\ NotYet'
  <2>1. readers[s] # "ended" /\ UNCHANGED main
    BY <1>5 DEF Log, ReadLog, Forward, EndOfLog
  <2>2. main # "launching" /\ NotYet'
    BY <1>1, <2>1 DEF NotYet
  <2>3. CASE Forward(s)
    <3>1. lock' = "free"
      BY <2>3 DEF Forward
    <3>. QED  BY <2>2, <3>1 DEF LockInUse, Writers, Streams
  <2>4. CASE ReadLog(s) \/ EndOfLog(s)
    <3>1. readers[s] # "emitting" /\ UNCHANGED lock
      BY <2>4 DEF ReadLog, EndOfLog
    <3>2. \A t \in Streams : readers[t] = "emitting" => readers'[t] = "emitting"
      BY <1>1, <2>4, <3>1 DEF ReadLog, EndOfLog
    <3>. QED  BY <1>1, <2>1, <2>2, <3>1, <3>2 DEF LockInUse, Wants, Writers
  <2>. QED  BY <1>5, <2>3, <2>4 DEF Log
<1>6. ASSUME NEW w \in Writers, TakeLock(w) PROVE LockInUse' /\ NotYet'
  <2>1. lock' = w /\ UNCHANGED <<main, readers>> /\ Wants(w)
    BY <1>6 DEF TakeLock
  <2>2. main # "launching"
    BY <1>1, <2>1 DEF NotYet, Wants, Writers
  <2>. QED  BY <2>1, <2>2 DEF LockInUse, NotYet, Wants
<1>7. CASE Controller \/ World \/ UNCHANGED vars
  <2>1. UNCHANGED <<lock, main, readers>>
    BY <1>7 DEF Controller, Receive, Terminate, WaitReturns, StopClient, NoticeLoss, World,
                ControllerDies, Disconnect, Stall, Heal, Silence, EngineExits
  <2>. QED  BY <1>1, <2>1 DEF LockInUse, NotYet, Wants
<1>. QED  BY <1>2, <1>3, <1>4, <1>5, <1>6, <1>7 DEF Next, Watch, Kill

-----------------------------------------------------------------------------
\* The inductive invariant holds throughout: what is left of the engine is what the
\* guardian's place in its last steps allows, and "exited" is said only at the end.
THEOREM Invariance == Spec => []IInv
<1>. QED  BY InitEstablishes, NextKeeps, PTL DEF Spec

\* Every variable stays in its range, whatever the capacity of the pipe and the lease.
THEOREM TypeCorrect == Spec => []TypeOK
<1>1. IInv => TypeOK
  BY DEF IInv
<1>. QED  BY Invariance, <1>1, PTL

\* A controller that holds the guardian's "exited" finds nothing of the engine left but a
\* container that was to be kept, however the connection, the lease and the threads that
\* share the pipe interleaved before.
THEOREM ReportedAlwaysGone == Spec => []ReportedGone
<1>1. IInv => ReportedGone
  BY DEF IInv, WorkDone, LastWord, ReportedGone, Gone
<1>. QED  BY Invariance, <1>1, PTL

\* The lock of emit() is never left behind: a thread that waits for it waits for one that
\* is about to write, whatever ended, expired or was cut off in between.
THEOREM LockAlwaysInUse == Spec => []LockInUse
<1>1. Init => LInv
  BY InitEstablishes DEF Init, LInv, LockInUse, NotYet, Writers, Streams
<1>2. LInv => LockInUse
  BY DEF LInv
<1>. QED  BY <1>1, <1>2, LockKept, PTL DEF Spec
=============================================================================
