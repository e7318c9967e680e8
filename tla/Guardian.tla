------------------------------ MODULE Guardian ------------------------------
(***************************************************************************)
(* A remote engine and what keeps it from outliving its controller: the    *)
(* guardian of cluster/worker.py, started over SSH by SSHProcessHandle of  *)
(* cluster/ssh_launcher.py.                                                *)
(*                                                                         *)
(* The guardian starts the engine in a process group of its own, usually   *)
(* `docker run`, forwards its output line by line, and stops it when it is *)
(* told to, when the connection closes, or when no heartbeat came for the  *)
(* length of the lease.  Its main thread and the two threads that forward  *)
(* output share the pipe to the controller under one lock.                 *)
(***************************************************************************)
EXTENDS Naturals, Sequences

CONSTANTS
    PipeCapacity,  \* lines the way to the controller holds before a writer blocks
    LeasePeriods,  \* heartbeat periods a guardian waits for a silent controller
    Preserve       \* preserve_on_success: keep the container of a job that succeeds

ASSUME GuardianAssumption ==
    /\ PipeCapacity \in Nat \ {0}
    /\ LeasePeriods \in Nat \ {0}
    /\ Preserve \in BOOLEAN

VARIABLES
    handle,     \* the SSHProcessHandle, as its methods leave it
    code,       \* its returncode: "none", from the guardian, or of the ssh client
    link,       \* the SSH connection: "open", "stalled" (nothing passes, no end knows), "cut"
    pipe,       \* events on their way to the controller
    main,       \* where the guardian's main thread is
    stopped,    \* the guardian's stopped event
    age,        \* heartbeat periods since the last heartbeat was read
    lock,       \* who holds the lock of emit()
    readers,    \* the threads that forward the engine's output
    engine,     \* the process the guardian started
    group,      \* a process of its group is left
    container   \* the container that cleanup_command removes exists

controllerVars == <<handle, code>>
guardianVars == <<main, stopped, age, lock, readers>>
nodeVars == <<engine, group, container>>
vars == <<controllerVars, link, pipe, guardianVars, nodeVars>>

Streams == {"stdout", "stderr"}
Writers == Streams \cup {"main"}
Open == link = "open"

Init ==
    /\ handle = "starting" /\ code = "none"
    /\ link = "open" /\ pipe = << >>
    /\ main = "launching" /\ stopped = FALSE /\ age = 0
    /\ lock = "free" /\ readers = [s \in Streams |-> "ended"]
    /\ engine = "none" /\ group = FALSE /\ container = FALSE

-----------------------------------------------------------------------------
(* The guardian *)

\* print() in emit: blocks while the pipe is full; a closed one sets stopped.
Write(event) ==
    \/ link # "cut" /\ Len(pipe) < PipeCapacity
       /\ pipe' = Append(pipe, event) /\ UNCHANGED stopped
    \/ link = "cut" /\ stopped' = TRUE /\ UNCHANGED pipe

Wants(w) == IF w = "main" THEN main \in {"expiring", "reporting"} ELSE readers[w] = "emitting"

TakeLock(w) ==
    /\ Wants(w) /\ lock = "free"
    /\ lock' = w
    /\ UNCHANGED <<controllerVars, link, pipe, main, stopped, age, readers, nodeVars>>

Launch ==
    /\ main = "launching"
    /\ Write("started")
    /\ engine' = "running" /\ group' = TRUE /\ container' = TRUE
    /\ readers' = [s \in Streams |-> "reading"]
    /\ main' = "watching"
    /\ UNCHANGED <<controllerVars, link, age, lock>>

\* The descriptor does not arrive, or Popen raises: the guardian just ends.
LaunchFails ==
    /\ main = "launching"
    /\ main' = "done"
    /\ UNCHANGED <<controllerVars, link, pipe, stopped, age, lock, readers, nodeVars>>

ReadHeartbeat ==
    /\ main = "watching" /\ Open /\ handle \in {"starting", "up"}
    /\ age # 0
    /\ age' = 0
    /\ UNCHANGED <<controllerVars, link, pipe, main, stopped, lock, readers, nodeVars>>

\* Mutant: only the end of the input is heeded.
ReadStopAtEnd ==
    /\ main = "watching"
    /\ link = "cut"
    /\ stopped' = TRUE
    /\ main' = "killing"
    /\ UNCHANGED <<controllerVars, link, pipe, age, lock, readers, nodeVars>>

\* A "stop" line, or the end of the input.
ReadStop ==
    /\ main = "watching"
    /\ (Open /\ handle = "stopping") \/ link = "cut"
    /\ stopped' = TRUE
    /\ main' = "killing"
    /\ UNCHANGED <<controllerVars, link, pipe, age, lock, readers, nodeVars>>

\* The condition of the loop: the engine has exited, or emit found the pipe closed.
LeaveLoop ==
    /\ main = "watching" /\ (engine # "running" \/ stopped)
    /\ main' = "killing"
    /\ UNCHANGED <<controllerVars, link, pipe, stopped, age, lock, readers, nodeVars>>

LeaseIsOver == age > LeasePeriods

\* Mutant: an expired lease is only reported.
LeaseExpiresGently ==
    /\ main = "watching" /\ LeaseIsOver
    /\ main' = "watching"
    /\ age' = 0
    /\ UNCHANGED <<controllerVars, link, pipe, stopped, lock, readers, nodeVars>>

\* The message that says so is emitted before anything is stopped.
LeaseExpires ==
    /\ main = "watching" /\ LeaseIsOver
    /\ stopped' = TRUE
    /\ main' = "expiring"
    /\ UNCHANGED <<controllerVars, link, pipe, age, lock, readers, nodeVars>>

SayExpired ==
    /\ main = "expiring" /\ lock = "main"
    /\ Write("log")
    /\ lock' = "free"
    /\ main' = "killing"
    /\ UNCHANGED <<controllerVars, link, age, readers, nodeVars>>

\* SIGTERM, and SIGKILL after the grace period; an engine told to stop may exit with 0.
KillEngine ==
    /\ main = "killing"
    /\ engine' \in (IF engine = "running" THEN {"failed", "succeeded"} ELSE {engine})
    /\ main' = "sweeping"
    /\ UNCHANGED <<controllerVars, link, pipe, stopped, age, lock, readers, group, container>>

Sweep ==
    /\ main = "sweeping"
    /\ group' = FALSE
    /\ main' = "removing"
    /\ UNCHANGED <<controllerVars, link, pipe, stopped, age, lock, readers, engine, container>>

\* Mutant: the container of a job that failed is kept as well.
KeepsFailed == Preserve /\ ~stopped

\* The container of a job that succeeds undisturbed may be kept.
Keeps == Preserve /\ engine = "succeeded" /\ ~stopped

\* cleanup_command, then at most two seconds for each reader.
Remove ==
    /\ main = "removing"
    /\ container' = (container /\ Keeps)
    /\ main' = "reporting"
    /\ UNCHANGED <<controllerVars, link, pipe, stopped, age, lock, readers, engine, group>>

\* The guardian ends, and its reader threads (daemons) with it.
Report ==
    /\ main = "reporting" /\ lock = "main"
    /\ Write("exited")
    /\ main' = "done"
    /\ lock' = "free"
    /\ readers' = [s \in Streams |-> "ended"]
    /\ UNCHANGED <<controllerVars, link, age, nodeVars>>

ReadLog(s) ==
    /\ readers[s] = "reading" /\ group
    /\ readers' = [readers EXCEPT ![s] = "emitting"]
    /\ UNCHANGED <<controllerVars, link, pipe, main, stopped, age, lock, nodeVars>>

Forward(s) ==
    /\ readers[s] = "emitting" /\ lock = s
    /\ Write("log")
    /\ lock' = "free"
    /\ readers' = [readers EXCEPT ![s] = "reading"]
    /\ UNCHANGED <<controllerVars, link, main, age, nodeVars>>

EndOfLog(s) ==
    /\ readers[s] = "reading" /\ ~group
    /\ readers' = [readers EXCEPT ![s] = "ended"]
    /\ UNCHANGED <<controllerVars, link, pipe, main, stopped, age, lock, nodeVars>>

-----------------------------------------------------------------------------
(* The controller's end: SSHProcessHandle *)

\* _read_events
Receive ==
    /\ link # "stalled" /\ handle # "closed" /\ pipe # << >>
    /\ pipe' = Tail(pipe)
    /\ handle' = IF Head(pipe) = "started" /\ handle = "starting" THEN "up" ELSE handle
    /\ code' = IF Head(pipe) = "exited" THEN "guardian" ELSE code
    /\ UNCHANGED <<link, guardianVars, nodeVars>>

\* terminate(), called by start() when the handshake fails or takes 30 seconds, or by the
\* owner of a running handle.
Terminate ==
    /\ handle \in {"starting", "up"}
    /\ handle' = "stopping"
    /\ UNCHANGED <<code, link, pipe, guardianVars, nodeVars>>

\* Without an event of the guardian the returncode is that of the ssh client.
CodeOfClient == IF code = "none" THEN "client" ELSE code

\* The ssh client ends with its connection, or once it delivered all the guardian said.
ClientEnded == link = "cut" \/ (Open /\ main = "done" /\ pipe = << >>)

\* wait() returns when the client has ended and its output was read to the end.
WaitReturns ==
    /\ handle = "stopping" /\ ClientEnded /\ pipe = << >>
    /\ handle' = "closed"
    /\ code' = CodeOfClient
    /\ UNCHANGED <<link, pipe, guardianVars, nodeVars>>

\* wait() times out: stop_process ends the ssh client, which a stalled network hides from
\* the guardian.
StopClient ==
    /\ handle = "stopping" /\ ~ClientEnded
    /\ handle' = "closed"
    /\ code' = CodeOfClient
    /\ link' = IF Open THEN "cut" ELSE link
    /\ UNCHANGED <<pipe, guardianVars, nodeVars>>

\* is_running() turns FALSE without terminate.
NoticeLoss ==
    /\ handle = "up" /\ code = "none" /\ ClientEnded
    /\ code' = "client"
    /\ UNCHANGED <<handle, link, pipe, guardianVars, nodeVars>>

-----------------------------------------------------------------------------
(* The world around both *)

ControllerDies ==
    /\ handle # "closed"
    /\ handle' = "closed"
    /\ link' = IF Open THEN "cut" ELSE link
    /\ UNCHANGED <<code, pipe, guardianVars, nodeVars>>

\* What is on its way may be lost.
Disconnect ==
    /\ link # "cut"
    /\ link' = "cut"
    /\ pipe' \in {pipe, << >>}
    /\ UNCHANGED <<controllerVars, guardianVars, nodeVars>>

\* The network drops everything, or the controller's process is suspended.
Stall ==
    /\ Open
    /\ link' = "stalled"
    /\ UNCHANGED <<controllerVars, pipe, guardianVars, nodeVars>>

Heal ==
    /\ link = "stalled" /\ handle # "closed"
    /\ link' = "open"
    /\ UNCHANGED <<controllerVars, pipe, guardianVars, nodeVars>>

\* A period passes without a heartbeat.
Silence ==
    /\ link = "stalled" /\ main = "watching" /\ ~LeaseIsOver
    /\ age' = age + 1
    /\ UNCHANGED <<controllerVars, link, pipe, main, stopped, lock, readers, nodeVars>>

\* The engine exits by itself; processes it started may live on.
EngineExits ==
    /\ engine = "running"
    /\ engine' \in {"failed", "succeeded"}
    /\ group' \in BOOLEAN
    /\ UNCHANGED <<controllerVars, link, pipe, guardianVars, container>>

-----------------------------------------------------------------------------
Kill == KillEngine \/ Sweep \/ Remove \/ Report

Watch == Launch \/ LaunchFails \/ ReadHeartbeat \/ ReadStop \/ LeaveLoop \/ LeaseExpires
         \/ SayExpired

Log(s) == ReadLog(s) \/ Forward(s) \/ EndOfLog(s)

Controller == Receive \/ Terminate \/ WaitReturns \/ StopClient \/ NoticeLoss

World == ControllerDies \/ Disconnect \/ Stall \/ Heal \/ Silence \/ EngineExits

Next ==
    \/ Watch \/ Kill \/ Controller \/ World
    \/ \E s \in Streams : Log(s)
    \/ \E w \in Writers : TakeLock(w)

Spec == Init /\ [][Next]_vars

\* Every thread of the guardian runs when it can, the lock is not withheld from one of
\* them for ever, time passes, and the controller reads what arrives.  Nothing makes a
\* stalled connection heal or end, or the controller act on it, by terminate() or by the
\* timeout of its wait().
FairSpec ==
    /\ Spec
    /\ WF_vars(Watch) /\ WF_vars(Kill) /\ WF_vars(Receive)
    /\ WF_vars(Silence)
    /\ \A s \in Streams : WF_vars(Log(s))
    /\ \A w \in Writers : SF_vars(TakeLock(w))

-----------------------------------------------------------------------------
(* Properties *)

\* Every variable stays in its range; the way to the controller never holds more than it can.
TypeOK ==
    /\ handle \in {"starting", "up", "stopping", "closed"}
    /\ code \in {"none", "guardian", "client"}
    /\ link \in {"open", "stalled", "cut"}
    /\ pipe \in Seq({"started", "log", "exited"}) /\ Len(pipe) <= PipeCapacity
    /\ main \in {"launching", "watching", "expiring", "killing", "sweeping", "removing",
                 "reporting", "done"}
    /\ stopped \in BOOLEAN
    /\ age \in 0..(LeasePeriods + 1)
    /\ lock \in Writers \cup {"free"}
    /\ readers \in [Streams -> {"reading", "emitting", "ended"}]
    /\ engine \in {"none", "running", "failed", "succeeded"}
    /\ {group, container} \subseteq BOOLEAN

\* Nothing of the engine is left on the node, but the container of a job that succeeded
\* and was to be kept.
Gone == ~group /\ (container => Preserve /\ engine = "succeeded")

\* A controller that has the guardian's word for it, the "exited" event, may reuse the GPUs:
\* the event comes after the kill, the sweep and the cleanup (worker.py:84-111).
ReportedGone == code = "guardian" => Gone

\* worker.py, "EOF ... terminates the process group and any explicitly owned container", even
\* if the pipe was full until then; and terminate() needs no timeout: while the connection
\* works the guardian heeds the stop line, however much output is before it
\* (ssh_launcher.py:145-149).
EndsWhenTold ==
    link = "cut" \/ (handle = "stopping" /\ Open) ~> Gone \/ link = "stalled"

\* The lease ends the engine of a controller that fell silent (worker.py:76-79), unless a
\* thread of the guardian is blocked on the full pipe with the lock: the message about the
\* expired lease is written first.
LeaseEndsEngineUnlessBlocked ==
    link = "stalled" ~>
        \/ Gone \/ link # "stalled"
        \/ lock # "free" /\ Len(pipe) = PipeCapacity
=============================================================================
