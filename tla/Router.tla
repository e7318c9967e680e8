------------------------------- MODULE Router -------------------------------
(***************************************************************************)
(* The serving path of one deployment: api/proxy.py drives every request   *)
(* through runtime/router.py.  All of it runs on one asyncio event loop, so *)
(* a step of the model is what a task does between two awaits.             *)
(*                                                                         *)
(* A request waits for a slot of the concurrency semaphore behind a        *)
(* bounded queue, is leased to the least loaded healthy replica, is sent   *)
(* upstream, is moved once to another replica when the first one fails     *)
(* before answering, streams its response, and releases lease and slot.    *)
(* Meanwhile the health checker changes the status of replicas and the     *)
(* replica set replaces their ReplicaState objects under the same id.      *)
(***************************************************************************)
EXTENDS Integers, FiniteSets, Sequences, SequencesExt

CONSTANTS
    Requests,        \* the requests clients may send, each one sent once
    ReplicaIds,      \* the ids of the deployment's replicas
    MaxConcurrency,  \* plan.max_concurrency; 0 stands for None: no semaphore
    MaxQueueDepth,   \* requests that may wait behind the semaphore
    MaxGeneration    \* bound: how often one id is given a fresh ReplicaState

ASSUME RouterAssumption ==
    /\ IsFiniteSet(Requests)
    /\ MaxConcurrency \in Nat
    /\ MaxQueueDepth \in Nat
    /\ MaxGeneration \in Nat

VARIABLES
    pc,          \* where each request's task is suspended
    waiters,     \* the semaphore's deque of futures, oldest first
    permits,     \* the semaphore's value
    waiting,     \* ReplicaRouter._waiting
    lease,       \* the ReplicaState object each request's lease refers to
    excluded,    \* RouteLease.excluded: ids the request was already sent to
    attempts,    \* attempts of _send_with_retry
    outcome,     \* how the request ended, or is about to end
    failedOn,    \* history: the ReplicaState objects an attempt failed on
    rotation,    \* the ids whose registered ReplicaState is HEALTHY
    generation,  \* which ReplicaState object is registered under each id
    inflight,    \* ReplicaState.inflight_requests of every object ever made
    failures,    \* ReplicaState.failures of every object ever made
    totals       \* the router's total_requests, total_errors, rejected_overload

semVars     == <<waiters, permits, waiting>>
requestVars == <<pc, lease, excluded, attempts, outcome, failedOn>>
replicaVars == <<rotation, generation, inflight, failures>>
vars        == <<semVars, requestVars, replicaVars, totals>>

HasSemaphore == MaxConcurrency > 0

States   == ReplicaIds \X (0..MaxGeneration)  \* the ReplicaState objects
NoState  == <<>>                              \* a request without a lease
PCs      == {"idle", "queued", "woken", "abandoned", "sending", "closing",
             "streaming", "cleanup", "done"}
Outcomes == {"none", "served", "overloaded", "no_replica", "bad_gateway",
             "dropped", "cancelled"}

\* A request in one of these places owns its lease; one that is "woken" owns
\* the slot it was handed, but its task has not run yet.
Leased   == {"sending", "closing", "streaming", "cleanup"}
Claiming == Leased \cup {"woken"}
InLine   == {"queued", "woken", "abandoned"}

LeaseHolders == {r \in Requests : pc[r] \in Leased}

Init ==
    /\ pc = [r \in Requests |-> "idle"]
    /\ waiters = <<>>
    /\ permits = MaxConcurrency
    /\ waiting = 0
    /\ lease = [r \in Requests |-> NoState]
    /\ excluded = [r \in Requests |-> {}]
    /\ attempts = [r \in Requests |-> 0]
    /\ outcome = [r \in Requests |-> "none"]
    /\ failedOn = [r \in Requests |-> {}]
    /\ rotation = ReplicaIds
    /\ generation = [i \in ReplicaIds |-> 0]
    /\ inflight = [s \in States |-> 0]
    /\ failures = [s \in States |-> 0]
    /\ totals = [requests |-> 0, errors |-> 0, rejected |-> 0]

-----------------------------------------------------------------------------
(* The semaphore (asyncio.Semaphore).  Its operations act on the value and  *)
(* on the futures of the waiting tasks; sem carries both through the calls  *)
(* one step makes.                                                          *)

Sem(p, v) == [pc |-> p, permits |-> v]

\* A waiter whose future is cancelled no longer counts.
Locked ==
    \/ permits = 0
    \/ \E i \in DOMAIN waiters : pc[waiters[i]] # "abandoned"

Pending(sem) == {i \in DOMAIN waiters : sem.pc[waiters[i]] = "queued"}

HeadOfLine(sem) == {i \in Pending(sem) : \A j \in Pending(sem) : i <= j}

\* _wake_up_next: the oldest pending future is handed one permit.
WakeNext(sem) ==
    IF HeadOfLine(sem) = {}
    THEN sem
    ELSE LET i == CHOOSE i \in HeadOfLine(sem) : TRUE
         IN  Sem([sem.pc EXCEPT ![waiters[i]] = "woken"], sem.permits - 1)

ReleaseSem(sem) ==
    IF HasSemaphore THEN WakeNext(Sem(sem.pc, sem.permits + 1)) ELSE sem

\* The end of acquire(): a woken task passes a spare permit on.
WakeIfSpare(sem) == IF sem.permits > 0 THEN WakeNext(sem) ELSE sem

SetSem(sem) == pc' = sem.pc /\ permits' = sem.permits

\* The event loop resumes woken tasks in the order their futures were set.
ResumesNext(r) ==
    \E i \in DOMAIN waiters :
        /\ waiters[i] = r
        /\ \A j \in 1..(i - 1) : pc[waiters[j]] # "woken"

\* A task that stops waiting takes its future out of the deque and itself out
\* of the router's count.
StopWaiting(r) ==
    /\ \E i \in DOMAIN waiters :
          /\ waiters[i] = r
          /\ waiters' = RemoveAt(waiters, i)
    /\ waiting' = waiting - 1

-----------------------------------------------------------------------------
(* Choosing a replica and keeping its books.                                *)

State(i) == <<i, generation[i]>>

\* Mutant: a retry may pick the replica that has just failed.
CandidatesAll(exclude) == rotation

Candidates(exclude) == rotation \ exclude

\* Ties are broken by a counter that every call shares: any of them.
LeastLoaded(ids) ==
    {i \in ids : \A j \in ids : inflight[State(i)] <= inflight[State(j)]}

Decrement(n) == IF n > 0 THEN n - 1 ELSE 0

Fault(failed) == IF failed THEN 1 ELSE 0

\* Mutant: one request too many may wait.
QueueFullLate == waiting > MaxQueueDepth

QueueFull == waiting >= MaxQueueDepth

\* Mutant: answering 503 forgets to give the slot back.
LeaseReplicaLeaks(r, sem) ==
    \/ \E i \in LeastLoaded(Candidates({})) :
          /\ SetSem([sem EXCEPT !.pc[r] = "sending"])
          /\ lease' = [lease EXCEPT ![r] = State(i)]
          /\ excluded' = [excluded EXCEPT ![r] = {i}]
          /\ inflight' = [inflight EXCEPT ![State(i)] = @ + 1]
          /\ totals' = [totals EXCEPT !.requests = @ + 1]
          /\ UNCHANGED outcome
    \/ /\ Candidates({}) = {}
       /\ SetSem([sem EXCEPT !.pc[r] = "done"])
       /\ outcome' = [outcome EXCEPT ![r] = "no_replica"]
       /\ UNCHANGED <<lease, excluded, inflight, totals>>

\* The part of acquire() after the semaphore: lease a replica, or give the
\* slot back and answer 503.
LeaseReplica(r, sem) ==
    \/ \E i \in LeastLoaded(Candidates({})) :
          /\ SetSem([sem EXCEPT !.pc[r] = "sending"])
          /\ lease' = [lease EXCEPT ![r] = State(i)]
          /\ excluded' = [excluded EXCEPT ![r] = {i}]
          /\ inflight' = [inflight EXCEPT ![State(i)] = @ + 1]
          /\ totals' = [totals EXCEPT !.requests = @ + 1]
          /\ UNCHANGED outcome
    \/ /\ Candidates({}) = {}
       /\ SetSem(ReleaseSem([sem EXCEPT !.pc[r] = "done"]))
       /\ outcome' = [outcome EXCEPT ![r] = "no_replica"]
       /\ UNCHANGED <<lease, excluded, inflight, totals>>

\* Mutant: release() looks the replica up by id, and so finds the object that
\* a restart has put in the place of the leased one.
ReleaseById(r, failed) ==
    LET s == State(lease[r][1])
    IN  /\ inflight' = [inflight EXCEPT ![s] = Decrement(@)]
        /\ failures' = [failures EXCEPT ![s] = @ + Fault(failed)]
        /\ totals' = [totals EXCEPT !.errors = @ + Fault(failed)]
        /\ SetSem(ReleaseSem(Sem([pc EXCEPT ![r] = "done"], permits)))
        /\ UNCHANGED <<waiters, waiting, lease, excluded, attempts, rotation, generation>>

\* Mutant: a failed request gives its slot back where it fails and once more in the end.
ReleaseTwice(r, failed) ==
    /\ inflight' = [inflight EXCEPT ![lease[r]] = Decrement(@)]
    /\ failures' = [failures EXCEPT ![lease[r]] = @ + Fault(failed)]
    /\ totals' = [totals EXCEPT !.errors = @ + Fault(failed)]
    /\ LET sem == ReleaseSem(Sem([pc EXCEPT ![r] = "done"], permits))
       IN  SetSem(IF failed THEN ReleaseSem(sem) ELSE sem)
    /\ UNCHANGED <<waiters, waiting, lease, excluded, attempts, rotation, generation>>

\* release(): the books of the leased ReplicaState object, then the slot.
Release(r, failed) ==
    /\ inflight' = [inflight EXCEPT ![lease[r]] = Decrement(@)]
    /\ failures' = [failures EXCEPT ![lease[r]] = @ + Fault(failed)]
    /\ totals' = [totals EXCEPT !.errors = @ + Fault(failed)]
    /\ SetSem(ReleaseSem(Sem([pc EXCEPT ![r] = "done"], permits)))
    /\ UNCHANGED <<waiters, waiting, lease, excluded, attempts, rotation, generation>>

\* reroute(): the lease moves to a healthy replica it has not been on.
Reroute(r) ==
    \E i \in LeastLoaded(Candidates(excluded[r])) :
        /\ inflight' = [inflight EXCEPT ![lease[r]] = Decrement(@),
                                        ![State(i)] = @ + 1]
        /\ failures' = [failures EXCEPT ![lease[r]] = @ + 1]
        /\ lease' = [lease EXCEPT ![r] = State(i)]
        /\ excluded' = [excluded EXCEPT ![r] = @ \cup {i}]

-----------------------------------------------------------------------------
(* acquire(): from the arrival of a request to its lease.                   *)

Refuse(r) ==
    /\ pc[r] = "idle" /\ HasSemaphore /\ Locked /\ QueueFull
    /\ pc' = [pc EXCEPT ![r] = "done"]
    /\ outcome' = [outcome EXCEPT ![r] = "overloaded"]
    /\ totals' = [totals EXCEPT !.rejected = @ + 1]
    /\ UNCHANGED <<semVars, lease, excluded, attempts, failedOn, replicaVars>>

Join(r) ==
    /\ pc[r] = "idle" /\ HasSemaphore /\ Locked /\ ~QueueFull
    /\ pc' = [pc EXCEPT ![r] = "queued"]
    /\ waiters' = Append(waiters, r)
    /\ waiting' = waiting + 1
    /\ UNCHANGED <<permits, lease, excluded, attempts, outcome, failedOn,
                   replicaVars, totals>>

Enter(r) ==
    /\ pc[r] = "idle"
    /\ \/ HasSemaphore /\ ~Locked /\ LeaseReplica(r, Sem(pc, permits - 1))
       \/ ~HasSemaphore /\ LeaseReplica(r, Sem(pc, permits))
    /\ UNCHANGED <<waiters, waiting, attempts, failedOn, rotation, generation, failures>>

Resume(r) ==
    /\ pc[r] = "woken" /\ ResumesNext(r)
    /\ StopWaiting(r)
    /\ LeaseReplica(r, WakeIfSpare(Sem(pc, permits)))
    /\ UNCHANGED <<attempts, failedOn, rotation, generation, failures>>

\* Cancelling a task that waits cancels its future at once; the task itself
\* runs, and leaves the line, later.
Abandon(r) ==
    /\ pc[r] = "queued"
    /\ pc' = [pc EXCEPT ![r] = "abandoned"]
    /\ UNCHANGED <<semVars, lease, excluded, attempts, outcome, failedOn,
                   replicaVars, totals>>

LeaveLine(r) ==
    /\ pc[r] = "abandoned"
    /\ pc' = [pc EXCEPT ![r] = "done"]
    /\ outcome' = [outcome EXCEPT ![r] = "cancelled"]
    /\ StopWaiting(r)
    /\ UNCHANGED <<permits, lease, excluded, attempts, failedOn, replicaVars, totals>>

\* Mutant: the task dies with the slot it was handed.
CancelWokenKeepsSlot(r) ==
    /\ pc[r] = "woken" /\ ResumesNext(r)
    /\ StopWaiting(r)
    /\ SetSem(Sem([pc EXCEPT ![r] = "done"], permits))
    /\ outcome' = [outcome EXCEPT ![r] = "cancelled"]
    /\ UNCHANGED <<lease, excluded, attempts, failedOn, replicaVars, totals>>

\* A task cancelled after it was handed the slot hands it to the next one.
CancelWoken(r) ==
    /\ pc[r] = "woken" /\ ResumesNext(r)
    /\ StopWaiting(r)
    /\ SetSem(ReleaseSem(Sem([pc EXCEPT ![r] = "done"], permits)))
    /\ outcome' = [outcome EXCEPT ![r] = "cancelled"]
    /\ UNCHANGED <<lease, excluded, attempts, failedOn, replicaVars, totals>>

-----------------------------------------------------------------------------
(* _send_with_retry(): the lease's replica answers, fails, or is left for   *)
(* another one.                                                             *)

Charge(r) == failedOn' = [failedOn EXCEPT ![r] = @ \cup {lease[r]}]

MayRetry(r) == attempts[r] = 0 /\ Candidates(excluded[r]) # {}

RetryOrGiveUp(r) ==
    \/ /\ MayRetry(r)
       /\ Reroute(r)
       /\ attempts' = [attempts EXCEPT ![r] = @ + 1]
       /\ pc' = [pc EXCEPT ![r] = "sending"]
       /\ UNCHANGED <<semVars, outcome, rotation, generation, totals>>
    \/ /\ ~MayRetry(r)
       /\ Release(r, TRUE)
       /\ outcome' = [outcome EXCEPT ![r] = "bad_gateway"]

Respond(r) ==
    /\ pc[r] = "sending"
    /\ pc' = [pc EXCEPT ![r] = "streaming"]
    /\ UNCHANGED <<semVars, lease, excluded, attempts, outcome, failedOn,
                   replicaVars, totals>>

SendFails(r) ==
    /\ pc[r] = "sending"
    /\ Charge(r)
    /\ RetryOrGiveUp(r)

\* A 5xx answer is closed first, and closing it is an await of its own.
Respond5xx(r) ==
    /\ pc[r] = "sending"
    /\ Charge(r)
    /\ pc' = [pc EXCEPT ![r] = "closing"]
    /\ UNCHANGED <<semVars, lease, excluded, attempts, outcome, replicaVars, totals>>

Close5xx(r) ==
    /\ pc[r] = "closing"
    /\ RetryOrGiveUp(r)
    /\ UNCHANGED failedOn

\* Cancelled before a response exists: nothing to close, the lease is released
\* at once and without an error.
CancelSend(r) ==
    /\ pc[r] \in {"sending", "closing"}
    /\ Release(r, FALSE)
    /\ outcome' = [outcome EXCEPT ![r] = "cancelled"]
    /\ UNCHANGED failedOn

-----------------------------------------------------------------------------
(* The response is streamed by _ProxyResponse; however that ends, cleanup() *)
(* closes the upstream response and then releases the lease.                *)

BeginCleanup(r, how) ==
    /\ pc[r] = "streaming"
    /\ pc' = [pc EXCEPT ![r] = "cleanup"]
    /\ outcome' = [outcome EXCEPT ![r] = how]
    /\ UNCHANGED <<semVars, lease, excluded, attempts, replicaVars, totals>>

StreamEnds(r) == BeginCleanup(r, "served") /\ UNCHANGED failedOn

ClientLeaves(r) == BeginCleanup(r, "cancelled") /\ UNCHANGED failedOn

BackendDrops(r) == BeginCleanup(r, "dropped") /\ Charge(r)

\* Mutant: a client that leaves is charged to the replica.
FinishCleanupBlames(r) ==
    /\ pc[r] = "cleanup"
    /\ Release(r, outcome[r] # "served")
    /\ UNCHANGED <<outcome, failedOn>>

\* The upstream is closed, or closing it raised or was cancelled.
FinishCleanup(r) ==
    /\ pc[r] = "cleanup"
    /\ Release(r, outcome[r] = "dropped")
    /\ UNCHANGED <<outcome, failedOn>>

-----------------------------------------------------------------------------
(* What the replica set and the health checker do to the router.  Only a    *)
(* registered HEALTHY replica is a candidate: STARTING, UNHEALTHY, STOPPED  *)
(* and unregistered ones differ in nothing the router does.                 *)

\* set_status to anything but HEALTHY, or remove_replica.
LeaveRotation(i) ==
    /\ i \in rotation
    /\ rotation' = rotation \ {i}
    /\ UNCHANGED <<semVars, requestVars, generation, inflight, failures, totals>>

EnterRotation(i) ==
    /\ i \notin rotation
    /\ rotation' = rotation \cup {i}
    /\ UNCHANGED <<semVars, requestVars, generation, inflight, failures, totals>>

\* remove_replica and add_replica of a restart: a fresh object, STARTING and
\* with nothing in flight, while leases keep referring to the one they have.
ReplaceState(i) ==
    /\ generation[i] < MaxGeneration
    /\ generation' = [generation EXCEPT ![i] = @ + 1]
    /\ rotation' = rotation \ {i}
    /\ UNCHANGED <<semVars, requestVars, inflight, failures, totals>>

-----------------------------------------------------------------------------
Acquire(r) == Refuse(r) \/ Join(r) \/ Enter(r) \/ Resume(r)

Cancel(r) == Abandon(r) \/ LeaveLine(r) \/ CancelWoken(r) \/ CancelSend(r)

Proxy(r) ==
    \/ Respond(r) \/ SendFails(r) \/ Respond5xx(r) \/ Close5xx(r)
    \/ StreamEnds(r) \/ ClientLeaves(r) \/ BackendDrops(r) \/ FinishCleanup(r)

Registry(i) == LeaveRotation(i) \/ EnterRotation(i) \/ ReplaceState(i)

Next ==
    \/ \E r \in Requests : Acquire(r) \/ Cancel(r) \/ Proxy(r)
    \/ \E i \in ReplicaIds : Registry(i)

Spec == Init /\ [][Next]_vars

\* The event loop runs every task that is ready; the HTTP client answers or
\* times out (DEFAULT_PROXY_TIMEOUT_SECONDS), and a stream ends or breaks.
\* Nothing makes a client send, cancel or disconnect.
Progress(r) == Resume(r) \/ LeaveLine(r) \/ Proxy(r)

FairSpec == Spec /\ \A r \in Requests : WF_vars(Progress(r))

-----------------------------------------------------------------------------
(* Properties                                                               *)

\* Every variable keeps its shape; in particular counters never go negative.
TypeOK ==
    /\ pc \in [Requests -> PCs]
    /\ waiters \in Seq(Requests)
    /\ permits \in Nat
    /\ waiting \in Int
    /\ lease \in [Requests -> States \cup {NoState}]
    /\ excluded \in [Requests -> SUBSET ReplicaIds]
    /\ attempts \in [Requests -> 0..1]
    /\ outcome \in [Requests -> Outcomes]
    /\ failedOn \in [Requests -> SUBSET (States \cup {NoState})]
    /\ rotation \subseteq ReplicaIds
    /\ generation \in [ReplicaIds -> 0..MaxGeneration]
    /\ inflight \in [States -> Nat]
    /\ failures \in [States -> Nat]
    /\ totals \in [requests : Nat, errors : Nat, rejected : Nat]

\* Slots are conserved: the semaphore's value, the slots handed to tasks that
\* have not run yet and the slots of leased requests always add up to
\* max_concurrency, through every retry, cancellation and failed selection
\* (architecture.md: "Cancellation and client disconnects release the
\* concurrency slot").  So no slot leaks and the cap is never exceeded.
SlotsConserved ==
    HasSemaphore =>
        permits + Cardinality({r \in Requests : pc[r] \in Claiming}) = MaxConcurrency

\* inflight_requests of every ReplicaState object, those already replaced by
\* a restart included, is the number of leases that refer to it: reroute() and
\* release() balance the books exactly once and the max(0, ...) never bites.
InflightExact ==
    \A s \in States : inflight[s] = Cardinality({r \in LeaseHolders : lease[r] = s})

\* The router's queue length is the number of tasks in the deque and never
\* exceeds max_queue_depth; each of them is there once.
QueueExact ==
    /\ waiting = Len(waiters)
    /\ waiting <= MaxQueueDepth
    /\ {waiters[i] : i \in DOMAIN waiters} = {r \in Requests : pc[r] \in InLine}
    /\ IsInjective(waiters)

\* A failed attempt of r on s that has not been charged yet, or never will be
\* because r was cancelled while the 5xx answer was being closed.
Uncharged(r, s) ==
    s = lease[r] /\ (pc[r] \in {"closing", "cleanup"} \/ outcome[r] = "cancelled")

\* Each failed attempt is charged exactly once, to the object of the replica
\* that failed (_send_with_retry's docstring), and the totals that /status
\* reports agree with how the requests ended.
FailuresExact ==
    /\ \A s \in States :
          failures[s] = Cardinality({r \in Requests : s \in failedOn[r] /\ ~Uncharged(r, s)})
    /\ totals.errors = Cardinality(
          {r \in Requests : pc[r] = "done" /\ outcome[r] \in {"bad_gateway", "dropped"}})
    /\ totals.rejected = Cardinality({r \in Requests : outcome[r] = "overloaded"})
    /\ totals.requests = Cardinality({r \in Requests : excluded[r] # {}})

\* A lease moves at most once, before any response exists, because the replica
\* it leaves has failed, and to a replica with another id even if the first
\* one was restarted meanwhile; so one response never mixes two replicas.
RetriedOnceElsewhere ==
    [][\A r \in Requests :
          lease[r] # NoState /\ lease'[r] # lease[r] =>
              /\ pc[r] \in {"sending", "closing"}
              /\ failedOn[r] \subseteq {lease[r]}
              /\ failedOn'[r] = {lease[r]}
              /\ lease'[r][1] # lease[r][1]]_vars

\* Every request that arrives is answered, refused or given up: none is left in the queue or
\* holding a slot for ever.  A request arrives once, so that is the same as saying that from
\* some time on none is under way.
RequestsSettle == <>[](\A r \in Requests : pc[r] \in {"idle", "done"})

-----------------------------------------------------------------------------
(* The router implements the abstract admission control: the semaphore's    *)
(* value, its futures and the waiting counter are only its means.  Without  *)
(* a semaphore there is room for every request.                             *)

AbstractAdmission ==
    INSTANCE Admission WITH
        Limit <- IF HasSemaphore THEN MaxConcurrency ELSE Cardinality(Requests),
        Depth <- MaxQueueDepth,
        line <- waiters,
        gaveUp <- {r \in Requests : pc[r] = "abandoned"},
        served <- LeaseHolders,
        settled <- {r \in Requests : pc[r] = "done" /\ outcome[r] # "overloaded"},
        refused <- {r \in Requests : outcome[r] = "overloaded"}

\* Every step of the router is a step of the abstract admission control or
\* leaves what clients see of it alone (architecture.md, Serving path 2).
ImplementsAdmission == AbstractAdmission!Spec
=============================================================================
