----------------------------- MODULE Benchmark -----------------------------
(***************************************************************************)
(* One benchmark run (benchmark/runner.py, client.py, metrics.py): warm-up  *)
(* requests, the measured requests in a closed or an open loop, and the     *)
(* result they are aggregated to.  The server may answer a request with     *)
(* anything; the budget or a stop may cancel the run at every await.        *)
(*                                                                         *)
(* An answer is a sequence of chunks and an end.  A chunk has a number of   *)
(* tokens of text, possibly a usage count and possibly a finish reason; an  *)
(* answer that is not streamed is one chunk.  The loop that hands a free    *)
(* place to the next request is one step: the task that is woken for it     *)
(* counts as in flight.                                                     *)
(***************************************************************************)
EXTENDS Integers, Sequences, FiniteSets, FiniteSetsExt, SequencesExt

CONSTANTS
    Warmups, Requests,  \* the indices of the warm-up and of the measured requests
    Concurrency,        \* BenchmarkSpec.concurrency
    Chunks,             \* what a data line can hold: [text, usage, finish]
    MaxChunks,          \* bound: chunks of one answer
    NONE                \* Python's None

Results == [ok : BOOLEAN, tokens : Nat, timed : BOOLEAN]

ASSUME BenchmarkAssumption ==
    /\ {Warmups, Requests} \subseteq SUBSET Nat /\ Warmups \cap Requests = {}
    /\ IsFiniteSet(Warmups) /\ IsFiniteSet(Requests)
    /\ Concurrency \in Nat \ {0} /\ MaxChunks \in Nat
    /\ Chunks \subseteq [text : Nat, usage : Nat \cup {NONE}, finish : BOOLEAN]
    /\ NONE \notin Results /\ NONE \notin Nat

VARIABLES
    spec,      \* [open, stream, trust, gpu]: the mode, and what the runner was built with
    phase,     \* how far run() has come
    arrived,   \* the requests that have a task, or a place in the closed loop's queue
    backlog,   \* those of them that wait for a free place, in the order of their indices
    sent,      \* the requests in flight
    wire,      \* the chunks of the answer so far
    seen,      \* what the client has gathered from them
    results,   \* the RequestBenchmarkResult of each measured request, or NONE
    warm,      \* a warm-up request has succeeded
    report,    \* the BenchmarkResult, or NONE
    cancels,   \* bound: a run is cancelled at most once
    deserved   \* history: what docs/benchmarking.md says each answer is worth

loopVars == <<arrived, backlog, sent>>
answerVars == <<wire, seen, results, warm, deserved>>
vars == <<spec, phase, loopVars, answerVars, report, cancels>>

Jobs == Warmups \cup Requests
Phases == {"starting", "warmup", "measuring", "closing", "observing", "leaving",
           "reported", "failed", "cancelled"}
Answered == {r \in Requests : results[r] # NONE}

Unread == [text |-> 0, first |-> FALSE, usage |-> NONE, finished |-> FALSE]
Failure == [ok |-> FALSE, tokens |-> 0, timed |-> FALSE]

Init ==
    /\ spec \in [open : BOOLEAN, stream : BOOLEAN, trust : BOOLEAN, gpu : BOOLEAN]
    /\ phase = "starting"
    /\ arrived = {} /\ backlog = {} /\ sent = {}
    /\ wire = [j \in Jobs |-> <<>>]
    /\ seen = [j \in Jobs |-> Unread]
    /\ results = [r \in Requests |-> NONE]
    /\ deserved = [r \in Requests |-> NONE]
    /\ warm = FALSE /\ report = NONE /\ cancels = 0
-----------------------------------------------------------------------------
(* The loops.                                                               *)

\* Every request of js has a task; the first of them are sent.
Fill(js) ==
    \E first \in SUBSET js :
        /\ Cardinality(first) = Min({Concurrency, Cardinality(js)})
        /\ \A i \in first : \A k \in js \ first : i < k
        /\ arrived' = js /\ sent' = first /\ backlog' = js \ first

BeginWarmup ==
    /\ phase = "starting"
    /\ phase' = "warmup"
    /\ Fill(Warmups)
    /\ UNCHANGED <<spec, answerVars, report, cancels>>

\* warmup() returns, or raises BenchmarkError when no request succeeded.  The GPU
\* sampler is started, and the closed loop fills its queue.
BeginMeasuring ==
    /\ phase = "warmup" /\ sent = {}
    /\ IF warm THEN phase' = "measuring" ELSE phase' = "failed"
    /\ IF warm /\ ~spec.open THEN Fill(Requests)
       ELSE arrived' = {} /\ backlog' = {} /\ sent' = {}
    /\ UNCHANGED <<spec, answerVars, report, cancels>>

\* The open loop creates the next task after an exponentially distributed sleep.
Arrive ==
    /\ phase = "measuring" /\ spec.open /\ arrived # Requests
    /\ LET r == Min(Requests \ arrived)
           free == backlog = {} /\ Cardinality(sent) < Concurrency
       IN  /\ arrived' = arrived \cup {r}
           /\ sent' = IF free THEN sent \cup {r} ELSE sent
           /\ backlog' = IF free THEN backlog ELSE backlog \cup {r}
    /\ UNCHANGED <<spec, phase, answerVars, report, cancels>>

\* Mutant: a worker of the closed loop ends with the first request that fails.
NextInLineAfterSuccess(j) ==
    IF backlog = {} \/ (j \in Requests /\ ~results'[j].ok) THEN {} ELSE {Min(backlog)}

\* The place of a request that is over goes to the next one that waits.
NextInLine(j) == IF backlog = {} THEN {} ELSE {Min(backlog)}

PassOn(j) ==
    /\ sent' = (sent \ {j}) \cup NextInLine(j)
    /\ backlog' = backlog \ NextInLine(j)
-----------------------------------------------------------------------------
(* The client.                                                              *)

\* One data line of _run_streaming, or the body of _run_blocking.
Read(s, c) ==
    [text |-> s.text + c.text,
     first |-> s.first \/ c.text > 0,
     usage |-> IF c.usage # NONE THEN c.usage ELSE s.usage,
     finished |-> s.finished \/ c.finish]

Tokens(s) == IF spec.trust /\ s.usage # NONE THEN s.usage ELSE s.text

Counted(s, timed) == [ok |-> Tokens(s) > 0, tokens |-> Tokens(s), timed |-> timed]

\* Mutant: a stream that the server closes counts with what it has brought.
JudgeStreamLenient(s, end) ==
    IF end \in {"done", "eof"} THEN Counted(s, s.first) ELSE Failure

\* The result of a stream: "done" is the [DONE] line, "eof" the end of the body.
JudgeStream(s, end) ==
    IF end = "done" \/ (end = "eof" /\ s.finished) THEN Counted(s, s.first) ELSE Failure

JudgeBody(s, end) == IF end = "eof" THEN Counted(s, FALSE) ELSE Failure

\* What can end an answer: besides, a transport error or read timeout, a chunk
\* that is malformed or an API error, and a status of 400 or more.
Ends(j) ==
    {"broken", "bad"} \cup (IF wire[j] = <<>> THEN {"refused"} ELSE {})
    \cup (IF spec.stream THEN {"done", "eof"} ELSE IF wire[j] # <<>> THEN {"eof"} ELSE {})

\* The tokens of the text of all chunks, and the last usage count that one of them has.
TextOf(chunks) ==
    LET upTo[n \in 0..Len(chunks)] == IF n = 0 THEN 0 ELSE upTo[n - 1] + chunks[n].text
    IN  upTo[Len(chunks)]
LastUsage(chunks) ==
    LET given == {i \in DOMAIN chunks : chunks[i].usage # NONE}
    IN  IF given = {} THEN NONE ELSE chunks[Max(given)].usage

\* docs/benchmarking.md: malformed responses and API errors are failures even after
\* partial output, a stream needs a finish reason or [DONE], tokens are those of the
\* usage object (unless the engine may edit it) or of the complete text.
Worth(chunks, end) ==
    LET tokens == IF spec.trust /\ LastUsage(chunks) # NONE THEN LastUsage(chunks)
                  ELSE TextOf(chunks)
        complete == \/ end = "done"
                    \/ end = "eof" /\ (spec.stream => \E i \in DOMAIN chunks : chunks[i].finish)
    IN  IF complete /\ tokens > 0 THEN tokens ELSE 0

Chunk(j) ==
    /\ j \in sent /\ Len(wire[j]) < IF spec.stream THEN MaxChunks ELSE 1
    /\ \E c \in Chunks :
          /\ wire' = [wire EXCEPT ![j] = Append(@, c)]
          /\ seen' = [seen EXCEPT ![j] = Read(@, c)]
    /\ UNCHANGED <<spec, phase, loopVars, results, warm, deserved, report, cancels>>

\* The answer ends: run_request returns, and its task or worker appends the result.
End(j) ==
    /\ j \in sent
    /\ \E end \in Ends(j) :
          LET result == IF spec.stream THEN JudgeStream(seen[j], end) ELSE JudgeBody(seen[j], end)
          IN  IF j \in Requests
              THEN /\ results' = [results EXCEPT ![j] = result]
                   /\ deserved' = [deserved EXCEPT ![j] = Worth(wire[j], end)]
                   /\ UNCHANGED warm
              ELSE warm' = (warm \/ result.ok) /\ UNCHANGED <<results, deserved>>
    /\ wire' = [wire EXCEPT ![j] = <<>>]
    /\ seen' = [seen EXCEPT ![j] = Unread]
    /\ PassOn(j)
    /\ UNCHANGED <<spec, phase, arrived, report, cancels>>
-----------------------------------------------------------------------------
(* The end of the run.                                                      *)

\* gather() has all workers or tasks.
AllOver == arrived = Requests /\ sent = {} /\ backlog = {}

\* The duration is taken; the sampler, if there is one, is cancelled and awaited.
EndMeasuring ==
    /\ phase = "measuring" /\ AllOver
    /\ phase' = IF spec.gpu THEN "closing" ELSE "observing"
    /\ UNCHANGED <<spec, loopVars, answerVars, report, cancels>>

SamplerEnds ==
    /\ phase = "closing"
    /\ phase' = "observing"
    /\ UNCHANGED <<spec, loopVars, answerVars, report, cancels>>

Total(f) == FoldFunction(+, 0, f)

Aggregate ==
    LET ok == {r \in Answered : results[r].ok}
    IN  [total |-> Cardinality(Answered),
         successful |-> Cardinality(ok),
         tokens |-> Total([r \in ok |-> results[r].tokens]),
         timed |-> Cardinality({r \in ok : results[r].timed})]

\* The raw observations have been stored, the client is closed.
Report ==
    /\ phase = "observing"
    /\ phase' = "reported"
    /\ report' = Aggregate
    /\ UNCHANGED <<spec, loopVars, answerVars, cancels>>

\* on_observations raises: they could not be stored.
ObservationsLost ==
    /\ phase = "observing"
    /\ phase' = "failed"
    /\ UNCHANGED <<spec, loopVars, answerVars, report, cancels>>

\* Nobody reads the answers of the requests that are no longer in flight.
DropAnswers ==
    /\ wire' = [j \in Jobs |-> IF j \in sent' THEN wire[j] ELSE <<>>]
    /\ seen' = [j \in Jobs |-> IF j \in sent' THEN seen[j] ELSE Unread]

\* The budget or a stop cancels the run.  A gather() cancels its tasks; the open
\* loop, cancelled between two arrivals, leaves those it has created running; and
\* GPUSampler.__aexit__ suppresses a CancelledError that is not its sampler's.
Cancel ==
    /\ cancels = 0 /\ cancels' = 1
    /\ phase \in {"warmup", "measuring", "closing", "observing"}
    /\ LET gathers == phase # "measuring" \/ arrived = Requests
       IN  IF gathers THEN sent' = {} /\ backlog' = {} ELSE UNCHANGED <<sent, backlog>>
    /\ phase' = IF phase = "closing" THEN phase ELSE "leaving"
    /\ DropAnswers
    /\ UNCHANGED <<spec, arrived, results, warm, deserved, report>>

\* Mutant: the client is not closed when the run is cancelled.
LeaveOpen ==
    /\ phase = "leaving"
    /\ phase' = "cancelled"
    /\ UNCHANGED <<spec, loopVars, answerVars, report, cancels>>

\* The client is closed: its connections end, and a task that was left and has not
\* sent its request yet finds that it cannot.
Leave ==
    /\ phase = "leaving"
    /\ phase' = "cancelled"
    /\ sent' = {} /\ backlog' = {}
    /\ DropAnswers
    /\ UNCHANGED <<spec, arrived, results, warm, deserved, report, cancels>>

Next ==
    \/ BeginWarmup \/ BeginMeasuring \/ Arrive
    \/ \E j \in Jobs : Chunk(j) \/ End(j)
    \/ EndMeasuring \/ SamplerEnds \/ Report \/ ObservationsLost
    \/ Cancel \/ Leave

Spec == Init /\ [][Next]_vars
-----------------------------------------------------------------------------
(* Properties                                                               *)

\* The load is the one that the spec names: nothing of the warm-up runs into the
\* measurement, and while requests wait every place is taken, whatever became of
\* the requests before ("`concurrency` workers each pull the next request when they
\* finish", "concurrency bounds in-flight requests").
LoadAsSpecified ==
    phase = "measuring" =>
        /\ sent \subseteq Requests
        /\ Cardinality(sent) = Min({Concurrency, Cardinality(arrived \ Answered)})

\* A run that is over, by whatever end, has no request left on the engine, where
\* it would take part in the next measurement.
QuietAfterwards ==
    phase \in {"reported", "failed", "cancelled"} => sent = {} /\ backlog = {}

\* The result accounts for every request of the spec, and for each what
\* docs/benchmarking.md says its answer is worth, whatever order they ended in and
\* also when the run was cancelled too late to notice; without streaming no answer
\* has a time to first token.
ReportFaithful ==
    report # NONE =>
        LET good == {r \in Requests : deserved[r] # NONE /\ deserved[r] > 0}
        IN  /\ report.total = Cardinality(Requests)
            /\ report.successful = Cardinality(good)
            /\ report.tokens = Total([r \in good |-> deserved[r]])
            /\ ~spec.stream => report.timed = 0
=============================================================================
