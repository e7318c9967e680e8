----------------------------- MODULE MCPlanner -----------------------------
(***************************************************************************)
(* Inputs for the planner: one machine of four GPUs wired in different     *)
(* ways, one of six that is too large for the exhaustive search, two      *)
(* machines of two, and two of unequal size; small and large models, with  *)
(* and without experts, of known and unknown size.                         *)
(***************************************************************************)
EXTENDS Planner

Machine(sizes, wiring, free, provider) ==
    LET n == FoldFunction(+, 0, sizes)
        nodeOf == [g \in 0..(n - 1) |->
                     Least({i \in DOMAIN sizes : FoldFunction(+, 0, SubSeq(sizes, 1, i)) > g})]
    IN  [node |-> nodeOf, kind |-> [g \in 0..(n - 1) |-> "H100"],
         total |-> [g \in 0..(n - 1) |-> 320], free |-> [g \in 0..(n - 1) |-> free[g % 2]],
         links |-> wiring, provider |-> provider]

Pairs(n) == kSubset(2, 0..(n - 1))
Wire(n, fast) == [p \in Pairs(n) |-> IF p \in fast THEN 104 ELSE 5]

Idle == <<320>> @@ (0 :> 320)
Busy == <<150>> @@ (0 :> 320)

Hardware ==
    {Machine(<<4>>, w, f, "nvml") :
        w \in {NONE, Wire(4, {}), Wire(4, {{0, 2}, {1, 3}}), Wire(4, {{1, 3}}), Wire(4, {{2, 3}, {1, 2}})},
        f \in {Idle, Busy}}
    \cup {Machine(<<6>>, Wire(6, {{0, 3}, {3, 4}, {1, 5}}), Idle, "nvml"),
          Machine(<<2, 2>>, Wire(4, {}), Idle, "ray"), Machine(<<2, 2>>, Wire(4, {}), Idle, "ssh"),
          Machine(<<4, 2>>, Wire(6, {{1, 2}}), Idle, "ray"),
          [Machine(<<2>>, NONE, Idle, "nvml") EXCEPT !.kind = [@ EXCEPT ![1] = "A100"]]}

Dense(weights, heads) ==
    [heads |-> heads, experts |-> NONE, moe |-> FALSE, weights |-> weights, kv |-> 1, kvHeads |-> 2,
     mla |-> FALSE, limit |-> 16]
Models ==
    {Dense(64, 4), Dense(500, 4), Dense(500, 3), Dense(800, 6), Dense(NONE, NONE),
     [Dense(200, 4) EXCEPT !.moe = TRUE, !.experts = 6],
     [Dense(200, 4) EXCEPT !.moe = TRUE, !.experts = 8, !.mla = TRUE, !.limit = 4]}

VLLM == [name |-> "vllm", order |-> 2, runs |-> TRUE, ep |-> TRUE, dpa |-> TRUE, ray |-> TRUE,
         native |-> TRUE, pp |-> TRUE]
SGLang == [name |-> "sglang", order |-> 1, runs |-> TRUE, ep |-> TRUE, dpa |-> FALSE, ray |-> FALSE,
           native |-> TRUE, pp |-> FALSE]

Free == [tp |-> NONE, replicas |-> NONE, gpus |-> NONE, engine |-> NONE, context |-> NONE,
         concurrency |-> NONE, headroom |-> 8, fraction |-> NONE, override |-> FALSE]

MCScenarios ==
    [hw : Hardware, model : Models, engines : {<<VLLM, SGLang>>},
     load : {[context |-> 8, p50 |-> 1, p95 |-> 6, latency |-> FALSE]}, cons : {Free}]
    \cup
    [hw : {Machine(<<4>>, Wire(4, {{1, 3}}), Busy, "nvml")}, model : {Dense(64, 4), Dense(200, 4)},
     engines : {<<SGLang>>, <<>>}, load : {[context |-> 8, p50 |-> 1, p95 |-> 6, latency |-> TRUE]},
     cons : {[Free EXCEPT !.fraction = 90], [Free EXCEPT !.gpus = {1, 3}], [Free EXCEPT !.gpus = {7}],
             [Free EXCEPT !.context = 32], [Free EXCEPT !.context = 32, !.override = TRUE],
             [Free EXCEPT !.concurrency = 12]}]

Option(f, v) == [field |-> f, value |-> v]
MCOptions == {Option("tp", 1), Option("tp", 2), Option("tp", 4), Option("engine", "vllm"),
              Option("replicas", 1), Option("replicas", 2), Option("headroom", 2)}
=============================================================================
