------------------------------ MODULE Planner ------------------------------
(***************************************************************************)
(* The static planner (planner/candidates.py, gpu_groups.py, memory.py,    *)
(* pruning.py): from a hardware snapshot, a model, a workload and the      *)
(* user's constraints to the ranked list of topologies worth launching.    *)
(*                                                                         *)
(* One planning is Start, a step per tensor-parallel size, the layouts     *)
(* across machines, and Finish.  Rerun is the user, who plans the same     *)
(* input again with one more option; `previous' keeps the first outcome,   *)
(* so that properties can compare the two.                                 *)
(*                                                                         *)
(* Memory is counted in units of 256 MiB, context in blocks of tokens, and *)
(* a memory fraction in percent, to which the code rounds it as well.      *)
(***************************************************************************)
EXTENDS Integers, Sequences, SequencesExt

CONSTANTS
    Scenarios,      \* the inputs: [hw, model, load, engines, cons]
    Options,        \* what a Rerun may add: [field, value]
    ExhaustiveMax,  \* EXHAUSTIVE_MAX_GPUS
    NONE            \* Python's None

VARIABLES
    input,          \* the scenario that is planned
    selected,       \* the GPUs --gpus left
    phase,          \* "start", "tp", "cross", "finish", "done"
    todo,           \* tensor-parallel sizes still to try
    plans,          \* candidates, in the order they were found
    excluded,       \* the reasons of what was pruned
    error,          \* the exception the planning ended with, or NONE
    previous        \* the planning before the Rerun: [input, plans, error]

vars == <<input, selected, phase, todo, plans, excluded, error, previous>>

GiB == 4
Overhead == 6           \* ENGINE_OVERHEAD_BYTES
CudaGraphs == GiB       \* CUDA_GRAPH_BYTES
CommBuffer == 1         \* COMM_BUFFER_BYTES_PER_TP_RANK
UnknownSpare == 2 * GiB \* UNKNOWN_KV_MIN_SPARE_BYTES
MaxFraction == 95
MinFraction == 30

Least(S) == CHOOSE x \in S : \A y \in S : x <= y
Greatest(S) == CHOOSE x \in S : \A y \in S : x >= y
\* The elements of S in the order of a strict total order on it.
InOrder(S, less(_, _)) ==
    [k \in 1..Cardinality(S) |-> CHOOSE x \in S : Cardinality({y \in S : less(y, x)}) = k - 1]
Sorted(S) == InOrder(S, <)
Sum(f(_), S) == MapThenSumSet(f, S)
----------------------------------------------------------------------------
(* GPU groups.  A group is a set of GPUs, a partition a sequence of groups. *)

NodesOf(s, ids) == {s.hw.node[g] : g \in ids}
OnNode(s, ids, n) == {g \in ids : s.hw.node[g] = n}

PairScore(s, p) ==
    IF Cardinality(NodesOf(s, p)) > 1 THEN 0
    ELSE IF s.hw.links = NONE THEN Greatest({1, 8 - (Greatest(p) - Least(p))})
    ELSE IF p \in DOMAIN s.hw.links THEN s.hw.links[p] ELSE 1

GroupScore(s, g) == Sum(LAMBDA p : PairScore(s, p), kSubset(2, g))
PartitionScore(s, groups) ==
    Sum(LAMBDA i : GroupScore(s, groups[i]), DOMAIN groups)

\* itertools.combinations: the k-subsets of a sequence, in order.
RECURSIVE Combinations(_, _)
Combinations(rest, k) ==
    IF k = 0 THEN <<{}>>
    ELSE IF Len(rest) < k THEN <<>>
    ELSE LET with == Combinations(Tail(rest), k - 1)
         IN  [i \in DOMAIN with |-> {Head(rest)} \cup with[i]]
             \o Combinations(Tail(rest), k)

\* The partitions that recurse() visits: the smallest remaining GPU anchors
\* the next group, or is skipped when more GPUs remain than are needed.
RECURSIVE Visited(_, _, _)
Visited(tp, k, remaining) ==
    IF k = 0 THEN <<<<>>>>
    ELSE IF Len(remaining) < tp * k THEN <<>>
    ELSE LET combos == Combinations(Tail(remaining), tp - 1)
             Under(c) ==
                 LET tails == Visited(tp, k - 1, SelectSeq(Tail(remaining), LAMBDA g : g \notin c))
                 IN  [i \in DOMAIN tails |-> <<{Head(remaining)} \cup c>> \o tails[i]]
         IN  FlattenSeq([i \in DOMAIN combos |-> Under(combos[i])])
             \o (IF Len(remaining) > tp * k THEN Visited(tp, k, Tail(remaining)) ELSE <<>>)

\* Mutant: the last partition with the highest score (>= for >).
ExhaustiveLast(s, tp, k, ids) ==
    LET all == Visited(tp, k, Sorted(ids))
        best == Greatest({PartitionScore(s, all[i]) : i \in DOMAIN all})
    IN  all[Greatest({i \in DOMAIN all : PartitionScore(s, all[i]) = best})]

\* The first partition with the highest score.
Exhaustive(s, tp, k, ids) ==
    LET all == Visited(tp, k, Sorted(ids))
        best == Greatest({PartitionScore(s, all[i]) : i \in DOMAIN all})
    IN  all[Least({i \in DOMAIN all : PartitionScore(s, all[i]) = best})]

\* max() by (score, -index).
Preferred(S, score) ==
    Least({g \in S : \A h \in S : score[g] >= score[h]})

RECURSIVE Grow(_, _, _, _)
Grow(s, tp, group, remaining) ==
    IF Cardinality(group) = tp THEN group
    ELSE Grow(s, tp,
              group \cup {Preferred(remaining \ group,
                              [c \in remaining |-> Sum(LAMBDA m : PairScore(s, {c, m}), group)])},
              remaining)

RECURSIVE GreedyGroups(_, _, _, _)
GreedyGroups(s, tp, k, remaining) ==
    IF k = 0 THEN {}
    ELSE LET seed == Preferred(remaining,
                         [i \in remaining |-> Sum(LAMBDA j : PairScore(s, {i, j}), remaining \ {i})])
             group == Grow(s, tp, {seed}, remaining)
         IN  {group} \cup GreedyGroups(s, tp, k - 1, remaining \ group)

\* GPUGroupPlanner.plan on the GPUs of one machine.
GroupsOnNode(s, tp, k, ids) ==
    IF tp = 1 THEN [i \in 1..k |-> {Sorted(ids)[i]}]
    ELSE IF Cardinality(ids) <= ExhaustiveMax THEN Exhaustive(s, tp, k, ids)
    ELSE InOrder(GreedyGroups(s, tp, k, ids), LAMBDA g, h : Least(g) < Least(h))

\* Mutant: every machine is filled, whatever number of groups is wanted.
GroupsUncut(s, tp, k, ids) ==
    LET nodes == Sorted(NodesOf(s, ids))
        Fill(n) == GroupsOnNode(s, tp, Cardinality(OnNode(s, ids, n)) \div tp, OnNode(s, ids, n))
    IN  FlattenSeq([i \in DOMAIN nodes |-> Fill(nodes[i])])

\* _plan_per_node: every machine is filled, machine by machine, and the
\* groups beyond the wanted number are dropped.
Groups(s, tp, k, ids) ==
    IF tp = 1 \/ Cardinality(NodesOf(s, ids)) = 1 THEN GroupsOnNode(s, tp, k, ids)
    ELSE LET nodes == Sorted(NodesOf(s, ids))
             Fill(n) == GroupsOnNode(s, tp, Cardinality(OnNode(s, ids, n)) \div tp, OnNode(s, ids, n))
         IN  SubSeq(FlattenSeq([i \in DOMAIN nodes |-> Fill(nodes[i])]), 1, k)
----------------------------------------------------------------------------
(* The memory model, per GPU.                                               *)

Reserve(s, total) == Greatest({(s.cons.headroom * total) \div 100, GiB})

\* Mutant: memory that other processes use counts as available.
FreeFractionOfTotal(s, total, free) ==
    Greatest({0, Least({MaxFraction, ((total - Reserve(s, total)) * 100) \div total})})

FreeFraction(s, total, free) ==
    Greatest({0, Least({MaxFraction, ((free - Reserve(s, total)) * 100) \div total})})

\* estimate_kv: heads are sharded over the ranks, and replicated when there
\* are fewer heads than ranks; a latent cache (MLA) is replicated.
KvPerBlock(s, tp) ==
    LET m == s.model
    IN  IF m.kv = NONE THEN NONE
        ELSE IF m.mla THEN m.kv
        ELSE IF m.kvHeads < tp THEN m.kv ELSE (m.kv * m.kvHeads) \div tp

Weights(s, shards) ==
    IF s.model.weights = NONE THEN 0
    ELSE IF shards = 1 THEN s.model.weights
    ELSE (s.model.weights * 101) \div (100 * shards)

ContextLength(s) ==
    LET asked == IF s.cons.context # NONE THEN s.cons.context ELSE s.load.context
    IN  IF s.model.limit # NONE /\ s.cons.context = NONE
        THEN Least({asked, s.model.limit}) ELSE asked

Estimate(s, gpus, tp, pp) ==
    LET total == Least({s.hw.total[g] : g \in gpus})
        free == Least({s.hw.free[g] : g \in gpus})
        forced == s.cons.fraction # NONE
        fraction == IF forced THEN s.cons.fraction ELSE FreeFraction(s, total, free)
        budget == (fraction * total) \div 100
        fixed == Weights(s, tp * pp) + (25 * total) \div 1000 + CudaGraphs + Overhead
                 + (IF tp > 1 THEN CommBuffer ELSE 0)
        spare == budget - fixed
        perGpu == KvPerBlock(s, tp)
        kv == IF perGpu = NONE \/ pp = 1 THEN perGpu ELSE Greatest({1, perGpu \div pp})
        sized == s.model.weights # NONE /\ kv # NONE
        needed == IF sized THEN kv * ContextLength(s) ELSE UnknownSpare
    IN  [fraction |-> fraction,
         fits |-> /\ spare >= needed
                  /\ forced => budget <= free
                  /\ fraction >= MinFraction,
         p50 |-> IF sized /\ spare > 0 THEN (spare \div kv) \div s.load.p50 ELSE NONE,
         known |-> s.model.weights # NONE]

MaxNumSeqs(s, est) ==
    IF s.cons.concurrency # NONE THEN s.cons.concurrency
    ELSE IF est.p50 = NONE THEN 256
    ELSE Greatest({16, Least({1024, est.p50})})
----------------------------------------------------------------------------
(* Candidates.                                                              *)

Divisors(n) == {d \in 1..n : n % d = 0}
HeadsSplit(s, tp) == s.model.heads # NONE => s.model.heads % tp = 0
ExpertsSplit(s, ep) == s.model.experts # NONE => s.model.experts % ep = 0

NodeSizes(s, ids) == [n \in NodesOf(s, ids) |-> Cardinality(OnNode(s, ids, n))]
PerNode(s, ids) == Least({NodeSizes(s, ids)[n] : n \in NodesOf(s, ids)})
MaxReplicas(s, ids, tp) == Sum(LAMBDA n : NodeSizes(s, ids)[n] \div tp, NodesOf(s, ids))
IsCluster(s, ids) == Cardinality(NodesOf(s, ids)) > 1

\* The plain layout, expert parallelism, and data-parallel attention.
Variants(s, e, tp) ==
    LET moe == s.model.moe /\ tp > 1
    IN  <<[ep |-> 0, dp |-> 1, dpa |-> FALSE]>>
        \o (IF moe /\ e.ep /\ ExpertsSplit(s, tp)
            THEN <<[ep |-> tp, dp |-> 1, dpa |-> FALSE]>> ELSE <<>>)
        \o (IF moe /\ e.dpa THEN <<[ep |-> tp, dp |-> tp, dpa |-> TRUE]>> ELSE <<>>)

Supports(e, p) ==
    /\ e.runs
    /\ p.ep > 0 => e.ep
    /\ p.dpa => e.dpa
    /\ p.backend = "ray" => e.ray

Plan(s, e, v, tp, pp, groups, est, backend) ==
    [engine |-> e.name, order |-> e.order, tp |-> tp, pp |-> pp, dp |-> v.dp, ep |-> v.ep,
     dpa |-> v.dpa, replicas |-> Len(groups), groups |-> groups, context |-> ContextLength(s),
     backend |-> backend, fraction |-> est.fraction, seqs |-> MaxNumSeqs(s, est),
     viability |-> IF est.known THEN "estimated_viable" ELSE "unknown"]

\* Mutant: --engine is ignored.
WantedAll(s) == s.engines

Wanted(s) == SelectSeq(s.engines, LAMBDA e : s.cons.engine \in {NONE, e.name})

\* The plans of one tensor-parallel size, engine by engine.
PlansFor(s, ids, tp, replicas) ==
    LET groups == Groups(s, tp, replicas, ids)
        est == Estimate(s, UNION Range(groups), tp, 1)
        Of(e) == LET vs == Variants(s, e, tp)
                     ps == [i \in DOMAIN vs |-> Plan(s, e, vs[i], tp, 1, groups, est, NONE)]
                 IN  SelectSeq(ps, LAMBDA p : Supports(e, p))
        engines == Wanted(s)
    IN  IF est.fits THEN FlattenSeq([i \in DOMAIN engines |-> Of(engines[i])]) ELSE <<>>

\* One replica that spans every machine: TP inside and PP across, or one group.
Shapes(s, ids) ==
    LET n == Cardinality(NodesOf(s, ids))
        tp == PerNode(s, ids)
        both == <<<<tp, n>>>> \o (IF HeadsSplit(s, tp * n) THEN <<<<tp * n, 1>>>> ELSE <<>>)
    IN  SelectSeq(both, LAMBDA shape : s.cons.tp \in {NONE, shape[1]})

CrossNodePlans(s, ids) ==
    LET gpus == UNION {Range(SubSeq(Sorted(OnNode(s, ids, n)), 1, PerNode(s, ids)))
                           : n \in NodesOf(s, ids)}
        native(e) == s.hw.provider = "ssh" /\ e.native
        backend(e) == IF ~native(e) THEN "ray" ELSE IF e.name = "vllm" THEN "mp" ELSE "native"
        Of(e) ==
            LET shapes == SelectSeq(Shapes(s, ids), LAMBDA shape : shape[2] > 1 => e.pp)
                Est(i) == Estimate(s, gpus, shapes[i][1], shapes[i][2])
                fit == SelectSeq([i \in DOMAIN shapes |-> i], LAMBDA i : Est(i).fits)
                ps == [j \in DOMAIN fit |->
                         Plan(s, e, [ep |-> 0, dp |-> 1, dpa |-> FALSE], shapes[fit[j]][1],
                              shapes[fit[j]][2], <<gpus>>, Est(fit[j]), backend(e))]
            IN  IF e.ray \/ native(e) THEN SelectSeq(ps, LAMBDA p : Supports(e, p)) ELSE <<>>
        engines == Wanted(s)
    IN  IF s.cons.replicas \in {NONE, 1}
        THEN FlattenSeq([i \in DOMAIN engines |-> Of(engines[i])]) ELSE <<>>

\* structural_key(): a plan without its tunable knobs.
Key(p) == [f \in DOMAIN p \ {"order", "fraction", "seqs", "viability"} |-> p[f]]

Dedupe(ps) ==
    LET firsts == {i \in DOMAIN ps : \A j \in 1..(i - 1) : Key(ps[j]) # Key(ps[i])}
        order == Sorted(firsts)
    IN  [k \in DOMAIN order |-> ps[order[k]]]

\* _rank: a stable sort by (tp, pp, variant, engine), large tp first for latency.
RankKey(s, p) ==
    <<IF s.load.latency THEN 0 - p.tp ELSE p.tp, p.pp, IF p.ep > 0 \/ p.dpa THEN 1 ELSE 0, p.order>>
Before(a, b) == \E i \in DOMAIN a : a[i] < b[i] /\ \A j \in 1..(i - 1) : a[j] = b[j]
Rank(s, ps) ==
    LET less(i, j) == Before(RankKey(s, ps[i]) \o <<i>>, RankKey(s, ps[j]) \o <<j>>)
        order == InOrder(DOMAIN ps, less)
    IN  [k \in DOMAIN order |-> ps[order[k]]]
----------------------------------------------------------------------------
Fail(why) == error' = why /\ phase' = "done" /\ UNCHANGED <<todo, plans, excluded>>

\* The exceptions of select_gpus, resolve_context_length and the checks before
\* the first candidate, in their order; NONE when planning can begin.
Refused(s, ids) ==
    CASE s.engines = <<>> -> "no_viable_plan"
      [] DOMAIN s.hw.node = {} -> "hardware"
      [] ~(ids \subseteq DOMAIN s.hw.node) -> "configuration"
      [] \E g, h \in ids : <<s.hw.kind[g], s.hw.total[g]>> # <<s.hw.kind[h], s.hw.total[h]>> -> "hardware"
      [] /\ s.model.limit # NONE /\ s.cons.context = NONE
         /\ s.load.context > s.model.limit /\ s.load.p95 > s.model.limit -> "configuration"
      [] /\ s.model.limit # NONE /\ ~s.cons.override
         /\ ContextLength(s) > s.model.limit -> "configuration"
      [] /\ s.cons.tp # NONE /\ s.cons.tp \notin Divisors(PerNode(s, ids))
         /\ ~(s.cons.tp > PerNode(s, ids) /\ IsCluster(s, ids)) -> "configuration"
      [] OTHER -> NONE

Start ==
    /\ phase = "start"
    /\ LET ids == IF input.cons.gpus = NONE THEN DOMAIN input.hw.node ELSE input.cons.gpus
           why == Refused(input, ids)
           sizes == Divisors(PerNode(input, ids))
       IN  /\ selected' = ids
           /\ \/ why # NONE /\ Fail(why)
              \/ /\ why = NONE
                 /\ todo' = Sorted(IF input.cons.tp = NONE THEN sizes
                                   ELSE sizes \cap {input.cons.tp})
                 /\ phase' = "tp"
                 /\ UNCHANGED <<plans, excluded, error>>
    /\ UNCHANGED <<input, previous>>

TryTp ==
    /\ phase = "tp" /\ todo # <<>>
    /\ LET tp == Head(todo)
           most == MaxReplicas(input, selected, tp)
           replicas == IF input.cons.replicas = NONE THEN most ELSE input.cons.replicas
           found == PlansFor(input, selected, tp, replicas)
       IN  \/ /\ ~HeadsSplit(input, tp)
              /\ excluded' = excluded \cup {<<tp, "heads">>}
              /\ todo' = Tail(todo)
              /\ UNCHANGED <<plans, phase, error>>
           \/ HeadsSplit(input, tp) /\ replicas > most /\ Fail("configuration")
           \/ /\ HeadsSplit(input, tp) /\ replicas <= most
              /\ plans' = plans \o found
              /\ excluded' = IF found = <<>> THEN excluded \cup {<<tp, "unfit">>} ELSE excluded
              /\ todo' = Tail(todo)
              /\ UNCHANGED <<phase, error>>
    /\ UNCHANGED <<input, selected, previous>>

CrossNode ==
    /\ phase = "tp" /\ todo = <<>>
    /\ phase' = "finish"
    /\ plans' = IF IsCluster(input, selected) /\ (plans = <<>> \/ input.hw.provider = "ssh")
                THEN plans \o CrossNodePlans(input, selected) ELSE plans
    /\ UNCHANGED <<input, selected, todo, excluded, error, previous>>

Finish ==
    /\ phase = "finish"
    /\ phase' = "done"
    /\ plans' = Rank(input, Dedupe(plans))
    /\ error' = IF plans = <<>> THEN "no_viable_plan" ELSE NONE
    /\ UNCHANGED <<input, selected, todo, excluded, previous>>

\* The user plans again with one more option on the command line.
Rerun ==
    /\ phase = "done" /\ previous = NONE
    /\ \E o \in Options : input' = [input EXCEPT !.cons = [@ EXCEPT ![o.field] = o.value]]
    /\ previous' = [plans |-> plans, error |-> error]
    /\ phase' = "start" /\ todo' = <<>> /\ plans' = <<>> /\ excluded' = {} /\ error' = NONE
    /\ UNCHANGED selected

Init ==
    /\ input \in Scenarios
    /\ phase = "start" /\ selected = {} /\ todo = <<>> /\ plans = <<>>
    /\ excluded = {} /\ error = NONE /\ previous = NONE

Next == Start \/ TryTp \/ CrossNode \/ Finish \/ Rerun

Spec == Init /\ [][Next]_vars
----------------------------------------------------------------------------
(* Properties of a finished planning.                                       *)

Planned == phase = "done" /\ error = NONE
Candidates == IF Planned THEN Range(plans) ELSE {}
InMachine(ps) == {p \in ps : p.backend = NONE}

\* validate_proposal: what an experiment with the plan is refused for, given the
\* inventory, the engines and the traffic that a run has frozen.
Rejections(s, p) ==
    LET gpus == UNION Range(p.groups)
        size == p.tp * p.pp * (IF p.dpa THEN 1 ELSE p.dp)
        engine == SelectSeq(s.engines, LAMBDA e : e.name = p.engine)
        wrong(name, refused) == IF refused THEN {name} ELSE {}
    IN  wrong("engine", engine = <<>>)
        \cup wrong("groups", p.groups = <<>> \/ Len(p.groups) # p.replicas)
        \cup wrong("shared", \E i, j \in DOMAIN p.groups :
                                i # j /\ p.groups[i] \cap p.groups[j] # {})
        \cup wrong("inventory", ~(gpus \subseteq DOMAIN s.hw.node))
        \cup wrong("size", \E g \in Range(p.groups) : g = {} \/ Cardinality(g) # size)
        \cup wrong("context", p.context < s.load.context)
        \cup wrong("memory", ~(p.fraction \in 1..99))
        \cup wrong("limits", p.seqs < 1)
        \cup wrong("nodes", \E g \in Range(p.groups) :
                               Cardinality(NodesOf(s, g)) > 1 /\ p.backend = NONE)
        \cup wrong("support", engine # <<>> /\ ~Supports(engine[1], p))

\* A candidate has as many groups as the user or the machines ask for, of selected
\* GPUs, and the optimizer, whose baselines are candidates (workflow.py:547-556), may
\* run it: the only thing it can refuse is the context, which the planner has capped
\* at the model's limit while an experiment must keep all that the traffic needs.
PlacementSound ==
    \A p \in Candidates :
        /\ p.replicas = IF p.backend # NONE THEN 1
                        ELSE IF input.cons.replicas # NONE THEN input.cons.replicas
                        ELSE MaxReplicas(input, selected, p.tp)
        /\ UNION Range(p.groups) \subseteq selected
        /\ Rejections(input, p) \subseteq
              IF ContextLength(input) < input.load.context THEN {"context"} ELSE {}

\* Reference for the search of gpu_groups.py: among all ways to cut k groups
\* out of a machine none is better connected than the one planned, and of the
\* equally good ones the planned one has the lowest indices.
Families(S, size, k) ==
    {F \in kSubset(k, kSubset(size, S)) : \A g, h \in F : g = h \/ g \cap h = {}}
Listed(F) ==
    LET gs == InOrder(F, LAMBDA g, h : Least(g) < Least(h))
    IN  FlattenSeq([i \in DOMAIN gs |-> Sorted(gs[i])])
FamilyScore(F) == Sum(LAMBDA g : GroupScore(input, g), F)

\* The groups of every machine that is searched exhaustively are the best, as
\* the docstring of gpu_groups.py promises.  On a cluster this is stated of
\* plans that fill it: with fewer replicas the surplus groups are dropped.
BestGroups ==
    \A p \in InMachine(Candidates) : \A n \in NodesOf(input, selected) :
        LET here == OnNode(input, selected, n)
            mine == {g \in Range(p.groups) : g \subseteq here}
        IN  (/\ p.tp > 1 /\ Cardinality(here) <= ExhaustiveMax
             /\ IsCluster(input, selected) => p.replicas = MaxReplicas(input, selected, p.tp))
            => \A F \in Families(here, p.tp, Cardinality(mine)) :
                  \/ FamilyScore(F) < FamilyScore(mine)
                  \/ /\ FamilyScore(F) = FamilyScore(mine)
                     /\ ~Before(Listed(F), Listed(mine))

\* What a viable candidate lets its engine claim is free on every GPU of its
\* groups, beyond the reserve unless the user forced the fraction, and the GPUs
\* of a replica together hold the weights and one sequence of full length.
MemorySafe ==
    \A p \in Candidates : \A i \in DOMAIN p.groups :
        LET claim(g) == (p.fraction * input.hw.total[g]) \div 100
            reserve(g) == IF input.cons.fraction # NONE THEN 0 ELSE Reserve(input, input.hw.total[g])
            m == input.model
        IN  /\ \A g \in p.groups[i] : claim(g) + reserve(g) <= input.hw.free[g]
            /\ (m.weights # NONE /\ m.kv # NONE) =>
                  Sum(claim, p.groups[i])
                    >= m.weights + p.context * m.kv * (IF m.mla THEN 1 ELSE m.kvHeads)

\* Options narrow the search (docs/planner.md): with --tp or --engine the
\* planning finds exactly those of its in-machine layouts that have the value,
\* and less headroom never loses a layout.
Narrows ==
    (phase = "done" /\ previous # NONE /\ previous.error = NONE) =>
        LET before == InMachine(Range(previous.plans))
            now == InMachine(Candidates)
            Keys(ps) == {Key(p) : p \in ps}
            added == {f \in {"tp", "engine"} : input.cons[f] # NONE}
        IN  IF added # {} THEN Keys(now) = Keys({p \in before : \A f \in added : p[f] = input.cons[f]})
            ELSE input.cons.replicas = NONE => Keys(before) \subseteq Keys(now)
=============================================================================
