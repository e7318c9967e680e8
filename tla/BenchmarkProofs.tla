-------------------------- MODULE BenchmarkProofs ---------------------------
(***************************************************************************)
(* For any requests, concurrency and answers: the load of a measurement is  *)
(* the one that the spec names, every request of a report is accounted for, *)
(* and a run that is over has left nothing on the engine.                   *)
(***************************************************************************)
EXTENDS Benchmark, FiniteSetTheorems, TLAPS

Gathered == [text : Nat, first : BOOLEAN, usage : Nat \cup {NONE}, finished : BOOLEAN]

TypeOK ==
    /\ spec \in [open : BOOLEAN, stream : BOOLEAN, trust : BOOLEAN, gpu : BOOLEAN]
    /\ phase \in Phases
    /\ sent \subseteq Jobs /\ backlog \subseteq Jobs
    /\ seen \in [Jobs -> Gathered]
    /\ results \in [Requests -> Results \cup {NONE}]

Idle == sent = {} /\ backlog = {}

\* Before the measurement only warm-up requests are about.
EarlyOK ==
    phase \in {"starting", "warmup"} =>
        /\ Answered = {} /\ sent \subseteq Warmups /\ backlog \subseteq Warmups
        /\ phase = "starting" => Idle

\* A request that has arrived waits, is in flight or is answered, and requests wait only
\* while every place is taken.
LoadOK ==
    phase = "measuring" =>
        /\ arrived \subseteq Requests /\ Answered \subseteq arrived
        /\ sent \cup backlog = arrived \ Answered /\ sent \cap backlog = {}
        /\ Cardinality(sent) <= Concurrency
        /\ backlog # {} => Cardinality(sent) = Concurrency

\* A measurement that came to its end has all its answers; a run that is over is quiet.
OverOK ==
    /\ phase \in {"closing", "observing", "reported", "failed", "cancelled"} => Idle
    /\ phase \in {"closing", "observing"} => Answered = Requests
    /\ report # NONE => phase = "reported" /\ report.total = Cardinality(Requests)

\* Without streaming there is no first token to take the time of.
PlainOK ==
    ~spec.stream =>
        /\ \A r \in Answered : ~results[r].timed
        /\ report # NONE => report.timed = 0

IInv == TypeOK /\ EarlyOK /\ LoadOK /\ OverOK /\ PlainOK

-----------------------------------------------------------------------------
(* Lemmas about the operators *)

\* Among the initial segments 0..x of the elements one has no smaller one inside it, so a
\* set of natural numbers that is not empty has a smallest element.
LEMMA SmallestOf ==
    ASSUME NEW S, S \subseteq Nat, S # {}
    PROVE  Min(S) \in S /\ \A y \in S : Min(S) <= y
<1> DEFINE T == {0..x : x \in S}
<1>1. T \subseteq FiniteSubsetsOf(Nat) /\ T # {}
  <2>1. ASSUME NEW x \in S PROVE 0..x \in FiniteSubsetsOf(Nat)
    <3>1. x \in Int /\ 0..x \subseteq Nat
      OBVIOUS
    <3>. QED  BY <3>1, FS_Interval DEF FiniteSubsetsOf
  <2>. QED  BY <2>1
<1>2. PICK t \in T : \A u \in T : <<u, t>> \notin StrictSubsetOrdering(Nat)
  <2> HIDE DEF T
  <2>. QED  BY <1>1, WFMin, FS_StrictSubsetOrderingWellFounded
<1>3. PICK x \in S : t = 0..x
  BY <1>2
<1>4. \A y \in S : x <= y
  <2> SUFFICES ASSUME NEW y \in S, y < x PROVE FALSE
    OBVIOUS
  <2>1. 0..y \subseteq 0..x /\ x \in 0..x /\ x \notin 0..y /\ 0..x \subseteq Nat
    OBVIOUS
  <2>2. <<0..y, 0..x>> \in StrictSubsetOrdering(Nat)
    <3>1. 0..y \subseteq Nat /\ 0..y # 0..x
      BY <2>1
    <3>. QED  BY <2>1, <3>1 DEF StrictSubsetOrdering
  <2>3. 0..y \in T
    OBVIOUS
  <2>. QED  BY <1>2, <1>3, <2>2, <2>3
<1>. QED  BY <1>4 DEF Min

\* The smaller of two numbers.
LEMMA SmallerOf ==
    ASSUME NEW a \in Nat, NEW b \in Nat
    PROVE  Min({a, b}) = IF a <= b THEN a ELSE b
<1>1. Min({a, b}) \in {a, b} /\ \A y \in {a, b} : Min({a, b}) <= y
  BY SmallestOf
<1> DEFINE m == Min({a, b})
<1> HIDE DEF m
<1>2. (m = a \/ m = b) /\ m <= a /\ m <= b
  BY <1>1 DEF m
<1>3. m = IF a <= b THEN a ELSE b
  BY <1>2
<1>. QED  BY <1>3 DEF m

\* Requests and the subsets of them are counted by numbers.
LEMMA RequestsCount ==
    ASSUME NEW S, S \subseteq Requests
    PROVE  /\ IsFiniteSet(S) /\ Cardinality(S) \in Nat
           /\ \A T \in SUBSET S : Cardinality(T) <= Cardinality(S)
<1>1. IsFiniteSet(S)
  BY FS_Subset, BenchmarkAssumption
<1>. QED  BY <1>1, FS_CardinalityType, FS_Subset

\* Every place is taken, or nothing waits.
LEMMA FillFacts ==
    ASSUME NEW js, IsFiniteSet(js), Fill(js)
    PROVE  /\ arrived' = js /\ sent' \cup backlog' = js /\ sent' \cap backlog' = {}
           /\ Cardinality(sent') <= Concurrency
           /\ backlog' # {} => Cardinality(sent') = Concurrency
<1>1. PICK first \in SUBSET js :
        /\ Cardinality(first) = Min({Concurrency, Cardinality(js)})
        /\ arrived' = js /\ sent' = first /\ backlog' = js \ first
  BY DEF Fill
<1> DEFINE n == Cardinality(js)
           m == Cardinality(first)
<1>2. n \in Nat /\ Concurrency \in Nat
  BY FS_CardinalityType, BenchmarkAssumption
<1>3. m = IF Concurrency <= n THEN Concurrency ELSE n
  BY <1>1, <1>2, SmallerOf
<1>4. m = n => first = js
  BY <1>1, FS_Subset
<1> HIDE DEF n, m
<1>5. m <= Concurrency /\ (m = Concurrency \/ m = n)
  BY <1>2, <1>3
<1>. QED  BY <1>1, <1>4, <1>5 DEF n, m

\* What the client makes of an answer is a result.
LEMMA JudgedIsResult ==
    ASSUME NEW s \in Gathered, NEW end,
           spec \in [open : BOOLEAN, stream : BOOLEAN, trust : BOOLEAN, gpu : BOOLEAN]
    PROVE  JudgeStream(s, end) \in Results /\ JudgeBody(s, end) \in Results
           /\ ~JudgeBody(s, end).timed
<1>1. s.text \in Nat /\ s.first \in BOOLEAN /\ s.usage \in Nat \cup {NONE}
  BY DEF Gathered
<1>2. Tokens(s) \in Nat
  BY <1>1 DEF Tokens
<1>3. \A timed \in BOOLEAN : Counted(s, timed) \in Results
  BY <1>2 DEF Counted, Results
<1>4. Failure \in Results
  BY DEF Failure, Results
<1>5. ~JudgeBody(s, end).timed
  BY DEF JudgeBody, Counted, Failure
<1>. QED  BY <1>1, <1>3, <1>4, <1>5 DEF JudgeStream, JudgeBody

\* What the client has gathered of an answer stays of its kind with every chunk.
LEMMA ReadIsGathered ==
    ASSUME NEW s \in Gathered, NEW c \in Chunks
    PROVE  Read(s, c) \in Gathered
<1>1. c \in [text : Nat, usage : Nat \cup {NONE}, finish : BOOLEAN]
  BY BenchmarkAssumption
<1>2. s.text + c.text \in Nat
  BY <1>1 DEF Gathered
<1>3. /\ (s.first \/ c.text > 0) \in BOOLEAN /\ (s.finished \/ c.finish) \in BOOLEAN
      /\ (IF c.usage # NONE THEN c.usage ELSE s.usage) \in Nat \cup {NONE}
  BY <1>1 DEF Gathered
<1>. QED  BY <1>2, <1>3 DEF Read, Gathered

\* The sums of the tokens of the first chunks of s, from none of them to all.
IsSum(s, g) == g = [n \in 0..Len(s) |-> IF n = 0 THEN 0 ELSE g[n - 1] + s[n].text]

\* Answers that begin alike have the same sums so far.
LEMMA SumsAgree ==
    ASSUME NEW s \in Seq(Chunks), NEW t \in Seq(Chunks), NEW g, NEW h, IsSum(s, g), IsSum(t, h),
           NEW k \in Nat, k <= Len(s), k <= Len(t), \A i \in 1..k : s[i] = t[i]
    PROVE  \A n \in 0..k : g[n] = h[n]
<1> DEFINE S == {n \in 0..k : g[n] # h[n]}
<1> SUFFICES ASSUME S # {} PROVE FALSE
  OBVIOUS
<1>1. PICK m \in S : \A n \in S : m <= n
  <2>1. S \subseteq Nat
    OBVIOUS
  <2> HIDE DEF S
  <2>. QED  BY <2>1, SmallestOf
<1>2. m \in 0..k /\ m \in 0..Len(s) /\ m \in 0..Len(t) /\ g[m] # h[m]
  OBVIOUS
<1>3. /\ g[m] = IF m = 0 THEN 0 ELSE g[m - 1] + s[m].text
      /\ h[m] = IF m = 0 THEN 0 ELSE h[m - 1] + t[m].text
  BY <1>2 DEF IsSum
<1>4. m # 0
  BY <1>2, <1>3
<1>5. m \in 1..k /\ m - 1 \in 0..k /\ m - 1 \notin S
  BY <1>1, <1>2, <1>4
<1>6. g[m - 1] = h[m - 1] /\ s[m] = t[m]
  BY <1>5
<1>. QED  BY <1>2, <1>3, <1>4, <1>6

\* One more chunk extends the sums.
LEMMA SumsExtend ==
    ASSUME NEW s \in Seq(Chunks), NEW t \in Seq(Chunks), NEW g, IsSum(s, g),
           Len(t) = Len(s) + 1, \A i \in 1..Len(s) : t[i] = s[i]
    PROVE  \E h : IsSum(t, h) /\ h[Len(t)] = g[Len(s)] + t[Len(t)].text
<1> DEFINE N == Len(s)
           h == [n \in 0..(N + 1) |-> IF n = N + 1 THEN g[N] + t[N + 1].text ELSE g[n]]
<1>1. N \in Nat
  OBVIOUS
<1>2. \A n \in 0..N : g[n] = IF n = 0 THEN 0 ELSE g[n - 1] + s[n].text
  BY DEF IsSum
<1>3. \A n \in 0..(N + 1) : h[n] = IF n = 0 THEN 0 ELSE h[n - 1] + t[n].text
  <2> TAKE n \in 0..(N + 1)
  <2>1. CASE n = 0
    BY <1>1, <1>2, <2>1
  <2>2. CASE n \in 1..N
    <3>1. h[n] = g[n] /\ h[n - 1] = g[n - 1] /\ n \in 0..N
      BY <1>1, <2>2
    <3>. QED  BY <1>2, <2>2, <3>1
  <2>3. CASE n = N + 1
    BY <1>1, <2>3
  <2>. QED  BY <1>1, <2>1, <2>2, <2>3
<1>4. h = [n \in 0..(N + 1) |-> IF n = 0 THEN 0 ELSE h[n - 1] + t[n].text]
  BY <1>3
<1>5. h[N + 1] = g[N] + t[N + 1].text
  BY <1>1
<1> HIDE DEF h
<1>. QED  BY <1>4, <1>5 DEF IsSum

\* Every answer has its sums: a shortest one without them would have a longer beginning
\* that has none either.
LEMMA SumsExist == \A s \in Seq(Chunks) : \E g : IsSum(s, g)
<1> DEFINE Bad(s) == \A g : ~IsSum(s, g)
           S == {n \in Nat : \E s \in Seq(Chunks) : Len(s) = n /\ Bad(s)}
<1> SUFFICES ASSUME S # {} PROVE FALSE
  OBVIOUS
<1>1. PICK m \in S : \A n \in S : m <= n
  <2>1. S \subseteq Nat
    OBVIOUS
  <2> HIDE DEF S
  <2>. QED  BY <2>1, SmallestOf
<1>2. PICK s \in Seq(Chunks) : Len(s) = m /\ Bad(s)
  OBVIOUS
<1>3. CASE m = 0
  <2> DEFINE h == [n \in 0..0 |-> 0]
  <2>1. h = [n \in 0..Len(s) |-> IF n = 0 THEN 0 ELSE h[n - 1] + s[n].text]
    BY <1>2, <1>3
  <2> HIDE DEF h
  <2>2. IsSum(s, h)
    BY <2>1 DEF IsSum
  <2>. QED  BY <1>2, <2>2
<1>4. CASE m # 0
  <2> DEFINE t == [i \in 1..(m - 1) |-> s[i]]
  <2>1. m - 1 \in Nat /\ m - 1 < m
    BY <1>4
  <2>2. t \in Seq(Chunks) /\ Len(t) = m - 1
    BY <1>2, <2>1
  <2>3. \A i \in 1..Len(t) : s[i] = t[i]
    BY <2>2
  <2>4. m - 1 \notin S
    BY <1>1, <2>1
  <2> HIDE DEF t
  <2>5. PICK g : IsSum(t, g)
    BY <2>1, <2>2, <2>4
  <2>6. Len(s) = Len(t) + 1
    BY <1>2, <2>1, <2>2
  <2>. QED  BY <1>2, <2>2, <2>3, <2>5, <2>6, SumsExtend
<1>. QED  BY <1>3, <1>4

\* The text of an answer is the last of its sums.
LEMMA TextOfSums ==
    ASSUME NEW s \in Seq(Chunks), NEW g, IsSum(s, g)
    PROVE  TextOf(s) = g[Len(s)]
<1>1. ASSUME NEW h, IsSum(s, h) PROVE h = g
  <2>1. \A n \in 0..Len(s) : h[n] = g[n]
    BY <1>1, SumsAgree
  <2>2. /\ h = [n \in 0..Len(s) |-> h[n]] /\ g = [n \in 0..Len(s) |-> g[n]]
    BY <1>1 DEF IsSum
  <2>. QED  BY <2>1, <2>2
<1>. QED  BY <1>1 DEF TextOf, IsSum

\* A chunk adds its tokens to the text of an answer.
LEMMA TextOfAppend ==
    /\ TextOf(<<>>) = 0
    /\ \A s \in Seq(Chunks), c \in Chunks : TextOf(Append(s, c)) = TextOf(s) + c.text
<1>1. TextOf(<<>>) = 0
  <2>1. <<>> \in Seq(Chunks) /\ Len(<<>>) = 0
    OBVIOUS
  <2>2. PICK g : IsSum(<<>>, g)
    BY <2>1, SumsExist
  <2>3. g[0] = 0
    BY <2>1, <2>2 DEF IsSum
  <2>. QED  BY <2>1, <2>2, <2>3, TextOfSums
<1>2. ASSUME NEW s \in Seq(Chunks), NEW c \in Chunks
      PROVE  TextOf(Append(s, c)) = TextOf(s) + c.text
  <2> DEFINE t == Append(s, c)
  <2>1. t \in Seq(Chunks) /\ Len(t) = Len(s) + 1 /\ t[Len(t)] = c
        /\ \A i \in 1..Len(s) : t[i] = s[i]
    OBVIOUS
  <2>2. PICK g : IsSum(s, g)
    BY SumsExist
  <2> HIDE DEF t
  <2>3. PICK h : IsSum(t, h) /\ h[Len(t)] = g[Len(s)] + t[Len(t)].text
    BY <2>1, <2>2, SumsExtend
  <2>4. TextOf(s) = g[Len(s)] /\ TextOf(t) = h[Len(t)]
    BY <2>1, <2>2, <2>3, TextOfSums
  <2>. QED  BY <2>1, <2>3, <2>4 DEF t
<1>. QED  BY <1>1, <1>2

\* A set of numbers up to n that is not empty has a greatest element.
LEMMA GreatestOf ==
    ASSUME NEW n \in Nat, NEW S, S \subseteq 1..n, S # {}
    PROVE  Max(S) \in S /\ \A y \in S : Max(S) >= y
<1> DEFINE D == {n - x : x \in S}
<1>1. PICK d \in D : \A e \in D : d <= e
  <2>1. \A x \in S : n - x \in Nat
    OBVIOUS
  <2>2. D \subseteq Nat /\ D # {}
    BY <2>1
  <2> HIDE DEF D
  <2>. QED  BY <2>2, SmallestOf
<1>2. PICK x \in S : d = n - x
  BY <1>1
<1>3. \A y \in S : x >= y
  <2> TAKE y \in S
  <2>1. n - y \in D
    OBVIOUS
  <2>2. x \in Int /\ y \in Int /\ d <= n - y
    BY <1>1, <2>1
  <2>. QED  BY <1>2, <2>2
<1>. QED  BY <1>3 DEF Max

\* The usage count of an answer is that of the last chunk that has one.
LEMMA LastUsageAppend ==
    /\ LastUsage(<<>>) = NONE
    /\ \A s \in Seq(Chunks), c \in Chunks :
          LastUsage(Append(s, c)) = IF c.usage # NONE THEN c.usage ELSE LastUsage(s)
<1>1. LastUsage(<<>>) = NONE
  BY DEF LastUsage
<1>2. ASSUME NEW s \in Seq(Chunks), NEW c \in Chunks
      PROVE  LastUsage(Append(s, c)) = IF c.usage # NONE THEN c.usage ELSE LastUsage(s)
  <2> DEFINE t == Append(s, c)
             N == Len(s)
             G == {i \in DOMAIN s : s[i].usage # NONE}
             H == {i \in DOMAIN t : t[i].usage # NONE}
  <2>1. N \in Nat /\ DOMAIN s = 1..N /\ DOMAIN t = 1..(N + 1) /\ t[N + 1] = c
        /\ \A i \in 1..N : t[i] = s[i]
    OBVIOUS
  <2> HIDE DEF t, N
  <2>2. G \subseteq 1..N /\ H \subseteq 1..(N + 1)
    BY <2>1
  <2>3. CASE c.usage # NONE
    <3>1. N + 1 \in H
      BY <2>1, <2>3
    <3>2. Max(H) \in H /\ \A y \in H : Max(H) >= y
      <4> HIDE DEF H
      <4>1. N + 1 \in Nat /\ H # {}
        BY <2>1, <3>1
      <4>. QED  BY <2>2, <4>1, GreatestOf
    <3>3. Max(H) = N + 1
      <4> DEFINE m == Max(H)
      <4>1. m \in 1..(N + 1) /\ m >= N + 1
        BY <2>2, <3>1, <3>2
      <4> HIDE DEF m
      <4>2. m = N + 1
        BY <2>1, <4>1
      <4>. QED  BY <4>2 DEF m
    <3>4. LastUsage(t) = t[Max(H)].usage
      BY <3>1 DEF LastUsage
    <3>. QED  BY <2>1, <2>3, <3>3, <3>4 DEF t
  <2>4. CASE c.usage = NONE
    <3>1. H = G
      BY <2>1, <2>4
    <3>2. CASE G = {}
      BY <2>4, <3>1, <3>2 DEF LastUsage, t
    <3>3. CASE G # {}
      <4>1. Max(G) \in 1..N
        <5> HIDE DEF G
        <5>. QED  BY <2>1, <2>2, <3>3, GreatestOf
      <4>2. LastUsage(t) = t[Max(G)].usage /\ LastUsage(s) = s[Max(G)].usage
        BY <3>1, <3>3 DEF LastUsage
      <4>. QED  BY <2>1, <2>4, <4>1, <4>2 DEF t
    <3>. QED  BY <3>2, <3>3
  <2>. QED  BY <2>3, <2>4
<1>. QED  BY <1>1, <1>2

-----------------------------------------------------------------------------
(* Steps *)

\* Before the warm-up nothing is about.
LEMMA InitEstablishes == Init => IInv
<1> SUFFICES ASSUME Init PROVE IInv
  OBVIOUS
<1>1. TypeOK
  <2>1. Unread \in Gathered
    BY DEF Unread, Gathered
  <2>. QED  BY <2>1 DEF Init, TypeOK, Phases
<1>2. Answered = {}
  BY DEF Init, Answered
<1>. QED  BY <1>1, <1>2 DEF Init, IInv, EarlyOK, LoadOK, OverOK, PlainOK, Idle

\* A step to a phase of the end, with everything answered or nothing promised.
LEMMA LaterPhase ==
    ASSUME IInv, phase' \in {"closing", "observing", "leaving", "failed", "cancelled"},
           UNCHANGED <<spec, results, report>>, TypeOK', phase # "reported",
           phase' # "leaving" => Idle',
           phase' \in {"closing", "observing"} => Answered = Requests
    PROVE  IInv'
<1>1. EarlyOK' /\ LoadOK'
  BY DEF EarlyOK, LoadOK
<1>2. OverOK'
  BY DEF IInv, OverOK, Answered
<1>3. PlainOK'
  BY DEF IInv, PlainOK, Answered
<1>. QED  BY <1>1, <1>2, <1>3 DEF IInv

\* The warm-up requests go out as far as there are places; those of the spec do not.
LEMMA BeginWarmupKeeps == IInv /\ BeginWarmup => IInv'
<1> SUFFICES ASSUME IInv, BeginWarmup PROVE IInv'
  OBVIOUS
<1>1. sent' \cup backlog' = Warmups
  BY FillFacts, BenchmarkAssumption DEF BeginWarmup
<1>2. phase = "starting" /\ phase' = "warmup" /\ UNCHANGED <<spec, seen, results, report>>
  BY DEF BeginWarmup, answerVars
<1>3. TypeOK'
  BY <1>1, <1>2 DEF IInv, TypeOK, Phases, Jobs
<1>4. EarlyOK'
  BY <1>1, <1>2 DEF IInv, EarlyOK, Answered
<1>. QED  BY <1>2, <1>3, <1>4 DEF IInv, LoadOK, OverOK, PlainOK, Answered

\* The measurement begins with nothing answered: the requests of the warm-up are others.
LEMMA BeginMeasuringKeeps == IInv /\ BeginMeasuring => IInv'
<1> SUFFICES ASSUME IInv, BeginMeasuring PROVE IInv'
  OBVIOUS
<1>1. phase = "warmup" /\ UNCHANGED <<spec, seen, results, report>> /\ Answered = {}
  BY DEF BeginMeasuring, answerVars, IInv, EarlyOK
<1>2. report = NONE
  BY <1>1 DEF IInv, OverOK
<1>3. CASE phase' = "measuring" /\ Fill(Requests)
  <2>1. /\ arrived' = Requests /\ sent' \cup backlog' = Requests /\ sent' \cap backlog' = {}
        /\ Cardinality(sent') <= Concurrency
        /\ backlog' # {} => Cardinality(sent') = Concurrency
    BY <1>3, FillFacts, BenchmarkAssumption
  <2>2. TypeOK'
    BY <1>1, <1>3, <2>1 DEF IInv, TypeOK, Phases, Jobs
  <2>3. Answered' = {}
    BY <1>1 DEF Answered
  <2>4. LoadOK'
    BY <2>1, <2>3 DEF LoadOK
  <2>. QED  BY <1>1, <1>2, <1>3, <2>2, <2>3, <2>4
        DEF IInv, EarlyOK, OverOK, PlainOK
<1>4. CASE phase' \in {"measuring", "failed"} /\ arrived' = {} /\ backlog' = {} /\ sent' = {}
  <2>1. TypeOK'
    BY <1>1, <1>4 DEF IInv, TypeOK, Phases
  <2>2. Answered' = {}
    BY <1>1 DEF Answered
  <2>3. LoadOK'
    <3>1. Cardinality(sent') = 0 /\ 0 <= Concurrency
      BY <1>4, FS_EmptySet, BenchmarkAssumption
    <3>. QED  BY <1>4, <2>2, <3>1 DEF LoadOK
  <2>. QED  BY <1>1, <1>2, <1>4, <2>1, <2>2, <2>3
        DEF IInv, EarlyOK, OverOK, PlainOK, Idle
<1>. QED  BY <1>1, <1>3, <1>4 DEF BeginMeasuring

\* The open loop's next task takes a place, or waits because there is none.
LEMMA ArriveKeeps == IInv /\ Arrive => IInv'
<1> SUFFICES ASSUME IInv, Arrive PROVE IInv'
  OBVIOUS
<1> DEFINE r == Min(Requests \ arrived)
<1>1. /\ phase = "measuring" /\ UNCHANGED <<spec, phase, seen, results, report>>
      /\ arrived' = arrived \cup {r} /\ arrived # Requests
      /\ \/ backlog = {} /\ Cardinality(sent) < Concurrency
            /\ sent' = sent \cup {r} /\ backlog' = backlog
         \/ ~(backlog = {} /\ Cardinality(sent) < Concurrency)
            /\ sent' = sent /\ backlog' = backlog \cup {r}
  BY DEF Arrive, answerVars
<1>2. /\ arrived \subseteq Requests /\ Answered \subseteq arrived
      /\ sent \cup backlog = arrived \ Answered /\ sent \cap backlog = {}
      /\ Cardinality(sent) <= Concurrency
      /\ backlog # {} => Cardinality(sent) = Concurrency
  BY <1>1 DEF IInv, LoadOK
<1>3. r \in Requests /\ r \notin arrived
  <2>1. Requests \ arrived \subseteq Nat /\ Requests \ arrived # {}
    BY <1>1, <1>2, BenchmarkAssumption
  <2>2. Min(Requests \ arrived) \in Requests \ arrived
    BY <2>1, SmallestOf
  <2>. QED  BY <2>2
<1> HIDE DEF r
<1>4. IsFiniteSet(sent) /\ Cardinality(sent) \in Nat /\ Concurrency \in Nat
  <2>1. sent \subseteq Requests
    BY <1>2
  <2>. QED  BY <2>1, RequestsCount, BenchmarkAssumption
<1>5. Cardinality(sent \cup {r}) = Cardinality(sent) + 1
  BY <1>2, <1>3, <1>4, FS_AddElement
<1>6. TypeOK'
  BY <1>1, <1>3 DEF IInv, TypeOK, Jobs
<1>7. Answered' = Answered
  BY <1>1 DEF Answered
<1>8. /\ arrived' \subseteq Requests /\ Answered \subseteq arrived'
      /\ sent' \cup backlog' = arrived' \ Answered /\ sent' \cap backlog' = {}
  BY <1>1, <1>2, <1>3
<1>9. Cardinality(sent') <= Concurrency /\ (backlog' # {} => Cardinality(sent') = Concurrency)
  <2>1. CASE backlog = {} /\ Cardinality(sent) < Concurrency
    BY <1>1, <1>4, <1>5, <2>1
  <2>2. CASE ~(backlog = {} /\ Cardinality(sent) < Concurrency)
    <3>1. Cardinality(sent) = Concurrency
      BY <1>2, <1>4, <2>2
    <3>. QED  BY <1>1, <1>4, <2>2, <3>1
  <2>. QED  BY <2>1, <2>2
<1>10. LoadOK'
  BY <1>7, <1>8, <1>9 DEF LoadOK
<1>. QED  BY <1>1, <1>6, <1>7, <1>10 DEF IInv, EarlyOK, OverOK, PlainOK

\* A chunk changes what is gathered, and nothing else.
LEMMA ChunkKeeps == ASSUME IInv, NEW j \in Jobs, Chunk(j) PROVE IInv'
<1>1. PICK c \in Chunks : seen' = [seen EXCEPT ![j] = Read(seen[j], c)]
  BY DEF Chunk
<1>2. UNCHANGED <<spec, phase, arrived, backlog, sent, results, report>>
  BY DEF Chunk, loopVars
<1>3. Read(seen[j], c) \in Gathered
  BY ReadIsGathered DEF IInv, TypeOK
<1>4. TypeOK'
  BY <1>1, <1>2, <1>3 DEF IInv, TypeOK
<1>. QED  BY <1>2, <1>4 DEF IInv, EarlyOK, LoadOK, OverOK, PlainOK, Idle, Answered

\* The place of a request that is over goes to one that waits.
LEMMA PassOnFacts ==
    ASSUME backlog \subseteq Nat, NEW j, PassOn(j)
    PROVE  \/ backlog = {} /\ sent' = sent \ {j} /\ backlog' = {}
           \/ \E n \in backlog : sent' = (sent \ {j}) \cup {n} /\ backlog' = backlog \ {n}
<1>1. CASE backlog = {}
  BY <1>1 DEF PassOn, NextInLine
<1>2. CASE backlog # {}
  <2> DEFINE n == Min(backlog)
  <2>1. n \in backlog
    BY <1>2, SmallestOf
  <2>2. sent' = (sent \ {j}) \cup {n} /\ backlog' = backlog \ {n}
    BY <1>2 DEF PassOn, NextInLine
  <2> HIDE DEF n
  <2>. QED  BY <2>1, <2>2
<1>. QED  BY <1>1, <1>2

\* An answer ends: a request of the measurement has its result, and its place is taken.
LEMMA EndKeeps == ASSUME IInv, NEW j \in Jobs, End(j) PROVE IInv'
<1>1. /\ j \in sent /\ PassOn(j) /\ UNCHANGED <<spec, phase, arrived, report>>
      /\ seen' = [seen EXCEPT ![j] = Unread]
  BY DEF End
<1>2. \/ j \notin Requests /\ results' = results
      \/ /\ j \in Requests
         /\ \E result \in Results : /\ results' = [results EXCEPT ![j] = result]
                                    /\ ~spec.stream => ~result.timed
  <2>1. seen[j] \in Gathered
    BY DEF IInv, TypeOK
  <2>2. \A end : /\ JudgeStream(seen[j], end) \in Results
                 /\ JudgeBody(seen[j], end) \in Results /\ ~JudgeBody(seen[j], end).timed
    BY <2>1, JudgedIsResult DEF IInv, TypeOK
  <2>. QED  BY <2>2 DEF End
<1>3. backlog \subseteq Nat
  BY BenchmarkAssumption DEF IInv, TypeOK, Jobs
<1>4. \/ backlog = {} /\ sent' = sent \ {j} /\ backlog' = {}
      \/ \E n \in backlog : sent' = (sent \ {j}) \cup {n} /\ backlog' = backlog \ {n}
  BY <1>1, <1>3, PassOnFacts
<1>5. TypeOK'
  <2>1. results' \in [Requests -> Results \cup {NONE}]
    BY <1>2 DEF IInv, TypeOK
  <2>2. seen' \in [Jobs -> Gathered]
    <3>1. Unread \in Gathered
      BY DEF Unread, Gathered
    <3>. QED  BY <1>1, <3>1 DEF IInv, TypeOK
  <2>3. sent' \subseteq Jobs /\ backlog' \subseteq Jobs
    BY <1>4 DEF IInv, TypeOK
  <2>. QED  BY <1>1, <2>1, <2>2, <2>3 DEF IInv, TypeOK
<1>6. j \in Requests => Answered' = Answered \cup {j}
  BY <1>2, BenchmarkAssumption DEF IInv, TypeOK, Answered
<1>7. j \notin Requests => Answered' = Answered
  BY <1>2 DEF Answered
<1>8. PlainOK'
  <2> SUFFICES ASSUME ~spec.stream, NEW r \in Answered' PROVE ~results'[r].timed
    BY <1>1 DEF IInv, PlainOK
  <2>1. r = j \/ (r \in Answered /\ results'[r] = results[r])
    <3>1. CASE j \in Requests
      <4>1. r \in Answered \cup {j}
        BY <1>6, <3>1
      <4>2. \A q \in Requests : q # j => results'[q] = results[q]
        BY <1>2, <3>1 DEF IInv, TypeOK
      <4>3. Answered \subseteq Requests
        BY DEF Answered
      <4>. QED  BY <4>1, <4>2, <4>3
    <3>2. CASE j \notin Requests
      BY <1>2, <1>7, <3>2
    <3>. QED  BY <3>1, <3>2
  <2>2. r \in Requests
    BY DEF Answered
  <2>3. CASE r = j
    BY <1>2, <2>2, <2>3 DEF IInv, TypeOK
  <2>. QED  BY <2>1, <2>3 DEF IInv, PlainOK
<1>9. CASE phase \in {"starting", "warmup"}
  <2>1. j \in Warmups /\ j \notin Requests /\ phase # "starting"
    BY <1>1, <1>9, BenchmarkAssumption DEF IInv, EarlyOK, Idle
  <2>2. EarlyOK'
    BY <1>1, <1>4, <1>7, <1>9, <2>1 DEF IInv, EarlyOK
  <2>. QED  BY <1>1, <1>5, <1>9, <1>8, <2>2 DEF IInv, LoadOK, OverOK
<1>10. CASE phase = "measuring"
  <2>1. /\ arrived \subseteq Requests /\ Answered \subseteq arrived
        /\ sent \cup backlog = arrived \ Answered /\ sent \cap backlog = {}
        /\ Cardinality(sent) <= Concurrency
        /\ backlog # {} => Cardinality(sent) = Concurrency
    BY <1>10 DEF IInv, LoadOK
  <2>2. j \in Requests /\ Answered' = Answered \cup {j}
    BY <1>1, <1>6, <2>1
  <2>3. IsFiniteSet(sent) /\ Cardinality(sent) \in Nat /\ Concurrency \in Nat
    <3>1. sent \subseteq Requests
      BY <2>1
    <3>. QED  BY <3>1, RequestsCount, BenchmarkAssumption
  <2>4. IsFiniteSet(sent \ {j}) /\ Cardinality(sent \ {j}) = Cardinality(sent) - 1
    BY <1>1, <2>3, FS_RemoveElement
  <2>5. \A n \in backlog : Cardinality((sent \ {j}) \cup {n}) = Cardinality(sent)
    <3> TAKE n \in backlog
    <3>1. n \notin sent \ {j}
      BY <2>1
    <3>2. Cardinality((sent \ {j}) \cup {n}) = Cardinality(sent \ {j}) + 1
      BY <2>4, <3>1, FS_AddElement
    <3>. QED  BY <2>3, <2>4, <3>2
  <2>6. /\ Answered' \subseteq arrived /\ sent' \cup backlog' = arrived \ Answered'
        /\ sent' \cap backlog' = {}
    BY <1>1, <1>4, <2>1, <2>2
  <2>7. Cardinality(sent') <= Concurrency /\ (backlog' # {} => Cardinality(sent') = Concurrency)
    <3>1. CASE backlog = {} /\ sent' = sent \ {j} /\ backlog' = {}
      BY <2>1, <2>3, <2>4, <3>1
    <3>2. CASE \E n \in backlog : sent' = (sent \ {j}) \cup {n} /\ backlog' = backlog \ {n}
      BY <2>1, <2>3, <2>5, <3>2
    <3>. QED  BY <1>4, <3>1, <3>2
  <2>8. LoadOK'
    BY <1>1, <2>1, <2>6, <2>7 DEF LoadOK
  <2>. QED  BY <1>1, <1>5, <1>10, <1>8, <2>8 DEF IInv, EarlyOK, OverOK
<1>11. CASE phase = "leaving"
  BY <1>1, <1>5, <1>11, <1>8 DEF IInv, EarlyOK, LoadOK, OverOK
<1>12. phase \in {"starting", "warmup", "measuring", "leaving"}
  BY <1>1 DEF IInv, TypeOK, Phases, OverOK, Idle
<1>. QED  BY <1>9, <1>10, <1>11, <1>12

\* gather() has everything: all are answered, none is in flight.
LEMMA EndMeasuringKeeps == IInv /\ EndMeasuring => IInv'
<1> SUFFICES ASSUME IInv, EndMeasuring PROVE IInv'
  OBVIOUS
<1>1. /\ phase = "measuring" /\ AllOver /\ phase' \in {"closing", "observing"}
      /\ UNCHANGED <<spec, sent, backlog, seen, results, report>>
  BY DEF EndMeasuring, loopVars, answerVars
<1>2. Answered = Requests /\ Idle /\ Idle'
  BY <1>1 DEF IInv, LoadOK, AllOver, Idle
<1>3. TypeOK'
  BY <1>1 DEF IInv, TypeOK, Phases
<1>. QED  BY <1>1, <1>2, <1>3, LaterPhase

\* The GPU sampler ends after the last answer.
LEMMA SamplerEndsKeeps == IInv /\ SamplerEnds => IInv'
<1> SUFFICES ASSUME IInv, SamplerEnds PROVE IInv'
  OBVIOUS
<1>1. /\ phase = "closing" /\ phase' = "observing"
      /\ UNCHANGED <<spec, sent, backlog, seen, results, report>>
  BY DEF SamplerEnds, loopVars, answerVars
<1>2. Answered = Requests /\ Idle'
  BY <1>1 DEF IInv, OverOK, Idle
<1>3. TypeOK'
  BY <1>1 DEF IInv, TypeOK, Phases
<1>. QED  BY <1>1, <1>2, <1>3, LaterPhase

\* The result is made from all answers at once.
LEMMA ReportKeeps == IInv /\ Report => IInv'
<1> SUFFICES ASSUME IInv, Report PROVE IInv'
  OBVIOUS
<1>1. /\ phase = "observing" /\ phase' = "reported" /\ report' = Aggregate
      /\ UNCHANGED <<spec, sent, backlog, seen, results>>
  BY DEF Report, loopVars, answerVars
<1>2. Answered = Requests /\ Idle'
  BY <1>1 DEF IInv, OverOK, Idle
<1>3. report'.total = Cardinality(Requests)
  BY <1>1, <1>2 DEF Aggregate
<1>4. TypeOK'
  BY <1>1 DEF IInv, TypeOK, Phases
<1>5. ASSUME ~spec.stream PROVE report'.timed = 0
  <2>1. {r \in {q \in Answered : results[q].ok} : results[r].timed} = {}
    BY <1>5 DEF IInv, PlainOK
  <2>. QED  BY <1>1, <2>1, FS_EmptySet DEF Aggregate
<1>6. PlainOK'
  BY <1>1, <1>5 DEF IInv, PlainOK, Answered
<1>. QED  BY <1>1, <1>2, <1>3, <1>4, <1>6 DEF IInv, EarlyOK, LoadOK, OverOK

\* What the observations fail on does not touch the answers.
LEMMA ObservationsLostKeeps == IInv /\ ObservationsLost => IInv'
<1> SUFFICES ASSUME IInv, ObservationsLost PROVE IInv'
  OBVIOUS
<1>1. /\ phase = "observing" /\ phase' = "failed"
      /\ UNCHANGED <<spec, sent, backlog, seen, results, report>>
  BY DEF ObservationsLost, loopVars, answerVars
<1>2. Idle'
  BY <1>1 DEF IInv, OverOK, Idle
<1>3. TypeOK'
  BY <1>1 DEF IInv, TypeOK, Phases
<1>. QED  BY <1>1, <1>2, <1>3, LaterPhase

\* What was gathered of an answer is kept or dropped whole.
LEMMA DropFacts ==
    ASSUME IInv, DropAnswers
    PROVE  seen' \in [Jobs -> Gathered]
<1>1. Unread \in Gathered
  BY DEF Unread, Gathered
<1>. QED  BY <1>1 DEF IInv, TypeOK, DropAnswers

\* A run that is cancelled while its sampler is closed goes on, with nothing in flight.
LEMMA CancelKeeps == IInv /\ Cancel => IInv'
<1> SUFFICES ASSUME IInv, Cancel PROVE IInv'
  OBVIOUS
<1>1. /\ phase \in {"warmup", "measuring", "closing", "observing"}
      /\ phase' = IF phase = "closing" THEN phase ELSE "leaving"
      /\ UNCHANGED <<spec, arrived, results, report>> /\ DropAnswers
      /\ \/ sent' = {} /\ backlog' = {}
         \/ UNCHANGED <<sent, backlog>> /\ phase = "measuring"
  BY DEF Cancel
<1>2. TypeOK'
  BY <1>1, DropFacts DEF IInv, TypeOK, Phases
<1>3. phase' # "leaving" => Idle' /\ Answered = Requests
  BY <1>1 DEF IInv, OverOK, Idle
<1>. QED  BY <1>1, <1>2, <1>3, LaterPhase

\* Closing the client takes back what the open loop had left.
LEMMA LeaveKeeps == IInv /\ Leave => IInv'
<1> SUFFICES ASSUME IInv, Leave PROVE IInv'
  OBVIOUS
<1>1. /\ phase = "leaving" /\ phase' = "cancelled" /\ sent' = {} /\ backlog' = {}
      /\ UNCHANGED <<spec, results, report>> /\ DropAnswers
  BY DEF Leave
<1>2. TypeOK' /\ Idle'
  BY <1>1, DropFacts DEF IInv, TypeOK, Phases, Idle
<1>. QED  BY <1>1, <1>2, LaterPhase

\* Every step keeps the invariant.
LEMMA NextKeeps == IInv /\ [Next]_vars => IInv'
<1> SUFFICES ASSUME IInv, [Next]_vars PROVE IInv'
  OBVIOUS
<1>1. CASE Next
  BY <1>1, BeginWarmupKeeps, BeginMeasuringKeeps, ArriveKeeps, ChunkKeeps, EndKeeps,
     EndMeasuringKeeps, SamplerEndsKeeps, ReportKeeps, ObservationsLostKeeps, CancelKeeps,
     LeaveKeeps DEF Next
<1>2. CASE UNCHANGED vars
  <2>1. UNCHANGED <<spec, phase, arrived, backlog, sent, seen, results, report>>
    BY <1>2 DEF vars, loopVars, answerVars
  <2>. QED  BY <2>1 DEF IInv, TypeOK, EarlyOK, LoadOK, OverOK, PlainOK, Idle, Answered
<1>. QED  BY <1>1, <1>2

-----------------------------------------------------------------------------
\* The inductive invariant holds throughout: every request that has arrived waits, is in
\* flight or is answered, and requests wait only while every place is taken.
THEOREM Invariance == Spec => []IInv
<1>. QED  BY InitEstablishes, NextKeeps, PTL DEF Spec

\* The load is the one that the spec names, whatever the server answers and in whatever order
\* the answers end.
THEOREM LoadAlwaysAsSpecified == Spec => []LoadAsSpecified
<1>1. IInv => LoadAsSpecified
  <2> SUFFICES ASSUME IInv, phase = "measuring"
               PROVE  /\ sent \subseteq Requests
                      /\ Cardinality(sent) = Min({Concurrency, Cardinality(arrived \ Answered)})
    BY DEF LoadAsSpecified
  <2> DEFINE todo == arrived \ Answered
             n == Cardinality(sent)
             m == Cardinality(todo)
  <2>1. /\ arrived \subseteq Requests /\ sent \cup backlog = todo /\ n <= Concurrency
        /\ backlog # {} => n = Concurrency
    BY DEF IInv, LoadOK
  <2>2. m \in Nat /\ n \in Nat /\ n <= m /\ Concurrency \in Nat
    <3>1. todo \subseteq Requests /\ sent \in SUBSET todo
      BY <2>1
    <3>. QED  BY <3>1, RequestsCount, BenchmarkAssumption
  <2>3. backlog = {} => n = m
    BY <2>1
  <2>4. Min({Concurrency, m}) = IF Concurrency <= m THEN Concurrency ELSE m
    BY <2>2, SmallerOf
  <2>5. sent \subseteq Requests
    BY <2>1
  <2> HIDE DEF n, m
  <2>6. n = IF Concurrency <= m THEN Concurrency ELSE m
    BY <2>1, <2>2, <2>3
  <2>. QED  BY <2>4, <2>5, <2>6 DEF n, m
<1>. QED  BY Invariance, <1>1, PTL

\* A run that is over, by whatever end, has no request left on the engine.
THEOREM AlwaysQuietAfterwards == Spec => []QuietAfterwards
<1>1. IInv => QuietAfterwards
  BY DEF IInv, OverOK, Idle, QuietAfterwards
<1>. QED  BY Invariance, <1>1, PTL

-----------------------------------------------------------------------------
(* What the answers are worth *)

\* What the client has gathered from the chunks of an answer is what they say.
WireOK ==
    /\ wire \in [Jobs -> Seq(Chunks)]
    /\ \A j \in Jobs :
          /\ seen[j].text = TextOf(wire[j]) /\ seen[j].usage = LastUsage(wire[j])
          /\ seen[j].finished <=> \E i \in DOMAIN wire[j] : wire[j][i].finish

\* An answer with result a is worth d.
Agree(a, d) ==
    \/ a = NONE /\ d = NONE
    \/ /\ a \in Results /\ d \in Nat
       /\ d = IF a.ok THEN a.tokens ELSE 0
       /\ a.ok => d > 0

\* The requests whose answers are worth something.
Good == {r \in Requests : deserved[r] # NONE /\ deserved[r] > 0}

JudgedOK ==
    /\ deserved \in [Requests -> Nat \cup {NONE}]
    /\ \A r \in Requests : Agree(results[r], deserved[r])

CountOK ==
    report # NONE => /\ report.successful = Cardinality(Good)
                     /\ report.tokens = Total([r \in Good |-> deserved[r]])

FInv == WireOK /\ JudgedOK /\ CountOK

\* What is gathered of nothing is what it says.
LEMMA UnreadIsFaithful ==
    /\ <<>> \in Seq(Chunks)
    /\ Unread.text = TextOf(<<>>) /\ Unread.usage = LastUsage(<<>>)
    /\ Unread.finished <=> \E i \in DOMAIN <<>> : <<>>[i].finish
<1>1. <<>> \in Seq(Chunks) /\ DOMAIN <<>> = {}
  OBVIOUS
<1>2. Unread.text = 0 /\ Unread.usage = NONE /\ ~Unread.finished
  BY DEF Unread
<1>. QED  BY <1>1, <1>2, TextOfAppend, LastUsageAppend

\* The client and the documentation judge the end of an answer alike.
LEMMA JudgedAgrees ==
    ASSUME IInv, FInv, NEW j \in Jobs, NEW end \in Ends(j)
    PROVE  Agree(IF spec.stream THEN JudgeStream(seen[j], end) ELSE JudgeBody(seen[j], end),
                 Worth(wire[j], end))
<1> DEFINE s == seen[j]
           w == wire[j]
           result == IF spec.stream THEN JudgeStream(s, end) ELSE JudgeBody(s, end)
           complete == \/ end = "done"
                       \/ end = "eof" /\ (spec.stream => s.finished)
<1>1. s \in Gathered /\ s.text \in Nat /\ s.usage \in Nat \cup {NONE}
  BY DEF IInv, TypeOK, Gathered
<1>2. /\ s.text = TextOf(w) /\ s.usage = LastUsage(w)
      /\ s.finished <=> \E i \in DOMAIN w : w[i].finish
  BY DEF FInv, WireOK
<1>3. end = "done" => spec.stream
  BY DEF Ends
<1>4. Tokens(s) \in Nat
  BY <1>1 DEF Tokens
<1>5. Worth(w, end) = IF complete /\ Tokens(s) > 0 THEN Tokens(s) ELSE 0
  BY <1>2 DEF Worth, Tokens
<1>6. result \in Results
  BY <1>1, JudgedIsResult DEF IInv, TypeOK
<1> HIDE DEF s, w
<1>7. \/ complete /\ result.ok = (Tokens(s) > 0) /\ result.tokens = Tokens(s)
      \/ ~complete /\ ~result.ok
  BY <1>3 DEF JudgeStream, JudgeBody, Counted, Failure
<1> DEFINE d == Worth(w, end)
           n == Tokens(s)
<1> HIDE DEF result, complete, d, n
<1>8. d \in Nat /\ d = (IF result.ok THEN result.tokens ELSE 0) /\ (result.ok => d > 0)
  <2>1. n \in Nat /\ d = IF complete /\ n > 0 THEN n ELSE 0
    BY <1>4, <1>5 DEF d, n
  <2>2. (complete /\ result.ok = (n > 0) /\ result.tokens = n) \/ (~complete /\ ~result.ok)
    BY <1>7 DEF n
  <2>. QED  BY <2>1, <2>2
<1>9. Agree(result, d)
  BY <1>6, <1>8 DEF Agree
<1>. QED  BY <1>9 DEF result, d, s, w

\* Before the warm-up nothing has been sent.
LEMMA InitFaithful == Init => FInv
<1> SUFFICES ASSUME Init PROVE FInv
  OBVIOUS
<1>1. WireOK
  BY UnreadIsFaithful DEF Init, WireOK
<1>2. JudgedOK
  BY DEF Init, JudgedOK, Agree
<1>. QED  BY <1>1, <1>2 DEF Init, FInv, CountOK

\* A chunk is read for what it says.
LEMMA ChunkFaithful == ASSUME IInv, FInv, NEW j \in Jobs, Chunk(j) PROVE FInv'
<1>1. PICK c \in Chunks : /\ wire' = [wire EXCEPT ![j] = Append(wire[j], c)]
                          /\ seen' = [seen EXCEPT ![j] = Read(seen[j], c)]
  BY DEF Chunk
<1>2. UNCHANGED <<results, deserved, report>>
  BY DEF Chunk
<1> DEFINE w == wire[j]
           s == seen[j]
           t == Append(w, c)
<1>3. w \in Seq(Chunks) /\ t \in Seq(Chunks)
  BY DEF FInv, WireOK
<1>4. /\ s.text = TextOf(w) /\ s.usage = LastUsage(w)
      /\ s.finished <=> \E i \in DOMAIN w : w[i].finish
  BY DEF FInv, WireOK
<1>5. /\ Read(s, c).text = TextOf(t) /\ Read(s, c).usage = LastUsage(t)
  <2>1. TextOf(t) = TextOf(w) + c.text
    BY <1>3, TextOfAppend
  <2>2. LastUsage(t) = IF c.usage # NONE THEN c.usage ELSE LastUsage(w)
    BY <1>3, LastUsageAppend
  <2> HIDE DEF w, s, t
  <2>. QED  BY <1>4, <2>1, <2>2 DEF Read
<1>6. Read(s, c).finished <=> \E i \in DOMAIN t : t[i].finish
  <2>1. /\ DOMAIN t = DOMAIN w \cup {Len(w) + 1} /\ t[Len(w) + 1] = c
        /\ \A i \in DOMAIN w : t[i] = w[i]
    BY <1>3
  <2> HIDE DEF w, s, t
  <2>. QED  BY <1>4, <2>1 DEF Read
<1>7. WireOK'
  <2>1. wire' \in [Jobs -> Seq(Chunks)]
    BY <1>1, <1>3 DEF FInv, WireOK
  <2>2. ASSUME NEW k \in Jobs
        PROVE  /\ seen'[k].text = TextOf(wire'[k]) /\ seen'[k].usage = LastUsage(wire'[k])
               /\ seen'[k].finished <=> \E i \in DOMAIN wire'[k] : wire'[k][i].finish
    <3>1. CASE k = j
      <4>1. wire'[k] = t /\ seen'[k] = Read(s, c)
        BY <1>1, <3>1 DEF FInv, WireOK, IInv, TypeOK
      <4> HIDE DEF t, s
      <4>. QED  BY <1>5, <1>6, <4>1
    <3>2. CASE k # j
      <4>1. wire'[k] = wire[k] /\ seen'[k] = seen[k]
        BY <1>1, <3>2 DEF FInv, WireOK, IInv, TypeOK
      <4>. QED  BY <4>1 DEF FInv, WireOK
    <3>. QED  BY <3>1, <3>2
  <2>. QED  BY <2>1, <2>2 DEF WireOK
<1>. QED  BY <1>2, <1>7 DEF FInv, JudgedOK, CountOK, Good

\* The end of an answer gives it its result, and the next one starts unread.
LEMMA EndFaithful == ASSUME IInv, FInv, NEW j \in Jobs, End(j) PROVE FInv'
<1>1. /\ j \in sent /\ report' = report
      /\ wire' = [wire EXCEPT ![j] = <<>>] /\ seen' = [seen EXCEPT ![j] = Unread]
  BY DEF End
<1>2. report = NONE
  BY <1>1 DEF IInv, OverOK, Idle
<1>3. WireOK'
  <2>1. wire' \in [Jobs -> Seq(Chunks)]
    BY <1>1, UnreadIsFaithful DEF FInv, WireOK
  <2>2. ASSUME NEW k \in Jobs
        PROVE  /\ seen'[k].text = TextOf(wire'[k]) /\ seen'[k].usage = LastUsage(wire'[k])
               /\ seen'[k].finished <=> \E i \in DOMAIN wire'[k] : wire'[k][i].finish
    <3>1. \/ wire'[k] = wire[k] /\ seen'[k] = seen[k]
          \/ wire'[k] = <<>> /\ seen'[k] = Unread
      BY <1>1 DEF FInv, WireOK, IInv, TypeOK
    <3>. QED  BY <3>1, UnreadIsFaithful DEF FInv, WireOK
  <2>. QED  BY <2>1, <2>2 DEF WireOK
<1>4. JudgedOK'
  <2>1. CASE j \notin Requests
    <3>1. UNCHANGED <<results, deserved>>
      BY <2>1 DEF End
    <3>. QED  BY <3>1 DEF FInv, JudgedOK
  <2>2. CASE j \in Requests
    <3>1. PICK end \in Ends(j) :
            LET result == IF spec.stream THEN JudgeStream(seen[j], end)
                                         ELSE JudgeBody(seen[j], end)
            IN  /\ results' = [results EXCEPT ![j] = result]
                /\ deserved' = [deserved EXCEPT ![j] = Worth(wire[j], end)]
      BY <2>2 DEF End
    <3>2. PICK a, d : /\ results' = [results EXCEPT ![j] = a]
                      /\ deserved' = [deserved EXCEPT ![j] = d] /\ Agree(a, d)
      BY <3>1, JudgedAgrees
    <3>3. deserved' \in [Requests -> Nat \cup {NONE}]
      BY <3>2 DEF FInv, JudgedOK, Agree
    <3>4. \A r \in Requests : Agree(results'[r], deserved'[r])
      BY <3>2 DEF FInv, JudgedOK, IInv, TypeOK
    <3>. QED  BY <3>3, <3>4 DEF JudgedOK
  <2>. QED  BY <2>1, <2>2
<1>. QED  BY <1>1, <1>2, <1>3, <1>4 DEF FInv, CountOK

\* The report counts the results, which are what the answers are worth.
LEMMA ReportFaithfully == IInv /\ FInv /\ Report => FInv'
<1> SUFFICES ASSUME IInv, FInv, Report PROVE FInv'
  OBVIOUS
<1>1. report' = Aggregate /\ UNCHANGED <<wire, seen, results, deserved>>
  BY DEF Report, answerVars
<1>2. WireOK' /\ JudgedOK'
  BY <1>1 DEF FInv, WireOK, JudgedOK
<1> DEFINE ok == {r \in Answered : results[r].ok}
<1>3. \A r \in Requests : r \in ok <=> r \in Good
  <2> TAKE r \in Requests
  <2>1. Agree(results[r], deserved[r])
    BY DEF FInv, JudgedOK
  <2>2. r \in ok <=> results[r] # NONE /\ results[r].ok
    BY DEF Answered
  <2>3. r \in Good <=> deserved[r] # NONE /\ deserved[r] > 0
    BY DEF Good
  <2> HIDE DEF ok
  <2>. QED  BY <2>1, <2>2, <2>3, BenchmarkAssumption DEF Agree
<1>4. ok = Good
  BY <1>3 DEF Good, Answered
<1>5. \A r \in Good : results[r].tokens = deserved[r]
  <2> TAKE r \in Good
  <2>1. r \in Requests /\ r \in ok /\ Agree(results[r], deserved[r])
    BY <1>4 DEF FInv, JudgedOK, Good
  <2>. QED  BY <2>1, BenchmarkAssumption DEF Agree, Answered
<1>6. [r \in ok |-> results[r].tokens] = [r \in Good |-> deserved[r]]
  BY <1>4, <1>5
<1>7. /\ report'.successful = Cardinality(ok)
      /\ report'.tokens = Total([r \in ok |-> results[r].tokens])
  BY <1>1 DEF Aggregate
<1>8. Good' = Good
  BY <1>1 DEF Good
<1>9. CountOK'
  <2> HIDE DEF ok
  <2>. QED  BY <1>1, <1>4, <1>6, <1>7, <1>8 DEF CountOK
<1>. QED  BY <1>2, <1>9 DEF FInv

\* An answer that nobody reads any more counts for nothing.
LEMMA DropFaithful ==
    ASSUME IInv, FInv, DropAnswers, UNCHANGED <<results, deserved, report>>
    PROVE  FInv'
<1>1. wire' \in [Jobs -> Seq(Chunks)]
  BY UnreadIsFaithful DEF FInv, WireOK, DropAnswers
<1>2. ASSUME NEW k \in Jobs
      PROVE  /\ seen'[k].text = TextOf(wire'[k]) /\ seen'[k].usage = LastUsage(wire'[k])
             /\ seen'[k].finished <=> \E i \in DOMAIN wire'[k] : wire'[k][i].finish
  <2>1. \/ wire'[k] = wire[k] /\ seen'[k] = seen[k]
        \/ wire'[k] = <<>> /\ seen'[k] = Unread
    BY DEF DropAnswers
  <2>. QED  BY <2>1, UnreadIsFaithful DEF FInv, WireOK
<1>3. WireOK'
  BY <1>1, <1>2 DEF WireOK
<1>. QED  BY <1>3 DEF FInv, JudgedOK, CountOK, Good

\* Every step keeps what is gathered, judged and counted true to the answers.
LEMMA NextFaithful == IInv /\ FInv /\ [Next]_vars => FInv'
<1> SUFFICES ASSUME IInv, FInv, [Next]_vars PROVE FInv'
  OBVIOUS
<1>1. ASSUME UNCHANGED <<wire, seen, results, deserved, report>> PROVE FInv'
  BY <1>1 DEF FInv, WireOK, JudgedOK, CountOK, Good
<1>2. CASE \/ BeginWarmup \/ BeginMeasuring \/ Arrive \/ EndMeasuring \/ SamplerEnds
           \/ ObservationsLost \/ UNCHANGED vars
  <2>1. UNCHANGED <<answerVars, report>>
    BY <1>2 DEF BeginWarmup, BeginMeasuring, Arrive, EndMeasuring, SamplerEnds,
        ObservationsLost, vars
  <2>. QED  BY <1>1, <2>1 DEF answerVars
<1>3. ASSUME NEW j \in Jobs, Chunk(j) \/ End(j) PROVE FInv'
  BY <1>3, ChunkFaithful, EndFaithful
<1>4. CASE Report
  BY <1>4, ReportFaithfully
<1>5. CASE Cancel \/ Leave
  <2>1. DropAnswers /\ UNCHANGED <<results, deserved, report>>
    BY <1>5 DEF Cancel, Leave
  <2>. QED  BY <2>1, DropFaithful
<1>. QED  BY <1>2, <1>3, <1>4, <1>5 DEF Next

\* The result counts every request of the spec, each for what docs/benchmarking.md says its
\* answer is worth, for any answers in any order and also when the run was cancelled too late
\* to notice; without streaming none has a time to first token.
THEOREM ReportAlwaysFaithful == Spec => []ReportFaithful
<1>1. IInv /\ FInv => ReportFaithful
  BY DEF IInv, FInv, OverOK, PlainOK, CountOK, Good, ReportFaithful
<1>. QED  BY InitEstablishes, NextKeeps, InitFaithful, NextFaithful, <1>1, PTL DEF Spec
=============================================================================
