---------------------------- MODULE SearchProofs ----------------------------
(***************************************************************************)
(* For any number of baselines, experiments, turns and controllers: what    *)
(* is accepted was cleaned up first (AcceptedWasCleaned), a result is never  *)
(* replaced (ResultsImmutable), what a resumed controller judges by is what  *)
(* the journal says (BooksMatchHistory), and the store with its crashes and  *)
(* recoveries implements History.  All four follow from one invariant: the   *)
(* experiments are numbered without gaps and at most one of them is          *)
(* unsettled while a controller runs the search.                             *)
(***************************************************************************)
EXTENDS Search, SequenceTheorems, FiniteSetTheorems, TLAPS

Started == IdsOf("experiment_started")
Finished == IdsOf("experiment_finished")

\* Where no experiment is being evaluated, though a controller runs the search.
Between == {"choosing", "planning", "logging", "proposed", "failing", "closing"}

\* The journal numbers the experiments without gaps, and only what was started has
\* anything: a result, an event that it finished, a process on the GPUs.
Numbered ==
    /\ Started \subseteq Ids
    /\ \A n \in Started : 1..n \subseteq Started
OfStarted ==
    /\ engines \subseteq Started
    /\ \A n \in Ids : results[n] # Nothing => n \in Started
    /\ \A n \in Finished : n \in Started /\ results[n] \in Outcomes

\* Where the one pending experiment is, on its way from its first event to its last.
Evaluated ==
    /\ pc \in {"measuring", "cleaning", "settling"} => results[current] = Nothing
    /\ pc \in {"cleaning", "settling", "recording"} => outcome \in Outcomes
    /\ pc = "settling" => outcome \notin Accepted \/ current \notin engines
    /\ pc = "recording" => results[current] = outcome
OneAtATime ==
    /\ pc \in {"measuring", "cleaning", "settling", "recording"} =>
           current \in Ids /\ Pending = {current} /\ Evaluated
    /\ pc \in Between => Pending = {}
    /\ pc = "recovering" => engines = {}

\* Three turns in a row without a proposal end the loop, at once.
Patience == empties < 3 \/ pc = "closing"

IInv ==
    /\ TypeOK /\ Patience /\ Numbered /\ OfStarted /\ OneAtATime
    /\ AcceptedWasCleaned /\ BooksMatchHistory

-----------------------------------------------------------------------------
(* Lemmas about Min and Max *)

\* Among the initial segments 0..x of the elements one has no smaller one inside it, so a
\* set of natural numbers that is not empty has a smallest element.
LEMMA SmallestOf ==
    ASSUME NEW S, S \subseteq Nat, S # {}
    PROVE  Min(S) \in S /\ \A y \in S : Min(S) <= y
<1> DEFINE T == {0..x : x \in S}
<1>1. T \subseteq FiniteSubsetsOf(Nat) /\ T # {}
  <2>1. ASSUME NEW x \in S PROVE 0..x \in FiniteSubsetsOf(Nat)
    <3>1. x \in Int /\ 0..x \subseteq Nat
      OBVIOUS
    <3> QED
      BY <3>1, FS_Interval DEF FiniteSubsetsOf
  <2> QED
    BY <2>1
<1>2. PICK t \in T : \A u \in T : <<u, t>> \notin StrictSubsetOrdering(Nat)
  <2> HIDE DEF T
  <2> QED
    BY <1>1, WFMin, FS_StrictSubsetOrderingWellFounded
<1>3. PICK x \in S : t = 0..x
    BY <1>2
<1>4. \A y \in S : x <= y
  <2> SUFFICES ASSUME NEW y \in S, y < x PROVE FALSE
    OBVIOUS
  <2>1. 0..y \subseteq 0..x /\ x \in 0..x /\ x \notin 0..y /\ 0..x \subseteq Nat
    OBVIOUS
  <2>2. <<0..y, 0..x>> \in StrictSubsetOrdering(Nat)
    <3>1. 0..y \subseteq Nat /\ 0..y # 0..x
      BY <2>1
    <3> QED
      BY <2>1, <3>1 DEF StrictSubsetOrdering
  <2>3. 0..y \in T
    OBVIOUS
  <2> QED
    BY <1>2, <1>3, <2>2, <2>3
<1> QED
    BY <1>4 DEF Min

\* One that is bounded has a largest element: the smallest distance to the bound is its own.
LEMMA LargestOf ==
    ASSUME NEW N \in Nat, NEW S, S \subseteq 0..N, S # {}
    PROVE  Max(S) \in S /\ \A y \in S : Max(S) >= y
<1> DEFINE R == {N - y : y \in S}
<1>1. R \subseteq Nat /\ R # {}
  <2>1. \A y \in S : y \in Nat /\ y <= N /\ N - y \in Nat
    OBVIOUS
  <2> QED
    BY <2>1
<1>2. Min(R) \in R /\ \A y \in R : Min(R) <= y
  <2> HIDE DEF R
  <2> QED
    BY <1>1, SmallestOf
<1>3. PICK x \in S : Min(R) = N - x
    BY <1>2
<1>4. \A y \in S : x >= y
  <2> TAKE y \in S
  <2>1. N - x <= N - y
    BY <1>2, <1>3
  <2> QED
    BY <2>1
<1> QED
    BY <1>4 DEF Max

-----------------------------------------------------------------------------
(* Lemmas about the journal *)

\* The next number is the first that no experiment has.
LEMMA NextIdFacts ==
    ASSUME Numbered, MaxExperiments \in Nat
    PROVE  /\ NextId \in Nat \ {0} /\ Started = 1..(NextId - 1)
           /\ Max({0} \cup Started) = NextId - 1
<1> DEFINE S == {0} \cup Started
<1>1. S \subseteq 0..MaxExperiments /\ S # {}
    BY DEF Numbered, Ids
<1>2. Max(S) \in S /\ \A y \in S : Max(S) >= y
  <2> HIDE DEF S
  <2> QED
    BY <1>1, LargestOf
<1>3. NextId = Max(S) + 1
    BY DEF NextId, Started
<1>4. \A n \in Started : n \in Nat /\ n >= 1 /\ 1..n \subseteq Started
    BY DEF Numbered, Ids
<1>5. Max(S) \in Nat
    BY <1>2, <1>4
<1>6. ASSUME NEW n \in 1..Max(S) PROVE n \in Started
    BY <1>2, <1>4, <1>6
<1>7. ASSUME NEW n \in Started PROVE n \in 1..Max(S)
    BY <1>2, <1>4, <1>5
<1>8. NextId - 1 = Max(S) /\ Started = 1..Max(S)
  <2> HIDE DEF S
  <2>1. NextId - 1 = Max(S)
    BY <1>3, <1>5
  <2>2. Started = 1..Max(S)
    BY <1>6, <1>7
  <2> QED
    BY <2>1, <2>2
<1> QED
    BY <1>3, <1>5, <1>8

\* What the journal is: it has places, each with an event of a kind.
LEMMA Journal ==
    ASSUME TypeOK
    PROVE  /\ DOMAIN journal = 1..Len(journal) /\ Len(journal) \in Nat
           /\ \A k \in 1..Len(journal) : journal[k] \in [kind : Kinds, id : 0..MaxExperiments]
<1>1. journal \in Seq([kind : Kinds, id : 0..MaxExperiments])
    BY DEF TypeOK
<1> QED
    BY <1>1, LenProperties, ElementOfSeq

\* What one more event changes.
LEMMA Grown ==
    ASSUME TypeOK, NEW kind \in Kinds, NEW n \in 0..MaxExperiments, Append1(kind, n)
    PROVE  /\ journal' \in Seq([kind : Kinds, id : 0..MaxExperiments])
           /\ Len(journal)' = Len(journal) + 1
           /\ journal'[Len(journal) + 1] = Event(kind, n)
           /\ \A k \in 1..Len(journal) : journal'[k] = journal[k]
<1>1. Event(kind, n) \in [kind : Kinds, id : 0..MaxExperiments]
    BY DEF Event
<1> QED
    BY <1>1, AppendProperties DEF TypeOK, Append1

\* Its place joins those of its kind, and what it is about joins theirs.
LEMMA GrownPlaces ==
    ASSUME TypeOK, NEW kind \in Kinds, NEW n \in 0..MaxExperiments, Append1(kind, n)
    PROVE  \A j : /\ Places(j)' = Places(j) \cup (IF j = kind THEN {Len(journal) + 1} ELSE {})
                  /\ IdsOf(j)' = IdsOf(j) \cup (IF j = kind THEN {n} ELSE {})
<1> TAKE j
<1>1. /\ DOMAIN journal = 1..Len(journal) /\ Len(journal) \in Nat
      /\ DOMAIN journal' = 1..(Len(journal) + 1)
    BY Grown, Journal
<1>2. /\ journal'[Len(journal) + 1].kind = kind /\ journal'[Len(journal) + 1].id = n
      /\ \A k \in 1..Len(journal) : journal'[k] = journal[k]
  <2>1. journal'[Len(journal) + 1] = Event(kind, n)
    BY Grown
  <2>2. \A k \in 1..Len(journal) : journal'[k] = journal[k]
    BY Grown
  <2> QED
    BY <2>1, <2>2 DEF Event
<1>3. Places(j)' = Places(j) \cup (IF j = kind THEN {Len(journal) + 1} ELSE {})
    BY <1>1, <1>2 DEF Places
<1>4. \A k \in Places(j) : k \in 1..Len(journal) /\ journal'[k] = journal[k]
    BY <1>1, <1>2 DEF Places
<1>5. IdsOf(j)' = {journal'[k].id : k \in Places(j)'}
    BY DEF IdsOf
<1> QED
    BY <1>2, <1>3, <1>4, <1>5 DEF IdsOf

\* A place that results() is rebuilt from is one of the journal.
LEMMA FinishedPlaces ==
    ASSUME TypeOK, Numbered, OfStarted, NEW S
    PROVE  /\ FinishedIn(S) \subseteq 1..Len(journal)
           /\ \A k \in FinishedIn(S) : journal[k].id \in Finished /\ journal[k].id \in Ids
<1>1. \A k \in FinishedIn(S) : k \in Places("experiment_finished")
    BY DEF FinishedIn
<1>2. \A k \in Places("experiment_finished") :
          k \in 1..Len(journal) /\ journal[k].id \in Finished
    BY Journal DEF Places, IdsOf, Finished
<1>3. Finished \subseteq Started /\ Started \subseteq Ids
    BY DEF OfStarted, Numbered
<1> QED
    BY <1>1, <1>2, <1>3

\* The first and the last of some places of the journal are experiments, or none.
LEMMA Ends ==
    ASSUME TypeOK, Numbered, OfStarted, NEW S
    PROVE  /\ FirstOf(FinishedIn(S)) \in 0..MaxExperiments
           /\ LastOf(FinishedIn(S)) \in 0..MaxExperiments
           /\ FirstOf(FinishedIn(S)) = 0 <=> FinishedIn(S) = {}
<1> DEFINE K == FinishedIn(S)
<1>1. /\ K \subseteq 1..Len(journal) /\ Len(journal) \in Nat
      /\ \A k \in K : journal[k].id \in Ids
    BY FinishedPlaces, Journal
<1>2. ASSUME K # {} PROVE Min(K) \in K /\ Max(K) \in K
  <2> HIDE DEF K
  <2>1. K \subseteq Nat /\ K \subseteq 0..Len(journal)
    BY <1>1
  <2> QED
    BY <1>1, <1>2, <2>1, SmallestOf, LargestOf
<1> HIDE DEF K
<1>3. CASE K = {}
  <2>1. FirstOf(K) = 0 /\ LastOf(K) = 0
    BY <1>3 DEF FirstOf, LastOf
  <2> QED
    BY <1>3, <2>1, SearchAssumption DEF K
<1>4. CASE K # {}
  <2>1. FirstOf(K) = journal[Min(K)].id /\ LastOf(K) = journal[Max(K)].id
    BY <1>4 DEF FirstOf, LastOf
  <2>2. FirstOf(K) \in Ids /\ LastOf(K) \in Ids
    BY <1>1, <1>2, <1>4, <2>1
  <2> QED
    BY <1>4, <2>2, SearchAssumption DEF K, Ids
<1> QED
    BY <1>3, <1>4

\* What results() rebuilds does not change as long as nothing that finished does.
LEMMA ReplayedSame ==
    ASSUME TypeOK, Numbered, OfStarted,
           Places("experiment_finished")' = Places("experiment_finished"),
           \A k \in Places("experiment_finished") :
               /\ journal'[k] = journal[k]
               /\ results'[journal[k].id] = results[journal[k].id]
    PROVE  Replayed' = Replayed
<1>1. ASSUME NEW S PROVE /\ FirstOf(FinishedIn(S))' = FirstOf(FinishedIn(S))
                         /\ LastOf(FinishedIn(S))' = LastOf(FinishedIn(S))
  <2>1. FinishedIn(S)' = FinishedIn(S)
    BY DEF FinishedIn
  <2>2. \A k \in FinishedIn(S) : journal'[k] = journal[k]
    BY DEF FinishedIn
  <2>3. FinishedIn(S) # {} => Min(FinishedIn(S)) \in FinishedIn(S)
                              /\ Max(FinishedIn(S)) \in FinishedIn(S)
    <3> DEFINE K == FinishedIn(S)
    <3>1. K \subseteq 0..Len(journal) /\ K \subseteq Nat /\ Len(journal) \in Nat
      BY FinishedPlaces, Journal
    <3> HIDE DEF K
    <3>2. K # {} => Min(K) \in K /\ Max(K) \in K
      BY <3>1, SmallestOf, LargestOf
    <3> QED
      BY <3>2 DEF K
  <2> QED
    BY <2>1, <2>2, <2>3 DEF FirstOf, LastOf
<1> QED
    BY <1>1 DEF Replayed

\* Adding a place after all others adds its experiment at the end.
LEMMA EndsGrow ==
    ASSUME TypeOK, Numbered, OfStarted, NEW S,
           Len(journal)' = Len(journal) + 1,
           \A k \in 1..Len(journal) : journal'[k] = journal[k],
           FinishedIn(S)' = FinishedIn(S) \cup {Len(journal) + 1}
    PROVE  /\ LastOf(FinishedIn(S))' = journal'[Len(journal) + 1].id
           /\ FirstOf(FinishedIn(S))' = IF FinishedIn(S) = {} THEN journal'[Len(journal) + 1].id
                                                              ELSE FirstOf(FinishedIn(S))
<1> DEFINE K == FinishedIn(S)
           L == Len(journal) + 1
           G == K \cup {L}
<1>1. K \subseteq 1..Len(journal) /\ Len(journal) \in Nat
    BY FinishedPlaces, Journal
<1>2. Max(G) = L
  <2>1. G \subseteq 0..L /\ G # {} /\ L \in Nat /\ L \in G
    BY <1>1
  <2>2. \A k \in G : k <= L
    BY <1>1
  <2>3. Max(G) \in G /\ \A y \in G : Max(G) >= y
    <3> HIDE DEF G, L
    <3> QED
      BY <2>1, LargestOf
  <2>4. Max(G) \in Nat
    BY <2>1, <2>3
  <2> HIDE DEF G, L
  <2> QED
    BY <2>1, <2>2, <2>3, <2>4
<1>3. Min(G) = IF K = {} THEN L ELSE Min(K)
  <2>1. G \subseteq Nat /\ G # {} /\ K \subseteq Nat /\ L \in Nat
    BY <1>1
  <2>2. Min(G) \in G /\ \A y \in G : Min(G) <= y
    <3> HIDE DEF G, L
    <3> QED
      BY <2>1, SmallestOf
  <2>3. K # {} => Min(K) \in K /\ \A y \in K : Min(K) <= y
    <3> HIDE DEF K
    <3> QED
      BY <2>1, SmallestOf
  <2>4. \A k \in K : k < L
    BY <1>1
  <2>5. \A k : k \in G <=> k \in K \/ k = L
    OBVIOUS
  <2> HIDE DEF K, L, G
  <2>6. CASE K = {}
    BY <2>2, <2>5, <2>6
  <2>7. CASE K # {}
    <3>1. Min(K) \in G /\ Min(K) \in Nat /\ Min(G) \in Nat /\ Min(K) < L
      BY <2>1, <2>2, <2>3, <2>4, <2>5, <2>7
    <3>2. Min(G) <= Min(K) /\ Min(G) # L
      BY <2>1, <2>2, <3>1
    <3>3. Min(K) <= Min(G)
      BY <2>2, <2>3, <2>5, <2>7, <3>2
    <3> QED
      BY <2>7, <3>1, <3>2, <3>3
  <2> QED
    BY <2>6, <2>7
<1>4. K # {} => Min(K) \in 1..Len(journal)
  <2>1. K # {} => Min(K) \in K
    <3>1. K \subseteq Nat
      BY <1>1
    <3> HIDE DEF K
    <3> QED
      BY <3>1, SmallestOf
  <2> QED
    BY <1>1, <2>1
<1>5. FinishedIn(S)' = G
    OBVIOUS
<1>6. G # {}
    OBVIOUS
<1> HIDE DEF G, L
<1>7. LastOf(FinishedIn(S))' = journal'[Max(G)].id
    BY <1>5, <1>6 DEF LastOf
<1>8. FirstOf(FinishedIn(S))' = journal'[Min(G)].id
    BY <1>5, <1>6 DEF FirstOf
<1>9. K # {} => FirstOf(K) = journal'[Min(K)].id
    BY <1>4 DEF FirstOf
<1> QED
    BY <1>2, <1>3, <1>7, <1>8, <1>9 DEF L

\* Recording an experiment changes what results() rebuilds as Remember does.
LEMMA ReplayedGrows ==
    ASSUME TypeOK, Numbered, OfStarted, FinishExperiment,
           current \in Ids, outcome \in Outcomes, results[current] = outcome
    PROVE  Replayed' = Remember(Replayed, current, outcome)
<1>1. /\ Len(journal)' = Len(journal) + 1 /\ results' = results
      /\ journal'[Len(journal) + 1].id = current
      /\ \A k \in 1..Len(journal) : journal'[k] = journal[k]
      /\ Places("experiment_finished")' = Places("experiment_finished") \cup {Len(journal) + 1}
  <2>1. /\ "experiment_finished" \in Kinds /\ current \in 0..MaxExperiments /\ results' = results
        /\ Append1("experiment_finished", current)
    BY DEF Kinds, Ids, FinishExperiment
  <2>2. journal'[Len(journal) + 1] = Event("experiment_finished", current)
    BY <2>1, Grown
  <2> QED
    BY <2>1, <2>2, Grown, GrownPlaces DEF Event
<1>2. ASSUME NEW S
      PROVE  FinishedIn(S)' = FinishedIn(S) \cup
                                  (IF outcome \in S THEN {Len(journal) + 1} ELSE {})
  <2>1. \A k \in Places("experiment_finished") : journal'[k] = journal[k]
    BY <1>1, Journal DEF Places
  <2>2. FinishedIn(S)' =
            {k \in Places("experiment_finished") \cup {Len(journal) + 1} :
                 results[journal'[k].id] \in S}
    BY <1>1 DEF FinishedIn
  <2> QED
    BY <1>1, <2>1, <2>2 DEF FinishedIn
<1>3. ASSUME NEW S, outcome \notin S
      PROVE  /\ FirstOf(FinishedIn(S))' = FirstOf(FinishedIn(S))
             /\ LastOf(FinishedIn(S))' = LastOf(FinishedIn(S))
  <2> DEFINE K == FinishedIn(S)
  <2>1. FinishedIn(S)' = K
    BY <1>2, <1>3
  <2>2. K \subseteq 1..Len(journal) /\ Len(journal) \in Nat
    BY FinishedPlaces, Journal
  <2>3. K # {} => Min(K) \in K /\ Max(K) \in K
    <3>1. K \subseteq 0..Len(journal) /\ K \subseteq Nat
      BY <2>2
    <3> HIDE DEF K
    <3> QED
      BY <2>2, <3>1, SmallestOf, LargestOf
  <2>4. \A k \in K : journal'[k] = journal[k]
    BY <1>1, <2>2
  <2> HIDE DEF K
  <2>5. /\ FirstOf(FinishedIn(S))' = FirstOf(K)
        /\ LastOf(FinishedIn(S))' = LastOf(K)
    BY <2>1, <2>3, <2>4 DEF FirstOf, LastOf
  <2> QED
    BY <2>5 DEF K
<1>4. ASSUME NEW S, outcome \in S
      PROVE  /\ LastOf(FinishedIn(S))' = current
             /\ FirstOf(FinishedIn(S))' = IF FirstOf(FinishedIn(S)) = 0 THEN current
                                          ELSE FirstOf(FinishedIn(S))
  <2>1. FinishedIn(S)' = FinishedIn(S) \cup {Len(journal) + 1}
    BY <1>2, <1>4
  <2> QED
    BY <1>1, <2>1, EndsGrow, Ends
<1> QED
    BY <1>3, <1>4 DEF Replayed, Remember

-----------------------------------------------------------------------------
(* The invariant *)

\* An event that is about no experiment.
Remark == \E kind \in Kinds \ {"experiment_started", "experiment_finished"},
             n \in 0..MaxExperiments : Append1(kind, n)

\* The actions by what they do to the store: most leave it alone.
Apart ==
    \/ RefuseBaseline \/ Plan \/ EndLoop \/ (\E submitted \in BOOLEAN : WriteTurn(submitted))
    \/ RefuseTurn \/ LeaveTurn \/ FailTurn \/ TakeNothing
    \/ Launch \/ (\E o \in Outcomes : Measure(o)) \/ CleanUp \/ CleanUpFails
    \/ CloseFails \/ Resume \/ Crash \/ RequestStop \/ Expire
    \/ \E n \in Ids : GuardianStops(n)
Remarking == Recovered \/ LogTurn \/ RecordError \/ Close
Starting == TryBaseline \/ TakeProposal
Settling == WriteResult \/ \E n \in Ids : RecoverWrite(n)
Finishing == FinishExperiment \/ \E n \in Ids : RecoverAppend(n)

\* Every step is of one of these kinds.
LEMMA ByEffect ==
    Next => Apart \/ Remarking \/ Starting \/ Settling \/ Finishing
BY DEF Next, Recover, Choose, Evaluate, End, Environment,
       Apart, Remarking, Starting, Settling, Finishing

\* What a step of each kind does to the journal and to the results.
LEMMA ApartStore == Apart \/ UNCHANGED vars => UNCHANGED <<journal, results>>
BY DEF Apart, RefuseBaseline, Plan, EndLoop, WriteTurn, RefuseTurn, LeaveTurn, FailTurn,
       TakeNothing, Launch, Measure, CleanUp, CleanUpFails, CloseFails, Resume, Crash,
       RequestStop, Expire, GuardianStops, store, vars

\* An event about no experiment leaves the numbers and the outcomes as they are.
LEMMA RemarkingStore ==
    ASSUME TypeOK, Remarking
    PROVE  Remark /\ results' = results /\ Started' = Started /\ Finished' = Finished
           /\ Places("experiment_finished")' = Places("experiment_finished")
<1>1. Remark /\ results' = results
  <2>1. CASE Recovered
    BY <2>1, SearchAssumption DEF Recovered, Remark, Kinds
  <2>2. CASE LogTurn
    BY <2>2, SearchAssumption DEF LogTurn, Remark, Kinds
  <2>3. CASE RecordError
    BY <2>3, SearchAssumption DEF RecordError, Remark, Kinds
  <2>4. CASE Close
    <3>1. memory.best \in 0..MaxExperiments
      BY DEF TypeOK
    <3> QED
      BY <2>4, <3>1 DEF Close, Remark, Kinds
  <2> QED
    BY <2>1, <2>2, <2>3, <2>4 DEF Remarking
<1>2. PICK kind \in Kinds \ {"experiment_started", "experiment_finished"},
           n \in 0..MaxExperiments : Append1(kind, n)
    BY <1>1 DEF Remark
<1>3. \A j : /\ Places(j)' = Places(j) \cup (IF j = kind THEN {Len(journal) + 1} ELSE {})
             /\ IdsOf(j)' = IdsOf(j) \cup (IF j = kind THEN {n} ELSE {})
    BY <1>2, GrownPlaces
<1> QED
    BY <1>1, <1>2, <1>3 DEF Started, Finished

\* Starting takes the first number that is free.
LEMMA StartingStore ==
    ASSUME TypeOK, Numbered, Starting
    PROVE  /\ NextId \in Ids /\ NextId \notin Started /\ current' = NextId
           /\ Append1("experiment_started", NextId) /\ results' = results
           /\ Started' = Started \cup {NextId} /\ Finished' = Finished
           /\ Places("experiment_finished")' = Places("experiment_finished")
<1>1. /\ NextId \in Ids /\ current' = NextId /\ results' = results
      /\ Append1("experiment_started", NextId)
    BY DEF Starting, TryBaseline, TakeProposal, Begin
<1>2. NextId \notin Started
    BY NextIdFacts, SearchAssumption
<1>3. "experiment_started" \in Kinds /\ NextId \in 0..MaxExperiments
    BY <1>1 DEF Kinds, Ids
<1>4. \A j : /\ Places(j)' = Places(j) \cup (IF j = "experiment_started"
                                             THEN {Len(journal) + 1} ELSE {})
             /\ IdsOf(j)' = IdsOf(j) \cup (IF j = "experiment_started"
                                           THEN {NextId} ELSE {})
  <2> DEFINE m == NextId
  <2>1. m \in 0..MaxExperiments /\ Append1("experiment_started", m)
    BY <1>1, <1>3
  <2> HIDE DEF m
  <2>2. \A j : /\ Places(j)' = Places(j) \cup (IF j = "experiment_started"
                                             THEN {Len(journal) + 1} ELSE {})
             /\ IdsOf(j)' = IdsOf(j) \cup (IF j = "experiment_started" THEN {m} ELSE {})
    BY <1>3, <2>1, GrownPlaces
  <2> QED
    BY <2>2 DEF m
<1> QED
    BY <1>1, <1>2, <1>4 DEF Started, Finished

\* A result is only ever written for a pending experiment that has none.
LEMMA SettlingStore ==
    ASSUME TypeOK, OneAtATime, Settling
    PROVE  \E n \in Pending \cap Ids, o \in Outcomes :
               results[n] = Nothing /\ results' = [results EXCEPT ![n] = o]
               /\ journal' = journal
<1>1. CASE WriteResult
    BY <1>1 DEF WriteResult, OneAtATime, Evaluated
<1>2. ASSUME NEW n \in Ids, RecoverWrite(n)
      PROVE  \E o \in Outcomes : results[n] = Nothing /\ n \in Pending
                 /\ results' = [results EXCEPT ![n] = o] /\ journal' = journal
  <2>1. [verdict |-> "interrupted", passed |-> FALSE] \in Outcomes
    BY DEF Outcomes, Verdicts, Complete
  <2> QED
    BY <1>2, <2>1 DEF RecoverWrite
<1> QED
    BY <1>1, <1>2 DEF Settling

\* An experiment finishes once it has a result, and only the one being evaluated or, in
\* a recovery, one that a process before left.
LEMMA FinishingStore ==
    ASSUME TypeOK, Numbered, OfStarted, OneAtATime, Finishing
    PROVE  \E n \in Pending \cap Ids :
               /\ results[n] \in Outcomes /\ results' = results
               /\ Append1("experiment_finished", n)
               /\ Started' = Started /\ Finished' = Finished \cup {n}
               /\ FinishExperiment => n = current
               /\ pc = "recovering" \/ FinishExperiment
<1>1. PICK n \in Pending \cap Ids :
          /\ results[n] \in Outcomes /\ results' = results
          /\ Append1("experiment_finished", n)
          /\ FinishExperiment => n = current
          /\ pc = "recovering" \/ FinishExperiment
  <2>1. CASE FinishExperiment
    BY <2>1 DEF FinishExperiment, OneAtATime, Evaluated
  <2>2. ASSUME NEW n \in Ids, RecoverAppend(n)
        PROVE  /\ n \in Pending /\ results[n] \in Outcomes /\ results' = results
               /\ Append1("experiment_finished", n) /\ pc = "recovering"
    BY <2>2 DEF RecoverAppend, TypeOK
  <2>3. pc = "recovering" => ~FinishExperiment
    BY DEF FinishExperiment
  <2> QED
    BY <2>1, <2>2, <2>3 DEF Finishing
<1>2. "experiment_finished" \in Kinds /\ n \in 0..MaxExperiments
    BY DEF Kinds, Ids
<1>3. \A j : IdsOf(j)' = IdsOf(j) \cup (IF j = "experiment_finished" THEN {n} ELSE {})
    BY <1>1, <1>2, GrownPlaces
<1> QED
    BY <1>1, <1>3 DEF Started, Finished

\* The numbers keep having no gaps.
LEMMA NumberedKept ==
    ASSUME TypeOK, Numbered, OfStarted, OneAtATime, [Next]_vars
    PROVE  Numbered'
<1>1. CASE Apart \/ UNCHANGED vars
  <2>1. Started' = Started
    BY <1>1, ApartStore DEF Started, IdsOf, Places
  <2> QED
    BY <2>1 DEF Numbered
<1>2. CASE Remarking
    BY <1>2, RemarkingStore DEF Numbered
<1>3. CASE Starting
  <2>1. NextId \in Ids /\ Started' = Started \cup {NextId}
    BY <1>3, StartingStore
  <2>2. NextId \in Nat \ {0} /\ Started = 1..(NextId - 1)
    BY NextIdFacts, SearchAssumption
  <2>3. 1..NextId = Started \cup {NextId}
    BY <2>2
  <2> QED
    BY <2>1, <2>3 DEF Numbered
<1>4. CASE Settling
  <2>1. journal' = journal
    BY <1>4, SettlingStore
  <2>2. Started' = Started
    BY <2>1 DEF Started, IdsOf, Places
  <2> QED
    BY <2>2 DEF Numbered
<1>5. CASE Finishing
    BY <1>5, FinishingStore DEF Numbered
<1> QED
    BY <1>1, <1>2, <1>3, <1>4, <1>5, ByEffect

\* Processes are only ever added by Launch, for the experiment being evaluated.
LEMMA EnginesOf ==
    ASSUME [Next]_vars
    PROVE  engines' \subseteq engines \/ Launch
BY DEF Next, Recover, Choose, Evaluate, End, Environment, vars,
       RecoverWrite, RecoverAppend, Recovered, TryBaseline, RefuseBaseline, Plan, EndLoop,
       WriteTurn, RefuseTurn, LogTurn, LeaveTurn, FailTurn, TakeProposal, TakeNothing, Begin,
       Measure, CleanUp, CleanUpFails, WriteResult, FinishExperiment,
       RecordError, Close, CloseFails, Resume, Crash, RequestStop, Expire, GuardianStops

\* Nothing comes to an experiment that was not started.
LEMMA OfStartedKept ==
    ASSUME TypeOK, Numbered, OfStarted, OneAtATime, [Next]_vars
    PROVE  OfStarted'
<1>1. Started \subseteq Started' => engines' \subseteq Started'
  <2>1. Launch => engines' \subseteq Started
    BY DEF Launch, OfStarted, OneAtATime, Pending, Started
  <2> QED
    BY <2>1, EnginesOf DEF OfStarted
<1>2. CASE Apart \/ UNCHANGED vars
  <2>1. Started' = Started /\ Finished' = Finished /\ results' = results
    BY <1>2, ApartStore DEF Started, Finished, IdsOf, Places
  <2> QED
    BY <1>1, <2>1 DEF OfStarted
<1>3. CASE Remarking
    BY <1>1, <1>3, RemarkingStore DEF OfStarted
<1>4. CASE Starting
    BY <1>1, <1>4, StartingStore DEF OfStarted
<1>5. CASE Settling
  <2>1. PICK n \in Pending \cap Ids, o \in Outcomes :
            results[n] = Nothing /\ results' = [results EXCEPT ![n] = o] /\ journal' = journal
    BY <1>5, SettlingStore
  <2>2. Started' = Started /\ Finished' = Finished
    BY <2>1 DEF Started, Finished, IdsOf, Places
  <2>3. n \in Started /\ n \notin Finished
    BY DEF Pending, Started, Finished
  <2>4. \A i \in Ids : results'[i] = IF i = n THEN o ELSE results[i]
    BY <2>1 DEF TypeOK
  <2>5. Started \subseteq Ids
    BY DEF Numbered
  <2> QED
    BY <1>1, <2>2, <2>3, <2>4, <2>5 DEF OfStarted
<1>6. CASE Finishing
  <2>1. PICK n \in Pending \cap Ids :
            /\ results[n] \in Outcomes /\ results' = results
            /\ Started' = Started /\ Finished' = Finished \cup {n}
    BY <1>6, FinishingStore
  <2>2. n \in Started
    BY DEF Pending, Started
  <2> QED
    BY <1>1, <2>1, <2>2 DEF OfStarted
<1> QED
    BY <1>2, <1>3, <1>4, <1>5, <1>6, ByEffect

\* The next experiment waits for the current one; only a recovery finds any left over.
LEMMA OneAtATimeKept ==
    ASSUME TypeOK, Numbered, OfStarted, OneAtATime, [Next]_vars
    PROVE  OneAtATime'
<1> USE DEF OneAtATime, Between, Evaluated
<1>1. journal' = journal => Pending' = Pending
    BY DEF Pending, IdsOf, Places
<1>2. UNCHANGED <<journal, results, pc, current, outcome>> /\ engines' \subseteq engines
          => OneAtATime'
    BY <1>1
<1>3. CASE UNCHANGED vars
    BY <1>2, <1>3 DEF vars, store, active
<1>4. CASE Apart
  <2>1. CASE RefuseBaseline \/ Plan \/ EndLoop \/ (\E s \in BOOLEAN : WriteTurn(s))
                \/ RefuseTurn \/ LeaveTurn \/ FailTurn \/ TakeNothing
    BY <1>1, <2>1 DEF RefuseBaseline, Plan, EndLoop, WriteTurn, RefuseTurn, LeaveTurn,
                      FailTurn, TakeNothing, store
  <2>2. CASE Launch
    BY <1>1, <2>2 DEF Launch, store, active
  <2>3. CASE \E o \in Outcomes : Measure(o)
    BY <1>1, <2>3 DEF Measure, store
  <2>4. CASE CleanUp
    BY <1>1, <2>4 DEF CleanUp, store, active
  <2>5. CASE CleanUpFails
    <3>1. [outcome EXCEPT !.verdict = "failed"] \in Outcomes \ Accepted
      BY <2>5 DEF CleanUpFails, Outcomes, Verdicts, Complete, Accepted
    <3> QED
      BY <1>1, <2>5, <3>1 DEF CleanUpFails, store
  <2>6. CASE CloseFails \/ Resume \/ Crash
    BY <1>1, <2>6 DEF CloseFails, Resume, Crash, Volatile
  <2>7. CASE RequestStop \/ Expire \/ \E n \in Ids : GuardianStops(n)
    BY <1>2, <2>7 DEF RequestStop, Expire, GuardianStops, store, active
  <2> QED
    BY <1>4, <2>1, <2>2, <2>3, <2>4, <2>5, <2>6, <2>7 DEF Apart
<1>5. CASE Remarking
  <2>1. Pending' = Pending
    BY <1>5, RemarkingStore DEF Pending, Started, Finished
  <2> QED
    BY <1>5, <2>1 DEF Remarking, Recovered, LogTurn, RecordError, Close, Volatile
<1>6. CASE Starting
  <2>1. pc \in Between /\ pc' = "measuring"
    BY <1>6 DEF Starting, TryBaseline, TakeProposal, Begin
  <2>2. Pending' = {NextId} /\ current' = NextId /\ NextId \in Ids
    BY <1>6, <2>1, StartingStore DEF Pending, Started, Finished, OfStarted
  <2>3. results'[NextId] = Nothing
    BY <1>6, StartingStore DEF OfStarted
  <2> QED
    BY <2>1, <2>2, <2>3
<1>7. CASE WriteResult
    BY <1>1, <1>7 DEF WriteResult, active, TypeOK
<1>8. CASE \E n \in Ids : RecoverWrite(n)
    BY <1>1, <1>8 DEF RecoverWrite
<1>9. CASE Finishing
  <2>1. PICK n \in Pending \cap Ids :
            /\ Started' = Started /\ Finished' = Finished \cup {n}
            /\ FinishExperiment => n = current
            /\ pc = "recovering" \/ FinishExperiment
    BY <1>9, FinishingStore
  <2>2. Pending' = Pending \ {n}
    BY <2>1 DEF Pending, Started, Finished
  <2>3. CASE FinishExperiment
    BY <2>1, <2>2, <2>3 DEF FinishExperiment, AfterCleanup
  <2>4. CASE \E i \in Ids : RecoverAppend(i)
    BY <2>4 DEF RecoverAppend
  <2> QED
    BY <1>9, <2>3, <2>4 DEF Finishing
<1> QED
    BY <1>3, <1>4, <1>5, <1>6, <1>7, <1>8, <1>9, ByEffect DEF Settling

\* The decision stands only once the processes are gone, and no experiment is launched
\* again after it has a result.
LEMMA CleanedKept ==
    ASSUME TypeOK, Numbered, OfStarted, OneAtATime, AcceptedWasCleaned, [Next]_vars
    PROVE  AcceptedWasCleaned'
<1>1. CASE Settling
  <2>1. CASE WriteResult
    BY <2>1 DEF WriteResult, AcceptedWasCleaned, OneAtATime, Evaluated, TypeOK
  <2>2. CASE \E n \in Ids : RecoverWrite(n)
    BY <2>2 DEF RecoverWrite, AcceptedWasCleaned, TypeOK, Accepted
  <2> QED
    BY <1>1, <2>1, <2>2 DEF Settling
<1>2. CASE ~Settling
  <2>1. results' = results
    BY <1>2, ByEffect, ApartStore, RemarkingStore, StartingStore, FinishingStore
  <2>2. CASE Launch
    <3>1. results[current] \notin Accepted
      BY <2>2 DEF Launch, OneAtATime, Evaluated, Accepted, Nothing
    <3> QED
      BY <2>1, <2>2, <3>1 DEF Launch, AcceptedWasCleaned
  <2> QED
    BY <2>1, <2>2, EnginesOf DEF AcceptedWasCleaned
<1> QED
    BY <1>1, <1>2

\* Remember adds what results() would add (loop.py, _remember_reference and _best), and no
\* other event or result changes what results() rebuilds.
LEMMA BooksKept ==
    ASSUME TypeOK, Numbered, OfStarted, OneAtATime, BooksMatchHistory, [Next]_vars
    PROVE  BooksMatchHistory'
<1> DEFINE Same ==
        /\ Places("experiment_finished")' = Places("experiment_finished")
        /\ \A k \in Places("experiment_finished") :
               journal'[k] = journal[k] /\ results'[journal[k].id] = results[journal[k].id]
<1>1. Same => Replayed' = Replayed
    BY ReplayedSame
<1>2. \A k \in Places("experiment_finished") :
          k \in 1..Len(journal) /\ journal[k].id \in Finished
    BY Journal DEF Places, IdsOf, Finished
<1>3. CASE Apart \/ UNCHANGED vars
  <2>1. Same
    BY <1>3, ApartStore DEF Places
  <2>2. pc' \in {"down", "recovering"} \/ (memory' = memory /\ pc \notin {"down", "recovering"})
            \/ UNCHANGED <<pc, memory>>
    BY <1>3 DEF Apart, RefuseBaseline, Plan, EndLoop, WriteTurn, RefuseTurn, LeaveTurn, FailTurn,
       TakeNothing, Launch, Measure, CleanUp, CleanUpFails, CloseFails, Resume, Crash,
       RequestStop, Expire, GuardianStops, Volatile, vars
  <2> HIDE DEF Same
  <2> QED
    BY <1>1, <2>1, <2>2 DEF BooksMatchHistory
<1>4. CASE Remarking
  <2>1. \E kind \in Kinds, n \in 0..MaxExperiments : Append1(kind, n)
    BY <1>4, RemarkingStore DEF Remark
  <2>2. Same
    BY <1>2, <1>4, <2>1, Grown, RemarkingStore
  <2>3. pc' = "down" \/ memory' = Replayed \/ (memory' = memory /\ pc \notin {"down", "recovering"})
    BY <1>4 DEF Remarking, Recovered, LogTurn, RecordError, Close, Volatile
  <2> HIDE DEF Same
  <2> QED
    BY <1>1, <2>2, <2>3 DEF BooksMatchHistory
<1>5. CASE Starting
  <2>1. \E n \in 0..MaxExperiments : Append1("experiment_started", n)
    BY <1>5, StartingStore DEF Ids
  <2>2. "experiment_started" \in Kinds
    BY DEF Kinds
  <2>3. Same
    BY <1>2, <1>5, <2>1, <2>2, Grown, StartingStore
  <2>4. memory' = memory /\ pc \notin {"down", "recovering"}
    BY <1>5 DEF Starting, TryBaseline, TakeProposal, Begin
  <2> HIDE DEF Same
  <2> QED
    BY <1>1, <2>3, <2>4 DEF BooksMatchHistory
<1>6. CASE Settling
  <2>1. PICK n \in Pending \cap Ids, o \in Outcomes :
            results[n] = Nothing /\ results' = [results EXCEPT ![n] = o] /\ journal' = journal
    BY <1>6, SettlingStore
  <2>2. n \notin Finished
    BY DEF Pending, Finished
  <2>3. \A i : i # n => results'[i] = results[i]
    BY <2>1 DEF TypeOK
  <2>4. Same
    BY <1>2, <2>1, <2>2, <2>3 DEF Places
  <2>5. pc' = "recovering" \/ (memory' = memory /\ pc \notin {"down", "recovering"})
    BY <1>6 DEF Settling, WriteResult, RecoverWrite
  <2> HIDE DEF Same
  <2> QED
    BY <1>1, <2>4, <2>5 DEF BooksMatchHistory
<1>7. CASE FinishExperiment
  <2>1. current \in Ids /\ outcome \in Outcomes /\ results[current] = outcome
    BY <1>7 DEF FinishExperiment, OneAtATime, Evaluated
  <2>2. Replayed' = Remember(Replayed, current, outcome)
    BY <1>7, <2>1, ReplayedGrows
  <2>3. memory' = Remember(memory, current, outcome) /\ memory = Replayed
    BY <1>7 DEF FinishExperiment, BooksMatchHistory
  <2> QED
    BY <2>2, <2>3 DEF BooksMatchHistory
<1>8. CASE \E n \in Ids : RecoverAppend(n)
    BY <1>8 DEF RecoverAppend, BooksMatchHistory
<1> QED
    BY <1>3, <1>4, <1>5, <1>6, <1>7, <1>8, ByEffect DEF Finishing

\* The types of the journal and the results, which only some of the steps change.
LEMMA StoreTyped ==
    ASSUME TypeOK, Numbered, OfStarted, OneAtATime, [Next]_vars
    PROVE  /\ journal' \in Seq([kind : Kinds, id : 0..MaxExperiments])
           /\ results' \in [Ids -> Outcomes \cup {Nothing}]
<1>1. CASE Apart \/ UNCHANGED vars
    BY <1>1, ApartStore DEF TypeOK
<1>2. CASE Remarking
  <2>1. PICK kind \in Kinds, n \in 0..MaxExperiments : Append1(kind, n)
    BY <1>2, RemarkingStore DEF Remark
  <2> QED
    BY <1>2, <2>1, Grown, RemarkingStore DEF TypeOK
<1>3. CASE Starting
  <2>1. PICK n \in 0..MaxExperiments : Append1("experiment_started", n)
    BY <1>3, StartingStore DEF Ids
  <2>2. "experiment_started" \in Kinds
    BY DEF Kinds
  <2> QED
    BY <1>3, <2>1, <2>2, Grown, StartingStore DEF TypeOK
<1>4. CASE Settling
    BY <1>4, SettlingStore DEF TypeOK
<1>5. CASE Finishing
  <2>1. PICK n \in 0..MaxExperiments : Append1("experiment_finished", n) /\ results' = results
    BY <1>5, FinishingStore DEF Ids
  <2>2. "experiment_finished" \in Kinds
    BY DEF Kinds
  <2> QED
    BY <2>1, <2>2, Grown DEF TypeOK
<1> QED
    BY <1>1, <1>2, <1>3, <1>4, <1>5, ByEffect

\* What a controller that starts takes over from the journal.
LEMMA ReplayedTyped ==
    ASSUME TypeOK, Numbered, OfStarted
    PROVE  Replayed \in [best : 0..MaxExperiments, baseline : 0..MaxExperiments,
                         reference : 0..MaxExperiments]
BY Ends DEF Replayed

\* Types, and that the third empty turn leaves the loop.
LEMMA TypeKept ==
    ASSUME TypeOK, Patience, Numbered, OfStarted, OneAtATime, [Next]_vars
    PROVE  TypeOK' /\ Patience'
<1> DEFINE Rest ==
        /\ turnFiles' \subseteq 1..MaxTurns
        /\ engines' \subseteq Ids
        /\ pc' \in {"down", "recovering", "choosing", "planning", "logging", "proposed",
                    "measuring", "cleaning", "settling", "recording", "failing", "closing"}
        /\ current' \in 0..MaxExperiments
        /\ outcome' \in Outcomes \cup {Nothing}
        /\ tainted' \in BOOLEAN /\ stop' \in BOOLEAN /\ cancelled' \in BOOLEAN
        /\ expired' \in BOOLEAN /\ proposed' \in BOOLEAN
        /\ left' \in 0..NumBaselines
        /\ empties' \in 0..3 /\ (empties' < 3 \/ pc' = "closing")
        /\ runs' \in 0..MaxRuns
        /\ memory' \in [best : 0..MaxExperiments, baseline : 0..MaxExperiments,
                        reference : 0..MaxExperiments]
<1>1. Rest => TypeOK' /\ Patience'
    BY StoreTyped DEF TypeOK, Patience
<1>2. /\ turnFiles \subseteq 1..MaxTurns
      /\ engines \subseteq Ids
      /\ pc \in {"down", "recovering", "choosing", "planning", "logging", "proposed",
                 "measuring", "cleaning", "settling", "recording", "failing", "closing"}
      /\ current \in 0..MaxExperiments
      /\ outcome \in Outcomes \cup {Nothing}
      /\ tainted \in BOOLEAN /\ stop \in BOOLEAN /\ cancelled \in BOOLEAN
      /\ expired \in BOOLEAN /\ proposed \in BOOLEAN
      /\ left \in 0..NumBaselines
      /\ empties \in 0..3 /\ (empties < 3 \/ pc = "closing")
      /\ runs \in 0..MaxRuns
      /\ memory \in [best : 0..MaxExperiments, baseline : 0..MaxExperiments,
                     reference : 0..MaxExperiments]
    BY DEF TypeOK, Patience
<1>3. CASE UNCHANGED vars
    BY <1>1, <1>2, <1>3 DEF vars, store, active, signals, loop
<1> USE DEF store, active, signals, loop
<1>4. CASE \E n \in Ids : RecoverWrite(n) \/ RecoverAppend(n)
    BY <1>1, <1>2, <1>4 DEF RecoverWrite, RecoverAppend
<1>5. CASE RefuseTurn \/ RefuseBaseline \/ Plan \/ EndLoop \/ LogTurn
  <2>1. CASE RefuseBaseline
    <3>1. left' \in 0..NumBaselines
      BY <1>2, <2>1, SearchAssumption DEF RefuseBaseline, NeedsBaseline
    <3> QED
      BY <1>1, <1>2, <2>1, <3>1 DEF RefuseBaseline
  <2>2. CASE RefuseTurn
    BY <1>1, <1>2, <2>2 DEF RefuseTurn
  <2>3. CASE Plan
    BY <1>1, <1>2, <2>3 DEF Plan
  <2>4. CASE EndLoop
    BY <1>1, <1>2, <2>4 DEF EndLoop
  <2>5. CASE LogTurn
    BY <1>1, <1>2, <2>5 DEF LogTurn
  <2> QED
    BY <1>5, <2>1, <2>2, <2>3, <2>4, <2>5
<1>6. CASE Starting
  <2>1. current' \in 0..MaxExperiments
    BY <1>6, StartingStore DEF Ids
  <2>2. CASE TryBaseline
    <3>1. left' \in 0..NumBaselines
      BY <1>2, <2>2, SearchAssumption DEF TryBaseline, NeedsBaseline
    <3> QED
      BY <1>1, <1>2, <2>1, <2>2, <3>1 DEF TryBaseline, Begin
  <2>3. CASE TakeProposal
    <3>1. empties' = 0 /\ proposed' = FALSE
      BY <2>3 DEF TakeProposal
    <3>2. empties' \in 0..3 /\ empties' < 3
      BY <3>1
    <3>3. proposed' \in BOOLEAN
      BY <3>1
    <3> QED
      BY <1>1, <1>2, <2>1, <2>3, <3>2, <3>3 DEF TakeProposal, Begin
  <2> QED
    BY <1>6, <2>2, <2>3 DEF Starting
<1>7. CASE \E submitted \in BOOLEAN : WriteTurn(submitted)
    BY <1>1, <1>2, <1>7 DEF WriteTurn
<1>8. CASE LeaveTurn \/ FailTurn \/ RequestStop \/ Expire \/ RecordError
  <2>1. CASE LeaveTurn \/ FailTurn
    BY <1>1, <1>2, <2>1 DEF LeaveTurn, FailTurn
  <2>2. CASE RequestStop
    BY <1>1, <1>2, <2>2 DEF RequestStop
  <2>3. CASE Expire
    BY <1>1, <1>2, <2>3 DEF Expire
  <2>4. CASE RecordError
    BY <1>1, <1>2, <2>4 DEF RecordError
  <2> QED
    BY <1>8, <2>1, <2>2, <2>3, <2>4
<1>9. CASE TakeNothing
  <2>1. TooManyEmptyTurns(empties') <=> empties' >= 3
    BY DEF TooManyEmptyTurns
  <2>2. empties < 3
    BY <1>2, <1>9 DEF TakeNothing
  <2> QED
    BY <1>1, <1>2, <1>9, <2>1, <2>2 DEF TakeNothing
<1>10. CASE Launch
  <2>1. current \in Ids
    BY <1>10 DEF Launch, OneAtATime
  <2> QED
    BY <1>1, <1>2, <1>10, <2>1 DEF Launch
<1>11. CASE (\E o \in Outcomes : Measure(o)) \/ CleanUp \/ WriteResult
    BY <1>1, <1>2, <1>11 DEF Measure, CleanUp, WriteResult
<1>12. CASE CleanUpFails
  <2>1. outcome' \in Outcomes
    BY <1>12 DEF CleanUpFails, OneAtATime, Evaluated, Outcomes, Verdicts, Complete
  <2> QED
    BY <1>1, <1>2, <1>12, <2>1 DEF CleanUpFails
<1>13. CASE FinishExperiment
  <2>1. current \in 0..MaxExperiments
    BY <1>2
  <2>2. Remember(memory, current, outcome) \in
            [best : 0..MaxExperiments, baseline : 0..MaxExperiments, reference : 0..MaxExperiments]
    BY <1>2, <2>1 DEF Remember
  <2>3. pc' \in {"failing", "choosing"} /\ empties < 3 /\ current' \in 0..MaxExperiments
    BY <1>2, <1>13, SearchAssumption DEF FinishExperiment, AfterCleanup
  <2> QED
    BY <1>1, <1>2, <1>13, <2>2, <2>3 DEF FinishExperiment
<1>14. CASE Recovered
    BY <1>1, <1>2, <1>14, ReplayedTyped DEF Recovered
<1>15. CASE Close \/ CloseFails \/ Crash \/ Resume
  <2>1. \E place \in {"down", "recovering"} : Volatile(place)
    BY <1>15 DEF Close, CloseFails, Crash, Resume
  <2>2. turnFiles' = turnFiles /\ engines' \subseteq engines /\ runs' \in 0..MaxRuns
    BY <1>2, <1>15, SearchAssumption DEF Close, CloseFails, Crash, Resume
  <2>3. memory' \in [best : 0..MaxExperiments, baseline : 0..MaxExperiments,
                     reference : 0..MaxExperiments]
    BY <2>1, SearchAssumption DEF Volatile, Forgotten
  <2>4. /\ left' \in 0..NumBaselines /\ empties' \in 0..3 /\ empties' < 3
        /\ current' \in 0..MaxExperiments
    BY <2>1, SearchAssumption DEF Volatile
  <2>5. /\ tainted' \in BOOLEAN /\ stop' \in BOOLEAN /\ cancelled' \in BOOLEAN
        /\ expired' \in BOOLEAN /\ proposed' \in BOOLEAN /\ pc' \in {"down", "recovering"}
        /\ outcome' = Nothing
    BY <2>1 DEF Volatile
  <2>6. turnFiles' \subseteq 1..MaxTurns /\ engines' \subseteq Ids
    BY <1>2, <2>2
  <2> QED
    BY <1>1, <2>2, <2>3, <2>4, <2>5, <2>6
<1>16. CASE \E n \in Ids : GuardianStops(n)
    BY <1>1, <1>2, <1>16 DEF GuardianStops
<1> QED
    BY <1>3, <1>4, <1>5, <1>6, <1>7, <1>8, <1>9, <1>10, <1>11, <1>12, <1>13, <1>14, <1>15, <1>16
    DEF Next, Recover, Choose, Evaluate, End, Environment, Starting

\* The invariant holds in a run directory that is new.
LEMMA InitEstablishes == Init => IInv
<1> SUFFICES ASSUME Init PROVE IInv
    OBVIOUS
<1>1. Places("experiment_started") = {} /\ Places("experiment_finished") = {}
    BY DEF Init, Places
<1>2. Started = {} /\ Finished = {} /\ Pending = {}
    BY <1>1 DEF Started, Finished, Pending, IdsOf
<1>3. TypeOK
  <2>1. journal \in Seq([kind : Kinds, id : 0..MaxExperiments])
    BY EmptySeq DEF Init
  <2>2. /\ current \in 0..MaxExperiments /\ left \in 0..NumBaselines /\ empties \in 0..3
        /\ empties < 3 /\ runs \in 0..MaxRuns
    BY SearchAssumption DEF Init
  <2>3. memory \in [best : 0..MaxExperiments, baseline : 0..MaxExperiments,
                    reference : 0..MaxExperiments]
    BY SearchAssumption DEF Init, Forgotten
  <2>4. {tainted, stop, cancelled, expired, proposed} \subseteq BOOLEAN
    BY DEF Init
  <2>5. /\ results \in [Ids -> Outcomes \cup {Nothing}] /\ turnFiles \subseteq 1..MaxTurns
        /\ engines \subseteq Ids /\ outcome \in Outcomes \cup {Nothing} /\ pc = "down"
    BY DEF Init
  <2> QED
    BY <2>1, <2>2, <2>3, <2>4, <2>5 DEF TypeOK
<1>4. AcceptedWasCleaned /\ BooksMatchHistory /\ Patience
    BY DEF Init, AcceptedWasCleaned, BooksMatchHistory, Patience
<1>5. Numbered /\ OfStarted /\ OneAtATime
    BY <1>2 DEF Init, Numbered, OfStarted, OneAtATime, Between
<1> QED
    BY <1>3, <1>4, <1>5 DEF IInv

\* Every step keeps it.
LEMMA StepKeeps == IInv /\ [Next]_vars => IInv'
BY TypeKept, NumberedKept, OfStartedKept, OneAtATimeKept, CleanedKept, BooksKept DEF IInv

-----------------------------------------------------------------------------
(* Theorems *)

\* The invariant holds in every reachable state, over any number of controllers.
THEOREM Invariance == Spec => []IInv
BY InitEstablishes, StepKeeps, PTL DEF Spec

\* Every variable stays in its range; in particular a third empty turn in a row ends the
\* search.
THEOREM TypeCorrect == Spec => []TypeOK
<1>1. IInv => TypeOK
    BY DEF IInv
<1> QED
    BY <1>1, Invariance, PTL

\* Only an experiment whose processes were verifiably removed counts as accepted
\* (loop.py:234-246).
THEOREM AcceptedAlwaysCleaned == Spec => []AcceptedWasCleaned
<1>1. IInv => AcceptedWasCleaned
    BY DEF IInv
<1> QED
    BY <1>1, Invariance, PTL

\* A controller that resumed judges by what one that never stopped would (loop.py, _recover).
THEOREM BooksAlwaysMatch == Spec => []BooksMatchHistory
<1>1. IInv => BooksMatchHistory
    BY DEF IInv
<1> QED
    BY <1>1, Invariance, PTL

\* No step replaces a result that reached the disk (store.finish, loop.py:99).
THEOREM ResultsNeverChange == Spec => ResultsImmutable
<1>1. IInv /\ [Next]_vars => [\A n \in Ids : results[n] # Nothing => results'[n] = results[n]]_vars
  <2> SUFFICES ASSUME IInv, [Next]_vars, NEW n \in Ids, results[n] # Nothing
               PROVE  results'[n] = results[n]
    OBVIOUS
  <2>1. CASE Settling
    BY <2>1, SettlingStore DEF IInv, TypeOK
  <2>2. CASE ~Settling
    <3>1. results' = results
      BY <2>2, ByEffect, ApartStore, RemarkingStore, StartingStore, FinishingStore DEF IInv
    <3> QED
      BY <3>1
  <2> QED
    BY <2>1, <2>2
<1> QED
    BY <1>1, Invariance, PTL DEF Spec, ResultsImmutable

-----------------------------------------------------------------------------
(* Refinement *)

\* The history that a state of the store stands for (the mapping of Ledger).
Told == [n \in 1..(Max({0} \cup IdsOf("experiment_started"))) |->
            IF n \in IdsOf("experiment_finished") THEN results[n].verdict ELSE "open"]

\* The same without the largest number.
Shown == [n \in Started |-> IF n \in Finished THEN results[n].verdict ELSE "open"]

\* Both say the same, as the numbers have no gaps.
LEMMA ToldFacts ==
    IInv =>
        /\ Told = Shown
        /\ NextId \in Nat \ {0} /\ Started = 1..(NextId - 1)
<1> SUFFICES ASSUME IInv
             PROVE  /\ Told = Shown
                    /\ NextId \in Nat \ {0} /\ Started = 1..(NextId - 1)
    OBVIOUS
<1> USE DEF IInv
<1>1. /\ NextId \in Nat \ {0} /\ Started = 1..(NextId - 1)
      /\ Max({0} \cup Started) = NextId - 1
    BY NextIdFacts, SearchAssumption
<1> QED
    BY <1>1 DEF Told, Shown, Started, Finished

\* So they do after a step.
LEMMA ToldNext == (IInv => Told = Shown)'
<1>1. IInv => Told = Shown
    BY ToldFacts
<1> QED
    BY <1>1, PTL

\* An empty journal is an empty history.
LEMMA InitMaps == Init => Ledger!Init
<1> SUFFICES ASSUME Init PROVE Told = << >>
    BY DEF Ledger!Init, Told
<1>1. Started = {}
    BY DEF Init, Started, IdsOf, Places
<1>2. Told = Shown
    BY InitEstablishes, ToldFacts
<1> QED
    BY <1>1, <1>2 DEF Shown

\* A step of the search starts an experiment, settles one, or does not show.
LEMMA StepMaps == IInv /\ [Next]_vars => [Ledger!Next]_Told
<1> SUFFICES ASSUME IInv, [Next]_vars
             PROVE  Ledger!Next \/ Told' = Told
    OBVIOUS
<1>1. IInv'
    BY StepKeeps
<1>2. Told = Shown /\ Told' = Shown'
  <2>1. Told = Shown
    BY ToldFacts
  <2>2. Told' = Shown'
    BY <1>1, ToldNext
  <2> QED
    BY <1>1, <2>1, <2>2
<1> USE DEF IInv, Shown
<1> DEFINE H == Shown
<1>3. ASSUME Started' = Started, Finished' = Finished,
             \A n \in Finished : results'[n] = results[n]
      PROVE  Told' = Told
    BY <1>2, <1>3
<1>4. CASE Apart \/ UNCHANGED vars
    BY <1>3, <1>4, ApartStore DEF Started, Finished, IdsOf, Places
<1>5. CASE Remarking
    BY <1>3, <1>5, RemarkingStore
<1>6. CASE Settling
  <2>1. PICK n \in Pending \cap Ids, o \in Outcomes :
            results[n] = Nothing /\ results' = [results EXCEPT ![n] = o] /\ journal' = journal
    BY <1>6, SettlingStore
  <2>2. n \notin Finished
    BY DEF Pending, Finished
  <2>3. \A i : i # n => results'[i] = results[i]
    BY <2>1 DEF TypeOK
  <2> QED
    BY <1>3, <2>1, <2>2, <2>3 DEF Started, Finished, IdsOf, Places
<1>7. CASE Starting
  <2>1. Ledger!Start
    <3>1. \A n \in DOMAIN Told : Told[n] # "open"
      <4>1. Started \subseteq Finished
        BY <1>7 DEF Starting, TryBaseline, TakeProposal, OneAtATime, Between, Pending,
                    Started, Finished
      <4>2. \A n \in Finished : results[n].verdict # "open"
        BY DEF OfStarted, Outcomes, Verdicts
      <4> QED
        BY <1>2, <4>1, <4>2
    <3>2. Told' = Append(Told, "open")
      <4>1. /\ NextId \notin Started /\ results' = results
            /\ Started' = Started \cup {NextId} /\ Finished' = Finished
        BY <1>7, StartingStore
      <4>2. NextId \in Nat \ {0} /\ Started = 1..(NextId - 1)
        BY ToldFacts
      <4>3. NextId \notin Finished
        BY <4>1 DEF OfStarted
      <4> DEFINE m == NextId - 1
      <4>4. m \in Nat /\ Started = 1..m /\ Started' = 1..(m + 1) /\ NextId = m + 1
        BY <4>1, <4>2
      <4>5. H \in Seq({H[n] : n \in 1..m}) /\ Len(H) = m
        <5> HIDE DEF m
        <5> QED
          BY <4>4, IsASeq
      <4>6. Append(H, "open") = [n \in 1..(m + 1) |-> IF n <= m THEN H[n] ELSE "open"]
        <5>1. /\ Append(H, "open") \in Seq({H[n] : n \in 1..m} \cup {"open"})
              /\ Len(Append(H, "open")) = m + 1
              /\ \A i \in 1..m : Append(H, "open")[i] = H[i]
              /\ Append(H, "open")[m + 1] = "open"
          <6> DEFINE S == {H[n] : n \in 1..m} \cup {"open"}
          <6>1. H \in Seq(S) /\ "open" \in S
            BY <4>5, SeqMonotonic
          <6> HIDE DEF S, H, m
          <6> QED
            BY <4>5, <6>1, AppendProperties DEF S
        <5>2. Append(H, "open") = [n \in 1..(m + 1) |-> Append(H, "open")[n]]
          BY <5>1, LenProperties
        <5> HIDE DEF m, H
        <5> QED
          BY <4>4, <5>1, <5>2
      <4>7. \A n \in 1..(m + 1) : H'[n] = IF n <= m THEN H[n] ELSE "open"
        <5> HIDE DEF m
        <5> QED
          BY <4>1, <4>3, <4>4
      <4> QED
        BY <1>2, <4>4, <4>6, <4>7
    <3> QED
      BY <3>1, <3>2 DEF Ledger!Start, Told
  <2> QED
    BY <2>1 DEF Ledger!Next
<1>8. CASE Finishing
  <2>1. PICK n \in Pending \cap Ids :
            /\ results[n] \in Outcomes /\ results' = results
            /\ Started' = Started /\ Finished' = Finished \cup {n}
    BY <1>8, FinishingStore
  <2>2. n \in Started /\ n \notin Finished
    BY DEF Pending, Started, Finished
  <2>3. PICK v \in Verdicts : v = results[n].verdict
    BY <2>1 DEF Outcomes
  <2>4. Told[n] = "open" /\ n \in DOMAIN Told
    BY <1>2, <2>2
  <2>5. Told' = [Told EXCEPT ![n] = v]
    BY <1>2, <2>1, <2>2, <2>3
  <2>6. Ledger!Settle(n, v)
    BY <2>4, <2>5 DEF Ledger!Settle, Told
  <2>7. \E i \in DOMAIN Told, w \in Verdicts : Ledger!Settle(i, w)
    BY <2>4, <2>6
  <2> QED
    BY <2>7 DEF Ledger!Next, Told
<1> QED
    BY <1>4, <1>5, <1>6, <1>7, <1>8, ByEffect

\* The store, with its crashes and recoveries, implements History: experiments are numbered
\* without gaps, started one at a time and settled once.
THEOREM StoreIsHistory == Spec => ImplementsHistory
<1>1. Init => Ledger!Init
    BY InitMaps
<1>2. IInv /\ [Next]_vars => [Ledger!Next]_Told
    BY StepMaps
<1> QED
    BY <1>1, <1>2, Invariance, PTL DEF Spec, ImplementsHistory, Ledger!Spec, Told
====
