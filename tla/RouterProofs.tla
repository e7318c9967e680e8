---------------------------- MODULE RouterProofs ----------------------------
(***************************************************************************)
(* For every number of requests and replicas, every concurrency limit and   *)
(* queue depth: the router's variables keep their types, no concurrency     *)
(* slot is lost or invented, inflight_requests counts the leases, the       *)
(* queue's books are exact, every failure is charged once to the replica    *)
(* that failed, a request is retried once and elsewhere, and the router     *)
(* implements the abstract admission control.                               *)
(***************************************************************************)
EXTENDS Router, FiniteSetTheorems, SequenceTheorems, TLAPS

Claims(p) == {r \in Requests : p[r] \in Claiming}
Holders(p, l, s) == {r \in Requests : p[r] \in Leased /\ l[r] = s}

SemType == [pc : [Requests -> PCs], permits : Nat]
Total(sem) == sem.permits + Cardinality(Claims(sem.pc))

\* From p to q some waiters were woken and nothing else happened.
OnlyWakes(p, q) ==
    \A r \in Requests :
        \/ q[r] = p[r]
        \/ p[r] = "queued" /\ q[r] = "woken"

\* A lease refers to a ReplicaState object, one whose id is excluded from the
\* retry: this is why a lease never moves onto the object it is already on.
LeaseOK ==
    \A r \in Requests :
        pc[r] \in Leased => lease[r] \in States /\ lease[r][1] \in excluded[r]

IInv == TypeOK /\ LeaseOK /\ SlotsConserved /\ InflightExact

\* Changing one request's place changes the number of claims by what that
\* request claims before and after.
LEMMA ClaimsChange ==
    ASSUME NEW p \in [Requests -> PCs], NEW r \in Requests, NEW v \in PCs
    PROVE  /\ Cardinality(Claims(p)) \in Nat
           /\ Cardinality(Claims([p EXCEPT ![r] = v])) \in Nat
           /\ (v \in Claiming <=> p[r] \in Claiming)
                 => Cardinality(Claims([p EXCEPT ![r] = v])) = Cardinality(Claims(p))
           /\ v \in Claiming /\ p[r] \notin Claiming
                 => Cardinality(Claims([p EXCEPT ![r] = v])) = Cardinality(Claims(p)) + 1
           /\ v \notin Claiming /\ p[r] \in Claiming
                 => Cardinality(Claims([p EXCEPT ![r] = v])) = Cardinality(Claims(p)) - 1
<1> DEFINE q == [p EXCEPT ![r] = v]
<1>1. IsFiniteSet(Claims(p)) /\ IsFiniteSet(Claims(q))
  BY RouterAssumption, FS_Subset DEF Claims
<1>2. Cardinality(Claims(p)) \in Nat /\ Cardinality(Claims(q)) \in Nat
  BY <1>1, FS_CardinalityType
<1>3. CASE (v \in Claiming) <=> (p[r] \in Claiming)
  <2>1. Claims(q) = Claims(p)
    BY <1>3 DEF Claims
  <2>. QED  BY <1>2, <1>3, <2>1
<1>4. CASE v \in Claiming /\ p[r] \notin Claiming
  <2>1. Claims(q) = Claims(p) \cup {r} /\ r \notin Claims(p)
    BY <1>4 DEF Claims
  <2>2. Cardinality(Claims(p) \cup {r}) = Cardinality(Claims(p)) + 1
    BY <1>1, <2>1, FS_AddElement
  <2>3. Cardinality(Claims(q)) = Cardinality(Claims(p)) + 1
    BY <2>1, <2>2
  <2>. QED  BY <1>2, <1>4, <2>3
<1>5. CASE v \notin Claiming /\ p[r] \in Claiming
  <2>1. Claims(q) = Claims(p) \ {r} /\ r \in Claims(p)
    BY <1>5 DEF Claims
  <2>2. Cardinality(Claims(p) \ {r}) = Cardinality(Claims(p)) - 1
    BY <1>1, <2>1, FS_RemoveElement
  <2>3. Cardinality(Claims(q)) = Cardinality(Claims(p)) - 1
    BY <2>1, <2>2
  <2>. QED  BY <1>2, <1>5, <2>3
<1>. QED  BY <1>3, <1>4, <1>5

\* Waking a waiter turns one permit into one claim and moves nobody else.
LEMMA WakeNextLemma ==
    ASSUME TypeOK, NEW sem \in SemType, sem.permits > 0
    PROVE  /\ WakeNext(sem) \in SemType
           /\ Total(WakeNext(sem)) = Total(sem)
           /\ OnlyWakes(sem.pc, WakeNext(sem).pc)
<1>1. CASE HeadOfLine(sem) = {}
  BY <1>1 DEF WakeNext, OnlyWakes
<1>2. CASE HeadOfLine(sem) # {}
  <2> DEFINE i == CHOOSE i \in HeadOfLine(sem) : TRUE
             w == waiters[i]
             p == [sem.pc EXCEPT ![w] = "woken"]
  <2>1. i \in HeadOfLine(sem)
    BY <1>2
  <2>2. w \in Requests /\ sem.pc[w] = "queued"
    <3>1. waiters \in Seq(Requests)
      BY DEF TypeOK
    <3>2. i \in DOMAIN waiters /\ sem.pc[waiters[i]] = "queued"
      BY <2>1 DEF HeadOfLine, Pending
    <3>. QED  BY <3>1, <3>2
  <2>3. WakeNext(sem) = [pc |-> p, permits |-> sem.permits - 1]
    BY <1>2 DEF WakeNext, Sem
  <2>4. sem.pc \in [Requests -> PCs] /\ sem.permits \in Nat
    BY DEF SemType
  <2>5. "woken" \in PCs /\ "woken" \in Claiming /\ "queued" \notin Claiming
    BY DEF PCs, Claiming, Leased
  <2>6. Cardinality(Claims(p)) = Cardinality(Claims(sem.pc)) + 1
        /\ Cardinality(Claims(sem.pc)) \in Nat
    <3> HIDE DEF p, w
    <3>1. p = [sem.pc EXCEPT ![w] = "woken"]
      BY DEF p
    <3>. QED  BY <3>1, <2>2, <2>4, <2>5, ClaimsChange
  <2>7. p \in [Requests -> PCs]
    BY <2>4, <2>5
  <2>8. WakeNext(sem) \in SemType
    <3> HIDE DEF p
    <3>. QED  BY <2>3, <2>4, <2>7 DEF SemType
  <2>9. Total(WakeNext(sem)) = Total(sem)
    <3> HIDE DEF p
    <3>. QED  BY <2>3, <2>4, <2>6 DEF Total
  <2>10. \A r \in Requests : p[r] = IF r = w THEN "woken" ELSE sem.pc[r]
    BY <2>2, <2>4
  <2>11. WakeNext(sem).pc = p
    BY <2>3
  <2>. HIDE DEF p, w
  <2>. QED  BY <2>2, <2>8, <2>9, <2>10, <2>11 DEF OnlyWakes
<1>. QED  BY <1>1, <1>2

\* release() of the semaphore leaves one more permit, or the same
\* permits and one more claim: slots are neither lost nor made.
LEMMA ReleaseSemLemma ==
    ASSUME TypeOK, NEW sem \in SemType
    PROVE  /\ ReleaseSem(sem) \in SemType
           /\ HasSemaphore => Total(ReleaseSem(sem)) = Total(sem) + 1
           /\ OnlyWakes(sem.pc, ReleaseSem(sem).pc)
<1> DEFINE more == Sem(sem.pc, sem.permits + 1)
<1>1. CASE ~HasSemaphore
  BY <1>1 DEF ReleaseSem, OnlyWakes
<1>2. CASE HasSemaphore
  <2>1. more \in SemType /\ more.permits > 0 /\ more.pc = sem.pc
    BY DEF SemType, Sem
  <2>2. Total(more) = Total(sem) + 1
    <3>1. more.permits = sem.permits + 1 /\ sem.permits \in Nat
      BY DEF Sem, SemType
    <3>2. Cardinality(Claims(sem.pc)) \in Nat
      BY RouterAssumption, FS_Subset, FS_CardinalityType DEF Claims
    <3>. QED  BY <2>1, <3>1, <3>2 DEF Total
  <2>3. ReleaseSem(sem) = WakeNext(more)
    BY <1>2 DEF ReleaseSem
  <2>. HIDE DEF more
  <2>4. /\ WakeNext(more) \in SemType
        /\ Total(WakeNext(more)) = Total(more)
        /\ OnlyWakes(more.pc, WakeNext(more).pc)
    BY <2>1, WakeNextLemma
  <2>. QED  BY <2>1, <2>2, <2>3, <2>4
<1>. QED  BY <1>1, <1>2

\* Passing a spare permit on keeps the sum of permits and claims.
LEMMA WakeIfSpareLemma ==
    ASSUME TypeOK, NEW sem \in SemType
    PROVE  /\ WakeIfSpare(sem) \in SemType
           /\ Total(WakeIfSpare(sem)) = Total(sem)
           /\ OnlyWakes(sem.pc, WakeIfSpare(sem).pc)
<1>1. CASE sem.permits > 0
  BY <1>1, WakeNextLemma DEF WakeIfSpare
<1>2. CASE ~(sem.permits > 0)
  BY <1>2 DEF WakeIfSpare, OnlyWakes
<1>. QED  BY <1>1, <1>2

\* Giving the books of the leases to Holders, which the steps below change one
\* request at a time.
LEMMA HoldersFacts ==
    ASSUME NEW p \in [Requests -> PCs], NEW l, NEW s
    PROVE  /\ IsFiniteSet(Holders(p, l, s))
           /\ Cardinality(Holders(p, l, s)) \in Nat
BY RouterAssumption, FS_Subset, FS_CardinalityType DEF Holders

\* InflightExact, said with Holders.
LEMMA InflightHolders ==
    InflightExact <=> \A s \in States : inflight[s] = Cardinality(Holders(pc, lease, s))
<1>1. \A s \in States : {r \in LeaseHolders : lease[r] = s} = Holders(pc, lease, s)
  BY DEF LeaseHolders, Holders
<1>. QED  BY <1>1 DEF InflightExact

\* Waking waiters changes no lease's books.
LEMMA WakesKeepHolders ==
    ASSUME NEW p, NEW q, OnlyWakes(p, q), NEW l, NEW s
    PROVE  Holders(q, l, s) = Holders(p, l, s)
BY DEF OnlyWakes, Holders, Leased
Counters == [requests : Nat, errors : Nat, rejected : Nat]

\* The router's totals stay numbers.
LEMMA CountersLemma ==
    ASSUME NEW t \in Counters, NEW n \in Nat
    PROVE  /\ [t EXCEPT !.requests = @ + n] \in Counters
           /\ [t EXCEPT !.errors = @ + n] \in Counters
           /\ [t EXCEPT !.rejected = @ + n] \in Counters
BY DEF Counters

\* What every step has to leave behind.
Kept ==
    /\ pc' \in [Requests -> PCs] /\ permits' \in Nat
    /\ lease' \in [Requests -> States \cup {NoState}]
    /\ excluded' \in [Requests -> SUBSET ReplicaIds]
    /\ inflight' \in [States -> Nat]
    /\ LeaseOK' /\ SlotsConserved' /\ InflightExact'

\* A request that owns a slot but no lease gives the slot back.
LEMMA GiveBackKeeps ==
    ASSUME IInv, NEW r \in Requests, NEW sem \in SemType,
           OnlyWakes(pc, sem.pc), pc[r] \in {"idle", "woken"},
           HasSemaphore => Total(sem) = MaxConcurrency
                                        - (IF pc[r] = "idle" THEN 1 ELSE 0),
           SetSem(ReleaseSem([sem EXCEPT !.pc[r] = "done"])),
           UNCHANGED <<lease, excluded, inflight>>
    PROVE  Kept
<1>. USE DEF IInv
<1> DEFINE given == [sem EXCEPT !.pc[r] = "done"]
           new == ReleaseSem(given)
<1>0. /\ TypeOK
      /\ sem.pc \in [Requests -> PCs] /\ sem.permits \in Nat
      /\ sem.pc[r] = pc[r]
  BY DEF SemType, OnlyWakes
<1>1. "done" \in PCs /\ "done" \notin Claiming /\ "done" \notin Leased
      /\ "idle" \notin Claiming /\ "woken" \in Claiming /\ pc[r] \notin Leased
  BY DEF PCs, Claiming, Leased
<1>2. given \in SemType /\ given.pc = [sem.pc EXCEPT ![r] = "done"]
      /\ given.permits = sem.permits
  BY <1>0, <1>1 DEF SemType
<1>3. pc' = new.pc /\ permits' = new.permits
  BY DEF SetSem
<1>. HIDE DEF given
<1>4. new \in SemType /\ OnlyWakes(given.pc, new.pc)
      /\ (HasSemaphore => Total(new) = Total(given) + 1)
  BY <1>0, <1>2, ReleaseSemLemma
<1>. HIDE DEF new
<1>5. pc' \in [Requests -> PCs] /\ permits' \in Nat
  BY <1>3, <1>4 DEF SemType
<1>6. \A x \in Requests : pc'[x] \in Leased <=> pc[x] \in Leased
  BY <1>0, <1>1, <1>2, <1>3, <1>4 DEF OnlyWakes, Leased
<1>7. LeaseOK'
  BY <1>6 DEF LeaseOK
<1>8. SlotsConserved'
  <2>1. Cardinality(Claims(given.pc)) = Cardinality(Claims(sem.pc))
                                        - (IF pc[r] = "idle" THEN 0 ELSE 1)
        /\ Cardinality(Claims(sem.pc)) \in Nat
    BY <1>0, <1>1, <1>2, ClaimsChange
  <2>2. HasSemaphore => Total(new) = MaxConcurrency
    BY <1>0, <1>2, <1>4, <2>1, RouterAssumption DEF Total
  <2>. QED  BY <1>3, <2>2 DEF Total, SlotsConserved, Claims, HasSemaphore
<1>9. InflightExact'
  <2>1. \A s \in States : Holders(pc', lease', s) = Holders(pc, lease, s)
    BY <1>6 DEF Holders
  <2>2. \A s \in States : inflight'[s] = Cardinality(Holders(pc', lease', s))
    BY <2>1, InflightHolders
  <2>. QED  BY <2>2 DEF InflightExact, LeaseHolders, Holders
<1>. QED  BY <1>0, <1>5, <1>7, <1>8, <1>9 DEF Kept, TypeOK

\* The end of acquire(): the request that got here owns a slot of the
\* semaphore, and turns it into a lease or gives it back.
LEMMA LeaseReplicaKeeps ==
    ASSUME IInv, NEW r \in Requests, NEW sem \in SemType,
           OnlyWakes(pc, sem.pc), pc[r] \in {"idle", "woken"},
           HasSemaphore => Total(sem) = MaxConcurrency
                                        - (IF pc[r] = "idle" THEN 1 ELSE 0),
           LeaseReplica(r, sem)
    PROVE  Kept /\ outcome' \in [Requests -> Outcomes]
                /\ totals' \in [requests : Nat, errors : Nat, rejected : Nat]
<1>. USE DEF IInv
<1>0. /\ TypeOK
      /\ sem.pc \in [Requests -> PCs] /\ sem.permits \in Nat
      /\ sem.pc[r] = pc[r]
  BY DEF SemType, OnlyWakes
<1>1. CASE \E i \in LeastLoaded(Candidates({})) :
          /\ SetSem([sem EXCEPT !.pc[r] = "sending"])
          /\ lease' = [lease EXCEPT ![r] = State(i)]
          /\ excluded' = [excluded EXCEPT ![r] = {i}]
          /\ inflight' = [inflight EXCEPT ![State(i)] = @ + 1]
          /\ totals' = [totals EXCEPT !.requests = @ + 1]
          /\ UNCHANGED outcome
  <2>1. PICK i \in LeastLoaded(Candidates({})) :
          /\ SetSem([sem EXCEPT !.pc[r] = "sending"])
          /\ lease' = [lease EXCEPT ![r] = State(i)]
          /\ excluded' = [excluded EXCEPT ![r] = {i}]
          /\ inflight' = [inflight EXCEPT ![State(i)] = @ + 1]
          /\ totals' = [totals EXCEPT !.requests = @ + 1]
          /\ UNCHANGED outcome
    BY <1>1
  <2>2. i \in ReplicaIds /\ State(i) \in States /\ State(i)[1] = i
    BY DEF LeastLoaded, Candidates, State, States, TypeOK
  <2>3. pc' = [sem.pc EXCEPT ![r] = "sending"] /\ permits' = sem.permits
    BY <2>1, <1>0 DEF SetSem, SemType
  <2>4. "sending" \in PCs /\ "sending" \in Claiming /\ "sending" \in Leased
        /\ "idle" \notin Claiming /\ "woken" \in Claiming /\ pc[r] \notin Leased
    BY DEF PCs, Claiming, Leased
  <2>5. pc' \in [Requests -> PCs] /\ permits' \in Nat
    BY <1>0, <2>3, <2>4
  <2>6. lease' \in [Requests -> States \cup {NoState}]
        /\ excluded' \in [Requests -> SUBSET ReplicaIds]
        /\ inflight' \in [States -> Nat]
        /\ totals' \in [requests : Nat, errors : Nat, rejected : Nat]
        /\ outcome' \in [Requests -> Outcomes]
    <3>1. lease' \in [Requests -> States \cup {NoState}]
      BY <2>1, <2>2 DEF TypeOK
    <3>2. excluded' \in [Requests -> SUBSET ReplicaIds]
      BY <2>1, <2>2 DEF TypeOK
    <3>3. inflight' \in [States -> Nat]
      BY <2>1, <2>2 DEF TypeOK
    <3>4. totals' \in [requests : Nat, errors : Nat, rejected : Nat]
      BY <2>1, CountersLemma DEF TypeOK, Counters
    <3>5. outcome' \in [Requests -> Outcomes]
      BY <2>1 DEF TypeOK
    <3>. QED  BY <3>1, <3>2, <3>3, <3>4, <3>5
  <2>7. LeaseOK'
    <3>1. \A x \in Requests : x # r => (pc'[x] \in Leased <=> pc[x] \in Leased)
      BY <1>0, <2>3 DEF OnlyWakes, Leased, TypeOK
    <3>2. lease'[r] = State(i) /\ excluded'[r] = {i}
          /\ \A x \in Requests : x # r => lease'[x] = lease[x] /\ excluded'[x] = excluded[x]
      BY <2>1 DEF TypeOK
    <3>. QED  BY <2>2, <3>1, <3>2 DEF LeaseOK
  <2>8. SlotsConserved'
    <3>1. Cardinality(Claims(pc')) = Cardinality(Claims(sem.pc))
                                     + (IF pc[r] = "idle" THEN 1 ELSE 0)
          /\ Cardinality(Claims(sem.pc)) \in Nat
      BY <1>0, <2>3, <2>4, ClaimsChange
    <3>2. HasSemaphore => permits' + Cardinality(Claims(pc')) = MaxConcurrency
      BY <1>0, <2>3, <3>1, RouterAssumption DEF Total
    <3>. QED  BY <3>2 DEF SlotsConserved, Claims, HasSemaphore
  <2>9. InflightExact'
    <3>1. \A s \in States : inflight[s] = Cardinality(Holders(pc, lease, s))
      BY InflightHolders
    <3>2. Holders(pc', lease', State(i)) = Holders(pc, lease, State(i)) \cup {r}
          /\ r \notin Holders(pc, lease, State(i))
      BY <1>0, <2>1, <2>3, <2>4 DEF Holders, OnlyWakes, Leased, TypeOK
    <3>3. \A s \in States : s # State(i) =>
              Holders(pc', lease', s) = Holders(pc, lease, s)
      BY <1>0, <2>1, <2>3, <2>4 DEF Holders, OnlyWakes, Leased, TypeOK
    <3>4. Cardinality(Holders(pc', lease', State(i)))
              = Cardinality(Holders(pc, lease, State(i))) + 1
      <4>1. IsFiniteSet(Holders(pc, lease, State(i)))
        BY HoldersFacts DEF TypeOK
      <4>2. Cardinality(Holders(pc, lease, State(i)) \cup {r})
                = Cardinality(Holders(pc, lease, State(i))) + 1
        BY <3>2, <4>1, FS_AddElement
      <4>. QED  BY <3>2, <4>2
    <3>5. \A s \in States : inflight'[s] = Cardinality(Holders(pc', lease', s))
      BY <2>1, <2>2, <3>1, <3>3, <3>4 DEF TypeOK
    <3>. QED  BY <3>5 DEF InflightExact, LeaseHolders, Holders
  <2>. QED  BY <2>5, <2>6, <2>7, <2>8, <2>9 DEF Kept
<1>2. CASE /\ SetSem(ReleaseSem([sem EXCEPT !.pc[r] = "done"]))
           /\ outcome' = [outcome EXCEPT ![r] = "no_replica"]
           /\ UNCHANGED <<lease, excluded, inflight, totals>>
  <2>1. Kept
    BY <1>2, GiveBackKeeps
  <2>2. "no_replica" \in Outcomes
    BY DEF Outcomes
  <2>. QED  BY <1>0, <1>2, <2>1, <2>2 DEF TypeOK
<1>. QED  BY <1>1, <1>2 DEF LeaseReplica

\* release(): lease and slot are given back together.
LEMMA ReleaseKeeps ==
    ASSUME IInv, NEW r \in Requests, pc[r] \in Leased,
           NEW failed \in BOOLEAN, Release(r, failed)
    PROVE  Kept /\ failures' \in [States -> Nat] /\ totals' \in Counters
<1>. USE DEF IInv
<1> DEFINE given == Sem([pc EXCEPT ![r] = "done"], permits)
           new == ReleaseSem(given)
<1>0. TypeOK /\ lease[r] \in States
  BY DEF LeaseOK
<1>1. "done" \in PCs /\ "done" \notin Claiming /\ "done" \notin Leased
      /\ pc[r] \in Claiming
  BY DEF PCs, Claiming, Leased
<1>2. given \in SemType /\ given.pc = [pc EXCEPT ![r] = "done"]
      /\ given.permits = permits
  BY <1>0, <1>1 DEF SemType, Sem, TypeOK
<1>3. pc' = new.pc /\ permits' = new.permits
  BY DEF SetSem, Release
<1>. HIDE DEF given
<1>4. new \in SemType /\ OnlyWakes(given.pc, new.pc)
      /\ (HasSemaphore => Total(new) = Total(given) + 1)
  BY <1>0, <1>2, ReleaseSemLemma
<1>. HIDE DEF new
<1>5. pc' \in [Requests -> PCs] /\ permits' \in Nat
  BY <1>3, <1>4 DEF SemType
<1>6. \A x \in Requests :
          IF x = r THEN pc'[x] \notin Leased ELSE pc'[x] \in Leased <=> pc[x] \in Leased
  BY <1>0, <1>1, <1>2, <1>3, <1>4 DEF OnlyWakes, Leased, TypeOK
<1>7. LeaseOK'
  BY <1>6 DEF LeaseOK, Release
<1>8. SlotsConserved'
  <2>1. Cardinality(Claims(given.pc)) = Cardinality(Claims(pc)) - 1
        /\ Cardinality(Claims(pc)) \in Nat
    <3>1. pc \in [Requests -> PCs]
      BY <1>0 DEF TypeOK
    <3>. QED  BY <1>1, <1>2, <3>1, ClaimsChange
  <2>2. HasSemaphore => permits + Cardinality(Claims(pc)) = MaxConcurrency
    BY DEF SlotsConserved, Claims
  <2>3. permits \in Nat
    BY <1>0 DEF TypeOK
  <2>4. HasSemaphore => Total(new) = MaxConcurrency
    BY <1>2, <1>4, <2>1, <2>2, <2>3, RouterAssumption DEF Total
  <2>. QED  BY <1>3, <2>4 DEF Total, SlotsConserved, Claims, HasSemaphore
<1>9. inflight' = [inflight EXCEPT ![lease[r]] = Decrement(@)]
      /\ UNCHANGED <<lease, excluded>>
  BY DEF Release
<1>10. InflightExact'
  <2>1. \A s \in States : inflight[s] = Cardinality(Holders(pc, lease, s))
    BY InflightHolders
  <2>2. Holders(pc', lease', lease[r]) = Holders(pc, lease, lease[r]) \ {r}
        /\ r \in Holders(pc, lease, lease[r])
    BY <1>6, <1>9 DEF Holders
  <2>3. \A s \in States : s # lease[r] =>
            Holders(pc', lease', s) = Holders(pc, lease, s)
    BY <1>6, <1>9 DEF Holders
  <2>4. Cardinality(Holders(pc', lease', lease[r]))
            = Cardinality(Holders(pc, lease, lease[r])) - 1
        /\ Cardinality(Holders(pc', lease', lease[r])) \in Nat
        /\ Cardinality(Holders(pc, lease, lease[r])) \in Nat
    <3>1. IsFiniteSet(Holders(pc, lease, lease[r]))
      BY <1>0, HoldersFacts DEF TypeOK
    <3>2. Cardinality(Holders(pc, lease, lease[r]) \ {r})
              = Cardinality(Holders(pc, lease, lease[r])) - 1
      BY <2>2, <3>1, FS_RemoveElement
    <3>3. Cardinality(Holders(pc, lease, lease[r])) \in Nat
          /\ Cardinality(Holders(pc', lease', lease[r])) \in Nat
      BY <1>0, <1>5, HoldersFacts DEF TypeOK
    <3>. QED  BY <2>2, <3>2, <3>3
  <2>5. Decrement(inflight[lease[r]]) = Cardinality(Holders(pc', lease', lease[r]))
    BY <1>0, <2>1, <2>4 DEF Decrement
  <2>6. \A s \in States : inflight'[s] = Cardinality(Holders(pc', lease', s))
    BY <1>0, <1>9, <2>1, <2>3, <2>5 DEF TypeOK
  <2>. QED  BY <2>6 DEF InflightExact, LeaseHolders, Holders
<1>11. inflight' \in [States -> Nat]
  BY <1>0, <1>9 DEF TypeOK, Decrement
<1>12. failures' \in [States -> Nat]
  BY <1>0 DEF Release, TypeOK, Fault
<1>13. totals' \in Counters
  <2>1. totals \in Counters
    BY <1>0 DEF TypeOK, Counters
  <2>2. totals' = [totals EXCEPT !.errors = @ + Fault(failed)] /\ Fault(failed) \in Nat
    BY DEF Release, Fault
  <2>. QED  BY <2>1, <2>2, CountersLemma
<1>. QED  BY <1>0, <1>5, <1>7, <1>8, <1>9, <1>10, <1>11, <1>12, <1>13 DEF Kept, TypeOK

\* reroute(): the slot stays, the lease leaves one replica's books and enters
\* another's.
LEMMA RerouteKeeps ==
    ASSUME IInv, NEW r \in Requests, pc[r] \in {"sending", "closing"}, Reroute(r),
           pc' = [pc EXCEPT ![r] = "sending"], permits' = permits
    PROVE  Kept /\ failures' \in [States -> Nat]
<1>. USE DEF IInv
<1>0. TypeOK /\ pc[r] \in Leased /\ lease[r] \in States /\ lease[r][1] \in excluded[r]
      /\ pc \in [Requests -> PCs]
  BY DEF LeaseOK, Leased, TypeOK
<1>1. PICK i \in LeastLoaded(Candidates(excluded[r])) :
        /\ inflight' = [inflight EXCEPT ![lease[r]] = Decrement(@), ![State(i)] = @ + 1]
        /\ failures' = [failures EXCEPT ![lease[r]] = @ + 1]
        /\ lease' = [lease EXCEPT ![r] = State(i)]
        /\ excluded' = [excluded EXCEPT ![r] = @ \cup {i}]
  BY DEF Reroute
<1>2. i \in ReplicaIds \ excluded[r] /\ State(i) \in States /\ State(i)[1] = i
  BY <1>0 DEF LeastLoaded, Candidates, State, States, TypeOK
<1>3. State(i) # lease[r]
  BY <1>0, <1>2
<1>4. "sending" \in PCs /\ "sending" \in Leased /\ "sending" \in Claiming
      /\ pc[r] \in Claiming
  BY DEF PCs, Leased, Claiming
<1>5. pc' \in [Requests -> PCs]
      /\ \A x \in Requests : pc'[x] \in Leased <=> pc[x] \in Leased
  BY <1>0, <1>4
<1>6. /\ lease' \in [Requests -> States \cup {NoState}]
      /\ excluded' \in [Requests -> SUBSET ReplicaIds]
  BY <1>0, <1>1, <1>2 DEF TypeOK
<1>7. inflight \in [States -> Nat] /\ failures \in [States -> Nat]
      /\ lease \in [Requests -> States \cup {NoState}]
      /\ excluded \in [Requests -> SUBSET ReplicaIds] /\ permits \in Nat
  BY <1>0 DEF TypeOK
<1>8. failures' \in [States -> Nat] /\ inflight' \in [States -> Nat]
  BY <1>0, <1>1, <1>2, <1>7 DEF Decrement
<1>9. LeaseOK'
  <2>1. lease'[r] = State(i) /\ i \in excluded'[r]
        /\ \A x \in Requests : x # r => lease'[x] = lease[x] /\ excluded'[x] = excluded[x]
    BY <1>1, <1>7
  <2>. QED  BY <1>2, <1>5, <2>1 DEF LeaseOK
<1>10. SlotsConserved'
  <2>1. Cardinality(Claims(pc')) = Cardinality(Claims(pc))
    BY <1>0, <1>4, ClaimsChange
  <2>. QED  BY <2>1 DEF SlotsConserved, Claims, HasSemaphore
<1>11. InflightExact'
  <2> DEFINE old(s) == Holders(pc, lease, s)
             new(s) == Holders(pc', lease', s)
  <2>1. \A s \in States : inflight[s] = Cardinality(old(s))
    BY InflightHolders
  <2>2. new(lease[r]) = old(lease[r]) \ {r} /\ r \in old(lease[r])
    BY <1>0, <1>1, <1>3, <1>5, <1>7 DEF Holders
  <2>3. new(State(i)) = old(State(i)) \cup {r} /\ r \notin old(State(i))
    BY <1>0, <1>1, <1>3, <1>5, <1>7 DEF Holders
  <2>4. \A s \in States : s # lease[r] /\ s # State(i) => new(s) = old(s)
    BY <1>0, <1>1, <1>5, <1>7 DEF Holders
  <2>5. \A s \in States : IsFiniteSet(old(s)) /\ Cardinality(old(s)) \in Nat
                          /\ Cardinality(new(s)) \in Nat
    BY <1>0, <1>5, HoldersFacts
  <2>. HIDE DEF old, new
  <2>6. Cardinality(new(lease[r])) = Cardinality(old(lease[r])) - 1
    BY <1>0, <2>2, <2>5, FS_RemoveElement
  <2>7. Cardinality(new(State(i))) = Cardinality(old(State(i))) + 1
    BY <1>2, <2>3, <2>5, FS_AddElement
  <2>8. Decrement(inflight[lease[r]]) = Cardinality(new(lease[r]))
    BY <1>0, <2>1, <2>5, <2>6 DEF Decrement
  <2>9. \A s \in States : inflight'[s] = Cardinality(new(s))
    <3>1. inflight'[lease[r]] = Decrement(inflight[lease[r]])
          /\ inflight'[State(i)] = inflight[State(i)] + 1
          /\ \A s \in States : s # lease[r] /\ s # State(i) => inflight'[s] = inflight[s]
      BY <1>0, <1>1, <1>2, <1>3, <1>7
    <3>. QED  BY <1>0, <1>2, <2>1, <2>4, <2>7, <2>8, <3>1
  <2>. QED  BY <2>9 DEF new, InflightExact, LeaseHolders, Holders
<1>. QED  BY <1>5, <1>6, <1>7, <1>8, <1>9, <1>10, <1>11 DEF Kept

\* A request that moves to a place with the same claims disturbs nothing.
LEMMA MoveKeeps ==
    ASSUME IInv, NEW r \in Requests, NEW v \in PCs,
           v \in Claiming <=> pc[r] \in Claiming, v \in Leased <=> pc[r] \in Leased,
           pc' = [pc EXCEPT ![r] = v],
           UNCHANGED <<permits, lease, excluded, inflight>>
    PROVE  Kept
<1>. USE DEF IInv
<1>1. TypeOK /\ pc \in [Requests -> PCs]
  BY DEF TypeOK
<1>2. pc' \in [Requests -> PCs]
      /\ \A x \in Requests : pc'[x] \in Leased <=> pc[x] \in Leased
  BY <1>1
<1>3. LeaseOK'
  BY <1>2 DEF LeaseOK
<1>4. SlotsConserved'
  <2>1. Cardinality(Claims(pc')) = Cardinality(Claims(pc))
    BY <1>1, ClaimsChange
  <2>. QED  BY <2>1 DEF SlotsConserved, Claims, HasSemaphore
<1>5. InflightExact'
  <2>1. \A s \in States : Holders(pc', lease', s) = Holders(pc, lease, s)
    BY <1>2 DEF Holders
  <2>2. \A s \in States : inflight'[s] = Cardinality(Holders(pc', lease', s))
    BY <2>1, InflightHolders
  <2>. QED  BY <2>2 DEF InflightExact, LeaseHolders, Holders
<1>. QED  BY <1>1, <1>2, <1>3, <1>4, <1>5 DEF Kept, TypeOK

\* Leaving the queue keeps the types of its line and its counter.
LEMMA StopWaitingType ==
    ASSUME TypeOK, NEW r \in Requests, StopWaiting(r)
    PROVE  waiters' \in Seq(Requests) /\ waiting' \in Int
<1>1. PICK i \in DOMAIN waiters : waiters' = RemoveAt(waiters, i)
  BY DEF StopWaiting
<1>2. waiters \in Seq(Requests) /\ waiting \in Int
  BY DEF TypeOK
<1>3. i \in 1..Len(waiters)
  BY <1>2
<1>4. SubSeq(waiters, 1, i - 1) \in Seq(Requests)
  BY <1>2, <1>3
<1>5. SubSeq(waiters, i + 1, Len(waiters)) \in Seq(Requests)
  BY <1>2, <1>3
<1>6. waiters' = SubSeq(waiters, 1, i - 1) \o SubSeq(waiters, i + 1, Len(waiters))
  BY <1>1 DEF RemoveAt
<1>7. waiters' \in Seq(Requests)
  BY <1>4, <1>5, <1>6
<1>. QED  BY <1>2, <1>7 DEF StopWaiting

\* The part of TypeOK that Kept does not cover.
OtherTypes ==
    /\ waiters \in Seq(Requests) /\ waiting \in Int
    /\ attempts \in [Requests -> 0..1]
    /\ outcome \in [Requests -> Outcomes]
    /\ failedOn \in [Requests -> SUBSET (States \cup {NoState})]
    /\ rotation \subseteq ReplicaIds
    /\ generation \in [ReplicaIds -> 0..MaxGeneration]
    /\ failures \in [States -> Nat]
    /\ totals \in Counters

\* The parts of the invariant, put together.
LEMMA KeptSuffices == Kept /\ OtherTypes' => IInv'
BY DEF Kept, OtherTypes, IInv, TypeOK, Counters

\* A failed attempt: the request is rerouted, or goes to its cleanup.
LEMMA RetryOrGiveUpKeeps ==
    ASSUME IInv, NEW r \in Requests, pc[r] \in {"sending", "closing"}, RetryOrGiveUp(r),
           failedOn' \in [Requests -> SUBSET (States \cup {NoState})]
    PROVE  IInv'
<1>1. TypeOK /\ pc[r] \in Leased
  BY DEF IInv, Leased
<1>2. CASE /\ MayRetry(r)
           /\ Reroute(r)
           /\ attempts' = [attempts EXCEPT ![r] = @ + 1]
           /\ pc' = [pc EXCEPT ![r] = "sending"]
           /\ UNCHANGED <<semVars, outcome, rotation, generation, totals>>
  <2>1. Kept /\ failures' \in [States -> Nat]
    BY <1>2, RerouteKeeps DEF semVars
  <2>2. attempts' \in [Requests -> 0..1]
    BY <1>1, <1>2 DEF TypeOK, MayRetry
  <2>3. OtherTypes'
    BY <1>1, <1>2, <2>1, <2>2 DEF OtherTypes, TypeOK, semVars, Counters
  <2>. QED  BY <2>1, <2>3, KeptSuffices
<1>3. CASE /\ ~MayRetry(r)
           /\ Release(r, TRUE)
           /\ outcome' = [outcome EXCEPT ![r] = "bad_gateway"]
  <2>1. Kept /\ failures' \in [States -> Nat] /\ totals' \in Counters
    BY <1>1, <1>3, ReleaseKeeps
  <2>2. outcome' \in [Requests -> Outcomes]
    BY <1>1, <1>3 DEF TypeOK, Outcomes
  <2>3. UNCHANGED <<waiters, waiting, attempts, rotation, generation>>
    BY <1>3 DEF Release
  <2>4. OtherTypes'
    BY <1>1, <2>1, <2>2, <2>3 DEF OtherTypes, TypeOK
  <2>. QED  BY <2>1, <2>4, KeptSuffices
<1>. QED  BY <1>2, <1>3 DEF RetryOrGiveUp

\* The router as it is constructed satisfies the invariant.
LEMMA InitEstablishes == Init => IInv
<1> SUFFICES ASSUME Init PROVE IInv
  OBVIOUS
<1>1. TypeOK
  <2>1. pc \in [Requests -> PCs] /\ outcome \in [Requests -> Outcomes]
    BY DEF Init, PCs, Outcomes
  <2>2. waiters \in Seq(Requests) /\ permits \in Nat /\ waiting \in Int
    BY RouterAssumption DEF Init
  <2>3. /\ generation \in [ReplicaIds -> 0..MaxGeneration]
        /\ totals \in [requests : Nat, errors : Nat, rejected : Nat]
    BY RouterAssumption DEF Init
  <2>. QED  BY <2>1, <2>2, <2>3 DEF Init, TypeOK
<1>2. \A r \in Requests : pc[r] \notin Leased /\ pc[r] \notin Claiming
  BY DEF Init, Leased, Claiming
<1>3. LeaseOK
  BY <1>2 DEF LeaseOK
<1>4. {r \in Requests : pc[r] \in Claiming} = {}
  BY <1>2
<1>5. SlotsConserved
  <2>1. permits = MaxConcurrency
    BY DEF Init
  <2>. QED  BY <1>4, <2>1, FS_EmptySet, RouterAssumption DEF SlotsConserved
<1>6. InflightExact
  <2>1. \A s \in States : {r \in LeaseHolders : lease[r] = s} = {}
    BY <1>2 DEF LeaseHolders
  <2>2. \A s \in States : inflight[s] = 0
    BY DEF Init
  <2>. QED  BY <2>1, <2>2, FS_EmptySet DEF InflightExact
<1>. QED  BY <1>1, <1>3, <1>5, <1>6 DEF IInv

\* The steps of acquire() keep the invariant.
LEMMA AcquireKeeps ==
    ASSUME IInv, NEW r \in Requests, Acquire(r)
    PROVE  IInv'
<1>0. TypeOK /\ OtherTypes /\ Sem(pc, permits) \in SemType /\ OnlyWakes(pc, pc)
  BY DEF IInv, OtherTypes, TypeOK, Sem, SemType, OnlyWakes, Counters
<1>00. HasSemaphore => Total(Sem(pc, permits)) = MaxConcurrency
  BY DEF IInv, Total, Sem, SlotsConserved, Claims
<1>1. CASE Refuse(r)
  <2>1. Kept
    <3>1. "done" \in PCs /\ "done" \notin Claiming /\ "done" \notin Leased
          /\ pc[r] \notin Claiming /\ pc[r] \notin Leased
      BY <1>1 DEF PCs, Claiming, Leased, Refuse
    <3>. QED  BY <1>1, <3>1, MoveKeeps DEF Refuse, semVars, replicaVars
  <2>2. outcome' \in [Requests -> Outcomes] /\ totals' \in Counters
    BY <1>0, <1>1, CountersLemma DEF Refuse, OtherTypes, Outcomes
  <2>3. OtherTypes'
    BY <1>0, <1>1, <2>2 DEF Refuse, OtherTypes, semVars, replicaVars
  <2>. QED  BY <2>1, <2>3, KeptSuffices
<1>2. CASE Join(r)
  <2>1. Kept
    <3>1. "queued" \in PCs /\ "queued" \notin Claiming /\ "queued" \notin Leased
          /\ pc[r] \notin Claiming /\ pc[r] \notin Leased
      BY <1>2 DEF PCs, Claiming, Leased, Join
    <3>. QED  BY <1>2, <3>1, MoveKeeps DEF Join, replicaVars
  <2>2. waiters' \in Seq(Requests) /\ waiting' \in Int
    BY <1>0, <1>2 DEF Join, OtherTypes
  <2>3. OtherTypes'
    BY <1>0, <1>2, <2>2 DEF Join, OtherTypes, replicaVars
  <2>. QED  BY <2>1, <2>3, KeptSuffices
<1>3. CASE Enter(r)
  <2>1. PICK sem \in SemType :
          /\ sem.pc = pc
          /\ HasSemaphore => Total(sem) = MaxConcurrency - 1
          /\ LeaseReplica(r, sem)
    <3>1. CASE HasSemaphore
      <4>1. permits \in Nat /\ permits # 0
        BY <1>0, <1>3, <3>1 DEF Enter, Locked, TypeOK
      <4>2. Sem(pc, permits - 1) \in SemType /\ Sem(pc, permits - 1).pc = pc
        BY <1>0, <4>1 DEF Sem, SemType
      <4>3. Cardinality(Claims(pc)) \in Nat
        BY <1>0, FS_Subset, FS_CardinalityType, RouterAssumption DEF Claims
      <4>4. Total(Sem(pc, permits - 1)) = MaxConcurrency - 1
        BY <1>00, <3>1, <4>1, <4>3, RouterAssumption DEF Total, Sem
      <4>5. LeaseReplica(r, Sem(pc, permits - 1))
        BY <1>3, <3>1 DEF Enter
      <4>. QED  BY <4>2, <4>4, <4>5
    <3>2. CASE ~HasSemaphore
      <4>1. LeaseReplica(r, Sem(pc, permits)) /\ Sem(pc, permits).pc = pc
        BY <1>3, <3>2 DEF Enter, Sem
      <4>. QED  BY <1>0, <3>2, <4>1
    <3>. QED  BY <3>1, <3>2
  <2>2. Kept /\ outcome' \in [Requests -> Outcomes] /\ totals' \in Counters
    BY <1>0, <1>3, <2>1, LeaseReplicaKeeps DEF Enter, Counters
  <2>3. OtherTypes'
    BY <1>0, <1>3, <2>2 DEF Enter, OtherTypes
  <2>. QED  BY <2>2, <2>3, KeptSuffices
<1>4. CASE Resume(r)
  <2> DEFINE sem == WakeIfSpare(Sem(pc, permits))
  <2>1. sem \in SemType /\ OnlyWakes(pc, sem.pc)
        /\ (HasSemaphore => Total(sem) = MaxConcurrency)
    <3>1. Sem(pc, permits).pc = pc
      BY DEF Sem
    <3>. QED  BY <1>0, <1>00, <3>1, WakeIfSpareLemma
  <2>2. LeaseReplica(r, sem) /\ pc[r] = "woken"
    BY <1>4 DEF Resume
  <2>. HIDE DEF sem
  <2>3. Kept /\ outcome' \in [Requests -> Outcomes] /\ totals' \in Counters
    <3>1. HasSemaphore => Total(sem) = MaxConcurrency - (IF pc[r] = "idle" THEN 1 ELSE 0)
      BY <2>1, <2>2, RouterAssumption
    <3>. QED  BY <2>1, <2>2, <3>1, LeaseReplicaKeeps DEF Counters
  <2>4. waiters' \in Seq(Requests) /\ waiting' \in Int
    BY <1>0, <1>4, StopWaitingType DEF Resume
  <2>5. OtherTypes'
    BY <1>0, <1>4, <2>3, <2>4 DEF Resume, OtherTypes
  <2>. QED  BY <2>3, <2>5, KeptSuffices
<1>. QED  BY <1>1, <1>2, <1>3, <1>4 DEF Acquire

\* A cancellation at any await keeps the invariant.
LEMMA CancelKeeps ==
    ASSUME IInv, NEW r \in Requests, Cancel(r)
    PROVE  IInv'
<1>0. TypeOK /\ OtherTypes
  BY DEF IInv, OtherTypes, TypeOK, Counters
<1>1. CASE Abandon(r)
  <2>1. Kept
    <3>1. "abandoned" \in PCs /\ "abandoned" \notin Claiming /\ "abandoned" \notin Leased
          /\ pc[r] \notin Claiming /\ pc[r] \notin Leased
      BY <1>1 DEF PCs, Claiming, Leased, Abandon
    <3>. QED  BY <1>1, <3>1, MoveKeeps DEF Abandon, semVars, replicaVars
  <2>2. OtherTypes'
    BY <1>0, <1>1 DEF Abandon, OtherTypes, semVars, replicaVars
  <2>. QED  BY <2>1, <2>2, KeptSuffices
<1>2. CASE LeaveLine(r)
  <2>1. Kept
    <3>1. "done" \in PCs /\ "done" \notin Claiming /\ "done" \notin Leased
          /\ pc[r] \notin Claiming /\ pc[r] \notin Leased
      BY <1>2 DEF PCs, Claiming, Leased, LeaveLine
    <3>. QED  BY <1>2, <3>1, MoveKeeps DEF LeaveLine, replicaVars
  <2>2. waiters' \in Seq(Requests) /\ waiting' \in Int
    BY <1>0, <1>2, StopWaitingType DEF LeaveLine
  <2>3. outcome' \in [Requests -> Outcomes]
    BY <1>0, <1>2 DEF LeaveLine, OtherTypes, Outcomes
  <2>4. OtherTypes'
    BY <1>0, <1>2, <2>2, <2>3 DEF LeaveLine, OtherTypes, replicaVars
  <2>. QED  BY <2>1, <2>4, KeptSuffices
<1>3. CASE CancelWoken(r)
  <2> DEFINE sem == Sem(pc, permits)
  <2>1. /\ sem \in SemType /\ OnlyWakes(pc, sem.pc)
        /\ Total(sem) = permits + Cardinality(Claims(pc))
    BY <1>0 DEF TypeOK, Sem, SemType, OnlyWakes, Total
  <2>2. [sem EXCEPT !.pc[r] = "done"] = Sem([pc EXCEPT ![r] = "done"], permits)
    BY DEF Sem
  <2>3. SetSem(ReleaseSem([sem EXCEPT !.pc[r] = "done"])) /\ pc[r] = "woken"
    BY <1>3, <2>2 DEF CancelWoken
  <2>. HIDE DEF sem
  <2>4. HasSemaphore => Total(sem) = MaxConcurrency - (IF pc[r] = "idle" THEN 1 ELSE 0)
    BY <2>1, <2>3, RouterAssumption DEF IInv, SlotsConserved, Claims
  <2>5. Kept
    BY <1>3, <2>1, <2>3, <2>4, GiveBackKeeps DEF CancelWoken, replicaVars
  <2>6. waiters' \in Seq(Requests) /\ waiting' \in Int
    BY <1>0, <1>3, StopWaitingType DEF CancelWoken
  <2>7. outcome' \in [Requests -> Outcomes]
    BY <1>0, <1>3 DEF CancelWoken, OtherTypes, Outcomes
  <2>8. OtherTypes'
    BY <1>0, <1>3, <2>6, <2>7 DEF CancelWoken, OtherTypes, replicaVars
  <2>. QED  BY <2>5, <2>8, KeptSuffices
<1>4. CASE CancelSend(r)
  <2>1. Kept /\ failures' \in [States -> Nat] /\ totals' \in Counters
    BY <1>4, ReleaseKeeps DEF CancelSend, Leased
  <2>2. outcome' \in [Requests -> Outcomes]
    BY <1>0, <1>4 DEF CancelSend, OtherTypes, Outcomes
  <2>3. OtherTypes'
    BY <1>0, <1>4, <2>1, <2>2 DEF CancelSend, Release, OtherTypes
  <2>. QED  BY <2>1, <2>3, KeptSuffices
<1>. QED  BY <1>1, <1>2, <1>3, <1>4 DEF Cancel

\* The steps of the proxy keep the invariant.
LEMMA ProxyKeeps ==
    ASSUME IInv, NEW r \in Requests, Proxy(r)
    PROVE  IInv'
<1>0. TypeOK /\ OtherTypes
  BY DEF IInv, OtherTypes, TypeOK, Counters
<1>1. CASE Respond(r)
  <2>1. Kept
    <3>1. "streaming" \in PCs /\ "streaming" \in Claiming /\ "streaming" \in Leased
          /\ pc[r] \in Claiming /\ pc[r] \in Leased
      BY <1>1 DEF PCs, Claiming, Leased, Respond
    <3>. QED  BY <1>1, <3>1, MoveKeeps DEF Respond, semVars, replicaVars
  <2>2. OtherTypes'
    BY <1>0, <1>1 DEF Respond, OtherTypes, semVars, replicaVars
  <2>. QED  BY <2>1, <2>2, KeptSuffices
<1>2. ASSUME pc[r] \in Leased, Charge(r)
      PROVE  failedOn' \in [Requests -> SUBSET (States \cup {NoState})]
  BY <1>0, <1>2 DEF Charge, TypeOK
<1>3. CASE SendFails(r)
  <2>1. failedOn' \in [Requests -> SUBSET (States \cup {NoState})]
    BY <1>2, <1>3 DEF SendFails, Leased
  <2>. QED  BY <1>3, <2>1, RetryOrGiveUpKeeps DEF SendFails
<1>4. CASE Respond5xx(r)
  <2>1. Kept
    <3>1. "closing" \in PCs /\ "closing" \in Claiming /\ "closing" \in Leased
          /\ pc[r] \in Claiming /\ pc[r] \in Leased
      BY <1>4 DEF PCs, Claiming, Leased, Respond5xx
    <3>. QED  BY <1>4, <3>1, MoveKeeps DEF Respond5xx, semVars, replicaVars
  <2>2. failedOn' \in [Requests -> SUBSET (States \cup {NoState})]
    BY <1>2, <1>4 DEF Respond5xx, Leased
  <2>3. OtherTypes'
    BY <1>0, <1>4, <2>2 DEF Respond5xx, OtherTypes, semVars, replicaVars
  <2>. QED  BY <2>1, <2>3, KeptSuffices
<1>5. CASE Close5xx(r)
  BY <1>0, <1>5, RetryOrGiveUpKeeps DEF Close5xx, TypeOK
<1>6. ASSUME NEW how \in Outcomes, BeginCleanup(r, how),
             failedOn' \in [Requests -> SUBSET (States \cup {NoState})]
      PROVE  IInv'
  <2>1. Kept
    <3>1. "cleanup" \in PCs /\ "cleanup" \in Claiming /\ "cleanup" \in Leased
          /\ pc[r] \in Claiming /\ pc[r] \in Leased
      BY <1>6 DEF PCs, Claiming, Leased, BeginCleanup
    <3>. QED  BY <1>6, <3>1, MoveKeeps DEF BeginCleanup, semVars, replicaVars
  <2>2. OtherTypes'
    BY <1>0, <1>6 DEF BeginCleanup, OtherTypes, semVars, replicaVars
  <2>. QED  BY <2>1, <2>2, KeptSuffices
<1>7. CASE StreamEnds(r)
  BY <1>0, <1>6, <1>7 DEF StreamEnds, Outcomes, TypeOK
<1>8. CASE ClientLeaves(r)
  BY <1>0, <1>6, <1>8 DEF ClientLeaves, Outcomes, TypeOK
<1>9. CASE BackendDrops(r)
  <2>1. failedOn' \in [Requests -> SUBSET (States \cup {NoState})]
    BY <1>2, <1>9 DEF BackendDrops, BeginCleanup, Leased
  <2>. QED  BY <1>6, <1>9, <2>1 DEF BackendDrops, Outcomes
<1>10. CASE FinishCleanup(r)
  <2> DEFINE failed == outcome[r] = "dropped"
  <2>1. failed \in BOOLEAN /\ Release(r, failed) /\ pc[r] \in Leased
    BY <1>10 DEF FinishCleanup, Leased
  <2>. HIDE DEF failed
  <2>2. Kept /\ failures' \in [States -> Nat] /\ totals' \in Counters
    BY <2>1, ReleaseKeeps
  <2>3. UNCHANGED <<waiters, waiting, attempts, rotation, generation>>
    BY <2>1 DEF Release
  <2>4. OtherTypes'
    BY <1>0, <1>10, <2>2, <2>3 DEF FinishCleanup, OtherTypes
  <2>. QED  BY <2>2, <2>4, KeptSuffices
<1>. QED
  BY <1>1, <1>3, <1>4, <1>5, <1>7, <1>8, <1>9, <1>10 DEF Proxy

\* Steps that touch no request, no lease and no slot.
LEMMA UntouchedKeeps ==
    ASSUME IInv, UNCHANGED <<semVars, requestVars, inflight, failures, totals>>,
           rotation' \subseteq ReplicaIds, generation' \in [ReplicaIds -> 0..MaxGeneration]
    PROVE  IInv'
<1>. USE DEF semVars, requestVars
<1>1. TypeOK'
  BY DEF IInv, TypeOK
<1>2. LeaseOK'
  BY DEF IInv, LeaseOK
<1>3. SlotsConserved'
  BY DEF IInv, SlotsConserved, HasSemaphore
<1>4. InflightExact'
  BY DEF IInv, InflightExact, LeaseHolders
<1>. QED  BY <1>1, <1>2, <1>3, <1>4 DEF IInv

\* Status changes and replaced ReplicaState objects keep the invariant.
LEMMA RegistryKeeps ==
    ASSUME IInv, NEW i \in ReplicaIds, Registry(i)
    PROVE  IInv'
<1>0. rotation \subseteq ReplicaIds /\ generation \in [ReplicaIds -> 0..MaxGeneration]
  BY DEF IInv, TypeOK
<1>1. CASE LeaveRotation(i)
  BY <1>0, <1>1, UntouchedKeeps DEF LeaveRotation
<1>2. CASE EnterRotation(i)
  BY <1>0, <1>2, UntouchedKeeps DEF EnterRotation
<1>3. CASE ReplaceState(i)
  <2>1. generation' \in [ReplicaIds -> 0..MaxGeneration] /\ rotation' \subseteq ReplicaIds
    BY <1>0, <1>3, RouterAssumption DEF ReplaceState
  <2>. QED  BY <1>3, <2>1, UntouchedKeeps DEF ReplaceState
<1>. QED  BY <1>1, <1>2, <1>3 DEF Registry

\* The invariant is inductive.
LEMMA NextKeeps == IInv /\ [Next]_vars => IInv'
<1> SUFFICES ASSUME IInv, [Next]_vars PROVE IInv'
  OBVIOUS
<1>1. CASE \E r \in Requests : Acquire(r) \/ Cancel(r) \/ Proxy(r)
  BY <1>1, AcquireKeeps, CancelKeeps, ProxyKeeps
<1>2. CASE \E i \in ReplicaIds : Registry(i)
  BY <1>2, RegistryKeeps
<1>3. CASE UNCHANGED vars
  <2>1. UNCHANGED <<semVars, requestVars, inflight, failures, totals>>
        /\ UNCHANGED <<rotation, generation>>
    BY <1>3 DEF vars, replicaVars
  <2>. QED  BY <2>1, UntouchedKeeps DEF IInv, TypeOK
<1>. QED  BY <1>1, <1>2, <1>3 DEF Next

\* In every reachable state the variables have their types, slots are
\* conserved and the in-flight books are exact.
THEOREM Invariance == Spec => []IInv
<1>. QED  BY InitEstablishes, NextKeeps, PTL DEF Spec

\* Every variable of the router always has its type.
THEOREM TypeCorrect == Spec => []TypeOK
<1>1. IInv => TypeOK
  BY DEF IInv
<1>. QED  BY <1>1, Invariance, PTL

\* No interleaving of arrivals, retries, cancellations, stream failures and
\* replica restarts leaks a concurrency slot or hands out one too many.
THEOREM SlotsAlwaysConserved == Spec => []SlotsConserved
<1>1. IInv => SlotsConserved
  BY DEF IInv
<1>. QED  BY <1>1, Invariance, PTL

\* inflight_requests of each ReplicaState object is the number of leases on it.
THEOREM InflightAlwaysExact == Spec => []InflightExact
<1>1. IInv => InflightExact
  BY DEF IInv
<1>. QED  BY <1>1, Invariance, PTL

-----------------------------------------------------------------------------
(* The line: who waits, and who is woken first                              *)

\* Nobody is woken while someone who came earlier still waits.
InOrder(p, w) ==
    \A i, j \in DOMAIN w : i < j /\ p[w[j]] = "woken" => p[w[i]] # "queued"

\* Without a semaphore nobody waits.
LineInv == QueueExact /\ InOrder(pc, waiters) /\ (HasSemaphore \/ waiters = <<>>)

\* What a step of request r does to the places of all the others.
OthersWake(r) ==
    \A x \in Requests \ {r} :
        \/ pc'[x] = pc[x]
        \/ pc[x] = "queued" /\ pc'[x] = "woken"

\* A step of r that leaves the line alone, one that takes r out of it, and
\* one that puts r at its end.
StaysPut(r) ==
    /\ UNCHANGED <<waiters, waiting>>
    /\ \/ pc[r] \notin InLine /\ pc'[r] \notin InLine
       \/ pc[r] \in InLine /\ pc'[r] \in InLine

Leaves(r) == StopWaiting(r) /\ pc'[r] \notin InLine

Arrives(r) ==
    /\ HasSemaphore /\ pc[r] \notin InLine /\ pc'[r] = "queued" /\ ~QueueFull
    /\ waiters' = Append(waiters, r) /\ waiting' = waiting + 1

\* What RemoveAt leaves of a sequence, place by place.
LEMMA RemovedFacts ==
    ASSUME NEW S, NEW w \in Seq(S), NEW i \in 1..Len(w)
    PROVE  /\ RemoveAt(w, i) \in Seq(S)
           /\ Len(RemoveAt(w, i)) = Len(w) - 1
           /\ \A k \in 1..(Len(w) - 1) :
                 RemoveAt(w, i)[k] = IF k < i THEN w[k] ELSE w[k + 1]
<1> DEFINE a == SubSeq(w, 1, i - 1)
           b == SubSeq(w, i + 1, Len(w))
<1>1. Len(w) \in Nat /\ i \in 1..Len(w)
  BY LenProperties
<1>2. /\ a \in Seq(S) /\ Len(a) = i - 1
      /\ \A k \in 1..(i - 1) : a[k] = w[k]
  <2>1. 1 \in Int /\ i - 1 \in Int /\ \A k \in 1..(i - 1) : w[k] \in S
    BY <1>1, ElementOfSeq
  <2>2. /\ a \in Seq(S) /\ Len(a) = (IF 1 <= i - 1 THEN (i - 1) - 1 + 1 ELSE 0)
        /\ \A k \in 1..((i - 1) - 1 + 1) : a[k] = w[1 + k - 1]
    BY <2>1, SubSeqProperties
  <2>. HIDE DEF a
  <2>. QED  BY <1>1, <2>2
<1>3. /\ b \in Seq(S) /\ Len(b) = Len(w) - i
      /\ \A k \in 1..(Len(w) - i) : b[k] = w[i + k]
  <2>1. i + 1 \in Int /\ Len(w) \in Int /\ \A k \in (i + 1)..Len(w) : w[k] \in S
    BY <1>1, ElementOfSeq
  <2>2. /\ b \in Seq(S) /\ Len(b) = (IF i + 1 <= Len(w) THEN Len(w) - (i + 1) + 1 ELSE 0)
        /\ \A k \in 1..(Len(w) - (i + 1) + 1) : b[k] = w[i + 1 + k - 1]
    BY <2>1, SubSeqProperties
  <2>. HIDE DEF b
  <2>. QED  BY <1>1, <2>2
<1>4. RemoveAt(w, i) = a \o b
  BY DEF RemoveAt
<1>. HIDE DEF a, b
<1>5. /\ a \o b \in Seq(S) /\ Len(a \o b) = Len(a) + Len(b)
      /\ \A k \in 1..(Len(a) + Len(b)) :
            (a \o b)[k] = IF k <= Len(a) THEN a[k] ELSE b[k - Len(a)]
  BY <1>2, <1>3, ConcatProperties
<1>6. ASSUME NEW k \in 1..(Len(w) - 1)
      PROVE  (a \o b)[k] = IF k < i THEN w[k] ELSE w[k + 1]
  <2>1. k \in 1..(Len(a) + Len(b)) /\ Len(a) = i - 1
    BY <1>1, <1>2, <1>3
  <2>2. CASE k < i
    <3>1. k <= Len(a) /\ k \in 1..(i - 1)
      BY <1>1, <2>1, <2>2
    <3>. QED  BY <1>2, <1>5, <2>1, <2>2, <3>1
  <2>3. CASE ~(k < i)
    <3>1. ~(k <= Len(a)) /\ k - Len(a) \in 1..(Len(w) - i) /\ i + (k - Len(a)) = k + 1
      BY <1>1, <2>1, <2>3
    <3>. QED  BY <1>3, <1>5, <2>1, <2>3, <3>1
  <2>. QED  BY <2>2, <2>3
<1>. QED  BY <1>1, <1>2, <1>3, <1>4, <1>5, <1>6

\* The line without the one at place i: still without repetition and in order.
LEMMA LineWithout ==
    ASSUME NEW w \in Seq(Requests), IsInjective(w), NEW i \in 1..Len(w), NEW p, InOrder(p, w)
    PROVE  LET v == RemoveAt(w, i)
           IN  /\ v \in Seq(Requests) /\ Len(v) = Len(w) - 1
               /\ IsInjective(v) /\ InOrder(p, v)
               /\ {v[k] : k \in DOMAIN v} = {w[k] : k \in DOMAIN w} \ {w[i]}
<1> DEFINE v == RemoveAt(w, i)
           at(k) == IF k < i THEN k ELSE k + 1
<1>1. /\ v \in Seq(Requests) /\ Len(v) = Len(w) - 1
      /\ \A k \in 1..(Len(w) - 1) : v[k] = IF k < i THEN w[k] ELSE w[k + 1]
  BY RemovedFacts
<1>2. Len(w) \in Nat /\ DOMAIN w = 1..Len(w) /\ DOMAIN v = 1..(Len(w) - 1)
  BY <1>1, LenProperties
<1>. HIDE DEF v
<1>3. \A k \in DOMAIN v : at(k) \in DOMAIN w /\ at(k) # i /\ v[k] = w[at(k)]
  BY <1>1, <1>2
<1>4. \A j, k \in DOMAIN v : (j < k <=> at(j) < at(k)) /\ (at(j) = at(k) => j = k)
  BY <1>2
<1>5. \A m \in DOMAIN w : m # i => \E k \in DOMAIN v : at(k) = m
  <2> SUFFICES ASSUME NEW m \in DOMAIN w, m # i PROVE \E k \in DOMAIN v : at(k) = m
    OBVIOUS
  <2>1. CASE m < i
    BY <1>2, <2>1
  <2>2. CASE m > i
    <3>1. m - 1 \in DOMAIN v /\ at(m - 1) = m
      BY <1>2, <2>2
    <3>. QED  BY <3>1
  <2>. QED  BY <1>2, <2>1, <2>2
<1>. HIDE DEF at
<1>6. IsInjective(v)
  BY <1>3, <1>4 DEF IsInjective
<1>7. InOrder(p, v)
  BY <1>3, <1>4 DEF InOrder
<1>8. \A m \in DOMAIN w : m # i => w[m] # w[i]
  BY <1>2 DEF IsInjective
<1>9. {v[k] : k \in DOMAIN v} = {w[k] : k \in DOMAIN w} \ {w[i]}
  BY <1>3, <1>5, <1>8
<1>. QED  BY <1>1, <1>6, <1>7, <1>9 DEF v

\* Waking the head of the line keeps the order in which waiters are woken.
LEMMA WakeNextOrder ==
    ASSUME TypeOK, IsInjective(waiters), NEW sem \in SemType, InOrder(sem.pc, waiters)
    PROVE  InOrder(WakeNext(sem).pc, waiters)
<1>1. CASE HeadOfLine(sem) = {}
  BY <1>1 DEF WakeNext
<1>2. CASE HeadOfLine(sem) # {}
  <2> DEFINE h == CHOOSE i \in HeadOfLine(sem) : TRUE
             p == [sem.pc EXCEPT ![waiters[h]] = "woken"]
  <2>1. WakeNext(sem).pc = p
    BY <1>2 DEF WakeNext, Sem
  <2>2. h \in HeadOfLine(sem)
    BY <1>2
  <2>3. waiters \in Seq(Requests) /\ sem.pc \in [Requests -> PCs]
    BY DEF TypeOK, SemType
  <2>4. \A i \in DOMAIN waiters : waiters[i] \in Requests /\ i \in Int
    BY <2>3, LenProperties, ElementOfSeq
  <2>. HIDE DEF h
  <2>5. h \in DOMAIN waiters /\ \A j \in DOMAIN waiters : sem.pc[waiters[j]] = "queued" => h <= j
    BY <2>2 DEF HeadOfLine, Pending
  <2>6. ASSUME NEW i \in DOMAIN waiters, NEW j \in DOMAIN waiters, i < j,
               p[waiters[j]] = "woken", p[waiters[i]] = "queued"
        PROVE  FALSE
    <3>1. waiters[i] # waiters[h] /\ sem.pc[waiters[i]] = "queued"
      BY <2>3, <2>4, <2>5, <2>6
    <3>2. CASE waiters[j] = waiters[h]
      <4>1. j = h
        BY <2>5, <3>2 DEF IsInjective
      <4>. QED  BY <2>4, <2>5, <2>6, <3>1, <4>1
    <3>3. CASE waiters[j] # waiters[h]
      <4>1. sem.pc[waiters[j]] = "woken"
        BY <2>3, <2>4, <2>5, <2>6, <3>3
      <4>. QED  BY <2>6, <3>1, <4>1 DEF InOrder
    <3>. QED  BY <3>2, <3>3
  <2>. HIDE DEF p
  <2>. QED  BY <2>1, <2>6 DEF InOrder
<1>. QED  BY <1>1, <1>2

\* So does every use that release() and acquire() make of it.
LEMMA SemOrder ==
    ASSUME TypeOK, IsInjective(waiters), NEW sem \in SemType, InOrder(sem.pc, waiters)
    PROVE  InOrder(ReleaseSem(sem).pc, waiters) /\ InOrder(WakeIfSpare(sem).pc, waiters)
<1> DEFINE more == Sem(sem.pc, sem.permits + 1)
<1>1. more \in SemType /\ more.pc = sem.pc
  BY DEF SemType, Sem
<1>2. ReleaseSem(sem) = IF HasSemaphore THEN WakeNext(more) ELSE sem
  BY DEF ReleaseSem
<1>. HIDE DEF more
<1>3. InOrder(WakeNext(more).pc, waiters)
  BY <1>1, WakeNextOrder
<1>4. InOrder(WakeNext(sem).pc, waiters)
  BY WakeNextOrder
<1>. QED  BY <1>2, <1>3, <1>4 DEF WakeIfSpare

\* The line after a step of one request.
LEMMA LineKept ==
    ASSUME TypeOK, LineInv, pc' \in [Requests -> PCs], NEW r \in Requests,
           OthersWake(r), InOrder(pc', waiters),
           StaysPut(r) \/ Leaves(r) \/ Arrives(r)
    PROVE  LineInv'
<1>1. /\ waiters \in Seq(Requests) /\ waiting \in Int /\ pc \in [Requests -> PCs]
      /\ DOMAIN waiters = 1..Len(waiters) /\ Len(waiters) \in Nat
  BY LenProperties DEF TypeOK
<1>2. /\ waiting = Len(waiters) /\ waiting <= MaxQueueDepth
      /\ {waiters[i] : i \in DOMAIN waiters} = {x \in Requests : pc[x] \in InLine}
      /\ IsInjective(waiters)
      /\ HasSemaphore \/ waiters = <<>>
  BY DEF LineInv, QueueExact
<1>03. HasSemaphore' <=> HasSemaphore
  BY DEF HasSemaphore
<1>3. \A x \in Requests \ {r} : pc'[x] \in InLine <=> pc[x] \in InLine
  BY DEF OthersWake, InLine
<1>4. CASE StaysPut(r)
  <2>1. {x \in Requests : pc'[x] \in InLine} = {x \in Requests : pc[x] \in InLine}
    BY <1>3, <1>4 DEF StaysPut
  <2>. QED  BY <1>2, <1>03, <1>4, <2>1 DEF StaysPut, LineInv, QueueExact
<1>5. CASE Leaves(r)
  <2>1. PICK i \in DOMAIN waiters : waiters[i] = r /\ waiters' = RemoveAt(waiters, i)
    BY <1>5 DEF Leaves, StopWaiting
  <2>2. /\ Len(waiters') = Len(waiters) - 1 /\ IsInjective(waiters') /\ InOrder(pc', waiters')
        /\ {waiters'[k] : k \in DOMAIN waiters'} = {waiters[k] : k \in DOMAIN waiters} \ {r}
    BY <1>1, <1>2, <2>1, LineWithout
  <2>3. {x \in Requests : pc'[x] \in InLine} = {x \in Requests : pc[x] \in InLine} \ {r}
    BY <1>3, <1>5 DEF Leaves
  <2>4. waiting' = Len(waiters') /\ waiting' <= MaxQueueDepth
    BY <1>1, <1>2, <1>5, <2>2, RouterAssumption DEF Leaves, StopWaiting
  <2>5. HasSemaphore
    BY <1>1, <1>2, <2>1
  <2>. QED  BY <1>2, <1>03, <2>2, <2>3, <2>4, <2>5 DEF LineInv, QueueExact
<1>6. CASE Arrives(r)
  <2>1. /\ waiters' \in Seq(Requests) /\ Len(waiters') = Len(waiters) + 1
        /\ DOMAIN waiters' = 1..(Len(waiters) + 1)
        /\ \A k \in 1..Len(waiters) : waiters'[k] = waiters[k]
        /\ waiters'[Len(waiters) + 1] = r
    <3>1. /\ waiters' = Append(waiters, r)
          /\ Append(waiters, r) \in Seq(Requests)
          /\ Len(Append(waiters, r)) = Len(waiters) + 1
          /\ \A k \in 1..Len(waiters) : Append(waiters, r)[k] = waiters[k]
          /\ Append(waiters, r)[Len(waiters) + 1] = r
      BY <1>1, <1>6, AppendProperties DEF Arrives
    <3>. QED  BY <3>1, LenProperties
  <2>2. r \notin {waiters[i] : i \in DOMAIN waiters}
    BY <1>2, <1>6 DEF Arrives
  <2>3. \A k \in DOMAIN waiters' : k \in DOMAIN waiters \/ k = Len(waiters) + 1
    BY <1>1, <2>1
  <2>4. {x \in Requests : pc'[x] \in InLine} = {x \in Requests : pc[x] \in InLine} \cup {r}
    BY <1>3, <1>6 DEF Arrives, InLine
  <2>5. {waiters'[k] : k \in DOMAIN waiters'} = {waiters[k] : k \in DOMAIN waiters} \cup {r}
    <3>1. \A k \in DOMAIN waiters : k \in DOMAIN waiters' /\ waiters'[k] = waiters[k]
      BY <1>1, <2>1
    <3>2. Len(waiters) + 1 \in DOMAIN waiters'
      BY <1>1, <2>1
    <3>. QED  BY <2>1, <2>3, <3>1, <3>2
  <2>6. IsInjective(waiters')
    BY <1>1, <1>2, <2>1, <2>2, <2>3 DEF IsInjective
  <2>7. InOrder(pc', waiters')
    <3>1. pc'[r] # "woken"
      BY <1>6 DEF Arrives
    <3>2. \A i, j \in DOMAIN waiters' : i < j => i \in DOMAIN waiters
      BY <1>1, <2>1, <2>3
    <3>. QED  BY <1>1, <2>1, <2>3, <3>1, <3>2 DEF InOrder
  <2>8. waiting' = Len(waiters') /\ waiting' <= MaxQueueDepth
    BY <1>1, <1>2, <1>6, <2>1, RouterAssumption DEF Arrives, QueueFull
  <2>. QED  BY <1>2, <1>03, <1>6, <2>4, <2>5, <2>6, <2>7, <2>8
           DEF LineInv, QueueExact, Arrives
<1>. QED  BY <1>4, <1>5, <1>6

\* A slot given back: its owner is done, and the head of the line is woken.
LEMMA GiveBackMoves ==
    ASSUME TypeOK, IsInjective(waiters), NEW r \in Requests, pc[r] # "queued",
           NEW sem \in SemType, OnlyWakes(pc, sem.pc), InOrder(sem.pc, waiters),
           SetSem(ReleaseSem([sem EXCEPT !.pc[r] = "done"]))
    PROVE  OthersWake(r) /\ pc'[r] = "done" /\ InOrder(pc', waiters)
<1> DEFINE given == [sem EXCEPT !.pc[r] = "done"]
<1>1. /\ given \in SemType /\ given.pc = [sem.pc EXCEPT ![r] = "done"]
      /\ sem.pc \in [Requests -> PCs] /\ waiters \in Seq(Requests)
  BY DEF SemType, PCs, TypeOK
<1>2. \A i \in DOMAIN waiters : waiters[i] \in Requests
  BY <1>1, LenProperties, ElementOfSeq
<1>3. pc' = ReleaseSem(given).pc
  BY DEF SetSem
<1>. HIDE DEF given
<1>4. InOrder(given.pc, waiters)
  BY <1>1, <1>2 DEF InOrder
<1>5. InOrder(ReleaseSem(given).pc, waiters) /\ OnlyWakes(given.pc, ReleaseSem(given).pc)
  BY <1>1, <1>4, SemOrder, ReleaseSemLemma
<1>6. given.pc[r] = "done" /\ \A x \in Requests \ {r} : given.pc[x] = sem.pc[x]
  BY <1>1
<1>7. pc'[r] = "done"
  BY <1>3, <1>5, <1>6 DEF OnlyWakes
<1>8. OthersWake(r)
  BY <1>3, <1>5, <1>6 DEF OthersWake, OnlyWakes
<1>. QED  BY <1>3, <1>5, <1>7, <1>8

\* The end of acquire() moves its request, and wakes others only in order.
LEMMA LeaseReplicaMoves ==
    ASSUME TypeOK, IsInjective(waiters), NEW r \in Requests, pc[r] # "queued",
           NEW sem \in SemType, OnlyWakes(pc, sem.pc), InOrder(sem.pc, waiters),
           LeaseReplica(r, sem)
    PROVE  OthersWake(r) /\ pc'[r] \in {"sending", "done"} /\ InOrder(pc', waiters)
<1>1. CASE SetSem([sem EXCEPT !.pc[r] = "sending"])
  <2>1. /\ pc' = [sem.pc EXCEPT ![r] = "sending"]
        /\ sem.pc \in [Requests -> PCs] /\ waiters \in Seq(Requests)
    BY <1>1 DEF SetSem, SemType, TypeOK
  <2>2. \A i \in DOMAIN waiters : waiters[i] \in Requests
    BY <2>1, LenProperties, ElementOfSeq
  <2>3. InOrder(pc', waiters)
    BY <2>1, <2>2 DEF InOrder
  <2>4. pc'[r] = "sending" /\ \A x \in Requests \ {r} : pc'[x] = sem.pc[x]
    BY <2>1
  <2>. QED  BY <2>3, <2>4 DEF OthersWake, OnlyWakes
<1>2. CASE SetSem(ReleaseSem([sem EXCEPT !.pc[r] = "done"]))
  BY <1>2, GiveBackMoves
<1>. QED  BY <1>1, <1>2 DEF LeaseReplica

\* release() moves its request, and wakes others only in order.
LEMMA ReleaseMoves ==
    ASSUME TypeOK, LineInv, NEW r \in Requests, pc[r] \in Leased, NEW failed, Release(r, failed)
    PROVE  OthersWake(r) /\ InOrder(pc', waiters) /\ pc'[r] = "done" /\ StaysPut(r)
<1> DEFINE sem == Sem(pc, permits)
<1>0. sem \in SemType /\ sem.pc = pc /\ OnlyWakes(pc, sem.pc)
  BY DEF TypeOK, Sem, SemType, OnlyWakes
<1>1. [sem EXCEPT !.pc[r] = "done"] = Sem([pc EXCEPT ![r] = "done"], permits)
  BY DEF Sem
<1>2. SetSem(ReleaseSem([sem EXCEPT !.pc[r] = "done"]))
  BY <1>1 DEF Release
<1>. HIDE DEF sem
<1>3. pc[r] # "queued" /\ pc[r] \notin InLine /\ "done" \notin InLine
  BY DEF Leased, InLine
<1>4. OthersWake(r) /\ pc'[r] = "done" /\ InOrder(pc', waiters)
  BY <1>0, <1>2, <1>3, GiveBackMoves DEF LineInv, QueueExact
<1>. QED  BY <1>3, <1>4 DEF StaysPut, Release

\* A request that only changes its own place, and is not woken, keeps the order.
LEMMA SelfMoves ==
    ASSUME TypeOK, LineInv, NEW r \in Requests, NEW v, v # "woken",
           v = "queued" => r \notin {waiters[i] : i \in DOMAIN waiters},
           pc' = [pc EXCEPT ![r] = v]
    PROVE  OthersWake(r) /\ InOrder(pc', waiters) /\ pc'[r] = v
<1>1. pc \in [Requests -> PCs] /\ waiters \in Seq(Requests)
  BY DEF TypeOK
<1>2. \A i \in DOMAIN waiters : waiters[i] \in Requests
  BY <1>1, LenProperties, ElementOfSeq
<1>3. InOrder(pc', waiters)
  BY <1>1, <1>2 DEF InOrder, LineInv
<1>. QED  BY <1>1, <1>3 DEF OthersWake

\* The end of acquire(), with or without a wait before it.
LEMMA EndOfAcquire ==
    ASSUME TypeOK, LineInv, NEW r \in Requests, Enter(r) \/ Resume(r)
    PROVE  /\ OthersWake(r) /\ InOrder(pc', waiters)
           /\ pc[r] \in {"idle", "woken"} /\ pc'[r] \in {"sending", "done"}
           /\ \E sem \in SemType : LeaseReplica(r, sem)
<1> DEFINE sem == Sem(pc, permits)
<1>1. sem \in SemType /\ sem.pc = pc /\ IsInjective(waiters) /\ InOrder(pc, waiters)
  BY DEF TypeOK, Sem, SemType, LineInv, QueueExact
<1>2. CASE Enter(r)
  <2>1. PICK s \in SemType : s.pc = pc /\ LeaseReplica(r, s)
    <3>1. CASE HasSemaphore
      <4>1. permits \in Nat /\ permits # 0
        BY <1>2, <3>1 DEF Enter, Locked, TypeOK
      <4>2. Sem(pc, permits - 1) \in SemType /\ Sem(pc, permits - 1).pc = pc
        BY <4>1 DEF Sem, SemType, TypeOK
      <4>. QED  BY <1>2, <3>1, <4>2 DEF Enter
    <3>2. CASE ~HasSemaphore
      BY <1>1, <1>2, <3>2 DEF Enter
    <3>. QED  BY <3>1, <3>2
  <2>2. OnlyWakes(pc, s.pc) /\ pc[r] = "idle"
    BY <1>2, <2>1 DEF OnlyWakes, Enter
  <2>. QED  BY <1>1, <2>1, <2>2, LeaseReplicaMoves
<1>3. CASE Resume(r)
  <2> DEFINE s == WakeIfSpare(sem)
  <2>1. LeaseReplica(r, s) /\ pc[r] = "woken"
    BY <1>3 DEF Resume
  <2>. HIDE DEF sem
  <2>2. s \in SemType /\ OnlyWakes(pc, s.pc) /\ InOrder(s.pc, waiters)
    BY <1>1, WakeIfSpareLemma, SemOrder
  <2>. HIDE DEF s
  <2>. QED  BY <1>1, <2>1, <2>2, LeaseReplicaMoves
<1>. QED  BY <1>2, <1>3

\* A woken task that is cancelled hands its slot on.
LEMMA CancelWokenMoves ==
    ASSUME TypeOK, LineInv, NEW r \in Requests, CancelWoken(r)
    PROVE  OthersWake(r) /\ InOrder(pc', waiters) /\ pc'[r] = "done"
<1> DEFINE sem == Sem(pc, permits)
<1>1. sem \in SemType /\ sem.pc = pc /\ OnlyWakes(pc, sem.pc)
  BY DEF TypeOK, Sem, SemType, OnlyWakes
<1>2. [sem EXCEPT !.pc[r] = "done"] = Sem([pc EXCEPT ![r] = "done"], permits)
  BY DEF Sem
<1>3. SetSem(ReleaseSem([sem EXCEPT !.pc[r] = "done"])) /\ pc[r] # "queued"
  BY <1>2 DEF CancelWoken
<1>. HIDE DEF sem
<1>. QED  BY <1>1, <1>3, GiveBackMoves DEF LineInv, QueueExact

\* Every step of a request moves it in one of the three ways.
LEMMA StepMoves ==
    ASSUME IInv, LineInv, NEW r \in Requests, Acquire(r) \/ Cancel(r) \/ Proxy(r)
    PROVE  OthersWake(r) /\ InOrder(pc', waiters) /\ (StaysPut(r) \/ Leaves(r) \/ Arrives(r))
<1> DEFINE Goal == /\ OthersWake(r) /\ InOrder(pc', waiters)
                   /\ StaysPut(r) \/ Leaves(r) \/ Arrives(r)
<1>1. /\ TypeOK /\ IsInjective(waiters) /\ InOrder(pc, waiters)
      /\ r \in {waiters[i] : i \in DOMAIN waiters} <=> pc[r] \in InLine
  BY DEF IInv, LineInv, QueueExact
<1>. USE DEF InLine
<1>3. CASE Refuse(r)
  BY <1>1, <1>3, SelfMoves DEF Refuse, StaysPut, semVars
<1>4. CASE Join(r)
  BY <1>1, <1>4, SelfMoves DEF Join, Arrives
<1>5. CASE Enter(r)
  BY <1>1, <1>5, EndOfAcquire DEF Enter, StaysPut
<1>6. CASE Resume(r)
  BY <1>1, <1>6, EndOfAcquire DEF Resume, Leaves
<1>7. CASE Abandon(r)
  BY <1>1, <1>7, SelfMoves DEF Abandon, StaysPut, semVars
<1>8. CASE LeaveLine(r)
  <2>1. pc' = [pc EXCEPT ![r] = "done"] /\ StopWaiting(r)
    BY <1>8 DEF LeaveLine
  <2>2. OthersWake(r) /\ InOrder(pc', waiters) /\ pc'[r] = "done"
    BY <1>1, <2>1, SelfMoves
  <2>. QED  BY <2>1, <2>2 DEF Leaves
<1>9. CASE CancelWoken(r)
  BY <1>1, <1>9, CancelWokenMoves DEF CancelWoken, Leaves
<1>10. CASE CancelSend(r)
  BY <1>1, <1>10, ReleaseMoves DEF CancelSend, Leased
<1>11. CASE Respond(r)
  BY <1>1, <1>11, SelfMoves DEF Respond, StaysPut, semVars
<1>12. ASSUME pc[r] \in {"sending", "closing"}, RetryOrGiveUp(r)
       PROVE  Goal
  <2>1. CASE pc' = [pc EXCEPT ![r] = "sending"] /\ UNCHANGED semVars
    BY <1>1, <1>12, <2>1, SelfMoves DEF StaysPut, semVars
  <2>2. CASE Release(r, TRUE)
    BY <1>1, <1>12, <2>2, ReleaseMoves DEF Leased
  <2>. QED  BY <1>12, <2>1, <2>2 DEF RetryOrGiveUp
<1>13. CASE SendFails(r)
  BY <1>12, <1>13 DEF SendFails
<1>14. CASE Respond5xx(r)
  BY <1>1, <1>14, SelfMoves DEF Respond5xx, StaysPut, semVars
<1>15. CASE Close5xx(r)
  BY <1>12, <1>15 DEF Close5xx
<1>16. ASSUME NEW how, BeginCleanup(r, how)
       PROVE  Goal
  BY <1>1, <1>16, SelfMoves DEF BeginCleanup, StaysPut, semVars
<1>17. CASE StreamEnds(r) \/ ClientLeaves(r) \/ BackendDrops(r)
  BY <1>16, <1>17 DEF StreamEnds, ClientLeaves, BackendDrops
<1>18. CASE FinishCleanup(r)
  BY <1>1, <1>18, ReleaseMoves DEF FinishCleanup, Leased
<1>. QED
  BY <1>3, <1>4, <1>5, <1>6, <1>7, <1>8, <1>9, <1>10, <1>11, <1>13, <1>14, <1>15, <1>17, <1>18
     DEF Acquire, Cancel, Proxy

\* The line's invariant is inductive, given that of the slots.
LEMMA LineNext == IInv /\ IInv' /\ LineInv /\ [Next]_vars => LineInv'
<1> SUFFICES ASSUME IInv, IInv', LineInv, [Next]_vars PROVE LineInv'
  OBVIOUS
<1>0. TypeOK /\ pc' \in [Requests -> PCs]
  BY DEF IInv, TypeOK
<1>1. CASE \E r \in Requests : Acquire(r) \/ Cancel(r) \/ Proxy(r)
  BY <1>0, <1>1, StepMoves, LineKept
<1>2. CASE UNCHANGED <<pc, waiters, waiting>>
  BY <1>2 DEF LineInv, QueueExact, InOrder, HasSemaphore
<1>3. (\E i \in ReplicaIds : Registry(i)) \/ UNCHANGED vars => UNCHANGED <<pc, waiters, waiting>>
  BY DEF Registry, LeaveRotation, EnterRotation, ReplaceState, semVars, requestVars, vars
<1>. QED  BY <1>1, <1>2, <1>3 DEF Next

\* At first nobody waits.
LEMMA LineInit == Init => LineInv
<1> SUFFICES ASSUME Init PROVE LineInv
  OBVIOUS
<1>1. waiters = <<>> /\ waiting = 0 /\ \A r \in Requests : pc[r] = "idle"
  BY DEF Init
<1>2. DOMAIN waiters = {} /\ Len(waiters) = 0
  BY <1>1
<1>3. {waiters[i] : i \in DOMAIN waiters} = {r \in Requests : pc[r] \in InLine}
  BY <1>1, <1>2 DEF InLine
<1>4. waiting = Len(waiters) /\ waiting <= MaxQueueDepth
  BY <1>1, <1>2, RouterAssumption
<1>. QED  BY <1>2, <1>3, <1>4 DEF LineInv, QueueExact, IsInjective, InOrder

\* In every reachable state the line is in order and its books are exact.
THEOREM LineInvariance == Spec => []LineInv
<1>. QED  BY Invariance, LineInit, LineNext, PTL DEF Spec

\* The router's queue length is the number of tasks in the semaphore's deque,
\* each of them there once, and never exceeds max_queue_depth.
THEOREM QueueAlwaysExact == Spec => []QueueExact
<1>1. LineInv => QueueExact
  BY DEF LineInv
<1>. QED  BY <1>1, LineInvariance, PTL

-----------------------------------------------------------------------------
(* The story of each request, and the books of its failures                 *)

\* What has happened to a request, by the place where it is.
Story(r) ==
    /\ pc[r] \in {"idle"} \cup InLine =>
           /\ lease[r] = NoState /\ excluded[r] = {} /\ failedOn[r] = {} /\ attempts[r] = 0
    /\ pc[r] \notin {"cleanup", "done"} => outcome[r] = "none"
    /\ pc[r] = "cleanup" =>
           /\ outcome[r] \in {"served", "cancelled", "dropped"}
           /\ lease[r] \in failedOn[r] <=> outcome[r] = "dropped"
    /\ pc[r] \in {"sending", "streaming"} => lease[r] \notin failedOn[r]
    /\ pc[r] = "closing" => lease[r] \in failedOn[r]
    /\ attempts[r] = 0 => failedOn[r] \subseteq {lease[r]}
    /\ \A s \in failedOn[r] : s \in States /\ s[1] \in excluded[r]

StoryInv == (\A r \in Requests : Story(r)) /\ FailuresExact

Charged(r, s) == s \in failedOn[r] /\ ~Uncharged(r, s)
Errored(r)    == pc[r] = "done" /\ outcome[r] \in {"bad_gateway", "dropped"}

\* A step of request r leaves what is known of every other request alone.
OthersSame(r) ==
    \A x \in Requests \ {r} :
        /\ lease'[x] = lease[x] /\ excluded'[x] = excluded[x] /\ attempts'[x] = attempts[x]
        /\ outcome'[x] = outcome[x] /\ failedOn'[x] = failedOn[x]

\* A counter that moves with one request: up by one when the request begins to
\* satisfy what is counted, and not at all when that stays as it is.
MovesWith(n, m, before, after) ==
    \/ (after <=> before) /\ m = n
    \/ after /\ ~before /\ m = n + 1

\* Each of the router's books moves with request r.
BooksMove(r) ==
    /\ \A s \in States : MovesWith(failures[s], failures'[s], Charged(r, s), Charged(r, s)')
    /\ MovesWith(totals.errors, totals'.errors, Errored(r), Errored(r)')
    /\ MovesWith(totals.rejected, totals'.rejected,
                 outcome[r] = "overloaded", outcome'[r] = "overloaded")
    /\ MovesWith(totals.requests, totals'.requests, excluded[r] # {}, excluded'[r] # {})

\* The number of requests in a set follows the one request that changes.
LEMMA CountMoves ==
    ASSUME NEW A \in SUBSET Requests, NEW B \in SUBSET Requests, NEW r \in Requests,
           \A x \in Requests \ {r} : x \in B <=> x \in A,
           NEW n, NEW m, n = Cardinality(A), MovesWith(n, m, r \in A, r \in B)
    PROVE  m = Cardinality(B)
<1>1. IsFiniteSet(A)
  BY RouterAssumption, FS_Subset
<1>2. CASE (r \in B <=> r \in A) /\ m = n
  <2>1. B = A
    BY <1>2
  <2>. QED  BY <1>2, <2>1
<1>3. CASE r \in B /\ r \notin A /\ m = n + 1
  <2>1. B = A \cup {r}
    BY <1>3
  <2>2. Cardinality(A \cup {r}) = Cardinality(A) + 1
    BY <1>1, <1>3, FS_AddElement
  <2>. QED  BY <1>3, <2>1, <2>2
<1>. QED  BY <1>2, <1>3 DEF MovesWith

\* Books that move with the one request that changes stay exact.
LEMMA BooksKept ==
    ASSUME FailuresExact, NEW r \in Requests, OthersWake(r), OthersSame(r), BooksMove(r)
    PROVE  FailuresExact'
<1>1. \A x \in Requests \ {r} :
          /\ \A s \in States : Charged(x, s)' <=> Charged(x, s)
          /\ Errored(x)' <=> Errored(x)
          /\ outcome'[x] = outcome[x] /\ excluded'[x] = excluded[x]
  BY DEF OthersWake, OthersSame, Charged, Uncharged, Errored
<1>2. ASSUME NEW s \in States
      PROVE  failures'[s] = Cardinality({x \in Requests : Charged(x, s)'})
  <2> DEFINE A == {x \in Requests : Charged(x, s)}
             B == {x \in Requests : Charged(x, s)'}
  <2>1. failures[s] = Cardinality(A)
    BY DEF FailuresExact, Charged
  <2>2. A \in SUBSET Requests /\ B \in SUBSET Requests
        /\ \A x \in Requests \ {r} : x \in B <=> x \in A
    BY <1>1
  <2>3. MovesWith(failures[s], failures'[s], r \in A, r \in B)
    BY DEF BooksMove, MovesWith
  <2>. HIDE DEF A, B
  <2>4. failures'[s] = Cardinality(B)
    BY <2>1, <2>2, <2>3, CountMoves
  <2>. QED  BY <2>4 DEF B
<1>3. totals'.errors = Cardinality({x \in Requests : Errored(x)'})
  <2> DEFINE A == {x \in Requests : Errored(x)}
             B == {x \in Requests : Errored(x)'}
  <2>1. totals.errors = Cardinality(A)
    BY DEF FailuresExact, Errored
  <2>2. A \in SUBSET Requests /\ B \in SUBSET Requests
        /\ \A x \in Requests \ {r} : x \in B <=> x \in A
    BY <1>1
  <2>3. MovesWith(totals.errors, totals'.errors, r \in A, r \in B)
    BY DEF BooksMove, MovesWith
  <2>. HIDE DEF A, B
  <2>4. totals'.errors = Cardinality(B)
    BY <2>1, <2>2, <2>3, CountMoves
  <2>. QED  BY <2>4 DEF B
<1>4. totals'.rejected = Cardinality({x \in Requests : outcome'[x] = "overloaded"})
  <2> DEFINE A == {x \in Requests : outcome[x] = "overloaded"}
             B == {x \in Requests : outcome'[x] = "overloaded"}
  <2>1. totals.rejected = Cardinality(A)
    BY DEF FailuresExact
  <2>2. A \in SUBSET Requests /\ B \in SUBSET Requests
        /\ \A x \in Requests \ {r} : x \in B <=> x \in A
    BY <1>1
  <2>3. MovesWith(totals.rejected, totals'.rejected, r \in A, r \in B)
    BY DEF BooksMove, MovesWith
  <2>. HIDE DEF A, B
  <2>4. totals'.rejected = Cardinality(B)
    BY <2>1, <2>2, <2>3, CountMoves
  <2>. QED  BY <2>4 DEF B
<1>5. totals'.requests = Cardinality({x \in Requests : excluded'[x] # {}})
  <2> DEFINE A == {x \in Requests : excluded[x] # {}}
             B == {x \in Requests : excluded'[x] # {}}
  <2>1. totals.requests = Cardinality(A)
    BY DEF FailuresExact
  <2>2. A \in SUBSET Requests /\ B \in SUBSET Requests
        /\ \A x \in Requests \ {r} : x \in B <=> x \in A
    BY <1>1
  <2>3. MovesWith(totals.requests, totals'.requests, r \in A, r \in B)
    BY DEF BooksMove, MovesWith
  <2>. HIDE DEF A, B
  <2>4. totals'.requests = Cardinality(B)
    BY <2>1, <2>2, <2>3, CountMoves
  <2>. QED  BY <2>4 DEF B
<1>. QED  BY <1>2, <1>3, <1>4, <1>5 DEF FailuresExact, Charged, Errored

\* What is true of the requests a step does not move stays true of them.
LEMMA OthersStory ==
    ASSUME NEW r \in Requests, OthersWake(r), OthersSame(r),
           NEW x \in Requests \ {r}, Story(x)
    PROVE  Story(x)'
<1>1. /\ lease'[x] = lease[x] /\ excluded'[x] = excluded[x] /\ attempts'[x] = attempts[x]
      /\ outcome'[x] = outcome[x] /\ failedOn'[x] = failedOn[x]
  BY DEF OthersSame
<1>2. pc'[x] = pc[x] \/ (pc[x] \in InLine /\ pc'[x] = "woken")
  BY DEF OthersWake, InLine
<1>. QED  BY <1>1, <1>2 DEF Story, InLine

\* The functions a request's own step changes, and their types.
Typed ==
    /\ pc \in [Requests -> PCs]
    /\ lease \in [Requests -> States \cup {NoState}]
    /\ excluded \in [Requests -> SUBSET ReplicaIds]
    /\ attempts \in [Requests -> 0..1]
    /\ outcome \in [Requests -> Outcomes]
    /\ failedOn \in [Requests -> SUBSET (States \cup {NoState})]
    /\ failures \in [States -> Nat]
    /\ totals \in [requests : Nat, errors : Nat, rejected : Nat]

\* What a step of r leaves for the invariant of the stories.
Told(r) == OthersSame(r) /\ Story(r)' /\ BooksMove(r)

\* The end of acquire(): a lease and one request more, or an answer and no lease.
LEMMA LeaseReplicaTold ==
    ASSUME TypeOK, NEW r \in Requests, Story(r), pc[r] \in {"idle", "woken"},
           NEW sem \in SemType, LeaseReplica(r, sem), pc'[r] \in {"sending", "done"},
           UNCHANGED <<attempts, failedOn, failures>>
    PROVE  Told(r)
<1>0. Typed /\ rotation \subseteq ReplicaIds /\ generation \in [ReplicaIds -> 0..MaxGeneration]
  BY DEF TypeOK, Typed
<1>1. /\ lease[r] = NoState /\ excluded[r] = {} /\ failedOn[r] = {} /\ attempts[r] = 0
      /\ outcome[r] = "none" /\ pc[r] # "done"
  BY DEF Story, InLine
<1>2. \A s \in States : ~Charged(r, s) /\ ~Charged(r, s)'
  BY <1>1 DEF Charged
<1>3. CASE \E i \in LeastLoaded(Candidates({})) :
          /\ SetSem([sem EXCEPT !.pc[r] = "sending"])
          /\ lease' = [lease EXCEPT ![r] = State(i)]
          /\ excluded' = [excluded EXCEPT ![r] = {i}]
          /\ inflight' = [inflight EXCEPT ![State(i)] = @ + 1]
          /\ totals' = [totals EXCEPT !.requests = @ + 1]
          /\ UNCHANGED outcome
  <2>1. PICK i \in LeastLoaded(Candidates({})) :
          /\ SetSem([sem EXCEPT !.pc[r] = "sending"])
          /\ lease' = [lease EXCEPT ![r] = State(i)]
          /\ excluded' = [excluded EXCEPT ![r] = {i}]
          /\ totals' = [totals EXCEPT !.requests = @ + 1]
          /\ UNCHANGED outcome
    BY <1>3
  <2>2. pc'[r] = "sending"
    BY <2>1 DEF SetSem, SemType
  <2>3. excluded'[r] = {i} /\ OthersSame(r)
    BY <1>0, <2>1 DEF Typed, OthersSame
  <2>4. /\ totals'.requests = totals.requests + 1 /\ totals'.errors = totals.errors
        /\ totals'.rejected = totals.rejected
    BY <1>0, <2>1 DEF Typed
  <2>5. Story(r)'
    BY <1>1, <2>1, <2>2, <2>3 DEF Story, InLine
  <2>6. BooksMove(r)
    BY <1>1, <1>2, <2>1, <2>2, <2>3, <2>4 DEF BooksMove, MovesWith, Errored
  <2>. QED  BY <2>3, <2>5, <2>6 DEF Told
<1>4. CASE /\ SetSem(ReleaseSem([sem EXCEPT !.pc[r] = "done"]))
           /\ outcome' = [outcome EXCEPT ![r] = "no_replica"]
           /\ UNCHANGED <<lease, excluded, inflight, totals>>
  <2>1. outcome'[r] = "no_replica" /\ OthersSame(r)
    BY <1>0, <1>4 DEF Typed, OthersSame
  <2>2. Story(r)'
    <3> DEFINE given == [sem EXCEPT !.pc[r] = "done"]
    <3>1. given \in SemType /\ given.pc[r] = "done"
      BY DEF SemType, PCs
    <3>2. pc' = ReleaseSem(given).pc
      BY <1>4 DEF SetSem
    <3>. HIDE DEF given
    <3>3. pc'[r] = "done"
      BY <3>1, <3>2, ReleaseSemLemma DEF OnlyWakes
    <3>. QED  BY <1>1, <1>4, <2>1, <3>3 DEF Story, InLine
  <2>3. BooksMove(r)
    BY <1>1, <1>2, <1>4, <2>1 DEF BooksMove, MovesWith, Errored
  <2>. QED  BY <2>1, <2>2, <2>3 DEF Told
<1>. QED  BY <1>3, <1>4 DEF LeaseReplica

\* release(): the request is done, and its failure, if it was one, is charged.
LEMMA ReleaseTold ==
    ASSUME TypeOK, NEW r \in Requests, Story(r), lease[r] \in States,
           NEW failed \in BOOLEAN, Release(r, failed), pc'[r] = "done",
           pc[r] \in {"sending", "closing", "cleanup"},
           outcome' = [outcome EXCEPT ![r] = outcome'[r]], outcome'[r] # "overloaded",
           failed <=> outcome'[r] \in {"bad_gateway", "dropped"},
           ~failed => outcome'[r] = "cancelled" \/ lease[r] \notin failedOn[r],
           failed => lease[r] \in failedOn'[r],
           failedOn' = [failedOn EXCEPT ![r] = failedOn'[r]],
           failedOn'[r] \in {failedOn[r], failedOn[r] \cup {lease[r]}},
           lease[r][1] \in excluded[r],
           ~failed => failedOn'[r] = failedOn[r]
    PROVE  Told(r)
<1>0. Typed
  BY DEF TypeOK, Typed
<1>1. /\ lease' = lease /\ excluded' = excluded /\ attempts' = attempts
      /\ failures' = [failures EXCEPT ![lease[r]] = @ + Fault(failed)]
      /\ totals' = [totals EXCEPT !.errors = @ + Fault(failed)]
  BY DEF Release
<1>2. OthersSame(r)
  BY <1>0, <1>1 DEF OthersSame, Typed
<1>3. Story(r)'
  BY <1>1 DEF Story, InLine
<1>4. ASSUME NEW s \in States
      PROVE  MovesWith(failures[s], failures'[s], Charged(r, s), Charged(r, s)')
  <2>1. CASE s = lease[r]
    <3>1. ~Charged(r, s)
      BY <2>1 DEF Charged, Uncharged, Story
    <3>2. Charged(r, s)' <=> failed
      BY <1>1, <2>1 DEF Charged, Uncharged
    <3>3. failures'[s] = failures[s] + (IF failed THEN 1 ELSE 0) /\ failures[s] \in Nat
      BY <1>0, <1>1, <2>1 DEF Typed, Fault
    <3>. QED  BY <3>1, <3>2, <3>3 DEF MovesWith
  <2>2. CASE s # lease[r]
    <3>1. Charged(r, s)' <=> Charged(r, s)
      BY <1>1, <2>2 DEF Charged, Uncharged
    <3>2. failures'[s] = failures[s]
      BY <1>0, <1>1, <2>2 DEF Typed
    <3>. QED  BY <3>1, <3>2 DEF MovesWith
  <2>. QED  BY <2>1, <2>2
<1>5. /\ totals'.errors = totals.errors + (IF failed THEN 1 ELSE 0) /\ totals.errors \in Nat
      /\ totals'.rejected = totals.rejected /\ totals'.requests = totals.requests
  BY <1>0, <1>1 DEF Typed, Fault
<1>6. MovesWith(totals.errors, totals'.errors, Errored(r), Errored(r)')
  BY <1>5 DEF MovesWith, Errored
<1>7. outcome[r] # "overloaded"
  BY DEF Story
<1>8. BooksMove(r)
  BY <1>1, <1>4, <1>5, <1>6, <1>7 DEF BooksMove, MovesWith
<1>. QED  BY <1>2, <1>3, <1>8 DEF Told

\* reroute(): the failure is charged to the replica that is left.
LEMMA RerouteTold ==
    ASSUME TypeOK, NEW r \in Requests, Story(r), lease[r] \in States,
           lease[r][1] \in excluded[r], pc[r] \in {"sending", "closing"},
           Reroute(r), attempts' = [attempts EXCEPT ![r] = @ + 1],
           pc' = [pc EXCEPT ![r] = "sending"], attempts[r] = 0,
           UNCHANGED <<outcome, totals>>,
           failedOn' = [failedOn EXCEPT ![r] = failedOn'[r]],
           failedOn'[r] = failedOn[r] \cup {lease[r]}
    PROVE  /\ Told(r)
           /\ failedOn[r] \subseteq {lease[r]} /\ failedOn'[r] = {lease[r]}
           /\ lease'[r][1] # lease[r][1]
<1>0. Typed /\ rotation \subseteq ReplicaIds /\ generation \in [ReplicaIds -> 0..MaxGeneration]
  BY DEF TypeOK, Typed
<1>1. PICK i \in LeastLoaded(Candidates(excluded[r])) :
        /\ failures' = [failures EXCEPT ![lease[r]] = @ + 1]
        /\ lease' = [lease EXCEPT ![r] = State(i)]
        /\ excluded' = [excluded EXCEPT ![r] = @ \cup {i}]
  BY DEF Reroute
<1>2. i \in ReplicaIds \ excluded[r] /\ State(i) \in States /\ State(i)[1] = i
  BY <1>0 DEF LeastLoaded, Candidates, State, States
<1>3. /\ lease'[r] = State(i) /\ excluded'[r] = excluded[r] \cup {i}
      /\ attempts'[r] = 1 /\ pc'[r] = "sending" /\ outcome' = outcome
  BY <1>0, <1>1 DEF Typed
<1>4. OthersSame(r)
  BY <1>0, <1>1 DEF OthersSame, Typed
<1>5. State(i) # lease[r] /\ State(i) \notin failedOn'[r] /\ outcome[r] = "none"
  BY <1>2 DEF Story
<1>6. Story(r)'
  <2>1. \A s \in failedOn'[r] : s \in States /\ s[1] \in excluded'[r]
    BY <1>3 DEF Story
  <2>. QED  BY <1>3, <1>5, <2>1 DEF Story, InLine
<1>7. ASSUME NEW s \in States
      PROVE  MovesWith(failures[s], failures'[s], Charged(r, s), Charged(r, s)')
  <2>1. CASE s = lease[r]
    <3>1. ~Charged(r, s)
      BY <2>1 DEF Charged, Uncharged, Story
    <3>2. Charged(r, s)'
      BY <1>3, <1>5, <2>1 DEF Charged, Uncharged
    <3>3. failures'[s] = failures[s] + 1
      BY <1>0, <1>1, <2>1 DEF Typed
    <3>. QED  BY <3>1, <3>2, <3>3 DEF MovesWith
  <2>2. CASE s # lease[r]
    <3>1. Charged(r, s)' <=> Charged(r, s)
      BY <1>3, <1>5, <2>2 DEF Charged, Uncharged
    <3>2. failures'[s] = failures[s]
      BY <1>0, <1>1, <2>2 DEF Typed
    <3>. QED  BY <3>1, <3>2 DEF MovesWith
  <2>. QED  BY <2>1, <2>2
<1>8. BooksMove(r)
  <2>1. excluded[r] # {} /\ excluded'[r] # {} /\ ~Errored(r) /\ ~Errored(r)'
    BY <1>3 DEF Errored
  <2>. QED  BY <1>3, <1>7, <2>1 DEF BooksMove, MovesWith
<1>9. failedOn[r] \subseteq {lease[r]} /\ failedOn'[r] = {lease[r]}
  BY DEF Story
<1>. QED  BY <1>2, <1>3, <1>4, <1>6, <1>8, <1>9 DEF Told

\* A request that moves without touching lease or books: it joins, gives up,
\* is refused, is answered, or begins to end.
LEMMA MoveTold ==
    ASSUME TypeOK, NEW r \in Requests, Story(r)',
           UNCHANGED <<lease, excluded, attempts, failures>>,
           outcome' = [outcome EXCEPT ![r] = outcome'[r]],
           failedOn' = [failedOn EXCEPT ![r] = failedOn'[r]],
           \A s \in States : Charged(r, s)' <=> Charged(r, s),
           outcome[r] = "none", ~Errored(r)',
           \/ UNCHANGED totals /\ outcome'[r] # "overloaded"
           \/ totals' = [totals EXCEPT !.rejected = @ + 1] /\ outcome'[r] = "overloaded"
    PROVE  Told(r)
<1>0. Typed
  BY DEF TypeOK, Typed
<1>1. OthersSame(r)
  BY <1>0 DEF OthersSame, Typed
<1>2. totals'.errors = totals.errors /\ totals'.requests = totals.requests
  BY <1>0 DEF Typed
<1>3. MovesWith(totals.rejected, totals'.rejected,
                outcome[r] = "overloaded", outcome'[r] = "overloaded")
  BY <1>0 DEF Typed, MovesWith
<1>4. BooksMove(r)
  BY <1>2, <1>3 DEF BooksMove, MovesWith, Errored
<1>. QED  BY <1>1, <1>4 DEF Told

\* A failed attempt, whether it is charged here or was when it was closed.
LEMMA RetryTold ==
    ASSUME IInv, LineInv, NEW r \in Requests, Story(r), pc[r] \in {"sending", "closing"},
           RetryOrGiveUp(r),
           failedOn' = [failedOn EXCEPT ![r] = failedOn'[r]],
           failedOn'[r] = failedOn[r] \cup {lease[r]}
    PROVE  Told(r)
<1>1. TypeOK /\ lease[r] \in States /\ lease[r][1] \in excluded[r] /\ pc[r] \in Leased
      /\ outcome \in [Requests -> Outcomes]
  BY DEF IInv, LeaseOK, Leased, TypeOK
<1>2. CASE /\ MayRetry(r)
           /\ Reroute(r)
           /\ attempts' = [attempts EXCEPT ![r] = @ + 1]
           /\ pc' = [pc EXCEPT ![r] = "sending"]
           /\ UNCHANGED <<semVars, outcome, rotation, generation, totals>>
  BY <1>1, <1>2, RerouteTold DEF MayRetry
<1>3. CASE /\ ~MayRetry(r)
           /\ Release(r, TRUE)
           /\ outcome' = [outcome EXCEPT ![r] = "bad_gateway"]
  <2>1. pc'[r] = "done"
    BY <1>1, <1>3, ReleaseMoves
  <2>2. outcome'[r] = "bad_gateway" /\ outcome' = [outcome EXCEPT ![r] = outcome'[r]]
    BY <1>1, <1>3
  <2>. QED  BY <1>1, <1>3, <2>1, <2>2, ReleaseTold
<1>. QED  BY <1>2, <1>3 DEF RetryOrGiveUp

\* Every step of a request keeps its story true and moves the books with it.
LEMMA StepTold ==
    ASSUME IInv, LineInv, NEW r \in Requests, Story(r),
           Acquire(r) \/ Cancel(r) \/ Proxy(r)
    PROVE  Told(r)
<1>0. TypeOK /\ Typed /\ IsInjective(waiters) /\ InOrder(pc, waiters)
  BY DEF IInv, TypeOK, Typed, LineInv, QueueExact
<1>00. pc[r] \in Leased => lease[r] \in States /\ lease[r][1] \in excluded[r]
  BY DEF IInv, LeaseOK
<1>1. ASSUME pc[r] \in {"idle"} \cup InLine
      PROVE  /\ lease[r] = NoState /\ excluded[r] = {} /\ failedOn[r] = {} /\ attempts[r] = 0
             /\ outcome[r] = "none" /\ pc[r] # "done" /\ \A s \in States : ~Charged(r, s)
             /\ failedOn' = failedOn => \A s \in States : ~Charged(r, s)'
  BY <1>1 DEF Story, InLine, Charged
<1>2. failedOn' = failedOn => failedOn' = [failedOn EXCEPT ![r] = failedOn'[r]]
  BY <1>0 DEF Typed
<1>02. outcome' = outcome => outcome' = [outcome EXCEPT ![r] = outcome'[r]]
  BY <1>0 DEF Typed
<1>3. CASE Refuse(r)
  <2>1. /\ pc'[r] = "done" /\ outcome'[r] = "overloaded"
        /\ outcome' = [outcome EXCEPT ![r] = outcome'[r]]
        /\ totals' = [totals EXCEPT !.rejected = @ + 1]
        /\ UNCHANGED <<lease, excluded, attempts, failedOn, failures>>
    BY <1>0, <1>3 DEF Refuse, Typed, replicaVars
  <2>2. Story(r)'
    BY <1>1, <1>3, <2>1 DEF Story, InLine, Refuse
  <2>3. ~Errored(r)'
    BY <2>1 DEF Errored
  <2>. QED  BY <1>0, <1>1, <1>2, <1>3, <2>1, <2>2, <2>3, MoveTold DEF Refuse
<1>4. CASE Join(r)
  <2>1. /\ pc'[r] = "queued"
        /\ UNCHANGED <<lease, excluded, attempts, outcome, failedOn, failures, totals>>
    BY <1>0, <1>4 DEF Join, Typed, replicaVars
  <2>2. Story(r)'
    BY <1>1, <1>4, <2>1 DEF Story, InLine, Join
  <2>3. ~Errored(r)'
    BY <2>1 DEF Errored
  <2>. QED  BY <1>0, <1>1, <1>2, <1>02, <1>4, <2>1, <2>2, <2>3, MoveTold DEF Join
<1>5. CASE Enter(r)
  BY <1>0, <1>5, EndOfAcquire, LeaseReplicaTold DEF Enter
<1>6. CASE Resume(r)
  BY <1>0, <1>6, EndOfAcquire, LeaseReplicaTold DEF Resume
<1>7. CASE Abandon(r)
  <2>1. /\ pc'[r] = "abandoned"
        /\ UNCHANGED <<lease, excluded, attempts, outcome, failedOn, failures, totals>>
    BY <1>0, <1>7 DEF Abandon, Typed, replicaVars
  <2>2. Story(r)'
    BY <1>1, <1>7, <2>1 DEF Story, InLine, Abandon
  <2>3. ~Errored(r)'
    BY <2>1 DEF Errored
  <2>. QED  BY <1>0, <1>1, <1>2, <1>02, <1>7, <2>1, <2>2, <2>3, MoveTold DEF Abandon, InLine
<1>8. ASSUME pc[r] \in {"woken", "abandoned"}, pc'[r] = "done",
             outcome' = [outcome EXCEPT ![r] = "cancelled"],
             UNCHANGED <<lease, excluded, attempts, failedOn, failures, totals>>
      PROVE  Told(r)
  <2>1. outcome'[r] = "cancelled" /\ outcome' = [outcome EXCEPT ![r] = outcome'[r]]
    BY <1>0, <1>8 DEF Typed
  <2>2. Story(r)'
    BY <1>1, <1>8, <2>1 DEF Story, InLine
  <2>3. ~Errored(r)'
    BY <2>1 DEF Errored
  <2>. QED  BY <1>0, <1>1, <1>2, <1>8, <2>1, <2>2, <2>3, MoveTold DEF InLine
<1>9. CASE LeaveLine(r)
  BY <1>0, <1>8, <1>9 DEF LeaveLine, Typed, replicaVars
<1>10. CASE CancelWoken(r)
  BY <1>0, <1>8, <1>10, CancelWokenMoves DEF CancelWoken, replicaVars
<1>11. CASE CancelSend(r)
  <2>1. pc[r] \in {"sending", "closing"} /\ pc[r] \in Leased /\ Release(r, FALSE)
    BY <1>11 DEF CancelSend, Leased
  <2>2. pc'[r] = "done"
    BY <1>0, <2>1, ReleaseMoves
  <2>3. outcome'[r] = "cancelled" /\ outcome' = [outcome EXCEPT ![r] = outcome'[r]]
        /\ failedOn' = failedOn
    BY <1>0, <1>11 DEF Typed, CancelSend
  <2>. QED  BY <1>0, <1>00, <1>2, <2>1, <2>2, <2>3, ReleaseTold
<1>12. CASE Respond(r)
  <2>1. /\ pc'[r] = "streaming" /\ pc[r] = "sending"
        /\ UNCHANGED <<lease, excluded, attempts, outcome, failedOn, failures, totals>>
    BY <1>0, <1>12 DEF Respond, Typed, replicaVars
  <2>2. Story(r)' /\ outcome[r] = "none"
    BY <2>1 DEF Story, InLine
  <2>3. ~Errored(r)' /\ \A s \in States : Charged(r, s)' <=> Charged(r, s)
    BY <2>1, <2>2 DEF Errored, Charged, Uncharged
  <2>. QED  BY <1>0, <1>2, <1>02, <2>1, <2>2, <2>3, MoveTold
<1>13. CASE SendFails(r)
  BY <1>0, <1>13, RetryTold DEF SendFails, Charge, Typed
<1>14. CASE Respond5xx(r)
  <2>1. /\ pc'[r] = "closing" /\ pc[r] = "sending"
        /\ failedOn'[r] = failedOn[r] \cup {lease[r]}
        /\ failedOn' = [failedOn EXCEPT ![r] = failedOn'[r]]
        /\ UNCHANGED <<lease, excluded, attempts, outcome, failures, totals>>
    BY <1>0, <1>14 DEF Respond5xx, Charge, Typed, replicaVars
  <2>2. Story(r)' /\ outcome[r] = "none" /\ lease[r] \notin failedOn[r]
    BY <1>00, <2>1 DEF Story, InLine, Leased
  <2>3. ~Errored(r)' /\ \A s \in States : Charged(r, s)' <=> Charged(r, s)
    BY <2>1, <2>2 DEF Errored, Charged, Uncharged
  <2>. QED  BY <1>0, <1>02, <2>1, <2>2, <2>3, MoveTold
<1>15. CASE Close5xx(r)
  <2>1. failedOn' = failedOn /\ lease[r] \in failedOn[r] /\ pc[r] = "closing" /\ RetryOrGiveUp(r)
    BY <1>15 DEF Close5xx, Story
  <2>2. failedOn'[r] = failedOn[r] \cup {lease[r]}
    BY <2>1
  <2>. QED  BY <1>2, <2>1, <2>2, RetryTold
<1>16. ASSUME NEW how \in {"served", "cancelled"}, BeginCleanup(r, how), failedOn' = failedOn
       PROVE  Told(r)
  <2>1. /\ pc'[r] = "cleanup" /\ pc[r] = "streaming"
        /\ outcome'[r] = how /\ outcome' = [outcome EXCEPT ![r] = outcome'[r]]
        /\ UNCHANGED <<lease, excluded, attempts, failures, totals>>
    BY <1>0, <1>16 DEF BeginCleanup, Typed, replicaVars
  <2>2. Story(r)' /\ outcome[r] = "none" /\ lease[r] \notin failedOn[r]
    BY <1>16, <2>1 DEF Story, InLine
  <2>3. ~Errored(r)' /\ \A s \in States : Charged(r, s)' <=> Charged(r, s)
    BY <1>16, <2>1, <2>2 DEF Errored, Charged, Uncharged
  <2>. QED  BY <1>0, <1>2, <1>16, <2>1, <2>2, <2>3, MoveTold
<1>17. CASE BackendDrops(r)
  <2>1. /\ pc'[r] = "cleanup" /\ pc[r] = "streaming"
        /\ outcome'[r] = "dropped" /\ outcome' = [outcome EXCEPT ![r] = outcome'[r]]
        /\ failedOn'[r] = failedOn[r] \cup {lease[r]}
        /\ failedOn' = [failedOn EXCEPT ![r] = failedOn'[r]]
        /\ UNCHANGED <<lease, excluded, attempts, failures, totals>>
    BY <1>0, <1>17 DEF BackendDrops, BeginCleanup, Charge, Typed, replicaVars
  <2>2. Story(r)' /\ outcome[r] = "none" /\ lease[r] \notin failedOn[r]
    BY <1>00, <2>1 DEF Story, InLine, Leased
  <2>3. ~Errored(r)' /\ \A s \in States : Charged(r, s)' <=> Charged(r, s)
    BY <2>1, <2>2 DEF Errored, Charged, Uncharged
  <2>. QED  BY <1>0, <2>1, <2>2, <2>3, MoveTold
<1>18. CASE FinishCleanup(r)
  <2> DEFINE failed == outcome[r] = "dropped"
  <2>1. /\ failed \in BOOLEAN /\ Release(r, failed) /\ pc[r] = "cleanup" /\ pc[r] \in Leased
        /\ outcome' = outcome /\ failedOn' = failedOn
    BY <1>18 DEF FinishCleanup, Leased
  <2>2. /\ outcome[r] \in {"served", "cancelled", "dropped"}
        /\ lease[r] \in failedOn[r] <=> failed
    BY <2>1 DEF Story
  <2>. HIDE DEF failed
  <2>3. pc'[r] = "done"
    BY <1>0, <2>1, ReleaseMoves
  <2>4. failed <=> outcome'[r] \in {"bad_gateway", "dropped"}
    BY <2>1, <2>2 DEF failed
  <2>5. outcome'[r] # "overloaded" /\ failedOn'[r] = failedOn[r]
    BY <2>1, <2>2
  <2>. QED  BY <1>0, <1>00, <1>2, <1>02, <2>1, <2>2, <2>3, <2>4, <2>5, ReleaseTold
<1>. QED
  BY <1>3, <1>4, <1>5, <1>6, <1>7, <1>9, <1>10, <1>11, <1>12, <1>13, <1>14, <1>15, <1>16,
     <1>17, <1>18 DEF Acquire, Cancel, Proxy, StreamEnds, ClientLeaves

\* The stories and the books are kept, given the slots and the line.
LEMMA StoryNext == IInv /\ LineInv /\ StoryInv /\ [Next]_vars => StoryInv'
<1> SUFFICES ASSUME IInv, LineInv, StoryInv, [Next]_vars PROVE StoryInv'
  OBVIOUS
<1>1. ASSUME NEW r \in Requests, Acquire(r) \/ Cancel(r) \/ Proxy(r)
      PROVE  StoryInv'
  <2>1. Story(r) /\ FailuresExact
    BY DEF StoryInv
  <2>2. OthersWake(r) /\ Told(r)
    BY <1>1, <2>1, StepMoves, StepTold
  <2>3. \A x \in Requests : Story(x)'
    BY <2>2, OthersStory DEF StoryInv, Told
  <2>4. FailuresExact'
    BY <2>1, <2>2, BooksKept DEF Told
  <2>. QED  BY <2>3, <2>4 DEF StoryInv
<1>2. ASSUME UNCHANGED <<requestVars, failures, totals>>
      PROVE  StoryInv'
  <2>1. UNCHANGED <<pc, lease, excluded, attempts, outcome, failedOn>>
    BY <1>2 DEF requestVars
  <2>2. \A x \in Requests : Story(x)'
    BY <2>1 DEF StoryInv, Story
  <2>3. FailuresExact'
    BY <1>2, <2>1 DEF StoryInv, FailuresExact, Uncharged
  <2>. QED  BY <2>2, <2>3 DEF StoryInv
<1>3. (\E i \in ReplicaIds : Registry(i)) \/ UNCHANGED vars
          => UNCHANGED <<requestVars, failures, totals>>
  BY DEF Registry, LeaveRotation, EnterRotation, ReplaceState, replicaVars, vars
<1>. QED  BY <1>1, <1>2, <1>3 DEF Next

\* At first nothing has happened to any request, and every book is empty.
LEMMA StoryInit == Init => StoryInv
<1> SUFFICES ASSUME Init PROVE StoryInv
  OBVIOUS
<1>1. \A r \in Requests :
          /\ pc[r] = "idle" /\ lease[r] = NoState /\ excluded[r] = {} /\ attempts[r] = 0
          /\ outcome[r] = "none" /\ failedOn[r] = {}
  BY DEF Init
<1>2. \A r \in Requests : Story(r)
  BY <1>1 DEF Story, InLine
<1>3. \A s \in States : {r \in Requests : s \in failedOn[r] /\ ~Uncharged(r, s)} = {}
  BY <1>1
<1>4. /\ {r \in Requests : pc[r] = "done" /\ outcome[r] \in {"bad_gateway", "dropped"}} = {}
      /\ {r \in Requests : outcome[r] = "overloaded"} = {}
      /\ {r \in Requests : excluded[r] # {}} = {}
  BY <1>1
<1>5. /\ \A s \in States : failures[s] = 0
      /\ totals.errors = 0 /\ totals.rejected = 0 /\ totals.requests = 0
  BY DEF Init
<1>6. FailuresExact
  BY <1>3, <1>4, <1>5, FS_EmptySet DEF FailuresExact
<1>. QED  BY <1>2, <1>6 DEF StoryInv

\* The whole invariant of the router: slots and leases, the line, the stories.
THEOREM StoryInvariance == Spec => [](IInv /\ LineInv /\ StoryInv)
<1>. QED  BY Invariance, LineInvariance, StoryInit, StoryNext, PTL DEF Spec

\* Every failed attempt is charged exactly once, to the ReplicaState object it
\* failed on, and the router's totals agree with how the requests ended.
THEOREM FailuresAlwaysExact == Spec => []FailuresExact
<1>1. StoryInv => FailuresExact
  BY DEF StoryInv
<1>. QED  BY <1>1, StoryInvariance, PTL

\* The lease of a failed attempt moves to another id, or stays.
LEMMA RetryMoves ==
    ASSUME IInv, NEW r \in Requests, Story(r), pc[r] \in {"sending", "closing"},
           RetryOrGiveUp(r), failedOn' = [failedOn EXCEPT ![r] = failedOn'[r]],
           failedOn'[r] = failedOn[r] \cup {lease[r]}
    PROVE  \/ lease' = lease
           \/ /\ failedOn[r] \subseteq {lease[r]} /\ failedOn'[r] = {lease[r]}
              /\ lease'[r][1] # lease[r][1]
<1>1. TypeOK /\ lease[r] \in States /\ lease[r][1] \in excluded[r]
  BY DEF IInv, LeaseOK, Leased
<1>2. CASE /\ MayRetry(r)
           /\ Reroute(r)
           /\ attempts' = [attempts EXCEPT ![r] = @ + 1]
           /\ pc' = [pc EXCEPT ![r] = "sending"]
           /\ UNCHANGED <<semVars, outcome, rotation, generation, totals>>
  BY <1>1, <1>2, RerouteTold DEF MayRetry
<1>3. CASE Release(r, TRUE)
  BY <1>3 DEF Release
<1>. QED  BY <1>2, <1>3 DEF RetryOrGiveUp

\* A step of r leaves the leases of the others alone, and moves its own only
\* as a retry does.
LEMMA LeaseMoves ==
    ASSUME IInv, LineInv, NEW r \in Requests, Story(r),
           Acquire(r) \/ Cancel(r) \/ Proxy(r), lease[r] # NoState, lease'[r] # lease[r]
    PROVE  /\ pc[r] \in {"sending", "closing"}
           /\ failedOn[r] \subseteq {lease[r]} /\ failedOn'[r] = {lease[r]}
           /\ lease'[r][1] # lease[r][1]
<1>0. failedOn \in [Requests -> SUBSET (States \cup {NoState})]
  BY DEF IInv, TypeOK
<1>1. CASE Acquire(r)
  <2>1. pc[r] \notin {"idle", "woken"}
    BY DEF Story, InLine
  <2>. QED  BY <1>1, <2>1 DEF Acquire, Refuse, Join, Enter, Resume
<1>2. CASE Cancel(r)
  <2>1. lease' = lease
    BY <1>2 DEF Cancel, Abandon, LeaveLine, CancelWoken, CancelSend, Release
  <2>. QED  BY <2>1
<1>3. CASE SendFails(r)
  <2>1. /\ failedOn'[r] = failedOn[r] \cup {lease[r]} /\ pc[r] = "sending" /\ RetryOrGiveUp(r)
        /\ failedOn' = [failedOn EXCEPT ![r] = failedOn'[r]]
    BY <1>0, <1>3 DEF SendFails, Charge
  <2>. QED  BY <2>1, RetryMoves
<1>4. CASE Close5xx(r)
  <2>1. failedOn' = failedOn /\ lease[r] \in failedOn[r] /\ pc[r] = "closing" /\ RetryOrGiveUp(r)
    BY <1>4 DEF Close5xx, Story
  <2>2. /\ failedOn'[r] = failedOn[r] \cup {lease[r]}
        /\ failedOn' = [failedOn EXCEPT ![r] = failedOn'[r]]
    BY <1>0, <2>1
  <2>. QED  BY <2>1, <2>2, RetryMoves
<1>5. CASE Respond(r) \/ Respond5xx(r) \/ StreamEnds(r) \/ ClientLeaves(r) \/ BackendDrops(r)
           \/ FinishCleanup(r)
  <2>1. lease' = lease
    BY <1>5 DEF Respond, Respond5xx, StreamEnds, ClientLeaves, BackendDrops, BeginCleanup,
                FinishCleanup, Release
  <2>. QED  BY <2>1
<1>. QED  BY <1>1, <1>2, <1>3, <1>4, <1>5 DEF Proxy

\* A lease moves at most once, before any response exists, because the replica
\* it leaves has failed, and never to the id it was on, restarted or not.
THEOREM AlwaysRetriedOnceElsewhere == Spec => RetriedOnceElsewhere
<1> DEFINE Moves ==
        \A r \in Requests :
          lease[r] # NoState /\ lease'[r] # lease[r] =>
              /\ pc[r] \in {"sending", "closing"}
              /\ failedOn[r] \subseteq {lease[r]}
              /\ failedOn'[r] = {lease[r]}
              /\ lease'[r][1] # lease[r][1]
<1>1. IInv /\ LineInv /\ StoryInv /\ [Next]_vars => [Moves]_vars
  <2> SUFFICES ASSUME IInv, LineInv, StoryInv, Next PROVE Moves
    OBVIOUS
  <2>1. ASSUME NEW r \in Requests, Acquire(r) \/ Cancel(r) \/ Proxy(r)
        PROVE  Moves
    <3>1. OthersSame(r) /\ Story(r)
      BY <2>1, StepTold DEF StoryInv, Told
    <3>. QED  BY <2>1, <3>1, LeaseMoves DEF OthersSame
  <2>2. CASE \E i \in ReplicaIds : Registry(i)
    <3>1. lease' = lease
      BY <2>2 DEF Registry, LeaveRotation, EnterRotation, ReplaceState, requestVars
    <3>. QED  BY <3>1
  <2>. QED  BY <2>1, <2>2 DEF Next
<1>. QED  BY <1>1, StoryInvariance, PTL DEF Spec, RetriedOnceElsewhere

-----------------------------------------------------------------------------
(* The router implements the abstract admission control                     *)

Abandoned == {r \in Requests : pc[r] = "abandoned"}
Settled   == {r \in Requests : pc[r] = "done" /\ outcome[r] # "overloaded"}
Refused   == {r \in Requests : outcome[r] = "overloaded"}
Places    == <<waiters, Abandoned, LeaseHolders, Settled, Refused>>

Limit == IF HasSemaphore THEN MaxConcurrency ELSE Cardinality(Requests)

With(S, r, in) == IF in THEN S \cup {r} ELSE S \ {r}

\* What clients see of a step of r: only r changes its place among them.
LEMMA PlacesMove ==
    ASSUME NEW r \in Requests, OthersWake(r), OthersSame(r)
    PROVE  /\ Abandoned' = With(Abandoned, r, pc'[r] = "abandoned")
           /\ LeaseHolders' = With(LeaseHolders, r, pc'[r] \in Leased)
           /\ Settled' = With(Settled, r, pc'[r] = "done" /\ outcome'[r] # "overloaded")
           /\ Refused' = With(Refused, r, outcome'[r] = "overloaded")
<1>1. \A x \in Requests \ {r} :
          /\ pc'[x] = "abandoned" <=> pc[x] = "abandoned"
          /\ pc'[x] \in Leased <=> pc[x] \in Leased
          /\ pc'[x] = "done" <=> pc[x] = "done"
          /\ outcome'[x] = outcome[x]
  BY DEF OthersWake, OthersSame, Leased
<1>2. Abandoned' = With(Abandoned, r, pc'[r] = "abandoned")
  BY <1>1 DEF Abandoned, With
<1>3. LeaseHolders' = With(LeaseHolders, r, pc'[r] \in Leased)
  BY <1>1 DEF LeaseHolders, With
<1>4. Settled' = With(Settled, r, pc'[r] = "done" /\ outcome'[r] # "overloaded")
  BY <1>1 DEF Settled, With
<1>5. Refused' = With(Refused, r, outcome'[r] = "overloaded")
  BY <1>1 DEF Refused, With
<1>. QED  BY <1>2, <1>3, <1>4, <1>5

\* Where there is a slot that no lease has, the abstract control has room.
LEMMA Room ==
    ASSUME IInv, LineInv
    PROVE  /\ \A r \in Requests : pc[r] = "woken" => AbstractAdmission!HasRoom
           /\ HasSemaphore /\ permits > 0 => AbstractAdmission!HasRoom
           /\ \A r \in Requests : ~HasSemaphore /\ pc[r] \notin Leased
                                      => AbstractAdmission!HasRoom
           /\ HasSemaphore /\ permits = 0 /\ (\A r \in Requests : pc[r] # "woken")
                  => ~AbstractAdmission!HasRoom
<1>1. AbstractAdmission!HasRoom <=> Cardinality(LeaseHolders) < Limit
  BY DEF AbstractAdmission!HasRoom, Limit, AbstractAdmission!Cardinality, Cardinality
<1>2. /\ IsFiniteSet(LeaseHolders) /\ IsFiniteSet(Claims(pc)) /\ IsFiniteSet(Requests)
      /\ LeaseHolders \subseteq Claims(pc) /\ Claims(pc) \subseteq Requests
  BY RouterAssumption, FS_Subset DEF LeaseHolders, Claims, Claiming
<1>3. /\ Cardinality(LeaseHolders) \in Nat /\ Cardinality(Claims(pc)) \in Nat
      /\ Cardinality(Requests) \in Nat
  BY <1>2, FS_CardinalityType
<1>4. /\ permits \in Nat /\ MaxConcurrency \in Nat
      /\ HasSemaphore => permits + Cardinality(Claims(pc)) = MaxConcurrency
  BY RouterAssumption DEF IInv, TypeOK, SlotsConserved, Claims
<1>5. ASSUME NEW r \in Requests, NEW S \in SUBSET Requests, r \in S, r \notin LeaseHolders,
             LeaseHolders \subseteq S
      PROVE  Cardinality(LeaseHolders) < Cardinality(S) /\ Cardinality(S) \in Nat
  <2>1. IsFiniteSet(S) /\ LeaseHolders # S
    BY <1>2, <1>5, FS_Subset
  <2>. QED  BY <1>5, <2>1, FS_Subset, FS_CardinalityType
<1>6. Cardinality(LeaseHolders) <= Cardinality(Claims(pc))
  BY <1>2, FS_Subset
<1>7. ASSUME NEW r \in Requests, pc[r] = "woken"
      PROVE  Cardinality(LeaseHolders) < Limit
  <2>1. r \notin LeaseHolders /\ r \in Claims(pc) /\ r \in Requests
    BY <1>7 DEF LeaseHolders, Claims, Claiming, Leased
  <2>2. CASE HasSemaphore
    <3>1. Cardinality(LeaseHolders) < Cardinality(Claims(pc))
      BY <1>2, <1>5, <2>1
    <3>. QED  BY <1>3, <1>4, <2>2, <3>1 DEF Limit
  <2>3. CASE ~HasSemaphore
    <3>1. Cardinality(LeaseHolders) < Cardinality(Requests)
      BY <1>2, <1>5, <2>1
    <3>. QED  BY <2>3, <3>1 DEF Limit
  <2>. QED  BY <2>2, <2>3
<1>8. HasSemaphore /\ permits > 0 => Cardinality(LeaseHolders) < Limit
  BY <1>3, <1>4, <1>6 DEF Limit
<1>9. ASSUME NEW r \in Requests, ~HasSemaphore, pc[r] \notin Leased
      PROVE  Cardinality(LeaseHolders) < Limit
  <2>1. r \notin LeaseHolders
    BY <1>9 DEF LeaseHolders
  <2>2. Cardinality(LeaseHolders) < Cardinality(Requests)
    BY <1>2, <1>5, <2>1
  <2>. QED  BY <1>9, <2>2 DEF Limit
<1>10. ASSUME HasSemaphore, permits = 0, \A r \in Requests : pc[r] # "woken"
       PROVE  ~(Cardinality(LeaseHolders) < Limit)
  <2>1. LeaseHolders = Claims(pc)
    BY <1>10 DEF LeaseHolders, Claims, Claiming
  <2>2. Limit = MaxConcurrency
    BY <1>10 DEF Limit
  <2>. QED  BY <1>3, <1>4, <1>10, <2>1, <2>2
<1>. QED  BY <1>1, <1>7, <1>8, <1>9, <1>10

\* The line as the abstract control sees it.
LEMMA LineSeen ==
    ASSUME IInv, LineInv
    PROVE  /\ Range(waiters) = {x \in Requests : pc[x] \in InLine}
           /\ AbstractAdmission!NobodyWaits <=> Range(waiters) \subseteq Abandoned
           /\ HasSemaphore /\ Locked => AbstractAdmission!MustWait
           /\ ~HasSemaphore \/ ~Locked => AbstractAdmission!NobodyWaits
<1>1. Range(waiters) = {x \in Requests : pc[x] \in InLine}
  BY DEF Range, LineInv, QueueExact
<1>2. AbstractAdmission!NobodyWaits <=> Range(waiters) \subseteq Abandoned
  BY DEF AbstractAdmission!NobodyWaits, Abandoned, AbstractAdmission!Range, Range
<1>3. \A x \in Range(waiters) : \E i \in DOMAIN waiters : waiters[i] = x
  BY DEF Range
<1>4. \A i \in DOMAIN waiters : waiters[i] \in Range(waiters)
  BY DEF Range
<1>5. ASSUME HasSemaphore, Locked PROVE AbstractAdmission!MustWait
  <2>1. CASE \E i \in DOMAIN waiters : pc[waiters[i]] # "abandoned"
    BY <1>2, <1>4, <2>1 DEF Abandoned, AbstractAdmission!MustWait
  <2>2. CASE permits = 0
    <3>1. CASE \A x \in Requests : pc[x] # "woken"
      BY <1>5, <2>2, <3>1, Room DEF AbstractAdmission!MustWait
    <3>2. CASE \E x \in Requests : pc[x] = "woken"
      BY <1>1, <1>2, <3>2 DEF Abandoned, InLine, AbstractAdmission!MustWait
    <3>. QED  BY <3>1, <3>2
  <2>. QED  BY <1>5, <2>1, <2>2 DEF Locked
<1>6. ASSUME ~HasSemaphore \/ ~Locked PROVE AbstractAdmission!NobodyWaits
  <2>1. CASE ~Locked
    BY <1>1, <1>2, <1>3, <2>1 DEF Locked, Abandoned
  <2>2. CASE ~HasSemaphore
    <3>1. waiters = <<>> /\ DOMAIN <<>> = {}
      BY <2>2 DEF LineInv
    <3>. QED  BY <1>2, <3>1 DEF Range
  <2>. QED  BY <1>6, <2>1, <2>2
<1>. QED  BY <1>1, <1>2, <1>5, <1>6

\* Who comes next: a request that finds nobody waiting, or the woken one.
LEMMA NextInLine ==
    ASSUME IInv, LineInv, NEW r \in Requests, pc[r] = "woken", ResumesNext(r)
    PROVE  AbstractAdmission!IsNext(r)
<1>1. PICK i \in DOMAIN waiters :
          waiters[i] = r /\ \A j \in 1..(i - 1) : pc[waiters[j]] # "woken"
  BY DEF ResumesNext
<1>2. waiters \in Seq(Requests) /\ InOrder(pc, waiters)
  BY DEF IInv, TypeOK, LineInv
<1>3. i \in 1..Len(waiters) /\ DOMAIN waiters = 1..Len(waiters) /\ Len(waiters) \in Nat
  BY <1>1, <1>2, LenProperties
<1>4. ASSUME NEW j \in 1..(i - 1)
      PROVE  waiters[j] \in Abandoned
  <2>1. j \in DOMAIN waiters /\ j < i
    BY <1>3
  <2>2. pc[waiters[j]] # "queued" /\ pc[waiters[j]] # "woken"
    BY <1>1, <1>2, <2>1 DEF InOrder
  <2>3. waiters[j] \in Range(waiters)
    BY <2>1 DEF Range
  <2>. QED  BY <2>2, <2>3, LineSeen DEF Abandoned, InLine
<1>5. r \notin Abandoned
  BY DEF Abandoned
<1>. QED  BY <1>1, <1>4, <1>5 DEF AbstractAdmission!IsNext, Abandoned

\* A request that has not come yet is in none of the abstract places.
LEMMA IdleIsFresh ==
    ASSUME IInv, LineInv, NEW r \in Requests, Story(r), pc[r] = "idle"
    PROVE  AbstractAdmission!Fresh(r) /\ r \notin Range(waiters)
<1>1. r \notin Range(waiters)
  BY LineSeen DEF InLine
<1>2. r \notin LeaseHolders /\ r \notin Settled /\ r \notin Refused
  BY DEF LeaseHolders, Settled, Refused, Leased, Story
<1>. QED
  BY <1>1, <1>2 DEF AbstractAdmission!Fresh, Settled, Refused, AbstractAdmission!Range, Range

\* Leaving the line is what the abstract control calls taking out.
LEMMA StopsIsTakeOut ==
    ASSUME NEW r, \/ StopWaiting(r)
                  \/ r \notin Range(waiters) /\ UNCHANGED waiters
    PROVE  AbstractAdmission!TakeOut(r)
BY DEF StopWaiting, AbstractAdmission!TakeOut, AbstractAdmission!RemoveAt, RemoveAt,
       AbstractAdmission!Range, Range

\* The steps of the abstract control, said of the sets that the router's
\* variables are mapped to.
LEMMA AbstractSteps ==
    ASSUME NEW r \in Requests
    PROVE  /\ /\ AbstractAdmission!Fresh(r) /\ AbstractAdmission!MustWait
              /\ Len(waiters) < MaxQueueDepth /\ waiters' = Append(waiters, r)
              /\ UNCHANGED <<Abandoned, LeaseHolders, Settled, Refused>>
              => AbstractAdmission!Join(r)
           /\ /\ AbstractAdmission!Fresh(r) /\ AbstractAdmission!MustWait
              /\ Len(waiters) >= MaxQueueDepth /\ Refused' = Refused \cup {r}
              /\ UNCHANGED <<waiters, Abandoned, LeaseHolders, Settled>>
              => AbstractAdmission!Refuse(r)
           /\ /\ AbstractAdmission!IsNext(r) /\ AbstractAdmission!HasRoom
              /\ AbstractAdmission!TakeOut(r) /\ LeaseHolders' = LeaseHolders \cup {r}
              /\ UNCHANGED <<Abandoned, Settled, Refused>>
              => AbstractAdmission!Serve(r)
           /\ /\ AbstractAdmission!IsNext(r) /\ AbstractAdmission!HasRoom
              /\ AbstractAdmission!TakeOut(r) /\ Settled' = Settled \cup {r}
              /\ UNCHANGED <<Abandoned, LeaseHolders, Refused>>
              => AbstractAdmission!TurnAway(r)
           /\ /\ r \in Range(waiters) \ Abandoned /\ Abandoned' = Abandoned \cup {r}
              /\ UNCHANGED <<waiters, LeaseHolders, Settled, Refused>>
              => AbstractAdmission!GiveUp(r)
           /\ /\ r \in Abandoned /\ AbstractAdmission!TakeOut(r)
              /\ Abandoned' = Abandoned \ {r} /\ Settled' = Settled \cup {r}
              /\ UNCHANGED <<LeaseHolders, Refused>>
              => AbstractAdmission!Depart(r)
           /\ /\ r \in LeaseHolders /\ LeaseHolders' = LeaseHolders \ {r}
              /\ Settled' = Settled \cup {r} /\ UNCHANGED <<waiters, Abandoned, Refused>>
              => AbstractAdmission!Finish(r)
BY DEF Abandoned, Settled, Refused, AbstractAdmission!Join, AbstractAdmission!Refuse,
       AbstractAdmission!Serve, AbstractAdmission!TurnAway, AbstractAdmission!GiveUp,
       AbstractAdmission!Depart, AbstractAdmission!Finish, AbstractAdmission!Range, Range

\* A step of the end of acquire(), for the request that comes next.
LEMMA ServesOrTurnsAway ==
    ASSUME NEW r \in Requests, AbstractAdmission!IsNext(r), AbstractAdmission!HasRoom,
           AbstractAdmission!TakeOut(r), pc[r] \in {"idle", "woken"}, outcome[r] = "none",
           OthersWake(r), OthersSame(r),
           \/ pc'[r] = "sending" /\ outcome'[r] = "none"
           \/ pc'[r] = "done" /\ outcome'[r] # "overloaded"
    PROVE  AbstractAdmission!Next
<1>1. r \notin Abandoned /\ r \notin LeaseHolders /\ r \notin Settled /\ r \notin Refused
  BY DEF Abandoned, LeaseHolders, Settled, Refused, Leased
<1>2. CASE pc'[r] = "sending" /\ outcome'[r] = "none"
  <2>1. /\ pc'[r] # "abandoned" /\ pc'[r] \in Leased
        /\ pc'[r] # "done" /\ outcome'[r] # "overloaded"
    BY <1>2 DEF Leased
  <2>2. /\ LeaseHolders' = LeaseHolders \cup {r}
        /\ UNCHANGED <<Abandoned, Settled, Refused>>
    BY <1>1, <2>1, PlacesMove DEF With
  <2>. QED  BY <2>2, AbstractSteps DEF AbstractAdmission!Next
<1>3. CASE pc'[r] = "done" /\ outcome'[r] # "overloaded"
  <2>1. pc'[r] # "abandoned" /\ pc'[r] \notin Leased
    BY <1>3 DEF Leased
  <2>2. /\ Settled' = Settled \cup {r}
        /\ UNCHANGED <<Abandoned, LeaseHolders, Refused>>
    BY <1>1, <1>3, <2>1, PlacesMove DEF With
  <2>. QED  BY <2>2, AbstractSteps DEF AbstractAdmission!Next
<1>. QED  BY <1>2, <1>3

\* release() is the end of a request that is being served.
LEMMA ReleaseFinishes ==
    ASSUME NEW r \in Requests, pc[r] \in Leased, pc'[r] = "done", outcome[r] # "overloaded",
           outcome'[r] # "overloaded", OthersWake(r), OthersSame(r), UNCHANGED waiters
    PROVE  AbstractAdmission!Next
<1>1. /\ r \notin Abandoned /\ r \in LeaseHolders /\ r \notin Refused
      /\ pc'[r] # "abandoned" /\ pc'[r] \notin Leased
  BY DEF Abandoned, LeaseHolders, Refused, Leased
<1>2. /\ LeaseHolders' = LeaseHolders \ {r} /\ Settled' = Settled \cup {r}
      /\ UNCHANGED <<Abandoned, Refused>>
  BY <1>1, PlacesMove DEF With
<1>. QED  BY <1>1, <1>2, AbstractSteps DEF AbstractAdmission!Next

\* While a request is being served, no client sees a difference.
LEMMA ServedStays ==
    ASSUME NEW r \in Requests, pc[r] \in Leased, pc'[r] \in Leased, outcome[r] # "overloaded",
           outcome'[r] # "overloaded", OthersWake(r), OthersSame(r), UNCHANGED waiters
    PROVE  UNCHANGED Places
<1>1. /\ r \notin Abandoned /\ r \in LeaseHolders /\ r \notin Refused /\ r \notin Settled
      /\ pc'[r] # "abandoned" /\ pc'[r] # "done"
  BY DEF Abandoned, LeaseHolders, Refused, Settled, Leased
<1>2. LeaseHolders' = LeaseHolders /\ UNCHANGED <<Abandoned, Refused, Settled>>
  BY <1>1, PlacesMove DEF With
<1>. QED  BY <1>2 DEF Places

\* Every step of a request is a step of the abstract control, or none.
LEMMA AdmissionStep ==
    ASSUME IInv, LineInv, NEW r \in Requests, Story(r), Acquire(r) \/ Cancel(r) \/ Proxy(r)
    PROVE  AbstractAdmission!Next \/ UNCHANGED Places
<1> DEFINE Goal == AbstractAdmission!Next \/ UNCHANGED Places
<1>0. OthersWake(r) /\ OthersSame(r) /\ Story(r)'
  BY StepMoves, StepTold DEF Told
<1>1. /\ pc \in [Requests -> PCs] /\ outcome \in [Requests -> Outcomes] /\ permits \in Nat
      /\ waiting = Len(waiters) /\ waiting \in Int
  BY DEF IInv, TypeOK, LineInv, QueueExact
<1>2. pc[r] \notin {"cleanup", "done"} => outcome[r] = "none"
  BY DEF Story
<1>3. pc'[r] \notin {"cleanup", "done"} => outcome'[r] = "none"
  BY <1>0 DEF Story
<1>4. ASSUME pc[r] = "idle"
      PROVE  /\ r \notin Abandoned /\ r \notin LeaseHolders /\ r \notin Settled
             /\ r \notin Refused
  BY <1>2, <1>4 DEF Abandoned, LeaseHolders, Settled, Refused, Leased
<1>5. CASE Refuse(r)
  <2>1. /\ pc[r] = "idle" /\ HasSemaphore /\ Locked /\ QueueFull
        /\ pc'[r] = "done" /\ outcome'[r] = "overloaded" /\ waiters' = waiters
    BY <1>1, <1>5 DEF Refuse, semVars
  <2>2. /\ Refused' = Refused \cup {r}
        /\ UNCHANGED <<Abandoned, LeaseHolders, Settled>>
    <3>1. pc'[r] # "abandoned" /\ pc'[r] \notin Leased
      BY <2>1 DEF Leased
    <3>. QED  BY <1>0, <1>4, <2>1, <3>1, PlacesMove DEF With
  <2>3. Len(waiters) >= MaxQueueDepth
    BY <1>1, <2>1 DEF QueueFull
  <2>4. AbstractAdmission!Fresh(r) /\ AbstractAdmission!MustWait
    BY <2>1, IdleIsFresh, LineSeen
  <2>. QED  BY <2>1, <2>2, <2>3, <2>4, AbstractSteps DEF AbstractAdmission!Next
<1>6. CASE Join(r)
  <2>1. /\ pc[r] = "idle" /\ HasSemaphore /\ Locked /\ ~QueueFull
        /\ pc'[r] = "queued" /\ outcome'[r] = "none" /\ waiters' = Append(waiters, r)
    BY <1>1, <1>2, <1>6 DEF Join
  <2>2. UNCHANGED <<Abandoned, LeaseHolders, Settled, Refused>>
    <3>1. /\ pc'[r] # "abandoned" /\ pc'[r] \notin Leased /\ pc'[r] # "done"
          /\ outcome'[r] # "overloaded"
      BY <2>1 DEF Leased
    <3>2. /\ r \notin Abandoned /\ r \notin LeaseHolders /\ r \notin Settled
          /\ r \notin Refused
      BY <1>4, <2>1
    <3>. QED  BY <1>0, <3>1, <3>2, PlacesMove DEF With
  <2>3. Len(waiters) < MaxQueueDepth
    BY <1>1, <2>1, RouterAssumption DEF QueueFull
  <2>4. AbstractAdmission!Fresh(r) /\ AbstractAdmission!MustWait
    BY <2>1, IdleIsFresh, LineSeen
  <2>. QED  BY <2>1, <2>2, <2>3, <2>4, AbstractSteps DEF AbstractAdmission!Next
<1>7. ASSUME NEW sem, LeaseReplica(r, sem), outcome[r] = "none", pc'[r] \in {"sending", "done"}
      PROVE  \/ pc'[r] = "sending" /\ outcome'[r] = "none"
             \/ pc'[r] = "done" /\ outcome'[r] # "overloaded"
  <2>1. outcome' = outcome \/ outcome' = [outcome EXCEPT ![r] = "no_replica"]
    BY <1>7 DEF LeaseReplica
  <2>2. outcome'[r] \in {"none", "no_replica"}
    BY <1>1, <1>7, <2>1
  <2>. QED  BY <1>3, <1>7, <2>2
<1>8. CASE Enter(r)
  <2>1. pc[r] = "idle" /\ UNCHANGED waiters /\ (~HasSemaphore \/ (HasSemaphore /\ ~Locked))
    BY <1>8 DEF Enter
  <2>2. AbstractAdmission!NobodyWaits /\ AbstractAdmission!Fresh(r) /\ r \notin Range(waiters)
    BY <2>1, LineSeen, IdleIsFresh
  <2>3. AbstractAdmission!IsNext(r) /\ AbstractAdmission!TakeOut(r)
    BY <2>1, <2>2, StopsIsTakeOut DEF AbstractAdmission!IsNext
  <2>4. AbstractAdmission!HasRoom
    <3>1. ~Locked => permits > 0
      BY <1>1 DEF Locked
    <3>2. pc[r] \notin Leased
      BY <2>1 DEF Leased
    <3>. QED  BY <2>1, <3>1, <3>2, Room
  <2>5. \/ pc'[r] = "sending" /\ outcome'[r] = "none"
        \/ pc'[r] = "done" /\ outcome'[r] # "overloaded"
    BY <1>1, <1>2, <1>7, <1>8, <2>1, EndOfAcquire DEF IInv
  <2>. QED  BY <1>0, <1>2, <2>1, <2>3, <2>4, <2>5, ServesOrTurnsAway
<1>9. CASE Resume(r)
  <2>1. pc[r] = "woken" /\ ResumesNext(r) /\ StopWaiting(r)
    BY <1>9 DEF Resume
  <2>2. AbstractAdmission!IsNext(r) /\ AbstractAdmission!TakeOut(r)
        /\ AbstractAdmission!HasRoom
    BY <2>1, NextInLine, StopsIsTakeOut, Room
  <2>3. \/ pc'[r] = "sending" /\ outcome'[r] = "none"
        \/ pc'[r] = "done" /\ outcome'[r] # "overloaded"
    BY <1>1, <1>2, <1>7, <1>9, <2>1, EndOfAcquire DEF IInv
  <2>. QED  BY <1>0, <1>2, <2>1, <2>2, <2>3, ServesOrTurnsAway
<1>10. CASE Abandon(r)
  <2>1. /\ pc[r] = "queued" /\ pc'[r] = "abandoned" /\ waiters' = waiters
        /\ outcome[r] = "none" /\ outcome'[r] = "none"
    BY <1>1, <1>2, <1>10 DEF Abandon, semVars
  <2>2. /\ r \notin LeaseHolders /\ r \notin Settled /\ r \notin Refused
        /\ r \in Range(waiters) \ Abandoned
    BY <2>1, LineSeen DEF LeaseHolders, Settled, Refused, Leased, Abandoned, InLine
  <2>3. /\ Abandoned' = Abandoned \cup {r}
        /\ UNCHANGED <<LeaseHolders, Settled, Refused>>
    <3>1. pc'[r] # "done" /\ pc'[r] \notin Leased
      BY <2>1 DEF Leased
    <3>. QED  BY <1>0, <2>1, <2>2, <3>1, PlacesMove DEF With
  <2>. QED  BY <2>1, <2>2, <2>3, AbstractSteps DEF AbstractAdmission!Next
<1>11. CASE LeaveLine(r)
  <2>1. /\ pc[r] = "abandoned" /\ pc'[r] = "done" /\ StopWaiting(r)
        /\ outcome[r] = "none" /\ outcome'[r] = "cancelled"
    BY <1>1, <1>2, <1>11 DEF LeaveLine
  <2>2. /\ r \notin LeaseHolders /\ r \notin Settled /\ r \notin Refused /\ r \in Abandoned
    BY <2>1 DEF LeaseHolders, Settled, Refused, Leased, Abandoned
  <2>3. /\ Abandoned' = Abandoned \ {r} /\ Settled' = Settled \cup {r}
        /\ UNCHANGED <<LeaseHolders, Refused>>
    <3>1. pc'[r] # "abandoned" /\ pc'[r] \notin Leased /\ outcome'[r] # "overloaded"
      BY <2>1 DEF Leased
    <3>. QED  BY <1>0, <2>1, <2>2, <3>1, PlacesMove DEF With
  <2>. QED  BY <2>1, <2>2, <2>3, StopsIsTakeOut, AbstractSteps DEF AbstractAdmission!Next
<1>12. CASE CancelWoken(r)
  <2>1. pc[r] = "woken" /\ ResumesNext(r) /\ StopWaiting(r) /\ outcome'[r] = "cancelled"
    BY <1>1, <1>12 DEF CancelWoken
  <2>2. AbstractAdmission!IsNext(r) /\ AbstractAdmission!TakeOut(r)
        /\ AbstractAdmission!HasRoom
    BY <2>1, NextInLine, StopsIsTakeOut, Room
  <2>3. pc'[r] = "done"
    BY <1>12, CancelWokenMoves DEF IInv
  <2>. QED  BY <1>0, <1>2, <2>1, <2>2, <2>3, ServesOrTurnsAway
<1>13. ASSUME NEW failed, Release(r, failed), pc[r] \in {"sending", "closing", "cleanup"},
              outcome'[r] # "overloaded"
       PROVE  Goal
  <2>1. pc[r] \in Leased /\ outcome[r] # "overloaded"
    BY <1>2, <1>13 DEF Leased, Story
  <2>2. pc'[r] = "done" /\ UNCHANGED waiters
    BY <1>13, <2>1, ReleaseMoves DEF IInv, Release
  <2>. QED  BY <1>0, <1>13, <2>1, <2>2, ReleaseFinishes
<1>14. ASSUME pc[r] \in {"sending", "closing", "streaming"}, pc'[r] \in Leased,
              outcome'[r] # "overloaded", UNCHANGED waiters
       PROVE  Goal
  <2>1. pc[r] \in Leased /\ outcome[r] # "overloaded"
    BY <1>2, <1>14 DEF Leased
  <2>. QED  BY <1>0, <1>14, <2>1, ServedStays
<1>15. CASE CancelSend(r)
  <2>1. outcome'[r] = "cancelled"
    BY <1>1, <1>15 DEF CancelSend
  <2>. QED  BY <1>13, <1>15, <2>1 DEF CancelSend
<1>16. CASE FinishCleanup(r)
  <2>1. outcome'[r] \in {"served", "cancelled", "dropped"} /\ pc[r] = "cleanup"
    BY <1>16 DEF FinishCleanup, Story
  <2>. QED  BY <1>13, <1>16, <2>1 DEF FinishCleanup
<1>17. ASSUME pc[r] \in {"sending", "closing"}, RetryOrGiveUp(r)
       PROVE  Goal
  <2>1. CASE pc' = [pc EXCEPT ![r] = "sending"] /\ UNCHANGED <<semVars, outcome>>
    <3>1. pc'[r] \in Leased /\ outcome'[r] # "overloaded" /\ UNCHANGED waiters
      BY <1>1, <1>2, <1>17, <2>1 DEF Leased, semVars
    <3>. QED  BY <1>14, <1>17, <3>1
  <2>2. CASE Release(r, TRUE) /\ outcome' = [outcome EXCEPT ![r] = "bad_gateway"]
    <3>1. outcome'[r] # "overloaded"
      BY <1>1, <2>2
    <3>. QED  BY <1>13, <1>17, <2>2, <3>1
  <2>. QED  BY <1>17, <2>1, <2>2 DEF RetryOrGiveUp
<1>18. CASE SendFails(r) \/ Close5xx(r)
  BY <1>17, <1>18 DEF SendFails, Close5xx
<1>19. CASE Respond(r) \/ Respond5xx(r)
  <2>1. pc[r] = "sending" /\ pc'[r] \in Leased /\ outcome' = outcome /\ UNCHANGED waiters
    BY <1>1, <1>19 DEF Respond, Respond5xx, Leased, semVars
  <2>. QED  BY <1>2, <1>14, <2>1
<1>20. ASSUME NEW how \in {"served", "cancelled", "dropped"}, BeginCleanup(r, how)
       PROVE  Goal
  <2>1. /\ pc[r] = "streaming" /\ pc'[r] \in Leased /\ outcome'[r] # "overloaded"
        /\ UNCHANGED waiters
    BY <1>1, <1>20 DEF BeginCleanup, Leased, semVars
  <2>. QED  BY <1>14, <2>1
<1>21. CASE StreamEnds(r) \/ ClientLeaves(r) \/ BackendDrops(r)
  BY <1>20, <1>21 DEF StreamEnds, ClientLeaves, BackendDrops
<1>. QED
  BY <1>5, <1>6, <1>8, <1>9, <1>10, <1>11, <1>12, <1>15, <1>16, <1>18, <1>19, <1>21
     DEF Acquire, Cancel, Proxy

\* At first nobody is anywhere.
LEMMA AdmissionInit == Init => AbstractAdmission!Init
<1> SUFFICES ASSUME Init PROVE AbstractAdmission!Init
  OBVIOUS
<1>1. waiters = <<>> /\ \A r \in Requests : pc[r] = "idle" /\ outcome[r] = "none"
  BY DEF Init
<1>2. /\ {r \in Requests : pc[r] = "abandoned"} = {}
      /\ LeaseHolders = {}
      /\ {r \in Requests : pc[r] = "done" /\ outcome[r] # "overloaded"} = {}
      /\ {r \in Requests : outcome[r] = "overloaded"} = {}
  BY <1>1 DEF LeaseHolders, Leased
<1>. QED  BY <1>1, <1>2 DEF AbstractAdmission!Init

\* The router implements the abstract admission control: at most
\* max_concurrency requests are served at a time, in the order they came, and
\* one is refused only while the line is full and nobody could be served.
THEOREM AdmissionImplemented == Spec => ImplementsAdmission
<1>1. IInv /\ LineInv /\ StoryInv /\ [Next]_vars
          => [AbstractAdmission!Next]_(AbstractAdmission!vars)
  <2> SUFFICES ASSUME IInv, LineInv, StoryInv, [Next]_vars
               PROVE  AbstractAdmission!Next \/ UNCHANGED AbstractAdmission!vars
    OBVIOUS
  <2>1. UNCHANGED Places => UNCHANGED AbstractAdmission!vars
    BY DEF Places, Abandoned, Settled, Refused, AbstractAdmission!vars
  <2>2. ASSUME NEW r \in Requests, Acquire(r) \/ Cancel(r) \/ Proxy(r)
        PROVE  AbstractAdmission!Next \/ UNCHANGED Places
    BY <2>2, AdmissionStep DEF StoryInv
  <2>3. ASSUME UNCHANGED <<pc, waiters, outcome>>
        PROVE  UNCHANGED Places
    BY <2>3 DEF Places, Abandoned, LeaseHolders, Settled, Refused
  <2>4. (\E i \in ReplicaIds : Registry(i)) \/ UNCHANGED vars
            => UNCHANGED <<pc, waiters, outcome>>
    BY DEF Registry, LeaveRotation, EnterRotation, ReplaceState, semVars, requestVars, vars
  <2>. QED  BY <2>1, <2>2, <2>3, <2>4 DEF Next
<1>. QED
  BY <1>1, AdmissionInit, StoryInvariance, PTL
     DEF Spec, ImplementsAdmission, AbstractAdmission!Spec
=============================================================================
