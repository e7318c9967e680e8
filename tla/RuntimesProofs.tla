--------------------------- MODULE RuntimesProofs ---------------------------
(***************************************************************************)
(* For any number of nodes, engines, commands and experiments: what is      *)
(* measured is what the agent tried out, on every node; the recipe on       *)
(* record is that of the images, however long the line of accepted          *)
(* experiments they descend from; and the nodes run one engine version.     *)
(***************************************************************************)
EXTENDS Runtimes, SequenceTheorems, FiniteSetTheorems, TLAPS

\* What an image, a draft and a line of the experiment store can be.
Contents == [engine : Engines, steps : Seq(Commands \X Nat)]
Drafts   == [engine : Engines, parent : Nat, image : Contents, commands : Seq(Commands)]

IsParent(p) == p = 0 \/ (p \in DOMAIN results /\ results[p].accepted)

IsResult(q) ==
    /\ q.images \in Seq(Contents) /\ q.applied \in Seq(Commands)
    /\ \A n \in 1..Len(q.images) : CommandsOf(q.images[n]) = q.applied
    /\ q.accepted => Len(q.images) = Nodes /\ q.engine \in Engines

HistoryOK ==
    /\ \E S : results \in Seq(S)
    /\ \A r \in DOMAIN results : IsResult(results[r])

ToolOK == tool # None => phase = "turn" /\ tool[1] \in Commands

\* The draft is its parent with the edits that worked.
DraftOK ==
    phase = "turn" =>
        /\ draft \in Drafts /\ IsParent(draft.parent)
        /\ CommandsOf(draft.image) = Inherited(draft.parent) \o draft.commands

Proposed == phase \in {"build", "measure"} \/ (phase = "turn" /\ proposal # None)

\* A proposal is what the agent has seen, less what it inherits.
ProposalOK ==
    Proposed =>
        /\ proposal.engine \in Engines /\ IsParent(proposal.parent)
        /\ proposal.commands \in Seq(Commands)
        /\ proposal.saw # None => proposal.saw = Applied

\* On the node at work: what is done and what is left are the recipe.
BuildOK ==
    phase = "build" =>
        /\ images \in Seq(Contents) /\ Len(images) <= Nodes
        /\ \A n \in 1..Len(images) : CommandsOf(images[n]) = Applied
        /\ image \in Contents /\ left \in Seq(Commands)
        /\ CommandsOf(image) \o left = Applied

MeasureOK ==
    phase = "measure" =>
        /\ images \in Seq(Contents) /\ Len(images) = Nodes
        /\ \A n \in 1..Len(images) : /\ CommandsOf(images[n]) = Applied
                                     /\ Version(images[n]) = versions[proposal.engine]

IInv ==
    /\ phase \in {"idle", "turn", "build", "measure"} /\ index \in Nat
    /\ HistoryOK /\ ToolOK /\ DraftOK /\ ProposalOK /\ BuildOK /\ MeasureOK

-----------------------------------------------------------------------------
(* Lemmas about images *)

\* The prepared image of an engine has had no command.
LEMMA BaseFacts ==
    ASSUME NEW e \in Engines
    PROVE  Base(e) \in Contents /\ CommandsOf(Base(e)) = << >>
<1>1. << >> \in Seq(Commands \X Nat)
  BY EmptySeq
<1>2. Base(e).steps = << >>
  BY DEF Base
<1>3. CommandsOf(Base(e)) = [k \in {} |-> Base(e).steps[k][1]]
  BY <1>2 DEF CommandsOf
<1>. QED  BY <1>1, <1>3 DEF Base, Contents

\* The commands of an image are a sequence of its own length.
LEMMA CommandsOfFacts ==
    ASSUME NEW i \in Contents
    PROVE  /\ i.steps \in Seq(Commands \X Nat)
           /\ CommandsOf(i) \in Seq(Commands) /\ Len(CommandsOf(i)) = Len(i.steps)
           /\ \A k \in 1..Len(i.steps) : CommandsOf(i)[k] = i.steps[k][1]
<1> DEFINE s == i.steps
<1>1. s \in Seq(Commands \X Nat)
  BY DEF Contents
<1>2. Len(s) \in Nat /\ DOMAIN s = 1..Len(s)
  BY <1>1, LenProperties
<1>3. CommandsOf(i) = [k \in 1..Len(s) |-> s[k][1]]
  BY <1>2 DEF CommandsOf
<1>4. \A k \in 1..Len(s) : s[k][1] \in Commands
  <2> TAKE k \in 1..Len(s)
  <2> HIDE DEF s
  <2>1. s[k] \in Commands \X Nat
    BY <1>1, ElementOfSeq
  <2>. QED  BY <2>1
<1>. QED  BY <1>1, <1>2, <1>3, <1>4

\* Running a command adds it at the end.
LEMMA RanFacts ==
    ASSUME NEW i \in Contents, NEW c \in Commands, index \in Nat
    PROVE  Ran(i, c) \in Contents /\ CommandsOf(Ran(i, c)) = CommandsOf(i) \o <<c>>
<1> DEFINE s == i.steps
           j == Ran(i, c)
           t == Append(s, <<c, index>>)
           left_ == CommandsOf(j)
           right_ == CommandsOf(i) \o <<c>>
<1>1. s \in Seq(Commands \X Nat) /\ Len(s) \in Nat
  BY CommandsOfFacts, LenProperties
<1>2. <<c, index>> \in Commands \X Nat
  OBVIOUS
<1>3. /\ t \in Seq(Commands \X Nat) /\ Len(t) = Len(s) + 1
      /\ \A k \in 1..Len(s) : t[k] = s[k]
      /\ t[Len(s) + 1] = <<c, index>>
  <2> HIDE DEF s
  <2>. QED  BY <1>1, <1>2, AppendProperties
<1>4. j \in Contents /\ j.steps = t
  <2>1. i.engine \in Engines /\ i = [engine |-> i.engine, steps |-> s]
    BY DEF Contents
  <2>2. j = [i EXCEPT !.steps = t]
    BY DEF Ran
  <2>3. j = [engine |-> i.engine, steps |-> t]
    <3> HIDE DEF s, t, j
    <3>. QED  BY <2>1, <2>2
  <2> HIDE DEF t, j
  <2>. QED  BY <1>3, <2>1, <2>3 DEF Contents
<1>5. /\ left_ \in Seq(Commands) /\ Len(left_) = Len(s) + 1
      /\ \A k \in 1..(Len(s) + 1) : left_[k] = t[k][1]
  <2> HIDE DEF j, t, s
  <2>. QED  BY <1>3, <1>4, CommandsOfFacts
<1>6. /\ CommandsOf(i) \in Seq(Commands) /\ Len(CommandsOf(i)) = Len(s)
      /\ \A k \in 1..Len(s) : CommandsOf(i)[k] = s[k][1]
  BY CommandsOfFacts
<1>7. <<c>> \in Seq(Commands) /\ Len(<<c>>) = 1 /\ <<c>>[1] = c
  OBVIOUS
<1>8. /\ right_ \in Seq(Commands) /\ Len(right_) = Len(s) + 1
      /\ \A k \in 1..(Len(s) + 1) :
            right_[k] = IF k <= Len(s) THEN s[k][1] ELSE c
  <2> HIDE DEF s
  <2>1. /\ right_ \in Seq(Commands) /\ Len(right_) = Len(s) + 1
        /\ \A k \in 1..(Len(s) + 1) :
              right_[k] = IF k <= Len(s) THEN CommandsOf(i)[k] ELSE <<c>>[k - Len(s)]
    BY <1>6, <1>7, ConcatProperties
  <2>2. ASSUME NEW k \in 1..(Len(s) + 1)
        PROVE  right_[k] = IF k <= Len(s) THEN s[k][1] ELSE c
    <3>1. k <= Len(s) => k \in 1..Len(s)
      BY <1>1
    <3>2. ~(k <= Len(s)) => k - Len(s) = 1
      BY <1>1
    <3>. QED  BY <1>6, <1>7, <2>1, <3>1, <3>2
  <2>. QED  BY <2>1, <2>2
<1>9. \A k \in 1..(Len(s) + 1) : left_[k] = right_[k]
  <2> TAKE k \in 1..(Len(s) + 1)
  <2> HIDE DEF s, t, left_, right_
  <2>1. CASE k \in 1..Len(s)
    <3>1. t[k] = s[k] /\ k <= Len(s)
      BY <1>1, <1>3, <2>1
    <3>. QED  BY <1>5, <1>8, <3>1
  <2>2. CASE k = Len(s) + 1
    BY <1>1, <1>3, <1>5, <1>8, <2>2
  <2>. QED  BY <1>1, <2>1, <2>2
<1>10. left_ = right_
  <2> HIDE DEF s, left_, right_
  <2>. QED  BY <1>5, <1>8, <1>9, SeqEqual
<1>. QED  BY <1>4, <1>10

\* A parent's image holds what a child inherits, on every node.
LEMMA ParentFacts ==
    ASSUME HistoryOK, NEW p, IsParent(p), NEW e \in Engines
    PROVE  /\ Inherited(p) \in Seq(Commands)
           /\ \A n \in Members : /\ ParentImage(e, p, n) \in Contents
                                 /\ CommandsOf(ParentImage(e, p, n)) = Inherited(p)
<1>1. CASE p = 0
  BY <1>1, BaseFacts, EmptySeq DEF Inherited, ParentImage
<1>2. CASE p # 0
  <2>1. p \in DOMAIN results /\ results[p].accepted /\ IsResult(results[p])
    BY <1>2 DEF IsParent, HistoryOK
  <2> DEFINE q == results[p].images
  <2>2. /\ q \in Seq(Contents) /\ Len(q) = Nodes
        /\ \A n \in 1..Len(q) : CommandsOf(q[n]) = results[p].applied
        /\ results[p].applied \in Seq(Commands)
    BY <2>1 DEF IsResult
  <2>3. \A n \in Members : q[n] \in Contents
    <3> HIDE DEF q
    <3>. QED  BY <2>2, ElementOfSeq DEF Members
  <2>. QED  BY <1>2, <2>2, <2>3 DEF Inherited, ParentImage, Members
<1>. QED  BY <1>1, <1>2

\* A proposal or a draft names a parent that is one, by a number.
LEMMA ParentsAreParents ==
    ASSUME HistoryOK, NEW e, NEW p \in Parents(e)
    PROVE  IsParent(p) /\ p \in Nat
<1>1. PICK S : results \in Seq(S)
  BY DEF HistoryOK
<1>2. DOMAIN results = 1..Len(results) /\ Len(results) \in Nat
  BY <1>1, LenProperties
<1>. QED  BY <1>2 DEF Parents, IsParent

\* What a parent hands on is a sequence of commands.
LEMMA InheritedFacts ==
    ASSUME HistoryOK, NEW p, IsParent(p)
    PROVE  Inherited(p) \in Seq(Commands)
BY EmptySeq DEF Inherited, IsParent, HistoryOK, IsResult

\* A draft that is reset is its parent, unedited.
LEMMA ResetFacts ==
    ASSUME HistoryOK, NEW e \in Engines, NEW p \in Nat, IsParent(p)
    PROVE  /\ Reset(e, p) \in Drafts /\ Reset(e, p).parent = p
           /\ CommandsOf(Reset(e, p).image) = Inherited(p) \o Reset(e, p).commands
<1> DEFINE d == Reset(e, p)
<1>1. /\ d = [engine |-> e, parent |-> p, image |-> ParentImage(e, p, 1), commands |-> << >>]
      /\ 1 \in Members
  BY RuntimesAssumption DEF Reset, Members
<1>2. /\ ParentImage(e, p, 1) \in Contents /\ Inherited(p) \in Seq(Commands)
      /\ CommandsOf(ParentImage(e, p, 1)) = Inherited(p)
  BY <1>1, ParentFacts
<1>3. << >> \in Seq(Commands) /\ Inherited(p) \o << >> = Inherited(p)
  BY <1>2, EmptySeq, ConcatEmptySeq
<1> HIDE DEF d
<1>4. d \in Drafts
  BY <1>1, <1>2, <1>3 DEF Drafts
<1>. QED  BY <1>1, <1>2, <1>3, <1>4 DEF d

-----------------------------------------------------------------------------
(* Steps *)

\* Numbers up to a bound have a greatest among them: the smallest interval from one of
\* them to the bound.
LEMMA GreatestOf ==
    ASSUME NEW N \in Nat, NEW S, S \subseteq 1..N, S # {}
    PROVE  \E x \in S : \A y \in S : y <= x
<1> DEFINE T == {x..N : x \in S}
<1>1. T \subseteq FiniteSubsetsOf(Nat) /\ T # {}
  <2>1. ASSUME NEW x \in S PROVE x..N \in FiniteSubsetsOf(Nat)
    <3>1. x \in Int /\ x..N \subseteq Nat
      OBVIOUS
    <3>. QED  BY <3>1, FS_Interval DEF FiniteSubsetsOf
  <2>. QED  BY <2>1
<1>2. PICK t \in T : \A u \in T : <<u, t>> \notin StrictSubsetOrdering(Nat)
  <2> HIDE DEF T
  <2>. QED  BY <1>1, WFMin, FS_StrictSubsetOrderingWellFounded
<1>3. PICK x \in S : t = x..N
  BY <1>2
<1>4. \A y \in S : y <= x
  <2> SUFFICES ASSUME NEW y \in S, x < y PROVE FALSE
    OBVIOUS
  <2>1. y..N \subseteq x..N /\ x \in x..N /\ x \notin y..N /\ x..N \subseteq Nat
    OBVIOUS
  <2>2. <<y..N, x..N>> \in StrictSubsetOrdering(Nat)
    <3>1. y..N \subseteq Nat /\ y..N # x..N
      BY <2>1
    <3>. QED  BY <2>1, <3>1 DEF StrictSubsetOrdering
  <2>3. y..N \in T
    OBVIOUS
  <2>. QED  BY <1>2, <1>3, <2>2, <2>3
<1>. QED  BY <1>4

\* A history that is not touched.
LEMMA HistoryKept ==
    ASSUME HistoryOK, UNCHANGED results
    PROVE  HistoryOK'
BY DEF HistoryOK, IsResult

\* A history that grows by one result.
LEMMA HistoryGrows ==
    ASSUME HistoryOK, NEW q, IsResult(q), results' = Append(results, q)
    PROVE  HistoryOK'
<1>1. PICK S : results \in Seq(S)
  BY DEF HistoryOK
<1> DEFINE U == S \cup {q}
<1>2. results \in Seq(U) /\ q \in U
  BY <1>1, SeqMonotonic
<1> HIDE DEF U
<1>3. /\ results' \in Seq(U) /\ Len(results') = Len(results) + 1
      /\ \A r \in 1..Len(results) : results'[r] = results[r]
      /\ results'[Len(results) + 1] = q
  BY <1>2, AppendProperties
<1>4. /\ DOMAIN results = 1..Len(results) /\ Len(results) \in Nat
      /\ DOMAIN results' = 1..(Len(results) + 1)
  BY <1>2, <1>3, LenProperties
<1>5. ASSUME NEW r \in DOMAIN results' PROVE IsResult(results'[r])
  <2>1. r \in 1..Len(results) \/ r = Len(results) + 1
    BY <1>4
  <2>. QED  BY <1>3, <1>4, <2>1 DEF HistoryOK
<1>. QED  BY <1>3, <1>5 DEF HistoryOK, IsResult

\* Between experiments there is only the history to speak of.
LEMMA IdleIsKept ==
    ASSUME phase' = "idle", tool' = None, index' \in Nat, HistoryOK'
    PROVE  IInv'
BY DEF IInv, ToolOK, DraftOK, ProposalOK, Proposed, BuildOK, MeasureOK

\* The index and what the nodes have lost play no part.
LEMMA OthersAreKept ==
    ASSUME IInv, UNCHANGED <<phase, turnVars, proposal, buildVars, versions, results>>,
           index' \in Nat
    PROVE  IInv'
<1>1. HistoryOK'
  BY HistoryKept DEF IInv
<1>2. ToolOK' /\ DraftOK'
  BY DEF IInv, ToolOK, DraftOK, IsParent, Inherited, turnVars
<1>3. ProposalOK'
  BY DEF IInv, ProposalOK, Proposed, Applied, IsParent, Inherited
<1>4. BuildOK' /\ MeasureOK'
  BY DEF IInv, BuildOK, MeasureOK, Applied, Inherited, buildVars
<1>. QED  BY <1>1, <1>2, <1>3, <1>4 DEF IInv

\* A step inside the agent's turn leaves the history, and nothing is being built.
LEMMA TurnIsKept ==
    ASSUME IInv, phase = "turn", InTurn, ToolOK', DraftOK', ProposalOK'
    PROVE  IInv'
<1>1. HistoryOK'
  BY HistoryKept DEF IInv, InTurn
<1>. QED  BY <1>1 DEF IInv, InTurn, BuildOK, MeasureOK

\* Nothing has been run yet.
LEMMA InitEstablishes == Init => IInv
<1> SUFFICES ASSUME Init PROVE IInv
  OBVIOUS
<1>1. results \in Seq({}) /\ DOMAIN results = {}
  BY EmptySeq DEF Init
<1>2. HistoryOK
  BY <1>1 DEF HistoryOK
<1>. QED  BY <1>2 DEF Init, IInv, ToolOK, DraftOK, ProposalOK, Proposed, BuildOK, MeasureOK

\* The draft starts from the last accepted experiment, or a prepared engine.
LEMMA StartKeeps == IInv /\ StartTurn => IInv'
<1> SUFFICES ASSUME IInv, StartTurn PROVE IInv'
  OBVIOUS
<1> DEFINE won == {r \in DOMAIN results : results[r].accepted}
           best == CHOOSE r \in won : \A s \in won : s <= r
<1>1. HistoryOK /\ HistoryOK'
  BY HistoryKept DEF IInv, StartTurn
<1>2. PICK e, p : e \in Engines /\ p \in Nat /\ IsParent(p) /\ draft' = Reset(e, p)
  <2>1. CASE won = {}
    <3>1. \E e \in Engines : draft' = Reset(e, 0)
      BY <2>1 DEF StartTurn
    <3>. QED  BY <3>1 DEF IsParent
  <2>2. CASE won # {}
    <3>1. PICK S : results \in Seq(S)
      BY <1>1 DEF HistoryOK
    <3>2. Len(results) \in Nat /\ won \subseteq 1..Len(results)
      BY <3>1, LenProperties
    <3>3. best \in won
      <4> HIDE DEF won
      <4>1. \E x \in won : \A y \in won : y <= x
        BY <2>2, <3>2, GreatestOf
      <4>. QED  BY <4>1
    <3>4. best \in Nat /\ IsParent(best) /\ results[best].engine \in Engines
      BY <1>1, <3>2, <3>3 DEF IsParent, HistoryOK, IsResult
    <3>5. draft' = Reset(results[best].engine, best)
      BY <2>2 DEF StartTurn
    <3> HIDE DEF best
    <3>. QED  BY <3>4, <3>5
  <2>. QED  BY <2>1, <2>2
<1>3. /\ draft' \in Drafts /\ draft'.parent = p
      /\ CommandsOf(draft'.image) = Inherited(p) \o draft'.commands
  BY <1>1, <1>2, ResetFacts
<1>4. phase' = "turn" /\ proposal' = None /\ UNCHANGED <<tool, results, index>> /\ phase = "idle"
  BY DEF StartTurn
<1>5. DraftOK'
  BY <1>2, <1>3, <1>4 DEF DraftOK, IsParent, Inherited
<1>6. ToolOK' /\ ProposalOK' /\ BuildOK' /\ MeasureOK'
  BY <1>4 DEF IInv, ToolOK, ProposalOK, Proposed, BuildOK, MeasureOK
<1>. QED  BY <1>1, <1>4, <1>5, <1>6 DEF IInv

\* An unchanged proposal stays what it is while the history is.
LEMMA ProposalKept ==
    ASSUME IInv, UNCHANGED <<phase, proposal, results>>
    PROVE  ProposalOK'
BY DEF IInv, ProposalOK, Proposed, Applied, IsParent, Inherited

\* reset_runtime
LEMMA ResetKeeps == IInv /\ ResetRuntime => IInv'
<1> SUFFICES ASSUME IInv, ResetRuntime PROVE IInv'
  OBVIOUS
<1>1. HistoryOK /\ phase = "turn" /\ InTurn /\ UNCHANGED <<tool, proposal>>
  BY DEF IInv, ResetRuntime, Free
<1>2. PICK e \in Engines : \E p \in Parents(e) : draft' = Reset(e, p)
  BY DEF ResetRuntime
<1>3. PICK p \in Parents(e) : draft' = Reset(e, p)
  BY <1>2
<1>4. IsParent(p) /\ p \in Nat
  BY <1>1, ParentsAreParents
<1>5. /\ draft' \in Drafts /\ draft'.parent = p
      /\ CommandsOf(draft'.image) = Inherited(p) \o draft'.commands
  BY <1>1, <1>3, <1>4, ResetFacts
<1>6. DraftOK'
  BY <1>1, <1>4, <1>5 DEF DraftOK, InTurn, IsParent, Inherited
<1>7. ToolOK'
  BY <1>1 DEF IInv, ToolOK, InTurn
<1>8. ProposalOK'
  BY <1>1, ProposalKept DEF InTurn
<1>. QED  BY <1>1, <1>6, <1>7, <1>8, TurnIsKept

\* A call of runtime_shell begins: the draft stays as it is.
LEMMA ShellKeeps == IInv /\ Shell => IInv'
<1> SUFFICES ASSUME IInv, Shell PROVE IInv'
  OBVIOUS
<1>1. phase = "turn" /\ InTurn /\ UNCHANGED <<draft, proposal>>
  BY DEF Shell, Free
<1>2. PICK c \in Commands : tool' = <<c>>
  BY DEF Shell
<1>3. ToolOK'
  BY <1>1, <1>2 DEF ToolOK, InTurn
<1>4. DraftOK' /\ ProposalOK'
  BY <1>1, ProposalKept DEF IInv, DraftOK, InTurn, IsParent, Inherited
<1>. QED  BY <1>1, <1>3, <1>4, TurnIsKept

\* It ends well: the command is in the image and in the list, last in both.
LEMMA ShellEndsKeeps == IInv /\ ShellEnds => IInv'
<1> SUFFICES ASSUME IInv, ShellEnds PROVE IInv'
  OBVIOUS
<1> DEFINE c == tool[1]
           new == Ran(draft.image, c)
<1>1. /\ phase = "turn" /\ c \in Commands /\ index \in Nat
      /\ draft \in Drafts /\ IsParent(draft.parent) /\ HistoryOK
      /\ CommandsOf(draft.image) = Inherited(draft.parent) \o draft.commands
  BY DEF ShellEnds, IInv, ToolOK, DraftOK
<1>2. /\ InTurn /\ UNCHANGED proposal /\ tool' = None
      /\ draft' = [draft EXCEPT !.image = new, !.commands = Append(draft.commands, c)]
  BY DEF ShellEnds
<1> HIDE DEF c
<1>3. draft.image \in Contents /\ draft.commands \in Seq(Commands) /\ draft.parent \in Nat
  BY <1>1 DEF Drafts
<1>4. new \in Contents /\ CommandsOf(new) = CommandsOf(draft.image) \o <<c>>
  BY <1>1, <1>3, RanFacts
<1>5. Append(draft.commands, c) \in Seq(Commands)
      /\ Append(draft.commands, c) = draft.commands \o <<c>> /\ <<c>> \in Seq(Commands)
  BY <1>1, <1>3, AppendProperties, AppendIsConcat
<1> HIDE DEF new
<1>6. /\ draft' \in Drafts /\ draft'.parent = draft.parent /\ draft'.image = new
      /\ draft'.commands = Append(draft.commands, c)
  BY <1>1, <1>2, <1>4, <1>5 DEF Drafts
<1>7. CommandsOf(new) = Inherited(draft.parent) \o Append(draft.commands, c)
  <2> DEFINE h == Inherited(draft.parent)
             d == draft.commands
             last == <<c>>
  <2>1. h \in Seq(Commands) /\ d \in Seq(Commands) /\ last \in Seq(Commands)
    BY <1>1, <1>3, <1>5, InheritedFacts
  <2>2. (h \o d) \o last = h \o (d \o last)
    <3> HIDE DEF h, d, last
    <3>. QED  BY <2>1, ConcatAssociative
  <2>. QED  BY <1>1, <1>4, <1>5, <2>2
<1>8. DraftOK'
  BY <1>1, <1>2, <1>6, <1>7 DEF DraftOK, InTurn, IsParent, Inherited
<1>9. ToolOK' /\ ProposalOK'
  BY <1>1, <1>2, ProposalKept DEF ToolOK, InTurn
<1>. QED  BY <1>1, <1>2, <1>8, <1>9, TurnIsKept

\* It fails: the draft is as it was.
LEMMA ShellFailsKeeps == IInv /\ ShellFails => IInv'
<1> SUFFICES ASSUME IInv, ShellFails PROVE IInv'
  OBVIOUS
<1>1. phase = "turn" /\ InTurn /\ UNCHANGED <<draft, proposal>> /\ tool' = None
  BY DEF ShellFails, DraftIfFailed, IInv, ToolOK
<1>2. ToolOK' /\ DraftOK' /\ ProposalOK'
  BY <1>1, ProposalKept DEF IInv, ToolOK, DraftOK, InTurn, IsParent, Inherited
<1>. QED  BY <1>1, <1>2, TurnIsKept

\* submit_experiment: what the agent has tried out and its own change, on the parent that
\* the draft was made from.
LEMMA SubmitKeeps == IInv /\ Submit => IInv'
<1> SUFFICES ASSUME IInv, Submit PROVE IInv'
  OBVIOUS
<1>1. phase = "turn" /\ tool = None /\ InTurn /\ UNCHANGED turnVars /\ HistoryOK
  BY DEF IInv, Submit, Free
<1>2. PICK e \in Engines :
        \E p \in Parents(e) : \E own \in {<< >>} \cup {<<c>> : c \in Commands \ Upgrades} :
            /\ draft.commands = <<>> \/ EditedFor(e, p)
            /\ proposal' = [engine |-> e, parent |-> p, commands |-> Materialized(own),
                            saw |-> IF draft.commands = <<>> THEN None
                                    ELSE CommandsOf(draft.image) \o own]
  BY DEF Submit
<1>3. PICK p \in Parents(e) : \E own \in {<< >>} \cup {<<c>> : c \in Commands \ Upgrades} :
            /\ draft.commands = <<>> \/ EditedFor(e, p)
            /\ proposal' = [engine |-> e, parent |-> p, commands |-> Materialized(own),
                            saw |-> IF draft.commands = <<>> THEN None
                                    ELSE CommandsOf(draft.image) \o own]
  BY <1>2
<1>4. PICK own \in {<< >>} \cup {<<c>> : c \in Commands \ Upgrades} :
            /\ draft.commands = <<>> \/ EditedFor(e, p)
            /\ proposal' = [engine |-> e, parent |-> p, commands |-> Materialized(own),
                            saw |-> IF draft.commands = <<>> THEN None
                                    ELSE CommandsOf(draft.image) \o own]
  BY <1>3
<1> DEFINE d == draft.commands
           h == Inherited(p)
<1>5. IsParent(p) /\ h \in Seq(Commands)
  BY <1>1, ParentsAreParents, InheritedFacts
<1>6. /\ d \in Seq(Commands) /\ CommandsOf(draft.image) = Inherited(draft.parent) \o d
      /\ own \in Seq(Commands)
  <2>1. own \in Seq(Commands)
    <3>1. own = << >> \/ \E c \in Commands : own = <<c>>
      BY <1>4
    <3>2. \A c \in Commands : <<c>> \in Seq(Commands)
      OBVIOUS
    <3>. QED  BY <3>1, <3>2, EmptySeq
  <2>. QED  BY <1>1, <2>1 DEF IInv, DraftOK, Drafts
<1>7. d \o own \in Seq(Commands) /\ (h \o d) \o own = h \o (d \o own)
  <2> HIDE DEF d, h
  <2>. QED  BY <1>5, <1>6, ConcatProperties, ConcatAssociative
<1>8. /\ proposal'.engine = e /\ proposal'.parent = p /\ proposal'.commands = d \o own
      /\ proposal'.saw = IF d = << >> THEN None ELSE CommandsOf(draft.image) \o own
  BY <1>4 DEF Materialized
<1>9. d # << >> => p = draft.parent
  BY <1>4 DEF EditedFor
<1>10. proposal'.saw # None => proposal'.saw = h \o (d \o own)
  <2> HIDE DEF d
  <2>. QED  BY <1>6, <1>7, <1>8, <1>9
<1> HIDE DEF d, h
<1>11. ProposalOK'
  BY <1>1, <1>5, <1>7, <1>8, <1>10
     DEF ProposalOK, Applied, IsParent, Inherited, InTurn, h
<1>12. ToolOK' /\ DraftOK'
  BY <1>1 DEF IInv, ToolOK, DraftOK, InTurn, turnVars, IsParent, Inherited
<1>. QED  BY <1>1, <1>11, <1>12, TurnIsKept

\* The turn ends with nothing, or with a build that starts from the parent's image.
LEMMA TurnEndsKeeps == IInv /\ TurnEnds => IInv'
<1> SUFFICES ASSUME IInv, TurnEnds PROVE IInv'
  OBVIOUS
<1>1. /\ phase = "turn" /\ tool' = None /\ HistoryOK /\ HistoryOK' /\ index' \in Nat
      /\ UNCHANGED <<results, proposal>>
  BY HistoryKept DEF IInv, TurnEnds
<1>2. CASE proposal = None
  BY <1>1, <1>2, IdleIsKept DEF TurnEnds
<1>3. CASE proposal # None
  <2>1. /\ phase' = "build" /\ left' = proposal.commands /\ images' = << >>
        /\ image' = ParentImage(proposal.engine, proposal.parent, 1)
    BY <1>3 DEF TurnEnds
  <2>2. /\ proposal.engine \in Engines /\ IsParent(proposal.parent)
        /\ proposal.commands \in Seq(Commands)
    BY <1>1, <1>3 DEF IInv, ProposalOK, Proposed
  <2>3. /\ image' \in Contents /\ CommandsOf(image') = Inherited(proposal.parent)
    <3>1. 1 \in Members
      BY RuntimesAssumption DEF Members
    <3>. QED  BY <1>1, <2>1, <2>2, <3>1, ParentFacts
  <2>4. images' \in Seq(Contents) /\ Len(images') = 0 /\ 0 <= Nodes
    BY <2>1, EmptySeq, RuntimesAssumption
  <2>5. BuildOK'
    <3>1. CommandsOf(image') \o left' = Applied'
      BY <1>1, <2>1, <2>3 DEF Applied, Inherited
    <3>2. \A n \in 1..Len(images') : CommandsOf(images'[n]) = Applied'
      BY <2>4
    <3>3. left' \in Seq(Commands) /\ Len(images') <= Nodes
      BY <2>1, <2>2, <2>4
    <3>. QED  BY <2>3, <2>4, <3>1, <3>2, <3>3 DEF BuildOK
  <2>6. ProposalOK'
    BY <1>1, <1>3, <2>1 DEF IInv, ProposalOK, Proposed, Applied, IsParent, Inherited
  <2>7. ToolOK' /\ DraftOK' /\ MeasureOK'
    BY <1>1, <2>1 DEF ToolOK, DraftOK, MeasureOK
  <2>. QED  BY <1>1, <2>1, <2>5, <2>6, <2>7 DEF IInv
<1>. QED  BY <1>2, <1>3

-----------------------------------------------------------------------------
(* The build *)

\* A sequence is its first element and the rest.
LEMMA HeadAndTail ==
    ASSUME NEW S, NEW s \in Seq(S), s # << >>
    PROVE  <<Head(s)>> \o Tail(s) = s /\ Head(s) \in S /\ Tail(s) \in Seq(S)
<1> DEFINE h == <<Head(s)>>
           t == Tail(s)
           b == h \o t
<1>1. Head(s) \in S /\ t \in Seq(S) /\ Len(t) = Len(s) - 1 /\ \A i \in 1..Len(t) : t[i] = s[i + 1]
  BY HeadTailProperties
<1>2. h \in Seq(S) /\ Len(h) = 1 /\ h[1] = s[1]
  BY <1>1
<1>3. Len(s) \in Nat /\ Len(s) # 0
  BY LenProperties, EmptySeq
<1>4. /\ b \in Seq(S) /\ Len(b) = 1 + Len(t)
      /\ \A i \in 1..1 + Len(t) : b[i] = IF i <= 1 THEN h[i] ELSE t[i - 1]
  <2>1. h \in Seq(S) /\ t \in Seq(S)
    BY <1>1, <1>2
  <2> HIDE DEF h, t
  <2>2. /\ h \o t \in Seq(S) /\ Len(h \o t) = Len(h) + Len(t)
        /\ \A i \in 1..Len(h) + Len(t) : (h \o t)[i] = IF i <= Len(h) THEN h[i]
                                                       ELSE t[i - Len(h)]
    BY <2>1, ConcatProperties
  <2>. QED  BY <1>2, <2>2
<1>5. ASSUME NEW i \in 1..Len(s) PROVE b[i] = s[i]
  <2> HIDE DEF b, h, t
  <2>1. CASE i = 1
    BY <1>1, <1>2, <1>3, <1>4, <2>1
  <2>2. CASE i # 1
    <3>1. i - 1 \in 1..Len(t) /\ ~(i <= 1) /\ i \in 1..1 + Len(t)
      BY <1>1, <1>3, <2>2
    <3>2. t[i - 1] = s[(i - 1) + 1] /\ (i - 1) + 1 = i
      BY <1>1, <3>1
    <3>. QED  BY <1>4, <3>1, <3>2
  <2>. QED  BY <2>1, <2>2
<1>6. b = s
  <2> HIDE DEF b, h, t
  <2>. QED  BY <1>1, <1>3, <1>4, <1>5, SeqEqual
<1>. QED  BY <1>1, <1>6

\* What a step of the build has to keep.
LEMMA BuildIsKept ==
    ASSUME IInv, phase = "build", InBuild, phase' \in {"build", "measure"}, BuildOK', MeasureOK'
    PROVE  IInv'
<1>1. HistoryOK'
  BY HistoryKept DEF IInv, InBuild
<1>2. ProposalOK'
  BY DEF IInv, ProposalOK, Proposed, Applied, IsParent, Inherited, InBuild
<1>3. ToolOK' /\ DraftOK'
  BY DEF IInv, ToolOK, DraftOK, InBuild, turnVars
<1>. QED  BY <1>1, <1>2, <1>3 DEF IInv, InBuild

\* A command moves from what is left to what is done.
LEMMA BuildStepKeeps == IInv /\ BuildStep => IInv'
<1> SUFFICES ASSUME IInv, BuildStep PROVE IInv'
  OBVIOUS
<1>1. /\ phase = "build" /\ phase' = "build" /\ InBuild /\ UNCHANGED images
      /\ image' = Ran(image, Head(left)) /\ left' = Tail(left) /\ left # << >>
  BY DEF BuildStep
<1>2. /\ images \in Seq(Contents) /\ Len(images) <= Nodes
      /\ \A n \in 1..Len(images) : CommandsOf(images[n]) = Applied
      /\ image \in Contents /\ left \in Seq(Commands) /\ CommandsOf(image) \o left = Applied
      /\ index \in Nat
  BY <1>1 DEF IInv, BuildOK
<1> DEFINE h == <<Head(left)>>
           t == Tail(left)
           done == CommandsOf(image)
<1>3. h \o t = left /\ Head(left) \in Commands /\ t \in Seq(Commands)
  BY <1>1, <1>2, HeadAndTail
<1>4. h \in Seq(Commands) /\ done \in Seq(Commands)
  BY <1>2, <1>3, CommandsOfFacts
<1>5. image' \in Contents /\ CommandsOf(image') = done \o h
  BY <1>1, <1>2, <1>3, RanFacts
<1>6. (done \o h) \o t = done \o (h \o t)
  <2>1. h \in Seq(Commands) /\ t \in Seq(Commands) /\ done \in Seq(Commands)
    BY <1>3, <1>4
  <2> HIDE DEF h, t, done
  <2>. QED  BY <2>1, ConcatAssociative
<1>7. CommandsOf(image') \o left' = Applied
  BY <1>1, <1>2, <1>3, <1>5, <1>6
<1>8. BuildOK' /\ MeasureOK'
  BY <1>1, <1>2, <1>3, <1>5, <1>7 DEF BuildOK, MeasureOK, Applied, Inherited, InBuild
<1>. QED  BY <1>1, <1>8, BuildIsKept

\* A node is done: its image holds the recipe, and the next node starts from its parent's.
LEMMA NodeDoneKeeps == IInv /\ NodeDone => IInv'
<1> SUFFICES ASSUME IInv, NodeDone PROVE IInv'
  OBVIOUS
<1>1. /\ phase = "build" /\ phase' = "build" /\ InBuild
      /\ images' = Append(images, image) /\ left = << >> /\ Len(images) + 1 <= Nodes
  BY DEF NodeDone, Here
<1>2. /\ images \in Seq(Contents) /\ Len(images) \in Nat
      /\ \A n \in 1..Len(images) : CommandsOf(images[n]) = Applied
      /\ image \in Contents /\ left \in Seq(Commands) /\ CommandsOf(image) \o left = Applied
      /\ HistoryOK /\ proposal.engine \in Engines /\ IsParent(proposal.parent)
      /\ proposal.commands \in Seq(Commands)
  BY <1>1, LenProperties DEF IInv, BuildOK, ProposalOK, Proposed
<1>3. CommandsOf(image) = Applied
  BY <1>1, <1>2, CommandsOfFacts, ConcatEmptySeq
<1>4. /\ images' \in Seq(Contents) /\ Len(images') = Len(images) + 1
      /\ \A n \in 1..Len(images) : images'[n] = images[n]
      /\ images'[Len(images) + 1] = image
  BY <1>1, <1>2, AppendProperties
<1>5. ASSUME NEW n \in 1..Len(images') PROVE CommandsOf(images'[n]) = Applied
  <2>1. n \in 1..Len(images) \/ n = Len(images) + 1
    BY <1>2, <1>4
  <2>. QED  BY <1>2, <1>3, <1>4, <2>1
<1>6. image' \in Contents /\ left' \in Seq(Commands) /\ CommandsOf(image') \o left' = Applied
  <2>1. CASE Len(images) + 1 < Nodes
    <3> DEFINE n == Len(images) + 2
    <3>1. /\ image' = ParentImage(proposal.engine, proposal.parent, Len(images) + 1 + 1)
          /\ left' = proposal.commands
      BY <2>1 DEF NodeDone, Here
    <3>2. n \in Members /\ Len(images) + 1 + 1 = n
      BY <1>2, <2>1, RuntimesAssumption DEF Members
    <3>3. /\ image' \in Contents /\ CommandsOf(image') = Inherited(proposal.parent)
      <4> HIDE DEF n
      <4>. QED  BY <1>2, <3>1, <3>2, ParentFacts
    <3>. QED  BY <1>2, <3>1, <3>3 DEF Applied
  <2>2. CASE ~(Len(images) + 1 < Nodes)
    BY <1>2, <2>2 DEF NodeDone, Here
  <2>. QED  BY <2>1, <2>2
<1>7. Len(images') <= Nodes
  BY <1>1, <1>4
<1>8. BuildOK' /\ MeasureOK'
  BY <1>1, <1>4, <1>5, <1>6, <1>7 DEF BuildOK, MeasureOK, Applied, Inherited, InBuild
<1>. QED  BY <1>1, <1>8, BuildIsKept

\* All nodes are done and report one version, which the registry gets.
LEMMA PreparedKeeps == IInv /\ Prepared => IInv'
<1> SUFFICES ASSUME IInv, Prepared PROVE IInv'
  OBVIOUS
<1>1. /\ phase = "build" /\ phase' = "measure" /\ InBuild /\ UNCHANGED images
      /\ Len(images) + 1 > Nodes /\ Agreed
      /\ versions' = [[e \in Engines |-> 0] EXCEPT ![proposal.engine] = Version(images[1])]
  BY DEF Prepared, Here, buildVars
<1>2. /\ images \in Seq(Contents) /\ Len(images) <= Nodes /\ Len(images) \in Nat
      /\ \A n \in 1..Len(images) : CommandsOf(images[n]) = Applied
      /\ proposal.engine \in Engines
  BY <1>1, LenProperties DEF IInv, BuildOK, ProposalOK, Proposed
<1>3. Len(images) = Nodes
  BY <1>1, <1>2, RuntimesAssumption
<1>4. \A n \in 1..Nodes : Version(images[n]) = versions'[proposal.engine]
  <2>1. versions'[proposal.engine] = Version(images[1])
    BY <1>1, <1>2
  <2>2. 1 \in Members
    BY RuntimesAssumption DEF Members
  <2>. QED  BY <1>1, <2>1, <2>2 DEF Agreed, Members
<1>5. BuildOK' /\ MeasureOK'
  BY <1>1, <1>2, <1>3, <1>4 DEF BuildOK, MeasureOK, Applied, Inherited, InBuild
<1>. QED  BY <1>1, <1>5, BuildIsKept

\* What did not get so far is on record without images.
LEMMA FailedIsResult == IsResult(Failed)
BY EmptySeq DEF IsResult, Failed

\* A build that fails has its line in the history, and its images in none.
LEMMA BuildFailsKeeps == IInv /\ BuildFails => IInv'
<1> SUFFICES ASSUME IInv, BuildFails PROVE IInv'
  OBVIOUS
<1>1. /\ phase = "build" /\ phase' = "idle" /\ results' = Append(results, Failed)
      /\ UNCHANGED <<turnVars, index>>
  BY DEF BuildFails, Close
<1>2. HistoryOK'
  BY <1>1, FailedIsResult, HistoryGrows DEF IInv
<1>3. tool' = None /\ index' \in Nat
  BY <1>1 DEF IInv, ToolOK, turnVars
<1>. QED  BY <1>1, <1>2, <1>3, IdleIsKept

\* The verdict is recorded with the images that were measured and their recipe.
LEMMA MeasuredKeeps == IInv /\ Measured => IInv'
<1> SUFFICES ASSUME IInv, Measured PROVE IInv'
  OBVIOUS
<1>1. /\ phase = "measure" /\ phase' = "idle" /\ UNCHANGED <<turnVars, index>>
  BY DEF Measured, Close
<1>2. PICK verdict \in BOOLEAN : results' =
        Append(results, [engine |-> proposal.engine, accepted |-> verdict, images |-> images,
                         applied |-> Applied, version |-> versions[proposal.engine]])
  BY DEF Measured, Close
<1> DEFINE q == [engine |-> proposal.engine, accepted |-> verdict, images |-> images,
                 applied |-> Applied, version |-> versions[proposal.engine]]
<1>3. /\ images \in Seq(Contents) /\ Len(images) = Nodes
      /\ \A n \in 1..Len(images) : CommandsOf(images[n]) = Applied
      /\ proposal.engine \in Engines /\ IsParent(proposal.parent)
      /\ proposal.commands \in Seq(Commands) /\ HistoryOK
  BY <1>1 DEF IInv, MeasureOK, ProposalOK, Proposed
<1>4. Applied \in Seq(Commands)
  BY <1>3, InheritedFacts, ConcatProperties DEF Applied
<1>5. IsResult(q)
  BY <1>3, <1>4 DEF IsResult
<1>6. HistoryOK'
  <2> HIDE DEF q
  <2>1. results' = Append(results, q)
    BY <1>2 DEF q
  <2>. QED  BY <1>3, <1>5, <2>1, HistoryGrows
<1>7. tool' = None /\ index' \in Nat
  BY <1>1 DEF IInv, ToolOK, turnVars
<1>. QED  BY <1>1, <1>6, <1>7, IdleIsKept

\* The controller dies: an experiment under way is on record as one that failed.
LEMMA CrashKeeps == IInv /\ CrashAndResume => IInv'
<1> SUFFICES ASSUME IInv, CrashAndResume PROVE IInv'
  OBVIOUS
<1>1. phase' = "idle" /\ tool' = None /\ index' \in Nat
  BY DEF IInv, CrashAndResume, Close
<1>2. results' = Append(results, Failed) \/ UNCHANGED results
  BY DEF CrashAndResume, Close
<1>3. HistoryOK'
  BY <1>2, FailedIsResult, HistoryGrows, HistoryKept DEF IInv
<1>. QED  BY <1>1, <1>3, IdleIsKept

\* Every step keeps the invariant.
LEMMA NextKeeps == IInv /\ [Next]_vars => IInv'
<1> SUFFICES ASSUME IInv, [Next]_vars PROVE IInv'
  OBVIOUS
<1>1. CASE Turn
  BY <1>1, StartKeeps, ResetKeeps, ShellKeeps, ShellEndsKeeps, ShellFailsKeeps, SubmitKeeps,
     TurnEndsKeeps DEF Turn
<1>2. CASE Build
  BY <1>2, BuildStepKeeps, NodeDoneKeeps, PreparedKeeps, BuildFailsKeeps, MeasuredKeeps
     DEF Build
<1>3. CASE CrashAndResume
  BY <1>3, CrashKeeps
<1>4. CASE (\E n \in Members : Prune(n)) \/ Release \/ UNCHANGED vars
  <2>1. /\ UNCHANGED <<phase, turnVars, proposal, buildVars, versions, results>>
        /\ index' \in Nat
    BY <1>4 DEF IInv, Prune, Release, vars
  <2>. QED  BY <2>1, OthersAreKept
<1>. QED  BY <1>1, <1>2, <1>3, <1>4 DEF Next

-----------------------------------------------------------------------------
\* The inductive invariant holds throughout: a draft, and a build on the node at work, are
\* what they descend from with the commands recorded so far, in their order.
THEOREM Invariance == Spec => []IInv
<1>. QED  BY InitEstablishes, NextKeeps, PTL DEF Spec

\* What is measured holds on every node the edits that worked for the agent and no others,
\* in their order, on the image they were made on, whatever failed, crashed or was pruned
\* since.
THEOREM EditsAlwaysReplayed == Spec => []EditsAreReplayed
<1>1. IInv => EditsAreReplayed
  BY DEF IInv, ProposalOK, Proposed, MeasureOK, EditsAreReplayed, Members
<1>. QED  BY Invariance, <1>1, PTL

\* The recipe on record is that of the images an experiment ran from.
THEOREM RecipeAlwaysComplete == Spec => []RecipeIsComplete
<1>1. IInv => RecipeIsComplete
  <2> SUFFICES ASSUME IInv, NEW r \in DOMAIN results, NEW n \in DOMAIN results[r].images
               PROVE  CommandsOf(results[r].images[n]) = results[r].applied
    BY DEF RecipeIsComplete
  <2>1. IsResult(results[r])
    BY DEF IInv, HistoryOK
  <2>2. n \in 1..Len(results[r].images)
    BY <2>1, LenProperties DEF IsResult
  <2>. QED  BY <2>1, <2>2 DEF IsResult
<1>. QED  BY Invariance, <1>1, PTL

\* The nodes of an experiment run one version of the engine, that of the registry the
\* proposal was validated by, although the package index moves during the build.
THEOREM AlwaysOneVersion == Spec => []OneVersion
<1>1. IInv => OneVersion
  BY DEF IInv, MeasureOK, OneVersion, Members
<1>. QED  BY Invariance, <1>1, PTL
=============================================================================
