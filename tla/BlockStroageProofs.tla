------------------------ MODULE BlockStroageProofs ------------------------
(***************************************************************************)
(* Proofs about BlockStroage for any blocks, nodes, transactions and       *)
(* thresholds.  A block that was broadcast has kConsensus - 1 nodes that   *)
(* signed it, one rejected KSend - kConsensus + 2 nodes that refused it;   *)
(* no node did both and no more than KSend were asked, so no block is both *)
(* (Quorums).  That a block is built again once rests on this, and on a    *)
(* list of refusals that is as long as its threshold from the task on      *)
(* (Settled).  That it is built in place rests on the life of an entry     *)
(* (Lives).                                                                *)
(***************************************************************************)
EXTENDS BlockStroage, FiniteSetTheorems, TLAPS

\* Most leaves are first-order; those with arithmetic, sequences or records name SMT.
USE Zenon

SignedBy(b) == {n \in Nodes : <<"sign", b, n>> \in answered}
FailedBy(b) == {n \in Nodes : <<"fail", b, n>> \in answered}

\* Nothing has happened to a block that was not started.
Untouched ==
    \A b \in Blocks : born[b] = None =>
        /\ asked[b] = {} /\ parent[b] = None /\ b \notin cast
        /\ blockCnt[b] = None

\* A node that answers was asked, and answers one way.
Answers ==
    /\ \A b \in Blocks : asked[b] = {} \/ asked[b] \in Asked
    /\ \A b \in Blocks : SignedBy(b) \subseteq asked[b] /\ FailedBy(b) \subseteq asked[b]
    /\ \A b \in Blocks : SignedBy(b) \cap FailedBy(b) = {}
    /\ \A b \in Blocks, n \in Nodes, T \in SUBSET Txs :
         /\ <<"sign", b, n, T>> \in mail => n \in SignedBy(b)
         /\ <<"fail", b, n, T>> \in mail => n \in FailedBy(b) \/ b \in cast
    /\ \A b \in Blocks : blockCnt[b] # None => blockCnt[b] \subseteq SignedBy(b)

\* An entry of the first stage belongs to a block that was not broadcast, and
\* lists refusals of nodes it asked; one that awaits nobody is idle.
EntryOK(b) ==
    /\ status[b].list \cap status[b].waiting = {}
    /\ status[b].stage = "verify" =>
         \/ status[b].waiting = {}
         \/ /\ status[b].number = VerifyNodesNumber
            /\ status[b].list \subseteq FailedBy(b)
            /\ b \notin cast
    /\ status[b].stage = "level1" => b \in cast

Entry == \A b \in Blocks : status[b] # None => EntryOK(b)

\* What was broadcast had its signatures, what was rejected its refusals.
Quorums ==
    /\ \A b \in cast : blockCnt[b] = None /\ Cardinality(SignedBy(b)) + 1 >= kConsensus
    /\ \A b \in refused : Cardinality(FailedBy(b)) >= VerifyNodesNumber

\* A block has a task, a new block under construction, or a new block.
Building(b) == \E T \in SUBSET Txs : <<b, T>> \in building
Rebuilt(b) == \E c \in Blocks : parent[c] = b
Committed(b) == b \in tasks \/ Building(b) \/ Rebuilt(b)

\* No refusal to come can commit a task.
Idle(b) ==
    status[b] # None =>
        \/ status[b].waiting = {}
        \/ Cardinality(status[b].list) >= Threshold(status[b])

\* One of these at a time, and no other to come.
Settled ==
    \A b \in Blocks :
        /\ b \in tasks => ~Building(b) /\ ~Rebuilt(b)
        /\ Building(b) => ~Rebuilt(b)
        /\ \A T, U \in SUBSET Txs : <<b, T>> \in building /\ <<b, U>> \in building => T = U
        /\ Committed(b) => (b \in cast \/ b \in refused) /\ Idle(b)

IInv == TypeOK /\ Untouched /\ Answers /\ Entry /\ Quorums /\ Settled /\ RebuiltOnce

-----------------------------------------------------------------------------
(* Type correctness.                                                       *)

\* The thresholds are natural numbers.
LEMMA ThresholdType ==
  /\ VerifyNodesNumber \in Nat
  /\ \A k \in Nat : FailureRate(k) \in Nat
  BY SMT, ThresholdAssumption DEF VerifyNodesNumber, FailureRate

\* Every set of nodes is finite and has a size.
LEMMA NodesFinite == ASSUME NEW S \in SUBSET Nodes
                     PROVE  IsFiniteSet(S) /\ Cardinality(S) \in Nat
  BY ThresholdAssumption, FS_Subset, FS_CardinalityType

\* The entries the handlers make are well formed.
LEMMA EntryTypes ==
  /\ Blank \in Entries /\ Fresh \in Entries
  /\ \A N \in SUBSET Nodes :
       [Fresh EXCEPT !.number = VerifyNodesNumber, !.waiting = N] \in Entries
  /\ \A s \in Entries, L \in SUBSET Nodes : ToLevel1(s, L) \in Entries
  /\ \A s \in Entries, n \in Nodes, T \in SUBSET Txs : Counted(s, n, T) \in Entries
<1>1. Blank \in Entries
  BY DEF Blank, Entries
<1>2. Fresh \in Entries
  BY <1>1 DEF Fresh, Blank, Entries
<1>3. \A N \in SUBSET Nodes : [Fresh EXCEPT !.number = VerifyNodesNumber, !.waiting = N] \in Entries
  BY <1>2, ThresholdType DEF Entries
<1>4. ASSUME NEW s \in Entries, NEW L \in SUBSET Nodes PROVE ToLevel1(s, L) \in Entries
  <2>1. Cardinality(L) \in Nat
    BY NodesFinite
  <2> QED BY <2>1 DEF ToLevel1, Entries
<1>5. ASSUME NEW s \in Entries, NEW n \in Nodes, NEW T \in SUBSET Txs
      PROVE  Counted(s, n, T) \in Entries
  <2>1. [t \in Txs |-> IF t \in T THEN s.against[t] + 1 ELSE s.against[t]] \in [Txs -> Nat]
    BY SMT DEF Entries
  <2> QED BY <2>1 DEF Counted, Heard, Entries
<1> QED BY <1>1, <1>2, <1>3, <1>4, <1>5

\* A start keeps the types of what it sets.
LEMMA StartType ==
  ASSUME TypeOK, NEW b \in Blocks, NEW T \in SUBSET Txs, NEW pl \in Places,
         NEW from \in Blocks \cup {None}, Start(b, T, pl, from)
  PROVE  /\ born' \in [Blocks -> 0 .. LastStart \cup {None}]
         /\ place' \in [Blocks -> Places \cup {None}] /\ txs' \in [Blocks -> SUBSET Txs]
         /\ asked' \in [Blocks -> SUBSET Nodes] /\ parent' \in [Blocks -> Blocks \cup {None}]
         /\ blockCnt' \in [Blocks -> (SUBSET Nodes) \cup {None}]
         /\ status' \in [Blocks -> Entries \cup {None}]
<1>1. PICK N \in Asked :
         /\ asked' = [asked EXCEPT ![b] = N]
         /\ blockCnt' = [blockCnt EXCEPT ![b] = {}]
         /\ status' = [status EXCEPT ![b] =
                [Fresh EXCEPT !.number = VerifyNodesNumber, !.waiting = N]]
  BY DEF Start
<1>2. N \in SUBSET Nodes
  BY ThresholdAssumption
<1>3. now \in 0 .. LastStart
  BY SMT, TimeAssumption DEF Start, TypeOK, MaxTime
<1>4. status' \in [Blocks -> Entries \cup {None}]
  BY <1>1, <1>2, EntryTypes DEF TypeOK
<1> QED BY <1>1, <1>2, <1>3, <1>4 DEF Start, TypeOK

\* The initial state is well typed.
LEMMA InitTypeOK == Init => TypeOK
  BY SMT, TimeAssumption DEF Init, TypeOK, MaxTime

\* Every handler, timer step and answer preserves the type invariant.
LEMMA NextTypeOK == TypeOK /\ [Next]_vars => TypeOK'
<1> SUFFICES ASSUME TypeOK, [Next]_vars PROVE TypeOK'
  OBVIOUS
<1>1. CASE Tick
  BY SMT, <1>1, TimeAssumption DEF TypeOK, Tick, header, stored, MaxTime, Kinds
<1>2. ASSUME NEW b \in Blocks, HandleBlock(b) PROVE TypeOK'
  <2>1. PICK T \in Packed, pl \in Places : Start(b, T, pl, None)
    BY <1>2 DEF HandleBlock
  <2>2. T \in SUBSET Txs
    BY DataAssumption
  <2> QED BY <1>2, <2>1, <2>2, StartType DEF HandleBlock, TypeOK
<1>3. ASSUME NEW b \in Blocks, NEW n \in Nodes, Verify(b, n) PROVE TypeOK'
  BY SMT, <1>3 DEF Verify, TypeOK, header, stored, Kinds
<1>4. ASSUME NEW b \in Blocks, NEW n \in Nodes, RefuseSave(b, n) PROVE TypeOK'
  BY SMT, <1>4 DEF RefuseSave, TypeOK, header, stored, Kinds
<1>5. ASSUME NEW b \in Blocks, NEW n \in Nodes, UpdateBlock(b, n) PROVE TypeOK'
  <2>1. mail' \subseteq mail
    BY <1>5 DEF UpdateBlock
  <2>2. blockCnt' \in [Blocks -> (SUBSET Nodes) \cup {None}]
    BY <1>5 DEF UpdateBlock, TypeOK
  <2> QED BY <1>5, <2>1, <2>2 DEF UpdateBlock, TypeOK, header
<1>6. ASSUME NEW b \in Blocks, NEW n \in Nodes, NEW T \in SUBSET Txs, AddBlockStatus(b, n, T)
      PROVE  TypeOK'
  <2>1. mail' \subseteq mail
    BY <1>6 DEF AddBlockStatus
  <2>2. tasks' \subseteq Blocks /\ refused' \subseteq Blocks
    BY <1>6 DEF AddBlockStatus, TypeOK
  <2>3. CASE Awaited(b, n)
    <3>1. status[b] \in Entries
      BY <2>3 DEF Awaited, TypeOK
    <3>2. Heard(status[b], n) \in Entries
      BY <3>1 DEF Heard, Entries
    <3>3. Counted(status[b], n, T) \in Entries
      BY <3>1, EntryTypes
    <3>4. \/ status' = [status EXCEPT ![b] = Heard(status[b], n)]
          \/ status' = [status EXCEPT ![b] = Counted(status[b], n, T)]
      BY <1>6, <2>3 DEF AddBlockStatus
    <3>5. status' \in [Blocks -> Entries \cup {None}]
      <4>1. ASSUME NEW s \in Entries, status' = [status EXCEPT ![b] = s]
            PROVE  status' \in [Blocks -> Entries \cup {None}]
        BY <4>1 DEF TypeOK
      <4> QED BY <3>2, <3>3, <3>4, <4>1
    <3> QED BY <1>6, <2>1, <2>2, <3>5 DEF AddBlockStatus, TypeOK, header
  <2>4. CASE ~Awaited(b, n)
    BY <1>6, <2>1, <2>2, <2>4 DEF AddBlockStatus, TypeOK, header
  <2> QED BY <2>3, <2>4
<1>7. ASSUME NEW b \in Blocks, BlockCheck(b) PROVE TypeOK'
  <2>1. ASSUME NEW L \in Reached
        PROVE  ToLevel1(IF status[b] = None THEN Fresh ELSE status[b], L) \in Entries
    BY EntryTypes, ThresholdAssumption DEF TypeOK
  <2>2. \/ \E L \in Reached :
             status' = [status EXCEPT ![b] =
                           ToLevel1(IF status[b] = None THEN Fresh ELSE status[b], L)]
        \/ status' = [status EXCEPT ![b] = IF status[b] = None THEN Fresh ELSE status[b]]
        \/ status' = status
    BY <1>7 DEF BlockCheck
  <2>3. status' \in [Blocks -> Entries \cup {None}]
    <3>1. ASSUME NEW s \in Entries, status' = [status EXCEPT ![b] = s]
          PROVE  status' \in [Blocks -> Entries \cup {None}]
      BY <3>1 DEF TypeOK
    <3>2. (IF status[b] = None THEN Fresh ELSE status[b]) \in Entries
      BY EntryTypes DEF TypeOK
    <3>3. status \in [Blocks -> Entries \cup {None}]
      BY DEF TypeOK
    <3> QED BY <2>1, <2>2, <3>1, <3>2, <3>3
  <2> QED BY <1>7, <2>3 DEF BlockCheck, TypeOK, header
<1>8. ASSUME NEW b \in Blocks, ExpiredDeleteCheck(b) PROVE TypeOK'
  BY <1>8 DEF ExpiredDeleteCheck, TypeOK, header
<1>9. ASSUME NEW b \in Blocks, NewbuildCollect(b) PROVE TypeOK'
  <2>1. status' \in [Blocks -> Entries \cup {None}]
    BY <1>9, EntryTypes DEF NewbuildCollect, TypeOK
  <2>2. building' \subseteq Blocks \X SUBSET Txs
    BY SMT, <1>9 DEF NewbuildCollect, TypeOK
  <2> QED BY <1>9, <2>1, <2>2 DEF NewbuildCollect, TypeOK, header
<1>10. ASSUME NEW b \in Blocks, NEW T \in SUBSET Txs, NewbuildFail(b, T) PROVE TypeOK'
  BY <1>10 DEF NewbuildFail, TypeOK, header
<1>11. ASSUME NEW b \in Blocks, NEW T \in SUBSET Txs, NEW nb \in Blocks, NewbuildSend(b, T, nb)
       PROVE  TypeOK'
  <2>1. PICK pl \in Places : Start(nb, T, pl, b)
    BY <1>11 DEF NewbuildSend
  <2> QED BY <1>11, <2>1, StartType DEF NewbuildSend, TypeOK
<1>12. CASE UNCHANGED vars
  BY <1>12 DEF vars, header, stored, TypeOK
<1> QED BY <1>1, <1>2, <1>3, <1>4, <1>5, <1>6, <1>7, <1>8, <1>9, <1>10, <1>11, <1>12 DEF Next, Timer

-----------------------------------------------------------------------------
(* The quorums.                                                            *)

\* The two thresholds together exceed the number of nodes asked.
LEMMA NotBoth ==
  ASSUME TypeOK, Answers, NEW b \in Blocks,
         Cardinality(SignedBy(b)) + 1 >= kConsensus,
         Cardinality(FailedBy(b)) >= VerifyNodesNumber
  PROVE  FALSE
<1> DEFINE S == SignedBy(b)
           F == FailedBy(b)
<1>1. /\ S \subseteq asked[b] /\ F \subseteq asked[b] /\ S \cap F = {}
      /\ asked[b] \in SUBSET Nodes
  BY DEF Answers, TypeOK
<1>2. Cardinality(asked[b]) <= KSend
  <2>1. asked[b] = {} \/ asked[b] \in Asked
    BY DEF Answers
  <2>2. Cardinality({}) = 0
    BY FS_EmptySet
  <2>3. CASE asked[b] = {}
    BY SMT, <2>2, <2>3, ThresholdAssumption
  <2>4. CASE asked[b] \in Asked
    BY <2>4, ThresholdAssumption
  <2> QED BY <2>1, <2>3, <2>4
<1>3. Cardinality(S) + 1 >= kConsensus /\ Cardinality(F) >= KSend - kConsensus + 2
  BY DEF VerifyNodesNumber
<1> HIDE DEF S, F
<1>4. IsFiniteSet(S) /\ IsFiniteSet(F) /\ Cardinality(S) \in Nat /\ Cardinality(F) \in Nat
  BY <1>1, NodesFinite
<1>5. Cardinality(S \cup F) = Cardinality(S) + Cardinality(F)
  <2>1. Cardinality(S \cap F) = 0
    BY <1>1, FS_EmptySet
  <2>2. Cardinality(S \cup F) = Cardinality(S) + Cardinality(F) - Cardinality(S \cap F)
    BY <1>4, FS_Union
  <2> QED BY SMT, <1>4, <2>1, <2>2
<1>6. Cardinality(S \cup F) <= Cardinality(asked[b]) /\ Cardinality(asked[b]) \in Nat
  BY <1>1, NodesFinite, FS_Subset
<1> QED BY SMT, <1>2, <1>3, <1>4, <1>5, <1>6, ThresholdAssumption

\* So no block is both broadcast and rejected.
LEMMA OneWay == TypeOK /\ Answers /\ Quorums => DecidedOneWay
<1> SUFFICES ASSUME TypeOK, Answers, Quorums, NEW b \in cast, b \in refused PROVE FALSE
  BY DEF DecidedOneWay
<1>1. b \in Blocks /\ Cardinality(SignedBy(b)) + 1 >= kConsensus
  BY DEF Quorums, TypeOK
<1>2. Cardinality(FailedBy(b)) >= VerifyNodesNumber
  BY DEF Quorums
<1> QED BY <1>1, <1>2, NotBoth

\* A larger set of nodes has no smaller size.
LEMMA Grows == ASSUME NEW S \in SUBSET Nodes, NEW T \in SUBSET S
               PROVE  /\ Cardinality(T) <= Cardinality(S)
                      /\ Cardinality(T) \in Nat /\ Cardinality(S) \in Nat
  BY NodesFinite, FS_Subset

\* What a start does to the block started.
LEMMA StartEffect ==
  ASSUME TypeOK, NEW b \in Blocks, NEW T \in SUBSET Txs, NEW pl \in Places,
         NEW from \in Blocks \cup {None}, Start(b, T, pl, from)
  PROVE  /\ born[b] = None /\ born'[b] # None /\ parent'[b] = from
         /\ asked'[b] \in Asked /\ blockCnt'[b] = {}
         /\ status'[b].list = {} /\ status'[b].number = VerifyNodesNumber
         /\ status'[b].stage = "verify" /\ status'[b].block
<1>1. PICK N \in Asked :
         /\ asked' = [asked EXCEPT ![b] = N]
         /\ blockCnt' = [blockCnt EXCEPT ![b] = {}]
         /\ status' = [status EXCEPT ![b] =
                [Fresh EXCEPT !.number = VerifyNodesNumber, !.waiting = N]]
  BY DEF Start
<1>2. now # None
  BY SMT, DataAssumption DEF TypeOK
<1>3. status'[b] = [Fresh EXCEPT !.number = VerifyNodesNumber, !.waiting = N]
  BY <1>1 DEF TypeOK
<1>4. /\ status'[b].list = {} /\ status'[b].number = VerifyNodesNumber
      /\ status'[b].stage = "verify" /\ status'[b].block
  BY <1>3 DEF Fresh, Blank
<1> QED BY <1>1, <1>2, <1>4 DEF Start, TypeOK

\* What is true of a block that was not started stays true.
LEMMA NextUntouched == TypeOK /\ Untouched /\ [Next]_vars => Untouched'
<1> SUFFICES ASSUME TypeOK, Untouched, [Next]_vars PROVE Untouched'
  OBVIOUS
<1>1. ASSUME NEW b \in Blocks, NEW T \in SUBSET Txs, NEW pl \in Places,
             NEW from \in Blocks \cup {None}, Start(b, T, pl, from), cast' = cast
      PROVE  Untouched'
  <2>1. born'[b] # None
    BY <1>1, StartEffect
  <2>2. \A d \in Blocks : d # b =>
          /\ born'[d] = born[d] /\ asked'[d] = asked[d] /\ parent'[d] = parent[d]
          /\ blockCnt'[d] = blockCnt[d]
    BY <1>1 DEF Start, TypeOK
  <2> QED BY <1>1, <2>1, <2>2 DEF Untouched
<1>2. ASSUME NEW b \in Blocks, HandleBlock(b) PROVE Untouched'
  <2>1. PICK T \in Packed, pl \in Places : Start(b, T, pl, None)
    BY <1>2 DEF HandleBlock
  <2> QED BY <1>1, <1>2, <2>1, DataAssumption DEF HandleBlock
<1>3. ASSUME NEW b \in Blocks, NEW T \in SUBSET Txs, NEW nb \in Blocks, NewbuildSend(b, T, nb)
      PROVE  Untouched'
  BY <1>1, <1>3 DEF NewbuildSend
<1>4. ASSUME NEW b \in Blocks, NEW n \in Nodes, UpdateBlock(b, n) PROVE Untouched'
  BY <1>4 DEF UpdateBlock, Untouched, header, TypeOK
<1>5. ASSUME NEW b \in Blocks, BlockCheck(b) PROVE Untouched'
  BY <1>5 DEF BlockCheck, Untouched, header, TypeOK
<1>6. CASE UNCHANGED <<header, blockCnt, cast>>
  BY <1>6 DEF Untouched, header
<1>7. CASE Tick \/ UNCHANGED vars
  BY <1>6, <1>7 DEF Tick, vars, stored
<1>8. ASSUME NEW b \in Blocks, NEW n \in Nodes, NEW T \in SUBSET Txs,
             Verify(b, n) \/ RefuseSave(b, n) \/ AddBlockStatus(b, n, T)
      PROVE  Untouched'
  BY <1>6, <1>8 DEF Verify, RefuseSave, AddBlockStatus, stored
<1>9. ASSUME NEW b \in Blocks, NEW T \in SUBSET Txs,
             ExpiredDeleteCheck(b) \/ NewbuildCollect(b) \/ NewbuildFail(b, T)
      PROVE  Untouched'
  BY <1>6, <1>9 DEF ExpiredDeleteCheck, NewbuildCollect, NewbuildFail
<1> QED
  BY <1>2, <1>3, <1>4, <1>5, <1>7, <1>8, <1>9 DEF Next, Timer

\* Nodes go on answering once, and only when asked.
LEMMA NextAnswers == TypeOK /\ Untouched /\ Answers /\ [Next]_vars => Answers'
<1> SUFFICES ASSUME TypeOK, Untouched, Answers, [Next]_vars PROVE Answers'
  OBVIOUS
<1>1. ASSUME NEW b \in Blocks, NEW T \in SUBSET Txs, NEW pl \in Places,
             NEW from \in Blocks \cup {None}, Start(b, T, pl, from),
             UNCHANGED <<mail, answered, cast>>
      PROVE  Answers'
  <2>1. SignedBy(b) = {} /\ FailedBy(b) = {}
    <3>1. born[b] = None
      BY <1>1, StartEffect
    <3> QED BY <3>1 DEF Untouched, Answers
  <2>2. \A d \in Blocks : SignedBy(d)' = SignedBy(d) /\ FailedBy(d)' = FailedBy(d)
    BY <1>1 DEF SignedBy, FailedBy
  <2>3. asked'[b] \in Asked /\ blockCnt'[b] = {}
    BY <1>1, StartEffect
  <2>4. \A d \in Blocks : d # b => asked'[d] = asked[d] /\ blockCnt'[d] = blockCnt[d]
    BY <1>1 DEF Start, TypeOK
  <2> QED BY SMT, <1>1, <2>1, <2>2, <2>3, <2>4 DEF Answers
<1>2. ASSUME NEW b \in Blocks, HandleBlock(b) PROVE Answers'
  <2>1. PICK T \in Packed, pl \in Places : Start(b, T, pl, None)
    BY <1>2 DEF HandleBlock
  <2> QED BY <1>1, <1>2, <2>1, DataAssumption DEF HandleBlock
<1>3. ASSUME NEW b \in Blocks, NEW T \in SUBSET Txs, NEW nb \in Blocks, NewbuildSend(b, T, nb)
      PROVE  Answers'
  BY <1>1, <1>3 DEF NewbuildSend
<1>4. ASSUME NEW b \in Blocks, NEW n \in Nodes, Verify(b, n) PROVE Answers'
  <2>1. n \in asked[b] /\ n \notin SignedBy(b) /\ n \notin FailedBy(b)
    BY <1>4 DEF Verify, SignedBy, FailedBy
  <2>2. asked' = asked /\ blockCnt' = blockCnt /\ cast' = cast
    BY <1>4 DEF Verify, header, stored
  <2>3. CASE /\ mail' = mail \cup {<<"sign", b, n, {}>>}
             /\ answered' = answered \cup {<<"sign", b, n>>}
    <3>1. \A d \in Blocks : /\ FailedBy(d)' = FailedBy(d)
                            /\ SignedBy(d)' = IF d = b THEN SignedBy(d) \cup {n} ELSE SignedBy(d)
      BY <2>3 DEF SignedBy, FailedBy
    <3> QED BY SMT, <2>1, <2>2, <2>3, <3>1 DEF Answers
  <2>4. ASSUME NEW T \in SUBSET txs[b], mail' = mail \cup {<<"fail", b, n, T>>},
               answered' = answered \cup {<<"fail", b, n>>}
        PROVE  Answers'
    <3>1. \A d \in Blocks : /\ SignedBy(d)' = SignedBy(d)
                            /\ FailedBy(d)' = IF d = b THEN FailedBy(d) \cup {n} ELSE FailedBy(d)
      BY <2>4 DEF SignedBy, FailedBy
    <3> QED BY SMT, <2>1, <2>2, <2>4, <3>1 DEF Answers
  <2> QED BY <1>4, <2>3, <2>4 DEF Verify
<1>5. ASSUME NEW b \in Blocks, NEW n \in Nodes, RefuseSave(b, n) PROVE Answers'
  <2>1. PICK T \in SUBSET txs[b] : mail' = mail \cup {<<"fail", b, n, T>>}
    BY <1>5 DEF RefuseSave
  <2>2. \A d \in Blocks : SignedBy(d)' = SignedBy(d) /\ FailedBy(d)' = FailedBy(d)
    BY <1>5 DEF RefuseSave, SignedBy, FailedBy
  <2> QED BY <1>5, <2>1, <2>2 DEF RefuseSave, Answers, header, stored
<1>6. ASSUME mail' \subseteq mail, UNCHANGED <<answered, asked>>, cast \subseteq cast',
             \A d \in Blocks : blockCnt'[d] # None => blockCnt'[d] \subseteq SignedBy(d)
      PROVE  Answers'
  <2>1. \A d \in Blocks : SignedBy(d)' = SignedBy(d) /\ FailedBy(d)' = FailedBy(d)
    BY <1>6 DEF SignedBy, FailedBy
  <2> QED BY <1>6, <2>1 DEF Answers
<1>7. ASSUME NEW b \in Blocks, NEW n \in Nodes, UpdateBlock(b, n) PROVE Answers'
  <2>1. n \in SignedBy(b)
    BY <1>7 DEF UpdateBlock, Answers
  <2>2. \A d \in Blocks : blockCnt'[d] # None => blockCnt'[d] \subseteq SignedBy(d)
    BY <1>7, <2>1 DEF UpdateBlock, Answers, TypeOK
  <2> QED BY <1>6, <1>7, <2>2 DEF UpdateBlock, header
<1>8. ASSUME NEW b \in Blocks, BlockCheck(b) PROVE Answers'
  <2>1. \A d \in Blocks : blockCnt'[d] # None => blockCnt'[d] \subseteq SignedBy(d)
    BY <1>8 DEF BlockCheck, Answers, TypeOK
  <2> QED BY <1>6, <1>8, <2>1 DEF BlockCheck, header
<1>9. CASE UNCHANGED <<header, answered, blockCnt, cast>> /\ mail' \subseteq mail
  BY <1>6, <1>9 DEF header, Answers
<1>10. CASE Tick \/ UNCHANGED vars
  BY <1>9, <1>10 DEF Tick, vars, stored
<1>11. ASSUME NEW b \in Blocks, NEW n \in Nodes, NEW T \in SUBSET Txs, AddBlockStatus(b, n, T)
       PROVE  Answers'
  BY <1>9, <1>11 DEF AddBlockStatus
<1>12. ASSUME NEW b \in Blocks, NEW T \in SUBSET Txs,
              ExpiredDeleteCheck(b) \/ NewbuildCollect(b) \/ NewbuildFail(b, T)
       PROVE  Answers'
  BY <1>9, <1>12 DEF ExpiredDeleteCheck, NewbuildCollect, NewbuildFail
<1> QED
  BY <1>2, <1>3, <1>4, <1>5, <1>7, <1>8, <1>10, <1>11, <1>12 DEF Next, Timer

\* A node that refuses stays one that refused.
LEMMA AnswersGrow ==
  ASSUME [Next]_vars
  PROVE  \A b \in Blocks : SignedBy(b) \subseteq SignedBy(b)' /\ FailedBy(b) \subseteq FailedBy(b)'
<1>1. answered \subseteq answered'
  <2>1. CASE Tick \/ UNCHANGED vars
    BY <2>1 DEF Tick, vars
  <2>2. ASSUME NEW b \in Blocks, NEW n \in Nodes, NEW T \in SUBSET Txs,
               \/ Verify(b, n) \/ RefuseSave(b, n) \/ UpdateBlock(b, n)
               \/ AddBlockStatus(b, n, T)
        PROVE  answered \subseteq answered'
    BY <2>2 DEF Verify, RefuseSave, UpdateBlock, AddBlockStatus
  <2>3. ASSUME NEW b \in Blocks, NEW T \in SUBSET Txs, NEW nb \in Blocks,
               \/ HandleBlock(b) \/ BlockCheck(b) \/ ExpiredDeleteCheck(b)
               \/ NewbuildCollect(b) \/ NewbuildFail(b, T) \/ NewbuildSend(b, T, nb)
        PROVE  answered \subseteq answered'
    BY <2>3 DEF HandleBlock, BlockCheck, ExpiredDeleteCheck, NewbuildCollect, NewbuildFail,
       NewbuildSend
  <2> QED BY <2>1, <2>2, <2>3 DEF Next, Timer
<1> QED BY <1>1 DEF SignedBy, FailedBy

\* The handlers keep the entries as Entry describes them.
LEMMA NextEntry == TypeOK /\ Untouched /\ Answers /\ Entry /\ [Next]_vars => Entry'
<1> SUFFICES ASSUME TypeOK, Untouched, Answers, Entry, [Next]_vars PROVE Entry'
  OBVIOUS
<1>1. \A d \in Blocks : FailedBy(d) \subseteq FailedBy(d)'
  BY AnswersGrow
<1>2. ASSUME NEW d \in Blocks, d \in cast' <=> d \in cast, status'[d] = status[d]
      PROVE  status'[d] # None => EntryOK(d)'
  BY <1>1, <1>2 DEF Entry, EntryOK
<1>3. ASSUME NEW b \in Blocks, NEW T \in SUBSET Txs, NEW pl \in Places,
             NEW from \in Blocks \cup {None}, Start(b, T, pl, from), cast' = cast
      PROVE  Entry'
  <2>1. b \notin cast
    <3>1. born[b] = None
      BY <1>3, StartEffect
    <3> QED BY <3>1 DEF Untouched
  <2>2. EntryOK(b)'
    BY <1>3, <2>1, StartEffect DEF EntryOK
  <2>3. \A d \in Blocks : d # b => status'[d] = status[d]
    BY <1>3 DEF Start, TypeOK
  <2> QED BY <1>2, <1>3, <2>2, <2>3 DEF Entry
<1>4. ASSUME NEW b \in Blocks, HandleBlock(b) PROVE Entry'
  <2>1. PICK T \in Packed, pl \in Places : Start(b, T, pl, None)
    BY <1>4 DEF HandleBlock
  <2> QED BY <1>3, <1>4, <2>1, DataAssumption DEF HandleBlock
<1>5. ASSUME NEW b \in Blocks, NEW T \in SUBSET Txs, NEW nb \in Blocks, NewbuildSend(b, T, nb)
      PROVE  Entry'
  BY <1>3, <1>5 DEF NewbuildSend
<1>6. ASSUME NEW b \in Blocks, NEW n \in Nodes, NEW T \in SUBSET Txs, AddBlockStatus(b, n, T)
      PROVE  Entry'
  <2>1. \A d \in Blocks : d # b => status'[d] = status[d]
    BY <1>6 DEF AddBlockStatus, TypeOK
  <2>2. CASE ~Awaited(b, n)
    BY <1>2, <1>6, <2>2 DEF AddBlockStatus, Entry
  <2>3. CASE Awaited(b, n)
    <3>1. status[b] \in Entries /\ EntryOK(b) /\ n \in status[b].waiting
      BY <2>3 DEF Awaited, TypeOK, Entry
    <3>2. n \in FailedBy(b) \/ b \in cast
      BY <1>6 DEF AddBlockStatus, Answers
    <3>3. status'[b] = Heard(status[b], n) \/ status'[b] = Counted(status[b], n, T)
      BY <1>6, <2>3 DEF AddBlockStatus, TypeOK
    <3>4. cast' = cast
      BY <1>6 DEF AddBlockStatus
    <3>5. ASSUME status'[b] = Heard(status[b], n) PROVE EntryOK(b)'
      <4>1. /\ status'[b].waiting = status[b].waiting \ {n} /\ status'[b].list = status[b].list
            /\ status'[b].stage = status[b].stage /\ status'[b].number = status[b].number
        BY <3>1, <3>5 DEF Heard, Entries
      <4> QED BY <1>1, <3>1, <3>4, <4>1 DEF EntryOK
    <3>6. ASSUME status'[b] = Counted(status[b], n, T) PROVE EntryOK(b)'
      <4>1. /\ status'[b].waiting = status[b].waiting \ {n}
            /\ status'[b].list = status[b].list \cup {n}
            /\ status'[b].stage = status[b].stage /\ status'[b].number = status[b].number
        BY <3>1, <3>6 DEF Counted, Heard, Entries
      <4> QED BY <1>1, <3>1, <3>2, <3>4, <4>1 DEF EntryOK
    <3>7. EntryOK(b)'
      BY <3>3, <3>5, <3>6
    <3> QED BY <1>2, <2>1, <3>4, <3>7 DEF Entry
  <2> QED BY <2>2, <2>3
<1>7. ASSUME NEW b \in Blocks, BlockCheck(b) PROVE Entry'
  <2>1. \A d \in Blocks : d # b => status'[d] = status[d] /\ (d \in cast' <=> d \in cast)
    BY SMT, <1>7 DEF BlockCheck, TypeOK
  <2>2. status'[b] # None => EntryOK(b)'
    <3>1. CASE status'[b] = status[b] /\ cast' = cast
      BY <1>2, <3>1
    <3>2. CASE status'[b] = Fresh
      BY <3>2 DEF Fresh, Blank, EntryOK
    <3>3. ASSUME NEW L \in Reached, b \in cast',
                 status'[b] = ToLevel1(IF status[b] = None THEN Fresh ELSE status[b], L)
          PROVE  EntryOK(b)'
      <4>1. (IF status[b] = None THEN Fresh ELSE status[b]) \in Entries
        BY EntryTypes DEF TypeOK
      <4>2. status'[b].list = {} /\ status'[b].stage = "level1"
        BY <3>3, <4>1 DEF ToLevel1, Entries
      <4> QED BY <3>3, <4>2 DEF EntryOK
    <3> QED BY <1>7, <3>1, <3>2, <3>3 DEF BlockCheck, TypeOK
  <2> QED BY <1>2, <2>1, <2>2 DEF Entry
<1>8. ASSUME NEW b \in Blocks, ExpiredDeleteCheck(b) PROVE Entry'
  BY <1>2, <1>8 DEF ExpiredDeleteCheck, Entry, TypeOK
<1>9. ASSUME NEW b \in Blocks, NewbuildCollect(b) PROVE Entry'
  <2>1. CASE status' = status
    BY <1>2, <1>9, <2>1 DEF NewbuildCollect, Entry
  <2>2. CASE status' = [status EXCEPT ![b] = Blank]
    <3>1. status'[b] = Blank
      BY <2>2 DEF TypeOK
    <3>2. EntryOK(b)'
      BY SMT, <3>1 DEF Blank, EntryOK
    <3>3. \A d \in Blocks : d # b => status'[d] = status[d]
      BY <2>2 DEF TypeOK
    <3> QED BY <1>2, <1>9, <3>2, <3>3 DEF NewbuildCollect, Entry
  <2> QED BY <1>9, <2>1, <2>2 DEF NewbuildCollect
<1>10. CASE UNCHANGED <<status, cast>>
  BY <1>2, <1>10 DEF Entry
<1>11. CASE Tick \/ UNCHANGED vars
  BY <1>10, <1>11 DEF Tick, vars, stored
<1>12. ASSUME NEW b \in Blocks, NEW n \in Nodes, NEW T \in SUBSET Txs,
              Verify(b, n) \/ RefuseSave(b, n) \/ UpdateBlock(b, n)
       PROVE  Entry'
  BY <1>10, <1>12 DEF Verify, RefuseSave, UpdateBlock, stored
<1>13. ASSUME NEW b \in Blocks, NEW T \in SUBSET Txs, NewbuildFail(b, T) PROVE Entry'
  BY <1>10, <1>13 DEF NewbuildFail
<1> QED
  BY <1>4, <1>5, <1>6, <1>7, <1>8, <1>9, <1>11, <1>12, <1>13 DEF Next, Timer

\* A broadcast needs its signatures, a task of the first stage its refusals.
LEMMA NextQuorums ==
  TypeOK /\ Untouched /\ Answers /\ Entry /\ Quorums /\ [Next]_vars => Quorums'
<1> SUFFICES ASSUME TypeOK, Untouched, Answers, Entry, Quorums, [Next]_vars PROVE Quorums'
  OBVIOUS
<1>1. ASSUME NEW b \in Blocks
      PROVE  /\ Cardinality(SignedBy(b)) <= Cardinality(SignedBy(b)')
             /\ Cardinality(FailedBy(b)) <= Cardinality(FailedBy(b)')
             /\ Cardinality(SignedBy(b)) \in Nat /\ Cardinality(SignedBy(b)') \in Nat
             /\ Cardinality(FailedBy(b)) \in Nat /\ Cardinality(FailedBy(b)') \in Nat
  <2>1. SignedBy(b)' \in SUBSET Nodes /\ FailedBy(b)' \in SUBSET Nodes
    BY DEF SignedBy, FailedBy
  <2>2. SignedBy(b) \in SUBSET SignedBy(b)' /\ FailedBy(b) \in SUBSET FailedBy(b)'
    BY AnswersGrow
  <2> QED BY <2>1, <2>2, Grows
<1>2. ASSUME NEW d \in cast
      PROVE  Cardinality(SignedBy(d)') + 1 >= kConsensus
  <2>1. d \in Blocks /\ Cardinality(SignedBy(d)) + 1 >= kConsensus
    BY DEF Quorums, TypeOK
  <2> QED BY SMT, <1>1, <2>1, ThresholdAssumption
<1>3. ASSUME NEW d \in refused
      PROVE  Cardinality(FailedBy(d)') >= VerifyNodesNumber
  <2>1. d \in Blocks /\ Cardinality(FailedBy(d)) >= VerifyNodesNumber
    BY DEF Quorums, TypeOK
  <2> QED BY SMT, <1>1, <2>1, ThresholdType
<1>4. ASSUME UNCHANGED <<cast, refused>>, \A d \in cast : blockCnt'[d] = None
      PROVE  Quorums'
  BY <1>2, <1>3, <1>4 DEF Quorums
<1>5. ASSUME NEW b \in Blocks, NEW T \in SUBSET Txs, NEW pl \in Places,
             NEW from \in Blocks \cup {None}, Start(b, T, pl, from), UNCHANGED <<cast, refused>>
      PROVE  Quorums'
  <2>1. b \notin cast
    <3>1. born[b] = None
      BY <1>5, StartEffect
    <3> QED BY <3>1 DEF Untouched
  <2>2. \A d \in Blocks : d # b => blockCnt'[d] = blockCnt[d]
    BY <1>5 DEF Start, TypeOK
  <2>3. \A d \in cast : blockCnt'[d] = None
    BY <2>1, <2>2 DEF Quorums, TypeOK
  <2> QED BY <1>4, <1>5, <2>3
<1>6. ASSUME NEW b \in Blocks, HandleBlock(b) PROVE Quorums'
  <2>1. PICK T \in Packed, pl \in Places : Start(b, T, pl, None)
    BY <1>6 DEF HandleBlock
  <2> QED BY <1>5, <1>6, <2>1, DataAssumption DEF HandleBlock
<1>7. ASSUME NEW b \in Blocks, NEW T \in SUBSET Txs, NEW nb \in Blocks, NewbuildSend(b, T, nb)
      PROVE  Quorums'
  BY <1>5, <1>7 DEF NewbuildSend
<1>8. ASSUME NEW b \in Blocks, NEW n \in Nodes, UpdateBlock(b, n) PROVE Quorums'
  <2>1. \A d \in cast : blockCnt'[d] = None
    BY <1>8 DEF UpdateBlock, Quorums, TypeOK
  <2> QED BY <1>4, <1>8, <2>1 DEF UpdateBlock
<1>9. ASSUME NEW b \in Blocks, NEW n \in Nodes, NEW T \in SUBSET Txs, AddBlockStatus(b, n, T)
      PROVE  Quorums'
  <2>1. cast' = cast /\ blockCnt' = blockCnt
    BY <1>9 DEF AddBlockStatus
  <2>2. CASE refused' = refused
    BY <1>4, <2>1, <2>2 DEF Quorums
  <2>3. CASE refused' # refused
    <3>1. /\ Awaited(b, n) /\ refused' = refused \cup {b} /\ status[b].stage = "verify"
          /\ Commits(status'[b]) /\ status' = [status EXCEPT ![b] = Counted(status[b], n, T)]
      BY <1>9, <2>3 DEF AddBlockStatus
    <3>2. status[b] \in Entries /\ EntryOK(b) /\ n \in status[b].waiting
      BY <3>1 DEF Awaited, TypeOK, Entry
    <3>3. /\ status[b].number = VerifyNodesNumber /\ status[b].list \subseteq FailedBy(b)
          /\ b \notin cast
      BY <3>1, <3>2 DEF EntryOK
    <3>4. n \in FailedBy(b)
      BY <1>9, <3>3 DEF AddBlockStatus, Answers
    <3>5. status'[b] = Counted(status[b], n, T)
      BY <3>1 DEF TypeOK
    <3>6. /\ status'[b].list = status[b].list \cup {n}
          /\ status'[b].stage = "verify" /\ status'[b].number = VerifyNodesNumber
      <4>1. status[b].stage = "verify"
        BY <3>1
      <4> QED BY <3>2, <3>3, <3>5, <4>1 DEF Counted, Heard, Entries
    <3>7. Cardinality(status[b].list \cup {n}) = VerifyNodesNumber
      BY <3>1, <3>6 DEF Commits, Threshold
    <3>8. status[b].list \cup {n} \in SUBSET FailedBy(b) /\ FailedBy(b) \in SUBSET Nodes
      BY <3>3, <3>4 DEF FailedBy
    <3>9. Cardinality(FailedBy(b)) >= VerifyNodesNumber
      <4>1. Cardinality(status[b].list \cup {n}) <= Cardinality(FailedBy(b))
        BY <3>8, Grows
      <4> QED BY <1>1, <3>7, <4>1, ThresholdType
    <3>10. Cardinality(FailedBy(b)') >= VerifyNodesNumber
      BY SMT, <1>1, <3>9, ThresholdType
    <3> QED BY <1>2, <1>3, <2>1, <3>1, <3>10 DEF Quorums
  <2> QED BY <2>2, <2>3
<1>10. ASSUME NEW b \in Blocks, BlockCheck(b) PROVE Quorums'
  <2>1. /\ refused' = refused /\ blockCnt'[b] = None
        /\ \A d \in Blocks : d # b => blockCnt'[d] = blockCnt[d]
    BY <1>10 DEF BlockCheck, TypeOK
  <2>2. CASE cast' = cast
    <3>1. \A d \in cast : blockCnt'[d] = None
      BY <2>1 DEF Quorums, TypeOK
    <3> QED BY <1>4, <2>1, <2>2, <3>1
  <2>3. CASE cast' # cast
    <3>1. cast' = cast \cup {b} /\ Signed(b) /\ blockCnt[b] # None
      BY <1>10, <2>3 DEF BlockCheck
    <3>2. blockCnt[b] \in SUBSET SignedBy(b) /\ SignedBy(b) \in SUBSET Nodes
      BY <3>1 DEF Answers, SignedBy
    <3>3. Cardinality(SignedBy(b)) + 1 >= kConsensus
      BY SMT, <3>1, <3>2, Grows, ThresholdAssumption DEF Signed
    <3>4. Cardinality(SignedBy(b)') + 1 >= kConsensus
      BY SMT, <1>1, <3>3, ThresholdAssumption
    <3>5. \A d \in cast' : blockCnt'[d] = None
      BY <2>1, <3>1 DEF Quorums, TypeOK
    <3> QED BY <1>2, <1>3, <2>1, <3>1, <3>4, <3>5 DEF Quorums
  <2> QED BY <2>2, <2>3
<1>11. CASE UNCHANGED <<cast, refused, blockCnt>>
  BY <1>4, <1>11 DEF Quorums
<1>12. CASE Tick \/ UNCHANGED vars
  BY <1>11, <1>12 DEF Tick, vars, stored
<1>13. ASSUME NEW b \in Blocks, NEW n \in Nodes, Verify(b, n) \/ RefuseSave(b, n) PROVE Quorums'
  BY <1>11, <1>13 DEF Verify, RefuseSave, stored
<1>14. ASSUME NEW b \in Blocks, NEW T \in SUBSET Txs,
              ExpiredDeleteCheck(b) \/ NewbuildCollect(b) \/ NewbuildFail(b, T)
       PROVE  Quorums'
  BY <1>11, <1>14 DEF ExpiredDeleteCheck, NewbuildCollect, NewbuildFail
<1> QED
  BY <1>6, <1>7, <1>8, <1>9, <1>10, <1>12, <1>13, <1>14 DEF Next, Timer

\* A block that is to be built again, or was, has been started.
LEMMA CommittedStarted ==
  ASSUME IInv, NEW b \in Blocks, Committed(b)
  PROVE  born[b] # None
<1> SUFFICES ASSUME born[b] = None PROVE FALSE
  OBVIOUS
<1> USE DEF IInv
<1>1. b \in refused /\ FailedBy(b) = {}
  BY DEF Settled, Untouched, Answers
<1>2. Cardinality({}) >= VerifyNodesNumber
  BY <1>1 DEF Quorums
<1>3. Cardinality({}) = 0
  BY FS_EmptySet
<1> QED BY SMT, <1>2, <1>3, ThresholdAssumption DEF VerifyNodesNumber

\* A block that awaits refusals and is short of its threshold has no task yet;
\* from the task on there is one new block at most.
LEMMA NextSettled ==
  IInv /\ [Next]_vars => Settled' /\ RebuiltOnce'
<1> SUFFICES ASSUME IInv, [Next]_vars PROVE Settled' /\ RebuiltOnce'
  OBVIOUS
<1> USE DEF IInv
<1>1. \A b \in Blocks : Committed(b) => born[b] # None
  BY CommittedStarted
<1>2. ASSUME UNCHANGED <<tasks, building, parent>>, cast \subseteq cast', refused \subseteq refused',
             \A d \in Blocks : Committed(d) => Idle(d)'
      PROVE  Settled' /\ RebuiltOnce'
  <2>1. \A d \in Blocks : /\ Building(d)' <=> Building(d)
                          /\ Rebuilt(d)' <=> Rebuilt(d)
                          /\ Committed(d)' <=> Committed(d)
    BY <1>2 DEF Building, Rebuilt, Committed
  <2>2. RebuiltOnce'
    BY <1>2 DEF RebuiltOnce
  <2> QED BY <1>2, <2>1, <2>2 DEF Settled
<1>3. ASSUME NEW d \in Blocks, Committed(d), status'[d] = status[d] \/ status'[d] = None
      PROVE  Idle(d)'
  BY <1>3 DEF Settled, Idle
<1>4. CASE UNCHANGED <<tasks, building, parent, cast, refused, status>>
  BY <1>2, <1>3, <1>4
<1>5. CASE Tick \/ UNCHANGED vars
  BY <1>4, <1>5 DEF Tick, vars, stored, header
<1>6. ASSUME NEW b \in Blocks, NEW n \in Nodes,
             Verify(b, n) \/ RefuseSave(b, n) \/ UpdateBlock(b, n)
      PROVE  Settled' /\ RebuiltOnce'
  BY <1>4, <1>6 DEF Verify, RefuseSave, UpdateBlock, stored, header
<1>7. ASSUME NEW b \in Blocks, ExpiredDeleteCheck(b) PROVE Settled' /\ RebuiltOnce'
  <2>1. \A d \in Blocks : status'[d] = status[d] \/ status'[d] = None
    BY <1>7 DEF ExpiredDeleteCheck, TypeOK
  <2> QED BY <1>2, <1>3, <1>7, <2>1 DEF ExpiredDeleteCheck, header
<1>8. ASSUME NEW b \in Blocks, HandleBlock(b) PROVE Settled' /\ RebuiltOnce'
  <2>1. PICK T \in Packed, pl \in Places : Start(b, T, pl, None)
    BY <1>8 DEF HandleBlock
  <2>2. born[b] = None /\ parent[b] = None
    BY <2>1 DEF Start, Untouched
  <2>3. parent' = parent
    BY <2>1, <2>2 DEF Start, TypeOK
  <2>4. \A d \in Blocks : d # b => status'[d] = status[d]
    BY <2>1 DEF Start, TypeOK
  <2>5. \A d \in Blocks : Committed(d) => Idle(d)'
    BY <1>1, <1>3, <2>2, <2>4
  <2> QED BY <1>2, <1>8, <2>3, <2>5 DEF HandleBlock
<1>9. ASSUME NEW b \in Blocks, BlockCheck(b) PROVE Settled' /\ RebuiltOnce'
  <2>1. \A d \in Blocks : d # b => status'[d] = status[d]
    BY <1>9 DEF BlockCheck, TypeOK
  <2>2. ASSUME Committed(b) PROVE Idle(b)'
    <3>1. blockCnt[b] # None /\ b \notin cast /\ b \in refused
      BY <1>9, <2>2 DEF BlockCheck, Quorums, Settled
    <3>2. ~Signed(b)
      <4>1. SUFFICES ASSUME Signed(b) PROVE FALSE
        OBVIOUS
      <4>2. blockCnt[b] \in SUBSET SignedBy(b) /\ SignedBy(b) \in SUBSET Nodes
        BY <3>1 DEF Answers, SignedBy
      <4>3. Cardinality(SignedBy(b)) + 1 >= kConsensus
        BY SMT, <4>1, <4>2, Grows, ThresholdAssumption DEF Signed
      <4>4. Cardinality(FailedBy(b)) >= VerifyNodesNumber
        BY <3>1 DEF Quorums
      <4> QED BY <4>3, <4>4, NotBoth
    <3>3. status'[b] = status[b]
      BY <1>9, <3>2 DEF BlockCheck
    <3> QED BY <1>3, <2>2, <3>3
  <2>3. \A d \in Blocks : Committed(d) => Idle(d)'
    BY <1>3, <2>1, <2>2
  <2> QED BY <1>2, <1>9, <2>3 DEF BlockCheck, header
<1>10. ASSUME NEW b \in Blocks, NEW n \in Nodes, NEW T \in SUBSET Txs, AddBlockStatus(b, n, T)
       PROVE  Settled' /\ RebuiltOnce'
  <2>1. /\ UNCHANGED <<building, parent, cast>> /\ refused \subseteq refused'
        /\ \A d \in Blocks : d # b => status'[d] = status[d]
    BY <1>10 DEF AddBlockStatus, header, TypeOK
  <2>2. CASE ~Awaited(b, n)
    BY <1>4, <1>10, <2>1, <2>2 DEF AddBlockStatus
  <2>3. CASE Awaited(b, n)
    <3>1. status[b] \in Entries /\ EntryOK(b) /\ n \in status[b].waiting /\ status[b] # None
      BY <2>3 DEF Awaited, TypeOK, Entry
    <3>2. n \notin status[b].list /\ status[b].list \in SUBSET Nodes
      BY <3>1 DEF EntryOK, Entries
    <3>3. /\ Cardinality(status[b].list \cup {n}) = Cardinality(status[b].list) + 1
          /\ Cardinality(status[b].list) \in Nat
      BY <3>2, NodesFinite, FS_AddElement
    <3>4. Threshold(status[b]) \in Nat
      BY <3>1, ThresholdType DEF Threshold, Entries
    <3>5. CASE /\ status' = [status EXCEPT ![b] = Heard(status[b], n)]
               /\ UNCHANGED <<tasks, refused>>
      <4>1. status'[b] = Heard(status[b], n)
        BY <3>5 DEF TypeOK
      <4>2. /\ status'[b].waiting = status[b].waiting \ {n} /\ status'[b].list = status[b].list
            /\ status'[b].stage = status[b].stage /\ status'[b].number = status[b].number
        BY <3>1, <4>1 DEF Heard, Entries
      <4>3. Committed(b) => Idle(b)'
        <5>1. Committed(b) => Cardinality(status[b].list) >= Threshold(status[b])
          BY <3>1 DEF Settled, Idle
        <5>2. Threshold(status'[b]) = Threshold(status[b])
          BY <4>2 DEF Threshold
        <5> QED BY <4>2, <5>1, <5>2 DEF Idle
      <4>4. \A d \in Blocks : Committed(d) => Idle(d)'
        BY <1>3, <2>1, <4>3
      <4> QED BY <1>2, <2>1, <3>5, <4>4
    <3>6. CASE /\ status' = [status EXCEPT ![b] = Counted(status[b], n, T)]
               /\ tasks' = IF Commits(status'[b]) THEN tasks \cup {b} ELSE tasks
               /\ refused' = IF Commits(status'[b]) /\ status[b].stage = "verify"
                             THEN refused \cup {b} ELSE refused
      <4>1. status'[b] = Counted(status[b], n, T)
        BY <3>6 DEF TypeOK
      <4>2. /\ status'[b].list = status[b].list \cup {n}
            /\ status'[b].stage = status[b].stage /\ status'[b].number = status[b].number
        BY <3>1, <4>1 DEF Counted, Heard, Entries
      <4>3. Threshold(status'[b]) = Threshold(status[b])
        BY <4>2 DEF Threshold
      <4>4. Committed(b) => Cardinality(status[b].list) >= Threshold(status[b])
        BY <3>1 DEF Settled, Idle
      <4>5. Committed(b) => Idle(b)' /\ ~Commits(status'[b])
        <5>1. Cardinality(status'[b].list) = Cardinality(status[b].list) + 1
          BY <3>3, <4>2
        <5>2. /\ Cardinality(status'[b].list) \in Nat /\ Threshold(status'[b]) \in Nat
              /\ Committed(b) => Cardinality(status'[b].list) > Threshold(status'[b])
          BY SMT, <3>3, <3>4, <4>3, <4>4, <5>1
        <5>3. Committed(b) => Cardinality(status'[b].list) >= Threshold(status'[b])
          BY SMT, <5>2
        <5>4. Committed(b) => Cardinality(status'[b].list) # Threshold(status'[b])
          BY SMT, <5>2
        <5> QED BY <5>3, <5>4 DEF Idle, Commits
      <4>6. CASE ~Commits(status'[b])
        <5>1. \A d \in Blocks : Committed(d) => Idle(d)'
          BY <1>3, <2>1, <4>5
        <5> QED BY <1>2, <2>1, <3>6, <4>6, <5>1
      <4>7. CASE Commits(status'[b])
        <5>1. ~Committed(b) /\ tasks' = tasks \cup {b}
          BY <3>6, <4>5, <4>7
        <5>2. b \in cast' \/ b \in refused'
          BY <2>1, <3>1, <3>6, <4>7 DEF EntryOK, Entries
        <5>3. Idle(b)'
          BY <3>3, <3>4, <4>2, <4>3, <4>7, SMTT(30) DEF Idle, Commits
        <5>4. \A d \in Blocks : /\ Building(d)' <=> Building(d)
                                /\ Rebuilt(d)' <=> Rebuilt(d)
                                /\ d # b => (Committed(d)' <=> Committed(d))
          BY <2>1, <5>1 DEF Building, Rebuilt, Committed
        <5>5. ~Building(b) /\ ~Rebuilt(b)
          BY <5>1 DEF Committed
        <5>6. \A d \in Blocks : d # b /\ Committed(d) => Idle(d)'
          BY <1>3, <2>1
        <5>7. Settled'
          BY <2>1, <5>1, <5>2, <5>3, <5>4, <5>5, <5>6 DEF Settled
        <5>8. RebuiltOnce'
          BY <2>1 DEF RebuiltOnce
        <5> QED BY <5>7, <5>8
      <4> QED BY <4>6, <4>7
    <3> QED BY <1>10, <2>3, <3>5, <3>6 DEF AddBlockStatus
  <2> QED BY <2>2, <2>3
<1>11. ASSUME NEW b \in Blocks, NewbuildCollect(b) PROVE Settled' /\ RebuiltOnce'
  <2>1. /\ b \in tasks /\ tasks' = tasks \ {b} /\ UNCHANGED <<parent, cast, refused>>
        /\ \/ building' = building
           \/ \E T \in SUBSET Txs : building' = building \cup {<<b, T>>}
    BY <1>11 DEF NewbuildCollect, header, TypeOK
  <2>2. ~Building(b) /\ ~Rebuilt(b) /\ Committed(b)
    BY <2>1 DEF Settled, Committed
  <2>3. \A d \in Blocks : Committed(d) => Idle(d)'
    <3>1. CASE status' = status
      BY <1>3, <3>1
    <3>2. CASE status' = [status EXCEPT ![b] = Blank]
      <4>1. status'[b].waiting = {} /\ \A d \in Blocks : d # b => status'[d] = status[d]
        BY <3>2 DEF TypeOK, Blank
      <4>2. Idle(b)'
        BY <4>1 DEF Idle
      <4> QED BY <1>3, <4>1, <4>2
    <3> QED BY <1>11, <3>1, <3>2 DEF NewbuildCollect
  <2>4. \A d \in Blocks : /\ Rebuilt(d)' <=> Rebuilt(d)
                          /\ Committed(d)' => Committed(d)
                          /\ d # b => (Building(d)' <=> Building(d))
    <3>1. \A d \in Blocks : Rebuilt(d)' <=> Rebuilt(d)
      BY <2>1 DEF Rebuilt
    <3>2. \A d \in Blocks : d # b => (Building(d)' <=> Building(d))
      BY SMT, <2>1 DEF Building
    <3> QED BY <2>1, <2>2, <3>1, <3>2 DEF Committed
  <2>5. \A T, U \in SUBSET Txs : <<b, T>> \in building' /\ <<b, U>> \in building' => T = U
    BY <2>1, <2>2 DEF Building
  <2>6. \A d \in Blocks, T \in SUBSET Txs : d # b => (<<d, T>> \in building' <=> <<d, T>> \in building)
    BY SMT, <2>1
  <2>7. Settled'
    BY SMT, <2>1, <2>2, <2>3, <2>4, <2>5, <2>6 DEF Settled
  <2>8. RebuiltOnce'
    BY <2>1 DEF RebuiltOnce
  <2> QED BY <2>7, <2>8
<1>12. ASSUME NEW b \in Blocks, NEW T \in SUBSET Txs, NewbuildFail(b, T)
       PROVE  Settled' /\ RebuiltOnce'
  <2>1. building' \subseteq building /\ UNCHANGED <<tasks, parent, cast, refused, status>>
    BY <1>12 DEF NewbuildFail, header
  <2>2. \A d \in Blocks : /\ Rebuilt(d)' <=> Rebuilt(d)
                          /\ Building(d)' => Building(d)
                          /\ Committed(d)' => Committed(d)
    BY <2>1 DEF Building, Rebuilt, Committed
  <2>3. \A d \in Blocks : Committed(d) => Idle(d)'
    BY <1>3, <2>1
  <2>4. Settled'
    BY SMT, <2>1, <2>2, <2>3 DEF Settled
  <2>5. RebuiltOnce'
    BY <2>1 DEF RebuiltOnce
  <2> QED BY <2>4, <2>5
<1>13. ASSUME NEW b \in Blocks, NEW T \in SUBSET Txs, NEW nb \in Blocks, NewbuildSend(b, T, nb)
       PROVE  Settled' /\ RebuiltOnce'
  <2>1. PICK pl \in Places : Start(nb, T, pl, b)
    BY <1>13 DEF NewbuildSend
  <2>2. /\ <<b, T>> \in building /\ building' = building \ {<<b, T>>}
        /\ UNCHANGED <<tasks, cast, refused>>
    BY <1>13 DEF NewbuildSend
  <2>3. Building(b) /\ Committed(b) /\ ~Rebuilt(b) /\ b \notin tasks
    BY <2>2 DEF Building, Committed, Settled
  <2>4. ~Building(b)'
    BY <2>2, <2>3 DEF Building, Settled
  <2>5. born[nb] = None /\ parent[nb] = None /\ ~Committed(nb) /\ nb # b
    BY <1>1, <2>1, <2>3 DEF Start, Untouched
  <2>6. parent' = [parent EXCEPT ![nb] = b] /\ parent'[nb] = b
    BY <2>1 DEF Start, TypeOK
  <2>7. \A d \in Blocks : d # nb => status'[d] = status[d] /\ parent'[d] = parent[d]
    BY <2>1 DEF Start, TypeOK
  <2>8. \A d \in Blocks : d # b => /\ Rebuilt(d)' <=> Rebuilt(d)
                                   /\ Building(d)' <=> Building(d)
                                   /\ Committed(d)' <=> Committed(d)
    <3>1. \A d \in Blocks : d # b => (Rebuilt(d)' <=> Rebuilt(d))
      BY <2>5, <2>6, <2>7, DataAssumption DEF Rebuilt
    <3>2. \A d \in Blocks : d # b => (Building(d)' <=> Building(d))
      BY <2>2 DEF Building
    <3> QED BY <2>2, <3>1, <3>2 DEF Committed
  <2>9. \A d \in Blocks : Committed(d) => Idle(d)'
    BY <1>3, <2>5, <2>7
  <2>10. \A d \in Blocks, U \in SUBSET Txs : <<d, U>> \in building' => <<d, U>> \in building
    BY <2>2
  <2>11. Settled'
    <3>1. ASSUME NEW d \in Blocks, d # b
          PROVE  /\ d \in tasks' => ~Building(d)' /\ ~Rebuilt(d)'
                 /\ Building(d)' => ~Rebuilt(d)'
                 /\ Committed(d)' => (d \in cast' \/ d \in refused') /\ Idle(d)'
      BY SMT, <2>2, <2>8, <2>9, <3>1 DEF Settled
    <3>2. /\ b \notin tasks' /\ ~Building(b)'
          /\ (b \in cast' \/ b \in refused') /\ Idle(b)'
      BY <2>2, <2>3, <2>4, <2>9 DEF Settled
    <3>3. \A d \in Blocks : \A U, V \in SUBSET Txs :
             <<d, U>> \in building' /\ <<d, V>> \in building' => U = V
      BY <2>10 DEF Settled
    <3> QED BY <3>1, <3>2, <3>3 DEF Settled
  <2>12. RebuiltOnce'
    BY SMT, <2>3, <2>5, <2>6, <2>7 DEF RebuiltOnce, Rebuilt
  <2> QED BY <2>11, <2>12
<1> QED
  BY <1>5, <1>6, <1>7, <1>8, <1>9, <1>10, <1>11, <1>12, <1>13 DEF Next, Timer

-----------------------------------------------------------------------------
\* The initial state satisfies the inductive invariant.
LEMMA InitIInv == Init => IInv
<1> SUFFICES ASSUME Init PROVE IInv
  OBVIOUS
<1>1. TypeOK
  BY InitTypeOK
<1>2. \A b \in Blocks : SignedBy(b) = {} /\ FailedBy(b) = {}
  BY DEF Init, SignedBy, FailedBy
<1>3. Untouched /\ Entry /\ Quorums
  BY DEF Init, Untouched, Entry, Quorums
<1>4. Answers
  BY <1>2 DEF Init, Answers
<1>5. \A b \in Blocks : ~Committed(b)
  BY DataAssumption DEF Init, Committed, Building, Rebuilt
<1>6. Settled /\ RebuiltOnce
  BY <1>5, DataAssumption DEF Init, Settled, Committed, RebuiltOnce
<1> QED BY <1>1, <1>3, <1>4, <1>6 DEF IInv

\* The invariant is inductive.
THEOREM InductiveInvariant == Spec => []IInv
<1>1. Init => IInv
  BY InitIInv
<1>2. IInv /\ [Next]_vars => IInv'
  BY NextTypeOK, NextUntouched, NextAnswers, NextEntry, NextQuorums, NextSettled DEF IInv
<1> QED BY <1>1, <1>2, PTL DEF Spec

\* Type correctness of the consensus on blocks, for any blocks and nodes.
THEOREM TypeCorrect == Spec => []TypeOK
<1>1. IInv => TypeOK
  BY DEF IInv
<1> QED BY <1>1, InductiveInvariant, PTL

\* No block is both broadcast and rejected, for any numbers kConsensus and
\* KSend_node_threshold: verifyNodesNumber is what keeps the two apart.
THEOREM DecidedOnce == Spec => []DecidedOneWay
<1>1. IInv => DecidedOneWay
  BY OneWay DEF IInv
<1> QED BY <1>1, InductiveInvariant, PTL

\* A block is built again at most once, however many refusals come and whenever
\* the tasks run.
THEOREM OneSuccessor == Spec => []RebuiltOnce
<1>1. IInv => RebuiltOnce
  BY DEF IInv
<1> QED BY <1>1, InductiveInvariant, PTL
-----------------------------------------------------------------------------
(* Where a block built again stands.                                       *)

\* The entry of b still holds the block; b is past its expiry.
Live(b) == status[b] # None /\ status[b].block
Old(b) == now >= born[b] + ExpireTTL

\* An entry is not deleted before its block expires, and one that operator[]
\* makes anew is made after that.
Lives == \A b \in Blocks : born[b] # None => Live(b) \/ Old(b)

\* Time does not run back.
LEMMA StaysOld ==
  ASSUME TypeOK, NEW b \in Blocks, born[b] # None, born'[b] = born[b], Old(b),
         now' = now \/ now' = now + 1
  PROVE  Old(b)'
<1>1. born[b] \in Nat /\ now \in Nat /\ ExpireTTL \in Nat
  BY SMT, TimeAssumption DEF TypeOK, MaxTime
<1> QED BY <1>1, SMTT(30) DEF Old

\* A started block keeps its header, and its entry until it is old.
LEMMA StartedKept ==
  ASSUME IInv, Lives, [Next]_vars, NEW d \in Blocks, born[d] # None
  PROVE  /\ born'[d] = born[d] /\ place'[d] = place[d] /\ parent'[d] = parent[d]
         /\ Live(d)' \/ Old(d)'
<1> USE DEF IInv
<1> DEFINE Kept == /\ born'[d] = born[d] /\ place'[d] = place[d] /\ parent'[d] = parent[d]
                   /\ Live(d)' \/ Old(d)'
<1>1. Live(d) \/ Old(d)
  BY DEF Lives
<1>2. ASSUME born'[d] = born[d], place'[d] = place[d], parent'[d] = parent[d],
             now' = now \/ now' = now + 1, Live(d) => Live(d)' \/ Old(d)
      PROVE  Kept
  BY <1>1, <1>2, StaysOld
<1>3. ASSUME NEW b \in Blocks, NEW T \in SUBSET Txs, NEW pl \in Places,
             NEW from \in Blocks \cup {None}, Start(b, T, pl, from), now' = now
      PROVE  Kept
  <2>1. d # b
    BY <1>3 DEF Start
  <2>2. /\ born'[d] = born[d] /\ place'[d] = place[d] /\ parent'[d] = parent[d]
        /\ status'[d] = status[d]
    BY <1>3, <2>1 DEF Start, TypeOK
  <2> QED BY <1>2, <1>3, <2>2 DEF Live
<1> SUFFICES Kept
  OBVIOUS
<1> HIDE DEF Kept
<1>4. CASE Tick \/ UNCHANGED vars
  <2>1. /\ born' = born /\ place' = place /\ parent' = parent /\ status' = status
        /\ now' = now \/ now' = now + 1
    BY <1>4 DEF Tick, vars, header, stored
  <2>2. Live(d)' <=> Live(d)
    BY <2>1 DEF Live
  <2> QED BY <1>2, <2>1, <2>2
<1>5. ASSUME NEW b \in Blocks, HandleBlock(b) PROVE Kept
  <2>1. PICK T \in Packed, pl \in Places : Start(b, T, pl, None)
    BY <1>5 DEF HandleBlock
  <2> QED BY <1>3, <1>5, <2>1, DataAssumption DEF HandleBlock
<1>6. ASSUME NEW b \in Blocks, NEW T \in SUBSET Txs, NEW nb \in Blocks, NewbuildSend(b, T, nb)
      PROVE  Kept
  BY <1>3, <1>6 DEF NewbuildSend
<1>7. ASSUME NEW b \in Blocks, NEW n \in Nodes, Verify(b, n) \/ RefuseSave(b, n) \/ UpdateBlock(b, n)
      PROVE  Kept
  BY <1>2, <1>7 DEF Verify, RefuseSave, UpdateBlock, header, stored, Live
<1>8. ASSUME NEW b \in Blocks, NEW T \in SUBSET Txs, NewbuildFail(b, T)
      PROVE  Kept
  BY <1>2, <1>8 DEF NewbuildFail, header, Live
<1>9. ASSUME NEW s \in Entries, status'[d] = s, Live(d) => s.block, now' = now, UNCHANGED header
       PROVE  Kept
  BY <1>2, <1>9, AbsentAssumption DEF Live, header
<1>10. ASSUME NEW b \in Blocks, NEW n \in Nodes, NEW T \in SUBSET Txs, AddBlockStatus(b, n, T)
      PROVE  Kept
  <2>1. CASE status'[d] = status[d]
    BY <1>2, <1>10, <2>1 DEF AddBlockStatus, header, Live
  <2>2. CASE status'[d] # status[d]
    <3>1. /\ status[d] \in Entries
          /\ status'[d] = Heard(status[d], n) \/ status'[d] = Counted(status[d], n, T)
      BY <1>10, <2>2 DEF AddBlockStatus, Awaited, TypeOK
    <3>2. Heard(status[d], n) \in Entries /\ Counted(status[d], n, T) \in Entries
      BY <3>1, EntryTypes DEF Heard, Entries
    <3>3. /\ Heard(status[d], n).block = status[d].block
          /\ Counted(status[d], n, T).block = status[d].block
      BY <3>1 DEF Heard, Counted, Entries
    <3> QED BY <1>9, <1>10, <3>1, <3>2, <3>3 DEF AddBlockStatus, Live
  <2> QED BY <2>1, <2>2
<1>11. ASSUME NEW b \in Blocks, BlockCheck(b) PROVE Kept
  <2>1. CASE status'[d] = status[d]
    BY <1>2, <1>11, <2>1 DEF BlockCheck, header, Live
  <2>2. CASE status'[d] # status[d]
    <3> DEFINE e == IF status[d] = None THEN Fresh ELSE status[d]
    <3>1. /\ status'[d] = e \/ \E L \in Reached : status'[d] = ToLevel1(e, L)
          /\ now' = now /\ UNCHANGED header
      BY <1>11, <2>2 DEF BlockCheck, TypeOK
    <3>2. e \in Entries /\ (Live(d) => e.block)
      BY EntryTypes DEF TypeOK, Live
    <3>3. ASSUME NEW L \in Reached
          PROVE  ToLevel1(e, L) \in Entries /\ ToLevel1(e, L).block = e.block
      <4>1. L \in SUBSET Nodes
        BY ThresholdAssumption
      <4>2. ToLevel1(e, L) \in Entries
        BY <3>2, <4>1, EntryTypes
      <4> HIDE DEF e
      <4> QED BY <3>2, <4>2 DEF ToLevel1, Entries
    <3> HIDE DEF e
    <3> QED BY <1>9, <3>1, <3>2, <3>3
  <2> QED BY <2>1, <2>2
<1>12. ASSUME NEW b \in Blocks, ExpiredDeleteCheck(b) PROVE Kept
  BY <1>2, <1>12 DEF ExpiredDeleteCheck, Expired, header, Live, Old, TypeOK
<1>13. ASSUME NEW b \in Blocks, NewbuildCollect(b) PROVE Kept
  BY <1>2, <1>13 DEF NewbuildCollect, header, Live, TypeOK
<1> QED
  <2>1. CASE \E b \in Blocks : HandleBlock(b) \/ Timer(b) \/ NewbuildCollect(b)
    BY <1>5, <1>11, <1>12, <1>13, <2>1 DEF Timer
  <2>2. CASE \E b \in Blocks, n \in Nodes :
               \/ Verify(b, n) \/ RefuseSave(b, n) \/ UpdateBlock(b, n)
               \/ \E T \in SUBSET Txs : AddBlockStatus(b, n, T)
    BY <1>7, <1>10, <2>2
  <2>3. CASE \E b \in Blocks, T \in SUBSET Txs :
               NewbuildFail(b, T) \/ \E nb \in Blocks : NewbuildSend(b, T, nb)
    BY <1>6, <1>8, <2>3
  <2> QED BY <1>4, <2>1, <2>2, <2>3 DEF Next

\* A block started in a step has an entry that holds it, and takes its parent's place unless
\* the parent is past its expiry.
LEMMA Newborn ==
  ASSUME IInv, Lives, [Next]_vars, NEW c \in Blocks, born[c] = None, born'[c] # None
  PROVE  /\ Live(c)' /\ born'[c] = now
         /\ parent'[c] = None
            \/ /\ parent'[c] \in Blocks /\ born[parent'[c]] # None
               /\ Old(parent'[c]) \/ place'[c] = place[parent'[c]]
<1> USE DEF IInv
<1>1. ASSUME NEW b \in Blocks, NEW T \in SUBSET Txs, NEW pl \in Places,
             NEW from \in Blocks \cup {None}, Start(b, T, pl, from)
      PROVE  b = c /\ Live(c)' /\ born'[c] = now /\ parent'[c] = from /\ place'[c] = pl
  <2>1. b = c
    BY <1>1 DEF Start, TypeOK
  <2>2. born'[c] = now /\ parent'[c] = from /\ place'[c] = pl
    BY <1>1, <2>1 DEF Start, TypeOK
  <2>3. PICK N \in Asked : status'[c] = [Fresh EXCEPT !.number = VerifyNodesNumber, !.waiting = N]
    BY <1>1, <2>1 DEF Start, TypeOK
  <2>4. status'[c] \in Entries
    BY <2>3, EntryTypes, ThresholdAssumption
  <2>5. status'[c].block
    BY <1>1, <2>1, StartEffect
  <2> QED BY <2>1, <2>2, <2>4, <2>5, AbsentAssumption DEF Live
<1>2. ASSUME NEW b \in Blocks, HandleBlock(b)
      PROVE  Live(c)' /\ born'[c] = now /\ parent'[c] = None
  <2>1. PICK T \in Packed, pl \in Places : Start(b, T, pl, None)
    BY <1>2 DEF HandleBlock
  <2> QED BY <1>1, <2>1, DataAssumption
<1>3. ASSUME NEW b \in Blocks, NEW T \in SUBSET Txs, NEW nb \in Blocks, NewbuildSend(b, T, nb)
      PROVE  /\ Live(c)' /\ born'[c] = now /\ parent'[c] = b /\ born[b] # None
             /\ Old(b) \/ place'[c] = place[b]
  <2>1. PICK pl \in Places :
           /\ status[b] # None => (status[b].block => pl = place[b])
           /\ Start(nb, T, pl, b)
    BY <1>3 DEF NewbuildSend
  <2>2. born[b] # None
    BY <1>3, CommittedStarted DEF NewbuildSend, Committed, Building
  <2>3. Live(b) \/ Old(b)
    BY <2>2 DEF Lives
  <2> QED BY <1>1, <2>1, <2>2, <2>3 DEF Live
<1>4. ~ UNCHANGED header
  BY DEF header
<1>5. ~ Tick /\ ~ UNCHANGED vars
  BY <1>4 DEF Tick, vars
<1>6. ASSUME NEW b \in Blocks
      PROVE  ~ Timer(b) /\ ~ NewbuildCollect(b) /\ \A T \in SUBSET Txs : ~ NewbuildFail(b, T)
  BY <1>4 DEF Timer, BlockCheck, ExpiredDeleteCheck, NewbuildCollect, NewbuildFail
<1>7. ASSUME NEW b \in Blocks, NEW n \in Nodes
      PROVE  /\ ~ Verify(b, n) /\ ~ RefuseSave(b, n) /\ ~ UpdateBlock(b, n)
             /\ \A T \in SUBSET Txs : ~ AddBlockStatus(b, n, T)
  BY <1>4 DEF Verify, RefuseSave, UpdateBlock, AddBlockStatus
<1>8. \/ \E b \in Blocks : HandleBlock(b)
      \/ \E b, nb \in Blocks, T \in SUBSET Txs : NewbuildSend(b, T, nb)
  BY <1>5, <1>6, <1>7 DEF Next
<1> QED BY <1>2, <1>3, <1>8

\* What the proof of RebuiltInPlace carries along.
InPlace == Lives /\ RebuiltInPlace

\* No step moves a block that has been rebuilt away from its parent's place.
LEMMA NextInPlace == IInv /\ InPlace /\ [Next]_vars => InPlace'
<1> SUFFICES ASSUME IInv, InPlace, [Next]_vars PROVE InPlace'
  OBVIOUS
<1> USE DEF InPlace
<1>1. Lives'
  BY StartedKept, Newborn DEF Lives
<1>2. ASSUME NEW c \in Blocks, parent'[c] # None, born'[c] # None,
             born'[c] < born'[parent'[c]] + ExpireTTL
      PROVE  place'[c] = place'[parent'[c]]
  <2>1. CASE born[c] # None
    <3>1. born'[c] = born[c] /\ place'[c] = place[c] /\ parent'[c] = parent[c]
      BY <2>1, StartedKept
    <3>2. parent[c] \in Blocks /\ born[parent[c]] # None
      BY <1>2, <3>1, CommittedStarted DEF IInv, TypeOK, Committed, Rebuilt
    <3>3. born'[parent[c]] = born[parent[c]] /\ place'[parent[c]] = place[parent[c]]
      BY <3>2, StartedKept
    <3> QED BY <1>2, <2>1, <3>1, <3>3 DEF RebuiltInPlace
  <2>2. CASE born[c] = None
    <3> DEFINE p == parent'[c]
    <3>1. /\ born'[c] = now /\ p \in Blocks /\ born[p] # None
          /\ Old(p) \/ place'[c] = place[p]
      BY <1>2, <2>2, Newborn
    <3>2. born'[p] = born[p] /\ place'[p] = place[p]
      BY <3>1, StartedKept
    <3>3. now < born[p] + ExpireTTL
      BY <1>2, <3>1, <3>2
    <3>4. ~ Old(p)
      <4>1. born[p] \in Nat /\ now \in Nat /\ ExpireTTL \in Nat
        BY SMT, <3>1, TimeAssumption DEF IInv, TypeOK
      <4> HIDE DEF p
      <4> QED BY <3>3, <4>1, SMTT(30) DEF Old
    <3> QED BY <3>1, <3>2, <3>4
  <2> QED BY <2>1, <2>2
<1> QED BY <1>1, <1>2 DEF RebuiltInPlace

\* NewbuildBlockByBlockStatus: a block built again within the life of the old
\* block's entry stands at the old block's height and predecessor, although the
\* task reads them after it has let _statusMutex go.
THEOREM RebuildsInPlace == Spec => []RebuiltInPlace
<1>1. Init => InPlace
  BY DEF Init, InPlace, Lives, RebuiltInPlace
<1> QED BY <1>1, InductiveInvariant, NextInPlace, PTL DEF Spec, InPlace

=============================================================================
