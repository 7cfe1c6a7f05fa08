-------------------------- MODULE BlockPoolProofs --------------------------
(***************************************************************************)
(* Proofs about BlockPool for any tree of blocks and any windows.          *)
(*                                                                         *)
(* NoOrphanLeftBehind speaks of the moments between two rounds, when there *)
(* is no call of SaveBlock.  Within a round it is Waiters that lasts: when *)
(* a block is saved, the blocks that wait for it are among the kids of the *)
(* call, which gives them to SaveBlock one by one; the call of a kid has   *)
(* kids of its own.  Waiters needs to know that only a call that has saved *)
(* its block has kids, and that the loop over _hashPendingBlocks does not  *)
(* lose the block it is at.  ResyncCoversFailure needs Requested: a        *)
(* request from the height 0 would read as none.                           *)
(***************************************************************************)
EXTENDS BlockPool, Integers, TLAPS

\* Most leaves are first-order; those with arithmetic, sequences or records name SMT.
USE Zenon

\* A call has blocks to save after its own only once that is saved.
KidsAfterPost == \A i \in 1 .. Len(calls) : calls[i].at # "post" => calls[i].kids = {}

\* A block that waits and whose predecessor is saved has been given to
\* SaveBlock, or is about to be by a call in progress.
ToBeSaved(b) == \E i \in 1 .. Len(calls) : b \in calls[i].kids
Waiters == \A b \in pending : prev[b] \in saved => b \in tried \/ ToBeSaved(b)

\* The block whose turn it is in the loop over _hashPendingBlocks stays in that
\* map until its call returns.
Outermost ==
    phase = "hash" /\ calls # <<>> =>
        calls[Len(calls)].b \notin work /\ hashSince[calls[Len(calls)].b] # None

\* Nobody seeks the genesis block.
NotSought == hashSince[Genesis] = None

\* A request for a synchronisation starts above the genesis block, so that it is
\* not taken for none.
Requested == newSync.run => newSync.start > 0

\* There is a highest saved block.
Bounded == \E h \in Nat : \A b \in saved : height[b] <= h

IInv ==
    TypeOK /\ KidsAfterPost /\ Outermost /\ NotSought /\ Requested /\ Waiters /\ Bounded

-----------------------------------------------------------------------------
(* The facts on sequences that the proofs cite.                            *)

\* The empty sequence, and the length of the others.
LEMMA EmptySeq ==
  ASSUME NEW S
  PROVE  /\ <<>> \in Seq(S) /\ Len(<<>>) = 0
         /\ \A seq \in Seq(S) : seq # <<>> => Len(seq) \in Nat \ {0}
  BY SMT

\* An element of a sequence is replaced.
LEMMA ExceptSeq ==
  ASSUME NEW S, NEW s \in Seq(S), NEW i \in 1 .. Len(s), NEW e \in S
  PROVE  /\ [s EXCEPT ![i] = e] \in Seq(S) /\ Len([s EXCEPT ![i] = e]) = Len(s)
         /\ \A j \in 1 .. Len(s) : [s EXCEPT ![i] = e][j] = IF j = i THEN e ELSE s[j]
  BY SMT

-----------------------------------------------------------------------------
(* Sequences of calls.                                                     *)

\* A call is pushed.
LEMMA Push ==
  ASSUME NEW S, NEW s \in Seq(S), NEW e \in S
  PROVE  /\ <<e>> \o s \in Seq(S) /\ Len(<<e>> \o s) = Len(s) + 1
         /\ (<<e>> \o s)[1] = e /\ \A i \in 1 .. Len(s) : (<<e>> \o s)[i + 1] = s[i]
  BY SMT

\* A call returns.
LEMMA Pop ==
  ASSUME NEW S, NEW s \in Seq(S), s # <<>>
  PROVE  /\ Head(s) = s[1] /\ s[1] \in S /\ Len(s) \in Nat /\ Len(s) >= 1
         /\ Tail(s) \in Seq(S) /\ Len(Tail(s)) = Len(s) - 1
         /\ \A i \in 1 .. Len(s) - 1 : Tail(s)[i] = s[i + 1]
  BY SMT

\* The innermost call goes on.
LEMMA Replace ==
  ASSUME NEW S, NEW s \in Seq(S), s # <<>>, NEW e \in S
  PROVE  /\ [s EXCEPT ![1] = e] \in Seq(S) /\ Len([s EXCEPT ![1] = e]) = Len(s)
         /\ [s EXCEPT ![1] = e][1] = e
         /\ \A i \in 2 .. Len(s) : [s EXCEPT ![1] = e][i] = s[i]
<1>1. Len(s) \in Nat /\ Len(s) >= 1
  BY Pop
<1> QED BY SMT, <1>1, ExceptSeq

\* A call's stage is changed.
LEMMA NestedKeepsLen ==
  ASSUME NEW S, NEW s \in Seq(S), NEW a
  PROVE  Len([s EXCEPT ![1].at = a]) = Len(s)
BY SMT

\* The innermost call calls SaveBlock itself.
LEMMA Nest ==
  ASSUME NEW S, NEW s \in Seq(S), s # <<>>, NEW e \in S, NEW c \in S
  PROVE  /\ <<e, c>> \o Tail(s) \in Seq(S) /\ Len(<<e, c>> \o Tail(s)) = Len(s) + 1
         /\ (<<e, c>> \o Tail(s))[1] = e /\ (<<e, c>> \o Tail(s))[2] = c
         /\ \A i \in 2 .. Len(s) : (<<e, c>> \o Tail(s))[i + 1] = s[i]
<1>1. /\ Tail(s) \in Seq(S) /\ Len(Tail(s)) = Len(s) - 1 /\ Len(s) \in Nat /\ Len(s) >= 1
      /\ \A i \in 1 .. Len(s) - 1 : Tail(s)[i] = s[i + 1]
  BY Pop
<1> DEFINE t == Tail(s)
<1> HIDE DEF t
<1>2. \A i \in 2 .. Len(s) : t[i - 1] = s[i]
  BY SMT, <1>1 DEF t
<1>3. /\ t \in Seq(S) /\ Len(t) = Len(s) - 1
  BY <1>1 DEF t
<1>4. /\ <<e, c>> \o t \in Seq(S) /\ Len(<<e, c>> \o t) = Len(s) + 1
      /\ (<<e, c>> \o t)[1] = e /\ (<<e, c>> \o t)[2] = c
      /\ \A i \in 2 .. Len(s) : (<<e, c>> \o t)[i + 1] = t[i - 1]
  BY SMT, <1>1, <1>3
<1> QED BY <1>2, <1>4 DEF t

-----------------------------------------------------------------------------
(* What a step does to the calls in progress.                              *)

\* A loop of Process calls SaveBlock.
Entered ==
    /\ calls = <<>> /\ phase \in Phases \ {"idle", "rollback", "exit"} /\ phase' = phase
    /\ \E f \in Frames : f.kids = {} /\ calls' = <<f>> \o calls

\* The innermost call returns.
Returned ==
    /\ calls # <<>> /\ Cur.kids = {} /\ phase' = phase
    /\ calls' = Tail(calls)

\* It goes on.
Advanced ==
    /\ calls # <<>> /\ phase' = phase
    /\ \E f \in Frames :
         /\ f.at # "post" => f.kids = {}
         /\ f.b = Cur.b /\ Cur.kids \subseteq f.kids
         /\ calls' = [calls EXCEPT ![1] = f]

\* It calls SaveBlock for a block that waited.
Descended ==
    /\ calls # <<>> /\ Cur.at = "post" /\ phase' = phase
    /\ \E k \in Cur.kids, f \in Frames, c \in Frames :
         /\ f.kids = {} /\ c.at = "post" /\ c.b = Cur.b /\ c.kids = Cur.kids \ {k} /\ k \in tried'
         /\ calls' = <<f, c>> \o Tail(calls)

\* The innermost call is one.
LEMMA CurFrame ==
  ASSUME TypeOK, calls # <<>>
  PROVE  /\ calls \in Seq(Frames) /\ Cur = calls[1] /\ Cur \in Frames
         /\ Cur.b \in New /\ Cur.type \in SaveTypes /\ Cur.kids \subseteq New /\ Cur.tx \in Nat \ {0}
         /\ Cur.at \in {"check", "tx", "save", "post"} /\ Cur.normal \in BOOLEAN
<1>1. calls \in Seq(Frames)
  BY DEF TypeOK
<1>2. Cur = calls[1] /\ calls[1] \in Frames
  BY <1>1, Pop DEF Cur
<1> QED BY <1>1, <1>2 DEF Frames

\* The loops' own calls.
LEMMA NewFrame ==
  ASSUME NEW b \in New, NEW type \in SaveTypes, NEW normal \in BOOLEAN, NEW f,
         f = [b |-> b, type |-> type, normal |-> normal, at |-> "check", tx |-> 1, kids |-> {}]
  PROVE  f \in Frames /\ f.b = b
BY SMT DEF Frames

\* SaveBlock is called by a loop of Process.
LEMMA CallEnters ==
  ASSUME calls = <<>>, phase \in Phases \ {"idle", "rollback", "exit"}, phase' = phase,
         NEW b \in New, NEW type \in SaveTypes, NEW normal \in BOOLEAN, Call(b, type, normal)
  PROVE  Entered
<1> DEFINE f == [b |-> b, type |-> type, normal |-> normal, at |-> "check", tx |-> 1,
                 kids |-> {}]
<1>1. f \in Frames /\ f.kids = {}
  BY SMT DEF Frames
<1>2. calls' = <<f>> \o calls
  BY DEF Call
<1> HIDE DEF f
<1> QED BY <1>1, <1>2 DEF Entered

\* A call goes to another stage, before it has saved its block.
LEMMA GotoAdvances ==
  ASSUME TypeOK, KidsAfterPost, calls # <<>>, phase' = phase, Cur.at # "post",
         NEW stage \in {"tx", "save"}, Goto(stage)
  PROVE  Advanced
<1>1. calls \in Seq(Frames) /\ Cur = calls[1] /\ Cur \in Frames
  BY CurFrame
<1>2. Len(calls) \in Nat /\ Len(calls) >= 1 /\ Cur.kids = {}
  BY SMT, <1>1, Pop DEF KidsAfterPost
<1> DEFINE f == [calls[1] EXCEPT !.at = stage]
<1>3. f \in Frames /\ f.b = Cur.b /\ f.kids = Cur.kids
  BY <1>1 DEF Frames
<1>4. calls' = [calls EXCEPT ![1] = f]
  BY <1>1 DEF Goto
<1> HIDE DEF f
<1> QED BY <1>2, <1>3, <1>4 DEF Advanced

\* A call goes to its next transaction.
LEMMA NextTxAdvances ==
  ASSUME TypeOK, KidsAfterPost, calls # <<>>, phase' = phase, Cur.at = "tx",
         calls' = [calls EXCEPT ![1].tx = @ + 1]
  PROVE  Advanced
<1>1. calls \in Seq(Frames) /\ Cur = calls[1] /\ Cur \in Frames
  BY CurFrame
<1>2. Len(calls) \in Nat /\ Len(calls) >= 1 /\ Cur.kids = {}
  BY SMT, <1>1, Pop DEF KidsAfterPost
<1> DEFINE f == [calls[1] EXCEPT !.tx = @ + 1]
<1>3. f \in Frames /\ f.b = Cur.b /\ f.kids = Cur.kids
  <2>1. calls[1].tx + 1 \in Nat \ {0}
    BY SMT, <1>1 DEF Frames
  <2> QED BY <1>1, <2>1 DEF Frames
<1>4. calls' = [calls EXCEPT ![1] = f]
  BY <1>1
<1> HIDE DEF f
<1> QED BY <1>2, <1>3, <1>4 DEF Advanced

\* Every step of SaveBlock is one of these.
LEMMA SaveStepCalls ==
  ASSUME TypeOK, KidsAfterPost, SaveStep
  PROVE  Returned \/ Advanced \/ Descended
<1>1. calls # <<>>
  BY DEF SaveStep, SaveBlockSkip, PreSaveSync, PreSaveBroadcast, PreSaveTxGood,
         PreSaveTxUnknown, DealDoubleSpend, SaveBlockWrite, PostSaveChild, PostSaveDone, At
<1>2. calls \in Seq(Frames) /\ Cur = calls[1] /\ Cur \in Frames /\ Cur.kids \subseteq New
  BY <1>1, CurFrame
<1>3. Len(calls) \in Nat /\ Len(calls) >= 1
  BY <1>1, <1>2, Pop
<1>4. Cur.at # "post" => Cur.kids = {}
  BY SMT, <1>2, <1>3 DEF KidsAfterPost
<1>5. ASSUME phase' = phase, Cur.kids = {}, calls' = Tail(calls) PROVE Returned
  BY <1>1, <1>5 DEF Returned
<1>6. CASE SaveBlockSkip
  BY <1>4, <1>5, <1>6 DEF SaveBlockSkip, Return, At, keptBySave
<1>7. CASE PreSaveSync
  BY <1>1, <1>4, <1>5, <1>7, GotoAdvances DEF PreSaveSync, Return, At, keptBySave
<1>8. CASE PreSaveBroadcast
  BY <1>1, <1>4, <1>5, <1>8, GotoAdvances DEF PreSaveBroadcast, Return, At, keptBySave
<1>9. CASE PreSaveTxGood
  BY <1>1, <1>9, GotoAdvances, NextTxAdvances DEF PreSaveTxGood, At, keptBySave
<1>10. CASE PreSaveTxUnknown
  BY <1>4, <1>5, <1>10 DEF PreSaveTxUnknown, At, keptBySave
<1>11. CASE DealDoubleSpend
  <2>1. Cur.at = "tx" /\ phase' = phase
    BY <1>11 DEF DealDoubleSpend, At, keptBySave
  <2>2. calls' = Tail(calls) \/ calls' = [calls EXCEPT ![1].tx = @ + 1]
    BY <1>11 DEF DealDoubleSpend, Return
  <2> QED BY <1>1, <1>4, <1>5, <2>1, <2>2, NextTxAdvances
<1>12. CASE SaveBlockWrite
  <2>1. Cur.at = "save" /\ phase' = phase
    BY <1>12 DEF SaveBlockWrite, At, keptBySave
  <2>2. \/ calls' = Tail(calls)
        \/ calls' = [calls EXCEPT ![1].at = "post", ![1].kids = WaitingFor(Cur.b)]
    BY <1>12 DEF SaveBlockWrite, Return
  <2>3. CASE calls' = [calls EXCEPT ![1].at = "post", ![1].kids = WaitingFor(Cur.b)]
    <3> DEFINE W == WaitingFor(Cur.b)
               f == [calls[1] EXCEPT !.at = "post", !.kids = W]
    <3>1. W \subseteq New
      BY DEF WaitingFor, TypeOK
    <3>2. calls' = [calls EXCEPT ![1] = f]
      BY <1>2, <1>3, <2>3
    <3> HIDE DEF W
    <3>3. f \in Frames /\ f.at = "post" /\ f.b = Cur.b
      BY <1>2, <3>1 DEF Frames
    <3>4. Cur.kids \subseteq f.kids
      BY <1>4, <2>1
    <3> HIDE DEF f
    <3> QED BY <1>1, <2>1, <3>2, <3>3, <3>4 DEF Advanced
  <2> QED BY <1>4, <1>5, <2>1, <2>2, <2>3
<1>13. CASE PostSaveChild
  <2>1. Cur.at = "post" /\ phase' = phase
    BY <1>13 DEF PostSaveChild, At, keptBySave
  <2>2. PICK k \in Cur.kids :
           /\ calls' = <<[b |-> k, type |-> "Broadcast", normal |-> FALSE, at |-> "check",
                          tx |-> 1, kids |-> {}], [Cur EXCEPT !.kids = @ \ {k}]>> \o Tail(calls)
           /\ tried' = tried \cup {k}
    BY <1>13 DEF PostSaveChild
  <2> DEFINE f == [b |-> k, type |-> "Broadcast", normal |-> FALSE, at |-> "check",
                   tx |-> 1, kids |-> {}]
             c == [Cur EXCEPT !.kids = @ \ {k}]
  <2>3. f \in Frames /\ f.kids = {}
    BY SMT, <1>2 DEF Frames, SaveTypes
  <2>4. c \in Frames /\ c.at = "post" /\ c.b = Cur.b /\ c.kids = Cur.kids \ {k}
    <3> DEFINE u == Cur
    <3>1. u \in Frames /\ u.at = "post"
      BY <1>2, <2>1
    <3> HIDE DEF u
    <3>2. [u EXCEPT !.kids = @ \ {k}] \in Frames /\ [u EXCEPT !.kids = @ \ {k}].at = "post"
          /\ [u EXCEPT !.kids = @ \ {k}].b = u.b
          /\ [u EXCEPT !.kids = @ \ {k}].kids = u.kids \ {k}
      BY <3>1 DEF Frames
    <3> QED BY <3>2 DEF u
  <2>5. calls' = <<f, c>> \o Tail(calls) /\ k \in tried'
    BY <2>2
  <2> HIDE DEF f, c
  <2> QED BY <1>1, <2>1, <2>3, <2>4, <2>5 DEF Descended
<1>14. CASE PostSaveDone
  BY <1>5, <1>14 DEF PostSaveDone, Return, keptBySave
<1> QED
  BY <1>6, <1>7, <1>8, <1>9, <1>10, <1>11, <1>12, <1>13, <1>14 DEF SaveStep

\* A block a loop visits is one of those it has to.
LEMMA FirstOf == ASSUME NEW S, NEW b \in First(S) PROVE b \in S
  BY DEF First

\* The loops of Process.
LEMMA RoundCalls ==
  ASSUME TypeOK, Round
  PROVE  Entered \/ (calls' = calls /\ (calls # <<>> => phase' = phase))
<1> USE DEF Phases
<1>1. work \subseteq New /\ syncType \in SaveTypes /\ utxoMissing \in Seq(New)
  BY DEF TypeOK
<1>2. "Broadcast" \in SaveTypes /\ TRUE \in BOOLEAN /\ FALSE \in BOOLEAN
  BY DEF SaveTypes
<1>3. calls # <<>> => phase \in Phases \ {"idle", "rollback", "exit"}
  BY DEF TypeOK
<1>4. CASE ProcessStart \/ RollbackStep \/ ProcessExit
  BY <1>3, <1>4 DEF ProcessStart, RollbackStep, ProcessExit, Idle
<1>5. CASE FastSyncStep
  BY <1>1, <1>2, <1>5, FirstOf, CallEnters DEF FastSyncStep
<1>6. CASE UtxoMissingStep
  <2>1. Head(utxoMissing) \in New
    BY <1>1, <1>6, Pop DEF UtxoMissingStep
  <2> QED BY <1>1, <1>2, <1>6, <2>1, CallEnters DEF UtxoMissingStep
<1>7. CASE SyncStep
  BY <1>1, <1>2, <1>7, FirstOf, CallEnters DEF SyncStep
<1>8. CASE BroadcastStep
  BY <1>1, <1>2, <1>8, FirstOf, CallEnters DEF BroadcastStep
<1>9. CASE HashPendingStep
  BY <1>1, <1>2, <1>9, CallEnters DEF HashPendingStep
<1>10. CASE NextPhase
  BY <1>10 DEF NextPhase
<1> QED BY <1>4, <1>5, <1>6, <1>7, <1>8, <1>9, <1>10 DEF Round

\* The handlers that run beside SaveBlock.
Delivery ==
    \/ Broadcast \/ Synchronise \/ Seek \/ ProcessNoTop \/ StopSaveBlock \/ Tick

\* Blocks handed in, requests, the clock and StopSaveBlock touch neither the
\* loops of a round in progress nor the database.
LEMMA DeliveryCalls == Delivery => UNCHANGED <<calls, phase, work, saved, history>>
<1> SUFFICES ASSUME Delivery PROVE UNCHANGED <<calls, phase, work, saved, history>>
  OBVIOUS
<1>1. CASE Broadcast
  BY <1>1 DEF Broadcast, AddBroadcastBlock
<1>2. CASE Synchronise
  BY <1>2 DEF Synchronise, AddSyncBlock, AddFastSyncBlock, AddRollbackBlock, NewSyncServed
<1>3. CASE Seek
  BY <1>3 DEF Seek, AddMissingBlock, AddSeekBlock, SeekBlockThread
<1>4. CASE ProcessNoTop \/ StopSaveBlock \/ Tick
  BY <1>4 DEF ProcessNoTop, StopSaveBlock, Tick
<1> QED BY <1>1, <1>2, <1>3, <1>4 DEF Delivery

\* However the calls change, they stay calls, and a block to be saved after
\* another stays one or is given to SaveBlock.
LEMMA CallsKeep ==
  ASSUME TypeOK, KidsAfterPost, Entered \/ Returned \/ Advanced \/ Descended \/ calls' = calls
  PROVE  /\ calls' \in Seq(Frames) /\ KidsAfterPost'
         /\ \A b : ToBeSaved(b) => b \in tried' \/ ToBeSaved(b)'
<1> DEFINE Goal == /\ calls' \in Seq(Frames) /\ KidsAfterPost'
                   /\ \A b : ToBeSaved(b) => b \in tried' \/ ToBeSaved(b)'
<1> SUFFICES Goal
  OBVIOUS
<1>1. calls \in Seq(Frames) /\ Len(calls) \in Nat
  BY SMT DEF TypeOK
<1>2. CASE calls' = calls
  BY <1>1, <1>2 DEF KidsAfterPost, ToBeSaved
<1>3. CASE Entered
  <2>1. PICK f \in Frames : f.kids = {} /\ calls' = <<f>> \o calls
    BY <1>3 DEF Entered
  <2>2. calls = <<>> /\ Len(calls) = 0
    BY <1>3 DEF Entered
  <2>3. calls' \in Seq(Frames) /\ Len(calls') = 1 /\ calls'[1] = f
    BY SMT, <1>1, <2>1, <2>2, Push
  <2> QED BY SMT, <2>1, <2>2, <2>3 DEF KidsAfterPost, ToBeSaved
<1>4. CASE Returned
  <2>1. /\ Cur = calls[1] /\ Len(calls) >= 1 /\ calls' \in Seq(Frames)
        /\ Len(calls') = Len(calls) - 1
        /\ \A i \in 1 .. Len(calls) - 1 : calls'[i] = calls[i + 1]
    BY <1>1, <1>4, Pop DEF Returned, Cur
  <2>2. \A i \in 2 .. Len(calls) : calls'[i - 1] = calls[i] /\ i - 1 \in 1 .. Len(calls')
    BY SMT, <1>1, <2>1
  <2>3. KidsAfterPost'
    BY SMT, <1>1, <2>1 DEF KidsAfterPost
  <2>4. ASSUME NEW b, ToBeSaved(b) PROVE ToBeSaved(b)'
    <3>1. PICK i \in 1 .. Len(calls) : b \in calls[i].kids
      BY <2>4 DEF ToBeSaved
    <3>2. calls[1].kids = {}
      BY <1>4, <2>1 DEF Returned
    <3>3. i \in 2 .. Len(calls)
      BY SMT, <1>1, <3>1, <3>2
    <3> QED BY <2>2, <3>1, <3>3 DEF ToBeSaved
  <2> QED BY <2>1, <2>3, <2>4
<1>5. CASE Advanced
  <2>1. PICK f \in Frames :
           /\ f.at # "post" => f.kids = {}
           /\ Cur.kids \subseteq f.kids
           /\ calls' = [calls EXCEPT ![1] = f]
    BY <1>5 DEF Advanced
  <2>2. Cur = calls[1] /\ Len(calls) >= 1
    BY <1>1, <1>5, Pop DEF Advanced, Cur
  <2>3. /\ calls' \in Seq(Frames) /\ Len(calls') = Len(calls) /\ calls'[1] = f
        /\ \A i \in 2 .. Len(calls) : calls'[i] = calls[i]
    BY SMT, <1>1, <1>5, <2>1, Replace DEF Advanced
  <2>4. \A i \in 1 .. Len(calls) : i = 1 \/ i \in 2 .. Len(calls)
    BY SMT, <1>1
  <2>5. KidsAfterPost'
    BY <2>1, <2>3, <2>4 DEF KidsAfterPost
  <2>6. ASSUME NEW b, ToBeSaved(b) PROVE ToBeSaved(b)'
    BY <2>1, <2>2, <2>3, <2>4, <2>6 DEF ToBeSaved
  <2> QED BY <2>3, <2>5, <2>6
<1>6. CASE Descended
  <2>1. PICK k \in Cur.kids, f \in Frames, c \in Frames :
           /\ f.kids = {} /\ c.at = "post" /\ c.kids = Cur.kids \ {k} /\ k \in tried'
           /\ calls' = <<f, c>> \o Tail(calls)
    BY <1>6 DEF Descended
  <2>2. Cur = calls[1] /\ Len(calls) >= 1
    BY <1>1, <1>6, Pop DEF Descended, Cur
  <2>3. /\ calls' \in Seq(Frames) /\ Len(calls') = Len(calls) + 1
        /\ calls'[1] = f /\ calls'[2] = c
        /\ \A i \in 2 .. Len(calls) : calls'[i + 1] = calls[i]
    BY SMT, <1>1, <1>6, <2>1, Nest DEF Descended
  <2>4. \A i \in 1 .. Len(calls') : i = 1 \/ i = 2 \/ (i - 1 \in 2 .. Len(calls) /\ i = (i - 1) + 1)
    BY SMT, <1>1, <2>3
  <2>5. KidsAfterPost'
    <3> SUFFICES ASSUME NEW i \in 1 .. Len(calls'), calls'[i].at # "post"
                 PROVE  calls'[i].kids = {}
      BY DEF KidsAfterPost
    <3>1. CASE i = 1
      BY <2>1, <2>3, <3>1
    <3>2. CASE i = 2
      BY <2>1, <2>3, <3>2
    <3>3. CASE i - 1 \in 2 .. Len(calls) /\ i = (i - 1) + 1
      <4>1. calls'[i] = calls[i - 1] /\ i - 1 \in 1 .. Len(calls)
        BY SMT, <1>1, <2>3, <3>3
      <4> QED BY <4>1 DEF KidsAfterPost
    <3> QED BY <2>4, <3>1, <3>2, <3>3
  <2>6. ASSUME NEW b, ToBeSaved(b) PROVE b \in tried' \/ ToBeSaved(b)'
    <3>1. PICK i \in 1 .. Len(calls) : b \in calls[i].kids
      BY <2>6 DEF ToBeSaved
    <3>2. CASE i = 1
      <4>1. b = k \/ b \in calls'[2].kids
        BY <2>1, <2>2, <2>3, <3>1, <3>2
      <4>2. 2 \in 1 .. Len(calls')
        BY SMT, <1>1, <2>2, <2>3
      <4> QED BY <2>1, <4>1, <4>2 DEF ToBeSaved
    <3>3. CASE i \in 2 .. Len(calls)
      <4>1. i + 1 \in 1 .. Len(calls') /\ calls'[i + 1] = calls[i]
        BY SMT, <1>1, <2>3, <3>3
      <4> QED BY <3>1, <4>1 DEF ToBeSaved
    <3> QED BY SMT, <1>1, <3>1, <3>2, <3>3
  <2> QED BY <2>3, <2>5, <2>6
<1> QED BY <1>2, <1>3, <1>4, <1>5, <1>6

-----------------------------------------------------------------------------
(* Type correctness, part by part.                                         *)

StoreOK == saved \subseteq Blocks /\ Genesis \in saved

SetsOK ==
    /\ pending \subseteq New /\ doubleSpend \subseteq New /\ dup \subseteq New
    /\ tried \subseteq New /\ polled \subseteq New /\ work \subseteq New
    /\ missing \subseteq ({"block"} \X Blocks) \cup ({"tx"} \X Utxos)

QueuesOK ==
    /\ broadcast \subseteq New /\ NoTies(broadcast) /\ sync \subseteq New /\ NoTies(sync)
    /\ fastSync \subseteq New /\ NoTies(fastSync) /\ rollback \subseteq New /\ NoTies(rollback)

ListsOK ==
    /\ hashSince \in [Blocks -> 0..MaxTime \cup {None}]
    /\ utxoMissing \in Seq(New)

ClockOK ==
    /\ newSync \in [run : BOOLEAN, start : Nat]
    /\ now \in 0..MaxTime /\ roundTime \in 0..now

FlagsOK ==
    /\ syncType \in SaveTypes \ {"Broadcast"}
    /\ stopBlocking \in BOOLEAN /\ processing \in BOOLEAN
    /\ phase \in Phases
    /\ phase # "idle" => processing

LoopsOK ==
    /\ calls # <<>> => phase \in Phases \ {"idle", "rollback", "exit"}
    /\ phase \in {"idle", "exit", "utxo"} => work = {}

HashLoopOK == phase = "hash" => \A b \in work : hashSince[b] # None

\* The parts make up the type invariant.
LEMMA TypeParts ==
  TypeOK <=> /\ StoreOK /\ SetsOK /\ QueuesOK /\ ListsOK /\ ClockOK /\ FlagsOK
             /\ calls \in Seq(Frames) /\ LoopsOK /\ HashLoopOK
<1>1. QueuesOK <=> \A Q \in {broadcast, sync, fastSync, rollback} : Q \subseteq New /\ NoTies(Q)
  BY DEF QueuesOK
<1> DEFINE Q4 == \A Q \in {broadcast, sync, fastSync, rollback} : Q \subseteq New /\ NoTies(Q)
<1>2. TypeOK <=> /\ StoreOK /\ SetsOK /\ Q4 /\ ListsOK /\ ClockOK /\ FlagsOK
                 /\ calls \in Seq(Frames) /\ LoopsOK /\ HashLoopOK
  <2> HIDE DEF Q4
  <2>1. TypeOK => StoreOK /\ SetsOK /\ ListsOK /\ ClockOK
    BY DEF TypeOK, StoreOK, SetsOK, ListsOK, ClockOK
  <2>2. TypeOK => Q4
    BY DEF TypeOK, Q4
  <2>3. TypeOK => FlagsOK /\ calls \in Seq(Frames)
    BY DEF TypeOK, FlagsOK
  <2>4. TypeOK => LoopsOK /\ HashLoopOK
    BY DEF TypeOK, LoopsOK, HashLoopOK
  <2>5. ASSUME StoreOK, SetsOK, Q4, ListsOK, ClockOK, FlagsOK, calls \in Seq(Frames),
               LoopsOK, HashLoopOK
        PROVE  TypeOK
    BY <2>5 DEF TypeOK, StoreOK, SetsOK, Q4, ListsOK, ClockOK, FlagsOK, LoopsOK,
                       HashLoopOK
  <2> QED BY <2>1, <2>2, <2>3, <2>4, <2>5
<1> QED BY <1>1, <1>2

\* Every block but the first has a predecessor one lower.
LEMMA Heights ==
  ASSUME NEW b \in New
  PROVE  /\ b \in Blocks /\ b # Genesis /\ prev[b] \in Blocks /\ height[prev[b]] \in Nat
         /\ height[b] \in Nat /\ height[b] = height[prev[b]] + 1 /\ height[b] > height[Genesis]
<1>1. b \in Blocks /\ b # Genesis
  BY DEF New
<1>2. prev[b] \in Blocks /\ height[b] = height[prev[b]] + 1
  BY <1>1, HeaderAssumption
<1>3. height[b] \in Nat /\ height[prev[b]] \in Nat /\ height[Genesis] = 0
  BY <1>1, <1>2, HeaderAssumption
<1> QED BY SMT, <1>1, <1>2, <1>3

\* Nothing rolls the genesis block back.
LEMMA NextStoreOK == ASSUME TypeOK, Next PROVE StoreOK'
<1>1. saved \subseteq Blocks /\ Genesis \in saved /\ work \subseteq New
  BY DEF TypeOK
<1>2. CASE RollbackStep
  BY <1>1, <1>2 DEF RollbackStep, StoreOK, New
<1>3. CASE DealDoubleSpend
  <2>1. Cur.b \in New
    BY <1>3, CurFrame DEF DealDoubleSpend, At
  <2>2. height[Cur.b] > height[Genesis] /\ height[Cur.b] \in Nat /\ height[Genesis] = 0
    BY <2>1, Heights, HeaderAssumption
  <2>3. ASSUME NEW u, NEW p \in Spenders(Cur.b, u) PROVE p # Genesis
    <3>1. height[p] >= height[Cur.b]
      BY <2>3 DEF Spenders
    <3> QED BY SMT, <2>2, <3>1
  <2> QED BY <1>1, <1>3, <2>3 DEF DealDoubleSpend, StoreOK
<1>4. CASE SaveBlockWrite
  <2>1. Cur.b \in New
    BY <1>4, CurFrame DEF SaveBlockWrite, At
  <2> QED BY <1>1, <1>4, <2>1 DEF SaveBlockWrite, StoreOK, New
<1>5. CASE PostSaveDone
  <2>1. Cur.b \in New
    BY <1>5, CurFrame DEF PostSaveDone, At
  <2>2. height[Cur.b] > height[Genesis] /\ height[Cur.b] \in Nat /\ height[Genesis] = 0
    BY <2>1, Heights, HeaderAssumption
  <2>3. saved' \subseteq saved
    BY <1>5 DEF PostSaveDone
  <2>4. Genesis \in saved'
    BY SMT, <1>1, <1>5, <2>2 DEF PostSaveDone
  <2> QED BY <1>1, <2>3, <2>4 DEF StoreOK
<1>6. CASE saved' = saved
  BY <1>1, <1>6 DEF StoreOK
<1>7. CASE Delivery
  BY <1>6, <1>7, DeliveryCalls
<1>8. CASE Round
  BY <1>2, <1>6, <1>8 DEF Round, ProcessStart, FastSyncStep, UtxoMissingStep, SyncStep,
     BroadcastStep, HashPendingStep, NextPhase, ProcessExit
<1>9. CASE SaveStep
  BY <1>3, <1>4, <1>5, <1>6, <1>9 DEF SaveStep, SaveBlockSkip, PreSaveSync, PreSaveBroadcast,
     PreSaveTxGood, PreSaveTxUnknown, PostSaveChild
<1> QED BY <1>7, <1>8, <1>9 DEF Next, Delivery

\* A step saves one block at most.
LEMMA NextBounded == ASSUME TypeOK, Bounded, Next PROVE Bounded'
<1>1. CASE saved' \subseteq saved
  BY <1>1 DEF Bounded
<1>2. CASE SaveBlockWrite
  <2>1. Cur.b \in New
    BY <1>2, CurFrame DEF SaveBlockWrite, At
  <2>2. height[Cur.b] \in Nat
    BY <2>1, Heights
  <2>3. PICK h \in Nat : \A b \in saved : height[b] <= h
    BY DEF Bounded
  <2>4. \A b \in saved : height[b] \in Nat
    BY HeaderAssumption DEF TypeOK
  <2>5. saved' \subseteq saved \cup {Cur.b}
    BY <1>2 DEF SaveBlockWrite
  <2>6. \A b \in saved' : height[b] <= h + height[Cur.b]
    BY SMT, <2>2, <2>3, <2>4, <2>5
  <2>7. h + height[Cur.b] \in Nat
    BY SMT, <2>2, <2>3
  <2> QED BY <2>6, <2>7 DEF Bounded
<1>3. CASE Delivery
  BY <1>1, <1>3, DeliveryCalls
<1>4. CASE Round
  BY <1>1, <1>4 DEF Round, ProcessStart, RollbackStep, FastSyncStep, UtxoMissingStep, SyncStep,
     BroadcastStep, HashPendingStep, NextPhase, ProcessExit
<1>5. CASE SaveStep
  BY <1>1, <1>2, <1>5 DEF SaveStep, SaveBlockSkip, PreSaveSync, PreSaveBroadcast,
     PreSaveTxGood, PreSaveTxUnknown, DealDoubleSpend, PostSaveChild, PostSaveDone
<1> QED BY <1>3, <1>4, <1>5 DEF Next, Delivery

\* A queue keeps its order when a block is inserted.
LEMMA InsertKeeps ==
  ASSUME NEW S \in SUBSET New, NoTies(S), NEW b \in New
  PROVE  Insert(S, b) \subseteq New /\ NoTies(Insert(S, b))
<1>1. \A a \in New : height[a] \in Nat /\ time[a] \in Nat
  BY HeaderAssumption DEF New
<1>2. Insert(S, b) \subseteq S \cup {b}
  BY DEF Insert
<1>3. CASE \E a \in S : height[a] = height[b] /\ time[a] = time[b]
  BY <1>3 DEF Insert
<1>4. CASE ~ \E a \in S : height[a] = height[b] /\ time[a] = time[b]
  <2>1. \A a \in S : Before(a, b) \/ Before(b, a)
    BY SMT, <1>1, <1>4 DEF Before
  <2>2. Insert(S, b) = S \cup {b}
    BY <1>4 DEF Insert
  <2>3. NoTies(S \cup {b})
    BY <2>1 DEF NoTies
  <2> QED BY <2>2, <2>3
<1> QED BY <1>3, <1>4

\* A part of a set that the ordered set of BlockHelper can hold is one too.
LEMMA SubsetNoTies == ASSUME NEW S, NoTies(S), NEW T \in SUBSET S PROVE NoTies(T)
  BY DEF NoTies

\* The contract blocks rolled back with others are no genesis block.
LEMMA RollbackOrderOK ==
  ASSUME TypeOK, NEW R \in SUBSET rollback, NEW X \in RollbackContractBlock(R)
  PROVE  X \subseteq New /\ NoTies(X)
<1>1. R \subseteq New /\ saved \subseteq Blocks
  BY DEF TypeOK
<1>2. ASSUME NEW b \in X PROVE b \in New
  <2>1. CASE b \in R
    BY <1>1, <2>1
  <2>2. CASE b \notin R
    <3>1. b \in saved /\ \E r \in R : height[b] >= height[r]
      BY <2>2 DEF RollbackContractBlock
    <3>2. b # Genesis
      BY SMT, <1>1, <3>1, Heights, HeaderAssumption
    <3> QED BY <1>1, <3>1, <3>2 DEF New
  <2> QED BY <2>1, <2>2
<1> QED BY <1>2 DEF RollbackContractBlock

\* The queues.
LEMMA NextQueuesOK == ASSUME TypeOK, Next PROVE QueuesOK'
<1>0. QueuesOK
  BY TypeParts
<1>1. CASE UNCHANGED <<broadcast, sync, fastSync, rollback>>
  BY <1>0, <1>1 DEF QueuesOK
<1>2. CASE Broadcast
  <2>1. PICK b \in New : AddBroadcastBlock(b)
    BY <1>2 DEF Broadcast
  <2>2. broadcast \ Rival(b) \in SUBSET New /\ NoTies(broadcast \ Rival(b))
    BY <1>0, SubsetNoTies DEF QueuesOK
  <2>3. broadcast' \in {broadcast, broadcast \ Rival(b), Insert(broadcast \ Rival(b), b)}
    BY <2>1 DEF AddBroadcastBlock
  <2>4. broadcast' \subseteq New /\ NoTies(broadcast')
    BY <1>0, <2>2, <2>3, InsertKeeps DEF QueuesOK
  <2>5. UNCHANGED <<sync, fastSync, rollback>>
    BY <2>1 DEF AddBroadcastBlock
  <2> QED BY <1>0, <2>4, <2>5 DEF QueuesOK
<1>3. CASE Synchronise
  <2>1. ASSUME NEW b \in New, NEW type \in SyncTypes, AddSyncBlock(b, type) PROVE QueuesOK'
    BY <1>0, <2>1, InsertKeeps DEF AddSyncBlock, QueuesOK
  <2>2. ASSUME NEW b \in New, NEW type \in SyncTypes, AddFastSyncBlock(b, type) PROVE QueuesOK'
    BY <1>0, <2>2, InsertKeeps DEF AddFastSyncBlock, QueuesOK
  <2>3. ASSUME NEW S \in RollbackSets, AddRollbackBlock(S) PROVE QueuesOK'
    BY <1>0, <2>3, BoundAssumption DEF AddRollbackBlock, QueuesOK, New
  <2> QED BY <1>1, <1>3, <2>1, <2>2, <2>3 DEF Synchronise, NewSyncServed, queues
<1>4. CASE Seek
  BY <1>1, <1>4 DEF Seek, AddMissingBlock, AddSeekBlock, SeekBlockThread, queues
<1>5. CASE ProcessNoTop \/ StopSaveBlock \/ Tick
  BY <1>1, <1>5 DEF ProcessNoTop, StopSaveBlock, Tick, queues
<1>6. CASE ProcessStart
  <2>1. rollback' \subseteq New /\ NoTies(rollback')
    BY <1>6, RollbackOrderOK DEF ProcessStart
  <2> QED BY <1>0, <1>6, <2>1 DEF ProcessStart, QueuesOK
<1>7. CASE ProcessExit
  BY <1>7 DEF ProcessExit, QueuesOK, NoTies
<1>8. CASE Round
  BY <1>1, <1>6, <1>7, <1>8 DEF Round, RollbackStep, FastSyncStep, UtxoMissingStep, SyncStep,
     BroadcastStep, HashPendingStep, NextPhase, queues
<1>9. CASE SaveStep
  <2>1. UNCHANGED keptBySave
    BY <1>9 DEF SaveStep, SaveBlockSkip, PreSaveSync, PreSaveBroadcast, PreSaveTxGood,
       PreSaveTxUnknown, DealDoubleSpend, SaveBlockWrite, PostSaveChild, PostSaveDone
  <2> QED BY <1>1, <2>1 DEF keptBySave
<1> QED BY <1>2, <1>3, <1>4, <1>5, <1>8, <1>9 DEF Next

\* No step of SaveBlock touches these.
LEMMA SaveStepKeeps == SaveStep => UNCHANGED keptBySave /\ calls # <<>>
  BY DEF SaveStep, SaveBlockSkip, PreSaveSync, PreSaveBroadcast, PreSaveTxGood,
         PreSaveTxUnknown, DealDoubleSpend, SaveBlockWrite, PostSaveChild, PostSaveDone, At

\* What a step of SaveBlock does to the rest of the round.
LEMMA SaveStepWork ==
  ASSUME TypeOK, SaveStep
  PROVE  /\ \/ work' = {} /\ phase \in {"fast", "sync"}
            \/ work' = work
            \/ /\ work' = work \cup {Cur.b} /\ phase = "hash"
               /\ hashSince[Cur.b] = None /\ hashSince' = [hashSince EXCEPT ![Cur.b] = now]
         /\ utxoMissing' \in {<<>>, utxoMissing}
         /\ \/ hashSince' = hashSince
            \/ hashSince[Cur.b] = None /\ hashSince' = [hashSince EXCEPT ![Cur.b] = now]
            \/ /\ hashSince' = [hashSince EXCEPT ![Cur.b] = None]
               /\ Len(calls) = 1 /\ calls' = Tail(calls) /\ work' = work
<1> DEFINE Goal ==
         /\ \/ work' = {} /\ phase \in {"fast", "sync"}
            \/ work' = work
            \/ /\ work' = work \cup {Cur.b} /\ phase = "hash"
               /\ hashSince[Cur.b] = None /\ hashSince' = [hashSince EXCEPT ![Cur.b] = now]
         /\ utxoMissing' \in {<<>>, utxoMissing}
         /\ \/ hashSince' = hashSince
            \/ hashSince[Cur.b] = None /\ hashSince' = [hashSince EXCEPT ![Cur.b] = now]
            \/ /\ hashSince' = [hashSince EXCEPT ![Cur.b] = None]
               /\ Len(calls) = 1 /\ calls' = Tail(calls) /\ work' = work
<1> SUFFICES Goal
  OBVIOUS
<1>1. ASSUME NEW ok \in BOOLEAN, Return(ok) PROVE Goal
  BY <1>1 DEF Return
<1>2. ASSUME UNCHANGED <<work, utxoMissing, hashSince>> PROVE Goal
  BY <1>2
<1>3. CASE PreSaveTxUnknown
  BY <1>3 DEF PreSaveTxUnknown
<1> HIDE DEF Goal
<1>4. CASE SaveBlockSkip \/ PreSaveSync \/ PreSaveBroadcast
  BY <1>1, <1>2, <1>4 DEF SaveBlockSkip, PreSaveSync, PreSaveBroadcast
<1>5. CASE PreSaveTxGood \/ PostSaveChild
  BY <1>2, <1>5 DEF PreSaveTxGood, PostSaveChild, notes
<1>6. CASE DealDoubleSpend
  BY <1>1, <1>2, <1>6 DEF DealDoubleSpend
<1>7. CASE SaveBlockWrite \/ PostSaveDone
  BY <1>1, <1>2, <1>7 DEF SaveBlockWrite, PostSaveDone
<1> QED BY <1>3, <1>4, <1>5, <1>6, <1>7 DEF SaveStep

\* What is waited for after a refusal.
LEMMA SaveStepNotes ==
  ASSUME TypeOK, SaveStep
  PROVE  /\ doubleSpend' \subseteq New /\ tried' \subseteq New /\ polled' = polled
         /\ missing' \subseteq ({"block"} \X Blocks) \cup ({"tx"} \X Utxos)
<1>1. Cur.b \in New /\ Cur.kids \subseteq New
  BY SaveStepKeeps, CurFrame
<1>2. /\ doubleSpend \subseteq New /\ tried \subseteq New
      /\ missing \subseteq ({"block"} \X Blocks) \cup ({"tx"} \X Utxos)
  BY DEF TypeOK
<1>3. CASE PreSaveTxUnknown
  <2>1. Cur.b \in Blocks
    BY <1>1 DEF New
  <2>2. Cur.tx \in Nat \ {0}
    BY SaveStepKeeps, CurFrame
  <2>3. txs[Cur.b] \in Seq(Seq(Utxos))
    BY <2>1, HeaderAssumption
  <2>4. Cur.tx \in 1 .. Len(txs[Cur.b])
    BY SMT, <1>3, <2>2, <2>3 DEF PreSaveTxUnknown
  <2>5. txs[Cur.b][Cur.tx] \in Seq(Utxos)
    BY SMT, <2>3, <2>4
  <2>6. MissingInputs \subseteq Utxos
    BY SMT, <2>5 DEF MissingInputs
  <2> QED BY SMT, <1>1, <1>2, <1>3, <2>6 DEF PreSaveTxUnknown, history
<1>4. CASE SaveBlockSkip \/ PreSaveSync \/ PreSaveBroadcast \/ PreSaveTxGood \/ DealDoubleSpend
  BY <1>1, <1>2, <1>4 DEF SaveBlockSkip, PreSaveSync, PreSaveBroadcast, PreSaveTxGood,
     DealDoubleSpend, history, notes
<1>5. CASE SaveBlockWrite
  BY <1>1, <1>2, <1>5 DEF SaveBlockWrite
<1>6. CASE PostSaveChild \/ PostSaveDone
  BY <1>1, <1>2, <1>6 DEF PostSaveChild, PostSaveDone, notes, history
<1> QED BY <1>3, <1>4, <1>5, <1>6 DEF SaveStep

\* The queues without order, and the loops' work.
LEMMA NextSetsOK == ASSUME TypeOK, NotSought, Next PROVE SetsOK'
<1>0. SetsOK /\ QueuesOK
  BY TypeParts
<1>1. CASE UNCHANGED <<pending, doubleSpend, dup, tried, polled, missing>> /\ work' \subseteq New
  BY <1>0, <1>1 DEF SetsOK
<1>2. CASE Broadcast
  <2>1. PICK b \in New : AddBroadcastBlock(b)
    BY <1>2 DEF Broadcast
  <2>2. prev[b] \in Blocks
    BY Heights
  <2>3. pending' \subseteq pending \cup {b} /\ missing' \subseteq missing \cup {<<"block", prev[b]>>}
    BY <2>1 DEF AddBroadcastBlock, AddPendingBlock
  <2>4. dup' = dup \cup {b} /\ UNCHANGED <<doubleSpend, tried, polled, work>>
    BY <2>1 DEF AddBroadcastBlock, history
  <2>5. missing' \subseteq ({"block"} \X Blocks) \cup ({"tx"} \X Utxos)
    BY SMT, <1>0, <2>2, <2>3 DEF SetsOK
  <2> QED BY <1>0, <2>3, <2>4, <2>5 DEF SetsOK
<1>3. CASE Synchronise
  BY <1>0, <1>1, <1>3 DEF Synchronise, AddSyncBlock, AddFastSyncBlock, AddRollbackBlock,
     NewSyncServed, queues, notes, history, SetsOK
<1>4. CASE Seek
  BY <1>0, <1>4 DEF Seek, AddMissingBlock, AddSeekBlock, SeekBlockThread, queues, notes,
     history, SetsOK
<1>5. CASE ProcessNoTop \/ StopSaveBlock \/ Tick
  BY <1>0, <1>1, <1>5 DEF ProcessNoTop, StopSaveBlock, Tick, queues, notes, history, SetsOK
<1>6. CASE Round
  <2>1. CASE ProcessStart
    <3>1. work' \subseteq New
      BY <2>1, RollbackOrderOK DEF ProcessStart
    <3> QED BY <1>1, <2>1, <3>1 DEF ProcessStart, notes, history
  <2>2. CASE RollbackStep
    BY <1>0, <1>1, <2>2 DEF RollbackStep, queues, notes, history, SetsOK
  <2>3. ASSUME NEW b \in work, NEW type, NEW normal, Call(b, type, normal)
        PROVE  tried' \subseteq New
    BY <1>0, <2>3 DEF Call, SetsOK
  <2>4. CASE FastSyncStep
    BY <1>0, <2>3, <2>4, FirstOf DEF FastSyncStep, queues, notes, SetsOK
  <2>5. CASE UtxoMissingStep
    <3>1. utxoMissing \in Seq(New) /\ utxoMissing # <<>>
      BY <2>5 DEF UtxoMissingStep, TypeOK
    <3>2. Head(utxoMissing) \in New
      BY <3>1, Pop
    <3> QED BY <1>0, <2>5, <3>2 DEF UtxoMissingStep, Call, notes, SetsOK
  <2>6. CASE SyncStep
    BY <1>0, <2>3, <2>6, FirstOf DEF SyncStep, queues, notes, SetsOK
  <2>7. CASE BroadcastStep
    <3>1. PICK b \in First(work) :
            /\ work' = work \ {b} /\ polled' = polled \cup {b}
            /\ tried' = tried \/ Call(b, "Broadcast", TRUE)
      BY <2>7 DEF BroadcastStep
    <3>2. b \in work
      BY FirstOf
    <3>3. tried' \subseteq New
      BY <1>0, <2>3, <3>1, <3>2 DEF SetsOK
    <3> QED BY <1>0, <2>7, <3>1, <3>2, <3>3 DEF BroadcastStep, queues, notes, SetsOK
  <2>8. CASE HashPendingStep
    BY <1>0, <2>3, <2>8 DEF HashPendingStep, queues, SetsOK
  <2>9. CASE NextPhase
    <3>1. {b \in Blocks : hashSince[b] # None} \subseteq New
      BY DEF NotSought, New
    <3>2. work' \in {fastSync, {}, sync, broadcast, {b \in Blocks : hashSince[b] # None}}
      BY <2>9 DEF NextPhase
    <3>3. work' \subseteq New
      BY <1>0, <3>1, <3>2 DEF QueuesOK
    <3> QED BY <1>1, <2>9, <3>3 DEF NextPhase, queues, notes, history
  <2>10. CASE ProcessExit
    BY <1>0, <2>10 DEF ProcessExit, SetsOK
  <2> QED
    BY <1>6, <2>1, <2>2, <2>4, <2>5, <2>6, <2>7, <2>8, <2>9, <2>10 DEF Round
<1>7. CASE SaveStep
  <2>1. Cur.b \in New
    BY <1>7, SaveStepKeeps, CurFrame
  <2>2. work' \subseteq New
    BY <1>0, <1>7, <2>1, SaveStepWork DEF SetsOK
  <2>3. pending' = pending /\ dup' = dup
    BY <1>7, SaveStepKeeps DEF keptBySave
  <2> QED BY <1>0, <1>7, <2>2, <2>3, SaveStepNotes DEF SetsOK
<1> QED BY <1>2, <1>3, <1>4, <1>5, <1>6, <1>7 DEF Next

\* The lists.
LEMMA NextListsOK == ASSUME TypeOK, NotSought, Next PROVE ListsOK' /\ NotSought'
<1>0. /\ hashSince \in [Blocks -> 0..MaxTime \cup {None}] /\ utxoMissing \in Seq(New)
      /\ now \in 0..MaxTime /\ work \subseteq New
  BY DEF TypeOK
<1>1. CASE UNCHANGED <<hashSince, utxoMissing>>
  BY <1>0, <1>1 DEF ListsOK, NotSought
<1>2. ASSUME NEW b \in New, NEW t \in 0..MaxTime \cup {None},
             hashSince' = [hashSince EXCEPT ![b] = t], utxoMissing' \in Seq(New)
      PROVE  ListsOK' /\ NotSought'
  BY SMT, <1>0, <1>2 DEF ListsOK, NotSought, New
<1>3. CASE Broadcast \/ Synchronise
  BY <1>1, <1>3 DEF Broadcast, AddBroadcastBlock, Synchronise, AddSyncBlock, AddFastSyncBlock,
     AddRollbackBlock, NewSyncServed, queues, notes
<1>4. CASE Seek
  <2>1. ASSUME NEW b \in New, AddMissingBlock(b) PROVE ListsOK' /\ NotSought'
    BY SMT, <1>0, <2>1 DEF AddMissingBlock, notes, ListsOK, NotSought
  <2>2. ASSUME NEW b \in New, AddSeekBlock(b) PROVE ListsOK' /\ NotSought'
    BY <1>0, <1>2, <2>2 DEF AddSeekBlock, queues
  <2>3. CASE SeekBlockThread
    BY <1>1, <2>3 DEF SeekBlockThread, queues
  <2> QED BY <1>4, <2>1, <2>2, <2>3 DEF Seek
<1>5. CASE ProcessNoTop \/ StopSaveBlock \/ Tick
  BY <1>1, <1>5 DEF ProcessNoTop, StopSaveBlock, Tick, queues, notes
<1>6. CASE Round
  <2>1. CASE UtxoMissingStep
    <3>1. utxoMissing' \in Seq(New) /\ hashSince' = hashSince
      BY <1>0, <2>1, Pop DEF UtxoMissingStep, notes
    <3> QED BY <1>0, <3>1 DEF ListsOK, NotSought
  <2>2. CASE HashPendingStep
    <3>1. PICK b \in work :
             hashSince' = hashSince \/ hashSince' = [hashSince EXCEPT ![b] = None]
      BY <2>2 DEF HashPendingStep
    <3>2. utxoMissing' = utxoMissing /\ b \in New
      BY <1>0, <2>2 DEF HashPendingStep, queues
    <3> QED BY <1>0, <1>1, <1>2, <3>1, <3>2
  <2> QED
    BY <1>1, <1>6, <2>1, <2>2 DEF Round, ProcessStart, RollbackStep, FastSyncStep, SyncStep,
       BroadcastStep, NextPhase, ProcessExit, queues, notes
<1>7. CASE SaveStep
  <2>1. Cur.b \in New
    BY <1>7, SaveStepKeeps, CurFrame
  <2>2. utxoMissing' \in Seq(New)
    <3>1. utxoMissing' = <<>> \/ utxoMissing' = utxoMissing
      BY <1>7, SaveStepWork
    <3>2. <<>> \in Seq(New)
      BY EmptySeq
    <3> QED BY <1>0, <3>1, <3>2
  <2>3. \/ hashSince' = hashSince \/ hashSince' = [hashSince EXCEPT ![Cur.b] = now]
        \/ hashSince' = [hashSince EXCEPT ![Cur.b] = None]
    BY <1>7, SaveStepWork
  <2>4. CASE hashSince' = hashSince
    BY <1>0, <2>2, <2>4 DEF ListsOK, NotSought
  <2> QED BY <1>0, <1>2, <2>1, <2>2, <2>3, <2>4
<1> QED BY <1>3, <1>4, <1>5, <1>6, <1>7 DEF Next

\* A request stays one, and starts above the genesis block.
LEMMA SetHeight ==
  ASSUME NEW req \in [run : BOOLEAN, start : Nat], req.run => req.start > 0,
         NEW h \in Nat, h > 0
  PROVE  /\ SetNewSyncHeight(req, h) \in [run : BOOLEAN, start : Nat]
         /\ SetNewSyncHeight(req, h).run
         /\ SetNewSyncHeight(req, h).start > 0 /\ SetNewSyncHeight(req, h).start <= h
         /\ req.run => SetNewSyncHeight(req, h).start <= req.start
<1>1. PICK st \in Nat : st = IF req.start = 0 \/ req.start > h THEN h ELSE req.start
  OBVIOUS
<1>2. SetNewSyncHeight(req, h) = [run |-> TRUE, start |-> st]
  BY <1>1 DEF SetNewSyncHeight
<1>3. st > 0 /\ st <= h /\ (req.run => st <= req.start)
  BY SMT, <1>1
<1> QED BY SMT, <1>2, <1>3

\* What a step may do to the request: serve it, or set it from above the genesis
\* block, and from below the block whose predecessor is missing.
Asks(h) == newSync' = SetNewSyncHeight(newSync, h)

\* SaveBlock asks for a synchronisation at most once or twice in a step, each
\* time from above the genesis block.
LEMMA SaveStepAsks ==
  ASSUME TypeOK, Requested, SaveStep
  PROVE  \/ newSync' = newSync
         \/ \E h \in Nat : h > 0 /\ Asks(h)
         \/ \E h, l \in Nat : h > 0 /\ l > 0 /\
              newSync' = SetNewSyncHeight(SetNewSyncHeight(newSync, h), l)
<1>1. Cur.b \in New
  BY SaveStepKeeps, CurFrame
<1>2. /\ height[Cur.b] \in Nat /\ height[Cur.b] > 0
      /\ prev[Cur.b] \notin saved => height[Cur.b] - 1 \in Nat /\ height[Cur.b] - 1 > 0
  <2>1. /\ height[Cur.b] \in Nat /\ height[prev[Cur.b]] \in Nat
        /\ height[Cur.b] = height[prev[Cur.b]] + 1 /\ height[Genesis] = 0
    BY <1>1, Heights, HeaderAssumption
  <2>2. prev[Cur.b] \notin saved => prev[Cur.b] \in New
    BY <1>1, Heights DEF TypeOK, New
  <2>3. prev[Cur.b] \notin saved => height[prev[Cur.b]] > 0
    BY <2>1, <2>2, Heights
  <2> QED BY SMT, <2>1, <2>3
<1>3. CASE PreSaveSync
  <2>1. newSync' = newSync \/
          (prev[Cur.b] \notin saved /\ Asks(height[Cur.b] - 1))
    BY <1>3 DEF PreSaveSync, Asks
  <2> QED BY <1>2, <2>1
<1>4. CASE SaveBlockWrite
  <2> DEFINE h == height[Cur.b]
  <2>1. \/ newSync' = newSync \/ Asks(h)
        \/ prev[Cur.b] \notin saved /\ Asks(h - 1)
        \/ prev[Cur.b] \notin saved /\
             newSync' = SetNewSyncHeight(SetNewSyncHeight(newSync, h), h - 1)
    BY <1>4 DEF SaveBlockWrite, Asks
  <2> QED BY <1>2, <2>1
<1>5. CASE newSync' = newSync
  BY <1>5
<1> QED
  BY <1>3, <1>4, <1>5 DEF SaveStep, SaveBlockSkip, PreSaveBroadcast, PreSaveTxGood,
     PreSaveTxUnknown, DealDoubleSpend, PostSaveChild, PostSaveDone

\* A request is never moved up, unless it is served.
LEMMA NextRequest ==
  ASSUME TypeOK, Requested, Next
  PROVE  /\ newSync' \in [run : BOOLEAN, start : Nat] /\ Requested'
         /\ newSync.run /\ newSync'.run => newSync'.start <= newSync.start
<1> DEFINE R == [run : BOOLEAN, start : Nat]
<1>1. newSync \in R /\ (newSync.run => newSync.start > 0)
  BY DEF TypeOK, Requested
<1>2. CASE newSync' = newSync
  BY SMT, <1>1, <1>2 DEF Requested
<1>3. CASE NewSyncServed
  BY <1>3 DEF NewSyncServed, Requested
<1>4. CASE SaveStep
  <2>1. ASSUME NEW h \in Nat, h > 0, Asks(h)
        PROVE  newSync' \in R /\ Requested' /\ (newSync.run => newSync'.start <= newSync.start)
    BY <1>1, <2>1, SetHeight DEF Asks, Requested
  <2>2. ASSUME NEW h \in Nat, NEW l \in Nat, h > 0, l > 0,
               newSync' = SetNewSyncHeight(SetNewSyncHeight(newSync, h), l)
        PROVE  newSync' \in R /\ Requested' /\ (newSync.run => newSync'.start <= newSync.start)
    <3> DEFINE q == SetNewSyncHeight(newSync, h)
    <3>1. q \in R /\ q.run /\ q.start > 0 /\ (newSync.run => q.start <= newSync.start)
      BY <1>1, <2>2, SetHeight
    <3> HIDE DEF q
    <3>2. /\ SetNewSyncHeight(q, l) \in R /\ SetNewSyncHeight(q, l).start > 0
          /\ SetNewSyncHeight(q, l).start <= q.start
      BY <2>2, <3>1, SetHeight
    <3>3. newSync' = SetNewSyncHeight(q, l)
      BY <2>2 DEF q
    <3>4. newSync'.start \in Nat /\ q.start \in Nat /\ newSync.start \in Nat
      BY <1>1, <3>1, <3>2, <3>3
    <3> QED BY SMT, <3>1, <3>2, <3>3, <3>4 DEF Requested
  <2> QED BY <1>2, <1>4, <2>1, <2>2, SaveStepAsks
<1>5. CASE Delivery
  BY <1>2, <1>3, <1>5 DEF Delivery, Broadcast, AddBroadcastBlock, Synchronise, AddSyncBlock,
     AddFastSyncBlock, AddRollbackBlock, Seek, AddMissingBlock, AddSeekBlock, SeekBlockThread,
     ProcessNoTop, StopSaveBlock, Tick, control
<1>6. CASE Round
  BY <1>2, <1>6 DEF Round, ProcessStart, RollbackStep, FastSyncStep, UtxoMissingStep, SyncStep,
     BroadcastStep, HashPendingStep, NextPhase, ProcessExit, control
<1> QED BY <1>4, <1>5, <1>6 DEF Next, Delivery

\* Time, and the flags.
LEMMA NextClockOK == ASSUME TypeOK, Requested, Next PROVE ClockOK'
<1>1. newSync' \in [run : BOOLEAN, start : Nat]
  BY NextRequest
<1>2. now \in 0..MaxTime /\ roundTime \in 0..now /\ MaxTime \in Nat
  BY BoundAssumption DEF TypeOK
<1>3. \/ now' = now /\ roundTime' \in {now, roundTime}
      \/ now < MaxTime /\ now' = now + 1 /\ roundTime' = roundTime
  <2>1. CASE Delivery
    BY <2>1 DEF Delivery, Broadcast, AddBroadcastBlock, Synchronise, AddSyncBlock,
       AddFastSyncBlock, AddRollbackBlock, NewSyncServed, Seek, AddMissingBlock, AddSeekBlock,
       SeekBlockThread, ProcessNoTop, StopSaveBlock, Tick, control
  <2>2. CASE Round
    BY <2>2 DEF Round, ProcessStart, RollbackStep, FastSyncStep, UtxoMissingStep, SyncStep,
       BroadcastStep, HashPendingStep, NextPhase, ProcessExit, control
  <2>3. CASE SaveStep
    BY <2>3, SaveStepKeeps DEF keptBySave
  <2> QED BY <2>1, <2>2, <2>3 DEF Next, Delivery
<1>4. now' \in 0..MaxTime /\ roundTime' \in 0..now'
  BY SMT, <1>2, <1>3
<1> QED BY <1>1, <1>4 DEF ClockOK

\* A step leaves the flags and the phase of Process among their values.
LEMMA NextFlagsOK == ASSUME TypeOK, Next PROVE FlagsOK'
<1>1. FlagsOK
  BY TypeParts
<1>2. CASE UNCHANGED <<syncType, stopBlocking, processing, phase>>
  BY <1>1, <1>2 DEF FlagsOK
<1>3. ASSUME NEW type \in SyncTypes, syncType' = type, UNCHANGED <<stopBlocking, processing, phase>>
      PROVE  FlagsOK'
  BY <1>1, <1>3 DEF FlagsOK, SaveTypes, SyncTypes
<1>4. CASE Broadcast \/ Seek \/ Tick
  BY <1>2, <1>4 DEF Broadcast, AddBroadcastBlock, Seek, AddMissingBlock, AddSeekBlock,
     SeekBlockThread, Tick, control
<1>5. CASE Synchronise
  BY <1>2, <1>3, <1>5 DEF Synchronise, AddSyncBlock, AddFastSyncBlock, AddRollbackBlock,
     NewSyncServed, control
<1>6. CASE StopSaveBlock
  BY <1>1, <1>6 DEF StopSaveBlock, FlagsOK
<1>7. CASE ProcessNoTop \/ ProcessStart
  BY <1>1, <1>7 DEF ProcessNoTop, ProcessStart, FlagsOK, Phases
<1>8. CASE ProcessExit
  BY <1>1, <1>8 DEF ProcessExit, FlagsOK, Phases
<1>9. ASSUME phase # "idle", phase' \in Phases, UNCHANGED <<syncType, stopBlocking, processing>>
      PROVE  FlagsOK'
  BY <1>1, <1>9 DEF FlagsOK
<1>10. CASE RollbackStep \/ SyncStep \/ NextPhase
  <2>1. phase # "idle" /\ phase' \in {phase, "exit", "fast", "utxo", "sync", "broadcast", "hash"}
    BY <1>10 DEF RollbackStep, SyncStep, NextPhase
  <2>2. UNCHANGED <<syncType, stopBlocking, processing>>
    BY <1>10 DEF RollbackStep, SyncStep, NextPhase, control
  <2>3. phase' \in Phases
    BY <1>1, <2>1 DEF FlagsOK, Phases
  <2> QED BY <1>9, <2>1, <2>2, <2>3
<1>11. CASE FastSyncStep \/ UtxoMissingStep \/ BroadcastStep \/ HashPendingStep
  BY <1>2, <1>11 DEF FastSyncStep, UtxoMissingStep, BroadcastStep, HashPendingStep, control
<1>12. CASE SaveStep
  BY <1>2, <1>12, SaveStepKeeps DEF keptBySave
<1> QED
  BY <1>4, <1>5, <1>6, <1>7, <1>8, <1>10, <1>11, <1>12 DEF Next, Round

\* Every step changes the calls in one of the five ways, and the loop only
\* outside of SaveBlock.
LEMMA NextCalls ==
  ASSUME TypeOK, KidsAfterPost, Next
  PROVE  /\ Entered \/ Returned \/ Advanced \/ Descended \/ calls' = calls
         /\ calls # <<>> => phase' = phase
<1>1. CASE Delivery
  BY <1>1, DeliveryCalls
<1>2. CASE Round
  BY <1>2, RoundCalls DEF Entered
<1>3. CASE SaveStep
  BY <1>3, SaveStepCalls, SaveStepKeeps DEF keptBySave
<1> QED BY <1>1, <1>2, <1>3 DEF Next, Delivery

\* Only a loop of Process is inside SaveBlock.
LEMMA NextLoopsOK == ASSUME TypeOK, KidsAfterPost, Next PROVE LoopsOK'
<1>0. LoopsOK
  BY TypeParts
<1>1. calls' # <<>> => phase' \in Phases \ {"idle", "rollback", "exit"}
  <2>1. CASE calls # <<>>
    BY <1>0, <2>1, NextCalls DEF LoopsOK
  <2>2. CASE calls = <<>>
    BY <2>2, NextCalls DEF Entered, Returned, Advanced, Descended
  <2> QED BY <2>1, <2>2
<1>2. phase' \in {"idle", "exit", "utxo"} => work' = {}
  <2>1. CASE UNCHANGED <<phase, work>>
    BY <1>0, <2>1 DEF LoopsOK
  <2>2. CASE Delivery
    BY <2>1, <2>2, DeliveryCalls
  <2>3. CASE Round
    BY <1>0, <2>3 DEF LoopsOK, Round, ProcessStart, RollbackStep, FastSyncStep, UtxoMissingStep,
       SyncStep, BroadcastStep, HashPendingStep, NextPhase, ProcessExit
  <2>4. CASE SaveStep
    <3>1. phase' = phase
      BY <2>4, SaveStepKeeps DEF keptBySave
    <3> QED BY <1>0, <2>1, <2>4, <3>1, SaveStepWork DEF LoopsOK
  <2> QED BY <2>2, <2>3, <2>4 DEF Next, Delivery
<1> QED BY <1>1, <1>2 DEF LoopsOK

\* The outermost call stays the same until it returns.
LEMMA OutermostKept ==
  ASSUME TypeOK, KidsAfterPost, SaveStep, calls' # <<>>
  PROVE  calls'[Len(calls')].b = calls[Len(calls)].b
<1>1. calls \in Seq(Frames) /\ calls # <<>> /\ Len(calls) \in Nat /\ Len(calls) >= 1
  BY SaveStepKeeps, Pop DEF TypeOK
<1>2. Cur = calls[1] /\ (Len(calls) = 1 \/ Len(calls) \in 2 .. Len(calls))
  <2>1. Cur = calls[1]
    BY <1>1, CurFrame
  <2>2. \A k \in Nat : k >= 1 => k = 1 \/ k \in 2 .. k
    BY SMT
  <2> QED BY <1>1, <2>1, <2>2
<1>3. CASE Returned
  <2>1. /\ calls' \in Seq(Frames) /\ Len(calls') = Len(calls) - 1
        /\ \A i \in 1 .. Len(calls) - 1 : calls'[i] = calls[i + 1]
    BY <1>1, <1>3, Pop DEF Returned
  <2>2. Len(calls') >= 1 /\ Len(calls') \in Nat
    BY <2>1, Pop
  <2>3. calls'[Len(calls')] = calls[Len(calls') + 1] /\ Len(calls') + 1 = Len(calls)
    BY SMT, <1>1, <2>1, <2>2
  <2> QED BY <2>3
<1>4. CASE Advanced
  <2>1. PICK f \in Frames : f.b = Cur.b /\ calls' = [calls EXCEPT ![1] = f]
    BY <1>4 DEF Advanced
  <2>2. /\ Len(calls') = Len(calls) /\ calls'[1] = f
        /\ \A i \in 2 .. Len(calls) : calls'[i] = calls[i]
    BY SMT, <1>1, <2>1, Replace
  <2>3. CASE Len(calls) = 1
    BY <1>2, <2>1, <2>2, <2>3
  <2>4. CASE Len(calls) \in 2 .. Len(calls)
    BY <2>2, <2>4
  <2> QED BY <1>2, <2>3, <2>4
<1>5. CASE Descended
  <2>1. PICK f \in Frames, c \in Frames : c.b = Cur.b /\ calls' = <<f, c>> \o Tail(calls)
    BY <1>5 DEF Descended
  <2>2. /\ Len(calls') = Len(calls) + 1 /\ calls'[2] = c
        /\ \A i \in 2 .. Len(calls) : calls'[i + 1] = calls[i]
    BY SMT, <1>1, <2>1, Nest
  <2>3. CASE Len(calls) = 1
    BY SMT, <1>2, <2>1, <2>2, <2>3
  <2>4. CASE Len(calls) \in 2 .. Len(calls)
    BY <2>2, <2>4
  <2> QED BY <1>2, <2>3, <2>4
<1> QED BY <1>3, <1>4, <1>5, SaveStepCalls

\* The loop over _hashPendingBlocks never meets a block that has left that map.
LEMMA NextHashLoop ==
  ASSUME TypeOK, KidsAfterPost, Outermost, Next
  PROVE  HashLoopOK' /\ Outermost'
<1>0. /\ hashSince \in [Blocks -> 0..MaxTime \cup {None}] /\ work \subseteq New
      /\ now \in 0..MaxTime /\ MaxTime \in Nat /\ None \notin Nat
      /\ phase = "hash" => \A b \in work : hashSince[b] # None
  BY BoundAssumption DEF TypeOK
<1> SUFFICES ASSUME phase' = "hash"
             PROVE  /\ \A b \in work' : hashSince'[b] # None
                    /\ calls' # <<>> => /\ calls'[Len(calls')].b \notin work'
                                        /\ hashSince'[calls'[Len(calls')].b] # None
  BY DEF HashLoopOK, Outermost
<1> DEFINE Goal == /\ \A b \in work' : hashSince'[b] # None
                   /\ calls' # <<>> => /\ calls'[Len(calls')].b \notin work'
                                       /\ hashSince'[calls'[Len(calls')].b] # None
<1> SUFFICES Goal
  OBVIOUS
<1>1. CASE UNCHANGED <<phase, work, calls, hashSince>>
  BY <1>0, <1>1 DEF Outermost
<1>2. CASE Delivery
  <2>1. UNCHANGED <<phase, work, calls>>
    BY <1>2, DeliveryCalls
  <2>2. hashSince' = hashSince
    BY <1>2, <2>1 DEF Delivery, Broadcast, AddBroadcastBlock, Synchronise, AddSyncBlock,
       AddFastSyncBlock, AddRollbackBlock, NewSyncServed, Seek, AddMissingBlock, AddSeekBlock,
       SeekBlockThread, ProcessNoTop, StopSaveBlock, Tick, notes, Idle
  <2> QED BY <1>1, <2>1, <2>2
<1>3. CASE NextPhase
  <2>1. work' = {b \in Blocks : hashSince[b] # None} /\ hashSince' = hashSince /\ calls' = <<>>
    BY <1>3 DEF NextPhase, notes
  <2> QED BY <2>1
<1>4. CASE HashPendingStep
  <2>1. phase = "hash" /\ calls = <<>>
    BY <1>4 DEF HashPendingStep
  <2>2. PICK b \in work :
           /\ work' = work \ {b}
           /\ \/ hashSince' = [hashSince EXCEPT ![b] = None] /\ calls' = calls
              \/ Call(b, "Broadcast", FALSE) /\ hashSince' = hashSince
    BY <1>4 DEF HashPendingStep
  <2>3. CASE hashSince' = [hashSince EXCEPT ![b] = None] /\ calls' = calls
    <3>1. calls' = <<>>
      BY <2>1, <2>3
    <3>2. \A k \in work' : k \in work /\ k # b /\ k \in Blocks
      BY <1>0, <2>2 DEF New
    <3>3. \A k \in Blocks : k # b => hashSince'[k] = hashSince[k]
      BY <1>0, <2>3
    <3> QED BY <1>0, <2>1, <3>1, <3>2, <3>3
  <2>4. CASE Call(b, "Broadcast", FALSE) /\ hashSince' = hashSince
    <3> DEFINE f == [b |-> b, type |-> "Broadcast", normal |-> FALSE, at |-> "check", tx |-> 1,
                     kids |-> {}]
    <3>1. f \in Frames /\ f.b = b
      <4>1. b \in New /\ "Broadcast" \in SaveTypes
        BY <1>0 DEF SaveTypes
      <4> QED BY <4>1, NewFrame
    <3>2. calls' = <<f>> \o calls
      BY <2>4 DEF Call
    <3> HIDE DEF f
    <3>3. Len(calls) = 0 /\ calls \in Seq(Frames)
      BY <2>1, EmptySeq
    <3>4. Len(calls') = 1 /\ calls'[1] = f
      BY SMT, <3>1, <3>2, <3>3, Push
    <3> QED BY <1>0, <2>1, <2>2, <2>4, <3>1, <3>4
  <2> QED BY <2>2, <2>3, <2>4
<1>5. CASE Round
  BY <1>3, <1>4, <1>5 DEF Round, ProcessStart, RollbackStep, FastSyncStep, UtxoMissingStep,
     SyncStep, BroadcastStep, ProcessExit
<1>6. CASE SaveStep
  <2>1. phase = "hash" /\ calls # <<>>
    BY <1>6, SaveStepKeeps DEF keptBySave
  <2>2. Cur.b \in New /\ Cur.b \in Blocks /\ Cur = calls[1]
    BY <2>1, CurFrame DEF New
  <2>3. calls[Len(calls)].b \notin work /\ hashSince[calls[Len(calls)].b] # None
    BY <2>1 DEF Outermost
  <2>4. calls' # <<>> => calls'[Len(calls')].b = calls[Len(calls)].b
    BY <1>6, OutermostKept
  <2>5. CASE hashSince' = hashSince /\ work' = work
    BY <1>0, <2>1, <2>3, <2>4, <2>5
  <2>6. CASE /\ hashSince[Cur.b] = None /\ hashSince' = [hashSince EXCEPT ![Cur.b] = now]
             /\ work' \subseteq work \cup {Cur.b}
    <3>1. now # None
      BY SMT, <1>0
    <3>2. hashSince'[Cur.b] = now /\ \A b : hashSince[b] # None /\ b \in Blocks => hashSince'[b] # None
      BY <1>0, <2>2, <2>6, <3>1
    <3>3. calls[Len(calls)].b # Cur.b
      BY <2>3, <2>6
    <3>4. calls[Len(calls)].b \in Blocks
      <4>1. calls \in Seq(Frames) /\ Len(calls) \in 1 .. Len(calls)
        BY SMT, <2>1, Pop DEF TypeOK
      <4>2. calls[Len(calls)] \in Frames
        BY SMT, <4>1
      <4> QED BY <4>2 DEF Frames, New
    <3>5. \A b \in work' : hashSince'[b] # None
      BY <1>0, <2>1, <2>6, <3>1, <3>2 DEF New
    <3> QED BY <2>3, <2>4, <2>6, <3>2, <3>3, <3>4, <3>5
  <2>7. CASE /\ hashSince' = [hashSince EXCEPT ![Cur.b] = None]
             /\ Len(calls) = 1 /\ calls' = Tail(calls) /\ work' = work
    <3>1. Cur.b \notin work
      BY <2>2, <2>3, <2>7
    <3>2. \A b \in work' : hashSince'[b] # None
      BY SMT, <1>0, <2>1, <2>7, <3>1
    <3>3. calls' = <<>>
      <4>1. calls \in Seq(Frames)
        BY DEF TypeOK
      <4>2. calls' \in Seq(Frames) /\ Len(calls') = 0
        BY SMT, <2>1, <2>7, <4>1, Pop
      <4> QED BY <4>2, EmptySeq
    <3> QED BY <3>2, <3>3
  <2> QED BY <1>6, <2>1, <2>5, <2>6, <2>7, SaveStepWork
<1> QED BY <1>2, <1>5, <1>6 DEF Next, Delivery

\* The type invariant, in one step.
LEMMA NextTypeOK == ASSUME IInv, Next PROVE TypeOK'
<1> USE DEF IInv
<1>1. StoreOK' /\ SetsOK' /\ QueuesOK'
  BY NextStoreOK, NextSetsOK, NextQueuesOK
<1>2. ListsOK' /\ ClockOK' /\ FlagsOK'
  BY NextListsOK, NextClockOK, NextFlagsOK
<1>3. calls' \in Seq(Frames) /\ LoopsOK' /\ HashLoopOK'
  BY NextCalls, CallsKeep, NextLoopsOK, NextHashLoop
<1>4. (\A Q \in {broadcast, sync, fastSync, rollback} : Q \subseteq New /\ NoTies(Q))'
  BY <1>1 DEF QueuesOK
<1> QED
  BY <1>1, <1>2, <1>3, <1>4 DEF TypeOK, StoreOK, SetsOK, ListsOK, ClockOK, FlagsOK,
     LoopsOK, HashLoopOK

-----------------------------------------------------------------------------
(* Blocks that wait for their predecessor.                                 *)

\* A step that saves a block puts the blocks waiting for it among the kids of
\* its call (PostSaveProcess), and AddBroadcastBlock lets a block wait only
\* while its predecessor is missing.
LEMMA NextWaiters == ASSUME IInv, Next PROVE Waiters'
<1> USE DEF IInv
<1> SUFFICES ASSUME NEW b \in pending', prev[b] \in saved' PROVE b \in tried' \/ ToBeSaved(b)'
  BY DEF Waiters
<1>1. \A k : ToBeSaved(k) => k \in tried' \/ ToBeSaved(k)'
  BY NextCalls, CallsKeep
<1>2. ASSUME b \in pending, prev[b] \in saved, tried \subseteq tried'
      PROVE  b \in tried' \/ ToBeSaved(b)'
  BY <1>1, <1>2 DEF Waiters
<1>3. CASE Delivery
  <2>1. saved' = saved /\ tried' = tried
    BY <1>3, DeliveryCalls DEF history
  <2>2. b \in pending
    <3>1. CASE Broadcast
      <4>1. PICK c \in New : AddBroadcastBlock(c)
        BY <3>1 DEF Broadcast
      <4>2. b \in pending \/ (b = c /\ prev[c] \notin saved)
        BY <4>1 DEF AddBroadcastBlock, AddPendingBlock
      <4> QED BY <2>1, <4>2
    <3>2. CASE pending' = pending
      BY <3>2
    <3> QED
      BY <1>3, <3>1, <3>2 DEF Delivery, Synchronise, AddSyncBlock, AddFastSyncBlock,
         AddRollbackBlock, NewSyncServed, Seek, AddMissingBlock, AddSeekBlock, SeekBlockThread,
         ProcessNoTop, StopSaveBlock, Tick, queues
  <2> QED BY <1>2, <2>1, <2>2
<1>4. CASE Round
  <2>1. pending' \subseteq pending /\ saved' \subseteq saved
    BY <1>4 DEF Round, ProcessStart, RollbackStep, FastSyncStep, UtxoMissingStep, SyncStep,
       BroadcastStep, HashPendingStep, NextPhase, ProcessExit, queues
  <2>2. tried \subseteq tried'
    BY <1>4 DEF Round, ProcessStart, RollbackStep, FastSyncStep, UtxoMissingStep, SyncStep,
       BroadcastStep, HashPendingStep, NextPhase, ProcessExit, history, Call
  <2> QED BY <1>2, <2>1, <2>2
<1>5. CASE SaveStep
  <2>1. pending' = pending /\ calls # <<>>
    BY <1>5, SaveStepKeeps DEF keptBySave
  <2>2. CASE SaveBlockWrite /\ saved' = saved \cup {Cur.b}
    <3>1. \/ saved' = saved /\ tried' = tried
          \/ /\ tried' = tried \ {k \in Blocks \ {Genesis} : prev[k] = Cur.b}
             /\ calls' = [calls EXCEPT ![1].at = "post", ![1].kids = WaitingFor(Cur.b)]
      BY <2>2 DEF SaveBlockWrite
    <3>2. CASE saved' = saved /\ tried' = tried
      BY <1>2, <2>1, <3>2
    <3>3. CASE prev[b] # Cur.b /\ tried' = tried \ {k \in Blocks \ {Genesis} : prev[k] = Cur.b}
      <4>1. prev[b] \in saved
        BY <2>2, <3>3
      <4>2. b \in tried \/ ToBeSaved(b)
        BY <2>1, <4>1 DEF Waiters
      <4> QED BY <1>1, <3>3, <4>2
    <3>4. CASE /\ prev[b] = Cur.b
               /\ calls' = [calls EXCEPT ![1].at = "post", ![1].kids = WaitingFor(Cur.b)]
      <4> DEFINE W == WaitingFor(Cur.b)
      <4>1. calls \in Seq(Frames) /\ Len(calls) \in Nat /\ Len(calls) >= 1 /\ calls[1] \in Frames
        BY <2>1, Pop DEF TypeOK
      <4>2. b \in New /\ height[b] = height[prev[b]] + 1
        BY <2>1, Heights DEF TypeOK
      <4>3. b \in W
        BY <2>1, <3>4, <4>2 DEF WaitingFor
      <4> HIDE DEF W
      <4>4. calls' = [calls EXCEPT ![1].at = "post", ![1].kids = W]
        BY <3>4 DEF W
      <4>5. calls'[1].kids = W /\ 1 \in 1 .. Len(calls')
        BY SMT, <4>1, <4>4 DEF Frames
      <4> QED BY <4>3, <4>5 DEF ToBeSaved
    <3> QED BY <3>1, <3>2, <3>3, <3>4
  <2>3. CASE saved' \subseteq saved /\ tried \subseteq tried'
    BY <1>2, <2>1, <2>3
  <2> QED
    BY <1>5, <2>2, <2>3 DEF SaveStep, SaveBlockSkip, PreSaveSync, PreSaveBroadcast,
       PreSaveTxGood, PreSaveTxUnknown, DealDoubleSpend, SaveBlockWrite, PostSaveChild,
       PostSaveDone, history
<1> QED BY <1>3, <1>4, <1>5 DEF Next, Delivery

-----------------------------------------------------------------------------
(* The theorems.                                                           *)

\* A node that has just started, with its genesis block only.
LEMMA InitIInv == Init => IInv
<1> SUFFICES ASSUME Init PROVE IInv
  OBVIOUS
<1>1. StoreOK /\ SetsOK /\ QueuesOK
  BY HeaderAssumption DEF Init, StoreOK, SetsOK, QueuesOK, NoTies
<1>2. ListsOK /\ ClockOK
  BY SMT, BoundAssumption, EmptySeq DEF Init, ListsOK, ClockOK
<1>3. FlagsOK /\ LoopsOK /\ HashLoopOK
  BY DEF Init, FlagsOK, LoopsOK, HashLoopOK, Phases, SaveTypes
<1>4. calls \in Seq(Frames)
  BY EmptySeq DEF Init
<1>5. TypeOK
  BY <1>1, <1>2, <1>3, <1>4, TypeParts
<1>6. KidsAfterPost /\ Outermost /\ NotSought /\ Requested /\ Waiters
  <2>1. /\ calls = <<>> /\ phase = "idle" /\ pending = {} /\ hashSince = [b \in Blocks |-> None]
        /\ newSync = [run |-> FALSE, start |-> 0]
    BY DEF Init
  <2>2. KidsAfterPost
    BY SMT, <2>1, EmptySeq DEF KidsAfterPost
  <2>3. Outermost /\ Waiters
    BY <2>1 DEF Outermost, Waiters
  <2>4. NotSought
    <3>1. Genesis \in Blocks
      BY HeaderAssumption
    <3> QED BY <2>1, <3>1 DEF NotSought
  <2>5. Requested
    BY <2>1 DEF Requested
  <2> QED BY <2>2, <2>3, <2>4, <2>5
<1>7. Bounded
  <2>1. \A b \in saved : height[b] <= 0
    <3>1. saved = {Genesis}
      BY DEF Init
    <3>2. height[Genesis] = 0
      BY HeaderAssumption
    <3> QED BY SMT, <3>1, <3>2
  <2> QED BY <2>1 DEF Bounded
<1> QED BY <1>5, <1>6, <1>7 DEF IInv

\* Nothing happens.
LEMMA StutterIInv == ASSUME IInv, UNCHANGED vars PROVE IInv'
<1> USE DEF IInv, vars, queues, notes, control, history
<1>1. KidsAfterPost' /\ Outermost' /\ NotSought' /\ Requested'
  BY DEF KidsAfterPost, Outermost, NotSought, Requested
<1>2. Waiters' /\ Bounded'
  BY DEF Waiters, ToBeSaved, Bounded
<1>3. TypeOK'
  BY DEF TypeOK
<1> QED BY <1>1, <1>2, <1>3

\* Every step of the pool, the synchronisation thread and the seeking threads
\* preserves the inductive invariant.
THEOREM InductiveInvariant == Spec => []IInv
<1>1. IInv /\ [Next]_vars => IInv'
  <2> SUFFICES ASSUME IInv, Next PROVE IInv'
    BY StutterIInv
  <2>1. TypeOK' /\ Waiters' /\ Bounded'
    BY NextTypeOK, NextWaiters, NextBounded DEF IInv
  <2>2. KidsAfterPost' /\ Outermost' /\ NotSought' /\ Requested'
    BY NextCalls, CallsKeep, NextHashLoop, NextListsOK, NextRequest DEF IInv
  <2> QED BY <2>1, <2>2 DEF IInv
<1> QED BY <1>1, InitIInv, PTL DEF Spec

\* The type invariant of the pool.
THEOREM TypeCorrect == Spec => []TypeOK
<1>1. IInv => TypeOK
  BY DEF IInv
<1> QED BY <1>1, InductiveInvariant, PTL

\* SaveBlock and PostSaveProcess: a block in _pendingBlocks is given to
\* SaveBlock in the round that saves its predecessor, whichever queue brought
\* the predecessor, however deep the recursion, and whatever is rolled back.
THEOREM OrphansGiven == Spec => []NoOrphanLeftBehind
<1>1. IInv => NoOrphanLeftBehind
  <2> SUFFICES ASSUME IInv, phase = "idle", NEW b \in pending, prev[b] \in saved
               PROVE  b \in tried
    BY DEF NoOrphanLeftBehind
  <2>1. calls = <<>>
    BY DEF IInv, TypeOK
  <2>2. ~ ToBeSaved(b)
    BY SMT, <2>1 DEF ToBeSaved
  <2> QED BY <2>2 DEF IInv, Waiters
<1> QED BY <1>1, InductiveInvariant, PTL

-----------------------------------------------------------------------------
(* Rolling back blocks of contracts.                                       *)

\* Between two rounds there is one order, or none.
Ordered == phase = "idle" => rollback = {} \/ rollback \in RollbackSets

\* What is left to roll back comes after nothing of its contract that stays.
Closed ==
    phase = "rollback" =>
        \A w \in work, b \in saved :
            contracts[w] \cap contracts[b] # {} /\ Before(w, b) => b \in work

\* The order RollbackContractBlock completes.
LEMMA OrderClosed ==
  ASSUME TypeOK, OneContract, ContractsInOrder,
         NEW R \in SUBSET rollback, rollback = {} \/ rollback \in RollbackSets,
         NEW X \in RollbackContractBlock(R),
         NEW w \in X, NEW b \in saved, contracts[w] \cap contracts[b] # {}, Before(w, b)
  PROVE  b \in X
<1>1. X \subseteq New /\ R \subseteq X /\ R \subseteq New
  BY RollbackOrderOK DEF TypeOK, RollbackContractBlock
<1>2. /\ b \in Blocks /\ w \in Blocks /\ height[b] \in Nat /\ height[w] \in Nat
      /\ time[b] \in Nat /\ time[w] \in Nat /\ \A r \in R : r \in Blocks /\ height[r] \in Nat
  BY <1>1, HeaderAssumption DEF TypeOK, New
<1>3. height[b] >= height[w]
  BY SMT, <1>2 DEF Before
<1> DEFINE addrMap == UNION {contracts[r] : r \in R}
           more == {k \in saved \ R : /\ contracts[k] \cap addrMap # {}
                                      /\ \E r \in R : height[k] >= height[r]}
<1>4. X \subseteq R \cup more /\ \A k \in more \ X : Insert(X, k) = X
  BY DEF RollbackContractBlock
<1>5. PICK x : x \in contracts[w] /\ x \in contracts[b]
  OBVIOUS
<1>6. x \in addrMap /\ \E r \in R : height[w] >= height[r]
  <2>1. CASE w \in R
    <3>1. x \in addrMap
      BY <1>5, <2>1
    <3>2. \A h \in Nat : h >= h
      BY SMT
    <3>3. height[w] >= height[w]
      BY <1>2, <3>2
    <3> QED BY <2>1, <3>1, <3>3
  <2>2. CASE w \in more
    <3>1. PICK y : y \in contracts[w] /\ y \in addrMap
      BY <2>2
    <3>2. x = y
      BY <1>2, <1>5, <3>1 DEF OneContract
    <3> QED BY <2>2, <3>1, <3>2
  <2> QED BY <1>4, <2>1, <2>2
<1>7. \E r \in R : height[b] >= height[r]
  BY SMT, <1>2, <1>3, <1>6
<1>8. b \in R \/ b \in more
  BY <1>5, <1>6, <1>7
<1>9. CASE b \in more \ X
  <2>1. Insert(X, b) = X
    BY <1>4, <1>9
  <2>2. PICK a \in X : height[a] = height[b] /\ time[a] = time[b]
    BY <1>9, <2>1 DEF Insert
  <2> DEFINE C == {k \in Blocks : contracts[k] # {}}
  <2>3. a \in rollback \cup C /\ b \in C
    <3>1. saved \subseteq Blocks
      BY DEF TypeOK
    <3>2. more \subseteq C
      BY <3>1
    <3> HIDE DEF more, C
    <3> QED BY <1>4, <1>9, <3>2
  <2>4. ~ Before(a, b) /\ ~ Before(b, a) /\ a # b
    BY <1>2, <1>9, <2>2, SMTT(30) DEF Before
  <2>5. rollback # {}
    BY <1>7
  <2>6. NoTies(rollback \cup C)
    BY <2>5 DEF ContractsInOrder
  <2> HIDE DEF C
  <2> QED BY <2>3, <2>4, <2>6 DEF NoTies
<1> QED BY <1>1, <1>8, <1>9

\* _rollbackBlocks holds one order at most until Process takes it.
LEMMA NextOrdered == ASSUME TypeOK, Ordered, Next PROVE Ordered'
<1>1. CASE UNCHANGED <<phase, rollback>>
  BY <1>1 DEF Ordered
<1>2. CASE phase' # "idle" \/ rollback' = {}
  BY <1>2 DEF Ordered
<1>3. CASE Delivery
  <2>1. ASSUME NEW S \in RollbackSets, AddRollbackBlock(S) PROVE Ordered'
    BY <2>1 DEF AddRollbackBlock, Ordered
  <2> QED
    BY <1>1, <1>3, <2>1 DEF Delivery, Broadcast, AddBroadcastBlock, Synchronise, AddSyncBlock,
       AddFastSyncBlock, NewSyncServed, Seek, AddMissingBlock, AddSeekBlock, SeekBlockThread,
       ProcessNoTop, StopSaveBlock, Tick, queues
<1>4. CASE Round
  BY <1>1, <1>2, <1>4 DEF Round, ProcessStart, RollbackStep, FastSyncStep, UtxoMissingStep,
     SyncStep, BroadcastStep, HashPendingStep, NextPhase, ProcessExit, queues
<1>5. CASE SaveStep
  BY <1>1, <1>5, SaveStepKeeps DEF keptBySave
<1> QED BY <1>3, <1>4, <1>5 DEF Next, Delivery

\* RollbackContractBlock takes every later block of the contract with the
\* ordered one, and RollbackBlocks takes the latest first.
LEMMA NextClosed ==
  ASSUME TypeOK, OneContract, ContractsInOrder, Ordered, Closed, Next
  PROVE  Closed'
<1>1. CASE UNCHANGED <<phase, work, saved>> \/ phase' # "rollback"
  BY <1>1 DEF Closed
<1>2. CASE ProcessStart
  <2> DEFINE R == {b \in rollback : now > RollbackAge + time[b]}
  <2>1. rollback = {} \/ rollback \in RollbackSets
    BY <1>2 DEF ProcessStart, Idle, Ordered
  <2>2. work' \in RollbackContractBlock(R) /\ saved' = saved /\ R \in SUBSET rollback
    BY <1>2 DEF ProcessStart
  <2> HIDE DEF R
  <2> QED BY <2>1, <2>2, OrderClosed DEF Closed
<1>3. CASE RollbackStep
  <2> SUFFICES ASSUME phase' = "rollback" PROVE Closed'
    BY DEF Closed
  <2>1. phase = "rollback"
    BY <1>3 DEF RollbackStep
  <2>2. PICK p \in work : saved' = saved \ {p} /\ work' = work \ {p}
    BY <1>3 DEF RollbackStep
  <2> QED BY <2>1, <2>2 DEF Closed
<1>4. CASE Delivery
  BY <1>1, <1>4, DeliveryCalls
<1>5. CASE Round
  BY <1>1, <1>2, <1>3, <1>5 DEF Round, FastSyncStep, UtxoMissingStep, SyncStep, BroadcastStep,
     HashPendingStep, NextPhase, ProcessExit
<1>6. CASE SaveStep
  BY <1>1, <1>6, SaveStepKeeps DEF TypeOK, keptBySave
<1> QED BY <1>4, <1>5, <1>6 DEF Next, Delivery

\* RollbackContractBlock and RollbackBlocks: no block is rolled back from under
\* a saved block of the same contract that comes after it.
THEOREM RollbackInOrder ==
  ASSUME OneContract, ContractsInOrder
  PROVE  Spec => ContractRollbackOrder
<1> DEFINE J == Ordered /\ Closed
           A == phase = "rollback" =>
                  \A p \in saved \ saved', b \in saved' :
                     contracts[p] \cap contracts[b] # {} => ~Before(p, b)
<1>1. Init => J
  BY DEF Init, Ordered, Closed
<1>2. IInv /\ J /\ [Next]_vars => J'
  <2>1. CASE Next
    BY <2>1, NextOrdered, NextClosed DEF IInv
  <2>2. CASE UNCHANGED vars
    BY <2>2 DEF vars, queues, Ordered, Closed
  <2> QED BY <2>1, <2>2
<1>3. IInv /\ J /\ [Next]_vars => [A]_vars
  <2> SUFFICES ASSUME IInv, Closed, Next, phase = "rollback",
                      NEW p \in saved \ saved', NEW b \in saved',
                      contracts[p] \cap contracts[b] # {}
               PROVE  ~ Before(p, b)
    OBVIOUS
  <2>1. RollbackStep
    <3>1. ~ Delivery
      BY DeliveryCalls
    <3>2. ~ SaveStep
      BY SaveStepKeeps DEF IInv, TypeOK
    <3> QED
      BY <3>1, <3>2 DEF Next, Delivery, Round, ProcessStart, FastSyncStep, UtxoMissingStep,
         SyncStep, BroadcastStep, HashPendingStep, NextPhase, ProcessExit, Idle
  <2>2. p \in work /\ b \in saved /\ b # p /\ \A c \in work \ {p} : ~ Before(p, c)
    BY <2>1 DEF RollbackStep
  <2> QED BY <2>2 DEF Closed
<1> QED BY <1>1, <1>2, <1>3, InductiveInvariant, PTL DEF Spec, ContractRollbackOrder

-----------------------------------------------------------------------------
(* The queue of broadcast blocks.                                          *)

\* While nothing is rolled back, the loop over _broadcastBlocks looks at all.
Polling ==
    /\ rollback = {} /\ (phase = "rollback" => work = {})
    /\ phase = "broadcast" => broadcast \subseteq polled \cup work
    /\ phase = "hash" => broadcast \subseteq polled
    /\ PolledBeforeDropped

\* A round whose roll-back does not fail goes through the whole queue of
\* broadcast blocks before its scope exit empties it.
LEMMA NextPolling ==
  ASSUME ~ DbMayFail, RollbackSets = {}, TypeOK, Polling, Next
  PROVE  Polling'
<1> USE DEF PolledBeforeDropped
<1>1. CASE UNCHANGED <<broadcast, rollback, phase, work, polled>> /\ (stopBlocking' => stopBlocking)
  BY <1>1 DEF Polling
<1>2. CASE Delivery
  <2>1. UNCHANGED <<phase, work, polled>>
    BY <1>2, DeliveryCalls DEF history
  <2>2. CASE Broadcast
    BY <2>1, <2>2 DEF Broadcast, AddBroadcastBlock, Idle, Polling
  <2>3. CASE Synchronise
    BY <1>1, <2>1, <2>3 DEF Synchronise, AddSyncBlock, AddFastSyncBlock, NewSyncServed, queues
  <2>4. CASE Seek \/ ProcessNoTop \/ StopSaveBlock \/ Tick
    BY <1>1, <2>1, <2>4 DEF Seek, AddMissingBlock, AddSeekBlock, SeekBlockThread,
       ProcessNoTop, StopSaveBlock, Tick, queues, control
  <2> QED BY <1>2, <2>2, <2>3, <2>4 DEF Delivery
<1>3. CASE Round
  <2>1. CASE ProcessStart
    <3>1. {b \in rollback : now > RollbackAge + time[b]} = {}
      BY DEF Polling
    <3>2. rollback' \in RollbackContractBlock({})
      BY <2>1, <3>1 DEF ProcessStart
    <3>3. rollback' = {}
      BY <3>2 DEF RollbackContractBlock
    <3> QED BY <2>1, <3>3 DEF ProcessStart, Polling
  <2>2. CASE RollbackStep
    BY <2>2 DEF RollbackStep, Polling
  <2>3. CASE FastSyncStep \/ UtxoMissingStep
    BY <2>3 DEF FastSyncStep, UtxoMissingStep, Polling, queues, control
  <2>4. CASE SyncStep
    BY <2>4 DEF SyncStep, Polling, queues, control
  <2>5. CASE BroadcastStep
    BY <2>5 DEF BroadcastStep, Polling, queues, control
  <2>6. CASE HashPendingStep
    BY <2>6 DEF HashPendingStep, Polling, queues, control
  <2>7. CASE NextPhase
    BY <2>7 DEF NextPhase, Polling, queues, control, history
  <2>8. CASE ProcessExit
    BY <2>8 DEF ProcessExit, Polling
  <2> QED
    BY <1>3, <2>1, <2>2, <2>3, <2>4, <2>5, <2>6, <2>7, <2>8 DEF Round
<1>4. CASE SaveStep
  <2>1. UNCHANGED <<broadcast, rollback, phase, polled, stopBlocking>> /\ calls # <<>>
    BY <1>4, SaveStepKeeps, SaveStepNotes DEF keptBySave
  <2>2. phase \in Phases \ {"idle", "rollback", "exit"}
    BY <2>1 DEF TypeOK
  <2>3. phase = "broadcast" => work' = work
    BY <1>4, SaveStepWork
  <2> QED BY <2>1, <2>2, <2>3 DEF Polling
<1> QED BY <1>2, <1>3, <1>4 DEF Next, Delivery

\* Process: without roll-back orders and database failures, a round that is not
\* stopped by StopSaveBlock has looked at every block of _broadcastBlocks before
\* its exit clears that queue.
THEOREM PollsBeforeDropping ==
  ASSUME ~ DbMayFail, RollbackSets = {}
  PROVE  Spec => []PolledBeforeDropped
<1>1. Init => Polling
  BY DEF Init, Polling, PolledBeforeDropped
<1>2. IInv /\ Polling /\ [Next]_vars => Polling'
  <2>1. CASE Next
    BY <2>1, NextPolling DEF IInv
  <2>2. CASE UNCHANGED vars
    BY <2>2 DEF vars, queues, control, history, Polling, PolledBeforeDropped
  <2> QED BY <2>1, <2>2
<1>3. Polling => PolledBeforeDropped
  BY DEF Polling
<1> QED BY <1>1, <1>2, <1>3, InductiveInvariant, PTL DEF Spec

-----------------------------------------------------------------------------
(* A set of natural numbers has a least element.                           *)

INSTANCE WellFoundedInduction

\* The smallest number of a set, such as the height a search starts from.
LEMMA Least == ASSUME NEW T \in SUBSET Nat, T # {} PROVE \E m \in T : \A k \in T : m <= k
<1> DEFINE R == OpToRel(<, Nat)
<1>1. IsWellFoundedOn(R, Nat)
  BY NatLessThanWellFounded
<1>2. \A x, y \in Nat : x < y => <<x, y>> \in R
  BY DEF OpToRel
<1> HIDE DEF R
<1>3. PICK x \in T : \A y \in T : ~ (<<y, x>> \in R)
  BY <1>1, WFMin
<1>4. \A y \in T : ~ (y < x)
  BY <1>2, <1>3
<1>5. \A y \in T : x <= y
  BY SMT, <1>4
<1> QED BY <1>5

-----------------------------------------------------------------------------
(* Requests for a synchronisation.                                         *)

\* The chain has a height.
LEMMA TopType == ASSUME TypeOK, Bounded PROVE Top \in Nat
<1> DEFINE H == {h \in Nat : \A b \in saved : height[b] <= h}
<1>1. H \in SUBSET Nat /\ H # {}
  BY DEF Bounded
<1>2. PICK m \in H : \A k \in H : m <= k
  BY <1>1, Least
<1>3. saved \subseteq Blocks /\ Genesis \in saved /\ height[Genesis] = 0
      /\ \A b \in saved : height[b] \in Nat
  BY HeaderAssumption DEF TypeOK
<1>4. \E b \in saved : height[b] = m
  <2> SUFFICES ASSUME \A b \in saved : height[b] # m PROVE FALSE
    OBVIOUS
  <2>1. m \in Nat /\ m # 0 /\ \A b \in saved : height[b] <= m - 1
    BY SMT, <1>2, <1>3
  <2>2. m - 1 \in H
    BY SMT, <2>1
  <2> QED BY SMT, <1>2, <2>1, <2>2
<1>5. \E h \in {height[b] : b \in saved} : \A b \in saved : height[b] <= h
  BY <1>2, <1>4
<1>6. Top \in {height[b] : b \in saved}
  BY <1>5 DEF Top
<1> QED BY <1>3, <1>6

\* SaveBlock, PreSaveProcess and SetNewSyncHeight: a refused synchronised block
\* without predecessor leaves a request from below its height, and no failure
\* moves a request up.
THEOREM FailureCovered == Spec => ResyncCoversFailure
<1> DEFINE A ==
       /\ newSync.run /\ newSync'.run => newSync'.start <= newSync.start
       /\ At("check") /\ Cur.type = "SyncNormal" /\ prev[Cur.b] \notin saved
             /\ height[Cur.b] < Top + 2 /\ Cur.b \notin saved /\ calls' = Tail(calls)
             => newSync'.run /\ newSync'.start < height[Cur.b]
<1>1. ASSUME IInv, Next PROVE A
  <2> USE DEF IInv
  <2>1. newSync.run /\ newSync'.run => newSync'.start <= newSync.start
    BY <1>1, NextRequest
  <2>2. ASSUME At("check"), Cur.type = "SyncNormal", prev[Cur.b] \notin saved,
               height[Cur.b] < Top + 2, Cur.b \notin saved, calls' = Tail(calls)
        PROVE  newSync'.run /\ newSync'.start < height[Cur.b]
    <3>1. calls # <<>> /\ calls \in Seq(Frames) /\ Cur.b \in New
      BY <1>1, <2>2, CurFrame DEF At
    <3>2. Len(calls) \in Nat /\ Len(calls) >= 1 /\ Len(calls') = Len(calls) - 1
      BY <2>2, <3>1, Pop
    <3>3. calls' # calls /\ Len(calls') # Len(calls)
      BY SMT, <3>2
    <3>4. SaveStep
      <4>1. ~ Delivery
        BY <3>3, DeliveryCalls
      <4>2. ~ Round
        BY <1>1, <3>1, <3>3, RoundCalls DEF Entered
      <4> QED BY <1>1, <4>1, <4>2 DEF Next, Delivery
    <3>5. ~ SaveBlockSkip
      <4>1. Top \in Nat /\ height[Cur.b] \in Nat
        BY <1>1, <3>1, TopType, Heights
      <4>2. ~ (height[Cur.b] >= Top + 2)
        BY SMT, <2>2, <4>1
      <4> QED BY <2>2, <4>2 DEF SaveBlockSkip
    <3>6. PreSaveSync
      BY <2>2, <3>4, <3>5 DEF SaveStep, PreSaveBroadcast, PreSaveTxGood, PreSaveTxUnknown,
         DealDoubleSpend, SaveBlockWrite, PostSaveChild, PostSaveDone, At
    <3>7. newSync' = SetNewSyncHeight(newSync, height[Cur.b] - 1)
      <4>1. ~ Goto("save")
        <5>1. Len([calls EXCEPT ![1].at = "save"]) = Len(calls)
          BY <3>1, NestedKeepsLen
        <5> QED BY <3>3, <5>1 DEF Goto
      <4> QED BY <2>2, <3>6, <4>1 DEF PreSaveSync
    <3>8. height[Cur.b] - 1 \in Nat /\ height[Cur.b] - 1 > 0 /\ height[Cur.b] \in Nat
      <4>1. prev[Cur.b] \in New
        BY <1>1, <2>2, <3>1, Heights DEF TypeOK, New
      <4>2. /\ height[Cur.b] \in Nat /\ height[prev[Cur.b]] \in Nat /\ height[prev[Cur.b]] > 0
            /\ height[Cur.b] = height[prev[Cur.b]] + 1
        BY <3>1, <4>1, Heights, HeaderAssumption
      <4> QED BY SMT, <4>2
    <3> DEFINE n == height[Cur.b] - 1
    <3>9. newSync \in [run : BOOLEAN, start : Nat] /\ (newSync.run => newSync.start > 0)
      BY <1>1 DEF TypeOK, Requested
    <3>10. SetNewSyncHeight(newSync, n).run /\ SetNewSyncHeight(newSync, n).start <= n
           /\ SetNewSyncHeight(newSync, n).start \in Nat
      BY <3>8, <3>9, SetHeight
    <3>11. \A s \in Nat, h \in Nat : s <= h - 1 => s < h
      BY SMT
    <3> QED BY <3>7, <3>8, <3>10, <3>11
  <2> QED BY <2>1, <2>2
<1>2. IInv /\ [Next]_vars => [A]_vars
  BY <1>1
<1> QED BY <1>2, InductiveInvariant, PTL DEF Spec, ResyncCoversFailure

=============================================================================
