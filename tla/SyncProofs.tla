----------------------------- MODULE SyncProofs -----------------------------
(***************************************************************************)
(* What the synchronisation thread keeps true in whatever order the other  *)
(* threads write its flags, for every window size and every limit of       *)
(* repetition; and that a new round which asked only a sample of the nodes *)
(* rolls nothing back, for any nodes, chains and answers.                  *)
(***************************************************************************)
EXTENDS SyncThread, NewSync, TLAPS

\* Most leaves are first-order; those with arithmetic, sequences or records name SMT.
USE Zenon

-----------------------------------------------------------------------------
(* The synchronisation thread.                                             *)

\* A round from zero is not picked once its failures have used up the limit,
\* so the counter is never more than one beyond it.
ZeroWithinLimit == thread = "zero" => runZeroSyncNum <= ZeroRetries

\* A fast round asks for one height, at most one above the top of the chain.
FastAtOneHeight ==
    thread = "fast" => window.start = window.end /\ window.start \in 0 .. MaxHeight + 1

\* While a new round runs, every request made before it is the round's own.
RoundTakesRequest == thread \in {"new", "synced"} => owed # "request"

IInv ==
    /\ ThreadTypeOK
    /\ ZeroWithinLimit /\ FastAtOneHeight /\ RoundTakesRequest
    /\ AnswerableWindow /\ RequestKept

-----------------------------------------------------------------------------
(* The window of a new round.                                              *)

\* A window around height h is not empty and not wider than a peer answers.
LEMMA WindowAround ==
  ASSUME NEW h \in Nat
  PROVE  /\ LowestAsked(h) \in Nat /\ h + SyncHeightCnt \in Nat
         /\ LowestAsked(h) <= h + SyncHeightCnt
         /\ h + SyncHeightCnt - LowestAsked(h) <= WidestAnswer
BY SMT, CountAssumption DEF LowestAsked

\* The same of a window that ends just above h, near the top of the chain.
LEMMA WindowBelow ==
  ASSUME NEW h \in Nat
  PROVE  /\ LowestAsked(h) \in Nat /\ LowestAsked(h) <= h + 1
         /\ h + 1 - LowestAsked(h) <= WidestAnswer
BY SMT, CountAssumption DEF LowestAsked

-----------------------------------------------------------------------------
(* The invariant is inductive.                                             *)

\* The type invariant in parts: flags, counters and heights, and the rest.
FlagsOK ==
    running \in BOOLEAN /\ runFastSync \in BOOLEAN /\ inFastSyncFail \in BOOLEAN /\ runNewSync \in BOOLEAN

CountsOK ==
    /\ top \in Heights /\ newSetter \in Heights \cup {None}
    /\ newSyncFailHeight \in 0 .. MaxHeight + 1 /\ newSyncStartHeight \in Heights
    /\ runFastSuncNum \in 0 .. FastRetries /\ runZeroSyncNum \in 0 .. ZeroRetries + 1

PlacesOK ==
    /\ thread \in {"loop", "waiting", "picking", "fast", "zero", "new", "synced", "ended"}
    /\ window \in [start : Nat, end : Nat] /\ askAll \subseteq {"fast", "zero", "new"}
    /\ seeker \in [at : {"out", "searching", "found", "set"}, height : Heights]
    /\ owed \in {"nothing", "request", "round"}

\* The type invariant in three parts, each of which few steps touch.
LEMMA TypeSplit == ThreadTypeOK <=> FlagsOK /\ CountsOK /\ PlacesOK
BY DEF ThreadTypeOK, FlagsOK, CountsOK, PlacesOK

\* Between two rounds the window is a range, of the height 0.
LEMMA EmptyIsWindow == Empty \in [start : Nat, end : Nat]
BY DEF Empty

\* Before ThreadStart there is no round, no request and no seeker.
LEMMA InitIInv == ThreadInit => IInv
<1> SUFFICES ASSUME ThreadInit
             PROVE  IInv
  OBVIOUS
<1>1. Nobody \in [at : {"out", "searching", "found", "set"}, height : Heights]
  BY SMT, CountAssumption DEF Nobody, Heights
<1>2. ThreadTypeOK
  <2>1. FlagsOK
    BY DEF ThreadInit, FlagsOK
  <2>2. PlacesOK
    BY <1>1, EmptyIsWindow DEF ThreadInit, PlacesOK
  <2>3. CountsOK
    BY SMT, CountAssumption DEF ThreadInit, CountsOK, Heights
  <2>4. QED
    BY <2>1, <2>2, <2>3, TypeSplit
<1>3. QED
  BY <1>2 DEF ThreadInit, IInv, ZeroWithinLimit, FastAtOneHeight, RoundTakesRequest,
     AnswerableWindow, RequestKept

\* The threads that write the flags.
LEMMA OthersKeep ==
  ASSUME IInv,
         \/ TopMoves \/ SetNewSyncStart \/ ThreadStop \/ SetFastSyncHeight \/ ThreadStart
         \/ \E h \in Heights : SetNewSyncFlag(h) \/ SetFastSyncFlag(h)
  PROVE  IInv'
<1> USE CountAssumption DEF IInv, ThreadTypeOK, ZeroWithinLimit, FastAtOneHeight, RoundTakesRequest,
        AnswerableWindow, RequestKept, Heights, thread_vars, fast_vars, new_vars, setter_vars
<1>1. CASE TopMoves
  BY SMT, <1>1 DEF TopMoves
<1>2. CASE SetNewSyncStart
  BY SMT, <1>2 DEF SetNewSyncStart, LowestRequest
<1>3. CASE ThreadStop
  BY <1>3 DEF ThreadStop
<1>4. CASE SetFastSyncHeight
  BY SMT, <1>4 DEF SetFastSyncHeight
<1>5. CASE ThreadStart
  BY SMT, <1>5 DEF ThreadStart, Nobody
<1>6. ASSUME NEW h \in Heights, SetNewSyncFlag(h)
      PROVE  IInv'
  BY SMT, <1>6 DEF SetNewSyncFlag
<1>7. ASSUME NEW h \in Heights, SetFastSyncFlag(h)
      PROVE  IInv'
  BY SMT, <1>7 DEF SetFastSyncFlag
<1>8. QED
  BY <1>1, <1>2, <1>3, <1>4, <1>5, <1>6, <1>7

\* A new round asks for a window that peers answer.
LEMMA PickNewKeeps ==
  ASSUME IInv, PickNew
  PROVE  IInv'
<1> USE DEF IInv
<1> DEFINE h == IF newSyncFailHeight # 0 THEN newSyncFailHeight ELSE top
           asked == IF newSyncStartHeight > h THEN h ELSE newSyncStartHeight
<1>1. h \in Nat /\ asked \in Heights
  BY SMT, CountAssumption DEF ThreadTypeOK, Heights
<1>2. PICK highest \in Heights :
        /\ newSyncStartHeight' = IF runNewSync THEN asked ELSE newSyncStartHeight
        /\ window' = IF runNewSync
                     THEN [start |-> LowestAsked(asked), end |-> asked + SyncHeightCnt]
                     ELSE [start |-> LowestAsked(h),
                           end |-> IF NearChainTop(highest, h) THEN h + 1 ELSE h + SyncHeightCnt]
  BY DEF PickNew
<1>3. asked \in Nat
  BY SMT, <1>1, CountAssumption DEF Heights
<1> HIDE DEF h, asked
<1>4. /\ window' \in [start : Nat, end : Nat]
      /\ window'.start <= window'.end /\ window'.end - window'.start <= WidestAnswer
  <2>1. CASE runNewSync
    <3>1. window' = [start |-> LowestAsked(asked), end |-> asked + SyncHeightCnt]
      BY <1>2, <2>1
    <3>2. /\ LowestAsked(asked) \in Nat /\ asked + SyncHeightCnt \in Nat
          /\ LowestAsked(asked) <= asked + SyncHeightCnt
          /\ asked + SyncHeightCnt - LowestAsked(asked) <= WidestAnswer
      BY <1>3, WindowAround
    <3>3. QED
      BY SMT, <1>1, <1>3, <3>1, <3>2, CountAssumption
  <2>2. CASE ~runNewSync /\ NearChainTop(highest, h)
    <3>1. window' = [start |-> LowestAsked(h), end |-> h + 1]
      BY <1>2, <2>2
    <3>2. /\ LowestAsked(h) \in Nat /\ h + 1 \in Nat
          /\ LowestAsked(h) <= h + 1 /\ h + 1 - LowestAsked(h) <= WidestAnswer
      BY SMT, <1>1, WindowBelow
    <3>3. QED
      BY SMT, <1>1, <1>3, <3>1, <3>2, CountAssumption
  <2>3. CASE ~runNewSync /\ ~NearChainTop(highest, h)
    <3>1. window' = [start |-> LowestAsked(h), end |-> h + SyncHeightCnt]
      BY <1>2, <2>3
    <3>2. /\ LowestAsked(h) \in Nat /\ h + SyncHeightCnt \in Nat
          /\ LowestAsked(h) <= h + SyncHeightCnt
          /\ h + SyncHeightCnt - LowestAsked(h) <= WidestAnswer
      BY <1>1, WindowAround
    <3>3. QED
      BY SMT, <1>1, <1>3, <3>1, <3>2, CountAssumption
  <2>4. QED
    BY <2>1, <2>2, <2>3
<1>5. newSyncStartHeight' \in Heights
  BY <1>1, <1>2 DEF ThreadTypeOK
<1>6. runFastSync' \in BOOLEAN /\ runFastSuncNum' \in 0 .. FastRetries
  <2>1. runFastSync' \in BOOLEAN
    BY DEF PickNew, DropFast
  <2>2. runFastSuncNum' = 0 \/ runFastSuncNum' = runFastSuncNum
    BY DEF PickNew, DropFast, FastNumBefore
  <2>3. QED
    BY SMT, <2>1, <2>2, CountAssumption DEF ThreadTypeOK
<1>7. ThreadTypeOK'
  BY <1>4, <1>5, <1>6 DEF PickNew, ThreadTypeOK, Heights, setter_vars
<1>8. AnswerableWindow'
  BY <1>4 DEF AnswerableWindow
<1>9. RoundTakesRequest' /\ RequestKept' /\ ZeroWithinLimit' /\ FastAtOneHeight'
  BY DEF PickNew, ThreadTypeOK, RoundTakesRequest, RequestKept, ZeroWithinLimit, FastAtOneHeight
<1>10. QED
  BY <1>7, <1>8, <1>9

\* The steps of the thread that leave its counters alone, and the start of a
\* fast round.
LEMMA ThreadKeeps ==
  ASSUME IInv,
         Loop \/ Wake \/ SkipRound \/ PickFast \/ FastRoundRepeats \/ FastDone \/ NewReturns
  PROVE  IInv'
<1> USE CountAssumption, EmptyIsWindow DEF IInv, ThreadTypeOK, ZeroWithinLimit, FastAtOneHeight,
        RoundTakesRequest, AnswerableWindow, RequestKept, Heights, thread_vars, fast_vars,
        new_vars, setter_vars
<1>1. CASE Loop
  BY <1>1 DEF Loop
<1>2. CASE Wake
  BY <1>2 DEF Wake
<1>3. CASE SkipRound
  BY <1>3 DEF SkipRound
<1>4. CASE PickFast
  BY SMT, <1>4 DEF PickFast, TakeFast, WornOut, FastNumBefore
<1>5. CASE FastRoundRepeats
  BY <1>5 DEF FastRoundRepeats
<1>6. CASE FastDone
  BY <1>6 DEF FastDone
<1>7. CASE NewReturns
  BY <1>7 DEF NewReturns
<1>8. QED
  BY <1>1, <1>2, <1>3, <1>4, <1>5, <1>6, <1>7

\* The steps that reset or count.
LEMMA CountersKeep ==
  ASSUME IInv, PickZero \/ ZeroDone \/ NewDone \/ NewFailed
  PROVE  IInv'
<1> DEFINE Kept ==
      ZeroWithinLimit /\ FastAtOneHeight /\ RoundTakesRequest /\ AnswerableWindow /\ RequestKept
<1>1. FlagsOK /\ CountsOK /\ PlacesOK /\ Kept
  BY TypeSplit DEF IInv
<1>2. SUFFICES FlagsOK' /\ CountsOK' /\ PlacesOK' /\ Kept'
  BY DEF IInv, ThreadTypeOK, FlagsOK, CountsOK, PlacesOK
<1> USE <1>1, CountAssumption, EmptyIsWindow
    DEF Kept, ZeroWithinLimit, FastAtOneHeight, RoundTakesRequest, AnswerableWindow,
        RequestKept, Heights, thread_vars, fast_vars, new_vars, setter_vars
<1>3. CASE PickZero
  <2>1. FlagsOK'
    BY <1>3 DEF PickZero, DropFast, FastNumBefore, ForcedNew, FlagsOK
  <2>2. CountsOK'
    BY SMT, <1>3 DEF PickZero, DropFast, FastNumBefore, ForcedNew, CountsOK
  <2>3. PlacesOK'
    BY <1>3 DEF PickZero, DropFast, FastNumBefore, ForcedNew, PlacesOK
  <2>4. Kept'
    BY SMT, <1>3 DEF PickZero, DropFast, FastNumBefore, ForcedNew, CountsOK, PlacesOK
  <2>5. QED
    BY <2>1, <2>2, <2>3, <2>4
<1>4. CASE ZeroDone
  <2>1. FlagsOK'
    BY <1>4 DEF ZeroDone, FlagsOK
  <2>2. CountsOK'
    BY SMT, <1>4 DEF ZeroDone, CountsOK
  <2>3. PlacesOK'
    BY <1>4 DEF ZeroDone, PlacesOK
  <2>4. Kept'
    BY <1>4 DEF ZeroDone, CountsOK, PlacesOK
  <2>5. QED
    BY <2>1, <2>2, <2>3, <2>4
<1>5. CASE NewDone
  <2>1. FlagsOK'
    BY <1>5 DEF NewDone, FlagsOK
  <2>2. CountsOK'
    BY SMT, <1>5 DEF NewDone, CountsOK
  <2>3. PlacesOK'
    BY <1>5 DEF NewDone, PlacesOK
  <2>4. Kept'
    BY <1>5 DEF NewDone, CountsOK, PlacesOK
  <2>5. QED
    BY <2>1, <2>2, <2>3, <2>4
<1>6. CASE NewFailed
  <2>1. FlagsOK'
    BY <1>6 DEF NewFailed, FlagsOK
  <2>2. CountsOK'
    BY SMT, <1>6 DEF NewFailed, CountsOK
  <2>3. PlacesOK'
    BY <1>6 DEF NewFailed, PlacesOK
  <2>4. Kept'
    BY <1>6 DEF NewFailed, CountsOK, PlacesOK
  <2>5. QED
    BY <2>1, <2>2, <2>3, <2>4
<1>7. QED
  BY <1>3, <1>4, <1>5, <1>6

\* Every step of the synchronisation thread, of a round and of the threads
\* that ask for a synchronisation keeps the invariant.
LEMMA NextIInv == IInv /\ [ThreadNext]_all_vars => IInv'
<1> SUFFICES ASSUME IInv, [ThreadNext]_all_vars
             PROVE  IInv'
  OBVIOUS
<1>1. CASE UNCHANGED all_vars
  BY SMT, <1>1 DEF all_vars, thread_vars, fast_vars, new_vars, setter_vars, IInv, ThreadTypeOK,
     ZeroWithinLimit, FastAtOneHeight, RoundTakesRequest, AnswerableWindow, RequestKept
<1>2. CASE ThreadNext
  BY <1>2, OthersKeep, PickNewKeeps, ThreadKeeps, CountersKeep DEF ThreadNext, Pick, RoundDone
<1>3. QED
  BY <1>1, <1>2

\* IInv holds in every state of the thread.
THEOREM InductiveInvariant == ThreadSpec => []IInv
BY InitIInv, NextIInv, PTL DEF ThreadSpec

-----------------------------------------------------------------------------
\* Every variable keeps its type.  In particular neither counter outgrows its
\* limit, although runFastSuncNum is reset in another branch of ThreadStart
\* than the one that counts.
THEOREM TypeCorrect == ThreadSpec => []ThreadTypeOK
<1>1. IInv => ThreadTypeOK
  BY DEF IInv
<1>2. QED
  BY <1>1, InductiveInvariant, PTL

\* ThreadStart asks only for ranges that peers answer, for every half-window up
\* to kSyncBound, whatever heights SetNewSyncHeight and SetFastSync have
\* written and between whichever of their two writes it reads.
THEOREM WindowsAnswerable == ThreadSpec => []AnswerableWindow
<1>1. IInv => AnswerableWindow
  BY DEF IInv
<1>2. QED
  BY <1>1, InductiveInvariant, PTL

\* runNewSync stays up for a request made outside a new round until a round
\* that began after it has succeeded.
THEOREM RequestsKept == ThreadSpec => []RequestKept
<1>1. IInv => RequestKept
  BY DEF IInv
<1>2. QED
  BY <1>1, InductiveInvariant, PTL

-----------------------------------------------------------------------------
(* The new round.                                                          *)

\* Peers and the node's own pool neither change how many nodes are asked nor
\* order a rollback.
LEMMA OutsideOrders == ASSUME Outside PROVE UNCHANGED all /\ orders' \subseteq orders
BY DEF Outside, PeerChanges, PoolSaves, PoolRefuses, PoolRollsBack

\* A fork is settled only in a round that asked all nodes.
ForkAsksAll == phase = "fork" => all

\* Every step of a round keeps this: _GetSyncSumHashNode hands a dispute over to
\* the fork's settlement only past the test of the number of nodes asked, and
\* every request that fails ends the round.
LEMMA NewForkAsksAll == ASSUME ForkAsksAll, Next PROVE ForkAsksAll'
<1>1. CASE Outside /\ UNCHANGED <<phase, round>>
  BY <1>1, OutsideOrders DEF ForkAsksAll
<1>2. CASE Begin
  BY <1>2 DEF Begin, Fail, ForkAsksAll
<1>3. CASE GetSums
  BY <1>3 DEF GetSums, Fail, ForkAsksAll
<1>4. CASE Key
  BY <1>4 DEF Key, KeyAgreed, KeySample, KeyDisputed, Fail, Compare, Skip,
     Order, ForkAsksAll
<1>5. CASE KeysDone
  BY <1>5 DEF KeysDone, Continue, Succeed, ForkAsksAll
<1>6. CASE GetFork
  BY <1>6 DEF GetFork, Fail, Compare, Order, ForkAsksAll
<1>7. CASE GetHashes
  BY <1>7 DEF GetHashes, Fail, Continue, Succeed, Order, ForkAsksAll
<1>8. CASE GetData
  BY <1>8 DEF GetData, Fail, Continue, Succeed, Compare, ForkAsksAll
<1> QED BY <1>1, <1>2, <1>3, <1>4, <1>5, <1>6, <1>7, <1>8 DEF Next, Sync

\* A step of a round that asked a sample orders nothing new to be rolled back.
LEMMA NewOrders == ASSUME ForkAsksAll, Next, TooFewAsked PROVE orders' \subseteq orders
<1>1. CASE Outside /\ UNCHANGED <<phase, round>>
  BY <1>1, OutsideOrders
<1>2. CASE Begin \/ GetSums \/ KeysDone \/ GetData
  BY <1>2 DEF Begin, GetSums, KeysDone, GetData
<1>4. CASE Key
  BY <1>4 DEF Key, KeyAgreed, KeySample, KeyDisputed, TooFewAsked
<1>6. CASE GetFork
  BY <1>6 DEF GetFork, ForkAsksAll, TooFewAsked
<1>7. CASE GetHashes
  BY <1>7 DEF GetHashes
<1> QED BY <1>1, <1>2, <1>4, <1>6, <1>7 DEF Next, Sync

\* A new round that asked fewer nodes than qualify orders no block to be rolled
\* back, at neither of the two places where it calls AddRollbackBlock, whatever
\* the nodes answer, forget or change while it runs.
THEOREM NewSampleKeepsBlocks == Spec => SampleRollsNothingBack
<1>1. Init => ForkAsksAll
  BY DEF Init, ForkAsksAll
<1>2. ForkAsksAll /\ [Next]_vars => ForkAsksAll'
  BY NewForkAsksAll DEF vars, ForkAsksAll
<1>3. ForkAsksAll /\ [Next]_vars => [TooFewAsked => orders' \subseteq orders]_orders
  BY NewOrders DEF vars
<1> QED BY <1>1, <1>2, <1>3, PTL DEF Spec, SampleRollsNothingBack, TooFewAsked
=============================================================================
