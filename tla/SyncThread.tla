----------------------------- MODULE SyncThread -----------------------------
(***************************************************************************)
(* The synchronisation thread of ca/sync_block.cpp: SyncBlock::ThreadStart *)
(* picks, once per wake-up, one of three kinds of round (fast, from zero,  *)
(* new) from flags that the block pool writes without a lock.  The rounds  *)
(* themselves are one step here, with every outcome they can report; what  *)
(* they do is in NewSync, FastSync and ZeroSync.                           *)
(*                                                                         *)
(* The flags have two writers besides the thread.  SaveBlock and Process   *)
(* ask for a new synchronisation with SetNewSyncHeight.  The thread that   *)
(* looks for the block of a missing utxo (SendBlockByUtxoReq) stops the    *)
(* synchronisation thread, may ask for a fast synchronisation with         *)
(* SetFastSync, and enables the thread again.  Both setters write their    *)
(* flag first and their height second, and are two steps here.             *)
(***************************************************************************)
EXTENDS Naturals

CONSTANTS
    MaxHeight,     \* bound: the heights of the model are 0 .. MaxHeight
    SyncHeightCnt, \* syncHeightCnt, half of a window
    SyncBound,     \* kSyncBound, its largest value
    NearTop,       \* the 10 in chainHeight - 10
    SumHashRange,  \* global::ca::sum_hash_range
    FastRetries,   \* fast rounds before the fast flag is dropped (5)
    ZeroRetries,   \* failed rounds from zero before a new one is forced (2)
    WidestAnswer,  \* the widest range a peer answers (SendSyncGetSumHashAck)
    MayStop,       \* whether SendBlockByUtxoReq stops and restarts the thread
    DbMayFail,     \* whether database calls may fail
    None

ASSUME CountAssumption ==
    /\ MaxHeight \in Nat \ {0}
    /\ SyncHeightCnt \in Nat \ {0} /\ SyncBound \in Nat /\ SyncHeightCnt <= SyncBound
    /\ WidestAnswer \in Nat /\ 2 * SyncBound <= WidestAnswer
    /\ NearTop \in Nat /\ SumHashRange \in Nat \ {0}
    /\ FastRetries \in Nat \ {0} /\ ZeroRetries \in Nat
    /\ MayStop \in BOOLEAN /\ DbMayFail \in BOOLEAN /\ None \notin Nat

VARIABLES
    thread,             \* where the synchronisation thread is
    running,            \* _syncThreadRuning
    top,                \* the node's height in the database
    runFastSync, newSyncFailHeight, inFastSyncFail, runFastSuncNum,
    runNewSync, newSyncStartHeight, runZeroSyncNum,
    askAll,             \* the kinds of round whose syncSend..Num is UINT32_MAX
    window,             \* the heights the current round asks for, if any
    newSetter,          \* SetNewSyncHeight between its two writes, or None
    seeker,             \* where SendBlockByUtxoReq is
    owed                \* history: see RequestKept

thread_vars == <<thread, window, askAll>>
fast_vars == <<runFastSync, newSyncFailHeight, inFastSyncFail, runFastSuncNum>>
new_vars == <<runNewSync, newSyncStartHeight, runZeroSyncNum>>
setter_vars == <<newSetter, seeker>>
all_vars == <<thread_vars, running, top, fast_vars, new_vars, setter_vars, owed>>

Heights == 0 .. MaxHeight
Empty == [start |-> 0, end |-> 0]
Nobody == [at |-> "out", height |-> 0]

ThreadInit ==
    /\ thread = "loop" /\ running = TRUE
    /\ top \in Heights
    /\ runFastSync = FALSE /\ newSyncFailHeight = 0
    /\ inFastSyncFail = FALSE /\ runFastSuncNum = 0
    /\ runNewSync = FALSE /\ newSyncStartHeight = 0 /\ runZeroSyncNum = 0
    /\ window = Empty /\ askAll = {}
    /\ newSetter = None /\ seeker = Nobody
    /\ owed = "nothing"

-----------------------------------------------------------------------------
(* The other threads.                                                      *)

\* Blocks are saved and rolled back meanwhile.
TopMoves ==
    /\ top' \in Heights \cap {top - 1, top + 1}
    /\ UNCHANGED <<thread_vars, running, fast_vars, new_vars, setter_vars, owed>>

\* SetNewSyncHeight(h), called when a block of height h or h + 1 is refused.
SetNewSyncFlag(h) ==
    /\ newSetter = None /\ h > 0
    /\ runNewSync' = TRUE
    /\ newSetter' = h
    /\ owed' = IF thread \in {"new", "synced"} THEN owed ELSE "request"
    /\ UNCHANGED <<thread_vars, running, top, fast_vars, newSyncStartHeight,
                   runZeroSyncNum, seeker>>

LowestRequest(old, h) == IF old = 0 \/ old > h THEN h ELSE old

SetNewSyncStart ==
    /\ newSetter # None
    /\ newSyncStartHeight' = LowestRequest(newSyncStartHeight, newSetter)
    /\ newSetter' = None
    /\ UNCHANGED <<thread_vars, running, top, fast_vars, runNewSync,
                   runZeroSyncNum, seeker, owed>>

\* SendBlockByUtxoReq found that the block is already saved: ThreadStop.
ThreadStop ==
    /\ MayStop /\ seeker.at = "out"
    /\ running' = FALSE
    /\ seeker' = [seeker EXCEPT !.at = "searching"]
    /\ UNCHANGED <<thread_vars, top, fast_vars, new_vars, newSetter, owed>>

\* RollbackPreviousBlocks found the other spender at height h, or nothing.
SetFastSyncFlag(h) ==
    /\ seeker.at = "searching" /\ h \in 1 .. top
    /\ runFastSync' = TRUE
    /\ seeker' = [at |-> "found", height |-> h]
    /\ UNCHANGED <<thread_vars, running, top, newSyncFailHeight, inFastSyncFail,
                   runFastSuncNum, new_vars, newSetter, owed>>

SetFastSyncHeight ==
    /\ seeker.at = "found"
    /\ newSyncFailHeight' = seeker.height
    /\ seeker' = [at |-> "set", height |-> 0]
    /\ UNCHANGED <<thread_vars, running, top, runFastSync, inFastSyncFail,
                   runFastSuncNum, new_vars, newSetter, owed>>

\* ThreadStart(true).
ThreadStart ==
    /\ seeker.at \in {"searching", "set"}
    /\ running' = TRUE
    /\ seeker' = Nobody
    /\ UNCHANGED <<thread_vars, top, fast_vars, new_vars, newSetter, owed>>

-----------------------------------------------------------------------------
(* The thread.                                                             *)

\* The top of the loop: a disabled thread sleeps and looks again.
Loop ==
    /\ thread = "loop" /\ running
    /\ thread' = "waiting"
    /\ UNCHANGED <<window, askAll, running, top, fast_vars, new_vars, setter_vars, owed>>

\* After the wait the thread looks at the flag again, and ends if it is off.
Wake ==
    /\ thread = "waiting"
    /\ thread' = IF running THEN "picking" ELSE "ended"
    /\ UNCHANGED <<window, askAll, running, top, fast_vars, new_vars, setter_vars, owed>>

\* ObtainChainHeight or GetBlockTop failed: the round is skipped.
SkipRound ==
    /\ thread = "picking" /\ DbMayFail
    /\ thread' = "loop"
    /\ UNCHANGED <<window, askAll, running, top, fast_vars, new_vars, setter_vars, owed>>

\* ca_algorithm::GetSumHashFloorHeight.
SumHashFloor(h) == (h \div SumHashRange) * SumHashRange

\* GetSaveSyncType: far below the chain a node starts from zero.
GetSaveSyncType(h, chain) ==
    IF chain <= SumHashRange \/ SumHashFloor(chain) - SumHashRange <= h
    THEN "SyncNormal" ELSE "SyncFromZero"

\* Five fast rounds, and the flag is up again.
WornOut == runFastSync /\ runFastSuncNum >= FastRetries
TakeFast == runFastSync /\ ~WornOut /\ ~runNewSync

FastNumBeforeReset == 0

FastNumBefore == IF WornOut \/ runNewSync THEN 0 ELSE runFastSuncNum

\* The window of a fast round is one height: _fastSyncHeightCnt is 0.
PickFast ==
    /\ thread = "picking" /\ TakeFast
    /\ runFastSuncNum' = FastNumBefore + 1
    /\ LET start == IF newSyncFailHeight > top THEN top + 1 ELSE newSyncFailHeight
       IN  window' = [start |-> start, end |-> start]
    /\ thread' = "fast"
    /\ UNCHANGED <<askAll, running, top, runFastSync, newSyncFailHeight,
                   inFastSyncFail, new_vars, setter_vars, owed>>

\* The fast flag is put aside by the other two kinds of round.
DropFast ==
    /\ ~TakeFast
    /\ runFastSync' = FALSE
    /\ runFastSuncNum' = FastNumBefore

\* A request, or repeated failure from zero, overrides GetSaveSyncType.
ForcedNew == runNewSync \/ runZeroSyncNum > ZeroRetries

PickZero ==
    /\ thread = "picking" /\ DropFast
    /\ ~ForcedNew
    /\ \E chain \in Heights : GetSaveSyncType(top, chain) = "SyncFromZero"
    /\ thread' = "zero"
    /\ UNCHANGED <<running, top, newSyncFailHeight, inFastSyncFail, window,
                   askAll, new_vars, setter_vars, owed>>

\* Mutant: one height too many.
LowestAskedOneBelow(h) == IF h > SyncHeightCnt THEN h - SyncHeightCnt - 1 ELSE 1

LowestAsked(h) == IF h > SyncHeightCnt THEN h - SyncHeightCnt ELSE 1

\* chainHeight - 10 is unsigned: below 10 it is larger than every height.
NearChainTop(chain, h) == chain >= NearTop /\ chain - NearTop <= h

PickNew ==
    /\ thread = "picking" /\ DropFast
    /\ \E chain \in Heights :
         LET h == IF newSyncFailHeight # 0 THEN newSyncFailHeight ELSE top
             asked == IF newSyncStartHeight > h THEN h ELSE newSyncStartHeight
         IN  /\ ForcedNew \/ GetSaveSyncType(top, chain) = "SyncNormal"
             /\ newSyncStartHeight' = IF runNewSync THEN asked ELSE newSyncStartHeight
             /\ window' = IF runNewSync
                          THEN [start |-> LowestAsked(asked), end |-> asked + SyncHeightCnt]
                          ELSE [start |-> LowestAsked(h),
                                end |-> IF NearChainTop(chain, h)
                                        THEN h + 1 ELSE h + SyncHeightCnt]
    /\ thread' = "new"
    /\ owed' = IF owed = "request" THEN "round" ELSE owed
    /\ UNCHANGED <<askAll, running, top, newSyncFailHeight, inFastSyncFail,
                   runNewSync, runZeroSyncNum, setter_vars>>

\* _GetFastSyncSumHashNode found blocks to roll back but asked too few nodes:
\* the round will be repeated with all of them.
FastRoundRepeats ==
    /\ thread = "fast" /\ "fast" \notin askAll
    /\ newSyncFailHeight' = window.start
    /\ inFastSyncFail' = TRUE /\ askAll' = askAll \cup {"fast"}
    /\ UNCHANGED <<thread, window, running, top, runFastSync, runFastSuncNum,
                   new_vars, setter_vars, owed>>

FastDone ==
    /\ thread = "fast"
    /\ \/ askAll' = askAll \cup {"fast"}
       \/ ~inFastSyncFail /\ askAll' = askAll \ {"fast"}
    /\ runFastSync' = inFastSyncFail
    /\ inFastSyncFail' = FALSE
    /\ thread' = "loop" /\ window' = Empty
    /\ UNCHANGED <<running, top, newSyncFailHeight, runFastSuncNum,
                   new_vars, setter_vars, owed>>

\* The counter of failed rounds is read only by runZeroSyncNum > ZeroRetries.
ZeroDone ==
    /\ thread = "zero"
    /\ \/ askAll' = askAll \ {"zero"} /\ UNCHANGED runZeroSyncNum
       \/ askAll' = askAll \cup {"zero"} /\ runZeroSyncNum' = runZeroSyncNum + 1
    /\ thread' = "loop"
    /\ UNCHANGED <<window, running, top, fast_vars, runNewSync,
                   newSyncStartHeight, setter_vars, owed>>

\* _RunNewSyncOnce returns 0, unless a fast one was asked for meanwhile.
NewReturns ==
    /\ thread = "new" /\ ~runFastSync
    /\ thread' = "synced"
    /\ UNCHANGED <<window, askAll, running, top, fast_vars, new_vars, setter_vars, owed>>

NewDone ==
    /\ thread = "synced"
    /\ runZeroSyncNum' = 0
    /\ runNewSync' = FALSE /\ newSyncStartHeight' = 0
    /\ newSyncFailHeight' = 0 /\ runFastSync' = FALSE
    /\ askAll' = askAll \ {"new"}
    /\ thread' = "loop" /\ window' = Empty
    /\ owed' = IF owed = "round" THEN "nothing" ELSE owed
    /\ UNCHANGED <<running, top, inFastSyncFail, runFastSuncNum,
                   setter_vars>>

NewFailedForgets ==
    /\ thread = "new"
    /\ newSyncFailHeight' = 0 /\ runFastSync' = FALSE
    /\ runNewSync' = FALSE /\ newSyncStartHeight' = 0
    /\ askAll' = askAll \cup {"new"}
    /\ thread' = "loop" /\ window' = Empty
    /\ owed' = IF owed = "round" THEN "request" ELSE owed
    /\ UNCHANGED <<running, top, inFastSyncFail, runFastSuncNum,
                   runZeroSyncNum, setter_vars>>

\* A result below 0 forgets the fast request too; 2 and 99 keep it.
NewFailed ==
    /\ thread = "new"
    /\ \/ /\ newSyncFailHeight' = 0 /\ runFastSync' = FALSE
       \/ /\ runFastSync /\ UNCHANGED <<newSyncFailHeight, runFastSync>>
    /\ askAll' = askAll \cup {"new"}
    /\ thread' = "loop" /\ window' = Empty
    /\ owed' = IF owed = "round" THEN "request" ELSE owed
    /\ UNCHANGED <<running, top, inFastSyncFail, runFastSuncNum,
                   new_vars, setter_vars>>

-----------------------------------------------------------------------------
Pick == PickFast \/ PickZero \/ PickNew
RoundDone == FastDone \/ ZeroDone \/ NewReturns \/ NewDone \/ NewFailed

ThreadNext ==
    \/ TopMoves
    \/ \E h \in Heights : SetNewSyncFlag(h) \/ SetFastSyncFlag(h)
    \/ SetNewSyncStart
    \/ ThreadStop \/ SetFastSyncHeight \/ ThreadStart
    \/ Loop \/ Wake \/ SkipRound \/ Pick \/ FastRoundRepeats \/ RoundDone

ThreadSpec == ThreadInit /\ [][ThreadNext]_all_vars

\* The thread is scheduled, and every round returns because every wait of
\* GlobalDataManager does.
FairThreadSpec ==
    /\ ThreadSpec
    /\ WF_all_vars(Loop) /\ WF_all_vars(Wake) /\ WF_all_vars(Pick) /\ WF_all_vars(RoundDone)

-----------------------------------------------------------------------------
ThreadTypeOK ==
    /\ thread \in {"loop", "waiting", "picking", "fast", "zero", "new", "synced", "ended"}
    /\ running \in BOOLEAN /\ top \in Heights
    /\ runFastSync \in BOOLEAN /\ inFastSyncFail \in BOOLEAN /\ runNewSync \in BOOLEAN
    /\ newSyncFailHeight \in 0 .. MaxHeight + 1 /\ newSyncStartHeight \in Heights
    /\ runFastSuncNum \in 0 .. FastRetries
    /\ runZeroSyncNum \in 0 .. ZeroRetries + 1
    /\ window \in [start : Nat, end : Nat] /\ askAll \subseteq {"fast", "zero", "new"}
    /\ newSetter \in Heights \cup {None}
    /\ seeker \in [at : {"out", "searching", "found", "set"}, height : Heights]
    /\ owed \in {"nothing", "request", "round"}

\* Every range the thread asks for is one that the peers answer: they drop a
\* request that is empty or wider than a limit (SendSyncGetSumHashAck).
AnswerableWindow ==
    thread \in {"fast", "new"} =>
        window.start <= window.end /\ window.end - window.start <= WidestAnswer

\* However often fast rounds are asked for or repeat themselves, the other two
\* kinds of round get their turn: a thread that runs fast rounds for ever also
\* runs others for ever, because of the counter runFastSuncNum.
FastCannotStarve == []<>(thread = "fast") => []<>(thread \in {"zero", "new"})

\* A request for a new synchronisation that was made outside such a round
\* stays up, over failed rounds and rounds of the other kinds, until a round
\* that started after it has succeeded.  (One made during a round is lost when
\* that round succeeds: ThreadStart resets the flag without looking again.)
RequestKept == owed # "nothing" => runNewSync
=============================================================================
