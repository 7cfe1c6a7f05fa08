----------------------------- MODULE BlockPool -----------------------------
(***************************************************************************)
(* The block pool of a node, class BlockHelper of ca/block_helper.cpp.     *)
(*                                                                         *)
(* Blocks come in from broadcast, from the synchronisation thread and from *)
(* the seek protocols, and wait in the pool's queues.  Every 100 ms Process*)
(* takes _helperMutex and works the queues off: it rolls blocks back, then *)
(* gives every queue to SaveBlock.  SaveBlock checks the block, settles    *)
(* double spends by rolling a later rival back, writes the block, and      *)
(* calls itself for the blocks that waited for this one as predecessor.    *)
(*                                                                         *)
(* The chain data is given by constants: every block has a height, a time, *)
(* a predecessor and its transactions' inputs; a block lives in the        *)
(* database when it is in `saved'.  What src/ calls from the binary        *)
(* ca_core library (VerifyBlock, SaveBlock, RollBackByHash,                *)
(* DoubleSpendCheck) is modelled by what its callers rely on.              *)
(*                                                                         *)
(* A round holds _helperMutex, so the Add operations are steps of the idle *)
(* pool; the clock, the sync thread and StopSaveBlock interleave freely.   *)
(* Blocks with contract transactions come through synchronisation only.    *)
(***************************************************************************)
EXTENDS Naturals, Sequences, FiniteSets

CONSTANTS
    Blocks, Genesis, Utxos,
    height, time, prev,  \* header fields, functions on Blocks
    txs,                 \* txs[b]: the inputs of each transaction of b, in order
    source,              \* source[u]: the block whose transaction created u
    Valid,               \* blocks that pass VerifyBlock and VerifyPreSaveBlock
    Plain,               \* blocks whose transactions are all kTxTypeTx
    Cancels,             \* blocks that cancel the stake or investment of a signer
    ContractAddrs,
    contracts,           \* contracts[b]: the contract addresses b touches
    OldWindow,           \* 50 heights: an older broadcast block is refused
    PendingWindow,       \* 20 heights: a pending block is kept
    SeekWindow,          \* 3 heights: the predecessor is sought
    FarWindow,           \* 1000 heights: a broadcast block is queued
    PendingHeights,      \* 1000: heights _pendingBlocks may hold
    DoubleSpendTTL,      \* 30 s
    DuplicateTTL,        \* 60 s
    RollbackAge,         \* 60 s
    HashPendingTTL,      \* 3 s
    MaxTime,             \* bound: the clock stops here
    MaxUtxoMissing,      \* bound: length of _utxoMissingBlocks
    RollbackSets,        \* bound: the roll-back orders a synchronisation run gives
    DbMayFail,           \* whether database calls may fail
    None

SaveTypes == {"SyncNormal", "SyncFromZero", "Unknow", "Broadcast"}
SyncTypes == {"SyncNormal", "SyncFromZero"}
Phases == {"idle", "rollback", "fast", "utxo", "sync", "broadcast", "hash", "exit"}

Inputs(b) == UNION {{txs[b][i][j] : j \in DOMAIN txs[b][i]} : i \in DOMAIN txs[b]}

ASSUME HeaderAssumption ==
    /\ Genesis \in Blocks /\ height[Genesis] = 0
    /\ height \in [Blocks -> Nat] /\ time \in [Blocks -> Nat]
    /\ prev \in [Blocks \ {Genesis} -> Blocks]
    /\ \A b \in Blocks \ {Genesis} : height[b] = height[prev[b]] + 1
    /\ txs \in [Blocks -> Seq(Seq(Utxos))] /\ source \in [Utxos -> Blocks]
    /\ contracts \in [Blocks -> SUBSET ContractAddrs]
    /\ Valid \subseteq Blocks /\ Plain \subseteq Blocks /\ Cancels \subseteq Blocks

ASSUME BoundAssumption ==
    /\ MaxTime \in Nat /\ MaxUtxoMissing \in Nat /\ DbMayFail \in BOOLEAN
    /\ RollbackSets \subseteq SUBSET (Blocks \ {Genesis})
    /\ \A w \in {OldWindow, PendingWindow, SeekWindow, FarWindow, PendingHeights,
                 DoubleSpendTTL, DuplicateTTL, RollbackAge, HashPendingTTL} : w \in Nat
    /\ None \notin Nat

VARIABLES
    saved,         \* the blocks in the database
    broadcast,     \* _broadcastBlocks
    sync,          \* _syncBlocks
    fastSync,      \* _fastSyncBlocks
    rollback,      \* _rollbackBlocks
    pending,       \* _pendingBlocks
    hashSince,     \* _hashPendingBlocks: time of entry, None when absent
    utxoMissing,   \* _utxoMissingBlocks
    missing,       \* _missingBlocks: <<"block", hash>> and <<"tx", utxo>>
    doubleSpend,   \* _doubleSpendBlocks
    dup,           \* _duplicateChecker
    syncType,      \* g_syncType
    stopBlocking,  \* _stopBlocking
    newSync,       \* runNewSync and newSyncStartHeight of sync_block.cpp
    now,           \* TimeUtil::GetUTCTimestamp
    processing,    \* processing_
    roundTime,     \* nowTime of the running round
    phase,         \* the part of Process that runs
    work,          \* the blocks its loop has still to visit
    calls,         \* the SaveBlock calls in progress, innermost first
    tried,         \* history: blocks given to SaveBlock since their predecessor was saved
    polled         \* history: queued broadcast blocks this round has looked at

queues == <<broadcast, sync, fastSync, rollback, pending, utxoMissing>>
notes == <<missing, doubleSpend, dup, hashSince>>
control == <<syncType, stopBlocking, newSync, now, processing, roundTime>>
history == <<tried, polled>>
vars == <<saved, queues, notes, control, phase, work, calls, history>>

Init ==
    /\ saved = {Genesis}
    /\ broadcast = {} /\ sync = {} /\ fastSync = {} /\ rollback = {} /\ pending = {}
    /\ hashSince = [b \in Blocks |-> None]
    /\ utxoMissing = <<>>
    /\ missing = {} /\ doubleSpend = {} /\ dup = {}
    /\ syncType = "Unknow"
    /\ stopBlocking = TRUE
    /\ newSync = [run |-> FALSE, start |-> 0]
    /\ now = 0 /\ processing = FALSE /\ roundTime = 0
    /\ phase = "idle" /\ work = {} /\ calls = <<>>
    /\ tried = {} /\ polled = {}

-----------------------------------------------------------------------------
(* The database and the ca_core library, as block_helper.cpp uses them.    *)

\* GetBlockTop.
Top == CHOOSE h \in {height[b] : b \in saved} : \A b \in saved : height[b] <= h

Unspent(u) == source[u] \in saved /\ \A b \in saved : u \notin Inputs(b)

\* BlockTimeAscending, the order of the three polled sets.
Before(a, b) == height[a] < height[b] \/ (height[a] = height[b] /\ time[a] < time[b])

\* std::set::insert under that order: an equal key is not inserted.
Insert(S, b) ==
    IF \E a \in S : height[a] = height[b] /\ time[a] = time[b] THEN S ELSE S \cup {b}

NoTies(S) == \A a, b \in S : a # b => Before(a, b) \/ Before(b, a)

\* Checker::CheckConflict(block, block).
CheckConflict(a, b) == Inputs(a) \cap Inputs(b) # {}

SetNewSyncHighest(req, h) ==
    [run |-> TRUE, start |-> IF req.start < h THEN h ELSE req.start]

\* SyncBlock::SetNewSyncHeight, 0 standing for "not set".
SetNewSyncHeight(req, h) ==
    [run |-> TRUE, start |-> IF req.start = 0 \/ req.start > h THEN h ELSE req.start]

-----------------------------------------------------------------------------
(* Deliveries to the pool, between two rounds.                             *)

Idle == phase = "idle"

AddPendingBlock(b) ==
    /\ pending' = IF Cardinality({height[p] : p \in pending}) < PendingHeights
                  THEN pending \cup {b} ELSE pending
    /\ missing' = IF height[b] > Top + SeekWindow THEN missing
                  ELSE missing \cup {<<"block", prev[b]>>}

\* The first queued block, in queue order, that spends what b spends.
Rival(b) ==
    {a \in broadcast : CheckConflict(a, b) /\
        \A c \in broadcast : CheckConflict(c, b) /\ c # a => Before(a, c)}

\* A block that came by broadcast: ignored when it is known, dropped when an
\* earlier rival is queued; it takes the place of a later rival, and is queued
\* or, without its predecessor, kept back.
AddBroadcastBlock(b) ==
    /\ Idle
    /\ b \notin dup /\ b \notin doubleSpend
    /\ dup' = dup \cup {b}
    /\ IF \E a \in Rival(b) : ~Before(b, a)
       THEN UNCHANGED <<broadcast, pending, missing>>
       ELSE IF prev[b] \in saved
       THEN /\ broadcast' = IF height[b] <= Top + FarWindow
                            THEN Insert(broadcast \ Rival(b), b)
                            ELSE broadcast \ Rival(b)
            /\ UNCHANGED <<pending, missing>>
       ELSE /\ broadcast' = broadcast \ Rival(b)
            /\ AddPendingBlock(b)
    /\ UNCHANGED <<saved, sync, fastSync, rollback, utxoMissing, doubleSpend, hashSince,
                   control, phase, work, calls, history>>

\* Blocks a synchronisation run fetched; the save type is one for all queues.
AddSyncBlock(b, type) ==
    /\ Idle
    /\ sync' = Insert(sync, b)
    /\ syncType' = type
    /\ UNCHANGED <<saved, broadcast, fastSync, rollback, pending, utxoMissing, notes,
                   stopBlocking, newSync, now, processing, roundTime, phase, work,
                   calls, history>>

AddFastSyncBlock(b, type) ==
    /\ Idle
    /\ fastSync' = Insert(fastSync, b)
    /\ syncType' = type
    /\ UNCHANGED <<saved, broadcast, sync, rollback, pending, utxoMissing, notes,
                   stopBlocking, newSync, now, processing, roundTime, phase, work,
                   calls, history>>

\* A new roll-back order replaces the old one.
AddRollbackBlock(S) ==
    /\ Idle
    /\ NoTies(S)
    /\ rollback' = S
    /\ UNCHANGED <<saved, broadcast, sync, fastSync, pending, utxoMissing, notes, control,
                   phase, work, calls, history>>

\* The answer of the utxo-seeking thread.
AddMissingBlock(b) ==
    /\ Idle
    /\ Len(utxoMissing) < MaxUtxoMissing
    /\ utxoMissing' = Append(utxoMissing, b)
    /\ UNCHANGED <<saved, broadcast, sync, fastSync, rollback, pending, notes, control,
                   phase, work, calls, history>>

\* The answer of the hash-seeking thread.
AddSeekBlock(b) ==
    /\ Idle
    /\ hashSince[b] = None
    /\ hashSince' = [hashSince EXCEPT ![b] = now]
    /\ UNCHANGED <<saved, queues, missing, doubleSpend, dup, control, phase, work, calls,
                   history>>

\* Entries that are old, asked for too often or satisfied leave the list.
\* _seekMutex is not _helperMutex, so this runs during a round as well.
SeekBlockThread ==
    /\ missing # {}
    /\ missing' \in SUBSET missing
    /\ UNCHANGED <<saved, queues, doubleSpend, dup, hashSince, control, phase, work, calls,
                   history>>

StopSaveBlock ==
    /\ stopBlocking' = FALSE
    /\ UNCHANGED <<saved, queues, notes, syncType, newSync, now, processing, roundTime,
                   phase, work, calls, history>>

\* The synchronisation thread has served the request.
NewSyncServed ==
    /\ newSync.run
    /\ newSync' = [run |-> FALSE, start |-> 0]
    /\ UNCHANGED <<saved, queues, notes, syncType, stopBlocking, now, processing, roundTime,
                   phase, work, calls, history>>

Tick ==
    /\ now < MaxTime
    /\ now' = now + 1
    /\ UNCHANGED <<saved, queues, notes, syncType, stopBlocking, newSync, processing,
                   roundTime, phase, work, calls, history>>

-----------------------------------------------------------------------------
(* Process: one round of the pool.                                         *)

RollbackOrderOnly(R) == {R}

\* RollbackContractBlock: with the blocks to roll back go the saved blocks,
\* from the lowest of them up, that touch a contract one of them touches.
\* They are inserted in the database's order, so the results are the maximal
\* extensions without an equal key.
RollbackContractBlock(R) ==
    LET addrMap == UNION {contracts[b] : b \in R}
        more == {b \in saved \ R : /\ contracts[b] \cap addrMap # {}
                                   /\ \E r \in R : height[b] >= height[r]}
    IN  {X \in SUBSET (R \cup more) :
            /\ R \subseteq X /\ NoTies(X)
            /\ \A b \in more \ X : Insert(X, b) = X}

ProcessStart ==
    /\ Idle /\ ~processing
    /\ processing' = TRUE
    /\ roundTime' = now
    /\ phase' = "rollback"
    /\ rollback' \in RollbackContractBlock({b \in rollback : now > RollbackAge + time[b]})
    /\ work' = rollback'
    /\ UNCHANGED <<saved, broadcast, sync, fastSync, pending, utxoMissing, notes, syncType,
                   stopBlocking, newSync, now, calls, history>>

\* GetBlockTop fails: Process returns before its scope exit is set up.
ProcessNoTop ==
    /\ DbMayFail
    /\ Idle /\ ~processing
    /\ processing' = TRUE
    /\ UNCHANGED <<saved, queues, notes, syncType, stopBlocking, newSync, now, roundTime,
                   phase, work, calls, history>>

\* RollbackBlocks: the highest block first; the round ends at a failure.
RollbackStep ==
    /\ phase = "rollback" /\ work # {}
    /\ \E b \in work :
         /\ \A c \in work \ {b} : ~Before(b, c)
         /\ \/ /\ saved' = saved \ {b}
               /\ work' = work \ {b}
               /\ UNCHANGED phase
            \/ /\ DbMayFail \/ b \notin saved
               /\ work' = {}
               /\ phase' = "exit"
               /\ UNCHANGED saved
    /\ UNCHANGED <<queues, notes, control, calls, history>>

\* SaveBlock is called for b.
Call(b, type, normal) ==
    /\ calls' = <<[b |-> b, type |-> type, normal |-> normal, at |-> "check", tx |-> 1,
                   kids |-> {}]>> \o calls
    /\ tried' = tried \cup {b}

First(S) == {b \in S : \A c \in S \ {b} : Before(b, c)}

FastSyncStep ==
    /\ phase = "fast" /\ calls = <<>>
    /\ \E b \in First(work) :
         /\ work' = work \ {b}
         /\ Call(b, syncType, TRUE)
    /\ UNCHANGED <<saved, queues, notes, control, phase, polled>>

UtxoMissingStep ==
    /\ phase = "utxo" /\ calls = <<>> /\ utxoMissing # <<>>
    /\ utxoMissing' = Tail(utxoMissing)
    /\ Call(Head(utxoMissing), syncType, FALSE)
    /\ UNCHANGED <<saved, broadcast, sync, fastSync, rollback, pending, notes, control,
                   phase, work, polled>>

SyncStep ==
    /\ phase = "sync" /\ calls = <<>> /\ work # {}
    /\ IF stopBlocking
       THEN \E b \in First(work) :
              /\ work' = work \ {b}
              /\ Call(b, syncType, TRUE)
              /\ UNCHANGED phase
       ELSE /\ phase' = "exit"
            /\ work' = {}
            /\ UNCHANGED <<calls, tried>>
    /\ UNCHANGED <<saved, queues, notes, control, polled>>

BroadcastStep ==
    /\ phase = "broadcast" /\ calls = <<>>
    /\ \E b \in First(work) :
         /\ work' = work \ {b}
         /\ polled' = polled \cup {b}
         /\ IF b \in saved THEN UNCHANGED <<calls, tried>> ELSE Call(b, "Broadcast", TRUE)
    /\ UNCHANGED <<saved, queues, notes, control, phase>>

\* The order of the hashes is arbitrary.
HashPendingStep ==
    /\ phase = "hash" /\ calls = <<>>
    /\ \E b \in work :
         /\ work' = work \ {b}
         /\ IF now > hashSince[b] + HashPendingTTL
            THEN /\ hashSince' = [hashSince EXCEPT ![b] = None]
                 /\ UNCHANGED <<calls, tried>>
            ELSE /\ Call(b, "Broadcast", FALSE)
                 /\ UNCHANGED hashSince
    /\ UNCHANGED <<saved, queues, missing, doubleSpend, dup, control, phase, polled>>

\* A loop of Process has ended.  Before the loops the chain height is asked
\* for, and a failure ends the round.
NextPhase ==
    /\ calls = <<>> /\ work = {}
    /\ \/ phase = "rollback"  /\ phase' = "fast"      /\ work' = fastSync
       \/ phase = "rollback"  /\ phase' = "exit"      /\ work' = {} /\ DbMayFail
       \/ phase = "fast"      /\ phase' = "utxo"      /\ work' = {}
       \/ phase = "utxo"      /\ phase' = "sync"      /\ work' = sync /\ utxoMissing = <<>>
       \/ phase = "sync"      /\ phase' = "broadcast" /\ work' = broadcast
       \/ phase = "broadcast" /\ phase' = "hash"
                              /\ work' = {b \in Blocks : hashSince[b] # None}
       \/ phase = "hash"      /\ phase' = "exit"      /\ work' = {}
    /\ UNCHANGED <<saved, queues, notes, control, calls, history>>

ProcessExitStillBusy ==
    /\ phase = "exit"
    /\ phase' = "idle"
    /\ polled' = {}
    /\ fastSync' = {} /\ rollback' = {} /\ sync' = {} /\ broadcast' = {}
    /\ pending' = {b \in pending : Top < height[b] + PendingWindow}
    /\ doubleSpend' = {b \in doubleSpend : roundTime < time[b] + DoubleSpendTTL}
    /\ dup' = {b \in dup : roundTime < time[b] + DuplicateTTL}
    /\ UNCHANGED <<saved, utxoMissing, missing, hashSince, syncType, stopBlocking, newSync,
                   now, processing, roundTime, work, calls, tried>>

\* ON_SCOPE_EXIT of Process.
ProcessExit ==
    /\ phase = "exit"
    /\ phase' = "idle"
    /\ processing' = FALSE
    /\ polled' = {}
    /\ fastSync' = {} /\ rollback' = {} /\ sync' = {} /\ broadcast' = {}
    /\ pending' = {b \in pending : Top < height[b] + PendingWindow}
    /\ doubleSpend' = {b \in doubleSpend : roundTime < time[b] + DoubleSpendTTL}
    /\ dup' = {b \in dup : roundTime < time[b] + DuplicateTTL}
    /\ UNCHANGED <<saved, utxoMissing, missing, hashSince, syncType, stopBlocking, newSync,
                   now, roundTime, work, calls, tried>>

-----------------------------------------------------------------------------
(* SaveBlock, one call at a time: check, tx, save, post.                   *)

Cur == Head(calls)
At(stage) == calls # <<>> /\ Cur.at = stage
Goto(stage) == calls' = [calls EXCEPT ![1].at = stage]

ReturnBreaksAll(ok) ==
    /\ calls' = Tail(calls)
    /\ work' = IF Len(calls) = 1 /\ ~ok THEN {} ELSE work
    /\ utxoMissing' = IF Len(calls) = 1 /\ ~ok /\ phase = "utxo" THEN <<>> ELSE utxoMissing
    /\ hashSince' = IF Len(calls) = 1 /\ ok /\ phase = "hash"
                    THEN [hashSince EXCEPT ![Cur.b] = None] ELSE hashSince

\* SaveBlock returns.  A failure of the loop's own call ends the three sync
\* loops; a success takes the block out of _hashPendingBlocks.
Return(ok) ==
    /\ calls' = Tail(calls)
    /\ work' = IF Len(calls) = 1 /\ ~ok /\ phase \in {"fast", "sync"} THEN {} ELSE work
    /\ utxoMissing' = IF Len(calls) = 1 /\ ~ok /\ phase = "utxo" THEN <<>> ELSE utxoMissing
    /\ hashSince' = IF Len(calls) = 1 /\ ok /\ phase = "hash"
                    THEN [hashSince EXCEPT ![Cur.b] = None] ELSE hashSince

keptBySave == <<broadcast, sync, fastSync, rollback, pending, dup, syncType, stopBlocking,
                now, processing, roundTime, phase>>

\* Too far above the top, or nothing to do.
SaveBlockSkip ==
    /\ At("check")
    /\ \/ height[Cur.b] >= Top + 2 /\ Return(FALSE)
       \/ height[Cur.b] < Top + 2 /\ Cur.b \in saved /\ Return(TRUE)
    /\ UNCHANGED <<saved, keptBySave, missing, doubleSpend, newSync, history>>

\* PreSaveProcess of a synchronised block: VerifyBlock under SyncNormal only.
PreSaveSync ==
    /\ At("check") /\ Cur.type # "Broadcast"
    /\ height[Cur.b] < Top + 2 /\ Cur.b \notin saved
    /\ LET b == Cur.b
           verified == b \in Valid /\ prev[b] \in saved /\ \A u \in Inputs(b) : Unspent(u)
       IN  IF Cur.type # "SyncNormal" \/ verified
           THEN /\ Goto("save")
                /\ UNCHANGED <<work, utxoMissing, hashSince, newSync>>
           ELSE /\ Return(FALSE)
                /\ newSync' = IF prev[b] \in saved THEN newSync
                              ELSE SetNewSyncHeight(newSync, height[b] - 1)
    /\ UNCHANGED <<saved, keptBySave, missing, doubleSpend, history>>

\* PreSaveProcess of a broadcast block, up to the loop over its transactions.
PreSaveBroadcast ==
    /\ At("check") /\ Cur.type = "Broadcast"
    /\ height[Cur.b] < Top + 2 /\ Cur.b \notin saved
    /\ IF (Cur.normal /\ height[Cur.b] + OldWindow < Top) \/ Cur.b \notin Valid
       THEN Return(FALSE)
       ELSE Goto("tx") /\ UNCHANGED <<work, utxoMissing, hashSince>>
    /\ UNCHANGED <<saved, keptBySave, missing, doubleSpend, newSync, history>>

\* DoubleSpendCheck of the current transaction: its first unusable input.
MissingInputs ==
    LET tx == txs[Cur.b][Cur.tx]
    IN  {tx[j] : j \in {k \in DOMAIN tx : ~Unspent(tx[k]) /\
                                       \A l \in 1..(k - 1) : Unspent(tx[l])}}

\* The transaction can be saved: on to the next one, or to the database.
PreSaveTxGood ==
    /\ At("tx")
    /\ \/ Cur.tx > Len(txs[Cur.b]) /\ Goto("save")
       \/ /\ Cur.tx <= Len(txs[Cur.b]) /\ MissingInputs = {}
          /\ calls' = [calls EXCEPT ![1].tx = @ + 1]
    /\ UNCHANGED <<saved, keptBySave, work, utxoMissing, notes, newSync, history>>

\* An input nobody has created yet: the block waits among _hashPendingBlocks
\* and the input is sought.  The loop over that map may still meet it.
PreSaveTxUnknown ==
    /\ At("tx") /\ Cur.tx <= Len(txs[Cur.b])
    /\ \E u \in MissingInputs :
         /\ source[u] \notin saved
         /\ missing' = missing \cup {<<"tx", u>>}
    /\ hashSince' = IF hashSince[Cur.b] = None THEN [hashSince EXCEPT ![Cur.b] = now]
                    ELSE hashSince
    /\ work' \in IF phase = "hash" /\ hashSince[Cur.b] = None
                  THEN {work, work \cup {Cur.b}} ELSE {work}
    /\ calls' = Tail(calls)
    /\ UNCHANGED <<saved, keptBySave, utxoMissing, doubleSpend, newSync, history>>

SpendersAbove(b, u) ==
    LET S == {p \in saved \cap Plain : height[p] > height[b] /\ u \in Inputs(p)}
    IN  {p \in S : \A q \in S : height[p] <= height[q]}

\* DealDoubleSpend looks from the block's own height upwards, at blocks of
\* ordinary transactions, in the order of their heights.
Spenders(b, u) ==
    LET S == {p \in saved \cap Plain : height[p] >= height[b] /\ u \in Inputs(p)}
    IN  {p \in S : \A q \in S : height[p] <= height[q]}

\* An input that was created and is spent: the earlier of the two blocks
\* wins.  The loser is rolled back when it is the saved one and the check goes
\* on with the next transaction; it is remembered when it is the new one.
DealDoubleSpend ==
    /\ At("tx") /\ Cur.tx <= Len(txs[Cur.b])
    /\ \E u \in MissingInputs :
         LET b == Cur.b IN
         /\ source[u] \in saved
         /\ \/ /\ height[b] > Top \/ DbMayFail
               /\ Return(FALSE)
               /\ UNCHANGED <<saved, doubleSpend>>
            \/ /\ height[b] <= Top
               /\ \/ Spenders(b, u) = {}
                  \/ \E p \in Spenders(b, u) : ~Before(b, p)
               /\ doubleSpend' = doubleSpend \cup {b}
               /\ Return(FALSE)
               /\ UNCHANGED saved
            \/ /\ height[b] <= Top
               /\ \E p \in Spenders(b, u) :
                    /\ Before(b, p)
                    /\ saved' = saved \ {p}
               /\ calls' = [calls EXCEPT ![1].tx = @ + 1]
               /\ UNCHANGED <<doubleSpend, work, utxoMissing, hashSince>>
    /\ UNCHANGED <<keptBySave, missing, newSync, history>>

WaitingAtHeight(b) == {k \in pending : height[k] = height[b] /\ prev[k] = b}

\* The pending blocks of the next height that name b as predecessor.
WaitingFor(b) == {k \in pending : height[k] = height[b] + 1 /\ prev[k] = b}

\* ca_algorithm::SaveBlock and the commit.
SaveBlockWrite ==
    /\ At("save")
    /\ LET b == Cur.b
           atHeight == IF Cur.type \in SyncTypes
                       THEN SetNewSyncHeight(newSync, height[b]) ELSE newSync
       IN  \/ /\ prev[b] \in saved /\ \A u \in Inputs(b) : Unspent(u)
              /\ saved' = saved \cup {b}
              /\ tried' = tried \ {k \in Blocks \ {Genesis} : prev[k] = b}
              /\ calls' = [calls EXCEPT ![1].at = "post",
                                        ![1].kids = WaitingFor(b)]
              /\ UNCHANGED <<newSync, work, utxoMissing, hashSince>>
           \/ /\ DbMayFail \/ ~(prev[b] \in saved /\ \A u \in Inputs(b) : Unspent(u))
              /\ newSync' = IF prev[b] \in saved THEN atHeight
                            ELSE SetNewSyncHeight(atHeight, height[b] - 1)
              /\ Return(FALSE)
              /\ UNCHANGED <<saved, tried>>
           \/ /\ DbMayFail   \* TransactionCommit
              /\ Return(FALSE)
              /\ UNCHANGED <<saved, tried, newSync>>
    /\ UNCHANGED <<keptBySave, missing, doubleSpend, polled>>

\* PostSaveProcess saves the blocks that waited for this one.
PostSaveChild ==
    /\ At("post")
    /\ \E k \in Cur.kids :
         /\ calls' = <<[b |-> k, type |-> "Broadcast", normal |-> FALSE, at |-> "check",
                        tx |-> 1, kids |-> {}], [Cur EXCEPT !.kids = @ \ {k}]>> \o Tail(calls)
         /\ tried' = tried \cup {k}
    /\ UNCHANGED <<saved, keptBySave, work, utxoMissing, notes, newSync, polled>>

\* PostMembershipCancellationProcess: a block that cancels the membership of
\* one of its signers rolls the other blocks of its height back.
PostSaveDone ==
    /\ At("post") /\ Cur.kids = {}
    /\ LET others == {p \in saved \ {Cur.b} : height[p] = height[Cur.b]} IN
         IF Cur.b \in Cancels
         THEN \E failed \in IF DbMayFail THEN SUBSET others ELSE {{}} :
                saved' = saved \ (others \ failed)
         ELSE UNCHANGED saved
    /\ Return(TRUE)
    /\ UNCHANGED <<keptBySave, missing, doubleSpend, newSync, history>>

-----------------------------------------------------------------------------
New == Blocks \ {Genesis}

Round ==
    \/ ProcessStart
    \/ RollbackStep
    \/ FastSyncStep
    \/ UtxoMissingStep
    \/ SyncStep
    \/ BroadcastStep
    \/ HashPendingStep
    \/ NextPhase
    \/ ProcessExit

SaveStep ==
    \/ SaveBlockSkip
    \/ PreSaveSync
    \/ PreSaveBroadcast
    \/ PreSaveTxGood
    \/ PreSaveTxUnknown
    \/ DealDoubleSpend
    \/ SaveBlockWrite
    \/ PostSaveChild
    \/ PostSaveDone

Broadcast == \E b \in New : contracts[b] = {} /\ AddBroadcastBlock(b)

Synchronise ==
    \/ \E b \in New, type \in SyncTypes : AddSyncBlock(b, type) \/ AddFastSyncBlock(b, type)
    \/ \E S \in RollbackSets : AddRollbackBlock(S)
    \/ NewSyncServed

Seek ==
    \/ \E b \in New : AddMissingBlock(b) \/ AddSeekBlock(b)
    \/ SeekBlockThread

Next ==
    \/ Broadcast \/ Synchronise \/ Seek
    \/ Round \/ SaveStep
    \/ ProcessNoTop \/ StopSaveBlock \/ Tick

Spec == Init /\ [][Next]_vars

\* A node whose blocks come by broadcast and by the hash-seeking protocol only.
BroadcastNext ==
    \/ Broadcast
    \/ \E b \in New : AddSeekBlock(b)
    \/ SeekBlockThread
    \/ Round \/ SaveStep
    \/ ProcessNoTop \/ Tick

BroadcastSpec == Init /\ [][BroadcastNext]_vars

\* A node that is catching up, and whose database may fail.
SyncNext ==
    \/ Synchronise
    \/ Round \/ SaveStep
    \/ ProcessNoTop \/ StopSaveBlock \/ Tick

SyncSpec == Init /\ [][SyncNext]_vars

\* ca.cpp starts Process every 100 ms, and a started round runs on.
FairBroadcastSpec == BroadcastSpec /\ WF_vars(Round \/ SaveStep)

-----------------------------------------------------------------------------
Frames == [b : New, type : SaveTypes, normal : BOOLEAN, at : {"check", "tx", "save", "post"},
           tx : Nat \ {0}, kids : SUBSET New]

\* Type invariant.  In particular the genesis block is never rolled back, two
\* queued blocks differ in height or time, and only a running loop of Process
\* is inside SaveBlock.
TypeOK ==
    /\ saved \subseteq Blocks /\ Genesis \in saved
    /\ \A Q \in {broadcast, sync, fastSync, rollback} :
         Q \subseteq New /\ NoTies(Q)
    /\ pending \subseteq New /\ doubleSpend \subseteq New /\ dup \subseteq New
    /\ tried \subseteq New /\ polled \subseteq New /\ work \subseteq New
    /\ hashSince \in [Blocks -> 0..MaxTime \cup {None}]
    /\ utxoMissing \in Seq(New)
    /\ missing \subseteq ({"block"} \X Blocks) \cup ({"tx"} \X Utxos)
    /\ syncType \in SaveTypes \ {"Broadcast"}
    /\ stopBlocking \in BOOLEAN /\ processing \in BOOLEAN
    /\ newSync \in [run : BOOLEAN, start : Nat]
    /\ now \in 0..MaxTime /\ roundTime \in 0..now
    /\ phase \in Phases
    /\ calls \in Seq(Frames)
    /\ calls # <<>> => phase \in Phases \ {"idle", "rollback", "exit"}
    /\ phase \in {"idle", "exit", "utxo"} => work = {}
    /\ phase # "idle" => processing
    /\ phase = "hash" => \A b \in work : hashSince[b] # None

\* A block that waits in _pendingBlocks for its predecessor is given to
\* SaveBlock in the same round in which the predecessor is saved, whichever
\* queue brought the predecessor and however deep the chain of waiting blocks.
NoOrphanLeftBehind ==
    phase = "idle" => \A b \in pending : prev[b] \in saved => b \in saved \cup tried

\* The queue of broadcast blocks is emptied at the end of a round only after
\* the round has polled every block in it, unless StopSaveBlock stopped it (in
\* a scene where no roll-back order fails while broadcast blocks wait: such a
\* round ends at once and empties the queue).
PolledBeforeDropped == phase = "exit" /\ stopBlocking => broadcast \subseteq polled

\* A block is remembered as the loser of a double spend only while no saved
\* rival of ordinary transactions is later than itself: the earlier block is
\* never locked out in favour of a later one (blocks with one input).
EarlierRivalNotLockedOut ==
    \A b \in doubleSpend, p \in saved \cap Plain : CheckConflict(b, p) => ~Before(b, p)

\* A block of a contract touches no other contract, and the blocks of contracts
\* and those to be rolled back differ in height or time: of two that do not,
\* _rollbackBlocks takes one.
OneContract == \A b \in Blocks : \A x, y \in contracts[b] : x = y
ContractsInOrder == \A S \in RollbackSets : NoTies(S \cup {b \in Blocks : contracts[b] # {}})

\* RollbackBlocks never takes a contract's state from under a later block:
\* when a block is rolled back no saved block after it touches the same
\* contract (blocks that touch one contract).
ContractRollbackOrder ==
    [][phase = "rollback" =>
        \A p \in saved \ saved', b \in saved' :
            contracts[p] \cap contracts[b] # {} => ~Before(p, b)]_vars

\* A synchronised block that is refused because its predecessor is missing
\* leaves a request for a new synchronisation from below its height, and no
\* later failure moves a request up before the synchronisation thread has
\* served it (SaveBlock, PreSaveProcess and SyncBlock::SetNewSyncHeight).
ResyncCoversFailure ==
    [][/\ newSync.run /\ newSync'.run => newSync'.start <= newSync.start
       /\ At("check") /\ Cur.type = "SyncNormal" /\ prev[Cur.b] \notin saved
             /\ height[Cur.b] < Top + 2 /\ Cur.b \notin saved /\ calls' = Tail(calls)
             => newSync'.run /\ newSync'.start < height[Cur.b]]_vars

\* Every queued block is polled: it leaves the queue again.
QueuedBlocksArePolled ==
    \A b \in New : b \in broadcast ~> b \notin broadcast

\* Once every block of a chain has been delivered, in whatever order and in
\* whatever rounds, the whole chain is saved.
DeliveredInAnyOrder ==
    (\A b \in New : b \in dup) ~> New \subseteq saved
=============================================================================
