-------------------------- MODULE TransactionCache --------------------------
(***************************************************************************)
(* The packaging of ordinary transactions: the thread of                   *)
(* ca/transaction_cache.cpp, the search for the predecessor that it takes  *)
(* from ca/block_stroage.cpp, and FailedTransactionCache, which keeps      *)
(* transactions until enough nodes have reached their height.              *)
(*                                                                         *)
(* The thread holds _transactionCacheMutex from its wake-up until it waits *)
(* again: AddCache only gets in while it waits.  Each seek of a            *)
(* predecessor is a task whose future is kept in _preHashMap by height.    *)
(***************************************************************************)
EXTENDS Integers, FiniteSets

CONSTANTS
    Txs,
    utxoHeight,  \* txutxoheight of each transaction
    Rivals,      \* pairs of transactions that Checker::CheckConflict tells apart
    Peers,       \* the node list
    Qualified,   \* sets of peers whose bonus and pledge may be found verified
    Heights,     \* bound: the heights there are, from 0
    MinReached,  \* 2 * kConsensus: nodes that must have reached a height
    kNeed_node_threshold,
    kMinUnstakeHeight

\* What the constants stand for.
ASSUME HeightAssumption ==
    /\ \E h \in Heights : Heights = 0 .. h /\ h >= 0
    /\ \A t \in Txs : utxoHeight[t] \in Heights
    /\ IsFiniteSet(Peers) /\ \A q \in Qualified : q \subseteq Peers

VARIABLES
    nodeHeight,  \* node.height as the peer list has it
    top,         \* GetBlockTop
    cache,       \* _transactionCache
    phase,       \* of the thread: "waiting", "updating" or "building"
    buildHeight,
    updating,    \* transactions whose UpdateTxMsg runs
    updateFailed,
    buildTxs,
    preHash,     \* _preHashMap: "none", "seeking", "found" or "empty"
    pending,     \* _txPending
    handling,    \* transactions whose DoHandleTx is due
    built        \* history: the transactions of the last block

round == <<phase, buildHeight, updating, updateFailed, buildTxs>>
vars == <<nodeHeight, top, cache, round, preHash, pending, handling, built>>

Init ==
    /\ nodeHeight \in [Peers -> Heights] /\ top \in Heights
    /\ cache = {} /\ phase = "waiting" /\ buildHeight = 0 /\ updating = {}
    /\ updateFailed = FALSE /\ buildTxs = {}
    /\ preHash = [h \in Heights |-> "none"]
    /\ pending = [h \in Heights |-> {}]
    /\ handling = Txs /\ built = {}

-----------------------------------------------------------------------------
(* Transactions come in.                                                   *)

\* Checker::CheckConflict (ca_core).
CheckConflict(t) == \E u \in cache : {t, u} \in Rivals

\* DoHandleTx (ca_core) ends in AddCache, in FailedTransactionCache::Add if
\* the height is not there yet, or fails.
AddCache(t) ==
    /\ t \in handling /\ phase = "waiting"
    /\ handling' = handling \ {t}
    /\ cache' = IF CheckConflict(t) THEN cache ELSE cache \cup {t}
    /\ UNCHANGED <<nodeHeight, top, round, preHash, pending, built>>

AddFailed(t) ==
    /\ t \in handling /\ top < utxoHeight[t]
    /\ handling' = handling \ {t}
    /\ pending' = [pending EXCEPT ![utxoHeight[t]] = @ \cup {t}]
    /\ UNCHANGED <<nodeHeight, top, cache, round, preHash, built>>

Reached(h) == {p \in Peers : nodeHeight[p] >= h}

\* Mutant: a node has to be above the height.
ReadyAbove(h) == Cardinality(Reached(h + 1)) >= MinReached /\ top >= h

\* Enough nodes, and this one, have reached the height.
Ready(h) == Cardinality(Reached(h)) >= MinReached /\ top >= h

\* _Check of the timer: what is ready is handled again, what is too far up is
\* dropped.
Check ==
    /\ \E h \in Heights : pending[h] # {}
    /\ handling' = handling \cup UNION {pending[h] : h \in {i \in Heights : Ready(i)}}
    /\ pending' = [h \in Heights |-> IF Ready(h) \/ h > top + 2 THEN {} ELSE pending[h]]
    /\ UNCHANGED <<nodeHeight, top, cache, round, preHash, built>>

-----------------------------------------------------------------------------
(* The thread.                                                             *)

MaxUtxoHeight == LET H == {utxoHeight[t] : t \in cache} IN CHOOSE h \in H : \A i \in H : i <= h

\* satisfiedAddrs, empty where there are too few.
Satisfied(qualified) ==
    IF Cardinality(qualified) >= kNeed_node_threshold THEN qualified
    ELSE IF MaxUtxoHeight < kMinUnstakeHeight THEN Peers ELSE {}

\* heightCount[h] >= satisfiedAddrs.size() * 0.75
ThreeQuarters(S, h) == 4 * Cardinality(Reached(h) \cap S) >= 3 * Cardinality(S)

Occurring(S) == {nodeHeight[p] : p \in S}

\* Mutant: the last loop goes from the lowest height up.
HighestAgreedFirst(S) == CHOOSE h \in Occurring(S) : \A i \in Occurring(S) : h <= i

\* The last loop of GetBuildBlockHeight, from the highest height down.
HighestAgreed(S) ==
    LET agreed == {h \in Occurring(S) : ThreeQuarters(S, h)}
        highest == CHOOSE h \in agreed : \A i \in agreed : i <= h
    IN  IF agreed = {} THEN -4 ELSE IF highest < MaxUtxoHeight THEN -3 ELSE highest

GetBuildBlockHeight(qualified) ==
    LET S == Satisfied(qualified) IN
    IF S = {} THEN -1
    ELSE IF ~ThreeQuarters(S, MaxUtxoHeight) THEN -2
    ELSE IF top >= MaxUtxoHeight /\ top \in Occurring(S) /\ ThreeQuarters(S, top) THEN top
    ELSE HighestAgreed(S)

\* The trimming of a map of more than 100 heights is left out.
CommitSeekTask(h) ==
    IF preHash[h] # "none" THEN preHash ELSE [preHash EXCEPT ![h] = "seeking"]

\* Up to the wait for UpdateTxMsg.
WakeUp ==
    /\ phase = "waiting" /\ cache # {}
    /\ \E q \in Qualified :
         LET height == GetBuildBlockHeight(q) IN
         IF height < 0
         THEN /\ cache' = {}
              /\ UNCHANGED <<round, preHash>>
         ELSE /\ buildHeight' = height
              /\ preHash' = CommitSeekTask(height)
              /\ phase' = "updating" /\ updating' = cache
              /\ buildTxs' = {} /\ updateFailed' = FALSE
              /\ UNCHANGED cache
    /\ UNCHANGED <<nodeHeight, top, pending, handling, built>>

UpdateTxMsg(t) ==
    /\ t \in updating
    /\ updating' = updating \ {t}
    /\ \/ buildTxs' = buildTxs \cup {t} /\ UNCHANGED updateFailed
       \/ updateFailed' = TRUE /\ UNCHANGED buildTxs
    /\ UNCHANGED <<nodeHeight, top, cache, phase, buildHeight, preHash, pending, handling, built>>

\* What the round leaves behind, ClearBuildTxs clears before it is read again.
EndRound ==
    /\ phase' = "waiting" /\ buildHeight' = 0
    /\ updating' = {} /\ updateFailed' = FALSE /\ buildTxs' = {}

Updated ==
    /\ phase = "updating" /\ updating = {}
    /\ IF updateFailed
       THEN /\ EndRound
            /\ cache' = {}
       ELSE /\ phase' = "building"
            /\ UNCHANGED <<cache, buildHeight, updating, updateFailed, buildTxs>>
    /\ UNCHANGED <<nodeHeight, top, preHash, pending, handling, built>>

\* Mutant: a search that failed is not begun again.
ForceCommitSeekTaskOnce(h) == preHash

ForceCommitSeekTask(h) == [preHash EXCEPT ![h] = "seeking"]

\* CreateBlock's -3 and -4: no predecessor within six seconds, or none at all.
\* The transactions are kept.
NoPredecessor ==
    /\ phase = "building" /\ preHash[buildHeight] # "found"
    /\ EndRound
    /\ preHash' = ForceCommitSeekTask(buildHeight)
    /\ UNCHANGED <<nodeHeight, top, cache, pending, handling, built>>

\* Whether BuildBlock succeeds or fails in another way, the cache is cleared.
BuildBlock ==
    /\ phase = "building" /\ preHash[buildHeight] = "found"
    /\ EndRound
    /\ cache' = {}
    /\ built' \in {buildTxs, built}
    /\ UNCHANGED <<nodeHeight, top, preHash, pending, handling>>

\* _SeekPreHashThread: enough nodes name one hash, or not.
SeekFound(h) ==
    /\ preHash[h] = "seeking"
    /\ preHash' = [preHash EXCEPT ![h] = "found"]
    /\ UNCHANGED <<nodeHeight, top, cache, round, pending, handling, built>>

SeekFails(h) ==
    /\ preHash[h] = "seeking"
    /\ preHash' = [preHash EXCEPT ![h] = "empty"]
    /\ UNCHANGED <<nodeHeight, top, cache, round, pending, handling, built>>

\* ProcessContract and DoHandleTx (ca_core) seek a predecessor, too.
SeekOther ==
    /\ preHash[top] = "none" /\ preHash' = CommitSeekTask(top)
    /\ UNCHANGED <<nodeHeight, top, cache, round, pending, handling, built>>

\* The network grows.
Grow ==
    /\ \/ \E p \in Peers :
            /\ nodeHeight[p] + 1 \in Heights
            /\ nodeHeight' = [nodeHeight EXCEPT ![p] = @ + 1]
            /\ UNCHANGED top
       \/ /\ top + 1 \in Heights
          /\ top' = top + 1
          /\ UNCHANGED nodeHeight
    /\ UNCHANGED <<cache, round, preHash, pending, handling, built>>

-----------------------------------------------------------------------------
Thread == WakeUp \/ Updated \/ NoPredecessor \/ BuildBlock

Next ==
    \/ Check \/ Thread \/ SeekOther \/ Grow
    \/ \E t \in Txs : AddCache(t) \/ AddFailed(t) \/ UpdateTxMsg(t)
    \/ \E h \in Heights : SeekFound(h) \/ SeekFails(h)

Spec == Init /\ [][Next]_vars

\* The timers run, tasks have an end, and a search that is repeated again and
\* again finds the predecessor at last.
Works == Thread \/ \E t \in Txs : UpdateTxMsg(t)
Found == \E h \in Heights : SeekFound(h)

FairSpec == Spec /\ WF_vars(Check) /\ WF_vars(Works) /\ SF_vars(Found)

-----------------------------------------------------------------------------
\* Type invariant.
TypeOK ==
    /\ nodeHeight \in [Peers -> Heights] /\ top \in Heights /\ buildHeight \in Heights
    /\ cache \subseteq Txs /\ updating \subseteq cache /\ buildTxs \subseteq Txs
    /\ phase \in {"waiting", "updating", "building"} /\ updateFailed \in BOOLEAN
    /\ preHash \in [Heights -> {"none", "seeking", "found", "empty"}]
    /\ pending \in [Heights -> SUBSET Txs] /\ handling \subseteq Txs

\* A block is built on a height that three quarters of the nodes asked have
\* reached, not below an output its transactions spend, and there is one
\* whenever three quarters have reached those outputs: -3 and -4 of
\* GetBuildBlockHeight do not happen.
BuildHeightReached ==
    cache # {} =>
        \A q \in Qualified :
            LET S == Satisfied(q)
                height == GetBuildBlockHeight(q)
            IN  S # {} /\ ThreeQuarters(S, MaxUtxoHeight) =>
                    height >= MaxUtxoHeight /\ ThreeQuarters(S, height)

\* A transaction in the cache does not stay there for ever: a predecessor that
\* was not found is sought again, although CommitSeekTask skips a height that
\* has a future already.
EveryTxLeaves == \A t \in Txs : t \in cache ~> t \notin cache

\* A transaction that waits for its height is handled again when enough nodes
\* have reached it.
PendingRetried ==
    \A h \in Heights :
        pending[h] # {} /\ top >= h /\ Cardinality(Reached(h)) >= MinReached
            ~> pending[h] = {}
=============================================================================
