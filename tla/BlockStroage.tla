---------------------------- MODULE BlockStroage ----------------------------
(***************************************************************************)
(* The consensus on a block at the node that packed it: class BlockStroage *)
(* of ca/block_stroage.cpp and BlockMonitor::SendBroadcastAddBlock.        *)
(*                                                                         *)
(* DoHandleBlock (ca_core) starts a block: it is put into _blockCnt and    *)
(* _blockStatusMap and sent to KSend_node_threshold nodes, each of which   *)
(* answers once, with the block signed or with a BlockStatus that names    *)
(* the transactions it refuses.  A timer broadcasts a block that           *)
(* kConsensus nodes, this one included, have signed.  So many refusals     *)
(* that this cannot happen any more, or refusals of three quarters of the  *)
(* nodes that got the broadcast, commit a task that builds the block again *)
(* without the transactions refused.                                       *)
(*                                                                         *)
(* The two maps have two mutexes.  The timer's callback holds _blockMutex  *)
(* over a loop whose blocks do not touch each other: one step per block.   *)
(* NewbuildBlockByBlockStatus lets _statusMutex go in its middle: two      *)
(* steps.  Messages are told apart by their sender, so what a block has    *)
(* received is a set of nodes, and the votes against each transaction.     *)
(***************************************************************************)
EXTENDS Integers, FiniteSets

CONSTANTS
    Blocks,       \* names for the blocks this node starts
    Nodes,        \* the other nodes
    Txs,          \* transactions
    Contracts,    \* those that deploy or call a contract
    Places,       \* heights with predecessor
    Packed,       \* the sets of transactions blocks are packed with
    Asked,        \* the sets of nodes DoHandleBlock may ask
    Reached,      \* the sets of nodes a broadcast may reach (castaddrs)
    kConsensus,
    KSend,        \* KSend_node_threshold
    StatusTTL,    \* 5 s: a BlockStatus counts
    FlowTTL,      \* 10 s: a block waits for its signatures
    ExpireTTL,    \* 15 s: an entry of _blockStatusMap lives
    LastStart,    \* bound: the last time a block is started at
    None

ASSUME ThresholdAssumption ==
    /\ kConsensus \in Nat /\ KSend \in Nat /\ 2 <= kConsensus /\ kConsensus <= KSend
    /\ IsFiniteSet(Nodes) /\ Reached \subseteq SUBSET Nodes /\ Asked \subseteq SUBSET Nodes
    /\ \A N \in Asked : Cardinality(N) <= KSend

ASSUME TimeAssumption ==
    /\ StatusTTL \in Nat /\ FlowTTL \in Nat /\ ExpireTTL \in Nat /\ LastStart \in Nat
    /\ StatusTTL < FlowTTL /\ FlowTTL < ExpireTTL

MaxTime == LastStart + ExpireTTL

ASSUME DataAssumption ==
    /\ Packed \subseteq SUBSET Txs /\ {} \notin Packed
    /\ None \notin Nat /\ None \notin Blocks

VARIABLES
    now,       \* TimeUtil::GetUTCTimestamp
    born,      \* CBlock::time, None before the block is started
    place,     \* CBlock::height and prevhash
    txs,       \* CBlock::txs
    asked,     \* the nodes DoHandleBlock sent the block to
    mail,      \* answers on their way, as <<kind, block, node, transactions>>
    answered,  \* history: <<kind, block, node>> of the answers sent
    blockCnt,  \* _blockCnt: the nodes whose signed block came, None if absent
    status,    \* _blockStatusMap, None if absent
    tasks,     \* committed executions of NewbuildBlockByBlockStatus
    building,  \* those that have let _statusMutex go, as <<block, transactions>>
    cast,      \* history: the blocks that were broadcast
    refused,   \* history: blocks that refusals of the verifying nodes rebuild
    parent     \* history: the block a block was rebuilt from

stored == <<blockCnt, status, tasks, building>>
header == <<born, place, txs, asked, parent>>
vars == <<now, header, mail, answered, stored, cast, refused>>

\* A value-initialised BlockStatusWrapper, without a block, as operator[] makes
\* it, and one of a block.
Blank == [block |-> FALSE, stage |-> "verify", number |-> 0, waiting |-> {}, list |-> {},
          against |-> [t \in Txs |-> 0]]
Fresh == [Blank EXCEPT !.block = TRUE]

Init ==
    /\ now = 0
    /\ born = [b \in Blocks |-> None]
    /\ place = [b \in Blocks |-> None]
    /\ txs = [b \in Blocks |-> {}]
    /\ asked = [b \in Blocks |-> {}]
    /\ parent = [b \in Blocks |-> None]
    /\ mail = {} /\ answered = {}
    /\ blockCnt = [b \in Blocks |-> None]
    /\ status = [b \in Blocks |-> None]
    /\ tasks = {} /\ building = {}
    /\ cast = {} /\ refused = {}

-----------------------------------------------------------------------------
(* A block is started, and the nodes answer.                               *)

\* verifyNodesNumber: with so many refusals at most kConsensus - 2 of the
\* nodes asked are left to sign.
VerifyNodesNumber == KSend - kConsensus + 2

\* (uint32_t)(n * _failureRate).
FailureRate(n) == (3 * n) \div 4

\* AddBlock and AddBlockStatus as DoHandleBlock calls them.
Start(b, T, pl, from) ==
    /\ born[b] = None /\ now <= LastStart
    /\ born' = [born EXCEPT ![b] = now]
    /\ txs' = [txs EXCEPT ![b] = T]
    /\ place' = [place EXCEPT ![b] = pl]
    /\ parent' = [parent EXCEPT ![b] = from]
    /\ \E N \in Asked :
         /\ asked' = [asked EXCEPT ![b] = N]
         /\ blockCnt' = [blockCnt EXCEPT ![b] = {}]
         /\ status' = [status EXCEPT ![b] =
                [Fresh EXCEPT !.number = VerifyNodesNumber, !.waiting = N]]

\* A packed block.
HandleBlock(b) ==
    /\ \E T \in Packed, pl \in Places : Start(b, T, pl, None)
    /\ UNCHANGED <<now, mail, answered, tasks, building, cast, refused>>

\* A node that was asked signs the block or refuses transactions of it.
Verify(b, n) ==
    /\ n \in asked[b]
    /\ <<"sign", b, n>> \notin answered /\ <<"fail", b, n>> \notin answered
    /\ \/ /\ mail' = mail \cup {<<"sign", b, n, {}>>}
          /\ answered' = answered \cup {<<"sign", b, n>>}
       \/ \E T \in SUBSET txs[b] :
            /\ mail' = mail \cup {<<"fail", b, n, T>>}
            /\ answered' = answered \cup {<<"fail", b, n>>}
    /\ UNCHANGED <<now, header, stored, cast, refused>>

\* A node that got the broadcast does not save the block.
RefuseSave(b, n) ==
    /\ b \in cast /\ <<"late", b, n>> \notin answered
    /\ \E T \in SUBSET txs[b] : mail' = mail \cup {<<"fail", b, n, T>>}
    /\ answered' = answered \cup {<<"late", b, n>>}
    /\ UNCHANGED <<now, header, stored, cast, refused>>

-----------------------------------------------------------------------------
(* What comes in.                                                          *)

\* HandleBlock (ca_core) hands a signed block to UpdateBlock.
UpdateBlock(b, n) ==
    /\ <<"sign", b, n, {}>> \in mail
    /\ mail' = mail \ {<<"sign", b, n, {}>>}
    /\ blockCnt' = [blockCnt EXCEPT ![b] = IF @ = None THEN None ELSE @ \cup {n}]
    /\ UNCHANGED <<now, header, answered, status, tasks, building, cast, refused>>

\* Mutant: one refusal less is enough.
ThresholdTooLow(s) == IF s.stage = "verify" THEN s.number - 1 ELSE FailureRate(s.number)

\* The length of blockStatusList that commits a task.
Threshold(s) == IF s.stage = "verify" THEN s.number ELSE FailureRate(s.number)

\* Mutant: every refusal from the threshold on commits a task.
CommitsFromThreshold(s) == Cardinality(s.list) >= Threshold(s)

\* The refusal just counted makes the list as long as that.
Commits(s) == Cardinality(s.list) = Threshold(s)

\* CheckData's -4 and -6: the list is long enough.
ListFull(s) ==
    IF s.stage = "verify" THEN Cardinality(s.list) > s.number
    ELSE 4 * Cardinality(s.list) > 3 * s.number

\* CheckData's -3 and -5, and what makes it -2.
Awaited(b, n) == status[b] # None /\ n \in status[b].waiting

\* CheckData's -4, -6 and -7.
TooLate(b) == ListFull(status[b]) \/ now > born[b] + StatusTTL

Heard(s, n) == [s EXCEPT !.waiting = @ \ {n}]

Counted(s, n, T) ==
    [Heard(s, n) EXCEPT !.list = @ \cup {n},
              !.against = [t \in Txs |-> IF t \in T THEN @[t] + 1 ELSE @[t]]]

\* AddBlockStatus(blockStatus).  CheckData takes the sender out of the nodes
\* awaited before it looks at the list's length and at the time.
AddBlockStatus(b, n, T) ==
    /\ <<"fail", b, n, T>> \in mail
    /\ mail' = mail \ {<<"fail", b, n, T>>}
    /\ \/ /\ ~Awaited(b, n)
          /\ UNCHANGED <<status, tasks, refused>>
       \/ /\ Awaited(b, n) /\ TooLate(b)
          /\ status' = [status EXCEPT ![b] = Heard(@, n)]
          /\ UNCHANGED <<tasks, refused>>
       \/ /\ Awaited(b, n) /\ ~TooLate(b)
          /\ status' = [status EXCEPT ![b] = Counted(@, n, T)]
          /\ tasks' = IF Commits(status'[b]) THEN tasks \cup {b} ELSE tasks
          /\ refused' = IF Commits(status'[b]) /\ status[b].stage = "verify"
                        THEN refused \cup {b} ELSE refused
    /\ UNCHANGED <<now, header, answered, blockCnt, building, cast>>

-----------------------------------------------------------------------------
(* The timer's callback: _BlockCheck, then ExpiredDeleteCheck.             *)

\* SendBroadcastAddBlock reached the nodes L.  The names in verifyNodes do not
\* matter from here on.
ToLevel1(s, L) == [s EXCEPT !.stage = "level1", !.number = Cardinality(L), !.list = {},
                            !.waiting = L, !.against = [t \in Txs |-> 0]]

\* msgSize counts the node's own message.
Signed(b) == Cardinality(blockCnt[b]) + 1 >= kConsensus

\* Mutant: a block without its signatures waits for ever.
BlockCheckNoTimeout(b) ==
    /\ blockCnt[b] # None
    /\ Signed(b) /\ now <= born[b] + FlowTTL
    /\ blockCnt' = [blockCnt EXCEPT ![b] = None]
    /\ \/ \E L \in Reached :
            /\ status' = [status EXCEPT ![b] = ToLevel1(IF @ = None THEN Fresh ELSE @, L)]
            /\ cast' = cast \cup {b}
       \/ status' = [status EXCEPT ![b] = IF @ = None THEN Fresh ELSE @] /\ UNCHANGED cast
       \/ UNCHANGED <<status, cast>>
    /\ UNCHANGED <<now, header, mail, answered, tasks, building, refused>>

\* A block with enough signatures leaves _blockCnt and is broadcast, unless
\* SendBroadcastAddBlock, or one of the checks before it, fails; one that is
\* ten seconds old leaves it without.
BlockCheck(b) ==
    /\ blockCnt[b] # None
    /\ blockCnt' = [blockCnt EXCEPT ![b] = None]
    /\ \/ /\ Signed(b) /\ now <= born[b] + FlowTTL
          /\ \/ \E L \in Reached :
                  /\ status' = [status EXCEPT ![b] = ToLevel1(IF @ = None THEN Fresh ELSE @, L)]
                  /\ cast' = cast \cup {b}
             \/ status' = [status EXCEPT ![b] = IF @ = None THEN Fresh ELSE @] /\ UNCHANGED cast
             \/ UNCHANGED <<status, cast>>
       \/ now > born[b] + FlowTTL /\ UNCHANGED <<status, cast>>
    /\ UNCHANGED <<now, header, mail, answered, tasks, building, refused>>

\* Mutant: an entry lives no longer than its BlockStatus count.
ExpiredAfterStatus(b) == ~status[b].block \/ now >= born[b] + StatusTTL

\* An entry that operator[] made has an empty block, of time 0.
Expired(b) == ~status[b].block \/ now >= born[b] + ExpireTTL

ExpiredDeleteCheck(b) ==
    /\ status[b] # None
    /\ Expired(b)
    /\ status' = [status EXCEPT ![b] = None]
    /\ UNCHANGED <<now, header, mail, answered, blockCnt, tasks, building, cast, refused>>

-----------------------------------------------------------------------------
(* NewbuildBlockByBlockStatus.                                             *)

Refusals(s, t) == s.against[t] >= FailureRate(s.number) /\ s.against[t] > 0

\* Up to lck.unlock.  Besides the transactions refused, those leave the block
\* that are too old or without their Vrf.  A block with a contract is not built
\* again.  An entry that has expired is made anew, empty.
NewbuildCollect(b) ==
    /\ b \in tasks
    /\ tasks' = tasks \ {b}
    /\ IF status[b] = None
       THEN /\ status' = [status EXCEPT ![b] = Blank]
            /\ UNCHANGED building
       ELSE /\ UNCHANGED status
            /\ \E T \in SUBSET {t \in txs[b] : ~Refusals(status[b], t)} :
                 building' = IF T = {} \/ ~status[b].block \/ txs[b] \cap Contracts # {}
                             THEN building ELSE building \cup {<<b, T>>}
    /\ UNCHANGED <<now, header, mail, answered, blockCnt, cast, refused>>

\* The rest.  InitNewBlock reads the old block's height and predecessor through
\* a reference into _blockStatusMap: once the entry has been deleted they are
\* whatever that memory holds.
NewbuildSend(b, T, nb) ==
    /\ <<b, T>> \in building
    /\ building' = building \ {<<b, T>>}
    /\ \E pl \in Places :
         /\ status[b] # None => (status[b].block => pl = place[b])
         /\ Start(nb, T, pl, b)
    /\ UNCHANGED <<now, mail, answered, tasks, cast, refused>>

\* DoHandleBlock or Sign fails.
NewbuildFail(b, T) ==
    /\ <<b, T>> \in building
    /\ building' = building \ {<<b, T>>}
    /\ UNCHANGED <<now, header, mail, answered, blockCnt, status, tasks, cast, refused>>

Tick ==
    /\ now < MaxTime
    /\ now' = now + 1
    /\ UNCHANGED <<header, mail, answered, stored, cast, refused>>

Timer(b) == BlockCheck(b) \/ ExpiredDeleteCheck(b)

Next ==
    \/ Tick
    \/ \E b \in Blocks :
         \/ HandleBlock(b) \/ Timer(b) \/ NewbuildCollect(b)
         \/ \E n \in Nodes :
              \/ Verify(b, n) \/ RefuseSave(b, n) \/ UpdateBlock(b, n)
              \/ \E T \in SUBSET Txs : AddBlockStatus(b, n, T)
         \/ \E T \in SUBSET Txs :
              NewbuildFail(b, T) \/ \E nb \in Blocks : NewbuildSend(b, T, nb)

Spec == Init /\ [][Next]_vars

\* Time passes, the timer runs every 100 ms, and the pool runs its tasks.
FairSpec ==
    /\ Spec /\ WF_vars(Tick)
    /\ \A b \in Blocks : WF_vars(Timer(b)) /\ WF_vars(NewbuildCollect(b))

-----------------------------------------------------------------------------
Kinds == {"sign", "fail", "late"}

Entries == [block : BOOLEAN, stage : {"verify", "level1"}, number : Nat,
            waiting : SUBSET Nodes, list : SUBSET Nodes, against : [Txs -> Nat]]

ASSUME AbsentAssumption == None \notin Entries

\* Type invariant.
TypeOK ==
    /\ now \in 0 .. MaxTime
    /\ born \in [Blocks -> 0 .. LastStart \cup {None}]
    /\ place \in [Blocks -> Places \cup {None}] /\ txs \in [Blocks -> SUBSET Txs]
    /\ asked \in [Blocks -> SUBSET Nodes] /\ parent \in [Blocks -> Blocks \cup {None}]
    /\ mail \subseteq {"sign", "fail"} \X Blocks \X Nodes \X SUBSET Txs
    /\ answered \subseteq Kinds \X Blocks \X Nodes
    /\ blockCnt \in [Blocks -> (SUBSET Nodes) \cup {None}]
    /\ status \in [Blocks -> Entries \cup {None}]
    /\ tasks \subseteq Blocks /\ building \subseteq Blocks \X SUBSET Txs
    /\ cast \subseteq Blocks /\ refused \subseteq Blocks

\* A block is decided one way: it is never both broadcast with kConsensus
\* signatures and built again because of the refusals of the nodes asked to
\* sign it, in whatever order signatures, refusals and the timer come
\* (verifyNodesNumber, _BlockCheck and AddBlockStatus).
DecidedOneWay == cast \cap refused = {}

\* A block is built again at most once, so that its transactions are not put
\* into two competing blocks, although refusals go on coming in, before and
\* after the broadcast, and the task runs later.
RebuiltOnce ==
    \A c, d \in Blocks : c # d /\ parent[c] # None => parent[c] # parent[d]

\* A block built again within the life of the old block's entry stands at the
\* old block's height and predecessor.
RebuiltInPlace ==
    \A c \in Blocks :
        parent[c] # None /\ born[c] # None =>
            (born[c] < born[parent[c]] + ExpireTTL => place[c] = place[parent[c]])

\* Nothing is kept for ever: a block leaves both maps, also one whose entry is
\* made anew by a task that runs after it has expired.
EventuallyForgotten ==
    \A b \in Blocks : []<>(blockCnt[b] = None /\ status[b] = None)
=============================================================================
