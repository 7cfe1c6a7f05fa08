------------------------------ MODULE SyncBase ------------------------------
(***************************************************************************)
(* What the kinds of synchronisation round of ca/sync_block.cpp share: the *)
(* chains of the peers and of the node, which peers a round asks and which *)
(* of them answer.  A block is a model value with a height, a predecessor  *)
(* and nothing else.                                                       *)
(***************************************************************************)
EXTENDS Integers, FiniteSets, FiniteSetsExt, Functions

CONSTANTS
    Blocks, height, prev, Genesis,
    Peers,
    PeerChains,   \* bound: the chains a peer may hold
    NoVerify,     \* noVerifyHeight, and the other 10s
    SendMin,      \* KMinSyncQualNodes
    Qualifying,   \* the number of qualifying nodes
    MaxMoves,     \* bound: how often a peer gains or loses a block
    MaxLost,      \* bound: how many answers to a request are lost
    Stale         \* whether the known heights are old and fetched blocks refused

ASSUME ChainAssumption ==
    /\ height \in [Blocks -> Nat \ {0}] /\ prev \in [Blocks -> Blocks \cup {Genesis}]
    /\ Genesis \notin Blocks /\ PeerChains \subseteq SUBSET Blocks
    /\ NoVerify \in Nat /\ SendMin \in Nat \ {0} /\ Qualifying \in Nat
    /\ SendMin <= Cardinality(Peers)
    /\ MaxMoves \in Nat /\ MaxLost \in Nat /\ Stale \in BOOLEAN

VARIABLES
    chain,     \* the blocks of each peer
    moves,     \* how often they changed
    local,     \* the blocks in the node's database
    incoming,  \* what AddSyncBlock or AddFastSyncBlock gave to the pool
    orders,    \* what AddRollbackBlock gave to the pool
    all,       \* the number of nodes to ask is UINT32_MAX: ask every node
    force      \* forceFindBaseChain

-----------------------------------------------------------------------------
(* Chains and answers.                                                     *)

At(c, h) == {b \in c : height[b] = h}
Between(c, s, e) == {b \in c : s <= height[b] /\ height[b] <= e}
Top(c) == Max({height[b] : b \in c} \cup {0})

\* GetBlockHashesByBlockHeight fails when a height of the range has no block.
Complete(c, s, e) == \A h \in s .. e : At(c, h) # {}

Size(S) == Cardinality(S)

\* WaitData with a quorum of 0.8, and the test for at least half after it.
EnoughAnswers(answers, asked) ==
    2 * Size(answers) >= Size(asked) \/ Size(answers) >= (8 * Size(asked)) \div 10

\* The peers that answer.
Answering(asked) == {a \in SUBSET asked : Size(asked \ a) <= MaxLost}

-----------------------------------------------------------------------------
(* Between any two requests peers gain and lose blocks, and the node's pool *)
(* saves what was fetched and rolls back what was ordered.                 *)

PeerChanges ==
    /\ moves < MaxMoves /\ moves' = moves + 1
    /\ \E p \in Peers, c \in PeerChains :
         /\ Size((c \ chain[p]) \cup (chain[p] \ c)) = 1
         /\ chain' = [chain EXCEPT ![p] = c]
    /\ UNCHANGED <<local, incoming, orders, all, force>>

PoolSaves ==
    /\ \E b \in incoming :
         /\ prev[b] \in local \cup {Genesis}
         /\ local' = local \cup {b}
         /\ incoming' = incoming \ {b}
    /\ UNCHANGED <<chain, moves, orders, all, force>>

\* A block whose predecessor is missing leaves the pool, and so may others.
PoolRefuses ==
    /\ \E b \in incoming :
         /\ Stale \/ prev[b] \notin local \cup {Genesis} \cup incoming
         /\ incoming' = incoming \ {b}
    /\ UNCHANGED <<chain, moves, local, orders, all, force>>

PoolRollsBack ==
    /\ orders # {}
    /\ local' = local \ orders
    /\ orders' = {}
    /\ UNCHANGED <<chain, moves, incoming, all, force>>

Outside == PeerChanges \/ PoolSaves \/ PoolRefuses \/ PoolRollsBack

-----------------------------------------------------------------------------
(* Whom to ask.                                                            *)

\* The p-th of the sorted values, counted from 0.
Quantile(f, p) ==
    CHOOSE v \in Range(f) :
        /\ Size({x \in DOMAIN f : f[x] < v}) <= p
        /\ Size({x \in DOMAIN f : f[x] <= v}) > p

\* ObtainChainHeight: the 0.75 quantile of the peers' heights.
NetHeight == Quantile([p \in Peers |-> Top(chain[p])], (75 * Size(Peers)) \div 100)

\* Mutant: a node on the height of the network never looks at its equals.
HighNodesOnly(net) ==
    {p \in Peers : IF Top(local) < net THEN Top(chain[p]) >= net
                   ELSE Top(chain[p]) > Top(local)}

\* _GetSyncNode: a node that is not behind asks in turn for nodes above itself
\* and for nodes on the height of the network.
HighNodes(net) ==
    {p \in Peers : IF force \/ Top(local) < net THEN Top(chain[p]) >= net
                   ELSE Top(chain[p]) > Top(local)}

\* What it knows of the peers' heights comes from their heartbeats: it may be
\* old, and then any nodes may look high enough.
Candidates(net) == IF Stale THEN SUBSET Peers ELSE {HighNodes(net)}

\* _GetSyncNodeBasic: up to num of them, and at least half of num.
AskedNodes(high) ==
    LET num == IF all THEN Size(Peers) ELSE SendMin
        n == Min({num, Size(high)})
    IN  IF n = 0 \/ 2 * n < num THEN {} ELSE kSubset(n, high)

\* Mutant: a sample is enough.
NeverTooFew == FALSE

\* The number asked is below the number of qualifying nodes.
TooFewAsked == ~all /\ SendMin < Qualifying

-----------------------------------------------------------------------------
\* A round that asked only a sample of the nodes rolls nothing back.
SampleRollsNothingBack ==
    [][~all /\ SendMin < Qualifying => orders' \subseteq orders]_orders
=============================================================================
