------------------------------ MODULE MCRounds ------------------------------
(***************************************************************************)
(* The three kinds of synchronisation round, each in scenes of its own.    *)
(* Peers change and answers are lost while a round runs.                   *)
(***************************************************************************)
EXTENDS SyncBase, MCTree

VARIABLES
    kind,                     \* which kind of round the behaviour repeats
    phase, round,             \* of all kinds
    old, running, failAt,     \* of the fast round
    cache, reserve, flushing  \* of the round from zero

\* A dispute about b1, or about how high the chain is.
NewPeerChains == {{a1}, {a1, a2, b1}}
NewChains == [Peers -> NewPeerChains]
NewLocalChains == {{b1}, {a1, a2}}

New == INSTANCE NewSync WITH
    Blocks <- Low, height <- LowHeight, prev <- LowPrev, Cnt <- 1,
    PeerChains <- NewPeerChains, Chains <- NewChains, LocalChains <- NewLocalChains

FastPeerChains == {{a1, a2}, {a1, b1, a2}, {b1}}
FastChains == [Peers -> {{a1, a2}, {a1, b1, a2}}] \cup [Peers -> {{a1, a2}, {b1}}]
FastLocalChains == {{}, {a1, b1}}

Fast == INSTANCE FastSync WITH
    Blocks <- Low, height <- LowHeight, prev <- LowPrev, rank <- LowRank,
    PeerChains <- FastPeerChains, Chains <- FastChains, LocalChains <- FastLocalChains

\* Three nodes agree; the fourth has a rival block or is short.
ZeroPeerChains == {Main(6), Main(6) \cup {b1}}
ZeroChains ==
    {c \in [Peers -> ZeroPeerChains] : Cardinality({p \in Peers : c[p] # Main(6)}) <= 1}

\* Either a peer changes, or answers are lost on the way to an empty node.
Zero == INSTANCE ZeroSync WITH
    Span <- 2, Ahead <- 4, Stale <- FALSE, MaxLost <- 0,
    PeerChains <- ZeroPeerChains, Chains <- ZeroChains, LocalChains <- {{a1, a2, b3}}

ZeroStill == INSTANCE ZeroSync WITH
    Span <- 2, Ahead <- 4, Stale <- FALSE, MaxMoves <- 0,
    PeerChains <- ZeroPeerChains, Chains <- ZeroChains, LocalChains <- {{}}

ASSUME RoundsStart == New!StartsOK /\ Fast!StartsOK /\ Zero!StartsOK /\ ZeroStill!StartsOK

-----------------------------------------------------------------------------
ofFast == <<old, running, failAt>>
ofZero == <<cache, reserve, flushing>>
vars == <<chain, moves, local, incoming, orders, all, force, kind, phase, round, ofFast, ofZero>>

OfZero == kind \in {"zero", "zero still"}

NoFast == old = {} /\ running = FALSE /\ failAt = 0
NoZero == cache = <<>> /\ reserve = {} /\ flushing = FALSE

Init ==
    \/ kind = "new" /\ New!Init /\ NoFast /\ NoZero
    \/ kind = "fast" /\ Fast!Init /\ NoZero
    \/ kind = "zero" /\ Zero!Init /\ NoFast
    \/ kind = "zero still" /\ ZeroStill!Init /\ NoFast

NewRound == kind = "new" /\ New!Next /\ UNCHANGED <<kind, ofFast, ofZero>>
FastRound == kind = "fast" /\ Fast!Next /\ UNCHANGED <<kind, ofZero>>
ZeroRound ==
    /\ \/ kind = "zero" /\ Zero!Next
       \/ kind = "zero still" /\ ZeroStill!Next
    /\ UNCHANGED <<kind, ofFast>>

Next == NewRound \/ FastRound \/ ZeroRound

Spec == Init /\ [][Next]_vars

-----------------------------------------------------------------------------
\* A cached span is never one node's word, although one node sends it and may
\* have changed since it reported the sum: while one of four nodes dissents at
\* first and one changes, two hold the very blocks that
\* _GetFromZeroSyncBlockData put into _syncFromZeroCache.
CachedSpansReported == OfZero => Zero!SpansReported

\* What from_zero_sync_add_thread gives the pool has no gap: below a flushed
\* span every other one is flushed with it, or the node or its pool has it.
FlushedWithoutGap == OfZero => Zero!CacheWithoutGap

\* No round gives a block up against everybody.  The new round: when none of
\* the nodes asked for block hashes refuses the range, a block that is ordered
\* rolled back is one that at least one of them does not hold.  The fast round:
\* it is one that a node asked does not hold, or one that is not a minute old
\* and thus not reported.  The round from zero: while the peers stand still, it
\* is one that not all of them hold.
RollbackHasDissent ==
    [][/\ kind = "new" => New!DissentedRollback
       /\ kind = "fast" => Fast!DissentedRollback
       /\ OfZero /\ moves = 0 => Zero!DissentedRollback]_vars

PeerSymmetry == Permutations(Peers)
=============================================================================
