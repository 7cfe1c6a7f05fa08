-------------------------- MODULE MCRoundsProgress --------------------------
(***************************************************************************)
(* The three kinds of synchronisation round while the peers stand still:   *)
(* the scheduled thread and pool get the node where the round is meant to. *)
(***************************************************************************)
EXTENDS SyncBase, MCTree

VARIABLES
    kind, phase, round, old, running, failAt, cache, reserve, flushing  \* as in MCRounds

\* All peers but one hold the main chain, and b2 or not.
NewBlocks == Main(3) \cup {b1, b2}
NewHeight == HeightIn(NewBlocks)
NewPrev == PrevIn(NewBlocks)
NewPeerChains == {Main(3), Main(3) \cup {b2}, Main(1) \cup {b2}}
NewChains == {[p \in Peers |-> IF p = p1 THEN Main(1) \cup {b2} ELSE d] :
                 d \in {Main(3), Main(3) \cup {b2}}}
NewLocalChains == {{b1}, {a1, b2}, Main(3)}

New == INSTANCE NewSync WITH
    Blocks <- NewBlocks, height <- NewHeight, prev <- NewPrev, Cnt <- 2, NoVerify <- 1,
    Stale <- FALSE, MaxLost <- 0,
    PeerChains <- NewPeerChains, Chains <- NewChains, LocalChains <- NewLocalChains

Three == {p1, p2, p3}
FastPeerChains == {{a1, a2}, {a1, b1, a2}, {b1}}
\* Which of the peers dissent makes no difference, only how many do.
Dissenters == {{}, {p1}, {p1, p2}, Three}
FastChains == {[p \in Three |-> IF p \in d THEN c ELSE {a1, a2}] :
                  d \in Dissenters, c \in {{a1, b1, a2}, {b1}}}
FastLocalChains == {{}, {b1}, {a1, b1}}

Fast == INSTANCE FastSync WITH
    Blocks <- Low, height <- LowHeight, prev <- LowPrev, rank <- LowRank,
    Peers <- Three, SendMin <- 2, Qualifying <- 3, Stale <- TRUE, MaxLost <- 1,
    PeerChains <- FastPeerChains, Chains <- FastChains, LocalChains <- FastLocalChains

\* One of three nodes dissents, and in the first span only.
ZeroPeerChains == {Main(6), Main(6) \cup {b1}}
ZeroChains == {[p \in Three |-> IF p = p1 THEN Main(6) \cup {b1} ELSE Main(6)]}
ZeroLocalChains == {{}, {a1, a2, b3}}

Zero == INSTANCE ZeroSync WITH
    Peers <- Three, SendMin <- 3, Qualifying <- 3, Span <- 2, Ahead <- 4,
    Stale <- FALSE, MaxLost <- 0,
    PeerChains <- ZeroPeerChains, Chains <- ZeroChains, LocalChains <- ZeroLocalChains

ASSUME ProgressStart == New!StartsOK /\ Fast!StartsOK /\ Zero!StartsOK

-----------------------------------------------------------------------------
ofFast == <<old, running, failAt>>
ofZero == <<cache, reserve, flushing>>
vars == <<chain, moves, local, incoming, orders, all, force, kind, phase, round, ofFast, ofZero>>

NoFast == old = {} /\ running = FALSE /\ failAt = 0
NoZero == cache = <<>> /\ reserve = {} /\ flushing = FALSE

Init ==
    \/ kind = "new" /\ New!Init /\ NoFast /\ NoZero
    \/ kind = "fast" /\ Fast!Init /\ NoZero
    \/ kind = "zero" /\ Zero!Init /\ NoFast

\* The thread takes a step of the round, or the detached thread flushes.
Round ==
    \/ kind = "new" /\ New!Sync /\ UNCHANGED <<kind, ofFast, ofZero>>
    \/ kind = "fast" /\ Fast!Sync /\ UNCHANGED <<kind, ofZero>>
    \/ kind = "zero" /\ Zero!Sync /\ UNCHANGED <<kind, ofFast>>

Flush == kind = "zero" /\ Zero!Flush /\ UNCHANGED <<kind, ofFast>>

Asking ==
    /\ kind = "fast"
    /\ Fast!GrowOld \/ Fast!SetFastSync
    /\ UNCHANGED <<kind, ofZero>>

\* The pool.
Elsewhere == UNCHANGED <<kind, phase, round, ofFast, ofZero>>
Save(b) == b \in incoming /\ PoolSaves /\ b \notin incoming' /\ Elsewhere
RollBack == PoolRollsBack /\ Elsewhere
Refuse ==
    /\ \/ kind = "new" /\ New!PoolRefuses
       \/ kind = "fast" /\ Fast!PoolRefuses
       \/ kind = "zero" /\ Zero!PoolRefuses
    /\ Elsewhere

Next == Round \/ Flush \/ Asking \/ (\E b \in Blocks : Save(b)) \/ RollBack \/ Refuse

\* The thread and the detached thread are scheduled, and the pool gets to every
\* block and order.
Spec ==
    /\ Init /\ [][Next]_vars
    /\ WF_vars(Round) /\ WF_vars(Flush) /\ WF_vars(RollBack)
    /\ \A b \in Blocks : WF_vars(Save(b))

-----------------------------------------------------------------------------
\* A node that is behind, or on a fork, obtains for good every block that four
\* fifths of the nodes hold, by _RunNewSyncOnce and the pool alone.
CaughtUp == <>[](kind = "new" => New!Agreed \subseteq local)

\* A request for a fast round is over after finitely many rounds: a round is
\* repeated with all nodes (inFastSyncFail) and then not again.
FastRequestEnds == running ~> ~running

\* A node that is far behind comes near enough for the other kinds of round,
\* when at most one node dissents and that in the first span.
NoLongerFarBehind == <>[](kind = "zero" => ~Zero!FarBehind(Zero!NetHeight))
=============================================================================
