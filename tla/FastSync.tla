------------------------------ MODULE FastSync ------------------------------
(***************************************************************************)
(* The fast synchronisation round of ca/sync_block.cpp (_RunFastSyncOnce). *)
(* The pool asks for it when it meets a dispute at some height; the node   *)
(* asks peers for their blocks of that height that are older than a minute,*)
(* and either rolls a block of its own back or fetches what two thirds     *)
(* report.  The window is one height, as _fastSyncHeightCnt is 0.          *)
(***************************************************************************)
EXTENDS SyncBase, Sequences, SequencesExt

CONSTANTS
    Chains, LocalChains,  \* the first chains of the peers and of the node
    rank                  \* the order of the block hashes

StartsOK ==
    /\ LocalChains \subseteq SUBSET Blocks /\ Chains \subseteq [Peers -> PeerChains]
    /\ rank \in [Blocks -> Nat] /\ IsInjective(rank)

VARIABLES
    old,      \* the blocks older than kStabilityTime
    running,  \* runFastSync
    failAt,   \* newSyncFailHeight
    phase,    \* the request the round makes next
    round     \* the locals of the running round

mine == <<old, running, failAt, phase, round>>
vars == <<chain, moves, local, incoming, orders, all, force, mine>>

\* The locals: the height, chainHeight, the nodes to ask and the hashes to get.
Blank == [at |-> 0, net |-> 0, asked |-> {}, req |-> {}]

Init ==
    /\ chain \in Chains /\ moves = 0 /\ local \in LocalChains
    /\ incoming = {} /\ orders = {} /\ all = FALSE /\ force = FALSE
    /\ old \in {Blocks, {}} /\ running = FALSE /\ failAt = 0
    /\ phase = "idle" /\ round = Blank

-----------------------------------------------------------------------------
\* A minute passes for a block.
GrowOld ==
    /\ \E b \in Blocks \ old : old' = old \cup {b}
    /\ UNCHANGED <<chain, moves, local, incoming, orders, all, force>>
    /\ UNCHANGED <<running, failAt, phase, round>>

\* SetFastSync, called by RollbackPreviousBlocks.
SetFastSync ==
    /\ phase = "idle" /\ ~running
    /\ running' = TRUE
    /\ failAt' \in Range(height)
    /\ UNCHANGED <<chain, moves, local, incoming, orders, all, force, old, phase, round>>

-----------------------------------------------------------------------------
(* The round, and what the thread does when it ends.                       *)

Fail ==
    /\ all' = TRUE /\ running' = FALSE /\ phase' = "idle" /\ round' = Blank
    /\ UNCHANGED failAt

Succeed ==
    /\ all' = FALSE /\ running' = FALSE /\ phase' = "idle" /\ round' = Blank
    /\ UNCHANGED failAt

\* Mutant: the sample stays the sample.
AskAgain ==
    /\ all' = FALSE /\ running' = TRUE /\ phase' = "idle" /\ round' = Blank
    /\ failAt' = round.at

\* inFastSyncFail: the round is repeated with every node.
AskAll ==
    /\ all' = TRUE /\ running' = TRUE /\ phase' = "idle" /\ round' = Blank
    /\ failAt' = round.at

StartHeight == IF failAt > Top(local) THEN Top(local) + 1 ELSE failAt

Begin ==
    /\ phase = "idle" /\ running
    /\ \E net \in {NetHeight} : \E high \in Candidates(net) :
         /\ force' = (~force /\ Top(local) >= net)
         /\ \/ /\ \E asked \in AskedNodes(high) :
                    round' = [Blank EXCEPT !.at = StartHeight, !.net = net, !.asked = asked]
               /\ phase' = "hashes"
               /\ UNCHANGED <<all, running, failAt>>
            \/ AskedNodes(high) = {} /\ Fail
    /\ UNCHANGED <<chain, moves, local, incoming, orders, old>>

\* GetHeightBlockHash: the blocks of the height that are old enough.
OldAt(c) == At(c, round.at) \cap old

\* SendFastSyncGetHashAck.
Reported(p) == OldAt(chain[p])

\* SendFastSyncGetBlockAck: the blocks that a node sends.
Sent(p) == round.req \cap chain[p]

\* The first hash of a set.
First(S) == CHOOSE b \in S : \A c \in S : rank[b] <= rank[c]

Agreed(b, answers) == 100 * Size({p \in answers : b \in Reported(p)}) >= 66 * Size(answers)

\* A block is more than 10 heights below the chain's.
Deep == round.at < round.net /\ round.net - round.at > NoVerify

\* set_difference of the node's blocks and those of one answer.
Difference(reported) == At(local, round.at) \ reported

\* The loop over the reported hashes, in their order.  A disputed block that
\* the node holds ends it.  Each agreed hash before that compares the node's
\* blocks with the first answer alone.
RollbackBlockData(answers, one) ==
    LET hashes == UNION {Reported(p) : p \in answers}
        rare == {b \in hashes \cap local \cap old : ~Agreed(b, answers)}
        seen == {b \in hashes : Agreed(b, answers) /\ \A r \in rare : rank[b] < rank[r]}
        diff == Difference(Reported(one))
    IN  (IF rare = {} THEN {} ELSE {First(rare)})
        \cup (IF seen # {} /\ Deep /\ diff # {} THEN {First(diff)} ELSE {})

\* Mutant: an empty request is sent.
RequestAnything(agreed, holders) ==
    IF holders = {} THEN Fail
    ELSE /\ round' = [round EXCEPT !.asked = holders, !.req = agreed]
         /\ phase' = "data"
         /\ UNCHANGED <<all, running, failAt>>

\* The agreed hashes are requested from the nodes that hold them all.
RequestBlocks(agreed, holders) ==
    IF agreed = {} \/ holders = {} THEN Fail
    ELSE /\ round' = [round EXCEPT !.asked = holders, !.req = agreed]
         /\ phase' = "data"
         /\ UNCHANGED <<all, running, failAt>>

\* _GetFastSyncSumHashNode.  A node without a block at the height gives up as
\* soon as it meets an agreed hash; without one there is nothing to ask for.
GetHashes ==
    /\ phase = "hashes"
    /\ \E answers \in Answering(round.asked) :
         LET agreed == {b \in UNION {Reported(p) : p \in answers} : Agreed(b, answers)}
             holders == {p \in answers : agreed \subseteq Reported(p)}
             high == {p \in answers : round.at <= Top(chain[p])}
         IN  \/ /\ \/ ~EnoughAnswers(answers, round.asked)
                   \/ high = {}
                   \/ At(local, round.at) = {}
                /\ Fail /\ UNCHANGED orders
             \/ /\ EnoughAnswers(answers, round.asked) /\ At(local, round.at) # {}
                /\ \E one \in high :
                     LET back == RollbackBlockData(answers, one)
                     IN  IF back # {} /\ TooFewAsked THEN AskAll /\ UNCHANGED orders
                         ELSE IF back # {} THEN Fail /\ orders' = back
                         ELSE RequestBlocks(agreed, holders) /\ UNCHANGED orders
    /\ UNCHANGED <<chain, moves, local, incoming, force, old>>

\* _GetFastSyncBlockData, one node after the other until one answers.  A node
\* sends what it has of the blocks, and nothing if it has none.
GetData ==
    /\ phase = "data"
    /\ \E p \in round.asked :
         \/ /\ Sent(p) # {}
            /\ incoming' = incoming \cup Sent(p)
            /\ Succeed
         \/ /\ MaxLost > 0 \/ Sent(p) = {}
            /\ IF round.asked = {p} THEN Fail
               ELSE /\ round' = [round EXCEPT !.asked = @ \ {p}]
                    /\ UNCHANGED <<all, running, failAt, phase>>
            /\ UNCHANGED incoming
    /\ UNCHANGED <<chain, moves, local, orders, force, old>>

-----------------------------------------------------------------------------
Sync == Begin \/ GetHashes \/ GetData

Next ==
    \/ Outside /\ UNCHANGED mine
    \/ GrowOld \/ SetFastSync \/ Sync

Spec == Init /\ [][Next]_vars

-----------------------------------------------------------------------------
TypeOK ==
    /\ chain \in [Peers -> PeerChains] /\ local \subseteq Blocks
    /\ incoming \subseteq Blocks /\ orders \subseteq Blocks /\ old \subseteq Blocks
    /\ all \in BOOLEAN /\ force \in BOOLEAN /\ running \in BOOLEAN
    /\ phase \in {"idle", "hashes", "data"} /\ (phase # "idle" => running)
    /\ round.asked \subseteq Peers /\ round.req \subseteq Blocks
    /\ phase = "data" => round.asked # {} /\ round.req # {}

\* A step whose roll-back has a reason: a block that the fast round orders rolled
\* back is one that a node it asked does not hold, or one that is not a minute
\* old and thus not reported.
DissentedRollback ==
    \A b \in orders' \ orders : b \notin old \/ \E p \in round.asked : b \notin chain[p]
=============================================================================
