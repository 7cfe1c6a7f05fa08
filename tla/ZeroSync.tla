------------------------------ MODULE ZeroSync ------------------------------
(***************************************************************************)
(* The from-zero synchronisation round of ca/sync_block.cpp                *)
(* (_RunFromZeroSyncOnce), for a node far behind.  The chain is fetched in *)
(* spans of sum_hash_range heights, each from another node.  A span's sum  *)
(* hash must be agreed on first, and its blocks must hash to it.  Spans    *)
(* are cached until all of a round's spans are there; a detached thread    *)
(* then gives the cache to the pool.  Spans that failed are asked for      *)
(* again in the next round.                                                *)
(*                                                                         *)
(* A sum hash is the set of the span's blocks.  The round runs while the   *)
(* node is behind (GetSaveSyncType); the thread's other reasons for        *)
(* preferring another kind of round are in SyncThread.                     *)
(***************************************************************************)
EXTENDS SyncBase, Sequences, SequencesExt

CONSTANTS
    Chains, LocalChains,  \* the first chains of the peers and of the node
    Span,                 \* sum_hash_range
    Ahead                 \* the 1000 heights a round reaches ahead at most

StartsOK ==
    /\ LocalChains \subseteq SUBSET Blocks /\ Chains \subseteq [Peers -> PeerChains]
    /\ Span \in Nat \ {0} /\ Ahead \in Nat

VARIABLES
    cache,     \* _syncFromZeroCache: the blocks of each span, by its last height
    reserve,   \* _syncFromZeroReserveHeights
    flushing,  \* the detached thread has not run yet
    phase,     \* where the round is
    round      \* the locals of the running round

mine == <<cache, reserve, flushing, phase, round>>
vars == <<chain, moves, local, incoming, orders, all, force, mine>>

\* The locals: selfNodeHeight, the heights asked for, the nodes, the agreed
\* sums, the answers to look at, the answer at hand with its heights to check,
\* and the heights that succeeded.
Blank == [self |-> 0, want |-> {}, asked |-> {}, sums |-> <<>>, node |-> <<>>,
          got |-> {}, at |-> 0, blocks |-> {}, todo |-> {}, done |-> {}]

Init ==
    /\ chain \in Chains /\ moves = 0 /\ local \in LocalChains
    /\ incoming = {} /\ orders = {} /\ all = FALSE /\ force = FALSE
    /\ cache = <<>> /\ reserve = {} /\ flushing = FALSE /\ phase = "idle" /\ round = Blank

-----------------------------------------------------------------------------
Floor(h) == (h \div Span) * Span
Ceiling(h) == IF h = 0 THEN Span ELSE ((h + Span - 1) \div Span) * Span

SpanOf(c, h) == Between(c, h - Span + 1, h)

\* SendFromZeroSyncGetSumHashAck: whether a node has the sum of a span.
HasSum(c, h) == Complete(c, h - Span + 1, h)

\* GetSaveSyncType.
FarBehind(net) == net > Span /\ Floor(net) - Span > Top(local)

Idle == phase' = "idle" /\ round' = Blank
Fail == all' = TRUE /\ Idle

\* Mutant: the spans are counted from the node's own height.
HeightsFromTop(net, n) ==
    {h \in {Top(local) + 1 + i * Span : i \in 0 .. n - 1} : h <= Floor(net) - Span}

\* A span for each node, from the node's own height, up to the last but one.
NextHeights(net, n) ==
    LET first == Ceiling(Top(local))
    IN  {h \in {first + i * Span : i \in 0 .. n - 1} : h <= Min({Floor(net) - Span, first + Ahead})}

\* ThreadStart drops the cached spans below the node's height, and
\* GetSyncNodeSimplify picks nodes not below it.
Begin ==
    /\ phase = "idle"
    /\ FarBehind(NetHeight)
    /\ cache' = [h \in {k \in DOMAIN cache : k >= Top(local)} |-> cache[h]]
    /\ LET high == {p \in Peers : Top(chain[p]) >= Top(local)}
       IN  \/ \E asked \in AskedNodes(high) :
                /\ round' = [Blank EXCEPT !.self = Top(local), !.asked = asked,
                      !.want = IF reserve # {} THEN reserve
                               ELSE NextHeights(NetHeight, Size(asked))]
                /\ reserve' = {}
                /\ phase' = "sums"
                /\ UNCHANGED all
           \/ AskedNodes(high) = {} /\ Fail /\ UNCHANGED reserve
    /\ UNCHANGED <<chain, moves, local, incoming, orders, force, flushing>>

-----------------------------------------------------------------------------
(* The sum hashes.  The node that reports a sum first is not counted and   *)
(* not asked for blocks.                                                   *)

Sum(p, h) == <<h, SpanOf(chain[p], h)>>
SumsOf(p) == {Sum(p, h) : h \in {k \in round.want : HasSum(chain[p], k)}}

\* Of the answers told, a function from the nodes, the counted reporters of a
\* sum, for an order of arrival.
Counted(told, arrived, s) ==
    LET who == {i \in DOMAIN arrived : s \in told[arrived[i]]}
    IN  {arrived[i] : i \in who \ {Min(who)}}

\* When all nodes were asked, those that know none of the sums count too.
SuccessCount(told) == Size({p \in DOMAIN told : all \/ told[p] # {}})

EnoughSuccesses(told) ==
    IF all THEN SuccessCount(told) >= (80 * Size(round.asked)) \div 100
    ELSE SuccessCount(told) > (66 * Size(round.asked)) \div 100

AgreedSum(told, who) == 100 * Size(who) >= 66 * SuccessCount(told)

\* The loop over the sums, which are in no order that matters here: the sums
\* taken, with their counted reporters.  If all nodes were asked, a disputed sum
\* of the next span makes the node forget the others and take the most reported
\* sum of that span, unless that span's agreed sum came first.
TakenSums(told, arrived) ==
    LET counted == [s \in UNION Range(told) |-> Counted(told, arrived, s)]
        agreed == {s \in DOMAIN counted : AgreedSum(told, counted[s])}
        disputed == {s \in DOMAIN counted \ agreed : all /\ s[1] <= Floor(round.self) + Span}
        settled == {s \in disputed : \E a \in agreed : a[1] = s[1]}
        popular == {s \in DOMAIN counted :
                      /\ \E t \in disputed : t[1] = s[1]
                      /\ \A t \in DOMAIN counted :
                           t[1] = s[1] => Size(counted[s]) >= Size(counted[t])}
    IN  {Restrict(counted, S) :
            S \in {{s} : s \in popular} \cup (IF disputed = settled THEN {agreed} ELSE {})}

\* _GetFromZeroSyncBlockData gives each span to one of the counted reporters,
\* whether it reported that span or not.
GiveOut(taken) ==
    LET heights == {s[1] : s \in DOMAIN taken}
        nodes == UNION Range(taken)
    IN  IF DOMAIN taken = {} \/ Size(nodes) < Size(heights) THEN Fail
        ELSE \E node \in {f \in [heights -> nodes] : IsInjective(f)} :
               /\ round' = [round EXCEPT !.asked = {}, !.node = node,
                    !.sums = [h \in heights |-> (CHOOSE s \in DOMAIN taken : s[1] = h)[2]]]
               /\ phase' = "blocks"
               /\ UNCHANGED all

\* _GetFromZeroSyncSumHashNode.
GetSums ==
    /\ phase = "sums"
    /\ \E answers \in Answering(round.asked) :
       \E told \in {[p \in answers |-> SumsOf(p)]} :
         IF EnoughAnswers(answers, round.asked) /\ EnoughSuccesses(told)
         THEN \E taken \in UNION {TakenSums(told, arrived) : arrived \in SetToSeqs(answers)} :
                GiveOut(taken)
         ELSE Fail
    /\ UNCHANGED <<chain, moves, local, incoming, orders, force, cache, reserve, flushing>>

-----------------------------------------------------------------------------
(* The blocks.                                                             *)

\* SendFromZeroSyncGetBlockAck.
GetBlocks ==
    /\ phase = "blocks"
    /\ LET able == {h \in DOMAIN round.node : HasSum(chain[round.node[h]], h)}
       IN  \E answers \in Answering(able) :
             round' = [round EXCEPT !.node = <<>>,
                          !.got = {<<h, SpanOf(chain[round.node[h]], h)>> : h \in answers}]
    /\ phase' = "check"
    /\ UNCHANGED <<chain, moves, local, incoming, orders, all, force, cache, reserve, flushing>>

\* Mutant: what comes is taken.
HashesToAnything(answer) == TRUE

HashesToSum(answer) == round.sums[answer[1]] = answer[2]

\* One answer is taken up, if it hashes to the agreed sum.
TakeAnswer ==
    /\ phase = "check" /\ round.at = 0
    /\ \E answer \in round.got :
         IF HashesToSum(answer)
         THEN round' = [round EXCEPT !.got = @ \ {answer}, !.at = answer[1],
                 !.blocks = answer[2],
                 !.todo = {h \in answer[1] - Span + 1 .. answer[1] : h <= round.self}]
         ELSE round' = [round EXCEPT !.got = @ \ {answer}]
    /\ UNCHANGED <<chain, moves, local, incoming, orders, all, force>>
    /\ UNCHANGED <<cache, reserve, flushing, phase>>

\* The node's blocks that are not among the agreed ones.
Difference(h) == At(local, h) \ At(round.blocks, h)

\* A height of it that the node should have: the difference is ordered rolled
\* back, in place of what was ordered before.
CheckHeight ==
    /\ phase = "check" /\ round.todo # {}
    /\ LET h == Min(round.todo)
           diff == Difference(h)
       IN  IF At(local, h) = {} \/ (diff # {} /\ TooFewAsked)
           THEN Fail /\ UNCHANGED orders
           ELSE /\ orders' = IF diff = {} THEN orders ELSE diff
                /\ round' = [round EXCEPT !.todo = @ \ {h}]
                /\ UNCHANGED <<all, phase>>
    /\ UNCHANGED <<chain, moves, local, incoming, force, cache, reserve, flushing>>

CacheAnswer ==
    /\ phase = "check" /\ round.at # 0 /\ round.todo = {}
    /\ cache' = [h \in DOMAIN cache \cup {round.at} |->
                    IF h = round.at THEN round.blocks ELSE cache[h]]
    /\ round' = [round EXCEPT !.done = @ \cup {round.at}, !.at = 0, !.blocks = {}]
    /\ UNCHANGED <<chain, moves, local, incoming, orders, all, force, reserve, flushing, phase>>

\* Mutant: a round with some of its spans is good enough.
FinishWithSome ==
    /\ phase = "check" /\ round.at = 0 /\ round.got = {}
    /\ IF round.done = {} THEN Fail /\ UNCHANGED <<reserve, flushing>>
       ELSE /\ reserve' = round.want \ round.done
            /\ flushing' = TRUE /\ all' = FALSE /\ Idle
    /\ UNCHANGED <<chain, moves, local, incoming, orders, force, cache>>

\* Mutant: what was fetched is asked for again.
FinishKeepingAll ==
    /\ phase = "check" /\ round.at = 0 /\ round.got = {}
    /\ IF round.done = {} THEN UNCHANGED reserve ELSE reserve' = round.want
    /\ Fail
    /\ UNCHANGED <<chain, moves, local, incoming, orders, force, cache, flushing>>

\* All answers are checked.  What is left is kept for the next round.
Finish ==
    /\ phase = "check" /\ round.at = 0 /\ round.got = {}
    /\ IF round.done = {} THEN Fail /\ UNCHANGED <<reserve, flushing>>
       ELSE /\ reserve' = round.want \ round.done
            /\ IF reserve' # {} THEN Fail /\ UNCHANGED flushing
               ELSE flushing' = TRUE /\ all' = FALSE /\ Idle
    /\ UNCHANGED <<chain, moves, local, incoming, orders, force, cache>>

\* from_zero_sync_add_thread.
Flush ==
    /\ flushing
    /\ incoming' = incoming \cup UNION Range(cache)
    /\ cache' = <<>>
    /\ flushing' = FALSE
    /\ UNCHANGED <<chain, moves, local, orders, all, force, reserve, phase, round>>

-----------------------------------------------------------------------------
Sync == Begin \/ GetSums \/ GetBlocks \/ TakeAnswer \/ CheckHeight \/ CacheAnswer \/ Finish

Next ==
    \/ Outside /\ UNCHANGED mine
    \/ Sync \/ Flush

Spec == Init /\ [][Next]_vars

-----------------------------------------------------------------------------
TypeOK ==
    /\ chain \in [Peers -> PeerChains] /\ local \subseteq Blocks
    /\ incoming \subseteq Blocks /\ orders \subseteq Blocks
    /\ all \in BOOLEAN /\ flushing \in BOOLEAN
    /\ phase \in {"idle", "sums", "blocks", "check"}
    /\ \A h \in reserve \cup round.want \cup DOMAIN cache : h % Span = 0
    /\ round.done \subseteq round.want /\ DOMAIN round.sums \subseteq round.want

\* Two nodes hold the very blocks of each cached span.
SpansReported ==
    \A h \in DOMAIN cache : Size({p \in Peers : SpanOf(chain[p], h) = cache[h]}) >= 2

\* Each span below one about to be flushed is cached or in the node or its pool.
CacheWithoutGap ==
    flushing => \A h \in DOMAIN cache : \A k \in 1 .. h :
        k % Span = 0 => k \in DOMAIN cache \/ HasSum(local \cup incoming, k)

\* A step whose roll-back has a reason: it is not of a block that all nodes hold.
DissentedRollback ==
    \A b \in orders' \ orders : b \in local /\ \E p \in Peers : b \notin chain[p]
=============================================================================
