------------------------------ MODULE NewSync ------------------------------
(***************************************************************************)
(* One kind of synchronisation round of ca/sync_block.cpp, the "new" one   *)
(* (_RunNewSyncOnce), repeated for ever.  The node asks peers for the sum  *)
(* hash of every height of a window, finds the heights where it differs    *)
(* from what enough of them report, asks for the block hashes of those     *)
(* heights, and then either orders blocks of its own rolled back or        *)
(* fetches the blocks it lacks.  Peers gain and lose blocks between any    *)
(* two requests, and so does the node: the block pool (BlockPool) saves    *)
(* what was fetched and executes the roll-back orders at its own time.     *)
(*                                                                         *)
(* The sum hash of a height is the set of its blocks, a collision-free     *)
(* hash.  A request and its answers are one step, in which any asked peers *)
(* answer with what they hold at that moment; GlobalDataManager models the *)
(* wait.  When a round runs, and with which window, is in SyncThread.      *)
(***************************************************************************)
EXTENDS SyncBase, Sequences, SequencesExt

CONSTANTS
    Chains,       \* the peers' first chains, a set of functions
    LocalChains,  \* the node's first chains
    Cnt           \* syncHeightCnt

StartsOK ==
    /\ LocalChains \subseteq SUBSET Blocks /\ Chains \subseteq [Peers -> PeerChains]
    /\ Cnt \in Nat \ {0}

VARIABLES
    phase,     \* the request the round makes next
    round      \* the locals of the running round

vars == <<chain, moves, local, incoming, orders, all, force, phase, round>>

-----------------------------------------------------------------------------
\* SendSyncGetSumHashAck: no answer at all unless every height can be summed.
AnswersSums(c, s, e) ==
    LET end == IF e > Top(c) THEN Top(c) ELSE e
    IN  s <= Top(c) /\ Complete(c, s, end)

\* The <<height, sum>> pairs of that answer.
Sums(c, s, e) == {<<h, At(c, h)>> : h \in s .. (IF e > Top(c) THEN Top(c) ELSE e)}

\* SendSyncGetHeightHashAck refuses with a code below 0.  A range that ends
\* above the top is cut to one height above it, which has no block.
Refuses(c, s, e) ==
    LET end == IF e > Top(c) THEN Top(c) + 1 ELSE e
    IN  s > end \/ ~Complete(c, s, end)

\* The locals: the window, selfNodeHeight, sendNodeIds and their number, what
\* the sum-hash answers were made from, the pairs to look at, the pair being
\* settled and the height read for it, the heights that differ, chainHeight,
\* retNodeIds, needSyncHeights, and a request for blocks.
Blank == [win |-> <<0, 0>>, self |-> 0, asked |-> {}, sent |-> 0, snap |-> <<>>,
          todo |-> {}, key |-> <<>>, top |-> 0, heights |-> {}, chainH |-> 0,
          ret |-> {}, ranges |-> <<>>, req |-> {}, from |-> {}]

Init ==
    /\ chain \in Chains /\ moves = 0
    /\ local \in LocalChains
    /\ incoming = {} /\ orders = {}
    /\ all = FALSE /\ force = FALSE /\ phase = "idle" /\ round = Blank

-----------------------------------------------------------------------------
(* The round.                                                              *)

Fail ==
    /\ all' = TRUE /\ phase' = "idle" /\ round' = Blank

Succeed ==
    /\ all' = FALSE /\ phase' = "idle" /\ round' = Blank

Order(S) == orders' = S /\ Fail

LowerEnd(h) == IF h > Cnt THEN h - Cnt ELSE 1

\* ThreadStart's window around the node's height.
Begin ==
    /\ phase = "idle"
    /\ \E net \in {NetHeight} : \E high \in Candidates(net) :
         /\ force' = (~force /\ Top(local) >= net)
         /\ \/ /\ \E asked \in AskedNodes(high), up \in {1, Cnt} :
                    round' = [Blank EXCEPT
                                !.win = <<LowerEnd(Top(local)), Top(local) + up>>,
                                !.self = Top(local), !.asked = asked]
               /\ phase' = "sums"
               /\ UNCHANGED all
            \/ AskedNodes(high) = {} /\ Fail
    /\ UNCHANGED <<chain, moves, local, incoming, orders>>

VerifyNum(n) == (66 * n) \div 100

\* The height that all but about a third of the answering nodes have reached.
ChainHeight(snap) ==
    Quantile([p \in DOMAIN snap |-> Top(snap[p])], VerifyNum(Size(DOMAIN snap)))

\* The sum-hash request; retNodeIds and retNodeTops are in snap.
GetSums ==
    /\ phase = "sums"
    /\ LET able == {p \in round.asked : AnswersSums(chain[p], round.win[1], round.win[2])}
       IN  \E answers \in Answering(able) :
             IF answers = {} \/ Size(answers) < Size(round.asked) \div 2
             THEN Fail
             ELSE LET snap == [p \in answers |-> chain[p]]
                  IN  /\ round' = [round EXCEPT
                             !.asked = {}, !.sent = Size(round.asked), !.ret = answers,
                             !.snap = snap, !.chainH = ChainHeight(snap),
                             !.todo = UNION {Sums(snap[p], round.win[1], round.win[2]) :
                                                p \in answers}]
                      /\ phase' = "keys"
                      /\ UNCHANGED all
    /\ UNCHANGED <<chain, moves, local, incoming, orders, force>>

\* The nodes that reported a <<height, sum>> pair.
Reporters(k) ==
    {p \in DOMAIN round.snap : k \in Sums(round.snap[p], round.win[1], round.win[2])}

\* The pairs of a height that most nodes reported: nodeLists.at(0) is one.
MostForks(h) ==
    LET pairs == {<<h, At(round.snap[p], h)>> :
                     p \in {q \in DOMAIN round.snap : h <= Top(round.snap[q])}}
    IN  {m \in pairs : \A o \in pairs : Size(Reporters(m)) >= Size(Reporters(o))}

\* The end of the loop over the pairs: a height that differs is noted.
Compare(k) ==
    /\ round' = [round EXCEPT !.todo = @ \ {k}, !.key = <<>>, !.req = {}, !.from = {},
                    !.heights = IF At(local, k[1]) = k[2] THEN @ ELSE @ \cup {k[1]}]
    /\ phase' = "keys"
    /\ UNCHANGED all

Skip(k) == round' = [round EXCEPT !.todo = @ \ {k}] /\ UNCHANGED <<all, phase>>

Answers == Size(round.ret)
Undecided(m) ==
    /\ 100 * Size(Reporters(m)) < 51 * Answers
    /\ 100 * Answers >= 80 * round.sent
    /\ m[1] <= Top(local)
Decided(m) ==
    /\ 100 * Size(Reporters(m)) >= 51 * Answers
    /\ 100 * Answers > 80 * round.sent
    /\ m[1] <= Top(local) + 1

\* One pair of _GetSyncSumHashNode's loop.  A pair that too few nodes report
\* ends a round that asked some nodes only.  In a round that asked all, the
\* node's blocks of an undecided height go, if older than a minute, and a
\* decided height that the node does not have is settled first.
KeyAgreed(k) ==
    /\ Size(Reporters(k)) >= VerifyNum(Answers)
    /\ Compare(k)
    /\ UNCHANGED orders

KeySample(k) ==
    /\ Size(Reporters(k)) < VerifyNum(Answers) /\ ~all
    /\ Fail
    /\ UNCHANGED orders

KeyDisputed(k) ==
    /\ Size(Reporters(k)) < VerifyNum(Answers) /\ all
    /\ \E m \in MostForks(k[1]) :
         \/ /\ Undecided(m)
            /\ \/ At(local, k[1]) = {} /\ Skip(k) /\ UNCHANGED orders
               \/ At(local, k[1]) # {} /\ Compare(k) /\ UNCHANGED orders
               \/ \E old \in SUBSET At(local, k[1]) : old # {} /\ Order(old)
         \/ /\ Decided(m)
            /\ IF At(local, k[1]) = m[2]
               THEN Compare(k)
               ELSE /\ round' = [round EXCEPT !.key = k, !.top = Top(local),
                                              !.from = Reporters(m)]
                    /\ phase' = "fork"
                    /\ UNCHANGED all
            /\ UNCHANGED orders
         \/ ~Undecided(m) /\ ~Decided(m) /\ Skip(k) /\ UNCHANGED orders

\* The pairs are sorted by their height's decimal digits, which is the order of
\* the heights as long as they have equally many.
Key ==
    /\ phase = "keys"
    /\ \E k \in {l \in round.todo : \A o \in round.todo : l[1] <= o[1]} :
         KeyAgreed(k) \/ KeySample(k) \/ KeyDisputed(k)
    /\ UNCHANGED <<chain, moves, local, incoming, force>>

\* Mutant: the difference the other way round.
GivenUpSwapped(mine, theirs) == theirs \ mine

\* set_difference: the node's blocks that the answers do not name.
GivenUp(mine, theirs) == mine \ theirs

\* _GetSyncBlockBySumHashNode: the nodes of the most common fork must agree on
\* the height's blocks; the list used is that of the answer that came last,
\* which is empty when that answer was a refusal.
GetFork ==
    /\ phase = "fork"
    /\ LET h == round.key[1]
           mine == At(local, h)
       IN  \E answers \in Answering(round.from) :
             LET good == {p \in answers : ~Refuses(chain[p], h, h)}
                 lists == {At(chain[p], h) : p \in good}
                 knew == h <= round.top
             IN  IF ~EnoughAnswers(answers, round.from) \/ Size(lists) # 1 \/ (knew /\ mine = {})
                 THEN Fail /\ UNCHANGED orders
                 ELSE \E last \in answers :
                        LET list == IF last \in good THEN At(chain[last], h) ELSE {}
                            need == list \ (IF knew THEN mine ELSE {})
                        IN  \/ \E old \in SUBSET GivenUp(mine, list) :
                                 knew /\ old # {} /\ Order(old)
                            \/ need = {} /\ Compare(round.key) /\ UNCHANGED orders
                            \/ /\ need # {}
                               /\ round' = [round EXCEPT !.req = need]
                               /\ phase' = "data"
                               /\ UNCHANGED <<all, orders>>
    /\ UNCHANGED <<chain, moves, local, incoming, force>>

\* The merging loop over the heights that differ.  A height after a gap ends
\* the range before the gap and is itself left out.
MergeHeight(acc, h) ==
    IF acc.start = -1 THEN [acc EXCEPT !.start = h, !.end = h]
    ELSE IF h = acc.end + 1 THEN [acc EXCEPT !.end = h]
    ELSE [start |-> -1, end |-> -1, out |-> acc.out \cup {<<acc.start, acc.end>>}]

MergeHeights(hs) ==
    LET acc == FoldLeft(MergeHeight, [start |-> -1, end |-> -1, out |-> {}],
                        SetToSortSeq(hs, <))
    IN  IF acc.start = -1 THEN acc.out ELSE acc.out \cup {<<acc.start, acc.end>>}

\* std::map::insert: the first range with a start stays.
AddRange(rs, s, e) == IF \E r \in rs : r[1] = s THEN rs ELSE rs \cup {<<s, e>>}

\* needSyncHeights: near the top of the chain the last heights are added.  The
\* unsigned chainHeight - 10 wraps on a chain shorter than that.
NeedSyncHeights(hs, win, chainH) ==
    LET rs == MergeHeights(hs)
    IN  IF chainH < NoVerify \/ win[2] < chainH - NoVerify THEN rs
        ELSE IF chainH = NoVerify THEN AddRange(rs, 1, chainH + NoVerify)
        ELSE AddRange(AddRange(rs, chainH - NoVerify, chainH), chainH, chainH + NoVerify)

\* The ranges, in the order of the map; none left ends the round.
Continue(rs) ==
    IF rs = <<>> THEN Succeed
    ELSE /\ round' = [Blank EXCEPT !.self = round.self, !.chainH = round.chainH,
                                   !.ret = round.ret, !.ranges = rs]
         /\ phase' = "hashes"
         /\ UNCHANGED all

KeysDone ==
    /\ phase = "keys" /\ round.todo = {}
    /\ Continue(SetToSortSeq(NeedSyncHeights(round.heights, round.win, round.chainH),
                             LAMBDA r, q : r[1] < q[1]))
    /\ UNCHANGED <<chain, moves, local, incoming, orders, force>>

\* _GetSyncBlockHashNode's comparison with chainHeight - 10, unsigned.
BelowUnverified(h) == round.chainH < NoVerify \/ h < round.chainH - NoVerify

\* The second one, which does not wrap.
DeepBelow(h) == h < round.chainH /\ round.chainH - h > NoVerify

Trusted(votes, succ) == votes >= (succ \div 5) * 4

\* _GetSyncBlockHashNode for one range.
GetHashes ==
    /\ phase = "hashes"
    /\ LET asked == round.ret
           s == Head(round.ranges)[1]
           e == Head(round.ranges)[2]
           upto == IF e > round.self THEN round.self ELSE e
       IN  \E answers \in Answering(asked) :
             LET good == {p \in answers : ~Refuses(chain[p], s, e)}
                 holders(b) == {p \in good : b \in chain[p]}
                 reported == UNION {Between(chain[p], s, e) : p \in good}
                 trusted == {b \in reported : Trusted(Size(holders(b)), Size(good))}
                 rare == {b \in (reported \ trusted) \cap local : BelowUnverified(height[b])}
                 unknown == {b \in GivenUp(Between(local, s, upto), reported) :
                                 DeepBelow(height[b])}
                 missing == trusted \ local
             IN  IF ~EnoughAnswers(answers, asked) \/ ~Complete(local, s, upto)
                 THEN Fail /\ UNCHANGED orders
                 ELSE IF rare \cup unknown # {}
                 THEN IF TooFewAsked
                      THEN Fail /\ UNCHANGED orders
                      ELSE Order(rare \cup unknown)
                 ELSE /\ UNCHANGED orders
                      /\ IF missing = {} THEN Continue(Tail(round.ranges))
                         ELSE \E first \in missing :
                                /\ round' = [round EXCEPT !.req = missing,
                                                          !.from = holders(first)]
                                /\ phase' = "data"
                                /\ UNCHANGED all
    /\ UNCHANGED <<chain, moves, local, incoming, force>>

\* _GetSyncBlockData: a node answers only if it holds all requested blocks.
GetData ==
    /\ phase = "data"
    /\ \E answers \in Answering({p \in round.from : round.req \subseteq chain[p]}) :
         IF answers = {} THEN Fail /\ UNCHANGED incoming
         ELSE /\ incoming' = incoming \cup round.req
              /\ IF round.key # <<>> THEN Compare(round.key)
                 ELSE Continue(Tail(round.ranges))
    /\ UNCHANGED <<chain, moves, local, orders, force>>

-----------------------------------------------------------------------------
Sync == Begin \/ GetSums \/ Key \/ KeysDone \/ GetFork \/ GetHashes \/ GetData

Next ==
    \/ Outside /\ UNCHANGED <<phase, round>>
    \/ Sync

Spec == Init /\ [][Next]_vars

-----------------------------------------------------------------------------
TypeOK ==
    /\ chain \in [Peers -> PeerChains] /\ local \subseteq Blocks
    /\ incoming \subseteq Blocks /\ orders \subseteq Blocks /\ all \in BOOLEAN
    /\ force \in BOOLEAN /\ moves \in 0 .. MaxMoves
    /\ phase \in {"idle", "sums", "keys", "fork", "hashes", "data"}
    /\ round.asked \subseteq Peers /\ round.ret \subseteq Peers
    /\ round.from \subseteq round.ret
    /\ round.req \subseteq Blocks
    /\ phase = "sums" => round.win[1] \in Nat \ {0} /\ round.win[2] >= round.win[1]

\* The nodes that were asked for block hashes, and whether one of them refuses.
AskedForHashes == IF phase = "fork" THEN round.from ELSE round.ret
SomeRefusal ==
    phase \in {"fork", "hashes"} /\ \E p \in AskedForHashes :
        IF phase = "fork" THEN Refuses(chain[p], round.key[1], round.key[1])
        ELSE Refuses(chain[p], Head(round.ranges)[1], Head(round.ranges)[2])

\* A step that gives no block up against everybody: when the node compares block
\* hashes and none of the asked nodes refuses the range, a block it orders
\* rolled back is one that at least one of them does not hold.  (With a single
\* node to ask the quorum is 0, and the node decides without an answer.)
DissentedRollback ==
    ~SomeRefusal /\ Size(AskedForHashes) > 1 /\ phase \in {"fork", "hashes"} =>
        \A b \in orders' \ orders : \E p \in AskedForHashes : b \notin chain[p]

\* The blocks that at least four fifths of the nodes hold.
Agreed == {b \in Blocks : 5 * Size({p \in Peers : b \in chain[p]}) >= 4 * Size(Peers)}

\* What _GetSyncBlockHashNode fetches is what more than 60% of the answers
\* name (no answer being lost).
FetchedHashesTrusted ==
    [][phase = "hashes" =>
         LET r == Head(round.ranges)
             good == {p \in round.ret : ~Refuses(chain[p], r[1], r[2])}
         IN  \A b \in round'.req :
                10 * Size({p \in good : b \in chain[p]}) > 6 * Size(good)]_vars
=============================================================================
