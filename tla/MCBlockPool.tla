---------------------------- MODULE MCBlockPool ----------------------------
(***************************************************************************)
(* A small block tree.  a1 and b1 are rivals of height 1 for one output of *)
(* the genesis block, a1 the earlier; a2 follows a1 and spends what a1     *)
(* created; a3 follows a2.  k1, k2 and k3 touch the contract x.  A         *)
(* configuration picks the blocks it uses.                                 *)
(***************************************************************************)
EXTENDS BlockPool, TLC

CONSTANTS g, a1, b1, a2, a3, k1, k2, k3, u1, u2, v1, x

MCSource == [u \in Utxos |-> IF u = v1 THEN a1 ELSE g]

Header(h, t, p, ins, cs) == [h |-> h, t |-> t, p |-> p, ins |-> ins, cs |-> cs]

Tree ==
    (g  :> Header(0, 0, g,  <<>>,       {})) @@
    (a1 :> Header(1, 0, g,  <<<<u1>>>>, {})) @@
    (b1 :> Header(1, 1, g,  <<<<u1>>>>, {})) @@
    (a2 :> Header(2, 1, a1, <<<<v1>>>>, {})) @@
    (a3 :> Header(3, 2, a2, <<<<u2>>>>, {})) @@
    (k1 :> Header(1, 0, g,  <<>>,       {x})) @@
    (k2 :> Header(2, 1, k1, <<>>,       {x})) @@
    (k3 :> Header(2, 0, k1, <<>>,       {x}))

MCHeight == [b \in Blocks |-> Tree[b].h]
MCTime == [b \in Blocks |-> Tree[b].t]
MCPrev == [b \in Blocks \ {g} |-> Tree[b].p]
MCTxs == [b \in Blocks |-> Tree[b].ins]
MCContracts == [b \in Blocks |-> Tree[b].cs]

\* The steps of a node whose blocks come by broadcast and by the hash-seeking
\* protocol only, and form a chain: nothing is synchronised or rolled back, no
\* block has a rival, and none gets to its transactions before its predecessor
\* is saved.
ChainRound == ProcessStart \/ BroadcastStep \/ HashPendingStep \/ NextPhase \/ ProcessExit

ChainSave ==
    \/ SaveBlockSkip \/ PreSaveBroadcast \/ PreSaveTxGood
    \/ SaveBlockWrite \/ PostSaveChild \/ PostSaveDone

ChainNext ==
    \/ Broadcast
    \/ \E b \in New : AddSeekBlock(b)
    \/ SeekBlockThread
    \/ ChainRound \/ ChainSave
    \/ Tick

FairChainSpec == Init /\ [][ChainNext]_vars /\ WF_vars(ChainRound \/ ChainSave)
=============================================================================
