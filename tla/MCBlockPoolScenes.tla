------------------------- MODULE MCBlockPoolScenes -------------------------
(***************************************************************************)
(* Three scenes in one run.  "all": every operation, with a1 and a2.       *)
(* "rivals": a1 and a2 against b1 by broadcast, while time passes.         *)
(* "contracts": k1, k2 and k3 by synchronisation, with a database that may *)
(* fail and roll-back orders for them.                                     *)
(***************************************************************************)
EXTENDS MCBlockPool

VARIABLE scene

Still == INSTANCE BlockPool WITH MaxTime <- 0
Failing == INSTANCE BlockPool WITH
    MaxTime <- 1, DbMayFail <- TRUE, RollbackSets <- {{k1}, {k2, k3}}

\* The blocks of the scene "contracts" are such as RollbackInOrder is about.
ASSUME SceneAssumption == Failing!OneContract /\ Failing!ContractsInOrder

\* Nothing but the blocks S has come in.
OnlyOf(S) ==
    /\ broadcast \cup sync \cup fastSync \cup pending \subseteq S
    /\ {b \in Blocks : hashSince[b] # None} \subseteq S
    /\ {utxoMissing[i] : i \in DOMAIN utxoMissing} \subseteq S
    /\ missing \subseteq ({"block"} \X (S \cup {g})) \cup ({"tx"} \X Utxos)

\* Bound: deliveries that lie in the queues at once.
Queued ==
    Cardinality(broadcast) + Cardinality(sync) + Cardinality(fastSync)
      + Cardinality(pending) + Len(utxoMissing)

ScenesNext ==
    /\ \/ scene = "all" /\ Still!Next /\ OnlyOf({a1, a2})' /\ Queued' <= 3
       \/ scene = "rivals" /\ BroadcastNext /\ OnlyOf({a1, a2, b1})'
       \/ scene = "contracts" /\ Failing!SyncNext /\ OnlyOf({k1, k2, k3})' /\ fastSync' = {}
    /\ UNCHANGED scene

ScenesSpec ==
    /\ Init /\ scene \in {"all", "rivals", "contracts"}
    /\ [][ScenesNext]_<<vars, scene>>
=============================================================================
