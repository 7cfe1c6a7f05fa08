------------------------ MODULE MCContractPackager ------------------------
(***************************************************************************)
(* A message of three calls, handled by the transaction pool, and one of a *)
(* single call from the node's own dispatcher; or a message of two         *)
(* batches.                                                                *)
(***************************************************************************)
EXTENDS ContractPackager, TLC

CONSTANTS c1, c2, m1, m2, m3

MCDeclared == <<{c1}, {c1, c2}, {c2}, {c1}, {c1}, {c1}>>
MCTouches == <<{c1}, {c2}, {c2}, {c1}, {c1}, {}>>
MCBatches == (m1 :> <<{1, 2, 3}>>) @@ (m2 :> <<{4}>>) @@ (m3 :> <<{5}, {6}>>)
MCMaxSaves == (c1 :> 0) @@ (c2 :> 1)

ASSUME SceneAssumption == GroupsApart

MCNext ==
    /\ Next
    /\ stage'[m3] # "none" => stage'[m1] = "none" /\ stage'[m2] = "none"

MCSpec == Init /\ [][MCNext]_vars /\ WF_vars(Step)
=============================================================================
