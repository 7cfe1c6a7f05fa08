--------------------------- MODULE MCBlockStroage ---------------------------
(***************************************************************************)
(* The consensus on one packed block of two transactions or of a contract  *)
(* call, and on the block that is built in its place.  Three nodes are     *)
(* asked and two of them, with this one, make the consensus.               *)
(***************************************************************************)
EXTENDS BlockStroage

CONSTANTS b1, b2, b3, n1, n2, n3, t1, t2, c1, pl1, pl2

MCBlocks == {b1, b2, b3}
MCNodes == {n1, n2, n3}
MCTxs == {t1, t2, c1}
MCPacked == {{t1, t2}, {c1}}
MCAsked == {MCNodes}
MCReached == {MCNodes, {n1, n2}}

\* b1 is packed at once, b2 and b3 are left to be built in its place, and only the
\* answers about b1 come in, which refuse t1 or both.
MCNext ==
    /\ Next
    /\ born'[b1] \in {None, 0} /\ place'[b1] \in {None, pl1} /\ parent'[b1] = None
    /\ \A b \in {b2, b3} : parent'[b] = None => born'[b] = None
    /\ born'[b3] # None => born'[b2] # None
    /\ \A m \in mail' \ mail : m[2] = b1 /\ m[4] # {t2} /\ (m[1] = "fail" => m[4] # {})
    /\ born'[b1] = None => now' = 0

MCSpec ==
    /\ Init /\ [][MCNext]_vars /\ WF_vars(Tick)
    /\ \A b \in Blocks : WF_vars(Timer(b)) /\ WF_vars(NewbuildCollect(b))
=============================================================================
