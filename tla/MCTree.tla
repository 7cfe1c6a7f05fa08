------------------------------- MODULE MCTree -------------------------------
(***************************************************************************)
(* The blocks of the runs of the synchronisation rounds: the main chain a1 *)
(* to a6 with a rival b1 of a1, a rival b2 of a2 and a rival b3 of a3.     *)
(***************************************************************************)
EXTENDS Integers, FiniteSets, TLC

CONSTANTS g, a1, a2, a3, a4, a5, a6, b1, b2, b3, p1, p2, p3, p4, p5

Tree == (a1 :> <<1, g>>) @@ (a2 :> <<2, a1>>) @@ (a3 :> <<3, a2>>) @@ (a4 :> <<4, a3>>)
        @@ (a5 :> <<5, a4>>) @@ (a6 :> <<6, a5>>)
        @@ (b1 :> <<1, g>>) @@ (b2 :> <<2, a1>>) @@ (b3 :> <<3, a2>>)

HeightIn(blocks) == [b \in blocks |-> Tree[b][1]]
PrevIn(blocks) == [b \in blocks |-> Tree[b][2]]

MCBlocks == DOMAIN Tree
MCHeight == HeightIn(MCBlocks)
MCPrev == PrevIn(MCBlocks)

\* The first n blocks of the main chain.
Main(n) == {b \in {a1, a2, a3, a4, a5, a6} : Tree[b][1] <= n}

\* The two lowest heights, where the forks of the smaller runs are.
Low == {a1, a2, b1}
LowHeight == HeightIn(Low)
LowPrev == PrevIn(Low)
LowRank == (b1 :> 1) @@ (a1 :> 2) @@ (a2 :> 3)
=============================================================================
