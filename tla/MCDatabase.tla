----------------------------- MODULE MCDatabase -----------------------------
(***************************************************************************)
(* Two writers change the list of investors of a bonus address and the     *)
(* lists of their outputs.  One output of each investor is needed for the  *)
(* sum to be enough.                                                       *)
(***************************************************************************)
EXTENDS BonusAddrCache, TLC

CONSTANTS w1, w2, i1, i2, u1, addrs

MCWorth == (u1 :> 1)

Symmetry == Permutations(Writers) \cup Permutations(Investors)
=============================================================================
