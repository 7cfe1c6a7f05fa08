----------------------------- MODULE MCNewSync -----------------------------
(***************************************************************************)
(* The new round with five peers that hold b1 beside a1 or do not.         *)
(***************************************************************************)
EXTENDS NewSync, MCTree

MCLocalChains == {{b1}, {a1, b1}, {a1, a2}}
MCPeerChains == {{a1, a2}, {a1, a2, b1}}
MCChains == [Peers -> MCPeerChains]
=============================================================================
