---------------------------- MODULE MCPackaging ----------------------------
(***************************************************************************)
(* What happens to a transaction before a block is built, for TLC: the     *)
(* dispatcher of contract calls in two scenes, and the cache of ordinary   *)
(* transactions in a third.  Neither depends on the state of the other, so *)
(* a behaviour has steps of one of them.                                   *)
(***************************************************************************)
EXTENDS ContractDispatcher, TransactionCache, TLC

CONSTANTS t1, t2, t3,     \* ordinary transactions
          a, b, c, d, e   \* contracts

VARIABLE scene

\* Call 1 depends on call 2 through call 3.  Calls 4, 5 and 6 make three groups,
\* which two messages cannot hold one each.
MCDeclared == <<{a}, {b}, {a, b}, {c}, {d}, {e}>>

SceneCalls == [chained |-> 1 .. 3, apart |-> 4 .. 6, ordinary |-> {}]

MCHeight == (t1 :> 0) @@ (t2 :> 1) @@ (t3 :> 1)

packVars == <<scene, dispVars, vars>>

\* Peers are interchangeable but for Qualified: the higher ones come first.
Sorted == \A p, q \in Peers : p < q => nodeHeight[p] >= nodeHeight[q]

MCInit ==
    /\ scene \in DOMAIN SceneCalls
    /\ DispInit /\ Init /\ Sorted
    /\ scene # "ordinary" => top = 0 /\ nodeHeight = [p \in Peers |-> 0]

Dispatch ==
    /\ DispNext /\ \A t \in Calls \ SceneCalls[scene] : stage'[t] = "none"
    /\ UNCHANGED <<scene, vars>>
Pack == scene = "ordinary" /\ Next /\ Sorted' /\ UNCHANGED <<scene, dispVars>>

\* One of the three: the thread's rounds, the timers and the tasks.
MCWorks ==
    \/ Round /\ UNCHANGED <<scene, vars>>
    \/ scene = "ordinary" /\ Works /\ UNCHANGED <<scene, dispVars>>
MCTimer == scene = "ordinary" /\ Check /\ UNCHANGED <<scene, dispVars>>
MCFinds == scene = "ordinary" /\ Found /\ UNCHANGED <<scene, dispVars>>

MCSpec ==
    /\ MCInit /\ [][Dispatch \/ Pack]_packVars
    /\ WF_packVars(MCWorks) /\ WF_packVars(MCTimer) /\ SF_packVars(MCFinds)
=============================================================================
