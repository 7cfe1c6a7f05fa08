------------------------------ MODULE Channel ------------------------------
(***************************************************************************)
(* What a connection promises: what one end sends the other end gets, each *)
(* message whole, once, and in the order of sending.                       *)
(***************************************************************************)
EXTENDS Naturals, Sequences

CONSTANTS Ends, Msgs

VARIABLES
    sent,    \* sent[e]: the messages end e has sent, in order
    got      \* got[e]: those that have arrived at the other end

vars == <<sent, got>>

Init == sent = [e \in Ends |-> <<>>] /\ got = [e \in Ends |-> <<>>]

Send(e) ==
    \E m \in Msgs : sent' = [sent EXCEPT ![e] = Append(@, m)] /\ UNCHANGED got

Deliver(e) ==
    /\ Len(got[e]) < Len(sent[e])
    /\ got' = [got EXCEPT ![e] = Append(@, sent[e][Len(@) + 1])]
    /\ UNCHANGED sent

Next == \E e \in Ends : Send(e) \/ Deliver(e)

Spec == Init /\ [][Next]_vars
=============================================================================
