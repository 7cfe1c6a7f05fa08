---------------------------- MODULE AtomicStore ----------------------------
(***************************************************************************)
(* What a DBReadWriter promises its users: the lists in the database       *)
(* change only when a transaction commits, and then by exactly what was    *)
(* added and removed in that transaction, applied to the lists as they are *)
(* at that moment.                                                         *)
(***************************************************************************)

CONSTANTS Writers, Keys, Values

VARIABLES
    store,   \* the list of each key, as a set
    add, rem \* what each open transaction will add and remove

vars == <<store, add, rem>>

Nothing == [k \in Keys |-> {}]

Init ==
    /\ store \in [Keys -> SUBSET Values]
    /\ add = [w \in Writers |-> Nothing] /\ rem = [w \in Writers |-> Nothing]

Merge(w, k, v) ==
    /\ add' = [add EXCEPT ![w][k] = @ \cup {v}]
    /\ rem' = [rem EXCEPT ![w][k] = @ \ {v}]
    /\ UNCHANGED store

Remove(w, k, v) ==
    /\ add' = [add EXCEPT ![w][k] = @ \ {v}]
    /\ rem' = [rem EXCEPT ![w][k] = @ \cup {v}]
    /\ UNCHANGED store

Forget(w) ==
    /\ add' = [add EXCEPT ![w] = Nothing]
    /\ rem' = [rem EXCEPT ![w] = Nothing]

Commit(w) ==
    /\ store' = [k \in Keys |-> (store[k] \ rem[w][k]) \cup add[w][k]]
    /\ Forget(w)

RollBack(w) == Forget(w) /\ UNCHANGED store

Next ==
    \E w \in Writers :
        \/ Commit(w) \/ RollBack(w)
        \/ \E k \in Keys, v \in Values : Merge(w, k, v) \/ Remove(w, k, v)

Spec == Init /\ [][Next]_vars
=============================================================================
