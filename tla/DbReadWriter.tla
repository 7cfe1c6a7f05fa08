---------------------------- MODULE DbReadWriter ----------------------------
(***************************************************************************)
(* DBReadWriter of db/db_api.cpp on RocksDBReadWriter of                   *)
(* db/rocksdb_read_write.cpp.  The indexes of the chain are lists under a  *)
(* key, changed by reading a list, adding or removing a value and writing  *)
(* it back, in a transaction of a rocksdb::TransactionDB.  A key that is   *)
(* read for update stays locked until the transaction ends; waiting for a  *)
(* lock fails after a second.  A list is modelled as a set: MergeValue     *)
(* adds no value twice, an empty list is deleted, and the order is left    *)
(* out.                                                                    *)
(***************************************************************************)

CONSTANTS
    Writers,  \* DBReadWriter objects
    Keys, Values,
    None

ASSUME NoneAssumption == None \notin Writers

VARIABLES
    store,    \* committed lists
    lock,     \* the transaction that has locked each key, or None
    open,     \* transactions under way (txn_ # nullptr)
    view,     \* the lists that a transaction has written
    add, rem  \* history: what each transaction was asked to add and to remove

dbVars == <<store, lock, open, view, add, rem>>

Nothing == [k \in Keys |-> {}]

DbInit ==
    /\ store \in [Keys -> SUBSET Values]
    /\ lock = [k \in Keys |-> None]
    /\ open = {}
    /\ view = [w \in Writers |-> Nothing]
    /\ add = [w \in Writers |-> Nothing] /\ rem = [w \in Writers |-> Nothing]

-----------------------------------------------------------------------------
TransactionInit(w) ==
    /\ w \notin open
    /\ open' = open \cup {w}
    /\ UNCHANGED <<store, lock, view, add, rem>>

\* GetForUpdate succeeds.
ReadForUpdate(w, k) == lock[k] \in {None, w}

\* What it reads.
Current(w, k) == IF lock[k] = w THEN view[w][k] ELSE store[k]

WriteData(w, k, list) ==
    /\ lock' = [lock EXCEPT ![k] = w]
    /\ view' = [view EXCEPT ![w][k] = list]

MergeValue(w, k, v) ==
    /\ w \in open /\ ReadForUpdate(w, k)
    /\ WriteData(w, k, Current(w, k) \cup {v})
    /\ add' = [add EXCEPT ![w][k] = @ \cup {v}]
    /\ rem' = [rem EXCEPT ![w][k] = @ \ {v}]
    /\ UNCHANGED <<store, open>>

RemoveMergeValue(w, k, v) ==
    /\ w \in open /\ ReadForUpdate(w, k)
    /\ WriteData(w, k, Current(w, k) \ {v})
    /\ add' = [add EXCEPT ![w][k] = @ \ {v}]
    /\ rem' = [rem EXCEPT ![w][k] = @ \cup {v}]
    /\ UNCHANGED <<store, open>>

\* Mutant: what was written is not forgotten with the locks.
EndKeepsView(w) ==
    /\ w \in open
    /\ open' = open \ {w}
    /\ lock' = [k \in Keys |-> IF lock[k] = w THEN None ELSE lock[k]]
    /\ UNCHANGED <<view, add, rem>>

\* The transaction is deleted.
End(w) ==
    /\ w \in open
    /\ open' = open \ {w}
    /\ lock' = [k \in Keys |-> IF lock[k] = w THEN None ELSE lock[k]]
    /\ view' = [view EXCEPT ![w] = Nothing]
    /\ add' = [add EXCEPT ![w] = Nothing]
    /\ rem' = [rem EXCEPT ![w] = Nothing]

\* Mutant: a list that has become empty is not deleted.
TransactionCommitKeepsLast(w) ==
    /\ End(w)
    /\ store' = [k \in Keys |->
                    IF lock[k] = w /\ view[w][k] # {} THEN view[w][k] ELSE store[k]]

TransactionCommit(w) ==
    /\ End(w)
    /\ store' = [k \in Keys |-> IF lock[k] = w THEN view[w][k] ELSE store[k]]

\* Also in the destructor: after a commit that failed, after a lock that was
\* not to be had, and whenever the caller returns early.
TransactionRollBack(w) ==
    /\ End(w)
    /\ UNCHANGED store

Write(w) == \E k \in Keys, v \in Values : MergeValue(w, k, v) \/ RemoveMergeValue(w, k, v)

DbNext ==
    \E w \in Writers :
        \/ TransactionInit(w) \/ Write(w)
        \/ TransactionCommit(w) \/ TransactionRollBack(w)

DbSpec == DbInit /\ [][DbNext]_dbVars

-----------------------------------------------------------------------------
\* Type invariant.
DbTypeOK ==
    /\ store \in [Keys -> SUBSET Values]
    /\ lock \in [Keys -> Writers \cup {None}]
    /\ open \in SUBSET Writers
    /\ view \in [Writers -> [Keys -> SUBSET Values]]
    /\ add \in [Writers -> [Keys -> SUBSET Values]]
    /\ rem \in [Writers -> [Keys -> SUBSET Values]]

Atomic == INSTANCE AtomicStore

\* The transactions of several writers change the lists as if each were made
\* in one step when it commits: no change of MergeValue or RemoveMergeValue is
\* lost, none is seen early, and a transaction that is rolled back leaves
\* nothing behind.
AtomicTransactions == Atomic!Spec

\* What a transaction has written is the committed list with its changes, and
\* it has changed only what it has locked.
Isolated ==
    \A w \in Writers, k \in Keys :
        IF lock[k] = w
        THEN view[w][k] = (store[k] \ rem[w][k]) \cup add[w][k]
        ELSE add[w][k] = {} /\ rem[w][k] = {}
=============================================================================
