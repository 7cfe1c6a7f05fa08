--------------------------- MODULE DatabaseProofs ---------------------------
(***************************************************************************)
(* DbReadWriter implements AtomicStore, for any sets of writers, keys and  *)
(* values; and BonusAddrCache, which reads that database, sees enough when *)
(* enough is invested, for any investors and outputs.                      *)
(*                                                                         *)
(* The database: what a transaction has written is what is committed with  *)
(* its changes (Isolated), because it writes only what it has locked.      *)
(*                                                                         *)
(* The cache: while getAmount runs and nothing is committed, what it has   *)
(* added up and what is left to add make the sum in the database           *)
(* (ReadsAll).  That needs the sum over a finite set to be the same in     *)
(* every order, which is shown of the library's fold first.                *)
(***************************************************************************)
EXTENDS BonusAddrCache, FiniteSetTheorems, WellFoundedInduction, TLAPS

\* Most leaves are first-order; those with arithmetic, sequences or records name SMT.
USE Zenon

-----------------------------------------------------------------------------
(* Transactions.                                                           *)

IInv == DbTypeOK /\ Isolated

\* The initial database has no transaction, hence nothing to isolate.
LEMMA InitIsolated == DbInit => IInv
<1> SUFFICES ASSUME DbInit PROVE IInv
    OBVIOUS
<1>1. Nothing \in [Keys -> SUBSET Values]
    BY DEF Nothing
<1>2. DbTypeOK
    BY <1>1 DEF DbInit, DbTypeOK
<1>3. Isolated
    <2> SUFFICES ASSUME NEW w \in Writers, NEW k \in Keys
                 PROVE  lock[k] # w /\ add[w][k] = {} /\ rem[w][k] = {}
        BY DEF Isolated
    <2> QED BY NoneAssumption DEF DbInit, Nothing
<1> QED BY <1>2, <1>3 DEF IInv

\* WriteData of MergeValue and RemoveMergeValue, with the change recorded: a
\* list that is the committed one with the changes of its transaction stays so.
LEMMA WriteIsolated ==
    ASSUME IInv, NEW w \in Writers, NEW k \in Keys, NEW v \in Values,
           w \in open, ReadForUpdate(w, k),
           MergeValue(w, k, v) \/ RemoveMergeValue(w, k, v)
    PROVE  IInv'
<1> USE DEF IInv
<1>1. Current(w, k) \in SUBSET Values
    BY SMT DEF Current, DbTypeOK
<1>2. DbTypeOK'
    <2>0. PICK list \in SUBSET Values, plus \in SUBSET Values, minus \in SUBSET Values :
            /\ store' = store /\ open' = open
            /\ lock' = [lock EXCEPT ![k] = w]
            /\ view' = [view EXCEPT ![w][k] = list]
            /\ add' = [add EXCEPT ![w][k] = plus]
            /\ rem' = [rem EXCEPT ![w][k] = minus]
        <3>1. CASE MergeValue(w, k, v)
            <4>1. /\ Current(w, k) \cup {v} \in SUBSET Values
                  /\ add[w][k] \cup {v} \in SUBSET Values
                  /\ rem[w][k] \ {v} \in SUBSET Values
                BY SMT, <1>1 DEF DbTypeOK
            <4> USE <4>1
            <4> WITNESS Current(w, k) \cup {v} \in SUBSET Values,
                        add[w][k] \cup {v} \in SUBSET Values,
                        rem[w][k] \ {v} \in SUBSET Values
            <4> QED BY <3>1 DEF MergeValue, WriteData
        <3>2. CASE RemoveMergeValue(w, k, v)
            <4>1. /\ Current(w, k) \ {v} \in SUBSET Values
                  /\ add[w][k] \ {v} \in SUBSET Values
                  /\ rem[w][k] \cup {v} \in SUBSET Values
                BY SMT, <1>1 DEF DbTypeOK
            <4> USE <4>1
            <4> WITNESS Current(w, k) \ {v} \in SUBSET Values,
                        add[w][k] \ {v} \in SUBSET Values,
                        rem[w][k] \cup {v} \in SUBSET Values
            <4> QED BY <3>2 DEF RemoveMergeValue, WriteData
        <3> QED BY <3>1, <3>2
    <2> QED BY <2>0 DEF DbTypeOK
<1>3. Current(w, k) = (store[k] \ rem[w][k]) \cup add[w][k]
    BY NoneAssumption DEF Current, Isolated, DbTypeOK, ReadForUpdate
<1>4. Isolated'
    <2> SUFFICES ASSUME NEW u \in Writers, NEW j \in Keys
                 PROVE  IF lock'[j] = u
                        THEN view'[u][j] = (store'[j] \ rem'[u][j]) \cup add'[u][j]
                        ELSE add'[u][j] = {} /\ rem'[u][j] = {}
        BY DEF Isolated
    <2>0. /\ store' = store /\ lock' = [lock EXCEPT ![k] = w]
          /\ lock \in [Keys -> Writers \cup {None}]
          /\ view \in [Writers -> [Keys -> SUBSET Values]]
          /\ add \in [Writers -> [Keys -> SUBSET Values]]
          /\ rem \in [Writers -> [Keys -> SUBSET Values]]
        BY DEF DbTypeOK, MergeValue, RemoveMergeValue, WriteData
    <2>1. CASE j # k
        <3>1. /\ lock'[j] = lock[j] /\ view'[u][j] = view[u][j]
              /\ add'[u][j] = add[u][j] /\ rem'[u][j] = rem[u][j]
            <4>1. CASE MergeValue(w, k, v)
                BY <2>0, <2>1, <4>1 DEF MergeValue, WriteData
            <4>2. CASE RemoveMergeValue(w, k, v)
                BY <2>0, <2>1, <4>2 DEF RemoveMergeValue, WriteData
            <4> QED BY <4>1, <4>2
        <3> QED BY SMT, <3>1, <2>0 DEF Isolated
    <2>2. CASE j = k /\ u # w
        <3>1. lock'[j] = w /\ add'[u][j] = add[u][j] /\ rem'[u][j] = rem[u][j]
            BY <2>0, <2>2 DEF MergeValue, RemoveMergeValue
        <3>2. lock[k] # u
            BY <2>2, NoneAssumption DEF ReadForUpdate
        <3> QED BY <3>1, <3>2, <2>2 DEF Isolated
    <2>3. CASE j = k /\ u = w
        <3>0. lock'[k] = w
            BY <2>0
        <3>1. CASE MergeValue(w, k, v)
            <4>1. /\ view'[w][k] = Current(w, k) \cup {v}
                  /\ add'[w][k] = add[w][k] \cup {v} /\ rem'[w][k] = rem[w][k] \ {v}
                BY <2>0, <3>1 DEF MergeValue, WriteData
            <4> QED BY <4>1, <3>0, <2>0, <2>3, <1>3
        <3>2. CASE RemoveMergeValue(w, k, v)
            <4>1. /\ view'[w][k] = Current(w, k) \ {v}
                  /\ add'[w][k] = add[w][k] \ {v} /\ rem'[w][k] = rem[w][k] \cup {v}
                BY <2>0, <3>2 DEF RemoveMergeValue, WriteData
            <4> QED BY <4>1, <3>0, <2>0, <2>3, <1>3
        <3> QED BY <3>1, <3>2
    <2> QED BY <2>1, <2>2, <2>3
<1> QED BY <1>2, <1>4

\* The end of a transaction leaves the others isolated: they hold other locks,
\* and the committed lists under those do not change.
LEMMA EndIsolated ==
    ASSUME IInv, NEW w \in Writers, TransactionCommit(w) \/ TransactionRollBack(w)
    PROVE  IInv'
<1> USE DEF IInv
<1>0. /\ lock' = [k \in Keys |-> IF lock[k] = w THEN None ELSE lock[k]]
      /\ view' = [view EXCEPT ![w] = Nothing]
      /\ add' = [add EXCEPT ![w] = Nothing] /\ rem' = [rem EXCEPT ![w] = Nothing]
      /\ open' = open \ {w}
    BY DEF TransactionCommit, TransactionRollBack, End
<1>1. Nothing \in [Keys -> SUBSET Values] /\ \A k \in Keys : Nothing[k] = {}
    BY DEF Nothing
<1>2. store' \in [Keys -> SUBSET Values] /\ \A k \in Keys : lock[k] # w => store'[k] = store[k]
    BY SMT DEF TransactionCommit, TransactionRollBack, DbTypeOK
<1>3. DbTypeOK'
    BY <1>0, <1>1, <1>2 DEF DbTypeOK
<1>4. Isolated'
    <2> SUFFICES ASSUME NEW u \in Writers, NEW k \in Keys
                 PROVE  IF lock'[k] = u
                        THEN view'[u][k] = (store'[k] \ rem'[u][k]) \cup add'[u][k]
                        ELSE add'[u][k] = {} /\ rem'[u][k] = {}
        BY DEF Isolated
    <2>1. CASE u = w
        BY <2>1, <1>0, <1>1, NoneAssumption DEF DbTypeOK
    <2>2. CASE u # w
        <3>1. /\ view'[u] = view[u] /\ add'[u] = add[u] /\ rem'[u] = rem[u]
              /\ lock'[k] = u <=> lock[k] = u
            BY SMT, <2>2, <1>0, NoneAssumption DEF DbTypeOK
        <3> QED BY SMT, <3>1, <2>2, <1>2 DEF Isolated
    <2> QED BY <2>1, <2>2
<1> QED BY <1>3, <1>4

\* Every step keeps transactions isolated.
LEMMA NextIsolated == IInv /\ [DbNext]_dbVars => IInv'
<1> SUFFICES ASSUME IInv, [DbNext]_dbVars PROVE IInv'
    OBVIOUS
<1>1. CASE UNCHANGED dbVars
    BY <1>1 DEF dbVars, IInv, DbTypeOK, Isolated
<1>2. ASSUME NEW w \in Writers, TransactionInit(w) PROVE IInv'
    BY <1>2 DEF TransactionInit, IInv, DbTypeOK, Isolated
<1>3. ASSUME NEW w \in Writers, Write(w) PROVE IInv'
    <2>1. PICK k \in Keys, v \in Values : MergeValue(w, k, v) \/ RemoveMergeValue(w, k, v)
        BY <1>3 DEF Write
    <2>2. w \in open /\ ReadForUpdate(w, k)
        BY <2>1 DEF MergeValue, RemoveMergeValue
    <2> QED BY <2>1, <2>2, WriteIsolated
<1>4. ASSUME NEW w \in Writers, TransactionCommit(w) \/ TransactionRollBack(w) PROVE IInv'
    BY <1>4, EndIsolated
<1> QED BY <1>1, <1>2, <1>3, <1>4 DEF DbNext

\* What a transaction of DBReadWriter has written under a lock is the committed
\* list with its changes, and it has changed nothing that it has not locked.
THEOREM TransactionsIsolated == DbSpec => []Isolated
<1>1. IInv => Isolated
    BY DEF IInv
<1> QED BY InitIsolated, NextIsolated, <1>1, PTL DEF DbSpec

\* The initial states are initial states of AtomicStore.
LEMMA InitImplements == DbInit => Atomic!Init
    BY DEF DbInit, Atomic!Init, Nothing, Atomic!Nothing

\* Every step of DBReadWriter is a step of AtomicStore or leaves its state.
LEMMA StepImplements == IInv /\ [DbNext]_dbVars => [Atomic!Next]_Atomic!vars
<1> SUFFICES ASSUME IInv, [DbNext]_dbVars PROVE [Atomic!Next]_Atomic!vars
    OBVIOUS
<1>1. CASE UNCHANGED dbVars
    BY <1>1 DEF dbVars, Atomic!vars
<1>2. ASSUME NEW w \in Writers, TransactionInit(w) PROVE UNCHANGED Atomic!vars
    BY <1>2 DEF TransactionInit, Atomic!vars
<1>3. ASSUME NEW w \in Writers, Write(w) PROVE Atomic!Next
    <2>1. PICK k \in Keys, v \in Values : MergeValue(w, k, v) \/ RemoveMergeValue(w, k, v)
        BY <1>3 DEF Write
    <2>2. Atomic!Merge(w, k, v) \/ Atomic!Remove(w, k, v)
        BY <2>1 DEF MergeValue, RemoveMergeValue, Atomic!Merge, Atomic!Remove
    <2> QED BY <2>2 DEF Atomic!Next
<1>4. ASSUME NEW w \in Writers, TransactionCommit(w) PROVE Atomic!Next
    <2>1. ASSUME NEW k \in Keys
          PROVE (IF lock[k] = w THEN view[w][k] ELSE store[k])
                    = (store[k] \ rem[w][k]) \cup add[w][k]
        BY DEF IInv, Isolated
    <2>2. store' = [k \in Keys |-> (store[k] \ rem[w][k]) \cup add[w][k]]
        BY <1>4, <2>1 DEF TransactionCommit
    <2>3. Atomic!Forget(w)
        BY <1>4 DEF TransactionCommit, End, Atomic!Forget, Nothing, Atomic!Nothing
    <2> QED BY <2>2, <2>3 DEF Atomic!Next, Atomic!Commit
<1>5. ASSUME NEW w \in Writers, TransactionRollBack(w) PROVE Atomic!Next
    <2>1. Atomic!Forget(w) /\ store' = store
        BY <1>5 DEF TransactionRollBack, End, Atomic!Forget, Nothing, Atomic!Nothing
    <2> QED BY <2>1 DEF Atomic!Next, Atomic!RollBack
<1> QED BY <1>1, <1>2, <1>3, <1>4, <1>5 DEF DbNext

\* DBReadWriter's transactions are atomic: it implements AtomicStore.
THEOREM Implements == DbSpec => AtomicTransactions
<1> QED BY InitIsolated, NextIsolated, InitImplements, StepImplements, PTL
        DEF DbSpec, AtomicTransactions, Atomic!Spec

-----------------------------------------------------------------------------
(* Sums over finite sets.  The library's fold is a recursive function that *)
(* takes the elements in the order of CHOOSE; getAmount takes them in      *)
(* whatever order the list has.  Induction is by a least counterexample.   *)

\* Of some subsets of a finite set, one has no other below it.
LEMMA Smallest ==
  ASSUME NEW S, IsFiniteSet(S), NEW T \in SUBSET (SUBSET S), T # {}
  PROVE  \E x \in T : \A y \in SUBSET x : y # x => y \notin T
<1> DEFINE R == StrictSubsetOrdering(S)
<1>1. IsWellFoundedOn(R, SUBSET S)
  BY FS_FiniteSubsetsOfFinite, FS_StrictSubsetOrderingWellFounded
<1>2. \A x, y \in SUBSET S : y \subseteq x /\ y # x => <<y, x>> \in R
  BY DEF StrictSubsetOrdering
<1> HIDE DEF R
<1>3. PICK x \in T : \A y \in T : ~ (<<y, x>> \in R)
  BY <1>1, WFMin
<1> QED BY <1>2, <1>3

Pick(s) == CHOOSE x \in s : TRUE

\* What the fold makes of a set, given what it makes of smaller ones.
Fold(f, g, s) == IF s = {} THEN 0 ELSE f[Pick(s)] + g[s \ {Pick(s)}]

\* The functions that fold the subsets of a set.
Sums(f, T) == {g \in [SUBSET T -> Int] : \A s \in SUBSET T : g[s] = Fold(f, g, s)}

\* Two of them agree.
LEMMA SumsAgree ==
  ASSUME NEW f, NEW A, NEW B, NEW g \in Sums(f, A), NEW h \in Sums(f, B),
         NEW S, IsFiniteSet(S), S \subseteq A, S \subseteq B
  PROVE  g[S] = h[S]
<1> DEFINE Bad == {s \in SUBSET S : g[s] # h[s]}
<1> SUFFICES ASSUME Bad # {} PROVE FALSE
  OBVIOUS
<1>0. Bad \in SUBSET (SUBSET S)
  OBVIOUS
<1>1. PICK s \in Bad : \A y \in SUBSET s : y # s => y \notin Bad
  <2> HIDE DEF Bad
  <2> QED BY <1>0, Smallest
<1>2. s \in SUBSET S /\ s \in SUBSET A /\ s \in SUBSET B /\ g[s] # h[s]
  BY <1>1
<1>3. g[s] = Fold(f, g, s) /\ h[s] = Fold(f, h, s)
  BY <1>2 DEF Sums
<1>4. s # {}
  BY <1>2, <1>3 DEF Fold
<1>5. Pick(s) \in s
  BY <1>4 DEF Pick
<1> DEFINE y == s \ {Pick(s)}
<1>6. y \in SUBSET s /\ y # s /\ y \in SUBSET S
  BY <1>2, <1>5
<1>7. g[y] = h[y]
  BY <1>1, <1>6
<1> QED BY <1>2, <1>3, <1>4, <1>7 DEF Fold

\* There is one for each finite set.
LEMMA SumsExist ==
  ASSUME NEW S, IsFiniteSet(S), NEW f, \A x \in S : f[x] \in Int
  PROVE  Sums(f, S) # {}
<1> DEFINE Bad == {T \in SUBSET S : Sums(f, T) = {}}
<1> SUFFICES ASSUME Bad # {} PROVE FALSE
  OBVIOUS
<1>0. Bad \in SUBSET (SUBSET S)
  OBVIOUS
<1>1. PICK T \in Bad : \A y \in SUBSET T : y # T => y \notin Bad
  <2> HIDE DEF Bad
  <2> QED BY <1>0, Smallest
<1>2. T \in SUBSET S /\ Sums(f, T) = {} /\ \A y \in SUBSET T : y # T => Sums(f, y) # {}
  BY <1>1
<1> HIDE DEF Bad
<1> DEFINE G(s) == CHOOSE g \in Sums(f, s) : TRUE
           V(s) == G(s)[s]
<1>3. \A s \in SUBSET T : s # T => G(s) \in Sums(f, s) /\ V(s) \in Int
  <2> SUFFICES ASSUME NEW s \in SUBSET T, s # T PROVE G(s) \in Sums(f, s) /\ V(s) \in Int
    OBVIOUS
  <2>1. G(s) \in Sums(f, s)
    BY <1>2
  <2>2. G(s) \in [SUBSET s -> Int] /\ s \in SUBSET s
    BY <2>1 DEF Sums
  <2> QED BY <2>1, <2>2
<1>4. \A s \in SUBSET T : s # {} => Pick(s) \in s /\ s \ {Pick(s)} \in SUBSET T
                                    /\ s \ {Pick(s)} # T /\ f[Pick(s)] \in Int
  BY <1>2 DEF Pick
<1>5. \A s \in SUBSET T : s # T /\ s # {} => V(s) = f[Pick(s)] + V(s \ {Pick(s)})
  <2> SUFFICES ASSUME NEW s \in SUBSET T, s # T, s # {}
               PROVE  V(s) = f[Pick(s)] + V(s \ {Pick(s)})
    OBVIOUS
  <2> DEFINE y == s \ {Pick(s)}
  <2>1. y \in SUBSET T /\ y # T /\ y \subseteq s
    BY <1>4
  <2>2. G(s) \in Sums(f, s) /\ G(y) \in Sums(f, y)
    BY <1>3, <2>1
  <2>3. IsFiniteSet(y)
    BY <1>2, <2>1, FS_Subset
  <2>4. G(s)[y] = G(y)[y]
    <3> HIDE DEF G, y
    <3> QED BY SMT, <2>1, <2>2, <2>3, SumsAgree
  <2>5. G(s)[s] = Fold(f, G(s), s)
    BY <2>2 DEF Sums
  <2> HIDE DEF G
  <2> QED BY <2>4, <2>5 DEF Fold
<1>6. T # {} => V({}) = 0
  <2> SUFFICES ASSUME T # {} PROVE V({}) = 0
    OBVIOUS
  <2>1. G({}) \in Sums(f, {})
    BY <1>3
  <2>2. G({})[{}] = Fold(f, G({}), {})
    BY <2>1 DEF Sums
  <2> HIDE DEF G
  <2> QED BY <2>2 DEF Fold
<1> HIDE DEF G, V
<1> DEFINE h == [s \in SUBSET T |->
                   IF s = {} THEN 0
                   ELSE IF s = T THEN f[Pick(T)] + V(T \ {Pick(T)}) ELSE V(s)]
<1>7. h \in [SUBSET T -> Int]
  <2> SUFFICES ASSUME NEW s \in SUBSET T PROVE h[s] \in Int
    OBVIOUS
  <2>1. CASE s = {}
    BY SMT, <2>1
  <2>2. CASE s = T /\ s # {}
    BY SMT, <1>3, <1>4, <2>2
  <2>3. CASE s # T /\ s # {}
    BY <1>3, <2>3
  <2> QED BY <2>1, <2>2, <2>3
<1>8. \A s \in SUBSET T : s # T => h[s] = V(s)
  BY <1>6
<1>9. \A s \in SUBSET T : h[s] = Fold(f, h, s)
  <2> SUFFICES ASSUME NEW s \in SUBSET T PROVE h[s] = Fold(f, h, s)
    OBVIOUS
  <2>1. CASE s = {}
    BY <2>1 DEF Fold
  <2>2. CASE s # {}
    <3> DEFINE y == s \ {Pick(s)}
    <3>1. y \in SUBSET T /\ y # T
      BY <1>4, <2>2
    <3>2. h[y] = V(y)
      BY <1>8, <3>1
    <3>3. h[s] = f[Pick(s)] + V(y)
      BY <1>5, <2>2
    <3> HIDE DEF h
    <3> QED BY <2>2, <3>2, <3>3 DEF Fold
  <2> QED BY <2>1, <2>2
<1>10. h \in Sums(f, T)
  <2> HIDE DEF h
  <2> QED BY <1>7, <1>9 DEF Sums
<1> QED BY <1>2, <1>10

\* The library's fold is such a function.
LEMMA TotalSums ==
  ASSUME NEW S, IsFiniteSet(S), NEW f, \A x \in S : f[x] \in Int
  PROVE  \E g \in Sums(f, S) : Total(f, S) = g[S]
<1> DEFINE E(i) == [s \in SUBSET S |-> IF s = {} THEN 0 ELSE f[Pick(s)] + i[s \ {Pick(s)}]]
           iter == CHOOSE i : i = E(i)
<1>1. Total(f, S) = iter[S]
  BY DEF Total, MapThenSumSet, MapThenFoldSet, Pick
<1>2. PICK g \in Sums(f, S) : TRUE
  BY SumsExist
<1>3. g = E(g)
  BY <1>2 DEF Sums, Fold
<1>4. iter = E(iter)
  BY <1>3
<1>5. \A s \in SUBSET S : iter[s] = Fold(f, iter, s)
  BY <1>4 DEF Fold
<1>6. \A s \in SUBSET S : iter[s] = g[s]
  <2> HIDE DEF iter
  <2> DEFINE Bad == {s \in SUBSET S : iter[s] # g[s]}
  <2> SUFFICES ASSUME Bad # {} PROVE FALSE
    OBVIOUS
  <2>0. Bad \in SUBSET (SUBSET S)
    OBVIOUS
  <2>1. PICK s \in Bad : \A y \in SUBSET s : y # s => y \notin Bad
    <3> HIDE DEF Bad
    <3> QED BY <2>0, Smallest
  <2>2. s \in SUBSET S /\ iter[s] # g[s]
    BY <2>1
  <2>3. iter[s] = Fold(f, iter, s) /\ g[s] = Fold(f, g, s)
    BY <1>5, <2>2 DEF Sums
  <2>4. s # {}
    BY <2>2, <2>3 DEF Fold
  <2>5. Pick(s) \in s
    BY <2>4 DEF Pick
  <2> DEFINE y == s \ {Pick(s)}
  <2>6. y \in SUBSET s /\ y # s /\ y \in SUBSET S
    BY <2>2, <2>5
  <2>7. iter[y] = g[y]
    BY <2>1, <2>6
  <2> QED BY <2>2, <2>3, <2>4, <2>7 DEF Fold
<1>7. Total(f, S) = g[S]
  <2> HIDE DEF iter
  <2> QED BY <1>1, <1>6
<1> QED BY <1>7

\* The sum over nothing, and the type of a sum.
LEMMA TotalType ==
  ASSUME NEW S, IsFiniteSet(S), NEW f, \A x \in S : f[x] \in Int
  PROVE  Total(f, S) \in Int /\ (S = {} => Total(f, S) = 0)
<1>1. PICK g \in Sums(f, S) : Total(f, S) = g[S]
  BY TotalSums
<1>2. g \in [SUBSET S -> Int] /\ S \in SUBSET S /\ g[S] = Fold(f, g, S)
  BY DEF Sums
<1> QED BY <1>1, <1>2 DEF Fold

\* A fold may take any element first.
LEMMA AnyFirst ==
  ASSUME NEW S, IsFiniteSet(S), NEW f, \A x \in S : f[x] \in Int,
         NEW g \in Sums(f, S), NEW x \in S
  PROVE  g[S] = f[x] + g[S \ {x}]
<1> DEFINE Bad == {T \in SUBSET S : \E e \in T : g[T] # f[e] + g[T \ {e}]}
<1> SUFFICES ASSUME Bad # {} PROVE FALSE
  OBVIOUS
<1>0. Bad \in SUBSET (SUBSET S)
  OBVIOUS
<1>1. PICK T \in Bad : \A y \in SUBSET T : y # T => y \notin Bad
  <2> HIDE DEF Bad
  <2> QED BY <1>0, Smallest
<1>2. PICK e \in T : g[T] # f[e] + g[T \ {e}]
  BY <1>1
<1>3. T \in SUBSET S /\ T # {}
  BY <1>1, <1>2
<1> DEFINE p == Pick(T)
           U == T \ {p}
           W == T \ {e}
           Z == U \ {e}
<1>4. p \in T
  BY <1>3 DEF Pick
<1>5. g \in [SUBSET S -> Int]
  BY DEF Sums
<1>6. g[T] = f[p] + g[U]
  BY <1>3 DEF Sums, Fold
<1>7. p # e
  BY <1>2, <1>6
<1> HIDE DEF p
<1>8. U \in SUBSET T /\ U # T /\ e \in U /\ U \in SUBSET S
  BY <1>2, <1>3, <1>4, <1>7
<1>9. W \in SUBSET T /\ W # T /\ p \in W /\ W \in SUBSET S
  BY <1>2, <1>3, <1>4, <1>7
<1>10. g[U] = f[e] + g[Z]
  BY <1>1, <1>8
<1>11. g[W] = f[p] + g[W \ {p}]
  BY <1>1, <1>9
<1>12. W \ {p} = Z /\ Z \in SUBSET S
  BY <1>8
<1>13. f[e] \in Int /\ f[p] \in Int /\ g[Z] \in Int /\ g[U] \in Int /\ g[W] \in Int
  BY <1>3, <1>4, <1>5, <1>8, <1>9, <1>12
<1>14. g[W] = f[p] + g[Z]
  BY <1>11, <1>12
<1>15. g[T] # f[e] + g[W]
  BY <1>2
<1> HIDE DEF U, W, Z, Bad
<1> QED BY SMT, <1>6, <1>10, <1>13, <1>14, <1>15

\* The sum is that of one element and of the others.
LEMMA TotalSplit ==
  ASSUME NEW S, IsFiniteSet(S), NEW f, \A y \in S : f[y] \in Int, NEW x \in S
  PROVE  Total(f, S) = f[x] + Total(f, S \ {x})
<1> DEFINE R == S \ {x}
<1>1. IsFiniteSet(R) /\ R \subseteq S
  BY FS_Subset
<1>2. PICK g \in Sums(f, S) : Total(f, S) = g[S]
  BY TotalSums
<1>3. \A y \in R : f[y] \in Int
  OBVIOUS
<1> HIDE DEF R
<1>4. PICK h \in Sums(f, R) : Total(f, R) = h[R]
  BY <1>1, <1>3, TotalSums
<1>5. g[R] = h[R]
  BY SMT, <1>1, SumsAgree
<1>6. g[S] = f[x] + g[R]
  BY SMT, AnyFirst DEF R
<1>7. Total(f, S) = f[x] + Total(f, R)
  BY <1>2, <1>4, <1>5, <1>6
<1> QED BY <1>7 DEF R

-----------------------------------------------------------------------------
(* The cache.                                                              *)

\* What the list under a key holds.
Of(k) == IF k = InvestAddrs THEN Investors ELSE Utxos

\* The lists hold what they are for, written or committed, and a writer that has
\* called isDirty is about to write the list of an investor.
Typed ==
    /\ store \in [Keys -> SUBSET Values] /\ view \in [Writers -> [Keys -> SUBSET Values]]
    /\ \A k \in Keys : store[k] \subseteq Of(k) /\ \A w \in Writers : view[w][k] \subseteq Of(k)
    /\ marked \in [Writers -> Investors \cup {None}]

\* What each investor has invested according to the database.
Sum == [i \in Investors |-> Worth(store[i])]

\* While nothing is committed, what getAmount has added up and what is still to
\* be added make what the database says.
ReadsAll ==
    reading # None =>
        /\ reading.todo \subseteq Investors /\ reading.sum \in Int
        /\ quiet => reading.sum + Total(Sum, reading.todo) = Invested

CacheInv == Typed /\ ReadsAll /\ EnoughIsSeen

\* An investor has invested an amount.
LEMMA SumType == ASSUME Typed PROVE \A i \in Investors : Sum[i] \in Int /\ Sum[i] = Worth(store[i])
<1> SUFFICES ASSUME NEW i \in Investors PROVE Worth(store[i]) \in Int
  BY DEF Sum
<1>1. store[i] \subseteq Utxos
  BY CacheAssumption DEF Typed, Of
<1>2. IsFiniteSet(store[i]) /\ \A u \in store[i] : worth[u] \in Int
  BY <1>1, CacheAssumption, FS_Subset
<1> QED BY <1>2, TotalType DEF Worth

\* The database is empty of transactions and no getAmount runs.
LEMMA InitCache == Init => CacheInv
<1> SUFFICES ASSUME Init PROVE CacheInv
  OBVIOUS
<1>1. Typed
  BY DEF Init, DbInit, Typed, Of, Nothing
<1>2. ReadsAll
  BY DEF Init, ReadsAll
<1>3. EnoughIsSeen
  BY DEF Init, EnoughIsSeen
<1> QED BY <1>1, <1>2, <1>3 DEF CacheInv

\* Nothing that getAmount and its answer depend on changes.
LEMMA SameCache ==
  ASSUME CacheInv, Typed', UNCHANGED <<store, reading, quiet, answer>>
  PROVE  CacheInv'
<1>1. Sum' = Sum /\ Invested' = Invested
  BY DEF Sum, Invested
<1> QED BY <1>1 DEF CacheInv, ReadsAll, EnoughIsSeen

\* MergeValue and RemoveMergeValue write what the list is for.
LEMMA WriteTyped ==
  ASSUME Typed, NEW w \in Writers, NEW k \in Keys, NEW v \in Of(k), v \in Values,
         MergeValue(w, k, v) \/ RemoveMergeValue(w, k, v)
  PROVE  /\ store' = store /\ view' \in [Writers -> [Keys -> SUBSET Values]]
         /\ \A j \in Keys, x \in Writers : view'[x][j] \subseteq Of(j)
<1>1. Current(w, k) \in SUBSET Values /\ Current(w, k) \subseteq Of(k)
  BY DEF Current, Typed
<1>2. PICK list \in SUBSET Values :
        /\ list \subseteq Of(k) /\ store' = store
        /\ view' = [view EXCEPT ![w][k] = list]
  <2>1. CASE MergeValue(w, k, v)
    BY <1>1, <2>1 DEF MergeValue, WriteData
  <2>2. CASE RemoveMergeValue(w, k, v)
    BY <1>1, <2>2 DEF RemoveMergeValue, WriteData
  <2> QED BY <2>1, <2>2
<1>3. view' \in [Writers -> [Keys -> SUBSET Values]]
  BY <1>2 DEF Typed
<1>4. ASSUME NEW j \in Keys, NEW x \in Writers PROVE view'[x][j] \subseteq Of(j)
  <2>1. CASE x = w /\ j = k
    BY <1>2, <2>1 DEF Typed
  <2>2. CASE ~(x = w /\ j = k)
    <3>1. view'[x][j] = view[x][j]
      BY <1>2, <2>2 DEF Typed
    <3> QED BY <3>1 DEF Typed
  <2> QED BY <2>1, <2>2
<1> QED BY <1>2, <1>3, <1>4

\* The end of a transaction.
LEMMA EndTyped ==
  ASSUME Typed, NEW w \in Writers, End(w)
  PROVE  /\ view' \in [Writers -> [Keys -> SUBSET Values]]
         /\ \A j \in Keys, x \in Writers : view'[x][j] \subseteq Of(j)
<1>1. view' = [view EXCEPT ![w] = Nothing] /\ Nothing = [k \in Keys |-> {}]
  BY DEF End, Nothing
<1> QED BY <1>1 DEF Typed

\* A writer's step keeps the invariant; only its commit changes what is invested,
\* and then no answer and no running getAmount speaks of the database as it is.
LEMMA WriterCache ==
  ASSUME CacheInv, NEW w \in Writers, Writer(w)
  PROVE  CacheInv'
<1> USE DEF CacheInv
<1>1. CASE Begin(w)
  BY <1>1, SameCache DEF Begin, TransactionInit, cacheVars, Typed
<1>2. CASE InvestAddr(w)
  <2>1. PICK i \in Investors : MergeValue(w, InvestAddrs, i) \/ RemoveMergeValue(w, InvestAddrs, i)
    BY <1>2 DEF InvestAddr
  <2>2. InvestAddrs \in Keys /\ i \in Of(InvestAddrs) /\ i \in Values
    BY CacheAssumption DEF Of
  <2>3. /\ store' = store /\ view' \in [Writers -> [Keys -> SUBSET Values]]
        /\ \A j \in Keys, x \in Writers : view'[x][j] \subseteq Of(j)
    BY <2>1, <2>2, WriteTyped
  <2>4. UNCHANGED cacheVars
    BY <1>2 DEF InvestAddr
  <2>5. Typed'
    BY <2>3, <2>4 DEF Typed, cacheVars
  <2> QED BY <2>3, <2>4, <2>5, SameCache DEF cacheVars
<1>3. CASE isDirty(w)
  <2>1. Typed'
    BY <1>3 DEF isDirty, dbVars, Typed
  <2> QED BY <1>3, <2>1, SameCache DEF isDirty, dbVars
<1>4. CASE InvestUtxo(w)
  <2>1. PICK u \in Utxos : MergeValue(w, marked[w], u) \/ RemoveMergeValue(w, marked[w], u)
    BY <1>4 DEF InvestUtxo
  <2>2. marked[w] \in Keys /\ u \in Of(marked[w]) /\ u \in Values
    BY <1>4, CacheAssumption DEF Of, InvestUtxo, Typed
  <2>3. /\ store' = store /\ view' \in [Writers -> [Keys -> SUBSET Values]]
        /\ \A j \in Keys, x \in Writers : view'[x][j] \subseteq Of(j)
    BY <2>1, <2>2, WriteTyped
  <2>4. marked' = [marked EXCEPT ![w] = None] /\ UNCHANGED <<reading, quiet, answer>>
    BY <1>4 DEF InvestUtxo
  <2>5. Typed'
    BY <2>3, <2>4 DEF Typed
  <2> QED BY <2>3, <2>4, <2>5, SameCache
<1>5. CASE Commit(w)
  <2>1. /\ End(w) /\ store' = [k \in Keys |-> IF lock[k] = w THEN view[w][k] ELSE store[k]]
        /\ quiet' = FALSE /\ answer' = None /\ marked' = marked /\ reading' = reading
    BY <1>5 DEF Commit, TransactionCommit
  <2>2. Typed'
    BY <2>1, EndTyped, SMTT(30) DEF Typed
  <2>3. ReadsAll'
    BY <2>1 DEF ReadsAll
  <2>4. EnoughIsSeen'
    BY <2>1 DEF EnoughIsSeen
  <2> QED BY <2>2, <2>3, <2>4
<1>6. CASE RollBack(w)
  <2>1. /\ End(w) /\ store' = store /\ marked' = [marked EXCEPT ![w] = None]
        /\ UNCHANGED <<reading, quiet, answer>>
    BY <1>6 DEF RollBack, TransactionRollBack
  <2>2. Typed'
    BY <2>1, EndTyped DEF Typed
  <2> QED BY <2>1, <2>2, SameCache
<1> QED BY <1>1, <1>2, <1>3, <1>4, <1>5, <1>6 DEF Writer

\* getAmount reads the list of investors, then each of their lists, and returns
\* what they add up to or what is cached and enough.
LEMMA ReaderCache ==
  ASSUME CacheInv, Reader
  PROVE  CacheInv'
<1> USE DEF CacheInv
<1>1. UNCHANGED <<store, view, marked>>
  BY DEF Reader, getAmount, GetBonusAddrInvestUtxos, getAmountReturns, getAmountFails, dbVars
<1>2. Typed'
  BY <1>1 DEF Typed
<1>3. Sum' = Sum /\ Invested' = Invested
  BY <1>1 DEF Sum, Invested
<1>4. \A i \in Investors : Sum[i] \in Int /\ Sum[i] = Worth(store[i])
  BY SumType
<1>5. \A T \in SUBSET Investors :
        /\ IsFiniteSet(T) /\ Total(Sum, T) \in Int /\ (T = {} => Total(Sum, T) = 0)
        /\ \A i \in T : Total(Sum, T) = Sum[i] + Total(Sum, T \ {i})
  <2> SUFFICES ASSUME NEW T \in SUBSET Investors
               PROVE  /\ IsFiniteSet(T) /\ Total(Sum, T) \in Int /\ (T = {} => Total(Sum, T) = 0)
                      /\ \A i \in T : Total(Sum, T) = Sum[i] + Total(Sum, T \ {i})
    OBVIOUS
  <2>1. IsFiniteSet(T) /\ \A i \in T : Sum[i] \in Int
    BY <1>4, CacheAssumption, FS_Subset
  <2>2. Total(Sum, T) \in Int /\ (T = {} => Total(Sum, T) = 0)
    BY <2>1, TotalType
  <2>3. \A i \in T : Total(Sum, T) = Sum[i] + Total(Sum, T \ {i})
    BY <2>1, TotalSplit
  <2> QED BY <2>1, <2>2, <2>3
<1>6. store[InvestAddrs] \in SUBSET Investors
  BY CacheAssumption DEF Typed, Of
<1>7. Invested = Total(Sum, store[InvestAddrs]) /\ Invested \in Int
  BY <1>5, <1>6 DEF Invested, Sum
<1>8. CASE getAmount
  <2>1. CASE Cached
    <3>1. answer' = amount /\ reading' = reading /\ reading = None /\ amount >= kMinInvestAmt
      BY <1>8, <2>1 DEF getAmount, Cached
    <3> QED BY <1>2, <1>3, <3>1 DEF ReadsAll, EnoughIsSeen
  <2>2. CASE ~Cached
    <3>1. answer' = None /\ reading' = [todo |-> store[InvestAddrs], sum |-> 0]
      BY <1>8, <2>2 DEF getAmount
    <3>2. 0 + Total(Sum, store[InvestAddrs]) = Invested
      BY SMT, <1>7
    <3> QED BY SMT, <1>2, <1>3, <1>6, <3>1, <3>2 DEF ReadsAll, EnoughIsSeen
  <2> QED BY <2>1, <2>2
<1>9. CASE GetBonusAddrInvestUtxos
  <2>1. PICK i \in reading.todo :
          reading' = [todo |-> reading.todo \ {i}, sum |-> reading.sum + Worth(store[i])]
    BY <1>9 DEF GetBonusAddrInvestUtxos
  <2>2. reading # None /\ UNCHANGED <<quiet, answer>>
    BY <1>9 DEF GetBonusAddrInvestUtxos
  <2>3. reading.todo \subseteq Investors /\ reading.sum \in Int /\ i \in Investors
    BY <2>1, <2>2 DEF ReadsAll
  <2>4. /\ Worth(store[i]) \in Int /\ Total(Sum, reading.todo \ {i}) \in Int
        /\ Total(Sum, reading.todo) = Worth(store[i]) + Total(Sum, reading.todo \ {i})
    BY <1>4, <1>5, <2>1, <2>3
  <2>5. reading'.todo = reading.todo \ {i} /\ reading'.sum = reading.sum + Worth(store[i])
    BY <2>1
  <2>6. quiet => reading'.sum + Total(Sum, reading'.todo) = Invested
    <3> SUFFICES ASSUME quiet PROVE reading'.sum + Total(Sum, reading'.todo) = Invested
      OBVIOUS
    <3>1. reading.sum + Total(Sum, reading.todo) = Invested
      BY <2>2 DEF ReadsAll
    <3>2. \A a, b, c \in Int : a + (b + c) = (a + b) + c
      BY SMT
    <3> QED BY SMT, <2>3, <2>4, <2>5, <3>1, <3>2
  <2>7. reading'.todo \subseteq Investors /\ reading'.sum \in Int
    BY SMT, <2>3, <2>4, <2>5
  <2>8. ReadsAll'
    BY <1>3, <2>2, <2>6, <2>7 DEF ReadsAll
  <2>9. EnoughIsSeen'
    BY <1>3, <2>2 DEF EnoughIsSeen
  <2> QED BY <1>2, <2>8, <2>9
<1>10. CASE getAmountReturns
  <2>1. /\ reading # None /\ reading.todo = {} /\ reading' = None
        /\ answer' = IF quiet THEN reading.sum ELSE None
    BY <1>10 DEF getAmountReturns
  <2>2. quiet => reading.sum = Invested
    <3>1. reading.sum \in Int /\ Total(Sum, reading.todo) = 0
      BY <1>5, <2>1 DEF ReadsAll
    <3> QED BY SMT, <2>1, <3>1 DEF ReadsAll
  <2>3. EnoughIsSeen'
    BY <1>3, <2>1, <2>2 DEF EnoughIsSeen
  <2> QED BY <1>2, <2>1, <2>3 DEF ReadsAll
<1>11. CASE getAmountFails
  BY <1>2, <1>3, <1>11 DEF getAmountFails, ReadsAll, EnoughIsSeen
<1> QED BY <1>8, <1>9, <1>10, <1>11 DEF Reader

\* Every state of the cache and of the database under it.
LEMMA CacheInvariant == Spec => []CacheInv
<1>1. CacheInv /\ [Next]_vars => CacheInv'
  <2> SUFFICES ASSUME CacheInv, [Next]_vars PROVE CacheInv'
    OBVIOUS
  <2>1. CASE Next
    BY <2>1, WriterCache, ReaderCache DEF Next
  <2>2. CASE UNCHANGED vars
    <3>1. Typed'
      BY <2>2 DEF CacheInv, Typed, vars, dbVars, cacheVars
    <3> QED BY <2>2, <3>1, SameCache DEF vars, dbVars, cacheVars
  <2> QED BY <2>1, <2>2
<1> QED BY <1>1, InitCache, PTL DEF Spec

\* BonusAddrCache::getAmount: a call during which nothing is committed returns
\* enough if the database says that enough is invested, whichever writers have
\* marked the amount dirty and not committed yet.
THEOREM EnoughSeen == Spec => []EnoughIsSeen
<1>1. CacheInv => EnoughIsSeen
  BY DEF CacheInv
<1> QED BY <1>1, CacheInvariant, PTL

\* A step of the cache or of one of its writers is a step of the database, or
\* leaves it.
LEMMA StepUsesDb ==
  ASSUME CacheInv, [Next]_vars
  PROVE  [DbNext]_dbVars
<1>1. CASE UNCHANGED vars
  BY <1>1 DEF vars
<1>2. CASE Reader
  BY <1>2 DEF Reader, getAmount, GetBonusAddrInvestUtxos, getAmountReturns, getAmountFails
<1>3. ASSUME NEW w \in Writers, Writer(w) PROVE [DbNext]_dbVars
  <2>1. CASE Begin(w)
    BY <2>1 DEF Begin, DbNext
  <2>2. CASE InvestAddr(w) \/ InvestUtxo(w)
    <3>1. Write(w)
      BY <2>2, CacheAssumption DEF InvestAddr, InvestUtxo, Write, CacheInv, Typed
    <3> QED BY <3>1 DEF DbNext
  <2>3. CASE isDirty(w)
    BY <2>3 DEF isDirty
  <2>4. CASE Commit(w)
    BY <2>4 DEF Commit, DbNext
  <2>5. CASE RollBack(w)
    BY <2>5 DEF RollBack, DbNext
  <2> QED BY <1>3, <2>1, <2>2, <2>3, <2>4, <2>5 DEF Writer
<1> QED BY <1>1, <1>2, <1>3 DEF Next

\* The writers that mark the cache dirty before they change a list
\* (SetBonusAddrInvestAddrUtxoByBonusAddr and its kin) use the database by its
\* transactions only: the cache's own specification has atomic transactions.
THEOREM CacheTransactions == Spec => AtomicTransactions /\ []Isolated
<1>1. Init => DbInit
  BY DEF Init
<1>2. CacheInv /\ [Next]_vars => [DbNext]_dbVars
  BY StepUsesDb
<1>3. Spec => DbSpec
  BY <1>1, <1>2, CacheInvariant, PTL DEF Spec, DbSpec
<1> QED BY <1>3, Implements, TransactionsIsolated, PTL
=============================================================================
