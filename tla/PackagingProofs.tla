-------------------------- MODULE PackagingProofs --------------------------
(***************************************************************************)
(* What becomes of transactions before a block is built, for any calls,    *)
(* contracts, orders of the loops, node lists and heights.                 *)
(*                                                                         *)
(* The dispatcher of contract calls sends calls that share a contract in   *)
(* one message, and leaves none out.  The loops of GetDependentData are    *)
(* folds over a sequence, which the library defines by a recursive         *)
(* function on the sets of indexes.  That such a function exists is shown  *)
(* first, by induction on the sets (a smallest counterexample).  Then: the *)
(* loop over the calls only lets groups grow, and has put a call together  *)
(* with all that share a contract with it into one group; the loop over    *)
(* the groups keeps each group's calls that have a message; and            *)
(* GroupDependentData joins whole groups, each of which is in one of the   *)
(* parts.                                                                  *)
(*                                                                         *)
(* GetBuildBlockHeight does what its callers count on.  If three quarters  *)
(* of the nodes asked have reached the highest output spent, take the      *)
(* lowest of their heights.  It occurs, and at least those nodes have      *)
(* reached it: so the last loop finds a height, and the highest it finds   *)
(* is no lower.  For this the heights in _transactionCache have to have a  *)
(* highest one and the thread's variables their types, which is the        *)
(* inductive invariant: while the thread waits nothing is being updated.   *)
(***************************************************************************)
EXTENDS ContractDispatcher, TransactionCache, FiniteSetTheorems, WellFoundedInduction, TLAPS

\* Most leaves are first-order; those with arithmetic, sequences or records name SMT.
USE Zenon

-----------------------------------------------------------------------------
(* Folds.                                                                  *)

\* Of some subsets of a finite set, one has no other below it.
LEMMA Smallest ==
  ASSUME NEW S, IsFiniteSet(S), NEW T \in SUBSET (SUBSET S), T # {}
  PROVE  \E x \in T : \A y \in SUBSET x : y # x => y \notin T
<1> DEFINE R == StrictSubsetOrdering(S)
<1>1. IsWellFoundedOn(R, SUBSET S)
  BY FS_FiniteSubsetsOfFinite, FS_StrictSubsetOrderingWellFounded
<1>2. \A x, y \in SUBSET S : y \subseteq x /\ y # x => <<y, x>> \in R
  BY DEF StrictSubsetOrdering
<1> HIDE DEF R
<1>3. PICK x \in T : \A y \in T : ~ (<<y, x>> \in R)
  BY <1>1, WFMin
<1> QED BY <1>2, <1>3

\* A set of numbers has a least element.
LEMMA Least == ASSUME NEW T \in SUBSET Nat, T # {} PROVE \E m \in T : \A k \in T : m <= k
<1> DEFINE R == OpToRel(<, Nat)
<1>1. IsWellFoundedOn(R, Nat)
  BY NatLessThanWellFounded
<1>2. \A x, y \in Nat : x < y => <<x, y>> \in R
  BY DEF OpToRel
<1> HIDE DEF R
<1>3. PICK x \in T : \A y \in T : ~ (<<y, x>> \in R)
  BY <1>1, WFMin
<1>4. \A y \in T : ~ (y < x)
  BY <1>2, <1>3
<1>5. \A y \in T : x <= y
  BY SMT, <1>4
<1> QED BY <1>5

\* Min and Max of a set of indexes.
LEMMA MinMax ==
  ASSUME NEW n \in Nat, NEW T \in SUBSET (1 .. n), T # {}
  PROVE  Min(T) \in T /\ Max(T) \in T
<1>1. PICK m \in T : \A k \in T : m <= k
  BY SMT, Least
<1>2. Min(T) \in T
  BY <1>1 DEF Min
<1> DEFINE U == {n - k : k \in T}
<1>3. U \in SUBSET Nat /\ U # {}
  BY SMT
<1>4. PICK m2 \in U : \A k \in U : m2 <= k
  <2> HIDE DEF U
  <2> QED BY <1>3, Least
<1>5. PICK k2 \in T : m2 = n - k2
  BY <1>4
<1>6. \A k \in T : k2 >= k
  BY SMT, <1>4, <1>5
<1>7. Max(T) \in T
  BY <1>6 DEF Max
<1> QED BY <1>2, <1>7

\* What a fold makes of a set, given what it makes of smaller ones: ch chooses
\* the last element, st is the step.
Fold(b, st, ch, g, s) == IF s = {} THEN b ELSE st[ch[s]][g[s \ {ch[s]}]]

\* The functions that fold the subsets of a set.
Folding(V, b, st, ch, T) ==
    {g \in [SUBSET T -> V] : \A s \in SUBSET T : g[s] = Fold(b, st, ch, g, s)}

\* Two of them agree.
LEMMA FoldsAgree ==
  ASSUME NEW V, NEW b, NEW st, NEW ch, NEW A, NEW B,
         NEW g \in Folding(V, b, st, ch, A), NEW h \in Folding(V, b, st, ch, B),
         NEW S, IsFiniteSet(S), S \subseteq A, S \subseteq B,
         \A s \in SUBSET S : s # {} => ch[s] \in s
  PROVE  g[S] = h[S]
<1> DEFINE Bad == {s \in SUBSET S : g[s] # h[s]}
<1> SUFFICES ASSUME Bad # {} PROVE FALSE
  OBVIOUS
<1>0. Bad \in SUBSET (SUBSET S)
  OBVIOUS
<1>1. PICK s \in Bad : \A y \in SUBSET s : y # s => y \notin Bad
  <2> HIDE DEF Bad
  <2> QED BY <1>0, Smallest
<1>2. s \in SUBSET S /\ s \in SUBSET A /\ s \in SUBSET B /\ g[s] # h[s]
  BY <1>1
<1>3. g[s] = Fold(b, st, ch, g, s) /\ h[s] = Fold(b, st, ch, h, s)
  BY <1>2 DEF Folding
<1>4. s # {}
  BY <1>2, <1>3 DEF Fold
<1>5. ch[s] \in s
  BY <1>2, <1>4
<1> DEFINE y == s \ {ch[s]}
<1>6. y \in SUBSET s /\ y # s /\ y \in SUBSET S
  BY <1>2, <1>5
<1>7. g[y] = h[y]
  BY <1>1, <1>6
<1> QED BY <1>2, <1>3, <1>4, <1>7 DEF Fold

Foldable(V, b, st, ch, S) ==
    \E g \in [SUBSET S -> V] : \A s \in SUBSET S : g[s] = Fold(b, st, ch, g, s)

\* There is one for each finite set.
LEMMA FoldExists ==
  ASSUME NEW S, IsFiniteSet(S), NEW V, NEW b \in V, NEW st \in [S -> [V -> V]], NEW ch,
         \A s \in SUBSET S : s # {} => ch[s] \in s
  PROVE  Foldable(V, b, st, ch, S)
<1> DEFINE F(T) == Folding(V, b, st, ch, T)
           Bad == {T \in SUBSET S : F(T) = {}}
<1>0. Bad \in SUBSET (SUBSET S)
  OBVIOUS
<1>a. SUFFICES ASSUME Bad # {} PROVE FALSE
  <2>1. S \in SUBSET S
    OBVIOUS
  <2>2. F(S) # {}
    BY <1>a, <2>1
  <2> QED BY <2>2 DEF Folding, Foldable
<1>1. PICK T \in Bad : \A y \in SUBSET T : y # T => y \notin Bad
  <2> HIDE DEF Bad
  <2> QED BY <1>0, <1>a, Smallest
<1>2. T \in SUBSET S /\ F(T) = {} /\ \A y \in SUBSET T : y # T => F(y) # {}
  BY <1>1
<1> HIDE DEF Bad
<1> DEFINE G(s) == CHOOSE g \in F(s) : TRUE
           R(s) == G(s)[s]
<1>3. \A s \in SUBSET T : s # T => G(s) \in F(s) /\ R(s) \in V
  <2> SUFFICES ASSUME NEW s \in SUBSET T, s # T PROVE G(s) \in F(s) /\ R(s) \in V
    OBVIOUS
  <2>1. G(s) \in F(s)
    <3> HIDE DEF F
    <3> QED BY <1>2
  <2> HIDE DEF G
  <2>2. G(s) \in [SUBSET s -> V] /\ s \in SUBSET s
    BY <2>1 DEF Folding
  <2> QED BY <2>1, <2>2
<1>4. \A s \in SUBSET T : s # {} => ch[s] \in s /\ s \ {ch[s]} \in SUBSET T
                                    /\ s \ {ch[s]} # T /\ st[ch[s]] \in [V -> V]
  BY <1>2
<1>5. \A s \in SUBSET T : s # T /\ s # {} => R(s) = st[ch[s]][R(s \ {ch[s]})]
  <2> SUFFICES ASSUME NEW s \in SUBSET T, s # T, s # {}
               PROVE  R(s) = st[ch[s]][R(s \ {ch[s]})]
    OBVIOUS
  <2> DEFINE y == s \ {ch[s]}
  <2>1. y \in SUBSET T /\ y # T /\ y \subseteq s
    BY <1>4
  <2> HIDE DEF G
  <2>2. G(s) \in F(s) /\ G(y) \in F(y)
    BY <1>3, <2>1
  <2>3. IsFiniteSet(y) /\ \A x \in SUBSET y : x # {} => ch[x] \in x
    BY <1>2, <1>4, <2>1, FS_Subset
  <2>4. G(s)[y] = G(y)[y]
    <3> HIDE DEF y
    <3> QED BY SMT, <2>1, <2>2, <2>3, FoldsAgree
  <2>5. G(s)[s] = Fold(b, st, ch, G(s), s)
    BY <2>2 DEF Folding
  <2> QED BY <2>4, <2>5 DEF Fold
<1>6. T # {} => R({}) = b
  <2> SUFFICES ASSUME T # {} PROVE R({}) = b
    OBVIOUS
  <2> HIDE DEF G
  <2>1. G({}) \in F({})
    BY <1>3
  <2>2. G({})[{}] = Fold(b, st, ch, G({}), {})
    BY <2>1 DEF Folding
  <2> QED BY <2>2 DEF Fold
<1> HIDE DEF G, R
<1> DEFINE h == [s \in SUBSET T |->
                   IF s = {} THEN b
                   ELSE IF s = T THEN st[ch[T]][R(T \ {ch[T]})] ELSE R(s)]
<1>7. h \in [SUBSET T -> V]
  <2> SUFFICES ASSUME NEW s \in SUBSET T PROVE h[s] \in V
    OBVIOUS
  <2>1. CASE s = {}
    BY <2>1
  <2>2. CASE s = T /\ s # {}
    BY SMT, <1>3, <1>4, <2>2
  <2>3. CASE s # T /\ s # {}
    BY <1>3, <2>3
  <2> QED BY <2>1, <2>2, <2>3
<1>8. \A s \in SUBSET T : s # T => h[s] = R(s)
  BY <1>6
<1>9. \A s \in SUBSET T : h[s] = Fold(b, st, ch, h, s)
  <2> SUFFICES ASSUME NEW s \in SUBSET T PROVE h[s] = Fold(b, st, ch, h, s)
    OBVIOUS
  <2>1. CASE s = {}
    BY <2>1 DEF Fold
  <2>2. CASE s # {}
    <3> DEFINE y == s \ {ch[s]}
    <3>1. y \in SUBSET T /\ y # T
      BY <1>4, <2>2
    <3>2. h[y] = R(y)
      BY <1>8, <3>1
    <3>3. h[s] = st[ch[s]][R(y)]
      BY <1>5, <2>2
    <3> HIDE DEF h
    <3> QED BY <2>2, <3>2, <3>3 DEF Fold
  <2> QED BY <2>1, <2>2
<1>10. h \in F(T)
  <2> HIDE DEF h
  <2> QED BY <1>7, <1>9 DEF Folding
<1> QED BY <1>2, <1>10

-----------------------------------------------------------------------------
(* The loop over the calls.                                                *)

\* The keys are in a group afterwards, and every group is in one.
LEMMA KeysInserted ==
  ASSUME NEW D, NEW res \in Seq(SUBSET D), NEW keys \in SUBSET D
  PROVE  /\ InsertKeys(res, keys) \in Seq(SUBSET D)
         /\ \E j \in DOMAIN InsertKeys(res, keys) : keys \subseteq InsertKeys(res, keys)[j]
         /\ \A i \in DOMAIN res :
              \E j \in DOMAIN InsertKeys(res, keys) : res[i] \subseteq InsertKeys(res, keys)[j]
<1> DEFINE I == {i \in DOMAIN res : HasDuplicate(res[i], keys)}
           hit == Min(I)
           new == InsertKeys(res, keys)
<1>1. new = IF I # {} THEN [res EXCEPT ![hit] = @ \cup keys] ELSE Append(res, keys)
  BY DEF InsertKeys
<1>2. Len(res) \in Nat /\ DOMAIN res = 1 .. Len(res) /\ I \in SUBSET (1 .. Len(res))
  BY SMT
<1>3. I # {} => hit \in I
  <2> HIDE DEF I
  <2> QED BY <1>2, MinMax
<1> HIDE DEF hit, new, I
<1>4. CASE I # {}
  <2>1. new = [res EXCEPT ![hit] = @ \cup keys] /\ hit \in 1 .. Len(res)
    BY <1>1, <1>2, <1>3, <1>4
  <2>2. /\ new \in Seq(SUBSET D) /\ DOMAIN new = DOMAIN res
        /\ new[hit] = res[hit] \cup keys /\ \A i \in DOMAIN res : res[i] \subseteq new[i]
    BY SMT, <1>2, <2>1
  <2> QED BY <1>2, <2>1, <2>2 DEF new
<1>5. CASE I = {}
  <2>1. new = Append(res, keys)
    BY <1>1, <1>5
  <2>2. /\ new \in Seq(SUBSET D) /\ DOMAIN new = 1 .. Len(res) + 1
        /\ new[Len(res) + 1] = keys /\ \A i \in DOMAIN res : i \in DOMAIN new /\ new[i] = res[i]
    BY SMT, <1>2, <2>1
  <2> QED BY SMT, <1>2, <2>2 DEF new
<1> QED BY <1>4, <1>5

\* Every call is taken.
LEMMA OrderCovers ==
  ASSUME NEW D, IsFiniteSet(D), NEW order \in Orders(D)
  PROVE  /\ Cardinality(D) \in Nat /\ order \in [1 .. Cardinality(D) -> D]
         /\ \A t \in D : \E i \in 1 .. Cardinality(D) : order[i] = t
<1> DEFINE n == Cardinality(D)
<1>1. n \in Nat
  BY FS_CardinalityType
<1>2. order \in [1 .. n -> D] /\ \A i, j \in 1 .. n : i # j => order[i] # order[j]
  BY DEF Orders, Injection, IsInjective
<1>3. ASSUME NEW t \in D, \A i \in 1 .. n : order[i] # t PROVE FALSE
  <2>1. IsFiniteSet(D \ {t}) /\ Cardinality(D \ {t}) = n - 1
    BY FS_RemoveElement
  <2>2. IsFiniteSet(1 .. n) /\ Cardinality(1 .. n) = n
    <3>1. \A k \in Int : 1 .. k = 1 .. k /\ (k \in Nat => (IF 1 > k THEN 0 ELSE k - 1 + 1) = k)
      BY SMT
    <3> QED BY SMT, <1>1, <3>1, FS_Interval
  <2>3. order \in [1 .. n -> D \ {t}]
    BY <1>2, <1>3
  <2>4. Cardinality(1 .. n) > Cardinality(D \ {t})
    BY SMT, <1>1, <2>1, <2>2
  <2>5. \E i, j \in 1 .. n : i # j /\ order[i] = order[j]
    <3> HIDE DEF n
    <3> QED BY <2>1, <2>2, <2>3, <2>4, FS_PigeonHole
  <2> QED BY <1>2, <2>5
<1> QED BY <1>1, <1>2, <1>3

\* GetDependentData, first loop: a call and those that share a contract with it
\* are in one group, in whatever order the calls are taken.
LEMMA GroupsHold ==
  ASSUME NEW D, IsFiniteSet(D), NEW dep, DOMAIN dep = D, NEW groups \in Groupings(dep)
  PROVE  /\ groups \in Seq(SUBSET D)
         /\ \A t \in D : \E k \in DOMAIN groups : CommonKeys(dep, t) \subseteq groups[k]
<1>1. PICK order \in Orders(D) : groups = GroupsInOrder(dep, order)
  BY DEF Groupings
<1> DEFINE n == Cardinality(D)
           N == 1 .. n
           V == Seq(SUBSET D)
           keys(x) == CommonKeys(dep, order[x])
<1>2. /\ n \in Nat /\ order \in [N -> D] /\ DOMAIN order = N
      /\ \A t \in D : \E i \in N : order[i] = t
  BY SMT, OrderCovers
<1>3. \A x \in N : keys(x) \in SUBSET D
  BY <1>2 DEF CommonKeys
<1> HIDE DEF n
<1>4. IsFiniteSet(N)
  BY SMT, <1>2, FS_Interval
<1> DEFINE st == [x \in N |-> [v \in V |-> InsertKeys(v, keys(x))]]
           ch == [s \in SUBSET N |-> Max(s)]
           E(i) == [s \in SUBSET N |->
                      IF s = {} THEN <<>>
                      ELSE InsertKeys(i[s \ {Max(s)}], CommonKeys(dep, order[Max(s)]))]
           iter == CHOOSE i : i = E(i)
<1>5. groups = iter[N]
  BY <1>1, <1>2 DEF GroupsInOrder, MapThenFoldSet
<1>6. \A s \in SUBSET N : s # {} => Max(s) \in s
  BY <1>2, MinMax
<1>7. \A x \in N : \A v \in V : InsertKeys(v, keys(x)) \in V
  BY <1>3, KeysInserted
<1>8. st \in [N -> [V -> V]] /\ <<>> \in V
  <2>1. <<>> \in V
    BY SMT
  <2> HIDE DEF V, N
  <2>2. \A x \in N : [v \in V |-> InsertKeys(v, keys(x))] \in [V -> V]
    BY <1>7
  <2>3. st \in [N -> [V -> V]]
    BY <2>2
  <2> QED BY <2>1, <2>3
<1>9. \A s \in SUBSET N : s # {} => ch[s] \in s
  BY <1>6
<1>10. PICK g \in [SUBSET N -> V] : \A s \in SUBSET N : g[s] = Fold(<<>>, st, ch, g, s)
  <2> DEFINE b == <<>>
  <2>1. b \in V
    BY <1>8
  <2> HIDE DEF st, ch, V, N, b
  <2>2. Foldable(V, b, st, ch, N)
    BY <1>4, <1>8, <1>9, <2>1, FoldExists
  <2> QED BY <2>2 DEF b, Foldable
<1>11. \A s \in SUBSET N : g[s] = IF s = {} THEN <<>> ELSE InsertKeys(g[s \ {Max(s)}], keys(Max(s)))
  <2> SUFFICES ASSUME NEW s \in SUBSET N
               PROVE  g[s] = IF s = {} THEN <<>> ELSE InsertKeys(g[s \ {Max(s)}], keys(Max(s)))
    OBVIOUS
  <2>1. g[s] = Fold(<<>>, st, ch, g, s)
    BY <1>10
  <2>2. CASE s = {}
    BY <2>1, <2>2 DEF Fold
  <2>3. CASE s # {}
    <3>1. Max(s) \in N /\ s \ {Max(s)} \in SUBSET N /\ ch[s] = Max(s)
      BY <1>6, <2>3
    <3>2. g[s \ {Max(s)}] \in V
      BY <3>1
    <3> HIDE DEF V, N, keys
    <3>3. st[Max(s)][g[s \ {Max(s)}]] = InsertKeys(g[s \ {Max(s)}], keys(Max(s)))
      BY <3>1, <3>2
    <3> HIDE DEF st, ch
    <3> QED BY <2>1, <2>3, <3>1, <3>3 DEF Fold
  <2> QED BY <2>2, <2>3
<1> HIDE DEF st, ch
<1>12. g = E(g)
  BY <1>11
<1>13. iter = E(iter)
  <2> HIDE DEF E
  <2> QED BY <1>12
<1> HIDE DEF iter
<1>14. \A s \in SUBSET N : /\ iter[s] = g[s]
                          /\ \A x \in s : \E k \in DOMAIN g[s] : keys(x) \subseteq g[s][k]
  <2> DEFINE Q(s) == iter[s] = g[s] /\ \A x \in s : \E k \in DOMAIN g[s] : keys(x) \subseteq g[s][k]
             Bad == {s \in SUBSET N : ~ Q(s)}
  <2>0. Bad \in SUBSET (SUBSET N)
    OBVIOUS
  <2>a. SUFFICES ASSUME Bad # {} PROVE FALSE
    OBVIOUS
  <2>1. PICK s \in Bad : \A y \in SUBSET s : y # s => y \notin Bad
    <3> HIDE DEF Bad, N
    <3> QED BY <1>4, <2>0, <2>a, Smallest
  <2>2. s \in SUBSET N /\ ~ Q(s)
    BY <2>1
  <2>3. iter[s] = IF s = {} THEN <<>> ELSE InsertKeys(iter[s \ {Max(s)}], keys(Max(s)))
    BY <1>13, <2>2
  <2>4. CASE s = {}
    BY <1>11, <2>2, <2>3, <2>4
  <2>5. CASE s # {}
    <3> DEFINE m == Max(s)
               y == s \ {m}
    <3>1. m \in s /\ m \in N /\ y \in SUBSET s /\ y # s /\ y \in SUBSET N
      BY <1>6, <2>2, <2>5
    <3>2. Q(y)
      BY <2>1, <3>1
    <3>3. g[s] = InsertKeys(g[y], keys(m)) /\ iter[s] = InsertKeys(iter[y], keys(m))
      BY <1>11, <2>2, <2>3, <2>5
    <3>4. g[y] \in V /\ keys(m) \in SUBSET D
      BY <1>3, <3>1
    <3> DEFINE old == g[y]
               new == keys(m)
    <3>a. old \in Seq(SUBSET D) /\ new \in SUBSET D /\ g[s] = InsertKeys(old, new)
      BY <3>3, <3>4
    <3> HIDE DEF m, y, keys, N, V, old, new
    <3>b. /\ \E j \in DOMAIN InsertKeys(old, new) : new \subseteq InsertKeys(old, new)[j]
          /\ \A i \in DOMAIN old :
               \E j \in DOMAIN InsertKeys(old, new) : old[i] \subseteq InsertKeys(old, new)[j]
      BY <3>a, KeysInserted
    <3>5. \E k \in DOMAIN g[s] : keys(m) \subseteq g[s][k]
      BY <3>a, <3>b DEF new
    <3>6. \A i \in DOMAIN g[y] : \E k \in DOMAIN g[s] : g[y][i] \subseteq g[s][k]
      BY <3>a, <3>b DEF old
    <3>7. ASSUME NEW x \in s PROVE \E k \in DOMAIN g[s] : keys(x) \subseteq g[s][k]
      <4>1. CASE x = m
        BY <3>5, <4>1
      <4>2. CASE x # m
        <5>1. x \in y
          BY <4>2 DEF y
        <5>2. PICK i \in DOMAIN g[y] : keys(x) \subseteq g[y][i]
          BY <3>2, <5>1
        <5>3. PICK k \in DOMAIN g[s] : g[y][i] \subseteq g[s][k]
          BY <3>6
        <5> QED BY <5>2, <5>3
      <4> QED BY <4>1, <4>2
    <3>8. iter[s] = g[s]
      BY <3>2, <3>3
    <3> QED BY <2>2, <3>7, <3>8
  <2> QED BY <2>4, <2>5
<1>15. N \in SUBSET N
  OBVIOUS
<1>16. groups = g[N] /\ g[N] \in V
  BY <1>5, <1>14, <1>15
<1>17. ASSUME NEW t \in D PROVE \E k \in DOMAIN groups : CommonKeys(dep, t) \subseteq groups[k]
  <2>1. PICK i \in N : order[i] = t
    BY <1>2
  <2> QED BY <1>14, <1>15, <1>16, <2>1
<1> QED BY <1>16, <1>17

-----------------------------------------------------------------------------
(* The loop over the groups.                                               *)

\* A sequence has what another one has, and a set.
Pushed(new, old, calls) ==
    /\ calls # {} => \E j \in DOMAIN new : new[j] = calls
    /\ \A i \in DOMAIN old : \E j \in DOMAIN new : new[j] = old[i]

\* What is pushed is there afterwards, if there is anything, and what was there
\* before.
LEMMA MessagesPushed ==
  ASSUME NEW W, NEW M, NEW res \in Seq(W), NEW group, group \cap M \in W
  PROVE  /\ PushMessages(res, group, M) \in Seq(W)
         /\ Pushed(PushMessages(res, group, M), res, group \cap M)
<1> DEFINE new == PushMessages(res, group, M)
           calls == group \cap M
<1>1. calls \in W /\ Len(res) \in Nat /\ DOMAIN res = 1 .. Len(res)
  BY SMT
<1>2. new = IF calls = {} THEN res ELSE Append(res, calls)
  BY DEF PushMessages
<1> HIDE DEF new, calls
<1>3. CASE calls = {}
  BY <1>1, <1>2, <1>3 DEF new, calls, Pushed
<1>4. CASE calls # {}
  <2>1. new = Append(res, calls)
    BY <1>2, <1>4
  <2>2. /\ new \in Seq(W) /\ DOMAIN new = 1 .. Len(res) + 1 /\ new[Len(res) + 1] = calls
        /\ \A i \in DOMAIN res : i \in DOMAIN new /\ new[i] = res[i]
    BY SMT, <1>1, <2>1
  <2>3. Len(res) + 1 \in DOMAIN new
    BY SMT, <1>1, <2>2
  <2> QED BY <2>2, <2>3 DEF new, calls, Pushed
<1> QED BY <1>3, <1>4

\* GetDependentData, second loop: the calls of each group whose message is there
\* stay together, and nothing else comes in.
LEMMA MessagesHold ==
  ASSUME NEW D, NEW M, NEW groups \in Seq(SUBSET D)
  PROVE  /\ GetDependentData(groups, M) \in Seq(SUBSET (D \cap M))
         /\ \A i \in DOMAIN groups : groups[i] \cap M # {} =>
              \E k \in DOMAIN GetDependentData(groups, M) :
                 GetDependentData(groups, M)[k] = groups[i] \cap M
<1> DEFINE n == Len(groups)
           N == 1 .. n
           W == SUBSET (D \cap M)
           V == Seq(W)
           kept == GetDependentData(groups, M)
<1>2. n \in Nat /\ DOMAIN groups = N /\ \A x \in N : groups[x] \in SUBSET D
  BY SMT
<1>3. \A x \in N : groups[x] \cap M \in W
  BY <1>2
<1> HIDE DEF n, W
<1>4. IsFiniteSet(N)
  BY SMT, <1>2, FS_Interval
<1> DEFINE st == [x \in N |-> [v \in V |-> PushMessages(v, groups[x], M)]]
           ch == [s \in SUBSET N |-> Max(s)]
           E(i) == [s \in SUBSET N |->
                      IF s = {} THEN <<>>
                      ELSE PushMessages(i[s \ {Max(s)}], groups[Max(s)], M)]
           iter == CHOOSE i : i = E(i)
<1>5. kept = iter[N]
  BY <1>2 DEF GetDependentData, MapThenFoldSet
<1> HIDE DEF kept
<1>6. \A s \in SUBSET N : s # {} => Max(s) \in s
  BY <1>2, MinMax
<1>7. \A x \in N : \A v \in V : PushMessages(v, groups[x], M) \in V
  BY <1>3, MessagesPushed
<1>8. st \in [N -> [V -> V]] /\ <<>> \in V
  <2>1. <<>> \in V
    BY SMT
  <2>2. st \in [N -> [V -> V]]
    <3> HIDE DEF V, N
    <3> QED BY <1>7
  <2> QED BY <2>1, <2>2
<1>9. \A s \in SUBSET N : s # {} => ch[s] \in s
  BY <1>6
<1>10. PICK g \in [SUBSET N -> V] : \A s \in SUBSET N : g[s] = Fold(<<>>, st, ch, g, s)
  <2> DEFINE b == <<>>
  <2>1. b \in V
    BY <1>8
  <2> HIDE DEF st, ch, V, N, b
  <2>2. Foldable(V, b, st, ch, N)
    BY <1>4, <1>8, <1>9, <2>1, FoldExists
  <2> QED BY <2>2 DEF b, Foldable
<1>11. \A s \in SUBSET N :
         g[s] = IF s = {} THEN <<>> ELSE PushMessages(g[s \ {Max(s)}], groups[Max(s)], M)
  <2> SUFFICES ASSUME NEW s \in SUBSET N
               PROVE  g[s] = IF s = {} THEN <<>>
                             ELSE PushMessages(g[s \ {Max(s)}], groups[Max(s)], M)
    OBVIOUS
  <2>1. g[s] = Fold(<<>>, st, ch, g, s)
    BY <1>10
  <2>2. CASE s = {}
    BY <2>1, <2>2 DEF Fold
  <2>3. CASE s # {}
    <3>1. Max(s) \in N /\ s \ {Max(s)} \in SUBSET N /\ ch[s] = Max(s)
      BY <1>6, <2>3
    <3>2. g[s \ {Max(s)}] \in V
      BY <3>1
    <3> HIDE DEF V, N
    <3>3. st[Max(s)][g[s \ {Max(s)}]] = PushMessages(g[s \ {Max(s)}], groups[Max(s)], M)
      BY <3>1, <3>2
    <3> HIDE DEF st, ch
    <3> QED BY <2>1, <2>3, <3>1, <3>3 DEF Fold
  <2> QED BY <2>2, <2>3
<1> HIDE DEF st, ch
<1>12. g = E(g)
  BY <1>11
<1>13. iter = E(iter)
  <2> HIDE DEF E
  <2> QED BY <1>12
<1> HIDE DEF iter
<1> DEFINE calls(x) == groups[x] \cap M
<1>14. \A s \in SUBSET N :
         /\ iter[s] = g[s]
         /\ \A x \in s : calls(x) # {} => \E k \in DOMAIN g[s] : g[s][k] = calls(x)
  <2> DEFINE Q(s) == /\ iter[s] = g[s]
                     /\ \A x \in s : calls(x) # {} => \E k \in DOMAIN g[s] : g[s][k] = calls(x)
             Bad == {s \in SUBSET N : ~ Q(s)}
  <2>0. Bad \in SUBSET (SUBSET N)
    OBVIOUS
  <2>a. SUFFICES ASSUME Bad # {} PROVE FALSE
    OBVIOUS
  <2>1. PICK s \in Bad : \A y \in SUBSET s : y # s => y \notin Bad
    <3> HIDE DEF Bad, N
    <3> QED BY <1>4, <2>0, <2>a, Smallest
  <2>2. s \in SUBSET N /\ ~ Q(s)
    BY <2>1
  <2>3. iter[s] = IF s = {} THEN <<>> ELSE PushMessages(iter[s \ {Max(s)}], groups[Max(s)], M)
    BY <1>13, <2>2
  <2>4. CASE s = {}
    BY <1>11, <2>2, <2>3, <2>4
  <2>5. CASE s # {}
    <3> DEFINE m == Max(s)
               y == s \ {m}
    <3>1. m \in s /\ m \in N /\ y \in SUBSET s /\ y # s /\ y \in SUBSET N
      BY <1>6, <2>2, <2>5
    <3>2. Q(y)
      BY <2>1, <3>1
    <3>3. g[s] = PushMessages(g[y], groups[m], M) /\ iter[s] = PushMessages(iter[y], groups[m], M)
      BY <1>11, <2>2, <2>3, <2>5
    <3>4. g[y] \in V /\ groups[m] \cap M \in W
      BY <1>3, <3>1
    <3> DEFINE old == g[y]
               new == groups[m]
    <3>a. /\ old \in Seq(W) /\ new \cap M \in W
          /\ g[s] = PushMessages(old, new, M)
      BY <3>3, <3>4
    <3> HIDE DEF m, y, N, V, old, new
    <3>b. Pushed(g[s], old, new \cap M)
      <4>1. old \in Seq(W) /\ new \cap M \in W
        BY <3>a
      <4>2. Pushed(PushMessages(old, new, M), old, new \cap M)
        BY <4>1, MessagesPushed
      <4>3. g[s] = PushMessages(old, new, M)
        BY <3>a
      <4> QED BY <4>2, <4>3
    <3>5. calls(m) # {} => \E k \in DOMAIN g[s] : g[s][k] = calls(m)
      BY <3>b DEF new, Pushed
    <3>6. \A i \in DOMAIN g[y] : \E k \in DOMAIN g[s] : g[s][k] = g[y][i]
      BY <3>b DEF old, Pushed
    <3> HIDE DEF calls
    <3>7. ASSUME NEW x \in s, calls(x) # {} PROVE \E k \in DOMAIN g[s] : g[s][k] = calls(x)
      <4>1. CASE x = m
        BY <3>5, <3>7, <4>1
      <4>2. CASE x # m
        <5>1. x \in y
          BY <4>2 DEF y
        <5>2. PICK i \in DOMAIN g[y] : g[y][i] = calls(x)
          BY <3>2, <3>7, <5>1
        <5>3. PICK k \in DOMAIN g[s] : g[s][k] = g[y][i]
          BY <3>6
        <5> QED BY <5>2, <5>3
      <4> QED BY <4>1, <4>2
    <3>8. iter[s] = g[s]
      BY <3>2, <3>3
    <3> QED BY <2>2, <3>7, <3>8
  <2> QED BY <2>4, <2>5
<1>15. N \in SUBSET N
  OBVIOUS
<1>16. kept = g[N] /\ g[N] \in V
  BY <1>5, <1>14, <1>15
<1>17. ASSUME NEW i \in DOMAIN groups, groups[i] \cap M # {}
       PROVE  \E k \in DOMAIN kept : kept[k] = groups[i] \cap M
  <2>1. i \in N /\ calls(i) # {}
    BY <1>2, <1>17
  <2>2. \E k \in DOMAIN g[N] : g[N][k] = calls(i)
    <3> HIDE DEF calls, N
    <3> QED BY <1>14, <1>15, <2>1
  <2> QED BY <1>16, <2>2
<1> QED BY <1>16, <1>17 DEF kept, W

-----------------------------------------------------------------------------
(* At most Parts messages.                                                 *)

\* GroupDependentData: every group is in one of the parts as a whole, those left
\* over included.
LEMMA PartsHold ==
  ASSUME NEW E, NEW data \in Seq(SUBSET E)
  PROVE  /\ GroupDependentData(data) \in Seq(SUBSET E)
         /\ Len(GroupDependentData(data)) <= Parts
         /\ \A i \in DOMAIN data : \E k \in DOMAIN GroupDependentData(data) :
                                      data[i] \subseteq GroupDependentData(data)[k]
<1> DEFINE L == Len(data)
           out == GroupDependentData(data)
<1>1. L \in Nat /\ DOMAIN data = 1 .. L /\ Parts \in Nat /\ Parts # 0
  BY SMT, CallAssumption
<1>2. CASE L <= Parts
  BY <1>1, <1>2 DEF GroupDependentData
<1>3. CASE ~ (L <= Parts)
  <2> DEFINE per == L \div Parts
             rest == L % Parts
             from(k) == IF k = 1 THEN 1 ELSE (k - 1) * per + rest + 1
             to(k) == IF k = 1 THEN per + rest ELSE k * per + rest
  <2>1. out = [k \in 1 .. Parts |-> IF k = 1 THEN Joined(data, 1, per + rest)
                                    ELSE Joined(data, (k - 1) * per + rest + 1, k * per + rest)]
    BY <1>3 DEF GroupDependentData
  <2> HIDE DEF out
  <2>2. per \in Nat /\ rest \in Nat /\ L = Parts * per + rest /\ per * Parts = Parts * per
    <3> HIDE DEF L
    <3>1. L \div Parts \in Nat /\ L % Parts \in Nat
      BY SMT, <1>1
    <3>2. L = Parts * (L \div Parts) + (L % Parts)
      BY SMT, <1>1
    <3> QED BY SMT, <1>1, <3>1, <3>2
  <2> HIDE DEF per, rest, L
  <2>3. \A k \in 1 .. Parts : to(k) \in Nat /\ to(k) <= L /\ from(k) \in Nat /\ from(k) >= 1
    <3> SUFFICES ASSUME NEW k \in 1 .. Parts
                 PROVE  to(k) \in Nat /\ to(k) <= L /\ from(k) \in Nat /\ from(k) >= 1
      OBVIOUS
    <3>1. \A a, b, c \in Nat : a * c \in Nat /\ (a <= b => a * c <= b * c)
      BY SMT
    <3>2. k \in Nat /\ k - 1 \in Nat /\ k <= Parts /\ 1 <= Parts /\ 1 * per = per
      BY SMT, <1>1, <2>2
    <3>3. k * per \in Nat /\ (k - 1) * per \in Nat /\ k * per <= Parts * per /\ per <= Parts * per
      BY SMT, <1>1, <2>2, <3>1, <3>2
    <3>4. \A a, b, c, d \in Nat : a <= b => a + d \in Nat /\ a + d <= b + d /\ c + d + 1 \in Nat
                                            /\ c + d + 1 >= 1
      BY SMT
    <3> QED BY SMT, <1>1, <2>2, <3>3, <3>4
  <2>4. \A k \in 1 .. Parts : out[k] = UNION {data[i] : i \in from(k) .. to(k)}
    BY <1>1, <2>1 DEF Joined
  <2>5. out \in Seq(SUBSET E) /\ Len(out) = Parts /\ DOMAIN out = 1 .. Parts
    <3>1. \A k \in 1 .. Parts : out[k] \in SUBSET E
      <4> SUFFICES ASSUME NEW k \in 1 .. Parts, NEW i \in from(k) .. to(k) PROVE data[i] \in SUBSET E
        BY SMT, <2>4
      <4>1. i \in 1 .. L
        <5> HIDE DEF from, to
        <5> QED BY SMT, <1>1, <2>3
      <4> QED BY SMT, <1>1, <4>1
    <3>2. out = [k \in 1 .. Parts |-> out[k]]
      BY <2>1
    <3> QED BY SMT, <1>1, <3>1, <3>2
  <2>6. ASSUME NEW i \in 1 .. L PROVE \E k \in 1 .. Parts : i \in from(k) .. to(k)
    <3> DEFINE T == {k \in Nat : k >= 1 /\ i <= k * per + rest}
    <3>1. T \in SUBSET Nat /\ Parts \in T
      BY SMT, <1>1, <2>2, <2>6
    <3>2. PICK m \in T : \A k \in T : m <= k
      <4> HIDE DEF T
      <4> QED BY <3>1, Least
    <3>3. m \in 1 .. Parts /\ i <= m * per + rest
      BY SMT, <1>1, <3>1, <3>2
    <3>4. CASE m = 1
      <4>1. 1 * per = per
        BY SMT, <2>2
      <4> QED BY SMT, <1>1, <2>2, <3>3, <3>4, <4>1
    <3>5. CASE m # 1
      <4>1. m - 1 \in Nat /\ m - 1 >= 1 /\ ~ (m <= m - 1) /\ (m - 1) * per \in Nat
        BY SMT, <1>1, <2>2, <3>3, <3>5
      <4>2. m - 1 \notin T
        BY <3>2, <4>1
      <4>3. ~ (i <= (m - 1) * per + rest)
        BY <4>1, <4>2
      <4>4. i >= (m - 1) * per + rest + 1
        BY SMT, <1>1, <2>2, <4>1, <4>3
      <4>5. m * per + rest \in Nat
        BY SMT, <2>2, <3>3
      <4>6. i \in from(m) .. to(m)
        BY SMT, <1>1, <2>2, <3>3, <3>5, <4>1, <4>4, <4>5
      <4> QED BY <3>3, <4>6
    <3> QED BY <3>4, <3>5
  <2>7. ASSUME NEW i \in 1 .. L PROVE \E k \in DOMAIN out : data[i] \subseteq out[k]
    <3>1. PICK k \in 1 .. Parts : i \in from(k) .. to(k)
      BY <2>6
    <3> HIDE DEF from, to
    <3> QED BY <2>4, <2>5, <3>1
  <2> QED BY SMT, <1>1, <2>5, <2>7 DEF out
<1> QED BY <1>2, <1>3

-----------------------------------------------------------------------------
(* The messages, and the thread.                                           *)

\* Calls that share a contract are in one message.
Together(p) ==
    \A t, u \in UNION Range(p) : Declared[t] \cap Declared[u] # {} =>
        \E q \in Range(p) : {t, u} \subseteq q

\* DistributionContractTx: from the calls D and the messages M, whatever order
\* the loops take.
LEMMA Distributed ==
  ASSUME NEW D, IsFiniteSet(D), NEW M,
         NEW groups \in Groupings([t \in D |-> Declared[t]]), NEW data,
         data = GroupDependentData(GetDependentData(groups, M))
  PROVE  /\ data \in Seq(SUBSET (D \cap M)) /\ Len(data) <= Parts
         /\ D \cap M \subseteq UNION Range(data) /\ Together(data)
<1> DEFINE dep == [t \in D |-> Declared[t]]
           kept == GetDependentData(groups, M)
           C == D \cap M
<1>1. /\ groups \in Seq(SUBSET D)
      /\ \A t \in D : \E k \in DOMAIN groups : CommonKeys(dep, t) \subseteq groups[k]
  <2>1. DOMAIN dep = D
    OBVIOUS
  <2> HIDE DEF dep
  <2>2. groups \in Groupings(dep)
    BY DEF dep
  <2> QED BY SMT, <2>1, <2>2, GroupsHold
<1>2. /\ kept \in Seq(SUBSET C)
      /\ \A i \in DOMAIN groups : groups[i] \cap M # {} =>
           \E k \in DOMAIN kept : kept[k] = groups[i] \cap M
  BY <1>1, MessagesHold
<1> HIDE DEF kept, C
<1>3. /\ data \in Seq(SUBSET C) /\ Len(data) <= Parts
      /\ \A i \in DOMAIN kept : \E k \in DOMAIN data : kept[i] \subseteq data[k]
  <2>1. data = GroupDependentData(kept)
    BY DEF kept
  <2> QED BY <1>2, <2>1, PartsHold
<1>4. \A t \in C : \E q \in Range(data) : CommonKeys(dep, t) \cap M \subseteq q
  <2> SUFFICES ASSUME NEW t \in C PROVE \E q \in Range(data) : CommonKeys(dep, t) \cap M \subseteq q
    OBVIOUS
  <2>1. t \in D /\ t \in M /\ t \in CommonKeys(dep, t)
    BY DEF C, CommonKeys
  <2> HIDE DEF dep
  <2>2. PICK i \in DOMAIN groups : CommonKeys(dep, t) \subseteq groups[i]
    BY <1>1, <2>1
  <2>3. groups[i] \cap M # {}
    BY <2>1, <2>2
  <2>4. PICK j \in DOMAIN kept : kept[j] = groups[i] \cap M
    BY <1>2, <2>3
  <2>5. PICK k \in DOMAIN data : kept[j] \subseteq data[k]
    BY <1>3
  <2>6. data[k] \in Range(data)
    BY DEF Range
  <2> QED BY <2>2, <2>4, <2>5, <2>6
<1>5. C \subseteq UNION Range(data)
  <2> SUFFICES ASSUME NEW t \in C PROVE \E q \in Range(data) : t \in q
    OBVIOUS
  <2>1. t \in CommonKeys(dep, t) \cap M
    BY DEF C, CommonKeys
  <2> QED BY <1>4, <2>1
<1>6. UNION Range(data) \subseteq C
  BY SMT, <1>3 DEF Range
<1>7. Together(data)
  <2> SUFFICES ASSUME NEW t \in UNION Range(data), NEW u \in UNION Range(data),
                      Declared[t] \cap Declared[u] # {}
               PROVE  \E q \in Range(data) : {t, u} \subseteq q
    BY DEF Together
  <2>1. t \in C /\ u \in C /\ t \in D /\ u \in D /\ t \in M /\ u \in M
    BY <1>6 DEF C
  <2>2. dep[t] = Declared[t] /\ dep[u] = Declared[u] /\ u \in DOMAIN dep
    BY <2>1
  <2>3. {t, u} \subseteq CommonKeys(dep, t) \cap M
    BY <2>1, <2>2 DEF CommonKeys, HasDuplicate
  <2>4. PICK q \in Range(data) : CommonKeys(dep, t) \cap M \subseteq q
    BY <1>4, <2>1
  <2> QED BY <2>3, <2>4
<1> QED BY <1>3, <1>5, <1>7 DEF C

DispIInv == DispTypeOK /\ parts \in Seq(SUBSET Calls) /\ DependentTogether /\ NoCallLeftOut

\* The dispatcher starts with nothing to send.
LEMMA InitDispIInv == ASSUME DispInit PROVE DispIInv
<1>1. parts \in Seq(SUBSET Calls) /\ Range(parts) = {} /\ Len(parts) = 0
  BY SMT DEF DispInit, Range
<1>2. DispTypeOK
  <2>1. Len(parts) <= Parts
    BY SMT, <1>1, CallAssumption
  <2>2. stage \in [Calls -> {"none", "valued", "info", "in"}]
    BY DEF DispInit
  <2> QED BY <2>1, <2>2 DEF DispInit, DispTypeOK
<1>3. DependentTogether /\ NoCallLeftOut
  BY <1>1 DEF DispInit, DependentTogether, NoCallLeftOut
<1> QED BY <1>1, <1>2, <1>3 DEF DispIInv

\* HandleContractTx: what it hands over while the thread sends is late.
LEMMA HandleIInv == ASSUME DispIInv, NEW t \in Calls, Handle(t) PROVE DispIInv'
<1> USE DEF DispIInv
<1>1. parts' = parts /\ place' = place
  BY DEF Handle, setValue, AddContractInfo, AddContractMsgReq
<1>2. DispTypeOK'
  <2>1. CASE setValue(t)
    <3>1. timeValue' \in Nat
      BY <2>1, CallAssumption DEF setValue, DispTypeOK
    <3> QED BY <2>1, <3>1 DEF setValue, DispTypeOK, caches
  <2>2. CASE AddContractInfo(t)
    BY <2>2 DEF AddContractInfo, DispTypeOK, Late, timing
  <2>3. CASE AddContractMsgReq(t)
    BY <2>3 DEF AddContractMsgReq, DispTypeOK, Late, timing
  <2> QED BY <2>1, <2>2, <2>3 DEF Handle
<1>3. DependentTogether'
  BY <1>1 DEF DependentTogether
<1>4. place = "sending" =>
        (dependent' \cap msgReq') \ late' \subseteq (dependent \cap msgReq) \ late
  BY DEF Handle, setValue, AddContractInfo, AddContractMsgReq, Late, caches
<1>5. NoCallLeftOut'
  BY <1>1, <1>4 DEF NoCallLeftOut
<1> QED BY <1>1, <1>2, <1>3, <1>5

\* The thread's rounds.
LEMMA RoundIInv == ASSUME DispIInv, Round PROVE DispIInv'
<1> USE DEF DispIInv
<1>0. Baseline \in Nat
  BY SMT, CallAssumption DEF Baseline, DispTypeOK
<1>1. CASE Wait
  <2>1. UNCHANGED <<stage, caches, isFirst, place, parts, tried, sent, late>>
    BY <1>1 DEF Wait
  <2>2. timeBaseline' \in Nat /\ timeValue' \in Nat
    BY SMT, <1>0, <1>1 DEF Wait, DispTypeOK
  <2>3. DispTypeOK'
    BY <2>1, <2>2 DEF DispTypeOK, caches
  <2>4. DependentTogether' /\ NoCallLeftOut'
    BY <2>1 DEF DependentTogether, NoCallLeftOut, caches
  <2> QED BY <2>1, <2>3, <2>4
<1>2. CASE Distribute
  <2>1. PICK groups \in Groupings([t \in dependent |-> Declared[t]]) :
          LET data == GroupDependentData(GetDependentData(groups, msgReq)) IN
          \E found \in SUBSET DOMAIN data :
            IF found = {}
            THEN UNCHANGED <<place, parts, sent>>
            ELSE /\ parts' = data
                 /\ sent' = sent \cup UNION {data[i] : i \in found}
                 /\ place' = "sending"
    BY <1>2 DEF Distribute
  <2> DEFINE data == GroupDependentData(GetDependentData(groups, msgReq))
  <2>2. PICK found \in SUBSET DOMAIN data :
          IF found = {}
          THEN UNCHANGED <<place, parts, sent>>
          ELSE /\ parts' = data
               /\ sent' = sent \cup UNION {data[i] : i \in found}
               /\ place' = "sending"
    BY <2>1
  <2>3. IsFiniteSet(dependent)
    BY FS_Subset, CallAssumption DEF DispTypeOK
  <2>4. /\ data \in Seq(SUBSET (dependent \cap msgReq)) /\ Len(data) <= Parts
        /\ dependent \cap msgReq \subseteq UNION Range(data) /\ Together(data)
    BY <2>3, Distributed
  <2> HIDE DEF data
  <2>5. /\ UNCHANGED <<stage, caches, timeValue, isFirst, late>> /\ timeBaseline' = Baseline
        /\ tried' = tried \cup dependent
    BY <1>2 DEF Distribute
  <2>6. CASE found = {}
    <3>1. UNCHANGED <<place, parts, sent>>
      BY <2>2, <2>6
    <3>2. DispTypeOK'
      BY <1>0, <2>5, <3>1 DEF DispTypeOK, caches
    <3>3. DependentTogether' /\ NoCallLeftOut'
      BY SMT, <2>5, <3>1 DEF DependentTogether, NoCallLeftOut, caches
    <3> QED BY <3>1, <3>2, <3>3
  <2>7. CASE found # {}
    <3>1. /\ parts' = data /\ sent' = sent \cup UNION {data[i] : i \in found}
          /\ place' = "sending"
      BY <2>2, <2>7
    <3>2. data \in Seq(SUBSET Calls) /\ \A i \in DOMAIN data : data[i] \subseteq Calls
      BY SMT, <2>4 DEF DispTypeOK
    <3>3. sent' \subseteq Calls
      BY <3>1, <3>2 DEF DispTypeOK
    <3>4. DispTypeOK'
      BY <1>0, <2>4, <2>5, <3>1, <3>3 DEF DispTypeOK, caches
    <3>5. DependentTogether'
      BY <2>4, <3>1, SMTT(30) DEF DependentTogether, Together
    <3>6. NoCallLeftOut'
      BY <2>4, <2>5, <3>1 DEF NoCallLeftOut, caches
    <3> QED BY <3>1, <3>2, <3>4, <3>5, <3>6
  <2> QED BY <2>6, <2>7
<1>3. CASE Clear
  <2>1. parts' = <<>> /\ place' = "loop"
    BY <1>3 DEF Clear
  <2>2. parts' \in Seq(SUBSET Calls) /\ Range(parts') = {} /\ Len(parts') = 0
    BY SMT, <2>1 DEF Range
  <2>3. DispTypeOK'
    <3>1. /\ dependent' = {} /\ msgReq' = {} /\ timeValue' = 0 /\ isFirst' = FALSE
          /\ timeBaseline' = 0 /\ UNCHANGED <<stage, tried, sent, late>>
      BY <1>3 DEF Clear
    <3>2. Len(parts') <= Parts
      BY SMT, <2>2, CallAssumption
    <3> QED BY <2>1, <3>1, <3>2 DEF DispTypeOK
  <2>4. DependentTogether' /\ NoCallLeftOut'
    BY <2>1, <2>2 DEF DependentTogether, NoCallLeftOut
  <2> QED BY <2>2, <2>3, <2>4
<1> QED BY <1>1, <1>2, <1>3 DEF Round

\* Every step keeps the invariant.
LEMMA NextDispIInv == DispIInv /\ [DispNext]_dispVars => DispIInv'
<1> SUFFICES ASSUME DispIInv, [DispNext]_dispVars PROVE DispIInv'
  OBVIOUS
<1>1. CASE UNCHANGED dispVars
  BY <1>1 DEF dispVars, caches, timing, DispIInv, DispTypeOK, DependentTogether, NoCallLeftOut
<1>2. CASE Round
  BY <1>2, RoundIInv
<1>3. ASSUME NEW t \in Calls, Handle(t) PROVE DispIInv'
  BY <1>3, HandleIInv
<1> QED BY <1>1, <1>2, <1>3 DEF DispNext

\* The dispatcher's variables have their types, and there are never more than
\* Parts messages.
THEOREM DispTypeCorrect == DispSpec => []DispTypeOK
<1>1. DispIInv => DispTypeOK
  BY DEF DispIInv
<1>2. DispInit => DispIInv
  BY InitDispIInv
<1> QED BY <1>1, <1>2, NextDispIInv, PTL DEF DispSpec

\* GetDependentData and GroupDependentData: two calls of one distribution that
\* share a contract are in one message, in whatever order the loops over the
\* unordered_map go and however few messages there may be.
THEOREM CallsTogether == DispSpec => []DependentTogether
<1>1. DispIInv => DependentTogether
  BY DEF DispIInv
<1>2. DispInit => DispIInv
  BY InitDispIInv
<1> QED BY <1>1, <1>2, NextDispIInv, PTL DEF DispSpec

\* DistributionContractTx leaves out no call that was there with its message when
\* the thread began to send.
THEOREM NoneLeftOut == DispSpec => []NoCallLeftOut
<1>1. DispIInv => NoCallLeftOut
  BY DEF DispIInv
<1>2. DispInit => DispIInv
  BY InitDispIInv
<1> QED BY <1>1, <1>2, NextDispIInv, PTL DEF DispSpec

-----------------------------------------------------------------------------
(* Heights.                                                                *)

\* A set of heights has a highest one, if there is a bound.
LEMMA HighestHeight ==
    ASSUME NEW b \in Nat, NEW T \in SUBSET (0 .. b), T # {}
    PROVE  \E m \in T : \A k \in T : k <= m
<1> DEFINE D == {b - k : k \in T}
<1>1. D \in SUBSET Nat /\ D # {}
    <2>1. \A k \in T : k \in 0 .. b
        OBVIOUS
    <2>2. \A k \in 0 .. b : b - k \in Nat
        BY SMT
    <2>3. \A d \in D : d \in Nat
        BY <2>1, <2>2
    <2>4. D # {}
        OBVIOUS
    <2> QED BY <2>3, <2>4
<1>2. PICK m \in D : \A k \in D : m <= k
    BY <1>1, Least
<1>3. PICK t \in T : m = b - t
    BY <1>2
<1>4. \A k \in T : b - t <= b - k
    BY <1>2, <1>3
<1>5. \A k \in T : k <= t
    BY SMT, <1>4
<1> QED BY <1>5

\* What the constants stand for makes heights numbers.
LEMMA HeightsAreNumbers ==
    0 \in Heights /\ Heights \subseteq Nat /\ \E b \in Nat : Heights = 0 .. b
<1>1. PICK b \in Heights : Heights = 0 .. b /\ b >= 0
    BY HeightAssumption
<1>2. b \in Nat
    BY SMT, <1>1
<1> QED BY SMT, <1>1, <1>2

\* The cache has a highest output.
LEMMA MaxUtxoHeightType ==
    ASSUME cache \subseteq Txs, cache # {}
    PROVE  MaxUtxoHeight \in Heights
<1> DEFINE H == {utxoHeight[t] : t \in cache}
<1>1. PICK b \in Nat : Heights = 0 .. b
    BY HeightsAreNumbers
<1>2. H \in SUBSET (0 .. b) /\ H # {}
    BY <1>1, HeightAssumption
<1> HIDE DEF H
<1>3. \E m \in H : \A k \in H : k <= m
    BY <1>1, <1>2, HighestHeight
<1>4. (CHOOSE h \in H : \A i \in H : i <= h) \in H
    BY <1>3
<1> QED BY <1>1, <1>2, <1>4 DEF MaxUtxoHeight, H

-----------------------------------------------------------------------------
(* GetBuildBlockHeight.                                                    *)

\* The nodes asked are nodes of the list.
LEMMA SatisfiedType ==
    ASSUME NEW q \in Qualified
    PROVE  Satisfied(q) \subseteq Peers /\ IsFiniteSet(Satisfied(q))
<1>1. Satisfied(q) \in SUBSET Peers
    BY HeightAssumption DEF Satisfied
<1> QED BY <1>1, FS_Subset, HeightAssumption

\* The last loop finds a height, and none below one that enough nodes reached.
LEMMA AgreedHeight ==
    ASSUME nodeHeight \in [Peers -> Heights],
           NEW S \in SUBSET Peers, IsFiniteSet(S), S # {},
           NEW low \in Nat, ThreeQuarters(S, low)
    PROVE  LET agreed == {h \in Occurring(S) : ThreeQuarters(S, h)}
               highest == CHOOSE h \in agreed : \A i \in agreed : i <= h
           IN  agreed # {} /\ highest \in agreed /\ highest \in Heights /\ low <= highest
<1> DEFINE agreed == {h \in Occurring(S) : ThreeQuarters(S, h)}
           highest == CHOOSE h \in agreed : \A i \in agreed : i <= h
           N == Reached(low) \cap S
           T == {nodeHeight[p] : p \in N}
<1>1. PICK b \in Nat : Heights = 0 .. b
    BY HeightsAreNumbers
<1>2. N # {}
    <2>1. Cardinality(S) \in Nat /\ Cardinality(S) # 0
        BY FS_CardinalityType, FS_EmptySet
    <2>2. Cardinality(N) # 0
        <3>1. 4 * Cardinality(N) >= 3 * Cardinality(S)
            BY DEF ThreeQuarters
        <3> HIDE DEF N
        <3> QED BY SMT, <2>1, <3>1
    <2> QED BY <2>2, FS_EmptySet
<1>3. T \in SUBSET Nat /\ T # {}
    <2>1. \A p \in N : nodeHeight[p] \in Nat
        BY SMT, <1>1
    <2>2. \A h \in T : h \in Nat
        BY <2>1
    <2>3. T # {}
        BY <1>2
    <2> QED BY <2>2, <2>3
<1>4. PICK m \in T : \A k \in T : m <= k
    BY <1>3, Least
<1>5. m \in Occurring(S) /\ m \in Nat /\ low <= m
    BY <1>1, <1>3, <1>4 DEF Occurring, Reached
<1>6. ThreeQuarters(S, m)
    <2> DEFINE M == Reached(m) \cap S
    <2>1. N \in SUBSET M
        BY <1>4 DEF Reached
    <2>2. IsFiniteSet(M)
        BY FS_Subset
    <2>3. Cardinality(N) <= Cardinality(M) /\ Cardinality(M) \in Nat
        BY <2>1, <2>2, FS_Subset, FS_CardinalityType
    <2>4. Cardinality(N) \in Nat /\ Cardinality(S) \in Nat
        <3>1. IsFiniteSet(N)
            BY FS_Subset
        <3> QED BY <3>1, FS_CardinalityType
    <2>5. 4 * Cardinality(N) >= 3 * Cardinality(S)
        BY DEF ThreeQuarters
    <2> HIDE DEF N, M
    <2>6. 4 * Cardinality(M) >= 3 * Cardinality(S)
        BY SMT, <2>3, <2>4, <2>5
    <2> QED BY <2>6 DEF ThreeQuarters, M
<1>7. m \in agreed
    BY <1>5, <1>6
<1>8. agreed \in SUBSET (0 .. b)
    BY <1>1 DEF Occurring
<1> HIDE DEF agreed
<1>9. \E h \in agreed : \A i \in agreed : i <= h
    BY <1>1, <1>7, <1>8, HighestHeight
<1>10. highest \in agreed /\ \A i \in agreed : i <= highest
    BY <1>9
<1>11. highest \in Heights /\ m <= highest
    BY <1>1, <1>7, <1>8, <1>10
<1> HIDE DEF highest
<1>12. low <= highest
    BY SMT, <1>1, <1>5, <1>11
<1> QED BY <1>7, <1>10, <1>11, <1>12 DEF highest, agreed

\* GetBuildBlockHeight returns an error, or a height; and a height that enough
\* nodes have reached whenever they have reached the outputs.
LEMMA BuildHeight ==
    ASSUME nodeHeight \in [Peers -> Heights], top \in Heights,
           cache \subseteq Txs, cache # {}, NEW q \in Qualified
    PROVE  LET S == Satisfied(q)
               height == GetBuildBlockHeight(q)
           IN  /\ height < 0 \/ height \in Heights
               /\ S # {} /\ ThreeQuarters(S, MaxUtxoHeight)
                    => height >= MaxUtxoHeight /\ ThreeQuarters(S, height)
<1> DEFINE S == Satisfied(q)
           low == MaxUtxoHeight
           height == GetBuildBlockHeight(q)
           agreed == {h \in Occurring(S) : ThreeQuarters(S, h)}
           highest == CHOOSE h \in agreed : \A i \in agreed : i <= h
<1>1. S \in SUBSET Peers /\ IsFiniteSet(S)
    BY SatisfiedType
<1>2. low \in Nat /\ Heights \subseteq Nat /\ top \in Nat
    BY MaxUtxoHeightType, HeightsAreNumbers
<1>3. CASE S = {} \/ ~ThreeQuarters(S, low)
    <2>1. height = -1 \/ height = -2
        BY <1>3 DEF GetBuildBlockHeight
    <2> QED BY SMT, <1>3, <2>1
<1>4. CASE S # {} /\ ThreeQuarters(S, low)
    <2>1. agreed # {} /\ highest \in agreed /\ highest \in Heights /\ low <= highest
        <3> HIDE DEF S, low
        <3> QED BY <1>1, <1>2, <1>4, AgreedHeight
    <2>2. ThreeQuarters(S, highest)
        <3> HIDE DEF highest
        <3> QED BY <2>1
    <2>3. HighestAgreed(S) = highest
        <3>1. ~(highest < low)
            <4> HIDE DEF highest, low
            <4> QED BY SMT, <1>2, <2>1
        <3> QED BY <2>1, <3>1 DEF HighestAgreed
    <2>4. \/ height = top /\ top >= low /\ ThreeQuarters(S, top)
          \/ height = highest
        BY <1>4, <2>3 DEF GetBuildBlockHeight
    <2>5. CASE height = top /\ top >= low /\ ThreeQuarters(S, top)
        BY <2>5
    <2>6. CASE height = highest
        <3> HIDE DEF highest, height, low, S
        <3>1. height \in Heights /\ height >= low /\ ThreeQuarters(S, height)
            BY <1>2, <2>1, <2>2, <2>6
        <3> QED BY <3>1 DEF height, low, S
    <2> QED BY <2>4, <2>5, <2>6
<1> QED BY <1>3, <1>4

-----------------------------------------------------------------------------
(* The thread.                                                             *)

\* While the thread waits, no UpdateTxMsg runs.
IInv == TypeOK /\ (phase = "waiting" => updating = {})

\* Init.
LEMMA InitIInv == Init => IInv
<1>1. 0 \in Heights
    BY HeightsAreNumbers
<1> QED BY <1>1 DEF Init, IInv, TypeOK

\* Every step keeps the invariant.
LEMMA NextIInv == IInv /\ [Next]_vars => IInv'
<1> SUFFICES ASSUME IInv, [Next]_vars PROVE IInv'
    OBVIOUS
<1>0. 0 \in Heights /\ Heights \subseteq Nat
    BY HeightsAreNumbers
<1> USE DEF IInv, TypeOK
<1>1. ASSUME NEW t \in Txs, AddCache(t) PROVE IInv'
    BY <1>1 DEF AddCache, round
<1>2. ASSUME NEW t \in Txs, AddFailed(t) PROVE IInv'
    <2>1. pending' \in [Heights -> SUBSET Txs]
        <3> DEFINE S == SUBSET Txs
        <3>1. pending[utxoHeight[t]] \cup {t} \in S /\ pending \in [Heights -> S]
            BY HeightAssumption
        <3> HIDE DEF S
        <3>2. pending' \in [Heights -> S]
            BY <1>2, <3>1 DEF AddFailed
        <3> QED BY <3>2 DEF S
    <2> QED BY <1>2, <2>1 DEF AddFailed, round
<1>3. CASE Check
    <2>1. handling' \subseteq Txs
        BY <1>3 DEF Check
    <2>2. pending' \in [Heights -> SUBSET Txs]
        <3> DEFINE S == SUBSET Txs
        <3>1. \A h \in Heights : pending[h] \in S /\ {} \in S
            OBVIOUS
        <3> HIDE DEF S
        <3>2. pending' \in [Heights -> S]
            BY <1>3, <3>1 DEF Check
        <3> QED BY <3>2 DEF S
    <2> QED BY <1>3, <2>1, <2>2 DEF Check, round
<1>4. CASE WakeUp
    <2>1. PICK q \in Qualified :
            LET height == GetBuildBlockHeight(q) IN
            IF height < 0
            THEN /\ cache' = {}
                 /\ UNCHANGED <<round, preHash>>
            ELSE /\ buildHeight' = height
                 /\ preHash' = CommitSeekTask(height)
                 /\ phase' = "updating" /\ updating' = cache
                 /\ buildTxs' = {} /\ updateFailed' = FALSE
                 /\ UNCHANGED cache
        BY <1>4 DEF WakeUp
    <2> DEFINE height == GetBuildBlockHeight(q)
    <2>2. height < 0 \/ height \in Heights
        BY <1>4, BuildHeight DEF WakeUp
    <2>3. phase = "waiting" /\ UNCHANGED <<nodeHeight, top, pending, handling>>
        BY <1>4 DEF WakeUp
    <2> HIDE DEF height
    <2>4. CASE height < 0
        BY <2>1, <2>3, <2>4 DEF round, height
    <2>5. CASE ~(height < 0)
        <3>1. /\ buildHeight' = height /\ preHash' = CommitSeekTask(height)
              /\ phase' = "updating" /\ updating' = cache
              /\ buildTxs' = {} /\ updateFailed' = FALSE /\ cache' = cache
            BY <2>1, <2>5 DEF height
        <3>2. height \in Heights
            BY <2>2, <2>5
        <3>3. preHash' \in [Heights -> {"none", "seeking", "found", "empty"}]
            BY <3>1, <3>2 DEF CommitSeekTask
        <3> QED BY <2>3, <3>1, <3>2, <3>3
    <2> QED BY <2>4, <2>5
<1>5. CASE Updated
    BY <1>0, <1>5 DEF Updated, EndRound
<1>6. CASE NoPredecessor
    BY <1>0, <1>6 DEF NoPredecessor, EndRound, ForceCommitSeekTask
<1>7. CASE BuildBlock
    BY <1>0, <1>7 DEF BuildBlock, EndRound
<1>8. CASE SeekOther
    BY <1>8 DEF SeekOther, CommitSeekTask, round
<1>9. CASE Grow
    BY <1>9 DEF Grow, round
<1>10. ASSUME NEW t \in Txs, UpdateTxMsg(t) PROVE IInv'
    BY <1>10 DEF UpdateTxMsg
<1>11. ASSUME NEW h \in Heights, SeekFound(h) \/ SeekFails(h) PROVE IInv'
    BY <1>11 DEF SeekFound, SeekFails, round
<1>12. CASE UNCHANGED vars
    BY <1>12 DEF vars, round
<1> QED BY <1>1, <1>2, <1>3, <1>4, <1>5, <1>6, <1>7, <1>8, <1>9, <1>10, <1>11, <1>12
        DEF Next, Thread

\* ca/transaction_cache.cpp: the thread's state keeps its types; in particular
\* buildHeight is a height whenever the thread goes on.
THEOREM CacheTypeCorrect == Spec => []TypeOK
<1>1. Init => IInv
    BY InitIInv
<1>2. IInv /\ [Next]_vars => IInv'
    BY NextIInv
<1>3. IInv => TypeOK
    BY DEF IInv
<1> QED BY <1>1, <1>2, <1>3, PTL DEF Spec

\* GetBuildBlockHeight (ca/transaction_cache.cpp): for any node list, whoever of
\* it is found qualified, and any transactions in the cache, a block is built on
\* a height that three quarters of the nodes asked have reached, not below an
\* output its transactions spend; the last loop never fails (-3, -4).
THEOREM BuildsOnReachedHeight == Spec => []BuildHeightReached
<1>1. Init => IInv
    BY InitIInv
<1>2. IInv /\ [Next]_vars => IInv'
    BY NextIInv
<1>3. IInv => BuildHeightReached
    <2> SUFFICES ASSUME IInv, cache # {}, NEW q \in Qualified
                 PROVE  LET S == Satisfied(q)
                            height == GetBuildBlockHeight(q)
                        IN  S # {} /\ ThreeQuarters(S, MaxUtxoHeight) =>
                                height >= MaxUtxoHeight /\ ThreeQuarters(S, height)
        BY DEF BuildHeightReached
    <2>1. nodeHeight \in [Peers -> Heights] /\ top \in Heights /\ cache \subseteq Txs
        BY DEF IInv, TypeOK
    <2> QED BY <2>1, BuildHeight
<1> QED BY <1>1, <1>2, <1>3, PTL DEF Spec
=============================================================================
