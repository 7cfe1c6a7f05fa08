----------------------- MODULE ContractPackagerProofs -----------------------
(***************************************************************************)
(* The blocks of contract calls a packager makes, for any calls, messages, *)
(* batches and threads, whenever the calls of each batch fall into groups  *)
(* that are apart (GroupsApart).                                           *)
(***************************************************************************)
EXTENDS ContractPackager, FiniteSetTheorems, WellFoundedInduction, TLAPS

\* Most leaves are first-order; those with arithmetic, sequences or records name SMT.
USE Zenon

-----------------------------------------------------------------------------
(* The inductive invariant.                                                *)

Jobs == ({"handle"} \X Messages) \cup ({"exec"} \X Nat)

Tasks == [todo : Seq(Txs), done : SUBSET Txs, pre : [Contracts -> Txs \cup {None}],
          pool : {"tx", "block", "none"}, res : Txs \cup {0, None}]

Types ==
    /\ queue \in Seq(Jobs)
    /\ stage \in [Messages -> Stages]
    /\ batch \in [Messages -> Nat] /\ \A m \in Messages : batch[m] \in DOMAIN Batches[m]
    /\ verified \in [Txs -> {"none", "running", "ok", "bad"}]
    /\ execs \in Seq(Tasks)
    /\ contractCache \subseteq Txs
    /\ info \in [Txs -> Results \cup {None}]
    /\ \A t \in Txs : info[t] # None => /\ info[t].pre \in [Touches[t] -> Int]
                                        /\ info[t].by \in DOMAIN execs
    /\ latest \in [Contracts -> Int] /\ \A c \in Contracts : latest[c] <= 0

\* The handler that owns _threadMutex is the only one past it, and one that is
\* queued is queued once.
Handlers ==
    /\ \A m \in Messages : stage[m] \in {"deal", "verifying", "executing", "process"} => mutex = m
    /\ \A k \in DOMAIN queue : queue[k][1] = "handle" =>
         /\ stage[queue[k][2]] = "queued"
         /\ \A l \in DOMAIN queue : queue[l] = queue[k] => l = k

\* DealContractTransaction has begun, and ProcessContract has not.
Active(m) == stage[m] \in {"verifying", "executing", "process"}

Undealt(m, i) ==
    i > batch[m] \/ (i = batch[m] /\ stage[m] \in {"none", "queued", "locking", "deal"})

\* The calls in _contractCache are verified, and they have results unless the
\* handler that brought them is still at work.
Calls ==
    /\ \A m \in Messages : \A i \in DOMAIN Batches[m] : \A t \in Batches[m][i] :
         Undealt(m, i) => verified[t] = "none"
    /\ \A t \in Txs : verified[t] = "running" =>
         \E m \in Messages : stage[m] = "verifying" /\ t \in Current(m)
    /\ \A t \in contractCache : verified[t] = "ok"
    /\ \A t \in contractCache : info[t] = None => \E m \in Messages : Active(m) /\ t \in Current(m)

\* Execution i is the one awaited for the calls g.
Held(i, g) ==
    \/ \E k \in DOMAIN deal.groups : i = deal.group[k] /\ g = deal.groups[k]
    \/ \E t \in DOMAIN deal.single : i = deal.single[t] /\ g = {t}

\* The locals of the handler at work: the awaited executions share its batch out.
Division(m) ==
    /\ deal \in [groups : Seq(SUBSET Txs), group : Seq(Nat),
                 single : UNION {[S -> Nat] : S \in SUBSET Txs}, latest : [Contracts -> Int]]
    /\ DOMAIN deal.group = DOMAIN deal.groups
    /\ \A k, l \in DOMAIN deal.group : deal.group[k] = deal.group[l] => k = l
    /\ \A i, g : Held(i, g) => i \in DOMAIN execs /\ g \subseteq Current(m)
    /\ \A i, g, j, h : Held(i, g) /\ Held(j, h) => (i = j => g = h) /\ (i # j => Apart(g, h))
    /\ \A t \in Current(m) : \/ \E i, g : Held(i, g) /\ t \in g
                             \/ (stage[m] # "verifying" /\ verified[t] = "bad")

\* How the outcomes of the verification are taken into account.
Outcomes(m) ==
    /\ \A t \in Current(m) : verified[t] # "none"
    /\ stage[m] # "process" =>
         \A t \in Current(m) : verified[t] = "ok" => t \in contractCache
    /\ stage[m] # "verifying" =>
         \A i, g : Held(i, g) => \A t \in g : verified[t] = "bad" => g = {t}

\* t has a result of execution i.
By(t, i) == info[t] # None /\ info[t].by = i

\* The results of an awaited execution: they rest on its calls only, and
\* name as predecessors its calls, no call twice, or what the database gave.
Ran(i, g) ==
    /\ \A t \in Txs : By(t, i) =>
         /\ t \in g /\ info[t].basis \subseteq g
         /\ \A c \in Touches[t] : \/ info[t].pre[c] \in g
                                  \/ /\ latest[c] <= info[t].pre[c]
                                     /\ info[t].pre[c] <= deal.latest[c]
    /\ \A t, u \in Txs : By(t, i) /\ By(u, i) /\ t # u =>
         \A c \in Touches[t] \cap Touches[u] : info[t].pre[c] # info[u].pre[c]

\* One that is not over: what it has left and what it has done make up its
\* calls, and contractPreHashCache names the last one done, which is nobody's
\* predecessor yet.
Doing(i, g) == LET e == execs[i] IN
    /\ g = e.done \cup Range(e.todo)
    /\ \A k \in DOMAIN e.todo : e.todo[k] \notin e.done
    /\ \A k, l \in DOMAIN e.todo : e.todo[k] = e.todo[l] => k = l
    /\ \A t \in Txs : By(t, i) => t \in e.done
    /\ \A t \in e.done : info[t] # None \/ verified[t] = "bad"
    /\ \A c \in Contracts : e.pre[c] # None => e.pre[c] \in e.done
    /\ \A t \in e.done : \A c \in Touches[t] : e.pre[c] # None
    /\ \A t \in Txs : By(t, i) => \A c \in Touches[t] :
         /\ info[t].pre[c] # e.pre[c]
         /\ info[t].pre[c] \in Txs => info[t].pre[c] \in e.done

\* One that is over: all its calls have results, or one of them failed.
Over(i, g) ==
    IF execs[i].res = 0 THEN \A t \in g : info[t] # None \/ verified[t] = "bad"
    ELSE execs[i].res \in g

\* After Executed the cache has all the calls of an execution or none.
Settled(i, g) ==
    /\ execs[i].res # None
    /\ execs[i].res = 0 => \A t \in g : verified[t] = "ok" => t \in contractCache
    /\ execs[i].res # 0 => g \cap contractCache = {}

Executions(m) ==
    /\ \A c \in Contracts : latest[c] <= deal.latest[c]
    /\ \A i, g : Held(i, g) =>
         /\ Ran(i, g)
         /\ IF execs[i].res = None THEN Doing(i, g) ELSE Over(i, g)
         /\ stage[m] = "process" => Settled(i, g)

Dealt(m) == Division(m) /\ Outcomes(m) /\ Executions(m)

PackInv ==
    /\ Types /\ Handlers /\ Calls
    /\ \A m \in Messages : Active(m) => Dealt(m)
    /\ OneLinePerContract /\ RestsOnItsBlock /\ FailureStaysInItsGroup

-----------------------------------------------------------------------------
(* A finite set of numbers in ascending order.                             *)

\* A set of numbers has a least element.
LEMMA Least == ASSUME NEW T \in SUBSET Nat, T # {} PROVE \E m \in T : \A k \in T : m <= k
<1> DEFINE R == OpToRel(<, Nat)
<1>1. IsWellFoundedOn(R, Nat)
  BY NatLessThanWellFounded
<1>2. \A x, y \in Nat : x < y => <<x, y>> \in R
  BY DEF OpToRel
<1> HIDE DEF R
<1>3. PICK x \in T : \A y \in T : ~ (<<y, x>> \in R)
  BY <1>1, WFMin
<1>4. \A y \in T : ~ (y < x)
  BY <1>2, <1>3
<1>5. \A y \in T : x <= y
  BY SMT, <1>4
<1> QED BY <1>5

Sorted(T) == \E s \in Orders(T) : \A i, j \in DOMAIN s : i < j => s[i] < s[j]

\* Its elements can be put in order: the least one comes before the others, which
\* are fewer.
LEMMA SortedExists == ASSUME NEW S \in SUBSET Nat, IsFiniteSet(S) PROVE Sorted(S)
<1> DEFINE Unsorted == {n \in Nat : \E T \in SUBSET Nat : IsFiniteSet(T) /\ Cardinality(T) = n /\ ~Sorted(T)}
<1> SUFFICES ASSUME Unsorted # {} PROVE FALSE
  BY FS_CardinalityType
<1>1. PICK n \in Unsorted : \A k \in Unsorted : n <= k
  <2>1. Unsorted \in SUBSET Nat
    OBVIOUS
  <2> HIDE DEF Unsorted
  <2> QED BY <2>1, Least
<1>2. PICK T \in SUBSET Nat : IsFiniteSet(T) /\ Cardinality(T) = n /\ ~Sorted(T)
  BY <1>1
<1>3. n \in Nat
  BY <1>1
<1>4. CASE T = {}
  <2>1. Cardinality(T) = 0
    BY <1>4, FS_EmptySet
  <2>2. <<>> \in Orders(T)
    BY SMT, <2>1 DEF Orders, Injection, IsInjective
  <2> QED BY SMT, <1>2, <2>2 DEF Sorted
<1>5. CASE T # {}
  <2>1. PICK x \in T : \A k \in T : x <= k
    BY <1>5, Least
  <2> DEFINE U == T \ {x}
  <2>2. U \in SUBSET Nat /\ IsFiniteSet(U) /\ Cardinality(U) = n - 1
    BY <1>2, FS_RemoveElement
  <2>3. n - 1 \in Nat
    BY <2>2, FS_CardinalityType
  <2>4. n - 1 \notin Unsorted
    BY SMT, <1>1, <1>3, <2>3
  <2>5. Sorted(U)
    BY <2>2, <2>3, <2>4
  <2>6. PICK u \in [1 .. n - 1 -> U] : /\ \A i, j \in 1 .. n - 1 : u[i] = u[j] => i = j
                                       /\ \A i, j \in 1 .. n - 1 : i < j => u[i] < u[j]
    BY <2>2, <2>5 DEF Sorted, Orders, Injection, IsInjective
  <2> DEFINE s == [k \in 1 .. n |-> IF k = 1 THEN x ELSE u[k - 1]]
  <2>7. \A k \in 1 .. n : k # 1 => k - 1 \in 1 .. n - 1 /\ s[k] = u[k - 1] /\ u[k - 1] \in U
    BY SMT, <1>3, <2>6
  <2>8. \A k \in U : x < k
    BY SMT, <2>1
  <2>9. \A k \in 1 .. n : k = 1 => s[k] = x
    OBVIOUS
  <2>10. s \in [1 .. n -> T]
    BY <2>7, <2>9
  <2>11. \A i, j \in 1 .. n : i < j => s[i] < s[j]
    <3> SUFFICES ASSUME NEW i \in 1 .. n, NEW j \in 1 .. n, i < j PROVE s[i] < s[j]
      OBVIOUS
    <3>1. j # 1 /\ s[j] = u[j - 1] /\ j - 1 \in 1 .. n - 1 /\ u[j - 1] \in U
      BY SMT, <1>3, <2>7
    <3>2. CASE i = 1
      BY <2>8, <2>9, <3>1, <3>2
    <3>3. CASE i # 1
      <4>1. s[i] = u[i - 1] /\ i - 1 \in 1 .. n - 1 /\ i - 1 < j - 1
        BY SMT, <1>3, <2>7, <3>3
      <4> QED BY <2>6, <3>1, <4>1
    <3> QED BY <3>2, <3>3
  <2>12. \A i, j \in 1 .. n : s[i] = s[j] => i = j
    <3>1. \A i, j \in 1 .. n : i < j \/ j < i \/ i = j
      BY SMT, <1>3
    <3>2. \A i \in 1 .. n : s[i] \in Nat
      BY <2>10
    <3> HIDE DEF s
    <3> QED BY SMT, <2>11, <3>1, <3>2
  <2>13. s \in Orders(T)
    <3> HIDE DEF s
    <3> QED BY <1>2, <2>10, <2>12 DEF Orders, Injection, IsInjective
  <2>14. DOMAIN s = 1 .. n
    OBVIOUS
  <2> HIDE DEF s
  <2> QED BY <1>2, <2>11, <2>13, <2>14 DEF Sorted
<1> QED BY <1>4, <1>5

\* Ascending names every element once.
LEMMA AscendingOf ==
  ASSUME NEW S \in SUBSET Nat, IsFiniteSet(S)
  PROVE  /\ Ascending(S) \in Seq(S)
         /\ \A i, j \in DOMAIN Ascending(S) : Ascending(S)[i] = Ascending(S)[j] => i = j
         /\ \A x \in S : \E i \in DOMAIN Ascending(S) : Ascending(S)[i] = x
<1> DEFINE n == Cardinality(S)
           s == Ascending(S)
<1>1. s \in Orders(S)
  BY SortedExists DEF Sorted, Ascending
<1>2. n \in Nat
  BY FS_CardinalityType
<1>3. s \in Injection(1 .. n, S)
  BY <1>1 DEF Orders
<1>4. Cardinality(1 .. n) = n
  <2>1. 1 \in Int /\ n \in Int /\ (IF 1 > n THEN 0 ELSE n - 1 + 1) = n
    BY SMT, <1>2
  <2> QED BY <2>1, FS_Interval
<1> HIDE DEF s, n
<1>5. s \in Surjection(1 .. n, S)
  BY <1>3, <1>4, FS_Injection DEF n
<1>6. s \in [1 .. n -> S] /\ \A i, j \in 1 .. n : s[i] = s[j] => i = j
  BY <1>3 DEF Injection, IsInjective
<1>7. \A x \in S : \E i \in 1 .. n : s[i] = x
  BY <1>5 DEF Surjection
<1> QED BY SMT, <1>2, <1>6, <1>7 DEF s

\* Where an element of a sequence is.
LEMMA PlaceOf ==
  ASSUME NEW s, NEW i \in DOMAIN s
  PROVE  Place(s, s[i]) \in DOMAIN s /\ s[Place(s, s[i])] = s[i]
BY DEF Place

\* A task without calls.
LEMMA ReturnedTask ==
  ASSUME NEW r \in Txs \cup {0, None}
  PROVE  Returned(r) \in Tasks /\ Returned(r).res = r
<1>1. Ascending({}) \in Seq({})
  BY AscendingOf, FS_EmptySet
<1>2. Ascending({}) \in Seq(Txs)
  BY SMT, <1>1
<1> HIDE DEF Ascending
<1> QED BY <1>2 DEF Returned, Task, Tasks

-----------------------------------------------------------------------------
(* Facts that several steps need.                                          *)

\* A sequence with one more element.
LEMMA AppendSeq ==
  ASSUME NEW S, NEW s \in Seq(S), NEW x \in S
  PROVE  /\ Append(s, x) \in Seq(S)
         /\ \A k \in DOMAIN Append(s, x) : \/ k \in DOMAIN s /\ Append(s, x)[k] = s[k]
                                           \/ k = Len(s) + 1 /\ Append(s, x)[k] = x /\ k \notin DOMAIN s
BY SMT

\* The calls of the batch a handler is at.
LEMMA CurrentTxs ==
  ASSUME Types, NEW m \in Messages
  PROVE  /\ batch[m] \in DOMAIN Batches[m] /\ Current(m) = Batches[m][batch[m]]
         /\ Current(m) \subseteq Txs /\ IsFiniteSet(Current(m))
<1>1. batch[m] \in DOMAIN Batches[m]
  BY DEF Types
<1>2. Batches[m] \in Seq(SUBSET Txs) /\ IsFiniteSet(Batches[m][batch[m]])
  BY <1>1, CallAssumption
<1> QED BY SMT, <1>1, <1>2 DEF Current

\* _threadMutex lets one handler at a time past it.
LEMMA OneWorks ==
  ASSUME Handlers, NEW m \in Messages, NEW n \in Messages,
         stage[m] \in {"deal", "verifying", "executing", "process"},
         stage[n] \in {"deal", "verifying", "executing", "process"}
  PROVE  m = n
BY DEF Handlers

\* The same, as facts about the handlers at work.
LEMMA OneActive ==
  ASSUME Handlers, NEW m \in Messages, Active(m)
  PROVE  \A n \in Messages : n # m => stage[n] \notin {"deal", "verifying", "executing", "process"}
                                      /\ ~Active(n)
BY DEF Handlers, Active

\* While the mutex is free nobody is past it.
LEMMA NobodyWorks ==
  ASSUME Handlers, mutex = None
  PROVE  \A n \in Messages : stage[n] \notin {"deal", "verifying", "executing", "process"}
                             /\ ~Active(n)
BY CallAssumption DEF Handlers, Active

-----------------------------------------------------------------------------
(* The steps of the transaction pool and of the mutex.                     *)

\* The three properties are about the last outcome only.
LEMMA SameOutcome ==
  ASSUME PackInv, outcome' = outcome
  PROVE  OneLinePerContract' /\ RestsOnItsBlock' /\ FailureStaysInItsGroup'
BY SMT DEF PackInv, OneLinePerContract, RestsOnItsBlock, FailureStaysInItsGroup, Own

\* What is awaited is an execution of calls of the batch.
LEMMA HeldInBatch ==
  ASSUME NEW m, Division(m), NEW i, NEW g, Held(i, g)
  PROVE  i \in DOMAIN execs /\ g \subseteq Current(m)
BY DEF Division

\* Two executions that are awaited have nothing in common.
LEMMA HeldApart ==
  ASSUME NEW m, Division(m), NEW i, NEW g, Held(i, g), NEW j, NEW h, Held(j, h), i # j
  PROVE  Apart(g, h)
BY DEF Division

\* What makes up a division after a step.
LEMMA DivisionOf ==
  ASSUME NEW m, Current(m)' = Current(m),
         deal' \in [groups : Seq(SUBSET Txs), group : Seq(Nat),
                    single : UNION {[S -> Nat] : S \in SUBSET Txs}, latest : [Contracts -> Int]],
         DOMAIN deal'.group = DOMAIN deal'.groups,
         \A k, l \in DOMAIN deal'.group : deal'.group[k] = deal'.group[l] => k = l,
         \A i, g : Held(i, g)' => i \in DOMAIN execs' /\ g \subseteq Current(m),
         \A i, g, j, h : Held(i, g)' /\ Held(j, h)' => (i = j => g = h) /\ (i # j => Apart(g, h)),
         \A t \in Current(m) : \/ \E i, g : Held(i, g)' /\ t \in g
                               \/ (stage'[m] # "verifying" /\ verified'[t] = "bad")
  PROVE  Division(m)'
BY SMT DEF Division

\* How the batch is shared out does not change in a step that leaves the handler's
\* locals alone.
LEMMA SameDivision ==
  ASSUME NEW m, Division(m), deal' = deal, Current(m)' = Current(m),
         \A i \in DOMAIN execs : i \in DOMAIN execs',
         \A t \in Current(m) : stage[m] # "verifying" /\ verified[t] = "bad" =>
                              stage'[m] # "verifying" /\ verified'[t] = "bad"
  PROVE  Division(m)'
<1>1. \A i, g : Held(i, g)' <=> Held(i, g)
  BY DEF Held
<1>2. /\ \A i, g : Held(i, g) => i \in DOMAIN execs /\ g \subseteq Current(m)
      /\ \A i, g, j, h : Held(i, g) /\ Held(j, h) => (i = j => g = h) /\ (i # j => Apart(g, h))
      /\ \A t \in Current(m) : \/ \E i, g : Held(i, g) /\ t \in g
                               \/ (stage[m] # "verifying" /\ verified[t] = "bad")
  BY DEF Division
<1>3. \A i, g : Held(i, g)' => i \in DOMAIN execs' /\ g \subseteq Current(m)
  BY <1>1, <1>2
<1>4. \A i, g, j, h : Held(i, g)' /\ Held(j, h)' => (i = j => g = h) /\ (i # j => Apart(g, h))
  BY <1>1, <1>2
<1>5. \A t \in Current(m) : \/ \E i, g : Held(i, g)' /\ t \in g
                            \/ (stage'[m] # "verifying" /\ verified'[t] = "bad")
  BY <1>1, <1>2
<1>6. /\ deal' \in [groups : Seq(SUBSET Txs), group : Seq(Nat),
                     single : UNION {[S -> Nat] : S \in SUBSET Txs}, latest : [Contracts -> Int]]
      /\ DOMAIN deal'.group = DOMAIN deal'.groups
      /\ \A k, l \in DOMAIN deal'.group : deal'.group[k] = deal'.group[l] => k = l
  BY DEF Division
<1> QED BY SMT, <1>3, <1>4, <1>5, <1>6, DivisionOf

\* A refused call is alone in its execution, once the refusals are looked at.
LEMMA RefusedAlone ==
  ASSUME NEW m, Outcomes(m), stage[m] = "process", NEW i, NEW g, Held(i, g),
         NEW t \in g, NEW y \in g, verified[t] = "ok"
  PROVE  verified[y] # "bad"
<1>1. stage[m] # "verifying"
  BY SMT
<1>2. verified[y] = "bad" => g = {y}
  BY <1>1 DEF Outcomes
<1> QED BY SMT, <1>2

\* The predecessor that an execution finds for a contract of its next call.
LEMMA Predecessor ==
  ASSUME NEW e, NEW x, NEW r, Touches[x] \subseteq Contracts, Txs \subseteq Nat \ {0},
         e.pre \in [Contracts -> Txs \cup {None}], r.pre = PreHash(e, x),
         latest \in [Contracts -> Int], NEW c \in Touches[x]
  PROVE  /\ e.pre[c] \in Txs \cup {None} /\ latest[c] \in Int
         /\ r.pre[c] = IF e.pre[c] # None THEN e.pre[c] ELSE latest[c]
         /\ r.pre[c] \in Int
<1>1. c \in Contracts /\ e.pre[c] \in Txs \cup {None} /\ latest[c] \in Int
  OBVIOUS
<1>2. r.pre[c] = IF e.pre[c] # None THEN e.pre[c] ELSE latest[c]
  BY DEF PreHash
<1>3. \A v \in Nat \ {0} : v \in Int
  BY SMT
<1>4. e.pre[c] # None => e.pre[c] \in Int
  BY <1>1, <1>3
<1> QED BY <1>1, <1>2, <1>4

\* A step that only moves handlers on their way to the mutex keeps the invariant.
LEMMA QuietKeeps ==
  ASSUME PackInv,
         UNCHANGED <<batch, verified, execs, deal, contractCache, info, latest, outcome>>,
         queue' \in Seq(Jobs), stage' \in [Messages -> Stages], Handlers',
         \A m \in Messages : \/ stage'[m] = stage[m]
                             \/ /\ stage[m] \in {"none", "queued", "locking"}
                                /\ stage'[m] \in {"queued", "locking", "deal", "done"}
  PROVE  PackInv'
<1>1. Types'
  BY DEF PackInv, Types
<1>2. \A m \in Messages : /\ Active(m)' <=> Active(m)
                          /\ Active(m) => stage'[m] = stage[m]
                          /\ stage'[m] = "verifying" <=> stage[m] = "verifying"
  BY DEF Active
<1>3. \A m \in Messages : Current(m)' = Current(m)
  BY DEF Current
<1>4. Calls'
  <2>1. \A m \in Messages : \A i \in DOMAIN Batches[m] : Undealt(m, i)' => Undealt(m, i)
    BY DEF Undealt
  <2> QED BY SMT, <2>1, <1>2, <1>3 DEF PackInv, Calls
<1>5. \A i, g : Held(i, g)' <=> Held(i, g)
  BY DEF Held
<1>6. ASSUME NEW m \in Messages, Active(m)'
      PROVE  Dealt(m)'
  <2>1. Dealt(m) /\ stage'[m] = stage[m]
    BY <1>2, <1>6 DEF PackInv
  <2>2. Division(m)'
    BY <2>1, <1>3, SameDivision DEF Dealt
  <2>3. Outcomes(m)'
    BY <2>1, <1>3, <1>5 DEF Dealt, Outcomes
  <2>4. \A i, g : /\ Ran(i, g) => Ran(i, g)'
                  /\ Doing(i, g) => Doing(i, g)'
                  /\ Over(i, g) => Over(i, g)'
                  /\ Settled(i, g) => Settled(i, g)'
    BY SMT DEF Ran, Doing, Over, Settled, By
  <2>5. Executions(m)'
    BY <2>1, <2>4, <1>5 DEF Dealt, Executions
  <2> QED BY <2>2, <2>3, <2>5 DEF Dealt
<1>7. OneLinePerContract' /\ RestsOnItsBlock' /\ FailureStaysInItsGroup'
  BY SameOutcome
<1> QED BY <1>1, <1>4, <1>6, <1>7 DEF PackInv

\* A thread of the transaction pool takes a task.
LEMMA TakeKeeps == ASSUME PackInv, Take PROVE PackInv'
<1>0. Types /\ Handlers
  BY DEF PackInv
<1> DEFINE job == Head(queue)
<1>1. /\ queue # <<>> /\ queue \in Seq(Jobs) /\ stage \in [Messages -> Stages]
      /\ queue' = Tail(queue) /\ mutex' = mutex
      /\ stage' = IF job[1] = "handle" THEN [stage EXCEPT ![job[2]] = "locking"] ELSE stage
  BY <1>0 DEF Take, Types
<1>2. /\ 1 \in DOMAIN queue /\ job = queue[1] /\ job \in Jobs
      /\ \A k \in DOMAIN Tail(queue) : k + 1 \in DOMAIN queue /\ Tail(queue)[k] = queue[k + 1]
                                       /\ k \in Nat \ {0}
  BY SMT, <1>1
<1>3. \A k \in DOMAIN queue : queue[k] \in Jobs
  BY SMT, <1>1
<1>4. queue' \in Seq(Jobs)
  BY SMT, <1>1
<1> HIDE DEF job
<1>5. \/ stage' = stage
      \/ /\ job[2] \in Messages /\ stage[job[2]] = "queued" /\ job = <<"handle", job[2]>>
         /\ stage' = [stage EXCEPT ![job[2]] = "locking"]
  BY SMT, <1>0, <1>1, <1>2 DEF Jobs, Handlers
<1>6. stage' \in [Messages -> Stages]
  BY <1>1, <1>5 DEF Stages
<1>7. \A n \in Messages : \/ stage'[n] = stage[n]
                          \/ stage[n] = "queued" /\ stage'[n] = "locking" /\ job = <<"handle", n>>
  BY <1>1, <1>5
<1>8. Handlers'
  <2>1. ASSUME NEW k \in DOMAIN queue', queue'[k][1] = "handle"
        PROVE  stage'[queue'[k][2]] = "queued" /\ \A l \in DOMAIN queue' : queue'[l] = queue'[k] => l = k
    <3>1. /\ k + 1 \in DOMAIN queue /\ queue'[k] = queue[k + 1] /\ queue[k + 1] \in Jobs
          /\ k \in Nat \ {0}
      BY <1>1, <1>2, <1>3
    <3>2. /\ stage[queue[k + 1][2]] = "queued"
          /\ \A l \in DOMAIN queue : queue[l] = queue[k + 1] => l = k + 1
      BY <1>0, <2>1, <3>1 DEF Handlers
    <3>3. queue[1] # queue[k + 1]
      BY SMT, <3>1, <3>2, <1>2
    <3>4. queue[k + 1] = <<"handle", queue[k + 1][2]>> /\ queue[k + 1][2] \in Messages
      BY SMT, <3>1, <2>1 DEF Jobs
    <3>5. stage'[queue'[k][2]] = "queued"
      BY SMT, <3>1, <3>2, <3>3, <3>4, <1>2, <1>7
    <3>6. \A l \in DOMAIN queue' : queue'[l] = queue'[k] => l = k
      BY SMT, <3>1, <3>2, <1>1, <1>2
    <3> QED BY <3>5, <3>6
  <2>2. \A n \in Messages : stage'[n] \in {"deal", "verifying", "executing", "process"} => mutex' = n
    BY <1>0, <1>1, <1>7 DEF Handlers
  <2> QED BY <1>0, <2>1, <2>2 DEF Handlers
<1> QED BY <1>4, <1>6, <1>7, <1>8, QuietKeeps DEF Take

\* Messages arrive, are rejected or get the mutex.
LEMMA PoolKeeps ==
  ASSUME PackInv, NEW m \in Messages, Receive(m) \/ Reject(m) \/ Lock(m)
  PROVE  PackInv'
<1>0. Types /\ Handlers
  BY DEF PackInv
<1>1. CASE Receive(m)
  <2>1. /\ stage[m] = "none" /\ stage \in [Messages -> Stages] /\ queue \in Seq(Jobs)
        /\ \/ stage' = [stage EXCEPT ![m] = "locking"] /\ queue' = queue
           \/ /\ stage' = [stage EXCEPT ![m] = "queued"]
              /\ queue' = Append(queue, <<"handle", m>>)
    BY <1>0, <1>1 DEF Receive, Types
  <2>2. \A k \in DOMAIN queue : queue[k] # <<"handle", m>>
    BY SMT, <1>0, <2>1 DEF Handlers
  <2>3. <<"handle", m>> \in Jobs
    BY DEF Jobs
  <2>a. /\ Append(queue, <<"handle", m>>) \in Seq(Jobs)
        /\ \A k \in DOMAIN Append(queue, <<"handle", m>>) :
             \/ k \in DOMAIN queue /\ Append(queue, <<"handle", m>>)[k] = queue[k]
             \/ /\ k = Len(queue) + 1 /\ k \notin DOMAIN queue
                /\ Append(queue, <<"handle", m>>)[k] = <<"handle", m>>
    BY SMT, <2>1, <2>3, AppendSeq
  <2>4. queue' \in Seq(Jobs) /\ stage' \in [Messages -> Stages]
    <3>1. queue' \in Seq(Jobs)
      BY <2>1, <2>a
    <3>2. stage' \in [Messages -> Stages]
      BY <2>1 DEF Stages
    <3> QED BY <3>1, <3>2
  <2>b. queue' # queue => queue' = Append(queue, <<"handle", m>>) /\ stage'[m] = "queued"
    BY <2>1
  <2>5. \A n \in Messages : stage'[n] = stage[n] \/ (n = m /\ stage'[n] \in {"queued", "locking"})
    BY <2>1
  <2>6. mutex' = mutex
    BY <1>1 DEF Receive
  <2>7. \A k \in DOMAIN queue' : \/ k \in DOMAIN queue /\ queue'[k] = queue[k]
                                 \/ /\ k = Len(queue) + 1 /\ queue'[k] = <<"handle", m>>
                                    /\ stage'[m] = "queued" /\ k \notin DOMAIN queue
    BY <2>a, <2>b
  <2>8. \A k \in DOMAIN queue : queue[k][1] = "handle" => queue[k][2] # m /\ queue[k][2] \in Messages
    BY SMT, <1>0, <2>1 DEF Handlers, Jobs
  <2>9. Handlers'
    <3>1. \A k \in DOMAIN queue' : queue'[k][1] = "handle" => stage'[queue'[k][2]] = "queued"
      <4>1. \A k \in DOMAIN queue : queue[k][1] = "handle" => stage'[queue[k][2]] = "queued"
        BY <1>0, <2>5, <2>8 DEF Handlers
      <4>2. <<"handle", m>>[2] = m
        BY SMT
      <4> QED BY <2>7, <4>1, <4>2
    <3>2. \A k, l \in DOMAIN queue' : queue'[k][1] = "handle" /\ queue'[l] = queue'[k] => l = k
      BY <1>0, <2>2, <2>7 DEF Handlers
    <3>3. \A n \in Messages : stage'[n] \in {"deal", "verifying", "executing", "process"} => mutex' = n
      BY <1>0, <2>5, <2>6 DEF Handlers
    <3> QED BY <1>0, <3>1, <3>2, <3>3 DEF Handlers
  <2> QED BY <1>1, <2>1, <2>4, <2>5, <2>9, QuietKeeps DEF Receive
<1>2. CASE Reject(m) \/ Lock(m)
  <2>1. /\ stage[m] = "locking" /\ stage \in [Messages -> Stages] /\ mutex = None
        /\ \/ stage' = [stage EXCEPT ![m] = "done"] /\ mutex' = None
           \/ stage' = [stage EXCEPT ![m] = "deal"] /\ mutex' = m
        /\ queue' = queue /\ queue \in Seq(Jobs)
    BY <1>0, <1>2 DEF Reject, Lock, Types
  <2>2. stage' \in [Messages -> Stages] /\ queue' \in Seq(Jobs)
    BY <2>1 DEF Stages
  <2>3. \A n \in Messages : stage'[n] = stage[n] \/ (n = m /\ stage'[m] \in {"deal", "done"})
    BY <2>1
  <2>4. Handlers'
    <3>1. \A n \in Messages : stage'[n] \in {"deal", "verifying", "executing", "process"} => mutex' = n
      BY <1>0, <2>1, <2>3, NobodyWorks
    <3>2. \A k \in DOMAIN queue : queue[k][1] = "handle" => queue[k][2] # m /\ queue[k][2] \in Messages
      BY SMT, <1>0, <2>1 DEF Handlers, Jobs
    <3> QED BY <1>0, <2>1, <2>3, <3>1, <3>2 DEF Handlers
  <2> QED BY <1>2, <2>1, <2>2, <2>3, <2>4, QuietKeeps DEF Reject, Lock
<1> QED BY <1>1, <1>2

-----------------------------------------------------------------------------
(* Verifications, and blocks that are saved meanwhile.                     *)

\* A verification task ends while its handler waits for it.
LEMMA VerifyKeeps ==
  ASSUME PackInv, NEW x \in Txs, VerifyTx(x)
  PROVE  PackInv'
<1>0. Types /\ Handlers /\ Calls /\ \A m \in Messages : Active(m) => Dealt(m)
  BY DEF PackInv
<1>1. /\ verified[x] = "running" /\ verified'[x] \in {"ok", "bad"}
      /\ verified' \in [Txs -> {"none", "running", "ok", "bad"}]
      /\ \A t \in Txs : t # x => verified'[t] = verified[t]
      /\ contractCache' = IF verified'[x] = "ok" THEN contractCache \cup {x} ELSE contractCache
      /\ UNCHANGED <<queue, mutex, stage, batch, execs, deal, info, latest, outcome>>
  BY <1>0 DEF VerifyTx, Types
<1>2. PICK m \in Messages : stage[m] = "verifying" /\ x \in Current(m)
  BY <1>0, <1>1 DEF Calls
<1>3. \A n \in Messages : /\ Current(n)' = Current(n) /\ (Active(n)' <=> Active(n))
                          /\ \A i : Undealt(n, i)' <=> Undealt(n, i)
  BY <1>1 DEF Current, Active, Undealt
<1>4. Types'
  BY <1>0, <1>1 DEF Types
<1>5. Handlers'
  BY <1>0, <1>1 DEF Handlers
<1>6. Calls'
  <2>1. \A n \in Messages : \A i \in DOMAIN Batches[n] : \A t \in Batches[n][i] :
          Undealt(n, i) => verified'[t] = "none"
    <3> SUFFICES ASSUME NEW n \in Messages, NEW i \in DOMAIN Batches[n], NEW t \in Batches[n][i],
                        Undealt(n, i)
                 PROVE  verified'[t] = "none"
      OBVIOUS
    <3>1. verified[t] = "none"
      BY <1>0 DEF Calls
    <3>2. t \in Txs
      BY SMT, CallAssumption
    <3> QED BY <3>1, <3>2, <1>1
  <2>2. \A t \in Txs : verified'[t] = "running" =>
          \E n \in Messages : stage[n] = "verifying" /\ t \in Current(n)
    BY <1>0, <1>1 DEF Calls
  <2>3. \A t \in contractCache' : verified'[t] = "ok"
    BY <1>0, <1>1 DEF Calls, Types
  <2>4. \A t \in contractCache' : info[t] = None => \E n \in Messages : Active(n) /\ t \in Current(n)
    BY <1>0, <1>1, <1>2 DEF Calls, Active
  <2> QED BY <2>1, <2>2, <2>3, <2>4, <1>1, <1>3 DEF Calls
<1>7. ASSUME NEW n \in Messages, Active(n)'
      PROVE  Dealt(n)'
  <2>1. n = m /\ Dealt(m) /\ stage'[m] = "verifying" /\ stage[m] = "verifying"
    <3>1. Active(m) /\ Active(n)
      BY <1>2, <1>3, <1>7 DEF Active
    <3> QED BY <3>1, <1>0, <1>1, <1>2, OneActive
  <2>2. \A i, g : Held(i, g)' <=> Held(i, g)
    BY <1>1 DEF Held
  <2>3. Current(m) \subseteq Txs
    BY <1>0, CurrentTxs
  <2>4. Division(m)'
    BY <2>1, <1>1, <1>3, SameDivision DEF Dealt
  <2>5. Outcomes(m)'
    BY SMT, <2>1, <2>2, <2>3, <1>1, <1>3 DEF Dealt, Outcomes
  <2>6. \A t \in Txs : verified[t] = "bad" => verified'[t] = "bad"
    BY <1>1
  <2>7. ASSUME NEW i, NEW g, Held(i, g)
        PROVE  Ran(i, g)' /\ IF execs'[i].res = None THEN Doing(i, g)' ELSE Over(i, g)'
    <3>1. /\ Ran(i, g) /\ g \subseteq Txs
          /\ IF execs[i].res = None THEN Doing(i, g) ELSE Over(i, g)
      BY <2>1, <2>3, <2>7 DEF Dealt, Division, Executions
    <3>2. Ran(i, g)'
      BY <3>1, <1>1 DEF Ran, By
    <3>3. CASE execs[i].res = None
      <4>1. Doing(i, g) /\ execs[i].done \subseteq Txs
        BY <3>1, <3>3 DEF Doing
      <4>2. execs' = execs /\ info' = info /\ \A t \in Txs : By(t, i)' <=> By(t, i)
        BY <1>1 DEF By
      <4>3. Doing(i, g)'
        BY <4>1, <4>2, <2>6 DEF Doing
      <4> QED BY <3>2, <3>3, <4>2, <4>3
    <3>4. CASE execs[i].res # None
      BY <3>1, <3>2, <3>4, <1>1, <2>6 DEF Over
    <3> QED BY <3>3, <3>4
  <2>8. Executions(m)'
    BY <2>1, <2>2, <2>7, <1>1 DEF Dealt, Executions
  <2> QED BY <2>1, <2>4, <2>5, <2>8 DEF Dealt
<1>8. OneLinePerContract' /\ RestsOnItsBlock' /\ FailureStaysInItsGroup'
  BY <1>1, SameOutcome
<1> QED BY <1>4, <1>5, <1>6, <1>7, <1>8 DEF PackInv

\* A block saved meanwhile makes the database name a later predecessor.
LEMMA SaveKeeps ==
  ASSUME PackInv, NEW c \in Contracts, SaveContractBlock(c)
  PROVE  PackInv'
<1>0. Types /\ Handlers /\ Calls /\ \A m \in Messages : Active(m) => Dealt(m)
  BY DEF PackInv
<1>1. /\ latest' \in [Contracts -> Int] /\ \A d \in Contracts : latest'[d] <= latest[d]
      /\ UNCHANGED <<queue, mutex, stage, batch, verified, execs, deal, contractCache, info, outcome>>
  BY SMT, <1>0 DEF SaveContractBlock, Types
<1>a. UNCHANGED <<verified, execs, contractCache, info>> /\ outcome' = outcome
  BY <1>1
<1>2. \A d \in Contracts : latest[d] \in Int /\ latest'[d] \in Int
  BY <1>0, <1>1 DEF Types
<1>3. Types'
  BY SMT, <1>0, <1>1, <1>2 DEF Types
<1>4. Handlers'
  BY <1>0, <1>1 DEF Handlers
<1>5. Calls'
  BY <1>0, <1>1 DEF Calls, Undealt, Active, Current
<1>6. ASSUME NEW m \in Messages, Active(m)'
      PROVE  Dealt(m)'
  <2>1. Dealt(m)
    BY <1>0, <1>1, <1>6 DEF Active
  <2>2. \A i, g : Held(i, g)' <=> Held(i, g)
    BY <1>1 DEF Held
  <2>3. Division(m)' /\ Outcomes(m)'
    BY <2>1, <2>2, <1>1 DEF Dealt, Division, Outcomes, Current
  <2>4. deal.latest \in [Contracts -> Int]
    BY <2>1 DEF Dealt, Division
  <2>5. \A d \in Contracts : latest'[d] <= deal.latest[d]
    <3>1. \A d \in Contracts : latest[d] <= deal.latest[d] /\ deal.latest[d] \in Int
      BY <2>1, <2>4 DEF Dealt, Executions
    <3> QED BY SMT, <3>1, <1>1, <1>2
  <2>6. ASSUME NEW i, NEW g, Held(i, g)
        PROVE  Ran(i, g)'
    <3>1. Ran(i, g)
      BY <2>1, <2>6 DEF Dealt, Executions
    <3>2. \A t \in Txs : \A d \in Touches[t] :
            By(t, i) /\ latest[d] <= info[t].pre[d] => latest'[d] <= info[t].pre[d]
      <4> SUFFICES ASSUME NEW t \in Txs, NEW d \in Touches[t], By(t, i), latest[d] <= info[t].pre[d]
                   PROVE  latest'[d] <= info[t].pre[d]
        OBVIOUS
      <4>1. info[t].pre[d] \in Int /\ d \in Contracts
        BY SMT, <1>0, CallAssumption DEF By, Types
      <4> QED BY SMT, <4>1, <1>1, <1>2
    <3> QED BY <3>1, <3>2, <1>1 DEF Ran, By
  <2>7. \A i, g : /\ Doing(i, g) => Doing(i, g)'
                  /\ Over(i, g) => Over(i, g)'
                  /\ Settled(i, g) => Settled(i, g)'
    BY SMT, <1>a DEF Doing, Over, Settled, By
  <2>8. Executions(m)'
    BY <2>1, <2>2, <2>5, <2>6, <2>7, <1>1 DEF Dealt, Executions
  <2> QED BY <2>3, <2>8 DEF Dealt
<1>7. OneLinePerContract' /\ RestsOnItsBlock' /\ FailureStaysInItsGroup'
  BY <1>a, SameOutcome
<1> QED BY <1>3, <1>4, <1>5, <1>6, <1>7 DEF PackInv
-----------------------------------------------------------------------------
(* The executions.                                                         *)

\* A step of one execution keeps the invariant if it keeps what is said of the
\* awaited executions, and takes no result away.
LEMMA ExecutionKeeps ==
  ASSUME PackInv, execs' \in Seq(Tasks), DOMAIN execs' = DOMAIN execs,
         UNCHANGED <<queue, mutex, stage, batch, verified, deal, contractCache, latest, outcome>>,
         info' \in [Txs -> Results \cup {None}],
         \A t \in Txs : info'[t] # None => /\ info'[t].pre \in [Touches[t] -> Int]
                                           /\ info'[t].by \in DOMAIN execs,
         \A t \in Txs : info[t] # None => info'[t] # None,
         \A m \in Messages : Active(m) => \A j, h : Held(j, h) =>
           /\ Ran(j, h)' /\ IF execs'[j].res = None THEN Doing(j, h)' ELSE Over(j, h)'
           /\ stage[m] = "process" => Settled(j, h)'
  PROVE  PackInv'
<1>0. Types /\ Handlers /\ Calls /\ \A m \in Messages : Active(m) => Dealt(m)
  BY DEF PackInv
<1>1. \A m \in Messages : /\ Current(m)' = Current(m) /\ (Active(m)' <=> Active(m))
                          /\ \A i : Undealt(m, i)' <=> Undealt(m, i)
  BY DEF Current, Active, Undealt
<1>2. Types'
  BY <1>0 DEF Types
<1>3. Handlers'
  BY <1>0 DEF Handlers
<1>4. Calls'
  <2>1. \A t \in contractCache : t \in Txs
    BY <1>0 DEF Types
  <2>2. \A t \in contractCache : info'[t] = None => info[t] = None
    BY <2>1
  <2> QED BY <1>0, <1>1, <2>2 DEF Calls
<1>5. ASSUME NEW m \in Messages, Active(m)'
      PROVE  Dealt(m)'
  <2>1. Active(m) /\ Dealt(m) /\ stage'[m] = stage[m]
    BY <1>0, <1>1, <1>5
  <2>2. \A i, g : Held(i, g)' <=> Held(i, g)
    BY DEF Held
  <2>3. Division(m)'
    BY <2>1, <1>1, SameDivision DEF Dealt
  <2>4. Outcomes(m)'
    BY <2>1, <2>2, <1>1 DEF Dealt, Outcomes
  <2>5. \A c \in Contracts : latest'[c] <= deal'.latest[c]
    BY <2>1 DEF Dealt, Executions
  <2>6. \A j, h : Held(j, h)' => /\ Ran(j, h)' /\ IF execs'[j].res = None THEN Doing(j, h)' ELSE Over(j, h)'
                                 /\ stage'[m] = "process" => Settled(j, h)'
    BY <2>1, <2>2
  <2>7. Executions(m)'
    BY <2>5, <2>6 DEF Executions
  <2> QED BY <2>3, <2>4, <2>7 DEF Dealt
<1>6. OneLinePerContract' /\ RestsOnItsBlock' /\ FailureStaysInItsGroup'
  BY SameOutcome
<1> QED BY <1>2, <1>3, <1>4, <1>5, <1>6 DEF PackInv

\* What is said of an awaited execution that takes no step, when the results of
\* others come in.
LEMMA OthersKeep ==
  ASSUME NEW j, NEW h, h \subseteq Txs, NEW m, execs'[j] = execs[j], execs[j].done \subseteq Txs,
         UNCHANGED <<verified, contractCache, latest>>, deal'.latest = deal.latest,
         \A t \in Txs : By(t, j)' => By(t, j) /\ info'[t] = info[t],
         \A t \in h : info[t] # None => info'[t] # None \/ verified[t] = "bad",
         Ran(j, h), IF execs[j].res = None THEN Doing(j, h) ELSE Over(j, h)
  PROVE  /\ Ran(j, h)' /\ IF execs'[j].res = None THEN Doing(j, h)' ELSE Over(j, h)'
         /\ Settled(j, h) => Settled(j, h)'
<1>1. Ran(j, h)'
  <2>1. deal'.latest = deal.latest /\ latest' = latest
    OBVIOUS
  <2> QED BY SMT, <2>1 DEF Ran
<1>2. ASSUME execs[j].res = None PROVE Doing(j, h)'
  <2>1. Doing(j, h) /\ verified' = verified /\ execs'[j] = execs[j]
    BY <1>2
  <2>2. execs[j].done \subseteq h
    BY <2>1 DEF Doing
  <2> QED BY SMT, <2>1, <2>2 DEF Doing
<1>3. ASSUME execs[j].res # None PROVE Over(j, h)'
  <2>1. Over(j, h) /\ verified' = verified /\ execs'[j] = execs[j]
    BY <1>3
  <2> QED BY <2>1 DEF Over
<1>4. Settled(j, h) => Settled(j, h)'
  BY DEF Settled
<1> QED BY <1>1, <1>2, <1>3, <1>4

\* An execution returns: all its calls have results, or it names one that failed.
LEMMA ReturnKeeps ==
  ASSUME PackInv, NEW i \in DOMAIN execs, NEW r \in Txs \cup {0}, execs[i].res = None,
         execs' = [execs EXCEPT ![i] = Returned(r)],
         UNCHANGED <<queue, mutex, stage, batch, verified, deal, contractCache, info, latest, outcome>>,
         \A g : Doing(i, g) => IF r = 0 THEN execs[i].todo = <<>> ELSE r \in g
  PROVE  PackInv'
<1>0. Types /\ \A m \in Messages : Active(m) => Dealt(m)
  BY DEF PackInv
<1>1. Returned(r) \in Tasks /\ Returned(r).res = r
  BY ReturnedTask
<1>2. r # None
  BY SMT, CallAssumption
<1>3. execs \in Seq(Tasks) /\ info \in [Txs -> Results \cup {None}]
  BY <1>0 DEF Types
<1>4. /\ execs' \in Seq(Tasks) /\ DOMAIN execs' = DOMAIN execs
      /\ execs'[i] = Returned(r) /\ \A j \in DOMAIN execs : j # i => execs'[j] = execs[j]
  BY SMT, <1>1, <1>3
<1>5. ASSUME NEW m \in Messages, Active(m), NEW j, NEW h, Held(j, h)
      PROVE  /\ Ran(j, h)' /\ IF execs'[j].res = None THEN Doing(j, h)' ELSE Over(j, h)'
             /\ stage[m] = "process" => Settled(j, h)'
  <2>1. /\ j \in DOMAIN execs /\ h \subseteq Txs /\ Ran(j, h)
        /\ IF execs[j].res = None THEN Doing(j, h) ELSE Over(j, h)
        /\ stage[m] = "process" => Settled(j, h)
    BY <1>0, <1>5, CurrentTxs DEF Dealt, Division, Executions
  <2>2. CASE j = i
    <3>1. execs'[j].res = r /\ Doing(i, h) /\ stage[m] # "process"
      BY <1>1, <1>4, <2>1, <2>2 DEF Settled
    <3>2. Over(j, h)'
      <4>1. CASE r = 0
        <5>a. Range(<<>>) = {}
          BY SMT DEF Range
        <5>1. h = execs[i].done
          BY <3>1, <4>1, <5>a DEF Doing
        <5>2. \A t \in h : info[t] # None \/ verified[t] = "bad"
          BY <3>1, <5>1 DEF Doing
        <5> QED BY <3>1, <4>1, <5>2 DEF Over
      <4>2. CASE r # 0
        BY <3>1, <4>2 DEF Over
      <4> QED BY <4>1, <4>2
    <3>3. Ran(j, h)'
      <4>1. info' = info /\ deal' = deal /\ latest' = latest
        OBVIOUS
      <4> QED BY SMT, <4>1, <2>1 DEF Ran, By
    <3> QED BY <1>2, <3>1, <3>2, <3>3
  <2>3. CASE j # i
    <3>1. execs'[j] = execs[j]
      BY <1>4, <2>1, <2>3
    <3>a. execs[j].done \subseteq Txs
      <4>1. execs[j] \in Tasks
        BY SMT, <1>3, <2>1
      <4> QED BY <4>1 DEF Tasks
    <3>2. \A t \in Txs : By(t, j)' => By(t, j) /\ info'[t] = info[t]
      BY DEF By
    <3> QED BY <2>1, <3>1, <3>a, <3>2, OthersKeep
  <2> QED BY <2>2, <2>3
<1>6. \A t \in Txs : info'[t] # None => info'[t].pre \in [Touches[t] -> Int] /\ info'[t].by \in DOMAIN execs
  BY <1>0 DEF Types
<1>7. info' \in [Txs -> Results \cup {None}] /\ \A t \in Txs : info[t] # None => info'[t] # None
  BY <1>3
<1>8. UNCHANGED <<queue, mutex, stage, batch, verified, deal, contractCache, latest, outcome>>
  OBVIOUS
<1>9. execs' \in Seq(Tasks) /\ DOMAIN execs' = DOMAIN execs
  BY <1>4
<1>10. \A m \in Messages : Active(m) => \A j, h : Held(j, h) =>
         /\ Ran(j, h)' /\ IF execs'[j].res = None THEN Doing(j, h)' ELSE Over(j, h)'
         /\ stage[m] = "process" => Settled(j, h)'
  BY <1>5
<1> QED BY <1>6, <1>7, <1>8, <1>9, <1>10, ExecutionKeeps

\* The elements of a sequence are the first one and those of the rest.
LEMMA RangeTail ==
  ASSUME NEW S, NEW s \in Seq(S), 1 \in DOMAIN s
  PROVE  Range(s) = {s[1]} \cup Range(Tail(s))
<1>1. /\ \A k \in DOMAIN Tail(s) : k + 1 \in DOMAIN s /\ Tail(s)[k] = s[k + 1]
      /\ \A k \in DOMAIN s : k # 1 => k - 1 \in DOMAIN Tail(s) /\ Tail(s)[k - 1] = s[k]
  BY SMT
<1> DEFINE u == Tail(s)
<1> HIDE DEF u
<1>2. /\ \A k \in DOMAIN u : \E l \in DOMAIN s : u[k] = s[l]
      /\ \A k \in DOMAIN s : k = 1 \/ \E l \in DOMAIN u : u[l] = s[k]
  BY <1>1 DEF u
<1>3. Range(s) = {s[1]} \cup Range(u)
  <2>1. \A y : y \in Range(s) <=> \E k \in DOMAIN s : y = s[k]
    BY DEF Range
  <2>2. \A y : y \in Range(u) <=> \E k \in DOMAIN u : y = u[k]
    BY DEF Range
  <2>3. \A y : y \in Range(s) <=> y = s[1] \/ y \in Range(u)
    BY SMT, <1>2, <2>1, <2>2
  <2> QED BY <2>3
<1> QED BY <1>3 DEF u

\* A round of the loop that succeeds: the call x of the task e gets the result r,
\* and becomes the predecessor of those that come after it in what is left, f.
Round(i, e, x, f, r) ==
    /\ e = execs[i] /\ e.res = None /\ 1 \in DOMAIN e.todo /\ x = e.todo[1]
    /\ f.todo = Tail(e.todo) /\ f.done = e.done \cup {x} /\ f.res = None
    /\ \A c \in Contracts : f.pre[c] = IF c \in Touches[x] THEN x ELSE e.pre[c]
    /\ r.by = i /\ r.basis = e.done /\ r.pre = PreHash(e, x)
    /\ info' = [info EXCEPT ![x] = r] /\ execs' = [execs EXCEPT ![i] = f]

\* It keeps the invariant.
LEMMA RoundKeeps ==
  ASSUME PackInv, NEW i \in DOMAIN execs, NEW e, NEW x \in Txs, NEW f \in Tasks, NEW r \in Results,
         Round(i, e, x, f, r),
         UNCHANGED <<queue, mutex, stage, batch, verified, deal, contractCache, latest, outcome>>
  PROVE  PackInv'
<1>a. e = execs[i] /\ e.res = None /\ 1 \in DOMAIN e.todo /\ x = e.todo[1]
  BY DEF Round
<1>b. f.todo = Tail(e.todo) /\ f.res = None
  BY DEF Round
<1>c. f.done = e.done \cup {x} /\ \A c \in Contracts : f.pre[c] = IF c \in Touches[x] THEN x ELSE e.pre[c]
  BY DEF Round
<1>d. r.by = i /\ r.basis = e.done /\ r.pre = PreHash(e, x)
  BY DEF Round
<1>e. info' = [info EXCEPT ![x] = r] /\ execs' = [execs EXCEPT ![i] = f]
  BY DEF Round
<1>0. Types /\ \A m \in Messages : Active(m) => Dealt(m)
  BY DEF PackInv
<1>1. execs \in Seq(Tasks) /\ info \in [Txs -> Results \cup {None}] /\ i \in Nat
  BY SMT, <1>0 DEF Types
<1>2. e \in Tasks
  BY SMT, <1>1, <1>a
<1>3. e.todo \in Seq(Txs) /\ e.done \subseteq Txs /\ e.pre \in [Contracts -> Txs \cup {None}]
  BY <1>2 DEF Tasks
<1>4. /\ \A k \in DOMAIN f.todo : k + 1 \in DOMAIN e.todo /\ f.todo[k] = e.todo[k + 1] /\ k \in Nat \ {0}
      /\ \A k \in DOMAIN e.todo : k # 1 => k - 1 \in DOMAIN f.todo /\ f.todo[k - 1] = e.todo[k]
  BY SMT, <1>3, <1>a, <1>b
<1>5. x \in Nat \ {0} /\ Touches[x] \subseteq Contracts /\ Txs \subseteq Nat \ {0}
      /\ None \notin Int /\ None \notin Results
  BY CallAssumption
<1>8. /\ execs' \in Seq(Tasks) /\ DOMAIN execs' = DOMAIN execs
      /\ execs'[i] = f /\ \A j \in DOMAIN execs : j # i => execs'[j] = execs[j]
  BY SMT, <1>1, <1>e
<1>9. \A c \in Touches[x] : /\ e.pre[c] \in Txs \cup {None} /\ latest[c] \in Int /\ latest[c] <= 0
                            /\ r.pre[c] = IF e.pre[c] # None THEN e.pre[c] ELSE latest[c]
                            /\ r.pre[c] \in Int
  <2>1. latest \in [Contracts -> Int] /\ \A c \in Contracts : latest[c] <= 0
    BY <1>0 DEF Types
  <2>2. ASSUME NEW c \in Touches[x]
        PROVE  /\ e.pre[c] \in Txs \cup {None} /\ latest[c] \in Int
               /\ r.pre[c] = IF e.pre[c] # None THEN e.pre[c] ELSE latest[c]
               /\ r.pre[c] \in Int
    BY <1>3, <1>5, <1>d, <2>1, Predecessor
  <2>3. ASSUME NEW c \in Touches[x] PROVE latest[c] <= 0
    BY <1>5, <2>1
  <2> QED BY <2>2, <2>3
<1>10. r.pre \in [Touches[x] -> Int]
  BY <1>9, <1>d DEF PreHash
<1>12. r # None /\ r.by = i /\ r.basis = e.done
  BY <1>5, <1>d
<1>13. info'[x] = r /\ \A t \in Txs : t # x => info'[t] = info[t]
  BY <1>1, <1>e
<1>14. info' \in [Txs -> Results \cup {None}]
  BY <1>1, <1>e
<1>15. \A t \in Txs : info'[t] # None => info'[t].pre \in [Touches[t] -> Int] /\ info'[t].by \in DOMAIN execs
  <2>1. \A t \in Txs : info[t] # None => info[t].pre \in [Touches[t] -> Int] /\ info[t].by \in DOMAIN execs
    BY <1>0 DEF Types
  <2> QED BY <2>1, <1>10, <1>12, <1>13
<1>16. \A t \in Txs : info[t] # None => info'[t] # None
  BY <1>12, <1>13
<1>17. ASSUME NEW m \in Messages, Active(m), NEW j, NEW h, Held(j, h)
       PROVE  /\ Ran(j, h)' /\ IF execs'[j].res = None THEN Doing(j, h)' ELSE Over(j, h)'
              /\ stage[m] = "process" => Settled(j, h)'
  <2>1. /\ j \in DOMAIN execs /\ h \subseteq Txs /\ Ran(j, h)
        /\ IF execs[j].res = None THEN Doing(j, h) ELSE Over(j, h)
        /\ stage[m] = "process" => Settled(j, h)
    BY <1>0, <1>17, CurrentTxs DEF Dealt, Division, Executions
  <2>2. CASE j # i
    <3>1. execs'[j] = execs[j]
      BY <1>8, <2>1, <2>2
    <3>2. execs[j].done \subseteq Txs
      <4>1. execs[j] \in Tasks
        BY SMT, <1>1, <2>1
      <4> QED BY <4>1 DEF Tasks
    <3>3. \A t \in Txs : By(t, j)' => By(t, j) /\ info'[t] = info[t]
      BY <1>12, <1>13, <2>2 DEF By
    <3> QED BY <2>1, <3>1, <3>2, <3>3, <1>16, OthersKeep
  <2>3. CASE j = i
    <3>1. Doing(i, h) /\ Ran(i, h) /\ stage[m] # "process"
      BY <1>a, <2>1, <2>3 DEF Settled
    <3>2. /\ h = e.done \cup Range(e.todo)
          /\ \A k \in DOMAIN e.todo : e.todo[k] \notin e.done
          /\ \A k, l \in DOMAIN e.todo : e.todo[k] = e.todo[l] => k = l
          /\ \A t \in Txs : By(t, i) => t \in e.done
          /\ \A t \in e.done : info[t] # None \/ verified[t] = "bad"
          /\ \A c \in Contracts : e.pre[c] # None => e.pre[c] \in e.done
          /\ \A t \in e.done : \A c \in Touches[t] : e.pre[c] # None
          /\ \A t \in Txs : By(t, i) => \A c \in Touches[t] :
               /\ info[t].pre[c] # e.pre[c]
               /\ info[t].pre[c] \in Txs => info[t].pre[c] \in e.done
      BY <1>a, <3>1 DEF Doing
    <3>a. Range(e.todo) = {x} \cup Range(f.todo)
      BY <1>3, <1>a, <1>b, RangeTail
    <3>3. x \in h /\ x \notin e.done /\ e.done \subseteq h
      BY <1>a, <3>2, <3>a
    <3>4. /\ By(x, i)'
          /\ \A t \in Txs : t # x => (By(t, i)' <=> By(t, i)) /\ info'[t] = info[t]
      BY <1>12, <1>13 DEF By
    <3>5. \A c \in Contracts : latest[c] <= deal.latest[c] /\ deal' = deal /\ latest' = latest
      BY <1>0, <1>17 DEF Dealt, Executions
    <3>6. \A c \in Touches[x] : \/ r.pre[c] \in e.done
                                \/ e.pre[c] = None /\ r.pre[c] = latest[c] /\ latest[c] <= latest[c]
      BY SMT, <1>5, <1>9, <3>2
    <3>7. Ran(i, h)'
      <4>1. /\ \A t \in Txs : By(t, i) =>
                 /\ t \in h /\ info[t].basis \subseteq h
                 /\ \A c \in Touches[t] : \/ info[t].pre[c] \in h
                                          \/ /\ latest[c] <= info[t].pre[c]
                                             /\ info[t].pre[c] <= deal.latest[c]
            /\ \A t, u \in Txs : By(t, i) /\ By(u, i) /\ t # u =>
                 \A c \in Touches[t] \cap Touches[u] : info[t].pre[c] # info[u].pre[c]
        BY <3>1 DEF Ran
      <4>2. /\ x \in h /\ r.basis \subseteq h
            /\ \A c \in Touches[x] : \/ r.pre[c] \in h
                                     \/ latest[c] <= r.pre[c] /\ r.pre[c] <= deal.latest[c]
        BY <1>5, <1>12, <3>3, <3>5, <3>6
      <4>3. \A t \in Txs : By(t, i)' =>
              /\ t \in h /\ info'[t].basis \subseteq h
              /\ \A c \in Touches[t] : \/ info'[t].pre[c] \in h
                                       \/ /\ latest[c] <= info'[t].pre[c]
                                          /\ info'[t].pre[c] <= deal.latest[c]
        BY <1>13, <3>4, <4>1, <4>2
      <4>4. \A u \in Txs : By(u, i) /\ u # x =>
              \A c \in Touches[x] \cap Touches[u] : r.pre[c] # info[u].pre[c]
        <5> SUFFICES ASSUME NEW u \in Txs, By(u, i), u # x, NEW c \in Touches[x] \cap Touches[u]
                     PROVE  r.pre[c] # info[u].pre[c]
          OBVIOUS
        <5>1. e.pre[c] # None /\ info[u].pre[c] # e.pre[c]
          BY <3>2
        <5>2. r.pre[c] = e.pre[c]
          BY <1>9, <5>1
        <5> QED BY <5>1, <5>2
      <4>5. \A t, u \in Txs : By(t, i)' /\ By(u, i)' /\ t # u =>
              \A c \in Touches[t] \cap Touches[u] : info'[t].pre[c] # info'[u].pre[c]
        BY SMT, <1>13, <3>4, <4>1, <4>4
      <4> QED BY <3>5, <4>3, <4>5 DEF Ran
    <3>8. Doing(i, h)'
      <4>a. /\ f.done = e.done \cup {x}
            /\ \A c \in Contracts : f.pre[c] = IF c \in Touches[x] THEN x ELSE e.pre[c]
        BY <1>c
      <4>1. h = f.done \cup Range(f.todo)
        BY <3>2, <3>a, <4>a
      <4>2. \A k \in DOMAIN f.todo : f.todo[k] \notin f.done
        <5> SUFFICES ASSUME NEW k \in DOMAIN f.todo PROVE f.todo[k] \notin f.done
          OBVIOUS
        <5>1. k + 1 \in DOMAIN e.todo /\ f.todo[k] = e.todo[k + 1] /\ k + 1 # 1
          BY SMT, <4>a, <1>4
        <5> QED BY SMT, <5>1, <4>a, <3>2, <1>a
      <4>3. \A k, l \in DOMAIN f.todo : f.todo[k] = f.todo[l] => k = l
        <5> SUFFICES ASSUME NEW k \in DOMAIN f.todo, NEW l \in DOMAIN f.todo, f.todo[k] = f.todo[l]
                     PROVE  k = l
          OBVIOUS
        <5>1. /\ k + 1 \in DOMAIN e.todo /\ f.todo[k] = e.todo[k + 1] /\ k \in Nat
              /\ l + 1 \in DOMAIN e.todo /\ f.todo[l] = e.todo[l + 1] /\ l \in Nat
          BY <4>a, <1>4
        <5>2. k + 1 = l + 1
          BY <5>1, <3>2
        <5> QED BY SMT, <5>1, <5>2
      <4>4. \A t \in Txs : By(t, i)' => t \in f.done
        BY <4>a, <3>2, <3>4
      <4>5. \A t \in f.done : info'[t] # None \/ verified'[t] = "bad"
        BY <4>a, <3>2, <1>3, <1>12, <1>13, <1>16
      <4>6. \A c \in Contracts : f.pre[c] # None => f.pre[c] \in f.done
        BY <4>a, <3>2
      <4>7. \A t \in f.done : \A c \in Touches[t] : f.pre[c] # None
        <5> SUFFICES ASSUME NEW t \in f.done, NEW c \in Touches[t] PROVE f.pre[c] # None
          OBVIOUS
        <5>1. t \in Txs /\ c \in Contracts /\ x # None
          <6>1. t \in Txs /\ x # None
            BY SMT, <4>a, <1>3, <1>5
          <6> QED BY <6>1, CallAssumption
        <5> QED BY <5>1, <4>a, <3>2
      <4>8. \A t \in Txs : By(t, i)' => \A c \in Touches[t] :
              /\ info'[t].pre[c] # f.pre[c]
              /\ info'[t].pre[c] \in Txs => info'[t].pre[c] \in f.done
        <5> SUFFICES ASSUME NEW t \in Txs, By(t, i)', NEW c \in Touches[t]
                     PROVE  /\ info'[t].pre[c] # f.pre[c]
                            /\ info'[t].pre[c] \in Txs => info'[t].pre[c] \in f.done
          OBVIOUS
        <5>1. c \in Contracts
          BY CallAssumption
        <5>2. CASE t = x
          <6>1. r.pre[c] # x /\ (r.pre[c] \in Txs => r.pre[c] \in e.done)
            BY SMT, <5>2, <1>5, <1>9, <3>3, <3>6
          <6> QED BY <6>1, <5>1, <5>2, <4>a, <1>13
        <5>3. CASE t # x
          <6>1. /\ info'[t] = info[t] /\ info[t].pre[c] # e.pre[c]
                /\ info[t].pre[c] \in Txs => info[t].pre[c] \in e.done
            BY <5>3, <3>2, <3>4
          <6> QED BY <6>1, <5>1, <4>a, <3>3, <1>4
        <5> QED BY <5>2, <5>3
      <4>9. execs'[i] = f
        BY <1>8
      <4> QED BY <4>1, <4>2, <4>3, <4>4, <4>5, <4>6, <4>7, <4>8, <4>9 DEF Doing
    <3>9. execs'[i].res = None
      BY <1>8, <1>b
    <3> QED BY <2>3, <3>1, <3>7, <3>8, <3>9
  <2> QED BY <2>2, <2>3
<1>18. \A m \in Messages : Active(m) => \A j, h : Held(j, h) =>
         /\ Ran(j, h)' /\ IF execs'[j].res = None THEN Doing(j, h)' ELSE Over(j, h)'
         /\ stage[m] = "process" => Settled(j, h)'
  BY <1>17
<1>19. execs' \in Seq(Tasks) /\ DOMAIN execs' = DOMAIN execs
  BY <1>8
<1> QED BY <1>14, <1>15, <1>16, <1>18, <1>19, ExecutionKeeps

\* A step of an execution.
LEMMA ExecKeeps ==
  ASSUME PackInv, NEW i \in DOMAIN execs, Execution(i)
  PROVE  PackInv'
<1>0. execs \in Seq(Tasks)
  BY DEF PackInv, Types
<1>1. execs[i] \in Tasks
  BY SMT, <1>0
<1>2. execs[i].res = None /\ execs[i].todo \in Seq(Txs)
  BY <1>1 DEF Execution, ExecuteContract, ExecutedAll, Busy, Tasks
<1>3. CASE ExecutedAll(i)
  <2>1. execs[i].todo = <<>> /\ execs' = [execs EXCEPT ![i] = Returned(0)]
        /\ UNCHANGED <<queue, mutex, stage, batch, verified, deal, contractCache, info, latest, outcome>>
    BY <1>3 DEF ExecutedAll
  <2>2. 0 \in Txs \cup {0} /\ \A g : Doing(i, g) => IF 0 = 0 THEN execs[i].todo = <<>> ELSE 0 \in g
    BY <2>1
  <2> QED BY <1>2, <2>1, <2>2, ReturnKeeps
<1>4. CASE ExecuteContract(i)
  <2> DEFINE x == Head(execs[i].todo)
  <2>1. execs[i].todo # <<>> /\ x \in Txs /\ 1 \in DOMAIN execs[i].todo /\ x = execs[i].todo[1]
    BY SMT, <1>2, <1>4 DEF ExecuteContract
  <2>2. UNCHANGED <<queue, mutex, stage, batch, verified, deal, contractCache, latest, outcome>>
    BY <1>4 DEF ExecuteContract
  <2>3. CASE execs' = [execs EXCEPT ![i] = Returned(x)] /\ info' = info
    <3>1. x # 0
      BY <2>1, CallAssumption
    <3>2. \A g : Doing(i, g) => x \in g
      BY SMT, <2>1 DEF Doing, Range
    <3> HIDE DEF x
    <3>3. \A g : Doing(i, g) => IF x = 0 THEN execs[i].todo = <<>> ELSE x \in g
      BY <3>1, <3>2
    <3> QED BY <1>2, <2>1, <2>2, <2>3, <3>3, ReturnKeeps
  <2> DEFINE e == execs[i]
             done == e.done \cup {x}
             pre == [c \in Contracts |-> IF c \in Touches[x] THEN x ELSE e.pre[c]]
             f == [todo |-> Tail(e.todo), done |-> done, pre |-> pre, pool |-> e.pool, res |-> e.res]
             r == [pre |-> PreHash(e, x), basis |-> e.done, by |-> i]
  <2>4. CASE /\ info' = [info EXCEPT ![x] = r]
             /\ execs' = [execs EXCEPT ![i] = [e EXCEPT !.todo = Tail(e.todo), !.done = done, !.pre = pre]]
    <3> HIDE DEF x
    <3>1. /\ e.todo \in Seq(Txs) /\ e.done \subseteq Txs /\ e.pre \in [Contracts -> Txs \cup {None}]
          /\ e.pool \in {"tx", "block", "none"} /\ e.todo # <<>> /\ e.res = None
      BY <1>1, <1>2, <2>1 DEF Tasks
    <3>2. done \subseteq Txs /\ pre \in [Contracts -> Txs \cup {None}] /\ Tail(e.todo) \in Seq(Txs)
      BY SMT, <2>1, <3>1
    <3>3. f \in Tasks /\ f.todo = Tail(e.todo) /\ f.done = e.done \cup {x} /\ f.res = None
      BY <3>1, <3>2 DEF Tasks
    <3>4. \A c \in Contracts : f.pre[c] = IF c \in Touches[x] THEN x ELSE e.pre[c]
      OBVIOUS
    <3>5. r \in Results /\ r.by = i /\ r.basis = e.done /\ r.pre = PreHash(e, x)
      <4>1. latest \in [Contracts -> Int]
        BY DEF PackInv, Types
      <4>2. Touches[x] \subseteq Contracts /\ Txs \subseteq Int
        BY SMT, <2>1, CallAssumption
      <4>3. PreHash(e, x) \in [Touches[x] -> Int]
        BY <3>1, <4>1, <4>2 DEF PreHash
      <4>4. PreHash(e, x) \in UNION {[Touches[t] -> Int] : t \in Txs}
        BY <2>1, <4>3
      <4>5. i \in Nat
        BY SMT, <1>0
      <4> QED BY <3>1, <4>4, <4>5 DEF Results
    <3>6. [e EXCEPT !.todo = Tail(e.todo), !.done = done, !.pre = pre] = f
      <4> DEFINE R(u, v, w) == [todo |-> u, done |-> v, pre |-> w, pool |-> e.pool, res |-> e.res]
                 todo == Tail(e.todo)
      <4>1. e \in Tasks
        BY <1>1
      <4> HIDE DEF e, todo, done, pre
      <4>2. [e EXCEPT !.todo = todo, !.done = done, !.pre = pre]
            = [[[e EXCEPT !.todo = todo] EXCEPT !.done = done] EXCEPT !.pre = pre]
        OBVIOUS
      <4>3. [e EXCEPT !.todo = todo] = R(todo, e.done, e.pre)
        BY SMT, <4>1 DEF Tasks
      <4>4. [R(todo, e.done, e.pre) EXCEPT !.done = done] = R(todo, done, e.pre)
        BY SMT
      <4>5. [R(todo, done, e.pre) EXCEPT !.pre = pre] = R(todo, done, pre)
        BY SMT
      <4> QED BY <4>2, <4>3, <4>4, <4>5 DEF todo
    <3>7. execs' = [execs EXCEPT ![i] = f] /\ info' = [info EXCEPT ![x] = r]
      <4> HIDE DEF f, r, done, pre
      <4> QED BY <2>4, <3>6
    <3> HIDE DEF f, r, done, pre
    <3>8. Round(i, e, x, f, r)
      BY <2>1, <3>1, <3>3, <3>4, <3>5, <3>7 DEF Round
    <3> QED BY <2>1, <2>2, <3>3, <3>5, <3>8, RoundKeeps
  <2> QED BY <1>4, <2>3, <2>4 DEF ExecuteContract
<1> QED BY <1>3, <1>4 DEF Execution
-----------------------------------------------------------------------------
(* DealContractTransaction up to the first wait.                           *)

\* A sequence as a function.
LEMMA SeqFunction ==
  ASSUME NEW S, NEW s \in Seq(S)
  PROVE  Len(s) \in Nat /\ DOMAIN s = 1 .. Len(s) /\ \A k \in DOMAIN s : s[k] \in S
  BY SMT

\* And a function on an interval from 1 is a sequence.
LEMMA FunctionSeq == ASSUME NEW S, NEW n \in Nat, NEW s \in [1 .. n -> S] PROVE s \in Seq(S) /\ Len(s) = n
  BY SMT

\* One sequence after another.
Joins(S, r, s, t) == s \in Seq(S) /\ t \in Seq(S) /\ r = s \o t

\* The elements of the one come first, those of the other behind them.
LEMMA Concat ==
  ASSUME NEW S, NEW s, NEW t, NEW r, Joins(S, r, s, t)
  PROVE  /\ r \in Seq(S) /\ Len(r) = Len(s) + Len(t)
         /\ \A k \in DOMAIN s : k \in DOMAIN r /\ r[k] = s[k]
         /\ \A k \in DOMAIN t : /\ Len(s) + k \in DOMAIN r /\ r[Len(s) + k] = t[k]
                                /\ Len(s) + k \notin DOMAIN s
         /\ \A k \in DOMAIN r : k \notin DOMAIN s => k - Len(s) \in DOMAIN t /\ r[k] = t[k - Len(s)]
BY SMT DEF Joins

\* A task that has not begun.
LEMMA FreshTask ==
  ASSUME NEW S \in SUBSET Txs, IsFiniteSet(S), NEW pool \in {"tx", "block"}
  PROVE  /\ Task(S, pool) \in Tasks /\ Task(S, pool).res = None /\ Task(S, pool).done = {}
         /\ Range(Task(S, pool).todo) = S
         /\ \A k, l \in DOMAIN Task(S, pool).todo : Task(S, pool).todo[k] = Task(S, pool).todo[l] => k = l
         /\ \A c \in Contracts : Task(S, pool).pre[c] = None
<1> DEFINE s == Ascending(S)
<1>1. S \in SUBSET Nat
  BY CallAssumption
<1>2. /\ s \in Seq(S) /\ \A i, j \in DOMAIN s : s[i] = s[j] => i = j
      /\ \A x \in S : \E i \in DOMAIN s : s[i] = x
  BY <1>1, AscendingOf
<1> HIDE DEF s
<1>3. s \in Seq(Txs) /\ \A i \in DOMAIN s : s[i] \in S
  BY SMT, <1>2
<1>4. Range(s) = S
  <2>1. \A x : x \in Range(s) <=> \E i \in DOMAIN s : x = s[i]
    BY DEF Range
  <2> QED BY SMT, <1>2, <1>3, <2>1
<1>5. Task(S, pool) = [todo |-> s, done |-> {}, pre |-> [c \in Contracts |-> None], pool |-> pool, res |-> None]
  BY DEF Task, s
<1>6. Task(S, pool) \in Tasks
  BY SMT, <1>3, <1>5 DEF Tasks
<1>7. /\ Task(S, pool).todo = s /\ Task(S, pool).done = {} /\ Task(S, pool).res = None
      /\ \A c \in Contracts : Task(S, pool).pre[c] = None
  BY SMT, <1>5
<1> QED BY <1>2, <1>4, <1>6, <1>7

\* What the invariant says of it.
LEMMA FreshDoing ==
  ASSUME NEW i, NEW g \in SUBSET Txs, IsFiniteSet(g), NEW pool \in {"tx", "block"},
         execs'[i] = Task(g, pool), \A t \in Txs : ~By(t, i)'
  PROVE  Ran(i, g)' /\ Doing(i, g)' /\ execs'[i].res = None
<1> DEFINE e == Task(g, pool)
<1>1. /\ e.res = None /\ e.done = {} /\ Range(e.todo) = g
      /\ \A k, l \in DOMAIN e.todo : e.todo[k] = e.todo[l] => k = l
      /\ \A c \in Contracts : e.pre[c] = None
  BY FreshTask
<1> HIDE DEF e
<1>2. execs'[i] = e
  BY DEF e
<1>3. Ran(i, g)'
  BY DEF Ran
<1>4. Doing(i, g)'
  BY <1>1, <1>2 DEF Doing
<1> QED BY <1>1, <1>2, <1>3, <1>4

\* How a batch is shared out: groups, and calls that are alone.
Shares(m, groups, single) ==
    /\ groups \in Seq(SUBSET Current(m)) /\ single \in Seq(Current(m))
    /\ \A t \in Current(m) : \/ \E k \in DOMAIN groups : t \in groups[k]
                             \/ \E k \in DOMAIN single : t = single[k]
    /\ \A k, l \in DOMAIN groups : k # l => Apart(groups[k], groups[l])
    /\ \A k \in DOMAIN groups, l \in DOMAIN single : /\ Apart(groups[k], {single[l]})
                                                     /\ Apart({single[l]}, groups[k])
    /\ \A k, l \in DOMAIN single : k # l => Apart({single[k]}, {single[l]})

\* GetDependentData shares the batch out.
LEMMA DealShares ==
  ASSUME GroupsApart, Types, NEW m \in Messages, NEW res \in Groupings(Dep(Current(m))),
         NEW large, large = Ascending({i \in DOMAIN res : Cardinality(res[i]) > 1}),
         NEW single, single = Ascending(UNION {g \in Range(res) : Cardinality(g) = 1})
  PROVE  Shares(m, [k \in DOMAIN large |-> res[large[k]]], single)
<1> DEFINE C == Current(m)
           L == {i \in DOMAIN res : Cardinality(res[i]) > 1}
           S == UNION {g \in Range(res) : Cardinality(g) = 1}
           groups == [k \in DOMAIN large |-> res[large[k]]]
<1>1. C \subseteq Txs /\ IsFiniteSet(C) /\ batch[m] \in DOMAIN Batches[m] /\ C = Batches[m][batch[m]]
  BY CurrentTxs
<1>2. /\ res \in Seq(SUBSET C) /\ UNION Range(res) = C
      /\ \A j, k \in DOMAIN res : j # k => Apart(res[j], res[k])
  BY <1>1 DEF GroupsApart
<1> HIDE DEF C
<1>3. \A j \in DOMAIN res : res[j] \subseteq C /\ IsFiniteSet(res[j]) /\ Cardinality(res[j]) \in Nat
  <2>1. \A j \in DOMAIN res : res[j] \subseteq C
    BY SMT, <1>2
  <2> QED BY <1>1, <2>1, FS_Subset, FS_CardinalityType
<1>4. \A t \in C : \E j \in DOMAIN res : t \in res[j]
  BY <1>2 DEF Range
<1>5. L \in SUBSET Nat /\ IsFiniteSet(L)
  <2>1. DOMAIN res = 1 .. Len(res) /\ Len(res) \in Nat
    BY SMT, <1>2
  <2>2. L \subseteq 1 .. Len(res) /\ IsFiniteSet(1 .. Len(res))
    BY SMT, <2>1, FS_Interval
  <2> HIDE DEF L
  <2>3. IsFiniteSet(L)
    BY <2>2, FS_Subset
  <2>4. L \in SUBSET Nat
    BY SMT, <2>1, <2>2
  <2> QED BY <2>3, <2>4
<1>6. S \in SUBSET Nat /\ IsFiniteSet(S) /\ S \subseteq C
  <2>1. S \subseteq C
    BY <1>2
  <2>2. C \subseteq Nat
    BY <1>1, CallAssumption
  <2> HIDE DEF S
  <2> QED BY <1>1, <2>1, <2>2, FS_Subset
<1>7. \A t \in S : \E j \in DOMAIN res : res[j] = {t} /\ Cardinality(res[j]) = 1
  <2> SUFFICES ASSUME NEW t \in S PROVE \E j \in DOMAIN res : res[j] = {t} /\ Cardinality(res[j]) = 1
    OBVIOUS
  <2>1. PICK j \in DOMAIN res : t \in res[j] /\ Cardinality(res[j]) = 1
    BY DEF Range
  <2>2. PICK x : res[j] = {x}
    BY <1>3, <2>1, FS_Singleton
  <2> QED BY <2>1, <2>2
<1>8. /\ large \in Seq(L) /\ \A i, j \in DOMAIN large : large[i] = large[j] => i = j
      /\ \A x \in L : \E i \in DOMAIN large : large[i] = x
  <2> HIDE DEF L
  <2>1. large = Ascending(L)
    BY DEF L
  <2> QED BY <1>5, <2>1, AscendingOf
<1>9. /\ single \in Seq(S) /\ \A i, j \in DOMAIN single : single[i] = single[j] => i = j
      /\ \A x \in S : \E i \in DOMAIN single : single[i] = x
  <2> HIDE DEF S
  <2>1. single = Ascending(S)
    BY DEF S
  <2> QED BY <1>6, <2>1, AscendingOf
<1>10. /\ \A k \in DOMAIN large : large[k] \in DOMAIN res /\ Cardinality(res[large[k]]) > 1
       /\ DOMAIN large = 1 .. Len(large) /\ Len(large) \in Nat
  <2>1. \A x \in L : x \in DOMAIN res /\ Cardinality(res[x]) > 1
    OBVIOUS
  <2> HIDE DEF L
  <2>2. (\A k \in DOMAIN large : large[k] \in L) /\ DOMAIN large = 1 .. Len(large) /\ Len(large) \in Nat
    BY <1>8, SeqFunction
  <2> QED BY <2>1, <2>2
<1>11. /\ DOMAIN groups = DOMAIN large /\ groups \in Seq(SUBSET C)
       /\ \A k \in DOMAIN groups : groups[k] = res[large[k]]
  <2>1. DOMAIN groups = DOMAIN large /\ \A k \in DOMAIN groups : groups[k] = res[large[k]]
    OBVIOUS
  <2>2. groups \in [1 .. Len(large) -> SUBSET C]
    BY <1>3, <1>10
  <2> HIDE DEF groups, C
  <2>3. groups \in Seq(SUBSET C)
    BY <1>10, <2>2, FunctionSeq
  <2> QED BY <2>1, <2>3
<1> HIDE DEF groups
<1>12. \A k \in DOMAIN single : single[k] \in S /\ \E j \in DOMAIN res : res[j] = {single[k]} /\ Cardinality(res[j]) = 1
  <2> HIDE DEF S
  <2> QED BY SMT, <1>7, <1>9
<1>13. single \in Seq(C)
  <2> HIDE DEF S
  <2>1. \A T : single \in Seq(S) /\ S \subseteq T => single \in Seq(T)
    BY SMT
  <2> QED BY <1>6, <1>9, <2>1
<1>14. ASSUME NEW t \in C
       PROVE  (\E k \in DOMAIN groups : t \in groups[k]) \/ (\E k \in DOMAIN single : t = single[k])
  <2>1. PICK j \in DOMAIN res : t \in res[j]
    BY <1>4
  <2>2. Cardinality(res[j]) # 0 /\ Cardinality(res[j]) \in Nat
    BY <1>3, <2>1, FS_EmptySet
  <2>3. CASE Cardinality(res[j]) > 1
    <3>1. PICK k \in DOMAIN large : large[k] = j
      BY <1>8, <2>3
    <3> QED BY <1>11, <2>1, <3>1
  <2>4. CASE Cardinality(res[j]) = 1
    <3>1. t \in S
      BY <2>1, <2>4 DEF Range
    <3> HIDE DEF S
    <3> QED BY <1>9, <3>1
  <2> QED BY SMT, <2>2, <2>3, <2>4
<1>15. \A k, l \in DOMAIN groups : k # l => Apart(groups[k], groups[l])
  <2> SUFFICES ASSUME NEW k \in DOMAIN groups, NEW l \in DOMAIN groups, k # l
               PROVE  Apart(groups[k], groups[l])
    OBVIOUS
  <2>1. /\ groups[k] = res[large[k]] /\ groups[l] = res[large[l]]
        /\ large[k] \in DOMAIN res /\ large[l] \in DOMAIN res
    BY <1>10, <1>11
  <2>2. large[k] # large[l]
    BY <1>8, <1>11
  <2> QED BY <1>2, <2>1, <2>2
<1>16. ASSUME NEW k \in DOMAIN groups, NEW l \in DOMAIN single
       PROVE  Apart(groups[k], {single[l]}) /\ Apart({single[l]}, groups[k])
  <2>1. PICK j \in DOMAIN res : res[j] = {single[l]} /\ Cardinality(res[j]) = 1
    BY <1>12
  <2>2. groups[k] = res[large[k]] /\ large[k] \in DOMAIN res /\ Cardinality(res[large[k]]) > 1
    BY <1>10, <1>11
  <2>3. j # large[k]
    BY SMT, <2>1, <2>2
  <2> QED BY <1>2, <2>1, <2>2, <2>3
<1>17. ASSUME NEW k \in DOMAIN single, NEW l \in DOMAIN single, k # l
       PROVE  Apart({single[k]}, {single[l]})
  <2>1. PICK j \in DOMAIN res : res[j] = {single[k]}
    BY <1>12
  <2>2. PICK i \in DOMAIN res : res[i] = {single[l]}
    BY <1>12
  <2>3. single[k] # single[l]
    BY <1>9, <1>17
  <2>4. j # i
    BY <2>1, <2>2, <2>3
  <2> QED BY <1>2, <2>1, <2>2, <2>4
<1> QED BY <1>11, <1>13, <1>14, <1>15, <1>16, <1>17 DEF Shares, C, groups

\* Executions are queued behind what is in the pool's queue, and the handler that
\* queues them goes on.
LEMMA QueueKeeps ==
  ASSUME Types, Handlers, NEW m \in Messages, stage[m] \in {"deal", "verifying", "executing", "process"},
         NEW s \in {"verifying", "executing", "process"}, stage' = [stage EXCEPT ![m] = s],
         NEW q, Joins(Jobs, queue', queue, q), \A k \in DOMAIN q : q[k][1] = "exec", mutex' = mutex
  PROVE  queue' \in Seq(Jobs) /\ stage' \in [Messages -> Stages] /\ Handlers'
<1>1. queue \in Seq(Jobs) /\ stage \in [Messages -> Stages]
  BY DEF Types
<1>2. \A k \in DOMAIN q : q[k][1] = "exec"
  OBVIOUS
<1>3. /\ queue' \in Seq(Jobs)
      /\ \A k \in DOMAIN queue : k \in DOMAIN queue' /\ queue'[k] = queue[k]
      /\ \A k \in DOMAIN queue' : k \notin DOMAIN queue => k - Len(queue) \in DOMAIN q
                                                        /\ queue'[k] = q[k - Len(queue)]
  BY SMT, Concat
<1>4. \A k \in DOMAIN queue' : queue'[k][1] = "handle" => k \in DOMAIN queue /\ queue'[k] = queue[k]
  BY <1>2, <1>3
<1>5. stage' \in [Messages -> Stages] /\ \A n \in Messages : stage'[n] = IF n = m THEN s ELSE stage[n]
  BY <1>1 DEF Stages
<1>6. Handlers'
  <2>1. \A n \in Messages : stage'[n] \in {"deal", "verifying", "executing", "process"} => mutex' = n
    BY <1>5 DEF Handlers
  <2>2. \A k \in DOMAIN queue : queue[k][1] = "handle" =>
          /\ stage[queue[k][2]] = "queued" /\ queue[k][2] \in Messages
          /\ \A l \in DOMAIN queue : queue[l] = queue[k] => l = k
    BY SMT, <1>1 DEF Handlers, Jobs
  <2>3. \A k \in DOMAIN queue' : queue'[k][1] = "handle" =>
          /\ stage'[queue'[k][2]] = "queued"
          /\ \A l \in DOMAIN queue' : queue'[l] = queue'[k] => l = k
    BY SMT, <1>4, <1>5, <2>2
  <2> QED BY <2>1, <2>3 DEF Handlers
<1> QED BY <1>3, <1>5, <1>6

\* The executions that Deal(m) adds for groups and singles.
Adds(groups, single) ==
    /\ execs' = execs \o [i \in DOMAIN groups |-> Task(groups[i], "tx")]
                      \o [i \in DOMAIN single |-> Task({single[i]}, "block")]
    /\ queue' = queue \o [i \in DOMAIN groups |-> <<"exec", Len(execs) + i>>]
    /\ deal' = [groups |-> groups, group |-> [i \in DOMAIN groups |-> Len(execs) + i],
                single |-> [t \in Range(single) |-> Len(execs) + Len(groups) + Place(single, t)],
                latest |-> latest]

\* They follow those there are.
LEMMA AddedExecs ==
  ASSUME Types, NEW m \in Messages, NEW groups, NEW single, Shares(m, groups, single), Adds(groups, single)
  PROVE  /\ execs' \in Seq(Tasks) /\ \A i \in DOMAIN execs : i \in DOMAIN execs'
         /\ \A k \in DOMAIN groups : /\ Len(execs) + k \in DOMAIN execs' /\ Len(execs) + k \notin DOMAIN execs
                                     /\ execs'[Len(execs) + k] = Task(groups[k], "tx")
         /\ \A k \in DOMAIN single :
              /\ Len(execs) + Len(groups) + k \in DOMAIN execs'
              /\ Len(execs) + Len(groups) + k \notin DOMAIN execs
              /\ execs'[Len(execs) + Len(groups) + k] = Task({single[k]}, "block")
<1> DEFINE A == [i \in DOMAIN groups |-> Task(groups[i], "tx")]
           B == [i \in DOMAIN single |-> Task({single[i]}, "block")]
<1>1. execs \in Seq(Tasks) /\ execs' = (execs \o A) \o B
  BY DEF Types, Adds
<1>2. groups \in Seq(SUBSET Current(m)) /\ single \in Seq(Current(m))
  BY DEF Shares
<1>3. Current(m) \subseteq Txs /\ IsFiniteSet(Current(m))
  BY CurrentTxs
<1>4. /\ DOMAIN groups = 1 .. Len(groups) /\ Len(groups) \in Nat
      /\ \A k \in DOMAIN groups : groups[k] \in SUBSET Txs /\ IsFiniteSet(groups[k])
  <2>1. /\ DOMAIN groups = 1 .. Len(groups) /\ Len(groups) \in Nat
        /\ \A k \in DOMAIN groups : groups[k] \in SUBSET Current(m)
    BY <1>2, SeqFunction
  <2>2. \A k \in DOMAIN groups : IsFiniteSet(groups[k])
    BY <1>3, <2>1, FS_Subset
  <2> QED BY <1>3, <2>1, <2>2
<1>5. /\ DOMAIN single = 1 .. Len(single) /\ Len(single) \in Nat
      /\ \A k \in DOMAIN single : {single[k]} \in SUBSET Txs /\ IsFiniteSet({single[k]})
  <2>1. /\ DOMAIN single = 1 .. Len(single) /\ Len(single) \in Nat
        /\ \A k \in DOMAIN single : single[k] \in Current(m)
    BY <1>2, SeqFunction
  <2>2. \A k \in DOMAIN single : IsFiniteSet({single[k]})
    BY FS_Singleton
  <2> QED BY <1>3, <2>1, <2>2
<1>6. A \in [1 .. Len(groups) -> Tasks] /\ \A k \in DOMAIN groups : A[k] = Task(groups[k], "tx")
  <2>1. \A k \in DOMAIN groups : Task(groups[k], "tx") \in Tasks
    BY <1>4, FreshTask
  <2> QED BY <1>4, <2>1
<1>7. B \in [1 .. Len(single) -> Tasks] /\ \A k \in DOMAIN single : B[k] = Task({single[k]}, "block")
  <2>1. \A k \in DOMAIN single : Task({single[k]}, "block") \in Tasks
    BY <1>5, FreshTask
  <2> QED BY <1>5, <2>1
<1> HIDE DEF A, B
<1>8. /\ A \in Seq(Tasks) /\ Len(A) = Len(groups) /\ DOMAIN A = DOMAIN groups
      /\ B \in Seq(Tasks) /\ Len(B) = Len(single) /\ DOMAIN B = DOMAIN single
  <2>1. A \in Seq(Tasks) /\ Len(A) = Len(groups) /\ B \in Seq(Tasks) /\ Len(B) = Len(single)
    BY <1>4, <1>5, <1>6, <1>7, FunctionSeq
  <2> QED BY <1>4, <1>5, <2>1, SeqFunction
<1> DEFINE C == execs \o A
<1>9. /\ C \in Seq(Tasks) /\ Len(C) = Len(execs) + Len(A)
      /\ \A k \in DOMAIN execs : k \in DOMAIN C
      /\ \A k \in DOMAIN A : /\ Len(execs) + k \in DOMAIN C /\ C[Len(execs) + k] = A[k]
                             /\ Len(execs) + k \notin DOMAIN execs
  <2>1. Joins(Tasks, C, execs, A)
    BY <1>1, <1>8 DEF Joins
  <2> HIDE DEF C
  <2> QED BY SMT, <2>1, Concat
<1> HIDE DEF C
<1>10. Joins(Tasks, execs', C, B)
  BY <1>1, <1>8, <1>9 DEF C, Joins
<1>11. /\ execs' \in Seq(Tasks)
       /\ \A k \in DOMAIN C : k \in DOMAIN execs' /\ execs'[k] = C[k]
       /\ \A k \in DOMAIN B : /\ Len(C) + k \in DOMAIN execs' /\ execs'[Len(C) + k] = B[k]
                              /\ Len(C) + k \notin DOMAIN C
  BY SMT, <1>10, Concat
<1>12. Len(C) = Len(execs) + Len(groups)
  BY <1>8, <1>9
<1>13. execs' \in Seq(Tasks) /\ \A i \in DOMAIN execs : i \in DOMAIN execs'
  BY <1>9, <1>11
<1>14. \A k \in DOMAIN groups : /\ Len(execs) + k \in DOMAIN execs' /\ Len(execs) + k \notin DOMAIN execs
                                /\ execs'[Len(execs) + k] = Task(groups[k], "tx")
  BY <1>6, <1>8, <1>9, <1>11
<1>15. \A k \in DOMAIN single :
         /\ Len(C) + k \in DOMAIN execs' /\ Len(C) + k \notin DOMAIN execs
         /\ execs'[Len(C) + k] = Task({single[k]}, "block")
  BY <1>7, <1>8, <1>9, <1>11
<1> QED BY <1>12, <1>13, <1>14, <1>15

\* Where the execution for the calls g comes.
Follows(i, g, groups, single) ==
    \/ \E k \in DOMAIN groups : i = Len(execs) + k /\ g = groups[k]
    \/ \E k \in DOMAIN single : i = Len(execs) + Len(groups) + k /\ g = {single[k]}

\* Each is awaited for its calls.
LEMMA AddedHeld ==
  ASSUME Types, NEW m \in Messages, NEW groups, NEW single, Shares(m, groups, single), Adds(groups, single)
  PROVE  /\ \A i, g : Held(i, g)' <=> Follows(i, g, groups, single)
         /\ deal'.group \in Seq(Nat) /\ DOMAIN deal'.group = DOMAIN groups
         /\ \A k \in DOMAIN groups : deal'.group[k] = Len(execs) + k
         /\ deal'.single \in [Range(single) -> Nat] /\ Range(single) \subseteq Txs
         /\ deal'.groups = groups /\ deal'.latest = latest
         /\ DOMAIN deal' = {"groups", "group", "single", "latest"}
<1> DEFINE n == Len(execs)
           w == n + Len(groups)
           G == [i \in DOMAIN groups |-> n + i]
           S == [t \in Range(single) |-> w + Place(single, t)]
<1>1. deal' = [groups |-> groups, group |-> G, single |-> S, latest |-> latest]
  BY DEF Adds
<1>2. groups \in Seq(SUBSET Current(m)) /\ single \in Seq(Current(m))
  BY DEF Shares
<1>3. /\ DOMAIN groups = 1 .. Len(groups) /\ Len(groups) \in Nat /\ DOMAIN single = 1 .. Len(single)
      /\ Len(single) \in Nat /\ \A k \in DOMAIN single : single[k] \in Current(m)
  BY <1>2, SeqFunction
<1>4. n \in Nat /\ w \in Nat
  BY SMT, <1>3 DEF Types
<1>5. G \in [1 .. Len(groups) -> Nat] /\ DOMAIN G = DOMAIN groups /\ \A k \in DOMAIN groups : G[k] = n + k
  BY SMT, <1>3, <1>4
<1>6. G \in Seq(Nat)
  <2> HIDE DEF G
  <2> QED BY <1>3, <1>5, FunctionSeq
<1>7. \A x : x \in Range(single) <=> \E k \in DOMAIN single : x = single[k]
  BY DEF Range
<1>8. \A k, l \in DOMAIN single : single[k] = single[l] => k = l
  <2>1. \A k, l \in DOMAIN single : k # l => Apart({single[k]}, {single[l]})
    BY DEF Shares
  <2> QED BY <2>1 DEF Apart
<1>9. \A k \in DOMAIN single : single[k] \in Range(single) /\ Place(single, single[k]) = k
  <2>1. \A k \in DOMAIN single : /\ Place(single, single[k]) \in DOMAIN single
                                 /\ single[Place(single, single[k])] = single[k]
    BY PlaceOf
  <2> QED BY <1>7, <1>8, <2>1
<1>10. DOMAIN S = Range(single) /\ \A k \in DOMAIN single : S[single[k]] = w + k
  <2>1. \A t \in Range(single) : S[t] = w + Place(single, t)
    OBVIOUS
  <2> HIDE DEF w
  <2>2. DOMAIN S = Range(single)
    OBVIOUS
  <2> HIDE DEF S
  <2> QED BY <1>9, <2>1, <2>2
<1>11. S \in [Range(single) -> Nat]
  <2>1. \A t \in Range(single) : Place(single, t) \in 1 .. Len(single)
    BY SMT, <1>3, <1>7, <1>9
  <2>2. \A t \in Range(single) : w + Place(single, t) \in Nat
    BY SMT, <1>4, <2>1
  <2> QED BY <2>2
<1> HIDE DEF G, S
<1>12. /\ deal'.groups = groups /\ deal'.group = G /\ deal'.single = S /\ deal'.latest = latest
       /\ DOMAIN deal' = {"groups", "group", "single", "latest"}
  BY <1>1
<1>13. Range(single) \subseteq Txs
  BY SMT, <1>3, <1>7, CurrentTxs
<1>14. ASSUME NEW i, NEW g
       PROVE  Held(i, g)' <=> Follows(i, g, groups, single)
  <2>1. Held(i, g)' <=> \/ \E k \in DOMAIN groups : i = G[k] /\ g = groups[k]
                        \/ \E t \in DOMAIN S : i = S[t] /\ g = {t}
    BY <1>12 DEF Held
  <2>2. (\E k \in DOMAIN groups : i = G[k] /\ g = groups[k]) <=> (\E k \in DOMAIN groups : i = n + k /\ g = groups[k])
    BY <1>5
  <2> HIDE DEF w
  <2>3. (\E t \in DOMAIN S : i = S[t] /\ g = {t}) <=> (\E k \in DOMAIN single : i = w + k /\ g = {single[k]})
    <3>1. \A k \in DOMAIN single : single[k] \in DOMAIN S /\ S[single[k]] = w + k
      BY <1>9, <1>10
    <3>2. \A t \in DOMAIN S : \E k \in DOMAIN single : t = single[k] /\ S[t] = w + k
      BY SMT, <1>7, <1>10, <3>1
    <3> QED BY <3>1, <3>2
  <2> QED BY <2>1, <2>2, <2>3 DEF Follows, w
<1> QED BY <1>5, <1>6, <1>11, <1>12, <1>13, <1>14

\* The batch is shared out, and nothing has been executed yet.
LEMMA DealKeeps ==
  ASSUME GroupsApart, PackInv, NEW m \in Messages, Deal(m)
  PROVE  PackInv'
<1>0. Types /\ Handlers /\ Calls
  BY DEF PackInv
<1>1. /\ stage[m] = "deal" /\ stage' = [stage EXCEPT ![m] = "verifying"]
      /\ UNCHANGED <<running, mutex, batch, contractCache, info, latest>> /\ outcome' = None
      /\ verified' = [t \in Txs |-> IF t \in Current(m) THEN "running" ELSE verified[t]]
  BY DEF Deal
<1>2. PICK groups, single : Shares(m, groups, single) /\ Adds(groups, single)
  <2>1. PICK res \in Groupings(Dep(Current(m))) :
          LET large == Ascending({i \in DOMAIN res : Cardinality(res[i]) > 1})
              groups == [k \in DOMAIN large |-> res[large[k]]]
              single == Ascending(UNION {g \in Range(res) : Cardinality(g) = 1}) IN
          Adds(groups, single)
    BY DEF Deal, Adds
  <2> DEFINE large == Ascending({i \in DOMAIN res : Cardinality(res[i]) > 1})
             groups == [k \in DOMAIN large |-> res[large[k]]]
             single == Ascending(UNION {g \in Range(res) : Cardinality(g) = 1})
  <2>2. Shares(m, groups, single)
    BY <1>0, DealShares
  <2>3. Adds(groups, single)
    BY <2>1
  <2> HIDE DEF groups, single
  <2> QED BY <2>2, <2>3
<1> DEFINE n == Len(execs)
           w == n + Len(groups)
           C == Current(m)
<1>3. /\ execs' \in Seq(Tasks) /\ \A i \in DOMAIN execs : i \in DOMAIN execs'
      /\ \A k \in DOMAIN groups : /\ n + k \in DOMAIN execs' /\ n + k \notin DOMAIN execs
                                  /\ execs'[n + k] = Task(groups[k], "tx")
      /\ \A k \in DOMAIN single : /\ w + k \in DOMAIN execs' /\ w + k \notin DOMAIN execs
                                  /\ execs'[w + k] = Task({single[k]}, "block")
  BY SMT, <1>0, <1>2, AddedExecs
<1>4. /\ \A i, g : Held(i, g)' <=> Follows(i, g, groups, single)
      /\ deal'.group \in Seq(Nat) /\ DOMAIN deal'.group = DOMAIN groups
      /\ \A k \in DOMAIN groups : deal'.group[k] = n + k
      /\ deal'.single \in [Range(single) -> Nat] /\ Range(single) \subseteq Txs
      /\ deal'.groups = groups /\ deal'.latest = latest
      /\ DOMAIN deal' = {"groups", "group", "single", "latest"}
  BY <1>0, <1>2, AddedHeld
<1>5. /\ C \subseteq Txs /\ IsFiniteSet(C) /\ batch[m] \in DOMAIN Batches[m] /\ C = Batches[m][batch[m]]
      /\ \A x \in Messages : Current(x)' = Current(x)
  BY <1>0, <1>1, CurrentTxs DEF Current
<1>6. /\ DOMAIN groups = 1 .. Len(groups) /\ Len(groups) \in Nat /\ DOMAIN single \subseteq Nat \ {0} /\ n \in Nat
      /\ \A k \in DOMAIN groups : groups[k] \subseteq C
      /\ \A k \in DOMAIN single : single[k] \in C
      /\ groups \in Seq(SUBSET Txs)
  <2>1. groups \in Seq(SUBSET C) /\ single \in Seq(C)
    BY <1>2 DEF Shares
  <2>2. n \in Nat
    BY SMT, <1>0 DEF Types
  <2>3. /\ DOMAIN groups = 1 .. Len(groups) /\ Len(groups) \in Nat /\ \A k \in DOMAIN groups : groups[k] \in SUBSET C
        /\ DOMAIN single = 1 .. Len(single) /\ Len(single) \in Nat /\ \A k \in DOMAIN single : single[k] \in C
    BY <2>1, SeqFunction
  <2> HIDE DEF n, C
  <2>4. groups \in Seq(SUBSET Txs)
    BY SMT, <1>5, <2>1
  <2> QED BY SMT, <2>2, <2>3, <2>4
<1>7. \A x \in Messages : x # m => stage[x] \notin {"deal", "verifying", "executing", "process"}
                                   /\ stage'[x] = stage[x]
  BY SMT, <1>0, <1>1, OneWorks
<1>8. stage'[m] = "verifying"
  BY <1>0, <1>1 DEF Types
<1>9. \A x \in Messages : Active(x)' => x = m
  BY <1>7 DEF Active
<1>10. /\ queue' \in Seq(Jobs) /\ stage' \in [Messages -> Stages] /\ Handlers'
  <2> DEFINE q == [i \in DOMAIN groups |-> <<"exec", n + i>>]
  <2>1. queue \in Seq(Jobs) /\ queue' = queue \o q
    BY <1>0, <1>2 DEF Types, Adds
  <2>2. q \in [1 .. Len(groups) -> Jobs]
    BY SMT, <1>6 DEF Jobs
  <2>3. \A k \in DOMAIN q : q[k][1] = "exec"
    OBVIOUS
  <2> HIDE DEF q
  <2>4. q \in Seq(Jobs)
    BY <1>6, <2>2, FunctionSeq
  <2>5. Joins(Jobs, queue', queue, q)
    BY <2>1, <2>4 DEF Joins
  <2>6. mutex' = mutex /\ stage[m] \in {"deal", "verifying", "executing", "process"}
        /\ "verifying" \in {"verifying", "executing", "process"}
    BY <1>1
  <2> QED BY <1>0, <1>1, <2>3, <2>5, <2>6, QueueKeeps
<1>11. Types'
  <2>1. verified' \in [Txs -> {"none", "running", "ok", "bad"}]
    BY <1>0, <1>1 DEF Types
  <2>2. batch' = batch /\ contractCache' = contractCache /\ info' = info /\ latest' = latest
    BY <1>1
  <2> QED BY <1>0, <1>3, <1>10, <2>1, <2>2 DEF Types
<1>12. Calls'
  <2>1. ASSUME NEW x \in Messages, NEW i \in DOMAIN Batches[x], NEW t \in Batches[x][i], Undealt(x, i)'
        PROVE  verified'[t] = "none"
    <3>1. Undealt(x, i) /\ (x = m => i # batch[m])
      <4>1. batch[m] \in Nat /\ batch' = batch
        BY <1>0, <1>1 DEF Types
      <4>2. CASE x = m
        BY SMT, <1>8, <2>1, <4>1, <4>2 DEF Undealt
      <4>3. CASE x # m
        BY <1>7, <2>1, <4>1, <4>3 DEF Undealt
      <4> QED BY <4>2, <4>3
    <3>2. t \in Txs /\ t \notin C
      BY SMT, <1>5, <3>1, CallAssumption
    <3> QED BY <1>0, <1>1, <3>1, <3>2 DEF Calls
  <2>2. ASSUME NEW t \in Txs, verified'[t] = "running"
        PROVE  \E x \in Messages : stage'[x] = "verifying" /\ t \in Current(x)'
    <3>1. t \in C
      BY <1>0, <1>1, <1>7, <2>2 DEF Calls
    <3> QED BY <1>5, <1>8, <3>1
  <2>3. ASSUME NEW t \in contractCache
        PROVE  verified'[t] = "ok" /\ info'[t] # None
    <3>1. t \in Txs /\ verified[t] = "ok"
      BY <1>0 DEF Calls, Types
    <3>2. \A u \in C : verified[u] = "none"
      BY SMT, <1>0, <1>1, <1>5 DEF Calls, Undealt
    <3>3. \A x \in Messages : ~Active(x)
      BY <1>1, <1>7 DEF Active
    <3> QED BY <1>0, <1>1, <3>1, <3>2, <3>3 DEF Calls
  <2>4. contractCache' = contractCache
    BY <1>1
  <2> QED BY <2>1, <2>2, <2>3, <2>4 DEF Calls
<1>13. ASSUME NEW i, NEW g, Held(i, g)'
       PROVE  /\ i \in DOMAIN execs' /\ i \notin DOMAIN execs /\ g \subseteq C
              /\ \E pool \in {"tx", "block"} : execs'[i] = Task(g, pool)
  <2>0. Follows(i, g, groups, single)
    BY <1>4, <1>13
  <2>1. CASE \E k \in DOMAIN groups : i = n + k /\ g = groups[k]
    BY <1>3, <1>6, <2>1
  <2>2. CASE \E k \in DOMAIN single : i = w + k /\ g = {single[k]}
    BY <1>3, <1>6, <2>2
  <2> QED BY <2>0, <2>1, <2>2 DEF Follows
<1>14. ASSUME NEW i, NEW g, NEW j, NEW h, Held(i, g)', Held(j, h)'
       PROVE  (i = j => g = h) /\ (i # j => Apart(g, h))
  <2> HIDE DEF C
  <2>0. /\ \/ \E k \in DOMAIN groups : i = n + k /\ g = groups[k]
           \/ \E k \in DOMAIN single : i = w + k /\ g = {single[k]}
        /\ \/ \E k \in DOMAIN groups : j = n + k /\ h = groups[k]
           \/ \E k \in DOMAIN single : j = w + k /\ h = {single[k]}
    <3>1. Follows(i, g, groups, single) /\ Follows(j, h, groups, single)
      BY <1>4, <1>14
    <3> QED BY <3>1 DEF Follows
  <2>a. /\ \A k, l \in DOMAIN groups : k # l => Apart(groups[k], groups[l])
        /\ \A k \in DOMAIN groups, l \in DOMAIN single : /\ Apart(groups[k], {single[l]})
                                                         /\ Apart({single[l]}, groups[k])
        /\ \A k, l \in DOMAIN single : k # l => Apart({single[k]}, {single[l]})
    BY <1>2 DEF Shares
  <2>b. /\ \A k, l \in DOMAIN groups : n + k = n + l => k = l
        /\ \A k \in DOMAIN groups, l \in DOMAIN single : n + k # w + l /\ w + l # n + k
        /\ \A k, l \in DOMAIN single : w + k = w + l => k = l
    BY SMT, <1>6
  <2> HIDE DEF n, w
  <2> QED BY SMT, <2>0, <2>a, <2>b
<1>15. Division(m)'
  <2>1. deal' \in [groups : Seq(SUBSET Txs), group : Seq(Nat),
                   single : UNION {[S -> Nat] : S \in SUBSET Txs}, latest : [Contracts -> Int]]
    <3>1. latest \in [Contracts -> Int]
      BY <1>0 DEF Types
    <3>2. deal'.single \in UNION {[S -> Nat] : S \in SUBSET Txs}
      BY <1>4
    <3>3. deal' = [groups |-> deal'.groups, group |-> deal'.group, single |-> deal'.single, latest |-> deal'.latest]
      BY <1>2 DEF Adds
    <3> QED BY <1>4, <1>6, <3>1, <3>2, <3>3
  <2>2. DOMAIN deal'.group = DOMAIN deal'.groups
    BY <1>4
  <2>3. \A k, l \in DOMAIN deal'.group : deal'.group[k] = deal'.group[l] => k = l
    BY SMT, <1>4, <1>6
  <2>4. \A t \in C : \E i, g : Held(i, g)' /\ t \in g
    <3>1. ASSUME NEW t \in C PROVE \E i, g : Held(i, g)' /\ t \in g
      <4>1. CASE \E k \in DOMAIN groups : t \in groups[k]
        <5>1. PICK k \in DOMAIN groups : t \in groups[k]
          BY <4>1
        <5>2. PICK i : i = n + k
          OBVIOUS
        <5>3. PICK g : g = groups[k]
          OBVIOUS
        <5>4. Follows(i, g, groups, single)
          BY <5>1, <5>2, <5>3 DEF Follows
        <5>5. Held(i, g)'
          BY <1>4, <5>4
        <5> QED BY <5>1, <5>3, <5>5
      <4>2. CASE \E k \in DOMAIN single : t = single[k]
        <5>1. PICK k \in DOMAIN single : t = single[k]
          BY <4>2
        <5>2. PICK i : i = w + k
          OBVIOUS
        <5>3. PICK g : g = {single[k]}
          OBVIOUS
        <5>4. Follows(i, g, groups, single)
          BY <5>1, <5>2, <5>3 DEF Follows
        <5>5. Held(i, g)'
          BY <1>4, <5>4
        <5> QED BY <5>1, <5>3, <5>5
      <4> QED BY <1>2, <4>1, <4>2 DEF Shares
    <3> QED BY <3>1
  <2>5. Current(m)' = C
    BY <1>5
  <2> QED BY SMT, <1>13, <1>14, <2>1, <2>2, <2>3, <2>4, <2>5 DEF Division
<1>16. Outcomes(m)'
  <2>1. Current(m)' = C /\ \A t \in C : verified'[t] = "running"
    BY <1>1, <1>5
  <2> QED BY <1>8, <2>1 DEF Outcomes
<1>17. Executions(m)'
  <2>1. \A c \in Contracts : latest'[c] <= deal'.latest[c]
    <3>1. latest \in [Contracts -> Int] /\ latest' = latest /\ deal'.latest = latest
      BY <1>0, <1>1, <1>4 DEF Types
    <3> QED BY SMT, <3>1
  <2>2. ASSUME NEW i, NEW g, Held(i, g)'
        PROVE  Ran(i, g)' /\ Doing(i, g)' /\ execs'[i].res = None
    <3>1. g \subseteq Txs /\ IsFiniteSet(g) /\ i \notin DOMAIN execs
      BY <1>5, <1>13, <2>2, FS_Subset
    <3>2. PICK pool \in {"tx", "block"} : execs'[i] = Task(g, pool)
      BY <1>13, <2>2
    <3>3. \A t \in Txs : ~By(t, i)'
      BY <1>0, <1>1, <3>1 DEF By, Types
    <3> QED BY <3>1, <3>2, <3>3, FreshDoing
  <2> QED BY <1>8, <2>1, <2>2 DEF Executions
<1>18. OneLinePerContract' /\ RestsOnItsBlock' /\ FailureStaysInItsGroup'
  BY <1>1 DEF OneLinePerContract, RestsOnItsBlock, FailureStaysInItsGroup
<1>19. \A x \in Messages : Active(x)' => Dealt(x)'
  BY <1>9, <1>15, <1>16, <1>17 DEF Dealt
<1> QED BY <1>10, <1>11, <1>12, <1>18, <1>19 DEF PackInv

-----------------------------------------------------------------------------
(* From the end of the verification to the wait for the executions.        *)

\* The groups that are executed again, and their executions.
Redeals(m, again) ==
    /\ \A l \in DOMAIN again : l \in Nat /\ again[l] \in Hit(m)
    /\ \A a, b \in DOMAIN again : again[a] = again[b] => a = b
    /\ \A k \in Hit(m) : \E l \in DOMAIN again : again[l] = k
    /\ deal'.groups \in Seq(SUBSET Txs) /\ DOMAIN deal'.groups = DOMAIN deal.groups
    /\ \A k \in DOMAIN deal.groups : deal'.groups[k] = deal.groups[k] \ Bad(m)
    /\ deal'.group \in Seq(Nat) /\ DOMAIN deal'.group = DOMAIN deal.groups
    /\ \A k \in DOMAIN deal.groups \ Hit(m) : deal'.group[k] = deal.group[k]
    /\ \A l \in DOMAIN again : deal'.group[again[l]] = Len(execs) + l
    /\ deal'.single = deal.single /\ deal'.latest = deal.latest
    /\ deal' = [groups |-> deal'.groups, group |-> deal'.group, single |-> deal'.single, latest |-> deal'.latest]
    /\ execs' \in Seq(Tasks)
    /\ \A i \in DOMAIN execs : i \in DOMAIN execs' /\ execs'[i] = execs[i]
    /\ \A l \in DOMAIN again : /\ Len(execs) + l \in DOMAIN execs' /\ Len(execs) + l \notin DOMAIN execs
                               /\ execs'[Len(execs) + l] = Task(deal'.groups[again[l]], "tx")

\* Two fields of a record assigned.
LEMMA DealtAgain ==
  ASSUME NEW A, NEW B, NEW C, NEW D, NEW d \in [groups : A, group : B, single : C, latest : D],
         NEW x, NEW y, NEW e, e = [[d EXCEPT !.groups = x] EXCEPT !.group = y]
  PROVE  /\ e.groups = x /\ e.group = y /\ e.single = d.single /\ e.latest = d.latest
         /\ e = [groups |-> e.groups, group |-> e.group, single |-> e.single, latest |-> e.latest]
OBVIOUS

\* The step does so: Ascending names the groups hit, and the new executions are
\* put behind the others.
LEMMA VerifiedAgain ==
  ASSUME Types, NEW m \in Messages, Division(m), Verified(m)
  PROVE  Redeals(m, Ascending(Hit(m)))
<1> DEFINE again == Ascending(Hit(m))
           n == Len(execs)
           L == Len(deal.groups)
           G == [i \in DOMAIN deal.groups |-> deal.groups[i] \ Bad(m)]
           P == [i \in DOMAIN deal.group |-> IF i \in Hit(m) THEN n + Place(again, i) ELSE deal.group[i]]
           A == [k \in DOMAIN again |-> Task(G[again[k]], "tx")]
<1>1. /\ deal \in [groups : Seq(SUBSET Txs), group : Seq(Nat),
                   single : UNION {[S -> Nat] : S \in SUBSET Txs}, latest : [Contracts -> Int]]
      /\ DOMAIN deal.group = DOMAIN deal.groups
  BY DEF Division
<1>2. /\ L \in Nat /\ DOMAIN deal.groups = 1 .. L /\ \A k \in DOMAIN deal.groups : deal.groups[k] \in SUBSET Txs
      /\ Len(deal.group) \in Nat /\ DOMAIN deal.group = 1 .. Len(deal.group)
      /\ \A k \in DOMAIN deal.group : deal.group[k] \in Nat
  <2>1. deal.groups \in Seq(SUBSET Txs) /\ deal.group \in Seq(Nat)
    BY <1>1
  <2> QED BY <2>1, SeqFunction
<1>3. n \in Nat /\ execs \in Seq(Tasks)
  BY SMT DEF Types
<1>4. Hit(m) \in SUBSET Nat /\ IsFiniteSet(Hit(m)) /\ Hit(m) \subseteq DOMAIN deal.groups
  <2>1. Hit(m) \subseteq DOMAIN deal.groups
    BY DEF Hit
  <2>2. IsFiniteSet(1 .. L)
    BY SMT, <1>2, FS_Interval
  <2>3. IsFiniteSet(Hit(m))
    BY <1>2, <2>1, <2>2, FS_Subset
  <2>4. Hit(m) \in SUBSET Nat
    BY SMT, <1>2, <2>1
  <2> QED BY <2>1, <2>3, <2>4
<1>5. /\ again \in Seq(Hit(m)) /\ \A a, b \in DOMAIN again : again[a] = again[b] => a = b
      /\ \A k \in Hit(m) : \E l \in DOMAIN again : again[l] = k
  BY <1>4, AscendingOf
<1>6. /\ deal' = [[deal EXCEPT !.groups = G] EXCEPT !.group = P]
      /\ execs' = execs \o [k \in DOMAIN again |-> Task(deal'.groups[again[k]], "tx")]
  <2>1. /\ deal' = [deal EXCEPT !.groups = [i \in DOMAIN @ |-> @[i] \ Bad(m)],
                                !.group = [i \in DOMAIN @ |-> IF i \in Hit(m) THEN n + Place(again, i) ELSE @[i]]]
        /\ execs' = execs \o [k \in DOMAIN again |-> Task(deal'.groups[again[k]], "tx")]
    BY DEF Verified
  <2>2. deal' = [deal EXCEPT !.groups = G, !.group = P]
    BY <2>1
  <2> HIDE DEF G, P, again
  <2> QED BY <2>1, <2>2
<1> HIDE DEF again
<1>7. /\ Len(again) \in Nat /\ DOMAIN again = 1 .. Len(again)
      /\ \A l \in DOMAIN again : l \in Nat /\ again[l] \in Hit(m)
  <2>1. Len(again) \in Nat /\ DOMAIN again = 1 .. Len(again) /\ \A l \in DOMAIN again : again[l] \in Hit(m)
    BY <1>5, SeqFunction
  <2>2. \A l \in 1 .. Len(again) : l \in Nat
    BY SMT
  <2> QED BY <2>1, <2>2
<1>9. /\ deal'.groups = G /\ deal'.group = P /\ deal'.single = deal.single /\ deal'.latest = deal.latest
      /\ deal' = [groups |-> deal'.groups, group |-> deal'.group, single |-> deal'.single, latest |-> deal'.latest]
  BY <1>1, <1>6, DealtAgain
<1>10. /\ G \in [1 .. L -> SUBSET Txs] /\ DOMAIN G = DOMAIN deal.groups
       /\ \A k \in DOMAIN deal.groups : G[k] = deal.groups[k] \ Bad(m)
  BY <1>2
<1>11. \A l \in DOMAIN again : Place(again, again[l]) = l
  <2>1. \A l \in DOMAIN again : Place(again, again[l]) \in DOMAIN again /\ again[Place(again, again[l])] = again[l]
    BY PlaceOf
  <2> QED BY <1>5, <2>1
<1>12. /\ P \in [1 .. Len(deal.group) -> Nat] /\ DOMAIN P = DOMAIN deal.groups
       /\ \A k \in DOMAIN deal.groups \ Hit(m) : P[k] = deal.group[k]
       /\ \A l \in DOMAIN again : P[again[l]] = n + l
  <2>1. \A k \in Hit(m) : n + Place(again, k) \in Nat
    BY SMT, <1>3, <1>5, <1>7, <1>11
  <2>2. P \in [1 .. Len(deal.group) -> Nat]
    BY <1>2, <2>1
  <2>3. /\ DOMAIN P = DOMAIN deal.groups
        /\ \A k \in DOMAIN deal.groups \ Hit(m) : P[k] = deal.group[k]
        /\ \A k \in Hit(m) : P[k] = n + Place(again, k)
    BY <1>1, <1>4
  <2> HIDE DEF P, n
  <2>4. \A l \in DOMAIN again : P[again[l]] = n + l
    BY <1>7, <1>11, <2>3
  <2> QED BY <2>2, <2>3, <2>4
<1> HIDE DEF G, P
<1>13. G \in Seq(SUBSET Txs) /\ P \in Seq(Nat)
  BY <1>2, <1>10, <1>12, FunctionSeq
<1>14. A \in [1 .. Len(again) -> Tasks] /\ DOMAIN A = DOMAIN again
       /\ \A l \in DOMAIN again : A[l] = Task(G[again[l]], "tx")
  <2>1. \A l \in DOMAIN again : G[again[l]] \in SUBSET Txs /\ IsFiniteSet(G[again[l]])
    <3>1. \A k \in DOMAIN deal.groups : G[k] \subseteq Current(m) /\ G[k] \in SUBSET Txs
      <4>1. \A k \in DOMAIN deal.groups : Held(deal.group[k], deal.groups[k])
        BY <1>1 DEF Held
      <4>2. \A k \in DOMAIN deal.groups : deal.groups[k] \subseteq Current(m)
        BY <4>1 DEF Division
      <4> QED BY <1>2, <1>10, <4>2
    <3>2. IsFiniteSet(Current(m))
      BY CurrentTxs
    <3> QED BY <1>4, <1>7, <3>1, <3>2, FS_Subset
  <2>2. \A l \in DOMAIN again : Task(G[again[l]], "tx") \in Tasks
    BY <2>1, FreshTask
  <2> QED BY <1>7, <2>2
<1> HIDE DEF A
<1>15. Joins(Tasks, execs', execs, A)
  <2>1. A \in Seq(Tasks)
    BY <1>7, <1>14, FunctionSeq
  <2>2. execs' = execs \o A
    BY <1>6, <1>9 DEF A
  <2> QED BY <1>3, <2>1, <2>2 DEF Joins
<1>16. /\ execs' \in Seq(Tasks)
       /\ \A i \in DOMAIN execs : i \in DOMAIN execs' /\ execs'[i] = execs[i]
       /\ \A l \in DOMAIN A : /\ n + l \in DOMAIN execs' /\ execs'[n + l] = A[l] /\ n + l \notin DOMAIN execs
  BY SMT, <1>15, Concat
<1>17. \A l \in DOMAIN again : /\ n + l \in DOMAIN execs' /\ n + l \notin DOMAIN execs
                               /\ execs'[n + l] = Task(deal'.groups[again[l]], "tx")
  BY <1>9, <1>14, <1>16
<1> QED BY <1>5, <1>7, <1>9, <1>10, <1>12, <1>13, <1>16, <1>17 DEF Redeals, again

\* An execution that was awaited before and still is.
Kept(i, g, m) ==
    \/ \E k \in DOMAIN deal.groups \ Hit(m) : i = deal.group[k] /\ g = deal.groups[k]
    \/ \E t \in DOMAIN deal.single : i = deal.single[t] /\ g = {t}

\* One of a group that is executed again.
Redone(i, g, m, again) ==
    \E l \in DOMAIN again : i = Len(execs) + l /\ g = deal.groups[again[l]] \ Bad(m)

\* The executions awaited next are those kept and those of the groups executed again.
LEMMA RedealtHeld ==
  ASSUME NEW m, NEW again, Redeals(m, again), NEW i, NEW g
  PROVE  Held(i, g)' <=> Kept(i, g, m) \/ Redone(i, g, m, again)
<1>1. /\ \A l \in DOMAIN again : again[l] \in Hit(m)
      /\ \A k \in Hit(m) : \E l \in DOMAIN again : again[l] = k
      /\ DOMAIN deal'.groups = DOMAIN deal.groups
      /\ \A k \in DOMAIN deal.groups : deal'.groups[k] = deal.groups[k] \ Bad(m)
      /\ \A k \in DOMAIN deal.groups \ Hit(m) : deal'.group[k] = deal.group[k]
      /\ \A l \in DOMAIN again : deal'.group[again[l]] = Len(execs) + l
      /\ deal'.single = deal.single
  BY DEF Redeals
<1>2. Hit(m) \subseteq DOMAIN deal.groups /\ \A k \in DOMAIN deal.groups \ Hit(m) : deal.groups[k] \ Bad(m) = deal.groups[k]
  BY DEF Hit
<1>3. Held(i, g)' <=> \/ \E k \in DOMAIN deal.groups : i = deal'.group[k] /\ g = deal'.groups[k]
                      \/ \E t \in DOMAIN deal.single : i = deal.single[t] /\ g = {t}
  <2>1. DOMAIN deal'.groups = DOMAIN deal.groups /\ deal'.single = deal.single
    BY <1>1
  <2>2. Held(i, g)' <=> \/ \E k \in DOMAIN deal'.groups : i = deal'.group[k] /\ g = deal'.groups[k]
                        \/ \E t \in DOMAIN deal'.single : i = deal'.single[t] /\ g = {t}
    BY DEF Held
  <2> QED BY <2>1, <2>2
<1>4. ASSUME NEW k \in DOMAIN deal.groups, i = deal'.group[k], g = deal'.groups[k]
      PROVE  Kept(i, g, m) \/ Redone(i, g, m, again)
  <2>1. CASE k \in Hit(m)
    <3>1. PICK l \in DOMAIN again : again[l] = k
      BY <1>1, <2>1
    <3>2. i = Len(execs) + l /\ g = deal.groups[again[l]] \ Bad(m)
      BY <1>1, <1>4, <3>1
    <3> QED BY <3>2 DEF Redone
  <2>2. CASE k \notin Hit(m)
    <3>1. i = deal.group[k] /\ g = deal.groups[k]
      BY <1>1, <1>2, <1>4, <2>2
    <3> QED BY <2>2, <3>1 DEF Kept
  <2> QED BY <2>1, <2>2
<1>5. ASSUME NEW l \in DOMAIN again, i = Len(execs) + l, g = deal.groups[again[l]] \ Bad(m)
      PROVE  \E k \in DOMAIN deal.groups : i = deal'.group[k] /\ g = deal'.groups[k]
  BY <1>1, <1>2, <1>5
<1>6. ASSUME NEW k \in DOMAIN deal.groups \ Hit(m), i = deal.group[k], g = deal.groups[k]
      PROVE  i = deal'.group[k] /\ g = deal'.groups[k]
  BY <1>1, <1>2, <1>6
<1> QED BY <1>3, <1>4, <1>5, <1>6 DEF Kept, Redone

\* An execution that is kept has none of the calls executed again, unless it is the
\* execution of one call alone, which failed its verification.
LEMMA KeptApart ==
  ASSUME NEW m, Division(m), NEW i, NEW g, Kept(i, g, m), NEW k \in Hit(m)
  PROVE  \/ Apart(g, deal.groups[k])
         \/ deal.groups[k] \ Bad(m) = {} /\ \A t \in g : verified[t] = "bad"
<1> DEFINE j == deal.group[k]
           h == deal.groups[k]
<1>1. k \in DOMAIN deal.groups /\ h \cap Bad(m) # {} /\ Held(j, h)
  BY DEF Hit, Held
<1>2. Held(i, g)
  BY DEF Kept, Held, Hit
<1>a. \A x, s, y, r : Held(x, s) /\ Held(y, r) => (x = y => s = r) /\ (x # y => Apart(s, r))
  BY DEF Division
<1>3. CASE i # j
  BY <1>1, <1>2, <1>3, <1>a
<1>4. CASE i = j
  <2>1. g = h
    BY SMT, <1>1, <1>2, <1>4, <1>a
  <2>2. \A l \in DOMAIN deal.groups \ Hit(m) : i # deal.group[l]
    BY <1>1, <1>4 DEF Division
  <2>3. PICK t : g = {t}
    BY <2>2 DEF Kept
  <2> QED BY SMT, <1>1, <2>1, <2>3 DEF Bad
<1> QED BY <1>3, <1>4

\* The executions awaited next share the batch out as well.
LEMMA RedealtApart ==
  ASSUME NEW m, NEW again, Redeals(m, again), Division(m), Types,
         NEW i, NEW g, NEW j, NEW h, Held(i, g)', Held(j, h)'
  PROVE  (i = j => g = h) /\ (i # j => Apart(g, h))
<1> DEFINE n == Len(execs)
<1>1. /\ Kept(i, g, m) \/ Redone(i, g, m, again)
      /\ Kept(j, h, m) \/ Redone(j, h, m, again)
  BY RedealtHeld
<1>2. \A x, s : Kept(x, s, m) => Held(x, s)
  BY DEF Kept, Held, Hit
<1>3. /\ \A l \in DOMAIN again : again[l] \in Hit(m) /\ n + l \notin DOMAIN execs
      /\ \A a, b \in DOMAIN again : again[a] = again[b] => a = b
  BY DEF Redeals
<1>4. ASSUME NEW x, NEW s, NEW y, NEW r, Kept(x, s, m), Redone(y, r, m, again)
      PROVE  x # y /\ Apart(s, r) /\ Apart(r, s)
  <2>1. PICK l \in DOMAIN again : y = n + l /\ r = deal.groups[again[l]] \ Bad(m)
    BY <1>4 DEF Redone
  <2>2. x \in DOMAIN execs /\ y \notin DOMAIN execs
    BY <1>2, <1>3, <1>4, <2>1 DEF Division
  <2>3. \/ Apart(s, deal.groups[again[l]])
        \/ r = {}
    BY <1>3, <1>4, <2>1, KeptApart
  <2> QED BY <2>1, <2>2, <2>3 DEF Apart
<1>5. CASE Kept(i, g, m) /\ Kept(j, h, m)
  BY <1>2, <1>5 DEF Division
<1>6. CASE Redone(i, g, m, again) /\ Redone(j, h, m, again)
  <2>1. PICK a \in DOMAIN again : i = n + a /\ g = deal.groups[again[a]] \ Bad(m)
    BY <1>6 DEF Redone
  <2>2. PICK b \in DOMAIN again : j = n + b /\ h = deal.groups[again[b]] \ Bad(m)
    BY <1>6 DEF Redone
  <2>3. n \in Nat /\ a \in Nat /\ b \in Nat
    BY SMT, <2>1, <2>2 DEF Redeals, Types
  <2>4. CASE a = b
    BY <2>1, <2>2, <2>4
  <2>5. CASE a # b
    <3>1. i # j
      BY SMT, <2>1, <2>2, <2>3, <2>5
    <3>2. again[a] # again[b] /\ again[a] \in DOMAIN deal.groups /\ again[b] \in DOMAIN deal.groups
      BY <1>3, <2>5 DEF Hit
    <3>3. /\ Held(deal.group[again[a]], deal.groups[again[a]])
          /\ Held(deal.group[again[b]], deal.groups[again[b]])
      BY <3>2 DEF Held
    <3>4. deal.group[again[a]] # deal.group[again[b]]
      BY <3>2 DEF Division
    <3>5. Apart(deal.groups[again[a]], deal.groups[again[b]])
      BY <3>3, <3>4, HeldApart
    <3> QED BY <2>1, <2>2, <3>1, <3>5 DEF Apart
  <2> QED BY <2>4, <2>5
<1> QED BY <1>1, <1>4, <1>5, <1>6

\* The results that are taken back when the verification is over.
Cleared(m) == (UNION {deal.groups[i] : i \in Hit(m)}) \cup (DOMAIN deal.single \cap Bad(m))

\* A result taken back is one of the batch; in an execution that is kept, only
\* that of a call that failed its verification is.
LEMMA ClearedCalls ==
  ASSUME NEW m, Division(m), NEW t \in Cleared(m)
  PROVE  t \in Current(m) /\ \A i, g : Kept(i, g, m) /\ t \in g => verified[t] = "bad"
<1>1. CASE t \in DOMAIN deal.single /\ t \in Bad(m)
  BY <1>1 DEF Bad
<1>2. CASE \E k \in Hit(m) : t \in deal.groups[k]
  <2>1. PICK k \in Hit(m) : t \in deal.groups[k]
    BY <1>2
  <2>2. t \in Current(m)
    <3>1. Held(deal.group[k], deal.groups[k])
      BY DEF Held, Hit
    <3>2. \A i, g : Held(i, g) => i \in DOMAIN execs /\ g \subseteq Current(m)
      BY DEF Division
    <3>3. deal.groups[k] \subseteq Current(m)
      BY <3>1, <3>2
    <3> QED BY <2>1, <3>3
  <2>3. ASSUME NEW i, NEW g, Kept(i, g, m), t \in g PROVE verified[t] = "bad"
    <3>1. \/ Apart(g, deal.groups[k])
          \/ deal.groups[k] \ Bad(m) = {} /\ \A u \in g : verified[u] = "bad"
      BY <2>3, KeptApart
    <3> QED BY <2>1, <2>3, <3>1 DEF Apart
  <2> QED BY <2>2, <2>3
<1>3. \/ \E k \in Hit(m) : t \in deal.groups[k]
      \/ t \in DOMAIN deal.single /\ t \in Bad(m)
  <2>1. \/ t \in UNION {deal.groups[i] : i \in Hit(m)}
        \/ t \in DOMAIN deal.single /\ t \in Bad(m)
    <3> DEFINE U == UNION {deal.groups[i] : i \in Hit(m)}
    <3>1. t \in U \cup (DOMAIN deal.single \cap Bad(m))
      BY DEF Cleared
    <3> HIDE DEF U
    <3>2. t \in U \/ (t \in DOMAIN deal.single /\ t \in Bad(m))
      BY <3>1
    <3> QED BY <3>2 DEF U
  <2>2. ASSUME t \in UNION {deal.groups[i] : i \in Hit(m)}
        PROVE  \E k \in Hit(m) : t \in deal.groups[k]
    <3>1. PICK s \in {deal.groups[i] : i \in Hit(m)} : t \in s
      BY <2>2
    <3> QED BY <3>1
  <2> QED BY <2>1, <2>2
<1> QED BY <1>1, <1>2, <1>3

\* The executions awaited next have run as they should, or not begun.
LEMMA RedealtRun ==
  ASSUME NEW m \in Messages, NEW again, Redeals(m, again), Division(m), Executions(m), Types,
         info' = [t \in Txs |-> IF t \in Cleared(m) THEN None ELSE info[t]],
         UNCHANGED <<verified, contractCache, latest>>, NEW i, NEW g, Held(i, g)'
  PROVE  Ran(i, g)' /\ IF execs'[i].res = None THEN Doing(i, g)' ELSE Over(i, g)'
<1>1. \A t \in Txs : info'[t] # None => info'[t] = info[t]
  OBVIOUS
<1>2. CASE Kept(i, g, m)
  <2>1. Held(i, g)
    BY <1>2 DEF Kept, Held, Hit
  <2>2. i \in DOMAIN execs /\ g \subseteq Txs
    <3>1. \A x, s : Held(x, s) => x \in DOMAIN execs /\ s \subseteq Current(m)
      BY DEF Division
    <3>2. i \in DOMAIN execs /\ g \subseteq Current(m)
      BY <2>1, <3>1
    <3> QED BY <3>2, CurrentTxs
  <2>3. Ran(i, g) /\ IF execs[i].res = None THEN Doing(i, g) ELSE Over(i, g)
    BY <2>1 DEF Executions
  <2>4. execs'[i] = execs[i] /\ deal'.latest = deal.latest
    BY <2>2 DEF Redeals
  <2>5. execs[i].done \subseteq Txs
    <3>1. execs[i] \in Tasks
      BY <2>2, SeqFunction DEF Types
    <3> QED BY <3>1 DEF Tasks
  <2>6. \A t \in Txs : By(t, i)' => By(t, i) /\ info'[t] = info[t]
    BY <1>1 DEF By
  <2>7. \A t \in g : info[t] # None => info'[t] # None \/ verified[t] = "bad"
    <3>1. \A t \in g : t \in Cleared(m) => verified[t] = "bad"
      BY <1>2, ClearedCalls
    <3> QED BY <2>2, <3>1
  <2> QED BY <2>2, <2>3, <2>4, <2>5, <2>6, <2>7, OthersKeep
<1>3. CASE Redone(i, g, m, again)
  <2>1. PICK l \in DOMAIN again : i = Len(execs) + l /\ g = deal.groups[again[l]] \ Bad(m)
    BY <1>3 DEF Redone
  <2>2. /\ again[l] \in DOMAIN deal.groups /\ deal'.groups[again[l]] = g
        /\ i \notin DOMAIN execs /\ execs'[i] = Task(g, "tx")
    BY <2>1 DEF Redeals, Hit
  <2>3. g \subseteq Current(m)
    <3>1. Held(deal.group[again[l]], deal.groups[again[l]])
      BY <2>2 DEF Held
    <3>2. deal.groups[again[l]] \subseteq Current(m)
      BY <3>1, HeldInBatch
    <3> QED BY <2>1, <3>2
  <2>4. g \in SUBSET Txs /\ IsFiniteSet(g)
    BY <2>3, CurrentTxs, FS_Subset
  <2>5. \A t \in Txs : ~By(t, i)'
    BY <1>1, <2>2 DEF By, Types
  <2> QED BY <2>2, <2>4, <2>5, FreshDoing
<1> QED BY <1>2, <1>3, RedealtHeld

\* The end of the verification keeps the invariant.
LEMMA VerifiedKeeps ==
  ASSUME PackInv, NEW m \in Messages, Verified(m)
  PROVE  PackInv'
<1>0. Types /\ Handlers /\ Calls
  BY DEF PackInv
<1>1. /\ stage[m] = "verifying" /\ \A t \in Current(m) : verified[t] # "running"
      /\ stage' = [stage EXCEPT ![m] = "executing"]
      /\ UNCHANGED <<running, mutex, batch, verified, contractCache, latest, outcome>>
  BY DEF Verified
<1>2. Active(m) /\ Division(m) /\ Outcomes(m) /\ Executions(m)
  BY <1>1 DEF PackInv, Dealt, Active
<1>3. PICK again : again = Ascending(Hit(m))
  OBVIOUS
<1>4. Redeals(m, again)
  BY <1>0, <1>2, <1>3, VerifiedAgain
<1>5. info' = [t \in Txs |-> IF t \in Cleared(m) THEN None ELSE info[t]]
  BY DEF Verified, Cleared
<1>6. /\ stage \in [Messages -> Stages] /\ stage'[m] = "executing"
      /\ \A x \in Messages : x # m => stage'[x] = stage[x]
  BY <1>0, <1>1 DEF Types
<1>7. /\ \A x \in Messages : x # m => ~Active(x)
      /\ \A x \in Messages : Active(x)' => x = m
      /\ Active(m)'
  BY <1>0, <1>2, <1>6, OneActive DEF Active
<1>8. /\ \A x \in Messages : Current(x)' = Current(x)
      /\ Current(m) \subseteq Txs
  BY <1>0, <1>1, CurrentTxs DEF Current
<1>9. queue' \in Seq(Jobs) /\ stage' \in [Messages -> Stages] /\ Handlers'
  <2> DEFINE q == [k \in DOMAIN again |-> <<"exec", deal'.group[again[k]]>>]
  <2>1. queue' = queue \o q
    <3> DEFINE Q(s) == [k \in DOMAIN s |-> <<"exec", deal'.group[s[k]]>>]
    <3>1. queue' = queue \o Q(Ascending(Hit(m)))
      BY DEF Verified, Recommit
    <3> HIDE DEF Q
    <3>2. queue' = queue \o Q(again)
      BY <1>3, <3>1
    <3> QED BY <3>2 DEF Q
  <2>2. again \in Seq(Hit(m))
    <3>1. Hit(m) \in SUBSET Nat /\ IsFiniteSet(Hit(m))
      <4>1. Hit(m) \subseteq DOMAIN deal.groups
        BY DEF Hit
      <4>2. Len(deal.groups) \in Nat /\ DOMAIN deal.groups = 1 .. Len(deal.groups)
        <5>1. deal \in [groups : Seq(SUBSET Txs), group : Seq(Nat),
                        single : UNION {[S -> Nat] : S \in SUBSET Txs}, latest : [Contracts -> Int]]
          BY <1>2 DEF Division
        <5>2. deal.groups \in Seq(SUBSET Txs)
          BY <5>1
        <5> QED BY <5>2, SeqFunction
      <4>3. \A n \in Nat : IsFiniteSet(1 .. n) /\ 1 .. n \subseteq Nat
        BY SMT, FS_Interval
      <4>4. IsFiniteSet(DOMAIN deal.groups) /\ DOMAIN deal.groups \subseteq Nat
        BY <4>2, <4>3
      <4> QED BY <4>1, <4>4, FS_Subset
    <3> QED BY <1>3, <3>1, AscendingOf
  <2>3. \A k \in DOMAIN again : deal'.group[again[k]] \in Nat
    <3>1. /\ deal'.group \in Seq(Nat) /\ DOMAIN deal'.group = DOMAIN deal.groups
          /\ \A k \in DOMAIN again : again[k] \in Hit(m)
      BY <1>4 DEF Redeals
    <3>2. \A k \in DOMAIN again : again[k] \in DOMAIN deal'.group
      BY <3>1 DEF Hit
    <3> QED BY <3>1, <3>2, SeqFunction
  <2>4. Len(again) \in Nat /\ DOMAIN again = 1 .. Len(again)
    BY <2>2, SeqFunction
  <2>5. q \in [1 .. Len(again) -> Jobs] /\ \A k \in DOMAIN q : q[k][1] = "exec"
    BY <2>3, <2>4 DEF Jobs
  <2> HIDE DEF q
  <2>6. Joins(Jobs, queue', queue, q)
    <3>1. q \in Seq(Jobs)
      BY <2>4, <2>5, FunctionSeq
    <3> QED BY <1>0, <2>1, <3>1 DEF Joins, Types
  <2> QED BY <1>0, <1>1, <2>5, <2>6, QueueKeeps
<1>10. Types'
  <2>1. /\ execs' \in Seq(Tasks) /\ DOMAIN execs \subseteq DOMAIN execs'
    BY <1>4 DEF Redeals
  <2>2. \A t \in Txs : info'[t] = None \/ info'[t] = info[t]
    BY <1>5
  <2>3. info' \in [Txs -> Results \cup {None}]
    <3>1. info \in [Txs -> Results \cup {None}]
      BY <1>0 DEF Types
    <3> QED BY <1>5, <3>1
  <2>4. \A t \in Txs : info'[t] # None => /\ info'[t].pre \in [Touches[t] -> Int]
                                          /\ info'[t].by \in DOMAIN execs'
    <3>1. \A t \in Txs : info[t] # None => /\ info[t].pre \in [Touches[t] -> Int]
                                           /\ info[t].by \in DOMAIN execs
      BY <1>0 DEF Types
    <3> QED BY <2>1, <2>2, <3>1
  <2> QED BY <1>0, <1>1, <1>9, <2>1, <2>3, <2>4 DEF Types
<1>11. Calls'
  <2>1. \A x \in Messages : \A i \in DOMAIN Batches[x] : Undealt(x, i)' => Undealt(x, i)
    BY <1>1, <1>6 DEF Undealt
  <2>2. \A t \in Txs : verified[t] # "running"
    <3>1. \A x \in Messages : stage[x] = "verifying" => x = m
      BY <1>7 DEF Active
    <3> QED BY <1>0, <1>1, <3>1 DEF Calls
  <2>3. ASSUME NEW t \in contractCache, info'[t] = None
        PROVE  t \in Current(m)
    <3>1. CASE t \in Cleared(m)
      BY <1>2, <3>1, ClearedCalls
    <3>2. CASE t \notin Cleared(m)
      <4>1. t \in Txs
        BY <1>0 DEF Types
      <4>2. info[t] = None
        BY <1>5, <2>3, <3>2, <4>1
      <4> QED BY <1>0, <1>7, <4>2 DEF Calls
    <3> QED BY <3>1, <3>2
  <2>4. verified' = verified /\ contractCache' = contractCache
    BY <1>1
  <2> QED BY <1>0, <1>7, <1>8, <2>1, <2>2, <2>3, <2>4 DEF Calls
<1>12. \A i, g : Held(i, g)' <=> Kept(i, g, m) \/ Redone(i, g, m, again)
  BY <1>4, RedealtHeld
<1>13. \A i, g : Held(i, g) => i \in DOMAIN execs /\ g \subseteq Current(m)
  BY <1>2 DEF Division
<1>14. Division(m)'
  <2>1. /\ deal'.groups \in Seq(SUBSET Txs) /\ deal'.group \in Seq(Nat)
        /\ DOMAIN deal'.group = DOMAIN deal.groups /\ DOMAIN deal'.groups = DOMAIN deal.groups
        /\ deal'.single = deal.single /\ deal'.latest = deal.latest
        /\ deal' = [groups |-> deal'.groups, group |-> deal'.group, single |-> deal'.single, latest |-> deal'.latest]
    BY <1>4 DEF Redeals
  <2>2. deal' \in [groups : Seq(SUBSET Txs), group : Seq(Nat),
                   single : UNION {[S -> Nat] : S \in SUBSET Txs}, latest : [Contracts -> Int]]
    <3> DEFINE F == UNION {[S -> Nat] : S \in SUBSET Txs}
    <3>1. deal.single \in F /\ deal.latest \in [Contracts -> Int]
      BY <1>2 DEF Division
    <3> HIDE DEF F
    <3>2. deal' \in [groups : Seq(SUBSET Txs), group : Seq(Nat), single : F, latest : [Contracts -> Int]]
      BY <2>1, <3>1
    <3> QED BY <3>2 DEF F
  <2>3. \A k, l \in DOMAIN deal'.group : deal'.group[k] = deal'.group[l] => k = l
    <3>1. /\ \A k \in Hit(m) : \E l \in DOMAIN again : again[l] = k
          /\ \A k \in DOMAIN deal.groups \ Hit(m) : deal'.group[k] = deal.group[k]
          /\ \A l \in DOMAIN again : /\ deal'.group[again[l]] = Len(execs) + l /\ l \in Nat
                                     /\ Len(execs) + l \notin DOMAIN execs
      BY <1>4 DEF Redeals
    <3>2. \A k \in DOMAIN deal.groups : deal.group[k] \in DOMAIN execs
      <4>1. \A k \in DOMAIN deal.groups : Held(deal.group[k], deal.groups[k])
        BY DEF Held
      <4> QED BY <1>13, <4>1
    <3>3. \A k, l \in DOMAIN deal.groups : deal.group[k] = deal.group[l] => k = l
      BY <1>2 DEF Division
    <3>4. Len(execs) \in Nat
      BY SMT, <1>0 DEF Types
    <3>5. ASSUME NEW k \in DOMAIN deal.groups, NEW l \in DOMAIN deal.groups, deal'.group[k] = deal'.group[l]
          PROVE  k = l
      <4>1. CASE k \in Hit(m) /\ l \in Hit(m)
        <5>1. PICK a \in DOMAIN again : again[a] = k
          BY <3>1, <4>1
        <5>2. PICK b \in DOMAIN again : again[b] = l
          BY <3>1, <4>1
        <5>3. Len(execs) + a = Len(execs) + b /\ a \in Nat /\ b \in Nat
          BY <3>1, <3>5, <5>1, <5>2
        <5>4. a = b
          BY SMT, <3>4, <5>3
        <5> QED BY <5>1, <5>2, <5>4
      <4>2. CASE k \notin Hit(m) /\ l \notin Hit(m)
        BY <3>1, <3>3, <3>5, <4>2
      <4>3. \A x \in Hit(m), y \in DOMAIN deal.groups \ Hit(m) : deal'.group[x] # deal'.group[y]
        BY SMT, <3>1, <3>2
      <4> QED BY <3>5, <4>1, <4>2, <4>3
    <3> QED BY <2>1, <3>5
  <2>4. ASSUME NEW i, NEW g, Held(i, g)'
        PROVE  i \in DOMAIN execs' /\ g \subseteq Current(m)
    <3>1. CASE Kept(i, g, m)
      <4>1. Held(i, g)
        BY <3>1 DEF Kept, Held, Hit
      <4>2. \A k \in DOMAIN execs : k \in DOMAIN execs'
        BY <1>4 DEF Redeals
      <4> QED BY <1>13, <4>1, <4>2
    <3>2. CASE Redone(i, g, m, again)
      <4>1. PICK l \in DOMAIN again : i = Len(execs) + l /\ g = deal.groups[again[l]] \ Bad(m)
        BY <3>2 DEF Redone
      <4>2. again[l] \in DOMAIN deal.groups /\ i \in DOMAIN execs'
        BY <1>4, <4>1 DEF Redeals, Hit
      <4>3. Held(deal.group[again[l]], deal.groups[again[l]])
        BY <4>2 DEF Held
      <4>4. deal.groups[again[l]] \subseteq Current(m)
        BY <1>13, <4>3
      <4> QED BY <4>1, <4>2, <4>4
    <3> QED BY <1>12, <2>4, <3>1, <3>2
  <2>5. \A i, g, j, h : Held(i, g)' /\ Held(j, h)' => (i = j => g = h) /\ (i # j => Apart(g, h))
    BY <1>0, <1>2, <1>4, RedealtApart
  <2>6. ASSUME NEW t \in Current(m)
        PROVE  \/ \E i, g : Held(i, g)' /\ t \in g
               \/ (stage'[m] # "verifying" /\ verified'[t] = "bad")
    <3>1. CASE verified[t] = "bad"
      BY <1>1, <1>6, <3>1
    <3>2. CASE verified[t] # "bad"
      <4>1. PICK i, g : Held(i, g) /\ t \in g
        BY <1>1, <1>2 DEF Division
      <4>2. CASE Kept(i, g, m)
        BY <1>12, <4>1, <4>2
      <4>3. CASE ~Kept(i, g, m)
        <5>1. PICK k \in Hit(m) : g = deal.groups[k]
          BY <4>1, <4>3 DEF Held, Kept
        <5>2. PICK l \in DOMAIN again : again[l] = k
          BY <1>4, <5>1 DEF Redeals
        <5>3. PICK j, h : j = Len(execs) + l /\ h = deal.groups[again[l]] \ Bad(m)
          OBVIOUS
        <5>4. Held(j, h)'
          BY <1>12, <5>2, <5>3 DEF Redone
        <5>5. t \in h
          BY <3>2, <4>1, <5>1, <5>2, <5>3 DEF Bad
        <5> QED BY <5>4, <5>5
      <4> QED BY <4>2, <4>3
    <3> QED BY <3>1, <3>2
  <2>7. Current(m)' = Current(m) /\ DOMAIN deal'.group = DOMAIN deal'.groups
    BY <1>8, <2>1
  <2> QED BY <2>2, <2>3, <2>4, <2>5, <2>6, <2>7, DivisionOf
<1>15. Outcomes(m)'
  <2>1. Current(m)' = Current(m) /\ verified' = verified /\ contractCache' = contractCache
    BY <1>1, <1>8
  <2>2. /\ \A t \in Current(m) : verified[t] # "none"
        /\ \A t \in Current(m) : verified[t] = "ok" => t \in contractCache
    BY <1>1, <1>2 DEF Outcomes
  <2>3. ASSUME NEW i, NEW g, Held(i, g)', NEW t \in g, verified[t] = "bad"
        PROVE  g = {t}
    <3>1. CASE Kept(i, g, m)
      <4>1. CASE \E k \in DOMAIN deal.groups \ Hit(m) : i = deal.group[k] /\ g = deal.groups[k]
        <5>1. PICK k \in DOMAIN deal.groups \ Hit(m) : i = deal.group[k] /\ g = deal.groups[k]
          BY <4>1
        <5>2. Held(i, g)
          BY <5>1 DEF Held
        <5>3. t \in Current(m)
          BY <1>13, <5>2
        <5> QED BY <2>3, <5>1, <5>3 DEF Hit, Bad
      <4>2. CASE \E u \in DOMAIN deal.single : i = deal.single[u] /\ g = {u}
        BY <4>2
      <4> QED BY <3>1, <4>1, <4>2 DEF Kept
    <3>2. CASE Redone(i, g, m, again)
      <4>1. PICK l \in DOMAIN again : i = Len(execs) + l /\ g = deal.groups[again[l]] \ Bad(m)
        BY <3>2 DEF Redone
      <4>2. again[l] \in DOMAIN deal.groups
        BY <1>4 DEF Redeals, Hit
      <4>3. Held(deal.group[again[l]], deal.groups[again[l]])
        BY <4>2 DEF Held
      <4>4. deal.groups[again[l]] \subseteq Current(m)
        BY <1>13, <4>3
      <4> QED BY <2>3, <4>1, <4>4 DEF Bad
    <3> QED BY <1>12, <2>3, <3>1, <3>2
  <2> QED BY <2>1, <2>2, <2>3 DEF Outcomes
<1>16. Executions(m)'
  <2>1. \A c \in Contracts : latest'[c] <= deal'.latest[c]
    <3>1. latest' = latest /\ deal'.latest = deal.latest
      BY <1>1, <1>4 DEF Redeals
    <3> QED BY <1>2, <3>1 DEF Executions
  <2>2. ASSUME NEW i, NEW g, Held(i, g)'
        PROVE  Ran(i, g)' /\ IF execs'[i].res = None THEN Doing(i, g)' ELSE Over(i, g)'
    <3>1. UNCHANGED <<verified, contractCache, latest>>
      BY <1>1
    <3> QED BY <1>0, <1>2, <1>4, <1>5, <2>2, <3>1, RedealtRun
  <2> QED BY <1>6, <2>1, <2>2 DEF Executions
<1>17. OneLinePerContract' /\ RestsOnItsBlock' /\ FailureStaysInItsGroup'
  BY <1>1, SameOutcome
<1> QED BY <1>7, <1>9, <1>10, <1>11, <1>14, <1>15, <1>16, <1>17 DEF PackInv, Dealt

-----------------------------------------------------------------------------
(* The end of the executions.                                              *)

\* A call is in one awaited execution only.
LEMMA OneExecution ==
  ASSUME NEW m, Division(m), NEW i, NEW g, NEW j, NEW h, Held(i, g), Held(j, h), NEW t, t \in g, t \in h
  PROVE  i = j /\ g = h
<1>1. (i = j => g = h) /\ (i # j => Apart(g, h))
  BY DEF Division
<1> QED BY <1>1 DEF Apart

\* Who is awaited, as Awaited has it.
LEMMA AwaitedHeld ==
  ASSUME NEW m, Division(m)
  PROVE  /\ \A i, g : Held(i, g) => i \in Awaited
         /\ \A i \in Awaited : \E g : Held(i, g)
<1>1. DOMAIN deal.group = DOMAIN deal.groups
  BY DEF Division
<1> QED BY <1>1 DEF Awaited, Held, Range

\* A call is dropped when the awaited execution it is in has failed, and only then.
LEMMA DroppedCalls ==
  ASSUME NEW m, Division(m), NEW i, NEW g, Held(i, g), NEW t \in g,
         \A j, h : Held(j, h) => Over(j, h)
  PROVE  t \in Dropped <=> execs[i].res # 0
<1> DEFINE FG == Failed(Range(deal.group))
           FS == Failed(Range(deal.single))
<1>1. DOMAIN deal.group = DOMAIN deal.groups
  BY DEF Division
<1>2. /\ \A k \in DOMAIN deal.groups : Held(deal.group[k], deal.groups[k])
      /\ \A u \in DOMAIN deal.single : Held(deal.single[u], {u})
  BY DEF Held
<1>3. \A u : u \in FG <=> u # 0 /\ \E k \in DOMAIN deal.groups : u = execs[deal.group[k]].res
  BY <1>1 DEF Failed, Range
<1>4. \A u : u \in FS <=> u # 0 /\ \E v \in DOMAIN deal.single : u = execs[deal.single[v]].res
  BY DEF Failed, Range
<1> HIDE DEF FG, FS
<1>5. t \in Dropped <=> \/ \E k \in DOMAIN deal.groups : t \in deal.groups[k] /\ deal.groups[k] \cap FG # {}
                        \/ t \in FS
  <2> DEFINE U == {h \in Range(deal.groups) : h \cap FG # {}}
  <2>1. Dropped = (UNION U) \cup FS
    BY DEF Dropped, FG, FS
  <2>2. \A h : h \in U <=> h \cap FG # {} /\ \E k \in DOMAIN deal.groups : h = deal.groups[k]
    BY DEF Range
  <2> HIDE DEF U
  <2>3. t \in UNION U <=> \E h \in U : t \in h
    OBVIOUS
  <2>4. t \in Dropped <=> (\E h \in U : t \in h) \/ t \in FS
    BY <2>1, <2>3
  <2>5. (\E h \in U : t \in h) <=> \E k \in DOMAIN deal.groups : t \in deal.groups[k] /\ deal.groups[k] \cap FG # {}
    BY SMT, <2>2
  <2> QED BY <2>4, <2>5
<1>6. ASSUME NEW k \in DOMAIN deal.groups, t \in deal.groups[k], deal.groups[k] \cap FG # {}
      PROVE  execs[i].res # 0
  <2>1. PICK u \in deal.groups[k] : u \in FG
    BY <1>6
  <2>2. PICK l \in DOMAIN deal.groups : u = execs[deal.group[l]].res /\ u # 0
    BY <1>3, <2>1
  <2>3. Over(deal.group[l], deal.groups[l])
    BY <1>2
  <2>4. u \in deal.groups[l]
    BY <2>2, <2>3 DEF Over
  <2>5. deal.group[k] = deal.group[l]
    <3>1. Held(deal.group[k], deal.groups[k]) /\ Held(deal.group[l], deal.groups[l])
      BY <1>2
    <3> QED BY SMT, <2>1, <2>4, <3>1, OneExecution
  <2>6. i = deal.group[k]
    BY <1>2, <1>6, OneExecution
  <2> QED BY <2>2, <2>5, <2>6
<1>7. ASSUME t \in FS PROVE execs[i].res # 0
  <2>1. PICK v \in DOMAIN deal.single : t = execs[deal.single[v]].res /\ t # 0
    BY <1>4, <1>7
  <2>2. Over(deal.single[v], {v})
    BY <1>2
  <2>3. t \in {v}
    BY <2>1, <2>2 DEF Over
  <2>4. i = deal.single[v]
    BY <1>2, <2>3, OneExecution
  <2> QED BY <2>1, <2>4
<1>8. ASSUME execs[i].res # 0 PROVE t \in Dropped
  <2>1. Over(i, g)
    OBVIOUS
  <2>2. execs[i].res \in g
    BY <1>8, <2>1 DEF Over
  <2>3. CASE \E k \in DOMAIN deal.groups : i = deal.group[k] /\ g = deal.groups[k]
    <3>1. PICK k \in DOMAIN deal.groups : i = deal.group[k] /\ g = deal.groups[k]
      BY <2>3
    <3>2. execs[i].res \in FG
      BY <1>3, <1>8, <3>1
    <3> QED BY <1>5, <2>2, <3>1, <3>2
  <2>4. CASE \E v \in DOMAIN deal.single : i = deal.single[v] /\ g = {v}
    <3>1. PICK v \in DOMAIN deal.single : i = deal.single[v] /\ g = {v}
      BY <2>4
    <3>2. execs[i].res \in FS
      BY <1>4, <1>8, <3>1
    <3>3. execs[i].res = t
      BY <2>2, <3>1
    <3> QED BY <1>5, <3>2, <3>3
  <2> QED BY <2>3, <2>4 DEF Held
<1> QED BY <1>5, <1>6, <1>7, <1>8

\* The end of the executions keeps the invariant.
LEMMA ExecutedKeeps ==
  ASSUME PackInv, NEW m \in Messages, Executed(m)
  PROVE  PackInv'
<1>0. Types /\ Handlers /\ Calls
  BY DEF PackInv
<1>1. /\ stage[m] = "executing" /\ \A i \in Awaited : execs[i].res # None
      /\ stage' = [stage EXCEPT ![m] = "process"] /\ contractCache' = contractCache \ Dropped
      /\ UNCHANGED <<queue, running, mutex, batch, verified, execs, deal, info, latest, outcome>>
  BY DEF Executed
<1>2. Active(m) /\ Division(m) /\ Outcomes(m) /\ Executions(m)
  BY <1>1 DEF PackInv, Dealt, Active
<1>3. /\ stage \in [Messages -> Stages] /\ stage'[m] = "process"
      /\ \A x \in Messages : x # m => stage'[x] = stage[x]
  BY <1>0, <1>1 DEF Types
<1>4. /\ \A x \in Messages : x # m => ~Active(x)
      /\ \A x \in Messages : Active(x)' <=> Active(x)
  BY <1>0, <1>2, <1>3, OneActive DEF Active
<1>5. \A x \in Messages : Current(x)' = Current(x)
  BY <1>1 DEF Current
<1>6. queue' \in Seq(Jobs) /\ stage' \in [Messages -> Stages] /\ Handlers'
  <2>1. PICK q : q = <<>>
    OBVIOUS
  <2>2. Joins(Jobs, queue', queue, q) /\ \A k \in DOMAIN q : q[k][1] = "exec"
    BY SMT, <1>0, <1>1, <2>1 DEF Joins, Types
  <2>3. stage[m] \in {"deal", "verifying", "executing", "process"} /\ mutex' = mutex
    BY <1>1
  <2>4. "process" \in {"verifying", "executing", "process"} /\ stage' = [stage EXCEPT ![m] = "process"]
    BY <1>1
  <2> QED BY <1>0, <2>2, <2>3, <2>4, QueueKeeps
<1>7. Types'
  BY <1>0, <1>1, <1>6 DEF Types
<1>8. Calls'
  <2>1. \A x \in Messages : \A i \in DOMAIN Batches[x] : Undealt(x, i)' => Undealt(x, i)
    BY <1>1, <1>3 DEF Undealt
  <2>2. \A x \in Messages : stage[x] = "verifying" => stage'[x] = "verifying"
    BY <1>1, <1>3
  <2>3. verified' = verified /\ info' = info /\ contractCache' \subseteq contractCache
    BY <1>1
  <2> QED BY <1>0, <1>4, <1>5, <2>1, <2>2, <2>3 DEF Calls
<1>9. \A i, g : Held(i, g)' <=> Held(i, g)
  BY <1>1 DEF Held
<1>10. Division(m)'
  <2>1. \A t \in Current(m) : verified[t] = "bad" => stage'[m] # "verifying" /\ verified'[t] = "bad"
    BY <1>1, <1>3
  <2> QED BY <1>1, <1>2, <1>5, <2>1, SameDivision
<1>11. Outcomes(m)'
  BY <1>1, <1>2, <1>3, <1>5, <1>9 DEF Outcomes
<1>12. \A i, g : Held(i, g) => execs[i].res # None /\ Ran(i, g) /\ Over(i, g)
  <2>1. \A i, g : Held(i, g) => execs[i].res # None
    BY <1>1, <1>2, AwaitedHeld
  <2>2. \A i, g : Held(i, g) => Ran(i, g) /\ (execs[i].res # None => Over(i, g))
    BY <1>2 DEF Executions
  <2> QED BY <2>1, <2>2
<1>13. Executions(m)'
  <2>1. \A c \in Contracts : latest'[c] <= deal'.latest[c]
    BY <1>1, <1>2 DEF Executions
  <2>2. ASSUME NEW i, NEW g, Held(i, g)
        PROVE  Ran(i, g)' /\ Over(i, g)' /\ Settled(i, g)' /\ execs'[i].res # None
    <3>1. execs[i].res # None /\ Ran(i, g) /\ Over(i, g)
      BY <1>12, <2>2
    <3>2. Ran(i, g)' /\ Over(i, g)' /\ execs'[i].res # None
      BY <1>1, <3>1 DEF Ran, Over, By
    <3>3. \A t \in g : t \in Dropped <=> execs[i].res # 0
      BY <1>2, <1>12, <2>2, DroppedCalls
    <3>4. \A t \in g : verified[t] = "ok" => t \in contractCache
      <4>1. \A t \in Current(m) : verified[t] = "ok" => t \in contractCache
        BY <1>1, <1>2 DEF Outcomes
      <4>2. g \subseteq Current(m)
        BY <1>2, <2>2 DEF Division
      <4> QED BY <4>1, <4>2
    <3>5. Settled(i, g)'
      <4>1. execs' = execs /\ verified' = verified /\ contractCache' = contractCache \ Dropped
        BY <1>1
      <4> QED BY <3>1, <3>3, <3>4, <4>1 DEF Settled
    <3> QED BY <3>2, <3>5
  <2> QED BY <1>9, <2>1, <2>2 DEF Executions
<1>14. OneLinePerContract' /\ RestsOnItsBlock' /\ FailureStaysInItsGroup'
  BY <1>1, SameOutcome
<1> QED BY <1>4, <1>6, <1>7, <1>8, <1>10, <1>11, <1>13, <1>14 DEF PackInv, Dealt

-----------------------------------------------------------------------------
(* ProcessContract.                                                        *)

\* The handler is about to make a block.
AtBlock(m) == Types /\ Handlers /\ Calls /\ Dealt(m) /\ stage[m] = "process"

\* Nothing is missing: a call in _contractCache is in an execution that
\* succeeded.
LEMMA NothingMissing ==
  ASSUME NEW m \in Messages, AtBlock(m), NEW t \in contractCache
  PROVE  info[t] # None
<1> SUFFICES ASSUME info[t] = None PROVE FALSE
  OBVIOUS
<1>1. Active(m) /\ verified[t] = "ok"
  BY DEF AtBlock, Active, Calls
<1>2. t \in Current(m)
  <2>1. \E n \in Messages : Active(n) /\ t \in Current(n)
    BY DEF AtBlock, Calls
  <2>2. \A n \in Messages : n # m => ~Active(n)
    BY <1>1, OneActive DEF AtBlock
  <2> QED BY <2>1, <2>2
<1>3. PICK i, g : Held(i, g) /\ t \in g
  BY <1>1, <1>2 DEF AtBlock, Dealt, Division
<1>4. /\ IF execs[i].res = None THEN Doing(i, g) ELSE Over(i, g)
      /\ Settled(i, g)
  BY <1>3 DEF AtBlock, Dealt, Executions
<1> QED BY <1>1, <1>3, <1>4 DEF Settled, Over

\* Nor is the verification of any call still running.
LEMMA NothingRuns ==
  ASSUME NEW m \in Messages, AtBlock(m)
  PROVE  \A t \in Txs : verified[t] # "running"
<1>1. Active(m) /\ stage[m] # "verifying"
  BY DEF AtBlock, Active
<1>2. \A n \in Messages : stage[n] # "verifying"
  <2>1. \A n \in Messages : n # m => ~Active(n)
    BY <1>1, OneActive DEF AtBlock
  <2> QED BY <1>1, <2>1 DEF Active
<1> QED BY <1>2 DEF AtBlock, Calls

\* Where a result of an awaited execution comes from, and that the block has
\* all the calls of that execution.
Sound(t, g) ==
    /\ Held(info[t].by, g) /\ Ran(info[t].by, g) /\ t \in g /\ g \subseteq contractCache

\* It is so for every result of an awaited execution when the block is made.
LEMMA InBlock ==
  ASSUME NEW m \in Messages, AtBlock(m), NEW t \in contractCache, info[t] # None, info[t].by \in Awaited
  PROVE  \E g : Sound(t, g)
<1>0. Division(m) /\ Outcomes(m) /\ Executions(m) /\ stage[m] = "process"
  BY DEF AtBlock, Dealt
<1>1. t \in Txs /\ verified[t] = "ok"
  BY DEF AtBlock, Calls, Types
<1>2. PICK g : Held(info[t].by, g)
  BY <1>0, AwaitedHeld
<1>3. Ran(info[t].by, g) /\ Settled(info[t].by, g)
  BY <1>0, <1>2 DEF Executions
<1>4. t \in g
  BY <1>1, <1>3 DEF Ran, By
<1>5. execs[info[t].by].res = 0
  BY <1>3, <1>4 DEF Settled
<1>6. g \subseteq Current(m) /\ Current(m) \subseteq Txs
  BY <1>0, <1>2, CurrentTxs DEF Division, AtBlock
<1>7. ASSUME NEW y \in g PROVE y \in contractCache
  <2>1. verified[y] # "none" /\ verified[y] # "running" /\ y \in Txs
    BY <1>0, <1>6, NothingRuns DEF Outcomes
  <2>2. verified[y] # "bad"
    BY <1>0, <1>1, <1>2, <1>4, RefusedAlone DEF AtBlock
  <2>3. verified[y] \in {"none", "running", "ok", "bad"}
    BY <2>1 DEF AtBlock, Types
  <2>4. verified[y] = "ok"
    BY <2>1, <2>2, <2>3
  <2> QED BY <1>3, <1>5, <2>4 DEF Settled
<1> QED BY <1>2, <1>3, <1>4, <1>7 DEF Sound

\* Only results of executions that are waited for.
Ours == \A t \in contractCache : info[t] # None => info[t].by \in Awaited

\* No two calls of the block name the same predecessor.
LEMMA BlockLine ==
  ASSUME NEW m \in Messages, AtBlock(m), Ours, NEW t \in contractCache, NEW u \in contractCache,
         NEW c \in Touches[t] \cap Touches[u], t # u
  PROVE  info[t].pre[c] # info[u].pre[c]
<1>1. info[t] # None /\ info[u] # None /\ t \in Txs /\ u \in Txs
  BY NothingMissing DEF AtBlock, Types
<1>2. PICK g : Sound(t, g)
  BY <1>1, InBlock DEF Ours
<1>3. PICK h : Sound(u, h)
  BY <1>1, InBlock DEF Ours
<1>4. CASE info[t].by = info[u].by
  BY <1>1, <1>2, <1>4 DEF Sound, Ran, By
<1>5. CASE info[t].by # info[u].by
  <2>1. Apart(g, h)
    BY <1>2, <1>3, <1>5 DEF Sound, AtBlock, Dealt, Division
  <2> QED BY <1>2, <1>3, <2>1 DEF Sound, Apart
<1> QED BY <1>4, <1>5

\* The results rest on calls of the block.
LEMMA BlockRests ==
  ASSUME NEW m \in Messages, AtBlock(m), Ours, NEW t \in contractCache
  PROVE  info[t].basis \subseteq contractCache
<1>1. info[t] # None /\ t \in Txs
  BY NothingMissing DEF AtBlock, Types
<1>2. PICK g : Sound(t, g)
  BY <1>1, InBlock DEF Ours
<1>3. info[t].basis \subseteq g
  BY <1>1, <1>2 DEF Sound, Ran, By
<1> QED BY <1>2, <1>3 DEF Sound

\* Every predecessor is known unless a block was saved meanwhile.
LEMMA BlockKnown ==
  ASSUME NEW m \in Messages, AtBlock(m), Ours, latest = deal.latest, NEW t \in contractCache,
         NEW c \in Touches[t]
  PROVE  KnownPreHash(c, info[t].pre[c])
<1>1. info[t] # None /\ t \in Txs
  BY NothingMissing DEF AtBlock, Types
<1>2. PICK g : Sound(t, g)
  BY <1>1, InBlock DEF Ours
<1>3. \/ info[t].pre[c] \in g
      \/ latest[c] <= info[t].pre[c] /\ info[t].pre[c] <= deal.latest[c]
  BY <1>1, <1>2 DEF Sound, Ran, By
<1>4. c \in Contracts
  BY <1>1, CallAssumption
<1>5. info[t].pre[c] \in Int /\ latest[c] \in Int
  <2>1. info[t].pre \in [Touches[t] -> Int] /\ latest \in [Contracts -> Int]
    BY <1>1 DEF AtBlock, Types
  <2> QED BY <1>4, <2>1
<1> QED BY SMT, <1>2, <1>3, <1>5 DEF Sound, KnownPreHash

\* What ProcessContract does has the three properties.
LEMMA BlockOutcome ==
  ASSUME NEW m \in Messages, AtBlock(m), ProcessContract(m)
  PROVE  OneLinePerContract' /\ RestsOnItsBlock' /\ FailureStaysInItsGroup'
<1>1. /\ outcome' # None => /\ outcome'.txs = contractCache /\ outcome'.live = Awaited
                            /\ outcome'.info = [t \in contractCache |-> info[t]]
                            /\ outcome'.moved = (latest # deal.latest)
      /\ outcome' # None /\ outcome'.res \in {"missing", "stale"} => outcome'.res = GetContractTxPreHash
  <2>1. PICK res : /\ Record(res)
                   /\ \/ res \in {"top", "empty", "built", "failed"}
                      \/ res = GetContractTxPreHash
    BY DEF ProcessContract
  <2>2. outcome' = [res |-> res, txs |-> contractCache, info |-> [t \in contractCache |-> info[t]],
                    live |-> Awaited, moved |-> latest # deal.latest]
    BY <2>1 DEF Record
  <2>3. /\ outcome'.txs = contractCache /\ outcome'.live = Awaited
        /\ outcome'.info = [t \in contractCache |-> info[t]]
        /\ outcome'.moved = (latest # deal.latest) /\ outcome'.res = res
    BY <2>2
  <2> QED BY <2>1, <2>3
<1>2. ASSUME outcome' # None, Own(outcome)'
      PROVE  Ours
  <2>1. outcome'.txs = contractCache /\ outcome'.live = Awaited /\ outcome'.info = [t \in contractCache |-> info[t]]
    BY <1>1, <1>2
  <2>2. \A t \in outcome'.txs : outcome'.info[t] # None => outcome'.info[t].by \in outcome'.live
    BY <1>2 DEF Own
  <2>3. \A t \in contractCache : outcome'.info[t] = info[t]
    BY <2>1
  <2> QED BY <2>1, <2>2, <2>3 DEF Ours
<1>3. OneLinePerContract'
  <2> SUFFICES ASSUME outcome' # None, Own(outcome)', NEW t \in contractCache, NEW u \in contractCache,
                      NEW c \in Touches[t] \cap Touches[u], t # u
               PROVE  outcome'.info[t].pre[c] # outcome'.info[u].pre[c]
    BY SMT, <1>1 DEF OneLinePerContract
  <2>1. outcome'.info[t] = info[t] /\ outcome'.info[u] = info[u]
    BY <1>1
  <2>2. info[t].pre[c] # info[u].pre[c]
    BY <1>2, BlockLine
  <2> QED BY <2>1, <2>2
<1>4. RestsOnItsBlock'
  <2> SUFFICES ASSUME outcome' # None, Own(outcome)', NEW t \in contractCache
               PROVE  outcome'.info[t].basis \subseteq contractCache
    BY <1>1 DEF RestsOnItsBlock
  <2>1. outcome'.info[t] = info[t]
    BY <1>1
  <2>2. info[t].basis \subseteq contractCache
    BY <1>2, BlockRests
  <2> QED BY <2>1, <2>2
<1>5. FailureStaysInItsGroup'
  <2> SUFFICES ASSUME outcome' # None, Own(outcome)', outcome'.res \in {"missing", "stale"}, latest = deal.latest
               PROVE  FALSE
    BY <1>1 DEF FailureStaysInItsGroup
  <2>1. \A t \in contractCache : info[t] # None
    BY NothingMissing
  <2>2. \A t \in contractCache : \A c \in Touches[t] : KnownPreHash(c, info[t].pre[c])
    BY <1>2, BlockKnown
  <2>3. GetContractTxPreHash = "known"
    BY <2>1, <2>2 DEF GetContractTxPreHash
  <2> QED BY <1>1, <2>3
<1> QED BY <1>3, <1>4, <1>5

\* ProcessContract keeps the invariant.
LEMMA ProcessKeeps ==
  ASSUME PackInv, NEW m \in Messages, ProcessContract(m)
  PROVE  PackInv'
<1>0. Types /\ Handlers /\ Calls
  BY DEF PackInv
<1>1. stage[m] = "process" /\ UNCHANGED <<queue, verified, execs, latest>>
  BY DEF ProcessContract
<1>2. Active(m) /\ AtBlock(m)
  BY <1>0, <1>1 DEF PackInv, Active, AtBlock
<1>3. /\ contractCache' \subseteq contractCache
      /\ info' = info \/ (contractCache' = {} /\ info' = [t \in Txs |-> None])
  BY DEF ProcessContract
<1>4. \/ /\ batch[m] < Len(Batches[m]) /\ stage' = [stage EXCEPT ![m] = "deal"]
         /\ batch' = [batch EXCEPT ![m] = @ + 1] /\ mutex' = mutex
      \/ stage' = [stage EXCEPT ![m] = "done"] /\ mutex' = None /\ batch' = batch
  BY DEF ProcessContract
<1>5. /\ stage \in [Messages -> Stages] /\ batch \in [Messages -> Nat]
      /\ \A x \in Messages : batch[x] \in DOMAIN Batches[x]
  BY <1>0 DEF Types
<1>6. /\ stage' \in [Messages -> Stages] /\ stage'[m] \in {"deal", "done"}
      /\ \A x \in Messages : x # m => stage'[x] = stage[x] /\ batch'[x] = batch[x]
      /\ stage'[m] = "deal" => mutex' = mutex
      /\ \/ stage'[m] = "deal" /\ batch[m] < Len(Batches[m]) /\ batch'[m] = batch[m] + 1
         \/ stage'[m] = "done" /\ batch'[m] = batch[m]
      /\ batch' \in [Messages -> Nat]
  BY SMT, <1>4, <1>5 DEF Stages
<1>7. /\ \A x \in Messages : x # m => stage[x] \notin {"deal", "verifying", "executing", "process"}
      /\ \A x \in Messages : ~Active(x)'
  <2>1. \A x \in Messages : x # m => stage[x] \notin {"deal", "verifying", "executing", "process"} /\ ~Active(x)
    BY <1>0, <1>2, OneActive
  <2> QED BY <1>6, <2>1 DEF Active
<1>8. Handlers'
  <2>1. \A x \in Messages : stage'[x] \in {"deal", "verifying", "executing", "process"} => mutex' = x
    BY <1>0, <1>1, <1>6, <1>7 DEF Handlers
  <2>2. \A k \in DOMAIN queue : queue[k][1] = "handle" =>
          /\ stage[queue[k][2]] = "queued" /\ queue[k][2] \in Messages
          /\ \A l \in DOMAIN queue : queue[l] = queue[k] => l = k
    BY SMT, <1>0 DEF Handlers, Types, Jobs
  <2>3. \A k \in DOMAIN queue : queue[k][1] = "handle" =>
          /\ stage'[queue[k][2]] = "queued"
          /\ \A l \in DOMAIN queue : queue[l] = queue[k] => l = k
    BY <1>1, <1>6, <2>2
  <2> QED BY <1>1, <2>1, <2>3 DEF Handlers
<1>9. Types'
  <2>1. \A x \in Messages : batch'[x] \in DOMAIN Batches[x]
    <3>1. Batches[m] \in Seq(SUBSET Txs)
      BY CallAssumption
    <3>2. batch[m] < Len(Batches[m]) => batch[m] + 1 \in DOMAIN Batches[m]
      BY SMT, <1>5, <3>1
    <3> QED BY <1>5, <1>6, <3>2
  <2>2. contractCache' \subseteq Txs
    BY <1>0, <1>3 DEF Types
  <2>3. /\ info' \in [Txs -> Results \cup {None}]
        /\ \A t \in Txs : info'[t] # None => /\ info'[t].pre \in [Touches[t] -> Int]
                                             /\ info'[t].by \in DOMAIN execs
    <3>1. CASE info' = info
      BY <1>0, <3>1 DEF Types
    <3>2. CASE info' = [t \in Txs |-> None]
      BY <3>2
    <3> QED BY <1>3, <3>1, <3>2
  <2> QED BY <1>0, <1>1, <1>6, <2>1, <2>2, <2>3 DEF Types
<1>10. Calls'
  <2>1. ASSUME NEW x \in Messages, NEW i \in DOMAIN Batches[x], Undealt(x, i)'
        PROVE  Undealt(x, i)
    <3>1. Batches[x] \in Seq(SUBSET Txs)
      BY CallAssumption
    <3>2. i \in Nat /\ batch[x] \in Nat /\ batch[m] \in Nat
      BY SMT, <1>5, <3>1
    <3>3. CASE x = m
      BY SMT, <1>6, <2>1, <3>2, <3>3 DEF Undealt
    <3>4. CASE x # m
      BY <1>6, <2>1, <3>4 DEF Undealt
    <3> QED BY <3>3, <3>4
  <2>2. \A t \in Txs : verified[t] # "running"
    BY <1>2, NothingRuns
  <2>3. \A t \in contractCache' : info'[t] # None
    BY <1>2, <1>3, NothingMissing
  <2>4. verified' = verified /\ contractCache' \subseteq contractCache
    BY <1>1, <1>3
  <2> QED BY <1>0, <2>1, <2>2, <2>3, <2>4 DEF Calls
<1>11. OneLinePerContract' /\ RestsOnItsBlock' /\ FailureStaysInItsGroup'
  BY <1>2, BlockOutcome
<1> QED BY <1>7, <1>8, <1>9, <1>10, <1>11 DEF PackInv

-----------------------------------------------------------------------------
(* The theorems.                                                           *)

\* The invariant holds in the initial state.
LEMMA InitPackInv == ASSUME Init PROVE PackInv
<1>1. Types
  <2>1. /\ queue = <<>> /\ execs = <<>> /\ stage = [m \in Messages |-> "none"]
        /\ batch = [m \in Messages |-> 1] /\ verified = [t \in Txs |-> "none"]
        /\ contractCache = {} /\ info = [t \in Txs |-> None] /\ latest = [c \in Contracts |-> 0]
    BY DEF Init
  <2>2. \A m \in Messages : 1 \in DOMAIN Batches[m]
    <3>1. \A m \in Messages : Batches[m] \in Seq(SUBSET Txs) /\ Batches[m] # <<>>
      BY CallAssumption
    <3> QED BY SMT, <3>1
  <2>3. queue \in Seq(Jobs) /\ execs \in Seq(Tasks)
    BY SMT, <2>1
  <2>4. stage \in [Messages -> Stages]
    BY <2>1 DEF Stages
  <2>5. batch \in [Messages -> Nat] /\ \A m \in Messages : batch[m] \in DOMAIN Batches[m]
    BY <2>1, <2>2
  <2>6. /\ info \in [Txs -> Results \cup {None}] /\ \A t \in Txs : info[t] = None
        /\ latest \in [Contracts -> Int] /\ \A c \in Contracts : latest[c] <= 0
    BY SMT, <2>1
  <2>7. verified \in [Txs -> {"none", "running", "ok", "bad"}] /\ contractCache \subseteq Txs
    BY <2>1
  <2> QED BY <2>3, <2>4, <2>5, <2>6, <2>7 DEF Types
<1>2. Handlers
  BY SMT DEF Init, Handlers
<1>3. Calls
  <2>1. contractCache = {} /\ verified = [t \in Txs |-> "none"]
    BY DEF Init
  <2>2. \A m \in Messages : \A i \in DOMAIN Batches[m] : Batches[m][i] \subseteq Txs
    <3>1. \A m \in Messages : Batches[m] \in Seq(SUBSET Txs)
      BY CallAssumption
    <3> QED BY SMT, <3>1
  <2> QED BY <2>1, <2>2 DEF Calls
<1>4. \A m \in Messages : ~Active(m)
  BY DEF Init, Active
<1>5. OneLinePerContract /\ RestsOnItsBlock /\ FailureStaysInItsGroup
  BY DEF Init, OneLinePerContract, RestsOnItsBlock, FailureStaysInItsGroup
<1> QED BY <1>1, <1>2, <1>3, <1>4, <1>5 DEF PackInv

\* Every step keeps it.
LEMMA NextPackInv == ASSUME GroupsApart, PackInv, [Next]_vars PROVE PackInv'
<1>1. ASSUME NEW m \in Messages, Handler(m) PROVE PackInv'
  BY <1>1, PoolKeeps, DealKeeps, VerifiedKeeps, ExecutedKeeps, ProcessKeeps DEF Handler
<1>2. CASE Take
  BY <1>2, TakeKeeps
<1>3. ASSUME NEW t \in Txs, VerifyTx(t) PROVE PackInv'
  BY <1>3, VerifyKeeps
<1>4. ASSUME NEW i \in DOMAIN execs, Execution(i) PROVE PackInv'
  BY <1>4, ExecKeeps
<1>5. ASSUME NEW m \in Messages, Receive(m) PROVE PackInv'
  BY <1>5, PoolKeeps
<1>6. ASSUME NEW c \in Contracts, SaveContractBlock(c) PROVE PackInv'
  BY <1>6, SaveKeeps
<1>7. CASE UNCHANGED vars
  <2>1. /\ UNCHANGED <<batch, verified, execs, deal, contractCache, info, latest, outcome>>
        /\ queue' = queue /\ stage' = stage /\ mutex' = mutex
    BY <1>7 DEF vars
  <2>2. queue' \in Seq(Jobs) /\ stage' \in [Messages -> Stages]
    BY <2>1 DEF PackInv, Types
  <2>3. Handlers'
    BY <2>1 DEF PackInv, Handlers
  <2>4. \A m \in Messages : stage'[m] = stage[m]
    BY <2>1
  <2> QED BY <2>1, <2>2, <2>3, <2>4, QuietKeeps
<1> QED BY <1>1, <1>2, <1>3, <1>4, <1>5, <1>6, <1>7 DEF Next, Step

\* In a block of contract calls no two calls of one contract name the same
\* predecessor, whichever executions were started again and however the steps of
\* the handler, the tasks and the other blocks interleave.
THEOREM BlocksHaveOneLine == ASSUME GroupsApart PROVE Spec => []OneLinePerContract
<1>1. Init => PackInv
  BY InitPackInv
<1>2. PackInv /\ [Next]_vars => PackInv'
  BY NextPackInv
<1>3. PackInv => OneLinePerContract
  BY DEF PackInv
<1> QED BY <1>1, <1>2, <1>3, PTL DEF Spec

\* The results in a block rest only on calls of that block.
THEOREM BlocksRestOnThemselves == ASSUME GroupsApart PROVE Spec => []RestsOnItsBlock
<1>1. Init => PackInv
  BY InitPackInv
<1>2. PackInv /\ [Next]_vars => PackInv'
  BY NextPackInv
<1>3. PackInv => RestsOnItsBlock
  BY DEF PackInv
<1> QED BY <1>1, <1>2, <1>3, PTL DEF Spec

\* A call that fails does not cost the block: ProcessContract finds every result
\* and every predecessor, unless other blocks were saved or a result is not its own.
THEOREM FailuresStayInTheirGroup == ASSUME GroupsApart PROVE Spec => []FailureStaysInItsGroup
<1>1. Init => PackInv
  BY InitPackInv
<1>2. PackInv /\ [Next]_vars => PackInv'
  BY NextPackInv
<1>3. PackInv => FailureStaysInItsGroup
  BY DEF PackInv
<1> QED BY <1>1, <1>2, <1>3, PTL DEF Spec
=============================================================================
