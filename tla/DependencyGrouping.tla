------------------------- MODULE DependencyGrouping -------------------------
(***************************************************************************)
(* The grouping of contract calls by the contracts they declare, as it is  *)
(* written twice in the code: packDispatch::GetDependentData               *)
(* (ca/packager_dispatch.cpp) and ContractDispatcher::GetDependentData     *)
(* (ca/dispatchtx.cpp).  dep[t] is the set of contracts of call t.  The    *)
(* loops run over an unordered_map, so their order is any.                 *)
(***************************************************************************)
EXTENDS Integers, Sequences, FiniteSets, FiniteSetsExt, Folds, Functions

\* Mutant: the lists are compared as a whole.
HasDuplicateList(v1, v2) == v1 = v2

HasDuplicate(v1, v2) == v1 \cap v2 # {}

\* The call and the calls that share a contract with it.
CommonKeys(dep, t) == {t} \cup {u \in DOMAIN dep : HasDuplicate(dep[t], dep[u])}

\* The keys join the first group that has one of them, or make a new one.
InsertKeys(res, keys) ==
    LET hits == {i \in DOMAIN res : HasDuplicate(res[i], keys)} IN
    IF hits # {} THEN [res EXCEPT ![Min(hits)] = @ \cup keys] ELSE Append(res, keys)

\* The loop over the calls: the last one is inserted into the groups of the others.
GroupsInOrder(dep, order) ==
    MapThenFoldSet(LAMBDA keys, res : InsertKeys(res, keys), <<>>,
                   LAMBDA i : CommonKeys(dep, order[i]), LAMBDA I : Max(I), DOMAIN order)

\* The orders in which a loop may take the elements of a finite set.
Orders(S) == Injection(1 .. Cardinality(S), S)

\* The outcomes of the loop over an unordered_map.
Groupings(dep) == {GroupsInOrder(dep, o) : o \in Orders(DOMAIN dep)}
=============================================================================
