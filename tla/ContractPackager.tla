-------------------------- MODULE ContractPackager --------------------------
(***************************************************************************)
(* A packager makes a block of contract calls: HandleContractPackagerMsg,  *)
(* DealContractTransaction, _ExecuteContracts and ProcessContract of       *)
(* ca/transaction_cache.cpp.                                               *)
(*                                                                         *)
(* A handler holds _threadMutex until it returns.  For each batch (calls   *)
(* of one block timestamp) it starts the verification of every call,       *)
(* groups the calls that share a contract, has the groups executed, each   *)
(* by one task, and waits.  A call whose verification fails is taken out   *)
(* of its group, and the group is executed again while the task that       *)
(* executed it first, no longer waited for, may still be running.  Results *)
(* go into _contractInfoCache, verified calls into _contractCache, and     *)
(* ProcessContract makes a block of what is there.                         *)
(*                                                                         *)
(* Messages are handled by the threads of the transaction pool, which also *)
(* executes the groups; calls that depend on no other, and verification,   *)
(* run on other pools, which here have threads enough.  A call of this     *)
(* node's own dispatcher is handled in the dispatcher's thread.  What a    *)
(* contract computes is abstracted to the calls whose results it could     *)
(* see, and calls are numbered in the order of their hashes.               *)
(***************************************************************************)
EXTENDS DependencyGrouping

CONSTANTS
    Txs,        \* contract calls, numbers in the order of their hashes
    Contracts,
    Declared,   \* contractstoragelist of each call
    Touches,    \* the contracts it really changes
    Messages,   \* ContractPackagerMsg
    Batches,    \* the batches of each message, one or more, in the order of their time
    Local,      \* the messages of this node's own dispatcher
    Threads,    \* kTxThreadNumber
    MaxSaves,   \* bound: calls of each contract saved by other blocks
    None

\* What _contractInfoCache keeps of an execution: the predecessor of each contract
\* changed, the calls whose results it saw, and which execution it was.
Results == [pre : UNION {[Touches[t] -> Int] : t \in Txs}, basis : SUBSET Txs, by : Nat]

ASSUME CallAssumption ==
    /\ Txs \subseteq Nat \ {0} /\ Threads \in Nat /\ MaxSaves \in [Contracts -> Nat]
    /\ None \notin Int /\ None \notin Messages /\ None \notin Results
    /\ \A t \in Txs : Declared[t] \subseteq Contracts /\ Touches[t] \subseteq Contracts
    /\ \A m \in Messages : /\ Batches[m] \in Seq(SUBSET Txs) /\ Batches[m] # <<>>
                           /\ \A i \in DOMAIN Batches[m] : IsFiniteSet(Batches[m][i])
    /\ \A m \in Messages, n \in Messages : \A i \in DOMAIN Batches[m], j \in DOMAIN Batches[n] :
         Batches[m][i] \cap Batches[n][j] # {} => m = n /\ i = j

VARIABLES
    queue,          \* the transaction pool's tasks
    running,        \* those its threads are busy with
    mutex,          \* the message whose handler owns _threadMutex
    stage,          \* where each handler is
    batch,          \* the batch it is at
    verified,       \* outcome of each verification task
    execs,          \* every execution, in the order they were committed
    deal,           \* locals of DealContractTransaction: the groups, and the execution
                    \* awaited for each of them and for each call that is alone
    contractCache,  \* _contractCache
    info,           \* _contractInfoCache
    latest,         \* GetLatestUtxoByContractAddr; 0 and below are other calls
    outcome         \* history: what the last ProcessContract did, None in the next batch

vars == <<queue, running, mutex, stage, batch, verified, execs, deal, contractCache, info,
          latest, outcome>>

NoDeal == [groups |-> <<>>, group |-> <<>>, single |-> <<>>, latest |-> None]

Init ==
    /\ queue = <<>> /\ running = {} /\ mutex = None
    /\ stage = [m \in Messages |-> "none"] /\ batch = [m \in Messages |-> 1]
    /\ verified = [t \in Txs |-> "none"]
    /\ execs = <<>> /\ deal = NoDeal
    /\ contractCache = {} /\ info = [t \in Txs |-> None]
    /\ latest = [c \in Contracts |-> 0]
    /\ outcome = None

-----------------------------------------------------------------------------
(* The transaction pool and the handlers.                                  *)

Receive(m) ==
    /\ stage[m] = "none"
    /\ IF m \in Local
       THEN /\ stage' = [stage EXCEPT ![m] = "locking"]
            /\ UNCHANGED queue
       ELSE /\ stage' = [stage EXCEPT ![m] = "queued"]
            /\ queue' = Append(queue, <<"handle", m>>)
    /\ UNCHANGED <<running, mutex, batch, verified, execs, deal, contractCache, info, latest, outcome>>

\* A thread of the pool takes the oldest task.
Take ==
    /\ queue # <<>> /\ Cardinality(running) < Threads
    /\ LET job == Head(queue) IN
         /\ running' = running \cup {job}
         /\ stage' = IF job[1] = "handle" THEN [stage EXCEPT ![job[2]] = "locking"] ELSE stage
    /\ queue' = Tail(queue)
    /\ UNCHANGED <<mutex, batch, verified, execs, deal, contractCache, info, latest, outcome>>

\* The signature, the Vrf or the packager is wrong: -1 to -8.
Reject(m) ==
    /\ stage[m] = "locking" /\ mutex = None
    /\ stage' = [stage EXCEPT ![m] = "done"]
    /\ running' = running \ {<<"handle", m>>}
    /\ UNCHANGED <<queue, mutex, batch, verified, execs, deal, contractCache, info, latest, outcome>>

Lock(m) ==
    /\ stage[m] = "locking" /\ mutex = None
    /\ mutex' = m
    /\ stage' = [stage EXCEPT ![m] = "deal"]
    /\ UNCHANGED <<queue, running, batch, verified, execs, deal, contractCache, info, latest, outcome>>

-----------------------------------------------------------------------------
(* DealContractTransaction.                                                *)

\* The numbers of a finite set from the lowest to the highest: calls in the
\* order of their hashes, and groups.
Ascending(S) == CHOOSE s \in Orders(S) : \A i, j \in DOMAIN s : i < j => s[i] < s[j]

\* Where x is in a sequence.
Place(s, x) == CHOOSE i \in DOMAIN s : s[i] = x

\* Mutant: the ContractDataCache is one for all executions.
TaskSharedData(S, pool) ==
    [todo |-> Ascending(S), done |-> UNION {execs[i].done : i \in DOMAIN execs},
     pre |-> [c \in Contracts |-> None], pool |-> pool, res |-> None]

\* _ExecuteContracts as a task: what is left, what it has executed, its
\* contractPreHashCache and its result.
Task(S, pool) == [todo |-> Ascending(S), done |-> {}, pre |-> [c \in Contracts |-> None],
                  pool |-> pool, res |-> None]

\* Its locals are gone.
Returned(res) == [Task({}, "none") EXCEPT !.res = res]

Dep(S) == [t \in S |-> Declared[t]]

Current(m) == Batches[m][batch[m]]

\* Up to the first wait.  GetDependentData makes groups of one call singles.
Deal(m) ==
    /\ stage[m] = "deal"
    /\ verified' = [t \in Txs |-> IF t \in Current(m) THEN "running" ELSE verified[t]]
    /\ \E res \in Groupings(Dep(Current(m))) :
         LET large == Ascending({i \in DOMAIN res : Cardinality(res[i]) > 1})
             groups == [k \in DOMAIN large |-> res[large[k]]]
             single == Ascending(UNION {g \in Range(res) : Cardinality(g) = 1})
             n == Len(execs) IN
         /\ execs' = execs \o [i \in DOMAIN groups |-> Task(groups[i], "tx")]
                           \o [i \in DOMAIN single |-> Task({single[i]}, "block")]
         /\ queue' = queue \o [i \in DOMAIN groups |-> <<"exec", n + i>>]
         /\ deal' = [groups |-> groups, group |-> [i \in DOMAIN groups |-> n + i],
                     single |-> [t \in Range(single) |-> n + Len(groups) + Place(single, t)],
                     latest |-> latest]
    /\ stage' = [stage EXCEPT ![m] = "verifying"]
    /\ outcome' = None
    /\ UNCHANGED <<running, mutex, batch, contractCache, info, latest>>

\* A verification task: HasContractPackingPermission and DoHandleTx, which ends
\* in AddCache.
VerifyTx(t) ==
    /\ verified[t] = "running"
    /\ \/ /\ verified' = [verified EXCEPT ![t] = "ok"]
          /\ contractCache' = contractCache \cup {t}
       \/ /\ verified' = [verified EXCEPT ![t] = "bad"]
          /\ UNCHANGED contractCache
    /\ UNCHANGED <<queue, running, mutex, stage, batch, execs, deal, info, latest, outcome>>

\* Mutant: the predecessor is always looked up in the database.
PreHashOfDatabase(e, t) == [c \in Touches[t] |-> latest[c]]

\* GetAndUpdateContractPreHash for the contracts a call changes.
PreHash(e, t) == [c \in Touches[t] |-> IF e.pre[c] # None THEN e.pre[c] ELSE latest[c]]

Busy(i) == execs[i].res = None /\ (execs[i].pool = "tx" => <<"exec", i>> \in running)

\* One round of the loop of _ExecuteContracts, up to AddContractInfoCache.
ExecuteContract(i) ==
    /\ Busy(i) /\ execs[i].todo # <<>>
    /\ LET e == execs[i]
           t == Head(e.todo) IN
       \/ /\ info' = [info EXCEPT ![t] = [pre |-> PreHash(e, t), basis |-> e.done, by |-> i]]
          /\ execs' = [execs EXCEPT ![i] =
                [e EXCEPT !.todo = Tail(@), !.done = @ \cup {t},
                          !.pre = [c \in Contracts |-> IF c \in Touches[t] THEN t ELSE @[c]]]]
          /\ UNCHANGED running
       \/ /\ execs' = [execs EXCEPT ![i] = Returned(t)]
          /\ running' = running \ {<<"exec", i>>}
          /\ UNCHANGED info
    /\ UNCHANGED <<queue, mutex, stage, batch, verified, deal, contractCache, latest, outcome>>

\* The loop is over: {0, ""}.
ExecutedAll(i) ==
    /\ Busy(i) /\ execs[i].todo = <<>>
    /\ execs' = [execs EXCEPT ![i] = Returned(0)]
    /\ running' = running \ {<<"exec", i>>}
    /\ UNCHANGED <<queue, mutex, stage, batch, verified, deal, contractCache, info, latest, outcome>>

Bad(m) == {t \in Current(m) : verified[t] = "bad"}

\* failDependent: the groups with a call that failed its verification.
Hit(m) == {i \in DOMAIN deal.groups : deal.groups[i] \cap Bad(m) # {}}

\* Mutant: a group that has become empty is waited for, but not committed.
RecommitNonEmpty(again) == SelectSeq(again, LAMBDA i : deal'.groups[i] # {})

\* The groups that are executed again.
Recommit(again) == again

\* From the wait for txTaskResults to the wait for the executions.  A group
\* that has lost its last call is made anew, empty, by operator[].
Verified(m) ==
    /\ stage[m] = "verifying"
    /\ \A t \in Current(m) : verified[t] # "running"
    /\ LET again == Ascending(Hit(m))
           n == Len(execs) IN
         /\ info' = [t \in Txs |->
                IF t \in (UNION {deal.groups[i] : i \in Hit(m)}) \cup (DOMAIN deal.single \cap Bad(m))
                THEN None ELSE info[t]]
         /\ deal' = [deal EXCEPT
                !.groups = [i \in DOMAIN @ |-> @[i] \ Bad(m)],
                !.group = [i \in DOMAIN @ |-> IF i \in Hit(m)
                                              THEN n + Place(again, i)
                                              ELSE @[i]]]
         /\ execs' = execs \o [k \in DOMAIN again |-> Task(deal'.groups[again[k]], "tx")]
         /\ queue' = queue \o [k \in DOMAIN Recommit(again) |->
                                 <<"exec", deal'.group[Recommit(again)[k]]>>]
    /\ stage' = [stage EXCEPT ![m] = "executing"]
    /\ UNCHANGED <<running, mutex, batch, verified, contractCache, latest, outcome>>

Awaited == Range(deal.group) \cup Range(deal.single)

Failed(I) == {execs[i].res : i \in I} \ {0}

\* Mutant: only the call that failed is dropped.
DroppedAlone == Failed(Awaited)

\* The calls a failed execution costs: the groups of a call that failed.
Dropped ==
    (UNION {g \in Range(deal.groups) : g \cap Failed(Range(deal.group)) # {}})
        \cup Failed(Range(deal.single))

\* The wait for the executions, and RemoveContractsCacheTransaction.
Executed(m) ==
    /\ stage[m] = "executing"
    /\ \A i \in Awaited : execs[i].res # None
    /\ contractCache' = contractCache \ Dropped
    /\ stage' = [stage EXCEPT ![m] = "process"]
    /\ UNCHANGED <<queue, running, mutex, batch, verified, execs, deal, info, latest, outcome>>

-----------------------------------------------------------------------------
(* ProcessContract, under the locks of all three caches.                   *)

\* A predecessor is a call of the block or the latest in the database.
KnownPreHash(c, h) == h \in contractCache \/ h = latest[c]

\* _GetContractTxPreHash.
GetContractTxPreHash ==
    IF \E t \in contractCache : info[t] = None THEN "missing"
    ELSE IF \A t \in contractCache : \A c \in Touches[t] : KnownPreHash(c, info[t].pre[c])
         THEN "known" ELSE "stale"

\* What became of the calls in _contractCache.
Record(res) ==
    outcome' = [res |-> res, txs |-> contractCache,
                info |-> [t \in contractCache |-> info[t]],
                live |-> Awaited, moved |-> latest # deal.latest]

\* _newSeekContractPreHash and BuildBlock may fail, too.
ProcessContract(m) ==
    /\ stage[m] = "process"
    /\ \/ Record("top") /\ UNCHANGED <<contractCache, info>>
       \/ /\ contractCache = {}
          /\ Record("empty") /\ UNCHANGED <<contractCache, info>>
       \/ /\ contractCache # {}
          /\ \E res \in IF GetContractTxPreHash = "known" THEN {"built", "failed"}
                        ELSE {GetContractTxPreHash} : Record(res)
          /\ contractCache' = {}
          /\ info' = [t \in Txs |-> None]
    /\ deal' = NoDeal
    /\ IF batch[m] < Len(Batches[m])
       THEN /\ stage' = [stage EXCEPT ![m] = "deal"]
            /\ batch' = [batch EXCEPT ![m] = @ + 1]
            /\ UNCHANGED <<mutex, running>>
       ELSE /\ stage' = [stage EXCEPT ![m] = "done"]
            /\ mutex' = None
            /\ running' = running \ {<<"handle", m>>}
            /\ UNCHANGED batch
    /\ UNCHANGED <<queue, verified, execs, latest>>

\* A block with a call of the contract is saved meanwhile.
SaveContractBlock(c) ==
    /\ latest[c] > -MaxSaves[c]
    /\ latest' = [latest EXCEPT ![c] = @ - 1]
    /\ UNCHANGED <<queue, running, mutex, stage, batch, verified, execs, deal, contractCache,
                   info, outcome>>

-----------------------------------------------------------------------------
Handler(m) == Reject(m) \/ Lock(m) \/ Deal(m) \/ Verified(m) \/ Executed(m) \/ ProcessContract(m)

Execution(i) == ExecuteContract(i) \/ ExecutedAll(i)

\* A thread that can take a step: it takes it, or another one does.  As every
\* handler and every task has an end, this is all that is needed.
Step ==
    \/ Take
    \/ \E m \in Messages : Handler(m)
    \/ \E t \in Txs : VerifyTx(t)
    \/ \E i \in DOMAIN execs : Execution(i)

Next ==
    \/ Step
    \/ \E m \in Messages : Receive(m)
    \/ \E c \in Contracts : SaveContractBlock(c)

Spec == Init /\ [][Next]_vars

FairSpec == Spec /\ WF_vars(Step)

-----------------------------------------------------------------------------
\* Two sets of calls that have no call in common, and change no contract in
\* common.
Apart(g, h) == g \cap h = {} /\ \A t \in g, u \in h : Touches[t] \cap Touches[u] = {}

\* Each batch falls into groups that are apart.  GetDependentData sees to it when
\* the calls change no contract they have not declared and no batch has a chain of
\* four calls or more, each sharing a contract with the next only; in such a chain
\* a call can be in two groups.  That the groups are sets of the batch's calls and
\* leave none out is a fact of the loop (GroupsHold of PackagingProofs).
GroupsApart ==
    \A m \in Messages : \A i \in DOMAIN Batches[m] : \A res \in Groupings(Dep(Batches[m][i])) :
        /\ res \in Seq(SUBSET Batches[m][i]) /\ UNION Range(res) = Batches[m][i]
        /\ \A j, k \in DOMAIN res : j # k => Apart(res[j], res[k])

Stages == {"none", "queued", "locking", "deal", "verifying", "executing", "process", "done"}

\* Type invariant.
TypeOK ==
    /\ mutex \in Messages \cup {None} /\ stage \in [Messages -> Stages]
    /\ batch \in [Messages -> Nat \ {0}] /\ contractCache \subseteq Txs
    /\ verified \in [Txs -> {"none", "running", "ok", "bad"}]
    /\ \A i \in DOMAIN execs : execs[i].res \in Txs \cup {0, None}
    /\ Cardinality(running) <= Threads
    /\ \A m \in Messages : stage[m] \in {"deal", "verifying", "executing", "process"} => mutex = m

\* The block was made only of what its own handler waited for.
Own(o) == \A t \in o.txs : o.info[t] # None => o.info[t].by \in o.live

\* In a block of contract calls those of one contract follow each other in one
\* line: no two name the same predecessor (GetDependentData puts calls that share
\* a contract into one execution).
OneLinePerContract ==
    outcome # None /\ outcome.res = "built" /\ Own(outcome) =>
        \A t, u \in outcome.txs : \A c \in Touches[t] \cap Touches[u] :
            t # u => outcome.info[t].pre[c] # outcome.info[u].pre[c]

\* The results in a block do not rest on a call that is not in it: a call that
\* failed leaves no trace in the results of those that came after it (the
\* group is executed again, or dropped).
RestsOnItsBlock ==
    outcome # None /\ outcome.res = "built" /\ Own(outcome) =>
        \A t \in outcome.txs : outcome.info[t].basis \subseteq outcome.txs

\* A call that fails costs only its own group: ProcessContract gives the whole
\* block up for a missing or outdated result only if blocks were saved
\* meanwhile, or a result came from an execution that was given up.
FailureStaysInItsGroup ==
    outcome # None /\ outcome.res \in {"missing", "stale"} => outcome.moved \/ ~Own(outcome)

\* Every handler returns, as long as there are fewer handlers on the transaction
\* pool than it has threads.
EveryHandlerReturns ==
    Cardinality(Messages \ Local) < Threads =>
        \A m \in Messages : stage[m] # "none" ~> stage[m] = "done"
=============================================================================
