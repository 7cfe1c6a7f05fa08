------------------------- MODULE GlobalDataManager -------------------------
(***************************************************************************)
(* The request/acknowledgement rendezvous of common/global_data.cpp.       *)
(*                                                                         *)
(* A call makes a wait object (CreateWait), registers every node it sends  *)
(* the request to (AddResNode), and blocks (WaitData) until retNum nodes   *)
(* have answered or the time is over.  The network threads hand each       *)
(* answer to AddWaitData.  Every operation looks the wait object up under  *)
(* _globalDataMutex, lets that mutex go, and works on the shared_ptr it    *)
(* got under the object's own mutex: the two critical sections are two     *)
(* steps here.                                                             *)
(*                                                                         *)
(* A wait object is named by the call that made it.  The message id is the *)
(* hash of the microsecond timestamp, so it is modelled by the timestamp:  *)
(* two calls of the same microsecond have the same id.                     *)
(***************************************************************************)
EXTENDS Naturals, Sequences, FiniteSets

CONSTANTS Calls,        \* executions of CreateWait ... WaitData
          Nodes,        \* nodes that may be asked
          RetNums,      \* numbers of answers a call may wait for
          MaxClock,     \* bound: last microsecond of the model
          MaxHandlers,  \* bound: network threads inside AddWaitData at once
          Null          \* no id, no wait object

ASSUME RetNumsAssumption == RetNums \subseteq Nat
ASSUME ClockAssumption == MaxClock \in Nat

ASSUME NullAssumption == Null \notin Calls /\ Null \notin 0..MaxClock

VARIABLES
    clock,      \* TimeUtil::GetUTCTimestamp
    msgId,      \* msgId[c]: the id of call c, Null before CreateWait
    globalData, \* _globalData: the wait object each message id maps to
    retNum,     \* GlobalData::retNum
    data,       \* GlobalData::data, one <<call, node>> per accepted answer
    resIds,     \* GlobalData::res_ids
    pc,         \* where call c is
    todo,       \* nodes call c has still to register and ask
    ptr,        \* the dataPtr call c holds
    notified,   \* calls woken by condition.notify_all
    sent,       \* requests on the network, <<call, node>>
    handlers,   \* AddWaitData executions between their critical sections
    retData,    \* the answers WaitData returned
    flag        \* the value WaitData returned

vars == <<clock, msgId, globalData, retNum, data, resIds, pc, todo, ptr,
          notified, sent, handlers, retData, flag>>

Times == 0..MaxClock
Answers == Calls \X Nodes
Stages == {"idle", "stamped", "sending", "registering", "found",
           "waiting", "collected", "done"}

Init ==
    /\ clock = 0
    /\ msgId = [c \in Calls |-> Null]
    /\ globalData = [t \in Times |-> Null]
    /\ retNum = [c \in Calls |-> 0]
    /\ data = [c \in Calls |-> <<>>]
    /\ resIds = [c \in Calls |-> {}]
    /\ pc = [c \in Calls |-> "idle"]
    /\ todo = [c \in Calls |-> {}]
    /\ ptr = [c \in Calls |-> Null]
    /\ notified = {}
    /\ sent = {}
    /\ handlers = {}
    /\ retData = [c \in Calls |-> <<>>]
    /\ flag = [c \in Calls |-> FALSE]

-----------------------------------------------------------------------------
Tick ==
    /\ clock < MaxClock
    /\ clock' = clock + 1
    /\ UNCHANGED <<msgId, globalData, retNum, data, resIds, pc, todo, ptr,
                   notified, sent, handlers, retData, flag>>

\* CreateWait, before the lock: the id is the timestamp just read.
CreateWaitStamp(c) ==
    /\ pc[c] = "idle"
    /\ msgId' = [msgId EXCEPT ![c] = clock]
    /\ \E r \in RetNums : retNum' = [retNum EXCEPT ![c] = r]
    /\ \E N \in SUBSET Nodes : todo' = [todo EXCEPT ![c] = N]
    /\ pc' = [pc EXCEPT ![c] = "stamped"]
    /\ UNCHANGED <<clock, globalData, data, resIds, ptr, notified, sent,
                   handlers, retData, flag>>

CreateWaitInsertOverwrite(c) ==
    /\ pc[c] = "stamped"
    /\ globalData' = [globalData EXCEPT ![msgId[c]] = c]
    /\ pc' = [pc EXCEPT ![c] = "sending"]
    /\ UNCHANGED <<clock, msgId, retNum, data, resIds, todo, ptr, notified,
                   sent, handlers, retData, flag>>

\* CreateWait, under _globalDataMutex: map::insert keeps an existing entry.
CreateWaitInsert(c) ==
    /\ pc[c] = "stamped"
    /\ globalData' = [globalData EXCEPT ![msgId[c]] = IF @ = Null THEN c ELSE @]
    /\ pc' = [pc EXCEPT ![c] = "sending"]
    /\ UNCHANGED <<clock, msgId, retNum, data, resIds, todo, ptr, notified,
                   sent, handlers, retData, flag>>

\* AddResNode, first critical section; the caller gives up when it fails.
AddResNodeFind(c) ==
    /\ pc[c] = "sending"
    /\ todo[c] # {}
    /\ LET e == globalData[msgId[c]] IN
         /\ ptr' = [ptr EXCEPT ![c] = e]
         /\ pc' = [pc EXCEPT ![c] = IF e = Null THEN "done" ELSE "registering"]
    /\ UNCHANGED <<clock, msgId, globalData, retNum, data, resIds, todo,
                   notified, sent, handlers, retData, flag>>

\* AddResNode, second critical section, and the caller's send to the node.
AddResNodeInsert(c) ==
    /\ pc[c] = "registering"
    /\ \E n \in todo[c] :
         /\ resIds' = [resIds EXCEPT ![ptr[c]] = @ \cup {n}]
         /\ todo' = [todo EXCEPT ![c] = @ \ {n}]
         /\ sent' = sent \cup {<<c, n>>}
    /\ pc' = [pc EXCEPT ![c] = "sending"]
    /\ UNCHANGED <<clock, msgId, globalData, retNum, data, ptr, notified,
                   handlers, retData, flag>>

\* AddWaitData, first critical section.  The network may lose, delay or
\* repeat an answer, so a request stays answerable for ever; an answer whose
\* id is no longer in the table is dropped.
AddWaitDataFind(c, n) ==
    /\ <<c, n>> \in sent
    /\ globalData[msgId[c]] # Null
    /\ Cardinality(handlers) < MaxHandlers
    /\ handlers' = handlers \cup {<<c, n, globalData[msgId[c]]>>}
    /\ UNCHANGED <<clock, msgId, globalData, retNum, data, resIds, pc, todo,
                   ptr, notified, sent, retData, flag>>

EraseNone(e, n) == resIds[e]

\* res_ids.erase(found): a node is counted once per registration.
EraseFound(e, n) == resIds[e] \ {n}

NotifyAllStrict(e) ==
    notified' = IF Len(data'[e]) > retNum[e]
                THEN notified \cup {d \in Calls : pc[d] = "waiting" /\ ptr[d] = e}
                ELSE notified

\* condition.notify_all, once there are enough answers.
NotifyAll(e) ==
    notified' = IF Len(data'[e]) >= retNum[e]
                THEN notified \cup {d \in Calls : pc[d] = "waiting" /\ ptr[d] = e}
                ELSE notified

\* AddWaitData, second critical section, under the wait object's mutex.
AddWaitDataApply(c, n, e) ==
    /\ <<c, n, e>> \in handlers
    /\ handlers' = handlers \ {<<c, n, e>>}
    /\ IF n \in resIds[e]
       THEN /\ resIds' = [resIds EXCEPT ![e] = EraseFound(e, n)]
            /\ data' = [data EXCEPT ![e] = Append(@, <<c, n>>)]
            /\ NotifyAll(e)
       ELSE UNCHANGED <<resIds, data, notified>>
    /\ UNCHANGED <<clock, msgId, globalData, retNum, pc, todo, ptr, sent,
                   retData, flag>>

\* WaitData, first critical section: no entry, return false.
WaitDataFind(c) ==
    /\ pc[c] = "sending"
    /\ todo[c] = {}
    /\ LET e == globalData[msgId[c]] IN
         /\ ptr' = [ptr EXCEPT ![c] = e]
         /\ pc' = [pc EXCEPT ![c] = IF e = Null THEN "done" ELSE "found"]
    /\ UNCHANGED <<clock, msgId, globalData, retNum, data, resIds, todo,
                   notified, sent, handlers, retData, flag>>

\* What WaitData does with the object's mutex held once it need not wait.
Collect(c) ==
    /\ retData' = [retData EXCEPT ![c] = data[ptr[c]]]
    /\ flag' = [flag EXCEPT ![c] = Len(data[ptr[c]]) >= retNum[ptr[c]]]
    /\ pc' = [pc EXCEPT ![c] = "collected"]

\* WaitData, the test under the object's mutex; wait_for releases the mutex
\* and joins the condition's wait set in one step.
WaitDataCheck(c) ==
    /\ pc[c] = "found"
    /\ IF Len(data[ptr[c]]) < retNum[ptr[c]]
       THEN /\ pc' = [pc EXCEPT ![c] = "waiting"]
            /\ UNCHANGED <<retData, flag>>
       ELSE Collect(c)
    /\ UNCHANGED <<clock, msgId, globalData, retNum, data, resIds, todo, ptr,
                   notified, sent, handlers>>

WaitDataWakeNotified(c) ==
    /\ pc[c] = "waiting"
    /\ c \in notified
    /\ Collect(c)
    /\ notified' = notified \ {c}
    /\ UNCHANGED <<clock, msgId, globalData, retNum, data, resIds, todo, ptr,
                   sent, handlers>>

\* wait_for returns: notified, timed out, or spuriously.  There is no
\* predicate and no loop, so whatever has come is returned.
WaitDataWake(c) ==
    /\ pc[c] = "waiting"
    /\ Collect(c)
    /\ notified' = notified \ {c}
    /\ UNCHANGED <<clock, msgId, globalData, retNum, data, resIds, todo, ptr,
                   sent, handlers>>

WaitDataKeep(c) ==
    /\ pc[c] = "collected"
    /\ pc' = [pc EXCEPT ![c] = "done"]
    /\ UNCHANGED <<clock, msgId, globalData, retNum, data, resIds, todo, ptr,
                   notified, sent, handlers, retData, flag>>

\* WaitData, last critical section: the entry of this id is erased.
WaitDataErase(c) ==
    /\ pc[c] = "collected"
    /\ globalData' = [globalData EXCEPT ![msgId[c]] = Null]
    /\ pc' = [pc EXCEPT ![c] = "done"]
    /\ UNCHANGED <<clock, msgId, retNum, data, resIds, todo, ptr, notified,
                   sent, handlers, retData, flag>>

CallStep(c) ==
    \/ CreateWaitStamp(c)
    \/ CreateWaitInsert(c)
    \/ AddResNodeFind(c)
    \/ AddResNodeInsert(c)
    \/ WaitDataFind(c)
    \/ WaitDataCheck(c)
    \/ WaitDataWake(c)
    \/ WaitDataErase(c)

AnswerStep ==
    \/ \E c \in Calls, n \in Nodes : AddWaitDataFind(c, n)
    \/ \E h \in handlers : AddWaitDataApply(h[1], h[2], h[3])

Next ==
    \/ Tick
    \/ \E c \in Calls : CallStep(c)
    \/ AnswerStep

Spec == Init /\ [][Next]_vars

\* A thread that holds no mutex is scheduled, and wait_for has a time limit.
FairSpec == Spec /\ \A c \in Calls : WF_vars(CallStep(c))

-----------------------------------------------------------------------------
\* Type invariant: in particular a call that works on a wait object got one
\* from the table.
TypeOK ==
    /\ clock \in Times
    /\ msgId \in [Calls -> Times \cup {Null}]
    /\ globalData \in [Times -> Calls \cup {Null}]
    /\ retNum \in [Calls -> Nat]
    /\ data \in [Calls -> Seq(Answers)]
    /\ resIds \in [Calls -> SUBSET Nodes]
    /\ pc \in [Calls -> Stages]
    /\ todo \in [Calls -> SUBSET Nodes]
    /\ ptr \in [Calls -> Calls \cup {Null}]
    /\ notified \subseteq Calls
    /\ sent \subseteq Answers
    /\ handlers \subseteq Calls \X Nodes \X Calls
    /\ retData \in [Calls -> Seq(Answers)]
    /\ flag \in [Calls -> BOOLEAN]
    /\ \A c \in Calls : pc[c] \in {"registering", "found", "waiting"} => ptr[c] # Null

\* Another call was given the same message id in the same microsecond.
Collides(c) == \E d \in Calls \ {c} : msgId[d] = msgId[c] /\ msgId[c] # Null

\* Each answer of the sequence comes from another node.
DistinctNodes(s) == \A i, j \in DOMAIN s : i # j => s[i][2] # s[j][2]

\* WaitData returning true is a quorum: at least retNum answers, from
\* pairwise different nodes, each of them asked by this very call.  Answers
\* are repeated, late, and applied to the object after it was looked up; the
\* vote counts of the synchronisation and block-seeking code rest on this.
\* It is promised to a call that shares its message id with no other.
QuorumOfAskedNodes ==
    \A c \in Calls : flag[c] /\ ~Collides(c) =>
        /\ Len(retData[c]) >= retNum[c]
        /\ DistinctNodes(retData[c])
        /\ \A i \in DOMAIN retData[c] : retData[c][i][1] = c /\ retData[c][i] \in sent

\* No wake-up is lost between WaitData's test and its wait: a call still
\* waiting on an object that has all its answers has been notified.
NoLostWakeup ==
    \A c \in Calls : pc[c] = "waiting" /\ Len(data[ptr[c]]) >= retNum[ptr[c]]
                        => c \in notified

\* WaitData leaves nothing behind: an entry of the table is filed under the
\* id its own call drew, and that call has not returned, although a call with
\* the same id may have erased or inserted in between.
NoStaleEntry ==
    \A t \in Times : globalData[t] # Null =>
        msgId[globalData[t]] = t /\ pc[globalData[t]] # "done"

\* Every call that made a wait object comes back (a call that has left "idle"
\* is not there again).
EveryCallReturns == []<>(\A c \in Calls : pc[c] \in {"idle", "done"})
=============================================================================
