---------------------- MODULE GlobalDataManagerProofs ----------------------
(***************************************************************************)
(* Proofs about GlobalDataManager for any sets of calls and nodes.  The    *)
(* inductive invariant says that everything reached through a message id   *)
(* belongs to a call that drew that id (Linked, Answered), and that a node *)
(* of a call without a twin is in one place at a time: still to be asked,  *)
(* registered, or counted (Once).                                          *)
(***************************************************************************)
EXTENDS GlobalDataManager, TLAPS

\* Most leaves are first-order; those with arithmetic, sequences or records name SMT.
USE Zenon

\* Table entries, held pointers and running handlers connect equal ids.
Linked ==
    /\ \A t \in Times : globalData[t] # Null => msgId[globalData[t]] = t
    /\ \A c \in Calls : ptr[c] # Null => msgId[c] # Null /\ msgId[ptr[c]] = msgId[c]
    /\ \A h \in handlers : /\ <<h[1], h[2]>> \in sent
                           /\ msgId[h[3]] = msgId[h[1]]
    /\ \A a \in sent : msgId[a[1]] # Null
    /\ \A c \in Calls : pc[c] # "idle" => msgId[c] # Null

\* Every counted answer was asked for under the object's id.
Answered ==
    \A e \in Calls : \A i \in DOMAIN data[e] :
        /\ data[e][i] \in sent
        /\ msgId[data[e][i][1]] = msgId[e]
        /\ msgId[e] # Null

\* Nothing has happened to a call that has not drawn its id.
Untouched ==
    \A c \in Calls : /\ pc[c] = "idle" => msgId[c] = Null
                     /\ msgId[c] = Null => resIds[c] = {} /\ ~flag[c]

\* A call without a twin counts a node at most once.
Once ==
    \A e \in Calls : ~Collides(e) =>
        /\ DistinctNodes(data[e])
        /\ \A i \in DOMAIN data[e] : data[e][i][2] \notin resIds[e] \cup todo[e]
        /\ resIds[e] \cap todo[e] = {}

IInv == TypeOK /\ Linked /\ Answered /\ Untouched /\ Once

-----------------------------------------------------------------------------
\* The initial state satisfies the type invariant.
LEMMA InitTypeOK == Init => TypeOK
  BY SMT, ClockAssumption DEF Init, TypeOK, Times, Stages, Answers

\* Every step of a call or of a network thread preserves the type invariant.
LEMMA NextTypeOK == TypeOK /\ Linked /\ [Next]_vars => TypeOK'
<1> SUFFICES ASSUME TypeOK, Linked, [Next]_vars PROVE TypeOK'
  OBVIOUS
<1> USE ClockAssumption, RetNumsAssumption, NullAssumption
<1>1. CASE Tick
  BY SMT, <1>1 DEF TypeOK, Tick, Times
<1>2. ASSUME NEW c \in Calls, CreateWaitStamp(c) PROVE TypeOK'
  <2>1. PICK r \in RetNums : retNum' = [retNum EXCEPT ![c] = r]
    BY <1>2 DEF CreateWaitStamp
  <2>2. PICK N \in SUBSET Nodes : todo' = [todo EXCEPT ![c] = N]
    BY <1>2 DEF CreateWaitStamp
  <2>3. msgId' \in [Calls -> Times \cup {Null}]
    BY <1>2 DEF TypeOK, CreateWaitStamp
  <2>4. retNum' \in [Calls -> Nat]
    BY <2>1 DEF TypeOK
  <2>5. todo' \in [Calls -> SUBSET Nodes]
    BY <2>2 DEF TypeOK
  <2>6. pc' \in [Calls -> Stages] /\ pc' = [pc EXCEPT ![c] = "stamped"]
    BY <1>2 DEF TypeOK, CreateWaitStamp, Stages
  <2>7. \A d \in Calls : pc'[d] \in {"registering", "found", "waiting"} => ptr[d] # Null
    BY <2>6 DEF TypeOK
  <2> QED BY <1>2, <2>3, <2>4, <2>5, <2>6, <2>7 DEF TypeOK, CreateWaitStamp
<1>3. ASSUME NEW c \in Calls, CreateWaitInsert(c) PROVE TypeOK'
  BY <1>3 DEF TypeOK, CreateWaitInsert, Stages
<1>4. ASSUME NEW c \in Calls, AddResNodeFind(c) PROVE TypeOK'
  <2>1. globalData[msgId[c]] \in Calls \cup {Null}
    BY SMT, <1>4 DEF TypeOK, Linked, AddResNodeFind
  <2> QED BY <1>4, <2>1 DEF TypeOK, AddResNodeFind, Stages
<1>5. ASSUME NEW c \in Calls, AddResNodeInsert(c) PROVE TypeOK'
  <2>1. PICK n \in Nodes : /\ resIds' = [resIds EXCEPT ![ptr[c]] = @ \cup {n}]
                           /\ todo' = [todo EXCEPT ![c] = @ \ {n}]
                           /\ sent' = sent \cup {<<c, n>>}
    BY <1>5 DEF TypeOK, AddResNodeInsert
  <2>2. resIds' \in [Calls -> SUBSET Nodes] /\ todo' \in [Calls -> SUBSET Nodes]
    BY <2>1 DEF TypeOK
  <2>3. sent' \subseteq Answers
    BY SMT, <2>1 DEF TypeOK, Answers
  <2> QED BY <1>5, <2>2, <2>3 DEF TypeOK, AddResNodeInsert, Stages
<1>6. ASSUME NEW c \in Calls, NEW n \in Nodes, AddWaitDataFind(c, n) PROVE TypeOK'
  <2>1. msgId[c] \in Times
    BY SMT, <1>6 DEF TypeOK, Linked, AddWaitDataFind
  <2>2. globalData[msgId[c]] \in Calls
    BY <1>6, <2>1 DEF TypeOK, AddWaitDataFind
  <2>3. handlers' \subseteq Calls \X Nodes \X Calls
    BY SMT, <1>6, <2>2 DEF TypeOK, AddWaitDataFind
  <2> QED BY <1>6, <2>3 DEF TypeOK, AddWaitDataFind
<1>7. ASSUME NEW c \in Calls, NEW n \in Nodes, NEW e \in Calls, AddWaitDataApply(c, n, e)
      PROVE TypeOK'
  <2>0. data[e] \in Seq(Answers) /\ Append(data[e], <<c, n>>) \in Seq(Answers)
    BY SMT DEF Answers, TypeOK
  <2>1. data' \in [Calls -> Seq(Answers)]
    <3>1. CASE n \in resIds[e]
      BY <1>7, <2>0, <3>1 DEF TypeOK, AddWaitDataApply
    <3>2. CASE n \notin resIds[e]
      BY <1>7, <3>2 DEF TypeOK, AddWaitDataApply
    <3> QED BY <3>1, <3>2
  <2>3. resIds' \in [Calls -> SUBSET Nodes]
    <3>1. EraseFound(e, n) \in SUBSET Nodes
      BY DEF TypeOK, EraseFound
    <3>2. resIds' = [resIds EXCEPT ![e] = EraseFound(e, n)] \/ resIds' = resIds
      BY <1>7 DEF AddWaitDataApply
    <3>3. resIds \in [Calls -> SUBSET Nodes]
      BY DEF TypeOK
    <3> QED BY <3>1, <3>2, <3>3
  <2>2. notified' \subseteq Calls
    BY <1>7 DEF TypeOK, AddWaitDataApply, NotifyAll
  <2> QED BY <1>7, <2>1, <2>2, <2>3 DEF TypeOK, AddWaitDataApply
<1>8. ASSUME NEW c \in Calls, WaitDataFind(c) PROVE TypeOK'
  <2>1. globalData[msgId[c]] \in Calls \cup {Null}
    BY SMT, <1>8 DEF TypeOK, Linked, WaitDataFind
  <2>2. ptr' \in [Calls -> Calls \cup {Null}] /\ pc' \in [Calls -> Stages]
    BY <1>8, <2>1 DEF TypeOK, WaitDataFind, Stages
  <2>3. \A d \in Calls : pc'[d] \in {"registering", "found", "waiting"} => ptr'[d] # Null
    BY <1>8, <2>1 DEF TypeOK, WaitDataFind
  <2> QED BY <1>8, <2>2, <2>3 DEF TypeOK, WaitDataFind
<1>9. ASSUME NEW c \in Calls, WaitDataCheck(c) PROVE TypeOK'
  <2>1. ptr[c] \in Calls /\ data[ptr[c]] \in Seq(Answers)
    BY <1>9 DEF TypeOK, WaitDataCheck
  <2>2. Len(data[ptr[c]]) \in Nat /\ retNum[ptr[c]] \in Nat
    BY SMT, <2>1 DEF TypeOK
  <2>3. CASE Len(data[ptr[c]]) < retNum[ptr[c]]
    BY <1>9, <2>1, <2>3 DEF TypeOK, WaitDataCheck, Stages
  <2>4. CASE ~(Len(data[ptr[c]]) < retNum[ptr[c]])
    <3>1. Collect(c)
      BY <1>9, <2>4 DEF WaitDataCheck
    <3>2. retData' \in [Calls -> Seq(Answers)]
      BY <2>1, <3>1 DEF TypeOK, Collect
    <3>3. flag' \in [Calls -> BOOLEAN]
      BY SMT, <2>2, <3>1 DEF TypeOK, Collect
    <3> QED BY <1>9, <3>1, <3>2, <3>3 DEF TypeOK, WaitDataCheck, Collect, Stages
  <2> QED BY <2>3, <2>4
<1>10. ASSUME NEW c \in Calls, WaitDataWake(c) PROVE TypeOK'
  <2>1. ptr[c] \in Calls /\ data[ptr[c]] \in Seq(Answers)
    BY <1>10 DEF TypeOK, WaitDataWake
  <2> QED BY SMT, <1>10, <2>1 DEF TypeOK, WaitDataWake, Collect, Stages
<1>11. ASSUME NEW c \in Calls, WaitDataErase(c) PROVE TypeOK'
  BY <1>11 DEF TypeOK, WaitDataErase, Stages
<1>12. CASE UNCHANGED vars
  BY <1>12 DEF TypeOK, vars
<1>13. CASE AnswerStep
  <2>1. ASSUME NEW h \in handlers, AddWaitDataApply(h[1], h[2], h[3]) PROVE TypeOK'
    <3>1. h[1] \in Calls /\ h[2] \in Nodes /\ h[3] \in Calls
      BY <2>1 DEF TypeOK
    <3> QED BY <1>7, <2>1, <3>1
  <2> QED BY <1>6, <1>13, <2>1 DEF AnswerStep
<1> QED
  BY <1>1, <1>2, <1>3, <1>4, <1>5, <1>8, <1>9, <1>10, <1>11, <1>12, <1>13
     DEF Next, CallStep

\* The step that names a call changes only that call's own fields, and no
\* handler, table entry, pointer or answer refers to it yet.
LEMMA StampKeeps ==
    ASSUME IInv, NEW c \in Calls, CreateWaitStamp(c)
    PROVE  (Linked /\ Answered /\ Untouched /\ Once)'
<1> USE ClockAssumption, NullAssumption
<1>1. msgId[c] = Null /\ resIds[c] = {} /\ ~flag[c] /\ ptr[c] = Null
  BY DEF IInv, TypeOK, Linked, Untouched, CreateWaitStamp, Stages
<1>2. \A d \in Calls : d # c => msgId'[d] = msgId[d] /\ todo'[d] = todo[d]
  BY DEF IInv, TypeOK, CreateWaitStamp
<1>3. msgId'[c] = clock /\ clock # Null
  BY DEF IInv, TypeOK, CreateWaitStamp, Times
<1>4. \A i \in DOMAIN data[c] : FALSE
  BY <1>1 DEF IInv, Answered
<1>5. Linked'
  <2>1. \A t \in Times : globalData[t] # Null => globalData[t] # c
    BY SMT, <1>1 DEF IInv, Linked, Times
  <2>2. \A d \in Calls : ptr[d] # Null => ptr[d] # c /\ d # c
    BY <1>1 DEF IInv, Linked
  <2>3. \A a \in sent : a[1] # c /\ a[1] \in Calls
    BY <1>1 DEF IInv, Linked, TypeOK, Answers
  <2>4. ASSUME NEW h \in handlers
        PROVE  h[1] # c /\ h[3] # c /\ h[1] \in Calls /\ h[3] \in Calls
    <3>1. h[1] \in Calls /\ h[3] \in Calls
      BY DEF IInv, TypeOK
    <3>2. <<h[1], h[2]>> \in sent /\ msgId[h[3]] = msgId[h[1]]
      BY DEF IInv, Linked
    <3>3. msgId[h[1]] # Null
      BY <3>2 DEF IInv, Linked
    <3> QED BY <1>1, <3>1, <3>2, <3>3
  <2> QED BY SMT, <1>2, <1>3, <2>1, <2>2, <2>3, <2>4 DEF IInv, TypeOK, Linked, CreateWaitStamp
<1>6. Answered'
  <2>1. ASSUME NEW e \in Calls, NEW i \in DOMAIN data[e]
        PROVE  data[e][i] \in sent /\ msgId'[data[e][i][1]] = msgId'[e] /\ msgId'[e] # Null
    <3>1. e # c /\ data[e][i] \in sent /\ data[e][i][1] \in Calls
      BY SMT, <1>4, <2>1 DEF IInv, Answered, TypeOK, Answers
    <3>2. data[e][i][1] # c
      BY <1>1, <2>1 DEF IInv, Answered
    <3> QED BY <1>2, <3>1, <3>2 DEF IInv, Answered
  <2> QED BY SMT, <2>1 DEF Answered, CreateWaitStamp
<1>7. Untouched'
  BY <1>2, <1>3 DEF IInv, TypeOK, Untouched, CreateWaitStamp
<1>8. Once'
  <2> SUFFICES ASSUME NEW e \in Calls, ~Collides(e)'
               PROVE  /\ DistinctNodes(data[e])
                      /\ \A i \in DOMAIN data[e] : data[e][i][2] \notin resIds[e] \cup todo'[e]
                      /\ resIds[e] \cap todo'[e] = {}
    BY SMT DEF Once, CreateWaitStamp, DistinctNodes
  <2>1. CASE e = c
    BY <1>1, <1>4, <2>1 DEF DistinctNodes
  <2>2. CASE e # c
    <3>1. ~Collides(e)
      BY <1>1, <1>2, <2>2 DEF Collides
    <3> QED BY <1>2, <2>2, <3>1 DEF IInv, Once
  <2> QED BY <2>1, <2>2
<1> QED BY <1>5, <1>6, <1>7, <1>8

\* Registering a node moves it from the nodes to ask to the nodes asked.
LEMMA RegisterKeeps ==
    ASSUME IInv, NEW c \in Calls, AddResNodeInsert(c)
    PROVE  (Linked /\ Answered /\ Untouched /\ Once)'
<1> USE NullAssumption
<1>1. PICK n \in todo[c] : /\ resIds' = [resIds EXCEPT ![ptr[c]] = @ \cup {n}]
                          /\ todo' = [todo EXCEPT ![c] = @ \ {n}]
                          /\ sent' = sent \cup {<<c, n>>}
  BY DEF AddResNodeInsert
<1>2. ptr[c] \in Calls /\ msgId[c] # Null /\ msgId[ptr[c]] = msgId[c]
  BY SMT DEF IInv, TypeOK, Linked, AddResNodeInsert
<1>3. Linked'
  BY SMT, <1>1, <1>2 DEF IInv, TypeOK, Linked, AddResNodeInsert
<1>4. Answered'
  BY <1>1 DEF IInv, Answered, AddResNodeInsert
<1>5. Untouched'
  BY SMT, <1>1, <1>2 DEF IInv, TypeOK, Untouched, AddResNodeInsert
<1>6. Once'
  <2> SUFFICES ASSUME NEW e \in Calls, ~Collides(e)
               PROVE  /\ DistinctNodes(data[e])
                      /\ \A i \in DOMAIN data[e] : data[e][i][2] \notin resIds'[e] \cup todo'[e]
                      /\ resIds'[e] \cap todo'[e] = {}
    BY SMT DEF Once, AddResNodeInsert, DistinctNodes, Collides
  <2>1. CASE e = c
    <3>1. ptr[c] = c
      BY <1>2, <2>1 DEF Collides
    <3> QED BY SMT, <1>1, <2>1, <3>1 DEF IInv, TypeOK, Once
  <2>2. CASE e # c
    <3>1. ptr[c] # e
      BY <1>2, <2>2 DEF Collides
    <3> QED BY <1>1, <1>2, <2>2, <3>1 DEF IInv, TypeOK, Once
  <2> QED BY <2>1, <2>2
<1> QED BY <1>3, <1>4, <1>5, <1>6

\* Counting an answer takes its node out of the registered ones.
LEMMA CountKeeps ==
    ASSUME IInv, NEW c \in Calls, NEW n \in Nodes, NEW e \in Calls,
           AddWaitDataApply(c, n, e)
    PROVE  (Linked /\ Answered /\ Untouched /\ Once)'
<1> USE NullAssumption
<1>1. <<c, n, e>> \in handlers /\ <<c, n>> \in sent
  BY DEF IInv, Linked, AddWaitDataApply
<1>2. msgId[c] # Null /\ msgId[e] = msgId[c]
  BY <1>1 DEF IInv, Linked
<1>3. Linked'
  BY DEF IInv, TypeOK, Linked, AddWaitDataApply
<1>4. CASE n \notin resIds[e]
  <2>1. UNCHANGED <<data, resIds, sent, msgId, todo, flag, pc>>
    BY <1>4 DEF AddWaitDataApply
  <2>2. Answered' /\ Untouched' /\ Once'
    BY SMT, <2>1 DEF IInv, Answered, Untouched, Once, Collides, DistinctNodes
  <2> QED BY <1>3, <2>2
<1>5. CASE n \in resIds[e]
  <2>1. /\ resIds' = [resIds EXCEPT ![e] = resIds[e] \ {n}]
        /\ data' = [data EXCEPT ![e] = Append(@, <<c, n>>)]
        /\ UNCHANGED <<sent, msgId, todo, flag, pc>>
    BY <1>5 DEF AddWaitDataApply, EraseFound
  <2>2. data[e] \in Seq(Answers) /\ <<c, n>> \in Answers
    BY DEF IInv, TypeOK, Answers
  <2>3. /\ data'[e] = Append(data[e], <<c, n>>)
        /\ \A d \in Calls : d # e => data'[d] = data[d]
    BY <2>1 DEF IInv, TypeOK
  <2>4. \A i \in DOMAIN data'[e] :
           \/ i \in DOMAIN data[e] /\ data'[e][i] = data[e][i]
           \/ i = Len(data[e]) + 1 /\ data'[e][i] = <<c, n>>
    BY SMT, <2>2, <2>3
  <2>5. Answered'
    <3>1. ASSUME NEW d \in Calls, NEW i \in DOMAIN data'[d]
          PROVE  data'[d][i] \in sent /\ msgId[data'[d][i][1]] = msgId[d] /\ msgId[d] # Null
      <4>1. CASE d = e
        BY SMT, <1>1, <1>2, <2>4, <4>1 DEF IInv, Answered
      <4>2. CASE d # e
        BY <2>3, <4>2 DEF IInv, Answered
      <4> QED BY <4>1, <4>2
    <3> QED BY <2>1, <3>1 DEF Answered
  <2>6. Untouched'
    BY <1>2, <2>1 DEF IInv, TypeOK, Untouched
  <2>7. Once'
    <3> SUFFICES ASSUME NEW d \in Calls, ~Collides(d)
                 PROVE  /\ DistinctNodes(data'[d])
                        /\ \A i \in DOMAIN data'[d] : data'[d][i][2] \notin resIds'[d] \cup todo[d]
                        /\ resIds'[d] \cap todo[d] = {}
      BY <2>1 DEF Once, DistinctNodes, Collides
    <3>1. CASE d = e
      <4>1. n \notin todo[e] /\ \A i \in DOMAIN data[e] : data[e][i][2] # n
        BY <1>5, <3>1 DEF IInv, Once
      <4>2. DistinctNodes(data[e])
        BY <3>1 DEF IInv, Once
      <4>3. DistinctNodes(data'[e])
        BY SMT, <2>4, <4>1, <4>2 DEF DistinctNodes
      <4>4. \A i \in DOMAIN data'[e] : data'[e][i][2] \notin resIds'[e] \cup todo[e]
        BY SMT, <2>1, <2>4, <3>1, <4>1 DEF IInv, TypeOK, Once
      <4> QED BY <2>1, <3>1, <4>3, <4>4 DEF IInv, TypeOK, Once
    <3>2. CASE d # e
      BY <2>1, <2>3, <3>2 DEF IInv, TypeOK, Once
    <3> QED BY <3>1, <3>2
  <2> QED BY <1>3, <2>5, <2>6, <2>7
<1> QED BY <1>4, <1>5

\* The inductive invariant is preserved by every step.
LEMMA NextIInv == IInv /\ [Next]_vars => IInv'
<1> SUFFICES ASSUME IInv, [Next]_vars PROVE (Linked /\ Answered /\ Untouched /\ Once)'
  BY NextTypeOK DEF IInv
<1> USE ClockAssumption, NullAssumption
<1>1. CASE UNCHANGED vars \/ Tick
  BY SMTT(60), <1>1 DEF IInv, Linked, Answered, Untouched, Once, Collides, DistinctNodes, vars, Tick
<1>2. ASSUME NEW c \in Calls, CreateWaitInsert(c)
      PROVE  (Linked /\ Answered /\ Untouched /\ Once)'
  <2>1. msgId[c] \in Times
    BY SMT, <1>2 DEF IInv, TypeOK, Linked, CreateWaitInsert
  <2>2. \A t \in Times : globalData'[t] # Null => msgId[globalData'[t]] = t
    BY <1>2, <2>1 DEF IInv, TypeOK, Linked, CreateWaitInsert
  <2>4. \A d \in Calls : pc'[d] # "idle" => msgId[d] # Null
    BY <1>2 DEF IInv, TypeOK, Linked, CreateWaitInsert
  <2>5. Linked'
    BY <1>2, <2>2, <2>4 DEF IInv, Linked, CreateWaitInsert
  <2>6. \A d \in Calls : pc'[d] = "idle" => pc[d] = "idle"
    BY <1>2 DEF IInv, TypeOK, CreateWaitInsert
  <2>3. (Answered /\ Untouched /\ Once)'
    BY SMTT(60), <1>2, <2>6 DEF IInv, Answered, Untouched, Once, Collides, DistinctNodes,
                      CreateWaitInsert
  <2> QED BY <2>3, <2>5
<1>3. ASSUME NEW c \in Calls, AddResNodeFind(c) \/ WaitDataFind(c)
      PROVE  (Linked /\ Answered /\ Untouched /\ Once)'
  <2>1. pc[c] = "sending" /\ msgId[c] \in Times
    BY SMT, <1>3 DEF IInv, TypeOK, Linked, AddResNodeFind, WaitDataFind
  <2>2. globalData[msgId[c]] # Null => msgId[globalData[msgId[c]]] = msgId[c]
    BY <2>1 DEF IInv, Linked
  <2>3. /\ UNCHANGED <<msgId, globalData, data, resIds, todo, sent, handlers, flag>>
        /\ ptr' = [ptr EXCEPT ![c] = globalData[msgId[c]]]
        /\ \A d \in Calls : d # c => pc'[d] = pc[d]
        /\ pc'[c] # "idle"
    BY SMT, <1>3 DEF IInv, TypeOK, AddResNodeFind, WaitDataFind
  <2>4. Linked'
    BY <2>1, <2>2, <2>3 DEF IInv, TypeOK, Linked
  <2>5. (Answered /\ Untouched /\ Once)'
    BY SMT, <2>1, <2>3 DEF IInv, Answered, Untouched, Once, Collides, DistinctNodes
  <2> QED BY <2>4, <2>5
<1>4. ASSUME NEW c \in Calls, NEW n \in Nodes, AddWaitDataFind(c, n)
      PROVE  (Linked /\ Answered /\ Untouched /\ Once)'
  <2>1. msgId[c] \in Times /\ <<c, n>> \in sent
    BY SMT, <1>4 DEF IInv, TypeOK, Linked, AddWaitDataFind
  <2>2. msgId[globalData[msgId[c]]] = msgId[c]
    BY <1>4, <2>1 DEF IInv, Linked, AddWaitDataFind
  <2>3. Linked'
    <3> DEFINE new == <<c, n, globalData[msgId[c]]>>
    <3>1. <<new[1], new[2]>> \in sent /\ msgId[new[3]] = msgId[new[1]]
      BY <2>1, <2>2
    <3>2. handlers' = handlers \cup {new}
      BY <1>4 DEF AddWaitDataFind
    <3> HIDE DEF new
    <3> QED BY <1>4, <3>1, <3>2 DEF IInv, Linked, AddWaitDataFind
  <2>4. (Answered /\ Untouched /\ Once)'
    BY SMTT(60), <1>4 DEF IInv, Answered, Untouched, Once, Collides, DistinctNodes, AddWaitDataFind
  <2> QED BY <2>3, <2>4
<1>5. ASSUME NEW c \in Calls, WaitDataCheck(c) \/ WaitDataWake(c) \/ WaitDataErase(c)
      PROVE  (Linked /\ Answered /\ Untouched /\ Once)'
  <2>1. pc[c] # "idle" /\ msgId[c] # Null /\ msgId[c] \in Times
    BY SMTT(60), <1>5 DEF IInv, TypeOK, Linked, WaitDataCheck, WaitDataWake, WaitDataErase
  <2>2. /\ UNCHANGED <<msgId, data, resIds, todo, sent, handlers, ptr>>
        /\ \A d \in Calls : d # c => pc'[d] = pc[d] /\ flag'[d] = flag[d]
        /\ pc'[c] # "idle"
    BY SMT, <1>5 DEF IInv, TypeOK, WaitDataCheck, WaitDataWake, WaitDataErase, Collect
  <2>3. \A t \in Times : globalData'[t] # Null => globalData'[t] = globalData[t]
    BY <1>5 DEF IInv, TypeOK, WaitDataCheck, WaitDataWake, WaitDataErase
  <2>4. Linked'
    BY <2>1, <2>2, <2>3 DEF IInv, Linked
  <2>5. (Answered /\ Untouched /\ Once)'
    BY SMT, <2>1, <2>2 DEF IInv, Answered, Untouched, Once, Collides, DistinctNodes
  <2> QED BY <2>4, <2>5
<1>6. CASE AnswerStep
  <2>1. ASSUME NEW h \in handlers, AddWaitDataApply(h[1], h[2], h[3])
        PROVE  (Linked /\ Answered /\ Untouched /\ Once)'
    <3>1. h[1] \in Calls /\ h[2] \in Nodes /\ h[3] \in Calls
      BY <2>1 DEF IInv, TypeOK
    <3> QED BY <2>1, <3>1, CountKeeps
  <2> QED BY <1>4, <1>6, <2>1 DEF AnswerStep
<1> QED
  BY <1>1, <1>2, <1>3, <1>5, <1>6, StampKeeps, RegisterKeeps DEF Next, CallStep

\* The inductive invariant holds in every reachable state.
THEOREM InductiveInvariant == Spec => []IInv
<1>1. Init => IInv
  BY SMT, InitTypeOK, NullAssumption
     DEF Init, IInv, Linked, Answered, Untouched, Once, DistinctNodes
<1> QED BY <1>1, NextIInv, PTL DEF Spec

\* Type correctness, and no operation ever works on a wait object it did not
\* find in _globalData.
THEOREM TypeCorrect == Spec => []TypeOK
  BY InductiveInvariant, PTL DEF IInv

\* Only Collect gives a call its result, and what it gives to a call without
\* a twin is a quorum.
LEMMA CollectGivesQuorum ==
    ASSUME IInv, NEW c \in Calls, pc[c] \in {"found", "waiting"}, Collect(c),
           flag'[c], ~Collides(c)
    PROVE  /\ Len(retData'[c]) >= retNum[c]
           /\ DistinctNodes(retData'[c])
           /\ \A i \in DOMAIN retData'[c] : retData'[c][i][1] = c /\ retData'[c][i] \in sent
<1>1. ptr[c] = c
  BY SMT DEF IInv, TypeOK, Linked, Collides
<1>2. retData'[c] = data[c] /\ Len(data[c]) >= retNum[c]
  BY <1>1 DEF Collect, IInv, TypeOK
<1>3. ASSUME NEW i \in DOMAIN data[c] PROVE data[c][i][1] = c /\ data[c][i] \in sent
  <2>1. data[c][i] \in sent /\ msgId[data[c][i][1]] = msgId[c] /\ msgId[c] # Null
    BY <1>3 DEF IInv, Answered
  <2>2. data[c][i][1] \in Calls
    BY <2>1 DEF IInv, TypeOK, Answers
  <2> QED BY <2>1, <2>2 DEF Collides
<1> QED BY <1>2, <1>3 DEF IInv, Once

\* WaitData returns true only on a quorum of answers of different nodes the
\* call itself asked.
THEOREM QuorumHolds == Spec => []QuorumOfAskedNodes
<1>1. Init => QuorumOfAskedNodes
  BY DEF Init, QuorumOfAskedNodes
<1>2. IInv /\ QuorumOfAskedNodes /\ [Next]_vars => QuorumOfAskedNodes'
  <2> SUFFICES ASSUME IInv, QuorumOfAskedNodes, [Next]_vars,
                      NEW c \in Calls, flag'[c], ~Collides(c)'
               PROVE  /\ Len(retData'[c]) >= retNum'[c]
                      /\ DistinctNodes(retData'[c])
                      /\ \A i \in DOMAIN retData'[c] : retData'[c][i][1] = c
                                                    /\ retData'[c][i] \in sent'
    BY DEF QuorumOfAskedNodes, DistinctNodes
  <2>1. CASE retData'[c] = retData[c] /\ flag'[c] = flag[c] /\ retNum'[c] = retNum[c]
              /\ sent \subseteq sent' /\ ~Collides(c)
    <3>1. /\ Len(retData[c]) >= retNum[c]
          /\ DistinctNodes(retData[c])
          /\ \A i \in DOMAIN retData[c] : retData[c][i][1] = c /\ retData[c][i] \in sent
      BY <2>1 DEF QuorumOfAskedNodes
    <3> HIDE DEF DistinctNodes
    <3> QED BY <2>1, <3>1
  <2>2. ASSUME NEW d \in Calls, CreateWaitStamp(d)
        PROVE  retData'[c] = retData[c] /\ flag'[c] = flag[c] /\ retNum'[c] = retNum[c]
               /\ sent \subseteq sent' /\ ~Collides(c)
    <3>1. c # d /\ flag' = flag
      BY <2>2 DEF IInv, Untouched, CreateWaitStamp
    <3>2. msgId[d] = Null /\ \A e \in Calls : e # d => msgId'[e] = msgId[e]
      BY <2>2 DEF IInv, TypeOK, Untouched, CreateWaitStamp
    <3>3. ~Collides(c)
      BY <3>1, <3>2 DEF Collides
    <3> QED BY <2>2, <3>1, <3>3 DEF IInv, TypeOK, CreateWaitStamp
  <2>3. ASSUME NEW d \in Calls, WaitDataCheck(d) \/ WaitDataWake(d), Collect(d)
        PROVE  /\ Len(retData'[c]) >= retNum'[c]
               /\ DistinctNodes(retData'[c])
               /\ \A i \in DOMAIN retData'[c] : retData'[c][i][1] = c
                                             /\ retData'[c][i] \in sent'
    <3>1. ~Collides(c) /\ sent' = sent /\ retNum' = retNum
      BY <2>3 DEF Collides, WaitDataCheck, WaitDataWake
    <3>2. CASE c = d
      <4>1. pc[c] \in {"found", "waiting"}
        BY <2>3, <3>2 DEF WaitDataCheck, WaitDataWake
      <4> QED BY <2>3, <3>1, <3>2, <4>1, CollectGivesQuorum
    <3>3. CASE c # d
      <4>1. retData'[c] = retData[c] /\ flag'[c] = flag[c]
        BY <2>3, <3>3 DEF IInv, TypeOK, Collect
      <4> QED BY <2>1, <3>1, <4>1
    <3> QED BY <3>2, <3>3
  <2>4. CASE /\ UNCHANGED <<msgId, retNum, retData, flag>>
             /\ sent \subseteq sent'
    BY <2>1, <2>4 DEF Collides
  <2>5. ASSUME NEW d \in Calls, WaitDataCheck(d), ~Collect(d)
        PROVE  UNCHANGED <<msgId, retNum, retData, flag, sent>>
    BY <2>5 DEF WaitDataCheck
  <2>6. ASSUME NEW d \in Calls, WaitDataWake(d) PROVE Collect(d)
    BY <2>6 DEF WaitDataWake
  <2>7. ASSUME Tick \/ AnswerStep \/ UNCHANGED vars
        PROVE  UNCHANGED <<msgId, retNum, retData, flag, sent>>
    BY <2>7 DEF Tick, AnswerStep, AddWaitDataFind, AddWaitDataApply, vars
  <2>8. ASSUME NEW d \in Calls, CreateWaitInsert(d) \/ AddResNodeFind(d) \/
               AddResNodeInsert(d) \/ WaitDataFind(d) \/ WaitDataErase(d)
        PROVE  UNCHANGED <<msgId, retNum, retData, flag>> /\ sent \subseteq sent'
    BY <2>8 DEF CreateWaitInsert, AddResNodeFind, AddResNodeInsert, WaitDataFind, WaitDataErase
  <2> QED BY <2>1, <2>2, <2>3, <2>4, <2>5, <2>6, <2>7, <2>8 DEF Next, CallStep
<1> QED BY <1>1, <1>2, InductiveInvariant, PTL DEF Spec

\* A waiting call whose object has all its answers has been notified: the
\* test and the wait are one step under the object's mutex, and so are the
\* count and the notification.
THEOREM WakeupsHold == Spec => []NoLostWakeup
<1>1. Init => NoLostWakeup
  BY DEF Init, NoLostWakeup
<1>2. IInv /\ NoLostWakeup /\ [Next]_vars => NoLostWakeup'
  <2> SUFFICES ASSUME IInv, NoLostWakeup, [Next]_vars, NEW c \in Calls,
                      pc'[c] = "waiting", Len(data'[ptr'[c]]) >= retNum'[ptr'[c]]
               PROVE  c \in notified'
    BY DEF NoLostWakeup
  <2>1. CASE /\ pc[c] = "waiting" /\ ptr'[c] = ptr[c] /\ data'[ptr[c]] = data[ptr[c]]
             /\ retNum'[ptr[c]] = retNum[ptr[c]] /\ (c \in notified => c \in notified')
    BY <2>1 DEF NoLostWakeup
  <2>2. ASSUME NEW d \in Calls, CreateWaitStamp(d) PROVE c \in notified'
    <3>1. pc[c] = "waiting" /\ msgId[d] = Null
      BY <2>2 DEF IInv, TypeOK, Untouched, CreateWaitStamp
    <3>2. ptr[c] \in Calls /\ ptr[c] # d
      BY SMTT(60), <3>1 DEF IInv, TypeOK, Linked
    <3> QED BY <2>1, <2>2, <3>1, <3>2 DEF IInv, TypeOK, CreateWaitStamp
  <2>3. ASSUME NEW d \in Calls, CreateWaitInsert(d) \/ AddResNodeInsert(d) \/ WaitDataErase(d)
        PROVE  c \in notified'
    <3>1. pc[c] = "waiting" /\ UNCHANGED <<ptr, data, retNum, notified>>
      BY <2>3 DEF IInv, TypeOK, CreateWaitInsert, AddResNodeInsert, WaitDataErase
    <3> QED BY <2>1, <3>1
  <2>4. ASSUME NEW d \in Calls, AddResNodeFind(d) \/ WaitDataFind(d) PROVE c \in notified'
    <3>1. c # d /\ pc[c] = "waiting"
      BY <2>4 DEF IInv, TypeOK, AddResNodeFind, WaitDataFind
    <3>2. ptr'[c] = ptr[c] /\ UNCHANGED <<data, retNum, notified>>
      BY <2>4, <3>1 DEF IInv, TypeOK, AddResNodeFind, WaitDataFind
    <3> QED BY <2>1, <3>1, <3>2
  <2>5. ASSUME NEW d \in Calls, WaitDataCheck(d) PROVE c \in notified'
    <3>1. UNCHANGED <<ptr, data, retNum, notified>>
      BY <2>5 DEF WaitDataCheck
    <3>2. CASE pc[c] = "waiting"
      BY <2>1, <3>1, <3>2
    <3>3. CASE pc[c] # "waiting"
      <4>1. c = d /\ ptr[c] \in Calls
        BY <2>5, <3>3 DEF IInv, TypeOK, WaitDataCheck, Collect
      <4>2. Len(data[ptr[c]]) < retNum[ptr[c]]
        BY <2>5, <3>3, <4>1 DEF IInv, TypeOK, WaitDataCheck, Collect
      <4>3. Len(data[ptr[c]]) \in Nat /\ retNum[ptr[c]] \in Nat
        BY SMTT(60), <4>1 DEF IInv, TypeOK
      <4> QED BY SMT, <3>1, <4>2, <4>3
    <3> QED BY <3>2, <3>3
  <2>6. ASSUME NEW d \in Calls, WaitDataWake(d) PROVE c \in notified'
    <3>1. c # d /\ pc[c] = "waiting"
      BY <2>6 DEF IInv, TypeOK, WaitDataWake, Collect
    <3> QED BY <2>1, <2>6, <3>1 DEF WaitDataWake
  <2>7. ASSUME NEW d \in Calls, NEW n \in Nodes, NEW e \in Calls, AddWaitDataApply(d, n, e)
        PROVE  c \in notified'
    <3>1. pc[c] = "waiting" /\ ptr' = ptr /\ retNum' = retNum
      BY <2>7 DEF AddWaitDataApply
    <3>2. CASE n \notin resIds[e]
      BY <2>1, <2>7, <3>1, <3>2 DEF AddWaitDataApply
    <3>3. CASE n \in resIds[e] /\ ptr[c] = e
      BY <2>7, <3>1, <3>3 DEF AddWaitDataApply, NotifyAll
    <3>4. CASE n \in resIds[e] /\ ptr[c] # e
      <4>1. data'[ptr[c]] = data[ptr[c]]
        BY <2>7, <3>1, <3>4 DEF IInv, TypeOK, AddWaitDataApply
      <4>2. notified \subseteq notified'
        BY <2>7, <3>4 DEF AddWaitDataApply, NotifyAll
      <4> QED BY <2>1, <3>1, <4>1, <4>2
    <3> QED BY <3>2, <3>3, <3>4
  <2>8. CASE AnswerStep
    <3>1. ASSUME NEW h \in handlers, AddWaitDataApply(h[1], h[2], h[3]) PROVE c \in notified'
      <4>1. h[1] \in Calls /\ h[2] \in Nodes /\ h[3] \in Calls
        BY <3>1 DEF IInv, TypeOK
      <4> QED BY <2>7, <3>1, <4>1
    <3>2. ASSUME NEW d \in Calls, NEW n \in Nodes, AddWaitDataFind(d, n) PROVE c \in notified'
      BY <2>1, <3>2 DEF AddWaitDataFind
    <3> QED BY <2>8, <3>1, <3>2 DEF AnswerStep
  <2>9. CASE Tick \/ UNCHANGED vars
    BY <2>1, <2>9 DEF Tick, vars
  <2> QED BY <2>2, <2>3, <2>4, <2>5, <2>6, <2>8, <2>9 DEF Next, CallStep
<1> QED BY <1>1, <1>2, InductiveInvariant, PTL DEF Spec

\* The table files a wait object under its own id only, and never outlives
\* the call that made it.
THEOREM NothingStale == Spec => []NoStaleEntry
<1>1. Init => NoStaleEntry
  BY SMTT(30) DEF Init, NoStaleEntry
<1>2. IInv /\ IInv' /\ NoStaleEntry /\ [Next]_vars => NoStaleEntry'
  <2> SUFFICES ASSUME IInv, IInv', NoStaleEntry, [Next]_vars,
                      NEW t \in Times, globalData'[t] # Null
               PROVE  pc'[globalData'[t]] # "done"
    BY DEF NoStaleEntry, IInv, Linked, Times
  <2> DEFINE e == globalData'[t]
  <2>0. e \in Calls
    <3>1. TypeOK'
      BY DEF IInv
    <3>2. globalData' \in [Times -> Calls \cup {Null}]
      BY <3>1 DEF TypeOK, Times
    <3> QED BY <3>2
  <2>1. CASE globalData[t] = e /\ (pc'[e] = "done" => pc[e] = "done")
    BY <2>1 DEF NoStaleEntry
  <2>2. ASSUME NEW d \in Calls, CreateWaitInsert(d) PROVE pc'[e] # "done"
    <3>1. globalData[t] = e \/ e = d
      BY <2>2 DEF IInv, TypeOK, CreateWaitInsert
    <3>2. pc'[d] = "sending" /\ \A f \in Calls : f # d => pc'[f] = pc[f]
      BY <2>2 DEF IInv, TypeOK, CreateWaitInsert
    <3> QED BY <2>0, <2>1, <3>1, <3>2
  <2>3. ASSUME NEW d \in Calls, AddResNodeFind(d) \/ WaitDataFind(d)
        PROVE  pc'[e] # "done"
    <3>0. pc \in [Calls -> Stages]
      BY DEF IInv, TypeOK
    <3>1. globalData' = globalData /\ (pc'[d] = "done" => globalData[msgId[d]] = Null)
      <4>1. CASE AddResNodeFind(d)
        BY <3>0, <4>1 DEF AddResNodeFind
      <4>2. CASE WaitDataFind(d)
        BY <3>0, <4>2 DEF WaitDataFind
      <4> QED BY <2>3, <4>1, <4>2
    <3>2. \A f \in Calls : f # d => pc'[f] = pc[f]
      BY <2>3 DEF IInv, TypeOK, AddResNodeFind, WaitDataFind
    <3>3. msgId[e] = t
      BY <3>1 DEF IInv, Linked
    <3> QED BY <2>0, <2>1, <3>1, <3>2, <3>3
  <2>4. ASSUME NEW d \in Calls, WaitDataErase(d) PROVE pc'[e] # "done"
    <3>0. msgId[d] # Null
      BY <2>4 DEF IInv, Linked, WaitDataErase
    <3>1. msgId[d] \in Times /\ globalData'[msgId[d]] = Null
      BY <2>4, <3>0 DEF IInv, TypeOK, WaitDataErase
    <3>2. t # msgId[d] /\ globalData[t] = e
      BY <2>4, <3>1 DEF IInv, TypeOK, WaitDataErase
    <3>3. e # d
      BY SMT, <3>2 DEF IInv, Linked
    <3> QED BY <2>0, <2>1, <2>4, <3>2, <3>3 DEF IInv, TypeOK, WaitDataErase
  <2>5. ASSUME NEW d \in Calls, CreateWaitStamp(d) \/ AddResNodeInsert(d) \/
               WaitDataCheck(d) \/ WaitDataWake(d)
        PROVE  pc'[e] # "done"
    <3>1. globalData' = globalData
      BY <2>5 DEF CreateWaitStamp, AddResNodeInsert, WaitDataCheck, WaitDataWake
    <3>2. \/ UNCHANGED pc
          \/ \E s \in {"stamped", "sending", "waiting", "collected"} : pc' = [pc EXCEPT ![d] = s]
      BY <2>5 DEF CreateWaitStamp, AddResNodeInsert, WaitDataCheck, WaitDataWake, Collect
    <3>3. pc \in [Calls -> Stages]
      BY DEF IInv, TypeOK
    <3>4. pc'[e] = "done" => pc[e] = "done"
      BY <2>0, <3>2, <3>3
    <3> QED BY <2>1, <3>1, <3>4
  <2>6. CASE Tick \/ AnswerStep \/ UNCHANGED vars
    BY <2>1, <2>6 DEF Tick, AnswerStep, AddWaitDataFind, AddWaitDataApply, vars
  <2> QED BY <2>2, <2>3, <2>4, <2>5, <2>6 DEF Next, CallStep
<1> QED BY <1>1, <1>2, InductiveInvariant, PTL DEF Spec
=============================================================================
