------------------------- MODULE ContractDispatcher -------------------------
(***************************************************************************)
(* The dispatcher of contract calls: class ContractDispatcher of           *)
(* ca/dispatchtx.cpp.  HandleContractTx (ca_core) hands a call over by     *)
(* setValue, AddContractInfo and AddContractMsgReq, each under a mutex of  *)
(* its own.  A thread wakes every second; when the calls of a time unit    *)
(* are together it groups those that share a contract, sends the groups to *)
(* packagers and empties its caches.  Sending to itself, it handles the    *)
(* whole message before it goes on, so that sending and clearing are two   *)
(* steps.  Times are in seconds.                                           *)
(***************************************************************************)
EXTENDS DependencyGrouping

CONSTANTS
    Calls,     \* contract calls
    Declared,  \* the contracts each declares
    Times,     \* the times a call may carry
    Unit,      \* GetTheTimestampPerUnitOfTime: 3 s
    Waiting,   \* _contractWaitingTime: 3 s
    Parts      \* the number of messages at most: 8

\* Times are whole seconds, and the calls are finitely many.
ASSUME CallAssumption ==
    /\ IsFiniteSet(Calls) /\ Times \subseteq Nat
    /\ Unit \in Nat \ {0} /\ Waiting \in Nat /\ Parts \in Nat \ {0}

VARIABLES
    stage,         \* how far HandleContractTx has got with each call
    dependent,     \* _contractDependentCache
    msgReq,        \* _contractMsgReqCache
    timeValue, isFirst,
    timeBaseline,  \* local of the thread, 0 when unset
    place,         \* "loop", or "sending" between sending and clearing
    parts,         \* the messages of the last distribution
    tried, sent,   \* history: calls that were grouped, and sent
    late           \* history: calls handed over while the thread was sending

caches == <<dependent, msgReq>>
timing == <<timeValue, isFirst, timeBaseline>>
dispVars == <<stage, caches, timing, place, parts, tried, sent, late>>

DispInit ==
    /\ stage = [t \in Calls |-> "none"]
    /\ dependent = {} /\ msgReq = {}
    /\ timeValue = 0 /\ isFirst = FALSE /\ timeBaseline = 0
    /\ place = "loop" /\ parts = <<>> /\ tried = {} /\ sent = {} /\ late = {}

-----------------------------------------------------------------------------
(* HandleContractTx.                                                       *)

Late(t) == late' = IF place = "sending" THEN late \cup {t} ELSE late

setValue(t) ==
    /\ stage[t] = "none"
    /\ stage' = [stage EXCEPT ![t] = "valued"]
    /\ \E v \in Times : timeValue' = IF isFirst THEN timeValue ELSE v
    /\ isFirst' = TRUE
    /\ UNCHANGED <<caches, timeBaseline, place, parts, tried, sent, late>>

AddContractInfo(t) ==
    /\ stage[t] = "valued"
    /\ stage' = [stage EXCEPT ![t] = "info"]
    /\ dependent' = dependent \cup {t}
    /\ Late(t)
    /\ UNCHANGED <<msgReq, timing, place, parts, tried, sent>>

AddContractMsgReq(t) ==
    /\ stage[t] = "info"
    /\ stage' = [stage EXCEPT ![t] = "in"]
    /\ msgReq' = msgReq \cup {t}
    /\ Late(t)
    /\ UNCHANGED <<dependent, timing, place, parts, tried, sent>>

-----------------------------------------------------------------------------
(* The thread.                                                             *)

\* timeBaseline, set in the first round of a unit.
Baseline == IF timeBaseline = 0 THEN (timeValue \div Unit) * Unit ELSE timeBaseline

Due == timeValue >= Baseline + Waiting

\* The calls of a group whose message is there, if there are any.
PushMessages(res, g, msgs) == IF g \cap msgs = {} THEN res ELSE Append(res, g \cap msgs)

\* The groups without the calls whose message is not there.
GetDependentData(groups, msgs) ==
    MapThenFoldSet(LAMBDA g, res : PushMessages(res, g, msgs), <<>>,
                   LAMBDA i : groups[i], LAMBDA I : Max(I), DOMAIN groups)

Joined(data, from, to) == UNION {data[i] : i \in from .. to}

\* Mutant: what is left over is forgotten.
GroupDependentDataNoRest(data) ==
    IF Len(data) <= Parts THEN data
    ELSE LET perPart == Len(data) \div Parts IN
         [i \in 1 .. Parts |-> Joined(data, (i - 1) * perPart + 1, i * perPart)]

\* At most Parts messages; what is left over goes to the first.
GroupDependentData(data) ==
    IF Len(data) <= Parts THEN data
    ELSE LET perPart == Len(data) \div Parts
             remain == Len(data) % Parts IN
         [i \in 1 .. Parts |->
            IF i = 1 THEN Joined(data, 1, perPart + remain)
            ELSE Joined(data, (i - 1) * perPart + remain + 1, i * perPart + remain)]

\* Mutant: only the calls bring the time forward.
WaitStill ==
    /\ place = "loop" /\ dependent # {} /\ ~Due
    /\ timeBaseline' = Baseline
    /\ UNCHANGED <<stage, caches, timeValue, isFirst, place, parts, tried, sent, late>>

Wait ==
    /\ place = "loop" /\ dependent # {} /\ ~Due
    /\ timeBaseline' = Baseline
    /\ timeValue' = timeValue + 1
    /\ UNCHANGED <<stage, caches, isFirst, place, parts, tried, sent, late>>

\* DistributionContractTx and the loop that sends.  A part for which
\* FindContractPackNode fails is left out; without any the round ends early,
\* and everything stays for the next one.
Distribute ==
    /\ place = "loop" /\ dependent # {} /\ Due
    /\ timeBaseline' = Baseline
    /\ tried' = tried \cup dependent
    /\ \E groups \in Groupings([t \in dependent |-> Declared[t]]) :
         LET data == GroupDependentData(GetDependentData(groups, msgReq)) IN
         \E found \in SUBSET DOMAIN data :
           IF found = {}
           THEN UNCHANGED <<place, parts, sent>>
           ELSE /\ parts' = data
                /\ sent' = sent \cup UNION {data[i] : i \in found}
                /\ place' = "sending"
    /\ UNCHANGED <<stage, caches, timeValue, isFirst, late>>

Clear ==
    /\ place = "sending"
    /\ dependent' = {} /\ msgReq' = {}
    /\ timeValue' = 0 /\ isFirst' = FALSE /\ timeBaseline' = 0
    /\ place' = "loop" /\ parts' = <<>>
    /\ UNCHANGED <<stage, tried, sent, late>>

Round == Wait \/ Distribute \/ Clear

Handle(t) == setValue(t) \/ AddContractInfo(t) \/ AddContractMsgReq(t)

DispNext == Round \/ \E t \in Calls : Handle(t)

DispSpec == DispInit /\ [][DispNext]_dispVars

-----------------------------------------------------------------------------
\* Type invariant.
DispTypeOK ==
    /\ stage \in [Calls -> {"none", "valued", "info", "in"}]
    /\ dependent \subseteq Calls /\ msgReq \subseteq Calls
    /\ timeValue \in Nat /\ timeBaseline \in Nat /\ isFirst \in BOOLEAN
    /\ place \in {"loop", "sending"} /\ Len(parts) <= Parts
    /\ tried \subseteq Calls /\ sent \subseteq Calls /\ late \subseteq Calls

\* Two calls of one distribution that share a contract go to one packager in
\* one message, whichever order the loops over the unordered_map take and
\* however the groups are joined to at most Parts messages.
DependentTogether ==
    LET All == UNION Range(parts) IN
    \A t, u \in All : Declared[t] \cap Declared[u] # {} =>
        \E p \in Range(parts) : {t, u} \subseteq p

\* Every call that was there, with its message, when the thread began to send
\* is in one of the messages.
NoCallLeftOut ==
    place = "sending" => (dependent \cap msgReq) \ late \subseteq UNION Range(parts)

\* A call that has been handed over is grouped in the end, whatever time the
\* first call of its unit carried and whoever set timeValue.
EveryCallTried == \A t \in Calls : stage[t] = "in" ~> t \in tried \cup late
=============================================================================
