----------------------------- MODULE MCNetwork -----------------------------
(***************************************************************************)
(* Instances of GlobalDataManager and of Connection for TLC, one after the *)
(* other: a call waits for its answers whatever carries them, and a        *)
(* connection carries messages whatever they are.  In the scene Quiet all  *)
(* threads of the connection are busy and only the calls run.              *)
(*                                                                         *)
(* The calls together ask at most MaxRequests times, one of them several   *)
(* nodes or each of them one.                                              *)
(***************************************************************************)
EXTENDS GlobalDataManager, Connection, FiniteSetsExt, TLC

CONSTANTS MaxRequests,  \* bound: requests the calls send between them
          a, b,         \* the ends of the connection
          m1, m2,       \* messages of two cells; m1 is answered by ack
          ack           \* a message of one cell

MCLen == (m1 :> 2) @@ (m2 :> 2) @@ (ack :> 1)
MCReply == (m1 :> {ack}) @@ (m2 :> {}) @@ (ack :> {})

\* Messages sent by a, threads not available, possible loss.
Scene(msgs, taken, loss) ==
    [tosend |-> (a :> msgs) @@ (b :> {}), busy |-> taken, breaks |-> loss]

Spare == {<<a, "w2">>, <<a, "r2">>, <<b, "w2">>, <<b, "r2">>}

Quiet == Scene({}, Ends \X (Writers \cup Readers), FALSE)

\* A message and its answer with one thread of each kind; two messages with two
\* threads that write and two that read; a message and the loss of the
\* connection.
MCScenes ==
    {Quiet,
     Scene({m1}, Spare, FALSE),
     Scene({m2, ack}, {<<a, "r2">>, <<b, "w2">>}, FALSE),
     Scene({m2}, Spare, TRUE)}

IsQuiet == \A e \in Ends : \A w \in Writers : writer[e][w] = Busy

Within == Cardinality(sent') + MapThenSumSet(LAMBDA c : Cardinality(todo'[c]), Calls) <= MaxRequests

netVars == <<vars, connVars>>

CallsNext == IsQuiet /\ Next /\ Within /\ UNCHANGED connVars
LinkNext == ~IsQuiet /\ ConnNext /\ UNCHANGED vars

MCInit == Init /\ ConnInit

MCSpec ==
    /\ MCInit /\ [][CallsNext \/ LinkNext]_netVars
    /\ \A c \in Calls : WF_vars(IsQuiet /\ CallStep(c) /\ Within)
    /\ WF_connVars(~IsQuiet /\ Threads) /\ WF_connVars(~IsQuiet /\ HeartTimer)
=============================================================================
