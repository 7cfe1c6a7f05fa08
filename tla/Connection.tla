----------------------------- MODULE Connection -----------------------------
(***************************************************************************)
(* An established connection between two nodes, from SendOneMessage at one *)
(* end to g_queueWork at the other: net/epoll_mode.cpp, net/work_thread.cpp*)
(* and net/socket_buf.cpp.                                                 *)
(*                                                                         *)
(* A sender appends a whole message to _sendCache and puts a request into  *)
(* g_queueWrite.  Write threads copy the cache, write as much of the copy  *)
(* as the socket takes and cut that much off the cache, under a mutex of   *)
(* the fd.  The epoll thread takes an fd with data out of the epoll set    *)
(* and puts a request into g_queueRead; a read thread reads pieces of at   *)
(* most MAXLINE, gives them to AddDataToReadBuf, which cuts off whole      *)
(* messages, and puts the fd back.  Events are edge-triggered.             *)
(*                                                                         *)
(* A byte is a cell <<m, i>> of message m; the first cell holds what the   *)
(* length field says.  Both ends' queues hold requests of this connection  *)
(* only, which are all alike, and so are numbers.                          *)
(***************************************************************************)
EXTENDS Naturals, Sequences, FiniteSets

CONSTANTS
    Ends,        \* the two nodes
    Msgs,        \* messages
    len,         \* len[m]: cells of message m
    Reply,       \* Reply[m]: the messages the handler of m sends back
    Writers,     \* threads of WorkWrite of each end
    Readers,     \* threads of WorkRead of each end
    MaxLine,     \* MAXLINE
    Room,        \* cells the kernel holds in one direction
    MaxSize,     \* MsgQueue::maxSize
    Scenes       \* what goes on: [tosend |-> messages each end sends of its own
                 \* accord, busy |-> threads taken up by other connections for
                 \* ever, breaks |-> whether the connection may be lost]

ASSUME SizeAssumption ==
    /\ \E x, y \in Ends : x # y /\ Ends = {x, y}
    /\ len \in [Msgs -> Nat \ {0}]
    /\ \A n \in {MaxLine, Room, MaxSize} : n \in Nat \ {0}
    /\ Reply \in [Msgs -> SUBSET Msgs]
    /\ \A s \in Scenes : s.tosend \in [Ends -> SUBSET Msgs] /\ s.breaks \in BOOLEAN

Other(e) == CHOOSE f \in Ends : f # e

VARIABLES
    up,          \* the connection has not been lost
    breaks,      \* it may be lost
    buffer,      \* ends with an entry in _BufferMap
    sendCache,   \* SocketBuf::_sendCache
    cache,       \* SocketBuf::_cache
    wire,        \* wire[e]: cells from e to the other end in the kernel
    interest,    \* ends whose fd is in the epoll set
    noSpace,     \* ends whose last write met a full socket
    outEdge,     \* ends with an EPOLLOUT event not yet fetched
    epoll,       \* epoll[e]: "wait", or "out" before an EPOLLOUT is dealt with
    eagain,      \* eagain[e]: read threads whose errno was left at EAGAIN
    tosend,      \* messages a thread has still to send
    sending,     \* senders between AddWritePack and Push
    queueRead, queueWrite,  \* g_queueRead and g_queueWrite
    queueWork,   \* g_queueWork
    fdMutex,     \* the write thread that holds GetFdMutex(fd), or none
    writer,      \* state of every write thread
    reader,      \* state of every read thread
    pushed,      \* history: messages appended to _sendCache
    arrived      \* history: messages from e put into the other end's g_queueWork

link == <<up, breaks, wire, interest, noSpace, outEdge>>
queues == <<queueRead, queueWrite, queueWork>>
connVars == <<link, buffer, sendCache, cache, epoll, eagain, tosend, sending, queues,
              fdMutex, writer, reader, pushed, arrived>>

Resting == [at |-> "rest", buff |-> <<>>, n |-> 0]

Busy == [Resting EXCEPT !.at = "busy"]

ConnInit ==
    /\ up = TRUE /\ buffer = Ends /\ interest = Ends
    /\ noSpace = {} /\ outEdge = Ends
    /\ sendCache = [e \in Ends |-> <<>>] /\ cache = [e \in Ends |-> <<>>]
    /\ wire = [e \in Ends |-> <<>>]
    /\ epoll = [e \in Ends |-> "wait"] /\ eagain = [e \in Ends |-> {}]
    /\ sending = [e \in Ends |-> 0]
    /\ queueRead = [e \in Ends |-> 0] /\ queueWrite = [e \in Ends |-> 0]
    /\ queueWork = [e \in Ends |-> {}]
    /\ fdMutex = [e \in Ends |-> {}]
    /\ \E s \in Scenes :
         /\ tosend = s.tosend /\ breaks = s.breaks
         /\ writer = [e \in Ends |->
                        [w \in Writers |-> IF <<e, w>> \in s.busy THEN Busy ELSE Resting]]
         /\ reader = [e \in Ends |->
                        [r \in Readers |-> IF <<e, r>> \in s.busy THEN Busy ELSE Resting]]
    /\ pushed = [e \in Ends |-> <<>>] /\ arrived = [e \in Ends |-> <<>>]

\* Pack::PackagToStr.
Cells(m) == [i \in 1..len[m] |-> <<m, i>>]

\* MsgQueue: Push waits while the queue is full, TryWaitTop while it is empty.
IsFull(size) == size = MaxSize
IsEmpty(size) == size = 0

-----------------------------------------------------------------------------
(* The socket and the epoll set, as the code uses them.                    *)

\* EPOLL_CTL_ADD reports what is ready at once; it fails on a closed fd.
EpollLoopAdd(e) ==
    /\ interest' = IF e \in buffer THEN interest \cup {e} ELSE interest
    /\ outEdge' = IF e \in buffer /\ Len(wire[e]) < Room THEN outEdge \cup {e} ELSE outEdge

\* An EPOLLIN event: there is something to read, or the end of the connection.
Readable(e) == wire[Other(e)] # <<>> \/ ~up

\* Taking cells off the wire makes room, and an edge for a writer that met a
\* full socket.
TakenFrom(e, n) ==
    /\ wire' = [wire EXCEPT ![e] = SubSeq(@, n + 1, Len(@))]
    /\ outEdge' = IF e \in noSpace \cap interest THEN outEdge \cup {e} ELSE outEdge
    /\ noSpace' = noSpace \ {e}

\* The connection is lost in both directions with all that is under way.
Break ==
    /\ breaks
    /\ up' = FALSE /\ breaks' = FALSE
    /\ wire' = [e \in Ends |-> <<>>]
    /\ UNCHANGED <<interest, noSpace, outEdge, buffer, sendCache, cache, epoll, eagain,
                   tosend, sending, queues, fdMutex, writer, reader, pushed, arrived>>

\* PeerNode::DeleteByFd: the buffer is erased and the fd closed.
DeleteByFd(e) ==
    /\ buffer' = buffer \ {e}
    /\ interest' = interest \ {e}
    /\ sendCache' = [sendCache EXCEPT ![e] = <<>>]
    /\ cache' = [cache EXCEPT ![e] = <<>>]
    /\ UNCHANGED <<up, breaks, wire, noSpace, outEdge>>

\* DealHeart: no pong comes over a lost connection, so the pulse of the peer runs
\* out and DeleteNode does what DeleteByFd does.
DealHeart(e) ==
    /\ ~up /\ e \in buffer
    /\ DeleteByFd(e)
    /\ UNCHANGED <<epoll, eagain, tosend, sending, queues, fdMutex, writer, reader,
                   pushed, arrived>>

-----------------------------------------------------------------------------
(* Senders and handlers.                                                   *)

\* SendOneMessage: AddWritePack.  Without a buffer the message is dropped.
AddWritePack(e, m) ==
    /\ m \in tosend[e]
    /\ tosend' = [tosend EXCEPT ![e] = @ \ {m}]
    /\ sending' = [sending EXCEPT ![e] = @ + 1]
    /\ IF e \in buffer
       THEN /\ sendCache' = [sendCache EXCEPT ![e] = @ \o Cells(m)]
            /\ pushed' = [pushed EXCEPT ![e] = Append(@, m)]
       ELSE UNCHANGED <<sendCache, pushed>>
    /\ UNCHANGED <<link, buffer, cache, epoll, eagain, queues, fdMutex, writer, reader,
                   arrived>>

\* SendOneMessage: Push, which waits while the queue is full.
PushWrite(e) ==
    /\ sending[e] > 0 /\ ~IsFull(queueWrite[e])
    /\ sending' = [sending EXCEPT ![e] = @ - 1]
    /\ queueWrite' = [queueWrite EXCEPT ![e] = @ + 1]
    /\ UNCHANGED <<link, buffer, sendCache, cache, epoll, eagain, tosend, queueRead,
                   queueWork, fdMutex, writer, reader, pushed, arrived>>

\* A work thread takes a message and its handler sends what it has to send.
HandleNetworkRead(e, m) ==
    /\ m \in queueWork[e]
    /\ queueWork' = [queueWork EXCEPT ![e] = @ \ {m}]
    /\ tosend' = [tosend EXCEPT ![e] = @ \cup Reply[m]]
    /\ UNCHANGED <<link, buffer, sendCache, cache, epoll, eagain, sending, queueRead,
                   queueWrite, fdMutex, writer, reader, pushed, arrived>>

-----------------------------------------------------------------------------
(* The epoll thread.                                                       *)

\* EPOLLERR: the connection is given up.
EpollErr(e) == ~up /\ DeleteByFd(e)

\* epoll_wait returns EPOLLIN, with EPOLLOUT if there is room and with EPOLLERR
\* if the connection broke down.  The fd leaves the set, and a request goes into
\* g_queueRead even if EPOLLERR has just closed the fd.
EpollIn(e) ==
    /\ epoll[e] = "wait" /\ e \in interest /\ Readable(e)
    /\ ~IsFull(queueRead[e])
    /\ \/ EpollErr(e)
       \/ /\ interest' = interest \ {e}
          /\ outEdge' = outEdge \ {e}
          /\ UNCHANGED <<up, breaks, wire, noSpace, buffer, sendCache, cache>>
    /\ queueRead' = [queueRead EXCEPT ![e] = @ + 1]
    /\ epoll' = [epoll EXCEPT ![e] = IF Len(wire[e]) < Room THEN "out" ELSE "wait"]
    /\ UNCHANGED <<eagain, tosend, sending, queueWrite, queueWork, fdMutex, writer,
                   reader, pushed, arrived>>

\* EPOLLOUT alone comes once for every edge.
EpollEdge(e) ==
    /\ epoll[e] = "wait" /\ e \in interest /\ ~Readable(e) /\ e \in outEdge
    /\ epoll' = [epoll EXCEPT ![e] = IF Len(wire[e]) < Room THEN "out" ELSE "wait"]
    /\ outEdge' = outEdge \ {e}
    /\ UNCHANGED <<up, breaks, wire, interest, noSpace, buffer, sendCache, cache, eagain,
                   tosend, sending, queues, fdMutex, writer, reader, pushed, arrived>>

\* EPOLLOUT: a request for g_queueWrite unless there is nothing to send.
EpollOut(e) ==
    /\ epoll[e] = "out"
    /\ IF sendCache[e] = <<>> THEN UNCHANGED queueWrite
       ELSE /\ ~IsFull(queueWrite[e])
            /\ queueWrite' = [queueWrite EXCEPT ![e] = @ + 1]
    /\ epoll' = [epoll EXCEPT ![e] = "wait"]
    /\ UNCHANGED <<link, buffer, sendCache, cache, eagain, tosend, sending, queueRead,
                   queueWork, fdMutex, writer, reader, pushed, arrived>>

-----------------------------------------------------------------------------
(* HandleNetWrite.                                                         *)

\* A request is taken; IsExists.
WriteTake(e, w) ==
    /\ writer[e][w].at = "rest" /\ ~IsEmpty(queueWrite[e])
    /\ queueWrite' = [queueWrite EXCEPT ![e] = @ - 1]
    /\ writer' = [writer EXCEPT ![e][w].at = IF e \in buffer THEN "lock" ELSE "rest"]
    /\ UNCHANGED <<link, buffer, sendCache, cache, epoll, eagain, tosend, sending,
                   queueRead, queueWork, fdMutex, reader, pushed, arrived>>

\* Mutant: the fd's mutex is not waited for.
WriteCopyUnlocked(e, w) ==
    /\ writer[e][w].at = "lock" /\ sendCache[e] # <<>>
    /\ writer' = [writer EXCEPT ![e][w] = [at |-> "send", buff |-> sendCache[e], n |-> 0]]
    /\ UNCHANGED <<link, buffer, sendCache, cache, epoll, eagain, tosend, sending, queues,
                   fdMutex, reader, pushed, arrived>>

\* The fd's mutex, and GetWriteBufferQueue: a copy of the cache.
WriteCopy(e, w) ==
    /\ writer[e][w].at = "lock" /\ fdMutex[e] = {}
    /\ IF sendCache[e] = <<>>
       THEN /\ writer' = [writer EXCEPT ![e][w] = Resting]
            /\ UNCHANGED fdMutex
       ELSE /\ fdMutex' = [fdMutex EXCEPT ![e] = {w}]
            /\ writer' = [writer EXCEPT ![e][w] =
                            [at |-> "send", buff |-> sendCache[e], n |-> 0]]
    /\ UNCHANGED <<link, buffer, sendCache, cache, epoll, eagain, tosend, sending, queues,
                   reader, pushed, arrived>>

\* One write() of net_tcp::Send.  A full socket ends Send with what has been
\* written so far; an error closes the connection.
Send(e, w) ==
    /\ writer[e][w].at = "send"
    /\ LET me == writer[e][w]
           left == Len(me.buff) - me.n
           room == Room - Len(wire[e])
           k == IF left < room THEN left ELSE room
       IN  \/ /\ up /\ k > 0
              /\ wire' = [wire EXCEPT ![e] = @ \o SubSeq(me.buff, me.n + 1, me.n + k)]
              /\ writer' = [writer EXCEPT ![e][w] =
                              [at |-> IF k = left THEN "pop" ELSE "send",
                               buff |-> me.buff, n |-> me.n + k]]
              /\ UNCHANGED <<up, breaks, interest, noSpace, outEdge, buffer, sendCache,
                             cache, fdMutex>>
           \/ /\ up /\ k = 0
              /\ noSpace' = noSpace \cup {e}
              /\ writer' = [writer EXCEPT ![e][w].at = "pop"]
              /\ UNCHANGED <<up, breaks, wire, interest, outEdge, buffer, sendCache,
                             cache, fdMutex>>
           \/ /\ ~up
              /\ DeleteByFd(e)
              /\ writer' = [writer EXCEPT ![e][w] = Resting]
              /\ fdMutex' = [fdMutex EXCEPT ![e] = {}]
    /\ UNCHANGED <<epoll, eagain, tosend, sending, queues, reader, pushed, arrived>>

\* PopNSendMsg: n cells, or all if there are fewer, are cut off.
PopN(c, n) == IF Len(c) >= n THEN SubSeq(c, n + 1, Len(c)) ELSE <<>>

\* PopNWriteBufferQueue with what was written; the mutex is let go.
PopNWriteBufferQueue(e, w) ==
    /\ writer[e][w].at = "pop"
    /\ sendCache' = [sendCache EXCEPT ![e] = PopN(@, writer[e][w].n)]
    /\ writer' = [writer EXCEPT ![e][w] = Resting]
    /\ fdMutex' = [fdMutex EXCEPT ![e] = {}]
    /\ UNCHANGED <<link, buffer, cache, epoll, eagain, tosend, sending, queues, reader,
                   pushed, arrived>>

-----------------------------------------------------------------------------
(* HandleNetRead.                                                          *)

ReadTake(e, r) ==
    /\ reader[e][r].at = "rest" /\ ~IsEmpty(queueRead[e])
    /\ queueRead' = [queueRead EXCEPT ![e] = @ - 1]
    /\ reader' = [reader EXCEPT ![e][r].at = "read"]
    /\ UNCHANGED <<link, buffer, sendCache, cache, epoll, eagain, tosend, sending,
                   queueWrite, queueWork, fdMutex, writer, pushed, arrived>>

\* read() got n > 0 cells.
ReadPiece(e, r, n) ==
    /\ reader' = [reader EXCEPT ![e][r] =
                    [at |-> "add", buff |-> SubSeq(wire[Other(e)], 1, n), n |-> n]]
    /\ TakenFrom(Other(e), n)
    /\ UNCHANGED <<up, breaks, interest, buffer, sendCache, cache, eagain>>

\* Mutant: the fd does not go back into the epoll set when there is nothing to
\* read.
ReadEmptyLeft(e, r) ==
    /\ eagain' = IF up THEN [eagain EXCEPT ![e] = @ \cup {r}] ELSE eagain
    /\ reader' = [reader EXCEPT ![e][r] = Resting]
    /\ UNCHANGED <<link, buffer, sendCache, cache>>

\* Nothing to read: the fd goes back into the epoll set.
ReadEmpty(e, r) ==
    /\ EpollLoopAdd(e)
    /\ eagain' = IF up THEN [eagain EXCEPT ![e] = @ \cup {r}] ELSE eagain
    /\ reader' = [reader EXCEPT ![e][r] = Resting]
    /\ UNCHANGED <<up, breaks, wire, noSpace, buffer, sendCache, cache>>

\* One read().  The end of the connection is told from an empty socket by an
\* errno that read() does not set then: a thread whose errno is still EAGAIN
\* puts the fd back instead of giving the connection up, unless read() fails.
Read(e, r) ==
    /\ reader[e][r].at = "read"
    /\ LET there == Len(wire[Other(e)])
           n == IF there < MaxLine THEN there ELSE MaxLine
           empty == up \/ (e \in buffer /\ r \in eagain[e])
       IN  \/ n > 0 /\ ReadPiece(e, r, n)
           \/ n = 0 /\ empty /\ ReadEmpty(e, r)
           \/ /\ n = 0 /\ ~up
              /\ DeleteByFd(e)
              /\ reader' = [reader EXCEPT ![e][r] = Resting]
              /\ UNCHANGED eagain
    /\ UNCHANGED <<epoll, tosend, sending, queues, fdMutex, writer, pushed, arrived>>

\* AddReadBufferQueue: the piece is appended to the cache, if there is one,
\* under _mutexForRead, which is kept until the whole messages are cut off.
\* (That the entry of _BufferMap is erased between its lookup and its use, which
\* the code does not exclude, is left out.)
AddDataToReadBuf(e, r) ==
    /\ reader[e][r].at = "add" /\ \A q \in Readers : reader[e][q].at # "cut"
    /\ cache' = IF e \in buffer THEN [cache EXCEPT ![e] = @ \o reader[e][r].buff] ELSE cache
    /\ reader' = [reader EXCEPT ![e][r] = [at |-> "cut", buff |-> <<>>, n |-> @.n]]
    /\ UNCHANGED <<link, buffer, sendCache, epoll, eagain, tosend, sending, queues,
                   fdMutex, writer, pushed, arrived>>

\* The cache begins with a message all of whose cells have come.
Complete(c) == c # <<>> /\ Len(c) >= len[Head(c)[1]]

\* AddDataToReadBuf cuts a message off and gives it to g_queueWork, if its
\* checksum fits.
SendPkToMessQueue(e, r) ==
    /\ reader[e][r].at = "cut" /\ Complete(cache[e])
    /\ ~IsFull(Cardinality(queueWork[e]))
    /\ LET m == Head(cache[e])[1]
           cut == SubSeq(cache[e], 1, len[m])
       IN  /\ cache' = [cache EXCEPT ![e] = SubSeq(@, len[m] + 1, Len(@))]
           /\ IF cut = Cells(m)
              THEN /\ queueWork' = [queueWork EXCEPT ![e] = @ \cup {m}]
                   /\ arrived' = [arrived EXCEPT ![Other(e)] = Append(@, m)]
              ELSE UNCHANGED <<queueWork, arrived>>
    /\ UNCHANGED <<link, buffer, sendCache, epoll, eagain, tosend, sending, queueRead,
                   queueWrite, fdMutex, writer, reader, pushed>>

\* After a full piece there may be more; after a short one the fd goes back.
ReadAgain(e, r) ==
    /\ reader[e][r].at = "cut" /\ ~Complete(cache[e])
    /\ IF reader[e][r].n >= MaxLine
       THEN /\ reader' = [reader EXCEPT ![e][r] = [at |-> "read", buff |-> <<>>, n |-> 0]]
            /\ UNCHANGED <<interest, outEdge>>
       ELSE /\ reader' = [reader EXCEPT ![e][r] = Resting]
            /\ EpollLoopAdd(e)
    /\ UNCHANGED <<up, breaks, wire, noSpace, buffer, sendCache, cache, epoll, eagain,
                   tosend, sending, queues, fdMutex, writer, pushed, arrived>>

-----------------------------------------------------------------------------
EpollThread(e) == EpollIn(e) \/ EpollEdge(e) \/ EpollOut(e)
WriteThread(e, w) ==
    \/ WriteTake(e, w) \/ WriteCopy(e, w) \/ Send(e, w) \/ PopNWriteBufferQueue(e, w)
ReadThread(e, r) ==
    \/ ReadTake(e, r) \/ Read(e, r) \/ AddDataToReadBuf(e, r)
    \/ SendPkToMessQueue(e, r) \/ ReadAgain(e, r)

Threads ==
    \E e \in Ends :
        \/ PushWrite(e) \/ EpollThread(e)
        \/ \E m \in Msgs : AddWritePack(e, m) \/ HandleNetworkRead(e, m)
        \/ \E w \in Writers : WriteThread(e, w)
        \/ \E r \in Readers : ReadThread(e, r)

HeartTimer == \E e \in Ends : DealHeart(e)

ConnNext == Break \/ Threads \/ HeartTimer

ConnSpec == ConnInit /\ [][ConnNext]_connVars

\* The threads run: as long as some of them can go on, one does.  The heartbeat
\* timer keeps firing.
ConnFairness == WF_connVars(Threads) /\ WF_connVars(HeartTimer)

-----------------------------------------------------------------------------
\* The connection is a channel in both directions (refinement): although two
\* write threads may serve it, pieces are cut at any place and the fd leaves
\* and enters the epoll set, every message arrives whole, once and in order.
Fifo == INSTANCE Channel WITH sent <- pushed, got <- arrived
FifoChannel == Fifo!Spec

\* Nothing waits for ever: as long as the connection holds, all that was sent
\* gets into g_queueWork of the other end, whatever edges were used up on the
\* way; and when it is lost, both ends come to forget it, although a read
\* thread may take the end of the connection for an empty socket.
EveryMessageArrives == []<>(IF up THEN arrived = pushed ELSE buffer = {})
=============================================================================
