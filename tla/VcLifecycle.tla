------------------------------ MODULE VcLifecycle ------------------------------
(***************************************************************************)
(* The life of a TcpVirtualChannel and the IO thread that reads its        *)
(* connections: open(), the loop of TcpVCIoThread with its read buffers,   *)
(* the death of connections and disconnectCB, replaceConnection() while    *)
(* the threads run, and close().                                           *)
(*                                                                         *)
(* Three threads act: the IO thread, the send thread (of which only the    *)
(* failing of a connection and the stop are kept; SendThread has the rest) *)
(* and the owner, the one thread at a time that opens the channel,         *)
(* replaces connections and closes it (the accept loop of the server; in   *)
(* the client the holder of vcMutex).  The kernel gives a new connection   *)
(* the lowest descriptor number that is free.                              *)
(*                                                                         *)
(* A stream is a sequence of packets and a packet two chunks, so that a    *)
(* read can end inside a packet: chunk n of connection c is <<c, n>>, odd  *)
(* chunks start a packet.  connGeneration is kept exact: it is bounded by  *)
(* the number of connections.                                              *)
(***************************************************************************)
EXTENDS Integers, Sequences, FiniteSets

CONSTANTS NSlots,      \* connections of the channel (VC_TCP_CONNECTIONS)
          NConns,      \* bound: TcpConnection objects ever created
          Budget       \* bound: chunks the peer of each connection sends

ASSUME LifecycleConstants ==
    /\ NSlots \in Nat \ {0} /\ NConns \in Nat /\ NSlots <= NConns
    /\ Budget \in [1..NConns -> Nat]

Slots == 1..NSlots
Conns == 1..NConns
Fds == 1..NConns
None == 0        \* no descriptor (-1 in the code), no connection
Threads == {"io", "send"}

VARIABLES
    \* the connection objects and their peers
    fd,          \* socketFd of each connection; connected is fd # None
    sent,        \* chunks the peer has sent
    nread,       \* chunks read of them
    eof,         \* the peer has closed, or the socket has an error
    made,        \* number of connections created
    \* the channel
    opened, conns,
    mutex,       \* the thread in disconnectCB's critical section, or "none"
    \* the threads: where they are, whether they are told to run
    pc, ioRunning, sendRunning,
    hasSend,     \* sendThread is set
    sawSend,     \* disconnectCB on the IO thread found it set
    ioConns, connGeneration, sendConns,
    \* locals of TcpVCIoThread::run
    gen, cachedGen, snapshot, prevFds,
    ready,       \* slots that poll found readable and run has not read yet
    buffer,      \* readBuffers: chunks not consumed
    \* the owner
    ownPc, newConn, newSlot, wasOpen,
    \* history
    out,         \* the packets handed on that hold a chunk of each connection
    joined,      \* connections that shared a read buffer
    early,       \* a disconnect was ignored because open() had not returned
    callbacks,   \* calls of disconnectCallback
    crashed      \* sendThread was used after its reset

netVars == <<fd, sent, nread, eof, made>>
vcVars == <<opened, conns, mutex>>
runVars == <<ioRunning, sendRunning, hasSend, sawSend>>
slotVars == <<ioConns, connGeneration, sendConns>>
pollVars == <<gen, cachedGen, snapshot, prevFds>>
readVars == <<buffer, out, joined>>
ownVars == <<ownPc, newConn, newSlot, wasOpen>>
endVars == <<early, callbacks, crashed>>
vars == <<netVars, vcVars, pc, runVars, slotVars, pollVars, ready, readVars, ownVars, endVars>>

\* The constructor made one connection per descriptor; open() is entered.
Init ==
    /\ fd = [c \in Conns |-> IF c \in Slots THEN c ELSE None]
    /\ sent = [c \in Conns |-> 0] /\ nread = sent /\ eof = [c \in Conns |-> FALSE]
    /\ made = NSlots
    /\ opened = FALSE /\ conns = [i \in Slots |-> i] /\ mutex = "none"
    /\ pc = [t \in Threads |-> "off"] /\ ioRunning = TRUE /\ sendRunning = TRUE
    /\ hasSend = FALSE /\ sawSend = FALSE
    /\ ioConns = conns /\ connGeneration = 0 /\ sendConns = conns
    /\ gen = 0 /\ cachedGen = -1 /\ snapshot = conns
    /\ prevFds = [i \in Slots |-> None] /\ ready = {}
    /\ buffer = [i \in Slots |-> <<>>]
    /\ ownPc = "openIo" /\ newConn = None /\ newSlot = 1 /\ wasOpen = FALSE
    /\ out = [c \in Conns |-> <<>>] /\ joined = {}
    /\ early = FALSE /\ callbacks = 0 /\ crashed = FALSE
------------------------------------------------------------------------------
(***************************************************************************)
(* The kernel and the peers.                                               *)
(***************************************************************************)
Up(c) == fd[c] # None

\* The destructor of an object nobody refers to closes its descriptor.
Held(c) == \/ \E i \in Slots : c \in {conns[i], ioConns[i], snapshot[i], sendConns[i]}
           \/ c = newConn

FreeFds == Fds \ {fd[c] : c \in {d \in Conns : Up(d) /\ Held(d)}}

PeerSends(c) ==
    /\ Up(c) /\ ~eof[c] /\ sent[c] < Budget[c]
    /\ sent' = [sent EXCEPT ![c] = @ + 1]
    /\ UNCHANGED <<fd, nread, eof, made, vcVars, pc, runVars, slotVars, pollVars, ready,
                   readVars, ownVars, endVars>>

PeerCloses(c) ==
    /\ Up(c) /\ ~eof[c]
    /\ eof' = [eof EXCEPT ![c] = TRUE]
    /\ UNCHANGED <<fd, sent, nread, made, vcVars, pc, runVars, slotVars, pollVars, ready,
                   readVars, ownVars, endVars>>

\* TcpConnection::disconnect closes the descriptor; what was not read is gone.
Disconnect(c) == /\ fd' = [fd EXCEPT ![c] = None]
                 /\ sent' = [sent EXCEPT ![c] = 0]
                 /\ nread' = [nread EXCEPT ![c] = 0]
                 /\ eof' = [eof EXCEPT ![c] = FALSE]
                 /\ UNCHANGED made
------------------------------------------------------------------------------
(***************************************************************************)
(* disconnectCB, run by the IO or the send thread after it disconnected a  *)
(* connection.                                                             *)
(***************************************************************************)
GoTo(t, label) == pc' = [pc EXCEPT ![t] = label]

\* The slot the IO thread reads, and its connection.
Cur == CHOOSE i \in ready : \A k \in ready : i <= k
CurConn == snapshot[Cur]

\* readFromConnection returns to run(): on to the next slot, or out of the loop.
SlotDone ==
    /\ ready' = ready \ {Cur}
    /\ GoTo("io", IF ~ioRunning THEN "stopped" ELSE IF ready' = {} THEN "top" ELSE "slot")

\* The callback returns, and on the IO thread readFromConnection with it.
Return(t) == IF t = "io" THEN SlotDone ELSE GoTo(t, "run") /\ UNCHANGED ready

Opening == ownPc \in {"openIo", "openSend", "openDone"}

\* Mutant: a thread that waited for the mutex does not see that the other one
\* ended the channel.
CallbackEntersUnchecked(t) ==
    /\ pc[t] = "cb" /\ mutex = "none"
    /\ IF ~Opening
         THEN mutex' = t /\ GoTo(t, "cbCount") /\ UNCHANGED <<ready, early>>
         ELSE Return(t) /\ early' = (early \/ Opening) /\ UNCHANGED mutex
    /\ UNCHANGED <<netVars, opened, conns, runVars, slotVars, pollVars, readVars, ownVars,
                   callbacks, crashed>>

\* disconnectMutex is taken and opened tested.
CallbackEnters(t) ==
    /\ pc[t] = "cb" /\ mutex = "none"
    /\ IF opened
         THEN mutex' = t /\ GoTo(t, "cbCount") /\ UNCHANGED <<ready, early>>
         ELSE Return(t) /\ early' = (early \/ Opening) /\ UNCHANGED mutex
    /\ UNCHANGED <<netVars, opened, conns, runVars, slotVars, pollVars, readVars, ownVars,
                   callbacks, crashed>>

Alive == {i \in Slots : Up(conns[i])}

\* Mutant: the count is compared with the wrong bound (aliveCount >= 0).
CallbackStaysAlways(t) ==
    /\ pc[t] = "cbCount"
    /\ mutex' = "none" /\ Return(t)
    /\ UNCHANGED <<netVars, opened, conns, runVars, slotVars, pollVars, readVars, ownVars,
                   endVars>>

\* A connection is left: the channel goes on.
CallbackStays(t) ==
    /\ pc[t] = "cbCount" /\ Alive # {}
    /\ mutex' = "none" /\ Return(t)
    /\ UNCHANGED <<netVars, opened, conns, runVars, slotVars, pollVars, readVars, ownVars,
                   endVars>>

\* None is left: the queues' waits are cancelled, the IO thread is told to stop
\* and sendThread is tested.
CallbackEnds(t) ==
    /\ pc[t] = "cbCount" /\ Alive = {}
    /\ opened' = FALSE
    /\ ioRunning' = FALSE
    /\ sawSend' = hasSend
    /\ GoTo(t, "cbStop")
    /\ UNCHANGED <<netVars, conns, mutex, sendRunning, hasSend, slotVars, pollVars, ready,
                   readVars, ownVars, endVars>>

\* sendThread->setRunning(false); close() may have reset the pointer since.
CallbackStops(t) ==
    /\ pc[t] = "cbStop"
    /\ sendRunning' = (sendRunning /\ ~sawSend)
    /\ sawSend' = FALSE
    /\ crashed' = (crashed \/ (sawSend /\ ~hasSend))
    /\ mutex' = "none" /\ GoTo(t, "cbNotify")
    /\ UNCHANGED <<netVars, opened, conns, ioRunning, hasSend, slotVars, pollVars, ready,
                   readVars, ownVars, early, callbacks>>

\* disconnectCallback(), outside the mutex.
CallbackNotifies(t) ==
    /\ pc[t] = "cbNotify"
    /\ callbacks' = callbacks + 1
    /\ Return(t)
    /\ UNCHANGED <<netVars, vcVars, runVars, slotVars, pollVars, readVars, ownVars, early,
                   crashed>>

DisconnectCB(t) == \/ CallbackEnters(t) \/ CallbackStays(t) \/ CallbackEnds(t)
                   \/ CallbackStops(t) \/ CallbackNotifies(t)
------------------------------------------------------------------------------
(***************************************************************************)
(* TcpVCIoThread::run.                                                     *)
(***************************************************************************)
\* while (isRunning()): connGeneration is read first, without the mutex.
IoTop ==
    /\ pc["io"] = "top"
    /\ gen' = connGeneration
    /\ GoTo("io", IF ioRunning THEN "refresh" ELSE "stopped")
    /\ UNCHANGED <<netVars, vcVars, runVars, slotVars, cachedGen, snapshot, prevFds, ready,
                   readVars, ownVars, endVars>>

\* Mutant: the read buffer of a replaced connection is kept.
IoRefreshKeepsBuffer ==
    LET snap == IF gen # cachedGen THEN ioConns ELSE snapshot
    IN  /\ pc["io"] = "refresh"
        /\ snapshot' = snap /\ cachedGen' = gen
        /\ prevFds' = [i \in Slots |-> fd[snap[i]]]
        /\ GoTo("io", "poll")
        /\ UNCHANGED <<netVars, vcVars, runVars, slotVars, gen, ready, readVars, ownVars,
                       endVars>>

\* The snapshot is copied if the generation changed, and a slot whose descriptor
\* number differs from the one of the last cycle gets an empty read buffer.
\* joined records the slots whose connection changed and whose number did not.
IoRefresh ==
    LET snap == IF gen # cachedGen THEN ioConns ELSE snapshot
        curr == [i \in Slots |-> fd[snap[i]]]
        kept == {i \in Slots : curr[i] = prevFds[i] /\ buffer[i] # <<>>}
    IN  /\ pc["io"] = "refresh"
        /\ snapshot' = snap /\ cachedGen' = gen
        /\ prevFds' = curr
        /\ buffer' = [i \in Slots |-> IF i \in kept THEN buffer[i] ELSE <<>>]
        /\ joined' = joined \cup
               UNION {{snap[i], snapshot[i]} : i \in {k \in kept : snap[k] # snapshot[k]}}
        /\ GoTo("io", "poll")
        /\ UNCHANGED <<netVars, vcVars, runVars, slotVars, gen, ready, out, ownVars,
                       endVars>>

\* poll returns: the slots with data or an end of stream (none at the timeout).
IoPoll ==
    /\ pc["io"] = "poll"
    /\ ready' = {i \in Slots : LET c == snapshot[i] IN
                     prevFds[i] # None /\ Up(c) /\ (nread[c] < sent[c] \/ eof[c])}
    /\ GoTo("io", IF ready' = {} THEN "top" ELSE "slot")
    /\ UNCHANGED <<netVars, vcVars, runVars, slotVars, pollVars, readVars, ownVars, endVars>>

\* readFromConnection: a connection that died meanwhile is passed.
IoSlot ==
    /\ pc["io"] = "slot"
    /\ IF Up(CurConn) THEN GoTo("io", "recv") /\ UNCHANGED ready ELSE SlotDone
    /\ UNCHANGED <<netVars, vcVars, runVars, slotVars, pollVars, readVars, ownVars, endVars>>

\* Its drain loop: recv gives what has arrived.
RecvData ==
    LET c == CurConn IN
    /\ pc["io"] = "recv" /\ ioRunning
    /\ Up(c) /\ nread[c] < sent[c]
    /\ nread' = [nread EXCEPT ![c] = sent[c]]
    /\ buffer' = [buffer EXCEPT ![Cur] =
                     @ \o [n \in 1..(sent[c] - nread[c]) |-> <<c, nread[c] + n>>]]
    /\ UNCHANGED <<fd, sent, eof, made, vcVars, pc, runVars, slotVars, pollVars, ready, out,
                   joined, ownVars, endVars>>

\* recv would block, or the thread is told to stop: parse what was read.
RecvDone ==
    LET c == CurConn IN
    /\ pc["io"] = "recv"
    /\ ~ioRunning \/ (Up(c) /\ nread[c] = sent[c] /\ ~eof[c])
    /\ GoTo("io", "parse")
    /\ UNCHANGED <<netVars, vcVars, runVars, slotVars, pollVars, ready, readVars, ownVars,
                   endVars>>

\* End of stream, an error, or the send thread closed the descriptor: the
\* connection is disconnected and what was read is not parsed.
RecvFails ==
    LET c == CurConn IN
    /\ pc["io"] = "recv" /\ ioRunning
    /\ ~Up(c) \/ (nread[c] = sent[c] /\ eof[c])
    /\ Disconnect(c)
    /\ GoTo("io", "cb")
    /\ UNCHANGED <<vcVars, runVars, slotVars, pollVars, ready, readVars, ownVars, endVars>>

Starts(chunk) == chunk[2] % 2 = 1

\* dataCallback for the first two chunks of the buffer, which are consumed.
HandOn(b) ==
    /\ out' = [c \in Conns |-> IF c \in {b[1][1], b[2][1]}
                                 THEN Append(out[c], <<b[1], b[2]>>) ELSE out[c]]
    /\ buffer' = [buffer EXCEPT ![Cur] = SubSeq(b, 3, Len(b))]

\* A packet is complete.
ParsePacket ==
    LET b == buffer[Cur] IN
    /\ pc["io"] = "parse" /\ Len(b) >= 2 /\ Starts(b[1])
    /\ HandOn(b)
    /\ UNCHANGED <<netVars, vcVars, pc, runVars, slotVars, pollVars, ready, joined,
                   ownVars, endVars>>

\* Less than a packet is left.
ParseDone ==
    /\ pc["io"] = "parse"
    /\ Len(buffer[Cur]) < 2 /\ \A n \in DOMAIN buffer[Cur] : Starts(buffer[Cur][n])
    /\ SlotDone
    /\ UNCHANGED <<netVars, vcVars, runVars, slotVars, pollVars, readVars, ownVars, endVars>>

\* The buffer starts inside a packet.  Its bytes are an unknown type or a count
\* out of range (the buffer is emptied), a length out of range (it is kept), or
\* look like a packet.
ParseGarbage ==
    LET b == buffer[Cur] IN
    /\ pc["io"] = "parse" /\ b # <<>> /\ ~Starts(b[1])
    /\ \/ buffer' = [buffer EXCEPT ![Cur] = <<>>] /\ SlotDone /\ UNCHANGED out
       \/ SlotDone /\ UNCHANGED <<buffer, out>>
       \/ Len(b) >= 2 /\ HandOn(b) /\ UNCHANGED <<pc, ready>>
    /\ UNCHANGED <<netVars, vcVars, runVars, slotVars, pollVars, joined, ownVars,
                   endVars>>

IoThread == \/ IoTop \/ IoRefresh \/ IoPoll \/ IoSlot
            \/ RecvData \/ RecvDone \/ RecvFails
            \/ ParsePacket \/ ParseDone \/ ParseGarbage
            \/ DisconnectCB("io")
------------------------------------------------------------------------------
(***************************************************************************)
(* The send thread: a write fails and the connection of the slot, as this  *)
(* thread knows it, is disconnected (a partial one also because the thread *)
(* is told to stop); the loop ends when told to.                           *)
(***************************************************************************)
SendFails(i) ==
    /\ pc["send"] = "run"
    /\ Up(sendConns[i])
    /\ Disconnect(sendConns[i])
    /\ GoTo("send", "cb")
    /\ UNCHANGED <<vcVars, runVars, slotVars, pollVars, ready, readVars, ownVars, endVars>>

SendStops ==
    /\ pc["send"] = "run" /\ ~sendRunning
    /\ GoTo("send", "stopped")
    /\ UNCHANGED <<netVars, vcVars, runVars, slotVars, pollVars, ready, readVars, ownVars,
                   endVars>>

SendThread == SendStops \/ DisconnectCB("send")
------------------------------------------------------------------------------
(***************************************************************************)
(* The owner: open() and replaceConnection().                              *)
(***************************************************************************)
OpenIo ==
    /\ ownPc = "openIo"
    /\ GoTo("io", "top")
    /\ ownPc' = "openSend"
    /\ UNCHANGED <<netVars, vcVars, runVars, slotVars, pollVars, ready, readVars,
                   newConn, newSlot, wasOpen, endVars>>

OpenSend ==
    /\ ownPc = "openSend"
    /\ hasSend' = TRUE /\ GoTo("send", "run")
    /\ ownPc' = "openDone"
    /\ UNCHANGED <<netVars, vcVars, ioRunning, sendRunning, sawSend, slotVars, pollVars,
                   ready, readVars, newConn, newSlot, wasOpen, endVars>>

\* opened = true, last.
OpenDone ==
    /\ ownPc = "openDone"
    /\ opened' = TRUE
    /\ ownPc' = "idle"
    /\ UNCHANGED <<netVars, conns, mutex, pc, runVars, slotVars, pollVars, ready, readVars,
                   newConn, newSlot, wasOpen, endVars>>

\* A connection for a slot is accepted, or connected by the watchdog.
NewConnection(i) ==
    /\ ownPc = "idle" /\ made < NConns
    /\ made' = made + 1
    /\ \E f \in FreeFds : /\ \A g \in FreeFds : f <= g
                         /\ fd' = [fd EXCEPT ![made + 1] = f]
    /\ newConn' = made + 1 /\ newSlot' = i
    /\ ownPc' = "bind"
    /\ UNCHANGED <<sent, nread, eof, vcVars, pc, runVars, slotVars, pollVars, ready, readVars,
                   wasOpen, endVars>>

\* The callback has removed the channel: the new connection is closed.
RejectNew ==
    /\ ownPc = "bind" /\ callbacks > 0
    /\ Disconnect(newConn)
    /\ newConn' = None /\ newSlot' = 1 /\ ownPc' = "idle"
    /\ UNCHANGED <<vcVars, pc, runVars, slotVars, pollVars, ready, readVars, wasOpen, endVars>>

\* Mutant: slots are counted from one and the size is an allowed index.
ReplaceInVcPastEnd ==
    /\ ownPc = "bind" /\ callbacks = 0 /\ mutex = "none"
    /\ conns' = [i \in Slots \cup {newSlot + 1} |->
                    IF i = newSlot + 1 THEN newConn ELSE conns[i]]
    /\ ownPc' = "replaceIo"
    /\ UNCHANGED <<netVars, opened, mutex, pc, runVars, slotVars, pollVars, ready, readVars,
                   newConn, newSlot, wasOpen, endVars>>

\* replaceConnection: the channel's own vector first, under disconnectMutex.
ReplaceInVc ==
    /\ ownPc = "bind" /\ callbacks = 0 /\ mutex = "none"
    /\ conns' = [conns EXCEPT ![newSlot] = newConn]
    /\ ownPc' = "replaceIo"
    /\ UNCHANGED <<netVars, opened, mutex, pc, runVars, slotVars, pollVars, ready, readVars,
                   newConn, newSlot, wasOpen, endVars>>

\* Then the IO thread's, which counts the change.
ReplaceInIo ==
    /\ ownPc = "replaceIo"
    /\ ioConns' = [ioConns EXCEPT ![newSlot] = newConn]
    /\ connGeneration' = connGeneration + 1
    /\ ownPc' = "replaceSend"
    /\ UNCHANGED <<netVars, vcVars, pc, runVars, sendConns, pollVars, ready, readVars,
                   newConn, newSlot, wasOpen, endVars>>

\* Then the send thread's.
ReplaceInSend ==
    /\ ownPc = "replaceSend"
    /\ sendConns' = [sendConns EXCEPT ![newSlot] = newConn]
    /\ newConn' = None /\ newSlot' = 1 /\ ownPc' = "idle"
    /\ UNCHANGED <<netVars, vcVars, pc, runVars, ioConns, connGeneration, pollVars, ready,
                   readVars, wasOpen, endVars>>
------------------------------------------------------------------------------
(***************************************************************************)
(* The owner: close().  The reorder thread is in module ReorderThread.     *)
(***************************************************************************)
\* Mutant: the send thread is joined without being told to stop.
CloseBeginsOnlyJoins ==
    /\ ownPc = "idle"
    /\ wasOpen' = opened
    /\ opened' = FALSE
    /\ ownPc' = IF opened THEN "joinSend" ELSE "closed"
    /\ UNCHANGED <<netVars, conns, mutex, pc, runVars, slotVars, pollVars, ready, readVars,
                   newConn, newSlot, endVars>>

\* Only the call that finds the channel open stops the threads.
CloseBegins ==
    /\ ownPc = "idle"
    /\ wasOpen' = opened
    /\ opened' = FALSE
    /\ sendRunning' = (sendRunning /\ ~opened)
    /\ ownPc' = IF opened THEN "joinSend" ELSE "closed"
    /\ UNCHANGED <<netVars, conns, mutex, pc, ioRunning, hasSend, sawSend, slotVars,
                   pollVars, ready, readVars, newConn, newSlot, endVars>>

\* The send thread is joined and released, and the IO thread told to stop.
CloseJoinsSend ==
    /\ ownPc = "joinSend" /\ pc["send"] = "stopped"
    /\ hasSend' = FALSE
    /\ ioRunning' = FALSE
    /\ ownPc' = "joinIo"
    /\ UNCHANGED <<netVars, vcVars, pc, sendRunning, sawSend, slotVars, pollVars, ready,
                   readVars, newConn, newSlot, wasOpen, endVars>>

\* The IO thread is joined and released.
CloseJoinsIo ==
    /\ ownPc = "joinIo" /\ pc["io"] = "stopped"
    /\ ownPc' = "dropAll"
    /\ UNCHANGED <<netVars, vcVars, pc, runVars, slotVars, pollVars, ready, readVars,
                   newConn, newSlot, wasOpen, endVars>>

\* The connections that are left are disconnected.
CloseDrops ==
    /\ ownPc = "dropAll"
    /\ fd' = [c \in Conns |-> IF \E i \in Slots : c = conns[i] THEN None ELSE fd[c]]
    /\ ownPc' = "closed"
    /\ UNCHANGED <<sent, nread, eof, made, vcVars, pc, runVars, slotVars, pollVars, ready,
                   readVars, newConn, newSlot, wasOpen, endVars>>

Open == OpenIo \/ OpenSend \/ OpenDone
Replace == RejectNew \/ ReplaceInVc \/ ReplaceInIo \/ ReplaceInSend
Close == CloseJoinsSend \/ CloseJoinsIo \/ CloseDrops

Network == \E c \in Conns : PeerSends(c) \/ PeerCloses(c)
------------------------------------------------------------------------------
\* The closed channel stays closed.
Ended == ownPc = "closed" /\ UNCHANGED vars

\* After a use of sendThread past its reset the process may have ended; the steps
\* it would take if it had not are kept.
Next == \/ Network
        \/ IoThread
        \/ SendThread \/ \E i \in Slots : SendFails(i)
        \/ Open \/ Replace \/ CloseBegins \/ Close
        \/ \E i \in Slots : NewConnection(i)
        \/ Ended

Spec == Init /\ [][Next]_vars

\* The threads run; nothing obliges a peer to send or close, a write to fail, a
\* connection to be replaced or the owner to call close().
Fairness == WF_vars(IoThread) /\ WF_vars(SendThread) /\ WF_vars(Open \/ Replace \/ Close)

FairSpec == Spec /\ Fairness
------------------------------------------------------------------------------
Pcs == {"off", "top", "refresh", "poll", "slot", "recv", "parse", "run",
        "cb", "cbCount", "cbStop", "cbNotify", "stopped"}
OwnPcs == {"openIo", "openSend", "openDone", "idle", "bind", "replaceIo", "replaceSend",
           "joinSend", "joinIo", "dropAll", "closed"}
Chunks == Conns \X (Nat \ {0})

\* The variables have their types.
TypeOK ==
    /\ fd \in [Conns -> Fds \cup {None}] /\ eof \in [Conns -> BOOLEAN] /\ made \in Conns
    /\ sent \in [Conns -> Nat] /\ nread \in [Conns -> Nat]
    /\ \A c \in Conns : nread[c] <= sent[c] /\ sent[c] <= Budget[c]
    /\ conns \in [Slots -> Conns] /\ ioConns \in [Slots -> Conns]
    /\ sendConns \in [Slots -> Conns] /\ snapshot \in [Slots -> Conns]
    /\ mutex \in Threads \cup {"none"} /\ pc \in [Threads -> Pcs] /\ ownPc \in OwnPcs
    /\ {opened, hasSend, ioRunning, sendRunning, sawSend, wasOpen, early, crashed}
          \subseteq BOOLEAN
    /\ connGeneration \in Nat /\ gen \in Nat /\ cachedGen \in Int
    /\ prevFds \in [Slots -> Fds \cup {None}] /\ ready \subseteq Slots
    /\ buffer \in [Slots -> Seq(Chunks)] /\ out \in [Conns -> Seq(Chunks \X Chunks)]
    /\ newConn \in Conns \cup {None} /\ newSlot \in Slots
    /\ joined \subseteq Conns /\ callbacks \in Nat

\* The packets of a connection are handed on whole, once and in the order of the
\* stream, whatever replaceConnection and disconnect do meanwhile, and the IO
\* thread does not return to poll while a whole packet of a live connection is
\* in its buffer.  Excepted are connections that followed one another in a slot
\* under the same descriptor number within one cycle of run().
WholeInOrder ==
    \A c \in Conns \ joined :
        /\ \A k \in DOMAIN out[c] : out[c][k] = <<<<c, 2 * k - 1>>, <<c, 2 * k>>>>
        /\ (pc["io"] = "top" /\ Up(c)) => Len(out[c]) = nread[c] \div 2

\* The death of the last connection is noticed: a channel is not left open with
\* every connection dead and no thread on its way to close it, unless a
\* connection died before open() returned (disconnectCB tests opened).
AllDeadNoticed ==
    (opened /\ Alive = {} /\ \A t \in Threads : pc[t] \notin {"cb", "cbCount"}) => early

\* The end of the channel is reported at most once, although both threads may
\* see the last connection die; and a close() that found the channel open
\* returns only when both threads have ended (so no callback comes after it)
\* and no connection of the channel is left.
EndsOnce ==
    /\ callbacks <= 1
    /\ (ownPc = "closed" /\ wasOpen) =>
          /\ \A t \in Threads : pc[t] = "stopped"
          /\ Alive = {}

\* close() returns: neither the callback that runs on the thread being joined nor
\* disconnectMutex keeps it for ever.  (Nothing is said of a process that crashed.)
CloseEnds == (ownPc = "joinSend") ~> (ownPc = "closed" \/ crashed)
==============================================================================
