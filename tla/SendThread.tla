----------------------------- MODULE SendThread ------------------------------
(***************************************************************************)
(* What the send thread does with a packet: run and sendOnResendConn.      *)
(* Packets come from sendQueue and resendQueue (module WorkQueue shows how *)
(* they get there, and how the thread sleeps when there are none) and are  *)
(* written to the TCP connections, resends first, on connections of their  *)
(* own.                                                                    *)
(*                                                                         *)
(* A step is one access to state another thread can see.  Which connection *)
(* is tried next depends on scores taken from the kernel and on two        *)
(* round-robin counters: the model tries the candidates in any order, each *)
(* once.  What a write does is the kernel's choice.  A connection is an    *)
(* object <<slot, number>>: replaceConnection puts a new one in the        *)
(* slot, and the send thread works on a snapshot that may hold the old.    *)
(***************************************************************************)
EXTENDS Naturals, Sequences, FiniteSets

CONSTANTS DataSlots,    \* slots below VC_FIRST_RESEND_CONN_INDEX
          ResendSlots,  \* the slots reserved for resends
          MaxBatch,     \* MAX_RESEND_BATCH
          MaxRetries,   \* MAX_RESEND_RETRIES
          MaxTracked,   \* MAX_RESEND_TRACKED
          MaxSends,     \* bound: packets accepted by send()
          MaxNotifies,  \* bound: MISSING_NOTIFY packets
          MaxResends,   \* bound: resend requests that find their packet
          MaxReplace    \* bound: calls of replaceConnection

ASSUME SendConstants ==
    /\ DataSlots \cap ResendSlots = {} /\ DataSlots # {}
    /\ MaxBatch \in Nat \ {0} /\ MaxRetries \in Nat /\ MaxTracked \in Nat
    /\ MaxSends \in Nat /\ MaxNotifies \in Nat /\ MaxResends \in Nat
    /\ MaxReplace \in Nat

Slots == DataSlots \cup ResendSlots
Objects == Slots \X (0..MaxReplace)
Packets == [kind : {"data", "notify"}, id : Nat]
Data(n) == [kind |-> "data", id |-> n]
Notify == [kind |-> "notify", id |-> 0]

VARIABLES
    sendQueue,    \* sendQueue
    resendQueue,  \* resendQueue
    cancelled,    \* their cancelled flags (set together)
    nextId,       \* lastSendMessageId
    asked,        \* notifications and resends enqueued so far
    opened,       \* opened
    running,      \* the send thread's running flag
    spc,          \* where the send thread is in run
    mode,         \* which path it is on: data or resend
    cur,          \* dataVec, or pendingDataVec between iterations
    rcur,         \* the packet in sendOnResendConn
    batch,        \* resendBatch
    retry,        \* resendRetryCount (a partial map)
    snap,         \* connSnap: the connection of each slot in the snapshot
    left,         \* candidates not tried yet
    recheck,      \* candidates are tried only if isConnected()
    tried,        \* aliveCount > 0
    at,           \* the slot whose unfinished packet is flushed (none or one)
    vcGen,        \* connections of the channel: which replacement made each (0: open)
    gen,          \* connections of the send thread, likewise
    replaced,     \* calls of replaceConnection so far
    alive,        \* connection objects that are connected
    stream,       \* framing of the bytes written to each object
    sent          \* history: packets completely written by the data path

queueVars == <<sendQueue, resendQueue, cancelled>>
callVars == <<nextId, asked>>
flagVars == <<opened, running>>
packetVars == <<mode, cur, rcur, sent>>
roundVars == <<batch, retry>>
tryVars == <<snap, left, recheck, tried, at>>
connVars == <<vcGen, gen, replaced, alive, stream>>
vars == <<spc, queueVars, callVars, flagVars, packetVars, roundVars, tryVars, connVars>>

Init ==
    /\ sendQueue = <<>> /\ resendQueue = <<>> /\ cancelled = FALSE
    /\ nextId = 0 /\ asked = [notify |-> 0, resend |-> 0]
    /\ opened = TRUE /\ running = TRUE
    /\ spc = "top" /\ mode = "data" /\ cur = <<>> /\ rcur = <<>> /\ sent = <<>>
    /\ batch = 0 /\ retry = <<>>
    /\ vcGen = [s \in Slots |-> 0] /\ gen = [s \in Slots |-> 0]
    /\ snap = [s \in Slots |-> 0] /\ replaced = 0
    /\ left = {} /\ recheck = FALSE /\ tried = FALSE /\ at = {}
    /\ alive = Slots \X {0} /\ stream = [o \in Objects |-> "whole"]
------------------------------------------------------------------------------
(***************************************************************************)
(* Packets are enqueued.                                                   *)
(***************************************************************************)
\* send() accepts a packet: it gets its id and enters the queue.  One thread
\* calls send(), so ids enter in order.
Accept ==
    /\ opened /\ nextId < MaxSends
    /\ nextId' = nextId + 1
    /\ sendQueue' = Append(sendQueue, Data(nextId))
    /\ UNCHANGED <<spc, resendQueue, cancelled, asked, flagVars, packetVars, roundVars,
                   tryVars, connVars>>

\* The reorder thread's missingNotifyCallback.
NotifyPeer ==
    /\ opened /\ asked.notify < MaxNotifies
    /\ asked' = [asked EXCEPT !.notify = @ + 1]
    /\ sendQueue' = Append(sendQueue, Notify)
    /\ UNCHANGED <<spc, resendQueue, cancelled, nextId, flagVars, packetVars, roundVars,
                   tryVars, connVars>>

\* The IO thread's resendCallback, for a packet found in sentDataCache.
ResendAsked(n) ==
    /\ opened /\ n < nextId
    /\ asked.resend < MaxResends
    /\ asked' = [asked EXCEPT !.resend = @ + 1]
    /\ resendQueue' = Append(resendQueue, Data(n))
    /\ UNCHANGED <<spc, sendQueue, cancelled, nextId, flagVars, packetVars, roundVars,
                   tryVars, connVars>>
------------------------------------------------------------------------------
(***************************************************************************)
(* Connections come and go.                                                *)
(***************************************************************************)
Current == {<<s, vcGen[s]>> : s \in Slots}

\* disconnect() of object o, then disconnectCB: when the last connection of an
\* open channel is dead, the queues are cancelled and the threads told to stop.
Disconnect(o) ==
    /\ alive' = alive \ {o}
    /\ LET last == opened /\ Current \cap (alive \ {o}) = {} IN
           /\ opened' = (opened /\ ~last)
           /\ cancelled' = (cancelled \/ last)
           /\ running' = (running /\ ~last)
    /\ UNCHANGED <<vcGen, gen, replaced>>

\* The IO thread finds a connection closed or broken.  Its own copy is updated
\* between the channel's and the send thread's.
PeerCloses(o) ==
    /\ o \in alive
    /\ o \in Current \/ \E s \in Slots : o = <<s, gen[s]>>
    /\ Disconnect(o)
    /\ UNCHANGED <<spc, sendQueue, resendQueue, callVars, packetVars, roundVars, tryVars,
                   stream>>

\* replaceConnection puts a new connection in a slot of the channel, dead or
\* alive as far as this side knows; one thread calls it.
Replace(s) ==
    /\ replaced < MaxReplace /\ gen = vcGen
    /\ replaced' = replaced + 1
    /\ vcGen' = [vcGen EXCEPT ![s] = replaced + 1]
    /\ alive' = alive \cup {<<s, replaced + 1>>}
    /\ UNCHANGED <<spc, queueVars, callVars, flagVars, packetVars, roundVars, tryVars,
                   gen, stream>>

\* Then it hands the connection to the send thread, under connectionsMutex.
ReplaceInSend ==
    /\ gen # vcGen
    /\ gen' = vcGen
    /\ UNCHANGED <<spc, queueVars, callVars, flagVars, packetVars, roundVars, tryVars,
                   vcGen, replaced, alive, stream>>

\* close(): the queues are cancelled, then the send thread is stopped.
CloseCancel ==
    /\ opened
    /\ opened' = FALSE /\ cancelled' = TRUE
    /\ UNCHANGED <<spc, sendQueue, resendQueue, callVars, running, packetVars, roundVars,
                   tryVars, connVars>>

CloseStop ==
    /\ ~opened /\ running
    /\ running' = FALSE
    /\ UNCHANGED <<spc, queueVars, callVars, opened, packetVars, roundVars, tryVars,
                   connVars>>
------------------------------------------------------------------------------
(***************************************************************************)
(* One iteration of run up to a packet in hand.                            *)
(***************************************************************************)
\* The top of the loop: is any resend connection alive?  The locals of the last
\* iteration are gone.
LoopTop ==
    /\ spc = "top" /\ running
    /\ batch' = 0
    /\ spc' = IF \E s \in ResendSlots : <<s, gen[s]>> \in alive THEN "resend" ELSE "trim"
    /\ snap' = [s \in Slots |-> 0] /\ recheck' = FALSE /\ tried' = FALSE
    /\ UNCHANGED <<queueVars, callVars, flagVars, packetVars, retry, left, at, connVars>>

\* The loop ends; a packet in hand is not sent any more.
LoopEnd ==
    /\ spc \in {"top", "rate"} /\ ~running
    /\ spc' = "stopped"
    /\ UNCHANGED <<queueVars, callVars, flagVars, packetVars, roundVars, tryVars, connVars>>

\* Take the next resend of the batch and a snapshot of the connections.
ResendTake ==
    /\ spc = "resend"
    /\ batch < MaxBatch /\ resendQueue # <<>> /\ ~cancelled
    /\ resendQueue' = Tail(resendQueue)
    /\ rcur' = <<Head(resendQueue)>>
    /\ mode' = "resend"
    /\ batch' = batch + 1
    /\ snap' = gen /\ left' = ResendSlots /\ recheck' = TRUE /\ tried' = FALSE
    /\ spc' = "try"
    /\ UNCHANGED <<sendQueue, cancelled, callVars, flagVars, cur, sent, retry, at, connVars>>

\* The batch is full or the queue is empty.
ResendDone ==
    /\ spc = "resend"
    /\ batch = MaxBatch \/ resendQueue = <<>> \/ cancelled
    /\ spc' = "trim"
    /\ UNCHANGED <<queueVars, callVars, flagVars, packetVars, roundVars, tryVars, connVars>>

\* The retry tracker is emptied when it has grown too large.
TrimTracker ==
    /\ spc = "trim"
    /\ retry' = IF Cardinality(DOMAIN retry) > MaxTracked THEN <<>> ELSE retry
    /\ spc' = "take"
    /\ UNCHANGED <<queueVars, callVars, flagVars, packetVars, batch, tryVars, connVars>>

\* The retained packet is taken up again, or the next one is dequeued.
TakeRetained ==
    /\ spc = "take" /\ cur # <<>>
    /\ mode' = "data"
    /\ spc' = "rate"
    /\ UNCHANGED <<queueVars, callVars, flagVars, cur, rcur, sent, roundVars, tryVars,
                   connVars>>

TakePacket ==
    /\ spc = "take" /\ cur = <<>>
    /\ sendQueue # <<>> /\ ~cancelled
    /\ sendQueue' = Tail(sendQueue)
    /\ cur' = <<Head(sendQueue)>>
    /\ mode' = "data"
    /\ spc' = "rate"
    /\ UNCHANGED <<resendQueue, cancelled, callVars, flagVars, rcur, sent, roundVars,
                   tryVars, connVars>>

\* The thread waits for work (module WorkQueue) and starts over.
NothingToTake ==
    /\ spc = "take" /\ cur = <<>>
    /\ sendQueue = <<>> \/ cancelled
    /\ spc' = "top"
    /\ UNCHANGED <<queueVars, callVars, flagVars, packetVars, roundVars, tryVars, connVars>>
------------------------------------------------------------------------------
(***************************************************************************)
(* Writing the packet: the data path of run, and sendOnResendConn.         *)
(***************************************************************************)
ObjectOf(s) == <<s, snap[s]>>

\* Snapshot and rating.  Connections the kernel reports in backoff are not
\* eligible; if none is eligible, every connected one is a candidate.
Rate ==
    /\ spc = "rate" /\ running
    /\ snap' = gen
    /\ \E eligible \in SUBSET {s \in DataSlots : <<s, gen[s]>> \in alive} :
           /\ left' = IF eligible = {} THEN DataSlots ELSE eligible
           /\ recheck' = (eligible = {})
    /\ spc' = "try"
    /\ UNCHANGED <<queueVars, callVars, flagVars, packetVars, roundVars, tried, at,
                   connVars>>

\* A candidate is passed over: not connected, or in backoff (resend path).
Skip(s) ==
    /\ spc = "try" /\ s \in left /\ recheck
    /\ ObjectOf(s) \notin alive \/ mode = "resend"
    /\ left' = left \ {s}
    /\ UNCHANGED <<spc, queueVars, callVars, flagVars, packetVars, roundVars, snap,
                   recheck, tried, at, connVars>>

\* Bytes of a new packet go to object o; after an unfinished packet they garble
\* the stream.
Written(o, end) == [stream EXCEPT ![o] = IF @ = "whole" THEN end ELSE "corrupt"]

\* The packet is completely written: forget it (a resend with its retries).
PacketDone ==
    \/ /\ mode = "data"
       /\ sent' = sent \o cur /\ cur' = <<>>
       /\ spc' = "top"
       /\ UNCHANGED <<rcur, retry>>
    \/ /\ mode = "resend"
       /\ rcur' = <<>>
       /\ retry' = [i \in DOMAIN retry \ {rcur[1].id} |-> retry[i]]
       /\ spc' = "resend"
       /\ UNCHANGED <<cur, sent>>

\* SendTcpDirect takes the whole packet.
WriteWhole(s) ==
    /\ spc = "try" /\ s \in left /\ ObjectOf(s) \in alive
    /\ stream' = Written(ObjectOf(s), "whole")
    /\ left' = {}
    /\ PacketDone
    /\ UNCHANGED <<queueVars, callVars, flagVars, mode, batch, snap, recheck, tried, at,
                   vcGen, gen, replaced, alive>>

\* SendTcpDirect takes a part; the rest must follow on this connection.
WritePart(s) ==
    /\ spc = "try" /\ s \in left /\ ObjectOf(s) \in alive
    /\ stream' = Written(ObjectOf(s), "partial")
    /\ tried' = TRUE
    /\ at' = {s}
    /\ spc' = "flush"
    /\ UNCHANGED <<queueVars, callVars, flagVars, packetVars, roundVars, snap, left,
                   recheck, vcGen, gen, replaced, alive>>

\* The flush loop writes the rest.
FlushDone(s) ==
    /\ spc = "flush" /\ s \in at /\ ObjectOf(s) \in alive
    /\ stream' = [stream EXCEPT ![ObjectOf(s)] = IF @ = "partial" THEN "whole" ELSE @]
    /\ at' = {} /\ left' = {}
    /\ PacketDone
    /\ UNCHANGED <<queueVars, callVars, flagVars, mode, batch, snap, recheck, tried,
                   vcGen, gen, replaced, alive>>

\* Mutant: a stalled connection is kept after an unfinished packet.
FlushFailsKeepsConnection(s) ==
    /\ spc = "flush" /\ s \in at
    /\ left' = left \ {s} /\ at' = {}
    /\ spc' = "try"
    /\ UNCHANGED <<queueVars, callVars, flagVars, connVars, packetVars, roundVars, snap,
                   recheck, tried>>

\* The flush loop gives up: error, stall, disconnected or not running.
FlushFails(s) ==
    /\ spc = "flush" /\ s \in at
    /\ Disconnect(ObjectOf(s))
    /\ left' = left \ {s} /\ at' = {}
    /\ spc' = "try"
    /\ UNCHANGED <<sendQueue, resendQueue, callVars, packetVars, roundVars, snap, recheck,
                   tried, stream>>

\* The kernel buffer is full.
WriteBlocked(s) ==
    /\ spc = "try" /\ s \in left /\ ObjectOf(s) \in alive
    /\ left' = left \ {s}
    /\ tried' = TRUE
    /\ UNCHANGED <<spc, queueVars, callVars, flagVars, packetVars, roundVars, snap,
                   recheck, at, connVars>>

\* The write fails for good; so does one on a connection closed meanwhile.
WriteFails(s) ==
    /\ spc = "try" /\ s \in left
    /\ Disconnect(ObjectOf(s))
    /\ left' = left \ {s}
    /\ tried' = TRUE
    /\ UNCHANGED <<spc, sendQueue, resendQueue, callVars, packetVars, roundVars, snap,
                   recheck, at, stream>>
------------------------------------------------------------------------------
(***************************************************************************)
(* No connection took the packet.                                          *)
(***************************************************************************)
\* Mutant: an unsent packet goes back to the end of the queue.
RequeuePacket ==
    /\ spc = "try" /\ mode = "data" /\ left = {}
    /\ sendQueue' = sendQueue \o cur
    /\ cur' = <<>>
    /\ spc' = "top"
    /\ UNCHANGED <<resendQueue, cancelled, callVars, flagVars, mode, rcur, sent,
                   roundVars, tryVars, connVars>>

\* Mutant: an unsent packet is dropped.
DropPacket ==
    /\ spc = "try" /\ mode = "data" /\ left = {}
    /\ cur' = <<>>
    /\ spc' = "top"
    /\ UNCHANGED <<queueVars, callVars, flagVars, mode, rcur, sent, roundVars, tryVars,
                   connVars>>

\* It is retained for the next iteration (after a wait of at most 50 ms on
\* connAvailableCv).
RetainPacket ==
    /\ spc = "try" /\ mode = "data" /\ left = {}
    /\ spc' = "top"
    /\ UNCHANGED <<queueVars, callVars, flagVars, packetVars, roundVars, tryVars, connVars>>

Retries(n) == IF n \in DOMAIN retry THEN retry[n] ELSE 0

\* Mutant: the limit of the retries is tested after counting.
ResendOnceTooOften ==
    /\ spc = "try" /\ mode = "resend" /\ left = {}
    /\ LET n == rcur[1].id IN
           /\ ~tried \/ Retries(n) <= MaxRetries
           /\ retry' = [i \in DOMAIN retry \cup {n} |->
                           IF i = n THEN Retries(n) + (IF tried THEN 1 ELSE 0)
                                    ELSE retry[i]]
    /\ resendQueue' = resendQueue \o rcur
    /\ rcur' = <<>>
    /\ spc' = "resend"
    /\ UNCHANGED <<sendQueue, cancelled, callVars, flagVars, mode, cur, sent, batch,
                   tryVars, connVars>>

\* A resend is enqueued again; the retry counts only if some connection was
\* tried.
ResendAgain ==
    /\ spc = "try" /\ mode = "resend" /\ left = {}
    /\ LET n == rcur[1].id IN
           /\ ~tried \/ Retries(n) < MaxRetries
           /\ retry' = [i \in DOMAIN retry \cup {n} |->
                           IF i = n THEN Retries(n) + (IF tried THEN 1 ELSE 0)
                                    ELSE retry[i]]
    /\ resendQueue' = resendQueue \o rcur
    /\ rcur' = <<>>
    /\ spc' = "resend"
    /\ UNCHANGED <<sendQueue, cancelled, callVars, flagVars, mode, cur, sent, batch,
                   tryVars, connVars>>

\* Its retries are used up: it is dropped.
ResendGivesUp ==
    /\ spc = "try" /\ mode = "resend" /\ left = {}
    /\ tried /\ Retries(rcur[1].id) >= MaxRetries
    /\ retry' = [i \in DOMAIN retry \ {rcur[1].id} |-> retry[i]]
    /\ rcur' = <<>>
    /\ spc' = "resend"
    /\ UNCHANGED <<queueVars, callVars, flagVars, mode, cur, sent, batch, tryVars,
                   connVars>>

\* The send thread ended.
Stopped == spc = "stopped" /\ UNCHANGED vars
------------------------------------------------------------------------------
Enqueue == Accept \/ NotifyPeer \/ \E n \in 0..(nextId - 1) : ResendAsked(n)

Connections == \/ \E o \in Objects : PeerCloses(o)
               \/ \E s \in Slots : Replace(s)
               \/ ReplaceInSend
               \/ CloseCancel \/ CloseStop

Attempt == \E s \in Slots :
    \/ Skip(s) \/ WriteWhole(s) \/ WritePart(s) \/ WriteBlocked(s) \/ WriteFails(s)
    \/ FlushDone(s) \/ FlushFails(s)

Run == \/ LoopTop \/ LoopEnd
       \/ ResendTake \/ ResendDone \/ TrimTracker
       \/ TakeRetained \/ TakePacket \/ NothingToTake \/ Rate
       \/ Attempt
       \/ RetainPacket \/ ResendAgain \/ ResendGivesUp

Next == Enqueue \/ Connections \/ Run \/ Stopped

Spec == Init /\ [][Next]_vars
------------------------------------------------------------------------------
\* The variables have their types; a stored retry count stays within MaxRetries
\* (emptying the tracker resets it), and at most one packet is in hand on either
\* path.
FlagTypes ==
    /\ cancelled \in BOOLEAN /\ opened \in BOOLEAN /\ running \in BOOLEAN
    /\ recheck \in BOOLEAN /\ tried \in BOOLEAN
PacketTypes ==
    /\ sendQueue \in Seq(Packets) /\ resendQueue \in Seq(Packets)
    /\ cur \in Seq(Packets) /\ Len(cur) <= 1
    /\ rcur \in Seq(Packets) /\ Len(rcur) <= 1
    /\ sent \in Seq(Packets)
    /\ nextId \in Nat /\ asked \in [notify : Nat, resend : Nat]
    /\ mode \in {"data", "resend"} /\ batch \in 0..MaxBatch
    /\ \A n \in DOMAIN retry : retry[n] \in 0..MaxRetries
ConnTypes ==
    /\ spc \in {"top", "resend", "trim", "take", "rate", "try", "flush", "stopped"}
    /\ vcGen \in [Slots -> 0..MaxReplace] /\ gen \in [Slots -> 0..MaxReplace]
    /\ snap \in [Slots -> 0..MaxReplace]
    /\ replaced \in 0..MaxReplace
    /\ left \in SUBSET Slots /\ at \in SUBSET Slots /\ alive \in SUBSET Objects
    /\ stream \in [Objects -> {"whole", "partial", "corrupt"}]
TypeOK == FlagTypes /\ PacketTypes /\ ConnTypes

\* A TCP stream never carries bytes of a second packet after an unfinished one:
\* a connection on which a packet could not be completed is dropped, also when
\* slots are replaced and connections fail while the packet is flushed.
FramingIntact == \A o \in Objects : stream[o] # "corrupt"

\* Inductive strengthening of FramingIntact: an unfinished packet is on a dead
\* connection, or on the one being flushed.
UnfinishedIsDead ==
    \A o \in Objects : stream[o] = "partial" =>
        o \notin alive \/ (spc = "flush" /\ \E s \in at : o = ObjectOf(s))

\* A connection that does not exist yet has no bytes on it.
FreshWhole ==
    /\ \A o \in Objects : o[2] > replaced => stream[o] = "whole"
    /\ \A o \in alive : o[2] <= replaced
    /\ \A s, u \in at : s = u

\* Everything enqueued for sending, in order: what was written, the packet in
\* hand, what is still queued.
Pipeline == sent \o cur \o sendQueue

\* The data path handles the packets in the order of their ids, each once.
PipelineOrdered ==
    \A i, j \in DOMAIN Pipeline :
        i < j /\ Pipeline[i].kind = "data" /\ Pipeline[j].kind = "data"
            => Pipeline[i].id < Pipeline[j].id

\* Every data packet in the pipeline has an id that send() gave out.
PipelineKnown ==
    \A i \in DOMAIN Pipeline : Pipeline[i].kind = "data" => Pipeline[i].id < nextId

\* Every id that send() gave out is in the pipeline.
PipelineComplete ==
    \A n \in 0..(nextId - 1) : \E i \in DOMAIN Pipeline : Pipeline[i] = Data(n)

\* While the thread runs, no packet that send() accepted is lost: not when all
\* connections fail, nor when it is retained, nor when resends come first.
AcceptedKept == running => PipelineComplete

\* The inductive invariant of the send thread.
IInv == /\ TypeOK
        /\ FramingIntact /\ UnfinishedIsDead /\ FreshWhole
        /\ PipelineOrdered /\ PipelineKnown /\ PipelineComplete
==============================================================================
