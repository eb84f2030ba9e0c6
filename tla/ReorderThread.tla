---------------------------- MODULE ReorderThread ----------------------------
(***************************************************************************)
(* The receive path of TcpVirtualChannel: the IO thread hands every parsed *)
(* DATA packet to processReceivedData, which pushes it on the lock-free    *)
(* queue of its connection; the reorder thread empties the queues into     *)
(* receivedDataMap, delivers the run of consecutive ids that starts at     *)
(* nextMessageId, gives up on a missing id once the gap timer expires,     *)
(* tells the peer what is missing, and sleeps on reorderCv when it found   *)
(* nothing.  close() stops both threads.                                   *)
(*                                                                         *)
(* A step is one access to state another thread can see, or one iteration  *)
(* of a loop over the reorder thread's own state.  The clock is abstracted *)
(* to the age of the gap timer, which saturates at ReorderTimeout: nothing *)
(* in the code tells larger ages apart.  Payloads and the diagnostics of   *)
(* the log lines are left out.                                             *)
(***************************************************************************)
EXTENDS Naturals, Sequences, FiniteSets

CONSTANTS MsgIds,          \* message ids that occur on the wire
          NConn,           \* number of TCP connections (connections.size())
          Capacity,        \* SpscQueue's Capacity; it holds Capacity - 1 items
          ReorderTimeout,  \* reorderTimeoutMs, in ticks
          NotifyInterval,  \* missingNotifyIntervalMs, in ticks
          MaxMissing,      \* VC_MAX_MISSING_IDS_PER_NOTIFY
          NotifiedCap,     \* the 1000 of sendMissingNotifications
          MaxPackets       \* bound: DATA packets the IO thread reads

ASSUME ReorderConstants ==
    /\ MsgIds \subseteq Nat
    /\ NConn \in Nat \ {0}
    /\ Capacity \in Nat \ {0}
    /\ ReorderTimeout \in Nat \ {0}
    /\ NotifyInterval \in Nat
    /\ MaxMissing \in Nat \ {0}
    /\ NotifiedCap \in Nat
    /\ MaxPackets \in Nat

Conns == 1..NConn

VARIABLES
    queues,      \* connReceiveQueues: ids waiting on each connection's queue
    enqSeq,      \* reorderEnqueueSeq
    ioPc,        \* where the IO thread is in processReceivedData
    ioRunning,   \* the IO thread's running flag
    rpc,         \* where the reorder thread is in reorderThreadFunc
    idx,         \* its loop index over the queues
    gotAny,      \* its local gotAny
    lastSeq,     \* its local lastProcessedSeq
    buffered,    \* receivedDataMap (its keys)
    next,        \* nextMessageId
    items,       \* its local itemsToDeliver
    gapActive,   \* gapTimerActive
    gapAge,      \* time since gapFirstSeen, at most ReorderTimeout
    timed,       \* its current wait has a deadline (wait_for)
    notified,    \* notifiedMissingIds
    running,     \* reorderRunning
    opened,      \* opened
    closePc,     \* where the caller of close() is
    arrived,     \* history: every id that entered a queue
    delivered,   \* history: ids given to receiveCallback, oldest first
    packets      \* DATA packets read so far (bounded by MaxPackets)

ioVars == <<ioPc, ioRunning, enqSeq, arrived, packets>>
gapVars == <<gapActive, gapAge, notified>>
orderVars == <<buffered, next, items, delivered>>
waitVars == <<idx, gotAny, lastSeq, timed>>
ctlVars == <<running, opened, closePc>>
vars == <<queues, rpc, ioVars, gapVars, orderVars, waitVars, ctlVars>>

RPcs == {"top", "scan", "load", "drain", "gap", "redrain", "notify",
         "deliver", "idle", "pred", "block", "asleep", "stopped"}
IoPcs == {"ready", "pushed", "counted", "stopped"}
ClosePcs == {"none", "joinIo", "stopFlag", "notifying", "joining", "closed"}

\* open() has returned: the threads run and nothing was received.
Init ==
    /\ queues = [c \in Conns |-> <<>>]
    /\ enqSeq = 0 /\ ioPc = "ready" /\ ioRunning = TRUE
    /\ rpc = "top" /\ idx = 1 /\ gotAny = FALSE /\ lastSeq = 0 /\ timed = FALSE
    /\ buffered = {} /\ next = 0 /\ items = <<>>
    /\ gapActive = FALSE /\ gapAge = 0 /\ notified = {}
    /\ running = TRUE /\ opened = TRUE /\ closePc = "none"
    /\ arrived = {} /\ delivered = <<>> /\ packets = 0
------------------------------------------------------------------------------
\* reorderCv.notify_one(): wakes the reorder thread if it sleeps on the
\* condition variable, and is lost otherwise.
NotifyOne == rpc' = IF rpc = "asleep" THEN "pred" ELSE rpc

(***************************************************************************)
(* The IO thread: processReceivedData.                                     *)
(***************************************************************************)
\* try_enqueue on the queue of the connection; a full queue drops the packet.
PushReceived(c, id) ==
    /\ ioPc = "ready"
    /\ packets < MaxPackets
    /\ packets' = packets + 1
    /\ \/ /\ Len(queues[c]) < Capacity - 1
          /\ queues' = [queues EXCEPT ![c] = Append(@, id)]
          /\ arrived' = arrived \cup {id}
          /\ ioPc' = "pushed"
       \/ /\ Len(queues[c]) >= Capacity - 1
          /\ UNCHANGED <<queues, arrived, ioPc>>
    /\ UNCHANGED <<rpc, ioRunning, enqSeq, gapVars, orderVars, waitVars, ctlVars>>

\* reorderEnqueueSeq.fetch_add(1)
CountReceived ==
    /\ ioPc = "pushed"
    /\ enqSeq' = enqSeq + 1
    /\ ioPc' = "counted"
    /\ UNCHANGED <<queues, rpc, ioRunning, arrived, packets,
                   gapVars, orderVars, waitVars, ctlVars>>

\* reorderCv.notify_one(), without reorderMutex.
NotifyReceived ==
    /\ ioPc = "counted"
    /\ ioPc' = "ready"
    /\ NotifyOne
    /\ UNCHANGED <<queues, ioRunning, enqSeq, arrived, packets,
                   gapVars, orderVars, waitVars, ctlVars>>

\* The IO thread's run() returns once its running flag is cleared.
IoExit ==
    /\ ioPc = "ready" /\ ~ioRunning
    /\ ioPc' = "stopped"
    /\ UNCHANGED <<queues, rpc, ioRunning, enqSeq, arrived, packets,
                   gapVars, orderVars, waitVars, ctlVars>>
------------------------------------------------------------------------------
(***************************************************************************)
(* The reorder thread: reorderThreadFunc.                                  *)
(***************************************************************************)
\* while (reorderRunning.load())
LoopTop ==
    /\ rpc = "top"
    /\ rpc' = IF running THEN "scan" ELSE "stopped"
    /\ idx' = 1
    /\ gotAny' = FALSE
    /\ UNCHANGED <<queues, ioVars, gapVars, orderVars, lastSeq, timed, ctlVars>>

\* Mutant: ids below nextMessageId are buffered too.
ScanTakeKeepsStale ==
    /\ rpc = "scan"
    /\ queues[idx] # <<>>
    /\ queues' = [queues EXCEPT ![idx] = Tail(@)]
    /\ buffered' = buffered \cup {Head(queues[idx])}
    /\ gotAny' = TRUE
    /\ UNCHANGED <<rpc, ioVars, gapVars, next, items, delivered,
                   idx, lastSeq, timed, ctlVars>>

\* try_dequeue succeeds: ids below nextMessageId are dropped, others buffered.
ScanTake ==
    /\ rpc = "scan"
    /\ queues[idx] # <<>>
    /\ queues' = [queues EXCEPT ![idx] = Tail(@)]
    /\ LET id == Head(queues[idx]) IN
           /\ buffered' = IF id < next THEN buffered ELSE buffered \cup {id}
           /\ gotAny' = (gotAny \/ id >= next)
    /\ UNCHANGED <<rpc, ioVars, gapVars, next, items, delivered,
                   idx, lastSeq, timed, ctlVars>>

\* Mutant: the loop over the queues runs one index too far.
ScanNextPastEnd ==
    /\ rpc = "scan"
    /\ queues[idx] = <<>>
    /\ IF idx > NConn THEN rpc' = "load" /\ UNCHANGED idx
                      ELSE idx' = idx + 1 /\ UNCHANGED rpc
    /\ UNCHANGED <<queues, ioVars, gapVars, orderVars, gotAny, lastSeq, timed, ctlVars>>

\* try_dequeue fails: on to the next connection's queue.
ScanNext ==
    /\ rpc = "scan"
    /\ queues[idx] = <<>>
    /\ IF idx = NConn THEN rpc' = "load" /\ UNCHANGED idx
                      ELSE idx' = idx + 1 /\ UNCHANGED rpc
    /\ UNCHANGED <<queues, ioVars, gapVars, orderVars, gotAny, lastSeq, timed, ctlVars>>

\* lastProcessedSeq = reorderEnqueueSeq.load(), after the queues were emptied.
LoadSeq ==
    /\ rpc = "load"
    /\ lastSeq' = enqSeq
    /\ rpc' = "drain"
    /\ UNCHANGED <<queues, ioVars, gapVars, orderVars, idx, gotAny, timed, ctlVars>>

\* Mutant: a delivered id stays in notifiedMissingIds.
DrainKeepsNotified ==
    /\ rpc \in {"drain", "redrain"}
    /\ next \in buffered
    /\ items' = Append(items, next)
    /\ buffered' = buffered \ {next}
    /\ next' = next + 1
    /\ UNCHANGED <<queues, rpc, ioVars, gapVars, delivered, waitVars, ctlVars>>

\* One iteration of drainReceivedDataMap: nextMessageId is buffered.
DrainOne ==
    /\ rpc \in {"drain", "redrain"}
    /\ next \in buffered
    /\ notified' = notified \ {next}
    /\ items' = Append(items, next)
    /\ buffered' = buffered \ {next}
    /\ next' = next + 1
    /\ UNCHANGED <<queues, rpc, ioVars, gapActive, gapAge, delivered, waitVars, ctlVars>>

\* drainReceivedDataMap returns.
DrainDone ==
    /\ rpc \in {"drain", "redrain"}
    /\ next \notin buffered
    /\ rpc' = IF rpc = "drain" THEN "gap" ELSE "notify"
    /\ UNCHANGED <<queues, ioVars, gapVars, orderVars, waitVars, ctlVars>>

\* Nothing is buffered: there is no gap.
NoGap ==
    /\ rpc = "gap"
    /\ buffered = {}
    /\ gapActive' = FALSE /\ gapAge' = 0
    /\ rpc' = "notify"
    /\ UNCHANGED <<queues, ioVars, notified, orderVars, waitVars, ctlVars>>

\* Messages are buffered behind a gap and no timer runs: start it.
StartGapTimer ==
    /\ rpc = "gap"
    /\ buffered # {} /\ ~gapActive
    /\ gapActive' = TRUE /\ gapAge' = 0
    /\ rpc' = "notify"
    /\ UNCHANGED <<queues, ioVars, notified, orderVars, waitVars, ctlVars>>

\* The timer runs and has not expired.
KeepGapTimer ==
    /\ rpc = "gap"
    /\ buffered # {} /\ gapActive /\ gapAge < ReorderTimeout
    /\ rpc' = "notify"
    /\ UNCHANGED <<queues, ioVars, gapVars, orderVars, waitVars, ctlVars>>

\* Mutant: the skip goes to the last buffered id instead of the first.
SkipToLast ==
    /\ rpc = "gap"
    /\ buffered # {} /\ gapActive /\ gapAge >= ReorderTimeout
    /\ \E last \in buffered :
           /\ \A id \in buffered : id <= last
           /\ next' = last
    /\ notified' = {}
    /\ gapActive' = FALSE /\ gapAge' = 0
    /\ rpc' = "redrain"
    /\ UNCHANGED <<queues, ioVars, buffered, items, delivered, waitVars, ctlVars>>

\* Mutant: the skip passes the first buffered id and erases it.
SkipDropsFirst ==
    /\ rpc = "gap"
    /\ buffered # {} /\ gapActive /\ gapAge >= ReorderTimeout
    /\ \E first \in buffered :
           /\ \A id \in buffered : first <= id
           /\ next' = first + 1
           /\ buffered' = buffered \ {first}
    /\ notified' = {}
    /\ gapActive' = FALSE /\ gapAge' = 0
    /\ rpc' = "redrain"
    /\ UNCHANGED <<queues, ioVars, items, delivered, waitVars, ctlVars>>

\* The timer has expired: skip to the first buffered id.
SkipGap ==
    /\ rpc = "gap"
    /\ buffered # {} /\ gapActive /\ gapAge >= ReorderTimeout
    /\ \E first \in buffered :
           /\ \A id \in buffered : first <= id
           /\ next' = first
    /\ notified' = {}
    /\ gapActive' = FALSE /\ gapAge' = 0
    /\ rpc' = "redrain"
    /\ UNCHANGED <<queues, ioVars, buffered, items, delivered, waitVars, ctlVars>>

(***************************************************************************)
(* sendMissingNotifications.  For each buffered id k, in ascending order,  *)
(* the code pushes every id from nextMessageId up to k - 1 that was not    *)
(* notified, and stops after MaxMissing pushes.  A push is a pair          *)
(* <<k, id>>; the ones made are the first MaxMissing in that order.        *)
(***************************************************************************)
Pushes == UNION {{k} \X {id \in next..(k - 1) : id \notin notified} : k \in buffered}

PushedBefore(q, p) == q[1] < p[1] \/ (q[1] = p[1] /\ q[2] < p[2])

MissingIds ==
    {p[2] : p \in {r \in Pushes :
                     Cardinality({q \in Pushes : PushedBefore(q, r)}) < MaxMissing}}

\* Nothing is buffered, no timer runs, it is too early, or all was notified.
NotifyNothing ==
    /\ rpc = "notify"
    /\ \/ buffered = {}
       \/ ~gapActive
       \/ gapAge < NotifyInterval
       \/ MissingIds = {}
    /\ rpc' = "deliver"
    /\ UNCHANGED <<queues, ioVars, gapVars, orderVars, waitVars, ctlVars>>

\* Mutant: notifiedMissingIds is never emptied.
NotifyNeverClears ==
    /\ rpc = "notify"
    /\ buffered # {} /\ gapActive /\ gapAge >= NotifyInterval
    /\ MissingIds # {}
    /\ notified' = MissingIds \cup notified
    /\ rpc' = "deliver"
    /\ UNCHANGED <<queues, ioVars, gapActive, gapAge, orderVars, waitVars, ctlVars>>

\* missingNotifyCallback(MissingIds); the set is emptied first when it is large.
NotifyMissing ==
    /\ rpc = "notify"
    /\ buffered # {} /\ gapActive /\ gapAge >= NotifyInterval
    /\ MissingIds # {}
    /\ notified' = MissingIds \cup
                   (IF Cardinality(notified) > NotifiedCap THEN {} ELSE notified)
    /\ rpc' = "deliver"
    /\ UNCHANGED <<queues, ioVars, gapActive, gapAge, orderVars, waitVars, ctlVars>>

\* Mutant: a delivered item stays in itemsToDeliver.
DeliverKeepsItem ==
    /\ rpc = "deliver"
    /\ items # <<>>
    /\ delivered' = Append(delivered, Head(items))
    /\ UNCHANGED <<queues, rpc, ioVars, gapVars, buffered, next, items, waitVars, ctlVars>>

\* receiveCallback on the next item of itemsToDeliver.
DeliverOne ==
    /\ rpc = "deliver"
    /\ items # <<>>
    /\ delivered' = Append(delivered, Head(items))
    /\ items' = Tail(items)
    /\ UNCHANGED <<queues, rpc, ioVars, gapVars, buffered, next, waitVars, ctlVars>>

DeliverDone ==
    /\ rpc = "deliver"
    /\ items = <<>>
    /\ rpc' = IF gotAny THEN "top" ELSE "idle"
    /\ UNCHANGED <<queues, ioVars, gapVars, orderVars, waitVars, ctlVars>>

\* Mutant: the wait never has a deadline.
ChooseWaitUntimed ==
    /\ rpc = "idle"
    /\ timed' = FALSE
    /\ rpc' = "pred"
    /\ UNCHANGED <<queues, ioVars, gapVars, orderVars, idx, gotAny, lastSeq, ctlVars>>

\* Nothing was dequeued: choose the kind of wait (none if the timer is due).
ChooseWait ==
    /\ rpc = "idle"
    /\ timed' = gapActive
    /\ rpc' = IF gapActive /\ gapAge >= ReorderTimeout THEN "top" ELSE "pred"
    /\ UNCHANGED <<queues, ioVars, gapVars, orderVars, idx, gotAny, lastSeq, ctlVars>>

\* The wait's predicate, evaluated under reorderMutex.
WaitPredicate == enqSeq > lastSeq \/ ~running

CheckPredicate ==
    /\ rpc = "pred"
    /\ rpc' = IF WaitPredicate THEN "top" ELSE "block"
    /\ UNCHANGED <<queues, ioVars, gapVars, orderVars, waitVars, ctlVars>>

\* The thread goes to sleep; a notification before this step did not reach it.
FallAsleep ==
    /\ rpc = "block"
    /\ rpc' = "asleep"
    /\ UNCHANGED <<queues, ioVars, gapVars, orderVars, waitVars, ctlVars>>

\* wait_for returns at its deadline, gapFirstSeen + reorderTimeoutMs.
DeadlinePassed == timed /\ gapAge >= ReorderTimeout

WaitExpires ==
    /\ rpc = "asleep" /\ DeadlinePassed
    /\ rpc' = "top"
    /\ UNCHANGED <<queues, ioVars, gapVars, orderVars, waitVars, ctlVars>>

\* A condition variable may wake without a notification (at the deadline that
\* is a timeout).
SpuriousWake ==
    /\ rpc = "asleep" /\ ~DeadlinePassed
    /\ rpc' = "pred"
    /\ UNCHANGED <<queues, ioVars, gapVars, orderVars, waitVars, ctlVars>>

\* steady_clock advances while the gap timer runs.
Tick ==
    /\ gapActive /\ gapAge < ReorderTimeout
    /\ gapAge' = gapAge + 1
    /\ UNCHANGED <<queues, rpc, ioVars, gapActive, notified, orderVars, waitVars, ctlVars>>
------------------------------------------------------------------------------
(***************************************************************************)
(* The end of the channel.                                                 *)
(***************************************************************************)
\* disconnectCB finds the last connection dead: the channel counts as closed
\* and the IO thread is told to stop; the reorder thread is left running.
AllConnectionsDead ==
    /\ opened
    /\ opened' = FALSE
    /\ ioRunning' = FALSE
    /\ UNCHANGED <<queues, rpc, ioPc, enqSeq, arrived, packets, gapVars, orderVars,
                   waitVars, running, closePc>>

\* close(): the IO thread is stopped only if the channel was still open.
CloseBegin ==
    /\ closePc = "none"
    /\ opened' = FALSE
    /\ ioRunning' = (ioRunning /\ ~opened)
    /\ closePc' = IF opened THEN "joinIo" ELSE "stopFlag"
    /\ UNCHANGED <<queues, rpc, ioPc, enqSeq, arrived, packets, gapVars, orderVars,
                   waitVars, running>>

CloseJoinIo ==
    /\ closePc = "joinIo" /\ ioPc = "stopped"
    /\ closePc' = "stopFlag"
    /\ UNCHANGED <<queues, rpc, ioVars, gapVars, orderVars, waitVars, running, opened>>

\* reorderRunning.store(false)
CloseStopReorder ==
    /\ closePc = "stopFlag"
    /\ running' = FALSE
    /\ closePc' = "notifying"
    /\ UNCHANGED <<queues, rpc, ioVars, gapVars, orderVars, waitVars, opened>>

\* reorderCv.notify_one(), without reorderMutex.
CloseNotify ==
    /\ closePc = "notifying"
    /\ closePc' = "joining"
    /\ NotifyOne
    /\ UNCHANGED <<queues, ioVars, gapVars, orderVars, waitVars, running, opened>>

\* reorderThread.join() returns.
CloseJoin ==
    /\ closePc = "joining" /\ rpc = "stopped"
    /\ closePc' = "closed"
    /\ UNCHANGED <<queues, rpc, ioVars, gapVars, orderVars, waitVars, running, opened>>

\* The channel stays closed.
Closed == closePc = "closed" /\ UNCHANGED vars
------------------------------------------------------------------------------
IoThread == CountReceived \/ NotifyReceived \/ IoExit

Dequeue == LoopTop \/ ScanTake \/ ScanNext \/ LoadSeq

Reorder == \/ DrainOne \/ DrainDone
           \/ NoGap \/ StartGapTimer \/ KeepGapTimer \/ SkipGap
           \/ NotifyNothing \/ NotifyMissing
           \/ DeliverOne \/ DeliverDone

Sleep == ChooseWait \/ CheckPredicate \/ FallAsleep \/ WaitExpires

Close == CloseJoinIo \/ CloseStopReorder \/ CloseNotify \/ CloseJoin

Next ==
    \/ \E c \in Conns, id \in MsgIds : PushReceived(c, id)
    \/ IoThread
    \/ Dequeue \/ Reorder \/ Sleep \/ SpuriousWake
    \/ Tick
    \/ AllConnectionsDead
    \/ CloseBegin \/ Close \/ Closed

Spec == Init /\ [][Next]_vars

\* Every thread keeps running and the clock keeps advancing.  Nothing obliges
\* the network to send, the user to call close(), a connection to fail or a
\* condition variable to wake spuriously.
Fairness == /\ WF_vars(IoThread)
            /\ WF_vars(Dequeue \/ Reorder \/ Sleep)
            /\ WF_vars(Tick)
            /\ WF_vars(Close)

FairSpec == Spec /\ Fairness
------------------------------------------------------------------------------
\* The variables have their types: flags, program counters and the rest.
FlagTypes == {ioRunning, gotAny, timed, gapActive, running, opened} \subseteq BOOLEAN
PcTypes == rpc \in RPcs /\ ioPc \in IoPcs /\ closePc \in ClosePcs
DataTypes ==
    /\ queues \in [Conns -> Seq(MsgIds)]
    /\ enqSeq \in Nat /\ lastSeq \in Nat /\ packets \in Nat /\ idx \in Conns
    /\ buffered \in SUBSET MsgIds /\ next \in Nat
    /\ items \in Seq(MsgIds) /\ delivered \in Seq(MsgIds)
    /\ gapAge \in 0..ReorderTimeout /\ notified \in SUBSET Nat
    /\ arrived \in SUBSET MsgIds
TypeOK == FlagTypes /\ PcTypes /\ DataTypes

Elements(s) == {s[i] : i \in DOMAIN s}

\* The receive callback sees message ids in strictly increasing order, so no
\* message twice, whatever order, connection or number of times packets arrive
\* (drainReceivedDataMap, the id < nextMessageId test and the timeout skip).
InOrder == \A i, j \in DOMAIN delivered : i < j => delivered[i] < delivered[j]

\* nextMessageId never overtakes a buffered message: the timeout skip gives up
\* only on ids that are not in receivedDataMap.
BufferedAhead == \A id \in buffered : next <= id

\* Inductive strengthening of InOrder: what was delivered, then what waits in
\* itemsToDeliver, increases, and all of it is below nextMessageId.
Ordered ==
    /\ InOrder
    /\ \A i, j \in DOMAIN items : i < j => items[i] < items[j]
    /\ \A i \in DOMAIN delivered, j \in DOMAIN items : delivered[i] < items[j]
    /\ \A i \in DOMAIN delivered : delivered[i] < next
    /\ \A j \in DOMAIN items : items[j] < next

\* Whatever the reorder thread holds came through a queue.
FromQueues ==
    /\ \A c \in Conns : \A i \in DOMAIN queues[c] : queues[c][i] \in arrived
    /\ buffered \subseteq arrived
    /\ \A j \in DOMAIN items : items[j] \in arrived

\* A message leaves receivedDataMap only into itemsToDeliver, and that list
\* only into the callback: once buffered, a message is not lost.
BufferedNeverLost ==
    [][/\ buffered \ buffered' \subseteq Elements(items')
       /\ Elements(items) \ Elements(items') \subseteq Elements(delivered')]_vars

\* Everything in notifiedMissingIds lies in a gap that is still open: not below
\* nextMessageId, and below some buffered id.  So the set holds nothing that
\* was delivered or skipped, and is empty when nothing is buffered.
NotifiedInGap == \A id \in notified : next <= id /\ \E k \in buffered : id < k

\* The inductive invariant of the receive path.
IInv == TypeOK /\ BufferedAhead /\ Ordered /\ FromQueues /\ NotifiedInGap

\* notifiedMissingIds exceeds its cap by at most one notification.
NotifiedBounded == Cardinality(notified) <= NotifiedCap + MaxMissing

\* A running gap timer ends: the wait has a deadline while it runs, so a gap is
\* filled or skipped even if every wake-up is lost and no packet arrives.
GapEnds == gapActive ~> (~gapActive \/ ~running)

\* The deadline also ends close(): while the gap timer runs, a lost
\* notification delays the join of the reorder thread but cannot prevent it.
CloseEndsUnderTimer == (closePc = "joining" /\ gapActive) ~> closePc = "closed"

\* The channel implements the stream its user sees.
Stream == INSTANCE OrderedStream WITH out <- delivered
StreamSpec == Stream!Spec
==============================================================================
