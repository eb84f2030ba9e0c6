------------------------------ MODULE WorkQueue ------------------------------
(***************************************************************************)
(* How work reaches the send thread: two BlockingQueues, the threads that  *)
(* enqueue on them, and the two waits of the send thread: idle, on its     *)
(* Waker, and with a packet it could not send, on connAvailableCv.  enqueue *)
(* pushes under the queue's mutex, then counts, then notifies; tryDequeue  *)
(* pops and counts down under the mutex.  The channel's user enqueues on   *)
(* sendQueue through send(), the reorder thread through the missing-id     *)
(* callback; the IO thread enqueues resends; the send thread may put a     *)
(* resend back.  close(), or the IO thread when the last connection dies,  *)
(* cancels the queues and stops the thread.                                *)
(*                                                                         *)
(* Packets are not told apart here (module SendThread does): a queue is    *)
(* its length.  Whether a resend connection is alive, whether a resend     *)
(* succeeds and whether a live connection takes a packet is left open.     *)
(***************************************************************************)
EXTENDS Integers

CONSTANTS Threshold,    \* SEND_QUEUE_DROP_THRESHOLD
          SizeMod,      \* approxQueueSize counts modulo this (2^64)
          MaxBatch,     \* MAX_RESEND_BATCH
          MaxCalls      \* bound: calls of each enqueuing thread

ASSUME WorkConstants ==
    /\ Threshold \in Nat /\ SizeMod \in Nat /\ MaxCalls \in Nat
    /\ 2 * MaxCalls < SizeMod
    /\ MaxBatch \in Nat \ {0}

Threads == {"user", "reorder", "io"}   \* the threads that enqueue
Stoppers == {"io", "closer"}           \* the threads that stop the send thread
Callers == Threads \cup Stoppers
Queues == {"send", "resend"}

VARIABLES
    size,       \* number of packets in sendQueue and resendQueue
    approx,     \* their approxQueueSize
    cancelled,  \* their cancelled flags (set together)
    tpc,        \* where each other thread is in enqueue or setRunning
    replacing,  \* a thread is between the two halves of replaceConnection
    calls,      \* calls made so far (bounded by MaxCalls)
    drops,      \* send() calls refused for backpressure
    opened,     \* opened
    running,    \* the send thread's running flag
    spc,        \* where the send thread is in run
    anyAlive,   \* anyResendAlive
    batch,      \* resendBatch
    pending,    \* pendingDataVec holds a packet
    dataAlive   \* some data connection of the send thread is connected

callVars == <<calls, drops>>
flagVars == <<cancelled, opened, running>>
roundVars == <<anyAlive, batch>>
connVars == <<replacing, pending, dataAlive>>
vars == <<size, approx, tpc, callVars, flagVars, spc, roundVars, connVars>>

Init ==
    /\ size = [q \in Queues |-> 0] /\ approx = [q \in Queues |-> 0]
    /\ tpc = [t \in Callers |-> "idle"]
    /\ calls = [t \in Threads |-> 0] /\ drops = 0
    /\ cancelled = FALSE /\ opened = TRUE /\ running = TRUE
    /\ spc = "top" /\ anyAlive = FALSE /\ batch = 0
    /\ replacing = FALSE /\ pending = FALSE /\ dataAlive = TRUE

\* fetch_add(1), and fetch_sub(1), which wraps below zero.
Up(n) == (n + 1) % SizeMod

\* Mutant: the counter goes below zero.
DownNoWrap(n) == n - 1

Down(n) == (n - 1) % SizeMod

\* The queue a thread enqueues on.
QueueOf(t) == IF t = "io" THEN "resend" ELSE "send"
------------------------------------------------------------------------------
(***************************************************************************)
(* The enqueuing threads.                                                  *)
(***************************************************************************)
\* send() on an open channel: the packet is refused if the queue looks long.
SendDrop ==
    /\ tpc["user"] = "idle" /\ opened
    /\ calls["user"] < MaxCalls
    /\ approx["send"] > Threshold
    /\ calls' = [calls EXCEPT !["user"] = @ + 1]
    /\ drops' = drops + 1
    /\ UNCHANGED <<size, approx, tpc, flagVars, spc, roundVars, connVars>>

\* send(), missingNotifyCallback or resendCallback on an open channel: enqueue
\* pushes, under queueMutex.  (The tests of opened and of the size come first;
\* what changes in between makes no difference to the queues.)
Push(t) ==
    /\ tpc[t] = "idle" /\ opened
    /\ calls[t] < MaxCalls
    /\ t = "user" => approx["send"] <= Threshold
    /\ calls' = [calls EXCEPT ![t] = @ + 1]
    /\ size' = [size EXCEPT ![QueueOf(t)] = @ + 1]
    /\ tpc' = [tpc EXCEPT ![t] = "pushed"]
    /\ UNCHANGED <<approx, drops, flagVars, spc, roundVars, connVars>>

\* approxQueueSize.fetch_add(1), after the lock is released.
Count(t) ==
    /\ tpc[t] = "pushed"
    /\ approx' = [approx EXCEPT ![QueueOf(t)] = Up(@)]
    /\ tpc' = [tpc EXCEPT ![t] = "notifying"]
    /\ UNCHANGED <<size, callVars, flagVars, spc, roundVars, connVars>>

\* Mutant: the notifier does not take waker->mtx.
WakeUnlocked(t) ==
    /\ tpc[t] = "notifying"
    /\ spc' = IF spc = "asleep" THEN "idle" ELSE spc
    /\ tpc' = [tpc EXCEPT ![t] = "idle"]
    /\ UNCHANGED <<size, approx, callVars, flagVars, roundVars, connVars>>

\* The enqueue notifier, or the end of setRunning(false): take waker->mtx,
\* which the send thread holds from its predicate until it sleeps, and notify.
Wake(t) ==
    /\ tpc[t] = "notifying"
    /\ spc # "blocking"
    /\ spc' = IF spc = "asleep" THEN "idle" ELSE spc
    /\ tpc' = [tpc EXCEPT ![t] = "idle"]
    /\ UNCHANGED <<size, approx, callVars, flagVars, roundVars, connVars>>
------------------------------------------------------------------------------
(***************************************************************************)
(* Shutdown.                                                               *)
(***************************************************************************)
\* disconnectCB on the IO thread with every connection dead, or close(): the
\* channel is closed and both queues are cancelled.  (The send thread may be
\* the one that notices, while it attempts a packet: it is as if the closer did
\* all of it during the attempt.)
Cancel(t) ==
    /\ tpc[t] = "idle" /\ opened
    /\ opened' = FALSE /\ cancelled' = TRUE
    /\ tpc' = [tpc EXCEPT ![t] = "stopping"]
    /\ UNCHANGED <<size, approx, callVars, running, spc, roundVars, connVars>>

\* Mutant: setRunning(false) does not wake the idle wait.
StopSilent(t) ==
    /\ tpc[t] = "stopping"
    /\ running' = FALSE
    /\ tpc' = [tpc EXCEPT ![t] = "idle"]
    /\ UNCHANGED <<size, approx, callVars, cancelled, opened, spc, roundVars, connVars>>

\* Then setRunning(false), which goes on to wake the send thread:
Stop(t) ==
    /\ tpc[t] = "stopping"
    /\ running' = FALSE
    /\ tpc' = [tpc EXCEPT ![t] = "notifyConn"]
    /\ UNCHANGED <<size, approx, callVars, cancelled, opened, spc, roundVars, connVars>>

\* connAvailableCv.notify_one finds the send thread asleep there, or is lost.
WakeConn == spc' = IF spc = "connAsleep" THEN "connIdle" ELSE spc

\* first connAvailableCv, without connectionsMutex, so that the notification is
\* lost on a send thread that tested the flag and does not sleep yet; the
\* Waker comes next (Wake).
StopNotifies(t) ==
    /\ tpc[t] = "notifyConn"
    /\ WakeConn
    /\ tpc' = [tpc EXCEPT ![t] = "notifying"]
    /\ UNCHANGED <<size, approx, callVars, flagVars, roundVars, connVars>>
------------------------------------------------------------------------------
(***************************************************************************)
(* The data connections of the send thread.                                *)
(***************************************************************************)
\* The last data connection that was connected is not any more.
ConnDies ==
    /\ dataAlive /\ dataAlive' = FALSE
    /\ UNCHANGED <<size, approx, tpc, callVars, flagVars, spc, roundVars,
                   replacing, pending>>

\* replaceConnection puts a connected one in a data slot, under
\* connectionsMutex, which the send thread holds from its predicate until it
\* sleeps,
Replace ==
    /\ ~replacing /\ replacing' = TRUE
    /\ spc # "connBlocking"
    /\ dataAlive' = TRUE
    /\ UNCHANGED <<size, approx, tpc, callVars, flagVars, spc, roundVars, pending>>

\* and notifies.
ReplaceNotifies ==
    /\ replacing /\ replacing' = FALSE
    /\ WakeConn
    /\ UNCHANGED <<size, approx, tpc, callVars, flagVars, roundVars, pending, dataAlive>>
------------------------------------------------------------------------------
(***************************************************************************)
(* The send thread: run.                                                   *)
(***************************************************************************)
\* while (isRunning()): resends come first if a resend connection is alive.
LoopTop ==
    /\ spc = "top"
    /\ spc' = IF running THEN "resend" ELSE "stopped"
    /\ anyAlive' \in BOOLEAN
    /\ batch' = 0
    /\ UNCHANGED <<size, approx, tpc, callVars, flagVars, connVars>>

CanTake(q) == size[q] > 0 /\ ~cancelled

\* tryDequeue finds a packet, under queueMutex.
Dequeue(q) ==
    /\ size' = [size EXCEPT ![q] = @ - 1]
    /\ approx' = [approx EXCEPT ![q] = Down(@)]

\* Mutant: the resend queue is drained without a limit.
ResendTakeUnlimited ==
    /\ spc = "resend"
    /\ anyAlive /\ CanTake("resend")
    /\ Dequeue("resend")
    /\ spc' = "resending"
    /\ UNCHANGED <<tpc, callVars, flagVars, roundVars, connVars>>

\* Take the next resend of the batch.
ResendTake ==
    /\ spc = "resend"
    /\ anyAlive /\ batch < MaxBatch /\ CanTake("resend")
    /\ Dequeue("resend")
    /\ batch' = batch + 1
    /\ spc' = "resending"
    /\ UNCHANGED <<tpc, callVars, flagVars, anyAlive, connVars>>

\* sendOnResendConn sends the packet or gives up on it.
ResendEnds ==
    /\ spc = "resending"
    /\ spc' = "resend"
    /\ UNCHANGED <<size, approx, tpc, callVars, flagVars, roundVars, connVars>>

\* sendOnResendConn enqueues it again: no other thread reads this counter, and
\* the notification finds nobody asleep.
ResendAgain ==
    /\ spc = "resending"
    /\ size' = [size EXCEPT !["resend"] = @ + 1]
    /\ approx' = [approx EXCEPT !["resend"] = Up(@)]
    /\ spc' = "resend"
    /\ UNCHANGED <<tpc, callVars, flagVars, roundVars, connVars>>

\* No resend connection is alive, the batch is full or the queue is empty.
ResendDone ==
    /\ spc = "resend"
    /\ ~anyAlive \/ batch = MaxBatch \/ ~CanTake("resend")
    /\ spc' = "take"
    /\ UNCHANGED <<size, approx, tpc, callVars, flagVars, roundVars, connVars>>

\* The packet retained by an earlier iteration comes before sendQueue.
TakeRetained ==
    /\ spc = "take" /\ pending
    /\ pending' = FALSE
    /\ spc' = "taken"
    /\ UNCHANGED <<size, approx, tpc, callVars, flagVars, roundVars, replacing, dataAlive>>

TakePacket ==
    /\ spc = "take" /\ ~pending /\ CanTake("send")
    /\ Dequeue("send")
    /\ spc' = "taken"
    /\ UNCHANGED <<tpc, callVars, flagVars, roundVars, connVars>>

NothingToTake ==
    /\ spc = "take" /\ ~pending /\ ~CanTake("send")
    /\ spc' = "idle"
    /\ UNCHANGED <<size, approx, tpc, callVars, flagVars, roundVars, connVars>>

\* The thread ends with the packet in hand, or goes on to try it.
Attempt ==
    /\ spc = "taken"
    /\ spc' = IF running THEN "attempt" ELSE "stopped"
    /\ UNCHANGED <<size, approx, tpc, callVars, flagVars, roundVars, connVars>>

\* A data connection takes the whole packet.
Sent ==
    /\ spc = "attempt" /\ dataAlive
    /\ spc' = "top"
    /\ UNCHANGED <<size, approx, tpc, callVars, flagVars, roundVars, connVars>>

\* None does (all of them blocked, in backoff, failing or dead): the packet is
\* retained and the thread waits on connAvailableCv.
NotSent ==
    /\ spc = "attempt"
    /\ pending' = TRUE
    /\ spc' = "connIdle"
    /\ UNCHANGED <<size, approx, tpc, callVars, flagVars, roundVars, replacing, dataAlive>>

\* The predicate of that wait, evaluated holding connectionsMutex.
ConnCheck ==
    /\ spc = "connIdle"
    /\ spc' = IF ~running \/ dataAlive THEN "top" ELSE "connBlocking"
    /\ UNCHANGED <<size, approx, tpc, callVars, flagVars, roundVars, connVars>>

\* The wait releases connectionsMutex and sleeps.
ConnSleep ==
    /\ spc = "connBlocking"
    /\ spc' = "connAsleep"
    /\ UNCHANGED <<size, approx, tpc, callVars, flagVars, roundVars, connVars>>

\* Its 50 ms passed.
ConnExpires ==
    /\ spc = "connAsleep"
    /\ spc' = "top"
    /\ UNCHANGED <<size, approx, tpc, callVars, flagVars, roundVars, connVars>>

\* The predicate of the idle wait, evaluated holding waker->mtx.
IdlePredicate ==
    ~running \/ approx["send"] > 0 \/ (anyAlive /\ approx["resend"] > 0)

IdleCheck ==
    /\ spc = "idle"
    /\ spc' = IF IdlePredicate THEN "top" ELSE "blocking"
    /\ UNCHANGED <<size, approx, tpc, callVars, flagVars, roundVars, connVars>>

\* The wait releases waker->mtx and sleeps.
IdleSleep ==
    /\ spc = "blocking"
    /\ spc' = "asleep"
    /\ UNCHANGED <<size, approx, tpc, callVars, flagVars, roundVars, connVars>>

\* IDLE_WAIT_MS passed.
IdleExpires ==
    /\ spc = "asleep"
    /\ spc' = "top"
    /\ UNCHANGED <<size, approx, tpc, callVars, flagVars, roundVars, connVars>>

\* The send thread ended; the channel stays closed.
Stopped == spc = "stopped" /\ UNCHANGED vars
------------------------------------------------------------------------------
Enqueuing == \/ \E t \in Threads : Count(t)
             \/ \E t \in Callers : Wake(t)
             \/ \E t \in Stoppers : Stop(t) \/ StopNotifies(t)
             \/ ReplaceNotifies

Run == \/ LoopTop
       \/ ResendTake \/ ResendEnds \/ ResendAgain \/ ResendDone
       \/ TakeRetained \/ TakePacket \/ NothingToTake
       \/ Attempt \/ Sent \/ NotSent
       \/ ConnCheck \/ ConnSleep \/ ConnExpires
       \/ IdleCheck \/ IdleSleep

Next == \/ SendDrop
        \/ \E t \in Threads : Push(t)
        \/ \E t \in Stoppers : Cancel(t)
        \/ ConnDies \/ Replace
        \/ Enqueuing \/ Run \/ IdleExpires \/ Stopped

Spec == Init /\ [][Next]_vars

\* A thread that began an enqueue, a replacement or a shutdown finishes it, and
\* the send thread keeps running.  Of its timeouts, only the 50 ms of the wait
\* for a connection are counted on: the idle wait may be endless.
FairSpec ==
    /\ Spec /\ WF_vars(Run) /\ WF_vars(ReplaceNotifies)
    /\ \A t \in Callers : WF_vars(\/ t \in Threads /\ Count(t)
                                  \/ Wake(t)
                                  \/ t \in Stoppers /\ (Stop(t) \/ StopNotifies(t)))
------------------------------------------------------------------------------
\* The variables have their types.
CallerPcs == {"idle", "pushed", "notifyConn", "notifying", "stopping"}
RunPcs == {"top", "resend", "resending", "take", "idle", "blocking", "asleep", "taken",
           "attempt", "connIdle", "connBlocking", "connAsleep", "stopped"}
TypeOK ==
    /\ size \in [Queues -> Nat] /\ approx \in [Queues -> 0..(SizeMod - 1)]
    /\ tpc \in [Callers -> CallerPcs]
    /\ calls \in [Threads -> 0..MaxCalls] /\ drops \in Nat
    /\ cancelled \in BOOLEAN /\ opened \in BOOLEAN /\ running \in BOOLEAN
    /\ spc \in RunPcs
    /\ anyAlive \in BOOLEAN /\ batch \in 0..MaxBatch
    /\ replacing \in BOOLEAN /\ pending \in BOOLEAN /\ dataAlive \in BOOLEAN

\* There is something for an idle send thread to do.
WorkWaiting ==
    ~running \/ pending \/ size["send"] > 0 \/ (anyAlive /\ size["resend"] > 0)

\* The send thread never sleeps on work without someone about to wake it: the
\* lock in the notifier closes the window between the predicate and the sleep,
\* although the size the predicate reads lags behind the queue.  Nor does it
\* sleep on a packet it could not send while a data connection is connected,
\* unless who put that connection there is about to say so.
NoLostWakeup ==
    /\ spc = "asleep" /\ WorkWaiting
         => \E t \in Callers : tpc[t] \in {"pushed", "notifyConn", "notifying"}
    /\ spc = "connAsleep" /\ dataAlive => replacing

\* What is on each queue and not yet counted.
Uncounted(t) == IF tpc[t] = "pushed" THEN 1 ELSE 0
CountedSend == size["send"] - (Uncounted("user") + Uncounted("reorder"))
CountedResend == size["resend"] - Uncounted("io")

\* n counted modulo SizeMod, for n between -SizeMod and SizeMod.
Wrapped(n) == IF n >= 0 THEN n ELSE n + SizeMod

\* Each approxQueueSize is the length of its queue without the packets pushed
\* and not yet counted, wrapped when the send thread took those already.
ApproxExact == /\ approx["send"] = Wrapped(CountedSend)
               /\ approx["resend"] = Wrapped(CountedResend)

\* No queue holds more than was enqueued.
SizeBounded ==
    /\ size["send"] <= calls["user"] + calls["reorder"]
    /\ size["resend"] + (IF spc = "resending" THEN 1 ELSE 0) <= calls["io"]

\* From the predicate of the idle wait to the end of the sleep, whatever would
\* make the predicate true is followed by a notification.
SleepGuarded ==
    spc \in {"blocking", "asleep"} =>
        /\ ~running => \E t \in Stoppers : tpc[t] \in {"notifyConn", "notifying"}
        /\ approx["send"] > 0 => \E t \in {"user", "reorder"} : tpc[t] = "notifying"
        /\ anyAlive /\ approx["resend"] > 0 => tpc["io"] = "notifying"

\* While the thread goes to sleep with a retained packet no data connection is
\* connected; while it sleeps, one is only if a notification follows.
ConnSleepGuarded ==
    /\ spc = "connBlocking" => ~dataAlive
    /\ spc = "connAsleep" /\ dataAlive => replacing

\* Only the enqueuing threads are ever between push and count, only the others
\* between cancelling and stopping.
RolesKept == /\ tpc["closer"] # "pushed"
             /\ \A t \in {"user", "reorder"} : tpc[t] \notin {"stopping", "notifyConn"}

\* With a packet retained the thread does not come to the idle wait.
RetainedPlaced ==
    pending => spc \notin {"taken", "attempt", "idle", "blocking", "asleep"}

\* The inductive invariant of the queues.
IInv == /\ TypeOK /\ RolesKept /\ ApproxExact /\ SizeBounded /\ SleepGuarded
        /\ RetainedPlaced /\ ConnSleepGuarded

\* The send thread holds a packet that is not sent yet.
Holding == pending \/ spc \in {"taken", "attempt"}

\* Work on sendQueue is taken, without the help of the IDLE_WAIT_MS timeout,
\* unless the thread holds one packet for ever that no data connection takes.
\* Resends do not starve it: the batch limit lets a packet through even if every
\* resend is enqueued again.
SendServed ==
    \/ (size["send"] > 0) ~> (spc = "take" /\ ~pending /\ CanTake("send")) \/ cancelled
    \/ <>[]Holding

\* Once told to stop, the send thread ends, wherever it was: from the idle wait
\* without the help of its timeout, from the wait for a connection at the
\* latest when its 50 ms are over, because that notification can be lost.
StopEnds == ~running ~> spc = "stopped"
==============================================================================
