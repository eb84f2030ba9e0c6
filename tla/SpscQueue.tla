------------------------------ MODULE SpscQueue ------------------------------
(***************************************************************************)
(* The lock-free ring of SpscQueue.h: one producer (the IO thread in       *)
(* try_enqueue), one consumer (the reorder thread in try_dequeue), two     *)
(* atomic positions and a plain array.                                     *)
(*                                                                         *)
(* A step is one access to state the other thread touches.  Each thread    *)
(* knows its own position; the other's position it reads with acquire, and *)
(* such a load may return any value from the one it returned last up to    *)
(* the current one: readSeen is the value of readPos the producer has seen *)
(* so far, writeSeen the value of writePos the consumer has seen.          *)
(***************************************************************************)
EXTENDS Naturals, Sequences

CONSTANTS Items,      \* what is passed through the queue
          NoItem,     \* a slot that was never written or was moved from
          Capacity,   \* slots of the ring; it holds Capacity - 1 items
          MaxItems    \* bound: try_enqueue calls that succeed

ASSUME SpscConstants ==
    /\ NoItem \notin Items
    /\ Capacity \in Nat \ {0}
    /\ MaxItems \in Nat

Slots == 0..(Capacity - 1)

VARIABLES
    buffer,      \* buffer
    writePos,    \* writePos
    readPos,     \* readPos
    readSeen,    \* the producer's last view of readPos
    writeSeen,   \* the consumer's last view of writePos
    ppc,         \* where the producer is in try_enqueue
    pitem,       \* the argument of try_enqueue
    cpc,         \* where the consumer is in try_dequeue
    citem,       \* the item try_dequeue moved out
    sent,        \* history: items whose try_enqueue published them
    received     \* history: items whose try_dequeue completed

producerVars == <<ppc, pitem, sent, writePos>>
consumerVars == <<cpc, citem, received, readPos>>
vars == <<buffer, readSeen, writeSeen, producerVars, consumerVars>>

Init ==
    /\ buffer = [p \in Slots |-> NoItem]
    /\ writePos = 0 /\ readPos = 0 /\ readSeen = 0 /\ writeSeen = 0
    /\ ppc = "idle" /\ pitem = NoItem /\ sent = <<>>
    /\ cpc = "idle" /\ citem = NoItem /\ received = <<>>

\* Mutant: the position is not wrapped.
SuccNoWrap(p) == p + 1

Succ(p) == (p + 1) % Capacity
------------------------------------------------------------------------------
\* Another store to the other side's position becomes visible.
SeeRead ==
    /\ readSeen # readPos
    /\ readSeen' = Succ(readSeen)
    /\ UNCHANGED <<buffer, writeSeen, producerVars, consumerVars>>

SeeWrite ==
    /\ writeSeen # writePos
    /\ writeSeen' = Succ(writeSeen)
    /\ UNCHANGED <<buffer, readSeen, producerVars, consumerVars>>

\* Mutant: the ring is taken to be full only when every slot is used.
EnqueueFillsRing(v) ==
    /\ ppc = "idle" /\ Len(sent) < MaxItems
    /\ pitem' = v
    /\ ppc' = "write"
    /\ UNCHANGED <<buffer, readSeen, writeSeen, sent, writePos, consumerVars>>

\* Mutant: writePos is stored before the slot is written.
EnqueuePublishesFirst(v) ==
    /\ ppc = "idle" /\ Len(sent) < MaxItems
    /\ Succ(writePos) # readSeen
    /\ pitem' = v
    /\ ppc' = "write"
    /\ writePos' = Succ(writePos)
    /\ sent' = Append(sent, v)
    /\ UNCHANGED <<buffer, readSeen, writeSeen, consumerVars>>

\* try_enqueue finds room: nextW differs from readPos.
EnqueueCheck(v) ==
    /\ ppc = "idle" /\ Len(sent) < MaxItems
    /\ Succ(writePos) # readSeen
    /\ pitem' = v
    /\ ppc' = "write"
    /\ UNCHANGED <<buffer, readSeen, writeSeen, sent, writePos, consumerVars>>

\* try_enqueue finds the ring full and returns false.
EnqueueFull ==
    /\ ppc = "idle"
    /\ Succ(writePos) = readSeen
    /\ UNCHANGED vars

\* buffer[w] = std::move(item)
EnqueueWrite ==
    /\ ppc = "write"
    /\ buffer' = [buffer EXCEPT ![writePos] = pitem]
    /\ ppc' = "publish"
    /\ UNCHANGED <<readSeen, writeSeen, pitem, sent, writePos, consumerVars>>

\* writePos.store(nextW, release)
EnqueuePublish ==
    /\ ppc = "publish"
    /\ writePos' = Succ(writePos)
    /\ sent' = Append(sent, pitem)
    /\ ppc' = "idle"
    /\ UNCHANGED <<buffer, readSeen, writeSeen, pitem, consumerVars>>
------------------------------------------------------------------------------
\* try_dequeue finds an item: readPos differs from writePos.
DequeueCheck ==
    /\ cpc = "idle"
    /\ readPos # writeSeen
    /\ cpc' = "move"
    /\ UNCHANGED <<buffer, readSeen, writeSeen, producerVars, citem, received, readPos>>

\* try_dequeue (or empty()) finds the ring empty.
DequeueEmpty ==
    /\ cpc = "idle"
    /\ readPos = writeSeen
    /\ UNCHANGED vars

\* item = std::move(buffer[r])
DequeueMove ==
    /\ cpc = "move"
    /\ citem' = buffer[readPos]
    /\ buffer' = [buffer EXCEPT ![readPos] = NoItem]
    /\ cpc' = "advance"
    /\ UNCHANGED <<readSeen, writeSeen, producerVars, received, readPos>>

\* readPos.store((r + 1) % Capacity, release)
DequeueAdvance ==
    /\ cpc = "advance"
    /\ readPos' = Succ(readPos)
    /\ received' = Append(received, citem)
    /\ cpc' = "idle"
    /\ UNCHANGED <<buffer, readSeen, writeSeen, producerVars, citem>>
------------------------------------------------------------------------------
Next ==
    \/ SeeRead \/ SeeWrite
    \/ \E v \in Items : EnqueueCheck(v)
    \/ EnqueueFull \/ EnqueueWrite \/ EnqueuePublish
    \/ DequeueCheck \/ DequeueEmpty \/ DequeueMove \/ DequeueAdvance

Spec == Init /\ [][Next]_vars
------------------------------------------------------------------------------
\* The variables have their types.
TypeOK ==
    /\ buffer \in [Slots -> Items \cup {NoItem}]
    /\ writePos \in Slots /\ readPos \in Slots
    /\ readSeen \in Slots /\ writeSeen \in Slots
    /\ ppc \in {"idle", "write", "publish"} /\ pitem \in Items \cup {NoItem}
    /\ cpc \in {"idle", "move", "advance"} /\ citem \in Items \cup {NoItem}
    /\ sent \in Seq(Items) /\ received \in Seq(Items \cup {NoItem})

\* How many slots lie from position a up to, and without, position b.
Dist(a, b) == IF a <= b THEN b - a ELSE (b + Capacity) - a

\* The four positions lie on the ring in the order readSeen, readPos,
\* writeSeen, writePos, and the last never laps the first.
RingOrder ==
    Dist(readSeen, readPos) + Dist(readPos, writeSeen) + Dist(writeSeen, writePos) < Capacity

\* What a thread found in its check still holds when it acts on it.
ChecksHold ==
    /\ ppc # "idle" => Succ(writePos) # readSeen
    /\ cpc # "idle" => readPos # writeSeen

\* The threads never access the same slot of the plain array at the same time,
\* however late each sees the other's position: try_enqueue writes buffer[w]
\* only while no try_dequeue can move from it (SpscQueue.h, the checks and the
\* acquire/release pairs).
NoSlotConflict == (ppc = "write" /\ cpc = "move") => writePos # readPos

\* The slots between the positions hold the items under way, in order.
Contents ==
    /\ Len(sent) = Len(received) + Dist(readPos, writePos)
    /\ ppc = "write" => pitem \in Items
    /\ ppc = "publish" => pitem \in Items /\ buffer[writePos] = pitem
    /\ cpc = "advance" => citem = sent[Len(received) + 1]
    /\ \A p \in Slots :
          Dist(readPos, p) < Dist(readPos, writePos) /\ ~(cpc = "advance" /\ p = readPos)
             => buffer[p] = sent[Len(received) + Dist(readPos, p) + 1]

\* The inductive invariant of the ring.
IInv == TypeOK /\ RingOrder /\ ChecksHold /\ Contents

\* The ring is a bounded queue: nothing is lost, repeated or reordered between
\* try_enqueue and try_dequeue.
Fifo == INSTANCE BoundedFifo WITH Bound <- Capacity - 1
FifoSpec == Fifo!Spec
==============================================================================
