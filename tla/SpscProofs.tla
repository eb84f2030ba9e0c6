------------------------------ MODULE SpscProofs ------------------------------
(***************************************************************************)
(* Proofs about the lock-free ring, for every capacity and set of items.   *)
(***************************************************************************)
EXTENDS SpscQueue, TLAPS

USE SpscConstants

\* The successor of a slot is the next one, and wraps at Capacity.
LEMMA SuccFacts ==
    ASSUME NEW p \in Slots
    PROVE  /\ Succ(p) \in Slots
           /\ Succ(p) = IF p = Capacity - 1 THEN 0 ELSE p + 1
<1>1. CASE p = Capacity - 1
    <2>1. (p + 1) % Capacity = 0
        BY <1>1 DEF Slots
    <2> QED BY <1>1, <2>1 DEF Succ, Slots
<1>2. CASE p # Capacity - 1
    <2>1. (p + 1) % Capacity = p + 1
        BY <1>2 DEF Slots
    <2> QED BY <1>2, <2>1 DEF Succ, Slots
<1> QED BY <1>1, <1>2
------------------------------------------------------------------------------
\* Each action keeps the types.
LEMMA TypeStep == TypeOK /\ ChecksHold /\ Contents /\ [Next]_vars => TypeOK'
<1> SUFFICES ASSUME TypeOK, ChecksHold, Contents, [Next]_vars PROVE TypeOK'
    OBVIOUS
<1> USE SuccFacts DEF TypeOK
<1>1. CASE SeeRead BY <1>1 DEF SeeRead, producerVars, consumerVars
<1>2. CASE SeeWrite BY <1>2 DEF SeeWrite, producerVars, consumerVars
<1>3. CASE \E v \in Items : EnqueueCheck(v)
    BY <1>3 DEF EnqueueCheck, consumerVars
<1>4. CASE EnqueueWrite
    BY <1>4 DEF EnqueueWrite, consumerVars
<1>5. CASE EnqueuePublish
    BY <1>5 DEF EnqueuePublish, consumerVars, Contents
<1>6. CASE DequeueCheck BY <1>6 DEF DequeueCheck, producerVars
<1>7. CASE DequeueMove BY <1>7 DEF DequeueMove, producerVars
<1>8. CASE DequeueAdvance BY <1>8 DEF DequeueAdvance, producerVars
<1>9. CASE UNCHANGED vars BY <1>9 DEF vars, producerVars, consumerVars
<1> QED BY <1>1, <1>2, <1>3, <1>4, <1>5, <1>6, <1>7, <1>8, <1>9
        DEF Next, EnqueueFull, DequeueEmpty

\* The positions keep their order on the ring, and the checks keep holding:
\* only the consumer moves readSeen's bound, and it moves away from writePos.
LEMMA RingStep ==
    TypeOK /\ RingOrder /\ ChecksHold /\ [Next]_vars => (RingOrder /\ ChecksHold)'
<1> SUFFICES ASSUME TypeOK, RingOrder, ChecksHold, [Next]_vars
             PROVE  (RingOrder /\ ChecksHold)'
    OBVIOUS
<1>0. /\ writePos \in Slots /\ readPos \in Slots
      /\ readSeen \in Slots /\ writeSeen \in Slots
    BY DEF TypeOK
<1>s. /\ Succ(writePos) = IF writePos = Capacity - 1 THEN 0 ELSE writePos + 1
      /\ Succ(readPos) = IF readPos = Capacity - 1 THEN 0 ELSE readPos + 1
      /\ Succ(readSeen) = IF readSeen = Capacity - 1 THEN 0 ELSE readSeen + 1
      /\ Succ(writeSeen) = IF writeSeen = Capacity - 1 THEN 0 ELSE writeSeen + 1
    BY <1>0, SuccFacts
<1>1. CASE SeeRead
    <2>1. /\ readSeen # readPos /\ readSeen' = Succ(readSeen)
          /\ UNCHANGED <<readPos, writePos, writeSeen, ppc, cpc>>
        BY <1>1 DEF SeeRead, producerVars, consumerVars
    <2>2. RingOrder' BY <1>0, <1>s, <2>1 DEF RingOrder, Dist, Slots
    <2>3. (Succ(writePos) # readSeen)'
        BY <1>0, <1>s, <2>1 DEF RingOrder, Dist, Slots, Succ
    <2> QED BY <2>1, <2>2, <2>3 DEF ChecksHold
<1>2. CASE SeeWrite
    <2>1. /\ writeSeen # writePos /\ writeSeen' = Succ(writeSeen)
          /\ UNCHANGED <<readPos, writePos, readSeen, ppc, cpc>>
        BY <1>2 DEF SeeWrite, producerVars, consumerVars
    <2>2. RingOrder' BY <1>0, <1>s, <2>1 DEF RingOrder, Dist, Slots
    <2>3. (readPos # writeSeen)' BY <1>0, <1>s, <2>1 DEF RingOrder, Dist, Slots
    <2>4. Succ(writePos)' = Succ(writePos) BY <2>1 DEF Succ
    <2> QED BY <2>1, <2>2, <2>3, <2>4 DEF ChecksHold
<1>3. CASE \E v \in Items : EnqueueCheck(v)
    BY <1>3 DEF EnqueueCheck, consumerVars, RingOrder, ChecksHold, Dist, Succ
<1>4. CASE EnqueueWrite
    BY <1>4 DEF EnqueueWrite, consumerVars, RingOrder, ChecksHold, Dist, Succ
<1>5. CASE EnqueuePublish
    <2>1. /\ writePos' = Succ(writePos) /\ ppc' = "idle" /\ Succ(writePos) # readSeen
          /\ UNCHANGED <<readPos, readSeen, writeSeen, cpc>>
        BY <1>5 DEF EnqueuePublish, consumerVars, ChecksHold
    <2>2. RingOrder' BY <1>0, <1>s, <2>1 DEF RingOrder, Dist, Slots
    <2> QED BY <2>1, <2>2 DEF ChecksHold
<1>6. CASE DequeueCheck
    BY <1>6 DEF DequeueCheck, producerVars, RingOrder, ChecksHold, Dist, Succ
<1>7. CASE DequeueMove
    BY <1>7 DEF DequeueMove, producerVars, RingOrder, ChecksHold, Dist, Succ
<1>8. CASE DequeueAdvance
    <2>1. /\ readPos' = Succ(readPos) /\ cpc' = "idle" /\ readPos # writeSeen
          /\ UNCHANGED <<writePos, readSeen, writeSeen, ppc>>
        BY <1>8 DEF DequeueAdvance, producerVars, ChecksHold
    <2>2. RingOrder' BY <1>0, <1>s, <2>1 DEF RingOrder, Dist, Slots
    <2>3. Succ(writePos)' = Succ(writePos) BY <2>1 DEF Succ
    <2> QED BY <2>1, <2>2, <2>3 DEF ChecksHold
<1>9. CASE UNCHANGED vars
    BY <1>9 DEF vars, producerVars, consumerVars, RingOrder, ChecksHold, Dist, Succ
<1> QED BY <1>1, <1>2, <1>3, <1>4, <1>5, <1>6, <1>7, <1>8, <1>9
        DEF Next, EnqueueFull, DequeueEmpty
------------------------------------------------------------------------------
\* Dist(readPos, _) counts the slots ahead of the consumer.
LEMMA DistFacts ==
    ASSUME NEW a \in Slots, NEW b \in Slots
    PROVE  Dist(a, b) \in 0..(Capacity - 1) /\ (Dist(a, b) = 0 <=> a = b)
BY DEF Dist, Slots

\* What one step of either end does to the distance between them.
LEMMA SuccDist ==
    ASSUME NEW a \in Slots, NEW b \in Slots
    PROVE  /\ Succ(b) # a => Dist(a, Succ(b)) = Dist(a, b) + 1 /\ Dist(a, b) < Capacity - 1
           /\ a # b => Dist(Succ(a), b) + 1 = Dist(a, b)
           /\ Dist(Succ(a), a) = Capacity - 1
<1>1. Succ(a) = IF a = Capacity - 1 THEN 0 ELSE a + 1
    BY SuccFacts
<1>2. Succ(b) = IF b = Capacity - 1 THEN 0 ELSE b + 1
    BY SuccFacts
<1>3. Succ(b) # a => Dist(a, Succ(b)) = Dist(a, b) + 1 /\ Dist(a, b) < Capacity - 1
    BY <1>2 DEF Dist, Slots
<1>4. a # b => Dist(Succ(a), b) + 1 = Dist(a, b)
    BY <1>1 DEF Dist, Slots
<1>5. Dist(Succ(a), a) = Capacity - 1
    BY <1>1 DEF Dist, Slots
<1> QED BY <1>3, <1>4, <1>5

\* Between its check and its last step a try_enqueue has a slot to fill.
LEMMA SlotFree ==
    TypeOK /\ RingOrder /\ ChecksHold /\ ppc # "idle"
        => Succ(writePos) \in Slots /\ Succ(writePos) # readPos
<1> SUFFICES ASSUME TypeOK, RingOrder, ChecksHold, ppc # "idle"
             PROVE  Succ(writePos) \in Slots /\ Succ(writePos) # readPos
    OBVIOUS
<1>1. /\ Succ(writePos) \in Slots
      /\ Succ(writePos) = IF writePos = Capacity - 1 THEN 0 ELSE writePos + 1
    BY SuccFacts DEF TypeOK
<1> QED BY <1>1 DEF TypeOK, RingOrder, ChecksHold, Dist, Slots

\* Between its check and its last step a try_dequeue has an item to take.
LEMMA ItemWaiting ==
    TypeOK /\ RingOrder /\ ChecksHold /\ Contents /\ cpc # "idle"
        => readPos # writePos /\ Len(received) + 1 \in DOMAIN sent
<1> SUFFICES ASSUME TypeOK, RingOrder, ChecksHold, Contents, cpc # "idle"
             PROVE  readPos # writePos /\ Len(received) + 1 \in DOMAIN sent
    OBVIOUS
<1>1. readPos # writePos
    BY DEF TypeOK, RingOrder, ChecksHold, Dist, Slots
<1>2. Dist(readPos, writePos) \in Nat \ {0}
    BY <1>1, DistFacts DEF TypeOK
<1>3. Len(sent) = Len(received) + Dist(readPos, writePos)
    BY DEF Contents
<1>4. DOMAIN sent = 1..Len(sent) /\ Len(sent) \in Nat /\ Len(received) \in Nat
    BY DEF TypeOK
<1> QED BY <1>1, <1>2, <1>3, <1>4

\* A completed try_enqueue is the only step that adds to the contents.
LEMMA ContentsPublish ==
    TypeOK /\ RingOrder /\ ChecksHold /\ Contents /\ EnqueuePublish => Contents'
<1> SUFFICES ASSUME TypeOK, RingOrder, ChecksHold, Contents, EnqueuePublish
             PROVE  Contents'
    OBVIOUS
<1>0. /\ writePos \in Slots /\ readPos \in Slots
      /\ readSeen \in Slots /\ writeSeen \in Slots
      /\ Len(sent) \in Nat /\ Len(received) \in Nat /\ sent \in Seq(Items)
    BY DEF TypeOK
<1>1. /\ writePos' = Succ(writePos) /\ sent' = Append(sent, pitem) /\ ppc' = "idle"
      /\ UNCHANGED <<buffer, pitem, readPos, received, cpc, citem>>
      /\ pitem \in Items /\ buffer[writePos] = pitem
    BY DEF EnqueuePublish, consumerVars, Contents
<1>2. Succ(writePos) \in Slots /\ Succ(writePos) # readPos
    BY SlotFree DEF EnqueuePublish
<1>3. Dist(readPos, writePos)' = Dist(readPos, writePos) + 1
    <2>1. Dist(readPos, Succ(writePos)) = Dist(readPos, writePos) + 1
        BY <1>0, <1>2, SuccDist
    <2> QED BY <1>1, <2>1 DEF Dist
<1>4. /\ Len(sent') = Len(sent) + 1 /\ sent'[Len(sent) + 1] = pitem
      /\ \A i \in 1..Len(sent) : sent'[i] = sent[i]
    BY <1>0, <1>1
<1>5. Len(sent) = Len(received) + Dist(readPos, writePos)
    BY DEF Contents
<1>6. Len(sent)' = Len(received)' + Dist(readPos, writePos)'
    <2>1. Dist(readPos, writePos) \in Nat
        BY <1>0, DistFacts
    <2> QED BY <1>0, <1>1, <1>3, <1>4, <1>5, <2>1
<1>7. ASSUME cpc = "advance" PROVE citem = sent'[Len(received) + 1]
    <2>1. Len(received) + 1 \in 1..Len(sent)
        BY <1>0, <1>7, ItemWaiting
    <2> QED BY <1>4, <1>7, <2>1 DEF Contents
<1>8. ASSUME NEW p \in Slots,
             Dist(readPos, p) < Dist(readPos, writePos)', ~(cpc = "advance" /\ p = readPos)
      PROVE  buffer[p] = sent'[Len(received) + Dist(readPos, p) + 1]
    <2>1. CASE p = writePos
        BY <1>0, <1>1, <1>4, <1>5, <2>1
    <2>2. CASE p # writePos
        <3>1. Dist(readPos, p) # Dist(readPos, writePos)
            BY <1>0, <2>2 DEF Dist, Slots
        <3>2. Dist(readPos, p) \in Nat /\ Dist(readPos, writePos) \in Nat
            BY <1>0, DistFacts
        <3>3. Dist(readPos, p) < Dist(readPos, writePos)
            BY <1>3, <1>8, <3>1, <3>2
        <3>4. Len(received) + Dist(readPos, p) + 1 \in 1..Len(sent)
            BY <1>0, <1>5, <3>2, <3>3
        <3>5. buffer[p] = sent[Len(received) + Dist(readPos, p) + 1]
            BY <1>8, <3>3 DEF Contents
        <3> QED BY <1>4, <3>4, <3>5
    <2> QED BY <2>1, <2>2
<1>9. \A p \in Slots : Dist(readPos, p)' = Dist(readPos, p)
    BY <1>1 DEF Dist
<1> QED BY <1>1, <1>6, <1>7, <1>8, <1>9 DEF Contents

\* A completed try_dequeue takes the oldest item.
LEMMA ContentsAdvance ==
    TypeOK /\ RingOrder /\ ChecksHold /\ Contents /\ DequeueAdvance => Contents'
<1> SUFFICES ASSUME TypeOK, RingOrder, ChecksHold, Contents, DequeueAdvance
             PROVE  Contents'
    OBVIOUS
<1>0. /\ writePos \in Slots /\ readPos \in Slots
      /\ Len(sent) \in Nat /\ Len(received) \in Nat
      /\ received \in Seq(Items \cup {NoItem}) /\ citem \in Items \cup {NoItem}
    BY DEF TypeOK
<1>1. /\ readPos' = Succ(readPos) /\ received' = Append(received, citem)
      /\ cpc = "advance" /\ cpc' = "idle"
      /\ UNCHANGED <<buffer, writePos, ppc, pitem, sent>>
    BY DEF DequeueAdvance, producerVars
<1>2. readPos # writePos
    BY <1>1, ItemWaiting
<1>3. Len(received') = Len(received) + 1
    BY <1>0, <1>1
<1>4. \A p \in Slots : p # readPos => Dist(Succ(readPos), p) + 1 = Dist(readPos, p)
    BY <1>0, SuccDist
<1>5. Dist(Succ(readPos), readPos) = Capacity - 1
    BY <1>0, SuccDist
<1>6. \A p \in Slots : Dist(readPos, p)' = Dist(Succ(readPos), p)
    BY <1>1 DEF Dist
<1>7. Dist(readPos, writePos)' = Dist(Succ(readPos), writePos)
    BY <1>1 DEF Dist
<1>8. Len(sent)' = Len(received)' + Dist(readPos, writePos)'
    BY <1>0, <1>1, <1>2, <1>3, <1>4, <1>7, SuccFacts, DistFacts DEF Contents
<1>9. ASSUME NEW p \in Slots, Dist(Succ(readPos), p) < Dist(Succ(readPos), writePos)
      PROVE  buffer[p] = sent[Len(received) + 1 + Dist(Succ(readPos), p) + 1]
    <2>1. Succ(readPos) \in Slots BY <1>0, SuccFacts
    <2>2. /\ Dist(Succ(readPos), p) \in Nat /\ Dist(Succ(readPos), writePos) \in Nat
          /\ Dist(Succ(readPos), writePos) < Capacity
          /\ Dist(readPos, p) \in Nat /\ Dist(readPos, writePos) \in Nat
        BY <1>0, <2>1, DistFacts
    <2>3. p # readPos
        BY <1>5, <1>9, <2>2
    <2>4. Dist(readPos, p) < Dist(readPos, writePos)
        BY <1>0, <1>2, <1>4, <1>9, <2>2, <2>3
    <2>5. buffer[p] = sent[Len(received) + Dist(readPos, p) + 1]
        BY <2>3, <2>4 DEF Contents
    <2>6. Len(received) + 1 + Dist(Succ(readPos), p) + 1 = Len(received) + Dist(readPos, p) + 1
        BY <1>0, <1>4, <2>2, <2>3
    <2> QED BY <2>5, <2>6
<1> QED BY <1>1, <1>3, <1>6, <1>7, <1>8, <1>9 DEF Contents

\* The other steps touch only slots outside the contents.
LEMMA ContentsStep ==
    TypeOK /\ RingOrder /\ ChecksHold /\ Contents /\ [Next]_vars => Contents'
<1> SUFFICES ASSUME TypeOK, RingOrder, ChecksHold, Contents, [Next]_vars
             PROVE  Contents'
    OBVIOUS
<1>1. CASE SeeRead BY <1>1 DEF SeeRead, producerVars, consumerVars, Contents, Dist
<1>2. CASE SeeWrite BY <1>2 DEF SeeWrite, producerVars, consumerVars, Contents, Dist
<1>3. CASE \E v \in Items : EnqueueCheck(v)
    BY <1>3 DEF EnqueueCheck, consumerVars, Contents, Dist
<1>4. CASE EnqueueWrite
    <2>1. /\ buffer' = [buffer EXCEPT ![writePos] = pitem]
          /\ ppc = "write" /\ ppc' = "publish"
          /\ UNCHANGED <<pitem, sent, writePos, readPos, received, cpc, citem>>
        BY <1>4 DEF EnqueueWrite, consumerVars
    <2>2. buffer \in [Slots -> Items \cup {NoItem}] /\ writePos \in Slots /\ readPos \in Slots
        BY DEF TypeOK
    <2>3. \A p \in Slots : Dist(readPos, p) < Dist(readPos, writePos) => p # writePos
        BY <2>2, DistFacts
    <2> QED BY <2>1, <2>2, <2>3 DEF Contents, Dist
<1>5. CASE EnqueuePublish BY <1>5, ContentsPublish
<1>6. CASE DequeueCheck BY <1>6 DEF DequeueCheck, producerVars, Contents, Dist
<1>7. CASE DequeueMove
    <2>1. /\ buffer' = [buffer EXCEPT ![readPos] = NoItem] /\ citem' = buffer[readPos]
          /\ cpc = "move" /\ cpc' = "advance"
          /\ UNCHANGED <<ppc, pitem, sent, writePos, readPos, received>>
        BY <1>7 DEF DequeueMove, producerVars
    <2>2. /\ buffer \in [Slots -> Items \cup {NoItem}] /\ writePos \in Slots /\ readPos \in Slots
          /\ Len(received) \in Nat
        BY DEF TypeOK
    <2>3. readPos # writePos
        BY <2>1, ItemWaiting
    <2>4. Dist(readPos, readPos) = 0 /\ Dist(readPos, readPos) < Dist(readPos, writePos)
        BY <2>2, <2>3, DistFacts
    <2>5. citem' = sent[Len(received) + 1]
        <3>1. buffer[readPos] = sent[Len(received) + Dist(readPos, readPos) + 1]
            BY <2>1, <2>2, <2>4 DEF Contents
        <3>2. Len(received) + Dist(readPos, readPos) + 1 = Len(received) + 1
            BY <2>2, <2>4
        <3> QED BY <2>1, <3>1, <3>2
    <2>6. ppc = "publish" => buffer'[writePos] = pitem
        BY <2>1, <2>2, <2>3 DEF Contents
    <2> QED BY <2>1, <2>2, <2>5, <2>6 DEF Contents, Dist
<1>8. CASE DequeueAdvance BY <1>8, ContentsAdvance
<1>9. CASE UNCHANGED vars
    BY <1>9 DEF vars, producerVars, consumerVars, Contents, Dist
<1> QED BY <1>1, <1>2, <1>3, <1>4, <1>5, <1>6, <1>7, <1>8, <1>9
        DEF Next, EnqueueFull, DequeueEmpty
------------------------------------------------------------------------------
\* The ring's inductive invariant holds always: the positions stay in order,
\* the checks stay valid and the slots in between hold the items under way.
THEOREM RingInvariance == Spec => []IInv
<1>1. Init => IInv
    BY DEF Init, IInv, TypeOK, RingOrder, ChecksHold, Contents, Dist, Slots
<1>2. IInv /\ [Next]_vars => IInv'
    BY TypeStep, RingStep, ContentsStep DEF IInv
<1> QED BY <1>1, <1>2, PTL DEF Spec

\* The producer and the consumer never access one slot at the same time,
\* whatever the capacity and however late they see each other's position.
THEOREM SlotsDisjoint == Spec => []NoSlotConflict
<1>1. IInv => NoSlotConflict
    BY ItemWaiting DEF IInv, NoSlotConflict
<1> QED BY <1>1, RingInvariance, PTL

\* The variables of the ring keep their types.
THEOREM RingTypes == Spec => []TypeOK
<1>1. IInv => TypeOK BY DEF IInv
<1> QED BY <1>1, RingInvariance, PTL

\* The ring implements a FIFO queue that holds Capacity - 1 items.
THEOREM ImplementsFifo == Spec => FifoSpec
<1>1. Init => Fifo!Init
    BY DEF Init, Fifo!Init
<1>2. IInv /\ [Next]_vars => [Fifo!Next]_<<sent, received>>
    <2> SUFFICES ASSUME IInv, [Next]_vars PROVE [Fifo!Next]_<<sent, received>>
        OBVIOUS
    <2>1. CASE EnqueuePublish
        <3>1. /\ sent' = Append(sent, pitem) /\ received' = received
              /\ pitem \in Items
            BY <2>1 DEF EnqueuePublish, consumerVars, IInv, Contents
        <3>2. Dist(readPos, writePos) < Capacity - 1
            <4>1. Succ(writePos) # readPos /\ writePos \in Slots /\ readPos \in Slots
                BY <2>1, SlotFree DEF EnqueuePublish, IInv, TypeOK
            <4> QED BY <4>1, SuccDist
        <3>3. Len(sent) < Len(received) + (Capacity - 1)
            <4>1. /\ Dist(readPos, writePos) \in Nat
                  /\ Len(sent) \in Nat /\ Len(received) \in Nat
                BY DistFacts DEF IInv, TypeOK
            <4> QED BY <3>2, <4>1 DEF IInv, Contents
        <3> QED BY <3>1, <3>3 DEF Fifo!Next, Fifo!Put
    <2>2. CASE DequeueAdvance
        <3>1. received' = Append(received, sent[Len(received) + 1]) /\ sent' = sent
            BY <2>2 DEF DequeueAdvance, producerVars, IInv, Contents
        <3>2. Len(received) + 1 \in DOMAIN sent
            BY <2>2, ItemWaiting DEF DequeueAdvance, IInv
        <3>3. Len(received) < Len(sent)
            BY <3>2 DEF IInv, TypeOK
        <3> QED BY <3>1, <3>3 DEF Fifo!Next, Fifo!Get
    <2>3. CASE SeeRead \/ SeeWrite \/ DequeueCheck \/ DequeueMove
        BY <2>3 DEF SeeRead, SeeWrite, DequeueCheck, DequeueMove, producerVars, consumerVars
    <2>4. CASE EnqueueWrite \/ \E v \in Items : EnqueueCheck(v)
        BY <2>4 DEF EnqueueWrite, EnqueueCheck, consumerVars
    <2>5. CASE UNCHANGED vars
        BY <2>5 DEF vars, producerVars, consumerVars
    <2> QED BY <2>1, <2>2, <2>3, <2>4, <2>5 DEF Next, EnqueueFull, DequeueEmpty
<1> QED BY <1>1, <1>2, RingInvariance, PTL DEF Spec, FifoSpec, Fifo!Spec
==============================================================================
