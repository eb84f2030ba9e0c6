---------------------------- MODULE ReorderProofs ----------------------------
(***************************************************************************)
(* The receive path of a virtual channel delivers in order, at most once   *)
(* and only what arrived, for any number of connections, any message ids,  *)
(* any queue capacity and any timeouts.                                    *)
(***************************************************************************)
EXTENDS ReorderThread, FiniteSetTheorems, TLAPS

\* The elements of a sequence over S are in S.
LEMMA ElementFacts ==
    ASSUME NEW S, NEW s \in Seq(S)
    PROVE  /\ DOMAIN s = 1..Len(s) /\ Len(s) \in Nat
           /\ \A i \in DOMAIN s : s[i] \in S
  OBVIOUS

\* Appending keeps the old elements and adds one at the end.
LEMMA AppendFacts ==
    ASSUME NEW S, NEW s \in Seq(S), NEW x \in S
    PROVE  /\ Append(s, x) \in Seq(S)
           /\ DOMAIN Append(s, x) = 1..(Len(s) + 1)
           /\ DOMAIN s = 1..Len(s) /\ Len(s) \in Nat
           /\ \A i \in DOMAIN s : Append(s, x)[i] = s[i]
           /\ Append(s, x)[Len(s) + 1] = x
  OBVIOUS

\* The head of a nonempty sequence is its first element, the tail the others.
LEMMA HeadTailFacts ==
    ASSUME NEW S, NEW s \in Seq(S), s # <<>>
    PROVE  /\ Len(s) \in Nat \ {0}
           /\ DOMAIN s = 1..Len(s)
           /\ 1 \in DOMAIN s
           /\ Head(s) = s[1] /\ Head(s) \in S
           /\ Tail(s) \in Seq(S)
           /\ DOMAIN Tail(s) = 1..(Len(s) - 1)
           /\ \A i \in DOMAIN Tail(s) : Tail(s)[i] = s[i + 1] /\ i + 1 \in DOMAIN s
  OBVIOUS
------------------------------------------------------------------------------
\* The messages, wherever they are.
dataVars == <<queues, arrived, notified, orderVars>>

\* sendMissingNotifications reports only ids of a gap: at or above
\* nextMessageId and below a buffered id.
LEMMA MissingInGap ==
    ASSUME DataTypes
    PROVE  \A id \in MissingIds : id \in Nat /\ next <= id /\ \E k \in buffered : id < k
<1> SUFFICES ASSUME NEW id \in MissingIds
             PROVE  id \in Nat /\ next <= id /\ \E k \in buffered : id < k
  OBVIOUS
<1>1. PICK p \in Pushes : p[2] = id
  BY Zenon DEF MissingIds
<1>2. PICK k \in buffered : p \in {k} \X {x \in next..(k - 1) : x \notin notified}
  BY Zenon, <1>1 DEF Pushes
<1>3. id \in next..(k - 1)
  BY <1>1, <1>2
<1>4. k \in Nat /\ next \in Nat
  BY ReorderConstants DEF DataTypes
<1> QED
  BY <1>3, <1>4

\* No step gives a flag a value that is not Boolean.
LEMMA FlagTypesStep == FlagTypes /\ [Next]_vars => FlagTypes'
<1> SUFFICES ASSUME FlagTypes, [Next]_vars PROVE FlagTypes'
  OBVIOUS
<1> USE DEF FlagTypes, vars, ioVars, gapVars, orderVars, waitVars, ctlVars
<1>1. ASSUME NEW c \in Conns, NEW id \in MsgIds, PushReceived(c, id) PROVE FlagTypes'
  BY <1>1, Zenon DEF PushReceived
<1>2. CASE IoThread
  BY <1>2, Zenon DEF IoThread, CountReceived, NotifyReceived, IoExit
<1>3. CASE Dequeue
  BY <1>3, Zenon DEF Dequeue, LoopTop, ScanTake, ScanNext, LoadSeq
<1>4. CASE Reorder
  BY <1>4, Zenon DEF Reorder, DrainOne, DrainDone, NoGap, StartGapTimer, KeepGapTimer,
     SkipGap, NotifyNothing, NotifyMissing, DeliverOne, DeliverDone
<1>5. CASE Sleep \/ SpuriousWake
  BY <1>5, Zenon DEF Sleep, ChooseWait, CheckPredicate, FallAsleep, WaitExpires, SpuriousWake
<1>6. CASE Tick \/ AllConnectionsDead \/ CloseBegin \/ Close
  BY <1>6, Zenon DEF Tick, AllConnectionsDead, CloseBegin, Close, CloseJoinIo, CloseStopReorder,
     CloseNotify, CloseJoin
<1>7. CASE UNCHANGED vars
  BY <1>7, Zenon
<1> QED
  BY <1>1, <1>2, <1>3, <1>4, <1>5, <1>6, <1>7 DEF Next, Closed

\* The threads stay within their program points.
LEMMA PcTypesStep == PcTypes /\ [Next]_vars => PcTypes'
<1> SUFFICES ASSUME PcTypes, [Next]_vars PROVE PcTypes'
  OBVIOUS
<1> USE DEF PcTypes, RPcs, IoPcs, ClosePcs, vars, ioVars, ctlVars
<1>1. ASSUME NEW c \in Conns, NEW id \in MsgIds, PushReceived(c, id) PROVE PcTypes'
  BY <1>1 DEF PushReceived
<1>2. CASE IoThread
  BY <1>2 DEF IoThread, CountReceived, NotifyReceived, NotifyOne, IoExit
<1>3. CASE Dequeue
  BY <1>3 DEF Dequeue, LoopTop, ScanTake, ScanNext, LoadSeq
<1>4. CASE Reorder
  BY <1>4 DEF Reorder, DrainOne, DrainDone, NoGap, StartGapTimer, KeepGapTimer,
     SkipGap, NotifyNothing, NotifyMissing, DeliverOne, DeliverDone
<1>5. CASE Sleep \/ SpuriousWake
  BY <1>5 DEF Sleep, ChooseWait, CheckPredicate, FallAsleep, WaitExpires, SpuriousWake
<1>6. CASE Tick \/ AllConnectionsDead \/ CloseBegin \/ Close
  BY <1>6 DEF Tick, AllConnectionsDead, CloseBegin, Close, CloseJoinIo, CloseStopReorder,
     CloseNotify, NotifyOne, CloseJoin
<1>7. CASE UNCHANGED vars
  BY <1>7
<1> QED
  BY <1>1, <1>2, <1>3, <1>4, <1>5, <1>6, <1>7 DEF Next, Closed

\* Queues, buffers and counters keep their types.
LEMMA DataTypesStep == DataTypes /\ [Next]_vars => DataTypes'
<1> SUFFICES ASSUME DataTypes, [Next]_vars PROVE DataTypes'
  OBVIOUS
<1> USE ReorderConstants
        DEF DataTypes, Conns, vars, ioVars, gapVars, orderVars, waitVars
<1>1. ASSUME NEW c \in Conns, NEW id \in MsgIds, PushReceived(c, id) PROVE DataTypes'
  <2>1. Append(queues[c], id) \in Seq(MsgIds)
    BY AppendFacts
  <2>2. queues' \in [Conns -> Seq(MsgIds)]
    BY <1>1, <2>1 DEF PushReceived
  <2>3. packets' \in Nat
    BY <1>1 DEF PushReceived
  <2>4. arrived' \in SUBSET MsgIds
    BY <1>1, Zenon DEF PushReceived
  <2> QED
    BY <1>1, <2>2, <2>3, <2>4 DEF PushReceived
<1>2. CASE IoThread
  <2>1. CASE CountReceived
    BY <2>1 DEF CountReceived
  <2>2. CASE NotifyReceived
    BY <2>2 DEF NotifyReceived
  <2>3. CASE IoExit
    BY <2>3 DEF IoExit
  <2> QED
    BY <1>2, <2>1, <2>2, <2>3 DEF IoThread
<1>3. CASE LoopTop \/ ScanNext \/ LoadSeq
  <2>1. CASE LoopTop
    BY <2>1 DEF LoopTop
  <2>2. CASE ScanNext
    BY <2>2 DEF ScanNext
  <2>3. CASE LoadSeq
    BY <2>3 DEF LoadSeq
  <2> QED
    BY <1>3, <2>1, <2>2, <2>3
<1>4. CASE ScanTake
  <2>1. queues[idx] \in Seq(MsgIds) /\ queues[idx] # <<>>
    BY <1>4 DEF ScanTake
  <2>2. Head(queues[idx]) \in MsgIds /\ Tail(queues[idx]) \in Seq(MsgIds)
    BY <2>1, HeadTailFacts
  <2> QED
    BY <1>4, <2>2 DEF ScanTake
<1>5. CASE DrainOne
  BY <1>5 DEF DrainOne
<1>6. CASE DrainDone \/ NoGap \/ StartGapTimer \/ KeepGapTimer \/ NotifyNothing
  <2>1. CASE DrainDone
    BY <2>1 DEF DrainDone
  <2>2. CASE NoGap
    BY <2>2 DEF NoGap
  <2>3. CASE StartGapTimer
    BY <2>3 DEF StartGapTimer
  <2>4. CASE KeepGapTimer
    BY <2>4 DEF KeepGapTimer
  <2>5. CASE NotifyNothing
    BY <2>5 DEF NotifyNothing
  <2> QED
    BY <1>6, <2>1, <2>2, <2>3, <2>4, <2>5
<1>7. CASE SkipGap
  BY <1>7 DEF SkipGap
<1>8. CASE NotifyMissing
  <2>1. MissingIds \in SUBSET Nat
    BY MissingInGap
  <2> QED
    BY <1>8, <2>1 DEF NotifyMissing
<1>9. CASE DeliverOne
  BY <1>9, HeadTailFacts DEF DeliverOne
<1>10. CASE DeliverDone \/ Sleep \/ SpuriousWake
  BY <1>10 DEF DeliverDone, Sleep, ChooseWait, CheckPredicate, FallAsleep, WaitExpires,
               SpuriousWake
<1>11. CASE Tick
  BY <1>11 DEF Tick
<1>12. CASE AllConnectionsDead \/ CloseBegin \/ Close
  BY <1>12 DEF AllConnectionsDead, CloseBegin, Close, CloseJoinIo, CloseStopReorder,
               CloseNotify, CloseJoin
<1>13. CASE UNCHANGED vars
  BY <1>13
<1> QED
  BY <1>1, <1>2, <1>3, <1>4, <1>5, <1>6, <1>7, <1>8, <1>9, <1>10, <1>11, <1>12, <1>13
     DEF Next, Dequeue, Reorder, Closed

\* The receive path's variables keep their types.
THEOREM TypeCorrect == Spec => []TypeOK
<1>1. Init => TypeOK
  <2>1. Init => FlagTypes
    BY Zenon DEF Init, FlagTypes
  <2>2. Init => PcTypes
    BY DEF Init, PcTypes, RPcs, IoPcs, ClosePcs
  <2>3. Init => DataTypes
    BY ReorderConstants DEF Init, DataTypes, Conns
  <2> QED
    BY <2>1, <2>2, <2>3 DEF TypeOK
<1>2. TypeOK /\ [Next]_vars => TypeOK'
  BY FlagTypesStep, PcTypesStep, DataTypesStep DEF TypeOK
<1>3. QED
  BY <1>1, <1>2, PTL DEF Spec
------------------------------------------------------------------------------
\* Six actions move messages; every other step leaves them where they are.
LEMMA MovingSteps ==
    ASSUME [Next]_vars
    PROVE  \/ \E c \in Conns, id \in MsgIds : PushReceived(c, id)
           \/ ScanTake \/ DrainOne \/ SkipGap \/ NotifyMissing \/ DeliverOne
           \/ UNCHANGED dataVars
<1> USE DEF dataVars, ioVars, gapVars, orderVars
<1>1. CASE IoThread
  BY <1>1, Zenon DEF IoThread, CountReceived, NotifyReceived, IoExit
<1>2. CASE LoopTop \/ ScanNext \/ LoadSeq
  BY <1>2, Zenon DEF LoopTop, ScanNext, LoadSeq
<1>3. CASE DrainDone \/ NoGap \/ StartGapTimer \/ KeepGapTimer \/ NotifyNothing \/ DeliverDone
  BY <1>3, Zenon DEF DrainDone, NoGap, StartGapTimer, KeepGapTimer, NotifyNothing, DeliverDone
<1>4. CASE Sleep \/ SpuriousWake
  BY <1>4, Zenon DEF Sleep, ChooseWait, CheckPredicate, FallAsleep, WaitExpires, SpuriousWake
<1>5. CASE Tick \/ AllConnectionsDead \/ CloseBegin \/ Close
  BY <1>5, Zenon DEF Tick, AllConnectionsDead, CloseBegin, Close, CloseJoinIo,
     CloseStopReorder, CloseNotify, CloseJoin
<1>6. CASE UNCHANGED vars
  BY <1>6, Zenon DEF vars
<1> QED
  BY <1>1, <1>2, <1>3, <1>4, <1>5, <1>6 DEF Next, Dequeue, Reorder, Closed

\* nextMessageId does not overtake a buffered message.
LEMMA BufferedAheadStep ==
    ASSUME DataTypes, BufferedAhead, [Next]_vars
    PROVE  BufferedAhead'
<1> USE ReorderConstants DEF DataTypes, BufferedAhead
<1>1. ASSUME NEW c \in Conns, NEW id \in MsgIds, PushReceived(c, id) PROVE BufferedAhead'
  BY <1>1 DEF PushReceived, orderVars
<1>2. CASE ScanTake
  BY <1>2 DEF ScanTake
<1>3. CASE DrainOne
  BY <1>3 DEF DrainOne
<1>4. CASE SkipGap
  BY <1>4 DEF SkipGap
<1>5. CASE NotifyMissing
  BY <1>5 DEF NotifyMissing, orderVars
<1>6. CASE DeliverOne
  BY <1>6 DEF DeliverOne
<1>7. CASE UNCHANGED dataVars
  BY <1>7 DEF dataVars, orderVars
<1> QED
  BY <1>1, <1>2, <1>3, <1>4, <1>5, <1>6, <1>7, MovingSteps

\* What was notified stays inside the open gap.
LEMMA NotifiedInGapStep ==
    ASSUME DataTypes, NotifiedInGap, [Next]_vars
    PROVE  NotifiedInGap'
<1> USE ReorderConstants DEF DataTypes, NotifiedInGap
<1>1. ASSUME NEW c \in Conns, NEW id \in MsgIds, PushReceived(c, id) PROVE NotifiedInGap'
  BY <1>1 DEF PushReceived, orderVars, gapVars
<1>2. CASE ScanTake
  BY <1>2 DEF ScanTake, gapVars
<1>3. CASE DrainOne
  BY <1>3 DEF DrainOne
<1>4. CASE SkipGap
  BY <1>4 DEF SkipGap
<1>5. CASE NotifyMissing
  BY <1>5, MissingInGap DEF NotifyMissing, orderVars
<1>6. CASE DeliverOne
  BY <1>6 DEF DeliverOne, gapVars
<1>7. CASE UNCHANGED dataVars
  BY <1>7 DEF dataVars, orderVars
<1> QED
  BY <1>1, <1>2, <1>3, <1>4, <1>5, <1>6, <1>7, MovingSteps

\* Deliveries, pending deliveries and nextMessageId stay in order.
LEMMA OrderedStep ==
    ASSUME DataTypes, BufferedAhead, Ordered, [Next]_vars
    PROVE  Ordered'
<1>1. /\ next \in Nat /\ items \in Seq(MsgIds) /\ delivered \in Seq(MsgIds)
      /\ MsgIds \subseteq Nat
  BY ReorderConstants DEF DataTypes
<1>2. /\ DOMAIN items = 1..Len(items) /\ Len(items) \in Nat
      /\ DOMAIN delivered = 1..Len(delivered) /\ Len(delivered) \in Nat
      /\ \A i \in DOMAIN items : items[i] \in Nat
      /\ \A i \in DOMAIN delivered : delivered[i] \in Nat
  BY <1>1, ElementFacts
<1>3. ASSUME UNCHANGED <<items, delivered>>, next' \in Nat, next <= next' PROVE Ordered'
  <2>1. items' = items /\ delivered' = delivered
    BY <1>3
  <2>2. \A i \in DOMAIN delivered : delivered[i] < next'
    BY <1>1, <1>2, <1>3 DEF Ordered
  <2>3. \A j \in DOMAIN items : items[j] < next'
    BY <1>1, <1>2, <1>3 DEF Ordered
  <2> QED
    BY <2>1, <2>2, <2>3 DEF Ordered, InOrder
<1>4. ASSUME NEW c \in Conns, NEW id \in MsgIds, PushReceived(c, id) PROVE Ordered'
  BY <1>1, <1>3, <1>4 DEF PushReceived, orderVars
<1>5. CASE ScanTake
  BY <1>1, <1>3, <1>5 DEF ScanTake
<1>6. CASE DrainOne
  <2>1. next \in MsgIds /\ items' = Append(items, next) /\ next' = next + 1
        /\ UNCHANGED delivered
    BY <1>6 DEF DrainOne, DataTypes
  <2>2. /\ DOMAIN items' = 1..(Len(items) + 1)
        /\ \A i \in DOMAIN items : items'[i] = items[i]
        /\ items'[Len(items) + 1] = next
    BY <1>1, <2>1, AppendFacts
  <2>3. \A j \in DOMAIN items' : j \in DOMAIN items \/ j = Len(items) + 1
    BY <1>2, <2>2
  <2>4. \A i, j \in DOMAIN items' : i < j => items'[i] < items'[j]
    <3> SUFFICES ASSUME NEW i \in DOMAIN items', NEW j \in DOMAIN items', i < j
                 PROVE  items'[i] < items'[j]
      OBVIOUS
    <3>1. i \in DOMAIN items
      BY <1>2, <2>2
    <3>2. CASE j \in DOMAIN items
      BY <2>2, <3>1, <3>2 DEF Ordered
    <3>3. CASE j = Len(items) + 1
      BY <2>2, <3>1, <3>3 DEF Ordered
    <3> QED
      BY <2>3, <3>2, <3>3
  <2>5. \A i \in DOMAIN delivered, j \in DOMAIN items' : delivered[i] < items'[j]
    BY <2>2, <2>3 DEF Ordered
  <2>6. /\ \A i \in DOMAIN delivered : delivered[i] < next'
        /\ \A j \in DOMAIN items' : items'[j] < next'
    BY <1>1, <1>2, <2>1, <2>2, <2>3 DEF Ordered
  <2> QED
    BY <2>1, <2>4, <2>5, <2>6 DEF Ordered, InOrder
<1>7. CASE SkipGap
  <2>1. UNCHANGED <<items, delivered>> /\ next' \in buffered
    BY <1>7 DEF SkipGap
  <2>2. next' \in Nat /\ next <= next'
    BY <1>1, <2>1 DEF BufferedAhead, DataTypes
  <2> QED
    BY <1>3, <2>1, <2>2
<1>8. CASE NotifyMissing
  BY <1>1, <1>3, <1>8 DEF NotifyMissing, orderVars
<1>9. CASE DeliverOne
  <2>1. /\ items # <<>> /\ delivered' = Append(delivered, Head(items))
        /\ items' = Tail(items) /\ UNCHANGED next
    BY <1>9 DEF DeliverOne
  <2>2. /\ 1 \in DOMAIN items /\ Head(items) = items[1] /\ Head(items) \in MsgIds
        /\ DOMAIN items' = 1..(Len(items) - 1)
        /\ \A i \in DOMAIN items' : items'[i] = items[i + 1] /\ i + 1 \in DOMAIN items
    BY <1>1, <2>1, HeadTailFacts
  <2>3. /\ DOMAIN delivered' = 1..(Len(delivered) + 1)
        /\ \A i \in DOMAIN delivered : delivered'[i] = delivered[i]
        /\ delivered'[Len(delivered) + 1] = items[1]
    BY <1>1, <2>1, <2>2, AppendFacts
  <2>4. \A i \in DOMAIN delivered' : i \in DOMAIN delivered \/ i = Len(delivered) + 1
    BY <1>2, <2>3
  <2>5. InOrder'
    <3> SUFFICES ASSUME NEW i \in DOMAIN delivered', NEW j \in DOMAIN delivered', i < j
                 PROVE  delivered'[i] < delivered'[j]
      BY DEF InOrder
    <3>1. i \in DOMAIN delivered
      BY <1>2, <2>3
    <3>2. CASE j \in DOMAIN delivered
      BY <2>3, <3>1, <3>2 DEF Ordered, InOrder
    <3>3. CASE j = Len(delivered) + 1
      BY <2>2, <2>3, <3>1, <3>3 DEF Ordered
    <3> QED
      BY <2>4, <3>2, <3>3
  <2>6. \A i, j \in DOMAIN items' : i < j => items'[i] < items'[j]
    BY <1>2, <2>2 DEF Ordered
  <2>7. \A i \in DOMAIN delivered', j \in DOMAIN items' : delivered'[i] < items'[j]
    <3> SUFFICES ASSUME NEW i \in DOMAIN delivered', NEW j \in DOMAIN items'
                 PROVE  delivered'[i] < items'[j]
      OBVIOUS
    <3>1. items'[j] = items[j + 1] /\ j + 1 \in DOMAIN items /\ 1 < j + 1
      BY <1>2, <2>2
    <3>2. CASE i \in DOMAIN delivered
      BY <2>3, <3>1, <3>2 DEF Ordered
    <3>3. CASE i = Len(delivered) + 1
      BY <2>2, <2>3, <3>1, <3>3 DEF Ordered
    <3> QED
      BY <2>4, <3>2, <3>3
  <2>8. /\ \A i \in DOMAIN delivered' : delivered'[i] < next'
        /\ \A j \in DOMAIN items' : items'[j] < next'
    BY <2>1, <2>2, <2>3, <2>4 DEF Ordered
  <2> QED
    BY <2>5, <2>6, <2>7, <2>8 DEF Ordered
<1>10. CASE UNCHANGED dataVars
  BY <1>1, <1>3, <1>10 DEF dataVars, orderVars
<1> QED
  BY <1>4, <1>5, <1>6, <1>7, <1>8, <1>9, <1>10, MovingSteps

\* What the reorder thread holds came through a queue.
LEMMA FromQueuesStep ==
    ASSUME DataTypes, FromQueues, [Next]_vars
    PROVE  FromQueues'
<1>1. /\ items \in Seq(MsgIds) /\ queues \in [Conns -> Seq(MsgIds)] /\ idx \in Conns
  BY DEF DataTypes
<1>2. ASSUME NEW c \in Conns, NEW id \in MsgIds, PushReceived(c, id) PROVE FromQueues'
  <2>1. CASE UNCHANGED queues /\ UNCHANGED arrived
    BY <1>2, <2>1 DEF PushReceived, FromQueues, orderVars
  <2>2. CASE /\ queues' = [queues EXCEPT ![c] = Append(@, id)]
             /\ arrived' = arrived \cup {id}
    <3>1. /\ DOMAIN Append(queues[c], id) = 1..(Len(queues[c]) + 1)
          /\ DOMAIN queues[c] = 1..Len(queues[c]) /\ Len(queues[c]) \in Nat
          /\ \A i \in DOMAIN queues[c] : Append(queues[c], id)[i] = queues[c][i]
          /\ Append(queues[c], id)[Len(queues[c]) + 1] = id
      BY <1>1, AppendFacts
    <3>2. \A i \in DOMAIN Append(queues[c], id) : Append(queues[c], id)[i] \in arrived'
      BY <2>2, <3>1 DEF FromQueues
    <3>3. \A d \in Conns : \A i \in DOMAIN queues'[d] : queues'[d][i] \in arrived'
      BY <1>1, <2>2, <3>2 DEF FromQueues
    <3> QED
      BY <1>2, <2>2, <3>3 DEF PushReceived, FromQueues, orderVars
  <2> QED
    BY <1>2, <2>1, <2>2 DEF PushReceived
<1>3. CASE ScanTake
  <2>1. queues[idx] \in Seq(MsgIds) /\ queues[idx] # <<>>
    BY <1>1, <1>3 DEF ScanTake
  <2>2. /\ 1 \in DOMAIN queues[idx] /\ Head(queues[idx]) = queues[idx][1]
        /\ \A i \in DOMAIN Tail(queues[idx]) :
               Tail(queues[idx])[i] = queues[idx][i + 1] /\ i + 1 \in DOMAIN queues[idx]
    BY <2>1, HeadTailFacts
  <2>3. /\ queues' = [queues EXCEPT ![idx] = Tail(@)]
        /\ buffered' \subseteq buffered \cup {Head(queues[idx])}
        /\ UNCHANGED <<items, arrived>>
    BY <1>3 DEF ScanTake, ioVars
  <2>4. \A d \in Conns : \A i \in DOMAIN queues'[d] : queues'[d][i] \in arrived'
    BY <1>1, <2>2, <2>3 DEF FromQueues
  <2>5. buffered' \subseteq arrived'
    BY <1>1, <2>2, <2>3 DEF FromQueues
  <2> QED
    BY <2>3, <2>4, <2>5 DEF FromQueues
<1>4. CASE DrainOne
  <2>1. /\ next \in MsgIds /\ next \in arrived /\ items' = Append(items, next)
        /\ buffered' \subseteq buffered /\ UNCHANGED <<queues, arrived>>
    BY <1>4 DEF DrainOne, DataTypes, FromQueues, ioVars
  <2>2. \A j \in DOMAIN items' : items'[j] \in arrived
    BY <1>1, <2>1, AppendFacts DEF FromQueues
  <2> QED
    BY <2>1, <2>2 DEF FromQueues
<1>5. CASE SkipGap
  BY <1>5 DEF SkipGap, FromQueues, ioVars
<1>6. CASE NotifyMissing
  BY <1>6 DEF NotifyMissing, FromQueues, orderVars, ioVars
<1>7. CASE DeliverOne
  <2>1. items # <<>> /\ items' = Tail(items) /\ UNCHANGED <<queues, buffered, arrived>>
    BY <1>7 DEF DeliverOne, ioVars
  <2>2. \A j \in DOMAIN items' : items'[j] \in arrived
    BY <1>1, <2>1, HeadTailFacts DEF FromQueues
  <2> QED
    BY <2>1, <2>2 DEF FromQueues
<1>8. CASE UNCHANGED dataVars
  BY <1>8 DEF dataVars, orderVars, FromQueues
<1> QED
  BY <1>2, <1>3, <1>4, <1>5, <1>6, <1>7, <1>8, MovingSteps

\* The receive path delivers in order and at most once, never skips a buffered
\* message and keeps its record of notified ids inside the open gap: the
\* inductive invariant holds in every reachable state.
THEOREM Invariance == Spec => []IInv
<1>1. Init => BufferedAhead /\ Ordered /\ FromQueues /\ NotifiedInGap
  BY DEF Init, BufferedAhead, Ordered, InOrder, FromQueues, NotifiedInGap
<1>2. TypeOK /\ IInv /\ [Next]_vars => BufferedAhead' /\ Ordered' /\ FromQueues' /\ NotifiedInGap'
  BY BufferedAheadStep, OrderedStep, FromQueuesStep, NotifiedInGapStep DEF TypeOK, IInv
<1>3. IInv <=> TypeOK /\ BufferedAhead /\ Ordered /\ FromQueues /\ NotifiedInGap
  BY DEF IInv
<1>4. QED
  BY <1>1, <1>2, <1>3, TypeCorrect, PTL DEF Spec

\* The receive callback sees strictly increasing message ids.
THEOREM DeliveryInOrder == Spec => []InOrder
<1>1. IInv => InOrder
  BY DEF IInv, Ordered
<1>2. QED
  BY <1>1, Invariance, PTL

\* The timeout skip gives up only on ids that are not buffered.
THEOREM BufferedNotSkipped == Spec => []BufferedAhead
<1>1. IInv => BufferedAhead
  BY DEF IInv
<1>2. QED
  BY <1>1, Invariance, PTL

\* notifiedMissingIds only holds ids of the open gap.
THEOREM NotifiedStaysInGap == Spec => []NotifiedInGap
<1>1. IInv => NotifiedInGap
  BY DEF IInv
<1>2. QED
  BY <1>1, Invariance, PTL

\* The receive path implements the ordered stream: every step hands over one
\* arrived message newer than all handed over before, lets one message arrive,
\* or changes nothing the user sees.
THEOREM ImplementsStream == Spec => StreamSpec
<1>1. Init => Stream!Init
  BY DEF Init, Stream!Init
<1>2. IInv /\ [Next]_vars => [Stream!Next]_Stream!vars
  <2> SUFFICES ASSUME IInv, [Next]_vars PROVE [Stream!Next]_Stream!vars
    OBVIOUS
  <2> USE DEF Stream!vars
  <2>1. ASSUME NEW c \in Conns, NEW id \in MsgIds, PushReceived(c, id)
        PROVE  [Stream!Next]_Stream!vars
    <3>1. Stream!Arrive(id) \/ UNCHANGED <<arrived, delivered>>
      BY <2>1 DEF PushReceived, Stream!Arrive, orderVars
    <3> QED
      BY <3>1 DEF Stream!Next
  <2>2. CASE ScanTake
    BY <2>2 DEF ScanTake, ioVars
  <2>3. CASE DrainOne
    BY <2>3 DEF DrainOne, ioVars
  <2>4. CASE SkipGap
    BY <2>4 DEF SkipGap, ioVars
  <2>5. CASE NotifyMissing
    BY <2>5 DEF NotifyMissing, ioVars, orderVars
  <2>6. CASE DeliverOne
    <3>1. items \in Seq(MsgIds) /\ items # <<>>
      BY <2>6 DEF DeliverOne, IInv, TypeOK, DataTypes
    <3>2. 1 \in DOMAIN items /\ Head(items) = items[1] /\ Head(items) \in MsgIds
      BY <3>1, HeadTailFacts
    <3>3. Head(items) \in arrived
      BY <3>2 DEF IInv, FromQueues
    <3>4. \A i \in DOMAIN delivered : delivered[i] < Head(items)
      BY <3>2 DEF IInv, Ordered
    <3>5. Stream!Emit(Head(items))
      BY <2>6, <3>3, <3>4 DEF DeliverOne, Stream!Emit, ioVars
    <3> QED
      BY <3>2, <3>5 DEF Stream!Next
  <2>7. CASE UNCHANGED dataVars
    BY <2>7 DEF dataVars, orderVars
  <2> QED
    BY <2>1, <2>2, <2>3, <2>4, <2>5, <2>6, <2>7, MovingSteps
<1>3. QED
  BY <1>1, <1>2, Invariance, PTL DEF Spec, StreamSpec, Stream!Spec
------------------------------------------------------------------------------
\* The image of a finite set under a function is finite and not larger.
LEMMA ImageFinite ==
    ASSUME NEW S, IsFiniteSet(S), NEW f, DOMAIN f = S
    PROVE  /\ IsFiniteSet({f[x] : x \in S})
           /\ Cardinality({f[x] : x \in S}) <= Cardinality(S)
<1> DEFINE T == {f[x] : x \in S}
           g == [x \in S |-> f[x]]
<1>1. g \in Surjection(S, T)
  BY DEF Surjection
<1> QED
  BY <1>1, FS_Surjection

\* What sendMissingNotifications may push is a finite set of pairs.
LEMMA PushesFinite ==
    ASSUME DataTypes, IsFiniteSet(buffered)
    PROVE  IsFiniteSet(Pushes)
<1> DEFINE gap == [k \in buffered |-> next..(k - 1)]
           gaps == {gap[k] : k \in buffered}
<1>1. IsFiniteSet(gaps)
  BY ImageFinite
<1>2. \A k \in buffered : IsFiniteSet(gap[k])
  BY ReorderConstants, FS_Interval DEF DataTypes
<1>3. IsFiniteSet(UNION gaps)
  <2>1. \A T \in gaps : IsFiniteSet(T)
    BY <1>2
  <2> HIDE DEF gaps
  <2> QED
    BY <1>1, <2>1, FS_UNION
<1>4. IsFiniteSet(buffered \X UNION gaps)
  <2> HIDE DEF gaps
  <2> QED
    BY <1>3, FS_Product
<1>5. Pushes \subseteq buffered \X UNION gaps
  <2> SUFFICES ASSUME NEW p \in Pushes PROVE p \in buffered \X UNION gaps
    OBVIOUS
  <2>1. PICK k \in buffered : p \in {k} \X {id \in next..(k - 1) : id \notin notified}
    BY Zenon DEF Pushes
  <2>2. p[1] = k /\ p[2] \in gap[k] /\ p = <<p[1], p[2]>>
    BY <2>1
  <2> QED
    BY <2>2
<1> QED
  BY <1>4, <1>5, FS_Subset

\* A notification lists at most MaxMissing ids: the pushes before a push that is
\* made are fewer, and no two pushes have the same number of pushes before them.
LEMMA MissingBounded ==
    ASSUME DataTypes, IsFiniteSet(buffered)
    PROVE  IsFiniteSet(MissingIds) /\ Cardinality(MissingIds) <= MaxMissing
<1> DEFINE before(r) == {q \in Pushes : PushedBefore(q, r)}
           rank == [r \in Pushes |-> Cardinality(before(r))]
           made == {r \in Pushes : rank[r] < MaxMissing}
           limit == 0..(MaxMissing - 1)
           f == [r \in made |-> rank[r]]
           id == [r \in made |-> r[2]]
<1>1. \A r \in Pushes : r[1] \in Nat /\ r[2] \in Nat /\ r = <<r[1], r[2]>>
  <2> SUFFICES ASSUME NEW r \in Pushes
               PROVE  r[1] \in Nat /\ r[2] \in Nat /\ r = <<r[1], r[2]>>
    OBVIOUS
  <2>1. PICK k \in buffered : r \in {k} \X {x \in next..(k - 1) : x \notin notified}
    BY Zenon DEF Pushes
  <2>2. k \in Nat /\ next \in Nat
    BY ReorderConstants DEF DataTypes
  <2>3. r[1] = k /\ r[2] \in next..(k - 1) /\ r = <<r[1], r[2]>>
    BY <2>1
  <2> QED
    BY <2>2, <2>3
<1>2. \A r \in Pushes : IsFiniteSet(before(r)) /\ Cardinality(before(r)) \in Nat
  BY PushesFinite, FS_Subset, FS_CardinalityType
<1>3. ASSUME NEW r \in Pushes, NEW u \in Pushes, PushedBefore(r, u)
      PROVE  Cardinality(before(r)) < Cardinality(before(u))
  <2>1. \A q \in Pushes : PushedBefore(q, r) => PushedBefore(q, u)
    <3> SUFFICES ASSUME NEW q \in Pushes, PushedBefore(q, r) PROVE PushedBefore(q, u)
      OBVIOUS
    <3>1. /\ q[1] \in Nat /\ q[2] \in Nat /\ r[1] \in Nat /\ r[2] \in Nat
          /\ u[1] \in Nat /\ u[2] \in Nat
      BY <1>1
    <3> QED
      BY <1>3, <3>1 DEF PushedBefore
  <2>2. ~PushedBefore(r, r)
    <3>1. r[1] \in Nat /\ r[2] \in Nat
      BY <1>1
    <3> QED
      BY <3>1 DEF PushedBefore
  <2>3. before(r) \subseteq before(u) /\ r \in before(u) /\ r \notin before(r)
    BY <1>3, <2>1, <2>2, Zenon
  <2> HIDE DEF before
  <2>4. /\ Cardinality(before(r)) <= Cardinality(before(u))
        /\ Cardinality(before(r)) # Cardinality(before(u))
    BY <1>2, <2>3, FS_Subset
  <2> QED
    BY <1>2, <2>4
<1>4. \A r \in made : r \in Pushes /\ f[r] = Cardinality(before(r)) /\ f[r] \in limit
  BY <1>2, ReorderConstants
<1>5. f \in Injection(made, limit)
  <2>1. f \in [made -> limit]
    BY <1>4
  <2>2. ASSUME NEW r \in made, NEW u \in made, f[r] = f[u]
        PROVE  r = u
    <3> HIDE DEF f, made, before
    <3>1. r \in Pushes /\ u \in Pushes
      BY <1>4
    <3>2. ~PushedBefore(r, u) /\ ~PushedBefore(u, r)
      BY <1>2, <1>3, <1>4, <2>2, <3>1
    <3>3. r[1] \in Nat /\ r[2] \in Nat /\ u[1] \in Nat /\ u[2] \in Nat
      BY <1>1, <3>1
    <3>4. r[1] = u[1] /\ r[2] = u[2]
      BY <3>2, <3>3 DEF PushedBefore
    <3> QED
      BY <1>1, <3>1, <3>4
  <2> QED
    BY <2>1, <2>2 DEF Injection, IsInjective
<1>6. IsFiniteSet(limit) /\ Cardinality(limit) = MaxMissing
  BY FS_Interval, ReorderConstants
<1>7. IsFiniteSet(made) /\ Cardinality(made) <= MaxMissing
  <2> HIDE DEF made, limit, f
  <2> QED
    BY <1>5, <1>6, FS_Injection
<1>8. MissingIds = {id[r] : r \in made}
  BY Zenon DEF MissingIds
<1>9. DOMAIN id = made
  OBVIOUS
<1>10. IsFiniteSet(MissingIds) /\ Cardinality(MissingIds) <= Cardinality(made)
  <2> HIDE DEF made, id
  <2> QED
    BY <1>7, <1>8, <1>9, ImageFinite
<1> QED
  BY <1>7, <1>10, FS_CardinalityType, ReorderConstants

\* The sets whose sizes are compared are finite.
SetsFinite == IsFiniteSet(buffered) /\ IsFiniteSet(notified)

\* Only NotifyMissing adds to notifiedMissingIds, and it empties the set first
\* when it is above the cap.
LEMMA BoundStep ==
    ASSUME TypeOK, SetsFinite, NotifiedBounded, [Next]_vars
    PROVE  SetsFinite' /\ NotifiedBounded'
<1> USE DEF SetsFinite, NotifiedBounded
<1>1. Cardinality(notified) \in Nat
  BY FS_CardinalityType
<1>2. ASSUME NEW c \in Conns, NEW id \in MsgIds, PushReceived(c, id)
      PROVE  SetsFinite' /\ NotifiedBounded'
  BY <1>2 DEF PushReceived, orderVars, gapVars
<1>3. CASE ScanTake
  <2>1. UNCHANGED notified /\ \E id \in {Head(queues[idx])} : buffered' \in {buffered, buffered \cup {id}}
    BY <1>3 DEF ScanTake, gapVars
  <2> QED
    BY <2>1, FS_AddElement
<1>4. CASE DrainOne
  <2>1. notified' = notified \ {next} /\ buffered' = buffered \ {next}
    BY <1>4 DEF DrainOne
  <2>2. /\ IsFiniteSet(notified \ {next}) /\ IsFiniteSet(buffered \ {next})
        /\ Cardinality(notified \ {next}) \in {Cardinality(notified), Cardinality(notified) - 1}
    BY FS_RemoveElement
  <2> QED
    BY <1>1, <2>1, <2>2, ReorderConstants
<1>5. CASE SkipGap
  BY <1>5, FS_EmptySet, ReorderConstants DEF SkipGap
<1>6. CASE NotifyMissing
  <2> DEFINE kept == IF Cardinality(notified) > NotifiedCap THEN {} ELSE notified
  <2>1. notified' = MissingIds \cup kept /\ UNCHANGED buffered
    BY <1>6 DEF NotifyMissing, orderVars
  <2>2. IsFiniteSet(kept) /\ Cardinality(kept) <= NotifiedCap /\ Cardinality(kept) \in Nat
    BY <1>1, FS_EmptySet, ReorderConstants
  <2>3. IsFiniteSet(MissingIds) /\ Cardinality(MissingIds) <= MaxMissing
    BY MissingBounded DEF TypeOK
  <2> HIDE DEF kept
  <2>4. Cardinality(MissingIds) \in Nat /\ Cardinality(MissingIds \cap kept) \in Nat
    BY <2>3, FS_CardinalityType, FS_Intersection
  <2>5. /\ IsFiniteSet(MissingIds \cup kept)
        /\ Cardinality(MissingIds \cup kept)
             = Cardinality(MissingIds) + Cardinality(kept) - Cardinality(MissingIds \cap kept)
    BY <2>2, <2>3, FS_Union
  <2> QED
    BY <2>1, <2>2, <2>3, <2>4, <2>5, ReorderConstants
<1>7. CASE DeliverOne
  BY <1>7 DEF DeliverOne, gapVars
<1>8. CASE UNCHANGED dataVars
  BY <1>8 DEF dataVars, orderVars
<1> QED
  BY <1>2, <1>3, <1>4, <1>5, <1>6, <1>7, <1>8, MovingSteps

\* notifiedMissingIds exceeds its cap by at most one notification, however the
\* packets arrive and whatever the capacity, the cap and the limit are.
THEOREM NotifiedStaysBounded == Spec => []NotifiedBounded
<1>1. Init => SetsFinite /\ NotifiedBounded
  BY FS_EmptySet, ReorderConstants DEF Init, SetsFinite, NotifiedBounded
<1>2. TypeOK /\ SetsFinite /\ NotifiedBounded /\ [Next]_vars
          => SetsFinite' /\ NotifiedBounded'
  BY BoundStep
<1>3. QED
  BY <1>1, <1>2, TypeCorrect, PTL DEF Spec

\* A message that is buffered is not lost: it leaves receivedDataMap only into
\* itemsToDeliver, and that only into receiveCallback.
THEOREM BufferedKept == Spec => BufferedNeverLost
<1> DEFINE Kept == /\ buffered \ buffered' \subseteq Elements(items')
                   /\ Elements(items) \ Elements(items') \subseteq Elements(delivered')
<1>1. TypeOK /\ [Next]_vars => [Kept]_vars
  <2> SUFFICES ASSUME TypeOK, [Next]_vars PROVE Kept
    OBVIOUS
  <2>1. /\ next \in Nat /\ items \in Seq(MsgIds) /\ delivered \in Seq(MsgIds)
        /\ buffered \subseteq MsgIds
    BY DEF TypeOK, DataTypes
  <2>2. ASSUME NEW c \in Conns, NEW id \in MsgIds, PushReceived(c, id) PROVE Kept
    BY <2>2 DEF PushReceived, orderVars, Elements
  <2>3. CASE ScanTake
    BY <2>3 DEF ScanTake, Elements
  <2>4. CASE DrainOne
    <3>1. /\ next \in MsgIds /\ buffered' = buffered \ {next} /\ items' = Append(items, next)
      BY <2>1, <2>4 DEF DrainOne
    <3>2. \A i \in DOMAIN items : i \in DOMAIN items' /\ items'[i] = items[i]
      BY <2>1, <3>1, AppendFacts
    <3>3. Len(items) + 1 \in DOMAIN items' /\ items'[Len(items) + 1] = next
      BY <2>1, <3>1, AppendFacts
    <3> QED
      BY <3>1, <3>2, <3>3 DEF Elements
  <2>5. CASE SkipGap
    BY <2>5 DEF SkipGap, Elements
  <2>6. CASE NotifyMissing
    BY <2>6 DEF NotifyMissing, orderVars, Elements
  <2>7. CASE DeliverOne
    <3>1. /\ items # <<>> /\ items' = Tail(items) /\ UNCHANGED buffered
          /\ delivered' = Append(delivered, items[1])
      BY <2>1, <2>7, HeadTailFacts DEF DeliverOne
    <3>2. items[1] \in MsgIds
      BY <2>1, <3>1, HeadTailFacts
    <3>3. Len(delivered) + 1 \in DOMAIN delivered' /\ delivered'[Len(delivered) + 1] = items[1]
      BY <2>1, <3>1, <3>2, AppendFacts
    <3>4. \A i \in DOMAIN items : i = 1 \/ (i - 1 \in DOMAIN items' /\ items'[i - 1] = items[i])
      <4>1. /\ Len(items) \in Nat /\ DOMAIN items = 1..Len(items)
            /\ DOMAIN items' = 1..(Len(items) - 1)
            /\ \A i \in DOMAIN items' : items'[i] = items[i + 1]
        BY <2>1, <3>1, HeadTailFacts
      <4> TAKE i \in DOMAIN items
      <4>2. i # 1 => i - 1 \in DOMAIN items' /\ i = (i - 1) + 1
        BY <4>1
      <4> QED
        BY <4>1, <4>2
    <3>5. ASSUME NEW x \in Elements(items) PROVE x \in Elements(items') \/ x \in Elements(delivered')
      <4>1. PICK i \in DOMAIN items : x = items[i]
        BY DEF Elements
      <4>2. CASE i = 1
        BY <3>3, <4>1, <4>2, Zenon DEF Elements
      <4>3. CASE i # 1
        BY <3>4, <4>1, <4>3, Zenon DEF Elements
      <4> QED
        BY <4>2, <4>3
    <3> QED
      BY <3>1, <3>5
  <2>8. CASE UNCHANGED dataVars
    BY <2>8 DEF dataVars, orderVars, Elements
  <2> QED
    BY <2>2, <2>3, <2>4, <2>5, <2>6, <2>7, <2>8, MovingSteps
<1>2. QED
  BY <1>1, TypeCorrect, PTL DEF Spec, BufferedNeverLost
=============================================================================
