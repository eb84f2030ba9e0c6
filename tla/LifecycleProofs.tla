--------------------------- MODULE LifecycleProofs ---------------------------
(***************************************************************************)
(* Proofs about the life of a channel, for every number of slots,          *)
(* connections and chunks: the death of the last connection is noticed,    *)
(* the end is reported once, and a close() that found the channel open     *)
(* leaves no thread and no connection behind.                              *)
(***************************************************************************)
EXTENDS VcLifecycle, SequenceTheorems, WellFoundedInduction, TLAPS

USE LifecycleConstants

\* The positions at which a thread holds disconnectMutex, and those at which it
\* has found no connection alive.
Holding == {"cbCount", "cbStop"}
Ending == {"cbStop", "cbNotify"}
Closing == {"joinSend", "joinIo", "dropAll", "closed"}

\* The types of the variables the argument is about.
ThreadTypes ==
    /\ pc \in [Threads -> Pcs] /\ ownPc \in OwnPcs
    /\ opened \in BOOLEAN /\ early \in BOOLEAN /\ wasOpen \in BOOLEAN
    /\ callbacks \in 0..1

ConnTypes ==
    /\ fd \in [Conns -> Fds \cup {None}]
    /\ made \in Conns /\ NSlots <= made
    /\ newSlot \in Slots

\* Every slot of every thread refers to a connection that was made, and the one
\* that replaceConnection is about to publish is connected and in no slot.
Published ==
    /\ conns \in [Slots -> 1..made] /\ ioConns \in [Slots -> 1..made]
    /\ sendConns \in [Slots -> 1..made] /\ snapshot \in [Slots -> 1..made]
    /\ ownPc \in {"bind", "replaceIo", "replaceSend"} => newConn \in 1..made
    /\ ownPc = "bind" =>
          /\ newConn = made /\ fd[newConn] # None
          /\ \A i \in Slots : newConn \notin {conns[i], ioConns[i], snapshot[i], sendConns[i]}

\* disconnectMutex excludes the two threads from one another.
MutexHeld == \A t \in Threads : pc[t] \in Holding => mutex = t

\* The channel does not open again, and a thread that counts the connections
\* found it open; open() starts threads that have not run.
OpensOnce ==
    /\ opened => ~Opening /\ ownPc \notin Closing
    /\ \A t \in Threads : pc[t] = "cbCount" => ~Opening
    /\ Opening => callbacks = 0
    /\ ownPc = "openIo" => pc["io"] = "off"
    /\ ownPc \in {"openIo", "openSend"} => pc["send"] = "off"

\* The thread that ends the channel is the only one in disconnectCB, and nobody
\* gets there after it.
OneEnds ==
    /\ \A t \in Threads : pc[t] \in Ending =>
          /\ ~opened /\ ~Opening /\ callbacks = 0
          /\ \A u \in Threads \ {t} : pc[u] \notin Holding \cup Ending
    /\ callbacks = 1 =>
          /\ ~opened /\ ~Opening
          /\ \A t \in Threads : pc[t] \notin Holding \cup Ending

\* The order of the joins in close().
JoinOrder ==
    /\ ownPc \notin Closing => ~wasOpen
    /\ ownPc \in {"joinIo", "dropAll"} => pc["send"] = "stopped"
    /\ ownPc = "dropAll" => pc["io"] = "stopped"
    /\ (ownPc = "closed" /\ wasOpen) => (\A t \in Threads : pc[t] = "stopped") /\ Alive = {}

\* AllDeadNoticed, from the start of open() on.
DeathSeen ==
    ((opened \/ Opening) /\ Alive = {}) =>
        (early \/ \E t \in Threads : pc[t] \in {"cb", "cbCount"})

\* While the IO thread reads there is a slot it reads.
Reading ==
    /\ ready \subseteq Slots
    /\ pc["io"] \in {"slot", "recv", "parse"} => ready # {}

IInv == ThreadTypes /\ ConnTypes /\ Published /\ MutexHeld /\ OpensOnce /\ OneEnds
        /\ JoinOrder /\ DeathSeen /\ Reading
------------------------------------------------------------------------------
\* The cases of a step.
LEMMA StepCases ==
    [Next]_vars =>
        \/ \E c \in Conns : PeerSends(c) \/ PeerCloses(c)
        \/ IoTop \/ IoRefresh \/ IoPoll \/ IoSlot \/ RecvData \/ RecvDone \/ RecvFails
        \/ ParsePacket \/ ParseDone \/ ParseGarbage
        \/ \E t \in Threads : \/ CallbackEnters(t) \/ CallbackStays(t) \/ CallbackEnds(t)
                              \/ CallbackStops(t) \/ CallbackNotifies(t)
        \/ SendStops \/ \E i \in Slots : SendFails(i) \/ NewConnection(i)
        \/ OpenIo \/ OpenSend \/ OpenDone
        \/ RejectNew \/ ReplaceInVc \/ ReplaceInIo \/ ReplaceInSend
        \/ CloseBegins \/ CloseJoinsSend \/ CloseJoinsIo \/ CloseDrops
        \/ UNCHANGED vars
BY DEF Next, Network, IoThread, DisconnectCB, SendThread, Open, Replace, Close, Ended, Threads

InCallback == {"cb", "cbCount", "cbStop", "cbNotify"}

\* What the steps of the peers, of reading and of parsing do to the variables of
\* the invariant: the IO thread moves outside disconnectCB and may take over a
\* new snapshot.
Quiet ==
    /\ UNCHANGED <<fd, made, opened, conns, mutex, ioConns, sendConns, ownVars, early,
                   callbacks>>
    /\ snapshot' \in {snapshot, ioConns}
    /\ pc' \in [Threads -> Pcs]
    /\ \A t \in Threads : \/ pc'[t] = pc[t]
                          \/ pc[t] \notin InCallback \cup {"off", "stopped"} /\ pc'[t] \notin InCallback

\* Leaving a slot brings the IO thread to one of three places.
LEMMA SlotDonePc ==
    SlotDone => \E l \in {"stopped", "top", "slot"} : pc' = [pc EXCEPT !["io"] = l]
BY DEF SlotDone, GoTo

\* These steps are quiet.
LEMMA QuietSteps ==
    ASSUME ThreadTypes,
           \/ \E c \in Conns : PeerSends(c) \/ PeerCloses(c)
           \/ IoTop \/ IoRefresh \/ IoPoll \/ IoSlot \/ RecvData \/ RecvDone
           \/ ParsePacket \/ ParseDone \/ ParseGarbage
           \/ SendStops
           \/ UNCHANGED vars
    PROVE  Quiet
<1> USE DEF ThreadTypes, Quiet, Threads, Pcs, InCallback, netVars, vcVars, runVars, slotVars,
            pollVars, readVars, ownVars, endVars
<1>1. CASE \E c \in Conns : PeerSends(c) \/ PeerCloses(c)
    BY <1>1 DEF PeerSends, PeerCloses
<1>2. CASE IoTop
    BY <1>2 DEF IoTop, GoTo
<1>3. CASE IoRefresh
    BY <1>3 DEF IoRefresh, GoTo
<1>4. CASE IoPoll
    BY <1>4 DEF IoPoll, GoTo
<1>5. CASE IoSlot
    BY <1>5, SlotDonePc DEF IoSlot, GoTo
<1>6. CASE RecvData
    BY <1>6 DEF RecvData
<1>7. CASE RecvDone
    BY <1>7 DEF RecvDone, GoTo
<1>8. CASE ParsePacket
    BY <1>8 DEF ParsePacket, HandOn
<1>9. CASE ParseDone
    BY <1>9, SlotDonePc DEF ParseDone
<1>10. CASE ParseGarbage
    BY <1>10, SlotDonePc DEF ParseGarbage, HandOn
<1>11. CASE SendStops
    BY <1>11 DEF SendStops, GoTo
<1>12. CASE UNCHANGED vars
    BY <1>12 DEF vars
<1> QED
    BY <1>1, <1>2, <1>3, <1>4, <1>5, <1>6, <1>7, <1>8, <1>9, <1>10, <1>11, <1>12

\* The callback returns to a place outside it.
LEMMA ReturnPc ==
    ASSUME NEW t \in Threads, Return(t)
    PROVE  \E l \in {"stopped", "top", "slot", "run"} : pc' = [pc EXCEPT ![t] = l]
BY SlotDonePc DEF Return, GoTo, Threads
------------------------------------------------------------------------------
\* The invariant holds when open() is entered.
LEMMA Initially == Init => IInv
<1> SUFFICES ASSUME Init PROVE IInv
    OBVIOUS
<1> USE DEF Init, Slots, Conns, Fds, None, Threads
<1>1. ThreadTypes
    <2>1. pc \in [Threads -> Pcs]
        BY DEF Pcs
    <2>2. ownPc \in OwnPcs /\ callbacks \in 0..1
        BY DEF OwnPcs
    <2>3. opened \in BOOLEAN /\ early \in BOOLEAN /\ wasOpen \in BOOLEAN
        BY Zenon
    <2> QED
        BY <2>1, <2>2, <2>3 DEF ThreadTypes
<1>2. MutexHeld
    BY DEF MutexHeld, Holding
<1>3. ConnTypes /\ Published
    BY DEF ConnTypes, Published
<1>4. OpensOnce /\ OneEnds /\ JoinOrder /\ Reading
    BY DEF OpensOnce, OneEnds, JoinOrder, Reading, Opening, Closing, Holding, Ending
<1>5. DeathSeen
    <2>1. 1 \in Alive
        BY DEF Alive, Up
    <2> QED
        BY <2>1 DEF DeathSeen
<1> QED
    BY <1>1, <1>2, <1>3, <1>4, <1>5 DEF IInv

\* A set of slots that is not empty has a least one: the slot being read.
LEMMA CurIsReady ==
    ASSUME ready \subseteq Slots, ready # {}
    PROVE  Cur \in ready
<1> DEFINE R == {p \in Nat \X Nat : p[1] < p[2]}
<1>1. IsWellFoundedOn(R, Nat)
    BY NatLessThanWellFounded, Zenon DEF OpToRel
<1>2. ready \subseteq Nat
    BY DEF Slots
<1> HIDE DEF R
<1>3. PICK i \in ready : \A k \in ready : ~(<<k, i>> \in R)
    BY <1>1, <1>2, WFMin
<1>4. \A k \in ready : i <= k
    <2> TAKE k \in ready
    <2>1. i \in Nat /\ k \in Nat
        BY <1>2
    <2>2. k < i => <<k, i>> \in R
        BY <2>1 DEF R
    <2> QED
        BY <1>3, <2>1, <2>2
<1> QED
    BY <1>4 DEF Cur

\* Reading survives every step, whatever thread takes it.
LEMMA ReadingKept ==
    ASSUME ThreadTypes, Reading, [Next]_vars
    PROVE  Reading'
<1> USE DEF Reading, ThreadTypes, Threads, GoTo, vcVars, runVars, slotVars, pollVars, ownVars,
            endVars
<1>1. SlotDone => Reading'
    BY DEF SlotDone
<1>2. CASE \E c \in Conns : PeerSends(c) \/ PeerCloses(c)
    BY <1>2 DEF PeerSends, PeerCloses
<1>3. CASE IoTop \/ IoRefresh \/ IoPoll
    BY <1>3 DEF IoTop, IoRefresh, IoPoll
<1>4. CASE IoSlot
    BY <1>1, <1>4 DEF IoSlot
<1>5. CASE RecvData \/ RecvDone \/ RecvFails
    BY <1>5 DEF RecvData, RecvDone, RecvFails
<1>6. CASE ParsePacket
    BY <1>6 DEF ParsePacket
<1>7. CASE ParseDone
    BY <1>1, <1>7 DEF ParseDone
<1>8. CASE ParseGarbage
    BY <1>1, <1>8 DEF ParseGarbage
<1>9. ASSUME NEW t \in Threads,
             \/ CallbackEnters(t) \/ CallbackStays(t) \/ CallbackEnds(t)
             \/ CallbackStops(t) \/ CallbackNotifies(t)
      PROVE  Reading'
    <2>1. Return(t) => Reading'
        BY <1>1 DEF Return
    <2> QED
        BY <1>9, <2>1 DEF CallbackEnters, CallbackStays, CallbackEnds, CallbackStops,
                          CallbackNotifies
<1>10. CASE SendStops \/ \E i \in Slots : SendFails(i) \/ NewConnection(i)
    BY <1>10 DEF SendStops, SendFails, NewConnection
<1>11. CASE OpenIo \/ OpenSend \/ OpenDone
    BY <1>11 DEF OpenIo, OpenSend, OpenDone
<1>12. CASE RejectNew \/ ReplaceInVc \/ ReplaceInIo \/ ReplaceInSend
    BY <1>12 DEF RejectNew, ReplaceInVc, ReplaceInIo, ReplaceInSend
<1>13. CASE CloseBegins \/ CloseJoinsSend \/ CloseJoinsIo \/ CloseDrops
    BY <1>13 DEF CloseBegins, CloseJoinsSend, CloseJoinsIo, CloseDrops
<1>14. CASE UNCHANGED vars
    BY <1>14 DEF vars
<1> QED
    BY <1>2, <1>3, <1>4, <1>5, <1>6, <1>7, <1>8, <1>9, <1>10, <1>11, <1>12, <1>13, <1>14,
       StepCases
------------------------------------------------------------------------------
\* The parts of the invariant a step can disturb once Reading is settled.
Core == ThreadTypes /\ ConnTypes /\ Published /\ MutexHeld /\ OpensOnce /\ OneEnds
        /\ JoinOrder /\ DeathSeen

\* Reading and parsing disturb no part of it.
LEMMA QuietKeeps == Core /\ Quiet => Core'
<1> SUFFICES ASSUME Core, Quiet PROVE Core'
    OBVIOUS
<1> USE DEF Core, Quiet, ownVars
<1>1. ThreadTypes' /\ ConnTypes'
    BY DEF ThreadTypes, ConnTypes
<1>2. Published'
    BY DEF Published
<1>3. MutexHeld' /\ OpensOnce' /\ OneEnds'
    BY DEF ThreadTypes, MutexHeld, OpensOnce, OneEnds, Opening, Holding, Ending, InCallback,
           Threads
<1>4. JoinOrder'
    BY DEF ThreadTypes, JoinOrder, Alive, Up, Threads
<1>5. DeathSeen'
    BY DEF ThreadTypes, DeathSeen, Alive, Up, Opening, InCallback
<1> QED
    BY <1>1, <1>2, <1>3, <1>4, <1>5

\* A thread disconnects a connection and enters disconnectCB.
LEMMA FailKeeps ==
    ASSUME Core, Reading, RecvFails \/ \E i \in Slots : SendFails(i)
    PROVE  Core'
<1> USE DEF Core, vcVars, runVars, slotVars, pollVars, ownVars, endVars
<1>1. PICK t \in Threads, c \in 1..made :
          /\ pc[t] \in {"recv", "run"} /\ pc' = [pc EXCEPT ![t] = "cb"]
          /\ fd' = [fd EXCEPT ![c] = None]
          /\ \E i \in Slots : c \in {snapshot[i], sendConns[i]}
    <2>1. CASE RecvFails
        <3>1. Cur \in Slots
            BY <2>1, CurIsReady DEF RecvFails, Reading
        <3>2. CurConn \in 1..made /\ CurConn = snapshot[Cur]
            BY <3>1 DEF CurConn, Published
        <3>3. /\ pc["io"] = "recv" /\ pc' = [pc EXCEPT !["io"] = "cb"]
              /\ fd' = [fd EXCEPT ![CurConn] = None]
            BY <2>1 DEF RecvFails, Disconnect, GoTo
        <3> QED
            BY <3>1, <3>2, <3>3 DEF Threads
    <2>2. ASSUME NEW i \in Slots, SendFails(i)
          PROVE  /\ pc["send"] = "run" /\ pc' = [pc EXCEPT !["send"] = "cb"]
                 /\ fd' = [fd EXCEPT ![sendConns[i]] = None]
                 /\ sendConns[i] \in 1..made
        BY <2>2 DEF SendFails, Disconnect, GoTo, Published
    <2> QED
        BY <2>1, <2>2 DEF Threads
<1>2. UNCHANGED <<made, opened, conns, mutex, ioConns, sendConns, snapshot, ownVars, early,
                  callbacks>>
    BY DEF RecvFails, SendFails, Disconnect
<1>3. ThreadTypes' /\ ConnTypes'
    BY <1>1, <1>2 DEF ThreadTypes, ConnTypes, Pcs
<1>4. Published'
    BY <1>1, <1>2 DEF Published, ConnTypes, Conns
<1>5. MutexHeld' /\ OpensOnce' /\ OneEnds'
    BY <1>1, <1>2 DEF ThreadTypes, MutexHeld, OpensOnce, OneEnds, Opening, Holding, Ending,
                      Threads
<1>6. JoinOrder'
    BY <1>1, <1>2 DEF ThreadTypes, JoinOrder, Threads
<1>7. DeathSeen'
    BY <1>1, <1>2 DEF ThreadTypes, DeathSeen
<1> QED
    BY <1>3, <1>4, <1>5, <1>6, <1>7

\* disconnectCB on either thread: the connections do not change, and the thread
\* that leaves it has seen either a live connection or the end of the channel.
LEMMA CallbackKeeps ==
    ASSUME Core, NEW t \in Threads,
           \/ CallbackEnters(t) \/ CallbackStays(t) \/ CallbackEnds(t)
           \/ CallbackStops(t) \/ CallbackNotifies(t)
    PROVE  Core'
<1> USE DEF Core, netVars, vcVars, runVars, slotVars, pollVars, ownVars, endVars
<1>1. UNCHANGED <<fd, made, conns, ioConns, sendConns, snapshot, ownVars>>
    BY DEF CallbackEnters, CallbackStays, CallbackEnds, CallbackStops, CallbackNotifies
<1>2. Alive' = Alive /\ Opening' = Opening
    BY <1>1 DEF Alive, Up, Opening
<1>3. ConnTypes' /\ Published'
    BY <1>1 DEF ConnTypes, Published
<1>4. \E l \in Pcs \ {"off"} : pc' = [pc EXCEPT ![t] = l]
    BY ReturnPc DEF CallbackEnters, CallbackStays, CallbackEnds, CallbackStops,
                    CallbackNotifies, GoTo, Pcs
<1>5. pc[t] \in InCallback
    BY DEF CallbackEnters, CallbackStays, CallbackEnds, CallbackStops, CallbackNotifies,
           InCallback
<1>6. JoinOrder'
    BY <1>1, <1>2, <1>4, <1>5 DEF JoinOrder, ThreadTypes, Threads, InCallback
<1>7. CASE CallbackEnters(t) /\ opened
    <2>1. /\ pc[t] = "cb" /\ mutex = "none" /\ mutex' = t
          /\ pc' = [pc EXCEPT ![t] = "cbCount"]
          /\ UNCHANGED <<opened, early, callbacks>>
        BY <1>7 DEF CallbackEnters, GoTo
    <2>2. ThreadTypes' /\ MutexHeld'
        BY <1>1, <2>1 DEF ThreadTypes, MutexHeld, Pcs, Holding, Threads
    <2>3. OpensOnce' /\ OneEnds' /\ DeathSeen'
        BY <1>1, <1>2, <1>7, <2>1 DEF ThreadTypes, MutexHeld, OpensOnce, OneEnds, DeathSeen,
                                 Holding, Ending, Threads
    <2> QED
        BY <1>3, <1>6, <2>2, <2>3
<1>8. CASE CallbackEnters(t) /\ ~opened
    <2>1. /\ pc[t] = "cb" /\ early' = (early \/ Opening)
          /\ UNCHANGED <<opened, callbacks, mutex>>
          /\ Return(t)
        BY <1>8 DEF CallbackEnters
    <2>2. PICK l \in {"stopped", "top", "slot", "run"} : pc' = [pc EXCEPT ![t] = l]
        BY <2>1, ReturnPc
    <2>3. ThreadTypes' /\ MutexHeld'
        BY <1>1, <2>1, <2>2 DEF ThreadTypes, MutexHeld, Pcs, Holding, Threads
    <2>4. OpensOnce' /\ OneEnds' /\ DeathSeen'
        BY <1>1, <1>2, <1>8, <2>1, <2>2 DEF ThreadTypes, OpensOnce, OneEnds, DeathSeen,
                                       Holding, Ending, Threads
    <2> QED
        BY <1>3, <1>6, <2>3, <2>4
<1>9. CASE CallbackStays(t)
    <2>1. /\ pc[t] = "cbCount" /\ Alive # {} /\ mutex' = "none" /\ Return(t)
          /\ UNCHANGED <<opened, early, callbacks>>
        BY <1>9 DEF CallbackStays
    <2>2. PICK l \in {"stopped", "top", "slot", "run"} : pc' = [pc EXCEPT ![t] = l]
        BY <2>1, ReturnPc
    <2>3. ThreadTypes' /\ MutexHeld'
        BY <1>1, <2>1, <2>2 DEF ThreadTypes, MutexHeld, Pcs, Holding, Threads
    <2>4. OpensOnce' /\ OneEnds' /\ DeathSeen'
        BY <1>1, <1>2, <2>1, <2>2 DEF ThreadTypes, OpensOnce, OneEnds, DeathSeen,
                                 Holding, Ending, Threads
    <2> QED
        BY <1>3, <1>6, <2>3, <2>4
<1>10. CASE CallbackEnds(t)
    <2>1. /\ pc[t] = "cbCount" /\ opened' = FALSE /\ pc' = [pc EXCEPT ![t] = "cbStop"]
          /\ UNCHANGED <<mutex, early, callbacks>>
        BY <1>10 DEF CallbackEnds, GoTo
    <2>2. mutex = t /\ ~Opening /\ callbacks = 0
        BY <2>1 DEF MutexHeld, OpensOnce, OneEnds, ThreadTypes, Holding
    <2>3. ThreadTypes' /\ MutexHeld'
        BY <1>1, <2>1, <2>2 DEF ThreadTypes, MutexHeld, Pcs, Holding, Threads
    <2>4. OpensOnce' /\ OneEnds' /\ DeathSeen'
        BY <1>1, <1>2, <2>1, <2>2 DEF ThreadTypes, MutexHeld, OpensOnce, OneEnds, DeathSeen,
                                 Opening, Holding, Ending, Threads
    <2> QED
        BY <1>3, <1>6, <2>3, <2>4
<1>11. CASE CallbackStops(t)
    <2>1. /\ pc[t] = "cbStop" /\ mutex' = "none" /\ pc' = [pc EXCEPT ![t] = "cbNotify"]
          /\ UNCHANGED <<opened, early, callbacks>>
        BY <1>11 DEF CallbackStops, GoTo
    <2>2. ThreadTypes' /\ MutexHeld'
        BY <1>1, <2>1 DEF ThreadTypes, MutexHeld, Pcs, Holding, Threads
    <2>3. OpensOnce' /\ OneEnds' /\ DeathSeen'
        BY <1>1, <1>2, <2>1 DEF ThreadTypes, OpensOnce, OneEnds, DeathSeen,
                           Opening, Holding, Ending, Threads
    <2> QED
        BY <1>3, <1>6, <2>2, <2>3
<1>12. CASE CallbackNotifies(t)
    <2>1. /\ pc[t] = "cbNotify" /\ callbacks' = callbacks + 1 /\ Return(t)
          /\ UNCHANGED <<opened, mutex, early>>
        BY <1>12 DEF CallbackNotifies
    <2>2. PICK l \in {"stopped", "top", "slot", "run"} : pc' = [pc EXCEPT ![t] = l]
        BY <2>1, ReturnPc
    <2>3. ~opened /\ ~Opening /\ callbacks' = 1
        BY <2>1 DEF OneEnds, Ending
    <2>4. ThreadTypes' /\ MutexHeld'
        BY <1>1, <2>1, <2>2, <2>3 DEF ThreadTypes, MutexHeld, Pcs, Holding, Threads
    <2>5. OpensOnce' /\ OneEnds' /\ DeathSeen'
        BY <1>1, <1>2, <2>1, <2>2, <2>3 DEF ThreadTypes, OpensOnce, OneEnds, DeathSeen,
                                       Opening, Holding, Ending, Threads
    <2> QED
        BY <1>3, <1>6, <2>4, <2>5
<1> QED
    BY <1>7, <1>8, <1>9, <1>10, <1>11, <1>12

\* open() starts the threads and then declares the channel open.
LEMMA OpenKeeps ==
    ASSUME Core, OpenIo \/ OpenSend \/ OpenDone
    PROVE  Core'
<1> USE DEF Core, netVars, vcVars, runVars, slotVars, pollVars, endVars
<1>1. UNCHANGED <<fd, made, conns, mutex, ioConns, sendConns, snapshot, newConn, newSlot,
                  wasOpen, early, callbacks>>
    BY DEF OpenIo, OpenSend, OpenDone
<1>2. Alive' = Alive
    BY <1>1 DEF Alive, Up
<1>3. \/ ownPc = "openIo" /\ pc' = [pc EXCEPT !["io"] = "top"] /\ ownPc' = "openSend"
         /\ opened' = opened
      \/ ownPc = "openSend" /\ pc' = [pc EXCEPT !["send"] = "run"] /\ ownPc' = "openDone"
         /\ opened' = opened
      \/ ownPc = "openDone" /\ pc' = pc /\ ownPc' = "idle" /\ opened' = TRUE
    BY DEF OpenIo, OpenSend, OpenDone, GoTo
<1>4. ThreadTypes' /\ ConnTypes'
    BY <1>1, <1>3 DEF ThreadTypes, ConnTypes, Pcs, OwnPcs, Threads
<1>5. Published'
    BY <1>1, <1>3 DEF Published
<1>6. MutexHeld'
    BY <1>1, <1>3 DEF MutexHeld, ThreadTypes, Holding, Threads
<1>7. OpensOnce'
    BY <1>1, <1>3 DEF OpensOnce, ThreadTypes, Opening, Closing, Threads
<1>8. OneEnds'
    BY <1>1, <1>3 DEF OneEnds, OpensOnce, ThreadTypes, Opening, Holding, Ending, Threads
<1>9. JoinOrder'
    BY <1>1, <1>3 DEF JoinOrder, Closing
<1>10. DeathSeen'
    BY <1>1, <1>2, <1>3 DEF DeathSeen, OpensOnce, ThreadTypes, Opening, Threads
<1> QED
    BY <1>4, <1>5, <1>6, <1>7, <1>8, <1>9, <1>10

\* A connection is made and published, slot by slot, or refused.
LEMMA ReplaceKeeps ==
    ASSUME Core,
           \/ \E i \in Slots : NewConnection(i)
           \/ RejectNew \/ ReplaceInVc \/ ReplaceInIo \/ ReplaceInSend
    PROVE  Core'
<1> USE DEF Core, netVars, vcVars, runVars, slotVars, pollVars, endVars
<1>1. UNCHANGED <<opened, mutex, pc, snapshot, wasOpen, early, callbacks>>
    BY DEF NewConnection, RejectNew, ReplaceInVc, ReplaceInIo, ReplaceInSend
<1>2. /\ ownPc \in {"idle", "bind", "replaceIo", "replaceSend"}
      /\ ownPc' \in {"idle", "bind", "replaceIo", "replaceSend"}
    BY DEF NewConnection, RejectNew, ReplaceInVc, ReplaceInIo, ReplaceInSend
<1>3. ThreadTypes' /\ MutexHeld'
    BY <1>1, <1>2 DEF ThreadTypes, MutexHeld, OwnPcs
<1>4. OpensOnce' /\ OneEnds'
    BY <1>1, <1>2 DEF OpensOnce, OneEnds, Opening, Closing
<1>5. JoinOrder'
    BY <1>1, <1>2 DEF JoinOrder, Closing
<1>6. CASE \E i \in Slots : NewConnection(i)
    <2>1. PICK f \in Fds :
              /\ made < NConns /\ made' = made + 1 /\ newConn' = made + 1
              /\ newSlot' \in Slots /\ ownPc' = "bind"
              /\ fd' = [fd EXCEPT ![made + 1] = f]
              /\ UNCHANGED <<conns, ioConns, sendConns>>
        BY <1>6 DEF NewConnection, FreeFds
    <2>2. ConnTypes' /\ made + 1 \in Conns
        BY <2>1 DEF ConnTypes, Conns, Fds
    <2>3. fd'[made + 1] # None
        BY <2>1, <2>2 DEF ConnTypes, Fds, None
    <2>4. /\ made \in Nat /\ 1..made \subseteq 1..(made + 1)
          /\ 1..made \subseteq Conns /\ made + 1 \notin 1..made
        BY <2>1 DEF ConnTypes, Conns
    <2>5. Published'
        <3>1. made + 1 \in 1..(made + 1)
            BY <2>4
        <3> QED
            BY <1>1, <2>1, <2>3, <2>4, <3>1 DEF Published
    <2>6. \A i \in Slots : fd'[conns[i]] = fd[conns[i]]
        BY <2>1, <2>4 DEF Published, ConnTypes
    <2>7. Alive' = Alive
        BY <2>1, <2>6 DEF Alive, Up
    <2>8. DeathSeen'
        BY <1>1, <1>2, <2>7 DEF DeathSeen, Opening
    <2> QED
        BY <1>3, <1>4, <1>5, <2>2, <2>5, <2>8
<1>7. CASE RejectNew
    <2>1. /\ ownPc = "bind" /\ ownPc' = "idle" /\ newSlot' = 1 /\ callbacks > 0
          /\ fd' = [fd EXCEPT ![newConn] = None]
          /\ UNCHANGED <<made, conns, ioConns, sendConns>>
        BY <1>7 DEF RejectNew, Disconnect
    <2>2. ConnTypes'
        <3>1. 1 \in Slots
            BY DEF Slots
        <3> QED
            BY <2>1, <3>1 DEF ConnTypes
    <2>3. Published'
        BY <1>1, <2>1 DEF Published
    <2>4. ~opened /\ DeathSeen'
        BY <1>1, <1>2, <2>1 DEF DeathSeen, OneEnds, ThreadTypes, Opening
    <2> QED
        BY <1>3, <1>4, <1>5, <2>2, <2>3, <2>4
<1>8. CASE ReplaceInVc
    <2>1. /\ ownPc = "bind" /\ ownPc' = "replaceIo"
          /\ conns' = [conns EXCEPT ![newSlot] = newConn]
          /\ UNCHANGED <<fd, made, newConn, newSlot, ioConns, sendConns>>
        BY <1>8 DEF ReplaceInVc
    <2>2. ConnTypes' /\ Published'
        BY <1>1, <2>1 DEF ConnTypes, Published
    <2>3. newSlot \in Alive'
        BY <2>1 DEF Alive, Up, ConnTypes, Published
    <2> QED
        BY <1>3, <1>4, <1>5, <2>2, <2>3 DEF DeathSeen
<1>9. CASE ReplaceInIo \/ ReplaceInSend
    <2>1. /\ ownPc \in {"replaceIo", "replaceSend"} /\ ownPc' \in {"replaceSend", "idle"}
          /\ ioConns' \in {ioConns, [ioConns EXCEPT ![newSlot] = newConn]}
          /\ sendConns' \in {sendConns, [sendConns EXCEPT ![newSlot] = newConn]}
          /\ UNCHANGED <<fd, made, conns>>
          /\ newSlot' \in {1, newSlot} /\ (ownPc' # "idle" => newConn' = newConn)
        BY <1>9 DEF ReplaceInIo, ReplaceInSend
    <2>2. ConnTypes'
        BY <2>1 DEF ConnTypes, Slots
    <2>3. Published'
        BY <1>1, <2>1 DEF ConnTypes, Published
    <2>4. DeathSeen'
        BY <1>1, <1>2, <2>1 DEF DeathSeen, Alive, Up, Opening
    <2> QED
        BY <1>3, <1>4, <1>5, <2>2, <2>3, <2>4
<1> QED
    BY <1>6, <1>7, <1>8, <1>9

\* close() ends the channel, then joins, then drops what is connected.
LEMMA CloseKeeps ==
    ASSUME Core, CloseBegins \/ CloseJoinsSend \/ CloseJoinsIo \/ CloseDrops
    PROVE  Core'
<1> USE DEF Core, netVars, vcVars, runVars, slotVars, pollVars, endVars
<1>1. UNCHANGED <<made, conns, mutex, pc, ioConns, sendConns, snapshot, newConn, newSlot,
                  early, callbacks>>
    BY DEF CloseBegins, CloseJoinsSend, CloseJoinsIo, CloseDrops
<1>2. /\ ownPc \in {"idle", "joinSend", "joinIo", "dropAll"} /\ ownPc' \in Closing
      /\ opened' \in {opened, FALSE} /\ (ownPc = "idle" => ~opened')
    BY DEF CloseBegins, CloseJoinsSend, CloseJoinsIo, CloseDrops, Closing
<1>3. ~opened'
    BY <1>2 DEF OpensOnce, ThreadTypes, Closing
<1>4. ThreadTypes'
    <2>1. wasOpen' \in {wasOpen, opened} /\ ownPc' \in OwnPcs
        BY DEF CloseBegins, CloseJoinsSend, CloseJoinsIo, CloseDrops, OwnPcs
    <2> QED
        BY <1>1, <1>2, <2>1 DEF ThreadTypes
<1>5. ConnTypes'
    <2>1. fd' \in [Conns -> Fds \cup {None}]
        BY DEF ConnTypes, CloseBegins, CloseJoinsSend, CloseJoinsIo, CloseDrops
    <2> QED
        BY <1>1, <2>1 DEF ConnTypes
<1>6. Published'
    BY <1>1, <1>2 DEF Published, Closing
<1>7. MutexHeld' /\ OpensOnce' /\ OneEnds' /\ DeathSeen'
    BY <1>1, <1>2, <1>3 DEF MutexHeld, OpensOnce, OneEnds, DeathSeen, Opening, Closing
<1>8. JoinOrder'
    <2>1. CASE CloseBegins
        BY <2>1, <1>1 DEF CloseBegins, JoinOrder, ThreadTypes, Closing
    <2>2. CASE CloseJoinsSend
        BY <2>2, <1>1 DEF CloseJoinsSend, JoinOrder, Closing
    <2>3. CASE CloseJoinsIo
        BY <2>3, <1>1 DEF CloseJoinsIo, JoinOrder, Closing
    <2>4. CASE CloseDrops
        <3>1. \A i \in Slots : fd'[conns[i]] = None
            BY <2>4 DEF CloseDrops, Published, ConnTypes, Conns
        <3>2. Alive' = {}
            BY <1>1, <3>1 DEF Alive, Up
        <3>3. ownPc' = "closed" /\ \A t \in Threads : pc'[t] = "stopped"
            BY <1>1, <2>4 DEF CloseDrops, JoinOrder, Threads
        <3> QED
            BY <3>2, <3>3 DEF JoinOrder, Closing
    <2> QED
        BY <2>1, <2>2, <2>3, <2>4
<1> QED
    BY <1>4, <1>5, <1>6, <1>7, <1>8
------------------------------------------------------------------------------
\* The invariant is inductive and holds in every reachable state.
THEOREM LifeInvariance == Spec => []IInv
<1>1. Init => IInv
    BY Initially
<1>2. IInv /\ [Next]_vars => IInv'
    <2> SUFFICES ASSUME IInv, [Next]_vars PROVE IInv'
        OBVIOUS
    <2>1. Core /\ ThreadTypes /\ Reading
        BY DEF IInv, Core
    <2>2. Reading'
        BY <2>1, ReadingKept
    <2>3. Core'
        BY <2>1, StepCases, QuietSteps, QuietKeeps, FailKeeps, CallbackKeeps, OpenKeeps,
           ReplaceKeeps, CloseKeeps
    <2> QED
        BY <2>2, <2>3 DEF IInv, Core
<1> QED
    BY <1>1, <1>2, PTL DEF Spec

\* The death of the last connection is noticed (disconnectCB), for every number
\* of connections and replacements.
THEOREM DeathNoticed == Spec => []AllDeadNoticed
<1>1. IInv => AllDeadNoticed
    BY DEF IInv, AllDeadNoticed, DeathSeen
<1> QED
    BY <1>1, LifeInvariance, PTL

\* disconnectCallback is called at most once, and a close() that found the
\* channel open leaves no thread and no connection behind.
THEOREM EndedOnce == Spec => []EndsOnce
<1>1. IInv => EndsOnce
    BY DEF IInv, EndsOnce, ThreadTypes, JoinOrder
<1> QED
    BY <1>1, LifeInvariance, PTL
------------------------------------------------------------------------------
(***************************************************************************)
(* Types.  The invariant above has the types of the threads and of the     *)
(* connections; these are the others.                                      *)
(***************************************************************************)
NetTypes ==
    /\ eof \in [Conns -> BOOLEAN]
    /\ sent \in [Conns -> Nat] /\ nread \in [Conns -> Nat]
    /\ \A c \in Conns : nread[c] <= sent[c] /\ sent[c] <= Budget[c]

FlagTypes ==
    /\ mutex \in Threads \cup {"none"}
    /\ hasSend \in BOOLEAN /\ ioRunning \in BOOLEAN /\ sendRunning \in BOOLEAN
    /\ sawSend \in BOOLEAN /\ crashed \in BOOLEAN
    /\ connGeneration \in Nat /\ gen \in Nat /\ cachedGen \in Int
    /\ newConn \in Conns \cup {None}

ReadTypes ==
    /\ prevFds \in [Slots -> Fds \cup {None}]
    /\ buffer \in [Slots -> Seq(Chunks)] /\ out \in [Conns -> Seq(Chunks \X Chunks)]
    /\ joined \subseteq Conns

\* The connections of the slots are connections.
LEMMA SlotConns ==
    ASSUME IInv
    PROVE  /\ conns \in [Slots -> Conns] /\ ioConns \in [Slots -> Conns]
           /\ sendConns \in [Slots -> Conns] /\ snapshot \in [Slots -> Conns]
           /\ made \in Nat /\ 1..made \subseteq Conns
           /\ \A i \in Slots : snapshot[i] <= made /\ ioConns[i] <= made
<1>1. made \in Nat /\ made <= NConns /\ NConns \in Nat
    BY DEF IInv, ConnTypes, Conns
<1>2. 1..made \subseteq Conns
    BY <1>1 DEF Conns
<1>3. \A i \in Slots : snapshot[i] \in 1..made /\ ioConns[i] \in 1..made
    BY DEF IInv, Published
<1>4. \A i \in Slots : snapshot[i] <= made /\ ioConns[i] <= made
    BY <1>1, <1>3
<1> QED
    BY <1>1, <1>2, <1>4 DEF IInv, Published

\* The slot being read is a slot, and its connection a connection.
LEMMA CurFacts ==
    ASSUME IInv, pc["io"] \in {"slot", "recv", "parse"}
    PROVE  Cur \in ready /\ Cur \in Slots /\ CurConn \in Conns
<1>1. Cur \in ready /\ Cur \in Slots
    BY CurIsReady DEF IInv, Reading
<1> QED
    BY <1>1, SlotConns DEF CurConn

\* Disconnecting a connection empties its stream.
LEMMA DisconnectTypes ==
    ASSUME NetTypes, NEW c, Disconnect(c)
    PROVE  NetTypes'
<1>1. /\ eof' \in [Conns -> BOOLEAN] /\ sent' \in [Conns -> Nat] /\ nread' \in [Conns -> Nat]
    BY DEF Disconnect, NetTypes
<1>2. ASSUME NEW d \in Conns PROVE nread'[d] <= sent'[d] /\ sent'[d] <= Budget[d]
    <2>1. Budget[d] \in Nat /\ nread[d] <= sent[d] /\ sent[d] <= Budget[d]
        BY DEF NetTypes, Conns
    <2>2. \/ nread'[d] = 0 /\ sent'[d] = 0
          \/ nread'[d] = nread[d] /\ sent'[d] = sent[d]
        BY DEF Disconnect, NetTypes
    <2> QED
        BY <2>1, <2>2
<1> QED
    BY <1>1, <1>2 DEF NetTypes

\* Every step keeps the types of the connections.
LEMMA NetTypesKept ==
    ASSUME IInv, NetTypes, [Next]_vars
    PROVE  NetTypes'
<1> USE DEF netVars
<1>1. ASSUME NEW c \in Conns, PeerSends(c) PROVE NetTypes'
    <2>1. /\ sent' = [sent EXCEPT ![c] = @ + 1] /\ sent[c] < Budget[c]
          /\ UNCHANGED <<nread, eof>>
        BY <1>1 DEF PeerSends
    <2>2. \A d \in Conns : Budget[d] \in Nat /\ sent[d] \in Nat /\ nread[d] \in Nat
        BY DEF NetTypes, Conns
    <2>3. sent' \in [Conns -> Nat]
        BY <2>1 DEF NetTypes
    <2>4. ASSUME NEW d \in Conns PROVE nread[d] <= sent'[d] /\ sent'[d] <= Budget[d]
        <3>1. sent'[d] = sent[d] \/ (d = c /\ sent'[d] = sent[d] + 1)
            BY <2>1 DEF NetTypes
        <3>2. nread[d] <= sent[d] /\ sent[d] <= Budget[d]
            BY DEF NetTypes
        <3> QED
            BY <2>1, <2>2, <3>1, <3>2
    <2> QED
        BY <2>1, <2>3, <2>4 DEF NetTypes
<1>2. ASSUME NEW c \in Conns, PeerCloses(c) PROVE NetTypes'
    BY <1>2 DEF PeerCloses, NetTypes
<1>3. CASE RecvData
    <2> DEFINE c == CurConn
    <2>1. nread' = [nread EXCEPT ![c] = sent[c]] /\ UNCHANGED <<sent, eof>>
        BY <1>3 DEF RecvData
    <2>2. c \in Conns
        BY <1>3, CurFacts DEF RecvData
    <2> HIDE DEF c
    <2>3. nread' \in [Conns -> Nat]
        BY <2>1, <2>2 DEF NetTypes
    <2>4. \A d \in Conns : nread'[d] <= sent[d]
        BY <2>1, <2>2 DEF NetTypes
    <2> QED
        BY <2>1, <2>3, <2>4 DEF NetTypes
<1>4. CASE RecvFails
    BY <1>4, DisconnectTypes DEF RecvFails
<1>5. CASE \E i \in Slots : SendFails(i)
    BY <1>5, DisconnectTypes DEF SendFails
<1>6. CASE RejectNew
    BY <1>6, DisconnectTypes DEF RejectNew
<1>7. CASE UNCHANGED <<sent, nread, eof>>
    BY <1>7 DEF NetTypes
<1>8. \/ \E c \in Conns : PeerSends(c) \/ PeerCloses(c)
      \/ RecvData \/ RecvFails \/ (\E i \in Slots : SendFails(i)) \/ RejectNew
      \/ UNCHANGED <<sent, nread, eof>>
    BY StepCases
    DEF IoTop, IoRefresh, IoPoll, IoSlot, RecvDone, ParsePacket, ParseDone, ParseGarbage,
        CallbackEnters, CallbackStays, CallbackEnds, CallbackStops, CallbackNotifies, SendStops,
        NewConnection, OpenIo, OpenSend, OpenDone, ReplaceInVc, ReplaceInIo, ReplaceInSend,
        CloseBegins, CloseJoinsSend, CloseJoinsIo, CloseDrops, vars
<1> QED
    BY <1>1, <1>2, <1>3, <1>4, <1>5, <1>6, <1>7, <1>8

\* Every step keeps the types of the flags and of the owner's variables.
LEMMA FlagTypesKept ==
    ASSUME IInv, FlagTypes, [Next]_vars
    PROVE  FlagTypes'
<1> USE DEF FlagTypes, netVars, vcVars, runVars, slotVars, pollVars, ownVars, endVars, Threads
<1>0. made \in Nat /\ NConns \in Nat
    BY SlotConns
<1>1. CASE \E c \in Conns : PeerSends(c) \/ PeerCloses(c)
    BY <1>1 DEF PeerSends, PeerCloses
<1>2. CASE IoTop \/ IoRefresh \/ IoPoll \/ IoSlot
    BY <1>2 DEF IoTop, IoRefresh, IoPoll, IoSlot
<1>3. CASE RecvData \/ RecvDone \/ RecvFails
    BY <1>3 DEF RecvData, RecvDone, RecvFails
<1>4. CASE ParsePacket \/ ParseDone \/ ParseGarbage
    BY <1>4 DEF ParsePacket, ParseDone, ParseGarbage
<1>5. ASSUME NEW t \in Threads, CallbackEnters(t) \/ CallbackStays(t) \/ CallbackNotifies(t)
      PROVE  FlagTypes'
    BY <1>5 DEF CallbackEnters, CallbackStays, CallbackNotifies
<1>6. ASSUME NEW t \in Threads, CallbackEnds(t) PROVE FlagTypes'
    BY <1>6 DEF CallbackEnds
<1>7. ASSUME NEW t \in Threads, CallbackStops(t) PROVE FlagTypes'
    <2>1. /\ sendRunning' = (sendRunning /\ ~sawSend) /\ sawSend' = FALSE
          /\ crashed' = (crashed \/ (sawSend /\ ~hasSend)) /\ mutex' = "none"
        BY <1>7 DEF CallbackStops
    <2>2. sendRunning' \in BOOLEAN /\ sawSend' \in BOOLEAN /\ crashed' \in BOOLEAN
        BY <2>1, Zenon
    <2>3. /\ UNCHANGED <<hasSend, ioRunning, connGeneration, gen, cachedGen, newConn>>
          /\ mutex' \in Threads \cup {"none"}
        BY <1>7 DEF CallbackStops
    <2> QED
        BY <2>2, <2>3
<1>8. CASE SendStops \/ \E i \in Slots : SendFails(i)
    BY <1>8 DEF SendStops, SendFails
<1>9. ASSUME NEW i \in Slots, NewConnection(i) PROVE FlagTypes'
    <2>1. /\ made < NConns /\ newConn' = made + 1
          /\ UNCHANGED <<vcVars, runVars, slotVars, pollVars, endVars>>
        BY <1>9 DEF NewConnection
    <2>2. newConn' \in Conns
        BY <1>0, <2>1 DEF Conns
    <2> QED
        BY <2>1, <2>2
<1>10. CASE OpenIo \/ OpenSend \/ OpenDone
    BY <1>10 DEF OpenIo, OpenSend, OpenDone
<1>11. CASE RejectNew \/ ReplaceInVc \/ ReplaceInIo \/ ReplaceInSend
    BY <1>11 DEF RejectNew, ReplaceInVc, ReplaceInIo, ReplaceInSend
<1>12. CASE CloseBegins
    <2>1. sendRunning' = (sendRunning /\ ~opened)
        BY <1>12 DEF CloseBegins
    <2>2. sendRunning' \in BOOLEAN
        BY <2>1, Zenon
    <2>3. UNCHANGED <<mutex, hasSend, ioRunning, sawSend, crashed, connGeneration, gen,
                      cachedGen, newConn>>
        BY <1>12 DEF CloseBegins
    <2> QED
        BY <2>2, <2>3
<1>13. CASE CloseJoinsSend \/ CloseJoinsIo \/ CloseDrops
    BY <1>13 DEF CloseJoinsSend, CloseJoinsIo, CloseDrops
<1>14. CASE UNCHANGED vars
    BY <1>14 DEF vars
<1> QED
    BY <1>1, <1>2, <1>3, <1>4, <1>5, <1>6, <1>7, <1>8, <1>9, <1>10, <1>11, <1>12, <1>13, <1>14,
       StepCases

\* The steps that touch the read buffers, the descriptors remembered and what was
\* handed on.
LEMMA ReadFrame ==
    ASSUME [Next]_vars
    PROVE  \/ IoRefresh \/ RecvData \/ ParsePacket \/ ParseGarbage
           \/ UNCHANGED <<snapshot, prevFds, buffer, out, joined>>
BY StepCases
DEF PeerSends, PeerCloses, IoTop, IoPoll, IoSlot, RecvDone, RecvFails, ParseDone,
    CallbackEnters, CallbackStays, CallbackEnds, CallbackStops, CallbackNotifies, SendStops,
    SendFails, NewConnection, OpenIo, OpenSend, OpenDone, RejectNew, ReplaceInVc, ReplaceInIo,
    ReplaceInSend, CloseBegins, CloseJoinsSend, CloseJoinsIo, CloseDrops, vars, pollVars, readVars

\* What recv gives: the chunks of a stream from one to another.
LEMMA ChunkRun ==
    ASSUME NEW c \in Conns, NEW from \in Nat, NEW m \in Nat
    PROVE  [n \in 1..m |-> <<c, from + n>>] \in [1..m -> Chunks]
<1>1. \A n \in 1..m : <<c, from + n>> \in Chunks
    BY DEF Chunks
<1> QED
    BY <1>1

\* They follow what the buffer held.
LEMMA ReadChunks ==
    ASSUME NEW b \in Seq(Chunks), NEW r \in Seq(Chunks), NEW c, NEW from \in Nat,
           \A n \in 1..Len(r) : r[n] = <<c, from + n>>
    PROVE  \A k \in 1..(Len(b) + Len(r)) :
              /\ k <= Len(b) => (b \o r)[k] = b[k]
              /\ ~(k <= Len(b)) => (b \o r)[k] = <<c, from + (k - Len(b))>>
<1> TAKE k \in 1..(Len(b) + Len(r))
<1>1. Len(b) \in Nat /\ Len(r) \in Nat
    OBVIOUS
<1>2. (b \o r)[k] = IF k <= Len(b) THEN b[k] ELSE r[k - Len(b)]
    BY ConcatProperties
<1>3. ~(k <= Len(b)) => k - Len(b) \in 1..Len(r)
    BY <1>1
<1> QED
    BY <1>2, <1>3

\* Consuming a packet removes its two chunks from the buffer.
LEMMA ConsumeTwo ==
    ASSUME NEW b \in Seq(Chunks), Len(b) >= 2
    PROVE  LET d == SubSeq(b, 3, Len(b)) IN
           /\ d \in Seq(Chunks) /\ Len(d) = Len(b) - 2
           /\ \A k \in DOMAIN d : k + 2 \in DOMAIN b /\ d[k] = b[k + 2]
           /\ b[1] \in Chunks /\ b[2] \in Chunks
<1> DEFINE d == SubSeq(b, 3, Len(b))
<1>1. Len(b) \in Nat /\ b[1] \in Chunks /\ b[2] \in Chunks
    OBVIOUS
<1>2. d \in Seq(Chunks) /\ Len(d) = IF 3 <= Len(b) THEN Len(b) - 3 + 1 ELSE 0
    <2>1. \A i \in 3..Len(b) : b[i] \in Chunks
        BY <1>1
    <2>2. 3 \in Int /\ Len(b) \in Int
        BY <1>1
    <2> QED
        BY <2>1, <2>2, SubSeqProperties
<1>3. Len(d) = Len(b) - 2
    <2> DEFINE m == Len(b)
    <2>1. m \in Nat /\ m >= 2 /\ Len(d) = IF 3 <= m THEN m - 3 + 1 ELSE 0
        BY <1>1, <1>2
    <2> HIDE DEF m, d
    <2>2. Len(d) = m - 2
        BY <2>1
    <2> QED
        BY <2>2 DEF m
<1>4. ASSUME NEW k \in DOMAIN d PROVE k + 2 \in DOMAIN b /\ d[k] = b[k + 2]
    <2>1. k \in 1..(Len(b) - 2)
        BY <1>2, <1>3
    <2>2. k + 2 \in 1..Len(b) /\ 3 + k - 1 = k + 2
        BY <1>1, <2>1
    <2>3. d[k] = b[3 + k - 1]
        BY <1>1, <2>1
    <2> QED
        BY <2>2, <2>3
<1> QED
    BY <1>1, <1>2, <1>3, <1>4

\* Handing a packet on keeps the types of the buffers and of what was handed on.
LEMMA HandOnTypes ==
    ASSUME ReadTypes, NEW b \in Seq(Chunks), Len(b) >= 2, HandOn(b)
    PROVE  buffer' \in [Slots -> Seq(Chunks)] /\ out' \in [Conns -> Seq(Chunks \X Chunks)]
<1>1. SubSeq(b, 3, Len(b)) \in Seq(Chunks) /\ b[1] \in Chunks /\ b[2] \in Chunks
    BY ConsumeTwo
<1>2. buffer' \in [Slots -> Seq(Chunks)]
    BY <1>1 DEF HandOn, ReadTypes
<1>3. <<b[1], b[2]>> \in Chunks \X Chunks
    BY <1>1
<1>4. \A c \in Conns : Append(out[c], <<b[1], b[2]>>) \in Seq(Chunks \X Chunks)
    BY <1>3 DEF ReadTypes
<1>5. out' \in [Conns -> Seq(Chunks \X Chunks)]
    BY <1>4 DEF HandOn, ReadTypes
<1> QED
    BY <1>2, <1>5

\* Every step keeps the types of run()'s locals.
LEMMA ReadTypesKept ==
    ASSUME IInv, NetTypes, ReadTypes, [Next]_vars
    PROVE  ReadTypes'
<1>1. CASE IoRefresh
    <2> DEFINE snap == IF gen # cachedGen THEN ioConns ELSE snapshot
               kept == {i \in Slots : fd[snap[i]] = prevFds[i] /\ buffer[i] # <<>>}
               pairs == UNION {{snap[i], snapshot[i]} : i \in {k \in kept : snap[k] # snapshot[k]}}
    <2>1. prevFds' = [i \in Slots |-> fd[snap[i]]] /\ joined' = joined \cup pairs
        BY <1>1 DEF IoRefresh
    <2>2. /\ \A i \in Slots : buffer'[i] \in {buffer[i], <<>>}
          /\ DOMAIN buffer' = Slots /\ buffer' = [i \in Slots |-> buffer'[i]]
          /\ UNCHANGED out
        BY <1>1 DEF IoRefresh
    <2>3. snap \in [Slots -> Conns] /\ snapshot \in [Slots -> Conns]
        BY SlotConns
    <2> HIDE DEF snap
    <2>4. prevFds' \in [Slots -> Fds \cup {None}]
        BY <2>1, <2>3 DEF IInv, ConnTypes
    <2>5. joined' \subseteq Conns
        <3>1. pairs \subseteq Conns
            BY <2>3
        <3> QED
            BY <2>1, <3>1 DEF ReadTypes
    <2>6. \A i \in Slots : buffer'[i] \in Seq(Chunks)
        BY <2>2, EmptySeq DEF ReadTypes
    <2>7. buffer' \in [Slots -> Seq(Chunks)]
        BY <2>2, <2>6
    <2> QED
        BY <2>2, <2>4, <2>5, <2>7 DEF ReadTypes
<1>2. CASE RecvData
    <2> DEFINE c == CurConn
               d == buffer[Cur] \o [n \in 1..(sent[c] - nread[c]) |-> <<c, nread[c] + n>>]
    <2>1. /\ nread[c] < sent[c] /\ buffer' = [buffer EXCEPT ![Cur] = d]
          /\ UNCHANGED <<prevFds, out, joined>>
        BY <1>2 DEF RecvData, pollVars
    <2>2. Cur \in Slots /\ c \in Conns
        BY <1>2, CurFacts DEF RecvData
    <2>3. d \in Seq(Chunks)
        <3> DEFINE m == sent[c] - nread[c]
                   r == [n \in 1..m |-> <<c, nread[c] + n>>]
        <3>1. m \in Nat /\ nread[c] \in Nat /\ buffer[Cur] \in Seq(Chunks)
            BY <2>1, <2>2 DEF NetTypes, ReadTypes
        <3>2. d = buffer[Cur] \o r
            OBVIOUS
        <3> HIDE DEF m, c, d
        <3>3. r \in [1..m -> Chunks]
            BY <2>2, <3>1, ChunkRun
        <3> HIDE DEF r
        <3>4. r \in Seq(Chunks)
            BY <3>1, <3>3
        <3> QED
            BY <3>1, <3>2, <3>4
    <2> HIDE DEF c, d
    <2> QED
        BY <2>1, <2>2, <2>3 DEF ReadTypes
<1>3. CASE ParsePacket \/ ParseGarbage
    <2>1. Cur \in Slots
        BY <1>3, CurFacts DEF ParsePacket, ParseGarbage
    <2>2. buffer[Cur] \in Seq(Chunks)
        BY <2>1 DEF ReadTypes
    <2>3. /\ UNCHANGED <<prevFds, joined>>
          /\ \/ Len(buffer[Cur]) >= 2 /\ HandOn(buffer[Cur])
             \/ buffer' = [buffer EXCEPT ![Cur] = <<>>] /\ UNCHANGED out
             \/ UNCHANGED <<buffer, out>>
        BY <1>3 DEF ParsePacket, ParseGarbage, pollVars
    <2>4. CASE Len(buffer[Cur]) >= 2 /\ HandOn(buffer[Cur])
        BY <2>2, <2>3, <2>4, HandOnTypes DEF ReadTypes
    <2>5. CASE buffer' = [buffer EXCEPT ![Cur] = <<>>] /\ UNCHANGED out
        BY <2>1, <2>3, <2>5 DEF ReadTypes
    <2>6. CASE UNCHANGED <<buffer, out>>
        BY <2>3, <2>6 DEF ReadTypes
    <2> QED
        BY <2>3, <2>4, <2>5, <2>6
<1>4. CASE UNCHANGED <<snapshot, prevFds, buffer, out, joined>>
    BY <1>4 DEF ReadTypes
<1> QED
    BY <1>1, <1>2, <1>3, <1>4, ReadFrame

Types == NetTypes /\ FlagTypes /\ ReadTypes

\* The typing parts of the invariants make up TypeOK.
LEMMA TypesFollow ==
    ASSUME IInv, Types
    PROVE  TypeOK
<1>1. /\ conns \in [Slots -> Conns] /\ ioConns \in [Slots -> Conns]
      /\ sendConns \in [Slots -> Conns] /\ snapshot \in [Slots -> Conns]
    BY SlotConns
<1>2. callbacks \in Nat
    BY DEF IInv, ThreadTypes
<1> QED
    BY <1>1, <1>2 DEF TypeOK, IInv, ThreadTypes, ConnTypes, Reading, Types, NetTypes, FlagTypes,
                      ReadTypes

\* The types hold when open() is entered.
LEMMA TypesInitially == Init => Types
<1> SUFFICES ASSUME Init PROVE Types
    OBVIOUS
<1>1. NetTypes
    <2>1. \A c \in Conns : Budget[c] \in Nat
        BY DEF Conns
    <2> QED
        BY <2>1 DEF Init, NetTypes
<1>2. FlagTypes
    <2>1. /\ mutex \in Threads \cup {"none"} /\ newConn \in Conns \cup {None}
          /\ hasSend \in BOOLEAN /\ ioRunning \in BOOLEAN /\ sendRunning \in BOOLEAN
          /\ sawSend \in BOOLEAN /\ crashed \in BOOLEAN
        BY Zenon DEF Init
    <2>2. connGeneration \in Nat /\ gen \in Nat /\ cachedGen \in Int
        BY DEF Init
    <2> QED
        BY <2>1, <2>2 DEF FlagTypes
<1>3. ReadTypes
    BY DEF Init, ReadTypes
<1> QED
    BY <1>1, <1>2, <1>3 DEF Types
------------------------------------------------------------------------------
(***************************************************************************)
(* The streams.  A connection keeps its slot: it enters the IO thread's    *)
(* vector and then the snapshot in one slot, unread, and does not come     *)
(* back.  A read buffer holds chunks of the slot's connection only, from   *)
(* the first one not handed on, or chunks of connections that were joined. *)
(* That a buffer is emptied exactly when its connection died or was        *)
(* replaced rests on the descriptor numbers run() remembers.               *)
(***************************************************************************)
Publishing == ownPc \in {"bind", "replaceIo"}

Placed ==
    /\ \A i, j \in Slots : ioConns[i] = ioConns[j] => i = j
    /\ \A i, j \in Slots : snapshot[i] = snapshot[j] => i = j
    /\ \A i, j \in Slots : snapshot[i] = ioConns[j] => i = j
    /\ Publishing => \A i \in Slots : newConn # ioConns[i] /\ newConn # snapshot[i]

ReadPcs == {"slot", "recv", "parse", "cb", "cbCount", "cbStop", "cbNotify"}

Remembered ==
    /\ \A i \in Slots : prevFds[i] = None => buffer[i] = <<>>
    /\ \A i \in Slots : prevFds[i] # None => fd[snapshot[i]] \in {prevFds[i], None}
    /\ pc["io"] \in ReadPcs => \A i \in ready : prevFds[i] # None

InSnapshot(c) == \E i \in Slots : snapshot[i] = c

BufferHolds(i) ==
    IF snapshot[i] \notin joined
      THEN \A k \in DOMAIN buffer[i] :
              buffer[i][k] = <<snapshot[i], 2 * Len(out[snapshot[i]]) + k>>
      ELSE \A k \in DOMAIN buffer[i] : buffer[i][k][1] \in joined

Buffered == \A i \in Slots : BufferHolds(i)

Live(i) == snapshot[i] \notin joined /\ Up(snapshot[i])

Counted ==
    \A i \in Slots :
        Live(i) => nread[snapshot[i]] = 2 * Len(out[snapshot[i]]) + Len(buffer[i])

Parsed ==
    \A i \in Slots : (Live(i) /\ Len(buffer[i]) >= 2) =>
        pc["io"] \in {"recv", "parse"} /\ i \in ready /\ i = Cur

Coming(d) == d > made \/ (Publishing /\ d = newConn) \/ \E i \in Slots : d = ioConns[i]

Fresh ==
    \A d \in Conns \ joined :
        (~InSnapshot(d) /\ Coming(d)) => nread[d] = 0 /\ out[d] = <<>>

Left ==
    \A c \in Conns \ joined : (~InSnapshot(c) /\ Up(c)) => Len(out[c]) = nread[c] \div 2

Whole ==
    \A c \in Conns \ joined :
        \A k \in DOMAIN out[c] : out[c][k] = <<<<c, 2 * k - 1>>, <<c, 2 * k>>>>

\* What a step does to the places of the connections.
PlaceQuiet ==
    /\ UNCHANGED <<ioConns, made>> /\ snapshot' \in {snapshot, ioConns}
    /\ Publishing' => Publishing /\ newConn' = newConn

\* Only the owner puts a new connection into a vector of connections.
LEMMA PlaceFrame ==
    ASSUME [Next]_vars
    PROVE  PlaceQuiet \/ (\E i \in Slots : NewConnection(i)) \/ ReplaceInIo
<1> USE DEF PlaceQuiet, Publishing, netVars, slotVars, pollVars, ownVars
<1>1. CASE \E c \in Conns : PeerSends(c) \/ PeerCloses(c)
    BY <1>1 DEF PeerSends, PeerCloses
<1>2. CASE IoTop \/ IoRefresh \/ IoPoll \/ IoSlot
    BY <1>2 DEF IoTop, IoRefresh, IoPoll, IoSlot
<1>3. CASE RecvData \/ RecvDone \/ RecvFails
    BY <1>3 DEF RecvData, RecvDone, RecvFails, Disconnect
<1>4. CASE ParsePacket \/ ParseDone \/ ParseGarbage
    BY <1>4 DEF ParsePacket, ParseDone, ParseGarbage
<1>5. CASE \E t \in Threads : \/ CallbackEnters(t) \/ CallbackStays(t) \/ CallbackEnds(t)
                              \/ CallbackStops(t) \/ CallbackNotifies(t)
    BY <1>5 DEF CallbackEnters, CallbackStays, CallbackEnds, CallbackStops, CallbackNotifies
<1>6. CASE SendStops \/ \E i \in Slots : SendFails(i)
    BY <1>6 DEF SendStops, SendFails, Disconnect
<1>7. CASE OpenIo \/ OpenSend \/ OpenDone
    BY <1>7 DEF OpenIo, OpenSend, OpenDone
<1>8. CASE RejectNew \/ ReplaceInVc \/ ReplaceInSend
    BY <1>8 DEF RejectNew, ReplaceInVc, ReplaceInSend, Disconnect
<1>9. CASE CloseBegins \/ CloseJoinsSend \/ CloseJoinsIo \/ CloseDrops
    BY <1>9 DEF CloseBegins, CloseJoinsSend, CloseJoinsIo, CloseDrops
<1>10. CASE UNCHANGED vars
    BY <1>10 DEF vars
<1> QED
    BY <1>1, <1>2, <1>3, <1>4, <1>5, <1>6, <1>7, <1>8, <1>9, <1>10, StepCases

\* Every step keeps the connections in their slots.
LEMMA PlacedKept ==
    ASSUME IInv, Placed, [Next]_vars
    PROVE  Placed'
<1>0. /\ ioConns \in [Slots -> Conns] /\ snapshot \in [Slots -> Conns] /\ made \in Nat
      /\ \A i \in Slots : snapshot[i] <= made /\ ioConns[i] <= made
      /\ Conns \subseteq Nat
    BY SlotConns DEF Conns
<1>1. CASE PlaceQuiet
    <2>1. /\ ioConns' = ioConns /\ (snapshot' = snapshot \/ snapshot' = ioConns)
          /\ Publishing' => Publishing /\ newConn' = newConn
        BY <1>1 DEF PlaceQuiet
    <2> QED
        BY <2>1 DEF Placed
<1>2. ASSUME NEW s \in Slots, NewConnection(s) PROVE Placed'
    <2>1. newConn' = made + 1 /\ UNCHANGED <<ioConns, snapshot>>
        BY <1>2 DEF NewConnection, slotVars, pollVars
    <2>2. \A i \in Slots : made + 1 # ioConns[i] /\ made + 1 # snapshot[i]
        BY <1>0
    <2> QED
        BY <2>1, <2>2 DEF Placed
<1>3. CASE ReplaceInIo
    <2>1. /\ ownPc = "replaceIo" /\ ioConns' = [ioConns EXCEPT ![newSlot] = newConn]
          /\ ownPc' = "replaceSend" /\ snapshot' = snapshot
        BY <1>3 DEF ReplaceInIo, pollVars
    <2>2. newSlot \in Slots /\ \A i \in Slots : newConn # ioConns[i] /\ newConn # snapshot[i]
        BY <2>1 DEF Placed, Publishing, IInv, ConnTypes
    <2>3. \A i \in Slots : ioConns'[i] = IF i = newSlot THEN newConn ELSE ioConns[i]
        BY <1>0, <2>1
    <2>4. ~Publishing'
        BY <2>1 DEF Publishing
    <2> QED
        BY <2>1, <2>2, <2>3, <2>4 DEF Placed
<1> QED
    BY <1>1, <1>2, <1>3, PlaceFrame

\* What a step does to the streams: only RecvData reads, a connection comes up
\* when it is made and goes down for good, and what goes down is unread.
NetQuiet ==
    /\ \A c \in Conns : Up(c)' => /\ nread'[c] = nread[c]
                                  /\ c > made \/ (Up(c) /\ fd'[c] = fd[c])
    /\ \A c \in Conns : nread'[c] \in {nread[c], 0}

\* TcpConnection::disconnect takes a connection down and reads nothing.
LEMMA DisconnectQuiet ==
    ASSUME NetTypes, ConnTypes, NEW c, Disconnect(c)
    PROVE  NetQuiet /\ (c \in Conns => ~Up(c)')
BY DEF Disconnect, NetTypes, ConnTypes, NetQuiet, Up

\* Every step but recv is quiet in this sense.
LEMMA NetFrame ==
    ASSUME IInv, NetTypes, [Next]_vars
    PROVE  RecvData \/ NetQuiet
<1> USE DEF netVars
<1>0. ConnTypes /\ made \in Nat
    BY SlotConns DEF IInv
<1>1. CASE RecvFails
    BY <1>0, <1>1, DisconnectQuiet DEF RecvFails
<1>2. CASE \E i \in Slots : SendFails(i)
    BY <1>0, <1>2, DisconnectQuiet DEF SendFails
<1>3. CASE RejectNew
    BY <1>0, <1>3, DisconnectQuiet DEF RejectNew
<1>4. ASSUME NEW i \in Slots, NewConnection(i) PROVE NetQuiet
    <2>1. PICK f : fd' = [fd EXCEPT ![made + 1] = f]
        BY <1>4 DEF NewConnection
    <2>2. nread' = nread
        BY <1>4 DEF NewConnection
    <2>3. \A c \in Conns : fd'[c] = fd[c] \/ c > made
        BY <1>0, <2>1 DEF ConnTypes, Conns
    <2> QED
        BY <2>2, <2>3 DEF NetQuiet, Up
<1>5. CASE CloseDrops
    <2>1. nread' = nread /\ \A c \in Conns : fd'[c] \in {fd[c], None}
        BY <1>5 DEF CloseDrops
    <2> QED
        BY <2>1 DEF NetQuiet, Up
<1>6. CASE UNCHANGED <<fd, nread>>
    BY <1>6 DEF NetQuiet, Up
<1>7. \/ RecvData \/ RecvFails \/ (\E i \in Slots : SendFails(i) \/ NewConnection(i))
      \/ RejectNew \/ CloseDrops \/ UNCHANGED <<fd, nread>>
    BY StepCases
    DEF PeerSends, PeerCloses, IoTop, IoRefresh, IoPoll, IoSlot, RecvDone, ParsePacket,
        ParseDone, ParseGarbage, CallbackEnters, CallbackStays, CallbackEnds, CallbackStops,
        CallbackNotifies, SendStops, OpenIo, OpenSend, OpenDone, ReplaceInVc, ReplaceInIo,
        ReplaceInSend, CloseBegins, CloseJoinsSend, CloseJoinsIo, vars
<1> QED
    BY <1>1, <1>2, <1>3, <1>4, <1>5, <1>6, <1>7

\* How the IO thread leaves the drain and the parse loop, and which slots it may
\* still read.
LEMMA PcFrame ==
    ASSUME IInv, [Next]_vars
    PROVE  /\ pc["io"] \in {"recv", "parse"} =>
                \/ pc'["io"] \in {"recv", "parse"} /\ ready' = ready
                \/ ParseGarbage \/ ParseDone \/ RecvFails
           /\ pc'["io"] \in ReadPcs => IoPoll \/ (pc["io"] \in ReadPcs /\ ready' \subseteq ready)
<1> USE DEF ReadPcs, GoTo, Threads, Pcs
<1>0. pc \in [Threads -> Pcs]
    BY DEF IInv, ThreadTypes
<1>1. CASE UNCHANGED <<pc, ready>>
    BY <1>1
<1>2. CASE IoTop \/ IoRefresh \/ IoPoll
    BY <1>0, <1>2 DEF IoTop, IoRefresh, IoPoll
<1>3. CASE IoSlot \/ RecvDone
    BY <1>0, <1>3 DEF IoSlot, RecvDone, SlotDone
<1>4. CASE RecvFails \/ ParseDone \/ ParseGarbage
    BY <1>0, <1>4 DEF RecvFails, ParseDone, ParseGarbage, SlotDone
<1>5. ASSUME NEW t \in Threads,
             \/ CallbackEnters(t) \/ CallbackStays(t) \/ CallbackEnds(t)
             \/ CallbackStops(t) \/ CallbackNotifies(t)
      PROVE  /\ t = "io" => pc["io"] \in {"cb", "cbCount", "cbStop", "cbNotify"}
             /\ t # "io" => pc'["io"] = pc["io"]
             /\ ready' \subseteq ready /\ (t # "io" => ready' = ready)
    BY <1>0, <1>5 DEF CallbackEnters, CallbackStays, CallbackEnds, CallbackStops,
                      CallbackNotifies, Return, SlotDone
<1>6. CASE SendStops \/ \E i \in Slots : SendFails(i)
    BY <1>0, <1>6 DEF SendStops, SendFails
<1>7. CASE OpenIo
    BY <1>0, <1>7 DEF OpenIo, IInv, OpensOnce
<1>8. CASE OpenSend
    BY <1>0, <1>8 DEF OpenSend
<1>9. \/ UNCHANGED <<pc, ready>> \/ IoTop \/ IoRefresh \/ IoPoll \/ IoSlot \/ RecvDone
      \/ RecvFails \/ ParseDone \/ ParseGarbage
      \/ (\E t \in Threads : \/ CallbackEnters(t) \/ CallbackStays(t) \/ CallbackEnds(t)
                              \/ CallbackStops(t) \/ CallbackNotifies(t))
      \/ SendStops \/ (\E i \in Slots : SendFails(i)) \/ OpenIo \/ OpenSend
    BY StepCases
    DEF PeerSends, PeerCloses, RecvData, ParsePacket, NewConnection, OpenDone, RejectNew,
        ReplaceInVc, ReplaceInIo, ReplaceInSend, CloseBegins, CloseJoinsSend, CloseJoinsIo,
        CloseDrops, vars
<1> QED
    BY <1>1, <1>2, <1>3, <1>4, <1>5, <1>6, <1>7, <1>8, <1>9

\* A connection that is still to come was so before.
LEMMA ComingKept ==
    ASSUME IInv, [Next]_vars, NEW d \in Conns, Coming(d)'
    PROVE  Coming(d)
<1>0. ioConns \in [Slots -> Conns] /\ made \in Nat /\ d \in Nat
    BY SlotConns DEF Conns
<1>1. CASE PlaceQuiet
    BY <1>1 DEF PlaceQuiet, Coming
<1>2. ASSUME NEW s \in Slots, NewConnection(s) PROVE Coming(d)
    <2>1. newConn' = made + 1 /\ made' = made + 1 /\ UNCHANGED ioConns
        BY <1>2 DEF NewConnection, slotVars
    <2>2. d > made' \/ d = newConn' \/ \E i \in Slots : d = ioConns[i]
        BY <2>1 DEF Coming
    <2> QED
        BY <1>0, <2>1, <2>2 DEF Coming
<1>3. CASE ReplaceInIo
    <2>1. /\ ownPc = "replaceIo" /\ ioConns' = [ioConns EXCEPT ![newSlot] = newConn]
          /\ ownPc' = "replaceSend" /\ made' = made
        BY <1>3 DEF ReplaceInIo, netVars
    <2>2. Publishing /\ ~Publishing'
        BY <2>1 DEF Publishing
    <2>3. \A i \in Slots : ioConns'[i] = newConn \/ ioConns'[i] = ioConns[i]
        BY <1>0, <2>1
    <2> QED
        BY <2>1, <2>2, <2>3 DEF Coming
<1> QED
    BY <1>1, <1>2, <1>3, PlaceFrame

Stream == Remembered /\ Buffered /\ Counted /\ Parsed /\ Fresh /\ Left /\ Whole

\* A step that leaves the buffers alone.
LEMMA StillKeeps ==
    ASSUME IInv, Types, Placed, Stream, [Next]_vars, NetQuiet,
           UNCHANGED <<snapshot, prevFds, buffer, out, joined>>, ~ParseGarbage
    PROVE  Stream'
<1>0. /\ snapshot \in [Slots -> Conns] /\ made \in Nat /\ Conns \subseteq Nat
      /\ \A i \in Slots : snapshot[i] <= made
      /\ nread \in [Conns -> Nat]
    BY SlotConns DEF Conns, Types, NetTypes
<1>1. ASSUME NEW i \in Slots, Up(snapshot[i])'
      PROVE  /\ Up(snapshot[i]) /\ fd'[snapshot[i]] = fd[snapshot[i]]
             /\ nread'[snapshot[i]] = nread[snapshot[i]]
    <2>0. snapshot[i] \in Conns /\ snapshot[i] \in Nat /\ snapshot'[i] = snapshot[i]
        BY <1>0
    <2>1. ~(snapshot[i] > made)
        BY <1>0, <2>0
    <2>2. fd'[snapshot[i]] # None
        BY <1>1, <2>0 DEF Up
    <2> QED
        BY <2>0, <2>1, <2>2 DEF NetQuiet, Up
<1>2. \A i \in Slots : Live(i)' => Live(i)
    BY <1>1 DEF Live
<1>3. Remembered'
    <2>1. \A i \in Slots : prevFds'[i] = None => buffer'[i] = <<>>
        BY DEF Stream, Remembered
    <2>2. \A i \in Slots : prevFds'[i] # None => fd'[snapshot'[i]] \in {prevFds'[i], None}
        BY <1>1 DEF Stream, Remembered, Up
    <2>3. pc'["io"] \in ReadPcs => \A i \in ready' : prevFds'[i] # None
        BY PcFrame DEF Stream, Remembered, IoPoll
    <2> QED
        BY <2>1, <2>2, <2>3 DEF Remembered
<1>4. Buffered'
    BY DEF Stream, Buffered, BufferHolds
<1>5. Counted'
    <2> SUFFICES ASSUME NEW i \in Slots, Live(i)'
                 PROVE  nread'[snapshot[i]] = 2 * Len(out[snapshot[i]]) + Len(buffer[i])
        BY DEF Counted
    <2>1. Live(i) /\ nread'[snapshot[i]] = nread[snapshot[i]]
        BY <1>1, <1>2 DEF Live
    <2> QED
        BY <2>1 DEF Stream, Counted
<1>6. Parsed'
    <2> SUFFICES ASSUME NEW i \in Slots, Live(i)', Len(buffer[i]) >= 2
                 PROVE  pc'["io"] \in {"recv", "parse"} /\ i \in ready' /\ i = Cur'
        BY DEF Parsed
    <2>1. pc["io"] \in {"recv", "parse"} /\ i \in ready /\ i = Cur
        BY <1>2 DEF Stream, Parsed
    <2>2. ~ParseDone
        <3> SUFFICES ASSUME ParseDone PROVE FALSE
            OBVIOUS
        <3>1. Len(buffer[i]) < 2
            BY <2>1 DEF ParseDone
        <3>2. Len(buffer[i]) \in Nat
            BY DEF Types, ReadTypes
        <3> QED
            BY <3>1, <3>2
    <2>3. ~RecvFails
        <3> SUFFICES ASSUME RecvFails PROVE FALSE
            OBVIOUS
        <3>1. Disconnect(snapshot[i])
            BY <2>1 DEF RecvFails, CurConn
        <3>2. fd'[snapshot[i]] = None
            BY <1>0, <3>1 DEF Disconnect, IInv, ConnTypes
        <3> QED
            BY <3>2 DEF Live, Up
    <2>4. pc'["io"] \in {"recv", "parse"} /\ ready' = ready
        BY <2>1, <2>2, <2>3, PcFrame
    <2>5. Cur' = Cur
        BY <2>4 DEF Cur
    <2> QED
        BY <2>1, <2>4, <2>5
<1>7. \A c : InSnapshot(c)' <=> InSnapshot(c)
    BY DEF InSnapshot
<1>8. Fresh'
    <2> SUFFICES ASSUME NEW d \in Conns \ joined, ~InSnapshot(d), Coming(d)'
                 PROVE  nread'[d] = 0 /\ out[d] = <<>>
        BY <1>7 DEF Fresh
    <2>1. nread[d] = 0 /\ out[d] = <<>>
        BY ComingKept DEF Stream, Fresh
    <2> QED
        BY <2>1 DEF NetQuiet
<1>9. Left'
    <2> SUFFICES ASSUME NEW c \in Conns \ joined, ~InSnapshot(c), Up(c)'
                 PROVE  Len(out[c]) = nread'[c] \div 2
        BY <1>7 DEF Left
    <2>1. nread'[c] = nread[c] /\ (c > made \/ Up(c))
        BY DEF NetQuiet
    <2>2. CASE c > made
        <3>1. nread[c] = 0 /\ out[c] = <<>>
            BY <2>2 DEF Stream, Fresh, Coming
        <3>2. Len(<<>>) = 0 /\ 0 \div 2 = 0
            OBVIOUS
        <3> QED
            BY <2>1, <3>1, <3>2
    <2>3. CASE Up(c)
        BY <2>1, <2>3 DEF Stream, Left
    <2> QED
        BY <2>1, <2>2, <2>3
<1>10. Whole'
    BY DEF Stream, Whole
<1> QED
    BY <1>3, <1>4, <1>5, <1>6, <1>8, <1>9, <1>10 DEF Stream

\* Chunks are counted from the packets handed on and the chunks in the buffer.
LEMMA ReadSum ==
    ASSUME NEW packets \in Nat, NEW held \in Nat, NEW read \in Nat, NEW n \in Nat,
           read = 2 * packets + held
    PROVE  /\ read + (n - held) = 2 * packets + n
           /\ n = 2 * packets + (held + (n - read))
OBVIOUS

\* recv: the buffer grows by the chunks that follow the ones it holds.
LEMMA RecvKeeps ==
    ASSUME IInv, Types, Placed, Stream, RecvData
    PROVE  Stream'
<1> DEFINE c == CurConn
           d == buffer[Cur] \o [n \in 1..(sent[c] - nread[c]) |-> <<c, nread[c] + n>>]
<1>0. /\ pc["io"] = "recv" /\ Up(c) /\ nread[c] < sent[c]
      /\ nread' = [nread EXCEPT ![c] = sent[c]] /\ buffer' = [buffer EXCEPT ![Cur] = d]
      /\ UNCHANGED <<fd, made, pc, ready, ioConns, snapshot, prevFds, out, joined, ownPc, newConn>>
    BY DEF RecvData, slotVars, pollVars, ownVars
<1>1. Cur \in ready /\ Cur \in Slots /\ c \in Conns /\ c = snapshot[Cur]
    BY <1>0, CurFacts DEF CurConn
<1>2. /\ snapshot \in [Slots -> Conns] /\ buffer \in [Slots -> Seq(Chunks)]
      /\ nread \in [Conns -> Nat] /\ sent \in [Conns -> Nat]
      /\ out \in [Conns -> Seq(Chunks \X Chunks)]
    BY SlotConns DEF Types, NetTypes, ReadTypes
<1>3. Cur' = Cur
    BY <1>0 DEF Cur
<1>4. /\ d \in Seq(Chunks) /\ Len(d) = Len(buffer[Cur]) + (sent[c] - nread[c])
      /\ \A k \in DOMAIN d : IF k <= Len(buffer[Cur]) THEN d[k] = buffer[Cur][k]
                             ELSE d[k] = <<c, nread[c] + (k - Len(buffer[Cur]))>>
    <2> DEFINE b == buffer[Cur]
               m == sent[c] - nread[c]
               from == nread[c]
               r == [n \in 1..m |-> <<c, from + n>>]
    <2>1. b \in Seq(Chunks) /\ from \in Nat /\ m \in Nat /\ c \in Conns
        BY <1>0, <1>1, <1>2
    <2>2. d = b \o r
        OBVIOUS
    <2> HIDE DEF b, from, m, c, d
    <2>3. r \in [1..m -> Chunks] /\ \A n \in 1..m : r[n] = <<c, from + n>>
        BY <2>1, ChunkRun
    <2> HIDE DEF r
    <2>4. r \in Seq(Chunks) /\ Len(r) = m
        BY <2>1, <2>3
    <2>5. \A n \in 1..m : r[n] = <<c, from + n>>
        BY <2>3
    <2>6. b \o r \in Seq(Chunks) /\ Len(b \o r) = Len(b) + Len(r)
        BY <2>1, <2>4, ConcatProperties
    <2>7. \A k \in 1..(Len(b) + Len(r)) :
              /\ k <= Len(b) => (b \o r)[k] = b[k]
              /\ ~(k <= Len(b)) => (b \o r)[k] = <<c, from + (k - Len(b))>>
        BY <2>1, <2>4, <2>5, ReadChunks
    <2>8. d \in Seq(Chunks) /\ DOMAIN d = 1..(Len(b) + Len(r)) /\ Len(d) = Len(b) + m
        BY <2>2, <2>4, <2>6
    <2>9. \A k \in DOMAIN d : IF k <= Len(b) THEN d[k] = b[k]
                             ELSE d[k] = <<c, from + (k - Len(b))>>
        BY <2>2, <2>7, <2>8
    <2> QED
        BY <2>8, <2>9 DEF b, from, m
<1> HIDE DEF d, c
<1>5. /\ buffer'[Cur] = d
      /\ \A i \in Slots : i # Cur => /\ buffer'[i] = buffer[i] /\ snapshot[i] # c
                                    /\ nread'[snapshot[i]] = nread[snapshot[i]]
    <2>1. \A i \in Slots : i # Cur => snapshot[i] # c
        BY <1>1 DEF Placed
    <2> QED
        BY <1>0, <1>1, <1>2, <2>1
<1>6. \A i \in Slots : Live(i)' <=> Live(i)
    BY <1>0 DEF Live, Up
<1>7. Remembered'
    <2>1. prevFds[Cur] # None
        BY <1>0, <1>1 DEF Stream, Remembered, ReadPcs
    <2> QED
        BY <1>0, <1>5, <2>1 DEF Stream, Remembered
<1>8. Buffered'
    <2> SUFFICES ASSUME NEW i \in Slots PROVE BufferHolds(i)'
        BY DEF Buffered
    <2>1. CASE i # Cur
        BY <1>0, <1>5, <2>1 DEF Stream, Buffered, BufferHolds
    <2>2. CASE i = Cur /\ c \notin joined
        <3>1. nread[c] = 2 * Len(out[c]) + Len(buffer[Cur])
            BY <1>0, <1>1, <2>2 DEF Stream, Counted, Live
        <3>2. Len(out[c]) \in Nat /\ Len(buffer[Cur]) \in Nat
            BY <1>1, <1>2
        <3>3. ASSUME NEW k \in DOMAIN d PROVE d[k] = <<c, 2 * Len(out[c]) + k>>
            <4>1. k \in Nat
                BY <1>4
            <4>2. CASE k <= Len(buffer[Cur])
                <5>1. k \in DOMAIN buffer[Cur]
                    BY <1>1, <1>2, <1>4, <4>2
                <5>2. buffer[Cur][k] = <<c, 2 * Len(out[c]) + k>>
                    BY <1>1, <2>2, <5>1 DEF Stream, Buffered, BufferHolds
                <5> QED
                    BY <1>4, <4>2, <5>2
            <4>3. CASE ~(k <= Len(buffer[Cur]))
                <5>1. nread[c] + (k - Len(buffer[Cur])) = 2 * Len(out[c]) + k
                    <6> DEFINE packets == Len(out[c])
                               held == Len(buffer[Cur])
                               read == nread[c]
                    <6>1. packets \in Nat /\ held \in Nat /\ read \in Nat /\ read = 2 * packets + held
                        BY <1>1, <1>2, <3>1, <3>2
                    <6> HIDE DEF packets, held, read
                    <6>2. read + (k - held) = 2 * packets + k
                        BY <4>1, <6>1, ReadSum
                    <6> QED
                        BY <6>2 DEF packets, held, read
                <5> QED
                    BY <1>4, <4>3, <5>1
            <4> QED
                BY <4>2, <4>3
        <3> QED
            BY <1>0, <1>1, <1>5, <2>2, <3>3 DEF BufferHolds
    <2>3. CASE i = Cur /\ c \in joined
        <3>1. ASSUME NEW k \in DOMAIN d PROVE d[k][1] \in joined
            <4>1. CASE k <= Len(buffer[Cur])
                <5>1. k \in DOMAIN buffer[Cur]
                    BY <1>1, <1>2, <1>4, <4>1
                <5> QED
                    BY <1>1, <1>4, <2>3, <4>1, <5>1 DEF Stream, Buffered, BufferHolds
            <4>2. CASE ~(k <= Len(buffer[Cur]))
                BY <1>4, <2>3, <4>2
            <4> QED
                BY <4>1, <4>2
        <3> QED
            BY <1>0, <1>1, <1>5, <2>3, <3>1 DEF BufferHolds
    <2> QED
        BY <2>1, <2>2, <2>3
<1>9. Counted'
    <2> SUFFICES ASSUME NEW i \in Slots, Live(i)
                 PROVE  nread'[snapshot[i]] = 2 * Len(out[snapshot[i]]) + Len(buffer'[i])
        BY <1>0, <1>6 DEF Counted
    <2>1. nread[snapshot[i]] = 2 * Len(out[snapshot[i]]) + Len(buffer[i])
        BY DEF Stream, Counted
    <2>2. CASE i # Cur
        BY <1>5, <2>1, <2>2
    <2>3. CASE i = Cur
        <3>1. nread'[c] = sent[c] /\ Len(buffer'[i]) = Len(buffer[i]) + (sent[c] - nread[c])
            BY <1>0, <1>1, <1>2, <1>4, <1>5, <2>3
        <3>2. Len(out[c]) \in Nat /\ Len(buffer[i]) \in Nat /\ sent[c] \in Nat /\ nread[c] \in Nat
            BY <1>1, <1>2
        <3>3. snapshot[i] = c
            BY <1>1, <2>3
        <3>4. sent[c] = 2 * Len(out[c]) + (Len(buffer[i]) + (sent[c] - nread[c]))
            <4> DEFINE packets == Len(out[c])
                       held == Len(buffer[i])
                       read == nread[c]
                       end == sent[c]
            <4>1. /\ packets \in Nat /\ held \in Nat /\ read \in Nat /\ end \in Nat
                  /\ read = 2 * packets + held
                BY <2>1, <3>2, <3>3
            <4> HIDE DEF packets, held, read, end
            <4>2. end = 2 * packets + (held + (end - read))
                BY <4>1, ReadSum
            <4> QED
                BY <4>2 DEF packets, held, read, end
        <3> QED
            BY <3>1, <3>3, <3>4
    <2> QED
        BY <2>2, <2>3
<1>10. Parsed'
    <2> SUFFICES ASSUME NEW i \in Slots, Live(i), Len(buffer'[i]) >= 2
                 PROVE  pc["io"] \in {"recv", "parse"} /\ i \in ready /\ i = Cur
        BY <1>0, <1>3, <1>6 DEF Parsed
    <2> QED
        BY <1>0, <1>1, <1>5 DEF Stream, Parsed
<1>11. \A e : (InSnapshot(e)' <=> InSnapshot(e)) /\ (Coming(e)' <=> Coming(e))
    BY <1>0 DEF InSnapshot, Coming, Publishing
<1>12. ASSUME NEW e \in Conns, ~InSnapshot(e) PROVE nread'[e] = nread[e]
    <2>1. e # c
        BY <1>1, <1>12 DEF InSnapshot
    <2> QED
        BY <1>0, <1>2, <2>1
<1>13. Fresh'
    BY <1>0, <1>11, <1>12 DEF Stream, Fresh
<1>14. Left'
    BY <1>0, <1>11, <1>12 DEF Stream, Left, Up
<1>15. Whole'
    BY <1>0 DEF Stream, Whole
<1> QED
    BY <1>7, <1>8, <1>9, <1>10, <1>13, <1>14, <1>15 DEF Stream

\* The chunk after the packets handed on starts a packet.
LEMMA OddStarts ==
    ASSUME NEW packets \in Nat
    PROVE  (2 * packets + 1) % 2 = 1
OBVIOUS

\* parseAndDeliver hands on the next packet of the slot's stream, or touches
\* only what was joined.
PacketOf(c, n) == <<<<c, 2 * n - 1>>, <<c, 2 * n>>>>

ParsedOwn ==
    LET c == snapshot[Cur] IN
    /\ c \notin joined /\ UNCHANGED <<pc, ready>>
    /\ Len(buffer[Cur]) >= 2
    /\ buffer'[Cur] = SubSeq(buffer[Cur], 3, Len(buffer[Cur]))
    /\ \A e \in Conns : out'[e] = IF e = c THEN Append(out[c], PacketOf(c, Len(out[c]) + 1))
                                         ELSE out[e]

ParsedJoined ==
    /\ snapshot[Cur] \in joined
    /\ \A e \in Conns \ joined : out'[e] = out[e]
    /\ \A k \in DOMAIN buffer'[Cur] : buffer'[Cur][k][1] \in joined

\* Every parse step is one of the two.
LEMMA ParseEffect ==
    ASSUME IInv, Types, Placed, Stream, ParsePacket \/ ParseGarbage
    PROVE  /\ pc["io"] = "parse" /\ Cur \in ready /\ Cur \in Slots
           /\ UNCHANGED <<fd, nread, made, ioConns, snapshot, prevFds, joined, ownPc, newConn>>
           /\ \A i \in Slots : i # Cur => buffer'[i] = buffer[i]
           /\ ParsedOwn \/ ParsedJoined
<1> DEFINE b == buffer[Cur]
           c == snapshot[Cur]
<1>1. /\ pc["io"] = "parse"
      /\ UNCHANGED <<fd, nread, made, ioConns, snapshot, prevFds, joined, ownPc, newConn>>
    BY DEF ParsePacket, ParseGarbage, netVars, slotVars, pollVars, ownVars
<1>2. Cur \in ready /\ Cur \in Slots
    BY <1>1, CurFacts
<1>3. /\ b \in Seq(Chunks) /\ c \in Conns /\ buffer \in [Slots -> Seq(Chunks)]
      /\ out \in [Conns -> Seq(Chunks \X Chunks)] /\ Len(b) \in Nat /\ Len(out[c]) \in Nat
    BY <1>2, SlotConns DEF Types, ReadTypes
<1>4. BufferHolds(Cur)
    BY <1>2 DEF Stream, Buffered
<1>5. \A i \in Slots : i # Cur => buffer'[i] = buffer[i]
    BY <1>2, <1>3 DEF ParsePacket, ParseGarbage, HandOn
<1>6. CASE c \notin joined
    <2>1. \A k \in DOMAIN b : b[k] = <<c, 2 * Len(out[c]) + k>>
        BY <1>4, <1>6 DEF BufferHolds
    <2>2. ASSUME b # <<>> PROVE Starts(b[1])
        <3>1. 1 \in DOMAIN b
            BY <1>3, <2>2
        <3>2. b[1] = <<c, 2 * Len(out[c]) + 1>>
            BY <2>1, <3>1
        <3>3. b[1][2] = 2 * Len(out[c]) + 1
            BY <3>2
        <3>4. (2 * Len(out[c]) + 1) % 2 = 1
            BY <1>3, OddStarts
        <3> QED
            BY <3>3, <3>4 DEF Starts
    <2>3. ParsePacket
        BY <2>2 DEF ParseGarbage
    <2>4. /\ Len(b) >= 2 /\ UNCHANGED <<pc, ready>> /\ HandOn(b)
        BY <2>3 DEF ParsePacket
    <2>5. 1 \in DOMAIN b /\ 2 \in DOMAIN b
        BY <1>3, <2>4
    <2>6. b[1] = <<c, 2 * Len(out[c]) + 1>> /\ b[2] = <<c, 2 * Len(out[c]) + 2>>
        BY <2>1, <2>5
    <2>7. 2 * Len(out[c]) + 1 = 2 * (Len(out[c]) + 1) - 1 /\ 2 * Len(out[c]) + 2 = 2 * (Len(out[c]) + 1)
        BY <1>3
    <2>8. <<b[1], b[2]>> = PacketOf(c, Len(out[c]) + 1) /\ b[1][1] = c /\ b[2][1] = c
        BY <2>6, <2>7 DEF PacketOf
    <2>9. buffer'[Cur] = SubSeq(b, 3, Len(b))
        BY <1>2, <1>3, <2>4 DEF HandOn
    <2>10. \A e \in Conns : out'[e] = IF e \in {b[1][1], b[2][1]}
                                         THEN Append(out[e], <<b[1], b[2]>>) ELSE out[e]
        BY <2>4 DEF HandOn
    <2> HIDE DEF b, c
    <2>11. \A e \in Conns : out'[e] = IF e = c THEN Append(out[c], PacketOf(c, Len(out[c]) + 1))
                                             ELSE out[e]
        BY <2>8, <2>10
    <2> QED
        BY <1>1, <1>2, <1>5, <1>6, <2>4, <2>9, <2>11 DEF ParsedOwn, b, c
<1>7. CASE c \in joined
    <2>1. \A k \in DOMAIN b : b[k][1] \in joined
        BY <1>4, <1>7 DEF BufferHolds
    <2>2. CASE UNCHANGED <<buffer, out>>
        BY <1>1, <1>2, <1>5, <1>7, <2>1, <2>2 DEF ParsedJoined
    <2>3. CASE buffer' = [buffer EXCEPT ![Cur] = <<>>] /\ UNCHANGED out
        <3>1. buffer'[Cur] = <<>>
            BY <1>2, <1>3, <2>3
        <3> QED
            BY <1>1, <1>2, <1>5, <1>7, <2>3, <3>1 DEF ParsedJoined
    <2>4. CASE Len(b) >= 2 /\ HandOn(b)
        <3>1. buffer'[Cur] = SubSeq(b, 3, Len(b))
            BY <1>2, <1>3, <2>4 DEF HandOn
        <3>2. 1 \in DOMAIN b /\ 2 \in DOMAIN b
            BY <1>3, <2>4
        <3>3. b[1][1] \in joined /\ b[2][1] \in joined
            BY <2>1, <3>2
        <3>4. \A e \in Conns : out'[e] = IF e \in {b[1][1], b[2][1]}
                                            THEN Append(out[e], <<b[1], b[2]>>) ELSE out[e]
            BY <2>4 DEF HandOn
        <3> HIDE DEF b
        <3>5. \A e \in Conns \ joined : out'[e] = out[e]
            BY <3>3, <3>4
        <3>6. \A k \in DOMAIN SubSeq(b, 3, Len(b)) :
                  k + 2 \in DOMAIN b /\ SubSeq(b, 3, Len(b))[k] = b[k + 2]
            BY <1>3, <2>4, ConsumeTwo
        <3>7. \A k \in DOMAIN buffer'[Cur] : buffer'[Cur][k][1] \in joined
            BY <2>1, <3>1, <3>6
        <3> QED
            BY <1>1, <1>2, <1>5, <1>7, <3>5, <3>7 DEF ParsedJoined
    <2> QED
        BY <2>2, <2>3, <2>4 DEF ParsePacket, ParseGarbage
<1> QED
    BY <1>6, <1>7

\* What a parse step leaves of the streams that are not read.
LEMMA ParseKeepsRest ==
    ASSUME IInv, Types, Placed, Stream, ParsePacket \/ ParseGarbage, [Next]_vars
    PROVE  /\ Remembered' /\ Fresh' /\ Left'
           /\ \A i \in Slots : Live(i)' <=> Live(i)
<1>1. /\ pc["io"] = "parse" /\ Cur \in ready /\ Cur \in Slots
      /\ UNCHANGED <<fd, nread, made, ioConns, snapshot, prevFds, joined, ownPc, newConn>>
      /\ \A i \in Slots : i # Cur => buffer'[i] = buffer[i]
      /\ ParsedOwn \/ ParsedJoined
    BY ParseEffect
<1>2. \A i \in Slots : Live(i)' <=> Live(i)
    BY <1>1 DEF Live, Up
<1>3. Remembered'
    <2>1. prevFds[Cur] # None
        BY <1>1 DEF Stream, Remembered, ReadPcs
    <2>2. \A i \in Slots : prevFds'[i] = None => buffer'[i] = <<>>
        BY <1>1, <2>1 DEF Stream, Remembered
    <2>3. \A i \in Slots : prevFds'[i] # None => fd'[snapshot'[i]] \in {prevFds'[i], None}
        BY <1>1 DEF Stream, Remembered
    <2>4. ~IoPoll
        BY <1>1 DEF IoPoll
    <2>5. pc'["io"] \in ReadPcs => \A i \in ready' : prevFds'[i] # None
        BY <1>1, <2>4, PcFrame DEF Stream, Remembered
    <2> QED
        BY <2>2, <2>3, <2>5 DEF Remembered
<1>4. \A e : (InSnapshot(e)' <=> InSnapshot(e)) /\ (Coming(e)' <=> Coming(e))
    BY <1>1 DEF InSnapshot, Coming, Publishing
<1>5. ASSUME NEW e \in Conns \ joined, ~InSnapshot(e) PROVE out'[e] = out[e]
    <2>1. e # snapshot[Cur]
        BY <1>1, <1>5 DEF InSnapshot
    <2> QED
        BY <1>1, <2>1 DEF ParsedOwn, ParsedJoined
<1>6. Fresh'
    BY <1>1, <1>4, <1>5 DEF Stream, Fresh
<1>7. Left'
    BY <1>1, <1>4, <1>5 DEF Stream, Left, Up
<1> QED
    BY <1>2, <1>3, <1>6, <1>7

\* The arithmetic of a packet: its two chunks leave the buffer.
LEMMA PacketSum ==
    ASSUME NEW packets \in Nat, NEW held \in Nat, held >= 2, NEW n \in Nat
    PROVE  /\ 2 * (packets + 1) + (held - 2) = 2 * packets + held
           /\ 2 * (packets + 1) + n = 2 * packets + (n + 2)
OBVIOUS

\* The next packet of the slot's own stream.
LEMMA ParseOwnKeeps ==
    ASSUME IInv, Types, Placed, Stream, ParsePacket \/ ParseGarbage, [Next]_vars, ParsedOwn
    PROVE  Buffered' /\ Counted' /\ Parsed' /\ Whole'
<1> DEFINE c == snapshot[Cur]
           b == buffer[Cur]
           L == Len(out[c])
<1>1. /\ pc["io"] = "parse" /\ Cur \in ready /\ Cur \in Slots
      /\ UNCHANGED <<fd, nread, made, ioConns, snapshot, prevFds, joined, ownPc, newConn>>
      /\ \A i \in Slots : i # Cur => buffer'[i] = buffer[i]
    BY ParseEffect
<1>2. \A i \in Slots : Live(i)' <=> Live(i)
    BY ParseKeepsRest
<1>3. /\ snapshot \in [Slots -> Conns] /\ c \in Conns /\ b \in Seq(Chunks)
      /\ out \in [Conns -> Seq(Chunks \X Chunks)] /\ L \in Nat /\ Len(b) \in Nat
    BY <1>1, SlotConns DEF Types, ReadTypes
<1>4. /\ c \notin joined /\ UNCHANGED <<pc, ready>> /\ Len(b) >= 2
      /\ buffer'[Cur] = SubSeq(b, 3, Len(b))
      /\ \A e \in Conns : out'[e] = IF e = c THEN Append(out[c], PacketOf(c, L + 1)) ELSE out[e]
    BY DEF ParsedOwn
<1>5. out'[c] = Append(out[c], PacketOf(c, L + 1)) /\ Len(out'[c]) = L + 1
    <2>1. 2 * (L + 1) - 1 \in Nat /\ 2 * (L + 1) \in Nat
        BY <1>3
    <2>2. PacketOf(c, L + 1) \in Chunks \X Chunks
        BY <1>3, <2>1 DEF PacketOf, Chunks
    <2>3. out[c] \in Seq(Chunks \X Chunks)
        BY <1>3
    <2>4. Len(Append(out[c], PacketOf(c, L + 1))) = Len(out[c]) + 1
        BY <2>2, <2>3, AppendProperties
    <2> QED
        BY <1>3, <1>4, <2>4
<1>6. Cur' = Cur
    BY <1>4 DEF Cur
<1>7. \A i \in Slots : i # Cur => snapshot[i] # c /\ out'[snapshot[i]] = out[snapshot[i]]
    BY <1>1, <1>3, <1>4 DEF Placed
<1>8. /\ Len(buffer'[Cur]) = Len(b) - 2
      /\ \A k \in DOMAIN buffer'[Cur] :
            k \in Nat /\ k + 2 \in DOMAIN b /\ buffer'[Cur][k] = b[k + 2]
    <2>1. LET d == SubSeq(b, 3, Len(b)) IN
            /\ d \in Seq(Chunks) /\ Len(d) = Len(b) - 2
            /\ \A k \in DOMAIN d : k + 2 \in DOMAIN b /\ d[k] = b[k + 2]
        BY <1>3, <1>4, ConsumeTwo
    <2> HIDE DEF b
    <2>2. \A k \in DOMAIN SubSeq(b, 3, Len(b)) : k \in Nat
        BY <2>1
    <2> QED
        BY <1>4, <2>1, <2>2
<1>9. \A k \in DOMAIN b : b[k] = <<c, 2 * L + k>>
    BY <1>1, <1>4 DEF Stream, Buffered, BufferHolds
<1> HIDE DEF b, c, L
<1>10. Buffered'
    <2> SUFFICES ASSUME NEW i \in Slots PROVE BufferHolds(i)'
        BY DEF Buffered
    <2>1. CASE i # Cur
        <3>1. BufferHolds(i)
            BY DEF Stream, Buffered
        <3>2. /\ snapshot'[i] = snapshot[i] /\ joined' = joined /\ buffer'[i] = buffer[i]
              /\ out'[snapshot[i]] = out[snapshot[i]]
            BY <1>1, <1>7, <2>1
        <3> QED
            BY <3>1, <3>2 DEF BufferHolds
    <2>2. CASE i = Cur
        <3>1. ASSUME NEW k \in DOMAIN buffer'[Cur]
              PROVE  buffer'[Cur][k] = <<c, 2 * Len(out'[c]) + k>>
            <4>1. k \in Nat /\ buffer'[Cur][k] = <<c, 2 * L + (k + 2)>>
                BY <1>8, <1>9
            <4>2. 2 * (L + 1) + k = 2 * L + (k + 2)
                BY <1>3, <4>1
            <4> QED
                BY <1>5, <4>1, <4>2
        <3>2. snapshot'[i] = c /\ c \notin joined' /\ i = Cur
            BY <1>1, <1>4, <2>2 DEF c
        <3> QED
            BY <3>1, <3>2 DEF BufferHolds
    <2> QED
        BY <2>1, <2>2
<1>11. Counted'
    <2> SUFFICES ASSUME NEW i \in Slots, Live(i)
                 PROVE  nread[snapshot[i]] = 2 * Len(out'[snapshot[i]]) + Len(buffer'[i])
        BY <1>1, <1>2 DEF Counted
    <2>1. nread[snapshot[i]] = 2 * Len(out[snapshot[i]]) + Len(buffer[i])
        BY DEF Stream, Counted
    <2>2. CASE i # Cur
        BY <1>1, <1>7, <2>1, <2>2
    <2>3. CASE i = Cur
        <3>1. nread[c] = 2 * L + Len(b) /\ snapshot[i] = c
            BY <2>1, <2>3 DEF c, b, L
        <3>2. 2 * (L + 1) + (Len(b) - 2) = 2 * L + Len(b)
            BY <1>3, <1>4
        <3> QED
            BY <1>5, <1>8, <2>3, <3>1, <3>2
    <2> QED
        BY <2>2, <2>3
<1>12. Parsed'
    <2> SUFFICES ASSUME NEW i \in Slots, Live(i), Len(buffer'[i]) >= 2
                 PROVE  pc["io"] \in {"recv", "parse"} /\ i \in ready /\ i = Cur
        BY <1>1, <1>2, <1>4, <1>6 DEF Parsed
    <2> QED
        BY <1>1 DEF Stream, Parsed
<1>13. Whole'
    <2> SUFFICES ASSUME NEW e \in Conns \ joined, NEW k \in DOMAIN out'[e]
                 PROVE  out'[e][k] = PacketOf(e, k)
        BY <1>1 DEF Whole, PacketOf
    <2>1. CASE e # c
        BY <1>4, <2>1 DEF Stream, Whole, PacketOf
    <2>2. CASE e = c
        <3>1. out[c] \in Seq(Chunks \X Chunks)
            BY <1>3
        <3>2. k \in 1..(L + 1) /\ out'[c][k] = IF k <= L THEN out[c][k] ELSE PacketOf(c, L + 1)
            BY <1>5, <2>2, <3>1 DEF L
        <3>3. CASE k <= L
            <4>1. k \in DOMAIN out[c]
                BY <1>3, <3>1, <3>2, <3>3 DEF L
            <4>2. out[c][k] = PacketOf(c, k)
                BY <2>2, <4>1 DEF Stream, Whole, PacketOf
            <4> QED
                BY <2>2, <3>2, <3>3, <4>2
        <3>4. CASE ~(k <= L)
            <4>1. k = L + 1
                BY <1>3, <3>2, <3>4
            <4> QED
                BY <2>2, <3>2, <3>4, <4>1
        <3> QED
            BY <3>3, <3>4
    <2> QED
        BY <2>1, <2>2
<1> QED
    BY <1>10, <1>11, <1>12, <1>13

\* A buffer of joined connections: no other stream is touched.
LEMMA ParseJoinedKeeps ==
    ASSUME IInv, Types, Placed, Stream, ParsePacket \/ ParseGarbage, [Next]_vars, ParsedJoined
    PROVE  Buffered' /\ Counted' /\ Parsed' /\ Whole'
<1>1. /\ pc["io"] = "parse" /\ Cur \in ready /\ Cur \in Slots
      /\ UNCHANGED <<fd, nread, made, ioConns, snapshot, prevFds, joined, ownPc, newConn>>
      /\ \A i \in Slots : i # Cur => buffer'[i] = buffer[i]
    BY ParseEffect
<1>2. \A i \in Slots : Live(i)' <=> Live(i)
    BY ParseKeepsRest
<1>3. snapshot \in [Slots -> Conns] /\ out \in [Conns -> Seq(Chunks \X Chunks)]
    BY SlotConns DEF Types, ReadTypes
<1>4. /\ snapshot[Cur] \in joined
      /\ \A e \in Conns \ joined : out'[e] = out[e]
      /\ \A k \in DOMAIN buffer'[Cur] : buffer'[Cur][k][1] \in joined
    BY DEF ParsedJoined
<1>5. ASSUME NEW i \in Slots, snapshot[i] \notin joined
      PROVE  /\ i # Cur /\ buffer'[i] = buffer[i] /\ snapshot'[i] = snapshot[i]
             /\ out'[snapshot[i]] = out[snapshot[i]]
    <2>1. i # Cur
        BY <1>4, <1>5
    <2>2. snapshot[i] \in Conns \ joined
        BY <1>3, <1>5
    <2> QED
        BY <1>1, <1>4, <2>1, <2>2
<1>6. Buffered'
    <2> SUFFICES ASSUME NEW i \in Slots PROVE BufferHolds(i)'
        BY DEF Buffered
    <2>1. BufferHolds(i)
        BY DEF Stream, Buffered
    <2>2. CASE snapshot[i] \notin joined
        BY <1>1, <1>5, <2>1, <2>2 DEF BufferHolds
    <2>3. CASE snapshot[i] \in joined
        <3>1. PICK j \in Slots : j = Cur
            BY <1>1
        <3>2. CASE i # j
            BY <1>1, <2>1, <2>3, <3>1, <3>2 DEF BufferHolds
        <3>3. CASE i = j
            BY <1>1, <1>4, <2>3, <3>1, <3>3 DEF BufferHolds
        <3> QED
            BY <3>2, <3>3
    <2> QED
        BY <2>2, <2>3
<1>7. Counted'
    <2> SUFFICES ASSUME NEW i \in Slots, Live(i)
                 PROVE  nread[snapshot[i]] = 2 * Len(out'[snapshot[i]]) + Len(buffer'[i])
        BY <1>1, <1>2 DEF Counted
    <2>1. buffer'[i] = buffer[i] /\ out'[snapshot[i]] = out[snapshot[i]]
        BY <1>5 DEF Live
    <2> QED
        BY <2>1 DEF Stream, Counted
<1>8. Parsed'
    <2> SUFFICES ASSUME NEW i \in Slots, Live(i), Len(buffer'[i]) >= 2
                 PROVE  FALSE
        BY <1>2 DEF Parsed
    <2>1. i # Cur /\ buffer'[i] = buffer[i]
        BY <1>5 DEF Live
    <2> QED
        BY <2>1 DEF Stream, Parsed
<1>9. Whole'
    BY <1>1, <1>4 DEF Stream, Whole
<1> QED
    BY <1>6, <1>7, <1>8, <1>9

\* parseAndDeliver keeps the streams whole.
LEMMA ParseKeeps ==
    ASSUME IInv, Types, Placed, Stream, ParsePacket \/ ParseGarbage, [Next]_vars
    PROVE  Stream'
BY ParseEffect, ParseKeepsRest, ParseOwnKeeps, ParseJoinedKeeps DEF Stream

\* Less than a packet is in the buffer: all the others were handed on.
LEMMA HalfRead ==
    ASSUME NEW packets \in Nat, NEW held \in Nat, ~(held >= 2)
    PROVE  packets = (2 * packets + held) \div 2
OBVIOUS

\* What the refresh does to one slot.
Refreshed(snap) ==
    /\ pc["io"] = "refresh" /\ pc'["io"] = "poll"
    /\ UNCHANGED <<fd, nread, made, ioConns, out, ownPc, newConn>>
    /\ snapshot' = snap /\ snap \in [Slots -> Conns]
    /\ \A i \in Slots : snap[i] \in {snapshot[i], ioConns[i]}
    /\ \A i, j \in Slots : snap[i] = snapshot[j] => i = j
    /\ \A i \in Slots : prevFds'[i] = fd[snap[i]]
    /\ joined \subseteq joined'
    /\ \A i \in Slots :
          \/ /\ buffer'[i] = buffer[i] /\ fd[snap[i]] = prevFds[i] /\ buffer[i] # <<>>
             /\ snap[i] # snapshot[i] => {snap[i], snapshot[i]} \subseteq joined'
          \/ buffer'[i] = <<>> /\ (fd[snap[i]] # prevFds[i] \/ buffer[i] = <<>>)

\* The refresh of run() does that, with the vector of connections it chose.
LEMMA RefreshEffect ==
    ASSUME IInv, Types, Placed, IoRefresh
    PROVE  \E snap : Refreshed(snap)
<1> DEFINE snap == IF gen # cachedGen THEN ioConns ELSE snapshot
           kept == {i \in Slots : fd[snap[i]] = prevFds[i] /\ buffer[i] # <<>>}
           pairs == UNION {{snap[i], snapshot[i]} : i \in {k \in kept : snap[k] # snapshot[k]}}
<1>1. /\ pc["io"] = "refresh" /\ pc' = [pc EXCEPT !["io"] = "poll"]
      /\ UNCHANGED <<fd, nread, made, ioConns, out, ownPc, newConn>>
      /\ snapshot' = snap /\ prevFds' = [i \in Slots |-> fd[snap[i]]]
      /\ joined' = joined \cup pairs
    BY DEF IoRefresh, GoTo, netVars, slotVars, ownVars
<1>2. \A i \in Slots : buffer'[i] = IF i \in kept THEN buffer[i] ELSE <<>>
    BY DEF IoRefresh
<1>3. pc'["io"] = "poll"
    BY <1>1 DEF IInv, ThreadTypes, Threads
<1>4. snapshot \in [Slots -> Conns] /\ ioConns \in [Slots -> Conns]
    BY SlotConns
<1>5. \/ snap = snapshot \/ snap = ioConns
    OBVIOUS
<1> HIDE DEF snap
<1>6. /\ \A i \in Slots : snap[i] \in {snapshot[i], ioConns[i]}
      /\ \A i, j \in Slots : snap[i] = snapshot[j] => i = j
      /\ snap \in [Slots -> Conns]
    BY <1>4, <1>5 DEF Placed
<1>7. ASSUME NEW i \in Slots
      PROVE  \/ /\ buffer'[i] = buffer[i] /\ fd[snap[i]] = prevFds[i] /\ buffer[i] # <<>>
                /\ snap[i] # snapshot[i] => {snap[i], snapshot[i]} \subseteq joined'
             \/ buffer'[i] = <<>> /\ (fd[snap[i]] # prevFds[i] \/ buffer[i] = <<>>)
    <2>1. CASE i \in kept
        <3>1. snap[i] # snapshot[i] => {snap[i], snapshot[i]} \subseteq pairs
            BY <2>1
        <3> QED
            BY <1>1, <1>2, <2>1, <3>1
    <2>2. CASE i \notin kept
        BY <1>2, <2>2
    <2> QED
        BY <2>1, <2>2
<1>8. Refreshed(snap)
    <2>1. \A i \in Slots : prevFds'[i] = fd[snap[i]]
        BY <1>1
    <2>2. joined \subseteq joined'
        BY <1>1
    <2> HIDE DEF pairs, kept
    <2> QED
        BY <1>1, <1>3, <1>6, <1>7, <2>1, <2>2 DEF Refreshed
<1> QED
    BY <1>8

\* The refresh keeps the streams whole: a buffer survives only with the
\* connection whose chunks it holds, or joins the two.
LEMMA RefreshKeeps ==
    ASSUME IInv, Types, Placed, Stream, IoRefresh
    PROVE  Stream'
<1>1. PICK snap : Refreshed(snap)
    BY RefreshEffect
<1>2. /\ pc["io"] = "refresh" /\ pc'["io"] = "poll"
      /\ UNCHANGED <<fd, nread, made, ioConns, out, ownPc, newConn>>
      /\ snapshot' = snap /\ snap \in [Slots -> Conns]
      /\ \A i \in Slots : snap[i] \in {snapshot[i], ioConns[i]}
      /\ \A i, j \in Slots : snap[i] = snapshot[j] => i = j
      /\ \A i \in Slots : prevFds'[i] = fd[snap[i]]
      /\ joined \subseteq joined'
    BY <1>1 DEF Refreshed
<1>3. \A i \in Slots :
          \/ /\ buffer'[i] = buffer[i] /\ fd[snap[i]] = prevFds[i] /\ buffer[i] # <<>>
             /\ snap[i] # snapshot[i] => {snap[i], snapshot[i]} \subseteq joined'
          \/ buffer'[i] = <<>> /\ (fd[snap[i]] # prevFds[i] \/ buffer[i] = <<>>)
    BY <1>1 DEF Refreshed
<1>4. /\ snapshot \in [Slots -> Conns] /\ buffer \in [Slots -> Seq(Chunks)]
      /\ out \in [Conns -> Seq(Chunks \X Chunks)] /\ nread \in [Conns -> Nat]
      /\ made \in Nat /\ \A i \in Slots : snapshot[i] <= made
    BY SlotConns DEF Types, NetTypes, ReadTypes
<1>5. Remembered'
    <2>1. \A i \in Slots : prevFds'[i] = None => buffer'[i] = <<>>
        BY <1>2, <1>3 DEF Stream, Remembered
    <2>2. \A i \in Slots : prevFds'[i] # None => fd'[snapshot'[i]] \in {prevFds'[i], None}
        BY <1>2
    <2>3. pc'["io"] \notin ReadPcs
        BY <1>2 DEF ReadPcs
    <2> QED
        BY <2>1, <2>2, <2>3 DEF Remembered
<1>6. Buffered'
    <2> SUFFICES ASSUME NEW i \in Slots PROVE BufferHolds(i)'
        BY DEF Buffered
    <2>1. CASE buffer'[i] = <<>>
        BY <2>1 DEF BufferHolds
    <2>2. CASE /\ buffer'[i] = buffer[i]
               /\ snap[i] # snapshot[i] => {snap[i], snapshot[i]} \subseteq joined'
        <3>1. BufferHolds(i)
            BY DEF Stream, Buffered
        <3>2. CASE snap[i] \notin joined'
            <4>1. snap[i] = snapshot[i] /\ snapshot[i] \notin joined
                BY <1>2, <2>2, <3>2
            <4> QED
                BY <1>2, <2>2, <3>1, <3>2, <4>1 DEF BufferHolds
        <3>3. CASE snap[i] \in joined'
            <4>1. snapshot[i] \in joined'
                BY <2>2, <3>3
            <4>2. \A k \in DOMAIN buffer[i] : buffer[i][k][1] \in joined'
                BY <1>2, <3>1, <4>1 DEF BufferHolds
            <4> QED
                BY <1>2, <2>2, <3>3, <4>2 DEF BufferHolds
        <3> QED
            BY <3>2, <3>3
    <2> QED
        BY <1>3, <2>1, <2>2
<1>7. ASSUME NEW i \in Slots, Live(i)', buffer'[i] # <<>>
      PROVE  Live(i) /\ snap[i] = snapshot[i] /\ buffer'[i] = buffer[i]
    <2>1. snap[i] \notin joined' /\ fd[snap[i]] # None
        BY <1>2, <1>7 DEF Live, Up
    <2>2. snap[i] = snapshot[i] /\ buffer'[i] = buffer[i]
        BY <1>3, <1>7, <2>1
    <2> QED
        BY <1>2, <2>1, <2>2 DEF Live, Up
<1>8. Counted'
    <2> SUFFICES ASSUME NEW i \in Slots, Live(i)'
                 PROVE  nread[snap[i]] = 2 * Len(out[snap[i]]) + Len(buffer'[i])
        BY <1>2 DEF Counted
    <2>0. snap[i] \notin joined /\ snap[i] \notin joined' /\ fd[snap[i]] # None /\ snap[i] \in Conns
        BY <1>2 DEF Live, Up
    <2>1. CASE buffer'[i] # <<>>
        BY <1>7, <2>1 DEF Stream, Counted
    <2>2. CASE buffer'[i] = <<>> /\ snap[i] = snapshot[i]
        <3>1. Live(i)
            BY <2>0, <2>2 DEF Live, Up
        <3>2. buffer[i] = <<>>
            <4>1. CASE prevFds[i] = None
                BY <4>1 DEF Stream, Remembered
            <4>2. CASE prevFds[i] # None
                <5>1. fd[snapshot[i]] = prevFds[i]
                    BY <2>0, <2>2, <4>2 DEF Stream, Remembered
                <5> QED
                    BY <1>3, <2>2, <5>1
            <4> QED
                BY <4>1, <4>2
        <3> QED
            BY <2>2, <3>1, <3>2 DEF Stream, Counted
    <2>3. CASE buffer'[i] = <<>> /\ snap[i] # snapshot[i]
        <3>1. snap[i] = ioConns[i]
            BY <1>2, <2>3
        <3>2. ~InSnapshot(snap[i])
            BY <1>2, <2>3 DEF InSnapshot
        <3>3. nread[snap[i]] = 0 /\ out[snap[i]] = <<>>
            BY <2>0, <3>1, <3>2 DEF Stream, Fresh, Coming
        <3>4. Len(<<>>) = 0 /\ 2 * 0 + 0 = 0
            OBVIOUS
        <3> QED
            BY <2>3, <3>3, <3>4
    <2> QED
        BY <2>1, <2>2, <2>3
<1>9. \A i \in Slots : Live(i) => ~(Len(buffer[i]) >= 2)
    BY <1>2 DEF Stream, Parsed
<1>10. Parsed'
    <2> SUFFICES ASSUME NEW i \in Slots, Live(i)', Len(buffer'[i]) >= 2
                 PROVE  FALSE
        BY DEF Parsed
    <2>1. buffer'[i] # <<>>
        <3> SUFFICES ASSUME buffer'[i] = <<>> PROVE FALSE
            OBVIOUS
        <3>1. Len(<<>>) = 0 /\ ~(0 >= 2)
            OBVIOUS
        <3> QED
            BY <3>1
    <2> QED
        BY <1>7, <1>9, <2>1
<1>11. \A e : Coming(e)' <=> Coming(e)
    BY <1>2 DEF Coming, Publishing
<1>12. Fresh'
    <2> SUFFICES ASSUME NEW e \in Conns \ joined', ~InSnapshot(e)', Coming(e)
                 PROVE  nread[e] = 0 /\ out[e] = <<>>
        BY <1>2, <1>11 DEF Fresh
    <2>1. ~InSnapshot(e)
        <3> SUFFICES ASSUME NEW i \in Slots, snapshot[i] = e PROVE FALSE
            BY DEF InSnapshot
        <3>1. \A j \in Slots : snap[j] # e
            BY <1>2 DEF InSnapshot
        <3>2. e \in Nat /\ ~(e > made)
            BY <1>4 DEF Conns
        <3>3. PICK j \in Slots : e = ioConns[j]
            BY <3>2 DEF Coming, Placed
        <3>4. i = j
            BY <3>3 DEF Placed
        <3> QED
            BY <1>2, <3>1, <3>3, <3>4
    <2> QED
        BY <1>2, <2>1 DEF Stream, Fresh
<1>13. Left'
    <2> SUFFICES ASSUME NEW e \in Conns \ joined', ~InSnapshot(e)', Up(e)
                 PROVE  Len(out[e]) = nread[e] \div 2
        BY <1>2 DEF Left, Up
    <2>1. CASE ~InSnapshot(e)
        BY <1>2, <2>1 DEF Stream, Left
    <2>2. CASE InSnapshot(e)
        <3>1. PICK i \in Slots : snapshot[i] = e
            BY <2>2 DEF InSnapshot
        <3>2. Live(i)
            BY <1>2, <3>1 DEF Live
        <3>3. nread[e] = 2 * Len(out[e]) + Len(buffer[i]) /\ ~(Len(buffer[i]) >= 2)
            BY <1>9, <3>1, <3>2 DEF Stream, Counted
        <3>4. Len(out[e]) \in Nat /\ Len(buffer[i]) \in Nat
            BY <1>4
        <3>5. Len(out[e]) = (2 * Len(out[e]) + Len(buffer[i])) \div 2
            BY <3>3, <3>4, HalfRead
        <3> QED
            BY <3>3, <3>5
    <2> QED
        BY <2>1, <2>2
<1>14. Whole'
    BY <1>2 DEF Stream, Whole
<1> QED
    BY <1>5, <1>6, <1>8, <1>10, <1>12, <1>13, <1>14 DEF Stream

\* The constructor's connections are in their slots and nothing was read.
LEMMA StreamInitially == Init => Placed /\ Stream
<1> SUFFICES ASSUME Init PROVE Placed /\ Stream
    OBVIOUS
<1>1. /\ ioConns = [i \in Slots |-> i] /\ snapshot = [i \in Slots |-> i]
      /\ prevFds = [i \in Slots |-> None] /\ buffer = [i \in Slots |-> <<>>]
      /\ nread = [c \in Conns |-> 0] /\ out = [c \in Conns |-> <<>>] /\ joined = {}
      /\ ownPc = "openIo" /\ pc["io"] = "off"
    BY DEF Init, Threads
<1>2. Placed
    BY <1>1 DEF Placed, Publishing
<1>3. Slots \subseteq Conns
    BY LifecycleConstants DEF Slots, Conns
<1>4. /\ \A i \in Slots : buffer[i] = <<>> /\ snapshot[i] = i /\ prevFds[i] = None
      /\ \A c \in Conns : nread[c] = 0 /\ out[c] = <<>>
    BY <1>1
<1>5. Len(<<>>) = 0 /\ DOMAIN <<>> = {} /\ 2 * 0 + 0 = 0 /\ 0 \div 2 = 0 /\ ~(0 >= 2)
    OBVIOUS
<1>6. Remembered
    BY <1>1, <1>4 DEF Remembered, ReadPcs
<1>7. Buffered
    BY <1>1, <1>4, <1>5 DEF Buffered, BufferHolds
<1>8. Counted /\ Parsed
    BY <1>3, <1>4, <1>5 DEF Counted, Parsed
<1>9. Fresh
    BY <1>4 DEF Fresh
<1>10. Left
    BY <1>4, <1>5 DEF Left
<1>11. Whole
    BY <1>4, <1>5 DEF Whole
<1> QED
    BY <1>2, <1>6, <1>7, <1>8, <1>9, <1>10, <1>11 DEF Stream

\* Every step keeps the types, the places and the streams.
LEMMA StreamKept ==
    ASSUME IInv, Types, Placed, Stream, [Next]_vars
    PROVE  Types' /\ Placed' /\ Stream'
<1>1. Types'
    BY NetTypesKept, FlagTypesKept, ReadTypesKept DEF Types
<1>2. Placed'
    BY PlacedKept
<1>3. CASE RecvData
    BY <1>1, <1>2, <1>3, RecvKeeps
<1>4. CASE ParsePacket \/ ParseGarbage
    BY <1>1, <1>2, <1>4, ParseKeeps
<1>5. CASE IoRefresh
    BY <1>1, <1>2, <1>5, RefreshKeeps
<1>6. CASE ~RecvData /\ ~ParseGarbage /\ UNCHANGED <<snapshot, prevFds, buffer, out, joined>>
    <2>1. NetQuiet
        BY <1>6, NetFrame DEF Types
    <2> QED
        BY <1>1, <1>2, <1>6, <2>1, StillKeeps
<1> QED
    BY <1>3, <1>4, <1>5, <1>6, ReadFrame

\* The streams of every channel are as the invariant says.
LEMMA StreamInvariance == Spec => [](IInv /\ Types /\ Placed /\ Stream)
<1>1. Init => Types /\ Placed /\ Stream
    BY TypesInitially, StreamInitially
<1>2. IInv /\ Types /\ Placed /\ Stream /\ [Next]_vars => Types' /\ Placed' /\ Stream'
    BY StreamKept
<1> QED
    BY <1>1, <1>2, LifeInvariance, PTL DEF Spec

\* The variables of the channel and of TcpVCIoThread::run keep their types, for
\* every number of slots, connections and chunks sent: a thread never reads more
\* than was sent, and the snapshots hold only connections that exist.
THEOREM LifeTypes == Spec => []TypeOK
<1>1. IInv /\ Types => TypeOK
    BY TypesFollow
<1> QED
    BY <1>1, StreamInvariance, PTL

\* What readFromConnection and parseAndDeliver hand on is each stream's packets,
\* whole, once and in order, however connections die and are replaced meanwhile,
\* for every number of slots, connections and chunks sent.
THEOREM StreamsWhole == Spec => []WholeInOrder
<1>1. ASSUME IInv, Types, Placed, Stream PROVE WholeInOrder
    <2> SUFFICES ASSUME NEW c \in Conns \ joined
                 PROVE  /\ \A k \in DOMAIN out[c] : out[c][k] = <<<<c, 2 * k - 1>>, <<c, 2 * k>>>>
                        /\ (pc["io"] = "top" /\ Up(c)) => Len(out[c]) = nread[c] \div 2
        BY DEF WholeInOrder
    <2>1. \A k \in DOMAIN out[c] : out[c][k] = <<<<c, 2 * k - 1>>, <<c, 2 * k>>>>
        BY <1>1 DEF Stream, Whole
    <2>2. ASSUME pc["io"] = "top", Up(c) PROVE Len(out[c]) = nread[c] \div 2
        <3>1. CASE ~InSnapshot(c)
            BY <1>1, <2>2, <3>1 DEF Stream, Left
        <3>2. CASE InSnapshot(c)
            <4>1. PICK i \in Slots : snapshot[i] = c
                BY <3>2 DEF InSnapshot
            <4>2. Live(i)
                BY <2>2, <4>1 DEF Live
            <4>3. nread[c] = 2 * Len(out[c]) + Len(buffer[i])
                BY <1>1, <4>1, <4>2 DEF Stream, Counted
            <4>4. ~(Len(buffer[i]) >= 2)
                BY <1>1, <2>2, <4>2 DEF Stream, Parsed
            <4>5. Len(out[c]) \in Nat /\ Len(buffer[i]) \in Nat
                BY <1>1 DEF Types, ReadTypes
            <4>6. Len(out[c]) = (2 * Len(out[c]) + Len(buffer[i])) \div 2
                BY <4>4, <4>5, HalfRead
            <4> QED
                BY <4>3, <4>6
        <3> QED
            BY <3>1, <3>2
    <2> QED
        BY <2>1, <2>2
<1>2. IInv /\ Types /\ Placed /\ Stream => WholeInOrder
    BY <1>1
<1> QED
    BY <1>2, StreamInvariance, PTL
==============================================================================
