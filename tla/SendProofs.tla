----------------------------- MODULE SendProofs ------------------------------
(***************************************************************************)
(* Proofs about the send thread, for every set of slots and every bound:   *)
(* the framing of the TCP streams, and the order and conservation of the   *)
(* packets.                                                                *)
(***************************************************************************)
EXTENDS SendThread, SequenceTheorems, TLAPS

USE SendConstants

\* The cases of a step, for the lemmas below.
LEMMA StepCases ==
    [Next]_vars =>
        \/ Accept \/ NotifyPeer \/ \E n \in 0..(nextId - 1) : ResendAsked(n)
        \/ \E o \in Objects : PeerCloses(o)
        \/ \E s \in Slots : Replace(s)
        \/ ReplaceInSend \/ CloseCancel \/ CloseStop
        \/ LoopTop \/ LoopEnd \/ ResendTake \/ ResendDone \/ TrimTracker
        \/ TakeRetained \/ TakePacket \/ NothingToTake \/ Rate
        \/ \E s \in Slots : \/ Skip(s) \/ WriteWhole(s) \/ WritePart(s) \/ WriteBlocked(s)
                            \/ WriteFails(s) \/ FlushDone(s) \/ FlushFails(s)
        \/ RetainPacket \/ ResendAgain \/ ResendGivesUp
        \/ UNCHANGED vars
BY DEF Next, Enqueue, Connections, Run, Attempt, Stopped

\* Each action keeps the types of the flags.
LEMMA FlagStep == FlagTypes /\ [Next]_vars => FlagTypes'
<1> SUFFICES ASSUME FlagTypes, [Next]_vars PROVE FlagTypes'
    OBVIOUS
<1> USE DEF FlagTypes, queueVars, flagVars, tryVars
<1>1. CASE Accept \/ NotifyPeer \/ \E n \in 0..(nextId - 1) : ResendAsked(n)
    BY <1>1 DEF Accept, NotifyPeer, ResendAsked
<1>2. CASE \E o \in Objects : PeerCloses(o)
    BY <1>2 DEF PeerCloses, Disconnect
<1>3. CASE (\E s \in Slots : Replace(s)) \/ ReplaceInSend \/ CloseCancel \/ CloseStop
    BY <1>3 DEF Replace, ReplaceInSend, CloseCancel, CloseStop
<1>4. CASE LoopTop \/ LoopEnd \/ ResendTake \/ ResendDone \/ TrimTracker
    BY <1>4 DEF LoopTop, LoopEnd, ResendTake, ResendDone, TrimTracker
<1>5. CASE TakeRetained \/ TakePacket \/ NothingToTake
    BY <1>5 DEF TakeRetained, TakePacket, NothingToTake
<1>6. CASE Rate
    BY <1>6 DEF Rate
<1>7. ASSUME NEW s \in Slots,
             Skip(s) \/ WriteWhole(s) \/ WritePart(s) \/ WriteBlocked(s) \/ FlushDone(s)
      PROVE  FlagTypes'
    BY <1>7 DEF Skip, WriteWhole, WritePart, WriteBlocked, FlushDone
<1>8. ASSUME NEW s \in Slots, WriteFails(s) \/ FlushFails(s) PROVE FlagTypes'
    BY <1>8 DEF WriteFails, FlushFails, Disconnect
<1>9. CASE RetainPacket \/ ResendAgain \/ ResendGivesUp
    BY <1>9 DEF RetainPacket, ResendAgain, ResendGivesUp
<1>10. CASE UNCHANGED vars BY <1>10 DEF vars
<1> QED BY <1>1, <1>2, <1>3, <1>4, <1>5, <1>6, <1>7, <1>8, <1>9, <1>10, StepCases

\* Finishing a packet keeps the types.
LEMMA DoneTypes ==
    PacketTypes /\ PacketDone =>
        /\ cur' \in Seq(Packets) /\ Len(cur') <= 1
        /\ rcur' \in Seq(Packets) /\ Len(rcur') <= 1
        /\ sent' \in Seq(Packets) /\ spc' \in {"top", "resend"}
        /\ \A n \in DOMAIN retry' : retry'[n] \in 0..MaxRetries
<1> SUFFICES ASSUME PacketTypes, PacketDone
    PROVE  /\ cur' \in Seq(Packets) /\ Len(cur') <= 1
           /\ rcur' \in Seq(Packets) /\ Len(rcur') <= 1
           /\ sent' \in Seq(Packets) /\ spc' \in {"top", "resend"}
           /\ \A n \in DOMAIN retry' : retry'[n] \in 0..MaxRetries
    OBVIOUS
<1> USE DEF PacketTypes
<1>1. <<>> \in Seq(Packets) /\ Len(<<>>) <= 1
    OBVIOUS
<1>2. sent \o cur \in Seq(Packets)
    BY ConcatProperties
<1>3. CASE mode = "data"
    BY <1>1, <1>2, <1>3 DEF PacketDone
<1>4. CASE mode = "resend"
    <2>1. retry' = [i \in DOMAIN retry \ {rcur[1].id} |-> retry[i]]
        BY <1>4 DEF PacketDone
    <2>2. \A n \in DOMAIN retry' : retry'[n] \in 0..MaxRetries
        BY <2>1
    <2>3. cur' = cur /\ rcur' = <<>> /\ sent' = sent /\ spc' = "resend"
        BY <1>4 DEF PacketDone
    <2> QED BY <1>1, <2>2, <2>3
<1> QED BY <1>3, <1>4

\* Counting a call keeps the type of the counters.
LEMMA AskedTypes ==
    ASSUME NEW r \in [notify : Nat, resend : Nat], NEW k \in Nat
    PROVE  /\ [r EXCEPT !.notify = k] \in [notify : Nat, resend : Nat]
           /\ [r EXCEPT !.resend = k] \in [notify : Nat, resend : Nat]
BY Zenon

\* Each action keeps the types of the packets.
LEMMA PacketStep == PacketTypes /\ [Next]_vars => PacketTypes'
<1> SUFFICES ASSUME PacketTypes, [Next]_vars PROVE PacketTypes'
    OBVIOUS
<1> USE DEF PacketTypes, queueVars, callVars, packetVars, roundVars
<1>1. CASE Accept \/ NotifyPeer \/ \E n \in 0..(nextId - 1) : ResendAsked(n)
    <2>1. \A n \in Nat : Data(n) \in Packets BY DEF Data, Packets
    <2>2. Notify \in Packets BY DEF Notify, Packets
    <2>0. asked.notify + 1 \in Nat /\ asked.resend + 1 \in Nat
        <3>1. asked.notify \in Nat /\ asked.resend \in Nat BY Zenon
        <3> QED BY <3>1
    <2>3. CASE Accept BY <2>1, <2>3 DEF Accept
    <2>4. CASE NotifyPeer
        <3>1. asked' \in [notify : Nat, resend : Nat]
            BY <2>4, <2>0, AskedTypes DEF NotifyPeer
        <3>2. sendQueue' \in Seq(Packets)
            BY <2>2, <2>4, AppendProperties DEF NotifyPeer
        <3> QED BY <2>4, <3>1, <3>2 DEF NotifyPeer
    <2>5. CASE \E n \in 0..(nextId - 1) : ResendAsked(n)
        <3>1. PICK n \in 0..(nextId - 1) : ResendAsked(n)
            BY <2>5
        <3>2. asked' \in [notify : Nat, resend : Nat]
            BY <2>0, <3>1, AskedTypes DEF ResendAsked
        <3>3. resendQueue' \in Seq(Packets)
            BY <2>1, <3>1, AppendProperties DEF ResendAsked
        <3> QED BY <3>1, <3>2, <3>3 DEF ResendAsked
    <2> QED BY <1>1, <2>3, <2>4, <2>5
<1>2. CASE \E o \in Objects : PeerCloses(o)
    BY <1>2 DEF PeerCloses, Disconnect
<1>3. CASE (\E s \in Slots : Replace(s)) \/ ReplaceInSend \/ CloseCancel \/ CloseStop
    BY <1>3 DEF Replace, ReplaceInSend, CloseCancel, CloseStop
<1>4. CASE LoopTop \/ LoopEnd \/ ResendDone \/ TrimTracker
    BY <1>4 DEF LoopTop, LoopEnd, ResendDone, TrimTracker
<1>5. CASE ResendTake
    BY <1>5 DEF ResendTake
<1>6. CASE TakePacket
    BY <1>6 DEF TakePacket
<1>7. CASE TakeRetained \/ NothingToTake \/ Rate
    BY <1>7 DEF TakeRetained, NothingToTake, Rate
<1>8. ASSUME NEW s \in Slots, Skip(s) \/ WritePart(s) \/ WriteBlocked(s)
      PROVE  PacketTypes'
    BY <1>8 DEF Skip, WritePart, WriteBlocked
<1>9. ASSUME NEW s \in Slots, WriteWhole(s) \/ FlushDone(s) PROVE PacketTypes'
    BY <1>9, DoneTypes DEF WriteWhole, FlushDone
<1>10. ASSUME NEW s \in Slots, WriteFails(s) \/ FlushFails(s) PROVE PacketTypes'
    BY <1>10 DEF WriteFails, FlushFails, Disconnect
<1>11. CASE RetainPacket BY <1>11 DEF RetainPacket
<1>12. CASE ResendAgain
    <2>1. \A n \in DOMAIN retry' : retry'[n] \in 0..MaxRetries
        BY <1>12 DEF ResendAgain, Retries
    <2>2. resendQueue' \in Seq(Packets)
        BY <1>12, ConcatProperties DEF ResendAgain
    <2>3. rcur' \in Seq(Packets) /\ Len(rcur') <= 1
        BY <1>12 DEF ResendAgain
    <2> QED BY <1>12, <2>1, <2>2, <2>3 DEF ResendAgain
<1>13. CASE ResendGivesUp BY <1>13 DEF ResendGivesUp
<1>14. CASE UNCHANGED vars BY <1>14 DEF vars
<1> QED BY <1>1, <1>2, <1>3, <1>4, <1>5, <1>6, <1>7, <1>8, <1>9, <1>10, <1>11, <1>12,
           <1>13, <1>14, StepCases

\* Each action keeps the types of the connections.
LEMMA ConnStep == PacketTypes /\ ConnTypes /\ [Next]_vars => ConnTypes'
<1> SUFFICES ASSUME PacketTypes, ConnTypes, [Next]_vars PROVE ConnTypes'
    OBVIOUS
<1> USE DEF ConnTypes, tryVars, connVars
<1>1. CASE Accept \/ NotifyPeer \/ \E n \in 0..(nextId - 1) : ResendAsked(n)
    BY <1>1 DEF Accept, NotifyPeer, ResendAsked
<1>2. CASE \E o \in Objects : PeerCloses(o)
    BY <1>2 DEF PeerCloses, Disconnect
<1>3. ASSUME NEW s \in Slots, Replace(s) PROVE ConnTypes'
    BY <1>3 DEF Replace, Objects
<1>4. CASE ReplaceInSend \/ CloseCancel \/ CloseStop
    BY <1>4 DEF ReplaceInSend, CloseCancel, CloseStop
<1>5. CASE LoopTop \/ LoopEnd \/ ResendDone \/ TrimTracker
    <2>1. CASE LoopTop
        <3>1. snap' \in [Slots -> 0..MaxReplace]
            BY <2>1 DEF LoopTop
        <3>2. spc' \in {"resend", "trim"}
            BY <2>1 DEF LoopTop
        <3> QED BY <2>1, <3>1, <3>2 DEF LoopTop
    <2>2. CASE LoopEnd \/ ResendDone \/ TrimTracker
        BY <2>2 DEF LoopEnd, ResendDone, TrimTracker
    <2> QED BY <1>5, <2>1, <2>2
<1>6. CASE ResendTake
    BY <1>6 DEF ResendTake, Slots
<1>7. CASE TakeRetained \/ TakePacket \/ NothingToTake
    BY <1>7 DEF TakeRetained, TakePacket, NothingToTake
<1>8. CASE Rate
    BY <1>8 DEF Rate, Slots
<1>9. ASSUME NEW s \in Slots, Skip(s) \/ WriteBlocked(s) PROVE ConnTypes'
    BY <1>9 DEF Skip, WriteBlocked
<1>10. ASSUME NEW s \in Slots, WriteWhole(s) PROVE ConnTypes'
    BY <1>10, DoneTypes DEF WriteWhole, Written
<1>11. ASSUME NEW s \in Slots, WritePart(s) PROVE ConnTypes'
    BY <1>11 DEF WritePart, Written
<1>12. ASSUME NEW s \in Slots, FlushDone(s) PROVE ConnTypes'
    BY <1>12, DoneTypes DEF FlushDone
<1>13. ASSUME NEW s \in Slots, WriteFails(s) \/ FlushFails(s) PROVE ConnTypes'
    BY <1>13 DEF WriteFails, FlushFails, Disconnect
<1>14. CASE RetainPacket \/ ResendAgain \/ ResendGivesUp
    BY <1>14 DEF RetainPacket, ResendAgain, ResendGivesUp
<1>15. CASE UNCHANGED vars BY <1>15 DEF vars
<1> QED BY <1>1, <1>2, <1>3, <1>4, <1>5, <1>6, <1>7, <1>8, <1>9, <1>10, <1>11, <1>12,
           <1>13, <1>14, <1>15, StepCases

-----------------------------------------------------------------------------
(***************************************************************************)
(* Framing.                                                                *)
(***************************************************************************)
Framing == FramingIntact /\ UnfinishedIsDead /\ FreshWhole

\* A step that writes nothing and revives no connection keeps the framing, if
\* it does not end a flush.
LEMMA QuietStep ==
    ASSUME Framing, UNCHANGED <<stream, replaced>>,
           alive' \subseteq alive, at' \subseteq at,
           spc # "flush" \/ UNCHANGED <<spc, at, snap>>
    PROVE  Framing'
<1> USE DEF Framing, FramingIntact, UnfinishedIsDead, FreshWhole, ObjectOf
<1>1. FramingIntact' OBVIOUS
<1>2. FreshWhole' OBVIOUS
<1>3. UnfinishedIsDead'
    <2>1. CASE spc # "flush" BY <2>1
    <2>2. CASE UNCHANGED <<spc, at, snap>> BY <2>2
    <2> QED BY <2>1, <2>2
<1> QED BY <1>1, <1>2, <1>3

\* Outside a flush, what is alive has no unfinished packet.
LEMMA AliveWhole ==
    ASSUME ConnTypes, Framing, spc # "flush"
    PROVE  \A o \in alive : o \in Objects /\ stream[o] = "whole"
BY DEF ConnTypes, Framing, FramingIntact, UnfinishedIsDead

\* Each action keeps the framing.
LEMMA FramingStep == PacketTypes /\ ConnTypes /\ Framing /\ [Next]_vars => Framing'
<1> SUFFICES ASSUME PacketTypes, ConnTypes, Framing, [Next]_vars PROVE Framing'
    OBVIOUS
<1> USE DEF tryVars, connVars
<1>1. CASE Accept \/ NotifyPeer \/ \E n \in 0..(nextId - 1) : ResendAsked(n)
    BY <1>1, QuietStep DEF Accept, NotifyPeer, ResendAsked
<1>2. CASE \E o \in Objects : PeerCloses(o)
    BY <1>2, QuietStep DEF PeerCloses, Disconnect
<1>3. ASSUME NEW s \in Slots, Replace(s) PROVE Framing'
    <2>1. <<s, replaced + 1>> \in Objects /\ stream[<<s, replaced + 1>>] = "whole"
        BY <1>3 DEF Replace, ConnTypes, Objects, Framing, FreshWhole
    <2>2. FramingIntact' BY <1>3 DEF Replace, Framing, FramingIntact
    <2>3. UnfinishedIsDead'
        BY <1>3, <2>1 DEF Replace, Framing, UnfinishedIsDead, ObjectOf
    <2>4. \A o \in Objects : o[2] \in Nat
        BY DEF Objects
    <2>5. FreshWhole'
        BY <1>3, <2>1, <2>4 DEF Replace, ConnTypes, Framing, FreshWhole
    <2> QED BY <2>2, <2>3, <2>5 DEF Framing
<1>4. CASE ReplaceInSend \/ CloseCancel \/ CloseStop
    BY <1>4, QuietStep DEF ReplaceInSend, CloseCancel, CloseStop
<1>5. CASE LoopTop \/ LoopEnd \/ ResendTake \/ ResendDone \/ TrimTracker
    BY <1>5, QuietStep DEF LoopTop, LoopEnd, ResendTake, ResendDone, TrimTracker
<1>6. CASE TakeRetained \/ TakePacket \/ NothingToTake
    BY <1>6, QuietStep DEF TakeRetained, TakePacket, NothingToTake
<1>7. CASE Rate
    BY <1>7, QuietStep DEF Rate
<1>8. ASSUME NEW s \in Slots, Skip(s) \/ WriteBlocked(s) PROVE Framing'
    BY <1>8, QuietStep DEF Skip, WriteBlocked
<1>9. ASSUME NEW s \in Slots, WriteFails(s) PROVE Framing'
    BY <1>9, QuietStep DEF WriteFails, Disconnect
<1>10. ASSUME NEW s \in Slots, WriteWhole(s) PROVE Framing'
    <2>1. stream[ObjectOf(s)] = "whole" /\ ObjectOf(s) \in Objects
        BY <1>10, AliveWhole DEF WriteWhole
    <2>2. stream' = stream
        BY <1>10, <2>1 DEF WriteWhole, Written, ConnTypes
    <2> QED BY <1>10, <2>2, QuietStep DEF WriteWhole
<1>11. ASSUME NEW s \in Slots, WritePart(s) PROVE Framing'
    <2>1. stream[ObjectOf(s)] = "whole" /\ ObjectOf(s) \in Objects
        BY <1>11, AliveWhole DEF WritePart
    <2>2. stream' = [stream EXCEPT ![ObjectOf(s)] = "partial"]
        BY <1>11, <2>1 DEF WritePart, Written, ConnTypes
    <2>3. /\ spc' = "flush" /\ at' = {s} /\ snap' = snap /\ alive' = alive
          /\ replaced' = replaced /\ ObjectOf(s) \in alive /\ spc # "flush"
        BY <1>11 DEF WritePart
    <2>4. FramingIntact' BY <2>2 DEF Framing, FramingIntact, ConnTypes
    <2>5. UnfinishedIsDead'
        BY <2>1, <2>2, <2>3 DEF Framing, UnfinishedIsDead, ConnTypes, ObjectOf
    <2>6. FreshWhole'
        <3>1. \A o \in Objects : o[2] \in Nat
            BY DEF Objects
        <3> QED BY <2>1, <2>2, <2>3, <3>1 DEF Framing, FreshWhole, ConnTypes
    <2> QED BY <2>4, <2>5, <2>6 DEF Framing
<1>12. ASSUME NEW s \in Slots, FlushDone(s) PROVE Framing'
    <2>1. ObjectOf(s) \in alive /\ ObjectOf(s) \in Objects /\ spc = "flush" /\ s \in at
        BY <1>12 DEF FlushDone, ConnTypes
    <2>2. at = {s}
        BY <2>1 DEF Framing, FreshWhole
    <2>3. stream' = [stream EXCEPT ![ObjectOf(s)] = "whole"]
        BY <1>12, <2>1 DEF FlushDone, Framing, FramingIntact, ConnTypes
    <2>4. at' = {} /\ alive' = alive /\ replaced' = replaced
        BY <1>12 DEF FlushDone
    <2>5. FramingIntact' BY <2>3 DEF Framing, FramingIntact, ConnTypes
    <2>6. UnfinishedIsDead'
        BY <2>1, <2>2, <2>3, <2>4 DEF Framing, UnfinishedIsDead, ConnTypes
    <2>7. FreshWhole'
        BY <2>1, <2>3, <2>4 DEF Framing, FreshWhole, ConnTypes
    <2> QED BY <2>5, <2>6, <2>7 DEF Framing
<1>13. ASSUME NEW s \in Slots, FlushFails(s) PROVE Framing'
    <2>1. /\ at' = {} /\ alive' = alive \ {ObjectOf(s)} /\ UNCHANGED <<stream, replaced>>
          /\ s \in at
        BY <1>13 DEF FlushFails, Disconnect
    <2>2. at = {s}
        BY <2>1 DEF Framing, FreshWhole
    <2>3. FramingIntact' BY <2>1 DEF Framing, FramingIntact
    <2>4. UnfinishedIsDead' BY <2>1, <2>2 DEF Framing, UnfinishedIsDead
    <2>5. FreshWhole' BY <2>1 DEF Framing, FreshWhole
    <2> QED BY <2>3, <2>4, <2>5 DEF Framing
<1>14. CASE RetainPacket \/ ResendAgain \/ ResendGivesUp
    BY <1>14, QuietStep DEF RetainPacket, ResendAgain, ResendGivesUp
<1>15. CASE UNCHANGED vars BY <1>15, QuietStep DEF vars
<1> QED BY <1>1, <1>2, <1>3, <1>4, <1>5, <1>6, <1>7, <1>8, <1>9, <1>10, <1>11, <1>12,
           <1>13, <1>14, <1>15, StepCases
-----------------------------------------------------------------------------
(***************************************************************************)
(* Order and conservation.                                                 *)
(***************************************************************************)
\* Dequeuing moves the head of the queue behind what was written before it.
LEMMA DequeueMoves ==
    ASSUME NEW s \in Seq(Packets), NEW q \in Seq(Packets), q # <<>>
    PROVE  s \o <<Head(q)>> \o Tail(q) = s \o <<>> \o q
<1>1. Head(q) \in Packets /\ Tail(q) \in Seq(Packets) /\ <<Head(q)>> \in Seq(Packets)
    BY HeadTailProperties
<1>2. <<Head(q)>> \o Tail(q) = q
    <2> DEFINE t == <<Head(q)>> \o Tail(q)
    <2>1. t \in Seq(Packets) /\ Len(t) = Len(q)
        BY <1>1, ConcatProperties, HeadTailProperties
    <2>2. \A i \in 1..Len(q) : t[i] = q[i]
        BY <1>1, ConcatProperties, HeadTailProperties
    <2> HIDE DEF t
    <2>3. t = q BY <2>1, <2>2, SeqEqual
    <2> QED BY <2>3 DEF t
<1>3. s \o <<>> = s BY ConcatEmptySeq
<1> QED BY <1>1, <1>2, <1>3, ConcatAssociative

\* Enqueuing appends to the pipeline.
LEMMA EnqueueAppends ==
    ASSUME NEW s \in Seq(Packets), NEW q \in Seq(Packets), NEW e \in Packets
    PROVE  s \o Append(q, e) = Append(s \o q, e)
<1>1. <<e>> \in Seq(Packets) OBVIOUS
<1>2. s \o q \in Seq(Packets) BY ConcatProperties
<1>3. Append(q, e) = q \o <<e>> BY AppendIsConcat
<1>4. Append(s \o q, e) = (s \o q) \o <<e>> BY <1>2, AppendIsConcat
<1> QED BY <1>1, <1>3, <1>4, ConcatAssociative

\* A step changes the pipeline only by appending: a packet with the next id, or
\* a notification.
LEMMA PipelineStep ==
    PacketTypes /\ [Next]_vars =>
        \/ UNCHANGED <<Pipeline, nextId>>
        \/ nextId' = nextId + 1 /\ Pipeline' = Append(Pipeline, Data(nextId))
        \/ nextId' = nextId /\ Pipeline' = Append(Pipeline, Notify)
<1> SUFFICES ASSUME PacketTypes, [Next]_vars
    PROVE  \/ UNCHANGED <<Pipeline, nextId>>
           \/ nextId' = nextId + 1 /\ Pipeline' = Append(Pipeline, Data(nextId))
           \/ nextId' = nextId /\ Pipeline' = Append(Pipeline, Notify)
    OBVIOUS
<1> USE DEF Pipeline, queueVars, callVars, packetVars
<1>0. /\ sent \o cur \in Seq(Packets) /\ sendQueue \in Seq(Packets)
      /\ sent \in Seq(Packets) /\ cur \in Seq(Packets) /\ nextId \in Nat
    BY ConcatProperties DEF PacketTypes
<1>1. CASE Accept
    <2>1. Data(nextId) \in Packets BY <1>0 DEF Data, Packets
    <2> QED BY <1>0, <1>1, <2>1, EnqueueAppends DEF Accept
<1>2. CASE NotifyPeer
    <2>1. Notify \in Packets BY DEF Notify, Packets
    <2> QED BY <1>0, <1>2, <2>1, EnqueueAppends DEF NotifyPeer
<1>3. CASE \E n \in 0..(nextId - 1) : ResendAsked(n)
    BY <1>3 DEF ResendAsked
<1>4. CASE \E o \in Objects : PeerCloses(o)
    BY <1>4 DEF PeerCloses
<1>5. CASE (\E s \in Slots : Replace(s)) \/ ReplaceInSend \/ CloseCancel \/ CloseStop
    BY <1>5 DEF Replace, ReplaceInSend, CloseCancel, CloseStop
<1>6. CASE LoopTop \/ LoopEnd \/ ResendTake \/ ResendDone \/ TrimTracker
    BY <1>6 DEF LoopTop, LoopEnd, ResendTake, ResendDone, TrimTracker
<1>7. CASE TakeRetained \/ NothingToTake \/ Rate
    BY <1>7 DEF TakeRetained, NothingToTake, Rate
<1>8. CASE TakePacket
    BY <1>0, <1>8, DequeueMoves DEF TakePacket
<1>9. ASSUME NEW s \in Slots,
             Skip(s) \/ WritePart(s) \/ WriteBlocked(s) \/ WriteFails(s) \/ FlushFails(s)
      PROVE  UNCHANGED <<Pipeline, nextId>>
    BY <1>9 DEF Skip, WritePart, WriteBlocked, WriteFails, FlushFails
<1>10. ASSUME NEW s \in Slots, WriteWhole(s) \/ FlushDone(s)
       PROVE  UNCHANGED <<Pipeline, nextId>>
    <2>1. PacketDone /\ UNCHANGED <<sendQueue, nextId>>
        BY <1>10 DEF WriteWhole, FlushDone
    <2>2. sent' \o cur' = sent \o cur
        <3>1. CASE sent' = sent \o cur /\ cur' = <<>>
            BY <1>0, <3>1, ConcatEmptySeq
        <3> QED BY <2>1, <3>1 DEF PacketDone
    <2> QED BY <2>1, <2>2
<1>11. CASE RetainPacket \/ ResendAgain \/ ResendGivesUp
    BY <1>11 DEF RetainPacket, ResendAgain, ResendGivesUp
<1>12. CASE UNCHANGED vars BY <1>12 DEF vars
<1> QED BY <1>1, <1>2, <1>3, <1>4, <1>5, <1>6, <1>7, <1>8, <1>9, <1>10, <1>11, <1>12,
           StepCases
\* Appending a packet with the next id, or a notification, keeps the order and
\* loses nothing.
LEMMA PipelineInvStep ==
    PacketTypes /\ PipelineOrdered /\ PipelineKnown /\ PipelineComplete /\ [Next]_vars
        => (PipelineOrdered /\ PipelineKnown /\ PipelineComplete)'
<1> SUFFICES ASSUME PacketTypes, PipelineOrdered, PipelineKnown, PipelineComplete,
                    [Next]_vars
    PROVE  (PipelineOrdered /\ PipelineKnown /\ PipelineComplete)'
    OBVIOUS
<1>1. Pipeline \in Seq(Packets) /\ nextId \in Nat
    BY ConcatProperties DEF Pipeline, PacketTypes
<1>2. CASE UNCHANGED <<Pipeline, nextId>>
    BY <1>2 DEF PipelineOrdered, PipelineKnown, PipelineComplete
<1>3. ASSUME NEW e \in Packets, Pipeline' = Append(Pipeline, e)
      PROVE  /\ DOMAIN Pipeline = 1..Len(Pipeline) /\ Len(Pipeline) \in Nat
             /\ DOMAIN Pipeline' = 1..(Len(Pipeline) + 1)
             /\ \A i \in 1..Len(Pipeline) : Pipeline'[i] = Pipeline[i]
             /\ Pipeline'[Len(Pipeline) + 1] = e
    BY <1>1, <1>3, AppendProperties
<1>4. CASE nextId' = nextId + 1 /\ Pipeline' = Append(Pipeline, Data(nextId))
    <2>1. Data(nextId) \in Packets /\ Data(nextId).kind = "data" /\ Data(nextId).id = nextId
        BY <1>1 DEF Data, Packets
    <2>2. /\ DOMAIN Pipeline = 1..Len(Pipeline) /\ Len(Pipeline) \in Nat
          /\ DOMAIN Pipeline' = 1..(Len(Pipeline) + 1)
          /\ \A i \in 1..Len(Pipeline) : Pipeline'[i] = Pipeline[i]
          /\ Pipeline'[Len(Pipeline) + 1] = Data(nextId)
        BY <1>3, <1>4, <2>1
    <2>3. \A i \in DOMAIN Pipeline : Pipeline[i].id \in Nat
        <3>1. \A p \in Packets : p.id \in Nat BY DEF Packets
        <3>2. \A i \in 1..Len(Pipeline) : Pipeline[i] \in Packets BY <1>1
        <3> QED BY <2>2, <3>1, <3>2
    <2>4. PipelineOrdered'
        BY <2>1, <2>2 DEF PipelineOrdered, PipelineKnown
    <2>5. PipelineKnown'
        BY <1>1, <1>4, <2>1, <2>2, <2>3 DEF PipelineKnown
    <2>6. PipelineComplete'
        BY <1>1, <1>4, <2>2 DEF PipelineComplete
    <2> QED BY <2>4, <2>5, <2>6
<1>5. CASE nextId' = nextId /\ Pipeline' = Append(Pipeline, Notify)
    <2>1. Notify \in Packets /\ Notify.kind # "data"
        BY DEF Notify, Packets
    <2>2. /\ DOMAIN Pipeline = 1..Len(Pipeline) /\ Len(Pipeline) \in Nat
          /\ DOMAIN Pipeline' = 1..(Len(Pipeline) + 1)
          /\ \A i \in 1..Len(Pipeline) : Pipeline'[i] = Pipeline[i]
          /\ Pipeline'[Len(Pipeline) + 1] = Notify
        BY <1>3, <1>5, <2>1
    <2>3. PipelineOrdered'
        BY <2>1, <2>2 DEF PipelineOrdered
    <2>4. PipelineKnown'
        BY <1>5, <2>1, <2>2 DEF PipelineKnown
    <2>5. PipelineComplete'
        BY <1>5, <2>2 DEF PipelineComplete
    <2> QED BY <2>3, <2>4, <2>5
<1> QED BY <1>2, <1>4, <1>5, PipelineStep
-----------------------------------------------------------------------------
\* IInv is an invariant of the send thread: types, framing,
\* order and conservation.
THEOREM SendInvariance == Spec => []IInv
<1>1. Init => IInv
    <2> SUFFICES ASSUME Init PROVE IInv
        OBVIOUS
    <2>1. FlagTypes BY DEF Init, FlagTypes
    <2>2. PacketTypes
        <3>1. asked \in [notify : Nat, resend : Nat] BY DEF Init
        <3>2. retry = <<>> /\ DOMAIN retry = {}
            BY DEF Init
        <3> QED BY <3>1, <3>2 DEF Init, PacketTypes
    <2>3. ConnTypes BY DEF Init, ConnTypes, Objects
    <2>4. FramingIntact /\ UnfinishedIsDead BY DEF Init, FramingIntact, UnfinishedIsDead
    <2>5. FreshWhole BY DEF Init, FreshWhole
    <2>6. Pipeline = <<>> /\ DOMAIN Pipeline = {} /\ nextId = 0
        BY DEF Init, Pipeline
    <2>7. PipelineOrdered /\ PipelineKnown /\ PipelineComplete
        BY <2>6 DEF PipelineOrdered, PipelineKnown, PipelineComplete
    <2> QED BY <2>1, <2>2, <2>3, <2>4, <2>5, <2>7 DEF IInv, TypeOK
<1>2. IInv /\ [Next]_vars => IInv'
    BY FlagStep, PacketStep, ConnStep, FramingStep, PipelineInvStep
       DEF IInv, TypeOK, Framing
<1> QED BY <1>1, <1>2, PTL DEF Spec

\* The variables of the send thread keep their types: at most one packet is in
\* hand, and the retry count stored for a resend stays within MAX_RESEND_RETRIES.
\* (That bounds the stored count, not the tries: emptying the tracker resets it,
\* and a try without a live resend connection is not counted.)
THEOREM SendTypes == Spec => []TypeOK
<1>1. IInv => TypeOK BY DEF IInv
<1> QED BY <1>1, SendInvariance, PTL

\* No TCP stream carries bytes of a packet after an unfinished one, whatever
\* fails or is replaced while run and sendOnResendConn write.
THEOREM FramingKept == Spec => []FramingIntact
<1>1. IInv => FramingIntact BY DEF IInv
<1> QED BY <1>1, SendInvariance, PTL

\* The data path of run handles the packets of send() in order, each once.
THEOREM SendOrder == Spec => []PipelineOrdered
<1>1. IInv => PipelineOrdered BY DEF IInv
<1> QED BY <1>1, SendInvariance, PTL

\* The data path of run loses no packet that send() accepted.
THEOREM NothingDropped == Spec => []AcceptedKept
<1>1. IInv => AcceptedKept BY DEF IInv, AcceptedKept
<1> QED BY <1>1, SendInvariance, PTL
==============================================================================
