----------------------------- MODULE WorkProofs ------------------------------
(***************************************************************************)
(* Proof that the send thread never sleeps through work, for every number  *)
(* of calls and every width of the counters that can hold them.            *)
(***************************************************************************)
EXTENDS WorkQueue, TLAPS

USE WorkConstants

\* The counters step through 0..SizeMod-1 and wrap at both ends.
LEMMA CounterFacts ==
    ASSUME NEW n \in 0..(SizeMod - 1)
    PROVE  /\ Up(n) = IF n = SizeMod - 1 THEN 0 ELSE n + 1
           /\ Down(n) = IF n = 0 THEN SizeMod - 1 ELSE n - 1
<1>1. Up(n) = IF n = SizeMod - 1 THEN 0 ELSE n + 1
    <2>1. CASE n = SizeMod - 1
        <3>1. (n + 1) % SizeMod = 0 BY <2>1
        <3> QED BY <2>1, <3>1 DEF Up
    <2>2. CASE n # SizeMod - 1
        <3>1. (n + 1) % SizeMod = n + 1 BY <2>2
        <3> QED BY <2>2, <3>1 DEF Up
    <2> QED BY <2>1, <2>2
<1>2. Down(n) = IF n = 0 THEN SizeMod - 1 ELSE n - 1
    <2>1. CASE n = 0
        <3>1. (n - 1) % SizeMod = SizeMod - 1 BY <2>1
        <3> QED BY <2>1, <3>1 DEF Down
    <2>2. CASE n # 0
        <3>1. (n - 1) % SizeMod = n - 1 BY <2>2
        <3> QED BY <2>2, <3>1 DEF Down
    <2> QED BY <2>1, <2>2
<1> QED BY <1>1, <1>2

\* The cases of a step, for the lemmas below.
LEMMA StepCases ==
    [Next]_vars =>
        \/ SendDrop
        \/ \E t \in Threads : Push(t) \/ Count(t)
        \/ \E t \in Stoppers : Cancel(t) \/ Stop(t) \/ StopNotifies(t)
        \/ \E t \in Callers : Wake(t)
        \/ ConnDies \/ Replace \/ ReplaceNotifies
        \/ ResendTake \/ ResendAgain \/ TakePacket
        \/ LoopTop
        \/ ResendEnds \/ ResendDone \/ NothingToTake \/ IdleExpires
        \/ IdleCheck \/ IdleSleep
        \/ TakeRetained \/ NotSent
        \/ Attempt \/ Sent \/ ConnCheck \/ ConnSleep \/ ConnExpires
        \/ UNCHANGED vars
BY DEF Next, Enqueuing, Run, Stopped

\* Each action keeps the types.
LEMMA TypeStep == TypeOK /\ [Next]_vars => TypeOK'
<1> SUFFICES ASSUME TypeOK, [Next]_vars PROVE TypeOK'
    OBVIOUS
<1> USE DEF TypeOK, callVars, flagVars, roundVars, connVars, RunPcs
<1>1. CASE SendDrop BY <1>1 DEF SendDrop, Threads
<1>2. ASSUME NEW t \in Threads, Push(t) PROVE TypeOK'
    BY <1>2 DEF Push, QueueOf, Queues, Threads, Stoppers, Callers, CallerPcs
<1>3. ASSUME NEW t \in Threads, Count(t) PROVE TypeOK'
    <2>1. approx' \in [Queues -> 0..(SizeMod - 1)]
        BY <1>3, CounterFacts DEF Count, QueueOf, Queues
    <2> QED BY <1>3, <2>1 DEF Count, Threads, Stoppers, Callers, CallerPcs
<1>4. ASSUME NEW t \in Stoppers, Cancel(t) PROVE TypeOK'
    BY <1>4 DEF Cancel, Callers, CallerPcs
<1>5. ASSUME NEW t \in Stoppers, Stop(t) \/ StopNotifies(t) PROVE TypeOK'
    <2>1. CASE Stop(t) BY <2>1 DEF Stop, CallerPcs
    <2>2. CASE StopNotifies(t) BY <2>2 DEF StopNotifies, WakeConn, CallerPcs
    <2> QED BY <1>5, <2>1, <2>2
<1>6. ASSUME NEW t \in Callers, Wake(t) PROVE TypeOK'
    BY <1>6 DEF Wake, CallerPcs
<1>7. CASE ResendTake
    <2>1. approx' \in [Queues -> 0..(SizeMod - 1)] /\ size' \in [Queues -> Nat]
        BY <1>7, CounterFacts DEF ResendTake, Dequeue, CanTake, Queues
    <2> QED BY <1>7, <2>1 DEF ResendTake
<1>8. CASE ResendAgain
    <2>1. approx' \in [Queues -> 0..(SizeMod - 1)] /\ size' \in [Queues -> Nat]
        BY <1>8, CounterFacts DEF ResendAgain, Queues
    <2> QED BY <1>8, <2>1 DEF ResendAgain
<1>9. CASE TakePacket
    <2>1. approx' \in [Queues -> 0..(SizeMod - 1)] /\ size' \in [Queues -> Nat]
        BY <1>9, CounterFacts DEF TakePacket, Dequeue, CanTake, Queues
    <2> QED BY <1>9, <2>1 DEF TakePacket
<1>10. CASE LoopTop BY <1>10 DEF LoopTop
<1>11. CASE ResendEnds \/ ResendDone \/ NothingToTake \/ IdleExpires
    BY <1>11 DEF ResendEnds, ResendDone, NothingToTake, IdleExpires
<1>12. CASE IdleCheck \/ IdleSleep BY <1>12 DEF IdleCheck, IdleSleep
<1>13. CASE UNCHANGED vars BY <1>13 DEF vars
<1>14. CASE ConnDies \/ Replace \/ ReplaceNotifies
    BY <1>14 DEF ConnDies, Replace, ReplaceNotifies, WakeConn
<1>15. CASE TakeRetained \/ NotSent BY <1>15 DEF TakeRetained, NotSent
<1>16. CASE Attempt \/ Sent \/ ConnCheck \/ ConnSleep \/ ConnExpires
    BY <1>16 DEF Attempt, Sent, ConnCheck, ConnSleep, ConnExpires
<1> QED BY <1>1, <1>2, <1>3, <1>4, <1>5, <1>6, <1>7, <1>8, <1>9, <1>10, <1>11, <1>12,
           <1>13, <1>14, <1>15, <1>16, StepCases

\* Each thread stays in its role.
LEMMA RolesStep == TypeOK /\ RolesKept /\ [Next]_vars => RolesKept'
<1> SUFFICES ASSUME TypeOK, RolesKept, [Next]_vars PROVE RolesKept'
    OBVIOUS
<1> USE DEF RolesKept, TypeOK, Threads, Stoppers, Callers
<1>1. CASE SendDrop BY <1>1 DEF SendDrop
<1>2. ASSUME NEW t \in Threads, Push(t) \/ Count(t) PROVE RolesKept'
    BY <1>2 DEF Push, Count
<1>3. ASSUME NEW t \in Stoppers, Cancel(t) \/ Stop(t) \/ StopNotifies(t) PROVE RolesKept'
    BY <1>3 DEF Cancel, Stop, StopNotifies
<1>4. ASSUME NEW t \in Callers, Wake(t) PROVE RolesKept'
    BY <1>4 DEF Wake
<1>5. CASE ResendTake \/ ResendAgain \/ TakePacket \/ LoopTop
    BY <1>5 DEF ResendTake, ResendAgain, TakePacket, LoopTop
<1>6. CASE ResendEnds \/ ResendDone \/ NothingToTake \/ IdleExpires \/ IdleCheck \/ IdleSleep
    BY <1>6 DEF ResendEnds, ResendDone, NothingToTake, IdleExpires, IdleCheck, IdleSleep
<1>7. CASE UNCHANGED vars BY <1>7 DEF vars
<1>8. CASE ConnDies \/ Replace \/ ReplaceNotifies
    BY <1>8 DEF ConnDies, Replace, ReplaceNotifies
<1>9. CASE TakeRetained \/ NotSent \/ Attempt \/ Sent \/ ConnCheck \/ ConnSleep \/ ConnExpires
    BY <1>9 DEF TakeRetained, NotSent, Attempt, Sent, ConnCheck, ConnSleep, ConnExpires
<1> QED BY <1>1, <1>2, <1>3, <1>4, <1>5, <1>6, <1>7, <1>8, <1>9, StepCases

\* Pushes, counts and dequeues keep the counters exact and the queues bounded.
LEMMA NumbersStep ==
    TypeOK /\ RolesKept /\ ApproxExact /\ SizeBounded /\ [Next]_vars
        => (ApproxExact /\ SizeBounded)'
<1> SUFFICES ASSUME TypeOK, RolesKept, ApproxExact, SizeBounded, [Next]_vars
             PROVE  (ApproxExact /\ SizeBounded)'
    OBVIOUS
<1>0. /\ size["send"] \in Nat /\ size["resend"] \in Nat
      /\ approx["send"] \in 0..(SizeMod - 1) /\ approx["resend"] \in 0..(SizeMod - 1)
      /\ size \in [Queues -> Nat] /\ approx \in [Queues -> 0..(SizeMod - 1)]
      /\ calls["user"] \in 0..MaxCalls /\ calls["reorder"] \in 0..MaxCalls
      /\ calls["io"] \in 0..MaxCalls /\ calls \in [Threads -> 0..MaxCalls]
      /\ tpc \in [Callers -> CallerPcs]
    BY DEF TypeOK, Queues, Threads
<1> USE DEF ApproxExact, SizeBounded, CountedSend, CountedResend, Uncounted, Wrapped
<1>1. CASE SendDrop BY <1>0, <1>1 DEF SendDrop, flagVars, Threads
<1>2. ASSUME NEW t \in Threads, Push(t) PROVE (ApproxExact /\ SizeBounded)'
    BY <1>0, <1>2 DEF Push, QueueOf, Threads, Stoppers, Callers, Queues
<1>3. ASSUME NEW t \in Threads, Count(t) PROVE (ApproxExact /\ SizeBounded)'
    <2>1. /\ tpc[t] = "pushed" /\ tpc' = [tpc EXCEPT ![t] = "notifying"]
          /\ UNCHANGED <<size, calls, spc>>
          /\ approx' = [approx EXCEPT ![QueueOf(t)] = Up(approx[QueueOf(t)])]
        BY <1>3 DEF Count, callVars
    <2>2. /\ Up(approx["send"]) = IF approx["send"] = SizeMod - 1 THEN 0 ELSE approx["send"] + 1
          /\ Up(approx["resend"]) = IF approx["resend"] = SizeMod - 1 THEN 0
                                                                      ELSE approx["resend"] + 1
        BY <1>0, CounterFacts
    <2>3. CASE t = "io"
        BY <1>0, <2>1, <2>2, <2>3 DEF QueueOf, Threads, Stoppers, Callers, Queues
    <2>4. CASE t \in {"user", "reorder"}
        BY <1>0, <2>1, <2>2, <2>4 DEF QueueOf, Threads, Stoppers, Callers, Queues
    <2> QED BY <2>3, <2>4 DEF Threads
<1>4. ASSUME NEW t \in Stoppers, Cancel(t) \/ Stop(t) \/ StopNotifies(t)
      PROVE  (ApproxExact /\ SizeBounded)'
    BY <1>0, <1>4 DEF Cancel, Stop, StopNotifies, WakeConn, Threads, Stoppers, Callers, callVars
<1>5. ASSUME NEW t \in Callers, Wake(t) PROVE (ApproxExact /\ SizeBounded)'
    BY <1>0, <1>5 DEF Wake, Threads, Stoppers, Callers, callVars
<1>6. CASE ResendTake
    <2>1. Down(approx["resend"]) = IF approx["resend"] = 0 THEN SizeMod - 1
                                                           ELSE approx["resend"] - 1
        BY <1>0, CounterFacts
    <2> QED BY <1>0, <1>6, <2>1 DEF ResendTake, Dequeue, CanTake, Queues, callVars
<1>7. CASE ResendAgain
    <2>1. Up(approx["resend"]) = IF approx["resend"] = SizeMod - 1 THEN 0
                                                                   ELSE approx["resend"] + 1
        BY <1>0, CounterFacts
    <2> QED BY <1>0, <1>7, <2>1 DEF ResendAgain, Queues, callVars
<1>8. CASE TakePacket
    <2>1. Down(approx["send"]) = IF approx["send"] = 0 THEN SizeMod - 1 ELSE approx["send"] - 1
        BY <1>0, CounterFacts
    <2> QED BY <1>0, <1>8, <2>1 DEF TakePacket, Dequeue, CanTake, Queues, callVars
<1>9. CASE LoopTop BY <1>0, <1>9 DEF LoopTop, callVars
<1>10. CASE ResendEnds \/ ResendDone \/ NothingToTake \/ IdleExpires \/ IdleCheck \/ IdleSleep
    BY <1>0, <1>10
    DEF ResendEnds, ResendDone, NothingToTake, IdleExpires, IdleCheck, IdleSleep, callVars
<1>11. CASE UNCHANGED vars BY <1>0, <1>11 DEF vars, callVars
<1>12. CASE ConnDies \/ Replace \/ ReplaceNotifies
    BY <1>0, <1>12 DEF ConnDies, Replace, ReplaceNotifies, WakeConn, callVars
<1>13. CASE TakeRetained \/ NotSent
    BY <1>0, <1>13 DEF TakeRetained, NotSent, callVars
<1>14. CASE Attempt \/ Sent \/ ConnCheck \/ ConnSleep \/ ConnExpires
    BY <1>0, <1>14 DEF Attempt, Sent, ConnCheck, ConnSleep, ConnExpires, callVars
<1> QED BY <1>1, <1>2, <1>3, <1>4, <1>5, <1>6, <1>7, <1>8, <1>9, <1>10, <1>11, <1>12,
           <1>13, <1>14, StepCases

\* A step that makes the idle predicate true while the thread holds waker->mtx
\* or sleeps leaves a notification to come; a notification ends the sleep.
LEMMA SleepStep == TypeOK /\ SleepGuarded /\ [Next]_vars => SleepGuarded'
<1> SUFFICES ASSUME TypeOK, SleepGuarded, [Next]_vars PROVE SleepGuarded'
    OBVIOUS
<1>0. tpc \in [Callers -> CallerPcs]
      /\ approx \in [Queues -> 0..(SizeMod - 1)]
    BY DEF TypeOK
<1> USE DEF SleepGuarded, Threads, Stoppers, Callers
<1>1. CASE SendDrop BY <1>1 DEF SendDrop, flagVars, roundVars
<1>2. ASSUME NEW t \in Threads, Push(t) PROVE SleepGuarded'
    BY <1>0, <1>2 DEF Push, flagVars, roundVars
<1>3. ASSUME NEW t \in Threads, Count(t) PROVE SleepGuarded'
    BY <1>0, <1>3 DEF Count, QueueOf, Queues, flagVars, roundVars
<1>4. ASSUME NEW t \in Stoppers, Cancel(t) PROVE SleepGuarded'
    BY <1>0, <1>4 DEF Cancel, roundVars
<1>5. ASSUME NEW t \in Stoppers, Stop(t) \/ StopNotifies(t) PROVE SleepGuarded'
    BY <1>0, <1>5 DEF Stop, StopNotifies, WakeConn, flagVars, roundVars
<1>6. ASSUME NEW t \in Callers, Wake(t) PROVE SleepGuarded'
    BY <1>0, <1>6 DEF Wake
<1>7. CASE ResendTake \/ ResendAgain \/ TakePacket \/ LoopTop
    BY <1>7 DEF ResendTake, ResendAgain, TakePacket, LoopTop
<1>8. CASE ResendEnds \/ ResendDone \/ NothingToTake \/ IdleExpires
    BY <1>8 DEF ResendEnds, ResendDone, NothingToTake, IdleExpires
<1>9. CASE IdleCheck
    BY <1>9 DEF IdleCheck, IdlePredicate, flagVars, roundVars
<1>10. CASE IdleSleep
    BY <1>10 DEF IdleSleep, flagVars, roundVars
<1>11. CASE UNCHANGED vars BY <1>11 DEF vars, flagVars, roundVars
<1>12. CASE ConnDies \/ Replace \/ ReplaceNotifies
    BY <1>12 DEF ConnDies, Replace, ReplaceNotifies, WakeConn, flagVars, roundVars
<1>13. CASE TakeRetained \/ NotSent BY <1>13 DEF TakeRetained, NotSent
<1>14. CASE Attempt \/ Sent \/ ConnCheck \/ ConnSleep \/ ConnExpires
    BY <1>14 DEF Attempt, Sent, ConnCheck, ConnSleep, ConnExpires
<1> QED BY <1>1, <1>2, <1>3, <1>4, <1>5, <1>6, <1>7, <1>8, <1>9, <1>10, <1>11, <1>12,
           <1>13, <1>14, StepCases

\* A retained packet is taken before sendQueue is looked at, and whoever makes a
\* connection available to the sleeping thread still has to notify.
LEMMA RetainedStep ==
    TypeOK /\ RetainedPlaced /\ ConnSleepGuarded /\ [Next]_vars
        => (RetainedPlaced /\ ConnSleepGuarded)'
<1> SUFFICES ASSUME TypeOK, RetainedPlaced, ConnSleepGuarded, [Next]_vars
             PROVE  (RetainedPlaced /\ ConnSleepGuarded)'
    OBVIOUS
<1> USE DEF RetainedPlaced, ConnSleepGuarded, TypeOK, connVars
<1>1. CASE SendDrop BY <1>1 DEF SendDrop
<1>2. ASSUME NEW t \in Threads, Push(t) \/ Count(t) PROVE (RetainedPlaced /\ ConnSleepGuarded)'
    BY <1>2 DEF Push, Count
<1>3. ASSUME NEW t \in Stoppers, Cancel(t) \/ Stop(t) \/ StopNotifies(t)
      PROVE  (RetainedPlaced /\ ConnSleepGuarded)'
    BY <1>3 DEF Cancel, Stop, StopNotifies, WakeConn
<1>4. ASSUME NEW t \in Callers, Wake(t) PROVE (RetainedPlaced /\ ConnSleepGuarded)'
    BY <1>4 DEF Wake
<1>5. CASE ConnDies \/ Replace \/ ReplaceNotifies
    BY <1>5 DEF ConnDies, Replace, ReplaceNotifies, WakeConn
<1>6. CASE ResendTake \/ ResendAgain \/ TakePacket \/ LoopTop
    BY <1>6 DEF ResendTake, ResendAgain, TakePacket, LoopTop
<1>7. CASE ResendEnds \/ ResendDone \/ NothingToTake \/ IdleExpires \/ IdleCheck \/ IdleSleep
    BY <1>7 DEF ResendEnds, ResendDone, NothingToTake, IdleExpires, IdleCheck, IdleSleep
<1>8. CASE TakeRetained \/ NotSent BY <1>8 DEF TakeRetained, NotSent
<1>9. CASE Attempt \/ Sent \/ ConnCheck \/ ConnSleep \/ ConnExpires
    BY <1>9 DEF Attempt, Sent, ConnCheck, ConnSleep, ConnExpires
<1>10. CASE UNCHANGED vars BY <1>10 DEF vars
<1> QED BY <1>1, <1>2, <1>3, <1>4, <1>5, <1>6, <1>7, <1>8, <1>9, <1>10, StepCases
------------------------------------------------------------------------------
\* The invariant of the queues holds always: the counters are exact up to the
\* packets not yet counted, and every sleep is guarded.
THEOREM QueueInvariance == Spec => []IInv
<1>1. Init => IInv
    <2> SUFFICES ASSUME Init PROVE IInv
        OBVIOUS
    <2>1. TypeOK
        <3>1. /\ size \in [Queues -> Nat] /\ approx \in [Queues -> 0..(SizeMod - 1)]
              /\ calls \in [Threads -> 0..MaxCalls] /\ drops \in Nat /\ batch \in 0..MaxBatch
            BY DEF Init
        <3>2. tpc \in [Callers -> CallerPcs] /\ spc \in RunPcs
            BY DEF Init, CallerPcs, RunPcs
        <3>3. /\ cancelled \in BOOLEAN /\ opened \in BOOLEAN /\ running \in BOOLEAN
              /\ anyAlive \in BOOLEAN
              /\ replacing \in BOOLEAN /\ pending \in BOOLEAN /\ dataAlive \in BOOLEAN
            BY DEF Init
        <3> QED BY <3>1, <3>2, <3>3 DEF TypeOK
    <2>2. ApproxExact /\ SizeBounded
        BY DEF Init, ApproxExact, SizeBounded, CountedSend, CountedResend, Uncounted,
               Wrapped, Threads, Stoppers, Callers, Queues
    <2>3. RolesKept /\ SleepGuarded /\ RetainedPlaced /\ ConnSleepGuarded
        BY DEF Init, RolesKept, SleepGuarded, RetainedPlaced, ConnSleepGuarded,
               Threads, Stoppers, Callers
    <2> QED BY <2>1, <2>2, <2>3 DEF IInv
<1>2. IInv /\ [Next]_vars => IInv'
    BY TypeStep, RolesStep, NumbersStep, SleepStep, RetainedStep DEF IInv
<1> QED BY <1>1, <1>2, PTL DEF Spec

\* The variables of the queues keep their types.
THEOREM QueueTypes == Spec => []TypeOK
<1>1. IInv => TypeOK BY DEF IInv
<1> QED BY <1>1, QueueInvariance, PTL

\* The send thread never sleeps on work that nobody is about to announce, in
\* either of its waits.
THEOREM WakeupsNotLost == Spec => []NoLostWakeup
<1>1. ASSUME IInv, spc = "asleep", WorkWaiting,
             \A t \in Callers : tpc[t] \notin {"pushed", "notifyConn", "notifying"}
      PROVE  FALSE
    <2>1. /\ Uncounted("user") = 0 /\ Uncounted("reorder") = 0 /\ Uncounted("io") = 0
        BY <1>1 DEF Uncounted, Threads, Stoppers, Callers
    <2>2. size["send"] \in Nat /\ size["resend"] \in Nat
        BY <1>1 DEF IInv, TypeOK, Queues
    <2>3. approx["send"] = size["send"] /\ approx["resend"] = size["resend"]
        BY <1>1, <2>1, <2>2 DEF IInv, ApproxExact, CountedSend, CountedResend, Wrapped
    <2>4. running /\ ~(approx["send"] > 0) /\ ~(anyAlive /\ approx["resend"] > 0)
        BY <1>1 DEF IInv, SleepGuarded, Threads, Stoppers, Callers
    <2>5. ~pending
        BY <1>1 DEF IInv, RetainedPlaced
    <2> QED BY <1>1, <2>3, <2>4, <2>5 DEF WorkWaiting
<1>2. IInv => NoLostWakeup
    BY <1>1 DEF NoLostWakeup, IInv, ConnSleepGuarded
<1> QED BY <1>2, QueueInvariance, PTL
==============================================================================
