---------------------------- MODULE ClientSession ----------------------------
(***************************************************************************)
(* The client: who builds, repairs and tears down its virtual channel.     *)
(*                                                                         *)
(* Main runs Client::Start again and again.  When the last connection of a *)
(* channel dies, the disconnect callback spawns a detached thread that     *)
(* runs ReconnectVC.  Between the two, the watchdog reconnects single dead *)
(* slots.  They share vc, tcpSockets, the watchdog's thread object and the *)
(* reconnect epoch.                                                        *)
(*                                                                         *)
(* Channels and sockets are numbered in the order of their creation, so    *)
(* that a file descriptor is never confused with its reuse.  A step is one *)
(* critical section, one access to shared state or one network operation;  *)
(* close() of a channel is one step (module ReorderThread looks into it).  *)
(* vcMutex is held over more than one step only by the watchdog (wpc =     *)
(* "replace").  The ids of connections and the tunnelled datagrams are     *)
(* left out.  An assertion, std::terminate or a null pointer ends the      *)
(* process: the thread is at "crashed" and nothing moves any more.         *)
(***************************************************************************)
EXTENDS Naturals, Sequences, FiniteSets

CONSTANTS NConn,       \* VC_TCP_CONNECTIONS
          MaxRetries,  \* maxRetries of ReconnectVC
          MaxVcs,      \* bound: channels created
          MaxSockets   \* bound: TCP sockets connected

ASSUME ClientConstants ==
    /\ NConn \in Nat \ {0} /\ MaxRetries \in Nat \ {0}
    /\ MaxVcs \in Nat /\ MaxSockets \in Nat

Chans == 1..MaxVcs
Sockets == 1..MaxSockets
Main == 0
\* Thread g \in Chans is the one that channel g's disconnect callback spawns.
Threads == {Main} \cup Chans

VARIABLES
    pc,          \* where each thread is
    ret,         \* where it goes after StopWatchdog (join) and TeardownVc (down)
    count,       \* its loop index in PrepareVC
    retry,       \* retryCount of ReconnectVC
    running,     \* running
    epoch,       \* reconnectEpoch
    vc,          \* vc: the number of the channel, 0 for nullptr
    st,          \* each channel: none, new, opening, open, dying or down
    conn,        \* its connections: the socket of each slot
    live,        \* its slots that are connected
    target,      \* the channel a thread is opening
    socks,       \* tcpSockets
    made,        \* sockets connected so far
    closes,      \* how often each socket was closed (counted up to 2)
    wdRunning,   \* watchdogRunning
    wdThread,    \* watchdogThread.joinable()
    wpc,         \* where the watchdog is
    wdead,       \* deadSlots still to be reconnected
    wslot,       \* slotIndex of ReconnectSingleSlot
    wepoch,      \* epochAtStart
    wsock,       \* its new socket (none or one)
    wseen,       \* history: the channel whose dead slots it read
    udpStale,    \* udpSocket is the number of a socket that is closed already
    overlaps     \* history: what time failed to keep apart (see Timing)

threadVars == <<pc, ret, count, retry>>
chanVars == <<st, conn, live, target>>
sockVars == <<socks, made>>
wdVars == <<wpc, wdead, wslot, wepoch, wsock, wseen>>
sideVars == <<udpStale, overlaps>>
coreVars == <<threadVars, running, epoch, vc, chanVars, sockVars, closes,
              wdRunning, wdThread, wdVars>>
vars == <<coreVars, sideVars>>

Init ==
    /\ pc = [t \in Threads |-> IF t = Main THEN "start" ELSE "none"]
    /\ ret = [t \in Threads |-> [join |-> "tdClose", down |-> "connect"]]
    /\ count = [t \in Threads |-> 0] /\ retry = [t \in Threads |-> 0]
    /\ running = FALSE /\ epoch = 0 /\ vc = 0
    /\ st = [g \in Chans |-> "none"] /\ conn = [g \in Chans |-> <<>>]
    /\ live = [g \in Chans |-> {}] /\ target = [t \in Threads |-> 0]
    /\ socks = <<>> /\ made = 0 /\ closes = [n \in Sockets |-> 0]
    /\ wdRunning = FALSE /\ wdThread = FALSE
    /\ wpc = "none" /\ wdead = {} /\ wslot = 1 /\ wepoch = 0 /\ wsock = {} /\ wseen = 0
    /\ udpStale = FALSE /\ overlaps = {}
------------------------------------------------------------------------------
Go(t, label) == pc' = [pc EXCEPT ![t] = label]

\* SocketClose on every socket of a set.
Closing(S) == [n \in Sockets |-> IF n \in S /\ closes[n] < 2 THEN closes[n] + 1 ELSE closes[n]]

\* vc && vc->isOpen()
VcOpen == vc \in {g \in Chans : st[g] = "open"}

\* vcMutex is free.
VcFree == wpc # "replace"

\* vc->close(): an open channel disconnects what is connected; one that was
\* torn down by its last disconnect has nothing left to do.
CloseVc ==
    \/ /\ VcOpen
       /\ st' = [st EXCEPT ![vc] = "down"]
       /\ live' = [live EXCEPT ![vc] = {}]
       /\ closes' = Closing({conn[vc][s] : s \in live[vc]})
    \/ /\ ~VcOpen
       /\ UNCHANGED <<st, live, closes>>

\* A call of TeardownVc, which starts with StopWatchdog.
CallTeardown(t, down) ==
    /\ Go(t, "stopWd")
    /\ ret' = [ret EXCEPT ![t] = [join |-> "tdClose", down |-> down]]

CallStopWatchdog(t, join) ==
    /\ Go(t, "stopWd")
    /\ ret' = [ret EXCEPT ![t].join = join]

(***************************************************************************)
(* Timing.  Nothing in the code keeps main and a reconnect thread from     *)
(* building at once; only time does.  overlaps records when it did not:    *)
(*  - "udp": PrepareUdpSocket failed while a channel was ending, or a      *)
(*    channel ended while Start was tearing it down for such a failure;    *)
(*  - "sleep": a sleep of a second or more ended before a stretch of       *)
(*    another thread that neither sleeps nor waits for the network.        *)
(* Every step is possible whether it is an overlap or not.                 *)
(***************************************************************************)
Apart == overlaps = {}

\* The step is an overlap of a kind if the condition holds.
Overlap(kind, condition) ==
    overlaps' = overlaps \cup IF condition THEN {kind} ELSE {}

PromptPcs == {"publish", "opening", "startWd", "stop", "stopClose"}

\* The sleep of t ends before a prompt stretch of another thread.
Overtakes(t) == \E u \in Threads \ {t} :
    pc[u] \in PromptPcs \/ (pc[u] \in {"stopWd", "joinWd"} /\ ret[u].join = "stopClose")

\* A channel is ending: its last connection is gone or its reconnect thread runs.
Reconnecting == \E g \in Chans : st[g] = "dying" \/ pc[g] \notin {"none", "done"}

\* Main, whose PrepareUdpSocket failed, is in TeardownVc.
MainTearing == pc[Main] \in {"stopWd", "joinWd", "tdClose"} /\ ret[Main].down = "asleep"
------------------------------------------------------------------------------
(***************************************************************************)
(* StopWatchdog and TeardownVc.                                            *)
(***************************************************************************)
StopFlag(t) ==
    /\ pc[t] = "stopWd"
    /\ wdRunning' = FALSE
    /\ Go(t, "joinWd")
    /\ UNCHANGED <<ret, count, retry, running, epoch, vc, chanVars, sockVars, closes,
                   wdThread, wdVars, sideVars>>

\* Mutant: the watchdog is told to stop, not waited for.
StopDetaches(t) ==
    /\ pc[t] = "joinWd"
    /\ wdThread' = FALSE
    /\ Go(t, ret[t].join)
    /\ UNCHANGED <<ret, count, retry, running, epoch, vc, chanVars, sockVars, closes,
                   wdRunning, wdVars, sideVars>>

\* Mutant: a thread object that has run to its end counts as joined.
StopSkipsEnded(t) ==
    /\ pc[t] = "joinWd"
    /\ ~wdThread \/ wpc = "exited"
    /\ Go(t, ret[t].join)
    /\ UNCHANGED <<ret, count, retry, running, epoch, vc, chanVars, sockVars, closes,
                   wdRunning, wdThread, wdVars, sideVars>>

\* join() under watchdogMutex, if the thread is joinable.
StopJoin(t) ==
    /\ pc[t] = "joinWd"
    /\ ~wdThread \/ wpc = "exited"
    /\ wdThread' = FALSE
    /\ Go(t, ret[t].join)
    /\ UNCHANGED <<ret, count, retry, running, epoch, vc, chanVars, sockVars, closes,
                   wdRunning, wdVars, sideVars>>

\* Under vcMutex: close and release the channel, if there is one.
TearClose(t) ==
    /\ pc[t] = "tdClose" /\ VcFree
    /\ CloseVc
    /\ vc' = 0
    /\ Go(t, IF vc # 0 THEN "tdForget" ELSE "tdRaw")
    /\ UNCHANGED <<ret, count, retry, running, epoch, conn, target, sockVars, wdRunning,
                   wdThread, wdVars, sideVars>>

\* Mutant: the raw sockets are closed although a channel owned them.
ForgetClosesAll(t) ==
    /\ pc[t] \in {"tdForget", "tdRaw"}
    /\ closes' = Closing({socks[i] : i \in DOMAIN socks})
    /\ socks' = <<>>
    /\ Go(t, ret[t].down)
    /\ UNCHANGED <<ret, count, retry, running, epoch, vc, chanVars, made, wdRunning,
                   wdThread, wdVars, sideVars>>

\* Mutant: tcpSockets is not cleared.
ForgetKeeps(t) ==
    /\ pc[t] \in {"tdForget", "tdRaw"}
    /\ closes' = IF pc[t] = "tdRaw" THEN Closing({socks[i] : i \in DOMAIN socks})
                                    ELSE closes
    /\ Go(t, ret[t].down)
    /\ UNCHANGED <<ret, count, retry, running, epoch, vc, chanVars, sockVars, wdRunning,
                   wdThread, wdVars, sideVars>>

\* Mutant: sockets that no channel owned are forgotten without being closed.
ForgetClosesNone(t) ==
    /\ pc[t] \in {"tdForget", "tdRaw"}
    /\ socks' = <<>>
    /\ Go(t, ret[t].down)
    /\ UNCHANGED <<ret, count, retry, running, epoch, vc, chanVars, made, closes,
                   wdRunning, wdThread, wdVars, sideVars>>

\* Without vcMutex: the raw sockets are closed if no channel owned them.
TearForget(t) ==
    /\ pc[t] \in {"tdForget", "tdRaw"}
    /\ closes' = IF pc[t] = "tdRaw" THEN Closing({socks[i] : i \in DOMAIN socks})
                                    ELSE closes
    /\ socks' = <<>>
    /\ Go(t, ret[t].down)
    /\ UNCHANGED <<ret, count, retry, running, epoch, vc, chanVars, made, wdRunning,
                   wdThread, wdVars, sideVars>>
------------------------------------------------------------------------------
(***************************************************************************)
(* PrepareVC, after its TeardownVc.                                        *)
(***************************************************************************)
Created == {g \in Chans : st[g] # "none"}

\* One more socket connected and bound to the client's id.
Connect(t) ==
    /\ pc[t] = "connect" /\ count[t] < NConn
    /\ made < MaxSockets /\ Created # Chans
    /\ made' = made + 1
    /\ socks' = Append(socks, made + 1)
    /\ count' = [count EXCEPT ![t] = @ + 1]
    /\ UNCHANGED <<pc, ret, retry, running, epoch, vc, chanVars, closes, wdRunning,
                   wdThread, wdVars, sideVars>>

\* The socket cannot be created, connected or bound: PrepareVC fails.
ConnectFails(t) ==
    /\ pc[t] = "connect" /\ count[t] < NConn
    /\ count' = [count EXCEPT ![t] = 0]
    /\ CallTeardown(t, "failed")
    /\ UNCHANGED <<retry, running, epoch, vc, chanVars, sockVars, closes, wdRunning,
                   wdThread, wdVars, sideVars>>

\* The channel is created with tcpSockets and published under vcMutex.
Publish(t) ==
    /\ pc[t] = "connect" /\ count[t] = NConn /\ VcFree
    /\ LET g == Cardinality(Created) + 1 IN
           /\ g \in Chans
           /\ vc' = g
           /\ st' = [st EXCEPT ![g] = "new"]
           /\ conn' = [conn EXCEPT ![g] = socks]
           /\ live' = [live EXCEPT ![g] = DOMAIN socks]
    /\ count' = [count EXCEPT ![t] = 0]
    /\ Go(t, "publish")
    /\ UNCHANGED <<ret, retry, running, epoch, target, sockVars, closes, wdRunning,
                   wdThread, wdVars, sideVars>>

\* vc->open() starts the channel's threads...
OpenBegin(t) ==
    /\ pc[t] = "publish" /\ vc \in Chans
    /\ st[vc] = "new"
    /\ st' = [st EXCEPT ![vc] = "opening"]
    /\ target' = [target EXCEPT ![t] = vc]
    /\ Go(t, "opening")
    /\ UNCHANGED <<ret, count, retry, running, epoch, vc, conn, live, sockVars, closes,
                   wdRunning, wdThread, wdVars, sideVars>>

\* vc was released meanwhile, or replaced by a channel whose threads run: a null
\* pointer, or a thread assigned over a joinable one.
OpenCrashes(t) ==
    /\ pc[t] = "publish"
    /\ vc \notin {g \in Chans : st[g] = "new"}
    /\ Go(t, "crashed")
    /\ UNCHANGED <<ret, count, retry, running, epoch, vc, chanVars, sockVars, closes,
                   wdRunning, wdThread, wdVars, sideVars>>

\* ...and only then sets opened.
OpenEnd(t) ==
    /\ pc[t] = "opening"
    /\ st' = [st EXCEPT ![target[t]] = "open"]
    /\ Go(t, "startWd")
    /\ UNCHANGED <<ret, count, retry, running, epoch, vc, conn, live, target, sockVars,
                   closes, wdRunning, wdThread, wdVars, sideVars>>

\* StartWatchdog; PrepareVC returns true.
StartWatchdog(t) ==
    /\ pc[t] = "startWd" /\ ~wdThread
    /\ wdRunning' = TRUE
    /\ wdThread' = TRUE
    /\ wpc' = "sleep"
    /\ Go(t, IF t = Main THEN "udp" ELSE "done")
    /\ UNCHANGED <<ret, count, retry, running, epoch, vc, chanVars, sockVars, closes,
                   wdead, wslot, wepoch, wsock, wseen, sideVars>>

\* Its assertion fails; without it, the assignment over a joinable thread object
\* ends the process.
StartCrashes(t) ==
    /\ pc[t] = "startWd" /\ wdThread
    /\ Go(t, "crashed")
    /\ UNCHANGED <<ret, count, retry, running, epoch, vc, chanVars, sockVars, closes,
                   wdRunning, wdThread, wdVars, sideVars>>
------------------------------------------------------------------------------
(***************************************************************************)
(* Main: Start, again and again.                                           *)
(***************************************************************************)
\* Start, which calls PrepareVC, which calls TeardownVc.
Start ==
    /\ pc[Main] = "start"
    /\ running' = TRUE
    /\ CallTeardown(Main, "connect")
    /\ UNCHANGED <<count, retry, epoch, vc, chanVars, sockVars, closes, wdRunning,
                   wdThread, wdVars, sideVars>>

\* PrepareVC returned false.
StartFails ==
    /\ pc[Main] = "failed"
    /\ CallTeardown(Main, "asleep")
    /\ UNCHANGED <<count, retry, running, epoch, vc, chanVars, sockVars, closes,
                   wdRunning, wdThread, wdVars, sideVars>>

\* PrepareUdpSocket binds the local port and forwards datagrams.
UdpBound ==
    /\ pc[Main] = "udp"
    /\ Go(Main, "forward")
    /\ UNCHANGED <<ret, count, retry, running, epoch, vc, chanVars, sockVars, closes,
                   wdRunning, wdThread, wdVars, sideVars>>

\* PrepareUdpSocket fails: no socket, or one that cannot be bound and is closed
\* with its number left in udpSocket.  Start tears the channel down.
UdpFails ==
    /\ pc[Main] = "udp"
    /\ udpStale' \in BOOLEAN
    /\ CallTeardown(Main, "asleep")
    /\ Overlap("udp", Reconnecting)
    /\ UNCHANGED <<count, retry, running, epoch, vc, chanVars, sockVars, closes,
                   wdRunning, wdThread, wdVars>>

\* After TeardownVc, Start closes the number in udpSocket once more.
UdpCloses ==
    /\ pc[Main] = "asleep" /\ udpStale
    /\ udpStale' = FALSE
    /\ UNCHANGED <<coreVars, overlaps>>

\* A datagram arrives after Stop(): the loops of PrepareUdpSocket and Start end.
ForwardEnds ==
    /\ pc[Main] = "forward" /\ ~running
    /\ Go(Main, "asleep")
    /\ UNCHANGED <<ret, count, retry, running, epoch, vc, chanVars, sockVars, closes,
                   wdRunning, wdThread, wdVars, sideVars>>

\* main() sleeps for a second and calls Start again.
MainWakes ==
    /\ pc[Main] = "asleep" /\ ~udpStale
    /\ Go(Main, "start")
    /\ Overlap("sleep", Overtakes(Main))
    /\ UNCHANGED <<ret, count, retry, running, epoch, vc, chanVars, sockVars, closes,
                   wdRunning, wdThread, wdVars, udpStale>>
------------------------------------------------------------------------------
(***************************************************************************)
(* The channel loses connections.                                          *)
(***************************************************************************)
\* A thread of channel g disconnects slot s.  disconnectCB ignores it while
\* open() has not finished; after the last one the channel is torn down.
Dies(g, s) ==
    /\ st[g] \in {"opening", "open"} /\ s \in live[g]
    /\ live' = [live EXCEPT ![g] = @ \ {s}]
    /\ closes' = Closing({conn[g][s]})
    /\ st' = [st EXCEPT ![g] = IF @ = "open" /\ live[g] = {s} THEN "dying" ELSE @]
    /\ Overlap("udp", st[g] = "open" /\ live[g] = {s} /\ MainTearing)
    /\ UNCHANGED <<threadVars, running, epoch, vc, conn, target, sockVars, wdRunning,
                   wdThread, wdVars, udpStale>>

\* The disconnect callback: the watchdog is told to stop and a detached thread
\* spawned.
Callback(g) ==
    /\ st[g] = "dying"
    /\ st' = [st EXCEPT ![g] = "down"]
    /\ wdRunning' = FALSE
    /\ Go(g, "rEpoch")
    /\ UNCHANGED <<ret, count, retry, running, epoch, vc, conn, live, target, sockVars,
                   closes, wdThread, wdVars, sideVars>>
------------------------------------------------------------------------------
(***************************************************************************)
(* The detached thread: ReconnectVC, then Stop if it failed.               *)
(***************************************************************************)
ReconnectBegin(g) ==
    /\ pc[g] = "rEpoch"
    /\ epoch' = epoch + 1
    /\ CallStopWatchdog(g, "rLoop")
    /\ UNCHANGED <<count, retry, running, vc, chanVars, sockVars, closes, wdRunning,
                   wdThread, wdVars, sideVars>>

\* Mutant: one attempt too many.
ReconnectLoopOnceMore(g) ==
    /\ pc[g] = "rLoop"
    /\ Go(g, IF running /\ retry[g] <= MaxRetries THEN "rClose" ELSE "stop")
    /\ UNCHANGED <<ret, count, retry, running, epoch, vc, chanVars, sockVars, closes,
                   wdRunning, wdThread, wdVars, sideVars>>

\* while (running && retryCount < maxRetries)
ReconnectLoop(g) ==
    /\ pc[g] = "rLoop"
    /\ Go(g, IF running /\ retry[g] < MaxRetries THEN "rClose" ELSE "stop")
    /\ UNCHANGED <<ret, count, retry, running, epoch, vc, chanVars, sockVars, closes,
                   wdRunning, wdThread, wdVars, sideVars>>

\* Under vcMutex: close and release the channel.
ReconnectClose(g) ==
    /\ pc[g] = "rClose" /\ VcFree
    /\ CloseVc
    /\ vc' = 0
    /\ Go(g, "rClear")
    /\ UNCHANGED <<ret, count, retry, running, epoch, conn, target, sockVars, wdRunning,
                   wdThread, wdVars, sideVars>>

\* The sockets were closed with the channel; wait before the next attempt.
ReconnectClear(g) ==
    /\ pc[g] = "rClear"
    /\ socks' = <<>>
    /\ Go(g, IF running THEN "rSleep" ELSE "stop")
    /\ UNCHANGED <<ret, count, retry, running, epoch, vc, chanVars, made, closes,
                   wdRunning, wdThread, wdVars, sideVars>>

\* The sleep ends: PrepareVC, which starts with TeardownVc.
ReconnectWakes(g) ==
    /\ pc[g] = "rSleep"
    /\ CallTeardown(g, "connect")
    /\ Overlap("sleep", Overtakes(g))
    /\ UNCHANGED <<count, retry, running, epoch, vc, chanVars, sockVars, closes,
                   wdRunning, wdThread, wdVars, udpStale>>

\* PrepareVC returned false.
ReconnectFailed(g) ==
    /\ pc[g] = "failed"
    /\ retry' = [retry EXCEPT ![g] = IF running THEN @ + 1 ELSE @]
    /\ Go(g, IF running THEN "rLoop" ELSE "stop")
    /\ UNCHANGED <<ret, count, running, epoch, vc, chanVars, sockVars, closes,
                   wdRunning, wdThread, wdVars, sideVars>>

\* Stop(): the channel is closed, not released.
StopBegin(g) ==
    /\ pc[g] = "stop"
    /\ running' = FALSE
    /\ CallStopWatchdog(g, "stopClose")
    /\ UNCHANGED <<count, retry, epoch, vc, chanVars, sockVars, closes, wdRunning,
                   wdThread, wdVars, sideVars>>

StopClose(g) ==
    /\ pc[g] = "stopClose" /\ VcFree
    /\ CloseVc
    /\ Go(g, "done")
    /\ UNCHANGED <<ret, count, retry, running, epoch, vc, conn, target, sockVars,
                   wdRunning, wdThread, wdVars, sideVars>>
------------------------------------------------------------------------------
(***************************************************************************)
(* The watchdog, and ReconnectSingleSlot.                                  *)
(***************************************************************************)
\* Mutant: the loop does not look at watchdogRunning.
WatchdogGoesOn ==
    /\ wpc = "sleep"
    /\ wpc' = "scan"
    /\ UNCHANGED <<threadVars, running, epoch, vc, chanVars, sockVars, closes,
                   wdRunning, wdThread, wdead, wslot, wepoch, wsock, wseen, sideVars>>

\* Every half second, while watchdogRunning.
WatchdogWakes ==
    /\ wpc = "sleep"
    /\ wpc' = IF wdRunning THEN "scan" ELSE "exited"
    /\ UNCHANGED <<threadVars, running, epoch, vc, chanVars, sockVars, closes,
                   wdRunning, wdThread, wdead, wslot, wepoch, wsock, wseen, sideVars>>

\* Under vcMutex: the dead slots of an open channel.
WatchdogScan ==
    /\ wpc = "scan"
    /\ \/ /\ VcOpen
          /\ wdead' = DOMAIN conn[vc] \ live[vc]
          /\ wseen' = vc
          /\ wpc' = "slots"
       \/ /\ ~VcOpen
          /\ wpc' = "sleep"
          /\ UNCHANGED <<wdead, wseen>>
    /\ UNCHANGED <<threadVars, running, epoch, vc, chanVars, sockVars, closes,
                   wdRunning, wdThread, wslot, wepoch, wsock, sideVars>>

\* No dead slot is left, or the watchdog was stopped.
SlotsDone ==
    /\ wpc = "slots"
    /\ wdead = {} \/ ~wdRunning
    /\ wdead' = {}
    /\ wpc' = "sleep"
    /\ UNCHANGED <<threadVars, running, epoch, vc, chanVars, sockVars, closes,
                   wdRunning, wdThread, wslot, wepoch, wsock, wseen, sideVars>>

\* The next slot; the epoch is captured.
SlotBegin ==
    /\ wpc = "slots" /\ wdRunning /\ wdead # {}
    /\ \E s \in wdead : /\ \A u \in wdead : s <= u
                        /\ wslot' = s /\ wdead' = wdead \ {s}
    /\ wepoch' = epoch
    /\ wpc' = "dial"
    /\ UNCHANGED <<threadVars, running, epoch, vc, chanVars, sockVars, closes,
                   wdRunning, wdThread, wsock, wseen, sideVars>>

\* The watchdog was stopped, or the connect fails.
SlotFails ==
    /\ wpc = "dial"
    /\ wpc' = "slots"
    /\ UNCHANGED <<threadVars, running, epoch, vc, chanVars, sockVars, closes,
                   wdRunning, wdThread, wdead, wslot, wepoch, wsock, wseen, sideVars>>

\* The socket is connected, within two seconds.
SlotDials ==
    /\ wpc = "dial" /\ wdRunning
    /\ made < MaxSockets
    /\ made' = made + 1
    /\ wsock' = {made + 1}
    /\ wpc' = "dialled"
    /\ UNCHANGED <<threadVars, running, epoch, vc, chanVars, socks, closes, wdRunning,
                   wdThread, wdead, wslot, wepoch, wseen, sideVars>>

\* The new socket is closed again: stopped, a reconnect under way, or MsgBind
\* could not be sent.
SlotDrops ==
    /\ \/ wpc = "dialled" /\ (~wdRunning \/ epoch # wepoch)
       \/ wpc = "bind"
       \/ wpc = "splice" /\ (~VcOpen \/ epoch # wepoch)
    /\ closes' = Closing(wsock)
    /\ wsock' = {}
    /\ wpc' = "slots"
    /\ UNCHANGED <<threadVars, running, epoch, vc, chanVars, sockVars, wdRunning,
                   wdThread, wdead, wslot, wepoch, wseen, sideVars>>

SlotGoesOn ==
    /\ wpc = "dialled" /\ wdRunning /\ epoch = wepoch
    /\ wpc' = "bind"
    /\ UNCHANGED <<threadVars, running, epoch, vc, chanVars, sockVars, closes,
                   wdRunning, wdThread, wdead, wslot, wepoch, wsock, wseen, sideVars>>

\* MsgBind is sent after a last look at the epoch.
SlotBinds ==
    /\ wpc = "bind" /\ epoch = wepoch
    /\ wpc' = "splice"
    /\ UNCHANGED <<threadVars, running, epoch, vc, chanVars, sockVars, closes,
                   wdRunning, wdThread, wdead, wslot, wepoch, wsock, wseen, sideVars>>

\* vcMutex is taken: the channel is open and no reconnect has begun.
SlotChecks ==
    /\ wpc = "splice"
    /\ VcOpen /\ epoch = wepoch
    /\ wpc' = "replace"
    /\ UNCHANGED <<threadVars, running, epoch, vc, chanVars, sockVars, closes,
                   wdRunning, wdThread, wdead, wslot, wepoch, wsock, wseen, sideVars>>

\* tcpSockets and the channel's slot get the new socket, if they have that slot.
\* The channel's own threads do not take vcMutex: it may have died since it was
\* checked.  A connection still in the slot ends with its last reference.
SlotReplaced ==
    /\ wpc = "replace"
    /\ \E n \in wsock :
           /\ conn' = [conn EXCEPT ![vc] = [i \in DOMAIN @ |-> IF i = wslot THEN n ELSE @[i]]]
           /\ socks' = [i \in DOMAIN socks |-> IF i = wslot THEN n ELSE socks[i]]
    /\ live' = [live EXCEPT ![vc] = @ \cup ({wslot} \cap DOMAIN conn[vc])]
    /\ closes' = Closing({conn[vc][s] : s \in live[vc] \cap {wslot}})
    /\ wsock' = {}
    /\ wpc' = "slots"
    /\ UNCHANGED <<threadVars, running, epoch, vc, st, target, made, wdRunning,
                   wdThread, wdead, wslot, wepoch, wseen, sideVars>>
------------------------------------------------------------------------------
Teardown(t) == StopFlag(t) \/ StopJoin(t) \/ TearClose(t) \/ TearForget(t)

Prepare(t) == \/ Connect(t) \/ ConnectFails(t) \/ Publish(t)
              \/ OpenBegin(t) \/ OpenEnd(t) \/ StartWatchdog(t)
              \/ OpenCrashes(t) \/ StartCrashes(t)

MainThread == \/ Teardown(Main) \/ Prepare(Main)
              \/ Start \/ StartFails \/ UdpBound \/ UdpFails \/ UdpCloses
              \/ MainWakes

ReconnectThread(g) ==
    \/ Teardown(g) \/ Prepare(g)
    \/ ReconnectBegin(g) \/ ReconnectLoop(g) \/ ReconnectClose(g) \/ ReconnectClear(g)
    \/ ReconnectWakes(g) \/ ReconnectFailed(g) \/ StopBegin(g) \/ StopClose(g)

Watchdog == \/ WatchdogWakes \/ WatchdogScan \/ SlotsDone \/ SlotBegin \/ SlotFails
            \/ SlotDials \/ SlotDrops \/ SlotGoesOn \/ SlotBinds \/ SlotChecks
            \/ SlotReplaced

Crashed == \E t \in Threads : pc[t] = "crashed"

Step == \/ MainThread \/ ForwardEnds
        \/ \E g \in Chans : \/ Callback(g) \/ ReconnectThread(g)
                            \/ \E s \in DOMAIN conn[g] : Dies(g, s)
        \/ Watchdog

\* A Stop() that main's restart overtook has closed the new channel: main goes on
\* and drops every datagram, and nobody will build another channel.
Deserted ==
    /\ ~Apart /\ pc[Main] = "forward" /\ running
    /\ ~VcOpen
    /\ \A g \in Chans : pc[g] \in {"none", "done"} /\ (st[g] = "down" \/ live[g] = {})

\* The process is gone, or has nothing left to do.
Ended == (Crashed \/ Deserted) /\ UNCHANGED vars

Next == (~Crashed /\ Step) \/ Ended

Spec == Init /\ [][Next]_vars

\* Every thread keeps running while the process does.  Nothing obliges a
\* connection to fail or a datagram to arrive.
FairSpec == /\ Spec
            /\ WF_vars(~Crashed /\ MainThread) /\ WF_vars(~Crashed /\ Watchdog)
            /\ \A g \in Chans : /\ WF_vars(~Crashed /\ Callback(g))
                               /\ WF_vars(~Crashed /\ ReconnectThread(g))
------------------------------------------------------------------------------
Pcs == {"none", "start", "stopWd", "joinWd", "tdClose", "tdForget", "tdRaw", "connect",
        "failed", "publish", "opening", "startWd", "udp", "forward", "asleep", "rEpoch",
        "rLoop", "rClose", "rClear", "rSleep", "stop", "stopClose", "done", "crashed"}

WPcs == {"none", "sleep", "scan", "slots", "dial", "dialled", "bind", "splice",
         "replace", "exited"}

\* The variables have their types, in every history; no more retries than
\* maxRetries.
TypeOK ==
    /\ pc \in [Threads -> Pcs]
    /\ ret \in [Threads -> [join : {"tdClose", "rLoop", "stopClose"},
                            down : {"connect", "failed", "asleep"}]]
    /\ count \in [Threads -> 0..NConn] /\ retry \in [Threads -> 0..MaxRetries]
    /\ running \in BOOLEAN /\ wdRunning \in BOOLEAN /\ wdThread \in BOOLEAN
    /\ epoch \in Nat /\ wepoch \in Nat
    /\ vc \in 0..MaxVcs /\ wseen \in 0..MaxVcs /\ target \in [Threads -> 0..MaxVcs]
    /\ st \in [Chans -> {"none", "new", "opening", "open", "dying", "down"}]
    /\ \A g \in Chans : conn[g] \in Seq(Sockets) /\ live[g] \subseteq DOMAIN conn[g]
    /\ socks \in Seq(Sockets)
    /\ made \in 0..MaxSockets /\ closes \in [Sockets -> 0..2]
    /\ wpc \in WPcs /\ wdead \subseteq Nat \ {0} /\ wslot \in Nat \ {0}
    /\ wsock \subseteq Sockets
    /\ udpStale \in BOOLEAN /\ overlaps \subseteq {"udp", "sleep"}

\* Nobody starts a watchdog while the thread object of the last one is joinable.
StartsAlone == \A t \in Threads : pc[t] = "startWd" => ~wdThread

\* What StartWatchdog asserts and the comments of PrepareVC, TeardownVc and Start
\* promise, with sleeps that are long enough: no double start, whenever the UDP
\* socket fails and the channel ends.
NoDoubleStart == "sleep" \notin overlaps => StartsAlone

\* While time keeps main and the reconnect threads apart, no thread of the client
\* ends the process: none opens a channel that is gone or already open, and none
\* starts a second watchdog.
NoCrash == Apart => /\ StartsAlone
                    /\ \A t \in Threads : pc[t] = "publish" => vc # 0 /\ st[vc] = "new"

\* ...sockets do not accumulate: a channel is built from NConn of them.
ChannelWhole == Apart => \A g \in Created : Len(conn[g]) = NConn

\* ...no TCP socket is closed twice: not by the channel and again as a raw
\* descriptor, nor by the watchdog and the channel.
ClosedOnce == Apart => \A n \in Sockets : closes[n] <= 1

\* ...and none is lost: one that is open is in tcpSockets, in a slot of a channel
\* or in the watchdog's hands.
Held == {socks[i] : i \in DOMAIN socks} \cup wsock
        \cup UNION {{conn[g][s] : s \in live[g]} : g \in Chans}
NoLeak == Apart => \A n \in 1..made : closes[n] = 0 => n \in Held

\* ...and the watchdog puts a socket only in a slot of the channel in which it saw
\* the dead slot, however long its connect took and whoever reconnects meanwhile.
SpliceSameVc == Apart => (wpc = "replace" => vc = wseen)

\* Whoever stops the watchdog gets on: unless somebody starts a watchdog again,
\* every step it takes after watchdogRunning is cleared brings it nearer to its
\* end, wherever its slot reconnect was.
Rank == [exited |-> 0, none |-> 0, sleep |-> 1, slots |-> 2, scan |-> 3, dial |-> 3,
         dialled |-> 3, replace |-> 3, splice |-> 4, bind |-> 5]
WindsDown == [][~wdRunning /\ ~wdRunning' /\ wpc' # wpc => Rank[wpc'] < Rank[wpc]]_vars

\* What Client.h says of StopWatchdog: it stops the watchdog and joins it.
JoinReturns == \A t \in Threads : pc[t] = "joinWd" ~> (pc[t] # "joinWd" \/ Crashed)
==============================================================================
