---------------------------- MODULE ClientProofs ----------------------------
(***************************************************************************)
(* Proofs about the client (ClientSession): who may build a channel, the   *)
(* watchdog's thread object, and the sockets.  The invariant holds in the  *)
(* histories that are Apart; the lemmas about one step that need it assume *)
(* Apart', that the step is no overlap.  The types and WindsDown hold in   *)
(* every history.                                                          *)
(***************************************************************************)
EXTENDS ClientSession, FiniteSetTheorems, TLAPS

USE ClientConstants DEF Main

------------------------------------------------------------------------------
(***************************************************************************)
(* Turns.  A thread that tears down, connects, opens or ends a channel is  *)
(* alone: it is in the build, open or end phase.  Only the start of the    *)
(* watchdog (launch) can coincide with the first steps of the thread that  *)
(* reconnects the channel just opened (early).                             *)
(***************************************************************************)
\* TeardownVc has released the channel.
Torn == {"tdForget", "tdRaw", "connect", "failed"}

\* In StopWatchdog, called from where join leads.
Stopping(t, join) == pc[t] \in {"stopWd", "joinWd"} /\ ret[t].join = join

Phase(t) ==
    CASE pc[t] \in {"start", "tdClose"} \cup Torn \/ Stopping(t, "tdClose") -> "build"
      [] pc[t] \in {"publish", "opening"} -> "open"
      [] pc[t] = "startWd" -> "launch"
      [] pc[t] \in {"rEpoch", "rLoop", "rClose", "rClear", "rSleep"}
            \/ Stopping(t, "rLoop") -> "early"
      [] pc[t] \in {"stop", "stopClose"} \/ Stopping(t, "stopClose") -> "end"
      [] OTHER -> "rest"

Labels == [join : {"tdClose", "rLoop", "stopClose"}, down : {"connect", "failed", "asleep"}]
States == {"none", "new", "opening", "open", "dying", "down"}

MainPcs == {"start", "stopWd", "joinWd", "tdClose", "tdForget", "tdRaw", "connect", "failed",
            "publish", "opening", "startWd", "udp", "forward", "asleep", "crashed"}
ChanPcs == Pcs \ {"start", "udp", "forward", "asleep"}

\* The types of what the threads do, and which labels are whose.
ControlTypes ==
    /\ pc \in [Threads -> Pcs] /\ ret \in [Threads -> Labels]
    /\ count \in [Threads -> 0..NConn] /\ retry \in [Threads -> 0..MaxRetries]
    /\ running \in BOOLEAN /\ vc \in 0..MaxVcs
    /\ target \in [Threads -> 0..MaxVcs] /\ st \in [Chans -> States]
    /\ pc[Main] \in MainPcs /\ ret[Main].join = "tdClose"
    /\ \A g \in Chans : pc[g] \in ChanPcs /\ ret[g].down # "asleep"

Tries ==
    /\ \A t \in Threads : pc[t] # "connect" => count[t] = 0
    /\ \A g \in Chans :
          /\ pc[g] = "none" => retry[g] = 0
          /\ (Phase(g) = "build" \/ pc[g] \in {"rClose", "rClear", "rSleep"})
                => retry[g] < MaxRetries

\* Of these, what holds in every history.
Retries == \A g \in Chans :
    (Phase(g) = "build" \/ pc[g] \in {"rClose", "rClear", "rSleep"}) => retry[g] < MaxRetries

Compatible(p, q) == \/ p = "rest" \/ q = "rest"
                    \/ <<p, q>> \in {<<"launch", "early">>, <<"early", "launch">>}

Turns ==
    /\ \A t, u \in Threads : t # u => Compatible(Phase(t), Phase(u))
    /\ \A t, g \in Threads : (Phase(t) = "launch" /\ Phase(g) = "early") => retry[g] = 0

\* The channel exists and is not closed.
Up(g) == st[g] \notin {"none", "down"}

\* No reconnect but one that is about to give up, and no channel.
Over == \A g \in Chans : Phase(g) \in {"end", "rest"} /\ ~Up(g)

Halted ==
    /\ pc[Main] = "asleep" => Over
    /\ ~running => /\ Over
                   /\ \/ Phase(Main) = "rest" \/ pc[Main] = "start"
                      \/ /\ Phase(Main) = "build" /\ ret[Main].down = "asleep"
                         /\ pc[Main] \notin {"connect", "failed"}

\* Main, whose PrepareUdpSocket failed, is about to close the channel.
MainTears == Phase(Main) = "build" /\ ret[Main].down = "asleep"
                /\ pc[Main] \in {"stopWd", "joinWd", "tdClose"}

Channels ==
    /\ \A g \in Chans : pc[g] # "none" => st[g] = "down"
    /\ vc # 0 => st[vc] # "none"
    /\ \A g \in Chans : Up(g) =>
          /\ vc = g
          /\ \A t \in Threads : Phase(t) \notin {"early", "end"}
          /\ \A t \in Threads : Phase(t) = "build" => t = Main /\ MainTears /\ st[g] = "open"
    /\ \A t \in Threads :
          /\ pc[t] = "publish" => vc # 0 /\ st[vc] = "new"
          /\ pc[t] = "opening" => vc # 0 /\ st[vc] = "opening" /\ target[t] = vc
          /\ pc[t] \in Torn => vc = 0
    /\ \A g \in Chans : /\ st[g] = "new" => \E t \in Threads : pc[t] = "publish"
                        /\ st[g] = "opening" => \E t \in Threads : pc[t] = "opening"

\* Channels are numbered in the order of their creation, and each is reconnected
\* once at most.
Numbered ==
    /\ epoch \in Nat /\ epoch <= MaxVcs
    /\ \E k \in 0..MaxVcs : Created = 1..k
    /\ \A g \in Chans : (st[g] # "down" \/ pc[g] = "rEpoch") => epoch < g

Control == ControlTypes /\ Tries /\ Turns /\ Halted /\ Channels /\ Numbered
------------------------------------------------------------------------------
\* The thread of a step: the others stay where they are.
Others(t) ==
    \A u \in Threads \ {t} :
        /\ pc'[u] = pc[u] /\ ret'[u] = ret[u] /\ count'[u] = count[u] /\ retry'[u] = retry[u]
        /\ Phase(u)' = Phase(u)

\* A thread whose label and return addresses are the same is in the same phase.
LEMMA PhaseStays ==
    ASSUME NEW u, pc'[u] = pc[u], ret'[u] = ret[u]
    PROVE  Phase(u)' = Phase(u)
BY DEF Phase, Stopping, Torn

\* The phase a label stands for.
LEMMA PhaseOf ==
    ASSUME NEW t
    PROVE  /\ pc[t] \in {"start", "tdClose", "tdForget", "tdRaw", "connect", "failed"}
                => Phase(t) = "build"
           /\ pc[t] \in {"publish", "opening"} => Phase(t) = "open"
           /\ pc[t] = "startWd" <=> Phase(t) = "launch"
           /\ pc[t] \in {"rEpoch", "rLoop", "rClose", "rClear", "rSleep"} => Phase(t) = "early"
           /\ pc[t] \in {"stop", "stopClose"} => Phase(t) = "end"
           /\ pc[t] \in {"none", "done", "udp", "forward", "asleep"} => Phase(t) = "rest"
           /\ pc[t] \in {"stopWd", "joinWd"} =>
                 /\ ret[t].join = "tdClose" => Phase(t) = "build"
                 /\ ret[t].join = "rLoop" => Phase(t) = "early"
                 /\ ret[t].join = "stopClose" => Phase(t) = "end"
           /\ Phase(t) \in {"build", "open", "launch", "early", "end", "rest"}
BY DEF Phase, Stopping, Torn

\* The same after the step.
LEMMA PhaseNext ==
    ASSUME NEW t
    PROVE  /\ pc'[t] \in {"start", "tdClose", "tdForget", "tdRaw", "connect", "failed"}
                => Phase(t)' = "build"
           /\ pc'[t] \in {"publish", "opening"} => Phase(t)' = "open"
           /\ pc'[t] = "startWd" <=> Phase(t)' = "launch"
           /\ pc'[t] \in {"rEpoch", "rLoop", "rClose", "rClear", "rSleep"} => Phase(t)' = "early"
           /\ pc'[t] \in {"stop", "stopClose"} => Phase(t)' = "end"
           /\ pc'[t] \in {"none", "done", "udp", "forward", "asleep"} => Phase(t)' = "rest"
           /\ pc'[t] \in {"stopWd", "joinWd"} =>
                 /\ ret'[t].join = "tdClose" => Phase(t)' = "build"
                 /\ ret'[t].join = "rLoop" => Phase(t)' = "early"
                 /\ ret'[t].join = "stopClose" => Phase(t)' = "end"
           /\ Phase(t)' \in {"build", "open", "launch", "early", "end", "rest"}
BY DEF Phase, Stopping, Torn

\* A thread may move where it disturbs nobody's turn.
LEMMA TurnsMove ==
    ASSUME Turns, NEW t \in Threads, Others(t),
           \A u \in Threads \ {t} : Compatible(Phase(t)', Phase(u)),
           Phase(t)' = "early" /\ retry'[t] # 0 => \A u \in Threads \ {t} : Phase(u) # "launch",
           Phase(t)' = "launch" => \A u \in Threads \ {t} : Phase(u) # "early"
    PROVE  Turns'
<1>1. ASSUME NEW u \in Threads, NEW w \in Threads, u # w
      PROVE  Compatible(Phase(u)', Phase(w)')
    <2>1. CASE u = t
        BY <1>1, <2>1 DEF Others
    <2>2. CASE w = t
        BY <1>1, <2>2 DEF Others, Compatible
    <2>3. CASE u # t /\ w # t
        BY <1>1, <2>3 DEF Others, Turns
    <2> QED
        BY <2>1, <2>2, <2>3
<1>2. ASSUME NEW u \in Threads, NEW g \in Threads, Phase(u)' = "launch", Phase(g)' = "early"
      PROVE  retry'[g] = 0
    <2>1. u # g
        BY <1>2
    <2>2. CASE u = t
        BY <1>2, <2>1, <2>2 DEF Others
    <2>3. CASE g = t
        BY <1>2, <2>1, <2>3 DEF Others
    <2>4. CASE u # t /\ g # t
        BY <1>2, <2>4 DEF Others, Turns
    <2> QED
        BY <2>2, <2>3, <2>4
<1> QED
    BY <1>1, <1>2 DEF Turns

\* In particular within its phase, out of a phase that it has for itself, and to
\* rest.
LEMMA TurnsKept ==
    ASSUME Turns, NEW t \in Threads, Others(t),
           \/ Phase(t)' = Phase(t) /\ retry'[t] = retry[t]
           \/ Phase(t) \in {"build", "open", "end"}
           \/ Phase(t)' = "rest"
    PROVE  Turns'
<1>1. CASE Phase(t)' = Phase(t) /\ retry'[t] = retry[t]
    <2>1. \A u \in Threads \ {t} : Compatible(Phase(t)', Phase(u))
        BY <1>1 DEF Turns
    <2>2. Phase(t)' = "early" /\ retry'[t] # 0 => \A u \in Threads \ {t} : Phase(u) # "launch"
        BY <1>1 DEF Turns
    <2>3. ASSUME NEW u \in Threads, NEW w \in Threads, u # w
          PROVE  Compatible(Phase(u)', Phase(w)')
        BY <1>1, <2>3 DEF Others, Turns
    <2>4. ASSUME NEW u \in Threads, NEW g \in Threads, Phase(u)' = "launch", Phase(g)' = "early"
          PROVE  retry'[g] = 0
        BY <1>1, <2>4 DEF Others, Turns
    <2> QED
        BY <2>3, <2>4 DEF Turns
<1>2. CASE Phase(t) \in {"build", "open", "end"}
    <2>1. \A u \in Threads \ {t} : Phase(u) = "rest"
        BY <1>2 DEF Turns, Compatible
    <2> QED
        BY <2>1, TurnsMove DEF Compatible
<1>3. CASE Phase(t)' = "rest"
    BY <1>3, TurnsMove DEF Compatible
<1> QED
    BY <1>1, <1>2, <1>3

\* Nothing is built after Stop() or while main sleeps.
LEMMA HaltedMove ==
    ASSUME Halted, NEW t \in Threads, Others(t),
           \A g \in Chans : Up(g)' => Up(g), ~running' => ~running,
           t \in Chans /\ Phase(t)' \notin {"end", "rest"} =>
              Phase(t) \notin {"end", "rest"} \/ (running /\ pc[Main] # "asleep"),
           t = Main => /\ pc'[Main] = "asleep" => Over
                       /\ ~running' => \/ Phase(Main)' = "rest" \/ pc'[Main] = "start"
                                       \/ /\ Phase(Main)' = "build" /\ ret'[Main].down = "asleep"
                                          /\ pc'[Main] \notin {"connect", "failed"}
    PROVE  Halted'
<1>1. ASSUME Over, pc[Main] = "asleep" \/ ~running \/ t = Main PROVE Over'
    <2> SUFFICES ASSUME NEW g \in Chans PROVE Phase(g)' \in {"end", "rest"} /\ ~Up(g)'
        BY DEF Over
    <2>1. g \in Threads /\ g # Main
        BY DEF Threads, Chans
    <2>2. Phase(g) \in {"end", "rest"} /\ ~Up(g)
        BY <1>1 DEF Over
    <2>3. CASE g = t
        BY <1>1, <2>1, <2>2, <2>3
    <2>4. CASE g # t
        BY <2>1, <2>2, <2>4 DEF Others
    <2> QED
        BY <2>3, <2>4
<1>2. Main \in Threads
    BY DEF Threads
<1>3. pc'[Main] = "asleep" => Over'
    <2>1. CASE t = Main
        BY <1>1, <2>1
    <2>2. CASE t # Main
        BY <1>1, <1>2, <2>2 DEF Others, Halted
    <2> QED
        BY <2>1, <2>2
<1>4. ~running' => Over'
    BY <1>1 DEF Halted
<1>5. ~running' => \/ Phase(Main)' = "rest" \/ pc'[Main] = "start"
                   \/ /\ Phase(Main)' = "build" /\ ret'[Main].down = "asleep"
                      /\ pc'[Main] \notin {"connect", "failed"}
    <2>1. CASE t = Main
        BY <2>1
    <2>2. CASE t # Main
        BY <1>2, <2>2 DEF Others, Halted
    <2> QED
        BY <2>1, <2>2
<1> QED
    BY <1>3, <1>4, <1>5 DEF Halted

\* A thread moves and the channels stay as they are.
LEMMA ChannelsMove ==
    ASSUME Channels, NEW t \in Threads, Others(t), UNCHANGED <<vc, st, target>>,
           t \in Chans /\ pc'[t] # "none" => pc[t] # "none",
           Phase(t)' \in {"early", "end"} => Phase(t) \in {"early", "end"} \/ vc = 0
                                          \/ \A g \in Chans : ~Up(g),
           Phase(t)' = "build" => \/ vc = 0 \/ \A g \in Chans : ~Up(g)
                                  \/ t = Main /\ MainTears' /\ \A g \in Chans : Up(g) => st[g] = "open",
           pc[t] \notin {"publish", "opening"}, pc'[t] \notin {"publish", "opening"},
           pc'[t] \in Torn => vc = 0
    PROVE  Channels'
<1>0. Main \in Threads /\ Chans \subseteq Threads /\ 0 \notin Chans
    BY DEF Threads, Chans
<1>1. \A g \in Chans : Up(g)' <=> Up(g)
    BY DEF Up
<1>2. \A g \in Chans : Up(g) => vc # 0
    BY <1>0 DEF Channels
<1>3. \A g \in Chans : pc'[g] # "none" => st'[g] = "down"
    BY <1>0 DEF Channels, Others
<1>4. ASSUME NEW g \in Chans, Up(g), NEW u \in Threads PROVE Phase(u)' \notin {"early", "end"}
    BY <1>2, <1>4 DEF Channels, Others
<1>5. ASSUME NEW g \in Chans, Up(g), NEW u \in Threads, Phase(u)' = "build"
      PROVE  u = Main /\ MainTears' /\ st'[g] = "open"
    <2>1. CASE u = t
        BY <1>2, <1>5, <2>1
    <2>2. CASE u # t
        <3>1. u = Main /\ MainTears /\ st[g] = "open"
            BY <1>5, <2>2 DEF Channels, Others
        <3>2. MainTears'
            BY <1>0, <2>2, <3>1 DEF MainTears, Others
        <3> QED
            BY <3>1, <3>2
    <2> QED
        BY <2>1, <2>2
<1>6. \A u \in Threads :
          /\ pc'[u] = "publish" => vc' # 0 /\ st'[vc'] = "new"
          /\ pc'[u] = "opening" => vc' # 0 /\ st'[vc'] = "opening" /\ target'[u] = vc'
          /\ pc'[u] \in Torn => vc' = 0
    BY DEF Channels, Others
<1>7. \A g \in Chans : /\ st'[g] = "new" => \E u \in Threads : pc'[u] = "publish"
                       /\ st'[g] = "opening" => \E u \in Threads : pc'[u] = "opening"
    BY DEF Channels, Others
<1>8. \A g \in Chans : Up(g)' => vc' = g
    BY <1>1 DEF Channels
<1>9. vc' # 0 => st'[vc'] # "none"
    BY DEF Channels
<1> QED
    BY <1>1, <1>3, <1>4, <1>5, <1>6, <1>7, <1>8, <1>9 DEF Channels

\* The numbers of the channels stay while none is made or begins to reconnect.
LEMMA NumberedMove ==
    ASSUME Numbered, UNCHANGED epoch,
           \A g \in Chans : /\ st'[g] = "none" <=> st[g] = "none"
                            /\ st'[g] # "down" => st[g] # "down"
                            /\ pc'[g] = "rEpoch" => pc[g] = "rEpoch" \/ st[g] # "down"
    PROVE  Numbered'
<1>1. Created' = Created
    BY DEF Created
<1> QED
    BY <1>1 DEF Numbered
------------------------------------------------------------------------------
\* A thread ends the process.
Crashing(t) == OpenCrashes(t) \/ StartCrashes(t)

\* The steps of the client, by the thread that takes them.
LEMMA StepCases ==
    ASSUME [Next]_vars
    PROVE  \/ \E t \in Threads :
                \/ StopFlag(t) \/ StopJoin(t) \/ TearClose(t) \/ TearForget(t)
                \/ Connect(t) \/ ConnectFails(t) \/ Publish(t)
                \/ OpenBegin(t) \/ OpenEnd(t) \/ StartWatchdog(t) \/ Crashing(t)
           \/ Start \/ StartFails \/ UdpBound \/ UdpFails \/ MainWakes \/ ForwardEnds
           \/ \E g \in Chans :
                \/ Callback(g) \/ ReconnectBegin(g) \/ ReconnectLoop(g) \/ ReconnectClose(g)
                \/ ReconnectClear(g) \/ ReconnectWakes(g) \/ ReconnectFailed(g)
                \/ StopBegin(g) \/ StopClose(g) \/ \E s \in DOMAIN conn[g] : Dies(g, s)
           \/ Watchdog \/ UNCHANGED coreVars
<1>1. Main \in Threads /\ Chans \subseteq Threads
    BY DEF Threads
<1>2. Ended \/ UdpCloses \/ UNCHANGED vars => UNCHANGED coreVars
    BY DEF Ended, UdpCloses, vars
<1>3. Step \/ Ended \/ UNCHANGED vars
    BY DEF Next
<1> QED
    BY <1>1, <1>2, <1>3 DEF Step, MainThread, ReconnectThread, Teardown, Prepare, Crashing

\* The watchdog leaves the other threads and the state of the channels alone.
LEMMA WatchdogFrame ==
    ASSUME Watchdog
    PROVE  UNCHANGED <<pc, ret, count, retry, running, epoch, vc, st, target, wdRunning, wdThread>>
BY DEF Watchdog, WatchdogWakes, WatchdogScan, SlotsDone, SlotBegin, SlotFails, SlotDials,
       SlotDrops, SlotGoesOn, SlotBinds, SlotChecks, SlotReplaced, threadVars, chanVars

\* What CloseVc does to the states of the channels.
ClosesVc ==
    \A g \in Chans : st'[g] = IF g = vc /\ st[g] = "open" THEN "down" ELSE st[g]

\* close() of the published channel takes it from open to down and touches no other.
LEMMA CloseVcStates ==
    ASSUME ControlTypes, CloseVc
    PROVE  ClosesVc /\ st' \in [Chans -> States]
BY DEF ControlTypes, CloseVc, VcOpen, ClosesVc, States

\* Every step keeps the types of the threads' variables.
LEMMA ControlTypesKept ==
    ASSUME ControlTypes, Retries, [Next]_vars
    PROVE  ControlTypes'
<1> USE DEF ControlTypes, Go
<1>0. /\ Main \in Threads /\ Chans \subseteq Threads /\ 0 \notin Chans
      /\ \A g \in Chans : g \in 0..MaxVcs
    BY DEF Threads, Chans
<1>a. Labels = [join : {"tdClose", "rLoop", "stopClose"}, down : {"connect", "failed", "asleep"}]
    BY DEF Labels
<1>1. ASSUME NEW t \in Threads, StopFlag(t) \/ StopJoin(t) PROVE ControlTypes'
    <2>1. /\ pc[t] \in {"stopWd", "joinWd"} /\ UNCHANGED <<ret, count, retry, running, vc, target, st>>
          /\ \E l \in {"joinWd", ret[t].join} : pc' = [pc EXCEPT ![t] = l]
        BY <1>1 DEF StopFlag, StopJoin, chanVars
    <2>2. ret[t].join \in {"tdClose", "rLoop", "stopClose"} /\ (t = Main => ret[t].join = "tdClose")
        BY <1>a
    <2> QED
        BY <1>0, <2>1, <2>2 DEF MainPcs, ChanPcs, Pcs
<1>2. ASSUME NEW t \in Threads, TearClose(t) PROVE ControlTypes'
    <2>1. /\ pc[t] = "tdClose" /\ UNCHANGED <<ret, count, retry, running, target>>
          /\ \E l \in {"tdForget", "tdRaw"} : pc' = [pc EXCEPT ![t] = l]
          /\ vc' = 0 /\ st' \in [Chans -> States]
        BY <1>2, CloseVcStates DEF TearClose
    <2> QED
        BY <1>0, <2>1 DEF MainPcs, ChanPcs, Pcs
<1>3. ASSUME NEW t \in Threads, TearForget(t) PROVE ControlTypes'
    <2>1. /\ UNCHANGED <<ret, count, retry, running, vc, target, st>>
          /\ pc' = [pc EXCEPT ![t] = ret[t].down]
        BY <1>3 DEF TearForget, chanVars
    <2>2. /\ ret[t].down \in {"connect", "failed", "asleep"}
          /\ t # Main => ret[t].down # "asleep"
        BY <1>a DEF Threads
    <2> QED
        BY <1>0, <2>1, <2>2 DEF MainPcs, ChanPcs, Pcs
<1>4. ASSUME NEW t \in Threads, Connect(t) PROVE ControlTypes'
    <2>1. /\ UNCHANGED <<pc, ret, retry, running, vc, target, st>>
          /\ count[t] < NConn /\ count' = [count EXCEPT ![t] = count[t] + 1]
        BY <1>4 DEF Connect, chanVars
    <2> QED
        BY <2>1
<1>5. ASSUME NEW t \in Threads, ConnectFails(t) PROVE ControlTypes'
    <2>1. /\ UNCHANGED <<retry, running, vc, target, st>>
          /\ count' = [count EXCEPT ![t] = 0] /\ pc' = [pc EXCEPT ![t] = "stopWd"]
          /\ ret' = [ret EXCEPT ![t] = [join |-> "tdClose", down |-> "failed"]]
        BY <1>5 DEF ConnectFails, CallTeardown, chanVars
    <2> QED
        BY <1>0, <1>a, <2>1 DEF MainPcs, ChanPcs, Pcs
<1>6. ASSUME NEW t \in Threads, Publish(t) PROVE ControlTypes'
    <2>1. /\ UNCHANGED <<ret, retry, running, target>>
          /\ count' = [count EXCEPT ![t] = 0] /\ pc' = [pc EXCEPT ![t] = "publish"]
          /\ \E g \in Chans : vc' = g /\ st' = [st EXCEPT ![g] = "new"]
        BY <1>6 DEF Publish
    <2> QED
        BY <1>0, <2>1 DEF MainPcs, ChanPcs, Pcs, States
<1>7. ASSUME NEW t \in Threads, OpenBegin(t) \/ OpenEnd(t) PROVE ControlTypes'
    <2>1. /\ UNCHANGED <<ret, count, retry, running, vc>>
          /\ \E l \in {"opening", "startWd"} : pc' = [pc EXCEPT ![t] = l]
          /\ \E g : st' = [st EXCEPT ![g] = "opening"] \/ st' = [st EXCEPT ![g] = "open"]
          /\ target' = target \/ target' = [target EXCEPT ![t] = vc]
        BY <1>7 DEF OpenBegin, OpenEnd
    <2> QED
        BY <1>0, <2>1 DEF MainPcs, ChanPcs, Pcs, States
<1>8. ASSUME NEW t \in Threads, StartWatchdog(t) PROVE ControlTypes'
    <2>1. /\ UNCHANGED <<ret, count, retry, running, vc, target, st>>
          /\ pc' = [pc EXCEPT ![t] = IF t = Main THEN "udp" ELSE "done"]
        BY <1>8 DEF StartWatchdog, chanVars
    <2> QED
        BY <1>0, <2>1 DEF MainPcs, ChanPcs, Pcs
<1>9. CASE Start \/ StartFails \/ UdpFails
    <2>1. /\ UNCHANGED <<count, retry, vc, target, st>> /\ running' \in {running, TRUE}
          /\ pc' = [pc EXCEPT ![Main] = "stopWd"]
          /\ \E d \in {"connect", "asleep"} :
                ret' = [ret EXCEPT ![Main] = [join |-> "tdClose", down |-> d]]
        BY <1>9 DEF Start, StartFails, UdpFails, CallTeardown, chanVars
    <2>2. running' \in BOOLEAN
        BY <2>1
    <2> QED
        BY <1>0, <1>a, <2>1, <2>2 DEF MainPcs, Pcs
<1>10. CASE UdpBound \/ MainWakes \/ ForwardEnds
    <2>1. /\ UNCHANGED <<ret, count, retry, running, vc, target, st>>
          /\ \E l \in {"forward", "start", "asleep"} : pc' = [pc EXCEPT ![Main] = l]
        BY <1>10 DEF UdpBound, MainWakes, ForwardEnds, chanVars
    <2> QED
        BY <1>0, <2>1 DEF MainPcs, Pcs
<1>11. ASSUME NEW g \in Chans, NEW s, Dies(g, s) PROVE ControlTypes'
    <2>1. /\ UNCHANGED <<pc, ret, count, retry, running, vc, target>>
          /\ \E w \in {"dying", st[g]} : st' = [st EXCEPT ![g] = w]
        BY <1>11 DEF Dies, threadVars
    <2> QED
        BY <2>1 DEF States
<1>12. ASSUME NEW g \in Chans, Callback(g) PROVE ControlTypes'
    <2>1. /\ UNCHANGED <<ret, count, retry, running, vc, target>>
          /\ pc' = [pc EXCEPT ![g] = "rEpoch"] /\ st' = [st EXCEPT ![g] = "down"]
        BY <1>12 DEF Callback
    <2> QED
        BY <1>0, <2>1 DEF ChanPcs, Pcs, States
<1>13. ASSUME NEW g \in Chans, ReconnectBegin(g) \/ StopBegin(g) PROVE ControlTypes'
    <2>1. /\ UNCHANGED <<count, retry, vc, target, st>> /\ running' \in {running, FALSE}
          /\ pc' = [pc EXCEPT ![g] = "stopWd"]
          /\ \E j \in {"rLoop", "stopClose"} : ret' = [ret EXCEPT ![g].join = j]
        BY <1>13 DEF ReconnectBegin, StopBegin, CallStopWatchdog, chanVars
    <2>2. running' \in BOOLEAN
        BY <2>1
    <2>3. ret' \in [Threads -> Labels] /\ \A u \in Threads : ret'[u].down = ret[u].down
        BY <1>0, <1>a, <2>1
    <2>4. ret'[Main] = ret[Main]
        BY <1>0, <2>1
    <2> QED
        BY <1>0, <2>1, <2>2, <2>3, <2>4 DEF ChanPcs, Pcs
<1>14. ASSUME NEW g \in Chans, ReconnectLoop(g) \/ ReconnectClear(g) PROVE ControlTypes'
    <2>1. /\ UNCHANGED <<ret, count, retry, running, vc, target, st>>
          /\ \E l \in {"rClose", "rSleep", "stop"} : pc' = [pc EXCEPT ![g] = l]
        BY <1>14 DEF ReconnectLoop, ReconnectClear, chanVars
    <2> QED
        BY <1>0, <2>1 DEF ChanPcs, Pcs
<1>15. ASSUME NEW g \in Chans, ReconnectClose(g) \/ StopClose(g) PROVE ControlTypes'
    <2>1. /\ UNCHANGED <<ret, count, retry, running, target>> /\ vc' \in {0, vc}
          /\ \E l \in {"rClear", "done"} : pc' = [pc EXCEPT ![g] = l]
          /\ st' \in [Chans -> States]
        BY <1>15, CloseVcStates DEF ReconnectClose, StopClose
    <2> QED
        BY <1>0, <2>1 DEF ChanPcs, Pcs
<1>16. ASSUME NEW g \in Chans, ReconnectWakes(g) PROVE ControlTypes'
    <2>1. /\ UNCHANGED <<count, retry, running, vc, target, st>>
          /\ pc' = [pc EXCEPT ![g] = "stopWd"]
          /\ ret' = [ret EXCEPT ![g] = [join |-> "tdClose", down |-> "connect"]]
        BY <1>16 DEF ReconnectWakes, CallTeardown, chanVars
    <2> QED
        BY <1>0, <1>a, <2>1 DEF ChanPcs, Pcs
<1>17. ASSUME NEW g \in Chans, ReconnectFailed(g) PROVE ControlTypes'
    <2>1. /\ UNCHANGED <<ret, count, running, vc, target, st>> /\ pc[g] = "failed"
          /\ \E l \in {"rLoop", "stop"} : pc' = [pc EXCEPT ![g] = l]
          /\ \E n \in {retry[g], retry[g] + 1} : retry' = [retry EXCEPT ![g] = n]
        BY <1>17 DEF ReconnectFailed, chanVars
    <2>2. retry[g] < MaxRetries
        BY <2>1, PhaseOf DEF Retries
    <2> QED
        BY <1>0, <2>1, <2>2 DEF ChanPcs, Pcs
<1>18. CASE Watchdog \/ UNCHANGED coreVars
    <2>1. UNCHANGED <<pc, ret, count, retry, running, vc, target, st>>
        BY <1>18, WatchdogFrame DEF coreVars, threadVars, chanVars
    <2> QED
        BY <2>1
<1>19. ASSUME NEW t \in Threads, Crashing(t) PROVE ControlTypes'
    <2>1. /\ UNCHANGED <<ret, count, retry, running, vc, target, st>>
          /\ pc' = [pc EXCEPT ![t] = "crashed"]
        BY <1>19 DEF Crashing, OpenCrashes, StartCrashes, chanVars
    <2> QED
        BY <1>0, <2>1 DEF MainPcs, ChanPcs, Pcs
<1> QED
    BY <1>1, <1>2, <1>3, <1>4, <1>5, <1>6, <1>7, <1>8, <1>9, <1>10, <1>11, <1>12, <1>13, <1>14,
       <1>15, <1>16, <1>17, <1>18, <1>19, StepCases
------------------------------------------------------------------------------
\* Who moves, and to where.
Moved(t, label) ==
    /\ pc' = [pc EXCEPT ![t] = label]
    /\ ret' = ret \/ \E r : ret' = [ret EXCEPT ![t] = r]
    /\ count' = count \/ \E n : count' = [count EXCEPT ![t] = n]
    /\ retry' = retry \/ \E n : retry' = [retry EXCEPT ![t] = n]

\* A thread that moves leaves the others' places, returns and counters alone.
LEMMA MovedAlone ==
    ASSUME ControlTypes, NEW t \in Threads, NEW label, Moved(t, label)
    PROVE  Others(t) /\ pc'[t] = label
<1>1. \A u \in Threads \ {t} :
          pc'[u] = pc[u] /\ ret'[u] = ret[u] /\ count'[u] = count[u] /\ retry'[u] = retry[u]
    BY DEF Moved, ControlTypes
<1> QED
    BY <1>1, PhaseStays DEF Others, Moved, ControlTypes

\* The counters of the thread that moves.
LEMMA TriesMove ==
    ASSUME Tries, NEW t \in Threads, Others(t), pc'[t] # "connect" => count'[t] = 0,
           t \in Chans => /\ pc'[t] = "none" => retry'[t] = 0
                          /\ (Phase(t)' = "build" \/ pc'[t] \in {"rClose", "rClear", "rSleep"})
                                => retry'[t] < MaxRetries
    PROVE  Tries'
<1>1. Chans \subseteq Threads
    BY DEF Threads
<1> QED
    BY <1>1 DEF Tries, Others

Sequel == Tries /\ Turns /\ Halted /\ Channels /\ Numbered

\* Nobody else acts while a thread builds, opens or ends.
LEMMA Alone ==
    ASSUME Turns, NEW t \in Threads, Phase(t) \in {"build", "open", "end"}
    PROVE  \A u \in Threads \ {t} : Phase(u) = "rest"
BY DEF Turns, Compatible

\* No channel is up without vc, nor when vc's is not.
LEMMA NoneUp ==
    ASSUME Channels, vc = 0 \/ ~Up(vc)
    PROVE  \A g \in Chans : ~Up(g)
<1>1. 0 \notin Chans
    BY DEF Chans
<1> QED
    BY <1>1 DEF Channels

\* The main thread is a thread, and no channel's callback thread.
LEMMA ThreadSets == Main \in Threads /\ Chans \subseteq Threads /\ Main \notin Chans
BY DEF Threads, Chans

\* A move inside the phase that touches no channel and no flag.
LEMMA SamePhaseKeeps ==
    ASSUME ControlTypes, Sequel, NEW t \in Threads, NEW label, Moved(t, label),
           UNCHANGED <<running, vc, st, target>>,
           Phase(t)' = Phase(t), retry'[t] = retry[t], count'[t] = 0 \/ label = "connect",
           ret'[t].down = ret[t].down,
           label \notin {"none", "rEpoch", "publish", "opening", "asleep", "start"},
           pc[t] \notin {"none", "publish", "opening", "start"},
           label \in Torn => vc = 0,
           label \in {"connect", "failed"} => pc[t] \in {"connect", "failed"},
           label \in {"rClose", "rClear", "rSleep"} => retry[t] < MaxRetries
    PROVE  Tries' /\ Turns' /\ Halted' /\ Channels'
<1>0. Others(t) /\ pc'[t] = label
    BY MovedAlone
<1>1. Turns'
    BY <1>0, TurnsKept DEF Sequel
<1>2. Tries'
    <2>1. t \in Chans /\ Phase(t) = "build" => retry[t] < MaxRetries
        BY DEF Sequel, Tries
    <2> QED
        BY <1>0, <2>1, TriesMove DEF Sequel
<1>3. Halted'
    <2>1. \A g \in Chans : Up(g)' => Up(g)
        BY DEF Up
    <2>2. ~running' => ~running
        OBVIOUS
    <2>3. ASSUME t = Main, ~running'
          PROVE  \/ Phase(Main)' = "rest" \/ pc'[Main] = "start"
                 \/ /\ Phase(Main)' = "build" /\ ret'[Main].down = "asleep"
                    /\ pc'[Main] \notin {"connect", "failed"}
        BY <1>0, <2>3 DEF Sequel, Halted
    <2> QED
        BY <1>0, <2>1, <2>2, <2>3, HaltedMove DEF Sequel
<1>4. Channels'
    <2>1. ASSUME Phase(t)' = "build", NEW h \in Chans, Up(h)
          PROVE  t = Main /\ MainTears' /\ \A g \in Chans : Up(g) => st[g] = "open"
        <3>1. t = Main /\ MainTears /\ \A g \in Chans : Up(g) => st[g] = "open"
            BY <2>1 DEF Sequel, Channels
        <3>2. vc # 0
            BY <2>1, NoneUp DEF Sequel
        <3>3. pc'[t] \in {"start", "tdClose"} \cup Torn \/ Stopping(t, "tdClose")'
            BY <2>1 DEF Phase
        <3>4. label \in {"stopWd", "joinWd", "tdClose"}
            BY <1>0, <3>2, <3>3 DEF Stopping
        <3> QED
            BY <1>0, <3>1, <3>4 DEF MainTears
    <2>2. Phase(t)' = "build" => \/ vc = 0 \/ \A g \in Chans : ~Up(g)
                                 \/ t = Main /\ MainTears' /\ \A g \in Chans : Up(g) => st[g] = "open"
        BY <2>1
    <2>3. /\ Channels /\ UNCHANGED <<vc, st, target>>
          /\ t \in Chans /\ pc'[t] # "none" => pc[t] # "none"
          /\ Phase(t)' \in {"early", "end"} => Phase(t) \in {"early", "end"}
          /\ pc'[t] \notin {"publish", "opening"}
          /\ pc'[t] \in Torn => vc = 0
        BY <1>0 DEF Sequel
    <2> QED
        BY <1>0, <2>2, <2>3, ChannelsMove
<1> QED
    BY <1>1, <1>2, <1>3, <1>4

\* No channel is made and none begins to reconnect.
LEMMA NumberedQuiet ==
    ASSUME Sequel, ControlTypes, NEW t \in Threads, NEW label, Moved(t, label),
           UNCHANGED <<epoch, st>>, label # "rEpoch"
    PROVE  Numbered'
<1>1. Others(t) /\ pc'[t] = label
    BY MovedAlone
<1>2. \A g \in Chans : pc'[g] = "rEpoch" => pc[g] = "rEpoch"
    BY <1>1, ThreadSets DEF Others
<1> QED
    BY <1>2, NumberedMove DEF Sequel

\* A label that is not a loop of PrepareVC leaves count at 0.
LEMMA CountZero ==
    ASSUME Sequel, NEW t \in Threads, pc[t] # "connect"
    PROVE  count[t] = 0
BY DEF Sequel, Tries

------------------------------------------------------------------------------
(***************************************************************************)
(* Every step keeps the turns.                                             *)
(***************************************************************************)
\* StopWatchdog: the flag and the join.
LEMMA StopKeeps ==
    ASSUME ControlTypes, Sequel, NEW t \in Threads, StopFlag(t) \/ StopJoin(t)
    PROVE  Sequel'
<1>1. PICK label : /\ pc' = [pc EXCEPT ![t] = label]
                   /\ \/ pc[t] = "stopWd" /\ label = "joinWd"
                      \/ pc[t] = "joinWd" /\ label = ret[t].join
    BY DEF StopFlag, StopJoin, Go
<1>2. UNCHANGED <<ret, count, retry, running, epoch, vc, st, target>>
    BY DEF StopFlag, StopJoin, chanVars
<1>3. Moved(t, label)
    BY <1>1, <1>2 DEF Moved
<1>4. pc'[t] = label /\ ret'[t] = ret[t]
    BY <1>2, <1>3, MovedAlone
<1>5. ret[t].join \in {"tdClose", "rLoop", "stopClose"}
    BY DEF ControlTypes, Labels
<1>6. Phase(t)' = Phase(t)
    BY <1>1, <1>4, <1>5, PhaseOf, PhaseNext
<1>7. label \in {"joinWd", "tdClose", "rLoop", "stopClose"}
    BY <1>1, <1>5
<1>8. count'[t] = 0 /\ retry'[t] = retry[t]
    BY <1>1, <1>2, CountZero
<1>9. Tries' /\ Turns' /\ Halted' /\ Channels'
    BY <1>1, <1>2, <1>3, <1>4, <1>6, <1>7, <1>8, SamePhaseKeeps DEF Torn
<1> QED
    BY <1>2, <1>3, <1>7, <1>9, NumberedQuiet DEF Sequel

\* The loop of PrepareVC.
LEMMA ConnectKeeps ==
    ASSUME ControlTypes, Sequel, NEW t \in Threads, Connect(t)
    PROVE  Sequel'
<1>1. /\ pc[t] = "connect" /\ pc' = pc
      /\ UNCHANGED <<ret, retry, running, epoch, vc, st, target>>
      /\ count' = [count EXCEPT ![t] = count[t] + 1]
    BY DEF Connect, chanVars
<1>2. pc' = [pc EXCEPT ![t] = "connect"]
    BY <1>1 DEF ControlTypes
<1>3. Moved(t, "connect")
    BY <1>1, <1>2 DEF Moved
<1>4. Phase(t)' = Phase(t)
    BY <1>1, PhaseStays
<1>5. vc = 0
    BY <1>1 DEF Sequel, Channels, Torn
<1>6. Tries' /\ Turns' /\ Halted' /\ Channels'
    BY <1>1, <1>3, <1>4, <1>5, SamePhaseKeeps
<1> QED
    BY <1>1, <1>3, <1>6, NumberedQuiet DEF Sequel

\* A step from build back to TeardownVc, after which nobody is up.
LEMMA CallTeardownKeeps ==
    ASSUME ControlTypes, Sequel, NEW t \in Threads, NEW d \in {"connect", "failed", "asleep"},
           Moved(t, "stopWd"), ret' = [ret EXCEPT ![t] = [join |-> "tdClose", down |-> d]],
           UNCHANGED <<retry, vc, st, target, epoch>>, count'[t] = 0,
           ~running' => ~running /\ (t = Main => d = "asleep"),
           pc[t] \notin {"none", "publish", "opening"},
           \A u \in Threads \ {t} : Phase(u) = "rest",
           vc = 0 \/ (\A g \in Chans : ~Up(g)) \/ (t = Main /\ d = "asleep" /\ \A g \in Chans : Up(g) => st[g] = "open"),
           t \in Chans => retry[t] < MaxRetries /\ Phase(t) \notin {"end", "rest"}
    PROVE  Sequel'
<1>0. Others(t) /\ pc'[t] = "stopWd"
    BY MovedAlone
<1>1. ret'[t] = [join |-> "tdClose", down |-> d]
    BY DEF ControlTypes
<1>2. Phase(t)' = "build"
    BY <1>0, <1>1, PhaseNext
<1>3. Turns'
    BY <1>0, <1>2, TurnsMove DEF Sequel, Compatible
<1>4. Tries'
    BY <1>0, <1>2, TriesMove DEF Sequel
<1>5. Halted'
    <2>1. \A g \in Chans : Up(g)' => Up(g)
        BY DEF Up
    <2>2. t = Main => /\ pc'[Main] = "asleep" => Over
                      /\ ~running' => \/ Phase(Main)' = "rest" \/ pc'[Main] = "start"
                                      \/ /\ Phase(Main)' = "build" /\ ret'[Main].down = "asleep"
                                         /\ pc'[Main] \notin {"connect", "failed"}
        BY <1>0, <1>1, <1>2
    <2> QED
        BY <1>0, <2>1, <2>2, HaltedMove DEF Sequel
<1>6. Channels'
    <2>1. t = Main /\ d = "asleep" => MainTears'
        BY <1>0, <1>1, <1>2 DEF MainTears
    <2>2. Phase(t)' = "build" => \/ vc = 0 \/ \A g \in Chans : ~Up(g)
                                 \/ t = Main /\ MainTears' /\ \A g \in Chans : Up(g) => st[g] = "open"
        BY <2>1
    <2>3. /\ Channels /\ UNCHANGED <<vc, st, target>>
          /\ Phase(t)' \notin {"early", "end"}
          /\ pc'[t] \notin {"publish", "opening"} /\ pc'[t] \notin Torn
        BY <1>0, <1>2 DEF Sequel, Torn
    <2> QED
        BY <1>0, <2>2, <2>3, ChannelsMove
<1> QED
    BY <1>3, <1>4, <1>5, <1>6, NumberedQuiet DEF Sequel

\* While a thread builds, only main after a failed bind has a channel up.
LEMMA BuildAlone ==
    ASSUME Sequel, NEW t \in Threads, Phase(t) = "build",
           pc[t] \notin {"stopWd", "joinWd", "tdClose"}
    PROVE  \A g \in Chans : ~Up(g)
BY DEF Sequel, Channels, MainTears

\* A thread that reconnects finds nothing up, and the client running.
LEMMA EarlyAlone ==
    ASSUME Sequel, NEW t \in Threads, Phase(t) \in {"early", "end"}
    PROVE  \A g \in Chans : ~Up(g)
BY DEF Sequel, Channels

\* While a callback thread is at work the client has not been stopped.
LEMMA EarlyRuns ==
    ASSUME Sequel, ControlTypes, NEW g \in Chans, Phase(g) \notin {"end", "rest"}
    PROVE  running /\ pc[Main] # "asleep"
BY DEF Sequel, Halted, Over, ControlTypes

\* PrepareVC fails; Start is called, or has failed, or could not bind.
LEMMA ConnectFailsKeeps ==
    ASSUME ControlTypes, Sequel, NEW t \in Threads, ConnectFails(t)
    PROVE  Sequel'
<1>1. /\ pc[t] = "connect" /\ pc' = [pc EXCEPT ![t] = "stopWd"]
      /\ ret' = [ret EXCEPT ![t] = [join |-> "tdClose", down |-> "failed"]]
      /\ count' = [count EXCEPT ![t] = 0]
      /\ UNCHANGED <<retry, running, vc, st, target, epoch>>
    BY DEF ConnectFails, CallTeardown, Go, chanVars
<1>2. Moved(t, "stopWd")
    BY <1>1 DEF Moved
<1>3. Phase(t) = "build"
    BY <1>1, PhaseOf
<1>4. \A u \in Threads \ {t} : Phase(u) = "rest"
    BY <1>3, Alone DEF Sequel
<1>5. vc = 0
    BY <1>1 DEF Sequel, Channels, Torn
<1>6. t = Main => running
    BY <1>1, <1>3 DEF Sequel, Halted
<1>7. t \in Chans => retry[t] < MaxRetries
    BY <1>3 DEF Sequel, Tries
<1>8. count'[t] = 0
    BY <1>1 DEF ControlTypes
<1> QED
    BY <1>1, <1>2, <1>3, <1>4, <1>5, <1>6, <1>7, <1>8, CallTeardownKeeps

\* Main calls TeardownVc, before an attempt or after a failed one.
LEMMA StartKeeps ==
    ASSUME ControlTypes, Sequel, Start \/ StartFails
    PROVE  Sequel'
<1>1. PICK d \in {"connect", "asleep"} :
          /\ pc[Main] \in {"start", "failed"} /\ pc' = [pc EXCEPT ![Main] = "stopWd"]
          /\ ret' = [ret EXCEPT ![Main] = [join |-> "tdClose", down |-> d]]
          /\ d # "asleep" => running'
          /\ running' # running => running'
    BY DEF Start, StartFails, CallTeardown, Go
<1>2. UNCHANGED <<count, retry, vc, st, target, epoch>>
    BY DEF Start, StartFails, chanVars
<1>3. Moved(Main, "stopWd")
    BY <1>1, <1>2 DEF Moved
<1>4. Phase(Main) = "build"
    BY <1>1, PhaseOf
<1>5. \A u \in Threads \ {Main} : Phase(u) = "rest"
    BY <1>4, Alone, ThreadSets DEF Sequel
<1>6. \A g \in Chans : ~Up(g)
    BY <1>1, <1>4, BuildAlone, ThreadSets
<1>7. count'[Main] = 0
    BY <1>1, <1>2, CountZero, ThreadSets
<1>8. ~running' => ~running /\ d = "asleep"
    BY <1>1 DEF ControlTypes
<1> QED
    BY <1>1, <1>2, <1>3, <1>5, <1>6, <1>7, <1>8, CallTeardownKeeps, ThreadSets

\* The UDP socket cannot be bound: main tears the channel down and gives up.
LEMMA UdpFailsKeeps ==
    ASSUME ControlTypes, Sequel, Apart', UdpFails
    PROVE  Sequel'
<1>1. /\ pc[Main] = "udp" /\ pc' = [pc EXCEPT ![Main] = "stopWd"]
      /\ ret' = [ret EXCEPT ![Main] = [join |-> "tdClose", down |-> "asleep"]]
      /\ ~Reconnecting
      /\ UNCHANGED <<count, retry, running, vc, st, target, epoch>>
    BY DEF UdpFails, Overlap, Apart, CallTeardown, Go, chanVars
<1>2. Moved(Main, "stopWd")
    BY <1>1 DEF Moved
<1>3. \A g \in Chans : pc[g] \in {"none", "done"} /\ st[g] # "dying"
    BY <1>1 DEF Reconnecting
<1>4. \A u \in Threads \ {Main} : Phase(u) = "rest" /\ pc[u] \in {"none", "done"}
    BY <1>3, PhaseOf DEF Threads
<1>5. \A g \in Chans : Up(g) => st[g] = "open"
    <2>1. \A u \in Threads : pc[u] \notin {"publish", "opening"}
        BY <1>1, <1>4
    <2>2. \A g \in Chans : st[g] \notin {"new", "opening", "dying"}
        BY <1>3, <2>1 DEF Sequel, Channels
    <2> QED
        BY <2>2 DEF Up, ControlTypes, States
<1>6. count'[Main] = 0
    BY <1>1, CountZero, ThreadSets
<1> QED
    BY <1>1, <1>2, <1>4, <1>5, <1>6, CallTeardownKeeps, ThreadSets

\* The sleep of a reconnect is over: nobody else acts.
LEMMA ReconnectWakesKeeps ==
    ASSUME ControlTypes, Sequel, Apart', NEW g \in Chans, ReconnectWakes(g)
    PROVE  Sequel'
<1>1. /\ pc[g] = "rSleep" /\ pc' = [pc EXCEPT ![g] = "stopWd"]
      /\ ret' = [ret EXCEPT ![g] = [join |-> "tdClose", down |-> "connect"]]
      /\ ~Overtakes(g)
      /\ UNCHANGED <<count, retry, running, vc, st, target, epoch>>
    BY DEF ReconnectWakes, Overlap, Apart, CallTeardown, Go, chanVars
<1>2. Moved(g, "stopWd")
    BY <1>1 DEF Moved
<1>3. Phase(g) = "early"
    BY <1>1, PhaseOf
<1>4. \A u \in Threads \ {g} : Phase(u) = "rest"
    <2>1. \A u \in Threads \ {g} : Phase(u) \in {"rest", "launch"}
        BY <1>3, ThreadSets DEF Sequel, Turns, Compatible
    <2>2. \A u \in Threads \ {g} : pc[u] # "startWd"
        BY <1>1 DEF Overtakes, PromptPcs
    <2> QED
        BY <2>1, <2>2, PhaseOf
<1>5. \A h \in Chans : ~Up(h)
    BY <1>3, EarlyAlone, ThreadSets
<1>6. retry[g] < MaxRetries
    BY <1>1 DEF Sequel, Tries
<1>7. count'[g] = 0
    BY <1>1, CountZero, ThreadSets
<1>8. g \in Threads /\ g # Main
    BY ThreadSets
<1> QED
    BY <1>1, <1>2, <1>3, <1>4, <1>5, <1>6, <1>7, <1>8, CallTeardownKeeps

\* A move to another phase that changes no channel and no flag.
LEMMA QuietMove ==
    ASSUME ControlTypes, Sequel, NEW t \in Threads, NEW label, Moved(t, label), Turns',
           UNCHANGED <<running, vc, st, target, epoch>>,
           pc[t] \notin {"none", "publish", "opening"},
           label \notin {"none", "rEpoch", "publish", "opening"},
           label # "connect" => count'[t] = 0,
           t \in Chans /\ Phase(t)' \notin {"end", "rest"} => Phase(t) \notin {"end", "rest"},
           t \in Chans /\ (Phase(t)' = "build" \/ label \in {"rClose", "rClear", "rSleep"})
              => retry'[t] < MaxRetries,
           t = Main /\ label = "asleep" => Over,
           t = Main /\ ~running => label \in {"udp", "forward", "asleep", "start"},
           Phase(t)' \in {"build", "early", "end"} => vc = 0 \/ \A g \in Chans : ~Up(g),
           label \in Torn => vc = 0
    PROVE  Sequel'
<1>0. Others(t) /\ pc'[t] = label
    BY MovedAlone
<1>1. Tries'
    BY <1>0, TriesMove DEF Sequel
<1>2. Halted'
    <2>1. \A g \in Chans : Up(g)' => Up(g)
        BY DEF Up
    <2>2. t = Main => /\ pc'[Main] = "asleep" => Over
                      /\ ~running' => \/ Phase(Main)' = "rest" \/ pc'[Main] = "start"
                                      \/ /\ Phase(Main)' = "build" /\ ret'[Main].down = "asleep"
                                         /\ pc'[Main] \notin {"connect", "failed"}
        BY <1>0, PhaseNext
    <2>3. ~running' => ~running
        OBVIOUS
    <2> QED
        BY <1>0, <2>1, <2>2, <2>3, HaltedMove DEF Sequel
<1>3. Channels'
    <2>1. Phase(t)' = "build" => \/ vc = 0 \/ \A g \in Chans : ~Up(g)
                                 \/ t = Main /\ MainTears' /\ \A g \in Chans : Up(g) => st[g] = "open"
        BY Zenon
    <2>2. /\ Channels /\ UNCHANGED <<vc, st, target>>
          /\ Phase(t)' \in {"early", "end"} => vc = 0 \/ \A g \in Chans : ~Up(g)
          /\ pc'[t] \notin {"publish", "opening"} /\ (pc'[t] \in Torn => vc = 0)
        BY <1>0 DEF Sequel
    <2> QED
        BY <1>0, <2>1, <2>2, ChannelsMove
<1> QED
    BY <1>1, <1>2, <1>3, NumberedQuiet DEF Sequel

\* TeardownVc returns.
LEMMA TearForgetKeeps ==
    ASSUME ControlTypes, Sequel, NEW t \in Threads, TearForget(t)
    PROVE  Sequel'
<1>1. /\ pc[t] \in {"tdForget", "tdRaw"} /\ pc' = [pc EXCEPT ![t] = ret[t].down]
      /\ UNCHANGED <<ret, count, retry, running, vc, st, target, epoch>>
    BY DEF TearForget, Go, chanVars
<1> DEFINE label == ret[t].down
<1>2. Moved(t, label)
    BY <1>1 DEF Moved
<1>3. Others(t) /\ pc'[t] = label
    BY <1>2, MovedAlone
<1>4. /\ label \in {"connect", "failed", "asleep"}
      /\ t \in Chans => label # "asleep"
    BY DEF ControlTypes, Labels
<1>5. Phase(t) = "build" /\ vc = 0
    BY <1>1, PhaseOf DEF Sequel, Channels, Torn
<1>6. Turns'
    BY <1>3, <1>5, TurnsKept DEF Sequel
<1>7. t = Main /\ label = "asleep" => Over
    <2>1. \A g \in Chans : ~Up(g)
        BY <1>5, NoneUp DEF Sequel
    <2>2. \A u \in Threads \ {t} : Phase(u) = "rest"
        BY <1>5, Alone DEF Sequel
    <2> QED
        BY <2>1, <2>2, ThreadSets DEF Over
<1>8. t = Main /\ ~running => label = "asleep"
    BY <1>1, <1>5 DEF Sequel, Halted
<1>9. t \in Chans => retry'[t] < MaxRetries
    BY <1>1, <1>5 DEF Sequel, Tries
<1>10. count'[t] = 0
    BY <1>1, CountZero
<1> HIDE DEF label
<1> QED
    BY <1>1, <1>2, <1>4, <1>5, <1>6, <1>7, <1>8, <1>9, <1>10, QuietMove

\* The socket of the local port is bound, or a datagram ends its loop.
LEMMA UdpKeeps ==
    ASSUME ControlTypes, Sequel, UdpBound \/ ForwardEnds
    PROVE  Sequel'
<1>1. PICK label \in {"forward", "asleep"} :
          /\ pc' = [pc EXCEPT ![Main] = label] /\ pc[Main] \in {"udp", "forward"}
          /\ label = "asleep" => ~running
    BY DEF UdpBound, ForwardEnds, Go
<1>2. UNCHANGED <<ret, count, retry, running, vc, st, target, epoch>>
    BY DEF UdpBound, ForwardEnds, chanVars
<1>3. Moved(Main, label)
    BY <1>1, <1>2 DEF Moved
<1>4. Others(Main) /\ pc'[Main] = label
    BY <1>3, MovedAlone, ThreadSets
<1>5. Phase(Main)' = "rest"
    BY <1>4, PhaseNext
<1>6. Turns'
    BY <1>4, <1>5, TurnsKept, ThreadSets DEF Sequel
<1>7. label = "asleep" => Over
    BY <1>1 DEF Sequel, Halted
<1>8. count'[Main] = 0
    BY <1>1, <1>2, CountZero, ThreadSets
<1>9. label \notin Torn
    BY DEF Torn
<1> QED
    BY <1>1, <1>2, <1>3, <1>5, <1>6, <1>7, <1>8, <1>9, QuietMove, ThreadSets

\* The watchdog is started: the channel's thread is done.
LEMMA StartWatchdogKeeps ==
    ASSUME ControlTypes, Sequel, NEW t \in Threads, StartWatchdog(t)
    PROVE  Sequel'
<1>1. PICK label \in {"udp", "done"} :
          /\ pc' = [pc EXCEPT ![t] = label] /\ pc[t] = "startWd"
          /\ t = Main => label = "udp"
    BY DEF StartWatchdog, Go
<1>2. UNCHANGED <<ret, count, retry, running, vc, st, target, epoch>>
    BY DEF StartWatchdog, chanVars
<1>3. Moved(t, label)
    BY <1>1, <1>2 DEF Moved
<1>4. Others(t) /\ pc'[t] = label
    BY <1>3, MovedAlone
<1>5. Phase(t)' = "rest"
    BY <1>4, PhaseNext
<1>6. Turns'
    BY <1>4, <1>5, TurnsKept DEF Sequel
<1>8. count'[t] = 0
    BY <1>1, <1>2, CountZero
<1>9. label \notin Torn
    BY DEF Torn
<1> QED
    BY <1>1, <1>2, <1>3, <1>5, <1>6, <1>8, <1>9, QuietMove

\* main() wakes: nobody else acts.
LEMMA MainWakesKeeps ==
    ASSUME ControlTypes, Sequel, Apart', MainWakes
    PROVE  Sequel'
<1>1. /\ pc[Main] = "asleep" /\ pc' = [pc EXCEPT ![Main] = "start"] /\ ~Overtakes(Main)
      /\ UNCHANGED <<ret, count, retry, running, vc, st, target, epoch>>
    BY DEF MainWakes, Overlap, Apart, Go, chanVars
<1>3. Moved(Main, "start")
    BY <1>1 DEF Moved
<1>4. Others(Main) /\ pc'[Main] = "start"
    BY <1>3, MovedAlone, ThreadSets
<1>5. Over
    BY <1>1 DEF Sequel, Halted
<1>6. \A u \in Threads \ {Main} : Phase(u) = "rest"
    <2> SUFFICES ASSUME NEW u \in Chans PROVE Phase(u) # "end"
        BY <1>5 DEF Over, Threads
    <2>1. u \in Threads \ {Main}
        BY ThreadSets
    <2>2. ~(pc[u] \in {"stop", "stopClose"} \/ Stopping(u, "stopClose"))
        BY <1>1, <2>1 DEF Overtakes, PromptPcs, Stopping
    <2> QED
        BY <2>2 DEF Phase
<1>7. Turns'
    BY <1>4, <1>6, PhaseNext, TurnsMove, ThreadSets DEF Sequel, Compatible
<1>8. count'[Main] = 0
    BY <1>1, CountZero, ThreadSets
<1>9. \A g \in Chans : ~Up(g)
    BY <1>5 DEF Over
<1>10. "start" \notin Torn
    BY DEF Torn
<1> QED
    BY <1>1, <1>3, <1>7, <1>8, <1>9, <1>10, QuietMove, ThreadSets

\* The reconnect begins: its channel's number is beyond the epoch.
LEMMA ReconnectBeginKeeps ==
    ASSUME ControlTypes, Sequel, NEW g \in Chans, ReconnectBegin(g)
    PROVE  Sequel'
<1>1. /\ pc[g] = "rEpoch" /\ pc' = [pc EXCEPT ![g] = "stopWd"]
      /\ ret' = [ret EXCEPT ![g].join = "rLoop"] /\ epoch' = epoch + 1
      /\ UNCHANGED <<count, retry, running, vc, st, target>>
    BY DEF ReconnectBegin, CallStopWatchdog, Go, chanVars
<1>2. g \in Threads
    BY ThreadSets
<1>3. Moved(g, "stopWd")
    <2>1. \E r : ret' = [ret EXCEPT ![g] = r]
        <3>1. ret' = [ret EXCEPT ![g] = [ret[g] EXCEPT !.join = "rLoop"]]
            BY <1>1
        <3> QED
            BY <3>1
    <2> QED
        BY <1>1, <2>1 DEF Moved
<1>4. Others(g) /\ pc'[g] = "stopWd"
    BY <1>2, <1>3, MovedAlone
<1>5. ret'[g].join = "rLoop" /\ ret'[g].down = ret[g].down
    BY <1>1, <1>2 DEF ControlTypes, Labels
<1>6. Phase(g) = "early" /\ Phase(g)' = "early"
    BY <1>1, <1>4, <1>5, PhaseOf, PhaseNext
<1>7. count'[g] = 0
    BY <1>1, <1>2, CountZero
<1>8. Tries' /\ Turns' /\ Halted' /\ Channels'
    BY <1>1, <1>2, <1>3, <1>5, <1>6, <1>7, SamePhaseKeeps DEF Torn
<1>9. Numbered'
    <2>1. PICK k \in 0..MaxVcs : Created = 1..k
        BY DEF Sequel, Numbered
    <2>2. Created' = Created
        BY <1>1 DEF Created
    <2>3. epoch \in Nat /\ epoch < g
        BY <1>1 DEF Sequel, Numbered
    <2>4. st[g] = "down"
        BY <1>1 DEF Sequel, Channels
    <2>5. g <= k
        BY <2>1, <2>4 DEF Created
    <2>6. ASSUME NEW h \in Chans, st'[h] # "down" \/ pc'[h] = "rEpoch" PROVE epoch + 1 < h
        <3>1. h # g
            BY <1>1, <1>4, <2>4, <2>6
        <3>2. pc[h] # "rEpoch"
            <4>1. Phase(h) # "early"
                BY <1>2, <1>6, <3>1, ThreadSets DEF Sequel, Turns, Compatible
            <4> QED
                BY <4>1, PhaseOf
        <3>3. pc'[h] # "rEpoch"
            BY <1>4, <3>1, <3>2, ThreadSets DEF Others
        <3>4. st[h] = "none"
            BY <1>1, <1>2, <1>6, <2>6, <3>3, EarlyAlone DEF Up
        <3>5. h \notin 1..k
            BY <2>1, <3>4 DEF Created
        <3> QED
            BY <2>3, <2>5, <3>5 DEF Chans
    <2> QED
        BY <1>1, <2>1, <2>2, <2>3, <2>6 DEF Numbered, Chans
<1> QED
    BY <1>8, <1>9 DEF Sequel

\* Another attempt, or none is left: then nobody is starting a watchdog.
LEMMA ReconnectLoopKeeps ==
    ASSUME ControlTypes, Sequel, NEW g \in Chans, ReconnectLoop(g)
    PROVE  Sequel'
<1>1. PICK label \in {"rClose", "stop"} :
          /\ pc' = [pc EXCEPT ![g] = label] /\ pc[g] = "rLoop"
          /\ label = "rClose" => retry[g] < MaxRetries
          /\ label = "stop" => ~running \/ ~(retry[g] < MaxRetries)
    BY DEF ReconnectLoop, Go
<1>2. UNCHANGED <<ret, count, retry, running, vc, st, target, epoch>>
    BY DEF ReconnectLoop, chanVars
<1>3. g \in Threads /\ g # Main
    BY ThreadSets
<1>4. Moved(g, label)
    BY <1>1, <1>2 DEF Moved
<1>5. Others(g) /\ pc'[g] = label
    BY <1>3, <1>4, MovedAlone
<1>6. Phase(g) = "early" /\ Phase(g)' \in {"early", "end"}
    BY <1>1, <1>5, PhaseOf, PhaseNext
<1>7. Turns'
    <2>1. CASE label = "rClose"
        BY <1>2, <1>3, <1>5, <1>6, <2>1, PhaseNext, TurnsKept DEF Sequel
    <2>2. CASE label = "stop"
        <3>1. running
            BY <1>6, EarlyRuns
        <3>2. retry[g] # 0
            BY <1>1, <2>2, <3>1 DEF ControlTypes
        <3>3. \A u \in Threads \ {g} : Phase(u) = "rest"
            BY <1>3, <1>6, <3>2 DEF Sequel, Turns, Compatible
        <3>4. Phase(g)' = "end"
            BY <1>5, <2>2, PhaseNext
        <3> QED
            BY <1>3, <1>5, <3>3, <3>4, TurnsMove DEF Sequel, Compatible
    <2> QED
        BY <2>1, <2>2
<1>8. count'[g] = 0
    BY <1>1, <1>2, <1>3, CountZero
<1>9. \A h \in Chans : ~Up(h)
    BY <1>3, <1>6, EarlyAlone
<1>10. label \notin Torn
    BY DEF Torn
<1> QED
    BY <1>1, <1>2, <1>3, <1>4, <1>6, <1>7, <1>8, <1>9, <1>10, QuietMove

\* ReconnectVC has cleared the sockets and goes to sleep.
LEMMA ReconnectClearKeeps ==
    ASSUME ControlTypes, Sequel, NEW g \in Chans, ReconnectClear(g)
    PROVE  Sequel'
<1>1. /\ pc[g] = "rClear" /\ pc' = [pc EXCEPT ![g] = IF running THEN "rSleep" ELSE "stop"]
      /\ UNCHANGED <<ret, count, retry, running, vc, st, target, epoch>>
    BY DEF ReconnectClear, Go, chanVars
<1>2. g \in Threads /\ g # Main
    BY ThreadSets
<1>3. Phase(g) = "early"
    BY <1>1, PhaseOf
<1>4. pc' = [pc EXCEPT ![g] = "rSleep"]
    BY <1>1, <1>3, EarlyRuns
<1>5. Moved(g, "rSleep")
    BY <1>1, <1>4 DEF Moved
<1>6. Others(g) /\ pc'[g] = "rSleep"
    BY <1>2, <1>5, MovedAlone
<1>7. Phase(g)' = "early"
    BY <1>6, PhaseNext
<1>8. Turns'
    BY <1>1, <1>2, <1>3, <1>6, <1>7, TurnsKept DEF Sequel
<1>9. count'[g] = 0 /\ retry'[g] < MaxRetries
    BY <1>1, <1>2, CountZero DEF Sequel, Tries
<1>10. \A h \in Chans : ~Up(h)
    BY <1>2, <1>3, EarlyAlone
<1>11. "rSleep" \notin Torn
    BY DEF Torn
<1> QED
    BY <1>1, <1>2, <1>3, <1>5, <1>7, <1>8, <1>9, <1>10, <1>11, QuietMove

\* An attempt of ReconnectVC fails: it tries again, or stops the client.
LEMMA ReconnectFailedKeeps ==
    ASSUME ControlTypes, Sequel, NEW g \in Chans, ReconnectFailed(g)
    PROVE  Sequel'
<1>1. PICK label \in {"rLoop", "stop"} : pc' = [pc EXCEPT ![g] = label] /\ pc[g] = "failed"
    BY DEF ReconnectFailed, Go
<1>2. /\ UNCHANGED <<ret, count, running, vc, st, target, epoch>>
      /\ \E n : retry' = [retry EXCEPT ![g] = n]
    BY DEF ReconnectFailed, chanVars
<1>3. g \in Threads /\ g # Main
    BY ThreadSets
<1>4. Moved(g, label)
    BY <1>1, <1>2 DEF Moved
<1>5. Others(g) /\ pc'[g] = label
    BY <1>3, <1>4, MovedAlone
<1>6. Phase(g) = "build" /\ Phase(g)' \in {"early", "end"} /\ vc = 0
    BY <1>1, <1>3, <1>5, PhaseOf, PhaseNext DEF Sequel, Channels, Torn
<1>7. Turns'
    BY <1>3, <1>5, <1>6, TurnsKept DEF Sequel
<1>8. count'[g] = 0
    BY <1>1, <1>2, <1>3, CountZero
<1> QED
    BY <1>1, <1>2, <1>3, <1>4, <1>6, <1>7, <1>8, QuietMove

\* Stop(): main is at rest and nothing is up.
LEMMA StopBeginKeeps ==
    ASSUME ControlTypes, Sequel, NEW g \in Chans, StopBegin(g)
    PROVE  Sequel'
<1>1. /\ pc[g] = "stop" /\ pc' = [pc EXCEPT ![g] = "stopWd"]
      /\ ret' = [ret EXCEPT ![g].join = "stopClose"] /\ ~running'
      /\ UNCHANGED <<count, retry, vc, st, target, epoch>>
    BY DEF StopBegin, CallStopWatchdog, Go, chanVars
<1>2. g \in Threads /\ g # Main /\ Main \in Threads
    BY ThreadSets
<1>3. Moved(g, "stopWd")
    <2>1. ret' = [ret EXCEPT ![g] = [ret[g] EXCEPT !.join = "stopClose"]]
        BY <1>1
    <2> QED
        BY <1>1, <2>1 DEF Moved
<1>4. Others(g) /\ pc'[g] = "stopWd"
    BY <1>2, <1>3, MovedAlone
<1>5. ret'[g].join = "stopClose"
    BY <1>1, <1>2 DEF ControlTypes, Labels
<1>6. Phase(g) = "end" /\ Phase(g)' = "end"
    BY <1>1, <1>4, <1>5, PhaseOf, PhaseNext
<1>7. \A u \in Threads \ {g} : Phase(u)' = "rest"
    BY <1>2, <1>4, <1>6, Alone DEF Sequel, Others
<1>8. \A h \in Chans : ~Up(h)
    BY <1>2, <1>6, EarlyAlone
<1>9. Turns'
    BY <1>2, <1>4, <1>6, TurnsKept DEF Sequel
<1>10. count'[g] = 0
    BY <1>1, <1>2, CountZero
<1>11. Tries'
    BY <1>2, <1>4, <1>6, <1>10, TriesMove DEF Sequel
<1>12. Halted'
    <2>1. Over'
        BY <1>1, <1>6, <1>7, <1>8, ThreadSets DEF Over, Up
    <2> QED
        BY <1>2, <1>7, <2>1 DEF Halted
<1>13. Channels'
    BY <1>1, <1>2, <1>4, <1>6, <1>8, ChannelsMove DEF Sequel, Torn
<1> QED
    BY <1>1, <1>2, <1>3, <1>9, <1>11, <1>12, <1>13, NumberedQuiet DEF Sequel

\* After the step no channel is up.
LEMMA AllDown ==
    ASSUME Channels, NEW t \in Threads, Others(t), \A g \in Chans : ~Up(g)',
           vc' \in {0, vc}, \A g \in Chans : st'[g] = "none" <=> st[g] = "none",
           vc' = 0 \/ vc' \in Chans,
           t \in Chans /\ pc'[t] # "none" => st[t] # "none",
           \A u \in Threads : pc'[u] \notin {"publish", "opening"},
           \A u \in Threads : pc'[u] \in Torn => vc' = 0
    PROVE  Channels'
<1>1. \A g \in Chans : st'[g] \in {"none", "down"}
    BY DEF Up
<1>2. \A g \in Chans : pc'[g] # "none" => st'[g] = "down"
    <2> SUFFICES ASSUME NEW g \in Chans, pc'[g] # "none" PROVE st[g] # "none"
        BY <1>1
    <2>1. CASE g = t
        BY <2>1
    <2>2. CASE g # t
        BY <2>2, ThreadSets DEF Others, Channels
    <2> QED
        BY <2>1, <2>2
<1>3. vc' # 0 => st'[vc'] # "none"
    BY DEF Channels
<1>4. \A g \in Chans : st'[g] \notin {"new", "opening"}
    BY <1>1
<1> QED
    BY <1>2, <1>3, <1>4 DEF Channels

\* TeardownVc closes and releases the channel.
LEMMA TearCloseKeeps ==
    ASSUME ControlTypes, Sequel, NEW t \in Threads, TearClose(t)
    PROVE  Sequel'
<1>1. PICK label \in {"tdForget", "tdRaw"} : pc' = [pc EXCEPT ![t] = label]
    BY DEF TearClose, Go
<1>2. /\ pc[t] = "tdClose" /\ vc' = 0 /\ CloseVc
      /\ UNCHANGED <<ret, count, retry, running, target, epoch>>
    BY DEF TearClose
<1>3. Moved(t, label)
    BY <1>1, <1>2 DEF Moved
<1>4. Others(t) /\ pc'[t] = label
    BY <1>3, MovedAlone
<1>5. Phase(t) = "build" /\ Phase(t)' = "build"
    BY <1>2, <1>4, PhaseOf, PhaseNext
<1>6. \A g \in Chans : Up(g) => vc = g /\ st[g] = "open"
    BY <1>5 DEF Sequel, Channels
<1>7. \A g \in Chans : /\ ~Up(g)' /\ (st'[g] = "none" <=> st[g] = "none")
                       /\ st'[g] # "down" => st[g] # "down"
    <2>1. CASE VcOpen
        <3>1. st' = [st EXCEPT ![vc] = "down"] /\ vc \in Chans /\ st[vc] = "open"
            BY <1>2, <2>1 DEF CloseVc, VcOpen
        <3> QED
            BY <1>6, <3>1 DEF Up, ControlTypes
    <2>2. CASE ~VcOpen
        <3>1. st' = st /\ \A g \in Chans : ~Up(g)
            BY <1>2, <1>6, <2>2 DEF CloseVc, VcOpen
        <3> QED
            BY <3>1 DEF Up
    <2> QED
        BY <2>1, <2>2
<1>8. Turns'
    BY <1>4, <1>5, TurnsKept DEF Sequel
<1>9. count'[t] = 0 /\ retry' = retry
    BY <1>2, CountZero
<1>10. Tries'
    <2>1. t \in Chans => retry[t] < MaxRetries
        BY <1>5 DEF Sequel, Tries
    <2> QED
        BY <1>4, <1>5, <1>9, <2>1, TriesMove DEF Sequel
<1>11. Halted'
    <2>1. \A g \in Chans : Up(g)' => Up(g)
        BY <1>7
    <2>2. ~running' => ~running
        BY <1>2
    <2>3. ASSUME t = Main, ~running'
          PROVE  /\ Phase(Main)' = "build" /\ ret'[Main].down = "asleep"
                 /\ pc'[Main] \notin {"connect", "failed"}
        BY <1>2, <1>4, <1>5, <2>3 DEF Sequel, Halted
    <2>4. t = Main => pc'[Main] # "asleep"
        BY <1>4
    <2> QED
        BY <1>4, <1>5, <2>1, <2>2, <2>3, <2>4, HaltedMove DEF Sequel
<1>12. Channels'
    <2>1. \A u \in Threads \ {t} : Phase(u)' = "rest"
        BY <1>4, <1>5, Alone DEF Sequel, Others
    <2>2. \A u \in Threads : pc'[u] \notin {"publish", "opening"}
        BY <1>4, <2>1, PhaseNext
    <2>3. t \in Chans => st[t] # "none"
        BY <1>2 DEF Sequel, Channels
    <2> QED
        BY <1>2, <1>4, <1>7, <2>2, <2>3, AllDown DEF Sequel
<1>13. Numbered'
    <2>1. \A g \in Chans : pc'[g] = "rEpoch" => pc[g] = "rEpoch"
        BY <1>4, ThreadSets DEF Others
    <2> QED
        BY <1>2, <1>7, <2>1, NumberedMove DEF Sequel
<1> QED
    BY <1>8, <1>10, <1>11, <1>12, <1>13 DEF Sequel

\* Nothing is up in ReconnectVC and Stop: close() finds nothing to do.
LEMMA NothingToClose ==
    ASSUME ControlTypes, Sequel, NEW g \in Chans, Phase(g) \in {"early", "end"}, CloseVc
    PROVE  st' = st /\ \A h \in Chans : ~Up(h)'
<1>1. \A h \in Chans : ~Up(h)
    BY EarlyAlone, ThreadSets
<1>2. ~VcOpen
    BY <1>1 DEF VcOpen, Up
<1> QED
    BY <1>1, <1>2 DEF CloseVc, Up

\* ReconnectVC or Stop closes the channel that is published.
LEMMA ReconnectCloseKeeps ==
    ASSUME ControlTypes, Sequel, NEW g \in Chans, ReconnectClose(g) \/ StopClose(g)
    PROVE  Sequel'
<1>1. PICK label \in {"rClear", "done"} :
          /\ pc' = [pc EXCEPT ![g] = label]
          /\ \/ pc[g] = "rClose" /\ label = "rClear"
             \/ pc[g] = "stopClose" /\ label = "done"
    BY DEF ReconnectClose, StopClose, Go
<1>2. /\ vc' \in {0, vc} /\ CloseVc
      /\ UNCHANGED <<ret, count, retry, running, target, epoch>>
    BY DEF ReconnectClose, StopClose
<1>3. g \in Threads /\ g # Main
    BY ThreadSets
<1>4. Moved(g, label)
    BY <1>1, <1>2 DEF Moved
<1>5. Others(g) /\ pc'[g] = label
    BY <1>3, <1>4, MovedAlone
<1>6. /\ Phase(g) \in {"early", "end"}
      /\ (Phase(g)' = "early" /\ Phase(g) = "early") \/ Phase(g)' = "rest"
    BY <1>1, <1>5, PhaseOf, PhaseNext
<1>7. st' = st /\ \A h \in Chans : ~Up(h)'
    BY <1>2, <1>6, NothingToClose
<1>8. Turns'
    BY <1>2, <1>3, <1>5, <1>6, TurnsKept DEF Sequel
<1>9. count'[g] = 0
    BY <1>1, <1>2, <1>3, CountZero
<1>10. Tries'
    <2>1. label = "rClear" => retry'[g] < MaxRetries
        BY <1>1, <1>2 DEF Sequel, Tries
    <2> QED
        BY <1>3, <1>5, <1>6, <1>9, <2>1, TriesMove DEF Sequel
<1>11. Halted'
    <2>1. \A h \in Chans : Up(h)' => Up(h)
        BY <1>7
    <2>2. ~running' => ~running
        BY <1>2
    <2> QED
        BY <1>3, <1>5, <1>6, <2>1, <2>2, HaltedMove DEF Sequel
<1>12. Channels'
    <2>1. \A u \in Threads \ {g} : Phase(u)' \in {"rest", "launch"}
        BY <1>3, <1>5, <1>6 DEF Sequel, Others, Turns, Compatible
    <2>2. \A u \in Threads : pc'[u] \notin {"publish", "opening"} \cup Torn
        BY <1>5, <2>1, PhaseNext DEF Torn
    <2>3. st[g] # "none"
        BY <1>1 DEF Sequel, Channels
    <2>4. vc' = 0 \/ vc' \in Chans
        BY <1>2 DEF ControlTypes, Chans
    <2> QED
        BY <1>2, <1>3, <1>5, <1>7, <2>2, <2>3, <2>4, AllDown DEF Sequel
<1>13. Numbered'
    BY <1>2, <1>3, <1>4, <1>7, NumberedQuiet
<1> QED
    BY <1>8, <1>10, <1>11, <1>12, <1>13 DEF Sequel

\* A new channel gets the next number.
LEMMA NextChannel ==
    ASSUME Sequel
    PROVE  \E k \in 0..MaxVcs : Created = 1..k /\ Cardinality(Created) = k
<1>1. PICK k \in 0..MaxVcs : Created = 1..k
    BY DEF Sequel, Numbered
<1>2. Cardinality(1..k) = k
    BY FS_Interval
<1> QED
    BY <1>1, <1>2

\* PrepareVC has all its connections: a new channel is published.
LEMMA PublishKeeps ==
    ASSUME ControlTypes, Sequel, NEW t \in Threads, Publish(t)
    PROVE  Sequel'
<1>1. PICK k \in 0..MaxVcs : Created = 1..k /\ Cardinality(Created) = k
    BY NextChannel
<1>2. PICK n \in Chans : n = k + 1 /\ vc' = n /\ st' = [st EXCEPT ![n] = "new"]
    BY <1>1 DEF Publish
<1>3. /\ pc[t] = "connect" /\ pc' = [pc EXCEPT ![t] = "publish"]
      /\ count' = [count EXCEPT ![t] = 0]
      /\ UNCHANGED <<ret, retry, running, target, epoch>>
    BY DEF Publish, Go
<1>4. st[n] = "none" /\ \A g \in Chans : g # n => st'[g] = st[g]
    BY <1>1, <1>2 DEF Created, ControlTypes
<1>5. Moved(t, "publish")
    BY <1>3 DEF Moved
<1>6. Others(t) /\ pc'[t] = "publish" /\ st'[n] = "new"
    BY <1>2, <1>5, MovedAlone DEF ControlTypes
<1>7. Phase(t) = "build" /\ Phase(t)' = "open" /\ vc = 0
    BY <1>3, <1>6, PhaseOf, PhaseNext DEF Sequel, Channels, Torn
<1>8. \A u \in Threads \ {t} : Phase(u)' = "rest"
    BY <1>6, <1>7, Alone DEF Sequel, Others
<1>9. \A g \in Chans : ~Up(g)
    BY <1>7, NoneUp DEF Sequel
<1>10. \A g \in Chans : Up(g)' => g = n
    BY <1>4, <1>9 DEF Up
<1>11. Turns'
    BY <1>6, <1>7, TurnsKept DEF Sequel
<1>12. count'[t] = 0
    BY <1>3 DEF ControlTypes
<1>13. Tries'
    BY <1>6, <1>7, <1>12, TriesMove DEF Sequel
<1>14. Halted'
    <2>1. t \in Chans => running /\ pc[Main] # "asleep"
        BY <1>7, EarlyRuns
    <2>2. t = Main => running
        BY <1>3, <1>7 DEF Sequel, Halted
    <2>3. running' /\ pc'[Main] # "asleep"
        BY <1>3, <1>6, <2>1, <2>2 DEF Others, Threads
    <2> QED
        BY <2>3 DEF Halted
<1>15. Channels'
    <2>1. \A g \in Chans : pc'[g] # "none" => st'[g] = "down"
        <3> SUFFICES ASSUME NEW g \in Chans, pc'[g] # "none" PROVE st'[g] = "down"
            OBVIOUS
        <3>1. pc[g] # "none"
            BY <1>3, <1>6, ThreadSets DEF Others
        <3>2. st[g] = "down"
            BY <3>1 DEF Sequel, Channels
        <3> QED
            BY <1>4, <3>2
    <2>2. \A u \in Threads \ {t} : pc'[u] \notin {"publish", "opening"} \cup Torn
        BY <1>8, PhaseNext DEF Torn
    <2>3. \A u \in Threads : Phase(u)' \notin {"early", "end", "build"}
        BY <1>7, <1>8
    <2>4. vc' # 0 /\ st'[vc'] = "new"
        BY <1>2, <1>6, ThreadSets
    <2>5. \A g \in Chans : st'[g] # "opening"
        BY <1>4, <1>6, <1>9 DEF Up
    <2>6. \A g \in Chans : Up(g)' => vc' = g
        BY <1>2, <1>10
    <2>7. "publish" \notin Torn
        BY DEF Torn
    <2> QED
        BY <1>6, <2>1, <2>2, <2>3, <2>4, <2>5, <2>6, <2>7 DEF Channels
<1>16. Numbered'
    <2>1. Created' = 1..(k + 1)
        <3>1. \A g \in Chans : g \in Created' <=> g \in Created \/ g = n
            BY <1>4, <1>6 DEF Created
        <3>2. \A g \in Created' : g \in Chans
            BY DEF Created
        <3>3. 1..(k + 1) = (1..k) \cup {n} /\ 1..(k + 1) \subseteq Chans
            BY <1>2 DEF Chans
        <3> QED
            BY <1>1, <3>1, <3>2, <3>3
    <2>2. k + 1 \in 0..MaxVcs
        BY <1>2 DEF Chans
    <2>3. \A g \in Chans : (st'[g] # "down" \/ pc'[g] = "rEpoch") => st[g] # "down" \/ pc[g] = "rEpoch"
        BY <1>4, <1>6, ThreadSets DEF Others
    <2> QED
        BY <1>3, <2>1, <2>2, <2>3 DEF Sequel, Numbered
<1> QED
    BY <1>11, <1>13, <1>14, <1>15, <1>16 DEF Sequel

\* open(): the threads are started, then opened is set.
LEMMA OpenKeeps ==
    ASSUME ControlTypes, Sequel, NEW t \in Threads, OpenBegin(t) \/ OpenEnd(t)
    PROVE  Sequel'
<1>1. PICK label : /\ pc' = [pc EXCEPT ![t] = label]
                   /\ \/ pc[t] = "publish" /\ label = "opening"
                      \/ pc[t] = "opening" /\ label = "startWd"
    BY DEF OpenBegin, OpenEnd, Go
<1>2. UNCHANGED <<ret, count, retry, running, vc, epoch>>
    BY DEF OpenBegin, OpenEnd
<1>3. vc \in Chans /\ st[vc] \in {"new", "opening"} /\ (pc[t] = "opening" => target[t] = vc)
    BY <1>1 DEF Sequel, Channels, ControlTypes, Chans
<1>4. PICK w \in {"opening", "open"} : /\ st' = [st EXCEPT ![vc] = w]
                                       /\ label = "opening" => w = "opening" /\ target'[t] = vc
                                       /\ label = "startWd" => w = "open"
    BY <1>1, <1>3 DEF OpenBegin, OpenEnd, ControlTypes, Go
<1>5. Moved(t, label)
    BY <1>1, <1>2 DEF Moved
<1>6. Others(t) /\ pc'[t] = label
    BY <1>5, MovedAlone
<1>7. /\ Phase(t) = "open" /\ Phase(t)' \in {"open", "launch"}
      /\ \A u \in Threads \ {t} : Phase(u)' = "rest"
    BY <1>1, <1>6, PhaseOf, PhaseNext, Alone DEF Sequel, Others
<1>8. /\ st'[vc] = w /\ \A g \in Chans : g # vc => st'[g] = st[g]
      /\ \A g \in Chans : Up(g)' <=> Up(g)
    BY <1>3, <1>4 DEF Up, ControlTypes
<1>9. Turns'
    BY <1>6, <1>7, TurnsKept DEF Sequel
<1>10. count'[t] = 0
    BY <1>1, <1>2, CountZero
<1>11. Tries'
    BY <1>1, <1>6, <1>7, <1>10, TriesMove DEF Sequel
<1>12. Halted'
    <2>1. \E g \in Chans : Up(g)
        BY <1>3 DEF Up
    <2>2. running /\ pc[Main] # "asleep"
        BY <2>1 DEF Sequel, Halted, Over, ControlTypes
    <2>3. running' /\ pc'[Main] # "asleep"
        BY <1>1, <1>2, <1>6, <2>2, ThreadSets DEF Others
    <2> QED
        BY <2>3 DEF Halted
<1>13. Channels'
    <2>1. \A g \in Chans : pc'[g] # "none" => st'[g] = "down"
        <3> SUFFICES ASSUME NEW g \in Chans, pc'[g] # "none" PROVE st'[g] = "down"
            OBVIOUS
        <3>1. pc[g] # "none"
            BY <1>1, <1>6, ThreadSets DEF Others
        <3>2. st[g] = "down"
            BY <3>1 DEF Sequel, Channels
        <3> QED
            BY <1>3, <1>8, <3>2
    <2>2. \A u \in Threads \ {t} : pc'[u] \notin {"publish", "opening"} \cup Torn
        BY <1>7, PhaseNext DEF Torn
    <2>3. \A u \in Threads : Phase(u)' \notin {"early", "end", "build"}
        BY <1>7
    <2>4. vc' # 0 /\ st'[vc'] # "none" /\ (label = "opening" => st'[vc'] = "opening")
        BY <1>2, <1>3, <1>4, <1>8, ThreadSets
    <2>5. \A g \in Chans : /\ st'[g] # "new"
                           /\ st'[g] = "opening" => label = "opening"
        <3> SUFFICES ASSUME NEW g \in Chans, st'[g] \in {"new", "opening"}
                     PROVE  st'[g] # "new" /\ label = "opening"
            OBVIOUS
        <3>1. g = vc
            BY <1>8 DEF Sequel, Channels, Up
        <3> QED
            BY <1>1, <1>4, <1>8, <3>1
    <2>6. \A g \in Chans : Up(g)' => vc' = g
        BY <1>2, <1>8 DEF Sequel, Channels
    <2>7. label \notin Torn /\ label # "publish" /\ (label = "opening" => target'[t] = vc')
        BY <1>1, <1>2, <1>4 DEF Torn
    <2> QED
        BY <1>6, <2>1, <2>2, <2>3, <2>4, <2>5, <2>6, <2>7 DEF Channels
<1>14. Numbered'
    <2>1. \A g \in Chans : /\ st'[g] = "none" <=> st[g] = "none"
                           /\ st'[g] # "down" => st[g] # "down"
                           /\ pc'[g] = "rEpoch" => pc[g] = "rEpoch"
        BY <1>1, <1>3, <1>6, <1>8, ThreadSets DEF Others
    <2> QED
        BY <1>2, <2>1, NumberedMove DEF Sequel
<1> QED
    BY <1>9, <1>11, <1>12, <1>13, <1>14 DEF Sequel

\* The watchdog changes nothing of all this, nor does a connection that is not the
\* last of its channel.
LEMMA SequelStays ==
    ASSUME Sequel, ControlTypes,
           UNCHANGED <<pc, ret, count, retry, running, epoch, vc, st, target>>
    PROVE  Sequel'
<1>1. \A u \in Threads : Phase(u)' = Phase(u)
    BY PhaseStays
<1>2. \A g \in Chans : Up(g)' = Up(g)
    BY DEF Up
<1>3. Created' = Created
    BY DEF Created
<1>4. Tries'
    BY <1>1, ThreadSets DEF Sequel, Tries
<1>5. Turns'
    BY <1>1 DEF Sequel, Turns
<1>6. Halted'
    BY <1>1, <1>2, ThreadSets DEF Sequel, Halted, Over
<1>7. Channels'
    <2>1. MainTears' <=> MainTears
        BY <1>1, ThreadSets DEF MainTears
    <2> QED
        BY <1>1, <1>2, <2>1 DEF Sequel, Channels
<1>8. Numbered'
    BY <1>3 DEF Sequel, Numbered
<1> QED
    BY <1>4, <1>5, <1>6, <1>7, <1>8 DEF Sequel

\* A connection dies; the last one takes the channel with it.
LEMMA DiesKeeps ==
    ASSUME ControlTypes, Sequel, Apart', NEW g \in Chans, NEW s, Dies(g, s)
    PROVE  Sequel'
<1>0. /\ st[g] \in {"opening", "open"}
      /\ \/ st' = [st EXCEPT ![g] = "dying"] /\ st[g] = "open" /\ ~MainTearing
         \/ st' = [st EXCEPT ![g] = st[g]]
    BY DEF Dies, Overlap, Apart
<1>a. CASE st' = [st EXCEPT ![g] = st[g]]
    <2>1. st' = st
        BY <1>a DEF ControlTypes
    <2> QED
        BY <2>1, SequelStays DEF Dies, threadVars
<1> DEFINE w == "dying"
<1>1. SUFFICES ASSUME st' = [st EXCEPT ![g] = w], st[g] = "open", ~MainTearing
      PROVE  Sequel'
    BY <1>0, <1>a
<1>2. UNCHANGED <<pc, ret, count, retry, running, vc, target, epoch>>
    BY DEF Dies, threadVars
<1>3. st'[g] = w /\ \A h \in Chans : h # g => st'[h] = st[h]
    BY <1>1 DEF ControlTypes
<1>4. \A h \in Chans : Up(h)' <=> Up(h)
    BY <1>1, <1>3 DEF Up
<1>5. \A u \in Threads : Phase(u)' = Phase(u)
    BY <1>2, PhaseStays
<1>6. Tries'
    BY <1>2, <1>5, ThreadSets DEF Sequel, Tries
<1>7. Turns'
    BY <1>2, <1>5 DEF Sequel, Turns
<1>8. Halted'
    BY <1>2, <1>4, <1>5, ThreadSets DEF Sequel, Halted, Over
<1>9. Channels'
    <2>1. ~MainTears
        BY <1>1 DEF MainTearing, MainTears
    <2>2. Up(g) /\ vc = g
        BY <1>1 DEF Up, Sequel, Channels
    <2>3. \A u \in Threads : Phase(u) \notin {"build", "early", "end"}
        BY <2>1, <2>2 DEF Sequel, Channels
    <2>4. \A h \in Chans : pc'[h] # "none" => st'[h] = "down"
        BY <1>1, <1>2, <1>3 DEF Sequel, Channels
    <2>5. vc' # 0 /\ st'[vc'] # "none" /\ \A h \in Chans : Up(h)' => vc' = h
        BY <1>1, <1>2, <1>3, <1>4, <2>2, ThreadSets DEF Sequel, Channels
    <2>6. \A u \in Threads :
             /\ pc'[u] = "publish" => vc' # 0 /\ st'[vc'] = "new"
             /\ pc'[u] = "opening" => vc' # 0 /\ st'[vc'] = "opening" /\ target'[u] = vc'
             /\ pc'[u] \notin Torn
        BY <1>1, <1>2, <1>3, <2>2, <2>3, PhaseOf DEF Sequel, Channels, Torn
    <2>7. \A h \in Chans : /\ st'[h] = "new" => \E u \in Threads : pc'[u] = "publish"
                           /\ st'[h] = "opening" => \E u \in Threads : pc'[u] = "opening"
        BY <1>1, <1>2, <1>3 DEF Sequel, Channels
    <2> QED
        BY <1>5, <2>3, <2>4, <2>5, <2>6, <2>7 DEF Channels
<1>10. Numbered'
    BY <1>1, <1>2, <1>3, NumberedMove DEF Sequel
<1> QED
    BY <1>6, <1>7, <1>8, <1>9, <1>10 DEF Sequel

\* The disconnect callback: nobody but the starter of the watchdog is at work.
LEMMA CallbackKeeps ==
    ASSUME ControlTypes, Sequel, NEW g \in Chans, Callback(g)
    PROVE  Sequel'
<1>1. /\ st[g] = "dying" /\ st' = [st EXCEPT ![g] = "down"] /\ pc' = [pc EXCEPT ![g] = "rEpoch"]
      /\ UNCHANGED <<ret, count, retry, running, vc, target, epoch>>
    BY DEF Callback, Go
<1>2. g \in Threads /\ g # Main
    BY ThreadSets
<1>3. pc[g] = "none" /\ Up(g) /\ vc = g
    BY <1>1 DEF Sequel, Channels, Up
<1>4. Moved(g, "rEpoch")
    BY <1>1 DEF Moved
<1>5. Others(g) /\ pc'[g] = "rEpoch"
    BY <1>2, <1>4, MovedAlone
<1>6. st'[g] = "down" /\ \A h \in Chans : h # g => st'[h] = st[h]
    BY <1>1 DEF ControlTypes
<1>7. \A u \in Threads : pc[u] \notin {"publish", "opening"} \cup Torn
    <2>1. \A u \in Threads : pc[u] \notin {"publish", "opening"}
        BY <1>1, <1>3 DEF Sequel, Channels
    <2>2. \A u \in Threads : pc[u] \notin Torn
        BY <1>3, ThreadSets DEF Sequel, Channels
    <2> QED
        BY <2>1, <2>2
<1>8. \A u \in Threads : Phase(u) \in {"launch", "rest"}
    <2> SUFFICES ASSUME NEW u \in Threads PROVE Phase(u) \in {"launch", "rest"}
        OBVIOUS
    <2>1. Phase(u) \notin {"early", "end", "build"}
        BY <1>1, <1>3 DEF Sequel, Channels
    <2>2. Phase(u) = "open" => pc[u] \in {"publish", "opening"}
        BY DEF Phase
    <2> QED
        BY <1>7, <2>1, <2>2, PhaseOf
<1>9. Phase(g)' = "early" /\ Phase(g) = "rest"
    BY <1>3, <1>5, PhaseOf, PhaseNext
<1>10. retry[g] = 0 /\ count[g] = 0
    BY <1>2, <1>3, CountZero DEF Sequel, Tries
<1>11. Turns'
    BY <1>1, <1>2, <1>5, <1>8, <1>9, <1>10, TurnsMove DEF Sequel, Compatible
<1>12. Tries'
    BY <1>1, <1>2, <1>5, <1>9, <1>10, TriesMove DEF Sequel
<1>13. \A h \in Chans : ~Up(h)' /\ (st'[h] = "none" <=> st[h] = "none")
    BY <1>1, <1>3, <1>6 DEF Sequel, Channels, Up
<1>14. Halted'
    <2>1. running /\ pc[Main] # "asleep"
        BY <1>3 DEF Sequel, Halted, Over, ControlTypes
    <2>2. running' /\ pc'[Main] # "asleep"
        BY <1>1, <1>2, <1>5, <2>1, ThreadSets DEF Others
    <2> QED
        BY <2>2 DEF Halted
<1>15. Channels'
    <2>1. \A u \in Threads : pc'[u] \notin {"publish", "opening"} \cup Torn
        BY <1>5, <1>7 DEF Others, Torn
    <2>2. vc' = 0 \/ vc' \in Chans
        BY <1>1, <1>3
    <2> QED
        BY <1>1, <1>2, <1>5, <1>13, <2>1, <2>2, AllDown DEF Sequel
<1>16. Numbered'
    <2>1. \A h \in Chans : /\ st'[h] # "down" => st[h] # "down"
                           /\ pc'[h] = "rEpoch" => pc[h] = "rEpoch" \/ st[h] # "down"
        BY <1>1, <1>5, <1>6, ThreadSets DEF Others
    <2> QED
        BY <1>1, <1>13, <2>1, NumberedMove DEF Sequel
<1> QED
    BY <1>11, <1>12, <1>14, <1>15, <1>16 DEF Sequel

\* Whoever builds has joined the watchdog, and a joined watchdog has ended.
Built == {"tdClose", "tdForget", "tdRaw", "connect", "failed", "publish", "opening", "startWd"}
Joined ==
    /\ ~wdThread => wpc \in {"none", "exited"}
    /\ \A t \in Threads : pc[t] \in Built => ~wdThread

\* Whoever opens a channel finds the one it published, and whoever starts a
\* watchdog finds none.
LEMMA NobodyCrashes ==
    ASSUME ControlTypes, Sequel, Joined, NEW t \in Threads, Crashing(t)
    PROVE  FALSE
<1>1. CASE OpenCrashes(t)
    <2>1. pc[t] = "publish" /\ vc \notin {g \in Chans : st[g] = "new"}
        BY <1>1 DEF OpenCrashes
    <2>2. vc # 0 /\ st[vc] = "new"
        BY <2>1 DEF Sequel, Channels
    <2>3. vc \in Chans
        BY <2>2 DEF ControlTypes, Chans
    <2> QED
        BY <2>1, <2>2, <2>3
<1>2. CASE StartCrashes(t)
    BY <1>2 DEF StartCrashes, Joined, Built
<1> QED
    BY <1>1, <1>2 DEF Crashing

\* The control part of the invariant is inductive.
LEMMA ControlKept ==
    ASSUME Apart', Control, Joined, [Next]_vars
    PROVE  Control'
<1>1. ControlTypes /\ Sequel
    BY DEF Control, Sequel
<1>2. ControlTypes'
    <2>1. Retries
        BY DEF Control, Tries, Retries
    <2> QED
        BY <2>1, ControlTypesKept DEF Control
<1> SUFFICES Sequel'
    BY <1>2 DEF Control, Sequel
<1>3. ASSUME NEW t \in Threads,
             \/ StopFlag(t) \/ StopJoin(t) \/ TearClose(t) \/ TearForget(t)
             \/ Connect(t) \/ ConnectFails(t) \/ Publish(t)
             \/ OpenBegin(t) \/ OpenEnd(t) \/ StartWatchdog(t) \/ Crashing(t)
      PROVE  Sequel'
    <2>1. CASE StopFlag(t) \/ StopJoin(t)
        BY <1>1, <2>1, StopKeeps
    <2>2. CASE TearClose(t)
        BY <1>1, <2>2, TearCloseKeeps
    <2>3. CASE TearForget(t)
        BY <1>1, <2>3, TearForgetKeeps
    <2>4. CASE Connect(t)
        BY <1>1, <2>4, ConnectKeeps
    <2>5. CASE ConnectFails(t)
        BY <1>1, <2>5, ConnectFailsKeeps
    <2>6. CASE Publish(t)
        BY <1>1, <2>6, PublishKeeps
    <2>7. CASE OpenBegin(t) \/ OpenEnd(t)
        BY <1>1, <2>7, OpenKeeps
    <2>8. CASE StartWatchdog(t)
        BY <1>1, <2>8, StartWatchdogKeeps
    <2>9. CASE Crashing(t)
        BY <1>1, <2>9, NobodyCrashes
    <2> QED
        BY <1>3, <2>1, <2>2, <2>3, <2>4, <2>5, <2>6, <2>7, <2>8, <2>9
<1>4. CASE Start \/ StartFails \/ UdpBound \/ UdpFails \/ MainWakes \/ ForwardEnds
    <2>1. CASE Start \/ StartFails
        BY <1>1, <2>1, StartKeeps
    <2>2. CASE UdpBound \/ ForwardEnds
        BY <1>1, <2>2, UdpKeeps
    <2>3. CASE UdpFails
        BY <1>1, <2>3, UdpFailsKeeps
    <2>4. CASE MainWakes
        BY <1>1, <2>4, MainWakesKeeps
    <2> QED
        BY <1>4, <2>1, <2>2, <2>3, <2>4
<1>5. ASSUME NEW g \in Chans,
             \/ Callback(g) \/ ReconnectBegin(g) \/ ReconnectLoop(g) \/ ReconnectClose(g)
             \/ ReconnectClear(g) \/ ReconnectWakes(g) \/ ReconnectFailed(g)
             \/ StopBegin(g) \/ StopClose(g) \/ \E s \in DOMAIN conn[g] : Dies(g, s)
      PROVE  Sequel'
    <2>1. CASE Callback(g)
        BY <1>1, <2>1, CallbackKeeps
    <2>2. CASE ReconnectBegin(g)
        BY <1>1, <2>2, ReconnectBeginKeeps
    <2>3. CASE ReconnectLoop(g)
        BY <1>1, <2>3, ReconnectLoopKeeps
    <2>4. CASE ReconnectClose(g) \/ StopClose(g)
        BY <1>1, <2>4, ReconnectCloseKeeps
    <2>5. CASE ReconnectClear(g)
        BY <1>1, <2>5, ReconnectClearKeeps
    <2>6. CASE ReconnectWakes(g)
        BY <1>1, <2>6, ReconnectWakesKeeps
    <2>7. CASE ReconnectFailed(g)
        BY <1>1, <2>7, ReconnectFailedKeeps
    <2>8. CASE StopBegin(g)
        BY <1>1, <2>8, StopBeginKeeps
    <2>9. CASE \E s \in DOMAIN conn[g] : Dies(g, s)
        BY <1>1, <2>9, DiesKeeps
    <2> QED
        BY <1>5, <2>1, <2>2, <2>3, <2>4, <2>5, <2>6, <2>7, <2>8, <2>9
<1>6. CASE Watchdog \/ UNCHANGED coreVars
    <2>1. UNCHANGED <<pc, ret, count, retry, running, epoch, vc, st, target>>
        BY <1>6, WatchdogFrame DEF coreVars, threadVars, chanVars
    <2> QED
        BY <1>1, <2>1, SequelStays
<1> QED
    BY <1>3, <1>4, <1>5, <1>6, StepCases

\* Every client starts in turn.
LEMMA ControlInit ==
    ASSUME Init
    PROVE  Control
<1>1. /\ \A t \in Threads : pc[t] = IF t = Main THEN "start" ELSE "none"
      /\ \A t \in Threads : ret[t] = [join |-> "tdClose", down |-> "connect"]
      /\ \A t \in Threads : count[t] = 0 /\ retry[t] = 0 /\ target[t] = 0
      /\ \A g \in Chans : st[g] = "none"
      /\ running = FALSE /\ epoch = 0 /\ vc = 0
    BY DEF Init
<1>2. /\ Phase(Main) = "build" /\ \A g \in Chans : Phase(g) = "rest" /\ pc[g] = "none" /\ ~Up(g)
    BY <1>1, PhaseOf, ThreadSets DEF Up
<1>3. ControlTypes
    BY <1>1, ThreadSets DEF Init, ControlTypes, Labels, States, Pcs, MainPcs, ChanPcs
<1>4. Tries
    BY <1>1, <1>2, ThreadSets DEF Tries
<1>5. Turns
    BY <1>2 DEF Turns, Compatible, Threads
<1>6. Halted
    BY <1>1, <1>2, ThreadSets DEF Halted, Over
<1>7. Channels
    BY <1>1, <1>2, ThreadSets DEF Channels, Torn
<1>8. Numbered
    <2>1. Created = 1..0
        BY <1>1 DEF Created
    <2> QED
        BY <1>1, <1>2, <2>1 DEF Numbered, Chans
<1> QED
    BY <1>3, <1>4, <1>5, <1>6, <1>7, <1>8 DEF Control

------------------------------------------------------------------------------
(***************************************************************************)
(* The watchdog's thread object and the sockets.                           *)
(***************************************************************************)
DataTypes ==
    /\ wdRunning \in BOOLEAN /\ wdThread \in BOOLEAN
    /\ conn \in [Chans -> Seq(Sockets)] /\ live \in [Chans -> SUBSET Nat]
    /\ \A g \in Chans : Len(conn[g]) <= NConn /\ live[g] \subseteq DOMAIN conn[g]
    /\ socks \in Seq(Sockets) /\ Len(socks) <= NConn
    /\ made \in 0..MaxSockets /\ closes \in [Sockets -> 0..2]
    /\ wpc \in WPcs /\ wdead \subseteq 1..NConn /\ wslot \in 1..NConn
    /\ wsock \subseteq Sockets /\ wepoch \in 0..MaxVcs /\ wseen \in 0..MaxVcs

\* The watchdog repairs the dead slots of one channel, which is vc's or, once
\* released, nobody's.
Repairing == {"slots", "dial", "dialled", "bind", "splice", "replace"}
Holding == {"dialled", "bind", "splice", "replace"}
WdSlots ==
    /\ wpc \in Repairing =>
          /\ wseen \in Chans /\ vc \in {wseen, 0}
          /\ \A s \in wdead : s \in DOMAIN conn[wseen] /\ s \notin live[wseen]
    /\ wpc \in Holding \cup {"dial"} =>
          wslot \in DOMAIN conn[wseen] /\ wslot \notin live[wseen] /\ wslot \notin wdead
    /\ wpc = "replace" => vc # 0
    /\ wpc \in Holding => \E n \in Sockets : wsock = {n}
    /\ wpc \notin Holding => wsock = {}

\* Where a socket is: in tcpSockets, in a slot, in a connected slot.
InSocks(n) == \E i \in DOMAIN socks : socks[i] = n
InConn(n) == \E g \in Chans : \E s \in DOMAIN conn[g] : conn[g][s] = n
Owned(n) == \E g \in Chans : \E s \in live[g] : conn[g][s] = n

\* Each open socket is in one place, tcpSockets being the channel's own list.
Sharing ==
    /\ \A n \in Sockets : n > made => closes[n] = 0 /\ ~InSocks(n) /\ n \notin wsock /\ ~InConn(n)
    /\ \A g, h \in Chans : \A s \in live[g], r \in live[h] :
          conn[g][s] = conn[h][r] => g = h /\ s = r
    /\ \A i, j \in DOMAIN socks : socks[i] = socks[j] => i = j
    /\ \A n \in Sockets : Owned(n) => closes[n] = 0
    /\ \A n \in wsock : closes[n] = 0 /\ ~InSocks(n) /\ ~InConn(n)

\* tcpSockets belongs to no channel, or each of its open sockets is the channel's.
Raw == \A n \in Sockets : InSocks(n) => closes[n] = 0 /\ ~InConn(n)
Settled == \A n \in Sockets : InSocks(n) /\ closes[n] = 0 => Owned(n)
Clearing == \E t \in Threads : pc[t] \in {"tdForget", "rClear"}
Raws == IF vc = 0 /\ ~Clearing THEN Raw ELSE Settled

Filling ==
    /\ \A t \in Threads : /\ (Phase(t) = "early" /\ pc[t] \notin {"rClear", "rSleep"})
                                => vc # 0 \/ socks = <<>>
                          /\ pc[t] = "failed" => socks = <<>>
                          /\ pc[t] = "connect" => Len(socks) = count[t]
    /\ \A g \in Chans : st[g] = "none" => live[g] = {}

\* What ClosedOnce and NoLeak say of such a history.
OnceClosed == \A n \in Sockets : closes[n] <= 1
AllHeld == \A n \in 1..made : closes[n] = 0 => n \in Held

\* A channel has all its slots from its creation on.
Whole == \A g \in Chans : st[g] # "none" => Len(conn[g]) = NConn

Inv == /\ Control /\ Joined /\ DataTypes /\ WdSlots /\ Sharing /\ Raws /\ Filling /\ Whole
       /\ OnceClosed /\ AllHeld

\* What a step that touches neither sockets nor the watchdog leaves alone.
dataVars == <<conn, live, socks, made, closes, wpc, wdead, wslot, wepoch, wsock, wseen, vc, wdThread>>
Quiet(t) ==
    /\ Others(t) /\ UNCHANGED dataVars /\ wdRunning' \in {TRUE, FALSE, wdRunning}
    /\ pc[t] \notin {"tdForget", "rClear"}
    /\ pc'[t] \notin {"tdForget", "rClear", "connect", "failed"}
    /\ pc'[t] \in Built => pc[t] \in Built
    /\ \A g \in Chans : st'[g] = "none" => st[g] = "none"
    /\ (Phase(t)' = "early" /\ pc'[t] # "rSleep") =>
          \/ Phase(t) = "early" /\ pc[t] # "rSleep"
          \/ pc[t] = "failed" \/ vc # 0

\* A step to a label that is not about sockets.
LEMMA QuietIs ==
    ASSUME ControlTypes, NEW t \in Threads, NEW label, Moved(t, label),
           UNCHANGED dataVars, wdRunning' \in {TRUE, FALSE, wdRunning},
           \A g \in Chans : st'[g] = "none" => st[g] = "none",
           pc[t] \notin {"tdForget", "rClear"},
           label \notin {"tdForget", "tdRaw", "tdClose", "rClear", "connect", "failed", "publish", "rSleep"},
           label \in {"opening", "startWd"} => pc[t] \in Built,
           Phase(t)' = "early" => \/ Phase(t) = "early" /\ pc[t] # "rSleep"
                                  \/ pc[t] = "failed" \/ vc # 0
    PROVE  Quiet(t)
<1>1. Others(t) /\ pc'[t] = label
    BY MovedAlone
<1> QED
    BY <1>1 DEF Quiet, Built

\* StopWatchdog clears the flag and touches no data.
LEMMA QuietStop ==
    ASSUME ControlTypes, NEW t \in Threads, StopFlag(t)
    PROVE  Quiet(t)
<1>1. /\ pc[t] = "stopWd" /\ pc' = [pc EXCEPT ![t] = "joinWd"]
      /\ UNCHANGED <<ret, count, retry, st>> /\ UNCHANGED dataVars /\ wdRunning' = FALSE
    BY DEF StopFlag, Go, chanVars, sockVars, wdVars, dataVars
<1>2. Moved(t, "joinWd")
    BY <1>1 DEF Moved
<1>3. pc'[t] = "joinWd" /\ ret'[t] = ret[t]
    BY <1>1, <1>2, MovedAlone
<1>4. ret[t].join \in {"tdClose", "rLoop", "stopClose"}
    BY DEF ControlTypes, Labels
<1>5. Phase(t)' = Phase(t)
    BY <1>1, <1>3, <1>4, PhaseOf, PhaseNext
<1> QED
    BY <1>1, <1>2, <1>5, QuietIs

\* A call of TeardownVc.
LEMMA QuietCall ==
    ASSUME ControlTypes, NEW t \in Threads, NEW d,
           ret' = [ret EXCEPT ![t] = [join |-> "tdClose", down |-> d]],
           Moved(t, "stopWd"), UNCHANGED dataVars, UNCHANGED <<st, wdRunning>>,
           pc[t] \notin {"tdForget", "rClear"}
    PROVE  Quiet(t)
<1>1. pc'[t] = "stopWd" /\ ret'[t].join = "tdClose"
    BY MovedAlone DEF ControlTypes
<1>2. Phase(t)' = "build"
    BY <1>1, PhaseNext
<1> QED
    BY <1>2, QuietIs

\* The calls of TeardownVc touch no data.
LEMMA QuietMain ==
    ASSUME ControlTypes, NEW t \in Threads,
           \/ ConnectFails(t)
           \/ t = Main /\ (Start \/ StartFails \/ UdpFails)
           \/ (t \in Chans /\ ReconnectWakes(t))
    PROVE  Quiet(t)
<1>1. PICK d : /\ pc' = [pc EXCEPT ![t] = "stopWd"]
               /\ ret' = [ret EXCEPT ![t] = [join |-> "tdClose", down |-> d]]
    BY DEF ConnectFails, Start, StartFails, UdpFails, ReconnectWakes, CallTeardown, Go
<1>2. /\ UNCHANGED dataVars /\ UNCHANGED <<st, wdRunning, retry>>
      /\ pc[t] \in {"connect", "start", "failed", "udp", "rSleep"}
      /\ count' = count \/ \E n : count' = [count EXCEPT ![t] = n]
    BY DEF ConnectFails, Start, StartFails, UdpFails, ReconnectWakes, chanVars, sockVars, wdVars,
           dataVars
<1>3. Moved(t, "stopWd")
    BY <1>1, <1>2 DEF Moved
<1> QED
    BY <1>1, <1>2, <1>3, QuietCall

\* Main's own steps after the channel is open touch no data.
LEMMA QuietUdp ==
    ASSUME ControlTypes, UdpBound \/ MainWakes \/ ForwardEnds
    PROVE  Quiet(Main)
<1>1. PICK label \in {"forward", "start", "asleep"} : pc' = [pc EXCEPT ![Main] = label]
    BY DEF UdpBound, MainWakes, ForwardEnds, Go
<1>2. /\ UNCHANGED dataVars /\ UNCHANGED <<st, wdRunning, ret, count, retry>>
      /\ pc[Main] \in {"udp", "asleep", "forward"}
    BY DEF UdpBound, MainWakes, ForwardEnds, chanVars, sockVars, wdVars, dataVars
<1>3. Moved(Main, label)
    BY <1>1, <1>2 DEF Moved
<1>4. pc'[Main] = label
    BY <1>3, MovedAlone, ThreadSets
<1>5. Phase(Main)' # "early"
    BY <1>4, PhaseNext
<1> QED
    BY <1>1, <1>2, <1>3, <1>5, QuietIs, ThreadSets

\* open() touches no data.
LEMMA QuietOpen ==
    ASSUME ControlTypes, NEW t \in Threads, OpenBegin(t) \/ OpenEnd(t)
    PROVE  Quiet(t)
<1>1. PICK label \in {"opening", "startWd"} : pc' = [pc EXCEPT ![t] = label]
    BY DEF OpenBegin, OpenEnd, Go
<1>2. /\ UNCHANGED dataVars /\ UNCHANGED <<wdRunning, ret, count, retry>>
      /\ pc[t] \in {"publish", "opening"}
    BY DEF OpenBegin, OpenEnd, sockVars, wdVars, dataVars
<1>3. Moved(t, label)
    BY <1>1, <1>2 DEF Moved
<1>4. pc'[t] = label
    BY <1>3, MovedAlone
<1>5. Phase(t)' # "early"
    BY <1>4, PhaseNext
<1>6. \A g \in Chans : st'[g] = "none" => st[g] = "none"
    <2>1. CASE OpenBegin(t)
        BY <2>1 DEF OpenBegin, ControlTypes
    <2>2. CASE OpenEnd(t)
        BY <2>2 DEF OpenEnd, ControlTypes
    <2> QED
        BY <2>1, <2>2
<1>7. pc[t] \in Built
    BY <1>2 DEF Built
<1> QED
    BY <1>1, <1>2, <1>3, <1>5, <1>6, <1>7, QuietIs

\* The loop of ReconnectVC and the callback touch no data.
LEMMA QuietReconnect ==
    ASSUME ControlTypes, Sequel, NEW t \in Chans,
           ReconnectLoop(t) \/ ReconnectFailed(t) \/ StopClose(t) \/ Callback(t)
    PROVE  Quiet(t)
<1>0. t \in Threads
    BY ThreadSets
<1>1. PICK label \in {"rClose", "rLoop", "stop", "done", "rEpoch"} : pc' = [pc EXCEPT ![t] = label]
    BY DEF ReconnectLoop, ReconnectFailed, StopClose, Callback, Go
<1>2. /\ UNCHANGED <<ret, count>>
      /\ retry' = retry \/ \E n : retry' = [retry EXCEPT ![t] = n]
      /\ \/ pc[t] \in {"rLoop", "failed", "stopClose"}
         \/ st[t] = "dying" /\ st' = [st EXCEPT ![t] = "down"]
      /\ wdRunning' \in {TRUE, FALSE, wdRunning}
    BY DEF ReconnectLoop, ReconnectFailed, StopClose, Callback
<1>3. CASE StopClose(t)
    <2>1. pc[t] = "stopClose" /\ CloseVc /\ pc' = [pc EXCEPT ![t] = "done"]
        BY <1>3 DEF StopClose, Go
    <2>2. Phase(t) = "end"
        BY <2>1, PhaseOf
    <2>3. ~VcOpen
        BY <1>0, <2>2, EarlyAlone DEF VcOpen, Up
    <2>4. UNCHANGED dataVars /\ st' = st /\ UNCHANGED wdRunning
        BY <1>3, <2>1, <2>3 DEF StopClose, CloseVc, sockVars, wdVars, dataVars
    <2>5. Moved(t, "done")
        BY <1>2, <2>1 DEF Moved
    <2>6. Phase(t)' # "early"
        BY <1>0, <2>5, MovedAlone, PhaseNext
    <2> QED
        BY <1>0, <2>1, <2>4, <2>5, <2>6, QuietIs
<1>4. CASE Callback(t)
    <2>1. /\ st[t] = "dying" /\ st' = [st EXCEPT ![t] = "down"] /\ UNCHANGED dataVars
          /\ pc' = [pc EXCEPT ![t] = "rEpoch"]
        BY <1>4 DEF Callback, Go, sockVars, wdVars, dataVars
    <2>2. pc[t] = "none" /\ vc = t
        BY <2>1 DEF Sequel, Channels, Up
    <2>3. \A g \in Chans : st'[g] = "none" => st[g] = "none"
        BY <2>1 DEF ControlTypes
    <2>4. Moved(t, "rEpoch")
        BY <1>2, <2>1 DEF Moved
    <2> QED
        BY <1>0, <1>2, <2>1, <2>2, <2>3, <2>4, QuietIs, ThreadSets
<1>5. CASE ReconnectLoop(t) \/ ReconnectFailed(t)
    <2>1. UNCHANGED dataVars /\ UNCHANGED st /\ pc[t] \in {"rLoop", "failed"}
        BY <1>5 DEF ReconnectLoop, ReconnectFailed, chanVars, sockVars, wdVars, dataVars
    <2>2. Moved(t, label)
        BY <1>1, <1>2 DEF Moved
    <2>3. pc[t] = "rLoop" => Phase(t) = "early"
        BY PhaseOf
    <2> QED
        BY <1>0, <1>1, <1>2, <2>1, <2>2, <2>3, QuietIs
<1> QED
    BY <1>3, <1>4, <1>5

\* ReconnectVC and Stop begin with StopWatchdog and touch no data.
LEMMA QuietBegin ==
    ASSUME ControlTypes, NEW t \in Chans, ReconnectBegin(t) \/ StopBegin(t)
    PROVE  Quiet(t)
<1>0. t \in Threads
    BY ThreadSets
<1>1. /\ pc' = [pc EXCEPT ![t] = "stopWd"] /\ UNCHANGED <<st, wdRunning, count, retry>>
      /\ pc[t] \in {"rEpoch", "stop"} /\ UNCHANGED dataVars
    BY DEF ReconnectBegin, StopBegin, CallStopWatchdog, Go, chanVars, sockVars, wdVars, dataVars
<1>2. PICK j : ret' = [ret EXCEPT ![t].join = j] /\ (pc[t] = "stop" => j = "stopClose")
    BY DEF ReconnectBegin, StopBegin, CallStopWatchdog
<1>3. \E r : ret' = [ret EXCEPT ![t] = r]
    <2>1. ret' = [ret EXCEPT ![t] = [ret[t] EXCEPT !.join = j]]
        BY <1>2
    <2> QED
        BY <2>1
<1>4. Moved(t, "stopWd")
    BY <1>1, <1>3 DEF Moved
<1>5. pc'[t] = "stopWd" /\ ret'[t].join = j
    BY <1>0, <1>2, <1>4, MovedAlone DEF ControlTypes, Labels
<1>6. Phase(t)' = "early" => Phase(t) = "early"
    BY <1>1, <1>2, <1>5, PhaseOf, PhaseNext
<1> QED
    BY <1>0, <1>1, <1>4, <1>6, QuietIs

\* The steps of the client, seen from the sockets.
LEMMA DataCases ==
    ASSUME ControlTypes, Sequel, Joined, [Next]_vars
    PROVE  \/ \E t \in Threads : \/ Quiet(t) \/ StopJoin(t) \/ StartWatchdog(t)
                                 \/ TearClose(t) \/ TearForget(t) \/ Connect(t) \/ Publish(t)
           \/ \E g \in Chans : \/ ReconnectClose(g) \/ ReconnectClear(g)
                               \/ \E s \in DOMAIN conn[g] : Dies(g, s)
           \/ Watchdog \/ UNCHANGED coreVars
<1>1. ASSUME NEW t \in Threads, StopFlag(t) \/ ConnectFails(t) \/ OpenBegin(t) \/ OpenEnd(t)
      PROVE  Quiet(t)
    BY <1>1, QuietStop, QuietMain, QuietOpen
<1>2. CASE Start \/ StartFails \/ UdpBound \/ UdpFails \/ MainWakes \/ ForwardEnds
    <2>1. Quiet(Main)
        BY <1>2, QuietMain, QuietUdp, ThreadSets
    <2> QED
        BY <2>1, ThreadSets
<1>3. ASSUME NEW g \in Chans, \/ Callback(g) \/ ReconnectBegin(g) \/ ReconnectLoop(g)
                              \/ ReconnectWakes(g) \/ ReconnectFailed(g) \/ StopBegin(g)
                              \/ StopClose(g)
      PROVE  \E t \in Threads : Quiet(t)
    <2>1. Quiet(g)
        BY <1>3, QuietMain, QuietReconnect, QuietBegin, ThreadSets
    <2> QED
        BY <2>1, ThreadSets
<1> QED
    BY <1>1, <1>2, <1>3, NobodyCrashes, StepCases

------------------------------------------------------------------------------
\* The threads' steps that touch sockets or the watchdog's thread object.
LEMMA SocketMoves ==
    ASSUME ControlTypes, NEW t \in Threads,
           \/ StopJoin(t) \/ StartWatchdog(t) \/ TearClose(t) \/ TearForget(t) \/ Connect(t)
           \/ Publish(t) \/ (t \in Chans /\ (ReconnectClose(t) \/ ReconnectClear(t)))
    PROVE  Others(t)
<1>1. CASE StopJoin(t)
    BY <1>1, MovedAlone DEF StopJoin, Go, Moved
<1>2. CASE StartWatchdog(t)
    <2>1. \E label : Moved(t, label)
        BY <1>2 DEF StartWatchdog, Go, Moved
    <2> QED
        BY <2>1, MovedAlone
<1>3. CASE TearClose(t)
    <2>1. \E label : Moved(t, label)
        BY <1>3 DEF TearClose, Go, Moved
    <2> QED
        BY <2>1, MovedAlone
<1>4. CASE TearForget(t)
    BY <1>4, MovedAlone DEF TearForget, Go, Moved
<1>5. CASE Connect(t)
    <2>1. pc' = [pc EXCEPT ![t] = pc[t]]
        BY <1>5 DEF Connect, ControlTypes
    <2>2. Moved(t, pc[t])
        BY <1>5, <2>1 DEF Connect, Moved
    <2> QED
        BY <2>2, MovedAlone
<1>6. CASE Publish(t)
    BY <1>6, MovedAlone DEF Publish, Go, Moved
<1>7. CASE t \in Chans /\ ReconnectClose(t)
    BY <1>7, MovedAlone DEF ReconnectClose, Go, Moved
<1>8. CASE t \in Chans /\ ReconnectClear(t)
    <2>1. \E label : Moved(t, label)
        BY <1>8 DEF ReconnectClear, Go, Moved
    <2> QED
        BY <2>1, MovedAlone
<1> QED
    BY <1>1, <1>2, <1>3, <1>4, <1>5, <1>6, <1>7, <1>8

\* A watchdog that takes steps has not ended.
LEMMA WatchdogActs ==
    ASSUME Watchdog
    PROVE  wpc \notin {"none", "exited"}
BY DEF Watchdog, WatchdogWakes, WatchdogScan, SlotsDone, SlotBegin, SlotFails, SlotDials,
       SlotDrops, SlotGoesOn, SlotBinds, SlotChecks, SlotReplaced

\* A thread in one of the labels of Built is alone with the watchdog's thread object.
LEMMA BuiltPhase ==
    ASSUME NEW u, pc[u] \in Built
    PROVE  Phase(u) \in {"build", "open", "launch"}
BY PhaseOf DEF Built

\* A thread that builds has joined the watchdog, and stays alone with the data.
LEMMA JoinedKept ==
    ASSUME ControlTypes, Sequel, Joined, [Next]_vars
    PROVE  Joined'
<1>1. ASSUME NEW t \in Threads, Others(t), UNCHANGED <<wpc, wdThread>>,
             pc'[t] \in Built => pc[t] \in Built
      PROVE  Joined'
    BY <1>1 DEF Joined, Others
<1>2. ASSUME NEW t \in Threads, Quiet(t) PROVE Joined'
    BY <1>1, <1>2 DEF Quiet, dataVars
<1>3. ASSUME NEW t \in Threads, StopJoin(t) PROVE Joined'
    BY <1>3 DEF StopJoin, Joined, wdVars
<1>4. ASSUME NEW t \in Threads, StartWatchdog(t) PROVE Joined'
    <2>1. pc[t] = "startWd" /\ wdThread' = TRUE /\ pc'[t] \in {"udp", "done"}
        BY <1>4 DEF StartWatchdog, Go, ControlTypes
    <2>2. Others(t)
        BY <1>4, SocketMoves
    <2>3. \A u \in Threads \ {t} : Phase(u) \in {"rest", "early"}
        BY <2>1, PhaseOf DEF Sequel, Turns, Compatible
    <2>4. \A u \in Threads : pc'[u] \notin Built
        BY <2>1, <2>2, <2>3, BuiltPhase DEF Others, Built
    <2> QED
        BY <2>1, <2>4 DEF Joined
<1>5. ASSUME NEW t \in Threads, TearClose(t) \/ TearForget(t) \/ Connect(t) \/ Publish(t)
      PROVE  Joined'
    <2>1. pc[t] \in Built /\ UNCHANGED <<wpc, wdThread>>
        BY <1>5 DEF TearClose, TearForget, Connect, Publish, Built, wdVars
    <2>2. Others(t)
        BY <1>5, SocketMoves
    <2> QED
        BY <1>1, <2>1, <2>2
<1>6. ASSUME NEW g \in Chans, ReconnectClose(g) \/ ReconnectClear(g) PROVE Joined'
    <2>1. pc'[g] \in {"rClear", "rSleep", "stop"} /\ UNCHANGED <<wpc, wdThread>>
        BY <1>6, ThreadSets DEF ReconnectClose, ReconnectClear, Go, ControlTypes, wdVars
    <2>2. pc'[g] \notin Built /\ g \in Threads
        BY <2>1, ThreadSets DEF Built
    <2>3. Others(g)
        BY <1>6, <2>2, SocketMoves
    <2> QED
        BY <1>1, <2>1, <2>2, <2>3
<1>7. ASSUME NEW g \in Chans, NEW s, Dies(g, s) PROVE Joined'
    BY <1>7 DEF Dies, threadVars, wdVars, Joined
<1>8. CASE Watchdog
    BY <1>8, WatchdogActs, WatchdogFrame DEF Joined
<1>9. CASE UNCHANGED coreVars
    BY <1>9 DEF coreVars, threadVars, wdVars, Joined
<1> QED
    BY <1>2, <1>3, <1>4, <1>5, <1>6, <1>7, <1>8, <1>9, DataCases

\* SocketClose counts every socket of the set once, up to 2.
LEMMA ClosingTypes ==
    ASSUME DataTypes, NEW S
    PROVE  Closing(S) \in [Sockets -> 0..2]
BY DEF DataTypes, Closing

\* close() of vc only takes slots away.
LEMMA CloseVcData ==
    ASSUME DataTypes, CloseVc
    PROVE  /\ closes' \in [Sockets -> 0..2] /\ live' \in [Chans -> SUBSET Nat]
           /\ \A g \in Chans : live'[g] \subseteq live[g]
BY ClosingTypes DEF DataTypes, CloseVc

\* Replacing a socket in a sequence of sockets.
LEMMA ReplacedTypes ==
    ASSUME NEW q \in Seq(Sockets), NEW i, NEW n \in Sockets
    PROVE  LET p == [j \in DOMAIN q |-> IF j = i THEN n ELSE q[j]]
           IN  p \in Seq(Sockets) /\ Len(p) = Len(q) /\ DOMAIN p = DOMAIN q
OBVIOUS

\* Replacing one socket of a sequence keeps its length.
LEMMA ExceptTypes ==
    ASSUME NEW q \in Seq(Sockets), NEW i \in DOMAIN q, NEW n \in Sockets
    PROVE  LET p == [q EXCEPT ![i] = n]
           IN  p \in Seq(Sockets) /\ Len(p) = Len(q) /\ DOMAIN p = DOMAIN q
OBVIOUS

\* Of a channel whose slot is still dead, the slot is filled and nothing closed.
LEMMA ReplacedIs ==
    ASSUME DataTypes, WdSlots, SlotReplaced
    PROVE  /\ \E n \in wsock :
                 /\ conn' = [conn EXCEPT ![vc] = [conn[vc] EXCEPT ![wslot] = n]]
                 /\ socks' = [i \in DOMAIN socks |-> IF i = wslot THEN n ELSE socks[i]]
           /\ live' = [live EXCEPT ![vc] = live[vc] \cup {wslot}]
           /\ UNCHANGED closes
<1>1. PICK n \in wsock :
         /\ conn' = [conn EXCEPT ![vc] = [i \in DOMAIN conn[vc] |->
                                              IF i = wslot THEN n ELSE conn[vc][i]]]
         /\ socks' = [i \in DOMAIN socks |-> IF i = wslot THEN n ELSE socks[i]]
    BY DEF SlotReplaced
<1>2. /\ wpc = "replace"
      /\ live' = [live EXCEPT ![vc] = live[vc] \cup ({wslot} \cap DOMAIN conn[vc])]
      /\ closes' = Closing({conn[vc][s] : s \in live[vc] \cap {wslot}})
    BY DEF SlotReplaced
<1>3. vc \in Chans /\ wslot \in DOMAIN conn[vc] /\ wslot \notin live[vc]
    BY <1>2 DEF WdSlots, Repairing, Holding
<1>4. conn[vc] \in Seq(Sockets)
    BY <1>3 DEF DataTypes
<1>5. [i \in DOMAIN conn[vc] |-> IF i = wslot THEN n ELSE conn[vc][i]]
        = [conn[vc] EXCEPT ![wslot] = n]
    BY <1>3, <1>4
<1>6. {wslot} \cap DOMAIN conn[vc] = {wslot} /\ live[vc] \cap {wslot} = {}
    BY <1>3
<1>7. closes' = Closing({})
    <2>1. {conn[vc][s] : s \in live[vc] \cap {wslot}} = {}
        BY <1>6
    <2> QED
        BY <1>2, <2>1
<1>8. closes' = closes
    BY <1>7 DEF Closing, DataTypes
<1> QED
    BY <1>1, <1>2, <1>5, <1>6, <1>8

\* Every step keeps the types of the sockets' and the watchdog's variables.
LEMMA DataTypesKept ==
    ASSUME ControlTypes, Sequel, Joined, DataTypes, WdSlots, Filling, [Next]_vars
    PROVE  DataTypes'
<1>1. ASSUME NEW t \in Threads, Quiet(t) PROVE DataTypes'
    <2>1. UNCHANGED dataVars /\ wdRunning' \in BOOLEAN
        BY <1>1 DEF Quiet, DataTypes
    <2> QED
        BY <2>1 DEF DataTypes, dataVars
<1>2. ASSUME NEW t \in Threads, StopJoin(t) \/ StartWatchdog(t) PROVE DataTypes'
    <2>1. /\ UNCHANGED <<conn, live, socks, made, closes, wdead, wslot, wepoch, wsock, wseen>>
          /\ wpc' \in {wpc, "sleep"}
        BY <1>2 DEF StopJoin, StartWatchdog, chanVars, sockVars, wdVars
    <2>2. wdRunning' \in BOOLEAN /\ wdThread' \in BOOLEAN
        BY <1>2 DEF StopJoin, StartWatchdog, DataTypes
    <2> QED
        BY <2>1, <2>2 DEF DataTypes, WPcs
<1>3. ASSUME NEW t \in Threads, TearClose(t) \/ ReconnectClose(t) PROVE DataTypes'
    <2>1. UNCHANGED <<conn, socks, made, wpc, wdead, wslot, wepoch, wsock, wseen, wdRunning, wdThread>>
        BY <1>3 DEF TearClose, ReconnectClose, sockVars, wdVars
    <2>2. /\ closes' \in [Sockets -> 0..2] /\ live' \in [Chans -> SUBSET Nat]
          /\ \A g \in Chans : live'[g] \subseteq live[g]
        BY <1>3, CloseVcData DEF TearClose, ReconnectClose
    <2> QED
        BY <2>1, <2>2 DEF DataTypes
<1>4. ASSUME NEW t \in Threads, TearForget(t) \/ ReconnectClear(t) PROVE DataTypes'
    <2>1. UNCHANGED <<conn, live, made, wpc, wdead, wslot, wepoch, wsock, wseen, wdRunning, wdThread>>
        BY <1>4 DEF TearForget, ReconnectClear, chanVars, wdVars
    <2>2. closes' \in [Sockets -> 0..2]
        BY <1>4, ClosingTypes DEF TearForget, ReconnectClear, DataTypes
    <2>3. socks' = << >>
        BY <1>4 DEF TearForget, ReconnectClear
    <2>4. socks' \in Seq(Sockets) /\ Len(socks') <= NConn
        BY <2>3
    <2> QED
        BY <2>1, <2>2, <2>4 DEF DataTypes
<1>5. ASSUME NEW t \in Threads, Connect(t) PROVE DataTypes'
    <2>1. /\ UNCHANGED <<conn, live, closes, wpc, wdead, wslot, wepoch, wsock, wseen, wdRunning, wdThread>>
          /\ pc[t] = "connect" /\ count[t] < NConn /\ made < MaxSockets /\ made' = made + 1
          /\ socks' = Append(socks, made + 1)
        BY <1>5 DEF Connect, chanVars, wdVars
    <2>2. Len(socks) = count[t]
        BY <2>1 DEF Filling
    <2>3. made + 1 \in Sockets /\ made' \in 0..MaxSockets
        BY <2>1 DEF DataTypes, Sockets
    <2>4. socks' \in Seq(Sockets) /\ Len(socks') = Len(socks) + 1
        BY <2>1, <2>3 DEF DataTypes
    <2>5. Len(socks') <= NConn
        BY <2>1, <2>2, <2>4 DEF ControlTypes
    <2> QED
        BY <2>1, <2>3, <2>4, <2>5 DEF DataTypes
<1>6. ASSUME NEW t \in Threads, Publish(t) PROVE DataTypes'
    <2>1. PICK g \in Chans : /\ conn' = [conn EXCEPT ![g] = socks]
                             /\ live' = [live EXCEPT ![g] = DOMAIN socks]
        BY <1>6 DEF Publish
    <2>2. UNCHANGED <<socks, made, closes, wpc, wdead, wslot, wepoch, wsock, wseen, wdRunning, wdThread>>
        BY <1>6 DEF Publish, sockVars, wdVars
    <2>3. DOMAIN socks \in SUBSET Nat
        BY DEF DataTypes
    <2>4. conn' \in [Chans -> Seq(Sockets)] /\ live' \in [Chans -> SUBSET Nat]
        BY <2>1, <2>3 DEF DataTypes
    <2>5. \A h \in Chans : Len(conn'[h]) <= NConn /\ live'[h] \subseteq DOMAIN conn'[h]
        BY <2>1 DEF DataTypes
    <2> QED
        BY <2>2, <2>4, <2>5 DEF DataTypes
<1>7. ASSUME NEW g \in Chans, NEW s, Dies(g, s) PROVE DataTypes'
    <2>1. /\ UNCHANGED <<conn, socks, made, wpc, wdead, wslot, wepoch, wsock, wseen, wdRunning, wdThread>>
          /\ live' = [live EXCEPT ![g] = live[g] \ {s}] /\ closes' = Closing({conn[g][s]})
        BY <1>7 DEF Dies, sockVars, wdVars
    <2> QED
        BY <2>1, ClosingTypes DEF DataTypes
<1>8. CASE Watchdog
    <2>0. UNCHANGED <<wdRunning, wdThread, epoch, vc>>
        BY <1>8, WatchdogFrame
    <2>1. CASE WatchdogWakes \/ SlotFails \/ SlotGoesOn \/ SlotBinds \/ SlotChecks
        <3>1. UNCHANGED <<conn, live, socks, made, closes, wdead, wslot, wepoch, wsock, wseen>>
            BY <2>1 DEF WatchdogWakes, SlotFails, SlotGoesOn, SlotBinds, SlotChecks, chanVars, sockVars
        <3>2. wpc' \in WPcs
            BY <2>1 DEF WatchdogWakes, SlotFails, SlotGoesOn, SlotBinds, SlotChecks, WPcs
        <3> QED
            BY <2>0, <3>1, <3>2 DEF DataTypes
    <2>2. CASE WatchdogScan
        <3>1. /\ UNCHANGED <<conn, live, socks, made, closes, wslot, wepoch, wsock>>
              /\ wpc' \in {"slots", "sleep"}
              /\ \/ vc \in Chans /\ wdead' = DOMAIN conn[vc] \ live[vc] /\ wseen' = vc
                 \/ UNCHANGED <<wdead, wseen>>
            BY <2>2 DEF WatchdogScan, VcOpen, chanVars, sockVars
        <3>2. wdead' \subseteq 1..NConn
            <4>1. ASSUME vc \in Chans PROVE DOMAIN conn[vc] \subseteq 1..NConn
                <5>1. conn[vc] \in Seq(Sockets) /\ Len(conn[vc]) <= NConn
                    BY <4>1 DEF DataTypes
                <5> QED
                    BY <5>1
            <4> QED
                BY <3>1, <4>1 DEF DataTypes
        <3>3. wseen' \in 0..MaxVcs
            BY <3>1 DEF DataTypes, Chans
        <3> QED
            BY <2>0, <3>1, <3>2, <3>3 DEF DataTypes, WPcs
    <2>3. CASE SlotsDone
        BY <2>0, <2>3 DEF SlotsDone, DataTypes, WPcs, chanVars, sockVars
    <2>4. CASE SlotBegin
        <3>1. /\ UNCHANGED <<conn, live, socks, made, closes, wsock, wseen>> /\ wpc' = "dial"
              /\ wdead' \subseteq wdead /\ wepoch' = epoch
            BY <2>4 DEF SlotBegin, chanVars, sockVars
        <3>2. wslot' \in wdead
            BY <2>4 DEF SlotBegin
        <3>3. epoch \in 0..MaxVcs
            BY DEF Sequel, Numbered
        <3> QED
            BY <2>0, <3>1, <3>2, <3>3 DEF DataTypes, WPcs
    <2>5. CASE SlotDials
        <3>1. /\ UNCHANGED <<conn, live, socks, closes, wdead, wslot, wepoch, wseen>>
              /\ made < MaxSockets /\ made' = made + 1 /\ wsock' = {made + 1} /\ wpc' = "dialled"
            BY <2>5 DEF SlotDials, chanVars
        <3>2. made' \in 0..MaxSockets /\ made + 1 \in Sockets
            BY <3>1 DEF DataTypes, Sockets
        <3> QED
            BY <2>0, <3>1, <3>2 DEF DataTypes, WPcs
    <2>6. CASE SlotDrops
        <3>1. /\ UNCHANGED <<conn, live, socks, made, wdead, wslot, wepoch, wseen>>
              /\ closes' = Closing(wsock) /\ wsock' = {} /\ wpc' = "slots"
            BY <2>6 DEF SlotDrops, chanVars, sockVars
        <3> QED
            BY <2>0, <3>1, ClosingTypes DEF DataTypes, WPcs
    <2>7. CASE SlotReplaced
        <3>1. PICK n \in wsock : /\ conn' = [conn EXCEPT ![vc] = [conn[vc] EXCEPT ![wslot] = n]]
                                 /\ socks' = [i \in DOMAIN socks |-> IF i = wslot THEN n ELSE socks[i]]
            BY <2>7, ReplacedIs
        <3>2. /\ UNCHANGED <<made, closes, wdead, wslot, wepoch, wseen>> /\ wsock' = {}
              /\ wpc = "replace" /\ wpc' = "slots"
              /\ live' = [live EXCEPT ![vc] = live[vc] \cup {wslot}]
            BY <2>7, ReplacedIs DEF SlotReplaced
        <3>3. vc \in Chans /\ wslot \in DOMAIN conn[vc]
            BY <3>2 DEF WdSlots, Repairing, Holding
        <3>4. n \in Sockets /\ socks \in Seq(Sockets) /\ conn[vc] \in Seq(Sockets)
            BY <3>1, <3>3 DEF DataTypes
        <3>5. socks' \in Seq(Sockets) /\ Len(socks') = Len(socks)
            BY <3>1, <3>4, ReplacedTypes
        <3>6. PICK q : q = [conn[vc] EXCEPT ![wslot] = n]
            OBVIOUS
        <3>7. q \in Seq(Sockets) /\ Len(q) = Len(conn[vc]) /\ DOMAIN q = DOMAIN conn[vc]
            BY <3>3, <3>4, <3>6, ExceptTypes
        <3>8. conn' = [conn EXCEPT ![vc] = q]
            BY <3>1, <3>6
        <3>9. conn' \in [Chans -> Seq(Sockets)]
            BY <3>7, <3>8 DEF DataTypes
        <3>10. wslot \in Nat
            BY DEF DataTypes
        <3>11. live' \in [Chans -> SUBSET Nat]
            BY <3>2, <3>3, <3>10 DEF DataTypes
        <3>12. \A h \in Chans : Len(conn'[h]) <= NConn /\ live'[h] \subseteq DOMAIN conn'[h]
            BY <3>2, <3>3, <3>7, <3>8 DEF DataTypes
        <3> QED
            BY <2>0, <3>2, <3>5, <3>9, <3>11, <3>12 DEF DataTypes, WPcs
    <2> QED
        BY <1>8, <2>1, <2>2, <2>3, <2>4, <2>5, <2>6, <2>7 DEF Watchdog
<1>9. CASE UNCHANGED coreVars
    BY <1>9 DEF coreVars, threadVars, chanVars, sockVars, wdVars, DataTypes
<1> QED
    BY <1>1, <1>2, <1>3, <1>4, <1>5, <1>6, <1>7, <1>8, <1>9, DataCases, ThreadSets

\* What the watchdog knows stays true while it works.
LEMMA WdSlotsKept ==
    ASSUME ControlTypes, Sequel, Joined, DataTypes, WdSlots, [Next]_vars
    PROVE  WdSlots'
<1> USE DEF Repairing, Holding
<1>1. ASSUME UNCHANGED <<conn, wpc, wdead, wslot, wsock, wseen>>, vc' \in {0, vc},
             \A g \in Chans : live'[g] \subseteq live[g], wpc # "replace" \/ vc' = vc
      PROVE  WdSlots'
    BY <1>1 DEF WdSlots
<1>2. ASSUME NEW t \in Threads, Quiet(t) PROVE WdSlots'
    BY <1>1, <1>2 DEF Quiet, dataVars
<1>3. ASSUME NEW t \in Threads, StopJoin(t) \/ TearForget(t) \/ Connect(t) \/ ReconnectClear(t)
      PROVE  WdSlots'
    <2>1. UNCHANGED <<conn, wpc, wdead, wslot, wsock, wseen, vc, live>>
        BY <1>3 DEF StopJoin, TearForget, Connect, ReconnectClear, chanVars, wdVars
    <2> QED
        BY <1>1, <2>1
<1>4. ASSUME NEW t \in Threads, StartWatchdog(t) PROVE WdSlots'
    <2>1. wpc' = "sleep" /\ wsock' = wsock /\ pc[t] = "startWd"
        BY <1>4 DEF StartWatchdog
    <2>2. wpc \in {"none", "exited"}
        BY <2>1 DEF Joined, Built
    <2> QED
        BY <2>1, <2>2 DEF WdSlots
<1>5. ASSUME NEW t \in Threads, TearClose(t) \/ ReconnectClose(t) PROVE WdSlots'
    <2>1. UNCHANGED <<conn, wpc, wdead, wslot, wsock, wseen>> /\ vc' = 0 /\ wpc # "replace"
        BY <1>5 DEF TearClose, ReconnectClose, VcFree, wdVars
    <2>2. \A g \in Chans : live'[g] \subseteq live[g]
        BY <1>5, CloseVcData DEF TearClose, ReconnectClose
    <2> QED
        BY <1>1, <2>1, <2>2
<1>6. ASSUME NEW t \in Threads, Publish(t) PROVE WdSlots'
    <2>1. pc[t] = "connect" /\ UNCHANGED <<wpc, wsock>>
        BY <1>6 DEF Publish, wdVars
    <2>2. wpc \in {"none", "exited"}
        BY <2>1 DEF Joined, Built
    <2> QED
        BY <2>1, <2>2 DEF WdSlots
<1>7. ASSUME NEW g \in Chans, NEW s, Dies(g, s) PROVE WdSlots'
    <2>1. /\ UNCHANGED <<conn, wpc, wdead, wslot, wsock, wseen, vc>>
          /\ live' = [live EXCEPT ![g] = live[g] \ {s}]
        BY <1>7 DEF Dies, wdVars
    <2>2. \A h \in Chans : live'[h] \subseteq live[h]
        BY <2>1 DEF DataTypes
    <2> QED
        BY <1>1, <2>1, <2>2
<1>8. CASE Watchdog
    <2>0. UNCHANGED vc
        BY <1>8, WatchdogFrame
    <2>1. CASE WatchdogWakes
        BY <2>0, <2>1 DEF WatchdogWakes, WdSlots, chanVars
    <2>2. CASE WatchdogScan
        <3>1. wsock' = wsock /\ UNCHANGED <<conn, live>> /\ wpc = "scan"
            BY <2>2 DEF WatchdogScan, chanVars
        <3>2. CASE VcOpen
            <4>1. wdead' = DOMAIN conn[vc] \ live[vc] /\ wseen' = vc /\ wpc' = "slots" /\ vc \in Chans
                BY <2>2, <3>2 DEF WatchdogScan, VcOpen
            <4> QED
                BY <2>0, <3>1, <4>1 DEF WdSlots
        <3>3. CASE ~VcOpen
            <4>1. wpc' = "sleep"
                BY <2>2, <3>3 DEF WatchdogScan
            <4> QED
                BY <3>1, <4>1 DEF WdSlots
        <3> QED
            BY <3>2, <3>3
    <2>3. CASE SlotsDone
        BY <2>0, <2>3 DEF SlotsDone, WdSlots
    <2>4. CASE SlotBegin
        <3>1. /\ UNCHANGED <<conn, live, wsock, wseen>> /\ wpc = "slots" /\ wpc' = "dial"
              /\ wdead' = wdead \ {wslot'}
            BY <2>4 DEF SlotBegin, chanVars
        <3>2. wslot' \in wdead
            BY <2>4 DEF SlotBegin
        <3> QED
            BY <2>0, <3>1, <3>2 DEF WdSlots
    <2>5. CASE SlotFails \/ SlotGoesOn \/ SlotBinds
        BY <2>0, <2>5 DEF SlotFails, SlotGoesOn, SlotBinds, WdSlots, chanVars
    <2>6. CASE SlotChecks
        <3>1. vc # 0
            BY <2>6, ThreadSets DEF SlotChecks, VcOpen
        <3> QED
            BY <2>0, <2>6, <3>1 DEF SlotChecks, WdSlots, chanVars
    <2>7. CASE SlotDials
        <3>1. made + 1 \in Sockets
            BY <2>7 DEF SlotDials, DataTypes, Sockets
        <3> QED
            BY <2>0, <2>7, <3>1 DEF SlotDials, WdSlots, chanVars
    <2>8. CASE SlotDrops
        BY <2>0, <2>8 DEF SlotDrops, WdSlots, chanVars
    <2>9. CASE SlotReplaced
        <3>1. /\ wpc = "replace" /\ wpc' = "slots" /\ wsock' = {} /\ UNCHANGED <<wdead, wseen, wslot>>
              /\ live' = [live EXCEPT ![vc] = live[vc] \cup {wslot}]
            BY <2>9, ReplacedIs DEF SlotReplaced
        <3>2. PICK n : conn' = [conn EXCEPT ![vc] = [conn[vc] EXCEPT ![wslot] = n]]
            BY <2>9, ReplacedIs
        <3>3. vc \in Chans /\ vc = wseen /\ wslot \notin wdead
            BY <3>1 DEF WdSlots
        <3>4. DOMAIN conn'[vc] = DOMAIN conn[vc] /\ live'[vc] = live[vc] \cup {wslot}
            BY <3>1, <3>2, <3>3 DEF DataTypes
        <3> QED
            BY <2>0, <3>1, <3>3, <3>4 DEF WdSlots
    <2> QED
        BY <1>8, <2>1, <2>2, <2>3, <2>4, <2>5, <2>6, <2>7, <2>8, <2>9 DEF Watchdog
<1>9. CASE UNCHANGED coreVars
    BY <1>1, <1>9 DEF coreVars, chanVars, wdVars
<1> QED
    BY <1>2, <1>3, <1>4, <1>5, <1>6, <1>7, <1>8, <1>9, DataCases, ThreadSets

\* How full tcpSockets is, at the labels where it matters.
LEMMA FillingKept ==
    ASSUME ControlTypes, Sequel, Joined, DataTypes, WdSlots, Filling, [Next]_vars
    PROVE  Filling'
<1>1. ASSUME NEW t \in Threads, Others(t), UNCHANGED <<socks, vc>>,
             pc'[t] \notin {"connect", "failed"},
             (Phase(t)' = "early" /\ pc'[t] \notin {"rClear", "rSleep"}) => vc # 0 \/ socks = <<>>,
             \A g \in Chans : st'[g] = "none" => st[g] = "none" /\ live'[g] \subseteq live[g]
      PROVE  Filling'
    BY <1>1 DEF Filling, Others
<1>2. ASSUME NEW t \in Threads, Quiet(t) PROVE Filling'
    <2>1. (Phase(t)' = "early" /\ pc'[t] \notin {"rClear", "rSleep"}) => vc # 0 \/ socks = <<>>
        BY <1>2 DEF Quiet, Filling
    <2> QED
        BY <1>1, <1>2, <2>1 DEF Quiet, dataVars
<1>3. ASSUME NEW t \in Threads, StopJoin(t) PROVE Filling'
    <2>1. /\ pc[t] = "joinWd" /\ pc'[t] = ret[t].join /\ ret' = ret
          /\ UNCHANGED <<socks, vc, st, live>>
        BY <1>3 DEF StopJoin, Go, chanVars, sockVars, ControlTypes
    <2>2. ret[t].join \in {"tdClose", "rLoop", "stopClose"}
        BY DEF ControlTypes, Labels
    <2>3. Phase(t)' = Phase(t)
        BY <2>1, <2>2, PhaseOf, PhaseNext
    <2>4. (Phase(t)' = "early" /\ pc'[t] \notin {"rClear", "rSleep"}) => vc # 0 \/ socks = <<>>
        BY <2>1, <2>3 DEF Filling
    <2>5. Others(t) /\ pc'[t] \notin {"connect", "failed"}
        BY <1>3, <2>1, <2>2, SocketMoves
    <2> QED
        BY <1>1, <2>1, <2>4, <2>5
<1>4. ASSUME NEW t \in Threads, StartWatchdog(t) PROVE Filling'
    <2>1. pc'[t] \in {"udp", "done"} /\ UNCHANGED <<socks, vc, st, live>>
        BY <1>4 DEF StartWatchdog, Go, chanVars, sockVars, ControlTypes
    <2>2. Others(t) /\ Phase(t)' # "early"
        BY <1>4, <2>1, SocketMoves, PhaseNext
    <2> QED
        BY <1>1, <2>1, <2>2
<1>5. ASSUME NEW t \in Threads, TearClose(t) PROVE Filling'
    <2>1. pc[t] = "tdClose" /\ pc'[t] \in {"tdForget", "tdRaw"} /\ CloseVc /\ socks' = socks
        BY <1>5 DEF TearClose, Go, ControlTypes, sockVars
    <2>2. Others(t) /\ Phase(t)' = "build" /\ Phase(t) = "build"
        BY <1>5, <2>1, SocketMoves, PhaseOf, PhaseNext
    <2>3. \A u \in Threads \ {t} : Phase(u)' = "rest"
        BY <2>2, Alone DEF Sequel, Others
    <2>4. \A u \in Threads : Phase(u)' # "early" /\ pc'[u] \notin {"connect", "failed"}
        BY <2>1, <2>2, <2>3, PhaseNext
    <2>5. \A g \in Chans : st'[g] = "none" => st[g] = "none" /\ live'[g] \subseteq live[g]
        BY <2>1, CloseVcStates, CloseVcData DEF ClosesVc
    <2> QED
        BY <2>4, <2>5 DEF Filling
<1>6. ASSUME NEW t \in Threads, TearForget(t) PROVE Filling'
    <2>1. /\ pc[t] \in {"tdForget", "tdRaw"} /\ UNCHANGED <<st, live, count>> /\ socks' = <<>>
        BY <1>6 DEF TearForget, chanVars
    <2>2. count[t] = 0
        BY <2>1, CountZero
    <2>3. \A u \in Threads \ {t} : Phase(u)' = "rest"
        BY <1>6, <2>1, SocketMoves, PhaseOf, Alone DEF Sequel, Others
    <2>4. \A u \in Threads \ {t} : pc'[u] # "connect"
        BY <2>3, PhaseNext
    <2> QED
        BY <2>1, <2>2, <2>4 DEF Filling
<1>7. ASSUME NEW g \in Chans, ReconnectClose(g) \/ ReconnectClear(g) PROVE Filling'
    <2>0. g \in Threads
        BY ThreadSets
    <2>1. /\ pc[g] \in {"rClose", "rClear"} /\ pc'[g] \in {"rClear", "rSleep", "stop"}
        BY <1>7, <2>0 DEF ReconnectClose, ReconnectClear, Go, ControlTypes
    <2>2. Others(g) /\ Phase(g) = "early" /\ (Phase(g)' = "early" => pc'[g] \in {"rClear", "rSleep"})
        BY <1>7, <2>0, <2>1, SocketMoves, PhaseOf, PhaseNext
    <2>3. \A u \in Threads \ {g} : Phase(u)' \in {"rest", "launch"}
        BY <2>0, <2>2 DEF Sequel, Turns, Compatible, Others
    <2>4. \A u \in Threads : pc'[u] \notin {"connect", "failed"}
        BY <2>1, <2>3, PhaseNext
    <2>5. \A h \in Chans : st'[h] = "none" => st[h] = "none" /\ live'[h] \subseteq live[h]
        BY <1>7, CloseVcStates, CloseVcData DEF ClosesVc, ReconnectClose, ReconnectClear, chanVars
    <2> QED
        BY <2>2, <2>3, <2>4, <2>5 DEF Filling
<1>8. ASSUME NEW t \in Threads, Connect(t) PROVE Filling'
    <2>1. /\ pc[t] = "connect" /\ UNCHANGED <<pc, vc, st, live>> /\ socks' = Append(socks, made + 1)
          /\ count' = [count EXCEPT ![t] = count[t] + 1]
        BY <1>8 DEF Connect, chanVars
    <2>2. Others(t) /\ Phase(t) = "build" /\ Phase(t)' = "build"
        BY <1>8, <2>1, SocketMoves, PhaseOf, PhaseNext
    <2>3. \A u \in Threads \ {t} : Phase(u)' = "rest"
        BY <2>2, Alone DEF Sequel, Others
    <2>4. \A u \in Threads : Phase(u)' # "early" /\ pc'[u] # "failed" /\ (pc'[u] = "connect" => u = t)
        BY <2>1, <2>2, <2>3, PhaseNext
    <2>5. Len(socks') = Len(socks) + 1
        BY <2>1 DEF DataTypes
    <2>6. Len(socks') = count'[t]
        BY <2>1, <2>5 DEF Filling, ControlTypes
    <2> QED
        BY <2>1, <2>4, <2>6 DEF Filling
<1>9. ASSUME NEW t \in Threads, Publish(t) PROVE Filling'
    <2>1. PICK g \in Chans : /\ st' = [st EXCEPT ![g] = "new"]
                             /\ live' = [live EXCEPT ![g] = DOMAIN socks]
        BY <1>9 DEF Publish
    <2>2. pc[t] = "connect" /\ pc'[t] = "publish"
        BY <1>9 DEF Publish, Go, ControlTypes
    <2>3. Others(t) /\ Phase(t) = "build" /\ Phase(t)' = "open"
        BY <1>9, <2>2, SocketMoves, PhaseOf, PhaseNext
    <2>4. \A u \in Threads \ {t} : Phase(u)' = "rest"
        BY <2>3, Alone DEF Sequel, Others
    <2>5. \A u \in Threads : Phase(u)' # "early" /\ pc'[u] \notin {"connect", "failed"}
        BY <2>2, <2>3, <2>4, PhaseNext
    <2>6. \A h \in Chans : st'[h] = "none" => live'[h] = {}
        BY <2>1 DEF Filling, ControlTypes, DataTypes
    <2> QED
        BY <2>5, <2>6 DEF Filling
<1>10. ASSUME NEW g \in Chans, NEW s, Dies(g, s) PROVE Filling'
    <2>1. /\ UNCHANGED <<pc, ret, count, vc, socks>> /\ live' = [live EXCEPT ![g] = live[g] \ {s}]
          /\ st[g] # "none" /\ \E w : st' = [st EXCEPT ![g] = w]
        BY <1>10 DEF Dies, threadVars, sockVars
    <2>2. \A h \in Chans : st'[h] = "none" => live'[h] = {}
        <3> SUFFICES ASSUME NEW h \in Chans, st'[h] = "none" PROVE live'[h] = {}
            OBVIOUS
        <3>1. h # g
            BY <1>10 DEF Dies, ControlTypes
        <3> QED
            BY <2>1, <3>1 DEF Filling, ControlTypes, DataTypes
    <2>3. \A u \in Threads : Phase(u)' = Phase(u)
        BY <2>1, PhaseStays
    <2> QED
        BY <2>1, <2>2, <2>3 DEF Filling
<1>11. CASE Watchdog
    <2>1. UNCHANGED <<pc, ret, count, vc, st>>
        BY <1>11, WatchdogFrame
    <2>2. \A u \in Threads : Phase(u)' = Phase(u)
        BY <2>1, PhaseStays
    <2>3. CASE SlotReplaced
        <3>1. wpc = "replace" /\ live' = [live EXCEPT ![vc] = live[vc] \cup {wslot}]
            BY <2>3, ReplacedIs DEF SlotReplaced
        <3>2. wdThread /\ vc # 0
            BY <3>1 DEF Joined, WdSlots
        <3>3. \A u \in Threads : pc[u] \notin {"connect", "failed"}
            BY <3>2 DEF Joined, Built
        <3>4. st[vc] # "none"
            BY <3>2 DEF Sequel, Channels
        <3>5. \A h \in Chans : st'[h] = "none" => live'[h] = {}
            BY <2>1, <3>1, <3>4 DEF Filling, DataTypes
        <3> QED
            BY <2>1, <2>2, <3>2, <3>3, <3>5 DEF Filling
    <2>4. CASE ~SlotReplaced
        <3>1. UNCHANGED <<socks, live>>
            BY <1>11, <2>4 DEF Watchdog, WatchdogWakes, WatchdogScan, SlotsDone, SlotBegin, SlotFails,
               SlotDials, SlotDrops, SlotGoesOn, SlotBinds, SlotChecks, chanVars, sockVars
        <3> QED
            BY <2>1, <2>2, <3>1 DEF Filling
    <2> QED
        BY <2>3, <2>4
<1>12. CASE UNCHANGED coreVars
    <2>1. UNCHANGED <<pc, ret, count, vc, st, socks, live>>
        BY <1>12 DEF coreVars, threadVars, chanVars, sockVars
    <2>2. \A u \in Threads : Phase(u)' = Phase(u)
        BY <2>1, PhaseStays
    <2> QED
        BY <2>1, <2>2 DEF Filling
<1> QED
    BY <1>2, <1>3, <1>4, <1>5, <1>6, <1>7, <1>8, <1>9, <1>10, <1>11, <1>12, DataCases, ThreadSets

\* No step but Publish makes a channel.
LEMMA CreatedStay ==
    ASSUME ControlTypes, Sequel, [Next]_vars, \A t \in Threads : ~Publish(t), NEW g \in Chans,
           st[g] = "none"
    PROVE  st'[g] = "none"
<1> USE DEF ControlTypes
<1>1. ASSUME NEW t \in Threads, OpenBegin(t) PROVE st'[g] = "none"
    BY <1>1 DEF OpenBegin
<1>2. ASSUME NEW t \in Threads, OpenEnd(t) PROVE st'[g] = "none"
    <2>1. target[t] # g
        BY <1>2 DEF OpenEnd, Sequel, Channels
    <2> QED
        BY <1>2, <2>1 DEF OpenEnd
<1>3. ASSUME CloseVc PROVE st'[g] = "none"
    BY <1>3 DEF CloseVc, VcOpen
<1>4. ASSUME NEW h \in Chans, NEW s, Dies(h, s) PROVE st'[g] = "none"
    BY <1>4 DEF Dies
<1>5. ASSUME NEW h \in Chans, Callback(h) PROVE st'[g] = "none"
    BY <1>5 DEF Callback
<1>6. ASSUME NEW t \in Threads, \/ TearClose(t) \/ ReconnectClose(t) \/ StopClose(t)
      PROVE  st'[g] = "none"
    BY <1>3, <1>6 DEF TearClose, ReconnectClose, StopClose
<1>7. ASSUME NEW t \in Threads, \/ StopFlag(t) \/ StopJoin(t) \/ TearForget(t) \/ Connect(t)
                               \/ ConnectFails(t) \/ StartWatchdog(t) \/ Crashing(t)
      PROVE  st'[g] = "none"
    BY <1>7 DEF StopFlag, StopJoin, TearForget, Connect, ConnectFails, StartWatchdog, Crashing,
       OpenCrashes, StartCrashes, chanVars
<1>8. CASE Start \/ StartFails \/ UdpBound \/ UdpFails \/ MainWakes \/ ForwardEnds
    BY <1>8 DEF Start, StartFails, UdpBound, UdpFails, MainWakes, ForwardEnds, chanVars
<1>9. ASSUME NEW t \in Threads, \/ ReconnectBegin(t) \/ ReconnectLoop(t) \/ ReconnectClear(t)
                               \/ ReconnectWakes(t) \/ ReconnectFailed(t) \/ StopBegin(t)
      PROVE  st'[g] = "none"
    BY <1>9 DEF ReconnectBegin, ReconnectLoop, ReconnectClear, ReconnectWakes, ReconnectFailed,
       StopBegin, chanVars
<1>10. CASE Watchdog \/ UNCHANGED coreVars
    BY <1>10, WatchdogFrame DEF coreVars, chanVars
<1> QED
    BY <1>1, <1>2, <1>4, <1>5, <1>6, <1>7, <1>8, <1>9, <1>10, StepCases, ThreadSets

\* The channel gets the sockets that PrepareVC's loop has counted.
LEMMA WholeKept ==
    ASSUME ControlTypes, Sequel, Joined, DataTypes, WdSlots, Filling, Whole, [Next]_vars
    PROVE  Whole'
<1>1. ASSUME NEW t \in Threads, Publish(t) PROVE Whole'
    <2>1. PICK g \in Chans : /\ conn' = [conn EXCEPT ![g] = socks]
                             /\ st' = [st EXCEPT ![g] = "new"]
        BY <1>1 DEF Publish
    <2>2. Len(socks) = NConn
        BY <1>1 DEF Publish, Filling
    <2> QED
        BY <2>1, <2>2 DEF Whole, DataTypes, ControlTypes
<1>2. ASSUME \A g \in Chans : Len(conn'[g]) = Len(conn[g]), \A t \in Threads : ~Publish(t)
      PROVE  Whole'
    <2>1. \A g \in Chans : st[g] = "none" => st'[g] = "none"
        BY <1>2, CreatedStay
    <2> QED
        BY <1>2, <2>1 DEF Whole
<1>3. ASSUME SlotReplaced PROVE \A g \in Chans : Len(conn'[g]) = Len(conn[g])
    <2>1. PICK n \in wsock : conn' = [conn EXCEPT ![vc] = [conn[vc] EXCEPT ![wslot] = n]]
        BY <1>3, ReplacedIs
    <2>2. vc \in Chans /\ wslot \in DOMAIN conn[vc]
        BY <1>3 DEF SlotReplaced, WdSlots, Repairing, Holding
    <2>3. n \in Sockets /\ conn[vc] \in Seq(Sockets)
        BY <2>1, <2>2 DEF DataTypes
    <2>4. PICK q : q = [conn[vc] EXCEPT ![wslot] = n]
        OBVIOUS
    <2>5. Len(q) = Len(conn[vc])
        BY <2>2, <2>3, <2>4, ExceptTypes
    <2>6. conn' = [conn EXCEPT ![vc] = q]
        BY <2>1, <2>4
    <2> QED
        BY <2>5, <2>6 DEF DataTypes
<1>4. ASSUME Watchdog, ~SlotReplaced PROVE UNCHANGED conn
    BY <1>4 DEF Watchdog, WatchdogWakes, WatchdogScan, SlotsDone, SlotBegin, SlotFails,
       SlotDials, SlotDrops, SlotGoesOn, SlotBinds, SlotChecks, chanVars
<1>5. ASSUME NEW t \in Threads, \/ Quiet(t) \/ StopJoin(t) \/ StartWatchdog(t) \/ TearClose(t)
                               \/ TearForget(t) \/ Connect(t) \/ ReconnectClose(t)
                               \/ ReconnectClear(t)
      PROVE  UNCHANGED conn
    BY <1>5 DEF Quiet, dataVars, StopJoin, StartWatchdog, TearClose, TearForget, Connect,
       ReconnectClose, ReconnectClear, chanVars
<1>6. ASSUME NEW g \in Chans, NEW s, Dies(g, s) PROVE UNCHANGED conn
    BY <1>6 DEF Dies
<1>7. UNCHANGED coreVars => UNCHANGED conn
    BY DEF coreVars, chanVars
<1>8. CASE \A t \in Threads : ~Publish(t)
    <2>1. \A g \in Chans : Len(conn'[g]) = Len(conn[g])
        BY <1>3, <1>4, <1>5, <1>6, <1>7, <1>8, DataCases, ThreadSets
    <2> QED
        BY <1>2, <1>8, <2>1
<1> QED
    BY <1>1, <1>8

------------------------------------------------------------------------------
(***************************************************************************)
(* Custody: every socket that is open is in somebody's hands, once.        *)
(***************************************************************************)
Custody == Sharing /\ Raws /\ OnceClosed /\ AllHeld

\* Held, by the place.
LEMMA HeldIs ==
    /\ \A n : n \in Held <=> InSocks(n) \/ n \in wsock \/ Owned(n)
    /\ \A n : n \in Held' <=> InSocks(n)' \/ n \in wsock' \/ Owned(n)'
BY DEF Held, InSocks, Owned

\* A socket of a connected slot is a socket of a slot.
LEMMA OwnedIn ==
    ASSUME DataTypes, NEW n, Owned(n)
    PROVE  InConn(n)
BY DEF DataTypes, Owned, InConn

\* Closing sockets that are open.
LEMMA ClosingOnce ==
    ASSUME DataTypes, NEW S, \A n \in Sockets : n \in S => closes[n] = 0, closes' = Closing(S)
    PROVE  \A n \in Sockets : closes'[n] = IF n \in S THEN 1 ELSE closes[n]
BY DEF Closing, DataTypes

\* A step that moves no socket.
LEMMA CustodyStays ==
    ASSUME Custody, UNCHANGED <<socks, conn, live, made, closes, wsock, vc>>, Clearing' <=> Clearing
    PROVE  Custody'
<1>1. \A n : /\ InSocks(n)' <=> InSocks(n)
             /\ InConn(n)' <=> InConn(n)
             /\ Owned(n)' <=> Owned(n)
    BY DEF InSocks, InConn, Owned
<1>2. Sharing'
    BY <1>1 DEF Custody, Sharing
<1>3. Raws'
    BY <1>1 DEF Custody, Raws, Raw, Settled
<1>4. OnceClosed' /\ AllHeld'
    BY <1>1, HeldIs DEF Custody, OnceClosed, AllHeld
<1> QED
    BY <1>2, <1>3, <1>4 DEF Custody

\* A channel closes connected slots.
LEMMA CustodyDrops ==
    ASSUME DataTypes, Sharing, OnceClosed, AllHeld, Settled, NEW S,
           \A n \in Sockets : n \in S => Owned(n),
           \A n \in Sockets : Owned(n)' <=> Owned(n) /\ n \notin S,
           \A g \in Chans : live'[g] \subseteq live[g],
           closes' = Closing(S), UNCHANGED <<socks, conn, made, wsock>>
    PROVE  Sharing' /\ OnceClosed' /\ AllHeld' /\ Settled'
<1>1. \A n : (InSocks(n)' <=> InSocks(n)) /\ (InConn(n)' <=> InConn(n))
    BY DEF InSocks, InConn
<1>2. \A n \in Sockets : closes'[n] = IF n \in S THEN 1 ELSE closes[n]
    BY ClosingOnce DEF Sharing
<1>3. Sharing'
    <2>1. \A n \in Sockets : n > made' => closes'[n] = 0 /\ ~InSocks(n)' /\ n \notin wsock' /\ ~InConn(n)'
        BY <1>1, <1>2, OwnedIn DEF Sharing
    <2>2. \A g, h \in Chans : \A s \in live'[g], r \in live'[h] :
             conn'[g][s] = conn'[h][r] => g = h /\ s = r
        BY DEF Sharing
    <2>3. \A n \in Sockets : Owned(n)' => closes'[n] = 0
        BY <1>2 DEF Sharing
    <2>4. \A n \in wsock' : closes'[n] = 0 /\ ~InSocks(n)' /\ ~InConn(n)'
        BY <1>1, <1>2, OwnedIn DEF Sharing, DataTypes
    <2>5. \A i, j \in DOMAIN socks' : socks'[i] = socks'[j] => i = j
        BY DEF Sharing
    <2> QED
        BY <2>1, <2>2, <2>3, <2>4, <2>5 DEF Sharing
<1>4. OnceClosed'
    BY <1>2 DEF OnceClosed
<1>5. Settled'
    BY <1>1, <1>2 DEF Settled
<1>6. AllHeld'
    <2>1. \A n \in 1..made : n \in Sockets
        BY DEF DataTypes, Sockets
    <2> QED
        BY <1>1, <1>2, <2>1, HeldIs DEF AllHeld
<1> QED
    BY <1>3, <1>4, <1>5, <1>6

\* tcpSockets is emptied after its channel was closed.
LEMMA CustodyForgets ==
    ASSUME DataTypes, Sharing, OnceClosed, AllHeld, Settled, socks' = <<>>,
           UNCHANGED <<conn, live, made, closes, wsock>>
    PROVE  Custody'
<1>1. \A n : ~InSocks(n)' /\ (InConn(n)' <=> InConn(n)) /\ (Owned(n)' <=> Owned(n))
    BY DEF InSocks, InConn, Owned
<1>2. Sharing'
    <2>1. \A i, j \in DOMAIN socks' : socks'[i] = socks'[j] => i = j
        OBVIOUS
    <2> QED
        BY <1>1, <2>1 DEF Sharing
<1>3. Raws' /\ OnceClosed'
    BY <1>1 DEF Raws, Raw, Settled, OnceClosed
<1>4. AllHeld'
    <2>1. \A n \in 1..made : n \in Sockets
        BY DEF DataTypes, Sockets
    <2> QED
        BY <1>1, <2>1, HeldIs DEF AllHeld, Settled
<1> QED
    BY <1>2, <1>3, <1>4 DEF Custody

\* Sockets that no channel has are closed, and forgotten.
LEMMA CustodyDiscards ==
    ASSUME DataTypes, Sharing, OnceClosed, AllHeld, Raw, socks' = <<>>,
           closes' = Closing({socks[i] : i \in DOMAIN socks}),
           UNCHANGED <<conn, live, made, wsock>>
    PROVE  Custody'
<1> DEFINE S == {socks[i] : i \in DOMAIN socks}
<1>0. \A n : n \in S <=> InSocks(n)
    BY DEF InSocks
<1> HIDE DEF S
<1>1. \A n : ~InSocks(n)' /\ (InConn(n)' <=> InConn(n)) /\ (Owned(n)' <=> Owned(n))
    BY DEF InSocks, InConn, Owned
<1>2. \A n \in Sockets : closes'[n] = IF InSocks(n) THEN 1 ELSE closes[n]
    <2>1. \A n \in Sockets : n \in S => closes[n] = 0
        BY <1>0 DEF Raw
    <2>2. closes' = Closing(S)
        BY DEF S
    <2> QED
        BY <1>0, <2>1, <2>2, ClosingOnce
<1>3. Sharing'
    <2>1. \A n \in Sockets : n > made' => closes'[n] = 0 /\ ~InSocks(n)' /\ n \notin wsock' /\ ~InConn(n)'
        BY <1>1, <1>2 DEF Sharing
    <2>2. \A g, h \in Chans : \A s \in live'[g], r \in live'[h] :
             conn'[g][s] = conn'[h][r] => g = h /\ s = r
        BY DEF Sharing
    <2>3. \A n \in Sockets : Owned(n)' => closes'[n] = 0
        BY <1>1, <1>2, OwnedIn DEF Sharing, Raw
    <2>4. \A n \in wsock' : closes'[n] = 0 /\ ~InSocks(n)' /\ ~InConn(n)'
        BY <1>1, <1>2 DEF Sharing, DataTypes
    <2>5. \A i, j \in DOMAIN socks' : socks'[i] = socks'[j] => i = j
        OBVIOUS
    <2> QED
        BY <2>1, <2>2, <2>3, <2>4, <2>5 DEF Sharing
<1>4. Raws' /\ OnceClosed'
    BY <1>1, <1>2 DEF Raws, Raw, Settled, OnceClosed
<1>5. AllHeld'
    <2>1. \A n \in 1..made : n \in Sockets
        BY DEF DataTypes, Sockets
    <2> QED
        BY <1>1, <1>2, <2>1, HeldIs DEF AllHeld
<1> QED
    BY <1>3, <1>4, <1>5 DEF Custody

\* PrepareVC connects one more socket.
LEMMA CustodyConnects ==
    ASSUME DataTypes, Sharing, OnceClosed, AllHeld, Raw, made < MaxSockets, made' = made + 1,
           socks' = Append(socks, made + 1), UNCHANGED <<conn, live, closes, wsock>>
    PROVE  Sharing' /\ OnceClosed' /\ AllHeld' /\ Raw'
<1>0. made + 1 \in Sockets /\ made \in Nat /\ Sockets \subseteq Nat /\ \A n \in 1..made : n \in Sockets
    BY DEF DataTypes, Sockets
<1>1. \A n : (InConn(n)' <=> InConn(n)) /\ (Owned(n)' <=> Owned(n))
    BY DEF InConn, Owned
<1>2. /\ DOMAIN socks' = DOMAIN socks \cup {Len(socks) + 1} /\ Len(socks) + 1 \notin DOMAIN socks
      /\ \A i \in DOMAIN socks : socks'[i] = socks[i]
      /\ socks'[Len(socks) + 1] = made + 1
    BY DEF DataTypes
<1>3. \A n : InSocks(n)' <=> InSocks(n) \/ n = made + 1
    BY <1>2 DEF InSocks
<1>4. closes[made + 1] = 0 /\ ~InSocks(made + 1) /\ made + 1 \notin wsock /\ ~InConn(made + 1)
    BY <1>0 DEF Sharing
<1>5. Sharing'
    <2>1. \A n \in Sockets : n > made' => closes'[n] = 0 /\ ~InSocks(n)' /\ n \notin wsock' /\ ~InConn(n)'
        BY <1>0, <1>1, <1>3 DEF Sharing
    <2>2. \A g, h \in Chans : \A s \in live'[g], r \in live'[h] :
             conn'[g][s] = conn'[h][r] => g = h /\ s = r
        BY DEF Sharing
    <2>3. \A n \in Sockets : Owned(n)' => closes'[n] = 0
        BY <1>1 DEF Sharing
    <2>4. \A n \in wsock' : closes'[n] = 0 /\ ~InSocks(n)' /\ ~InConn(n)'
        BY <1>1, <1>3, <1>4 DEF Sharing
    <2>5. \A i, j \in DOMAIN socks' : socks'[i] = socks'[j] => i = j
        BY <1>2, <1>4 DEF Sharing, InSocks
    <2> QED
        BY <2>1, <2>2, <2>3, <2>4, <2>5 DEF Sharing
<1>6. Raw' /\ OnceClosed'
    BY <1>1, <1>3, <1>4 DEF Raw, OnceClosed
<1>7. AllHeld'
    <2> SUFFICES ASSUME NEW n \in 1..(made + 1), closes[n] = 0 PROVE n \in Held'
        BY DEF AllHeld
    <2>1. CASE n = made + 1
        BY <1>3, <2>1, HeldIs
    <2>2. CASE n # made + 1
        <3>1. n \in 1..made
            BY <1>0, <2>2
        <3> QED
            BY <1>1, <1>3, <3>1, HeldIs DEF AllHeld
    <2> QED
        BY <2>1, <2>2
<1> QED
    BY <1>5, <1>6, <1>7

\* The new channel gets the sockets of tcpSockets.
LEMMA CustodyPublishes ==
    ASSUME DataTypes, Sharing, OnceClosed, AllHeld, Raw, NEW g \in Chans, live[g] = {},
           conn' = [conn EXCEPT ![g] = socks], live' = [live EXCEPT ![g] = DOMAIN socks],
           UNCHANGED <<socks, made, closes, wsock>>
    PROVE  Sharing' /\ OnceClosed' /\ AllHeld' /\ Settled'
<1>0. /\ conn'[g] = socks /\ live'[g] = DOMAIN socks
      /\ \A h \in Chans : h # g => conn'[h] = conn[h] /\ live'[h] = live[h]
      /\ \A h \in Chans : live[h] \subseteq DOMAIN conn[h]
      /\ \A i \in DOMAIN socks : socks[i] \in Sockets
    BY DEF DataTypes
<1>1. \A n : InSocks(n)' <=> InSocks(n)
    BY DEF InSocks
<1>2. \A n : InConn(n)' => InConn(n) \/ InSocks(n)
    BY <1>0 DEF InConn, InSocks
<1>3. \A n : Owned(n)' <=> Owned(n) \/ InSocks(n)
    BY <1>0 DEF Owned, InSocks
<1>4. Sharing'
    <2>1. \A n \in Sockets : n > made' => closes'[n] = 0 /\ ~InSocks(n)' /\ n \notin wsock' /\ ~InConn(n)'
        BY <1>1, <1>2 DEF Sharing
    <2>2. ASSUME NEW h \in Chans, NEW k \in Chans, NEW s \in live'[h], NEW r \in live'[k],
                 conn'[h][s] = conn'[k][r]
          PROVE  h = k /\ s = r
        <3>1. CASE h = g /\ k = g
            BY <1>0, <2>2, <3>1 DEF Sharing
        <3>2. CASE h # g /\ k # g
            BY <1>0, <2>2, <3>2 DEF Sharing
        <3>3. CASE h = g /\ k # g
            <4>1. InSocks(socks[s]) /\ InConn(conn[k][r]) /\ socks[s] \in Sockets
                BY <1>0, <3>3 DEF InSocks, InConn
            <4> QED
                BY <1>0, <2>2, <3>3, <4>1 DEF Raw
        <3>4. CASE h # g /\ k = g
            <4>1. InSocks(socks[r]) /\ InConn(conn[h][s]) /\ socks[r] \in Sockets
                BY <1>0, <3>4 DEF InSocks, InConn
            <4> QED
                BY <1>0, <2>2, <3>4, <4>1 DEF Raw
        <3> QED
            BY <3>1, <3>2, <3>3, <3>4
    <2>3. \A n \in Sockets : Owned(n)' => closes'[n] = 0
        BY <1>3 DEF Sharing, Raw
    <2>4. \A n \in wsock' : closes'[n] = 0 /\ ~InSocks(n)' /\ ~InConn(n)'
        BY <1>1, <1>2 DEF Sharing
    <2>5. \A i, j \in DOMAIN socks' : socks'[i] = socks'[j] => i = j
        BY DEF Sharing
    <2> QED
        BY <2>1, <2>2, <2>3, <2>4, <2>5 DEF Sharing
<1>5. Settled' /\ OnceClosed'
    BY <1>1, <1>3 DEF Settled, OnceClosed
<1>6. AllHeld'
    BY <1>1, <1>3, HeldIs DEF AllHeld
<1> QED
    BY <1>4, <1>5, <1>6

\* The watchdog connects a socket...
LEMMA CustodyDials ==
    ASSUME DataTypes, Custody, made < MaxSockets, made' = made + 1, wsock = {}, wsock' = {made + 1},
           UNCHANGED <<socks, conn, live, closes, vc>>, Clearing' <=> Clearing
    PROVE  Custody'
<1>0. made + 1 \in Sockets /\ made \in Nat /\ Sockets \subseteq Nat /\ \A n \in 1..made : n \in Sockets
    BY DEF DataTypes, Sockets
<1>1. \A n : /\ InSocks(n)' <=> InSocks(n)
             /\ InConn(n)' <=> InConn(n)
             /\ Owned(n)' <=> Owned(n)
    BY DEF InSocks, InConn, Owned
<1>2. closes[made + 1] = 0 /\ ~InSocks(made + 1) /\ ~InConn(made + 1)
    BY <1>0 DEF Custody, Sharing
<1>3. Sharing'
    BY <1>0, <1>1, <1>2 DEF Custody, Sharing
<1>4. Raws' /\ OnceClosed'
    BY <1>1 DEF Custody, Raws, Raw, Settled, OnceClosed
<1>5. AllHeld'
    <2> SUFFICES ASSUME NEW n \in 1..(made + 1), closes[n] = 0 PROVE n \in Held'
        BY DEF AllHeld
    <2>1. CASE n = made + 1
        BY <2>1, HeldIs
    <2>2. CASE n # made + 1
        <3>1. n \in 1..made
            BY <1>0, <2>2
        <3> QED
            BY <1>1, <3>1, HeldIs DEF Custody, AllHeld
    <2> QED
        BY <2>1, <2>2
<1> QED
    BY <1>3, <1>4, <1>5 DEF Custody

\* ...closes it again...
LEMMA CustodyReturns ==
    ASSUME DataTypes, Custody, closes' = Closing(wsock), wsock' = {},
           UNCHANGED <<socks, conn, live, made, vc>>, Clearing' <=> Clearing
    PROVE  Custody'
<1>0. \A n \in 1..made : n \in Sockets
    BY DEF DataTypes, Sockets
<1>1. \A n : /\ InSocks(n)' <=> InSocks(n)
             /\ InConn(n)' <=> InConn(n)
             /\ Owned(n)' <=> Owned(n)
    BY DEF InSocks, InConn, Owned
<1>2. \A n \in Sockets : closes'[n] = IF n \in wsock THEN 1 ELSE closes[n]
    BY ClosingOnce DEF Custody, Sharing
<1>3. \A n \in Sockets : n \in wsock => ~InSocks(n) /\ ~InConn(n) /\ ~Owned(n)
    BY OwnedIn DEF Custody, Sharing
<1>4. Sharing'
    BY <1>1, <1>2, <1>3 DEF Custody, Sharing
<1>5. Raws' /\ OnceClosed'
    BY <1>1, <1>2, <1>3 DEF Custody, Raws, Raw, Settled, OnceClosed
<1>6. AllHeld'
    BY <1>0, <1>1, <1>2, HeldIs DEF Custody, AllHeld
<1> QED
    BY <1>4, <1>5, <1>6 DEF Custody

\* ...or puts it into the dead slot and into tcpSockets.
LEMMA CustodyReplaces ==
    ASSUME DataTypes, Sharing, OnceClosed, AllHeld, Settled, vc \in Chans, NEW n, wsock = {n},
           wslot \in DOMAIN conn[vc], wslot \notin live[vc],
           conn' = [conn EXCEPT ![vc] = [conn[vc] EXCEPT ![wslot] = n]],
           socks' = [i \in DOMAIN socks |-> IF i = wslot THEN n ELSE socks[i]],
           live' = [live EXCEPT ![vc] = live[vc] \cup {wslot}], wsock' = {},
           UNCHANGED <<made, closes>>
    PROVE  Sharing' /\ OnceClosed' /\ AllHeld' /\ Settled'
<1>0. /\ DOMAIN socks' = DOMAIN socks
      /\ \A i \in DOMAIN socks : socks'[i] = IF i = wslot THEN n ELSE socks[i]
      /\ \A h \in Chans : h # vc => conn'[h] = conn[h] /\ live'[h] = live[h]
      /\ DOMAIN conn'[vc] = DOMAIN conn[vc] /\ live'[vc] = live[vc] \cup {wslot}
      /\ \A s \in DOMAIN conn[vc] : conn'[vc][s] = IF s = wslot THEN n ELSE conn[vc][s]
      /\ \A h \in Chans : live[h] \subseteq DOMAIN conn[h]
      /\ n \in Sockets /\ \A m \in 1..made : m \in Sockets
    BY DEF DataTypes, Sockets
<1>a. closes[n] = 0 /\ ~InSocks(n) /\ ~InConn(n)
    BY DEF Sharing
<1>1. \A m : InSocks(m)' => InSocks(m) \/ m = n
    BY <1>0 DEF InSocks
<1>2. \A m : InConn(m)' => InConn(m) \/ m = n
    BY <1>0 DEF InConn
<1>3. \A m : Owned(m)' <=> Owned(m) \/ m = n
    <2>1. ASSUME NEW m, Owned(m)' PROVE Owned(m) \/ m = n
        BY <1>0, <2>1 DEF Owned
    <2>2. ASSUME NEW m, Owned(m) PROVE Owned(m)'
        BY <1>0, <2>2 DEF Owned
    <2>3. Owned(n)'
        BY <1>0 DEF Owned
    <2> QED
        BY <2>1, <2>2, <2>3
<1>4. Sharing'
    <2>1. \A m \in Sockets : m > made' => closes'[m] = 0 /\ ~InSocks(m)' /\ m \notin wsock' /\ ~InConn(m)'
        BY <1>1, <1>2 DEF Sharing
    <2>2. ASSUME NEW h \in Chans, NEW k \in Chans, NEW s \in live'[h], NEW r \in live'[k],
                 conn'[h][s] = conn'[k][r]
          PROVE  h = k /\ s = r
        <3>1. ASSUME NEW g \in Chans, NEW x \in live'[g] PROVE
                 \/ g = vc /\ x = wslot /\ conn'[g][x] = n
                 \/ x \in live[g] /\ conn'[g][x] = conn[g][x] /\ conn[g][x] # n
            BY <1>0, <1>a, <3>1 DEF InConn
        <3>2. \/ h = vc /\ s = wslot /\ conn'[h][s] = n
              \/ s \in live[h] /\ conn'[h][s] = conn[h][s] /\ conn[h][s] # n
            BY <3>1
        <3>3. \/ k = vc /\ r = wslot /\ conn'[k][r] = n
              \/ r \in live[k] /\ conn'[k][r] = conn[k][r] /\ conn[k][r] # n
            BY <3>1
        <3> QED
            BY <2>2, <3>2, <3>3 DEF Sharing
    <2>3. \A m \in Sockets : Owned(m)' => closes'[m] = 0
        BY <1>3, <1>a DEF Sharing
    <2>5. \A i, j \in DOMAIN socks' : socks'[i] = socks'[j] => i = j
        BY <1>0, <1>a DEF Sharing, InSocks
    <2> QED
        BY <2>1, <2>2, <2>3, <2>5 DEF Sharing
<1>5. Settled' /\ OnceClosed'
    BY <1>1, <1>3 DEF Settled, OnceClosed
<1>6. AllHeld'
    BY <1>0, <1>3, HeldIs DEF AllHeld, Settled
<1> QED
    BY <1>4, <1>5, <1>6

\* While a thread builds, nobody else clears tcpSockets.
LEMMA ClearingAlone ==
    ASSUME Sequel, NEW t \in Threads, Phase(t) = "build", pc[t] # "tdForget"
    PROVE  ~Clearing
<1>1. \A u \in Threads \ {t} : Phase(u) = "rest"
    BY Alone DEF Sequel
<1>2. pc[t] # "rClear"
    BY PhaseOf
<1> QED
    BY <1>1, <1>2, PhaseOf DEF Clearing

\* Every step keeps custody of the sockets.
LEMMA CustodyKept ==
    ASSUME ControlTypes, Sequel, Joined, DataTypes, WdSlots, Filling, Custody, [Next]_vars
    PROVE  Custody'
<1>0. Sharing /\ Raws /\ OnceClosed /\ AllHeld
    BY DEF Custody
<1>1. ASSUME NEW t \in Threads, Others(t), UNCHANGED <<socks, conn, live, made, closes, wsock, vc>>,
             pc[t] \notin {"tdForget", "rClear"}, pc'[t] \notin {"tdForget", "rClear"}
      PROVE  Custody'
    <2>1. Clearing' <=> Clearing
        BY <1>1 DEF Clearing, Others
    <2> QED
        BY <1>1, <2>1, CustodyStays
<1>2. ASSUME NEW t \in Threads, Quiet(t) PROVE Custody'
    BY <1>1, <1>2 DEF Quiet, dataVars
<1>3. ASSUME NEW t \in Threads, StopJoin(t) \/ StartWatchdog(t) PROVE Custody'
    <2>1. /\ UNCHANGED <<socks, conn, live, made, closes, wsock, vc>>
          /\ pc[t] \in {"joinWd", "startWd"} /\ pc'[t] \in {ret[t].join, "udp", "done"}
        BY <1>3 DEF StopJoin, StartWatchdog, Go, ControlTypes, chanVars, sockVars, wdVars
    <2>2. ret[t].join \in {"tdClose", "rLoop", "stopClose"}
        BY DEF ControlTypes, Labels
    <2>3. Others(t)
        BY <1>3, SocketMoves
    <2> QED
        BY <1>1, <2>1, <2>2, <2>3
<1>4. ASSUME NEW t \in Threads, TearClose(t) PROVE Custody'
    <2>1. /\ pc[t] = "tdClose" /\ pc'[t] = IF vc # 0 THEN "tdForget" ELSE "tdRaw"
          /\ CloseVc /\ vc' = 0 /\ UNCHANGED <<socks, conn, made, wsock>>
        BY <1>4 DEF TearClose, Go, ControlTypes, sockVars, wdVars
    <2>2. Others(t) /\ Phase(t) = "build"
        BY <1>4, <2>1, SocketMoves, PhaseOf
    <2>3. ~Clearing
        BY <2>1, <2>2, ClearingAlone
    <2>4. CASE vc = 0
        <3>1. ~VcOpen
            BY <2>4, ThreadSets DEF VcOpen
        <3>2. UNCHANGED <<live, closes, vc>>
            BY <2>1, <2>4, <3>1 DEF CloseVc
        <3> QED
            BY <1>1, <2>1, <2>2, <2>4, <3>2
    <2>5. CASE vc # 0
        <3>1. Clearing' /\ Settled
            BY <1>0, <2>1, <2>5 DEF Clearing, Raws
        <3>2. Sharing' /\ OnceClosed' /\ AllHeld' /\ Settled'
            <4>1. CASE VcOpen
                <5> DEFINE S == {conn[vc][s] : s \in live[vc]}
                <5>1. /\ live' = [live EXCEPT ![vc] = {}] /\ closes' = Closing(S) /\ vc \in Chans
                    BY <2>1, <4>1 DEF CloseVc, VcOpen
                <5>2. \A n : n \in S => Owned(n)
                    BY <5>1 DEF Owned
                <5>3. live'[vc] = {} /\ \A g \in Chans : g # vc => live'[g] = live[g]
                    BY <5>1 DEF DataTypes
                <5>4. ASSUME NEW n, Owned(n)' PROVE Owned(n) /\ n \notin S
                    BY <1>0, <2>1, <5>1, <5>3, <5>4 DEF Owned, Sharing
                <5>5. ASSUME NEW n, Owned(n), n \notin S PROVE Owned(n)'
                    BY <2>1, <5>1, <5>3, <5>5 DEF Owned
                <5>6. \A g \in Chans : live'[g] \subseteq live[g]
                    BY <5>3
                <5> HIDE DEF S
                <5> QED
                    BY <1>0, <2>1, <3>1, <5>1, <5>2, <5>4, <5>5, <5>6, CustodyDrops
            <4>2. CASE ~VcOpen
                <5>1. UNCHANGED <<live, closes>>
                    BY <2>1, <4>2 DEF CloseVc
                <5>2. \A n : /\ InSocks(n)' <=> InSocks(n)
                             /\ InConn(n)' <=> InConn(n)
                             /\ Owned(n)' <=> Owned(n)
                    BY <2>1, <5>1 DEF InSocks, InConn, Owned
                <5>3. Sharing'
                    BY <1>0, <2>1, <5>1, <5>2 DEF Sharing
                <5>4. Settled' /\ OnceClosed'
                    BY <1>0, <2>1, <3>1, <5>1, <5>2 DEF Settled, OnceClosed
                <5>5. AllHeld'
                    BY <1>0, <2>1, <5>1, <5>2, HeldIs DEF AllHeld
                <5> QED
                    BY <5>3, <5>4, <5>5
            <4> QED
                BY <4>1, <4>2
        <3> QED
            BY <3>1, <3>2 DEF Custody, Raws
    <2> QED
        BY <2>4, <2>5
<1>5. ASSUME NEW t \in Threads, TearForget(t) PROVE Custody'
    <2>1. /\ pc[t] \in {"tdForget", "tdRaw"} /\ UNCHANGED <<conn, live, made, wsock>> /\ socks' = <<>>
          /\ pc[t] = "tdRaw" => closes' = Closing({socks[i] : i \in DOMAIN socks})
          /\ pc[t] = "tdForget" => closes' = closes
        BY <1>5 DEF TearForget, chanVars, wdVars
    <2>2. CASE pc[t] = "tdForget"
        <3>1. Settled
            BY <1>0, <2>2 DEF Raws, Clearing
        <3> QED
            BY <1>0, <2>1, <2>2, <3>1, CustodyForgets
    <2>3. CASE pc[t] = "tdRaw"
        <3>1. vc = 0 /\ Phase(t) = "build"
            BY <2>3, PhaseOf DEF Sequel, Channels, Torn
        <3>2. Raw
            BY <1>0, <2>3, <3>1, ClearingAlone DEF Raws
        <3> QED
            BY <1>0, <2>1, <2>3, <3>2, CustodyDiscards
    <2> QED
        BY <2>1, <2>2, <2>3
<1>6. ASSUME NEW t \in Threads, Connect(t) PROVE Custody'
    <2>1. /\ pc[t] = "connect" /\ made < MaxSockets /\ made' = made + 1
          /\ socks' = Append(socks, made + 1) /\ UNCHANGED <<pc, conn, live, closes, wsock, vc>>
        BY <1>6 DEF Connect, chanVars, wdVars
    <2>2. vc = 0 /\ Phase(t) = "build"
        BY <2>1, PhaseOf DEF Sequel, Channels, Torn
    <2>3. ~Clearing /\ ~Clearing'
        BY <2>1, <2>2, ClearingAlone DEF Clearing
    <2>4. Raw
        BY <1>0, <2>2, <2>3 DEF Raws
    <2>5. Sharing' /\ OnceClosed' /\ AllHeld' /\ Raw'
        BY <1>0, <2>1, <2>4, CustodyConnects
    <2> QED
        BY <2>1, <2>2, <2>3, <2>5 DEF Custody, Raws
<1>7. ASSUME NEW t \in Threads, Publish(t) PROVE Custody'
    <2>1. PICK k \in 0..MaxVcs : Created = 1..k /\ Cardinality(Created) = k
        BY NextChannel
    <2>2. PICK g \in Chans : /\ g = k + 1 /\ vc' = g /\ conn' = [conn EXCEPT ![g] = socks]
                             /\ live' = [live EXCEPT ![g] = DOMAIN socks]
        BY <1>7, <2>1 DEF Publish
    <2>3. pc[t] = "connect" /\ UNCHANGED <<socks, made, closes, wsock>>
        BY <1>7 DEF Publish, sockVars, wdVars
    <2>4. st[g] = "none"
        BY <2>1, <2>2 DEF Created
    <2>5. live[g] = {}
        BY <2>4 DEF Filling
    <2>6. vc = 0 /\ Phase(t) = "build"
        BY <2>3, PhaseOf DEF Sequel, Channels, Torn
    <2>7. Raw
        BY <1>0, <2>3, <2>6, ClearingAlone DEF Raws
    <2>8. Sharing' /\ OnceClosed' /\ AllHeld' /\ Settled'
        BY <1>0, <2>2, <2>3, <2>5, <2>7, CustodyPublishes
    <2>9. vc' # 0
        BY <2>2, ThreadSets
    <2> QED
        BY <2>8, <2>9 DEF Custody, Raws
<1>8. ASSUME NEW g \in Chans, ReconnectClose(g) PROVE Custody'
    <2>0. g \in Threads
        BY ThreadSets
    <2>1. /\ pc[g] = "rClose" /\ pc'[g] = "rClear" /\ CloseVc
          /\ UNCHANGED <<socks, conn, made, wsock>>
        BY <1>8, <2>0 DEF ReconnectClose, Go, ControlTypes, sockVars, wdVars
    <2>2. Phase(g) = "early"
        BY <2>1, PhaseOf
    <2>3. ~VcOpen
        BY <2>0, <2>2, EarlyAlone DEF VcOpen, Up
    <2>4. UNCHANGED <<live, closes>>
        BY <2>1, <2>3 DEF CloseVc
    <2>5. Settled
        <3>1. CASE vc # 0
            BY <1>0, <3>1 DEF Raws
        <3>2. CASE vc = 0
            <4>1. socks = <<>>
                BY <2>0, <2>1, <2>2, <3>2 DEF Filling
            <4> QED
                BY <4>1 DEF Settled, InSocks
        <3> QED
            BY <3>1, <3>2
    <2>6. \A n : /\ InSocks(n)' <=> InSocks(n)
                 /\ InConn(n)' <=> InConn(n)
                 /\ Owned(n)' <=> Owned(n)
        BY <2>1, <2>4 DEF InSocks, InConn, Owned
    <2>7. Sharing'
        BY <1>0, <2>1, <2>4, <2>6 DEF Sharing
    <2>8. Settled' /\ OnceClosed' /\ Clearing'
        BY <1>0, <2>0, <2>1, <2>4, <2>5, <2>6 DEF Settled, OnceClosed, Clearing
    <2>9. AllHeld'
        BY <1>0, <2>1, <2>4, <2>6, HeldIs DEF AllHeld
    <2> QED
        BY <2>7, <2>8, <2>9 DEF Custody, Raws
<1>9. ASSUME NEW g \in Chans, ReconnectClear(g) PROVE Custody'
    <2>1. pc[g] = "rClear" /\ socks' = <<>> /\ UNCHANGED <<conn, live, made, closes, wsock>>
        BY <1>9 DEF ReconnectClear, chanVars, wdVars
    <2>2. Settled
        BY <1>0, <2>1, ThreadSets DEF Raws, Clearing
    <2> QED
        BY <1>0, <2>1, <2>2, CustodyForgets
<1>10. ASSUME NEW g \in Chans, NEW s, Dies(g, s) PROVE Custody'
    <2>1. /\ st[g] \in {"opening", "open"} /\ s \in live[g]
          /\ live' = [live EXCEPT ![g] = live[g] \ {s}] /\ closes' = Closing({conn[g][s]})
          /\ UNCHANGED <<socks, conn, made, wsock, pc, vc>>
        BY <1>10 DEF Dies, threadVars, sockVars, wdVars
    <2>2. vc # 0
        BY <2>1, ThreadSets DEF Sequel, Channels, Up
    <2>3. Settled
        BY <1>0, <2>2 DEF Raws
    <2>4. live'[g] = live[g] \ {s} /\ \A h \in Chans : h # g => live'[h] = live[h]
        BY <2>1 DEF DataTypes
    <2>5. PICK S : S = {conn[g][s]}
        OBVIOUS
    <2>6. \A n : n \in S => Owned(n)
        BY <2>1, <2>5 DEF Owned
    <2>7. ASSUME NEW n, Owned(n)' PROVE Owned(n) /\ n \notin S
        BY <1>0, <2>1, <2>4, <2>5, <2>7 DEF Owned, Sharing
    <2>8. ASSUME NEW n, Owned(n), n \notin S PROVE Owned(n)'
        BY <2>1, <2>4, <2>5, <2>8 DEF Owned
    <2>9. \A h \in Chans : live'[h] \subseteq live[h]
        BY <2>4
    <2>10. Sharing' /\ OnceClosed' /\ AllHeld' /\ Settled'
        BY <1>0, <2>1, <2>3, <2>5, <2>6, <2>7, <2>8, <2>9, CustodyDrops
    <2> QED
        BY <2>1, <2>2, <2>10 DEF Custody, Raws
<1>11. CASE Watchdog
    <2>0. UNCHANGED <<pc, vc>>
        BY <1>11, WatchdogFrame
    <2>1. Clearing' <=> Clearing
        BY <2>0 DEF Clearing
    <2>2. CASE SlotDials
        <3>1. /\ made < MaxSockets /\ made' = made + 1 /\ wsock' = {made + 1} /\ wpc = "dial"
              /\ UNCHANGED <<socks, conn, live, closes>>
            BY <2>2 DEF SlotDials, chanVars
        <3>2. wsock = {}
            BY <3>1 DEF WdSlots, Holding
        <3> QED
            BY <2>0, <2>1, <3>1, <3>2, CustodyDials
    <2>3. CASE SlotDrops
        <3>1. closes' = Closing(wsock) /\ wsock' = {} /\ UNCHANGED <<socks, conn, live, made>>
            BY <2>3 DEF SlotDrops, chanVars, sockVars
        <3> QED
            BY <2>0, <2>1, <3>1, CustodyReturns
    <2>4. CASE SlotReplaced
        <3>1. PICK n \in wsock : /\ conn' = [conn EXCEPT ![vc] = [conn[vc] EXCEPT ![wslot] = n]]
                                 /\ socks' = [i \in DOMAIN socks |-> IF i = wslot THEN n ELSE socks[i]]
            BY <2>4, ReplacedIs
        <3>2. /\ wpc = "replace" /\ UNCHANGED <<made, closes>> /\ wsock' = {}
              /\ live' = [live EXCEPT ![vc] = live[vc] \cup {wslot}]
            BY <2>4, ReplacedIs DEF SlotReplaced
        <3>3. /\ vc \in Chans /\ vc # 0 /\ wslot \in DOMAIN conn[vc] /\ wslot \notin live[vc]
              /\ wsock = {n}
            BY <3>1, <3>2 DEF WdSlots, Repairing, Holding
        <3>4. Settled
            BY <1>0, <3>3 DEF Raws
        <3>5. Sharing' /\ OnceClosed' /\ AllHeld' /\ Settled'
            BY <1>0, <3>1, <3>2, <3>3, <3>4, CustodyReplaces
        <3> QED
            BY <2>0, <3>3, <3>5 DEF Custody, Raws
    <2>5. CASE ~SlotDials /\ ~SlotDrops /\ ~SlotReplaced
        <3>1. UNCHANGED <<socks, conn, live, made, closes, wsock>>
            BY <1>11, <2>5 DEF Watchdog, WatchdogWakes, WatchdogScan, SlotsDone, SlotBegin,
               SlotFails, SlotGoesOn, SlotBinds, SlotChecks, chanVars, sockVars
        <3> QED
            BY <2>0, <2>1, <3>1, CustodyStays
    <2> QED
        BY <2>2, <2>3, <2>4, <2>5
<1>12. CASE UNCHANGED coreVars
    <2>1. UNCHANGED <<pc, socks, conn, live, made, closes, wsock, vc>>
        BY <1>12 DEF coreVars, threadVars, chanVars, sockVars, wdVars
    <2>2. Clearing' <=> Clearing
        BY <2>1 DEF Clearing
    <2> QED
        BY <2>1, <2>2, CustodyStays
<1> QED
    BY <1>2, <1>3, <1>4, <1>5, <1>6, <1>7, <1>8, <1>9, <1>10, <1>11, <1>12, DataCases

------------------------------------------------------------------------------
\* The client starts with no sockets.
LEMMA InvInit ==
    ASSUME Init
    PROVE  Inv
<1>1. /\ \A t \in Threads : pc[t] = IF t = Main THEN "start" ELSE "none"
      /\ \A g \in Chans : conn[g] = <<>> /\ live[g] = {} /\ st[g] = "none"
      /\ \A n \in Sockets : closes[n] = 0
      /\ vc = 0 /\ socks = <<>> /\ made = 0 /\ wdRunning = FALSE /\ wdThread = FALSE
      /\ wpc = "none" /\ wdead = {} /\ wslot = 1 /\ wepoch = 0 /\ wsock = {} /\ wseen = 0
    BY DEF Init
<1>2. Control
    BY ControlInit
<1>3. Joined
    BY <1>1 DEF Joined
<1>4. DataTypes
    <2>1. conn \in [Chans -> Seq(Sockets)] /\ live \in [Chans -> SUBSET Nat]
        BY DEF Init
    <2>2. closes \in [Sockets -> 0..2]
        BY DEF Init
    <2>3. \A g \in Chans : Len(conn[g]) <= NConn /\ live[g] \subseteq DOMAIN conn[g]
        BY <1>1
    <2>4. socks \in Seq(Sockets) /\ Len(socks) <= NConn
        BY <1>1
    <2>5. wdRunning \in BOOLEAN /\ wdThread \in BOOLEAN /\ wpc \in WPcs
        BY <1>1 DEF WPcs
    <2>6. /\ made \in 0..MaxSockets /\ wdead \subseteq 1..NConn /\ wslot \in 1..NConn
          /\ wsock \subseteq Sockets /\ wepoch \in 0..MaxVcs /\ wseen \in 0..MaxVcs
        BY <1>1
    <2> QED
        BY <2>1, <2>2, <2>3, <2>4, <2>5, <2>6 DEF DataTypes
<1>5. WdSlots
    BY <1>1 DEF WdSlots, Repairing, Holding
<1>6. \A n : ~InSocks(n) /\ ~InConn(n) /\ ~Owned(n)
    BY <1>1 DEF InSocks, InConn, Owned
<1>7. Sharing
    <2>1. \A i, j \in DOMAIN socks : socks[i] = socks[j] => i = j
        BY <1>1
    <2> QED
        BY <1>1, <1>6, <2>1 DEF Sharing
<1>8. Raws
    BY <1>6 DEF Raws, Raw, Settled
<1>9. Filling
    <2>1. \A t \in Threads : pc[t] \in {"start", "none"}
        BY <1>1
    <2> QED
        BY <1>1, <2>1 DEF Filling
<1>10. OnceClosed /\ AllHeld /\ Whole
    BY <1>1 DEF OnceClosed, AllHeld, Whole
<1> QED
    BY <1>2, <1>3, <1>4, <1>5, <1>7, <1>8, <1>9, <1>10 DEF Inv

\* Every step keeps the inductive invariant, unless it is an overlap.
LEMMA InvNext ==
    ASSUME Apart', Inv, [Next]_vars
    PROVE  Inv'
<1>1. /\ ControlTypes /\ Sequel /\ Joined /\ DataTypes /\ WdSlots /\ Filling /\ Custody /\ Control
      /\ Whole
    BY DEF Inv, Control, Sequel, Custody
<1>2. Control'
    BY <1>1, ControlKept
<1>3. Joined'
    BY <1>1, JoinedKept
<1>4. DataTypes'
    BY <1>1, DataTypesKept
<1>5. WdSlots'
    BY <1>1, WdSlotsKept
<1>6. Filling'
    BY <1>1, FillingKept
<1>7. Custody'
    BY <1>1, CustodyKept
<1>8. Whole'
    BY <1>1, WholeKept
<1> QED
    BY <1>2, <1>3, <1>4, <1>5, <1>6, <1>7, <1>8 DEF Inv, Custody

\* An overlap is never forgotten.
LEMMA OverlapsStay ==
    ASSUME [Next]_vars
    PROVE  overlaps \subseteq overlaps'
<1>1. ASSUME NEW t \in Threads, Teardown(t) PROVE UNCHANGED overlaps
    BY <1>1 DEF Teardown, StopFlag, StopJoin, TearClose, TearForget, sideVars
<1>2. ASSUME NEW t \in Threads, Prepare(t) PROVE UNCHANGED overlaps
    BY <1>2 DEF Prepare, Connect, ConnectFails, Publish, OpenBegin, OpenEnd, StartWatchdog,
       OpenCrashes, StartCrashes, sideVars
<1>3. CASE MainThread \/ ForwardEnds
    BY <1>1, <1>2, <1>3, ThreadSets DEF MainThread, Start, StartFails, UdpBound, UdpFails,
       UdpCloses, MainWakes, ForwardEnds, Overlap, sideVars
<1>4. ASSUME NEW g \in Chans, Callback(g) \/ ReconnectThread(g) PROVE overlaps \subseteq overlaps'
    BY <1>1, <1>2, <1>4, ThreadSets DEF Callback, ReconnectThread, ReconnectBegin, ReconnectLoop,
       ReconnectClose, ReconnectClear, ReconnectWakes, ReconnectFailed, StopBegin, StopClose,
       Overlap, sideVars
<1>5. ASSUME NEW g \in Chans, NEW s, Dies(g, s) PROVE overlaps \subseteq overlaps'
    BY <1>5 DEF Dies, Overlap
<1>6. CASE Watchdog
    BY <1>6 DEF Watchdog, WatchdogWakes, WatchdogScan, SlotsDone, SlotBegin, SlotFails,
       SlotDials, SlotDrops, SlotGoesOn, SlotBinds, SlotChecks, SlotReplaced, sideVars
<1>7. CASE UNCHANGED vars
    BY <1>7 DEF vars, sideVars
<1> QED
    BY <1>3, <1>4, <1>5, <1>6, <1>7 DEF Next, Step, Ended

\* Inv holds as long as main and the reconnect threads are kept apart: up to the
\* first overlap, whatever happens until then.
THEOREM ClientInvariant == Spec => [](Apart => Inv)
<1>1. Init => (Apart => Inv)
    BY InvInit
<1>2. (Apart => Inv) /\ [Next]_vars => (Apart => Inv)'
    <2> SUFFICES ASSUME Apart => Inv, [Next]_vars, Apart' PROVE Inv'
        OBVIOUS
    <2>1. Apart
        BY OverlapsStay DEF Apart
    <2> QED
        BY <2>1, InvNext
<1> QED
    BY <1>1, <1>2, PTL DEF Spec

\* While the threads are kept apart nobody ends the process: whoever starts a
\* watchdog finds the last one joined (the assertion of StartWatchdog), and
\* whoever opens a channel finds the one it has just created.
THEOREM NobodyEndsProcess == Spec => []NoCrash
<1>1. (Apart => Inv) => NoCrash
    <2> SUFFICES ASSUME Inv PROVE /\ StartsAlone
                                  /\ \A t \in Threads : pc[t] = "publish" => vc # 0 /\ st[vc] = "new"
        BY DEF NoCrash
    <2>1. StartsAlone
        BY DEF Inv, Joined, Built, StartsAlone
    <2>2. \A t \in Threads : pc[t] = "publish" => vc # 0 /\ st[vc] = "new"
        BY DEF Inv, Control, Channels
    <2> QED
        BY <2>1, <2>2
<1> QED
    BY <1>1, ClientInvariant, PTL

\* Nor do sockets accumulate: every channel is built from VC_TCP_CONNECTIONS of them,
\* and keeps that many.
THEOREM ChannelsWhole == Spec => []ChannelWhole
<1>1. (Apart => Inv) => ChannelWhole
    BY DEF Inv, ChannelWhole, Whole, Created
<1> QED
    BY <1>1, ClientInvariant, PTL

\* While the threads are kept apart, nobody calls SocketClose on a TCP descriptor
\* for the second time, however teardowns, dying connections and slot reconnects
\* interleave.
THEOREM SocketsClosedOnce == Spec => []ClosedOnce
<1>1. (Apart => Inv) => ClosedOnce
    BY DEF Inv, ClosedOnce, OnceClosed
<1> QED
    BY <1>1, ClientInvariant, PTL

\* Nor is a socket forgotten: one that is not closed is in tcpSockets, in a
\* connected slot or in the hands of ReconnectSingleSlot.
THEOREM SocketsHeld == Spec => []NoLeak
<1>1. (Apart => Inv) => NoLeak
    BY DEF Inv, NoLeak, AllHeld
<1> QED
    BY <1>1, ClientInvariant, PTL

\* And ReconnectSingleSlot replaces a slot of the channel whose dead slots it read.
THEOREM SplicesIntoSeen == Spec => []SpliceSameVc
<1>1. (Apart => Inv) => SpliceSameVc
    BY DEF Inv, WdSlots, Repairing, SpliceSameVc
<1> QED
    BY <1>1, ClientInvariant, PTL
------------------------------------------------------------------------------
(***************************************************************************)
(* What holds in every history, overlaps included.                         *)
(***************************************************************************)
\* ReconnectVC's loop counter stays within its bound.
LEMMA RetriesKept ==
    ASSUME ControlTypes, Retries, [Next]_vars
    PROVE  Retries'
<1> USE DEF Go
<1>1. ASSUME NEW t \in Threads, NEW label, Moved(t, label),
             t \in Chans /\ (Phase(t)' = "build" \/ label \in {"rClose", "rClear", "rSleep"})
                => retry'[t] < MaxRetries
      PROVE  Retries'
    <2>1. Others(t) /\ pc'[t] = label
        BY <1>1, MovedAlone
    <2> QED
        BY <1>1, <2>1, ThreadSets DEF Retries, Others
<1>2. ASSUME NEW t \in Threads, NEW label, Moved(t, label), UNCHANGED retry,
             \/ Phase(t)' = "build" /\ Phase(t) = "build"
             \/ Phase(t)' # "build" /\ label \notin {"rClose", "rClear", "rSleep"}
             \/ pc[t] \in {"rClose", "rClear", "rSleep"}
             \/ t = Main
      PROVE  Retries'
    <2>1. pc'[t] = label
        BY <1>2, MovedAlone
    <2>2. label \in {"rClose", "rClear", "rSleep"} => Phase(t)' # "build"
        BY <2>1, PhaseNext
    <2>3. t \in Chans /\ (Phase(t)' = "build" \/ label \in {"rClose", "rClear", "rSleep"})
             => retry'[t] < MaxRetries
        BY <1>2, <2>2, ThreadSets DEF Retries
    <2> QED
        BY <1>1, <1>2, <2>3
<1>3. ASSUME NEW t \in Threads, StopFlag(t) \/ StopJoin(t) PROVE Retries'
    <2>1. PICK label : /\ pc' = [pc EXCEPT ![t] = label]
                       /\ \/ pc[t] = "stopWd" /\ label = "joinWd"
                          \/ pc[t] = "joinWd" /\ label = ret[t].join
        BY <1>3 DEF StopFlag, StopJoin
    <2>2. UNCHANGED <<ret, count, retry>>
        BY <1>3 DEF StopFlag, StopJoin
    <2>3. Moved(t, label)
        BY <2>1, <2>2 DEF Moved
    <2>4. pc'[t] = label /\ ret'[t] = ret[t]
        BY <2>2, <2>3, MovedAlone
    <2>5. ret[t].join \in {"tdClose", "rLoop", "stopClose"}
        BY DEF ControlTypes, Labels
    <2>6. Phase(t)' = Phase(t)
        BY <2>1, <2>4, <2>5, PhaseOf, PhaseNext
    <2> QED
        BY <1>2, <2>1, <2>2, <2>3, <2>5, <2>6
<1>4. ASSUME NEW t \in Threads, TearClose(t) \/ TearForget(t) PROVE Retries'
    <2>1. PICK label : /\ pc' = [pc EXCEPT ![t] = label] /\ label \in {"tdForget", "tdRaw", ret[t].down}
                       /\ pc[t] \in {"tdClose", "tdForget", "tdRaw"}
        BY <1>4 DEF TearClose, TearForget
    <2>2. UNCHANGED <<ret, count, retry>>
        BY <1>4 DEF TearClose, TearForget
    <2>3. Moved(t, label) /\ pc'[t] = label
        BY <2>1, <2>2, MovedAlone DEF Moved
    <2>4. Phase(t) = "build"
        BY <2>1, PhaseOf
    <2>5. label \in {"tdForget", "tdRaw", "connect", "failed"} \/ t = Main
        BY <2>1 DEF ControlTypes, Labels, Threads
    <2>6. Phase(t)' = "build" \/ t = Main
        BY <2>3, <2>5, PhaseNext
    <2> QED
        BY <1>2, <2>1, <2>2, <2>3, <2>4, <2>6
<1>5. ASSUME NEW t \in Threads, Connect(t) \/ ConnectFails(t) PROVE Retries'
    <2>1. PICK label \in {"connect", "stopWd"} : pc' = [pc EXCEPT ![t] = label]
        BY <1>5 DEF Connect, ConnectFails, CallTeardown, ControlTypes
    <2>2. Moved(t, label)
        BY <1>5, <2>1 DEF Connect, ConnectFails, CallTeardown, Moved
    <2>3. pc[t] = "connect" /\ UNCHANGED retry
        BY <1>5 DEF Connect, ConnectFails
    <2>4. t \in Chans => retry[t] < MaxRetries
        BY <2>3, PhaseOf DEF Retries
    <2> QED
        BY <1>1, <2>1, <2>2, <2>3, <2>4
<1>6. ASSUME NEW t \in Threads, Publish(t) PROVE Retries'
    <2>1. Moved(t, "publish") /\ pc'[t] = "publish"
        BY <1>6 DEF Publish, Moved, ControlTypes
    <2>2. Phase(t)' # "build"
        BY <2>1, PhaseNext
    <2> QED
        BY <1>1, <2>1, <2>2
<1>7. ASSUME NEW t \in Threads, OpenBegin(t) \/ OpenEnd(t) \/ StartWatchdog(t) \/ Crashing(t)
      PROVE  Retries'
    <2>1. PICK label \in {"opening", "startWd", "udp", "done", "crashed"} :
             pc' = [pc EXCEPT ![t] = label]
        BY <1>7 DEF OpenBegin, OpenEnd, StartWatchdog, Crashing, OpenCrashes, StartCrashes
    <2>2. UNCHANGED <<ret, count, retry>> /\ pc[t] \in {"publish", "opening", "startWd"}
        BY <1>7 DEF OpenBegin, OpenEnd, StartWatchdog, Crashing, OpenCrashes, StartCrashes
    <2>3. Moved(t, label) /\ pc'[t] = label
        BY <2>1, <2>2, MovedAlone DEF Moved
    <2>4. Phase(t)' # "build"
        BY <2>3 DEF Phase, Stopping, Torn
    <2> QED
        BY <1>2, <2>1, <2>2, <2>3, <2>4
<1>8. CASE Start \/ StartFails \/ UdpBound \/ UdpFails \/ MainWakes \/ ForwardEnds
    <2>1. PICK label \in {"stopWd", "forward", "start", "asleep"} : pc' = [pc EXCEPT ![Main] = label]
        BY <1>8 DEF Start, StartFails, UdpBound, UdpFails, MainWakes, ForwardEnds, CallTeardown
    <2>2. UNCHANGED <<count, retry>>
        BY <1>8 DEF Start, StartFails, UdpBound, UdpFails, MainWakes, ForwardEnds
    <2>3. ret' = ret \/ \E r : ret' = [ret EXCEPT ![Main] = r]
        BY <1>8 DEF Start, StartFails, UdpBound, UdpFails, MainWakes, ForwardEnds, CallTeardown
    <2>4. Moved(Main, label)
        BY <2>1, <2>2, <2>3 DEF Moved
    <2> QED
        BY <1>2, <2>1, <2>2, <2>4, ThreadSets
<1>9. ASSUME NEW g \in Chans, Callback(g) PROVE Retries'
    <2>1. Moved(g, "rEpoch") /\ UNCHANGED <<count, retry>> /\ pc'[g] = "rEpoch"
        BY <1>9, ThreadSets DEF Callback, Moved, ControlTypes
    <2>2. Phase(g)' # "build"
        BY <2>1, PhaseNext
    <2> QED
        BY <1>1, <2>1, <2>2, ThreadSets
<1>10. ASSUME NEW g \in Chans, ReconnectBegin(g) \/ StopBegin(g) PROVE Retries'
    <2>1. PICK j \in {"rLoop", "stopClose"} : ret' = [ret EXCEPT ![g].join = j]
        BY <1>10 DEF ReconnectBegin, StopBegin, CallStopWatchdog
    <2>2. /\ UNCHANGED <<count, retry>> /\ pc' = [pc EXCEPT ![g] = "stopWd"]
          /\ pc[g] \in {"rEpoch", "stop"}
        BY <1>10 DEF ReconnectBegin, StopBegin, CallStopWatchdog
    <2>3. Moved(g, "stopWd")
        BY <2>1, <2>2 DEF Moved
    <2>4. pc'[g] = "stopWd" /\ ret'[g].join = j
        BY <2>1, <2>3, MovedAlone, ThreadSets DEF ControlTypes, Labels
    <2>5. Phase(g)' # "build"
        BY <2>1, <2>4, PhaseNext
    <2> QED
        BY <1>2, <2>2, <2>3, <2>5, ThreadSets
<1>11. ASSUME NEW g \in Chans, ReconnectLoop(g) PROVE Retries'
    <2>1. PICK label \in {"rClose", "stop"} : /\ pc' = [pc EXCEPT ![g] = label]
                                              /\ label = "rClose" => retry[g] < MaxRetries
        BY <1>11 DEF ReconnectLoop
    <2>2. UNCHANGED <<ret, count, retry>> /\ pc[g] = "rLoop"
        BY <1>11 DEF ReconnectLoop
    <2>3. Moved(g, label) /\ pc'[g] = label
        BY <2>1, <2>2, MovedAlone, ThreadSets DEF Moved
    <2>4. Phase(g)' # "build"
        BY <2>3, PhaseNext
    <2> QED
        BY <1>1, <2>1, <2>2, <2>3, <2>4, ThreadSets
<1>12. ASSUME NEW g \in Chans, ReconnectClose(g) \/ ReconnectClear(g) \/ ReconnectWakes(g)
       PROVE  Retries'
    <2>1. PICK label \in {"rClear", "rSleep", "stop", "stopWd"} : pc' = [pc EXCEPT ![g] = label]
        BY <1>12 DEF ReconnectClose, ReconnectClear, ReconnectWakes, CallTeardown
    <2>2. UNCHANGED <<count, retry>> /\ pc[g] \in {"rClose", "rClear", "rSleep"}
        BY <1>12 DEF ReconnectClose, ReconnectClear, ReconnectWakes
    <2>3. ret' = ret \/ \E r : ret' = [ret EXCEPT ![g] = r]
        BY <1>12 DEF ReconnectClose, ReconnectClear, ReconnectWakes, CallTeardown
    <2>4. Moved(g, label)
        BY <2>1, <2>2, <2>3 DEF Moved
    <2> QED
        BY <1>2, <2>1, <2>2, <2>4, ThreadSets
<1>13. ASSUME NEW g \in Chans, ReconnectFailed(g) PROVE Retries'
    <2>1. PICK label \in {"rLoop", "stop"} : pc' = [pc EXCEPT ![g] = label]
        BY <1>13 DEF ReconnectFailed
    <2>2. Moved(g, label) /\ UNCHANGED count /\ pc[g] = "failed"
        BY <1>13, <2>1 DEF ReconnectFailed, Moved
    <2>3. pc'[g] = label
        BY <2>2, MovedAlone, ThreadSets
    <2>4. Phase(g)' # "build"
        BY <2>3, PhaseNext
    <2> QED
        BY <1>1, <2>1, <2>2, <2>4, ThreadSets
<1>14. ASSUME NEW g \in Chans, StopClose(g) PROVE Retries'
    <2>1. Moved(g, "done") /\ UNCHANGED <<count, retry>> /\ pc'[g] = "done" /\ pc[g] = "stopClose"
        BY <1>14, ThreadSets DEF StopClose, Moved, ControlTypes
    <2>2. Phase(g)' # "build"
        BY <2>1, PhaseNext
    <2> QED
        BY <1>2, <2>1, <2>2, ThreadSets
<1>15. ASSUME UNCHANGED <<pc, ret, count, retry>> PROVE Retries'
    <2>1. \A u \in Threads : Phase(u)' = Phase(u)
        BY <1>15, PhaseStays
    <2> QED
        BY <1>15, <2>1, ThreadSets DEF Retries
<1>16. ASSUME NEW g \in Chans, NEW s, Dies(g, s) PROVE Retries'
    BY <1>15, <1>16 DEF Dies, threadVars
<1>17. CASE Watchdog \/ UNCHANGED coreVars
    BY <1>15, <1>17, WatchdogFrame DEF coreVars, threadVars
<1> QED
    BY <1>3, <1>4, <1>5, <1>6, <1>7, <1>8, <1>9, <1>10, <1>11, <1>12, <1>13, <1>14, <1>16, <1>17,
       StepCases

\* The types of the variables that ControlTypes does not name, without the bounds
\* that only histories kept apart have.
LooseTypes ==
    /\ wdRunning \in BOOLEAN /\ wdThread \in BOOLEAN /\ epoch \in Nat /\ wepoch \in Nat
    /\ conn \in [Chans -> Seq(Sockets)] /\ live \in [Chans -> SUBSET Nat]
    /\ \A g \in Chans : live[g] \subseteq DOMAIN conn[g]
    /\ socks \in Seq(Sockets) /\ made \in 0..MaxSockets /\ closes \in [Sockets -> 0..2]
    /\ wpc \in WPcs /\ wdead \subseteq Nat \ {0} /\ wslot \in Nat \ {0}
    /\ wsock \subseteq Sockets /\ wseen \in 0..MaxVcs

\* SocketClose and close() keep them.
LEMMA LooseCloses ==
    ASSUME LooseTypes
    PROVE  /\ \A S : Closing(S) \in [Sockets -> 0..2]
           /\ CloseVc => /\ closes' \in [Sockets -> 0..2] /\ live' \in [Chans -> SUBSET Nat]
                         /\ \A g \in Chans : live'[g] \subseteq live[g]
<1>1. \A S : Closing(S) \in [Sockets -> 0..2]
    BY DEF LooseTypes, Closing
<1>2. ASSUME CloseVc PROVE closes' \in [Sockets -> 0..2]
    BY <1>1, <1>2 DEF LooseTypes, CloseVc
<1>3. ASSUME CloseVc PROVE /\ live' \in [Chans -> SUBSET Nat]
                           /\ \A g \in Chans : live'[g] \subseteq live[g]
    BY <1>3 DEF LooseTypes, CloseVc
<1> QED
    BY <1>1, <1>2, <1>3

\* The watchdog's steps keep them, in whatever channel it puts its socket.
LEMMA LooseWatchdog ==
    ASSUME ControlTypes, LooseTypes, Watchdog
    PROVE  LooseTypes'
<1>0. UNCHANGED <<wdRunning, wdThread, epoch, vc>>
    BY WatchdogFrame
<1>1. CASE WatchdogWakes \/ SlotFails \/ SlotGoesOn \/ SlotBinds \/ SlotChecks
    <2>1. UNCHANGED <<conn, live, socks, made, closes, wdead, wslot, wepoch, wsock, wseen>>
        BY <1>1 DEF WatchdogWakes, SlotFails, SlotGoesOn, SlotBinds, SlotChecks, chanVars, sockVars
    <2>2. wpc' \in WPcs
        BY <1>1 DEF WatchdogWakes, SlotFails, SlotGoesOn, SlotBinds, SlotChecks, WPcs
    <2> QED
        BY <1>0, <2>1, <2>2 DEF LooseTypes
<1>2. CASE WatchdogScan
    <2>1. /\ UNCHANGED <<conn, live, socks, made, closes, wslot, wepoch, wsock>>
          /\ wpc' \in {"slots", "sleep"}
          /\ \/ vc \in Chans /\ wdead' = DOMAIN conn[vc] \ live[vc] /\ wseen' = vc
             \/ UNCHANGED <<wdead, wseen>>
        BY <1>2 DEF WatchdogScan, VcOpen, chanVars, sockVars
    <2>2. wdead' \subseteq Nat \ {0}
        <3>1. ASSUME vc \in Chans PROVE DOMAIN conn[vc] \subseteq Nat \ {0}
            <4>1. conn[vc] \in Seq(Sockets)
                BY <3>1 DEF LooseTypes
            <4> QED
                BY <4>1
        <3> QED
            BY <2>1, <3>1 DEF LooseTypes
    <2>3. wseen' \in 0..MaxVcs
        BY <2>1 DEF LooseTypes, Chans
    <2> QED
        BY <1>0, <2>1, <2>2, <2>3 DEF LooseTypes, WPcs
<1>3. CASE SlotsDone
    BY <1>0, <1>3 DEF SlotsDone, LooseTypes, WPcs, chanVars, sockVars
<1>4. CASE SlotBegin
    <2>1. /\ UNCHANGED <<conn, live, socks, made, closes, wsock, wseen>> /\ wpc' = "dial"
          /\ wdead' \subseteq wdead /\ wepoch' = epoch /\ wslot' \in wdead
        BY <1>4 DEF SlotBegin, chanVars, sockVars
    <2> QED
        BY <1>0, <2>1 DEF LooseTypes, WPcs
<1>5. CASE SlotDials
    <2>1. /\ UNCHANGED <<conn, live, socks, closes, wdead, wslot, wepoch, wseen>>
          /\ made < MaxSockets /\ made' = made + 1 /\ wsock' = {made + 1} /\ wpc' = "dialled"
        BY <1>5 DEF SlotDials, chanVars
    <2>2. made' \in 0..MaxSockets /\ made + 1 \in Sockets
        BY <2>1 DEF LooseTypes, Sockets
    <2> QED
        BY <1>0, <2>1, <2>2 DEF LooseTypes, WPcs
<1>6. CASE SlotDrops
    <2>1. /\ UNCHANGED <<conn, live, socks, made, wdead, wslot, wepoch, wseen>>
          /\ closes' = Closing(wsock) /\ wsock' = {} /\ wpc' = "slots"
        BY <1>6 DEF SlotDrops, chanVars, sockVars
    <2> QED
        BY <1>0, <2>1, LooseCloses DEF LooseTypes, WPcs
<1>7. CASE SlotReplaced
    <2>1. PICK n \in wsock :
             /\ conn' = [conn EXCEPT ![vc] = [i \in DOMAIN conn[vc] |->
                                                  IF i = wslot THEN n ELSE conn[vc][i]]]
             /\ socks' = [i \in DOMAIN socks |-> IF i = wslot THEN n ELSE socks[i]]
        BY <1>7 DEF SlotReplaced
    <2>2. /\ UNCHANGED <<made, wdead, wslot, wepoch, wseen>> /\ wsock' = {} /\ wpc' = "slots"
          /\ live' = [live EXCEPT ![vc] = live[vc] \cup ({wslot} \cap DOMAIN conn[vc])]
          /\ \E S : closes' = Closing(S)
        BY <1>7 DEF SlotReplaced
    <2>3. closes' \in [Sockets -> 0..2]
        BY <2>2, LooseCloses
    <2>4. n \in Sockets /\ socks \in Seq(Sockets) /\ wslot \in Nat
        BY <2>1 DEF LooseTypes
    <2>5. socks' \in Seq(Sockets)
        BY <2>1, <2>4, ReplacedTypes
    <2>6. /\ conn' \in [Chans -> Seq(Sockets)] /\ live' \in [Chans -> SUBSET Nat]
          /\ \A g \in Chans : live'[g] \subseteq DOMAIN conn'[g]
        <3>1. CASE vc \notin Chans
            BY <2>1, <2>2, <3>1 DEF LooseTypes
        <3>2. CASE vc \in Chans
            <4>1. conn[vc] \in Seq(Sockets)
                BY <3>2 DEF LooseTypes
            <4>2. PICK q : q = [i \in DOMAIN conn[vc] |-> IF i = wslot THEN n ELSE conn[vc][i]]
                OBVIOUS
            <4>3. q \in Seq(Sockets) /\ DOMAIN q = DOMAIN conn[vc]
                BY <2>4, <4>1, <4>2, ReplacedTypes
            <4>4. conn' = [conn EXCEPT ![vc] = q]
                BY <2>1, <4>2
            <4>5. conn' \in [Chans -> Seq(Sockets)] /\ live' \in [Chans -> SUBSET Nat]
                BY <2>2, <2>4, <4>3, <4>4 DEF LooseTypes
            <4>6. \A g \in Chans : live'[g] \subseteq DOMAIN conn'[g]
                BY <2>2, <3>2, <4>3, <4>4 DEF LooseTypes
            <4> QED
                BY <4>5, <4>6
        <3> QED
            BY <3>1, <3>2
    <2> QED
        BY <1>0, <2>2, <2>3, <2>5, <2>6 DEF LooseTypes, WPcs
<1> QED
    BY <1>1, <1>2, <1>3, <1>4, <1>5, <1>6, <1>7 DEF Watchdog

\* So does every step.
LEMMA LooseTypesKept ==
    ASSUME ControlTypes, LooseTypes, [Next]_vars
    PROVE  LooseTypes'
<1>1. ASSUME UNCHANGED <<conn, live, socks, made, closes, wpc, wdead, wslot, wepoch, wsock, wseen,
                         wdThread>>,
             wdRunning' \in BOOLEAN, epoch' \in Nat
      PROVE  LooseTypes'
    BY <1>1 DEF LooseTypes
<1>2. wdRunning \in BOOLEAN /\ epoch \in Nat /\ epoch + 1 \in Nat
    BY DEF LooseTypes
<1> USE DEF chanVars, sockVars, wdVars
<1>3. ASSUME NEW t \in Threads, StopFlag(t) \/ ConnectFails(t) \/ OpenBegin(t) \/ OpenEnd(t) \/ Crashing(t)
      PROVE  LooseTypes'
    BY <1>1, <1>2, <1>3 DEF StopFlag, ConnectFails, OpenBegin, OpenEnd, Crashing, OpenCrashes,
       StartCrashes
<1>4. CASE Start \/ StartFails \/ UdpBound \/ UdpFails \/ MainWakes \/ ForwardEnds
    BY <1>1, <1>2, <1>4 DEF Start, StartFails, UdpBound, UdpFails, MainWakes, ForwardEnds
<1>5. ASSUME NEW t \in Threads, \/ Callback(t) \/ ReconnectBegin(t) \/ ReconnectLoop(t)
                               \/ ReconnectWakes(t) \/ ReconnectFailed(t) \/ StopBegin(t)
      PROVE  LooseTypes'
    BY <1>1, <1>2, <1>5 DEF Callback, ReconnectBegin, ReconnectLoop, ReconnectWakes, ReconnectFailed,
       StopBegin
<1>6. ASSUME NEW t \in Threads, StopJoin(t) \/ StartWatchdog(t) PROVE LooseTypes'
    <2>1. /\ UNCHANGED <<conn, live, socks, made, closes, wdead, wslot, wepoch, wsock, wseen, epoch>>
          /\ wpc' \in {wpc, "sleep"}
        BY <1>6 DEF StopJoin, StartWatchdog
    <2>2. wdRunning' \in BOOLEAN /\ wdThread' \in BOOLEAN
        BY <1>2, <1>6 DEF StopJoin, StartWatchdog
    <2> QED
        BY <2>1, <2>2 DEF LooseTypes, WPcs
<1>7. ASSUME NEW t \in Threads, TearClose(t) \/ ReconnectClose(t) \/ StopClose(t) PROVE LooseTypes'
    <2>1. /\ UNCHANGED <<conn, socks, made, wpc, wdead, wslot, wepoch, wsock, wseen, wdRunning,
                         wdThread, epoch>>
          /\ CloseVc
        BY <1>7 DEF TearClose, ReconnectClose, StopClose
    <2> QED
        BY <2>1, LooseCloses DEF LooseTypes
<1>8. ASSUME NEW t \in Threads, TearForget(t) \/ ReconnectClear(t) PROVE LooseTypes'
    <2>1. /\ UNCHANGED <<conn, live, made, wpc, wdead, wslot, wepoch, wsock, wseen, wdRunning,
                         wdThread, epoch>>
          /\ socks' = << >>
        BY <1>8 DEF TearForget, ReconnectClear
    <2>2. closes' \in [Sockets -> 0..2]
        BY <1>8, LooseCloses DEF TearForget, ReconnectClear, LooseTypes
    <2>3. socks' \in Seq(Sockets)
        BY <2>1
    <2> QED
        BY <2>1, <2>2, <2>3 DEF LooseTypes
<1>9. ASSUME NEW t \in Threads, Connect(t) PROVE LooseTypes'
    <2>1. /\ UNCHANGED <<conn, live, closes, wpc, wdead, wslot, wepoch, wsock, wseen, wdRunning,
                         wdThread, epoch>>
          /\ made < MaxSockets /\ made' = made + 1 /\ socks' = Append(socks, made + 1)
        BY <1>9 DEF Connect
    <2>2. made + 1 \in Sockets /\ made' \in 0..MaxSockets
        BY <2>1 DEF LooseTypes, Sockets
    <2>3. socks' \in Seq(Sockets)
        BY <2>1, <2>2 DEF LooseTypes
    <2> QED
        BY <2>1, <2>2, <2>3 DEF LooseTypes
<1>10. ASSUME NEW t \in Threads, Publish(t) PROVE LooseTypes'
    <2>1. PICK g \in Chans : /\ conn' = [conn EXCEPT ![g] = socks]
                             /\ live' = [live EXCEPT ![g] = DOMAIN socks]
        BY <1>10 DEF Publish
    <2>2. UNCHANGED <<socks, made, closes, wpc, wdead, wslot, wepoch, wsock, wseen, wdRunning,
                      wdThread, epoch>>
        BY <1>10 DEF Publish
    <2>3. DOMAIN socks \in SUBSET Nat
        BY DEF LooseTypes
    <2>4. conn' \in [Chans -> Seq(Sockets)] /\ live' \in [Chans -> SUBSET Nat]
        BY <2>1, <2>3 DEF LooseTypes
    <2>5. \A h \in Chans : live'[h] \subseteq DOMAIN conn'[h]
        BY <2>1 DEF LooseTypes
    <2> QED
        BY <2>2, <2>4, <2>5 DEF LooseTypes
<1>11. ASSUME NEW g \in Chans, NEW s, Dies(g, s) PROVE LooseTypes'
    <2>1. /\ UNCHANGED <<conn, socks, made, wpc, wdead, wslot, wepoch, wsock, wseen, wdRunning,
                         wdThread, epoch>>
          /\ live' = [live EXCEPT ![g] = live[g] \ {s}] /\ closes' = Closing({conn[g][s]})
        BY <1>11 DEF Dies
    <2> QED
        BY <2>1, LooseCloses DEF LooseTypes
<1>12. CASE UNCHANGED coreVars
    BY <1>1, <1>2, <1>12 DEF coreVars
<1> QED
    BY <1>3, <1>4, <1>5, <1>6, <1>7, <1>8, <1>9, <1>10, <1>11, <1>12, LooseWatchdog, StepCases,
       ThreadSets

\* What a step does to udpStale and to the history.
SideTypes == udpStale \in BOOLEAN /\ overlaps \subseteq {"udp", "sleep"}

\* Only udpSocket and the timing change them.
LEMMA SideTypesKept ==
    ASSUME SideTypes, [Next]_vars
    PROVE  SideTypes'
<1> USE DEF sideVars
<1>0. \A kind \in {"udp", "sleep"} : \A c : Overlap(kind, c) => overlaps' \subseteq {"udp", "sleep"}
    BY DEF Overlap, SideTypes
<1>1. ASSUME NEW t \in Threads, Teardown(t) PROVE UNCHANGED sideVars
    BY <1>1 DEF Teardown, StopFlag, StopJoin, TearClose, TearForget
<1>2. ASSUME NEW t \in Threads, Prepare(t) PROVE UNCHANGED sideVars
    BY <1>2 DEF Prepare, Connect, ConnectFails, Publish, OpenBegin, OpenEnd, StartWatchdog,
       OpenCrashes, StartCrashes
<1>3. CASE UdpFails \/ UdpCloses \/ MainWakes
    <2>1. udpStale' \in BOOLEAN
        BY <1>3 DEF UdpFails, UdpCloses, MainWakes, SideTypes
    <2>2. overlaps' \subseteq {"udp", "sleep"}
        <3>1. CASE UdpFails
            BY <1>0, <3>1 DEF UdpFails
        <3>2. CASE UdpCloses
            BY <3>2 DEF UdpCloses, SideTypes
        <3>3. CASE MainWakes
            BY <1>0, <3>3 DEF MainWakes
        <3> QED
            BY <1>3, <3>1, <3>2, <3>3
    <2> QED
        BY <2>1, <2>2 DEF SideTypes
<1>4. ASSUME NEW g \in Chans, ReconnectWakes(g) PROVE SideTypes'
    BY <1>0, <1>4 DEF ReconnectWakes, SideTypes
<1>5. ASSUME NEW g \in Chans, NEW s, Dies(g, s) PROVE SideTypes'
    BY <1>0, <1>5 DEF Dies, SideTypes
<1>6. ASSUME UNCHANGED sideVars PROVE SideTypes'
    BY <1>6 DEF SideTypes
<1>7. ASSUME NEW g \in Chans, \/ Callback(g) \/ ReconnectBegin(g) \/ ReconnectLoop(g)
                              \/ ReconnectClose(g) \/ ReconnectClear(g) \/ ReconnectFailed(g)
                              \/ StopBegin(g) \/ StopClose(g)
      PROVE  SideTypes'
    BY <1>6, <1>7 DEF Callback, ReconnectBegin, ReconnectLoop, ReconnectClose, ReconnectClear,
       ReconnectFailed, StopBegin, StopClose
<1>8. CASE Watchdog
    BY <1>6, <1>8 DEF Watchdog, WatchdogWakes, WatchdogScan, SlotsDone, SlotBegin, SlotFails,
       SlotDials, SlotDrops, SlotGoesOn, SlotBinds, SlotChecks, SlotReplaced
<1>9. CASE Start \/ StartFails \/ UdpBound \/ ForwardEnds
    BY <1>6, <1>9 DEF Start, StartFails, UdpBound, ForwardEnds
<1>10. CASE UNCHANGED vars
    BY <1>6, <1>10 DEF vars
<1> QED
    BY <1>1, <1>2, <1>3, <1>4, <1>5, <1>6, <1>7, <1>8, <1>9, <1>10, ThreadSets
       DEF Next, Step, Ended, MainThread, ReconnectThread

Loose == ControlTypes /\ Retries /\ LooseTypes /\ SideTypes

\* The client starts with them.
LEMMA LooseInit ==
    ASSUME Init
    PROVE  Loose
<1>1. Inv
    BY InvInit
<1>2. ControlTypes /\ Retries
    BY <1>1 DEF Inv, Control, Tries, Retries
<1>3. LooseTypes
    BY <1>1 DEF Init, Inv, DataTypes, LooseTypes
<1>4. SideTypes
    BY DEF Init, SideTypes
<1> QED
    BY <1>2, <1>3, <1>4 DEF Loose

\* In every history, overlaps or not, the client's variables keep their types; in
\* particular the thread that reconnects never makes more than maxRetries attempts.
THEOREM ClientTypes == Spec => []TypeOK
<1>1. Loose /\ [Next]_vars => Loose'
    BY ControlTypesKept, RetriesKept, LooseTypesKept, SideTypesKept DEF Loose
<1>2. Loose => TypeOK
    <2> SUFFICES ASSUME Loose PROVE TypeOK
        OBVIOUS
    <2>1. ControlTypes /\ LooseTypes /\ SideTypes
        BY DEF Loose
    <2>2. ret \in [Threads -> [join : {"tdClose", "rLoop", "stopClose"},
                               down : {"connect", "failed", "asleep"}]]
        BY <2>1 DEF ControlTypes, Labels
    <2>3. st \in [Chans -> {"none", "new", "opening", "open", "dying", "down"}]
        BY <2>1 DEF ControlTypes, States
    <2>4. \A g \in Chans : conn[g] \in Seq(Sockets) /\ live[g] \subseteq DOMAIN conn[g]
        BY <2>1 DEF LooseTypes
    <2> QED
        BY <2>1, <2>2, <2>3, <2>4 DEF ControlTypes, LooseTypes, SideTypes, TypeOK
<1> QED
    BY <1>1, <1>2, LooseInit, PTL DEF Spec

\* In every history, once watchdogRunning is cleared every step of the watchdog
\* brings it nearer to the end of its thread, until somebody starts another.
THEOREM WatchdogWindsDown == Spec => WindsDown
<1>1. [Next]_vars => [~wdRunning /\ ~wdRunning' /\ wpc' # wpc => Rank[wpc'] < Rank[wpc]]_vars
    <2> SUFFICES ASSUME [Next]_vars, ~wdRunning, ~wdRunning', wpc' # wpc
                 PROVE  Rank[wpc'] < Rank[wpc]
        OBVIOUS
    <2>1. Watchdog
        <3> USE DEF wdVars
        <3>1. ASSUME NEW t \in Threads, \/ StopFlag(t) \/ StopJoin(t) \/ TearClose(t) \/ TearForget(t)
                                        \/ Connect(t) \/ ConnectFails(t) \/ Publish(t)
                                        \/ OpenBegin(t) \/ OpenEnd(t) \/ StartWatchdog(t) \/ Crashing(t)
              PROVE  FALSE
            BY <3>1 DEF StopFlag, StopJoin, TearClose, TearForget, Connect, ConnectFails, Publish,
               OpenBegin, OpenEnd, StartWatchdog, Crashing, OpenCrashes, StartCrashes
        <3>2. CASE Start \/ StartFails \/ UdpBound \/ UdpFails \/ MainWakes \/ ForwardEnds
            BY <3>2 DEF Start, StartFails, UdpBound, UdpFails, MainWakes, ForwardEnds
        <3>3. ASSUME NEW g \in Chans, \/ Callback(g) \/ ReconnectBegin(g) \/ ReconnectLoop(g)
                                      \/ ReconnectClose(g) \/ ReconnectClear(g) \/ ReconnectWakes(g)
                                      \/ ReconnectFailed(g) \/ StopBegin(g) \/ StopClose(g)
              PROVE  FALSE
            BY <3>3 DEF Callback, ReconnectBegin, ReconnectLoop, ReconnectClose, ReconnectClear,
               ReconnectWakes, ReconnectFailed, StopBegin, StopClose
        <3>4. ASSUME NEW g \in Chans, NEW s, Dies(g, s) PROVE FALSE
            BY <3>4 DEF Dies
        <3>5. CASE UNCHANGED coreVars
            BY <3>5 DEF coreVars
        <3> QED
            BY <3>1, <3>2, <3>3, <3>4, <3>5, StepCases
    <2>2. CASE WatchdogWakes \/ SlotsDone
        BY <2>2 DEF WatchdogWakes, SlotsDone, Rank
    <2>3. CASE WatchdogScan
        BY <2>3 DEF WatchdogScan, Rank
    <2>4. CASE SlotBegin \/ SlotDials \/ SlotGoesOn
        BY <2>4 DEF SlotBegin, SlotDials, SlotGoesOn
    <2>5. CASE SlotFails \/ SlotBinds \/ SlotChecks \/ SlotReplaced
        BY <2>5 DEF SlotFails, SlotBinds, SlotChecks, SlotReplaced, Rank
    <2>6. CASE SlotDrops
        BY <2>6 DEF SlotDrops, Rank
    <2> QED
        BY <2>1, <2>2, <2>3, <2>4, <2>5, <2>6 DEF Watchdog
<1> QED
    BY <1>1, PTL DEF Spec, WindsDown
==============================================================================
