---------------------------- MODULE ServerSession ----------------------------
(***************************************************************************)
(* The server and one client: how accepted connections become the slots of *)
(* a virtual channel, how a single slot is replaced, and how the channel   *)
(* goes away.                                                              *)
(*                                                                         *)
(* The accept loop runs in one thread; the disconnect callback of a        *)
(* channel runs in a thread of that channel.  They share the peer, the     *)
(* entry of VcManager and clientConnSlots.  Descriptors are numbers that   *)
(* the kernel gives out again: desc says which connection or UDP socket is *)
(* behind each one, and whoever keeps a descriptor is modelled with the    *)
(* connection it meant.  The client is the environment: what it sends      *)
(* follows Client.cpp.  Connection ids are the numbers of the connections  *)
(* they were made for; slot 0 stands for the slotIndex -1.                 *)
(***************************************************************************)
EXTENDS Naturals, Sequences, FiniteSets

CONSTANTS NConn,     \* VC_TCP_CONNECTIONS
          NFd,       \* descriptors of the process
          MaxConns,  \* bound: connections the client makes
          MaxVcs     \* bound: channels the server creates

ASSUME ServerConstants ==
    /\ NConn \in Nat \ {0} /\ NFd \in Nat \ {0}
    /\ MaxConns \in Nat /\ MaxVcs \in Nat

Fds == 1..NFd
Slots == 1..NConn
Conns == 1..MaxConns
Chans == 1..MaxVcs
Udp(g) == MaxConns + g              \* the UDP socket of channel g, in desc
Entries == [fd : Fds, conn : Conns] \* a kept descriptor and what it was for

VARIABLES
    desc,     \* the kernel's table: what each descriptor refers to, 0 if free
    cut,      \* connections that one of their ends has closed or lost
    backlog,  \* connections not yet accepted, each with its MsgBind
    pc,       \* where the accept loop is
    hand,     \* clientSocket and bindMsg (none or one)
    evc,      \* existingVc, or the channel under construction
    peer,     \* peers[clientId]: none, or one sequence of sockets
    mgr,      \* vcs[clientId]: the number of the channel, 0 if absent
    s2c,      \* socketToConnId
    slotMap,  \* clientConnSlots[clientId]
    st,       \* each channel: none, new, opening, open or down
    conn,     \* its connections
    live,     \* its slots that are connected
    cb,       \* where its disconnect callback is
    udp,      \* its UDP socket's descriptor, 0 if it has none
    stray,    \* history: a close hit a descriptor that was not the closer's
    cslots,   \* the client's connection in each slot (0: none)
    cid,      \* the client's tcpConnectionIds
    cnum,     \* connections of the client's current attempt
    used,     \* connections made so far
    orderly   \* history: attempts neither abandoned half-made nor hurried (see The client)

kernelVars == <<desc, cut, stray>>
loopVars == <<pc, hand, evc>>
tableVars == <<peer, mgr, s2c, slotMap>>
chanVars == <<st, conn, live, udp>>
clientVars == <<cslots, cid, cnum, used, orderly>>
vars == <<kernelVars, backlog, loopVars, tableVars, chanVars, cb, clientVars>>

Init ==
    /\ desc = [f \in Fds |-> 0] /\ cut = {} /\ stray = FALSE /\ backlog = <<>>
    /\ pc = "accept" /\ hand = {} /\ evc = 0
    /\ peer = {} /\ mgr = 0 /\ s2c = <<>> /\ slotMap = <<>>
    /\ st = [g \in Chans |-> "none"] /\ conn = [g \in Chans |-> <<>>]
    /\ live = [g \in Chans |-> {}] /\ udp = [g \in Chans |-> 0]
    /\ cb = [g \in Chans |-> "none"]
    /\ cslots = [s \in Slots |-> 0] /\ cid = [s \in Slots |-> 0] /\ cnum = 0 /\ used = 0
    /\ orderly = TRUE
------------------------------------------------------------------------------
(***************************************************************************)
(* Descriptors.                                                            *)
(***************************************************************************)
Free == {f \in Fds : desc[f] = 0}
Lowest == CHOOSE f \in Free : \A e \in Free : f <= e

\* SocketClose on the descriptors of E, whatever is behind them now.
CloseAll(E) ==
    LET fds == {e.fd : e \in E} IN
    /\ desc' = [f \in Fds |-> IF f \in fds THEN 0 ELSE desc[f]]
    /\ cut' = cut \cup ({desc[f] : f \in fds} \cap Conns)
    /\ stray' = (stray \/ \E e \in E : desc[e.fd] # e.conn)

LiveOf(g) == {conn[g][s] : s \in live[g]}

Held == CHOOSE h \in hand : TRUE
HandEntry == [fd |-> Held.fd, conn |-> Held.conn]
------------------------------------------------------------------------------
(***************************************************************************)
(* The client, as the server sees it.                                      *)
(*                                                                         *)
(* A history is orderly as long as                                         *)
(*  - the client gives up no attempt half-way: the server would keep its   *)
(*    sockets and build the next channel on them, however long the client  *)
(*    waits;                                                               *)
(*  - single connections fail only while another one keeps the server's    *)
(*    channel up, and all fail only when nothing is under way;             *)
(*  - the client's three seconds before a new attempt are enough for the   *)
(*    server to notice the failure and forget the old channel.             *)
(* Every step is possible whether it is orderly or not.                    *)
(***************************************************************************)
ServerQuiet ==
    /\ pc = "accept" /\ backlog = <<>>
    /\ \A g \in Chans : cb[g] \in {"none", "done"}

\* PrepareVC: one more initial connection.
ClientConnects ==
    /\ cnum < NConn /\ used < MaxConns
    /\ used' = used + 1 /\ cnum' = cnum + 1
    /\ cslots' = [cslots EXCEPT ![cnum + 1] = used + 1]
    /\ cid' = [cid EXCEPT ![cnum + 1] = used + 1]
    /\ backlog' = Append(backlog, [conn |-> used + 1, slot |-> 0, id |-> used + 1])
    /\ UNCHANGED <<kernelVars, loopVars, tableVars, chanVars, cb, orderly>>

\* ReconnectSingleSlot: the old id is sent, a new one is only remembered.
ClientReplaces(s) ==
    /\ cnum = NConn /\ used < MaxConns
    /\ cslots[s] \in cut /\ \E u \in Slots : cslots[u] \notin cut
    /\ used' = used + 1
    /\ cslots' = [cslots EXCEPT ![s] = used + 1]
    /\ cid' = [cid EXCEPT ![s] = used + 1]
    /\ backlog' = Append(backlog, [conn |-> used + 1, slot |-> s, id |-> cid[s]])
    /\ UNCHANGED <<kernelVars, loopVars, tableVars, chanVars, cb, cnum, orderly>>

\* TeardownVc or ReconnectVC: the client closes what it has and starts over.
ClientRestarts ==
    /\ cnum > 0
    /\ orderly' = /\ orderly /\ ServerQuiet /\ mgr = 0
                  /\ \A s \in Slots : cslots[s] \in cut
    /\ cut' = cut \cup {cslots[s] : s \in 1..cnum}
    /\ cslots' = [s \in Slots |-> 0] /\ cid' = [s \in Slots |-> 0] /\ cnum' = 0
    /\ UNCHANGED <<desc, stray, backlog, loopVars, tableVars, chanVars, cb, used>>

\* One connection fails.
Cut(s) ==
    /\ cslots[s] \notin cut \cup {0}
    /\ orderly' = /\ orderly /\ cnum = NConn
                  /\ \E g \in Chans, u \in Slots \ {s} :
                         /\ g = mgr /\ st[g] = "open" /\ u \in live[g]
                         /\ conn[g][u].conn = cslots[u] /\ cslots[u] \notin cut
    /\ cut' = cut \cup {cslots[s]}
    /\ UNCHANGED <<desc, stray, backlog, loopVars, tableVars, chanVars, cb, cslots, cid,
                   cnum, used>>

\* All connections fail.
Outage ==
    /\ cnum = NConn /\ \E s \in Slots : cslots[s] \notin cut
    /\ orderly' = (orderly /\ ServerQuiet /\ mgr # 0)
    /\ cut' = cut \cup {cslots[s] : s \in Slots}
    /\ UNCHANGED <<desc, stray, backlog, loopVars, tableVars, chanVars, cb, cslots, cid,
                   cnum, used>>
------------------------------------------------------------------------------
(***************************************************************************)
(* The accept loop.                                                        *)
(***************************************************************************)
\* A connection is accepted and its MsgBind read.
Accept ==
    /\ pc = "accept" /\ backlog # <<>> /\ Free # {}
    /\ desc' = [desc EXCEPT ![Lowest] = Head(backlog).conn]
    /\ hand' = {[fd |-> Lowest, conn |-> Head(backlog).conn, slot |-> Head(backlog).slot,
                 id |-> Head(backlog).id]}
    /\ backlog' = Tail(backlog)
    /\ pc' = "lookup"
    /\ UNCHANGED <<cut, stray, evc, tableVars, chanVars, cb, clientVars>>

\* The connection failed before its MsgBind could be read.
BindFails ==
    /\ pc = "lookup" /\ Held.conn \in cut
    /\ CloseAll({HandEntry})
    /\ hand' = {}
    /\ pc' = "accept"
    /\ UNCHANGED <<backlog, evc, tableVars, chanVars, cb, clientVars>>

\* VcManager::Get(clientId).
Lookup ==
    /\ pc = "lookup"
    /\ evc' = mgr
    /\ pc' = IF mgr = 0 THEN "register" ELSE IF Held.slot = 0 THEN "takeover" ELSE "replace"
    /\ UNCHANGED <<kernelVars, backlog, hand, tableVars, chanVars, cb, clientVars>>

\* An initial connection although the client has a channel: close() it.
TakeoverClose ==
    /\ pc = "takeover"
    /\ CloseAll(IF st[evc] = "open" THEN LiveOf(evc) ELSE {})
    /\ live' = [live EXCEPT ![evc] = IF st[evc] = "open" THEN {} ELSE @]
    /\ st' = [st EXCEPT ![evc] = IF @ = "open" THEN "down" ELSE @]
    /\ pc' = "forget"
    /\ UNCHANGED <<backlog, hand, evc, tableVars, conn, udp, cb, clientVars>>

TakeoverForget ==
    /\ pc = "forget"
    /\ mgr' = 0
    /\ pc' = "register"
    /\ UNCHANGED <<kernelVars, backlog, hand, evc, peer, s2c, slotMap, chanVars, cb,
                   clientVars>>

\* Mutant: the slotIndex is off by one.
DecideOffByOne(connIdSlot, slotIndex, dead) ==
    IF connIdSlot # 0 THEN connIdSlot
    ELSE IF slotIndex + 1 \in Slots THEN slotIndex + 1
    ELSE IF dead # {} THEN CHOOSE s \in dead : \A u \in dead : s <= u
    ELSE 0

\* Which slot a replacement goes to (0: none).
DecideReplaceSlot(connIdSlot, slotIndex, dead) ==
    IF connIdSlot # 0 THEN connIdSlot
    ELSE IF slotIndex \in Slots THEN slotIndex
    ELSE IF dead # {} THEN CHOOSE s \in dead : \A u \in dead : s <= u
    ELSE 0

Target == DecideReplaceSlot(IF Held.id \in DOMAIN slotMap THEN slotMap[Held.id] ELSE 0,
                            Held.slot, Slots \ live[evc])

\* replaceConnection, and clientConnSlots brought up to date.  The connection
\* that was in the slot is closed if it still was connected (by its destructor,
\* once the channel's threads let go of it; here at once); the new one is if it
\* has no slot to go to.
Replace ==
    /\ pc = "replace"
    /\ CloseAll(IF Target = 0 THEN {HandEntry} ELSE {conn[evc][s] : s \in live[evc] \cap {Target}})
    /\ conn' = [conn EXCEPT ![evc] = [s \in Slots |-> IF s = Target THEN HandEntry ELSE @[s]]]
    /\ live' = [live EXCEPT ![evc] = @ \cup ({Target} \ {0})]
    /\ slotMap' = IF Target = 0 THEN slotMap ELSE
                  [i \in {j \in DOMAIN slotMap : slotMap[j] # Target} \cup {Held.id} |->
                      IF i = Held.id THEN Target ELSE slotMap[i]]
    /\ hand' = {}
    /\ pc' = "accept"
    /\ UNCHANGED <<backlog, evc, peer, mgr, s2c, st, udp, cb, clientVars>>

\* AddPeer: the sockets of a known peer are flushed only if VcManager has a
\* channel, which it has not by now.
AddPeer == IF peer = {} THEN {<<>>} ELSE peer

\* The id is recorded and the peer added.
Register ==
    /\ pc = "register"
    /\ s2c' = [f \in DOMAIN s2c \cup {Held.fd} |-> IF f = Held.fd THEN Held.id ELSE s2c[f]]
    /\ peer' = AddPeer
    /\ pc' = "add"
    /\ UNCHANGED <<kernelVars, backlog, hand, evc, mgr, slotMap, chanVars, cb, clientVars>>

\* GetPeerById fails, or the peer has its sockets already: the socket is closed.
AddRefused ==
    /\ pc = "add"
    /\ peer = {} \/ \E p \in peer : Len(p) = NConn
    /\ CloseAll({HandEntry})
    /\ hand' = {}
    /\ pc' = IF peer = {} THEN "accept" ELSE "create"
    /\ UNCHANGED <<backlog, evc, tableVars, chanVars, cb, clientVars>>

\* Mutant: a full peer takes one more socket.
AddSocketTooMany ==
    /\ pc = "add"
    /\ \E p \in peer :
           /\ Len(p) <= NConn
           /\ peer' = {Append(p, HandEntry)}
           /\ pc' = IF Len(p) + 1 >= NConn THEN "create" ELSE "accept"
    /\ hand' = {}
    /\ UNCHANGED <<kernelVars, backlog, evc, mgr, s2c, slotMap, chanVars, cb, clientVars>>

\* AddSocket; the channel is created once the peer is complete.
AddSocket ==
    /\ pc = "add"
    /\ \E p \in peer :
           /\ Len(p) < NConn
           /\ peer' = {Append(p, HandEntry)}
           /\ pc' = IF Len(p) + 1 = NConn THEN "create" ELSE "accept"
    /\ hand' = {}
    /\ UNCHANGED <<kernelVars, backlog, evc, mgr, s2c, slotMap, chanVars, cb, clientVars>>

\* The channel is built from the peer's sockets and entered in VcManager and
\* clientConnSlots.
CreateVc ==
    /\ pc = "create"
    /\ \E g \in Chans, p \in peer :
           /\ st[g] = "none" /\ \A h \in 1..(g - 1) : st[h] # "none"
           /\ st' = [st EXCEPT ![g] = "new"]
           /\ conn' = [conn EXCEPT ![g] = p]
           /\ live' = [live EXCEPT ![g] = Slots]
           /\ mgr' = g /\ evc' = g
           /\ LET known == {i \in Slots : p[i].fd \in DOMAIN s2c}
                  ids == {s2c[p[i].fd] : i \in known} IN
                  /\ slotMap' = [n \in DOMAIN slotMap \cup ids |->
                                    IF n \in ids
                                    THEN CHOOSE i \in known : s2c[p[i].fd] = n
                                    ELSE slotMap[n]]
                  /\ s2c' = [f \in DOMAIN s2c \ {p[i].fd : i \in known} |-> s2c[f]]
    /\ pc' = "udp"
    /\ UNCHANGED <<kernelVars, backlog, hand, peer, udp, cb, clientVars>>

\* Its UDP socket is created and bound, and the callbacks are set.
UdpReady ==
    /\ pc = "udp" /\ Free # {}
    /\ desc' = [desc EXCEPT ![Lowest] = Udp(evc)]
    /\ udp' = [udp EXCEPT ![evc] = Lowest]
    /\ pc' = "open"
    /\ UNCHANGED <<cut, stray, backlog, hand, evc, tableVars, st, conn, live, cb, clientVars>>

\* It cannot be created or bound: the accept loop ends.
UdpFails ==
    /\ pc = "udp"
    /\ pc' = "ended"
    /\ UNCHANGED <<kernelVars, backlog, hand, evc, tableVars, chanVars, cb, clientVars>>

\* open() starts the channel's threads, and then sets opened.
OpenVc ==
    /\ pc \in {"open", "opening"}
    /\ st' = [st EXCEPT ![evc] = IF pc = "open" THEN "opening" ELSE "open"]
    /\ pc' = IF pc = "open" THEN "opening" ELSE "accept"
    /\ UNCHANGED <<kernelVars, backlog, hand, evc, tableVars, conn, live, udp, cb, clientVars>>
------------------------------------------------------------------------------
(***************************************************************************)
(* A channel's own threads.                                                *)
(***************************************************************************)
\* A descriptor that is closed or whose connection failed: the slot is
\* disconnected.  After the last one the channel is down and calls back.
Dies(g, s) ==
    /\ st[g] \in {"opening", "open"} /\ s \in live[g]
    /\ desc[conn[g][s].fd] \in cut \cup {0}
    /\ CloseAll({conn[g][s]})
    /\ live' = [live EXCEPT ![g] = @ \ {s}]
    /\ LET last == st[g] = "open" /\ live[g] = {s} IN
           /\ st' = [st EXCEPT ![g] = IF last THEN "down" ELSE @]
           /\ cb' = [cb EXCEPT ![g] = IF last THEN "removeVc" ELSE @]
    /\ UNCHANGED <<backlog, loopVars, tableVars, conn, udp, clientVars>>

\* The disconnect callback: VcManager::Remove...
RemoveVc(g) ==
    /\ cb[g] = "removeVc"
    /\ mgr' = 0
    /\ cb' = [cb EXCEPT ![g] = "removePeer"]
    /\ UNCHANGED <<kernelVars, backlog, loopVars, peer, s2c, slotMap, chanVars, clientVars>>

\* Mutant: the sockets of the peer are closed, too.
RemovePeerAndSockets(g) ==
    /\ cb[g] = "removePeer"
    /\ CloseAll(UNION {{p[i] : i \in DOMAIN p} : p \in peer})
    /\ peer' = {}
    /\ cb' = [cb EXCEPT ![g] = "closeUdp"]
    /\ UNCHANGED <<backlog, loopVars, mgr, s2c, slotMap, chanVars, clientVars>>

\* ...PeerManager::RemovePeer, without closing its sockets...
RemovePeer(g) ==
    /\ cb[g] = "removePeer"
    /\ peer' = {}
    /\ cb' = [cb EXCEPT ![g] = "closeUdp"]
    /\ UNCHANGED <<kernelVars, backlog, loopVars, mgr, s2c, slotMap, chanVars, clientVars>>

\* Mutant: the UDP socket is left to its receive thread.
LeaveUdp(g) ==
    /\ cb[g] = "closeUdp"
    /\ cb' = [cb EXCEPT ![g] = "clearSlots"]
    /\ UNCHANGED <<kernelVars, backlog, loopVars, tableVars, chanVars, clientVars>>

\* ...the UDP socket is closed, which ends its receive thread...
CloseUdp(g) ==
    /\ cb[g] = "closeUdp"
    /\ CloseAll({[fd |-> udp[g], conn |-> Udp(g)]})
    /\ cb' = [cb EXCEPT ![g] = "clearSlots"]
    /\ UNCHANGED <<backlog, loopVars, tableVars, chanVars, clientVars>>

\* ...and clientConnSlots is cleared.
ClearSlots(g) ==
    /\ cb[g] = "clearSlots"
    /\ slotMap' = <<>>
    /\ cb' = [cb EXCEPT ![g] = "done"]
    /\ UNCHANGED <<kernelVars, backlog, loopVars, peer, mgr, s2c, chanVars, clientVars>>
------------------------------------------------------------------------------
Client == \/ ClientConnects \/ ClientRestarts \/ Outage
          \/ \E s \in Slots : ClientReplaces(s) \/ Cut(s)

AcceptLoop == \/ Accept \/ BindFails \/ Lookup
              \/ TakeoverClose \/ TakeoverForget \/ Replace
              \/ Register \/ AddRefused \/ AddSocket
              \/ CreateVc \/ UdpReady \/ UdpFails \/ OpenVc

Channel(g) == \/ \E s \in Slots : Dies(g, s)
              \/ RemoveVc(g) \/ RemovePeer(g) \/ CloseUdp(g) \/ ClearSlots(g)

Next == Client \/ AcceptLoop \/ \E g \in Chans : Channel(g)

Spec == Init /\ [][Next]_vars
------------------------------------------------------------------------------
Binds == [conn : Conns, slot : 0..NConn, id : Conns]

\* The variables have their types: a peer has at most NConn sockets, a channel
\* exactly NConn, and the slots recorded for ids exist.
TypeOK ==
    /\ desc \in [Fds -> 0..(MaxConns + MaxVcs)] /\ cut \subseteq Conns
    /\ backlog \in Seq(Binds) /\ evc \in 0..MaxVcs /\ mgr \in 0..MaxVcs
    /\ pc \in {"accept", "lookup", "takeover", "forget", "replace", "register", "add",
              "create", "udp", "open", "opening", "ended"}
    /\ \A h \in hand : h \in [fd : Fds, conn : Conns, slot : 0..NConn, id : Conns]
    /\ \A p \in peer : p \in Seq(Entries) /\ Len(p) <= NConn
    /\ DOMAIN s2c \subseteq Fds /\ \A n \in DOMAIN slotMap : slotMap[n] \in Slots
    /\ \A g \in Chans : /\ st[g] \in {"none", "new", "opening", "open", "down"}
                        /\ st[g] # "none" => conn[g] \in [Slots -> Entries]
                        /\ live[g] \subseteq Slots /\ udp[g] \in 0..NFd
    /\ cb \in [Chans -> {"none", "removeVc", "removePeer", "closeUdp", "clearSlots", "done"}]
    /\ cslots \in [Slots -> 0..MaxConns] /\ cid \in [Slots -> 0..MaxConns]
    /\ cnum \in 0..NConn /\ used \in 0..MaxConns
    /\ stray \in BOOLEAN /\ orderly \in BOOLEAN

\* No SocketClose hits a descriptor that was closed before or belongs to someone
\* else by now: neither when a slot is replaced nor when the channel goes away.
ClosesOwn == orderly => ~stray

\* Once the backlog is worked off, a connection that the client holds in slot s
\* is in slot s of the server's channel, although the server's map of ids lags
\* behind the client's.
SlotsAgree ==
    orderly /\ pc = "accept" /\ backlog = <<>> /\ cnum = NConn =>
        \A g \in Chans, s \in Slots :
            g = mgr /\ cslots[s] \notin cut => conn[g][s].conn = cslots[s]

\* When a channel is gone and its callback done, nothing of it is left open: not
\* its UDP socket (whose receive thread would wait for ever), and no connection.
NothingLeft ==
    \A g \in Chans : orderly /\ cb[g] = "done" =>
        /\ \A f \in Fds : desc[f] # Udp(g)
        /\ live[g] = {}

\* What Server.cpp says of an initial connection of a client that still has a
\* channel: the stale channel is torn down and the connection kept, not refused
\* as excess.
FreshKept == ~(pc = "add" /\ evc # 0 /\ \E p \in peer : Len(p) = NConn)
==============================================================================
