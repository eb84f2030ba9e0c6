---------------------------- MODULE ServerProofs ----------------------------
(***************************************************************************)
(* Proofs about the server (ServerSession): its types in every history,    *)
(* and in orderly ones which slot a connection goes to, what is closed and *)
(* what is left.                                                           *)
(***************************************************************************)
EXTENDS ServerSession, FiniteSetTheorems, TLAPS

USE ServerConstants

------------------------------------------------------------------------------
(***************************************************************************)
(* Types, stronger than TypeOK: what the loop holds at each point.         *)
(***************************************************************************)
States == {"none", "new", "opening", "open", "down"}
LoopPcs == {"accept", "lookup", "takeover", "forget", "replace", "register", "add",
            "create", "udp", "open", "opening", "ended"}
CbPcs == {"none", "removeVc", "removePeer", "closeUdp", "clearSlots", "done"}
Holds == [fd : Fds, conn : Conns, slot : 0..NConn, id : Conns]

\* The loop holds a connection from Accept on until it is passed on or closed.
Holding == {"lookup", "takeover", "forget", "replace", "register", "add"}
Working == {"takeover", "forget", "replace", "udp", "open", "opening"}

Scalars ==
    /\ pc \in LoopPcs /\ evc \in 0..MaxVcs /\ mgr \in 0..MaxVcs
    /\ cnum \in 0..NConn /\ used \in 0..MaxConns
    /\ stray \in BOOLEAN /\ orderly \in BOOLEAN
    /\ desc \in [Fds -> 0..(MaxConns + MaxVcs)] /\ cut \subseteq Conns
    /\ cslots \in [Slots -> 0..MaxConns] /\ cid = cslots

Pieces ==
    /\ backlog \in Seq(Binds)
    /\ hand \subseteq Holds /\ \A h, k \in hand : h = k
    /\ \A p \in peer : p \in Seq(Entries) /\ Len(p) <= NConn
    /\ \A p, q \in peer : p = q
    /\ pc \in Holding <=> hand # {}
    /\ pc = "create" => \A p \in peer : Len(p) = NConn
    /\ DOMAIN s2c \subseteq Fds /\ \A f \in DOMAIN s2c : s2c[f] \in Conns
    /\ DOMAIN slotMap \subseteq Conns /\ \A n \in DOMAIN slotMap : slotMap[n] \in Slots

ChanTypes ==
    /\ st \in [Chans -> States] /\ live \in [Chans -> SUBSET Slots]
    /\ udp \in [Chans -> 0..NFd] /\ cb \in [Chans -> CbPcs]
    /\ conn \in [Chans -> [Slots -> Entries] \cup {<<>>}]
    /\ \A g \in Chans : st[g] # "none" => conn[g] \in [Slots -> Entries]
    /\ pc \in Working => evc \in Chans /\ st[evc] # "none"
    /\ mgr # 0 => st[mgr] # "none"

Shape == Scalars /\ Pieces /\ ChanTypes

(***************************************************************************)
(* Connections are numbered in the order they are made, and accepted in    *)
(* that order.                                                             *)
(***************************************************************************)
\* Connections accepted so far.
Taken == used - Len(backlog)

Numbers ==
    /\ \A s \in Slots : cslots[s] <= used /\ (cslots[s] # 0 <=> s <= cnum)
    /\ \A s, u \in Slots : cslots[s] = cslots[u] /\ cslots[s] # 0 => s = u
    /\ Len(backlog) <= used
    /\ \A i \in 1..Len(backlog) : backlog[i].conn = Taken + i /\ backlog[i].id <= used
    /\ \A h \in hand : h.conn = Taken /\ h.id <= used
    /\ \A n \in DOMAIN slotMap : n <= used
    /\ \A f \in DOMAIN s2c : s2c[f] <= used

\* What was accepted before the connection in hand.
Older(c) == c <= Taken /\ (hand # {} => c < Taken)

Aged ==
    /\ \A p \in peer : \A i \in 1..Len(p) : Older(p[i].conn)
    /\ \A g \in Chans : st[g] # "none" => \A s \in Slots : Older(conn[g][s].conn)

\* A channel is opened once it has its UDP socket, and calls back when it is down.
Wired ==
    /\ \A g \in Chans : st[g] \in {"opening", "open", "down"} => udp[g] # 0
    /\ \A g \in Chans : cb[g] # "none" => st[g] = "down"
    /\ pc \in {"udp", "open"} => st[evc] = "new"
    /\ pc = "open" => udp[evc] # 0
    /\ pc = "opening" => st[evc] = "opening"

\* Connections the client has not made are neither cut nor behind a descriptor.
Known == /\ \A c \in cut : c <= used
         /\ \A f \in Fds : desc[f] \in Conns => desc[f] <= used

(***************************************************************************)
(* An orderly history has three stages: the client gathers the connections *)
(* of an attempt, the channel is up, and the channel ends after an outage. *)
(***************************************************************************)
\* A connection under way to the server: the loop holds it, or it is in the backlog.
Coming(c, s) ==
    \/ \E h \in hand : h.conn = c /\ h.slot = s
    \/ \E i \in 1..Len(backlog) : backlog[i].conn = c /\ backlog[i].slot = s

\* A channel that does not exist yet, or is gone and its callback done.
Idle(g) == /\ live[g] = {}
           /\ \/ st[g] = "none" /\ cb[g] = "none" /\ udp[g] = 0
              \/ st[g] = "down" /\ cb[g] = "done"

\* Sockets the peer has.
Gathered == IF peer = {} THEN 0 ELSE Len(CHOOSE p \in peer : TRUE)
InHand == IF hand = {} THEN 0 ELSE 1

Gathering ==
    /\ mgr = 0 /\ pc \in {"accept", "lookup", "register", "add", "create"}
    /\ \A g \in Chans : Idle(g)
    /\ \A s \in Slots : cslots[s] \notin cut
    /\ \A s \in Slots : s <= cnum => cslots[s] = used - cnum + s
    /\ cnum = Gathered + InHand + Len(backlog)
    /\ \A p \in peer : \A i \in 1..Len(p) :
           p[i].conn = cslots[i] /\ desc[p[i].fd] = p[i].conn
    /\ \A h \in hand : h.slot = 0 /\ h.id = h.conn
    /\ \A i \in 1..Len(backlog) : backlog[i].slot = 0 /\ backlog[i].id = backlog[i].conn
    /\ pc = "add" => peer # {} /\ \A h \in hand : h.fd \in DOMAIN s2c /\ s2c[h.fd] = h.id
    /\ Gathered = NConn <=> pc = "create"
    /\ \A p \in peer : \A i \in 1..Len(p) :
           p[i].fd \in DOMAIN s2c => s2c[p[i].fd] = p[i].conn

\* A slot on which both ends agree.
Healthy(s) == s \in live[mgr] /\ conn[mgr][s].conn = cslots[s] /\ cslots[s] \notin cut

Fresh == hand = {} /\ backlog = <<>> /\ \A s \in Slots : Healthy(s)

\* A connection with a slot: the client's latest there, or cut.
Sent(b) == /\ b.slot \in Slots /\ b.conn <= cslots[b.slot]
           /\ b.conn = cslots[b.slot] \/ b.conn \in cut

\* The client's connection in a slot is cut, agreed on or under way.
Covered(s) == cslots[s] \notin cut => Healthy(s) \/ Coming(cslots[s], s)

Up ==
    /\ mgr \in Chans /\ cb[mgr] = "none" /\ cnum = NConn
    /\ \A g \in Chans \ {mgr} : Idle(g)
    /\ \/ pc \in {"udp", "ended"} /\ st[mgr] = "new" /\ Fresh /\ udp[mgr] = 0
       \/ pc = "open" /\ st[mgr] = "new" /\ Fresh /\ udp[mgr] # 0
       \/ pc = "opening" /\ st[mgr] = "opening" /\ Fresh
       \/ pc \in {"accept", "lookup", "replace"} /\ st[mgr] = "open"
    /\ pc \in Working => evc = mgr
    /\ \A h \in hand : Sent(h)
    /\ \A i \in 1..Len(backlog) : Sent(backlog[i])
    /\ \A s \in Slots : conn[mgr][s].conn = cslots[s] \/ conn[mgr][s].conn \in cut
    /\ \A s \in Slots : Covered(s)
    /\ \E s \in Slots : Healthy(s)

Ending ==
    /\ pc = "accept" /\ hand = {} /\ backlog = <<>> /\ cnum = NConn
    /\ \A s \in Slots : cslots[s] \in cut
    /\ \E g \in Chans :
           /\ \A h \in Chans \ {g} : Idle(h)
           /\ \/ /\ mgr = g /\ st[g] = "open" /\ cb[g] = "none"
                 /\ \A s \in live[g] : conn[g][s].conn \in cut
              \/ mgr = g /\ st[g] = "down" /\ live[g] = {} /\ cb[g] = "removeVc"
              \/ /\ mgr = 0 /\ st[g] = "down" /\ live[g] = {}
                 /\ \/ cb[g] = "removePeer"
                    \/ cb[g] \in {"closeUdp", "clearSlots", "done"} /\ peer = {}

\* Each id under way or remembered stands for the slot it was sent for.
SlotIds ==
    /\ \A s \in Slots : cslots[s] \in DOMAIN slotMap => slotMap[cslots[s]] = s
    /\ \A h \in hand : h.slot # 0 =>
           /\ h.id \in DOMAIN slotMap => slotMap[h.id] = h.slot
           /\ \A s \in Slots : cslots[s] # h.id
           /\ \A i \in 1..Len(backlog) : backlog[i].slot # 0 => backlog[i].id # h.id
    /\ \A i \in 1..Len(backlog) : backlog[i].slot # 0 =>
           /\ backlog[i].id \in DOMAIN slotMap => slotMap[backlog[i].id] = backlog[i].slot
           /\ \A s \in Slots : cslots[s] # backlog[i].id
           /\ \A j \in 1..Len(backlog) : backlog[j].slot # 0 /\ i # j
                                             => backlog[i].id # backlog[j].id

\* Whoever keeps a descriptor owns it.
Custody ==
    /\ \A h \in hand : desc[h.fd] = h.conn
    /\ \A g \in Chans : \A s \in live[g] : desc[conn[g][s].fd] = conn[g][s].conn
    /\ \A g \in Chans : \A s, u \in live[g] : conn[g][s].conn = conn[g][u].conn => s = u

UdpCustody ==
    /\ \A g \in Chans : udp[g] # 0 /\ cb[g] \notin {"clearSlots", "done"} => desc[udp[g]] = Udp(g)
    /\ \A f \in Fds, g \in Chans : desc[f] = Udp(g) =>
           udp[g] = f /\ cb[g] \notin {"clearSlots", "done"}

Stage == Gathering \/ Up \/ Ending

Orderly == ~stray /\ Stage /\ SlotIds /\ Custody /\ UdpCustody

Base == Shape /\ Numbers /\ Aged /\ Wired /\ Known

IInv == Base /\ (orderly => Orderly)

------------------------------------------------------------------------------
(***************************************************************************)
(* The operators of the model.                                             *)
(***************************************************************************)
\* The loop holds one connection.
LEMMA HeldIs ==
    ASSUME Pieces, pc \in Holding
    PROVE  /\ Held \in hand /\ hand = {Held} /\ Held \in Holds
           /\ HandEntry \in Entries /\ HandEntry.fd = Held.fd /\ HandEntry.conn = Held.conn
<1>1. \E h : h \in hand
    BY DEF Pieces
<1>2. Held \in hand
    BY <1>1 DEF Held
<1>3. hand = {Held} /\ Held \in Holds
    BY <1>2 DEF Pieces
<1> QED
    BY <1>2, <1>3 DEF HandEntry, Entries, Holds

\* A non-empty set of numbers has a least one.
LEMMA Least ==
    ASSUME NEW n \in Nat, NEW D \in SUBSET (1..n), D # {}
    PROVE  \E s \in D : \A u \in D : s <= u
<1> DEFINE R == {p \in Nat \X Nat : p[1] < p[2]}
<1>1. IsWellFoundedOn(R, Nat)
    BY NatLessThanWellFounded, Zenon DEF OpToRel
<1> HIDE DEF R
<1>2. D \subseteq Nat
    OBVIOUS
<1>3. PICK s \in D : \A u \in D : ~(<<u, s>> \in R)
    BY <1>1, <1>2, WFMin
<1>4. ASSUME NEW u \in D PROVE s <= u
    <2>1. s \in Nat /\ u \in Nat
        BY <1>2
    <2>2. u < s => <<u, s>> \in R
        BY <2>1 DEF R
    <2> QED
        BY <1>3, <2>1, <2>2
<1> QED
    BY <1>4

\* The kernel gives out a descriptor that is free.
LEMMA LowestIs ==
    ASSUME Free # {}
    PROVE  Lowest \in Fds /\ desc[Lowest] = 0
<1>1. Free \in SUBSET (1..NFd) /\ NFd \in Nat
    BY DEF Free, Fds
<1>2. \E f \in Free : \A e \in Free : f <= e
    BY <1>1, Least
<1>3. Lowest \in Free
    BY <1>2 DEF Lowest
<1> QED
    BY <1>3 DEF Free

\* A replacement goes to a slot, or to none.
LEMMA DecideIs ==
    ASSUME NEW c \in 0..NConn, NEW i \in 0..NConn, NEW D \in SUBSET Slots
    PROVE  /\ DecideReplaceSlot(c, i, D) \in 0..NConn
           /\ c \in {0, i} /\ i # 0 => DecideReplaceSlot(c, i, D) = i
<1>1. D # {} => (CHOOSE s \in D : \A u \in D : s <= u) \in D
    <2>1. D # {} => \E s \in D : \A u \in D : s <= u
        BY Least DEF Slots
    <2> QED
        BY <2>1
<1>2. 0..NConn = {0} \cup Slots /\ 0 \notin Slots
    BY DEF Slots
<1> QED
    BY <1>1, <1>2 DEF DecideReplaceSlot

\* So does the one in hand.
LEMMA TargetIs ==
    ASSUME Shape, pc = "replace"
    PROVE  Target \in 0..NConn
<1>1. Held \in Holds
    BY HeldIs DEF Shape, Holding
<1>2. (IF Held.id \in DOMAIN slotMap THEN slotMap[Held.id] ELSE 0) \in 0..NConn
    BY DEF Shape, Pieces, Slots
<1>3. Slots \ live[evc] \in SUBSET Slots /\ Held.slot \in 0..NConn
    BY <1>1 DEF Holds
<1> HIDE DEF DecideReplaceSlot
<1> QED
    BY <1>2, <1>3, DecideIs DEF Target

\* SocketClose frees the descriptors and cuts the connections behind them.
LEMMA CloseTypes ==
    ASSUME Scalars, NEW E, CloseAll(E)
    PROVE  /\ desc' \in [Fds -> 0..(MaxConns + MaxVcs)] /\ cut' \subseteq Conns
           /\ cut \subseteq cut' /\ stray' \in BOOLEAN
<1>1. desc' \in [Fds -> 0..(MaxConns + MaxVcs)]
    BY DEF Scalars, CloseAll
<1>2. cut' \subseteq Conns /\ cut \subseteq cut'
    BY DEF Scalars, CloseAll
<1>3. stray' \in BOOLEAN
    BY Zenon DEF Scalars, CloseAll
<1> QED
    BY <1>1, <1>2, <1>3

\* Every step keeps the types of the loop's, the kernel's and the client's variables.
LEMMA ScalarsKept ==
    ASSUME Shape, Numbers, [Next]_vars
    PROVE  Scalars'
<1> USE DEF Shape
<1>0. Scalars /\ Numbers
    OBVIOUS
<1>1. CASE ClientConnects
    <2>1. /\ used' \in 0..MaxConns /\ cnum' \in 0..NConn /\ cnum + 1 \in Slots
          /\ used + 1 \in 0..MaxConns
        BY <1>1 DEF ClientConnects, Scalars, Slots
    <2>2. cslots' \in [Slots -> 0..MaxConns] /\ cid' = cslots'
        BY <1>1, <2>1 DEF ClientConnects, Scalars
    <2> QED
        BY <1>1, <2>1, <2>2 DEF ClientConnects, Scalars, kernelVars, loopVars, tableVars
<1>2. ASSUME NEW s \in Slots, ClientReplaces(s) PROVE Scalars'
    <2>1. used' \in 0..MaxConns /\ used + 1 \in 0..MaxConns
        BY <1>2 DEF ClientReplaces, Scalars
    <2>2. cslots' \in [Slots -> 0..MaxConns] /\ cid' = cslots'
        BY <1>2, <2>1 DEF ClientReplaces, Scalars
    <2> QED
        BY <1>2, <2>1, <2>2 DEF ClientReplaces, Scalars, kernelVars, loopVars, tableVars
<1>3. CASE ClientRestarts
    <2>1. cut' \subseteq Conns
        <3>1. \A s \in 1..cnum : s \in Slots /\ cslots[s] \in Conns
            BY DEF Scalars, Numbers, Slots, Conns
        <3> QED
            BY <3>1, <1>3 DEF Scalars, ClientRestarts
    <2>2. orderly' \in BOOLEAN
        BY <1>3, Zenon DEF ClientRestarts
    <2>3. cslots' \in [Slots -> 0..MaxConns] /\ cid' = cslots' /\ cnum' \in 0..NConn
        BY <1>3 DEF ClientRestarts
    <2> QED
        BY <1>3, <2>1, <2>2, <2>3 DEF ClientRestarts, Scalars, loopVars, tableVars
<1>4. ASSUME NEW s \in Slots, Cut(s) PROVE Scalars'
    <2>1. cut' \subseteq Conns
        <3>1. cut' = cut \cup {cslots[s]} /\ cslots[s] # 0
            BY <1>4 DEF Cut
        <3>2. cslots[s] \in Conns
            BY <3>1 DEF Scalars, Conns
        <3> QED
            BY <3>1, <3>2 DEF Scalars
    <2>2. orderly' \in BOOLEAN
        BY <1>4, Zenon DEF Cut
    <2> QED
        BY <1>4, <2>1, <2>2 DEF Cut, Scalars, loopVars, tableVars
<1>5. CASE Outage
    <2>1. cut' \subseteq Conns
        <3>1. \A s \in Slots : cslots[s] \in Conns
            BY <1>5 DEF Outage, Scalars, Numbers, Slots, Conns
        <3> QED
            BY <3>1, <1>5 DEF Scalars, Outage
    <2>2. orderly' \in BOOLEAN
        BY <1>5, Zenon DEF Outage
    <2> QED
        BY <1>5, <2>1, <2>2 DEF Outage, Scalars, loopVars, tableVars
<1>6. CASE Accept
    <2>1. Lowest \in Fds
        BY <1>6, LowestIs DEF Accept
    <2>2. Head(backlog) \in Binds
        BY <1>6 DEF Accept, Pieces
    <2>3. Head(backlog).conn \in 0..(MaxConns + MaxVcs)
        BY <2>2 DEF Binds, Conns
    <2>4. desc' \in [Fds -> 0..(MaxConns + MaxVcs)]
        BY <1>6, <2>1, <2>3 DEF Accept, Scalars
    <2> QED
        BY <1>6, <2>4 DEF Accept, Scalars, LoopPcs, tableVars, clientVars
<1>7. CASE BindFails \/ AddRefused
    <2>1. CloseAll({HandEntry})
        BY <1>7 DEF BindFails, AddRefused
    <2> HIDE DEF CloseAll
    <2> QED
        BY <1>7, <2>1, CloseTypes DEF BindFails, AddRefused, Scalars, LoopPcs, tableVars, clientVars
<1>8. CASE Lookup \/ TakeoverForget \/ Register \/ AddSocket \/ UdpFails \/ OpenVc
    BY <1>8 DEF Lookup, TakeoverForget, Register, AddSocket, UdpFails, OpenVc, Scalars,
           kernelVars, LoopPcs, tableVars, clientVars, loopVars
<1>9. CASE TakeoverClose
    <2>1. \E E : CloseAll(E)
        BY <1>9 DEF TakeoverClose
    <2> HIDE DEF CloseAll
    <2> QED
        BY <1>9, <2>1, CloseTypes DEF TakeoverClose, Scalars, LoopPcs, tableVars, clientVars
<1>10. CASE Replace
    <2>1. \E E : CloseAll(E)
        BY <1>10 DEF Replace
    <2> HIDE DEF CloseAll
    <2> QED
        BY <1>10, <2>1, CloseTypes DEF Replace, Scalars, LoopPcs, clientVars
<1>11. CASE CreateVc
    <2>1. mgr' \in 0..MaxVcs /\ evc' \in 0..MaxVcs
        BY <1>11 DEF CreateVc, Chans
    <2> QED
        BY <1>11, <2>1 DEF CreateVc, Scalars, LoopPcs, kernelVars, clientVars
<1>12. CASE UdpReady
    <2>1. Lowest \in Fds
        BY <1>12, LowestIs DEF UdpReady
    <2>2. evc \in 1..MaxVcs
        BY <1>12 DEF UdpReady, ChanTypes, Working, Chans
    <2>3. desc' \in [Fds -> 0..(MaxConns + MaxVcs)]
        BY <1>12, <2>1, <2>2 DEF UdpReady, Scalars, Udp
    <2> QED
        BY <1>12, <2>3 DEF UdpReady, Scalars, LoopPcs, tableVars, clientVars
<1>13. ASSUME NEW g \in Chans, Channel(g) PROVE Scalars'
    <2>1. ASSUME NEW s \in Slots, Dies(g, s) PROVE Scalars'
        <3>1. CloseAll({conn[g][s]})
            BY <2>1 DEF Dies
        <3> HIDE DEF CloseAll
        <3> QED
            BY <2>1, <3>1, CloseTypes DEF Dies, Scalars, loopVars, tableVars, clientVars
    <2>2. CASE CloseUdp(g)
        <3>1. \E E : CloseAll(E)
            BY <2>2 DEF CloseUdp
        <3> HIDE DEF CloseAll
        <3> QED
            BY <2>2, <3>1, CloseTypes DEF CloseUdp, Scalars, loopVars, tableVars, clientVars
    <2>3. CASE RemoveVc(g) \/ RemovePeer(g) \/ ClearSlots(g)
        BY <2>3 DEF RemoveVc, RemovePeer, ClearSlots, Scalars, kernelVars, loopVars, tableVars,
                    clientVars
    <2> QED
        BY <1>13, <2>1, <2>2, <2>3 DEF Channel
<1>14. CASE UNCHANGED vars
    BY <1>14 DEF vars, Scalars, kernelVars, loopVars, tableVars, clientVars
<1> QED
    BY <1>1, <1>2, <1>3, <1>4, <1>5, <1>6, <1>7, <1>8, <1>9, <1>10, <1>11, <1>12, <1>13, <1>14
    DEF Next, Client, AcceptLoop

\* A full sequence of sockets gives a connection to every slot.
LEMMA FullPeer ==
    ASSUME NEW p \in Seq(Entries), Len(p) = NConn
    PROVE  p \in [Slots -> Entries]
BY DEF Slots

\* Every step keeps the types of what the loop passes on.
LEMMA PiecesKept ==
    ASSUME Shape, Numbers, [Next]_vars
    PROVE  Pieces'
<1> USE DEF Shape
<1>1. CASE ClientConnects
    <2>1. [conn |-> used + 1, slot |-> 0, id |-> used + 1] \in Binds
        BY <1>1 DEF ClientConnects, Scalars, Binds, Conns
    <2>2. backlog' \in Seq(Binds)
        BY <1>1, <2>1 DEF ClientConnects, Pieces
    <2> QED
        BY <1>1, <2>2 DEF ClientConnects, Pieces, loopVars, tableVars
<1>2. ASSUME NEW s \in Slots, ClientReplaces(s) PROVE Pieces'
    <2>0. cid[s] \in Conns
        BY <1>2 DEF ClientReplaces, Numbers, Scalars, Slots, Conns
    <2>1. [conn |-> used + 1, slot |-> s, id |-> cid[s]] \in Binds
        BY <1>2, <2>0 DEF ClientReplaces, Scalars, Binds, Slots, Conns
    <2>2. backlog' \in Seq(Binds)
        BY <1>2, <2>1 DEF ClientReplaces, Pieces
    <2> QED
        BY <1>2, <2>2 DEF ClientReplaces, Pieces, loopVars, tableVars
<1>3. CASE ClientRestarts \/ Outage \/ \E s \in Slots : Cut(s)
    <2>1. UNCHANGED <<backlog, loopVars, tableVars>>
        BY <1>3 DEF ClientRestarts, Outage, Cut
    <2> QED
        BY <2>1 DEF Pieces, loopVars, tableVars
<1>4. CASE Accept
    <2>1. Lowest \in Fds
        BY <1>4, LowestIs DEF Accept
    <2>2. Head(backlog) \in Binds /\ backlog' \in Seq(Binds)
        BY <1>4 DEF Accept, Pieces
    <2>3. hand' \subseteq Holds /\ (\A h, k \in hand' : h = k) /\ hand' # {}
        <3>1. PICK h : /\ hand' = {h}
                       /\ h = [fd |-> Lowest, conn |-> Head(backlog).conn,
                               slot |-> Head(backlog).slot, id |-> Head(backlog).id]
            BY <1>4 DEF Accept
        <3>2. h \in Holds
            BY <3>1, <2>1, <2>2 DEF Holds, Binds
        <3> QED
            BY <3>1, <3>2
    <2> QED
        BY <1>4, <2>2, <2>3 DEF Accept, Pieces, Holding, tableVars
<1>5. CASE BindFails \/ AddRefused
    <2>1. /\ hand' = {} /\ UNCHANGED <<backlog, peer, s2c, slotMap>>
          /\ pc' \in {"accept", "create"}
          /\ pc' = "create" => \E p \in peer : Len(p) = NConn
        BY <1>5 DEF BindFails, AddRefused, tableVars
    <2> QED
        BY <2>1 DEF Pieces, Holding
<1>6. CASE Lookup \/ TakeoverForget \/ UdpFails \/ OpenVc \/ UdpReady
    BY <1>6 DEF Lookup, TakeoverForget, UdpFails, OpenVc, UdpReady, Pieces, Holding, loopVars,
                tableVars
<1>7. CASE TakeoverClose
    BY <1>7 DEF TakeoverClose, Pieces, Holding, tableVars
<1>8. CASE Register
    <2>1. Held \in Holds
        BY <1>8, HeldIs DEF Register, Holding
    <2>2. DOMAIN s2c' \subseteq Fds /\ \A f \in DOMAIN s2c' : s2c'[f] \in Conns
        BY <1>8, <2>1 DEF Register, Pieces, Holds
    <2>3. (\A p \in peer' : p \in Seq(Entries) /\ Len(p) <= NConn) /\ \A p, q \in peer' : p = q
        <3>1. peer' = peer \/ peer' = {<<>>}
            BY <1>8 DEF Register, AddPeer
        <3>2. CASE peer' = peer
            BY <3>2 DEF Pieces
        <3>3. CASE peer' = {<<>>}
            <4>1. <<>> \in Seq(Entries) /\ Len(<<>>) <= NConn
                OBVIOUS
            <4> QED
                BY <3>3, <4>1
        <3> QED
            BY <3>1, <3>2, <3>3
    <2> QED
        BY <1>8, <2>2, <2>3 DEF Register, Pieces, Holding
<1>9. CASE AddSocket
    <2>1. HandEntry \in Entries
        BY <1>9, HeldIs DEF AddSocket, Holding
    <2>2. PICK p \in peer : /\ Len(p) < NConn /\ peer' = {Append(p, HandEntry)}
                            /\ pc' = IF Len(p) + 1 = NConn THEN "create" ELSE "accept"
        BY <1>9 DEF AddSocket
    <2>3. /\ Append(p, HandEntry) \in Seq(Entries) /\ Len(Append(p, HandEntry)) = Len(p) + 1
          /\ Len(p) \in Nat
        BY <2>1 DEF Pieces
    <2>4. /\ \A q \in peer' : q \in Seq(Entries) /\ Len(q) <= NConn
          /\ pc' = "create" => \A q \in peer' : Len(q) = NConn
          /\ \A q, r \in peer' : q = r
        BY <2>2, <2>3
    <2>5. hand' = {} /\ UNCHANGED <<backlog, s2c, slotMap>> /\ pc' \in {"create", "accept"}
        BY <1>9 DEF AddSocket
    <2> QED
        BY <2>4, <2>5 DEF Pieces, Holding
<1>10. CASE CreateVc
    <2>1. PICK g \in Chans, p \in peer :
              LET known == {i \in Slots : p[i].fd \in DOMAIN s2c}
                  ids == {s2c[p[i].fd] : i \in known} IN
              /\ slotMap' = [n \in DOMAIN slotMap \cup ids |->
                                IF n \in ids THEN CHOOSE i \in known : s2c[p[i].fd] = n
                                             ELSE slotMap[n]]
              /\ s2c' = [f \in DOMAIN s2c \ {p[i].fd : i \in known} |-> s2c[f]]
        BY <1>10 DEF CreateVc
    <2> DEFINE known == {i \in Slots : p[i].fd \in DOMAIN s2c}
               ids == {s2c[p[i].fd] : i \in known}
    <2>2. ids \subseteq Conns
        BY DEF Pieces
    <2>3. \A n \in ids : (CHOOSE i \in known : s2c[p[i].fd] = n) \in Slots
        OBVIOUS
    <2>4. DOMAIN slotMap' = DOMAIN slotMap \cup ids
        BY <2>1
    <2>5. \A n \in DOMAIN slotMap' : slotMap'[n] \in Slots
        BY <2>1, <2>3 DEF Pieces
    <2>6. DOMAIN s2c' \subseteq Fds /\ \A f \in DOMAIN s2c' : s2c'[f] \in Conns
        BY <2>1 DEF Pieces
    <2>7. DOMAIN slotMap' \subseteq Conns
        BY <2>2, <2>4 DEF Pieces
    <2> HIDE DEF ids, known
    <2>8. UNCHANGED <<backlog, hand, peer>> /\ pc' = "udp" /\ pc = "create"
        BY <1>10 DEF CreateVc
    <2> QED
        BY <2>5, <2>6, <2>7, <2>8 DEF Pieces, Holding
<1>11. CASE Replace
    <2>1. Target \in 0..NConn /\ Held \in Holds
        BY <1>11, TargetIs, HeldIs DEF Replace, Holding
    <2>2. DOMAIN slotMap' \subseteq Conns /\ \A n \in DOMAIN slotMap' : slotMap'[n] \in Slots
        <3>1. CASE Target = 0
            <4>1. slotMap' = slotMap
                BY <1>11, <3>1 DEF Replace
            <4> QED
                BY <4>1 DEF Pieces
        <3>2. CASE Target # 0
            <4>1. Target \in Slots /\ Held.id \in Conns
                BY <2>1, <3>2 DEF Slots, Holds
            <4>2. slotMap' = [i \in {j \in DOMAIN slotMap : slotMap[j] # Target} \cup {Held.id} |->
                                IF i = Held.id THEN Target ELSE slotMap[i]]
                BY <1>11, <3>2 DEF Replace
            <4> HIDE DEF Target
            <4> QED
                BY <4>1, <4>2 DEF Pieces
        <3> QED
            BY <3>1, <3>2
    <2>3. hand' = {} /\ UNCHANGED <<backlog, peer, s2c>> /\ pc' = "accept"
        BY <1>11 DEF Replace
    <2> QED
        BY <2>2, <2>3 DEF Pieces, Holding
<1>12. ASSUME NEW g \in Chans, Channel(g) PROVE Pieces'
    <2>1. /\ UNCHANGED <<backlog, pc, hand, s2c>> /\ (peer' = peer \/ peer' = {})
          /\ slotMap' = slotMap \/ slotMap' = <<>>
        BY <1>12 DEF Channel, Dies, RemoveVc, RemovePeer, CloseUdp, ClearSlots, loopVars, tableVars
    <2>2. DOMAIN <<>> = {}
        OBVIOUS
    <2> QED
        BY <2>1, <2>2 DEF Pieces
<1>13. CASE UNCHANGED vars
    BY <1>13 DEF vars, Pieces, loopVars, tableVars
<1> QED
    BY <1>1, <1>2, <1>3, <1>4, <1>5, <1>6, <1>7, <1>8, <1>9, <1>10, <1>11, <1>12, <1>13
    DEF Next, Client, AcceptLoop

\* Every step keeps the types of the channels' variables.
LEMMA ChanTypesKept ==
    ASSUME Shape, Numbers, [Next]_vars
    PROVE  ChanTypes'
<1> USE DEF Shape
<1>1. CASE Client
    <2>1. UNCHANGED <<chanVars, cb, mgr, pc, evc>>
        BY <1>1 DEF Client, ClientConnects, ClientReplaces, ClientRestarts, Cut, Outage, loopVars,
               tableVars
    <2> QED
        BY <2>1 DEF ChanTypes, chanVars
<1>2. CASE Accept \/ BindFails \/ Register \/ AddRefused \/ AddSocket \/ UdpFails
    <2>1. UNCHANGED <<chanVars, cb, mgr, evc>> /\ pc' \notin Working
        BY <1>2 DEF Accept, BindFails, Register, AddRefused, AddSocket, UdpFails, Working, loopVars,
               tableVars
    <2> QED
        BY <2>1 DEF ChanTypes, chanVars
<1>3. CASE Lookup
    <2>1. UNCHANGED <<chanVars, cb, mgr>> /\ evc' = mgr /\ (pc' \in Working => mgr # 0)
        BY <1>3 DEF Lookup, tableVars, Working
    <2>2. mgr # 0 => mgr \in Chans /\ st[mgr] # "none"
        BY DEF ChanTypes, Scalars, Chans
    <2> QED
        BY <2>1, <2>2 DEF ChanTypes, chanVars
<1>4. CASE TakeoverForget
    <2>1. UNCHANGED <<chanVars, cb, evc>> /\ mgr' = 0 /\ pc' = "register"
        BY <1>4 DEF TakeoverForget
    <2> QED
        BY <2>1 DEF ChanTypes, chanVars, Working
<1>5. CASE TakeoverClose
    <2>1. evc \in Chans /\ st[evc] # "none"
        BY <1>5 DEF TakeoverClose, ChanTypes, Working
    <2>2. /\ live' = [live EXCEPT ![evc] = IF st[evc] = "open" THEN {} ELSE @]
          /\ st' = [st EXCEPT ![evc] = IF @ = "open" THEN "down" ELSE @]
          /\ UNCHANGED <<conn, udp, cb, mgr, evc>>
        BY <1>5 DEF TakeoverClose, tableVars
    <2>3. st' \in [Chans -> States] /\ live' \in [Chans -> SUBSET Slots]
        BY <2>2 DEF ChanTypes, States
    <2>4. \A g \in Chans : st'[g] # "none" <=> st[g] # "none"
        BY <2>1, <2>2 DEF ChanTypes
    <2>5. mgr # 0 => mgr \in Chans
        BY DEF Scalars, Chans
    <2> QED
        BY <2>1, <2>2, <2>3, <2>4, <2>5 DEF ChanTypes
<1>6. CASE Replace
    <2>1. evc \in Chans /\ st[evc] # "none"
        BY <1>6 DEF Replace, ChanTypes, Working
    <2>2. HandEntry \in Entries /\ Target \in 0..NConn
        BY <1>6, HeldIs, TargetIs DEF Replace, Holding
    <2>3. /\ live' = [live EXCEPT ![evc] = @ \cup ({Target} \ {0})]
          /\ conn' = [conn EXCEPT ![evc] = [s \in Slots |-> IF s = Target THEN HandEntry ELSE @[s]]]
          /\ UNCHANGED <<st, udp, cb, mgr, evc>> /\ pc' = "accept"
        BY <1>6 DEF Replace
    <2> HIDE DEF Target, HandEntry
    <2>4. live' \in [Chans -> SUBSET Slots]
        <3>1. {Target} \ {0} \subseteq Slots
            BY <2>2 DEF Slots
        <3> QED
            BY <3>1, <2>3 DEF ChanTypes
    <2>5. PICK q : q = [s \in Slots |-> IF s = Target THEN HandEntry ELSE conn[evc][s]]
        OBVIOUS
    <2>6. q \in [Slots -> Entries] /\ conn' = [conn EXCEPT ![evc] = q]
        BY <2>1, <2>2, <2>3, <2>5 DEF ChanTypes
    <2>7. /\ conn' \in [Chans -> [Slots -> Entries] \cup {<<>>}]
          /\ \A g \in Chans : st[g] # "none" => conn'[g] \in [Slots -> Entries]
        BY <2>1, <2>6 DEF ChanTypes
    <2> QED
        BY <2>3, <2>4, <2>7 DEF ChanTypes, Working
<1>7. CASE CreateVc
    <2>1. PICK g \in Chans, p \in peer :
              /\ st' = [st EXCEPT ![g] = "new"] /\ conn' = [conn EXCEPT ![g] = p]
              /\ live' = [live EXCEPT ![g] = Slots] /\ mgr' = g /\ evc' = g
        BY <1>7 DEF CreateVc
    <2>2. p \in [Slots -> Entries]
        BY <1>7, FullPeer DEF CreateVc, Pieces
    <2>3. UNCHANGED <<udp, cb>>
        BY <1>7 DEF CreateVc
    <2>4. st' \in [Chans -> States] /\ live' \in [Chans -> SUBSET Slots]
        BY <2>1 DEF ChanTypes, States
    <2>5. /\ conn' \in [Chans -> [Slots -> Entries] \cup {<<>>}] /\ st'[g] # "none"
          /\ \A h \in Chans : st'[h] # "none" => conn'[h] \in [Slots -> Entries]
        BY <2>1, <2>2 DEF ChanTypes
    <2> QED
        BY <2>1, <2>3, <2>4, <2>5 DEF ChanTypes
<1>8. CASE UdpReady
    <2>1. Lowest \in 0..NFd
        BY <1>8, LowestIs DEF UdpReady, Fds
    <2>2. /\ udp' = [udp EXCEPT ![evc] = Lowest] /\ pc = "udp" /\ pc' = "open"
          /\ UNCHANGED <<st, conn, live, cb, mgr, evc>>
        BY <1>8 DEF UdpReady, tableVars
    <2> HIDE DEF Lowest
    <2>3. udp' \in [Chans -> 0..NFd]
        BY <2>1, <2>2 DEF ChanTypes
    <2> QED
        BY <2>2, <2>3 DEF ChanTypes, Working
<1>9. CASE OpenVc
    <2>1. PICK o \in {"opening", "open"} : st' = [st EXCEPT ![evc] = o]
        BY <1>9 DEF OpenVc
    <2>2. /\ pc \in Working /\ UNCHANGED <<conn, live, udp, cb, mgr, evc>>
          /\ pc' \in {"opening", "accept"}
        BY <1>9 DEF OpenVc, tableVars, Working
    <2>3. evc \in Chans /\ st' \in [Chans -> States]
        BY <2>1, <2>2 DEF ChanTypes, States
    <2>4. \A g \in Chans : st'[g] # "none" <=> st[g] # "none"
        BY <2>1, <2>2 DEF ChanTypes
    <2>5. mgr # 0 => mgr \in Chans
        BY DEF Scalars, Chans
    <2> QED
        BY <2>2, <2>3, <2>4, <2>5 DEF ChanTypes
<1>10. ASSUME NEW g \in Chans, NEW s \in Slots, Dies(g, s) PROVE ChanTypes'
    <2>1. /\ live' = [live EXCEPT ![g] = @ \ {s}] /\ st[g] # "none"
          /\ \E o \in {"down", st[g]} : st' = [st EXCEPT ![g] = o]
          /\ \E o \in {"removeVc", cb[g]} : cb' = [cb EXCEPT ![g] = o]
          /\ UNCHANGED <<conn, udp, mgr, pc, evc>>
        BY <1>10 DEF Dies, loopVars, tableVars
    <2>2. st' \in [Chans -> States] /\ live' \in [Chans -> SUBSET Slots] /\ cb' \in [Chans -> CbPcs]
        BY <2>1 DEF ChanTypes, States, CbPcs
    <2>3. \A h \in Chans : st'[h] # "none" <=> st[h] # "none"
        BY <2>1 DEF ChanTypes
    <2>4. mgr # 0 => mgr \in Chans
        BY DEF Scalars, Chans
    <2> QED
        BY <2>1, <2>2, <2>3, <2>4 DEF ChanTypes
<1>11. ASSUME NEW g \in Chans, RemoveVc(g) \/ RemovePeer(g) \/ CloseUdp(g) \/ ClearSlots(g)
       PROVE  ChanTypes'
    <2>1. /\ \E o \in CbPcs : cb' = [cb EXCEPT ![g] = o]
          /\ UNCHANGED <<chanVars, pc, evc>> /\ mgr' \in {0, mgr}
        BY <1>11 DEF RemoveVc, RemovePeer, CloseUdp, ClearSlots, CbPcs, loopVars, tableVars
    <2> QED
        BY <2>1 DEF ChanTypes, chanVars
<1>12. CASE UNCHANGED vars
    BY <1>12 DEF vars, ChanTypes, chanVars, loopVars, tableVars
<1> QED
    BY <1>1, <1>2, <1>3, <1>4, <1>5, <1>6, <1>7, <1>8, <1>9, <1>10, <1>11, <1>12
    DEF Next, AcceptLoop, Channel

------------------------------------------------------------------------------
(***************************************************************************)
(* Numbers.                                                                *)
(***************************************************************************)
\* A connection joins the backlog.
LEMMA Joins ==
    ASSUME backlog \in Seq(Binds), NEW b \in Binds, backlog' = Append(backlog, b)
    PROVE  /\ Len(backlog') = Len(backlog) + 1 /\ backlog'[Len(backlog) + 1] = b
           /\ \A i \in 1..Len(backlog) : backlog'[i] = backlog[i]
           /\ Len(backlog) \in Nat
OBVIOUS

\* The first one leaves it.
LEMMA Leaves ==
    ASSUME backlog \in Seq(Binds), backlog # <<>>, backlog' = Tail(backlog)
    PROVE  /\ Len(backlog') = Len(backlog) - 1 /\ Head(backlog) = backlog[1]
           /\ Len(backlog) \in Nat \ {0}
           /\ \A i \in 1..Len(backlog') : backlog'[i] = backlog[i + 1]
OBVIOUS

\* The client makes a connection: it is the last one of the backlog.
LEMMA MadeNumbers ==
    ASSUME Shape, Numbers, NEW s \in Slots, NEW b \in Binds,
           backlog' = Append(backlog, b), b.conn = used + 1, b.id <= used + 1,
           used' = used + 1, cslots' = [cslots EXCEPT ![s] = used + 1],
           UNCHANGED <<hand, slotMap, s2c>>,
           cnum' \in Nat, \A u \in Slots : u <= cnum' <=> u <= cnum \/ u = s
    PROVE  Numbers' /\ Taken' = Taken
<1> USE DEF Shape, Scalars
<1>1. /\ Len(backlog') = Len(backlog) + 1 /\ backlog'[Len(backlog) + 1] = b
      /\ \A i \in 1..Len(backlog) : backlog'[i] = backlog[i]
      /\ Len(backlog) \in Nat
    BY Joins DEF Pieces
<1>2. Taken' = Taken /\ used \in Nat
    BY <1>1 DEF Taken
<1>3. \A u \in Slots : cslots'[u] = IF u = s THEN used + 1 ELSE cslots[u]
    OBVIOUS
<1>4. /\ \A u \in Slots : cslots'[u] <= used' /\ (cslots'[u] # 0 <=> u <= cnum')
      /\ \A u, v \in Slots : cslots'[u] = cslots'[v] /\ cslots'[u] # 0 => u = v
    BY <1>2, <1>3 DEF Numbers
<1>5. Len(backlog') <= used'
    BY <1>1, <1>2 DEF Numbers
<1>6. ASSUME NEW i \in 1..Len(backlog')
      PROVE  backlog'[i].conn = Taken + i /\ backlog'[i].id <= used'
    <2>1. CASE i \in 1..Len(backlog)
        <3>0. backlog[i] \in Binds
            BY <2>1 DEF Pieces
        <3>1. backlog[i].conn = Taken + i /\ backlog[i].id <= used /\ backlog[i].id \in Nat
            BY <2>1, <3>0 DEF Numbers, Binds, Conns
        <3> QED
            BY <1>1, <1>2, <2>1, <3>1
    <2>2. CASE i = Len(backlog) + 1
        BY <1>1, <1>2, <2>2 DEF Taken
    <2> QED
        BY <1>1, <2>1, <2>2
<1>7. /\ \A h \in hand : h.conn = Taken /\ h.id <= used'
      /\ \A n \in DOMAIN slotMap : n <= used'
      /\ \A f \in DOMAIN s2c : s2c[f] <= used'
    BY <1>2 DEF Numbers, Pieces, Holds, Conns
<1> QED
    BY <1>2, <1>4, <1>5, <1>6, <1>7 DEF Numbers

\* A step that makes and accepts no connection.
LEMMA NumbersFrame ==
    ASSUME Numbers, UNCHANGED <<used, backlog, cslots, cnum>>, hand' = hand \/ hand' = {},
           \A n \in DOMAIN slotMap' : n <= used, \A f \in DOMAIN s2c' : s2c'[f] <= used
    PROVE  Numbers' /\ Taken' = Taken
BY DEF Numbers, Taken

\* Every step keeps the numbering of the connections.
LEMMA NumbersKept ==
    ASSUME Shape, Numbers, [Next]_vars
    PROVE  Numbers'
<1> USE DEF Shape
<1>1. CASE ClientConnects
    <2>1. [conn |-> used + 1, slot |-> 0, id |-> used + 1] \in Binds
        BY <1>1 DEF ClientConnects, Scalars, Binds, Conns
    <2>2. cnum + 1 \in Slots /\ cnum' = cnum + 1 /\ cnum' \in Nat
        BY <1>1 DEF ClientConnects, Scalars, Slots
    <2>3. \A u \in Slots : u <= cnum' <=> u <= cnum \/ u = cnum + 1
        BY <2>2 DEF Scalars, Slots
    <2>4. /\ backlog' = Append(backlog, [conn |-> used + 1, slot |-> 0, id |-> used + 1])
          /\ used' = used + 1 /\ cslots' = [cslots EXCEPT ![cnum + 1] = used + 1]
          /\ UNCHANGED <<hand, slotMap, s2c>> /\ used + 1 <= used + 1
        BY <1>1 DEF ClientConnects, loopVars, tableVars, Scalars
    <2> QED
        BY <2>1, <2>2, <2>3, <2>4, MadeNumbers
<1>2. ASSUME NEW s \in Slots, ClientReplaces(s) PROVE Numbers'
    <2>0. cid[s] \in Conns /\ cid[s] <= used + 1
        BY <1>2 DEF ClientReplaces, Numbers, Scalars, Slots, Conns
    <2>1. [conn |-> used + 1, slot |-> s, id |-> cid[s]] \in Binds
        BY <1>2, <2>0 DEF ClientReplaces, Scalars, Binds, Slots, Conns
    <2>2. cnum' = NConn /\ cnum = NConn /\ cnum' \in Nat
        BY <1>2 DEF ClientReplaces
    <2>3. \A u \in Slots : u <= cnum' <=> u <= cnum \/ u = s
        BY <2>2 DEF Scalars, Slots
    <2>4. /\ backlog' = Append(backlog, [conn |-> used + 1, slot |-> s, id |-> cid[s]])
          /\ used' = used + 1 /\ cslots' = [cslots EXCEPT ![s] = used + 1]
          /\ UNCHANGED <<hand, slotMap, s2c>>
        BY <1>2 DEF ClientReplaces, loopVars, tableVars, Scalars
    <2> QED
        BY <2>0, <2>1, <2>2, <2>3, <2>4, MadeNumbers
<1>3. CASE ClientRestarts
    <2>1. /\ UNCHANGED <<backlog, hand, slotMap, s2c, used>> /\ cnum' = 0
          /\ cslots' = [s \in Slots |-> 0] /\ used \in Nat
        BY <1>3 DEF ClientRestarts, loopVars, tableVars, Scalars
    <2>2. Taken' = Taken
        BY <2>1 DEF Taken
    <2>3. \A s \in Slots : cslots'[s] = 0 /\ s > 0
        BY <2>1 DEF Slots
    <2> QED
        BY <2>1, <2>2, <2>3 DEF Numbers, Slots
<1>4. CASE \/ Outage \/ (\E s \in Slots : Cut(s)) \/ BindFails \/ AddRefused \/ Lookup
           \/ TakeoverForget \/ UdpFails \/ OpenVc \/ UdpReady \/ TakeoverClose \/ AddSocket
    <2>1. /\ UNCHANGED <<used, backlog, cslots, cnum, slotMap, s2c>>
          /\ hand' = hand \/ hand' = {}
        BY <1>4 DEF Outage, Cut, BindFails, AddRefused, Lookup, TakeoverForget, UdpFails, OpenVc,
               UdpReady, TakeoverClose, AddSocket, clientVars, loopVars, tableVars
    <2>2. (\A n \in DOMAIN slotMap' : n <= used) /\ \A f \in DOMAIN s2c' : s2c'[f] <= used
        BY <2>1 DEF Numbers
    <2> QED
        BY <2>1, <2>2, NumbersFrame
<1>5. CASE Accept
    <2>1. /\ Len(backlog') = Len(backlog) - 1 /\ Head(backlog) = backlog[1]
          /\ Len(backlog) \in Nat \ {0}
          /\ \A i \in 1..Len(backlog') : backlog'[i] = backlog[i + 1]
        BY <1>5, Leaves DEF Accept, Pieces
    <2>2. Taken' = Taken + 1 /\ used' = used /\ UNCHANGED <<cslots, cnum, slotMap, s2c>>
        BY <1>5, <2>1 DEF Accept, Taken, clientVars, Scalars, tableVars
    <2>3. PICK h : hand' = {h} /\ h.conn = backlog[1].conn /\ h.id = backlog[1].id
        <3>1. PICK h : /\ hand' = {h}
                       /\ h = [fd |-> Lowest, conn |-> Head(backlog).conn,
                               slot |-> Head(backlog).slot, id |-> Head(backlog).id]
            BY <1>5 DEF Accept
        <3> QED
            BY <2>1, <3>1
    <2>4. /\ backlog[1].conn = Taken + 1 /\ backlog[1].id <= used
          /\ \A i \in 1..Len(backlog) : backlog[i].conn = Taken + i /\ backlog[i].id <= used
        BY <2>1 DEF Numbers
    <2>5. \A k \in hand' : k.conn = Taken' /\ k.id <= used'
        BY <2>2, <2>3, <2>4
    <2>6. ASSUME NEW i \in 1..Len(backlog')
          PROVE  backlog'[i].conn = Taken' + i /\ backlog'[i].id <= used'
        <3>1. i + 1 \in 1..Len(backlog) /\ backlog'[i] = backlog[i + 1]
            BY <2>1
        <3>2. Taken \in Int
            BY <2>1 DEF Taken, Scalars
        <3> QED
            BY <2>2, <2>4, <3>1, <3>2
    <2>7. Len(backlog') <= used'
        BY <2>1, <2>2 DEF Numbers, Scalars
    <2> QED
        BY <2>2, <2>5, <2>6, <2>7 DEF Numbers
<1>6. CASE Register
    <2>1. Held \in hand
        BY <1>6, HeldIs DEF Register, Holding
    <2>2. UNCHANGED <<used, backlog, cslots, cnum, slotMap, hand>>
        BY <1>6 DEF Register, clientVars
    <2>3. s2c' = [f \in DOMAIN s2c \cup {Held.fd} |-> IF f = Held.fd THEN Held.id ELSE s2c[f]]
        BY <1>6 DEF Register
    <2>4. \A f \in DOMAIN s2c' : s2c'[f] <= used
        BY <2>1, <2>3 DEF Numbers
    <2>5. \A n \in DOMAIN slotMap' : n <= used
        BY <2>2 DEF Numbers
    <2> QED
        BY <2>2, <2>4, <2>5, NumbersFrame
<1>7. CASE CreateVc
    <2>1. PICK g \in Chans, p \in peer :
              LET known == {i \in Slots : p[i].fd \in DOMAIN s2c}
                  ids == {s2c[p[i].fd] : i \in known} IN
              /\ slotMap' = [n \in DOMAIN slotMap \cup ids |->
                                IF n \in ids THEN CHOOSE i \in known : s2c[p[i].fd] = n
                                             ELSE slotMap[n]]
              /\ s2c' = [f \in DOMAIN s2c \ {p[i].fd : i \in known} |-> s2c[f]]
        BY <1>7 DEF CreateVc
    <2>2. \A n \in DOMAIN slotMap' : n <= used
        BY <2>1 DEF Numbers
    <2>3. \A f \in DOMAIN s2c' : s2c'[f] <= used
        BY <2>1 DEF Numbers
    <2>4. UNCHANGED <<used, backlog, cslots, cnum, hand>>
        BY <1>7 DEF CreateVc, clientVars
    <2> QED
        BY <2>2, <2>3, <2>4, NumbersFrame
<1>8. CASE Replace
    <2>1. Held \in hand
        BY <1>8, HeldIs DEF Replace, Holding
    <2>2. DOMAIN slotMap' \subseteq DOMAIN slotMap \cup {Held.id}
        BY <1>8 DEF Replace
    <2>3. UNCHANGED <<used, backlog, cslots, cnum, s2c>> /\ hand' = {}
        BY <1>8 DEF Replace, clientVars
    <2>4. (\A n \in DOMAIN slotMap' : n <= used) /\ \A f \in DOMAIN s2c' : s2c'[f] <= used
        BY <2>1, <2>2, <2>3 DEF Numbers
    <2> QED
        BY <2>3, <2>4, NumbersFrame
<1>9. ASSUME NEW g \in Chans, Channel(g) PROVE Numbers'
    <2>1. /\ UNCHANGED <<backlog, hand, s2c, used, cslots, cnum>>
          /\ slotMap' = slotMap \/ slotMap' = <<>>
        BY <1>9 DEF Channel, Dies, RemoveVc, RemovePeer, CloseUdp, ClearSlots, loopVars, tableVars,
                    clientVars
    <2>2. (\A n \in DOMAIN slotMap' : n <= used) /\ \A f \in DOMAIN s2c' : s2c'[f] <= used
        BY <2>1 DEF Numbers
    <2> QED
        BY <2>1, <2>2, NumbersFrame
<1>10. CASE UNCHANGED vars
    <2>1. UNCHANGED <<backlog, hand, s2c, used, cslots, cnum, slotMap>>
        BY <1>10 DEF vars, loopVars, tableVars, clientVars
    <2>2. (\A n \in DOMAIN slotMap' : n <= used) /\ \A f \in DOMAIN s2c' : s2c'[f] <= used
        BY <2>1 DEF Numbers
    <2> QED
        BY <2>1, <2>2, NumbersFrame
<1> QED
    BY <1>1, <1>2, <1>3, <1>4, <1>5, <1>6, <1>7, <1>8, <1>9, <1>10 DEF Next, Client, AcceptLoop

\* The entries of a peer.
LEMMA PeerEntries ==
    ASSUME Pieces, NEW p \in peer, NEW i \in 1..Len(p)
    PROVE  p[i] \in Entries
BY DEF Pieces

\* What was accepted does not get younger.
LEMMA AgedKept ==
    ASSUME Shape, Numbers, Aged, [Next]_vars
    PROVE  Aged'
<1> USE DEF Shape
<1>0. Taken \in Int
    BY DEF Taken, Scalars, Pieces
<1>1. ASSUME Taken' = Taken, hand' = hand \/ hand' = {}
      PROVE  \A c : Older(c) => Older(c)'
    BY <1>1 DEF Older
<1>2. ASSUME \A c \in Conns : Older(c) => Older(c)', peer' = peer \/ peer' = {} \/ peer' = {<<>>},
             UNCHANGED conn, \A g \in Chans : st'[g] # "none" => st[g] # "none"
      PROVE  Aged'
    <2>1. \A p \in peer : \A i \in 1..Len(p) : p[i].conn \in Conns
        BY PeerEntries DEF Entries
    <2>2. \A g \in Chans : st[g] # "none" => \A s \in Slots : conn[g][s].conn \in Conns
        BY DEF ChanTypes, Entries
    <2>3. Len(<<>>) = 0
        OBVIOUS
    <2>4. \A p \in peer' : \A i \in 1..Len(p) : Older(p[i].conn)'
        BY <1>2, <2>1, <2>3 DEF Aged
    <2>5. \A g \in Chans : st'[g] # "none" => \A s \in Slots : Older(conn[g][s].conn)'
        BY <1>2, <2>2 DEF Aged
    <2> QED
        BY <2>4, <2>5, <1>2 DEF Aged
<1>3. CASE Client
    <2>1. UNCHANGED <<hand, conn, st, peer>>
        BY <1>3 DEF Client, ClientConnects, ClientReplaces, ClientRestarts, Cut, Outage, chanVars,
               loopVars, tableVars
    <2>2. Taken' = Taken
        <3>1. CASE UNCHANGED <<used, backlog>>
            BY <3>1 DEF Taken
        <3>2. CASE used' = used + 1 /\ \E b \in Binds : backlog' = Append(backlog, b)
            <4>1. Len(backlog') = Len(backlog) + 1 /\ Len(backlog) \in Nat
                BY <3>2, Joins DEF Pieces
            <4> QED
                BY <4>1, <3>2 DEF Taken, Scalars
        <3>3. ClientConnects => [conn |-> used + 1, slot |-> 0, id |-> used + 1] \in Binds
            BY DEF ClientConnects, Scalars, Binds, Conns
        <3>4. ASSUME NEW s \in Slots, ClientReplaces(s)
              PROVE  [conn |-> used + 1, slot |-> s, id |-> cid[s]] \in Binds
            <4>1. cid[s] \in Conns
                BY <3>4 DEF ClientReplaces, Numbers, Scalars, Slots, Conns
            <4> QED
                BY <3>4, <4>1 DEF ClientReplaces, Scalars, Binds, Slots, Conns
        <3> QED
            BY <1>3, <3>1, <3>2, <3>3, <3>4 DEF Client, ClientConnects, ClientReplaces,
               ClientRestarts, Cut, Outage
    <2> QED
        BY <1>1, <1>2, <2>1, <2>2
<1>4. CASE Accept
    <2>1. Len(backlog') = Len(backlog) - 1 /\ Len(backlog) \in Nat \ {0}
        BY <1>4, Leaves DEF Accept, Pieces
    <2>2. Taken' = Taken + 1 /\ hand = {} /\ UNCHANGED <<peer, conn, st>>
        BY <1>4, <2>1 DEF Accept, Taken, clientVars, Scalars, tableVars, chanVars, Pieces, Holding
    <2>3. \A c \in Conns : Older(c) => Older(c)'
        BY <1>0, <2>2 DEF Older, Conns
    <2> QED
        BY <1>2, <2>2, <2>3
<1>5. CASE AddSocket
    <2>1. PICK e \in Entries : e = HandEntry /\ e.conn = Taken
        BY <1>5, HeldIs DEF AddSocket, Holding, Numbers
    <2>2. PICK p \in peer : peer' = {Append(p, e)}
        BY <1>5, <2>1 DEF AddSocket
    <2>3. hand' = {} /\ Taken' = Taken /\ UNCHANGED <<conn, st>>
        BY <1>5 DEF AddSocket, Taken, clientVars, chanVars
    <2>4. \A c : Older(c) => Older(c)'
        BY <1>1, <2>3
    <2>5. Older(e.conn)'
        BY <1>0, <2>1, <2>3 DEF Older
    <2>6. ASSUME NEW i \in 1..Len(Append(p, e)) PROVE Older(Append(p, e)[i].conn)'
        <3>1. p \in Seq(Entries)
            BY DEF Pieces
        <3>2. CASE i \in 1..Len(p)
            <4>1. Append(p, e)[i] = p[i]
                BY <3>1, <3>2
            <4> QED
                BY <2>4, <3>2, <4>1 DEF Aged
        <3>3. CASE i = Len(p) + 1
            <4>1. Append(p, e)[i] = e
                BY <3>1, <3>3
            <4> QED
                BY <2>5, <4>1
        <3> QED
            BY <3>1, <3>2, <3>3
    <2> QED
        BY <2>2, <2>3, <2>4, <2>6 DEF Aged
<1>6. CASE Replace
    <2>1. PICK e \in Entries : e = HandEntry /\ e.conn = Taken
        BY <1>6, HeldIs DEF Replace, Holding, Numbers
    <2>2. evc \in Chans /\ st[evc] # "none"
        BY <1>6 DEF Replace, ChanTypes, Working
    <2>3. conn' = [conn EXCEPT ![evc] = [s \in Slots |-> IF s = Target THEN e ELSE @[s]]]
        BY <1>6, <2>1 DEF Replace
    <2>4. hand' = {} /\ Taken' = Taken /\ UNCHANGED <<peer, st>>
        BY <1>6 DEF Replace, Taken, clientVars
    <2>5. \A c : Older(c) => Older(c)'
        BY <1>1, <2>4
    <2>6. Older(e.conn)'
        BY <1>0, <2>1, <2>4 DEF Older
    <2>7. ASSUME NEW g \in Chans, NEW s \in Slots
          PROVE  conn'[g][s] = conn[g][s] \/ conn'[g][s] = e
        BY <2>2, <2>3 DEF ChanTypes
    <2>8. ASSUME NEW c, Older(c), NEW d, d = c \/ d = e.conn PROVE Older(d)'
        BY <2>5, <2>6, <2>8
    <2>9. ASSUME NEW g \in Chans, st[g] # "none", NEW s \in Slots PROVE Older(conn[g][s].conn)'
        <3>1. PICK c, d : c = conn[g][s].conn /\ d = conn'[g][s].conn
            OBVIOUS
        <3>2. Older(c) /\ (d = c \/ d = e.conn)
            BY <2>7, <2>9, <3>1 DEF Aged
        <3>3. Older(d)'
            BY <2>8, <3>2
        <3> QED
            BY <3>1, <3>3 DEF Older
    <2> QED
        BY <2>4, <2>5, <2>9 DEF Aged
<1>7. CASE CreateVc
    <2>1. PICK g \in Chans, p \in peer :
              st' = [st EXCEPT ![g] = "new"] /\ conn' = [conn EXCEPT ![g] = p]
        BY <1>7 DEF CreateVc
    <2>2. Len(p) = NConn
        BY <1>7 DEF CreateVc, Pieces
    <2>3. UNCHANGED <<hand, peer>> /\ Taken' = Taken
        BY <1>7 DEF CreateVc, Taken, clientVars
    <2>4. \A c : Older(c) => Older(c)'
        BY <1>1, <2>3
    <2>5. ASSUME NEW h \in Chans, st'[h] # "none", NEW s \in Slots PROVE Older(conn[h][s].conn)'
        <3>1. PICK d : d = conn'[h][s].conn
            OBVIOUS
        <3>2. Older(d)
            BY <2>1, <2>2, <2>5, <3>1 DEF Aged, ChanTypes, Slots
        <3>3. Older(d)'
            BY <2>4, <3>2
        <3> QED
            BY <3>1, <3>3 DEF Older
    <2> QED
        BY <2>3, <2>4, <2>5 DEF Aged
<1>8. CASE \/ BindFails \/ AddRefused \/ Lookup \/ TakeoverForget \/ UdpFails \/ OpenVc
           \/ UdpReady \/ TakeoverClose \/ Register \/ (\E g \in Chans : Channel(g))
           \/ UNCHANGED vars
    <2>1. /\ UNCHANGED <<used, backlog, conn>> /\ (hand' = hand \/ hand' = {})
          /\ peer' = peer \/ peer' = {} \/ peer' = {<<>>}
        BY <1>8 DEF BindFails, AddRefused, Lookup, TakeoverForget, UdpFails, OpenVc, UdpReady,
               TakeoverClose, Register, AddPeer, Channel, Dies, RemoveVc, RemovePeer, CloseUdp,
               ClearSlots, vars, clientVars, loopVars, tableVars, chanVars
    <2>2. \A g \in Chans : st'[g] # "none" => st[g] # "none"
        <3>1. CASE UNCHANGED st
            BY <3>1
        <3>2. CASE OpenVc \/ TakeoverClose
            <4>1. PICK o : st' = [st EXCEPT ![evc] = o] /\ evc \in Chans /\ st[evc] # "none"
                BY <3>2 DEF OpenVc, TakeoverClose, ChanTypes, Working
            <4> QED
                BY <4>1 DEF ChanTypes
        <3>3. ASSUME NEW g \in Chans, NEW s \in Slots, Dies(g, s)
              PROVE  \A h \in Chans : st'[h] # "none" => st[h] # "none"
            <4>1. PICK o : st' = [st EXCEPT ![g] = o] /\ st[g] # "none"
                BY <3>3 DEF Dies
            <4> QED
                BY <4>1 DEF ChanTypes
        <3> QED
            BY <1>8, <3>1, <3>2, <3>3 DEF BindFails, AddRefused, Lookup, TakeoverForget, UdpFails,
               UdpReady, Register, Channel, RemoveVc, RemovePeer, CloseUdp, ClearSlots, vars,
               chanVars
    <2>3. Taken' = Taken
        BY <2>1 DEF Taken
    <2> QED
        BY <1>1, <1>2, <2>1, <2>2, <2>3
<1> QED
    BY <1>3, <1>4, <1>5, <1>6, <1>7, <1>8 DEF Next, AcceptLoop

\* Every step keeps the order in which a channel gets its UDP socket and opens.
LEMMA WiredKept ==
    ASSUME Shape, Wired, [Next]_vars
    PROVE  Wired'
<1> USE DEF Shape
<1>1. CASE Client
    <2>1. UNCHANGED <<chanVars, cb, pc, evc>>
        BY <1>1 DEF Client, ClientConnects, ClientReplaces, ClientRestarts, Cut, Outage, loopVars
    <2> QED
        BY <2>1 DEF Wired, chanVars
<1>2. CASE \/ Accept \/ BindFails \/ Register \/ AddRefused \/ AddSocket \/ UdpFails
           \/ TakeoverForget \/ Lookup \/ Replace
    <2>1. UNCHANGED <<st, udp, cb>> /\ pc' \notin {"udp", "open", "opening"}
        BY <1>2 DEF Accept, BindFails, Register, AddRefused, AddSocket, UdpFails, TakeoverForget,
               Lookup, Replace, chanVars
    <2> QED
        BY <2>1 DEF Wired
<1>3. CASE TakeoverClose
    <2>1. /\ st' = [st EXCEPT ![evc] = IF @ = "open" THEN "down" ELSE @]
          /\ UNCHANGED <<udp, cb>> /\ pc' = "forget"
        BY <1>3 DEF TakeoverClose
    <2>2. \A g \in Chans : st'[g] = st[g] \/ (st[g] = "open" /\ st'[g] = "down")
        BY <2>1 DEF ChanTypes
    <2> QED
        BY <2>1, <2>2 DEF Wired
<1>4. CASE CreateVc
    <2>1. PICK g \in Chans : st[g] = "none" /\ st' = [st EXCEPT ![g] = "new"] /\ evc' = g
        BY <1>4 DEF CreateVc
    <2>2. UNCHANGED <<udp, cb>> /\ pc' = "udp"
        BY <1>4 DEF CreateVc
    <2>3. st'[g] = "new" /\ \A h \in Chans : h # g => st'[h] = st[h]
        BY <2>1 DEF ChanTypes
    <2> QED
        BY <2>1, <2>2, <2>3 DEF Wired
<1>5. CASE UdpReady
    <2>1. Lowest \in Fds
        BY <1>5, LowestIs DEF UdpReady
    <2>2. /\ udp' = [udp EXCEPT ![evc] = Lowest] /\ pc = "udp" /\ pc' = "open"
          /\ UNCHANGED <<st, cb, evc>> /\ evc \in Chans
        BY <1>5 DEF UdpReady, ChanTypes, Working
    <2> HIDE DEF Lowest
    <2>3. udp'[evc] # 0 /\ \A h \in Chans : h # evc => udp'[h] = udp[h]
        BY <2>1, <2>2 DEF ChanTypes, Fds
    <2> QED
        BY <2>2, <2>3 DEF Wired
<1>6. CASE OpenVc
    <2>1. PICK o \in {"opening", "open"} : /\ st' = [st EXCEPT ![evc] = o]
                                           /\ pc' = "opening" => o = "opening"
        BY <1>6 DEF OpenVc
    <2>2. /\ pc \in {"open", "opening"} /\ UNCHANGED <<udp, cb, evc>>
          /\ pc' \in {"opening", "accept"} /\ evc \in Chans
        BY <1>6 DEF OpenVc, ChanTypes, Working
    <2>3. st'[evc] = o /\ \A h \in Chans : h # evc => st'[h] = st[h]
        BY <2>1, <2>2 DEF ChanTypes
    <2>4. cb[evc] = "none" /\ udp[evc] # 0
        BY <2>2 DEF Wired
    <2> QED
        BY <2>1, <2>2, <2>3, <2>4 DEF Wired
<1>7. ASSUME NEW g \in Chans, NEW s \in Slots, Dies(g, s) PROVE Wired'
    <2>1. /\ \/ UNCHANGED <<st, cb>>
             \/ /\ st[g] = "open" /\ st' = [st EXCEPT ![g] = "down"]
                /\ cb' = [cb EXCEPT ![g] = "removeVc"]
          /\ UNCHANGED <<udp, pc, evc>>
        BY <1>7 DEF Dies, loopVars, ChanTypes
    <2>2. CASE UNCHANGED <<st, cb>>
        BY <2>1, <2>2 DEF Wired
    <2>3. CASE /\ st[g] = "open" /\ st' = [st EXCEPT ![g] = "down"]
               /\ cb' = [cb EXCEPT ![g] = "removeVc"]
        <3>1. /\ st'[g] = "down" /\ \A h \in Chans : h # g => st'[h] = st[h] /\ cb'[h] = cb[h]
            BY <2>3 DEF ChanTypes
        <3>2. pc \in {"udp", "open", "opening"} => evc \in Chans /\ evc # g
            BY <2>3 DEF Wired, ChanTypes, Working
        <3> QED
            BY <2>1, <2>3, <3>1, <3>2 DEF Wired
    <2> QED
        BY <2>1, <2>2, <2>3
<1>8. ASSUME NEW g \in Chans, RemoveVc(g) \/ RemovePeer(g) \/ CloseUdp(g) \/ ClearSlots(g)
      PROVE  Wired'
    <2>1. /\ \E o \in CbPcs : cb' = [cb EXCEPT ![g] = o]
          /\ UNCHANGED <<st, udp, pc, evc>> /\ cb[g] # "none"
        BY <1>8 DEF RemoveVc, RemovePeer, CloseUdp, ClearSlots, CbPcs, loopVars, chanVars
    <2>2. \A h \in Chans : h # g => cb'[h] = cb[h]
        BY <2>1 DEF ChanTypes
    <2> QED
        BY <2>1, <2>2 DEF Wired
<1>9. CASE UNCHANGED vars
    BY <1>9 DEF vars, Wired, chanVars, loopVars
<1> QED
    BY <1>1, <1>2, <1>3, <1>4, <1>5, <1>6, <1>7, <1>8, <1>9 DEF Next, AcceptLoop, Channel

\* Closing a descriptor cuts what is behind it.
LEMMA KnownClose ==
    ASSUME Scalars, Known, NEW E, CloseAll(E), used' = used, \A e \in E : e.fd \in Fds
    PROVE  Known'
<1>1. desc' = [f \in Fds |-> IF f \in {e.fd : e \in E} THEN 0 ELSE desc[f]]
    BY DEF CloseAll
<1>2. cut' = cut \cup ({desc[f] : f \in {e.fd : e \in E}} \cap Conns)
    BY DEF CloseAll
<1>3. \A c \in cut' : c \in cut \/ \E f \in Fds : c = desc[f] /\ desc[f] \in Conns
    BY <1>2
<1>4. 0 \notin Conns
    BY DEF Conns
<1> QED
    BY <1>1, <1>3, <1>4 DEF Known

\* Every step keeps Known: what is cut or behind a descriptor was made before.
LEMMA KnownKept ==
    ASSUME Shape, Numbers, Wired, Known, [Next]_vars
    PROVE  Known'
<1> USE DEF Shape
<1>0. used \in Nat /\ \A c \in Conns : c \in Nat
    BY DEF Scalars, Conns
<1>1. ASSUME UNCHANGED <<desc, cut>>, used' = used \/ used' = used + 1 PROVE Known'
    <2>1. cut \subseteq Conns
        BY DEF Scalars
    <2> QED
        BY <1>0, <1>1, <2>1 DEF Known
<1>2. CASE ClientConnects \/ \E s \in Slots : ClientReplaces(s)
    BY <1>1, <1>2 DEF ClientConnects, ClientReplaces, kernelVars
<1>3. CASE ClientRestarts \/ Outage \/ \E s \in Slots : Cut(s)
    <2>1. PICK D : cut' = cut \cup {cslots[s] : s \in D} /\ D \subseteq Slots
        <3>1. \A s \in Slots : Cut(s) => cut' = cut \cup {cslots[u] : u \in {s}}
            BY DEF Cut
        <3>2. ClientRestarts => 1..cnum \subseteq Slots
            BY DEF Scalars, Slots
        <3>3. ASSUME NEW s \in Slots, Cut(s) PROVE {s} \subseteq Slots
            OBVIOUS
        <3>4. CASE \E s \in Slots : Cut(s)
            BY <3>1, <3>3, <3>4
        <3>5. CASE ClientRestarts \/ Outage
            BY <3>2, <3>5 DEF ClientRestarts, Outage
        <3> QED
            BY <1>3, <3>4, <3>5
    <2>2. UNCHANGED <<desc, used>>
        BY <1>3 DEF ClientRestarts, Outage, Cut
    <2> QED
        BY <2>1, <2>2 DEF Known, Numbers
<1>4. CASE Accept
    <2>1. Lowest \in Fds
        BY <1>4, LowestIs DEF Accept
    <2>2. Head(backlog).conn <= used
        <3>1. /\ Head(backlog) = backlog[1] /\ Len(backlog) \in Nat \ {0}
            BY <1>4 DEF Accept, Pieces
        <3> QED
            BY <1>0, <3>1 DEF Numbers, Taken
    <2>3. desc' = [desc EXCEPT ![Lowest] = Head(backlog).conn] /\ UNCHANGED <<cut, used>>
        BY <1>4 DEF Accept, clientVars
    <2> HIDE DEF Lowest
    <2> QED
        BY <2>1, <2>2, <2>3 DEF Known, Scalars
<1>5. CASE UdpReady
    <2>1. Lowest \in Fds
        BY <1>5, LowestIs DEF UdpReady
    <2>2. Udp(evc) \notin Conns
        BY <1>5 DEF UdpReady, Udp, Conns, ChanTypes, Working, Chans
    <2>3. desc' = [desc EXCEPT ![Lowest] = Udp(evc)] /\ UNCHANGED <<cut, used>>
        BY <1>5 DEF UdpReady, clientVars
    <2> HIDE DEF Lowest, Udp
    <2> QED
        BY <2>1, <2>2, <2>3 DEF Known, Scalars
<1>6. CASE BindFails \/ AddRefused
    <2>1. HandEntry \in Entries /\ CloseAll({HandEntry}) /\ used' = used
        BY <1>6, HeldIs DEF BindFails, AddRefused, Holding, clientVars
    <2>2. \A e \in {HandEntry} : e.fd \in Fds
        BY <2>1 DEF Entries
    <2> HIDE DEF CloseAll
    <2> QED
        BY <2>1, <2>2, KnownClose
<1>7. CASE TakeoverClose
    <2>1. evc \in Chans /\ st[evc] # "none"
        BY <1>7 DEF TakeoverClose, ChanTypes, Working
    <2>2. PICK E : CloseAll(E) /\ E = IF st[evc] = "open" THEN LiveOf(evc) ELSE {}
        BY <1>7 DEF TakeoverClose
    <2>3. \A e \in E : e.fd \in Fds
        BY <2>1, <2>2 DEF LiveOf, ChanTypes, Entries
    <2>4. used' = used
        BY <1>7 DEF TakeoverClose, clientVars
    <2> HIDE DEF CloseAll
    <2> QED
        BY <2>2, <2>3, <2>4, KnownClose
<1>8. CASE Replace
    <2>1. evc \in Chans /\ st[evc] # "none" /\ HandEntry \in Entries
        BY <1>8, HeldIs DEF Replace, ChanTypes, Working, Holding
    <2>2. PICK E : /\ CloseAll(E)
                   /\ E = IF Target = 0 THEN {HandEntry}
                                        ELSE {conn[evc][s] : s \in live[evc] \cap {Target}}
        BY <1>8 DEF Replace
    <2>3. \A e \in E : e.fd \in Fds
        BY <2>1, <2>2 DEF ChanTypes, Entries
    <2>4. used' = used
        BY <1>8 DEF Replace, clientVars
    <2> HIDE DEF CloseAll
    <2> QED
        BY <2>2, <2>3, <2>4, KnownClose
<1>9. CASE Lookup \/ TakeoverForget \/ UdpFails \/ OpenVc \/ AddSocket \/ Register \/ CreateVc
    BY <1>1, <1>9 DEF Lookup, TakeoverForget, UdpFails, OpenVc, AddSocket, Register, CreateVc,
       kernelVars, clientVars
<1>10. ASSUME NEW g \in Chans, NEW s \in Slots, Dies(g, s) PROVE Known'
    <2>1. CloseAll({conn[g][s]}) /\ used' = used /\ st[g] # "none"
        BY <1>10 DEF Dies, clientVars
    <2>2. \A e \in {conn[g][s]} : e.fd \in Fds
        BY <2>1 DEF ChanTypes, Entries
    <2> HIDE DEF CloseAll
    <2> QED
        BY <2>1, <2>2, KnownClose
<1>11. ASSUME NEW g \in Chans, CloseUdp(g) PROVE Known'
    <2>1. CloseAll({[fd |-> udp[g], conn |-> Udp(g)]}) /\ used' = used
        BY <1>11 DEF CloseUdp, clientVars
    <2>2. udp[g] \in Fds
        BY <1>11 DEF CloseUdp, Wired, ChanTypes, Fds
    <2> HIDE DEF CloseAll
    <2>3. \A e \in {[fd |-> udp[g], conn |-> Udp(g)]} : e.fd \in Fds
        BY <2>2
    <2> QED
        BY <2>1, <2>3, KnownClose
<1>12. ASSUME NEW g \in Chans, RemoveVc(g) \/ RemovePeer(g) \/ ClearSlots(g) PROVE Known'
    BY <1>1, <1>12 DEF RemoveVc, RemovePeer, ClearSlots, kernelVars, clientVars
<1>13. CASE UNCHANGED vars
    BY <1>1, <1>13 DEF vars, kernelVars, clientVars
<1> QED
    BY <1>2, <1>3, <1>4, <1>5, <1>6, <1>7, <1>8, <1>9, <1>10, <1>11, <1>12, <1>13
    DEF Next, Client, AcceptLoop, Channel

\* Base holds in every history.
LEMMA BaseInit == ASSUME Init PROVE Base
<1> USE DEF Init
<1>1. Scalars
    <2>1. desc \in [Fds -> 0..(MaxConns + MaxVcs)] /\ cslots \in [Slots -> 0..MaxConns]
        BY DEF Fds, Slots
    <2>2. cid = cslots /\ cut \subseteq Conns /\ pc \in LoopPcs
        BY DEF LoopPcs
    <2>3. /\ evc \in 0..MaxVcs /\ mgr \in 0..MaxVcs /\ cnum \in 0..NConn /\ used \in 0..MaxConns
        OBVIOUS
    <2>4. stray \in BOOLEAN /\ orderly \in BOOLEAN
        BY Zenon
    <2> QED
        BY <2>1, <2>2, <2>3, <2>4 DEF Scalars
<1>2. Pieces
    BY DEF Pieces, Holding
<1>3. ChanTypes
    BY DEF ChanTypes, States, CbPcs, Working
<1>4. Numbers
    BY DEF Numbers, Taken, Slots
<1>5. Aged /\ Wired /\ Known
    BY DEF Aged, Wired, Known, Conns
<1> QED
    BY <1>1, <1>2, <1>3, <1>4, <1>5 DEF Base, Shape

\* Every step keeps it.
LEMMA BaseKept ==
    ASSUME Base, [Next]_vars
    PROVE  Base'
BY ScalarsKept, PiecesKept, ChanTypesKept, NumbersKept, AgedKept, WiredKept, KnownKept
DEF Base, Shape

------------------------------------------------------------------------------
(***************************************************************************)
(* Orderly histories: which steps each stage allows.                       *)
(***************************************************************************)
\* An orderly history was orderly before.
LEMMA OrderlyBefore ==
    ASSUME Base, [Next]_vars, orderly'
    PROVE  orderly
<1>1. ClientRestarts \/ Outage \/ (\E s \in Slots : Cut(s)) => orderly
    BY DEF ClientRestarts, Outage, Cut
<1>2. CASE ~(ClientRestarts \/ Outage \/ (\E s \in Slots : Cut(s)))
    <2>1. orderly' = orderly
        BY <1>2 DEF Next, Client, AcceptLoop, Channel, ClientConnects, ClientReplaces,
           Accept, BindFails, Lookup, TakeoverClose, TakeoverForget, Replace, Register, AddRefused,
           AddSocket, CreateVc, UdpReady, UdpFails, OpenVc, Dies, RemoveVc, RemovePeer, CloseUdp,
           ClearSlots, vars, clientVars
    <2> QED
        BY <2>1
<1> QED
    BY <1>1, <1>2

\* How many sockets the peer has.
LEMMA GatheredIs ==
    ASSUME Pieces
    PROVE  /\ peer = {} => Gathered = 0
           /\ \A p \in peer : peer = {p} /\ Gathered = Len(p)
           /\ Gathered \in 0..NConn
<1>1. CASE peer = {}
    BY <1>1 DEF Gathered
<1>2. ASSUME NEW p \in peer PROVE peer = {p} /\ Gathered = Len(p) /\ Gathered \in 0..NConn
    <2>1. peer = {p} /\ Len(p) \in 0..NConn
        BY DEF Pieces
    <2>2. (CHOOSE q \in peer : TRUE) = p
        BY <2>1
    <2> QED
        BY <2>1, <2>2 DEF Gathered
<1> QED
    BY <1>1, <1>2

\* The connection in hand is the next one of the attempt.
LEMMA NextGathered ==
    ASSUME Base, Gathering, NEW h \in hand
    PROVE  /\ Gathered + 1 \in Slots /\ Gathered + 1 <= cnum
           /\ h.conn = cslots[Gathered + 1] /\ h.conn \notin cut
<1> USE DEF Base, Shape
<1>1. InHand = 1 /\ Len(backlog) \in Nat /\ Gathered \in Nat /\ cnum \in 0..NConn /\ used \in Nat
    BY GatheredIs DEF InHand, Pieces, Scalars
<1>2. cnum = Gathered + InHand + Len(backlog) /\ h.conn = used - Len(backlog)
    BY DEF Gathering, Numbers, Taken
<1>3. Gathered + 1 \in Slots /\ Gathered + 1 <= cnum
    BY <1>1, <1>2 DEF Slots
<1>4. PICK k \in Slots : k = Gathered + 1
    BY <1>3
<1>5. cslots[k] = used - cnum + k /\ cslots[k] \notin cut
    BY <1>3, <1>4 DEF Gathering
<1> QED
    BY <1>1, <1>2, <1>3, <1>4, <1>5

\* A whole peer leaves nothing under way.
LEMMA AllGathered ==
    ASSUME Base, Gathering, pc = "create"
    PROVE  hand = {} /\ backlog = <<>> /\ cnum = NConn /\ Gathered = NConn
<1> USE DEF Base, Shape
<1>1. Len(backlog) \in Nat /\ cnum \in 0..NConn /\ hand = {} /\ Gathered = NConn
    BY DEF Pieces, Scalars, Gathering, Holding
<1>2. InHand = 0 /\ cnum = Gathered + InHand + Len(backlog)
    BY <1>1 DEF InHand, Gathering
<1>3. Len(backlog) = 0 /\ cnum = NConn
    BY <1>1, <1>2
<1> QED
    BY <1>1, <1>3 DEF Pieces

\* No takeover, no refusal; a replacement and what follows it only when up.
LEMMA StagePcs ==
    ASSUME Base, Stage
    PROVE  /\ pc \notin {"takeover", "forget"}
           /\ pc \in {"register", "add", "create"} => Gathering
           /\ pc \in {"replace", "udp", "open", "opening", "ended"} => Up
           /\ hand # {} => Gathering \/ Up
<1> QED
    BY DEF Stage, Gathering, Up, Ending

\* While the client gathers its connections, the peer has room for each.
LEMMA NoRefusal ==
    ASSUME Base, Stage, AddRefused
    PROVE  FALSE
<1> USE DEF Base, Shape
<1>1. pc = "add" /\ Gathering
    BY StagePcs DEF AddRefused
<1>2. PICK h : h \in hand
    BY <1>1 DEF Pieces, Holding
<1>3. Gathered + 1 \in Slots
    BY <1>1, <1>2, NextGathered
<1>4. peer # {}
    BY <1>1 DEF Gathering
<1>5. PICK p \in peer : Len(p) = NConn
    BY <1>4 DEF AddRefused
<1>6. Gathered = NConn
    BY <1>5, GatheredIs
<1> QED
    BY <1>3, <1>6 DEF Slots

\* Closing one's own descriptor, of a connection that was cut before or of a UDP
\* socket, cuts nothing else.
LEMMA CloseOwn ==
    ASSUME Scalars, NEW e, e.fd \in Fds, desc[e.fd] = e.conn, CloseAll({e}),
           e.conn \in cut \/ e.conn \notin Conns
    PROVE  /\ cut' = cut /\ stray' = stray
           /\ \A f \in Fds : desc'[f] = IF f = e.fd THEN 0 ELSE desc[f]
<1>1. {x.fd : x \in {e}} = {e.fd}
    OBVIOUS
<1>2. cut' = cut
    <2>1. cut' = cut \cup ({desc[f] : f \in {e.fd}} \cap Conns)
        BY <1>1 DEF CloseAll
    <2>2. {desc[f] : f \in {e.fd}} = {e.conn}
        OBVIOUS
    <2> QED
        BY <2>1, <2>2
<1>3. stray' = stray
    <2>1. ~\E x \in {e} : desc[x.fd] # x.conn
        OBVIOUS
    <2>2. stray' = (stray \/ \E x \in {e} : desc[x.fd] # x.conn)
        BY DEF CloseAll
    <2> QED
        BY <2>1, <2>2 DEF Scalars
<1>4. \A f \in Fds : desc'[f] = IF f = e.fd THEN 0 ELSE desc[f]
    BY <1>1 DEF CloseAll
<1> QED
    BY <1>2, <1>3, <1>4

\* Closing nothing changes nothing.
LEMMA CloseNone ==
    ASSUME Scalars, CloseAll({})
    PROVE  cut' = cut /\ stray' = stray /\ desc' = desc
<1>1. cut' = cut /\ desc' = desc
    BY DEF CloseAll, Scalars
<1>2. stray' = stray
    <2>1. ~\E x \in {} : desc[x.fd] # x.conn
        OBVIOUS
    <2>2. stray' = (stray \/ \E x \in {} : desc[x.fd] # x.conn)
        BY DEF CloseAll
    <2> QED
        BY <2>1, <2>2 DEF Scalars
<1> QED
    BY <1>1, <1>2

\* The connection in hand fails: the channel is up, and only its descriptor is closed.
LEMMA BindFailsIs ==
    ASSUME Base, Stage, Custody, BindFails
    PROVE  /\ Up /\ cut' = cut /\ stray' = stray /\ Held \in hand /\ hand = {Held}
           /\ Held.conn \in cut /\ Held.fd \in Fds
           /\ \A f \in Fds : desc'[f] = IF f = Held.fd THEN 0 ELSE desc[f]
<1> USE DEF Base, Shape
<1>1. Held \in hand /\ hand = {Held} /\ Held \in Holds /\ HandEntry.fd = Held.fd /\ HandEntry.conn = Held.conn
    BY HeldIs DEF BindFails, Holding
<1>2. Held.conn \in cut /\ CloseAll({HandEntry})
    BY DEF BindFails
<1>3. ~Gathering
    BY <1>1, <1>2, NextGathered
<1>4. Up
    BY <1>1, <1>3, StagePcs
<1>5. Held.fd \in Fds /\ desc[Held.fd] = Held.conn
    BY <1>1 DEF Holds, Custody
<1> HIDE DEF CloseAll
<1>6. /\ cut' = cut /\ stray' = stray
      /\ \A f \in Fds : desc'[f] = IF f = HandEntry.fd THEN 0 ELSE desc[f]
    BY <1>1, <1>2, <1>5, CloseOwn
<1> QED
    BY <1>1, <1>2, <1>4, <1>5, <1>6

\* A replacement goes to the slot the client meant, whose old connection was cut.
LEMMA ReplaceIs ==
    ASSUME Base, Stage, SlotIds, Custody, Replace
    PROVE  /\ Up /\ evc = mgr /\ st[mgr] = "open" /\ cut' = cut /\ stray' = stray
           /\ hand = {Held} /\ Held \in Holds /\ Held.slot \in Slots /\ Target = Held.slot
           /\ conn[mgr][Held.slot].conn < Held.conn
           /\ \A f \in Fds : \/ desc'[f] = desc[f]
                             \/ /\ Held.slot \in live[mgr] /\ f = conn[mgr][Held.slot].fd
                                /\ desc'[f] = 0
<1> USE DEF Base, Shape
<1>1. Held \in hand /\ hand = {Held} /\ Held \in Holds /\ pc = "replace"
    BY HeldIs DEF Replace, Holding
<1>2. Up /\ evc = mgr /\ mgr \in Chans /\ st[mgr] = "open"
    BY <1>1, StagePcs DEF Up, Working
<1>3. Held.slot \in Slots /\ Held.slot # 0
    BY <1>1, <1>2 DEF Up, Sent, Slots
<1>4. Target = Held.slot
    <2>1. PICK c : c = IF Held.id \in DOMAIN slotMap THEN slotMap[Held.id] ELSE 0
        OBVIOUS
    <2>2. c \in {0, Held.slot} /\ c \in 0..NConn /\ Held.slot \in 0..NConn
        BY <1>1, <1>3, <2>1 DEF SlotIds, Holds
    <2>3. Slots \ live[evc] \in SUBSET Slots
        OBVIOUS
    <2>4. Target = DecideReplaceSlot(c, Held.slot, Slots \ live[evc])
        BY <2>1 DEF Target
    <2> HIDE DEF DecideReplaceSlot
    <2> QED
        BY <1>3, <2>2, <2>3, <2>4, DecideIs
<1>5. PICK s \in Slots : s = Held.slot
    BY <1>3
<1>6. CloseAll({conn[evc][u] : u \in live[evc] \cap {s}})
    BY <1>3, <1>4, <1>5 DEF Replace
<1>7. conn[mgr][s].conn < Held.conn /\ conn[mgr][s] \in Entries
    <2>1. st[mgr] # "none" /\ mgr \in Chans /\ hand # {} /\ Held.conn = Taken
        BY <1>1, <1>2 DEF Numbers
    <2>2. Older(conn[mgr][s].conn)
        BY <2>1 DEF Aged
    <2>3. conn[mgr][s] \in Entries
        BY <2>1 DEF ChanTypes
    <2> QED
        BY <2>1, <2>2, <2>3 DEF Older
<1>8. conn[mgr][s].conn \in cut
    <2>1. Held.conn <= cslots[s] /\ (conn[mgr][s].conn = cslots[s] \/ conn[mgr][s].conn \in cut)
        BY <1>1, <1>2, <1>5 DEF Up, Sent
    <2>2. Held.conn \in Nat /\ cslots[s] \in Nat /\ conn[mgr][s].conn \in Nat
        BY <1>1, <1>7 DEF Holds, Scalars, Entries, Conns
    <2> QED
        BY <1>7, <2>1, <2>2
<1>9. CASE s \in live[mgr]
    <2>1. {conn[evc][u] : u \in live[evc] \cap {s}} = {conn[mgr][s]}
        BY <1>2, <1>9
    <2>2. CloseAll({conn[mgr][s]})
        BY <1>6, <2>1
    <2>3. conn[mgr][s].fd \in Fds /\ desc[conn[mgr][s].fd] = conn[mgr][s].conn
        BY <1>2, <1>7, <1>9 DEF Entries, Custody
    <2> HIDE DEF CloseAll
    <2>4. /\ cut' = cut /\ stray' = stray
          /\ \A f \in Fds : desc'[f] = IF f = conn[mgr][s].fd THEN 0 ELSE desc[f]
        BY <1>8, <2>2, <2>3, CloseOwn
    <2> QED
        BY <1>1, <1>2, <1>3, <1>4, <1>5, <1>7, <1>9, <2>4
<1>10. CASE s \notin live[mgr]
    <2>1. {conn[evc][u] : u \in live[evc] \cap {s}} = {}
        BY <1>2, <1>10
    <2>2. CloseAll({})
        BY <1>6, <2>1
    <2> HIDE DEF CloseAll
    <2>3. cut' = cut /\ stray' = stray /\ desc' = desc
        BY <2>2, CloseNone
    <2> QED
        BY <1>1, <1>2, <1>3, <1>4, <1>5, <1>7, <2>3
<1> QED
    BY <1>9, <1>10

\* A slot dies: its connection was cut, and only its descriptor is closed.
LEMMA DiesIs ==
    ASSUME Base, Stage, Custody, NEW g \in Chans, NEW s \in Slots, Dies(g, s)
    PROVE  /\ cut' = cut /\ stray' = stray /\ mgr = g /\ st[g] = "open" /\ cb[g] = "none"
           /\ conn[g][s].conn \in cut /\ conn[g][s] \in Entries
           /\ \A f \in Fds : desc'[f] = IF f = conn[g][s].fd THEN 0 ELSE desc[f]
           /\ live' = [live EXCEPT ![g] = @ \ {s}] /\ s \in live[g]
           /\ \/ live[g] # {s} /\ UNCHANGED <<st, cb>>
              \/ /\ live[g] = {s} /\ st' = [st EXCEPT ![g] = "down"]
                 /\ cb' = [cb EXCEPT ![g] = "removeVc"]
<1> USE DEF Base, Shape
<1>1. st[g] \in {"opening", "open"} /\ s \in live[g] /\ desc[conn[g][s].fd] \in cut \cup {0}
    BY DEF Dies
<1>2. conn[g][s] \in Entries /\ desc[conn[g][s].fd] = conn[g][s].conn
    BY <1>1 DEF ChanTypes, Custody
<1>3. conn[g][s].conn \in cut /\ conn[g][s].fd \in Fds
    BY <1>1, <1>2 DEF Entries, Conns
<1>4. mgr = g /\ (Up \/ Ending)
    <2>1. ~Idle(g)
        BY <1>1 DEF Idle
    <2> QED
        BY <1>1, <2>1 DEF Stage, Gathering, Up, Ending
<1>5. st[g] = "open" /\ cb[g] = "none"
    <2>1. ASSUME Fresh PROVE FALSE
        BY <1>3, <1>4, <2>1 DEF Fresh, Healthy
    <2>2. CASE Up
        BY <1>4, <2>1, <2>2 DEF Up
    <2>3. CASE Ending
        <3>1. ~Idle(g)
            BY <1>1 DEF Idle
        <3> QED
            BY <1>1, <1>4, <2>3, <3>1 DEF Ending
    <2> QED
        BY <1>4, <2>2, <2>3
<1>6. CloseAll({conn[g][s]})
    BY DEF Dies
<1>7. /\ cut' = cut /\ stray' = stray
      /\ \A f \in Fds : desc'[f] = IF f = conn[g][s].fd THEN 0 ELSE desc[f]
    <2> HIDE DEF CloseAll
    <2> QED
        BY <1>2, <1>3, <1>6, CloseOwn
<1>8. /\ live' = [live EXCEPT ![g] = @ \ {s}]
      /\ \/ live[g] # {s} /\ UNCHANGED <<st, cb>>
         \/ /\ live[g] = {s} /\ st' = [st EXCEPT ![g] = "down"]
            /\ cb' = [cb EXCEPT ![g] = "removeVc"]
    BY <1>5 DEF Dies, ChanTypes
<1> QED
    BY <1>1, <1>2, <1>3, <1>4, <1>5, <1>7, <1>8

\* The callback closes the channel's own UDP socket.
LEMMA CloseUdpIs ==
    ASSUME Base, Stage, UdpCustody, NEW g \in Chans, CloseUdp(g)
    PROVE  /\ cut' = cut /\ stray' = stray /\ udp[g] \in Fds /\ desc[udp[g]] = Udp(g)
           /\ \A f \in Fds : desc'[f] = IF f = udp[g] THEN 0 ELSE desc[f]
<1> USE DEF Base, Shape
<1>1. udp[g] \in Fds /\ desc[udp[g]] = Udp(g)
    BY DEF CloseUdp, Wired, ChanTypes, Fds, UdpCustody
<1>2. PICK e : e = [fd |-> udp[g], conn |-> Udp(g)]
    OBVIOUS
<1>3. CloseAll({e}) /\ e.fd = udp[g] /\ e.conn = Udp(g)
    BY <1>2 DEF CloseUdp
<1>4. Udp(g) \notin Conns
    BY DEF Udp, Conns, Chans
<1> HIDE DEF CloseAll, Udp
<1> QED
    BY <1>1, <1>3, <1>4, CloseOwn

------------------------------------------------------------------------------
(***************************************************************************)
(* Ids and descriptors in orderly histories.                               *)
(***************************************************************************)
\* The backlog is a sequence of binds.
LEMMA BacklogBinds ==
    ASSUME Pieces
    PROVE  Len(backlog) \in Nat /\ \A i \in 1..Len(backlog) : backlog[i] \in Binds
BY DEF Pieces

\* The ids of a new connection with a slot: the client makes it under a new number.
LEMMA SlotIdsMade ==
    ASSUME Base, SlotIds, NEW s \in Slots, NEW b \in Binds,
           backlog' = Append(backlog, b), cslots' = [cslots EXCEPT ![s] = used + 1],
           UNCHANGED <<hand, slotMap>>,
           b.slot # 0 => b.slot = s /\ b.id = cslots[s] /\ cslots[s] # 0
    PROVE  SlotIds'
<1> USE DEF Base, Shape
<1>1. /\ Len(backlog') = Len(backlog) + 1 /\ backlog'[Len(backlog) + 1] = b
      /\ \A i \in 1..Len(backlog) : backlog'[i] = backlog[i]
      /\ Len(backlog) \in Nat
    BY Joins DEF Pieces
<1>2. \A u \in Slots : cslots'[u] = IF u = s THEN used + 1 ELSE cslots[u]
    BY DEF Scalars
<1>3. /\ used \in Nat /\ \A h \in hand : h.id \in Nat /\ h.id <= used
      /\ \A i \in 1..Len(backlog) : backlog[i].id \in Nat /\ backlog[i].id <= used
      /\ \A n \in DOMAIN slotMap : n \in Nat /\ n <= used
      /\ \A u \in Slots : cslots[u] \in Nat /\ cslots[u] <= used
    <2>1. used \in Nat /\ \A h \in hand : h.id \in Nat /\ h.id <= used
        BY DEF Scalars, Pieces, Holds, Conns, Numbers
    <2>2. \A i \in 1..Len(backlog) : backlog[i].id \in Nat /\ backlog[i].id <= used
        BY BacklogBinds DEF Binds, Conns, Numbers
    <2>3. \A n \in DOMAIN slotMap : n \in Nat /\ n <= used
        BY DEF Pieces, Conns, Numbers
    <2>4. \A u \in Slots : cslots[u] \in Nat /\ cslots[u] <= used
        BY DEF Scalars, Numbers
    <2> QED
        BY <2>1, <2>2, <2>3, <2>4
<1>4. \A u \in Slots : cslots'[u] \in DOMAIN slotMap => slotMap[cslots'[u]] = u
    BY <1>2, <1>3 DEF SlotIds
<1>5. /\ \A h \in hand : h.slot # 0 =>
            (h.id \in DOMAIN slotMap => slotMap[h.id] = h.slot) /\ \A u \in Slots : cslots'[u] # h.id
      /\ \A i \in 1..Len(backlog) : backlog[i].slot # 0 =>
            /\ backlog[i].id \in DOMAIN slotMap => slotMap[backlog[i].id] = backlog[i].slot
            /\ \A u \in Slots : cslots'[u] # backlog[i].id
    BY <1>2, <1>3 DEF SlotIds
<1>6. b.slot # 0 => /\ b.id \in DOMAIN slotMap => slotMap[b.id] = b.slot
                    /\ \A u \in Slots : cslots'[u] # b.id
                    /\ \A h \in hand : h.slot # 0 => h.id # b.id
                    /\ \A i \in 1..Len(backlog) : backlog[i].slot # 0 => backlog[i].id # b.id
    <2> SUFFICES ASSUME b.slot = s, b.id = cslots[s], cslots[s] # 0
                 PROVE  /\ b.id \in DOMAIN slotMap => slotMap[b.id] = b.slot
                        /\ \A u \in Slots : cslots'[u] # b.id
                        /\ \A h \in hand : h.slot # 0 => h.id # b.id
                        /\ \A i \in 1..Len(backlog) : backlog[i].slot # 0 => backlog[i].id # b.id
        OBVIOUS
    <2>1. \A u \in Slots : cslots'[u] # b.id
        BY <1>2, <1>3 DEF Numbers
    <2> QED
        BY <2>1 DEF SlotIds
<1>7. \A i \in 1..Len(backlog') : \/ i \in 1..Len(backlog) /\ backlog'[i] = backlog[i]
                                  \/ i = Len(backlog) + 1 /\ backlog'[i] = b
    BY <1>1
<1>8. \A h \in hand : h.slot # 0 =>
          \A i \in 1..Len(backlog') : backlog'[i].slot # 0 => backlog'[i].id # h.id
    BY <1>6, <1>7 DEF SlotIds
<1>9. \A i, j \in 1..Len(backlog') : backlog'[i].slot # 0 /\ backlog'[j].slot # 0 /\ i # j
                                         => backlog'[i].id # backlog'[j].id
    BY <1>6, <1>7 DEF SlotIds
<1>10. \A i \in 1..Len(backlog') : backlog'[i].slot # 0 =>
            /\ backlog'[i].id \in DOMAIN slotMap => slotMap[backlog'[i].id] = backlog'[i].slot
            /\ \A u \in Slots : cslots'[u] # backlog'[i].id
    BY <1>5, <1>6, <1>7
<1> QED
    BY <1>4, <1>5, <1>8, <1>9, <1>10 DEF SlotIds

\* Each id keeps its slot, whatever the server and the client do.
LEMMA SlotIdsKept ==
    ASSUME Base, Stage, SlotIds, Custody, [Next]_vars
    PROVE  SlotIds'
<1> USE DEF Base, Shape
<1>1. CASE ClientConnects
    <2>1. [conn |-> used + 1, slot |-> 0, id |-> used + 1] \in Binds
        BY <1>1 DEF ClientConnects, Scalars, Binds, Conns
    <2>2. cnum + 1 \in Slots
        BY <1>1 DEF ClientConnects, Scalars, Slots
    <2>3. /\ backlog' = Append(backlog, [conn |-> used + 1, slot |-> 0, id |-> used + 1])
          /\ cslots' = [cslots EXCEPT ![cnum + 1] = used + 1]
          /\ UNCHANGED <<hand, slotMap>>
        BY <1>1 DEF ClientConnects, loopVars, tableVars
    <2>4. PICK b \in Binds : b = [conn |-> used + 1, slot |-> 0, id |-> used + 1]
        BY <2>1
    <2>5. backlog' = Append(backlog, b) /\ b.slot = 0
        BY <2>3, <2>4
    <2>6. PICK s \in Slots : s = cnum + 1
        BY <2>2
    <2>7. cslots' = [cslots EXCEPT ![s] = used + 1] /\ UNCHANGED <<hand, slotMap>>
        BY <2>3, <2>6
    <2> QED
        BY <2>5, <2>7, SlotIdsMade
<1>2. ASSUME NEW s \in Slots, ClientReplaces(s) PROVE SlotIds'
    <2>0. cid[s] \in Conns /\ cid[s] = cslots[s] /\ cslots[s] # 0
        BY <1>2 DEF ClientReplaces, Numbers, Scalars, Slots, Conns
    <2>1. PICK b \in Binds : b = [conn |-> used + 1, slot |-> s, id |-> cid[s]]
        BY <1>2, <2>0 DEF ClientReplaces, Scalars, Binds, Slots, Conns
    <2>2. /\ backlog' = Append(backlog, b) /\ UNCHANGED <<hand, slotMap>>
          /\ cslots' = [cslots EXCEPT ![s] = used + 1]
        BY <1>2, <2>1 DEF ClientReplaces, loopVars, tableVars
    <2> QED
        BY <2>0, <2>1, <2>2, SlotIdsMade
<1>3. CASE ClientRestarts
    <2>1. UNCHANGED <<hand, backlog, slotMap>> /\ cslots' = [s \in Slots |-> 0]
        BY <1>3 DEF ClientRestarts, loopVars, tableVars
    <2>2. 0 \notin DOMAIN slotMap
        BY DEF Pieces, Conns
    <2>3. \A h \in hand : h.id # 0
        BY DEF Pieces, Holds, Conns
    <2>4. \A i \in 1..Len(backlog) : backlog[i].id # 0
        BY BacklogBinds DEF Binds, Conns
    <2> QED
        BY <2>1, <2>2, <2>3, <2>4 DEF SlotIds
<1>4. ASSUME UNCHANGED <<cslots, backlog>>, hand' = hand \/ hand' = {},
             slotMap' = slotMap \/ slotMap' = <<>>
      PROVE  SlotIds'
    <2>1. DOMAIN <<>> = {}
        OBVIOUS
    <2> QED
        BY <1>4, <2>1 DEF SlotIds
<1>5. CASE Accept
    <2>1. /\ Len(backlog') = Len(backlog) - 1 /\ Head(backlog) = backlog[1]
          /\ Len(backlog) \in Nat \ {0}
          /\ \A i \in 1..Len(backlog') : backlog'[i] = backlog[i + 1]
        BY <1>5, Leaves DEF Accept, Pieces
    <2>2. PICK h : hand' = {h} /\ h.slot = backlog[1].slot /\ h.id = backlog[1].id
        <3>1. PICK h : /\ hand' = {h}
                       /\ h = [fd |-> Lowest, conn |-> Head(backlog).conn,
                               slot |-> Head(backlog).slot, id |-> Head(backlog).id]
            BY <1>5 DEF Accept
        <3> QED
            BY <2>1, <3>1
    <2>3. UNCHANGED <<cslots, slotMap>>
        BY <1>5 DEF Accept, clientVars, tableVars
    <2>4. /\ 1 \in 1..Len(backlog)
          /\ \A i \in 1..Len(backlog') : i + 1 \in 1..Len(backlog) /\ i + 1 # 1
          /\ \A i, j \in 1..Len(backlog') : i # j => i + 1 # j + 1
        BY <2>1
    <2>5. h.slot # 0 =>
              /\ h.id \in DOMAIN slotMap => slotMap[h.id] = h.slot
              /\ \A s \in Slots : cslots[s] # h.id
              /\ \A i \in 1..Len(backlog') : backlog'[i].slot # 0 => backlog'[i].id # h.id
        BY <2>1, <2>2, <2>4 DEF SlotIds
    <2>6. ASSUME NEW i \in 1..Len(backlog'), backlog'[i].slot # 0
          PROVE  /\ backlog'[i].id \in DOMAIN slotMap => slotMap[backlog'[i].id] = backlog'[i].slot
                 /\ \A s \in Slots : cslots[s] # backlog'[i].id
                 /\ \A j \in 1..Len(backlog') : backlog'[j].slot # 0 /\ i # j
                                                   => backlog'[i].id # backlog'[j].id
        <3>1. PICK k \in 1..Len(backlog) : k = i + 1 /\ backlog'[i] = backlog[k]
            BY <2>1, <2>4
        <3>2. \A j \in 1..Len(backlog') : i # j =>
                  \E n \in 1..Len(backlog) : n # k /\ backlog'[j] = backlog[n]
            BY <2>1, <2>4, <3>1
        <3>3. /\ backlog[k].id \in DOMAIN slotMap => slotMap[backlog[k].id] = backlog[k].slot
              /\ \A s \in Slots : cslots[s] # backlog[k].id
              /\ \A n \in 1..Len(backlog) : backlog[n].slot # 0 /\ k # n
                                                => backlog[k].id # backlog[n].id
            BY <2>6, <3>1 DEF SlotIds
        <3> QED
            BY <3>1, <3>2, <3>3
    <2> QED
        BY <2>2, <2>3, <2>5, <2>6 DEF SlotIds
<1>6. CASE Replace
    <2>1. /\ hand = {Held} /\ Held \in Holds /\ Held.slot \in Slots /\ Target = Held.slot /\ Up
        BY <1>6, ReplaceIs
    <2>2. PICK h : h = Held
        OBVIOUS
    <2>3. h \in hand /\ h.slot # 0
        BY <2>1, <2>2 DEF Slots
    <2>4. /\ hand' = {} /\ UNCHANGED <<backlog, cslots>>
          /\ slotMap' = [i \in {j \in DOMAIN slotMap : slotMap[j] # h.slot} \cup {h.id} |->
                                IF i = h.id THEN h.slot ELSE slotMap[i]]
        BY <1>6, <2>1, <2>2, <2>3 DEF Replace, clientVars
    <2>5. \A n : n # h.id /\ n \in DOMAIN slotMap' => n \in DOMAIN slotMap /\ slotMap'[n] = slotMap[n]
        BY <2>4
    <2>6. (\A s \in Slots : cslots[s] # h.id)
          /\ \A i \in 1..Len(backlog) : backlog[i].slot # 0 => backlog[i].id # h.id
        BY <2>3 DEF SlotIds
    <2>7. \A s \in Slots : cslots[s] \in DOMAIN slotMap' => slotMap'[cslots[s]] = s
        BY <2>5, <2>6 DEF SlotIds
    <2>8. \A i \in 1..Len(backlog) : backlog[i].slot # 0 /\ backlog[i].id \in DOMAIN slotMap'
                                        => slotMap'[backlog[i].id] = backlog[i].slot
        BY <2>5, <2>6 DEF SlotIds
    <2> QED
        BY <2>4, <2>7, <2>8 DEF SlotIds
<1>7. CASE CreateVc
    <2>1. Gathering /\ hand = {} /\ backlog = <<>> /\ cnum = NConn /\ Gathered = NConn
        BY <1>7, StagePcs, AllGathered DEF CreateVc
    <2>2. PICK p \in peer :
              LET known == {i \in Slots : p[i].fd \in DOMAIN s2c}
                  ids == {s2c[p[i].fd] : i \in known} IN
              slotMap' = [n \in DOMAIN slotMap \cup ids |->
                                IF n \in ids THEN CHOOSE i \in known : s2c[p[i].fd] = n
                                             ELSE slotMap[n]]
        BY <1>7 DEF CreateVc
    <2>3. Len(p) = NConn
        BY <2>1, GatheredIs
    <2> DEFINE known == {i \in Slots : p[i].fd \in DOMAIN s2c}
               ids == {s2c[p[i].fd] : i \in known}
    <2>4. \A i \in known : s2c[p[i].fd] = cslots[i]
        BY <2>1, <2>3 DEF Gathering, Slots
    <2>5. UNCHANGED <<hand, backlog, cslots>>
        BY <1>7 DEF CreateVc, clientVars
    <2>6. ASSUME NEW s \in Slots, cslots[s] \in DOMAIN slotMap' PROVE slotMap'[cslots[s]] = s
        <3>1. CASE cslots[s] \in ids
            <4>1. PICK i \in known : s2c[p[i].fd] = cslots[s]
                BY <3>1
            <4>2. \A j \in known : s2c[p[j].fd] = cslots[s] => j = s
                BY <2>1, <2>4 DEF Numbers, Slots
            <4>3. s \in known /\ s2c[p[s].fd] = cslots[s]
                BY <4>1, <4>2
            <4>4. (CHOOSE j \in known : s2c[p[j].fd] = cslots[s]) = s
                BY <4>2, <4>3
            <4>5. slotMap'[cslots[s]] = CHOOSE j \in known : s2c[p[j].fd] = cslots[s]
                BY <2>2, <2>6, <3>1
            <4> QED
                BY <4>4, <4>5
        <3>2. CASE cslots[s] \notin ids
            <4>1. cslots[s] \in DOMAIN slotMap /\ slotMap'[cslots[s]] = slotMap[cslots[s]]
                BY <2>2, <2>6, <3>2
            <4> QED
                BY <4>1 DEF SlotIds
        <3> QED
            BY <3>1, <3>2
    <2>7. hand = {} /\ Len(backlog) = 0
        BY <2>1
    <2> QED
        BY <2>5, <2>6, <2>7 DEF SlotIds
<1>8. CASE \/ Outage \/ (\E s \in Slots : Cut(s)) \/ BindFails \/ AddRefused \/ Lookup
           \/ TakeoverForget \/ UdpFails \/ OpenVc \/ UdpReady \/ TakeoverClose \/ AddSocket
           \/ Register \/ (\E g \in Chans : Channel(g)) \/ UNCHANGED vars
    <2>1. /\ UNCHANGED <<cslots, backlog>> /\ (hand' = hand \/ hand' = {})
          /\ slotMap' = slotMap \/ slotMap' = <<>>
        BY <1>8 DEF Outage, Cut, BindFails, AddRefused, Lookup, TakeoverForget, UdpFails, OpenVc,
               UdpReady, TakeoverClose, AddSocket, Register, Channel, Dies, RemoveVc, RemovePeer,
               CloseUdp, ClearSlots, vars, clientVars, loopVars, tableVars
    <2> QED
        BY <1>4, <2>1
<1> QED
    BY <1>1, <1>2, <1>3, <1>5, <1>6, <1>7, <1>8 DEF Next, Client, AcceptLoop

\* Only the channel that VcManager knows has connections.
LEMMA OneAlive ==
    ASSUME Stage, NEW g \in Chans, live[g] # {}
    PROVE  mgr = g
BY DEF Stage, Gathering, Up, Ending, Idle

\* What the server keeps: descriptors that are in use, of connections.
LEMMA Kept ==
    ASSUME Base, Custody
    PROVE  /\ \A h \in hand : h.fd \in Fds /\ desc[h.fd] # 0 /\ desc[h.fd] \in Conns
           /\ \A g \in Chans : st[g] # "none" => \A s \in live[g] :
                  /\ s \in Slots /\ conn[g][s] \in Entries /\ conn[g][s].fd \in Fds
                  /\ desc[conn[g][s].fd] # 0 /\ desc[conn[g][s].fd] \in Conns
<1> USE DEF Base, Shape
<1>1. 0 \notin Conns
    BY DEF Conns
<1>2. \A h \in hand : h.fd \in Fds /\ desc[h.fd] # 0 /\ desc[h.fd] \in Conns
    BY <1>1 DEF Pieces, Holds, Custody
<1>3. ASSUME NEW g \in Chans, NEW s \in live[g], st[g] # "none"
      PROVE  /\ s \in Slots /\ conn[g][s] \in Entries /\ conn[g][s].fd \in Fds
             /\ desc[conn[g][s].fd] # 0 /\ desc[conn[g][s].fd] \in Conns
    BY <1>1, <1>3 DEF ChanTypes, Entries, Custody
<1> QED
    BY <1>2, <1>3

\* In every stage a channel with connections exists.
LEMMA AliveExists ==
    ASSUME Base, Stage, NEW g \in Chans, live[g] # {}
    PROVE  st[g] # "none"
<1>1. mgr = g /\ mgr # 0
    BY OneAlive DEF Chans
<1> QED
    BY <1>1 DEF Base, Shape, ChanTypes

\* A step that leaves the descriptors and their keepers alone keeps the custody.
LEMMA CustodyFrame ==
    ASSUME Custody, hand' = hand \/ hand' = {}, \A g \in Chans : live'[g] \subseteq live[g],
           UNCHANGED conn,
           \A h \in hand' : desc'[h.fd] = desc[h.fd],
           \A g \in Chans : \A s \in live'[g] : desc'[conn[g][s].fd] = desc[conn[g][s].fd]
    PROVE  Custody'
BY DEF Custody

\* A free descriptor is given out: nobody keeps it.
LEMMA CustodyGiven ==
    ASSUME Base, Stage, Custody, UNCHANGED <<conn, live>>, hand' = hand \/ hand' = {},
           NEW f \in Fds, NEW v, desc[f] = 0, desc' = [desc EXCEPT ![f] = v]
    PROVE  Custody'
<1>1. \A e \in Fds : desc[e] # 0 => desc'[e] = desc[e]
    BY DEF Base, Shape, Scalars
<1>2. \A h \in hand' : desc'[h.fd] = desc[h.fd]
    BY <1>1, Kept
<1>3. \A g \in Chans : \A s \in live'[g] : desc'[conn[g][s].fd] = desc[conn[g][s].fd]
    BY <1>1, Kept, AliveExists
<1> QED
    BY <1>2, <1>3, CustodyFrame

\* Every step keeps the custody of connections: what is given out was free, and what is
\* closed was the closer's.
LEMMA CustodyKept ==
    ASSUME Base, Stage, SlotIds, Custody, UdpCustody, [Next]_vars
    PROVE  Custody'
<1> USE DEF Base, Shape
<1>1. CASE \/ Client \/ Lookup \/ Register \/ UdpFails \/ OpenVc \/ AddSocket \/ UNCHANGED vars
           \/ \E g \in Chans : RemoveVc(g) \/ RemovePeer(g) \/ ClearSlots(g)
    <2>1. UNCHANGED <<desc, conn, live>> /\ (hand' = hand \/ hand' = {})
        BY <1>1 DEF Client, ClientConnects, ClientReplaces, ClientRestarts, Cut, Outage, Lookup,
               Register, UdpFails, OpenVc, AddSocket, RemoveVc, RemovePeer, ClearSlots, vars,
               kernelVars, chanVars, loopVars
    <2> QED
        BY <2>1, CustodyFrame
<1>2. CASE Accept
    <2>1. Lowest \in Fds /\ desc[Lowest] = 0
        BY <1>2, LowestIs DEF Accept
    <2>2. PICK f \in Fds : f = Lowest
        BY <2>1
    <2>3. PICK h : /\ hand' = {h}
                   /\ h = [fd |-> f, conn |-> Head(backlog).conn,
                           slot |-> Head(backlog).slot, id |-> Head(backlog).id]
        BY <1>2, <2>2 DEF Accept
    <2>4. desc' = [desc EXCEPT ![f] = h.conn] /\ UNCHANGED <<conn, live>> /\ h.fd = f
        BY <1>2, <2>2, <2>3 DEF Accept, chanVars
    <2>5. desc'[f] = h.conn /\ \A e \in Fds : desc[e] # 0 => desc'[e] = desc[e]
        BY <2>1, <2>2, <2>4 DEF Scalars
    <2>6. \A g \in Chans : \A s \in live[g] : desc'[conn[g][s].fd] = desc[conn[g][s].fd]
        BY <2>5, Kept, AliveExists
    <2> QED
        BY <2>3, <2>4, <2>5, <2>6 DEF Custody
<1>3. CASE UdpReady
    <2>1. Lowest \in Fds /\ desc[Lowest] = 0
        BY <1>3, LowestIs DEF UdpReady
    <2>2. PICK f \in Fds : f = Lowest
        BY <2>1
    <2>3. PICK v : v = Udp(evc)
        OBVIOUS
    <2>4. desc' = [desc EXCEPT ![f] = v] /\ UNCHANGED <<conn, live, hand>>
        BY <1>3, <2>2, <2>3 DEF UdpReady
    <2> QED
        BY <2>1, <2>2, <2>4, CustodyGiven
<1>4. CASE BindFails
    <2>1. /\ Held.conn \in cut /\ Held.fd \in Fds /\ Held \in hand
          /\ \A f \in Fds : desc'[f] = IF f = Held.fd THEN 0 ELSE desc[f]
        BY <1>4, BindFailsIs
    <2>2. PICK h \in hand : h = Held
        BY <2>1
    <2>3. hand' = {} /\ UNCHANGED <<conn, live>>
        BY <1>4 DEF BindFails, chanVars
    <2>4. desc[h.fd] = Taken
        BY DEF Custody, Numbers
    <2>5. ASSUME NEW g \in Chans, NEW s \in live[g]
          PROVE  desc'[conn[g][s].fd] = desc[conn[g][s].fd]
        <3>1. st[g] # "none"
            BY AliveExists
        <3>2. s \in Slots /\ conn[g][s].fd \in Fds /\ conn[g][s] \in Entries
            BY <3>1, Kept
        <3>3. Older(conn[g][s].conn)
            BY <3>1, <3>2 DEF Aged
        <3>4. conn[g][s].conn < Taken /\ Taken \in Int
            <4>1. conn[g][s].conn < Taken
                BY <2>2, <3>3 DEF Older
            <4>2. Taken \in Int
                BY BacklogBinds DEF Taken, Scalars
            <4> QED
                BY <4>1, <4>2
        <3>5. desc[conn[g][s].fd] # desc[h.fd]
            <4>1. desc[conn[g][s].fd] = conn[g][s].conn /\ conn[g][s].conn \in Nat
                BY <3>2 DEF Custody, Entries, Conns
            <4> QED
                BY <2>4, <3>4, <4>1
        <3> QED
            BY <2>1, <2>2, <3>2, <3>5
    <2> QED
        BY <2>3, <2>5, CustodyFrame
<1>5. CASE Replace
    <2>1. /\ evc = mgr /\ Up /\ hand = {Held} /\ Held \in Holds /\ Held.slot \in Slots
          /\ Target = Held.slot
          /\ \A f \in Fds : \/ desc'[f] = desc[f]
                            \/ /\ Held.slot \in live[mgr] /\ f = conn[mgr][Held.slot].fd
                               /\ desc'[f] = 0
        BY <1>5, ReplaceIs
    <2>2. PICK h : h = Held
        OBVIOUS
    <2>3. PICK t \in Slots : t = h.slot
        BY <2>1, <2>2
    <2>4. PICK e \in Entries : e = HandEntry /\ e.fd = h.fd /\ e.conn = h.conn
        BY <1>5, <2>2, HeldIs DEF Replace, Holding
    <2>5. /\ conn' = [conn EXCEPT ![mgr] = [s \in Slots |-> IF s = t THEN e ELSE @[s]]]
          /\ live' = [live EXCEPT ![mgr] = @ \cup ({t} \ {0})] /\ hand' = {}
        BY <1>5, <2>1, <2>2, <2>3, <2>4 DEF Replace
    <2>6. mgr \in Chans /\ t # 0 /\ 0 \notin Slots
        BY <2>1 DEF Up, Slots
    <2>7. live'[mgr] = live[mgr] \cup {t} /\ \A g \in Chans : g # mgr => live'[g] = {}
        <3>1. live'[mgr] = live[mgr] \cup {t} /\ \A g \in Chans : g # mgr => live'[g] = live[g]
            BY <2>5, <2>6 DEF ChanTypes
        <3> QED
            BY <3>1, OneAlive
    <2>8. conn'[mgr][t] = e /\ \A s \in Slots : s # t => conn'[mgr][s] = conn[mgr][s]
        BY <2>5, <2>6 DEF ChanTypes
    <2>9. st[mgr] # "none" /\ mgr \in Chans
        BY <2>6 DEF ChanTypes, Chans
    <2>10. \A s \in Slots : conn[mgr][s].conn < h.conn /\ conn[mgr][s].conn \in Nat /\ h.conn \in Nat
        <3>1. h \in hand /\ h.conn = Taken /\ h.conn \in Nat
            BY <2>1, <2>2 DEF Numbers, Holds, Conns
        <3>2. \A s \in Slots : Older(conn[mgr][s].conn) /\ conn[mgr][s].conn \in Nat
            BY <2>9 DEF Aged, ChanTypes, Entries, Conns
        <3> QED
            BY <3>1, <3>2 DEF Older
    <2>11. ASSUME NEW s \in live'[mgr] PROVE desc'[conn'[mgr][s].fd] = conn'[mgr][s].conn
        <3>1. CASE s = t
            <4>1. desc[h.fd] = h.conn /\ h.fd \in Fds
                BY <2>1, <2>2 DEF Custody, Holds
            <4>2. t \in live[mgr] => desc[conn[mgr][t].fd] # h.conn
                BY <2>6, <2>10 DEF Custody
            <4>3. desc'[h.fd] = desc[h.fd]
                BY <2>1, <2>2, <2>3, <4>1, <4>2
            <4> QED
                BY <2>4, <2>8, <3>1, <4>1, <4>3
        <3>2. CASE s # t
            <4>1. s \in live[mgr] /\ s \in Slots
                BY <2>6, <2>7, <3>2 DEF ChanTypes
            <4>2. desc[conn[mgr][s].fd] = conn[mgr][s].conn /\ conn[mgr][s].fd \in Fds
                BY <2>9, <4>1 DEF Custody, ChanTypes, Entries
            <4>3. t \in live[mgr] => desc[conn[mgr][t].fd] # desc[conn[mgr][s].fd]
                BY <2>6, <3>2, <4>1 DEF Custody
            <4>4. desc'[conn[mgr][s].fd] = desc[conn[mgr][s].fd]
                BY <2>1, <2>2, <2>3, <4>2, <4>3
            <4> QED
                BY <2>8, <3>2, <4>1, <4>2, <4>4
        <3> QED
            BY <3>1, <3>2
    <2>12. ASSUME NEW s \in live'[mgr], NEW u \in live'[mgr],
                  conn'[mgr][s].conn = conn'[mgr][u].conn
           PROVE  s = u
        <3>1. /\ s \in Slots /\ u \in Slots /\ (s # t => s \in live[mgr]) /\ (u # t => u \in live[mgr])
            BY <2>6, <2>7 DEF ChanTypes
        <3>2. CASE s # t /\ u # t
            BY <2>6, <2>8, <2>12, <3>1, <3>2 DEF Custody
        <3>3. CASE s = t /\ u # t
            BY <2>4, <2>8, <2>10, <2>12, <3>1, <3>3
        <3>4. CASE s # t /\ u = t
            BY <2>4, <2>8, <2>10, <2>12, <3>1, <3>4
        <3> QED
            BY <3>2, <3>3, <3>4
    <2>13. ASSUME NEW g \in Chans, NEW s \in live'[g]
           PROVE  /\ desc'[conn'[g][s].fd] = conn'[g][s].conn
                  /\ \A u \in live'[g] : conn'[g][s].conn = conn'[g][u].conn => s = u
        <3>1. g = mgr
            BY <2>7, <2>13
        <3> QED
            BY <2>11, <2>12, <2>13, <3>1
    <2> QED
        BY <2>5, <2>13 DEF Custody
<1>6. CASE CreateVc
    <2>1. Gathering /\ hand = {} /\ Gathered = NConn /\ cnum = NConn
        BY <1>6, StagePcs, AllGathered DEF CreateVc
    <2>2. PICK g \in Chans, p \in peer : /\ conn' = [conn EXCEPT ![g] = p]
                                         /\ live' = [live EXCEPT ![g] = Slots]
        BY <1>6 DEF CreateVc
    <2>3. Len(p) = NConn
        BY <2>1, GatheredIs
    <2>4. desc' = desc /\ hand' = {}
        BY <1>6, <2>1 DEF CreateVc, kernelVars
    <2>5. conn'[g] = p /\ live'[g] = Slots /\ \A h \in Chans : h # g => live'[h] = {}
        BY <2>1, <2>2 DEF ChanTypes, Gathering, Idle
    <2>6. \A s \in Slots : desc[p[s].fd] = p[s].conn /\ p[s].conn = cslots[s]
        BY <2>1, <2>3 DEF Gathering, Slots
    <2>7. \A s, u \in Slots : p[s].conn = p[u].conn => s = u
        BY <2>1, <2>6 DEF Numbers, Slots
    <2> QED
        BY <2>4, <2>5, <2>6, <2>7 DEF Custody
<1>7. ASSUME NEW g \in Chans, NEW s \in Slots, Dies(g, s) PROVE Custody'
    <2>1. /\ mgr = g /\ conn[g][s] \in Entries /\ s \in live[g]
          /\ \A f \in Fds : desc'[f] = IF f = conn[g][s].fd THEN 0 ELSE desc[f]
          /\ live' = [live EXCEPT ![g] = @ \ {s}]
        BY <1>7, DiesIs
    <2>2. hand' = hand /\ UNCHANGED conn
        BY <1>7 DEF Dies, loopVars
    <2>3. live'[g] = live[g] \ {s} /\ \A h \in Chans : h # g => live'[h] = {}
        <3>1. live'[g] = live[g] \ {s} /\ \A h \in Chans : h # g => live'[h] = live[h]
            BY <2>1 DEF ChanTypes
        <3> QED
            BY <2>1, <3>1, OneAlive
    <2>4. st[g] # "none" /\ desc[conn[g][s].fd] = conn[g][s].conn
        BY <2>1, AliveExists DEF Custody
    <2>5. \A u \in live'[g] : desc'[conn[g][u].fd] = desc[conn[g][u].fd]
        <3>1. \A u \in live'[g] : desc[conn[g][u].fd] # desc[conn[g][s].fd]
            BY <2>1, <2>3 DEF Custody
        <3>2. \A u \in live'[g] : conn[g][u].fd \in Fds
            BY <2>3, <2>4, Kept
        <3> QED
            BY <2>1, <3>1, <3>2
    <2>6. ASSUME NEW h \in hand PROVE desc'[h.fd] = desc[h.fd]
        <3>1. desc[h.fd] = Taken /\ h.fd \in Fds
            BY Kept DEF Custody, Numbers
        <3>2. conn[g][s].conn < Taken /\ Taken \in Int /\ conn[g][s].conn \in Nat
            <4>1. Older(conn[g][s].conn)
                BY <2>4 DEF Aged
            <4> QED
                BY <2>1, <4>1 DEF Older, Taken, Scalars, Pieces, Entries, Conns
        <3> QED
            BY <2>1, <2>4, <3>1, <3>2
    <2>7. /\ \A h \in Chans : live'[h] \subseteq live[h]
          /\ \A h \in Chans : \A u \in live'[h] : desc'[conn[h][u].fd] = desc[conn[h][u].fd]
        BY <2>3, <2>5
    <2> QED
        BY <2>2, <2>6, <2>7, CustodyFrame
<1>8. ASSUME NEW g \in Chans, CloseUdp(g) PROVE Custody'
    <2>1. /\ udp[g] \in Fds /\ desc[udp[g]] = Udp(g)
          /\ \A f \in Fds : desc'[f] = IF f = udp[g] THEN 0 ELSE desc[f]
        BY <1>8, CloseUdpIs
    <2>2. hand' = hand /\ UNCHANGED <<conn, live>>
        BY <1>8 DEF CloseUdp, loopVars, chanVars
    <2>3. desc[udp[g]] \notin Conns
        BY <2>1 DEF Udp, Conns, Chans
    <2>4. \A f \in Fds : desc[f] \in Conns => desc'[f] = desc[f]
        BY <2>1, <2>3
    <2>5. \A h \in hand' : desc'[h.fd] = desc[h.fd]
        BY <2>2, <2>4, Kept
    <2>6. \A h \in Chans : \A s \in live'[h] : desc'[conn[h][s].fd] = desc[conn[h][s].fd]
        BY <2>2, <2>4, Kept, AliveExists
    <2>7. \A h \in Chans : live'[h] \subseteq live[h]
        BY <2>2
    <2> QED
        BY <2>2, <2>5, <2>6, <2>7, CustodyFrame
<1>9. ~AddRefused /\ ~TakeoverClose /\ ~TakeoverForget
    BY NoRefusal, StagePcs DEF TakeoverClose, TakeoverForget
<1> QED
    BY <1>1, <1>2, <1>3, <1>4, <1>5, <1>6, <1>7, <1>8, <1>9 DEF Next, AcceptLoop, Channel

\* Steps that leave the UDP sockets and their channels alone.
LEMMA UdpFrame ==
    ASSUME Base, UdpCustody, UNCHANGED udp,
           \A g \in Chans : cb'[g] \in {"clearSlots", "done"} <=> cb[g] \in {"clearSlots", "done"},
           \A f \in Fds : desc'[f] = desc[f] \/ (desc'[f] \in Conns \cup {0} /\ desc[f] \in Conns \cup {0})
    PROVE  UdpCustody'
<1>1. \A g \in Chans : Udp(g) \notin Conns \cup {0}
    BY DEF Udp, Conns, Chans
<1>2. \A g \in Chans : udp[g] # 0 => udp[g] \in Fds
    BY DEF Base, Shape, ChanTypes, Fds
<1>3. \A f \in Fds, g \in Chans : desc'[f] = Udp(g) <=> desc[f] = Udp(g)
    BY <1>1
<1> HIDE DEF Udp
<1>4. \A g \in Chans : Udp(g)' = Udp(g)
    BY DEF Udp
<1> QED
    BY <1>2, <1>3, <1>4 DEF UdpCustody

\* The kernel's table speaks the truth about UDP sockets, and no close is stray.
LEMMA UdpCustodyKept ==
    ASSUME Base, Stage, SlotIds, Custody, UdpCustody, [Next]_vars
    PROVE  UdpCustody' /\ stray' = stray
<1> USE DEF Base, Shape
<1>1. ASSUME UNCHANGED <<udp, cb>>,
             \A f \in Fds : desc'[f] = desc[f] \/ (desc'[f] = 0 /\ desc[f] \in Conns)
      PROVE  UdpCustody'
    BY <1>1, UdpFrame
<1>2. CASE \/ Client \/ Lookup \/ Register \/ UdpFails \/ OpenVc \/ AddSocket \/ CreateVc
           \/ UNCHANGED vars
    <2>1. UNCHANGED <<desc, stray, udp, cb>>
        BY <1>2 DEF Client, ClientConnects, ClientReplaces, ClientRestarts, Cut, Outage, Lookup,
               Register, UdpFails, OpenVc, AddSocket, CreateVc, vars, kernelVars, chanVars
    <2> QED
        BY <1>1, <2>1
<1>3. CASE Accept
    <2>1. Lowest \in Fds /\ desc[Lowest] = 0
        BY <1>3, LowestIs DEF Accept
    <2>2. Head(backlog).conn \in Conns
        <3>1. Head(backlog) \in Binds
            BY <1>3 DEF Accept, Pieces
        <3> QED
            BY <3>1 DEF Binds
    <2>3. desc' = [desc EXCEPT ![Lowest] = Head(backlog).conn] /\ UNCHANGED <<stray, udp, cb>>
        BY <1>3 DEF Accept, chanVars
    <2> HIDE DEF Lowest
    <2>4. \A f \in Fds : desc'[f] = desc[f] \/ (desc'[f] \in Conns /\ desc[f] = 0)
        BY <2>1, <2>2, <2>3 DEF Scalars
    <2> QED
        BY <2>3, <2>4, UdpFrame
<1>4. CASE UdpReady
    <2>1. Lowest \in Fds /\ desc[Lowest] = 0
        BY <1>4, LowestIs DEF UdpReady
    <2>2. PICK f \in Fds : f = Lowest
        BY <2>1
    <2>3. Up /\ evc = mgr /\ udp[evc] = 0 /\ evc \in Chans /\ cb[evc] = "none"
        <3>1. pc = "udp" /\ Up
            BY <1>4, StagePcs DEF UdpReady
        <3> QED
            BY <3>1 DEF Up, Working
    <2>4. /\ desc' = [desc EXCEPT ![f] = Udp(evc)] /\ udp' = [udp EXCEPT ![evc] = f]
          /\ UNCHANGED <<stray, cb>>
        BY <1>4, <2>2 DEF UdpReady
    <2>5. /\ desc'[f] = Udp(evc) /\ udp'[evc] = f /\ \A e \in Fds : e # f => desc'[e] = desc[e]
          /\ \A g \in Chans : g # evc => udp'[g] = udp[g]
        BY <2>3, <2>4 DEF Scalars, ChanTypes
    <2>6. \A g, h \in Chans : Udp(g) = Udp(h) => g = h
        BY DEF Udp, Chans
    <2>7. \A g \in Chans : Udp(g) # 0 /\ Udp(g)' = Udp(g) /\ (udp[g] # 0 => udp[g] \in Fds)
        BY DEF Udp, Chans, ChanTypes, Fds
    <2>8. PICK v : v = evc
        OBVIOUS
    <2> HIDE DEF Udp
    <2>9. ASSUME NEW g \in Chans, udp'[g] # 0, cb[g] \notin {"clearSlots", "done"}
          PROVE  desc'[udp'[g]] = Udp(g)
        BY <2>1, <2>2, <2>5, <2>7, <2>9 DEF UdpCustody
    <2>10. 0 \notin Fds
        BY DEF Fds
    <2>11. ASSUME NEW e \in Fds, NEW g \in Chans, desc'[e] = Udp(g)
           PROVE  udp'[g] = e /\ cb[g] \notin {"clearSlots", "done"}
        <3>1. CASE e = f
            BY <2>3, <2>5, <2>6, <2>11, <3>1
        <3>2. CASE e # f
            <4>1. desc[e] = Udp(g)
                BY <2>5, <2>11, <3>2
            <4>2. udp[g] = e /\ cb[g] \notin {"clearSlots", "done"}
                BY <4>1 DEF UdpCustody
            <4> QED
                BY <2>3, <2>5, <2>10, <4>2
        <3> QED
            BY <3>1, <3>2
    <2> QED
        BY <2>4, <2>7, <2>9, <2>11 DEF UdpCustody
<1>5. CASE BindFails
    <2>1. /\ stray' = stray /\ Held \in hand
          /\ \A f \in Fds : desc'[f] = IF f = Held.fd THEN 0 ELSE desc[f]
        BY <1>5, BindFailsIs
    <2>2. \A f \in Fds : desc'[f] = desc[f] \/ (desc'[f] = 0 /\ desc[f] \in Conns)
        BY <2>1, Kept
    <2>3. UNCHANGED <<udp, cb>>
        BY <1>5 DEF BindFails, chanVars
    <2> QED
        BY <1>1, <2>1, <2>2, <2>3
<1>6. CASE Replace
    <2>1. /\ stray' = stray /\ mgr \in Chans
          /\ \A f \in Fds : \/ desc'[f] = desc[f]
                            \/ /\ Held.slot \in live[mgr] /\ f = conn[mgr][Held.slot].fd
                               /\ desc'[f] = 0
        BY <1>6, ReplaceIs DEF Up
    <2>2. \A f \in Fds : desc'[f] = desc[f] \/ (desc'[f] = 0 /\ desc[f] \in Conns)
        BY <2>1, Kept, AliveExists
    <2>3. UNCHANGED <<udp, cb>>
        BY <1>6 DEF Replace
    <2> QED
        BY <1>1, <2>1, <2>2, <2>3
<1>7. ASSUME NEW g \in Chans, NEW s \in Slots, Dies(g, s) PROVE UdpCustody' /\ stray' = stray
    <2>1. /\ stray' = stray /\ s \in live[g] /\ cb[g] = "none"
          /\ \A f \in Fds : desc'[f] = IF f = conn[g][s].fd THEN 0 ELSE desc[f]
          /\ UNCHANGED cb \/ cb' = [cb EXCEPT ![g] = "removeVc"]
        BY <1>7, DiesIs
    <2>2. \A f \in Fds : desc'[f] = desc[f] \/ (desc'[f] = 0 /\ desc[f] \in Conns)
        BY <2>1, Kept, AliveExists
    <2>3. UNCHANGED udp
        BY <1>7 DEF Dies
    <2>4. \A h \in Chans : cb'[h] \in {"clearSlots", "done"} <=> cb[h] \in {"clearSlots", "done"}
        BY <2>1 DEF ChanTypes
    <2> QED
        BY <2>1, <2>2, <2>3, <2>4, UdpFrame
<1>8. ASSUME NEW g \in Chans, CloseUdp(g) PROVE UdpCustody' /\ stray' = stray
    <2>1. /\ stray' = stray /\ udp[g] \in Fds /\ desc[udp[g]] = Udp(g)
          /\ \A f \in Fds : desc'[f] = IF f = udp[g] THEN 0 ELSE desc[f]
        BY <1>8, CloseUdpIs
    <2>2. UNCHANGED udp /\ cb' = [cb EXCEPT ![g] = "clearSlots"]
        BY <1>8 DEF CloseUdp, chanVars
    <2>3. cb'[g] = "clearSlots" /\ \A h \in Chans : h # g => cb'[h] = cb[h]
        BY <2>2 DEF ChanTypes
    <2>4. \A h, k \in Chans : Udp(h) = Udp(k) => h = k
        BY DEF Udp, Chans
    <2>5. \A h \in Chans : Udp(h) # 0 /\ Udp(h)' = Udp(h) /\ (udp[h] # 0 => udp[h] \in Fds)
        BY DEF Udp, Chans, ChanTypes, Fds
    <2> HIDE DEF Udp
    <2>6. ASSUME NEW h \in Chans, udp[h] # 0, cb'[h] \notin {"clearSlots", "done"}
          PROVE  desc'[udp[h]] = Udp(h)
        <3>1. h # g /\ desc[udp[h]] = Udp(h)
            BY <2>3, <2>6 DEF UdpCustody
        <3> QED
            BY <2>1, <2>4, <2>5, <2>6, <3>1
    <2>7. ASSUME NEW e \in Fds, NEW h \in Chans, desc'[e] = Udp(h)
          PROVE  udp[h] = e /\ cb'[h] \notin {"clearSlots", "done"}
        <3>1. desc[e] = Udp(h) /\ e # udp[g]
            BY <2>1, <2>5, <2>7
        <3>2. udp[h] = e /\ cb[h] \notin {"clearSlots", "done"}
            BY <3>1 DEF UdpCustody
        <3> QED
            BY <2>3, <3>1, <3>2
    <2> QED
        BY <2>1, <2>2, <2>5, <2>6, <2>7 DEF UdpCustody
<1>9. ASSUME NEW g \in Chans, RemoveVc(g) \/ RemovePeer(g) \/ ClearSlots(g)
      PROVE  UdpCustody' /\ stray' = stray
    <2>1. /\ UNCHANGED <<desc, stray, udp>>
          /\ \E o \in CbPcs : /\ cb' = [cb EXCEPT ![g] = o]
                              /\ o \in {"clearSlots", "done"} <=> cb[g] \in {"clearSlots", "done"}
        BY <1>9 DEF RemoveVc, RemovePeer, ClearSlots, kernelVars, chanVars, CbPcs
    <2>2. \A h \in Chans : cb'[h] \in {"clearSlots", "done"} <=> cb[h] \in {"clearSlots", "done"}
        BY <2>1 DEF ChanTypes
    <2> QED
        BY <2>1, <2>2, UdpFrame
<1>10. ~AddRefused /\ ~TakeoverClose /\ ~TakeoverForget
    BY NoRefusal, StagePcs DEF TakeoverClose, TakeoverForget
<1> QED
    BY <1>2, <1>3, <1>4, <1>5, <1>6, <1>7, <1>8, <1>9, <1>10 DEF Next, AcceptLoop, Channel

------------------------------------------------------------------------------
(***************************************************************************)
(* The stages.                                                             *)
(***************************************************************************)
\* While the client gathers its connections, each step takes one of them further,
\* until the channel is created.
LEMMA GatherConnects ==
    ASSUME Base, Gathering, ClientConnects
    PROVE  Gathering'
<1> USE DEF Base, Shape
<1>1. PICK b \in Binds : b = [conn |-> used + 1, slot |-> 0, id |-> used + 1]
    <2>1. used + 1 \in Conns
        BY DEF ClientConnects, Scalars, Conns
    <2>2. [conn |-> used + 1, slot |-> 0, id |-> used + 1] \in Binds
        BY <2>1 DEF Binds
    <2> QED
        BY <2>2
<1>2. PICK t \in Slots : t = cnum + 1
    BY DEF ClientConnects, Scalars, Slots
<1>3. /\ backlog' = Append(backlog, b) /\ cslots' = [cslots EXCEPT ![t] = used + 1]
      /\ used' = used + 1 /\ cnum' = cnum + 1
      /\ UNCHANGED <<desc, cut, pc, hand, peer, mgr, s2c, st, live, udp, cb>>
    BY <1>1, <1>2 DEF ClientConnects, kernelVars, loopVars, tableVars, chanVars
<1>4. /\ Len(backlog') = Len(backlog) + 1 /\ backlog'[Len(backlog) + 1] = b
      /\ \A i \in 1..Len(backlog) : backlog'[i] = backlog[i]
      /\ Len(backlog) \in Nat
    BY <1>3, Joins DEF Pieces
<1>5. /\ cslots'[t] = used + 1 /\ \A s \in Slots : s # t => cslots'[s] = cslots[s]
      /\ used \in Nat /\ cnum \in Nat
    BY <1>3 DEF Scalars
<1>6. \A s \in Slots : cslots'[s] \notin cut
    <2>1. used + 1 \notin cut
        BY <1>5 DEF Known, Scalars, Conns
    <2> QED
        BY <1>5, <2>1 DEF Gathering
<1>7. ASSUME NEW s \in Slots, s <= cnum' PROVE cslots'[s] = used' - cnum' + s
    <2>1. CASE s = t
        BY <1>2, <1>3, <1>5, <2>1
    <2>2. CASE s # t
        <3>1. s <= cnum /\ s \in Nat
            BY <1>2, <1>3, <1>5, <1>7, <2>2 DEF Slots
        <3>2. cslots[s] = used - cnum + s
            BY <3>1 DEF Gathering
        <3> QED
            BY <1>3, <1>5, <2>2, <3>1, <3>2
    <2> QED
        BY <2>1, <2>2
<1>8. /\ Gathered' = Gathered /\ InHand' = InHand /\ Gathered \in Nat /\ InHand \in Nat
      /\ Gathered <= cnum
    <2>1. Gathered' = Gathered /\ InHand' = InHand
        BY <1>3 DEF Gathered, InHand
    <2>2. Gathered \in Nat /\ InHand \in Nat
        BY GatheredIs DEF InHand
    <2>3. cnum = Gathered + InHand + Len(backlog)
        BY DEF Gathering
    <2> QED
        BY <1>4, <2>1, <2>2, <2>3
<1>9. cnum' = Gathered' + InHand' + Len(backlog')
    <2>1. cnum = Gathered + InHand + Len(backlog)
        BY DEF Gathering
    <2> QED
        BY <1>3, <1>4, <1>8, <2>1
<1>10. \A p \in peer : \A i \in 1..Len(p) : p[i].conn = cslots'[i] /\ desc[p[i].fd] = p[i].conn
    <2>1. ASSUME NEW p \in peer, NEW i \in 1..Len(p) PROVE i \in Slots /\ i # t
        <3>1. Len(p) = Gathered /\ Len(p) \in Nat /\ Len(p) <= NConn
            BY GatheredIs DEF Pieces
        <3> QED
            BY <1>2, <1>5, <1>8, <3>1 DEF Slots
    <2> QED
        BY <1>5, <2>1 DEF Gathering
<1>11. \A i \in 1..Len(backlog') : backlog'[i].slot = 0 /\ backlog'[i].id = backlog'[i].conn
    <2>1. b.slot = 0 /\ b.id = b.conn
        BY <1>1
    <2>2. \A i \in 1..Len(backlog') : i \in 1..Len(backlog) \/ i = Len(backlog) + 1
        BY <1>4
    <2> QED
        BY <1>4, <2>1, <2>2 DEF Gathering
<1>12. \A g \in Chans : Idle(g)'
    BY <1>3 DEF Gathering, Idle
<1>13. /\ mgr' = 0 /\ pc' \in {"accept", "lookup", "register", "add", "create"}
       /\ \A h \in hand' : h.slot = 0 /\ h.id = h.conn
       /\ pc' = "add" => peer' # {} /\ \A h \in hand' : h.fd \in DOMAIN s2c' /\ s2c'[h.fd] = h.id
       /\ \A p \in peer' : \A i \in 1..Len(p) :
              p[i].fd \in DOMAIN s2c' => s2c'[p[i].fd] = p[i].conn
    BY <1>3 DEF Gathering
<1>14. Gathered' = NConn <=> pc' = "create"
    BY <1>3, <1>8 DEF Gathering
<1> QED
    BY <1>3, <1>6, <1>7, <1>9, <1>10, <1>11, <1>12, <1>13, <1>14 DEF Gathering

\* A connection is accepted while the client gathers them.
LEMMA GatherAccepts ==
    ASSUME Base, Custody, Gathering, Accept
    PROVE  Gathering'
<1> USE DEF Base, Shape
<1>1. /\ Len(backlog') = Len(backlog) - 1 /\ Head(backlog) = backlog[1]
      /\ Len(backlog) \in Nat \ {0}
      /\ \A i \in 1..Len(backlog') : backlog'[i] = backlog[i + 1]
    BY Leaves DEF Accept, Pieces
<1>2. Lowest \in Fds /\ desc[Lowest] = 0
    BY LowestIs DEF Accept
<1>3. PICK f \in Fds : f = Lowest
    BY <1>2
<1>4. PICK h : /\ hand' = {h}
               /\ h = [fd |-> f, conn |-> Head(backlog).conn,
                       slot |-> Head(backlog).slot, id |-> Head(backlog).id]
    BY <1>3 DEF Accept
<1>5. /\ desc' = [desc EXCEPT ![f] = h.conn] /\ pc' = "lookup" /\ pc = "accept"
      /\ UNCHANGED <<cut, peer, mgr, s2c, st, live, udp, cb, cslots, cnum, used>>
    BY <1>3, <1>4 DEF Accept, tableVars, chanVars, clientVars
<1>6. /\ h.slot = 0 /\ h.id = h.conn
      /\ \A i \in 1..Len(backlog') : backlog'[i].slot = 0 /\ backlog'[i].id = backlog'[i].conn
    <2>1. \A i \in 1..Len(backlog) : backlog[i].slot = 0 /\ backlog[i].id = backlog[i].conn
        BY DEF Gathering
    <2>2. 1 \in 1..Len(backlog) /\ \A i \in 1..Len(backlog') : i + 1 \in 1..Len(backlog)
        BY <1>1
    <2> QED
        BY <1>1, <1>4, <2>1, <2>2
<1>7. hand = {}
    BY <1>5 DEF Pieces, Holding
<1>8. Gathered' = Gathered /\ InHand' = 1 /\ InHand = 0 /\ Gathered \in Nat
    BY <1>4, <1>5, <1>7, GatheredIs DEF Gathered, InHand
<1>9. cnum' = Gathered' + InHand' + Len(backlog')
    <2>1. cnum = Gathered + InHand + Len(backlog)
        BY DEF Gathering
    <2> QED
        BY <1>1, <1>5, <1>8, <2>1
<1>10. ASSUME NEW p \in peer, NEW i \in 1..Len(p)
       PROVE  p[i].conn = cslots[i] /\ desc'[p[i].fd] = p[i].conn
    <2>1. p[i].conn = cslots[i] /\ desc[p[i].fd] = p[i].conn
        BY DEF Gathering
    <2>2. p[i].fd \in Fds /\ p[i].conn # 0
        BY PeerEntries DEF Entries, Conns
    <2> QED
        BY <1>2, <1>3, <1>5, <2>1, <2>2 DEF Scalars
<1>11. \A g \in Chans : Idle(g)'
    BY <1>5 DEF Gathering, Idle
<1>12. Gathered' = NConn <=> pc' = "create"
    BY <1>5, <1>8 DEF Gathering
<1>13. /\ mgr' = 0
       /\ \A s \in Slots : cslots'[s] \notin cut'
       /\ \A s \in Slots : s <= cnum' => cslots'[s] = used' - cnum' + s
       /\ \A p \in peer' : \A i \in 1..Len(p) :
              p[i].fd \in DOMAIN s2c' => s2c'[p[i].fd] = p[i].conn
    BY <1>5 DEF Gathering
<1>14. \A p \in peer' : \A i \in 1..Len(p) : p[i].conn = cslots'[i] /\ desc'[p[i].fd] = p[i].conn
    BY <1>5, <1>10
<1> QED
    BY <1>4, <1>5, <1>6, <1>9, <1>11, <1>12, <1>13, <1>14 DEF Gathering

\* Lookup finds no channel.
LEMMA GatherLooksUp ==
    ASSUME Base, Gathering, Lookup
    PROVE  Gathering'
<1>1. /\ pc' = "register" /\ pc = "lookup"
      /\ UNCHANGED <<desc, cut, backlog, hand, peer, mgr, s2c, st, live, udp, cb, cslots, cnum, used>>
    BY DEF Gathering, Lookup, kernelVars, tableVars, chanVars, clientVars
<1>2. Gathered' = Gathered /\ InHand' = InHand
    BY <1>1 DEF Gathered, InHand
<1>3. \A g \in Chans : Idle(g)'
    BY <1>1 DEF Gathering, Idle
<1> QED
    BY <1>1, <1>2, <1>3 DEF Gathering

\* The peer is there when the socket is added.
LEMMA GatherRegisters ==
    ASSUME Base, Custody, Gathering, Register
    PROVE  Gathering'
<1> USE DEF Base, Shape
<1>1. PICK h : h = Held /\ hand = {h} /\ h \in Holds
    BY HeldIs DEF Register, Holding
<1>2. /\ s2c' = [f \in DOMAIN s2c \cup {h.fd} |-> IF f = h.fd THEN h.id ELSE s2c[f]]
      /\ pc' = "add" /\ pc = "register"
      /\ UNCHANGED <<desc, cut, backlog, hand, mgr, st, live, udp, cb, cslots, cnum, used>>
    BY <1>1 DEF Register, kernelVars, chanVars, clientVars
<1>3. \/ peer # {} /\ peer' = peer
      \/ peer = {} /\ peer' = {<<>>}
    BY DEF Register, AddPeer
<1>4. Gathered' = Gathered
    <2>1. CASE peer' = peer
        BY <2>1 DEF Gathered
    <2>2. CASE peer = {} /\ peer' = {<<>>}
        <3>1. (CHOOSE p \in {<<>>} : TRUE) = <<>> /\ Len(<<>>) = 0
            OBVIOUS
        <3> QED
            BY <2>2, <3>1 DEF Gathered
    <2> QED
        BY <1>3, <2>1, <2>2
<1>5. InHand' = InHand
    BY <1>2 DEF InHand
<1>6. \A g \in Chans : Idle(g)'
    BY <1>2 DEF Gathering, Idle
<1>7. \A p \in peer' : \A i \in 1..Len(p) : p \in peer
    <2>1. Len(<<>>) = 0
        OBVIOUS
    <2> QED
        BY <1>3, <2>1
<1>8. \A p \in peer' : \A i \in 1..Len(p) : p[i].conn = cslots[i] /\ desc[p[i].fd] = p[i].conn
    BY <1>7 DEF Gathering
<1>9. ASSUME NEW p \in peer', NEW i \in 1..Len(p), p[i].fd \in DOMAIN s2c'
      PROVE  s2c'[p[i].fd] = p[i].conn
    <2>1. p \in peer
        BY <1>7
    <2>2. p[i].conn < Taken /\ p[i].conn \in Nat
        <3>1. Older(p[i].conn) /\ p[i] \in Entries
            BY <2>1, PeerEntries DEF Aged
        <3> QED
            BY <1>1, <3>1 DEF Older, Entries, Conns
    <2>3. desc[h.fd] = Taken /\ Taken \in Int
        BY <1>1, BacklogBinds DEF Custody, Numbers, Taken, Scalars
    <2>4. p[i].fd # h.fd
        BY <1>8, <2>2, <2>3
    <2>5. p[i].fd \in DOMAIN s2c /\ s2c'[p[i].fd] = s2c[p[i].fd]
        BY <1>2, <1>9, <2>4
    <2> QED
        BY <2>1, <2>5 DEF Gathering
<1>10. \A k \in hand' : k.fd \in DOMAIN s2c' /\ s2c'[k.fd] = k.id
    BY <1>1, <1>2
<1>11. peer' # {}
    BY <1>3
<1>12. Gathered' = NConn <=> pc' = "create"
    BY <1>2, <1>4 DEF Gathering
<1>13. /\ mgr' = 0
       /\ \A s \in Slots : cslots'[s] \notin cut'
       /\ \A s \in Slots : s <= cnum' => cslots'[s] = used' - cnum' + s
       /\ cnum' = Gathered' + InHand' + Len(backlog')
       /\ \A k \in hand' : k.slot = 0 /\ k.id = k.conn
       /\ \A i \in 1..Len(backlog') : backlog'[i].slot = 0 /\ backlog'[i].id = backlog'[i].conn
    BY <1>2, <1>4, <1>5 DEF Gathering
<1>14. \A p \in peer' : \A i \in 1..Len(p) : p[i].conn = cslots'[i] /\ desc'[p[i].fd] = p[i].conn
    BY <1>2, <1>8
<1> QED
    BY <1>2, <1>6, <1>9, <1>10, <1>11, <1>12, <1>13, <1>14 DEF Gathering

\* AddSocket: the peer has one more socket, and is complete with the last.
LEMMA GatherAdds ==
    ASSUME Base, Custody, Gathering, AddSocket
    PROVE  Gathering'
<1> USE DEF Base, Shape
<1>1. PICK h : h = Held /\ hand = {h} /\ h \in Holds /\ h \in hand
    BY HeldIs DEF AddSocket, Holding
<1>2. PICK e \in Entries : e = HandEntry /\ e.fd = h.fd /\ e.conn = h.conn
    BY <1>1, HeldIs DEF AddSocket, Holding
<1>3. PICK p \in peer : /\ Len(p) < NConn /\ peer' = {Append(p, e)}
                        /\ pc' = IF Len(p) + 1 = NConn THEN "create" ELSE "accept"
    BY <1>2 DEF AddSocket
<1>4. /\ hand' = {} /\ pc = "add"
      /\ UNCHANGED <<desc, cut, backlog, mgr, s2c, st, live, udp, cb, cslots, cnum, used>>
    BY DEF AddSocket, kernelVars, chanVars, clientVars
<1>5. p \in Seq(Entries) /\ Len(p) \in Nat /\ Gathered = Len(p)
    BY GatheredIs DEF Pieces
<1>6. PICK q : q = Append(p, e)
    OBVIOUS
<1>7. /\ Len(q) = Len(p) + 1 /\ q[Len(p) + 1] = e
      /\ \A i \in 1..Len(p) : q[i] = p[i]
    BY <1>5, <1>6
<1>8. Gathered' = Len(p) + 1 /\ InHand' = 0 /\ InHand = 1
    <2>1. (CHOOSE r \in {q} : TRUE) = q /\ peer' = {q}
        BY <1>3, <1>6
    <2> QED
        BY <1>1, <1>4, <1>7, <2>1 DEF Gathered, InHand
<1>9. cnum' = Gathered' + InHand' + Len(backlog')
    <2>1. cnum = Gathered + InHand + Len(backlog) /\ Len(backlog) \in Nat
        BY BacklogBinds DEF Gathering
    <2> QED
        BY <1>4, <1>5, <1>8, <2>1
<1>10. h.conn = cslots[Len(p) + 1]
    BY <1>1, <1>5, NextGathered
<1>11. ASSUME NEW i \in 1..Len(q)
       PROVE  /\ q[i].conn = cslots[i] /\ desc[q[i].fd] = q[i].conn
              /\ q[i].fd \in DOMAIN s2c => s2c[q[i].fd] = q[i].conn
    <2>1. CASE i \in 1..Len(p)
        BY <1>7, <2>1 DEF Gathering
    <2>2. CASE i = Len(p) + 1
        <3>1. desc[h.fd] = h.conn /\ s2c[h.fd] = h.conn
            BY <1>1, <1>4 DEF Custody, Gathering
        <3> QED
            BY <1>2, <1>7, <1>10, <2>2, <3>1
    <2> QED
        BY <1>5, <1>7, <2>1, <2>2
<1>12. \A g \in Chans : Idle(g)'
    BY <1>4 DEF Gathering, Idle
<1>13. /\ pc' \in {"create", "accept"} /\ (Gathered' = NConn <=> pc' = "create")
    BY <1>3, <1>5, <1>8
<1>14. /\ mgr' = 0
       /\ \A s \in Slots : cslots'[s] \notin cut'
       /\ \A s \in Slots : s <= cnum' => cslots'[s] = used' - cnum' + s
       /\ \A i \in 1..Len(backlog') : backlog'[i].slot = 0 /\ backlog'[i].id = backlog'[i].conn
    BY <1>4 DEF Gathering
<1>15. \A r \in peer' : \A i \in 1..Len(r) :
           /\ r[i].conn = cslots'[i] /\ desc'[r[i].fd] = r[i].conn
           /\ r[i].fd \in DOMAIN s2c' => s2c'[r[i].fd] = r[i].conn
    BY <1>3, <1>4, <1>6, <1>11
<1> QED
    BY <1>4, <1>9, <1>12, <1>13, <1>14, <1>15 DEF Gathering

\* The channel is created on the attempt's connections.
LEMMA GatherCreates ==
    ASSUME Base, Gathering, CreateVc
    PROVE  Up'
<1> USE DEF Base, Shape
<1>1. hand = {} /\ backlog = <<>> /\ cnum = NConn /\ Gathered = NConn
    BY AllGathered DEF CreateVc
<1>2. PICK g \in Chans, p \in peer :
          /\ st[g] = "none" /\ st' = [st EXCEPT ![g] = "new"]
          /\ conn' = [conn EXCEPT ![g] = p] /\ live' = [live EXCEPT ![g] = Slots]
          /\ mgr' = g /\ evc' = g
    BY DEF CreateVc
<1>3. pc' = "udp" /\ UNCHANGED <<desc, cut, backlog, hand, udp, cb, cslots, cnum, used>>
    BY DEF CreateVc, kernelVars, clientVars
<1>4. Len(p) = NConn
    BY <1>1, GatheredIs
<1>5. cb[g] = "none" /\ udp[g] = 0
    BY <1>2 DEF Gathering, Idle
<1>6. /\ st'[g] = "new" /\ conn'[g] = p /\ live'[g] = Slots
      /\ \A h \in Chans : h # g => st'[h] = st[h] /\ live'[h] = live[h]
    BY <1>2 DEF ChanTypes
<1>7. \A s \in Slots : p[s].conn = cslots[s] /\ cslots[s] \notin cut
    BY <1>4 DEF Gathering, Slots
<1>8. \A s \in Slots : Healthy(s)'
    BY <1>2, <1>3, <1>6, <1>7 DEF Healthy
<1>9. \A h \in Chans \ {g} : Idle(h)'
    BY <1>3, <1>6 DEF Gathering, Idle
<1>10. Fresh'
    BY <1>1, <1>3, <1>8 DEF Fresh
<1>11. 1 \in Slots /\ Len(backlog) = 0
    BY <1>1 DEF Slots
<1>12. \A s \in Slots : conn'[g][s].conn = cslots'[s]
    BY <1>3, <1>6, <1>7
<1>13. (\E s \in Slots : Healthy(s)') /\ \A s \in Slots : Covered(s)'
    BY <1>8, <1>11 DEF Covered
<1>14. hand' = {} /\ Len(backlog') = 0
    BY <1>1, <1>3, <1>11
<1> QED
    BY <1>1, <1>2, <1>3, <1>5, <1>6, <1>9, <1>10, <1>12, <1>13, <1>14 DEF Up, Working

\* A step while the client gathers: it goes on gathering, or the channel is created.
LEMMA GatheringStep ==
    ASSUME Base, Custody, Gathering, [Next]_vars, orderly'
    PROVE  Stage'
<1> USE DEF Base, Shape
<1>0. 1 \in Slots /\ mgr = 0 /\ 0 \notin Chans
    BY DEF Slots, Gathering, Chans
<1>1. ASSUME NEW s \in Slots, ClientReplaces(s) PROVE FALSE
    BY <1>1 DEF ClientReplaces, Gathering
<1>2. ASSUME ClientRestarts PROVE FALSE
    BY <1>0, <1>2 DEF ClientRestarts, Gathering
<1>3. ASSUME NEW s \in Slots, Cut(s) PROVE FALSE
    BY <1>0, <1>3 DEF Cut
<1>4. ASSUME Outage PROVE FALSE
    BY <1>0, <1>4 DEF Outage
<1>5. ASSUME BindFails PROVE FALSE
    <2>1. Held \in hand /\ Held.conn \in cut
        BY <1>5, HeldIs DEF BindFails, Holding
    <2> QED
        BY <2>1, NextGathered
<1>6. ~AddRefused
    BY NoRefusal DEF Stage
<1>7. /\ ~TakeoverClose /\ ~TakeoverForget /\ ~Replace /\ ~UdpReady /\ ~UdpFails /\ ~OpenVc
    BY DEF Gathering, TakeoverClose, TakeoverForget, Replace, UdpReady, UdpFails, OpenVc
<1>8. ASSUME NEW g \in Chans, Channel(g) PROVE FALSE
    <2>1. Idle(g)
        BY DEF Gathering
    <2> QED
        BY <1>8, <2>1 DEF Channel, Idle, Dies, RemoveVc, RemovePeer, CloseUdp, ClearSlots
<1>9. CASE UNCHANGED vars
    <2>1. UNCHANGED <<desc, cut, pc, backlog, hand, peer, mgr, s2c, st, live, udp, cb, cslots, cnum,
                      used>>
        BY <1>9 DEF vars, kernelVars, loopVars, tableVars, chanVars, clientVars
    <2>2. Gathered' = Gathered /\ InHand' = InHand
        BY <2>1 DEF Gathered, InHand
    <2>3. \A g \in Chans : Idle(g)'
        BY <2>1 DEF Gathering, Idle
    <2>4. Gathering'
        BY <2>1, <2>2, <2>3 DEF Gathering
    <2> QED
        BY <2>4 DEF Stage
<1>10. CASE \/ ClientConnects \/ Accept \/ Lookup \/ Register \/ AddSocket \/ CreateVc
    BY <1>10, GatherConnects, GatherAccepts, GatherLooksUp, GatherRegisters, GatherAdds,
       GatherCreates DEF Stage
<1> QED
    BY <1>1, <1>2, <1>3, <1>4, <1>5, <1>6, <1>7, <1>8, <1>9, <1>10 DEF Next, Client, AcceptLoop

\* When the channel is not open yet, nothing was cut and nothing is under way.
LEMMA FreshUnlessOpen ==
    ASSUME Up, st[mgr] # "open"
    PROVE  Fresh
BY DEF Up

\* While the channel is up, one healthy slot keeps it up.
LEMMA UpReplaced ==
    ASSUME Base, Up, NEW t \in Slots, ClientReplaces(t)
    PROVE  Up'
<1> USE DEF Base, Shape
<1>1. cslots[t] \in cut /\ cid[t] = cslots[t] /\ used + 1 \in Conns /\ cnum = NConn
    BY DEF ClientReplaces, Scalars, Conns
<1>2. cslots[t] \in Conns
    BY <1>1 DEF Scalars
<1>3. PICK b \in Binds : b = [conn |-> used + 1, slot |-> t, id |-> cid[t]]
    <2>1. [conn |-> used + 1, slot |-> t, id |-> cid[t]] \in Binds
        BY <1>1, <1>2 DEF Binds, Slots
    <2> QED
        BY <2>1
<1>4. b.conn = used + 1 /\ b.slot = t
    BY <1>3
<1>5. /\ backlog' = Append(backlog, b) /\ cslots' = [cslots EXCEPT ![t] = used + 1]
      /\ UNCHANGED <<cut, pc, hand, evc, mgr, st, conn, live, udp, cb, cnum>>
    BY <1>3 DEF ClientReplaces, kernelVars, loopVars, tableVars, chanVars
<1>6. /\ Len(backlog') = Len(backlog) + 1 /\ backlog'[Len(backlog) + 1] = b
      /\ \A i \in 1..Len(backlog) : backlog'[i] = backlog[i]
      /\ Len(backlog) \in Nat
    BY <1>5, Joins DEF Pieces
<1>7. /\ cslots'[t] = used + 1 /\ \A s \in Slots : s # t => cslots'[s] = cslots[s]
      /\ used \in Nat /\ \A s \in Slots : cslots[s] \in Nat /\ cslots[s] <= used
    BY <1>5 DEF Scalars, Numbers
<1>8. ~Fresh
    BY <1>1 DEF Fresh, Healthy
<1>9. st[mgr] = "open" /\ pc \in {"accept", "lookup", "replace"}
    BY <1>8 DEF Up
<1>10. \A s \in Slots : Healthy(s) => Healthy(s)'
    BY <1>1, <1>5, <1>7 DEF Healthy
<1>11. ASSUME NEW c, Sent(c), c.conn \in Nat PROVE Sent(c)'
    <2>1. CASE c.slot = t
        BY <1>1, <1>5, <1>7, <1>11, <2>1 DEF Sent
    <2>2. CASE c.slot # t
        BY <1>5, <1>7, <1>11, <2>2 DEF Sent
    <2> QED
        BY <2>1, <2>2
<1>12. Sent(b)'
    BY <1>4, <1>7 DEF Sent
<1>13. \A h \in hand' : Sent(h)'
    <2>1. \A h \in hand : h.conn \in Nat
        BY DEF Pieces, Holds, Conns
    <2> QED
        BY <1>5, <1>11, <2>1 DEF Up
<1>14. ASSUME NEW i \in 1..Len(backlog') PROVE Sent(backlog[i])'
    <2>1. PICK c : c = backlog'[i]
        OBVIOUS
    <2>2. Sent(c)'
        <3>1. CASE i \in 1..Len(backlog)
            <4>1. c = backlog[i] /\ c.conn \in Nat
                BY <1>6, <2>1, <3>1, BacklogBinds DEF Binds, Conns
            <4> QED
                BY <1>11, <3>1, <4>1 DEF Up
        <3>2. CASE i = Len(backlog) + 1
            BY <1>6, <1>12, <2>1, <3>2
        <3> QED
            BY <1>6, <3>1, <3>2
    <2> QED
        BY <2>1, <2>2 DEF Sent
<1>15. ASSUME NEW s \in Slots PROVE Covered(s)'
    <2>1. CASE s = t
        <3>1. Len(backlog) + 1 \in 1..Len(backlog')
            BY <1>6
        <3>2. \E i \in 1..Len(backlog') : backlog'[i].conn = cslots'[s] /\ backlog'[i].slot = s
            BY <1>4, <1>6, <1>7, <2>1, <3>1
        <3> QED
            BY <3>2 DEF Covered, Coming
    <2>2. CASE s # t
        <3>1. cslots'[s] = cslots[s]
            BY <1>7, <2>2
        <3>2. Coming(cslots[s], s) => Coming(cslots[s], s)'
            BY <1>5, <1>6, <3>1 DEF Coming
        <3> QED
            BY <1>5, <1>10, <3>1, <3>2 DEF Up, Covered
    <2> QED
        BY <2>1, <2>2
<1>16. \A s \in Slots : conn'[mgr'][s].conn = cslots'[s] \/ conn'[mgr'][s].conn \in cut'
    BY <1>1, <1>5, <1>7 DEF Up
<1>17. \A g \in Chans \ {mgr'} : Idle(g)'
    BY <1>5 DEF Up, Idle
<1>18. \E s \in Slots : Healthy(s)'
    BY <1>10 DEF Up
<1> QED
    BY <1>5, <1>9, <1>13, <1>14, <1>15, <1>16, <1>17, <1>18 DEF Up

\* Steps of the loop and of other threads that leave the channel and the client alone.
LEMMA UpFrame ==
    ASSUME Up, UNCHANGED <<cut, hand, backlog, evc, mgr, conn, live, cb, cslots, cnum>>,
           \A g \in Chans \ {mgr} : st'[g] = st[g] /\ udp'[g] = udp[g],
           \/ pc' \in {"udp", "ended"} /\ st'[mgr] = "new" /\ Fresh /\ udp'[mgr] = 0
           \/ pc' = "open" /\ st'[mgr] = "new" /\ Fresh /\ udp'[mgr] # 0
           \/ pc' = "opening" /\ st'[mgr] = "opening" /\ Fresh
           \/ pc' \in {"accept", "lookup", "replace"} /\ st'[mgr] = "open",
           pc' \in Working => evc = mgr
    PROVE  Up'
<1>1. \A s \in Slots : Healthy(s)' = Healthy(s) /\ Coming(cslots[s], s)' = Coming(cslots[s], s)
    BY DEF Healthy, Coming
<1>2. Fresh => Fresh'
    BY <1>1 DEF Fresh
<1>3. (\E s \in Slots : Healthy(s)') /\ \A s \in Slots : Covered(s)'
    BY <1>1 DEF Up, Covered
<1>4. (\A h \in hand' : Sent(h)') /\ \A i \in 1..Len(backlog') : Sent(backlog[i])'
    BY DEF Up, Sent
<1>5. \A g \in Chans \ {mgr'} : Idle(g)'
    BY DEF Up, Idle
<1>6. \A s \in Slots : conn'[mgr'][s].conn = cslots'[s] \/ conn'[mgr'][s].conn \in cut'
    BY DEF Up
<1> QED
    BY <1>2, <1>3, <1>4, <1>5, <1>6 DEF Up

\* Lookup finds the channel, the UDP socket is bound or not, open() goes on.
LEMMA UpLoop ==
    ASSUME Base, Up, Lookup \/ UdpReady \/ UdpFails \/ OpenVc \/ UNCHANGED vars
    PROVE  Up'
<1> USE DEF Base, Shape
<1>0. mgr \in Chans /\ mgr # 0
    BY DEF Up, Chans
<1>1. CASE Lookup
    <2>1. Held \in hand /\ Held.slot # 0
        <3>1. Held \in hand
            BY <1>1, HeldIs DEF Lookup, Holding
        <3> QED
            BY <3>1 DEF Up, Sent, Slots
    <2>2. pc' = "replace" /\ evc' = mgr /\ pc = "lookup"
        BY <1>0, <1>1, <2>1 DEF Lookup
    <2>3. UNCHANGED <<cut, hand, backlog, mgr, st, udp, conn, live, cb, cslots, cnum>>
        BY <1>1 DEF Lookup, kernelVars, tableVars, chanVars, clientVars
    <2>4. st[mgr] = "open"
        BY <2>2 DEF Up
    <2>5. \A s \in Slots : Healthy(s)' = Healthy(s) /\ Coming(cslots[s], s)' = Coming(cslots[s], s)
        BY <2>3 DEF Healthy, Coming
    <2>6. (\E s \in Slots : Healthy(s)') /\ \A s \in Slots : Covered(s)'
        BY <2>3, <2>5 DEF Up, Covered
    <2>7. (\A h \in hand' : Sent(h)') /\ \A i \in 1..Len(backlog') : Sent(backlog[i])'
        BY <2>3 DEF Up, Sent
    <2>8. \A g \in Chans \ {mgr'} : Idle(g)'
        BY <2>3 DEF Up, Idle
    <2>9. \A s \in Slots : conn'[mgr'][s].conn = cslots'[s] \/ conn'[mgr'][s].conn \in cut'
        BY <2>3 DEF Up
    <2> QED
        BY <2>2, <2>3, <2>4, <2>6, <2>7, <2>8, <2>9 DEF Up
<1>2. CASE UdpReady
    <2>1. Lowest \in Fds
        BY <1>2, LowestIs DEF UdpReady
    <2>2. pc = "udp" /\ evc = mgr /\ st[mgr] = "new" /\ Fresh
        <3>1. pc = "udp"
            BY <1>2 DEF UdpReady
        <3> QED
            BY <3>1 DEF Up, Working
    <2>3. /\ udp' = [udp EXCEPT ![mgr] = Lowest] /\ pc' = "open"
          /\ UNCHANGED <<cut, hand, backlog, evc, mgr, st, conn, live, cb, cslots, cnum>>
        BY <1>2, <2>2 DEF UdpReady, tableVars, clientVars
    <2> HIDE DEF Lowest
    <2>4. udp'[mgr] # 0 /\ \A g \in Chans \ {mgr} : udp'[g] = udp[g]
        BY <1>0, <2>1, <2>3 DEF ChanTypes, Fds
    <2> QED
        BY <2>2, <2>3, <2>4, UpFrame
<1>3. CASE UdpFails
    <2>1. pc = "udp" /\ pc' = "ended" /\ UNCHANGED <<cut, hand, backlog, evc, mgr, st, udp, conn, live,
                                                    cb, cslots, cnum>>
        BY <1>3 DEF UdpFails, kernelVars, tableVars, chanVars, clientVars
    <2>2. st[mgr] = "new" /\ Fresh /\ udp[mgr] = 0
        BY <2>1 DEF Up
    <2> QED
        BY <2>1, <2>2, UpFrame DEF Working
<1>4. CASE OpenVc
    <2>1. pc \in {"open", "opening"} /\ evc = mgr /\ Fresh
        <3>1. pc \in {"open", "opening"}
            BY <1>4 DEF OpenVc
        <3> QED
            BY <3>1 DEF Up, Working
    <2>2. /\ st' = [st EXCEPT ![mgr] = IF pc = "open" THEN "opening" ELSE "open"]
          /\ pc' = IF pc = "open" THEN "opening" ELSE "accept"
          /\ UNCHANGED <<cut, hand, backlog, evc, mgr, udp, conn, live, cb, cslots, cnum>>
        BY <1>4, <2>1 DEF OpenVc, kernelVars, tableVars, clientVars
    <2>3. /\ st'[mgr] = IF pc = "open" THEN "opening" ELSE "open"
          /\ \A g \in Chans \ {mgr} : st'[g] = st[g]
        BY <1>0, <2>2 DEF ChanTypes
    <2> QED
        BY <2>1, <2>2, <2>3, UpFrame
<1>5. CASE UNCHANGED vars
    <2>1. UNCHANGED <<cut, pc, hand, backlog, evc, mgr, st, udp, conn, live, cb, cslots, cnum>>
        BY <1>5 DEF vars, kernelVars, loopVars, tableVars, chanVars, clientVars
    <2>2. pc \in Working => evc = mgr
        BY DEF Up
    <2>3. \/ pc \in {"udp", "ended"} /\ st[mgr] = "new" /\ Fresh /\ udp[mgr] = 0
          \/ pc = "open" /\ st[mgr] = "new" /\ Fresh /\ udp[mgr] # 0
          \/ pc = "opening" /\ st[mgr] = "opening" /\ Fresh
          \/ pc \in {"accept", "lookup", "replace"} /\ st[mgr] = "open"
        BY DEF Up
    <2> QED
        BY <2>1, <2>2, <2>3, UpFrame
<1> QED
    BY <1>1, <1>2, <1>3, <1>4, <1>5

\* A connection fails while another slot is healthy.
LEMMA UpCut ==
    ASSUME Base, Up, NEW t \in Slots, Cut(t), orderly'
    PROVE  Up'
<1> USE DEF Base, Shape
<1>1. /\ cut' = cut \cup {cslots[t]} /\ cslots[t] # 0
      /\ UNCHANGED <<pc, hand, backlog, evc, mgr, st, udp, conn, live, cb, cslots, cnum>>
    BY DEF Cut, loopVars, tableVars, chanVars
<1>2. PICK u \in Slots \ {t} :
          /\ st[mgr] = "open" /\ u \in live[mgr]
          /\ conn[mgr][u].conn = cslots[u] /\ cslots[u] \notin cut
    BY DEF Cut
<1>3. cslots[u] # cslots[t]
    BY <1>1, <1>2 DEF Numbers
<1>4. Healthy(u)'
    BY <1>1, <1>2, <1>3 DEF Healthy
<1>5. pc \in {"accept", "lookup", "replace"}
    BY <1>2 DEF Up
<1>6. ASSUME NEW s \in Slots PROVE Covered(s)'
    <2>1. Covered(s)
        BY DEF Up
    <2>2. Coming(cslots[s], s) => Coming(cslots[s], s)'
        BY <1>1 DEF Coming
    <2>3. cslots[s] \notin cut' /\ Healthy(s) => Healthy(s)'
        BY <1>1 DEF Healthy
    <2> QED
        BY <1>1, <2>1, <2>2, <2>3 DEF Covered
<1>7. (\A h \in hand' : Sent(h)') /\ \A i \in 1..Len(backlog') : Sent(backlog[i])'
    BY <1>1 DEF Up, Sent
<1>8. \A g \in Chans \ {mgr'} : Idle(g)'
    BY <1>1 DEF Up, Idle
<1>9. \A s \in Slots : conn'[mgr'][s].conn = cslots'[s] \/ conn'[mgr'][s].conn \in cut'
    BY <1>1 DEF Up
<1> QED
    BY <1>1, <1>2, <1>4, <1>5, <1>6, <1>7, <1>8, <1>9 DEF Up

\* All connections fail: the channel starts to end.
LEMMA UpOutage ==
    ASSUME Base, Up, Outage, orderly'
    PROVE  Ending'
<1> USE DEF Base, Shape
<1>1. /\ cut' = cut \cup {cslots[s] : s \in Slots} /\ pc = "accept" /\ backlog = <<>>
      /\ UNCHANGED <<pc, hand, backlog, mgr, st, udp, conn, live, cb, cslots, cnum>>
    BY DEF Outage, ServerQuiet, loopVars, tableVars, chanVars
<1>2. hand = {} /\ st[mgr] = "open"
    BY <1>1 DEF Up, Pieces, Holding
<1>3. \A s \in Slots : cslots'[s] \in cut' /\ conn'[mgr][s].conn \in cut'
    BY <1>1 DEF Up
<1>4. \A s \in live'[mgr] : conn'[mgr][s].conn \in cut'
    <2>1. live[mgr] \subseteq Slots
        BY DEF ChanTypes, Up
    <2> QED
        BY <1>1, <1>3, <2>1
<1>5. mgr \in Chans /\ \A h \in Chans \ {mgr} : Idle(h)'
    BY <1>1 DEF Up, Idle
<1> QED
    BY <1>1, <1>2, <1>3, <1>4, <1>5 DEF Up, Ending

\* A connection is accepted.
LEMMA UpAccept ==
    ASSUME Base, Up, Accept
    PROVE  Up'
<1> USE DEF Base, Shape
<1>1. PICK b : b = Head(backlog)
    OBVIOUS
<1>2. PICK f : f = Lowest
    OBVIOUS
<1>3. PICK h : h = [fd |-> f, conn |-> b.conn, slot |-> b.slot, id |-> b.id]
    OBVIOUS
<1>4. /\ hand' = {h} /\ h.conn = b.conn /\ h.slot = b.slot /\ backlog' = Tail(backlog)
      /\ backlog # <<>> /\ pc = "accept" /\ pc' = "lookup"
      /\ UNCHANGED <<cut, evc, mgr, st, udp, conn, live, cb, cslots, cnum>>
    <2> HIDE DEF Lowest
    <2> QED
        BY <1>1, <1>2, <1>3 DEF Accept, tableVars, chanVars, clientVars
<1>5. /\ Len(backlog) \in Nat /\ 1 \in 1..Len(backlog) /\ b = backlog[1]
      /\ Len(backlog') = Len(backlog) - 1
      /\ \A i \in 1..Len(backlog') : backlog'[i] = backlog[i + 1] /\ i + 1 \in 1..Len(backlog)
    BY <1>1, <1>4 DEF Pieces
<1>6. st[mgr] = "open" /\ hand = {}
    BY <1>4 DEF Up, Pieces, Holding
<1>7. \A k \in hand' : Sent(k)'
    <2>1. Sent(b)
        BY <1>5 DEF Up
    <2>2. Sent(h)'
        BY <1>4, <2>1 DEF Sent
    <2> QED
        BY <1>4, <2>2
<1>8. ASSUME NEW i \in 1..Len(backlog') PROVE Sent(backlog[i])'
    <2>1. PICK c : c = backlog'[i]
        OBVIOUS
    <2>2. Sent(c)
        BY <1>5, <2>1 DEF Up
    <2> QED
        BY <1>4, <2>1, <2>2 DEF Sent
<1>9. \A s \in Slots : Healthy(s)' = Healthy(s)
    BY <1>4 DEF Healthy
<1>10. ASSUME NEW s \in Slots PROVE Covered(s)'
    <2>1. Covered(s) /\ cslots'[s] = cslots[s] /\ cut' = cut
        BY <1>4 DEF Up
    <2>2. ASSUME Coming(cslots[s], s) PROVE Coming(cslots[s], s)'
        <3>1. PICK i \in 1..Len(backlog) : backlog[i].conn = cslots[s] /\ backlog[i].slot = s
            BY <1>6, <2>2 DEF Coming
        <3>2. CASE i = 1
            BY <1>4, <1>5, <3>1, <3>2 DEF Coming
        <3>3. CASE i # 1
            <4>1. PICK j \in 1..Len(backlog') : i = j + 1
                <5>1. i - 1 \in 1..Len(backlog') /\ i = (i - 1) + 1
                    BY <1>5, <3>3
                <5> QED
                    BY <5>1
            <4>2. backlog'[j].conn = cslots'[s] /\ backlog'[j].slot = s
                BY <1>5, <2>1, <3>1, <4>1
            <4> QED
                BY <4>2 DEF Coming
        <3> QED
            BY <3>2, <3>3
    <2> QED
        BY <1>9, <2>1, <2>2 DEF Covered
<1>11. \A g \in Chans \ {mgr'} : Idle(g)'
    BY <1>4 DEF Up, Idle
<1>12. \A s \in Slots : conn'[mgr'][s].conn = cslots'[s] \/ conn'[mgr'][s].conn \in cut'
    BY <1>4 DEF Up
<1>13. (\E s \in Slots : Healthy(s)') /\ pc' \notin Working
    BY <1>4, <1>9 DEF Up, Working
<1> QED
    BY <1>4, <1>6, <1>7, <1>8, <1>10, <1>11, <1>12, <1>13 DEF Up

\* The connection in hand fails before it has a slot.
LEMMA UpBindFails ==
    ASSUME Base, Up, Custody, BindFails
    PROVE  Up'
<1> USE DEF Base, Shape
<1>1. Stage
    BY DEF Stage
<1>2. cut' = cut /\ hand = {Held} /\ Held.conn \in cut
    BY <1>1, BindFailsIs
<1>3. /\ hand' = {} /\ pc = "lookup" /\ pc' = "accept"
      /\ UNCHANGED <<backlog, evc, mgr, st, udp, conn, live, cb, cslots, cnum>>
    BY DEF BindFails, tableVars, chanVars, clientVars
<1>4. \A s \in Slots : Healthy(s)' = Healthy(s)
    BY <1>2, <1>3 DEF Healthy
<1>5. ASSUME NEW s \in Slots PROVE Covered(s)'
    <2>1. Covered(s)
        BY DEF Up
    <2>2. cslots[s] \notin cut /\ Coming(cslots[s], s) => Coming(cslots[s], s)'
        BY <1>2, <1>3 DEF Coming
    <2> QED
        BY <1>2, <1>3, <1>4, <2>1, <2>2 DEF Covered
<1>6. \A i \in 1..Len(backlog') : Sent(backlog[i])'
    BY <1>2, <1>3 DEF Up, Sent
<1>7. \A g \in Chans \ {mgr'} : Idle(g)'
    BY <1>3 DEF Up, Idle
<1>8. \A s \in Slots : conn'[mgr'][s].conn = cslots'[s] \/ conn'[mgr'][s].conn \in cut'
    BY <1>2, <1>3 DEF Up
<1>9. (\E s \in Slots : Healthy(s)') /\ st[mgr] = "open" /\ pc' \notin Working
    BY <1>3, <1>4 DEF Up, Working
<1> QED
    BY <1>3, <1>5, <1>6, <1>7, <1>8, <1>9 DEF Up

\* A replacement takes its slot.
LEMMA UpReplace ==
    ASSUME Base, Up, SlotIds, Custody, Replace
    PROVE  Up'
<1> USE DEF Base, Shape
<1>0. Stage
    BY DEF Stage
<1> HIDE DEF CloseAll, Target
<1>1. PICK h : h = Held
    OBVIOUS
<1>2. /\ evc = mgr /\ st[mgr] = "open" /\ cut' = cut /\ hand = {h} /\ h \in Holds
      /\ h.slot \in Slots /\ Target = h.slot /\ conn[mgr][h.slot].conn < h.conn
    BY <1>0, <1>1, ReplaceIs
<1>3. PICK t \in Slots : t = h.slot
    BY <1>2
<1>4. PICK e : e = HandEntry /\ e.conn = h.conn
    <2>1. HandEntry.conn = h.conn
        BY <1>1 DEF HandEntry
    <2> QED
        BY <2>1
<1>5. /\ conn' = [conn EXCEPT ![mgr] = [s \in Slots |-> IF s = t THEN e ELSE @[s]]]
      /\ live' = [live EXCEPT ![mgr] = @ \cup ({t} \ {0})]
      /\ hand' = {} /\ pc = "replace" /\ pc' = "accept"
      /\ UNCHANGED <<backlog, evc, mgr, st, udp, cb, cslots, cnum>>
    BY <1>2, <1>3, <1>4 DEF Replace, clientVars
<1>6. mgr \in Chans /\ conn[mgr] \in [Slots -> Entries] /\ t # 0
    BY <1>2 DEF Up, ChanTypes, Slots
<1>7. /\ conn'[mgr][t] = e /\ \A s \in Slots : s # t => conn'[mgr][s] = conn[mgr][s]
      /\ live'[mgr] = live[mgr] \cup {t}
      /\ \A g \in Chans : g # mgr => live'[g] = live[g]
    BY <1>5, <1>6 DEF ChanTypes
<1>8. Sent(h)
    BY <1>2 DEF Up
<1>9. ~Healthy(t)
    <2>1. h.conn \in Nat /\ cslots[t] \in Nat /\ conn[mgr][t].conn \in Nat
        BY <1>2, <1>6 DEF Holds, Scalars, Entries, Conns
    <2>2. h.conn <= cslots[t] /\ conn[mgr][t].conn < h.conn
        BY <1>2, <1>3, <1>8 DEF Sent
    <2> QED
        BY <2>1, <2>2 DEF Healthy
<1>10. \A s \in Slots : Healthy(s) => Healthy(s)'
    BY <1>2, <1>5, <1>7, <1>9 DEF Healthy
<1>11. ASSUME NEW s \in Slots PROVE Covered(s)'
    <2>1. Covered(s)
        BY DEF Up
    <2>2. ASSUME Coming(cslots[s], s), cslots[s] \notin cut
          PROVE  Coming(cslots[s], s)' \/ Healthy(s)'
        <3>1. CASE h.conn = cslots[s] /\ h.slot = s
            BY <1>2, <1>3, <1>4, <1>5, <1>7, <2>2, <3>1 DEF Healthy
        <3>2. CASE \E i \in 1..Len(backlog) : backlog[i].conn = cslots[s] /\ backlog[i].slot = s
            BY <1>5, <3>2 DEF Coming
        <3> QED
            BY <1>2, <2>2, <3>1, <3>2 DEF Coming
    <2> QED
        BY <1>2, <1>5, <1>10, <2>1, <2>2 DEF Covered
<1>12. \A i \in 1..Len(backlog') : Sent(backlog[i])'
    BY <1>2, <1>5 DEF Up, Sent
<1>13. \A g \in Chans \ {mgr'} : Idle(g)'
    BY <1>5, <1>7 DEF Up, Idle
<1>14. \A s \in Slots : conn'[mgr'][s].conn = cslots'[s] \/ conn'[mgr'][s].conn \in cut'
    BY <1>2, <1>3, <1>4, <1>5, <1>7, <1>8 DEF Up, Sent
<1>15. (\E s \in Slots : Healthy(s)') /\ pc' \notin Working
    BY <1>5, <1>10 DEF Up, Working
<1> QED
    BY <1>2, <1>5, <1>11, <1>12, <1>13, <1>14, <1>15 DEF Up

\* A slot dies; the healthy one keeps the channel open.
LEMMA UpDies ==
    ASSUME Base, Up, Custody, NEW g \in Chans, NEW t \in Slots, Dies(g, t)
    PROVE  Up'
<1> USE DEF Base, Shape
<1>0. Stage
    BY DEF Stage
<1> HIDE DEF CloseAll
<1>1. /\ mgr = g /\ st[g] = "open" /\ cut' = cut /\ conn[g][t].conn \in cut /\ t \in live[g]
      /\ live' = [live EXCEPT ![g] = @ \ {t}]
      /\ \/ live[g] # {t} /\ UNCHANGED <<st, cb>>
         \/ live[g] = {t}
    BY <1>0, DiesIs
<1>2. UNCHANGED <<backlog, hand, pc, evc, mgr, conn, udp, cslots, cnum>>
    BY DEF Dies, loopVars, tableVars, clientVars
<1>3. /\ live'[g] = live[g] \ {t} /\ \A h \in Chans : h # g => live'[h] = live[h]
    BY <1>1 DEF ChanTypes
<1>4. ~Healthy(t)
    BY <1>1 DEF Healthy
<1>5. PICK u \in Slots : Healthy(u)
    BY DEF Up
<1>6. live[g] # {t} /\ UNCHANGED <<st, cb>>
    BY <1>1, <1>4, <1>5 DEF Healthy
<1>7. \A s \in Slots : Healthy(s) => Healthy(s)'
    BY <1>1, <1>2, <1>3, <1>4 DEF Healthy
<1>8. ASSUME NEW s \in Slots PROVE Covered(s)'
    <2>1. Covered(s)
        BY DEF Up
    <2>2. Coming(cslots[s], s) => Coming(cslots[s], s)'
        BY <1>2 DEF Coming
    <2> QED
        BY <1>1, <1>2, <1>7, <2>1, <2>2 DEF Covered
<1>9. (\A h \in hand' : Sent(h)') /\ \A i \in 1..Len(backlog') : Sent(backlog[i])'
    BY <1>1, <1>2 DEF Up, Sent
<1>10. \A h \in Chans \ {mgr'} : Idle(h)'
    BY <1>1, <1>2, <1>3, <1>6 DEF Up, Idle
<1>11. \A s \in Slots : conn'[mgr'][s].conn = cslots'[s] \/ conn'[mgr'][s].conn \in cut'
    BY <1>1, <1>2 DEF Up
<1>12. \E s \in Slots : Healthy(s)'
    BY <1>5, <1>7
<1>13. pc \in {"accept", "lookup", "replace"} /\ (pc \in Working => evc = mgr)
    BY <1>1 DEF Up
<1> QED
    BY <1>1, <1>2, <1>6, <1>8, <1>9, <1>10, <1>11, <1>12, <1>13 DEF Up

\* A step while the channel is up: it stays up, or starts to end.
LEMMA UpStep ==
    ASSUME Base, SlotIds, Custody, Up, [Next]_vars, orderly'
    PROVE  Stage'
<1> USE DEF Base, Shape
<1>0. Stage /\ mgr \in Chans /\ mgr # 0 /\ cnum = NConn
    BY DEF Stage, Up, Chans
<1>1. ASSUME ClientConnects PROVE FALSE
    <2>1. cnum < NConn
        BY <1>1 DEF ClientConnects
    <2> QED
        BY <1>0, <2>1
<1>2. ~ClientRestarts
    BY <1>0 DEF ClientRestarts
<1>3. CASE Outage
    BY <1>3, UpOutage DEF Stage
<1>4. ASSUME NEW s \in Slots, ClientReplaces(s) \/ Cut(s) PROVE Up'
    BY <1>4, UpReplaced, UpCut
<1>5. ~AddRefused
    BY <1>0, NoRefusal
<1>6. ~TakeoverClose /\ ~TakeoverForget /\ ~Register /\ ~AddSocket /\ ~CreateVc
    BY DEF Up, TakeoverClose, TakeoverForget, Register, AddSocket, CreateVc
<1>7. CASE Accept \/ BindFails \/ Replace
    BY <1>7, UpAccept, UpBindFails, UpReplace DEF Stage
<1>8. CASE Lookup \/ UdpReady \/ UdpFails \/ OpenVc \/ UNCHANGED vars
    BY <1>8, UpLoop DEF Stage
<1>9. ASSUME NEW g \in Chans, NEW s \in Slots, Dies(g, s) PROVE Up'
    BY <1>9, UpDies
<1>10. ASSUME NEW g \in Chans, RemoveVc(g) \/ RemovePeer(g) \/ CloseUdp(g) \/ ClearSlots(g)
       PROVE  FALSE
    <2>1. cb[g] \in {"none", "done"}
        BY DEF Up, Idle
    <2> QED
        BY <1>10, <2>1 DEF RemoveVc, RemovePeer, CloseUdp, ClearSlots
<1> QED
    BY <1>1, <1>2, <1>3, <1>4, <1>5, <1>6, <1>7, <1>8, <1>9, <1>10
       DEF Next, Client, AcceptLoop, Channel, Stage

\* The client starts over when the old channel is forgotten: nothing of it is left.
LEMMA EndingRestarts ==
    ASSUME Base, Ending, ClientRestarts, orderly'
    PROVE  Gathering'
<1> USE DEF Base, Shape
<1>1. /\ mgr = 0 /\ ServerQuiet /\ cut' = cut \cup {cslots[s] : s \in 1..cnum}
      /\ cslots' = [s \in Slots |-> 0] /\ cnum' = 0
      /\ UNCHANGED <<desc, backlog, pc, hand, peer, mgr, s2c, st, live, udp, cb, used>>
    BY DEF ClientRestarts, loopVars, tableVars, chanVars
<1>2. /\ pc = "accept" /\ hand = {} /\ backlog = <<>> /\ cnum = NConn
      /\ \A s \in Slots : cslots[s] \in cut
    BY DEF Ending
<1>3. PICK g \in Chans :
          /\ \A h \in Chans \ {g} : Idle(h)
          /\ \/ mgr = g
             \/ /\ mgr = 0 /\ st[g] = "down" /\ live[g] = {}
                /\ \/ cb[g] = "removePeer"
                   \/ cb[g] \in {"closeUdp", "clearSlots", "done"} /\ peer = {}
    BY DEF Ending
<1>4. g # 0 /\ cb[g] \in {"none", "done"}
    BY <1>1 DEF ServerQuiet, Chans
<1>5. st[g] = "down" /\ live[g] = {} /\ cb[g] = "done" /\ peer = {}
    BY <1>1, <1>3, <1>4
<1>6. \A h \in Chans : Idle(h)
    BY <1>3, <1>5 DEF Idle
<1>7. \A h \in Chans : Idle(h)'
    BY <1>1, <1>6 DEF Idle
<1>8. cut' = cut /\ 0 \notin cut
    <2>1. \A s \in 1..cnum : cslots[s] \in cut
        BY <1>2 DEF Slots
    <2>2. 0 \notin cut
        BY DEF Scalars, Conns
    <2> QED
        BY <1>1, <2>1, <2>2
<1>9. Gathered' = 0 /\ InHand' = 0 /\ Len(backlog') = 0
    BY <1>1, <1>2, <1>5 DEF Gathered, InHand
<1>10. NConn # 0 /\ NConn \in Nat
    OBVIOUS
<1>11. \A s \in Slots : cslots'[s] = 0 /\ ~(s <= 0)
    BY <1>1 DEF Slots
<1>12. /\ cnum' = Gathered' + InHand' + Len(backlog')
       /\ Gathered' = NConn <=> pc' = "create"
    BY <1>1, <1>2, <1>9, <1>10
<1>13. hand' = {} /\ peer' = {} /\ mgr' = 0 /\ pc' = "accept" /\ 1..Len(backlog') = {}
    BY <1>1, <1>2, <1>5, <1>9
<1> QED
    BY <1>1, <1>7, <1>8, <1>11, <1>12, <1>13 DEF Gathering

\* The channel's threads after an outage: the slots die one after the other, and
\* the callback does its steps.
LEMMA EndingChannel ==
    ASSUME Base, Ending, Custody, NEW g \in Chans, Channel(g)
    PROVE  Ending'
<1> USE DEF Base, Shape
<1> HIDE DEF CloseAll
<1>0. /\ pc = "accept" /\ hand = {} /\ backlog = <<>> /\ cnum = NConn
      /\ \A s \in Slots : cslots[s] \in cut
    BY DEF Ending
<1>1. PICK e \in Chans :
          /\ \A h \in Chans \ {e} : Idle(h)
          /\ \/ /\ mgr = e /\ st[e] = "open" /\ cb[e] = "none"
                /\ \A s \in live[e] : conn[e][s].conn \in cut
             \/ mgr = e /\ st[e] = "down" /\ live[e] = {} /\ cb[e] = "removeVc"
             \/ /\ mgr = 0 /\ st[e] = "down" /\ live[e] = {}
                /\ \/ cb[e] = "removePeer"
                   \/ cb[e] \in {"closeUdp", "clearSlots", "done"} /\ peer = {}
    BY DEF Ending
<1>2. g = e
    <2>1. ~Idle(g)
        BY DEF Channel, Idle, Dies, RemoveVc, RemovePeer, CloseUdp, ClearSlots
    <2> QED
        BY <1>1, <2>1
<1>3. UNCHANGED <<pc, hand, backlog, conn, udp, cslots, cnum>> /\ cut \subseteq cut'
    <2>1. UNCHANGED <<pc, hand, backlog, conn, udp, cslots, cnum>>
        BY DEF Channel, Dies, RemoveVc, RemovePeer, CloseUdp, ClearSlots, loopVars, chanVars,
               clientVars
    <2>2. cut \subseteq cut'
        BY CloseTypes DEF Channel, Dies, RemoveVc, RemovePeer, CloseUdp, ClearSlots, kernelVars
    <2> QED
        BY <2>1, <2>2
<1>4. /\ pc' = "accept" /\ hand' = {} /\ backlog' = <<>> /\ cnum' = NConn
      /\ \A s \in Slots : cslots'[s] \in cut'
    BY <1>0, <1>3
<1>5. ASSUME NEW s \in Slots, Dies(g, s) PROVE Ending'
    <2>1. Stage /\ UNCHANGED <<mgr, peer>>
        BY <1>5 DEF Stage, Dies, tableVars
    <2>2. /\ mgr = g /\ st[g] = "open" /\ cb[g] = "none"
          /\ live' = [live EXCEPT ![g] = @ \ {s}]
          /\ \/ live[g] # {s} /\ UNCHANGED <<st, cb>>
             \/ /\ live[g] = {s} /\ st' = [st EXCEPT ![g] = "down"]
                /\ cb' = [cb EXCEPT ![g] = "removeVc"]
        BY <1>5, <2>1, DiesIs
    <2>3. \A h \in Chans \ {g} : UNCHANGED <<live[h], st[h], cb[h], udp[h]>>
        BY <1>3, <2>2 DEF ChanTypes
    <2>4. \A h \in Chans \ {g} : Idle(h)'
        BY <1>1, <1>2, <2>3 DEF Idle
    <2>5. live'[g] = live[g] \ {s}
        BY <2>2 DEF ChanTypes
    <2>6. \/ st'[g] = "open" /\ cb'[g] = "none"
          \/ st'[g] = "down" /\ cb'[g] = "removeVc" /\ live'[g] = {}
        BY <2>2, <2>5 DEF ChanTypes
    <2>7. \A u \in live'[g] : conn'[g][u].conn \in cut'
        BY <1>1, <1>2, <1>3, <2>2, <2>5
    <2>8. mgr' = g
        BY <2>1, <2>2
    <2> QED
        BY <1>4, <2>4, <2>6, <2>7, <2>8 DEF Ending
<1>6. ASSUME RemoveVc(g) \/ RemovePeer(g) \/ CloseUdp(g) \/ ClearSlots(g)
      PROVE  Ending'
    <2>1. UNCHANGED <<live, st>>
        BY <1>6 DEF RemoveVc, RemovePeer, CloseUdp, ClearSlots, chanVars
    <2>2. \A h \in Chans \ {g} : cb'[h] = cb[h]
        BY <1>6 DEF RemoveVc, RemovePeer, CloseUdp, ClearSlots, ChanTypes
    <2>3. \A h \in Chans \ {g} : Idle(h)'
        BY <1>1, <1>2, <1>3, <2>1, <2>2 DEF Idle
    <2>4. st'[g] = "down" /\ live'[g] = {} /\ mgr' = 0
        BY <1>1, <1>2, <1>6, <2>1 DEF RemoveVc, RemovePeer, CloseUdp, ClearSlots, tableVars
    <2>5. \/ cb'[g] = "removePeer"
          \/ cb'[g] \in {"closeUdp", "clearSlots", "done"} /\ peer' = {}
        <3>1. CASE RemoveVc(g)
            BY <3>1 DEF RemoveVc, ChanTypes
        <3>2. CASE RemovePeer(g)
            BY <3>2 DEF RemovePeer, ChanTypes
        <3>3. CASE CloseUdp(g)
            BY <1>1, <1>2, <3>3 DEF CloseUdp, ChanTypes, tableVars
        <3>4. CASE ClearSlots(g)
            BY <1>1, <1>2, <3>4 DEF ClearSlots, ChanTypes
        <3> QED
            BY <1>6, <3>1, <3>2, <3>3, <3>4
    <2> QED
        BY <1>4, <2>3, <2>4, <2>5 DEF Ending
<1> QED
    BY <1>5, <1>6 DEF Channel

\* A step after an outage: the channel goes away, until the client starts over.
LEMMA EndingStep ==
    ASSUME Base, Custody, Ending, [Next]_vars, orderly'
    PROVE  Stage'
<1> USE DEF Base, Shape
<1>0. /\ pc = "accept" /\ hand = {} /\ backlog = <<>> /\ cnum = NConn
      /\ \A s \in Slots : cslots[s] \in cut
    BY DEF Ending
<1>1. ASSUME ClientConnects PROVE FALSE
    <2>1. cnum < NConn
        BY <1>1 DEF ClientConnects
    <2> QED
        BY <1>0, <2>1
<1>2. ~Outage /\ \A s \in Slots : ~ClientReplaces(s) /\ ~Cut(s)
    BY <1>0 DEF Outage, ClientReplaces, Cut
<1>3. CASE ClientRestarts
    BY <1>3, EndingRestarts DEF Stage
<1>4. ~AcceptLoop
    BY <1>0 DEF AcceptLoop, Accept, BindFails, Lookup, TakeoverClose, TakeoverForget, Replace,
                Register, AddRefused, AddSocket, CreateVc, UdpReady, UdpFails, OpenVc
<1>5. ASSUME NEW g \in Chans, Channel(g) PROVE Stage'
    BY <1>5, EndingChannel DEF Stage
<1>6. CASE UNCHANGED vars
    <2>1. UNCHANGED <<cut, pc, backlog, hand, peer, mgr, st, conn, live, udp, cb, cslots, cnum>>
        BY <1>6 DEF vars, kernelVars, loopVars, tableVars, chanVars, clientVars
    <2>2. \A g \in Chans : Idle(g)' = Idle(g)
        BY <2>1 DEF Idle
    <2>3. Ending'
        BY <2>1, <2>2 DEF Ending
    <2> QED
        BY <2>3 DEF Stage
<1> QED
    BY <1>1, <1>2, <1>3, <1>4, <1>5, <1>6 DEF Next, Client

------------------------------------------------------------------------------
(***************************************************************************)
(* The invariant, and what follows from it.                                *)
(***************************************************************************)
\* In the initial state the client gathers its first connections.
LEMMA InvInit == ASSUME Init PROVE IInv
<1>1. Base
    BY BaseInit
<1>2. /\ desc = [f \in Fds |-> 0] /\ cut = {} /\ stray = FALSE /\ backlog = <<>>
      /\ pc = "accept" /\ hand = {} /\ peer = {} /\ mgr = 0 /\ s2c = <<>> /\ slotMap = <<>>
      /\ st = [g \in Chans |-> "none"] /\ live = [g \in Chans |-> {}]
      /\ udp = [g \in Chans |-> 0] /\ cb = [g \in Chans |-> "none"]
      /\ cslots = [s \in Slots |-> 0] /\ cnum = 0
    BY DEF Init
<1>3. Len(backlog) = 0 /\ 1..Len(backlog) = {} /\ Gathered = 0 /\ InHand = 0
    BY <1>2 DEF Gathered, InHand
<1>4. \A g \in Chans : Idle(g)
    BY <1>2 DEF Idle
<1>5. \A s \in Slots : ~(s <= cnum)
    BY <1>2 DEF Slots
<1>6. cnum = Gathered + InHand + Len(backlog) /\ (Gathered = NConn <=> pc = "create")
    BY <1>2, <1>3
<1>7. Gathering
    BY <1>2, <1>3, <1>4, <1>5, <1>6 DEF Gathering
<1>8. DOMAIN slotMap = {}
    BY <1>2
<1>9. SlotIds
    BY <1>2, <1>3, <1>8 DEF SlotIds
<1>10. Custody
    BY <1>2 DEF Custody
<1>11. UdpCustody
    <2>1. \A f \in Fds, g \in Chans : desc[f] # Udp(g)
        BY <1>2 DEF Udp, Chans
    <2> HIDE DEF Udp
    <2> QED
        BY <1>2, <2>1 DEF UdpCustody
<1> QED
    BY <1>1, <1>2, <1>7, <1>9, <1>10, <1>11 DEF IInv, Orderly, Stage

\* Every step keeps it.
LEMMA InvNext == ASSUME IInv, [Next]_vars PROVE IInv'
<1>1. Base /\ Base'
    BY BaseKept DEF IInv
<1>2. ASSUME orderly' PROVE Orderly'
    <2>1. ~stray /\ Stage /\ SlotIds /\ Custody /\ UdpCustody
        <3>1. orderly
            BY <1>1, <1>2, OrderlyBefore
        <3> QED
            BY <3>1 DEF IInv, Orderly
    <2>2. UdpCustody' /\ stray' = stray
        BY <1>1, <2>1, UdpCustodyKept
    <2>3. SlotIds' /\ Custody'
        BY <1>1, <2>1, SlotIdsKept, CustodyKept
    <2>4. Stage'
        BY <1>1, <1>2, <2>1, GatheringStep, UpStep, EndingStep DEF Stage
    <2> QED
        BY <2>1, <2>2, <2>3, <2>4 DEF Orderly
<1> QED
    BY <1>1, <1>2 DEF IInv

\* In every history the connections are numbered, accepted and wired as Base says;
\* in an orderly one the server is gathering, up or ending, and every descriptor is
\* kept by the one it belongs to.
THEOREM ServerInvariant == Spec => []IInv
<1>1. Init => IInv
    BY InvInit
<1>2. IInv /\ [Next]_vars => IInv'
    BY InvNext
<1> QED
    BY <1>1, <1>2, PTL DEF Spec

\* In every history, orderly or not, the server's tables keep their types: a peer
\* never has more than NConn sockets (AddSocket), a channel has exactly NConn
\* connections, and clientConnSlots names slots that exist.
THEOREM ServerTypes == Spec => []TypeOK
<1>1. IInv => TypeOK
    <2> SUFFICES ASSUME IInv PROVE TypeOK
        OBVIOUS
    <2> USE DEF IInv, Base, Shape
    <2>1. /\ desc \in [Fds -> 0..(MaxConns + MaxVcs)] /\ cut \subseteq Conns
          /\ evc \in 0..MaxVcs /\ mgr \in 0..MaxVcs /\ pc \in LoopPcs
          /\ cslots \in [Slots -> 0..MaxConns] /\ cid \in [Slots -> 0..MaxConns]
          /\ cnum \in 0..NConn /\ used \in 0..MaxConns
          /\ stray \in BOOLEAN /\ orderly \in BOOLEAN
        BY DEF Scalars
    <2>2. /\ backlog \in Seq(Binds) /\ \A h \in hand : h \in Holds
          /\ \A p \in peer : p \in Seq(Entries) /\ Len(p) <= NConn
          /\ DOMAIN s2c \subseteq Fds /\ \A n \in DOMAIN slotMap : slotMap[n] \in Slots
        BY DEF Pieces
    <2>3. /\ \A g \in Chans : /\ st[g] \in States
                              /\ st[g] # "none" => conn[g] \in [Slots -> Entries]
                              /\ live[g] \subseteq Slots /\ udp[g] \in 0..NFd
          /\ cb \in [Chans -> CbPcs]
        BY DEF ChanTypes
    <2> QED
        BY <2>1, <2>2, <2>3 DEF TypeOK, LoopPcs, Holds, States, CbPcs
<1> QED
    BY <1>1, ServerInvariant, PTL

\* In an orderly history no SocketClose of the server hits a descriptor that was
\* closed before or was given out again: whoever keeps one owns it (Custody).
THEOREM ClosesOwnOnly == Spec => []ClosesOwn
<1>1. IInv => ClosesOwn
    BY DEF IInv, Orderly, ClosesOwn
<1> QED
    BY <1>1, ServerInvariant, PTL

\* In an orderly history, once the backlog is worked off, a connection the client
\* holds in slot s is in slot s of the server's channel: the id it sends still
\* stands for that slot, however far the server's map lags behind (SlotIds), and
\* each connection is agreed on, under way or cut (Covered).
THEOREM SlotsStayAgreed == Spec => []SlotsAgree
<1>1. IInv => SlotsAgree
    <2> SUFFICES ASSUME IInv, orderly, pc = "accept", backlog = <<>>, cnum = NConn,
                        NEW s \in Slots, mgr \in Chans, cslots[s] \notin cut
                 PROVE  conn[mgr][s].conn = cslots[s]
        BY DEF SlotsAgree
    <2>1. Up
        <3>1. mgr # 0
            BY DEF Chans
        <3> QED
            BY <3>1 DEF IInv, Orderly, Stage, Gathering, Ending
    <2>2. hand = {}
        BY DEF IInv, Base, Shape, Pieces, Holding
    <2>3. ~Coming(cslots[s], s)
        BY <2>2 DEF Coming
    <2> QED
        BY <2>1, <2>3 DEF Up, Covered, Healthy
<1> QED
    BY <1>1, ServerInvariant, PTL

\* In an orderly history, when a channel is gone and its callback done, its UDP
\* socket is closed and none of its slots is connected.
THEOREM NothingRemains == Spec => []NothingLeft
<1>1. IInv => NothingLeft
    <2> SUFFICES ASSUME IInv, NEW g \in Chans, orderly, cb[g] = "done"
                 PROVE  (\A f \in Fds : desc[f] # Udp(g)) /\ live[g] = {}
        BY DEF NothingLeft
    <2> HIDE DEF Udp
    <2>1. \A f \in Fds : desc[f] # Udp(g)
        BY DEF IInv, Orderly, UdpCustody
    <2>2. live[g] = {}
        BY DEF IInv, Orderly, Stage, Gathering, Up, Ending, Idle
    <2> QED
        BY <2>1, <2>2
<1> QED
    BY <1>1, ServerInvariant, PTL
==============================================================================
