---------------------------- MODULE ResendProtocol ----------------------------
(***************************************************************************)
(* The repair of lost packets between the two ends of a virtual channel,   *)
(* for one direction of the data.                                          *)
(*                                                                         *)
(* The sending end numbers its packets (send), keeps a copy of the latest  *)
(* ones (SentDataCache) and answers a MISSING_NOTIFY on its IO thread      *)
(* (processMissingNotify).  The receiving end buffers what arrives out of  *)
(* order, reports what is missing and gives up after the reorder timeout.  *)
(* One iteration of reorderThreadFunc is one step here; ReorderThread has  *)
(* its steps one by one.                                                   *)
(*                                                                         *)
(* The connections in between keep no order (there are many) and lose what *)
(* is under way when one of them dies or a receive queue is full.  Payload *)
(* is left out: a packet is its message id and the number of the copy.     *)
(* Ages stand for time stamps and saturate where the code compares them.   *)
(* Nothing in the repository sends a RESEND_REQUEST, so                    *)
(* processResendRequest is never called and is left out, and so is         *)
(* markDegraded, which only the network score reads.                       *)
(***************************************************************************)
EXTENDS Naturals, Sequences, FiniteSets, Functions

CONSTANTS MaxId,           \* bound: ids 0..MaxId are sent
          NShards,         \* shards of SentDataCache (connections.size())
          ShardCap,        \* capacityPerConn
          ReorderTimeout,  \* reorderTimeoutMs, in ticks
          NotifyInterval,  \* missingNotifyIntervalMs, in ticks
          ResendTtl,       \* pendingResendTtl, in ticks
          MaxMissing,      \* VC_MAX_MISSING_IDS_PER_NOTIFY
          NotifiedCap,     \* the 1000 of sendMissingNotifications
          MaxNotes,        \* bound: notifications sent
          MaxLosses        \* bound: packets lost on the way

ASSUME ResendConstants ==
    /\ MaxId \in Nat
    /\ NShards \in Nat \ {0} /\ ShardCap \in Nat \ {0}
    /\ ReorderTimeout \in Nat \ {0} /\ NotifyInterval \in Nat
    /\ ResendTtl \in Nat \ {0}
    /\ MaxMissing \in Nat \ {0} /\ NotifiedCap \in Nat
    /\ MaxNotes \in Nat /\ MaxLosses \in Nat

Ids == 0..MaxId
Shards == 0..(NShards - 1)

VARIABLES
    lastId,      \* lastSendMessageId
    cache,       \* SentDataCache: insertionOrder of each shard
    pending,     \* pendingResendIds: the age of each entry
    handling,    \* ids of the notification processMissingNotify works on
    nowAge,      \* the age of its local now
    data,        \* DATA packets under way: <<id, copy>>, copy 0 is the original
    notes,       \* MISSING_NOTIFY packets under way: [no, ids]
    buffered,    \* receivedDataMap (its keys)
    next,        \* nextMessageId
    gapActive,   \* gapTimerActive
    gapAge,      \* time since gapFirstSeen
    notified,    \* notifiedMissingIds
    awake,       \* the reorder thread's next iteration needs no wake-up
    copies,      \* history: how often each id was put on the wire
    asks,        \* history: notifications handled that list the id
    asked,       \* history: ids the receiver reported missing
    faulted,     \* history: ids whose repair met a fault (see Fault)
    skipped,     \* history: ids the receiver gave up
    forgotten,   \* history: ids in notifiedMissingIds when it was emptied
    noteCount, losses   \* notifications sent and packets lost so far

sendVars == <<lastId, cache, copies>>
replyVars == <<pending, handling, nowAge, asks>>
recvVars == <<buffered, next, gapActive, gapAge, notified, awake,
              asked, skipped, forgotten, noteCount>>
netVars == <<data, notes, losses, faulted>>
vars == <<sendVars, replyVars, recvVars, netVars>>

Init ==
    /\ lastId = 0 /\ cache = [s \in Shards |-> <<>>] /\ copies = [i \in Ids |-> 0]
    /\ pending = <<>> /\ handling = <<>> /\ nowAge = 0 /\ asks = [i \in Ids |-> 0]
    /\ buffered = {} /\ next = 0 /\ gapActive = FALSE /\ gapAge = 0
    /\ notified = {} /\ awake = FALSE
    /\ asked = {} /\ skipped = {} /\ forgotten = {} /\ noteCount = 0
    /\ data = {} /\ notes = {} /\ losses = 0 /\ faulted = {}
------------------------------------------------------------------------------
(***************************************************************************)
(* The sending end.                                                        *)
(***************************************************************************)
\* Mutant: the oldest entry goes as soon as the shard is full.
InsertEvictsEarly(id) ==
    LET order == Append(cache[id % NShards], id) IN
    cache' = [cache EXCEPT ![id % NShards] =
                 IF Len(order) >= ShardCap THEN Tail(order) ELSE order]

\* SentDataCache::insert: the shard of the id drops its oldest entry when full.
Insert(id) ==
    LET order == Append(cache[id % NShards], id) IN
    cache' = [cache EXCEPT ![id % NShards] =
                 IF Len(order) > ShardCap THEN Tail(order) ELSE order]

\* SentDataCache::find
Cached(id) == id \in Range(cache[id % NShards])

\* send(): the packet gets its id, is cached and put on sendQueue.
Send ==
    /\ lastId \in Ids
    /\ lastId' = lastId + 1
    /\ Insert(lastId)
    /\ data' = data \cup {<<lastId, 0>>}
    /\ copies' = [copies EXCEPT ![lastId] = 1]
    /\ UNCHANGED <<replyVars, recvVars, notes, losses, faulted>>

\* processMissingNotify: entries that the notification does not list, or that
\* have expired, leave pendingResendIds.
NotifyArrives(m) ==
    /\ handling = <<>>
    /\ notes' = notes \ {m}
    /\ handling' = m.ids
    /\ nowAge' = 0
    /\ pending' = [i \in {i \in DOMAIN pending :
                              i \in Range(m.ids) /\ pending[i] < ResendTtl}
                      |-> pending[i]]
    /\ asks' = [i \in Ids |-> IF i \in Range(m.ids) THEN asks[i] + 1 ELSE asks[i]]
    /\ UNCHANGED <<sendVars, recvVars, data, losses, faulted>>

SetPending(id, age) ==
    pending' = [i \in DOMAIN pending \cup {id} |-> IF i = id THEN age ELSE pending[i]]

\* The loop over the listed ids: one that was enqueued recently is skipped.
ResendSkipped ==
    /\ handling # <<>>
    /\ Head(handling) \in DOMAIN pending
    /\ handling' = Tail(handling)
    /\ UNCHANGED <<sendVars, recvVars, netVars, pending, nowAge, asks>>

\* Mutant: the resend is not remembered.
ResendForgotten ==
    LET id == Head(handling) IN
    /\ handling # <<>>
    /\ id \notin DOMAIN pending /\ Cached(id)
    /\ handling' = Tail(handling)
    /\ data' = data \cup {<<id, copies[id]>>}
    /\ copies' = [copies EXCEPT ![id] = @ + 1]
    /\ UNCHANGED <<lastId, cache, recvVars, notes, losses, faulted, pending, nowAge, asks>>

\* A cached id goes on resendQueue (resendCallback) and is pending from now on.
Resend ==
    LET id == Head(handling) IN
    /\ handling # <<>>
    /\ id \notin DOMAIN pending /\ Cached(id)
    /\ handling' = Tail(handling)
    /\ data' = data \cup {<<id, copies[id]>>}
    /\ copies' = [copies EXCEPT ![id] = @ + 1]
    /\ SetPending(id, nowAge)
    /\ UNCHANGED <<lastId, cache, recvVars, notes, losses, faulted, nowAge, asks>>

\* The packet was evicted: nothing to resend.
ResendMiss ==
    /\ handling # <<>>
    /\ Head(handling) \notin DOMAIN pending /\ ~Cached(Head(handling))
    /\ handling' = Tail(handling)
    /\ faulted' = faulted \cup {Head(handling)}
    /\ UNCHANGED <<sendVars, recvVars, data, notes, losses, pending, nowAge, asks>>
------------------------------------------------------------------------------
(***************************************************************************)
(* The receiving end.                                                      *)
(***************************************************************************)
\* drainReceivedDataMap: where nextMessageId stops, starting from n.
DrainedTo(n, b) ==
    CHOOSE m \in n..(n + Cardinality(b)) : m \notin b /\ n..(m - 1) \subseteq b

(***************************************************************************)
(* sendMissingNotifications.  For each buffered id k, in ascending order,  *)
(* the code pushes every id from nextMessageId (n) up to k - 1 that was    *)
(* not notified, and stops after MaxMissing pushes.  A push is a pair      *)
(* <<k, id>>; one id may be pushed for several k.                          *)
(***************************************************************************)
PushesFrom(n, b, known) == UNION {{k} \X {id \in n..(k - 1) : id \notin known} : k \in b}

PushedBefore(q, p) == q[1] < p[1] \/ (q[1] = p[1] /\ q[2] < p[2])

\* The push of P with j pushes before it.
PushAt(P, j) == CHOOSE p \in P : Cardinality({q \in P : PushedBefore(q, p)}) = j

PushedIds(P) ==
    [j \in 1..(IF Cardinality(P) > MaxMissing THEN MaxMissing ELSE Cardinality(P))
        |-> PushAt(P, j - 1)[2]]

\* Mutant: the scan starts below nextMessageId.
MissingOneEarly(n, b, known) == PushedIds(PushesFrom(n - 1, b, known))

\* The ids it collects.
Missing(n, b, known) == PushedIds(PushesFrom(n, b, known))

\* The reorder timeout skips to the first buffered id.
SkipTarget(b) == CHOOSE first \in b : \A k \in b : first <= k

\* Mutant: the last id is not written into the packet.
ReportOneShort(ids, known) ==
    /\ noteCount < MaxNotes
    /\ IF Cardinality(known) > NotifiedCap
         THEN notified' = Range(ids) /\ forgotten' = forgotten \cup known
         ELSE notified' = Range(ids) \cup known /\ UNCHANGED forgotten
    /\ asked' = asked \cup Range(ids)
    /\ noteCount' = noteCount + 1
    /\ notes' = notes \cup {[no |-> noteCount, ids |-> SubSeq(ids, 1, Len(ids) - 1)]}

\* missingNotifyCallback puts one MISSING_NOTIFY on the sendQueue of this end.
Report(ids, known) ==
    /\ noteCount < MaxNotes
    /\ IF Cardinality(known) > NotifiedCap
         THEN notified' = Range(ids) /\ forgotten' = forgotten \cup known
         ELSE notified' = Range(ids) \cup known /\ UNCHANGED forgotten
    /\ asked' = asked \cup Range(ids)
    /\ noteCount' = noteCount + 1
    /\ notes' = notes \cup {[no |-> noteCount, ids |-> ids]}

\* One iteration of reorderThreadFunc after the queues gave it the ids in new.
\* What was notified and delivered leaves notifiedMissingIds.
Iterate(new) ==
    LET got == {id \in new : id >= next}
        all == buffered \cup got
        to == DrainedTo(next, all)
        left == {k \in all : k > to}
        expired == left # {} /\ gapActive /\ gapAge >= ReorderTimeout
        jump == SkipTarget(left)
        to2 == DrainedTo(jump, left)
        age == IF gapActive THEN gapAge ELSE 0
        known == notified \ (next..(to - 1))
        missing == Missing(to, left, known)
        report == left # {} /\ ~expired /\ age >= NotifyInterval /\ missing # <<>>
    IN  /\ awake' = (got # {})
        /\ gapActive' = (left # {} /\ ~expired)
        /\ gapAge' = IF left # {} /\ ~expired THEN age ELSE 0
        /\ next' = IF expired THEN to2 ELSE to
        /\ buffered' = IF expired THEN {k \in left : k > to2} ELSE left
        /\ skipped' = IF expired THEN skipped \cup (to..(jump - 1)) ELSE skipped
        /\ IF report
             THEN Report(missing, known)
             ELSE /\ notified' = IF expired THEN {} ELSE known
                  /\ forgotten' = IF expired THEN forgotten \cup known ELSE forgotten
                  /\ UNCHANGED <<asked, noteCount, notes>>

\* Packets reach their receive queues and the reorder thread takes them.
Receive(packets) ==
    /\ data' = data \ packets
    /\ Iterate({p[1] : p \in packets})
    /\ UNCHANGED <<sendVars, replyVars, losses, faulted>>

\* The iteration that follows one that found something, and the one after the
\* deadline of the wait.
IterateIdle ==
    /\ awake \/ (gapActive /\ gapAge >= ReorderTimeout)
    /\ Iterate({})
    /\ UNCHANGED <<sendVars, replyVars, data, losses, faulted>>
------------------------------------------------------------------------------
(***************************************************************************)
(* Faults.  faulted collects the ids whose repair failed for a reason      *)
(* outside the protocol: the notification or the copy sent in reply was    *)
(* lost or was under way for more than a tick, or the packet was no longer *)
(* cached.  The loss of an original is what the protocol repairs.          *)
(***************************************************************************)
Fault(packets, messages) ==
    {p[1] : p \in {q \in packets : q[2] > 0}} \cup UNION {Range(m.ids) : m \in messages}

\* A connection dies with the packet under way, or the receive queue is full.
LoseData(p) ==
    /\ losses < MaxLosses
    /\ losses' = losses + 1
    /\ data' = data \ {p}
    /\ faulted' = faulted \cup Fault({p}, {})
    /\ UNCHANGED <<sendVars, replyVars, recvVars, notes>>

LoseNote(m) ==
    /\ losses < MaxLosses
    /\ losses' = losses + 1
    /\ notes' = notes \ {m}
    /\ faulted' = faulted \cup Fault({}, {m})
    /\ UNCHANGED <<sendVars, replyVars, recvVars, data>>

Older(age, limit) == IF age < limit THEN age + 1 ELSE age

\* steady_clock advances at both ends.
Tick ==
    /\ gapActive \/ DOMAIN pending # {} \/ handling # <<>>
    /\ gapAge' = IF gapActive THEN Older(gapAge, ReorderTimeout) ELSE gapAge
    /\ pending' = [i \in DOMAIN pending |-> Older(pending[i], ResendTtl)]
    /\ nowAge' = IF handling # <<>> THEN Older(nowAge, ResendTtl) ELSE nowAge
    /\ faulted' = faulted \cup Fault(data, notes) \cup Range(handling)
    /\ UNCHANGED <<sendVars, handling, asks, buffered, next, gapActive, notified, awake,
                   asked, skipped, forgotten, noteCount, data, notes, losses>>
------------------------------------------------------------------------------
Sender == Send \/ (\E m \in notes : NotifyArrives(m))
          \/ ResendSkipped \/ Resend \/ ResendMiss

Receiver == (\E packets \in SUBSET data \ {{}} : Receive(packets)) \/ IterateIdle

Network == (\E p \in data : LoseData(p)) \/ (\E m \in notes : LoseNote(m))

Next == Sender \/ Receiver \/ Network \/ Tick

Spec == Init /\ [][Next]_vars
------------------------------------------------------------------------------
\* The variables have their types.
TypeOK ==
    /\ lastId \in 0..(MaxId + 1) /\ cache \in [Shards -> Seq(Ids)]
    /\ DOMAIN pending \subseteq Ids /\ \A i \in DOMAIN pending : pending[i] \in 0..ResendTtl
    /\ handling \in Seq(Ids) /\ nowAge \in 0..ResendTtl
    /\ data \subseteq Ids \X Nat
    /\ \A m \in notes : m.no \in Nat /\ m.ids \in Seq(Ids)
    /\ buffered \subseteq Ids /\ next \in Nat /\ notified \subseteq Ids
    /\ gapAge \in 0..ReorderTimeout
    /\ {gapActive, awake} \subseteq BOOLEAN
    /\ copies \in [Ids -> Nat] /\ asks \in [Ids -> Nat]
    /\ asked \subseteq Ids /\ forgotten \subseteq Ids /\ faulted \subseteq Ids /\ skipped \subseteq Ids
    /\ noteCount \in 0..MaxNotes /\ losses \in 0..MaxLosses

\* SentDataCache holds each of the last NShards * ShardCap packets, however the
\* ids spread over the shards (id % shards): a report of one that is not older
\* can be answered.
CacheWindow ==
    \A id \in Ids : (id < lastId /\ lastId <= id + NShards * ShardCap) => Cached(id)

\* Resends are bounded.  sendMissingNotifications lists an id once for every
\* buffered id above it, and pendingResendIds makes one resend of the copies
\* (processMissingNotify).  An id is reported once, unless notifiedMissingIds
\* was emptied, by its cap or by a skip, while the id was in it.
ResendBounded ==
    \A id \in Ids : copies[id] <= 1 + asks[id] /\ (asks[id] > 1 => id \in forgotten)

\* The repair works: an id the receiver reported and then gave up at the reorder
\* timeout met a fault (the report or the reply was lost or late, or the packet
\* was evicted).  Neither the suppression by pendingResendIds nor the cap on the
\* ids of one notification loses a message.
RepairWorks == skipped \cap asked \subseteq faulted
==============================================================================
