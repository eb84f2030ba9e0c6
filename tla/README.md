# A TLA+ model of the tcpudp tunnel

tcpudp carries UDP datagrams (a VPN) between a client and a server over a
*virtual channel*: 32 TCP connections (`VC_TCP_CONNECTIONS`) that together behave
as one stream of numbered packets. Packets take whichever connection looks best,
arrive out of order, and are put in order again; single connections are replaced
while the channel lives; the whole channel is rebuilt when all of them fail.

Everything here is translated from the C++ under `src/src/`; paths below are
relative to that directory. `PROJECT.json` maps each definition to its lines.

## 1. The system

| Component | State it keeps | Operations | Hard because |
|---|---|---|---|
| Receive path, `common/TcpVirtualChannel.cpp` | one queue per connection, `receivedDataMap`, `nextMessageId`, gap timer, `notifiedMissingIds` | `processReceivedData`, `reorderThreadFunc`, `drainReceivedDataMap`, `sendMissingNotifications` | packets late, twice, out of order; a sequence number and a condition variable instead of a lock; a timer racing arrivals |
| `common/SpscQueue.h` | a ring and two positions | `try_enqueue`, `try_dequeue` | no lock: each side sees the other's position late |
| Work queues, `common/BlockingQueue.cpp` and the waits of `TcpVCSendThread` | two queues, two approximate sizes, flags, a retained packet | `enqueue`, `tryDequeue`, `cancelWait`, notifier, `setRunning`, idle wait, wait for a connection | predicates read what others change outside the mutex; a notification can be lost |
| Send thread, `common/TcpVCSendThread.cpp` | snapshot of the slots, retained packet, resend tracker | `run`, `sendOnResendConn`, `rateConnection`, `replaceConnection` | partial writes, connections that die or are replaced under way |
| IO thread, `common/TcpVCIoThread.cpp` | read buffer per slot, snapshot of connections | `run`, `readFromConnection`, the parser | reused descriptors, malformed input |
| Resend protocol, `common/TcpVirtualChannel.cpp` of both ends | `SentDataCache`, `pendingResendIds`, `notifiedMissingIds` | `send`, `processMissingNotify`, `sendMissingNotifications` | reports and resends repeated, lost or too late; a cache that forgets |
| Life cycle of a channel | `opened`, `connections`, the threads | `open`, `close`, `disconnectCB`, `replaceConnection` | close, the last disconnect and open race |
| Client, `client/Client.cpp` | `vc`, `tcpSockets`, watchdog thread and flag, epoch | `Start`, `Stop`, `PrepareVC`, `TeardownVc`, `ReconnectVC`, `ReconnectSingleSlot` | three kinds of threads build, repair and tear down one channel |
| Server, `server/Server.cpp`, `Peer.cpp`, `VcManager.cpp`, `ReplaceSlotPolicy.h` | peers, channels, id maps | accept loop, disconnect callback | descriptors kept as numbers, ids that lag one step, takeover after an outage |
| Network score, socket layer, configuration, log, legacy protocol | | | see section 9 |

How they interact: the IO thread calls `processReceivedData` for every DATA packet
and enqueues resends for every MISSING_NOTIFY; the reorder thread calls the receive
callback (which writes the datagram to UDP) and enqueues MISSING_NOTIFY packets; the
send thread takes from both queues. IO and send thread report a dead connection to
`disconnectCB`; after the last one it stops the threads and calls the disconnect
callback of the client (which spawns a reconnecting thread) or of the server (which
forgets the channel). The client's watchdog and the server's accept loop replace
single slots with `replaceConnection`.

What makes each part correct:

- receive path: the callback sees ids in ascending order, each once; only missing ids
  are given up; a gap ends by itself; `close()` returns;
- ring: a FIFO, no slot used by both threads;
- work queues: no lost wake-up, no starvation of data by resends, shutdown ends;
- send thread: no stream is continued after a packet that was cut off; accepted
  packets are handled in order and none is lost;
- resend protocol: recent packets can be resent, a resend is not repeated without a new
  report, and what was reported is given up only for a reason outside the protocol;
- IO thread and life cycle: streams are parsed whole and in order while slots change, the
  death of the last connection is noticed and reported once, `close()` returns;
- client: one watchdog at a time, sockets of two attempts never mixed and each closed exactly
  once, replacements go to the channel they were made for, whoever stops the watchdog gets on;
- server: both ends agree on the slots, no foreign descriptor is closed, nothing is left
  behind.

`PROJECT.json` lists the hazards behind these, each at its line.

## 2. Modules

| Module | Models | Composes with |
|---|---|---|
| `OrderedStream` | abstract: what the user of a channel's receiving side is promised | |
| `ReorderThread` | the receive path with IO thread, reorder thread, clock, `close()` | refines `OrderedStream` |
| `BoundedFifo` | abstract: a bounded queue | |
| `SpscQueue` | the ring, one atomic access per step | refines `BoundedFifo`; `ReorderThread` uses such a FIFO |
| `WorkQueue` | both `BlockingQueue`s, their users, the two waits of the send thread, shutdown | feeds `SendThread` |
| `SendThread` | what becomes of each packet, slots, writes, replacement | |
| `ResendProtocol` | both ends of MISSING_NOTIFY and resend, over connections that lose and reorder | an iteration of `ReorderThread` is one step of its receiver; `SendThread` delivers its packets |
| `VcLifecycle` | IO thread, read buffers, `open`, `disconnectCB`, `replaceConnection`, `close` | stands around `ReorderThread` and `SendThread` |
| `ClientSession` | main, reconnect threads, watchdog | |
| `ServerSession` | accept loop, disconnect callbacks, the kernel's descriptors, and the client as environment | |
| `ReorderProofs`, `SpscProofs`, `WorkProofs`, `SendProofs`, `ResendProofs`, `LifecycleProofs`, `ClientProofs`, `ServerProofs` | the theorems | |
| `ReorderClaims` | what a comment says of `close()` and the receive path does not keep | |
| `MC*` | the instances for TLC | |

### ReorderThread
`rpc` is the reorder thread's position in `reorderThreadFunc`: `top`, `scan` (one
queue per step), `load` (`lastProcessedSeq`), `drain`, `gap` (timer started, kept,
or expired: skip and `redrain`), `notify`, `deliver`, then the wait: `idle` chooses
`wait` or `wait_for`, `pred` evaluates the predicate under the mutex, `block` is the
window before the thread sleeps, `asleep`. `ioPc` splits `processReceivedData` into
push, count and notify. `closePc` follows `close()`. The clock is the age of the gap
timer, saturated at the timeout, because nothing distinguishes larger ages; ids are
numbers, payloads are left out. A notification reaches the thread only when it is
asleep, and the condition variable may wake it spuriously.

The queue of a connection is a sequence here and `try_enqueue` one step. A stale view
of the other position can make the ring look full and drop a packet, which the network
can do as well; `SpscQueue` covers the staleness itself.

### SpscQueue
`readSeen` and `writeSeen` are what each side has seen of the other's position; an
acquire load returns anything from there up to the present value. The array access is
a step of its own, so a conflict on a slot is a state, not an assumption.

### WorkQueue
A queue is its length: which packet is taken does not matter for waking up. `enqueue`
is push (under the mutex), count, notify; the send thread counts down when it takes,
possibly before the packet was counted: `approxQueueSize` then wraps modulo
`SizeMod` (2^64 in the code). The idle wait reads the counters in `idle`, has the
window `blocking`, then `asleep`. A packet that no data connection takes (`NotSent`) is retained
in `pending`; while it is, `sendQueue` is not touched, and the thread waits on
`connAvailableCv`: predicate `connIdle`, window `connBlocking`, `connAsleep`, 50 ms.
`replaceConnection` writes the slot under the mutex of that wait before it notifies;
`setRunning` does not take it, so its notification may fall into the window and be lost
(`StopNotifies`). It then takes the mutex of the idle wait (`Wake`). Of the connections only
`dataAlive` is kept, whether some data connection is connected.

### SendThread
Connection objects are pairs of a slot and a generation. `stream` says whether what an
object carried ends with a whole packet (`whole`), in the middle of one (`partial`), or
continues after an unfinished one (`corrupt`). A write takes all, part or nothing of a packet or
fails: the kernel's choice. Scores only order the candidates, so the order is
nondeterministic. `Pipeline` is what was handled, the packet in hand or retained, and
the queue.

### ResendProtocol
One direction of the data. The sender has `lastId`, the shards of `SentDataCache` (only
the order of insertion: the map of a shard has the same keys), and
`pendingResendIds` with the age of each entry. `processMissingNotify` is a step that purges the
pending ids (`NotifyArrives`) and a step for each listed id (`ResendSkipped`, `Resend`,
`ResendMiss`), so packets, losses and time fall in between; its local `now` ages meanwhile
(`nowAge`). The receiver's state is that of `ReorderThread` without the queues, and a pass of
`reorderThreadFunc` is one step (`Iterate`): drain, timer, skip or report. It runs when packets come
(`Receive`), once more after a pass that found something, and at the deadline of the wait
(`IterateIdle`); not in between, so a gap after which nothing arrives is skipped without
having been reported, as in the code. `Missing` lists an id once for every buffered id
above it, as the two nested loops do.

`faulted` collects ids whose repair met a fault outside the protocol: the report or the
resent copy was lost or took longer than a tick, or the cache had dropped the packet.
The loss of originals is not a fault: it is what is repaired. Two facts the model makes
visible: a skip empties `notifiedMissingIds` altogether, so ids of later gaps are reported
again ("skipped IDs are no longer relevant", says the comment); and nothing in the
repository sends a RESEND_REQUEST, so `processResendRequest` is dead code.

### VcLifecycle
A packet is two chunks, and chunk `<<c, n>>` is the n-th of connection `c`, so a read can end inside a
packet and the joining of two streams shows in `out`. A connection object
has a descriptor until `disconnect()`; the kernel gives the lowest free number to a new
one. The IO thread's positions are `top` (generation read without the mutex), `refresh`
(snapshot, comparison of descriptor numbers, buffers emptied), `poll`, `slot`, `recv`,
`parse`; `ready` is what `poll` found. `disconnectCB` runs on the IO or the send thread: `cb`
(waiting for `disconnectMutex`), `cbCount`, `cbStop` (the test of `sendThread` done, the
use ahead), `cbNotify`. The owner is whoever opens, repairs and closes the channel: the
server's accept loop, or in the client the holder of `vcMutex`; `ownPc` follows it through
`open()`, the three places `replaceConnection` writes one after the other, and `close()`
with its two joins. Of the send thread only the failing of a connection and the stop are
kept.

`joined` records connections that followed one another in a slot, within one cycle of
`run()`, under the same number: the read buffer is then kept, because only numbers are
compared. `early` records a disconnect that was ignored because `open()` had not
returned. `crashed` is the use of `sendThread` after `close()` reset it: `close()` does not
take `disconnectMutex`, so this can happen between the test and the use in `disconnectCB`.
The safety properties hold whether the process survives that or not; `CloseEnds` says
nothing of it afterwards.

### ClientSession
Threads are Main and, for each channel, the detached thread its disconnect callback
spawns; the watchdog has its own `wpc`. Steps are critical sections and network
operations. Sockets are numbered by creation so that closing one twice shows even if
the kernel reused the number. `close()` is one step here; `ReorderThread` looks inside.
`open()` is two steps because `opened` is set last: a disconnect before that is ignored
by `disconnectCB`. A failed assertion, `std::terminate` or a null `vc` is the label `crashed`
(`OpenCrashes`, `StartCrashes`), after which nothing moves. Of the UDP descriptor only
`udpStale` is kept: a failed bind closed it, its number is still in `udpSocket`, and Start is
going to close that number again (`UdpCloses`).

### ServerSession
`desc` is the kernel's table; a kept descriptor is modelled as the pair of the number
and the connection it meant, so that a stray close is visible (`stray`). The accept
loop has one step per call on shared state; the disconnect callback of each channel
interleaves with it. The client's part (`ClientConnects`, `ClientReplaces`,
`ClientRestarts`) follows `Client.cpp`: a replacement sends the *old* id and remembers
a new one. The connection replaced in a slot is closed at once; in the code its
destructor does so when both threads have refreshed their snapshots.

## 3. Assumptions on timing

Two parts of the code rely on time, and the models say where.

`overlaps` (ClientSession) is a history variable. Nothing in `Client.cpp` keeps main's
restart and a detached `ReconnectVC` from building at once; only time does, and `overlaps`
records when it did not: `"udp"`, when `PrepareUdpSocket` failed while a channel was ending, or a
channel ended while Start was tearing it down after such a failure; `"sleep"`, when a
sleep of a second or more ended before a stretch of another thread that neither sleeps
nor waits for the network. No step is ever ruled out by it. `Apart` is `overlaps = {}`, and
it stands in the properties: `NoCrash`, `ChannelWhole`, `ClosedOnce`, `NoLeak` and
`SpliceSameVc` say `Apart => ...`, and TLC refutes the right-hand sides alone. `TypeOK` and
`WindsDown` hold in every history. `claim_start` is the overlap itself: when the
bind fails while the channel dies, with sleeps as long as one likes, both threads run
`PrepareVC` and the second one finds a joinable watchdog. The same overlap lets `tcpSockets`
outgrow `VC_TCP_CONNECTIONS`, closes sockets twice, loses some, and lets the watchdog splice into
a channel it never looked at, because main's restart does not raise the epoch.

`orderly` (ServerSession) is a history variable too, true as long as the client gives up no
attempt half-way, single connections fail only while another one keeps the server's channel
up, all fail only when nothing is under way, and the client's three seconds before a new
attempt are enough for the server to notice and forget the old channel. Only the last of
these is a matter of time. The first is not: after a `PrepareVC` that failed half-way
`Peer.cpp:99-108` keeps the sockets however long the client waits (section 6). `ClosesOwn`,
`SlotsAgree` and `NothingLeft` are stated for orderly histories, the types for all.

Data races on plain fields (`clientConnSlots` between callback and accept loop,
`running` and `tcpSockets` of the client, `socketFd` of a connection that one thread closes
while another reads its number for `recv`) are modelled as atomic accesses.

## 4. Runs

| Run | Instance | Shows |
|---|---|---|
| `reorder` | 2 connections, ids 0..3, 2 packets, capacity 2, timeout 2, interval 1, at most 2 ids per report, cap 0 | order, no duplicate, nothing buffered is skipped or lost, `notifiedMissingIds` within gaps and bounded, refinement of `OrderedStream`; `GapEnds`, `CloseEndsUnderTimer` |
| `spsc` | capacity 4, 7 items of two values | no slot conflict, refinement of `BoundedFifo` |
| `workqueue` | threshold 0, modulus 16, batch 2, 1 call per thread | no lost wake-up in either wait, `SendServed`, `StopEnds` |
| `send` | 2 data slots, 1 resend slot, 2 packets, 1 notify, 1 resend, 1 retry, 1 replacement | framing, order, nothing lost |
| `client` | 2 slots, 2 channels, 5 sockets, 1 retry | `NoCrash`, `ChannelWhole`, `ClosedOnce`, `NoLeak`, `SpliceSameVc` while nothing overlapped; types and `WindsDown` always |
| `server` | 2 slots, 5 descriptors, 5 connections, 2 channels | slots, descriptors, cleanup |
| `resend` | ids 0..3, 3 shards of one packet, timeout 3, interval 1, time to live 1, at most 4 ids per report, 3 reports, 2 losses | `CacheWindow`, `ResendBounded`, `RepairWorks` |
| `lifecycle` | 2 slots, 3 connections, 1 + 0 + 3 chunks | `WholeInOrder`, `AllDeadNoticed`, `EndsOnce`, `CloseEnds` |
| `claim_close` | one connection, one packet | violated: section 6 |
| `claim_join` | 2 slots, 1 channel | violated: section 6 |
| `claim_start` | 2 slots, 3 channels, 6 sockets | violated: section 6 |
| `claim_takeover` | as `server` | violated: section 6 |

Why these bounds are enough to be interesting. Two packets with ids 0..3 give a gap, two gaps
(ids 1 and 3), a duplicate, a stale packet after a skip and a message beyond a skip; a cap
of 0 makes the emptying of `notifiedMissingIds` happen after every notification;
capacity 2 lets a queue (one place) fill up. Seven items make the ring of four wrap almost
twice. One call per thread suffices for every overlap of push, count and notify with the two
waits, and a resend that is enqueued again comes back in the batch of two; the
threshold of 0 makes backpressure and the wrapped counter happen. In `send`, one
replacement gives a slot an old and a new object, and one retry lets a resend be
repeated and given up; data slots are symmetric. In `client`, two channels of two slots and
a fifth socket let the watchdog replace a slot while main or a reconnect thread builds the second
channel; its `VIEW` leaves out what no property can see any more (return addresses
taken, sockets of a channel that is down and released, and, once something overlapped, which
socket is where). In `server`,
five connections are two attempts and a replacement, and five descriptors are so few
that numbers are reused. In `resend`, four ids in a cache of three make an eviction, two
gaps and an id listed twice happen; two losses take an original and a report or a copy; a
cap of 1 empties `notifiedMissingIds` while ids in it are still awaited; three ticks of timeout leave
room for a report, a time to live and a second report. In `lifecycle`, one replacement lets
a slot pass from a connection with half a packet to one with the same descriptor, and three
chunks then reach every outcome of the parser on a stream that starts inside a packet; two
slots let both threads see the last two connections die. The bounds
(`MaxPackets`, `MaxItems`, `MaxCalls`, `MaxSends`, `MaxNotifies`, `MaxResends`, `MaxReplace`,
`MaxVcs`, `MaxSockets`, `MaxConns`, `MaxNotes`, `MaxLosses`, `NConns`, `Budget`) are constants
named as such.

Deadlock is checked except in `server`, where the accept loop may wait for a client for
ever, and in `resend`, where everything may be sent and delivered.

## 5. Fairness

- ReorderThread: each thread keeps running, time passes, and `close()` once begun goes on.
  Nothing obliges the network to deliver, a user to close, or a wait to wake spuriously.
- WorkQueue: the send thread keeps running, and a thread inside `enqueue` or `setRunning`
  finishes, and so does one inside `replaceConnection`. The timeout of the idle wait
  (`IDLE_WAIT_MS`) is *not* counted on. The 50 ms of the wait for a connection are:
  `setRunning`'s notification of it can be lost. No connection has to live: `SendServed` excepts a
  thread that holds one packet for ever.
- ClientSession (`claim_join` only): main, the reconnect threads, the callback and the
  watchdog keep running; their network operations end, one way or the other, because
  connects time out. No connection has to fail and no datagram has to arrive.

- VcLifecycle: the IO thread, the send thread and the owner, once inside `open()`,
  `replaceConnection` or `close()`, keep running. No peer has to send or close, no write to
  fail, nobody to call `close()`.

These are what a preemptive scheduler gives to runnable threads; mutexes are held for
single steps, except `vcMutex` in the watchdog's splice and `watchdogMutex` over a join,
which the guards express.

## 6. Where the code does not do what the repository says

- `claim_close`: `close()` notifies without `reorderMutex`. Between the predicate and
  the sleep the notification is lost; with no gap timer running the join never returns.
- `claim_join`: `StopWatchdog` clears the flag before it takes the mutex. If the channel
  dies between `open()` and `StartWatchdog()`, main sets the flag again and the
  reconnecting thread joins a watchdog that nobody stops, with `watchdogMutex` held.
- `claim_start`: when `PrepareUdpSocket` fails while the channel dies, Start tears the channel
  down "so the next Start()/PrepareVC doesn't assign over a live watchdog thread"
  (`Client.cpp:304-306`), but the detached `ReconnectVC` is under way by then. It and the
  next Start run `PrepareVC` at once, and the second to reach `StartWatchdog` fails its
  assertion. The comment of `PrepareVC` (lines 15-19) names the same case.
- `claim_takeover`: the comment in `Server.cpp` says that `close()` runs the disconnect
  callback. It does not, because `opened` is already false; the peer keeps its closed
  descriptors, the fresh connection is refused as excess, and the next channel is built
  on the old numbers.

More that is visible in the models without a run of its own:

- A skip turns the gap timer off (`TcpVirtualChannel.cpp:592`). If the second drain stops
  at another gap, the thread waits without a deadline and the messages behind it stay
  buffered until another packet arrives. A test says the timeout skips missing messages
  "automatically" (`tests/VirtualChannel_Test.cpp:320`); it has one gap. `(buffered # {}) ~>
  (buffered = {} \/ ~running)` fails under `FairSpec` of `ReorderThread` with two packets.
- `lastProcessedSeq` is loaded after the scan of the queues (line 530). A packet pushed
  after its queue was scanned and counted before the load is taken for processed and waits
  for the next one: `(queues[c] # <<>>) ~> (queues[c] = <<>> \/ ~running)` fails with one.
- `approxQueueSize` wraps when the send thread takes a packet that was not yet counted, so
  `send()` can drop a packet although the queue is empty (`WorkQueue`, `SendDrop`).
- A `PrepareVC` that fails after some connections leaves their sockets in the server's peer.
  `AddPeer` flushes a peer only while a channel of the client exists (`Peer.cpp:99-108`), so
  the next attempt is added to them and the channel mixes two attempts; the same happens to a
  replacement read after its channel is gone. A model of the client's restart at any point is in
  `ServerSession` (`ClientRestarts`), and such histories are not orderly.
- A UDP socket whose bind fails is closed at `Client.cpp:189` and its number once more at line
  310, after the teardown; in between another thread may have been given the number.
- A Stop() that main's restart overtook closes the *new* channel: main goes on forwarding
  into it, and nobody builds another one (`ClientSession`, `Deserted`).
- `setRunning` notifies `connAvailableCv` without its mutex (`TcpVCSendThread.cpp:89`): lost in
  the window of the wait, which then lasts its 50 ms. The comment at 470-473 says that the
  wait also ends when the queues get work; its predicate does not look at them.
- MAX_RESEND_RETRIES bounds the stored count of a resend only: the tracker is emptied when it
  is large (`TcpVCSendThread.cpp:214-220`), and tries without a live resend connection are not counted.
- The watchdog can splice a socket into a channel that went down between `isOpen()` and
  `replaceConnection` (`ClientSession`, `SlotReplaced` while `st[vc]` is `down`); nobody
  serves that socket.
- A read buffer survives a replacement that reuses the descriptor number within one poll
  cycle (`VcLifecycle`, `joined`), although the comment at `TcpVCIoThread.cpp:54` says the stale
  buffer is cleared before the new connection's data arrives. `WholeInOrder` shows that
  nothing else joins two streams.
- `disconnectCB` may use `sendThread` after `close()` reset it (`VcLifecycle`, `crashed`).
- After `disconnectCB` ended the channel, `close()` joins the reorder thread only: the IO and
  send threads end by themselves, and the channel and its IO thread, which hold each
  other through the callbacks, are never freed.
- `messageTracker` is emptied by `close()` only; `removeMessage` has no caller.

## 7. What is proved

Every theorem holds for all values of the constants under the named assumption of its
module (`ReorderConstants`, `SpscConstants`, `WorkConstants`, `SendConstants`,
`ResendConstants`, `LifecycleConstants`, `ClientConstants`, `ServerConstants`), which only
say that sizes are naturals, most of them positive; `WorkConstants` adds that the counter's modulus exceeds the number of packets, and `LifecycleConstants` that there is a
connection for every slot.

- **ReorderProofs.** `InOrder` is not inductive: one must know that what waits in
  `itemsToDeliver` is ascending, above what was delivered, and all of it below
  `nextMessageId` (`Ordered`), and that nothing buffered is below it
  (`BufferedAhead`), so that the next drain continues upwards. `FromQueues` (what is
  held has arrived) is needed for the refinement. `IInv` is the conjunction of `TypeOK`,
  `BufferedAhead`, `Ordered`, `FromQueues`, `NotifiedInGap`. From it: `TypeCorrect`,
  `DeliveryInOrder`, `BufferedNotSkipped`, `NotifiedStaysInGap`, and `ImplementsStream`
  (`Spec => StreamSpec`): a delivery maps to `Emit`, a push to `Arrive`, all else to a
  stutter. `NotifiedStaysBounded`: the ids one call of `getMissingIds` names are mapped, each
  to the number of ids pushed before it, one to one into `0..MaxMissing-1`, so they are at most
  `MaxMissing`; with the cap tested before the union this bounds `notifiedMissingIds`.
  `BufferedKept` is an action property: what leaves the buffer was drained into
  `itemsToDeliver`, so no step of any thread drops a buffered packet.
- **SpscProofs.** `RingOrder` orders the four views around the ring: `readSeen`,
  `readPos`, `writeSeen`, `writePos` within less than one turn; `ChecksHold` says that
  what a thread found stays true until it acts; `Contents` ties the slots to the items
  under way. From these `SlotsDisjoint`, `RingTypes` and `ImplementsFifo`
  (`Spec => FifoSpec`), for every capacity and every delay of the loads.
- **WorkProofs.** `ApproxExact` gives the exact value of each lagging counter,
  `SizeBounded` rules out a double wrap, `SleepGuarded` says that from the predicate to
  the end of the sleep whoever makes the predicate true still has to notify;
  `ConnSleepGuarded` says the same of the wait for a connection and `replaceConnection` (of
  `setRunning` it does not hold), and `RetainedPlaced` that the thread does not come to the
  idle wait with a packet retained. From these `WakeupsNotLost` and `QueueTypes`.
- **SendProofs.** `UnfinishedIsDead` and `FreshWhole` carry `FramingIntact` over
  replacements and stale snapshots: an object with an unfinished packet is not alive
  except while it is being flushed, and an object not yet in use is whole.
  `PipelineOrdered`, `PipelineKnown` and `PipelineComplete` say that the pipeline is
  the accepted ids in order, with notifications between them; every step leaves it alone or appends one. From
  these `FramingKept`, `SendOrder`, `NothingDropped`, `SendTypes` (which bounds the stored
  retry count, not the number of tries).
- **ResendProofs.** The four invariants of `ResendProtocol`, over a network that loses and
  reorders. `CacheWindow` needs the shape of the shards (`CacheShape`): a shard into which `q` ids
  went holds the last `min(q, ShardCap)` of them in order, one every `NShards`. `ResendBounded`
  needs `Counted` (an id has at most one copy more than it was asked for), `AskedOnce` and
  `Reported` (an id that `notifiedMissingIds` has not forgotten is in at most one notice, under
  way or handled). `RepairWorks` needs `NotLost` and `PendingSent` (a packet asked for that no
  fault hit has arrived, or its notice, its handling or its reply is under way) and
  `LateIsFault` (what is still under way when the gap timer runs out counts as a fault).
  What an iteration drains, skips and reports is characterised by least elements of sets of
  naturals, not by recursion. From these `ResendTypes`, `CacheCovers`, `ResendsBounded` and
  `RepairHolds`, for every number of shards, capacity, timeout and id.
- **LifecycleProofs.** `AllDeadNoticed` is not inductive: `DeathSeen` states it from the start
  of `open()` on, when a death is seen but ignored, and `Published` says that
  `replaceConnection` puts a connected object that no other thread can reach into the slot,
  so that a replacement never leaves the channel dead. For `EndsOnce`, `MutexHeld` and
  `OneEnds` say that the thread that counted no live connection is the only one in
  `disconnectCB` past the test of `opened`, also after it released the mutex and before it
  calls back; `JoinOrder` follows the joins of `close()`. `Reading` (the IO thread reads a
  slot that exists) rests on the well-foundedness of the naturals. From these
  `LifeInvariance`, `DeathNoticed` and `EndedOnce`, for every number of slots, connections and
  chunks. `WholeInOrder` has an invariant of its own: a connection enters the snapshot unread and
  in one slot only (`Placed`, `Fresh`); a buffer holds the chunks that follow the packets handed
  on, or chunks of joined connections (`Buffered`, `Counted`); only the slot being read can hold
  a whole packet (`Parsed`); and the descriptor numbers that `run()` remembers separate the
  buffers of successive connections (`Remembered`). From these `LifeTypes` and `StreamsWhole`.
- **ClientProofs.** `ClientInvariant` is `Spec => [](Apart => Inv)` (section 3): an overlap is
  remembered, so a step into a state that is `Apart` starts in one and is none itself. Each
  thread is in a phase: it takes a dead channel down before a new attempt (`early`), builds
  a channel (`build`), opens it (`open`), starts the watchdog (`launch`), stops the
  client (`end`) or rests. `Turns` says that at most one thread does not rest, except that a callback thread may be
  `early` while the thread that opened its channel is still in `launch`; `Halted`, `Tries`,
  `Channels` and `Numbered` tie this to `running`, the counters, the published channel
  and the channels created. `Joined`: a thread that builds has joined the watchdog, so
  nobody else touches the sockets. The custody of sockets is `Sharing` (an open socket
  is in one place only, `tcpSockets` being the channel's own list), `Raws` (`tcpSockets`
  belongs to no channel, or its open sockets are the channel's) and `Filling` (how many
  sockets a thread that builds has collected), with `ClosedOnce` and `NoLeak`, which are
  inductive only together with these. A step that touches neither sockets nor watchdog (`Quiet`) keeps all of
  the custody at once. From these `NobodyEndsProcess`, `ChannelsWhole`, `SocketsClosedOnce`,
  `SocketsHeld` and `SplicesIntoSeen`, for every number of slots, channels and attempts. Two
  theorems need no condition: `ClientTypes`, from a weaker invariant (`Loose`) that survives the
  overlap, and `WatchdogWindsDown`, the action property `WindsDown`.

- **ServerProofs.** All four invariants of `ServerSession`. `Base` holds in every history:
  types, the numbering of connections (`Numbers`: accepted so far are `used` less the
  backlog, which continues from there), that whatever is in a peer or a channel was accepted before
  the connection in hand (`Aged`), that a channel is opened with a UDP socket and calls back
  only when down (`Wired`). It gives `ServerTypes` without any assumption on timing. The others
  are about orderly histories (section 3), which have three stages. `Gathering`: the
  client's attempt so far is the peer's sockets, then the hand, then the backlog, in the
  order of the slots. `Up`: of the client's connections each is cut, agreed on, or under way
  (`Covered`), and one healthy slot keeps the channel up. `Ending`: after an outage
  the slots die and the callback does its steps, until the client starts over. Two more
  parts cut across the stages. `SlotIds`: an id under way or remembered stands for the slot it
  was sent for. A replacement announces itself by the id of the connection it replaces, of
  which the server may have seen nothing; so its target is decided by the map or by slotIndex,
  and the two never disagree. `Custody` and `UdpCustody`: whoever keeps a descriptor owns it,
  hence every close is the owner's. From these `ClosesOwnOnly`, `SlotsStayAgreed` and
  `NothingRemains`, for every number of slots, descriptors, connections and channels.

## 8. What is only model-checked

Liveness (`GapEnds`, `CloseEndsUnderTimer`, `SendServed`, `StopEnds`, `CloseEnds`):
fairness and `ENABLED` are out of the prover's reach; and the refuted statements of section 6.
Every safety invariant and action property that a passing run checks is also proved. The
induction over data that a recursive definition needs is out of reach too; the modules
define nothing recursively.

## 9. What is not modelled

- `processResendRequest`, which no peer triggers, and `markDegraded`, which only the score reads.
- The destructor of `StopableThread`, reached only when a channel is dropped without `close()`.
- Network score: a floating-point formula whose result is only logged.
- The blocking `dequeue` of `BlockingQueue` and `send`/`receive` of `TcpConnection`: no caller
  in the tunnel.
- On the client, the tunnelled datagrams (one of length zero ends the forwarding loop while
  `running` stays true), the UDP descriptor except for its second close (a bound one is never
  closed when the forwarding ends), the catch branch of main() (`main.cpp:93-98`, which calls
  Stop() on main's own thread), what a data race does to `tcpSockets` once two threads build at
  once, and a channel that is published and closed before anybody opened it; on the server, what a failing UDP socket of one client means for the others: the accept loop ends.
- Socket layer: system calls, which the models treat as the kernel's choices.
- Configuration, logging, start-up: sequential I/O. Legacy protocol (`Protocol.cpp`,
  `TcpVCReadThread.cpp`, `QueueManager.cpp`, `DataProcessorThread.cpp`): unused by the
  tunnel; of `Protocol.cpp` only MsgBind is used, whose fields `ServerSession` carries.
- Several clients of one server: their peers, channels and maps are separate, except
  `socketToConnId`, whose keys are descriptors.

## 10. Plan

Done: 1 `ReorderThread`, 2 `SpscQueue`, 3 `WorkQueue`, 4 `SendThread`, 5 `ClientSession`,
6 `ServerSession`, 7 `ResendProtocol`, 8 and 9 `VcLifecycle` (the IO thread and the life
cycle share the connections, so they became one module), and the proofs of 1 to 9.

Next:

10. A composition of `ClientSession` and `ServerSession`: after an outage both ends have
    one channel with the same slots, eventually.

## 11. Running

    tlc -workers 2 -config MCReorder.cfg MCReorder
    tlapm ReorderProofs.tla

The runs `send` and `lifecycle` take about two and a half minutes with two workers, the
others under one.
