# TLA+ specification of ipovermesh

ipovermesh carries the IPv6 traffic of a TUN device over an ad-hoc Wi-Fi
network. Each machine runs one process; the processes find routes on demand by
flooding requests, and forward packets hop by hop. Everything on the air is a
UDP broadcast on port 1337 in a small text format (GTT, `doc/protocol.txt`).

This directory holds TLA+ modules translated from the C++ code, TLC
configurations that check them on small instances, and TLAPS proofs. Paths
below are relative to `src/src` unless they start with `doc/`.

## 1. Inventory

| part | state | operations | talks to |
|---|---|---|---|
| `mesh/wifi.cpp` class `Wifi` | routing table, `seq`, `pendingRReplies`, `packetsToSend`, `pendingAcks`, `pendingAckSequences`, `recvQueue` | `send`, five `receive…` handlers, `clearOutdatedPackets` | the other nodes, by broadcast |
| `mesh/routingtable.cpp`, `mesh/route.cpp` | map destination → route | `getRoute` (erases what has expired), `addRoute` (keeps an old entry), `invalidateRoute`, `clean` (never called) | called by `Wifi` |
| `mesh/*packet.cpp`, `parser/gttpacket.cpp` | – | build and parse the five packets | `Wifi`, sockets |
| `core/blocking-queue-detail.h` | deque, mutex, condition variable, `opened` | `push`, `pop`, `flush`, `close` | WifiRecv → Wifi2Tun, every thread → Log |
| `core/log.cpp`, `core/sharedbool.cpp` | queue of entries, worker thread | `write`, `flush`, `waitFlush`, `quit` | all threads |
| `parser/gttparser.cpp`, `parser/lineparser.cpp` | position in the packet, buffer | `eat`, `getPacket` | WifiRecv |
| `parser/ipv6packet.cpp` | bytes of a packet | read and write addresses through text | `Wifi`, `main` |
| `main.cpp` class `IpOverMesh` | `isRunning`, two threads | constructor, `stop`, destructor | `Wifi`, `Tundev` |
| `net/*` | sockets | open, send, receive, close | kernel |

Threads of a process: Tun2Wifi (reads the TUN device, calls `Wifi::send`),
WifiRecv (`recvRun` and the handlers), ClearPackets (`clearOutdatedPackets`
every second), Wifi2Tun (`recvQueue.pop`), Log, Main.

What makes this system hard: three threads per node under three mutexes and one
unprotected flag; datagrams lost, and heard by nodes they are not for and by
their own sender; routes, requests and acknowledgements that expire while
packets that rely on them are in flight; `std::map::insert` used where a
replacement was meant; a shutdown that closes what other threads still use.

What makes each part correct:

* mesh: routes lead to nodes that exist, do not loop, and relays have a route
  for what they are handed; a flood ends; a packet arrives, once, at its
  destination only; a packet without ACK is reported to its source;
* queue: first-in first-out, each element once, `NULL` only when closed and
  empty, no thread asleep with work to do or after `close`;
* log: every entry written before `quit` is printed, `waitFlush` waits;
* parser: a datagram of a peer is read as it was built, and a bad one does not
  spoil the following ones for ever;
* lifecycle: the destructor returns and nothing is used after it is deleted.

`PROJECT.json` lists every component with its status, and the hazards with the
line where each one bites and the property that would catch it.

## 2. Modules

| module | models | extends |
|---|---|---|
| `RoutingTable` | `RoutingTable`, `Route` as operators on one node's table | |
| `PacketJourney` | what hosts can rely on: where a packet goes | |
| `Mesh` | nodes running `Wifi`, and the network | `RoutingTable`, instances `PacketJourney` |
| `MCMesh` | instances of `Mesh` for TLC | `Mesh` |
| `MeshProofs` | type correctness of `Mesh`, effects of its actions | `Mesh`, TLAPS |
| `MeshRouteProofs` | routes, their losses, sequence numbers | `MeshProofs` |
| `MeshDeliveryProofs` | where a packet is, delivery at most once, refinement | `MeshRouteProofs` |
| `ClosableQueue` | what callers of the queue see | |
| `BlockingQueue` | the queue with its threads, mutex and condition variable | instances `ClosableQueue` |
| `MCBlockingQueue` | instances of `BlockingQueue` for TLC | `BlockingQueue` |
| `BlockingQueueProofs` | types, lost wakeups, refinement | `BlockingQueue`, TLAPS |
| `GTTParser` | `recvRun` with `GTTParser` and `LineParser`, and `GTTPacket::build` | |
| `MCGTTParser` | packets and foreign datagrams for TLC | `GTTParser` |
| `GTTParserProofs` | a packet is taken whole | `GTTParser`, TLAPS |
| `WifiThreads` | the three threads of one `Wifi`, split at its locks | `RoutingTable`, instances `PacketJourney` |
| `MCWifiThreads` | an instance of `WifiThreads` for TLC | `WifiThreads` |
| `WifiThreadsProofs` | numbers, ACKs, NACKs and requests between the threads, refinement | `WifiThreads`, TLAPS |
| `MessageLog` | what the threads that log can rely on | |
| `LogWorker` | the threads that log, `Worker`, `quit` | instances `ClosableQueue`, `MessageLog` |
| `MCLogWorker` | an instance of `LogWorker` for TLC | `LogWorker` |
| `LogWorkerProofs` | order of the messages, flush and quit, refinement | `LogWorker`, TLAPS |
| `Lifecycle` | start and end of the process and its threads, closing of sockets | |
| `MCLifecycle` | `Lifecycle` for TLC | `Lifecycle` |
| `LifecycleProofs` | what the threads use, what is joined | `Lifecycle`, TLAPS |
| `PacketAddresses` | addresses and numbers through octets, texts and headers | |
| `MCPacketAddresses` | addresses for TLC | `PacketAddresses` |

How they fit together: `Mesh` takes each handler for atomic, a datagram for the
record that was built, an address for a value and a process for one that never
stops. `WifiThreads`, `GTTParser`, `PacketAddresses` and `Lifecycle` each take
one of these away and look at what is left. `BlockingQueue` implements
`ClosableQueue`, and `LogWorker` is written over the latter and implements
`MessageLog` in turn. `Mesh` implements `PacketJourney` with handlers that are
atomic, and `WifiThreads` implements it with handlers that are not, so that for
where a packet goes the first abstraction of `Mesh` costs nothing. `Lifecycle` keeps
of the queue of Wifi2Tun the two steps of its wait, because a closing that falls
between them matters there.

Definitions named `…Forgotten`, `…Always`, `…Early` and the like, each under a
comment that begins with "Mutant", are wrong versions of the definition after
them. No specification uses them; each shows that a property is sensitive to
the code it is about.

### Mesh

One action is one handler run from start to end by one node:

| action | code | notes |
|---|---|---|
| `Send` | `wifi.cpp:138-173` | with `DiscoverRoute`, `Enqueue`, `SendTo` for its parts |
| `ReceiveRRequest` | `363-404` | `RRequestAnswer` is what it broadcasts |
| `ReceiveRReply` | `334-361` | sends the waiting packet |
| `ReceivePkt` | `295-332` | ACK, then delivery, forwarding or abort |
| `ReceiveAck`, `ReceiveNAck` | `261-271`, `273-293` | |
| `ClearOutdated` | `207-245` | NACKs leave in the order of their time of sending |
| `Tick` | | the clock |

State variables carry the names of the members of `Wifi`, as functions from the
nodes. A map is a function that has `NoRoute`, `Never` or `<<>>` where the C++
map has no entry; `insert` on an existing key changes nothing, in `AddRoute`,
`Track`, `DiscoverRoute` and `Enqueue`. Two variables are not in the code:
`submitted` (each packet is read from the TUN device once) and `routeLost`, a
history variable that becomes true when a table loses or replaces an entry.

`ReceivePkt` at a relay without a route removes the node from `up`: line 315
reads `route->nextHop` through an empty `shared_ptr`, which asserts, or reads
address zero when assertions are compiled out. Either way the process ends.

The network. `inbox[n]` is the sequence of datagrams in the socket of `n`. A
broadcast reaches the running nodes in range and the sender itself (the kernel
delivers a broadcast to local sockets bound to it). With `Lossy`, each receiver
independently gets any subsequence of what a handler sends. What a receiver
does get, it gets in the order of sending: one hop of radio and a socket buffer
do not reorder.

Abstractions: addresses and packets are model values and a parsed packet is the
record that was built; the clock is one counter in seconds shared by all nodes;
sequence numbers do not wrap at 2^32; `sendto` and `recv` do not fail; a
handler is not interrupted by another thread of its node.

### PacketJourney

What is promised of a packet when routes, datagrams and acknowledgements are
hidden. A packet is with its host, waits for a route, is on the air, delivered
or lost; it only moves forward, one packet at a time unless a cleaner forgets a
whole queue (`Forget`), and what is lost stays lost. `PlaceOf` in `Mesh` reads
the place off the queues, the sockets and `recvQueue`: a copy of a datagram that
another node than its next hop heard does not count. `PlaceOf` in `WifiThreads`
takes a packet in the hand of a thread for waiting until it is broadcast; the
node has no packets for itself, so `Node` is empty there and the air is where
its packets end.

### BlockingQueue

A step is what no other thread can cut in two. `push` is `PushTest` (reads
`opened` outside the mutex), `PushBack` (critical section), `NotifyOne` (outside
the mutex again). `pop` and `flush` share the loop `Lock`, `FindNothing`,
`Sleep`, and end in `PopFront`, `FlushAll` or `ReturnNull`. `stop` and
`close` are `Stop` (`isRunning`), `CloseFlag` and `NotifyAll`, none under the
mutex. `cond.wait` may return
spuriously. `opened` is a plain `bool` read and written without
synchronisation; a read gives the last value written, as on every target the
program is built for, since the loop of `pop` reads it again after each call to
`wait`.

A consumer calls again as long as its loop goes on (`CallAgain`): Wifi2Tun, which
pops, while `isRunning` is set (`main.cpp:100`), Log, which flushes, while the queue
is open or not empty (`core/log.cpp:165`). `writePacket` may throw and end Wifi2Tun
(`WriteThrows`). After its last call a consumer takes nothing more, so what is
queued then stays where it is; `EverythingTaken` is about what is queued while the
loop of Log goes on.

`ClosableQueue` accepts an element while it is open (`Accept`) and lets it enter
later (`Enter`), possibly after the closing: `push` tests the flag before it
takes the lock, so nothing stronger holds.

### GTTParser

`Mesh` takes the parsing for granted: a datagram is the record that was built.
`GTTParser` is about what it takes for granted. One parser object lives as long
as the receiving thread, and one call of `getPacket` that fails leaves its
position, its packet and the rest of its buffer to the next datagram. An action
is one datagram received (`ReceivePacket`, `ReceiveForeign`) or one turn of the
`switch` of `getPacket` (`ReadFirstLine`, `ReadHeader`, `ReadContent`; the
"go through" of the code is the next turn). `Fail` is its `catch`, `Starve` its
`return NULL` for want of data: both go back to `recv`, and so does a packet
that the constructor of its class throws at (`Rejected`: another protocol, a header
it does not know, a garbled number), even if more packets are in the buffer.

A length is a natural number. The code keeps it as an unsigned long and refuses
only 0, so a negative one is a very large one; `new[]` then throws
`std::bad_alloc`, which no handler of the program catches, and the process ends
(`RunOutOfMemory`, place "terminated"). `MaxAlloc` is the largest body there is
memory for.

The buffer is a sequence of units. The text of a line is one unit, because
`popLine` looks for the end of the line only and the grammar then accepts or
refuses the whole line; `\r`, `\n` and the null byte are units of their own,
because lines are cut and C strings end there. What matters about a damaged
line is kept: texts glued together make a longer value after a header and an
error everywhere else. A unit counts as one byte of a body, and a body is any
sequence of units, also such that reads like the start of another packet.
`InOrder` says in which order a `std::map` lists a set of header names, which is
the order in which `Build` writes them; any order without repetition will do.

The history variables `latest`, `aligned` and `handled` describe the last
datagram only, so that the state space is finite without a bound on the number
of datagrams.

### WifiThreads

| thread | steps | code |
|---|---|---|
| Tun2Wifi | `TakePacket`, `RequestRoute`, `QueuePacket`, or `TakeNumber`, `Air`, `Register` | `wifi.cpp:138-195` |
| WifiRecv | `ReceiveRReply`, `AddHopRoute`, `LockPackets`, `SendFront`, `TakeNumber`, `Air`, `Register`, `PopFront`, `FinishReply` | `334-361` |
| WifiRecv | `ReceiveAck`, `ReceiveNAck` | `261-293` |
| ClearPackets | `LockReplies`, `KeepRequest`, `EraseExpired`, `UnlockReplies`, `ReportLost` | `207-245` |

A critical section that takes no second mutex is one step; a mutex that is held
while another is asked for (`rrepMut` by the cleaner, `pktMut` by `receiveRReply`)
has an entry in `owner` from step to step. The other nodes are the datagrams
they may send: a reply for a destination that was requested, the ACK of a number
on the air, a NACK. `overtaken`, `registered`, `falseNacks`, `acked` and `aired`
are history. Numbers count modulo `SeqModulus`, and the bound on the packets
keeps them from wrapping onto each other.

### LogWorker

A statement is one use of the log. A message is composed with `AppendMessage` in
the stream of its thread, handed over with `Write` (the test of `push`) and
`Enter` (its critical section), and the stream is emptied by `ClearStream`.
`Flush`, `ReturnWithoutWaiting` and `WaitOnNothing` are `log::flush` and
`log::waitFlush` with their inverted test (`log.cpp:149`): the first ends the
process on an empty pointer, the second does not wait. Main initialises and
quits the worker (`StartWorker`, `SetInitialized`, `Quit`, `Join`), whose loop
is `Run`. `before` and `inTime` record which messages had been written when a
statement or `quit` began.

`MessageLog` keeps the messages taken, the messages printed and whether the log
has ended. A message is taken when `push` has found the queue open; the flushes,
the queue and the batches are hidden.

### Lifecycle

`main` and `at` are the places of the main thread and of the four others. The
main thread constructs (`GiveUp` to `StartTunThreads`), waits for a key
(`PressEnter`) and destroys (`Stop` to `Exit`), one step for each access to
something that another thread reads. A construction that throws goes to the
destructors of what exists already. The threads are reduced to what they share
with it: the pointer to the server and to the broadcast socket, the descriptors,
`isRunning`, `opened`. `failed` records the step that ends the process: the use
of an object that is gone, or a failed assertion. An exception ends a thread
(`threw`). `recvfrom` gives 0 after the shutdown of the socket (`RecvZero`) and for
an empty datagram at any time (`RecvEmpty`); `recv` takes both for the shutdown
(`VerifyClosed`). `MaxPending` bounds the packets for the host that are not written yet.

### PacketAddresses

An address is eight groups of 16 bits, a text a sequence of digits and colons.
`inet_ntop` and `inet_pton` are the functions of the C library; the conversions
of `Address`, `IPv6Packet`, `String` and `Wifi::IPfromHw` are operators over
them. The state machine is the two uses of a packet: from the tun device through
the headers of a PKT to another node (`ReadForMesh`, `SendPkt`, `ReceivePkt`),
and the exchange of its addresses in `test.cpp` (`ReadForTest`, `KeepSource`,
`SetSource`, `SetDestination`).

## 3. Runs

All runs say `CHECK_DEADLOCK FALSE`: a mesh where no packet is left to send, a
queue where nothing is pushed any more and a process that has ended stop by
right; `HandlersReturn` is what excludes a deadlock of the mutexes. Bounds that
exist for TLC only are `MaxNow` (clock), `LastSend` (no packet is read later),
`MaxInbox` (a full socket buffer loses the next datagram; used with `Lossy`
only), `MaxPending`, `MaxForeign` and the sets of packets and statements.

| run | instance | checks | size |
|---|---|---|---|
| `relay` | chain a–b–c, packets c→b, a→c, c→b, no loss, clock stopped | `NoLoop`, `NoCrashBeforeLoss`, `UniqueSequence`, `NeighbourDelivery`, `FloodDies` | 81 000 states |
| `expiry` | chain, loss, one datagram per inbox, delays 0, one tick, one packet to an unowned address | `TypeOK`, `AtMostOnceDelivery`, `NoRouteToNobody`, `WaitingIsWatched`, `NoEarlyLoss`, `ImplementsJourney`, `LossHasCause` | 313 000 |
| `wifi` | one node, two packets for one destination, delays 0, two ticks, the second packet at tick 1 at the latest | `TypeOK`, `OneNumberOnePacket`, `NackMeansNoAck`, `UnwatchedSharesSecond`, `WaitingIsWatched`, `HandlersReturn`, `WaitEnds`, `ImplementsJourney` | 101 400 |
| `threads` | two producers, the loops of one popper and one flusher, one thread that stops and closes, three elements | `WakeupsCover`, `ImplementsQueue`, `EverythingTaken` | 164 700 |
| `log` | Main and two threads: two messages of two pieces, one `flush`, one `waitFlush` | `TypeOK`, `PrintedInOrder`, `FlushCovers`, `QuitPrints`, `ImplementsLog`, `EventuallyPrinted` | 197 700 |
| `lifecycle` | the process, two packets in `recvQueue` | `UsesWhatExists`, `AbortHasCause`, `NothingLeftRunning`, `LoopsOutliveStart`, `ShutdownEnds` | 30 900 |
| `parser` | a request and a data packet whose body looks like text, as often as they like, and one foreign datagram: any beginning of a datagram, or a packet with a header its class does not know, of another protocol, or with a length beyond the memory | `TakenWhole`, `Resynchronises` | 8 700 |
| `addresses` | three interfaces, two of which differ in the last octet, addresses with and without zeros, numbers modulo 16 | `TypeOK`, `ArrivesAsSent`, `TakenByOwner`, `Exchanges` | 9 200 |

`TypeOK` of `BlockingQueue`, `GTTParser` and `Lifecycle` is not in a cfg: it is
proved for every instance (`QueueTypeCorrect`, `ParserTypeCorrect`,
`LifecycleTypeCorrect`), which makes checking it on one instance superfluous.

Some properties name the exception the code has to what one would like to say,
so that the rest of the statement is checked:

* `WaitEnds`: a packet that `send` queues after the cleaner has erased the request
  it has just looked for waits for ever (`wifi.cpp:155` and `169` are two
  sections); only a new request for the same destination leads to it.
  `WaitingIsWatched` of `WifiThreads` names the same exception, and says that no
  other order of the sections leaves a waiting packet without its request.
* `NoEarlyLoss` says how long the hypothesis of `NoLoop` and `NoCrashBeforeLoss`
  lasts at least: nothing is lost from a table before the first expiry.
* `NackMeansNoAck`: for a packet of Tun2Wifi the ACK may come between the
  broadcast and `Register` (`wifi.cpp:188-192`), and a NACK follows all the
  same. For a packet sent by WifiRecv it may not, since that thread reads the ACKs.
* `UnwatchedSharesSecond`: of the packets sent in one second only the first has a
  timeout (see below); nothing else leaves a NACK without one.
* `UsesWhatExists`: Tun2Wifi may broadcast on the socket that `Wifi::close` has
  deleted, between `main.cpp:63` and `66`; and when the server was not bound,
  its threads are not joined (`wifi.cpp:54`) and may look at it once more.
* `EverythingTaken`: nothing is said of what enters after the loop of Log has ended
  (`push` tests the flag before it takes the mutex), nor of what is in the queue of
  Wifi2Tun when `isRunning` is unset or that thread has ended.
* `AbortHasCause`: `recv` may find `sock` not yet or already -1 while
  `Socket::close` is at work, and an assertion fails; and an empty datagram makes
  one fail at any time while the server is bound.
* `Resynchronises`: a datagram with a length beyond the memory ends the process.
* `LoopsOutliveStart` lets a thread end by an exception at any time.
* `WaitEnds` takes the drop of a second packet for one destination for an end.
* `ShutdownEnds`: Tun2Wifi may sit in a read that the closing of the device does
  not wake, Wifi2Tun may miss the notification of `close` (run `close`).
* `FlushCovers` is about the moment the worker sets the flag, because the caller
  of `waitFlush` does not wait for it; `EventuallyPrinted` ends where
  `log::flush` ends the process or the worker has gone.
* `Exchanges`: the exchange may not be reached, see below.

Why the bounds are enough for what the runs are for. Three nodes in a chain are
the smallest mesh with a relay, with a node that hears a flood it is not part
of, and with a route learnt on behalf of another; a delay of 0 and one tick
make every expiry happen between any two handlers; three elements and two
consumers of different kinds give a queue that is non-empty while a thread is
blocked and another comes in between. One
foreign datagram of every length leaves the parser in each position, with each
kind of remainder; a second one was left out because the remainders then
multiply with the datagrams that pile up behind them. Two
packets for one destination are what it takes for the second to find the queue,
the request or the number of the first, from either thread, and with delays of 0
any two steps can have an expiry between them. The log needs a thread that
starts its second statement while the worker handles its first, and another
thread that writes in between. The addresses have their zeros at both ends, in
the middle, twice and singly, and the interfaces differ in the octet that would
be dropped first. Every invariant of these runs but those of `addresses` is also
proved for every instance (section 4), and so are `ImplementsQueue`,
`ImplementsJourney`, `ImplementsLog` and `LossHasCause`, so that for safety the
bounds matter only there.

Fairness. `Mesh!FairSpec`: each receiving thread takes its datagrams (`recvRun` is
a loop around a blocking `recv`). Nothing is assumed about sending, the clock or
the cleaner. `BlockingQueue!FairSpec`: a thread inside a call goes on, the two
consumer loops go on until their tests end them (`main.cpp:100`,
`core/log.cpp:165`), and a thread that asks for the mutex again and again gets it
(strong fairness, the fairness of the scheduler and of futexes). No push, no stop,
no close and no spurious wakeup is assumed to happen. `GTTParser!FairSpec`: the
thread runs, and the peers go on sending packets of whatever kind; without more
datagrams nothing makes `getPacket` look at its buffer again, so `Resynchronises`
needs them. `WifiThreads!FairSpec`: a thread inside a handler goes on, one that
asks again and again for a mutex gets it, the cleaner comes back after its sleep
of a second (`wifi.cpp:251`), and time passes. `LogWorker!FairSpec`: the worker
runs and a call of `push` ends; that the worker is told of the closing is not
assumed. `Lifecycle!FairSpec`: every thread runs, but no datagram, no packet of
the device and no key press has to come, and a blocked read or wait stays blocked.

### Disagreements found

Each of these runs checks one statement of a document or a comment, and TLC
finds the behaviour of the code that contradicts it.

| run | statement | what the code does |
|---|---|---|
| `line` | requests travel up to 100 hops (`doc/protocol.txt:51`) | a forwarded request keeps the requester as `Sender` (`wifi.cpp:401`), so the node after the relay takes the requester for a neighbour, finds the request outdated and drops it: a–b–c never carries a packet from a to c unless b has a route to c already |
| `crash` | a relay answers "Route error" (`doc/protocol.txt:78`) | `wifi.cpp:315` dereferences the empty route first |
| `nack` | NACK destination is the source of the PKT (`doc/protocol.txt:80`) | `wifi.cpp:179` builds it the other way round |
| `close` | close "makes all the pending pop() return NULL" (`blocking-queue.h:53`) | flag and notification can fall between test and wait; the consumer sleeps for ever and the join of Log or Wifi2Tun hangs |

Also seen, without a run of their own:

* `wifi.h:102` says of `sendPkt` "recording nack if no ACK is received from next
  hop". `wifi.cpp:192` keeps one packet per second in `pendingAckSequences`
  (`insert` on an existing key): the NACK of every other packet of that second is
  recorded, and no timeout ever sends or removes it (`Track` in `Mesh`,
  `Register` in `WifiThreads`).
* The same line: `wifi.cpp:267` looks up source and number and ignores the hop,
  so that a relay's own ACK for the hop before, looped back by the kernel, clears
  the NACK it holds for the hop after (`ReceiveAck` in `Mesh`).
* `test.cpp:94-95` exchanges the addresses of any packet, on a device whose own
  address is `aaaa::2`. `ipv6packet.cpp:34-44` reads 39 characters from the text
  of the address, and the text of `inet_ntop` is shorter as soon as a group
  has a leading zero: `substr` throws `std::out_of_range`, which nobody catches
  (`SetSource` in `PacketAddresses`, place "terminated"). The mesh does not use it.
* `log.cpp:149` waits when there is nothing to wait on and does not when there
  is; no code of the program calls `flush` or `waitFlush`.
* `udpsocket.cpp:73` says "Socket is now closed" when `recvfrom` gives 0, which it
  also does for a datagram without data: the assertion of the line after it then
  ends a process that is serving (`RecvEmpty`, `AbortHasCause` in `Lifecycle`).
* `gttparser.cpp:174` refuses a length that is not positive, but the length is an
  unsigned long: "-1" is accepted, and `new[]` at line 81 throws
  (`RunOutOfMemory` in `GTTParser`).
* `routingtable.h:26` says `getRoute` throws when there is no route; it returns an
  empty pointer.
* `wifi.cpp:159` says "Add the packet in the waiting queue", and the `insert` with
  a hint at line 169 does not replace the old queue: the second packet for a
  destination is dropped (`Enqueue`).

## 4. Proofs

All theorems hold for every value of the constants that the named assumptions
allow: any sets of nodes, packets and addresses, any topology, delays and
limits, with and without loss; for the queue, any finite sets of threads.

* `TypeCorrect`. `TypeOK` is inductive. The proof first summarises what each
  action adds to the network (`Exchanged`, `SentOne`, `RRequestEffect`, …), so
  that no later proof opens `Broadcast` again.
* `WaitersAreWatched` (`Mesh`). A packet waits only where a request is on record. The
  statement is inductive as it stands; the work is in `send`, where the request
  is recorded before the queue (`DiscoveryEffect`), and in the cleaner, which
  erases a request and its queue together (`WatchedStep`).
* `RoutesNameNodes`, `RoutesDoNotLoop`, `CrashNeedsLoss`. None of the three
  statements is inductive: a route comes from a datagram, and a datagram from a
  table. `RouteInv` adds that requests are direct (the sender is the requester),
  that a reply names a sender which itself is closer to the destination by the
  hops the reply tells (`RepliesHold`), and that a PKT in flight is addressed to
  a node that has a route for it (`PktsLead`). The last two hold only until some
  table loses an entry, hence `routeLost`. The key lemma is `LeadsMonotone`:
  while nothing is lost, whatever led to a destination still does.
* `NothingIsLostEarly`, `LossesHaveCauses`, `YoungMeshIsSound`. `EntryKept` says
  when an operation on a table may take an entry away, and `OperationsKeep` that
  `getRoute`, `addRoute` and `invalidateRoute` are such operations; `LossStep`
  carries this to the handlers. A node invalidates a route for a NACK, so
  `LossInv` adds that NACKs are only ever on the air once `AckDelay` is over
  (`LateNacks`). With `RouteInv`, a mesh younger than both delays has no loop
  and no node that has ended.
* `SequencesAreUnique`. `SequenceInv` adds that every number in flight is below
  the counter of its source.
* `DeliveredOnce`. `DeliveryInv` says where a packet is (`AtOnePlace`): nowhere
  before it is sent, and then in one queue, in one datagram addressed to the node
  that hears it, in one receive queue, or lost. The copies that a broadcast
  leaves with other nodes are addressed to none of them, so they do not count.
  Beside it stand `WaitingInPlace` (a waiting packet is in the queue of its own
  destination) and `PktsNameDestination`. The network is opened in three lemmas
  only: `BroadcastKeeps` (no copy of a packet that is not sent), `BroadcastAdds`
  (one of a packet that is) and `RestTakes` (the receiver takes it). Nothing is
  said about routes, so it holds with routing loops and after losses too.
* `MeshImplementsJourney`. `JourneyInv` is `DeliveryInv` with one more part: a
  queue holds one packet (`OneWaits`), because the second one for a destination
  is dropped; so the one packet that leaves is the step `Depart`. `IsPlaced`
  turns the counting of `AtOnePlace` into the one place of the mapping, and each
  handler has a lemma that says which packet moved: the datagram a node takes
  from its socket (`RestLeaves`) and what its broadcast leaves with the others
  (`BroadcastLeaves`).
* `QueueTypeCorrect`, `NoLostWakeup`. `QueueInv` adds that a thread about to wait
  has seen a queue that is still empty, because it holds the mutex, and that the
  program counters agree with the mutex and the wait set. The count of awake and
  notifying threads against the length of the queue is done with the cardinality
  theorems.
* `QueueImplemented`. Each step of a thread is a step of `ClosableQueue` or
  changes nothing it sees; the mapping takes the elements that producers hold
  past their test for `entering`.
* `NumbersNamePackets`, `RelayedNackMeansNoAck`, `FirstOfSecondIsWatched`. `WifiInv`
  follows a packet and its number from step to step: what each thread has in its
  hands (`HandInv`), that a packet is in one queue or one hand (`QueuesInv`) and
  on the air once (`AiredInv`), that `seq` counts the packets that have a number
  (`NumbersInv`, with the cardinality theorems), and that WifiRecv records its
  NACK before it can read the ACK (`AcksInv`). That a number given out is new
  needs the assumption that there are fewer packets than numbers: a process is
  taken not to use up its 2^32 numbers. `WaitEnds` and `HandlersReturn` are
  liveness and stay with TLC.
* `WaitersAreWatched` (`WifiThreads`) needs `RequestsInv`: a thread that is about
  to queue a packet has put a request on record, or the cleaner has taken it
  away since (`overtaken`).
* `ThreadsImplementJourney`. What a thread holds is what it took: Tun2Wifi
  has nobody's packet when it is idle, and WifiRecv's packet on the air is still
  the first of the queue (parts of `HandInv` and `AiredInv`). Then `AirJourney`
  is the step that leaves the queue for the air, `PopJourney` changes nothing any
  more, and `EraseJourney` forgets a queue that no thread is emptying, because
  the cleaner asks for `pktMut`.
* `MessagesAreWhole`, `MessagesInOrder`, `FlushComesAfter`, `NothingLeftAtQuit`.
  `LogInv` gives each entry one of the places stream, producer, queue, batch,
  output (`StreamsInv`, `PlacesInv`). `OrderInv` is the strengthening: a message
  that was written before a statement began is ahead of it, in the queue, in
  the batch or printed already. `EndInv` does the same for `quit`: once the
  worker has found the queue closed and empty, what was in time is printed.
* `LogWorkerImplementsLog` needs `OnceInv`: producer, queue, batch and output
  share no entry, and none holds one twice. `Write` is then `Accept` unless the
  queue is closed, and `Handle` is `Output` unless its entry is a flush.
* `LifecycleTypeCorrect`, `ThreadsUseWhatExists`, `AssertionsHaveCauses`,
  `EveryThreadIsJoined`, `LoopsDoNotEndEarly`. `LifecycleInv` lists for the places
  of the main thread what exists and is open (`SocketsInv`), which threads have
  not started or have been joined (`ThreadsInv`), and how far WifiRecv gets
  without a bound server (`RecvInv`). The four properties follow from it at once;
  the proof is the case distinction over the steps of five threads.
* `ParserTypeCorrect`, `PacketsAreTakenWhole`. `ParserInv` adds the stages of a
  packet that came to an idle parser (`Progress`): its whole datagram, `j` headers
  read and the rest of the datagram in the buffer, the blank line, the body, and
  then handed over. The lemmas before it say what `popLine` and `skip` do to a
  buffer (`LineOfText`, `BlankLine`) and what is left of a built datagram after each
  line (`BuildStart`, `LeftStep`, `LengthThenBlank`). The headers may be any set, the
  body anything. That the parser is idle is a hypothesis: a datagram that finds a
  remainder of another one may be misread, and `Resynchronises` says that this ends.

Assumptions on the constants are few: sets of threads are finite; `NoRoute`,
`None` and the like are no values; in `WifiThreads` there are fewer packets than
numbers; in `GTTParser` a packet of a peer tells the length of its body
(`GTTPacket::build` takes it from the string), which fits into memory, and a map
lists each name once. TLC evaluates all of them. Each inductive invariant
(`RouteInv`, `LossInv`, `SequenceInv`, `DeliveryInv`, `JourneyInv`, `QueueInv`,
`WifiInv`, `LogInv`, `OnceInv`, `LifecycleInv`, `ParserInv`) was checked with TLC
as an invariant of the instances above before it was proved.

Only model-checked: the invariants of `PacketAddresses`, since what its
conversions compute is defined by folds over texts and needs an induction over
them; and everything under fairness (`FloodDies`, `NeighbourDelivery`,
`EverythingTaken`, `Resynchronises`, `HandlersReturn`, `WaitEnds`,
`EventuallyPrinted`, `ShutdownEnds`), which is out of reach of the prover.

## 5. Plan

What is modelled is checked and, but for `PacketAddresses` and liveness, proved.
What could be added:

1. The handlers of requests and relayed packets in `WifiThreads`, and the datagrams
   of the other nodes as those of `Mesh`, so that `WifiThreads` implements one node
   of `Mesh` and not only `PacketJourney`.
2. Recovery: that a route lost to a NACK is found again by a later request, as a
   liveness property of `Mesh` with a clock that goes on.
3. Sequence numbers that wrap around, with a bound on the packets pending at a time:
   `seq` has 32 bits, and a NACK that no timeout removes may stay pending.

At most a dozen runs are kept: when a module is added, runs of single statements
are merged or give way to it.

Not modelled and not planned: interface configuration (`net/netif.cpp`,
`net/ctlsocket.cpp`) and socket options, which are calls to the kernel with no
state of the program's own; `net/sockaddress.cpp` beyond the address inside
and texts with an IPv4 address in them, which no address of the mesh has;
`net/tcpsocket.cpp`, `RoutingTable::clean` and the try and timed operations of
the queue, which nothing uses; the text of the log.
