-------------------------------- MODULE Mesh --------------------------------
(***************************************************************************)
(* A mesh of nodes running src/mesh/wifi.cpp, connected by lossy wireless  *)
(* broadcast.  Every handler of class Wifi is one action of one node:      *)
(*   Send               Wifi::send, called by the Tun2Wifi thread           *)
(*   ReceiveRRequest .. ReceiveAck    the handlers of the WifiRecv thread   *)
(*   ClearOutdated      Wifi::clearOutdatedPackets, the cleaning thread     *)
(* The interleavings inside a handler are not in this module, nor are the   *)
(* failures of sendto and recv.                                             *)
(***************************************************************************)
EXTENDS RoutingTable, Sequences

CONSTANTS
  Node,            \* addresses that belong to a running instance
  InRange,         \* pairs <<a, b>>: b hears what a broadcasts
  Packet,          \* IPv6 packets the hosts hand to the tun device
  Src, Dst,        \* source and destination address of each packet
  Never,           \* stands for "no entry" in pendingRReplies
  RRequestDelay,   \* RREQUEST_EXPIRATION_DELAY, in clock ticks
  AckDelay,        \* ACK_EXPIRATION_DELAY, in clock ticks
  MaxHops,         \* the bound 100 on RRequestPacket::n
  Lossy,           \* TRUE if a datagram may miss some of its receivers
  MaxNow,          \* bound on the clock, for model checking only
  MaxInbox         \* a datagram is lost on a receiver that holds this many

ASSUME NodeAssumption == Node \subseteq Address
ASSUME PacketAssumption == Src \in [Packet -> Node] /\ Dst \in [Packet -> Address]
ASSUME RangeAssumption == InRange \subseteq Node \X Node
ASSUME NeverAssumption == Never \notin Nat
ASSUME DelayAssumption ==
  /\ RRequestDelay \in Nat
  /\ AckDelay \in Nat
  /\ MaxHops \in Nat \ {0}
  /\ MaxNow \in Nat
  /\ Lossy \in BOOLEAN

VARIABLES
  now,                  \* second_clock, common to all nodes
  up,                   \* nodes whose process has not aborted
  routes,               \* Wifi::routingTable of each node
  seq,                  \* Wifi::seq
  pendingRReplies,      \* destination -> time of the last request, or Never
  packetsToSend,        \* destination -> packets waiting for a route
  pendingAcks,          \* records [id, nack]: NACK to send if no ACK comes
  pendingAckSequences,  \* records [at, id]: second of sending -> packet id
  recvQueue,            \* packets handed over to the Wifi2Tun thread
  inbox,                \* datagrams in flight to each node, oldest first
  submitted,            \* packets already read from the tun device
  routeLost             \* history: some table has lost or replaced an entry

vars == <<now, up, routes, seq, pendingRReplies, packetsToSend, pendingAcks,
          pendingAckSequences, recvQueue, inbox, submitted, routeLost>>

ackVars == <<seq, pendingAcks, pendingAckSequences>>
-----------------------------------------------------------------------------
(* The packets of src/mesh: what a header-by-header build and parse carry. *)

RRequestPacket(source, destination, sender, n) ==
  [type |-> "RREQ", source |-> source, destination |-> destination,
   sender |-> sender, n |-> n]

RReplyPacket(source, destination, sender, nexthop, n) ==
  [type |-> "RREP", source |-> source, destination |-> destination,
   sender |-> sender, nexthop |-> nexthop, n |-> n]

PktPacket(p, nexthop, s) ==
  [type |-> "PKT", source |-> Src[p], destination |-> Dst[p],
   nexthop |-> nexthop, seq |-> s, data |-> p]

AckPacket(source, destination, nexthop, s) ==
  [type |-> "ACK", source |-> source, destination |-> destination,
   nexthop |-> nexthop, seq |-> s]

NAckPacket(source, destination, nexthop) ==
  [type |-> "NACK", source |-> source, destination |-> destination,
   nexthop |-> nexthop]

RReqMsg == [type: {"RREQ"}, source: Address, destination: Address,
            sender: Address, n: 1 .. MaxHops]
RRepMsg == [type: {"RREP"}, source: Address, destination: Address,
            sender: Address, nexthop: Address, n: Nat]
PktMsg  == [type: {"PKT"}, source: Address, destination: Address,
            nexthop: Address, seq: Nat, data: Packet]
AckMsg  == [type: {"ACK"}, source: Address, destination: Address,
            nexthop: Address, seq: Nat]
NAckMsg == [type: {"NACK"}, source: Address, destination: Address,
            nexthop: Address]
Message == RReqMsg \cup RRepMsg \cup PktMsg \cup AckMsg \cup NAckMsg

\* Wifi::sequenceIdentifier.
SeqId == Address \X Nat

\* A broadcast reaches the nodes in range, and the sender itself: the kernel
\* loops a broadcast datagram back to the socket bound to 255.255.255.255.
Hears(n) == {r \in up : r = n \/ <<n, r>> \in InRange}

Elements(s) == {s[i] : i \in DOMAIN s}

\* What one receiver may get of the datagrams ms, sent in this order: all of
\* them or, on a lossy medium, a subsequence.
Heard(ms) ==
  IF ~Lossy THEN {ms}
  ELSE {h \in UNION {[1 .. k -> Elements(ms)] : k \in 0 .. Len(ms)} :
          \E at \in [DOMAIN h -> DOMAIN ms] :
            /\ \A i \in DOMAIN h : h[i] = ms[at[i]]
            /\ \A i, j \in DOMAIN h : i < j => at[i] < at[j]}

\* Node n broadcasts ms, one after the other; box is what is in flight before.
\* Nothing overtakes: the receivers' socket buffers are first-in first-out.
Broadcast(n, box, ms) ==
  \E heard \in [Hears(n) -> Heard(ms)] :
    /\ \A r \in Hears(n) : Lossy => Len(box[r]) + Len(heard[r]) <= MaxInbox
    /\ inbox' = [r \in Node |->
                   IF r \in Hears(n) THEN box[r] \o heard[r] ELSE box[r]]
-----------------------------------------------------------------------------
Init ==
  /\ now = 0
  /\ up = Node
  /\ routes = [n \in Node |-> EmptyTable]
  /\ seq = [n \in Node |-> 0]
  /\ pendingRReplies = [n \in Node |-> [d \in Address |-> Never]]
  /\ packetsToSend = [n \in Node |-> [d \in Address |-> <<>>]]
  /\ pendingAcks = [n \in Node |-> {}]
  /\ pendingAckSequences = [n \in Node |-> {}]
  /\ recvQueue = [n \in Node |-> <<>>]
  /\ inbox = [n \in Node |-> <<>>]
  /\ submitted = {}
  /\ routeLost = FALSE

\* Whether an entry of a routing table disappears or is replaced in the step.
NoteLoss ==
  routeLost' = (routeLost \/ \E n \in Node, d \in Address :
                               routes[n][d] \notin {NoRoute, routes'[n][d]})

\* Both maps are filled with std::map::insert, which keeps an old entry.
\* pendingAckSequences is keyed by the second of the clock.
Track(n, id, nack) ==
  /\ pendingAcks' =
       IF \E a \in pendingAcks[n] : a.id = id
         THEN pendingAcks
         ELSE [pendingAcks EXCEPT ![n] = @ \cup {[id |-> id, nack |-> nack]}]
  /\ pendingAckSequences' =
       IF \E s \in pendingAckSequences[n] : s.at = now
         THEN pendingAckSequences
         ELSE [pendingAckSequences EXCEPT ![n] = @ \cup {[at |-> now, id |-> id]}]

\* Mutant: the number is read and not incremented.
IncSeqForgotten(n) == seq

\* The numbering of the packets of this node (atomic_inc32 on seq).
IncSeq(n) == [seq EXCEPT ![n] = @ + 1]

\* Wifi::send(IPv6Packet, nextHop): one broadcast under the next number, and
\* a NACK from this node to itself, kept until the ACK comes.  box is what is
\* in flight before.
SendTo(n, p, nextHop, box) ==
  /\ Broadcast(n, box, <<PktPacket(p, nextHop, seq[n])>>)
  /\ seq' = IncSeq(n)
  /\ Track(n, <<Src[p], seq[n]>>, NAckPacket(n, Dst[p], n))

\* A request is due unless one was sent at most RRequestDelay ago.
RequestDue(n, d) ==
  \/ pendingRReplies[n][d] = Never
  \/ now > pendingRReplies[n][d] + RRequestDelay

\* The request itself; insert does not refresh an old time of sending.
DiscoverRoute(n, d) ==
  IF RequestDue(n, d)
    THEN /\ Broadcast(n, inbox, <<RRequestPacket(n, d, n, 1)>>)
         /\ pendingRReplies' =
              IF pendingRReplies[n][d] = Never
                THEN [pendingRReplies EXCEPT ![n][d] = now]
                ELSE pendingRReplies
    ELSE UNCHANGED <<inbox, pendingRReplies>>

\* The insertion with a hint changes nothing when the key is there: only the
\* first packet for a destination enters the waiting queue.
Enqueue(n, p) ==
  packetsToSend' = IF packetsToSend[n][Dst[p]] = <<>>
                     THEN [packetsToSend EXCEPT ![n][Dst[p]] = <<p>>]
                     ELSE packetsToSend

\* Mutant: the packets of the queue are sent and stay in it.
EraseQueueForgotten(n, d) == packetsToSend

\* The queue of a destination whose packets have left is erased.
EraseQueue(n, d) == [packetsToSend EXCEPT ![n][d] = <<>>]

\* Wifi::send(IPv6Packet) on a packet just read from the tun device.
Send(n, p) ==
  LET route == GetRoute(routes[n], Dst[p], now) IN
  /\ n \in up
  /\ Src[p] = n
  /\ p \notin submitted
  /\ submitted' = submitted \cup {p}
  /\ routes' = [routes EXCEPT ![n] = TableAfterGet(@, Dst[p], now)]
  /\ \/ /\ route = NoRoute
        /\ DiscoverRoute(n, Dst[p])
        /\ Enqueue(n, p)
        /\ UNCHANGED ackVars
     \/ /\ route # NoRoute
        /\ SendTo(n, p, route.nextHop, inbox)
        /\ UNCHANGED <<pendingRReplies, packetsToSend>>
  /\ NoteLoss
  /\ UNCHANGED <<now, up, recvQueue>>
-----------------------------------------------------------------------------
\* recvRun hands the oldest datagram of the socket to the handler of its
\* method; Rest is what stays in flight.
Receives(n, type) == n \in up /\ inbox[n] # <<>> /\ Head(inbox[n]).type = type
Rest(n) == [inbox EXCEPT ![n] = Tail(@)]

\* The datagram is taken and the handler sends ms in its place.
Exchange(n, ms) == Broadcast(n, Rest(n), ms)

\* Every datagram is a broadcast: a node takes a unicast packet for its own
\* when the packet names it as the next hop.
AddressedTo(n, m) == m.nexthop = n

\* Mutant: the request is answered without a look at the table.
RRequestAnswerAlways(n, m, table) ==
  <<RReplyPacket(m.destination, m.source, n, m.sender, 1)>>

\* Mutant: one comparison too far in the limit on n.
RRequestAnswerTooFar(n, m, table) ==
  IF m.destination # n /\ m.n <= MaxHops THEN <<[m EXCEPT !.n = @ + 1]>> ELSE <<>>

\* Mutant: the request is forwarded without counting the hop.
RRequestAnswerUncounted(n, m, table) ==
  IF m.destination # n /\ m.n < MaxHops THEN <<m>> ELSE <<>>

\* Mutant: a relay reports its own distance to the destination as it is.
RRequestAnswerNoHop(n, m, table) ==
  LET toDestination == GetRoute(table, m.destination, now) IN
  IF m.destination = n
    THEN <<RReplyPacket(n, m.source, n, m.sender, 1)>>
  ELSE IF toDestination # NoRoute
    THEN <<RReplyPacket(m.destination, m.source, n, m.sender, toDestination.hops)>>
  ELSE IF m.n < MaxHops
    THEN <<[m EXCEPT !.n = @ + 1]>>
  ELSE <<>>

\* What receiveRRequest answers, given the table it has updated.
RRequestAnswer(n, m, table) ==
  LET toDestination == GetRoute(table, m.destination, now) IN
  IF m.destination = n
    THEN <<RReplyPacket(n, m.source, n, m.sender, 1)>>
  ELSE IF toDestination # NoRoute
    THEN <<RReplyPacket(m.destination, m.source, n, m.sender, toDestination.hops + 1)>>
  ELSE IF m.n < MaxHops
    THEN <<[m EXCEPT !.n = @ + 1]>>
  ELSE <<>>

\* Mutant: a request that comes by the way already known is refused too.
CloserOrEqual(route, hops) == route # NoRoute /\ route.hops <= hops

\* The way back to the requester is already known, in fewer hops.
Closer(route, hops) == route # NoRoute /\ route.hops < hops

ReceiveRRequest(n) ==
  LET m == Head(inbox[n])
      withSender == AddRoute(routes[n], m.sender, NewRoute(m.sender, 1, now))
      toSource == GetRoute(withSender, m.source, now)
      looked == TableAfterGet(withSender, m.source, now)
      withSource == AddRoute(looked, m.source, NewRoute(m.sender, m.n, now))
  IN
  /\ Receives(n, "RREQ")
  /\ \/ /\ Closer(toSource, m.n)
        /\ routes' = [routes EXCEPT ![n] = looked]
        /\ inbox' = Rest(n)
     \/ /\ ~Closer(toSource, m.n)
        /\ routes' = [routes EXCEPT ![n] =
                        IF m.destination = n THEN withSource
                        ELSE TableAfterGet(withSource, m.destination, now)]
        /\ Exchange(n, RRequestAnswer(n, m, withSource))
  /\ NoteLoss
  /\ UNCHANGED <<now, up, seq, pendingRReplies, packetsToSend, pendingAcks,
                 pendingAckSequences, recvQueue, submitted>>

\* The waiting packets leave through the sender of the reply, in order.  The
\* queue never holds more than one packet (see Enqueue), hence no loop.
ReceiveRReply(n) ==
  LET m == Head(inbox[n])
      route == NewRoute(m.sender, m.n, now)
      waiting == packetsToSend[n][m.source]
  IN
  /\ Receives(n, "RREP")
  /\ \/ /\ ~AddressedTo(n, m)
        /\ inbox' = Rest(n)
        /\ UNCHANGED <<routes, ackVars, packetsToSend>>
     \/ /\ AddressedTo(n, m)
        /\ routes' = [routes EXCEPT ![n] =
                        AddRoute(AddRoute(@, m.source, route), m.sender, route)]
        /\ \/ /\ m.destination # n \/ waiting = <<>>
              /\ inbox' = Rest(n)
              /\ UNCHANGED <<ackVars, packetsToSend>>
           \/ /\ m.destination = n /\ waiting # <<>>
              /\ SendTo(n, Head(waiting), m.sender, Rest(n))
              /\ packetsToSend' = EraseQueue(n, m.source)
  /\ NoteLoss
  /\ UNCHANGED <<now, up, pendingRReplies, recvQueue, submitted>>

\* A PKT for this hop is acknowledged first.  It is then delivered, or
\* forwarded, or, when getRoute answers nothing, the process aborts: the
\* empty pointer is read for the NACK before it is tested.
ReceivePkt(n) ==
  LET m == Head(inbox[n])
      ack == AckPacket(m.source, m.destination, m.nexthop, m.seq)
      route == GetRoute(routes[n], m.destination, now)
  IN
  /\ Receives(n, "PKT")
  /\ \/ /\ ~AddressedTo(n, m)
        /\ inbox' = Rest(n)
        /\ UNCHANGED <<up, routes, pendingAcks, pendingAckSequences, recvQueue>>
     \/ /\ AddressedTo(n, m) /\ m.destination = n
        /\ Exchange(n, <<ack>>)
        /\ recvQueue' = [recvQueue EXCEPT ![n] = Append(@, m.data)]
        /\ UNCHANGED <<up, routes, pendingAcks, pendingAckSequences>>
     \/ /\ AddressedTo(n, m) /\ m.destination # n
        /\ routes' = [routes EXCEPT ![n] = TableAfterGet(@, m.destination, now)]
        /\ \/ /\ route = NoRoute
              /\ Exchange(n, <<ack>>)
              /\ up' = up \ {n}
              /\ UNCHANGED <<pendingAcks, pendingAckSequences>>
           \/ /\ route # NoRoute
              /\ Exchange(n, <<ack, [m EXCEPT !.nexthop = route.nextHop]>>)
              /\ Track(n, <<m.source, m.seq>>,
                       NAckPacket(m.destination, m.source, route.nextHop))
              /\ UNCHANGED up
        /\ UNCHANGED recvQueue
  /\ NoteLoss
  /\ UNCHANGED <<now, seq, pendingRReplies, packetsToSend, submitted>>

ReceiveAck(n) ==
  LET m == Head(inbox[n]) IN
  /\ Receives(n, "ACK")
  /\ inbox' = Rest(n)
  /\ pendingAcks' = [pendingAcks EXCEPT ![n] =
                       {a \in @ : a.id # <<m.source, m.seq>>}]
  /\ UNCHANGED <<now, up, routes, seq, pendingRReplies, packetsToSend,
                 pendingAckSequences, recvQueue, submitted, routeLost>>

\* Mutant: a NACK for another hop, which everybody in range hears, is taken.
ReceiveNAckOverheard(n) ==
  LET m == Head(inbox[n])
      invalidated == InvalidateRoute(routes[n], m.source)
      route == GetRoute(invalidated, m.destination, now)
  IN
  /\ Receives(n, "NACK")
  /\ routes' = [routes EXCEPT ![n] =
                  TableAfterGet(invalidated, m.destination, now)]
  /\ IF m.destination = n \/ route = NoRoute
       THEN inbox' = Rest(n)
       ELSE Exchange(n, <<[m EXCEPT !.nexthop = route.nextHop]>>)
  /\ NoteLoss
  /\ UNCHANGED <<now, up, ackVars, pendingRReplies, packetsToSend, recvQueue,
                 submitted>>

ReceiveNAck(n) ==
  LET m == Head(inbox[n])
      invalidated == InvalidateRoute(routes[n], m.source)
      route == GetRoute(invalidated, m.destination, now)
  IN
  /\ Receives(n, "NACK")
  /\ \/ /\ ~AddressedTo(n, m)
        /\ inbox' = Rest(n)
        /\ UNCHANGED routes
     \/ /\ AddressedTo(n, m)
        /\ routes' = [routes EXCEPT ![n] =
                        TableAfterGet(invalidated, m.destination, now)]
        /\ IF m.destination = n \/ route = NoRoute
             THEN inbox' = Rest(n)
             ELSE Exchange(n, <<[m EXCEPT !.nexthop = route.nextHop]>>)
  /\ NoteLoss
  /\ UNCHANGED <<now, up, ackVars, pendingRReplies, packetsToSend, recvQueue,
                 submitted>>
-----------------------------------------------------------------------------
\* Mutant: the requests are forgotten and the packets left.
EraseWaitingForgotten(n, ds) == packetsToSend

\* The queues of the destinations ds are erased.
EraseWaiting(n, ds) ==
  [packetsToSend EXCEPT ![n] = [d \in Address |-> IF d \in ds THEN <<>> ELSE @[d]]]

\* Wifi::clearOutdatedPackets: requests without an answer are forgotten with
\* the packets that wait for them, packets without an ACK are reported, the
\* oldest first.
ClearOutdated(n) ==
  LET unanswered == {d \in Address : /\ pendingRReplies[n][d] # Never
                                     /\ RequestDue(n, d)}
      late == {s \in pendingAckSequences[n] : now > s.at + AckDelay}
      lost == {a \in pendingAcks[n] : \E s \in late : s.id = a.id}
      sentAt(a) == CHOOSE t \in 0 .. now :
                     /\ [at |-> t, id |-> a.id] \in late
                     /\ \A s \in late : s.id = a.id => t <= s.at
  IN
  /\ n \in up
  /\ pendingRReplies' = [pendingRReplies EXCEPT ![n] =
                           [d \in Address |-> IF d \in unanswered THEN Never ELSE @[d]]]
  /\ packetsToSend' = EraseWaiting(n, unanswered)
  /\ \E k \in 0 .. now : \E reports \in [1 .. k -> lost] :
       /\ \A a \in lost : \E i \in 1 .. k : reports[i] = a
       /\ \A i, j \in 1 .. k : i < j => sentAt(reports[i]) < sentAt(reports[j])
       /\ Broadcast(n, inbox, [i \in 1 .. k |-> reports[i].nack])
  /\ pendingAcks' = [pendingAcks EXCEPT ![n] = @ \ lost]
  /\ pendingAckSequences' = [pendingAckSequences EXCEPT ![n] = @ \ late]
  /\ UNCHANGED <<now, up, routes, seq, recvQueue, submitted, routeLost>>

\* The clock advances (bounded by MaxNow).
Tick ==
  /\ now < MaxNow
  /\ now' = now + 1
  /\ UNCHANGED <<up, routes, seq, pendingRReplies, packetsToSend, pendingAcks,
                 pendingAckSequences, recvQueue, inbox, submitted, routeLost>>
-----------------------------------------------------------------------------
Receive(n) ==
  \/ ReceiveRRequest(n)
  \/ ReceiveRReply(n)
  \/ ReceivePkt(n)
  \/ ReceiveAck(n)
  \/ ReceiveNAck(n)

Next ==
  \/ \E n \in Node, p \in Packet : Send(n, p)
  \/ \E n \in Node : Receive(n)
  \/ \E n \in Node : ClearOutdated(n)
  \/ Tick

Spec == Init /\ [][Next]_vars

\* The WifiRecv thread reads its socket as long as something is there.
FairSpec == Spec /\ \A n \in Node : WF_vars(Receive(n))
-----------------------------------------------------------------------------
\* Typing.  One bound goes beyond the shape of the state: no request is sent
\* with N above MaxHops (N is "utilise aussi en tant que TTL" in
\* doc/protocol.txt).
TypeOK ==
  /\ now \in Nat
  /\ up \subseteq Node
  /\ routes \in [Node -> Table]
  /\ seq \in [Node -> Nat]
  /\ pendingRReplies \in [Node -> [Address -> Nat \cup {Never}]]
  /\ packetsToSend \in [Node -> [Address -> Seq(Packet)]]
  /\ pendingAcks \in [Node -> SUBSET [id: SeqId, nack: NAckMsg]]
  /\ pendingAckSequences \in [Node -> SUBSET [at: Nat, id: SeqId]]
  /\ recvQueue \in [Node -> Seq(Packet)]
  /\ inbox \in [Node -> Seq(Message)]
  /\ submitted \subseteq Packet
  /\ routeLost \in BOOLEAN

\* The datagrams in flight to a node, without their order.
Datagrams(n) == Elements(inbox[n])

\* A route leads to a node that exists, through a node that exists: a node
\* never answers for a destination it has no route to (receiveRRequest).
NoRouteToNobody ==
  \A n \in Node, d \in Address :
    routes[n][d] # NoRoute => d \in Node /\ routes[n][d].nextHop \in Node

\* A packet reaches the tun device of its destination only, and once: it is
\* at one place at a time, waiting, in one datagram, or delivered, whatever
\* the replies, the acknowledgements and the loops of the routes do.
AtMostOnceDelivery ==
  /\ \A n \in Node : \A i \in DOMAIN recvQueue[n] : Dst[recvQueue[n][i]] = n
  /\ \A n \in Node : \A i, j \in DOMAIN recvQueue[n] :
       recvQueue[n][i] = recvQueue[n][j] => i = j

IsWaiting(p) ==
  LET queue == packetsToSend[Src[p]][Dst[p]] IN \E i \in DOMAIN queue : queue[i] = p

IsDelivered(p) ==
  Dst[p] \in Node /\ \E i \in DOMAIN recvQueue[Dst[p]] : recvQueue[Dst[p]][i] = p

\* Somebody will take it for its own.  The copies that a broadcast leaves with
\* the other nodes do not count.
InFlight(p) ==
  \E n \in Node : \E i \in DOMAIN inbox[n] :
    inbox[n][i].type = "PKT" /\ inbox[n][i].data = p /\ inbox[n][i].nexthop = n

\* The refinement mapping: where a packet is.
PlaceOf(p) ==
  IF p \notin submitted THEN "host"
  ELSE IF IsWaiting(p) THEN "waiting"
  ELSE IF InFlight(p) THEN "air"
  ELSE IF IsDelivered(p) THEN "delivered"
  ELSE "lost"

Journey == INSTANCE PacketJourney WITH
  place <- [p \in Packet |-> PlaceOf(p)],
  delivered <- recvQueue

\* The life of a packet: whatever replies, expired routes, routing loops and
\* losses do to it, it goes from its host to the queue or the air, from there
\* to its destination's host or into nothing, and never back.
ImplementsJourney == Journey!Spec

\* A packet waits for a route only as long as the time of a request is there
\* to end the waiting: whoever removes that time, or queues a packet without a
\* new request, the cleaner still finds the way to the packet.
WaitingIsWatched ==
  \A n \in Node, d \in Address :
    packetsToSend[n][d] # <<>> => pendingRReplies[n][d] # Never

\* The pair (source, seq) that acknowledgements name stands for one packet.
UniqueSequence ==
  \A m, n \in Node : \A p \in Datagrams(m), q \in Datagrams(n) :
    /\ p.type = "PKT" /\ q.type = "PKT"
    /\ p.source = q.source /\ p.seq = q.seq
    => p.data = q.data

\* As long as no table has lost a route, following next hops gets closer to
\* the destination at each hop: there is no routing loop.
NoLoop ==
  ~routeLost =>
    \A n \in Node, d \in Address :
      LET r == routes[n][d] IN
      r # NoRoute /\ r.nextHop # d =>
        /\ routes[r.nextHop][d] # NoRoute
        /\ routes[r.nextHop][d].hops < r.hops

\* As long as no table has lost a route, no node is handed a packet it has no
\* route for, the case where receivePkt reads an empty pointer.
NoCrashBeforeLoss == ~routeLost => up = Node

\* A node gives up a way to a destination only when it is too old, or for a
\* NACK about the destination that is addressed to the node: never for another
\* way that a request, a reply or somebody else's NACK tells of.
LossHasCause ==
  [][\A n \in Node, d \in Address :
       routes[n][d] \notin {NoRoute, routes'[n][d]} =>
         \/ HasExpired(routes[n][d], now)
         \/ LET m == Head(inbox[n]) IN
            Receives(n, "NACK") /\ AddressedTo(n, m) /\ m.source = d]_vars

\* The two properties above hold for a while at least: before the first route
\* or the first acknowledgement is too old, no table has lost a route.
NoEarlyLoss == routeLost => now > RouteExpirationDelay \/ now > AckDelay

\* A route request dies out: the nodes do not forward it for ever.
FloodDies ==
  <>[](\A n \in up : \A m \in Datagrams(n) : m.type # "RREQ")

\* When nothing is lost or late, packets for a node in range get through: the
\* discovery of the route ends, and lets go of the packet that waits for it.
\* It is one of those for the same destination (see Enqueue).
NeighbourDelivery ==
  \A p \in Packet :
    p \in submitted /\ <<Src[p], Dst[p]>> \in InRange
    ~> \E q \in Packet : Src[q] = Src[p] /\ Dst[q] = Dst[p] /\ IsDelivered(q)

\* The same for every node the requests could reach in MaxHops hops (the N of
\* doc/protocol.txt, "limite pifometriquement a 100").  Violated: a relay
\* leaves its neighbour's address in Sender, so that the next node takes the
\* requester for a neighbour and then finds the request itself outdated.
MeshDelivery ==
  \A p \in Packet : p \in submitted /\ Dst[p] \in Node ~> IsDelivered(p)
-----------------------------------------------------------------------------
(* What the documents and the comments say and the code does not do.       *)

\* A relay that has no route answers with a NACK, "Route error", and lives on.
\* Violated: receivePkt reads the empty pointer first.
NoCrash == up = Node

\* A NACK goes to the source of the PKT ("Destination: Source du PKT").
\* Violated: the node that sends its own packet puts the two ends the other
\* way round.
NackGoesToSource ==
  \A n \in Node : \A a \in pendingAcks[n] : a.nack.destination = a.id[1]
=============================================================================
