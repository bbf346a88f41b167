----------------------------- MODULE MeshProofs -----------------------------
(***************************************************************************)
(* What holds of the mesh for every set of nodes, every topology, every    *)
(* set of packets, every delay and every limit.                            *)
(***************************************************************************)
EXTENDS Mesh, TLAPS

(* Typing of the parts a step is made of. *)

\* The packets the handlers build are messages.
LEMMA MessageTypes ==
  /\ \A s, d, e \in Address, k \in 1 .. MaxHops : RRequestPacket(s, d, e, k) \in Message
  /\ \A s, d, e, h \in Address, k \in Nat : RReplyPacket(s, d, e, h, k) \in Message
  /\ \A p \in Packet, h \in Address, k \in Nat : PktPacket(p, h, k) \in Message
  /\ \A s, d, h \in Address, k \in Nat : AckPacket(s, d, h, k) \in Message
  /\ \A s, d, h \in Address : NAckPacket(s, d, h) \in NAckMsg
  /\ NAckMsg \subseteq Message
BY PacketAssumption, NodeAssumption
DEF Message, RReqMsg, RRepMsg, PktMsg, AckMsg, NAckMsg, RRequestPacket,
    RReplyPacket, PktPacket, AckPacket, NAckPacket

\* The method of a message tells its fields.
LEMMA MessageFields ==
  ASSUME NEW m \in Message
  PROVE  /\ m.type = "RREQ" => m \in RReqMsg
         /\ m.type = "RREP" => m \in RRepMsg
         /\ m.type = "PKT"  => m \in PktMsg
         /\ m.type = "ACK"  => m \in AckMsg
         /\ m.type = "NACK" => m \in NAckMsg
BY DEF Message, RReqMsg, RRepMsg, PktMsg, AckMsg, NAckMsg

\* The operations of the table give tables and routes.
LEMMA TableTypes ==
  ASSUME NEW table \in Table, NEW d \in Address, NEW t \in Nat
  PROVE  /\ GetRoute(table, d, t) \in Route \cup {NoRoute}
         /\ TableAfterGet(table, d, t) \in Table
         /\ InvalidateRoute(table, d) \in Table
         /\ \A route \in Route : AddRoute(table, d, route) \in Table
BY DEF Table, GetRoute, TableAfterGet, InvalidateRoute, AddRoute

\* A new route is a route.
LEMMA NewRouteType ==
  ASSUME NEW h \in Address, NEW k \in Nat, NEW t \in Nat
  PROVE  NewRoute(h, k, t) \in Route
BY DEF NewRoute, Route

\* A receiver gets nothing that was not sent.
LEMMA HeardSent ==
  ASSUME NEW S, NEW ms \in Seq(S), NEW h \in Heard(ms)
  PROVE  /\ h \in Seq(S)
         /\ Elements(h) \subseteq Elements(ms)
<1>1. Elements(ms) \subseteq S
  BY DEF Elements
<1>2. CASE ~Lossy
  BY <1>2 DEF Heard
<1>3. CASE Lossy
  <2>1. PICK k \in 0 .. Len(ms) : h \in [1 .. k -> Elements(ms)]
    BY <1>3 DEF Heard
  <2>2. k \in Nat
    OBVIOUS
  <2>3. h \in [1 .. k -> S]
    BY <1>1, <2>1
  <2>4. h \in Seq(S)
    BY <2>2, <2>3
  <2> QED
    BY <2>1, <2>4 DEF Elements
<1> QED
  BY <1>2, <1>3

\* After a broadcast a node holds what it held and some of what was sent.
LEMMA BroadcastEffect ==
  ASSUME NEW n, NEW box \in [Node -> Seq(Message)], NEW ms \in Seq(Message),
         Broadcast(n, box, ms)
  PROVE  /\ inbox' \in [Node -> Seq(Message)]
         /\ \A r \in Node : Elements(inbox'[r]) \subseteq Elements(box[r]) \cup Elements(ms)
<1>1. PICK heard \in [Hears(n) -> Heard(ms)] :
        inbox' = [r \in Node |-> IF r \in Hears(n) THEN box[r] \o heard[r] ELSE box[r]]
  BY DEF Broadcast
<1>2. ASSUME NEW r \in Node
      PROVE  /\ inbox'[r] \in Seq(Message)
             /\ Elements(inbox'[r]) \subseteq Elements(box[r]) \cup Elements(ms)
  <2>1. CASE r \in Hears(n)
    <3>1. heard[r] \in Seq(Message) /\ Elements(heard[r]) \subseteq Elements(ms)
      BY <1>1, <2>1, HeardSent
    <3>2. box[r] \in Seq(Message) /\ inbox'[r] = box[r] \o heard[r]
      BY <1>1, <2>1
    <3>3. ASSUME NEW i \in DOMAIN inbox'[r]
          PROVE  inbox'[r][i] \in Elements(box[r]) \cup Elements(heard[r])
      BY <3>1, <3>2 DEF Elements
    <3>4. Elements(inbox'[r]) \subseteq Elements(box[r]) \cup Elements(heard[r])
      BY <3>3 DEF Elements
    <3>5. inbox'[r] \in Seq(Message)
      BY <3>1, <3>2
    <3> QED
      BY <3>1, <3>4, <3>5
  <2>2. CASE r \notin Hears(n)
    BY <1>1, <2>2
  <2> QED
    BY <2>1, <2>2
<1>3. inbox' \in [Node -> Seq(Message)]
  BY <1>1, <1>2
<1> QED
  BY <1>2, <1>3

\* Taking the oldest datagram of a node leaves the others.
LEMMA RestEffect ==
  ASSUME inbox \in [Node -> Seq(Message)], NEW n \in Node, inbox[n] # <<>>
  PROVE  /\ Head(inbox[n]) \in Message
         /\ Head(inbox[n]) \in Datagrams(n)
         /\ Rest(n) \in [Node -> Seq(Message)]
         /\ \A r \in Node : Elements(Rest(n)[r]) \subseteq Datagrams(r)
<1>1. inbox[n] \in Seq(Message)
  OBVIOUS
<1>2. Tail(inbox[n]) \in Seq(Message)
  BY <1>1
<1>3. Elements(Tail(inbox[n])) \subseteq Elements(inbox[n])
  BY <1>1 DEF Elements
<1>4. Head(inbox[n]) \in Message /\ Head(inbox[n]) \in Elements(inbox[n])
  BY <1>1 DEF Elements
<1> QED
  BY <1>1, <1>2, <1>3, <1>4 DEF Rest, Datagrams

\* What short sequences hold.
LEMMA SingletonElements ==
  /\ Elements(<<>>) = {}
  /\ \A m : Elements(<<m>>) = {m}
  /\ \A k, m : Elements(<<k, m>>) = {k, m}
BY DEF Elements

\* The two ways a step leaves the network.
LEMMA Sent ==
  ASSUME TypeOK, NEW n, NEW ms \in Seq(Message), Broadcast(n, inbox, ms)
  PROVE  /\ inbox' \in [Node -> Seq(Message)]
         /\ \A r \in Node : Datagrams(r)' \subseteq Datagrams(r) \cup Elements(ms)
BY BroadcastEffect DEF TypeOK, Datagrams

\* A handler takes the oldest datagram and sends ms, or just takes it.
LEMMA Exchanged ==
  ASSUME TypeOK, NEW n \in Node, inbox[n] # <<>>, NEW ms \in Seq(Message),
         Exchange(n, ms) \/ inbox' = Rest(n)
  PROVE  /\ inbox' \in [Node -> Seq(Message)]
         /\ \A r \in Node : Datagrams(r)' \subseteq Datagrams(r) \cup Elements(ms)
<1>1. /\ Rest(n) \in [Node -> Seq(Message)]
      /\ \A r \in Node : Elements(Rest(n)[r]) \subseteq Datagrams(r)
  BY RestEffect DEF TypeOK
<1>2. CASE inbox' = Rest(n)
  BY <1>1, <1>2 DEF Datagrams
<1>3. CASE Exchange(n, ms)
  <2>1. /\ inbox' \in [Node -> Seq(Message)]
        /\ \A r \in Node : Elements(inbox'[r]) \subseteq Elements(Rest(n)[r]) \cup Elements(ms)
    BY <1>1, <1>3, BroadcastEffect DEF Exchange
  <2> QED
    BY <1>1, <2>1 DEF Datagrams
<1> QED
  BY <1>2, <1>3

\* The same for no message, one message and two.
LEMMA Taken ==
  ASSUME TypeOK, NEW n \in Node, inbox[n] # <<>>, inbox' = Rest(n)
  PROVE  /\ inbox' \in [Node -> Seq(Message)]
         /\ \A r \in Node : \A k \in Datagrams(r)' : k \in Datagrams(r)
<1>1. <<>> \in Seq(Message)
  OBVIOUS
<1> QED
  BY <1>1, Exchanged, SingletonElements

\* One message.
LEMMA SentOne ==
  ASSUME TypeOK, NEW n \in Node, NEW m \in Message,
         \/ Broadcast(n, inbox, <<m>>)
         \/ inbox[n] # <<>> /\ Exchange(n, <<m>>)
  PROVE  /\ inbox' \in [Node -> Seq(Message)]
         /\ \A r \in Node : \A k \in Datagrams(r)' : k \in Datagrams(r) \/ k = m
<1>1. <<m>> \in Seq(Message) /\ Elements(<<m>>) = {m}
  BY SingletonElements
<1>2. CASE Broadcast(n, inbox, <<m>>)
  BY <1>1, <1>2, Sent
<1>3. CASE inbox[n] # <<>> /\ Exchange(n, <<m>>)
  BY <1>1, <1>3, Exchanged
<1> QED
  BY <1>2, <1>3

\* Two messages: receivePkt acknowledges and forwards.
LEMMA ExchangedTwo ==
  ASSUME TypeOK, NEW n \in Node, NEW j \in Message, NEW m \in Message,
         inbox[n] # <<>>, Exchange(n, <<j, m>>)
  PROVE  /\ inbox' \in [Node -> Seq(Message)]
         /\ \A r \in Node : \A k \in Datagrams(r)' : k \in Datagrams(r) \/ k = j \/ k = m
<1>1. <<j, m>> \in Seq(Message) /\ Elements(<<j, m>>) = {j, m}
  BY SingletonElements
<1> QED
  BY <1>1, Exchanged
-----------------------------------------------------------------------------
(* What each handler puts on the air: every datagram in flight after the    *)
(* step was there before or is one of those its lemma names.                *)

\* send broadcasts a request, or the packet along a route of the table.
LEMMA SendEffect ==
  ASSUME TypeOK, NEW n \in Node, NEW p \in Packet, Send(n, p)
  PROVE  LET route == GetRoute(routes[n], Dst[p], now) IN
         /\ inbox' \in [Node -> Seq(Message)]
         /\ \A r \in Node : \A m \in Datagrams(r)' :
              \/ m \in Datagrams(r)
              \/ m = RRequestPacket(n, Dst[p], n, 1)
              \/ /\ m = PktPacket(p, route.nextHop, seq[n])
                 /\ route \in Route
                 /\ seq' = IncSeq(n)
<1> DEFINE route == GetRoute(routes[n], Dst[p], now)
<1>1. /\ n \in Address /\ Dst[p] \in Address /\ seq[n] \in Nat
      /\ routes[n] \in Table /\ now \in Nat
  BY NodeAssumption, PacketAssumption DEF TypeOK
<1>2. CASE UNCHANGED inbox
  BY <1>2 DEF Datagrams, TypeOK
<1>3. CASE Broadcast(n, inbox, <<RRequestPacket(n, Dst[p], n, 1)>>)
  <2>1. RRequestPacket(n, Dst[p], n, 1) \in Message
    BY <1>1, MessageTypes, DelayAssumption
  <2> QED
    BY <1>3, <2>1, SentOne
<1>4. CASE route # NoRoute /\ SendTo(n, p, route.nextHop, inbox)
  <2>1. route \in Route /\ route.nextHop \in Address
    BY <1>1, <1>4, TableTypes DEF Route
  <2>2. PktPacket(p, route.nextHop, seq[n]) \in Message
    BY <1>1, <2>1, MessageTypes
  <2>3. /\ inbox' \in [Node -> Seq(Message)]
        /\ \A r \in Node : \A k \in Datagrams(r)' :
             k \in Datagrams(r) \/ k = PktPacket(p, route.nextHop, seq[n])
    BY <1>4, <2>2, SentOne DEF SendTo
  <2> QED
    BY <1>4, <2>1, <2>3 DEF SendTo
<1> QED
  BY <1>2, <1>3, <1>4 DEF Send, DiscoverRoute

\* The tables receiveRRequest goes through: its two additions, its two looks.
LEMMA RRequestTables ==
  ASSUME TypeOK, NEW n \in Node, ReceiveRRequest(n)
  PROVE  LET m == Head(inbox[n])
             withSender == AddRoute(routes[n], m.sender, NewRoute(m.sender, 1, now))
             looked == TableAfterGet(withSender, m.source, now)
             withSource == AddRoute(looked, m.source, NewRoute(m.sender, m.n, now))
         IN  /\ m \in Datagrams(n) /\ m \in RReqMsg
             /\ withSender \in Table /\ looked \in Table /\ withSource \in Table
             /\ routes' \in [Node -> Table]
             /\ \E table \in {looked, withSource,
                              TableAfterGet(withSource, m.destination, now)} :
                  routes' = [routes EXCEPT ![n] = table]
<1> DEFINE m == Head(inbox[n])
           withSender == AddRoute(routes[n], m.sender, NewRoute(m.sender, 1, now))
           looked == TableAfterGet(withSender, m.source, now)
           withSource == AddRoute(looked, m.source, NewRoute(m.sender, m.n, now))
<1>1. /\ m \in RReqMsg /\ m \in Datagrams(n)
      /\ routes[n] \in Table /\ now \in Nat
  BY RestEffect, MessageFields DEF ReceiveRRequest, Receives, TypeOK
<1>2. /\ m.source \in Address /\ m.destination \in Address /\ m.sender \in Address
      /\ m.n \in Nat
  BY <1>1 DEF RReqMsg
<1>3. withSender \in Table
  BY <1>1, <1>2, NewRouteType, TableTypes
<1>4. looked \in Table
  BY <1>1, <1>2, <1>3, TableTypes
<1>5. withSource \in Table
  BY <1>1, <1>2, <1>4, NewRouteType, TableTypes
<1>6. TableAfterGet(withSource, m.destination, now) \in Table
  BY <1>1, <1>2, <1>5, TableTypes
<1>7. \E table \in {looked, withSource, TableAfterGet(withSource, m.destination, now)} :
        routes' = [routes EXCEPT ![n] = table]
  BY DEF ReceiveRRequest
<1>8. routes' \in [Node -> Table]
  BY <1>4, <1>5, <1>6, <1>7 DEF TypeOK
<1> QED
  BY <1>1, <1>3, <1>4, <1>5, <1>7, <1>8

\* receiveRRequest replies for itself or from its table, or passes the request on.
LEMMA RRequestEffect ==
  ASSUME TypeOK, NEW n \in Node, ReceiveRRequest(n)
  PROVE  LET m == Head(inbox[n])
             withSender == AddRoute(routes[n], m.sender, NewRoute(m.sender, 1, now))
             looked == TableAfterGet(withSender, m.source, now)
             withSource == AddRoute(looked, m.source, NewRoute(m.sender, m.n, now))
             route == GetRoute(withSource, m.destination, now)
         IN  /\ inbox' \in [Node -> Seq(Message)]
             /\ \A r \in Node : \A k \in Datagrams(r)' :
                  \/ k \in Datagrams(r)
                  \/ k = RReplyPacket(n, m.source, n, m.sender, 1)
                  \/ /\ route \in Route
                     /\ k = RReplyPacket(m.destination, m.source, n, m.sender, route.hops + 1)
                     /\ routes' = [routes EXCEPT ![n] = TableAfterGet(withSource, m.destination, now)]
                  \/ k.type = "RREQ" /\ k.source = m.source /\ k.sender = m.sender
<1> DEFINE m == Head(inbox[n])
           withSender == AddRoute(routes[n], m.sender, NewRoute(m.sender, 1, now))
           looked == TableAfterGet(withSender, m.source, now)
           withSource == AddRoute(looked, m.source, NewRoute(m.sender, m.n, now))
           route == GetRoute(withSource, m.destination, now)
           ms == RRequestAnswer(n, m, withSource)
<1>1. /\ m \in RReqMsg /\ withSource \in Table
      /\ n \in Address /\ now \in Nat /\ inbox[n] # <<>>
  BY RRequestTables, NodeAssumption DEF ReceiveRRequest, Receives, TypeOK
<1>2. /\ m.source \in Address /\ m.destination \in Address /\ m.sender \in Address
      /\ m.n \in 1 .. MaxHops
  BY <1>1 DEF RReqMsg
<1>3. CASE inbox' = Rest(n)
  BY <1>1, <1>3, Taken
<1>4. CASE Exchange(n, ms) /\ m.destination = n
  <2>1. RReplyPacket(n, m.source, n, m.sender, 1) \in Message
    BY <1>1, <1>2, MessageTypes
  <2>2. ms = <<RReplyPacket(n, m.source, n, m.sender, 1)>>
    BY <1>4 DEF RRequestAnswer
  <2> HIDE DEF ms
  <2> QED
    BY <1>1, <1>4, <2>1, <2>2, SentOne
<1>5. CASE /\ Exchange(n, ms)
           /\ m.destination # n
           /\ routes' = [routes EXCEPT ![n] = TableAfterGet(withSource, m.destination, now)]
  <2>1. CASE route # NoRoute
    <3>1. route \in Route /\ route.hops + 1 \in Nat
      <4> HIDE DEF m, withSource
      <4>1. route \in Route \cup {NoRoute}
        BY <1>1, <1>2, TableTypes
      <4> HIDE DEF route
      <4> QED
        BY <2>1, <4>1 DEF Route
    <3>2. RReplyPacket(m.destination, m.source, n, m.sender, route.hops + 1) \in Message
      BY <1>1, <1>2, <3>1, MessageTypes
    <3>3. ms = <<RReplyPacket(m.destination, m.source, n, m.sender, route.hops + 1)>>
      BY <1>5, <2>1 DEF RRequestAnswer
    <3> HIDE DEF ms
    <3> QED
      BY <1>1, <1>5, <3>1, <3>2, <3>3, SentOne
  <2>2. CASE route = NoRoute /\ m.n < MaxHops
    <3> DEFINE k == [m EXCEPT !.n = @ + 1]
    <3>1. m.n + 1 \in 1 .. MaxHops
      BY <1>2, <2>2, DelayAssumption
    <3>2. k \in RReqMsg /\ k.type = "RREQ" /\ k.source = m.source /\ k.sender = m.sender
      BY <1>1, <3>1 DEF RReqMsg
    <3>3. ms = <<k>>
      BY <1>5, <2>2 DEF RRequestAnswer
    <3> HIDE DEF ms, k
    <3>4. k \in Message
      BY <3>2 DEF Message
    <3> QED
      BY <1>1, <1>5, <3>2, <3>3, <3>4, SentOne
  <2>3. CASE route = NoRoute /\ ~(m.n < MaxHops)
    <3>1. ms = <<>>
      BY <1>5, <2>3 DEF RRequestAnswer
    <3> HIDE DEF ms
    <3>2. <<>> \in Seq(Message)
      OBVIOUS
    <3> QED
      BY <1>1, <1>5, <3>1, <3>2, Exchanged, SingletonElements
  <2> QED
    BY <2>1, <2>2, <2>3
<1> QED
  BY <1>3, <1>4, <1>5 DEF ReceiveRRequest

\* receiveRReply sends the packet that waits for the source of the reply.
LEMMA RReplyEffect ==
  ASSUME TypeOK, NEW n \in Node, ReceiveRReply(n)
  PROVE  LET m == Head(inbox[n])
             route == NewRoute(m.sender, m.n, now)
             waiting == packetsToSend[n][m.source]
         IN  /\ m \in Datagrams(n) /\ m \in RRepMsg
             /\ routes' \in [Node -> Table]
             /\ \/ UNCHANGED routes
                \/ routes' = [routes EXCEPT ![n] =
                                AddRoute(AddRoute(@, m.source, route), m.sender, route)]
             /\ inbox' \in [Node -> Seq(Message)]
             /\ \A r \in Node : \A k \in Datagrams(r)' :
                  \/ k \in Datagrams(r)
                  \/ /\ waiting # <<>>
                     /\ Head(waiting) \in Packet
                     /\ Head(waiting) \in Elements(waiting)
                     /\ k = PktPacket(Head(waiting), m.sender, seq[n])
                     /\ seq' = IncSeq(n)
                     /\ packetsToSend' = EraseQueue(n, m.source)
<1> DEFINE m == Head(inbox[n])
           route == NewRoute(m.sender, m.n, now)
           waiting == packetsToSend[n][m.source]
<1>1. /\ m \in RRepMsg /\ m \in Datagrams(n)
      /\ Rest(n) \in [Node -> Seq(Message)]
      /\ \A r \in Node : Elements(Rest(n)[r]) \subseteq Datagrams(r)
      /\ routes[n] \in Table /\ now \in Nat /\ inbox[n] # <<>> /\ seq[n] \in Nat
  BY RestEffect, MessageFields DEF ReceiveRReply, Receives, TypeOK
<1>2. m.source \in Address /\ m.sender \in Address /\ m.n \in Nat
  BY <1>1 DEF RRepMsg
<1>3. AddRoute(AddRoute(routes[n], m.source, route), m.sender, route) \in Table
  BY <1>1, <1>2, NewRouteType, TableTypes
<1>4. \/ UNCHANGED routes
      \/ routes' = [routes EXCEPT ![n] = AddRoute(AddRoute(@, m.source, route), m.sender, route)]
  BY DEF ReceiveRReply
<1>5. routes' \in [Node -> Table]
  BY <1>3, <1>4 DEF TypeOK
<1>6. CASE inbox' = Rest(n)
  BY <1>1, <1>4, <1>5, <1>6, Taken
<1>7. CASE /\ waiting # <<>>
           /\ SendTo(n, Head(waiting), m.sender, Rest(n))
           /\ packetsToSend' = EraseQueue(n, m.source)
  <2> DEFINE k == PktPacket(Head(waiting), m.sender, seq[n])
  <2>1. waiting \in Seq(Packet)
    BY <1>2 DEF TypeOK
  <2>2. Head(waiting) \in Packet /\ Head(waiting) \in Elements(waiting)
    <3> HIDE DEF waiting
    <3>1. 1 \in DOMAIN waiting /\ Head(waiting) = waiting[1] /\ waiting[1] \in Packet
      BY <1>7, <2>1
    <3> QED
      BY <3>1 DEF Elements
  <2>3. k \in Message
    BY <1>1, <1>2, <2>2, MessageTypes
  <2>4. seq' = IncSeq(n) /\ Exchange(n, <<k>>)
    BY <1>7 DEF SendTo, Exchange
  <2>5. /\ inbox' \in [Node -> Seq(Message)]
        /\ \A r \in Node : \A j \in Datagrams(r)' : j \in Datagrams(r) \/ j = k
    BY <1>1, <2>3, <2>4, SentOne
  <2> QED
    BY <1>1, <1>4, <1>5, <1>7, <2>2, <2>4, <2>5
<1> QED
  BY <1>6, <1>7 DEF ReceiveRReply

\* receivePkt acknowledges, and forwards along a route of the table.
LEMMA PktEffect ==
  ASSUME TypeOK, NEW n \in Node, ReceivePkt(n)
  PROVE  LET m == Head(inbox[n])
             route == GetRoute(routes[n], m.destination, now)
         IN  /\ m \in Datagrams(n) /\ m \in PktMsg
             /\ inbox' \in [Node -> Seq(Message)]
             /\ \A r \in Node : \A k \in Datagrams(r)' :
                  \/ k \in Datagrams(r)
                  \/ k.type = "ACK"
                  \/ route \in Route /\ k = [m EXCEPT !.nexthop = route.nextHop]
<1> DEFINE m == Head(inbox[n])
           ack == AckPacket(m.source, m.destination, m.nexthop, m.seq)
           route == GetRoute(routes[n], m.destination, now)
           forward == [m EXCEPT !.nexthop = route.nextHop]
<1>1. /\ m \in PktMsg /\ m \in Datagrams(n)
      /\ routes[n] \in Table /\ now \in Nat /\ inbox[n] # <<>>
  BY RestEffect, MessageFields DEF ReceivePkt, Receives, TypeOK
<1>2. /\ m.source \in Address /\ m.destination \in Address /\ m.nexthop \in Address
      /\ m.seq \in Nat
  BY <1>1 DEF PktMsg
<1>3. ack \in Message /\ ack.type = "ACK"
  BY <1>2, MessageTypes DEF AckPacket
<1>4. CASE inbox' = Rest(n)
  BY <1>1, <1>4, Taken
<1>5. CASE Exchange(n, <<ack>>)
  <2> HIDE DEF ack
  <2> QED
    BY <1>1, <1>3, <1>5, SentOne
<1>6. CASE route # NoRoute /\ Exchange(n, <<ack, forward>>)
  <2>1. route \in Route /\ route.nextHop \in Address
    BY <1>1, <1>2, <1>6, TableTypes DEF Route
  <2>2. forward \in Message
    BY <1>1, <2>1 DEF PktMsg, Message
  <2> HIDE DEF ack, forward
  <2>3. /\ inbox' \in [Node -> Seq(Message)]
        /\ \A r \in Node : \A k \in Datagrams(r)' : k \in Datagrams(r) \/ k = ack \/ k = forward
    BY <1>1, <1>3, <1>6, <2>2, ExchangedTwo
  <2> USE DEF forward
  <2> QED
    BY <1>1, <1>3, <2>1, <2>3
<1> QED
  BY <1>4, <1>5, <1>6 DEF ReceivePkt

\* receiveNAck passes the NACK on.
LEMMA NAckEffect ==
  ASSUME TypeOK, NEW n \in Node, ReceiveNAck(n)
  PROVE  LET m == Head(inbox[n])
             invalidated == InvalidateRoute(routes[n], m.source)
         IN  /\ routes' \in [Node -> Table]
             /\ \/ UNCHANGED routes
                \/ routes' = [routes EXCEPT ![n] = TableAfterGet(invalidated, m.destination, now)]
             /\ inbox' \in [Node -> Seq(Message)]
             /\ \A r \in Node : \A k \in Datagrams(r)' : k \in Datagrams(r) \/ k.type = "NACK"
<1> DEFINE m == Head(inbox[n])
           invalidated == InvalidateRoute(routes[n], m.source)
           route == GetRoute(invalidated, m.destination, now)
           forward == [m EXCEPT !.nexthop = route.nextHop]
<1>1. /\ m \in NAckMsg
      /\ routes[n] \in Table /\ now \in Nat /\ inbox[n] # <<>>
  BY RestEffect, MessageFields DEF ReceiveNAck, Receives, TypeOK
<1>2. m.source \in Address /\ m.destination \in Address
  BY <1>1 DEF NAckMsg
<1>3. invalidated \in Table
  BY <1>1, <1>2, TableTypes
<1>4. TableAfterGet(invalidated, m.destination, now) \in Table
  BY <1>1, <1>2, <1>3, TableTypes
<1>5. \/ UNCHANGED routes
      \/ routes' = [routes EXCEPT ![n] = TableAfterGet(invalidated, m.destination, now)]
  BY DEF ReceiveNAck
<1>6. routes' \in [Node -> Table]
  BY <1>4, <1>5 DEF TypeOK
<1>7. CASE inbox' = Rest(n)
  BY <1>1, <1>5, <1>6, <1>7, Taken
<1>8. CASE route # NoRoute /\ Exchange(n, <<forward>>)
  <2>1. route.nextHop \in Address
    BY <1>1, <1>2, <1>3, <1>8, TableTypes DEF Route
  <2>2. forward \in Message /\ forward.type = "NACK"
    BY <1>1, <2>1 DEF NAckMsg, Message
  <2> HIDE DEF forward
  <2>3. /\ inbox' \in [Node -> Seq(Message)]
        /\ \A r \in Node : \A k \in Datagrams(r)' : k \in Datagrams(r) \/ k = forward
    BY <1>1, <1>8, <2>2, SentOne
  <2> QED
    BY <1>1, <1>5, <1>6, <2>2, <2>3
<1> QED
  BY <1>7, <1>8 DEF ReceiveNAck

\* clearOutdatedPackets sends NACKs, for packets that have waited for their ACK.
LEMMA ClearEffect ==
  ASSUME TypeOK, NEW n \in Node, ClearOutdated(n)
  PROVE  /\ inbox' \in [Node -> Seq(Message)]
         /\ \A r \in Node : \A k \in Datagrams(r)' :
              k \in Datagrams(r) \/ (k.type = "NACK" /\ now > AckDelay)
<1> DEFINE lost == {a \in pendingAcks[n] :
                      \E s \in pendingAckSequences[n] : now > s.at + AckDelay}
<1>1. PICK k \in 0 .. now : \E reports \in [1 .. k -> lost] :
        Broadcast(n, inbox, [i \in 1 .. k |-> reports[i].nack])
  <2> DEFINE late == {s \in pendingAckSequences[n] : now > s.at + AckDelay}
             lostHere == {a \in pendingAcks[n] : \E s \in late : s.id = a.id}
  <2>1. PICK k \in 0 .. now : \E reports \in [1 .. k -> lostHere] :
          Broadcast(n, inbox, [i \in 1 .. k |-> reports[i].nack])
    BY DEF ClearOutdated
  <2>2. lostHere \subseteq lost
    OBVIOUS
  <2> HIDE DEF lostHere, lost
  <2> QED
    BY <2>1, <2>2
<1> PICK reports \in [1 .. k -> lost] :
      Broadcast(n, inbox, [i \in 1 .. k |-> reports[i].nack])
  BY <1>1
<1> DEFINE ms == [i \in 1 .. k |-> reports[i].nack]
<1>2. k \in Nat
  BY DEF TypeOK
<1>3. ASSUME NEW i \in 1 .. k PROVE reports[i].nack \in NAckMsg /\ now > AckDelay
  <2>1. reports[i] \in pendingAcks[n]
    OBVIOUS
  <2>2. PICK s \in pendingAckSequences[n] : now > s.at + AckDelay
    OBVIOUS
  <2>3. s.at \in Nat /\ AckDelay \in Nat /\ now \in Nat
    BY DelayAssumption DEF TypeOK
  <2> QED
    BY <2>1, <2>2, <2>3 DEF TypeOK
<1> HIDE DEF lost
<1>4. ms \in Seq(Message)
  BY <1>2, <1>3, MessageTypes
<1>5. ASSUME NEW m \in Elements(ms) PROVE m.type = "NACK" /\ now > AckDelay
  BY <1>3 DEF Elements, NAckMsg
<1> HIDE DEF ms
<1>6. /\ inbox' \in [Node -> Seq(Message)]
      /\ \A r \in Node : Datagrams(r)' \subseteq Datagrams(r) \cup Elements(ms)
  BY <1>4, Sent DEF ms
<1> QED
  BY <1>5, <1>6

\* receiveAck sends nothing.
LEMMA AckEffect ==
  ASSUME TypeOK, NEW n \in Node, ReceiveAck(n)
  PROVE  /\ inbox' \in [Node -> Seq(Message)]
         /\ \A r \in Node : Datagrams(r)' \subseteq Datagrams(r)
BY Taken DEF ReceiveAck, Receives
-----------------------------------------------------------------------------
(* Typing of the state. *)

\* What is recorded of a packet sent keeps its type.
LEMMA TrackType ==
  ASSUME TypeOK, NEW n \in Node, NEW id \in SeqId, NEW nack \in NAckMsg, Track(n, id, nack)
  PROVE  /\ pendingAcks' \in [Node -> SUBSET [id: SeqId, nack: NAckMsg]]
         /\ pendingAckSequences' \in [Node -> SUBSET [at: Nat, id: SeqId]]
<1>1. [id |-> id, nack |-> nack] \in [id: SeqId, nack: NAckMsg]
  OBVIOUS
<1>2. [at |-> now, id |-> id] \in [at: Nat, id: SeqId]
  BY DEF TypeOK
<1> QED
  BY <1>1, <1>2 DEF TypeOK, Track

\* So does all that goes with a packet.
LEMMA SendToType ==
  ASSUME TypeOK, NEW n \in Node, NEW p \in Packet, NEW h \in Address, NEW box,
         SendTo(n, p, h, box)
  PROVE  /\ seq' \in [Node -> Nat]
         /\ pendingAcks' \in [Node -> SUBSET [id: SeqId, nack: NAckMsg]]
         /\ pendingAckSequences' \in [Node -> SUBSET [at: Nat, id: SeqId]]
<1>1. seq[n] \in Nat /\ n \in Address /\ Src[p] \in Address /\ Dst[p] \in Address
  BY NodeAssumption, PacketAssumption DEF TypeOK
<1>2. seq' \in [Node -> Nat]
  BY <1>1 DEF SendTo, IncSeq, TypeOK
<1>3. <<Src[p], seq[n]>> \in SeqId /\ NAckPacket(n, Dst[p], n) \in NAckMsg
  BY <1>1, MessageTypes DEF SeqId
<1> QED
  BY <1>2, <1>3, TrackType DEF SendTo

\* The initial state is well typed.
LEMMA TypeInit == Init => TypeOK
<1> SUFFICES ASSUME Init PROVE TypeOK
  OBVIOUS
<1>1. [n \in Node |-> EmptyTable] \in [Node -> Table]
  BY DEF EmptyTable, Table
<1>2. [n \in Node |-> [d \in Address |-> <<>>]] \in [Node -> [Address -> Seq(Packet)]]
  OBVIOUS
<1>3. /\ [n \in Node |-> <<>>] \in [Node -> Seq(Packet)]
      /\ [n \in Node |-> <<>>] \in [Node -> Seq(Message)]
  OBVIOUS
<1>4. [n \in Node |-> [d \in Address |-> Never]] \in [Node -> [Address -> Nat \cup {Never}]]
  OBVIOUS
<1> QED
  BY <1>1, <1>2, <1>3, <1>4 DEF Init, TypeOK

\* Every action keeps the types.
LEMMA TypeStep == TypeOK /\ [Next]_vars => TypeOK'
<1> SUFFICES ASSUME TypeOK, [Next]_vars PROVE TypeOK'
  OBVIOUS
<1> USE NodeAssumption, PacketAssumption
<1>1. ASSUME NEW n \in Node, NEW p \in Packet, Send(n, p) PROVE TypeOK'
  <2> DEFINE d == Dst[p]
             route == GetRoute(routes[n], d, now)
  <2>1. n \in Address /\ d \in Address /\ routes[n] \in Table /\ now \in Nat
    BY DEF TypeOK
  <2>2. routes' \in [Node -> Table]
    BY <1>1, <2>1, TableTypes DEF Send, TypeOK
  <2>3. submitted' \subseteq Packet
    BY <1>1 DEF Send, TypeOK
  <2>4. routeLost' \in BOOLEAN
    BY <1>1 DEF Send, NoteLoss, TypeOK
  <2>5. CASE route = NoRoute /\ DiscoverRoute(n, d) /\ Enqueue(n, p) /\ UNCHANGED ackVars
    <3>1. inbox' \in [Node -> Seq(Message)]
      BY <1>1, SendEffect
    <3>2. pendingRReplies' \in [Node -> [Address -> Nat \cup {Never}]]
      <4>1. \/ UNCHANGED pendingRReplies
            \/ pendingRReplies' = [pendingRReplies EXCEPT ![n][d] = now]
        BY <2>5 DEF DiscoverRoute
      <4>2. [pendingRReplies[n] EXCEPT ![d] = now] \in [Address -> Nat \cup {Never}]
        BY <2>1 DEF TypeOK
      <4> QED
        BY <4>1, <4>2 DEF TypeOK
    <3>3. packetsToSend' \in [Node -> [Address -> Seq(Packet)]]
      <4>1. <<p>> \in Seq(Packet)
        OBVIOUS
      <4> QED
        BY <2>1, <2>5, <4>1 DEF Enqueue, TypeOK
    <3> QED
      BY <1>1, <2>2, <2>3, <2>4, <2>5, <3>1, <3>2, <3>3 DEF Send, TypeOK, ackVars
  <2>6. CASE route # NoRoute /\ SendTo(n, p, route.nextHop, inbox)
               /\ UNCHANGED <<pendingRReplies, packetsToSend>>
    <3>1. route.nextHop \in Address
      BY <2>1, <2>6, TableTypes DEF Route
    <3> QED
      BY <1>1, <2>2, <2>3, <2>4, <2>6, <3>1, SendEffect, SendToType DEF Send, TypeOK
  <2> QED
    BY <1>1, <2>5, <2>6 DEF Send
<1>2. ASSUME NEW n \in Node, ReceiveRRequest(n) PROVE TypeOK'
  BY <1>2, RRequestTables, RRequestEffect DEF ReceiveRRequest, NoteLoss, TypeOK
<1>3. ASSUME NEW n \in Node, ReceiveRReply(n) PROVE TypeOK'
  <2> DEFINE m == Head(inbox[n])
             waiting == packetsToSend[n][m.source]
  <2>1. /\ m \in RRepMsg
        /\ routes' \in [Node -> Table]
        /\ inbox' \in [Node -> Seq(Message)]
    BY <1>3, RReplyEffect
  <2>2. CASE UNCHANGED <<ackVars, packetsToSend>>
    BY <1>3, <2>1, <2>2 DEF ReceiveRReply, NoteLoss, TypeOK, ackVars
  <2>3. CASE /\ waiting # <<>>
             /\ SendTo(n, Head(waiting), m.sender, Rest(n))
             /\ packetsToSend' = EraseQueue(n, m.source)
    <3>1. m.source \in Address /\ m.sender \in Address
      BY <2>1 DEF RRepMsg
    <3>2. waiting \in Seq(Packet) /\ <<>> \in Seq(Packet)
      BY <3>1 DEF TypeOK
    <3>3. Head(waiting) \in Packet
      BY <2>3, <3>2
    <3>4. packetsToSend' \in [Node -> [Address -> Seq(Packet)]]
      BY <2>3, <3>1, <3>2 DEF EraseQueue, TypeOK
    <3> QED
      BY <1>3, <2>1, <2>3, <3>1, <3>3, <3>4, SendToType DEF ReceiveRReply, NoteLoss, TypeOK
  <2> QED
    BY <1>3, <2>2, <2>3 DEF ReceiveRReply
<1>4. ASSUME NEW n \in Node, ReceivePkt(n) PROVE TypeOK'
  <2> DEFINE m == Head(inbox[n])
             route == GetRoute(routes[n], m.destination, now)
  <2>1. /\ m \in PktMsg /\ inbox' \in [Node -> Seq(Message)]
        /\ routes[n] \in Table /\ now \in Nat
    BY <1>4, PktEffect DEF TypeOK
  <2>2. /\ m.source \in Address /\ m.destination \in Address
        /\ m.seq \in Nat /\ m.data \in Packet
    BY <2>1 DEF PktMsg
  <2>3. routes' \in [Node -> Table]
    BY <1>4, <2>1, <2>2, TableTypes DEF ReceivePkt, TypeOK
  <2>4. up' \subseteq Node
    BY <1>4 DEF ReceivePkt, TypeOK
  <2>5. recvQueue' \in [Node -> Seq(Packet)]
    <3>1. Append(recvQueue[n], m.data) \in Seq(Packet)
      BY <2>2 DEF TypeOK
    <3> QED
      BY <1>4, <3>1 DEF ReceivePkt, TypeOK
  <2>6. CASE UNCHANGED <<pendingAcks, pendingAckSequences>>
    BY <1>4, <2>1, <2>3, <2>4, <2>5, <2>6 DEF ReceivePkt, NoteLoss, TypeOK
  <2>7. CASE /\ route # NoRoute
             /\ Track(n, <<m.source, m.seq>>,
                      NAckPacket(m.destination, m.source, route.nextHop))
    <3>1. route.nextHop \in Address
      BY <2>1, <2>2, <2>7, TableTypes DEF Route
    <3>2. /\ <<m.source, m.seq>> \in SeqId
          /\ NAckPacket(m.destination, m.source, route.nextHop) \in NAckMsg
      BY <2>2, <3>1, MessageTypes DEF SeqId
    <3>3. /\ pendingAcks' \in [Node -> SUBSET [id: SeqId, nack: NAckMsg]]
          /\ pendingAckSequences' \in [Node -> SUBSET [at: Nat, id: SeqId]]
      BY <2>7, <3>2, TrackType
    <3> QED
      BY <1>4, <2>1, <2>3, <2>4, <2>5, <3>3 DEF ReceivePkt, NoteLoss, TypeOK
  <2> QED
    BY <1>4, <2>6, <2>7 DEF ReceivePkt
<1>5. ASSUME NEW n \in Node, ReceiveAck(n) PROVE TypeOK'
  BY <1>5, AckEffect DEF ReceiveAck, TypeOK
<1>6. ASSUME NEW n \in Node, ReceiveNAck(n) PROVE TypeOK'
  BY <1>6, NAckEffect DEF ReceiveNAck, NoteLoss, TypeOK, ackVars
<1>7. ASSUME NEW n \in Node, ClearOutdated(n) PROVE TypeOK'
  <2>1. pendingRReplies' \in [Node -> [Address -> Nat \cup {Never}]]
    BY <1>7 DEF ClearOutdated, TypeOK
  <2>2. packetsToSend' \in [Node -> [Address -> Seq(Packet)]]
    <3>1. <<>> \in Seq(Packet)
      OBVIOUS
    <3> QED
      BY <1>7, <3>1 DEF ClearOutdated, EraseWaiting, TypeOK
  <2> QED
    BY <1>7, <2>1, <2>2, ClearEffect DEF ClearOutdated, TypeOK
<1>8. CASE Tick
  BY <1>8 DEF Tick, TypeOK
<1>9. CASE UNCHANGED vars
  BY <1>9 DEF vars, TypeOK
<1> QED
  BY <1>1, <1>2, <1>3, <1>4, <1>5, <1>6, <1>7, <1>8, <1>9 DEF Next, Receive

\* Every state the nodes and the network reach is well typed; in particular no
\* request counts more than MaxHops hops.
THEOREM TypeCorrect == Spec => []TypeOK
BY TypeInit, TypeStep, PTL DEF Spec

(* What waits for a route.                                                  *)

\* A request leaves the time of some request behind for its destination.
LEMMA DiscoveryEffect ==
  ASSUME TypeOK, NEW n \in Node, NEW d \in Address, DiscoverRoute(n, d)
  PROVE  /\ pendingRReplies'[n][d] # Never
         /\ \A m \in Node, e \in Address :
              pendingRReplies[m][e] # Never => pendingRReplies'[m][e] # Never
<1>1. pendingRReplies \in [Node -> [Address -> Nat \cup {Never}]] /\ now \in Nat
  BY DEF TypeOK
<1>2. CASE pendingRReplies' = [pendingRReplies EXCEPT ![n][d] = now]
  BY <1>1, <1>2, NeverAssumption
<1>3. CASE pendingRReplies[n][d] # Never /\ UNCHANGED pendingRReplies
  BY <1>3
<1> QED
  BY <1>2, <1>3 DEF DiscoverRoute, RequestDue

\* No step leaves a packet without the time of a request.
LEMMA WatchedStep ==
  ASSUME TypeOK, WaitingIsWatched, [Next]_vars
  PROVE  WaitingIsWatched'
<1>1. ASSUME NEW n \in Node, NEW p \in Packet, Send(n, p) PROVE WaitingIsWatched'
  <2>1. Dst[p] \in Address
    BY PacketAssumption
  <2>2. CASE DiscoverRoute(n, Dst[p]) /\ Enqueue(n, p)
    BY <2>1, <2>2, DiscoveryEffect DEF Enqueue, WaitingIsWatched, TypeOK
  <2>3. CASE UNCHANGED <<pendingRReplies, packetsToSend>>
    BY <2>3 DEF WaitingIsWatched
  <2> QED
    BY <1>1, <2>2, <2>3 DEF Send
<1>2. ASSUME NEW n \in Node, ReceiveRReply(n) PROVE WaitingIsWatched'
  <2>1. UNCHANGED pendingRReplies
    BY <1>2 DEF ReceiveRReply
  <2>2. \A m \in Node, e \in Address :
          packetsToSend'[m][e] # <<>> => packetsToSend[m][e] # <<>>
    <3>1. \/ UNCHANGED packetsToSend
          \/ packetsToSend' = EraseQueue(n, Head(inbox[n]).source)
      BY <1>2 DEF ReceiveRReply
    <3>2. packetsToSend \in [Node -> [Address -> Seq(Packet)]]
      BY DEF TypeOK
    <3> QED
      BY <3>1, <3>2 DEF EraseQueue
  <2> QED
    BY <2>1, <2>2 DEF WaitingIsWatched
<1>3. ASSUME NEW n \in Node, ClearOutdated(n) PROVE WaitingIsWatched'
  BY <1>3 DEF ClearOutdated, EraseWaiting, WaitingIsWatched, TypeOK
<1>4. CASE UNCHANGED <<pendingRReplies, packetsToSend>>
  BY <1>4 DEF WaitingIsWatched
<1>5. ASSUME NEW n \in Node,
             ReceiveRRequest(n) \/ ReceivePkt(n) \/ ReceiveAck(n) \/ ReceiveNAck(n)
      PROVE  UNCHANGED <<pendingRReplies, packetsToSend>>
  BY <1>5 DEF ReceiveRRequest, ReceivePkt, ReceiveAck, ReceiveNAck
<1>6. Tick \/ UNCHANGED vars => UNCHANGED <<pendingRReplies, packetsToSend>>
  BY DEF Tick, vars
<1> QED
  BY <1>1, <1>2, <1>3, <1>4, <1>5, <1>6 DEF Next, Receive

\* A packet that waits for a route is never forgotten by the cleaner: the time
\* of a request is kept for its destination as long as it waits.
THEOREM WaitersAreWatched == Spec => []WaitingIsWatched
<1>1. Init => WaitingIsWatched
  BY DEF Init, WaitingIsWatched
<1>2. TypeOK /\ WaitingIsWatched /\ [Next]_vars => WaitingIsWatched'
  BY WatchedStep
<1> QED
  BY <1>1, <1>2, TypeCorrect, PTL DEF Spec
=============================================================================
