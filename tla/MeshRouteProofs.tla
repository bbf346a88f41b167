--------------------------- MODULE MeshRouteProofs ---------------------------
(***************************************************************************)
(* The routes of the mesh lead to nodes that exist and, as long as no      *)
(* table has lost an entry, they form no loop and end no process.          *)
(***************************************************************************)
EXTENDS MeshProofs

\* A packet waits at its source, in the queue of its destination.
WaitingInPlace ==
  \A n \in Node, d \in Address : \A p \in Elements(packetsToSend[n][d]) :
    Src[p] = n /\ Dst[p] = d

\* Every request names a node as its source and, since a relay does not touch
\* the Sender field, the same node as its sender.
RequestsAreDirect ==
  \A n \in Node : \A m \in Datagrams(n) :
    m.type = "RREQ" => m.source \in Node /\ m.sender = m.source

\* A reply names two nodes.
RepliesNameNodes ==
  \A n \in Node : \A m \in Datagrams(n) :
    m.type = "RREP" => m.source \in Node /\ m.sender \in Node

\* Node h is the destination d or has a route to it in fewer than k hops.
Leads(h, d, k) == h = d \/ (routes[h][d] # NoRoute /\ routes[h][d].hops < k)

\* The sender of a reply has what the reply says.
RepliesHold ==
  \A n \in Node : \A m \in Datagrams(n) :
    m.type = "RREP" => Leads(m.sender, m.source, m.n)

\* The next hop of a packet in flight is its destination or has a route to it.
PktsLead ==
  \A n \in Node : \A m \in Datagrams(n) :
    m.type = "PKT" => \/ m.nexthop = m.destination
                      \/ m.nexthop \in Node => routes[m.nexthop][m.destination] # NoRoute

RouteInv ==
  /\ TypeOK
  /\ WaitingInPlace
  /\ RequestsAreDirect
  /\ RepliesNameNodes
  /\ NoRouteToNobody
  /\ ~routeLost => RepliesHold /\ NoLoop /\ PktsLead /\ up = Node

\* The numbers of the packets in flight are below the counter of their source.
NumbersUsed ==
  \A n \in Node : \A m \in Datagrams(n) :
    m.type = "PKT" => m.source \in Node /\ m.seq < seq[m.source]

SequenceInv == TypeOK /\ WaitingInPlace /\ NumbersUsed /\ UniqueSequence
-----------------------------------------------------------------------------
(* Lemmas *)

\* What the operations leave of an entry.
LEMMA TableEntries ==
  ASSUME NEW table \in Table, NEW d \in Address, NEW e \in Address, NEW t \in Nat,
         NEW route
  PROVE  /\ TableAfterGet(table, d, t)[e] \in {table[e], NoRoute}
         /\ TableAfterGet(table, d, t)[d] = GetRoute(table, d, t)
         /\ GetRoute(table, d, t) \in {table[d], NoRoute}
         /\ InvalidateRoute(table, d)[e] \in {table[e], NoRoute}
         /\ AddRoute(table, d, route)[e] = table[e] \/ (e = d /\ AddRoute(table, d, route)[e] = route)
BY DEF Table, TableAfterGet, GetRoute, InvalidateRoute, AddRoute

\* As long as nothing is lost, tables only grow.
LEMMA TablesGrow ==
  ASSUME TypeOK, [Next]_vars, ~routeLost'
  PROVE  /\ ~routeLost
         /\ \A n \in Node, d \in Address :
              routes[n][d] # NoRoute => routes'[n][d] = routes[n][d]
<1>1. NoteLoss \/ UNCHANGED <<routes, routeLost>>
  BY DEF Next, Receive, Send, ReceiveRRequest, ReceiveRReply, ReceivePkt, ReceiveAck,
         ReceiveNAck, ClearOutdated, Tick, vars
<1> QED
  BY <1>1 DEF NoteLoss, TypeOK

\* An entry comes from the datagram that is handled.
RouteOfRequest(x, d, r) ==
  \E m \in Datagrams(x) :
    m \in RReqMsg /\ d \in {m.sender, m.source} /\ r.nextHop = m.sender

RouteOfReply(x, d, r) ==
  \E m \in Datagrams(x) :
    /\ m \in RRepMsg
    /\ r.nextHop = m.sender
    /\ d = m.sender \/ (d = m.source /\ r.hops = m.n)

\* Every route that appears comes from a request or a reply.
LEMMA NewRoutes ==
  ASSUME TypeOK, [Next]_vars, NEW x \in Node, NEW d \in Address, routes'[x][d] # NoRoute
  PROVE  \/ routes'[x][d] = routes[x][d]
         \/ RouteOfRequest(x, d, routes'[x][d])
         \/ RouteOfReply(x, d, routes'[x][d])
<1> DEFINE Goal == \/ routes'[x][d] = routes[x][d]
                   \/ RouteOfRequest(x, d, routes'[x][d])
                   \/ RouteOfReply(x, d, routes'[x][d])
<1>0. routes \in [Node -> Table] /\ now \in Nat
  BY DEF TypeOK
<1>1. ASSUME NEW n \in Node, NEW p \in Packet, Send(n, p) PROVE Goal
  <2>1. routes' = [routes EXCEPT ![n] = TableAfterGet(routes[n], Dst[p], now)]
    BY <1>1 DEF Send
  <2> QED
    BY <1>0, <2>1, TableEntries, PacketAssumption
<1>2. ASSUME NEW n \in Node, ReceiveRRequest(n) PROVE Goal
  <2> DEFINE m == Head(inbox[n])
             toSender == NewRoute(m.sender, 1, now)
             withSender == AddRoute(routes[n], m.sender, toSender)
             looked == TableAfterGet(withSender, m.source, now)
             toSource == NewRoute(m.sender, m.n, now)
             withSource == AddRoute(looked, m.source, toSource)
  <2>1. /\ m \in RReqMsg /\ m \in Datagrams(n)
        /\ withSender \in Table /\ looked \in Table /\ withSource \in Table
        /\ \E table \in {looked, withSource, TableAfterGet(withSource, m.destination, now)} :
             routes' = [routes EXCEPT ![n] = table]
    BY <1>2, RRequestTables
  <2>2. m.source \in Address /\ m.destination \in Address /\ m.sender \in Address
    BY <2>1 DEF RReqMsg
  <2>3. CASE x # n
    BY <1>0, <2>1, <2>3
  <2>4. CASE x = n
    <3>1. routes'[n][d] \in {NoRoute, looked[d], withSource[d]}
      <4> HIDE DEF looked, withSource, withSender, m
      <4>1. TableAfterGet(withSource, m.destination, now)[d] \in {withSource[d], NoRoute}
        BY <1>0, <2>1, <2>2, TableEntries
      <4> QED
        BY <1>0, <2>1, <4>1
    <3>2. looked[d] \in {NoRoute, withSender[d]}
      <4> HIDE DEF withSource, toSender, withSender, toSource, m
      <4> QED
        BY <1>0, <2>1, <2>2, TableEntries
    <3>3. withSender[d] = routes[n][d] \/ (d = m.sender /\ withSender[d] = toSender)
      <4>1. routes[n] \in Table
        BY <1>0 DEF TypeOK
      <4> HIDE DEF toSender, looked, toSource, withSource, m
      <4> QED
        BY <1>0, <2>2, <4>1, TableEntries
    <3>4. withSource[d] = looked[d] \/ (d = m.source /\ withSource[d] = toSource)
      BY <1>0, <2>1, <2>2, TableEntries
    <3>5. toSender.nextHop = m.sender /\ toSource.nextHop = m.sender
      BY DEF NewRoute
    <3> HIDE DEF m, toSender, toSource, withSender, withSource, looked
    <3>6. \/ routes'[n][d] = routes[n][d]
          \/ d \in {m.sender, m.source} /\ routes'[n][d].nextHop = m.sender
      BY <2>4, <3>1, <3>2, <3>3, <3>4, <3>5
    <3> QED
      BY <2>1, <2>4, <3>6 DEF RouteOfRequest
  <2> QED
    BY <2>3, <2>4
<1>3. ASSUME NEW n \in Node, ReceiveRReply(n) PROVE Goal
  <2> DEFINE m == Head(inbox[n])
             route == NewRoute(m.sender, m.n, now)
             withSource == AddRoute(routes[n], m.source, route)
             both == AddRoute(withSource, m.sender, route)
  <2>1. /\ m \in Datagrams(n) /\ m \in RRepMsg
        /\ UNCHANGED routes \/ routes' = [routes EXCEPT ![n] = both]
    BY <1>0, <1>3, RReplyEffect
  <2>2. m.source \in Address /\ m.sender \in Address /\ m.n \in Nat
    BY <2>1 DEF RRepMsg
  <2>3. CASE UNCHANGED routes \/ x # n
    BY <1>0, <2>1, <2>3
  <2>4. CASE x = n /\ routes' = [routes EXCEPT ![n] = both]
    <3>1. withSource \in Table
      BY <1>0, <2>2, NewRouteType, TableTypes
    <3>2. withSource[d] = routes[n][d] \/ (d = m.source /\ withSource[d] = route)
      BY <1>0, <2>2, TableEntries
    <3>3. both[d] = withSource[d] \/ (d = m.sender /\ both[d] = route)
      BY <1>0, <2>2, <3>1, TableEntries
    <3>4. routes'[n][d] = both[d]
      BY <1>0, <2>4
    <3>5. route.nextHop = m.sender /\ route.hops = m.n
      BY DEF NewRoute
    <3> HIDE DEF m, route, withSource, both
    <3> QED
      BY <2>1, <2>4, <3>2, <3>3, <3>4, <3>5 DEF RouteOfReply
  <2> QED
    BY <2>1, <2>3, <2>4
<1>4. ASSUME NEW n \in Node, ReceivePkt(n) PROVE Goal
  <2> DEFINE m == Head(inbox[n])
  <2>1. m.destination \in Address
    BY <1>4, PktEffect DEF PktMsg
  <2>2. \/ UNCHANGED routes
        \/ routes' = [routes EXCEPT ![n] = TableAfterGet(routes[n], m.destination, now)]
    BY <1>4 DEF ReceivePkt
  <2> QED
    BY <1>0, <2>1, <2>2, TableEntries
<1>5. ASSUME NEW n \in Node, ReceiveNAck(n) PROVE Goal
  <2> DEFINE m == Head(inbox[n])
             invalidated == InvalidateRoute(routes[n], m.source)
  <2>1. m \in NAckMsg
    BY <1>5, RestEffect, MessageFields DEF ReceiveNAck, Receives, TypeOK
  <2>2. m.source \in Address /\ m.destination \in Address
    BY <2>1 DEF NAckMsg
  <2>3. invalidated \in Table
    BY <1>0, <2>2, TableTypes
  <2>4. \/ UNCHANGED routes
        \/ routes' = [routes EXCEPT ![n] = TableAfterGet(invalidated, m.destination, now)]
    BY <1>5, NAckEffect
  <2>5. /\ invalidated[d] \in {routes[n][d], NoRoute}
        /\ TableAfterGet(invalidated, m.destination, now)[d] \in {invalidated[d], NoRoute}
    BY <1>0, <2>2, <2>3, TableEntries
  <2> QED
    BY <1>0, <2>4, <2>5
<1>6. CASE UNCHANGED routes
  BY <1>6
<1> QED
  BY <1>1, <1>2, <1>3, <1>4, <1>5, <1>6
  DEF Next, Receive, ReceiveAck, ClearOutdated, Tick, vars

\* What a new datagram that is a request, a reply or a packet can be.
LEMMA NewRequests ==
  ASSUME TypeOK, [Next]_vars, NEW x \in Node, NEW k \in Datagrams(x)', k.type = "RREQ"
  PROVE  \/ k \in Datagrams(x)
         \/ k.source \in Node /\ k.sender = k.source
         \/ \E n \in Node : \E m \in Datagrams(n) :
              m.type = "RREQ" /\ k.source = m.source /\ k.sender = m.sender
<1> DEFINE Goal == \/ k \in Datagrams(x)
                   \/ k.source \in Node /\ k.sender = k.source
                   \/ \E n \in Node : \E m \in Datagrams(n) :
                        m.type = "RREQ" /\ k.source = m.source /\ k.sender = m.sender
<1>1. ASSUME NEW n \in Node, NEW p \in Packet, Send(n, p) PROVE Goal
  BY <1>1, SendEffect DEF RRequestPacket, PktPacket
<1>2. ASSUME NEW n \in Node, ReceiveRRequest(n) PROVE Goal
  <2> DEFINE m == Head(inbox[n])
  <2>1. m \in Datagrams(n) /\ m.type = "RREQ"
    BY <1>2, RRequestTables DEF RReqMsg
  <2>2. \/ k \in Datagrams(x)
        \/ k.source = m.source /\ k.sender = m.sender
    BY <1>2, RRequestEffect DEF RReplyPacket
  <2> QED
    BY <2>1, <2>2
<1>3. ASSUME NEW n \in Node, ReceiveRReply(n) PROVE Goal
  <2>1. \/ k \in Datagrams(x)
        \/ \E p \in Packet : \E h : \E i : k = PktPacket(p, h, i)
    BY <1>3, RReplyEffect
  <2>2. \A p, h, i : PktPacket(p, h, i).type = "PKT"
    BY DEF PktPacket
  <2> QED
    BY <2>1, <2>2
<1>4. ASSUME NEW n \in Node, ReceivePkt(n) PROVE Goal
  BY <1>4, PktEffect DEF PktMsg
<1>5. ASSUME NEW n \in Node, ReceiveAck(n) \/ ReceiveNAck(n) \/ ClearOutdated(n) PROVE Goal
  BY <1>5, AckEffect, NAckEffect, ClearEffect
<1>6. CASE UNCHANGED inbox
  BY <1>6 DEF Datagrams
<1> QED
  BY <1>1, <1>2, <1>3, <1>4, <1>5, <1>6 DEF Next, Receive, Tick, vars

\* Every reply that appears is sent by the destination itself or by a node with
\* a route to it, and counts one hop more than that route.
LEMMA NewReplies ==
  ASSUME TypeOK, [Next]_vars, NEW x \in Node, NEW k \in Datagrams(x)', k.type = "RREP"
  PROVE  \/ k \in Datagrams(x)
         \/ \E n \in Node :
              /\ k.sender = n
              /\ \/ k.source = n
                 \/ /\ k.source \in Address
                    /\ routes'[n][k.source] \in Route
                    /\ k.n = routes'[n][k.source].hops + 1
<1> DEFINE Goal == \/ k \in Datagrams(x)
                   \/ \E n \in Node :
                        /\ k.sender = n
                        /\ \/ k.source = n
                           \/ /\ k.source \in Address
                              /\ routes'[n][k.source] \in Route
                              /\ k.n = routes'[n][k.source].hops + 1
<1>1. ASSUME NEW n \in Node, NEW p \in Packet, Send(n, p) PROVE Goal
  BY <1>1, SendEffect DEF RRequestPacket, PktPacket
<1>2. ASSUME NEW n \in Node, ReceiveRRequest(n) PROVE Goal
  <2> DEFINE m == Head(inbox[n])
             withSender == AddRoute(routes[n], m.sender, NewRoute(m.sender, 1, now))
             looked == TableAfterGet(withSender, m.source, now)
             withSource == AddRoute(looked, m.source, NewRoute(m.sender, m.n, now))
             route == GetRoute(withSource, m.destination, now)
  <2>1. m \in RReqMsg /\ withSource \in Table
    BY <1>2, RRequestTables
  <2>2. m.destination \in Address
    BY <2>1 DEF RReqMsg
  <2> HIDE DEF withSource
  <2>3. CASE k = RReplyPacket(n, m.source, n, m.sender, 1)
    BY <2>3 DEF RReplyPacket
  <2>4. CASE /\ route \in Route
             /\ k = RReplyPacket(m.destination, m.source, n, m.sender, route.hops + 1)
             /\ routes' = [routes EXCEPT ![n] = TableAfterGet(withSource, m.destination, now)]
    <3>1. routes'[n] = TableAfterGet(withSource, m.destination, now)
      BY <2>4 DEF TypeOK
    <3>2. routes'[n][m.destination] = route
      <4> HIDE DEF m
      <4>1. TableAfterGet(withSource, m.destination, now)[m.destination] = route
        BY <2>1, <2>2 DEF TableAfterGet, Table
      <4> QED
        BY <3>1, <4>1
    <3>3. k.sender = n /\ k.source = m.destination /\ k.n = route.hops + 1
      BY <2>4 DEF RReplyPacket
    <3> QED
      BY <2>2, <2>4, <3>2, <3>3
  <2>5. \/ k \in Datagrams(x)
        \/ k = RReplyPacket(n, m.source, n, m.sender, 1)
        \/ /\ route \in Route
           /\ k = RReplyPacket(m.destination, m.source, n, m.sender, route.hops + 1)
           /\ routes' = [routes EXCEPT ![n] = TableAfterGet(withSource, m.destination, now)]
    BY <1>2, RRequestEffect DEF withSource
  <2> QED
    BY <2>3, <2>4, <2>5
<1>3. ASSUME NEW n \in Node, ReceiveRReply(n) PROVE Goal
  <2>1. \/ k \in Datagrams(x)
        \/ \E p \in Packet : \E h : \E i : k = PktPacket(p, h, i)
    BY <1>3, RReplyEffect
  <2>2. \A p, h, i : PktPacket(p, h, i).type = "PKT"
    BY DEF PktPacket
  <2> QED
    BY <2>1, <2>2
<1>4. ASSUME NEW n \in Node, ReceivePkt(n) PROVE Goal
  BY <1>4, PktEffect DEF PktMsg
<1>5. ASSUME NEW n \in Node, ReceiveAck(n) \/ ReceiveNAck(n) \/ ClearOutdated(n) PROVE Goal
  BY <1>5, AckEffect, NAckEffect, ClearEffect
<1>6. CASE UNCHANGED inbox
  BY <1>6 DEF Datagrams
<1> QED
  BY <1>1, <1>2, <1>3, <1>4, <1>5, <1>6 DEF Next, Receive, Tick, vars

\* Packet p leaves its source n, through the route of the table or through the
\* sender of the reply it waited for.
FirstHop(k, n, p) ==
  /\ Src[p] = n
  /\ k = PktPacket(p, k.nexthop, seq[n])
  /\ seq' = IncSeq(n)
  /\ \/ \E route \in Route : /\ route = GetRoute(routes[n], Dst[p], now)
                             /\ k.nexthop = route.nextHop
     \/ \E m \in Datagrams(n) : /\ m \in RRepMsg
                                /\ Dst[p] = m.source
                                /\ k.nexthop = m.sender

\* A packet is relayed by the node n it is addressed to.
NextHop(k, n) ==
  \E m \in Datagrams(n), route \in Route :
    /\ m \in PktMsg
    /\ route = GetRoute(routes[n], m.destination, now)
    /\ k = [m EXCEPT !.nexthop = route.nextHop]

\* The new PKT datagrams of a step all carry packet p, or are relayed.
OnlyFirst(p) ==
  \A x \in Node : \A k \in Datagrams(x)' : k.type = "PKT" =>
    \/ k \in Datagrams(x)
    \/ \E n \in Node : p \in Packet /\ FirstHop(k, n, p)
    \/ \E n \in Node : NextHop(k, n)

\* The PKT datagrams of a step are those of one packet of one source, or relayed.
LEMMA NewPkts ==
  ASSUME TypeOK, WaitingInPlace, [Next]_vars
  PROVE  \E p : OnlyFirst(p)
<1>1. ASSUME NEW n \in Node, NEW p \in Packet, Send(n, p) PROVE OnlyFirst(p)
  <2> SUFFICES ASSUME NEW x \in Node, NEW k \in Datagrams(x)', k.type = "PKT"
               PROVE  k \in Datagrams(x) \/ FirstHop(k, n, p)
    BY DEF OnlyFirst
  <2> DEFINE route == GetRoute(routes[n], Dst[p], now)
  <2>1. \/ k \in Datagrams(x)
        \/ /\ k = PktPacket(p, route.nextHop, seq[n])
           /\ route \in Route
           /\ seq' = IncSeq(n)
    BY <1>1, SendEffect DEF RRequestPacket
  <2>2. PktPacket(p, route.nextHop, seq[n]).nexthop = route.nextHop
    BY DEF PktPacket
  <2>3. Src[p] = n
    BY <1>1 DEF Send
  <2> HIDE DEF route
  <2> QED
    BY <2>1, <2>2, <2>3 DEF FirstHop, route
<1>2. ASSUME NEW n \in Node, ReceiveRReply(n)
      PROVE  OnlyFirst(Head(packetsToSend[n][Head(inbox[n]).source]))
  <2> DEFINE m == Head(inbox[n])
             waiting == packetsToSend[n][m.source]
             p == Head(waiting)
  <2> SUFFICES ASSUME NEW x \in Node, NEW k \in Datagrams(x)', k.type = "PKT"
               PROVE  k \in Datagrams(x) \/ (p \in Packet /\ FirstHop(k, n, p))
    BY DEF OnlyFirst
  <2>1. m \in Datagrams(n) /\ m \in RRepMsg
    BY <1>2, RReplyEffect
  <2>2. m.source \in Address
    BY <2>1 DEF RRepMsg
  <2>3. \/ k \in Datagrams(x)
        \/ /\ p \in Packet /\ p \in Elements(waiting)
           /\ k = PktPacket(p, m.sender, seq[n])
           /\ seq' = IncSeq(n)
    BY <1>2, RReplyEffect
  <2>4. p \in Elements(waiting) => Src[p] = n /\ Dst[p] = m.source
    BY <2>2 DEF WaitingInPlace
  <2>5. PktPacket(p, m.sender, seq[n]).nexthop = m.sender
    BY DEF PktPacket
  <2> HIDE DEF m, p, waiting
  <2> QED
    BY <2>1, <2>3, <2>4, <2>5 DEF FirstHop
<1>3. ASSUME NEW n \in Node, ReceivePkt(n), NEW p PROVE OnlyFirst(p)
  <2> SUFFICES ASSUME NEW x \in Node, NEW k \in Datagrams(x)', k.type = "PKT"
               PROVE  k \in Datagrams(x) \/ NextHop(k, n)
    BY DEF OnlyFirst
  <2> DEFINE m == Head(inbox[n])
             route == GetRoute(routes[n], m.destination, now)
  <2>1. /\ m \in Datagrams(n) /\ m \in PktMsg
        /\ \/ k \in Datagrams(x)
           \/ route \in Route /\ k = [m EXCEPT !.nexthop = route.nextHop]
    BY <1>3, PktEffect
  <2> QED
    BY <2>1 DEF NextHop
<1>4. ASSUME NEW n \in Node, ReceiveRRequest(n), NEW p PROVE OnlyFirst(p)
  BY <1>4, RRequestEffect DEF RReplyPacket, OnlyFirst
<1>5. ASSUME NEW n \in Node, ReceiveAck(n) \/ ReceiveNAck(n) \/ ClearOutdated(n), NEW p
      PROVE  OnlyFirst(p)
  BY <1>5, AckEffect, NAckEffect, ClearEffect DEF OnlyFirst
<1>6. ASSUME UNCHANGED inbox, NEW p PROVE OnlyFirst(p)
  BY <1>6 DEF Datagrams, OnlyFirst
<1> QED
  BY <1>1, <1>2, <1>3, <1>4, <1>5, <1>6 DEF Next, Receive, Tick, vars
-----------------------------------------------------------------------------
(* The steps *)

\* Only send fills a queue, with a packet of its own for that destination.
LEMMA WaitingStep ==
  TypeOK /\ WaitingInPlace /\ [Next]_vars => WaitingInPlace'
<1> SUFFICES ASSUME TypeOK, WaitingInPlace, [Next]_vars,
                    NEW n \in Node, NEW d \in Address, NEW p \in Elements(packetsToSend'[n][d])
             PROVE  Src[p] = n /\ Dst[p] = d
  BY DEF WaitingInPlace
<1>1. /\ packetsToSend \in [Node -> [Address -> Seq(Packet)]]
      /\ Elements(<<>>) = {}
  BY SingletonElements DEF TypeOK
<1>2. CASE packetsToSend'[n][d] = packetsToSend[n][d]
  BY <1>2 DEF WaitingInPlace
<1>3. CASE packetsToSend'[n][d] = <<>>
  BY <1>1, <1>3
<1>4. ASSUME NEW x \in Node, NEW q \in Packet, Send(x, q)
      PROVE  packetsToSend'[n][d] = packetsToSend[n][d] \/ (Src[p] = n /\ Dst[p] = d)
  <2>1. Src[q] = x /\ Dst[q] \in Address
    BY <1>4, PacketAssumption DEF Send
  <2>2. \/ UNCHANGED packetsToSend
        \/ packetsToSend' = [packetsToSend EXCEPT ![x][Dst[q]] = <<q>>]
    BY <1>4 DEF Send, Enqueue
  <2>3. \/ packetsToSend'[n][d] = packetsToSend[n][d]
        \/ packetsToSend'[n][d] = <<q>> /\ n = x /\ d = Dst[q]
    BY <1>1, <2>1, <2>2
  <2>4. Elements(<<q>>) = {q}
    BY SingletonElements
  <2> QED
    BY <2>1, <2>3, <2>4
<1>5. ASSUME NEW x \in Node, ReceiveRReply(x)
      PROVE  packetsToSend'[n][d] \in {packetsToSend[n][d], <<>>}
  <2>1. Head(inbox[x]).source \in Address
    BY <1>5, RReplyEffect DEF RRepMsg
  <2>2. \/ UNCHANGED packetsToSend
        \/ packetsToSend' = [packetsToSend EXCEPT ![x][Head(inbox[x]).source] = <<>>]
    BY <1>5 DEF ReceiveRReply, EraseQueue
  <2> QED
    BY <1>1, <2>1, <2>2
<1>6. ASSUME NEW x \in Node, ClearOutdated(x)
      PROVE  packetsToSend'[n][d] \in {packetsToSend[n][d], <<>>}
  <2>1. PICK ds : packetsToSend' = EraseWaiting(x, ds)
    BY <1>6 DEF ClearOutdated
  <2> QED
    BY <1>1, <2>1 DEF EraseWaiting
<1>7. CASE UNCHANGED packetsToSend
  BY <1>2, <1>7
<1> QED
  BY <1>2, <1>3, <1>4, <1>5, <1>6, <1>7
  DEF Next, Receive, ReceiveRRequest, ReceivePkt, ReceiveAck, ReceiveNAck, Tick, vars

\* Requests, replies and routes name nodes.
NamesInv == RequestsAreDirect /\ RepliesNameNodes /\ NoRouteToNobody

\* What names nodes in a step was learnt from what named nodes before.
LEMMA NamesStep ==
  TypeOK /\ NamesInv /\ [Next]_vars => NamesInv'
<1> SUFFICES ASSUME TypeOK, NamesInv, [Next]_vars PROVE NamesInv'
  OBVIOUS
<1>1. RequestsAreDirect'
  BY NewRequests DEF NamesInv, RequestsAreDirect
<1>2. NoRouteToNobody'
  <2> SUFFICES ASSUME NEW x \in Node, NEW d \in Address, routes'[x][d] # NoRoute
               PROVE  d \in Node /\ routes'[x][d].nextHop \in Node
    BY DEF NoRouteToNobody
  <2>1. CASE routes'[x][d] = routes[x][d]
    BY <2>1 DEF NamesInv, NoRouteToNobody
  <2>2. CASE RouteOfRequest(x, d, routes'[x][d])
    BY <2>2 DEF RouteOfRequest, RReqMsg, NamesInv, RequestsAreDirect
  <2>3. CASE RouteOfReply(x, d, routes'[x][d])
    BY <2>3 DEF RouteOfReply, RRepMsg, NamesInv, RepliesNameNodes
  <2> QED
    BY <2>1, <2>2, <2>3, NewRoutes
<1>3. RepliesNameNodes'
  <2> SUFFICES ASSUME NEW x \in Node, NEW k \in Datagrams(x)', k.type = "RREP"
               PROVE  k.source \in Node /\ k.sender \in Node
    BY DEF RepliesNameNodes
  <2>1. CASE k \in Datagrams(x)
    BY <2>1 DEF NamesInv, RepliesNameNodes
  <2>2. ASSUME NEW n \in Node, k.sender = n, k.source \in Address, routes'[n][k.source] \in Route
        PROVE  k.source \in Node /\ k.sender \in Node
    BY <1>2, <2>2, NoRouteAssumption DEF NoRouteToNobody
  <2> QED
    BY <2>1, <2>2, NewReplies
<1> QED
  BY <1>1, <1>2, <1>3 DEF NamesInv

\* The part of the invariant that lasts until a table loses an entry.
LeadsInv == RepliesHold /\ NoLoop /\ PktsLead /\ up = Node

\* As long as nothing is lost, whatever led to a destination still does.
LEMMA LeadsMonotone ==
  ASSUME TypeOK, [Next]_vars, ~routeLost', NEW h \in Node, NEW d \in Address, NEW k,
         Leads(h, d, k)
  PROVE  Leads(h, d, k)'
BY TablesGrow DEF Leads

\* A next hop found in the table leads to the destination.
LEMMA TableLeads ==
  ASSUME TypeOK, NoLoop, ~routeLost, NEW n \in Node, NEW d \in Address, NEW route \in Route,
         route = GetRoute(routes[n], d, now)
  PROVE  route.nextHop = d \/ routes[route.nextHop][d] # NoRoute
<1>1. routes[n][d] # NoRoute /\ route = routes[n][d]
  BY NoRouteAssumption DEF GetRoute, Usable
<1> QED
  BY <1>1 DEF NoLoop

\* As long as nothing is lost, replies, routes and packets get closer.
LEMMA LeadsStep ==
  ASSUME TypeOK, WaitingInPlace, NamesInv, LeadsInv, [Next]_vars, ~routeLost'
  PROVE  LeadsInv'
<1>1. /\ ~routeLost
      /\ \A n \in Node, d \in Address : routes[n][d] # NoRoute => routes'[n][d] = routes[n][d]
  BY TablesGrow
<1>2. routes' \in [Node -> Table] /\ inbox' \in [Node -> Seq(Message)]
  BY TypeStep DEF TypeOK
<1>3. NoLoop'
  <2> SUFFICES ASSUME NEW x \in Node, NEW d \in Address,
                      routes'[x][d] # NoRoute, routes'[x][d].nextHop # d
               PROVE  LET h == routes'[x][d].nextHop IN
                      routes'[h][d] # NoRoute /\ routes'[h][d].hops < routes'[x][d].hops
    BY DEF NoLoop
  <2> DEFINE h == routes'[x][d].nextHop
  <2>1. CASE routes'[x][d] = routes[x][d]
    <3>1. h \in Node
      BY <2>1 DEF NamesInv, NoRouteToNobody
    <3>2. routes[h][d] # NoRoute /\ routes[h][d].hops < routes[x][d].hops
      BY <1>1, <2>1 DEF LeadsInv, NoLoop
    <3> HIDE DEF h
    <3>3. routes'[h][d] # NoRoute /\ routes'[h][d].hops < routes'[x][d].hops
      BY <1>1, <2>1, <3>1, <3>2
    <3> QED
      BY <3>3 DEF h
  <2>2. CASE RouteOfRequest(x, d, routes'[x][d])
    BY <2>2 DEF RouteOfRequest, RReqMsg, NamesInv, RequestsAreDirect
  <2>3. CASE RouteOfReply(x, d, routes'[x][d])
    <3>1. PICK m \in Datagrams(x) :
            m \in RRepMsg /\ h = m.sender /\ d = m.source /\ routes'[x][d].hops = m.n
      BY <2>3 DEF RouteOfReply
    <3>2. m.sender \in Node /\ Leads(m.sender, m.source, m.n)
      BY <3>1 DEF RRepMsg, NamesInv, RepliesNameNodes, LeadsInv, RepliesHold
    <3>3. Leads(m.sender, m.source, m.n)'
      BY <3>1, <3>2, LeadsMonotone
    <3> QED
      BY <3>1, <3>3 DEF Leads
  <2> QED
    BY <2>1, <2>2, <2>3, NewRoutes
<1>4. RepliesHold'
  <2> SUFFICES ASSUME NEW x \in Node, NEW k \in Datagrams(x)', k.type = "RREP"
               PROVE  Leads(k.sender, k.source, k.n)'
    BY DEF RepliesHold
  <2>1. CASE k \in Datagrams(x)
    <3>1. k \in Message
      BY <2>1 DEF Datagrams, Elements, TypeOK
    <3>2. k.source \in Address
      BY <3>1, MessageFields DEF RRepMsg
    <3>3. k.sender \in Node /\ Leads(k.sender, k.source, k.n)
      BY <2>1 DEF NamesInv, RepliesNameNodes, LeadsInv, RepliesHold
    <3> QED
      BY <3>2, <3>3, LeadsMonotone
  <2>2. ASSUME NEW n \in Node, k.sender = n, k.source \in Address,
               routes'[n][k.source] \in Route, k.n = routes'[n][k.source].hops + 1
        PROVE  Leads(k.sender, k.source, k.n)'
    <3>1. routes'[n][k.source].hops \in Nat
      BY <2>2 DEF Route
    <3> QED
      BY <2>2, <3>1, NoRouteAssumption DEF Leads
  <2>3. ASSUME k.source = k.sender PROVE Leads(k.sender, k.source, k.n)'
    BY <2>3 DEF Leads
  <2> QED
    BY <2>1, <2>2, <2>3, NewReplies
<1>5. PktsLead'
  <2> SUFFICES ASSUME NEW x \in Node, NEW k \in Datagrams(x)', k.type = "PKT",
                      k.nexthop # k.destination, k.nexthop \in Node
               PROVE  routes'[k.nexthop][k.destination] # NoRoute
    BY DEF PktsLead
  <2>1. k.destination \in Address
    <3>1. k \in Message
      BY <1>2 DEF Datagrams, Elements
    <3> QED
      BY <3>1, MessageFields DEF PktMsg
  <2>2. CASE k \in Datagrams(x)
    BY <1>1, <2>1, <2>2 DEF LeadsInv, PktsLead
  <2>3. ASSUME NEW n \in Node, NEW p \in Packet, FirstHop(k, n, p)
        PROVE  routes[k.nexthop][k.destination] # NoRoute
    <3>1. k.destination = Dst[p]
      BY <2>3 DEF FirstHop, PktPacket
    <3>2. ASSUME NEW route \in Route, route = GetRoute(routes[n], Dst[p], now),
                 k.nexthop = route.nextHop
          PROVE  routes[k.nexthop][k.destination] # NoRoute
      BY <1>1, <2>1, <3>1, <3>2, TableLeads DEF LeadsInv
    <3>3. ASSUME NEW m \in Datagrams(n), m \in RRepMsg, Dst[p] = m.source, k.nexthop = m.sender
          PROVE  routes[k.nexthop][k.destination] # NoRoute
      BY <3>1, <3>3 DEF RRepMsg, LeadsInv, RepliesHold, Leads
    <3> QED
      BY <2>3, <3>2, <3>3 DEF FirstHop
  <2>4. ASSUME NEW n \in Node, NextHop(k, n)
        PROVE  routes[k.nexthop][k.destination] # NoRoute
    <3>1. PICK m \in Datagrams(n), route \in Route :
            /\ m \in PktMsg
            /\ route = GetRoute(routes[n], m.destination, now)
            /\ k = [m EXCEPT !.nexthop = route.nextHop]
      BY <2>4 DEF NextHop
    <3>2. k.destination = m.destination /\ k.nexthop = route.nextHop
      BY <3>1 DEF PktMsg
    <3> QED
      BY <1>1, <2>1, <3>1, <3>2, TableLeads DEF LeadsInv
  <2>5. CASE routes[k.nexthop][k.destination] # NoRoute
    BY <1>1, <2>1, <2>5
  <2> QED
    BY <2>2, <2>3, <2>4, <2>5, NewPkts DEF OnlyFirst
<1>6. up' = Node
  <2>1. CASE UNCHANGED up
    BY <2>1 DEF LeadsInv
  <2>2. ASSUME NEW n \in Node, ReceivePkt(n), ~UNCHANGED up PROVE FALSE
    <3> DEFINE m == Head(inbox[n])
    <3>1. /\ m \in Datagrams(n) /\ m \in PktMsg
      BY <2>2, PktEffect
    <3>2. /\ m.nexthop = n /\ m.destination # n
          /\ GetRoute(routes[n], m.destination, now) = NoRoute
          /\ routes' = [routes EXCEPT ![n] = TableAfterGet(@, m.destination, now)]
      BY <2>2 DEF ReceivePkt, AddressedTo
    <3>3. m.destination \in Address /\ m.type = "PKT"
      BY <3>1 DEF PktMsg
    <3>4. routes[n][m.destination] # NoRoute
      BY <3>1, <3>2, <3>3 DEF LeadsInv, PktsLead
    <3>5. routes[n] \in Table /\ routes'[n] = TableAfterGet(routes[n], m.destination, now)
      BY <3>2 DEF TypeOK
    <3>6. routes'[n][m.destination] = NoRoute
      BY <3>2, <3>3, <3>5 DEF TableAfterGet, Table
    <3> QED
      BY <1>1, <3>3, <3>4, <3>6
  <2> QED
    BY <2>1, <2>2
    DEF Next, Receive, Send, ReceiveRRequest, ReceiveRReply, ReceiveAck, ReceiveNAck,
        ClearOutdated, Tick, vars
<1> QED
  BY <1>3, <1>4, <1>5, <1>6 DEF LeadsInv
-----------------------------------------------------------------------------
\* The inductive invariant of the routes.
LEMMA RouteInvCorrect == Spec => []RouteInv
<1>1. Init => RouteInv
  <2> SUFFICES ASSUME Init PROVE RouteInv
    OBVIOUS
  <2>1. \A n \in Node : Datagrams(n) = {}
    BY DEF Init, Datagrams, Elements
  <2>2. \A n \in Node, d \in Address : Elements(packetsToSend[n][d]) = {}
    BY DEF Init, Elements
  <2>3. \A n \in Node, d \in Address : routes[n][d] = NoRoute
    BY DEF Init, EmptyTable
  <2>4. up = Node
    BY DEF Init
  <2> QED
    BY <2>1, <2>2, <2>3, <2>4, TypeInit
    DEF RouteInv, WaitingInPlace, RequestsAreDirect, RepliesNameNodes, NoRouteToNobody,
        RepliesHold, NoLoop, PktsLead
<1>2. RouteInv /\ [Next]_vars => RouteInv'
  <2> SUFFICES ASSUME RouteInv, [Next]_vars PROVE RouteInv'
    OBVIOUS
  <2>1. TypeOK' /\ WaitingInPlace' /\ NamesInv'
    BY TypeStep, WaitingStep, NamesStep DEF RouteInv, NamesInv
  <2>2. ~routeLost' => LeadsInv'
    BY TablesGrow, LeadsStep DEF RouteInv, NamesInv, LeadsInv
  <2> QED
    BY <2>1, <2>2 DEF RouteInv, NamesInv, LeadsInv
<1> QED
  BY <1>1, <1>2, PTL DEF Spec

\* No table holds a route to an address that belongs to no node, nor through
\* one: receiveRRequest answers only for what it knows.
THEOREM RoutesNameNodes == Spec => []NoRouteToNobody
<1>1. RouteInv => NoRouteToNobody
  BY DEF RouteInv
<1> QED
  BY <1>1, RouteInvCorrect, PTL

\* Until an entry expires, is replaced or is invalidated by a NACK, the next
\* hops of every table form no loop, whatever was lost or came in any order.
THEOREM RoutesDoNotLoop == Spec => []NoLoop
<1>1. RouteInv => NoLoop
  BY DEF RouteInv, NoLoop
<1> QED
  BY <1>1, RouteInvCorrect, PTL

\* Until then no node is handed a PKT it cannot forward, so the empty pointer
\* of receivePkt is never read: a crash needs a lost route first.
THEOREM CrashNeedsLoss == Spec => []NoCrashBeforeLoss
<1>1. RouteInv => NoCrashBeforeLoss
  BY DEF RouteInv, NoCrashBeforeLoss
<1> QED
  BY <1>1, RouteInvCorrect, PTL
-----------------------------------------------------------------------------
\* A new packet takes a number above all that are in flight from its source.
LEMMA SequenceStep ==
  SequenceInv /\ [Next]_vars => SequenceInv'
<1> SUFFICES ASSUME SequenceInv, [Next]_vars PROVE SequenceInv'
  OBVIOUS
<1>1. TypeOK /\ WaitingInPlace /\ NumbersUsed /\ UniqueSequence
  BY DEF SequenceInv
<1>2. TypeOK' /\ WaitingInPlace'
  BY <1>1, TypeStep, WaitingStep
<1>3. /\ seq \in [Node -> Nat] /\ seq' \in [Node -> Nat]
      /\ UNCHANGED seq \/ \E n \in Node : seq' = IncSeq(n)
  BY <1>1, <1>2
  DEF TypeOK, Next, Receive, Send, SendTo, ackVars, ReceiveRRequest, ReceiveRReply, ReceivePkt,
      ReceiveAck, ReceiveNAck, ClearOutdated, Tick, vars
<1>4. \A n \in Node : seq[n] <= seq'[n]
  BY <1>3 DEF IncSeq
\* Every PKT in flight repeats the number of an older one, with its data, or
\* is the one that has just been numbered.
<1> DEFINE Copy(k) == \E y \in Node : \E m \in Datagrams(y) :
                        /\ m.type = "PKT" /\ k.source = m.source
                        /\ k.seq = m.seq /\ k.data = m.data
           Fresh(k, p) == \E n \in Node : /\ seq' = IncSeq(n)
                                          /\ k.source = n /\ k.seq = seq[n] /\ k.data = p
<1>5. PICK p : \A x \in Node : \A k \in Datagrams(x)' : k.type = "PKT" => Copy(k) \/ Fresh(k, p)
  <2>1. ASSUME NEW p, NEW k, NEW n \in Node, FirstHop(k, n, p) PROVE Fresh(k, p)
    BY <2>1 DEF FirstHop, PktPacket
  <2>2. ASSUME NEW k, NEW n \in Node, NextHop(k, n) PROVE Copy(k)
    BY <2>2 DEF NextHop, PktMsg
  <2>3. ASSUME NEW x \in Node, NEW k \in Datagrams(x), k.type = "PKT" PROVE Copy(k)
    BY <2>3
  <2>4. PICK p : OnlyFirst(p)
    BY <1>1, NewPkts
  <2> HIDE DEF Copy, Fresh
  <2>5. \A x \in Node : \A k \in Datagrams(x)' : k.type = "PKT" => Copy(k) \/ Fresh(k, p)
    BY <2>1, <2>2, <2>3, <2>4 DEF OnlyFirst
  <2> QED
    BY <2>5
<1>6. ASSUME NEW k, Copy(k) PROVE k.source \in Node /\ k.seq < seq[k.source]
  BY <1>1, <1>6 DEF NumbersUsed
<1>7. NumbersUsed'
  <2> SUFFICES ASSUME NEW x \in Node, NEW k \in Datagrams(x)', k.type = "PKT"
               PROVE  k.source \in Node /\ k.seq < seq'[k.source]
    BY DEF NumbersUsed
  <2>1. CASE Copy(k)
    <3>1. k \in Message
      BY <1>2 DEF Datagrams, Elements, TypeOK
    <3>2. k.seq \in Nat
      BY <3>1, MessageFields DEF PktMsg
    <3> QED
      BY <1>3, <1>4, <1>6, <2>1, <3>2
  <2>2. CASE Fresh(k, p)
    BY <1>3, <2>2 DEF IncSeq
  <2> QED
    BY <1>5, <2>1, <2>2
<1>8. UniqueSequence'
  <2> SUFFICES ASSUME NEW x \in Node, NEW y \in Node,
                      NEW k \in Datagrams(x)', NEW j \in Datagrams(y)',
                      k.type = "PKT", j.type = "PKT", k.source = j.source, k.seq = j.seq
               PROVE  k.data = j.data
    BY DEF UniqueSequence
  <2>1. CASE Copy(k) /\ Copy(j)
    <3>1. PICK u \in Node : \E m \in Datagrams(u) :
             m.type = "PKT" /\ k.source = m.source /\ k.seq = m.seq /\ k.data = m.data
      BY <2>1
    <3>2. PICK m \in Datagrams(u) :
             m.type = "PKT" /\ k.source = m.source /\ k.seq = m.seq /\ k.data = m.data
      BY <3>1
    <3>3. PICK v \in Node : \E o \in Datagrams(v) :
             o.type = "PKT" /\ j.source = o.source /\ j.seq = o.seq /\ j.data = o.data
      BY <2>1
    <3>4. PICK o \in Datagrams(v) :
             o.type = "PKT" /\ j.source = o.source /\ j.seq = o.seq /\ j.data = o.data
      BY <3>3
    <3>5. m.source = o.source /\ m.seq = o.seq
      BY <3>2, <3>4
    <3>6. m.data = o.data
      BY <1>1, <3>2, <3>4, <3>5 DEF UniqueSequence
    <3> QED
      BY <3>2, <3>4, <3>6
  <2>2. ASSUME NEW old, Copy(old), NEW new, Fresh(new, p),
               old.source = new.source, old.seq = new.seq
        PROVE  FALSE
    <3>1. old.seq < seq[old.source]
      BY <1>6, <2>2
    <3>2. new.source \in Node /\ new.seq = seq[new.source]
      BY <2>2
    <3>3. seq[new.source] \in Nat
      BY <1>3, <3>2
    <3> QED
      BY <2>2, <3>1, <3>2, <3>3
  <2>3. ~(Copy(k) /\ Fresh(j, p)) /\ ~(Copy(j) /\ Fresh(k, p))
    <3>1. ASSUME Copy(k), Fresh(j, p) PROVE FALSE
      BY ONLY <2>2, <3>1, k.source = j.source, k.seq = j.seq
    <3>2. ASSUME Copy(j), Fresh(k, p) PROVE FALSE
      BY ONLY <2>2, <3>2, k.source = j.source, k.seq = j.seq
    <3> QED
      BY <3>1, <3>2
  <2>4. CASE Fresh(k, p) /\ Fresh(j, p)
    BY <2>4
  <2> QED
    BY <1>5, <2>1, <2>2, <2>3, <2>4
<1> QED
  BY <1>2, <1>7, <1>8 DEF SequenceInv

\* Two PKT datagrams in flight with the same source and sequence number carry
\* the same packet, so an ACK is never ambiguous (unbounded numbers).
THEOREM SequencesAreUnique == Spec => []UniqueSequence
<1>1. Init => SequenceInv
  <2> SUFFICES ASSUME Init PROVE SequenceInv
    OBVIOUS
  <2>1. \A n \in Node : Datagrams(n) = {}
    BY DEF Init, Datagrams, Elements
  <2>2. \A n \in Node, d \in Address : Elements(packetsToSend[n][d]) = {}
    BY DEF Init, Elements
  <2> QED
    BY <2>1, <2>2, TypeInit DEF SequenceInv, WaitingInPlace, NumbersUsed, UniqueSequence
<1>2. SequenceInv => UniqueSequence
  BY DEF SequenceInv
<1> QED
  BY <1>1, <1>2, SequenceStep, PTL DEF Spec
-----------------------------------------------------------------------------
(* What a table loses.                                                      *)

\* The entry of d in a table is still there in another one, unless it expired.
EntryKept(old, new, d) ==
  old[d] # NoRoute /\ new[d] # old[d] => HasExpired(old[d], now)

\* One operation after another.
LEMMA KeptByBoth ==
  ASSUME NEW old, NEW mid, NEW new, NEW d, EntryKept(old, mid, d), EntryKept(mid, new, d)
  PROVE  EntryKept(old, new, d)
BY DEF EntryKept

\* getRoute erases what it finds expired and addRoute replaces nothing.
LEMMA OperationsKeep ==
  ASSUME NEW table \in Table, NEW d \in Address, NEW e \in Address, NEW route
  PROVE  /\ EntryKept(table, TableAfterGet(table, d, now), e)
         /\ EntryKept(table, AddRoute(table, d, route), e)
         /\ e # d => EntryKept(table, InvalidateRoute(table, d), e)
BY DEF EntryKept, Table, TableAfterGet, GetRoute, Usable, AddRoute, InvalidateRoute

\* The only handler that gives up a way that is not too old is receiveNAck.
LEMMA LossStep ==
  ASSUME TypeOK, [Next]_vars, NEW x \in Node, NEW d \in Address
  PROVE  \/ EntryKept(routes[x], routes'[x], d)
         \/ LET m == Head(inbox[x]) IN
            Receives(x, "NACK") /\ AddressedTo(x, m) /\ m.source = d
<1> DEFINE Kept == EntryKept(routes[x], routes'[x], d)
<1>1. routes[x] \in Table /\ now \in Nat /\ \A n \in Node : routes[n] \in Table
  BY DEF TypeOK
<1>2. routes'[x] = routes[x] => Kept
  BY DEF EntryKept
<1>3. ASSUME NEW n \in Node, NEW p \in Packet, Send(n, p) PROVE Kept
  <2>1. routes' = [routes EXCEPT ![n] = TableAfterGet(@, Dst[p], now)]
    BY <1>3 DEF Send
  <2>2. routes'[x] = IF x = n THEN TableAfterGet(routes[x], Dst[p], now) ELSE routes[x]
    BY <2>1 DEF TypeOK
  <2> QED
    BY <1>1, <1>2, <2>2, OperationsKeep, PacketAssumption
<1>4. ASSUME NEW n \in Node, ReceiveRRequest(n) PROVE Kept
  <2> DEFINE m == Head(inbox[n])
             withSender == AddRoute(routes[n], m.sender, NewRoute(m.sender, 1, now))
             looked == TableAfterGet(withSender, m.source, now)
             withSource == AddRoute(looked, m.source, NewRoute(m.sender, m.n, now))
             final == TableAfterGet(withSource, m.destination, now)
  <2>1. /\ withSender \in Table /\ looked \in Table /\ withSource \in Table /\ m \in RReqMsg
    BY <1>4, RRequestTables
  <2>2. m.sender \in Address /\ m.source \in Address /\ m.destination \in Address
    BY <2>1 DEF RReqMsg
  <2>3. \E table \in {looked, withSource, final} : routes' = [routes EXCEPT ![n] = table]
    BY <1>4 DEF ReceiveRRequest
  <2>4. EntryKept(routes[n], withSender, d)
    BY <1>1, <2>2, OperationsKeep
  <2>5. EntryKept(withSender, looked, d)
    BY <2>1, <2>2, OperationsKeep
  <2>6. EntryKept(looked, withSource, d)
    BY <2>1, <2>2, OperationsKeep
  <2>7. EntryKept(withSource, final, d)
    BY <2>1, <2>2, OperationsKeep
  <2> HIDE DEF withSender, looked, withSource, final
  <2>8. EntryKept(routes[n], looked, d)
    BY <2>4, <2>5, KeptByBoth
  <2>9. EntryKept(routes[n], withSource, d)
    BY <2>6, <2>8, KeptByBoth
  <2>10. EntryKept(routes[n], final, d)
    BY <2>7, <2>9, KeptByBoth
  <2>11. x # n => routes'[x] = routes[x]
    BY <2>3 DEF TypeOK
  <2>12. routes'[n] \in {looked, withSource, final}
    BY <2>3 DEF TypeOK
  <2> QED
    BY <1>2, <2>8, <2>9, <2>10, <2>11, <2>12
<1>5. ASSUME NEW n \in Node, ReceiveRReply(n) PROVE Kept
  <2> DEFINE m == Head(inbox[n])
             route == NewRoute(m.sender, m.n, now)
             mid == AddRoute(routes[n], m.source, route)
             final == AddRoute(mid, m.sender, route)
  <2>1. m \in RRepMsg /\ (UNCHANGED routes \/ routes' = [routes EXCEPT ![n] = final])
    BY <1>5, RReplyEffect
  <2>2. m.source \in Address /\ m.sender \in Address /\ m.n \in Nat
    BY <2>1 DEF RRepMsg
  <2>3. mid \in Table
    BY <1>1, <2>2, NewRouteType, TableTypes
  <2>4. EntryKept(routes[n], mid, d)
    BY <1>1, <2>2, OperationsKeep
  <2>5. EntryKept(mid, final, d)
    BY <2>2, <2>3, OperationsKeep
  <2> HIDE DEF mid, final
  <2>6. EntryKept(routes[n], final, d)
    BY <2>4, <2>5, KeptByBoth
  <2> QED
    BY <1>2, <2>1, <2>6 DEF TypeOK
<1>6. ASSUME NEW n \in Node, ReceivePkt(n) PROVE Kept
  <2> DEFINE m == Head(inbox[n])
  <2>1. m.destination \in Address
    BY <1>6, PktEffect DEF PktMsg
  <2>2. UNCHANGED routes \/ routes' = [routes EXCEPT ![n] = TableAfterGet(@, m.destination, now)]
    BY <1>6 DEF ReceivePkt
  <2>3. EntryKept(routes[n], TableAfterGet(routes[n], m.destination, now), d)
    BY <1>1, <2>1, OperationsKeep
  <2> QED
    BY <1>2, <2>2, <2>3 DEF TypeOK
<1>7. ASSUME NEW n \in Node, ReceiveNAck(n)
      PROVE  Kept \/ (Receives(x, "NACK") /\ AddressedTo(x, Head(inbox[x]))
                      /\ Head(inbox[x]).source = d)
  <2> DEFINE m == Head(inbox[n])
             invalidated == InvalidateRoute(routes[n], m.source)
             final == TableAfterGet(invalidated, m.destination, now)
  <2>1. Receives(n, "NACK")
        /\ (UNCHANGED routes \/ (AddressedTo(n, m) /\ routes' = [routes EXCEPT ![n] = final]))
    BY <1>7 DEF ReceiveNAck
  <2>2. m \in NAckMsg
    BY <2>1, RestEffect, MessageFields DEF Receives, TypeOK
  <2>3. m.source \in Address /\ m.destination \in Address
    BY <2>2 DEF NAckMsg
  <2>4. invalidated \in Table
    BY <1>1, <2>3, TableTypes
  <2>5. d # m.source => EntryKept(routes[n], invalidated, d)
    BY <1>1, <2>3, OperationsKeep
  <2>6. EntryKept(invalidated, final, d)
    BY <2>3, <2>4, OperationsKeep
  <2> HIDE DEF invalidated, final
  <2>7. d # m.source => EntryKept(routes[n], final, d)
    BY <2>5, <2>6, KeptByBoth
  <2>8. x # n => routes'[x] = routes[x]
    BY <2>1 DEF TypeOK
  <2>9. routes'[n] = routes[n] \/ (AddressedTo(n, m) /\ routes'[n] = final)
    BY <2>1 DEF TypeOK
  <2> QED
    BY <1>2, <2>1, <2>7, <2>8, <2>9
<1>8. ASSUME UNCHANGED routes PROVE Kept
  BY <1>2, <1>8
<1> HIDE DEF Kept
<1>9. Kept \/ (Receives(x, "NACK") /\ AddressedTo(x, Head(inbox[x])) /\ Head(inbox[x]).source = d)
  BY <1>3, <1>4, <1>5, <1>6, <1>7, <1>8
  DEF Next, Receive, ReceiveAck, ClearOutdated, Tick, vars
<1> QED
  BY <1>9 DEF Kept

\* A NACK is in flight only after a packet has waited for its ACK.
LateNacks ==
  \A n \in Node : \A m \in Datagrams(n) : m.type = "NACK" => now > AckDelay

LossInv == TypeOK /\ LateNacks /\ NoEarlyLoss

\* NACKs come from clearOutdatedPackets, or are passed on.
LEMMA LateNacksStep ==
  ASSUME TypeOK, LateNacks, [Next]_vars
  PROVE  LateNacks'
<1> SUFFICES ASSUME NEW x \in Node, NEW k \in Datagrams(x)', k.type = "NACK"
             PROVE  now' > AckDelay
  BY DEF LateNacks
<1>1. now \in Nat /\ AckDelay \in Nat /\ (now' = now \/ now' = now + 1)
  BY DelayAssumption
  DEF TypeOK, Next, Receive, Send, ReceiveRRequest, ReceiveRReply, ReceivePkt, ReceiveAck,
      ReceiveNAck, ClearOutdated, Tick, vars
<1> SUFFICES now > AckDelay
  BY <1>1
<1>2. k \in Datagrams(x) => now > AckDelay
  BY DEF LateNacks
<1>3. ASSUME NEW n \in Node, NEW p \in Packet, Send(n, p) PROVE k \in Datagrams(x)
  BY <1>3, SendEffect DEF RRequestPacket, PktPacket
<1>4. ASSUME NEW n \in Node, ReceiveRRequest(n) PROVE k \in Datagrams(x)
  <2>1. \A s, d, e, h, i : RReplyPacket(s, d, e, h, i).type = "RREP"
    BY DEF RReplyPacket
  <2> QED
    BY <1>4, <2>1, RRequestEffect
<1>5. ASSUME NEW n \in Node, ReceiveRReply(n) PROVE k \in Datagrams(x)
  <2>1. \A p, h, i : PktPacket(p, h, i).type = "PKT"
    BY DEF PktPacket
  <2> QED
    BY <1>5, <2>1, RReplyEffect
<1>6. ASSUME NEW n \in Node, ReceivePkt(n) PROVE k \in Datagrams(x)
  BY <1>6, PktEffect DEF PktMsg
<1>7. ASSUME NEW n \in Node, ReceiveAck(n) PROVE k \in Datagrams(x)
  BY <1>7, AckEffect
<1>8. ASSUME NEW n \in Node, ReceiveNAck(n) PROVE now > AckDelay
  <2>1. inbox[n] # <<>> /\ Head(inbox[n]).type = "NACK"
    BY <1>8 DEF ReceiveNAck, Receives
  <2>2. Head(inbox[n]) \in Datagrams(n)
    BY <2>1, RestEffect DEF TypeOK
  <2> QED
    BY <2>1, <2>2 DEF LateNacks
<1>9. ASSUME NEW n \in Node, ClearOutdated(n) PROVE now > AckDelay
  BY <1>2, <1>9, ClearEffect
<1>10. CASE UNCHANGED inbox
  BY <1>2, <1>10 DEF Datagrams
<1> QED
  BY <1>2, <1>3, <1>4, <1>5, <1>6, <1>7, <1>8, <1>9, <1>10 DEF Next, Receive, Tick, vars

\* A table gives up a way that has not expired for a NACK only, and a NACK
\* needs a packet whose ACK has not come within AckDelay.
LEMMA LossInvStep ==
  ASSUME LossInv, [Next]_vars
  PROVE  LossInv'
<1>1. TypeOK /\ LateNacks /\ NoEarlyLoss
  BY DEF LossInv
<1>2. TypeOK'
  BY <1>1, TypeStep
<1>3. LateNacks'
  BY <1>1, LateNacksStep
<1>4. /\ now \in Nat /\ AckDelay \in Nat /\ RouteExpirationDelay \in Nat
      /\ now' = now \/ now' = now + 1
  BY <1>1, DelayAssumption, RouteDelayAssumption
  DEF TypeOK, Next, Receive, Send, ReceiveRRequest, ReceiveRReply, ReceivePkt, ReceiveAck,
      ReceiveNAck, ClearOutdated, Tick, vars
<1>5. NoteLoss \/ UNCHANGED <<routes, routeLost>>
  BY DEF Next, Receive, Send, ReceiveRRequest, ReceiveRReply, ReceivePkt, ReceiveAck,
         ReceiveNAck, ClearOutdated, Tick, vars
<1>6. ASSUME NEW x \in Node, NEW d \in Address, routes[x][d] \notin {NoRoute, routes'[x][d]}
      PROVE  now > RouteExpirationDelay \/ now > AckDelay
  <2>1. CASE HasExpired(routes[x][d], now)
    <3>1. routes[x][d] \in Route
      BY <1>1, <1>6 DEF TypeOK, Table
    <3>2. routes[x][d].createTime \in Nat
      BY <3>1 DEF Route
    <3> QED
      BY <1>4, <2>1, <3>2 DEF HasExpired
  <2>2. CASE Receives(x, "NACK")
    <3>1. inbox[x] # <<>> /\ Head(inbox[x]).type = "NACK"
      BY <2>2 DEF Receives
    <3>2. Head(inbox[x]) \in Datagrams(x)
      BY <1>1, <3>1, RestEffect DEF TypeOK
    <3> QED
      BY <1>1, <3>1, <3>2 DEF LateNacks
  <2> QED
    BY <1>1, <1>6, <2>1, <2>2, LossStep DEF EntryKept
<1>7. routeLost' => now > RouteExpirationDelay \/ now > AckDelay
  BY <1>1, <1>5, <1>6 DEF NoEarlyLoss, NoteLoss
<1>8. NoEarlyLoss'
  BY <1>4, <1>7 DEF NoEarlyLoss
<1> QED
  BY <1>2, <1>3, <1>8 DEF LossInv

\* Before the first route or the first acknowledgement is too old, no table
\* has lost or replaced a route: what NoLoop and NoCrashBeforeLoss assume holds
\* at least that long, whatever is lost, doubled or crosses.
THEOREM NothingIsLostEarly == Spec => []NoEarlyLoss
<1>1. Init => LossInv
  <2> SUFFICES ASSUME Init PROVE LossInv
    OBVIOUS
  <2>1. \A n \in Node : Datagrams(n) = {}
    BY DEF Init, Datagrams, Elements
  <2> QED
    BY <2>1, TypeInit DEF Init, LossInv, LateNacks, NoEarlyLoss
<1>2. LossInv => NoEarlyLoss
  BY DEF LossInv
<1> QED
  BY <1>1, <1>2, LossInvStep, PTL DEF Spec

\* A node gives up a way only when it is too old, or for a NACK about its
\* destination that is addressed to the node.
THEOREM LossesHaveCauses == Spec => LossHasCause
<1>1. TypeOK /\ [Next]_vars =>
        [\A n \in Node, d \in Address :
           routes[n][d] \notin {NoRoute, routes'[n][d]} =>
             \/ HasExpired(routes[n][d], now)
             \/ LET m == Head(inbox[n]) IN
                Receives(n, "NACK") /\ AddressedTo(n, m) /\ m.source = d]_vars
  BY LossStep DEF EntryKept
<1> QED
  BY <1>1, TypeCorrect, PTL DEF Spec, LossHasCause

\* So a mesh younger than both delays has no routing loop and no node that has
\* ended, whatever was lost on the air: its troubles begin when something is
\* too old.
THEOREM YoungMeshIsSound ==
  Spec => [](now <= RouteExpirationDelay /\ now <= AckDelay =>
               /\ up = Node
               /\ \A n \in Node, d \in Address :
                    LET r == routes[n][d] IN
                    r # NoRoute /\ r.nextHop # d =>
                      /\ routes[r.nextHop][d] # NoRoute
                      /\ routes[r.nextHop][d].hops < r.hops)
<1> DEFINE Young == now <= RouteExpirationDelay /\ now <= AckDelay
           Descends == \A n \in Node, d \in Address :
                         LET r == routes[n][d] IN
                         r # NoRoute /\ r.nextHop # d =>
                           /\ routes[r.nextHop][d] # NoRoute
                           /\ routes[r.nextHop][d].hops < r.hops
<1>1. TypeOK /\ NoEarlyLoss /\ Young => ~routeLost
  BY RouteDelayAssumption, DelayAssumption DEF TypeOK, NoEarlyLoss
<1>2. NoLoop /\ NoCrashBeforeLoss /\ ~routeLost => up = Node /\ Descends
  BY DEF NoLoop, NoCrashBeforeLoss
<1>3. TypeOK /\ NoEarlyLoss /\ NoLoop /\ NoCrashBeforeLoss => (Young => up = Node /\ Descends)
  BY <1>1, <1>2
<1> QED
  BY <1>3, TypeCorrect, NothingIsLostEarly, RoutesDoNotLoop, CrashNeedsLoss, PTL
=============================================================================
