------------------------- MODULE MeshDeliveryProofs -------------------------
(***************************************************************************)
(* A packet is at one place of the mesh at a time: waiting for a route at   *)
(* its source, in one datagram that somebody will take for its own, or in   *)
(* the receive queue of its destination.                                   *)
(***************************************************************************)
EXTENDS MeshRouteProofs

\* Where the datagrams of the sequence s that carry p to the node r are.
Addressed(s, r, p) ==
  {i \in DOMAIN s : s[i].type = "PKT" /\ s[i].data = p /\ s[i].nexthop = r}

\* No node will take p for its own; one node will, once.  The other datagrams
\* that carry p are heard by nodes they are not addressed to.
NotInFlight(box, p) == \A r \in Node : Addressed(box[r], r, p) = {}
OnceInFlight(box, p) ==
  \A r, s \in Node : \A i \in Addressed(box[r], r, p), j \in Addressed(box[s], s, p) :
    r = s /\ i = j

IsQueued(p) == \E n \in Node, d \in Address : p \in Elements(packetsToSend[n][d])
IsReceived(p) == \E n \in Node : p \in Elements(recvQueue[n])

\* The packet p is nowhere before it is sent, then at one place or lost.
AtOnePlace(p) ==
  /\ OnceInFlight(inbox, p)
  /\ p \notin submitted => ~IsQueued(p) /\ ~IsReceived(p) /\ NotInFlight(inbox, p)
  /\ IsQueued(p) => ~IsReceived(p) /\ NotInFlight(inbox, p)
  /\ IsReceived(p) => NotInFlight(inbox, p)

\* A datagram names the destination of the packet it carries.
PktsNameDestination ==
  \A n \in Node : \A m \in Datagrams(n) : m.type = "PKT" => m.destination = Dst[m.data]

DeliveryInv ==
  /\ TypeOK
  /\ WaitingInPlace
  /\ PktsNameDestination
  /\ \A p \in Packet : AtOnePlace(p)
  /\ AtMostOnceDelivery

-----------------------------------------------------------------------------
(* What the network does to the datagrams that carry a packet.              *)

\* Of the datagrams that leave together, one at most is a PKT.
OnePkt(ms) == \A i, j \in DOMAIN ms : ms[i].type = "PKT" /\ ms[j].type = "PKT" => i = j

\* None of them carries p.
NoneCarries(ms, p) == \A i \in DOMAIN ms : ~(ms[i].type = "PKT" /\ ms[i].data = p)

\* A receiver hears each datagram once.
LEMMA HeardOnce ==
  ASSUME NEW ms \in Seq(Message), NEW h \in Heard(ms)
  PROVE  /\ h \in Seq(Message)
         /\ \A i \in DOMAIN h : \E k \in DOMAIN ms : h[i] = ms[k]
         /\ OnePkt(ms) => OnePkt(h)
<1>1. h \in Seq(Message)
  BY HeardSent
<1>2. CASE ~Lossy
  BY <1>1, <1>2 DEF Heard
<1>3. CASE Lossy
  <2>1. PICK at \in [DOMAIN h -> DOMAIN ms] :
          /\ \A i \in DOMAIN h : h[i] = ms[at[i]]
          /\ \A i, j \in DOMAIN h : i < j => at[i] < at[j]
    BY <1>3 DEF Heard
  <2>2. ASSUME OnePkt(ms), NEW i \in DOMAIN h, NEW j \in DOMAIN h,
               h[i].type = "PKT", h[j].type = "PKT"
        PROVE  i = j
    <3>1. at[i] = at[j] /\ at[i] \in DOMAIN ms
      BY <2>1, <2>2 DEF OnePkt
    <3>2. at[i] \in Nat /\ i \in Nat /\ j \in Nat
      BY <1>1, <3>1
    <3>3. i < j => at[i] < at[j]
      BY <2>1
    <3>4. j < i => at[j] < at[i]
      BY <2>1
    <3> QED
      BY <3>1, <3>2, <3>3, <3>4
  <2> QED
    BY <1>1, <2>1, <2>2 DEF OnePkt
<1> QED
  BY <1>2, <1>3

\* Taking the oldest datagram moves the others one place forward.
LEMMA AddressedTail ==
  ASSUME NEW s \in Seq(Message), s # <<>>, NEW r, NEW p, NEW i \in Addressed(Tail(s), r, p)
  PROVE  i \in Nat \ {0} /\ i + 1 \in Addressed(s, r, p)
<1>1. i \in DOMAIN Tail(s)
  BY DEF Addressed
<1>2. i \in Nat \ {0} /\ i + 1 \in DOMAIN s /\ Tail(s)[i] = s[i + 1]
  BY <1>1
<1> QED
  BY <1>2 DEF Addressed

\* Taking a datagram adds none.
LEMMA RestKeeps ==
  ASSUME TypeOK, NEW n \in Node, inbox[n] # <<>>, NEW p
  PROVE  /\ NotInFlight(inbox, p) => NotInFlight(Rest(n), p)
         /\ OnceInFlight(inbox, p) => OnceInFlight(Rest(n), p)
<1>1. /\ \A r \in Node : inbox[r] \in Seq(Message)
      /\ \A r \in Node : Rest(n)[r] = IF r = n THEN Tail(inbox[n]) ELSE inbox[r]
  BY DEF TypeOK, Rest
<1>2. ASSUME NEW r \in Node, NEW i \in Addressed(Rest(n)[r], r, p)
      PROVE  /\ r # n => i \in Addressed(inbox[r], r, p)
             /\ r = n => i \in Nat /\ i + 1 \in Addressed(inbox[n], n, p)
  BY <1>1, <1>2, AddressedTail
<1>3. NotInFlight(inbox, p) => NotInFlight(Rest(n), p)
  BY <1>2 DEF NotInFlight
<1>4. ASSUME OnceInFlight(inbox, p), NEW r \in Node, NEW s \in Node,
             NEW i \in Addressed(Rest(n)[r], r, p), NEW j \in Addressed(Rest(n)[s], s, p)
      PROVE  r = s /\ i = j
  <2>0. Addressed(inbox[r], r, p) # {} /\ Addressed(inbox[s], s, p) # {}
    <3>1. Addressed(inbox[r], r, p) # {}
      BY <1>2, <1>4
    <3>2. Addressed(inbox[s], s, p) # {}
      BY <1>2, <1>4
    <3> QED
      BY <3>1, <3>2
  <2>1. r = s
    BY <2>0, <1>4 DEF OnceInFlight
  <2>2. CASE r # n
    BY <1>2, <1>4, <2>1, <2>2 DEF OnceInFlight
  <2>3. CASE r = n
    <3>1. i \in Nat /\ j \in Nat /\ i + 1 = j + 1
      BY <1>2, <1>4, <2>1, <2>3 DEF OnceInFlight
    <3> QED
      BY <2>1, <3>1
  <2> QED
    BY <2>2, <2>3
<1> QED
  BY <1>3, <1>4 DEF OnceInFlight

\* Once the node that a packet is addressed to has taken it, it is in no other
\* datagram that counts.
LEMMA RestTakes ==
  ASSUME TypeOK, NEW n \in Node, inbox[n] # <<>>, NEW p, OnceInFlight(inbox, p),
         Head(inbox[n]).type = "PKT", Head(inbox[n]).data = p, Head(inbox[n]).nexthop = n
  PROVE  NotInFlight(Rest(n), p)
<1>1. inbox[n] \in Seq(Message)
  BY DEF TypeOK
<1>2. 1 \in Addressed(inbox[n], n, p)
  BY <1>1 DEF Addressed
<1> SUFFICES ASSUME NEW r \in Node, NEW i \in Addressed(Rest(n)[r], r, p) PROVE FALSE
  BY DEF NotInFlight
<1>3. Rest(n)[r] = IF r = n THEN Tail(inbox[n]) ELSE inbox[r]
  BY DEF TypeOK, Rest
<1>4. CASE r = n
  <2>1. i \in Nat \ {0} /\ i + 1 \in Addressed(inbox[n], n, p)
    BY <1>1, <1>3, <1>4, AddressedTail
  <2>2. i + 1 = 1
    BY <1>2, <2>1 DEF OnceInFlight
  <2> QED
    BY <2>1, <2>2
<1>5. CASE r # n
  BY <1>2, <1>3, <1>5 DEF OnceInFlight
<1> QED
  BY <1>4, <1>5

\* After a broadcast, what carries p was there or is one of the new datagrams.
LEMMA AddressedAfter ==
  ASSUME NEW n, NEW box \in [Node -> Seq(Message)], NEW ms \in Seq(Message),
         Broadcast(n, box, ms)
  PROVE  \E heard \in [Hears(n) -> Heard(ms)] :
           \A r \in Node : \A p : \A i \in Addressed(inbox'[r], r, p) :
             \/ i \in Addressed(box[r], r, p)
             \/ /\ r \in Hears(n)
                /\ i \in Nat /\ i - Len(box[r]) \in Addressed(heard[r], r, p)
<1>1. PICK heard \in [Hears(n) -> Heard(ms)] :
        inbox' = [r \in Node |-> IF r \in Hears(n) THEN box[r] \o heard[r] ELSE box[r]]
  BY DEF Broadcast
<1>2. ASSUME NEW r \in Node, NEW p, NEW i \in Addressed(inbox'[r], r, p)
      PROVE  \/ i \in Addressed(box[r], r, p)
             \/ /\ r \in Hears(n)
                /\ i \in Nat /\ i - Len(box[r]) \in Addressed(heard[r], r, p)
  <2>1. CASE r \notin Hears(n)
    BY <1>1, <1>2, <2>1
  <2>2. CASE r \in Hears(n)
    <3>1. box[r] \in Seq(Message) /\ heard[r] \in Seq(Message) /\ inbox'[r] = box[r] \o heard[r]
      BY <1>1, <2>2, HeardOnce
    <3>2. i \in DOMAIN inbox'[r]
      BY <1>2 DEF Addressed
    <3>3. i \in Nat /\ Len(box[r]) \in Nat
      BY <3>1, <3>2
    <3>4. CASE i <= Len(box[r])
      <4>1. i \in DOMAIN box[r] /\ inbox'[r][i] = box[r][i]
        BY <3>1, <3>2, <3>4
      <4> QED
        BY <1>2, <4>1 DEF Addressed
    <3>5. CASE i > Len(box[r])
      <4>1. i - Len(box[r]) \in DOMAIN heard[r] /\ inbox'[r][i] = heard[r][i - Len(box[r])]
        BY <3>1, <3>2, <3>5
      <4> QED
        BY <1>2, <2>2, <3>3, <4>1 DEF Addressed
    <3> QED
      BY <3>3, <3>4, <3>5
  <2> QED
    BY <2>1, <2>2
<1> QED
  BY <1>2

\* Datagrams that do not carry p change nothing.
LEMMA BroadcastKeeps ==
  ASSUME NEW n, NEW box \in [Node -> Seq(Message)], NEW ms \in Seq(Message),
         Broadcast(n, box, ms), NEW p, NoneCarries(ms, p)
  PROVE  /\ NotInFlight(box, p) => NotInFlight(inbox', p)
         /\ OnceInFlight(box, p) => OnceInFlight(inbox', p)
<1>1. PICK heard \in [Hears(n) -> Heard(ms)] :
        \A r \in Node : \A i \in Addressed(inbox'[r], r, p) :
          \/ i \in Addressed(box[r], r, p)
          \/ r \in Hears(n) /\ i - Len(box[r]) \in Addressed(heard[r], r, p)
  BY AddressedAfter
<1>2. ASSUME NEW r \in Hears(n), NEW i \in Addressed(heard[r], r, p) PROVE FALSE
  BY <1>2, HeardOnce DEF NoneCarries, Addressed
<1>3. \A r \in Node : Addressed(inbox'[r], r, p) \subseteq Addressed(box[r], r, p)
  BY <1>1, <1>2
<1> QED
  BY <1>3 DEF NotInFlight, OnceInFlight

\* A packet that is nowhere in flight is there once after its broadcast: it
\* has one next hop, and that node hears it once.
LEMMA BroadcastAdds ==
  ASSUME NEW n, NEW box \in [Node -> Seq(Message)], NEW ms \in Seq(Message),
         Broadcast(n, box, ms), NEW p, NotInFlight(box, p), OnePkt(ms)
  PROVE  OnceInFlight(inbox', p)
<1>1. PICK heard \in [Hears(n) -> Heard(ms)] :
        \A r \in Node : \A i \in Addressed(inbox'[r], r, p) :
          \/ i \in Addressed(box[r], r, p)
          \/ r \in Hears(n) /\ i \in Nat /\ i - Len(box[r]) \in Addressed(heard[r], r, p)
  BY AddressedAfter
<1>2. ASSUME NEW r \in Node, NEW i \in Addressed(inbox'[r], r, p)
      PROVE  /\ r \in Hears(n) /\ i \in Nat /\ i - Len(box[r]) \in Addressed(heard[r], r, p)
             /\ \E k \in DOMAIN ms : ms[k].type = "PKT" /\ ms[k].nexthop = r
  <2>1. r \in Hears(n) /\ i \in Nat /\ i - Len(box[r]) \in Addressed(heard[r], r, p)
    BY <1>1, <1>2 DEF NotInFlight
  <2>2. heard[r] \in Heard(ms)
    BY <2>1
  <2> QED
    BY <2>1, <2>2, HeardOnce DEF Addressed
<1> SUFFICES ASSUME NEW r \in Node, NEW s \in Node, NEW i \in Addressed(inbox'[r], r, p),
                    NEW j \in Addressed(inbox'[s], s, p)
             PROVE  r = s /\ i = j
  BY DEF OnceInFlight
<1>3. r = s
  BY <1>2 DEF OnePkt
<1>4. OnePkt(heard[r])
  BY <1>2, HeardOnce
<1>5. i - Len(box[r]) = j - Len(box[r])
  BY <1>2, <1>3, <1>4 DEF OnePkt, Addressed
<1>6. i \in Nat /\ j \in Nat /\ Len(box[r]) \in Nat
  BY <1>2
<1> QED
  BY <1>3, <1>5, <1>6

-----------------------------------------------------------------------------
(* The packets that do not change places in a step.                         *)

\* What a step that does not touch p leaves of its places.
LEMMA PlaceKept ==
  ASSUME NEW p, AtOnePlace(p), submitted \subseteq submitted',
         IsQueued(p)' => IsQueued(p),
         IsReceived(p)' => IsReceived(p),
         NotInFlight(inbox, p) => NotInFlight(inbox', p),
         OnceInFlight(inbox, p) => OnceInFlight(inbox', p)
  PROVE  AtOnePlace(p)'
BY DEF AtOnePlace

\* Only the source of a packet queues it, when it sends it.
LEMMA QueuedBySource ==
  ASSUME TypeOK, NEW p,
         \/ UNCHANGED packetsToSend
         \/ \E x \in Node, q \in Packet : q # p /\ Send(x, q)
         \/ \E x \in Node : ReceiveRReply(x) \/ ClearOutdated(x)
  PROVE  IsQueued(p)' => IsQueued(p)
<1> SUFFICES ASSUME NEW n \in Node, NEW d \in Address, p \in Elements(packetsToSend'[n][d])
             PROVE  p \in Elements(packetsToSend[n][d])
  BY DEF IsQueued
<1>1. packetsToSend \in [Node -> [Address -> Seq(Packet)]] /\ Elements(<<>>) = {}
  BY SingletonElements DEF TypeOK
<1>2. ASSUME NEW x \in Node, NEW q \in Packet, q # p, Send(x, q)
      PROVE  p \in Elements(packetsToSend[n][d])
  <2>1. Dst[q] \in Address
    BY <1>2, PacketAssumption
  <2>2. \/ UNCHANGED packetsToSend
        \/ packetsToSend' = [packetsToSend EXCEPT ![x][Dst[q]] = <<q>>]
    BY <1>2 DEF Send, Enqueue
  <2>3. packetsToSend'[n][d] = packetsToSend[n][d] \/ packetsToSend'[n][d] = <<q>>
    BY <1>1, <2>1, <2>2
  <2>4. Elements(<<q>>) = {q}
    BY SingletonElements
  <2> QED
    BY <1>2, <2>3, <2>4
<1>3. ASSUME NEW x \in Node, ReceiveRReply(x) PROVE p \in Elements(packetsToSend[n][d])
  <2>1. Head(inbox[x]).source \in Address
    BY <1>3, RReplyEffect DEF RRepMsg
  <2>2. \/ UNCHANGED packetsToSend
        \/ packetsToSend' = [packetsToSend EXCEPT ![x][Head(inbox[x]).source] = <<>>]
    BY <1>3 DEF ReceiveRReply, EraseQueue
  <2>3. packetsToSend'[n][d] \in {packetsToSend[n][d], <<>>}
    BY <1>1, <2>1, <2>2
  <2> QED
    BY <1>1, <2>3
<1>4. ASSUME NEW x \in Node, ClearOutdated(x) PROVE p \in Elements(packetsToSend[n][d])
  <2>1. PICK ds : packetsToSend' = EraseWaiting(x, ds)
    BY <1>4 DEF ClearOutdated
  <2>2. packetsToSend'[n][d] \in {packetsToSend[n][d], <<>>}
    BY <1>1, <2>1 DEF EraseWaiting
  <2> QED
    BY <1>1, <2>2
<1>5. CASE UNCHANGED packetsToSend
  BY <1>5
<1> QED
  BY <1>2, <1>3, <1>4, <1>5

\* A packet waits in one queue only; when that is erased, it waits no more.
LEMMA ErasedWaitsNoMore ==
  ASSUME TypeOK, WaitingInPlace, NEW n \in Node, NEW d \in Address,
         NEW p \in Elements(packetsToSend[n][d]), packetsToSend' = EraseQueue(n, d)
  PROVE  ~IsQueued(p)'
<1> SUFFICES ASSUME NEW x \in Node, NEW e \in Address, p \in Elements(packetsToSend'[x][e])
             PROVE  FALSE
  BY DEF IsQueued
<1>1. packetsToSend \in [Node -> [Address -> Seq(Packet)]]
  BY DEF TypeOK
<1>2. Src[p] = n /\ Dst[p] = d
  BY DEF WaitingInPlace
<1>3. packetsToSend'[n][d] = <<>> /\ Elements(<<>>) = {}
  BY <1>1, SingletonElements DEF EraseQueue
<1>4. CASE ~(x = n /\ e = d)
  <2>1. packetsToSend'[x][e] = packetsToSend[x][e]
    BY <1>1, <1>4 DEF EraseQueue
  <2> QED
    BY <1>2, <1>4, <2>1 DEF WaitingInPlace
<1> QED
  BY <1>3, <1>4

\* Node n hands the packet of the datagram it takes over to its host.
Delivers(n, p) ==
  /\ ReceivePkt(n)
  /\ Head(inbox[n]).nexthop = n
  /\ Head(inbox[n]).destination = n
  /\ Head(inbox[n]).data = p

\* A queue gains what is appended to it.
LEMMA AppendElements ==
  ASSUME NEW S, NEW s \in Seq(S), NEW e \in S
  PROVE  Elements(Append(s, e)) = Elements(s) \cup {e}
<1>1. /\ DOMAIN Append(s, e) = DOMAIN s \cup {Len(s) + 1}
      /\ \A i \in DOMAIN s : Append(s, e)[i] = s[i]
      /\ Append(s, e)[Len(s) + 1] = e
  OBVIOUS
<1> QED
  BY <1>1 DEF Elements

\* No other datagram enters a receive queue.
LEMMA ReceivedWhenDelivered ==
  ASSUME TypeOK, NEW x \in Node, ReceivePkt(x), NEW p, ~Delivers(x, p)
  PROVE  IsReceived(p)' => IsReceived(p)
<1> DEFINE q == Head(inbox[x]).data
<1> SUFFICES ASSUME NEW n \in Node, p \in Elements(recvQueue'[n])
             PROVE  p \in Elements(recvQueue[n])
  BY DEF IsReceived
<1>1. q \in Packet /\ recvQueue \in [Node -> Seq(Packet)]
  BY PktEffect DEF PktMsg, TypeOK
<1>2. CASE UNCHANGED recvQueue
  BY <1>2
<1>3. CASE /\ AddressedTo(x, Head(inbox[x])) /\ Head(inbox[x]).destination = x
           /\ recvQueue' = [recvQueue EXCEPT ![x] = Append(@, q)]
  <2>1. q # p
    BY <1>3 DEF Delivers, AddressedTo
  <2>2. CASE n # x
    BY <1>1, <1>3, <2>2
  <2>3. CASE n = x
    <3>1. recvQueue'[n] = Append(recvQueue[n], q)
      BY <1>1, <1>3, <2>3
    <3> QED
      BY <1>1, <2>1, <3>1, AppendElements
  <2> QED
    BY <2>2, <2>3
<1> QED
  BY <1>2, <1>3 DEF ReceivePkt
-----------------------------------------------------------------------------
(* What the handlers send.                                                  *)

\* A datagram that is no PKT carries nothing.
LEMMA OtherCarriesNone ==
  ASSUME NEW k \in Message, k.type # "PKT"
  PROVE  <<k>> \in Seq(Message) /\ OnePkt(<<k>>) /\ \A p : NoneCarries(<<k>>, p)
BY DEF OnePkt, NoneCarries

\* A PKT carries one packet.
LEMMA PktCarriesOne ==
  ASSUME NEW k \in Message, k.type = "PKT"
  PROVE  <<k>> \in Seq(Message) /\ OnePkt(<<k>>) /\ \A p : p # k.data => NoneCarries(<<k>>, p)
BY DEF OnePkt, NoneCarries

\* send(packet): nothing, or one request, or q itself, which then does not
\* wait.
LEMMA SendSends ==
  ASSUME TypeOK, NEW n \in Node, NEW q \in Packet, Send(n, q)
  PROVE  \/ UNCHANGED inbox
         \/ \E ms \in Seq(Message) :
              /\ Broadcast(n, inbox, ms)
              /\ OnePkt(ms)
              /\ \A p : p # q => NoneCarries(ms, p)
              /\ NoneCarries(ms, q) \/ UNCHANGED packetsToSend
<1> DEFINE route == GetRoute(routes[n], Dst[q], now)
           request == RRequestPacket(n, Dst[q], n, 1)
           pkt == PktPacket(q, route.nextHop, seq[n])
<1>1. /\ n \in Address /\ Dst[q] \in Address /\ seq[n] \in Nat
      /\ routes[n] \in Table /\ now \in Nat
  BY NodeAssumption, PacketAssumption DEF TypeOK
<1>2. request \in Message /\ request.type = "RREQ"
  BY <1>1, MessageTypes, DelayAssumption DEF RRequestPacket
<1>3. route # NoRoute => pkt \in Message /\ pkt.type = "PKT" /\ pkt.data = q
  <2> SUFFICES ASSUME route # NoRoute PROVE pkt \in Message /\ pkt.type = "PKT" /\ pkt.data = q
    OBVIOUS
  <2>1. route.nextHop \in Address
    BY <1>1, TableTypes DEF Route
  <2> QED
    BY <1>1, <2>1, MessageTypes DEF PktPacket
<1>4. \/ UNCHANGED inbox \/ Broadcast(n, inbox, <<request>>)
      \/ route # NoRoute /\ Broadcast(n, inbox, <<pkt>>) /\ UNCHANGED packetsToSend
  BY DEF Send, DiscoverRoute, SendTo
<1> HIDE DEF request, pkt, route
<1>5. CASE Broadcast(n, inbox, <<request>>)
  BY <1>2, <1>5, OtherCarriesNone
<1>6. CASE route # NoRoute /\ Broadcast(n, inbox, <<pkt>>) /\ UNCHANGED packetsToSend
  BY <1>3, <1>6, PktCarriesOne
<1> QED
  BY <1>4, <1>5, <1>6

\* receiveRReply: nothing, or the packet at the front of the queue, which is
\* erased.
LEMMA RReplySends ==
  ASSUME TypeOK, NEW n \in Node, ReceiveRReply(n)
  PROVE  LET m == Head(inbox[n])
             waiting == packetsToSend[n][m.source]
         IN  \/ inbox' = Rest(n) /\ UNCHANGED packetsToSend
             \/ /\ Head(waiting) \in Packet /\ Head(waiting) \in Elements(waiting)
                /\ packetsToSend' = EraseQueue(n, m.source)
                /\ \E ms \in Seq(Message) :
                     /\ Broadcast(n, Rest(n), ms)
                     /\ OnePkt(ms)
                     /\ \A p : p # Head(waiting) => NoneCarries(ms, p)
<1> DEFINE m == Head(inbox[n])
           waiting == packetsToSend[n][m.source]
           q == Head(waiting)
           pkt == PktPacket(q, m.sender, seq[n])
<1>1. m.source \in Address /\ m.sender \in Address
  BY RReplyEffect DEF RRepMsg
<1>2. CASE /\ waiting # <<>>
           /\ SendTo(n, q, m.sender, Rest(n))
           /\ packetsToSend' = EraseQueue(n, m.source)
  <2>1. waiting \in Seq(Packet) /\ seq[n] \in Nat
    BY <1>1 DEF TypeOK
  <2>2. q \in Packet /\ q \in Elements(waiting)
    BY <1>2, <2>1 DEF Elements
  <2>3. pkt \in Message /\ pkt.type = "PKT" /\ pkt.data = q
    BY <1>1, <2>1, <2>2, MessageTypes DEF PktPacket
  <2>4. Broadcast(n, Rest(n), <<pkt>>)
    BY <1>2 DEF SendTo
  <2> HIDE DEF pkt
  <2> QED
    BY <1>2, <2>2, <2>3, <2>4, PktCarriesOne
<1> QED
  BY <1>2 DEF ReceiveRReply

\* receivePkt: nothing; or the ACK, of what goes to the host or is dropped; or
\* the ACK and the packet again.
LEMMA PktSends ==
  ASSUME TypeOK, NEW n \in Node, ReceivePkt(n)
  PROVE  LET m == Head(inbox[n])
         IN  \/ ~AddressedTo(n, m) /\ inbox' = Rest(n) /\ UNCHANGED recvQueue
             \/ /\ AddressedTo(n, m)
                /\ \E ms \in Seq(Message) :
                     /\ Broadcast(n, Rest(n), ms)
                     /\ OnePkt(ms)
                     /\ \A p : p # m.data => NoneCarries(ms, p)
                     /\ \/ UNCHANGED recvQueue
                        \/ /\ m.destination = n
                           /\ recvQueue' = [recvQueue EXCEPT ![n] = Append(@, m.data)]
                           /\ NoneCarries(ms, m.data)
<1> DEFINE m == Head(inbox[n])
           ack == AckPacket(m.source, m.destination, m.nexthop, m.seq)
           route == GetRoute(routes[n], m.destination, now)
           forward == [m EXCEPT !.nexthop = route.nextHop]
<1>1. /\ m \in PktMsg /\ routes[n] \in Table /\ now \in Nat
  BY PktEffect DEF TypeOK
<1>2. /\ m.source \in Address /\ m.destination \in Address /\ m.nexthop \in Address
      /\ m.seq \in Nat /\ m.type = "PKT"
  BY <1>1 DEF PktMsg
<1>3. ack \in Message /\ ack.type = "ACK"
  BY <1>2, MessageTypes DEF AckPacket
<1>4. route # NoRoute => /\ forward \in Message /\ forward.type = "PKT"
                         /\ forward.data = m.data
  <2> SUFFICES ASSUME route # NoRoute
               PROVE  forward \in Message /\ forward.type = "PKT" /\ forward.data = m.data
    OBVIOUS
  <2>1. route.nextHop \in Address
    BY <1>1, <1>2, TableTypes DEF Route
  <2> QED
    BY <1>1, <2>1 DEF PktMsg, Message
<1>5. \/ ~AddressedTo(n, m) /\ inbox' = Rest(n) /\ UNCHANGED recvQueue
      \/ /\ AddressedTo(n, m) /\ m.destination = n
         /\ Broadcast(n, Rest(n), <<ack>>)
         /\ recvQueue' = [recvQueue EXCEPT ![n] = Append(@, m.data)]
      \/ AddressedTo(n, m) /\ Broadcast(n, Rest(n), <<ack>>) /\ UNCHANGED recvQueue
      \/ /\ AddressedTo(n, m) /\ route # NoRoute
         /\ Broadcast(n, Rest(n), <<ack, forward>>)
         /\ UNCHANGED recvQueue
  BY DEF ReceivePkt, Exchange
<1> HIDE DEF ack, forward, route
<1>6. <<ack>> \in Seq(Message) /\ OnePkt(<<ack>>) /\ \A p : NoneCarries(<<ack>>, p)
  BY <1>3, OtherCarriesNone
<1>7. route # NoRoute => /\ <<ack, forward>> \in Seq(Message)
                         /\ OnePkt(<<ack, forward>>)
                         /\ \A p : p # m.data => NoneCarries(<<ack, forward>>, p)
  BY <1>3, <1>4 DEF OnePkt, NoneCarries
<1>8. CASE AddressedTo(n, m) /\ Broadcast(n, Rest(n), <<ack>>)
  BY <1>5, <1>6, <1>8
<1>9. CASE /\ AddressedTo(n, m) /\ route # NoRoute
           /\ Broadcast(n, Rest(n), <<ack, forward>>)
           /\ UNCHANGED recvQueue
  BY <1>7, <1>9
<1> QED
  BY <1>5, <1>8, <1>9

\* receiveRRequest, receiveAck and receiveNAck send nothing that carries a
\* packet.
LEMMA ControlSends ==
  ASSUME TypeOK, NEW n \in Node, ReceiveRRequest(n) \/ ReceiveAck(n) \/ ReceiveNAck(n)
  PROVE  \/ inbox' = Rest(n)
         \/ \E ms \in Seq(Message) :
              Broadcast(n, Rest(n), ms) /\ \A p : NoneCarries(ms, p)
<1>1. CASE ReceiveRRequest(n)
  <2> DEFINE m == Head(inbox[n])
             withSender == AddRoute(routes[n], m.sender, NewRoute(m.sender, 1, now))
             looked == TableAfterGet(withSender, m.source, now)
             withSource == AddRoute(looked, m.source, NewRoute(m.sender, m.n, now))
  <2>1. m \in RReqMsg /\ withSource \in Table /\ n \in Address /\ now \in Nat
    BY <1>1, RRequestTables, NodeAssumption DEF TypeOK
  <2>2. /\ m.source \in Address /\ m.destination \in Address /\ m.sender \in Address
        /\ m.n \in 1 .. MaxHops
    BY <2>1 DEF RReqMsg
  <2>3. inbox' = Rest(n) \/ Exchange(n, RRequestAnswer(n, m, withSource))
    BY <1>1 DEF ReceiveRRequest
  <2> HIDE DEF m, withSource
  <2> DEFINE route == GetRoute(withSource, m.destination, now)
             direct == RReplyPacket(n, m.source, n, m.sender, 1)
             known == RReplyPacket(m.destination, m.source, n, m.sender, route.hops + 1)
             onward == [m EXCEPT !.n = @ + 1]
  <2>4. RRequestAnswer(n, m, withSource) \in {<<direct>>, <<>>}
          \/ (route # NoRoute /\ RRequestAnswer(n, m, withSource) = <<known>>)
          \/ (m.n < MaxHops /\ RRequestAnswer(n, m, withSource) = <<onward>>)
    BY DEF RRequestAnswer
  <2>5. direct \in Message /\ direct.type = "RREP"
    BY <2>1, <2>2, MessageTypes DEF RReplyPacket
  <2>6. route # NoRoute => known \in Message /\ known.type = "RREP"
    <3> SUFFICES ASSUME route # NoRoute PROVE known \in Message /\ known.type = "RREP"
      OBVIOUS
    <3>1. route.hops \in Nat
      BY <2>1, <2>2, TableTypes DEF Route
    <3>2. route.hops + 1 \in Nat
      BY <3>1
    <3> HIDE DEF route
    <3> QED
      BY <2>1, <2>2, <3>2, MessageTypes DEF RReplyPacket
  <2>7. m.n < MaxHops => onward \in Message /\ onward.type = "RREQ"
    BY <2>1, <2>2, DelayAssumption DEF RReqMsg, Message
  <2> HIDE DEF route, direct, known, onward
  <2>8. <<>> \in Seq(Message) /\ \A p : NoneCarries(<<>>, p)
    BY DEF NoneCarries
  <2> HIDE DEF m
  <2> QED
    BY <2>3, <2>4, <2>5, <2>6, <2>7, <2>8, OtherCarriesNone DEF Exchange
<1>2. CASE ReceiveAck(n)
  BY <1>2 DEF ReceiveAck
<1>3. CASE ReceiveNAck(n)
  <2> DEFINE m == Head(inbox[n])
             invalidated == InvalidateRoute(routes[n], m.source)
             route == GetRoute(invalidated, m.destination, now)
             forward == [m EXCEPT !.nexthop = route.nextHop]
  <2>1. m \in NAckMsg /\ routes[n] \in Table /\ now \in Nat
    BY <1>3, RestEffect, MessageFields DEF ReceiveNAck, Receives, TypeOK
  <2>2. m.source \in Address /\ m.destination \in Address
    BY <2>1 DEF NAckMsg
  <2>3. invalidated \in Table
    BY <2>1, <2>2, TableTypes
  <2>4. inbox' = Rest(n) \/ (route # NoRoute /\ Exchange(n, <<forward>>))
    BY <1>3 DEF ReceiveNAck
  <2>5. route # NoRoute => forward \in Message /\ forward.type = "NACK"
    <3> SUFFICES ASSUME route # NoRoute PROVE forward \in Message /\ forward.type = "NACK"
      OBVIOUS
    <3>1. route.nextHop \in Address
      BY <2>2, <2>3, <2>1, TableTypes DEF Route
    <3> HIDE DEF route
    <3> QED
      BY <2>1, <3>1 DEF NAckMsg, Message
  <2> HIDE DEF forward, route
  <2> QED
    BY <2>4, <2>5, OtherCarriesNone DEF Exchange
<1> QED
  BY <1>1, <1>2, <1>3

\* clearOutdatedPackets sends NACKs only.
LEMMA ClearSends ==
  ASSUME TypeOK, NEW n \in Node, ClearOutdated(n)
  PROVE  \E ms \in Seq(Message) :
           Broadcast(n, inbox, ms) /\ \A p : NoneCarries(ms, p)
<1>1. PICK k \in 0 .. now : \E reports \in [1 .. k -> pendingAcks[n]] :
        Broadcast(n, inbox, [i \in 1 .. k |-> reports[i].nack])
  BY DEF ClearOutdated
<1> PICK reports \in [1 .. k -> pendingAcks[n]] :
      Broadcast(n, inbox, [i \in 1 .. k |-> reports[i].nack])
  BY <1>1
<1> DEFINE ms == [i \in 1 .. k |-> reports[i].nack]
<1>2. k \in Nat
  BY DEF TypeOK
<1>3. ASSUME NEW i \in 1 .. k PROVE reports[i].nack \in NAckMsg
  BY DEF TypeOK
<1>4. ms \in Seq(Message)
  BY <1>2, <1>3, MessageTypes
<1>5. \A p : NoneCarries(ms, p)
  BY <1>3 DEF NoneCarries, NAckMsg
<1> QED
  BY <1>4, <1>5

-----------------------------------------------------------------------------
(* The handlers, for one packet p.                                          *)

\* send: a packet that was nowhere waits or is broadcast.
LEMMA SendPlaces ==
  ASSUME TypeOK, NEW n \in Node, NEW q \in Packet, Send(n, q), NEW p, AtOnePlace(p)
  PROVE  AtOnePlace(p)'
<1>1. submitted' = submitted \cup {q} /\ q \notin submitted /\ UNCHANGED recvQueue
  BY DEF Send
<1>2. (IsReceived(p)' <=> IsReceived(p)) /\ (UNCHANGED packetsToSend => (IsQueued(p)' <=> IsQueued(p)))
  BY <1>1 DEF IsReceived, IsQueued
<1>3. p # q => (IsQueued(p)' => IsQueued(p))
  BY QueuedBySource
<1>4. CASE UNCHANGED inbox
  BY <1>1, <1>2, <1>3, <1>4, PlaceKept DEF AtOnePlace
<1>5. ASSUME NEW ms \in Seq(Message), Broadcast(n, inbox, ms), OnePkt(ms),
             \A e : e # q => NoneCarries(ms, e),
             NoneCarries(ms, q) \/ UNCHANGED packetsToSend
      PROVE  AtOnePlace(p)'
  <2>1. inbox \in [Node -> Seq(Message)]
    BY DEF TypeOK
  <2>2. NoneCarries(ms, p) => /\ NotInFlight(inbox, p) => NotInFlight(inbox', p)
                              /\ OnceInFlight(inbox, p) => OnceInFlight(inbox', p)
    BY <1>5, <2>1, BroadcastKeeps
  <2>3. CASE p # q
    BY <1>1, <1>2, <1>3, <1>5, <2>2, <2>3, PlaceKept
  <2>4. CASE p = q
    <3>1. ~IsQueued(p) /\ ~IsReceived(p) /\ NotInFlight(inbox, p) /\ OnceInFlight(inbox, p)
      BY <1>1, <2>4 DEF AtOnePlace
    <3>2. OnceInFlight(inbox', p)
      BY <1>5, <2>1, <3>1, BroadcastAdds
    <3>3. IsQueued(p)' => NotInFlight(inbox', p)
      BY <1>2, <1>5, <2>2, <2>4, <3>1
    <3> QED
      BY <1>1, <1>2, <2>4, <3>1, <3>2, <3>3 DEF AtOnePlace
  <2> QED
    BY <2>3, <2>4
<1> QED
  BY <1>4, <1>5, SendSends

\* receiveRReply: the packet that waited is broadcast, and waits no more.
LEMMA RReplyPlaces ==
  ASSUME TypeOK, WaitingInPlace, NEW n \in Node, ReceiveRReply(n), NEW p, AtOnePlace(p)
  PROVE  AtOnePlace(p)'
<1> DEFINE m == Head(inbox[n])
           waiting == packetsToSend[n][m.source]
           q == Head(waiting)
<1>1. /\ m \in RRepMsg /\ inbox[n] # <<>>
      /\ UNCHANGED <<submitted, recvQueue>>
  BY RReplyEffect DEF ReceiveRReply, Receives
<1>2. m.source \in Address
  BY <1>1 DEF RRepMsg
<1>3. /\ Rest(n) \in [Node -> Seq(Message)]
      /\ NotInFlight(inbox, p) => NotInFlight(Rest(n), p)
      /\ OnceInFlight(inbox, p) => OnceInFlight(Rest(n), p)
  BY <1>1, RestEffect, RestKeeps DEF TypeOK
<1>4. (IsReceived(p)' <=> IsReceived(p)) /\ (IsQueued(p)' => IsQueued(p))
  BY <1>1, QueuedBySource DEF IsReceived
<1>5. CASE inbox' = Rest(n)
  BY <1>1, <1>3, <1>4, <1>5, PlaceKept
<1>6. ASSUME NEW ms \in Seq(Message), Broadcast(n, Rest(n), ms), OnePkt(ms),
             \A e : e # q => NoneCarries(ms, e),
             q \in Elements(waiting), packetsToSend' = EraseQueue(n, m.source)
      PROVE  AtOnePlace(p)'
  <2>1. CASE p = q
    <3>1. IsQueued(p)
      BY <1>2, <1>6, <2>1 DEF IsQueued
    <3>2. p \in submitted /\ ~IsReceived(p) /\ NotInFlight(Rest(n), p)
      BY <1>3, <3>1 DEF AtOnePlace
    <3>3. OnceInFlight(inbox', p)
      BY <1>3, <1>6, <3>2, BroadcastAdds
    <3>4. ~IsQueued(p)'
      BY <1>2, <1>6, <2>1, ErasedWaitsNoMore
    <3> QED
      BY <1>1, <1>4, <3>2, <3>3, <3>4 DEF AtOnePlace
  <2>2. CASE p # q
    <3>1. /\ NotInFlight(Rest(n), p) => NotInFlight(inbox', p)
          /\ OnceInFlight(Rest(n), p) => OnceInFlight(inbox', p)
      BY <1>3, <1>6, <2>2, BroadcastKeeps
    <3> QED
      BY <1>1, <1>3, <1>4, <3>1, PlaceKept
  <2> QED
    BY <2>1, <2>2
<1> QED
  BY <1>5, <1>6, RReplySends

\* receivePkt: the node that the packet is addressed to takes it out of the air
\* before it hands it over or broadcasts it again.
LEMMA PktPlaces ==
  ASSUME TypeOK, NEW n \in Node, ReceivePkt(n), NEW p, AtOnePlace(p)
  PROVE  AtOnePlace(p)'
<1> DEFINE m == Head(inbox[n])
<1>1. /\ m \in PktMsg /\ inbox[n] # <<>> /\ inbox[n] \in Seq(Message)
      /\ UNCHANGED <<submitted, packetsToSend>>
  BY PktEffect DEF ReceivePkt, Receives, TypeOK
<1>2. m.type = "PKT"
  BY <1>1 DEF PktMsg
<1>3. /\ Rest(n) \in [Node -> Seq(Message)]
      /\ NotInFlight(inbox, p) => NotInFlight(Rest(n), p)
      /\ OnceInFlight(inbox, p) => OnceInFlight(Rest(n), p)
  BY <1>1, RestEffect, RestKeeps DEF TypeOK
<1>4. IsQueued(p)' <=> IsQueued(p)
  BY <1>1 DEF IsQueued
<1>5. CASE inbox' = Rest(n) /\ UNCHANGED recvQueue
  <2>1. IsReceived(p)' <=> IsReceived(p)
    BY <1>5 DEF IsReceived
  <2> QED
    BY <1>1, <1>3, <1>4, <1>5, <2>1, PlaceKept
<1>6. ASSUME AddressedTo(n, m), NEW ms \in Seq(Message), Broadcast(n, Rest(n), ms),
             OnePkt(ms), \A e : e # m.data => NoneCarries(ms, e),
             UNCHANGED recvQueue \/ NoneCarries(ms, m.data)
      PROVE  AtOnePlace(p)'
  <2>1. NoneCarries(ms, p) => /\ NotInFlight(Rest(n), p) => NotInFlight(inbox', p)
                              /\ OnceInFlight(Rest(n), p) => OnceInFlight(inbox', p)
    BY <1>3, <1>6, BroadcastKeeps
  <2>2. CASE p = m.data
    <3>1. 1 \in Addressed(inbox[n], n, p)
      BY <1>1, <1>2, <1>6, <2>2 DEF Addressed, AddressedTo
    <3>2. p \in submitted /\ ~IsQueued(p) /\ ~IsReceived(p)
      BY <3>1 DEF AtOnePlace, NotInFlight
    <3>3. NotInFlight(Rest(n), p)
      BY <1>1, <1>2, <1>6, <2>2, RestTakes DEF AtOnePlace, AddressedTo
    <3>4. OnceInFlight(inbox', p)
      BY <1>3, <1>6, <3>3, BroadcastAdds
    <3>5. IsReceived(p)' => NotInFlight(inbox', p)
      <4>1. CASE UNCHANGED recvQueue
        BY <3>2, <4>1 DEF IsReceived
      <4> QED
        BY <1>6, <2>1, <2>2, <3>3, <4>1
    <3> QED
      BY <1>1, <1>4, <3>2, <3>4, <3>5 DEF AtOnePlace
  <2>3. CASE p # m.data
    <3>1. IsReceived(p)' => IsReceived(p)
      BY <2>3, ReceivedWhenDelivered DEF Delivers
    <3> QED
      BY <1>1, <1>3, <1>4, <1>6, <2>1, <2>3, <3>1, PlaceKept
  <2> QED
    BY <2>2, <2>3
<1> QED
  BY <1>5, <1>6, PktSends

\* receiveRRequest, receiveAck and receiveNAck take a datagram and leave the
\* packets alone.
LEMMA ControlPlaces ==
  ASSUME TypeOK, NEW n \in Node, NEW p, AtOnePlace(p),
         ReceiveRRequest(n) \/ ReceiveAck(n) \/ ReceiveNAck(n)
  PROVE  AtOnePlace(p)'
<1>1. /\ inbox[n] # <<>> /\ UNCHANGED <<submitted, packetsToSend, recvQueue>>
  BY DEF ReceiveRRequest, ReceiveAck, ReceiveNAck, Receives
<1>2. /\ Rest(n) \in [Node -> Seq(Message)]
      /\ NotInFlight(inbox, p) => NotInFlight(Rest(n), p)
      /\ OnceInFlight(inbox, p) => OnceInFlight(Rest(n), p)
  BY <1>1, RestEffect, RestKeeps DEF TypeOK
<1>3. (IsQueued(p)' <=> IsQueued(p)) /\ (IsReceived(p)' <=> IsReceived(p))
  BY <1>1 DEF IsQueued, IsReceived
<1>4. CASE inbox' = Rest(n)
  BY <1>1, <1>2, <1>3, <1>4, PlaceKept
<1>5. ASSUME NEW ms \in Seq(Message), Broadcast(n, Rest(n), ms), NoneCarries(ms, p)
      PROVE  AtOnePlace(p)'
  BY <1>1, <1>2, <1>3, <1>5, BroadcastKeeps, PlaceKept
<1> QED
  BY <1>4, <1>5, ControlSends

\* clearOutdatedPackets forgets packets that wait.
LEMMA ClearPlaces ==
  ASSUME TypeOK, NEW n \in Node, ClearOutdated(n), NEW p, AtOnePlace(p)
  PROVE  AtOnePlace(p)'
<1>1. inbox \in [Node -> Seq(Message)]
  BY DEF TypeOK
<1>2. /\ NotInFlight(inbox, p) => NotInFlight(inbox', p)
      /\ OnceInFlight(inbox, p) => OnceInFlight(inbox', p)
  BY <1>1, ClearSends, BroadcastKeeps
<1>3. UNCHANGED <<submitted, recvQueue>>
  BY DEF ClearOutdated
<1>4. (IsQueued(p)' => IsQueued(p)) /\ (IsReceived(p)' <=> IsReceived(p))
  BY <1>3, QueuedBySource DEF IsReceived
<1> QED
  BY <1>2, <1>3, <1>4, PlaceKept

\* No step puts a packet at a second place.
LEMMA PlacesStep ==
  ASSUME TypeOK, WaitingInPlace, [Next]_vars, NEW p, AtOnePlace(p)
  PROVE  AtOnePlace(p)'
<1>1. CASE UNCHANGED <<submitted, packetsToSend, recvQueue, inbox>>
  <2>1. (IsQueued(p)' <=> IsQueued(p)) /\ (IsReceived(p)' <=> IsReceived(p))
    BY <1>1 DEF IsQueued, IsReceived
  <2> QED
    BY <1>1, <2>1 DEF AtOnePlace
<1>2. Tick \/ UNCHANGED vars => UNCHANGED <<submitted, packetsToSend, recvQueue, inbox>>
  BY DEF Tick, vars
<1> QED
  BY <1>1, <1>2, SendPlaces, RReplyPlaces, PktPlaces, ControlPlaces, ClearPlaces
  DEF Next, Receive
-----------------------------------------------------------------------------
(* Delivery.                                                                *)

\* A datagram keeps the packet it carries and its destination on its way.
LEMMA DestinationStep ==
  ASSUME TypeOK, WaitingInPlace, PktsNameDestination, [Next]_vars
  PROVE  PktsNameDestination'
<1> SUFFICES ASSUME NEW x \in Node, NEW k \in Datagrams(x)', k.type = "PKT"
             PROVE  k.destination = Dst[k.data]
  BY DEF PktsNameDestination
<1>1. CASE k \in Datagrams(x)
  BY <1>1 DEF PktsNameDestination
<1>2. ASSUME NEW n \in Node, NEW p \in Packet, FirstHop(k, n, p)
      PROVE  k.destination = Dst[k.data]
  BY <1>2 DEF FirstHop, PktPacket
<1>3. ASSUME NEW n \in Node, NextHop(k, n)
      PROVE  k.destination = Dst[k.data]
  <2>1. PICK m \in Datagrams(n), route \in Route :
          m \in PktMsg /\ k = [m EXCEPT !.nexthop = route.nextHop]
    BY <1>3 DEF NextHop
  <2>2. m.type = "PKT" /\ k.destination = m.destination /\ k.data = m.data
    BY <2>1 DEF PktMsg
  <2> QED
    BY <2>2 DEF PktsNameDestination
<1> QED
  BY <1>1, <1>2, <1>3, NewPkts DEF OnlyFirst

\* What receivePkt appends to the receive queue is addressed to this host and
\* is not there yet.
LEMMA DeliveryStep ==
  ASSUME TypeOK, PktsNameDestination, \A p \in Packet : AtOnePlace(p),
         AtMostOnceDelivery, [Next]_vars
  PROVE  AtMostOnceDelivery'
<1>1. CASE UNCHANGED recvQueue
  BY <1>1 DEF AtMostOnceDelivery
<1>2. ASSUME NEW n \in Node, ReceivePkt(n), AddressedTo(n, Head(inbox[n])),
             Head(inbox[n]).destination = n,
             recvQueue' = [recvQueue EXCEPT ![n] = Append(@, Head(inbox[n]).data)]
      PROVE  AtMostOnceDelivery'
  <2> DEFINE m == Head(inbox[n])
             p == m.data
  <2>1. /\ m \in PktMsg /\ m \in Datagrams(n) /\ inbox[n] # <<>>
        /\ inbox[n] \in Seq(Message) /\ recvQueue \in [Node -> Seq(Packet)]
    BY <1>2, PktEffect DEF ReceivePkt, Receives, TypeOK
  <2>2. m.type = "PKT" /\ p \in Packet
    BY <2>1 DEF PktMsg
  <2>3. Dst[p] = n
    BY <1>2, <2>1, <2>2 DEF PktsNameDestination
  <2>4. 1 \in Addressed(inbox[n], n, p)
    BY <1>2, <2>1, <2>2 DEF Addressed, AddressedTo
  <2>5. p \notin Elements(recvQueue[n])
    BY <2>2, <2>4 DEF AtOnePlace, NotInFlight, IsReceived
  <2> HIDE DEF m, p
  <2>6. recvQueue[n] \in Seq(Packet) /\ Len(recvQueue[n]) \in Nat
    BY <2>1
  <2>7. recvQueue' = [recvQueue EXCEPT ![n] = Append(@, p)]
    BY <1>2 DEF m, p
  <2>8. ASSUME NEW x \in Node, x # n PROVE recvQueue'[x] = recvQueue[x]
    BY <2>1, <2>7, <2>8
  <2>9. /\ DOMAIN recvQueue'[n] = DOMAIN recvQueue[n] \cup {Len(recvQueue[n]) + 1}
        /\ \A i \in DOMAIN recvQueue[n] : recvQueue'[n][i] = recvQueue[n][i]
        /\ recvQueue'[n][Len(recvQueue[n]) + 1] = p
    BY <2>1, <2>2, <2>6, <2>7
  <2>10. ASSUME NEW x \in Node, NEW i \in DOMAIN recvQueue'[x] PROVE Dst[recvQueue'[x][i]] = x
    BY <2>3, <2>8, <2>9, <2>10 DEF AtMostOnceDelivery
  <2>11. ASSUME NEW x \in Node, NEW i \in DOMAIN recvQueue'[x], NEW j \in DOMAIN recvQueue'[x],
                recvQueue'[x][i] = recvQueue'[x][j]
         PROVE  i = j
    <3>1. CASE x # n
      BY <2>8, <2>11, <3>1 DEF AtMostOnceDelivery
    <3>2. CASE x = n
      BY <2>5, <2>9, <2>11, <3>2 DEF AtMostOnceDelivery, Elements
    <3> QED
      BY <3>1, <3>2
  <2> QED
    BY <2>10, <2>11 DEF AtMostOnceDelivery
<1>3. ASSUME NEW n \in Node, ReceivePkt(n) PROVE AtMostOnceDelivery'
  BY <1>1, <1>2, <1>3 DEF ReceivePkt
<1> QED
  BY <1>1, <1>3
  DEF Next, Receive, Send, ReceiveRRequest, ReceiveRReply, ReceiveAck, ReceiveNAck,
      ClearOutdated, Tick, vars

\* At first no packet has been sent.
LEMMA DeliveryInit == Init => DeliveryInv
<1> SUFFICES ASSUME Init PROVE DeliveryInv
  OBVIOUS
<1>1. \A n \in Node : /\ inbox[n] = <<>> /\ recvQueue[n] = <<>>
                      /\ \A d \in Address : packetsToSend[n][d] = <<>>
  BY DEF Init
<1>2. WaitingInPlace /\ PktsNameDestination
  BY <1>1, SingletonElements DEF WaitingInPlace, PktsNameDestination, Datagrams
<1>3. ASSUME NEW p PROVE AtOnePlace(p)
  <2>1. ~IsQueued(p) /\ ~IsReceived(p)
    BY <1>1, SingletonElements DEF IsQueued, IsReceived
  <2>2. NotInFlight(inbox, p) /\ OnceInFlight(inbox, p)
    BY <1>1 DEF NotInFlight, OnceInFlight, Addressed
  <2> QED
    BY <2>1, <2>2 DEF AtOnePlace
<1>4. AtMostOnceDelivery
  BY <1>1 DEF AtMostOnceDelivery
<1> QED
  BY <1>2, <1>3, <1>4, TypeInit DEF DeliveryInv

\* No step breaks a part of the invariant.
LEMMA DeliveryInvStep ==
  ASSUME DeliveryInv, [Next]_vars
  PROVE  DeliveryInv'
<1> USE DEF DeliveryInv
<1>1. TypeOK'
  BY TypeStep
<1>2. WaitingInPlace'
  BY WaitingStep
<1>3. PktsNameDestination'
  BY DestinationStep
<1>4. (\A p \in Packet : AtOnePlace(p))'
  BY PlacesStep
<1>5. AtMostOnceDelivery'
  BY DeliveryStep
<1> QED
  BY <1>1, <1>2, <1>3, <1>4, <1>5

\* The inductive invariant of delivery: in every state the nodes and the
\* network reach, each packet is at one place at most (Wifi::send,
\* receiveRReply, receivePkt move it, and none of them copies it).
THEOREM PacketsAreAtOnePlace == Spec => []DeliveryInv
<1>1. DeliveryInv /\ [Next]_vars => DeliveryInv'
  BY DeliveryInvStep
<1> QED
  BY <1>1, DeliveryInit, PTL DEF Spec

\* A packet reaches the tun device of its destination only, and once, on any
\* topology and whatever the radio loses (the recvQueue of receivePkt).
THEOREM DeliveredOnce == Spec => []AtMostOnceDelivery
<1>1. DeliveryInv => AtMostOnceDelivery
  BY DEF DeliveryInv
<1> QED
  BY <1>1, PacketsAreAtOnePlace, PTL

-----------------------------------------------------------------------------
(* The journey of a packet.                                                 *)

\* A queue holds no second packet (Enqueue).
OneWaits == \A n \in Node, d \in Address : Len(packetsToSend[n][d]) <= 1

\* The inductive invariant under which the places of the packets change as
\* PacketJourney says.
JourneyInv == DeliveryInv /\ OneWaits

\* Only Send fills a queue, and only an empty one.
LEMMA OneWaitsStep ==
  ASSUME TypeOK, OneWaits, [Next]_vars
  PROVE  OneWaits'
<1> SUFFICES ASSUME NEW n \in Node, NEW d \in Address
             PROVE  Len(packetsToSend'[n][d]) <= 1
  BY DEF OneWaits
<1>0. SUFFICES \/ packetsToSend'[n][d] \in {packetsToSend[n][d], <<>>}
               \/ \E p \in Packet : packetsToSend'[n][d] = <<p>>
  <2>1. CASE packetsToSend'[n][d] \in {packetsToSend[n][d], <<>>}
    BY <2>1 DEF OneWaits
  <2>2. ASSUME NEW p \in Packet, packetsToSend'[n][d] = <<p>>
        PROVE  Len(packetsToSend'[n][d]) <= 1
    BY <2>2
  <2> QED
    BY <1>0, <2>1, <2>2
<1>1. packetsToSend \in [Node -> [Address -> Seq(Packet)]]
  BY DEF TypeOK
<1>2. ASSUME NEW x \in Node, NEW p \in Packet, Send(x, p)
      PROVE  packetsToSend'[n][d] \in {packetsToSend[n][d], <<p>>}
  <2>1. Dst[p] \in Address
    BY PacketAssumption
  <2>2. \/ UNCHANGED packetsToSend
        \/ packetsToSend' = [packetsToSend EXCEPT ![x][Dst[p]] = <<p>>]
    BY <1>2 DEF Send, Enqueue
  <2> QED
    BY <1>1, <2>1, <2>2
<1>3. ASSUME NEW x \in Node, ReceiveRReply(x)
      PROVE  packetsToSend'[n][d] \in {packetsToSend[n][d], <<>>}
  <2>1. Head(inbox[x]).source \in Address
    BY <1>3, RReplyEffect DEF RRepMsg
  <2>2. \/ UNCHANGED packetsToSend
        \/ packetsToSend' = [packetsToSend EXCEPT ![x][Head(inbox[x]).source] = <<>>]
    BY <1>3 DEF ReceiveRReply, EraseQueue
  <2> QED
    BY <1>1, <2>1, <2>2
<1>4. ASSUME NEW x \in Node, ClearOutdated(x)
      PROVE  packetsToSend'[n][d] \in {packetsToSend[n][d], <<>>}
  <2>1. PICK ds : packetsToSend' = EraseWaiting(x, ds)
    BY <1>4 DEF ClearOutdated
  <2> QED
    BY <1>1, <2>1 DEF EraseWaiting
<1>5. CASE UNCHANGED packetsToSend
  BY <1>5
<1> QED
  BY <1>2, <1>3, <1>4, <1>5
  DEF Next, Receive, ReceiveRRequest, ReceivePkt, ReceiveAck, ReceiveNAck, Tick, vars

\* JourneyInv is inductive.
LEMMA JourneyInvCorrect == Spec => []JourneyInv
<1>1. Init => JourneyInv
  <2>1. Init => OneWaits
    BY DEF Init, OneWaits
  <2> QED
    BY <2>1, DeliveryInit DEF JourneyInv
<1>2. JourneyInv /\ [Next]_vars => JourneyInv'
  BY DeliveryInvStep, OneWaitsStep DEF JourneyInv, DeliveryInv
<1> QED
  BY <1>1, <1>2, PTL DEF Spec

\* Where a packet is, said with the predicates of AtOnePlace.
IsPlaced(p) ==
  /\ PlaceOf(p) = "host" <=> p \notin submitted
  /\ PlaceOf(p) = "waiting" <=> IsQueued(p)
  /\ PlaceOf(p) = "air" <=> ~NotInFlight(inbox, p)
  /\ PlaceOf(p) = "delivered" <=> IsReceived(p)
  /\ PlaceOf(p) \in Journey!Place

\* The refinement mapping finds a packet where AtOnePlace says it is.
LEMMA PlaceIs == ASSUME DeliveryInv, NEW p \in Packet PROVE IsPlaced(p)
<1>1. AtOnePlace(p)
  BY DEF DeliveryInv
<1>2. Src[p] \in Node /\ Dst[p] \in Address
  BY PacketAssumption
<1>3. IsWaiting(p) <=> IsQueued(p)
  <2>1. IsWaiting(p) <=> p \in Elements(packetsToSend[Src[p]][Dst[p]])
    BY DEF IsWaiting, Elements
  <2>2. WaitingInPlace
    BY DEF DeliveryInv
  <2> QED
    BY <1>2, <2>1, <2>2 DEF IsQueued, WaitingInPlace
<1>4. InFlight(p) <=> ~NotInFlight(inbox, p)
  BY DEF InFlight, NotInFlight, Addressed
<1>5. IsDelivered(p) <=> IsReceived(p)
  BY DEF IsDelivered, IsReceived, Elements, DeliveryInv, AtMostOnceDelivery
<1> QED
  BY <1>1, <1>3, <1>4, <1>5 DEF IsPlaced, PlaceOf, AtOnePlace, Journey!Place

\* Nothing that places the packet p changes.
Stays(p) ==
  /\ p \in submitted' <=> p \in submitted
  /\ IsQueued(p)' <=> IsQueued(p)
  /\ NotInFlight(inbox', p) <=> NotInFlight(inbox, p)
  /\ IsReceived(p)' <=> IsReceived(p)

\* The same before and after a step.
LEMMA PlacesAre ==
  ASSUME NEW p \in Packet
  PROVE  DeliveryInv /\ DeliveryInv' => IsPlaced(p) /\ IsPlaced(p)'
<1>1. DeliveryInv => IsPlaced(p)
  BY PlaceIs
<1> QED
  BY <1>1, PTL

\* A packet that nothing places elsewhere stays where it is.
LEMMA StaysThere ==
  ASSUME DeliveryInv, DeliveryInv', NEW p \in Packet, Stays(p)
  PROVE  PlaceOf(p)' = PlaceOf(p)
BY PlacesAre DEF Stays, IsPlaced, Journey!Place

\* Taking a datagram that the node does not take for its own leaves a packet
\* in the air that was there.
LEMMA RestLeaves ==
  ASSUME TypeOK, NEW n \in Node, inbox[n] # <<>>, NEW p,
         ~(Head(inbox[n]).type = "PKT" /\ Head(inbox[n]).data = p /\ Head(inbox[n]).nexthop = n),
         NotInFlight(Rest(n), p)
  PROVE  NotInFlight(inbox, p)
<1> SUFFICES ASSUME NEW r \in Node, NEW i \in Addressed(inbox[r], r, p) PROVE FALSE
  BY DEF NotInFlight
<1>1. /\ inbox[r] \in Seq(Message) /\ inbox[n] \in Seq(Message)
      /\ Rest(n)[r] = IF r = n THEN Tail(inbox[r]) ELSE inbox[r]
  BY DEF TypeOK, Rest
<1>2. CASE r # n
  BY <1>1, <1>2 DEF NotInFlight
<1>3. CASE r = n
  <2>1. i \in 1 .. Len(inbox[n]) /\ i # 1
    BY <1>1, <1>3 DEF Addressed
  <2>2. i - 1 \in DOMAIN Tail(inbox[n]) /\ Tail(inbox[n])[i - 1] = inbox[n][i]
    BY <1>1, <2>1
  <2>3. i - 1 \in Addressed(Tail(inbox[n]), n, p)
    BY <1>3, <2>2 DEF Addressed
  <2> QED
    BY <1>1, <1>3, <2>3 DEF NotInFlight
<1> QED
  BY <1>2, <1>3

\* A broadcast takes nothing out of the air.
LEMMA BroadcastLeaves ==
  ASSUME NEW n, NEW box \in [Node -> Seq(Message)], NEW ms \in Seq(Message),
         Broadcast(n, box, ms), NEW p, NotInFlight(inbox', p)
  PROVE  NotInFlight(box, p)
<1>1. PICK heard \in [Hears(n) -> Heard(ms)] :
        inbox' = [r \in Node |-> IF r \in Hears(n) THEN box[r] \o heard[r] ELSE box[r]]
  BY DEF Broadcast
<1> SUFFICES ASSUME NEW r \in Node, NEW i \in Addressed(box[r], r, p) PROVE FALSE
  BY DEF NotInFlight
<1>2. CASE r \notin Hears(n)
  BY <1>1, <1>2 DEF NotInFlight
<1>3. CASE r \in Hears(n)
  <2>1. box[r] \in Seq(Message) /\ heard[r] \in Seq(Message) /\ inbox'[r] = box[r] \o heard[r]
    BY <1>1, <1>3, HeardOnce
  <2>2. i \in DOMAIN box[r]
    BY DEF Addressed
  <2>3. i \in DOMAIN inbox'[r] /\ inbox'[r][i] = box[r][i]
    BY <2>1, <2>2
  <2> QED
    BY <2>3 DEF NotInFlight, Addressed
<1> QED
  BY <1>2, <1>3

\* A step that moves q only, if any packet, is one step of its journey.
LEMMA OneGoes ==
  ASSUME NEW q \in Packet, NEW to, PlaceOf(q)' \in to,
         \A p \in Packet : p # q => PlaceOf(p)' = PlaceOf(p)
  PROVE  Journey!Goes(q, PlaceOf(q), to)
<1> DEFINE places == [p \in Packet |-> PlaceOf(p)]
<1>1. places' = [p \in Packet |-> PlaceOf(p)']
  OBVIOUS
<1>2. places' = [places EXCEPT ![q] = places'[q]] /\ places[q] = PlaceOf(q) /\ places'[q] = PlaceOf(q)'
  BY <1>1
<1> QED
  BY <1>2 DEF Journey!Goes

\* send: a packet of the host waits, is in the air or is lost.
LEMMA SendJourney ==
  ASSUME JourneyInv, DeliveryInv', NEW n \in Node, NEW q \in Packet, Send(n, q)
  PROVE  Journey!Submit(q)
<1>1. /\ submitted' = submitted \cup {q} /\ q \notin submitted /\ UNCHANGED recvQueue
      /\ TypeOK /\ inbox \in [Node -> Seq(Message)] /\ AtOnePlace(q)
  BY DEF Send, JourneyInv, DeliveryInv, TypeOK
<1>2. \A p : IsReceived(p)' <=> IsReceived(p)
  BY <1>1 DEF IsReceived
<1>3. ASSUME NEW p \in Packet, p # q PROVE Stays(p)
  <2>1. IsQueued(p)' => IsQueued(p)
    BY <1>1, <1>3, QueuedBySource
  <2>2. ASSUME IsQueued(p) PROVE IsQueued(p)'
    <3>1. PICK x \in Node, d \in Address : p \in Elements(packetsToSend[x][d])
      BY <2>2 DEF IsQueued
    <3>2. packetsToSend[x][d] # <<>>
      BY <3>1, SingletonElements
    <3>3. \/ UNCHANGED packetsToSend
          \/ /\ packetsToSend[n][Dst[q]] = <<>>
             /\ packetsToSend' = [packetsToSend EXCEPT ![n][Dst[q]] = <<q>>]
      BY DEF Send, Enqueue
    <3>4. packetsToSend'[x][d] = packetsToSend[x][d]
      <4>1. packetsToSend \in [Node -> [Address -> Seq(Packet)]] /\ Dst[q] \in Address
        BY <1>1, PacketAssumption DEF TypeOK
      <4> QED
        BY <3>2, <3>3, <4>1
    <3> QED
      BY <3>1, <3>4 DEF IsQueued
  <2>3. NotInFlight(inbox', p) <=> NotInFlight(inbox, p)
    BY <1>1, <1>3, SendSends, BroadcastKeeps, BroadcastLeaves
  <2> QED
    BY <1>1, <1>2, <1>3, <2>1, <2>2, <2>3 DEF Stays
<1>4. \A p \in Packet : p # q => PlaceOf(p)' = PlaceOf(p)
  BY <1>3, StaysThere DEF JourneyInv
<1>5. IsPlaced(q) /\ IsPlaced(q)'
  BY PlacesAre DEF JourneyInv
<1>6. PlaceOf(q) = "host" /\ PlaceOf(q)' \in {"waiting", "air", "lost"}
  <2>1. ~IsReceived(q)'
    BY <1>1, <1>2 DEF AtOnePlace
  <2> QED
    BY <1>1, <1>5, <2>1 DEF IsPlaced, Journey!Place
<1> QED
  BY <1>1, <1>4, <1>6, OneGoes DEF Journey!Submit

\* receiveRReply: the packet that waited alone leaves, if there is one.
LEMMA RReplyJourney ==
  ASSUME JourneyInv, DeliveryInv', NEW n \in Node, ReceiveRReply(n)
  PROVE  \/ \A p \in Packet : PlaceOf(p)' = PlaceOf(p)
         \/ \E q \in Packet : Journey!Depart(q)
<1> DEFINE m == Head(inbox[n])
           waiting == packetsToSend[n][m.source]
<1>1. /\ m \in RRepMsg /\ inbox[n] # <<>>
      /\ UNCHANGED <<submitted, recvQueue>>
      /\ TypeOK /\ WaitingInPlace /\ OneWaits /\ \A p \in Packet : AtOnePlace(p)
  BY RReplyEffect DEF ReceiveRReply, Receives, JourneyInv, DeliveryInv
<1>2. m.source \in Address /\ m.type = "RREP" /\ Rest(n) \in [Node -> Seq(Message)]
  BY <1>1, RestEffect DEF RRepMsg, TypeOK
<1>3. \A p : IsReceived(p)' <=> IsReceived(p)
  BY <1>1 DEF IsReceived
<1>4. \A p : NotInFlight(Rest(n), p) <=> NotInFlight(inbox, p)
  BY <1>1, <1>2, RestKeeps, RestLeaves
<1>5. CASE inbox' = Rest(n) /\ UNCHANGED packetsToSend
  <2>1. \A p : IsQueued(p)' <=> IsQueued(p)
    BY <1>5 DEF IsQueued
  <2>2. \A p \in Packet : Stays(p)
    BY <1>1, <1>3, <1>4, <1>5, <2>1 DEF Stays
  <2> QED
    BY <2>2, StaysThere DEF JourneyInv
<1>6. ASSUME NEW q \in Packet, q = Head(waiting), q \in Elements(waiting),
             packetsToSend' = EraseQueue(n, m.source),
             NEW ms \in Seq(Message), Broadcast(n, Rest(n), ms),
             \A p : p # q => NoneCarries(ms, p)
      PROVE  Journey!Depart(q)
  <2>1. /\ packetsToSend \in [Node -> [Address -> Seq(Packet)]]
        /\ waiting \in Seq(Packet) /\ Len(waiting) <= 1
    BY <1>1, <1>2 DEF TypeOK, OneWaits
  <2>2. Elements(waiting) = {q}
    BY <1>6, <2>1 DEF Elements
  <2>3. ASSUME NEW p \in Packet, p # q PROVE Stays(p)
    <3>1. IsQueued(p)' => IsQueued(p)
      BY <1>1, QueuedBySource
    <3>2. ASSUME IsQueued(p) PROVE IsQueued(p)'
      <4>1. PICK x \in Node, d \in Address : p \in Elements(packetsToSend[x][d])
        BY <3>2 DEF IsQueued
      <4>2. ~(x = n /\ d = m.source)
        BY <2>2, <2>3, <4>1
      <4>3. packetsToSend'[x][d] = packetsToSend[x][d]
        BY <1>2, <1>6, <2>1, <4>2 DEF EraseQueue
      <4> QED
        BY <4>1, <4>3 DEF IsQueued
    <3>3. NotInFlight(inbox', p) <=> NotInFlight(inbox, p)
      <4>1. NoneCarries(ms, p)
        BY <1>6, <2>3
      <4>2. NotInFlight(inbox', p) <=> NotInFlight(Rest(n), p)
        BY <1>2, <1>6, <4>1, BroadcastKeeps, BroadcastLeaves
      <4> QED
        BY <1>4, <4>2
    <3> QED
      BY <1>1, <1>3, <3>1, <3>2, <3>3 DEF Stays
  <2>4. \A p \in Packet : p # q => PlaceOf(p)' = PlaceOf(p)
    BY <2>3, StaysThere DEF JourneyInv
  <2>5. IsPlaced(q) /\ IsPlaced(q)'
    BY <1>6, PlacesAre DEF JourneyInv
  <2>6. IsQueued(q) /\ ~IsQueued(q)'
    BY <1>1, <1>2, <1>6, ErasedWaitsNoMore DEF IsQueued
  <2>7. q \in submitted /\ ~IsReceived(q)
    BY <1>1, <1>6, <2>6 DEF AtOnePlace
  <2>8. PlaceOf(q) = "waiting" /\ PlaceOf(q)' \in {"air", "lost"}
    BY <1>1, <1>3, <2>5, <2>6, <2>7 DEF IsPlaced, Journey!Place
  <2> QED
    BY <1>1, <1>6, <2>4, <2>8, OneGoes DEF Journey!Depart
<1> QED
  BY <1>5, <1>6, RReplySends, <1>1

\* receivePkt: the packet taken is delivered, or lost, or in the air again;
\* with a datagram for somebody else nothing happens.
LEMMA PktJourney ==
  ASSUME JourneyInv, DeliveryInv', NEW n \in Node, ReceivePkt(n)
  PROVE  \/ (\A p \in Packet : PlaceOf(p)' = PlaceOf(p)) /\ UNCHANGED recvQueue
         \/ \E q \in Packet : Journey!Fade(q) \/ Journey!Deliver(q)
<1> DEFINE m == Head(inbox[n])
<1>1. /\ m \in PktMsg /\ inbox[n] # <<>> /\ inbox[n] \in Seq(Message)
      /\ UNCHANGED <<submitted, packetsToSend>> /\ TypeOK
      /\ Rest(n) \in [Node -> Seq(Message)] /\ m \in Datagrams(n)
      /\ PktsNameDestination /\ \A p \in Packet : AtOnePlace(p)
  BY PktEffect, RestEffect DEF ReceivePkt, Receives, JourneyInv, DeliveryInv, TypeOK
<1>2. m.type = "PKT" /\ m.data \in Packet
  BY <1>1 DEF PktMsg
<1>3. \A p : IsQueued(p)' <=> IsQueued(p)
  BY <1>1 DEF IsQueued
<1>4. ASSUME NEW p, ~AddressedTo(n, m) \/ p # m.data
      PROVE  NotInFlight(Rest(n), p) <=> NotInFlight(inbox, p)
  BY <1>1, <1>4, RestKeeps, RestLeaves DEF AddressedTo
<1>5. CASE ~AddressedTo(n, m) /\ inbox' = Rest(n) /\ UNCHANGED recvQueue
  <2>1. \A p : IsReceived(p)' <=> IsReceived(p)
    BY <1>5 DEF IsReceived
  <2>2. \A p \in Packet : Stays(p)
    BY <1>1, <1>3, <1>4, <1>5, <2>1 DEF Stays
  <2> QED
    BY <1>5, <2>2, StaysThere DEF JourneyInv
<1>6. ASSUME NEW q \in Packet, q = m.data, AddressedTo(n, m),
             NEW ms \in Seq(Message), Broadcast(n, Rest(n), ms),
             \A p : p # q => NoneCarries(ms, p),
             \/ UNCHANGED recvQueue
             \/ /\ m.destination = n
                /\ recvQueue' = [recvQueue EXCEPT ![n] = Append(@, q)]
                /\ NoneCarries(ms, q)
      PROVE  \/ (\A p \in Packet : PlaceOf(p)' = PlaceOf(p)) /\ UNCHANGED recvQueue
             \/ Journey!Fade(q) \/ Journey!Deliver(q)
  <2>1. recvQueue \in [Node -> Seq(Packet)]
    BY <1>1 DEF TypeOK
  <2>2. ASSUME NEW p \in Packet, p # q PROVE Stays(p)
    <3>1. IsReceived(p)' <=> IsReceived(p)
      <4>1. CASE UNCHANGED recvQueue
        BY <4>1 DEF IsReceived
      <4>2. CASE recvQueue' = [recvQueue EXCEPT ![n] = Append(@, q)]
        <5>1. Elements(Append(recvQueue[n], q)) = Elements(recvQueue[n]) \cup {q}
          BY <1>2, <2>1, AppendElements
        <5>2. \A x \in Node : p \in Elements(recvQueue'[x]) <=> p \in Elements(recvQueue[x])
          BY <2>1, <2>2, <4>2, <5>1
        <5> QED
          BY <5>2 DEF IsReceived
      <4> QED
        BY <1>6, <4>1, <4>2
    <3>2. NotInFlight(inbox', p) <=> NotInFlight(inbox, p)
      BY <1>1, <1>4, <1>6, <2>2, BroadcastKeeps, BroadcastLeaves
    <3> QED
      BY <1>1, <1>3, <3>1, <3>2 DEF Stays
  <2>3. \A p \in Packet : p # q => PlaceOf(p)' = PlaceOf(p)
    BY <2>2, StaysThere DEF JourneyInv
  <2>4. IsPlaced(q) /\ IsPlaced(q)'
    BY <1>2, PlacesAre DEF JourneyInv
  <2>5. ~NotInFlight(inbox, q)
    BY <1>1, <1>2, <1>6 DEF NotInFlight, Addressed, AddressedTo
  <2>6. PlaceOf(q) = "air" /\ q \in submitted /\ ~IsQueued(q) /\ ~IsReceived(q)
    BY <1>1, <1>2, <2>4, <2>5 DEF AtOnePlace, IsPlaced
  <2>7. CASE UNCHANGED recvQueue
    <3>1. ~IsReceived(q)'
      BY <2>6, <2>7 DEF IsReceived
    <3>2. PlaceOf(q)' \in {"air", "lost"}
      BY <1>1, <1>3, <2>4, <2>6, <3>1 DEF IsPlaced, Journey!Place
    <3>3. CASE PlaceOf(q)' = "air"
      BY <2>3, <2>6, <2>7, <3>3
    <3>4. CASE PlaceOf(q)' = "lost"
      BY <1>2, <2>3, <2>6, <2>7, <3>4, OneGoes DEF Journey!Fade
    <3> QED
      BY <3>2, <3>3, <3>4
  <2>8. CASE m.destination = n /\ recvQueue' = [recvQueue EXCEPT ![n] = Append(@, q)]
    <3>1. Dst[q] = n
      BY <1>1, <1>2, <1>6, <2>8 DEF PktsNameDestination
    <3>2. Elements(recvQueue'[n]) = Elements(recvQueue[n]) \cup {q}
      BY <1>2, <2>1, <2>8, AppendElements
    <3>3. PlaceOf(q)' = "delivered"
      BY <2>4, <3>2 DEF IsPlaced, IsReceived
    <3> QED
      BY <1>2, <2>3, <2>6, <2>8, <3>1, <3>3, OneGoes DEF Journey!Deliver
  <2> QED
    BY <1>6, <2>7, <2>8
<1>7. CASE AddressedTo(n, m)
  <2>1. PICK ms \in Seq(Message) :
          /\ Broadcast(n, Rest(n), ms)
          /\ \A p : p # m.data => NoneCarries(ms, p)
          /\ \/ UNCHANGED recvQueue
             \/ /\ m.destination = n
                /\ recvQueue' = [recvQueue EXCEPT ![n] = Append(@, m.data)]
                /\ NoneCarries(ms, m.data)
    BY <1>1, <1>7, PktSends
  <2> HIDE DEF m
  <2> QED
    BY <1>2, <1>6, <1>7, <2>1
<1> QED
  BY <1>1, <1>5, <1>7, PktSends

\* receiveRRequest, receiveAck and receiveNAck leave every packet where it is.
LEMMA ControlJourney ==
  ASSUME JourneyInv, DeliveryInv', NEW n \in Node,
         ReceiveRRequest(n) \/ ReceiveAck(n) \/ ReceiveNAck(n)
  PROVE  \A p \in Packet : PlaceOf(p)' = PlaceOf(p)
<1>1. /\ inbox[n] # <<>> /\ UNCHANGED <<submitted, packetsToSend, recvQueue>>
      /\ Head(inbox[n]).type # "PKT" /\ TypeOK
  BY DEF ReceiveRRequest, ReceiveAck, ReceiveNAck, Receives, JourneyInv, DeliveryInv
<1>2. Rest(n) \in [Node -> Seq(Message)]
  BY <1>1, RestEffect DEF TypeOK
<1> SUFFICES ASSUME NEW p \in Packet PROVE PlaceOf(p)' = PlaceOf(p)
  OBVIOUS
<1>3. (IsQueued(p)' <=> IsQueued(p)) /\ (IsReceived(p)' <=> IsReceived(p))
  BY <1>1 DEF IsQueued, IsReceived
<1>4. NotInFlight(Rest(n), p) <=> NotInFlight(inbox, p)
  BY <1>1, RestKeeps, RestLeaves
<1>5. NotInFlight(inbox', p) <=> NotInFlight(Rest(n), p)
  BY <1>1, <1>2, ControlSends, BroadcastKeeps, BroadcastLeaves
<1> QED
  BY <1>1, <1>3, <1>4, <1>5, StaysThere DEF Stays, JourneyInv

\* clearOutdatedPackets: the packets whose request has had no answer are
\* forgotten, all together.
LEMMA ClearJourney ==
  ASSUME JourneyInv, DeliveryInv', NEW n \in Node, ClearOutdated(n)
  PROVE  \E ps \in SUBSET Packet : Journey!Forget(ps)
<1>1. /\ TypeOK /\ UNCHANGED <<submitted, recvQueue>>
      /\ inbox \in [Node -> Seq(Message)] /\ \A p \in Packet : AtOnePlace(p)
  BY DEF ClearOutdated, JourneyInv, DeliveryInv, TypeOK
<1>2. \A p : IsReceived(p)' <=> IsReceived(p)
  BY <1>1 DEF IsReceived
<1>3. \A p : NotInFlight(inbox', p) <=> NotInFlight(inbox, p)
  BY <1>1, ClearSends, BroadcastKeeps, BroadcastLeaves
<1>4. \A p : IsQueued(p)' => IsQueued(p)
  BY <1>1, QueuedBySource
<1> DEFINE ps == {p \in Packet : IsQueued(p) /\ ~IsQueued(p)'}
<1>5. ASSUME NEW p \in Packet
      PROVE  /\ p \in ps => PlaceOf(p) = "waiting" /\ PlaceOf(p)' = "lost"
             /\ p \notin ps => PlaceOf(p)' = PlaceOf(p)
  <2>1. IsPlaced(p) /\ IsPlaced(p)'
    BY PlacesAre DEF JourneyInv
  <2>2. CASE IsQueued(p) /\ ~IsQueued(p)'
    <3>1. p \in submitted' /\ ~IsReceived(p)' /\ NotInFlight(inbox', p)
      BY <1>1, <1>2, <1>3, <2>2 DEF AtOnePlace
    <3> QED
      BY <2>1, <2>2, <3>1 DEF IsPlaced, Journey!Place
  <2>3. CASE ~(IsQueued(p) /\ ~IsQueued(p)')
    <3>1. Stays(p)
      BY <1>1, <1>2, <1>3, <1>4, <2>3 DEF Stays
    <3> QED
      BY <2>3, <3>1, StaysThere DEF JourneyInv
  <2> QED
    BY <2>2, <2>3
<1> HIDE DEF ps
<1>6. ps \in SUBSET Packet
  BY DEF ps
<1>7. Journey!Forget(ps)
  BY <1>1, <1>5, <1>6 DEF Journey!Forget
<1> QED
  BY <1>6, <1>7

\* When no packet changes places, nothing happens in PacketJourney.
LEMMA JourneyStutters ==
  ASSUME \A p \in Packet : PlaceOf(p)' = PlaceOf(p), UNCHANGED recvQueue
  PROVE  UNCHANGED Journey!vars
BY DEF Journey!vars

\* Every step of the mesh is a step of the journey of one packet, forgets
\* packets that wait, or is none that the hosts notice.
LEMMA JourneyStep ==
  ASSUME JourneyInv, JourneyInv', [Next]_vars
  PROVE  [Journey!Next]_(Journey!vars)
<1>1. DeliveryInv'
  BY DEF JourneyInv
<1>2. ASSUME NEW n \in Node, NEW p \in Packet, Send(n, p) PROVE Journey!Next
  BY <1>1, <1>2, SendJourney DEF Journey!Next
<1>3. ASSUME NEW n \in Node, ReceiveRReply(n) PROVE [Journey!Next]_(Journey!vars)
  <2>1. UNCHANGED recvQueue
    BY <1>3 DEF ReceiveRReply
  <2> QED
    BY <1>1, <1>3, <2>1, RReplyJourney, JourneyStutters DEF Journey!Next
<1>4. ASSUME NEW n \in Node, ReceivePkt(n) PROVE [Journey!Next]_(Journey!vars)
  BY <1>1, <1>4, PktJourney, JourneyStutters DEF Journey!Next
<1>5. ASSUME NEW n \in Node, ReceiveRRequest(n) \/ ReceiveAck(n) \/ ReceiveNAck(n)
      PROVE  UNCHANGED Journey!vars
  <2>1. UNCHANGED recvQueue
    BY <1>5 DEF ReceiveRRequest, ReceiveAck, ReceiveNAck
  <2> QED
    BY <1>1, <1>5, <2>1, ControlJourney, JourneyStutters
<1>6. ASSUME NEW n \in Node, ClearOutdated(n) PROVE Journey!Next
  BY <1>1, <1>6, ClearJourney DEF Journey!Next
<1>7. CASE Tick \/ UNCHANGED vars
  <2>1. UNCHANGED <<submitted, packetsToSend, recvQueue, inbox>>
    BY <1>7 DEF Tick, vars
  <2> QED
    BY <2>1 DEF Journey!vars, PlaceOf, IsWaiting, InFlight, IsDelivered
<1> QED
  BY <1>2, <1>3, <1>4, <1>5, <1>6, <1>7 DEF Next, Receive

\* The mesh implements the journey: every handler of class Wifi, on any
\* topology and whatever the radio loses, moves a packet only from its host to
\* the queue or the air, from the queue to the air, from the air to the host
\* that it is for, or nowhere, for ever.
THEOREM MeshImplementsJourney == Spec => ImplementsJourney
<1>1. Init => Journey!Init
  <2> SUFFICES ASSUME Init PROVE Journey!Init
    OBVIOUS
  <2>1. \A p \in Packet : PlaceOf(p) = "host"
    BY DEF Init, PlaceOf
  <2> QED
    BY <2>1 DEF Init, Journey!Init
<1>2. JourneyInv /\ JourneyInv' /\ [Next]_vars => [Journey!Next]_(Journey!vars)
  BY JourneyStep
<1> QED
  BY <1>1, <1>2, JourneyInvCorrect, PTL DEF Spec, ImplementsJourney, Journey!Spec
=============================================================================
