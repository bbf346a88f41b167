-------------------------- MODULE WifiThreadsProofs --------------------------
(* Proofs about WifiThreads: whatever the interleaving of the three threads, *)
(* a packet goes out once under a number of its own, and what the ACKs and   *)
(* the timeouts do to the recorded NACKs.                                   *)
EXTENDS WifiThreads, FiniteSetTheorems, TLAPS

Tun == "Tun2Wifi"
Recv == "WifiRecv"
Cleaner == "ClearPackets"

\* Where each thread may stand, and what it has in its hands there.
HandInv ==
  /\ pc[Tun] \in {"idle", "request", "queue", "number", "air", "register"}
  /\ pc[Recv] \in {"idle", "hop", "lock", "next", "number", "air", "register", "sent"}
  /\ pc[Cleaner] \in {"idle", "scan", "acks"}
  /\ pc[Tun] # "idle" => hand[Tun] \in submitted
  /\ pc[Tun] = "idle" => hand[Tun] = Nobody
  /\ pc[Recv] \in {"number", "air", "register"} => hand[Recv] \in submitted
  /\ pc[Recv] # "idle" => replied \in Address

\* A packet waits in one place: the queue of its destination, which holds one
\* at most, or the hands of Tun2Wifi.  WifiRecv leaves what it sends at the
\* front of the queue until it is sent.
QueuesInv ==
  /\ \A d \in Address :
       packetsToSend[d] = <<>> \/ \E p \in submitted : Dst[p] = d /\ packetsToSend[d] = <<p>>
  /\ pc[Tun] # "idle" => packetsToSend[Dst[hand[Tun]]] # <<hand[Tun]>>
  /\ pc[Recv] \in {"number", "air", "register"} => packetsToSend[replied] = <<hand[Recv]>>
  /\ pc[Recv] = "sent" => packetsToSend[replied] # <<>>

\* What is on the air is nowhere else, but for a packet that WifiRecv has sent
\* and not yet taken out of the queue.
AiredInv ==
  /\ \A a \in aired : a.packet \in submitted
  /\ \A t \in Sender :
       pc[t] = "register" => [packet |-> hand[t], seq |-> number[t], by |-> t] \in aired
  /\ pc[Tun] \notin {"idle", "register"} => \A a \in aired : a.packet # hand[Tun]
  /\ \A d \in Address, a \in aired :
       packetsToSend[d] = <<a.packet>> => replied = d /\ pc[Recv] \in {"register", "sent"}
  /\ pc[Recv] = "sent" => \E a \in aired : packetsToSend[replied] = <<a.packet>>

\* The packets that have been given a number.
Numbered == {a.packet : a \in aired} \cup {hand[t] : t \in {u \in Sender : pc[u] = "air"}}

\* Numbers are given out once each, and never wrap: there are fewer packets
\* than numbers.
NumbersInv ==
  /\ seq = Cardinality(Numbered)
  /\ \A a \in aired : a.seq < seq
  /\ \A t \in Sender : pc[t] = "air" => number[t] < seq /\ \A a \in aired : a.seq # number[t]
  /\ pc[Tun] = "air" /\ pc[Recv] = "air" => number[Tun] # number[Recv]
  /\ OneNumberOnePacket

\* ACKs are for what is on the air; the NACK of a packet is recorded once, and
\* WifiRecv records its own before it reads the ACK.
AcksInv ==
  /\ acked \subseteq {a.seq : a \in aired}
  /\ {r.id : r \in registered} \subseteq {a.seq : a \in aired}
  /\ \A t \in Sender : pc[t] = "register" => \A r \in registered : r.id # number[t]
  /\ pc[Recv] = "register" => number[Recv] \notin acked
  /\ \A a \in aired :
       a.by = Recv /\ a.seq \in acked => a.seq \notin pendingAcks \cup falseNacks
  /\ \A s \in pendingAckSequences : [id |-> s.id, at |-> s.at] \in registered

\* A packet that is about to enter a queue, or is in one, has a request.
RequestsInv ==
  /\ WaitingIsWatched
  /\ pc[Tun] = "queue" => \/ pendingRReplies[Dst[hand[Tun]]] # Never
                          \/ Dst[hand[Tun]] \in overtaken

WifiInv ==
  /\ TypeOK
  /\ HandInv
  /\ QueuesInv
  /\ AiredInv
  /\ NumbersInv
  /\ AcksInv
  /\ UnwatchedSharesSecond
  /\ RequestsInv
-----------------------------------------------------------------------------
USE DEF Tun, Recv, Cleaner

\* The operations of the table give tables.
LEMMA TableTypes ==
  ASSUME NEW table \in Table, NEW d \in Address, NEW t \in Nat
  PROVE  /\ TableAfterGet(table, d, t) \in Table
         /\ InvalidateRoute(table, d) \in Table
         /\ \A via \in Address : AddRoute(table, d, NewRoute(via, 1, t)) \in Table
BY DEF Table, GetRoute, TableAfterGet, InvalidateRoute, AddRoute, NewRoute, Route

\* The counter as it wraps.
LEMMA NextNumber ==
  ASSUME NEW n \in 0 .. SeqModulus - 1
  PROVE  (n + 1) % SeqModulus = IF n + 1 = SeqModulus THEN 0 ELSE n + 1
BY SeqAssumption

\* A node starts with nothing to send and no mutex held.
LEMMA WifiInvInit == Init => WifiInv
<1> SUFFICES ASSUME Init PROVE WifiInv
  OBVIOUS
<1> USE SeqAssumption, NoValueAssumption DEF Init
<1>1. TypeOK
  <2>1. /\ pc \in [Thread -> {"idle"}] /\ owner \in [Mutex -> {Nobody}]
        /\ hand \in [Sender -> {Nobody}] /\ number \in [Sender -> {0}]
    BY DEF Thread, Sender, Mutex
  <2>2. routes \in Table /\ packetsToSend \in [Address -> Seq(Packet)]
    BY DEF Table, EmptyTable
  <2>3. seq \in 0 .. SeqModulus - 1
    BY FS_CardinalityType
  <2> QED
    BY <2>1, <2>2, <2>3 DEF TypeOK, At, Thread, Sender, Mutex
<1>2. HandInv /\ QueuesInv
  BY DEF HandInv, QueuesInv, Thread, Sender
<1>3. AiredInv /\ AcksInv /\ UnwatchedSharesSecond /\ OneNumberOnePacket
  BY DEF AiredInv, AcksInv, UnwatchedSharesSecond, OneNumberOnePacket, Thread, Sender
<1>4. NumbersInv
  <2>1. Numbered = {}
    BY DEF Numbered, Thread, Sender
  <2> QED
    BY <1>3, <2>1, FS_EmptySet DEF NumbersInv, Thread, Sender
<1>5. RequestsInv
  BY DEF RequestsInv, WaitingIsWatched, Thread, Sender
<1> QED
  BY <1>1, <1>2, <1>3, <1>4, <1>5 DEF WifiInv

\* Every step keeps the types, and a mutex has the owner its place says.
LEMMA TypeStep ==
  ASSUME TypeOK, HandInv, QueuesInv, [Next]_vars
  PROVE  TypeOK'
<1> USE PacketAssumption, SeqAssumption, NoValueAssumption, DelayAssumption
    DEF TypeOK, HandInv, Thread, Sender, Mutex, At, Free, Goto,
        queueVars, ackVars, sendVars
<1>1. ASSUME NEW p \in Packet, TakePacket(p) PROVE TypeOK'
  BY <1>1, TableTypes DEF TakePacket
<1>2. CASE RequestRoute
  <2>1. Dst[hand[Tun]] \in Address
    BY <1>2 DEF RequestRoute
  <2>2. \/ UNCHANGED pendingRReplies
        \/ pendingRReplies' = [pendingRReplies EXCEPT ![Dst[hand[Tun]]] = now]
    BY <1>2, <2>1 DEF RequestRoute
  <2>3. pendingRReplies' \in [Address -> Nat \cup {Never}]
    BY <2>1, <2>2
  <2>4. requested' \subseteq Address
    BY <1>2, <2>1 DEF RequestRoute
  <2> QED
    BY <1>2, <2>3, <2>4 DEF RequestRoute
<1>3. CASE QueuePacket
  <2>1. hand[Tun] \in Packet /\ Dst[hand[Tun]] \in Address
    BY <1>3 DEF QueuePacket
  <2>2. packetsToSend' \in [Address -> Seq(Packet)]
    BY <1>3, <2>1 DEF QueuePacket
  <2> QED
    BY <1>3, <2>2 DEF QueuePacket
<1>4. ASSUME NEW t \in Sender, TakeNumber(t) PROVE TypeOK'
  <2>1. seq' \in 0 .. SeqModulus - 1
    BY <1>4, NextNumber DEF TakeNumber
  <2>2. number' \in [Sender -> Nat] /\ pc' \in [Thread -> {"idle", "request", "queue",
                    "number", "air", "register", "hop", "lock", "next", "sent", "scan", "acks"}]
    BY <1>4 DEF TakeNumber
  <2>3. /\ UNCHANGED owner /\ pc'[Cleaner] = pc[Cleaner]
        /\ t # Recv => pc'[Recv] = pc[Recv]
        /\ t = Recv => pc[Recv] = "number" /\ pc'[Recv] = "air"
    BY <1>4 DEF TakeNumber
  <2> QED
    BY <1>4, <2>1, <2>2, <2>3 DEF TakeNumber
<1>5. ASSUME NEW t \in Sender, Air(t) PROVE TypeOK'
  <2>1. [packet |-> hand[t], seq |-> number[t], by |-> t] \in [packet: Packet, seq: Nat, by: Sender]
    BY <1>5 DEF Air
  <2>2. aired' \subseteq [packet: Packet, seq: Nat, by: Sender]
    BY <1>5, <2>1 DEF Air
  <2>3. /\ pc' \in [Thread -> {"idle", "request", "queue", "number", "air", "register",
                              "hop", "lock", "next", "sent", "scan", "acks"}]
        /\ UNCHANGED owner /\ pc'[Cleaner] = pc[Cleaner]
        /\ t # Recv => pc'[Recv] = pc[Recv]
        /\ t = Recv => pc[Recv] = "air" /\ pc'[Recv] = "register"
    BY <1>5 DEF Air
  <2> QED
    BY <1>5, <2>2, <2>3 DEF Air
<1>6. ASSUME NEW t \in Sender, Register(t) PROVE TypeOK'
  <2>1. pendingAckSequences' \subseteq [at: Nat, id: Nat]
    BY <1>6 DEF Register, Watch
  <2>2. /\ pendingAcks' \subseteq Nat /\ registered' \subseteq [id: Nat, at: Nat]
        /\ hand' \in [Sender -> Packet \cup {Nobody}] /\ number' \in [Sender -> Nat]
    <3>1. number[t] \in Nat /\ now \in Nat /\ 0 \in Nat
      OBVIOUS
    <3>2. pendingAcks' \subseteq Nat
      BY <1>6, <3>1 DEF Register
    <3>3. registered' \subseteq [id: Nat, at: Nat]
      BY <1>6, <3>1 DEF Register
    <3>4. hand' \in [Sender -> Packet \cup {Nobody}]
      BY <1>6 DEF Register
    <3>5. number' \in [Sender -> Nat]
      BY <1>6, <3>1 DEF Register
    <3> QED
      BY <3>2, <3>3, <3>4, <3>5
  <2>3. pc' \in [Thread -> {"idle", "request", "queue", "number", "air", "register",
                            "hop", "lock", "next", "sent", "scan", "acks"}]
    BY <1>6 DEF Register
  <2>4. /\ UNCHANGED owner /\ pc'[Cleaner] = pc[Cleaner]
        /\ t # Recv => pc'[Recv] = pc[Recv]
        /\ t = Recv => pc[Recv] = "register" /\ pc'[Recv] = "sent"
    BY <1>6 DEF Register
  <2>5. UNCHANGED <<now, owner, routes, pendingRReplies, packetsToSend, scan, overtaken,
                    acked, falseNacks, seq, aired, replied, relay, requested, submitted>>
    BY <1>6 DEF Register
  <2> HIDE <1>6
  <2> QED
    BY <2>1, <2>2, <2>3, <2>4, <2>5
<1>7. ASSUME NEW d \in Address, NEW via \in Neighbour, ReceiveRReply(d, via) PROVE TypeOK'
  BY <1>7, TableTypes DEF ReceiveRReply
<1>8. CASE AddHopRoute
  <2>1. relay \in Address
    BY <1>8 DEF AddHopRoute
  <2>2. routes' \in Table
    BY <1>8, <2>1, TableTypes DEF AddHopRoute
  <2>3. pc[Recv] = "hop" /\ pc' = [pc EXCEPT ![Recv] = "lock"] /\ relay' = Nobody
    BY <1>8 DEF AddHopRoute
  <2>4. UNCHANGED <<now, owner, pendingRReplies, packetsToSend, scan, overtaken,
                    pendingAcks, pendingAckSequences, acked, registered, falseNacks,
                    seq, hand, number, aired, replied, requested, submitted>>
    BY <1>8 DEF AddHopRoute
  <2> HIDE <1>8
  <2> QED
    BY <2>2, <2>3, <2>4
<1>21. CASE LockPackets
  BY <1>21 DEF LockPackets
<1>9. CASE SendFront
  <2>1. Head(packetsToSend[replied]) \in Packet
    BY <1>9 DEF SendFront
  <2> QED
    BY <1>9, <2>1 DEF SendFront
<1>10. CASE PopFront
  <2>1. packetsToSend' \in [Address -> Seq(Packet)]
    BY <1>10 DEF PopFront, QueuesInv
  <2> QED
    BY <1>10, <2>1 DEF PopFront
<1>11. CASE FinishReply
  BY <1>11 DEF FinishReply
<1>12. ASSUME NEW n \in 0 .. SeqModulus - 1, ReceiveAck(n) PROVE TypeOK'
  <2>1. n \in Nat
    OBVIOUS
  <2> QED
    BY <1>12, <2>1 DEF ReceiveAck
<1>13. ASSUME NEW d \in Address, ReceiveNAck(d) PROVE TypeOK'
  BY <1>13, TableTypes DEF ReceiveNAck
<1>14. CASE LockReplies
  BY <1>14 DEF LockReplies
<1>15. ASSUME NEW d \in Address, KeepRequest(d) PROVE TypeOK'
  BY <1>15 DEF KeepRequest
<1>16. ASSUME NEW d \in Address, EraseExpired(d) PROVE TypeOK'
  <2>1. packetsToSend' \in [Address -> Seq(Packet)]
    BY <1>16 DEF EraseExpired
  <2>2. overtaken' \subseteq Address
    BY <1>16 DEF EraseExpired
  <2>3. pendingRReplies' \in [Address -> Nat \cup {Never}] /\ scan' \subseteq Address
    BY <1>16 DEF EraseExpired
  <2> QED
    BY <1>16, <2>1, <2>2, <2>3 DEF EraseExpired
<1>17. CASE UnlockReplies
  BY <1>17 DEF UnlockReplies
<1>18. CASE ReportLost
  BY <1>18 DEF ReportLost
<1>19. CASE Tick
  <2>1. now' \in Nat
    BY <1>19 DEF Tick
  <2> QED
    BY <1>19, <2>1 DEF Tick
<1>20. CASE UNCHANGED vars
  BY <1>20 DEF vars
<1> QED
  BY <1>1, <1>2, <1>3, <1>4, <1>5, <1>6, <1>7, <1>8, <1>9, <1>10, <1>11, <1>12, <1>13,
     <1>14, <1>15, <1>16, <1>17, <1>18, <1>19, <1>20, <1>21
  DEF Next, Send, Transmit, Reply, ClearOutdated

\* pktMut is free when WifiRecv is not inside receiveRReply's critical section.
LEMMA PktMutFree ==
  ASSUME TypeOK, HandInv, Free("pktMut")
  PROVE  pc[Recv] \in {"idle", "hop", "lock"}
BY NoValueAssumption DEF TypeOK, HandInv, Free, Thread, Sender

\* A sending thread holds a packet that was submitted.
LEMMA HandStep ==
  ASSUME TypeOK, HandInv, QueuesInv, [Next]_vars
  PROVE  HandInv'
<1> USE DEF TypeOK, HandInv, Thread, Sender, At, Goto, queueVars, ackVars, sendVars
<1>1. ASSUME NEW p \in Packet, TakePacket(p) PROVE HandInv'
  BY <1>1 DEF TakePacket
<1>2. CASE RequestRoute
  BY <1>2 DEF RequestRoute
<1>3. CASE QueuePacket
  BY <1>3 DEF QueuePacket
<1>4. ASSUME NEW t \in Sender, TakeNumber(t) PROVE HandInv'
  BY <1>4 DEF TakeNumber
<1>5. ASSUME NEW t \in Sender, Air(t) PROVE HandInv'
  BY <1>5 DEF Air
<1>6. ASSUME NEW t \in Sender, Register(t) PROVE HandInv'
  BY <1>6 DEF Register
<1>7. ASSUME NEW d \in Address, NEW via \in Neighbour, ReceiveRReply(d, via) PROVE HandInv'
  BY <1>7 DEF ReceiveRReply
<1>8. CASE AddHopRoute \/ LockPackets
  BY <1>8 DEF AddHopRoute, LockPackets
<1>9. CASE SendFront
  <2>1. Head(packetsToSend[replied]) \in submitted
    BY <1>9 DEF SendFront, QueuesInv
  <2> QED
    BY <1>9, <2>1 DEF SendFront
<1>10. CASE PopFront
  BY <1>10 DEF PopFront
<1>11. CASE FinishReply
  BY <1>11 DEF FinishReply
<1>12. ASSUME NEW n \in 0 .. SeqModulus - 1, ReceiveAck(n) PROVE HandInv'
  BY <1>12 DEF ReceiveAck
<1>13. ASSUME NEW d \in Address, ReceiveNAck(d) PROVE HandInv'
  BY <1>13 DEF ReceiveNAck
<1>14. CASE LockReplies
  BY <1>14 DEF LockReplies
<1>15. ASSUME NEW d \in Address, KeepRequest(d) PROVE HandInv'
  BY <1>15 DEF KeepRequest
<1>16. ASSUME NEW d \in Address, EraseExpired(d) PROVE HandInv'
  BY <1>16 DEF EraseExpired
<1>17. CASE UnlockReplies
  BY <1>17 DEF UnlockReplies
<1>18. CASE ReportLost
  BY <1>18 DEF ReportLost
<1>19. CASE Tick
  BY <1>19 DEF Tick
<1>20. CASE UNCHANGED vars
  BY <1>20 DEF vars
<1> QED
  BY <1>1, <1>2, <1>3, <1>4, <1>5, <1>6, <1>7, <1>8, <1>9, <1>10, <1>11, <1>12, <1>13,
     <1>14, <1>15, <1>16, <1>17, <1>18, <1>19, <1>20
  DEF Next, Send, Transmit, Reply, ClearOutdated

\* The two sending threads do not take the same packet.
LEMMA QueuesStep ==
  ASSUME TypeOK, HandInv, QueuesInv, [Next]_vars
  PROVE  QueuesInv'
<1> USE PacketAssumption
    DEF TypeOK, HandInv, QueuesInv, Thread, Sender, At, Goto, queueVars, ackVars, sendVars
<1>1. ASSUME NEW p \in Packet, TakePacket(p) PROVE QueuesInv'
  <2>1. /\ Dst[p] \in Address /\ p \notin submitted /\ submitted \subseteq submitted'
        /\ hand'[Tun] = p /\ UNCHANGED <<packetsToSend, replied>>
        /\ pc'[Recv] = pc[Recv] /\ hand'[Recv] = hand[Recv]
    BY <1>1 DEF TakePacket
  <2>2. packetsToSend[Dst[p]] # <<p>>
    <3> SUFFICES ASSUME packetsToSend[Dst[p]] = <<p>> PROVE FALSE
      OBVIOUS
    <3>0. packetsToSend[Dst[p]] # <<>>
      OBVIOUS
    <3>1. PICK q \in submitted : packetsToSend[Dst[p]] = <<q>>
      BY <2>1, <3>0 DEF QueuesInv
    <3>2. <<p>>[1] = p /\ <<q>>[1] = q
      OBVIOUS
    <3> QED
      BY <2>1, <3>1, <3>2
  <2>3. \A d \in Address : \/ packetsToSend'[d] = <<>>
                           \/ \E q \in submitted' : Dst[q] = d /\ packetsToSend'[d] = <<q>>
    BY <2>1
  <2> QED
    BY <2>1, <2>2, <2>3
<1>2. CASE RequestRoute
  BY <1>2 DEF RequestRoute
<1>3. CASE QueuePacket
  BY <1>3, PktMutFree DEF QueuePacket
<1>4. ASSUME NEW t \in Sender, TakeNumber(t) PROVE QueuesInv'
  BY <1>4 DEF TakeNumber
<1>5. ASSUME NEW t \in Sender, Air(t) PROVE QueuesInv'
  BY <1>5 DEF Air
<1>6. ASSUME NEW t \in Sender, Register(t) PROVE QueuesInv'
  <2>1. /\ UNCHANGED <<packetsToSend, replied, submitted>>
    BY <1>6 DEF Register
  <2>2. CASE t = Tun
    <3>1. pc'[Tun] = "idle" /\ pc'[Recv] = pc[Recv] /\ hand'[Recv] = hand[Recv]
      BY <1>6, <2>2 DEF Register
    <3> QED
      BY <2>1, <3>1
  <2>3. CASE t = Recv
    <3>1. /\ packetsToSend[replied] = <<hand[Recv]>> /\ pc'[Recv] = "sent"
          /\ pc'[Tun] = pc[Tun] /\ hand'[Tun] = hand[Tun]
      BY <1>6, <2>3 DEF Register
    <3> QED
      BY <2>1, <3>1
  <2> QED
    BY <2>2, <2>3
<1>7. ASSUME NEW d \in Address, NEW via \in Neighbour, ReceiveRReply(d, via) PROVE QueuesInv'
  BY <1>7 DEF ReceiveRReply
<1>8. CASE AddHopRoute \/ LockPackets
  BY <1>8 DEF AddHopRoute, LockPackets
<1>9. CASE SendFront
  BY <1>9 DEF SendFront
<1>10. CASE PopFront
  BY <1>10 DEF PopFront
<1>11. CASE FinishReply
  BY <1>11 DEF FinishReply
<1>12. ASSUME NEW n \in 0 .. SeqModulus - 1, ReceiveAck(n) PROVE QueuesInv'
  BY <1>12 DEF ReceiveAck
<1>13. ASSUME NEW d \in Address, ReceiveNAck(d) PROVE QueuesInv'
  BY <1>13 DEF ReceiveNAck
<1>14. CASE LockReplies
  BY <1>14 DEF LockReplies
<1>15. ASSUME NEW d \in Address, KeepRequest(d) PROVE QueuesInv'
  BY <1>15 DEF KeepRequest
<1>16. ASSUME NEW d \in Address, EraseExpired(d) PROVE QueuesInv'
  BY <1>16, PktMutFree DEF EraseExpired
<1>17. CASE UnlockReplies
  BY <1>17 DEF UnlockReplies
<1>18. CASE ReportLost
  BY <1>18 DEF ReportLost
<1>19. CASE Tick
  BY <1>19 DEF Tick
<1>20. CASE UNCHANGED vars
  BY <1>20 DEF vars
<1> QED
  BY <1>1, <1>2, <1>3, <1>4, <1>5, <1>6, <1>7, <1>8, <1>9, <1>10, <1>11, <1>12, <1>13,
     <1>14, <1>15, <1>16, <1>17, <1>18, <1>19, <1>20
  DEF Next, Send, Transmit, Reply, ClearOutdated

\* A queue holds a packet for its own destination.
LEMMA QueuedUnderDestination ==
  ASSUME QueuesInv, NEW d \in Address, NEW p, packetsToSend[d] = <<p>>
  PROVE  p \in submitted /\ Dst[p] = d
<1>1. packetsToSend[d] # <<>>
  OBVIOUS
<1>2. PICK q \in submitted : Dst[q] = d /\ packetsToSend[d] = <<q>>
  BY <1>1 DEF QueuesInv
<1>3. <<p>>[1] = p /\ <<q>>[1] = q
  OBVIOUS
<1> QED
  BY <1>2, <1>3

\* Tun2Wifi never holds the packet that WifiRecv is sending.
LEMMA HandsDiffer ==
  ASSUME HandInv, QueuesInv, pc[Tun] # "idle", pc[Recv] \in {"number", "air", "register"}
  PROVE  hand[Tun] # hand[Recv]
BY QueuedUnderDestination DEF HandInv, QueuesInv

\* A packet goes on the air once.
LEMMA AiredStep ==
  ASSUME TypeOK, HandInv, QueuesInv, AiredInv, [Next]_vars
  PROVE  AiredInv'
<1> USE PacketAssumption
    DEF TypeOK, HandInv, AiredInv, Thread, Sender, At, Goto, queueVars, ackVars, sendVars
<1>1. ASSUME NEW p \in Packet, TakePacket(p) PROVE AiredInv'
  BY <1>1 DEF TakePacket
<1>2. CASE RequestRoute
  BY <1>2 DEF RequestRoute
<1>3. CASE QueuePacket
  <2>1. /\ Dst[hand[Tun]] \in Address /\ pc[Tun] = "queue"
        /\ UNCHANGED <<aired, submitted, number, replied>>
        /\ pc'[Tun] = "idle" /\ pc'[Recv] = pc[Recv] /\ hand'[Recv] = hand[Recv]
    BY <1>3 DEF QueuePacket
  <2>2. \A d \in Address : \/ packetsToSend'[d] = packetsToSend[d]
                           \/ packetsToSend'[d] = <<hand[Tun]>>
    BY <1>3, <2>1 DEF QueuePacket
  <2>3. ASSUME NEW d \in Address, NEW a \in aired, packetsToSend'[d] = <<a.packet>>
        PROVE  packetsToSend[d] = <<a.packet>>
    <3>1. <<a.packet>>[1] = a.packet /\ <<hand[Tun]>>[1] = hand[Tun]
      OBVIOUS
    <3> QED
      BY <2>1, <2>2, <2>3, <3>1
  <2>4. pc[Recv] # "sent"
    BY <1>3, PktMutFree DEF QueuePacket
  <2> QED
    BY <2>1, <2>3, <2>4
<1>4. ASSUME NEW t \in Sender, TakeNumber(t) PROVE AiredInv'
  BY <1>4 DEF TakeNumber
<1>5. ASSUME NEW t \in Sender, Air(t) PROVE AiredInv'
  <2> DEFINE new == [packet |-> hand[t], seq |-> number[t], by |-> t]
  <2>1. /\ aired' = aired \cup {new} /\ pc[t] = "air" /\ pc'[t] = "register"
        /\ UNCHANGED <<hand, number, packetsToSend, replied, submitted>>
        /\ \A u \in Sender : u # t => pc'[u] = pc[u]
    BY <1>5 DEF Air
  <2>2. new.packet = hand[t] /\ hand[t] \in submitted
    BY <2>1
  <2>3. t = Recv /\ pc[Tun] # "idle" => new.packet # hand[Tun]
    BY <2>1, <2>2, HandsDiffer
  <2>4. ASSUME NEW d \in Address, packetsToSend[d] = <<new.packet>>
        PROVE  replied = d /\ t = Recv
    BY <2>1, <2>2, <2>4, QueuedUnderDestination DEF QueuesInv
  <2> HIDE DEF new
  <2>5. (\A a \in aired : a.packet \in submitted)'
    BY <2>1, <2>2
  <2>6. (\A u \in Sender : pc[u] = "register" =>
           [packet |-> hand[u], seq |-> number[u], by |-> u] \in aired)'
    BY <2>1 DEF new
  <2>7. (pc[Tun] \notin {"idle", "register"} => \A a \in aired : a.packet # hand[Tun])'
    BY <2>1, <2>3
  <2>8. (\A d \in Address, a \in aired :
           packetsToSend[d] = <<a.packet>> => replied = d /\ pc[Recv] \in {"register", "sent"})'
    BY <2>1, <2>4
  <2>9. (pc[Recv] = "sent" => \E a \in aired : packetsToSend[replied] = <<a.packet>>)'
    BY <2>1
  <2> QED
    BY <2>5, <2>6, <2>7, <2>8, <2>9
<1>6. ASSUME NEW t \in Sender, Register(t) PROVE AiredInv'
  <2>1. /\ UNCHANGED <<aired, packetsToSend, replied, submitted>>
        /\ \A u \in Sender : u # t => UNCHANGED <<pc[u], hand[u], number[u]>>
        /\ pc[t] = "register" /\ pc'[t] = IF t = Tun THEN "idle" ELSE "sent"
    BY <1>6 DEF Register
  <2>2. (pc[Recv] = "sent" => \E a \in aired : packetsToSend[replied] = <<a.packet>>)'
    <3> DEFINE mine == [packet |-> hand[Recv], seq |-> number[Recv], by |-> Recv]
    <3>1. mine.packet = hand[Recv] /\ (pc[Recv] = "register" => mine \in aired)
      OBVIOUS
    <3> HIDE DEF mine
    <3>2. pc[Recv] = "register" => packetsToSend[replied] = <<hand[Recv]>>
      BY DEF QueuesInv
    <3> QED
      BY <2>1, <3>1, <3>2
  <2> QED
    BY <2>1, <2>2
<1>7. ASSUME NEW d \in Address, NEW via \in Neighbour, ReceiveRReply(d, via) PROVE AiredInv'
  BY <1>7 DEF ReceiveRReply
<1>8. CASE AddHopRoute \/ LockPackets
  BY <1>8 DEF AddHopRoute, LockPackets
<1>9. CASE SendFront
  BY <1>9 DEF SendFront
<1>10. CASE PopFront
  <2>1. PICK p \in submitted : packetsToSend[replied] = <<p>>
    BY <1>10 DEF PopFront, QueuesInv
  <2>2. packetsToSend'[replied] = <<>>
    BY <1>10, <2>1 DEF PopFront
  <2>3. \A d \in Address \ {replied} : packetsToSend'[d] = packetsToSend[d]
    BY <1>10 DEF PopFront
  <2>4. \A x : <<x>> # <<>>
    OBVIOUS
  <2>5. /\ UNCHANGED <<aired, hand, number, replied, submitted>>
        /\ pc[Recv] = "sent" /\ pc' = [pc EXCEPT ![Recv] = "next"]
    BY <1>10 DEF PopFront
  <2> HIDE <1>10
  <2>6. (\A d \in Address, a \in aired :
           packetsToSend[d] = <<a.packet>> => replied = d /\ pc[Recv] \in {"register", "sent"})'
    <3> SUFFICES ASSUME NEW d \in Address, NEW a \in aired, packetsToSend'[d] = <<a.packet>>
                 PROVE  FALSE
      BY <2>5
    <3>1. packetsToSend'[d] # <<>>
      BY <2>4
    <3>2. d # replied
      BY <2>2, <3>1
    <3>3. packetsToSend[d] = <<a.packet>>
      BY <2>3, <3>2
    <3> QED
      BY <3>2, <3>3
  <2>7. pc'[Recv] = "next" /\ \A t \in Thread \ {Recv} : pc'[t] = pc[t]
    BY <2>5
  <2> QED
    BY <2>5, <2>6, <2>7
<1>11. CASE FinishReply
  BY <1>11 DEF FinishReply
<1>12. ASSUME NEW n \in 0 .. SeqModulus - 1, ReceiveAck(n) PROVE AiredInv'
  BY <1>12 DEF ReceiveAck
<1>13. ASSUME NEW d \in Address, ReceiveNAck(d) PROVE AiredInv'
  BY <1>13 DEF ReceiveNAck
<1>14. CASE LockReplies
  BY <1>14 DEF LockReplies
<1>15. ASSUME NEW d \in Address, KeepRequest(d) PROVE AiredInv'
  BY <1>15 DEF KeepRequest
<1>16. ASSUME NEW d \in Address, EraseExpired(d) PROVE AiredInv'
  <2>1. pc[Recv] # "sent"
    BY <1>16, PktMutFree DEF EraseExpired
  <2>2. \A e \in Address, a \in aired :
          packetsToSend'[e] = <<a.packet>> => packetsToSend[e] = <<a.packet>>
    BY <1>16 DEF EraseExpired
  <2> QED
    BY <1>16, <2>1, <2>2 DEF EraseExpired
<1>17. CASE UnlockReplies
  BY <1>17 DEF UnlockReplies
<1>18. CASE ReportLost
  BY <1>18 DEF ReportLost
<1>19. CASE Tick
  BY <1>19 DEF Tick
<1>20. CASE UNCHANGED vars
  BY <1>20 DEF vars
<1> QED
  BY <1>1, <1>2, <1>3, <1>4, <1>5, <1>6, <1>7, <1>8, <1>9, <1>10, <1>11, <1>12, <1>13,
     <1>14, <1>15, <1>16, <1>17, <1>18, <1>19, <1>20
  DEF Next, Send, Transmit, Reply, ClearOutdated

\* There are no more numbers given out than packets, so the counter has one
\* more to give: it does not wrap.
LEMMA NumberedCardinality ==
  ASSUME TypeOK, HandInv
  PROVE  /\ Numbered \subseteq Packet
         /\ IsFiniteSet(Numbered)
         /\ Cardinality(Numbered) \in Nat
         /\ Cardinality(Numbered) <= Cardinality(Packet)
<1>1. Numbered \subseteq Packet
  BY DEF Numbered, TypeOK, HandInv, Thread, Sender
<1> QED
  BY <1>1, SeqAssumption, FS_Subset, FS_CardinalityType

\* What a thread has before the broadcast has never been broadcast.
LEMMA HandNotAired ==
  ASSUME HandInv, QueuesInv, AiredInv,
         NEW t \in Sender, pc[t] \in {"number", "air"}, NEW a \in aired
  PROVE  a.packet # hand[t]
<1>1. CASE t = Tun
  BY <1>1 DEF AiredInv
<1>2. CASE t = Recv
  <2>1. packetsToSend[replied] = <<hand[Recv]>> /\ replied \in Address
    BY <1>2 DEF QueuesInv, HandInv
  <2> QED
    BY <1>2, <2>1 DEF AiredInv
<1> QED
  BY <1>1, <1>2 DEF Sender

\* The other steps touch neither the counter nor the numbers in use.
LEMMA NumbersKept ==
  ASSUME NumbersInv, UNCHANGED <<aired, seq>>,
         \A t \in Sender : /\ pc'[t] = "air" <=> pc[t] = "air"
                           /\ pc[t] = "air" => UNCHANGED <<hand[t], number[t]>>
  PROVE  NumbersInv'
<1>1. Numbered' = Numbered
  BY DEF Numbered
<1> QED
  BY <1>1 DEF NumbersInv, OneNumberOnePacket, Sender

\* A thread that has taken a number holds it alone.
LEMMA NumbersStep ==
  ASSUME TypeOK, HandInv, QueuesInv, AiredInv, NumbersInv, [Next]_vars
  PROVE  NumbersInv'
<1> USE DEF Goto, At, queueVars, ackVars, sendVars
<1> DEFINE Kept == /\ UNCHANGED <<aired, seq>>
                   /\ \A t \in Sender : /\ pc'[t] = "air" <=> pc[t] = "air"
                                        /\ pc[t] = "air" => UNCHANGED <<hand[t], number[t]>>
<1>1. /\ pc = [t \in Thread |-> pc[t]] /\ hand = [t \in Sender |-> hand[t]]
      /\ number = [t \in Sender |-> number[t]] /\ number \in [Sender -> Nat]
      /\ Thread = Sender \cup {Cleaner} /\ Sender = {Tun, Recv}
  BY DEF TypeOK, Thread, Sender
<1>2. ASSUME NEW t \in Sender, TakeNumber(t) PROVE NumbersInv'
  <2>1. /\ pc[t] = "number" /\ pc'[t] = "air" /\ number'[t] = seq
        /\ \A u \in Sender : u # t => pc'[u] = pc[u] /\ number'[u] = number[u]
        /\ UNCHANGED <<hand, aired>>
    BY <1>1, <1>2 DEF TakeNumber
  <2>2. hand[t] \notin Numbered
    BY <1>1, <2>1, HandNotAired, HandsDiffer DEF Numbered
  <2>3. Numbered' = Numbered \cup {hand[t]}
    BY <2>1 DEF Numbered
  <2>4. Cardinality(Numbered') = seq + 1
    BY <2>2, <2>3, NumberedCardinality, FS_AddElement DEF NumbersInv
  <2>5. hand[t] \in Packet
    BY <1>1, <2>1 DEF TypeOK, HandInv
  <2>6. Cardinality(Numbered') <= Cardinality(Packet)
    BY <2>3, <2>5, NumberedCardinality, SeqAssumption, FS_Subset
  <2>7. seq' = seq + 1
    <3>1. Cardinality(Packet) \in Nat
      BY SeqAssumption, FS_CardinalityType
    <3> QED
      BY <1>2, <2>4, <2>6, <3>1, SeqAssumption, NextNumber DEF TakeNumber, TypeOK
  <2>8. seq \in Nat /\ \A a \in aired : a.seq \in Nat
    BY SeqAssumption DEF TypeOK
  <2>9. (\A a \in aired : a.seq < seq)'
    BY <2>1, <2>7, <2>8 DEF NumbersInv
  <2>10. (\A u \in Sender : pc[u] = "air" =>
            number[u] < seq /\ \A a \in aired : a.seq # number[u])'
    BY <1>1, <2>1, <2>7, <2>8 DEF NumbersInv
  <2>11. (pc[Tun] = "air" /\ pc[Recv] = "air" => number[Tun] # number[Recv])'
    BY <1>1, <2>1, <2>8 DEF NumbersInv
  <2> QED
    BY <2>1, <2>4, <2>7, <2>9, <2>10, <2>11 DEF NumbersInv, OneNumberOnePacket
<1>3. ASSUME NEW t \in Sender, Air(t) PROVE NumbersInv'
  <2> DEFINE new == [packet |-> hand[t], seq |-> number[t], by |-> t]
  <2>1. /\ aired' = aired \cup {new} /\ pc[t] = "air" /\ pc'[t] = "register"
        /\ UNCHANGED <<seq, hand, number>>
        /\ \A u \in Sender : u # t => pc'[u] = pc[u]
    BY <1>1, <1>3 DEF Air
  <2>2. new.packet = hand[t] /\ new.seq = number[t]
    OBVIOUS
  <2> HIDE DEF new
  <2>3. Numbered' = Numbered
    BY <2>1, <2>2 DEF Numbered
  <2>4. \A a \in aired : a.packet # new.packet /\ a.seq # new.seq
    BY <2>1, <2>2, HandNotAired DEF NumbersInv
  <2>5. OneNumberOnePacket'
    BY <2>1, <2>4 DEF NumbersInv, OneNumberOnePacket
  <2>6. (\A a \in aired : a.seq < seq)'
    BY <2>1, <2>2 DEF NumbersInv
  <2>7. (\A u \in Sender : pc[u] = "air" =>
           number[u] < seq /\ \A a \in aired : a.seq # number[u])'
    BY <1>1, <2>1, <2>2 DEF NumbersInv
  <2> QED
    BY <1>1, <2>1, <2>3, <2>5, <2>6, <2>7 DEF NumbersInv
<1>4. ASSUME NEW p \in Packet, TakePacket(p) PROVE Kept
  BY <1>1, <1>4 DEF TakePacket
<1>5. ASSUME RequestRoute PROVE Kept
  BY <1>1, <1>5 DEF RequestRoute
<1>6. ASSUME QueuePacket PROVE Kept
  BY <1>1, <1>6 DEF QueuePacket
<1>7. ASSUME NEW t \in Sender, Register(t) PROVE Kept
  BY <1>1, <1>7 DEF Register
<1>8. ASSUME NEW d \in Address, NEW via \in Neighbour, ReceiveRReply(d, via) PROVE Kept
  BY <1>1, <1>8 DEF ReceiveRReply
<1>9. ASSUME AddHopRoute \/ LockPackets \/ SendFront \/ PopFront \/ FinishReply PROVE Kept
  BY <1>1, <1>9 DEF AddHopRoute, LockPackets, SendFront, PopFront, FinishReply
<1>10. ASSUME NEW n \in 0 .. SeqModulus - 1, ReceiveAck(n) PROVE Kept
  BY <1>10 DEF ReceiveAck
<1>11. ASSUME NEW d \in Address, ReceiveNAck(d) \/ KeepRequest(d) \/ EraseExpired(d) PROVE Kept
  BY <1>11 DEF ReceiveNAck, KeepRequest, EraseExpired
<1>12. ASSUME LockReplies \/ UnlockReplies \/ ReportLost \/ Tick \/ UNCHANGED vars PROVE Kept
  BY <1>1, <1>12 DEF LockReplies, UnlockReplies, ReportLost, Tick, vars
<1> QED
  <2>1. Kept => NumbersInv'
    BY NumbersKept
  <2> HIDE DEF Kept
  <2> QED
    BY <1>1, <1>2, <1>3, <1>4, <1>5, <1>6, <1>7, <1>8, <1>9, <1>10, <1>11, <1>12, <2>1
    DEF Next, Send, Transmit, Reply, ClearOutdated

\* Of two packets on the air, one by each thread, the numbers differ.
LEMMA NumbersOfTwoThreads ==
  ASSUME NumbersInv, NEW a \in aired, NEW b \in aired, a.by # b.by
  PROVE  a.seq # b.seq
BY DEF NumbersInv, OneNumberOnePacket

\* What the three steps that broadcast, record and answer do not touch.
LEMMA AcksKept ==
  ASSUME AcksInv, UnwatchedSharesSecond, UNCHANGED <<aired, ackVars>>,
         \A t \in Sender : /\ pc'[t] = "register" => pc[t] = "register"
                           /\ pc[t] = "register" => number'[t] = number[t]
  PROVE  AcksInv' /\ UnwatchedSharesSecond'
BY DEF AcksInv, UnwatchedSharesSecond, ackVars, Sender

\* WifiRecv records the NACK before it comes to read the ACK; of the packets of
\* one second the first is watched.
LEMMA AcksStep ==
  ASSUME TypeOK, HandInv, QueuesInv, AiredInv, NumbersInv, AcksInv, UnwatchedSharesSecond,
         [Next]_vars
  PROVE  AcksInv' /\ UnwatchedSharesSecond'
<1> USE DEF Goto, At, queueVars, sendVars
<1> DEFINE Kept == /\ UNCHANGED <<aired, ackVars>>
                   /\ \A t \in Sender : /\ pc'[t] = "register" => pc[t] = "register"
                                        /\ pc[t] = "register" => number'[t] = number[t]
<1>1. /\ pc = [t \in Thread |-> pc[t]] /\ hand = [t \in Sender |-> hand[t]]
      /\ number = [t \in Sender |-> number[t]]
      /\ Thread = Sender \cup {Cleaner} /\ Sender = {Tun, Recv}
  BY DEF TypeOK, Thread, Sender
<1>2. ASSUME NEW t \in Sender, Air(t) PROVE AcksInv' /\ UnwatchedSharesSecond'
  <2> DEFINE new == [packet |-> hand[t], seq |-> number[t], by |-> t]
  <2>1. /\ aired' = aired \cup {new} /\ pc[t] = "air" /\ pc'[t] = "register"
        /\ UNCHANGED <<number, ackVars>>
        /\ \A u \in Sender : u # t => pc'[u] = pc[u]
    BY <1>1, <1>2 DEF Air
  <2>2. new.seq = number[t]
    OBVIOUS
  <2> HIDE DEF new
  <2>3. \A a \in aired : a.seq # number[t]
    BY <2>1 DEF NumbersInv
  <2>4. number[t] \notin acked /\ \A r \in registered : r.id # number[t]
    BY <2>3 DEF AcksInv
  <2>5. AcksInv'
    BY <1>1, <2>1, <2>2, <2>4 DEF AcksInv, ackVars
  <2> QED
    BY <2>1, <2>5 DEF UnwatchedSharesSecond, ackVars
<1>3. ASSUME NEW t \in Sender, Register(t) PROVE AcksInv' /\ UnwatchedSharesSecond'
  <2> DEFINE mine == [packet |-> hand[t], seq |-> number[t], by |-> t]
             watch == [at |-> now, id |-> number[t]]
             nack == [id |-> number[t], at |-> now]
  <2>1. /\ pendingAcks' = pendingAcks \cup {number[t]}
        /\ pendingAckSequences' = Watch(number[t])
        /\ registered' = registered \cup {nack}
        /\ UNCHANGED <<aired, acked, falseNacks>>
        /\ pc[t] = "register" /\ pc'[t] # "register"
        /\ \A u \in Sender : u # t => pc'[u] = pc[u] /\ number'[u] = number[u]
    BY <1>1, <1>3 DEF Register
  <2>2. mine \in aired /\ mine.seq = number[t] /\ mine.by = t
    BY <2>1 DEF AiredInv
  <2>3. \A r \in registered : r.id # number[t]
    BY <2>1 DEF AcksInv
  <2>4. ASSUME NEW u \in Sender, u # t, pc[u] = "register" PROVE number[u] # number[t]
    <3>1. [packet |-> hand[u], seq |-> number[u], by |-> u] \in aired
      BY <2>4 DEF AiredInv
    <3> QED
      BY <2>2, <2>4, <3>1, NumbersOfTwoThreads
  <2>5. ASSUME NEW a \in aired, a.by = Recv, a.seq \in acked PROVE a.seq # number[t]
    BY <1>1, <2>1, <2>2, <2>5, NumbersOfTwoThreads DEF AcksInv
  <2>6. nack.id = number[t] /\ nack.at = now /\ watch.id = number[t] /\ watch.at = now
        /\ [id |-> watch.id, at |-> watch.at] = nack
    OBVIOUS
  <2>7. pendingAckSequences' = pendingAckSequences \cup {watch}
        \/ /\ pendingAckSequences' = pendingAckSequences
           /\ \E s \in pendingAckSequences : s.at = now
    BY <2>1 DEF Watch
  <2> HIDE DEF mine, watch, nack
  <2>8. AcksInv'
    <3>1. (acked \subseteq {a.seq : a \in aired}
           /\ {r.id : r \in registered} \subseteq {a.seq : a \in aired})'
      BY <2>1, <2>2, <2>6 DEF AcksInv
    <3>2. (\A u \in Sender : pc[u] = "register" => \A r \in registered : r.id # number[u])'
      BY <2>1, <2>4, <2>6 DEF AcksInv
    <3>3. (pc[Recv] = "register" => number[Recv] \notin acked)'
      BY <1>1, <2>1 DEF AcksInv
    <3>4. (\A a \in aired :
             a.by = Recv /\ a.seq \in acked => a.seq \notin pendingAcks \cup falseNacks)'
      BY <2>1, <2>5 DEF AcksInv
    <3>5. (\A s \in pendingAckSequences : [id |-> s.id, at |-> s.at] \in registered)'
      BY <2>1, <2>6, <2>7 DEF AcksInv
    <3> QED
      BY <3>1, <3>2, <3>3, <3>4, <3>5 DEF AcksInv
  <2>9. UnwatchedSharesSecond'
    <3>1. ASSUME NEW r \in registered
          PROVE  \/ r.id \notin pendingAcks'
                 \/ \E s \in pendingAckSequences' : s.id = r.id
                 \/ \E q \in registered' : q.id # r.id /\ q.at = r.at
      BY <2>1, <2>3, <2>7 DEF UnwatchedSharesSecond
    <3>2. \/ \E s \in pendingAckSequences' : s.id = nack.id
          \/ \E q \in registered' : q.id # nack.id /\ q.at = nack.at
      <4>1. CASE pendingAckSequences' = pendingAckSequences \cup {watch}
        BY <4>1, <2>6
      <4>2. ASSUME NEW s \in pendingAckSequences, s.at = now
            PROVE  \E q \in registered' : q.id # nack.id /\ q.at = nack.at
        <5> DEFINE q == [id |-> s.id, at |-> s.at]
        <5>1. q \in registered /\ q.id = s.id /\ q.at = s.at
          BY DEF AcksInv
        <5> HIDE DEF q
        <5> QED
          BY <5>1, <4>2, <2>1, <2>3, <2>6
      <4> QED
        BY <4>1, <4>2, <2>7
    <3> QED
      BY <2>1, <3>1, <3>2 DEF UnwatchedSharesSecond
  <2> QED
    BY <2>8, <2>9
<1>4. ASSUME NEW n \in 0 .. SeqModulus - 1, ReceiveAck(n)
      PROVE  AcksInv' /\ UnwatchedSharesSecond'
  <2>1. /\ pc[Recv] = "idle" /\ pendingAcks' = pendingAcks \ {n} /\ acked' = acked \cup {n}
        /\ \E a \in aired : a.seq = n
        /\ UNCHANGED <<pc, number, aired, pendingAckSequences, registered, falseNacks>>
    BY <1>4 DEF ReceiveAck
  <2>2. ASSUME NEW a \in aired, a.by = Recv, a.seq \in acked'
        PROVE  a.seq \notin pendingAcks' \cup falseNacks'
    BY <2>1, <2>2 DEF AcksInv, TypeOK
  <2>3. AcksInv'
    BY <2>1, <2>2 DEF AcksInv
  <2> QED
    BY <2>1, <2>3 DEF UnwatchedSharesSecond
<1>5. ASSUME ReportLost PROVE AcksInv' /\ UnwatchedSharesSecond'
  <2> DEFINE late == {s \in pendingAckSequences : now > s.at + AckDelay}
             lost == {n \in pendingAcks : \E s \in late : s.id = n}
  <2>1. /\ pendingAcks' = pendingAcks \ lost
        /\ pendingAckSequences' = pendingAckSequences \ late
        /\ falseNacks' = falseNacks \cup (lost \cap acked)
        /\ UNCHANGED <<aired, acked, registered, number>>
        /\ \A u \in Sender : pc'[u] = pc[u]
    BY <1>1, <1>5 DEF ReportLost
  <2>2. lost \subseteq pendingAcks /\ \A s \in late : s.id \in pendingAcks => s.id \in lost
    OBVIOUS
  <2> HIDE DEF late, lost
  <2>3. AcksInv'
    BY <1>1, <2>1, <2>2 DEF AcksInv
  <2> QED
    BY <2>1, <2>2, <2>3 DEF UnwatchedSharesSecond
<1>6. ASSUME NEW t \in Sender, TakeNumber(t) PROVE Kept
  BY <1>1, <1>6 DEF TakeNumber
<1>7. ASSUME NEW p \in Packet, TakePacket(p) PROVE Kept
  BY <1>1, <1>7 DEF TakePacket
<1>8. ASSUME RequestRoute \/ QueuePacket PROVE Kept
  BY <1>1, <1>8 DEF RequestRoute, QueuePacket
<1>9. ASSUME NEW d \in Address, NEW via \in Neighbour, ReceiveRReply(d, via) PROVE Kept
  BY <1>1, <1>9 DEF ReceiveRReply
<1>10. ASSUME AddHopRoute \/ LockPackets \/ SendFront \/ PopFront \/ FinishReply PROVE Kept
  BY <1>1, <1>10 DEF AddHopRoute, LockPackets, SendFront, PopFront, FinishReply
<1>11. ASSUME NEW d \in Address, ReceiveNAck(d) \/ KeepRequest(d) \/ EraseExpired(d) PROVE Kept
  BY <1>11 DEF ReceiveNAck, KeepRequest, EraseExpired
<1>12. ASSUME LockReplies \/ UnlockReplies \/ Tick \/ UNCHANGED vars PROVE Kept
  BY <1>1, <1>12 DEF LockReplies, UnlockReplies, Tick, vars
<1> QED
  <2>1. Kept => AcksInv' /\ UnwatchedSharesSecond'
    BY AcksKept
  <2> HIDE DEF Kept
  <2> QED
    BY <1>1, <1>2, <1>3, <1>4, <1>5, <1>6, <1>7, <1>8, <1>9, <1>10, <1>11, <1>12, <2>1
    DEF Next, Send, Transmit, Reply, ClearOutdated

\* The steps that touch no queue, no request and not where Tun2Wifi stands.
LEMMA RequestsKept ==
  ASSUME RequestsInv, UNCHANGED <<packetsToSend, pendingRReplies, overtaken>>,
         pc'[Tun] = "queue" => pc[Tun] = "queue" /\ hand'[Tun] = hand[Tun]
  PROVE  RequestsInv'
BY DEF RequestsInv, WaitingIsWatched

\* Tun2Wifi queues a packet with a request, unless the cleaner has come between;
\* the cleaner forgets a request with its packets.
LEMMA RequestsStep ==
  ASSUME TypeOK, HandInv, QueuesInv, RequestsInv, [Next]_vars
  PROVE  RequestsInv'
<1> USE DEF Goto, At
<1> DEFINE Kept == /\ UNCHANGED <<packetsToSend, pendingRReplies, overtaken>>
                   /\ pc'[Tun] = "queue" => pc[Tun] = "queue" /\ hand'[Tun] = hand[Tun]
<1>1. /\ pc = [t \in Thread |-> pc[t]] /\ hand = [t \in Sender |-> hand[t]]
      /\ Thread = Sender \cup {Cleaner} /\ Sender = {Tun, Recv}
      /\ pendingRReplies = [d \in Address |-> pendingRReplies[d]]
      /\ packetsToSend = [d \in Address |-> packetsToSend[d]]
  BY DEF TypeOK, Thread, Sender
<1>2. pc[Tun] # "idle" => Dst[hand[Tun]] \in Address
  BY PacketAssumption DEF TypeOK, HandInv
<1>3. CASE RequestRoute
  <2> DEFINE d == Dst[hand[Tun]]
  <2>1. /\ pc[Tun] = "request" /\ d \in Address /\ now # Never
        /\ UNCHANGED <<packetsToSend, overtaken, hand>>
    BY <1>2, <1>3, NoValueAssumption DEF RequestRoute, sendVars, TypeOK
  <2>2. pendingRReplies'[d] # Never
        /\ \A e \in Address : pendingRReplies[e] # Never => pendingRReplies'[e] # Never
    BY <1>1, <1>3, <2>1 DEF RequestRoute, RequestDue
  <2> QED
    BY <2>1, <2>2 DEF RequestsInv, WaitingIsWatched
<1>4. CASE QueuePacket
  <2> DEFINE d == Dst[hand[Tun]]
  <2>1. /\ pc[Tun] = "queue" /\ pc'[Tun] = "idle" /\ d \in Address
        /\ UNCHANGED <<pendingRReplies, overtaken>>
    BY <1>1, <1>2, <1>4 DEF QueuePacket
  <2>2. \A e \in Address : e # d => packetsToSend'[e] = packetsToSend[e]
    BY <1>1, <1>4 DEF QueuePacket
  <2> QED
    BY <2>1, <2>2 DEF RequestsInv, WaitingIsWatched
<1>5. CASE PopFront
  <2>1. /\ replied \in Address /\ packetsToSend[replied] # <<>>
        /\ packetsToSend' = [packetsToSend EXCEPT ![replied] = Tail(@)]
        /\ UNCHANGED <<pendingRReplies, overtaken, hand>> /\ pc'[Tun] = pc[Tun]
    BY <1>1, <1>5 DEF PopFront, sendVars, HandInv, QueuesInv
  <2>2. \A e \in Address : packetsToSend'[e] # <<>> => packetsToSend[e] # <<>>
    BY <1>1, <2>1
  <2> QED
    BY <2>1, <2>2 DEF RequestsInv, WaitingIsWatched
<1>6. ASSUME NEW d \in Address, EraseExpired(d) PROVE RequestsInv'
  <2>1. /\ packetsToSend'[d] = <<>> /\ UNCHANGED <<pc, hand>> /\ overtaken \subseteq overtaken'
        /\ \A e \in Address : e # d => /\ packetsToSend'[e] = packetsToSend[e]
                                      /\ pendingRReplies'[e] = pendingRReplies[e]
    BY <1>1, <1>6 DEF EraseExpired, sendVars
  <2>2. pc[Tun] = "queue" /\ Dst[hand[Tun]] = d => d \in overtaken'
    BY <1>6 DEF EraseExpired, BetweenLocks
  <2> QED
    BY <1>2, <2>1, <2>2 DEF RequestsInv, WaitingIsWatched
<1>7. ASSUME NEW p \in Packet, TakePacket(p) PROVE Kept
  BY <1>1, <1>7 DEF TakePacket, queueVars
<1>8. ASSUME NEW t \in Sender, TakeNumber(t) \/ Air(t) \/ Register(t) PROVE Kept
  BY <1>1, <1>8 DEF TakeNumber, Air, Register, queueVars
<1>9. ASSUME NEW d \in Address, NEW via \in Neighbour, ReceiveRReply(d, via) PROVE Kept
  BY <1>1, <1>9 DEF ReceiveRReply, queueVars, sendVars
<1>10. ASSUME AddHopRoute \/ LockPackets \/ SendFront \/ FinishReply PROVE Kept
  BY <1>1, <1>10 DEF AddHopRoute, LockPackets, SendFront, FinishReply, queueVars, sendVars
<1>11. ASSUME NEW n \in 0 .. SeqModulus - 1, ReceiveAck(n) PROVE Kept
  BY <1>11 DEF ReceiveAck, queueVars, sendVars
<1>12. ASSUME NEW d \in Address, ReceiveNAck(d) \/ KeepRequest(d) PROVE Kept
  BY <1>12 DEF ReceiveNAck, KeepRequest, queueVars, sendVars
<1>13. ASSUME LockReplies \/ UnlockReplies \/ ReportLost \/ Tick \/ UNCHANGED vars PROVE Kept
  BY <1>1, <1>13 DEF LockReplies, UnlockReplies, ReportLost, Tick, vars, queueVars, sendVars
<1> QED
  <2>1. Kept => RequestsInv'
    BY RequestsKept
  <2> HIDE DEF Kept
  <2> QED
    BY <1>3, <1>4, <1>5, <1>6, <1>7, <1>8, <1>9, <1>10, <1>11, <1>12, <1>13, <2>1
    DEF Next, Send, Transmit, Reply, ClearOutdated, Sender
-----------------------------------------------------------------------------
\* WifiInv is an invariant: it holds at the start and every step keeps it.
THEOREM WifiInvariant == Spec => []WifiInv
<1>1. WifiInv /\ [Next]_vars => WifiInv'
  BY TypeStep, HandStep, QueuesStep, AiredStep, NumbersStep, AcksStep,
     RequestsStep DEF WifiInv
<1> QED
  BY WifiInvInit, <1>1, PTL DEF Spec

\* The three threads keep the types, a mutex held from step to step is held by
\* the thread that stands in its section, and no seq leaves its 32 bits.
THEOREM WifiTypeCorrect == Spec => []TypeOK
<1>1. WifiInv => TypeOK
  BY DEF WifiInv
<1> QED
  BY <1>1, WifiInvariant, PTL

\* However Tun2Wifi and WifiRecv interleave, a number names one packet and a
\* packet is broadcast once (atomic_inc32, and the front of the queue is
\* popped in the critical section that sends it).
THEOREM NumbersNamePackets == Spec => []OneNumberOnePacket
<1>1. WifiInv => OneNumberOnePacket
  BY DEF WifiInv, NumbersInv
<1> QED
  BY <1>1, WifiInvariant, PTL

\* No NACK is reported for a packet that WifiRecv sent and whose ACK it has
\* read: the thread records its NACK before it reads the next datagram.
THEOREM RelayedNackMeansNoAck == Spec => []NackMeansNoAck
<1>1. WifiInv => NackMeansNoAck
  BY DEF WifiInv, TypeOK, AcksInv, NackMeansNoAck
<1> QED
  BY <1>1, WifiInvariant, PTL

\* A NACK that is recorded and not watched is one of several recorded in the
\* same second: the first of a second always has its entry in
\* pendingAckSequences, until clearOutdatedPackets reports it.
THEOREM FirstOfSecondIsWatched == Spec => []UnwatchedSharesSecond
<1>1. WifiInv => UnwatchedSharesSecond
  BY DEF WifiInv
<1> QED
  BY <1>1, WifiInvariant, PTL


\* Whatever comes between the locks of send, a packet waits with the time of a
\* request that ends the waiting, unless the cleaner has just forgotten it.
THEOREM WaitersAreWatched == Spec => []WaitingIsWatched
<1>1. WifiInv => WaitingIsWatched
  BY DEF WifiInv, RequestsInv
<1> QED
  BY <1>1, WifiInvariant, PTL
-----------------------------------------------------------------------------
(* The journey of the packets.                                              *)

\* What is on the air has left for good.
IsAired(p) == p \in {a.packet : a \in aired}

\* What the place of a packet depends on.
PlaceKept(p) ==
  /\ p \in submitted' <=> p \in submitted
  /\ IsAired(p)' <=> IsAired(p)
  /\ IsWaiting(p)' <=> IsWaiting(p)
  /\ hand'[Tun] = p <=> hand[Tun] = p

\* A packet that waits is all that its queue holds.
LEMMA WaitsAlone ==
  ASSUME QueuesInv, NEW p \in Packet
  PROVE  IsWaiting(p) <=> packetsToSend[Dst[p]] = <<p>>
<1>1. Dst[p] \in Address
  BY PacketAssumption
<1>2. CASE packetsToSend[Dst[p]] = <<>>
  <2>1. <<p>>[1] = p /\ 1 \in DOMAIN <<p>> /\ DOMAIN <<>> = {}
    OBVIOUS
  <2> QED
    BY <1>2, <2>1 DEF IsWaiting
<1>3. ASSUME NEW q, packetsToSend[Dst[p]] = <<q>>
      PROVE  IsWaiting(p) <=> packetsToSend[Dst[p]] = <<p>>
  <2>1. <<q>>[1] = q /\ <<p>>[1] = p /\ DOMAIN <<q>> = {1}
    OBVIOUS
  <2> QED
    BY <1>3, <2>1 DEF IsWaiting
<1> QED
  BY <1>1, <1>2, <1>3 DEF QueuesInv

\* A step that moves one packet, as a step of its journey.
LEMMA OneGoes ==
  ASSUME NEW q \in Packet, NEW to, PlaceOf(q)' \in to,
         \A p \in Packet : p # q => PlaceKept(p)
  PROVE  Journey!Goes(q, PlaceOf(q), to)
<1> DEFINE places == [p \in Packet |-> PlaceOf(p)]
<1>1. places' = [p \in Packet |-> PlaceOf(p)']
  OBVIOUS
<1>2. \A p \in Packet : p # q => PlaceOf(p)' = PlaceOf(p)
  BY DEF PlaceKept, PlaceOf, IsAired
<1>3. places' = [places EXCEPT ![q] = places'[q]] /\ places[q] = PlaceOf(q)
      /\ places'[q] = PlaceOf(q)'
  BY <1>1, <1>2
<1> QED
  BY <1>3 DEF Journey!Goes

\* A step that moves no packet.
LEMMA NobodyGoes ==
  ASSUME \A p \in Packet : PlaceKept(p)
  PROVE  UNCHANGED Journey!vars
<1>1. \A p \in Packet : PlaceOf(p)' = PlaceOf(p)
  BY DEF PlaceKept, PlaceOf, IsAired
<1> QED
  BY <1>1 DEF Journey!vars

\* Tun2Wifi takes a packet and asks for its route.
LEMMA TakeJourney ==
  ASSUME WifiInv, NEW p \in Packet, TakePacket(p)
  PROVE  Journey!Submit(p)
<1> USE DEF WifiInv
<1>1. /\ hand[Tun] = Nobody /\ hand'[Tun] = p /\ Nobody \notin Packet
      /\ p \notin submitted /\ submitted' = submitted \cup {p}
      /\ UNCHANGED <<packetsToSend, aired>>
  BY NoValueAssumption DEF TakePacket, At, HandInv, TypeOK, Sender, queueVars
<1>2. ~IsAired(p)'
  BY <1>1 DEF IsAired, AiredInv
<1>3. PlaceOf(p) = "host" /\ PlaceOf(p)' = "waiting"
  BY <1>1, <1>2 DEF PlaceOf, IsAired
<1>4. \A q \in Packet : q # p => PlaceKept(q)
  BY <1>1 DEF PlaceKept, IsAired, IsWaiting
<1>5. PlaceOf(p)' \in {"waiting", "air", "lost"}
  BY <1>3
<1> QED
  BY <1>3, <1>4, <1>5, OneGoes DEF Journey!Submit

\* The packet in hand enters the queue, or is dropped where another one waits.
LEMMA QueueJourney ==
  ASSUME WifiInv, QueuePacket
  PROVE  [Journey!Next]_(Journey!vars)
<1> USE DEF WifiInv
<1>1. PICK p \in Packet : p = hand[Tun]
  BY DEF QueuePacket, At, HandInv, TypeOK
<1>2. /\ pc[Tun] = "queue" /\ p \in submitted /\ Dst[p] \in Address
      /\ hand'[Tun] = Nobody /\ Nobody \notin Packet
      /\ packetsToSend' = [packetsToSend EXCEPT ![Dst[p]] = IF @ = <<>> THEN <<p>> ELSE @]
      /\ UNCHANGED <<submitted, aired>>
  BY <1>1, PacketAssumption, NoValueAssumption
  DEF QueuePacket, At, HandInv, TypeOK, Sender
<1>3. ~IsAired(p) /\ ~IsAired(p)'
  BY <1>1, <1>2 DEF IsAired, AiredInv
<1>4. PlaceOf(p) = "waiting" /\ PlaceOf(p)' \in {"waiting", "lost"}
  BY <1>1, <1>2, <1>3 DEF PlaceOf, IsAired
<1>5. ASSUME NEW q \in Packet, q # p PROVE PlaceKept(q)
  <2>1. IsWaiting(q)' <=> IsWaiting(q)
    <3>1. CASE packetsToSend'[Dst[q]] = packetsToSend[Dst[q]]
      BY <3>1 DEF IsWaiting
    <3>2. CASE packetsToSend'[Dst[q]] # packetsToSend[Dst[q]]
      <4>1. packetsToSend[Dst[q]] = <<>> /\ packetsToSend'[Dst[q]] = <<p>>
        BY <1>2, <3>2, PacketAssumption DEF TypeOK
      <4>2. DOMAIN <<>> = {} /\ DOMAIN <<p>> = {1} /\ <<p>>[1] = p
        OBVIOUS
      <4> QED
        BY <1>5, <4>1, <4>2 DEF IsWaiting
    <3> QED
      BY <3>1, <3>2
  <2> QED
    BY <1>1, <1>2, <1>5, <2>1 DEF PlaceKept, IsAired
<1>6. CASE PlaceOf(p)' = "waiting"
  <2>1. \A q \in Packet : PlaceOf(q)' = PlaceOf(q)
    BY <1>4, <1>5, <1>6 DEF PlaceKept, PlaceOf, IsAired
  <2> QED
    BY <2>1 DEF Journey!vars
<1>7. CASE PlaceOf(p)' = "lost"
  <2>1. Journey!Goes(p, "waiting", {"air", "lost"})
    BY <1>4, <1>5, <1>7, OneGoes
  <2> QED
    BY <2>1 DEF Journey!Depart, Journey!Next
<1> QED
  BY <1>4, <1>6, <1>7

\* A packet goes on the air from the queue or from the hand of Tun2Wifi.
LEMMA AirJourney ==
  ASSUME WifiInv, NEW t \in Sender, Air(t)
  PROVE  \E p \in Packet : Journey!Depart(p)
<1> USE DEF WifiInv
<1>1. PICK p \in Packet : p = hand[t]
  BY DEF Air, At, HandInv, TypeOK, Sender
<1> DEFINE new == [packet |-> p, seq |-> number[t], by |-> t]
<1>2. /\ pc[t] = "air" /\ p \in submitted
      /\ aired' = aired \cup {new} /\ new.packet = p
      /\ UNCHANGED <<submitted, packetsToSend, hand>>
  BY <1>1 DEF Air, At, HandInv, Sender, queueVars
<1> HIDE DEF new
<1>3. ~IsAired(p) /\ IsAired(p)' /\ \A q \in Packet : q # p => (IsAired(q)' <=> IsAired(q))
  BY <1>1, <1>2, HandNotAired DEF IsAired
<1>4. IsWaiting(p) \/ hand[Tun] = p
  <2>1. CASE t = Tun
    BY <1>1, <2>1
  <2>2. CASE t = Recv
    <3>1. packetsToSend[replied] = <<p>> /\ replied \in Address
      BY <1>1, <1>2, <2>2 DEF QueuesInv, HandInv
    <3>2. packetsToSend[Dst[p]] = <<p>>
      BY <3>1, QueuedUnderDestination
    <3> QED
      BY <3>2, WaitsAlone
  <2> QED
    BY <2>1, <2>2 DEF Sender
<1>5. PlaceOf(p) = "waiting" /\ PlaceOf(p)' = "air"
  BY <1>2, <1>3, <1>4 DEF PlaceOf, IsAired
<1>6. \A q \in Packet : q # p => PlaceKept(q)
  BY <1>2, <1>3 DEF PlaceKept, IsWaiting
<1>7. PlaceOf(p)' \in {"air", "lost"}
  BY <1>5
<1> QED
  BY <1>5, <1>6, <1>7, OneGoes DEF Journey!Depart

\* The cleaner forgets packets that wait, none of which WifiRecv is sending.
LEMMA EraseJourney ==
  ASSUME WifiInv, NEW d \in Address, EraseExpired(d)
  PROVE  \E ps \in SUBSET Packet : Journey!Forget(ps)
<1> USE DEF WifiInv
<1> DEFINE ps == {p \in Packet : Dst[p] = d /\ IsWaiting(p)}
<1>1. /\ packetsToSend' = [packetsToSend EXCEPT ![d] = <<>>]
      /\ UNCHANGED <<submitted, aired, hand>>
  BY DEF EraseExpired, sendVars
<1>2. pc[Recv] \in {"idle", "hop", "lock"}
  BY PktMutFree DEF EraseExpired
<1>3. ASSUME NEW p \in ps PROVE p \in submitted /\ ~IsAired(p) /\ hand[Tun] # p
  <2>1. packetsToSend[d] = <<p>>
    BY WaitsAlone
  <2>2. ~IsAired(p)
    BY <1>2, <2>1 DEF IsAired, AiredInv
  <2>3. hand[Tun] # p
    BY <2>1, NoValueAssumption DEF QueuesInv, HandInv
  <2> QED
    BY <2>1, <2>2, <2>3, QueuedUnderDestination
<1>4. ASSUME NEW p \in ps PROVE PlaceOf(p) = "waiting" /\ PlaceOf(p)' = "lost"
  <2>1. ~IsWaiting(p)'
    <3>1. packetsToSend'[Dst[p]] = <<>> /\ DOMAIN <<>> = {}
      BY <1>1 DEF TypeOK
    <3> QED
      BY <3>1 DEF IsWaiting
  <2> QED
    BY <1>1, <1>3, <2>1 DEF PlaceOf, IsAired
<1>5. ASSUME NEW p \in Packet \ ps PROVE PlaceOf(p)' = PlaceOf(p)
  <2>1. IsWaiting(p)' <=> IsWaiting(p)
    <3>1. CASE Dst[p] = d
      <4>1. ~IsWaiting(p)
        BY <3>1
      <4>2. packetsToSend'[Dst[p]] = <<>> /\ DOMAIN <<>> = {}
        BY <1>1, <3>1 DEF TypeOK
      <4> QED
        BY <4>1, <4>2 DEF IsWaiting
    <3>2. CASE Dst[p] # d
      <4>1. packetsToSend'[Dst[p]] = packetsToSend[Dst[p]]
        BY <1>1, <3>2, PacketAssumption DEF TypeOK
      <4> QED
        BY <4>1 DEF IsWaiting
    <3> QED
      BY <3>1, <3>2
  <2> QED
    BY <1>1, <2>1 DEF PlaceOf, IsAired
<1> HIDE DEF ps
<1>6. [p \in Packet |-> PlaceOf(p)]' = [p \in Packet |->
         IF p \in ps THEN "lost" ELSE [q \in Packet |-> PlaceOf(q)][p]]
  BY <1>4, <1>5
<1>7. ps \in SUBSET Packet
  BY DEF ps
<1>8. Journey!Forget(ps)
  BY <1>4, <1>6, <1>7 DEF Journey!Forget
<1> QED
  BY <1>7, <1>8

\* WifiRecv takes out of the queue what is on the air.
LEMMA PopJourney ==
  ASSUME WifiInv, PopFront
  PROVE  UNCHANGED Journey!vars
<1> USE DEF WifiInv
<1>1. /\ pc[Recv] = "sent" /\ replied \in Address
      /\ packetsToSend' = [packetsToSend EXCEPT ![replied] = Tail(@)]
      /\ UNCHANGED <<submitted, aired, hand>>
  BY DEF PopFront, At, HandInv, sendVars
<1>2. PICK a \in aired : packetsToSend[replied] = <<a.packet>>
  BY <1>1 DEF AiredInv
<1>3. ASSUME NEW p \in Packet PROVE PlaceOf(p)' = PlaceOf(p)
  <2>1. CASE p = a.packet
    <3>1. p \in submitted /\ IsAired(p)
      BY <2>1, <1>2 DEF AiredInv, IsAired
    <3> QED
      BY <1>1, <3>1 DEF PlaceOf, IsAired
  <2>2. CASE p # a.packet
    <3>1. Dst[p] # replied => (IsWaiting(p)' <=> IsWaiting(p))
      BY <1>1, PacketAssumption DEF IsWaiting, TypeOK
    <3>2. Dst[p] = replied => ~IsWaiting(p) /\ ~IsWaiting(p)'
      <4> SUFFICES ASSUME Dst[p] = replied PROVE ~IsWaiting(p) /\ ~IsWaiting(p)'
        OBVIOUS
      <4>1. <<a.packet>>[1] = a.packet /\ DOMAIN <<a.packet>> = {1}
            /\ Tail(<<a.packet>>) = <<>> /\ DOMAIN <<>> = {}
        OBVIOUS
      <4>2. packetsToSend'[replied] = <<>>
        BY <1>1, <1>2, <4>1 DEF TypeOK
      <4> QED
        BY <1>2, <2>2, <4>1, <4>2 DEF IsWaiting
    <3> QED
      BY <1>1, <3>1, <3>2 DEF PlaceOf
  <2> QED
    BY <2>1, <2>2
<1> QED
  BY <1>3 DEF Journey!vars

\* Every step of the three threads is a step of the journey of one packet,
\* forgets packets that wait, or moves none.
LEMMA JourneyStep ==
  ASSUME WifiInv, [Next]_vars
  PROVE  [Journey!Next]_(Journey!vars)
<1> DEFINE Kept == UNCHANGED <<submitted, aired, packetsToSend, hand>>
<1>1. ASSUME NEW p \in Packet, TakePacket(p) PROVE Journey!Next
  BY <1>1, TakeJourney DEF Journey!Next
<1>2. CASE QueuePacket
  BY <1>2, QueueJourney
<1>3. ASSUME NEW t \in Sender, Air(t) PROVE Journey!Next
  BY <1>3, AirJourney DEF Journey!Next
<1>4. ASSUME NEW d \in Address, EraseExpired(d) PROVE Journey!Next
  BY <1>4, EraseJourney DEF Journey!Next
<1>5. CASE PopFront
  BY <1>5, PopJourney
<1>6. ASSUME NEW t \in Sender, Register(t) PROVE UNCHANGED Journey!vars
  <2>1. /\ UNCHANGED <<submitted, aired, packetsToSend>> /\ pc[t] = "register"
        /\ hand' = [hand EXCEPT ![t] = Nobody] /\ Nobody \notin Packet
    BY <1>6, NoValueAssumption DEF Register, At, queueVars
  <2>2. ASSUME NEW p \in Packet, hand[Tun] # p PROVE hand'[Tun] # p
    BY <2>1, <2>2 DEF WifiInv, TypeOK, Sender
  <2>3. ASSUME NEW p \in Packet, hand[Tun] = p, hand'[Tun] # p PROVE IsAired(p)
    <3>1. t = Tun
      BY <2>1, <2>3 DEF WifiInv, TypeOK, Sender
    <3> DEFINE mine == [packet |-> hand[t], seq |-> number[t], by |-> t]
    <3>2. mine \in aired /\ mine.packet = hand[t]
      BY <2>1 DEF WifiInv, AiredInv
    <3> HIDE DEF mine
    <3> QED
      BY <2>3, <3>1, <3>2 DEF IsAired
  <2>4. \A p \in Packet : PlaceOf(p)' = PlaceOf(p)
    BY <2>1, <2>2, <2>3 DEF PlaceOf, IsAired, IsWaiting
  <2> QED
    BY <2>4 DEF Journey!vars
<1>7. CASE SendFront
  <2>1. UNCHANGED <<submitted, aired, packetsToSend>> /\ hand'[Tun] = hand[Tun]
    BY <1>7 DEF SendFront, queueVars, WifiInv, TypeOK, Sender
  <2> QED
    BY <2>1, NobodyGoes DEF PlaceKept, IsAired, IsWaiting
<1>8. Kept => UNCHANGED Journey!vars
  BY NobodyGoes DEF PlaceKept, IsAired, IsWaiting
<1>9. ASSUME \/ RequestRoute \/ AddHopRoute \/ LockPackets \/ FinishReply
             \/ \E t \in Sender : TakeNumber(t)
      PROVE  Kept
  BY <1>9 DEF RequestRoute, AddHopRoute, LockPackets, FinishReply, TakeNumber, queueVars, sendVars
<1>10. ASSUME NEW d \in Address, NEW via \in Neighbour, ReceiveRReply(d, via) PROVE Kept
  BY <1>10 DEF ReceiveRReply, queueVars, sendVars
<1>11. ASSUME NEW n \in 0 .. SeqModulus - 1, ReceiveAck(n) PROVE Kept
  BY <1>11 DEF ReceiveAck, queueVars, sendVars
<1>12. ASSUME NEW d \in Address, ReceiveNAck(d) \/ KeepRequest(d) PROVE Kept
  BY <1>12 DEF ReceiveNAck, KeepRequest, queueVars, sendVars
<1>13. ASSUME LockReplies \/ UnlockReplies \/ ReportLost \/ Tick \/ UNCHANGED vars PROVE Kept
  BY <1>13 DEF LockReplies, UnlockReplies, ReportLost, Tick, vars, queueVars, sendVars
<1> HIDE DEF Kept
<1> QED
  BY <1>1, <1>2, <1>3, <1>4, <1>5, <1>6, <1>7, <1>8, <1>9, <1>10, <1>11, <1>12, <1>13
  DEF Next, Send, Transmit, Reply, ClearOutdated, Sender

\* The threads implement the journey of the packets, whatever their
\* interleaving: what a reply sends the cleaner has not forgotten, what is
\* forgotten or dropped is never sent, and what is sent is not sent again.
THEOREM ThreadsImplementJourney == Spec => ImplementsJourney
<1>1. Init => Journey!Init
  <2> SUFFICES ASSUME Init PROVE Journey!Init
    OBVIOUS
  <2>1. \A p \in Packet : PlaceOf(p) = "host"
    BY DEF Init, PlaceOf
  <2> QED
    BY <2>1 DEF Journey!Init
<1>2. WifiInv /\ [Next]_vars => [Journey!Next]_(Journey!vars)
  BY JourneyStep
<1> QED
  BY <1>1, <1>2, WifiInvariant, PTL DEF Spec, ImplementsJourney, Journey!Spec
=============================================================================
