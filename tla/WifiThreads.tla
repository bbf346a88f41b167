----------------------------- MODULE WifiThreads -----------------------------
(***************************************************************************)
(* The three threads that share one object of class Wifi                   *)
(* (src/mesh/wifi.cpp), split where another thread can come in between:     *)
(*   Tun2Wifi       Wifi::send on the packets of the tun device             *)
(*   WifiRecv       receiveRReply, receiveAck, receiveNAck                  *)
(*   ClearPackets   clearOutdatedPackets                                    *)
(* Mesh runs each of these from start to end.  Here a step is one access to *)
(* the routing table (which has a mutex of its own), one atomic increment,  *)
(* one broadcast, or one critical section that takes no second mutex.  A    *)
(* mutex held while another one is asked for has an owner from step to      *)
(* step.  The other nodes are reduced to the datagrams they may answer with.*)
(***************************************************************************)
EXTENDS RoutingTable, Sequences, FiniteSets

CONSTANTS
  Packet,          \* IPv6 packets read from the tun device
  Dst,             \* destination of each packet
  Neighbour,       \* addresses that forward replies to this node
  Never,           \* stands for "no entry" in pendingRReplies
  Nobody,          \* no owner of a mutex, no packet in hand
  SeqModulus,      \* 2^32: seq is a boost::uint32_t
  RRequestDelay,   \* RREQUEST_EXPIRATION_DELAY, in clock ticks
  AckDelay,        \* ACK_EXPIRATION_DELAY, in clock ticks
  LastSend,        \* no packet is read after this time (for TLC)
  MaxNow           \* bound on the clock (for TLC)

ASSUME PacketAssumption == Dst \in [Packet -> Address] /\ Neighbour \subseteq Address
ASSUME SeqAssumption ==
  /\ IsFiniteSet(Packet)
  /\ SeqModulus \in Nat
  /\ Cardinality(Packet) < SeqModulus
ASSUME DelayAssumption == {RRequestDelay, AckDelay, LastSend, MaxNow} \subseteq Nat

Sender == {"Tun2Wifi", "WifiRecv"}
Thread == Sender \cup {"ClearPackets"}
Mutex == {"rrepMut", "pktMut", "ackMut"}

ASSUME NoValueAssumption == Never \notin Nat /\ Nobody \notin Packet \cup Thread

VARIABLES
  now,                  \* second_clock
  pc,                   \* where each thread stands, "idle" between two calls
  owner,                \* the thread that holds each mutex from step to step
  routes,               \* Wifi::routingTable
  seq,                  \* Wifi::seq
  pendingRReplies,      \* destination -> time of the last request, or Never
  packetsToSend,        \* destination -> packets waiting for a route
  pendingAcks,          \* numbers of the packets whose NACK is recorded
  pendingAckSequences,  \* records [at, id]: second of sending -> number
  hand,                 \* the packet each thread sends, Nobody for none
  number,               \* the number it goes out under
  replied,              \* the source of the reply WifiRecv works on
  relay,                \* its sender, until WifiRecv has added the route to it
  scan,                 \* destinations clearOutdatedPackets has yet to look at
  requested,            \* destinations a request was broadcast for
  aired,                \* packets broadcast: records [packet, seq, by]
  acked,                \* numbers of the ACKs received
  registered,           \* history: records [id, at], NACKs that were recorded
  falseNacks,           \* history: NACKs sent after the ACK was received
  overtaken,            \* history: see EraseExpired
  submitted             \* packets already read from the tun device

queueVars == <<pendingRReplies, packetsToSend, scan, overtaken>>
ackVars == <<pendingAcks, pendingAckSequences, acked, registered, falseNacks>>
sendVars == <<seq, hand, number, aired>>
vars == <<now, pc, owner, routes, queueVars, ackVars, sendVars, replied, relay,
          requested, submitted>>

Init ==
  /\ now = 0
  /\ pc = [t \in Thread |-> "idle"]
  /\ owner = [m \in Mutex |-> Nobody]
  /\ routes = EmptyTable
  /\ seq = 0
  /\ pendingRReplies = [d \in Address |-> Never]
  /\ packetsToSend = [d \in Address |-> <<>>]
  /\ pendingAcks = {}
  /\ pendingAckSequences = {}
  /\ hand = [t \in Sender |-> Nobody]
  /\ number = [t \in Sender |-> 0]
  /\ replied = Nobody
  /\ relay = Nobody
  /\ scan = {}
  /\ requested = {}
  /\ aired = {}
  /\ acked = {}
  /\ registered = {}
  /\ falseNacks = {}
  /\ overtaken = {}
  /\ submitted = {}

At(t, where) == pc[t] = where
Goto(t, where) == pc' = [pc EXCEPT ![t] = where]
Free(m) == owner[m] = Nobody
-----------------------------------------------------------------------------
(* Tun2Wifi: send(packet), up to the packet in hand or in the queue.        *)

\* A packet is read from the tun device, and its route looked up.
TakePacket(p) ==
  LET route == GetRoute(routes, Dst[p], now) IN
  /\ At("Tun2Wifi", "idle")
  /\ p \notin submitted /\ now <= LastSend
  /\ submitted' = submitted \cup {p}
  /\ routes' = TableAfterGet(routes, Dst[p], now)
  /\ hand' = [hand EXCEPT !["Tun2Wifi"] = p]
  /\ Goto("Tun2Wifi", IF route = NoRoute THEN "request" ELSE "number")
  /\ UNCHANGED <<now, owner, queueVars, ackVars, seq, number, aired, replied,
                 relay, requested>>

\* The last request for d is older than RRequestDelay, or forgotten.
RequestDue(d) ==
  \/ pendingRReplies[d] = Never
  \/ now > pendingRReplies[d] + RRequestDelay

\* The section under rrepMut.  insert does not refresh an old time.
RequestRoute ==
  LET d == Dst[hand["Tun2Wifi"]] IN
  /\ At("Tun2Wifi", "request")
  /\ Free("rrepMut")
  /\ IF RequestDue(d)
       THEN /\ requested' = requested \cup {d}
            /\ pendingRReplies' = [pendingRReplies EXCEPT
                                     ![d] = IF @ = Never THEN now ELSE @]
       ELSE UNCHANGED <<requested, pendingRReplies>>
  /\ Goto("Tun2Wifi", "queue")
  /\ UNCHANGED <<now, owner, routes, packetsToSend, scan, overtaken, ackVars,
                 sendVars, replied, relay, submitted>>

\* The section under pktMut: nothing is asked again about the route or the
\* request.  Only the first packet for a destination enters the queue.
QueuePacket ==
  LET p == hand["Tun2Wifi"] IN
  /\ At("Tun2Wifi", "queue")
  /\ Free("pktMut")
  /\ packetsToSend' = [packetsToSend EXCEPT
                         ![Dst[p]] = IF @ = <<>> THEN <<p>> ELSE @]
  /\ hand' = [hand EXCEPT !["Tun2Wifi"] = Nobody]
  /\ Goto("Tun2Wifi", "idle")
  /\ UNCHANGED <<now, owner, routes, pendingRReplies, scan, overtaken, ackVars,
                 seq, number, aired, replied, relay, requested, submitted>>
-----------------------------------------------------------------------------
(* send(packet, nextHop), by Tun2Wifi or, with pktMut, by WifiRecv.         *)

\* Mutant: the increment is not atomic, and that of another thread that is
\* sending may be missed.
TakeNumberNotAtomic(t) ==
  /\ At(t, "number")
  /\ number' = [number EXCEPT ![t] = seq]
  /\ seq' \in {(seq + 1) % SeqModulus} \cup
              {seq : u \in {v \in Sender \ {t} : At(v, "number")}}
  /\ Goto(t, "air")
  /\ UNCHANGED <<now, owner, routes, queueVars, ackVars, hand, aired, replied,
                 relay, requested, submitted>>

\* atomic_inc32 gives the number before the increment.
TakeNumber(t) ==
  /\ At(t, "number")
  /\ number' = [number EXCEPT ![t] = seq]
  /\ seq' = (seq + 1) % SeqModulus
  /\ Goto(t, "air")
  /\ UNCHANGED <<now, owner, routes, queueVars, ackVars, hand, aired, replied,
                 relay, requested, submitted>>

\* The packet is broadcast before its NACK is recorded.
Air(t) ==
  /\ At(t, "air")
  /\ aired' = aired \cup {[packet |-> hand[t], seq |-> number[t], by |-> t]}
  /\ Goto(t, "register")
  /\ UNCHANGED <<now, owner, routes, queueVars, ackVars, seq, hand, number,
                 replied, relay, requested, submitted>>

\* Mutant: one timeout is watched at a time.
WatchOnlyOne(id) ==
  IF pendingAckSequences = {} THEN {[at |-> now, id |-> id]} ELSE pendingAckSequences

\* pendingAckSequences has one entry for each second, the first one.
Watch(id) ==
  IF \E s \in pendingAckSequences : s.at = now
    THEN pendingAckSequences
    ELSE pendingAckSequences \cup {[at |-> now, id |-> id]}

\* The section under ackMut.
Register(t) ==
  /\ At(t, "register")
  /\ Free("ackMut")
  /\ pendingAcks' = pendingAcks \cup {number[t]}
  /\ pendingAckSequences' = Watch(number[t])
  /\ registered' = registered \cup {[id |-> number[t], at |-> now]}
  /\ hand' = [hand EXCEPT ![t] = Nobody]
  /\ number' = [number EXCEPT ![t] = 0]
  /\ Goto(t, IF t = "Tun2Wifi" THEN "idle" ELSE "sent")
  /\ UNCHANGED <<now, owner, routes, queueVars, acked, falseNacks, seq, aired,
                 replied, relay, requested, submitted>>
-----------------------------------------------------------------------------
(* WifiRecv                                                                 *)

\* A reply for this node from the neighbour via, about the source d: the route
\* to d.  Any number of replies may follow a request, from several relays.
ReceiveRReply(d, via) ==
  /\ At("WifiRecv", "idle")
  /\ d \in requested
  /\ routes' = AddRoute(routes, d, NewRoute(via, 1, now))
  /\ replied' = d
  /\ relay' = via
  /\ Goto("WifiRecv", "hop")
  /\ UNCHANGED <<now, owner, queueVars, ackVars, sendVars, requested, submitted>>

\* The route to the relay itself, in a section of its own.
AddHopRoute ==
  /\ At("WifiRecv", "hop")
  /\ routes' = AddRoute(routes, relay, NewRoute(relay, 1, now))
  /\ relay' = Nobody
  /\ Goto("WifiRecv", "lock")
  /\ UNCHANGED <<now, owner, queueVars, ackVars, sendVars, replied, requested,
                 submitted>>

\* pktMut is taken and kept while the waiting packets are sent.
LockPackets ==
  /\ At("WifiRecv", "lock")
  /\ Free("pktMut")
  /\ owner' = [owner EXCEPT !["pktMut"] = "WifiRecv"]
  /\ Goto("WifiRecv", "next")
  /\ UNCHANGED <<now, routes, queueVars, ackVars, sendVars, replied, relay,
                 requested, submitted>>

\* The packet at the front is sent; it is still in the queue.
SendFront ==
  /\ At("WifiRecv", "next")
  /\ packetsToSend[replied] # <<>>
  /\ hand' = [hand EXCEPT !["WifiRecv"] = Head(packetsToSend[replied])]
  /\ Goto("WifiRecv", "number")
  /\ UNCHANGED <<now, owner, routes, queueVars, ackVars, seq, number, aired,
                 replied, relay, requested, submitted>>

PopFront ==
  /\ At("WifiRecv", "sent")
  /\ packetsToSend' = [packetsToSend EXCEPT ![replied] = Tail(@)]
  /\ Goto("WifiRecv", "next")
  /\ UNCHANGED <<now, owner, routes, pendingRReplies, scan, overtaken, ackVars,
                 sendVars, replied, relay, requested, submitted>>

\* Mutant: the answered request is forgotten before pktMut is released.
FinishReplyForgetRequest ==
  /\ At("WifiRecv", "next")
  /\ packetsToSend[replied] = <<>>
  /\ Free("rrepMut")
  /\ pendingRReplies' = [pendingRReplies EXCEPT ![replied] = Never]
  /\ owner' = [owner EXCEPT !["pktMut"] = Nobody]
  /\ replied' = Nobody
  /\ Goto("WifiRecv", "idle")
  /\ UNCHANGED <<now, routes, packetsToSend, scan, overtaken, ackVars, sendVars,
                 relay, requested, submitted>>

\* Mutant: the mutex is not released.
FinishReplyKeepLock ==
  /\ At("WifiRecv", "next")
  /\ packetsToSend[replied] = <<>>
  /\ replied' = Nobody
  /\ Goto("WifiRecv", "idle")
  /\ UNCHANGED <<now, owner, routes, queueVars, ackVars, sendVars, relay,
                 requested, submitted>>

\* Nothing is left to send.  The entry of pendingRReplies stays.
FinishReply ==
  /\ At("WifiRecv", "next")
  /\ packetsToSend[replied] = <<>>
  /\ owner' = [owner EXCEPT !["pktMut"] = Nobody]
  /\ replied' = Nobody
  /\ Goto("WifiRecv", "idle")
  /\ UNCHANGED <<now, routes, queueVars, ackVars, sendVars, relay, requested,
                 submitted>>

\* Mutant: the ACK is looked up under the number after its own.
ReceiveAckNextNumber(n) ==
  /\ At("WifiRecv", "idle")
  /\ Free("ackMut")
  /\ \E a \in aired : a.seq = n
  /\ pendingAcks' = pendingAcks \ {n + 1}
  /\ acked' = acked \cup {n}
  /\ UNCHANGED <<now, pc, owner, routes, queueVars, pendingAckSequences,
                 registered, falseNacks, sendVars, replied, relay, requested,
                 submitted>>

\* An ACK for a packet of this node, under ackMut.
ReceiveAck(n) ==
  /\ At("WifiRecv", "idle")
  /\ Free("ackMut")
  /\ \E a \in aired : a.seq = n
  /\ pendingAcks' = pendingAcks \ {n}
  /\ acked' = acked \cup {n}
  /\ UNCHANGED <<now, pc, owner, routes, queueVars, pendingAckSequences,
                 registered, falseNacks, sendVars, replied, relay, requested,
                 submitted>>

\* A NACK that ends at this node, about a packet sent to d.
ReceiveNAck(d) ==
  /\ At("WifiRecv", "idle")
  /\ \E a \in aired : Dst[a.packet] = d
  /\ routes' = InvalidateRoute(routes, d)
  /\ UNCHANGED <<now, pc, owner, queueVars, ackVars, sendVars, replied, relay,
                 requested, submitted>>
-----------------------------------------------------------------------------
(* ClearPackets                                                             *)

LockReplies ==
  /\ At("ClearPackets", "idle")
  /\ Free("rrepMut")
  /\ owner' = [owner EXCEPT !["rrepMut"] = "ClearPackets"]
  /\ scan' = {d \in Address : pendingRReplies[d] # Never}
  /\ Goto("ClearPackets", "scan")
  /\ UNCHANGED <<now, routes, pendingRReplies, packetsToSend, overtaken,
                 ackVars, sendVars, replied, relay, requested, submitted>>

KeepRequest(d) ==
  /\ At("ClearPackets", "scan")
  /\ d \in scan
  /\ ~RequestDue(d)
  /\ scan' = scan \ {d}
  /\ UNCHANGED <<now, pc, owner, routes, pendingRReplies, packetsToSend,
                 overtaken, ackVars, sendVars, replied, relay, requested,
                 submitted>>

\* Tun2Wifi has looked at the entry of d and not queued its packet yet.
BetweenLocks(d) == At("Tun2Wifi", "queue") /\ Dst[hand["Tun2Wifi"]] = d

\* Mutant: the packets are left in the queue.
EraseRequestOnly(d) ==
  /\ At("ClearPackets", "scan")
  /\ d \in scan
  /\ RequestDue(d)
  /\ Free("pktMut")
  /\ pendingRReplies' = [pendingRReplies EXCEPT ![d] = Never]
  /\ scan' = scan \ {d}
  /\ overtaken' = IF BetweenLocks(d) THEN overtaken \cup {d} ELSE overtaken
  /\ UNCHANGED <<now, pc, owner, routes, packetsToSend, ackVars, sendVars,
                 replied, relay, requested, submitted>>

\* Mutant: pktMut is not asked for, and WifiRecv may be sending the packet.
EraseUnderReply(d) ==
  /\ At("ClearPackets", "scan")
  /\ d \in scan
  /\ RequestDue(d)
  /\ packetsToSend' = [packetsToSend EXCEPT ![d] = <<>>]
  /\ pendingRReplies' = [pendingRReplies EXCEPT ![d] = Never]
  /\ scan' = scan \ {d}
  /\ overtaken' = IF BetweenLocks(d) THEN overtaken \cup {d} ELSE overtaken
  /\ UNCHANGED <<now, pc, owner, routes, ackVars, sendVars, replied, relay,
                 requested, submitted>>

\* The packets that wait for d are erased under pktMut, then the request.
\* overtaken notes that a packet may be queued for d just after.
EraseExpired(d) ==
  /\ At("ClearPackets", "scan")
  /\ d \in scan
  /\ RequestDue(d)
  /\ Free("pktMut")
  /\ packetsToSend' = [packetsToSend EXCEPT ![d] = <<>>]
  /\ pendingRReplies' = [pendingRReplies EXCEPT ![d] = Never]
  /\ scan' = scan \ {d}
  /\ overtaken' = IF BetweenLocks(d) THEN overtaken \cup {d} ELSE overtaken
  /\ UNCHANGED <<now, pc, owner, routes, ackVars, sendVars, replied, relay,
                 requested, submitted>>

UnlockReplies ==
  /\ At("ClearPackets", "scan")
  /\ scan = {}
  /\ owner' = [owner EXCEPT !["rrepMut"] = Nobody]
  /\ Goto("ClearPackets", "acks")
  /\ UNCHANGED <<now, routes, queueVars, ackVars, sendVars, replied, relay,
                 requested, submitted>>

\* The section under ackMut: NACKs leave for the packets that are late.
ReportLost ==
  LET late == {s \in pendingAckSequences : now > s.at + AckDelay}
      lost == {n \in pendingAcks : \E s \in late : s.id = n}
  IN
  /\ At("ClearPackets", "acks")
  /\ Free("ackMut")
  /\ pendingAcks' = pendingAcks \ lost
  /\ pendingAckSequences' = pendingAckSequences \ late
  /\ falseNacks' = falseNacks \cup (lost \cap acked)
  /\ Goto("ClearPackets", "idle")
  /\ UNCHANGED <<now, owner, routes, queueVars, acked, registered, sendVars,
                 replied, relay, requested, submitted>>

\* After LastSend the clock waits for Tun2Wifi, so that the last request can
\* still grow old before MaxNow.
Tick ==
  /\ now < MaxNow
  /\ now >= LastSend => At("Tun2Wifi", "idle")
  /\ now' = now + 1
  /\ UNCHANGED <<pc, owner, routes, queueVars, ackVars, sendVars, replied,
                 relay, requested, submitted>>
-----------------------------------------------------------------------------
Transmit(t) == TakeNumber(t) \/ Air(t) \/ Register(t)

Send == RequestRoute \/ QueuePacket \/ Transmit("Tun2Wifi")

Reply ==
  \/ AddHopRoute
  \/ LockPackets
  \/ SendFront \/ Transmit("WifiRecv") \/ PopFront
  \/ FinishReply

ClearOutdated ==
  \/ LockReplies
  \/ \E d \in Address : KeepRequest(d) \/ EraseExpired(d)
  \/ UnlockReplies
  \/ ReportLost

Next ==
  \/ \E p \in Packet : TakePacket(p)
  \/ Send
  \/ \E d \in Address, via \in Neighbour : ReceiveRReply(d, via)
  \/ Reply
  \/ \E n \in 0 .. SeqModulus - 1 : ReceiveAck(n)
  \/ \E d \in Address : ReceiveNAck(d)
  \/ ClearOutdated
  \/ Tick

Spec == Init /\ [][Next]_vars

\* Threads that are inside a handler go on, and one that asks again and again
\* for a mutex gets it.  The cleaner starts again after its sleep, and time
\* passes.  No packet and no datagram has to come.
FairSpec ==
  /\ Spec
  /\ SF_vars(Send)
  /\ SF_vars(Reply)
  /\ SF_vars(ClearOutdated)
  /\ WF_vars(Tick)
-----------------------------------------------------------------------------
\* Typing, what the program counters have to do with the mutexes, and that a
\* number on the air has left the counter: the mutexes that are held from
\* step to step are rrepMut, by the cleaner, and pktMut, by WifiRecv.
TypeOK ==
  /\ now \in Nat
  /\ pc \in [Thread -> {"idle", "request", "queue", "number", "air", "register",
                        "hop", "lock", "next", "sent", "scan", "acks"}]
  /\ owner \in [Mutex -> Thread \cup {Nobody}]
  /\ owner["rrepMut"] = "ClearPackets" <=> At("ClearPackets", "scan")
  /\ owner["pktMut"] = "WifiRecv" <=> pc["WifiRecv"] \notin {"idle", "hop", "lock"}
  /\ owner["ackMut"] = Nobody
  /\ routes \in Table
  /\ seq \in 0 .. SeqModulus - 1
  /\ pendingRReplies \in [Address -> Nat \cup {Never}]
  /\ packetsToSend \in [Address -> Seq(Packet)]
  /\ pendingAcks \subseteq Nat
  /\ pendingAckSequences \subseteq [at: Nat, id: Nat]
  /\ hand \in [Sender -> Packet \cup {Nobody}]
  /\ number \in [Sender -> Nat]
  /\ replied \in Address \cup {Nobody}
  /\ relay \in Address \cup {Nobody} /\ (At("WifiRecv", "hop") => relay \in Address)
  /\ scan \subseteq Address /\ requested \subseteq Address /\ overtaken \subseteq Address
  /\ aired \subseteq [packet: Packet, seq: Nat, by: Sender]
  /\ acked \subseteq Nat /\ falseNacks \subseteq acked
  /\ registered \subseteq [id: Nat, at: Nat]
  /\ submitted \subseteq Packet

\* The three mutexes are asked for in one order, rrepMut, pktMut, ackMut, by
\* clearOutdatedPackets and by receiveRReply: nobody waits for ever, and every
\* handler that has begun returns.
HandlersReturn == \A t \in Thread : ~At(t, "idle") ~> At(t, "idle")

\* A number stands for one packet and a packet goes out once, although two
\* threads take numbers and three handle the queues (atomic_inc32, pktMut).
OneNumberOnePacket ==
  \A a, b \in aired : a.seq = b.seq \/ a.packet = b.packet => a = b

\* A NACK is for a packet without ACK ("recording nack if no ACK is received
\* from next hop", wifi.h).  That holds of what WifiRecv sends, since it takes
\* the ACKs itself.  What Tun2Wifi sends may be acknowledged between its
\* broadcast and the recording, and is then reported all the same.
NackMeansNoAck ==
  \A a \in aired : a.by = "WifiRecv" => a.seq \notin falseNacks

\* A recorded NACK that no timeout leads to, and which only an ACK can remove,
\* is one of several recorded in one second: the first of them is watched.
UnwatchedSharesSecond ==
  \A r \in registered :
    \/ r.id \notin pendingAcks
    \/ \E s \in pendingAckSequences : s.id = r.id
    \/ \E q \in registered : q.id # r.id /\ q.at = r.at

IsWaiting(p) == \E i \in DOMAIN packetsToSend[Dst[p]] : packetsToSend[Dst[p]][i] = p

\* No packet waits for ever: a reply sends it, or the cleaner erases it with
\* the request, whatever came between the locks of send - a reply that finds
\* the queue still empty, an old time of request that is not refreshed, a
\* route that a NACK has taken away.  The exception is a packet queued just
\* after the cleaner has forgotten its request: nothing leads back to it.
WaitEnds ==
  \A p \in Packet : IsWaiting(p) ~> ~IsWaiting(p) \/ Dst[p] \in overtaken

\* What ends the waiting is there: the time of the request, which the cleaner
\* looks for, or the packet is one of those that were queued just after the
\* cleaner had forgotten it.  No other order of the sections of send, of a
\* reply and of the cleaner leaves a packet without its request.
WaitingIsWatched ==
  \A d \in Address :
    packetsToSend[d] # <<>> => pendingRReplies[d] # Never \/ d \in overtaken

\* The refinement mapping: where a packet is.  What WifiRecv has in its hand
\* waits in the queue until it is on the air; what Tun2Wifi has is in no queue.
PlaceOf(p) ==
  IF p \notin submitted THEN "host"
  ELSE IF p \in {a.packet : a \in aired} THEN "air"
  ELSE IF IsWaiting(p) \/ hand["Tun2Wifi"] = p THEN "waiting"
  ELSE "lost"

\* No packet is for this node here: none is delivered.
Journey == INSTANCE PacketJourney WITH
  Node <- {},
  place <- [p \in Packet |-> PlaceOf(p)],
  delivered <- [n \in {} |-> <<>>]

\* The life of a packet between the three threads: although the route, the
\* request and the queue are each looked at under a lock of their own, and the
\* queue may be emptied by the cleaner or sent by WifiRecv meanwhile, a packet
\* is sent or forgotten, never both, and what is forgotten is not sent later.
ImplementsJourney == Journey!Spec
=============================================================================
