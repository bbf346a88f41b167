-------------------------- MODULE PacketAddresses --------------------------
(***************************************************************************)
(* The addresses of an IPv6 packet and their texts (class IPv6Packet, class *)
(* Address): the program copies addresses from the octets of a packet into  *)
(* texts, sends and compares texts, and copies texts into octets.           *)
(*                                                                         *)
(* Two programs use a packet.  The mesh (Wifi::send, PktPacket) sends its   *)
(* addresses and a number as headers, and another node reads them.  The     *)
(* test program (test.cpp) exchanges source and destination and writes the  *)
(* packet back.  An address is eight groups of 16 bits, a text a sequence   *)
(* of hexadecimal digits and colons.  inet_ntop and inet_pton belong to the *)
(* C library; the texts with an IPv4 address inside are left out.           *)
(***************************************************************************)
EXTENDS Integers, Sequences

CONSTANTS
  Hardware,    \* hardware addresses of wireless interfaces, six octets
  Random,      \* what two calls of rand give Wifi::IPfromHw
  Other,       \* more addresses that packets carry
  Seqs,        \* numbers of packets
  SeqModulus   \* 2^32, the width of Wifi::seq

Octet == 0 .. 255
Group == 0 .. 65535

ASSUME AddressAssumption ==
  /\ Hardware \subseteq [1 .. 6 -> Octet]
  /\ Random \subseteq Group
  /\ Other \subseteq [1 .. 8 -> Group]
  /\ SeqModulus \in Nat /\ Seqs \subseteq 0 .. SeqModulus - 1

VARIABLES
  at,        \* where the program that has the packet stands
  given,     \* [source, destination, seq] of the packet as it was read
  data,      \* the addresses in the octets of the packet
  source,    \* the local variable of test.cpp
  headers,   \* the headers Source, Destination and Seq of a PKT datagram
  packet,    \* what a node has parsed of them
  me,        \* that node
  to         \* the node that the packet is for

vars == <<at, given, data, source, headers, packet, me, to>>

Range8 == 1 .. 8
Colon == 16        \* the digits are 0 .. 15

Folded(op(_, _), base, s) ==
  LET f[i \in 0 .. Len(s)] == IF i = 0 THEN base ELSE op(f[i - 1], s[i])
  IN  f[Len(s)]
-----------------------------------------------------------------------------
(* The texts of the C library                                               *)

Digits(g) == <<g \div 4096, (g \div 256) % 16, (g \div 16) % 16, g % 16>>

\* A group without its leading zeros.
Hexa(g) ==
  LET d == Digits(g)
      first == CHOOSE i \in 1 .. 4 : /\ d[i] # 0 \/ i = 4
                                     /\ \A j \in 1 .. i - 1 : d[j] = 0
  IN  SubSeq(d, first, 4)

Join(texts) ==
  Folded(LAMBDA text, t : IF text = <<>> THEN t ELSE text \o <<Colon>> \o t, <<>>, texts)

\* Stretches of at least two groups of zero; the longest one, and the first
\* of these, is written "::".
ZeroRuns(groups) ==
  {<<i, j>> \in Range8 \X Range8 : i < j /\ \A k \in i .. j : groups[k] = 0}

inet_ntop(groups) ==
  LET hexa == [i \in Range8 |-> Hexa(groups[i])]
      runs == ZeroRuns(groups)
      run == CHOOSE r \in runs : \A s \in runs :
               \/ s[2] - s[1] < r[2] - r[1]
               \/ s[2] - s[1] = r[2] - r[1] /\ r[1] <= s[1]
  IN  IF runs = {} THEN Join(hexa)
      ELSE Join(SubSeq(hexa, 1, run[1] - 1)) \o <<Colon, Colon>>
             \o Join(SubSeq(hexa, run[2] + 1, 8))

\* The groups of a text without "::".
Groups(text) ==
  IF text = <<>> THEN <<>>
  ELSE Folded(LAMBDA groups, c :
                IF c = Colon THEN Append(groups, 0)
                ELSE [groups EXCEPT ![Len(groups)] = 16 * @ + c], <<0>>, text)

inet_pton(text) ==
  LET gaps == {i \in 1 .. Len(text) - 1 : text[i] = Colon /\ text[i + 1] = Colon}
      gap == CHOOSE i \in gaps : TRUE
      before == Groups(SubSeq(text, 1, gap - 1))
      after == Groups(SubSeq(text, gap + 2, Len(text)))
  IN  IF gaps = {} THEN Groups(text)
      ELSE before \o [k \in 1 .. 8 - Len(before) - Len(after) |-> 0] \o after
-----------------------------------------------------------------------------
(* Class Address and class IPv6Packet                                       *)

\* Address::Address(struct sockaddr) and Address::getSockAddr.
FromSockAddr(groups) == inet_ntop(groups)
getSockAddr(text) == inet_pton(text)

\* Mutant: the text is kept as it was given.
AddressAsGiven(text) == text

\* Address::Address(std::string): simplifyIP brings the text into one form.
Address(text) == FromSockAddr(getSockAddr(text))

\* operator==, on Address::compare.
Equal(text1, text2) == text1 = text2

\* Mutant: an octet below 16 is written with one digit.
ConvertToHexaShort(octet) ==
  IF octet < 16 THEN <<octet>> ELSE <<octet \div 16, octet % 16>>

convertToHexa(octet) == <<octet \div 16, octet % 16>>

\* getSourceAddress and getDestinationAddress, on their part of the data.
GetAddress(groups) ==
  Address(Join([i \in Range8 |-> convertToHexa(groups[i] \div 256)
                                   \o convertToHexa(groups[i] % 256)]))

\* A colon, the character after the digit 9, counts as 10.
convertFromHexa(c) == IF c = Colon THEN 10 ELSE c

\* setSourceAddress and setDestinationAddress read two characters for each
\* octet and skip one after each pair, whatever it is.  With a text of fewer
\* than 39 characters substr throws.
Fits(text) == Len(text) >= 39

SetAddress(text) ==
  [i \in Range8 |-> Folded(LAMBDA g, k : 16 * g + convertFromHexa(text[5 * i - 5 + k]),
                           0, <<1, 2, 3, 4>>)]

\* Mutant: the last octet of the hardware address is forgotten.
IPfromHwShort(node) ==
  LET hw == node.hw IN
  <<64768, 3489, 0, node.random, hw[1] * 256 + hw[2], hw[3] * 256 + 255,
    254 * 256 + hw[4], hw[4] * 256 + hw[5]>>

\* Wifi::IPfromHw: fd00:da1:0, two random octets, and the hardware address
\* around ff:fe.
IPfromHw(node) ==
  LET hw == node.hw IN
  <<64768, 3489, 0, node.random, hw[1] * 256 + hw[2], hw[3] * 256 + 255,
    254 * 256 + hw[4], hw[5] * 256 + hw[6]>>

\* String::fromInt takes an int, String::toInt gives a long, which goes into
\* the unsigned int of a PktPacket or an AckPacket.
FromInt(n) == IF n >= SeqModulus \div 2 THEN n - SeqModulus ELSE n

ToSeq(l) == l % SeqModulus
-----------------------------------------------------------------------------
Node == [hw: Hardware, random: Random]
IPv6 == Other \cup {IPfromHw(n) : n \in Node}

Init ==
  /\ at = "idle"
  /\ me \in Node /\ to = me
  /\ given = <<>> /\ data = <<>> /\ source = <<>>
  /\ headers = <<>> /\ packet = <<>>

Read(src, dst, n, where) ==
  /\ at = "idle"
  /\ given' = [source |-> src, destination |-> dst, seq |-> n]
  /\ data' = [source |-> src, destination |-> dst]
  /\ at' = where
  /\ UNCHANGED <<source, headers, packet, me>>

\* Tun2Wifi reads a packet for another node and sends it: PktPacket::PktPacket
\* and PktPacket::build.
ReadForMesh ==
  \E src \in IPv6, n \in Node, s \in Seqs :
    Read(src, IPfromHw(n), s, "send") /\ to' = n

SendPkt ==
  /\ at = "send"
  /\ headers' = [source |-> GetAddress(data.source),
                 destination |-> GetAddress(data.destination),
                 seq |-> FromInt(given.seq)]
  /\ at' = "sent"
  /\ UNCHANGED <<given, data, source, packet, me, to>>

\* PktPacket::PktPacket(GTTPacket) on the node me.
ReceivePkt ==
  /\ at = "sent"
  /\ packet' = [source |-> Address(headers.source),
                destination |-> Address(headers.destination),
                seq |-> ToSeq(headers.seq)]
  /\ at' = "received"
  /\ UNCHANGED <<given, data, source, headers, me, to>>

\* The test program reads a packet and keeps its source ...
ReadForTest ==
  \E src, dst \in IPv6 : Read(src, dst, 0, "source") /\ UNCHANGED to

KeepSource ==
  /\ at = "source"
  /\ source' = GetAddress(data.source)
  /\ at' = "setSource"
  /\ UNCHANGED <<given, data, headers, packet, me, to>>

\* ... writes the destination over it ...
SetSource ==
  LET text == GetAddress(data.destination) IN
  /\ at = "setSource"
  /\ IF Fits(text)
       THEN /\ data' = [data EXCEPT !.source = SetAddress(text)]
            /\ at' = "setDestination"
       ELSE at' = "terminated" /\ UNCHANGED data
  /\ UNCHANGED <<given, source, headers, packet, me, to>>

\* Mutant: the source is read again, after it has been overwritten.
SetDestinationReread ==
  LET text == GetAddress(data.source) IN
  /\ at = "setDestination"
  /\ IF Fits(text)
       THEN /\ data' = [data EXCEPT !.destination = SetAddress(text)]
            /\ at' = "exchanged"
       ELSE at' = "terminated" /\ UNCHANGED data
  /\ UNCHANGED <<given, source, headers, packet, me, to>>

\* ... and the source over the destination.  An exception of substr is none
\* of the program's own, and ends it.
SetDestination ==
  /\ at = "setDestination"
  /\ IF Fits(source)
       THEN /\ data' = [data EXCEPT !.destination = SetAddress(source)]
            /\ at' = "exchanged"
       ELSE at' = "terminated" /\ UNCHANGED data
  /\ UNCHANGED <<given, source, headers, packet, me, to>>

Next ==
  \/ ReadForMesh \/ SendPkt \/ ReceivePkt
  \/ ReadForTest \/ KeepSource \/ SetSource \/ SetDestination

Spec == Init /\ [][Next]_vars
-----------------------------------------------------------------------------
Texts == Seq(0 .. Colon)

\* Typing; every address text is in the one form of inet_ntop, whoever has
\* written it, since texts are compared as strings (Address::compare) and
\* are the keys of the routing table and of every map of class Wifi.
TypeOK ==
  /\ at \in {"idle", "send", "sent", "received", "source", "setSource",
              "setDestination", "exchanged", "terminated"}
  /\ me \in Node /\ to \in Node
  /\ at # "idle" => data.source \in [1 .. 8 -> Group]
                     /\ data.destination \in [1 .. 8 -> Group]
  /\ source \in {<<>>} \cup {inet_ntop(a) : a \in IPv6}
  /\ at \in {"sent", "received"} =>
       /\ headers.source = inet_ntop(given.source)
       /\ headers.destination = inet_ntop(given.destination)

\* The addresses and the number of a packet survive the way over octets,
\* texts, headers and texts again: the receiver answers to the node that
\* sent, under the number that node has recorded.
ArrivesAsSent ==
  at = "received" =>
    /\ inet_pton(packet.source) = given.source
    /\ inet_pton(packet.destination) = given.destination
    /\ packet.seq = given.seq

\* destination == address in receivePkt: a node takes a packet for its own
\* exactly if the packet is for it, and for no node with other hardware.
TakenByOwner ==
  at = "received" =>
    (Equal(packet.destination, FromSockAddr(IPfromHw(me))) <=> to = me)

\* What the test program writes back has its addresses exchanged, if it gets
\* that far.
Exchanges ==
  at = "exchanged" =>
    data = [source |-> given.destination, destination |-> given.source]
=============================================================================
