------------------------------ MODULE GTTParser ------------------------------
(***************************************************************************)
(* The receiving thread of a node from the socket to the handlers: the     *)
(* loop Wifi::recvRun, class GTTParser and the LineParser below it.  One    *)
(* parser lives as long as the thread, so that what a datagram leaves in    *)
(* its buffer meets the next datagram.                                      *)
(*                                                                         *)
(* The stream is cut into units.  The text of a line is one unit (a first   *)
(* line, a header, a content-length); the other units are single bytes.    *)
(* Each counts as one byte of a body.                                       *)
(***************************************************************************)
EXTENDS Naturals, SequencesExt

CONSTANTS
  Method, Key, Value,  \* protocols with methods, header names, values of headers
  InOrder,             \* set of header names -> the names as std::map lists them
  KeysOf,              \* known method -> the headers its packet class knows
  OtherProtocol,       \* those of the methods that come with another protocol
  NumberKey,           \* the headers that are read as numbers
  Packet,              \* packets the peers send
  Foreign,             \* datagrams that other programs send to the port
  MaxAlloc,            \* the most bytes that new[] can give for a body
  MaxForeign,          \* how many of them, for model checking only
  Garbled,             \* a value made of several texts glued together
  None                 \* stands for a method not read yet and for NULL

CR == <<"cr">>
LF == <<"lf">>
NUL == <<"nul">>
FirstLine(m) == <<"first", m>>
Header(k, v) == <<"header", k, v>>
ContentLength(n) == <<"length", n>>

HeaderValue == Value \cup {Garbled}

Unit == {CR, LF, NUL} \cup ({"first"} \X Method) \cup ({"header"} \X Key \X HeaderValue)
        \cup ({"length"} \X Nat)

Headers == UNION {[ks -> HeaderValue] : ks \in SUBSET Key}

GTTPacket == [method: Method \cup {None}, headers: Headers, size: Nat, body: Seq(Unit)]
NewPacket == [method |-> None, headers |-> <<>>, size |-> 0, body |-> <<>>]

\* The packet classes say the length of their body, which fits into memory, and
\* a std::map lists each name once.
ASSUME PacketAssumption ==
  \A p \in Packet : /\ p \in GTTPacket /\ p.method \in Method
                    /\ p.size = Len(p.body) /\ p.size <= MaxAlloc
ASSUME OrderAssumption ==
  \A ks \in SUBSET Key : InOrder[ks] \in Seq(Key) /\ IsInjective(InOrder[ks])
                         /\ ToSet(InOrder[ks]) = ks
ASSUME NoneAssumption == None \notin Method \cup GTTPacket
ASSUME ForeignAssumption ==
  Foreign \subseteq Seq(Unit) /\ MaxForeign \in Nat /\ MaxAlloc \in Nat

VARIABLES
  buffer,      \* LineParser::buffer
  datapos,     \* GTTParser::datapos
  currentPkt,  \* GTTParser::currentPkt, None for NULL
  hasError,    \* GTTParser::hasError
  pc,          \* "recv" in server->recv, "parse" in the getPacket loop,
               \* "terminated" by an exception that nobody catches
  latest,      \* history: the packet in the last datagram, None if foreign
  aligned,     \* history: that datagram came to an idle parser
  handled,     \* history: packets handed to a handler since it came
  foreign      \* number of foreign datagrams received so far

vars == <<buffer, datapos, currentPkt, hasError, pc, latest, aligned, handled, foreign>>
history == <<latest, aligned, foreign>>

Init ==
  /\ buffer = <<>>
  /\ datapos = "firstLine"
  /\ currentPkt = None
  /\ hasError = FALSE
  /\ pc = "recv"
  /\ latest = None
  /\ aligned = TRUE
  /\ handled = <<>>
  /\ foreign = 0
-----------------------------------------------------------------------------
(* GTTPacket::build.                                                        *)

Line(unit) == <<unit, CR, LF>>

\* The lines of the headers, three units each, one after the other.
HeaderLines(p) ==
  LET keys == InOrder[DOMAIN p.headers]
      line(i) == Line(Header(keys[i], p.headers[keys[i]]))
  IN [u \in 1 .. 3 * Len(keys) |-> line((u + 2) \div 3)[((u - 1) % 3) + 1]]

\* The content-length comes last, and only for a body that is not empty.
Build(p) ==
  Line(FirstLine(p.method)) \o HeaderLines(p)
    \o (IF p.size > 0 THEN Line(ContentLength(p.size)) ELSE <<>>)
    \o <<CR, LF>> \o p.body
-----------------------------------------------------------------------------
(* LineParser.                                                              *)

\* The end of the first line of the buffer, 0 if no line is complete.
LineEnd == SelectInSeq(buffer, LAMBDA u : u = LF)
HasLine == LineEnd > 0

\* Mutant: only the "\n" is taken off.
PoppedLineWithCR == SubSeq(buffer, 1, LineEnd - 1)

\* popLine takes "\n" or "\r\n" off, and assigns the line as a C string.
PoppedLine ==
  LET text == SubSeq(buffer, 1, IF LineEnd > 1 /\ buffer[LineEnd - 1] = CR
                                  THEN LineEnd - 2 ELSE LineEnd - 1)
      nul == SelectInSeq(text, LAMBDA u : u = NUL)
  IN IF nul = 0 THEN text ELSE SubSeq(text, 1, nul - 1)

\* skip: the first n bytes of the buffer leave it.
Skip(n) == SubSeq(buffer, n + 1, Len(buffer))
-----------------------------------------------------------------------------
(* The grammar of GTTParser: what its parse functions do not throw at.      *)

\* Two texts on one line never make a first line: it has only one space.
IsFirstLine(line) == Len(line) = 1 /\ line[1][1] = "first"

\* A text glued to a header is part of its value; a "\r" is not printable.
IsHeader(line) ==
  /\ line[1][1] = "header"
  /\ \A i \in 2 .. Len(line) : line[i] # CR

\* A content-length is one number, and the first of its packet.  It is kept as
\* an unsigned long, so that the test for a positive one refuses 0 only and a
\* negative number is a huge one.
IsContentLength(line) ==
  /\ Len(line) = 1 /\ line[1][1] = "length"
  /\ line[1][2] > 0
  /\ currentPkt.size = 0

\* The packet once the header is read; a header read twice is overwritten.
WithHeader(line) ==
  LET k == line[1][2]
      v == IF Len(line) = 1 THEN line[1][3] ELSE Garbled
  IN [currentPkt EXCEPT !.headers =
        [h \in DOMAIN @ \cup {k} |-> IF h = k THEN v ELSE @[h]]]

\* The constructor of the packet class throws at another protocol, at a header
\* it does not know and at a number with more than digits; for an unknown method
\* there is no class, and only a message in the log.
Rejected(p) ==
  /\ p.method \in DOMAIN KeysOf
  /\ \/ p.method \in OtherProtocol
     \/ ~(DOMAIN p.headers \subseteq KeysOf[p.method])
     \/ \E k \in NumberKey \cap DOMAIN p.headers : p.headers[k] = Garbled
-----------------------------------------------------------------------------
Idle == buffer = <<>> /\ datapos = "firstLine"

\* One datagram read from the socket and pushed into the line parser.
Receive(datagram) ==
  /\ pc = "recv"
  /\ buffer' = buffer \o datagram
  /\ pc' = "parse"
  /\ aligned' = Idle
  /\ handled' = <<>>
  /\ UNCHANGED <<datapos, currentPkt, hasError>>

ReceivePacket(p) ==
  /\ Receive(Build(p))
  /\ latest' = p
  /\ UNCHANGED foreign

ReceiveForeign(d) ==
  /\ foreign < MaxForeign
  /\ Receive(d)
  /\ latest' = None
  /\ foreign' = foreign + 1

\* Mutant: the buffer is thrown away with the line, the position is kept.
FailDroppingBuffer ==
  /\ buffer' = <<>>
  /\ hasError' = TRUE
  /\ pc' = "recv"
  /\ UNCHANGED datapos

\* getPacket catches the exception of a line: the line is gone, the packet
\* and the position stay.  It answers NULL, which ends the inner loop.
Fail ==
  /\ buffer' = Skip(LineEnd)
  /\ hasError' = TRUE
  /\ pc' = "recv"
  /\ UNCHANGED datapos

\* Not enough data: NULL.
Starve ==
  /\ pc' = "recv"
  /\ UNCHANGED <<buffer, datapos, hasError>>

ReadFirstLine ==
  LET packet == IF currentPkt = None THEN NewPacket ELSE currentPkt IN
  /\ pc = "parse" /\ datapos = "firstLine"
  /\ \/ /\ ~HasLine
        /\ Starve
        /\ currentPkt' = packet
     \/ /\ HasLine /\ ~IsFirstLine(PoppedLine)
        /\ Fail
        /\ currentPkt' = packet
     \/ /\ HasLine /\ IsFirstLine(PoppedLine)
        /\ buffer' = Skip(LineEnd)
        /\ currentPkt' = [packet EXCEPT !.method = PoppedLine[1][2]]
        /\ datapos' = "headers"
        /\ UNCHANGED <<hasError, pc>>
  /\ UNCHANGED <<handled, history>>

ReadHeader ==
  /\ pc = "parse" /\ datapos = "headers"
  /\ \/ /\ ~HasLine
        /\ Starve
        /\ UNCHANGED currentPkt
     \/ /\ HasLine /\ PoppedLine = <<>>
        /\ buffer' = Skip(LineEnd)
        /\ datapos' = "content"
        /\ UNCHANGED <<currentPkt, hasError, pc>>
     \/ /\ HasLine /\ PoppedLine # <<>>
        /\ IF IsHeader(PoppedLine) \/ IsContentLength(PoppedLine)
             THEN /\ buffer' = Skip(LineEnd)
                  /\ currentPkt' = IF IsHeader(PoppedLine) THEN WithHeader(PoppedLine)
                                   ELSE [currentPkt EXCEPT !.size = PoppedLine[1][2]]
                  /\ UNCHANGED <<datapos, hasError, pc>>
             ELSE Fail /\ UNCHANGED currentPkt
  /\ UNCHANGED <<handled, history>>

\* The packet is complete.  Its handler runs before the next getPacket; an
\* exception of the constructor leaves the inner loop.
ReadContent ==
  LET packet == [currentPkt EXCEPT !.body = SubSeq(buffer, 1, currentPkt.size)] IN
  /\ pc = "parse" /\ datapos = "content"
  /\ currentPkt.size <= MaxAlloc
  /\ \/ /\ currentPkt.size > Len(buffer)
        /\ Starve
        /\ UNCHANGED <<currentPkt, handled>>
     \/ /\ currentPkt.size <= Len(buffer)
        /\ buffer' = Skip(currentPkt.size)
        /\ currentPkt' = None
        /\ datapos' = "firstLine"
        /\ hasError' = FALSE
        /\ handled' = Append(handled, packet)
        /\ pc' = IF Rejected(packet) THEN "recv" ELSE "parse"
  /\ UNCHANGED history

\* new[] throws std::bad_alloc, which is no Exception of the program: it leaves
\* recvRun and its thread, and with it ends the process.
RunOutOfMemory ==
  /\ pc = "parse" /\ datapos = "content"
  /\ currentPkt.size > MaxAlloc
  /\ pc' = "terminated"
  /\ UNCHANGED <<buffer, datapos, currentPkt, hasError, handled, history>>

GetPacket == ReadFirstLine \/ ReadHeader \/ ReadContent \/ RunOutOfMemory

Next ==
  \/ \E p \in Packet : ReceivePacket(p)
  \/ \E d \in Foreign : ReceiveForeign(d)
  \/ GetPacket

Spec == Init /\ [][Next]_vars

\* The thread runs, and the peers go on talking.
FairSpec ==
  /\ Spec
  /\ WF_vars(GetPacket)
  /\ WF_vars(\E p \in Packet : ReceivePacket(p))
-----------------------------------------------------------------------------
TypeOK ==
  /\ buffer \in Seq(Unit)
  /\ datapos \in {"firstLine", "headers", "content"}
  /\ currentPkt \in GTTPacket \cup {None}
  /\ datapos # "firstLine" => currentPkt # None /\ currentPkt.method # None
  /\ hasError \in BOOLEAN
  /\ pc \in {"recv", "parse", "terminated"}
  /\ latest \in Packet \cup {None}
  /\ aligned \in BOOLEAN
  /\ handled \in Seq(GTTPacket)
  /\ foreign \in 0 .. MaxForeign

\* A packet that comes to an idle parser is handled at once, just as it was
\* built, whatever bytes its body holds; the parser is idle again.
TakenWhole ==
  pc = "recv" /\ aligned /\ latest # None => handled = <<latest>> /\ Idle

\* Once only the peers are talking, the parser gets back in step with them,
\* and every further packet is taken whole.  (A foreign length that new[] cannot
\* give a body for ends the process instead.)
Resynchronises == <>[](pc = "recv" => Idle)
=============================================================================
