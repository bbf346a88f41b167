--------------------------- MODULE GTTParserProofs ---------------------------
(* Proofs about GTTParser: a packet that comes to an idle parser is read as *)
(* it was built, whatever its headers and the bytes of its body, and        *)
(* whatever the parser was fed before.                                      *)
EXTENDS GTTParser, SequenceTheorems, WellFoundedInduction, TLAPS

\* The order in which the headers of p are written, and how many there are.
Names(p) == InOrder[DOMAIN p.headers]
Count(p) == Len(Names(p))

\* What comes after the header lines.
Ending(p) ==
  (IF p.size > 0 THEN Line(ContentLength(p.size)) ELSE <<>>) \o <<CR, LF>> \o p.body

\* What is left of the datagram once its first line and j headers are read.
Rest(s, n) == SubSeq(s, n + 1, Len(s))
LeftAfter(p, j) == Rest(Build(p), 3 * j + 3)

\* The first j headers of p.
FirstHeaders(p, j) == [k \in {Names(p)[i] : i \in 1 .. j} |-> p.headers[k]]

\* How far the parser is with a packet p that came to it when it was idle.
AtFirstLine(p) ==
  datapos = "firstLine" /\ buffer = Build(p) /\ handled = <<>> /\ pc = "parse"

AtHeader(p, j) ==
  /\ datapos = "headers" /\ handled = <<>> /\ pc = "parse"
  /\ buffer = LeftAfter(p, j)
  /\ currentPkt = [method |-> p.method, headers |-> FirstHeaders(p, j), size |-> 0, body |-> <<>>]

AtBlankLine(p) ==
  /\ datapos = "headers" /\ handled = <<>> /\ pc = "parse"
  /\ buffer = <<CR, LF>> \o p.body
  /\ currentPkt = [p EXCEPT !.body = <<>>]

AtContent(p) ==
  /\ datapos = "content" /\ handled = <<>> /\ pc = "parse"
  /\ buffer = p.body
  /\ currentPkt = [p EXCEPT !.body = <<>>]

Progress(p) ==
  \/ AtFirstLine(p)
  \/ \E j \in 0 .. Count(p) : AtHeader(p, j)
  \/ AtBlankLine(p)
  \/ AtContent(p)
  \/ handled = <<p>> /\ Idle

\* A parser that waits for a first line has read nothing of a packet.
FreshInv == datapos = "firstLine" => currentPkt \in {None, NewPacket}

\* A packet that came to an idle parser is somewhere on its way through it.
ProgressInv == \A p \in Packet : aligned /\ latest = p => Progress(p)

ParserInv == TypeOK /\ FreshInv /\ ProgressInv
-----------------------------------------------------------------------------
(* Lines. *)

FirstPlace(s, u) == SelectInSeq(s, LAMBDA v : v = u)

\* A set of numbers that is not empty has a smallest one.
LEMMA SmallestIn ==
  ASSUME NEW I, I \subseteq Nat, I # {}
  PROVE  Min(I) \in I /\ \A i \in I : Min(I) <= i
<1> DEFINE R == OpToRel(<, Nat)
<1>1. \A i, m \in Nat : i < m => <<i, m>> \in R
  BY DEF OpToRel
<1>2. IsWellFoundedOn(R, Nat)
  BY NatLessThanWellFounded
<1> HIDE DEF R
<1>3. PICK m \in I : \A i \in I : ~(<<i, m>> \in R)
  BY <1>2, WFMin
<1>4. m \in Nat
  OBVIOUS
<1>5. \A i \in I : m <= i
  <2> SUFFICES ASSUME NEW i \in I PROVE m <= i
    OBVIOUS
  <2>1. i \in Nat /\ ~(i < m)
    BY <1>1, <1>3, <1>4
  <2> QED  BY <1>4, <2>1
<1> QED
  BY <1>5 DEF Min

\* The first place of a unit in a sequence, 0 if it is not there.
LEMMA FirstPlaceOf ==
  ASSUME NEW S, NEW s \in Seq(S), NEW u
  PROVE  /\ FirstPlace(s, u) \in 0 .. Len(s)
         /\ FirstPlace(s, u) > 0 => s[FirstPlace(s, u)] = u
         /\ \A i \in 1 .. Len(s) :
              s[i] = u => FirstPlace(s, u) > 0 /\ FirstPlace(s, u) <= i
<1> DEFINE I == {i \in 1 .. Len(s) : s[i] = u}
<1>1. FirstPlace(s, u) = IF I # {} THEN Min(I) ELSE 0
  BY DEF FirstPlace, SelectInSeq
<1>2. I \subseteq Nat /\ Len(s) \in Nat
  OBVIOUS
<1>3. I # {} => Min(I) \in I /\ \A i \in I : Min(I) <= i
  <2> HIDE DEF I
  <2> QED  BY <1>2, SmallestIn
<1>4. CASE I = {}
  <2>1. FirstPlace(s, u) = 0
    BY <1>1, <1>4
  <2>2. \A i \in 1 .. Len(s) : s[i] # u
    BY <1>4
  <2> QED  BY <1>2, <2>1, <2>2
<1>5. CASE I # {}
  <2>1. FirstPlace(s, u) \in I /\ \A i \in I : FirstPlace(s, u) <= i
    BY <1>1, <1>3, <1>5
  <2> QED  BY <2>1, <1>2
<1> QED
  BY <1>4, <1>5

\* A line ends at the first "\n".
LEMMA LineEndPlace == LineEnd = FirstPlace(buffer, LF)
BY DEF LineEnd, FirstPlace, SelectInSeq

\* The end of a line is in the buffer.
LEMMA LineEndType ==
  ASSUME buffer \in Seq(Unit), HasLine
  PROVE  LineEnd \in 1 .. Len(buffer)
<1>1. LineEnd \in 0 .. Len(buffer)
  BY FirstPlaceOf, LineEndPlace
<1> QED
  BY <1>1 DEF HasLine

\* What is left after skip are units of the buffer.
LEMMA SkipType ==
  ASSUME buffer \in Seq(Unit), NEW n \in 0 .. Len(buffer)
  PROVE  Skip(n) \in Seq(Unit)
BY DEF Skip

\* popLine gives units of the buffer.
LEMMA PoppedType ==
  ASSUME buffer \in Seq(Unit), HasLine
  PROVE  PoppedLine \in Seq(Unit)
<1>1. LineEnd \in 1 .. Len(buffer)
  BY LineEndType
<1> DEFINE end == IF LineEnd > 1 /\ buffer[LineEnd - 1] = CR THEN LineEnd - 2 ELSE LineEnd - 1
           text == SubSeq(buffer, 1, end)
           nul == FirstPlace(text, NUL)
<1>2. end \in 0 .. Len(buffer)
  BY <1>1
<1>3. text \in Seq(Unit)
  BY <1>2
<1>4. PoppedLine = IF nul = 0 THEN text ELSE SubSeq(text, 1, nul - 1)
  BY DEF PoppedLine, FirstPlace
<1> HIDE DEF text
<1>5. nul \in 0 .. Len(text)
  BY <1>3, FirstPlaceOf
<1> HIDE DEF nul
<1> QED
  BY <1>3, <1>4, <1>5

\* One text and "\r\n" make a line of that text.
LEMMA LineOfText ==
  ASSUME buffer \in Seq(Unit), Len(buffer) >= 3,
         buffer[1] \notin {CR, LF, NUL}, buffer[2] = CR, buffer[3] = LF
  PROVE  /\ HasLine /\ LineEnd = 3
         /\ PoppedLine = <<buffer[1]>>
<1>1. CR # LF
  BY DEF CR, LF
<1>2. LineEnd = 3 /\ HasLine
  <2>1. /\ LineEnd \in 0 .. Len(buffer)
        /\ LineEnd > 0 => buffer[LineEnd] = LF
        /\ \A i \in 1 .. Len(buffer) : buffer[i] = LF => LineEnd > 0 /\ LineEnd <= i
    BY FirstPlaceOf, LineEndPlace
  <2>2. LineEnd > 0 /\ LineEnd <= 3
    BY <2>1
  <2> QED  BY <1>1, <2>1, <2>2 DEF HasLine
<1> DEFINE text == SubSeq(buffer, 1, 1)
           nul == FirstPlace(text, NUL)
<1>3. text \in Seq(Unit) /\ Len(text) = 1 /\ text[1] = buffer[1]
  OBVIOUS
<1>4. text = <<buffer[1]>>
  <2> HIDE DEF text
  <2> QED  BY <1>3
<1>5. PoppedLine = IF nul = 0 THEN text ELSE SubSeq(text, 1, nul - 1)
  BY <1>2 DEF PoppedLine, FirstPlace
<1> HIDE DEF text
<1>6. nul = 0
  <2>1. nul \in 0 .. 1 /\ (nul > 0 => text[nul] = NUL)
    BY <1>3, FirstPlaceOf
  <2> HIDE DEF nul
  <2> QED  BY <1>3, <2>1
<1> QED
  BY <1>2, <1>4, <1>5, <1>6

\* "\r\n" alone makes an empty line.
LEMMA BlankLine ==
  ASSUME buffer \in Seq(Unit), Len(buffer) >= 2, buffer[1] = CR, buffer[2] = LF
  PROVE  /\ HasLine /\ LineEnd = 2
         /\ PoppedLine = <<>>
<1>1. CR # LF
  BY DEF CR, LF
<1>2. LineEnd = 2 /\ HasLine
  <2>1. /\ LineEnd \in 0 .. Len(buffer)
        /\ LineEnd > 0 => buffer[LineEnd] = LF
        /\ \A i \in 1 .. Len(buffer) : buffer[i] = LF => LineEnd > 0 /\ LineEnd <= i
    BY FirstPlaceOf, LineEndPlace
  <2>2. LineEnd > 0 /\ LineEnd <= 2
    BY <2>1
  <2> QED  BY <1>1, <2>1, <2>2 DEF HasLine
<1> DEFINE text == SubSeq(buffer, 1, 0)
           nul == FirstPlace(text, NUL)
<1>3. text = <<>> /\ text \in Seq(Unit)
  BY SubSeqEmpty
<1>4. PoppedLine = IF nul = 0 THEN text ELSE SubSeq(text, 1, nul - 1)
  BY <1>2 DEF PoppedLine, FirstPlace
<1>5. nul = 0
  <2>1. nul \in 0 .. Len(text)
    BY <1>3, FirstPlaceOf
  <2> QED  BY <1>3, <2>1
<1> QED
  BY <1>2, <1>3, <1>4, <1>5

-----------------------------------------------------------------------------
(* What is left of a sequence, and of a datagram. *)

\* The rest of a sequence after its first n elements.
LEMMA RestOf ==
  ASSUME NEW S, NEW s \in Seq(S), NEW n \in 0 .. Len(s)
  PROVE  /\ Rest(s, n) \in Seq(S)
         /\ Len(Rest(s, n)) = Len(s) - n
         /\ \A i \in 1 .. Len(s) - n : Rest(s, n)[i] = s[n + i]
<1>1. Len(s) \in Nat /\ \A i \in n + 1 .. Len(s) : s[i] \in S
  BY ElementOfSeq
<1>2. n + 1 \in Int /\ Len(s) \in Int
  BY <1>1
<1>3. /\ SubSeq(s, n + 1, Len(s)) \in Seq(S)
      /\ Len(SubSeq(s, n + 1, Len(s))) = IF n + 1 <= Len(s) THEN Len(s) - (n + 1) + 1 ELSE 0
      /\ \A i \in 1 .. Len(s) - (n + 1) + 1 : SubSeq(s, n + 1, Len(s))[i] = s[(n + 1) + i - 1]
  BY <1>1, <1>2, SubSeqProperties
<1> QED
  BY <1>1, <1>3 DEF Rest

\* The rest of a rest.
LEMMA RestOfRest ==
  ASSUME NEW S, NEW s \in Seq(S), NEW n \in 0 .. Len(s), NEW m \in 0 .. Len(s) - n
  PROVE  Rest(Rest(s, n), m) = Rest(s, n + m)
<1>1. Len(s) \in Nat /\ n + m \in 0 .. Len(s)
  OBVIOUS
<1> DEFINE a == Rest(s, n)
           b == Rest(s, n + m)
           c == Rest(a, m)
<1>2. a \in Seq(S) /\ Len(a) = Len(s) - n /\ \A i \in 1 .. Len(s) - n : a[i] = s[n + i]
  BY RestOf
<1>3. b \in Seq(S) /\ Len(b) = Len(s) - (n + m)
      /\ \A i \in 1 .. Len(s) - (n + m) : b[i] = s[(n + m) + i]
  BY <1>1, RestOf
<1>4. c \in Seq(S) /\ Len(c) = Len(a) - m /\ \A i \in 1 .. Len(a) - m : c[i] = a[m + i]
  <2> HIDE DEF a
  <2>1. m \in 0 .. Len(a)
    BY <1>1, <1>2
  <2> QED  BY <1>2, <2>1, RestOf
<1> HIDE DEF a, b, c
<1>5. Len(c) = Len(b) /\ Len(b) \in Nat
  BY <1>1, <1>2, <1>3, <1>4
<1>6. ASSUME NEW i \in 1 .. Len(c)
      PROVE  c[i] = b[i]
  <2>1. c[i] = a[m + i] /\ m + i \in 1 .. Len(s) - n
    BY <1>1, <1>2, <1>4
  <2>2. a[m + i] = s[n + (m + i)]
    BY <1>2, <2>1
  <2>3. b[i] = s[(n + m) + i]
    BY <1>1, <1>3, <1>5
  <2>4. n + (m + i) = (n + m) + i
    BY <1>1
  <2> QED  BY <2>1, <2>2, <2>3, <2>4
<1>7. c = b
  BY <1>3, <1>4, <1>5, <1>6, SeqEqual
<1> QED
  BY <1>7 DEF a, b, c

\* After the first of two sequences, the second is left.
LEMMA RestOfConcat ==
  ASSUME NEW S, NEW s \in Seq(S), NEW t \in Seq(S)
  PROVE  Rest(s \o t, Len(s)) = t
<1> DEFINE a == s \o t
           b == Rest(a, Len(s))
<1>1. Len(s) \in Nat /\ Len(t) \in Nat
  OBVIOUS
<1>2. a \in Seq(S) /\ Len(a) = Len(s) + Len(t)
      /\ \A i \in 1 .. Len(s) + Len(t) : a[i] = IF i <= Len(s) THEN s[i] ELSE t[i - Len(s)]
  BY ConcatProperties
<1>3. b \in Seq(S) /\ Len(b) = Len(t)
      /\ \A i \in 1 .. Len(t) : b[i] = a[Len(s) + i]
  <2> HIDE DEF a
  <2>1. Len(s) \in 0 .. Len(a)
    BY <1>1, <1>2
  <2>2. b \in Seq(S) /\ Len(b) = Len(a) - Len(s)
        /\ \A i \in 1 .. Len(a) - Len(s) : b[i] = a[Len(s) + i]
    BY <1>2, <2>1, RestOf
  <2> QED  BY <1>1, <1>2, <2>2
<1> HIDE DEF a, b
<1>4. ASSUME NEW i \in 1 .. Len(b)
      PROVE  b[i] = t[i]
  <2>1. b[i] = a[Len(s) + i]
    BY <1>3
  <2>2. a[Len(s) + i] = t[(Len(s) + i) - Len(s)]
    <3>1. i \in 1 .. Len(t)
      BY <1>3
    <3>2. Len(s) + i \in 1 .. Len(s) + Len(t) /\ ~(Len(s) + i <= Len(s))
      BY <1>1, <3>1
    <3> QED  BY <1>2, <3>2
  <2>3. (Len(s) + i) - Len(s) = i
    BY <1>1
  <2> QED  BY <2>1, <2>2, <2>3
<1>5. b = t
  BY <1>3, <1>4, SeqEqual
<1> QED
  BY <1>5 DEF a, b

-----------------------------------------------------------------------------
(* The datagram of a packet. *)

\* What a packet is made of, and that its names come once each.
LEMMA PacketParts ==
  ASSUME NEW p \in Packet
  PROVE  /\ p \in GTTPacket /\ p # None
         /\ p.method \in Method /\ p.method # None
         /\ p.size = Len(p.body) /\ p.body \in Seq(Unit) /\ p.size \in Nat
         /\ p.size <= MaxAlloc
         /\ DOMAIN p.headers \subseteq Key
         /\ p.headers = [k \in DOMAIN p.headers |-> p.headers[k]]
         /\ \A k \in DOMAIN p.headers : p.headers[k] \in HeaderValue
<1>1. p \in GTTPacket /\ p.method \in Method /\ p.size = Len(p.body) /\ p.size <= MaxAlloc
  BY PacketAssumption
<1>2. p.body \in Seq(Unit) /\ p.size \in Nat /\ p.headers \in Headers
  BY <1>1 DEF GTTPacket
<1>3. PICK ks \in SUBSET Key : p.headers \in [ks -> HeaderValue]
  BY <1>2 DEF Headers
<1> QED
  BY <1>1, <1>2, <1>3, NoneAssumption

\* A std::map lists each header name of the packet once.
LEMMA NamesOf ==
  ASSUME NEW p \in Packet
  PROVE  /\ Names(p) \in Seq(Key) /\ Count(p) \in Nat
         /\ \A i \in 1 .. Count(p) : Names(p)[i] \in DOMAIN p.headers
         /\ \A k \in DOMAIN p.headers : \E i \in 1 .. Count(p) : k = Names(p)[i]
         /\ \A i, j \in 1 .. Count(p) : Names(p)[i] = Names(p)[j] => i = j
<1>1. DOMAIN p.headers \in SUBSET Key
  BY PacketParts
<1>2. /\ Names(p) \in Seq(Key) /\ IsInjective(Names(p))
      /\ ToSet(Names(p)) = DOMAIN p.headers
  BY <1>1, OrderAssumption DEF Names
<1>3. Count(p) \in Nat /\ DOMAIN Names(p) = 1 .. Count(p)
  BY <1>2 DEF Count
<1>4. ToSet(Names(p)) = {Names(p)[i] : i \in 1 .. Count(p)}
  BY <1>3 DEF ToSet
<1>5. \A i, j \in 1 .. Count(p) : Names(p)[i] = Names(p)[j] => i = j
  BY <1>2, <1>3 DEF IsInjective
<1> QED
  BY <1>2, <1>3, <1>4, <1>5

\* The lines that come first, up to the last header.
Opening(p) == Line(FirstLine(p.method)) \o HeaderLines(p)

HeaderAt(p, i) == Header(Names(p)[i], p.headers[Names(p)[i]])

\* The units of one line.
LEMMA LineType ==
  ASSUME NEW u \in Unit
  PROVE  /\ Line(u) \in Seq(Unit) /\ Len(Line(u)) = 3
         /\ Line(u)[1] = u /\ Line(u)[2] = CR /\ Line(u)[3] = LF
BY DEF Line, Unit

\* A header, a first line and a content-length are units of their own kind.
LEMMA UnitKinds ==
  ASSUME NEW p \in Packet
  PROVE  /\ FirstLine(p.method) \in Unit \ {CR, LF, NUL}
         /\ ContentLength(p.size) \in Unit \ {CR, LF, NUL}
         /\ \A i \in 1 .. Count(p) : HeaderAt(p, i) \in Unit \ {CR, LF, NUL}
<1>1. FirstLine(p.method) \in Unit \ {CR, LF, NUL}
  BY PacketParts DEF FirstLine, Unit, CR, LF, NUL
<1>2. ContentLength(p.size) \in Unit \ {CR, LF, NUL}
  BY PacketParts DEF ContentLength, Unit, CR, LF, NUL
<1>3. ASSUME NEW i \in 1 .. Count(p)
      PROVE  HeaderAt(p, i) \in Unit \ {CR, LF, NUL}
  <2>1. Names(p)[i] \in Key /\ p.headers[Names(p)[i]] \in HeaderValue
    BY NamesOf, PacketParts
  <2> QED
    BY <2>1 DEF HeaderAt, Header, Unit, CR, LF, NUL
<1> QED
  BY <1>1, <1>2, <1>3

\* The header lines, unit by unit.
LEMMA HeaderLinesOf ==
  ASSUME NEW p \in Packet
  PROVE  /\ HeaderLines(p) \in Seq(Unit) /\ Len(HeaderLines(p)) = 3 * Count(p)
         /\ \A i \in 1 .. Count(p) :
              /\ HeaderLines(p)[3 * i - 2] = HeaderAt(p, i)
              /\ HeaderLines(p)[3 * i - 1] = CR
              /\ HeaderLines(p)[3 * i] = LF
<1> DEFINE K == Count(p)
           h(u) == Line(HeaderAt(p, (u + 2) \div 3))[((u - 1) % 3) + 1]
<1>1. HeaderLines(p) = [u \in 1 .. 3 * K |-> h(u)]
  BY DEF HeaderLines, Names, Count, HeaderAt
<1>2. K \in Nat
  BY NamesOf
<1> HIDE DEF K
<1>3. \A u \in 1 .. 3 * K : (u + 2) \div 3 \in 1 .. K /\ ((u - 1) % 3) + 1 \in 1 .. 3
  BY <1>2
<1>4. \A i \in 1 .. K : /\ Line(HeaderAt(p, i)) \in Seq(Unit) /\ Len(Line(HeaderAt(p, i))) = 3
                        /\ Line(HeaderAt(p, i))[1] = HeaderAt(p, i)
                        /\ Line(HeaderAt(p, i))[2] = CR
                        /\ Line(HeaderAt(p, i))[3] = LF
  BY UnitKinds, LineType DEF K
<1>5. \A u \in 1 .. 3 * K : h(u) \in Unit
  BY <1>3, <1>4, ElementOfSeq
<1>6. 3 * K \in Nat
  BY <1>2
<1>7. HeaderLines(p) \in Seq(Unit) /\ Len(HeaderLines(p)) = 3 * K
  BY <1>1, <1>5, <1>6
<1>8. ASSUME NEW i \in 1 .. K
      PROVE  /\ HeaderLines(p)[3 * i - 2] = HeaderAt(p, i)
             /\ HeaderLines(p)[3 * i - 1] = CR
             /\ HeaderLines(p)[3 * i] = LF
  <2>1. 3 * i - 2 \in 1 .. 3 * K /\ 3 * i - 1 \in 1 .. 3 * K /\ 3 * i \in 1 .. 3 * K
    BY <1>2
  <2>2. /\ ((3 * i - 2) + 2) \div 3 = i /\ (((3 * i - 2) - 1) % 3) + 1 = 1
        /\ ((3 * i - 1) + 2) \div 3 = i /\ (((3 * i - 1) - 1) % 3) + 1 = 2
        /\ (3 * i + 2) \div 3 = i /\ ((3 * i - 1) % 3) + 1 = 3
    BY <1>2
  <2>3. /\ h(3 * i - 2) = Line(HeaderAt(p, i))[1]
        /\ h(3 * i - 1) = Line(HeaderAt(p, i))[2]
        /\ h(3 * i) = Line(HeaderAt(p, i))[3]
    BY <2>2
  <2> HIDE DEF h
  <2> QED
    BY <1>1, <1>4, <2>1, <2>3
<1> QED
  BY <1>7, <1>8 DEF K

\* The first line and the headers, unit by unit.
LEMMA OpeningOf ==
  ASSUME NEW p \in Packet
  PROVE  /\ Opening(p) \in Seq(Unit) /\ Len(Opening(p)) = 3 * Count(p) + 3
         /\ Opening(p)[1] = FirstLine(p.method) /\ Opening(p)[2] = CR /\ Opening(p)[3] = LF
         /\ \A i \in 1 .. Count(p) :
              /\ Opening(p)[3 * i + 1] = HeaderAt(p, i)
              /\ Opening(p)[3 * i + 2] = CR
              /\ Opening(p)[3 * i + 3] = LF
<1> DEFINE K == Count(p)
           l == Line(FirstLine(p.method))
           h == HeaderLines(p)
<1>1. K \in Nat
  BY NamesOf
<1>2. /\ l \in Seq(Unit) /\ Len(l) = 3
      /\ l[1] = FirstLine(p.method) /\ l[2] = CR /\ l[3] = LF
  BY UnitKinds, LineType
<1>3. /\ h \in Seq(Unit) /\ Len(h) = 3 * K
      /\ \A i \in 1 .. K : h[3 * i - 2] = HeaderAt(p, i) /\ h[3 * i - 1] = CR /\ h[3 * i] = LF
  BY HeaderLinesOf
<1>4. Opening(p) = l \o h
  BY DEF Opening
<1> HIDE DEF K, l, h
<1>5. /\ Opening(p) \in Seq(Unit) /\ Len(Opening(p)) = 3 + 3 * K
      /\ \A u \in 1 .. 3 + 3 * K : Opening(p)[u] = IF u <= 3 THEN l[u] ELSE h[u - 3]
  <2>1. /\ l \o h \in Seq(Unit) /\ Len(l \o h) = Len(l) + Len(h)
        /\ \A u \in 1 .. Len(l) + Len(h) : (l \o h)[u] = IF u <= Len(l) THEN l[u] ELSE h[u - Len(l)]
    BY <1>2, <1>3, ConcatProperties
  <2> QED  BY <1>2, <1>3, <1>4, <2>1
<1>6. Opening(p)[1] = FirstLine(p.method) /\ Opening(p)[2] = CR /\ Opening(p)[3] = LF
  BY <1>1, <1>2, <1>5
<1>7. ASSUME NEW i \in 1 .. K
      PROVE  /\ Opening(p)[3 * i + 1] = HeaderAt(p, i)
             /\ Opening(p)[3 * i + 2] = CR
             /\ Opening(p)[3 * i + 3] = LF
  <2>1. /\ 3 * i + 1 \in 1 .. 3 + 3 * K /\ ~(3 * i + 1 <= 3) /\ (3 * i + 1) - 3 = 3 * i - 2
        /\ 3 * i + 2 \in 1 .. 3 + 3 * K /\ ~(3 * i + 2 <= 3) /\ (3 * i + 2) - 3 = 3 * i - 1
        /\ 3 * i + 3 \in 1 .. 3 + 3 * K /\ ~(3 * i + 3 <= 3) /\ (3 * i + 3) - 3 = 3 * i
    BY <1>1
  <2> QED
    BY <1>3, <1>5, <2>1
<1> QED
  BY <1>1, <1>5, <1>6, <1>7 DEF K

\* What comes after the headers, for a body and for none.
LEMMA EndingOf ==
  ASSUME NEW p \in Packet
  PROVE  /\ Ending(p) \in Seq(Unit)
         /\ <<CR, LF>> \o p.body \in Seq(Unit)
         /\ p.size = 0 => Ending(p) = <<CR, LF>> \o p.body
         /\ p.size > 0 => Ending(p) = Line(ContentLength(p.size)) \o (<<CR, LF>> \o p.body)
<1> DEFINE c == Line(ContentLength(p.size))
           b == <<CR, LF>>
<1>1. c \in Seq(Unit)
  BY UnitKinds, LineType
<1>2. b \in Seq(Unit)
  BY DEF Unit
<1>3. p.body \in Seq(Unit) /\ p.size \in Nat
  BY PacketParts
<1>4. Ending(p) = IF p.size > 0 THEN (c \o b) \o p.body ELSE (<<>> \o b) \o p.body
  BY DEF Ending
<1> HIDE DEF c, b
<1>5. (c \o b) \o p.body = c \o (b \o p.body) /\ <<>> \o b = b
  <2>1. \A t \in Seq(Unit) : (c \o b) \o t = c \o (b \o t)
    BY <1>1, <1>2, ConcatAssociative
  <2> QED  BY <1>2, <1>3, <2>1, ConcatEmptySeq
<1>6. b \o p.body \in Seq(Unit)
  BY <1>2, <1>3, ConcatProperties
<1>7. c \o (b \o p.body) \in Seq(Unit)
  BY <1>1, <1>6, ConcatProperties
<1>8. p.size = 0 => Ending(p) = b \o p.body
  BY <1>3, <1>4, <1>5
<1>9. p.size > 0 => Ending(p) = c \o (b \o p.body)
  BY <1>4, <1>5
<1>10. Ending(p) \in Seq(Unit)
  <2>1. p.size = 0 \/ p.size > 0
    BY <1>3
  <2> QED  BY <1>6, <1>7, <1>8, <1>9, <2>1
<1> QED
  BY <1>6, <1>8, <1>9, <1>10 DEF c, b

\* A datagram is its first line, its headers and its ending.
LEMMA BuildIs ==
  ASSUME NEW p \in Packet
  PROVE  Build(p) = Opening(p) \o Ending(p) /\ Build(p) \in Seq(Unit)
<1> DEFINE f == Opening(p)
           c == IF p.size > 0 THEN Line(ContentLength(p.size)) ELSE <<>>
           b == <<CR, LF>>
<1>1. f \in Seq(Unit)
  BY OpeningOf
<1>2. c \in Seq(Unit)
  BY UnitKinds, LineType
<1>3. b \in Seq(Unit)
  BY DEF Unit
<1>4. p.body \in Seq(Unit)
  BY PacketParts
<1>5. Ending(p) = (c \o b) \o p.body
  BY DEF Ending
<1>6. Build(p) = ((f \o c) \o b) \o p.body
  BY DEF Build, Opening
<1> HIDE DEF f, c, b
<1>7. (f \o c) \o b = f \o (c \o b) /\ c \o b \in Seq(Unit)
  BY <1>1, <1>2, <1>3, ConcatAssociative, ConcatProperties
<1> DEFINE d == c \o b
<1>8. (f \o d) \o p.body = f \o (d \o p.body)
  <2>1. d \in Seq(Unit)
    BY <1>7
  <2> HIDE DEF d
  <2>2. \A t \in Seq(Unit) : (f \o d) \o t = f \o (d \o t)
    BY <1>1, <2>1, ConcatAssociative
  <2> QED  BY <1>4, <2>2
<1>9. Build(p) = f \o Ending(p)
  BY <1>5, <1>6, <1>7, <1>8
<1> QED
  BY <1>1, <1>9, EndingOf, ConcatProperties DEF f

\* What is left after j headers begins with the next one, and then the ending.
LEMMA LeftStep ==
  ASSUME NEW p \in Packet, NEW j \in 0 .. Count(p)
  PROVE  /\ LeftAfter(p, j) \in Seq(Unit)
         /\ j = Count(p) => LeftAfter(p, j) = Ending(p)
         /\ j < Count(p) => /\ Len(LeftAfter(p, j)) >= 3
                            /\ LeftAfter(p, j)[1] = HeaderAt(p, j + 1)
                            /\ LeftAfter(p, j)[2] = CR
                            /\ LeftAfter(p, j)[3] = LF
                            /\ Rest(LeftAfter(p, j), 3) = LeftAfter(p, j + 1)
<1> DEFINE K == Count(p)
           s == Build(p)
           f == Opening(p)
           e == Ending(p)
           n == 3 * j + 3
<1>1. K \in Nat /\ j \in 0 .. K /\ j \in Nat /\ n \in Nat
  BY NamesOf
<1>2. /\ f \in Seq(Unit) /\ Len(f) = 3 * K + 3
      /\ \A i \in 1 .. K : f[3 * i + 1] = HeaderAt(p, i) /\ f[3 * i + 2] = CR /\ f[3 * i + 3] = LF
  BY OpeningOf
<1>3. e \in Seq(Unit)
  BY EndingOf
<1>4. s = f \o e /\ s \in Seq(Unit)
  BY BuildIs
<1>5. LeftAfter(p, j) = Rest(s, n) /\ LeftAfter(p, j + 1) = Rest(s, 3 * (j + 1) + 3)
  BY DEF LeftAfter
<1> HIDE DEF K, s, f, e
<1>6. /\ Len(s) = Len(f) + Len(e) /\ Len(e) \in Nat
      /\ \A u \in 1 .. Len(f) + Len(e) : s[u] = IF u <= Len(f) THEN f[u] ELSE e[u - Len(f)]
  <2>1. f \in Seq(Unit)
    BY <1>2
  <2>2. /\ Len(f \o e) = Len(f) + Len(e)
        /\ \A u \in 1 .. Len(f) + Len(e) : (f \o e)[u] = IF u <= Len(f) THEN f[u] ELSE e[u - Len(f)]
    BY <1>3, <2>1, ConcatProperties
  <2> QED  BY <1>3, <1>4, <2>2
<1>7. n \in 0 .. Len(s)
  BY <1>1, <1>2, <1>6
<1>8. /\ Rest(s, n) \in Seq(Unit) /\ Len(Rest(s, n)) = Len(s) - n
      /\ \A i \in 1 .. Len(s) - n : Rest(s, n)[i] = s[n + i]
  BY <1>4, <1>7, RestOf
<1>9. ASSUME j = K
      PROVE  Rest(s, n) = e
  <2>1. n = Len(f)
    BY <1>1, <1>2, <1>9
  <2> QED
    BY <1>2, <1>3, <1>4, <2>1, RestOfConcat
<1>10. ASSUME j < K
       PROVE  /\ Len(Rest(s, n)) >= 3
              /\ Rest(s, n)[1] = HeaderAt(p, j + 1)
              /\ Rest(s, n)[2] = CR
              /\ Rest(s, n)[3] = LF
              /\ Rest(Rest(s, n), 3) = Rest(s, 3 * (j + 1) + 3)
  <2>1. Len(s) - n \in Nat /\ Len(s) - n >= 3
    BY <1>1, <1>2, <1>6, <1>10
  <2>2. j + 1 \in 1 .. K
    BY <1>1, <1>10
  <2>3. /\ n + 1 = 3 * (j + 1) + 1 /\ n + 2 = 3 * (j + 1) + 2 /\ n + 3 = 3 * (j + 1) + 3
        /\ n + 1 \in 1 .. Len(f) /\ n + 2 \in 1 .. Len(f) /\ n + 3 \in 1 .. Len(f)
    BY <1>1, <1>2, <1>10
  <2>4. s[n + 1] = f[n + 1] /\ s[n + 2] = f[n + 2] /\ s[n + 3] = f[n + 3]
    BY <1>6, <2>3
  <2>5. Rest(s, n)[1] = s[n + 1] /\ Rest(s, n)[2] = s[n + 2] /\ Rest(s, n)[3] = s[n + 3]
    <3>1. 1 \in 1 .. Len(s) - n /\ 2 \in 1 .. Len(s) - n /\ 3 \in 1 .. Len(s) - n
      BY <2>1
    <3> QED  BY <1>8, <3>1
  <2>6. Rest(Rest(s, n), 3) = Rest(s, n + 3)
    <3>1. 3 \in 0 .. Len(s) - n
      BY <2>1
    <3> QED  BY <1>4, <1>7, <3>1, RestOfRest
  <2> QED
    BY <1>2, <1>8, <2>1, <2>2, <2>3, <2>4, <2>5, <2>6
<1> QED
  BY <1>5, <1>8, <1>9, <1>10 DEF K, e

\* A datagram begins with the first line, and then the headers are left.
LEMMA BuildStart ==
  ASSUME NEW p \in Packet
  PROVE  /\ Len(Build(p)) >= 3
         /\ Build(p)[1] = FirstLine(p.method) /\ Build(p)[2] = CR /\ Build(p)[3] = LF
         /\ Rest(Build(p), 3) = LeftAfter(p, 0)
<1> DEFINE s == Build(p)
           f == Opening(p)
           e == Ending(p)
<1>1. /\ Count(p) \in Nat /\ f \in Seq(Unit) /\ Len(f) = 3 * Count(p) + 3
      /\ f[1] = FirstLine(p.method) /\ f[2] = CR /\ f[3] = LF
  BY OpeningOf, NamesOf
<1>2. s = f \o e /\ e \in Seq(Unit)
  BY BuildIs, EndingOf
<1>3. LeftAfter(p, 0) = Rest(s, 3)
  <2>1. 3 * 0 + 3 = 3
    OBVIOUS
  <2> QED  BY <2>1 DEF LeftAfter
<1> HIDE DEF s, f, e
<1>4. /\ Len(s) = Len(f) + Len(e) /\ Len(e) \in Nat
      /\ \A u \in 1 .. Len(f) + Len(e) : s[u] = IF u <= Len(f) THEN f[u] ELSE e[u - Len(f)]
  <2>1. f \in Seq(Unit) /\ e \in Seq(Unit)
    BY <1>1, <1>2
  <2>2. /\ Len(f \o e) = Len(f) + Len(e)
        /\ \A u \in 1 .. Len(f) + Len(e) : (f \o e)[u] = IF u <= Len(f) THEN f[u] ELSE e[u - Len(f)]
    BY <2>1, ConcatProperties
  <2> QED  BY <1>2, <2>1, <2>2
<1>5. 1 \in 1 .. Len(f) /\ 2 \in 1 .. Len(f) /\ 3 \in 1 .. Len(f)
  BY <1>1
<1>6. Len(s) >= 3 /\ s[1] = f[1] /\ s[2] = f[2] /\ s[3] = f[3]
  BY <1>1, <1>4, <1>5
<1> QED
  BY <1>1, <1>3, <1>6 DEF s

\* The blank line comes before the body.
LEMMA BlankThenBody ==
  ASSUME NEW p \in Packet
  PROVE  LET b == <<CR, LF>> \o p.body
         IN /\ b \in Seq(Unit) /\ Len(b) >= 2 /\ b[1] = CR /\ b[2] = LF
            /\ Rest(b, 2) = p.body
<1> DEFINE e == <<CR, LF>>
<1>1. e \in Seq(Unit) /\ Len(e) = 2 /\ e[1] = CR /\ e[2] = LF
  BY DEF Unit
<1>2. p.body \in Seq(Unit) /\ Len(p.body) \in Nat
  BY PacketParts
<1> HIDE DEF e
<1>3. /\ e \o p.body \in Seq(Unit) /\ Len(e \o p.body) = 2 + Len(p.body)
      /\ \A u \in 1 .. 2 + Len(p.body) :
           (e \o p.body)[u] = IF u <= 2 THEN e[u] ELSE p.body[u - 2]
  BY <1>1, <1>2, ConcatProperties
<1>4. Rest(e \o p.body, 2) = p.body
  BY <1>1, <1>2, RestOfConcat
<1>5. (e \o p.body)[1] = CR /\ (e \o p.body)[2] = LF
  BY <1>1, <1>2, <1>3
<1> QED
  BY <1>1, <1>2, <1>3, <1>4, <1>5 DEF e

\* The content-length comes before the blank line.
LEMMA LengthThenBlank ==
  ASSUME NEW p \in Packet, p.size > 0
  PROVE  /\ Ending(p) \in Seq(Unit) /\ Len(Ending(p)) >= 3
         /\ Ending(p)[1] = ContentLength(p.size)
         /\ Ending(p)[2] = CR /\ Ending(p)[3] = LF
         /\ Rest(Ending(p), 3) = <<CR, LF>> \o p.body
<1> DEFINE c == Line(ContentLength(p.size))
           b == <<CR, LF>> \o p.body
<1>1. c \in Seq(Unit) /\ Len(c) = 3 /\ c[1] = ContentLength(p.size) /\ c[2] = CR /\ c[3] = LF
  BY UnitKinds, LineType
<1>2. Ending(p) = c \o b /\ b \in Seq(Unit)
  BY EndingOf
<1> HIDE DEF c, b
<1>3. /\ c \o b \in Seq(Unit) /\ Len(c \o b) = 3 + Len(b) /\ Len(b) \in Nat
      /\ \A u \in 1 .. 3 + Len(b) : (c \o b)[u] = IF u <= 3 THEN c[u] ELSE b[u - 3]
  <2>1. c \in Seq(Unit) /\ b \in Seq(Unit)
    BY <1>1, <1>2
  <2>2. /\ c \o b \in Seq(Unit) /\ Len(c \o b) = Len(c) + Len(b)
        /\ \A u \in 1 .. Len(c) + Len(b) : (c \o b)[u] = IF u <= Len(c) THEN c[u] ELSE b[u - Len(c)]
    BY <2>1, ConcatProperties
  <2> QED  BY <1>1, <2>1, <2>2
<1>4. Rest(c \o b, 3) = b
  BY <1>1, <1>2, RestOfConcat
<1>5. (c \o b)[1] = c[1] /\ (c \o b)[2] = c[2] /\ (c \o b)[3] = c[3]
  BY <1>3
<1>6. Len(c \o b) >= 3
  BY <1>3
<1> QED
  BY <1>1, <1>2, <1>3, <1>4, <1>5, <1>6 DEF b

-----------------------------------------------------------------------------
(* The headers read so far. *)

\* Before the first header line no header is read.
LEMMA FirstHeadersNone ==
  ASSUME NEW p \in Packet
  PROVE  FirstHeaders(p, 0) = <<>>
<1>1. {Names(p)[i] : i \in 1 .. 0} = {}
  OBVIOUS
<1> QED
  BY <1>1 DEF FirstHeaders

\* One more header line, in the order of the map, adds one header.
LEMMA FirstHeadersNext ==
  ASSUME NEW p \in Packet, NEW j \in 0 .. Count(p) - 1
  PROVE  LET k == Names(p)[j + 1]
             H == FirstHeaders(p, j)
         IN FirstHeaders(p, j + 1) = [h \in DOMAIN H \cup {k} |->
                                        IF h = k THEN p.headers[k] ELSE H[h]]
<1> DEFINE k == Names(p)[j + 1]
           H == FirstHeaders(p, j)
           D == {Names(p)[i] : i \in 1 .. j}
           E == {Names(p)[i] : i \in 1 .. j + 1}
<1>1. j \in Nat
  BY NamesOf
<1>2. E = D \cup {k}
  BY <1>1
<1>3. DOMAIN H = D /\ \A h \in D : H[h] = p.headers[h]
  BY DEF FirstHeaders
<1>4. FirstHeaders(p, j + 1) = [h \in E |-> p.headers[h]]
  BY DEF FirstHeaders
<1> HIDE DEF k, H, D, E
<1> QED
  BY <1>2, <1>3, <1>4 DEF k, H

\* After the last header line all the headers are there.
LEMMA FirstHeadersAll ==
  ASSUME NEW p \in Packet
  PROVE  FirstHeaders(p, Count(p)) = p.headers
<1>1. {Names(p)[i] : i \in 1 .. Count(p)} = DOMAIN p.headers
  BY NamesOf
<1>2. p.headers = [k \in DOMAIN p.headers |-> p.headers[k]]
  BY PacketParts
<1> QED
  BY <1>1, <1>2 DEF FirstHeaders
-----------------------------------------------------------------------------
(* Types. *)

\* What a unit of each kind holds.
LEMMA UnitHolds ==
  ASSUME NEW u \in Unit
  PROVE  /\ u[1] = "first" => u[2] \in Method
         /\ u[1] = "header" => u[2] \in Key /\ u[3] \in HeaderValue
         /\ u[1] = "length" => u[2] \in Nat
BY DEF Unit, CR, LF, NUL

\* A header that is read keeps the packet a packet.
LEMMA WithHeaderType ==
  ASSUME currentPkt \in GTTPacket, NEW line \in Seq(Unit), line # <<>>, IsHeader(line)
  PROVE  WithHeader(line) \in GTTPacket /\ WithHeader(line).method = currentPkt.method
<1> DEFINE k == line[1][2]
           v == IF Len(line) = 1 THEN line[1][3] ELSE Garbled
           hs == currentPkt.headers
           new == [h \in DOMAIN hs \cup {k} |-> IF h = k THEN v ELSE hs[h]]
<1>1. line[1] \in Unit /\ line[1][1] = "header"
  BY DEF IsHeader
<1>2. k \in Key /\ v \in HeaderValue
  BY <1>1, UnitHolds DEF HeaderValue
<1>3. hs \in Headers
  BY DEF GTTPacket
<1>4. PICK ks \in SUBSET Key : hs \in [ks -> HeaderValue]
  BY <1>3 DEF Headers
<1>5. WithHeader(line) = [currentPkt EXCEPT !.headers = new]
  BY DEF WithHeader
<1> HIDE DEF k, v, hs
<1>6. new \in [ks \cup {k} -> HeaderValue] /\ ks \cup {k} \in SUBSET Key
  BY <1>2, <1>4
<1>7. new \in Headers
  BY <1>6 DEF Headers
<1> HIDE DEF new
<1> QED
  BY <1>5, <1>7 DEF GTTPacket

\* The initial state is the one of the constructors.
LEMMA InitParser == Init => ParserInv
<1> SUFFICES ASSUME Init PROVE ParserInv
  OBVIOUS
<1>1. TypeOK
  <2>1. buffer \in Seq(Unit) /\ handled \in Seq(GTTPacket)
    BY DEF Init
  <2>2. foreign \in 0 .. MaxForeign
    BY ForeignAssumption DEF Init
  <2> QED  BY <2>1, <2>2 DEF Init, TypeOK
<1>2. FreshInv
  BY DEF Init, FreshInv
<1>3. ProgressInv
  BY PacketParts DEF Init, ProgressInv
<1> QED
  BY <1>1, <1>2, <1>3 DEF ParserInv

\* What a datagram or the reading of it leaves has the right type.
LEMMA ReceiveType ==
  ASSUME TypeOK,
         \/ \E p \in Packet : ReceivePacket(p)
         \/ \E d \in Foreign : ReceiveForeign(d)
         \/ UNCHANGED vars
  PROVE  TypeOK'
<1>1. ASSUME NEW d \in Seq(Unit), Receive(d),
             latest' \in Packet \cup {None}, foreign' \in 0 .. MaxForeign
      PROVE  TypeOK'
  <2>1. buffer' \in Seq(Unit)
    BY <1>1, ConcatProperties DEF TypeOK, Receive
  <2>2. handled' \in Seq(GTTPacket)
    BY <1>1 DEF Receive
  <2>3. aligned' \in BOOLEAN
    BY <1>1 DEF Receive, Idle
  <2> QED  BY <1>1, <2>1, <2>2, <2>3 DEF TypeOK, Receive
<1>2. ASSUME NEW p \in Packet, ReceivePacket(p)
      PROVE  TypeOK'
  <2>1. Build(p) \in Seq(Unit)
    BY BuildIs
  <2>2. Receive(Build(p)) /\ latest' \in Packet \cup {None} /\ foreign' \in 0 .. MaxForeign
    BY <1>2 DEF ReceivePacket, TypeOK
  <2> QED  BY <1>1, <2>1, <2>2
<1>3. ASSUME NEW d \in Foreign, ReceiveForeign(d)
      PROVE  TypeOK'
  <2>1. d \in Seq(Unit)
    BY ForeignAssumption
  <2>2. Receive(d) /\ latest' \in Packet \cup {None} /\ foreign' \in 0 .. MaxForeign
    BY <1>3, ForeignAssumption DEF ReceiveForeign, TypeOK
  <2> QED  BY <1>1, <2>1, <2>2
<1>4. CASE UNCHANGED vars
  BY <1>4 DEF vars, TypeOK
<1> QED
  BY <1>2, <1>3, <1>4

\* parseFirstLine gives the packet a method.
LEMMA ReadFirstLineType ==
  ASSUME TypeOK, ReadFirstLine
  PROVE  TypeOK'
<1> DEFINE packet == IF currentPkt = None THEN NewPacket ELSE currentPkt
<1>1. packet \in GTTPacket
  <2>1. NewPacket \in GTTPacket
    <3>1. <<>> \in Headers
      <4>1. <<>> \in [{} -> HeaderValue] /\ {} \in SUBSET Key
        OBVIOUS
      <4> QED  BY <4>1 DEF Headers
    <3>2. <<>> \in Seq(Unit)
      OBVIOUS
    <3> QED  BY <3>1, <3>2 DEF NewPacket, GTTPacket
  <2> QED  BY <2>1 DEF TypeOK
<1>2. packet # None
  BY <1>1, NoneAssumption
<1>3. buffer \in Seq(Unit) /\ datapos = "firstLine"
  BY DEF TypeOK, ReadFirstLine
<1>4. UNCHANGED <<handled, latest, aligned, foreign>>
  BY DEF ReadFirstLine, history
<1>5. CASE ~HasLine /\ Starve /\ currentPkt' = packet
  BY <1>1, <1>2, <1>3, <1>4, <1>5 DEF TypeOK, Starve
<1>6. CASE HasLine /\ Fail /\ currentPkt' = packet
  <2>1. buffer' \in Seq(Unit)
    BY <1>3, <1>6, LineEndType, SkipType DEF Fail
  <2> QED  BY <1>1, <1>2, <1>3, <1>4, <1>6, <2>1 DEF TypeOK, Fail
<1>7. CASE /\ HasLine /\ IsFirstLine(PoppedLine)
           /\ buffer' = Skip(LineEnd)
           /\ currentPkt' = [packet EXCEPT !.method = PoppedLine[1][2]]
           /\ datapos' = "headers"
           /\ UNCHANGED <<hasError, pc>>
  <2>1. buffer' \in Seq(Unit)
    BY <1>3, <1>7, LineEndType, SkipType
  <2>2. PoppedLine[1] \in Unit /\ PoppedLine[1][1] = "first"
    BY <1>3, <1>7, PoppedType DEF IsFirstLine
  <2>3. PoppedLine[1][2] \in Method
    BY <2>2, UnitHolds
  <2>4. currentPkt' \in GTTPacket /\ currentPkt'.method = PoppedLine[1][2]
    BY <1>1, <1>7, <2>3 DEF GTTPacket
  <2>5. currentPkt' # None /\ currentPkt'.method # None
    BY <2>3, <2>4, NoneAssumption
  <2> QED  BY <1>4, <1>7, <2>1, <2>4, <2>5 DEF TypeOK
<1> QED
  BY <1>5, <1>6, <1>7 DEF ReadFirstLine

\* A header line gives the packet a header or a length, or is dropped.
LEMMA ReadHeaderType ==
  ASSUME TypeOK, ReadHeader
  PROVE  TypeOK'
<1>1. /\ currentPkt \in GTTPacket /\ currentPkt.method # None
      /\ buffer \in Seq(Unit) /\ datapos = "headers"
  BY DEF TypeOK, ReadHeader
<1>2. UNCHANGED <<handled, latest, aligned, foreign>>
  BY DEF ReadHeader, history
<1>3. HasLine => Skip(LineEnd) \in Seq(Unit) /\ PoppedLine \in Seq(Unit)
  BY <1>1, LineEndType, SkipType, PoppedType
<1>4. CASE Starve /\ UNCHANGED currentPkt
  BY <1>2, <1>4 DEF TypeOK, Starve
<1>5. CASE /\ HasLine /\ buffer' = Skip(LineEnd) /\ datapos' = "content"
           /\ UNCHANGED <<currentPkt, hasError, pc>>
  BY <1>1, <1>2, <1>3, <1>5, NoneAssumption DEF TypeOK
<1>6. CASE HasLine /\ Fail /\ UNCHANGED currentPkt
  BY <1>1, <1>2, <1>3, <1>6 DEF TypeOK, Fail
<1>7. CASE /\ HasLine /\ PoppedLine # <<>>
           /\ IsHeader(PoppedLine) \/ IsContentLength(PoppedLine)
           /\ buffer' = Skip(LineEnd)
           /\ currentPkt' = IF IsHeader(PoppedLine) THEN WithHeader(PoppedLine)
                            ELSE [currentPkt EXCEPT !.size = PoppedLine[1][2]]
           /\ UNCHANGED <<datapos, hasError, pc>>
  <2>1. currentPkt' \in GTTPacket /\ currentPkt'.method = currentPkt.method
    <3>1. CASE IsHeader(PoppedLine)
      BY <1>1, <1>3, <1>7, <3>1, WithHeaderType
    <3>2. CASE ~IsHeader(PoppedLine)
      <4>1. PoppedLine[1] \in Unit /\ PoppedLine[1][1] = "length"
        BY <1>3, <1>7, <3>2 DEF IsContentLength
      <4>2. PoppedLine[1][2] \in Nat
        BY <4>1, UnitHolds
      <4> QED  BY <1>1, <1>7, <3>2, <4>2 DEF GTTPacket
    <3> QED  BY <3>1, <3>2
  <2>2. currentPkt' # None
    BY <2>1, NoneAssumption
  <2> QED  BY <1>1, <1>2, <1>3, <1>7, <2>1, <2>2 DEF TypeOK
<1> QED
  BY <1>4, <1>5, <1>6, <1>7 DEF ReadHeader

\* A body as long as the header said completes the packet.
LEMMA ReadContentType ==
  ASSUME TypeOK, ReadContent
  PROVE  TypeOK'
<1> DEFINE packet == [currentPkt EXCEPT !.body = SubSeq(buffer, 1, currentPkt.size)]
<1>1. currentPkt \in GTTPacket /\ buffer \in Seq(Unit) /\ datapos = "content"
  BY DEF TypeOK, ReadContent
<1>2. UNCHANGED <<latest, aligned, foreign>>
  BY DEF ReadContent, history
<1>3. currentPkt.size \in Nat
  BY <1>1 DEF GTTPacket
<1>4. CASE Starve /\ UNCHANGED <<currentPkt, handled>>
  BY <1>2, <1>4 DEF TypeOK, Starve
<1>5. CASE /\ currentPkt.size <= Len(buffer)
           /\ buffer' = Skip(currentPkt.size) /\ currentPkt' = None
           /\ datapos' = "firstLine" /\ hasError' = FALSE
           /\ handled' = Append(handled, packet)
           /\ pc' = IF Rejected(packet) THEN "recv" ELSE "parse"
  <2>1. currentPkt.size \in 0 .. Len(buffer)
    BY <1>1, <1>3, <1>5
  <2>2. buffer' \in Seq(Unit)
    BY <1>1, <1>5, <2>1, SkipType
  <2>3. SubSeq(buffer, 1, currentPkt.size) \in Seq(Unit)
    BY <1>1, <2>1
  <2>4. packet \in GTTPacket
    BY <1>1, <2>3 DEF GTTPacket
  <2> HIDE DEF packet
  <2>5. handled' \in Seq(GTTPacket)
    BY <1>5, <2>4 DEF TypeOK
  <2>6. pc' \in {"recv", "parse"}
    BY <1>5
  <2> QED  BY <1>2, <1>5, <2>2, <2>5, <2>6 DEF TypeOK
<1> QED
  BY <1>4, <1>5 DEF ReadContent

\* Every step keeps the types.
LEMMA StepTypes ==
  ASSUME TypeOK, [Next]_vars
  PROVE  TypeOK'
<1>1. CASE RunOutOfMemory
  BY <1>1 DEF TypeOK, RunOutOfMemory, history
<1> QED
  BY <1>1, ReceiveType, ReadFirstLineType, ReadHeaderType, ReadContentType DEF Next, GetPacket

\* Only a packet that is read puts something else than a new packet in the
\* parser, and the parser forgets it when it waits for a first line again.
LEMMA StepFresh ==
  ASSUME TypeOK, FreshInv, [Next]_vars
  PROVE  FreshInv'
<1>1. ASSUME NEW d, Receive(d)
      PROVE  FreshInv'
  BY <1>1 DEF Receive, FreshInv
<1>2. CASE ReadFirstLine
  BY <1>2 DEF ReadFirstLine, FreshInv, Starve, Fail
<1>3. CASE ReadHeader
  BY <1>3 DEF ReadHeader, FreshInv, Starve, Fail
<1>4. CASE ReadContent
  BY <1>4 DEF ReadContent, FreshInv, Starve
<1>5. CASE UNCHANGED vars
  BY <1>5 DEF vars, FreshInv
<1>6. CASE RunOutOfMemory
  BY <1>6 DEF RunOutOfMemory, FreshInv
<1> QED
  BY <1>1, <1>2, <1>3, <1>4, <1>5, <1>6 DEF Next, GetPacket, ReceivePacket, ReceiveForeign

-----------------------------------------------------------------------------
(* A packet goes on its way, one line at a time. *)

\* The first line leaves the buffer and gives the method; the headers are next.
LEMMA FirstLineRead ==
  ASSUME TypeOK, FreshInv, NEW p \in Packet, AtFirstLine(p), ReadFirstLine
  PROVE  AtHeader(p, 0)'
<1>1. /\ buffer \in Seq(Unit) /\ buffer = Build(p) /\ datapos = "firstLine" /\ pc = "parse"
      /\ handled = <<>> /\ currentPkt \in {None, NewPacket}
  BY DEF TypeOK, AtFirstLine, FreshInv
<1>2. /\ Len(buffer) >= 3 /\ buffer[1] = FirstLine(p.method)
      /\ buffer[2] = CR /\ buffer[3] = LF /\ Rest(buffer, 3) = LeftAfter(p, 0)
  BY <1>1, BuildStart
<1>3. buffer[1] \notin {CR, LF, NUL}
  BY <1>2, UnitKinds
<1>4. HasLine /\ LineEnd = 3 /\ PoppedLine = <<FirstLine(p.method)>>
  BY <1>1, <1>2, <1>3, LineOfText
<1>5. /\ Len(PoppedLine) = 1 /\ PoppedLine[1][1] = "first" /\ PoppedLine[1][2] = p.method
  BY <1>4 DEF FirstLine
<1>6. IsFirstLine(PoppedLine)
  BY <1>5 DEF IsFirstLine
<1>7. Skip(LineEnd) = LeftAfter(p, 0)
  BY <1>2, <1>4 DEF Skip, Rest
<1>8. (IF currentPkt = None THEN NewPacket ELSE currentPkt) = NewPacket
  BY <1>1
<1>9. /\ buffer' = LeftAfter(p, 0) /\ currentPkt' = [NewPacket EXCEPT !.method = p.method]
      /\ datapos' = "headers" /\ pc' = "parse" /\ handled' = <<>>
  BY <1>1, <1>4, <1>5, <1>6, <1>7, <1>8 DEF ReadFirstLine
<1>10. FirstHeaders(p, 0) = <<>>
  BY FirstHeadersNone
<1> QED
  BY <1>9, <1>10 DEF AtHeader, NewPacket

\* A header line adds the header that comes next, and leaves the others.
LEMMA HeaderRead ==
  ASSUME TypeOK, NEW p \in Packet, NEW j \in 0 .. Count(p) - 1, AtHeader(p, j), ReadHeader
  PROVE  AtHeader(p, j + 1)'
<1> DEFINE k == Names(p)[j + 1]
           v == p.headers[k]
           H == FirstHeaders(p, j)
<1>1. /\ buffer \in Seq(Unit) /\ buffer = LeftAfter(p, j) /\ datapos = "headers"
      /\ pc = "parse" /\ handled = <<>>
      /\ currentPkt = [method |-> p.method, headers |-> H, size |-> 0, body |-> <<>>]
  BY DEF TypeOK, AtHeader
<1>2. Count(p) \in Nat /\ j \in 0 .. Count(p) /\ j < Count(p) /\ j + 1 \in 1 .. Count(p)
  BY NamesOf
<1>3. /\ Len(buffer) >= 3 /\ buffer[1] = HeaderAt(p, j + 1)
      /\ buffer[2] = CR /\ buffer[3] = LF /\ Rest(buffer, 3) = LeftAfter(p, j + 1)
  BY <1>1, <1>2, LeftStep
<1>4. buffer[1] \notin {CR, LF, NUL}
  BY <1>2, <1>3, UnitKinds
<1>5. HasLine /\ LineEnd = 3 /\ PoppedLine = <<HeaderAt(p, j + 1)>>
  BY <1>1, <1>3, <1>4, LineOfText
<1>6. HeaderAt(p, j + 1) = <<"header", k, v>>
  BY DEF HeaderAt, Header
<1>7. FirstHeaders(p, j + 1) = [h \in DOMAIN H \cup {k} |-> IF h = k THEN v ELSE H[h]]
  BY FirstHeadersNext
<1> HIDE DEF k, v, H
<1>8. /\ PoppedLine # <<>> /\ Len(PoppedLine) = 1 /\ PoppedLine[1][1] = "header"
      /\ PoppedLine[1][2] = k /\ PoppedLine[1][3] = v
  BY <1>5, <1>6
<1>9. IsHeader(PoppedLine)
  BY <1>8 DEF IsHeader
<1>10. WithHeader(PoppedLine) = [currentPkt EXCEPT !.headers = FirstHeaders(p, j + 1)]
  <2>1. currentPkt.headers = H
    BY <1>1
  <2> QED  BY <1>7, <1>8, <2>1 DEF WithHeader
<1>11. Skip(LineEnd) = LeftAfter(p, j + 1)
  BY <1>3, <1>5 DEF Skip, Rest
<1>12. /\ buffer' = LeftAfter(p, j + 1) /\ currentPkt' = WithHeader(PoppedLine)
       /\ datapos' = "headers" /\ pc' = "parse" /\ handled' = <<>>
  BY <1>1, <1>5, <1>8, <1>9, <1>11 DEF ReadHeader
<1>13. currentPkt' = [method |-> p.method, headers |-> FirstHeaders(p, j + 1),
                      size |-> 0, body |-> <<>>]
  BY <1>1, <1>10, <1>12
<1> QED
  BY <1>12, <1>13 DEF AtHeader

\* A packet whose body is not read yet.
LEMMA WithoutBody ==
  ASSUME NEW p \in Packet
  PROVE  [p EXCEPT !.body = <<>>] = [method |-> p.method, headers |-> p.headers,
                                     size |-> p.size, body |-> <<>>]
<1>1. p \in GTTPacket
  BY PacketParts
<1>2. p = [method |-> p.method, headers |-> p.headers, size |-> p.size, body |-> p.body]
  BY <1>1 DEF GTTPacket
<1> QED
  BY <1>1, <1>2 DEF GTTPacket

\* After the last header a packet without a body is at its blank line.
LEMMA HeadersEnd ==
  ASSUME NEW p \in Packet, AtHeader(p, Count(p)), p.size = 0
  PROVE  AtBlankLine(p)
<1>1. /\ buffer = LeftAfter(p, Count(p)) /\ datapos = "headers"
      /\ pc = "parse" /\ handled = <<>>
      /\ currentPkt = [method |-> p.method, headers |-> FirstHeaders(p, Count(p)),
                       size |-> 0, body |-> <<>>]
  BY DEF AtHeader
<1>2. LeftAfter(p, Count(p)) = <<CR, LF>> \o p.body
  <2>1. Count(p) \in 0 .. Count(p)
    BY NamesOf
  <2>2. LeftAfter(p, Count(p)) = Ending(p)
    BY <2>1, LeftStep
  <2> QED  BY <2>2, EndingOf
<1>3. FirstHeaders(p, Count(p)) = p.headers
  BY FirstHeadersAll
<1>4. currentPkt = [p EXCEPT !.body = <<>>]
  BY <1>1, <1>3, WithoutBody
<1> QED
  BY <1>1, <1>2, <1>4 DEF AtBlankLine

\* The content-length comes after the headers, and gives the size.
LEMMA LengthRead ==
  ASSUME TypeOK, NEW p \in Packet, AtHeader(p, Count(p)), p.size > 0, ReadHeader
  PROVE  AtBlankLine(p)'
<1>1. /\ buffer \in Seq(Unit) /\ buffer = LeftAfter(p, Count(p)) /\ datapos = "headers"
      /\ pc = "parse" /\ handled = <<>>
      /\ currentPkt = [method |-> p.method, headers |-> FirstHeaders(p, Count(p)),
                       size |-> 0, body |-> <<>>]
  BY DEF TypeOK, AtHeader
<1>2. buffer = Ending(p)
  BY <1>1, NamesOf, LeftStep
<1>3. /\ Len(buffer) >= 3 /\ buffer[1] = ContentLength(p.size)
      /\ buffer[2] = CR /\ buffer[3] = LF /\ Rest(buffer, 3) = <<CR, LF>> \o p.body
  BY <1>2, LengthThenBlank
<1>4. buffer[1] \notin {CR, LF, NUL}
  BY <1>3, UnitKinds
<1>5. HasLine /\ LineEnd = 3 /\ PoppedLine = <<ContentLength(p.size)>>
  BY <1>1, <1>3, <1>4, LineOfText
<1>6. /\ PoppedLine # <<>> /\ Len(PoppedLine) = 1 /\ PoppedLine[1][1] = "length"
      /\ PoppedLine[1][2] = p.size
  BY <1>5 DEF ContentLength
<1>7. IsContentLength(PoppedLine) /\ ~IsHeader(PoppedLine)
  BY <1>1, <1>6 DEF IsContentLength, IsHeader
<1>8. Skip(LineEnd) = <<CR, LF>> \o p.body
  BY <1>3, <1>5 DEF Skip, Rest
<1>9. /\ buffer' = <<CR, LF>> \o p.body /\ currentPkt' = [currentPkt EXCEPT !.size = p.size]
      /\ datapos' = "headers" /\ pc' = "parse" /\ handled' = <<>>
  BY <1>1, <1>5, <1>6, <1>7, <1>8 DEF ReadHeader
<1>10. FirstHeaders(p, Count(p)) = p.headers
  BY FirstHeadersAll
<1>11. currentPkt' = [p EXCEPT !.body = <<>>]
  <2>1. currentPkt' = [method |-> p.method, headers |-> p.headers, size |-> p.size,
                       body |-> <<>>]
    BY <1>1, <1>9, <1>10
  <2> QED  BY <2>1, WithoutBody
<1> QED
  BY <1>9, <1>11 DEF AtBlankLine

\* The blank line ends the headers.
LEMMA BlankLineRead ==
  ASSUME TypeOK, NEW p \in Packet, AtBlankLine(p), ReadHeader
  PROVE  AtContent(p)'
<1>1. /\ buffer \in Seq(Unit) /\ buffer = <<CR, LF>> \o p.body /\ datapos = "headers"
      /\ pc = "parse" /\ handled = <<>> /\ currentPkt = [p EXCEPT !.body = <<>>]
  BY DEF TypeOK, AtBlankLine
<1>2. Len(buffer) >= 2 /\ buffer[1] = CR /\ buffer[2] = LF /\ Rest(buffer, 2) = p.body
  BY <1>1, BlankThenBody
<1>3. HasLine /\ LineEnd = 2 /\ PoppedLine = <<>>
  BY <1>1, <1>2, BlankLine
<1>4. Skip(LineEnd) = p.body
  BY <1>2, <1>3 DEF Skip, Rest
<1>5. /\ buffer' = p.body /\ currentPkt' = currentPkt
      /\ datapos' = "content" /\ pc' = "parse" /\ handled' = <<>>
  BY <1>1, <1>3, <1>4 DEF ReadHeader
<1> QED
  BY <1>1, <1>5 DEF AtContent

\* The body is the rest, whatever its bytes are.
LEMMA ContentRead ==
  ASSUME TypeOK, NEW p \in Packet, AtContent(p), ReadContent
  PROVE  handled' = <<p>> /\ Idle'
<1>1. /\ buffer = p.body /\ datapos = "content" /\ handled = <<>>
      /\ currentPkt = [p EXCEPT !.body = <<>>]
  BY DEF AtContent
<1>2. /\ p \in GTTPacket /\ p.body \in Seq(Unit) /\ p.size = Len(p.body)
      /\ Len(p.body) \in Nat
  BY PacketParts
<1>3. currentPkt.size = Len(buffer) /\ currentPkt.size \in Nat
  BY <1>1, <1>2 DEF GTTPacket
<1>4. SubSeq(buffer, 1, currentPkt.size) = p.body
  BY <1>1, <1>2, <1>3, SubSeqFull
<1>5. [currentPkt EXCEPT !.body = SubSeq(buffer, 1, currentPkt.size)] = p
  BY <1>1, <1>2, <1>4 DEF GTTPacket
<1>6. Skip(currentPkt.size) = <<>>
  <2>1. Len(buffer) < currentPkt.size + 1 /\ currentPkt.size + 1 \in Int /\ Len(buffer) \in Int
    BY <1>3
  <2> QED  BY <2>1, SubSeqEmpty DEF Skip
<1>7. /\ buffer' = Skip(currentPkt.size) /\ datapos' = "firstLine"
      /\ handled' = Append(handled, p)
  <2> DEFINE packet == [currentPkt EXCEPT !.body = SubSeq(buffer, 1, currentPkt.size)]
  <2>1. ~(currentPkt.size > Len(buffer))
    BY <1>3
  <2>2. /\ buffer' = Skip(currentPkt.size) /\ datapos' = "firstLine"
        /\ handled' = Append(handled, packet)
    BY <2>1, Zenon DEF ReadContent
  <2> QED
    BY <1>5, <2>2
<1>8. Append(handled, p) = <<p>>
  BY <1>1
<1> QED
  BY <1>6, <1>7, <1>8 DEF Idle

\* A parser that has taken the packet whole finds no further line.
LEMMA NothingMore ==
  ASSUME TypeOK, NEW p \in Packet, handled = <<p>>, Idle, GetPacket
  PROVE  handled' = <<p>> /\ Idle'
<1>1. buffer = <<>> /\ datapos = "firstLine"
  BY DEF Idle
<1>2. ~HasLine
  <2>1. Len(buffer) = 0 /\ buffer \in Seq(Unit)
    BY <1>1
  <2>2. HasLine => LineEnd \in 1 .. 0
    BY <2>1, LineEndType
  <2> QED  BY <2>2
<1>3. ReadFirstLine
  BY <1>1 DEF GetPacket, ReadHeader, ReadContent, RunOutOfMemory
<1> QED
  BY <1>1, <1>2, <1>3 DEF ReadFirstLine, Starve, Idle

\* A step of getPacket takes the packet one stage further.
LEMMA PacketProgresses ==
  ASSUME TypeOK, FreshInv, NEW p \in Packet, Progress(p), GetPacket
  PROVE  Progress(p)'
<1>1. CASE AtFirstLine(p)
  <2>1. ReadFirstLine
    BY <1>1 DEF AtFirstLine, GetPacket, ReadHeader, ReadContent, RunOutOfMemory
  <2>2. AtHeader(p, 0)' /\ 0 \in 0 .. Count(p)
    BY <1>1, <2>1, FirstLineRead, NamesOf
  <2> QED  BY <2>2 DEF Progress
<1>2. CASE AtBlankLine(p)
  <2>1. ReadHeader
    BY <1>2 DEF AtBlankLine, GetPacket, ReadFirstLine, ReadContent, RunOutOfMemory
  <2> QED  BY <1>2, <2>1, BlankLineRead DEF Progress
<1>3. ASSUME NEW j \in 0 .. Count(p), AtHeader(p, j)
      PROVE  Progress(p)'
  <2>1. ReadHeader
    BY <1>3 DEF AtHeader, GetPacket, ReadFirstLine, ReadContent, RunOutOfMemory
  <2>2. CASE j < Count(p)
    <3>1. j \in 0 .. Count(p) - 1 /\ j + 1 \in 0 .. Count(p)
      BY <2>2, NamesOf
    <3>2. AtHeader(p, j + 1)'
      BY <1>3, <2>1, <3>1, HeaderRead
    <3> QED  BY <3>1, <3>2 DEF Progress
  <2>3. CASE j = Count(p) /\ p.size = 0
    BY <1>2, <1>3, <2>3, HeadersEnd
  <2>4. CASE j = Count(p) /\ p.size > 0
    BY <1>3, <2>1, <2>4, LengthRead DEF Progress
  <2>5. Count(p) \in Nat /\ p.size \in Nat
    BY NamesOf, PacketParts
  <2>6. (j < Count(p) \/ j = Count(p)) /\ (p.size = 0 \/ p.size > 0)
    BY <2>5
  <2> QED  BY <2>2, <2>3, <2>4, <2>6
<1>4. CASE AtContent(p)
  <2>1. currentPkt.size <= MaxAlloc /\ currentPkt.size \in Nat
    BY <1>4, PacketParts DEF AtContent, GTTPacket
  <2>2. ReadContent
    BY <1>4, <2>1, ForeignAssumption
       DEF AtContent, GetPacket, ReadFirstLine, ReadHeader, RunOutOfMemory
  <2> QED  BY <1>4, <2>2, ContentRead DEF Progress
<1>5. CASE handled = <<p>> /\ Idle
  BY <1>5, NothingMore DEF Progress
<1> QED
  BY <1>1, <1>2, <1>3, <1>4, <1>5 DEF Progress

\* A datagram that comes to an idle parser begins at its first line.
LEMMA PacketStarts ==
  ASSUME TypeOK, NEW p \in Packet, ReceivePacket(p), aligned'
  PROVE  AtFirstLine(p)'
<1>1. /\ buffer' = buffer \o Build(p) /\ pc' = "parse" /\ aligned' = Idle
      /\ handled' = <<>> /\ datapos' = datapos
  BY DEF ReceivePacket, Receive
<1>2. buffer = <<>> /\ datapos = "firstLine"
  BY <1>1 DEF Idle
<1>3. <<>> \o Build(p) = Build(p)
  BY BuildIs, ConcatEmptySeq
<1> QED
  BY <1>1, <1>2, <1>3 DEF AtFirstLine

\* No step loses track of a packet that came to an idle parser.
LEMMA StepProgress ==
  ASSUME TypeOK, FreshInv, ProgressInv, [Next]_vars
  PROVE  ProgressInv'
<1> SUFFICES ASSUME NEW p \in Packet, aligned', latest' = p
             PROVE  Progress(p)'
  BY DEF ProgressInv
<1>1. ASSUME NEW q \in Packet, ReceivePacket(q)
      PROVE  Progress(p)'
  <2>1. q = p
    BY <1>1 DEF ReceivePacket
  <2> QED  BY <1>1, <2>1, PacketStarts DEF Progress
<1>2. ASSUME NEW d \in Foreign, ReceiveForeign(d)
      PROVE  Progress(p)'
  BY <1>2, PacketParts DEF ReceiveForeign
<1>3. CASE GetPacket
  <2>1. UNCHANGED <<latest, aligned>>
    BY <1>3 DEF GetPacket, ReadFirstLine, ReadHeader, ReadContent, RunOutOfMemory, history
  <2>2. Progress(p)
    BY <2>1 DEF ProgressInv
  <2> QED  BY <1>3, <2>2, PacketProgresses
<1>4. CASE UNCHANGED vars
  <2>1. Progress(p)
    BY <1>4 DEF vars, ProgressInv
  <2> QED
    BY <1>4, <2>1 DEF vars, Progress, AtFirstLine, AtHeader, AtBlankLine, AtContent, Idle
<1> QED
  BY <1>1, <1>2, <1>3, <1>4 DEF Next
-----------------------------------------------------------------------------
\* The parser is always in a state of its invariant: its buffer, its position
\* and its packet fit together.
THEOREM ParserInvariant == Spec => []ParserInv
<1>1. ParserInv /\ [Next]_vars => ParserInv'
  BY StepTypes, StepFresh, StepProgress DEF ParserInv
<1> QED
  BY <1>1, InitParser, PTL DEF Spec

\* The state of the parser has its types, whatever datagrams come.
THEOREM ParserTypeCorrect == Spec => []TypeOK
<1>1. ParserInv => TypeOK
  BY DEF ParserInv
<1> QED
  BY <1>1, ParserInvariant, PTL

\* A packet that comes to an idle parser is handed to a handler at once, just
\* as it was built, and leaves nothing in the parser (GTTParser::getPacket).
THEOREM PacketsAreTakenWhole == Spec => []TakenWhole
<1>1. ParserInv => TakenWhole
  <2> SUFFICES ASSUME ParserInv, pc = "recv", aligned, latest # None
               PROVE  handled = <<latest>> /\ Idle
    BY DEF TakenWhole
  <2>1. latest \in Packet /\ Progress(latest)
    BY DEF ParserInv, TypeOK, ProgressInv
  <2> QED
    BY <2>1 DEF Progress, AtFirstLine, AtHeader, AtBlankLine, AtContent
<1> QED
  BY <1>1, ParserInvariant, PTL
=============================================================================
