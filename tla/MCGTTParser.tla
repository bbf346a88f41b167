----------------------------- MODULE MCGTTParser -----------------------------
(* GTTParser for TLC: a request, a data packet whose body looks like text,  *)
(* and the datagrams that a program without knowledge of the mesh may send. *)
EXTENDS GTTParser, TLC

CONSTANTS rreq, pkt,       \* methods of the mesh
          alien,           \* the method of a request, with another protocol
          source, seqnum,  \* header names
          addr             \* a value

Keys == <<source, seqnum>>
Sorted == [ks \in SUBSET ToSet(Keys) |-> SelectSeq(Keys, LAMBDA k : k \in ks)]
Known == (rreq :> {source}) @@ (alien :> {source}) @@ (pkt :> {source, seqnum})

Request == [method |-> rreq, headers |-> source :> addr, size |-> 0, body |-> <<>>]
Body == <<LF, ContentLength(2), CR, LF, FirstLine(pkt), NUL>>
Data == [method |-> pkt, headers |-> (source :> addr) @@ (seqnum :> addr),
         size |-> Len(Body), body |-> Body]
Sent == {Request, Data}

\* The beginnings of datagrams, a request with a header of another class, one of
\* another protocol, and one that promises a body beyond the memory.
Beginnings(s) == {SubSeq(s, 1, k) : k \in 1 .. Len(s) - 1}
Strange == UNION {Beginnings(Build(p)) : p \in Sent}
           \cup {Build([Request EXCEPT !.headers = (source :> addr) @@ (seqnum :> addr)]),
                 Build([Request EXCEPT !.method = alien]),
                 Build([Request EXCEPT !.size = MaxAlloc + 1])}
=============================================================================
