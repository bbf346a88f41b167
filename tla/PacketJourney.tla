---------------------------- MODULE PacketJourney ----------------------------
(***************************************************************************)
(* What the hosts can rely on, without routes, datagrams, acknowledgements  *)
(* and threads: the mesh takes a packet, keeps it for a while, and hands it *)
(* to the host it is for, or loses it.  It never copies a packet, and what  *)
(* is lost stays lost: nothing is retransmitted.                           *)
(***************************************************************************)
EXTENDS Sequences

CONSTANTS
  Packet,     \* packets of the hosts
  Node,       \* addresses that belong to a host
  Dst         \* destination of each packet

VARIABLES
  place,      \* where each packet is
  delivered   \* what each host was given, in order

vars == <<place, delivered>>

Place == {"host", "waiting", "air", "delivered", "lost"}

Init ==
  /\ place = [p \in Packet |-> "host"]
  /\ delivered = [n \in Node |-> <<>>]

\* The packet p, and no other, goes from one place to one of the places to.
Goes(p, from, to) ==
  /\ place[p] = from
  /\ place'[p] \in to
  /\ place' = [place EXCEPT ![p] = place'[p]]

\* The host hands a packet to the mesh, which may drop it at once.
Submit(p) ==
  /\ Goes(p, "host", {"waiting", "air", "lost"})
  /\ UNCHANGED delivered

\* A packet that waits for a route is sent, perhaps out of anybody's hearing.
Depart(p) ==
  /\ Goes(p, "waiting", {"air", "lost"})
  /\ UNCHANGED delivered

\* A packet on its way is not heard, or taken by a node that cannot send it on.
Fade(p) ==
  /\ Goes(p, "air", {"lost"})
  /\ UNCHANGED delivered

\* The destination hands the packet to its host.
Deliver(p) ==
  /\ Goes(p, "air", {"delivered"})
  /\ Dst[p] \in Node
  /\ delivered' = [delivered EXCEPT ![Dst[p]] = Append(@, p)]

\* No route was found: packets that wait are forgotten together.
Forget(ps) ==
  /\ \A p \in ps : place[p] = "waiting"
  /\ place' = [p \in Packet |-> IF p \in ps THEN "lost" ELSE place[p]]
  /\ UNCHANGED delivered

Next ==
  \/ \E p \in Packet : Submit(p) \/ Depart(p) \/ Fade(p) \/ Deliver(p)
  \/ \E ps \in SUBSET Packet : Forget(ps)

Spec == Init /\ [][Next]_vars
=============================================================================
