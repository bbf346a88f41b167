------------------------------- MODULE MCMesh -------------------------------
(* Mesh with three nodes, for TLC.  Which pairs of them are in range, which *)
(* packets are sent and how far the clock goes is said in each .cfg.        *)
EXTENDS Mesh, TLC

CONSTANTS a, b, c, x,     \* three nodes, and an address that nobody owns
          p1, p2, p3      \* packets

\* Radio ranges: a chain a - b - c, and everybody hears everybody.
Line == {<<a, b>>, <<b, a>>, <<b, c>>, <<c, b>>}
Clique == ({a, b, c} \X {a, b, c}) \ {<<a, a>>, <<b, b>>, <<c, c>>}

\* b learns the route to c from p1, and relays p2 along it.
RelaySrc == (p1 :> b) @@ (p2 :> a)
RelayDst == (p1 :> c) @@ (p2 :> c)

\* b learns it from a request of c instead, which sends two packets to b.
BackSrc == (p1 :> c) @@ (p2 :> a) @@ (p3 :> c)
BackDst == (p1 :> b) @@ (p2 :> c) @@ (p3 :> b)

\* One packet from one end of the chain to the other.
FarSrc == p2 :> a
FarDst == p2 :> c

\* One packet for a node, and one for the address that nobody owns.
LostSrc == (p1 :> b) @@ (p2 :> a)
LostDst == (p1 :> c) @@ (p2 :> x)
=============================================================================
