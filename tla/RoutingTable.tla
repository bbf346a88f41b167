---------------------------- MODULE RoutingTable ----------------------------
(***************************************************************************)
(* The routing table of one node (src/mesh/routingtable.cpp) and the       *)
(* routes it holds (src/mesh/route.cpp).                                   *)
(*                                                                         *)
(* The table is a std::map from a destination address to a shared pointer  *)
(* to an immutable Route.  Here it is a function from Address that is      *)
(* NoRoute where the map has no entry.  Every method of the class runs     *)
(* under the table's own mutex, so each is one operator on the table:      *)
(* getRoute, which both answers and erases what it finds expired, is the   *)
(* pair GetRoute (the answer) and TableAfterGet (the table it leaves).     *)
(*                                                                         *)
(* RoutingTable::clean is not modelled: no code calls it.                  *)
(***************************************************************************)
EXTENDS Naturals

CONSTANTS
  Address,               \* the addresses a packet may name
  NoRoute,               \* stands for "no entry" and for an empty shared_ptr
  RouteExpirationDelay   \* EXPIRATION_DELAY of route.cpp, in clock ticks

Route == [nextHop: Address, hops: Nat, createTime: Nat]

ASSUME NoRouteAssumption == NoRoute \notin Route
ASSUME RouteDelayAssumption == RouteExpirationDelay \in Nat

Table == [Address -> Route \cup {NoRoute}]

EmptyTable == [d \in Address |-> NoRoute]

\* Route::Route: the creation time is the current second of the clock.
NewRoute(nextHop, hops, t) ==
  [nextHop |-> nextHop, hops |-> hops, createTime |-> t]

\* Mutant: a route expires one second early.
HasExpiredEarly(route, t) == t >= route.createTime + RouteExpirationDelay

\* Route::hasExpired, strictly more than the delay after its creation.
HasExpired(route, t) == t > route.createTime + RouteExpirationDelay

\* An entry getRoute would hand out at time t.
Usable(table, d, t) == table[d] # NoRoute /\ ~HasExpired(table[d], t)

GetRoute(table, d, t) == IF Usable(table, d, t) THEN table[d] ELSE NoRoute

\* getRoute erases an expired entry; one that is absent stays absent.
TableAfterGet(table, d, t) == [table EXCEPT ![d] = GetRoute(table, d, t)]

InvalidateRoute(table, d) == [table EXCEPT ![d] = NoRoute]

\* addRoute is std::map::insert: an entry that is already there stays as it
\* is, whether it has expired or has more hops than the new route.
AddRoute(table, d, route) ==
  IF table[d] = NoRoute THEN [table EXCEPT ![d] = route] ELSE table
=============================================================================
