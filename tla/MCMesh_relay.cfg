SPECIFICATION FairSpec
CONSTANTS
  a = a
  b = b
  c = c
  x = x
  p1 = p1
  p2 = p2
  p3 = p3
  Node = {a, b, c}
  Address = {a, b, c, x}
  Packet = {p1, p2, p3}
  InRange <- Line
  Src <- BackSrc
  Dst <- BackDst
  NoRoute = NoRoute
  Never = Never
  RouteExpirationDelay = 1
  RRequestDelay = 1
  AckDelay = 1
  MaxHops = 2
  Lossy = FALSE
  MaxNow = 0
  MaxInbox = 3
INVARIANTS
  NoLoop
  NoCrashBeforeLoss
  UniqueSequence
PROPERTIES
  NeighbourDelivery
  FloodDies
CHECK_DEADLOCK FALSE
