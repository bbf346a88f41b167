SPECIFICATION Spec
CONSTANTS
  a = a
  b = b
  c = c
  x = x
  p1 = p1
  p2 = p2
  p3 = p3
  Node = {a, b, c}
  Address = {a, b, c, x}
  Packet = {p1, p2}
  InRange <- Line
  Src <- RelaySrc
  Dst <- RelayDst
  NoRoute = NoRoute
  Never = Never
  RouteExpirationDelay = 0
  RRequestDelay = 0
  AckDelay = 0
  MaxHops = 2
  Lossy = TRUE
  MaxNow = 1
  MaxInbox = 1
INVARIANTS
  NoCrash
CHECK_DEADLOCK FALSE
