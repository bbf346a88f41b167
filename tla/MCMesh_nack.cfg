SPECIFICATION Spec
CONSTANTS
  a = a
  b = b
  c = c
  x = x
  p1 = p1
  p2 = p2
  p3 = p3
  Node = {a, b, c}
  Address = {a, b, c, x}
  Packet = {p1, p2}
  InRange <- Line
  Src <- RelaySrc
  Dst <- RelayDst
  NoRoute = NoRoute
  Never = Never
  RouteExpirationDelay = 1
  RRequestDelay = 1
  AckDelay = 1
  MaxHops = 2
  Lossy = FALSE
  MaxNow = 0
  MaxInbox = 3
INVARIANTS
  NackGoesToSource
CHECK_DEADLOCK FALSE
