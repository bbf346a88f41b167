SPECIFICATION FairSpec
CONSTANTS
  a = a
  b = b
  c = c
  x = x
  p1 = p1
  p2 = p2
  p3 = p3
  Node = {a, b, c}
  Address = {a, b, c, x}
  Packet = {p2}
  InRange <- Line
  Src <- FarSrc
  Dst <- FarDst
  NoRoute = NoRoute
  Never = Never
  RouteExpirationDelay = 1
  RRequestDelay = 1
  AckDelay = 1
  MaxHops = 2
  Lossy = FALSE
  MaxNow = 0
  MaxInbox = 3
PROPERTIES
  MeshDelivery
CHECK_DEADLOCK FALSE
