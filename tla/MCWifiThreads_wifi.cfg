SPECIFICATION FairSpec
CONSTANTS
  d1 = d1
  p1 = p1
  p2 = p2
  Address = {d1}
  NoRoute = NoRoute
  RouteExpirationDelay = 0
  Packet = {p1, p2}
  Dst <- PairForOne
  Neighbour = {d1}
  Never = Never
  Nobody = Nobody
  SeqModulus = 4
  RRequestDelay = 0
  AckDelay = 0
  LastSend = 1
  MaxNow = 2
INVARIANTS
  TypeOK
  OneNumberOnePacket
  NackMeansNoAck
  UnwatchedSharesSecond
  WaitingIsWatched
PROPERTIES
  HandlersReturn
  WaitEnds
  ImplementsJourney
CHECK_DEADLOCK FALSE
