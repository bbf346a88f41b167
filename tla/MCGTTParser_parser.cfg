SPECIFICATION FairSpec
CONSTANTS
  rreq = rreq
  pkt = pkt
  alien = alien
  source = source
  seqnum = seqnum
  addr = addr
  Method = {rreq, pkt, alien}
  Key = {source, seqnum}
  Value = {addr}
  InOrder <- Sorted
  KeysOf <- Known
  Packet <- Sent
  Foreign <- Strange
  OtherProtocol = {alien}
  NumberKey = {seqnum}
  MaxAlloc = 8
  MaxForeign = 1
  Garbled = Garbled
  None = None
INVARIANTS
  TakenWhole
PROPERTIES
  Resynchronises
CHECK_DEADLOCK FALSE
