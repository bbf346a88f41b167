SPECIFICATION FairSpec
CONSTANTS
  reader = reader
  cleaner = cleaner
  Main = Main
  Log = Log
  m1 = m1
  m2 = m2
  f = f
  w = w
  Statement = {m1, m2, f, w}
  ThreadOf <- Writers
  Kind <- Kinds
  Pieces = 2
INVARIANTS
  TypeOK
  PrintedInOrder
  FlushCovers
  QuitPrints
PROPERTIES
  ImplementsLog
  EventuallyPrinted
CHECK_DEADLOCK FALSE
