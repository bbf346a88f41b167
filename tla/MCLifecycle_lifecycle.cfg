SPECIFICATION FairSpec
CONSTANTS
  MaxPending = 2
INVARIANTS
  UsesWhatExists
  AbortHasCause
  NothingLeftRunning
  LoopsOutliveStart
PROPERTIES
  ShutdownEnds
CHECK_DEADLOCK FALSE
