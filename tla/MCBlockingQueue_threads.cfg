SPECIFICATION FairSpec
CONSTANTS
  r1 = r1
  r2 = r2
  pop = pop
  log = log
  main = main
  e1 = e1
  e2 = e2
  e3 = e3
  Producer = {r1, r2}
  Popper = {pop}
  Flusher = {log}
  Closer = {main}
  Element = {e1, e2, e3}
  Nobody = Nobody
INVARIANTS
  WakeupsCover
PROPERTIES
  ImplementsQueue
  EverythingTaken
CHECK_DEADLOCK FALSE
