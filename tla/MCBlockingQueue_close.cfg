SPECIFICATION FairSpec
CONSTANTS
  r1 = r1
  r2 = r2
  pop = pop
  log = log
  main = main
  e1 = e1
  e2 = e2
  e3 = e3
  Producer = {r1}
  Popper = {pop}
  Flusher = {}
  Closer = {main}
  Element = {e1}
  Nobody = Nobody
PROPERTIES
  CloseWakes
CHECK_DEADLOCK FALSE
