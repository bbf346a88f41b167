SPECIFICATION Spec
CONSTANTS
  Hardware <- Interfaces
  Random = {0, 2748}
  Other <- Addresses
  Seqs = {0, 1, 7, 8, 15}
  SeqModulus = 16
INVARIANTS
  TypeOK
  ArrivesAsSent
  TakenByOwner
  Exchanges
CHECK_DEADLOCK FALSE
