SPECIFICATION Spec
CONSTANTS
  Node = {n1, n2}
  Content = {c1, c2}
  MaxAttempts = 2
  ClaimLimit = 1
  MaxFaults = 2
  Faults = {"crash", "unwind", "db_error", "stray"}
  Sequential = TRUE
  Run <- MCRun
  Worker <- MCWorker
  RunOf <- MCRunOf
  r1 = r1
  r2 = r2
  w1 = w1
  w2 = w2
  w3 = w3
  NoRun = NoRun
  NoNode = NoNode
  NoContent = NoContent
  NoPage = NoPage
SYMMETRY Symmetry
CHECK_DEADLOCK FALSE
INVARIANTS
  TypeOK
  ClaimExclusive
  NoLostClaim
  FailedExhausted
  DoneHasArchive
PROPERTIES
  KeepsPromise
