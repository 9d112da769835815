SPECIFICATION FairSpec
CONSTANTS
  r1 = r1
  r2 = r2
  w1 = w1
  w2 = w2
  w3 = w3
  Node = {n1, n2, n3}
  Content = {c1}
  MaxAttempts = 2
  ClaimLimit = 2
  MaxFaults = 2
  Faults = {"crash", "db_error"}
  Sequential = TRUE
  Run = {r1, r2}
  Worker = {w1, w2, w3}
  RunOf <- LaneOf
  NoRun = NoRun
  NoNode = NoNode
  NoContent = NoContent
  NoPage = NoPage
INVARIANTS
  StrandedByFault
PROPERTIES
  AllSettle
