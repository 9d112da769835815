SPECIFICATION FairSpec
CONSTANTS
  Node = {n1, n2}
  Content = {c1}
  MaxAttempts = 2
  ClaimLimit = 1
  MaxFaults = 2
  Faults = {"crash", "unwind", "db_error", "stray", "lock_drop"}
  Sequential = TRUE
  Run <- OneRun
  Worker <- OneTeam
  RunOf <- OneRunOf
  r1 = r1
  r2 = r2
  w1 = w1
  w2 = w2
  w3 = w3
  NoRun = NoRun
  NoNode = NoNode
  NoContent = NoContent
  NoPage = NoPage
CHECK_DEADLOCK FALSE
PROPERTIES
  AllSettle
  RunEnds
