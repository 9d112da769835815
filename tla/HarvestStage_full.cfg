SPECIFICATION FairSpec
CONSTANTS
  n1 = n1
  n2 = n2
  n3 = n3
  Node <- MCNode
  Site <- MCSite
  ItemsPerPage = 2
  MaxPageAttempts = 2
  ScanBound = 3
  Run = {r1, r2}
  NoRun = NoRun
  Fetcher = Fetcher
  Sequential = TRUE
  Quirks = {"no_total", "bare"}
  MaxFaults = 2
INVARIANTS
  DonePageQueued
  GateSound
PROPERTIES
  DoneStaysDone
  GateOpens
