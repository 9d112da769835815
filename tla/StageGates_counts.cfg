SPECIFICATION Spec
CONSTANTS
  Node = {n1, n2}
  Content = {c1, c2}
  MaxAttempts = 1
  NoPage = NoPage
  Reported = 1
  MaxCrashes = 1
SYMMETRY Symmetry
INVARIANTS
  GateHolds
PROPERTIES
  ParseCovers
