SPECIFICATION Spec
CONSTANTS
  s1 = s1
  s2 = s2
  Keys = 3
  Records <- MCRecords
  Acronym <- NoAcronym
  Session <- TwoSessions
  Limit = 1
  MaxFaults = 1
SYMMETRY SessionsAlike
INVARIANTS
  MergeLogged
PROPERTIES
  ImplementsClasses
