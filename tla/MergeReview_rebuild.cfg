SPECIFICATION Spec
CONSTANTS
  s1 = s1
  s2 = s2
  Keys = 3
  Records <- MCRecords
  Acronym <- MCAcronym
  Session <- OneSession
  Limit = 3
  MaxFaults = 1
INVARIANTS
  AliasAgrees
PROPERTIES
  NeverReasked
