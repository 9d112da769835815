SPECIFICATION Spec
CONSTANTS
  b = b
  n = n
  Terminal = {t1, t2}
  t1 = t1
  t2 = t2
  v1 = v1
  Version = {v1}
  Pair = {b, n}
  Gold2 = {b}
  Bench = {b}
  Calib = {}
  Scored = {n}
  MaxFeat = 2
  MaxRound = 2
  MaxCommands = 5
  MaxCrashes = 1
  NoRow = NoRow
  NoFile = NoFile
  NoPlatt = NoPlatt
  NoScore = NoScore
  NoReport = NoReport
SYMMETRY Symmetry
PROPERTIES
  DryRunLeavesNothing
