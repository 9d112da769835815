SPECIFICATION Spec
CONSTANTS
  o = o
  p = p
  u1 = u1
  u2 = u2
  u3 = u3
  t1 = t1
  t2 = t2
  Subject = {o, p}
  Url = {u1, u2, u3}
  Text = {t1, t2}
  NoText = NoText
  Hits <- MCHits
  Bodies <- MCBodies
  Mentions <- MCMentions
  Junk = {}
  UrlSlots = 2
  SearchSlots = 1
  MaxFaults = 1
INVARIANTS
  PaidOnce
  EvidenceArchived
  ReportsNetNew
PROPERTIES
  BuildEnds
