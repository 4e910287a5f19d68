SPECIFICATION Spec
CONSTANTS
  None = None
  m1 = m1
  m3 = m3
  d1 = d1
  d2 = d2
  d3 = d3
  Fields = {temperature, battery}
  Values = {v1, v2}
  Installations <- ByDID
  Rank <- Position
  Identities <- BothAddresses
  MaxReports = 2
  MaxRestarts = 2
INVARIANTS
  EveryShownIsRestorable
CHECK_DEADLOCK FALSE
