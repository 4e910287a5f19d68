SPECIFICATION Spec
CONSTANTS
  None = None
  m1 = m1
  m3 = m3
  d1 = d1
  d2 = d2
  d3 = d3
  Fields = {temperature, battery}
  Values = {v1, v2}
  Installations <- Installed
  Rank <- Position
  Identities <- AllReports
  MaxReports = 3
  MaxRestarts = 2
INVARIANTS
  CacheInv
  ShownIsRestorable
  UnsavedOnlyAfterFailure
PROPERTIES
  NothingForgotten
SYMMETRY Symmetry
CHECK_DEADLOCK FALSE
