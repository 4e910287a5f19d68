SPECIFICATION Spec
CONSTANTS
  None = None
  m1 = m1
  m2 = m2
  m3 = m3
  d1 = d1
  d2 = d2
  d3 = d3
  Physical <- ThreeDevices
  Absent = Absent
  malformed = malformed
  pin1 = pin1
  pin2 = pin2
  badPin = badPin
  Files <- FilesByDid
  Pins = {pin1, pin2}
  DefaultAID <- Distinct
  KeyRank <- Ranks
  MaxAID = 20
  MaxStarts = 3
PROPERTIES
  StableAID
CHECK_DEADLOCK FALSE
