SPECIFICATION Spec
CONSTANTS
  None = None
  m1 = m1
  m2 = m2
  m3 = m3
  d1 = d1
  d2 = d2
  d3 = d3
  Physical <- ThreeDevices
  Absent = Absent
  malformed = malformed
  pin1 = pin1
  pin2 = pin2
  badPin = badPin
  Files <- CollidingFiles
  Pins = {pin1, pin2}
  DefaultAID <- Colliding
  KeyRank <- Ranks
  MaxAID = 20
  MaxStarts = 3
INVARIANTS
  RegistryInv
  AIDsUnique
  OneAccessoryEach
PROPERTIES
  RegistryKeeps
  EnrolledIsExposed
  UndisputedAIDStable
CHECK_DEADLOCK FALSE
