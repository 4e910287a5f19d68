SPECIFICATION Spec
CONSTANTS
  Devices = {d1}
  Topics = {ble, report}
  Counters <- MCCounters
  Gaps <- MCGaps
  ResetAfter = 3
  MaxDelay = 1
  MaxFrames = 3
  Horizon = 5
INVARIANTS
  SuppressionBounded
  OrderInv
PROPERTIES
  NoReplay
CHECK_DEADLOCK FALSE
