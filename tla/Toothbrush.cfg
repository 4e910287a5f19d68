SPECIFICATION FairSpec
CONSTANTS
  LiveWindow = 1
  MaxSession = 3
  Watchdog = 2
  Timestamps <- MCTimestamps
  GatewayTimes <- MCGatewayTimes
  WallTimes <- MCWallTimes
  Scores = {s1}
  Batteries = {20, 21}
  NoValue = NoValue
  LastInput = 3
  MaxGeneration = 4
  Horizon = 6
INVARIANTS
  SessionCoherent
  ActiveIsGuarded
  NoOrphanTimer
  RearmNeverNeeded
  WatchdogInv
PROPERTIES
  ImplementsActivitySafety
  GuardEnds
  ImplementsActivity
CHECK_DEADLOCK FALSE
