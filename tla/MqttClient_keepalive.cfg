SPECIFICATION Spec
CONSTANTS
  DialTimeout = 1
  ReadTimeout = 3
  LongSession = 6
  FirstBackoff = 1
  BackoffLimit = 3
  KeepAlive = 6
  Grace = 9
  MaxReply = 1
  InboxSize = 1
  MaxFaults = 0
INVARIANTS
  KeepAliveKept
CHECK_DEADLOCK FALSE
