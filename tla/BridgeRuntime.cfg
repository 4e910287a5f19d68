SPECIFICATION FairSpec
CONSTANTS
  Devices = {brush, sensor}
  Brushes = {brush}
  Installations = {{}, {brush}}
  Modes = {"auto", "first", "manual"}
  Payloads = {"start", "end", "values"}
  Capacity = 2
  MaxFrames = 2
INVARIANTS
  OnlyReplacedIsLost
  MotionIsNewest
  ShownIsRecorded
  PipelineInv
PROPERTIES
  AppliedInOrder
  SignalEnds
CHECK_DEADLOCK FALSE
