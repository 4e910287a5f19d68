SPECIFICATION Spec
CONSTANTS
  Pids = {p1, p2}
  Shells = {boot, user, installer}
  BootShell = boot
  InstallShell = installer
  Absent = Absent
  Empty = Empty
  None = None
  Contents = {"homekit", "openmiio", "old", "new"}
  NewVersion = "new"
  Manifest <- SmallManifest
  Earlier <- EarlierInstallations
  MaxInstalls = 1
  MaxFaults = 1
  MaxCalls = 1
SYMMETRY PidSymmetry
INVARIANTS
  OneBridge
  InstalledOrRestored
  RunsWhatIsInstalled
PROPERTIES
  StartLeavesBridge
CHECK_DEADLOCK FALSE
