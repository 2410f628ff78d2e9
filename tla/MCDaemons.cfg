SPECIFICATION MCSpec
CONSTANTS
  MaxEvents = 3
  MaxRuns = 2
  MaxStarts = 2
  MaxRotations = 2
  Beside = {"cli"}
  NoFile = NoFile
  Broken = Broken
  d1 = d1
  d2 = d2
  d3 = d3
  b1 = b1
  NoLock = NoLock
  Daemon <- MCDaemon
  Mortal <- MCDaemon
  Bystander <- MCBystander
  PidOf <- MCPidOf
CHECK_DEADLOCK FALSE
INVARIANTS
  HistoryExact
  LockCoversRun
  SequentialExclusion
  NoLitter
PROPERTIES
  
  ReleaseOwnOnly
