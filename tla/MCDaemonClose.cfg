SPECIFICATION FairSpec
CONSTANTS
  MaxEvents = 1
  MaxRuns = 1
  MaxStarts = 1
  MaxRotations = 0
  Beside = {}
  NoFile = NoFile
  Broken = Broken
CHECK_DEADLOCK FALSE
PROPERTY
  ClosedMeansFlushed
