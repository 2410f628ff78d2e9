SPECIFICATION Spec
CONSTANTS
  v1 = v1
  v2 = v2
  v3 = v3
  Version <- MCVersion
  Plan <- MCPlan
  Modified <- MCModified
  Young <- MCYoung
  Unversioned <- MCUnversioned
  Caller <- MCCaller
  Options <- MCOptions
  ErrorClasses <- MCErrorClasses
  Codes <- MCCodes
  CanaryMax = 2
  BatchSize = 2
  MaxRetries = 1
  MaxPercent = 5
  MaxAbsoluteFallback = 2
  Window = 2
  Scale = 2
  Float32 <- MCFloat32
  BaseCooldown = 1
  BackoffCap = 0
  MaxJitter = 0
  ThrottleSpan = 1
  ThresholdPercent = 80
  MinSamples = 2
  InitialConcurrency = 2
  MinConcurrency = 1
CHECK_DEADLOCK FALSE
INVARIANTS
  HarmBounded
  BulkReportSound
PROPERTIES
  OpenStopsBatches
