SPECIFICATION FairSpec
CONSTANTS
  u1 = u1
  u2 = u2
  u3 = u3
  Upload <- MCUpload
  Plan <- MCPlan
  Initiated <- MCInitiated
  Young <- MCYoung
  Options <- MCOptions
  ErrorClasses <- MCErrorClasses
  Retryable <- MCRetryable
  CanaryMax = 2
  Limit = 2
  MaxRetries = 1
  MaxPercent = 5
  MaxAbsoluteFallback = 2
  Window = 2
  Scale = 1
  Float32 <- MCFloat32
  BaseCooldown = 1
  BackoffCap = 0
  MaxJitter = 0
  ThrottleSpan = 1
  ThresholdPercent = 50
  MinSamples = 2
  InitialConcurrency = 2
  MinConcurrency = 1
INVARIANTS
  ReportSound
  HarmBounded
PROPERTIES
  TripLatches
  RunEnds
  RunRefined
