SPECIFICATION Spec
CONSTANTS
  Caller = {c1, c2}
  ErrorClasses <- MCErrorClasses
  BatchTotal = 3
  MaxRounded = 2
  Window = 2
  Scale = 9
  Float32 <- MCFloat32
  BaseCooldown = 2
  BackoffCap = 1
  MaxJitter = 0
  ThrottleSpan = 2
  ThresholdPercent = 60
  MinSamples = 2
  InitialConcurrency = 2
  MinConcurrency = 1
SYMMETRY MCSymmetry
INVARIANTS
  ProbeIsolated
  CooldownServed
  LimitsServed
PROPERTIES
  ErrorRateJudged
  WindowRefined
