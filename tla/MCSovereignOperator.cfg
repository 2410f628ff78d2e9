SPECIFICATION FairSpec
CONSTANTS
  b1 = b1
  b2 = b2
  u1 = u1
  u2 = u2
  w = w
  v1 = v1
  v2 = v2
  key1 = key1
  key2 = key2
  key3 = key3
  Buckets <- MCBuckets
  Listing <- MCListing
  Upload <- MCUpload
  KeyOf <- MCKeyOf
  Born <- MCBorn
  Options <- MCOptions
  Exceptions <- MCExceptions
  CanaryCount = 1
  MaxConcurrency = 2
  MaxRuns = 2
  MaxPercent = 80
  MaxAbsoluteFallback = 1000
  Window = 2
  Scale = 1
  Float32 <- MCFloat32
  BaseCooldown = 1
  BackoffCap = 0
  MaxJitter = 0
  ThrottleSpan = 1
  ThresholdPercent = 50
  MinSamples = 2
  InitialConcurrency = 2
  MinConcurrency = 1
CHECK_DEADLOCK FALSE
INVARIANTS
  HarmContained
  LockCoversMutations
  

  
