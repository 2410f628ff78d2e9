SPECIFICATION Spec
CONSTANTS
  b1 = b1
  b2 = b2
  b3 = b3
  b4 = b4
  Bucket <- MCBucket
  Listings <- MCListings
  Excluded = {b4}
  Concurrency = 2
  Errors <- MCErrors
  MaxSweeps = 2
CHECK_DEADLOCK FALSE
INVARIANTS
  ReportCoversListing
  CrashCostsSlots
PROPERTIES
  CheckpointGrows
