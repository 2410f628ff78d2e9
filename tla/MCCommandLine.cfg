SPECIFICATION Spec
CONSTANTS
  Bucket = {"b1", "b2"}
  Lifecycles <- MCLifecycles
  ChurnSpan = 1
  WasabiSpan = 2
  Upload = {"u"}
  Version = {"v", "p"}
  ProtectedKey = {"p"}
  Contents <- MCContents
  Routes <- MCRoutes
  GuardChoices <- MCGuards
  Born <- MCBorn
  Endpoint = {"wasabi"}
  Sample = 1
  FlagSets <- MCFlagSets
  MaxTime = 1
  MaxMeddling = 1
  MaxInvocations = 2
CHECK_DEADLOCK FALSE
INVARIANTS
  StandingProtectionHolds
  RemovedAsPlanned
  
  ClientsReleased
