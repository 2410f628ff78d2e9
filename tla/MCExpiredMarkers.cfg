SPECIFICATION MCSpec
CONSTANTS
  o1 = o1
  o2 = o2
  d7 = d7
  d14 = d14
  x = x
  y = y
  Operator <- MCOperator
  Target = {d7, d14}
  OtherRule = {x, y}
  Policies <- MCPolicies
  Tries = 2
  MaxCommands = 3
  MaxWrites = 1
  Contents <- MCContents
  Key = {1, 2}
  NewestOld = 5
  PageSize = 2
  PopSize = 2
  MaxScanWrites = 2
CHECK_DEADLOCK FALSE
INVARIANT
  MarkersHaveNoData
