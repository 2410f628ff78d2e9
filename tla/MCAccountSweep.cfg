SPECIFICATION AccountSpec
CONSTANTS
  a1 = a1
  a2 = a2
  a3 = a3
  None = None
  Account <- MCAccount
  Directories <- MCDirectories
  Inactive = {a3}
  ExcludedAccounts = {}
  AccountConcurrency = 2
  Roles <- MCRoles
  Lifetimes = {1, 3}
  RefreshWindow = 1
  MaxRetries = 1
  MaxEntries = 3
  MaxTime = 2
  MaxRounds = 2
CHECK_DEADLOCK FALSE
INVARIANTS
  OneRequestPerRole
  FaultsIsolated
PROPERTIES
  RoleCredentials
