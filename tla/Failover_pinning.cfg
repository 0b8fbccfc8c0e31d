\* Connection pinning, with an operator; evictions may fail.
CONSTANTS
  main = main
  backup = backup
  alice = alice
  bob = bob
  None = None
  Foreign = Foreign
  Watchdog = Watchdog
  Providers <- TwoProviders
  Priority <- MCPriority
  Operators <- OneOperator
  Fallback = None
  Pinning = TRUE
  Commands <- PinBackup
  Faults <- FlushFault
  MaxVerdicts = 2
  MaxExternal = 0
  MaxCrashes = 0
SPECIFICATION Spec
INVARIANTS
  ChainFollowsActive
PROPERTIES
  SwitchSparesPinned
