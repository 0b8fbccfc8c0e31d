\* Loops, an operator and the watchdog; routes are refused, and the daemon is
\* killed or the machine rebooted at any step.
CONSTANTS
  main = main
  backup = backup
  alice = alice
  bob = bob
  None = None
  Foreign = Foreign
  Watchdog = Watchdog
  Providers <- TwoProviders
  Priority <- MCPriority
  Operators <- OneOperator
  Fallback = main
  Pinning = FALSE
  Commands <- PinBackup
  Faults <- RouteFault
  MaxVerdicts = 1
  MaxExternal = 0
  MaxCrashes = 1
SPECIFICATION Spec
INVARIANTS
  TypeOK
  NoStaleFlows
  RouteFollowsActive
  PinIsDurable
PROPERTIES
  OnlyMovesResetFlows
