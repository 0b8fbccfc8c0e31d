\* Other tools interfere and everything stops changing in the end.
CONSTANTS
  main = main
  backup = backup
  alice = alice
  bob = bob
  None = None
  Foreign = Foreign
  Watchdog = Watchdog
  Providers <- TwoProviders
  Priority <- MCPriority
  Operators <- NoOne
  Fallback = None
  Pinning = FALSE
  Commands <- PinBackup
  Faults <- NoFaults
  MaxVerdicts = 1
  MaxExternal = 1
  MaxCrashes = 0
SPECIFICATION FairSpec
PROPERTIES
  WatchdogNeverUndoesSwitch
  Converges
