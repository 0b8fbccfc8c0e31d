\* A flapping primary next to a steady backup, restarted at will.
CONSTANTS
  main = main
  second = second
  backup = backup
  None = None
  Providers <- TwoProviders
  Priority <- MCPriority
  FailbackBase = 1
  FailbackMax = 4
  FlapThreshold = 1
  FlapWindow = 8
  FlapCap = 8
  Steady <- BackupSteady
  Commands = FALSE
  Restarts = TRUE
  SwitchBudget = 6
  MaxTime = 12
SPECIFICATION Spec
INVARIANT SwitchRateIsDamped
