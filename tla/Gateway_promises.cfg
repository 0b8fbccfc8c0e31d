\* Three providers, an operator, restarts: every promise but the flap rate.
CONSTANTS
  main = main
  second = second
  backup = backup
  None = None
  Providers <- ThreeProviders
  Priority <- MCPriority
  FailbackBase = 1
  FailbackMax = 3
  FlapThreshold = 1
  FlapWindow = 2
  FlapCap = 3
  Steady <- NoneSteady
  Commands = TRUE
  Restarts = TRUE
  SwitchBudget = 0
  MaxTime = 4
SPECIFICATION Spec
INVARIANTS
  TypeOK
  EscapeIsImmediate
  PinWinsWhenUsable
  FailbackIsNotStarved
PROPERTIES
  MovesAreJustified
