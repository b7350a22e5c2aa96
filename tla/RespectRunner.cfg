SPECIFICATION FairSpec
CONSTANTS
  Workflows = {"w", "d", "e"}
  Plans <- All
  Longest = 2
  MaxSteps = 4
  TimeLimited = TRUE
  Main = "main"
  None = "none"
  Missing = "missing"
INVARIANTS
  TypeOK
  CallsBounded
  LastAttemptsDecide
  RetryingIsBounded
  DependenciesGate
PROPERTIES
  Terminates
