SPECIFICATION Spec
CONSTANTS
  Workflows = {"w", "d"}
  Plans <- BrokenRetries
  Longest = 2
  MaxSteps = 4
  TimeLimited = FALSE
  Main = "main"
  None = "none"
  Missing = "missing"
INVARIANTS
  ActionErrorsAreCounted
