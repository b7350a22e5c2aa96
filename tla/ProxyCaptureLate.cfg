SPECIFICATION Spec
CONSTANTS
  Requests <- Two
  Leaving <- Two
  None = None
INVARIANTS
  TemporaryFileIsRemoved
