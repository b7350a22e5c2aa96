SPECIFICATION CircleSpec
CONSTANTS
  Files <- MCFiles
  Locals <- MCLocals
  Dir <- MCDir
  Base <- MCBase
  Names <- MCNames
  Numbered <- MCNumbered
  Absent = Absent
CHECK_DEADLOCK FALSE
INVARIANT RefsKeepTheirMeaning
