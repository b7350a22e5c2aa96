SPECIFICATION MCWalkerSpec
CONSTANTS
  Nodes <- MCNodes
  Root = "root"
  Type <- MCType
  Between <- MCBetween
  Nobody = Nobody
CHECK_DEADLOCK FALSE
INVARIANT NestedSeeAll
