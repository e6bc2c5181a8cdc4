CONSTANTS
  Value <- MCValue
  Pred <- MCPred
  MaxCount = 6
  INT_MAX = 2
SPECIFICATION SpecOrder
INVARIANTS
  Rearranged
  Partitioned
  RunsCollapsed
  SortedUnique
PROPERTY
  SortEnds
