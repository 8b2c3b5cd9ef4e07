SPECIFICATION Walk
CONSTANTS
  Values = {1, 2, 3, 4, 5, 6}
  Budget = 4
  Graphs <- MCGraphs
INVARIANTS
  WalkInv
  ExclusionSound
CHECK_DEADLOCK FALSE
