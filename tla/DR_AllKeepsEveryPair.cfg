CONSTANTS
  NumFns = 2
  Globals = {1, 2}
  Chain <- FilterOrder
  AllNames <- MCAllNames
  Requests <- MCRequests
  Cases <- MCCases
SPECIFICATION DriverSpec
CHECK_DEADLOCK FALSE
INVARIANT AllKeepsEveryPair
