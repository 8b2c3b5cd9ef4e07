CONSTANTS
  NumFns = 2
  Globals = {1, 2}
  Chain <- FilterOrder
  AllNames <- MCAllNames
  Requests <- MCRequests
  Cases <- MCCases
SPECIFICATION DriverSpec
INVARIANTS IInv SideIndependent PassesAgree TimeConserved StatsAddUp
PROPERTIES ImplementsPairFilter Ends
CHECK_DEADLOCK FALSE
