SPECIFICATION VerifierSpec
CONSTANTS
  Objs <- MCObjs
  None = None
  Inputs <- MCInputs
INVARIANTS
  TestWellFormed
  AboutOrdering
  ExactWhenKept
  NoFalseAlarm
  P8MakesAnchorSideExact
CHECK_DEADLOCK FALSE
