SPECIFICATION Spec
CONSTANTS
  NumFns = 3
  Programs <- MCPrograms
INVARIANTS
  IInv
  EffectIsLargest
CHECK_DEADLOCK FALSE
