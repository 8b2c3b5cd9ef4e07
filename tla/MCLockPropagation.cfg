SPECIFICATION Spec
CONSTANTS
  NumFns = 3
  Locks = {1, 2}
  Programs <- MCPrograms
INVARIANTS
  IInv
  InheritedIsHeld
  NothingLeft
CHECK_DEADLOCK FALSE
