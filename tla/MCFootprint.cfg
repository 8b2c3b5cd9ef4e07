SPECIFICATION Spec
CONSTANTS
  ext = ext
  a = a
  b = b
  Fns = {1, 2, 3}
  Decls = {ext}
  Objs = {a, b}
  Programs <- MCPrograms
INVARIANTS
  IInv
  CompleteWhenMatching
PROPERTIES
  ComputesClosure
CHECK_DEADLOCK FALSE
