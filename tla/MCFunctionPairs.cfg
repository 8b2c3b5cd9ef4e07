SPECIFICATION Spec
CONSTANTS
  ext = ext
  L1 = L1
  L2 = L2
  Fns = {1, 2, 3}
  Decls = {ext}
  Objs = {1, 2}
  Labels = {L1, L2}
  Modules <- MCModules
INVARIANTS
  IInv
  EveryMatchRecorded
  EmptyOnlyThroughHelpers
CHECK_DEADLOCK FALSE
