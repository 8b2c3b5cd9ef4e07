SPECIFICATION Spec
CONSTANTS
  NumFns = 2
  Objs = {"payload", "flag"}
  Globals = {"flag"}
  Mnemonics <- MCMnemonics
  AsmOrdering <- MCOrdering
  AsmKind <- MCKind
  Callees <- MCCallees
  Allocators = {"kmalloc"}
  CallLabel <- MCLabel
  CallOrdering <- MCCallOrdering
  None = None
  Codes <- MCCodes
INVARIANTS
  IInv
  NoEventLost
  NoAnchoredFunctionIgnored
  PlainPublishIsMP
CHECK_DEADLOCK FALSE
