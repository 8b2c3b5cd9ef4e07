SPECIFICATION Spec
CONSTANTS
  NumModules = 3
  Jobs = 2
  Names = {1, 2, 3}
  Parts = {"a", "b", "c"}
  Corpora <- MCCorpora
INVARIANTS
  IInv
  SkippedOnlyWithoutBudget
  OwnLitmus
PROPERTY
  Ends
CHECK_DEADLOCK FALSE
