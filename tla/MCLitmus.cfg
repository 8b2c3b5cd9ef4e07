SPECIFICATION LitmusSpec
CONSTANTS
  Word = 100
  PairLists <- MCInputs
INVARIANTS
  LitmusInv
  ExactWhenUnambiguous
CHECK_DEADLOCK FALSE
