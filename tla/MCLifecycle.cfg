SPECIFICATION Spec
CONSTANTS
  NumFns = 4
  Programs <- MCPrograms
INVARIANTS
  IInv
  TagsAreEnclosed
  CallbackPairsSurvive
  CorpusTagsEnclosed
PROPERTY
  Terminates
CHECK_DEADLOCK FALSE
