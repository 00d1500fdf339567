SPECIFICATION Spec
CONSTANTS
  Words <- WordsUsed
  Pieces <- ExpressionPieces
  MaxPieces = 5
  MaxAsked = 4
INVARIANTS
  NothingIsLost
  OperatorsBindByRank
  CompileKeepsTree
  ValidatedFailsOnlyByType
  PositionsPick
CHECK_DEADLOCK FALSE
