SPECIFICATION Spec
CONSTANTS
  Words <- WordsUsed
  Pieces <- QuotedPieces
  MaxPieces = 5
  MaxAsked = 0
INVARIANTS
  UnclosedIsRejected
CHECK_DEADLOCK FALSE
