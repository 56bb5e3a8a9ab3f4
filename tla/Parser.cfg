SPECIFICATION Spec
CONSTANTS
  Texts <- MCTexts
  MaxMade = 5
INVARIANTS PositionsHold TreeIsAsMarked ErrorsAreWhereReported
CHECK_DEADLOCK FALSE
