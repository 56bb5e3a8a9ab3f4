SPECIFICATION FairSpec
CONSTANTS
  Local <- MCLocal
  NoLocal = NoLocal
  Elem = {"f"}
  Block <- MCBlock
  Bodies <- MCBodies
INVARIANTS NoMisuse NoTemporaryLost FlagsAreThePaths BlameIsARealMove
PROPERTY AnalysisEnds
CHECK_DEADLOCK FALSE
