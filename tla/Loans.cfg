SPECIFICATION Spec
CONSTANTS
  Local <- MCLocal
  NoLocal = NoLocal
  Elem = {"f", "g", "*"}
  Block <- MCBlock
  Bodies <- MCBodies
  MaxMints = 5
INVARIANT NoStaleUse
INVARIANT PlaceTempsAreExact
INVARIANT ScopeIsSomePath
CHECK_DEADLOCK FALSE
