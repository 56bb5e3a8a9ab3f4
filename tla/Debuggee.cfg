SPECIFICATION Spec
CONSTANTS
  entry = entry
  p = p
  q = q
  r = r
  Point <- MCPoint
  Where <- MCWhere
  EntryPoint = {entry}
  Specs <- MCSpecs
  MAX_FRAMES = 3
  MaxCalls = 3
  MaxBreakpoints = 2
INVARIANT HistoryLosesNothing
INVARIANT HitsNeverDrift
INVARIANT StepsKeepTheirPromise
CHECK_DEADLOCK FALSE
