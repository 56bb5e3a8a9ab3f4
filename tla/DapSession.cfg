SPECIFICATION Spec
CONSTANTS
  Launch = {l1, l2, l3}
  None = None
  MaxIds = 3
SYMMETRY LaunchSymmetry
INVARIANT BreakpointsTransferred
INVARIANT LaunchesAnswered
INVARIANT StartsAndEndsOnce
INVARIANT ClientIsTold
CHECK_DEADLOCK FALSE
