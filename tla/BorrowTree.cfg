SPECIFICATION LSpec
CONSTANTS
  Alloc = {a1, a2}
  PathElem <- MCPathElem
  Path <- MCPath
  Ranges <- MCRange
  Loc <- MCLoc
  MaxNodes = 4
SYMMETRY AllocSymmetry
INVARIANT ScanListsExact
INVARIANT Exclusive
INVARIANT OwnerNeverRefused
INVARIANT RangeIsAccessPerElement
INVARIANT NoViolationMissed
PROPERTY ImplementsTreeBorrows
CHECK_DEADLOCK FALSE
