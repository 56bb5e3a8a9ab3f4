SPECIFICATION MSpec
CONSTANTS
  Alloc = {1, 2}
  PathElem = {0, 1}
  Path <- MCPath
  Ranges <- MCRanges
  MaxNodes = 3
  Name = {x, y}
  Binding = {y}
  Plain = {t}
  Val = {v1, v2}
  Uninit = Uninit
  Whole = Whole
  Width = 2
  MaxFrames = 2
  Sizes = {0, 1}
SYMMETRY Sym
CONSTRAINT MCSmall
INVARIANT OneHome
INVARIANT PoisonStaysInMemory
PROPERTY WritesLeaveOneChain
CHECK_DEADLOCK FALSE
