SPECIFICATION Spec
CONSTANTS
  i32 = i32
  u8 = u8
  bool = bool
  Atom <- MCAtom
  IntAtom <- MCIntAtom
  Error = Error
  Open = Open
  Number = Number
  Arity = 2
  Libraries <- MCLibraries
INVARIANTS GroupsAreComponents CopiesFitTheDecision OrderDecidesNothingWithoutLiterals
CHECK_DEADLOCK FALSE
