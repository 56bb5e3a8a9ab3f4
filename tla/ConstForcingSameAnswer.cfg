SPECIFICATION Spec
CONSTANTS
  Item = {i1, i2}
  Block = {b1}
  Bodies <- MCBodies
  MAX_CONST_DEPTH = 3
  FuelBudget = 4
INVARIANT SameAnswerAnywhere
CHECK_DEADLOCK FALSE
