CONSTANTS
  Node = {a, b}
  a = a
  b = b
  None = None
  Plans <- MCPlans
  MaxToken = 14
  MaxFaults = 1
  StartsOver = FALSE
SPECIFICATION Spec
INVARIANT TypeOK
PROPERTY CalledBack
CHECK_DEADLOCK FALSE
