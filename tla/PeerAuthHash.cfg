CONSTANTS
  Node = {a, b}
  a = a
  b = b
  None = None
  Plans <- MCPlans
  MaxToken = 14
  MaxFaults = 1
  StartsOver = TRUE
SPECIFICATION Spec
INVARIANT HashInitialized
CHECK_DEADLOCK FALSE
