CONSTANTS
  Node = {a, b}
  a = a
  b = b
  None = None
  Plans <- MCPlans
  MaxToken = 14
  MaxFaults = 2
  StartsOver = TRUE
SPECIFICATION Spec
PROPERTIES KeysAgree WildOnlyUnanswered AnsweredInTheEnd
CHECK_DEADLOCK FALSE
