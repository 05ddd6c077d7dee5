SPECIFICATION LiveSpec
CONSTANTS
  Callers = {k1, k2}
  Checkers = {}
  Answers = {a1}
  Hops = 1
  MaxRuns = 1
  MaxLoads = 0
PROPERTIES
  CallsReturn
CHECK_DEADLOCK FALSE
