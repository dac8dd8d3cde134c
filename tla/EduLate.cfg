SPECIFICATION EduSpec
CONSTANTS
  Callers = {c1, c2}
  MaxCalls = 2
INVARIANT SingleFactorial
CHECK_DEADLOCK FALSE
