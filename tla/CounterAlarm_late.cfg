SPECIFICATION Spec
CONSTANTS
  a1 = a1
  a2 = a2
  Alarm = {a1, a2}
  Width = 64
  Increment = 2
  Settings <- Behind
  Jumps = {2, 5}
  RearmInside = FALSE
  MaxCount = 9
  MaxCalls = 1
  MaxDepth = 2
CHECK_DEADLOCK FALSE
INVARIANT WithinPeriod
