SPECIFICATION FairSpec
CONSTANTS
  a1 = a1
  a2 = a2
  Alarm = {a1, a2}
  Width = 64
  Increment = 1
  Settings <- Ahead
  Jumps <- None
  RearmInside = FALSE
  MaxCount = 5
  MaxCalls = 2
  MaxDepth = 3
CHECK_DEADLOCK FALSE
INVARIANTS ListOK
PROPERTIES KeepsPromise TickEnds
