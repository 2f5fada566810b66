SPECIFICATION Spec
CONSTANTS
  c1 = c1
  c2 = c2
  s1 = s1
  s2 = s2
  f = f
  g = g
  Own = {c1}
  Slots <- TwoSlots
  Fun = {f}
  Null = Null
  Delays = {1, 2}
  Start = 1
  Preempt = FALSE
  TouchNext = FALSE
  MaxTime = 6
  MaxCalls = 2
CHECK_DEADLOCK FALSE
INVARIANTS ListOK Covered
PROPERTIES NeverEarly StoppedStays
