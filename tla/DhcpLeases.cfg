CONSTANTS
  c1 = c1
  c2 = c2
  c3 = c3
  Client = {c1, c2, c3}
  Nobody = Nobody
  start = 11
  end = 14
  None = 0
  Skipped = {11}
  Slots = 2
  StaticOf <- MCStatic
  Silent = {}
  Late = FALSE
  Mixed = TRUE
  Lease = 2
  Offer = 1
  Conflict = 1
  MaxTime = 4
SPECIFICATION Spec
INVARIANTS TypeOK OneEntryPerClient StaticKept
PROPERTY NotOffered
CHECK_DEADLOCK FALSE
