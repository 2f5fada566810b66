CONSTANTS
  a1 = a1
  a2 = a2
  Addr = {a1, a2}
  None = None
  Wished = None
  Tries = 2
  BoxSize = 3
  MaxUser = 1
  UserAsks = {"release", "renew"}
  Prompt = TRUE
  MaxFails = 1
  Manual = FALSE
SPECIFICATION Spec
CHECK_DEADLOCK FALSE
INVARIANTS NotStuck CanTakeDown
PROPERTIES OwnStage 
