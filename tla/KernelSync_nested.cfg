SPECIFICATION Spec
CONSTANTS
  high = high
  mid = mid
  low = low
  m1 = m1
  m2 = m2
  cv = cv
  Idle = Idle
  NoThread = NoThread
  NoMutex = NoMutex
  Thread = {high, mid, low}
  Mutex = {m1, m2}
  Cond = {}
  MinPriority = 3
  InitPriority <- MCPriority
  Protocol <- InheritAndCeiling
  Ceiling <- TopCeiling
  Given = {1}
  Started <- Three
  Calls = {"lock", "trylock", "unlock", "kill", "exit", "suspend", "resume", "setpriority"}
  MaxSuspend = 1
  MaxHeld = 2
CHECK_DEADLOCK FALSE
INVARIANTS QueueOK CountOK BoostEnds QueuesSorted MostUrgentRuns
PROPERTIES BaseKept
