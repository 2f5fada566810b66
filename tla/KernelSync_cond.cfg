SPECIFICATION FairSpec
CONSTANTS
  high = high
  mid = mid
  low = low
  m1 = m1
  m2 = m2
  cv = cv
  Idle = Idle
  NoThread = NoThread
  NoMutex = NoMutex
  Thread = {high, mid, low}
  Mutex = {m1}
  Cond = {cv}
  MinPriority = 3
  InitPriority <- MCPriority
  Protocol <- OneInherit
  Ceiling <- TopCeiling
  Given = {}
  Started <- Three
  Calls = {"lock", "unlock", "wait", "timedwait", "signal", "broadcast", "dsrsignal", "release", "mutexrelease", "delay"}
  MaxSuspend = 1
  MaxHeld = 1
CHECK_DEADLOCK FALSE
INVARIANTS NoOrphanSleeper NoLostWakeup NoInversion
PROPERTIES MonitorSpec UrgentGetsMutex
