CONSTANTS
  Thread = {t1, t2, t3}
  NoThread = NoThread
  Level = {NET, CLOCK}
  Chan = {c1, c2}
  Free = Free
  Slots = 2
  MaxNest = 2
  MaxPosts = 2
  Breakable = {"asleep"}
SPECIFICATION Spec
SYMMETRY MCSymmetry
INVARIANTS Exclusive NoLostWakeup NoStaleWakeup
