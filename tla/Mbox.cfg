CONSTANTS
  t1 = t1
  t2 = t2
  t3 = t3
  t4 = t4
  Thread <- MCThread
  Item = {x, y}
  Null = Null
  Size = 2
  prio <- MCPrio
  Getter = {t1, t2}
  Putter = {t3, t4}
  Timed = {t1,t3}
  Killable = {t2}
SPECIFICATION FairSpec
INVARIANTS NoIdleWaiter
PROPERTIES InOrder Served
