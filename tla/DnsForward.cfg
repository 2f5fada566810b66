CONSTANTS
  Host = {h1, h2}
  Name = {n1, n2}
  Nid = {1, 2, 3}
  MAXDNSSERVER = 3
  FTABSIZ = 1
  TIMEOUT = 0
  MaxTime = 1
SPECIFICATION DnsSpec
INVARIANTS AnswerFits
PROPERTY LoopEnds
CHECK_DEADLOCK FALSE
