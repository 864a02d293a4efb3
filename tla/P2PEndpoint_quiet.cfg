SPECIFICATION FairSpec
CONSTANTS
  c1 = c1
  c2 = c2
  Callers <- OneCaller
  Ops <- ShareOps
  MaxStarts = 1
  MaxConns = 1
  MaxDials = 0
CHECK_DEADLOCK FALSE
PROPERTY CommandsReturn
