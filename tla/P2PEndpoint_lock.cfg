SPECIFICATION FairSpec
CONSTANTS
  c1 = c1
  c2 = c2
  Callers <- TwoCallers
  Ops <- AllOps
  MaxStarts = 1
  MaxConns = 1
  MaxDials = 1
CHECK_DEADLOCK FALSE
PROPERTY CommandsReturnIfPeersCome
