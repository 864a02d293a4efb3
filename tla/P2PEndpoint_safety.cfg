SPECIFICATION Spec
CONSTANTS
  c1 = c1
  c2 = c2
  Callers <- TwoCallers
  Ops <- AllOps
  MaxStarts = 2
  MaxConns = 1
  MaxDials = 1
CHECK_DEADLOCK FALSE
SYMMETRY CallerSymmetry
INVARIANTS TypeOK AcceptsOnOpenEndpoint CountCoversIncoming
