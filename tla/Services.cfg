SPECIFICATION Spec
CONSTANTS
  t1 = t1
  t2 = t2
  u1 = u1
  u2 = u2
  c1 = c1
  c2 = c2
  a1 = a1
  a2 = a2
  m1 = m1
  m2 = m2
  Tasks <- TwoTasks
  Users <- TwoUsers
  Local = local
  Callers <- TwoCallers
  PageLimit = 1
  Foreign = Foreign
  MaxTime = 2
  Commands <- TwoCallers
  Addrs <- TwoAddrs
  NoAddr = NoAddr
  MaxStarts = 3
  Dispatches <- TwoTasks
  MaxSessions = 3
  BatchMax = 2
  MaxEntries = 5
  Models <- TwoModels
  Refreshes <- TwoCallers
  Offers <- FiveOffers
  MaxRevision = 1
SYMMETRY Symmetric
CHECK_DEADLOCK FALSE
INVARIANTS TypeOK CreditsMissedOnlyIf WalletIsMirror ServerIsStoppable BridgeTablesHold LogIsWhole RegistryIsFresh
