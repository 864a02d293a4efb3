SPECIFICATION Spec
CONSTANTS
  t1 = t1
  t2 = t2
  t3 = t3
  t4 = t4
  c1 = c1
  c2 = c2
  Tasks <- SomeTasks
  Failed <- OneFails
  KindOf <- TwoKinds
  Callers <- TwoCallers
  MaxTime = 2
  MaxFaults = 1
CHECK_DEADLOCK FALSE
SYMMETRY Symmetry
INVARIANTS CountedOnce MissedOnlyIfLate SyncedWasReceived
