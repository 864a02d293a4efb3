SPECIFICATION Spec
CONSTANTS
  c1 = c1
  c2 = c2
  plain = plain
  streamed = streamed
  bad = bad
  Tasks <- TwoTasks
  StreamTasks <- OneStream
  Blocked <- NoTasks
  Callers <- TwoCallers
  MaxStarts = 2
  MaxFaults = 1
  MaxQueue = 1
CHECK_DEADLOCK FALSE
SYMMETRY CallerSymmetry
VIEW SafetyView
INVARIANTS TypeOK SingleLiveClient RunningMeansLive OrphanRefresherOnlyAfterExit AtMostOnce
PROPERTY StopLeavesNoClient
