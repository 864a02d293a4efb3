SPECIFICATION FairSpec
CONSTANTS
  c1 = c1
  c2 = c2
  plain = plain
  streamed = streamed
  bad = bad
  Tasks <- StreamAndBad
  StreamTasks <- OneStream
  Blocked <- OneBad
  Callers <- OneCaller
  MaxStarts = 1
  MaxFaults = 1
  MaxQueue = 2
CHECK_DEADLOCK FALSE
PROPERTIES Reconnects TaskAnswered AnsweredIsLogged StatusFollowsConnection
