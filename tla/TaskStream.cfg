SPECIFICATION FairSpec
CONSTANTS
  streamed = streamed
  streamed2 = streamed2
  plain = plain
  bad = bad
  Tasks <- FourTasks
  StreamTasks <- TwoStreams
  Blocked <- OneBad
  Formats <- AllFormats
  MaxDeltas = 2
  MaxSplits = 1
CHECK_DEADLOCK FALSE
INVARIANTS TypeOK RowSaysWhatWasAnswered ContentComplete
PROPERTIES ImplementsStreamedTask EveryTaskAnswered
