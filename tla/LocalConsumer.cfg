SPECIFICATION FairSpec
CONSTANTS
  r1 = r1
  r2 = r2
  Requests <- OneRequest
  PunchTries = 2
  MaxFrames = 3
  MaxCrashes = 1
CHECK_DEADLOCK FALSE
INVARIANTS TypeOK RunsPerEntry BooksTellAnswer StreamTellsOutcome
PROPERTY EveryRequestEnds
