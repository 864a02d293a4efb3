SPECIFICATION Spec
CONSTANTS
  Releases <- AllReleases
  MaxCrashes = 2
INVARIANTS OpenIsComplete FailsOnlyWhereKnown
