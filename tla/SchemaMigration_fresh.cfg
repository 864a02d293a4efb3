SPECIFICATION Spec
CONSTANTS
  Releases <- NoFile
  MaxCrashes = 0
INVARIANT InitSucceeds
