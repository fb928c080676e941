CONSTANTS
  f = f
  g = g
  Callbacks <- MCCallbacks
  Text <- ScopedText
  MaxNodes = 4
  MaxExtents = 3
  MaxRaws = 2
  MaxOwners = 1
  MaxRuns = 2
SPECIFICATION Spec
\* A trap ends the program, and so does a guest that has nothing left to do.
CHECK_DEADLOCK FALSE
INVARIANTS
  RootsMatchRuns
  OwnersMatchTransfers
  OutstandingIsLinear
  CapturesExpireWithRun
PROPERTIES
  OwnerLife
  ImplementsContract
