CONSTANTS
  f = f
  g = g
  Callbacks <- MCCallbacks
  Text <- ScopedText
  MaxNodes = 5
  MaxExtents = 4
  MaxRaws = 2
  MaxOwners = 0
  MaxRuns = 1
SPECIFICATION Spec
\* A trap ends the program, and so does a guest that has nothing left to do.
CHECK_DEADLOCK FALSE
INVARIANTS
  OutstandingIsLinear
PROPERTIES
  ImplementsContract
