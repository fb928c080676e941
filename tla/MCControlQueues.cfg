CONSTANTS
  f = f
  g = g
  Callbacks <- MCCallbacks
  Text <- QueueText
  MaxNodes = 14
  MaxExtents = 5
  MaxRaws = 2
  MaxOwners = 0
  MaxRuns = 1
SPECIFICATION FairSpec
\* A trap ends the program, and so does a guest that has nothing left to do.
CHECK_DEADLOCK FALSE
INVARIANTS
  TypeOK
  OutstandingIsLinear
  AppendLeftIsFlat
PROPERTIES
  ImplementsContract
  MachineYields
