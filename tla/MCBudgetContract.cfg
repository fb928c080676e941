CONSTANTS
  main = main
  f = f
  g = g
  tag = tag
  Entry = Entry
  Exhaustion = Exhaustion
  CatchAll = CatchAll
  CatchAllRef = CatchAllRef
  NoException = NoException
  TopLevel = TopLevel
  Main = main
  Functions <- MCStructured
  Locals <- MCLocals
  Tries <- MCTries
  Enclosing <- MCEnclosing
  Clauses <- MCClauses
  Tags <- MCTags
  FixedWeight = 1
  LocalWeight = 1
  StackBudget = 7
  MaxInt = 10
  ExitCodes = FALSE
  Dispatched = {}
SPECIFICATION Spec
\* A trap ends the instance.
CHECK_DEADLOCK FALSE
PROPERTIES
  ImplementsStackContract
