CONSTANTS
  main = main
  f = f
  g = g
  tag = tag
  Entry = Entry
  Exhaustion = Exhaustion
  CatchAll = CatchAll
  CatchAllRef = CatchAllRef
  NoException = NoException
  TopLevel = TopLevel
  Main = main
  Functions <- MCFunctions
  Locals <- MCLocals
  Tries <- MCTries
  Enclosing <- MCEnclosing
  Clauses <- MCClauses
  Tags <- MCTags
  FixedWeight = 1
  LocalWeight = 1
  StackBudget = 10
  MaxInt = 13
  ExitCodes = FALSE
  Dispatched = {g}
SPECIFICATION Spec
\* A trap ends the instance.
CHECK_DEADLOCK FALSE
INVARIANTS
  TypeOK
  CounterCovers
  WithinBudget
