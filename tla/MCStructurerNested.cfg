SPECIFICATION MCSpec
CONSTANTS
    Blocks = {0, 1, 2}
    Tags = {}
    Shapes <- SmallGraphs
INVARIANT IrreducibleIsDispatched
CHECK_DEADLOCK FALSE
