SPECIFICATION MCSpec
CONSTANTS
    Blocks = {0, 1, 2, 3, 4, 5}
    Tags = {"x", "y"}
    Shapes <- AllGraphs
INVARIANTS
    CodeFollowsGraph
    ReducibleIsStructured
CHECK_DEADLOCK FALSE
