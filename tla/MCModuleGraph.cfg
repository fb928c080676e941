SPECIFICATION MCSpec
CONSTANTS
    N = 4
    MaxImports = 4
    MaxPrefix = 2
INVARIANTS
    CyclesReported
    DependenciesFirst
    InstancesInScope
    VerdictIsRight
    SkipsExplained
CHECK_DEADLOCK FALSE
