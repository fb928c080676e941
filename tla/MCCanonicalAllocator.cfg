CONSTANTS
    Bits = 5
    Limit = 32
    HalfLimit = 16
    Page = 8
    HeapAlign = 2
    Record = 3
    RecordAlign = 2
    Granule = 4
    MaxPages = 4
    StartPages = {2}
    HeapBases <- MCHeapBases
    Pointers <- MCPointers
    Lengths <- MCLengths
    Aligns <- MCAligns
    Slack = 4
    Junk = Junk
    Value = {Junk, x}
    TRAP = TRAP
SPECIFICATION Spec
INVARIANTS TypeOK RegistryIsChunks BuffersApart SegmentsBelowCursor BusyOnlyAfterFailedStart ReturnedPointerAligned
PROPERTY ImplementsContract
