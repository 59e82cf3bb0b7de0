CONSTANTS
    PageSize = 120
    HeaderSize = 16
    SegmentSize = 8
    Alignment = 8
    MinSplit = 8
    WordSize = 256
    PageBudget = 2
    Sizes = {1, 12, 32, 97}
SPECIFICATION HeapSpec
INVARIANTS HeapTypeOK BlocksSound LiveIntact
CHECK_DEADLOCK FALSE
