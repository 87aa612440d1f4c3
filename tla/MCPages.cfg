SPECIFICATION Spec
CONSTANTS
    Rows = {1, 2, 3, 4, 5, 6, 7, 8}
    Start <- MCStart
    Outside = {6}
    Stamp <- MCStamp
    AskedSizes = {0, 3, 4}
    DefaultSize = 2
    MaxSize = 3
    MaxWrites = 3
INVARIANTS IInv NothingMissed NothingTwice
CHECK_DEADLOCK FALSE
