SPECIFICATION FairSpec
CONSTANTS
    Ids <- MCIds
    Width = 2
    MIN_RECORDS = 2
    UINT_MAX = 255
    MaxNum = 2
    MaxOps = 5
INVARIANTS FindsAll FreedOnce NumbersFound
