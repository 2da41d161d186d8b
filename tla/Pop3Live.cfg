SPECIFICATION FairSpec
CONSTANTS
    MaxMsg = 3
    Big <- NoneBig
    Options <- LiveOptions
    HasLast = TRUE
    FastMin = 1
    MaxLockouts = 1
    MaxFaults = 1
    MaxCopies = 1
INVARIANTS RemovedIsSettled
PROPERTIES EventuallySettled
