SPECIFICATION Spec
CONSTANTS
    MaxMsg = 3
    Big <- BigMsgs
    Options <- AllOptions
    HasLast = FALSE
    FastMin = 1
    MaxLockouts = 1
    MaxFaults = 2
    MaxCopies = 4
INVARIANTS SeenIsSettled SkippedIsSettled CopiesNeedFaults
PROPERTIES Transfer
