SPECIFICATION Spec
CONSTANTS
    MaxMsg = 1
    Big <- NoneBig
    Options <- DisagreeOptions
    HasLast = FALSE
    FastMin = 7
    MaxLockouts = 1
    MaxFaults = 0
    MaxCopies = 4
INVARIANTS SoftBounceKeeps DeleteHasRecord
