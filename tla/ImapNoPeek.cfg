SPECIFICATION FairSpec
CONSTANTS
    MaxMsg = 1
    Big = {}
    Options <- NoPeekOptions
    MaxFaults = 1
    MaxMeddling = 0
    MaxCopies = 2
PROPERTIES ForcedRetrieval
CHECK_DEADLOCK FALSE
