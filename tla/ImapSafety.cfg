SPECIFICATION FairSpec
CONSTANTS
    MaxMsg = 3
    Big <- BigMsgs
    Options <- ImapOptions
    MaxFaults = 1
    MaxMeddling = 1
    MaxCopies = 4
INVARIANTS NumbersMatch NewMailNoticed
PROPERTIES Transfer EventuallySettled
CHECK_DEADLOCK FALSE
