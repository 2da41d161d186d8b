SPECIFICATION FairSpec
CONSTANTS
    Msgs = {m1, m2}
    NullSender = {m2}
    Rcpts = {r1, r2}
    Postmaster = postmaster
    NoMsg = nomsg
    Options <- SinkOptions
    MaxFaults = 2
INVARIANTS NothingDropped InStep ResendNeedsFault
PROPERTIES EventuallyGone
CHECK_DEADLOCK FALSE
