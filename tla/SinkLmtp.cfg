SPECIFICATION Spec
CONSTANTS
    Msgs = {m1, m2}
    NullSender = {m2}
    Rcpts = {r1, r2}
    Postmaster = postmaster
    NoMsg = nomsg
    Options <- LmtpOptions
    MaxFaults = 0
INVARIANT PostmasterOnce
CHECK_DEADLOCK FALSE
