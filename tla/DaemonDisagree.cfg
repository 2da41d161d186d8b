SPECIFICATION Spec
CONSTANTS
    Order <- OneName
    Interval <- NoInterval
    Monitored = {}
    Watched = {"a"}
    Confs <- DisagreeConfs
    Repolls <- RepollsOne
    SizesOf <- NoSizes
    WarnPeriod = 1
    MAX_TIMEOUTS = 2
    MAX_LOCKOUTS = 1
    NewLimit = 1
    OldLimit = 2
    MaxMail = 4
    MaxEvents = 0
INVARIANTS TimeoutsWedge WithinPollLimit
CHECK_DEADLOCK FALSE
