SPECIFICATION Spec
CONSTANTS
    Order <- OneName
    Interval <- NoInterval
    Monitored = {}
    Watched = {}
    Confs <- OneConf
    Repolls <- NoRepolls
    SizesOf <- TwoSizes
    WarnPeriod = 2
    MAX_TIMEOUTS = 2
    MAX_LOCKOUTS = 1
    NewLimit = 1
    OldLimit = 2
    MaxMail = 1
    MaxEvents = 0
INVARIANTS Reminded
CHECK_DEADLOCK FALSE
