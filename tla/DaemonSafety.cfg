SPECIFICATION FairSpec
CONSTANTS
    Order <- Names
    Interval <- Intervals
    Monitored = {"b"}
    Watched = {}
    Confs <- DaemonConfs
    Repolls <- RepollsPassing
    SizesOf <- SizesPassing
    WarnPeriod = 1
    MAX_TIMEOUTS = 2
    MAX_LOCKOUTS = 1
    NewLimit = 1
    OldLimit = 2
    MaxMail = 4
    MaxEvents = 1
INVARIANTS FailuresReported WithinLimit
PROPERTIES Polled
CHECK_DEADLOCK FALSE
