SPECIFICATION FairSpec
CONSTANTS
    Procs = {p1, p2}
    Ghost = ghost
    NoFile = nofile
    Msgs = {m1}
    DirWritable = TRUE
    Commands <- AllCommands
INVARIANTS MutexUnlessRobbed LeftoversHarmless
PROPERTIES QuitStops
CHECK_DEADLOCK FALSE
