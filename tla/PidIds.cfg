SPECIFICATION Spec
CONSTANTS
    Procs = {p1, p2}
    Ghost = ghost
    NoFile = nofile
    Msgs = {m1}
    DirWritable = TRUE
    Commands <- RestartCommands
INVARIANTS FreshIds
CHECK_DEADLOCK FALSE
