SPECIFICATION Spec
CONSTANTS
    Procs = {p1, p2}
    Ghost = ghost
    NoFile = nofile
    Msgs = {m1}
    DirWritable = TRUE
    Commands <- DaemonCommands
INVARIANTS Mutex
CHECK_DEADLOCK FALSE
