SPECIFICATION Spec
CONSTANTS
    Procs = {p1}
    Ghost = ghost
    NoFile = nofile
    Msgs = {m1}
    DirWritable = TRUE
    Commands <- OneHostCommands
INVARIANTS RestartSurvives
CHECK_DEADLOCK FALSE
