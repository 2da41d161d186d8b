----------------------------- MODULE MCPidLock -----------------------------
(***************************************************************************)
(* Command lines for model checking PidLock.                               *)
(***************************************************************************)
EXTENDS PidLock

Daemon == [daemon |-> TRUE, quit |-> "no", implicit |-> TRUE, safe |-> TRUE,
           check |-> FALSE]
Once == [Daemon EXCEPT !.daemon = FALSE]
Restart == [Daemon EXCEPT !.quit = "restart"]
Quit == [Daemon EXCEPT !.quit = "only", !.daemon = FALSE]
OneHost == [Daemon EXCEPT !.implicit = FALSE]
CheckOnly == [Once EXCEPT !.check = TRUE]
WithOptions == [Daemon EXCEPT !.safe = FALSE]

AllCommands == {Daemon, Once, Restart, Quit, OneHost, CheckOnly, WithOptions}
DaemonCommands == {Daemon}
RestartCommands == {Daemon, Restart}
OneHostCommands == {OneHost}
=============================================================================
