------------------------------- MODULE PidLock -------------------------------
(***************************************************************************)
(* Several fetchmail processes of one user: the lock file (lock.c), the    *)
(* start of main that looks at it, --quit, wakeups, the re-exec on a       *)
(* changed rc file, and the id file that the lock protects.  Each system   *)
(* call on the lock file is a step of its own.  A process is its pid; pids *)
(* are not recycled.                                                       *)
(***************************************************************************)
EXTENDS Naturals, FiniteSets

CONSTANTS Procs,        \* the processes that may ever be started
          Ghost,        \* the pid of a process that died before
          NoFile,       \* the lock file does not exist
          Commands,     \* the command lines the user may give
          Msgs,         \* messages whose ids may be remembered
          DirWritable   \* the lock file's directory can be written to

CommandType == [daemon : BOOLEAN, quit : {"no", "only", "restart"},
                implicit : BOOLEAN, safe : BOOLEAN, check : BOOLEAN]

LockFiles == [owner : Procs \cup {Ghost}, text : {"empty", "pid", "full"}]

ASSUME ProcsAssumption ==
    Ghost \notin Procs /\ NoFile \notin Procs \cup {Ghost} \cup LockFiles
ASSUME CommandsAssumption == Commands \subseteq CommandType /\ Commands # {}
ASSUME DirAssumption == DirWritable \in BOOLEAN

VARIABLES
    file,       \* the lock file: who created it, and how much is written
    pc,         \* where each process is
    cmd,        \* its command line
    seen,       \* what it read from the lock file
    held,       \* lock_acquired
    term,       \* SIGTERM is pending
    exit,       \* how it ended
    known,      \* the UIDs in its memory
    idfile,     \* the UIDs on disk
    \* history
    robbed,     \* processes whose lock was taken away while they lived
    met         \* processes that were not alone all the time

vars == <<file, pc, cmd, seen, held, term, exit, known, idfile, robbed, met>>

NoPid == [pid |-> NoFile, bkgd |-> FALSE]

PCs == {"unborn", "read", "probe", "unlink", "decide", "wait", "lock", "write",
        "interval", "top", "poll", "exit", "dead"}
Exits == {"none", "ok", "term", "exclude", "locked", "failed", "undefined",
          "killed"}
Files == {NoFile} \cup LockFiles

TypeOK ==
    /\ file \in Files
    /\ pc \in [Procs -> PCs] /\ cmd \in [Procs -> Commands]
    /\ seen \in [Procs -> [pid : Procs \cup {Ghost, NoFile}, bkgd : BOOLEAN]]
    /\ held \in [Procs -> BOOLEAN] /\ term \in [Procs -> BOOLEAN]
    /\ exit \in [Procs -> Exits]
    /\ known \in [Procs -> SUBSET Msgs] /\ idfile \subseteq Msgs
    /\ robbed \subseteq Procs /\ met \subseteq Procs

\* kill(pid, 0) = 0
Alive(p) == p \in Procs /\ pc[p] \notin {"unborn", "dead"}

\* Past the exclusion lock: fetchmail.c polls.
Running(p) == pc[p] \in {"top", "poll"}

Init ==
    /\ file \in {NoFile, [owner |-> Ghost, text |-> "full"]}
    /\ pc = [p \in Procs |-> "unborn"] /\ cmd \in [Procs -> Commands]
    /\ seen = [p \in Procs |-> NoPid]
    /\ held = [p \in Procs |-> FALSE] /\ term = [p \in Procs |-> FALSE]
    /\ exit = [p \in Procs |-> "none"]
    /\ known = [p \in Procs |-> {}] /\ idfile = {}
    /\ robbed = {} /\ met = {}

Goto(p, where) == pc' = [pc EXCEPT ![p] = where]

Ends(p, code) ==
    /\ Goto(p, "dead")
    /\ exit' = [exit EXCEPT ![p] = code]

\* p removes or truncates the lock file: another living owner loses its lock.
TakeAway(p) ==
    robbed' = IF file # NoFile /\ file.owner # p /\ Alive(file.owner)
              THEN robbed \cup {file.owner} ELSE robbed

-----------------------------------------------------------------------------
(* Starting, and fm_lock_state.                                            *)

\* main, up to initialize_saved_lists: the id file is read first of all.
Start(p) ==
    /\ pc[p] = "unborn"
    /\ Goto(p, "read")
    /\ known' = [known EXCEPT ![p] = idfile]
    /\ LET others == {q \in Procs : Alive(q)}
       IN met' = met \cup others \cup (IF others = {} THEN {} ELSE {p})
    /\ UNCHANGED <<file, cmd, seen, held, term, exit, idfile, robbed>>

\* A build that hands on the record of the file as it is.
Contents_Raw == file

\* What fscanf("%ld %d") makes of the file; an empty one has no pid.
Contents ==
    IF file = NoFile \/ file.text = "empty" THEN NoPid
    ELSE [pid |-> file.owner, bkgd |-> file.text = "full"]

\* A build that does not take an empty file for stale.
ReadLock_NoEof(p) ==
    /\ pc[p] = "read"
    /\ seen' = [seen EXCEPT ![p] = Contents]
    /\ Goto(p, IF Contents = NoPid THEN "decide" ELSE "probe")
    /\ UNCHANGED <<file, cmd, held, term, exit, known, idfile, robbed, met>>

\* fopen and fscanf
ReadLock(p) ==
    /\ pc[p] = "read"
    /\ seen' = [seen EXCEPT ![p] = Contents]
    /\ Goto(p, IF file = NoFile THEN "decide"
               ELSE IF Contents = NoPid THEN "unlink" ELSE "probe")
    /\ UNCHANGED <<file, cmd, held, term, exit, known, idfile, robbed, met>>

\* kill(pid, 0)
ProbeLock(p) ==
    /\ pc[p] = "probe"
    /\ Goto(p, IF Alive(seen[p].pid) THEN "decide" ELSE "unlink")
    /\ UNCHANGED <<file, cmd, seen, held, term, exit, known, idfile, robbed, met>>

\* The stale file is removed by name, whatever it is by now; where it cannot
\* be removed it is truncated.
UnlinkStale(p) ==
    /\ pc[p] = "unlink"
    /\ seen' = [seen EXCEPT ![p] = NoPid]
    /\ file' = IF DirWritable \/ file = NoFile THEN NoFile
               ELSE [file EXCEPT !.text = "empty"]
    /\ TakeAway(p)
    /\ Goto(p, "decide")
    /\ UNCHANGED <<cmd, held, term, exit, known, idfile, met>>

-----------------------------------------------------------------------------
(* main: what to do about another fetchmail.                               *)

Other(p) == seen[p].pid \notin {NoFile, p}

\* --quit: nobody to kill, or it is gone by now.
QuitNobody(p) ==
    /\ pc[p] = "decide"
    /\ \/ cmd[p].quit = "only" /\ ~Other(p)
       \/ cmd[p].quit # "no" /\ Other(p) /\ ~Alive(seen[p].pid)
    /\ Ends(p, "exclude")
    /\ UNCHANGED <<file, cmd, seen, held, term, known, idfile, robbed, met>>

\* --quit: SIGTERM, and wait unless that was all.
QuitOther(p) ==
    /\ pc[p] = "decide" /\ cmd[p].quit # "no"
    /\ Other(p) /\ Alive(seen[p].pid)
    /\ term' = [term EXCEPT ![seen[p].pid] = TRUE]
    /\ IF cmd[p].quit = "only" THEN Ends(p, "ok")
       ELSE Goto(p, "wait") /\ UNCHANGED exit
    /\ UNCHANGED <<file, cmd, seen, held, known, idfile, robbed, met>>

\* The other process is gone, or ten seconds are over.
QuitWaited(p) ==
    /\ pc[p] = "wait"
    /\ Goto(p, "lock")
    /\ UNCHANGED <<file, cmd, seen, held, term, exit, known, idfile, robbed, met>>

\* The conditions under which main gives up when the lock file names a process.
MustGiveUp(p) ==
    \/ cmd[p].check
    \/ ~cmd[p].implicit
    \/ ~seen[p].bkgd
    \/ seen[p].pid # p /\ ~cmd[p].safe

\* Another fetchmail runs and is not to be killed.
GiveUp(p) ==
    /\ pc[p] = "decide"
    /\ \/ cmd[p].quit = "no" /\ seen[p].pid # NoFile
       \/ cmd[p].quit = "restart" /\ seen[p].pid = p
    /\ MustGiveUp(p)
    /\ Ends(p, "exclude")
    /\ UNCHANGED <<file, cmd, seen, held, term, known, idfile, robbed, met>>

\* SIGUSR1 to the daemon; "elder sibling died mysteriously" if it is gone.
Wakeup(p) ==
    /\ pc[p] = "decide" /\ cmd[p].quit = "no" /\ Other(p)
    /\ ~MustGiveUp(p)
    /\ Ends(p, IF Alive(seen[p].pid) THEN "ok" ELSE "undefined")
    /\ UNCHANGED <<file, cmd, seen, held, term, known, idfile, robbed, met>>

\* After a re-exec the lock is our own: fm_lock_assert.
AssertLock(p) ==
    /\ pc[p] = "decide" /\ cmd[p].quit # "only" /\ seen[p].pid = p
    /\ ~MustGiveUp(p)
    /\ held' = [held EXCEPT ![p] = TRUE]
    /\ Goto(p, "lock")
    /\ UNCHANGED <<file, cmd, seen, term, exit, known, idfile, robbed, met>>

\* Nobody is there: detach, install the signal handlers.
NobodyThere(p) ==
    /\ pc[p] = "decide" /\ cmd[p].quit # "only" /\ seen[p].pid = NoFile
    /\ Goto(p, "lock")
    /\ UNCHANGED <<file, cmd, seen, held, term, exit, known, idfile, robbed, met>>

-----------------------------------------------------------------------------
(* fm_lock_or_die                                                          *)

\* A build without O_EXCL.
CanCreate_NoExcl == DirWritable

\* open with O_CREAT | O_EXCL succeeds.
CanCreate == DirWritable /\ file = NoFile

HaveLock(p) ==
    /\ pc[p] = "lock" /\ held[p]
    /\ Goto(p, "top")
    /\ UNCHANGED <<file, cmd, seen, held, term, exit, known, idfile, robbed, met>>

CreateLock(p) ==
    /\ pc[p] = "lock" /\ ~held[p]
    /\ CanCreate
    /\ file' = [owner |-> p, text |-> "empty"]
    /\ Goto(p, "write")
    /\ UNCHANGED <<cmd, seen, held, term, exit, known, idfile, robbed, met>>

LockTaken(p) ==
    /\ pc[p] = "lock" /\ ~held[p]
    /\ ~CanCreate
    /\ Ends(p, "locked")
    /\ UNCHANGED <<file, cmd, seen, held, term, known, idfile, robbed, met>>

\* p writes to the file it created, which may have lost its name.
Written(p, t) ==
    file' = IF file # NoFile /\ file.owner = p THEN [file EXCEPT !.text = t] ELSE file

\* A build that sets lock_acquired for daemons only.
WritePid_NotHeld(p) ==
    /\ pc[p] = "write"
    /\ Written(p, "pid")
    /\ Goto(p, IF cmd[p].daemon THEN "interval" ELSE "top")
    /\ UNCHANGED <<cmd, seen, held, term, exit, known, idfile, robbed, met>>

WritePid(p) ==
    /\ pc[p] = "write"
    /\ Written(p, "pid")
    /\ Goto(p, IF cmd[p].daemon THEN "interval" ELSE "top")
    /\ held' = [held EXCEPT ![p] = ~cmd[p].daemon]
    /\ UNCHANGED <<cmd, seen, term, exit, known, idfile, robbed, met>>

WriteInterval(p) ==
    /\ pc[p] = "interval"
    /\ Written(p, "full")
    /\ Goto(p, "top")
    /\ held' = [held EXCEPT ![p] = TRUE]
    /\ UNCHANGED <<cmd, seen, term, exit, known, idfile, robbed, met>>

\* A write fails: the file stays behind.
WriteFails(p) ==
    /\ pc[p] \in {"write", "interval"}
    /\ Ends(p, "failed")
    /\ UNCHANGED <<file, cmd, seen, held, term, known, idfile, robbed, met>>

-----------------------------------------------------------------------------
(* Polling, re-exec and the end.                                           *)

StartPoll(p) ==
    /\ pc[p] = "top"
    /\ Goto(p, "poll")
    /\ UNCHANGED <<file, cmd, seen, held, term, exit, known, idfile, robbed, met>>

\* The rc file has changed: main begins again, in the same process.
Reexec(p) ==
    /\ pc[p] = "top"
    /\ held' = [held EXCEPT ![p] = FALSE]
    /\ seen' = [seen EXCEPT ![p] = NoPid]
    /\ known' = [known EXCEPT ![p] = idfile]
    /\ Goto(p, "read")
    /\ UNCHANGED <<file, cmd, term, exit, idfile, robbed, met>>

\* A message is fetched and kept on the server.
Fetch(p) ==
    /\ pc[p] = "poll" /\ ~cmd[p].check
    /\ \E m \in Msgs \ known[p] : known' = [known EXCEPT ![p] = @ \cup {m}]
    /\ UNCHANGED <<file, pc, cmd, seen, held, term, exit, idfile, robbed, met>>

\* terminate_poll
SaveIds(p) == idfile' = IF cmd[p].check THEN idfile ELSE known[p]

\* The end of a poll.  A foreground process goes on to terminate_run, and a
\* daemon exits when all its connections are wedged.
EndPoll(p) ==
    /\ pc[p] = "poll"
    /\ SaveIds(p)
    /\ \/ cmd[p].daemon /\ Goto(p, "top") /\ UNCHANGED exit
       \/ Goto(p, "exit") /\ exit' = [exit EXCEPT ![p] = "ok"]
    /\ UNCHANGED <<file, cmd, seen, held, term, known, robbed, met>>

\* Where SIGTERM has its default effect; exec restores that.
NoHandler == {"read", "probe", "unlink", "decide", "wait"}

\* A build that ignores the signal while it polls.
Handled_NotInPoll == {"lock", "write", "interval", "top"}

\* Where terminate_run is the signal handler.
Handled == {"lock", "write", "interval", "top", "poll"}

\* terminate_run runs as signal handler; whoever does not hold the lock yet
\* also writes the id file.
Terminated(p) ==
    /\ term[p] /\ pc[p] \in Handled
    /\ SaveIds(p)
    /\ Goto(p, "exit")
    /\ exit' = [exit EXCEPT ![p] = IF held[p] THEN "ok" ELSE "term"]
    /\ UNCHANGED <<file, cmd, seen, held, term, known, robbed, met>>

Killed(p) ==
    /\ term[p] /\ pc[p] \in NoHandler
    /\ Ends(p, "killed")
    /\ UNCHANGED <<file, cmd, seen, held, term, known, idfile, robbed, met>>

\* exit: unlockit removes the lock file, by name.
Unlockit(p) ==
    /\ pc[p] = "exit"
    /\ Goto(p, "dead")
    /\ IF held[p]
       THEN file' = (IF DirWritable THEN NoFile ELSE file) /\ TakeAway(p)
       ELSE UNCHANGED <<file, robbed>>
    /\ UNCHANGED <<cmd, seen, held, term, exit, known, idfile, met>>

Crash(p) ==
    /\ Alive(p)
    /\ Ends(p, "killed")
    /\ UNCHANGED <<file, cmd, seen, held, term, known, idfile, robbed, met>>

-----------------------------------------------------------------------------

Step(p) ==
    \/ ReadLock(p) \/ ProbeLock(p) \/ UnlinkStale(p) \/ QuitNobody(p)
    \/ QuitOther(p) \/ QuitWaited(p) \/ GiveUp(p) \/ Wakeup(p)
    \/ AssertLock(p) \/ NobodyThere(p) \/ HaveLock(p) \/ CreateLock(p)
    \/ LockTaken(p) \/ WritePid(p) \/ WriteInterval(p) \/ StartPoll(p)
    \/ EndPoll(p) \/ Unlockit(p)

Signal(p) == Terminated(p) \/ Killed(p)

Next ==
    \E p \in Procs :
        \/ Start(p) \/ Step(p) \/ Signal(p)
        \/ Reexec(p) \/ Fetch(p) \/ WriteFails(p) \/ Crash(p)

Spec == Init /\ [][Next]_vars

\* Processes that have started go on, and a pending signal is delivered.
FairSpec ==
    /\ Spec
    /\ \A p \in Procs : WF_vars(Step(p)) /\ WF_vars(Signal(p))

-----------------------------------------------------------------------------
(* Properties.                                                             *)

\* Only one process polls at a time (fm_lock_or_die).
\* The code does not satisfy this: PidMutex.cfg and README.md, "Known disagreements".
Mutex == \A p, q \in Procs : Running(p) /\ Running(q) => p = q

\* Two processes poll at the same time only if the lock file of one of them
\* was removed under it: O_EXCL never lets two in by itself, over stale files,
\* --quit, crashes between the writes, and re-execs.
MutexUnlessRobbed ==
    \A p, q \in Procs :
        Running(p) /\ Running(q) => p = q \/ p \in robbed \/ q \in robbed

\* Whatever a crash left of the lock file, a process that is alone all the
\* time is not kept from polling by it.
AloneStarts == \A p \in Procs : exit[p] = "locked" => p \in met

\* A process that ended regularly while it had the lock leaves no lock file
\* of its own behind, even if it has re-execed.
CleanExit ==
    \A p \in Procs : pc[p] = "dead" /\ exit[p] = "ok"
                     => file = NoFile \/ file.owner # p

\* What a process leaves behind, however it ended, is harmless to those who
\* come after it, and nothing if its end was regular.
LeftoversHarmless == AloneStarts /\ CleanExit

\* A restart for a changed rc file is not stopped by the lock the process
\* itself holds.
\* The code does not satisfy this: PidRestart.cfg and README.md, "Known disagreements".
RestartSurvives == \A p \in Procs : exit[p] = "exclude" => seen[p].pid # p

\* A process that has ended another one with --quit, and got the lock, polls
\* with all the UIDs that the other one saved.
\* The code does not satisfy this: PidIds.cfg and README.md, "Known disagreements".
FreshIds ==
    robbed = {} =>
        \A p, q \in Procs : /\ Running(p) /\ seen[p].pid = q
                            /\ p # q /\ pc[q] = "dead" /\ exit[q] = "ok"
                            => idfile \subseteq known[p]

\* fetchmail --quit ends the process it found.
QuitStops ==
    \A p, q \in Procs :
        (cmd[p].quit = "only" /\ exit[p] = "ok" /\ seen[p].pid = q) ~> pc[q] = "dead"
=============================================================================
