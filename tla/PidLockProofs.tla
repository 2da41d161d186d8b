--------------------------- MODULE PidLockProofs ---------------------------
(***************************************************************************)
(* Proofs about the lock file, for every number of processes: the types,   *)
(* and that O_EXCL lets in two processes only after a removal.             *)
(***************************************************************************)
EXTENDS PidLock, TLAPS

\* The processes that believe the lock file to be theirs: they are about to
\* write it, have written it, or have just read their own pid from it.
Claims(p) ==
    \/ pc[p] \in {"write", "interval", "top", "poll"}
    \/ pc[p] = "lock" /\ held[p]
    \/ pc[p] \in {"probe", "decide"} /\ seen[p].pid = p

\* They are right, unless they were robbed.
ClaimsHold ==
    \A p \in Procs : Claims(p) /\ p \notin robbed
                     => file # NoFile /\ file.owner = p

\* lock_acquired is not set before the lock has been looked at.
HeldLate ==
    \A p \in Procs :
        pc[p] \in {"unborn", "read", "probe", "unlink", "decide", "wait"}
            => ~held[p]

LockInv == TypeOK /\ ClaimsHold /\ HeldLate

\* A lock file is there or not, and a process is not a missing file.
LEMMA FileFacts ==
    /\ \A p \in Procs : p # NoFile /\ p # Ghost
    /\ NoFile \notin LockFiles
    /\ NoPid.pid = NoFile
    /\ NoPid \in [pid : Procs \cup {Ghost, NoFile}, bkgd : BOOLEAN]
  BY ProcsAssumption DEF NoPid

\* What fm_lock_state reads is a pid or nothing.
LEMMA ContentsFacts ==
    ASSUME file \in Files
    PROVE  /\ Contents \in [pid : Procs \cup {Ghost, NoFile}, bkgd : BOOLEAN]
           /\ Contents.pid \in Procs => file # NoFile /\ file.owner = Contents.pid
  BY FileFacts DEF Contents, Files, LockFiles

\* Writing to the lock file neither creates nor removes it, nor changes its
\* owner.
LEMMA WrittenFacts ==
    ASSUME file \in Files, NEW p \in Procs,
           NEW t \in {"empty", "pid", "full"}, Written(p, t)
    PROVE  /\ file' \in Files
           /\ file # NoFile => file' # NoFile /\ file'.owner = file.owner
  BY FileFacts DEF Written, Files, LockFiles

\* A machine on which no fetchmail runs satisfies the invariant.
LEMMA InitLock == Init => LockInv
  <1> SUFFICES ASSUME Init PROVE LockInv
    OBVIOUS
  <1>1. TypeOK
    BY FileFacts DEF Init, TypeOK, Files, LockFiles, PCs, Exits
  <1>2. ClaimsHold /\ HeldLate
    BY FileFacts DEF Init, ClaimsHold, HeldLate, Claims
  <1> QED
    BY <1>1, <1>2 DEF LockInv

\* Every action of a process keeps the types.
LEMMA StepTyped ==
    ASSUME TypeOK, NEW p \in Procs,
           \/ Start(p) \/ Step(p) \/ Signal(p)
           \/ Reexec(p) \/ Fetch(p) \/ WriteFails(p) \/ Crash(p)
    PROVE  TypeOK'
  <1> USE FileFacts, CommandsAssumption
      DEF TypeOK, PCs, Exits, Goto, Ends
  <1>1. CASE Start(p)
    BY <1>1 DEF Start
  <1>2. CASE ReadLock(p)
    BY <1>2, ContentsFacts DEF ReadLock
  <1>3. CASE ProbeLock(p)
    BY <1>3 DEF ProbeLock
  <1>4. CASE UnlinkStale(p)
    BY <1>4 DEF UnlinkStale, TakeAway, Alive, Files, LockFiles
  <1>5. CASE QuitNobody(p)
    BY <1>5 DEF QuitNobody
  <1>6. CASE QuitOther(p)
    BY <1>6 DEF QuitOther
  <1>7. CASE QuitWaited(p)
    BY <1>7 DEF QuitWaited
  <1>8. CASE GiveUp(p)
    BY <1>8 DEF GiveUp
  <1>9. CASE Wakeup(p)
    BY <1>9 DEF Wakeup
  <1>10. CASE AssertLock(p)
    BY <1>10 DEF AssertLock
  <1>11. CASE NobodyThere(p)
    BY <1>11 DEF NobodyThere
  <1>12. CASE HaveLock(p)
    BY <1>12 DEF HaveLock
  <1>13. CASE CreateLock(p)
    BY <1>13 DEF CreateLock, Files, LockFiles
  <1>14. CASE LockTaken(p)
    BY <1>14 DEF LockTaken
  <1>15. CASE WritePid(p)
    BY <1>15, WrittenFacts DEF WritePid, CommandType
  <1>16. CASE WriteInterval(p)
    BY <1>16, WrittenFacts DEF WriteInterval
  <1>17. CASE StartPoll(p)
    BY <1>17 DEF StartPoll
  <1>18. CASE EndPoll(p)
    BY <1>18 DEF EndPoll, SaveIds
  <1>19. CASE Unlockit(p)
    BY <1>19 DEF Unlockit, TakeAway, Alive, Files, LockFiles
  <1>20. CASE Terminated(p)
    BY <1>20 DEF Terminated, SaveIds
  <1>21. CASE Killed(p)
    BY <1>21 DEF Killed
  <1>22. CASE Reexec(p)
    BY <1>22 DEF Reexec
  <1>23. CASE Fetch(p)
    BY <1>23 DEF Fetch
  <1>24. CASE WriteFails(p)
    BY <1>24 DEF WriteFails
  <1>25. CASE Crash(p)
    BY <1>25 DEF Crash
  <1> QED
    BY <1>1, <1>2, <1>3, <1>4, <1>5, <1>6, <1>7, <1>8, <1>9, <1>10, <1>11,
       <1>12, <1>13, <1>14, <1>15, <1>16, <1>17, <1>18, <1>19, <1>20, <1>21,
       <1>22, <1>23, <1>24, <1>25 DEF Step, Signal

\* Removing the lock file robs every other process that rightly claims it.
LEMMA RemovalRobs ==
    ASSUME LockInv, NEW p \in Procs, TakeAway(p),
           NEW q \in Procs, q # p, Claims(q)
    PROVE  q \in robbed'
  <1>1. Alive(q)
    BY DEF Claims, Alive
  <1>2. q \notin robbed => file # NoFile /\ file.owner = q
    BY DEF LockInv, ClaimsHold
  <1> QED
    BY <1>1, <1>2 DEF TakeAway

\* Every action of a process keeps what the processes claim, and
\* lock_acquired, right.
LEMMA StepClaims ==
    ASSUME LockInv, NEW p \in Procs,
           \/ Start(p) \/ Step(p) \/ Signal(p)
           \/ Reexec(p) \/ Fetch(p) \/ WriteFails(p) \/ Crash(p)
    PROVE  ClaimsHold' /\ HeldLate'
  <1> USE FileFacts DEF LockInv, TypeOK, ClaimsHold, HeldLate, Claims, Goto, Ends
  <1>1. CASE Start(p)
    BY <1>1 DEF Start
  <1>2. CASE ReadLock(p)
    BY <1>2, ContentsFacts DEF ReadLock
  <1>3. CASE ProbeLock(p)
    BY <1>3 DEF ProbeLock
  <1>4. CASE UnlinkStale(p)
    BY <1>4, RemovalRobs DEF UnlinkStale
  <1>5. CASE QuitNobody(p)
    BY <1>5 DEF QuitNobody
  <1>6. CASE QuitOther(p)
    BY <1>6 DEF QuitOther
  <1>7. CASE QuitWaited(p)
    BY <1>7 DEF QuitWaited
  <1>8. CASE GiveUp(p)
    BY <1>8 DEF GiveUp
  <1>9. CASE Wakeup(p)
    BY <1>9 DEF Wakeup
  <1>10. CASE AssertLock(p)
    BY <1>10 DEF AssertLock
  <1>11. CASE NobodyThere(p)
    BY <1>11 DEF NobodyThere
  <1>12. CASE HaveLock(p)
    BY <1>12 DEF HaveLock
  <1>13. CASE CreateLock(p)
    <2>1. file' # NoFile /\ file'.owner = p
      BY <1>13 DEF CreateLock, LockFiles
    <2>2. \A q \in Procs : Claims(q) => q \in robbed
      BY <1>13 DEF CreateLock, CanCreate
    <2> QED
      BY <1>13, <2>1, <2>2 DEF CreateLock
  <1>14. CASE LockTaken(p)
    BY <1>14 DEF LockTaken
  <1>15. CASE WritePid(p)
    BY <1>15, WrittenFacts DEF WritePid
  <1>16. CASE WriteInterval(p)
    BY <1>16, WrittenFacts DEF WriteInterval
  <1>17. CASE StartPoll(p)
    BY <1>17 DEF StartPoll
  <1>18. CASE EndPoll(p)
    BY <1>18 DEF EndPoll
  <1>19. CASE Unlockit(p)
    BY <1>19, RemovalRobs DEF Unlockit
  <1>20. CASE Terminated(p)
    BY <1>20 DEF Terminated
  <1>21. CASE Killed(p)
    BY <1>21 DEF Killed
  <1>22. CASE Reexec(p)
    BY <1>22 DEF Reexec
  <1>23. CASE Fetch(p)
    BY <1>23 DEF Fetch
  <1>24. CASE WriteFails(p)
    BY <1>24 DEF WriteFails
  <1>25. CASE Crash(p)
    BY <1>25 DEF Crash
  <1> QED
    BY <1>1, <1>2, <1>3, <1>4, <1>5, <1>6, <1>7, <1>8, <1>9, <1>10, <1>11,
       <1>12, <1>13, <1>14, <1>15, <1>16, <1>17, <1>18, <1>19, <1>20, <1>21,
       <1>22, <1>23, <1>24, <1>25 DEF Step, Signal

\* LockInv is inductive.
LEMMA LockInvariance == Spec => []LockInv
  <1>1. LockInv /\ [Next]_vars => LockInv'
    <2> SUFFICES ASSUME LockInv, [Next]_vars PROVE LockInv'
      OBVIOUS
    <2>1. CASE Next
      <3>1. PICK p \in Procs :
               \/ Start(p) \/ Step(p) \/ Signal(p)
               \/ Reexec(p) \/ Fetch(p) \/ WriteFails(p) \/ Crash(p)
        BY <2>1 DEF Next
      <3> QED
        BY <3>1, StepTyped, StepClaims DEF LockInv
    <2>2. CASE UNCHANGED vars
      BY <2>2 DEF vars, LockInv, TypeOK, ClaimsHold, HeldLate, Claims
    <2> QED
      BY <2>1, <2>2
  <1> QED
    BY <1>1, InitLock, PTL DEF Spec

\* The lock file, the positions of the processes, and what they remember keep
\* their types through every history of starts, signals, crashes and re-execs.
THEOREM LockTypeCorrect == Spec => []TypeOK
  <1>1. LockInv => TypeOK
    BY DEF LockInv
  <1> QED
    BY <1>1, LockInvariance, PTL

\* However many processes start, crash, are killed, quit each other or
\* re-exec, two of them poll at the same time only if a lock file was removed
\* under a living process (fm_lock_state's unlink, unlockit): the O_EXCL of
\* fm_lock_or_die never admits two by itself.
THEOREM ExclusionUntilRobbed == Spec => []MutexUnlessRobbed
  <1>1. LockInv => MutexUnlessRobbed
    BY DEF LockInv, ClaimsHold, Claims, MutexUnlessRobbed, Running
  <1> QED
    BY <1>1, LockInvariance, PTL

-----------------------------------------------------------------------------
(* What processes leave behind, where the lock file can be removed.        *)

\* The owner of the lock file wrote its pid before it did anything else, reads
\* it back after a re-exec, and does not end regularly without removing it.
OwnerInv ==
    \A p \in Procs :
        file # NoFile /\ file.owner = p =>
            /\ pc[p] \notin {"unborn", "unlink", "wait"}
            /\ file.text = "empty" => pc[p] \in {"write", "exit", "dead"}
            /\ pc[p] \in {"probe", "decide"} => seen[p].pid = p
            /\ pc[p] = "lock" => held[p]
            /\ pc[p] = "dead" => exit[p] # "ok"

\* Who polls, or has ended a poll, holds the lock.
HeldInv ==
    \A p \in Procs : /\ pc[p] \in {"top", "poll"} => held[p]
                     /\ pc[p] = "exit" /\ exit[p] = "ok" => held[p]

\* A process that is alone finds either its own pid in the lock file or makes
\* sure that there is none.
AloneInv ==
    \A p \in Procs :
        Alive(p) /\ p \notin met =>
            /\ \A q \in Procs : Alive(q) => q = p
            /\ pc[p] # "wait"
            /\ pc[p] = "decide" => seen[p].pid \in {NoFile, p}
            /\ pc[p] = "decide" /\ seen[p].pid = NoFile => file = NoFile
            /\ pc[p] = "lock" /\ ~held[p] => file = NoFile

LeftInv == LockInv /\ OwnerInv /\ HeldInv /\ AloneInv /\ AloneStarts

\* Every action of a process keeps what owners of lock files have done right.
LEMMA OwnerStep ==
    ASSUME DirWritable, LeftInv, NEW p \in Procs,
           \/ Start(p) \/ Step(p) \/ Signal(p)
           \/ Reexec(p) \/ Fetch(p) \/ WriteFails(p) \/ Crash(p)
    PROVE  OwnerInv' /\ HeldInv'
  <1> USE FileFacts
      DEF LeftInv, LockInv, TypeOK, OwnerInv, HeldInv, HeldLate, Goto, Ends
  <1>1. CASE Start(p)
    BY <1>1 DEF Start
  <1>2. CASE ReadLock(p)
    BY <1>2 DEF ReadLock, Contents, NoPid
  <1>3. CASE ProbeLock(p)
    BY <1>3 DEF ProbeLock, Alive
  <1>4. CASE UnlinkStale(p)
    BY <1>4 DEF UnlinkStale
  <1>5. CASE QuitNobody(p)
    BY <1>5 DEF QuitNobody
  <1>6. CASE QuitOther(p)
    BY <1>6 DEF QuitOther, Other
  <1>7. CASE QuitWaited(p)
    BY <1>7 DEF QuitWaited
  <1>8. CASE GiveUp(p)
    BY <1>8 DEF GiveUp
  <1>9. CASE Wakeup(p)
    BY <1>9 DEF Wakeup, Other
  <1>10. CASE AssertLock(p)
    BY <1>10 DEF AssertLock
  <1>11. CASE NobodyThere(p)
    BY <1>11 DEF NobodyThere
  <1>12. CASE HaveLock(p)
    BY <1>12 DEF HaveLock
  <1>13. CASE CreateLock(p)
    BY <1>13 DEF CreateLock, LockFiles
  <1>14. CASE LockTaken(p)
    BY <1>14 DEF LockTaken
  <1>15. CASE WritePid(p)
    BY <1>15, WrittenFacts DEF WritePid, Written, Files, LockFiles
  <1>16. CASE WriteInterval(p)
    BY <1>16, WrittenFacts DEF WriteInterval, Written, Files, LockFiles
  <1>17. CASE StartPoll(p)
    BY <1>17 DEF StartPoll
  <1>18. CASE EndPoll(p)
    BY <1>18 DEF EndPoll
  <1>19. CASE Unlockit(p)
    BY <1>19 DEF Unlockit
  <1>20. CASE Terminated(p)
    BY <1>20 DEF Terminated, Handled
  <1>21. CASE Killed(p)
    BY <1>21 DEF Killed, NoHandler
  <1>22. CASE Reexec(p)
    BY <1>22 DEF Reexec
  <1>23. CASE Fetch(p)
    BY <1>23 DEF Fetch
  <1>24. CASE WriteFails(p)
    BY <1>24 DEF WriteFails
  <1>25. CASE Crash(p)
    BY <1>25 DEF Crash, Alive
  <1> QED
    BY <1>1, <1>2, <1>3, <1>4, <1>5, <1>6, <1>7, <1>8, <1>9, <1>10, <1>11,
       <1>12, <1>13, <1>14, <1>15, <1>16, <1>17, <1>18, <1>19, <1>20, <1>21,
       <1>22, <1>23, <1>24, <1>25 DEF Step, Signal

LEMMA AloneStep ==
    ASSUME DirWritable, LeftInv, NEW p \in Procs,
           \/ Start(p) \/ Step(p) \/ Signal(p)
           \/ Reexec(p) \/ Fetch(p) \/ WriteFails(p) \/ Crash(p)
    PROVE  AloneInv' /\ AloneStarts'
  <1> USE FileFacts
      DEF LeftInv, LockInv, TypeOK, AloneInv, AloneStarts, HeldLate, Alive, Goto, Ends
  <1>1. CASE Start(p)
    BY <1>1 DEF Start
  <1>2. CASE ReadLock(p)
    BY <1>2, ContentsFacts DEF ReadLock, Contents, NoPid
  <1>3. CASE ProbeLock(p)
    BY <1>3 DEF ProbeLock
  <1>4. CASE UnlinkStale(p)
    BY <1>4 DEF UnlinkStale
  <1>5. CASE QuitNobody(p)
    BY <1>5 DEF QuitNobody
  <1>6. CASE QuitOther(p)
    BY <1>6 DEF QuitOther, Other
  <1>7. CASE QuitWaited(p)
    BY <1>7 DEF QuitWaited
  <1>8. CASE GiveUp(p)
    BY <1>8 DEF GiveUp
  <1>9. CASE Wakeup(p)
    BY <1>9 DEF Wakeup
  <1>10. CASE AssertLock(p)
    BY <1>10 DEF AssertLock
  <1>11. CASE NobodyThere(p)
    BY <1>11 DEF NobodyThere
  <1>12. CASE HaveLock(p)
    BY <1>12 DEF HaveLock
  <1>13. CASE CreateLock(p)
    BY <1>13 DEF CreateLock, CanCreate
  <1>14. CASE LockTaken(p)
    BY <1>14 DEF LockTaken, CanCreate
  <1>15. CASE WritePid(p)
    BY <1>15 DEF WritePid, Written
  <1>16. CASE WriteInterval(p)
    BY <1>16 DEF WriteInterval, Written
  <1>17. CASE StartPoll(p)
    BY <1>17 DEF StartPoll
  <1>18. CASE EndPoll(p)
    BY <1>18 DEF EndPoll
  <1>19. CASE Unlockit(p)
    BY <1>19 DEF Unlockit
  <1>20. CASE Terminated(p)
    BY <1>20 DEF Terminated, Handled
  <1>21. CASE Killed(p)
    BY <1>21 DEF Killed, NoHandler
  <1>22. CASE Reexec(p)
    BY <1>22 DEF Reexec
  <1>23. CASE Fetch(p)
    BY <1>23 DEF Fetch
  <1>24. CASE WriteFails(p)
    BY <1>24 DEF WriteFails
  <1>25. CASE Crash(p)
    BY <1>25 DEF Crash
  <1> QED
    BY <1>1, <1>2, <1>3, <1>4, <1>5, <1>6, <1>7, <1>8, <1>9, <1>10, <1>11,
       <1>12, <1>13, <1>14, <1>15, <1>16, <1>17, <1>18, <1>19, <1>20, <1>21,
       <1>22, <1>23, <1>24, <1>25 DEF Step, Signal

LEMMA LeftInvariance ==
    ASSUME DirWritable
    PROVE  Spec => []LeftInv
  <1>1. LeftInv /\ [Next]_vars => LeftInv'
    <2> SUFFICES ASSUME LeftInv, [Next]_vars PROVE LeftInv'
      OBVIOUS
    <2>1. CASE Next
      <3>1. PICK p \in Procs :
               \/ Start(p) \/ Step(p) \/ Signal(p)
               \/ Reexec(p) \/ Fetch(p) \/ WriteFails(p) \/ Crash(p)
        BY <2>1 DEF Next
      <3>2. LockInv'
        BY <3>1, StepTyped, StepClaims DEF LeftInv, LockInv
      <3> QED
        BY <3>1, <3>2, OwnerStep, AloneStep DEF LeftInv
    <2>2. CASE UNCHANGED vars
      BY <2>2 DEF vars, LeftInv, LockInv, TypeOK, ClaimsHold, HeldLate, Claims,
         OwnerInv, HeldInv, AloneInv, AloneStarts, Alive
    <2> QED
      BY <2>1, <2>2
  <1>2. Init => LeftInv
    <2> SUFFICES ASSUME Init PROVE LeftInv
      OBVIOUS
    <2>1. OwnerInv /\ HeldInv /\ AloneInv /\ AloneStarts
      BY FileFacts DEF Init, OwnerInv, HeldInv, AloneInv, AloneStarts, Alive
    <2> QED
      BY <2>1, InitLock DEF LeftInv
  <1> QED
    BY <1>1, <1>2, PTL DEF Spec

\* Where the lock file can be removed, whatever a crash, a failed write or a
\* signal left of it does not keep a process that is alone from getting the
\* lock (fm_lock_state's clean-up and fm_lock_or_die), and a process that ended
\* regularly left none, also after a re-exec (fm_lock_assert, unlockit).
THEOREM LeftoversAreHarmless ==
    ASSUME DirWritable
    PROVE  Spec => []LeftoversHarmless
  <1>1. LeftInv => LeftoversHarmless
    BY DEF LeftInv, LockInv, TypeOK, OwnerInv, LeftoversHarmless, CleanExit
  <1> QED
    BY <1>1, LeftInvariance, PTL
=============================================================================
