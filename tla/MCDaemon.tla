------------------------------ MODULE MCDaemon ------------------------------
(***************************************************************************)
(* Two accounts, the first of them queried in every other poll.            *)
(***************************************************************************)
EXTENDS Daemon

OneSession  == [expunge |-> 0, fetchlimit |-> 1, multi |-> FALSE, daemon |-> FALSE]
ManySession == [expunge |-> 2, fetchlimit |-> 3, multi |-> TRUE, daemon |-> TRUE]
NoLimit     == [expunge |-> 1, fetchlimit |-> 0, multi |-> TRUE, daemon |-> FALSE]

DaemonConfs == {OneSession, ManySession, NoLimit}
DisagreeConfs == {ManySession}
OneConf == {[OneSession EXCEPT !.daemon = TRUE]}
Names == <<"a", "b">>
Intervals == [a |-> 2, b |-> 0]
SizesPassing == [a |-> {1}, b |-> {}]
RepollsPassing == [a |-> MaxRepolls, b |-> 0]
RepollsOne == [a |-> 1]
NoRepolls == [a |-> 0]
OneName == <<"a">>
NoInterval == [a |-> 0]
NoSizes == [a |-> {}]
TwoSizes == [a |-> {1, 2}]
=============================================================================
