----------------------------- MODULE MCPop3Poll -----------------------------
(***************************************************************************)
(* Option sets for model checking Pop3Poll.                                *)
(***************************************************************************)
EXTENDS Pop3Poll

Base == [keep |-> FALSE, flush |-> FALSE, fetchall |-> FALSE, uidl |-> TRUE,
         limit |-> FALSE, limitflush |-> FALSE, softbounce |-> FALSE,
         fastuidl |-> 0, fetchlimit |-> 0, expunge |-> 0]

\* The user switches between keeping, flushing and discarding mail.
DefaultOptions ==
    {Base,
     [Base EXCEPT !.keep = TRUE],
     [Base EXCEPT !.keep = TRUE, !.flush = TRUE, !.limit = TRUE,
                  !.limitflush = TRUE],
     [Base EXCEPT !.softbounce = TRUE, !.limit = TRUE]}

BigMsgs == {1}
NoneBig == {}

\* The binary search, keeping and deleting.
FastOptions ==
    {[Base EXCEPT !.fastuidl = 2],
     [Base EXCEPT !.keep = TRUE, !.fastuidl = 2],
     [Base EXCEPT !.keep = TRUE, !.flush = TRUE, !.fastuidl = 1]}

\* Several sessions per poll, and a fetch limit.
BatchOptions ==
    {[Base EXCEPT !.expunge = 1],
     [Base EXCEPT !.expunge = 1, !.fetchlimit = 2, !.fastuidl = 2],
     [Base EXCEPT !.keep = TRUE, !.flush = TRUE, !.expunge = 1],
     [Base EXCEPT !.keep = TRUE, !.fetchlimit = 1]}

AllOptions == DefaultOptions \cup FastOptions \cup BatchOptions

\* A server that still knows LAST, and users who fetch everything.
LegacyOptions ==
    {[Base EXCEPT !.uidl = FALSE, !.keep = TRUE],
     [Base EXCEPT !.uidl = FALSE, !.fetchall = TRUE]}

LiveOptions == LegacyOptions \cup {[Base EXCEPT !.fastuidl = 2],
                                   [Base EXCEPT !.keep = TRUE, !.fastuidl = 2]}

\* The users of whom the manual and a comment say what the code does not do.
DisagreeOptions == {[Base EXCEPT !.softbounce = TRUE],
                    [Base EXCEPT !.fetchall = TRUE, !.uidl = FALSE]}
KeepNoUidlOptions == {[Base EXCEPT !.keep = TRUE, !.uidl = FALSE]}
=============================================================================
