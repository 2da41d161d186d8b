----------------------------- MODULE MCImapPoll -----------------------------
(***************************************************************************)
(* Option sets for model checking ImapPoll.                                *)
(***************************************************************************)
EXTENDS ImapPoll

Base == [keep |-> FALSE, flush |-> FALSE, fetchall |-> FALSE, limit |-> FALSE,
         limitflush |-> FALSE, softbounce |-> FALSE, idle |-> FALSE,
         peek |-> TRUE, fetchlimit |-> 0, expunge |-> 1]

ImapOptions ==
    {Base,
     [Base EXCEPT !.expunge = 2, !.idle = TRUE, !.softbounce = TRUE],
     [Base EXCEPT !.keep = TRUE, !.idle = TRUE],
     [Base EXCEPT !.keep = TRUE, !.flush = TRUE, !.limit = TRUE,
                  !.limitflush = TRUE, !.expunge = 2],
     [Base EXCEPT !.expunge = 0, !.fetchlimit = 1, !.limit = TRUE],
     [Base EXCEPT !.peek = FALSE, !.keep = TRUE]}

NoPeekOptions == {[Base EXCEPT !.peek = FALSE, !.keep = TRUE]}

BigMsgs == {2}
=============================================================================
