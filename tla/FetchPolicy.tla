----------------------------- MODULE FetchPolicy -----------------------------
(***************************************************************************)
(* What driver.c:fetch_messages decides about one message once it knows    *)
(* how the attempt to fetch and forward it went.  The three C flags        *)
(* (suppress_delete, suppress_forward, retained) and msgcode are functions *)
(* of that result, so the model carries the result alone.                  *)
(*                                                                         *)
(*   "old"        is_old said so (msgcode MSGLEN_OLD)                      *)
(*   "toolarge"   above the size limit (msgcode MSGLEN_TOOLARGE)           *)
(*   "retained"   readheaders returned PS_RETAINED                         *)
(*   "transient"  readheaders or readbody returned PS_TRANSIENT            *)
(*   "refused"    readheaders returned PS_REFUSED                          *)
(*   "failed"     close_sink returned FALSE                                *)
(*   "shipped"    close_sink returned TRUE                                 *)
(***************************************************************************)

Results == {"old", "toolarge", "retained", "transient", "refused", "failed",
            "shipped"}

SuppressForward(r) == r \in {"retained", "transient", "refused"}

\* A build that forgets the close_sink failure branch.
SuppressDelete_NoSinkCheck(r, opt) ==
    \/ r \in {"retained", "transient"}
    \/ r = "toolarge" /\ ~opt.limitflush
    \/ SuppressForward(r) /\ opt.softbounce

\* Softbounce is folded in: it suppresses deletion of what was not forwarded.
SuppressDelete(r, opt) ==
    \/ r \in {"retained", "transient", "failed"}
    \/ r = "toolarge" /\ ~opt.limitflush
    \/ SuppressForward(r) /\ opt.softbounce

\* A build in which only --flush and --limitflush delete.
WantDelete_FlushOnly(r, opt) ==
    \/ r = "old" /\ opt.flush
    \/ r = "toolarge" /\ opt.limitflush

\* The condition on msgcode and the options under which a message goes.
WantDelete(r, opt) ==
    \/ r \notin {"old", "toolarge"} /\ ~opt.keep
    \/ r = "old" /\ opt.flush
    \/ r = "toolarge" /\ opt.limitflush

\* A build that marks every kept message, delivered or not.
Disposition_MarksAlways(r, opt) ==
    IF r = "retained" THEN "leave"
    ELSE IF ~SuppressDelete(r, opt) /\ WantDelete(r, opt) THEN "delete"
    ELSE IF r \notin {"old", "toolarge"} /\ opt.keep THEN "mark"
    ELSE "leave"

\* The flagthemail label: delete on the server, mark seen, or leave alone.
Disposition(r, opt) ==
    IF r = "retained" THEN "leave"
    ELSE IF ~SuppressDelete(r, opt) /\ WantDelete(r, opt) THEN "delete"
    ELSE IF /\ ~SuppressDelete(r, opt)
            /\ r \notin {"old", "toolarge"}
            /\ opt.keep
         THEN "mark"
    ELSE "leave"

\* Results that count towards the fetch limit.
CountsAsFetch(r) == r \in {"transient", "refused", "failed", "shipped"}
==============================================================================
