------------------------------ MODULE ImapPoll ------------------------------
(***************************************************************************)
(* One IMAP account polled again and again: imap.c behind the loops of     *)
(* driver.c, a server that several clients use at once, and the listener.  *)
(* A step is one command with its replies, one unsolicited reply, one      *)
(* verdict of the listener, or one fault.                                  *)
(*                                                                         *)
(* A message is a natural number in order of arrival.  Within a session    *)
(* the server numbers the messages of `view' from 1; messages that another *)
(* client has removed keep their number until an EXPUNGE reply reports it, *)
(* and new messages have none until an EXISTS reply does.                  *)
(***************************************************************************)
EXTENDS Integers, FiniteSets, FetchPolicy

CONSTANTS MaxMsg,       \* bound: messages that ever arrive
          Big,          \* messages above every size limit in Options
          Options,      \* option records the user may run fetchmail with
          MaxFaults,    \* bound: faults of network, listener and process
          MaxMeddling,  \* bound: steps of other clients and accounts
          MaxCopies     \* the count of delivered copies saturates here

Msgs == 1..MaxMsg

\* peek: the server is IMAP4 or later, imap_version >= IMAP4.
OptionType == [keep : BOOLEAN, flush : BOOLEAN, fetchall : BOOLEAN,
               limit : BOOLEAN, limitflush : BOOLEAN, softbounce : BOOLEAN,
               idle : BOOLEAN, peek : BOOLEAN, fetchlimit : Nat,
               expunge : Nat]

ASSUME BoundsAssumption ==
    /\ MaxMsg \in Nat /\ MaxFaults \in Nat /\ MaxMeddling \in Nat
    /\ MaxCopies \in Nat
ASSUME OptionsAssumption == Options \subseteq OptionType /\ Options # {}
ASSUME BigAssumption == Big \subseteq Msgs

VARIABLES
    \* the mail server (external)
    mbox, next,             \* the mailbox, the next message to arrive
    seen, deleted,          \* messages with these flags
    view,                   \* messages that have a number in this session
    \* static variables of imap.c
    count, oldcount, recentcount,
    unseen,                 \* numbers in unseen_messages
    expunged, deletions,
    \* driver.c
    pc, opt, pass, total,   \* total: fetch_messages' argument count
    num, result,            \* the loop of fetch_messages, FetchPolicy's result
    fetches, dispatches, errcount,
    \* the messages numbered by the last getrange, force_retrieval;
    \* bookkeeping: messages put off in this session, fates, copies delivered, faults, other clients' steps
    listed, force, deferred, fate, copies, faults, meddling

serverVars == <<mbox, next, seen, deleted, view>>
imapVars   == <<count, oldcount, recentcount, unseen, expunged, deletions>>
loopVars   == <<pass, total, num, result, fetches, dispatches, errcount>>
rangeVars  == <<listed, force>>
mailVars   == <<fate, copies>>
vars == <<serverVars, imapVars, pc, opt, loopVars, rangeVars, deferred, mailVars,
          faults, meddling>>

PCs == {"asleep", "select", "purge", "idle", "search", "check", "header",
        "ship", "flag", "expunge", "done", "logout"}

TypeOK ==
    /\ mbox \subseteq Msgs /\ seen \subseteq Msgs /\ deleted \subseteq Msgs
    /\ view \subseteq Msgs /\ listed \subseteq Msgs /\ deferred \subseteq Msgs
    /\ next \in 1..(MaxMsg + 1) /\ unseen \subseteq Msgs
    /\ count \in 0..MaxMsg /\ oldcount \in 0..MaxMsg
    /\ recentcount \in 0..MaxMsg /\ expunged \in Nat
    /\ deletions \in Nat /\ total \in 0..MaxMsg
    /\ pc \in PCs /\ opt \in Options /\ pass \in 0..2
    /\ num \in 0..MaxMsg /\ result \in Results \cup {"none", "open"}
    /\ fetches \in Nat /\ dispatches \in BOOLEAN /\ errcount \in BOOLEAN
    /\ force \in BOOLEAN
    /\ fate \in [Msgs -> {"waiting", "accepted", "refused", "discarded", "taken"}]
    /\ copies \in [Msgs -> 0..MaxCopies]
    /\ faults \in 0..MaxFaults /\ meddling \in 0..MaxMeddling

-----------------------------------------------------------------------------
(* Numbers and replies.                                                    *)

\* The message with number n, and the number of a message, in a set of them.
Nth(S, n) == CHOOSE m \in S : Cardinality({k \in S : k <= m}) = n
Number(S, m) == Cardinality({k \in S : k <= m})
HasNumber(S, n) == n \in 1..Cardinality(S)

\* A build that forgets that expunges change the fetch numbers.
Target_Unshifted(n) == n

\* The number a command uses for message n of the range.
Target(n) == n - expunged

\* The message a command for n reaches on the server.
Addressed(n) == IF HasNumber(view, Target(n)) THEN Nth(view, Target(n)) ELSE 0

\* A build without the check for a negative difference.
Monus_Unchecked(a, b) == a - b

\* Differences of counts, which are cut off at zero.
Monus(a, b) == IF a > b THEN a - b ELSE 0

Fault == faults < MaxFaults /\ faults' = faults + 1
Meddle == meddling < MaxMeddling /\ meddling' = meddling + 1

\* A build that leaves the count of new messages to the RECENT reply.
Exists_NoRecent ==
    /\ view' = view \cup (mbox \ view)
    /\ count' = Cardinality(view')
    /\ recentcount' = recentcount

\* An EXISTS reply: new messages get numbers; imap_untagged_response keeps
\* the new count and how far it is above the old one.
Exists ==
    /\ view' = view \cup (mbox \ view)
    /\ count' = Cardinality(view')
    /\ recentcount' = Monus(count', oldcount)

\* The EXPUNGE replies to an EXPUNGE command, which removes what any client
\* has flagged and reports what other clients have removed before.
Gone == view \cap (deleted \cup (Msgs \ mbox))
Expunge ==
    /\ mbox' = mbox \ deleted
    /\ view' = view \ Gone
    /\ deleted' = {} /\ seen' = seen \cap mbox'
    /\ count' = Monus(count, Cardinality(Gone))
    /\ oldcount' = Monus(oldcount, Cardinality(Gone))
    /\ recentcount' = IF Gone = {} THEN recentcount ELSE Monus(count', oldcount')

\* internal_expunge: another client has deleted mail as well.
Mismatch == deletions > 0 /\ deletions # Cardinality(Gone)

\* internal_expunge when the command succeeds.
InternalExpunge ==
    /\ Expunge
    /\ expunged' = IF Mismatch THEN expunged ELSE expunged + deletions
    /\ deletions' = 0

-----------------------------------------------------------------------------
(* The environment.                                                        *)

Init ==
    /\ mbox = {} /\ next = 1 /\ seen = {} /\ deleted = {} /\ view = {}
    /\ count = 0 /\ oldcount = 0 /\ recentcount = 0 /\ unseen = {}
    /\ expunged = 0 /\ deletions = 0
    /\ pc = "asleep" /\ opt \in Options /\ pass = 0 /\ total = 0
    /\ num = 0 /\ result = "none" /\ fetches = 0
    /\ dispatches = FALSE /\ errcount = FALSE
    /\ listed = {} /\ force = FALSE /\ deferred = {}
    /\ fate = [m \in Msgs |-> "waiting"]
    /\ copies = [m \in Msgs |-> 0]
    /\ faults = 0 /\ meddling = 0

Arrive ==
    /\ next <= MaxMsg
    /\ mbox' = mbox \cup {next} /\ next' = next + 1
    /\ UNCHANGED <<seen, deleted, view, imapVars, pc, opt, loopVars, rangeVars,
                   deferred, mailVars, faults, meddling>>

\* What another client reads or deletes is no longer fetchmail's to deliver.
Taken(S) == fate' = [m \in Msgs |->
                        IF m \in S /\ fate[m] = "waiting" THEN "taken" ELSE fate[m]]

\* Another client reads a message, flags one, or flags one and expunges.
OtherClient ==
    /\ Meddle
    /\ \/ \E m \in mbox \ seen : seen' = seen \cup {m} /\ Taken({m})
          /\ UNCHANGED <<mbox, deleted>>
       \/ \E m \in mbox \ deleted : deleted' = deleted \cup {m} /\ Taken({m})
          /\ UNCHANGED <<mbox, seen>>
       \/ \E m \in mbox :
             /\ mbox' = mbox \ (deleted \cup {m}) /\ deleted' = {}
             /\ seen' = seen \cap mbox' /\ Taken({m})
    /\ UNCHANGED <<next, view, imapVars, pc, opt, loopVars, rangeVars, deferred,
                   copies, faults>>

\* Another account is polled; its session may leave the statics of imap.c
\* with deletions that were never expunged.
OtherAccount ==
    /\ pc = "asleep" /\ Meddle
    /\ deletions' \in {0, 1}
    /\ UNCHANGED <<serverVars, count, oldcount, recentcount, unseen, expunged,
                   pc, opt, loopVars, rangeVars, deferred, mailVars, faults>>

\* The process is started again, perhaps with other options.
Restart ==
    /\ Fault
    /\ opt' \in {o \in Options : o.peek = opt.peek}
    /\ pc' = "asleep" /\ deletions' = 0
    /\ num' = 0 /\ result' = "none" /\ view' = {} /\ deferred' = {} /\ listed' = {}
    /\ force' = FALSE
    /\ UNCHANGED <<mbox, next, seen, deleted, count, oldcount, recentcount,
                   unseen, expunged, pass, total, fetches, dispatches, errcount,
                   mailVars, meddling>>

\* The server mentions new mail along with its reply to some command.
Announce ==
    /\ pc \in PCs \ {"asleep", "select", "idle"} /\ mbox \ view # {}
    /\ Exists
    /\ UNCHANGED <<mbox, next, seen, deleted, oldcount, unseen, expunged,
                   deletions, pc, opt, loopVars, rangeVars, deferred, mailVars,
                   faults, meddling>>

-----------------------------------------------------------------------------
(* The ends of a session.                                                  *)

Hangup ==
    /\ pc' = "asleep" /\ num' = 0 /\ result' = "none"
    /\ view' = {} /\ deferred' = {} /\ listed' = {} /\ force' = FALSE

\* A socket error or a timeout: no logout, the statics keep what they had.
SessionLost ==
    /\ pc # "asleep" /\ Fault /\ Hangup
    /\ UNCHANGED <<mbox, next, seen, deleted, imapVars, opt, pass, total,
                   fetches, dispatches, errcount, mailVars, meddling>>

\* The connection is lost after EXPUNGE was carried out.
ExpungeReplyLost ==
    /\ pc \in {"purge", "expunge"} \/ (pc \in {"done", "logout"} /\ deletions > 0)
    /\ Fault /\ Hangup
    /\ mbox' = mbox \ deleted /\ deleted' = {} /\ seen' = seen \cap mbox'
    /\ UNCHANGED <<next, imapVars, opt, pass, total, fetches, dispatches,
                   errcount, mailVars, meddling>>

\* The server answers NO or BAD, or that the mailbox is read-only: the
\* session ends by way of the cleanUp label, which still logs out.
CommandRefused ==
    /\ pc \in {"select", "purge", "search", "header", "ship", "flag", "expunge"}
    /\ Fault
    /\ pc' = "logout" /\ num' = 0 /\ result' = "none"
    /\ UNCHANGED <<serverVars, imapVars, opt, pass, total, fetches, dispatches,
                   errcount, rangeVars, deferred, mailVars, meddling>>

\* imap_logout: pending deletions are expunged, whatever comes of it.
Logout ==
    /\ pc = "logout"
    /\ IF deletions > 0
       THEN /\ mbox' = mbox \ deleted /\ deleted' = {} /\ seen' = seen \cap mbox'
            /\ deletions' = 0
       ELSE UNCHANGED <<mbox, deleted, seen, deletions>>
    /\ Hangup
    /\ UNCHANGED <<next, count, oldcount, recentcount, unseen, expunged, opt,
                   pass, total, fetches, dispatches, errcount, mailVars, faults,
                   meddling>>

-----------------------------------------------------------------------------
(* imap_getrange                                                           *)

\* Connected and authenticated; the folder loop starts.
Login ==
    /\ pc = "asleep"
    /\ pc' = "select" /\ pass' = 1
    /\ fetches' = 0 /\ dispatches' = FALSE /\ errcount' = FALSE
    /\ UNCHANGED <<serverVars, imapVars, opt, total, num, result, rangeVars,
                   deferred, mailVars, faults, meddling>>

\* A build that idles without a look at the mail that is there already.
AfterSelect_IdleFirst(n) ==
    IF opt.idle THEN "idle" ELSE IF n > 0 THEN "search" ELSE "logout"

\* Where getrange goes once the mailbox is selected and purged.
AfterSelect(n) == IF n > 0 THEN "search" ELSE IF opt.idle THEN "idle" ELSE "logout"

Select ==
    /\ pc = "select"
    /\ view' = mbox /\ count' = Cardinality(mbox) /\ recentcount' = count'
    /\ oldcount' = 0
    /\ pc' = IF ~opt.keep /\ count' > 0 THEN "purge" ELSE AfterSelect(count')
    /\ UNCHANGED <<mbox, next, seen, deleted, unseen, expunged, deletions, opt,
                   loopVars, rangeVars, deferred, mailVars, faults, meddling>>

\* The expunge before the first fetch.  deletions may be left from an earlier
\* session, so that the check of internal_expunge can fail here.
Purge ==
    /\ pc = "purge"
    /\ InternalExpunge
    /\ pc' = IF Mismatch THEN "logout" ELSE AfterSelect(count')
    /\ UNCHANGED <<next, unseen, opt, loopVars, rangeVars, deferred, mailVars,
                   faults, meddling>>

\* imap_idle returns on news; the loop around it goes on until there is mail.
IdleOver == IF pass = 1 THEN count' > 0 ELSE recentcount' > 0

\* EXISTS while idling: DONE is sent and the range is computed again.
IdleExists ==
    /\ pc = "idle" /\ mbox \ view # {}
    /\ Exists
    /\ pc' = IF IdleOver THEN "search" ELSE "idle"
    /\ UNCHANGED <<mbox, next, seen, deleted, oldcount, unseen, expunged,
                   deletions, opt, loopVars, rangeVars, deferred, mailVars, faults,
                   meddling>>

\* Another client's removals are reported while idling.
IdleExpunge ==
    /\ pc = "idle" /\ view \ mbox # {}
    /\ view' = view \cap mbox
    /\ count' = Monus(count, Cardinality(view \ mbox))
    /\ oldcount' = Monus(oldcount, Cardinality(view \ mbox))
    /\ recentcount' = Monus(count', oldcount')
    /\ pc' = IF IdleOver THEN "search" ELSE "idle"
    /\ UNCHANGED <<mbox, next, seen, deleted, unseen, expunged, deletions, opt,
                   loopVars, rangeVars, deferred, mailVars, faults, meddling>>

\* The range: SEARCH UNSEEN UNDELETED, else SEARCH UNSEEN, else the flags of
\* all messages.
SearchForms == (IF opt.peek /\ opt.keep THEN {"undeleted"} ELSE {}) \cup {"unseen", "flags"}

\* A build that takes every message for new.
SearchFinds_All(form) == view

SearchFinds(form) ==
    view \ (seen \cup IF form = "unseen" THEN {} ELSE deleted)

\* fetch_messages: all messages count as new after errors in the pass before.
ForceRetrieval == ~opt.peek /\ errcount

Search ==
    /\ pc = "search"
    /\ total' = count /\ oldcount' = count /\ recentcount' = 0
    /\ listed' = view /\ force' = ForceRetrieval
    /\ IF opt.fetchall \/ count = 0 THEN unseen' = {}
       ELSE \E form \in SearchForms :
                unseen' = {Number(view, m) : m \in SearchFinds(form)}
    /\ expunged' = 0 /\ deletions' = 0
    /\ dispatches' = FALSE
    /\ num' = IF count > 0 THEN 1 ELSE 0
    /\ pc' = IF count > 0 THEN "check" ELSE "logout"
    /\ UNCHANGED <<serverVars, count, opt, pass, result, fetches, errcount,
                   deferred, mailVars, faults, meddling>>

-----------------------------------------------------------------------------
(* fetch_messages                                                          *)

\* On to the next message, unless the fetch limit is reached.
Advance(f) ==
    /\ fetches' = f /\ result' = "none"
    /\ IF num < total /\ ~(opt.fetchlimit > 0 /\ opt.fetchlimit <= f)
       THEN pc' = "check" /\ num' = num + 1
       ELSE pc' = "done" /\ num' = 0

\* imap_getpartialsizes asks for sizes by the numbers that are valid now.
SizedMessage(n) == Addressed(n)

\* imap_is_old, and the size check.
Check ==
    /\ pc = "check"
    /\ LET old == ~opt.fetchall /\ ~force /\ num \notin unseen
           big == opt.limit /\ SizedMessage(num) \in Big
       IN  /\ result' = IF old THEN "old" ELSE IF big THEN "toolarge" ELSE "none"
           /\ pc' = IF old \/ big THEN "flag" ELSE "header"
    /\ UNCHANGED <<serverVars, imapVars, opt, pass, total, num, fetches,
                   dispatches, errcount, rangeVars, deferred, mailVars, faults,
                   meddling>>

Settle(m, f) == fate' = [fate EXCEPT ![m] = IF @ = "accepted" THEN @ ELSE f]
CountCopy(m) ==
    copies' = [copies EXCEPT ![m] = IF @ < MaxCopies THEN @ + 1 ELSE @]

\* imap_fetch_headers and readheaders.
Headers ==
    /\ pc = "header" /\ Addressed(num) \in mbox
    /\ \/ result' = "open" /\ pc' = "ship" /\ UNCHANGED <<fate, deferred, faults>>
       \/ /\ result' = "refused" /\ pc' = "flag" /\ Settle(Addressed(num), "refused")
          /\ UNCHANGED <<deferred, faults>>
       \/ /\ result' \in {"transient", "retained"} /\ pc' = "flag" /\ Fault
          /\ deferred' = deferred \cup {Addressed(num)} /\ UNCHANGED fate
    /\ UNCHANGED <<serverVars, imapVars, opt, pass, total, num, fetches,
                   dispatches, errcount, rangeVars, copies, meddling>>

\* The message is gone, or the server cannot produce it: PS_TRANSIENT, which
\* goes on with the next number without looking at the fetch limit.
HeadersTransient ==
    /\ pc = "header"
    /\ IF Addressed(num) \in mbox THEN Fault ELSE UNCHANGED faults
    /\ deferred' = deferred \cup {Addressed(num)}
    /\ result' = "none"
    /\ IF num < total THEN pc' = "check" /\ num' = num + 1
       ELSE pc' = "done" /\ num' = 0
    /\ UNCHANGED <<serverVars, imapVars, opt, pass, total, fetches, dispatches,
                   errcount, rangeVars, mailVars, meddling>>

\* imap_fetch_body, readbody and close_sink; servers that cannot peek set the
\* Seen flag when the text is fetched.
Ship ==
    /\ pc = "ship" /\ Addressed(num) \in mbox
    /\ LET m == Addressed(num)
       IN  /\ seen' = IF opt.peek THEN seen ELSE seen \cup {m}
           /\ \/ /\ result' = "shipped" /\ Settle(m, "accepted") /\ CountCopy(m)
                 /\ UNCHANGED <<errcount, faults>>
              \/ /\ result' = "shipped" /\ Settle(m, "refused")
                 /\ UNCHANGED <<errcount, copies, faults>>
              \/ /\ result' = "failed" /\ errcount' = TRUE /\ Fault
                 /\ \/ UNCHANGED <<fate, copies>>
                    \/ Settle(m, "accepted") /\ CountCopy(m)
    /\ dispatches' = TRUE
    /\ pc' = "flag"
    /\ UNCHANGED <<mbox, next, deleted, view, imapVars, opt, pass, total, num,
                   fetches, rangeVars, deferred, meddling>>

\* Another client removed the message between its headers and its text.
ShipGone ==
    /\ pc = "ship" /\ Addressed(num) \notin mbox
    /\ pc' = "logout" /\ num' = 0 /\ result' = "none"
    /\ UNCHANGED <<serverVars, imapVars, opt, pass, total, fetches, dispatches,
                   errcount, rangeVars, deferred, mailVars, faults, meddling>>

FetchesAfter == IF CountsAsFetch(result) THEN fetches + 1 ELSE fetches

FlagLeave ==
    /\ pc = "flag" /\ Disposition(result, opt) = "leave"
    /\ Advance(FetchesAfter)
    /\ UNCHANGED <<serverVars, imapVars, opt, pass, total, dispatches, errcount,
                   rangeVars, deferred, mailVars, faults, meddling>>

\* imap_mark_seen
FlagSeen ==
    /\ pc = "flag" /\ Disposition(result, opt) = "mark"
    /\ seen' = seen \cup ({Addressed(num)} \cap mbox)
    /\ Advance(FetchesAfter)
    /\ UNCHANGED <<mbox, next, deleted, view, imapVars, opt, pass, total,
                   dispatches, errcount, rangeVars, deferred, mailVars, faults,
                   meddling>>

\* imap_delete: STORE, and EXPUNGE after every opt.expunge deletions.
ExpungeDue(d) == opt.expunge > 0 /\ d % opt.expunge = 0

FlagDelete ==
    /\ pc = "flag" /\ Disposition(result, opt) = "delete"
    /\ LET hit == {Addressed(num)} \cap mbox
       IN  deleted' = deleted \cup hit /\ seen' = seen \cup hit
    /\ IF result = "toolarge" /\ Addressed(num) \in mbox
       THEN Settle(Addressed(num), "discarded") ELSE UNCHANGED fate
    /\ deletions' = deletions + 1
    /\ IF ExpungeDue(deletions')
       THEN pc' = "expunge" /\ fetches' = FetchesAfter /\ UNCHANGED <<num, result>>
       ELSE Advance(FetchesAfter)
    /\ UNCHANGED <<mbox, next, view, count, oldcount, recentcount, unseen,
                   expunged, opt, pass, total, dispatches, errcount, rangeVars,
                   deferred, copies, faults, meddling>>

ExpungeNow ==
    /\ pc = "expunge"
    /\ InternalExpunge
    /\ IF Mismatch
       THEN pc' = "logout" /\ num' = 0 /\ result' = "none" /\ UNCHANGED fetches
       ELSE Advance(fetches)
    /\ UNCHANGED <<next, unseen, opt, pass, total, dispatches, errcount, rangeVars,
                   deferred, mailVars, faults, meddling>>

-----------------------------------------------------------------------------
(* The end of a pass.                                                      *)

\* imap_end_mailbox_poll ignores what internal_expunge returns.
LimitReached == opt.fetchlimit > 0 /\ opt.fetchlimit <= fetches
Repoll == (dispatches \/ opt.idle) /\ ~errcount /\ ~LimitReached

EndMailbox ==
    /\ pc = "done"
    /\ IF deletions > 0 THEN InternalExpunge
       ELSE UNCHANGED <<mbox, view, deleted, seen, count, oldcount, recentcount,
                        expunged, deletions>>
    /\ pass' = IF Repoll THEN 2 ELSE pass
    /\ pc' = IF ~Repoll THEN "logout"
             ELSE IF recentcount' > 0 THEN "search"
             ELSE IF opt.idle THEN "idle" ELSE "logout"
    /\ UNCHANGED <<next, unseen, opt, total, num, result, fetches, dispatches,
                   errcount, rangeVars, deferred, mailVars, faults, meddling>>

-----------------------------------------------------------------------------

ClientStep ==
    \/ Login \/ Select \/ Purge \/ IdleExists \/ IdleExpunge \/ Search \/ Check
    \/ Headers \/ HeadersTransient \/ Ship \/ ShipGone \/ FlagLeave \/ FlagSeen
    \/ FlagDelete \/ ExpungeNow \/ EndMailbox \/ Logout

FaultStep == Restart \/ SessionLost \/ ExpungeReplyLost \/ CommandRefused

Next == Arrive \/ Announce \/ OtherClient \/ OtherAccount \/ ClientStep \/ FaultStep

Spec == Init /\ [][Next]_vars

\* The program is sequential and every wait ends in an answer, a timeout or,
\* while idling, in news from the server.
FairSpec == Spec /\ WF_vars(ClientStep)

-----------------------------------------------------------------------------
(* Properties.                                                             *)

InLoop == pc \in {"check", "header", "ship", "flag"}
Settled(m) == fate[m] # "waiting"

\* No mail is lost: a message leaves the mailbox only after the listener took
\* or refused it, the user had it discarded, or another client dealt with it.
RemovedIsSettled == \A m \in 1..(next - 1) : m \notin mbox => Settled(m)

\* number - expunged is right: the messages still to be handled are the ones
\* that had these numbers when the range was computed, although expunges
\* renumber them and other clients expunge in the same mailbox.
NumbersMatch ==
    InLoop => \A n \in num..total : Addressed(n) = Nth(listed, n)

\* New mail is not overlooked at the end of a pass: whatever the server has
\* announced since the range was computed shows in recentcount.
NewMailNoticed ==
    pc \in {"done", "idle"} => recentcount >= Cardinality(view \ listed)

\* With a server that lets fetchmail peek, a message is flagged as read only
\* after it was dealt with; otherwise the next search would not find it.
SeenIsSettled == opt.peek => \A m \in seen : Settled(m)

\* Without fetchall, every further copy handed to the listener is owed to a
\* fault or to another client.
CopiesNeedFaults == \A m \in Msgs : copies[m] <= 1 + faults + meddling

\* Every message within the size limit is delivered, refused or taken: aborted
\* sessions, stale counters and news while idling do not make fetchmail miss
\* it.  A session that idles may sit on a message it put off, and a server
\* that cannot peek flags a message as read although its delivery failed.
EventuallySettled ==
    \A m \in Msgs \ Big :
        (m < next) ~> \/ Settled(m)
                      \/ pc = "idle" /\ m \in deferred
                      \/ ~opt.peek /\ m \in seen

\* With a server that cannot peek, a message whose delivery failed is not
\* silently ignored forever: force_retrieval brings it back.
\* The code does not satisfy this: ImapNoPeek.cfg and README.md, "Known disagreements".
ForcedRetrieval ==
    \A m \in Msgs \ Big : (m < next) ~> (Settled(m) \/ pc = "idle")

\* Polls are at-least-once transfers.
MT == INSTANCE MailTransfer WITH box <- mbox, ids <- {}, Oversized <- Big
Transfer == MT!Spec
=============================================================================
