------------------------------ MODULE SmtpSink ------------------------------
(***************************************************************************)
(* The delivery of messages to a local SMTP or LMTP listener, an MDA or a  *)
(* BSMTP file (sink.c, smtp.c): who gets a message, which refusals are     *)
(* final, when the sender is told, and whether the message may be deleted  *)
(* on the mail server.  A step is one command with its reply.  Messages    *)
(* that must stay on the server are offered again, as later polls do.      *)
(***************************************************************************)
EXTENDS Naturals, FiniteSets

CONSTANTS Msgs,         \* messages on the mail server
          NullSender,   \* those with an empty return path
          Rcpts,        \* the local recipients of every message
          Postmaster,   \* the recipient of last resort
          NoMsg,        \* no message is being delivered
          Options,      \* how fetchmail may be configured; with ehlo, the
                        \* listener never refuses EHLO
          MaxFaults     \* bound: temporary errors and lost connections

OptionType == [mode : {"S", "L", "mda", "bsmtp"}, bouncemail : BOOLEAN,
               spambounce : BOOLEAN, postmaster : BOOLEAN, batchlimit : Nat,
               ehlo : BOOLEAN]

ASSUME SetsAssumption ==
    /\ NullSender \subseteq Msgs /\ NoMsg \notin Msgs
    /\ Rcpts # {} /\ IsFiniteSet(Rcpts) /\ Postmaster \notin Rcpts
ASSUME OptionsAssumption == Options \subseteq OptionType /\ Options # {}
ASSUME FaultsAssumption == MaxFaults \in Nat

VARIABLES
    opt,        \* the configuration
    queue,      \* messages on the mail server
    pc,         \* the next command of the dialogue
    msg,        \* the message being delivered
    sock,       \* fetchmail has a connection to the listener
    batchcount, \* messages since the connection was opened
    todo,       \* recipients still to be named
    good, bad,  \* recipients taken, and taken off the list
    force,      \* force_transient_error
    \* the listener (external)
    state,      \* of its transaction: "idle", "mail" or "data"
    taken,      \* recipients of its transaction
    unread,     \* LMTP replies not yet read: recipient, success
    served,     \* messages it was offered on this connection
    \* what became of the messages
    got,        \* who received each message
    denied,     \* who was refused each message for good
    told,       \* for whom the sender was notified
    faults

dialogVars == <<msg, todo, good, bad, force>>
lstVars == <<state, taken, unread>>
fateVars == <<got, denied, told>>

vars == <<opt, queue, pc, sock, batchcount, served, dialogVars, lstVars,
          fateVars, faults>>

\* Classes of replies: one of the antispam codes, 552, 553, 530, any other
\* 5xx, any 4xx.  "dead" is a lost connection or an unintelligible reply.
Permanent == {"spam", "552", "553", "5xx"}
Errors == Permanent \cup {"530", "4xx"}

Smtp == opt.mode \in {"S", "L"}
Everyone == Rcpts \cup {Postmaster}

PCs == {"idle", "from", "rcpt", "postmaster", "data", "text", "eom",
        "replies"}

DialogTyped ==
    /\ pc \in PCs /\ msg \in Msgs \cup {NoMsg} /\ queue \subseteq Msgs
    /\ todo \subseteq Rcpts /\ good \subseteq Rcpts /\ bad \subseteq Rcpts
    /\ force \in BOOLEAN

ListenerTyped ==
    /\ sock \in BOOLEAN /\ batchcount \in 0..opt.batchlimit
    /\ state \in {"idle", "mail", "data"} /\ taken \subseteq Everyone
    /\ unread \subseteq (Everyone \X BOOLEAN) /\ served \in Nat

FatesTyped ==
    /\ got \in [Msgs -> SUBSET Everyone]
    /\ denied \in [Msgs -> SUBSET Rcpts] /\ told \in [Msgs -> SUBSET Everyone]

\* Types; batchcount never passes batchlimit, so the test for equality in
\* smtp_setup cannot miss it.
TypeOK ==
    /\ opt \in Options /\ faults \in 0..MaxFaults
    /\ DialogTyped /\ ListenerTyped /\ FatesTyped

Init ==
    /\ opt \in Options /\ queue = Msgs /\ pc = "idle" /\ msg = NoMsg
    /\ sock = FALSE /\ batchcount = 0
    /\ todo = {} /\ good = {} /\ bad = {} /\ force = FALSE
    /\ state = "idle" /\ taken = {} /\ unread = {} /\ served = 0
    /\ got = [m \in Msgs |-> {}] /\ denied = [m \in Msgs |-> {}]
    /\ told = [m \in Msgs |-> {}] /\ faults = 0

Fault == faults < MaxFaults /\ faults' = faults + 1

-----------------------------------------------------------------------------
(* Verdicts.                                                               *)

\* A build that tries again after every error.
Report_Retries(c) == "transient"

\* handle_smtp_report
Report(c) == IF c \in Permanent THEN "refused" ELSE "transient"

\* handle_smtp_report also sends a bounce for some refusals.
ReportBounces(c) ==
    \/ c = "spam" /\ opt.spambounce
    \/ c \in {"552", "5xx"} /\ opt.bouncemail

\* A build that does not single out temporary errors of a recipient.
RcptReport_NoTransient(c) == IF c = "spam" THEN "refused" ELSE "success"

\* handle_smtp_report_without_bounce; "success" means: leave the recipient
\* out and bounce later.  530 falls under the other 5xx codes here.
RcptReport(c) ==
    IF c = "4xx" THEN "transient"
    ELSE IF \/ c = "spam" /\ opt.spambounce
            \/ c = "552" /\ opt.bouncemail
            \/ c \in {"530", "5xx"}
    THEN "success"
    ELSE "refused"

\* Which bounces fetchmail sends at all: none for a null sender.
Bounces(m, ok) == m \notin NullSender /\ ok

Tell(m, rs) == told' = [told EXCEPT ![m] = @ \cup rs]
Deny(m, rs) == denied' = [denied EXCEPT ![m] = @ \cup rs]
Give(m, rs) == got' = [got EXCEPT ![m] = @ \cup rs]

\* Replies that a later attempt may not get again are faults.
Note(c) == IF c \in Permanent THEN UNCHANGED faults ELSE Fault

\* The message is done with: fetch_messages deletes it or leaves it.
Done(delete) ==
    /\ queue' = IF delete THEN queue \ {msg} ELSE queue
    /\ pc' = "idle" /\ msg' = NoMsg
    /\ todo' = {} /\ good' = {} /\ bad' = {} /\ force' = FALSE

\* The listener drops its transaction with the connection.
Hangup == state' = "idle" /\ taken' = {} /\ unread' = {} /\ served' = 0

\* smtp_close
Close == sock' = FALSE /\ batchcount' = 0 /\ Hangup

\* smtp_rset: the listener forgets the transaction, or the connection is given
\* up.
Rset ==
    \/ /\ state' = "idle" /\ taken' = {}
       /\ UNCHANGED <<unread, sock, batchcount, served>>
    \/ Close

-----------------------------------------------------------------------------
(* open_sink, smtp_setup                                                   *)

\* A build that closes one message too late.
BatchFull_Late == opt.batchlimit > 0 /\ batchcount > opt.batchlimit

BatchFull == opt.batchlimit > 0 /\ batchcount = opt.batchlimit

\* The socket is closed first if the batch is full, or if the listener has
\* not been heard of for long (old); a new one is opened if there is none.
\* After a refused EHLO the connection is made anew for HELO, and smtp_close
\* has cleared the count of this message too.
SmtpSetup(m) ==
    /\ pc = "idle" /\ Smtp /\ m \in queue
    /\ \E old \in BOOLEAN :
          LET fresh == old \/ BatchFull \/ ~sock
              first == IF old \/ BatchFull THEN 0 ELSE batchcount
              count == IF opt.batchlimit > 0 THEN first + 1 ELSE first
          IN /\ \/ batchcount' = count
                \/ fresh /\ ~opt.ehlo /\ batchcount' = 0
             /\ served' = (IF fresh THEN 0 ELSE served) + 1
             /\ IF fresh THEN state' = "idle" /\ taken' = {} /\ unread' = {}
                ELSE UNCHANGED lstVars
    /\ sock' = TRUE
    /\ msg' = m /\ pc' = "from"
    /\ UNCHANGED <<opt, queue, todo, good, bad, force, fateVars, faults>>

\* No listener answers: PS_SMTP ends the session.
SetupFails ==
    /\ pc = "idle" /\ Smtp /\ queue # {}
    /\ Fault
    /\ Close
    /\ UNCHANGED <<opt, queue, pc, dialogVars, fateVars>>

\* The session with the mail server ends: smtp_close with QUIT.
EndSession ==
    /\ pc = "idle" /\ sock
    /\ Close
    /\ UNCHANGED <<opt, queue, pc, dialogVars, fateVars, faults>>

\* The listener is lost before it has taken the message.
ListenerLost ==
    /\ pc \in {"from", "rcpt", "postmaster", "data"} /\ (pc = "rcpt" => todo # {})
    /\ Fault
    /\ Close
    /\ Done(FALSE)
    /\ UNCHANGED <<opt, fateVars>>

\* The whole message is refused with c, at MAIL, DATA or end of data:
\* handle_smtp_report, then smtp_rset.
RefuseAll(c) ==
    /\ Note(c)
    /\ \E ok \in BOOLEAN :
          IF ReportBounces(c) /\ Bounces(msg, ok) THEN Tell(msg, Rcpts \ bad)
          ELSE UNCHANGED told
    /\ IF c \in Permanent THEN Deny(msg, Rcpts) ELSE UNCHANGED denied
    /\ Rset
    /\ Done(Report(c) = "refused")

-----------------------------------------------------------------------------
(* open_smtp_sink                                                          *)

MailFrom ==
    /\ pc = "from"
    /\ \/ /\ state' = "mail" /\ taken' = {} /\ UNCHANGED unread
          /\ pc' = "rcpt" /\ todo' = Rcpts
          /\ UNCHANGED <<queue, msg, good, bad, force, sock, batchcount, served,
                         denied, told, faults>>
       \/ \E c \in Errors : RefuseAll(c)
    /\ UNCHANGED <<opt, got>>

RcptTo ==
    /\ pc = "rcpt"
    /\ \E r \in todo :
          /\ todo' = todo \ {r}
          /\ \/ /\ good' = good \cup {r} /\ taken' = taken \cup {r}
                /\ UNCHANGED <<bad, force, denied, faults>>
             \/ \E c \in Errors :
                   /\ Note(c)
                   /\ force' = (force \/ RcptReport(c) = "transient")
                   /\ bad' = IF RcptReport(c) = "success" THEN bad \cup {r} ELSE bad
                   /\ IF c = "4xx" THEN UNCHANGED denied ELSE Deny(msg, {r})
                   /\ UNCHANGED <<good, taken>>
    /\ UNCHANGED <<opt, queue, pc, msg, sock, batchcount, served, state, unread,
                   got, told>>

\* One temporary error is enough to try the whole message again.
RcptsTransient ==
    /\ pc = "rcpt" /\ todo = {} /\ force
    /\ Rset
    /\ Done(FALSE)
    /\ UNCHANGED <<opt, fateVars, faults>>

\* The sender is told of bad addresses, as far as possible.
TellBad ==
    \E ok \in BOOLEAN :
        IF bad # {} /\ Bounces(msg, ok) THEN Tell(msg, bad) ELSE UNCHANGED told

\* All recipients are named: DATA, or the postmaster if none was taken.
RcptsDone ==
    /\ pc = "rcpt" /\ todo = {} /\ ~force
    /\ good # {} \/ opt.postmaster
    /\ TellBad
    /\ pc' = IF good # {} THEN "data" ELSE "postmaster"
    /\ UNCHANGED <<opt, queue, sock, batchcount, served, dialogVars, lstVars,
                   got, denied, faults>>

\* No recipient and no postmaster: PS_REFUSED.
NobodyLeft ==
    /\ pc = "rcpt" /\ todo = {} /\ ~force /\ good = {} /\ ~opt.postmaster
    /\ TellBad
    /\ Rset
    /\ Done(TRUE)
    /\ UNCHANGED <<opt, got, denied, faults>>

\* RCPT for the postmaster; any error is final.
ToPostmaster ==
    /\ pc = "postmaster"
    /\ \/ /\ taken' = {Postmaster} /\ pc' = "data"
          /\ UNCHANGED <<queue, dialogVars, state, unread, sock, batchcount,
                         served>>
       \/ Rset /\ Done(TRUE)
    /\ UNCHANGED <<opt, fateVars, faults>>

Data ==
    /\ pc = "data"
    /\ \/ /\ state' = "data" /\ pc' = "text"
          /\ UNCHANGED <<queue, dialogVars, taken, unread, sock, batchcount,
                         served, denied, told, faults>>
       \/ \E c \in Errors : RefuseAll(c)
    /\ UNCHANGED <<opt, got>>

\* A file or a pipe is opened for all recipients, or that fails (PS_BSMTP,
\* PS_IOERR) and ends the session.
OpenPipe(m) ==
    /\ pc = "idle" /\ ~Smtp /\ m \in queue
    /\ \/ pc' = "text" /\ msg' = m /\ good' = Rcpts /\ UNCHANGED faults
       \/ Fault /\ UNCHANGED <<pc, msg, good>>
    /\ UNCHANGED <<opt, queue, sock, batchcount, served, todo, bad, force,
                   lstVars, fateVars>>

OpenBsmtp(m) == opt.mode = "bsmtp" /\ OpenPipe(m)

OpenMda(m) == opt.mode = "mda" /\ OpenPipe(m)

-----------------------------------------------------------------------------
(* readbody and close_sink                                                 *)

ShipText ==
    /\ pc = "text"
    /\ pc' = "eom"
    /\ UNCHANGED <<opt, queue, sock, batchcount, served, dialogVars, lstVars,
                   fateVars, faults>>

\* The mail server or the listener is lost in the middle of the text: the
\* session ends, and the listener is left without the final dot.
BreakOff ==
    /\ pc = "text"
    /\ Fault
    /\ Close
    /\ Done(FALSE)
    /\ UNCHANGED <<opt, fateVars>>

\* SMTP: one reply for all.
EomSmtp ==
    /\ pc = "eom" /\ opt.mode = "S"
    /\ \/ /\ Give(msg, taken)
          /\ state' = "idle" /\ taken' = {} /\ UNCHANGED unread
          /\ Done(TRUE)
          /\ UNCHANGED <<sock, batchcount, served, denied, told, faults>>
       \/ UNCHANGED got /\ \E c \in Errors : RefuseAll(c)
    /\ UNCHANGED opt

\* The answer to the end of data is lost; the listener may have the message.
EomLost ==
    /\ pc = "eom" /\ opt.mode = "S"
    /\ Fault
    /\ \/ Give(msg, taken)
       \/ UNCHANGED got
    /\ Close
    /\ Done(FALSE)
    /\ UNCHANGED <<opt, denied, told>>

\* LMTP: the listener delivers to some of the recipients it has taken and
\* sends a reply for each of them.
EomLmtp ==
    /\ pc = "eom" /\ opt.mode = "L"
    /\ \E rs \in SUBSET taken :
          /\ Give(msg, rs)
          /\ unread' = {<<x, x \in rs>> : x \in taken}
    /\ state' = "idle"
    /\ pc' = "replies"
    /\ UNCHANGED <<opt, queue, sock, batchcount, served, dialogVars, taken,
                   denied, told, faults>>

\* A build that reads one reply whatever the number of recipients.
ResponsesRead_One == 1

\* lmtp_responses is good_addresses; without any, one reply is read.
ResponsesRead == IF good = {} THEN 1 ELSE Cardinality(good)

\* A build that leaves the message in the queue when a recipient failed.
LmtpVerdict_Keeps(failed) ==
    /\ Done(good # {} /\ failed = {})
    /\ UNCHANGED <<told, faults>>

\* Failures are bounced; that succeeds without a word for a null sender.
\* Without good addresses delivery counts as failed, even if the postmaster
\* was the recipient.
LmtpVerdict(failed) ==
    \/ good = {} /\ Done(FALSE) /\ UNCHANGED <<told, faults>>
    \/ /\ good # {} /\ (failed = {} \/ msg \in NullSender)
       /\ Done(TRUE) /\ UNCHANGED <<told, faults>>
    \/ /\ good # {} /\ failed # {} /\ msg \notin NullSender
       /\ \/ Tell(msg, failed) /\ Done(TRUE) /\ UNCHANGED faults
          \/ Fault /\ Done(FALSE) /\ UNCHANGED told

LmtpReplies ==
    /\ pc = "replies"
    /\ \E read \in SUBSET unread :
          /\ Cardinality(read) = ResponsesRead
          /\ unread' = unread \ read
          /\ LmtpVerdict({x \in Everyone : <<x, FALSE>> \in read})
    /\ taken' = {}
    /\ UNCHANGED <<opt, sock, batchcount, served, state, got, denied>>

LmtpLost ==
    /\ pc = "replies" /\ good # {}
    /\ Fault
    /\ Close
    /\ Done(FALSE)
    /\ UNCHANGED <<opt, fateVars>>

\* The file was written, or the MDA has exited with status 0; or not.
ClosePipe ==
    /\ pc = "eom" /\ ~Smtp
    /\ \/ Give(msg, Rcpts) /\ Done(TRUE) /\ UNCHANGED faults
       \/ UNCHANGED got /\ Fault /\ Done(FALSE)
    /\ UNCHANGED <<opt, sock, batchcount, served, lstVars, denied, told>>

\* Whom a BSMTP file reaches is up to its reader: here, to be in it is enough.
CloseBsmtp == opt.mode = "bsmtp" /\ ClosePipe

CloseMda == opt.mode = "mda" /\ ClosePipe

-----------------------------------------------------------------------------

Step ==
    \/ \E m \in Msgs : SmtpSetup(m) \/ OpenBsmtp(m) \/ OpenMda(m)
    \/ MailFrom \/ RcptTo \/ RcptsTransient \/ RcptsDone \/ NobodyLeft
    \/ ToPostmaster \/ Data \/ ShipText \/ EomSmtp \/ EomLmtp \/ LmtpReplies
    \/ CloseBsmtp \/ CloseMda

Lost == SetupFails \/ ListenerLost \/ BreakOff \/ EomLost \/ LmtpLost

Next == Step \/ Lost \/ EndSession

Spec == Init /\ [][Next]_vars

\* fetchmail goes on, and polls again for what is still there.
FairSpec == Spec /\ WF_vars(Step)

-----------------------------------------------------------------------------
(* Properties.                                                             *)

\* A message is deleted on the mail server only if each of its recipients
\* received it or was refused it for good, or the sender was told, or the
\* postmaster has it; a temporary error of one recipient among several is not
\* forgotten.  (LMTP failures of messages without a sender are.)
NothingDropped ==
    \A m \in Msgs \ queue : \A r \in Rcpts :
        \/ r \in got[m] \cup denied[m] \cup told[m]
        \/ Postmaster \in got[m]
        \/ opt.mode = "L" /\ m \in NullSender

\* MAIL is sent only to a listener whose last transaction is over and whose
\* replies have all been read: after refusals, resets and LMTP answers the
\* two sides are in step.
InStep == pc = "from" => state = "idle" /\ taken = {} /\ unread = {}

\* No more than batchlimit messages go over one connection, and one more only
\* if the listener refused EHLO.
BatchBound ==
    opt.batchlimit > 0 =>
        served <= opt.batchlimit + (IF opt.ehlo THEN 0 ELSE 1)

\* A message that reached a recipient is offered again only after a fault: a
\* listener that answered everything is not sent the same message twice.
ResendNeedsFault == pc = "from" /\ got[msg] \cap Rcpts # {} => faults > 0

\* The same of the postmaster, when nobody else was taken.
\* The code does not satisfy this: SinkLmtp.cfg and README.md, "Known disagreements".
PostmasterOnce == pc = "from" /\ Postmaster \in got[msg] => faults > 0

\* Every message leaves the mail server some day: temporary errors and refused
\* notifications do not leave it in the queue for ever.  (What an LMTP listener
\* takes for the postmaster is left there; see PostmasterOnce.)
EventuallyGone ==
    \A m \in Msgs : <>(m \notin queue \/ (opt.mode = "L" /\ opt.postmaster))
=============================================================================
