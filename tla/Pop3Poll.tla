------------------------------ MODULE Pop3Poll ------------------------------
(***************************************************************************)
(* One POP3 account polled again and again by fetchmail: the mail server's *)
(* maildrop, the session driver (driver.c), the POP3 driver (pop3.c), the  *)
(* UID lists (uid.c) and the id file, over polls, failures, terminations   *)
(* and restarts.  A step is one POP3 command with its reply, one verdict   *)
(* of the SMTP listener or MDA, or one fault.                              *)
(*                                                                         *)
(* A message is a natural number in order of arrival and is its own UID:   *)
(* UIDs are taken to be unique and persistent, as RFC 1939 demands.        *)
(***************************************************************************)
EXTENDS Naturals, FiniteSets, FetchPolicy

CONSTANTS MaxMsg,       \* bound: messages that ever arrive
          Big,          \* messages above every size limit in Options
          Options,      \* option records the user may run fetchmail with
          HasLast,      \* the server implements the LAST command
          FastMin,      \* mailbox size above which fastuidl is tried (7)
          MaxLockouts,  \* MAX_LOCKOUTS of tunable.h (5)
          MaxFaults,    \* bound: faults of the environment
          MaxCopies     \* the count of delivered copies saturates here

Msgs == 1..MaxMsg
Nums == 1..MaxMsg
NoMsg == 0

OptionType == [keep : BOOLEAN, flush : BOOLEAN, fetchall : BOOLEAN,
               uidl : BOOLEAN, limit : BOOLEAN, limitflush : BOOLEAN,
               softbounce : BOOLEAN, fastuidl : Nat, fetchlimit : Nat,
               expunge : Nat]

ASSUME BoundsAssumption ==
    /\ MaxMsg \in Nat /\ FastMin \in Nat /\ MaxLockouts \in Nat
    /\ MaxFaults \in Nat /\ MaxCopies \in Nat
ASSUME OptionsAssumption == Options \subseteq OptionType /\ Options # {}
ASSUME ServerAssumption == Big \subseteq Msgs /\ HasLast \in BOOLEAN

VARIABLES
    \* the mail server (external)
    mbox,       \* the maildrop
    next,       \* the next message to arrive
    accessed,   \* messages retrieved with RETR, for LAST
    marked,     \* messages DELEted in the open session
    srv,        \* "open", or "update" once QUIT has been carried out
    \* the process
    pc,         \* where the process is
    opt,        \* the options it was started with
    total,      \* do_protocol's totalcount
    lockouts,   \* do_protocol's lockouts
    \* the session
    count,      \* messages reported by STAT
    drop,       \* the message with each number
    num,        \* fetch_messages' loop variable
    last,       \* pop3.c's `last', and first_nr of the binary search
    hi,         \* last_nr of the binary search
    alive,      \* FALSE once the connection died unnoticed
    result,     \* how the fetch of message num went (FetchPolicy)
    fetches,    \* messages fetched in this session
    status,     \* do_session's err
    \* the UID lists
    oldsaved, newsaved,     \* status of each UID, "none" if not in the list
    oldndx, newndx,         \* message number index of each list
    top,                    \* pos_0_value of the indexes
    dofastuidl, fastuidlcount,
    fetchids,               \* the id file
    \* bookkeeping of the environment
    fate, copies, faults

serverVars  == <<mbox, next, accessed, marked, srv>>
loopVars    == <<total, lockouts>>
dropVars    == <<count, drop>>
cursorVars  == <<num, last, hi, alive, result, fetches>>
listVars    == <<oldsaved, newsaved, oldndx, newndx, top>>
fastVars    == <<dofastuidl, fastuidlcount>>
deliverVars == <<fate, copies>>

vars == <<serverVars, pc, opt, loopVars, dropVars, cursorVars, status,
          listVars, fastVars, fetchids, deliverVars, faults>>

PCs == {"down", "asleep", "login", "range", "probe", "check", "get", "ship",
        "flag", "quit", "polled"}
UidStatus == {"none", "unseen", "seen", "deleted", "expunged"}
Statuses == {"none", "success", "nomail", "maxfetch", "lockbusy", "error"}
Fates == {"waiting", "accepted", "refused", "discarded"}

ServerType ==
    /\ mbox \subseteq Msgs /\ accessed \subseteq Msgs /\ marked \subseteq Msgs
    /\ next \in 1..(MaxMsg + 1)
    /\ srv \in {"open", "update"}

ControlType ==
    /\ pc \in PCs /\ opt \in Options
    /\ alive \in BOOLEAN /\ dofastuidl \in BOOLEAN
    /\ result \in Results \cup {"none", "open"}
    /\ status \in Statuses

CounterType ==
    /\ total \in Nat /\ lockouts \in Nat /\ fetches \in Nat
    /\ num \in Nat /\ last \in Nat /\ hi \in Nat
    /\ fastuidlcount \in Nat
    /\ faults \in 0..MaxFaults

DropType == count \in 0..MaxMsg /\ drop \in [1..count -> Msgs]

ListType ==
    /\ oldsaved \in [Msgs -> UidStatus] /\ newsaved \in [Msgs -> UidStatus]
    /\ oldndx \in [Nums -> Msgs \cup {NoMsg}]
    /\ newndx \in [Nums -> Msgs \cup {NoMsg}]
    /\ top \in 0..MaxMsg

DeliveryType ==
    /\ fetchids \subseteq Msgs
    /\ fate \in [Msgs -> Fates]
    /\ copies \in [Msgs -> Nat]

TypeOK == /\ ServerType /\ ControlType /\ CounterType /\ DropType /\ ListType
          /\ DeliveryType

\* The loops stay within the mailbox.
CursorInRange ==
    /\ pc \in {"check", "get", "ship", "flag"} => num \in 1..count
    /\ pc = "probe" => count > 0 /\ hi <= count + 1

-----------------------------------------------------------------------------
(* The UID lists.                                                          *)

EmptyList == [m \in Msgs |-> "none"]
EmptyNdx == [i \in Nums |-> NoMsg]

IsEmptyList(l) == \A m \in Msgs : l[m] = "none"

\* A build that writes every known id.
SavedIds_All(l) == {m \in Msgs : l[m] # "none"}

\* write_saved_lists writes the ids that were seen or deleted, not expunged.
SavedIds(l) == {m \in Msgs : l[m] \in {"seen", "deleted"}}

\* A build that sets up the list only when there is an id for it.
LoadedList_FileOnly(f) == [m \in f |-> "seen"]

\* initialize_saved_lists reads every id back as seen.
LoadedList(f) == [m \in Msgs |-> IF m \in f THEN "seen" ELSE "none"]

\* A listed UID: a deleted one that is still there counts as seen, an
\* unknown one is entered as unseen.
ListedStatus(s) ==
    CASE s \in {"deleted", "expunged"} -> "seen"
      [] s = "none" -> "unseen"
      [] s \in {"seen", "unseen"} -> s

\* uid_reset_num: the index is dropped, unless its only entry is the highest
\* message number (end_value = pos_0_value), which the guard misses.
ResetNdx(ndx) ==
    IF \E i \in Nums : ndx[i] # NoMsg /\ i < top THEN EmptyNdx ELSE ndx

\* expunge_uids
Expunged(l) == [m \in Msgs |-> IF l[m] = "deleted" THEN "expunged" ELSE l[m]]

\* The status of the record an index names becomes s; no record, no change.
SetByNum(l, ndx, i, s) ==
    IF ndx[i] = NoMsg THEN l ELSE [l EXCEPT ![ndx[i]] = s]

-----------------------------------------------------------------------------
(* do_protocol                                                             *)

\* The expunge limit is applied by running several sessions.
MultiSession == ~(opt.keep /\ ~opt.flush) /\ opt.expunge > 0

MaxFetch ==
    IF ~MultiSession THEN opt.fetchlimit
    ELSE IF opt.fetchlimit > 0 /\ opt.expunge > opt.fetchlimit - total
         THEN opt.fetchlimit - total
         ELSE opt.expunge

\* totalcount matters only when there is a fetch limit.
TotalAfter == IF MultiSession /\ opt.fetchlimit > 0 THEN total + MaxFetch ELSE total

AnotherSession(st) ==
    /\ MultiSession
    /\ ~(opt.fetchlimit > 0 /\ TotalAfter >= opt.fetchlimit)
    /\ \/ st = "maxfetch"
       \/ st = "lockbusy" /\ lockouts < MaxLockouts

Fault == faults < MaxFaults /\ faults' = faults + 1

\* The connection is closed: the server forgets deletions that were not
\* committed by QUIT, and do_protocol goes on to the next session or returns.
CloseSession(st) ==
    /\ pc' = IF AnotherSession(st) THEN "login" ELSE "polled"
    /\ status' = st
    /\ total' = TotalAfter
    /\ lockouts' = IF st = "lockbusy" THEN lockouts + 1 ELSE 0
    /\ marked' = {} /\ srv' = "open"
    /\ num' = 0 /\ last' = 0 /\ hi' = 0 /\ alive' = TRUE
    /\ result' = "none" /\ fetches' = 0

\* QUIT is sent; st is what do_session will return if it succeeds.
SendQuit(st) == pc' = "quit" /\ status' = st

-----------------------------------------------------------------------------
(* The environment.                                                        *)

Init ==
    /\ mbox = {} /\ next = 1 /\ accessed = {} /\ marked = {} /\ srv = "open"
    /\ pc = "down" /\ opt \in Options /\ total = 0 /\ lockouts = 0
    /\ count = 0 /\ drop = [i \in 1..0 |-> NoMsg]
    /\ num = 0 /\ last = 0 /\ hi = 0 /\ alive = TRUE /\ result = "none"
    /\ fetches = 0 /\ status = "none"
    /\ oldsaved = EmptyList /\ newsaved = EmptyList
    /\ oldndx = EmptyNdx /\ newndx = EmptyNdx /\ top = 0
    /\ dofastuidl = FALSE /\ fastuidlcount = 0
    /\ fetchids = {}
    /\ fate = [m \in Msgs |-> "waiting"]
    /\ copies = [m \in Msgs |-> 0]
    /\ faults = 0

\* New mail; it becomes visible to the next session.
Arrive ==
    /\ next <= MaxMsg
    /\ mbox' = mbox \cup {next}
    /\ next' = next + 1
    /\ UNCHANGED <<accessed, marked, srv, pc, opt, loopVars, dropVars,
                   cursorVars, status, listVars, fastVars, fetchids,
                   deliverVars, faults>>

\* The server carries out QUIT: it removes what was marked.
ServerUpdate ==
    /\ pc = "quit" /\ alive /\ srv = "open"
    /\ mbox' = mbox \ marked
    /\ srv' = "update"
    /\ UNCHANGED <<next, accessed, marked, pc, opt, loopVars, dropVars,
                   cursorVars, status, listVars, fastVars, fetchids,
                   deliverVars, faults>>

-----------------------------------------------------------------------------
(* The process: start, termination, crash.                                 *)

\* Everything the process held in memory is gone.
LoseMemory ==
    /\ pc' = "down"
    /\ total' = 0 /\ lockouts' = 0
    /\ count' = 0 /\ drop' = [i \in 1..0 |-> NoMsg]
    /\ num' = 0 /\ last' = 0 /\ hi' = 0 /\ alive' = TRUE
    /\ result' = "none" /\ fetches' = 0 /\ status' = "none"
    /\ oldsaved' = EmptyList /\ newsaved' = EmptyList
    /\ oldndx' = EmptyNdx /\ newndx' = EmptyNdx /\ top' = 0
    /\ dofastuidl' = FALSE /\ fastuidlcount' = 0
    /\ marked' = {} /\ srv' = "open"

\* The user starts fetchmail, perhaps with other options than last time.
Boot ==
    /\ pc = "down"
    /\ opt' \in Options
    /\ oldsaved' = LoadedList(fetchids)
    /\ pc' = "asleep"
    /\ UNCHANGED <<serverVars, loopVars, dropVars, cursorVars, status,
                   newsaved, oldndx, newndx, top, fastVars, fetchids,
                   deliverVars, faults>>

\* terminate_run: SIGTERM and its like write the id file from oldsaved,
\* wherever the session is, and exit.
Terminate ==
    /\ pc # "down"
    /\ Fault
    /\ fetchids' = SavedIds(oldsaved)
    /\ LoseMemory
    /\ UNCHANGED <<mbox, next, accessed, opt, deliverVars>>

Crash ==
    /\ pc # "down"
    /\ Fault
    /\ LoseMemory
    /\ UNCHANGED <<mbox, next, accessed, opt, fetchids, deliverVars>>

-----------------------------------------------------------------------------
(* Connecting and finding out what is new.                                 *)

StartPoll ==
    /\ pc = "asleep"
    /\ pc' = "login"
    /\ dofastuidl' = FALSE
    /\ UNCHANGED <<serverVars, opt, loopVars, dropVars, cursorVars, status,
                   listVars, fastuidlcount, fetchids, deliverVars, faults>>

\* The server numbers the messages of the maildrop in order of arrival.
Login ==
    /\ pc = "login"
    /\ \E n \in 0..MaxMsg :
          /\ n = Cardinality(mbox)
          /\ \E d \in [1..n -> mbox] :
                /\ \A i, j \in 1..n : i < j => d[i] < d[j]
                /\ drop' = d
          /\ count' = n
    /\ pc' = "range" /\ status' = "none"
    /\ UNCHANGED <<serverVars, opt, loopVars, cursorVars, listVars, fastVars,
                   fetchids, deliverVars, faults>>

\* No connection, no authentication, or the maildrop is locked.
LoginFails ==
    /\ pc = "login"
    /\ Fault
    /\ \E st \in {"error", "lockbusy"} : CloseSession(st)
    /\ UNCHANGED <<mbox, next, accessed, opt, dropVars, listVars, fastVars,
                   fetchids, deliverVars>>

\* pop3_getrange starts by emptying the new list; with messages to look at it
\* also points both indexes at the new numbering.
ClearNew == newsaved' = EmptyList /\ newndx' = EmptyNdx
PointIndexes == top' = count

\* A build that does not call set_uid_db_num_pos_0.
FreshNdx_Stale == oldndx

\* set_uid_db_num_pos_0 also makes the old list's index empty.
FreshNdx == EmptyNdx

FirstMessage == num' = 1 /\ pc' = "check"

\* STAT was refused, or the connection died.
StatFails ==
    /\ pc = "range"
    /\ Fault
    /\ ClearNew
    /\ \/ /\ SendQuit("error")
          /\ UNCHANGED <<marked, srv, loopVars, cursorVars>>
       \/ CloseSession("error")
    /\ UNCHANGED <<mbox, next, accessed, opt, dropVars, oldsaved, oldndx, top,
                   fastVars, fetchids, deliverVars>>

NoMail ==
    /\ pc = "range" /\ count = 0
    /\ ClearNew
    /\ SendQuit("success")
    /\ UNCHANGED <<serverVars, opt, loopVars, dropVars, cursorVars, oldsaved,
                   oldndx, top, fastVars, fetchids, deliverVars, faults>>

\* With fetchall and no uidl, the lists are not consulted at all.
SkipListing ==
    /\ pc = "range" /\ count > 0
    /\ opt.fetchall /\ ~opt.uidl
    /\ ClearNew
    /\ FirstMessage
    /\ UNCHANGED <<serverVars, opt, loopVars, dropVars, last, hi, alive,
                   result, fetches, status, oldsaved, oldndx, top, fastVars,
                   fetchids, deliverVars, faults>>

WantListing == pc = "range" /\ count > 0 /\ (~opt.fetchall \/ opt.uidl)

\* A build that never falls back to the full listing.
UseFast_Always ==
    count > FastMin /\ ~opt.fetchall /\ ~opt.flush /\ opt.fastuidl > 0

\* A build that also trusts the binary search when it has to flush.
UseFast_EvenWithFlush ==
    /\ count > FastMin
    /\ ~opt.fetchall
    /\ opt.fastuidl > 0
    /\ opt.fastuidl = 1 \/ fastuidlcount # 0

UseFast ==
    /\ count > FastMin
    /\ ~opt.fetchall
    /\ ~opt.flush
    /\ opt.fastuidl > 0
    /\ opt.fastuidl = 1 \/ fastuidlcount # 0

UseLast == ~opt.uidl /\ HasLast

\* n is the highest number of a message that was ever retrieved, or 0.
IsLastReply(n) ==
    /\ n # 0 => drop[n] \in accessed
    /\ \A i \in (n + 1)..count : drop[i] \notin accessed

GetLast ==
    /\ WantListing /\ UseLast
    /\ ClearNew /\ PointIndexes /\ oldndx' = FreshNdx
    /\ dofastuidl' = UseFast
    /\ \E n \in 0..count : IsLastReply(n) /\ last' = n
    /\ FirstMessage
    /\ UNCHANGED <<serverVars, opt, loopVars, dropVars, hi, alive, result,
                   fetches, status, oldsaved, fastuidlcount, fetchids,
                   deliverVars, faults>>

StartFastUidl ==
    /\ WantListing /\ ~UseLast /\ UseFast
    /\ ClearNew /\ PointIndexes /\ oldndx' = FreshNdx
    /\ dofastuidl' = TRUE
    /\ last' = 0 /\ hi' = count + 1
    /\ pc' = "probe"
    /\ UNCHANGED <<serverVars, opt, loopVars, dropVars, num, alive, result,
                   fetches, status, oldsaved, fastuidlcount, fetchids,
                   deliverVars, faults>>

\* A UID reported for number i is entered into the old list.
EnterOld(m) == [oldsaved EXCEPT ![m] = ListedStatus(@)]

Try == (last + hi) \div 2

\* One step of the binary search for the first unseen message.
Probe ==
    /\ pc = "probe" /\ last < hi - 1
    /\ LET m == drop[Try]
           s == ListedStatus(oldsaved[m])
       IN /\ oldsaved' = EnterOld(m)
          /\ oldndx' = [oldndx EXCEPT ![Try] = m]
          /\ last' = IF s = "unseen" THEN last ELSE Try
          /\ hi' = IF s = "unseen" THEN Try ELSE hi
    /\ UNCHANGED <<serverVars, pc, opt, loopVars, dropVars, num, alive, result,
                   fetches, status, newsaved, newndx, top, fastVars, fetchids,
                   deliverVars, faults>>

ProbeFails ==
    /\ pc = "probe" /\ last < hi - 1
    /\ Fault
    /\ \/ /\ SendQuit("error")
          /\ UNCHANGED <<marked, srv, loopVars, cursorVars>>
       \/ CloseSession("error")
    /\ UNCHANGED <<mbox, next, accessed, opt, dropVars, listVars, fastVars,
                   fetchids, deliverVars>>

ProbeDone ==
    /\ pc = "probe" /\ last >= hi - 1
    /\ FirstMessage
    /\ UNCHANGED <<serverVars, opt, loopVars, dropVars, last, hi, alive,
                   result, fetches, status, listVars, fastVars, fetchids,
                   deliverVars, faults>>

\* A build that remembers numbers for flushing only.
NeedNum_FlushOnly(l, i) == opt.flush

\* The numbers worth remembering: messages to be fetched or flushed.
NeedNum(l, i) == l[drop[i]] = "unseen" \/ opt.flush

\* The first k lines of the UIDL reply are entered into both lists.
EnterListing(k) ==
    LET listed == {drop[i] : i \in 1..k}
        old == [m \in Msgs |-> IF m \in listed THEN ListedStatus(oldsaved[m])
                               ELSE oldsaved[m]]
        Ndx(empty) == [i \in Nums |-> IF i <= k /\ NeedNum(old, i) THEN drop[i]
                                      ELSE empty[i]]
    IN /\ oldsaved' = old
       /\ newsaved' = [m \in Msgs |-> IF m \in listed THEN old[m] ELSE "none"]
       /\ oldndx' = Ndx(FreshNdx)
       /\ newndx' = Ndx(EmptyNdx)
       /\ PointIndexes

ListUids ==
    /\ WantListing /\ ~UseLast /\ ~UseFast
    /\ dofastuidl' = FALSE
    /\ EnterListing(count)
    /\ FirstMessage
    /\ UNCHANGED <<serverVars, opt, loopVars, dropVars, last, hi, alive,
                   result, fetches, status, fastuidlcount, fetchids,
                   deliverVars, faults>>

\* The reply breaks off after k lines.  At end of file the loop just ends and
\* pop3_getrange returns success over a dead connection; a line that does not
\* parse makes it return PS_ERROR; a refused UIDL ends likewise (k = 0) when
\* the TOP-based fallback is refused too.
ListingBreaks ==
    /\ WantListing /\ ~UseLast /\ ~UseFast
    /\ Fault
    /\ dofastuidl' = FALSE
    /\ \E k \in 0..(count - 1) : EnterListing(k)
    /\ \/ FirstMessage /\ alive' = FALSE /\ UNCHANGED status
       \/ SendQuit("error") /\ UNCHANGED <<num, alive>>
    /\ UNCHANGED <<serverVars, opt, loopVars, dropVars, last, hi, result,
                   fetches, fastuidlcount, fetchids, deliverVars>>

-----------------------------------------------------------------------------
(* fetch_messages: the loop over the message numbers.                      *)

AdvanceLoop ==
    IF num = count THEN SendQuit("success") /\ UNCHANGED num
    ELSE pc' = "check" /\ num' = num + 1 /\ UNCHANGED status

\* The end of the loop body: stop at the fetch limit if messages remain.
NextMessage(f) ==
    IF num < count /\ MaxFetch > 0 /\ MaxFetch <= f
    THEN SendQuit("maxfetch") /\ UNCHANGED num
    ELSE AdvanceLoop

\* pop3_is_old has to ask the server: only the binary search leaves gaps.
NeedUidl ==
    /\ ~IsEmptyList(oldsaved)
    /\ dofastuidl /\ num > last /\ oldndx[num] = NoMsg

\* pop3_is_old, when it needs no command.
IsOld ==
    IF IsEmptyList(oldsaved) THEN num <= last
    ELSE IF dofastuidl
         THEN \/ num <= last
              \/ oldndx[num] # NoMsg /\ oldsaved[oldndx[num]] # "unseen"
         ELSE newndx[num] = NoMsg \/ newsaved[newndx[num]] # "unseen"

GoFlag(r) == result' = r /\ pc' = "flag"
GoGet == pc' = "get" /\ UNCHANGED result

CheckOld ==
    /\ pc = "check"
    /\ opt.fetchall \/ ~NeedUidl
    /\ IF ~opt.fetchall /\ IsOld THEN GoFlag("old") ELSE GoGet
    /\ UNCHANGED <<serverVars, opt, loopVars, dropVars, num, last, hi, alive,
                   fetches, status, listVars, fastVars, fetchids, deliverVars,
                   faults>>

\* UIDL n for one message; unlike the listing it leaves a deleted id alone.
CheckOldByUidl ==
    /\ pc = "check" /\ ~opt.fetchall /\ NeedUidl /\ alive
    /\ LET m == drop[num]
           s == IF oldsaved[m] = "none" THEN "unseen" ELSE oldsaved[m]
       IN /\ oldsaved' = [oldsaved EXCEPT ![m] = s]
          /\ oldndx' = [oldndx EXCEPT ![num] = m]
          /\ IF s # "unseen" THEN GoFlag("old") ELSE GoGet
    /\ UNCHANGED <<serverVars, opt, loopVars, dropVars, num, last, hi, alive,
                   fetches, status, newsaved, newndx, top, fastVars, fetchids,
                   deliverVars, faults>>

\* When UIDL n fails, or cannot be sent, the message is taken for old.
CheckOldFails ==
    /\ pc = "check" /\ ~opt.fetchall /\ NeedUidl
    /\ \/ alive /\ Fault /\ alive' \in BOOLEAN
       \/ ~alive /\ UNCHANGED <<alive, faults>>
    /\ GoFlag("old")
    /\ UNCHANGED <<serverVars, opt, loopVars, dropVars, num, last, hi, fetches,
                   status, listVars, fastVars, fetchids, deliverVars>>

TooLarge == opt.limit /\ drop[num] \in Big

\* LIST n says the message is above the size limit.
SkipOversized ==
    /\ pc = "get" /\ alive /\ TooLarge
    /\ GoFlag("toolarge")
    /\ UNCHANGED <<serverVars, opt, loopVars, dropVars, num, last, hi, alive,
                   fetches, status, listVars, fastVars, fetchids, deliverVars,
                   faults>>

\* The connection dies, or the server stays silent until the timeout.
SessionLost ==
    /\ \/ pc = "get" /\ ~alive /\ UNCHANGED faults
       \/ pc \in {"get", "ship"} /\ alive /\ Fault
    /\ CloseSession("error")
    /\ UNCHANGED <<mbox, next, accessed, opt, dropVars, listVars, fastVars,
                   fetchids, deliverVars>>

\* LIST n was refused (PS_PROTOCOL).
SizeFails ==
    /\ pc = "get" /\ alive
    /\ Fault
    /\ SendQuit("error")
    /\ UNCHANGED <<serverVars, opt, loopVars, dropVars, cursorVars, listVars,
                   fastVars, fetchids, deliverVars>>

\* TOP or RETR was refused: `continue', past the flags and the fetch limit.
RetrieveFails ==
    /\ pc = "get" /\ alive /\ ~TooLarge
    /\ Fault
    /\ AdvanceLoop
    /\ UNCHANGED <<serverVars, opt, loopVars, dropVars, last, hi, alive,
                   result, fetches, listVars, fastVars, fetchids, deliverVars>>

\* set_peek_capable: use TOP, which leaves no mark on the server.
Peek == ~opt.fetchall /\ (~opt.keep \/ opt.uidl)

\* The verdict f on a copy of m.  A refusal does not undo an acceptance.
Settle(m, f) == fate' = [fate EXCEPT ![m] = IF @ = "accepted" THEN @ ELSE f]
CountCopy(m) ==
    copies' = [copies EXCEPT ![m] = IF @ < MaxCopies THEN @ + 1 ELSE @]

\* pop3_fetch: the server notes that a message was retrieved with RETR.
FetchText(m) == accessed' = IF HasLast /\ ~Peek THEN accessed \cup {m} ELSE accessed

\* The headers have been read and the sink opened: the listener takes the
\* message text, or the message is refused, retained or put off already.
Retrieve ==
    /\ pc = "get" /\ alive /\ ~TooLarge
    /\ FetchText(drop[num])
    /\ \/ result' = "open" /\ UNCHANGED <<fate, faults>>
       \/ result' = "refused" /\ Settle(drop[num], "refused") /\ UNCHANGED faults
       \/ result' \in {"transient", "retained"} /\ Fault /\ UNCHANGED fate
    /\ pc' = "ship"
    /\ UNCHANGED <<mbox, next, marked, srv, opt, loopVars, dropVars, num, last,
                   hi, alive, fetches, status, listVars, fastVars, fetchids,
                   copies>>

\* End of message: close_sink returns TRUE when the listener accepted the
\* message, and also when it refused it for good.
Ship ==
    /\ pc = "ship" /\ result = "open"
    /\ \/ Settle(drop[num], "accepted") /\ CountCopy(drop[num])
       \/ Settle(drop[num], "refused") /\ UNCHANGED copies
    /\ GoFlag("shipped")
    /\ UNCHANGED <<serverVars, opt, loopVars, dropVars, num, last, hi, alive,
                   fetches, status, listVars, fastVars, fetchids, faults>>

\* A temporary error, a dead MDA or a lost listener: close_sink returns FALSE,
\* though the listener may have taken the message before it was lost.
ShipFails ==
    /\ pc = "ship" /\ result = "open"
    /\ Fault
    /\ \/ UNCHANGED <<fate, copies>>
       \/ Settle(drop[num], "accepted") /\ CountCopy(drop[num])
    /\ GoFlag("failed")
    /\ UNCHANGED <<serverVars, opt, loopVars, dropVars, num, last, hi, alive,
                   fetches, status, listVars, fastVars, fetchids>>

\* The timeout strikes after the listener took the message and before its
\* answer arrived.
ShipTimesOut ==
    /\ pc = "ship" /\ result = "open"
    /\ Fault
    /\ Settle(drop[num], "accepted") /\ CountCopy(drop[num])
    /\ CloseSession("error")
    /\ UNCHANGED <<mbox, next, accessed, opt, dropVars, listVars, fastVars,
                   fetchids>>

\* The body of a message that is not forwarded is read and thrown away.
Drain ==
    /\ pc = "ship" /\ result # "open"
    /\ pc' = "flag"
    /\ UNCHANGED <<serverVars, opt, loopVars, dropVars, cursorVars, status,
                   listVars, fastVars, fetchids, deliverVars, faults>>

FetchesAfter == IF CountsAsFetch(result) THEN fetches + 1 ELSE fetches

\* A build that updates only the list that will be thrown away on an error.
MarkSeen_NewListOnly ==
    /\ newsaved' = SetByNum(newsaved, newndx, num, "seen")
    /\ UNCHANGED oldsaved

\* mark_uid_seen: both lists, so that the mark survives an aborted session.
MarkSeen ==
    /\ newsaved' = SetByNum(newsaved, newndx, num, "seen")
    /\ oldsaved' = SetByNum(oldsaved, oldndx, num, "seen")

FlagLeave ==
    /\ pc = "flag" /\ Disposition(result, opt) = "leave"
    /\ NextMessage(FetchesAfter)
    /\ fetches' = FetchesAfter /\ result' = "none"
    /\ UNCHANGED <<serverVars, opt, loopVars, dropVars, last, hi, alive,
                   listVars, fastVars, fetchids, deliverVars, faults>>

FlagSeen ==
    /\ pc = "flag" /\ Disposition(result, opt) = "mark"
    /\ MarkSeen
    /\ NextMessage(FetchesAfter)
    /\ fetches' = FetchesAfter /\ result' = "none"
    /\ UNCHANGED <<serverVars, opt, loopVars, dropVars, last, hi, alive,
                   oldndx, newndx, top, fastVars, fetchids, deliverVars,
                   faults>>

\* The record pop3_delete looks up by number once DELE has succeeded.
DeleteRecord == IF dofastuidl THEN oldndx[num] ELSE newndx[num]

\* A message deleted for its size alone is discarded on the user's order.
SettleDiscarded ==
    IF result = "toolarge" THEN Settle(drop[num], "discarded") ELSE UNCHANGED fate

FlagDelete ==
    /\ pc = "flag" /\ Disposition(result, opt) = "delete" /\ alive
    /\ DeleteRecord # NoMsg
    /\ newsaved' = SetByNum(newsaved, newndx, num,
                            IF dofastuidl THEN "seen" ELSE "deleted")
    /\ oldsaved' = SetByNum(oldsaved, oldndx, num,
                            IF dofastuidl THEN "deleted" ELSE "seen")
    /\ marked' = marked \cup {drop[num]}
    /\ SettleDiscarded
    /\ NextMessage(FetchesAfter)
    /\ fetches' = FetchesAfter /\ result' = "none"
    /\ UNCHANGED <<mbox, next, accessed, srv, opt, loopVars, dropVars, last,
                   hi, alive, oldndx, newndx, top, fastVars, fetchids, copies,
                   faults>>

\* pop3_delete does not expect that there is no record: the process dies.
FlagDeleteNull ==
    /\ pc = "flag" /\ Disposition(result, opt) = "delete" /\ alive
    /\ DeleteRecord = NoMsg
    /\ LoseMemory
    /\ UNCHANGED <<mbox, next, accessed, opt, fetchids, deliverVars, faults>>

\* DELE was refused (PS_TRANSIENT), or its reply was lost.  The UID has been
\* marked seen before the command was sent.
FlagDeleteFails ==
    /\ pc = "flag" /\ Disposition(result, opt) = "delete"
    /\ MarkSeen
    /\ SettleDiscarded
    /\ \/ /\ alive /\ Fault
          /\ SendQuit("error")
          /\ UNCHANGED <<marked, srv, loopVars, cursorVars>>
       \/ /\ IF alive THEN Fault ELSE UNCHANGED faults
          /\ CloseSession("error")
    /\ UNCHANGED <<mbox, next, accessed, opt, dropVars, oldndx, newndx, top,
                   fastVars, fetchids, copies>>

-----------------------------------------------------------------------------
(* The end of the session and of the poll.                                 *)

\* QUIT succeeded: deletions are certain, expunge_uids notes it.
QuitDone ==
    /\ pc = "quit" /\ alive /\ srv = "update"
    /\ IF dofastuidl
       THEN oldsaved' = Expunged(oldsaved) /\ UNCHANGED newsaved
       ELSE newsaved' = Expunged(newsaved) /\ UNCHANGED oldsaved
    /\ CloseSession(IF status = "success" /\ fetches = 0 THEN "nomail" ELSE status)
    /\ UNCHANGED <<mbox, next, accessed, opt, dropVars, oldndx, newndx, top,
                   fastVars, fetchids, deliverVars, faults>>

\* QUIT was refused, or its reply never came, whether or not the server has
\* removed the messages.
QuitFails ==
    /\ pc = "quit"
    /\ IF alive THEN Fault ELSE UNCHANGED faults
    /\ CloseSession("error")
    /\ UNCHANGED <<mbox, next, accessed, opt, dropVars, listVars, fastVars,
                   fetchids, deliverVars>>

GoodPoll == status \in {"success", "nomail", "maxfetch"}

\* uid_swap_lists after a good poll that saw UIDs, else uid_discard_new_list.
SwapLists == GoodPoll /\ ~IsEmptyList(newsaved)

PolledList == IF SwapLists THEN newsaved ELSE oldsaved
PolledNdx == IF SwapLists THEN newndx ELSE oldndx

\* After query_host: rotate fastuidlcount, settle the lists, forget the
\* numbers, and write the id file.  A failed write leaves the old file.
EndPoll ==
    /\ pc = "polled"
    /\ fastuidlcount' = IF opt.fastuidl > 0 THEN (fastuidlcount + 1) % opt.fastuidl
                        ELSE fastuidlcount
    /\ oldsaved' = PolledList
    /\ oldndx' = ResetNdx(PolledNdx)
    /\ newsaved' = EmptyList /\ newndx' = EmptyNdx
    /\ \/ fetchids' = SavedIds(PolledList) /\ UNCHANGED faults
       \/ fetchids' = fetchids /\ Fault
    /\ pc' = "asleep" /\ status' = "none"
    /\ total' = 0 /\ lockouts' = 0
    /\ count' = 0 /\ drop' = [i \in 1..0 |-> NoMsg]
    /\ UNCHANGED <<serverVars, opt, cursorVars, top, dofastuidl, deliverVars>>

\* Without a poll interval the process ends here, by terminate_run.
EndRun ==
    /\ pc = "polled"
    /\ \/ fetchids' = SavedIds(PolledList) /\ UNCHANGED faults
       \/ fetchids' = fetchids /\ Fault
    /\ LoseMemory
    /\ UNCHANGED <<mbox, next, accessed, opt, deliverVars>>

-----------------------------------------------------------------------------

\* What fetchmail does by itself.
ClientStep ==
    \/ Boot \/ StartPoll \/ Login \/ NoMail \/ SkipListing \/ GetLast
    \/ StartFastUidl \/ Probe \/ ProbeDone \/ ListUids \/ CheckOld
    \/ CheckOldByUidl \/ SkipOversized \/ Retrieve \/ Ship \/ Drain
    \/ FlagLeave \/ FlagSeen \/ FlagDelete \/ FlagDeleteNull \/ QuitDone
    \/ EndPoll \/ EndRun

\* What goes wrong, and how the code takes it.
FaultStep ==
    \/ Terminate \/ Crash \/ LoginFails \/ StatFails \/ ProbeFails
    \/ ListingBreaks \/ CheckOldFails \/ SessionLost \/ SizeFails
    \/ RetrieveFails \/ ShipFails \/ ShipTimesOut \/ FlagDeleteFails
    \/ QuitFails

Next == Arrive \/ ServerUpdate \/ ClientStep \/ FaultStep

Spec == Init /\ [][Next]_vars

DeadConnection ==
    ~alive /\ (SessionLost \/ CheckOldFails \/ FlagDeleteFails \/ QuitFails)

\* The process and the server do not stop; a process that ended is started
\* again (by the daemon's owner or cron); a dead connection is noticed, since
\* every read fails on it.
FairSpec ==
    Spec /\ WF_vars(ClientStep) /\ WF_vars(ServerUpdate)
         /\ WF_vars(DeadConnection)

-----------------------------------------------------------------------------
(* Properties.                                                             *)

Settled(m) == fate[m] # "waiting"

InLoop == pc \in {"probe", "check", "get", "ship", "flag"}

\* No mail is lost: what has been removed from the server (by ServerUpdate
\* after DELE and QUIT) was delivered, refused for good, or discarded on the
\* user's order, over all crashes, lost replies and restarts.
RemovedIsSettled == \A m \in 1..(next - 1) : m \notin mbox => Settled(m)

\* A UID is marked as dealt with, in memory or in the id file, only if its
\* message is; a wrong mark would make pop3_is_old skip the message for good.
SeenIsSettled ==
    \A m \in Msgs :
        \/ oldsaved[m] \notin {"none", "unseen"}
        \/ newsaved[m] \notin {"none", "unseen"}
        \/ m \in fetchids
        => Settled(m)

\* A message that pop3_is_old skips on a live connection after a full listing
\* has been dealt with, although "not in the index" also counts as old there.
SkippedIsSettled ==
    pc = "flag" /\ result = "old" /\ alive /\ ~dofastuidl => Settled(drop[num])

\* When DELE succeeds, pop3_delete finds the record it writes to.
DeleteHasRecord ==
    pc = "flag" /\ alive /\ Disposition(result, opt) = "delete"
        => DeleteRecord # NoMsg

\* While messages are handled by number, the indexes name the messages the
\* server knows under these numbers, though numbers shift between sessions
\* and uid_reset_num can leave an entry of an earlier session behind.
IndexMatchesServer ==
    InLoop => \A i \in 1..count : /\ oldndx[i] \in {NoMsg, drop[i]}
                                  /\ newndx[i] \in {NoMsg, drop[i]}

\* Without fetchall, and with uidl where the server has LAST, every further
\* copy of a message handed to the listener is owed to a fault: a fault-free
\* history delivers exactly once.
CopiesNeedFaults == \A m \in Msgs : copies[m] <= 1 + faults

\* Between polls, and without faults, a delivered message that is still on
\* the server is one that was kept, and it is remembered as seen, through
\* swapped lists, the binary search and restarts with other options.
KeptIsRemembered ==
    faults = 0 /\ pc = "asleep"
        => \A m \in mbox : fate[m] = "accepted" => oldsaved[m] = "seen"

\* Soft bounce mode leaves on the server what could not be delivered: every
\* message deleted in a session was accepted by the listener.
\* The code does not satisfy this: Pop3Disagree.cfg and README.md, "Known disagreements".
SoftBounceKeeps ==
    opt.softbounce => \A m \in marked : fate[m] = "accepted"

\* Every message within the size limit is eventually delivered or refused:
\* skips, aborted sessions and the gaps of the binary search are made up for.
\* Two kinds of users get no such promise.  Without uidl a message whose
\* delivery failed is behind the one LAST names; with fetchall pop3_delete
\* may meet a number without a record, and the process dies in every poll.
EventuallySettled ==
    \A m \in Msgs \ Big :
        (m < next) ~> (Settled(m) \/ ~opt.uidl \/ opt.fetchall)

\* Polls are at-least-once transfers.
MT == INSTANCE MailTransfer WITH box <- mbox, ids <- fetchids, Oversized <- Big
Transfer == MT!Spec
=============================================================================
