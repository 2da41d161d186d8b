--------------------------- MODULE Pop3PollProofs ---------------------------
(***************************************************************************)
(* Proofs about Pop3Poll, for every number of messages, faults and copies, *)
(* every set of options and every size of the binary search threshold.     *)
(***************************************************************************)
EXTENDS Pop3Poll, FiniteSetTheorems, TLAPS

-----------------------------------------------------------------------------
(* Type correctness.                                                       *)

\* The loops' bounds are needed to know that drop[num] is a message.
Typed == TypeOK /\ CursorInRange

\* The fields of a user's option record have the types of the C struct query.
LEMMA OptionFacts ==
    \A o \in Options :
        /\ o.fetchlimit \in Nat /\ o.expunge \in Nat /\ o.fastuidl \in Nat
        /\ o.keep \in BOOLEAN /\ o.flush \in BOOLEAN /\ o.fetchall \in BOOLEAN
        /\ o.uidl \in BOOLEAN /\ o.limit \in BOOLEAN
        /\ o.limitflush \in BOOLEAN /\ o.softbounce \in BOOLEAN
  BY OptionsAssumption DEF OptionType

\* The empty UID list and the empty number index are well-typed.
LEMMA EmptyTyped ==
    /\ EmptyList \in [Msgs -> UidStatus]
    /\ EmptyNdx \in [Nums -> Msgs \cup {NoMsg}]
    /\ [i \in 1..0 |-> NoMsg] \in [1..0 -> Msgs]
  BY DEF EmptyList, EmptyNdx, UidStatus

\* The status a listed UID gets in pop3_getrange is a UID status.
LEMMA StatusTyped ==
    /\ \A s \in UidStatus : ListedStatus(s) \in UidStatus
    /\ {"none", "unseen", "seen", "deleted", "expunged"} \subseteq UidStatus
  BY DEF ListedStatus, UidStatus

\* Setting a status through the number index keeps a UID list well-typed.
LEMMA SetByNumTyped ==
    ASSUME NEW l \in [Msgs -> UidStatus], NEW ndx \in [Nums -> Msgs \cup {NoMsg}],
           NEW i \in Nums, NEW s \in UidStatus
    PROVE  SetByNum(l, ndx, i, s) \in [Msgs -> UidStatus]
  BY DEF SetByNum

\* A machine on which fetchmail has never run is well-typed.
LEMMA InitTyped == Init => Typed
  <1> SUFFICES ASSUME Init PROVE Typed
    OBVIOUS
  <1>0. ServerType
    BY BoundsAssumption DEF Init, ServerType
  <1>1. ControlType
    BY DEF Init, ControlType, PCs, Statuses
  <1>2. CounterType
    BY BoundsAssumption DEF Init, CounterType
  <1>3. DropType /\ ListType
    BY BoundsAssumption, EmptyTyped DEF Init, DropType, ListType
  <1>4. DeliveryType
    BY DEF Init, DeliveryType, Fates
  <1>5. CursorInRange
    BY DEF Init, CursorInRange
  <1> QED
    BY <1>0, <1>1, <1>2, <1>3, <1>4, <1>5 DEF Typed, TypeOK

\* Entering the first lines of a UIDL reply (pop3_getrange) keeps types.
LEMMA ListingTyped ==
    ASSUME Typed, NEW k \in 0..count, EnterListing(k)
    PROVE  ListType'
  <1>2. oldsaved' \in [Msgs -> UidStatus]
    BY StatusTyped DEF EnterListing, Typed, TypeOK, ListType
  <1>3. newsaved' \in [Msgs -> UidStatus]
    BY StatusTyped DEF EnterListing, Typed, TypeOK, ListType
  <1>4. \A i \in Nums : i <= k => drop[i] \in Msgs
    BY BoundsAssumption DEF Typed, TypeOK, DropType, Nums
  <1>5. oldndx' \in [Nums -> Msgs \cup {NoMsg}]
    BY <1>4 DEF EnterListing, FreshNdx, EmptyNdx
  <1>6. newndx' \in [Nums -> Msgs \cup {NoMsg}]
    BY <1>4 DEF EnterListing, FreshNdx, EmptyNdx
  <1>7. QED
    BY <1>2, <1>3, <1>5, <1>6
    DEF EnterListing, PointIndexes, Typed, TypeOK, DropType, ListType

\* So does the return from do_session into do_protocol.
LEMMA CloseTyped ==
    ASSUME Typed, NEW st \in Statuses, CloseSession(st)
    PROVE  /\ marked' \subseteq Msgs /\ srv' \in {"open", "update"}
           /\ total' \in Nat /\ lockouts' \in Nat /\ fetches' \in Nat
           /\ num' \in Nat /\ last' \in Nat /\ hi' \in Nat
           /\ alive' \in BOOLEAN /\ result' \in Results \cup {"none", "open"}
           /\ status' \in Statuses
           /\ pc' \in {"login", "polled"}
  <1>1. total' \in Nat
    BY OptionFacts DEF CloseSession, TotalAfter, MaxFetch, MultiSession, Typed,
       TypeOK, ControlType, CounterType
  <1>2. lockouts' \in Nat
    BY DEF CloseSession, Typed, TypeOK, CounterType
  <1> QED
    BY <1>1, <1>2 DEF CloseSession

\* A verdict of the listener is a fate, and copies stay natural numbers.
LEMMA VerdictTyped ==
    ASSUME DeliveryType, NEW m \in Msgs
    PROVE  /\ \A f \in Fates : Settle(m, f) => fate' \in [Msgs -> Fates]
           /\ CountCopy(m) => copies' \in [Msgs -> Nat]
  <1>1. \A f \in Fates : Settle(m, f) => fate' \in [Msgs -> Fates]
    BY DEF DeliveryType, Settle
  <1>2. CountCopy(m) => copies' \in [Msgs -> Nat]
    BY BoundsAssumption DEF DeliveryType, CountCopy
  <1> QED
    BY <1>1, <1>2

\* The end of the process leaves a well-typed state.
LEMMA MemoryLostTyped ==
    ASSUME Typed, LoseMemory, opt' \in Options, mbox' = mbox, next' = next,
           accessed' = accessed, faults' \in 0..MaxFaults, DeliveryType'
    PROVE  Typed'
  <1>1. ServerType'
    BY DEF LoseMemory, Typed, TypeOK, ServerType
  <1>2. ControlType'
    BY DEF LoseMemory, ControlType, PCs, Statuses
  <1>3. CounterType'
    BY DEF LoseMemory, CounterType
  <1>4. DropType' /\ ListType'
    BY BoundsAssumption, EmptyTyped DEF LoseMemory, DropType, ListType
  <1>5. CursorInRange'
    BY DEF LoseMemory, CursorInRange
  <1> QED
    BY <1>1, <1>2, <1>3, <1>4, <1>5 DEF Typed, TypeOK

\* Every step of fetchmail keeps types and keeps its loops in the mailbox.
LEMMA ClientTyped == Typed /\ ClientStep => Typed'
  <1> SUFFICES ASSUME Typed, ClientStep PROVE Typed'
    OBVIOUS
  <1> USE BoundsAssumption, EmptyTyped
      DEF Typed, TypeOK, ServerType, ControlType, CounterType, DropType,
          ListType, DeliveryType, CursorInRange, PCs, serverVars, loopVars,
          dropVars, cursorVars, listVars, fastVars, deliverVars
  <1>1. CASE Boot
    <2>1. oldsaved' \in [Msgs -> UidStatus]
      BY <1>1, StatusTyped DEF Boot, LoadedList
    <2> QED
      BY <1>1, <2>1 DEF Boot
  <1>2. CASE StartPoll
    BY <1>2 DEF StartPoll
  <1>3. CASE Login
    BY <1>3 DEF Login, Statuses
  <1>4. CASE NoMail
    BY <1>4 DEF NoMail, ClearNew, SendQuit, Statuses
  <1>5. CASE SkipListing
    BY <1>5 DEF SkipListing, ClearNew, FirstMessage
  <1>6. CASE GetLast
    <2>1. last' \in Nat
      BY <1>6 DEF GetLast
    <2> QED
      BY <1>6, <2>1 DEF GetLast, WantListing, ClearNew, PointIndexes, FreshNdx, FirstMessage, UseFast
  <1>7. CASE StartFastUidl
    BY <1>7 DEF StartFastUidl, WantListing, ClearNew, PointIndexes, FreshNdx
  <1>8. CASE Probe
    <2>1. Try \in 1..count /\ Try \in Nums /\ drop[Try] \in Msgs
      BY <1>8 DEF Probe, Try, Nums
    <2>2. oldsaved' \in [Msgs -> UidStatus]
      BY <1>8, <2>1, StatusTyped DEF Probe, EnterOld
    <2>3. oldndx' \in [Nums -> Msgs \cup {NoMsg}]
      BY <1>8, <2>1 DEF Probe
    <2>4. last' \in Nat /\ hi' \in Nat /\ hi' <= count + 1
      BY <1>8, <2>1 DEF Probe
    <2> QED
      BY <1>8, <2>2, <2>3, <2>4 DEF Probe
  <1>9. CASE ProbeDone
    BY <1>9 DEF ProbeDone, FirstMessage
  <1>10. CASE ListUids
    <2>1. EnterListing(count) /\ count \in 0..count
      BY <1>10 DEF ListUids
    <2>2. ListType'
      BY <2>1, ListingTyped
    <2>3. ServerType' /\ ControlType' /\ CounterType'
      BY <1>10 DEF ListUids, FirstMessage
    <2>4. DropType' /\ DeliveryType' /\ CursorInRange'
      BY <1>10 DEF ListUids, FirstMessage, WantListing
    <2> QED
      BY <2>2, <2>3, <2>4
  <1>11. CASE CheckOld
    BY <1>11 DEF CheckOld, GoFlag, GoGet, Results
  <1>12. CASE CheckOldByUidl
    <2>1. num \in Nums /\ drop[num] \in Msgs
      BY <1>12 DEF CheckOldByUidl, Nums
    <2>2. oldsaved' \in [Msgs -> UidStatus]
      BY <1>12, <2>1, StatusTyped DEF CheckOldByUidl
    <2>3. oldndx' \in [Nums -> Msgs \cup {NoMsg}]
      BY <1>12, <2>1 DEF CheckOldByUidl
    <2> QED
      BY <1>12, <2>2, <2>3 DEF CheckOldByUidl, GoFlag, GoGet, Results
  <1>13. CASE SkipOversized
    BY <1>13 DEF SkipOversized, GoFlag, Results
  <1>14. CASE Retrieve
    <2>1. drop[num] \in Msgs
      BY <1>14 DEF Retrieve, FetchText
    <2>2. fate' \in [Msgs -> Fates]
      BY <1>14, <2>1 DEF Retrieve, FetchText, Settle, Fates
    <2>3. result' \in Results \cup {"none", "open"} /\ faults' \in 0..MaxFaults
      BY <1>14 DEF Retrieve, FetchText, Fault, Results
    <2> QED
      BY <1>14, <2>1, <2>2, <2>3 DEF Retrieve, FetchText
  <1>15. CASE Ship
    <2>1. drop[num] \in Msgs
      BY <1>15 DEF Ship
    <2>2. fate' \in [Msgs -> Fates] /\ copies' \in [Msgs -> Nat]
      BY <1>15, <2>1, VerdictTyped DEF Ship, Fates
    <2> QED
      BY <1>15, <2>2 DEF Ship, GoFlag, Results
  <1>16. CASE Drain
    BY <1>16 DEF Drain
  <1>17. CASE FlagLeave
    BY <1>17 DEF FlagLeave, NextMessage, AdvanceLoop, SendQuit, FetchesAfter, Statuses
  <1>18. CASE FlagSeen
    <2>1. num \in Nums
      BY <1>18 DEF FlagSeen, Nums
    <2>2. oldsaved' \in [Msgs -> UidStatus] /\ newsaved' \in [Msgs -> UidStatus]
      BY <1>18, <2>1, SetByNumTyped, StatusTyped DEF FlagSeen, MarkSeen
    <2> QED
      BY <1>18, <2>2 DEF FlagSeen, NextMessage, AdvanceLoop, SendQuit, FetchesAfter, Statuses
  <1>19. CASE FlagDelete
    <2>1. num \in Nums /\ drop[num] \in Msgs
      BY <1>19 DEF FlagDelete, Nums
    <2>2. oldsaved' \in [Msgs -> UidStatus] /\ newsaved' \in [Msgs -> UidStatus]
      BY <1>19, <2>1, SetByNumTyped, StatusTyped DEF FlagDelete
    <2>3. fate' \in [Msgs -> Fates]
      BY <1>19, <2>1 DEF FlagDelete, SettleDiscarded, Settle, Fates
    <2> QED
      BY <1>19, <2>1, <2>2, <2>3 DEF FlagDelete, NextMessage, AdvanceLoop, SendQuit, FetchesAfter, Statuses
  <1>20. CASE FlagDeleteNull
    BY <1>20, MemoryLostTyped DEF FlagDeleteNull
  <1>21. CASE QuitDone
    <2>1. oldsaved' \in [Msgs -> UidStatus] /\ newsaved' \in [Msgs -> UidStatus]
      BY <1>21, StatusTyped DEF QuitDone, Expunged
    <2> QED
      BY <1>21, <2>1, CloseTyped DEF QuitDone, Statuses
  <1>22. CASE EndPoll
    <2>1. /\ oldsaved' \in [Msgs -> UidStatus]
          /\ oldndx' \in [Nums -> Msgs \cup {NoMsg}]
      BY <1>22 DEF EndPoll, PolledList, PolledNdx, ResetNdx
    <2>2. fetchids' \subseteq Msgs /\ faults' \in 0..MaxFaults
      BY <1>22 DEF EndPoll, SavedIds, Fault
    <2>3. fastuidlcount' \in Nat
      BY <1>22, OptionFacts DEF EndPoll
    <2> QED
      BY <1>22, <2>1, <2>2, <2>3 DEF EndPoll, Statuses
  <1>23. CASE EndRun
    <2>1. fetchids' \subseteq Msgs /\ faults' \in 0..MaxFaults
      BY <1>23 DEF EndRun, SavedIds, Fault
    <2> QED
      BY <1>23, <2>1, MemoryLostTyped DEF EndRun
  <1> QED
    BY <1>1, <1>2, <1>3, <1>4, <1>5, <1>6, <1>7, <1>8, <1>9, <1>10, <1>11,
       <1>12, <1>13, <1>14, <1>15, <1>16, <1>17, <1>18, <1>19, <1>20, <1>21,
       <1>22, <1>23 DEF ClientStep

\* So does every fault, with the code's answer to it.
LEMMA FaultTyped == Typed /\ FaultStep => Typed'
  <1> SUFFICES ASSUME Typed, FaultStep PROVE Typed'
    OBVIOUS
  <1>0. Fault => faults' \in 0..MaxFaults
    BY BoundsAssumption DEF Fault, Typed, TypeOK, CounterType
  <1> USE BoundsAssumption, EmptyTyped, <1>0
      DEF Typed, TypeOK, ServerType, ControlType, CounterType, DropType,
          ListType, DeliveryType, CursorInRange, PCs, Statuses, serverVars,
          loopVars, dropVars, cursorVars, listVars, fastVars, deliverVars
  <1>1. CASE Terminate
    BY <1>1, MemoryLostTyped DEF Terminate, SavedIds
  <1>2. CASE Crash
    BY <1>2, MemoryLostTyped DEF Crash
  <1>3. CASE LoginFails
    BY <1>3, CloseTyped DEF LoginFails
  <1>4. CASE StatFails
    <2>1. CASE SendQuit("error") /\ UNCHANGED <<marked, srv, loopVars, cursorVars>>
      BY <1>4, <2>1 DEF StatFails, ClearNew, SendQuit
    <2>2. CASE CloseSession("error")
      BY <1>4, <2>2, CloseTyped DEF StatFails, ClearNew
    <2> QED
      BY <1>4, <2>1, <2>2 DEF StatFails
  <1>5. CASE ProbeFails
    <2>1. CASE SendQuit("error") /\ UNCHANGED <<marked, srv, loopVars, cursorVars>>
      BY <1>5, <2>1 DEF ProbeFails, SendQuit
    <2>2. CASE CloseSession("error")
      BY <1>5, <2>2, CloseTyped DEF ProbeFails
    <2> QED
      BY <1>5, <2>1, <2>2 DEF ProbeFails
  <1>6. CASE ListingBreaks
    <2>1. PICK k \in 0..count : EnterListing(k)
      BY <1>6 DEF ListingBreaks
    <2>2. ListType'
      BY <2>1, ListingTyped
    <2>3. ServerType' /\ ControlType'
      BY <1>6 DEF ListingBreaks, FirstMessage, SendQuit
    <2>4. CounterType'
      <3>1. num' \in Nat
        BY <1>6 DEF ListingBreaks, FirstMessage
      <3> QED
        BY <1>6, <3>1 DEF ListingBreaks
    <2>5. DropType' /\ DeliveryType'
      BY <1>6 DEF ListingBreaks
    <2>6. CursorInRange'
      BY <1>6 DEF ListingBreaks, FirstMessage, SendQuit, WantListing
    <2> QED
      BY <2>2, <2>3, <2>4, <2>5, <2>6
  <1>7. CASE CheckOldFails
    BY <1>7 DEF CheckOldFails, GoFlag, Results
  <1>8. CASE SessionLost
    BY <1>8, CloseTyped DEF SessionLost
  <1>9. CASE SizeFails
    BY <1>9 DEF SizeFails, SendQuit
  <1>10. CASE RetrieveFails
    BY <1>10 DEF RetrieveFails, AdvanceLoop, SendQuit
  <1>11. CASE ShipFails
    <2>1. drop[num] \in Msgs
      BY <1>11 DEF ShipFails
    <2>2. fate' \in [Msgs -> Fates] /\ copies' \in [Msgs -> Nat]
      BY <1>11, <2>1, VerdictTyped DEF ShipFails, Fates
    <2> QED
      BY <1>11, <2>2 DEF ShipFails, GoFlag, Results
  <1>12. CASE ShipTimesOut
    <2>1. drop[num] \in Msgs
      BY <1>12 DEF ShipTimesOut
    <2>2. fate' \in [Msgs -> Fates] /\ copies' \in [Msgs -> Nat]
      BY <1>12, <2>1, VerdictTyped DEF ShipTimesOut, Fates
    <2> QED
      BY <1>12, <2>2, CloseTyped DEF ShipTimesOut
  <1>13. CASE FlagDeleteFails
    <2>1. num \in Nums /\ drop[num] \in Msgs
      BY <1>13 DEF FlagDeleteFails, Nums
    <2>2. oldsaved' \in [Msgs -> UidStatus] /\ newsaved' \in [Msgs -> UidStatus]
      BY <1>13, <2>1, SetByNumTyped, StatusTyped DEF FlagDeleteFails, MarkSeen
    <2>3. fate' \in [Msgs -> Fates]
      BY <1>13, <2>1, VerdictTyped DEF FlagDeleteFails, SettleDiscarded, Fates
    <2>4. CASE SendQuit("error") /\ Fault /\ UNCHANGED <<marked, srv, loopVars, cursorVars>>
      BY <1>13, <2>2, <2>3, <2>4 DEF FlagDeleteFails, SendQuit
    <2>5. CASE CloseSession("error")
      BY <1>13, <2>2, <2>3, <2>5, CloseTyped DEF FlagDeleteFails
    <2> QED
      BY <1>13, <2>4, <2>5 DEF FlagDeleteFails
  <1>14. CASE QuitFails
    BY <1>14, CloseTyped DEF QuitFails
  <1> QED
    BY <1>1, <1>2, <1>3, <1>4, <1>5, <1>6, <1>7, <1>8, <1>9, <1>10, <1>11,
       <1>12, <1>13, <1>14 DEF FaultStep

\* So do new mail and the server's part of QUIT.
LEMMA ServerTyped == Typed /\ (Arrive \/ ServerUpdate) => Typed'
  <1> USE BoundsAssumption
      DEF Typed, TypeOK, ServerType, ControlType, CounterType, DropType,
          ListType, DeliveryType, CursorInRange, loopVars, dropVars,
          cursorVars, listVars, fastVars, deliverVars
  <1>1. Typed /\ Arrive => Typed'
    BY SMTT(40) DEF Arrive, Msgs
  <1>2. Typed /\ ServerUpdate => Typed'
    BY DEF ServerUpdate
  <1> QED
    BY <1>1, <1>2

\* A step that changes nothing keeps types.
LEMMA StutterTyped == Typed /\ UNCHANGED vars => Typed'
  BY DEF vars, Typed, TypeOK, ServerType, ControlType, CounterType, DropType,
     ListType, DeliveryType, CursorInRange, serverVars, loopVars, dropVars,
     cursorVars, listVars, fastVars, deliverVars

\* In every history of polls, faults and restarts the lists, indexes, counters
\* and the position in the session have their types; in particular the message
\* numbers fetch_messages works with are always numbers of this session.
THEOREM TypeCorrect == Spec => []TypeOK
  <1>1. Typed /\ [Next]_vars => Typed'
    BY ClientTyped, FaultTyped, ServerTyped, StutterTyped DEF Next
  <1>2. Typed => TypeOK
    BY DEF Typed
  <1> QED
    BY InitTyped, <1>1, <1>2, PTL DEF Spec

-----------------------------------------------------------------------------
(* No mail is lost, with every set of options but one: --flush driven by    *)
(* the server's LAST mark instead of UIDs.  The inductive invariant.        *)

InMessage == pc \in {"check", "get", "ship", "flag"}
InSession == InMessage \/ pc \in {"range", "probe"}

\* Mail has arrived in order and nothing is settled before it arrives.
ArrivalOrder ==
    /\ \A m \in mbox : m < next
    /\ \A m \in Msgs : m >= next => fate[m] = "waiting"

\* Only QUIT removes messages, so a session's messages are on the server.
DropInMailbox == InSession => \A i \in 1..count : drop[i] \in mbox

MarkedIsSettled == \A m \in marked : Settled(m)

\* When the binary search may be in use.
SearchMode ==
    /\ dofastuidl => ~opt.flush
    /\ pc = "down" => ~dofastuidl
    /\ pc = "probe" => dofastuidl /\ ~opt.fetchall

\* Processes that never list UIDs never index them either.
NoStrayIndex ==
    pc = "down" \/ (opt.fetchall /\ ~opt.uidl)
        => oldndx = EmptyNdx /\ newndx = EmptyNdx

\* The old and the new list are indexed alike after a full listing.
IndexesAgree == InMessage /\ ~opt.fetchall /\ ~dofastuidl => oldndx = newndx

LastIsReset == ~(InMessage \/ pc \in {"probe", "quit"}) => last = 0

Listing == InMessage /\ ~dofastuidl /\ ~UseLast /\ ~opt.fetchall

\* A full listing leaves out of the index only what has been dealt with, and
\* what is indexed is in the new list.
ListingComplete ==
    Listing => /\ last = 0
               /\ \A i \in 1..count :
                     /\ alive /\ newndx[i] = NoMsg => Settled(drop[i])
                     /\ newndx[i] # NoMsg => newsaved[newndx[i]] # "none"

\* What is known about the message at hand.
ResultSound ==
    /\ pc = "ship" => result \in {"open", "retained", "transient", "refused"}
    /\ pc = "flag" => result \in Results
    /\ pc \in {"ship", "flag"} /\ result = "refused" => Settled(drop[num])
    /\ pc = "flag" /\ result = "shipped" => Settled(drop[num])
    /\ pc = "flag" /\ result = "toolarge" => drop[num] \in Big
    /\ pc = "flag" /\ result = "old" => ~opt.fetchall
    /\ pc = "flag" /\ result = "old" /\ ~dofastuidl /\ ~UseLast
          => Settled(drop[num]) \/ (~alive /\ newndx[num] = NoMsg)

SafetyInv ==
    /\ RemovedIsSettled /\ SeenIsSettled /\ IndexMatchesServer
    /\ ArrivalOrder /\ DropInMailbox /\ MarkedIsSettled /\ SearchMode
    /\ NoStrayIndex /\ IndexesAgree /\ LastIsReset /\ ListingComplete
    /\ ResultSound

\* Flushing by the server's LAST mark alone is what loses mail.
SafeOptions == \A o \in Options : HasLast /\ o.flush => o.uidl

Inv == Typed /\ SafetyInv

-----------------------------------------------------------------------------
(* Facts about the operators.                                              *)

\* An empty list knows no UID, an empty index no message.
LEMMA EmptyFacts ==
    /\ \A m \in Msgs : EmptyList[m] = "none"
    /\ \A i \in Nums : EmptyNdx[i] = NoMsg
    /\ NoMsg \notin Msgs
  BY DEF EmptyList, EmptyNdx, NoMsg, Msgs

\* What has arrived, and what a session numbers, are messages.
LEMMA RangeFacts ==
    ASSUME Typed
    PROVE  /\ \A m \in 1..(next - 1) : m \in Msgs
           /\ \A i \in 1..count : i \in Nums /\ drop[i] \in Msgs
  BY BoundsAssumption
  DEF Typed, TypeOK, ServerType, DropType, Msgs, Nums

\* A verdict settles its message and unsettles none.
LEMMA SettleFacts ==
    ASSUME DeliveryType, NEW m \in Msgs, NEW f \in Fates \ {"waiting"},
           Settle(m, f)
    PROVE  /\ fate'[m] # "waiting"
           /\ \A x \in Msgs : fate[x] # "waiting" => fate'[x] # "waiting"
           /\ \A x \in Msgs \ {m} : fate'[x] = fate[x]
  BY DEF DeliveryType, Settle

\* Only a message that was forwarded, refused, too large or old is deleted,
\* and only one that was forwarded or refused is marked.
LEMMA DispositionFacts ==
    ASSUME NEW r \in Results, NEW o \in Options
    PROVE  /\ Disposition(r, o) = "delete"
                => r \in {"shipped", "refused", "toolarge"}
                   \/ (r = "old" /\ o.flush)
           /\ Disposition(r, o) = "mark" => r \in {"shipped", "refused"}
  BY OptionFacts
  DEF Results, Disposition, SuppressDelete, SuppressForward, WantDelete

\* Setting a status by number touches only the message with that number.
LEMMA SetByNumFacts ==
    ASSUME NEW l \in [Msgs -> UidStatus],
           NEW ndx \in [Nums -> Msgs \cup {NoMsg}], NEW i \in Nums,
           NEW s \in UidStatus
    PROVE  /\ \A m \in Msgs : m # ndx[i] => SetByNum(l, ndx, i, s)[m] = l[m]
           /\ \A m \in Msgs : SetByNum(l, ndx, i, s)[m] \in {l[m], s}
  BY DEF SetByNum

\* uid_reset_num never adds an entry.
LEMMA ResetFacts ==
    ASSUME NEW ndx
    PROVE  ResetNdx(ndx) \in {ndx, EmptyNdx}
  BY DEF ResetNdx

\* ListedStatus gives out "seen" only for what was marked before.
LEMMA ListedFacts ==
    ASSUME NEW s \in UidStatus
    PROVE  /\ ListedStatus(s) \in {"seen", "unseen"}
           /\ ListedStatus(s) = "seen" => s \notin {"none", "unseen"}
  BY DEF ListedStatus, UidStatus

\* What entering the first k lines of a UIDL reply does to the lists.
LEMMA ListingSafe ==
    ASSUME Inv, NEW k \in 0..count, EnterListing(k),
           UNCHANGED <<fate, dropVars, fetchids>>
    PROVE  /\ SeenIsSettled'
           /\ \A i \in 1..count : /\ oldndx'[i] \in {NoMsg, drop[i]}
                                  /\ newndx'[i] \in {NoMsg, drop[i]}
           /\ oldndx' = newndx'
           /\ \A i \in 1..k : newndx'[i] = NoMsg => Settled(drop[i])
           /\ \A i \in 1..count : newndx'[i] # NoMsg => newsaved'[newndx'[i]] # "none"
  <1> DEFINE listed == {drop[i] : i \in 1..k}
             old == [m \in Msgs |-> IF m \in listed THEN ListedStatus(oldsaved[m])
                                    ELSE oldsaved[m]]
  <1>1. /\ oldsaved \in [Msgs -> UidStatus]
        /\ \A i \in 1..count : i \in Nums /\ drop[i] \in Msgs
        /\ k <= count /\ count \in Nat /\ k \in Nat
    BY BoundsAssumption, RangeFacts DEF Inv, Typed, TypeOK, ListType, DropType
  <1>2. /\ oldsaved' = old
        /\ newsaved' = [m \in Msgs |-> IF m \in listed THEN old[m] ELSE "none"]
        /\ oldndx' = [i \in Nums |-> IF i <= k /\ NeedNum(old, i) THEN drop[i] ELSE NoMsg]
        /\ newndx' = oldndx'
    BY EmptyFacts DEF EnterListing, FreshNdx
  <1>3. \A m \in Msgs : m \in listed =>
            /\ old[m] \in {"seen", "unseen"}
            /\ old[m] = "seen" => oldsaved[m] \notin {"none", "unseen"}
    BY <1>1, ListedFacts
  <1>4. \A m \in Msgs : m \notin listed => old[m] = oldsaved[m]
    OBVIOUS
  <1>5. \A m \in Msgs : oldsaved[m] \notin {"none", "unseen"} => Settled(m)
    BY DEF Inv, SafetyInv, SeenIsSettled
  <1>6. \A i \in 1..k : i \in 1..count /\ drop[i] \in listed
    BY <1>1
  <1>7. SeenIsSettled'
    <2> SUFFICES ASSUME NEW m \in Msgs,
                        \/ oldsaved'[m] \notin {"none", "unseen"}
                        \/ newsaved'[m] \notin {"none", "unseen"}
                        \/ m \in fetchids'
                 PROVE  Settled(m)'
      BY DEF SeenIsSettled
    <2>1. m \in fetchids => Settled(m)
      BY DEF Inv, SafetyInv, SeenIsSettled
    <2>2. Settled(m)
      <3> HIDE DEF old, listed
      <3> QED BY <1>2, <1>3, <1>4, <1>5, <2>1
    <2> QED
      BY <2>2 DEF Settled
  <1>8. \A i \in 1..count : oldndx'[i] \in {NoMsg, drop[i]} /\ newndx'[i] \in {NoMsg, drop[i]}
    BY <1>1, <1>2
  <1>9. ASSUME NEW i \in 1..k, newndx'[i] = NoMsg PROVE Settled(drop[i])
    <2>1. i \in Nums /\ drop[i] \in Msgs /\ drop[i] \in listed /\ i <= k
      BY <1>1, <1>6
    <2>2. old[drop[i]] # "unseen"
      <3> HIDE DEF old, listed
      <3> QED BY <1>2, <1>9, <2>1, EmptyFacts DEF NeedNum
    <2> HIDE DEF old, listed
    <2> QED
      BY <2>1, <2>2, <1>3, <1>5
  <1>10. ASSUME NEW i \in 1..count, newndx'[i] # NoMsg PROVE newsaved'[newndx'[i]] # "none"
    <2>1. i \in Nums /\ i <= k /\ newndx'[i] = drop[i] /\ drop[i] \in Msgs
      BY <1>1, <1>2, <1>10
    <2>2. drop[i] \in listed
      BY <2>1, <1>1
    <2> HIDE DEF old, listed
    <2> QED
      BY <2>1, <2>2, <1>2, <1>3
  <1> HIDE DEF old, listed
  <1> QED
    BY <1>2, <1>7, <1>8, <1>9, <1>10

\* When DELE is about to be sent, the message has been dealt with, or has no
\* UID in either index because the listing broke off.
LEMMA DeleteSettles ==
    ASSUME Inv, SafeOptions, pc = "flag", Disposition(result, opt) = "delete",
           SettleDiscarded
    PROVE  /\ fate'[drop[num]] # "waiting"
              \/ (~alive /\ newndx[num] = NoMsg /\ oldndx[num] = NoMsg)
           /\ \A x \in Msgs : fate[x] # "waiting" => fate'[x] # "waiting"
           /\ \A x \in Msgs \ {drop[num]} : fate'[x] = fate[x]
  <1>1. drop[num] \in Msgs /\ result \in Results /\ opt \in Options
    BY RangeFacts DEF Inv, Typed, TypeOK, ControlType, CursorInRange, SafetyInv, ResultSound
  <1>2. CASE result = "toolarge"
    <2>1. Settle(drop[num], "discarded")
      BY <1>2 DEF SettleDiscarded
    <2> QED
      BY <1>1, <2>1, SettleFacts DEF Inv, Typed, TypeOK, Fates
  <1>3. CASE result \in {"shipped", "refused"}
    BY <1>1, <1>3 DEF SettleDiscarded, Inv, SafetyInv, ResultSound, Settled
  <1>4. CASE result = "old" /\ opt.flush
    <2>1. ~dofastuidl /\ ~UseLast /\ ~opt.fetchall
      BY <1>1, <1>4 DEF Inv, SafetyInv, SearchMode, SafeOptions, UseLast, ResultSound
    <2>2. Settled(drop[num]) \/ (~alive /\ newndx[num] = NoMsg)
      BY <1>4, <2>1 DEF Inv, SafetyInv, ResultSound
    <2>3. oldndx = newndx
      BY <2>1 DEF Inv, SafetyInv, IndexesAgree, InMessage
    <2> QED
      BY <1>4, <2>2, <2>3 DEF SettleDiscarded, Settled
  <1> QED
    BY <1>1, <1>2, <1>3, <1>4, DispositionFacts

\* A verdict on a message of the session disturbs neither what has been
\* removed nor what is still to come.
LEMMA VerdictSafe ==
    ASSUME Inv, NEW m \in mbox, mbox' = mbox, next' = next,
           \A x \in Msgs : fate[x] # "waiting" => fate'[x] # "waiting",
           \A x \in Msgs \ {m} : fate'[x] = fate[x],
           \A x \in marked' : x \in marked \/ (x \in Msgs /\ fate'[x] # "waiting")
    PROVE  RemovedIsSettled' /\ ArrivalOrder' /\ MarkedIsSettled'
  <1>1. /\ next \in Nat /\ marked \subseteq Msgs /\ m \in Msgs
        /\ \A x \in Msgs : x \in Nat
        /\ \A x \in 1..(next - 1) : x \in Msgs
    BY BoundsAssumption, RangeFacts DEF Inv, Typed, TypeOK, ServerType, Msgs
  <1>2. RemovedIsSettled'
    BY <1>1 DEF Inv, SafetyInv, RemovedIsSettled, Settled
  <1>3. ArrivalOrder'
    BY <1>1 DEF Inv, SafetyInv, ArrivalOrder
  <1>4. MarkedIsSettled'
    BY <1>1 DEF Inv, SafetyInv, MarkedIsSettled, Settled
  <1> QED
    BY <1>2, <1>3, <1>4

\* Marking the message at hand in both lists is right once it is settled.
LEMMA MarkSafe ==
    ASSUME Inv, pc = "flag", NEW s \in UidStatus \ {"none"},
           NEW t \in UidStatus \ {"none"},
           newsaved' = SetByNum(newsaved, newndx, num, s),
           oldsaved' = SetByNum(oldsaved, oldndx, num, t),
           fetchids' = fetchids,
           \A x \in Msgs : fate[x] # "waiting" => fate'[x] # "waiting",
           \/ fate'[drop[num]] # "waiting"
           \/ newndx[num] = NoMsg /\ oldndx[num] = NoMsg
    PROVE  /\ SeenIsSettled'
           /\ \A m \in Msgs : newsaved[m] # "none" => newsaved'[m] # "none"
  <1>1. num \in 1..count /\ num \in Nums /\ drop[num] \in Msgs
    BY RangeFacts DEF Inv, Typed, CursorInRange
  <1>2. /\ newsaved \in [Msgs -> UidStatus] /\ oldsaved \in [Msgs -> UidStatus]
        /\ newndx \in [Nums -> Msgs \cup {NoMsg}]
        /\ oldndx \in [Nums -> Msgs \cup {NoMsg}]
    BY DEF Inv, Typed, TypeOK, ListType
  <1>3. /\ \A m \in Msgs : m # newndx[num] => newsaved'[m] = newsaved[m]
        /\ \A m \in Msgs : newsaved'[m] \in {newsaved[m], s}
    BY <1>1, <1>2, SetByNumFacts, SMTT(40)
  <1>4. \A m \in Msgs : m # oldndx[num] => oldsaved'[m] = oldsaved[m]
    BY <1>1, <1>2, SetByNumFacts
  <1>5. newndx[num] \in {NoMsg, drop[num]} /\ oldndx[num] \in {NoMsg, drop[num]}
    BY <1>1 DEF Inv, SafetyInv, IndexMatchesServer, InLoop
  <1>6. SeenIsSettled'
    BY <1>3, <1>4, <1>5, EmptyFacts DEF Inv, SafetyInv, SeenIsSettled, Settled
  <1> QED
    BY <1>3, <1>6

\* Every step of fetchmail keeps the invariant.
LEMMA ClientSafe == Inv /\ SafeOptions /\ ClientStep => SafetyInv'
  <1> SUFFICES ASSUME Inv, SafeOptions, ClientStep PROVE SafetyInv'
    OBVIOUS
  <1> USE BoundsAssumption, OptionFacts, EmptyFacts, RangeFacts
      DEF Inv, Typed, TypeOK, ServerType, ControlType, CounterType, DropType,
          ListType, DeliveryType, CursorInRange, SafetyInv, InMessage,
          InSession, Settled, RemovedIsSettled, SeenIsSettled, InLoop,
          IndexMatchesServer, ArrivalOrder, DropInMailbox, MarkedIsSettled,
          SearchMode, NoStrayIndex, IndexesAgree, LastIsReset,
          ListingComplete, Listing, ResultSound, Results, UseLast, serverVars,
          loopVars, dropVars, cursorVars, listVars, fastVars, deliverVars
  <1>1. CASE Boot
    BY <1>1 DEF Boot, LoadedList
  <1>2. CASE StartPoll
    BY <1>2 DEF StartPoll
  <1>3. CASE Login
    BY <1>3 DEF Login
  <1>4. CASE NoMail
    BY <1>4 DEF NoMail, ClearNew, SendQuit
  <1>5. CASE SkipListing
    BY <1>5 DEF SkipListing, ClearNew, FirstMessage
  <1>6. CASE GetLast
    BY <1>6 DEF GetLast, WantListing, ClearNew, PointIndexes, FreshNdx,
       FirstMessage, UseFast, UseLast
  <1>7. CASE StartFastUidl
    BY <1>7 DEF StartFastUidl, WantListing, UseFast, ClearNew, PointIndexes,
       FreshNdx
  <1>8. CASE Probe
    <2>1. Try \in 1..count
      BY <1>8 DEF Probe, Try
    <2>2. Try \in Nums /\ drop[Try] \in Msgs
      BY <2>1
    <2>3. SeenIsSettled'
      <3>1. oldsaved[drop[Try]] \in UidStatus
        BY <2>2
      <3> QED
        BY <1>8, <2>2, <3>1, ListedFacts DEF Probe, EnterOld
    <2>4. IndexMatchesServer'
      BY <1>8, <2>1, <2>2 DEF Probe
    <2>5. NoStrayIndex' /\ LastIsReset'
      BY <1>8 DEF Probe
    <2> QED
      BY <1>8, <2>3, <2>4, <2>5 DEF Probe
  <1>9. CASE ProbeDone
    BY <1>9 DEF ProbeDone, FirstMessage
  <1>10. CASE ListUids
    <2>1. EnterListing(count) /\ count \in 0..count /\ pc' = "check"
      BY <1>10 DEF ListUids, FirstMessage
    <2>2. /\ SeenIsSettled'
          /\ \A i \in 1..count : /\ oldndx'[i] \in {NoMsg, drop[i]}
                                 /\ newndx'[i] \in {NoMsg, drop[i]}
          /\ oldndx' = newndx'
          /\ \A i \in 1..count : newndx'[i] = NoMsg => Settled(drop[i])
          /\ \A i \in 1..count : newndx'[i] # NoMsg => newsaved'[newndx'[i]] # "none"
      BY <1>10, <2>1, ListingSafe DEF ListUids
    <2>3. NoStrayIndex' /\ LastIsReset' /\ SearchMode'
      BY <1>10, <2>1 DEF ListUids, WantListing
    <2>4. IndexMatchesServer' /\ IndexesAgree' /\ ListingComplete'
      BY <1>10, <2>1, <2>2 DEF ListUids, WantListing
    <2> QED
      BY <1>10, <2>1, <2>2, <2>3, <2>4 DEF ListUids, WantListing
  <1>11. CASE CheckOld
    <2>1. num \in 1..count /\ num \in Nums /\ drop[num] \in Msgs
      BY <1>11 DEF CheckOld
    <2>2. ASSUME Listing, IsOld
          PROVE  Settled(drop[num]) \/ (~alive /\ newndx[num] = NoMsg)
      <3>1. ~(num <= last) /\ (newndx[num] = NoMsg \/ newsaved[newndx[num]] # "unseen")
        BY <2>1, <2>2 DEF IsOld
      <3>2. newndx[num] # NoMsg => newndx[num] = drop[num] /\ newsaved[drop[num]] # "none"
        BY <2>1, <2>2
      <3> QED
        BY <2>1, <2>2, <3>1, <3>2
    <2>3. ResultSound'
      BY <1>11, <2>2 DEF CheckOld, GoFlag, GoGet
    <2> QED
      BY <1>11, <2>3 DEF CheckOld, GoFlag, GoGet
  <1>12. CASE CheckOldByUidl
    BY <1>12 DEF CheckOldByUidl, NeedUidl, GoFlag, GoGet
  <1>13. CASE SkipOversized
    <2>1. RemovedIsSettled' /\ ArrivalOrder' /\ MarkedIsSettled' /\ SeenIsSettled'
      BY <1>13, SMTT(40) DEF SkipOversized, TooLarge, GoFlag
    <2>2. DropInMailbox' /\ SearchMode' /\ IndexMatchesServer'
      BY <1>13 DEF SkipOversized, TooLarge, GoFlag
    <2>3. NoStrayIndex' /\ IndexesAgree' /\ LastIsReset' /\ ListingComplete'
      BY <1>13 DEF SkipOversized, TooLarge, GoFlag
    <2>4. ResultSound'
      BY <1>13 DEF SkipOversized, TooLarge, GoFlag
    <2> QED
      BY <2>1, <2>2, <2>3, <2>4
  <1>14. CASE Retrieve
    <2>1. drop[num] \in Msgs /\ drop[num] \in mbox
      BY <1>14 DEF Retrieve
    <2>2. /\ \A x \in Msgs : fate[x] # "waiting" => fate'[x] # "waiting"
          /\ \A x \in Msgs \ {drop[num]} : fate'[x] = fate[x]
          /\ result' = "refused" => fate'[drop[num]] # "waiting"
      BY <1>14, <2>1, SettleFacts DEF Retrieve, Fates
    <2>3. RemovedIsSettled' /\ ArrivalOrder' /\ MarkedIsSettled'
      BY <1>14, <2>1, <2>2, VerdictSafe DEF Retrieve
    <2>6. SeenIsSettled'
      BY <1>14, <2>2 DEF Retrieve
    <2>4. IndexMatchesServer' /\ IndexesAgree' /\ ListingComplete'
      BY <1>14, <2>2 DEF Retrieve
    <2>5. ResultSound'
      BY <1>14, <2>2 DEF Retrieve
    <2> QED
      BY <1>14, <2>3, <2>4, <2>5, <2>6 DEF Retrieve
  <1>15. CASE Ship
    <2>1. drop[num] \in Msgs /\ drop[num] \in mbox
      BY <1>15 DEF Ship
    <2>2. /\ \A x \in Msgs : fate[x] # "waiting" => fate'[x] # "waiting"
          /\ \A x \in Msgs \ {drop[num]} : fate'[x] = fate[x]
          /\ fate'[drop[num]] # "waiting"
      BY <1>15, <2>1, SettleFacts DEF Ship, Fates
    <2>3. RemovedIsSettled' /\ ArrivalOrder' /\ MarkedIsSettled'
      BY <1>15, <2>1, <2>2, VerdictSafe DEF Ship, GoFlag
    <2>6. SeenIsSettled'
      BY <1>15, <2>2 DEF Ship, GoFlag
    <2>4. IndexMatchesServer' /\ IndexesAgree' /\ ListingComplete'
      BY <1>15, <2>2 DEF Ship, GoFlag
    <2>5. ResultSound'
      BY <1>15, <2>2 DEF Ship, GoFlag
    <2> QED
      BY <1>15, <2>3, <2>4, <2>5, <2>6 DEF Ship, GoFlag
  <1>16. CASE Drain
    <2>1. RemovedIsSettled' /\ ArrivalOrder' /\ MarkedIsSettled' /\ SeenIsSettled'
      BY <1>16 DEF Drain
    <2>2. DropInMailbox' /\ SearchMode' /\ IndexMatchesServer'
      BY <1>16 DEF Drain
    <2>3. NoStrayIndex' /\ IndexesAgree' /\ LastIsReset' /\ ListingComplete'
      BY <1>16 DEF Drain
    <2>4. ResultSound'
      BY <1>16 DEF Drain
    <2> QED
      BY <2>1, <2>2, <2>3, <2>4
  <1>17. CASE FlagLeave
    <2>1. RemovedIsSettled' /\ ArrivalOrder' /\ MarkedIsSettled' /\ SeenIsSettled'
      BY <1>17 DEF FlagLeave, NextMessage, AdvanceLoop, SendQuit
    <2>2. DropInMailbox' /\ SearchMode' /\ IndexMatchesServer'
      BY <1>17 DEF FlagLeave, NextMessage, AdvanceLoop, SendQuit
    <2>3. NoStrayIndex' /\ IndexesAgree' /\ LastIsReset' /\ ListingComplete'
      BY <1>17 DEF FlagLeave, NextMessage, AdvanceLoop, SendQuit
    <2>4. ResultSound'
      BY <1>17 DEF FlagLeave, NextMessage, AdvanceLoop, SendQuit
    <2> QED
      BY <2>1, <2>2, <2>3, <2>4
  <1>18. CASE FlagSeen
    <2>1. num \in 1..count /\ num \in Nums /\ drop[num] \in Msgs /\ drop[num] \in mbox
      BY <1>18 DEF FlagSeen

    <2>2. Settled(drop[num])
      BY <1>18, DispositionFacts DEF FlagSeen
    <2>3. /\ SeenIsSettled'
          /\ \A m \in Msgs : newsaved[m] # "none" => newsaved'[m] # "none"
      BY <1>18, <2>2, MarkSafe, StatusTyped DEF FlagSeen, MarkSeen
    <2>4. /\ pc' \in {"check", "quit"} /\ num' \in Nat
          /\ UNCHANGED <<alive, last>>
      BY <1>18 DEF FlagSeen, NextMessage, AdvanceLoop, SendQuit
    <2>5. ListingComplete'
      BY <1>18, <2>3, <2>4 DEF FlagSeen
    <2> QED
      BY <1>18, <2>3, <2>4, <2>5 DEF FlagSeen
  <1>19. CASE FlagDelete
    <2>1. num \in 1..count /\ num \in Nums /\ drop[num] \in Msgs /\ drop[num] \in mbox
      BY <1>19 DEF FlagDelete

    <2>2. /\ fate'[drop[num]] # "waiting"
          /\ \A x \in Msgs : fate[x] # "waiting" => fate'[x] # "waiting"
          /\ \A x \in Msgs \ {drop[num]} : fate'[x] = fate[x]
      BY <1>19, DeleteSettles DEF FlagDelete
    <2>3. /\ SeenIsSettled'
          /\ \A m \in Msgs : newsaved[m] # "none" => newsaved'[m] # "none"
      <3>1. CASE dofastuidl
        BY <1>19, <2>2, <3>1, MarkSafe, StatusTyped DEF FlagDelete
      <3>2. CASE ~dofastuidl
        BY <1>19, <2>2, <3>2, MarkSafe, StatusTyped DEF FlagDelete
      <3> QED
        BY <3>1, <3>2
    <2>4. /\ pc' \in {"check", "quit"} /\ num' \in Nat
          /\ UNCHANGED <<alive, last>>
      BY <1>19 DEF FlagDelete, NextMessage, AdvanceLoop, SendQuit
    <2>5. RemovedIsSettled' /\ ArrivalOrder' /\ MarkedIsSettled'
      <3>1. /\ marked' = marked \cup {drop[num]}
            /\ mbox' = mbox /\ next' = next
        BY <1>19 DEF FlagDelete
      <3>2. RemovedIsSettled'
        BY <2>2, <3>1
      <3>3. ArrivalOrder'
        <4>1. /\ \A m \in mbox : m < next
              /\ \A m \in Msgs : m >= next => fate[m] = "waiting"
          OBVIOUS
        <4>2. \A m \in Msgs : m >= next => m # drop[num]
          BY <2>1, <4>1 DEF Msgs
        <4>3. \A m \in Msgs : m >= next => fate'[m] = "waiting"
          BY <2>2, <4>1, <4>2
        <4> QED
          BY <3>1, <4>1, <4>3
      <3>4. MarkedIsSettled'
        <4>1. marked \subseteq Msgs /\ \A m \in marked : fate[m] # "waiting"
          OBVIOUS
        <4> QED
          BY <2>1, <2>2, <3>1, <4>1
      <3> QED
        BY <3>2, <3>3, <3>4
    <2>6. ListingComplete'
      BY <1>19, <2>2, <2>3, <2>4 DEF FlagDelete
    <2> QED
      BY <1>19, <2>3, <2>4, <2>5, <2>6 DEF FlagDelete
  <1>20. CASE FlagDeleteNull
    BY <1>20 DEF FlagDeleteNull, LoseMemory
  <1>21. CASE QuitDone
    <2>1. /\ \A m \in Msgs : oldsaved'[m] \notin {"none", "unseen"}
                             => oldsaved[m] \notin {"none", "unseen"}
          /\ \A m \in Msgs : newsaved'[m] \notin {"none", "unseen"}
                             => newsaved[m] \notin {"none", "unseen"}
      BY <1>21 DEF QuitDone, Expunged
    <2>2. SeenIsSettled'
      BY <1>21, <2>1 DEF QuitDone
    <2>3. /\ pc' \in {"login", "polled"} /\ marked' = {} /\ last' = 0
          /\ UNCHANGED <<mbox, next, fate, opt, oldndx, newndx, dofastuidl>>
      BY <1>21 DEF QuitDone, CloseSession
    <2> QED
      BY <2>2, <2>3
  <1>22. CASE EndPoll
    <2>1. \A m \in Msgs : oldsaved'[m] \in {oldsaved[m], newsaved[m]}
      BY <1>22 DEF EndPoll, PolledList
    <2>2. SeenIsSettled'
      BY <1>22, <2>1 DEF EndPoll, SavedIds
    <2>3. NoStrayIndex'
      BY <1>22, ResetFacts DEF EndPoll, PolledNdx
    <2> QED
      BY <1>22, <2>2, <2>3 DEF EndPoll
  <1>23. CASE EndRun
    BY <1>23 DEF EndRun, LoseMemory, SavedIds, PolledList
  <1> QED
    BY <1>1, <1>2, <1>3, <1>4, <1>5, <1>6, <1>7, <1>8, <1>9, <1>10, <1>11,
       <1>12, <1>13, <1>14, <1>15, <1>16, <1>17, <1>18, <1>19, <1>20, <1>21,
       <1>22, <1>23 DEF ClientStep

\* So does every fault, with the code's answer to it.
LEMMA FaultSafe == Inv /\ SafeOptions /\ FaultStep => SafetyInv'
  <1> SUFFICES ASSUME Inv, SafeOptions, FaultStep PROVE SafetyInv'
    OBVIOUS
  <1> USE BoundsAssumption, OptionFacts, EmptyFacts, RangeFacts
      DEF Inv, Typed, TypeOK, ServerType, ControlType, CounterType, DropType,
          ListType, DeliveryType, CursorInRange, SafetyInv, InMessage,
          InSession, Settled, RemovedIsSettled, SeenIsSettled, InLoop,
          IndexMatchesServer, ArrivalOrder, DropInMailbox, MarkedIsSettled,
          SearchMode, NoStrayIndex, IndexesAgree, LastIsReset,
          ListingComplete, Listing, ResultSound, Results, UseLast, serverVars,
          loopVars, dropVars, cursorVars, listVars, fastVars, deliverVars
  <1>1. CASE Terminate
    BY <1>1 DEF Terminate, LoseMemory, SavedIds
  <1>2. CASE Crash
    BY <1>2 DEF Crash, LoseMemory
  <1>3. CASE LoginFails
    BY <1>3 DEF LoginFails, CloseSession
  <1>4. CASE StatFails
    BY <1>4 DEF StatFails, ClearNew, SendQuit, CloseSession
  <1>5. CASE ProbeFails
    BY <1>5 DEF ProbeFails, SendQuit, CloseSession
  <1>6. CASE ListingBreaks
    <2>1. PICK k \in 0..count : EnterListing(k)
      BY <1>6 DEF ListingBreaks
    <2>2. /\ SeenIsSettled'
          /\ \A i \in 1..count : /\ oldndx'[i] \in {NoMsg, drop[i]}
                                 /\ newndx'[i] \in {NoMsg, drop[i]}
          /\ oldndx' = newndx'
          /\ \A i \in 1..count : newndx'[i] # NoMsg => newsaved'[newndx'[i]] # "none"
      BY <1>6, <2>1, ListingSafe DEF ListingBreaks
    <2>3. /\ (pc' = "check" /\ ~alive') \/ pc' = "quit"
          /\ last' = 0 /\ ~dofastuidl'
      BY <1>6 DEF ListingBreaks, FirstMessage, SendQuit, WantListing
    <2>4. NoStrayIndex' /\ LastIsReset' /\ SearchMode'
      BY <1>6, <2>3 DEF ListingBreaks, WantListing
    <2>5. IndexMatchesServer' /\ IndexesAgree' /\ ListingComplete'
      BY <1>6, <2>2, <2>3 DEF ListingBreaks
    <2> QED
      BY <1>6, <2>2, <2>3, <2>4, <2>5 DEF ListingBreaks, WantListing
  <1>7. CASE CheckOldFails
    BY <1>7 DEF CheckOldFails, NeedUidl, GoFlag
  <1>8. CASE SessionLost
    BY <1>8 DEF SessionLost, CloseSession
  <1>9. CASE SizeFails
    BY <1>9 DEF SizeFails, SendQuit
  <1>10. CASE RetrieveFails
    <2>1. RemovedIsSettled' /\ ArrivalOrder' /\ MarkedIsSettled' /\ SeenIsSettled'
      BY <1>10 DEF RetrieveFails, AdvanceLoop, SendQuit
    <2>2. DropInMailbox' /\ SearchMode' /\ IndexMatchesServer'
      BY <1>10 DEF RetrieveFails, AdvanceLoop, SendQuit
    <2>3. NoStrayIndex' /\ IndexesAgree' /\ LastIsReset' /\ ListingComplete'
      BY <1>10 DEF RetrieveFails, AdvanceLoop, SendQuit
    <2>4. ResultSound'
      BY <1>10 DEF RetrieveFails, AdvanceLoop, SendQuit
    <2> QED
      BY <2>1, <2>2, <2>3, <2>4
  <1>11. CASE ShipFails
    <2>1. drop[num] \in Msgs /\ drop[num] \in mbox
      BY <1>11 DEF ShipFails
    <2>2. /\ \A x \in Msgs : fate[x] # "waiting" => fate'[x] # "waiting"
          /\ \A x \in Msgs \ {drop[num]} : fate'[x] = fate[x]
      BY <1>11, <2>1, SettleFacts DEF ShipFails, Fates
    <2>3. RemovedIsSettled' /\ ArrivalOrder' /\ MarkedIsSettled'
      BY <1>11, <2>1, <2>2, VerdictSafe DEF ShipFails, GoFlag
    <2>6. SeenIsSettled'
      BY <1>11, <2>2 DEF ShipFails, GoFlag
    <2>4. IndexMatchesServer' /\ IndexesAgree' /\ ListingComplete'
      BY <1>11, <2>2 DEF ShipFails, GoFlag
    <2>5. ResultSound'
      BY <1>11, <2>2 DEF ShipFails, GoFlag
    <2> QED
      BY <1>11, <2>3, <2>4, <2>5, <2>6 DEF ShipFails, GoFlag
  <1>12. CASE ShipTimesOut
    <2>1. drop[num] \in Msgs /\ drop[num] \in mbox
      BY <1>12 DEF ShipTimesOut
    <2>2. /\ \A x \in Msgs : fate[x] # "waiting" => fate'[x] # "waiting"
          /\ \A x \in Msgs \ {drop[num]} : fate'[x] = fate[x]
      BY <1>12, <2>1, SettleFacts DEF ShipTimesOut, Fates
    <2>3. RemovedIsSettled' /\ ArrivalOrder' /\ MarkedIsSettled'
      BY <1>12, <2>1, <2>2, VerdictSafe DEF ShipTimesOut, CloseSession
    <2>6. SeenIsSettled'
      BY <1>12, <2>2 DEF ShipTimesOut, CloseSession
    <2>4. IndexMatchesServer' /\ IndexesAgree' /\ ListingComplete'
      BY <1>12, <2>2 DEF ShipTimesOut, CloseSession
    <2>5. ResultSound'
      BY <1>12, <2>2 DEF ShipTimesOut, CloseSession
    <2> QED
      BY <1>12, <2>3, <2>4, <2>5, <2>6 DEF ShipTimesOut, CloseSession
  <1>13. CASE FlagDeleteFails
    <2>1. num \in 1..count /\ num \in Nums /\ drop[num] \in Msgs /\ drop[num] \in mbox
      BY <1>13 DEF FlagDeleteFails

    <2>2. /\ fate'[drop[num]] # "waiting"
             \/ (newndx[num] = NoMsg /\ oldndx[num] = NoMsg)
          /\ \A x \in Msgs : fate[x] # "waiting" => fate'[x] # "waiting"
          /\ \A x \in Msgs \ {drop[num]} : fate'[x] = fate[x]
      BY <1>13, DeleteSettles DEF FlagDeleteFails
    <2>3. SeenIsSettled'
      BY <1>13, <2>2, MarkSafe, StatusTyped DEF FlagDeleteFails, MarkSeen
    <2>4. /\ pc' \in {"quit", "login", "polled"}
          /\ pc' = "quit" \/ last' = 0
          /\ marked' \in {marked, {}}
      BY <1>13 DEF FlagDeleteFails, SendQuit, CloseSession
    <2>5. RemovedIsSettled' /\ ArrivalOrder' /\ MarkedIsSettled'
      BY <1>13, <2>1, <2>2, <2>4, VerdictSafe DEF FlagDeleteFails
    <2> QED
      BY <1>13, <2>3, <2>4, <2>5 DEF FlagDeleteFails
  <1>14. CASE QuitFails
    BY <1>14 DEF QuitFails, CloseSession
  <1> QED
    BY <1>1, <1>2, <1>3, <1>4, <1>5, <1>6, <1>7, <1>8, <1>9, <1>10, <1>11,
       <1>12, <1>13, <1>14 DEF FaultStep

\* New mail and the server's part of QUIT keep the invariant.
LEMMA ServerSafe == Inv /\ (Arrive \/ ServerUpdate) => SafetyInv'
  <1> SUFFICES ASSUME Inv, Arrive \/ ServerUpdate PROVE SafetyInv'
    OBVIOUS
  <1>1. /\ next \in Nat /\ marked \subseteq Msgs /\ mbox \subseteq Msgs
        /\ \A x \in Msgs : x \in Nat
        /\ \A x \in 1..(next - 1) : x \in Msgs
    BY BoundsAssumption, RangeFacts DEF Inv, Typed, TypeOK, ServerType, Msgs
  <1>2. RemovedIsSettled' /\ ArrivalOrder' /\ DropInMailbox'
    <2> USE DEF Inv, SafetyInv, RemovedIsSettled, ArrivalOrder, DropInMailbox,
                MarkedIsSettled, Settled, InSession, InMessage, dropVars,
                deliverVars
    <2>1. CASE Arrive
      <3>1. \A x \in 1..(next' - 1) : x = next \/ x \in 1..(next - 1)
        BY <1>1, <2>1 DEF Arrive
      <3>2. RemovedIsSettled'
        BY <2>1, <3>1 DEF Arrive
      <3>3. ArrivalOrder'
        BY <1>1, <2>1 DEF Arrive
      <3> QED
        BY <2>1, <3>2, <3>3 DEF Arrive
    <2>2. CASE ServerUpdate
      BY <1>1, <2>2 DEF ServerUpdate
    <2> QED
      BY <2>1, <2>2
  <1>3. UNCHANGED <<marked, fate, pc, opt, count, drop, num, last, alive, result,
                    oldsaved, newsaved, oldndx, newndx, dofastuidl, fetchids>>
    BY DEF Arrive, ServerUpdate, dropVars, cursorVars, listVars, fastVars, deliverVars
  <1> QED
    BY <1>2, <1>3
    DEF Inv, SafetyInv, SeenIsSettled, Settled, IndexMatchesServer, InLoop,
        MarkedIsSettled, SearchMode, NoStrayIndex, IndexesAgree, InMessage,
        LastIsReset, ListingComplete, Listing, UseLast, ResultSound

\* A step that changes nothing keeps the invariant.
LEMMA StutterSafe == Inv /\ UNCHANGED vars => SafetyInv'
  BY DEF vars, serverVars, loopVars, dropVars, cursorVars, listVars, fastVars,
     deliverVars, Inv, SafetyInv, RemovedIsSettled, SeenIsSettled, Settled,
     IndexMatchesServer, InLoop, ArrivalOrder, DropInMailbox, InSession,
     MarkedIsSettled, SearchMode, NoStrayIndex, IndexesAgree, InMessage,
     LastIsReset, ListingComplete, Listing, UseLast, ResultSound

\* The invariant holds before fetchmail has run for the first time.
LEMMA InitSafe == Init => SafetyInv
  <1> SUFFICES ASSUME Init PROVE SafetyInv
    OBVIOUS
  <1>1. \A m \in 1..(next - 1) : FALSE
    BY DEF Init
  <1> QED
    BY <1>1, EmptyFacts
    DEF Init, SafetyInv, RemovedIsSettled, SeenIsSettled, Settled,
        IndexMatchesServer, InLoop, ArrivalOrder, DropInMailbox, InSession,
        MarkedIsSettled, SearchMode, NoStrayIndex, IndexesAgree, InMessage,
        LastIsReset, ListingComplete, Listing, ResultSound

-----------------------------------------------------------------------------
(* The theorems.                                                           *)

\* SafetyInv is inductive, relative to Typed and under SafeOptions.
LEMMA Invariance ==
    ASSUME SafeOptions
    PROVE  Spec => []Inv
  <1>1. Inv /\ [Next]_vars => Inv'
    BY ClientTyped, FaultTyped, ServerTyped, StutterTyped,
       ClientSafe, FaultSafe, ServerSafe, StutterSafe DEF Next, Inv
  <1>2. Init => Inv
    BY InitTyped, InitSafe DEF Inv
  <1> QED
    BY <1>1, <1>2, PTL DEF Spec

\* No mail is lost, whatever fails and whenever the process dies: what
\* ServerUpdate removed after DELE and QUIT had been delivered, refused, or
\* discarded on the user's order (driver.c's flagthemail, pop3_delete).
THEOREM NoMailLost ==
    ASSUME SafeOptions
    PROVE  Spec => []RemovedIsSettled
  <1>1. Inv => RemovedIsSettled
    BY DEF Inv, SafetyInv
  <1> QED
    BY <1>1, Invariance, PTL

\* A UID marked in either list or in the id file belongs to a message that
\* has been dealt with, so pop3_is_old skips no mail that is still wanted.
THEOREM MarksAreTrue ==
    ASSUME SafeOptions
    PROVE  Spec => []SeenIsSettled
  <1>1. Inv => SeenIsSettled
    BY DEF Inv, SafetyInv
  <1> QED
    BY <1>1, Invariance, PTL

\* Through set_uid_db_num_pos_0 and uid_reset_num, the number indexes of the
\* UID lists never name a message under another message's number.
THEOREM NumbersMatch ==
    ASSUME SafeOptions
    PROVE  Spec => []IndexMatchesServer
  <1>1. Inv => IndexMatchesServer
    BY DEF Inv, SafetyInv
  <1> QED
    BY <1>1, Invariance, PTL

\* Against a server without LAST, pop3_is_old skips only what has been dealt
\* with, although it takes a number that is not in the index for old.
THEOREM SkipsAreSafe ==
    ASSUME ~HasLast
    PROVE  Spec => []SkippedIsSettled
  <1>1. SafeOptions
    BY DEF SafeOptions
  <1>2. Inv => SkippedIsSettled
    BY DEF Inv, SafetyInv, ResultSound, SkippedIsSettled, UseLast
  <1> QED
    BY <1>1, <1>2, Invariance, PTL

-----------------------------------------------------------------------------
(* Polling implements the at-least-once transfer of MailTransfer.          *)

\* A verdict of the listener or a discard on the user's order is a Settle step
\* of MailTransfer, or changes nothing it sees.
LEMMA VerdictTransfers ==
    ASSUME Inv, NEW f \in Fates \ {"waiting"}, InMessage,
           Settle(drop[num], f), UNCHANGED <<mbox, fetchids>>,
           f = "discarded" => drop[num] \in Big
    PROVE  MT!Next
  <1>1. drop[num] \in Msgs /\ drop[num] \in mbox
    BY RangeFacts DEF Inv, Typed, CursorInRange, SafetyInv, DropInMailbox,
       InSession, InMessage
  <1>2. MT!Settle(drop[num], f)
    BY <1>1 DEF MT!Settle, Settle
  <1>3. f \in MT!Fates \ {"waiting"}
    BY DEF MT!Fates, Fates
  <1> QED
    BY <1>1, <1>2, <1>3 DEF MT!Next

\* Ids are written to the file only if their messages are settled.
LEMMA RememberTransfers ==
    ASSUME Inv, NEW l \in {oldsaved, newsaved}, fetchids' = SavedIds(l),
           UNCHANGED <<mbox, fate>>
    PROVE  MT!Next
  <1>1. SavedIds(l) \in SUBSET Msgs
    BY DEF SavedIds
  <1>2. SavedIds(l) \subseteq MT!Settled(fate)
    BY DEF SavedIds, MT!Settled, Inv, SafetyInv, SeenIsSettled, Settled
  <1>3. MT!Remember(SavedIds(l))
    BY <1>2 DEF MT!Remember
  <1> QED
    BY <1>1, <1>3 DEF MT!Next

\* Every step of Pop3Poll is a step of MailTransfer, or changes nothing it sees.
LEMMA StepTransfers ==
    ASSUME Inv, SafeOptions, Next
    PROVE  MT!Next \/ UNCHANGED <<mbox, fate, fetchids>>
  <1> USE DEF serverVars, deliverVars
  <1>1. CASE Arrive
    <2>1. next \in Msgs /\ next \notin mbox /\ fate[next] = "waiting"
      BY <1>1, BoundsAssumption DEF Arrive, Inv, Typed, TypeOK, ServerType,
         SafetyInv, ArrivalOrder, Msgs
    <2>2. MT!Arrive(next)
      BY <1>1, <2>1 DEF Arrive, MT!Arrive
    <2> QED
      BY <2>1, <2>2 DEF MT!Next
  <1>2. CASE ServerUpdate
    <2>1. marked \cap mbox \in SUBSET Msgs
      BY DEF Inv, Typed, TypeOK, ServerType
    <2>2. MT!Expunge(marked \cap mbox)
      BY <1>2 DEF ServerUpdate, MT!Expunge, MT!Settled, Inv, Typed, TypeOK,
         ServerType, SafetyInv, MarkedIsSettled, Settled
    <2> QED
      BY <2>1, <2>2 DEF MT!Next
  <1>3. CASE Terminate
    BY <1>3, RememberTransfers DEF Terminate
  <1>4. CASE EndPoll \/ EndRun
    <2>1. PolledList \in {oldsaved, newsaved}
      BY DEF PolledList
    <2> QED
      BY <1>4, <2>1, RememberTransfers DEF EndPoll, EndRun
  <1>5. CASE Retrieve
    BY <1>5, VerdictTransfers DEF Retrieve, Fates, InMessage
  <1>6. CASE Ship \/ ShipFails \/ ShipTimesOut
    BY <1>6, VerdictTransfers DEF Ship, ShipFails, ShipTimesOut, Fates, InMessage
  <1>7. CASE FlagDelete \/ FlagDeleteFails
    <2>1. pc = "flag" /\ SettleDiscarded /\ UNCHANGED <<mbox, fetchids>>
      BY <1>7 DEF FlagDelete, FlagDeleteFails
    <2>2. result = "toolarge" => drop[num] \in Big
      BY <2>1 DEF Inv, SafetyInv, ResultSound
    <2> QED
      BY <2>1, <2>2, VerdictTransfers DEF SettleDiscarded, Fates, InMessage
  <1>8. CASE \/ Boot \/ StartPoll \/ Login \/ NoMail \/ SkipListing \/ GetLast
             \/ StartFastUidl \/ Probe \/ ProbeDone \/ ListUids \/ CheckOld
             \/ CheckOldByUidl \/ SkipOversized \/ Drain \/ FlagLeave
             \/ FlagSeen \/ FlagDeleteNull \/ QuitDone
    BY <1>8 DEF Boot, StartPoll, Login, NoMail, SkipListing, GetLast,
       StartFastUidl, Probe, ProbeDone, ListUids, CheckOld, CheckOldByUidl,
       SkipOversized, Drain, FlagLeave, FlagSeen, FlagDeleteNull, QuitDone
  <1>9. CASE \/ Crash \/ LoginFails \/ StatFails \/ ProbeFails \/ ListingBreaks
             \/ CheckOldFails \/ SessionLost \/ SizeFails \/ RetrieveFails
             \/ QuitFails
    BY <1>9 DEF Crash, LoginFails, StatFails, ProbeFails, ListingBreaks,
       CheckOldFails, SessionLost, SizeFails, RetrieveFails, QuitFails
  <1> QED
    BY <1>1, <1>2, <1>3, <1>4, <1>5, <1>6, <1>7, <1>8, <1>9
    DEF Next, ClientStep, FaultStep

\* Every history of polls, faults and restarts is an at-least-once transfer.
THEOREM PollingTransfers ==
    ASSUME SafeOptions
    PROVE  Spec => Transfer
  <1>1. Init => MT!Init
    BY DEF Init, MT!Init
  <1>2. Inv /\ [Next]_vars => [MT!Next]_(MT!vars)
    BY StepTransfers DEF vars, serverVars, deliverVars, MT!vars
  <1> QED
    BY <1>1, <1>2, Invariance, PTL DEF Spec, Transfer, MT!Spec

-----------------------------------------------------------------------------
(* Deliveries and faults: for users without fetchall whose old mail is known *)
(* by UIDs, every copy of a message after the first is owed to a fault.      *)

OnceOptions == \A o \in Options : ~o.fetchall /\ (HasLast => o.uidl)

\* What is on the server and has been delivered was there when the session
\* began; nothing is delivered before it arrives.
DropCovers ==
    /\ \A m \in Msgs : m >= next => copies[m] = 0
    /\ pc = "range" => \A m \in mbox :
          copies[m] > 0 => \E i \in 1..count : drop[i] = m

\* On a live connection the listing or the search has entered some UID, so
\* pop3_is_old never falls back on `last'.
ListFilled ==
    /\ InMessage /\ alive => ~IsEmptyList(oldsaved)
    /\ pc = "probe" => ~IsEmptyList(oldsaved) \/ (last = 0 /\ hi = count + 1)

\* The binary search works on the old list alone.
SearchLeavesNew ==
    (InMessage \/ pc = "probe") /\ dofastuidl
        => newsaved = EmptyList /\ newndx = EmptyNdx

\* On a live connection a message that is fetched has a record to be marked,
\* and with --flush every message has one.
RecordAtHand ==
    InMessage /\ alive =>
        /\ pc \in {"get", "ship"} \/ (pc = "flag" /\ result # "old")
              => DeleteRecord = drop[num]
        /\ opt.flush => \A i \in 1..count : newndx[i] # NoMsg

\* Once QUIT has been carried out, nothing marked is left on the server.
UpdateRemoves == srv = "update" => pc = "quit" /\ mbox \cap marked = {}

\* A process that is down holds no list, and text is forwarded only while the
\* connection it comes from is alive.
ProcessSound ==
    /\ pc = "down" => newsaved = EmptyList
    /\ pc = "ship" => alive

RecordInv ==
    /\ DropCovers /\ ListFilled /\ SearchLeavesNew /\ RecordAtHand
    /\ UpdateRemoves /\ ProcessSound

\* No fault since the last copy of m can be blamed for the next one.
Unexcused(m) == copies[m] > faults

\* The status s of m makes pop3_is_old skip it: seen, or deleted in a session
\* that has not closed yet.
Kept(m, s) == s = "seen" \/ (s = "deleted" /\ m \in marked)

\* Fetchmail will not fetch m again.
Remembered(m) ==
    \/ m \notin mbox
    \/ pc = "flag" /\ result = "shipped" /\ drop[num] = m
    \/ pc = "down" /\ m \in fetchids
    \/ /\ pc # "down"
       /\ Kept(m, oldsaved[m])
       /\ IsEmptyList(newsaved) \/ Kept(m, newsaved[m])
       /\ ~(pc \in {"get", "ship"} /\ drop[num] = m)

OnceInv == \A m \in Msgs : Unexcused(m) =>
               copies[m] = faults + 1 /\ alive /\ Remembered(m)

\* Such users lose no mail by flushing, and the LAST mark is not asked for.
LEMMA OnceFacts ==
    ASSUME OnceOptions, Inv
    PROVE  SafeOptions /\ ~opt.fetchall /\ ~UseLast
  BY DEF OnceOptions, Inv, Typed, TypeOK, ControlType, SafeOptions, UseLast

\* A session numbers every message of the maildrop.
LEMMA NumberingCovers ==
    ASSUME NEW n \in Nat, n = Cardinality(mbox), NEW d \in [1..n -> mbox],
           \A i, j \in 1..n : i < j => d[i] < d[j], mbox \subseteq Msgs
    PROVE  \A m \in mbox : \E i \in 1..n : d[i] = m
  <1>0. IsFiniteSet(Msgs)
    BY FS_Interval, BoundsAssumption DEF Msgs
  <1>1. IsFiniteSet(mbox)
    BY <1>0, FS_Subset
  <1>2. Cardinality(1..n) = n
    BY FS_Interval
  <1>3. \A i, j \in 1..n : d[i] = d[j] => i = j
    <2> SUFFICES ASSUME NEW i \in 1..n, NEW j \in 1..n, d[i] = d[j], i # j
                 PROVE  FALSE
      OBVIOUS
    <2>3. d[i] \in Msgs /\ d[j] \in Msgs
      OBVIOUS
    <2>1. d[i] \in Nat /\ d[j] \in Nat
      BY <2>3, BoundsAssumption DEF Msgs
    <2>2. i < j \/ j < i
      OBVIOUS
    <2> QED
      BY <2>1, <2>2
  <1>4. d \in Injection(1..n, mbox)
    BY <1>3 DEF Injection, IsInjective
  <1>5. d \in Surjection(1..n, mbox)
    BY <1>1, <1>2, <1>4, FS_Injection
  <1> QED
    BY <1>5 DEF Surjection

\* Deliveries happen to messages that have arrived, and a new session sees
\* all of them.
LEMMA CoversStep ==
    ASSUME Inv, DropCovers, [Next]_vars
    PROVE  DropCovers'
  <1> USE DEF vars, serverVars, loopVars, dropVars, cursorVars, listVars,
              fastVars, deliverVars
  <1>1. /\ next \in Nat /\ mbox \subseteq Msgs /\ \A m \in Msgs : m \in Nat
        /\ copies \in [Msgs -> Nat]
    BY BoundsAssumption DEF Inv, Typed, TypeOK, ServerType, DeliveryType, Msgs
  <1>2. CASE Arrive
    <2>1. copies' = copies /\ pc' = pc /\ UNCHANGED dropVars
          /\ mbox' = mbox \cup {next} /\ next' = next + 1 /\ next \in Msgs
      BY <1>1, <1>2, BoundsAssumption DEF Arrive, Inv, Typed, TypeOK, ServerType, Msgs
    <2>2. copies[next] = 0
      BY <1>1, <2>1 DEF DropCovers
    <2>3. \A m \in Msgs : m >= next' => copies'[m] = 0
      BY <1>1, <2>1 DEF DropCovers
    <2>4. ASSUME pc' = "range", NEW m \in mbox', copies'[m] > 0
          PROVE  \E i \in 1..count' : drop'[i] = m
      <3>1. m \in mbox
        BY <2>1, <2>2, <2>4
      <3> QED
        BY <2>1, <2>4, <3>1 DEF DropCovers
    <2> QED
      BY <2>3, <2>4 DEF DropCovers
  <1>3. CASE Ship \/ ShipFails \/ ShipTimesOut
    <2>1. drop[num] \in mbox /\ drop[num] \in Msgs /\ drop[num] < next
      BY <1>3, RangeFacts DEF Inv, Typed, CursorInRange, SafetyInv, DropInMailbox, InSession,
         InMessage, ArrivalOrder, Ship, ShipFails, ShipTimesOut
    <2>2. next' = next /\ pc' # "range"
      BY <1>3 DEF Ship, ShipFails, ShipTimesOut, GoFlag, CloseSession
    <2>3. \A m \in Msgs : m # drop[num] => copies'[m] = copies[m]
      BY <1>1, <1>3, <2>1 DEF Ship, ShipFails, ShipTimesOut, CountCopy
    <2>4. \A m \in Msgs : m >= next => m # drop[num]
      BY <1>1, <2>1
    <2> QED
      BY <2>2, <2>3, <2>4 DEF DropCovers
  <1>4. CASE Login
    <2>1. copies' = copies /\ next' = next /\ mbox' = mbox
      BY <1>4 DEF Login
    <2>2. \E n \in 0..MaxMsg : \E d \in [1..n -> mbox] :
             /\ n = Cardinality(mbox) /\ count' = n /\ drop' = d
             /\ \A i, j \in 1..n : i < j => d[i] < d[j]
      BY <1>4 DEF Login
    <2>9. PICK n \in 0..MaxMsg : \E d \in [1..n -> mbox] :
             /\ n = Cardinality(mbox) /\ count' = n /\ drop' = d
             /\ \A i, j \in 1..n : i < j => d[i] < d[j]
      BY <2>2
    <2>3. PICK d \in [1..n -> mbox] :
             /\ n = Cardinality(mbox) /\ count' = n /\ drop' = d
             /\ \A i, j \in 1..n : i < j => d[i] < d[j]
      BY <2>9
    <2>4. n \in Nat
      BY <2>3, BoundsAssumption
    <2>5. \A m \in mbox : \E i \in 1..n : d[i] = m
      BY <1>1, <2>3, <2>4, NumberingCovers
    <2> QED
      BY <2>1, <2>3, <2>5 DEF DropCovers
  <1>5. CASE ServerUpdate \/ UNCHANGED vars
    BY <1>5 DEF ServerUpdate, DropCovers
  <1>6. ASSUME \/ Boot \/ StartPoll \/ NoMail \/ SkipListing \/ GetLast
               \/ StartFastUidl \/ Probe \/ ProbeDone \/ ListUids
        PROVE  copies' = copies /\ next' = next /\ pc' # "range"
    BY <1>6 DEF Boot, StartPoll, NoMail, SkipListing, GetLast,
       StartFastUidl, Probe, ProbeDone, ListUids, SendQuit, FirstMessage
  <1>7. ASSUME \/ CheckOld \/ CheckOldByUidl \/ SkipOversized \/ Retrieve
               \/ Drain \/ FlagLeave \/ FlagSeen \/ FlagDelete
               \/ FlagDeleteNull \/ QuitDone \/ EndPoll \/ EndRun
        PROVE  copies' = copies /\ next' = next /\ pc' # "range"
    BY <1>7 DEF CheckOld, CheckOldByUidl, SkipOversized, Retrieve,
       Drain, FlagLeave, FlagSeen, FlagDelete, FlagDeleteNull, QuitDone,
       EndPoll, EndRun, GoFlag, GoGet, NextMessage, AdvanceLoop, SendQuit,
       CloseSession, LoseMemory
  <1>8. ASSUME \/ Terminate \/ Crash \/ LoginFails \/ StatFails \/ ProbeFails
               \/ ListingBreaks \/ CheckOldFails \/ SessionLost \/ SizeFails
               \/ RetrieveFails \/ FlagDeleteFails \/ QuitFails
        PROVE  copies' = copies /\ next' = next /\ pc' # "range"
    BY <1>8 DEF Terminate, Crash, LoginFails, StatFails, ProbeFails,
       ListingBreaks, CheckOldFails, SessionLost, SizeFails, RetrieveFails,
       FlagDeleteFails, QuitFails, LoseMemory, CloseSession, SendQuit,
       FirstMessage, GoFlag, AdvanceLoop
  <1> QED
    BY <1>2, <1>3, <1>4, <1>5, <1>6, <1>7, <1>8
    DEF Next, ClientStep, FaultStep, DropCovers

\* ServerUpdate empties the maildrop of what was marked, and the session
\* that follows starts with no marks.
LEMMA UpdateStep ==
    ASSUME Inv, UpdateRemoves, [Next]_vars
    PROVE  UpdateRemoves'
  <1> USE DEF vars, serverVars, loopVars, dropVars, cursorVars, listVars,
              fastVars, deliverVars, UpdateRemoves
  <1>1. CASE Arrive
    <2>1. next \in Msgs /\ next \notin marked
      BY <1>1, BoundsAssumption DEF Arrive, Inv, Typed, TypeOK, ServerType,
         SafetyInv, MarkedIsSettled, ArrivalOrder, Settled, Msgs
    <2> QED
      BY <1>1, <2>1 DEF Arrive
  <1>2. CASE ServerUpdate \/ UNCHANGED vars
    BY <1>2 DEF ServerUpdate
  <1>3. CASE QuitDone \/ QuitFails
    BY <1>3 DEF QuitDone, QuitFails, CloseSession
  <1>4. ASSUME pc # "quit", ClientStep \/ FaultStep PROVE srv' = "open"
    <2>0. srv = "open"
      BY <1>4 DEF Inv, Typed, TypeOK, ServerType
    <2>1. ASSUME \/ Boot \/ StartPoll \/ Login \/ NoMail \/ SkipListing \/ GetLast
               \/ StartFastUidl \/ Probe \/ ProbeDone \/ ListUids
          PROVE  srv' = "open"
      BY <2>0, <2>1 DEF Boot, StartPoll, Login, NoMail, SkipListing, GetLast,
         StartFastUidl, Probe, ProbeDone, ListUids
    <2>2. ASSUME \/ CheckOld \/ CheckOldByUidl \/ SkipOversized \/ Retrieve
               \/ Ship \/ Drain \/ FlagLeave \/ FlagSeen \/ FlagDelete
               \/ FlagDeleteNull \/ QuitDone \/ EndPoll \/ EndRun
          PROVE  srv' = "open"
      BY <1>4, <2>0, <2>2 DEF CheckOld, CheckOldByUidl, SkipOversized, Retrieve,
         Ship, Drain, FlagLeave, FlagSeen, FlagDelete, FlagDeleteNull, QuitDone,
         EndPoll, EndRun, LoseMemory
    <2>3. ASSUME FaultStep PROVE srv' = "open"
      BY <1>4, <2>0, <2>3 DEF FaultStep, Terminate, Crash, LoginFails, StatFails,
         ProbeFails, ListingBreaks, CheckOldFails, SessionLost, SizeFails,
         RetrieveFails, ShipFails, ShipTimesOut, FlagDeleteFails, QuitFails,
         LoseMemory, CloseSession
    <2> QED
      BY <1>4, <2>1, <2>2, <2>3 DEF ClientStep
  <1>5. ASSUME pc = "quit", ClientStep \/ FaultStep
        PROVE  QuitDone \/ QuitFails \/ srv' = "open"
    <2>1. ASSUME ClientStep PROVE QuitDone
      BY <1>5, <2>1 DEF ClientStep, Boot, StartPoll, Login, NoMail, SkipListing,
         GetLast, StartFastUidl, Probe, ProbeDone, ListUids, WantListing,
         CheckOld, CheckOldByUidl, SkipOversized, Retrieve,
         Ship, Drain, FlagLeave, FlagSeen, FlagDelete, FlagDeleteNull,
         EndPoll, EndRun
    <2>2. ASSUME FaultStep PROVE QuitFails \/ srv' = "open"
      BY <1>5, <2>2 DEF FaultStep, Terminate, Crash, LoginFails, StatFails,
         ProbeFails, ListingBreaks, WantListing, CheckOldFails, SessionLost,
         SizeFails, RetrieveFails, ShipFails, ShipTimesOut, FlagDeleteFails,
         LoseMemory
    <2> QED
      BY <1>5, <2>1, <2>2
  <1> QED
    BY <1>1, <1>2, <1>3, <1>4, <1>5 DEF Next

\* Marking a UID never empties a list.
LEMMA MarkingFills ==
    ASSUME NEW l \in [Msgs -> UidStatus], NEW ndx \in [Nums -> Msgs \cup {NoMsg}],
           NEW i \in Nums, NEW s \in UidStatus \ {"none"}, ~IsEmptyList(l)
    PROVE  ~IsEmptyList(SetByNum(l, ndx, i, s))
  <1>1. PICK m \in Msgs : l[m] # "none"
    BY DEF IsEmptyList
  <1>2. SetByNum(l, ndx, i, s)[m] # "none"
    BY <1>1, SetByNumFacts
  <1> QED
    BY <1>2 DEF IsEmptyList

\* What kinds of steps go on from one message of the loop to the same or the
\* next, and what they leave alone.
LEMMA LoopStep ==
    ASSUME OnceOptions, Inv, [Next]_vars, InMessage'
    PROVE  \/ /\ pc = "range" /\ (ListUids \/ ListingBreaks)
           \/ /\ pc = "probe" /\ ProbeDone
           \/ /\ InMessage
              /\ UNCHANGED <<opt, count, drop, newndx, dofastuidl, last>>
              /\ alive' => alive
              /\ \/ UNCHANGED <<oldsaved, newsaved, oldndx>>
                 \/ CheckOldByUidl \/ FlagSeen \/ FlagDelete
  <1> USE DEF vars, serverVars, loopVars, dropVars, cursorVars, listVars,
              fastVars, deliverVars, InMessage
  <1>0. ~opt.fetchall /\ ~UseLast
    BY OnceFacts
  <1>1. CASE Arrive \/ ServerUpdate \/ UNCHANGED vars
    BY <1>1 DEF Arrive, ServerUpdate
  <1>2. CASE \/ Boot \/ StartPoll \/ Login \/ NoMail \/ SkipListing \/ GetLast
             \/ StartFastUidl \/ Probe \/ ProbeDone \/ ListUids
    BY <1>0, <1>2 DEF Boot, StartPoll, Login, NoMail, SkipListing, GetLast,
       WantListing, StartFastUidl, Probe, ProbeDone, ListUids, SendQuit
  <1>3. CASE \/ CheckOld \/ CheckOldByUidl \/ SkipOversized \/ Retrieve \/ Ship
             \/ Drain
    BY <1>3 DEF CheckOld, CheckOldByUidl, SkipOversized, Retrieve, Ship, Drain
  <1>4. CASE \/ FlagLeave \/ FlagSeen \/ FlagDelete
             \/ FlagDeleteNull \/ QuitDone \/ EndPoll \/ EndRun
    BY <1>4 DEF FlagLeave, FlagSeen, FlagDelete, FlagDeleteNull, QuitDone,
       EndPoll, EndRun, CloseSession, LoseMemory
  <1>5. CASE \/ Terminate \/ Crash \/ LoginFails \/ StatFails \/ ProbeFails
             \/ SessionLost \/ SizeFails \/ ShipTimesOut \/ FlagDeleteFails
             \/ QuitFails
    <2>1. pc' \in {"down", "login", "polled", "quit"}
      BY <1>5 DEF Terminate, Crash, LoginFails, StatFails, ProbeFails,
         SessionLost, SizeFails, ShipTimesOut, FlagDeleteFails, QuitFails,
         LoseMemory, CloseSession, SendQuit
    <2> QED
      BY <2>1
  <1>6. CASE ListingBreaks
    BY <1>6 DEF ListingBreaks, WantListing
  <1>7. CASE CheckOldFails \/ RetrieveFails \/ ShipFails
    BY <1>7 DEF CheckOldFails, RetrieveFails, ShipFails
  <1> QED
    BY <1>1, <1>2, <1>3, <1>4, <1>5, <1>6, <1>7 DEF Next, ClientStep, FaultStep

\* What entering the first k lines of a UIDL reply puts into the old list.
LEMMA ListingFills ==
    ASSUME Inv, NEW k \in 1..count, EnterListing(k)
    PROVE  ~IsEmptyList(oldsaved')
  <1>1. drop[1] \in Msgs /\ 1 \in 1..k
    BY RangeFacts DEF Inv, Typed, TypeOK, DropType
  <1>2. oldsaved[drop[1]] \in UidStatus
    BY <1>1 DEF Inv, Typed, TypeOK, ListType
  <1>3. oldsaved'[drop[1]] = ListedStatus(oldsaved[drop[1]])
    BY <1>1 DEF EnterListing
  <1>4. oldsaved'[drop[1]] # "none"
    BY <1>2, <1>3, ListedFacts
  <1> QED
    BY <1>1, <1>4 DEF IsEmptyList

\* The list pop3_is_old looks into is never empty on a live connection.
LEMMA FilledStep ==
    ASSUME OnceOptions, Inv, ListFilled, [Next]_vars
    PROVE  ListFilled'
  <1> USE DEF vars, serverVars, loopVars, dropVars, cursorVars, listVars,
              fastVars, deliverVars
  <1>0. /\ oldsaved \in [Msgs -> UidStatus] /\ newsaved \in [Msgs -> UidStatus]
        /\ oldndx \in [Nums -> Msgs \cup {NoMsg}]
        /\ count \in Nat
    BY DEF Inv, Typed, TypeOK, ListType, DropType
  <1>1. ASSUME InMessage', alive' PROVE ~IsEmptyList(oldsaved')
    <2>1. CASE ListUids
      <3>1. count \in 1..count /\ EnterListing(count)
        BY <1>0, <2>1 DEF ListUids, WantListing
      <3> QED
        BY <3>1, ListingFills
    <2>2. CASE ListingBreaks
      BY <1>1, <2>2 DEF ListingBreaks, FirstMessage, SendQuit, InMessage
    <2>3. CASE ProbeDone
      <3>1. pc = "probe" /\ last >= hi - 1 /\ oldsaved' = oldsaved
        BY <2>3 DEF ProbeDone
      <3>2. count > 0
        BY <3>1 DEF Inv, Typed, CursorInRange
      <3>3. ~(last = 0 /\ hi = count + 1)
        BY <1>0, <3>1, <3>2
      <3> QED
        BY <3>1, <3>3 DEF ListFilled
    <2>4. CASE InMessage /\ alive /\ UNCHANGED oldsaved
      BY <2>4 DEF ListFilled
    <2>5. CASE InMessage /\ alive /\ CheckOldByUidl
      <3>1. drop[num] \in Msgs
        BY <2>5, RangeFacts DEF CheckOldByUidl, Inv, Typed, CursorInRange
      <3>2. oldsaved'[drop[num]] # "none"
        BY <1>0, <2>5, <3>1 DEF CheckOldByUidl
      <3> QED
        BY <3>1, <3>2 DEF IsEmptyList
    <2>6. CASE InMessage /\ alive /\ (FlagSeen \/ FlagDelete)
      <3>1. num \in Nums
        BY <2>6, RangeFacts DEF FlagSeen, FlagDelete, Inv, Typed, CursorInRange
      <3>2. \E s \in {"seen", "deleted"} : oldsaved' = SetByNum(oldsaved, oldndx, num, s)
        BY <2>6 DEF FlagSeen, FlagDelete, MarkSeen
      <3>3. PICK s \in {"seen", "deleted"} : oldsaved' = SetByNum(oldsaved, oldndx, num, s)
        BY <3>2
      <3>4. s \in UidStatus \ {"none"}
        BY DEF UidStatus
      <3> QED
        BY <1>0, <2>6, <3>1, <3>3, <3>4, MarkingFills DEF ListFilled
    <2> QED
      BY <1>1, <2>1, <2>2, <2>3, <2>4, <2>5, <2>6, LoopStep
  <1>2. ASSUME pc' = "probe"
        PROVE  ~IsEmptyList(oldsaved') \/ (last' = 0 /\ hi' = count' + 1)
    <2>1. CASE Probe
      <3>1. Try \in 1..count
        BY <2>1 DEF Probe, Try, Inv, Typed, TypeOK, CounterType, CursorInRange, DropType
      <3>2. drop[Try] \in Msgs
        BY <3>1, RangeFacts DEF Inv
      <3>3. oldsaved'[drop[Try]] = ListedStatus(oldsaved[drop[Try]])
        BY <1>0, <2>1, <3>2 DEF Probe, EnterOld
      <3>4. oldsaved'[drop[Try]] # "none"
        BY <1>0, <3>2, <3>3, ListedFacts
      <3> QED
        BY <3>2, <3>4 DEF IsEmptyList
    <2>2. CASE StartFastUidl
      BY <2>2 DEF StartFastUidl
    <2>3. CASE UNCHANGED vars \/ Arrive \/ ServerUpdate
      BY <1>2, <2>3 DEF Arrive, ServerUpdate, ListFilled
    <2>4. ASSUME ClientStep PROVE Probe \/ StartFastUidl
      BY <1>2, <2>4 DEF ClientStep, Boot, StartPoll, Login, NoMail, SkipListing,
         GetLast, ProbeDone, ListUids,
         CheckOld, CheckOldByUidl, SkipOversized, Retrieve,
         Ship, Drain, FlagLeave, FlagSeen, FlagDelete, FlagDeleteNull,
         QuitDone, EndPoll, EndRun, SendQuit, FirstMessage, GoFlag, GoGet,
         NextMessage, AdvanceLoop, CloseSession, LoseMemory
    <2>5. ASSUME FaultStep PROVE FALSE
      BY <1>2, <2>5 DEF FaultStep, Terminate, Crash, LoginFails, StatFails,
         ProbeFails, ListingBreaks, CheckOldFails, SessionLost,
         SizeFails, RetrieveFails, ShipFails, ShipTimesOut, FlagDeleteFails,
         QuitFails, LoseMemory, CloseSession, SendQuit, FirstMessage, GoFlag,
         AdvanceLoop
    <2> QED
      BY <2>1, <2>2, <2>3, <2>4, <2>5 DEF Next
  <1> QED
    BY <1>1, <1>2 DEF ListFilled, InMessage

\* While the binary search is in use, the new list and its index stay empty.
LEMMA SearchStep ==
    ASSUME OnceOptions, Inv, SearchLeavesNew, [Next]_vars
    PROVE  SearchLeavesNew'
  <1> USE DEF vars, serverVars, loopVars, dropVars, cursorVars, listVars,
              fastVars, deliverVars
  <1>1. ASSUME InMessage', dofastuidl'
        PROVE  newsaved' = EmptyList /\ newndx' = EmptyNdx
    <2>1. CASE ListUids \/ ListingBreaks
      BY <1>1, <2>1 DEF ListUids, ListingBreaks
    <2>2. CASE ProbeDone
      BY <1>1, <2>2 DEF ProbeDone, SearchLeavesNew
    <2>3. CASE InMessage /\ dofastuidl /\ UNCHANGED <<newndx, newsaved>>
      BY <2>3 DEF SearchLeavesNew
    <2>4. CASE InMessage /\ dofastuidl /\ newndx' = newndx
               /\ (FlagSeen \/ FlagDelete)
      <3>1. num \in Nums
        BY <2>4, RangeFacts DEF FlagSeen, FlagDelete, Inv, Typed, CursorInRange
      <3>2. newsaved = EmptyList /\ newndx = EmptyNdx
        BY <2>4 DEF SearchLeavesNew
      <3>3. newndx[num] = NoMsg
        BY <3>1, <3>2, EmptyFacts
      <3>4. newsaved' = newsaved
        BY <2>4, <3>3 DEF FlagSeen, FlagDelete, MarkSeen, SetByNum
      <3> QED
        BY <2>4, <3>2, <3>4
    <2>5. CheckOldByUidl => newsaved' = newsaved
      BY DEF CheckOldByUidl
    <2> QED
      BY <1>1, <2>1, <2>2, <2>3, <2>4, <2>5, LoopStep
  <1>2. ASSUME pc' = "probe", dofastuidl'
        PROVE  newsaved' = EmptyList /\ newndx' = EmptyNdx
    <2>1. CASE Probe
      BY <1>2, <2>1 DEF Probe, SearchLeavesNew
    <2>2. CASE StartFastUidl
      BY <2>2 DEF StartFastUidl, ClearNew
    <2>3. CASE UNCHANGED vars \/ Arrive \/ ServerUpdate
      BY <1>2, <2>3 DEF Arrive, ServerUpdate, SearchLeavesNew
    <2>4. ASSUME ClientStep PROVE Probe \/ StartFastUidl
      BY <1>2, <2>4 DEF ClientStep, Boot, StartPoll, Login, NoMail, SkipListing,
         GetLast, ProbeDone, ListUids,
         CheckOld, CheckOldByUidl, SkipOversized, Retrieve,
         Ship, Drain, FlagLeave, FlagSeen, FlagDelete, FlagDeleteNull,
         QuitDone, EndPoll, EndRun, SendQuit, FirstMessage, GoFlag, GoGet,
         NextMessage, AdvanceLoop, CloseSession, LoseMemory
    <2>5. ASSUME FaultStep PROVE FALSE
      BY <1>2, <2>5 DEF FaultStep, Terminate, Crash, LoginFails, StatFails,
         ProbeFails, ListingBreaks, CheckOldFails, SessionLost,
         SizeFails, RetrieveFails, ShipFails, ShipTimesOut, FlagDeleteFails,
         QuitFails, LoseMemory, CloseSession, SendQuit, FirstMessage, GoFlag,
         AdvanceLoop
    <2> QED
      BY <2>1, <2>2, <2>3, <2>4, <2>5 DEF Next
  <1> QED
    BY <1>1, <1>2 DEF SearchLeavesNew, InMessage

\* Where the loop is at a message that is being fetched, it came from a step
\* on the same message.
LEMMA FetchStep ==
    ASSUME [Next]_vars,
           pc' \in {"get", "ship"} \/ (pc' = "flag" /\ result' # "old")
    PROVE  \/ CheckOld /\ pc' = "get"
           \/ CheckOldByUidl /\ pc' = "get"
           \/ /\ pc \in {"get", "ship"} \/ (pc = "flag" /\ result # "old")
              /\ UNCHANGED <<num, oldndx>>
  <1> USE DEF vars, serverVars, loopVars, dropVars, cursorVars, listVars,
              fastVars, deliverVars
  <1>1. CASE Arrive \/ ServerUpdate \/ UNCHANGED vars
    BY <1>1 DEF Arrive, ServerUpdate
  <1>2. ASSUME ClientStep
        PROVE  CheckOld \/ CheckOldByUidl \/ SkipOversized \/ Retrieve \/ Ship \/ Drain
    BY <1>2 DEF ClientStep, Boot, StartPoll, Login, NoMail, SkipListing,
       GetLast, StartFastUidl, Probe, ProbeDone, ListUids, FlagLeave, FlagSeen,
       FlagDelete, FlagDeleteNull, QuitDone, EndPoll, EndRun, SendQuit,
       FirstMessage, NextMessage, AdvanceLoop, CloseSession, LoseMemory
  <1>3. ASSUME FaultStep PROVE ShipFails
    BY <1>3 DEF FaultStep, Terminate, Crash, LoginFails, StatFails,
       ProbeFails, ListingBreaks, CheckOldFails, SessionLost,
       SizeFails, RetrieveFails, ShipTimesOut, FlagDeleteFails,
       QuitFails, LoseMemory, CloseSession, SendQuit, FirstMessage, GoFlag,
       AdvanceLoop
  <1>4. CASE CheckOld \/ CheckOldByUidl
    BY <1>4 DEF CheckOld, CheckOldByUidl, GoFlag, GoGet
  <1>5. CASE SkipOversized \/ Retrieve \/ Ship \/ Drain \/ ShipFails
    BY <1>5 DEF SkipOversized, Retrieve, Ship, Drain, ShipFails
  <1> QED
    BY <1>1, <1>2, <1>3, <1>4, <1>5 DEF Next

\* pop3_delete and mark_uid_seen find the record of the message they handle.
LEMMA RecordStep ==
    ASSUME OnceOptions, Inv, ListFilled, RecordAtHand, [Next]_vars
    PROVE  RecordAtHand'
  <1> USE DEF vars, serverVars, loopVars, dropVars, cursorVars, listVars,
              fastVars, deliverVars
  <1>0. /\ ~opt.fetchall /\ ~UseLast
        /\ drop \in [1..count -> Msgs] /\ oldndx \in [Nums -> Msgs \cup {NoMsg}]
        /\ count \in Nat /\ num \in Nat /\ last \in Nat
        /\ dofastuidl \in BOOLEAN
    BY OnceFacts DEF Inv, Typed, TypeOK, DropType, CounterType, ListType, ControlType
  <1>1. ASSUME InMessage', alive',
               pc' \in {"get", "ship"} \/ (pc' = "flag" /\ result' # "old")
        PROVE  DeleteRecord' = drop'[num']
    <2>0. ListUids \/ ListingBreaks \/ ProbeDone => pc' \in {"check", "quit"}
      BY DEF ListUids, ListingBreaks, ProbeDone, FirstMessage, SendQuit
    <2>1. InMessage /\ alive /\ UNCHANGED <<opt, count, drop, newndx, dofastuidl, last>>
      BY <1>1, <2>0, LoopStep
    <2>2. CASE CheckOld /\ pc' = "get"
      <3>1. num \in 1..count /\ num \in Nums /\ ~IsOld /\ ~NeedUidl
            /\ UNCHANGED <<num, oldndx>>
        BY <1>0, <2>2, RangeFacts DEF CheckOld, GoFlag, Inv, Typed, CursorInRange
      <3>2. ~IsEmptyList(oldsaved)
        BY <2>1 DEF ListFilled
      <3>3. oldndx[num] \in {NoMsg, drop[num]} /\ newndx[num] \in {NoMsg, drop[num]}
        BY <2>2, <3>1 DEF CheckOld, Inv, SafetyInv, IndexMatchesServer, InLoop
      <3>4. CASE dofastuidl
        <4>1. ~(num <= last)
          BY <3>1, <3>2, <3>4 DEF IsOld
        <4>2. num > last
          BY <1>0, <4>1
        <4>3. oldndx[num] # NoMsg
          BY <3>1, <3>2, <3>4, <4>2 DEF NeedUidl
        <4> QED
          BY <2>1, <3>1, <3>3, <3>4, <4>3 DEF DeleteRecord
      <3>5. CASE ~dofastuidl
        <4>1. newndx[num] # NoMsg
          BY <3>1, <3>2, <3>5 DEF IsOld
        <4> QED
          BY <2>1, <3>1, <3>3, <3>5, <4>1 DEF DeleteRecord
      <3> QED
        BY <3>4, <3>5
    <2>3. CASE CheckOldByUidl /\ pc' = "get"
      <3>1. num \in Nums /\ dofastuidl /\ UNCHANGED num
            /\ oldndx' = [oldndx EXCEPT ![num] = drop[num]]
        BY <1>0, <2>3, RangeFacts DEF CheckOldByUidl, NeedUidl, Inv, Typed, CursorInRange
      <3> QED
        BY <1>0, <2>1, <3>1 DEF DeleteRecord
    <2>4. CASE /\ pc \in {"get", "ship"} \/ (pc = "flag" /\ result # "old")
               /\ UNCHANGED <<num, oldndx>>
      BY <2>1, <2>4 DEF RecordAtHand, DeleteRecord
    <2> QED
      BY <1>1, <2>2, <2>3, <2>4, FetchStep
  <1>2. ASSUME InMessage', alive', opt'.flush
        PROVE  \A i \in 1..count' : newndx'[i] # NoMsg
    <2>1. CASE ListUids
      <3>1. EnterListing(count) /\ UNCHANGED <<opt, count, drop>>
        BY <2>1 DEF ListUids
      <3>2. opt.flush
        BY <1>2, <3>1
      <3>3. ASSUME NEW i \in 1..count PROVE newndx'[i] # NoMsg
        <4>1. i \in Nums /\ i <= count /\ drop[i] \in Msgs
          BY RangeFacts DEF Inv
        <4>2. newndx'[i] = drop[i]
          BY <3>1, <3>2, <4>1 DEF EnterListing, NeedNum
        <4> QED
          BY <4>1, <4>2, EmptyFacts
      <3> QED
        BY <3>1, <3>3
    <2>2. CASE ListingBreaks
      BY <1>2, <2>2 DEF ListingBreaks, FirstMessage, SendQuit, InMessage
    <2>3. CASE ProbeDone /\ pc = "probe"
      BY <1>2, <2>3 DEF ProbeDone, Inv, SafetyInv, SearchMode
    <2>4. CASE InMessage /\ alive /\ UNCHANGED <<opt, count, drop, newndx>>
      BY <1>2, <2>4 DEF RecordAtHand
    <2> QED
      BY <1>2, <2>1, <2>2, <2>3, <2>4, LoopStep
  <1> QED
    BY <1>1, <1>2 DEF RecordAtHand

\* Only LoseMemory leads to "down", and only Retrieve to "ship".
LEMMA ProcessStep ==
    ASSUME ProcessSound, [Next]_vars
    PROVE  ProcessSound'
  <1> USE DEF vars, serverVars, loopVars, dropVars, cursorVars, listVars,
              fastVars, deliverVars, ProcessSound
  <1>1. CASE Arrive \/ ServerUpdate \/ UNCHANGED vars
    BY <1>1 DEF Arrive, ServerUpdate
  <1>2. CASE FlagDeleteNull \/ EndRun \/ Terminate \/ Crash
    BY <1>2 DEF FlagDeleteNull, EndRun, Terminate, Crash, LoseMemory
  <1>3. CASE Retrieve
    BY <1>3 DEF Retrieve
  <1>4. CASE \/ Boot \/ StartPoll \/ Login \/ NoMail \/ SkipListing \/ GetLast
             \/ StartFastUidl \/ Probe \/ ProbeDone \/ ListUids
    BY <1>4 DEF Boot, StartPoll, Login, NoMail, SkipListing, GetLast,
       StartFastUidl, Probe, ProbeDone, ListUids, SendQuit, FirstMessage
  <1>5. CASE \/ CheckOld \/ CheckOldByUidl \/ SkipOversized \/ Ship \/ Drain
             \/ FlagLeave \/ FlagSeen \/ FlagDelete \/ QuitDone \/ EndPoll
    BY <1>5 DEF CheckOld, CheckOldByUidl, SkipOversized, Ship, Drain, FlagLeave,
       FlagSeen, FlagDelete, QuitDone, EndPoll, GoFlag, GoGet, NextMessage,
       AdvanceLoop, SendQuit, CloseSession
  <1>6. CASE \/ LoginFails \/ StatFails \/ ProbeFails \/ ListingBreaks
             \/ CheckOldFails \/ SessionLost \/ SizeFails \/ RetrieveFails
             \/ ShipFails \/ ShipTimesOut \/ FlagDeleteFails \/ QuitFails
    BY <1>6 DEF LoginFails, StatFails, ProbeFails, ListingBreaks, CheckOldFails,
       SessionLost, SizeFails, RetrieveFails, ShipFails, ShipTimesOut,
       FlagDeleteFails, QuitFails, CloseSession, SendQuit, FirstMessage, GoFlag,
       AdvanceLoop
  <1> QED
    BY <1>1, <1>2, <1>3, <1>4, <1>5, <1>6 DEF Next, ClientStep, FaultStep

\* The six parts are kept together.
LEMMA RecordInvStep ==
    ASSUME OnceOptions, Inv, RecordInv, [Next]_vars
    PROVE  RecordInv'
  BY CoversStep, FilledStep, SearchStep, RecordStep, UpdateStep, ProcessStep
  DEF RecordInv

\* A message that is being fetched has an excuse for one more copy.
LEMMA FetchedIsExcused ==
    ASSUME Inv, OnceInv, pc \in {"get", "ship"}
    PROVE  drop[num] \in Msgs /\ copies[drop[num]] <= faults
  <1>1. drop[num] \in Msgs /\ drop[num] \in mbox
    BY RangeFacts DEF Inv, Typed, CursorInRange, SafetyInv, DropInMailbox,
       InSession, InMessage
  <1>2. ~Remembered(drop[num])
    BY <1>1 DEF Remembered
  <1>3. copies[drop[num]] \in Nat /\ faults \in Nat
    BY <1>1, BoundsAssumption DEF Inv, Typed, TypeOK, DeliveryType, CounterType
  <1> QED
    BY <1>1, <1>2, <1>3 DEF OnceInv, Unexcused

\* A fault excuses one more copy of every message.
LEMMA FaultExcuses ==
    ASSUME Inv, OnceInv, Fault,
           \/ copies' = copies
           \/ pc = "ship" /\ CountCopy(drop[num])
    PROVE  OnceInv'
  <1>0. faults \in Nat /\ faults' = faults + 1 /\ copies \in [Msgs -> Nat]
    BY BoundsAssumption DEF Fault, Inv, Typed, TypeOK, DeliveryType, CounterType
  <1> SUFFICES ASSUME NEW m \in Msgs PROVE ~(copies'[m] > faults')
    BY DEF OnceInv, Unexcused
  <1>1. copies[m] \in Nat
    BY <1>0
  <1>2. copies[m] <= faults + 1
    BY <1>0, <1>1 DEF OnceInv, Unexcused
  <1>3. CASE copies'[m] = copies[m]
    BY <1>0, <1>1, <1>2, <1>3
  <1>4. CASE pc = "ship" /\ CountCopy(drop[num]) /\ copies'[m] # copies[m]
    <2>1. m = drop[num]
      BY <1>0, <1>4, FetchedIsExcused DEF CountCopy
    <2>2. copies[m] <= faults
      BY <1>4, <2>1, FetchedIsExcused
    <2>3. copies'[m] <= copies[m] + 1
      BY <1>0, <1>1, <1>4, <2>1 DEF CountCopy
    <2> QED
      BY <1>0, <1>1, <1>4, <2>1, <2>2, <2>3 DEF CountCopy
  <1> QED
    BY <1>3, <1>4

\* A dead connection is the work of a fault that excuses everything.
LEMMA DeadExcuses ==
    ASSUME OnceInv, ~alive, UNCHANGED <<copies, faults>>
    PROVE  OnceInv'
  BY DEF OnceInv, Unexcused

\* Without a fault or a copy it is enough to forget nothing.
LEMMA MemoryKept ==
    ASSUME OnceInv, UNCHANGED <<copies, faults>>, alive => alive',
           \A m \in Msgs : copies[m] > faults /\ alive /\ Remembered(m) => Remembered(m)'
    PROVE  OnceInv'
  BY DEF OnceInv, Unexcused

\* Every fault keeps the account.
LEMMA FaultOnce ==
    ASSUME Inv, OnceInv, FaultStep
    PROVE  OnceInv'
  <1> USE DEF serverVars, loopVars, dropVars, cursorVars, listVars, fastVars,
              deliverVars
  <1>1. CASE \/ Terminate \/ Crash \/ LoginFails \/ StatFails \/ ProbeFails
             \/ ListingBreaks \/ SizeFails \/ RetrieveFails
    BY <1>1, FaultExcuses DEF Terminate, Crash, LoginFails, StatFails,
       ProbeFails, ListingBreaks, SizeFails, RetrieveFails
  <1>2. CASE ShipFails \/ ShipTimesOut
    BY <1>2, FaultExcuses DEF ShipFails, ShipTimesOut
  <1>3. CASE CheckOldFails \/ SessionLost \/ FlagDeleteFails \/ QuitFails
    <2>1. copies' = copies /\ (Fault \/ (~alive /\ faults' = faults))
      BY <1>3 DEF CheckOldFails, SessionLost, FlagDeleteFails, QuitFails
    <2> QED
      BY <2>1, FaultExcuses, DeadExcuses
  <1> QED
    BY <1>1, <1>2, <1>3 DEF FaultStep

\* The server's steps and stuttering keep the account.
LEMMA ServerOnce ==
    ASSUME Inv, DropCovers, OnceInv, Arrive \/ ServerUpdate \/ UNCHANGED vars
    PROVE  OnceInv'
  <1> USE DEF vars, serverVars, loopVars, dropVars, cursorVars, listVars,
              fastVars, deliverVars
  <1>1. /\ UNCHANGED <<copies, faults, alive, pc, result, drop, num, fetchids,
                       oldsaved, newsaved, marked>>
        /\ \A m \in Msgs : copies[m] > faults /\ m \notin mbox => m \notin mbox'
    <2>1. CASE Arrive
      <3>1. copies[next] = 0
        BY <2>1, BoundsAssumption DEF Arrive, DropCovers, Inv, Typed, TypeOK,
           ServerType, Msgs
      <3>2. faults \in Nat
        BY BoundsAssumption DEF Inv, Typed, TypeOK, CounterType
      <3> QED
        BY <2>1, <3>1, <3>2 DEF Arrive
    <2>2. CASE ServerUpdate \/ UNCHANGED vars
      BY <2>2 DEF ServerUpdate
    <2> QED
      BY <2>1, <2>2
  <1>2. \A m \in Msgs : copies[m] > faults /\ alive /\ Remembered(m) => Remembered(m)'
    BY <1>1 DEF Remembered, Kept
  <1> QED
    BY <1>1, <1>2, MemoryKept

\* What a full UIDL listing makes of a message that is kept in the old list.
LEMMA ListingKeeps ==
    ASSUME Inv, EnterListing(count), NEW m \in Msgs, Kept(m, oldsaved[m]),
           \E i \in 1..count : drop[i] = m
    PROVE  oldsaved'[m] = "seen" /\ newsaved'[m] = "seen"
  <1>1. ListedStatus(oldsaved[m]) = "seen"
    BY DEF Kept, ListedStatus
  <1>2. m \in {drop[i] : i \in 1..count}
    OBVIOUS
  <1> QED
    BY <1>1, <1>2 DEF EnterListing

\* pop3_is_old recognises every message that is kept.
LEMMA KeptIsOld ==
    ASSUME OnceOptions, Inv, RecordInv, alive, pc = "check",
           Kept(drop[num], oldsaved[drop[num]]),
           IsEmptyList(newsaved) \/ Kept(drop[num], newsaved[drop[num]])
    PROVE  NeedUidl \/ IsOld
  <1>1. /\ num \in 1..count /\ drop[num] \in Msgs /\ num \in Nat /\ last \in Nat
        /\ oldndx[num] \in {NoMsg, drop[num]} /\ newndx[num] \in {NoMsg, drop[num]}
    BY RangeFacts DEF Inv, Typed, TypeOK, CounterType, CursorInRange, SafetyInv,
       IndexMatchesServer, InLoop
  <1>2. ~IsEmptyList(oldsaved)
    BY <1>1 DEF RecordInv, ListFilled, InMessage
  <1>3. CASE dofastuidl
    <2>1. oldsaved[drop[num]] # "unseen"
      BY DEF Kept
    <2>2. num <= last \/ num > last
      BY <1>1
    <2> QED
      BY <1>1, <1>2, <1>3, <2>1, <2>2 DEF IsOld, NeedUidl
  <1>4. CASE ~dofastuidl
    <2>1. Listing
      BY <1>4, OnceFacts DEF Listing, InMessage
    <2>2. newndx[num] # NoMsg => newndx[num] = drop[num] /\ newsaved[drop[num]] # "none"
      BY <1>1, <2>1 DEF Inv, SafetyInv, ListingComplete
    <2>3. newndx[num] # NoMsg => newsaved[newndx[num]] # "unseen"
      BY <1>1, <2>2 DEF IsEmptyList, Kept
    <2> QED
      BY <1>2, <1>4, <2>3 DEF IsOld
  <1> QED
    BY <1>3, <1>4

\* What the listener has answered for is deleted or marked, never just left.
LEMMA ShippedIsFlagged ==
    \A o \in Options : Disposition("shipped", o) \in {"delete", "mark"}
  BY OptionFacts DEF Disposition, SuppressDelete, SuppressForward, WantDelete

\* Marking the message at hand by its number keeps every message that is
\* kept, and adds the one at hand.
LEMMA MarkKeeps ==
    ASSUME OnceOptions, Inv, RecordInv, alive, pc = "flag",
           NEW s, NEW t,
           newsaved' = SetByNum(newsaved, newndx, num, s),
           oldsaved' = SetByNum(oldsaved, oldndx, num, t),
           IF dofastuidl THEN s = "seen" ELSE t = "seen",
           s \in {"seen", "deleted"} /\ t \in {"seen", "deleted"},
           "deleted" \in {s, t} => drop[num] \in marked',
           marked \subseteq marked',
           NEW m \in Msgs,
           \/ result = "shipped" /\ drop[num] = m
           \/ /\ Kept(m, oldsaved[m])
              /\ IsEmptyList(newsaved) \/ Kept(m, newsaved[m])
    PROVE  /\ Kept(m, oldsaved[m])'
           /\ IsEmptyList(newsaved') \/ Kept(m, newsaved[m])'
  <1>1. /\ num \in 1..count /\ num \in Nums /\ drop[num] \in Msgs
        /\ newsaved \in [Msgs -> UidStatus] /\ oldsaved \in [Msgs -> UidStatus]
        /\ newndx \in [Nums -> Msgs \cup {NoMsg}]
        /\ oldndx \in [Nums -> Msgs \cup {NoMsg}]
        /\ oldndx[num] \in {NoMsg, drop[num]} /\ newndx[num] \in {NoMsg, drop[num]}
    BY RangeFacts DEF Inv, Typed, TypeOK, ListType, CursorInRange, SafetyInv,
       IndexMatchesServer, InLoop
  <1>2. s \in UidStatus /\ t \in UidStatus /\ NoMsg \notin Msgs
    BY EmptyFacts DEF UidStatus
  <1>3. \A x \in Msgs : x # drop[num] =>
           oldsaved'[x] = oldsaved[x] /\ newsaved'[x] = newsaved[x]
    BY <1>1, <1>2 DEF SetByNum
  <1>4. /\ oldndx[num] = drop[num] => oldsaved'[drop[num]] = t
        /\ oldndx[num] = NoMsg => oldsaved' = oldsaved
        /\ newndx[num] = drop[num] => newsaved'[drop[num]] = s
        /\ newndx[num] = NoMsg => newsaved' = newsaved
    BY <1>1, <1>2 DEF SetByNum
  <1>5. IsEmptyList(newsaved) => newsaved' = newsaved
    <2>1. CASE dofastuidl
      <3>1. newndx = EmptyNdx
        BY <2>1 DEF RecordInv, SearchLeavesNew, InMessage
      <3>2. newndx[num] = NoMsg
        BY <1>1, <3>1, EmptyFacts
      <3> QED
        BY <1>4, <3>2
    <2>2. CASE ~dofastuidl
      <3>1. Listing
        BY <2>2, OnceFacts DEF Listing, InMessage
      <3>2. newndx[num] # NoMsg => newsaved[drop[num]] # "none"
        BY <1>1, <3>1 DEF Inv, SafetyInv, ListingComplete
      <3> QED
        BY <1>1, <1>4, <3>2 DEF IsEmptyList
    <2> QED
      BY <2>1, <2>2
  <1>6. CASE m # drop[num]
    BY <1>3, <1>5, <1>6 DEF Kept
  <1>7. CASE m = drop[num] /\ ~(result = "shipped")
    BY <1>1, <1>4, <1>5, <1>7 DEF Kept
  <1>8. CASE m = drop[num] /\ result = "shipped"
    <2>1. DeleteRecord = drop[num]
      BY <1>8 DEF RecordInv, RecordAtHand, InMessage
    <2>2. CASE dofastuidl
      <3>1. oldndx[num] = drop[num]
        BY <2>1, <2>2 DEF DeleteRecord
      <3>2. newsaved = EmptyList
        BY <2>2 DEF RecordInv, SearchLeavesNew, InMessage
      <3>3. IsEmptyList(newsaved)
        BY <3>2, EmptyFacts DEF IsEmptyList
      <3> QED
        BY <1>4, <1>5, <1>8, <2>2, <3>1, <3>3 DEF Kept
    <2>3. CASE ~dofastuidl
      <3>1. newndx[num] = drop[num]
        BY <2>1, <2>3 DEF DeleteRecord
      <3>2. oldndx = newndx
        BY <2>3, OnceFacts DEF Inv, SafetyInv, IndexesAgree, InMessage
      <3> QED
        BY <1>4, <1>8, <2>3, <3>1, <3>2 DEF Kept
    <2> QED
      BY <2>2, <2>3
  <1> QED
    BY <1>6, <1>7, <1>8

\* The record pop3_delete writes to exists, so the process does not die there.
LEMMA RecordExists ==
    ASSUME OnceOptions, Inv, RecordInv, alive, pc = "flag",
           Disposition(result, opt) = "delete"
    PROVE  DeleteRecord # NoMsg
  <1>1. num \in 1..count /\ drop[num] \in Msgs /\ result \in Results /\ opt \in Options
    BY RangeFacts DEF Inv, Typed, TypeOK, ControlType, CursorInRange, SafetyInv,
       ResultSound
  <1>2. CASE result # "old"
    BY <1>1, <1>2, EmptyFacts DEF RecordInv, RecordAtHand, InMessage
  <1>3. CASE result = "old"
    <2>1. opt.flush
      BY <1>1, <1>3, DispositionFacts
    <2>2. ~dofastuidl
      BY <2>1 DEF Inv, SafetyInv, SearchMode
    <2> QED
      BY <1>1, <2>1, <2>2 DEF RecordInv, RecordAtHand, InMessage, DeleteRecord
  <1> QED
    BY <1>2, <1>3

\* Outside the middle of a message, remembering m means this.
LEMMA RememberedFacts ==
    ASSUME NEW m, Remembered(m), m \in mbox, pc # "down",
           ~(pc = "flag" /\ result = "shipped" /\ drop[num] = m)
    PROVE  /\ Kept(m, oldsaved[m])
           /\ IsEmptyList(newsaved) \/ Kept(m, newsaved[m])
           /\ ~(pc \in {"get", "ship"} /\ drop[num] = m)
  BY DEF Remembered

\* Every step of fetchmail keeps the account.
LEMMA ClientOnce ==
    ASSUME OnceOptions, Inv, RecordInv, OnceInv, ClientStep
    PROVE  OnceInv'
  <1> USE DEF serverVars, loopVars, dropVars, cursorVars, listVars, fastVars,
              deliverVars
  <1>0. /\ ~opt.fetchall /\ ~UseLast
        /\ IsEmptyList(EmptyList) /\ faults \in Nat
        /\ copies \in [Msgs -> Nat]
        /\ oldsaved \in [Msgs -> UidStatus]
        /\ result \in Results \cup {"none", "open"} /\ opt \in Options
    BY OnceFacts, EmptyFacts, BoundsAssumption
    DEF IsEmptyList, Inv, Typed, TypeOK, CounterType, DeliveryType, ListType, ControlType
  <1>1. CASE Boot
    <2>1. IsEmptyList(newsaved) /\ pc = "down"
      BY <1>0, <1>1 DEF Boot, RecordInv, ProcessSound
    <2>2. ASSUME NEW m \in Msgs, Remembered(m) PROVE Remembered(m)'
      BY <1>1, <2>1, <2>2 DEF Boot, Remembered, Kept, LoadedList
    <2> QED
      BY <1>1, <2>2, MemoryKept DEF Boot
  <1>2. CASE StartPoll \/ Login \/ ProbeDone
    <2>1. ASSUME NEW m \in Msgs, Remembered(m) PROVE Remembered(m)'
      BY <1>2, <2>1 DEF StartPoll, Login, ProbeDone, FirstMessage, Remembered, Kept
    <2> QED
      BY <1>2, <2>1, MemoryKept DEF StartPoll, Login, ProbeDone
  <1>3. CASE NoMail \/ StartFastUidl
    <2>1. newsaved' = EmptyList /\ IsEmptyList(newsaved')
      BY <1>0, <1>3 DEF NoMail, StartFastUidl, ClearNew
    <2>2. ASSUME NEW m \in Msgs, Remembered(m) PROVE Remembered(m)'
      BY <1>3, <2>1, <2>2 DEF NoMail, StartFastUidl, WantListing, SendQuit, Remembered, Kept
    <2> QED
      BY <1>3, <2>2, MemoryKept DEF NoMail, StartFastUidl
  <1>4. CASE SkipListing \/ GetLast
    BY <1>0, <1>4 DEF SkipListing, GetLast
  <1>5. CASE Probe
    <2>1. Try \in 1..count
      BY <1>5 DEF Probe, Try, Inv, Typed, TypeOK, CounterType, CursorInRange, DropType
    <2>2. drop[Try] \in Msgs
      BY <2>1, RangeFacts DEF Inv
    <2>3. ASSUME NEW m \in Msgs, Kept(m, oldsaved[m]) PROVE Kept(m, oldsaved[m])'
      BY <1>0, <1>5, <2>2, <2>3 DEF Probe, EnterOld, ListedStatus, Kept
    <2>4. ASSUME NEW m \in Msgs, Remembered(m) PROVE Remembered(m)'
      BY <1>5, <2>3, <2>4 DEF Probe, Remembered, Kept
    <2> QED
      BY <1>5, <2>4, MemoryKept DEF Probe
  <1>6. CASE ListUids
    <2>1. /\ EnterListing(count) /\ pc = "range" /\ pc' = "check"
          /\ UNCHANGED <<copies, faults, alive, mbox>>
      BY <1>6 DEF ListUids, WantListing, FirstMessage
    <2>2. ASSUME NEW m \in Msgs, copies[m] > faults, Remembered(m)
          PROVE  Remembered(m)'
      <3>1. CASE m \notin mbox
        BY <2>1, <3>1 DEF Remembered
      <3>2. CASE m \in mbox
        <4>1. copies[m] > 0
          BY <1>0, <2>2
        <4>2. \E i \in 1..count : drop[i] = m
          BY <2>1, <3>2, <4>1 DEF RecordInv, DropCovers
        <4>3. Kept(m, oldsaved[m])
          BY <2>1, <2>2, <3>2, RememberedFacts
        <4>4. oldsaved'[m] = "seen" /\ newsaved'[m] = "seen"
          BY <2>1, <4>2, <4>3, ListingKeeps
        <4> QED
          BY <2>1, <4>4 DEF Remembered, Kept
      <3> QED
        BY <3>1, <3>2
    <2> QED
      BY <2>1, <2>2, MemoryKept
  <1>7. CASE CheckOld
    <2>1. ASSUME NEW m \in Msgs, alive, Remembered(m) PROVE Remembered(m)'
      <3>1. /\ UNCHANGED <<mbox, oldsaved, newsaved, marked, drop, num>>
            /\ pc = "check" /\ pc' \in {"get", "flag"}
            /\ pc' = "get" => ~IsOld /\ ~NeedUidl
        BY <1>0, <1>7 DEF CheckOld, GoFlag, GoGet
      <3>2. CASE m \in mbox
        <4>1. /\ Kept(m, oldsaved[m])
              /\ IsEmptyList(newsaved) \/ Kept(m, newsaved[m])
          BY <2>1, <3>1, <3>2, RememberedFacts
        <4>2. pc' = "get" => drop[num] # m
          BY <2>1, <3>1, <4>1, KeptIsOld
        <4> QED
          BY <3>1, <4>1, <4>2 DEF Remembered, Kept
      <3> QED
        BY <3>1, <3>2 DEF Remembered
    <2> QED
      BY <1>7, <2>1, MemoryKept DEF CheckOld
  <1>8. CASE CheckOldByUidl
    <2>1. ASSUME NEW m \in Msgs, Remembered(m) PROVE Remembered(m)'
      <3>1. /\ UNCHANGED <<mbox, newsaved, marked, drop, num>>
            /\ pc = "check" /\ pc' \in {"get", "flag"}
            /\ oldsaved' = [oldsaved EXCEPT ![drop[num]] =
                  IF oldsaved[drop[num]] = "none" THEN "unseen" ELSE oldsaved[drop[num]]]
            /\ oldsaved[drop[num]] \notin {"none", "unseen"} => pc' = "flag"
        BY <1>8 DEF CheckOldByUidl, GoFlag, GoGet
      <3>2. CASE m \in mbox
        <4>1. /\ Kept(m, oldsaved[m])
              /\ IsEmptyList(newsaved) \/ Kept(m, newsaved[m])
          BY <2>1, <3>1, <3>2, RememberedFacts
        <4>2. drop[num] = m => pc' = "flag"
          BY <3>1, <4>1 DEF Kept
        <4>3. oldsaved'[m] = oldsaved[m]
          BY <1>0, <3>1, <4>1 DEF Kept
        <4> QED
          BY <3>1, <4>1, <4>2, <4>3 DEF Remembered, Kept
      <3> QED
        BY <3>1, <3>2 DEF Remembered
    <2> QED
      BY <1>8, <2>1, MemoryKept DEF CheckOldByUidl
  <1>9. CASE SkipOversized \/ Drain
    <2>1. ASSUME NEW m \in Msgs, Remembered(m) PROVE Remembered(m)'
      BY <1>9, <2>1 DEF SkipOversized, Drain, GoFlag, Remembered, Kept
    <2> QED
      BY <1>9, <2>1, MemoryKept DEF SkipOversized, Drain
  <1>10. CASE Retrieve
    <2>1. copies' = copies /\ (Fault \/ faults' = faults)
      BY <1>10 DEF Retrieve
    <2>2. ASSUME NEW m \in Msgs, Remembered(m) PROVE Remembered(m)'
      BY <1>10, <2>2 DEF Retrieve, Remembered, Kept
    <2>3. alive' = alive
      BY <1>10 DEF Retrieve
    <2> QED
      BY <2>1, <2>2, <2>3, MemoryKept, FaultExcuses
  <1>11. CASE Ship
    <2>1. drop[num] \in Msgs /\ copies[drop[num]] <= faults /\ alive
      BY <1>11, FetchedIsExcused DEF Ship, RecordInv, ProcessSound
    <2>2. /\ UNCHANGED <<mbox, oldsaved, newsaved, marked, drop, num, faults, alive>>
          /\ pc = "ship" /\ pc' = "flag" /\ result' = "shipped"
          /\ copies' = copies \/ CountCopy(drop[num])
      BY <1>11 DEF Ship, GoFlag
    <2>3. copies'[drop[num]] <= faults + 1 /\ copies'[drop[num]] \in Nat
      BY <1>0, <2>1, <2>2 DEF CountCopy
    <2>4. \A m \in Msgs : m # drop[num] => copies'[m] = copies[m]
      BY <1>0, <2>1, <2>2 DEF CountCopy
    <2>5. ASSUME NEW m \in Msgs, Remembered(m) PROVE Remembered(m)'
      BY <2>2, <2>5 DEF Remembered, Kept
    <2>6. ASSUME NEW m \in Msgs, copies'[m] > faults'
          PROVE  copies'[m] = faults' + 1 /\ alive' /\ Remembered(m)'
      <3>1. CASE m = drop[num]
        BY <1>0, <2>1, <2>2, <2>3, <2>6, <3>1 DEF Remembered
      <3>2. CASE m # drop[num]
        BY <2>2, <2>4, <2>5, <2>6, <3>2 DEF OnceInv, Unexcused
      <3> QED
        BY <3>1, <3>2
    <2> QED
      BY <2>6 DEF OnceInv, Unexcused
  <1>12. CASE FlagLeave
    <2>1. /\ UNCHANGED <<mbox, oldsaved, newsaved, marked, drop>>
          /\ pc = "flag" /\ pc' \in {"check", "quit"} /\ result # "shipped"
      BY <1>0, <1>12, ShippedIsFlagged
      DEF FlagLeave, NextMessage, AdvanceLoop, SendQuit
    <2>2. ASSUME NEW m \in Msgs, Remembered(m) PROVE Remembered(m)'
      BY <2>1, <2>2 DEF Remembered, Kept
    <2> QED
      BY <1>12, <2>2, MemoryKept DEF FlagLeave
  <1>13. CASE FlagSeen \/ FlagDelete
    <2>1. /\ UNCHANGED <<mbox, copies, faults, alive>>
          /\ pc = "flag" /\ pc' \in {"check", "quit"}
      BY <1>13 DEF FlagSeen, FlagDelete, NextMessage, AdvanceLoop, SendQuit
    <2>2. \E s, t \in {"seen", "deleted"} :
             /\ newsaved' = SetByNum(newsaved, newndx, num, s)
             /\ oldsaved' = SetByNum(oldsaved, oldndx, num, t)
             /\ IF dofastuidl THEN s = "seen" ELSE t = "seen"
             /\ "deleted" \in {s, t} => drop[num] \in marked'
             /\ marked \subseteq marked'
      <3>1. CASE FlagSeen
        BY <3>1 DEF FlagSeen, MarkSeen
      <3>2. CASE FlagDelete
        BY <3>2 DEF FlagDelete
      <3> QED
        BY <1>13, <3>1, <3>2
    <2>3. PICK s \in {"seen", "deleted"}, t \in {"seen", "deleted"} :
             /\ newsaved' = SetByNum(newsaved, newndx, num, s)
             /\ oldsaved' = SetByNum(oldsaved, oldndx, num, t)
             /\ IF dofastuidl THEN s = "seen" ELSE t = "seen"
             /\ "deleted" \in {s, t} => drop[num] \in marked'
             /\ marked \subseteq marked'
      BY <2>2
    <2>4. ASSUME NEW m \in Msgs, alive, Remembered(m) PROVE Remembered(m)'
      <3>1. CASE m \notin mbox
        BY <2>1, <3>1 DEF Remembered
      <3>2. CASE m \in mbox
        <4>1. \/ result = "shipped" /\ drop[num] = m
              \/ /\ Kept(m, oldsaved[m])
                 /\ IsEmptyList(newsaved) \/ Kept(m, newsaved[m])
          BY <2>1, <2>4, <3>2, RememberedFacts
        <4>2. /\ Kept(m, oldsaved[m])'
              /\ IsEmptyList(newsaved') \/ Kept(m, newsaved[m])'
          BY <2>1, <2>3, <2>4, <4>1, MarkKeeps
        <4> QED
          BY <2>1, <4>2 DEF Remembered
      <3> QED
        BY <3>1, <3>2
    <2> QED
      BY <2>1, <2>4, MemoryKept
  <1>14. CASE FlagDeleteNull
    BY <1>14, RecordExists DEF FlagDeleteNull
  <1>15. CASE QuitDone
    <2>1. /\ UNCHANGED <<mbox, copies, faults>>
          /\ pc = "quit" /\ pc' \in {"login", "polled"} /\ alive'
          /\ oldsaved' \in {oldsaved, Expunged(oldsaved)}
          /\ newsaved' \in {newsaved, Expunged(newsaved)}
          /\ mbox \cap marked = {}
      BY <1>15 DEF QuitDone, CloseSession, RecordInv, UpdateRemoves
    <2>2. ASSUME NEW m \in Msgs, Remembered(m) PROVE Remembered(m)'
      <3>1. CASE m \notin mbox
        BY <2>1, <3>1 DEF Remembered
      <3>2. CASE m \in mbox
        <4>1. /\ oldsaved[m] = "seen"
              /\ IsEmptyList(newsaved) \/ newsaved[m] = "seen"
          BY <2>1, <2>2, <3>2, RememberedFacts DEF Kept
        <4>2. /\ oldsaved'[m] = "seen"
              /\ IsEmptyList(newsaved') \/ newsaved'[m] = "seen"
          BY <2>1, <4>1 DEF Expunged, IsEmptyList
        <4> QED
          BY <2>1, <4>2 DEF Remembered, Kept
      <3> QED
        BY <3>1, <3>2
    <2> QED
      BY <2>1, <2>2, MemoryKept
  <1>16. CASE EndPoll \/ EndRun
    <2>1. /\ UNCHANGED <<mbox, copies>> /\ pc = "polled"
          /\ alive' = alive \/ alive'
          /\ Fault \/ (faults' = faults /\ fetchids' = SavedIds(PolledList))
          /\ pc' = "down" \/ (pc' = "asleep" /\ newsaved' = EmptyList
                              /\ oldsaved' = PolledList /\ marked' = marked)
      BY <1>16 DEF EndPoll, EndRun, LoseMemory
    <2>2. ASSUME NEW m \in Msgs, Remembered(m), fetchids' = SavedIds(PolledList)
          PROVE  Remembered(m)'
      <3>1. CASE m \notin mbox
        BY <2>1, <3>1 DEF Remembered
      <3>2. CASE m \in mbox
        <4>1. /\ Kept(m, oldsaved[m])
              /\ IsEmptyList(newsaved) \/ Kept(m, newsaved[m])
          BY <2>1, <2>2, <3>2, RememberedFacts
        <4>2. Kept(m, PolledList[m])
          BY <4>1 DEF PolledList, SwapLists
        <4>3. m \in fetchids'
          BY <2>2, <4>2 DEF SavedIds, Kept
        <4> QED
          BY <1>0, <2>1, <4>2, <4>3 DEF Remembered, Kept
      <3> QED
        BY <3>1, <3>2
    <2> QED
      BY <2>1, <2>2, MemoryKept, FaultExcuses
  <1> QED
    BY <1>1, <1>2, <1>3, <1>4, <1>5, <1>6, <1>7, <1>8, <1>9, <1>10, <1>11,
       <1>12, <1>13, <1>14, <1>15, <1>16 DEF ClientStep

\* Before the first run nothing has been delivered.
LEMMA InitOnce == Init => RecordInv /\ OnceInv
  <1> SUFFICES ASSUME Init PROVE RecordInv /\ OnceInv
    OBVIOUS
  <1>1. \A m \in Msgs : copies[m] = 0
    BY DEF Init
  <1> QED
    BY <1>1, EmptyFacts
    DEF Init, RecordInv, DropCovers, ListFilled, SearchLeavesNew, RecordAtHand,
        UpdateRemoves, ProcessSound, OnceInv, Unexcused, InMessage

\* RecordInv and OnceInv are inductive, relative to Inv.
LEMMA OnceInvariance ==
    ASSUME OnceOptions
    PROVE  Spec => [](Inv /\ RecordInv /\ OnceInv)
  <1>1. Init => Inv /\ RecordInv /\ OnceInv
    BY InitTyped, InitSafe, InitOnce DEF Inv
  <1>2. ASSUME Inv, RecordInv, OnceInv, [Next]_vars
        PROVE  (Inv /\ RecordInv /\ OnceInv)'
    <2>1. SafeOptions
      BY <1>2, OnceFacts
    <2>2. Inv'
      BY <1>2, <2>1, ClientTyped, FaultTyped, ServerTyped, StutterTyped,
         ClientSafe, FaultSafe, ServerSafe, StutterSafe DEF Next, Inv
    <2>3. RecordInv'
      BY <1>2, RecordInvStep
    <2>4. OnceInv'
      BY <1>2, ClientOnce, FaultOnce, ServerOnce DEF Next, RecordInv
    <2> QED
      BY <2>2, <2>3, <2>4
  <1> QED
    BY <1>1, <1>2, PTL DEF Spec

\* For users without fetchall, and with uidl where the server has LAST, every
\* copy of a message handed to the listener after the first (driver.c's
\* fetch_messages, pop3_is_old) is owed to a fault, over all sessions, swapped
\* lists, id files and restarts.
THEOREM CopiesAreOwed ==
    ASSUME OnceOptions
    PROVE  Spec => []CopiesNeedFaults
  <1>1. Inv /\ OnceInv => CopiesNeedFaults
    <2> SUFFICES ASSUME Inv, OnceInv, NEW m \in Msgs
                 PROVE  copies[m] <= 1 + faults
      BY DEF CopiesNeedFaults
    <2>1. copies[m] \in Nat /\ faults \in Nat
      BY BoundsAssumption DEF Inv, Typed, TypeOK, DeliveryType, CounterType
    <2> QED
      BY <2>1 DEF OnceInv, Unexcused
  <1> QED
    BY <1>1, OnceInvariance, PTL

\* For the same users pop3_delete always finds the record it writes to
\* (pop3.c:1374), so FlagDeleteNull, the null pointer, is never reached.
THEOREM DeletesAreRecorded ==
    ASSUME OnceOptions
    PROVE  Spec => []DeleteHasRecord
  <1>1. Inv /\ RecordInv => DeleteHasRecord
    BY RecordExists DEF DeleteHasRecord
  <1> QED
    BY <1>1, OnceInvariance, PTL
=============================================================================
