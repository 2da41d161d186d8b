--------------------------- MODULE SmtpSinkProofs ---------------------------
(***************************************************************************)
(* Proofs about the delivery to a listener, for every number of messages,  *)
(* recipients and faults: types, dialogues in step, and that no recipient  *)
(* is forgotten when a message is deleted.                                 *)
(***************************************************************************)
EXTENDS SmtpSink, FiniteSetTheorems, TLAPS

\* A message is in hand exactly while a dialogue runs, and it is still queued.
InHand ==
    /\ pc = "idle" => msg = NoMsg
    /\ pc # "idle" => msg \in Msgs /\ msg \in queue
    /\ pc \in {"from", "rcpt", "postmaster", "data"} => Smtp
    /\ pc = "replies" => opt.mode = "L"

\* What the listener knows of the dialogue.
Known ==
    /\ pc # "replies" => unread = {}
    /\ ~Smtp => state = "idle" /\ taken = {}
    /\ pc \in {"idle", "from"} => state = "idle" /\ taken = {} /\ good = {}
    /\ pc \in {"rcpt", "postmaster"} => taken = good
    /\ pc = "postmaster" => good = {}
    /\ pc \in {"data", "text", "eom", "replies"} /\ Smtp
           => taken = IF good = {} THEN {Postmaster} ELSE good

\* LMTP replies: one for each recipient, and true.
Replies ==
    pc = "replies" =>
        /\ state = "idle"
        /\ IsFiniteSet(unread) /\ Cardinality(unread) = Cardinality(taken)
        /\ \A x \in taken : \/ <<x, TRUE>> \in unread /\ x \in got[msg]
                            \/ <<x, FALSE>> \in unread

\* Every recipient is waiting, taken, refused, or the reason to try again.
Accounted ==
    /\ pc = "rcpt" => \A r \in Rcpts : r \in todo \cup good \cup denied[msg] \/ force
    /\ pc \in {"postmaster", "data", "text", "eom", "replies"} /\ Smtp
           => \A r \in Rcpts : r \in good \cup denied[msg]

SinkInv == TypeOK /\ InHand /\ Known /\ Replies /\ Accounted /\ NothingDropped

\* The configuration is one of the kinds the model knows.
LEMMA OptFacts ==
    ASSUME TypeOK
    PROVE  /\ opt \in OptionType
           /\ opt.batchlimit \in Nat
           /\ opt.mode \in {"S", "L", "mda", "bsmtp"}
  BY OptionsAssumption DEF TypeOK, OptionType

\* The listener's state after a reset or a closed connection.
LEMMA RsetFacts ==
    ASSUME Rset \/ Close
    PROVE  /\ state' = "idle" /\ taken' = {}
           /\ unread' = unread \/ unread' = {}
  BY DEF Rset, Close, Hangup

\* The same of fetchmail's own record of the connection.
LEMMA RsetCounts ==
    ASSUME Rset \/ Close
    PROVE  /\ batchcount' = batchcount \/ batchcount' = 0
           /\ served' = served \/ served' = 0
  BY DEF Rset, Close, Hangup

\* An LMTP listener sends as many replies as it has taken recipients.
LEMMA OneReplyEach ==
    ASSUME NEW S, NEW T, IsFiniteSet(S)
    PROVE  LET U == {<<x, x \in T>> : x \in S}
           IN IsFiniteSet(U) /\ Cardinality(U) = Cardinality(S)
  <1> DEFINE U == {<<x, x \in T>> : x \in S}
             f == [x \in S |-> <<x, x \in T>>]
  <1>1. f \in Bijection(S, U)
    BY DEF Bijection, Injection, Surjection, IsInjective
  <1>2. ExistsBijection(S, U)
    BY <1>1 DEF ExistsBijection
  <1> QED
    BY <1>2, FS_Bijection

\* All replies are read: lmtp_responses is their number.
LEMMA AllRead ==
    ASSUME TypeOK, Known, Replies, Smtp, pc = "replies",
           NEW read \in SUBSET unread, Cardinality(read) = ResponsesRead
    PROVE  read = unread
  <1>1. Cardinality(unread) = ResponsesRead
    BY FS_Singleton DEF Known, Replies, ResponsesRead
  <1> QED
    BY <1>1, FS_Subset DEF Replies

\* The invariant holds when fetchmail starts.
LEMMA InitSink == Init => SinkInv
  <1> SUFFICES ASSUME Init PROVE SinkInv
    OBVIOUS
  <1>1. opt.batchlimit \in Nat
    BY OptionsAssumption DEF Init, OptionType
  <1>2. TypeOK
    <2>1. unread \subseteq (Everyone \X BOOLEAN)
      BY DEF Init
    <2>2. got \in [Msgs -> SUBSET Everyone]
      BY DEF Init
    <2>3. denied \in [Msgs -> SUBSET Rcpts] /\ told \in [Msgs -> SUBSET Everyone]
      BY DEF Init
    <2>4. batchcount \in 0..opt.batchlimit /\ faults \in 0..MaxFaults
      BY <1>1, FaultsAssumption DEF Init
    <2>5. queue \subseteq Msgs /\ todo \subseteq Rcpts /\ good \subseteq Rcpts
          /\ bad \subseteq Rcpts /\ taken \subseteq Everyone
      BY DEF Init
    <2> QED
      BY <2>1, <2>2, <2>3, <2>4, <2>5
      DEF Init, TypeOK, DialogTyped, ListenerTyped, FatesTyped, PCs
  <1> QED
    BY <1>2 DEF Init, SinkInv, InHand, Known, Replies, Accounted, NothingDropped

\* The end of a message clears the dialogue.
LEMMA DoneTyped ==
    ASSUME DialogTyped, NEW d \in BOOLEAN, Done(d)
    PROVE  DialogTyped'
  BY DEF DialogTyped, Done, PCs

\* A reset or a closed connection leaves a typed listener.
LEMMA RsetTyped ==
    ASSUME TypeOK, UNCHANGED opt, Rset \/ Close
    PROVE  ListenerTyped'
  <1>1. batchcount' \in 0..opt'.batchlimit
    <2>1. batchcount \in 0..opt.batchlimit
      BY DEF TypeOK, ListenerTyped
    <2> QED
      BY <2>1, OptFacts, RsetCounts
  <1>2. sock' \in BOOLEAN
    BY DEF TypeOK, ListenerTyped, Rset, Close
  <1>3. unread' \subseteq (Everyone \X BOOLEAN)
    BY RsetFacts DEF TypeOK, ListenerTyped
  <1>4. served' \in Nat
    <2>1. served \in Nat
      BY DEF TypeOK, ListenerTyped
    <2> QED
      BY <2>1, RsetCounts
  <1>5. state' \in {"idle", "mail", "data"} /\ taken' \subseteq Everyone
    BY RsetFacts
  <1> QED
    BY <1>1, <1>2, <1>3, <1>4, <1>5 DEF ListenerTyped, Everyone

\* Faults are counted up to their bound.
LEMMA FaultTyped ==
    ASSUME faults \in 0..MaxFaults, NEW c, Fault \/ Note(c) \/ UNCHANGED faults
    PROVE  faults' \in 0..MaxFaults
  BY FaultsAssumption DEF Fault, Note

\* Notifications for a message in hand are about its recipients.
LEMMA TellTyped ==
    ASSUME FatesTyped, msg \in Msgs, NEW rs \in SUBSET Everyone,
           Tell(msg, rs) \/ UNCHANGED told
    PROVE  told' \in [Msgs -> SUBSET Everyone]
  BY DEF FatesTyped, Tell

\* Refusals of a message in hand are those of its recipients.
LEMMA DenyTyped ==
    ASSUME FatesTyped, msg \in Msgs, NEW rs \in SUBSET Rcpts,
           Deny(msg, rs) \/ UNCHANGED denied
    PROVE  denied' \in [Msgs -> SUBSET Rcpts]
  BY DEF FatesTyped, Deny

\* Only recipients and the postmaster receive it.
LEMMA GiveTyped ==
    ASSUME FatesTyped, msg \in Msgs, NEW rs \in SUBSET Everyone,
           Give(msg, rs) \/ UNCHANGED got
    PROVE  got' \in [Msgs -> SUBSET Everyone]
  BY DEF FatesTyped, Give

\* The refusal of a whole message keeps the types.
LEMMA RefuseTyped ==
    ASSUME TypeOK, msg \in Msgs, NEW c \in Errors, RefuseAll(c),
           UNCHANGED <<opt, got>>
    PROVE  TypeOK'
  <1>1. faults' \in 0..MaxFaults
    BY FaultTyped DEF RefuseAll, TypeOK
  <1>2. DialogTyped'
    BY DoneTyped DEF RefuseAll, TypeOK
  <1>3. ListenerTyped'
    BY RsetTyped DEF RefuseAll
  <1>4. told' \in [Msgs -> SUBSET Everyone]
    BY TellTyped DEF RefuseAll, TypeOK, Everyone
  <1>5. denied' \in [Msgs -> SUBSET Rcpts]
    BY DenyTyped DEF RefuseAll, TypeOK
  <1> QED
    BY <1>1, <1>2, <1>3, <1>4, <1>5 DEF TypeOK, FatesTyped

\* A step that ends the message, over a reset or closed connection.
LEMMA EndTyped ==
    ASSUME TypeOK, UNCHANGED opt, NEW d \in BOOLEAN, Done(d), Rset \/ Close,
           Fault \/ UNCHANGED faults, FatesTyped'
    PROVE  TypeOK'
  <1>1. faults' \in 0..MaxFaults
    BY FaultTyped DEF TypeOK
  <1>2. DialogTyped'
    BY DoneTyped DEF TypeOK
  <1> QED
    BY <1>1, <1>2, RsetTyped DEF TypeOK

\* Nothing happens to the listener, or to the fates.
LEMMA StillTyped ==
    /\ TypeOK /\ UNCHANGED <<opt, sock, batchcount, served, state, taken, unread>>
           => ListenerTyped'
    /\ TypeOK /\ UNCHANGED <<got, denied, told>> => FatesTyped'
  <1>1. ASSUME TypeOK,
               UNCHANGED <<opt, sock, batchcount, served, state, taken, unread>>
        PROVE  ListenerTyped'
    BY <1>1 DEF TypeOK, ListenerTyped
  <1>2. ASSUME TypeOK, UNCHANGED <<got, denied, told>> PROVE FatesTyped'
    BY <1>2 DEF TypeOK, FatesTyped
  <1> QED
    BY <1>1, <1>2

\* Every action keeps the types.
LEMMA StepTyped ==
    ASSUME TypeOK, InHand, Next
    PROVE  TypeOK'
  <1> USE DEF dialogVars, lstVars, fateVars
  <1>1. ASSUME NEW m \in Msgs, SmtpSetup(m) PROVE TypeOK'
    <2>1. DialogTyped' /\ FatesTyped'
      BY <1>1, StillTyped DEF SmtpSetup, TypeOK, DialogTyped, PCs
    <2>2. batchcount \in 0..opt.batchlimit /\ served \in Nat
      BY DEF TypeOK, ListenerTyped
    <2>3. batchcount' \in 0..opt.batchlimit
      BY <1>1, <2>2, OptFacts DEF SmtpSetup, BatchFull
    <2>4. served' \in Nat
      BY <1>1, <2>2 DEF SmtpSetup
    <2>5. /\ state' \in {"idle", "mail", "data"} /\ taken' \subseteq Everyone
          /\ unread' \subseteq (Everyone \X BOOLEAN)
      BY <1>1 DEF SmtpSetup, TypeOK, ListenerTyped
    <2>6. opt' = opt /\ faults' = faults /\ sock' \in BOOLEAN
      BY <1>1 DEF SmtpSetup
    <2> QED
      BY <2>1, <2>3, <2>4, <2>5, <2>6 DEF TypeOK, ListenerTyped
  <1>2. ASSUME NEW m \in Msgs, OpenPipe(m) PROVE TypeOK'
    <2>1. faults' \in 0..MaxFaults
      BY <1>2, FaultTyped DEF OpenPipe, TypeOK
    <2>2. DialogTyped'
      BY <1>2 DEF OpenPipe, TypeOK, DialogTyped, PCs
    <2> QED
      BY <1>2, <2>1, <2>2, StillTyped DEF OpenPipe, TypeOK
  <1>3. CASE MailFrom
    <2>1. ASSUME NEW c \in Errors, RefuseAll(c) PROVE TypeOK'
      BY <1>3, <2>1, RefuseTyped DEF MailFrom, InHand
    <2>2. CASE UNCHANGED <<sock, batchcount, served, unread, denied, told, faults>>
               /\ state' = "mail" /\ taken' = {} /\ pc' = "rcpt" /\ todo' = Rcpts
               /\ UNCHANGED <<queue, msg, good, bad, force>>
      <3>1. DialogTyped' /\ FatesTyped' /\ UNCHANGED <<opt, faults>>
        BY <1>3, <2>2, StillTyped DEF MailFrom, TypeOK, DialogTyped, PCs
      <3>2. ListenerTyped'
        BY <2>2, <3>1 DEF TypeOK, ListenerTyped
      <3> QED
        BY <3>1, <3>2 DEF TypeOK
    <2> QED
      BY <1>3, <2>1, <2>2 DEF MailFrom
  <1>4. CASE RcptTo
    <2>1. PICK r \in todo : RcptTo!2!(r)
      BY <1>4 DEF RcptTo
    <2>2. r \in Rcpts /\ msg \in Msgs
      BY <1>4 DEF RcptTo, TypeOK, DialogTyped, InHand
    <2>3. faults' \in 0..MaxFaults
      BY <2>1, FaultTyped DEF TypeOK
    <2>4. denied' \in [Msgs -> SUBSET Rcpts]
      BY <2>1, <2>2, DenyTyped DEF TypeOK
    <2>5. DialogTyped'
      BY <1>4, <2>1, <2>2 DEF RcptTo, TypeOK, DialogTyped
    <2>6. taken' \subseteq Everyone
      BY <2>1, <2>2 DEF TypeOK, ListenerTyped, Everyone
    <2> QED
      BY <1>4, <2>3, <2>4, <2>5, <2>6
      DEF RcptTo, TypeOK, ListenerTyped, FatesTyped
  <1>5. CASE RcptsTransient
    BY <1>5, EndTyped, StillTyped DEF RcptsTransient
  <1>6. CASE RcptsDone
    <2>1. DialogTyped' /\ ListenerTyped'
      BY <1>6, StillTyped DEF RcptsDone, TypeOK, DialogTyped, PCs
    <2>2. told' \in [Msgs -> SUBSET Everyone]
      BY <1>6, TellTyped DEF RcptsDone, TellBad, TypeOK, InHand, DialogTyped, Everyone
    <2> QED
      BY <1>6, <2>1, <2>2 DEF RcptsDone, TypeOK, FatesTyped
  <1>7. CASE NobodyLeft
    <2>1. told' \in [Msgs -> SUBSET Everyone]
      BY <1>7, TellTyped DEF NobodyLeft, TellBad, TypeOK, InHand, DialogTyped, Everyone
    <2>2. FatesTyped'
      BY <1>7, <2>1 DEF NobodyLeft, TypeOK, FatesTyped
    <2> QED
      BY <1>7, <2>2, EndTyped DEF NobodyLeft
  <1>8. CASE ToPostmaster
    <2>1. CASE Rset /\ Done(TRUE)
      BY <1>8, <2>1, EndTyped, StillTyped DEF ToPostmaster
    <2>2. CASE taken' = {Postmaster} /\ pc' = "data"
               /\ UNCHANGED <<queue, dialogVars, state, unread, sock, batchcount,
                              served>>
      <3>1. DialogTyped' /\ FatesTyped' /\ UNCHANGED <<opt, faults>>
        BY <1>8, <2>2, StillTyped DEF ToPostmaster, TypeOK, DialogTyped, PCs
      <3>2. ListenerTyped'
        BY <2>2, <3>1 DEF TypeOK, ListenerTyped, Everyone
      <3> QED
        BY <3>1, <3>2 DEF TypeOK
    <2> QED
      BY <1>8, <2>1, <2>2 DEF ToPostmaster
  <1>9. CASE Data
    <2>1. ASSUME NEW c \in Errors, RefuseAll(c) PROVE TypeOK'
      BY <1>9, <2>1, RefuseTyped DEF Data, InHand
    <2>2. CASE state' = "data" /\ pc' = "text"
               /\ UNCHANGED <<queue, dialogVars, taken, unread, sock, batchcount,
                              served, denied, told, faults>>
      <3>1. DialogTyped' /\ FatesTyped' /\ UNCHANGED <<opt, faults>>
        BY <1>9, <2>2, StillTyped DEF Data, TypeOK, DialogTyped, PCs
      <3>2. ListenerTyped'
        BY <2>2, <3>1 DEF TypeOK, ListenerTyped
      <3> QED
        BY <3>1, <3>2 DEF TypeOK
    <2> QED
      BY <1>9, <2>1, <2>2 DEF Data
  <1>10. CASE ShipText
    <2>1. DialogTyped'
      BY <1>10 DEF ShipText, TypeOK, DialogTyped, PCs
    <2> QED
      BY <1>10, <2>1, StillTyped DEF ShipText, TypeOK
  <1>11. CASE EomSmtp
    <2>1. ASSUME NEW c \in Errors, RefuseAll(c), UNCHANGED got PROVE TypeOK'
      BY <1>11, <2>1, RefuseTyped DEF EomSmtp, InHand
    <2>2. CASE Give(msg, taken) /\ state' = "idle" /\ taken' = {}
               /\ UNCHANGED unread /\ Done(TRUE)
               /\ UNCHANGED <<sock, batchcount, served, denied, told, faults>>
      <3>1. opt' = opt
        BY <1>11 DEF EomSmtp
      <3>2. DialogTyped'
        BY <2>2, DoneTyped DEF TypeOK
      <3>3. got' \in [Msgs -> SUBSET Everyone]
        BY <1>11, <2>2, GiveTyped DEF EomSmtp, InHand, TypeOK, ListenerTyped
      <3>4. ListenerTyped'
        BY <2>2, <3>1 DEF TypeOK, ListenerTyped
      <3> QED
        BY <2>2, <3>1, <3>2, <3>3, <3>4 DEF TypeOK, FatesTyped
    <2> QED
      BY <1>11, <2>1, <2>2 DEF EomSmtp
  <1>12. CASE EomLmtp
    <2>1. PICK rs \in SUBSET taken :
              Give(msg, rs) /\ unread' = {<<x, x \in rs>> : x \in taken}
      BY <1>12 DEF EomLmtp
    <2>2. taken \subseteq Everyone /\ msg \in Msgs
      BY <1>12 DEF EomLmtp, InHand, TypeOK, ListenerTyped
    <2>3. got' \in [Msgs -> SUBSET Everyone]
      BY <2>1, <2>2, GiveTyped DEF TypeOK
    <2>4. unread' \subseteq (Everyone \X BOOLEAN)
      <3>1. ASSUME NEW x \in taken PROVE <<x, x \in rs>> \in Everyone \X BOOLEAN
        <4>1. x \in Everyone
          BY <2>2
        <4>2. (x \in rs) \in BOOLEAN
          OBVIOUS
        <4> DEFINE b == x \in rs
        <4>3. \A y \in Everyone, z \in BOOLEAN : <<y, z>> \in Everyone \X BOOLEAN
          OBVIOUS
        <4> HIDE DEF b
        <4>4. b \in BOOLEAN
          BY <4>2 DEF b
        <4>5. <<x, b>> \in Everyone \X BOOLEAN
          BY <4>1, <4>3, <4>4
        <4> QED
          BY <4>5 DEF b
      <3> QED
        BY <2>1, <3>1
    <2>5. DialogTyped'
      BY <1>12 DEF EomLmtp, TypeOK, DialogTyped, PCs
    <2>6. ListenerTyped'
      BY <1>12, <2>4 DEF EomLmtp, TypeOK, ListenerTyped
    <2> QED
      BY <1>12, <2>3, <2>5, <2>6 DEF EomLmtp, TypeOK, FatesTyped
  <1>13. CASE LmtpReplies
    <2>1. PICK read \in SUBSET unread :
              /\ unread' = unread \ read
              /\ LmtpVerdict({x \in Everyone : <<x, FALSE>> \in read})
      BY <1>13 DEF LmtpReplies
    <2> DEFINE failed == {x \in Everyone : <<x, FALSE>> \in read}
    <2>2. \E d \in BOOLEAN : Done(d)
      BY <2>1 DEF LmtpVerdict
    <2>3. DialogTyped'
      BY <2>2, DoneTyped DEF TypeOK
    <2>4. faults' \in 0..MaxFaults
      BY <2>1, FaultTyped DEF LmtpVerdict, TypeOK
    <2>5. told' \in [Msgs -> SUBSET Everyone]
      <3>1. failed \subseteq Everyone /\ (Tell(msg, failed) \/ UNCHANGED told)
        BY <2>1 DEF LmtpVerdict
      <3> QED
        BY <1>13, <3>1, TellTyped DEF LmtpReplies, TypeOK, InHand
    <2>6. ListenerTyped'
      BY <1>13, <2>1 DEF LmtpReplies, TypeOK, ListenerTyped
    <2> QED
      BY <1>13, <2>3, <2>4, <2>5, <2>6 DEF LmtpReplies, TypeOK, FatesTyped
  <1>14. CASE ClosePipe
    <2>1. opt' = opt /\ msg \in Msgs /\ (\E d \in BOOLEAN : Done(d))
      BY <1>14 DEF ClosePipe, InHand
    <2>2. DialogTyped'
      BY <2>1, DoneTyped DEF TypeOK
    <2>3. got' \in [Msgs -> SUBSET Everyone]
      BY <1>14, <2>1, GiveTyped DEF ClosePipe, TypeOK, Everyone
    <2>4. faults' \in 0..MaxFaults
      BY <1>14, FaultTyped DEF ClosePipe, TypeOK
    <2> QED
      BY <1>14, <2>1, <2>2, <2>3, <2>4, StillTyped DEF ClosePipe, TypeOK, FatesTyped
  <1>15. CASE SetupFails
    <2>1. faults' \in 0..MaxFaults /\ UNCHANGED opt
      BY <1>15, FaultTyped DEF SetupFails, TypeOK
    <2>2. ListenerTyped'
      BY <1>15, <2>1, RsetTyped DEF SetupFails
    <2>3. DialogTyped'
      BY <1>15 DEF SetupFails, TypeOK, DialogTyped
    <2> QED
      BY <1>15, <2>1, <2>2, <2>3, StillTyped DEF SetupFails, TypeOK
  <1>16. CASE ListenerLost
    BY <1>16, EndTyped, StillTyped DEF ListenerLost
  <1>17. CASE BreakOff
    BY <1>17, EndTyped, StillTyped DEF BreakOff
  <1>18. CASE EomLost
    <2>1. got' \in [Msgs -> SUBSET Everyone]
      BY <1>18, GiveTyped DEF EomLost, InHand, TypeOK, ListenerTyped
    <2>2. FatesTyped'
      BY <1>18, <2>1 DEF EomLost, TypeOK, FatesTyped
    <2> QED
      BY <1>18, <2>2, EndTyped DEF EomLost
  <1>19. CASE LmtpLost
    BY <1>19, EndTyped, StillTyped DEF LmtpLost
  <1>20. CASE EndSession
    <2>1. ListenerTyped'
      BY <1>20, RsetTyped DEF EndSession
    <2>2. DialogTyped'
      BY <1>20 DEF EndSession, TypeOK, DialogTyped
    <2> QED
      BY <1>20, <2>1, <2>2, StillTyped DEF EndSession, TypeOK
  <1> QED
    BY <1>1, <1>2, <1>3, <1>4, <1>5, <1>6, <1>7, <1>8, <1>9, <1>10, <1>11, <1>12,
       <1>13, <1>14, <1>15, <1>16, <1>17, <1>18, <1>19, <1>20
    DEF Next, Step, Lost, OpenBsmtp, OpenMda, CloseBsmtp, CloseMda

\* After the step, each recipient of the message in hand has been served,
\* refused or reported, or need not be.
SettledNext ==
    \A r \in Rcpts : \/ r \in got'[msg] \cup denied'[msg] \cup told'[msg]
                     \/ Postmaster \in got'[msg]
                     \/ opt.mode = "L" /\ msg \in NullSender

\* What became of a message is not taken back.
FatesGrow ==
    \A m \in Msgs : /\ got[m] \subseteq got'[m]
                    /\ denied[m] \subseteq denied'[m]
                    /\ told[m] \subseteq told'[m]

\* The three kinds of change to a fate only add to it.
LEMMA ChangesGrow ==
    ASSUME FatesTyped, NEW x \in Msgs \cup {NoMsg},
           (\E rs : Give(x, rs)) \/ UNCHANGED got,
           (\E rs : Deny(x, rs)) \/ UNCHANGED denied,
           (\E rs : Tell(x, rs)) \/ UNCHANGED told
    PROVE  FatesGrow
  BY DEF FatesTyped, Give, Deny, Tell, FatesGrow

\* A step deletes at most a settled message: nothing is dropped.
LEMMA DropStep ==
    ASSUME NothingDropped, UNCHANGED opt, FatesGrow,
           queue' = queue \/ (queue' = queue \ {msg} /\ SettledNext)
    PROVE  NothingDropped'
  <1> SUFFICES ASSUME NEW m \in Msgs, m \notin queue', NEW r \in Rcpts
               PROVE  \/ r \in got'[m] \cup denied'[m] \cup told'[m]
                      \/ Postmaster \in got'[m]
                      \/ opt'.mode = "L" /\ m \in NullSender
    BY DEF NothingDropped
  <1>1. CASE m \notin queue
    BY <1>1 DEF NothingDropped, FatesGrow
  <1>2. CASE m \in queue
    BY <1>2 DEF SettledNext
  <1> QED
    BY <1>1, <1>2

\* Between two messages nothing is known of either.
LEMMA EndKnown ==
    ASSUME NEW d, Done(d), UNCHANGED opt,
           state' = "idle", taken' = {}, unread' = {}
    PROVE  InHand' /\ Known' /\ Replies' /\ Accounted'
  BY DEF Done, InHand, Known, Replies, Accounted, Smtp

\* So it is after a reset or over a closed connection.
LEMMA ResetKnown ==
    ASSUME NEW d, Done(d), UNCHANGED opt, Rset \/ Close, Known, pc # "replies" \/ Close
    PROVE  InHand' /\ Known' /\ Replies' /\ Accounted'
  <1>1. unread' = {}
    BY DEF Known, Rset, Close, Hangup
  <1> QED
    BY <1>1, RsetFacts, EndKnown

\* A refusal of the whole message keeps the invariant.
LEMMA RefuseKnown ==
    ASSUME SinkInv, pc \in {"from", "data", "eom"}, NEW c \in Errors, RefuseAll(c),
           UNCHANGED <<opt, got>>
    PROVE  InHand' /\ Known' /\ Replies' /\ Accounted' /\ NothingDropped'
  <1>1. InHand' /\ Known' /\ Replies' /\ Accounted'
    BY ResetKnown DEF RefuseAll, SinkInv
  <1>2. msg \in Msgs /\ FatesTyped
    BY DEF SinkInv, InHand, TypeOK
  <1>3. FatesGrow
    BY <1>2, ChangesGrow DEF RefuseAll
  <1>4. CASE Report(c) = "refused"
    <2>1. Deny(msg, Rcpts) /\ queue' = queue \ {msg}
      BY <1>4 DEF Report, RefuseAll, Done
    <2>2. Rcpts \subseteq denied'[msg]
      BY <1>2, <2>1 DEF Deny, FatesTyped
    <2> QED
      BY <1>1, <1>3, <2>1, <2>2, DropStep DEF SinkInv, SettledNext
  <1>5. CASE Report(c) # "refused"
    <2>1. queue' = queue
      BY <1>5 DEF RefuseAll, Done
    <2> QED
      BY <1>1, <1>3, <2>1, DropStep DEF SinkInv
  <1> QED
    BY <1>4, <1>5

\* Every action keeps the dialogue in step and drops nothing.
LEMMA StepKnown ==
    ASSUME SinkInv, Next
    PROVE  InHand' /\ Known' /\ Replies' /\ Accounted' /\ NothingDropped'
  <1> DEFINE Goal == InHand' /\ Known' /\ Replies' /\ Accounted' /\ NothingDropped'
  <1> USE DEF dialogVars, lstVars, fateVars
  <1>0. /\ TypeOK /\ DialogTyped /\ FatesTyped /\ InHand /\ Known /\ Replies
        /\ Accounted /\ NothingDropped
    BY DEF SinkInv, TypeOK
  <1>1. ASSUME UNCHANGED <<opt, queue, got, denied, told>> PROVE NothingDropped'
    BY <1>0, <1>1 DEF NothingDropped
  <1>2. ASSUME UNCHANGED <<opt, got, denied, told>>, Done(FALSE), Rset \/ Close,
               pc # "replies" \/ Close
        PROVE  Goal
    <2>1. queue' = queue
      BY <1>2 DEF Done
    <2> QED
      BY <1>0, <1>1, <1>2, <2>1, ResetKnown
  <1>3. ASSUME NEW m \in Msgs, SmtpSetup(m) PROVE Goal
    <2>1. UNCHANGED <<opt, queue, got, denied, told, good>> /\ pc' = "from"
          /\ msg' = m /\ m \in queue /\ Smtp /\ pc = "idle"
      BY <1>3 DEF SmtpSetup
    <2>2. state' = "idle" /\ taken' = {} /\ unread' = {}
      BY <1>0, <1>3 DEF SmtpSetup, Known
    <2> QED
      BY <1>0, <1>1, <2>1, <2>2 DEF InHand, Known, Replies, Accounted, Smtp
  <1>4. ASSUME NEW m \in Msgs, OpenPipe(m) PROVE Goal
    <2>1. UNCHANGED <<opt, queue, got, denied, told, state, taken, unread>>
      BY <1>4 DEF OpenPipe
    <2>2. InHand' /\ Known' /\ Replies' /\ Accounted'
      BY <1>0, <1>4, <2>1 DEF OpenPipe, InHand, Known, Replies, Accounted, Smtp
    <2> QED
      BY <1>1, <2>1, <2>2
  <1>5. CASE MailFrom
    <2>1. ASSUME NEW c \in Errors, RefuseAll(c) PROVE Goal
      BY <1>5, <2>1, RefuseKnown DEF MailFrom
    <2>2. CASE UNCHANGED <<queue, msg, good, unread, denied, told>>
               /\ state' = "mail" /\ taken' = {} /\ pc' = "rcpt" /\ todo' = Rcpts
      <3>1. UNCHANGED <<opt, got>> /\ pc = "from"
        BY <1>5 DEF MailFrom
      <3> QED
        BY <1>0, <1>1, <2>2, <3>1 DEF InHand, Known, Replies, Accounted, Smtp
    <2> QED
      BY <1>5, <2>1, <2>2 DEF MailFrom
  <1>6. CASE RcptTo
    <2>1. PICK r \in todo : RcptTo!2!(r)
      BY <1>6 DEF RcptTo
    <2>2. msg \in Msgs /\ pc = "rcpt"
          /\ UNCHANGED <<opt, queue, pc, msg, state, unread, got, told>>
      BY <1>0, <1>6 DEF RcptTo, InHand
    <2>3. FatesGrow
      BY <1>0, <2>1, <2>2, ChangesGrow
    <2>4. NothingDropped'
      BY <1>0, <2>2, <2>3, DropStep
    <2>5. InHand' /\ Known' /\ Replies'
      BY <1>0, <2>1, <2>2 DEF InHand, Known, Replies, Smtp
    <2>6. r \in good' \cup denied'[msg] \/ force'
      BY <1>0, <2>1, <2>2 DEF Deny, FatesTyped, RcptReport
    <2>7. good \subseteq good' /\ denied[msg] \subseteq denied'[msg]
      BY <2>1, <2>2, <2>3 DEF FatesGrow
    <2>8. force => force'
      BY <2>1, Zenon
    <2>9. Accounted'
      BY <1>0, <2>1, <2>2, <2>6, <2>7, <2>8 DEF Accounted
    <2> QED
      BY <2>4, <2>5, <2>9
  <1>7. CASE RcptsTransient
    BY <1>2, <1>7 DEF RcptsTransient
  <1>8. CASE RcptsDone
    <2>1. pc = "rcpt" /\ todo = {} /\ ~force
          /\ UNCHANGED <<opt, queue, msg, good, taken, unread, state, got, denied>>
          /\ pc' = IF good # {} THEN "data" ELSE "postmaster"
      BY <1>8 DEF RcptsDone
    <2>2. FatesGrow
      BY <1>0, <1>8, <2>1, ChangesGrow DEF RcptsDone, TellBad, DialogTyped
    <2>3. NothingDropped'
      BY <1>0, <2>1, <2>2, DropStep
    <2>4. InHand' /\ Known' /\ Replies' /\ Accounted'
      BY <1>0, <2>1 DEF InHand, Known, Replies, Accounted, Smtp
    <2> QED
      BY <2>3, <2>4
  <1>9. CASE NobodyLeft
    <2>1. pc = "rcpt" /\ todo = {} /\ ~force /\ good = {} /\ Done(TRUE) /\ Rset
          /\ UNCHANGED <<opt, got, denied>>
      BY <1>9 DEF NobodyLeft
    <2>2. FatesGrow
      BY <1>0, <1>9, ChangesGrow DEF NobodyLeft, TellBad, DialogTyped
    <2>3. SettledNext
      BY <1>0, <2>1 DEF Accounted, SettledNext
    <2>4. NothingDropped'
      BY <1>0, <2>1, <2>2, <2>3, DropStep DEF Done
    <2> QED
      BY <1>0, <2>1, <2>4, ResetKnown
  <1>10. CASE ToPostmaster
    <2>1. pc = "postmaster" /\ UNCHANGED <<opt, got, denied, told>>
      BY <1>10 DEF ToPostmaster
    <2>2. CASE Rset /\ Done(TRUE)
      <3>1. SettledNext
        BY <1>0, <2>1 DEF Accounted, Known, InHand, SettledNext
      <3>2. FatesGrow
        BY <2>1 DEF FatesGrow
      <3>3. NothingDropped'
        BY <1>0, <2>1, <2>2, <3>1, <3>2, DropStep DEF Done
      <3> QED
        BY <1>0, <2>1, <2>2, <3>3, ResetKnown
    <2>3. CASE taken' = {Postmaster} /\ pc' = "data"
               /\ UNCHANGED <<queue, msg, good, state, unread>>
      BY <1>0, <1>1, <2>1, <2>3 DEF InHand, Known, Replies, Accounted, Smtp
    <2> QED
      BY <1>10, <2>2, <2>3 DEF ToPostmaster
  <1>11. CASE Data
    <2>1. ASSUME NEW c \in Errors, RefuseAll(c) PROVE Goal
      BY <1>11, <2>1, RefuseKnown DEF Data
    <2>2. CASE state' = "data" /\ pc' = "text"
               /\ UNCHANGED <<queue, msg, good, taken, unread, denied, told>>
      <3>1. UNCHANGED <<opt, got>> /\ pc = "data"
        BY <1>11 DEF Data
      <3> QED
        BY <1>0, <1>1, <2>2, <3>1 DEF InHand, Known, Replies, Accounted, Smtp
    <2> QED
      BY <1>11, <2>1, <2>2 DEF Data
  <1>12. CASE ShipText
    <2>1. pc = "text" /\ pc' = "eom"
          /\ UNCHANGED <<opt, queue, msg, good, taken, unread, state, got, denied, told>>
      BY <1>12 DEF ShipText
    <2> QED
      BY <1>0, <1>1, <2>1 DEF InHand, Known, Replies, Accounted, Smtp
  <1>13. CASE EomSmtp
    <2>1. ASSUME NEW c \in Errors, RefuseAll(c), UNCHANGED got PROVE Goal
      BY <1>13, <2>1, RefuseKnown DEF EomSmtp
    <2>2. CASE Give(msg, taken) /\ state' = "idle" /\ taken' = {}
               /\ UNCHANGED <<unread, denied, told>> /\ Done(TRUE)
      <3>1. opt' = opt /\ pc = "eom" /\ opt.mode = "S" /\ msg \in Msgs
        BY <1>0, <1>13 DEF EomSmtp, InHand
      <3>2. got'[msg] = got[msg] \cup taken
        BY <1>0, <2>2, <3>1 DEF Give, FatesTyped
      <3>3. SettledNext
        BY <1>0, <2>2, <3>1, <3>2 DEF SettledNext, Known, Accounted, Smtp
      <3>4. FatesGrow
        BY <1>0, <2>2, <3>1, ChangesGrow
      <3>5. NothingDropped'
        BY <1>0, <2>2, <3>1, <3>3, <3>4, DropStep DEF Done
      <3>6. unread' = {}
        BY <1>0, <2>2, <3>1 DEF Known
      <3> QED
        BY <2>2, <3>1, <3>5, <3>6, EndKnown
    <2> QED
      BY <1>13, <2>1, <2>2 DEF EomSmtp
  <1>14. CASE EomLmtp
    <2>1. PICK rs \in SUBSET taken :
              Give(msg, rs) /\ unread' = {<<x, x \in rs>> : x \in taken}
      BY <1>14 DEF EomLmtp
    <2>2. pc = "eom" /\ pc' = "replies" /\ opt.mode = "L" /\ state' = "idle"
          /\ UNCHANGED <<opt, queue, msg, good, taken, denied, told>>
      BY <1>14 DEF EomLmtp
    <2>3. msg \in Msgs
      BY <1>0, <2>2 DEF InHand
    <2>4. got'[msg] = got[msg] \cup rs
      BY <1>0, <2>1, <2>3 DEF Give, FatesTyped
    <2>5. IsFiniteSet(taken)
      <3>1. IsFiniteSet(good) /\ IsFiniteSet({Postmaster})
        BY <1>0, SetsAssumption, FS_Subset, FS_Singleton DEF DialogTyped
      <3> QED
        BY <1>0, <2>2, <3>1 DEF Known, Smtp
    <2>6. IsFiniteSet(unread') /\ Cardinality(unread') = Cardinality(taken)
      BY <2>1, <2>5, OneReplyEach
    <2>7. ASSUME NEW x \in taken
          PROVE  \/ <<x, TRUE>> \in unread' /\ x \in got'[msg]
                 \/ <<x, FALSE>> \in unread'
      <3>1. <<x, x \in rs>> \in unread'
        BY <2>1
      <3>2. CASE x \in rs
        <4>1. (x \in rs) = TRUE
          BY <3>2
        <4> QED
          BY <2>4, <3>1, <3>2, <4>1
      <3>3. CASE x \notin rs
        <4>1. (x \in rs) = FALSE
          BY <3>3
        <4> QED
          BY <3>1, <4>1
      <3> QED
        BY <3>2, <3>3
    <2>8. Replies'
      BY <2>2, <2>6, <2>7 DEF Replies
    <2>9. InHand' /\ Known' /\ Accounted'
      BY <1>0, <2>2, <2>3 DEF InHand, Known, Accounted, Smtp
    <2>10. FatesGrow
      BY <1>0, <2>1, <2>2, <2>3, ChangesGrow
    <2> QED
      BY <1>0, <2>2, <2>8, <2>9, <2>10, DropStep
  <1>15. CASE LmtpReplies
    <2>1. PICK read \in SUBSET unread :
              /\ Cardinality(read) = ResponsesRead /\ unread' = unread \ read
              /\ LmtpVerdict({x \in Everyone : <<x, FALSE>> \in read})
      BY <1>15 DEF LmtpReplies
    <2> DEFINE failed == {x \in Everyone : <<x, FALSE>> \in read}
    <2>2. pc = "replies" /\ taken' = {} /\ UNCHANGED <<opt, state, got, denied>>
      BY <1>15 DEF LmtpReplies
    <2>3. opt.mode = "L" /\ Smtp /\ msg \in Msgs /\ state' = "idle"
      BY <1>0, <2>2 DEF InHand, Replies, Smtp
    <2>4. read = unread /\ unread' = {}
      BY <1>0, <2>1, <2>2, <2>3, AllRead
    <2>5. PICK d \in BOOLEAN : Done(d)
      BY <2>1 DEF LmtpVerdict
    <2>6. InHand' /\ Known' /\ Replies' /\ Accounted'
      BY <2>2, <2>3, <2>4, <2>5, EndKnown
    <2>7. FatesGrow
      BY <1>0, <2>1, <2>2, <2>3, ChangesGrow DEF LmtpVerdict
    <2>8. CASE good # {} /\ (failed = {} \/ msg \in NullSender \/ Tell(msg, failed))
      <3>1. taken = good /\ taken \subseteq Everyone
        BY <1>0, <2>2, <2>3, <2>8 DEF Known, DialogTyped, Everyone
      <3>2. ASSUME NEW x \in good PROVE x \in got[msg] \/ x \in failed
        BY <1>0, <2>2, <2>4, <3>1, <3>2 DEF Replies
      <3>3. ASSUME Tell(msg, failed) PROVE failed \subseteq told'[msg]
        BY <1>0, <2>3, <3>3 DEF Tell, FatesTyped
      <3>4. SettledNext
        <4> SUFFICES ASSUME NEW r \in Rcpts
                     PROVE  \/ r \in got'[msg] \cup denied'[msg] \cup told'[msg]
                            \/ opt.mode = "L" /\ msg \in NullSender
          BY DEF SettledNext
        <4>1. r \in good \cup denied[msg]
          BY <1>0, <2>2, <2>3 DEF Accounted
        <4> QED
          BY <2>2, <2>3, <2>8, <3>2, <3>3, <4>1
      <3>5. queue' = queue \/ queue' = queue \ {msg}
        BY <2>5 DEF Done
      <3> QED
        BY <1>0, <2>2, <2>6, <2>7, <3>4, <3>5, DropStep
    <2>9. CASE Done(FALSE)
      BY <1>0, <2>2, <2>6, <2>7, <2>9, DropStep DEF Done
    <2> QED
      BY <2>1, <2>8, <2>9 DEF LmtpVerdict
  <1>16. CASE ClosePipe
    <2>1. pc = "eom" /\ ~Smtp /\ msg \in Msgs
          /\ UNCHANGED <<opt, state, taken, unread, denied, told>>
      BY <1>0, <1>16 DEF ClosePipe, InHand
    <2>2. \E d \in BOOLEAN : Done(d)
      BY <1>16 DEF ClosePipe
    <2>3. InHand' /\ Known' /\ Replies' /\ Accounted'
      BY <1>0, <2>1, <2>2, EndKnown DEF Known
    <2>4. CASE Give(msg, Rcpts) /\ Done(TRUE)
      <3>1. Rcpts \subseteq got'[msg]
        BY <1>0, <2>1, <2>4 DEF Give, FatesTyped
      <3>2. FatesGrow
        BY <1>0, <2>1, <2>4, ChangesGrow
      <3> QED
        BY <1>0, <2>1, <2>3, <2>4, <3>1, <3>2, DropStep DEF Done, SettledNext
    <2>5. CASE UNCHANGED got /\ Done(FALSE)
      BY <1>1, <2>1, <2>3, <2>5 DEF Done
    <2> QED
      BY <1>16, <2>4, <2>5 DEF ClosePipe
  <1>17. CASE SetupFails
    <2>1. pc = "idle" /\ Close /\ UNCHANGED <<opt, queue, pc, msg, good, got, denied, told>>
      BY <1>17 DEF SetupFails
    <2> QED
      BY <1>0, <1>1, <2>1
      DEF Close, Hangup, InHand, Known, Replies, Accounted, Smtp
  <1>18. CASE ListenerLost
    BY <1>2, <1>18 DEF ListenerLost
  <1>19. CASE BreakOff
    BY <1>2, <1>19 DEF BreakOff
  <1>20. CASE EomLost
    <2>1. pc = "eom" /\ Close /\ Done(FALSE) /\ UNCHANGED <<opt, denied, told>>
          /\ (Give(msg, taken) \/ UNCHANGED got) /\ msg \in Msgs
      BY <1>0, <1>20 DEF EomLost, InHand
    <2>2. FatesGrow
      BY <1>0, <2>1, ChangesGrow
    <2>3. NothingDropped'
      BY <1>0, <2>1, <2>2, DropStep DEF Done
    <2> QED
      BY <1>0, <2>1, <2>3, ResetKnown
  <1>21. CASE LmtpLost
    BY <1>2, <1>21 DEF LmtpLost
  <1>22. CASE EndSession
    <2>1. pc = "idle" /\ Close /\ UNCHANGED <<opt, queue, pc, msg, good, got, denied, told>>
      BY <1>22 DEF EndSession
    <2> QED
      BY <1>0, <1>1, <2>1
      DEF Close, Hangup, InHand, Known, Replies, Accounted, Smtp
  <1> QED
    BY <1>3, <1>4, <1>5, <1>6, <1>7, <1>8, <1>9, <1>10, <1>11, <1>12, <1>13, <1>14,
       <1>15, <1>16, <1>17, <1>18, <1>19, <1>20, <1>21, <1>22
    DEF Next, Step, Lost, OpenBsmtp, OpenMda, CloseBsmtp, CloseMda

\* The invariant of a step that changes nothing.
LEMMA StutterSink == SinkInv /\ UNCHANGED vars => SinkInv'
  <1> SUFFICES ASSUME SinkInv, UNCHANGED vars PROVE SinkInv'
    OBVIOUS
  <1> USE DEF vars, dialogVars, lstVars, fateVars
  <1>1. TypeOK'
    <2>1. DialogTyped'
      BY DEF SinkInv, TypeOK, DialogTyped
    <2> QED
      BY <2>1, StillTyped DEF SinkInv, TypeOK
  <1>2. InHand' /\ Known' /\ Accounted' /\ NothingDropped'
    BY DEF SinkInv, InHand, Known, Accounted, NothingDropped, Smtp
  <1>3. Replies'
    BY DEF SinkInv, Replies
  <1> QED
    BY <1>1, <1>2, <1>3 DEF SinkInv

\* The invariant always holds.
LEMMA SinkInvariant == Spec => []SinkInv
  <1>1. ASSUME SinkInv, Next PROVE SinkInv'
    BY <1>1, StepTyped, StepKnown DEF SinkInv
  <1>2. SinkInv /\ [Next]_vars => SinkInv'
    BY <1>1, StutterSink
  <1> QED
    BY InitSink, <1>2, PTL DEF Spec

\* Types, and batchcount never passes batchlimit.
THEOREM SinkTypeCorrect == Spec => []TypeOK
  <1>1. SinkInv => TypeOK
    BY DEF SinkInv
  <1> QED
    BY SinkInvariant, <1>1, PTL

\* A message is deleted on the mail server only when each of its recipients
\* has it, was refused it or was reported, or the postmaster has it: whatever
\* the listener answers, and wherever connections are lost (open_smtp_sink,
\* close_sink).
THEOREM SinkDropsNothing == Spec => []NothingDropped
  <1>1. SinkInv => NothingDropped
    BY DEF SinkInv
  <1> QED
    BY SinkInvariant, <1>1, PTL

\* Each dialogue starts with a listener that has finished the previous one,
\* and with no reply left unread (smtp_rset, close_sink).
THEOREM SinkInStep == Spec => []InStep
  <1>1. SinkInv => InStep
    BY DEF SinkInv, Known, InStep
  <1> QED
    BY SinkInvariant, <1>1, PTL

\* The listener has seen at most one message more than batchcount says, and
\* only if it refused EHLO.
Counted ==
    opt.batchlimit > 0 => served <= batchcount + (IF opt.ehlo THEN 0 ELSE 1)

\* Only smtp_setup counts; every other step leaves the counts alone or starts
\* them anew.
LEMMA CountsKept ==
    ASSUME Next, \A m \in Msgs : ~SmtpSetup(m)
    PROVE  /\ UNCHANGED opt
           /\ UNCHANGED <<batchcount, served>> \/ (batchcount' = 0 /\ served' = 0)
  <1> USE DEF Close, Hangup, Rset
  <1>1. ASSUME NEW c, RefuseAll(c)
        PROVE  UNCHANGED <<batchcount, served>> \/ (batchcount' = 0 /\ served' = 0)
    BY <1>1 DEF RefuseAll
  <1>2. CASE MailFrom \/ Data \/ EomSmtp
    BY <1>1, <1>2 DEF MailFrom, Data, EomSmtp
  <1>3. CASE \/ RcptTo \/ RcptsDone \/ ShipText \/ EomLmtp \/ LmtpReplies
             \/ ClosePipe \/ \E m \in Msgs : OpenPipe(m)
    BY <1>3 DEF RcptTo, RcptsDone, ShipText, EomLmtp, LmtpReplies, ClosePipe, OpenPipe
  <1>4. CASE RcptsTransient \/ NobodyLeft \/ ToPostmaster \/ EndSession
    BY <1>4 DEF RcptsTransient, NobodyLeft, ToPostmaster, EndSession
  <1>5. CASE SetupFails \/ ListenerLost \/ BreakOff \/ EomLost \/ LmtpLost
    BY <1>5 DEF SetupFails, ListenerLost, BreakOff, EomLost, LmtpLost
  <1> QED
    BY <1>2, <1>3, <1>4, <1>5 DEF Next, Step, Lost, OpenBsmtp, OpenMda, CloseBsmtp, CloseMda

\* No connection carries more than batchlimit messages, or one more if the
\* listener refused EHLO (smtp_setup).
THEOREM SinkBatches == Spec => []BatchBound
  <1>1. Init => Counted
    BY DEF Init, Counted
  <1>2. ASSUME TypeOK, Counted, Next PROVE Counted'
    <2>1. batchcount \in Nat /\ served \in Nat /\ opt.batchlimit \in Nat
      BY <1>2, OptFacts DEF TypeOK, ListenerTyped
    <2>2. ASSUME NEW m \in Msgs, SmtpSetup(m) PROVE Counted'
      BY <1>2, <2>1, <2>2 DEF SmtpSetup, Counted
    <2>3. ASSUME UNCHANGED opt, UNCHANGED <<batchcount, served>>
                                \/ (batchcount' = 0 /\ served' = 0)
          PROVE  Counted'
      BY <1>2, <2>3 DEF Counted
    <2> QED
      BY <1>2, <2>2, <2>3, CountsKept
  <1>3. Counted /\ UNCHANGED vars => Counted'
    BY DEF vars, Counted
  <1>4. TypeOK /\ Counted => BatchBound
    <2> SUFFICES ASSUME TypeOK, Counted PROVE BatchBound
      OBVIOUS
    <2>1. batchcount \in 0..opt.batchlimit /\ served \in Nat /\ opt.batchlimit \in Nat
      BY OptFacts DEF TypeOK, ListenerTyped
    <2> QED
      BY <2>1 DEF Counted, BatchBound
  <1>5. TypeOK /\ Counted /\ [Next]_vars => Counted'
    BY <1>2, <1>3
  <1> QED
    BY SinkTypeCorrect, <1>1, <1>4, <1>5, PTL DEF Spec

\* Before the first fault no queued message has reached a recipient, but for
\* the one whose LMTP replies are being read.
Untouched ==
    faults = 0 => \A m \in queue :
        got[m] \cap Rcpts # {} => pc = "replies" /\ m = msg /\ good # {}

\* A step that gives nothing to anybody.
LEMMA UntouchedStays ==
    ASSUME TypeOK, Untouched, UNCHANGED got, faults' = faults \/ Fault,
           pc # "replies", queue' \subseteq queue
    PROVE  Untouched'
  BY FaultsAssumption DEF TypeOK, Untouched, Fault

\* A fault ends the question.
LEMMA FaultUntouched ==
    ASSUME TypeOK, Fault
    PROVE  Untouched'
  <1>1. faults' # 0
    BY FaultsAssumption DEF TypeOK, Fault
  <1> QED
    BY <1>1 DEF Untouched

\* The message in hand is given to some, and leaves the queue.
LEMMA GoneUntouched ==
    ASSUME TypeOK, Untouched, msg \in Msgs, NEW rs, Give(msg, rs) \/ UNCHANGED got,
           Done(TRUE), UNCHANGED faults
    PROVE  Untouched'
  <1> SUFFICES ASSUME faults = 0, NEW m \in queue', got'[m] \cap Rcpts # {}
               PROVE  FALSE
    BY DEF Untouched
  <1>1. m \in queue /\ m # msg /\ m \in Msgs
    BY DEF Done, TypeOK, DialogTyped
  <1>2. got'[m] = got[m]
    BY <1>1 DEF Give, TypeOK, FatesTyped
  <1> QED
    BY <1>1, <1>2 DEF Untouched

\* Every action keeps it.
LEMMA UntouchedStep ==
    ASSUME SinkInv, Untouched, Next
    PROVE  Untouched'
  <1> USE DEF dialogVars, lstVars, fateVars
  <1>0. TypeOK /\ InHand /\ Known
    BY DEF SinkInv
  <1>1. ASSUME NEW c, RefuseAll(c), UNCHANGED got, pc # "replies"
        PROVE  Untouched'
    <2>1. queue' \subseteq queue /\ (faults' = faults \/ Fault)
      BY <1>1 DEF RefuseAll, Done, Note
    <2> QED
      BY <1>0, <1>1, <2>1, UntouchedStays
  <1>2. CASE MailFrom \/ Data
    <2>1. UNCHANGED got /\ pc # "replies"
      BY <1>2 DEF MailFrom, Data
    <2>2. (\E c \in Errors : RefuseAll(c)) \/ UNCHANGED <<queue, faults>>
      BY <1>2 DEF MailFrom, Data
    <2> QED
      BY <1>0, <1>1, <2>1, <2>2, UntouchedStays
  <1>3. CASE RcptTo \/ RcptsTransient \/ RcptsDone \/ NobodyLeft \/ ToPostmaster
             \/ ShipText \/ EndSession \/ \E m \in Msgs : SmtpSetup(m) \/ OpenPipe(m)
    <2>1. UNCHANGED got /\ pc # "replies"
      BY <1>3 DEF RcptTo, RcptsTransient, RcptsDone, NobodyLeft, ToPostmaster,
                  ShipText, EndSession, SmtpSetup, OpenPipe
    <2>2. queue' \subseteq queue
      BY <1>3 DEF RcptTo, RcptsTransient, RcptsDone, NobodyLeft, ToPostmaster,
                  ShipText, EndSession, SmtpSetup, OpenPipe, Done
    <2>3. faults' = faults \/ Fault
      BY <1>3 DEF RcptTo, RcptsTransient, RcptsDone, NobodyLeft, ToPostmaster,
                  ShipText, EndSession, SmtpSetup, OpenPipe, Note
    <2> QED
      BY <1>0, <2>1, <2>2, <2>3, UntouchedStays
  <1>4. CASE EomSmtp
    <2>1. ASSUME NEW c \in Errors, RefuseAll(c), UNCHANGED got PROVE Untouched'
      BY <1>1, <1>4, <2>1 DEF EomSmtp
    <2>2. CASE Give(msg, taken) /\ Done(TRUE) /\ UNCHANGED faults
      BY <1>0, <1>4, <2>2, GoneUntouched DEF EomSmtp, InHand
    <2> QED
      BY <1>4, <2>1, <2>2 DEF EomSmtp
  <1>5. CASE EomLmtp
    <2>1. PICK rs \in SUBSET taken : Give(msg, rs)
      BY <1>5 DEF EomLmtp
    <2>2. pc = "eom" /\ pc' = "replies" /\ opt.mode = "L"
          /\ UNCHANGED <<queue, msg, good, faults>>
      BY <1>5 DEF EomLmtp
    <2>3. taken = IF good = {} THEN {Postmaster} ELSE good
      BY <1>0, <2>2 DEF Known, Smtp
    <2> SUFFICES ASSUME faults = 0, NEW m \in queue, got'[m] \cap Rcpts # {}
                 PROVE  m = msg /\ good # {}
      BY <2>2 DEF Untouched
    <2>4. m \in Msgs /\ msg \in Msgs /\ got[m] \cap Rcpts = {}
      BY <1>0, <2>2 DEF Untouched, TypeOK, DialogTyped, InHand
    <2>5. got'[m] = IF m = msg THEN got[m] \cup rs ELSE got[m]
      BY <1>0, <2>1, <2>4 DEF Give, TypeOK, FatesTyped
    <2> QED
      BY <2>3, <2>4, <2>5, SetsAssumption
  <1>6. CASE LmtpReplies
    <2>1. PICK failed : LmtpVerdict(failed)
      BY <1>6 DEF LmtpReplies
    <2>2. pc = "replies" /\ UNCHANGED got /\ msg \in Msgs
      BY <1>0, <1>6 DEF LmtpReplies, InHand
    <2>3. CASE good = {} /\ Done(FALSE) /\ UNCHANGED faults
      BY <2>2, <2>3 DEF Done, Untouched
    <2>4. CASE Done(TRUE) /\ UNCHANGED faults
      BY <1>0, <2>2, <2>4, GoneUntouched
    <2>5. CASE Fault
      BY <1>0, <2>5, FaultUntouched
    <2> QED
      BY <2>1, <2>3, <2>4, <2>5 DEF LmtpVerdict
  <1>7. CASE ClosePipe
    <2>1. CASE Fault
      BY <1>0, <2>1, FaultUntouched
    <2>2. CASE Give(msg, Rcpts) /\ Done(TRUE) /\ UNCHANGED faults
      BY <1>0, <1>7, <2>2, GoneUntouched DEF ClosePipe, InHand
    <2> QED
      BY <1>7, <2>1, <2>2 DEF ClosePipe
  <1>8. CASE SetupFails \/ ListenerLost \/ BreakOff \/ EomLost \/ LmtpLost
    BY <1>0, <1>8, FaultUntouched
    DEF SetupFails, ListenerLost, BreakOff, EomLost, LmtpLost
  <1> QED
    BY <1>2, <1>3, <1>4, <1>5, <1>6, <1>7, <1>8 DEF Next, Step, Lost, OpenBsmtp, OpenMda, CloseBsmtp, CloseMda

\* Without a fault, no recipient is sent a message twice: what close_sink
\* reports as done is done (the TRUE that it returns for LMTP failures).
THEOREM SinkResends == Spec => []ResendNeedsFault
  <1>1. Init => Untouched
    BY DEF Init, Untouched
  <1>2. Untouched /\ UNCHANGED vars => Untouched'
    BY DEF vars, dialogVars, fateVars, Untouched
  <1>3. SinkInv /\ Untouched /\ [Next]_vars => Untouched'
    BY <1>2, UntouchedStep
  <1>4. SinkInv /\ Untouched => ResendNeedsFault
    <2> SUFFICES ASSUME SinkInv, Untouched, pc = "from", got[msg] \cap Rcpts # {}
                 PROVE  faults > 0
      BY DEF ResendNeedsFault
    <2>1. faults # 0
      BY DEF SinkInv, InHand, Untouched
    <2> QED
      BY <2>1, FaultsAssumption DEF SinkInv, TypeOK
  <1> QED
    BY SinkInvariant, <1>1, <1>3, <1>4, PTL DEF Spec
=============================================================================
