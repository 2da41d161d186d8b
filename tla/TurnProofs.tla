----------------------------- MODULE TurnProofs -----------------------------
(***************************************************************************)
(* Proofs about Turn, for every set of messages and configurations and any *)
(* number of domains, sessions and lost connections.                       *)
(***************************************************************************)
EXTENDS Turn, SequenceTheorems, TLAPS

-----------------------------------------------------------------------------
(* The login leaves fetchmail and the server in step.                      *)

\* With replies of one line none is left unread before the alarm; every way
\* out of SMTP_auth has ended the exchange on the server's side too.
StepInv ==
    /\ pc \in {"ehlo", "auth"} => auth.at # "late"
    /\ auth.at # "late" => unread = 0
    /\ pc \in {"ehlo", "etrn", "cram", "atrn"} => ~sasl

\* SMTP_auth, with its ways out in the middle of an exchange (SMTP_auth_error),
\* leaves no reply unread and no exchange open, if the replies to AUTH have one
\* line and the last one does not come after the alarm: the driver's next
\* command is answered as such.
THEOREM LoginInStep ==
    ASSUME ReplyLines \subseteq {1}
    PROVE  Spec => []InStep
  <1>1. Init => StepInv
    BY DEF Init, NoAuth, StepInv
  <1>2. StepInv /\ [Next]_vars => StepInv'
    <2> SUFFICES ASSUME StepInv, [Next]_vars PROVE StepInv'
      OBVIOUS
    <2>2. ASSUME NEW c \in Configs, Start(c)
          PROVE  StepInv'
      BY <2>2 DEF StepInv, Start, NoAuth
    <2>3. ASSUME NEW offered \in BOOLEAN, NEW S \in SUBSET Methods, Ehlo(offered, S)
          PROVE  StepInv'
      BY <2>3 DEF StepInv, Ehlo, Greeted, Finish
    <2>4. ASSUME NEW reply \in {"challenge", "garbled", "final"},
                  NEW k \in ReplyLines, AuthCommand(reply, k)
          PROVE  StepInv'
      BY <2>4 DEF StepInv, AuthCommand, ReadReply, ReadLine, AuthOver, AuthGoes, AuthAt, Greeted, Finish
    <2>5. ASSUME NEW reply \in {"challenge", "garbled", "final", "decodes"},
                  NEW k \in ReplyLines, AuthAnswer(reply, k)
          PROVE  StepInv'
      BY <2>5 DEF StepInv, AuthAnswer, ReadReply, ReadLine, AuthOver, AuthGoes, AuthAt, Greeted, Finish
    <2>6. CASE AuthPassword
      BY <2>6 DEF StepInv, AuthPassword, ReadReply, AuthOver, Greeted, Finish
    <2>l. CASE AuthLate
      BY <2>l DEF StepInv, AuthLate, AuthAt, Greeted, Finish
    <2>7. ASSUME NEW k \in ReplyLines, AuthCancel(k)
          PROVE  StepInv'
      BY <2>7 DEF StepInv, AuthCancel, AuthError, ReadLine, AuthOver, Greeted, Finish
    <2>8. CASE \E code \in EtrnCodes : Etrn(code)
      BY <2>8 DEF StepInv, Etrn, Finish, smtpAuth
    <2>9. CASE EhloFails \/ EtrnDone \/ NoAnswer \/ SelectFails \/ Logout
      BY <2>9 DEF StepInv, EhloFails, EtrnDone, NoAnswer, SelectFails, Logout, Finish, asking, smtpAuth
    <2>10. CASE \E ok \in BOOLEAN : Cram(ok)
      BY <2>10 DEF StepInv, Cram, Finish, asking, smtpAuth
    <2>11. CASE \E code \in AtrnCodes, ok \in BOOLEAN : Atrn(code, ok)
      BY <2>11 DEF StepInv, Atrn, Finish, smtpAuth
    <2>12. CASE \/ \E m \in Msgs : QueueArrival(m)
                \/ \E m \in Msgs, whole \in BOOLEAN : ServerSends(m, whole)
                \/ ServerHears \/ ServerQuits
                \/ \E side \in {"server", "listener"} : Lose(side)
      <3>1. UNCHANGED <<pc, auth, sasl, unread>>
        <4>1. CASE \E m \in Msgs : QueueArrival(m)
          BY <4>1 DEF QueueArrival, asking, smtpAuth
        <4>2. CASE \E m \in Msgs, whole \in BOOLEAN : ServerSends(m, whole)
          BY <4>2, Zenon DEF ServerSends, asking, smtpAuth
        <4>3. CASE ServerHears \/ ServerQuits
          BY <4>3 DEF ServerHears, ServerQuits, asking, smtpAuth
        <4>4. CASE \E side \in {"server", "listener"} : Lose(side)
          BY <4>4 DEF Lose, asking, smtpAuth
        <4> QED BY <2>12, <4>1, <4>2, <4>3, <4>4
      <3> QED BY <3>1 DEF StepInv
    <2>13. CASE ListenerData \/ \E f \in {"accepted", "refused", "defer"} : ListenerEnd(f)
      BY <2>13 DEF StepInv, ListenerData, ListenerEnd, ListenerReads, asking, smtpAuth
    <2>14. CASE PipeServer \/ PipeListener \/ PipeEnds
      BY <2>14 DEF StepInv, PipeServer, PipeListener, PipeEnds, asking, smtpAuth
    <2>15. CASE UNCHANGED vars
      BY <2>15 DEF StepInv, vars
    <2> QED
      BY <2>2, <2>3, <2>4, <2>5, <2>6, <2>l, <2>7, <2>8, <2>9, <2>10, <2>11, <2>12,
         <2>13, <2>14, <2>15 DEF Next
  <1>3. StepInv => InStep
    BY DEF StepInv, InStep
  <1> QED
    BY <1>1, <1>2, <1>3, PTL DEF Spec

-----------------------------------------------------------------------------
(* The pipe.  The server has one message under way at a time, so each wire *)
(* holds at most its two lines, and there are few ways to spread them.     *)

Data(m) == <<m, "data">>
End(m) == <<m, "end">>
Lines == Msgs \X {"data", "end"}

\* What goes to the listener: what it can read, what the TLS library keeps
\* back, the records from the server.
OnTheWay(read, kept, records) ==
    toListener = read /\ decoded = kept /\ fromServer = records

NothingOnTheWay == OnTheWay(<<>>, <<>>, <<>>)

\* The data was sent: it is on its way, or the listener has it, or is gone.
DataOnTheWay(m) ==
    \/ NothingOnTheWay
    \/ OnTheWay(<<>>, <<>>, <<<<Data(m)>>>>)
    \/ OnTheWay(<<Data(m)>>, <<>>, <<>>)

\* So was the end: both are on their way, or the end only, or (once the
\* listener is gone) the data only.
AllOnTheWay(m) ==
    \/ OnTheWay(<<>>, <<>>, <<<<Data(m), End(m)>>>>)
    \/ OnTheWay(<<>>, <<>>, <<<<Data(m)>>, <<End(m)>>>>)
    \/ OnTheWay(<<Data(m)>>, <<End(m)>>, <<>>)
    \/ OnTheWay(<<Data(m)>>, <<>>, <<<<End(m)>>>>)
    \/ OnTheWay(<<Data(m), End(m)>>, <<>>, <<>>)
EndOnTheWay(m) ==
    \/ OnTheWay(<<>>, <<End(m)>>, <<>>)
    \/ OnTheWay(<<>>, <<>>, <<<<End(m)>>>>)
    \/ OnTheWay(<<End(m)>>, <<>>, <<>>)
WholeOnTheWay(m) == DataOnTheWay(m) \/ AllOnTheWay(m) \/ EndOnTheWay(m)

Unanswered == fromListener = <<>> /\ toServer = <<>>

\* The listener's answer is on one of its wires, and it is a true one.
Answered(m) ==
    \E f \in {"accepted", "refused", "defer"} :
       /\ f # "defer" => fate[m] # "waiting"
       /\ \/ fromListener = <<<<m, f>>>> /\ toServer = <<>>
          \/ fromListener = <<>> /\ toServer = <<<<m, f>>>>

\* Where the lines of the message under way may be, by how far it is.  Its
\* copy is still in the queue: only the answer removes it.
WireInv ==
    \/ current.at \in {"idle", "over"} /\ NothingOnTheWay /\ Unanswered
    \/ /\ current.at = "half" /\ current.m \in queue
       /\ DataOnTheWay(current.m) /\ Unanswered
    \/ /\ current.at = "sent" /\ current.m \in queue
       /\ \/ WholeOnTheWay(current.m) /\ Unanswered
          \/ NothingOnTheWay /\ Answered(current.m)

StoreInv ==
    /\ queue \subseteq Msgs
    /\ fate \in [Msgs -> {"waiting", "accepted", "refused"}]

\* The lines between the server and the listener, in their order.
Way(read, kept, records) == read \o kept \o FlattenSeq(records)
Underway == Way(toListener, decoded, fromServer)

FaithInv ==
    /\ heard \in Seq(Lines) /\ said \in Seq(Lines)
    /\ IF "listener" \in gone THEN IsPrefix(heard, said)
       ELSE heard \o Underway = said

\* Only TLS keeps lines back.
KeptInv == decoded # <<>> => config.ssl

PipeInv == StoreInv /\ WireInv /\ KeptInv /\ FaithInv

-----------------------------------------------------------------------------
(* Sequences.                                                              *)

\* The recursive function behind FlattenSeq.
FlatOf(s, f) == f = [i \in 1..Len(s) |-> IF i = 1 THEN s[i] ELSE f[i - 1] \o s[i]]

LEMMA FlattenUnfolds ==
    ASSUME NEW s, Len(s) # 0, NEW g, FlatOf(s, g)
    PROVE  \E f : FlatOf(s, f) /\ FlattenSeq(s) = f[Len(s)]
  <1>1. FlattenSeq(s) = (CHOOSE f : FlatOf(s, f))[Len(s)]
    BY Zenon DEF FlattenSeq, FlatOf
  <1>2. FlatOf(s, CHOOSE f : FlatOf(s, f))
    BY Zenon
  <1> QED BY <1>1, <1>2, Zenon

\* No record on the wire.
LEMMA FlattenNone == FlattenSeq(<<>>) = <<>>
  BY DEF FlattenSeq

\* One record on the wire.
LEMMA FlattenOne == ASSUME NEW a PROVE FlattenSeq(<<a>>) = a
  <1>1. PICK s : s = <<a>>
    OBVIOUS
  <1>2. Len(s) = 1 /\ s[1] = a /\ 1..Len(s) = {1}
    BY <1>1
  <1>3. FlatOf(s, [i \in 1..1 |-> a])
    BY <1>2 DEF FlatOf
  <1>4. PICK f : FlatOf(s, f) /\ FlattenSeq(s) = f[Len(s)]
    BY <1>2, <1>3, FlattenUnfolds
  <1>5. f[1] = s[1]
    BY <1>2, <1>4 DEF FlatOf
  <1> QED BY <1>1, <1>2, <1>4, <1>5

\* Two records on the wire.
LEMMA FlattenTwo == ASSUME NEW a, NEW b PROVE FlattenSeq(<<a, b>>) = a \o b
  <1>1. PICK s : s = <<a, b>>
    OBVIOUS
  <1>2. Len(s) = 2 /\ s[1] = a /\ s[2] = b /\ 1..Len(s) = {1, 2}
    BY <1>1
  <1>3. FlatOf(s, [i \in {1, 2} |-> IF i = 1 THEN a ELSE a \o b])
    BY <1>2 DEF FlatOf
  <1>4. PICK f : FlatOf(s, f) /\ FlattenSeq(s) = f[Len(s)]
    <2>1. PICK g : FlatOf(s, g)
      BY <1>3
    <2>2. Len(s) # 0
      BY <1>2
    <2> QED BY <2>1, <2>2, FlattenUnfolds
  <1>5. f = [i \in {1, 2} |-> IF i = 1 THEN s[i] ELSE f[i - 1] \o s[i]]
    BY <1>2, <1>4 DEF FlatOf
  <1>6. f[1] = s[1]
    BY <1>5
  <1>7. f[2] = f[1] \o s[2]
    <2>1. \A i \in {1, 2} : f[i] = IF i = 1 THEN s[i] ELSE f[i - 1] \o s[i]
      BY <1>5, Zenon
    <2>2. 2 # 1 /\ 2 - 1 = 1
      OBVIOUS
    <2>3. f[2] = f[2 - 1] \o s[2]
      BY <2>1, <2>2, Zenon
    <2> QED BY <2>2, <2>3, Zenon
  <1> QED BY <1>1, <1>2, <1>4, <1>6, <1>7

\* Sequences of one and of two lines, taken apart.
LEMMA Pairs ==
    ASSUME NEW x, NEW y
    PROVE  /\ Head(<<x>>) = x /\ Tail(<<x>>) = <<>> /\ Head(<<x, y>>) = x
           /\ Tail(<<x, y>>) = <<y>>
           /\ <<>> \o <<>> = <<>> /\ <<>> \o <<x>> = <<x>> /\ <<x>> \o <<>> = <<x>>
           /\ <<x, y>> \o <<>> = <<x, y>> /\ <<>> \o <<x, y>> = <<x, y>>
           /\ <<x>> \o <<y>> = <<x, y>>
           /\ Append(<<>>, x) = <<x>> /\ Append(<<x>>, y) = <<x, y>>
           /\ <<x>> # <<>> /\ <<x, y>> # <<>>
           /\ <<x>>[1] = x /\ <<x, y>>[1] = x
  <1> DEFINE S == {x, y}
  <1>12. <<x>> \in Seq(S) /\ <<x, y>> \in Seq(S) /\ <<y>> \in Seq(S) /\ <<>> \in Seq(S)
    OBVIOUS
  <1>13. Len(<<x>>) = 1 /\ Len(<<y>>) = 1 /\ Len(<<x, y>>) = 2
    OBVIOUS
  <1>1. Head(<<x>>) = x /\ Head(<<x, y>>) = x
    OBVIOUS
  <1>2. Tail(<<x>>) = <<>>
    OBVIOUS
  <1>3. Tail(<<x, y>>) = <<y>>
    OBVIOUS
  <1>4. <<>> \o <<>> = <<>>
    BY ConcatEmptySeq, <1>12
  <1>5. <<>> \o <<x>> = <<x>> /\ <<x>> \o <<>> = <<x>>
    BY ConcatEmptySeq, <1>12
  <1>6. <<x, y>> \o <<>> = <<x, y>> /\ <<>> \o <<x, y>> = <<x, y>>
    BY ConcatEmptySeq, <1>12
  <1>7. <<x>> \o <<y>> = <<x, y>>
    <2>1. PICK c : c = <<x>> \o <<y>>
      OBVIOUS
    <2>2. PICK a : a = <<x>>
      OBVIOUS
    <2>3. PICK b : b = <<y>>
      OBVIOUS
    <2>4. a \in Seq(S) /\ b \in Seq(S) /\ Len(a) = 1 /\ Len(b) = 1 /\ a[1] = x /\ b[1] = y
      BY <2>2, <2>3
    <2>5. /\ c \in Seq(S) /\ Len(c) = Len(a) + Len(b)
          /\ \A i \in 1..Len(a) + Len(b) :
                c[i] = IF i <= Len(a) THEN a[i] ELSE b[i - Len(a)]
      BY <2>1, <2>2, <2>3, <2>4, ConcatProperties
    <2>6. Len(c) = 2 /\ c[1] = x /\ c[2] = y
      BY <2>4, <2>5
    <2>7. \A i \in 1..Len(c) : c[i] = <<x, y>>[i]
      BY <2>6
    <2> QED BY <1>12, <1>13, <2>1, <2>5, <2>6, <2>7, SeqEqual
  <1>8. Append(<<>>, x) = <<x>>
    OBVIOUS
  <1>9. Append(<<x>>, y) = <<x, y>>
    BY <1>7, <1>12, AppendIsConcat
  <1>10. <<x>> # <<>> /\ <<x, y>> # <<>>
    OBVIOUS
  <1>11. <<x>>[1] = x /\ <<x, y>>[1] = x
    OBVIOUS
  <1> QED BY <1>1, <1>2, <1>3, <1>4, <1>5, <1>6, <1>7, <1>8, <1>9, <1>10, <1>11

\* Reading the first line under way moves it to the end of what was heard.
LEMMA HeardMoves ==
    ASSUME NEW S, NEW h \in Seq(S), NEW x \in S, NEW u \in Seq(S)
    PROVE  Append(h, x) \o u = h \o (<<x>> \o u)
  <1>1. Append(h, x) = h \o <<x>> /\ <<x>> \in Seq(S)
    BY AppendIsConcat
  <1> QED BY <1>1, ConcatAssociative

\* What is said after it does not make a prefix any less of one.
LEMMA PrefixStays ==
    ASSUME NEW S, NEW h \in Seq(S), NEW s \in Seq(S), NEW u \in Seq(S), IsPrefix(h, s)
    PROVE  IsPrefix(h, s \o u)
  <1>1. Len(h) \in Nat /\ Len(s) \in Nat /\ Len(u) \in Nat /\ Len(h) <= Len(s)
    BY LenProperties DEF IsPrefix
  <1>2. Len(s \o u) = Len(s) + Len(u)
    BY ConcatProperties
  <1>3. SubSeq(s \o u, 1, Len(h)) = SubSeq(s, 1, Len(h))
    <2>1. CASE Len(h) = 0
      BY <2>1, SubSeqEmpty
    <2>2. CASE Len(h) # 0
      <3>1. 1 \in 1..Len(s) /\ Len(h) \in 1..Len(s)
        BY <1>1, <2>2
      <3> QED BY <3>1, SubSeqOfConcat1
    <2> QED BY <2>1, <2>2
  <1> QED BY <1>1, <1>2, <1>3 DEF IsPrefix

\* A sequence is a prefix of what it was lengthened to.
LEMMA PrefixOfConcat ==
    ASSUME NEW S, NEW h \in Seq(S), NEW u \in Seq(S)
    PROVE  IsPrefix(h, h \o u)
  <1>1. IsPrefix(h, h)
    BY LenProperties DEF IsPrefix
  <1> QED BY <1>1, PrefixStays

\* What is under way, for each way to spread the lines d and e.
LEMMA WayValues ==
    ASSUME NEW d, NEW e
    PROVE  /\ Way(<<>>, <<>>, <<>>) = <<>>
           /\ Way(<<>>, <<>>, <<<<d>>>>) = <<d>>
           /\ Way(<<d>>, <<>>, <<>>) = <<d>>
           /\ Way(<<>>, <<>>, <<<<d, e>>>>) = <<d, e>>
           /\ Way(<<>>, <<>>, <<<<d>>, <<e>>>>) = <<d, e>>
           /\ Way(<<d>>, <<e>>, <<>>) = <<d, e>>
           /\ Way(<<d>>, <<>>, <<<<e>>>>) = <<d, e>>
           /\ Way(<<d, e>>, <<>>, <<>>) = <<d, e>>
           /\ Way(<<>>, <<e>>, <<>>) = <<e>>
           /\ Way(<<>>, <<>>, <<<<e>>>>) = <<e>>
           /\ Way(<<e>>, <<>>, <<>>) = <<e>>
  <1>1. /\ <<>> \o <<>> = <<>>
        /\ <<>> \o <<d>> = <<d>> /\ <<d>> \o <<>> = <<d>>
        /\ <<>> \o <<e>> = <<e>> /\ <<e>> \o <<>> = <<e>>
        /\ <<d>> \o <<e>> = <<d, e>>
        /\ <<d, e>> \o <<>> = <<d, e>> /\ <<>> \o <<d, e>> = <<d, e>>
    BY Pairs, Zenon
  <1>2. /\ FlattenSeq(<<>>) = <<>> /\ FlattenSeq(<<<<d>>>>) = <<d>>
        /\ FlattenSeq(<<<<e>>>>) = <<e>> /\ FlattenSeq(<<<<d, e>>>>) = <<d, e>>
        /\ FlattenSeq(<<<<d>>, <<e>>>>) = <<d>> \o <<e>>
    BY FlattenNone, FlattenOne, FlattenTwo, Zenon
  <1>3. /\ Way(<<>>, <<>>, <<>>) = <<>>
        /\ Way(<<>>, <<>>, <<<<d>>>>) = <<d>>
        /\ Way(<<d>>, <<>>, <<>>) = <<d>>
    BY <1>1, <1>2, Zenon DEF Way
  <1>4. /\ Way(<<>>, <<>>, <<<<d, e>>>>) = <<d, e>>
        /\ Way(<<>>, <<>>, <<<<d>>, <<e>>>>) = <<d, e>>
        /\ Way(<<d>>, <<e>>, <<>>) = <<d, e>>
        /\ Way(<<d>>, <<>>, <<<<e>>>>) = <<d, e>>
        /\ Way(<<d, e>>, <<>>, <<>>) = <<d, e>>
    BY <1>1, <1>2, Zenon DEF Way
  <1>5. /\ Way(<<>>, <<e>>, <<>>) = <<e>>
        /\ Way(<<>>, <<>>, <<<<e>>>>) = <<e>>
        /\ Way(<<e>>, <<>>, <<>>) = <<e>>
    BY <1>1, <1>2, Zenon DEF Way
  <1> QED BY <1>3, <1>4, <1>5, Zenon

-----------------------------------------------------------------------------
(* One line through the pipe.                                              *)

Arrives(t, x) == IF "listener" \in gone THEN t ELSE Append(t, x)

\* A record of one line.
LEMMA PipeOne ==
    ASSUME PipeServer, NEW t, NEW x, OnTheWay(t, <<>>, <<<<x>>>>)
    PROVE  OnTheWay(Arrives(t, x), <<>>, <<>>)'
  <1>1. PICK r : r = <<x>>
    OBVIOUS
  <1>2. Head(r) = x /\ Tail(r) = <<>> /\ r # <<>>
    BY <1>1, Pairs, Zenon
  <1>3. Head(fromServer) = r /\ Tail(fromServer) = <<>> /\ fromServer # <<>> /\ <<>> \o <<>> = <<>>
    BY <1>1, Pairs, Zenon DEF OnTheWay
  <1>4. Pending = r
    BY <1>3, Zenon DEF Pending, OnTheWay
  <1>5. gone' = gone /\ toListener' = Arrives(t, x)
    BY <1>2, <1>4, Zenon DEF PipeServer, Deliver, Forward, Reaches, Arrives, OnTheWay, peers
  <1>6. decoded' = <<>> /\ fromServer' = <<>>
    BY <1>2, <1>3, <1>4, Zenon DEF PipeServer, OnTheWay
  <1> QED BY <1>5, <1>6, Zenon DEF OnTheWay, Arrives

\* A record of two: what is left of it stays in the socket, or with TLS in
\* the library.
LEMMA PipeTwo ==
    ASSUME PipeServer, NEW t, NEW x, NEW y, OnTheWay(t, <<>>, <<<<x, y>>>>)
    PROVE  \/ OnTheWay(Arrives(t, x), <<y>>, <<>>)' /\ config.ssl
           \/ OnTheWay(Arrives(t, x), <<>>, <<<<y>>>>)'
  <1>1. PICK r : r = <<x, y>>
    OBVIOUS
  <1>2. Head(r) = x /\ Tail(r) = <<y>> /\ r # <<>> /\ <<y>> # <<>>
    <2>1. <<y>> # <<>>
      BY Pairs, Zenon
    <2>2. Head(<<x, y>>) = x /\ Tail(<<x, y>>) = <<y>> /\ <<x, y>> # <<>>
      BY Pairs
    <2> QED BY <1>1, <2>1, <2>2, Zenon
  <1>3. /\ Head(fromServer) = r /\ Tail(fromServer) = <<>> /\ fromServer # <<>>
        /\ <<<<y>>>> \o <<>> = <<<<y>>>>
    BY <1>1, Pairs, Zenon DEF OnTheWay
  <1>4. Pending = r
    BY <1>3, Zenon DEF Pending, OnTheWay
  <1>5. gone' = gone /\ toListener' = Arrives(t, x)
    BY <1>2, <1>4, Zenon DEF PipeServer, Deliver, Forward, Reaches, Arrives, OnTheWay, peers
  <1>6. \/ decoded' = <<y>> /\ fromServer' = <<>> /\ config.ssl
        \/ decoded' = <<>> /\ fromServer' = <<<<y>>>>
    BY <1>2, <1>3, <1>4, Zenon DEF PipeServer, Buffered, OnTheWay
  <1> QED BY <1>5, <1>6, Zenon DEF OnTheWay, Arrives

\* The first of two records.
LEMMA PipeFirst ==
    ASSUME PipeServer, NEW t, NEW x, NEW y, OnTheWay(t, <<>>, <<<<x>>, <<y>>>>)
    PROVE  OnTheWay(Arrives(t, x), <<>>, <<<<y>>>>)'
  <1>1. PICK r : r = <<x>>
    OBVIOUS
  <1>2. Head(r) = x /\ Tail(r) = <<>> /\ r # <<>>
    BY <1>1, Pairs, Zenon
  <1>3. /\ Head(fromServer) = r /\ Tail(fromServer) = <<<<y>>>> /\ fromServer # <<>>
        /\ <<>> \o <<<<y>>>> = <<<<y>>>>
    <2>1. PICK q : q = <<y>>
      OBVIOUS
    <2>2. <<>> \o <<q>> = <<q>>
      BY Pairs, Zenon
    <2>3. Head(<<r, q>>) = r /\ Tail(<<r, q>>) = <<q>> /\ <<r, q>> # <<>>
      BY Pairs
    <2> QED BY <1>1, <2>1, <2>2, <2>3, Zenon DEF OnTheWay
  <1>4. Pending = r
    BY <1>3, Zenon DEF Pending, OnTheWay
  <1>5. gone' = gone /\ toListener' = Arrives(t, x)
    BY <1>2, <1>4, Zenon DEF PipeServer, Deliver, Forward, Reaches, Arrives, OnTheWay, peers
  <1>6. decoded' = <<>> /\ fromServer' = <<<<y>>>>
    BY <1>2, <1>3, <1>4, Zenon DEF PipeServer, OnTheWay
  <1> QED BY <1>5, <1>6, Zenon DEF OnTheWay, Arrives

\* The line the TLS library has kept back.
LEMMA PipeKept ==
    ASSUME PipeServer, KeptInv, NEW t, NEW x, OnTheWay(t, <<x>>, <<>>)
    PROVE  OnTheWay(Arrives(t, x), <<>>, <<>>)'
  <1>1. decoded # <<>> /\ Head(decoded) = x /\ Tail(decoded) = <<>>
    BY Pairs, Zenon DEF OnTheWay
  <1>2. Pending = decoded /\ config.ssl
    BY <1>1, Zenon DEF Pending, KeptInv
  <1>3. gone' = gone /\ toListener' = Arrives(t, x)
    BY <1>1, <1>2, Zenon DEF PipeServer, Deliver, Forward, Reaches, Arrives, OnTheWay, peers
  <1>4. decoded' = <<>> /\ fromServer' = <<>>
    BY <1>1, <1>2, Zenon DEF PipeServer, Buffered, OnTheWay
  <1> QED BY <1>3, <1>4, Zenon DEF OnTheWay, Arrives

-----------------------------------------------------------------------------
(* The steps preserve PipeInv.                                             *)

\* Where the wires to the listener do not change, nor does what is under way.
LEMMA SameWay ==
    ASSUME UNCHANGED <<toListener, decoded, fromServer>>
    PROVE  /\ Underway' = Underway
           /\ NothingOnTheWay' = NothingOnTheWay
           /\ \A m : DataOnTheWay(m)' = DataOnTheWay(m)
           /\ \A m : WholeOnTheWay(m)' = WholeOnTheWay(m)
  BY Zenon DEF Underway, NothingOnTheWay, DataOnTheWay, WholeOnTheWay, AllOnTheWay,
     EndOnTheWay, OnTheWay

\* Its lines, and sequences of them.
LEMMA LinesOf ==
    ASSUME NEW m \in Msgs
    PROVE  /\ Data(m) \in Lines /\ End(m) \in Lines
           /\ <<>> \in Seq(Lines) /\ <<Data(m)>> \in Seq(Lines) /\ <<End(m)>> \in Seq(Lines)
           /\ <<Data(m), End(m)>> \in Seq(Lines)
  <1>1. Data(m) \in Lines /\ End(m) \in Lines
    BY DEF Data, End, Lines
  <1> QED BY <1>1

LEMMA UnderwayTyped ==
    ASSUME StoreInv, WireInv
    PROVE  Underway \in Seq(Lines)
  <1>1. CASE NothingOnTheWay
    <2>1. Underway = <<>>
      BY <1>1, WayValues, Zenon DEF NothingOnTheWay, OnTheWay, Underway
    <2> QED BY <2>1
  <1>2. CASE ~NothingOnTheWay
    <2>1. PICK m : m = current.m
      OBVIOUS
    <2>2. m \in Msgs /\ WholeOnTheWay(m)
      BY <1>2, <2>1 DEF StoreInv, WireInv, WholeOnTheWay
    <2>3. Underway \in {<<Data(m)>>, <<End(m)>>, <<Data(m), End(m)>>}
      <3>1. CASE DataOnTheWay(m)
        BY <1>2, <3>1, WayValues, Zenon DEF DataOnTheWay, OnTheWay, Underway
      <3>2. CASE AllOnTheWay(m)
        <4>1. /\ Way(<<>>, <<>>, <<<<Data(m), End(m)>>>>) = <<Data(m), End(m)>>
              /\ Way(<<>>, <<>>, <<<<Data(m)>>, <<End(m)>>>>) = <<Data(m), End(m)>>
              /\ Way(<<Data(m)>>, <<End(m)>>, <<>>) = <<Data(m), End(m)>>
              /\ Way(<<Data(m)>>, <<>>, <<<<End(m)>>>>) = <<Data(m), End(m)>>
              /\ Way(<<Data(m), End(m)>>, <<>>, <<>>) = <<Data(m), End(m)>>
          BY WayValues, Zenon
        <4>2. Underway = <<Data(m), End(m)>>
          BY <3>2, <4>1, Zenon DEF AllOnTheWay, OnTheWay, Underway
        <4> QED BY <4>2, Zenon
      <3>3. CASE EndOnTheWay(m)
        BY <3>3, WayValues, Zenon DEF EndOnTheWay, OnTheWay, Underway
      <3> QED BY <2>2, <3>1, <3>2, <3>3 DEF WholeOnTheWay
    <2> QED BY <2>2, <2>3, LinesOf
  <1> QED BY <1>1, <1>2

\* Steps that touch neither the wires nor the message under way.
LEMMA QuietSteps ==
    ASSUME PipeInv, StoreInv', queue \subseteq queue',
           UNCHANGED <<fate, current, wires, heard, said>>,
           gone \subseteq gone', decoded # <<>> => config' = config
    PROVE  PipeInv'
  <1>1. UNCHANGED <<toListener, decoded, fromServer, fromListener, toServer>>
    BY DEF wires
  <1>2. WireInv'
    <2>1. Unanswered' = Unanswered /\ \A m : Answered(m)' = Answered(m)
      BY <1>1, Zenon DEF Unanswered, Answered
    <2> QED BY <1>1, <2>1, SameWay DEF PipeInv, WireInv
  <1>3. KeptInv'
    BY <1>1 DEF PipeInv, KeptInv
  <1>4. FaithInv'
    <2>1. heard' = heard /\ said' = said /\ Underway' = Underway
      BY <1>1, SameWay
    <2>2. CASE "listener" \in gone
      BY <2>1, <2>2 DEF PipeInv, FaithInv
    <2>3. CASE "listener" \notin gone
      <3>1. heard \o Underway = said /\ heard \in Seq(Lines) /\ said \in Seq(Lines)
        BY <2>3 DEF PipeInv, FaithInv
      <3>2. Underway \in Seq(Lines)
        BY UnderwayTyped DEF PipeInv
      <3>3. IsPrefix(heard, said)
        BY <3>1, <3>2, PrefixOfConcat
      <3> QED BY <2>1, <3>1, <3>3 DEF FaithInv
    <2> QED BY <2>2, <2>3
  <1> QED BY <1>2, <1>3, <1>4 DEF PipeInv

\* PipeServer moves the data on, and nothing is lost as long as the listener
\* is there.
LEMMA PipeDataMoves ==
    ASSUME PipeServer, NEW m, gone' = gone, DataOnTheWay(m), Pending # <<>>
    PROVE  /\ DataOnTheWay(m)'
           /\ "listener" \notin gone => Underway' = Underway
           /\ decoded' = <<>>
  <1>1. PICK d : d = Data(m)
    OBVIOUS
  <1>2. Append(<<>>, d) = <<d>>
    BY Pairs
  <1>3. OnTheWay(<<>>, <<>>, <<<<d>>>>)
    BY <1>1, Zenon DEF DataOnTheWay, NothingOnTheWay, OnTheWay, Pending
  <1>4. OnTheWay(IF "listener" \in gone THEN <<>> ELSE <<d>>, <<>>, <<>>)'
    <2>1. OnTheWay(Arrives(<<>>, d), <<>>, <<>>)'
      BY <1>3, PipeOne, Zenon
    <2> QED BY <1>2, <2>1, Zenon DEF Arrives, OnTheWay
  <1>5. DataOnTheWay(m)' /\ decoded' = <<>>
    BY <1>1, <1>4, Zenon DEF DataOnTheWay, NothingOnTheWay, OnTheWay
  <1>6. "listener" \notin gone => Underway' = Underway
    BY <1>3, <1>4, WayValues, Zenon DEF OnTheWay, Underway
  <1> QED BY <1>5, <1>6

\* The same for the data and the end.
LEMMA PipeWholeMoves ==
    ASSUME PipeServer, KeptInv, NEW m, gone' = gone, WholeOnTheWay(m), Pending # <<>>
    PROVE  /\ WholeOnTheWay(m)'
           /\ "listener" \notin gone => Underway' = Underway
           /\ decoded' # <<>> => config.ssl
  <1>1. PICK d : d = Data(m)
    OBVIOUS
  <1>2. PICK e : e = End(m)
    OBVIOUS
  <1>3. /\ Append(<<>>, d) = <<d>> /\ Append(<<>>, e) = <<e>> /\ Append(<<d>>, e) = <<d, e>>
    BY Pairs
  <1>values. /\ Way(<<>>, <<>>, <<<<d, e>>>>) = <<d, e>>
         /\ Way(<<>>, <<>>, <<<<d>>, <<e>>>>) = <<d, e>>
         /\ Way(<<d>>, <<e>>, <<>>) = <<d, e>>
         /\ Way(<<d>>, <<>>, <<<<e>>>>) = <<d, e>>
         /\ Way(<<d, e>>, <<>>, <<>>) = <<d, e>>
         /\ Way(<<>>, <<e>>, <<>>) = <<e>>
         /\ Way(<<>>, <<>>, <<<<e>>>>) = <<e>>
         /\ Way(<<e>>, <<>>, <<>>) = <<e>>
    BY WayValues
  <1>4. CASE DataOnTheWay(m)
    BY <1>4, PipeDataMoves DEF WholeOnTheWay
  <1>5. CASE OnTheWay(<<>>, <<>>, <<<<d, e>>>>)
    <2>1. \/ OnTheWay(IF "listener" \in gone THEN <<>> ELSE <<d>>, <<e>>, <<>>)' /\ config.ssl
          \/ OnTheWay(IF "listener" \in gone THEN <<>> ELSE <<d>>, <<>>, <<<<e>>>>)'
      BY <1>3, <1>5, PipeTwo, Zenon DEF Arrives, OnTheWay
    <2>2. CASE OnTheWay(IF "listener" \in gone THEN <<>> ELSE <<d>>, <<e>>, <<>>)' /\ config.ssl
      <3>1. WholeOnTheWay(m)' /\ (decoded' # <<>> => config.ssl)
        BY <1>1, <1>2, <2>2, Zenon DEF WholeOnTheWay, DataOnTheWay, AllOnTheWay, EndOnTheWay,
           NothingOnTheWay, OnTheWay
      <3>2. "listener" \notin gone => Underway' = Underway
        BY <1>5, <2>2, <1>values, Zenon DEF OnTheWay, Underway
      <3> QED BY <3>1, <3>2
    <2>3. CASE OnTheWay(IF "listener" \in gone THEN <<>> ELSE <<d>>, <<>>, <<<<e>>>>)'
      <3>1. WholeOnTheWay(m)' /\ (decoded' # <<>> => config.ssl)
        BY <1>1, <1>2, <2>3, Zenon DEF WholeOnTheWay, DataOnTheWay, AllOnTheWay, EndOnTheWay,
           NothingOnTheWay, OnTheWay
      <3>2. "listener" \notin gone => Underway' = Underway
        BY <1>5, <2>3, <1>values, Zenon DEF OnTheWay, Underway
      <3> QED BY <3>1, <3>2
    <2> QED BY <2>1, <2>2, <2>3
  <1>6. CASE OnTheWay(<<>>, <<>>, <<<<d>>, <<e>>>>)
    <2>1. OnTheWay(IF "listener" \in gone THEN <<>> ELSE <<d>>, <<>>, <<<<e>>>>)'
      BY <1>3, <1>6, PipeFirst, Zenon DEF Arrives, OnTheWay
    <2>2. WholeOnTheWay(m)' /\ decoded' = <<>>
      BY <1>1, <1>2, <2>1, Zenon DEF WholeOnTheWay, DataOnTheWay, AllOnTheWay, EndOnTheWay,
         NothingOnTheWay, OnTheWay
    <2>3. "listener" \notin gone => Underway' = Underway
      BY <1>6, <2>1, <1>values, Zenon DEF OnTheWay, Underway
    <2> QED BY <2>2, <2>3
  <1>7. CASE OnTheWay(<<d>>, <<e>>, <<>>)
    <2>1. OnTheWay(IF "listener" \in gone THEN <<d>> ELSE <<d, e>>, <<>>, <<>>)'
      BY <1>3, <1>7, PipeKept, Zenon DEF Arrives, OnTheWay
    <2>2. WholeOnTheWay(m)' /\ decoded' = <<>>
      BY <1>1, <1>2, <2>1, Zenon DEF WholeOnTheWay, DataOnTheWay, AllOnTheWay, EndOnTheWay,
         NothingOnTheWay, OnTheWay
    <2>3. "listener" \notin gone => Underway' = Underway
      BY <1>7, <2>1, <1>values, Zenon DEF OnTheWay, Underway
    <2> QED BY <2>2, <2>3
  <1>8. CASE OnTheWay(<<d>>, <<>>, <<<<e>>>>)
    <2>1. OnTheWay(IF "listener" \in gone THEN <<d>> ELSE <<d, e>>, <<>>, <<>>)'
      BY <1>3, <1>8, PipeOne, Zenon DEF Arrives, OnTheWay
    <2>2. WholeOnTheWay(m)' /\ decoded' = <<>>
      BY <1>1, <1>2, <2>1, Zenon DEF WholeOnTheWay, DataOnTheWay, AllOnTheWay, EndOnTheWay,
         NothingOnTheWay, OnTheWay
    <2>3. "listener" \notin gone => Underway' = Underway
      BY <1>8, <2>1, <1>values, Zenon DEF OnTheWay, Underway
    <2> QED BY <2>2, <2>3
  <1>9. CASE OnTheWay(<<>>, <<e>>, <<>>)
    <2>1. OnTheWay(IF "listener" \in gone THEN <<>> ELSE <<e>>, <<>>, <<>>)'
      BY <1>3, <1>9, PipeKept, Zenon DEF Arrives, OnTheWay
    <2>2. WholeOnTheWay(m)' /\ decoded' = <<>>
      BY <1>1, <1>2, <2>1, Zenon DEF WholeOnTheWay, DataOnTheWay, AllOnTheWay, EndOnTheWay,
         NothingOnTheWay, OnTheWay
    <2>3. "listener" \notin gone => Underway' = Underway
      BY <1>9, <2>1, <1>values, Zenon DEF OnTheWay, Underway
    <2> QED BY <2>2, <2>3
  <1>10. CASE OnTheWay(<<>>, <<>>, <<<<e>>>>)
    <2>1. OnTheWay(IF "listener" \in gone THEN <<>> ELSE <<e>>, <<>>, <<>>)'
      BY <1>3, <1>10, PipeOne, Zenon DEF Arrives, OnTheWay
    <2>2. WholeOnTheWay(m)' /\ decoded' = <<>>
      BY <1>1, <1>2, <2>1, Zenon DEF WholeOnTheWay, DataOnTheWay, AllOnTheWay, EndOnTheWay,
         NothingOnTheWay, OnTheWay
    <2>3. "listener" \notin gone => Underway' = Underway
      BY <1>10, <2>1, <1>values, Zenon DEF OnTheWay, Underway
    <2> QED BY <2>2, <2>3
  <1>11. Pending # <<>> /\ (AllOnTheWay(m) \/ EndOnTheWay(m)) =>
           \/ OnTheWay(<<>>, <<>>, <<<<d, e>>>>) \/ OnTheWay(<<>>, <<>>, <<<<d>>, <<e>>>>)
           \/ OnTheWay(<<d>>, <<e>>, <<>>) \/ OnTheWay(<<d>>, <<>>, <<<<e>>>>)
           \/ OnTheWay(<<>>, <<e>>, <<>>) \/ OnTheWay(<<>>, <<>>, <<<<e>>>>)
    BY <1>1, <1>2, Zenon DEF AllOnTheWay, EndOnTheWay, OnTheWay, Pending
  <1> QED BY <1>4, <1>5, <1>6, <1>7, <1>8, <1>9, <1>10, <1>11 DEF WholeOnTheWay

LEMMA PipeServerKeeps == ASSUME PipeInv, PipeServer PROVE PipeInv'
  <1>1. PICK m : m = current.m
    OBVIOUS
  <1>2. /\ UNCHANGED <<queue, fate, current, fromListener, heard, said, gone, config>>
        /\ toServer' = toServer /\ Pending # <<>>
    BY DEF PipeServer, Deliver, store, peers
  <1>3. ~NothingOnTheWay
    BY <1>2, Zenon DEF Pending, NothingOnTheWay, OnTheWay
  <1>4. /\ m \in queue /\ Unanswered
        /\ \/ current.at = "half" /\ DataOnTheWay(m)
           \/ current.at = "sent" /\ WholeOnTheWay(m)
    BY <1>1, <1>3 DEF PipeInv, WireInv
  <1>5. KeptInv
    BY DEF PipeInv
  <1>6. /\ \/ current.at = "half" /\ DataOnTheWay(m)'
           \/ current.at = "sent" /\ WholeOnTheWay(m)'
        /\ "listener" \notin gone => Underway' = Underway
        /\ decoded' # <<>> => config.ssl
    BY <1>2, <1>4, <1>5, PipeDataMoves, PipeWholeMoves, Zenon
  <1>7. WireInv'
    <2>1. Unanswered' /\ m = current'.m /\ m \in queue'
      BY <1>1, <1>2, <1>4 DEF Unanswered
    <2> QED BY <1>2, <1>6, <2>1 DEF WireInv
  <1>8. FaithInv'
    BY <1>2, <1>6 DEF PipeInv, FaithInv
  <1> QED BY <1>2, <1>6, <1>7, <1>8 DEF PipeInv, StoreInv, KeptInv

LEMMA StartKeeps ==
    ASSUME PipeInv, NEW c, Start(c)
    PROVE  PipeInv'
  <1>1. /\ queue' = queue /\ fate' = fate /\ current'.at = "idle" /\ gone' = {}
        /\ heard' = <<>> /\ said' = <<>>
        /\ toListener' = <<>> /\ decoded' = <<>> /\ fromServer' = <<>>
        /\ fromListener' = <<>> /\ toServer' = <<>>
    BY DEF Start, store, Idle
  <1>2. Underway' = <<>>
    BY <1>1, WayValues, Zenon DEF Underway
  <1>3. FaithInv'
    <2>1. <<>> \o <<>> = <<>>
      BY Pairs
    <2>2. heard' \o Underway' = said' /\ "listener" \notin gone'
      BY <1>1, <1>2, <2>1
    <2>3. heard' \in Seq(Lines) /\ said' \in Seq(Lines)
      BY <1>1
    <2> QED BY <2>2, <2>3 DEF FaithInv
  <1>4. WireInv'
    BY <1>1 DEF WireInv, NothingOnTheWay, OnTheWay, Unanswered
  <1> QED BY <1>1, <1>3, <1>4 DEF PipeInv, StoreInv, KeptInv

\* The answer of the listener goes to the server, or is lost if the server is
\* gone.
LEMMA PipeListenerKeeps == ASSUME PipeInv, PipeListener PROVE PipeInv'
  <1>1. /\ UNCHANGED <<queue, fate, current, heard, said, gone, config>>
        /\ UNCHANGED <<toListener, decoded, fromServer>> /\ fromListener # <<>>
        /\ toServer' = Reaches("server", toServer, Head(fromListener))
        /\ fromListener' = Tail(fromListener)
    BY DEF PipeListener, Deliver, Forward, store, peers
  <1>2. PICK m : m = current.m
    OBVIOUS
  <1>3. current.at = "sent" /\ m \in queue /\ NothingOnTheWay /\ Answered(m)
    BY <1>1, <1>2 DEF PipeInv, WireInv, Unanswered
  <1>4. PICK f \in {"accepted", "refused", "defer"} :
            /\ f # "defer" => fate[m] # "waiting"
            /\ fromListener = <<<<m, f>>>> /\ toServer = <<>>
    BY <1>1, <1>3 DEF Answered
  <1>5. fromListener' = <<>> /\ (toServer' = <<>> \/ toServer' = <<<<m, f>>>>)
    <2>1. PICK x : x = <<m, f>>
      OBVIOUS
    <2>2. Head(<<x>>) = x /\ Tail(<<x>>) = <<>> /\ Append(<<>>, x) = <<x>>
      BY Pairs
    <2> QED BY <1>1, <1>4, <2>1, <2>2, Zenon DEF Reaches
  <1>6. Unanswered' \/ Answered(m)'
    BY <1>1, <1>4, <1>5 DEF Unanswered, Answered
  <1>7. NothingOnTheWay' /\ Underway' = Underway /\ WholeOnTheWay(m)'
    BY <1>1, <1>3, SameWay DEF WholeOnTheWay, DataOnTheWay
  <1>8. WireInv'
    BY <1>1, <1>2, <1>3, <1>6, <1>7 DEF WireInv
  <1>9. FaithInv'
    BY <1>1, <1>7 DEF PipeInv, FaithInv
  <1> QED BY <1>1, <1>8, <1>9 DEF PipeInv, StoreInv, KeptInv

\* The server has the answer: all wires are empty again.
LEMMA ServerHearsKeeps == ASSUME PipeInv, ServerHears PROVE PipeInv'
  <1>1. /\ UNCHANGED <<fate, heard, said, gone, config, fromListener>>
        /\ UNCHANGED <<toListener, decoded, fromServer>> /\ toServer # <<>>
        /\ toServer' = Tail(toServer) /\ queue' \subseteq queue
    BY DEF ServerHears
  <1>2. current'.at \in {"over", "idle"}
    BY DEF ServerHears
  <1>3. PICK m : m = current.m
    OBVIOUS
  <1>4. NothingOnTheWay /\ Answered(m)
    BY <1>1, <1>3 DEF PipeInv, WireInv, Unanswered
  <1>5. toServer' = <<>> /\ fromListener' = <<>>
    <2>1. PICK x : toServer = <<x>> /\ fromListener = <<>>
      BY <1>1, <1>4 DEF Answered
    <2>2. Tail(<<x>>) = <<>>
      BY Pairs
    <2> QED BY <1>1, <2>1, <2>2
  <1>6. NothingOnTheWay' /\ Underway' = Underway
    BY <1>1, <1>4, SameWay
  <1>7. WireInv'
    BY <1>2, <1>5, <1>6 DEF WireInv, Unanswered
  <1>8. FaithInv'
    BY <1>1, <1>6 DEF PipeInv, FaithInv
  <1> QED BY <1>1, <1>7, <1>8 DEF PipeInv, StoreInv, KeptInv
\* The listener takes the first line it can read, and the rest is under way.
LEMMA ListenerTakes ==
    ASSUME NEW m, WholeOnTheWay(m), toListener # <<>>, toListener' = Tail(toListener),
           UNCHANGED <<decoded, fromServer>>
    PROVE  /\ Underway' \in {<<>>, <<End(m)>>}
           /\ \/ /\ toListener[1] = Data(m) /\ Underway = <<Data(m)>> \o Underway'
                 /\ WholeOnTheWay(m)'
              \/ /\ toListener[1] = End(m) /\ Underway = <<End(m)>> \o Underway'
                 /\ NothingOnTheWay'
  <1>1. PICK d : d = Data(m)
    OBVIOUS
  <1>2. PICK e : e = End(m)
    OBVIOUS
  <1>3. /\ <<d>>[1] = d /\ <<d, e>>[1] = d /\ <<e>>[1] = e
        /\ Tail(<<d>>) = <<>> /\ Tail(<<d, e>>) = <<e>> /\ Tail(<<e>>) = <<>>
        /\ <<d>> \o <<>> = <<d>> /\ <<d>> \o <<e>> = <<d, e>> /\ <<e>> \o <<>> = <<e>>
    BY Pairs
  <1>4. /\ Way(<<>>, <<>>, <<>>) = <<>> /\ Way(<<d>>, <<>>, <<>>) = <<d>>
        /\ Way(<<d>>, <<e>>, <<>>) = <<d, e>> /\ Way(<<d>>, <<>>, <<<<e>>>>) = <<d, e>>
        /\ Way(<<d, e>>, <<>>, <<>>) = <<d, e>> /\ Way(<<>>, <<e>>, <<>>) = <<e>>
        /\ Way(<<>>, <<>>, <<<<e>>>>) = <<e>> /\ Way(<<e>>, <<>>, <<>>) = <<e>>
    BY WayValues
  <1>5. CASE OnTheWay(<<d>>, <<>>, <<>>)
    <2>1. OnTheWay(<<>>, <<>>, <<>>)' /\ toListener[1] = d
      BY <1>3, <1>5, Zenon DEF OnTheWay
    <2>2. Underway = <<d>> /\ Underway' = <<>>
      BY <1>5, <1>4, <2>1, Zenon DEF OnTheWay, Underway
    <2>3. WholeOnTheWay(m)'
      BY <1>1, <1>2, <2>1, Zenon DEF WholeOnTheWay, DataOnTheWay, AllOnTheWay, EndOnTheWay,
         NothingOnTheWay, OnTheWay
    <2> QED BY <1>1, <1>2, <1>3, <2>1, <2>2, <2>3, Zenon
  <1>6. CASE OnTheWay(<<d>>, <<e>>, <<>>)
    <2>1. OnTheWay(<<>>, <<e>>, <<>>)' /\ toListener[1] = d
      BY <1>3, <1>6, Zenon DEF OnTheWay
    <2>2. Underway = <<d, e>> /\ Underway' = <<e>>
      BY <1>6, <1>4, <2>1, Zenon DEF OnTheWay, Underway
    <2>3. WholeOnTheWay(m)'
      BY <1>1, <1>2, <2>1, Zenon DEF WholeOnTheWay, DataOnTheWay, AllOnTheWay, EndOnTheWay,
         NothingOnTheWay, OnTheWay
    <2> QED BY <1>1, <1>2, <1>3, <2>1, <2>2, <2>3, Zenon
  <1>7. CASE OnTheWay(<<d>>, <<>>, <<<<e>>>>)
    <2>1. OnTheWay(<<>>, <<>>, <<<<e>>>>)' /\ toListener[1] = d
      BY <1>3, <1>7, Zenon DEF OnTheWay
    <2>2. Underway = <<d, e>> /\ Underway' = <<e>>
      BY <1>7, <1>4, <2>1, Zenon DEF OnTheWay, Underway
    <2>3. WholeOnTheWay(m)'
      BY <1>1, <1>2, <2>1, Zenon DEF WholeOnTheWay, DataOnTheWay, AllOnTheWay, EndOnTheWay,
         NothingOnTheWay, OnTheWay
    <2> QED BY <1>1, <1>2, <1>3, <2>1, <2>2, <2>3, Zenon
  <1>8. CASE OnTheWay(<<d, e>>, <<>>, <<>>)
    <2>1. OnTheWay(<<e>>, <<>>, <<>>)' /\ toListener[1] = d
      BY <1>3, <1>8, Zenon DEF OnTheWay
    <2>2. Underway = <<d, e>> /\ Underway' = <<e>>
      BY <1>8, <1>4, <2>1, Zenon DEF OnTheWay, Underway
    <2>3. WholeOnTheWay(m)'
      BY <1>1, <1>2, <2>1, Zenon DEF WholeOnTheWay, DataOnTheWay, AllOnTheWay, EndOnTheWay,
         NothingOnTheWay, OnTheWay
    <2> QED BY <1>1, <1>2, <1>3, <2>1, <2>2, <2>3, Zenon
  <1>9. CASE OnTheWay(<<e>>, <<>>, <<>>)
    <2>1. OnTheWay(<<>>, <<>>, <<>>)' /\ toListener[1] = e
      BY <1>3, <1>9, Zenon DEF OnTheWay
    <2>2. Underway = <<e>> /\ Underway' = <<>>
      BY <1>9, <1>4, <2>1, Zenon DEF OnTheWay, Underway
    <2>3. WholeOnTheWay(m)' /\ NothingOnTheWay'
      BY <1>1, <1>2, <2>1, Zenon DEF WholeOnTheWay, DataOnTheWay, AllOnTheWay, EndOnTheWay,
         NothingOnTheWay, OnTheWay
    <2> QED BY <1>1, <1>2, <1>3, <2>1, <2>2, <2>3, Zenon
  <1> QED
    BY <1>1, <1>2, <1>5, <1>6, <1>7, <1>8, <1>9, Zenon DEF WholeOnTheWay, DataOnTheWay,
       AllOnTheWay, EndOnTheWay, NothingOnTheWay, OnTheWay

\* What the listener has heard grows by the line it reads.
LEMMA ListenerHears ==
    ASSUME FaithInv, "listener" \notin gone, UNCHANGED <<said, gone>>,
           NEW x \in Lines, heard' = Append(heard, x),
           Underway = <<x>> \o Underway', Underway' \in Seq(Lines)
    PROVE  FaithInv'
  <1>1. heard \in Seq(Lines) /\ said \in Seq(Lines) /\ heard \o Underway = said
    BY DEF FaithInv
  <1>2. PICK u \in Seq(Lines) : u = Underway'
    OBVIOUS
  <1>3. Append(heard, x) \o u = heard \o (<<x>> \o u)
    BY <1>1, HeardMoves
  <1>4. heard' \in Seq(Lines)
    BY <1>1, AppendProperties
  <1> QED BY <1>1, <1>2, <1>3, <1>4 DEF FaithInv

LEMMA ListenerDataKeeps == ASSUME PipeInv, ListenerData PROVE PipeInv'
  <1>1. /\ UNCHANGED <<queue, fate, current, fromListener, toServer, said, gone, config>>
        /\ UNCHANGED <<decoded, fromServer>> /\ toListener # <<>> /\ "listener" \notin gone
        /\ toListener[1][2] = "data" /\ toListener' = Tail(toListener)
        /\ heard' = Append(heard, toListener[1])
    BY DEF ListenerData, ListenerReads, Up
  <1>2. PICK m : m = current.m
    OBVIOUS
  <1>3. ~NothingOnTheWay
    BY <1>1 DEF NothingOnTheWay, OnTheWay
  <1>4. /\ m \in queue /\ Unanswered
        /\ \/ current.at = "half" /\ DataOnTheWay(m)
           \/ current.at = "sent" /\ WholeOnTheWay(m)
    BY <1>2, <1>3 DEF PipeInv, WireInv
  <1>5. End(m)[2] = "end" /\ Data(m)[2] = "data"
    BY DEF End, Data
  <1>6. /\ toListener[1] = Data(m) /\ Underway = <<Data(m)>> \o Underway'
        /\ WholeOnTheWay(m)' /\ Underway' \in {<<>>, <<End(m)>>}
    <2>1. WholeOnTheWay(m)
      BY <1>4 DEF WholeOnTheWay
    <2>2. toListener[1] # End(m)
      BY <1>1, <1>5
    <2> QED BY <1>1, <2>1, <2>2, ListenerTakes
  <1>7. DataOnTheWay(m) => DataOnTheWay(m)'
    <2> SUFFICES ASSUME DataOnTheWay(m) PROVE DataOnTheWay(m)'
      OBVIOUS
    <2>1. PICK d : d = Data(m)
      OBVIOUS
    <2>2. OnTheWay(<<d>>, <<>>, <<>>)
      BY <1>1, <2>1, Zenon DEF DataOnTheWay, NothingOnTheWay, OnTheWay
    <2>3. Tail(<<d>>) = <<>>
      BY Pairs
    <2>4. OnTheWay(<<>>, <<>>, <<>>)'
      BY <1>1, <2>2, <2>3, Zenon DEF OnTheWay
    <2> QED BY <2>4 DEF DataOnTheWay, NothingOnTheWay
  <1>8. WireInv'
    <2>1. Unanswered' /\ m = current'.m /\ m \in queue'
      BY <1>1, <1>2, <1>4 DEF Unanswered
    <2> QED BY <1>1, <1>4, <1>6, <1>7, <2>1 DEF WireInv
  <1>9. StoreInv' /\ m \in Msgs
    BY <1>1, <1>4 DEF PipeInv, StoreInv
  <1>10. FaithInv'
    <2>1. Data(m) \in Lines
      BY <1>9, LinesOf
    <2>2. Underway' \in Seq(Lines)
      BY <1>6, <1>9, LinesOf
    <2> QED BY <1>1, <1>6, <2>1, <2>2, ListenerHears DEF PipeInv
  <1> QED BY <1>1, <1>8, <1>9, <1>10 DEF PipeInv, KeptInv

\* The listener's answer to the end of a message is a true one: a message it
\* says it has taken or refused is no longer waiting.
LEMMA ListenerEndKeeps ==
    ASSUME PipeInv, NEW f \in {"accepted", "refused", "defer"}, ListenerEnd(f)
    PROVE  /\ PipeInv' /\ current.m \in queue /\ toListener[1][1] = current.m
  <1>1. /\ UNCHANGED <<queue, current, toServer, said, gone, config>>
        /\ UNCHANGED <<decoded, fromServer>> /\ toListener # <<>> /\ "listener" \notin gone
        /\ toListener[1][2] = "end" /\ toListener' = Tail(toListener)
        /\ heard' = Append(heard, toListener[1])
    BY DEF ListenerEnd, ListenerReads, Up
  <1>2. PICK m : m = current.m
    OBVIOUS
  <1>3. ~NothingOnTheWay
    BY <1>1 DEF NothingOnTheWay, OnTheWay
  <1>4. /\ m \in queue /\ Unanswered
        /\ \/ current.at = "half" /\ DataOnTheWay(m)
           \/ current.at = "sent" /\ WholeOnTheWay(m)
    BY <1>2, <1>3 DEF PipeInv, WireInv
  <1>5. End(m)[2] = "end" /\ End(m)[1] = m /\ Data(m)[2] = "data"
    BY DEF End, Data
  <1>6. /\ toListener[1] = End(m) /\ Underway = <<End(m)>> \o Underway'
        /\ NothingOnTheWay' /\ Underway' \in {<<>>, <<End(m)>>}
    <2>1. WholeOnTheWay(m)
      BY <1>4 DEF WholeOnTheWay
    <2>2. toListener[1] # Data(m)
      BY <1>1, <1>5
    <2> QED BY <1>1, <2>1, <2>2, ListenerTakes
  <1>7. current.at = "sent"
    <2> SUFFICES ASSUME DataOnTheWay(m) PROVE FALSE
      BY <1>4
    <2>1. PICK d : d = Data(m)
      OBVIOUS
    <2>2. toListener = <<d>>
      BY <1>1, <2>1, Zenon DEF DataOnTheWay, NothingOnTheWay, OnTheWay
    <2>3. toListener[1] = d
      BY <2>2, Pairs
    <2> QED BY <1>1, <1>5, <2>1, <2>3
  <1>8. m \in Msgs /\ fate \in [Msgs -> {"waiting", "accepted", "refused"}]
    BY <1>4 DEF PipeInv, StoreInv
  <1>9. /\ fate' = IF f = "defer" \/ fate[m] = "accepted" THEN fate ELSE [fate EXCEPT ![m] = f]
        /\ fromListener' = Append(fromListener, <<m, f>>)
    BY <1>5, <1>6 DEF ListenerEnd
  <1>10. /\ fate' \in [Msgs -> {"waiting", "accepted", "refused"}]
         /\ f # "defer" => fate'[m] # "waiting"
    BY <1>8, <1>9
  <1>11. fromListener' = <<<<m, f>>>> /\ toServer' = <<>>
    <2>1. PICK x : x = <<m, f>>
      OBVIOUS
    <2>2. Append(<<>>, x) = <<x>>
      BY Pairs
    <2> QED BY <1>1, <1>4, <1>9, <2>1, <2>2, Zenon DEF Unanswered
  <1>12. Answered(m)'
    BY <1>10, <1>11 DEF Answered
  <1>13. WireInv'
    <2>1. m = current'.m /\ m \in queue' /\ current'.at = "sent"
      BY <1>1, <1>2, <1>4, <1>7
    <2> QED BY <1>6, <1>12, <2>1 DEF WireInv
  <1>14. FaithInv'
    <2>1. End(m) \in Lines
      BY <1>8, LinesOf
    <2>2. Underway' \in Seq(Lines)
      BY <1>6, <1>8, LinesOf
    <2> QED BY <1>1, <1>6, <2>1, <2>2, ListenerHears DEF PipeInv
  <1>15. StoreInv'
    BY <1>1, <1>10 DEF PipeInv, StoreInv
  <1> QED BY <1>1, <1>2, <1>4, <1>5, <1>6, <1>13, <1>14, <1>15 DEF PipeInv, KeptInv

\* What the server says is under way at once.
LEMMA ServerSays ==
    ASSUME FaithInv, UNCHANGED <<heard, gone>>, Underway \in Seq(Lines),
           NEW r \in Seq(Lines), said' = said \o r, Underway' = Underway \o r
    PROVE  FaithInv'
  <1>1. heard \in Seq(Lines) /\ said \in Seq(Lines)
    BY DEF FaithInv
  <1>2. said' \in Seq(Lines)
    BY <1>1, ConcatProperties
  <1>3. CASE "listener" \in gone
    <2>1. IsPrefix(heard, said \o r)
      BY <1>1, <1>3, PrefixStays DEF FaithInv
    <2> QED BY <1>1, <1>2, <1>3, <2>1 DEF FaithInv
  <1>4. CASE "listener" \notin gone
    <2>1. PICK u \in Seq(Lines) : u = Underway
      OBVIOUS
    <2>2. (heard \o u) \o r = heard \o (u \o r)
      <3>1. PICK L : L = Lines
        OBVIOUS
      <3>2. heard \in Seq(L) /\ u \in Seq(L) /\ r \in Seq(L)
        BY <1>1, <3>1
      <3> QED BY ONLY <3>2, ConcatAssociative
    <2>3. heard \o u = said
      BY <1>4, <2>1 DEF FaithInv
    <2>4. said' = heard \o (u \o r)
      BY <2>2, <2>3
    <2>5. heard' \o Underway' = said'
      BY <2>1, <2>4
    <2> QED BY <1>1, <1>2, <1>4, <2>5 DEF FaithInv
  <1> QED BY <1>3, <1>4

LEMMA ServerSendsKeeps ==
    ASSUME PipeInv, NEW m \in Msgs, NEW whole \in BOOLEAN, ServerSends(m, whole)
    PROVE  PipeInv'
  <1>1. /\ UNCHANGED <<queue, fate, toListener, decoded, fromListener, toServer>>
        /\ UNCHANGED <<heard, gone, config>>
    BY Zenon DEF ServerSends, store
  <1>2. PICK d : d = Data(m)
    OBVIOUS
  <1>3. PICK e : e = End(m)
    OBVIOUS
  <1>4. /\ d \in Lines /\ e \in Lines /\ <<d>> \in Seq(Lines) /\ <<e>> \in Seq(Lines)
        /\ <<d, e>> \in Seq(Lines)
    BY <1>2, <1>3, LinesOf
  <1>5. /\ Way(<<>>, <<>>, <<>>) = <<>> /\ Way(<<d>>, <<>>, <<>>) = <<d>>
        /\ Way(<<>>, <<>>, <<<<d>>>>) = <<d>> /\ Way(<<>>, <<>>, <<<<d, e>>>>) = <<d, e>>
        /\ Way(<<>>, <<>>, <<<<d>>, <<e>>>>) = <<d, e>>
        /\ Way(<<d>>, <<>>, <<<<e>>>>) = <<d, e>> /\ Way(<<>>, <<>>, <<<<e>>>>) = <<e>>
    BY WayValues
  <1>6. /\ <<>> \o <<d>> = <<d>> /\ <<>> \o <<d, e>> = <<d, e>> /\ <<>> \o <<e>> = <<e>>
        /\ <<d>> \o <<e>> = <<d, e>>
    BY Pairs
  <1>7. FaithInv /\ StoreInv /\ KeptInv /\ Underway \in Seq(Lines)
    BY UnderwayTyped DEF PipeInv
  <1>8. ASSUME current.at = "idle", m \in queue, NEW at \in {"half", "sent"}, NEW r,
               current' = [m |-> m, at |-> at], r = IF at = "sent" THEN <<d, e>> ELSE <<d>>,
               fromServer' = Append(fromServer, r), said' = said \o r
        PROVE  PipeInv'
    <2>1. NothingOnTheWay /\ Unanswered
      BY <1>8 DEF PipeInv, WireInv
    <2>2. fromServer' = <<r>> /\ toListener' = <<>> /\ decoded' = <<>>
      <3>1. Append(<<>>, r) = <<r>>
        BY Pairs
      <3> QED BY <1>1, <1>8, <2>1, <3>1, Zenon DEF NothingOnTheWay, OnTheWay
    <2>3. Underway = <<>> /\ Underway' = r /\ Underway' = Underway \o r
      BY <1>5, <1>6, <1>8, <2>1, <2>2, Zenon DEF Underway, NothingOnTheWay, OnTheWay
    <2>4. r \in Seq(Lines)
      BY <1>4, <1>8
    <2>5. FaithInv'
      BY <1>1, <1>7, <1>8, <2>3, <2>4, ServerSays
    <2>6. /\ at = "half" => DataOnTheWay(m)'
          /\ WholeOnTheWay(m)'
      BY <1>2, <1>3, <1>8, <2>2, Zenon DEF WholeOnTheWay, DataOnTheWay, AllOnTheWay, OnTheWay
    <2>7. WireInv'
      <3>1. current'.m = m /\ current'.at = at /\ m \in queue' /\ Unanswered'
        BY <1>1, <1>8, <2>1 DEF Unanswered
      <3> QED BY <1>8, <2>6, <3>1 DEF WireInv
    <2> QED BY <1>1, <1>7, <2>2, <2>5, <2>7 DEF PipeInv, StoreInv, KeptInv
  <1>9. ASSUME current = [m |-> m, at |-> "half"],
               current' = [current EXCEPT !.at = "sent"],
               fromServer' = Append(fromServer, <<e>>), said' = Append(said, e)
        PROVE  PipeInv'
    <2>1. current.m = m /\ current.at = "half" /\ current'.m = m /\ current'.at = "sent"
      BY <1>9
    <2>2. DataOnTheWay(m) /\ Unanswered /\ m \in queue
      BY <2>1 DEF PipeInv, WireInv
    <2>3. PICK q : q = <<e>>
      OBVIOUS
    <2>4. PICK p : p = <<d>>
      OBVIOUS
    <2>5. Append(<<>>, q) = <<q>> /\ Append(<<p>>, q) = <<p, q>>
      BY Pairs
    <2>6. \/ OnTheWay(<<>>, <<>>, <<>>) /\ OnTheWay(<<>>, <<>>, <<<<e>>>>)'
          \/ OnTheWay(<<>>, <<>>, <<<<d>>>>) /\ OnTheWay(<<>>, <<>>, <<<<d>>, <<e>>>>)'
          \/ OnTheWay(<<d>>, <<>>, <<>>) /\ OnTheWay(<<d>>, <<>>, <<<<e>>>>)'
      BY <1>1, <1>2, <1>9, <2>2, <2>3, <2>4, <2>5, Zenon DEF DataOnTheWay, NothingOnTheWay, OnTheWay
    <2>7. Underway' = Underway \o <<e>>
      BY <1>5, <1>6, <2>6, Zenon DEF OnTheWay, Underway
    <2>8. WholeOnTheWay(m)' /\ decoded' = <<>>
      BY <1>2, <1>3, <2>6, Zenon DEF WholeOnTheWay, AllOnTheWay, EndOnTheWay, OnTheWay
    <2>9. said' = said \o <<e>>
      BY <1>4, <1>7, <1>9, AppendIsConcat DEF FaithInv
    <2>10. FaithInv'
      BY <1>1, <1>4, <1>7, <2>7, <2>9, ServerSays
    <2>11. WireInv'
      <3>1. m \in queue' /\ Unanswered'
        BY <1>1, <2>2 DEF Unanswered
      <3> QED BY <2>1, <2>8, <3>1 DEF WireInv
    <2> QED BY <1>1, <1>7, <2>8, <2>10, <2>11 DEF PipeInv, StoreInv, KeptInv
  <1> QED
    BY <1>2, <1>3, <1>8, <1>9, Zenon DEF ServerSends, Data, End

LEMMA InitPipe == Init => PipeInv
  <1> SUFFICES ASSUME Init PROVE PipeInv
    OBVIOUS
  <1>1. WireInv
    BY DEF Init, WireInv, Idle, NoWires, NothingOnTheWay, OnTheWay, Unanswered
  <1>2. StoreInv /\ KeptInv
    BY DEF Init, StoreInv, KeptInv, NoWires
  <1>3. FaithInv
    <2>1. Underway = <<>> /\ heard = <<>> /\ said = <<>> /\ "listener" \notin gone
      BY WayValues DEF Init, NoWires, Underway
    <2>2. <<>> \o <<>> = <<>>
      BY Pairs
    <2>3. heard \in Seq(Lines) /\ said \in Seq(Lines)
      BY <2>1
    <2>4. heard \o Underway = said
      BY <2>1, <2>2
    <2> QED BY <2>1, <2>3, <2>4 DEF FaithInv
  <1> QED BY <1>1, <1>2, <1>3 DEF PipeInv

\* The steps before and after the pipe, a message that arrives in the queue
\* and a side that closes.
LEMMA OthersKeep ==
    ASSUME PipeInv, [Next]_vars,
           UNCHANGED <<fate, current, wires, heard, said>>, gone \subseteq gone',
           queue \subseteq queue', queue' \subseteq Msgs, config' = config
    PROVE  PipeInv'
  <1>1. StoreInv'
    BY DEF PipeInv, StoreInv
  <1> QED BY <1>1, QuietSteps

LEMMA NextKeeps ==
    ASSUME PipeInv, [Next]_vars
    PROVE  PipeInv'
  <1>1. queue \subseteq Msgs
    BY DEF PipeInv, StoreInv
  <1>2. ASSUME NEW m \in Msgs, QueueArrival(m) PROVE PipeInv'
    BY <1>1, <1>2, OthersKeep DEF QueueArrival, peers
  <1>3. ASSUME NEW offered \in BOOLEAN, NEW S \in SUBSET Methods, Ehlo(offered, S)
        PROVE  PipeInv'
    BY <1>1, <1>3, OthersKeep DEF Ehlo, Greeted, Finish, store, peers
  <1>4. ASSUME UNCHANGED <<authKeeps, config>> PROVE PipeInv'
    BY <1>1, <1>4, OthersKeep DEF authKeeps, store, peers
  <1>a. ASSUME NEW reply, NEW k, AuthCommand(reply, k) PROVE PipeInv'
    BY <1>4, <1>a DEF AuthCommand, AuthOver, AuthGoes, Greeted, Finish
  <1>b. ASSUME NEW reply, NEW k, AuthAnswer(reply, k) PROVE PipeInv'
    BY <1>4, <1>b DEF AuthAnswer, AuthOver, AuthGoes, Greeted, Finish
  <1>c. CASE AuthPassword
    BY <1>4, <1>c DEF AuthPassword, AuthOver, Greeted, Finish
  <1>l. CASE AuthLate
    BY <1>4, <1>l DEF AuthLate, Greeted, Finish
  <1>d. ASSUME NEW k, AuthCancel(k) PROVE PipeInv'
    BY <1>4, <1>d DEF AuthCancel, AuthOver, Greeted, Finish
  <1>5. ASSUME NEW code, Etrn(code) PROVE PipeInv'
    BY <1>1, <1>5, OthersKeep DEF Etrn, Finish, store, peers
  <1>6. CASE EhloFails \/ EtrnDone \/ NoAnswer \/ SelectFails \/ Logout
    BY <1>1, <1>6, OthersKeep DEF EhloFails, EtrnDone, NoAnswer, SelectFails, Logout, Finish,
       store, peers
  <1>7. ASSUME NEW ok, Cram(ok) PROVE PipeInv'
    BY <1>1, <1>7, OthersKeep DEF Cram, Finish, store, peers
  <1>8. ASSUME NEW code, NEW ok, Atrn(code, ok) PROVE PipeInv'
    BY <1>1, <1>8, OthersKeep DEF Atrn, Finish, store, peers
  <1>9. CASE ServerQuits
    BY <1>1, <1>9, OthersKeep DEF ServerQuits, store
  <1>10. ASSUME NEW side, Lose(side) PROVE PipeInv'
    BY <1>1, <1>10, OthersKeep DEF Lose, store
  <1>11. CASE PipeEnds \/ UNCHANGED vars
    BY <1>1, <1>11, OthersKeep DEF PipeEnds, vars, store, peers, wires
  <1>12. ASSUME NEW c \in Configs, Start(c) PROVE PipeInv'
    BY <1>12, StartKeeps
  <1>13. ASSUME NEW m \in Msgs, NEW whole \in BOOLEAN, ServerSends(m, whole) PROVE PipeInv'
    BY <1>13, ServerSendsKeeps
  <1>14. CASE ServerHears
    BY <1>14, ServerHearsKeeps
  <1>15. CASE ListenerData
    BY <1>15, ListenerDataKeeps
  <1>16. ASSUME NEW f \in {"accepted", "refused", "defer"}, ListenerEnd(f) PROVE PipeInv'
    BY <1>16, ListenerEndKeeps
  <1>17. CASE PipeServer
    BY <1>17, PipeServerKeeps
  <1>18. CASE PipeListener
    BY <1>18, PipeListenerKeeps
  <1> QED
    BY <1>2, <1>3, <1>a, <1>b, <1>c, <1>l, <1>d, <1>5, <1>6, <1>7, <1>8, <1>9, <1>10, <1>11,
       <1>12, <1>13, <1>14, <1>15, <1>16, <1>17, <1>18, Zenon DEF Next

\* The listener hears what the server says, with nothing lost, doubled or out
\* of order, in every session of the ODMR loop, whatever the sides do and
\* however TLS cuts the stream.
THEOREM PipeIsFaithful == Spec => []PipeFaithful
  <1>1. PipeInv /\ [Next]_vars => PipeInv'
    BY NextKeeps
  <1>2. PipeInv => PipeFaithful
    BY DEF PipeInv, FaithInv, PipeFaithful, Underway, Way
  <1> QED
    BY InitPipe, <1>1, <1>2, PTL DEF Spec

-----------------------------------------------------------------------------
(* The refinement.  Only three steps of the session touch the queue or the *)
(* fates: an arrival, the listener's answer and the server's hearing it.   *)

\* The listener answers for a message that is still in the server's queue.
LEMMA AnswerTransfers ==
    ASSUME PipeInv, NEW f \in {"accepted", "refused", "defer"}, ListenerEnd(f)
    PROVE  [MT!Next]_(MT!vars)
  <1>1. PICK m : m = current.m
    OBVIOUS
  <1>2. m \in queue /\ toListener[1][1] = m /\ m \in Msgs
    BY <1>1, ListenerEndKeeps DEF PipeInv, StoreInv
  <1>3. /\ queue' = queue
        /\ fate' = IF f = "defer" \/ fate[m] = "accepted" THEN fate ELSE [fate EXCEPT ![m] = f]
    BY <1>2 DEF ListenerEnd, ListenerReads
  <1>4. CASE fate' = fate
    BY <1>3, <1>4 DEF MT!vars
  <1>5. CASE fate' # fate
    <2>1. f # "defer" /\ fate[m] # "accepted" /\ fate' = [fate EXCEPT ![m] = f]
      BY <1>3, <1>5
    <2>2. MT!Settle(m, f)
      BY <1>2, <1>3, <2>1 DEF MT!Settle
    <2>3. f \in MT!Fates \ {"waiting"}
      BY <2>1 DEF MT!Fates
    <2> QED BY <1>2, <2>2, <2>3 DEF MT!Next
  <1> QED BY <1>4, <1>5

\* The answer the server hears is about the message it sent, and unless it
\* is a deferral that message is settled when it leaves the queue.
LEMMA HearingTransfers ==
    ASSUME PipeInv, ServerHears PROVE [MT!Next]_(MT!vars)
  <1>1. toServer # <<>> /\ fate' = fate
    BY DEF ServerHears
  <1>2. PICK m : m = current.m
    OBVIOUS
  <1>3. m \in queue /\ Answered(m)
    BY <1>1, <1>2 DEF PipeInv, WireInv, Unanswered
  <1>4. PICK f \in {"accepted", "refused", "defer"} :
          toServer = <<<<m, f>>>> /\ (f # "defer" => fate[m] # "waiting")
    BY <1>1, <1>3 DEF Answered
  <1>5. toServer[1][1] = m /\ toServer[1][2] = f
    BY <1>4
  <1>6. queue' = IF f = "defer" THEN queue ELSE queue \ {m}
    BY <1>5 DEF ServerHears
  <1>7. CASE f = "defer"
    BY <1>1, <1>6, <1>7 DEF MT!vars
  <1>8. CASE f # "defer"
    <2>1. m \in Msgs
      BY <1>3 DEF PipeInv, StoreInv
    <2>2. {m} \subseteq queue \cap MT!Settled(fate)
      BY <1>3, <1>4, <1>8, <2>1 DEF MT!Settled
    <2>3. MT!Expunge({m})
      BY <1>1, <1>6, <1>8, <2>2 DEF MT!Expunge
    <2>4. {m} \in SUBSET Msgs
      BY <2>1
    <2> QED BY <2>3, <2>4 DEF MT!Next
  <1> QED BY <1>7, <1>8

LEMMA StepTransfers ==
    ASSUME PipeInv, [Next]_vars PROVE [MT!Next]_(MT!vars)
  <1>1. ASSUME NEW m \in Msgs, QueueArrival(m) PROVE MT!Next
    <2>1. MT!Arrive(m)
      BY <1>1 DEF QueueArrival, MT!Arrive
    <2> QED BY <2>1 DEF MT!Next
  <1>2. ASSUME NEW c \in Configs, Start(c) PROVE UNCHANGED store
    BY <1>2, Zenon DEF Start
  <1>3. ASSUME NEW offered \in BOOLEAN, NEW S \in SUBSET Methods, Ehlo(offered, S)
        PROVE  UNCHANGED store
    BY <1>3, Zenon DEF Ehlo
  <1>4. ASSUME NEW reply, NEW k, AuthCommand(reply, k) \/ AuthAnswer(reply, k)
        PROVE  UNCHANGED store
    BY <1>4, Zenon DEF AuthCommand, AuthAnswer, authKeeps
  <1>5. CASE AuthPassword \/ AuthLate \/ \E k \in ReplyLines : AuthCancel(k)
    <2>1. UNCHANGED store
      BY <1>5, Zenon DEF AuthPassword, AuthLate, AuthCancel, authKeeps
    <2> QED BY <2>1 DEF store, MT!vars
  <1>6. ASSUME NEW code, NEW ok, Etrn(code) \/ Cram(ok) \/ Atrn(code, ok)
        PROVE  UNCHANGED store
    BY <1>6, Zenon DEF Etrn, Cram, Atrn
  <1>7. CASE EhloFails \/ EtrnDone \/ NoAnswer \/ SelectFails \/ Logout \/ ServerQuits
             \/ PipeServer \/ PipeListener \/ PipeEnds \/ UNCHANGED vars
    <2>1. UNCHANGED store
      BY <1>7 DEF EhloFails, EtrnDone, NoAnswer, SelectFails, Logout, ServerQuits,
         PipeServer, PipeListener, PipeEnds, vars, store
    <2> QED BY <2>1 DEF store, MT!vars
  <1>8. ASSUME NEW m, NEW whole, NEW side, ServerSends(m, whole) \/ Lose(side)
        PROVE  UNCHANGED store
    BY <1>8, Zenon DEF ServerSends, Lose
  <1>9. CASE ListenerData
    BY <1>9 DEF ListenerData, ListenerReads, MT!vars
  <1>10. ASSUME NEW f \in {"accepted", "refused", "defer"}, ListenerEnd(f)
         PROVE  [MT!Next]_(MT!vars)
    BY <1>10, AnswerTransfers
  <1>11. CASE ServerHears
    BY <1>11, HearingTransfers
  <1>12. UNCHANGED store => UNCHANGED MT!vars
    BY DEF store, MT!vars
  <1> QED
    BY <1>1, <1>2, <1>3, <1>4, <1>5, <1>6, <1>7, <1>8, <1>9, <1>10, <1>11, <1>12, Zenon
    DEF Next

\* A turned session is an at-least-once transfer like a poll: the listener's
\* verdicts are given on mail that is in the server's queue, and only mail
\* with a verdict leaves it, though fetchmail between them reads no answer.
THEOREM TurnTransfers == Spec => Transfer
  <1>1. Init => MT!Init
    BY DEF Init, MT!Init
  <1>2. PipeInv /\ [Next]_vars => PipeInv'
    BY NextKeeps
  <1>3. PipeInv /\ [Next]_vars => [MT!Next]_(MT!vars)
    BY StepTransfers
  <1> QED
    BY InitPipe, <1>1, <1>2, <1>3, PTL DEF Spec, Transfer, MT!Spec
=============================================================================
