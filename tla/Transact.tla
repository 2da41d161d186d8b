------------------------------ MODULE Transact ------------------------------
(***************************************************************************)
(* The path of one message through transact.c: readheaders takes the       *)
(* header line by line, judges and addresses the message and ships the     *)
(* header to the sink; readbody ships the rest; driver.c disposes of the   *)
(* message; and the account is polled again.                               *)
(*                                                                         *)
(* A header, with its continuation lines, is one line record:              *)
(*   kind   what the code tells apart (HeaderKinds, "text" for the body)   *)
(*   id     the rest of its text                                           *)
(*   addrs  the addresses nxtaddr finds in it; of a Received line, the one *)
(*          after "for"                                                    *)
(*   by     of a Received line, the host after "by"                        *)
(*   dots   leading dots                                                   *)
(*   glued  what closes an IMAP literal follows on the same line           *)
(* An address is a record [user, virtual, host], host NoHost without @.    *)
(***************************************************************************)
EXTENDS Integers, FiniteSets, SequencesExt, FetchPolicy

CONSTANTS Mail,         \* the messages: a sequence of [headers, sep, body, open]
          Mailboxes,    \* what the mailbox may hold: sequences of their indices
          Options,      \* option records the user may run fetchmail with
          Facts,        \* what DNS knows of each host, [canon, ip, mx, parent]
          LocalNames,   \* localnames: a function from addresses and names
          LocalDomains, \* localdomains: a set of hosts
          Server,       \* truename of the mail server
          MaxFaults     \* bound: failures of network, name server and sink

Ids == 1..Len(Mail)
NoHost == "none"
LocalUser(u) == [user |-> u, virtual |-> FALSE, host |-> NoHost]
Nobody == LocalUser("")
Nothing == <<Nobody>>
Postmaster == LocalUser("postmaster")

HeaderKinds == {"to", "resentto", "xenv", "deliveredto", "received", "mention",
                "returnpath", "status", "emptystatus", "ximap", "From_",
                "resentsender", "sender", "resentfrom", "from", "replyto",
                "apparentlyfrom", "other", "bad"}

\* envelope: "disabled" (STRING_DISABLED), "received" (also the default),
\* "deliveredto" or another header, "xenv".
OptionType == [delimited : BOOLEAN, multidrop : BOOLEAN, envelope : STRING,
               envskip : Nat, dropdelivered : BOOLEAN, dropstatus : BOOLEAN,
               acceptbad : BOOLEAN, mda : BOOLEAN, invisible : BOOLEAN,
               wildcard : BOOLEAN, qvirtual : BOOLEAN, dns : BOOLEAN,
               checkalias : BOOLEAN, softbounce : BOOLEAN, keep : BOOLEAN,
               flush : BOOLEAN, limitflush : BOOLEAN]

ASSUME BoundsAssumption == MaxFaults \in Nat
ASSUME OptionsAssumption == Options \subseteq OptionType /\ Options # {}
ASSUME MailAssumption ==
    Mailboxes \subseteq Seq(Ids) /\
    \A i \in Ids : \A l \in ToSet(Mail[i].headers) : l.kind \in HeaderKinds

VARIABLES opt, box,     \* options; the messages in the mailbox, in order
          pc, num,      \* phase of fetch_messages, number of the message
          stream, len,  \* what the server has still to send, octets announced
          hd,           \* locals of readheaders
          aka,          \* akalist, the names known to mean the mail server
          lastdigest,   \* of the account
          sink,         \* what the sink holds of this message
          result,       \* FetchPolicy's result, "ok" while it goes well
          deleted,      \* messages deleted in this session
          fate, log,    \* bookkeeping: each message's fate, the last delivery
          faults

msgVars  == <<num, stream, len, hd, sink, result>>
mailVars == <<box, deleted, fate, log>>
vars == <<opt, msgVars, pc, aka, lastdigest, mailVars, faults>>

-----------------------------------------------------------------------------
(* checkalias.c *)

\* What a lookup of h finds when the name server is in state d: "up", "lame"
\* (addresses cannot be looked up now) or "down" (MX records neither).  A
\* failed MX lookup is counted as an error, and then taken for a match.
LookUp(h, d) ==
    LET canon == IF d = "up" THEN Facts[h].canon ELSE "unknown"
    IN [found |-> CASE canon = "same"      -> TRUE
                    [] canon = "different" -> opt.checkalias /\ Facts[h].ip
                    [] canon = "unknown"   -> d = "down" \/ Facts[h].mx,
        errs  |-> CASE d = "up" -> 0 [] d = "lame" -> 1 [] d = "down" -> 2]

\* Does host h belong to the mail server?  The answer, the names to remember
\* from now on, and the name server failures counted.
IsHostAlias(h, d, a) ==
    IF h = Server \/ h \in a \/ Facts[h].parent \in a
    THEN [is |-> TRUE, aka |-> a, errs |-> 0]
    ELSE IF ~opt.dns THEN [is |-> FALSE, aka |-> a, errs |-> 0]
    ELSE [is |-> LookUp(h, d).found,
          aka |-> IF LookUp(h, d).found THEN a \cup {h} ELSE a,
          errs |-> LookUp(h, d).errs]

-----------------------------------------------------------------------------
(* Recipients *)

\* qmail's virtual domain prefix goes when the user has declared it.
StripQVirtual(a) == IF opt.qvirtual THEN [a EXCEPT !.virtual = FALSE] ELSE a

NameOf(a) == [a EXCEPT !.host = NoHost]

\* The local name of a name at the server, Nobody when it has none.
MapName(n) ==
    IF n \in DOMAIN LocalNames THEN LocalNames[n]
    ELSE IF opt.wildcard THEN n ELSE Nobody

Accepting(r, name) == [r EXCEPT !.accept = Append(@, name)]

\* One address: a declared address, a local domain, a name at the mail
\* server, or somebody else's.  Without an @ it is passed over.
AddName(r, addr) ==
    LET a == StripQVirtual(addr)
        h == IsHostAlias(a.host, r.dns, r.aka)
        s == [r EXCEPT !.aka = h.aka, !.errs = @ + h.errs]
    IN IF a.host = NoHost THEN r
       ELSE IF a \in DOMAIN LocalNames THEN Accepting(r, LocalNames[a])
       ELSE IF a.host \in LocalDomains THEN Accepting(r, a)
       ELSE IF ~h.is THEN [s EXCEPT !.reject = Append(@, a)]
       ELSE IF MapName(NameOf(a)) = Nobody THEN s
       ELSE Accepting(s, MapName(NameOf(a)))

FindServerNames(r, addrs) == FoldLeft(AddName, r, addrs)

\* The address in a Received line, when the mail server wrote that line.
ParseReceived(l, h) ==
    LET by == IsHostAlias(l.by, h.dns, h.aka)
        s  == [h EXCEPT !.aka = by.aka, !.errs = @ + by.errs]
    IN IF by.is /\ l.addrs # <<>> /\ l.addrs[1].host # NoHost
       THEN [s EXCEPT !.received = l.addrs] ELSE s
-----------------------------------------------------------------------------
(* readheaders, line by line *)

\* The headers a sender is taken from, the most probable one first.
SenderOrder == <<"resentsender", "sender", "resentfrom", "from", "replyto",
                 "apparentlyfrom">>

NoHeaders(d, a) ==
    [headers |-> <<>>, to |-> <<>>, resent |-> <<>>, env |-> Nothing,
     received |-> Nothing, delivered |-> Nothing, deliveredcount |-> 0,
     skip |-> 0, retain |-> FALSE, refuse |-> FALSE, path |-> Nothing,
     froms |-> [k \in Range(SenderOrder) |-> <<>>],
     accept |-> <<>>, reject |-> <<>>, errs |-> 0, dns |-> d, aka |-> a,
     readbody |-> TRUE]

\* A build that looks for the envelope address in the lines it should skip.
Addressee_NoSkip(h, l) ==
    CASE l.kind = "to"       -> [h EXCEPT !.to = @ \o l.addrs]
      [] l.kind = "resentto" -> [h EXCEPT !.resent = @ \o l.addrs]
      [] /\ l.kind = opt.envelope /\ l.kind \in {"xenv", "deliveredto"}
         /\ h.env = Nothing  -> [h EXCEPT !.env = l.addrs]
      [] /\ l.kind = "received" /\ opt.envelope = "received"
         /\ h.received = Nothing -> ParseReceived(l, h)
      [] OTHER -> h

\* Addressees of a multidrop mailbox.
Addressee(h, l) ==
    LET skipping == h.skip < opt.envskip
        s == [h EXCEPT !.skip = @ + 1]
    IN CASE l.kind = "to"       -> [h EXCEPT !.to = @ \o l.addrs]
         [] l.kind = "resentto" -> [h EXCEPT !.resent = @ \o l.addrs]
         [] /\ l.kind = opt.envelope /\ l.kind \in {"xenv", "deliveredto"}
            /\ h.env = Nothing ->
               IF skipping THEN s ELSE [s EXCEPT !.env = l.addrs]
         [] /\ l.kind = "received" /\ opt.envelope = "received"
            /\ h.received = Nothing ->
               IF skipping THEN s ELSE ParseReceived(l, s)
         [] OTHER -> h

SaveHeader(h, l) ==
    LET s == [h EXCEPT !.headers = Append(@, l),
                       !.froms = IF l.kind \in DOMAIN @
                                 THEN [@ EXCEPT ![l.kind] = l.addrs] ELSE @]
    IN IF opt.multidrop THEN Addressee(s, l) ELSE s

\* The special Delivered-To line is kept aside even though it is dropped.
DropDelivered(h, l) ==
    [h EXCEPT !.delivered = IF /\ @ = Nothing
                               /\ opt.envelope = "deliveredto"
                               /\ h.deliveredcount = opt.envskip
                            THEN l.addrs ELSE @,
              !.deliveredcount = @ + 1]

\* The first Return-Path is stashed away and, unless an MDA will not supply
\* one, kept from the header.
TakeReturnPath(h, l) ==
    LET s == [h EXCEPT !.path = l.addrs]
    IN IF opt.mda THEN SaveHeader(s, l) ELSE s

ReadHeaderLine(h, l) ==
    LET bad == ~opt.acceptbad /\ l.kind \in {"bad", "text"}
        r == [h EXCEPT !.refuse = @ \/ bad]
    IN IF r.retain \/ r.refuse THEN r
       ELSE IF num = 1 /\ l.kind = "ximap" THEN [r EXCEPT !.retain = TRUE]
       ELSE IF l.kind = "From_" THEN r
       ELSE IF l.kind = "deliveredto" /\ opt.dropdelivered THEN DropDelivered(r, l)
       ELSE IF l.kind = "emptystatus" \/ (l.kind = "status" /\ opt.dropstatus) THEN r
       ELSE IF l.kind = "returnpath" /\ r.path = Nothing THEN TakeReturnPath(r, l)
       ELSE SaveHeader(r, l)
-----------------------------------------------------------------------------
(* The server's side of a fetch *)

Line(k) == [kind |-> k, id |-> 0, addrs |-> <<>>, by |-> NoHost, dots |-> 0,
            glued |-> FALSE]
Blank == Line("blank")
Dot   == [Line("dot") EXCEPT !.dots = 1]
Trailer == Line("trailer")

\* A mail server that sends a header by itself takes all before a blank line.
HeaderPart(m) == IF m.sep THEN m.headers ELSE m.headers \o m.body
BodyPart(m) == IF m.sep THEN m.body ELSE <<>>

StuffDots(ls) ==
    [i \in DOMAIN ls |-> IF ls[i].dots > 0 THEN [ls[i] EXCEPT !.dots = @ + 1]
                         ELSE ls[i]]

Separator(m) == IF m.sep THEN <<Blank>> ELSE <<>>

\* POP3 sends the message with its dots stuffed, and then a dot; IMAP sends
\* the header, and what closes the command.
Reply(m) ==
    IF opt.delimited
    THEN StuffDots(HeaderPart(m)) \o Separator(m) \o StuffDots(BodyPart(m)) \o <<Dot>>
    ELSE HeaderPart(m) \o Separator(m) \o <<Trailer>>

\* The last line of a body may lack its line end, and what closes the literal
\* is then on the same line.
Literal(m) ==
    LET b == BodyPart(m)
    IN IF m.open /\ b # <<>>
       THEN ReplaceAt(b, Len(b), [b[Len(b)] EXCEPT !.glued = TRUE]) ELSE b

Octets(ls) == Len(SelectSeq(ls, LAMBDA l : l.kind # "trailer"))
LineLen(l) == IF l.glued THEN 2 ELSE 1
-----------------------------------------------------------------------------
NoSink == [open |-> FALSE, from |-> Nothing, to |-> {}, text |-> <<>>]

Init ==
    /\ opt \in Options
    /\ box \in Mailboxes
    /\ pc = "idle"
    /\ num = 0 /\ stream = <<>> /\ len = 0
    /\ hd = NoHeaders("up", {})
    /\ aka = {}
    /\ lastdigest = <<>>
    /\ sink = NoSink
    /\ result = "ok"
    /\ deleted = {}
    /\ fate = [i \in Ids |-> IF i \in ToSet(box) THEN "waiting" ELSE "absent"]
    /\ log = {}
    /\ faults = 0

This == Mail[box[num]]

Fault == faults < MaxFaults /\ faults' = faults + 1

StartPoll ==
    /\ pc = "idle"
    /\ num' = 0
    /\ deleted' = {}
    /\ pc' = "next"
    /\ UNCHANGED <<opt, box, stream, len, hd, aka, lastdigest, sink, result, fate,
                   log, faults>>

\* fetch_headers, and the prologue of readheaders.  The name server keeps
\* its state while a message is processed.
FetchHeaders(d) ==
    /\ pc = "next" /\ num < Len(box)
    /\ IF d = "up" THEN UNCHANGED faults ELSE opt.dns /\ opt.multidrop /\ Fault
    /\ num' = num + 1
    /\ LET m == Mail[box[num + 1]] IN
         /\ stream' = Reply(m)
         /\ len' = Octets(Reply(m))
    /\ hd' = NoHeaders(d, aka)
    /\ result' = "ok"
    /\ sink' = NoSink
    /\ pc' = "headers"
    /\ UNCHANGED <<opt, aka, lastdigest, mailVars>>

\* One header with its continuations.
ReadHeader ==
    /\ pc = "headers"
    /\ opt.delimited \/ len > 0
    /\ stream # <<>> /\ Head(stream).kind \notin {"blank", "dot"}
    /\ hd' = ReadHeaderLine(hd, Head(stream))
    /\ stream' = Tail(stream)
    /\ len' = len - 1
    /\ UNCHANGED <<opt, pc, num, aka, lastdigest, sink, result, mailVars,
                   faults>>

\* A build that does not notice the end of the message in the header.
EndOfHeader_DotIgnored ==
    /\ pc = "headers"
    /\ \/ /\ opt.delimited \/ len > 0
          /\ Head(stream).kind \in {"blank", "dot"}
          /\ stream' = Tail(stream)
          /\ len' = len - 1
       \/ /\ ~opt.delimited /\ len = 0
          /\ UNCHANGED <<stream, len>>
    /\ aka' = hd.aka
    /\ pc' = "judge"
    /\ UNCHANGED <<opt, num, hd, lastdigest, sink, result, mailVars, faults>>

\* The blank line, the message's final dot (then there is no body to read),
\* or the end of what the server announced.
EndOfHeader ==
    /\ pc = "headers"
    /\ \/ /\ opt.delimited \/ len > 0
          /\ Head(stream).kind \in {"blank", "dot"}
          /\ stream' = Tail(stream)
          /\ len' = len - 1
          /\ hd' = [hd EXCEPT !.readbody = Head(stream).kind = "blank"]
       \/ /\ ~opt.delimited /\ len = 0
          /\ UNCHANGED <<stream, len, hd>>
    /\ aka' = hd.aka
    /\ pc' = "judge"
    /\ UNCHANGED <<opt, num, lastdigest, sink, result, mailVars, faults>>
-----------------------------------------------------------------------------
(* readheaders, at process_headers *)

HasEnvelope(h) == h.received # Nothing \/ h.env # Nothing \/ h.delivered # Nothing

\* A message like the one before it, when addressees are guessed.
IsDuplicate(h) ==
    /\ opt.multidrop /\ h.headers # <<>>
    /\ ~HasEnvelope(h)
    /\ lastdigest = h.headers

\* Retained, refused, a duplicate, or to be addressed.
Judge ==
    /\ pc = "judge"
    /\ result' = IF hd.retain THEN "retained"
                 ELSE IF hd.refuse \/ IsDuplicate(hd) THEN "refused" ELSE "ok"
    /\ lastdigest' = IF result' = "ok" /\ opt.multidrop /\ hd.headers # <<>>
                     THEN hd.headers ELSE lastdigest
    /\ fate' = IF ~hd.retain /\ hd.refuse
               THEN [fate EXCEPT ![box[num]] = IF @ = "waiting" THEN "malformed" ELSE @]
               ELSE fate
    /\ pc' = IF result' = "ok" THEN "address" ELSE "resync"
    /\ UNCHANGED <<opt, num, stream, len, hd, aka, sink, box, deleted, log,
                   faults>>

FakeHeader == Line("fake")

Headers(h) == IF h.headers = <<>> THEN <<FakeHeader>> ELSE h.headers

\* MAIL FROM: the Return-Path, or the first of these headers with an address.
ReturnPath(h) ==
    LET known == {i \in DOMAIN SenderOrder : h.froms[SenderOrder[i]] # <<>>}
        first == CHOOSE i \in known : \A j \in known : i <= j
    IN IF h.path # Nothing THEN h.path
       ELSE IF known = {} THEN Nothing ELSE <<Head(h.froms[SenderOrder[first]])>>

\* A build that guesses from To although the message was resent.
Addressees_ToFirst(h) ==
    CASE h.env # Nothing       -> h.env
      [] h.env = Nothing /\ h.delivered # Nothing -> h.delivered
      [] h.env = Nothing /\ h.delivered = Nothing /\ h.received # Nothing -> h.received
      [] OTHER -> IF h.to # <<>> THEN h.to ELSE h.resent

\* Where the addressees come from; Resent-To stands in for To.
Addressees(h) ==
    CASE h.env # Nothing       -> h.env
      [] h.env = Nothing /\ h.delivered # Nothing -> h.delivered
      [] h.env = Nothing /\ h.delivered = Nothing /\ h.received # Nothing -> h.received
      [] OTHER -> IF h.resent # <<>> THEN h.resent ELSE h.to

FirstLocalName == LocalUser("first")

Recipients(h) ==
    IF ~opt.multidrop THEN {FirstLocalName}
    ELSE IF h.accept = <<>> THEN {Postmaster} ELSE ToSet(h.accept)

\* Name server failures put the message off.
Address ==
    /\ pc = "address"
    /\ hd' = IF opt.multidrop THEN FindServerNames(hd, Addressees(hd)) ELSE hd
    /\ aka' = hd'.aka
    /\ result' = IF hd'.errs > 0 THEN "transient" ELSE "ok"
    /\ pc' = IF hd'.errs > 0 THEN "resync" ELSE "open"
    /\ UNCHANGED <<opt, num, stream, len, lastdigest, sink, mailVars, faults>>

\* open_sink: the sink takes the message, puts it off or refuses it.
OpenSink(r) ==
    /\ pc = "open"
    /\ IF r = "transient" THEN Fault ELSE UNCHANGED faults
    /\ result' = r
    /\ sink' = IF r = "ok" THEN [open |-> TRUE, from |-> ReturnPath(hd),
                                 to |-> Recipients(hd), text |-> <<>>]
               ELSE NoSink
    /\ fate' = IF r = "refused"
               THEN [fate EXCEPT ![box[num]] = IF @ = "accepted" THEN @ ELSE "refused"]
               ELSE fate
    /\ pc' = IF r = "ok" THEN "ship" ELSE "resync"
    /\ UNCHANGED <<opt, num, stream, len, hd, aka, lastdigest, box, deleted, log>>
-----------------------------------------------------------------------------
(* Shipping *)

\* stuffline: POP3 has stuffed the dots already, an MDA wants none.
StuffLine(l) ==
    IF l.dots = 0 THEN l
    ELSE IF opt.delimited
         THEN IF opt.mda THEN [l EXCEPT !.dots = @ - 1] ELSE l
         ELSE IF opt.mda THEN l ELSE [l EXCEPT !.dots = @ + 1]

\* What the listener or the MDA makes of it.
Received(l) == IF l.dots = 0 \/ opt.mda THEN l ELSE [l EXCEPT !.dots = @ - 1]

Ship(s, l) == [s EXCEPT !.text = Append(@, Received(StuffLine(l)))]

Trace == IF opt.invisible THEN <<>> ELSE <<Line("trace")>>

WithTrace(hs) ==
    LET marks == {i \in DOMAIN hs : hs[i].kind \in {"received", "mention"}}
        at == IF marks = {} THEN 1 ELSE CHOOSE i \in marks : \A j \in marks : i <= j
    IN SubSeq(hs, 1, at - 1) \o Trace \o SubSeq(hs, at, Len(hs))

\* X-Fetchmail-Warning, when nobody local was found or the listener refused
\* some of the recipients.
Warning(h, bad) ==
    IF (opt.multidrop /\ h.accept = <<>>) \/ bad THEN <<Line("warning")>> ELSE <<>>

ShipHeaders(bad) ==
    /\ pc = "ship"
    /\ sink' = [sink EXCEPT !.text =
                  WithTrace(Headers(hd)) \o Warning(hd, bad) \o <<Blank>>]
    /\ pc' = "resync"
    /\ UNCHANGED <<opt, num, stream, len, hd, aka, lastdigest, result, mailVars,
                   faults>>

\* The end of IMAP's header; the body is asked for if it is wanted.
FetchBody ==
    IF result = "ok"
    THEN /\ pc' = "body"
         /\ stream' = Literal(This) \o <<Trailer>>
         /\ len' = Octets(BodyPart(This))
    ELSE /\ pc' = "close"
         /\ stream' = Tail(stream)
         /\ len' = 0

\* A build that does not read the body of a message it does not want.
Resync_NoDrain ==
    /\ pc = "resync"
    /\ IF opt.delimited
       THEN /\ pc' = IF hd.readbody /\ result = "ok" THEN "body" ELSE "close"
            /\ UNCHANGED <<stream, len>>
       ELSE FetchBody
    /\ UNCHANGED <<opt, num, hd, aka, lastdigest, sink, result, mailVars, faults>>

Resync ==
    /\ pc = "resync"
    /\ IF opt.delimited
       THEN /\ pc' = IF hd.readbody THEN "body" ELSE "close"
            /\ UNCHANGED <<stream, len>>
       ELSE FetchBody
    /\ UNCHANGED <<opt, num, hd, aka, lastdigest, sink, result, mailVars, faults>>

\* A build that takes the whole line, whatever the server announced.
Cut_Whole(l) == l

\* The last line of an IMAP literal ends where the literal ends.
Cut(l) == IF ~opt.delimited /\ LineLen(l) > len THEN [l EXCEPT !.glued = FALSE] ELSE l

Consumed_Whole(l) == LineLen(l)

Consumed(l) == IF ~opt.delimited /\ LineLen(l) > len THEN len ELSE LineLen(l)

\* One line of the body; lines of a message that is not wanted are read too.
ReadBody ==
    /\ pc = "body"
    /\ stream # <<>>
    /\ IF opt.delimited THEN Head(stream).kind # "dot" ELSE len > 0
    /\ sink' = IF result = "ok" THEN Ship(sink, Cut(Head(stream))) ELSE sink
    /\ stream' = Tail(stream)
    /\ len' = len - Consumed(Head(stream))
    /\ UNCHANGED <<opt, pc, num, hd, aka, lastdigest, result, mailVars, faults>>

EndOfBody ==
    /\ pc = "body"
    /\ stream # <<>>
    /\ IF opt.delimited THEN Head(stream).kind = "dot" ELSE len = 0
    /\ stream' = Tail(stream)
    /\ pc' = "close"
    /\ UNCHANGED <<opt, num, len, hd, aka, lastdigest, sink, result, mailVars,
                   faults>>

\* The mail server or the sink breaks off, or the server has no more to send
\* and the wait for it times out; the session ends.
Break ==
    /\ pc \in {"headers", "ship", "body"}
    /\ IF pc # "ship" /\ stream = <<>> THEN UNCHANGED faults ELSE Fault
    /\ stream' = <<>>
    /\ sink' = NoSink
    /\ pc' = "idle"
    /\ UNCHANGED <<opt, num, len, hd, aka, lastdigest, result, mailVars>>
-----------------------------------------------------------------------------
(* driver.c: the end of the message and of the session *)

CloseSink(ok) ==
    /\ pc = "close"
    /\ IF ok THEN UNCHANGED faults ELSE result = "ok" /\ Fault
    /\ result' = IF result # "ok" THEN result ELSE IF ok THEN "shipped" ELSE "failed"
    /\ IF result = "ok" /\ ok
       THEN /\ fate' = [fate EXCEPT ![box[num]] = "accepted"]
            /\ log' = {[id |-> box[num], from |-> sink.from, to |-> sink.to,
                                 text |-> sink.text]}
       ELSE UNCHANGED <<fate, log>>
    /\ sink' = NoSink
    /\ pc' = "flag"
    /\ UNCHANGED <<opt, num, stream, len, hd, aka, lastdigest, box, deleted>>

FlagTheMail ==
    /\ pc = "flag"
    /\ deleted' = IF Disposition(result, opt) = "delete"
                  THEN deleted \cup {box[num]} ELSE deleted
    /\ pc' = "next"
    /\ UNCHANGED <<opt, msgVars, aka, lastdigest, box, fate, log, faults>>

EndPoll ==
    /\ pc = "next" /\ num = Len(box)
    /\ box' = SelectSeq(box, LAMBDA i : i \notin deleted)
    /\ pc' = "idle"
    /\ UNCHANGED <<opt, msgVars, aka, lastdigest, deleted, fate, log, faults>>

Next ==
    \/ StartPoll
    \/ \E d \in {"up", "lame", "down"} : FetchHeaders(d)
    \/ ReadHeader
    \/ EndOfHeader
    \/ Judge
    \/ Address
    \/ \E r \in {"ok", "transient", "refused"} : OpenSink(r)
    \/ \E bad \in BOOLEAN : ShipHeaders(bad)
    \/ Resync
    \/ ReadBody
    \/ EndOfBody
    \/ Break
    \/ \E ok \in BOOLEAN : CloseSink(ok)
    \/ FlagTheMail
    \/ EndPoll

Spec == Init /\ [][Next]_vars

\* A session that has begun goes on, the daemon polls again, and a message is
\* not taken for a fault for ever (MaxFaults).
FairSpec == Spec /\ WF_vars(Next)
-----------------------------------------------------------------------------
(* Properties *)

TypeOK ==
    /\ opt \in Options
    /\ ToSet(box) \subseteq Ids
    /\ pc \in {"idle", "next", "headers", "judge", "address", "open", "ship",
               "resync", "body", "close", "flag"}
    /\ num \in 0..Len(Mail) /\ len \in Nat
    /\ result \in Results \cup {"ok"}
    /\ fate \in [Ids -> {"absent", "waiting", "accepted", "refused", "malformed"}]
    /\ deleted \subseteq Ids
    /\ faults \in 0..MaxFaults

\* Client and server stay in step: when a message is done with, however it was
\* judged and however far it was read, nothing of it is left to be taken for
\* the reply to the next command (driver.c's suppress_readbody, eat_trailer).
InStep == pc \in {"flag", "next"} => stream = <<>>

\* What the user's options leave of the header, line by line.
KeptHeaders(m) ==
    LET hs == IF opt.mda THEN HeaderPart(m)
              ELSE RemoveFirstMatch(HeaderPart(m), LAMBDA l : l.kind = "returnpath")
    IN SelectSeq(hs, LAMBDA l : /\ l.kind # "From_" /\ l.kind # "emptystatus"
                                /\ l.kind = "status" => ~opt.dropstatus
                                /\ l.kind = "deliveredto" => ~opt.dropdelivered)

Own == {"trace", "warning", "fake"}

\* What is delivered is what the mailbox holds: the header less what the
\* options drop, one blank line, and the body with the dots it was written
\* with, the literal's last line included; fetchmail adds only lines of its
\* own, and its trace comes before all others (readheaders, readbody and
\* stuffline, over both kinds of protocol and of sink).
Faithful ==
    \A d \in log :
        LET m == Mail[d.id]
            at == CHOOSE i \in DOMAIN d.text : d.text[i].kind = "blank"
            head == SelectSeq(SubSeq(d.text, 1, at - 1), LAMBDA l : l.kind \notin Own)
            trace == {i \in DOMAIN d.text : d.text[i].kind = "trace"}
        IN /\ head = KeptHeaders(m)
           /\ SubSeq(d.text, at + 1, Len(d.text)) = BodyPart(m)
           /\ Cardinality(trace) = IF opt.invisible THEN 0 ELSE 1
           /\ \A i \in trace, j \in DOMAIN d.text : d.text[j].kind = "received" => i < j
           /\ at > 1

\* The mailbox's own record of whom a message was for: the lines of the
\* declared envelope header, after those to be skipped.
EnvelopeLines(m) ==
    LET ls == SelectSeq(HeaderPart(m), LAMBDA l : l.kind = opt.envelope)
    IN SubSeq(ls, opt.envskip + 1, Len(ls))

\* Mail of a multidrop mailbox whose envelope header says that it was for a
\* user of this site goes to that user and to nobody else, whoever else its
\* To lines name (the recipient code of readheaders).
EnvelopeDecides ==
    \A d \in log :
        LET ls == EnvelopeLines(Mail[d.id])
        IN opt.multidrop /\ opt.envelope \in {"xenv", "deliveredto"} /\ ls # <<>>
             => \A i \in DOMAIN ls[1].addrs :
                    LET a == StripQVirtual(ls[1].addrs[i])
                    IN a \in DOMAIN LocalNames /\ Len(ls[1].addrs) = 1
                         => d.to = {LocalNames[a]}

\* Whom an address may stand for.
Meant(addr) ==
    LET a == StripQVirtual(addr)
    IN IF a.host = NoHost THEN {}
       ELSE IF a \in DOMAIN LocalNames THEN {LocalNames[a]}
       ELSE IF a.host \in LocalDomains THEN {a} ELSE {MapName(NameOf(a))}

MeantBy(m, kinds) ==
    UNION {UNION {Meant(a) : a \in ToSet(l.addrs)} :
             l \in {x \in ToSet(HeaderPart(m)) : x.kind \in kinds}}

\* Nobody gets mail that no line of it names: every recipient is the postmaster
\* or the local name of an address at this site, and when the envelope is not
\* known, one that the message was resent to if it was (find_server_names and
\* the addressee chains of readheaders, over all that a session remembers).
RecipientsNamed ==
    \A d \in log :
        LET m == Mail[d.id]
            resent == \E l \in ToSet(HeaderPart(m)) : l.kind = "resentto"
        IN opt.multidrop =>
             d.to \subseteq {Postmaster} \cup
                 (IF opt.envelope # "disabled"
                  THEN MeantBy(m, HeaderKinds)
                  ELSE MeantBy(m, IF resent THEN {"resentto"} ELSE {"to"}))

\* Mail goes to the users it is for: to those the envelope names where it is
\* known, and never to one that no line of the message names (readheaders).
RightRecipients == EnvelopeDecides /\ RecipientsNamed

\* A message leaves the mailbox only when it, or one with the same header,
\* was delivered, or the listener refused it, or its header was malformed:
\* the duplicate killer must not drop mail ("Better to pass the occasional
\* duplicate", transact.c).
NoBlackhole ==
    \A i \in Ids \ ToSet(box) :
        \/ fate[i] # "waiting"
        \/ \E j \in Ids : /\ fate[j] = "accepted"
                          /\ KeptHeaders(Mail[j]) = KeptHeaders(Mail[i])

\* Only names that DNS gives to the mail server are taken for its aliases
\* (is_host_alias: "determine whether name is a DNS alias of the mailserver").
\* The code does not satisfy this: TransactDisagree.cfg and README.md, "Known disagreements".
AliasesAreReal ==
    \A h \in aka : \/ Facts[h].canon = "same"
                   \/ Facts[h].canon = "different" /\ Facts[h].ip
                   \/ Facts[h].canon = "unknown" /\ Facts[h].mx

\* Every message is dealt with while the polling goes on and the faults end,
\* unless it is the server's own first message or addressees are guessed:
\* then the duplicate killer may hold it up for as long as no other message
\* comes (transact.c compares with the last digest, delivered or not).
EventuallySettled ==
    \A i \in Ids :
        \/ opt.multidrop
        \/ \E l \in ToSet(Mail[i].headers) : l.kind = "ximap"
        \/ <>(fate[i] # "waiting")
=============================================================================
