------------------------------- MODULE Socket -------------------------------
(***************************************************************************)
(* The connection to a mail server: socket.c (opening, plugins, TLS,       *)
(* reading lines, closing), x509_name_match.c, and the part of do_session  *)
(* (driver.c) that owns the descriptor.                                    *)
(*                                                                         *)
(* A behaviour is a few polls of one server.  A poll opens a descriptor    *)
(* (an address at a time, or through a plugin), may negotiate TLS at once  *)
(* or later (STARTTLS), reads lines and ends; the alarm may interrupt it   *)
(* wherever it waits.  Descriptors are numbers that the system hands out   *)
(* again, the lowest free one first.                                       *)
(***************************************************************************)
EXTENDS Integers, FiniteSets, SequencesExt

CONSTANTS Options,      \* the configurations: see TypeOK for the fields
          Certs,        \* the certificates servers may present
          Depth,        \* the depth of a chain's root
          MaxErrors,    \* bound: the errors found in one chain
          Addresses,    \* how many addresses the server's name has
          Residue,      \* what memory fresh from malloc may hold
          FD_SETSIZE,   \* the length of the arrays of contexts
          Text,         \* what the server sends, a sequence of characters
          BufLen,       \* the length of the buffer lines are read into
          Request,      \* what is written to the server
          PrintfMax,    \* the characters SockPrintf can format
          MaxPolls      \* bound: polls

ASSUME SizesAssumption ==
  /\ Depth \in Nat /\ MaxErrors \in Nat /\ Addresses \in Nat /\ MaxPolls \in Nat
  /\ FD_SETSIZE \in Nat /\ BufLen \in Nat /\ BufLen > 1 /\ PrintfMax \in Nat

(* What sslproto may be; "auto" is also no word, or "ssl23".  SSLOpen ends  *)
(* the program with abort() for any other word.                             *)
Protocols == {"auto", "ssl3", "ssl3+", "tls1", "tls1+", "tls1.1", "tls1.1+",
              "tls1.2", "tls1.2+", "tls1.3", "tls1.3+"}

ASSUME OptionsAssumption ==
  \A o \in Options :
     o.sslproto \in Protocols /\ o.cname \in Seq(STRING) /\ o.certck \in BOOLEAN

ASSUME CertsAssumption ==
  \A c \in Certs : /\ c.name \in Seq(STRING)
                   /\ \A i \in DOMAIN c.sans : c.sans[i].name \in Seq(STRING)

ASSUME TextAssumption == Text \in Seq(STRING)

VARIABLES pc,
          polls,
          opts,
          open,     \* the descriptors this process has open
          ctx,      \* descriptors with a TLS configuration (_ctx)
          ssl,      \* descriptors with a TLS session (_ssl_context)
          sock,     \* mailserver_socket
          smtp,     \* smtp_socket, here the listener's Unix domain socket
          temp,     \* mailserver_socket_temp
          left,     \* addresses not tried yet
          argv,     \* the command a plugin is run with
          stranded, \* descriptors of a socket pair no child was forked for
          tls,      \* the handshake: the callback's statics and the chain
          rest,     \* what the server has still to send
          avail,    \* what has arrived and is not read
          eof,      \* the server has closed the connection
          buf,      \* what SockRead has read of a line
          lines,    \* the lines returned in this session
          peeked,   \* what SockPeek saw since the last line
          out       \* what SockWrite has still to write

vars == <<pc, polls, opts, open, ctx, ssl, sock, smtp, temp, left, argv,
          stranded, tls, rest, avail, eof, buf, lines, peeked, out>>

fdvars == <<open, ctx, ssl, sock, smtp, temp, argv, stranded>>

streamvars == <<rest, avail, eof, buf, lines, peeked, out>>

(***************************************************************************)
(* parse_plugin.  A template is a sequence of pieces: "%h", "%p", " " and  *)
(* ordinary characters; host and service are single characters here.       *)
(***************************************************************************)

Substituted(plugin) ==
  [i \in DOMAIN plugin |->
     CASE plugin[i] = "%h" -> "H" [] plugin[i] = "%p" -> "P"
       [] OTHER -> plugin[i]]

Escapes(plugin) == {i \in DOMAIN plugin : plugin[i] \in {"%h", "%p"}}

(* The copy is two bytes longer for every substitution than what is copied; *)
(* the terminator goes to its end.  Only after a substitution does strcpy   *)
(* terminate the text itself.                                               *)
Copies(plugin) ==
  LET s == Substituted(plugin)
      tail == 2 * Cardinality(Escapes(plugin))
  IN  IF plugin = <<>> \/ Last(plugin) \in {"%h", "%p"} THEN {s}
      ELSE {s \o SubSeq(g, 1, SelectInSeq(Append(g, "NUL"), LAMBDA c : c = "NUL") - 1) :
              g \in [1..tail -> Residue]}

Starts(s) == {i \in DOMAIN s : s[i] # " " /\ (i = 1 \/ s[i - 1] = " ")}

(* An argument reaches from its start to the next blank. *)
WordAt(s, i) ==
  LET blank == SelectInSubSeq(s, i, Len(s), LAMBDA c : c = " ")
  IN  SubSeq(s, i, IF blank = 0 THEN Len(s) ELSE blank - 1)

ArgVec(s) ==
  LET starts == SetToSortSeq(Starts(s), <)
  IN  [n \in DOMAIN starts |-> WordAt(s, starts[n])]

Slots_NoEnd(plugin) ==
  1 + Cardinality({i \in 2..Len(plugin) : plugin[i] = " " /\ plugin[i - 1] # " "})

(* The pointers allocated for the arguments, counted before substitution.   *)
Slots(plugin) ==
  2 + Cardinality({i \in 2..Len(plugin) : plugin[i] = " " /\ plugin[i - 1] # " "})

(***************************************************************************)
(* Descriptors                                                             *)
(***************************************************************************)

Fresh(S) == CHOOSE n \in 0..Cardinality(S) : n \notin S /\ 0..(n - 1) \subseteq S

(* What SSLGetContext lets pass: the index is checked with > FD_SETSIZE.    *)
InRange(f) == f >= 0 /\ f <= FD_SETSIZE

HasTls(f) == InRange(f) /\ f \in ctx /\ f \in ssl

SockClose_KeepsTls(d, f) == [d EXCEPT !.open = @ \ {f}]

(* SockClose on a record of the three sets: TLS is shut down if there is a  *)
(* session, then the descriptor is closed, if it is open.                   *)
SockClose(d, f) ==
  [open |-> d.open \ {f},
   ctx |-> IF f \in d.ctx \cap d.ssl THEN d.ctx \ {f} ELSE d.ctx,
   ssl |-> IF f \in d.ctx \cap d.ssl THEN d.ssl \ {f} ELSE d.ssl]

Descriptors == [open |-> open, ctx |-> ctx, ssl |-> ssl]

SetDescriptors(d) == open' = d.open /\ ctx' = d.ctx /\ ssl' = d.ssl

(***************************************************************************)
(* Starting a poll, and what ends one                                      *)
(***************************************************************************)

NoTls == [depth |-> -1, errors |-> 0, cert |-> <<>>, chain |-> TRUE, asked |-> FALSE,
          depth0ck |-> FALSE, check_fp |-> 0, verify_ok |-> TRUE, version |-> 0]

NoOptions == [plugin |-> <<>>, use_ssl |-> FALSE, starttls |-> FALSE,
              unix |-> FALSE, certck |-> FALSE, fingerprint |-> 0,
              cname |-> <<>>, sslproto |-> "auto", timeout |-> FALSE]

Init ==
  /\ pc = "idle" /\ polls = 0 /\ opts = NoOptions
  /\ open = {} /\ ctx = {} /\ ssl = {} /\ sock = -1 /\ smtp = -1 /\ temp = -1
  /\ left = 0 /\ argv = <<>> /\ stranded = {} /\ tls = NoTls
  /\ rest = <<>> /\ avail = <<>> /\ eof = FALSE /\ buf = <<>> /\ lines = <<>>
  /\ peeked = <<>> /\ out = <<>>

Begin(o) ==
  /\ pc = "idle"
  /\ polls < MaxPolls
  /\ polls' = polls + 1
  /\ opts' = o
  /\ sock' = -1
  /\ left' = Addresses
  /\ tls' = NoTls
  /\ pc' = IF o.plugin # <<>> THEN "plugin" ELSE "resolve"
  /\ UNCHANGED <<open, ctx, ssl, smtp, temp, argv, stranded, streamvars>>

(* closeUp: the poll is over; the descriptors are left as they are. *)
CloseUp ==
  /\ pc' = "idle"
  /\ opts' = NoOptions
  /\ sock' = -1
  /\ smtp' = -1
  /\ left' = 0
  /\ argv' = <<>>
  /\ tls' = NoTls
  /\ rest' = <<>> /\ avail' = <<>> /\ eof' = FALSE /\ buf' = <<>> /\ lines' = <<>>
  /\ peeked' = <<>> /\ out' = <<>>
  /\ UNCHANGED polls

CloseIf(d, f) == IF f # -1 THEN SockClose(d, f) ELSE d

CleanUp_NoTemp(d) == CloseIf(CloseIf(d, smtp), sock)

(* cleanUp: the listener's socket, the mail server's and the one being      *)
(* opened are closed, though the last two may be the same.                  *)
CleanUp(d) == CloseIf(CloseIf(CloseIf(d, smtp), sock), temp)

EndInError(d) ==
  /\ SetDescriptors(CleanUp(d))
  /\ temp' = -1
  /\ CloseUp
  /\ UNCHANGED stranded

(* The alarm: wherever the program waits, and if a timeout is set. *)
Waiting == {"resolve", "connecting", "handshake", "unixopen", "reading"}

Timeout ==
  /\ pc \in Waiting
  /\ opts.timeout
  /\ EndInError(Descriptors)

(* The end of a poll that went well. *)
Close ==
  /\ pc = "session"
  /\ SetDescriptors(SockClose(CloseIf(Descriptors, smtp), sock))
  /\ UNCHANGED <<temp, stranded>>
  /\ CloseUp

(***************************************************************************)
(* SockOpen                                                                *)
(***************************************************************************)

(* do_session goes on with TLS, if that is asked for, or with the session.  *)
(* Its text starts here.                                                    *)
Connected(f) ==
  /\ sock' = f
  /\ IF opts.use_ssl THEN pc' = "sslopen" /\ temp' = f
     ELSE pc' = "session" /\ temp' = -1
  /\ rest' = Text
  /\ UNCHANGED <<avail, eof, buf, lines, peeked, out>>

(* handle_plugin: when the fork fails, both ends stay open. *)
Plugin(r) ==
  /\ pc = "plugin"
  /\ LET p == Fresh(open)
         q == Fresh(open \cup {p})
     IN  CASE r = "ok" ->
                /\ open' = open \cup {q}
                /\ sock' = q
                /\ \E s \in Copies(opts.plugin) : argv' = ArgVec(s)
                /\ pc' = "exec"
                /\ UNCHANGED <<polls, opts, ctx, ssl, smtp, temp, left, stranded, tls, streamvars>>
           [] r = "nopair" -> CloseUp /\ UNCHANGED <<open, ctx, ssl, temp, stranded>>
           [] r = "nofork" ->
                /\ open' = open \cup {p, q}
                /\ stranded' = stranded \cup {p, q}
                /\ CloseUp
                /\ UNCHANGED <<ctx, ssl, temp>>

Exec ==
  /\ pc = "exec"
  /\ argv' = <<>>
  /\ Connected(sock)
  /\ UNCHANGED <<polls, opts, open, ctx, ssl, smtp, left, stranded, tls>>

Resolve(found) ==
  /\ pc = "resolve"
  /\ IF found
     THEN /\ pc' = "address"
          /\ UNCHANGED <<polls, opts, left, fdvars, tls, streamvars>>
     ELSE CloseUp /\ UNCHANGED <<open, ctx, ssl, temp, stranded>>

(* The next address: a socket for it, or on to the one after it. *)
TryAddress(created) ==
  /\ pc = "address"
  /\ left > 0
  /\ left' = left - 1
  /\ IF created
     THEN /\ open' = open \cup {Fresh(open)}
          /\ temp' = Fresh(open)
          /\ pc' = "connecting"
     ELSE UNCHANGED <<open, temp, pc>>
  /\ UNCHANGED <<polls, opts, ctx, ssl, sock, smtp, argv, stranded, tls, streamvars>>

NoMoreAddresses ==
  /\ pc = "address"
  /\ left = 0
  /\ CloseUp
  /\ UNCHANGED <<open, ctx, ssl, temp, stranded>>

(* fm_close after a connect that failed. *)
Refused(f) == open \ {f}

(* temp still names the closed descriptor when the connect fails.           *)
Connect(accepted) ==
  /\ pc = "connecting"
  /\ IF accepted
     THEN Connected(temp) /\ UNCHANGED open
     ELSE /\ open' = Refused(temp)
          /\ pc' = "address"
          /\ UNCHANGED <<sock, temp, streamvars>>
  /\ UNCHANGED <<polls, opts, ctx, ssl, smtp, left, argv, stranded, tls>>

(* UnixOpen, for a listener on a Unix domain socket: it is called while the *)
(* mail server's connection is up and keeps the descriptor it connects in   *)
(* the same variable.                                                       *)
UnixOpen ==
  /\ pc = "session"
  /\ opts.unix /\ smtp = -1
  /\ open' = open \cup {Fresh(open)}
  /\ temp' = Fresh(open)
  /\ pc' = "unixopen"
  /\ UNCHANGED <<polls, opts, ctx, ssl, sock, smtp, left, argv, stranded, tls, streamvars>>

UnixConnect(accepted) ==
  /\ pc = "unixopen"
  /\ IF accepted THEN smtp' = temp /\ UNCHANGED open
     ELSE open' = Refused(temp) /\ UNCHANGED smtp
  /\ temp' = -1
  /\ pc' = "session"
  /\ UNCHANGED <<polls, opts, ctx, ssl, sock, left, argv, stranded, tls, streamvars>>

(***************************************************************************)
(* The certificate                                                         *)
(***************************************************************************)

Numeric == {"1", "2"}

(* name_match on sequences of labels: a wildcard stands for a whole first   *)
(* label, before at least two others, and never for a numeric address.      *)
NameMatch(pattern, name) ==
  /\ pattern # <<>>
  /\ IF pattern[1] = "*" /\ Len(pattern) > 1 /\ ~(Range(name) \subseteq Numeric)
     THEN /\ Len(Tail(pattern)) >= 2
          /\ Len(name) >= Len(pattern)
          /\ IsSuffix(Tail(pattern), name)
     ELSE pattern = name

BadCN(cert) == cert.cn \in {"long", "nul"}

BadSan(cert) == \E i \in DOMAIN cert.sans : cert.sans[i].nul

Matched(cert, cname) ==
  \/ \E i \in DOMAIN cert.sans : NameMatch(cert.sans[i].name, cname)
  \/ NameMatch(cert.name, cname)

(* The checks of the peer's own certificate: whether it is refused outright *)
(* and whether its stage counts as passed.                                  *)
PeerName(ok, cert, strict, cname) ==
  IF cert.cn = "name"
  THEN [refuse |-> BadSan(cert), ok |-> ok /\ Matched(cert, cname)]
  ELSE [refuse |-> ok /\ strict, ok |-> ok]

(* The fingerprint is looked at once, in the first call for depth 0. *)
Fingerprint(cert, o) == o.fingerprint # 0 /\ cert.digest # o.fingerprint

(* SSL_verify_callback for the certificate at t.depth.  Without strict a    *)
(* stage that failed is passed all the same.                                *)
SSLVerifyCallback(ok, t, strict, o) ==
  LET peer == IF t.depth = 0 THEN PeerName(ok, t.cert[1], strict, o.cname)
              ELSE [refuse |-> FALSE, ok |-> ok]
      badfp == t.depth = 0 /\ t.check_fp = 1 /\ Fingerprint(t.cert[1], o)
      reached == t.depth = 0 /\ ~BadCN(t.cert[1])
  IN  [ret |-> IF BadCN(t.cert[1]) \/ peer.refuse \/ badfp THEN FALSE
               ELSE peer.ok \/ ~strict,
       t |-> [t EXCEPT !.depth0ck = @ \/ reached,
                       !.check_fp = IF reached /\ ~peer.refuse THEN -1 ELSE @,
                       !.verify_ok = @ /\ peer.ok]]

(***************************************************************************)
(* SSLOpen                                                                 *)
(***************************************************************************)

(* The protocol versions: 0 is SSLv3, 1 to 4 are TLS 1.0 to 1.3. *)
Versions == 0..4

MinVersion(p) ==
  CASE p \in {"ssl3", "ssl3+"} -> 0
    [] p \in {"tls1.1", "tls1.1+"} -> 2
    [] p \in {"tls1.2", "tls1.2+"} -> 3
    [] p \in {"tls1.3", "tls1.3+"} -> 4
    [] OTHER -> 1

MaxVersion(p) ==
  CASE p = "ssl3" -> 0 [] p = "tls1" -> 1 [] p = "tls1.1" -> 2
    [] p = "tls1.2" -> 3 [] OTHER -> 4

(* The outcomes of the calls that set a session up: "nossl3" is a library   *)
(* without SSLv3, which leaves the configuration behind.                    *)
SslSetups == {"ok", "noctx", "nossl3", "nossl"}

(* STARTTLS that the configuration does not insist on (must_starttls).      *)
Opportunistic(o) ==
  ~o.use_ssl /\ ~o.certck /\ o.fingerprint = 0 /\ o.sslproto # "tls1"

(* Marks a session whose upgrade has failed: STARTTLS is not sent again.    *)
NoUpgrade == [NoTls EXCEPT !.version = -1]

(* SSLOpen fails.  An opportunistic upgrade is given up and the session     *)
(* goes on in plaintext; every other session ends.                          *)
SslFails(d) ==
  IF Opportunistic(opts)
  THEN /\ SetDescriptors(d)
       /\ pc' = "session"
       /\ tls' = NoUpgrade
       /\ UNCHANGED <<polls, opts, sock, smtp, temp, left, argv, stranded, streamvars>>
  ELSE EndInError(d)

SSLOpen(r) ==
  /\ pc = "sslopen"
  /\ r = "nossl3" => opts.sslproto = "ssl3"
  /\ CASE ~InRange(sock) -> SslFails(Descriptors)
       [] InRange(sock) /\ r \in {"noctx", "nossl"} ->
            SslFails([Descriptors EXCEPT !.ctx = @ \ {sock}, !.ssl = @ \ {sock}])
       [] InRange(sock) /\ r = "nossl3" ->
            SslFails([Descriptors EXCEPT !.ctx = @ \cup {sock}, !.ssl = @ \ {sock}])
       [] OTHER ->
            /\ ctx' = ctx \cup {sock}
            /\ ssl' = ssl \cup {sock}
            /\ pc' = "handshake"
            /\ tls' = [NoTls EXCEPT !.depth = Depth, !.check_fp = 1]
            /\ UNCHANGED <<polls, opts, open, sock, smtp, temp, left, argv, stranded,
                           streamvars>>

(* The library walks the chain from the root to the peer.  For every        *)
(* certificate it calls back for the errors it finds, then to confirm it; a *)
(* refusal ends the handshake.                                              *)
NextInChain(t, ok) ==
  IF ok THEN [t EXCEPT !.depth = @ - 1, !.cert = IF t.depth = 0 THEN @ ELSE <<>>, !.asked = TRUE]
  ELSE [t EXCEPT !.errors = @ + 1, !.chain = FALSE, !.asked = TRUE]

Verify(cert, ok) ==
  /\ pc = "handshake"
  /\ tls.depth >= 0
  /\ ~ok => tls.errors < MaxErrors
  /\ tls.cert # <<>> => cert = tls.cert[1]
  /\ LET v == SSLVerifyCallback(ok, [tls EXCEPT !.cert = <<cert>>], opts.certck, opts)
     IN  IF v.ret
         THEN /\ tls' = NextInChain(v.t, ok)
              /\ UNCHANGED <<pc, polls, opts, left, fdvars, streamvars>>
         ELSE SslFails([Descriptors EXCEPT !.ctx = @ \ {sock}, !.ssl = @ \ {sock}])

HandshakeFails ==
  /\ pc = "handshake"
  /\ SslFails([Descriptors EXCEPT !.ctx = @ \ {sock}, !.ssl = @ \ {sock}])

Skipped_Allowed(t, o) == FALSE

(* The callback never saw the peer's certificate. *)
Skipped(t, o) == ~t.depth0ck /\ (o.fingerprint # 0 \/ o.certck)

(* The handshake is through, with the chain walked or (a resumed session)   *)
(* without any call back.                                                   *)
HandshakeDone(v) ==
  /\ pc = "handshake"
  /\ tls.depth = -1 \/ ~tls.asked
  /\ v \in MinVersion(opts.sslproto)..MaxVersion(opts.sslproto)
  /\ IF Skipped(tls, opts)
     THEN SslFails([Descriptors EXCEPT !.ctx = @ \ {sock}, !.ssl = @ \ {sock}])
     ELSE /\ pc' = "secured"
          /\ temp' = -1
          /\ tls' = [tls EXCEPT !.version = v]
          /\ UNCHANGED <<polls, opts, open, ctx, ssl, sock, smtp, left, argv, stranded,
                         streamvars>>

(* What the certificate was is forgotten. *)
Secured ==
  /\ pc = "secured"
  /\ pc' = "session"
  /\ tls' = NoTls
  /\ UNCHANGED <<polls, opts, left, fdvars, streamvars>>

StartTls ==
  /\ pc = "session"
  /\ opts.starttls /\ ~HasTls(sock) /\ tls # NoUpgrade
  /\ lines = <<>> /\ avail = <<>>
  /\ pc' = "sslopen"
  /\ UNCHANGED <<polls, opts, left, fdvars, tls, streamvars>>

(***************************************************************************)
(* Reading and writing                                                     *)
(***************************************************************************)

(* The server: the next n characters arrive, or it closes. *)
Arrive(n) ==
  /\ pc \in {"session", "reading"}
  /\ n \in 1..Len(rest)
  /\ avail' = avail \o SubSeq(rest, 1, n)
  /\ rest' = SubSeq(rest, n + 1, Len(rest))
  /\ UNCHANGED <<pc, polls, opts, left, fdvars, tls, eof, buf, lines, peeked, out>>

Hangup ==
  /\ pc \in {"session", "reading"}
  /\ ~eof
  /\ eof' = TRUE
  /\ rest' = <<>>
  /\ UNCHANGED <<pc, polls, opts, left, fdvars, tls, avail, buf, lines, peeked, out>>

SockRead ==
  /\ pc = "session"
  /\ pc' = "reading"
  /\ buf' = <<>>
  /\ UNCHANGED <<polls, opts, left, fdvars, tls, rest, avail, eof, lines, peeked, out>>

Room_All(b) == BufLen - Len(b)

(* The characters that still fit; one is kept for the terminator. *)
Room(b) == BufLen - 1 - Len(b)

UpToNewline_All(s) == s

(* Of what was peeked at, the part up to and with the first newline is read. *)
UpToNewline(s) ==
  LET nl == SelectInSeq(s, LAMBDA c : c = "\n")
  IN  IF nl = 0 THEN s ELSE SubSeq(s, 1, nl)

Peek(n) == SubSeq(avail, 1, IF n < Len(avail) THEN n ELSE Len(avail))

LineDone(b) == Last(b) = "\n" \/ Room(b) = 0

(* One turn of SockRead's loop, when something is there to be read.  With   *)
(* TLS a peek may see nothing although there is something; then a single    *)
(* character is read.                                                       *)
ReadSome(n) ==
  /\ pc = "reading"
  /\ avail # <<>>
  /\ n = Room(buf) \/ (n = 1 /\ HasTls(sock))
  /\ LET got == UpToNewline(Peek(n))
         b == buf \o got
     IN  /\ avail' = SubSeq(avail, Len(got) + 1, Len(avail))
         /\ IF LineDone(b)
            THEN buf' = <<>> /\ lines' = Append(lines, b) /\ pc' = "session"
                   /\ peeked' = <<>>
            ELSE buf' = b /\ UNCHANGED <<lines, pc, peeked>>
  /\ UNCHANGED <<polls, opts, left, fdvars, tls, rest, eof, out>>

EndsRead_Loops(e) == FALSE

(* Nothing left after the server has closed: peeking gives 0, or an error.  *)
EndsRead(e) == e

(* SockRead fails; what it had read of the line is lost, and the session    *)
(* ends.                                                                    *)
ReadFails ==
  /\ pc = "reading"
  /\ avail = <<>>
  /\ EndsRead(eof)
  /\ EndInError(Descriptors)

(* SockPeek.  After the end of a connection without TLS the character is an *)
(* uninitialised one; that and an error are followed by a read that fails.  *)
SockPeek ==
  /\ pc = "session"
  /\ avail # <<>>
  /\ peeked' = <<avail[1]>>
  /\ UNCHANGED <<pc, polls, opts, left, fdvars, tls, rest, avail, eof, buf, lines, out>>

PeekAtEnd(ch) ==
  /\ pc = "session"
  /\ avail = <<>> /\ eof /\ ~HasTls(sock)
  /\ peeked' = <<ch>>
  /\ UNCHANGED <<pc, polls, opts, left, fdvars, tls, rest, avail, eof, buf, lines, out>>

(* SockPrintf formats into a buffer; SockWrite writes until all is written. *)
SockPrintf ==
  /\ pc = "session"
  /\ pc' = "writing"
  /\ out' = SubSeq(Request, 1, IF Len(Request) < PrintfMax THEN Len(Request) ELSE PrintfMax)
  /\ UNCHANGED <<polls, opts, left, fdvars, tls, rest, avail, eof, buf, lines, peeked>>

SockWrite(n) ==
  /\ pc = "writing"
  /\ n \in 1..Len(out)
  /\ out' = SubSeq(out, n + 1, Len(out))
  /\ pc' = IF n = Len(out) THEN "session" ELSE "writing"
  /\ UNCHANGED <<polls, opts, left, fdvars, tls, rest, avail, eof, buf, lines, peeked>>

WriteFails ==
  /\ pc = "writing"
  /\ EndInError(Descriptors)

Next ==
  \/ \E o \in Options : Begin(o)
  \/ \E r \in {"ok", "nopair", "nofork"} : Plugin(r)
  \/ Exec
  \/ \E b \in BOOLEAN : Resolve(b) \/ TryAddress(b) \/ Connect(b)
  \/ UnixOpen
  \/ \E b \in BOOLEAN : UnixConnect(b)
  \/ NoMoreAddresses \/ Timeout \/ Close
  \/ \E r \in SslSetups : SSLOpen(r)
  \/ \E c \in Certs, ok \in BOOLEAN : Verify(c, ok)
  \/ HandshakeFails
  \/ \E v \in Versions : HandshakeDone(v)
  \/ Secured \/ StartTls
  \/ \E n \in 1..Len(Text) : Arrive(n)
  \/ Hangup \/ SockRead
  \/ \E n \in 1..BufLen : ReadSome(n)
  \/ ReadFails \/ SockPeek
  \/ \E ch \in {" ", "a"} : PeekAtEnd(ch)
  \/ SockPrintf \/ WriteFails
  \/ \E n \in 1..Len(Request) : SockWrite(n)

Spec == Init /\ [][Next]_vars

(* The loop of SockRead goes on as long as it can, and the alarm rings.     *)
Fairness == /\ WF_vars(\E n \in 1..BufLen : ReadSome(n))
            /\ WF_vars(ReadFails)
            /\ WF_vars(pc = "reading" /\ Timeout)

FairSpec == Spec /\ Fairness

(***************************************************************************)
(* Properties                                                              *)
(***************************************************************************)

TypeOK ==
  /\ pc \in {"idle", "plugin", "resolve", "address", "connecting", "sslopen",
             "exec", "unixopen", "handshake", "secured", "session", "reading", "writing"}
  /\ opts \in Options \cup {NoOptions}
  /\ open \subseteq Nat
  /\ ssl \subseteq ctx /\ ctx \subseteq 0..(FD_SETSIZE - 1)
  /\ sock \in {-1} \cup Nat /\ temp \in {-1} \cup Nat /\ smtp \in {-1} \cup Nat
  /\ left \in 0..Addresses
  /\ Len(buf) < BufLen /\ \A i \in DOMAIN lines : Len(lines[i]) < BufLen
  /\ Len(peeked) <= 1
  /\ tls.depth \in -1..Depth

(* The lines read are the server's text, cut after every newline and where  *)
(* the buffer ended: nothing is lost, doubled or reordered between the      *)
(* peeking and the reading, however the text arrives.  What SockPeek saw is *)
(* what the next line starts with.                                          *)
LinesWhole ==
  pc \in {"session", "reading"} =>
    /\ LET seen == FlattenSeq(lines) \o buf \o avail
       IN  IF eof THEN IsPrefix(seen, Text) ELSE seen \o rest = Text
    /\ \A i \in DOMAIN lines :
         /\ \A k \in 1..(Len(lines[i]) - 1) : lines[i][k] # "\n"
         /\ Last(lines[i]) = "\n" \/ Len(lines[i]) = BufLen - 1
    /\ peeked # <<>> /\ buf \o avail # <<>> => peeked[1] = (buf \o avail)[1]

(* What a certificate's name promises: itself, or with a wildcard every     *)
(* name that has at least one label in its place, if two or more follow.    *)
Covers(name, cname) ==
  \/ name = cname
  \/ /\ name # <<>> /\ name[1] = "*" /\ Len(name) >= 3
     /\ \E k \in 1..Len(cname) :
          SubSeq(cname, k + 1, Len(cname)) = SubSeq(name, 2, Len(name))
     /\ \E i \in DOMAIN cname : cname[i] \notin Numeric

WantedVersions ==
  [p \in Protocols |->
     CASE p = "ssl3" -> {0}   [] p = "ssl3+" -> {0, 1, 2, 3, 4}
       [] p = "tls1" -> {1}   [] p = "tls1.1" -> {2} [] p = "tls1.1+" -> {2, 3, 4}
       [] p = "tls1.2" -> {3} [] p = "tls1.2+" -> {3, 4}
       [] p \in {"tls1.3", "tls1.3+"} -> {4} [] OTHER -> {1, 2, 3, 4}]

(* A connection that is taken for secured is what the configuration asks    *)
(* for: with sslcertck no error was found in the chain and the certificate  *)
(* names the server; with a fingerprint the certificate has it, sslcertck   *)
(* or not; the version is one that sslproto allows.                         *)
CheckedPeer ==
  pc = "secured" =>
    /\ opts.certck =>
         /\ tls.chain
         /\ tls.cert # <<>>
         /\ \/ Covers(tls.cert[1].name, opts.cname)
            \/ \E i \in DOMAIN tls.cert[1].sans :
                 Covers(tls.cert[1].sans[i].name, opts.cname)
    /\ opts.fingerprint # 0 =>
         tls.cert # <<>> /\ tls.cert[1].digest = opts.fingerprint
    /\ tls.version \in WantedVersions[opts.sslproto]

(* Between polls no descriptor of a poll is open: whatever interrupted it,  *)
(* the connections to server and listener and the attempts before them are  *)
(* closed.  The pair of a plugin that could not be forked is the exception. *)
NoLeak == pc = "idle" => open \subseteq stranded

(* Only the session that negotiated TLS uses it: a descriptor's number is   *)
(* handed out again, and the new connection must not find the TLS session   *)
(* of the old one under it.                                                 *)
NoStaleTls == pc \in {"idle", "resolve", "address", "connecting"} => ssl = {}

(* A connection leaves nothing behind for the next one: no descriptor after *)
(* the poll, and no TLS session under a number that is handed out again     *)
(* (SockClose and do_session's cleanUp and closeUp).                        *)
NothingLeft == NoLeak /\ NoStaleTls

(* The command a plugin is run with is the words of the template, with host *)
(* and service in their places, and the vector has room for them and for    *)
(* the end mark.                                                            *)
PluginArgs ==
  pc = "exec" =>
    /\ FlattenSeq(argv) = SelectSeq(Substituted(opts.plugin), LAMBDA c : c # " ")
    /\ \A i \in DOMAIN argv : argv[i] # <<>>
    /\ Len(argv) = Cardinality(Starts(opts.plugin))
    /\ Len(argv) + 1 <= Slots(opts.plugin)

(* A read ends once the server has closed the connection, or, with a        *)
(* timeout, whatever the server does.                                       *)
ReadEnds == (pc = "reading" /\ (eof \/ opts.timeout)) ~> (pc # "reading")
=============================================================================
