------------------------------- MODULE Login -------------------------------
(***************************************************************************)
(* Authentication: imap_getauth, pop3_getauth and the SASL helpers they    *)
(* call, against a server that refuses, challenges, hangs up or changes    *)
(* what it offers.                                                         *)
(*                                                                         *)
(* The server answers a line as soon as it has it; the answers wait in     *)
(* wire until the client reads them.  A line of the server is              *)
(* [tag, kind]: tag 0 without a tag (POP3 has none), kind one of           *)
(*   ok no bad        the status replies (no is POP3's -ERR)               *)
(*   lock busy        -ERR with the words that pop3_ok looks for           *)
(*   chal junk blank  "+ " with a challenge, with no base64, with nothing  *)
(*   star             an IMAP line "* ..." of no interest                  *)
(***************************************************************************)
EXTENDS Integers, FiniteSets, SequencesExt

CONSTANTS Configs,      \* accounts as configured, records of ConfigType
          Offers,       \* sets of capabilities a server may announce
          MaxPolls      \* bound: polls of the account

Auths == {"any", "password", "otp", "gssapi", "kerberos", "cram", "ntlm",
          "msn", "external", "ssh"}
Mechs == {"EXTERNAL", "GSSAPI", "KERBEROS_V4", "CRAM-MD5", "X-OTP", "NTLM",
          "MSN", "RPA"}

\* sslproto: "unset" is no such option, "" forbids TLS, "tls1" is that word and
\* "auto" any other; certck: sslcertck, or a fingerprint; creds: GSSAPI
\* credentials; service: the port option; rpa: a user @compuserve.com; msn: the
\* host pop3.email.msn.com.
ConfigType == [protocol : {"IMAP", "POP3", "APOP", "RPOP"}, auth : Auths,
               sslproto : {"unset", "", "auto", "tls1"}, certck : BOOLEAN,
               use_ssl : BOOLEAN, creds : BOOLEAN, rpa : BOOLEAN, msn : BOOLEAN,
               service : {"default", "kpop", "other"}]

ASSUME BoundsAssumption == MaxPolls \in Nat
ASSUME ConfigsAssumption == Configs \subseteq ConfigType /\ Configs # {}
ASSUME OffersAssumption ==
    \A o \in Offers : o \subseteq (Mechs \cup {"STARTTLS", "LOGINDISABLED"})

VARIABLES cfg,                   \* the account as the user configured it
          auth, sslproto,        \* what a failure made of it, for good
          wehaveauthed,
          pc, ok,                \* where getauth is, its last result
          i, k,                  \* mechanism it tries, step of the exchange
          tag,                   \* tagnum
          known,                 \* capabilities, or the has_ flags
          tlsdoubt,              \* connection_may_have_tls_errors
          preauth,               \* of imap.c, static
          tls, wire, srv,        \* the connection and the server's end of it
          offers, greeting,
          polls, repolls,
          shown, strayed         \* bookkeeping, see Show and Stray

ctlVars  == <<cfg, auth, sslproto, wehaveauthed>>
pollVars == <<polls, repolls>>
connVars == <<offers, greeting, tls>>
vars == <<ctlVars, pollVars, connVars, pc, ok, i, k, tag, known, tlsdoubt,
          preauth, wire, srv, shown, strayed>>

Imap == cfg.protocol = "IMAP"

\* maybe_starttls and must_starttls.
MaybeStarttls == sslproto # "" /\ ~cfg.use_ssl
MustStarttls == MaybeStarttls /\ (cfg.certck \/ sslproto = "tls1")

\* The order in which getauth tries them.
Order ==
    IF cfg.rpa /\ ~Imap THEN <<"RPA">>
    ELSE IF Imap THEN <<"EXTERNAL", "GSSAPI", "KERBEROS_V4", "CRAM-MD5", "X-OTP", "NTLM">>
    ELSE <<"KERBEROS_V4", "GSSAPI", "X-OTP", "MSN", "NTLM", "CRAM-MD5">>

\* do_pop3_ntlm and POP3_auth_rpa and do_otp read one line; the others, and
\* do_imap_ntlm, use parse_response.
ReadsRaw(m) == m \in {"X-OTP", "RPA"}

-----------------------------------------------------------------------------
(* The mail server. *)

Line(t, kd) == [tag |-> IF Imap THEN t ELSE 0, kind |-> kd]
Idle == [at |-> "cmd", left |-> 0, tag |-> 0]

\* Answers of the server to one line of the client: <<lines, new state>>.
Refusals == IF Imap THEN {"no", "bad"} ELSE {"no", "lock", "busy"}
Says(kinds, t, st) == {<<<<Line(t, kd)>>, st>> : kd \in kinds}

\* Challenges a mechanism takes, and what its first one holds.
Rounds(m) ==
    CASE m = "EXTERNAL" -> 0
      [] m = "CRAM-MD5" -> 1
      [] m \in {"X-OTP", "NTLM", "MSN", "KERBEROS_V4"} -> 2
      [] OTHER -> 3
FirstChallenge(m) == IF m \in {"CRAM-MD5", "KERBEROS_V4"} THEN "chal" ELSE "blank"

OnAuth(m) ==
    IF srv.at = "sasl" THEN Says({IF Imap THEN "bad" ELSE "no"}, srv.tag, Idle)
    ELSE Says(Refusals, tag', srv)
         \cup IF Rounds(m) = 0 THEN Says({"ok"}, tag', [srv EXCEPT !.at = "authed"])
              ELSE Says({FirstChallenge(m), "junk"}, 0,
                        [at |-> "sasl", left |-> Rounds(m), tag |-> tag'])

\* A base64 response, sent without a tag.
OnResponse ==
    CASE srv.at = "sasl" /\ srv.left > 1 ->
             Says({"chal", "junk"}, 0, [srv EXCEPT !.left = @ - 1])
             \cup Says({"no"}, srv.tag, Idle)
      [] srv.at = "sasl" /\ srv.left = 1 ->
             Says({"ok"}, srv.tag, [Idle EXCEPT !.at = "authed"])
             \cup Says({"no"}, srv.tag, Idle)
      [] OTHER -> Says({IF Imap THEN "star" ELSE "no"}, 0, srv)

\* "*", which cancels an exchange when it has no tag.
OnStar(t) ==
    IF srv.at = "sasl" THEN Says({IF t = 0 \/ ~Imap THEN "no" ELSE "bad"}, srv.tag, Idle)
    ELSE IF Imap /\ t = 0 THEN Says({"star"}, 0, srv)
    ELSE Says({IF Imap THEN "bad" ELSE "no"}, t, srv)

\* A command whose success leaves the server in state to.
OnCommand(to) ==
    IF srv.at = "sasl" THEN Says({IF Imap THEN "bad" ELSE "no"}, srv.tag, Idle)
    ELSE Says(Refusals, tag', srv) \cup Says({"ok"}, tag', [srv EXCEPT !.at = to])

-----------------------------------------------------------------------------
(* gen_send, gen_recv, gen_transact *)

GENSYM == tag' = IF Imap THEN tag + 1 ELSE tag
NoTag == tag' = tag

\* A line goes out while unread is on the wire; the server's answer, one of
\* answers, joins it there.
SendAfter(unread, answers) ==
    IF srv.at = "gone" THEN wire' = unread /\ srv' = srv
    ELSE \E a \in answers : wire' = unread \o a[1] /\ srv' = a[2]
Send(answers) == SendAfter(wire, answers)
ReadAndSend(answers) == SendAfter(Tail(wire), answers)

\* Lines parse_response takes for the answer: IMAP skips all that do not
\* carry its tag, POP3 takes the next line.
Answers == {n \in 1..Len(wire) : Imap => wire[n].tag = tag}
Answer == wire[CHOOSE n \in Answers : \A m \in Answers : n <= m]
Rest == SubSeq(wire, 1 + (CHOOSE n \in Answers : \A m \in Answers : n <= m), Len(wire))

\* imap_response and pop3_ok, in STAGE_GETAUTH.
StatusOf(l) ==
    CASE l.kind = "ok"                   -> "success"
      [] l.kind = "no"                   -> "authfail"
      [] l.kind = "bad"                  -> "error"
      [] l.kind = "lock"                 -> "lockbusy"
      [] l.kind = "busy"                 -> "servbusy"
      [] OTHER                           -> "protocol"

\* What is on the wire does not end the read the client is in.
Raw == pc # "final" \/ (i <= Len(Order) /\ ReadsRaw(Order[i]))
NothingToRead == wire = <<>> \/ (~Raw /\ Answers = {})

\* PS_SOCKET of a read that finds the connection closed.
Lost == srv.at = "gone" /\ NothingToRead /\ wire' = <<>> /\ UNCHANGED srv

\* No alarm is set.
Hangs_Never == FALSE

\* Nothing more will come: both sides wait, until the alarm ends the session.
Hangs == srv.at # "gone" /\ NothingToRead
TimeOut ==
    /\ pc \in {"exch", "cancel", "final", "user"} /\ Hangs
    /\ pc' = "closed" /\ ok' = "timeout"
    /\ UNCHANGED <<ctlVars, pollVars, connVars, i, k, tag, known, tlsdoubt,
                   preauth, wire, srv, shown, strayed>>

\* Reasons for which client and server may disagree on whose turn it is.
Stray(why) == strayed' = strayed \cup {why}
\* The password, or something computed from it, was sent.
Show(what) == shown' = shown \cup {[what |-> what, tls |-> tls \/ cfg.use_ssl]}

-----------------------------------------------------------------------------
(* A session, up to getauth *)

InitTransact_KeepsTag == tag' = tag

\* init_transact nukes any tag hanging out from the previous query.
InitTransact == tag' = 0

\* What stage may be when the greeting is read: STAGE_GETAUTH or not, as the
\* last session of any account has left it.  A repoll follows a session that
\* ended in STAGE_GETAUTH.
StillGetauth == IF repolls > 0 THEN {TRUE} ELSE BOOLEAN

\* init_transact, and the greeting, of which imap_untagged_response notes
\* PREAUTH only when stage is STAGE_GETAUTH; preauth is only ever set by it.
Connect ==
    /\ pc = "idle" /\ polls < MaxPolls
    /\ \E o \in Offers, g \in IF Imap THEN {"ok", "preauth"} ELSE {"ok", "badstamp"} :
          /\ offers' = o /\ greeting' = g
          /\ \E noted \in StillGetauth : preauth' = (preauth \/ (g = "preauth" /\ noted))
          /\ srv' = [Idle EXCEPT !.at = IF g = "preauth" THEN "authed" ELSE "cmd"]
    /\ InitTransact /\ tls' = FALSE /\ wire' = <<>> /\ known' = {}
    /\ tlsdoubt' = FALSE /\ strayed' = {} /\ shown' = {}
    /\ pc' = "start" /\ ok' = "authfail" /\ i' = 0 /\ k' = 0
    /\ UNCHANGED <<ctlVars, pollVars>>

\* getauth returns r.
Return(r) == pc' = "done" /\ ok' = r

\* Outcomes of a CAPABILITY or CAPA command at the start of an exchange.
CapaResults == {"success", "authfail", "socket"}
               \cup IF Imap THEN {"error"} ELSE {"lockbusy"}

\* capa_probe of imap.c: a server that does not know the command has none.
ImapCapa(next) ==
    /\ GENSYM
    /\ \E r \in CapaResults :
          /\ known' = IF r = "success" THEN offers ELSE {}
          /\ IF r \in {"success", "error"} THEN pc' = next /\ ok' = "authfail" ELSE Return(r)
    /\ UNCHANGED <<wire, srv>>

ImapStart ==
    /\ pc = "start" /\ Imap
    /\ ImapCapa("tls")
    /\ UNCHANGED <<ctlVars, pollVars, connVars, i, k, tlsdoubt, preauth, shown, strayed>>

NeedsCapa == auth \in {"any", "gssapi", "kerberos", "otp", "cram"} \/ MaybeStarttls

GivesUp_Always(r) == r \in {"authfail", "socket"}

\* A CAPA that fails gives up what the user did not insist on, for good.  A
\* hangup counts as a refusal until the account has been authorized once.
GivesUp(r) == r = "authfail" \/ (r = "socket" /\ ~wehaveauthed)
\* Keeps sslproto, and so meets the same failure again.
Weaken_KeepsTls(r) ==
    /\ auth' = IF auth = "any" /\ ~MustStarttls THEN "password" ELSE auth
    /\ Return(IF MustStarttls THEN r
              ELSE IF auth \in {"any", "password"} THEN "repoll" ELSE "authfail")
    /\ UNCHANGED sslproto

Weaken(r) ==
    /\ sslproto' = IF MaybeStarttls /\ ~MustStarttls THEN "" ELSE sslproto
    /\ auth' = IF auth = "any" /\ ~MustStarttls THEN "password" ELSE auth
    /\ Return(IF MustStarttls THEN r
              ELSE IF auth \in {"any", "password"} THEN "repoll" ELSE "authfail")

\* capa_probe of pop3.c and what pop3_getauth makes of its failure; one that
\* is neither a refusal nor a hangup is ignored.
Pop3Capa ==
    \E r \in CapaResults :
       /\ known' = IF r = "success" THEN offers ELSE {}
       /\ srv' = IF r = "socket" THEN [srv EXCEPT !.at = "gone"] ELSE srv
       /\ IF r # "success" /\ GivesUp(r) THEN Weaken(r) /\ UNCHANGED <<cfg, wehaveauthed>>
          ELSE pc' = "tls" /\ ok' = "authfail" /\ UNCHANGED ctlVars

\* pop3_getauth up to STLS: ssh is authentication enough, APOP and RPOP go
\* their own way, RPA is asked for with AUTH.
Pop3Start ==
    /\ pc = "start" /\ ~Imap
    /\ IF auth = "ssh" THEN Return("success") /\ UNCHANGED <<ctlVars, known, srv>>
       ELSE IF cfg.protocol \in {"APOP", "RPOP"}
       THEN pc' = "clear" /\ UNCHANGED <<ctlVars, ok, known, srv>>
       ELSE IF cfg.rpa
       THEN \/ Return("authfail") /\ UNCHANGED <<ctlVars, known, srv>>
            \/ /\ known' = offers /\ UNCHANGED <<ctlVars, srv, ok>>
               /\ pc' = IF "RPA" \in offers THEN "try" ELSE "done"
       ELSE IF NeedsCapa THEN Pop3Capa
       ELSE pc' = "tls" /\ UNCHANGED <<ctlVars, ok, known, srv>>
    /\ NoTag /\ UNCHANGED <<pollVars, connVars, i, k, tlsdoubt, preauth, wire, shown, strayed>>

\* STARTTLS or STLS and SSLOpen.  A failed handshake may leave the
\* connection dead or with octets of the handshake on it.
Upgrade(next) ==
    \/ /\ srv.at # "gone"
       /\ tls' = TRUE /\ offers' \in Offers /\ pc' = "reprobe"
       /\ UNCHANGED <<ok, tlsdoubt, wire, srv>>
    \/ /\ IF MustStarttls THEN Return("socket") ELSE pc' = next /\ UNCHANGED ok
       /\ tlsdoubt' = (~Imap /\ ~MustStarttls)
       /\ \/ UNCHANGED <<wire, srv>>
          \/ wire' = <<>> /\ srv' = [srv EXCEPT !.at = "gone"]
          \/ wire' = <<Line(0, "junk")>> /\ UNCHANGED srv
       /\ UNCHANGED <<tls, offers>>

\* TLS when it is offered or demanded; before it, for IMAP, the ways in that
\* need no authentication.
StartTls ==
    /\ pc = "tls" /\ wire = <<>>
    /\ IF Imap /\ (preauth \/ auth = "ssh")
         THEN /\ preauth' = FALSE /\ Return("success")
              /\ NoTag /\ UNCHANGED <<tls, offers, tlsdoubt, wire, srv>>
         ELSE IF MaybeStarttls /\ ("STARTTLS" \in known \/ MustStarttls)
         THEN GENSYM /\ Upgrade(IF Imap THEN "noop" ELSE "try") /\ UNCHANGED preauth
         ELSE pc' = "try" /\ NoTag /\ UNCHANGED <<ok, tls, offers, tlsdoubt, preauth, wire, srv>>
    /\ UNCHANGED <<ctlVars, pollVars, greeting, i, k, known, shown, strayed>>

\* capa_probe again, on the encrypted connection.
Reprobe ==
    /\ pc = "reprobe"
    /\ IF Imap THEN ImapCapa("try")
       ELSE /\ NoTag
            /\ \E r \in CapaResults :
                 /\ known' = IF r = "success" THEN offers ELSE {}
                 /\ IF r = "success" THEN pc' = "try" /\ UNCHANGED ok ELSE Return(r)
            /\ UNCHANGED <<wire, srv>>
    /\ UNCHANGED <<ctlVars, pollVars, connVars, i, k, tlsdoubt, preauth, shown, strayed>>

\* After a failed opportunistic upgrade imap_getauth tests the connection, and
\* without success has it polled again without TLS.
Noop ==
    /\ pc = "noop"
    /\ GENSYM
    /\ \/ srv.at # "gone" /\ pc' = "try" /\ UNCHANGED <<ok, sslproto>>
       \/ sslproto' = "" /\ Return("repoll")
    /\ wire' = <<>>
    /\ UNCHANGED <<cfg, auth, wehaveauthed, pollVars, connVars, i, k, known,
                   tlsdoubt, preauth, srv, shown, strayed>>

-----------------------------------------------------------------------------
(* The mechanisms *)

Asked(m) ==
    auth = CASE m = "EXTERNAL"    -> "external"
             [] m = "GSSAPI"      -> "gssapi"
             [] m = "KERBEROS_V4" -> "kerberos"
             [] m = "CRAM-MD5"    -> "cram"
             [] m = "X-OTP"       -> "otp"
             [] m = "NTLM"        -> "ntlm"
             [] OTHER             -> "msn"
Free == auth = "any"

check_gss_creds == cfg.creds

\* The conditions in front of the calls of the helpers; CRAM-MD5, and over
\* POP3 NTLM, are tried unannounced when the user asks for them.
Wanted(m) ==
    CASE m = "RPA"         -> TRUE
      [] m = "MSN"         -> Asked(m) \/ cfg.msn
      [] m = "CRAM-MD5" \/ (m = "NTLM" /\ ~Imap) -> Asked(m) \/ (Free /\ m \in known)
      [] m = "GSSAPI"      -> m \in known /\ (Asked(m) \/ (Free /\ check_gss_creds))
      [] m = "KERBEROS_V4" /\ ~Imap -> m \in known /\ cfg.service = "other" /\ (Asked(m) \/ Free)
      [] OTHER             -> m \in known /\ (Asked(m) \/ Free)

\* A step of a helper: what line it takes ("plus", any line with a "+"; "chal",
\* a challenge it can decode; "blank", nothing but "+"; "token", anything, as
\* GSSAPI takes bad data for none), what it does with another, and what may
\* happen when a library call fails or the contents of the challenge are wrong.
\* To give up, a helper returns ("quit"), sends "*" first ("star"), or sends
\* "*" and reads a line ("wait").
Step(takes, unfit, fails) == [takes |-> takes, unfit |-> unfit, fails |-> fails]

do_cram_md5 == <<Step("chal", "quit", {})>>
do_otp == <<Step("plus", "quit", {}), Step("chal", "quit", {"quit"})>>
ntlm_helper == <<Step("plus", "star", {}), Step("chal", "quit", {"star"})>>

\* The ticket for the first challenge; the second must be the first plus one.
KerberosTicket == Step("chal", "quit", {"quit"})
KerberosCheck  == Step("chal", "quit", {"quit"})
do_rfc1731 == <<KerberosTicket, KerberosCheck>>

\* The context, in which gss_init_sec_context may fail; then the security
\* flags, which may not unwrap or may not allow what fetchmail can do.
GssContext == <<Step("blank", "wait", {"wait"}), Step("token", "wait", {"wait"})>>
GssFlags   == Step("token", "quit", {"quit"})
do_gssauth == Append(GssContext, GssFlags)

\* Token 2 with version, challenge and realms, token 4 with status and the
\* service's own authentication; errors in them end the exchange.
RpaToken2 == Step("chal", "quit", {"quit"})
RpaToken4 == Step("chal", "quit", {"quit"})
POP3_auth_rpa == <<Step("plus", "quit", {}), RpaToken2, RpaToken4>>

Steps(m) ==
    CASE m = "CRAM-MD5"         -> do_cram_md5
      [] m = "KERBEROS_V4"      -> do_rfc1731
      [] m = "X-OTP"            -> do_otp
      [] m \in {"NTLM", "MSN"}  -> ntlm_helper
      [] m = "GSSAPI"           -> do_gssauth
      [] m = "RPA"              -> POP3_auth_rpa
      [] OTHER                  -> <<>>           \* do_authcert

Accepts(takes, l) ==
    CASE takes = "plus"  -> l.kind \in {"chal", "junk", "blank"} \/ (~Imap /\ l.kind = "ok")
      [] takes = "token" -> TRUE
      [] OTHER           -> l.kind = takes

\* getauth after a mechanism has failed with r: the next one if any will do.
Failed(m, r) ==
    IF m \in {"MSN", "RPA"} THEN Return("authfail")
    ELSE ok' = r /\ pc' = IF Free THEN "try" ELSE "done"

\* imap_getauth cancels the exchange that failed with a "*" under a new tag,
\* whose answer it does not read.
StarsAfter(m) == Imap /\ m \in {"EXTERNAL", "KERBEROS_V4", "X-OTP"}

Todo == {j \in (i + 1)..Len(Order) : Wanted(Order[j])}

\* gen_send of AUTHENTICATE or AUTH, with the identity for EXTERNAL.
TryMechanism ==
    /\ pc = "try" /\ Todo # {}
    /\ LET j == CHOOSE j \in Todo : \A n \in Todo : j <= n
       IN /\ i' = j
          /\ \/ /\ GENSYM /\ Send(OnAuth(Order[j]))
                /\ k' = 1 /\ pc' = IF Steps(Order[j]) = <<>> THEN "final" ELSE "exch"
                /\ UNCHANGED ok
             \/ /\ Order[j] = "GSSAPI"          \* import_name fails
                /\ Failed(Order[j], "authfail")
                /\ UNCHANGED <<k, tag, wire, srv>>
    /\ UNCHANGED <<ctlVars, pollVars, connVars, known, tlsdoubt, preauth, shown, strayed>>

\* One gen_recv of a helper and the response to it.
Exchange ==
    /\ pc = "exch"
    /\ LET m == Order[i]
           l == IF wire = <<>> THEN Line(0, "star") ELSE Head(wire)
           step == Steps(m)[k]
           fits == Accepts(step.takes, l)
       IN \/ /\ wire # <<>> /\ fits
             /\ NoTag /\ ReadAndSend(OnResponse)
             /\ k' = k + 1
             /\ IF k = Len(Steps(m)) THEN pc' = "final" /\ Show(m)
                ELSE UNCHANGED <<pc, shown>>
             /\ UNCHANGED <<ok, strayed>>
          \/ /\ wire # <<>>
             /\ \E way \in IF fits THEN step.fails ELSE {step.unfit} :
                  CASE way = "wait" ->
                           /\ NoTag /\ ReadAndSend(OnStar(0))
                           /\ pc' = "cancel" /\ UNCHANGED <<ok, strayed>>
                    [] way = "star" ->
                           /\ NoTag /\ ReadAndSend(OnStar(0))
                           /\ Failed(m, "authfail") /\ Stray("star")
                    [] way = "quit" /\ StarsAfter(m) ->
                           /\ GENSYM /\ ReadAndSend(OnStar(tag'))
                           /\ Failed(m, "authfail") /\ Stray("star")
                    [] OTHER ->
                           /\ NoTag /\ wire' = Tail(wire) /\ srv' = srv
                           /\ Failed(m, "authfail")
                           /\ IF srv.at = "sasl" THEN Stray("quit") ELSE UNCHANGED strayed
             /\ UNCHANGED <<k, shown>>
          \/ /\ NoTag /\ Lost /\ Failed(m, "socket")
             /\ UNCHANGED <<k, shown, strayed>>
    /\ UNCHANGED <<ctlVars, pollVars, connVars, i, known, tlsdoubt, preauth>>

\* do_gssauth does not wait for the answer to its "*".
Cancelled_Unread ==
    /\ pc = "cancel"
    /\ Failed("GSSAPI", "authfail")
    /\ UNCHANGED <<ctlVars, pollVars, connVars, i, k, tag, known, tlsdoubt,
                   preauth, wire, srv, shown, strayed>>

\* do_gssauth reads what answers its "*".
Cancelled ==
    /\ pc = "cancel"
    /\ \/ wire # <<>> /\ wire' = Tail(wire) /\ UNCHANGED srv /\ Failed("GSSAPI", "authfail")
       \/ Lost /\ Failed("GSSAPI", "socket")
    /\ UNCHANGED <<ctlVars, pollVars, connVars, i, k, tag, known, tlsdoubt,
                   preauth, shown, strayed>>

\* Has do_ntlm take any answer for success.
Verdict_AnyLine(m, l) ==
    CASE m \in {"X-OTP", "NTLM", "MSN"} -> {"success"}
      [] m = "RPA"              -> {IF Accepts("plus", l) THEN "success" ELSE "authfail"}
      [] m = "GSSAPI"           -> {StatusOf(l), "authfail"}
      [] OTHER                  -> {StatusOf(l)}

\* Verdict of the helper on the answer l to its last response.  do_otp takes
\* any line for success, do_pop3_ntlm looks for OK, RPA for "+", GSSAPI may
\* fail to release its context.
Verdict(m, l) ==
    CASE m = "X-OTP"            -> {"success"}
      [] m \in {"NTLM", "MSN"}  -> {IF l.kind = "ok" THEN "success" ELSE "authfail"}
      [] m = "RPA"              -> {IF Accepts("plus", l) THEN "success" ELSE "authfail"}
      [] m = "GSSAPI"           -> {StatusOf(l), "authfail"}
      [] OTHER                  -> {StatusOf(l)}

Final ==
    /\ pc = "final" /\ i <= Len(Order)
    /\ LET m == Order[i]
           read == IF ReadsRaw(m) THEN wire # <<>> ELSE Answers # {}
       IN \/ /\ read
             /\ LET l == IF ReadsRaw(m) THEN Head(wire) ELSE Answer
                    rest == IF ReadsRaw(m) THEN Tail(wire) ELSE Rest
                IN \E v \in Verdict(m, l) :
                     IF v = "success" THEN
                       /\ Return(v) /\ wire' = rest /\ NoTag /\ UNCHANGED <<srv, strayed>>
                     ELSE /\ Failed(m, v)
                          /\ IF StarsAfter(m)
                             THEN GENSYM /\ Stray("star") /\ SendAfter(rest, OnStar(tag'))
                             ELSE /\ wire' = rest /\ NoTag /\ UNCHANGED <<srv, strayed>>
          \/ Lost /\ NoTag /\ Failed(m, "socket") /\ UNCHANGED strayed
    /\ UNCHANGED <<ctlVars, pollVars, connVars, i, k, known, tlsdoubt, preauth, shown>>

-----------------------------------------------------------------------------
(* The password *)

\* Sent whatever the user asked for.
MayShowPassword_Always == TRUE

MayShowPassword == Free \/ auth = "password"

\* What follows the mechanisms: LOGIN, or USER; APOP and RPOP start here.
\* The digest of APOP needs a timestamp in the greeting that is a msg-id.
Clear ==
    /\ (pc = "try" /\ Todo = {}) \/ pc = "clear"
    /\ i' = Len(Order) + 1
    /\ CASE Imap ->
              IF auth = "password" \/ (Free /\ "LOGINDISABLED" \notin known)
              THEN /\ GENSYM /\ Send(OnCommand("authed")) /\ Show("password")
                   /\ pc' = "final" /\ UNCHANGED ok
              ELSE pc' = "done" /\ NoTag /\ UNCHANGED <<ok, wire, srv, shown>>
         [] cfg.protocol = "APOP" ->
              IF greeting = "badstamp"
              THEN Return("authfail") /\ NoTag /\ UNCHANGED <<wire, srv, shown>>
              ELSE /\ NoTag /\ Send(OnCommand("authed")) /\ Show("APOP")
                   /\ pc' = "final" /\ UNCHANGED ok
         [] OTHER -> NoTag /\ Send(OnCommand("cmd")) /\ pc' = "user" /\ UNCHANGED <<ok, shown>>
    /\ UNCHANGED <<ctlVars, pollVars, connVars, k, known, tlsdoubt, preauth, strayed>>

\* The answer to USER, and PASS: an OTP response if the answer held an OTP
\* challenge, a fixed word for KPOP, the password if it may be shown.
Pass ==
    /\ pc = "user" /\ NoTag
    /\ \/ /\ wire # <<>>
          /\ IF StatusOf(Head(wire)) # "success"
             THEN Return(StatusOf(Head(wire))) /\ wire' = Tail(wire) /\ UNCHANGED <<srv, shown>>
             ELSE \/ \E what \in {"otp"} \cup
                          IF cfg.protocol = "RPOP" THEN {"password"}
                          ELSE IF auth \in {"any", "kerberos"} /\ cfg.service = "kpop" THEN {"ticket"}
                          ELSE IF MayShowPassword THEN {"password"} ELSE {} :
                       /\ cfg.protocol = "POP3" \/ what # "otp"
                       /\ ReadAndSend(OnCommand("authed")) /\ Show(what)
                       /\ pc' = "final" /\ UNCHANGED ok
                  \/ /\ cfg.protocol = "POP3"
                     /\ \/ Return("error")                  \* opiegenerator fails
                        \/ ~MayShowPassword /\ Return("authfail")
                     /\ wire' = Tail(wire) /\ UNCHANGED <<srv, shown>>
       \/ Lost /\ Return("socket") /\ UNCHANGED shown
    /\ UNCHANGED <<ctlVars, pollVars, connVars, i, k, known, tlsdoubt, preauth, strayed>>

\* The answer to LOGIN, PASS, APOP or RPOP.
LastAnswer ==
    /\ pc = "final" /\ i > Len(Order)
    /\ \/ Answers # {} /\ Return(StatusOf(Answer)) /\ wire' = Rest /\ UNCHANGED srv
       \/ Lost /\ Return("socket")
    /\ UNCHANGED <<ctlVars, pollVars, connVars, i, k, tag, known, tlsdoubt,
                   preauth, shown, strayed>>

\* getauth returns to do_session.  After a failed STLS an error of the
\* connection is laid to it, and POP3 is polled again without TLS.
Blamed == tlsdoubt /\ ok \in {"socket", "protocol"}
SessionEnds ==
    /\ pc \in {"done", "closed"}
    /\ LET repoll == ok = "repoll" \/ Blamed
       IN /\ sslproto' = IF Blamed THEN "" ELSE sslproto
          /\ repolls' = IF repoll THEN repolls + 1 ELSE 0
          /\ polls' = IF repoll THEN polls ELSE polls + 1
    /\ wehaveauthed' = (wehaveauthed \/ ok = "success")
    /\ pc' = "idle"
    /\ UNCHANGED <<cfg, auth, connVars, ok, i, k, tag, known, tlsdoubt, preauth,
                   wire, srv, shown, strayed>>

\* The server hangs up while the client waits for it; what it has sent may
\* still arrive.
HangUp ==
    /\ pc \in {"exch", "cancel", "final", "user"} /\ srv.at # "gone"
    /\ srv' = [srv EXCEPT !.at = "gone"] /\ wire' \in {wire, <<>>}
    /\ UNCHANGED <<ctlVars, pollVars, connVars, pc, ok, i, k, tag, known, tlsdoubt,
                   preauth, shown, strayed>>

Init ==
    /\ cfg \in Configs /\ auth = cfg.auth /\ sslproto = cfg.sslproto
    /\ wehaveauthed = FALSE /\ preauth = FALSE /\ polls = 0 /\ repolls = 0
    /\ pc = "idle" /\ ok = "none" /\ i = 0 /\ k = 0 /\ tag = 0 /\ known = {}
    /\ tlsdoubt = FALSE /\ tls = FALSE /\ wire = <<>> /\ srv = Idle
    /\ offers = {} /\ greeting = "ok" /\ shown = {} /\ strayed = {}

Client == \/ Connect \/ ImapStart \/ Pop3Start \/ StartTls \/ Reprobe \/ Noop
          \/ TryMechanism \/ Exchange \/ Cancelled \/ Final
          \/ Clear \/ Pass \/ LastAnswer \/ TimeOut \/ SessionEnds
Next == Client \/ HangUp

Spec == Init /\ [][Next]_vars
\* Answers and the alarm keep a session moving; no server has to hang up.
FairSpec == Spec /\ WF_vars(Client)

-----------------------------------------------------------------------------
(* Properties *)

\* Commands of a session: two probes, STARTTLS, NOOP, six mechanisms and
\* three cancellations, LOGIN.
MaxTag == 14

TypeOK ==
    /\ cfg \in Configs /\ auth \in Auths /\ sslproto \in {"unset", "", "auto", "tls1"}
    /\ i \in 0..7 /\ k \in 0..4 /\ tag \in 0..MaxTag
    /\ Len(wire) <= 4 /\ srv.left \in 0..3
    /\ known \subseteq (Mechs \cup {"STARTTLS", "LOGINDISABLED"})

\* Between two mechanisms nothing is left to read and the server waits for a
\* command, so that the next one is read as a command: a refusal, at whatever
\* step of whatever exchange, ends it for both sides.  Excepted are sessions in
\* which a helper returned in the middle of an exchange, or sent a "*" whose
\* answer it did not read (imap.c:523, 556, 589; ntlmsubr.c:112).
InStep ==
    pc = "try" /\ strayed = {} /\ ~tlsdoubt => wire = <<>> /\ srv.at # "sasl"

\* When getauth succeeds the server has authorized this session, if it was not
\* do_otp (opie.c:78 looks at no answer), a preauthorized or an ssh connection.
Agreed ==
    pc = "done" /\ ok = "success" /\ auth # "ssh" =>
       \/ srv.at \in {"authed", "gone"}
       \/ i \in 1..Len(Order) /\ Order[i] = "X-OTP"
       \/ Imap /\ i = 0

\* Client and server have the same idea of the dialogue, from the first
\* command to the outcome: no answer is taken for another command's, and what
\* getauth calls a success the server does too.
SidesAgree == InStep /\ Agreed

\* The password goes out only if the user asked for it or left the choice, in
\* whatever way failures have changed auth and sslproto meanwhile.  And where
\* must_starttls holds of the account as configured (certck, a fingerprint or
\* sslproto tls1), over IMAP and POP3 neither it nor what is computed from it
\* goes out before TLS, but for the RPA response, which POP3 sends before STLS.
PasswordGuarded ==
    \A s \in shown :
       /\ s.what = "password" =>
             cfg.auth \in {"any", "password"} \/ cfg.protocol = "RPOP"
       /\ cfg.protocol \in {"IMAP", "POP3"} /\ ~cfg.use_ssl
          /\ (cfg.sslproto = "tls1" \/ (cfg.sslproto # "" /\ cfg.certck))
             => s.tls \/ s.what = "RPA"

\* What fetchmail.man:496-528 says of sslproto: every word but '' enforces TLS,
\* and so does sslcertck (fetchmail.man:533).
\* The code does not satisfy this: LoginDisagree.cfg and README.md, "Known
\* disagreements".
TlsEnforced ==
    cfg.protocol \in {"IMAP", "POP3"} /\ ~cfg.use_ssl /\ cfg.sslproto # ""
    /\ (cfg.sslproto # "unset" \/ cfg.certck) => \A s \in shown : s.tls

\* A failure is answered by an immediate repoll only if that gives something
\* up, so there are at most two in a row.
RepollsEnd == repolls <= 2

\* Once the account has been authorized, a connection that is lost no longer
\* changes how it authenticates: only a server that refuses CAPA does.
AuthKept ==
    [][wehaveauthed /\ auth' # auth => srv'.at # "gone"]_vars

\* A poll comes to its end: no exchange in which both sides wait, and no
\* repetition of repolls, goes on for ever.
EachPollEnds == [](pc # "idle" => <>(pc = "idle" /\ repolls = 0))

\* A session counts as preauthorized only if its own greeting said so
\* ("reset for the next session", imap.c:430).
\* The code does not satisfy this: LoginDisagree.cfg and README.md, "Known disagreements".
PreauthIsFresh == preauth /\ pc = "tls" => greeting = "preauth"
=============================================================================
