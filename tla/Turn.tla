-------------------------------- MODULE Turn --------------------------------
(***************************************************************************)
(* ETRN (etrn.c) and ODMR (odmr.c): the server is asked to send the mail   *)
(* it queues for some domains.  With ETRN that is all.  With ODMR the      *)
(* connection turns round: the server becomes the SMTP client of the local *)
(* listener, and fetchmail a pipe between them.  SMTP_ehlo (smtp.c) may    *)
(* log in with ESMTP AUTH first.                                           *)
(*                                                                         *)
(* The server and the listener are external.  Of their dialogue the model  *)
(* keeps two lines per message, its data and its end, and the answer to    *)
(* the end; both sides may close at any time.  The server's queue survives *)
(* a session and the next one sends what is left of it.                    *)
(***************************************************************************)
EXTENDS Integers, FiniteSets, SequencesExt

CONSTANTS Msgs,        \* the messages that may arrive in the queue
          Domains,     \* how many domains the configuration names
          Capacity,    \* how many names the buffer for ATRN takes
          Configs,     \* configurations: see TypeOK
          ReplyLines,  \* the numbers of lines a reply to AUTH may have
          MaxSessions, \* bound: sessions
          MaxFaults    \* bound: connections lost

ASSUME TurnAssumption ==
  /\ Domains \in Nat \ {0} /\ Capacity \in Nat \ {0}
  /\ MaxSessions \in Nat /\ MaxFaults \in Nat /\ ReplyLines \subseteq Nat \ {0}

VARIABLES pc, config, sessions, faults,
          auth,      \* ESMTP AUTH: the method, how far it is, ETRN or ATRN offered
          sasl,      \* whether the server waits for the rest of an AUTH exchange
          unread,    \* lines of the server's replies that were not read
          asked,     \* the domains named in this session, in order
          answers,   \* the server's answers to ETRN
          status,    \* what doETRN or doODMR returned last
          smtp,      \* smtp_socket: "none", "open", "closed"
          queue,     \* the server's queue
          fate,      \* what the listener said of each message
          copies,    \* how often it took it
          current,   \* the server's message under way, and how far it is
          fromServer, decoded, fromListener, toServer, toListener,
          held,      \* messages whose data the listener has
          heard,     \* the lines the listener got in this session
          said,      \* the lines the server sent in this session
          gone       \* the sides that have closed

vars == <<pc, config, sessions, faults, auth, sasl, unread, asked, answers, status, smtp, queue,
          fate, copies, current, fromServer, decoded, fromListener, toServer,
          toListener, held, heard, said, gone>>

smtpAuth == <<auth, sasl, unread>>

asking == <<smtpAuth, asked, answers>>

store == <<queue, fate, copies>>

wires == <<fromServer, decoded, fromListener, toServer, toListener>>

peers == <<current, held, heard, said, gone>>

NoConfig == [proto |-> "none", bad |-> FALSE, ssl |-> FALSE, login |-> FALSE]

NoAuth == [method |-> "none", at |-> "start", offered |-> FALSE]

Idle == [m |-> 0, at |-> "idle"]

NoWires ==
  /\ fromServer = <<>> /\ decoded = <<>> /\ fromListener = <<>>
  /\ toServer = <<>> /\ toListener = <<>>

Init ==
  /\ pc = "idle" /\ config = NoConfig /\ sessions = 0 /\ faults = 0
  /\ auth = NoAuth /\ sasl = FALSE /\ unread = 0
  /\ asked = <<>> /\ answers = <<>> /\ status = "none" /\ smtp = "none"
  /\ queue = {} /\ fate = [m \in Msgs |-> "waiting"] /\ copies = [m \in Msgs |-> 0]
  /\ current = Idle /\ held = {} /\ heard = <<>> /\ said = <<>> /\ gone = {}
  /\ NoWires

(***************************************************************************)
(* Asking                                                                  *)
(***************************************************************************)

QueueArrival(m) ==
  /\ m \notin queue /\ fate[m] = "waiting"
  /\ queue' = queue \cup {m}
  /\ UNCHANGED <<pc, config, sessions, faults, asking, status, smtp, fate, copies,
                 wires, peers>>

(* doETRN and doODMR refuse the options that make no sense with them. *)
Start(c) ==
  /\ pc = "idle"
  /\ sessions < MaxSessions
  /\ sessions' = sessions + 1
  /\ config' = c
  /\ IF c.bad THEN pc' = "idle" /\ status' = "syntax"
     ELSE pc' = "ehlo" /\ status' = "none"
  /\ asked' = <<>> /\ answers' = <<>>
  /\ auth' = NoAuth /\ sasl' = FALSE /\ unread' = 0
  /\ current' = Idle /\ held' = {} /\ heard' = <<>> /\ said' = <<>> /\ gone' = {}
  /\ fromServer' = <<>> /\ decoded' = <<>> /\ fromListener' = <<>>
  /\ toServer' = <<>> /\ toListener' = <<>>
  /\ UNCHANGED <<faults, smtp, store>>

(* The driver's end of a session: no mail is a success here.  smtp_close    *)
(* closes the listener's descriptor, a second time after a turn.            *)
Finish(st) ==
  /\ pc' = "idle"
  /\ status' = IF st = "nomail" THEN "success" ELSE st
  /\ smtp' = "none"
  /\ UNCHANGED <<config, sessions>>

Methods == {"CRAM-MD5", "PLAIN", "LOGIN"}

(* The method SMTP_auth takes of those the server lists. *)
Chosen(S) ==
  CASE "CRAM-MD5" \in S -> "CRAM-MD5" [] "CRAM-MD5" \notin S /\ "PLAIN" \in S -> "PLAIN"
    [] S = {"LOGIN"} -> "LOGIN" [] OTHER -> "none"

(* After SMTP_ehlo the driver looks for the extension, whatever became of   *)
(* the login.                                                               *)
Greeted(offered) ==
  IF offered THEN /\ pc' = IF config.proto = "etrn" THEN "etrn" ELSE "cram"
                  /\ UNCHANGED <<status, smtp, config, sessions>>
  ELSE Finish("protocol")

(* SMTP_ehlo: the extensions the server lists, then the login. *)
Ehlo(offered, S) ==
  /\ pc = "ehlo"
  /\ IF config.login /\ Chosen(S) # "none"
     THEN /\ pc' = "auth" /\ UNCHANGED <<status, smtp, config, sessions>>
          /\ auth' = [method |-> Chosen(S), at |-> "start", offered |-> offered]
     ELSE Greeted(offered) /\ UNCHANGED auth
  /\ UNCHANGED <<faults, sasl, unread, asked, answers, store, wires, peers>>

(* No answer in time, or one that is an error. *)
EhloFails ==
  /\ pc = "ehlo"
  /\ Finish("failed")
  /\ UNCHANGED <<faults, asking, store, wires, peers>>

(* SMTP_auth reads one line of a reply, SMTP_ok reads a whole one. *)
ReadLine(k) == unread' = unread + k - 1
ReadReply == UNCHANGED unread

AuthAt(at) == [method |-> auth.method, at |-> at, offered |-> auth.offered]

AuthGoes(at) ==
  /\ auth' = AuthAt(at)
  /\ UNCHANGED <<pc, status, smtp, config, sessions>>
AuthOver == Greeted(auth.offered) /\ UNCHANGED auth

authKeeps == <<faults, asked, answers, store, wires, peers>>

(* The AUTH command.  The server may send a challenge, one that cannot be   *)
(* decoded, or a final reply.                                               *)
AuthCommand(reply, k) ==
  /\ pc = "auth" /\ auth.at = "start"
  /\ IF auth.method = "PLAIN"
     THEN reply = "final" /\ sasl' = FALSE /\ ReadReply /\ AuthOver
     ELSE /\ reply \in {"challenge", "garbled", "final"}
          /\ sasl' = (reply # "final")
          /\ ReadLine(k)
          /\ AuthGoes(IF reply = "challenge" THEN "answer" ELSE "cancel")
  /\ UNCHANGED authKeeps

(* The digest of CRAM-MD5, or the user's name; a final reply to the name    *)
(* may happen to decode.                                                    *)
AuthAnswer(reply, k) ==
  /\ pc = "auth" /\ auth.at = "answer"
  /\ IF auth.method = "CRAM-MD5"
     THEN reply = "final" /\ sasl' = FALSE /\ ReadReply /\ AuthOver
     ELSE /\ sasl' = (reply \in {"challenge", "garbled"})
          /\ ReadLine(k)
          /\ AuthGoes(IF reply \in {"challenge", "decodes"} THEN "password" ELSE "cancel")
  /\ UNCHANGED authKeeps

AuthPassword ==
  /\ pc = "auth" /\ auth.at = "password"
  /\ sasl' = FALSE /\ ReadReply /\ AuthOver
  /\ UNCHANGED authKeeps

(* Only the last reply is waited for with an alarm (SMTP_ok): SMTP_auth's   *)
(* own reads have none.  What SMTP_ok returns is not looked at, so that a   *)
(* reply that comes too late is left for the next command.                  *)
LastReply ==
  {<<"PLAIN", "start">>, <<"CRAM-MD5", "answer">>, <<"LOGIN", "password">>}

AuthLate ==
  /\ pc = "auth" /\ <<auth.method, auth.at>> \in LastReply
  /\ sasl' = FALSE /\ unread' = unread + 1
  /\ auth' = AuthAt("late")
  /\ Greeted(auth.offered)
  /\ UNCHANGED authKeeps

AuthError_Silent(k) == UNCHANGED <<sasl, unread>>

(* SMTP_auth_error: an asterisk, which ends the exchange or is an unknown   *)
(* command, and one line of the reply.                                      *)
AuthError(k) == sasl' = FALSE /\ ReadLine(k)

AuthCancel(k) ==
  /\ pc = "auth" /\ auth.at = "cancel"
  /\ AuthError(k) /\ AuthOver
  /\ UNCHANGED authKeeps

(* The answers to ETRN; 250, 252 and 253 go on with the next domain. *)
Started == {250, 252, 253}

EtrnResult_DeniedIsEmpty(code) ==
  CASE code \in Started -> "next" [] code \in {251, 459} -> "nomail"
    [] OTHER -> "protocol"

EtrnResult(code) ==
  CASE code \in Started -> "next" [] code = 251 -> "nomail"
    [] code = 459 -> "authfail" [] OTHER -> "protocol"

EtrnCodes == {250, 251, 253, 458, 459, 501}

(* One domain: asked for, and the answer read. *)
Etrn(code) ==
  /\ pc = "etrn"
  /\ Len(asked) < Domains
  /\ asked' = Append(asked, Len(asked) + 1)
  /\ answers' = Append(answers, code)
  /\ IF EtrnResult(code) = "next" THEN UNCHANGED <<pc, status, smtp, config, sessions>>
     ELSE Finish(EtrnResult(code))
  /\ UNCHANGED <<faults, smtpAuth, store, wires, peers>>

EtrnDone ==
  /\ pc = "etrn"
  /\ Len(asked) = Domains
  /\ Finish("success")
  /\ UNCHANGED <<faults, asking, store, wires, peers>>

(* The server does not answer gen_recv: the alarm ends the session. *)
NoAnswer ==
  /\ pc \in {"etrn", "cram", "atrn"}
  /\ Finish("socket")
  /\ UNCHANGED <<faults, asking, store, wires, peers>>

Cram(ok) ==
  /\ pc = "cram"
  /\ IF ok THEN pc' = "atrn" /\ UNCHANGED <<status, smtp, config, sessions>>
     ELSE Finish("authfail")
  /\ UNCHANGED <<faults, asking, store, wires, peers>>

Fitting_All == Domains

(* The domains go into one buffer; those that do not fit are left out.      *)
Fitting == IF Domains < Capacity THEN Domains ELSE Capacity

AtrnResult(code) ==
  CASE code = 250 -> "turn" [] code = 451 -> "exclude" [] code = 453 -> "nomail"
    [] code = 530 -> "authfail" [] OTHER -> "protocol"

AtrnCodes == {250, 450, 451, 453, 530}

(* After 250 the listener is opened; without one the session ends. *)
Atrn(code, listening) ==
  /\ pc = "atrn"
  /\ code # 250 => listening
  /\ asked' = [i \in 1..Fitting |-> i]
  /\ CASE code # 250 -> Finish(AtrnResult(code))
       [] code = 250 /\ ~listening -> Finish("socket")
       [] OTHER -> pc' = "pipe" /\ smtp' = "open"
                     /\ UNCHANGED <<status, config, sessions>>
  /\ UNCHANGED <<faults, smtpAuth, answers, store, wires, peers>>

(***************************************************************************)
(* The server and the listener (external)                                  *)
(***************************************************************************)

Up(side) == pc = "pipe" /\ side \notin gone

(* The server sends the data and the end of a message, in one record or in  *)
(* two.                                                                     *)
ServerSends(m, whole) ==
  /\ Up("server")
  /\ \/ /\ current.at = "idle"
        /\ m \in queue
        /\ current' = [m |-> m, at |-> IF whole THEN "sent" ELSE "half"]
        /\ LET r == IF whole THEN <<<<m, "data">>, <<m, "end">>>> ELSE <<<<m, "data">>>>
           IN  fromServer' = Append(fromServer, r) /\ said' = said \o r
     \/ /\ current = [m |-> m, at |-> "half"]
        /\ whole
        /\ current' = [current EXCEPT !.at = "sent"]
        /\ fromServer' = Append(fromServer, <<<<m, "end">>>>)
        /\ said' = Append(said, <<m, "end">>)
  /\ UNCHANGED <<pc, config, sessions, faults, asking, status, smtp, store, decoded,
                 fromListener, toServer, toListener, held, heard, gone>>

(* An answer other than a deferral ends the server's duty. *)
ServerHears ==
  /\ Up("server")
  /\ toServer # <<>>
  /\ LET a == toServer[1]
     IN  /\ queue' = IF a[2] = "defer" THEN queue ELSE queue \ {a[1]}
         /\ current' = [m |-> 0, at |-> IF a[2] = "defer" THEN "over" ELSE "idle"]
  /\ toServer' = Tail(toServer)
  /\ UNCHANGED <<pc, config, sessions, faults, asking, status, smtp, fate, copies,
                 fromServer, decoded, fromListener, toListener, held, heard, said, gone>>

(* The server has nothing more to send, or gives up after a deferral. *)
ServerQuits ==
  /\ Up("server")
  /\ \/ current.at = "over"
     \/ current.at = "idle" /\ queue = {}
  /\ gone' = gone \cup {"server"}
  /\ UNCHANGED <<pc, config, sessions, faults, asking, status, smtp, store, wires,
                 current, held, heard, said>>

(* The listener gets the data of a message, and answers its end. *)
ListenerReads(kind) ==
  /\ Up("listener")
  /\ toListener # <<>>
  /\ toListener[1][2] = kind
  /\ heard' = Append(heard, toListener[1])
  /\ toListener' = Tail(toListener)
  /\ UNCHANGED <<pc, config, sessions, faults, asking, status, smtp, queue, fromServer,
                 decoded, toServer, current, said, gone>>

ListenerData ==
  /\ ListenerReads("data")
  /\ held' = held \cup {toListener[1][1]}
  /\ UNCHANGED <<fate, copies, fromListener>>

ListenerEnd(f) ==
  /\ ListenerReads("end")
  /\ LET m == toListener[1][1]
     IN  /\ m \in held
         /\ held' = held \ {m}
         /\ fate' = IF f = "defer" \/ fate[m] = "accepted" THEN fate
                    ELSE [fate EXCEPT ![m] = f]
         /\ copies' = IF f = "accepted" THEN [copies EXCEPT ![m] = @ + 1] ELSE copies
         /\ fromListener' = Append(fromListener, <<m, f>>)

Lose(side) ==
  /\ Up(side)
  /\ faults < MaxFaults
  /\ faults' = faults + 1
  /\ gone' = gone \cup {side}
  /\ UNCHANGED <<pc, config, sessions, asking, status, smtp, store, wires, current,
                 held, heard, said>>

(***************************************************************************)
(* The pipe                                                                *)
(***************************************************************************)

(* What select reports: something in the socket, or its end.  What the TLS  *)
(* library has read and not handed out is not in the socket.                *)
Readable(wire, side) == wire # <<>> \/ side \in gone

(* What SockRead takes its line from. *)
Pending ==
  CASE decoded # <<>> -> decoded
    [] decoded = <<>> /\ fromServer # <<>> -> Head(fromServer)
    [] OTHER -> <<>>

Forward_Last(lines) == Last(lines)

(* SockRead gives the first line. *)
Forward(lines) == Head(lines)

Reaches(side, wire, line) == IF side \in gone THEN wire ELSE Append(wire, line)

Deliver_Swapped(from, line) ==
  IF from = "listener"
  THEN toListener' = Reaches("listener", toListener, line) /\ UNCHANGED toServer
  ELSE toServer' = Reaches("server", toServer, line) /\ UNCHANGED toListener

(* SockWrite to the other side; its failure is not looked at. *)
Deliver(from, line) ==
  IF from = "server"
  THEN toListener' = Reaches("listener", toListener, line) /\ UNCHANGED toServer
  ELSE toServer' = Reaches("server", toServer, line) /\ UNCHANGED toListener

Buffered_Always(ssl) == TRUE

(* Whether the rest of what has arrived leaves the socket with the line.    *)
Buffered(ssl) == ssl

(* A line from the server goes to the listener, *)
PipeServer ==
  /\ pc = "pipe"
  /\ Readable(fromServer, "server")
  /\ Pending # <<>>
  /\ Deliver("server", Forward(Pending))
  /\ LET left == Tail(Pending)
         later == IF decoded # <<>> THEN fromServer ELSE Tail(fromServer)
     IN  IF Buffered(config.ssl)
         THEN decoded' = left /\ fromServer' = later
         ELSE /\ UNCHANGED decoded
              /\ fromServer' = (IF left = <<>> THEN <<>> ELSE <<left>>) \o later
  /\ UNCHANGED <<pc, config, sessions, faults, asking, status, smtp, store, fromListener,
                 peers>>

(* and one from the listener to the server. *)
PipeListener ==
  /\ pc = "pipe"
  /\ Readable(fromListener, "listener")
  /\ fromListener # <<>>
  /\ Deliver("listener", Forward(fromListener))
  /\ fromListener' = Tail(fromListener)
  /\ UNCHANGED <<pc, config, sessions, faults, asking, status, smtp, store, fromServer,
                 decoded, peers>>

PipeOver_Timeout == fromServer = <<>> /\ fromListener = <<>>

PipeOver_Both == gone = {"server", "listener"}

(* A side has closed and all it sent is read. *)
PipeOver ==
  \/ "server" \in gone /\ Pending = <<>>
  \/ "listener" \in gone /\ fromListener = <<>>

(* The loop ends; the listener's descriptor is closed, its number stays in  *)
(* smtp_socket, and odmr_logout sends nothing.                              *)
PipeEnds ==
  /\ pc = "pipe"
  /\ PipeOver
  /\ pc' = "logout"
  /\ smtp' = "closed"
  /\ UNCHANGED <<config, sessions, faults, asking, status, store, wires, peers>>

(* select itself fails. *)
SelectFails ==
  /\ pc = "pipe"
  /\ faults < MaxFaults
  /\ faults' = faults + 1
  /\ Finish("protocol")
  /\ UNCHANGED <<asking, store, wires, peers>>

Logout ==
  /\ pc = "logout"
  /\ Finish("success")
  /\ UNCHANGED <<faults, asking, store, wires, peers>>

Next ==
  \/ \E m \in Msgs : QueueArrival(m)
  \/ \E c \in Configs : Start(c)
  \/ \E offered \in BOOLEAN, S \in SUBSET Methods : Ehlo(offered, S)
  \/ EhloFails
  \/ \E reply \in {"challenge", "garbled", "final"}, k \in ReplyLines : AuthCommand(reply, k)
  \/ \E reply \in {"challenge", "garbled", "final", "decodes"}, k \in ReplyLines :
       AuthAnswer(reply, k)
  \/ AuthPassword \/ AuthLate
  \/ \E k \in ReplyLines : AuthCancel(k)
  \/ \E code \in EtrnCodes : Etrn(code)
  \/ EtrnDone \/ NoAnswer
  \/ \E ok \in BOOLEAN : Cram(ok)
  \/ \E code \in AtrnCodes, ok \in BOOLEAN : Atrn(code, ok)
  \/ \E m \in Msgs, whole \in BOOLEAN : ServerSends(m, whole)
  \/ ServerHears \/ ServerQuits
  \/ ListenerData
  \/ \E f \in {"accepted", "refused", "defer"} : ListenerEnd(f)
  \/ \E side \in {"server", "listener"} : Lose(side)
  \/ PipeServer \/ PipeListener \/ PipeEnds \/ SelectFails \/ Logout

Spec == Init /\ [][Next]_vars

(* fetchmail's loop runs; a server and a listener that are up go on too.    *)
FairSpec ==
  /\ Spec
  /\ WF_vars(PipeServer) /\ WF_vars(PipeListener) /\ WF_vars(PipeEnds)
  /\ WF_vars(ListenerData)
  /\ WF_vars(\E f \in {"accepted", "refused", "defer"} : ListenerEnd(f))
  /\ WF_vars(ServerHears) /\ WF_vars(ServerQuits)
  /\ WF_vars(\E m \in Msgs : ServerSends(m, TRUE))

(***************************************************************************)
(* Properties                                                              *)
(***************************************************************************)

TypeOK ==
  /\ pc \in {"idle", "ehlo", "auth", "etrn", "cram", "atrn", "pipe", "logout"}
  /\ auth.method \in Methods \cup {"none"} /\ sasl \in BOOLEAN /\ unread \in Nat
  /\ config \in Configs \cup {NoConfig}
  /\ status \in {"none", "syntax", "success", "protocol", "failed", "socket", "authfail",
                 "exclude"}
  /\ smtp \in {"none", "open", "closed"}
  /\ queue \subseteq Msgs /\ held \subseteq Msgs
  /\ copies \in [Msgs -> 0..(MaxSessions)]
  /\ gone \subseteq {"server", "listener"}
  /\ Len(asked) <= Domains
  /\ config.proto = "odmr" => Len(asked) <= Capacity
  /\ smtp = "open" <=> pc = "pipe"

(* Whichever way the login went, the server is back to commands and all its  *)
(* replies are read when fetchmail goes on: the answer to the next command  *)
(* is not taken for another's.  This needs a server whose replies to AUTH   *)
(* have one line, and whose last one comes before the alarm.                *)
InStep ==
  pc \in {"etrn", "cram", "atrn"} /\ auth.at # "late" => ~sasl /\ unread = 0

(* The listener hears what the server says, line by line: what it got and   *)
(* what is still under way are the server's lines, in their order, with     *)
(* none left out as long as the listener is there.                          *)
PipeFaithful ==
  pc = "pipe" =>
    LET underway == toListener \o decoded \o FlattenSeq(fromServer)
    IN  IF "listener" \in gone THEN IsPrefix(heard, said)
        ELSE heard \o underway = said

(* A message is taken a second time only after a connection was lost in     *)
(* between: without faults every answer of the listener reaches the server. *)
CopiesNeedFaults == \A m \in Msgs : copies[m] <= 1 + faults

(* A session that ended well has asked for every domain, up to the one the  *)
(* server said there is no mail for; with ODMR, for all that fit.           *)
AllAsked ==
  pc = "idle" /\ status = "success" =>
    /\ asked = [i \in 1..Len(asked) |-> i]
    /\ config.proto = "etrn" /\ Len(asked) < Domains => Last(answers) = 251
    /\ \A i \in 1..(Len(answers) - 1) : answers[i] \in Started
    /\ config.proto = "odmr" => Len(asked) = Fitting

(* The server's queue is a mailbox like any other: a message leaves it only *)
(* after the listener took it or refused it for good.                       *)
MT == INSTANCE MailTransfer WITH box <- queue, ids <- {}, Oversized <- {}

Transfer == MT!Spec

(* The pipe comes to an end once a side has closed. *)
PipeStops == (pc = "pipe" /\ gone # {}) ~> (pc # "pipe")

(* Without TLS everything the server says reaches the listener, or the      *)
(* session ends: no line waits in fetchmail while both sides wait for it.   *)
NothingStuck ==
  (pc = "pipe" /\ ~config.ssl /\ current.at = "sent") ~> (pc # "pipe" \/ current.at # "sent")

(* The pipe between server and listener never stalls: lines go through, and *)
(* when a side has closed it ends (the select loop of odmr_getrange).       *)
PipeMoves == PipeStops /\ NothingStuck
=============================================================================
