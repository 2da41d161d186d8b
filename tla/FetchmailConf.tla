---------------------------- MODULE FetchmailConf ----------------------------
(***************************************************************************)
(* What is done with a loaded configuration besides polling: --version     *)
(* reports it (dump_params), and fetchmailconf has it dumped as a Python   *)
(* dictionary (conf.c), copies the dictionary into its objects and writes  *)
(* a run control file from them (fetchmailconf.py) that fetchmail will     *)
(* read at its next start.  The editing in between is the user's and is    *)
(* left out: the file is written back as it was read.                      *)
(***************************************************************************)
EXTENDS Config

VARIABLES report,   \* what --version says of every entry
          dict,     \* the dump
          rewritten \* the file fetchmailconf writes, or "crash"

vars == <<pc, theme, path, file, parser, cmdline, cmd, args, netrc, config,
          status, report, dict, rewritten>>

(***************************************************************************)
(* dump_params: the statements that depend on more than one option.        *)
(***************************************************************************)

MailboxProtocol(b) == Get(b, "protocol") < P_ETRN

ReportPassword(b) == IF NoPassword(b) THEN "unneeded"
                     ELSE IF Get(b, "password") = 0 THEN "prompted" ELSE "known"

ReportSink_MdaFirst(b) == IF Get(b, "mda") # 0 /\ MailboxProtocol(b) THEN "mda"
                          ELSE IF Get(b, "bsmtp") # 0 THEN "bsmtp" ELSE "smtp"

ReportSink(b) == IF Get(b, "bsmtp") # 0 THEN "bsmtp"
                 ELSE IF Get(b, "mda") # 0 /\ MailboxProtocol(b) THEN "mda" ELSE "smtp"

ReportDrop(b) == IF MultiDrop(b) THEN "multi" ELSE "single"

(* The flags and limits are echoed for the mailbox protocols only. *)
ReportMailbox(b) ==
  IF MailboxProtocol(b)
  THEN [on |-> {o \in UserFlags \ {"use_ssl", "sslcertck"} : Get(b, o) # 0},
        limits |-> {o \in UserNumbers : Get(b, o) > 0},
        folder |-> GetList(b, "mailboxes") # <<0>>]
  ELSE [on |-> {}, limits |-> {}, folder |-> FALSE]

ReportEnvelope(b) ==
  IF MultiDrop(b) THEN Get(b, "envelope") ELSE 0

(* KPOP is announced as a protocol of its own. *)
ReportProtocol(b) ==
  [kpop |-> /\ Get(b, "protocol") = P_POP3
            /\ Get(b, "service") = KPOP_PORT
            /\ Get(b, "authenticate") \in {A_KERBEROS_V4, A_KERBEROS_V5},
   protocol |-> Get(b, "protocol"), service |-> Get(b, "service"),
   uidl |-> Get(b, "uidl") # 0 /\ MailboxProtocol(b)]

(* The method that will be forced; nothing is said of an external one. *)
ReportAuth(b) == IF Get(b, "authenticate") = A_EXTERNAL THEN Unset
                 ELSE Get(b, "authenticate")

ReportTls(b) ==
  [o \in {"principal", "use_ssl", "sslproto", "sslcertck", "sslcertfile",
          "sslcertpath", "sslcommonname", "sslfingerprint", "timeout"} |->
     Get(b, o)]

ReportLinks(b) ==
  [o \in {"interface", "monitor", "plugin", "plugout", "tracepolls",
          "badheader", "properties"} |-> Get(b, o)]

ReportRun(run) ==
  {o \in {"poll_interval", "logfile", "use_syslog", "invisible", "showdots",
          "postmaster"} : run[o] # 0}
    \cup {o \in {"bouncemail", "softbounce"} : run[o] = 0}

DumpParams(run, hosts, implicit) ==
  [run |-> ReportRun(run),
   entries |->
     [i \in {j \in DOMAIN hosts : WillPoll(hosts[j], implicit)} |->
        [protocol |-> ReportProtocol(hosts[i]), auth |-> ReportAuth(hosts[i]),
         tls |-> ReportTls(hosts[i]), password |-> ReportPassword(hosts[i]),
         sink |-> ReportSink(hosts[i]), drop |-> ReportDrop(hosts[i]),
         mailbox |-> ReportMailbox(hosts[i]),
         envelope |-> ReportEnvelope(hosts[i]), links |-> ReportLinks(hosts[i])]]]

(***************************************************************************)
(* dump_config                                                             *)
(***************************************************************************)

BoolDump(n) == IF n # 0 THEN 1 ELSE 0

NumDump(n) == NumValueOut(n)

(* The default mailbox has no name and leaves no trace in the list. *)
ListDump(list) == SelectSeq(list, LAMBDA e : e # 0)

DumpedServFlags == {"dns", "uidl", "tracepolls"}

(* KPOP is a name for POP3 with Kerberos IV on its own port. *)
UsingKpop(b) == /\ Get(b, "protocol") = P_POP3
                /\ Get(b, "service") = KPOP_PORT
                /\ Get(b, "authenticate") = A_KERBEROS_V4

ReceivedHeader == 5

DumpServer(b) ==
  [name |-> b.name, active |-> ~b.skip, kpop |-> UsingKpop(b),
   envelope |-> CASE Get(b, "envelope") = STRING_DISABLED -> 0
                  [] Get(b, "envelope") = 0 -> ReceivedHeader
                  [] OTHER -> Get(b, "envelope"),
   envskip |-> NumDump(Get(b, "envskip")),
   auth |-> Get(b, "authenticate"),
   hasauth |-> Get(b, "authenticate") # A_EXTERNAL,
   flags |-> [o \in DumpedServFlags |-> BoolDump(Get(b, o))],
   nums |-> [o \in {"timeout", "interval", "protocol"} |-> NumDump(Get(b, o))],
   strs |-> [o \in ServStrings \cup {"service"} |-> Get(b, o)],
   badheader |-> Get(b, "badheader"),
   lists |-> [o \in ServLists |-> ListDump(GetList(b, o))]]

DumpedStrings == UserStrings \ {"sslcertfile"}

DumpUser(b) ==
  [flags |-> [o \in UserFlags |-> BoolDump(Get(b, o))],
   nums |-> [o \in UserNumbers |-> NumDump(Get(b, o))],
   strs |-> [o \in DumpedStrings |-> Get(b, o)],
   lmtp |-> Get(b, "listener") = LMTP_MODE,
   wildcard |-> Get(b, "wildcard") # 0,
   lists |-> [o \in UserLists |-> ListDump(GetList(b, o))]]

DumpConfig(hosts) ==
  [i \in DOMAIN hosts |->
     [lead |-> hosts[i].lead, server |-> DumpServer(hosts[i]),
      user |-> DumpUser(hosts[i])]]

DumpRun(run) ==
  [o \in {"poll_interval", "logfile", "idfile", "postmaster", "bouncemail",
          "spambounce", "softbounce", "properties", "invisible", "use_syslog"}
   |-> run[o]]

(***************************************************************************)
(* fetchmailconf: the objects' defaults and the file their __repr__ makes. *)
(***************************************************************************)

ServerDefaults == [timeout |-> 300, interval |-> 0, protocol |-> P_AUTO]

UserNumberDefaults ==
  [limit |-> 0, warnings |-> 3600, fetchlimit |-> 0, fetchsizelimit |-> 100,
   fastuidl |-> 4, batchlimit |-> 0, expunge |-> 0]

UserFlagDefault_Off(o) == 0

UserFlagDefault(o) == IF o = "rewrite" THEN 1 ELSE 0

(* copy_instance insists on the fields it knows; "auth" may be missing. *)
Copyable(d) == \A i \in DOMAIN d : d[i].lead => d[i].server.hasauth

(* Expressions that raise an exception: a None where a string is added, and *)
(* a protocol without a default port.                                       *)
Raises(s) ==
  \/ s.envelope = 0
  \/ s.strs["service"] # 0 /\ s.nums["protocol"] = P_RPOP

Option(o, v) == Stmt("serv", o, v, 0)

UserOpt(o, v) == Stmt("user", o, v, 0)

ForEach(S, f) == SetToSeq({f[x] : x \in S})

DefaultPort(s) ==
  IF s.kpop THEN KPOP_PORT ELSE
  CASE s.nums["protocol"] = P_POP2 -> NamedService(109)
    [] s.nums["protocol"] \in {P_POP3, P_APOP} -> NamedService(110)
    [] s.nums["protocol"] = P_IMAP -> NamedService(143)
    [] s.nums["protocol"] = P_ETRN -> NamedService(25)
    [] s.nums["protocol"] = P_ODMR -> NamedService(366)
    [] OTHER -> 0

(* The service is left out when it is the protocol's own, and for "auto". *)
WritesService(s) == /\ s.strs["service"] # 0
                    /\ DefaultPort(s) # 0
                    /\ s.strs["service"] # DefaultPort(s)

WriteList(t, o, list) == [i \in DOMAIN list |-> Stmt(t, o, list[i], 0)]

(* Server.dump, up to the users. *)
WriteServer(s) ==
  <<Stmt(IF s.active THEN "poll" ELSE "skip", "name", 0, s.name)>>
  \o (IF s.kpop THEN <<Option("kpop", 0)>> ELSE <<>>)
  \o ForEach({o \in DOMAIN ServerDefaults :
                /\ s.nums[o] # ServerDefaults[o]
                /\ ~(o = "protocol" /\ s.kpop)},
             [o \in DOMAIN ServerDefaults |-> Option(o, s.nums[o])])
  \o (IF WritesService(s) THEN <<Option("service", s.strs["service"])>> ELSE <<>>)
  \o (IF s.envelope # ReceivedHeader \/ s.envskip # 0
      THEN <<Stmt("serv", "envelope", s.envelope, s.envskip)>> ELSE <<>>)
  \o (IF s.auth # A_ANY THEN <<Option("authenticate", s.auth)>> ELSE <<>>)
  \o (IF s.flags["dns"] = 0 THEN <<Option("dns", 0)>> ELSE <<>>)
  \o (IF s.flags["uidl"] # 0 THEN <<Option("uidl", 1)>> ELSE <<>>)
  \o WriteList("serv", "akalist", s.lists["akalist"])
  \o WriteList("serv", "localdomains", s.lists["localdomains"])
  \o (IF s.flags["tracepolls"] # 0 THEN <<Option("tracepolls", 1)>> ELSE <<>>)
  \o ForEach({o \in ServStrings : s.strs[o] # 0},
             [o \in ServStrings |-> Option(o, s.strs[o])])
  \o (IF s.badheader # 0 THEN <<Option("badheader", 1)>> ELSE <<>>)

(* A list without the last element if it is e. *)
Trim(list, e) == IF list # <<>> /\ Last(list) = e THEN Front(list) ELSE list

WrittenStrings == DumpedStrings \ {"remotename", "smtpname"}

(* User.__repr__: ssl and sslcertck are only ever written when they are on. *)
WriteUser(u) ==
  <<Stmt("username", "remotename", u.strs["remotename"], 0)>>
  \o WriteList("user", "localnames",
               u.lists["localnames"] \o IF u.wildcard THEN <<0>> ELSE <<>>)
  \o ForEach({o \in UserFlags :
                IF o \in {"use_ssl", "sslcertck"} THEN u.flags[o] # 0
                ELSE u.flags[o] # UserFlagDefault(o)},
             [o \in UserFlags |-> UserOpt(o, u.flags[o])])
  \o ForEach({o \in UserNumbers : u.nums[o] # UserNumberDefaults[o]},
             [o \in UserNumbers |-> UserOpt(o, u.nums[o])])
  \o ForEach({o \in WrittenStrings : u.strs[o] # 0},
             [o \in WrittenStrings |-> UserOpt(o, u.strs[o])])
  \o WriteList("user", "smtphunt",
               Trim(Trim(u.lists["smtphunt"], Localhost), FetchmailHost))
  \o WriteList("user", "domainlist",
               Trim(u.lists["domainlist"], FetchmailHost))
  \o WriteList("user", "mailboxes", u.lists["mailboxes"])
  \o (IF u.lmtp THEN <<UserOpt("lmtp", 1)>> ELSE <<>>)
  \o WriteList("user", "antispam", u.lists["antispam"])

(* Configuration.__repr__: a log file only without syslog. *)
WriteRun(r) ==
  LET Set(o, v) == <<Stmt("set", o, v, 0)>>
      If(c, st) == IF c THEN st ELSE <<>>
  IN  If(r["use_syslog"] # 0, Set("use_syslog", 1))
      \o If(r["use_syslog"] = 0 /\ r["logfile"] # 0, Set("logfile", r["logfile"]))
      \o If(r["idfile"] # 300, Set("idfile", r["idfile"]))
      \o If(r["postmaster"] # 0, Set("postmaster", r["postmaster"]))
      \o Set("bouncemail", r["bouncemail"])
      \o Set("spambounce", r["spambounce"])
      \o Set("softbounce", r["softbounce"])
      \o If(r["properties"] # 0, Set("properties", r["properties"]))
      \o If(r["poll_interval"] > 0, Set("poll_interval", r["poll_interval"]))
      \o If(r["invisible"] # 0, Set("invisible", 1))

WriteFile(d, r) ==
  FoldLeft(LAMBDA acc, e : acc \o (IF e.lead THEN WriteServer(e.server) ELSE <<>>)
                               \o WriteUser(e.user),
           WriteRun(r), d)

(***************************************************************************)
(* The steps                                                               *)
(***************************************************************************)

NothingWritten == <<>>

ConfInit == Init /\ report = <<>> /\ dict = <<>> /\ rewritten = NothingWritten

unwritten == <<report, dict, rewritten>>

Report ==
  /\ pc = "report"
  /\ report' = DumpParams(parser.run, config, args = <<>>)
  /\ pc' = "done"
  /\ UNCHANGED <<theme, path, file, parser, cmdline, cmd, args, netrc, config,
                 status, dict, rewritten>>

Dump ==
  /\ pc = "dump"
  /\ dict' = DumpConfig(config)
  /\ pc' = "edit"
  /\ UNCHANGED <<theme, path, file, parser, cmdline, cmd, args, netrc, config,
                 status, report, rewritten>>

(* fetchmailconf reads the dump and saves the file, or dies. *)
Edit ==
  /\ pc = "edit"
  /\ IF Copyable(dict) /\ \A i \in DOMAIN dict : dict[i].lead => ~Raises(dict[i].server)
     THEN /\ rewritten' = WriteFile(dict, DumpRun(parser.run))
          /\ pc' = "saved"
     ELSE pc' = "done" /\ UNCHANGED rewritten
  /\ UNCHANGED <<theme, path, file, parser, cmdline, cmd, args, netrc, config,
                 status, report, dict>>

Next ==
  \/ \E s \in CmdOptions(theme) : ReadOption(s) /\ UNCHANGED unwritten
  \/ EditorStarts /\ UNCHANGED unwritten
  \/ EndOfOptions /\ UNCHANGED unwritten
  \/ \E s \in Statements(theme) : Statement(s) /\ UNCHANGED unwritten
  \/ EndOfFile /\ UNCHANGED unwritten
  \/ \E resolves \in BOOLEAN : Load(resolves) /\ UNCHANGED unwritten
  \/ Passwords /\ UNCHANGED unwritten
  \/ \E tty \in BOOLEAN : Ask(tty) /\ UNCHANGED unwritten
  \/ Report
  \/ Dump
  \/ Edit

Spec == ConfInit /\ [][Next]_vars

(***************************************************************************)
(* What the user said, read off the statements themselves                  *)
(***************************************************************************)

ServerStmt(s) == s.t \in {"poll", "skip", "defaults"}

(* The position of the statement that opens the server of position i. *)
ServerOf(i) ==
  CHOOSE j \in 1..i : /\ ServerStmt(file[j])
                      /\ \A k \in (j + 1)..i : ~ServerStmt(file[k])

Body(i) == {j \in DOMAIN file : /\ \E k \in 1..j : ServerStmt(file[k])
                                /\ ServerOf(j) = ServerOf(i)}

(* An entry is opened by a user name, or by a server without user names. *)
OpensEntry(i) ==
  \/ file[i].t = "username"
  \/ ServerStmt(file[i]) /\ \A j \in Body(i) : file[j].t # "username"

Openings == SelectSeq([i \in DOMAIN file |-> i], OpensEntry)

(* The statements that are about the entry opened at i: the server options  *)
(* of its server, and the user options up to the next user name.            *)
Concerns(i) ==
  {j \in Body(i) : \/ file[j].t = "serv"
                   \/ /\ file[j].t \in {"user", "username"}
                      /\ j >= i
                      /\ \A k \in (i + 1)..j : file[k].t # "username"}

(* The value a statement stands for; a zero cannot be told from silence. *)
Meaning(s) ==
  CASE s.o \in ServFlags \cup UserFlags -> FlagIn(s.v)
    [] s.o \in UserNumbers -> NumValueIn(s.v)
    [] s.o = "service" -> ServiceIn(s.v)
    [] OTHER -> s.v

Said(S, o) ==
  LET about == {j \in S : file[j].o = o}
  IN  IF about = {} THEN 0
      ELSE Meaning(file[CHOOSE j \in about : \A k \in about : k <= j])

SaidList(S, o) ==
  LET about == SelectSeq([i \in DOMAIN file |-> i], LAMBDA j : j \in S /\ file[j].o = o)
  IN  [k \in DOMAIN about |-> file[about[k]].v]

(* The options whose values the comparison understands: the paths and the   *)
(* statements that set several fields are left to the other properties.     *)
Plain == (Scalars \ (UserPaths \cup {"envelope", "envskip", "sdps", "listener",
                                     "wildcard", "esmtp_name", "esmtp_password"}))

HasDefaults == Openings # <<>> /\ file[ServerOf(Openings[1])].t = "defaults"

ByDefaults == IF HasDefaults THEN Concerns(Openings[1]) ELSE {}

(* The opening of the n-th entry of the configuration. *)
OpeningOf(n) == Openings[IF HasDefaults THEN n + 1 ELSE n]

FirstSaid(seq) ==
  LET spoke == SelectSeq(seq, LAMBDA v : v # 0)
  IN  IF spoke = <<>> THEN 0 ELSE spoke[1]

CmdSaid(o) ==
  LET about == SelectSeq(cmdline, LAMBDA s : s.o = o)
  IN  IF about = <<>> THEN 0
      ELSE IF o = "timeout" /\ Last(about).v = 0 THEN CLIENT_TIMEOUT
      ELSE Meaning(Last(about))

FromFile(n) == n <= Len(Openings) - (IF HasDefaults THEN 1 ELSE 0)

(* What an option comes to: the command line, else the entry, else the      *)
(* defaults record, else what is built in.                                  *)
Expected(n, o, own, dflt) ==
  LET raw == FirstSaid(<<CmdSaid(o), Said(own, o), Said(dflt, o),
                         Get(DefOpts, o)>>)
  IN  IF o \notin DefaultedFlags THEN raw
      ELSE CASE raw = FLAG_TRUE -> 1 [] raw = FLAG_FALSE -> 0
             [] OTHER -> IF o \in TrueByDefault(config[n]) THEN 1 ELSE 0

Loaded == pc = "passwords"

NoCompound == \A s \in Range(file) \cup Range(cmdline) : s.o \notin {"kpop", "sdps"}

(***************************************************************************)
(* Properties                                                              *)
(***************************************************************************)

(* The parser's and the loader's state have their types, no field is stored *)
(* as zero, and an entry that is not the lead of its server directly        *)
(* follows an entry of that server.                                         *)
TypeOK ==
  /\ pc \in {"cmdline", "parse", "load", "passwords", "ask", "poll", "report",
             "dump", "edit", "saved", "done"}
  /\ status \in {"running", "syntax", "ioerr", "authfail", "dns"}
  /\ (status # "running") => pc = "done"
  /\ \A i \in DOMAIN parser.hosts :
       /\ \A o \in DOMAIN parser.hosts[i].sc : parser.hosts[i].sc[o] # 0
       /\ i = 1 => parser.hosts[i].lead
       /\ ~parser.hosts[i].lead =>
            parser.hosts[i - 1].name = parser.hosts[i].name
       /\ parser.hosts[i].lead => ServerStmt(file[ServerOf(Openings[i])])
  /\ pc = "load" =>
       Cardinality({i \in DOMAIN parser.hosts : parser.hosts[i].lead})
         = Cardinality({i \in DOMAIN file : ServerStmt(file[i])})

(* In an entry that is polled or dumped the command line wins over the       *)
(* entry, the entry over the defaults record and that over what is built    *)
(* in; a user's options never reach the next user of the server, while the  *)
(* server's options reach all of them.  (optmerge, user_reset,              *)
(* record_current and the order of the merges in load_params.)              *)
Precedence ==
  Loaded /\ NoCompound =>
    \A n \in Prepared(config, cmd) : FromFile(n) =>
      LET own == Concerns(OpeningOf(n))
          dflt == ByDefaults
      IN  \A o \in Plain : Get(config[n], o) = Expected(n, o, own, dflt)

(* A list that the command line does not name is what the entry says, else  *)
(* what the defaults record says; only the aliases are no default for       *)
(* others.  Lists of the command line: see CommandLineOverrides.            *)
ListsAsTold ==
  Loaded =>
    \A n \in DOMAIN config : FromFile(n) =>
      \A o \in {"mailboxes", "smtphunt", "localdomains", "akalist"} \ {s.o : s \in Range(cmdline)} :
        LET own == SaidList(Concerns(OpeningOf(n)), o)
            dflt == IF o = "akalist" THEN <<>> ELSE SaidList(ByDefaults, o)
            said == IF own # <<>> THEN own ELSE dflt
        IN  GetList(config[n], o) =
              IF said = <<>> /\ n \in Prepared(config, cmd)
              THEN CASE o = "mailboxes" -> <<0>> [] o = "smtphunt" -> <<Localhost>>
                     [] OTHER -> <<>>
              ELSE said

(* What an entry is polled with is what the user said: every option has the *)
(* value that takes precedence, and every list of the control file all its  *)
(* elements and those of no other entry (optmerge, user_reset).             *)
OptionsAsTold == Precedence /\ ListsAsTold

(* Without servers on the command line the entries of "poll" are polled and *)
(* those of "skip" are not.  With servers, exactly the entries that a       *)
(* server names by its label or an alias are polled, and a server nobody    *)
(* declared gets one entry of its own.                                      *)
PolledAsNamed ==
  Loaded =>
    \A n \in DOMAIN config :
      IF FromFile(n)
      THEN LET sv == ServerOf(OpeningOf(n))
               akas == SaidList(Concerns(OpeningOf(n)), "akalist")
           IN  config[n].active <=>
                 IF args = <<>> THEN file[sv].t # "skip"
                 ELSE \E a \in Range(args) : \/ a = config[n].name
                                             \/ a \in Range(akas)
      ELSE /\ config[n].active
           /\ config[n].name \in Range(args)
           /\ \A m \in DOMAIN config :
                FromFile(m) => ~Names(config[m], config[n].name)

(* When the program goes on to poll and one of the entries idles, that      *)
(* entry's mailbox is the only one it polls: nobody waits for ever behind   *)
(* an IDLE.  (The checks that load_params makes at its end.)                *)
IdleAlone ==
  pc = "poll" /\ (\E n \in DOMAIN config : config[n].active /\ Get(config[n], "idle") # 0) =>
    /\ Cardinality({n \in DOMAIN config : config[n].active}) = 1
    /\ \A n \in DOMAIN config :
         config[n].active => Len(GetList(config[n], "mailboxes")) = 1

(* Which mailboxes are polled is what the user said, and each has its turn. *)
PolledAsTold == PolledAsNamed /\ IdleAlone

(* .netrc says a password for a login at a host when the three stand in one *)
(* part of the file, from one "machine" or "default" to the next, outside   *)
(* of macros.                                                               *)
OutsideMacros ==
  {i \in DOMAIN netrc :
     \A m \in 1..i : netrc[m].k = "macdef" =>
       \E b \in m..i : netrc[b].k = "blank"}

OnePart(i, j) ==
  LET lo == IF i < j THEN i ELSE j
      hi == IF i < j THEN j ELSE i
  IN  \A m \in ((lo + 1)..hi) \cap OutsideMacros :
        netrc[m].k \notin {"machine", "default"}

GivenAt(k, v) ==
  {i \in OutsideMacros : /\ i < Len(netrc) /\ netrc[i].k = k
                     /\ netrc[i + 1] = Word("value", v)}

NetrcSays(pw, login, host) ==
  \E m \in GivenAt("machine", host), l \in GivenAt("login", login),
     p \in GivenAt("password", pw) : OnePart(m, l) /\ OnePart(m, p)

(* The password an entry is polled with was given for that entry: in the    *)
(* file, by .netrc for its host and its login, or at the prompt.  No entry  *)
(* that will be polled is without one.                                      *)
PasswordsBelong ==
  pc = "poll" =>
    \A n \in DOMAIN config : WillPoll(config[n], args = <<>>) =>
      LET pw == Get(config[n], "password")
          login == Get(config[n], "remotename")
      IN  /\ pw # 0
          /\ ~NoPassword(config[n]) /\ pw # TypedPassword =>
               \/ FromFile(n) /\ Said(Concerns(OpeningOf(n)), "password") = pw
               \/ FromFile(n) /\ Said(ByDefaults, "password") = pw
               \/ ByDefaults # {} /\ Said(ByDefaults, "password") = pw
               \/ \E h \in {config[n].name, Get(config[n], "via")} :
                    NetrcSays(pw, login, h)

(* open_sink's order of the sinks. *)
SinkUsed(b) == IF Get(b, "bsmtp") # 0 THEN "bsmtp"
               ELSE IF Get(b, "mda") # 0 THEN "mda" ELSE "smtp"

(* What --version reports is what a poll would do: the sink it names is the *)
(* one open_sink takes, and a password is announced as prompted for exactly *)
(* when the next start would ask for it or fail.                            *)
ReportTrue ==
  report # <<>> =>
    /\ \A n \in DOMAIN report.entries :
         /\ MailboxProtocol(config[n]) =>
              report.entries[n].sink = SinkUsed(config[n])
         /\ report.entries[n].protocol.kpop => NoPassword(config[n])
    /\ LacksPassword(config, args = <<>>)
         <=> \E n \in DOMAIN report.entries :
               report.entries[n].password = "prompted"

(* The options of an entry that fetchmailconf does not carry over: the ones *)
(* that are not dumped or not written, a certificate check that is off, a   *)
(* stripcr that is off beside an mda, a service without a protocol, and the *)
(* protocol's clear-text port where SSL would take its own.                 *)
Lost(b) ==
  {"checkalias", "smtpname", "sslcertfile", "sdps"}
    \cup (IF Get(b, "sslcertck") = 0 THEN {"sslcertck"} ELSE {})
    \cup (IF Get(b, "mda") # 0 THEN {"stripcr"} ELSE {})
    \cup (IF Get(b, "protocol") = P_AUTO \/ Get(b, "use_ssl") # 0
          THEN {"service"} ELSE {})

(* Values that behave alike are alike. *)
Effective(b, o) ==
  CASE o \in ServFlags \cup UserFlags -> BoolDump(Get(b, o))
    [] o \in UserNumbers \cup {"timeout", "interval"} -> NumValueOut(Get(b, o))
    [] o = "service" -> IF Get(b, o) = 0 THEN DefaultPort(DumpServer(b)) ELSE Get(b, o)
    [] o = "envelope" -> IF Get(b, o) = 0 THEN ReceivedHeader ELSE Get(b, o)
    [] OTHER -> Get(b, o)

SameList(x, y, o) ==
  IF o = "smtphunt"
  THEN \/ GetList(x, o) = GetList(y, o)
       \/ GetList(y, o) = Trim(GetList(x, o), Localhost)
       \/ FetchmailHost \in Range(GetList(x, o))
  ELSE GetList(x, o) = GetList(y, o)

(* A file that fetchmailconf saves without an edit configures fetchmail as  *)
(* the file it was read from did, entry by entry, but for the options it is *)
(* known to lose.  (dump_config, copy_instance, the __repr__ methods, and   *)
(* the parser once more.)                                                   *)
RoundTrip ==
  pc = "saved" =>
    LET again == LoadParams(Parse(ParserInit, rewritten),
                            [CmdInit EXCEPT !.configdump = TRUE], <<>>, TRUE)
    IN  /\ again.st = "running"
        /\ Len(again.hosts) = Len(config)
        /\ \A n \in DOMAIN config :
             /\ again.hosts[n].name = config[n].name
             /\ again.hosts[n].active = config[n].active
             /\ again.hosts[n].lead = config[n].lead
             /\ \A o \in Scalars \ Lost(config[n]) :
                  Effective(again.hosts[n], o) = Effective(config[n], o)
             /\ \A o \in Lists : SameList(config[n], again.hosts[n], o)
        /\ \A o \in {"poll_interval", "logfile", "idfile", "postmaster",
                     "bouncemail", "spambounce", "softbounce", "properties",
                     "invisible"} : again.run[o] = parser.run[o]

(* The manual: "Command-line options override ~/.fetchmailrc declarations": *)
(* a list given on the command line is the list that is used.               *)
\* The code does not satisfy this: ConfigOverride.cfg and README.md, "Known disagreements".
CommandLineOverrides ==
  Loaded =>
    \A n \in DOMAIN config :
      \A i \in DOMAIN cmdline :
        cmdline[i].o \in CmdLists =>
          GetList(config[n], cmdline[i].o) = GetList(cmd.opts, cmdline[i].o)
=============================================================================
