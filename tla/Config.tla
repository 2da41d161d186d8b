------------------------------- MODULE Config -------------------------------
(***************************************************************************)
(* Start-up: the command line (options.c), the run control file (RcFile),  *)
(* the merging and the checks of load_params, and the passwords (main).    *)
(*                                                                         *)
(* Every behaviour is one start of the program.  The statements of the     *)
(* file and the options of the command line are chosen one by one; file    *)
(* and cmdline remember what was said, so that the properties can compare  *)
(* what the program ends up with against what it was told.                 *)
(***************************************************************************)
EXTENDS RcFile

CONSTANTS Themes,         \* sets of options; a behaviour uses one of them
          Statements(_),  \* the statements a file may contain, per theme
          CmdOptions(_),  \* the options a command line may contain
          CmdArgs(_),     \* the lists of servers a command line may name
          Skeletons(_),   \* the records and users of the files, in order
          Netrcs(_),      \* the contents of .netrc, as words
          Paths(_),       \* the kinds of run control files tried
          Compiled,       \* the Kerberos and GSSAPI methods of the build
          MaxOptions, MaxCmd

VARIABLES pc,       \* where the start-up is
          theme,
          path,     \* what kind of file the run control file is
          file,     \* the statements parsed so far
          parser,   \* the parser's globals
          cmdline,  \* the options given on the command line
          cmd,      \* cmd_opts, cmd_run and the flags parsecmdline sets
          args,     \* the servers named on the command line
          netrc,
          config,   \* querylist after load_params
          status    \* the exit status, or "running"

Unset == -1

(* The names of user and host, and the login of the invoking user. *)
LocalUser == 9

Localhost == 8

FetchmailHost == 7

(***************************************************************************)
(* The command line                                                        *)
(***************************************************************************)

(* The options that store a flag, with the values they can store. *)
CmdFlagOptions ==
  {<<"uidl", 1>>, <<"idle", 1>>, <<"fetchall", 1>>, <<"keep", 0>>,
   <<"keep", 1>>, <<"flush", 1>>, <<"limitflush", 1>>, <<"rewrite", 0>>,
   <<"use_ssl", 1>>, <<"sslcertck", 1>>, <<"sslcertck", 0>>,
   <<"tracepolls", 1>>}

CmdStrings == {"envelope", "qvirtual", "remotename", "smtpaddress",
               "smtpname", "mda", "interface", "monitor", "plugin",
               "plugout", "sslproto", "sslcommonname", "sslfingerprint",
               "principal", "service", "protocol", "authenticate",
               "badheader"}

CmdLists == {"mailboxes", "smtphunt", "domainlist", "antispam"}

(* The options that name a destination; two of them are an error. *)
Destinations == {"smtphunt", "mda", "bsmtp"}

CmdRunFlags == {"invisible", "showdots", "bouncemail", "softbounce",
                "use_syslog"}

CmdRunStrings == {"postmaster"} \cup RunPaths

CmdInit ==
  [opts |-> Cleared, run |-> [o \in CmdRunFlags \cup CmdRunStrings |-> 0],
   poll_interval |-> Unset, ocount |-> 0, errflag |-> FALSE,
   safewithbg |-> TRUE, nodetach |-> FALSE, check_only |-> FALSE,
   versioninfo |-> FALSE, configdump |-> FALSE]

(* xatoi refuses what is not a number or does not fit: v = "bad" is 99. *)
BadNumber == 99

(* The switch of parsecmdline for an option that writes the option block. *)
CmdOption(b, s) ==
  CASE <<s.o, s.v>> \in CmdFlagOptions ->
         Put(b, s.o, FlagIn(s.v))
    [] s.o \in UserNumbers -> Put(b, s.o, NumValueIn(s.v))
    [] s.o = "timeout" -> Put(b, s.o, IF s.v = 0 THEN -1 ELSE s.v)
    [] s.o \in UserPaths -> Put(b, s.o, PrependDir(s.v, CurrentWd))
    [] s.o \in CmdStrings -> Put(b, s.o, s.v)
    [] s.o \in CmdLists -> SaveStr(b, s.o, s.v)
    [] s.o = "lmtp" -> Put(b, "listener", LMTP_MODE)
    [] s.o = "kpop" ->
         Put(Put(Put(b, "protocol", P_POP3), "service", KPOP_PORT),
             "authenticate", A_KERBEROS_V4)
    [] s.o = "sdps" -> Put(Put(b, "protocol", P_POP3), "sdps", 1)

(* The switch for the options that write the run controls. *)
CmdRun(r, s) ==
  CASE s.o \in RunPaths -> [r EXCEPT ![s.o] = PrependDir(s.v, CurrentWd)]
    [] s.o = "postmaster" -> [r EXCEPT ![s.o] = s.v]
    [] OTHER -> [r EXCEPT ![s.o] = FlagIn(s.v)]

(* The options that only set a mode of the whole program. *)
CmdModes == {"nodetach", "check_only", "versioninfo", "configdump"}

SafeModes == {"versioninfo", "configdump"}

CmdNumbers == UserNumbers \cup {"timeout", "poll_interval", "antispam"}

ParseCmdOption(c, s) ==
  [(CASE s.o \in CmdModes -> [c EXCEPT ![s.o] = TRUE]
      [] s.o = "poll_interval" -> [c EXCEPT !.poll_interval = s.v]
      [] s.o \in DOMAIN c.run -> [c EXCEPT !.run = CmdRun(@, s)]
      [] OTHER -> [c EXCEPT !.opts = CmdOption(@, s),
                            !.ocount = @ + IF s.o \in Destinations
                                           THEN 1 ELSE 0])
   EXCEPT !.safewithbg = @ /\ s.o \in SafeModes,
          !.errflag = \/ @
                      \/ s.v = BadNumber /\ s.o \in CmdNumbers]

CmdSyntax(c) == c.errflag \/ c.ocount > 1

(***************************************************************************)
(* load_params                                                             *)
(***************************************************************************)

DefOpts ==
  [Cleared EXCEPT !.sc =
     [protocol |-> P_AUTO, timeout |-> CLIENT_TIMEOUT, warnings |-> WARNING_INTERVAL,
      esmtp_name |-> LocalUser, remotename |-> LocalUser,
      listener |-> SMTP_MODE, fetchsizelimit |-> 100, fastuidl |-> 4]]

Names_Label(h, arg) == h.name = arg

(* A server on the command line names the entries with its poll label or    *)
(* one of its aliases; an unknown one gets an entry of its own.             *)
Names(h, arg) ==
  h.name = arg \/ \E i \in DOMAIN GetList(h, "akalist") : GetList(h, "akalist")[i] = arg

ExplicitHost(arg) ==
  [Put(Cleared, "via", arg) EXCEPT !.ls = <<>>]
    @@ [name |-> arg, skip |-> FALSE, lead |-> TRUE, active |-> TRUE]

NameHost(hosts, arg) ==
  IF \E i \in DOMAIN hosts : Names(hosts[i], arg)
  THEN [i \in DOMAIN hosts |->
          [hosts[i] EXCEPT !.active = @ \/ Names(hosts[i], arg)]]
  ELSE Append(hosts, ExplicitHost(arg))

Activated(hosts, named) ==
  IF named = <<>>
  THEN [i \in DOMAIN hosts |-> [hosts[i] EXCEPT !.active = ~hosts[i].skip]]
  ELSE FoldLeft(NameHost, hosts, named)

(* The defaults record fills the entries after it and is dropped. *)
DefaultsMerged(hosts) ==
  IF hosts # <<>> /\ hosts[1].name = DefaultsName
  THEN [i \in 1..(Len(hosts) - 1) |-> OptMerge(hosts[i + 1], hosts[1], FALSE)]
  ELSE hosts

(* The check for a second one looks at every record but the head. *)
SecondDefaults(hosts) ==
  \E i \in DOMAIN hosts : i # 1 /\ hosts[i].name = DefaultsName

(* The command line overrides the globals; --check excludes daemon mode. *)
GlobalsOverridden(run, c) ==
  LET flags == [o \in DOMAIN run |->
                  CASE o \in CmdRunFlags /\ c.run[o] # 0 ->
                         IF c.run[o] = FLAG_TRUE THEN 1 ELSE 0
                    [] o \in CmdRunStrings /\ c.run[o] # 0 -> c.run[o]
                    [] o = "poll_interval" /\ c.poll_interval >= 0 ->
                         c.poll_interval
                    [] OTHER -> run[o]]
  IN  IF c.check_only THEN [flags EXCEPT !.poll_interval = 0] ELSE flags

(* DEFAULT: the FLAG_ values become TRUE and FALSE.  tracepolls is not      *)
(* among the flags this is done for.                                        *)
DefaultedFlags == UserFlags \cup {"dns", "uidl", "checkalias"}

TrueByDefault(b) == {"rewrite", "dns", "sslcertck"}
                      \cup IF Get(b, "mda") # 0 THEN {"stripcr"} ELSE {}

Default(b) ==
  [b EXCEPT !.sc =
     [f \in {g \in DefaultedFlags :
               \/ Get(b, g) = FLAG_TRUE
               \/ Get(b, g) = 0 /\ g \in TrueByDefault(b)} |-> 1] @@ [o \in DOMAIN @ \ DefaultedFlags |-> @[o]]]

(* The lists that must not be empty; 0 stands for the default mailbox. *)
IfEmpty(b, o, v) == IF GetList(b, o) = <<>> THEN SaveStr(b, o, v) ELSE b

ListsFilled(b) ==
  LET s == IfEmpty(b, "smtphunt", Localhost)
      d == IF Get(b, "protocol") \in {P_ETRN, P_ODMR}
           THEN IfEmpty(s, "domainlist", FetchmailHost) ELSE s
  IN  IfEmpty(IfEmpty(d, "localnames", LocalUser), "mailboxes", 0)

(* servport: a number in the range of ports, or a name with a known port. *)
ServPort(s) ==
  CASE s >= NamedService(1) -> s - NamedService(0)
    [] s \in 1..65535 -> s
    [] OTHER -> -1

(* A forwarding host is a number; its port, if it names one, are the tens.  *)
HuntPort(h) == h \div 10

(* What makes load_params give up on an entry. *)
InvalidEntry(b) ==
  \/ Get(b, "service") # 0
     /\ \/ ServPort(Get(b, "service")) < 0
        \/ Get(b, "protocol") = P_RPOP /\ ServPort(Get(b, "service")) >= 1024
  \/ Get(b, "listener") = LMTP_MODE
     /\ \E i \in DOMAIN GetList(b, "smtphunt") :
          HuntPort(GetList(b, "smtphunt")[i]) \in {0, 25}
  \/ Get(b, "authenticate")
       \in {A_KERBEROS_V4, A_KERBEROS_V5, A_GSSAPI} \ Compiled

TimeoutSet(b) ==
  IF Get(b, "timeout") = -1 THEN Put(b, "timeout", CLIENT_TIMEOUT) ELSE b

(* One turn of the loop that merges the wired defaults and the command line *)
(* and, for an entry that will be polled or dumped, prepares it.            *)
Finished(b, c) ==
  LET merged == OptMerge(OptMerge(b, DefOpts, FALSE), c.opts, TRUE)
  IN  IF c.configdump \/ merged.active
      THEN TimeoutSet(ListsFilled(Default(merged))) ELSE merged

Prepared(hosts, c) == {i \in DOMAIN hosts : c.configdump \/ hosts[i].active}

(* Idling only works when there is one mailbox to wait on. *)
MailboxCount(hosts, S) ==
  FoldLeft(LAMBDA n, i : n + Len(GetList(hosts[i], "mailboxes")), 0,
           SetToSeq(S))

IdleConflict_PerEntry(hosts, S) ==
  \E i \in S : /\ Get(hosts[i], "idle") # 0
               /\ Len(GetList(hosts[i], "mailboxes")) > 1

IdleConflict(hosts, S) ==
  /\ \E i \in S : Get(hosts[i], "idle") # 0
  /\ MailboxCount(hosts, S) > 1

(* ETRN, ODMR and Kerberos need the full name of this host; host_fqdn gives  *)
(* up when it is required and cannot be found.                              *)
NeedsFqdn(hosts) ==
  \E i \in DOMAIN hosts :
    /\ hosts[i].active
    /\ \/ Get(hosts[i], "protocol") \in {P_ETRN, P_ODMR}
       \/ Get(hosts[i], "authenticate") \in {A_KERBEROS_V4, A_KERBEROS_V5}

HostFqdn(required, resolves) == IF required /\ ~resolves THEN "dns" ELSE "ok"

(* load_params as a whole: the entries and the globals, or no entries and   *)
(* the exit status.                                                         *)
LoadParams(p, c, named, resolves) ==
  LET merged == DefaultsMerged(Activated(p.hosts, named))
      done == [i \in DOMAIN merged |-> Finished(merged[i], c)]
      run0 == GlobalsOverridden(p.run, c)
      run1 == IF run0.postmaster = 0 THEN [run0 EXCEPT !.postmaster = LocalUser]
              ELSE run0
      ok == /\ \A i \in Prepared(done, c) : ~InvalidEntry(done[i])
            /\ ~IdleConflict(done, Prepared(done, c))
      st == IF SecondDefaults(merged) THEN "syntax"
            ELSE IF HostFqdn(NeedsFqdn(merged), resolves) # "ok" THEN "dns"
            ELSE IF ok THEN "running" ELSE "syntax"
  IN  [hosts |-> IF st = "running" THEN done ELSE <<>>, run |-> run1, st |-> st]

(***************************************************************************)
(* main, between load_params and the lock                                  *)
(***************************************************************************)

(* .netrc is a sequence of words: the keywords, the values, and the blank   *)
(* lines, which end a macro.  0 is a field not given.                       *)
Word(k, v) == [k |-> k, v |-> v]

NetrcEntry == [host |-> 0, login |-> 0, password |-> 0]

NetrcStart == [last |-> "nothing", current |-> <<>>, list |-> <<>>]

(* maybe_add_to_list: an entry without a login is thrown away. *)
MaybeAddToList(p) ==
  [p EXCEPT !.current = <<NetrcEntry>>,
            !.list = @ \o SelectSeq(p.current, LAMBDA e : e.login # 0)]

(* A value goes to the current entry; before the first one it is dropped.   *)
NetrcValue(p, v) ==
  LET q == CASE p.last = "machine" ->
                  LET r == MaybeAddToList(p) IN [r EXCEPT !.current[1].host = v]
             [] p.last \in {"login", "password"} /\ p.current # <<>> ->
                  [p EXCEPT !.current[1][p.last] = v]
             [] OTHER -> p
  IN  [q EXCEPT !.last = "nothing"]

NetrcKeyword(p, k) ==
  CASE k = "default" -> MaybeAddToList(p)
    [] k \in {"login", "macdef", "machine", "password", "account"} ->
         [p EXCEPT !.last = k]
    [] OTHER -> p

NetrcWord(p, w) ==
  CASE w.k = "blank" ->
         IF p.last = "macdef" THEN [p EXCEPT !.last = "nothing"] ELSE p
    [] w.k # "blank" /\ p.last = "macdef" -> p
    [] w.k # "blank" /\ p.last = "nothing" -> NetrcKeyword(p, w.k)
    [] OTHER -> NetrcValue(p, w.v)

(* The last entry is added too; the list ends up in the order of the file.  *)
ParseNetrc(words) == MaybeAddToList(FoldLeft(NetrcWord, NetrcStart, words)).list

SearchNetrc_AnyLogin(list, host, login) ==
  SelectSeq(list, LAMBDA e : e.host = host)

(* search_netrc: the entries for this host and this login; the first counts. *)
SearchNetrc(list, host, login) ==
  SelectSeq(list, LAMBDA e : e.host = host /\ e.login = login)

FoundPassword(list, host, login) ==
  LET m == SearchNetrc(list, host, login)
  IN  IF m # <<>> THEN m[1].password ELSE 0

(* An entry that will be polled and has no password gets the one .netrc has *)
(* for its poll label, else the one for its via name; a protocol that needs *)
(* none gets the login for it.                                              *)
WillPoll(b, implicit) == b.active /\ ~(implicit /\ b.skip)

PickPassword(b, list) ==
  LET login == Get(b, "remotename")
      byname == FoundPassword(list, b.name, login)
  IN  IF NoPassword(b) THEN Put(b, "password", login)
      ELSE IF byname # 0 THEN Put(b, "password", byname)
      ELSE IF Get(b, "via") # 0
      THEN Put(b, "password", FoundPassword(list, Get(b, "via"), login))
      ELSE b

WithPasswords(hosts, list, implicit) ==
  [i \in DOMAIN hosts |->
     IF WillPoll(hosts[i], implicit) /\ Get(hosts[i], "password") = 0
     THEN PickPassword(hosts[i], list) ELSE hosts[i]]

LacksPassword(hosts, implicit) ==
  \E i \in DOMAIN hosts : /\ WillPoll(hosts[i], implicit)
                          /\ ~NoPassword(hosts[i])
                          /\ Get(hosts[i], "password") = 0

(***************************************************************************)
(* The start-up                                                            *)
(***************************************************************************)

Init ==
  /\ pc = "cmdline"
  /\ theme \in Themes
  /\ path \in Paths(theme)
  /\ args \in CmdArgs(theme)
  /\ netrc \in Netrcs(theme)
  /\ file = <<>>
  /\ parser = ParserInit
  /\ cmdline = <<>>
  /\ cmd = CmdInit
  /\ config = <<>>
  /\ status = "running"

Exit(st) == pc' = "done" /\ status' = st

ReadOption(s) ==
  /\ pc = "cmdline"
  /\ Len(cmdline) < MaxCmd
  /\ ~cmd.errflag /\ ~cmd.configdump
  /\ cmdline' = Append(cmdline, s)
  /\ cmd' = ParseCmdOption(cmd, s)
  /\ UNCHANGED <<pc, theme, path, file, parser, args, netrc, config, status>>

(* fetchmailconf starts fetchmail with --configdump --nosyslog. *)
EditorCommand == <<Stmt("cmd", "configdump", 1, 0), Stmt("cmd", "use_syslog", 0, 0)>>

EditorStarts ==
  /\ pc = "cmdline"
  /\ cmdline = <<>>
  /\ args = <<>>
  /\ cmd' = FoldLeft(ParseCmdOption, cmd, EditorCommand)
  /\ cmdline' = EditorCommand
  /\ UNCHANGED <<pc, theme, path, file, parser, args, netrc, config, status>>

(* The end of the options, and the check of the file that comes next. *)
EndOfOptions ==
  /\ pc = "cmdline"
  /\ UNCHANGED <<theme, path, file, parser, cmdline, cmd, args, netrc, config>>
  /\ LET st == ParseFile(path, ~cmd.versioninfo)
     IN  CASE CmdSyntax(cmd) -> Exit("syntax")
           [] ~CmdSyntax(cmd) /\ st = "ioerr" -> Exit("ioerr")
           [] ~CmdSyntax(cmd) /\ st = "empty" ->
                pc' = "load" /\ UNCHANGED status
           [] OTHER -> pc' = "parse" /\ UNCHANGED status

(* The bounds: the records of a file follow one of the theme's skeletons,   *)
(* and the number of options is limited.                                    *)
Structural(s) == s.t \in {"poll", "skip", "defaults", "username"}

Fits(s) ==
  IF Structural(s)
  THEN \E sk \in Skeletons(theme) :
         IsPrefix(Append(SelectSeq(file, Structural), s), sk)
  ELSE Cardinality({i \in DOMAIN file : ~Structural(file[i])}) < MaxOptions

Statement(s) ==
  /\ pc = "parse"
  /\ ~parser.err
  /\ Fits(s)
  /\ file' = Append(file, s)
  /\ parser' = Apply(parser, s)
  /\ UNCHANGED <<pc, theme, path, cmdline, cmd, args, netrc, config, status>>

EndOfFile ==
  /\ pc = "parse"
  /\ parser' = Close(parser)
  /\ IF parser.err THEN Exit("syntax") ELSE pc' = "load" /\ UNCHANGED status
  /\ UNCHANGED <<theme, path, file, cmdline, cmd, args, netrc, config>>

Load(resolves) ==
  /\ pc = "load"
  /\ LET l == LoadParams(parser, cmd, args, resolves)
     IN  /\ config' = l.hosts
         /\ parser' = [parser EXCEPT !.run = l.run]
         /\ IF l.st = "running" THEN pc' = "passwords" /\ UNCHANGED status
            ELSE Exit(l.st)
  /\ UNCHANGED <<theme, path, file, cmdline, cmd, args, netrc>>

(* The passwords of .netrc; what is dumped is dumped before any is asked    *)
(* for.                                                                     *)
Passwords ==
  /\ pc = "passwords"
  /\ config' = WithPasswords(config, ParseNetrc(netrc), args = <<>>)
  /\ pc' = IF cmd.versioninfo THEN "report" ELSE IF cmd.configdump THEN "dump" ELSE "ask"
  /\ UNCHANGED <<theme, path, file, parser, cmdline, cmd, args, netrc, status>>

(* Without mail servers there is nothing to do; without a terminal a        *)
(* missing password cannot be asked for.  A password that is typed is 6.    *)
TypedPassword == 6

Ask(tty) ==
  /\ pc = "ask"
  /\ CASE config = <<>> -> Exit("syntax") /\ UNCHANGED config
       [] config # <<>> /\ LacksPassword(config, args = <<>>) /\ ~tty ->
            Exit("authfail") /\ UNCHANGED config
       [] OTHER ->
            /\ config' =
                 [i \in DOMAIN config |->
                    IF /\ WillPoll(config[i], args = <<>>)
                       /\ ~NoPassword(config[i])
                       /\ Get(config[i], "password") = 0
                    THEN Put(config[i], "password", TypedPassword)
                    ELSE config[i]]
            /\ pc' = "poll"
            /\ UNCHANGED status
  /\ UNCHANGED <<theme, path, file, parser, cmdline, cmd, args, netrc>>
=============================================================================
