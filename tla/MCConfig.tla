------------------------------ MODULE MCConfig ------------------------------
(***************************************************************************)
(* Small instances of FetchmailConf.  Every theme is a group of options    *)
(* that touch each other; a behaviour uses the options of one theme, so    *)
(* that all options are exercised without their product.                   *)
(***************************************************************************)
EXTENDS FetchmailConf

Serv(o, V) == {Stmt("serv", o, v, 0) : v \in V}

User(o, V) == {Stmt("user", o, v, 0) : v \in V}

Cmd(o, V) == {Stmt("cmd", o, v, 0) : v \in V}

SetTo(o, V) == {Stmt("set", o, v, 0) : v \in V}

MCThemes == {"flags", "moreflags", "numbers", "lists", "server", "protocol",
             "idle", "sinks", "envelope", "tls", "globals", "passwords"}

PollOf(n) == Stmt("poll", "name", 0, n)

SkipOf(n) == Stmt("skip", "name", 0, n)

Dflts == Stmt("defaults", "name", 0, 0)

Login(u) == Stmt("username", "remotename", u, 0)

(* Every prefix of a skeleton is a file too. *)
MCSkeletons(th) ==
  {<<Dflts, PollOf(1), Login(3), Login(4)>>, <<PollOf(1), Login(3), Login(4)>>}
    \cup IF th \in {"server", "idle", "passwords"}
         THEN {<<Dflts, PollOf(1), SkipOf(2)>>, <<PollOf(1), PollOf(2)>>,
               <<SkipOf(2), Login(3)>>} ELSE {}
    \cup IF th = "server" THEN {<<Dflts, Login(3), Login(4)>>, <<PollOf(1), Dflts>>,
                                <<Dflts, Dflts>>} ELSE {}

MCStatements(th) ==
  UNION {Range(sk) : sk \in MCSkeletons(th)} \cup
  CASE th = "flags" -> User("keep", {0, 1}) \cup User("rewrite", {0})
                         \cup Serv("dns", {0, 1})
    [] th = "moreflags" -> Serv("tracepolls", {1}) \cup User("stripcr", {0, 1})
                             \cup User("mda", {3}) \cup Serv("checkalias", {1})
    [] th = "numbers" -> User("limit", {0, 5}) \cup User("warnings", {0, 5})
                           \cup Serv("timeout", {7}) \cup Serv("interval", {2})
    [] th = "lists" -> User("mailboxes", {3}) \cup User("smtphunt", {3, 8})
                         \cup User("localnames", {0, 3}) \cup Serv("localdomains", {3})
    [] th = "server" -> Serv("via", {2}) \cup Serv("akalist", {2, 5})
                          \cup Serv("plugin", {3, 4}) \cup Serv("esmtp_name", {3})
    [] th = "protocol" -> Serv("protocol", {P_RPOP, P_ETRN})
                            \cup Serv("service", {0, 2000, NamedService(110)})
                            \cup Serv("kpop", {1}) \cup Serv("sdps", {1})
                            \cup Serv("authenticate", {A_PASSWORD, A_EXTERNAL, A_GSSAPI})
    [] th = "idle" -> User("idle", {0, 1}) \cup User("mailboxes", {3})
    [] th = "sinks" -> User("bsmtp", {3, 103}) \cup User("mda", {3}) \cup User("lmtp", {1})
                         \cup User("smtphunt", {253, 993}) \cup User("smtpname", {3})
    [] th = "envelope" -> {Stmt("serv", "envelope", 4, n) : n \in {0, 2}}
                            \cup {Stmt("serv", "envelope", STRING_DISABLED, 0)}
                            \cup Serv("badheader", {0, 1}) \cup User("localnames", {0})
    [] th = "tls" -> User("use_ssl", {0, 1}) \cup User("sslcertck", {0, 1})
                       \cup User("sslproto", {3}) \cup User("sslkey", {3})
    [] th = "globals" -> SetTo("logfile", {3}) \cup SetTo("poll_interval", {60})
                           \cup SetTo("softbounce", {0}) \cup SetTo("showdots", {0, 1})
                           \cup SetTo("use_syslog", {1}) \cup SetTo("postmaster", {3})
    [] th = "passwords" -> User("password", {55}) \cup Serv("via", {2})
                             \cup Serv("authenticate", {A_SSH})

MCCmdOptions(th) ==
  CASE th = "flags" -> Cmd("keep", {0, 1}) \cup Cmd("versioninfo", {1})
    [] th = "moreflags" -> Cmd("tracepolls", {1})
    [] th = "numbers" -> Cmd("limit", {0, BadNumber}) \cup Cmd("timeout", {0, 9})
    [] th = "lists" -> Cmd("mailboxes", {4}) \cup Cmd("smtphunt", {4})
    [] th = "server" -> Cmd("plugin", {5})
    [] th = "protocol" -> Cmd("kpop", {1}) \cup Cmd("sdps", {1}) \cup Cmd("protocol", {P_POP3})
    [] th = "idle" -> Cmd("idle", {1})
    [] th = "sinks" -> Cmd("mda", {4}) \cup Cmd("bsmtp", {4}) \cup Cmd("versioninfo", {1})
    [] th = "envelope" -> Cmd("envelope", {6})
    [] th = "tls" -> Cmd("sslcertck", {0})
    [] th = "globals" -> Cmd("poll_interval", {0}) \cup Cmd("softbounce", {0, 1})
                           \cup Cmd("nodetach", {1}) \cup Cmd("check_only", {1})
                           \cup Cmd("pidfile", {3})
    [] th = "passwords" -> Cmd("versioninfo", {1}) \cup Cmd("remotename", {4})

MCArgs(th) ==
  CASE th \in {"server", "idle"} -> {<<>>, <<2>>, <<5, 1>>}
    [] th = "passwords" -> {<<>>, <<2>>}
    [] OTHER -> {<<>>}

W(k) == Word(k, 0)

V(v) == Word("value", v)

(* A section of .netrc. *)
Machine(h, l, p) ==
  <<W("machine"), V(h)>> \o (IF l # 0 THEN <<W("login"), V(l)>> ELSE <<>>)
                        \o (IF p # 0 THEN <<W("password"), V(p)>> ELSE <<>>)

MCNetrcs(th) ==
  {Machine(1, 3, 51) \o Machine(1, 4, 52) \o Machine(2, 9, 53)} \cup
  IF th # "passwords" THEN {}
  ELSE {Machine(1, 0, 51) \o Machine(1, 3, 0) \o Machine(2, 4, 53),
        <<W("password"), V(51), W("account"), V(3)>> \o Machine(2, 3, 52)
           \o <<W("macdef")>> \o Machine(1, 3, 54) \o <<W("blank")>>
           \o <<W("other")>> \o Machine(1, 9, 53),
        Machine(1, 4, 51) \o <<W("default"), W("login"), V(3), W("password"), V(55)>>}

MCPaths(th) == IF th = "globals" THEN PathKinds ELSE {"plain"}

MCCompiled == {A_KERBEROS_V4}
=============================================================================
