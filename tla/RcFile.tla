------------------------------- MODULE RcFile -------------------------------
(***************************************************************************)
(* The run control file parser (rcfile_y.y), as an operator that applies   *)
(* one statement to the parser's globals.                                  *)
(*                                                                         *)
(* A statement is a record [t, o, v, n]: what it is, the option, its value *)
(* as the file writes it, and a second number where the grammar has one.   *)
(* The lexer (rcfile_l.l) is left out: the file is a sequence of these.    *)
(*                                                                         *)
(* The parser's globals:                                                   *)
(*   current  the option block that is being filled, with its poll label   *)
(*   where    what the grammar accepts next: "top" (nothing is open),      *)
(*            "server", "user1" (user options without a user name) or      *)
(*            "user0" (after a user name)                                  *)
(*   trailer  whether the next record is a further user of the same server *)
(*   hosts    the list built so far (querylist)                            *)
(*   run      the global options                                           *)
(*   err      prc_errflag                                                  *)
(***************************************************************************)
EXTENDS Options, SequencesExt

DefaultsName == 0

Stmt(t, o, v, n) == [t |-> t, o |-> o, v |-> v, n |-> n]

(* The globals set before parsing: load_params. *)
RunInit ==
  [bouncemail |-> 1, softbounce |-> 1, spambounce |-> 0, use_syslog |-> 0,
   invisible |-> 0, showdots |-> 0, poll_interval |-> 0, logfile |-> 0,
   idfile |-> 300, pidfile |-> 0, postmaster |-> 0, properties |-> 0]

RunPaths == {"logfile", "idfile", "pidfile"}

ParserInit ==
  [current |-> Cleared @@ [name |-> DefaultsName, skip |-> FALSE],
   where |-> "top", trailer |-> FALSE, hosts |-> <<>>, run |-> RunInit,
   err |-> FALSE]

(* SET statements; showdots is stored as a FLAG_ value, the others as       *)
(* TRUE and FALSE.                                                          *)
SetGlobal(p, s) ==
  [p EXCEPT !.run[s.o] = CASE s.o \in RunPaths -> PrependDir(s.v, RcFileDir)
                           [] s.o = "showdots" -> FlagIn(s.v)
                           [] OTHER -> s.v]

(* Append a copy of current to the list; the first record of a server       *)
(* leads the others.                                                        *)
HostAlloc(p, b) ==
  [p EXCEPT !.hosts = Append(@, b @@ [lead |-> ~p.trailer, active |-> FALSE])]

RecordCurrent(p) == [HostAlloc(p, p.current) EXCEPT !.trailer = TRUE]

ResetServer_KeepsTrailer(p, name, skip) ==
  [p EXCEPT !.where = "server",
            !.current = Cleared @@ [name |-> name, skip |-> skip]]

ResetServer(p, name, skip) ==
  [p EXCEPT !.trailer = FALSE, !.where = "server",
            !.current = Cleared @@ [name |-> name, skip |-> skip]]

UserReset_Nothing(p) == p

(* Clear the user options, keep the server's. *)
UserReset(p) ==
  [p EXCEPT !.current =
     [@ EXCEPT !.sc = [o \in DOMAIN @ \cap ServScalars |-> @[o]],
               !.ls = [o \in DOMAIN @ \cap ServLists |-> @[o]]]]

(* The reductions that the next token brings about: a server without users  *)
(* is recorded, and so is each user entry.                                  *)
Close(p) ==
  CASE p.where = "server" -> [RecordCurrent(p) EXCEPT !.where = "top"]
    [] p.where \in {"user1", "user0"} ->
         [UserReset(RecordCurrent(p)) EXCEPT !.where = "top"]
    [] OTHER -> p

YyError(p) == [p EXCEPT !.err = TRUE]

DefineServer(p, s) ==
  LET q == Close(p)
  IN  CASE s.t = "poll" -> ResetServer(q, s.n, FALSE)
        [] s.t = "skip" -> ResetServer(q, s.n, TRUE)
        [] s.t = "defaults" -> ResetServer(q, DefaultsName, FALSE)

(* Services are numbers; a named service is 100000 plus its port, or        *)
(* 100000 when no port is known for it, and a number that is not positive   *)
(* becomes a string that no port belongs to.                                *)
NamedService(port) == 100000 + port

KPOP_PORT == NamedService(1109)

ServiceIn(n) == IF n < 1 THEN -1 ELSE n

(* serv_option: where the value goes. *)
ServOption(b, s) ==
  CASE s.o \in ServFlags -> Put(b, s.o, FlagIn(s.v))
    [] s.o \in ServNumbers \cup ServStrings -> Put(b, s.o, s.v)
    [] s.o \in ServLists -> SaveStr(b, s.o, s.v)
    [] s.o = "service" -> Put(b, "service", ServiceIn(s.v))
    [] s.o = "envelope" ->
         IF s.v = STRING_DISABLED THEN Put(b, "envelope", s.v)
         ELSE Put(Put(b, "envelope", s.v), "envskip", s.n)
    [] s.o = "kpop" ->
         LET pop == Put(Put(b, "protocol", P_POP3), "service", KPOP_PORT)
         IN  IF Get(b, "authenticate") = A_PASSWORD
             THEN Put(pop, "authenticate", A_KERBEROS_V4) ELSE pop
    [] s.o = "sdps" -> Put(Put(b, "protocol", P_POP3), "sdps", 1)

(* user_option; a local name of "*" (here 0) stands for every other name. *)
UserOption(b, s) ==
  CASE s.o \in UserFlags -> Put(b, s.o, FlagIn(s.v))
    [] s.o \in UserNumbers -> Put(b, s.o, NumValueIn(s.v))
    [] s.o \in UserPaths -> Put(b, s.o, PrependDir(s.v, RcFileDir))
    [] s.o \in UserStrings \ UserPaths -> Put(b, s.o, s.v)
    [] s.o = "lmtp" -> Put(b, "listener", LMTP_MODE)
    [] s.o \in UserLists ->
         IF s.o = "localnames" /\ s.v = 0 THEN Put(b, "wildcard", 1)
         ELSE SaveStr(b, s.o, s.v)

(* USERNAME opens the first user entry of a server, or a further one. *)
UserDef(p, s) ==
  IF p.where \in {"server", "user0"}
  THEN LET q == IF p.where = "user0" THEN UserReset(RecordCurrent(p)) ELSE p
       IN  [q EXCEPT !.where = "user0",
                     !.current = Put(@, "remotename", s.v)]
  ELSE YyError(p)

(* A server option after user options is the error the grammar looks for. *)
Apply(p, s) ==
  IF p.err THEN p ELSE
  CASE s.t = "set" -> SetGlobal(Close(p), s)
    [] s.t \in {"poll", "skip", "defaults"} -> DefineServer(p, s)
    [] s.t = "serv" ->
         IF p.where = "server" THEN [p EXCEPT !.current = ServOption(@, s)]
         ELSE YyError(p)
    [] s.t = "username" -> UserDef(p, s)
    [] s.t = "user" ->
         IF p.where = "top" THEN YyError(p)
         ELSE [p EXCEPT !.where = IF @ = "user0" THEN @ ELSE "user1",
                        !.current = UserOption(@, s)]

(* yyparse: every statement, then the reductions at the end of the file. *)
Parse(p, file) == Close(FoldLeft(Apply, p, file))

(***************************************************************************)
(* prc_filecheck and the opening of the file (prc_parse_file).  A path is  *)
(* described by what stat says of it.                                      *)
(***************************************************************************)
PathKinds == {"null", "stdin", "missing", "nodir", "denied", "special",
              "shared", "foreign", "unreadable", "plain"}

(* The exit status, "ok" when the file may be read.  A missing file is no   *)
(* error; a missing directory is.                                           *)
FileCheck(path, securecheck) ==
  CASE path \in {"null", "stdin", "missing"} -> "ok"
    [] path \in {"nodir", "denied"} -> "ioerr"
    [] path \in {"special", "shared", "foreign"} ->
         IF securecheck THEN "ioerr" ELSE "ok"
    [] OTHER -> "ok"

(* What parsing yields when the file cannot be read or is not there. *)
ParseFile(path, securecheck) ==
  LET st == FileCheck(path, securecheck)
  IN  IF st # "ok" THEN st
      ELSE CASE path = "missing" -> "empty" [] path = "unreadable" -> "ioerr"
             [] OTHER -> "parse"
=============================================================================
