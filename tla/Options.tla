------------------------------- MODULE Options -------------------------------
(***************************************************************************)
(* The option fields of struct hostdata and struct query (fetchmail.h),    *)
(* the tables that say how the run control file and the command line       *)
(* write them, and the merging of two option blocks (optmerge).            *)
(*                                                                         *)
(* A block is cleared with memset, and zero in a field means that the      *)
(* option was not given.  The model keeps only the fields that are not     *)
(* zero: a block is a function whose domain is the set of the options      *)
(* given, with integers for values.  A string is a positive number, and a  *)
(* relative path is smaller than 100; the encodings of flags and numbers   *)
(* are the code's.                                                         *)
(***************************************************************************)
EXTENDS Integers, Sequences, FiniteSets, TLC

FLAG_FALSE == 1

FLAG_TRUE == 2

STRING_DISABLED == -1

CLIENT_TIMEOUT == 300

WARNING_INTERVAL == 3600

P_AUTO == 1

P_POP2 == 2

P_POP3 == 3

P_APOP == 4

P_RPOP == 5

P_IMAP == 6

P_ETRN == 7

P_ODMR == 8

SMTP_MODE == 83

LMTP_MODE == 76

A_ANY == 0

A_PASSWORD == 1

A_OTP == 4

A_KERBEROS_V4 == 5

A_KERBEROS_V5 == 6

A_GSSAPI == 7

A_SSH == 8

A_EXTERNAL == 10

(* Zero is kept apart from "not given": it is stored as -1. *)
NumValueIn(n) == IF n = 0 THEN -1 ELSE n

NumValueOut(n) == IF n < 0 THEN 0 ELSE n

(* A flag of the run control file, given as 1 (option) or 0 (no option). *)
FlagIn(b) == IF b = 1 THEN FLAG_TRUE ELSE FLAG_FALSE

(* The fields shared by the user entries of one server. *)
ServFlags == {"uidl", "checkalias", "dns", "tracepolls"}

ServNumbers == {"interval", "timeout", "authenticate", "protocol", "badheader"}

ServStrings == {"via", "principal", "esmtp_name", "esmtp_password",
                "qvirtual", "plugin", "plugout", "interface", "monitor"}

ServLists == {"akalist", "localdomains"}

ServScalars == ServFlags \cup ServNumbers \cup ServStrings
                 \cup {"service", "envelope", "envskip", "sdps"}

(* The fields of one user entry. *)
UserFlags == {"keep", "flush", "limitflush", "fetchall", "rewrite",
              "forcecr", "stripcr", "pass8bits", "dropstatus",
              "dropdelivered", "mimedecode", "idle", "use_ssl", "sslcertck"}

UserNumbers == {"limit", "warnings", "fetchlimit", "fetchsizelimit",
                "fastuidl", "batchlimit", "expunge"}

UserPaths == {"bsmtp", "sslkey", "sslcert", "sslcertfile", "sslcertpath"}

UserStrings == {"remotename", "password", "smtpaddress", "smtpname", "mda",
                "preconnect", "postconnect", "sslproto", "sslcommonname",
                "sslfingerprint", "properties"} \cup UserPaths

UserLists == {"localnames", "mailboxes", "smtphunt", "domainlist", "antispam"}

UserScalars == UserFlags \cup UserNumbers \cup UserStrings
                 \cup {"listener", "wildcard"}

Scalars == ServScalars \cup UserScalars

Lists == ServLists \cup UserLists

(* An empty block: memset(&current, '\0', sizeof(current)). *)
Cleared == [sc |-> <<>>, ls |-> <<>>]

Get(b, o) == IF o \in DOMAIN b.sc THEN b.sc[o] ELSE 0

GetList(b, o) == IF o \in DOMAIN b.ls THEN b.ls[o] ELSE <<>>

(* Assigning zero to a field leaves the option not given. *)
Put(b, o, v) ==
  [b EXCEPT !.sc = IF v # 0 THEN (o :> v) @@ @
                   ELSE [f \in DOMAIN @ \ {o} |-> @[f]]]

SaveStr(b, o, v) == [b EXCEPT !.ls = (o :> Append(GetList(b, o), v)) @@ @]

(* prependdir: a relative path is made absolute in dir.  The run control    *)
(* file's paths are relative to its directory, the command line's to the    *)
(* working directory.                                                       *)
RcFileDir == 100

CurrentWd == 200

PrependDir(file, dir) == IF file >= 100 THEN file ELSE file + dir

(***************************************************************************)
(* optmerge                                                                *)
(***************************************************************************)

(* The lists and the fields that optmerge copies.  The aliases, the ESMTP   *)
(* credentials and the SDPS flag are not among them.                        *)
MergedLists == Lists \ {"akalist"}

MergedScalars == Scalars \ {"esmtp_name", "esmtp_password", "sdps"}

(* The source's fields that take part; none of them is zero or empty. *)
Source(h1, merged) == [o \in DOMAIN h1 \cap merged |-> h1[o]]

ListMerge_Fills(h2, h1, force) == h2.ls @@ Source(h1.ls, MergedLists)

(* list_merge: with force the source's elements are added at the end. *)
ListMerge(h2, h1, force) ==
  LET src == Source(h1.ls, MergedLists)
  IN  IF force THEN [o \in DOMAIN src |-> GetList(h2, o) \o src[o]] @@ h2.ls
      ELSE h2.ls @@ src

(* FLAG_MERGE: with force the source wins wherever it is set, without it    *)
(* only fills what h2 leaves open.                                          *)
FlagMerge(h2, h1, force) ==
  LET src == Source(h1.sc, MergedScalars)
  IN  IF force THEN src @@ h2.sc ELSE h2.sc @@ src

OptMerge(h2, h1, force) ==
  [h2 EXCEPT !.sc = FlagMerge(h2, h1, force),
             !.ls = ListMerge(h2, h1, force)]

(* What the protocols need no password for: NO_PASSWORD. *)
NoPassword(b) ==
  \/ Get(b, "authenticate") \in {A_OTP, A_KERBEROS_V4, A_KERBEROS_V5,
                                 A_GSSAPI, A_SSH, A_EXTERNAL}
  \/ Get(b, "protocol") = P_ETRN

MultiDrop(b) == Get(b, "wildcard") # 0 \/ Len(GetList(b, "localnames")) > 1
=============================================================================
