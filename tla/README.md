# A TLA+ verification project for fetchmail

fetchmail polls remote mail servers (POP3, IMAP, POP2, ETRN, ODMR), hands each
message to a local SMTP/LMTP listener or delivery program, and deletes or marks
it on the server. What makes it correct is easy to say and hard to test: *no
message may disappear from the server before it has been dealt with, no message
may be skipped for good, and duplicates are the price of failures only*, over
lost connections, timeouts, signals, crashes, restarts, and users who change
their options between runs.

## 1. Inventory

| Component | State | Operations | Interacts with |
|---|---|---|---|
| poll loop, `fetchmail.c` | query list, `wedged`, `poll_count`, signals | poll cycle, wakeup, `terminate_poll`, `terminate_run`, re-exec on a changed rc file | calls `do<PROTO>`, UID lists, lock, idle |
| session driver, `driver.c` | `err`, stage, alarm, counts, `errcount`, skipped list | `do_protocol`, `do_session`, `fetch_messages`, timeouts, size warnings | a protocol's method table, sinks, transact |
| POP3 driver, `pop3.c` | `last`, `dofastuidl`, `peek_capable` | login, `pop3_getrange`, `pop3_fastuidl`, `pop3_is_old`, fetch, delete, logout | server, UID lists |
| IMAP driver, `imap.c` | `count`, `oldcount`, `recentcount`, `unseen_messages`, `expunged`, `deletions`, `preauth` | login, select, search, IDLE, fetch, store, expunge | server, other clients of the mailbox |
| ETRN, ODMR, `etrn.c`, `odmr.c` | domain list, two sockets | ask for the queue; turn the connection round and pipe it to the listener | server, listener |
| POP2, `pop2.c` | reply codes | | server |
| authentication, `pop3_getauth`, `imap_getauth`, SASL helpers | `auth`, `sslproto`, `wehaveauthed`, tags | capabilities, STARTTLS, a dozen mechanisms, fallback and repoll | server |
| sockets and TLS, `socket.c` | descriptors, contexts by descriptor, the callback's statics | open by address or plugin, handshake and verification, read, peek, write, close | server, operating system |
| message transfer, `transact.c` | header buffer, recipients, `akalist`, duplicate digest | `readheaders`, `readbody`, `gen_transact` | server, sinks, DNS |
| sinks, `sink.c`, `smtp.c` | listener socket, responses, `lmtp_responses`, pipe | open, write, close, bounce, ESMTP AUTH | driver, transact |
| UID lists, `uid.c` | `oldsaved`, `newsaved`, id file | load, mark, expunge, swap, discard, write | POP3 driver, poll loop |
| UID database, `uid_db.c` | PATRICIA trie, record array, number index | insert, find by id or number, reset, clear, free | UID lists |
| lock, `lock.c` | lock file | state, assert, take, release | other fetchmail processes |
| waiting, `idle.c`, `daemon.c` | `lastsig`, alarms | interruptible sleep, detaching | signals |
| configuration, `options.c`, `rcfile_y.y`, `fetchmail.c`, `netrc.c` | option blocks of zeros and values | parse, merge, default, check, find passwords | the user |
| configuration editor, `conf.c`, `fetchmailconf.py` | a dictionary, objects with their own defaults | dump, copy, write | control file |
| pure algorithms | none | address parsing, MIME, base64 | |
| reporting, interface monitoring | | | environment |

What is hard here: state that outlives a session (UID lists, id file, static
counters, the server's marks, a weakened `auth`) and is updated in several steps,
each of which may be the last; message numbers that mean another message in the
next session, or in the same one when another client expunges; replies that are
lost after the other side has acted; answers left unread that are then taken for
the next command's; timeouts that jump out of any read (`longjmp`); signals in the
middle of a session or of a sleep; limits that end a session early; and two
processes racing for a lock.

## 2. Modules

| Module | Models |
|---|---|
| `MailTransfer` | what any retriever promises: at-least-once transfer of messages |
| `FetchPolicy` | `fetch_messages`' decision on one message: delete, mark, leave |
| `Pop3Poll` | one POP3 account over polls, faults, terminations and restarts |
| `ImapPoll` | one IMAP account, with another client in the same mailbox |
| `Transact` | a message from the server's lines to the sink's: headers, recipients, text |
| `Login` | authentication over IMAP and POP3, from the greeting to the verdict |
| `Daemon` | the poll loop, sessions by stages, timers, limits, warnings, sleep and signals |
| `Socket` | connections: addresses, plugins, TLS, reading, closing |
| `SmtpSink` | delivery to a listener, an MDA or a BSMTP file |
| `Turn` | ETRN and ODMR, with ESMTP AUTH and the pipe |
| `UidDb` | the trie, the records and the number index of one UID database |
| `PidLock` | several fetchmail processes, the lock file and the start of `main` |
| `Options`, `RcFile`, `Config` | option blocks and their merging; the parser; start-up |
| `FetchmailConf` | the report of `--version`, the dump, and what the editor writes from it |
| `MC...` | instances for the runs |
| `Pop3PollProofs`, `ImapPollProofs`, `TurnProofs`, `SmtpSinkProofs`, `SocketProofs`, `LoginProofs`, `DaemonProofs`, `PidLockProofs` | theorems |

How they fit together: `Daemon` decides that an account is polled and in which
session; `Socket` and `Login` are the way to an authenticated connection; `Pop3Poll`,
`ImapPoll` and `Turn` are the three ways of getting at mail, and each is shown to
implement `MailTransfer`; `Transact` is what happens to one message on the way, and
`SmtpSink` where the verdict on it comes from. `Pop3Poll`, `ImapPoll` and `Transact`
share `FetchPolicy`. `Pop3Poll` takes the UID lists as functions; `UidDb` is what
makes them so. `Config` is where the options that the others take as constants come
from. `RcFile` extends `Options`, `Config` extends `RcFile`, `FetchmailConf` extends
`Config`.

### Pop3Poll and the code

A message is its own UID and its position in the order of arrival. The state is
that of the C program: `oldsaved` and `newsaved` map each UID to its status
(`"none"`: not in the list); `oldndx`, `newndx` and `top` are the two
`num_ndx` structures, whose array of records is a function from numbers to
messages; `last` and `hi` are `first_nr`/`last` and `last_nr`; `status` is
`do_session`'s `err`; `total` and `lockouts` belong to `do_protocol`; `result`
stands for `msgcode`, `suppress_delete`, `suppress_forward` and `retained`, which
are functions of it (`FetchPolicy`). `fetchids` is the id file. `mbox`,
`accessed`, `marked` and `srv` are the server: DELE marks, and only QUIT removes.
`fate` and `copies` record what the listener decided; the code does not see them.

One action is one command with its reply, one verdict of the sink, or one fault;
`pc` says which comes next:

    down -Boot-> asleep -StartPoll-> login -Login-> range
    range -ListUids|GetLast|SkipListing-> check      range -StartFastUidl-> probe -> check
    check -> get -Retrieve-> ship -> flag -> check ... -> quit -QuitDone-> polled (or login again)
    polled -EndPoll-> asleep, or -EndRun-> down

| Action | Code |
|---|---|
| `Boot`, `EndRun`, `Terminate` | `initialize_saved_lists`; `terminate_run` at the end and from a signal |
| `StartPoll`, `EndPoll` | the loop body of `main`: `dofastuidl = 0`, then fastuidl rotation, swap or discard, `uid_reset_num`, `terminate_poll` |
| `Login`, `LoginFails` | connecting and authenticating; a busy lock is `PS_LOCKBUSY` |
| `NoMail`, `SkipListing`, `GetLast`, `StartFastUidl`, `ListUids`, `ListingBreaks`, `StatFails` | `pop3_getrange` |
| `Probe`, `ProbeDone`, `ProbeFails` | `pop3_fastuidl` |
| `CheckOld`, `CheckOldByUidl`, `CheckOldFails` | `pop3_is_old` as called by `fetch_messages` |
| `SkipOversized`, `SizeFails`, `Retrieve`, `RetrieveFails` | the size check, TOP or RETR, `readheaders` |
| `Ship`, `ShipFails`, `ShipTimesOut`, `Drain` | `readbody` and `close_sink` |
| `FlagLeave`, `FlagSeen`, `FlagDelete`, `FlagDeleteNull`, `FlagDeleteFails` | the `flagthemail` label, `pop3_delete`, `mark_uid_seen` |
| `QuitDone`, `QuitFails`, `SessionLost` | `pop3_logout`, the `cleanUp` label, the timeout jump |
| `Arrive`, `ServerUpdate`, `Crash` | the environment |

`CloseSession` is the return from `do_session` into `do_protocol`'s loop and
`LoseMemory` the end of the process; both are parts of the actions above.

Three deliberate details. `ResetNdx` keeps a single entry for the highest number,
because `reset_uid_db_nums` tests `end_value < pos_0_value`. `ListingBreaks`
lets `pop3_getrange` succeed over a dead connection, because the UIDL loop ends
on any `gen_recv` failure. `FlagDeleteNull` is the null pointer `pop3_delete`
writes through when the index has no record.

### ImapPoll and the code

`count`, `oldcount`, `recentcount`, `unseen`, `expunged` and `deletions` are the static
variables of `imap.c`, and survive a session as they do there. The server's `view` is
the numbering of this session: what another client removed keeps its number until an
EXPUNGE response reports it, and what arrived has none before EXISTS. `Target` is
`number - expunged`, the number that is sent, and `Addressed` the message it means to
the server.

| Action | Code |
|---|---|
| `Login`, `Select`, `Purge`, `IdleExists`, `IdleExpunge`, `Search` | `imap_getrange` with `imap_idle`, the initial expunge and `imap_search` |
| `Exists`, `Expunge`, `InternalExpunge` (parts) | `imap_untagged_response`, `internal_expunge` with its count check |
| `Check`, `Headers`, `HeadersTransient`, `Ship`, `ShipGone` | `fetch_messages`, `imap_is_old`, the two FETCHes, the sink |
| `FlagLeave`, `FlagSeen`, `FlagDelete`, `ExpungeNow` | `imap_mark_seen`, `imap_delete` |
| `EndMailbox`, `Logout` | the repoll condition of `do_session`, `imap_end_mailbox_poll`, `imap_logout` |
| `Announce`, `OtherClient`, `OtherAccount`, `Hangup` | the server and other users; another account of the same process writes the same statics |
| `SessionLost`, `ExpungeReplyLost`, `CommandRefused`, `Restart` | faults |

### Transact and the code

A header with its continuation lines is one record: its kind, the addresses in it, its
leading dots. `hd` are the locals of `readheaders`. `StartPoll`, `ReadHeader`,
`EndOfHeader`, `Judge` (bad headers, the duplicate killer), `Address` (`ReturnPath`,
`Addressees`, `Recipients` with `find_server_names`, `is_host_alias` and `map_name`),
`ShipHeaders` (the trace and warning lines), `FetchBody`, `ReadBody`, `EndOfBody`,
`Resync` (the draining and `eat_trailer` of `driver.c`), `CloseSink`, `FlagTheMail`.
Protocols with a delimiter (POP3: dot-stuffed lines up to a dot) and with a length
(IMAP literals, whose last line may end in the middle of a server's line) are both
there.

### Login and the code

The server answers at once; answers wait in `wire` until they are read, so that a
reply nobody reads is met by the next command. `Order` is the order in which
`imap_getauth` and `pop3_getauth` try the mechanisms, `Steps` the exchange of each with
what it does about an answer that does not fit (cancel, give up, wait). `ImapStart`,
`Pop3Start`, `StartTls`, `Reprobe`, `Noop` are the way to the first mechanism;
`TryMechanism`, `Exchange`, `Cancelled`, `Final` one mechanism; `Clear`, `Pass`,
`LastAnswer` the password; `SessionEnds` what the caller makes of the result,
`PS_REPOLL` included. `Weaken` is the loss of `auth` and `sslproto` after a failed CAPA.
`Connect` notes PREAUTH in a greeting only if `stage` is still `STAGE_GETAUTH` from the
last session of this or another account (`StillGetauth`): `do_session` sets it after the
greeting (`driver.c:1155`), `imap.c:63` reads it before.
The cryptography is a verdict of the server.

### Daemon and the code

`acct` is what `struct query` keeps between polls, `armed` and `timeoutcount` the timer.
`Start`, `CheckRcfile`, `Account`, `Cycle` are `main`'s loop; `BeginSession` and `Returned`
are `do_protocol` with its fetch limit, lockouts and repeated sessions; `Preconnect` to
`Logout` are the stages of `do_session`, each of which may succeed, fail or time out
(`Timeout`: the `longjmp`), and `CleanUp` and `CloseUp` its two labels. `Returned` is also
`query_host`'s loop over `PS_REPOLL`, which runs `do_protocol` again within the same query. `MarkOversized`,
`CleanSkipped`, `WarningDue`, `AfterWarning` are the list of oversized messages. What
`open_warning_by_mail`, `interface_approve` and the two Kerberos functions come to is a
choice among their outcomes (`WarningMailed`, `MayDecline`, `KerberosErrors`).
`AcceptSignals`, `ForgetSignals`, `Expire`, `Wake` are `interruptible_idle`, where a
signal may arrive between any two lines.

### Socket and the code

Descriptors are handed out lowest first, so numbers are reused. `Plugin`, `Exec`,
`Resolve`, `TryAddress`, `Connect`, `UnixOpen` open one; `SSLOpen`, `Verify`,
`HandshakeDone`, `StartTls` are `SSLOpen` and `SSL_verify_callback` with their static
variables; `SslFails` is what the callers make of a failure, among them the session that goes
on in plaintext when the upgrade was opportunistic; `NameMatch` is `x509_name_match.c`; `SockRead`, `Peek`, `ReadSome`, `ReadFails`,
`SockPeek`, `SockPrintf`, `SockWrite` the traffic; `Close`, `CleanUp`, `CloseUp`, `Timeout`
the ends. Text is a sequence of characters because the property is about where lines
are cut.

### Turn and the code

`Etrn`, `EtrnDone`, `Atrn`, `Cram`, `Logout` are the reply-code machines, `Ehlo` and the
`Auth...` actions `SMTP_ehlo` and `SMTP_auth`; `PipeServer`, `PipeListener`, `PipeEnds`,
`SelectFails` are the loop of `odmr_getrange`. `fromServer`, `decoded` (what TLS has
decrypted and `select` does not see), `fromListener`, `toServer`, `toListener` are the
lines under way. Server and listener are external. In `SMTP_auth` only the last read has
an alarm, whose outcome nobody looks at (`AuthLate`); without one (`smtp.c:59`, `83`, `133`,
`149`) a silent server is waited for, so the model has no step there.

### UidDb and the code

Nodes, records and slots are sequences, pointers are positions in them. `UidDbInsert`
with `PatInsert`, `WalkDown`, `WalkUp`, `FindFirstDiffBit`; `SetUidDbNum`,
`ResetUidDbNums`, `ClearUidDb`; `FreePatTrie` takes one step of the freeing walk at a
time. New slots hold junk until they are cleared.

### Options, RcFile, Config, FetchmailConf and the code

A block is a function on the options that are not zero, since zero is how the code
says "not given". `RcFile` applies one statement of the grammar to the parser's globals
(`Apply`, with `RecordCurrent`, `ResetServer`, `UserReset`). `Config` goes through a start:
`ReadOption`, `EndOfOptions`, `Statement`, `EndOfFile`, `Load` (`LoadParams`: hosts named
on the command line, defaults, `optmerge`, built-in values, checks), `Passwords` and
`Ask` (`.netrc`, the prompt). `FetchmailConf` adds `Report`, `Dump` and `Edit`.

### SmtpSink and the code

The state of fetchmail is the socket (`sock`), `batchcount`, the recipients still to
be named (`todo`), taken (`good`) and taken off the list (`bad`), and
`force_transient_error`. The listener is a transaction (`state`, `taken`), the LMTP
replies it has sent and fetchmail has not read (`unread`), and the messages it has
been offered on this connection (`served`). `got`, `denied` and `told` are what
became of each message. `queue` is the mail server: a message that close_sink or
open_sink did not dispose of is offered again. Replies are six classes: an antispam
code, 552, 553, 530, any other 5xx, any 4xx; a lost connection and an
unintelligible reply are the same thing to `SMTP_ok`.

| Action | Code |
|---|---|
| `SmtpSetup`, `SetupFails` | `smtp_setup` with the batch limit, the old connection, EHLO and HELO |
| `MailFrom`, `RcptTo`, `RcptsTransient`, `RcptsDone`, `NobodyLeft`, `ToPostmaster`, `Data`, `ListenerLost` | `open_smtp_sink`, one command each |
| `RefuseAll`, `RcptReport` | `handle_smtp_report`, `handle_smtp_report_without_bounce` |
| `ShipText`, `BreakOff` | the text, and the `cleanUp` label in the middle of it |
| `EomSmtp`, `EomLost`, `EomLmtp`, `LmtpReplies`, `LmtpLost` | `close_sink` |
| `OpenBsmtp`, `OpenMda`, `CloseBsmtp`, `CloseMda` | the other two sinks |
| `EndSession` | `smtp_close` at the end of a session |

### PidLock and the code

A process goes through `fm_lock_state` (`read`, `probe`, `unlink`), the decisions of
`main` (`decide`, `wait`), `fm_lock_or_die` (`lock`, `write`, `interval`), and the
poll loop (`top`, `poll`). Each system call on the lock file is a step of its own,
because that is where the races are. The lock file is its creator and how much of
it is written. `seen` is what `fm_lock_state` has read, `held` is `lock_acquired`.
`ReadLock`, `ProbeLock` and `UnlinkStale` are `fm_lock_state`; `QuitNobody`,
`QuitOther`, `QuitWaited`, `GiveUp`, `Wakeup`, `AssertLock` and `NobodyThere` are
`main`'s reactions; `HaveLock`, `CreateLock`, `LockTaken`, `WritePid`,
`WriteInterval` and `WriteFails` are `fm_lock_or_die`; `Reexec` is the restart for a
changed rc file; `Terminated`, `Killed` and `Unlockit` are SIGTERM with and without
its handler, and `exit`.

### Abstractions

*Pop3Poll.* UIDs are unique and persistent (RFC 1939). Other clients do not delete mail in
the same mailbox. The TOP-based `pop3_slowuidl` appears only as failing. Sizes
are one bit (above the limit or not). An explicit `expunge 0` or `fetchlimit 0`
is the same as none. `force_retrieval` is always false for POP3 and is left out of
`CheckOld`.

*ImapPoll.* One folder. The search answer, flags and sizes are those of the moment of
the command. Login works or the session is lost (`Login` has the rest).

*Transact.* Text is a sequence of line records, MIME decoding and address rewriting keep
what a record holds. DNS answers are constants but for a bounded number of failures.

*Login.* The server follows the protocol but may refuse, break off or change its offer;
RPA is four rounds of which only the verdicts matter.

*Daemon.* Time is the number of polls. `Repolls` says how often a session of the account
may still be answered by `PS_REPOLL`, each of which gives up an option of the account for
good (`pop3.c:414-431`, `698`), so that `MaxRepolls` is 2. A session fetches a number of messages, their
content does not matter. `Monitored` accounts may be passed over at any poll.

*Socket.* Two addresses, one certificate chain of depth one. `Residue` is what malloc
leaves in memory: zero bytes in the run. After a handshake that failed in an opportunistic
upgrade the server goes on with its text.

*Turn.* Two lines per message and an answer; replies to AUTH have one line in the run.

*UidDb.* Characters have `Width` bits instead of 8, ids are at most three characters.

*Config.* The lexer is left out; strings are numbers. A behaviour combines options of
one theme, so that those that touch each other meet.

*SmtpSink.* All messages have the same recipients. A connection is made or not: the
hunt list is one host. Replies after a timeout are not modelled, because a timeout
closes the connection (but for `sink.c:1452`). A bounce goes out or not;
its own dialogue is not modelled. An MDA that reads the end of its input in the
middle of a message is taken to deliver nothing, and being in a BSMTP file counts as
delivered. `softbounce` and `keep` belong to `FetchPolicy`.

*PidLock.* Pids are not recycled. The fork of `daemonize` is not a step of its own,
`fm_lock_setup` (the name of the file) is left out, and every command line names at
least one host.

## 3. Runs

| Run | Instance | Checks |
|---|---|---|
| `pop3_safety` | 3 messages (one oversized), 2 faults, 11 option records | `SeenIsSettled`, `SkippedIsSettled`, `CopiesNeedFaults`, `Transfer` |
| `pop3_live` | 3 messages, 1 fault, a server with LAST, uidl, fastuidl, fetchall | `RemovedIsSettled`, `EventuallySettled` |
| `imap_safety` | 3 messages (one oversized), 1 fault, 1 step of others | `NumbersMatch`, `NewMailNoticed`, `Transfer`, `EventuallySettled` |
| `message` | 2 faults, single- and multidrop, both kinds of protocol | `InStep`, `Faithful`, `RightRecipients` |
| `login` | 2 polls, IMAP, POP3, APOP, RPOP with every mechanism | `SidesAgree`, `PasswordGuarded`, `EachPollEnds` |
| `daemon` | 2 accounts (one with an interval), up to 4 messages, 2 repolls, 1 signal | `FailuresReported`, `WithinLimit`, `Polled` |
| `socket` | 3 polls, 2 addresses, a buffer of 4 | `LinesWhole`, `CheckedPeer`, `NothingLeft` |
| `sink_safety` | 2 messages (one without a sender), 2 recipients, 2 faults, 7 configurations | `NothingDropped`, `InStep`, `ResendNeedsFault`, `EventuallyGone` |
| `turn` | 2 messages, 3 domains, 2 sessions, 2 faults | `InStep`, `PipeFaithful`, `Transfer`, `PipeMoves` |
| `uid_db` | ids that are prefixes of others, 5 operations, then freeing | `FindsAll`, `FreedOnce`, `NumbersFound` |
| `pid_safety` | 2 processes, 7 command lines, a stale file | `MutexUnlessRobbed`, `LeftoversHarmless`, `QuitStops` |
| `config` | 12 themes, 2 options in the file and 1 on the command line | `OptionsAsTold`, `PolledAsTold`, `PasswordsBelong`, `RoundTrip` |

All of them hold.

**Bounds.** Three messages are what the binary search needs to leave a gap (seen,
unseen, seen), and what a session with an expunge limit needs to be cut short with mail
on both sides of the cut; with IMAP, what an expunge needs to shift a number that is
still to be used. Two faults allow a failure during the recovery from a failure.
`MaxCopies` saturates a counter, `MaxLockouts` and `MAX_LOCKOUTS` are 1 instead of 5,
`MAX_TIMEOUTS` 2 instead of 10, `FastMin` 1 instead of 7, so that the binary search runs
on two messages. Options may change at every start, so the lists of one option record
are read under another. Two accounts are one that is polled and one that may be
forgotten behind it; two polls of `Login` are one that changes the settings and one
that uses them; three polls of `Socket` reuse a descriptor twice. Two recipients are
the least that can be treated differently, two messages the least of which one can
disturb the other. Five operations insert enough ids for a node between two others.
Two options in a file are two that can shadow each other, over `defaults`, two servers
and two users.

**What the properties say.**

- `RemovedIsSettled`, `Transfer`: no mail is lost. `MailTransfer` is the same for POP3,
  IMAP and the queue of ODMR.
- `SeenIsSettled`: no UID is marked, in memory or on disk, before its message is
  dealt with. `SkippedIsSettled`: "not in the index" is taken for old only when it is.
- `CopiesNeedFaults`, `ResendNeedsFault`: exactly once, but for faults.
- `EventuallySettled`, `EventuallyGone`: nothing is skipped for ever. The exceptions in
  `Pop3Poll` (no `uidl`, or `fetchall`) and `ImapPoll` (a server that cannot peek, a
  session that idles over a message it put off) are what the code does.
- `NumbersMatch` (IMAP): the number that is sent means the message that was listed,
  although other clients expunge and each own expunge shifts the numbers.
- `NewMailNoticed`: what the server announced is in `recentcount` when a pass ends and
  before IDLE.
- `InStep` (in three modules), `SidesAgree`: no answer is left to be taken for the next
  command's, and what fetchmail calls a success the server does too.
- `Faithful`: the text delivered is the text in the mailbox, dots and last line
  included. `RightRecipients`: the envelope decides where it is known, and nobody gets
  mail that no line of it names.
- `PasswordGuarded`: whatever failures have done to `auth` and `sslproto`, the password goes
  only to users who chose it or left the choice, and not before TLS on the accounts
  `must_starttls` knows (`sslproto tls1`, `sslcertck`, a fingerprint). The response of RPA is
  excepted, which POP3 sends before STLS (`pop3.c:353`). The manual demands more:
  `TlsEnforced`, below.
- `EachPollEnds`, `Polled`, `QuitStops`, `PipeMoves`: polls, accounts, `--quit` and the pipe
  of ODMR (without TLS) make progress.
- `FailuresReported`: counted over polls. `WithinLimit`: counted over all sessions of a
  query, repolls included; each of the at most two repolls adds the limit once more,
  which is not what the manual says (`WithinPollLimit`, below).
- `LinesWhole`, `CheckedPeer`, `NothingLeft`: lines are cut only at newlines and at the
  buffer's end; a connection that is used passed the checks the configuration asks for;
  neither descriptors nor TLS sessions are left for the next connection.
- `NothingDropped`: a message is deleted only when each recipient has it, was refused
  it or was reported, or the postmaster has it. The exception is what the code does:
  an LMTP failure of a message without a sender is reported to nobody.
- `PipeFaithful`: the listener hears the server's lines, all and in order.
- `FindsAll`, `NumbersFound`, `FreedOnce`: the database is the map it stands for, and
  its memory is freed once.
- `MutexUnlessRobbed`, `LeftoversHarmless`: two processes poll only after one's lock file
  was removed; whatever a crash leaves, a lone process is not locked out, and a regular
  end leaves nothing.
- `OptionsAsTold`: the command line before the entry, the entry before the defaults; for
  lists it speaks of those the command line does not name, because there the code does
  not do what the manual says (`CommandLineOverrides`, below).
- `PolledAsTold`, `PasswordsBelong`, `RoundTrip`: see the definitions in
  `FetchmailConf`; the options that `RoundTrip` excepts (`Lost`) are those fetchmailconf
  does lose.

**Further properties** are stated in the modules and hold on the same instances; adding
their names to the `.cfg` checks them: `TypeOK` of every module; `DeleteHasRecord`,
`IndexMatchesServer`, `KeptIsRemembered` (`Pop3Safety.cfg`); `RemovedIsSettled`,
`SeenIsSettled`, `CopiesNeedFaults` (`ImapSafety.cfg`); `CleansUp`, `Reminded`
(`DaemonSafety.cfg`); `NoBlackhole`, `EventuallySettled` (`TransactSafety.cfg`);
`RepollsEnd`, `AuthKept` (`LoginSafety.cfg`); `ReportTrue` (`ConfigSafety.cfg`);
`PluginArgs`, `ReadEnds` (`SocketSafety.cfg`); `BatchBound` (`SinkSafety.cfg`);
`CopiesNeedFaults`, `AllAsked` (`TurnSafety.cfg`); `TrieShape`, `FreeEnds`
(`UidDbSafety.cfg`). They are of smaller interest, or implied, or proved in section 4.

**Fairness** (`FairSpec`): weak fairness of what fetchmail does by itself, of the
server's part of QUIT, and of noticing a dead connection. The program is
sequential and every wait on a server of mail has a timeout, so it always goes on; a daemon polls
again after its interval, and a process that ended is started again by its owner
or by cron. Faults, other clients and signals are never fair: they happen at most as
often as their bound says, which stands for "the network works in the long run". In
`SmtpSink`, `ImapPoll`, `Transact`, `Login` and `Daemon` the steps of the client are fair
for the same reasons. In `Socket` a read is fair when data has arrived, when the peer
has closed, or when there is a timeout. In `Turn` the pipe is fair because `select` returns
when a line is there, and the two peers go on with a transaction they have begun, as
the timeouts of SMTP servers make them. In
`PidLock` a process that has started goes on, and a pending signal is delivered, both
by the operating system; starting, crashing and re-executing are never fair.

### Known disagreements

Statements of the manual or of a comment that the code does not satisfy. Each is a
definition in the module and a `.cfg` with which TLC shows a counterexample (not
among the runs above, which all pass); the four that have two statements are run with
`tlc -continue`, which does not stop at the first:

| `.cfg` | Statement | What happens |
|---|---|---|
| `Pop3Disagree` (`MCPop3Poll`) | `SoftBounceKeeps`: "All permanent delivery errors cause messages to be left on the upstream server" (`fetchmail.man:208`) | a refusal after the end of data makes `close_sink` return TRUE (`sink.c:1430-1435`), `suppress_forward` is not set, and the message is deleted |
| `Pop3Disagree` (`MCPop3Poll`) | `DeleteHasRecord`: "Each time a message is deleted, we mark its id" (`uid.c:54`) | without `uidl`, with `fetchall` or on a server with LAST, there is no record, and `pop3_delete` writes through the null pointer (`pop3.c:1374`) |
| `ImapNoPeek` (`MCImapPoll`) | `ForcedRetrieval`: "This is not acceptable. We compensate for this by checking the error count" (`driver.c:486-492`) | `ctl->errcount` is cleared at `driver.c:1299` before it is read, and a message whose delivery failed once is skipped for ever; the same with POP3 servers that have LAST |
| `SinkLmtp` (`MCSmtpSink`) | `PostmasterOnce`: "otherwise the message will get left in the queue and resent" (`sink.c:1444-1446`) | a message taken for the postmaster only has `lmtp_responses` 0 (`sink.c:1090`) and is sent again by every poll |
| `PidMutex` (`MCPidLock`) | `Mutex`: "Only one daemon process is permitted per user" (`fetchmail.man:1371`) | a second process that reads the lock file between `open` and `write` finds no pid and removes it (`lock.c:94-99`) |
| `PidRestart` (`MCPidLock`) | `RestartSurvives`: "fetchmail rereads it and restarts from scratch" (`fetchmail.man:1461-1463`) | a daemon for named hosts finds its own pid in the lock file and exits (`fetchmail.c:529`) |
| `PidIds` (`MCPidLock`) | `FreshIds`: "will first kill a running daemon process and then continue" (`fetchmail.man:1394-1396`) | the id file was read before (`fetchmail.c:380`), and what the killed daemon saved is lost |
| `DaemonDisagree` (`MCDaemon`) | `TimeoutsWedge`: "If a given connection receives too many timeouts in succession, fetchmail will consider it wedged" (`fetchmail.man:365-368`) | every line received resets `timeoutcount` (`driver.c:922` tests it), so a server that greets and then hangs is polled for ever |
| `DaemonDisagree` (`MCDaemon`) | `WithinPollLimit`: "Limit the number of messages accepted from a given server in a single poll" (`fetchmail.man:855-856`) | a later session of a poll that fails with `PS_REPOLL` (`pop3.c:428`, `698`) makes `query_host` run `do_protocol` again (`fetchmail.c:1545-1547`), whose `totalcount` starts at zero |
| `DaemonWarnings` (`MCDaemon`) | `Reminded` with two sizes: "re-notification is suppressed until after the warning interval elapses" (`fetchmail.man:833-836`) | a size that joins the list takes over the age of the first entry (`driver.c:393-429`) |
| `TransactDisagree` (`MCTransact`) | `NoBlackhole`: "Better to pass the occasional duplicate" (`transact.c:990-992`) | the digest is stored before the message is delivered (`transact.c:1014`): after a failed delivery the retry is a duplicate and is deleted |
| `TransactDisagree` (`MCTransact`) | `AliasesAreReal`: "determine whether name is a DNS alias of the mailserver" (`checkalias.c:87`) | a name whose MX lookup fails is added to `akalist` (`checkalias.c:228-245`) |
| `LoginDisagree` (`MCLogin`) | `TlsEnforced`: every word of `sslproto` but `''` enforces TLS, and so does `sslcertck` (`fetchmail.man:496-528`, `533`) | `must_starttls` knows `tls1`, `sslcertck` and `sslfingerprint` only (`starttls.c:28-32`): with `auto` or `tls1.2` a CAPA or STLS that fails is followed by the password in clear; and RPA is tried before STLS in any case (`pop3.c:353`) |
| `LoginDisagree` (`MCLogin`) | `PreauthIsFresh`: "reset for the next session" (`imap.c:430`) | a session that fails between the greeting and `imap.c:428` leaves `preauth` set |
| `ConfigOverride` (`MCConfig`) | `CommandLineOverrides`: "Command-line options override ~/.fetchmailrc declarations" (`fetchmail.man:144`) | lists are appended (`fetchmail.c:953-957`) |

Also seen, without a definition: a stale lock file in a directory that cannot be
written to keeps every later process out (`DirWritable = FALSE` and `AloneStarts`); 530
at RCPT is permanent though it is temporary elsewhere (`sink.c:544-549`, `sink.c:627`); a
message broken off in a BSMTP file has no final dot (`sink.c:1333`); softbounce with a
fetch limit starves the mail behind the refused messages (`driver.c:837`);
`parse_plugin` leaves bytes of `malloc` between the command and its end (`socket.c:105`:
`PluginArgs` with another `Residue`); a descriptor equal to `FD_SETSIZE` passes the test
(`socket.c:609`); over TLS the pipe of ODMR may wait for a line it has
(`odmr.c:163`, `NothingStuck` without the exception), and a `select` that times out
returns 0 and loops; multi-line replies to AUTH put `SMTP_auth` out of step
(`smtp.c:83`, `InStep` with `ReplyLines = {1, 2}`), and so does an answer that comes after
the alarm of its last read (`smtp.c:111`, `127`, `164`); its other reads have no alarm
(`smtp.c:190` has switched it off); a `sslproto` word that is not known ends the program
(`socket.c:1024-1030`); a domain without mail ends the asking
for the rest (`etrn.c:85`); `no tracepolls` and `no showdots` switch on, because
`FLAG_FALSE` is not zero (`rcfile_y.y:236`, `transact.c:1255`); zero cannot override a
default (`timeout 0`, `interval 0`, `bad-header reject`); a second `defaults` record right
after the first is taken for a host (`fetchmail.c:1165`).

## 4. Proofs

The theorems hold for every value of the constants: any number of messages, faults,
copies, recipients and processes, every text, certificate chain and set of options, every
threshold. The assumptions are the named ASSUMEs of the modules: bounds are naturals and
limits positive ones, options and certificates are well-typed records, the recipients of
a message are finitely many and not the postmaster, model values are distinct. A theorem
that needs more says so as a hypothesis of its own, and each such hypothesis is
explained below. What is proved, by what the runs check:

| Run | Proved | Only model-checked |
|---|---|---|
| `pop3_safety`, `pop3_live` | `SeenIsSettled`, `SkippedIsSettled`, `CopiesNeedFaults`, `Transfer`, `RemovedIsSettled` | `EventuallySettled` |
| `imap_safety` | `NumbersMatch`, `NewMailNoticed`, `Transfer` | `EventuallySettled` |
| `turn` | `InStep`, `PipeFaithful`, `Transfer` | `PipeMoves` |
| `sink_safety` | `NothingDropped`, `InStep`, `ResendNeedsFault` | `EventuallyGone` |
| `socket` | `LinesWhole`, `CheckedPeer`, `NothingLeft` | |
| `login` | `SidesAgree`, `PasswordGuarded` | `EachPollEnds` |
| `daemon` | `FailuresReported`, `WithinLimit` | `Polled` |
| `pid_safety` | `MutexUnlessRobbed`, `LeftoversHarmless` | `QuitStops` |
| `message`, `uid_db`, `config` | | all |

### Pop3Poll

- `TypeCorrect` proves `TypeOK`. It is inductive together with `CursorInRange`:
  without knowing that the loop variables stay within `1..count`, `drop[num]`
  need not be a message.
- `NoMailLost`, `MarksAreTrue`, `NumbersMatch`, `SkipsAreSafe` prove
  `RemovedIsSettled`, `SeenIsSettled`, `IndexMatchesServer` and `SkippedIsSettled`.
- `PollingTransfers` proves that `Pop3Poll` implements `MailTransfer`.
- `CopiesAreOwed` and `DeletesAreRecorded` prove `CopiesNeedFaults` and `DeleteHasRecord`.

The inductive invariant is `SafetyInv`. The argument: what is DELEted in a session
is settled (`MarkedIsSettled`), because `FetchPolicy` lets a message go only when
it was forwarded, refused, too large or old (`DispositionFacts`), and each of these
results means settled (`ResultSound`). "Old" means settled because a complete
listing leaves out of the index only what is marked, and what is marked is settled
(`ListingComplete`, `SeenIsSettled`); over a listing that broke off the connection
is dead, so nothing can be deleted, and nothing is marked because both indexes have
the same gaps (`IndexesAgree`). Marks are made by number, so they need
`IndexMatchesServer`, which survives the entry that `uid_reset_num` leaves behind
because every listing starts from fresh indexes and a process that never lists has
none (`NoStrayIndex`). The binary search is never trusted for flushing
(`SearchMode`).

The hypothesis `SafeOptions` (no `flush` without `uidl` against a server with LAST)
is needed: there "old" is what the server says was retrieved once, delivered or
not, and `flush` deletes it. `SkipsAreSafe` assumes a server without LAST for the
same reason.

`CopiesAreOwed` keeps an account of each message. A message with no more copies than
faults has an excuse for one copy more; every fault gives all messages an excuse, so the
fault steps are done at once. What remains is `OnceInv`: a message with one copy more than
faults (`Unexcused`) is `Remembered`, and the connection is alive, since it dies only of a
fault. Remembered means, by where the process is: removed from the server; at hand, its
acceptance not yet noted; in the id file of a process that is down; or seen (or deleted in a
session that is still open) in the old list, and in the new one if that has been filled.
The last clause is what `uid_swap_lists` needs: the new list replaces the old one, so it must
know every message that is still on the server. It does because a session's numbers cover
the maildrop (`NumberingCovers`: an increasing numbering of as many messages as there are
reaches them all) and the listing takes over what the old list knew. `RecordInv` is about the
message at hand: marks are made through the index, so a message that is fetched must have
an entry in it (`RecordAtHand`), which holds because `pop3_is_old` takes an unlisted number for
old as soon as the list is not empty (`ListFilled`), and because the binary search asks for
the UID first. `UpdateRemoves` is why `expunge_uids` may turn "deleted" into "expunged", which
the id file leaves out: by then the message is gone.

The hypothesis `OnceOptions` (no `fetchall`, and `uidl` where the server has LAST) is needed: with
`fetchall` a kept message is fetched in every poll, and after LAST there are no records, so that
`pop3_delete` ends the process and the message is fetched again (TLC finds both). For the
users of the hypothesis that null pointer is never followed.

### ImapPoll

- `ImapTypeCorrect` proves `TypeOK`, `ImapNumbersMatch` `NumbersMatch` and
  `ImapNewMailNoticed` `NewMailNoticed`.
- `ImapNoMailLost` and `ImapSeenIsSettled` prove `RemovedIsSettled` and `SeenIsSettled`;
  `ImapTransfers` that `ImapPoll` implements `MailTransfer`.

The first three share the inductive invariant `IInv`. `ArrivalInv` orders the messages:
what is in a selected mailbox and not yet in the view is younger than all that the view or
the listing holds. `CountInv` gives the counters of `imap.c` their meaning: `count` is the
size of the view, `oldcount` at most what the view has left of the last listing, and
`recentcount` at least their difference. `RangeInv` is the heart: within
the fetch loop, what has left the view since the listing has been passed by the loop
(`listed \ view \subseteq Passed`), there are exactly `expunged` of them, and what is new
in the view is younger than all that was listed. From these three facts follows that
`number - expunged` counts to the same message as the listing did (`Nth` of a set without
some of its smallest elements), and they are kept because the server reports another
client's expunge only while the code reads it, which ends the pass or is counted.
Cardinalities of sets of messages are what the leaves need (`RemoveCounts` and the
lemmas after it).

`FateInv` is added for the mail itself: what is flagged deleted or seen is settled
(`MailInv`), what the search leaves out is (`SearchInv`), and a verdict in hand is about
the message the loop is at (`VerdictInv`, which needs `NumbersMatch`). The hypothesis
`SafeOptions` (`flush` only with a server that can peek) is needed: a FETCH without peek
sets the Seen flag before the delivery, so that a message whose delivery failed is old for
the next session, and `flush` deletes what is old. Without the hypothesis TLC refutes
`RemovedIsSettled`.

### Turn

- `LoginInStep` proves `InStep`, if the replies to AUTH have one line
  (`ReplyLines \subseteq {1}`); with longer ones TLC refutes it (see above). `InStep` itself
  excepts a login whose last reply came after the alarm.
- `PipeIsFaithful` proves `PipeFaithful`, `TurnTransfers` that a turned session implements
  `MailTransfer`.

`PipeInv` says where the lines can be. There is never more than one message under way
(`WireInv`: its first line, all of it, or the answer to it), and its copy is still in the
queue; therefore the records on the server's wire, what TLS has decoded and the pipe to
the listener have few shapes, and `FlattenSeq` is unfolded for at most two records. `FaithInv`
is `PipeFaithful` with its types, `KeptInv` that only TLS keeps lines back.

### SmtpSink

`SinkTypeCorrect`, `SinkDropsNothing`, `SinkInStep`, `SinkBatches` and `SinkResends`
prove `TypeOK`, `NothingDropped`, `InStep`, `BatchBound` and `ResendNeedsFault`. `SinkInv` adds to them what each side
knows at each command: the recipients fetchmail counts as good are those the
listener has taken (`Known`), each recipient is waiting, good, refused, or the reason
to try again (`Accounted`), and an LMTP listener sends exactly one true reply per
recipient taken (`Replies`), so that reading `lmtp_responses` of them reads them all
(`AllRead`, by cardinality). `SinkBatches` needs `Counted`, the distance between
`batchcount` and what the listener saw; `SinkResends` needs `Untouched`, that before
the first fault nobody has a message that is still queued.

### PidLock

`LockTypeCorrect` proves the types, `ExclusionUntilRobbed` proves
`MutexUnlessRobbed`. The invariant is that whoever believes the lock to be his
(`Claims`: from the `open` with `O_EXCL` on, or having read his own pid) is the
owner of the existing file unless it was taken away from him (`ClaimsHold`).

`LeftoversAreHarmless` proves `LeftoversHarmless` where the lock file can be removed
(`DirWritable`; without it a stale file does keep everybody out). `LeftInv` adds what an
owner has done before it can end (`OwnerInv`: its pid is written, it does not end regularly
with the file in place), that who polls holds the lock (`HeldInv`), and that a process
alone either reads its own pid or finds no file (`AloneInv`).

### Socket

- `PollsCleanUp` proves `NothingLeft`. `FdInv` gives every open descriptor a name by which
  an end of the poll closes it: by phase, the open ones are those of failed forks and what
  `mailserver_socket`, `smtp_socket` and `mailserver_socket_temp` name, and a TLS session
  exists only for the first of them. That a number handed out is free (`FreshIsFree`) is a
  least-element argument.
- `PeerIsChecked` proves `CheckedPeer`. `ChainInv` follows the callback along the chain:
  with `sslcertck` no error has been let pass, once the callback has seen the peer's own
  certificate (`depth0ck`) its fingerprint was compared, and when the chain is walked to
  its end its name was too. A resumed session, which never calls back, is
  caught by `Skipped`.
- `LinesAreWhole` proves `LinesWhole` for every text, every buffer of two or more and every
  way of arriving. `TextInv` is: returned lines, buffer, arrived and outstanding text
  concatenate to the server's text (or to a prefix after a hangup); the buffer holds no
  newline and has room; the character that was peeked at starts what is still unread.
  `FlattenAppend` is the lemma about the lines: appending one appends its characters.

### Login

`PasswordIsGuarded` proves `PasswordGuarded`. `GuardInv` says what a failure may have changed:
`auth` from "any" to "password" and in no other way (`Chosen`); where `must_starttls` holds of
the account as configured, neither `sslproto` nor the way through `StartTls` (`Insisted`), so
that no mechanism is tried on a connection that is not encrypted. An account that
uses RPA never gets to `StartTls`; it tries nothing else and sends nothing but RPA's response
(`RpaAlone`).

`SidesAlwaysAgree` proves `SidesAgree`, for every account, every server that follows the
protocol and any number of polls. The invariant is `SidesInv`.

- `TurnInv` and `StepInv`: as long as no helper has left an exchange in the middle and no TLS
  handshake has failed in doubt, every answer is read before the next line is sent.
- `TagInv` (IMAP): no line carries a tag newer than the client's, and an OK under the client's
  tag comes from a server that has let it in.
- `BehindInv` (POP3, which has no tags): a client that strayed reads answers to earlier lines,
  and the theorem is that it takes none of them for success. `OkInv` says that no OK
  is among the unread lines before the last response of an exchange has been
  sent. To keep that, one must know how far the client can be behind, by mechanism
  and step, and which lines it can still have to read (`LagInv`): the server says OK only to the
  last response of an exchange, and a client that is behind meets a line that is no
  challenge before it gets there, and gives up. This part was found with TLC, as an invariant
  of the instance and as an inductive one, before it was proved. `RpaInv` is the same for RPA,
  which is tried alone.
- `Agreed`: what has been taken for success is the server's. Only `do_otp` is excepted, which
  returns success without an answer.

### Daemon

`SessionsCleanUp` proves `CleansUp`: the alarm is off and the socket closed whenever the poll
loop runs. `QueriesWithinLimit` proves `WithinLimit` from the relation of `total`, `maxfetch`
and what was fetched at each stage of a session (`LimitInv`), counted from the last repoll,
and from the number of repolls: each weakens the account once more, which can be done
`MaxRepolls` times in all (`RepollInv`). `FailuresAreReported` proves
`FailuresReported`: as long as the user was not told, `authfailcount` covers the failures
that could have been reported, and they are fewer than the limit (`FailInv`).

### Induction

The induction theorems of the library take an operator and cannot be used, but its
theorem on least elements of well-founded relations (`WFMin`) takes a set. `SocketProofs`
derives from it that a nonempty set of naturals has a least element and induction over
a set of naturals (`LeastNatural`, `SetInduction`), and with these that the recursive
function in `FlattenSeq` exists and is determined (`FlatToExists`, `FlatToAgree`).

### Only model-checked

Liveness (`EventuallySettled`, `EventuallyGone`, `QuitStops`, `EachPollEnds`, `Polled`,
`PipeMoves`) is out of the prover's reach. All properties of `Transact`, `UidDb` and
`FetchmailConf`, and `KeptIsRemembered` of `Pop3Poll`, are checked by TLC on the instances
above. `UidDb.FindsAll` and `FreedOnce` are about paths in a trie and `Faithful` is about what
folds over the lines of a message yield; both, like the parser and the merging of options
in `FetchmailConf`, are induction over data. `UidDb.NumbersFound` and `Transact.InStep` are
not, and are not proved yet.

## 5. Plan

The system is modelled as far as it can be done faithfully (section 6 has the rest), and
every safety property of the polls, the sinks, the login, the pipe, the sockets, the daemon
and the lock that a run checks is proved. What is left, in this order:

1. `UidDb`: types and `NumbersFound`, from the relation of `pos0`, `end` and `slots`.
2. `Transact`: `InStep`, then `Faithful` by induction over the lines as in `SocketProofs`.
3. `ImapPoll`: its `CopiesNeedFaults`, along the account of `CopiesAreOwed`.

## 6. Not modelled

POP2: `readbody` is given the whole length although the headers have been read
(`driver.c:715`, `transact.c:1471`), so a retrieval ends only with the timeout, and what
would come after it is never reached. Character-level algorithms (`rfc822.c`,
`unmime.c`, `rfc2047e.c`, `base64.c`) and the lexer: transliterations rather than
models. Cryptography (`md5c.c`, `smb*.c`): verdicts. Interface counters and log output:
environment. The graphical part of `fetchmailconf.py`. Vendored and portability code
(`trio/`, `KAME/`, `libesmtp/`, `getopt`). The scratch list of UIDs for accounts that are
not polled, `pop3_slowuidl`, SDPS, the dialogue of a bounce and the text of mailed
warnings. `PROJECT.json` has the reason for each component.
