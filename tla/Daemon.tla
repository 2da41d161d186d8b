------------------------------- MODULE Daemon -------------------------------
(***************************************************************************)
(* The daemon: the poll loop of fetchmail.c, one session of driver.c for   *)
(* each account in turn, and the sleep of idle.c between two cycles.  What *)
(* happens to single messages is the subject of Pop3Poll and ImapPoll;     *)
(* here a session is a sequence of stages that may succeed, fail or time   *)
(* out, and the concern is what one session leaves behind for the next:    *)
(* the alarm timer, the sockets, the counters of timeouts and failed       *)
(* logins, the list of oversized messages, and signals.                    *)
(***************************************************************************)
EXTENDS Integers, SequencesExt

CONSTANTS Order,          \* the accounts in the order of the run control file
          Interval,       \* polls per query of an account, 0 for none given
          Monitored,      \* accounts with an interface to monitor
          Confs,          \* records of expunge, fetchlimit, multi, daemon
          Watched,        \* accounts whose timeouts in succession are counted
          Repolls,        \* settings an account may still give up, see below
          SizesOf,        \* sizes above the limit, for each account
          WarnPeriod,     \* max_warning_poll_count: warnings / poll_interval
          MAX_TIMEOUTS, MAX_LOCKOUTS,
          NewLimit, OldLimit,   \* failed logins before the user is told
          MaxMail,        \* bound: messages that wait when a query starts
          MaxEvents       \* bound: signals and changes of the run control file

Accounts == {Order[i] : i \in DOMAIN Order}
Sizes == UNION {SizesOf[a] : a \in Accounts}

\* A login ends with PS_REPOLL when it gives up TLS (sslproto becomes "") or the
\* other mechanisms (authenticate becomes A_PASSWORD), each once in the life of
\* the process; an account has Repolls[a] of the two to give up.
MaxRepolls == 2

ASSUME ConstantsAssumption ==
    /\ Interval \in [Accounts -> Nat] /\ Monitored \subseteq Accounts
    /\ Watched \subseteq Accounts /\ Repolls \in [Accounts -> 0..MaxRepolls]
    /\ Confs \subseteq [expunge : Nat, fetchlimit : Nat, multi : BOOLEAN,
                        daemon : BOOLEAN]
    /\ WarnPeriod \in Nat /\ MAX_TIMEOUTS \in Nat /\ MAX_LOCKOUTS \in Nat
    /\ NewLimit \in Nat \ {0} /\ OldLimit \in Nat \ {0} /\ MaxMail \in Nat \ {0}
    /\ Order \in Seq(Accounts) /\ MaxEvents \in Nat

VARIABLES
    pc, conf,
    cur,                \* position in Order
    acct,               \* struct query: what an account keeps between polls
    err, sock,          \* do_session's err and mailserver_socket
    armed, timeoutcount,
    total, lockouts, maxfetch,      \* do_protocol
    lastsig, usr1,      \* the last signal, whether SIGUSR1 is ignored
    mail,               \* messages that wait on the server
    fetched, repolls,   \* bookkeeping: messages fetched and repolls in this query
    fails, timeouts, since,         \* bookkeeping, see the properties
    events

sessVars == <<err, sock, armed, timeoutcount>>
loopVars == <<total, lockouts, maxfetch>>
sigVars  == <<lastsig, usr1, events>>
mailVars == <<mail, fetched, repolls>>
noteVars == <<fails, timeouts, since>>
vars == <<pc, conf, cur, acct, sessVars, loopVars, sigVars, mailVars, noteVars>>

\* Stages of do_session; the others are places in main.
Stages == {"pre", "dns", "open", "ssl", "greet", "auth", "fetch", "logout",
           "cleanup", "closeup"}
PCs == Stages \cup {"start", "rc", "account", "session", "returned", "cycle",
                    "arm", "reset", "select", "woken", "exited"}
Errors == {"SUCCESS", "NOMAIL", "SOCKET", "AUTHFAIL", "PROTOCOL", "SYNTAX",
           "LOCKBUSY", "SERVBUSY", "REPOLL", "DNS", "MAXFETCH", "ERROR"}

AccountType ==
    [polls : Nat, wedged : BOOLEAN, authed : BOOLEAN, failcount : Nat,
     note : BOOLEAN, named : BOOLEAN, weakened : 0..MaxRepolls,
     skipped : Seq([size : Sizes, num : Nat, mark : 0..1])]

TypeOK ==
    /\ pc \in PCs /\ conf \in Confs /\ cur \in 1..(Len(Order) + 1)
    /\ acct \in [Accounts -> AccountType]
    /\ err \in Errors /\ sock \in BOOLEAN
    /\ armed \in BOOLEAN /\ timeoutcount \in 0..1
    /\ total \in 0..conf.fetchlimit /\ lockouts \in 0..MAX_LOCKOUTS
    /\ maxfetch \in Nat
    /\ lastsig \in {"none", "USR1", "CHLD"} /\ usr1 \in {"ignore", "act"}
    /\ mail \in 0..MaxMail /\ fetched \in 0..MaxMail /\ repolls \in 0..MaxRepolls
    /\ events \in 0..MaxEvents

A == Order[cur]         \* the account being polled

\* do_session's static state and the records as the parser leaves them.
Fresh == [polls |-> 0, wedged |-> FALSE, authed |-> FALSE, failcount |-> 0,
          note |-> FALSE, named |-> FALSE, weakened |-> 0, skipped |-> <<>>]

Init ==
    /\ pc = "start" /\ conf \in Confs /\ cur = 1
    /\ acct = [a \in Accounts |-> Fresh]
    /\ err = "SUCCESS" /\ sock = FALSE /\ armed = FALSE /\ timeoutcount = 0
    /\ total = 0 /\ lockouts = 0 /\ maxfetch = 0
    /\ lastsig = "none" /\ usr1 = "ignore"
    /\ mail = 0 /\ fetched = 0 /\ repolls = 0
    /\ fails = [a \in Accounts |-> 0] /\ timeouts = [a \in Accounts |-> 0]
    /\ since = [a \in Accounts |-> [s \in SizesOf[a] |-> 0]]
    /\ events = 0

\* set_timeout: a value of zero also forgets the timeouts so far.
Arm == armed' = TRUE /\ UNCHANGED timeoutcount
Disarm == armed' = FALSE /\ timeoutcount' = 0

\* Whether the user could be told: open_warning_by_mail opens the sink or it
\* does not, and the rest of the warning is sent without a check.
WarningMailed == BOOLEAN

-----------------------------------------------------------------------------
(* Oversized messages: the list ctl->skipped.                              *)

\* A build that gives a new entry no place in the next mail.
MarkOversized_Unmarked(list, s) ==
    Append(list, [size |-> s, num |-> 1, mark |-> 1])

\* mark_oversized: a new entry takes over the count of the first one.
MarkOversized(list, s) ==
    LET hits == {i \in DOMAIN list : list[i].size = s}
    IN  IF hits # {} THEN [i \in DOMAIN list |->
                              IF i \in hits THEN [list[i] EXCEPT !.mark = 1]
                              ELSE list[i]]
        ELSE Append(list, [size |-> s, mark |-> 1,
                           num |-> IF list = <<>> THEN 0 ELSE list[1].num])

\* clean_skipped_list
CleanSkipped(list) == SelectSeq(list, LAMBDA e : e.mark > 0)

\* send_size_warnings goes on only when an entry is due.
WarningDue(list) == \E i \in DOMAIN list : list[i].num = 0 /\ list[i].mark > 0

AfterWarning(list) ==
    [i \in DOMAIN list |->
        [list[i] EXCEPT !.mark = 0,
                        !.num = IF @ + 1 >= WarnPeriod THEN 0 ELSE @ + 1]]

\* The sizes a warning mail tells of.
Announced(list) ==
    {list[i].size : i \in {j \in DOMAIN list : list[j].num = 0 /\ list[j].mark > 0}}

-----------------------------------------------------------------------------
(* main                                                                    *)

\* daemonize: the process detaches, or gives up.
Start ==
    /\ pc = "start"
    /\ \/ pc' = "rc"
       \/ conf.daemon /\ pc' = "exited"
    /\ UNCHANGED <<conf, cur, acct, sessVars, loopVars, sigVars, mailVars,
                   noteVars>>

\* A changed run control file: execvp starts the program anew.
CheckRcfile ==
    /\ pc = "rc" /\ pc' = "account" /\ cur' = 1
    /\ \/ UNCHANGED <<acct, noteVars, events>>
       \/ /\ events < MaxEvents /\ events' = events + 1
          /\ acct' = [a \in Accounts |-> Fresh]
          /\ fails' = [a \in Accounts |-> 0]
          /\ timeouts' = [a \in Accounts |-> 0]
          /\ since' = [a \in Accounts |-> [s \in SizesOf[a] |-> 0]]
    /\ UNCHANGED <<conf, sessVars, loopVars, lastsig, usr1, mailVars>>

\* A build in which the first poll of a cycle is the one that is skipped.
Skips_Always(a) == conf.daemon /\ Interval[a] > 0 /\ acct[a].polls # Interval[a]

\* The interval test: poll_count++ % interval.
Skips(a) == conf.daemon /\ Interval[a] > 0 /\ acct[a].polls # 0

NextPoll(a) ==
    IF conf.daemon /\ Interval[a] > 0
    THEN [acct EXCEPT ![a].polls = (@ + 1) % Interval[a]] ELSE acct

\* interface_approve may decline a poll: the monitored link has seen no traffic
\* to speak of since the last one.  It is not asked when a signal was noted.
MayDecline(a) == a \in Monitored /\ lastsig = "none"

\* One round of the account loop: skip the account or query it.
Account ==
    /\ pc = "account" /\ cur <= Len(Order)
    /\ IF acct[A].wedged
       THEN pc' = "account" /\ cur' = cur + 1 /\ UNCHANGED <<acct, loopVars, mailVars>>
       ELSE /\ acct' = NextPoll(A)
            /\ \/ /\ Skips(A) \/ MayDecline(A)
                  /\ pc' = "account" /\ cur' = cur + 1
                  /\ UNCHANGED <<loopVars, mailVars>>
               \/ /\ ~Skips(A) /\ pc' = "session"
                  /\ total' = 0 /\ lockouts' = 0 /\ maxfetch' = conf.expunge
                  /\ mail' \in {0, MaxMail} /\ fetched' = 0 /\ repolls' = 0
                  /\ UNCHANGED cur
    /\ UNCHANGED <<conf, sessVars, sigVars, noteVars>>

\* Every account has been polled: the lists are written; then sleep.
Cycle ==
    /\ pc = "account" /\ cur > Len(Order)
    /\ pc' = IF ~conf.daemon \/ \A a \in Accounts : acct[a].wedged THEN "exited"
             ELSE "arm"
    /\ UNCHANGED <<conf, cur, acct, sessVars, loopVars, sigVars, mailVars,
                   noteVars>>

-----------------------------------------------------------------------------
(* do_protocol and do_session                                              *)

\* A build that does not lower the number of messages for the last session.
SessionLimit_Fixed == IF conf.multi THEN maxfetch ELSE conf.fetchlimit

\* How many messages the session may fetch, 0 for any number.
SessionLimit ==
    IF ~conf.multi THEN conf.fetchlimit
    ELSE IF conf.fetchlimit > 0
            /\ (maxfetch = 0 \/ maxfetch > conf.fetchlimit - total)
         THEN conf.fetchlimit - total
    ELSE maxfetch

BeginSession ==
    /\ pc = "session" /\ pc' = "pre"
    /\ maxfetch' = SessionLimit /\ err' = "SUCCESS"
    /\ UNCHANGED <<conf, cur, acct, sock, armed, timeoutcount, total, lockouts,
                   sigVars, mailVars, noteVars>>

\* Leave a stage for another one, with an error or without.
Go(e, stage) == err' = e /\ pc' = stage

Preconnect ==
    /\ pc = "pre"
    /\ \/ Go("SUCCESS", "dns") /\ Arm
       \/ Go("SYNTAX", "closeup") /\ UNCHANGED <<armed, timeoutcount>>
    /\ UNCHANGED <<conf, cur, acct, sock, loopVars, sigVars, mailVars, noteVars>>

\* The server's true name is looked up until the lookup succeeds once.
Resolve ==
    /\ pc = "dns"
    /\ \/ Go("SUCCESS", "open") /\ acct' = [acct EXCEPT ![A].named = TRUE]
          /\ UNCHANGED <<armed, timeoutcount>>
       \/ ~acct[A].named /\ Go("DNS", "closeup") /\ Disarm /\ UNCHANGED acct
    /\ UNCHANGED <<conf, cur, sock, loopVars, sigVars, mailVars, noteVars>>

Open ==
    /\ pc = "open"
    /\ \/ Go("SUCCESS", "ssl") /\ sock' = TRUE /\ Arm
       \/ Go("SOCKET", "closeup") /\ Disarm /\ UNCHANGED sock
    /\ UNCHANGED <<conf, cur, acct, loopVars, sigVars, mailVars, noteVars>>

Handshake ==
    /\ pc = "ssl" /\ Disarm
    /\ Go("SUCCESS", "greet") \/ Go("SOCKET", "cleanup")
    /\ UNCHANGED <<conf, cur, acct, sock, loopVars, sigVars, mailVars, noteVars>>

\* How kerberos_auth and kerberos5_auth fail, for an account that uses one of
\* them on the new connection.
KerberosErrors == {"AUTHFAIL", "ERROR"}

\* Kerberos and the greeting; the reply of every command stops the timer.
Greet ==
    /\ pc = "greet"
    /\ \/ Go("SUCCESS", "auth") /\ Arm
       \/ \E e \in KerberosErrors \cup {"PROTOCOL", "SOCKET", "LOCKBUSY"} :
          Go(e, "cleanup") /\ Disarm
    /\ UNCHANGED <<conf, cur, acct, sock, loopVars, sigVars, mailVars, noteVars>>

\* What a successful login changes; the user is told if he was told before.
Authorized(r) == [r EXCEPT !.authed = TRUE, !.note = FALSE, !.failcount = 0]

Limit(r) == IF r.authed THEN OldLimit ELSE NewLimit

\* A build that reports one failure too late.
Refused_Late(r, mailok) ==
    IF ~conf.daemon \/ r.note THEN r
    ELSE LET n == IF r.failcount >= Limit(r) THEN r.failcount ELSE r.failcount + 1
         IN  [r EXCEPT !.failcount = n, !.note = mailok /\ n > Limit(r)]

\* A failed login is counted until the user has been told of it.
Refused(r, mailok) ==
    IF ~conf.daemon \/ r.note THEN r
    ELSE LET n == IF r.failcount >= Limit(r) THEN r.failcount ELSE r.failcount + 1
         IN  [r EXCEPT !.failcount = n, !.note = mailok /\ n >= Limit(r)]

Authenticate ==
    /\ pc = "auth" /\ Disarm
    /\ \/ /\ Go("SUCCESS", "fetch")
          /\ acct' = [acct EXCEPT ![A] = Authorized(@)]
          /\ fails' = [fails EXCEPT ![A] = 0]
       \/ \E mailok \in WarningMailed :
          /\ Go("AUTHFAIL", "cleanup")
          /\ acct' = [acct EXCEPT ![A] = Refused(@, mailok)]
          /\ fails' = IF mailok /\ fails[A] < OldLimit THEN [fails EXCEPT ![A] = @ + 1]
                      ELSE fails
       \/ \E e \in {"LOCKBUSY", "SERVBUSY", "SOCKET", "PROTOCOL"} :
          Go(e, "cleanup") /\ UNCHANGED <<acct, fails>>
       \/ /\ acct[A].weakened < Repolls[A] /\ Go("REPOLL", "cleanup")
          /\ acct' = [acct EXCEPT ![A].weakened = @ + 1] /\ UNCHANGED fails
    /\ UNCHANGED <<conf, cur, sock, loopVars, sigVars, mailVars, timeouts, since>>

\* The range, the messages and the end of the mailbox.  k messages are
\* fetched (none or all there is room for), messages of the sizes in big are skipped, and the user is told.
Room == IF maxfetch > 0 /\ maxfetch < mail THEN maxfetch ELSE mail

Skip(big, mailok) ==
    LET marked == FoldLeft(MarkOversized, acct[A].skipped, SetToSeq(big))
        list == CleanSkipped(marked)
        due == WarningDue(list)
    IN  /\ acct' = [acct EXCEPT ![A].skipped =
                       IF due /\ mailok THEN AfterWarning(list) ELSE list]
        /\ since' = [since EXCEPT ![A] = [s \in SizesOf[A] |->
                       IF s \notin big \/ (due /\ mailok /\ s \in Announced(list)) THEN 0
                       ELSE IF mailok /\ @[s] <= WarnPeriod THEN @[s] + 1 ELSE @[s]]]

Fetch ==
    /\ pc = "fetch" /\ Disarm
    /\ \E k \in {0, Room} :
        /\ mail' = mail - k /\ fetched' = fetched + k /\ UNCHANGED repolls
        /\ \/ /\ Go(IF maxfetch > 0 /\ k = maxfetch /\ k < mail THEN "MAXFETCH"
                    ELSE IF k = 0 THEN "NOMAIL" ELSE "SUCCESS", "logout")
              /\ IF conf.daemon
                 THEN \E big \in SUBSET SizesOf[A], mailok \in WarningMailed :
                         Skip(big, mailok)
                 ELSE UNCHANGED <<acct, since>>
           \/ \E e \in {"PROTOCOL", "SOCKET", "LOCKBUSY"} :
              Go(e, "cleanup") /\ UNCHANGED <<acct, since>>
    /\ UNCHANGED <<conf, cur, sock, loopVars, sigVars, fails, timeouts>>

Logout ==
    /\ pc = "logout" /\ sock' = FALSE /\ Disarm
    /\ Go(err, "closeup") \/ Go("SOCKET", "closeup")
    /\ timeouts' = [timeouts EXCEPT ![A] = 0]
    /\ UNCHANGED <<conf, cur, acct, loopVars, sigVars, mailVars, fails, since>>

\* A build that leaves the socket of a failed session open.
CleanUp_NoClose ==
    /\ pc = "cleanup" /\ Go(err, "closeup") /\ Disarm
    /\ UNCHANGED <<conf, cur, acct, sock, loopVars, sigVars, mailVars, noteVars>>

\* The cleanUp label: the sinks and the socket are closed; closing the socket
\* stops the timer.
CleanUp ==
    /\ pc = "cleanup" /\ Go(err, "closeup") /\ sock' = FALSE
    /\ IF sock THEN Disarm ELSE UNCHANGED <<armed, timeoutcount>>
    /\ UNCHANGED <<conf, cur, acct, loopVars, sigVars, mailVars, noteVars>>

\* The timer expires: siglongjmp to the start of do_session.  The logout that
\* precedes the cleanUp of a session with errors may time out as well.
Timeout ==
    /\ \/ pc \in {"dns", "open", "ssl", "greet", "auth", "fetch", "logout"}
       \/ pc = "cleanup" /\ err \notin {"SOCKET", "REPOLL"}
    /\ Go("SOCKET", "cleanup")
    /\ timeoutcount' = timeoutcount + 1 /\ armed' = FALSE
    /\ \E mailok \in WarningMailed :
       acct' = IF timeoutcount' > MAX_TIMEOUTS /\ mailok
               THEN [acct EXCEPT ![A].wedged = TRUE] ELSE acct
    /\ timeouts' = [timeouts EXCEPT ![A] =
                       IF A \in Watched /\ @ <= MAX_TIMEOUTS THEN @ + 1 ELSE @]
    /\ UNCHANGED <<conf, cur, sock, loopVars, sigVars, mailVars, fails, since>>

\* A build that trusts the stages to have stopped the timer.
CloseUp_NoDisarm ==
    /\ pc = "closeup" /\ pc' = "returned"
    /\ UNCHANGED <<err, armed, timeoutcount, conf, cur, acct, sock, loopVars,
                   sigVars, mailVars, noteVars>>

\* The closeUp label: the wrapup command, and the timer.
CloseUp ==
    /\ pc = "closeup" /\ pc' = "returned" /\ Disarm
    /\ err' \in {err, IF err = "SUCCESS" THEN "SYNTAX" ELSE err}
    /\ UNCHANGED <<conf, cur, acct, sock, loopVars, sigVars, mailVars, noteVars>>

\* The end of do_protocol's loop; query_host calls do_protocol again on
\* PS_REPOLL, with a new totalcount.  total matters only when there is a limit.
Again ==
    /\ err \in {"MAXFETCH", "LOCKBUSY"} /\ conf.multi
    /\ conf.fetchlimit > 0 => total' < conf.fetchlimit
    /\ err = "LOCKBUSY" => lockouts < MAX_LOCKOUTS

Returned ==
    /\ pc = "returned" /\ err' = "SUCCESS"
    /\ total' = IF conf.multi /\ conf.fetchlimit > 0 /\ err # "REPOLL"
                THEN total + maxfetch ELSE 0
    /\ IF err = "REPOLL"
       THEN /\ pc' = "session" /\ lockouts' = 0 /\ maxfetch' = conf.expunge
            /\ repolls' = repolls + 1 /\ UNCHANGED <<cur, mail, fetched>>
       ELSE IF Again
       THEN /\ pc' = "session" /\ lockouts' = IF err = "LOCKBUSY" THEN lockouts + 1 ELSE 0
            /\ UNCHANGED <<cur, maxfetch, mailVars>>
       ELSE /\ pc' = "account" /\ cur' = cur + 1 /\ lockouts' = 0 /\ maxfetch' = 0
            /\ mail' = 0 /\ fetched' = 0 /\ repolls' = 0
    /\ UNCHANGED <<conf, acct, sock, armed, timeoutcount, sigVars, noteVars>>

-----------------------------------------------------------------------------
(* Sleep and signals                                                       *)

SleepVars == <<conf, cur, sessVars, loopVars, mailVars, noteVars>>

\* set_signal_handler, for SIGUSR1: ignore the signal, or note and act on it.
SetHandler(h) == usr1' = h

\* The end of interruptible_idle: signals are locked out again.
EndIdle == SetHandler("ignore")

AcceptSignals ==
    /\ pc = "arm" /\ pc' = "reset" /\ SetHandler("act")
    /\ UNCHANGED <<acct, lastsig, events, SleepVars>>

\* interruptible_idle: forget earlier signals, then wait.
ForgetSignals ==
    /\ pc = "reset" /\ pc' = "select" /\ lastsig' = "none"
    /\ UNCHANGED <<acct, usr1, events, SleepVars>>

\* The poll interval is over.
Expire ==
    /\ pc = "select" /\ pc' = "woken"
    /\ UNCHANGED <<acct, sigVars, SleepVars>>

\* The death of a child is no reason to wake up; SIGUSR1 is, and gives wedged
\* accounts another chance.
Wake ==
    /\ pc = "woken"
    /\ IF lastsig = "CHLD" THEN pc' = "reset" /\ UNCHANGED <<usr1, acct>>
       ELSE /\ pc' = "rc" /\ EndIdle
            /\ acct' = IF lastsig = "USR1"
                       THEN [a \in Accounts |-> [acct[a] EXCEPT !.wedged = FALSE]]
                       ELSE acct
    /\ UNCHANGED <<lastsig, events, SleepVars>>

Signal == events < MaxEvents /\ events' = events + 1 /\ pc # "exited"

\* The handlers of SIGUSR1 (donothing) and SIGCHLD; select returns unless the
\* signal came before it began to wait.
SignalUsr1 ==
    /\ Signal /\ usr1 = "act" /\ lastsig' = "USR1"
    /\ pc' \in IF pc = "select" THEN {"select", "woken"} ELSE {pc}
    /\ UNCHANGED <<acct, usr1, SleepVars>>

SignalChld ==
    /\ Signal /\ lastsig' = "CHLD"
    /\ pc' \in IF pc = "select" THEN {"select", "woken"} ELSE {pc}
    /\ UNCHANGED <<acct, usr1, SleepVars>>

\* terminate_run, as the handler of SIGTERM and its like.
Terminate ==
    /\ Signal /\ pc' = "exited"
    /\ UNCHANGED <<acct, lastsig, usr1, SleepVars>>

-----------------------------------------------------------------------------

Step ==
    \/ Start \/ CheckRcfile \/ Account \/ Cycle \/ BeginSession \/ Preconnect
    \/ Resolve \/ Open \/ Handshake \/ Greet \/ Authenticate \/ Fetch \/ Logout
    \/ CleanUp \/ Timeout \/ CloseUp \/ Returned
    \/ AcceptSignals \/ ForgetSignals \/ Expire \/ Wake

Next == Step \/ SignalUsr1 \/ SignalChld \/ Terminate

Spec == Init /\ [][Next]_vars

\* Every wait of the process ends: with an answer, a timeout or the interval.
FairSpec == Spec /\ WF_vars(Step)

-----------------------------------------------------------------------------
(* Properties.                                                             *)

\* A session cleans up behind itself, whichever way it ends: outside of one
\* the timer is off (its signal would terminate the run) and no socket is open.
CleansUp == pc \notin Stages \cup {"exited"} => ~armed /\ ~sock

\* The user is told of logins that keep failing, once they have failed often
\* enough and a mail to him could be sent: failures since the last good login
\* are counted across polls and across other errors.
FailuresReported ==
    conf.daemon => \A a \in Accounts : fails[a] >= Limit(acct[a]) => acct[a].note

\* --fetchlimit: the sessions of one query (do_protocol's loop), broken off or
\* locked out ones among them, fetch no more than the limit all in all.  The
\* count starts anew only where query_host repeats do_protocol on PS_REPOLL, so
\* that each repoll may add the limit once more, and there are at most
\* MaxRepolls of them.
WithinLimit ==
    conf.fetchlimit > 0 =>
        fetched <= conf.fetchlimit * (repolls + 1) /\ repolls <= MaxRepolls

\* --fetchlimit as fetchmail.man:856 has it: "the number of messages accepted
\* from a given server in a single poll".  The code does not satisfy this when
\* a later session of the poll is repolled: DaemonDisagree.cfg and README.md,
\* "Known disagreements".
WithinPollLimit == conf.fetchlimit > 0 => fetched <= conf.fetchlimit

\* The user is reminded of an oversized message in the poll that detects it
\* and again whenever the warning interval has passed.
Reminded ==
    \A a \in Accounts : \A s \in SizesOf[a] :
        since[a][s] < (IF WarnPeriod > 1 THEN WarnPeriod ELSE 1)

\* A connection that times out too often in succession is wedged.
\* The code does not satisfy this: DaemonDisagree.cfg and README.md, "Known disagreements".
TimeoutsWedge ==
    \A a \in Accounts : timeouts[a] > MAX_TIMEOUTS => acct[a].wedged

\* As long as the daemon runs every account gets its turn, whatever the other
\* servers do, and however signals interfere with the sleep.
Polled ==
    \A a \in Accounts \ Monitored :
        conf.daemon => []<>(pc = "exited" \/ (pc = "session" /\ A = a))
=============================================================================
