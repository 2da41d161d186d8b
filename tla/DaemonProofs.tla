---------------------------- MODULE DaemonProofs ----------------------------
(***************************************************************************)
(* Proofs about the daemon, for any accounts and any limits: what sessions *)
(* leave behind, the fetch limit of a query, and the report of failures.   *)
(***************************************************************************)
EXTENDS Daemon, TLAPS

-----------------------------------------------------------------------------
(* The timer and the socket.                                               *)

\* Where in do_session the timer may run and the socket may be open.
SessionInv ==
    /\ pc \in PCs /\ armed \in BOOLEAN /\ sock \in BOOLEAN
    /\ pc \in {"pre", "dns", "open", "closeup"} => ~sock
    /\ pc = "pre" => ~armed
    /\ CleansUp

\* A session that a timeout cuts off at any stage still passes through the
\* clean-up.
LEMMA SessionStep == SessionInv /\ [Next]_vars => SessionInv'
  <1> SUFFICES ASSUME SessionInv, [Next]_vars PROVE SessionInv'
    OBVIOUS
  <1> USE DEF SessionInv, CleansUp, PCs, Stages, sessVars, sigVars, Go, Arm, Disarm
  <1>1. CASE Start \/ CheckRcfile \/ Account \/ Cycle \/ BeginSession
    BY <1>1 DEF Start, CheckRcfile, Account, Cycle, BeginSession
  <1>2. CASE Preconnect
    BY <1>2 DEF Preconnect
  <1>3. CASE Resolve
    BY <1>3 DEF Resolve
  <1>4. CASE Open
    <2>1. armed' \in BOOLEAN /\ sock' \in BOOLEAN
      BY <1>4, Zenon DEF Open
    <2>2. pc' \in {"ssl", "closeup"} /\ (pc' = "closeup" => ~sock')
      BY <1>4 DEF Open
    <2> QED
      BY <2>1, <2>2
  <1>5. CASE Handshake
    BY <1>5 DEF Handshake
  <1>6. CASE Greet
    BY <1>6 DEF Greet
  <1>7. CASE Authenticate
    BY <1>7 DEF Authenticate
  <1>8. CASE Fetch
    BY <1>8 DEF Fetch
  <1>9. CASE Logout
    BY <1>9 DEF Logout
  <1>10. CASE CleanUp
    BY <1>10 DEF CleanUp
  <1>11. CASE Timeout
    BY <1>11 DEF Timeout
  <1>12. CASE CloseUp
    BY <1>12 DEF CloseUp
  <1>13. CASE Returned
    BY <1>13 DEF Returned
  <1>14. CASE AcceptSignals \/ ForgetSignals \/ Expire \/ Wake
    BY <1>14 DEF AcceptSignals, ForgetSignals, Expire, Wake, SleepVars
  <1>15. CASE SignalUsr1 \/ SignalChld \/ Terminate
    BY <1>15 DEF SignalUsr1, SignalChld, Terminate, SleepVars
  <1>16. CASE UNCHANGED vars
    BY <1>16 DEF vars
  <1> QED
    BY <1>1, <1>2, <1>3, <1>4, <1>5, <1>6, <1>7, <1>8, <1>9, <1>10, <1>11,
       <1>12, <1>13, <1>14, <1>15, <1>16 DEF Next, Step

LEMMA SessionInvariance == Spec => []SessionInv
  <1>1. Init => SessionInv
    BY DEF Init, SessionInv, CleansUp, PCs, Stages
  <1> QED
    BY <1>1, SessionStep, PTL DEF Spec

\* A session cleans up behind itself, whichever of its stages fails or times
\* out: the alarm of set_timeout is off and the socket of do_session closed
\* whenever the poll loop, the sleep or the signal handlers run.
THEOREM SessionsCleanUp == Spec => []CleansUp
  <1>1. SessionInv => CleansUp
    BY DEF SessionInv
  <1> QED
    BY <1>1, SessionInvariance, PTL

-----------------------------------------------------------------------------
(* The fetch limit.                                                        *)

\* The stages of do_session up to fetch_messages, and those after it.
Early == {"pre", "dns", "open", "ssl", "greet", "auth", "fetch"}
Late == {"logout", "cleanup", "closeup", "returned"}

\* What the calls of do_protocol before the last repoll may have fetched.
Before == conf.fetchlimit * repolls

\* Together the sessions of a query stay within the limit: `total' accounts
\* for the messages of the earlier ones since the last repoll, `maxfetch' for
\* those of this one.
LimitInv ==
    /\ conf \in Confs /\ pc \in PCs
    /\ mail \in Nat /\ fetched \in Nat /\ total \in Nat /\ maxfetch \in Nat
    /\ repolls \in Nat
    /\ conf.fetchlimit > 0 => fetched <= Before + conf.fetchlimit
    /\ ~conf.multi => total = 0
    /\ conf.fetchlimit > 0 =>
          /\ pc = "session" => fetched <= Before + total /\ total < conf.fetchlimit
          /\ pc \in Early \cup Late =>
                maxfetch > 0 /\ total + maxfetch <= conf.fetchlimit
          /\ pc \in Early => fetched <= Before + total
          /\ pc \in Late => fetched <= Before + total + maxfetch

LEMMA ConfFacts ==
  ASSUME LimitInv
  PROVE  /\ conf.fetchlimit \in Nat /\ conf.expunge \in Nat /\ conf.multi \in BOOLEAN
         /\ conf.daemon \in BOOLEAN
  BY ConstantsAssumption DEF LimitInv

\* Another repoll adds the limit once.
LEMMA BeforeGrows ==
  ASSUME NEW l \in Nat, NEW n \in Nat
  PROVE  /\ l * n \in Nat /\ l * 0 = 0
         /\ l * (n + 1) = l * n + l
  OBVIOUS

LEMMA LimitStep == LimitInv /\ [Next]_vars => LimitInv'
  <1> SUFFICES ASSUME LimitInv, [Next]_vars PROVE LimitInv'
    OBVIOUS
  <1>0. conf.fetchlimit \in Nat /\ conf.expunge \in Nat /\ conf.multi \in BOOLEAN
    BY ConfFacts
  <1>b. Before \in Nat
    BY <1>0, BeforeGrows DEF Before, LimitInv
  <1>u. UNCHANGED <<conf, repolls>> => Before' = Before
    BY DEF Before
  <1> USE <1>b DEF LimitInv, PCs, Stages, Early, Late, loopVars, mailVars,
          sessVars, sigVars, Go
  <1>1. CASE Start \/ CheckRcfile \/ Cycle
    BY <1>1, <1>u DEF Start, CheckRcfile, Cycle
  <1>2. CASE Account
    <2>1. conf' = conf /\ pc = "account" /\ pc' \in {"account", "session"}
      BY <1>2 DEF Account
    <2>2. CASE pc' = "account"
      BY <1>2, <2>1, <2>2, <1>u DEF Account
    <2>3. CASE pc' = "session"
      <3>1. /\ total' = 0 /\ maxfetch' = conf.expunge /\ mail' \in {0, MaxMail}
            /\ fetched' = 0 /\ repolls' = 0
        BY <1>2, <2>3 DEF Account
      <3>2. Before' = 0
        BY <1>0, <2>1, <3>1, BeforeGrows DEF Before
      <3> QED
        BY <1>0, <2>1, <2>3, <3>1, <3>2, ConstantsAssumption
    <2> QED
      BY <2>1, <2>2, <2>3
  <1>3. CASE BeginSession
    <2>1. /\ pc = "session" /\ pc' = "pre" /\ maxfetch' = SessionLimit
          /\ UNCHANGED <<conf, total, mail, fetched, repolls>>
      BY <1>3 DEF BeginSession
    <2>2. SessionLimit \in Nat
      BY <1>0, <2>1 DEF SessionLimit
    <2>3. conf.fetchlimit > 0 => SessionLimit > 0 /\ total + SessionLimit <= conf.fetchlimit
      <3>1. SUFFICES ASSUME conf.fetchlimit > 0
                     PROVE  SessionLimit > 0 /\ total + SessionLimit <= conf.fetchlimit
        OBVIOUS
      <3> QED
        BY <1>0, <2>1, <3>1 DEF SessionLimit
    <2> QED
      BY <1>u, <2>1, <2>2, <2>3
  <1>4. CASE Preconnect \/ Resolve \/ Open \/ Handshake \/ Greet \/ Authenticate
    <2>1. /\ pc \in Early /\ pc' \in Early \cup Late
          /\ UNCHANGED <<conf, total, maxfetch, mail, fetched, repolls>>
      BY <1>4 DEF Preconnect, Resolve, Open, Handshake, Greet, Authenticate
    <2> QED
      BY <1>0, <1>u, <2>1
  <1>5. CASE Fetch
    <2>1. PICK k \in {0, Room} : mail' = mail - k /\ fetched' = fetched + k
      BY <1>5 DEF Fetch
    <2>2. /\ pc = "fetch" /\ pc' \in {"logout", "cleanup"}
          /\ UNCHANGED <<conf, total, maxfetch, repolls>>
      BY <1>5 DEF Fetch
    <2>3. Room \in Nat /\ Room <= mail /\ (maxfetch > 0 => Room <= maxfetch)
      BY DEF Room
    <2>4. k \in Nat /\ k <= mail /\ (maxfetch > 0 => k <= maxfetch)
      BY <2>3
    <2>5. mail' \in Nat /\ fetched' \in Nat
      BY <2>1, <2>4
    <2>6. conf.fetchlimit > 0 => fetched' <= Before + total + maxfetch
      BY <2>1, <2>2, <2>4
    <2> QED
      BY <1>0, <1>u, <2>2, <2>5, <2>6
  <1>6. CASE Logout \/ CleanUp \/ Timeout \/ CloseUp
    <2>1. /\ pc \in Early \cup Late /\ pc' \in Late
          /\ UNCHANGED <<conf, total, maxfetch, mail, fetched, repolls>>
      BY <1>6 DEF Logout, CleanUp, Timeout, CloseUp
    <2> QED
      BY <1>0, <1>u, <2>1
  <1>7. CASE Returned
    <2>1. /\ pc = "returned" /\ conf' = conf
          /\ total' = IF conf.multi /\ conf.fetchlimit > 0 /\ err # "REPOLL"
                      THEN total + maxfetch ELSE 0
      BY <1>7 DEF Returned
    <2>2. CASE err = "REPOLL"
      <3>1. /\ pc' = "session" /\ maxfetch' = conf.expunge /\ total' = 0
            /\ repolls' = repolls + 1 /\ UNCHANGED <<mail, fetched>>
        BY <1>7, <2>1, <2>2 DEF Returned
      <3>2. Before' = Before + conf.fetchlimit /\ Before' \in Nat
        BY <1>0, <2>1, <3>1, BeforeGrows DEF Before
      <3> QED
        BY <1>0, <2>1, <3>1, <3>2
    <2>3. CASE err # "REPOLL" /\ Again
      <3>1. /\ pc' = "session" /\ UNCHANGED <<maxfetch, mail, fetched, repolls>> /\ conf.multi
            /\ conf.fetchlimit > 0 => total' < conf.fetchlimit
        BY <1>7, <2>3 DEF Returned, Again
      <3> QED
        BY <1>0, <1>u, <2>1, <2>3, <3>1
    <2>4. CASE err # "REPOLL" /\ ~Again
      <3>1. /\ pc' = "account" /\ maxfetch' = 0 /\ mail' = 0 /\ fetched' = 0 /\ repolls' = 0
        BY <1>7, <2>4 DEF Returned
      <3>2. Before' = 0
        BY <1>0, <2>1, <3>1, BeforeGrows DEF Before
      <3> QED
        BY <1>0, <2>1, <3>1, <3>2
    <2> QED
      BY <2>2, <2>3, <2>4
  <1>8. CASE AcceptSignals \/ ForgetSignals \/ Expire \/ Wake
    BY <1>8, <1>u DEF AcceptSignals, ForgetSignals, Expire, Wake, SleepVars
  <1>9. CASE SignalUsr1 \/ SignalChld \/ Terminate
    BY <1>9, <1>u DEF SignalUsr1, SignalChld, Terminate, SleepVars
  <1>10. CASE UNCHANGED vars
    BY <1>10, <1>u DEF vars
  <1> QED
    BY <1>1, <1>2, <1>3, <1>4, <1>5, <1>6, <1>7, <1>8, <1>9, <1>10 DEF Next, Step

LEMMA LimitInvariance == Spec => []LimitInv
  <1>1. Init => LimitInv
    <2> SUFFICES ASSUME Init PROVE LimitInv
      OBVIOUS
    <2>1. conf.fetchlimit \in Nat
      BY ConstantsAssumption DEF Init
    <2>2. Before = 0
      BY <2>1, BeforeGrows DEF Init, Before
    <2> QED
      BY <2>1, <2>2 DEF Init, LimitInv, PCs, Stages, Early, Late
  <1> QED
    BY <1>1, LimitStep, PTL DEF Spec

Fields == {"polls", "wedged", "authed", "failcount", "note", "named", "weakened",
           "skipped"}

LEMMA OrderIndex ==
  ASSUME cur \in Nat, cur >= 1, cur <= Len(Order)
  PROVE  Order[cur] \in Accounts
  <1>1. DOMAIN Order = 1..Len(Order)
    BY ConstantsAssumption
  <1> QED
    BY <1>1 DEF Accounts

\* Every repoll of a query has cost the account one of its settings.
RepollInv ==
    /\ repolls \in 0..MaxRepolls /\ cur \in Nat \ {0}
    /\ DOMAIN acct = Accounts
    /\ \A a \in Accounts : DOMAIN acct[a] = Fields /\ acct[a].weakened \in 0..Repolls[a]
    /\ err = "REPOLL" => pc \in Late \cup {"exited"}
    /\ pc \in {"session"} \cup Early \cup Late =>
          /\ A \in Accounts
          /\ repolls <= acct[A].weakened
          /\ err = "REPOLL" => repolls < acct[A].weakened

\* Steps that give up no setting and leave the query alone.
Keeps ==
    /\ repolls' = repolls /\ DOMAIN acct' = Accounts
    /\ \A a \in Accounts : DOMAIN acct'[a] = Fields /\ acct'[a].weakened = acct[a].weakened

LEMMA KeepsField ==
  ASSUME RepollInv, NEW v, NEW f \in Fields \ {"weakened"}, repolls' = repolls,
         acct' = [acct EXCEPT ![A] = [@ EXCEPT ![f] = v]]
  PROVE  Keeps
  BY DEF Keeps, RepollInv, Fields

LEMMA KeepsAccounts ==
  ASSUME RepollInv, UNCHANGED <<acct, repolls>>
  PROVE  Keeps
  BY DEF Keeps, RepollInv

\* Such a step within a session, or out of one, preserves the invariant.
LEMMA RepollQuiet ==
  ASSUME RepollInv, Keeps, cur' = cur, pc \in {"session"} \cup Early \cup Late,
         pc' \in {"session"} \cup Early \cup Late,
         err' # "REPOLL" \/ (err' = err /\ pc' \in Late)
  PROVE  RepollInv'
  <1>1. A' = A
    BY DEF A
  <1> QED
    BY <1>1 DEF RepollInv, Keeps

LEMMA RepollOutside ==
  ASSUME RepollInv, Keeps, cur' \in Nat \ {0}, err' # "REPOLL" \/ pc' = "exited",
         pc' \notin {"session"} \cup Early \cup Late
  PROVE  RepollInv'
  BY DEF RepollInv, Keeps

LEMMA RepollStep == RepollInv /\ [Next]_vars => RepollInv'
  <1> SUFFICES ASSUME RepollInv, [Next]_vars PROVE RepollInv'
    OBVIOUS
  <1> USE DEF sessVars, sigVars, loopVars, mailVars, Go, Early, Late
  <1>r. pc \notin Late \cup {"exited"} => err # "REPOLL"
    BY DEF RepollInv
  <1>c. cur \in Nat \ {0}
    BY DEF RepollInv
  <1>1. CASE Start \/ Cycle
    <2>1. /\ UNCHANGED <<acct, repolls, cur, err>> /\ pc \in {"start", "account"}
          /\ pc' \in {"rc", "exited", "arm"}
      BY <1>1 DEF Start, Cycle
    <2> QED
      BY <2>1, <1>r, <1>c, KeepsAccounts, RepollOutside
  <1>2. CASE CheckRcfile
    <2>1. pc = "rc" /\ pc' = "account" /\ cur' = 1 /\ UNCHANGED <<err, repolls>>
      BY <1>2 DEF CheckRcfile
    <2>2. CASE acct' = acct
      BY <2>1, <2>2, <1>r, KeepsAccounts, RepollOutside
    <2>3. CASE acct' = [a \in Accounts |-> Fresh]
      <3>1. DOMAIN Fresh = Fields /\ Fresh.weakened = 0
        BY DEF Fresh, Fields
      <3>2. ASSUME NEW a \in Accounts PROVE Repolls[a] \in Nat
        BY ConstantsAssumption DEF MaxRepolls
      <3> QED
        BY <1>r, <2>1, <2>3, <3>1, <3>2 DEF RepollInv
    <2> QED
      BY <1>2, <2>2, <2>3 DEF CheckRcfile
  <1>3. CASE Account
    <2>0. /\ pc = "account" /\ err' = err /\ err # "REPOLL" /\ cur <= Len(Order)
          /\ acct' \in {acct, NextPoll(A)}
      BY <1>3, <1>r DEF Account
    <2>1. ASSUME repolls' = repolls PROVE Keeps
      <3>1. acct' = acct \/ \E v : acct' = [acct EXCEPT ![A] = [@ EXCEPT !["polls"] = v]]
        BY <2>0 DEF NextPoll
      <3> QED
        BY <2>1, <3>1, KeepsAccounts, KeepsField DEF Fields
    <2>2. CASE pc' = "account"
      <3>1. cur' = cur + 1 /\ repolls' = repolls
        BY <1>3, <2>2 DEF Account
      <3> QED
        BY <1>c, <2>0, <2>1, <2>2, <3>1, RepollOutside
    <2>3. CASE pc' = "session"
      <3>1. cur' = cur /\ repolls' = 0
        BY <1>3, <2>3 DEF Account
      <3>2. \A a \in Accounts : DOMAIN acct'[a] = Fields /\ acct'[a].weakened = acct[a].weakened
        <4>1. acct' = acct \/ \E v : acct' = [acct EXCEPT ![A] = [@ EXCEPT !["polls"] = v]]
          BY <2>0 DEF NextPoll
        <4> QED
          BY <4>1 DEF RepollInv, Fields
      <3>3. DOMAIN acct' = Accounts
        BY <2>0 DEF NextPoll, RepollInv
      <3>4. A' \in Accounts
        BY <1>c, <2>0, <3>1, OrderIndex DEF A, RepollInv
      <3>5. repolls' \in 0..MaxRepolls
        BY <3>1 DEF MaxRepolls
      <3>6. \A a \in Accounts : acct[a].weakened \in Nat
        BY DEF RepollInv
      <3> QED
        BY <1>c, <2>0, <2>3, <3>1, <3>2, <3>3, <3>4, <3>5, <3>6 DEF RepollInv
    <2> QED
      BY <1>3, <2>2, <2>3 DEF Account
  <1>4. CASE BeginSession \/ Preconnect \/ Open \/ Handshake \/ Greet
    <2>1. /\ UNCHANGED <<acct, repolls, cur>> /\ err' # "REPOLL"
          /\ pc \in {"session"} \cup Early /\ pc' \in Early \cup Late
      BY <1>4 DEF BeginSession, Preconnect, Open, Handshake, Greet, KerberosErrors
    <2> QED
      BY <2>1, KeepsAccounts, RepollQuiet
  <1>5. CASE Resolve
    <2>1. /\ UNCHANGED <<repolls, cur>> /\ err' # "REPOLL"
          /\ pc \in Early /\ pc' \in Early \cup Late
          /\ acct' = acct \/ acct' = [acct EXCEPT ![A] = [@ EXCEPT !["named"] = TRUE]]
      BY <1>5 DEF Resolve
    <2> QED
      BY <2>1, KeepsAccounts, KeepsField, RepollQuiet DEF Fields
  <1>6. CASE Authenticate
    <2>0. UNCHANGED <<repolls, cur>> /\ pc = "auth" /\ pc' \in {"fetch", "cleanup"}
      BY <1>6 DEF Authenticate
    <2>a. A' = A /\ A \in Accounts
      BY <2>0 DEF A, RepollInv
    <2>1. CASE err' = "REPOLL"
      <3>1. /\ acct[A].weakened < Repolls[A] /\ pc' = "cleanup"
            /\ acct' = [acct EXCEPT ![A] = [@ EXCEPT !["weakened"] = acct[A].weakened + 1]]
        BY <1>6, <2>1 DEF Authenticate
      <3>2. repolls \in Nat /\ acct[A].weakened \in Nat /\ repolls <= acct[A].weakened
        BY <2>0 DEF RepollInv
      <3>3. acct'[A].weakened = acct[A].weakened + 1
        BY <2>a, <3>1 DEF RepollInv, Fields
      <3>4. DOMAIN acct' = Accounts
        BY <3>1 DEF RepollInv
      <3>5. ASSUME NEW a \in Accounts
            PROVE  DOMAIN acct'[a] = Fields /\ acct'[a].weakened \in 0..Repolls[a]
        <4>1. CASE a = A
          <5>1. DOMAIN acct'[a] = Fields
            BY <3>1 DEF RepollInv
          <5>2. Repolls[a] \in Nat
            BY ConstantsAssumption DEF MaxRepolls
          <5> QED
            BY <3>1, <3>2, <3>3, <4>1, <5>1, <5>2
        <4>2. CASE a # A
          BY <3>1, <4>2 DEF RepollInv
        <4> QED
          BY <4>1, <4>2
      <3> QED
        BY <1>c, <2>0, <2>1, <2>a, <3>1, <3>2, <3>3, <3>4, <3>5 DEF RepollInv
    <2>2. CASE err' # "REPOLL"
      <3>1. CASE acct' = acct
        BY <2>0, <2>2, <3>1, KeepsAccounts, RepollQuiet
      <3>2. CASE acct' = [acct EXCEPT ![A] = Authorized(@)]
        <4>1. Keeps
          BY <2>0, <3>2 DEF Keeps, RepollInv, Authorized, Fields
        <4> QED
          BY <2>0, <2>2, <4>1, RepollQuiet
      <3>3. ASSUME NEW m \in WarningMailed, acct' = [acct EXCEPT ![A] = Refused(@, m)]
            PROVE  RepollInv'
        <4>1. DOMAIN Refused(acct[A], m) = Fields
              /\ Refused(acct[A], m).weakened = acct[A].weakened
          BY <2>a DEF Refused, RepollInv, Fields
        <4>2. Keeps
          BY <2>0, <3>3, <4>1 DEF Keeps, RepollInv
        <4> QED
          BY <2>0, <2>2, <4>2, RepollQuiet
      <3> QED
        BY <1>6, <2>2, <3>1, <3>2, <3>3 DEF Authenticate
    <2> QED
      BY <2>1, <2>2
  <1>7. CASE Fetch
    <2>1. /\ UNCHANGED <<cur, repolls>> /\ err' # "REPOLL"
          /\ pc \in Early /\ pc' \in Late
      BY <1>7 DEF Fetch
    <2>2. acct' = acct \/ \E v : acct' = [acct EXCEPT ![A] = [@ EXCEPT !["skipped"] = v]]
      BY <1>7 DEF Fetch, Skip
    <2> QED
      BY <2>1, <2>2, KeepsAccounts, KeepsField, RepollQuiet DEF Fields
  <1>8. CASE Logout \/ CleanUp \/ CloseUp
    <2>1. /\ UNCHANGED <<acct, repolls, cur>> /\ pc \in Late /\ pc' \in Late
          /\ err' = err \/ err' # "REPOLL"
      BY <1>8 DEF Logout, CleanUp, CloseUp
    <2> QED
      BY <2>1, KeepsAccounts, RepollQuiet
  <1>9. CASE Timeout
    <2>1. /\ UNCHANGED <<cur, repolls>> /\ err' # "REPOLL"
          /\ pc \in Early \cup Late /\ pc' \in Late
          /\ acct' = acct \/ acct' = [acct EXCEPT ![A] = [@ EXCEPT !["wedged"] = TRUE]]
      BY <1>9 DEF Timeout
    <2> QED
      BY <2>1, KeepsAccounts, KeepsField, RepollQuiet DEF Fields
  <1>10. CASE Returned
    <2>1. pc = "returned" /\ acct' = acct /\ err' = "SUCCESS"
      BY <1>10 DEF Returned
    <2>2. CASE err = "REPOLL"
      <3>1. pc' = "session" /\ repolls' = repolls + 1 /\ cur' = cur
        BY <1>10, <2>2 DEF Returned
      <3>2. A' = A /\ A \in Accounts /\ repolls < acct[A].weakened
        BY <2>1, <2>2, <3>1 DEF A, RepollInv
      <3>3. repolls \in Nat /\ acct[A].weakened \in 0..Repolls[A] /\ Repolls[A] \in 0..MaxRepolls
        BY <3>2, ConstantsAssumption DEF RepollInv, MaxRepolls
      <3>4. repolls' \in 0..MaxRepolls /\ repolls' <= acct[A].weakened
        BY <3>1, <3>2, <3>3 DEF MaxRepolls
      <3> QED
        BY <1>c, <2>1, <3>1, <3>2, <3>4 DEF RepollInv
    <2>3. CASE err # "REPOLL" /\ pc' = "session"
      <3>1. cur' = cur /\ repolls' = repolls
        BY <1>10, <2>3 DEF Returned
      <3> QED
        BY <2>1, <2>3, <3>1, KeepsAccounts, RepollQuiet
    <2>4. CASE pc' = "account"
      <3>1. cur' = cur + 1 /\ repolls' = 0
        BY <1>10, <2>4 DEF Returned
      <3> QED
        BY <1>c, <2>1, <2>4, <3>1 DEF RepollInv, MaxRepolls
    <2> QED
      BY <1>10, <2>2, <2>3, <2>4 DEF Returned
  <1>11. CASE AcceptSignals \/ ForgetSignals \/ Expire \/ Wake
    <2>1. /\ UNCHANGED <<cur, repolls, err>> /\ pc \in {"arm", "reset", "select", "woken"}
          /\ pc' \in {"reset", "select", "woken", "rc"}
      BY <1>11 DEF AcceptSignals, ForgetSignals, Expire, Wake, SleepVars
    <2>2. Keeps
      <3>1. acct' = acct \/ acct' = [a \in Accounts |-> [acct[a] EXCEPT !.wedged = FALSE]]
        BY <1>11 DEF AcceptSignals, ForgetSignals, Expire, Wake, SleepVars
      <3> QED
        BY <2>1, <3>1, KeepsAccounts DEF Keeps, RepollInv, Fields
    <2> QED
      BY <1>r, <1>c, <2>1, <2>2, RepollOutside
  <1>12. CASE SignalUsr1 \/ SignalChld \/ Terminate
    <2>1. /\ UNCHANGED <<cur, repolls, err, acct>> /\ pc' \in {pc, "exited", "woken"}
          /\ pc' = "woken" => pc \in {"select", "woken"}
      BY <1>12 DEF SignalUsr1, SignalChld, Terminate, SleepVars
    <2>2. A' = A
      BY <2>1 DEF A
    <2> QED
      BY <1>r, <2>1, <2>2 DEF RepollInv
  <1>13. CASE UNCHANGED vars
    BY <1>13 DEF vars, RepollInv, A
  <1> QED
    BY <1>1, <1>2, <1>3, <1>4, <1>5, <1>6, <1>7, <1>8, <1>9, <1>10, <1>11, <1>12,
       <1>13 DEF Next, Step

LEMMA RepollInvariance == Spec => []RepollInv
  <1>1. Init => RepollInv
    <2> SUFFICES ASSUME Init PROVE RepollInv
      OBVIOUS
    <2>1. DOMAIN Fresh = Fields /\ Fresh.weakened = 0
      BY DEF Fresh, Fields
    <2>2. ASSUME NEW a \in Accounts PROVE Repolls[a] \in Nat
      BY ConstantsAssumption DEF MaxRepolls
    <2> QED
      BY <2>1, <2>2 DEF Init, RepollInv, MaxRepolls, Early, Late
  <1> QED
    BY <1>1, RepollStep, PTL DEF Spec

\* However a query is divided into sessions (do_protocol's loop with
\* --expunge), lockouts and broken sessions included, it fetches no more
\* messages than --fetchlimit allows, once more for each time query_host
\* repeats it on PS_REPOLL, of which there are at most two: the limit of the
\* manual for every query that is not repolled, and three times it at worst.
THEOREM QueriesWithinLimit == Spec => []WithinLimit
  <1>1. LimitInv /\ RepollInv => WithinLimit
    <2> SUFFICES ASSUME LimitInv, RepollInv PROVE WithinLimit
      OBVIOUS
    <2>1. conf.fetchlimit \in Nat /\ repolls \in Nat
      BY ConfFacts DEF LimitInv
    <2>2. Before + conf.fetchlimit = conf.fetchlimit * (repolls + 1)
      BY <2>1, BeforeGrows DEF Before
    <2>3. repolls <= MaxRepolls
      BY DEF RepollInv, MaxRepolls
    <2> QED
      BY <2>2, <2>3 DEF LimitInv, WithinLimit
  <1> QED
    BY <1>1, LimitInvariance, RepollInvariance, PTL

-----------------------------------------------------------------------------
(* Failed logins.                                                          *)

\* As long as the user has not been told, the account's own count covers the
\* failures since the last login, and they are too few to tell him.
Covered(r, n) == ~r.note => n <= r.failcount /\ n < Limit(r)

FailInv ==
    /\ conf \in Confs
    /\ DOMAIN acct = Accounts /\ fails \in [Accounts -> Nat]
    /\ \A a \in Accounts : /\ DOMAIN acct[a] = Fields
                           /\ acct[a].failcount \in Nat /\ acct[a].note \in BOOLEAN
                           /\ conf.daemon => Covered(acct[a], fails[a])

\* Steps that leave the counts and the note alone.
LEMMA FailQuiet ==
  ASSUME FailInv, conf' = conf, fails' = fails, DOMAIN acct' = Accounts,
         \A a \in Accounts : /\ DOMAIN acct'[a] = Fields
                             /\ acct'[a].failcount = acct[a].failcount
                             /\ acct'[a].note = acct[a].note
                             /\ acct'[a].authed = acct[a].authed
  PROVE  FailInv'
  BY DEF FailInv, Covered, Limit

\* A change of another field is such a step.
LEMMA OtherField ==
  ASSUME FailInv, conf' = conf, fails' = fails, NEW v,
         NEW f \in {"polls", "wedged", "named", "weakened", "skipped"},
         acct' = [acct EXCEPT ![A] = [@ EXCEPT ![f] = v]]
  PROVE  FailInv'
  <1>1. DOMAIN acct' = Accounts
    BY DEF FailInv
  <1>2. ASSUME NEW a \in Accounts
        PROVE  /\ DOMAIN acct'[a] = Fields
               /\ acct'[a].failcount = acct[a].failcount
               /\ acct'[a].note = acct[a].note
               /\ acct'[a].authed = acct[a].authed
    BY DEF FailInv, Fields
  <1> QED
    BY <1>1, <1>2, FailQuiet

\* A failed login: the user is told, or the count still covers it.
LEMMA RefusedCovers ==
  ASSUME NEW r, DOMAIN r = Fields, r.failcount \in Nat, r.note \in BOOLEAN,
         NEW n \in Nat, conf.daemon => Covered(r, n), NEW mailok \in BOOLEAN,
         NEW m \in Nat, m = IF mailok /\ n < OldLimit THEN n + 1 ELSE n
  PROVE  /\ DOMAIN Refused(r, mailok) = Fields
         /\ Refused(r, mailok).failcount \in Nat /\ Refused(r, mailok).note \in BOOLEAN
         /\ conf.daemon => Covered(Refused(r, mailok), m)
  <1>0. Limit(r) \in Nat /\ OldLimit \in Nat
    BY ConstantsAssumption DEF Limit
  <1>1. CASE ~conf.daemon \/ r.note
    BY <1>1 DEF Refused, Covered
  <1>2. CASE conf.daemon /\ ~r.note
    <2> DEFINE c == IF r.failcount >= Limit(r) THEN r.failcount ELSE r.failcount + 1
               s == Refused(r, mailok)
    <2>1. s = [r EXCEPT !.failcount = c, !.note = mailok /\ c >= Limit(r)]
      BY <1>2 DEF Refused
    <2>2. /\ DOMAIN s = Fields /\ s.failcount = c /\ s.authed = r.authed
          /\ s.note = (mailok /\ c >= Limit(r))
      BY <2>1 DEF Fields
    <2>3. c \in Nat /\ c >= r.failcount /\ (c < Limit(r) => c = r.failcount + 1)
      BY <1>0
    <2>4. n <= r.failcount /\ n < Limit(r)
      BY <1>2 DEF Covered
    <2>5. Limit(s) = Limit(r)
      BY <2>2 DEF Limit
    <2>6. s.note \in BOOLEAN
      BY <2>2
    <2> HIDE DEF c, s
    <2>7. ASSUME ~s.note PROVE m <= c /\ m < Limit(r)
      <3>1. ~mailok \/ c < Limit(r)
        BY <1>0, <2>2, <2>3, <2>7
      <3> QED
        BY <1>0, <2>3, <2>4, <3>1
    <2>8. Covered(s, m)
      BY <2>2, <2>5, <2>7 DEF Covered
    <2> QED
      BY <2>2, <2>3, <2>6, <2>8 DEF s
  <1> QED
    BY <1>1, <1>2

\* The records as the parser leaves them.
LEMMA FreshCovered ==
  /\ DOMAIN Fresh = Fields /\ Fresh.failcount \in Nat /\ Fresh.note \in BOOLEAN
  /\ Covered(Fresh, 0)
  <1>1. DOMAIN Fresh = Fields
    BY DEF Fresh, Fields
  <1>2. Fresh.failcount = 0 /\ Fresh.note = FALSE /\ Fresh.authed = FALSE
    BY DEF Fresh
  <1>3. Limit(Fresh) = NewLimit
    BY <1>2 DEF Limit
  <1>4. Fresh.failcount \in Nat
    BY <1>2
  <1>5. Fresh.note \in BOOLEAN
    BY <1>2, Zenon
  <1>6. Covered(Fresh, 0)
    BY <1>2, <1>3, ConstantsAssumption DEF Covered
  <1> QED
    BY <1>1, <1>4, <1>5, <1>6

\* All accounts as new, after a start or a re-exec.
LEMMA FreshInv ==
  ASSUME conf \in Confs, acct = [a \in Accounts |-> Fresh],
         fails = [a \in Accounts |-> 0]
  PROVE  FailInv
  <1>1. DOMAIN acct = Accounts /\ fails \in [Accounts -> Nat]
    OBVIOUS
  <1>2. ASSUME NEW a \in Accounts
        PROVE  /\ DOMAIN acct[a] = Fields
               /\ acct[a].failcount \in Nat /\ acct[a].note \in BOOLEAN
               /\ Covered(acct[a], fails[a])
    <2>1. acct[a] = Fresh /\ fails[a] = 0
      OBVIOUS
    <2> QED
      BY <2>1, FreshCovered
  <1> QED
    BY <1>1, <1>2 DEF FailInv

LEMMA FailStep == FailInv /\ [Next]_vars => FailInv'
  <1> SUFFICES ASSUME FailInv, [Next]_vars PROVE FailInv'
    OBVIOUS
  <1> USE DEF noteVars, SleepVars
  <1>q. ASSUME UNCHANGED <<conf, fails, acct>> PROVE FailInv'
    BY <1>q DEF FailInv, Covered, Limit
  <1>1. CASE CheckRcfile
    <2>1. CASE UNCHANGED <<acct, noteVars, events>>
      BY <1>1, <1>q, <2>1 DEF CheckRcfile
    <2>2. CASE acct' = [a \in Accounts |-> Fresh] /\ fails' = [a \in Accounts |-> 0]
      <3>1. DOMAIN acct' = Accounts /\ fails' \in [Accounts -> Nat] /\ conf' \in Confs
        BY <1>1, <2>2 DEF CheckRcfile, FailInv
      <3>2. ASSUME NEW a \in Accounts
            PROVE  /\ DOMAIN acct'[a] = Fields
                   /\ acct'[a].failcount \in Nat /\ acct'[a].note \in BOOLEAN
                   /\ Covered(acct'[a], fails'[a])
        <4>1. acct'[a] = Fresh /\ fails'[a] = 0
          BY <2>2
        <4> QED
          BY <4>1, FreshCovered
      <3> QED
        BY <3>1, <3>2 DEF FailInv, Covered, Limit
    <2> QED
      BY <1>1, <2>1, <2>2 DEF CheckRcfile
  <1>2. CASE Account
    <2>1. UNCHANGED <<conf, fails>> /\ (acct' = acct \/ acct' = NextPoll(A))
      BY <1>2 DEF Account
    <2>2. acct' = acct \/ \E v : acct' = [acct EXCEPT ![A] = [@ EXCEPT !["polls"] = v]]
      BY <2>1 DEF NextPoll
    <2> QED
      BY <1>q, <2>1, <2>2, OtherField
  <1>3. CASE Resolve
    <2>1. /\ UNCHANGED <<conf, fails>>
          /\ acct' = acct \/ \E v : acct' = [acct EXCEPT ![A] = [@ EXCEPT !["named"] = v]]
      BY <1>3 DEF Resolve
    <2> QED
      BY <1>q, <2>1, OtherField
  <1>4. CASE Authenticate
    <2>0. conf' = conf
      BY <1>4 DEF Authenticate
    <2>1. ASSUME acct' = [acct EXCEPT ![A] = Authorized(@)], fails' = [fails EXCEPT ![A] = 0]
          PROVE  FailInv'
      <3>1. DOMAIN acct' = Accounts /\ fails' \in [Accounts -> Nat]
        BY <2>1 DEF FailInv
      <3>2. ASSUME NEW a \in Accounts, a # A
            PROVE  acct'[a] = acct[a] /\ fails'[a] = fails[a]
        BY <2>1, <3>2 DEF FailInv
      <3>3. ASSUME NEW a \in Accounts, a = A
            PROVE  /\ DOMAIN acct'[a] = Fields
                   /\ acct'[a].failcount \in Nat /\ acct'[a].note \in BOOLEAN
                   /\ Covered(acct'[a], fails'[a])
        <4>1. acct'[a] = [acct[a] EXCEPT !.authed = TRUE, !.note = FALSE, !.failcount = 0]
              /\ fails'[a] = 0
          BY <2>1, <3>3 DEF FailInv, Authorized
        <4>2. /\ DOMAIN acct'[a] = Fields /\ acct'[a].authed = TRUE
              /\ acct'[a].note = FALSE /\ acct'[a].failcount = 0
          BY <4>1 DEF FailInv, Fields
        <4>3. Limit(acct'[a]) = OldLimit
          BY <4>2 DEF Limit
        <4>4. acct'[a].failcount \in Nat
          BY <4>2
        <4>5. acct'[a].note \in BOOLEAN
          BY <4>2, Zenon
        <4> QED
          BY <4>1, <4>2, <4>3, <4>4, <4>5, ConstantsAssumption DEF Covered
      <3> QED
        BY <2>0, <3>1, <3>2, <3>3 DEF FailInv, Covered, Limit
    <2>2. ASSUME NEW mailok \in BOOLEAN,
                 acct' = [acct EXCEPT ![A] = Refused(@, mailok)],
                 fails' = IF mailok /\ fails[A] < OldLimit
                          THEN [fails EXCEPT ![A] = @ + 1] ELSE fails
          PROVE  FailInv'
      <3>1. DOMAIN acct' = Accounts /\ fails' \in [Accounts -> Nat]
        <4>1. DOMAIN acct' = Accounts
          BY <2>2 DEF FailInv
        <4>2. fails \in [Accounts -> Nat] /\ (A \in Accounts => fails[A] + 1 \in Nat)
          BY DEF FailInv
        <4>3. fails' \in [Accounts -> Nat]
          BY <2>2, <4>2
        <4> QED
          BY <4>1, <4>3
      <3>2. ASSUME NEW a \in Accounts, a # A
            PROVE  acct'[a] = acct[a] /\ fails'[a] = fails[a]
        BY <2>2, <3>2 DEF FailInv
      <3>3. ASSUME NEW a \in Accounts, a = A
            PROVE  /\ DOMAIN acct'[a] = Fields
                   /\ acct'[a].failcount \in Nat /\ acct'[a].note \in BOOLEAN
                   /\ conf.daemon => Covered(acct'[a], fails'[a])
        <4>1. /\ acct'[a] = Refused(acct[a], mailok) /\ fails'[a] \in Nat
              /\ fails'[a] = IF mailok /\ fails[a] < OldLimit THEN fails[a] + 1
                             ELSE fails[a]
          BY <2>2, <3>1, <3>3 DEF FailInv
        <4>2. /\ DOMAIN acct[a] = Fields /\ acct[a].failcount \in Nat
              /\ acct[a].note \in BOOLEAN /\ fails[a] \in Nat
              /\ conf.daemon => Covered(acct[a], fails[a])
          BY DEF FailInv
        <4> QED
          BY <4>1, <4>2, RefusedCovers
      <3> QED
        BY <2>0, <3>1, <3>2, <3>3 DEF FailInv, Covered, Limit
    <2>3. ASSUME acct' = [acct EXCEPT ![A].weakened = @ + 1], fails' = fails
          PROVE  FailInv'
      <3>1. \E v : acct' = [acct EXCEPT ![A] = [@ EXCEPT !["weakened"] = v]]
        BY <2>3
      <3> QED
        BY <2>0, <2>3, <3>1, OtherField
    <2> QED
      BY <1>4, <1>q, <2>0, <2>1, <2>2, <2>3 DEF Authenticate, WarningMailed
  <1>5. CASE Fetch
    <2>1. /\ UNCHANGED <<conf, fails>>
          /\ acct' = acct \/ \E v : acct' = [acct EXCEPT ![A] = [@ EXCEPT !["skipped"] = v]]
      BY <1>5 DEF Fetch, Skip
    <2> QED
      BY <1>q, <2>1, OtherField
  <1>6. CASE Timeout
    <2>1. /\ UNCHANGED <<conf, fails>>
          /\ acct' = acct \/ \E v : acct' = [acct EXCEPT ![A] = [@ EXCEPT !["wedged"] = v]]
      BY <1>6 DEF Timeout
    <2> QED
      BY <1>q, <2>1, OtherField
  <1>7. CASE Wake
    <2>1. UNCHANGED <<conf, fails>>
      BY <1>7 DEF Wake
    <2>2. CASE acct' = acct
      BY <1>q, <2>1, <2>2
    <2>3. CASE acct' = [a \in Accounts |-> [acct[a] EXCEPT !.wedged = FALSE]]
      <3>1. DOMAIN acct' = Accounts
        BY <2>3
      <3>2. ASSUME NEW a \in Accounts
            PROVE  /\ DOMAIN acct'[a] = Fields
                   /\ acct'[a].failcount = acct[a].failcount
                   /\ acct'[a].note = acct[a].note
                   /\ acct'[a].authed = acct[a].authed
        BY <2>3 DEF FailInv, Fields
      <3> QED
        BY <2>1, <3>1, <3>2, FailQuiet
    <2> QED
      BY <1>7, <2>2, <2>3 DEF Wake
  <1>8. CASE \/ Start \/ Cycle \/ BeginSession \/ Preconnect \/ Open \/ Handshake
             \/ Greet \/ Logout \/ CleanUp \/ CloseUp \/ Returned
    BY <1>8, <1>q DEF Start, Cycle, BeginSession, Preconnect, Open, Handshake, Greet,
       Logout, CleanUp, CloseUp, Returned
  <1>9. CASE \/ AcceptSignals \/ ForgetSignals \/ Expire
             \/ SignalUsr1 \/ SignalChld \/ Terminate \/ UNCHANGED vars
    BY <1>9, <1>q DEF AcceptSignals, ForgetSignals, Expire, SignalUsr1, SignalChld,
       Terminate, vars
  <1> QED
    BY <1>1, <1>2, <1>3, <1>4, <1>5, <1>6, <1>7, <1>8, <1>9 DEF Next, Step

\* Failed logins are reported, for whatever limits (driver.c has 3 for an
\* account that was never authorized and 10 for one that was): once the
\* failures since the last login for which a mail could be sent reach the
\* limit the user has been told, also when other errors, repolls, wakeups or
\* re-execs come in between.
THEOREM FailuresAreReported == Spec => []FailuresReported
  <1>1. Init => FailInv
    BY FreshInv DEF Init
  <1>2. ASSUME FailInv PROVE FailuresReported
    <2> SUFFICES ASSUME conf.daemon, NEW a \in Accounts, ~acct[a].note
                 PROVE  ~(fails[a] >= Limit(acct[a]))
      BY DEF FailuresReported
    <2>1. fails[a] < Limit(acct[a]) /\ fails[a] \in Nat
      BY <1>2 DEF FailInv, Covered
    <2>2. Limit(acct[a]) \in Nat
      BY ConstantsAssumption DEF Limit
    <2> QED
      BY <2>1, <2>2
  <1> QED
    BY <1>1, <1>2, FailStep, PTL DEF Spec
=============================================================================
