---------------------------- MODULE LoginProofs ----------------------------
(***************************************************************************)
(* Proofs about Login, for every set of accounts, of server offers and any *)
(* number of polls.                                                        *)
(***************************************************************************)
EXTENDS Login, WellFoundedInduction, TLAPS

-----------------------------------------------------------------------------
(* The inductive invariant.                                                *)

\* A failure may turn "any" into "password", and changes auth in no other way.
Chosen == auth = cfg.auth \/ (auth = "password" /\ cfg.auth = "any")

\* Accounts for which must_starttls holds and getauth comes as far as to ask it.
TlsDemanded ==
    /\ cfg.protocol \in {"IMAP", "POP3"} /\ ~cfg.use_ssl
    /\ cfg.protocol = "POP3" => ~cfg.rpa
    /\ cfg.sslproto = "tls1" \/ (cfg.sslproto # "" /\ cfg.certck)

\* For them no failure gives TLS up, and getauth tries no mechanism without it.
Insisted ==
    TlsDemanded =>
       /\ sslproto = cfg.sslproto /\ ~tlsdoubt
       /\ pc \notin {"noop", "clear"}
       /\ pc \in {"reprobe", "try", "exch", "cancel", "final", "user"} => tls

\* A helper at work is one of Order's, so it does not show the password.
AtMechanism == i \in Nat /\ (pc = "exch" => i \in 1..Len(Order))

\* PasswordGuarded for the accounts that are not RPA's.
Guarded ==
    \A s \in shown :
       /\ s.what = "password" =>
             cfg.auth \in {"any", "password"} \/ cfg.protocol = "RPOP"
       /\ TlsDemanded => s.tls

GuardInv == cfg \in Configs /\ Chosen /\ Insisted /\ AtMechanism /\ Guarded

-----------------------------------------------------------------------------
(* Lemmas.                                                                 *)

\* The fields of an account that decide about TLS are Booleans.
LEMMA ConfigFacts ==
    ASSUME cfg \in Configs
    PROVE  /\ cfg.use_ssl \in BOOLEAN /\ cfg.certck \in BOOLEAN /\ cfg.rpa \in BOOLEAN
           /\ cfg.auth \in Auths
           /\ cfg.protocol \in {"IMAP", "POP3", "APOP", "RPOP"}
           /\ cfg.sslproto \in {"unset", "", "auto", "tls1"}
  BY ConfigsAssumption DEF ConfigType

\* Every entry of Order is the name of a mechanism.
LEMMA OrderFacts ==
    /\ Len(Order) \in 1..6
    /\ \A n \in 1..Len(Order) : Order[n] # "password"
  BY DEF Order, Imap

\* TryMechanism's choice, the first mechanism left, exists.
LEMMA FirstTodo ==
    ASSUME i \in Nat, Todo # {}
    PROVE  (CHOOSE j \in Todo : \A n \in Todo : j <= n) \in 1..Len(Order)
  <1>1. \A j \in Todo : j \in 1..Len(Order) /\ j \in 1..6
    BY OrderFacts DEF Todo
  <1>2. \E j \in Todo : \A n \in Todo : j <= n
    <2>1. CASE 1 \in Todo  BY <2>1, <1>1
    <2>2. CASE 1 \notin Todo /\ 2 \in Todo  BY <2>2, <1>1
    <2>3. CASE {1, 2} \cap Todo = {} /\ 3 \in Todo  BY <2>3, <1>1
    <2>4. CASE {1, 2, 3} \cap Todo = {} /\ 4 \in Todo  BY <2>4, <1>1
    <2>5. CASE {1, 2, 3, 4} \cap Todo = {} /\ 5 \in Todo  BY <2>5, <1>1
    <2>6. CASE {1, 2, 3, 4, 5} \cap Todo = {}  BY <2>6, <1>1
    <2> QED BY <2>1, <2>2, <2>3, <2>4, <2>5, <2>6
  <1> QED BY <1>1, <1>2

\* Where the account, the options and what was shown stay the same, only the
\* position in getauth matters.
LEMMA Moves ==
    ASSUME GuardInv, UNCHANGED <<cfg, auth, sslproto, tlsdoubt, shown>>,
           i' \in Nat, pc' = "exch" => i' \in 1..Len(Order),
           TlsDemanded =>
              /\ pc' \notin {"noop", "clear"}
              /\ pc' \in {"reprobe", "try", "exch", "cancel", "final", "user"} => tls'
    PROVE  GuardInv'
  <1>1. Order' = Order /\ TlsDemanded' = TlsDemanded
    BY DEF Order, Imap, TlsDemanded
  <1> QED BY <1>1 DEF GuardInv, Chosen, Insisted, AtMechanism, Guarded

\* A step that sends something secret: it is not the password unless the user
\* allowed that, and the connection is as Insisted demands.
LEMMA Shows ==
    ASSUME GuardInv, UNCHANGED <<cfg, auth, sslproto, tlsdoubt, tls>>,
           NEW what, Show(what),
           what = "password" =>
              cfg.auth \in {"any", "password"} \/ cfg.protocol = "RPOP",
           pc \in {"try", "exch", "user", "clear"}, pc' \in {"exch", "final"},
           i' \in Nat, pc' = "exch" => i' \in 1..Len(Order)
    PROVE  GuardInv'
  <1>1. Order' = Order /\ TlsDemanded' = TlsDemanded
    BY DEF Order, Imap, TlsDemanded
  <1>2. TlsDemanded => tls
    BY DEF GuardInv, Insisted
  <1>3. Guarded'
    <2>1. \A s \in shown' :
             s \in shown \/ (s.what = what /\ s.tls = (tls \/ cfg.use_ssl))
      BY DEF Show
    <2> QED BY <2>1, <1>2 DEF GuardInv, Guarded, TlsDemanded
  <1>4. Insisted'
    BY <1>1, <1>2 DEF GuardInv, Insisted
  <1> QED BY <1>1, <1>3, <1>4 DEF GuardInv, Chosen, AtMechanism

-----------------------------------------------------------------------------
(* The steps preserve it.                                                  *)

LEMMA InitGuarded == Init => GuardInv
  <1> SUFFICES ASSUME Init PROVE GuardInv
    OBVIOUS
  <1>1. AtMechanism
    BY DEF Init, AtMechanism
  <1> QED BY <1>1 DEF Init, GuardInv, Chosen, Insisted, Guarded

\* MustStarttls, of the account as failures have changed it, is what the user
\* demands as long as Insisted holds.
LEMMA DemandMeans ==
    ASSUME GuardInv, TlsDemanded
    PROVE  MaybeStarttls /\ MustStarttls
  BY ConfigFacts DEF GuardInv, Insisted, TlsDemanded, MaybeStarttls, MustStarttls

LEMMA ConnectGuarded == ASSUME GuardInv, Connect PROVE GuardInv'
  <1>1. UNCHANGED <<cfg, auth, sslproto>> /\ ~tlsdoubt' /\ shown' = {} /\ pc' = "start" /\ i' = 0
    BY DEF Connect, ctlVars
  <1>2. Insisted'
    BY <1>1 DEF GuardInv, Insisted, TlsDemanded
  <1> QED BY <1>1, <1>2 DEF GuardInv, Chosen, AtMechanism, Guarded

LEMMA ImapStartGuarded == ASSUME GuardInv, ImapStart PROVE GuardInv'
  <1>1. pc' \in {"tls", "done"}
    BY DEF ImapStart, ImapCapa, Return
  <1> QED BY <1>1, Moves DEF ImapStart, ctlVars, connVars, GuardInv, AtMechanism

LEMMA Pop3StartGuarded == ASSUME GuardInv, Pop3Start PROVE GuardInv'
  <1>1. UNCHANGED <<cfg, i, tls, tlsdoubt, shown>> /\ i \in Nat
    BY DEF Pop3Start, Pop3Capa, ctlVars, connVars, GuardInv, AtMechanism
  <1>2. CASE UNCHANGED ctlVars
    <2>1. pc' \in {"done", "clear", "tls", "try"}
      BY DEF Pop3Start, Pop3Capa, Weaken, Return
    <2>2. TlsDemanded => pc' \notin {"clear", "try"}
      BY DEF Pop3Start, Pop3Capa, Weaken, Return, TlsDemanded, Imap
    <2> QED BY <1>1, <1>2, <2>1, <2>2, Moves DEF ctlVars
  <1>3. CASE ~UNCHANGED ctlVars
    <2>1. PICK r : Weaken(r)
      BY <1>3 DEF Pop3Start, Pop3Capa
    <2>2. pc' = "done"
      BY <2>1 DEF Weaken, Return
    <2>3. Chosen'
      BY <2>1, <1>1 DEF Weaken, GuardInv, Chosen
    <2>4. Insisted'
      <3>1. TlsDemanded' = TlsDemanded
        BY <1>1 DEF TlsDemanded
      <3>2. TlsDemanded => sslproto' = sslproto
        BY <2>1, DemandMeans DEF Weaken
      <3> QED BY <1>1, <2>2, <3>1, <3>2 DEF GuardInv, Insisted
    <2> QED BY <1>1, <2>2, <2>3, <2>4 DEF GuardInv, AtMechanism, Guarded, TlsDemanded
  <1> QED BY <1>2, <1>3

LEMMA StartTlsGuarded == ASSUME GuardInv, StartTls PROVE GuardInv'
  <1>1. UNCHANGED <<cfg, auth, sslproto, i, shown>> /\ i \in Nat
    BY DEF StartTls, ctlVars, GuardInv, AtMechanism
  <1>2. pc' \in {"done", "reprobe", "noop", "try"}
    BY DEF StartTls, Upgrade, Return
  <1>3. TlsDemanded =>
           /\ ~tlsdoubt' /\ pc' \in {"done", "reprobe"}
           /\ pc' = "reprobe" => tls'
    <2> SUFFICES ASSUME TlsDemanded PROVE
           /\ ~tlsdoubt' /\ pc' \in {"done", "reprobe"}
           /\ pc' = "reprobe" => tls'
      OBVIOUS
    <2>1. MaybeStarttls /\ MustStarttls /\ ~tlsdoubt
      BY DemandMeans DEF GuardInv, Insisted
    <2> QED BY <2>1 DEF StartTls, Upgrade, Return
  <1>4. Insisted'
    BY <1>1, <1>3 DEF GuardInv, Insisted, TlsDemanded
  <1> QED BY <1>1, <1>2, <1>4 DEF GuardInv, Chosen, AtMechanism, Guarded, TlsDemanded

LEMMA ReprobeGuarded == ASSUME GuardInv, Reprobe PROVE GuardInv'
  <1>1. pc' \in {"try", "done"}
    BY DEF Reprobe, ImapCapa, Return
  <1>2. TlsDemanded => tls
    BY DEF GuardInv, Insisted, Reprobe
  <1> QED BY <1>1, <1>2, Moves DEF Reprobe, ctlVars, connVars, GuardInv, AtMechanism

\* The demand keeps getauth from ever testing a connection it failed to encrypt.
LEMMA NoopGuarded == ASSUME GuardInv, Noop PROVE GuardInv'
  <1>1. ~TlsDemanded
    BY DEF GuardInv, Insisted, Noop
  <1>2. pc' \in {"try", "done"} /\ UNCHANGED <<cfg, auth, i, shown>>
    BY DEF Noop, Return
  <1> QED BY <1>1, <1>2 DEF GuardInv, Insisted, TlsDemanded, Chosen, AtMechanism, Guarded

LEMMA TryMechanismGuarded == ASSUME GuardInv, TryMechanism PROVE GuardInv'
  <1>1. i' \in 1..Len(Order)
    BY FirstTodo DEF TryMechanism, GuardInv, AtMechanism
  <1>2. pc' \in {"final", "exch", "try", "done"}
    BY DEF TryMechanism, Failed, Return
  <1>3. TlsDemanded => tls
    BY DEF GuardInv, Insisted, TryMechanism
  <1>4. i' \in Nat
    BY <1>1, OrderFacts
  <1> QED BY <1>1, <1>2, <1>3, <1>4, Moves DEF TryMechanism, ctlVars, connVars

LEMMA ExchangeGuarded == ASSUME GuardInv, Exchange PROVE GuardInv'
  <1>1. /\ UNCHANGED <<cfg, auth, sslproto, tlsdoubt, tls, i>>
        /\ i \in Nat /\ i \in 1..Len(Order) /\ pc = "exch"
    BY DEF Exchange, GuardInv, AtMechanism, ctlVars, connVars
  <1>2. TlsDemanded => tls
    BY <1>1 DEF GuardInv, Insisted
  <1>3. CASE UNCHANGED shown
    <2>1. pc' \in {"exch", "final", "cancel", "try", "done"}
      BY <1>1 DEF Exchange, Failed, Return
    <2> QED BY <1>1, <1>2, <1>3, <2>1, Moves
  <1>4. CASE ~UNCHANGED shown
    <2>1. Show(Order[i]) /\ pc' = "final"
      BY <1>4 DEF Exchange
    <2>2. Order[i] # "password"
      BY <1>1, OrderFacts
    <2> QED BY <1>1, <2>1, <2>2, Shows
  <1> QED BY <1>3, <1>4

LEMMA CancelledGuarded == ASSUME GuardInv, Cancelled PROVE GuardInv'
  <1>1. pc' \in {"try", "done"}
    BY DEF Cancelled, Failed, Return
  <1>2. TlsDemanded => tls
    BY DEF GuardInv, Insisted, Cancelled
  <1> QED BY <1>1, <1>2, Moves DEF Cancelled, ctlVars, connVars, GuardInv, AtMechanism

LEMMA FinalGuarded == ASSUME GuardInv, Final PROVE GuardInv'
  <1>1. pc' \in {"try", "done"}
    BY DEF Final, Failed, Return
  <1>2. TlsDemanded => tls
    BY DEF GuardInv, Insisted, Final
  <1> QED BY <1>1, <1>2, Moves DEF Final, ctlVars, connVars, GuardInv, AtMechanism

LEMMA ClearGuarded == ASSUME GuardInv, Clear PROVE GuardInv'
  <1>1. /\ UNCHANGED <<cfg, auth, sslproto, tlsdoubt, tls>>
        /\ i' \in Nat /\ pc \in {"try", "clear"}
    BY OrderFacts DEF Clear, ctlVars, connVars
  <1>2. TlsDemanded => tls
    BY <1>1 DEF GuardInv, Insisted
  <1>3. pc' \in {"final", "done", "user"}
    BY DEF Clear, Return
  <1>4. CASE UNCHANGED shown
    BY <1>1, <1>2, <1>3, <1>4, Moves
  <1>5. CASE ~UNCHANGED shown
    <2>1. \/ Show("password") /\ auth \in {"any", "password"} /\ pc' = "final"
          \/ Show("APOP") /\ pc' = "final"
      BY <1>5 DEF Clear, Free, Return
    <2>2. auth \in {"any", "password"} => cfg.auth \in {"any", "password"}
      BY DEF GuardInv, Chosen
    <2>3. CASE Show("password") /\ auth \in {"any", "password"} /\ pc' = "final"
      BY <1>1, <2>2, <2>3, Shows
    <2>4. CASE Show("APOP") /\ pc' = "final"
      BY <1>1, <2>4, Shows
    <2> QED BY <2>1, <2>3, <2>4
  <1> QED BY <1>4, <1>5

LEMMA PassGuarded == ASSUME GuardInv, Pass PROVE GuardInv'
  <1>1. /\ UNCHANGED <<cfg, auth, sslproto, tlsdoubt, tls, i>>
        /\ i \in Nat /\ pc = "user"
    BY DEF Pass, ctlVars, connVars, GuardInv, AtMechanism
  <1>2. pc' \in {"final", "done"}
    BY DEF Pass, Return
  <1>3. TlsDemanded => tls
    BY <1>1 DEF GuardInv, Insisted
  <1>4. CASE UNCHANGED shown
    BY <1>1, <1>2, <1>3, <1>4, Moves
  <1>5. CASE ~UNCHANGED shown
    <2>1. PICK what :
             /\ Show(what) /\ pc' = "final"
             /\ what = "password" => cfg.protocol = "RPOP" \/ MayShowPassword
      BY <1>5 DEF Pass, Return
    <2>2. MayShowPassword => cfg.auth \in {"any", "password"}
      BY DEF GuardInv, Chosen, MayShowPassword, Free
    <2> QED BY <1>1, <2>1, <2>2, Shows
  <1> QED BY <1>4, <1>5

\* Without tlsdoubt no error of the connection is laid to TLS.
LEMMA SessionEndsGuarded == ASSUME GuardInv, SessionEnds PROVE GuardInv'
  <1>1. UNCHANGED <<cfg, auth, tlsdoubt, i, shown>> /\ pc' = "idle"
    BY DEF SessionEnds
  <1>2. TlsDemanded => sslproto' = sslproto
    BY DEF SessionEnds, Blamed, GuardInv, Insisted
  <1>3. Insisted'
    BY <1>1, <1>2 DEF GuardInv, Insisted, TlsDemanded
  <1> QED BY <1>1, <1>3 DEF GuardInv, Chosen, AtMechanism, Guarded, TlsDemanded

\* The server's steps, the alarm and the last answer show nothing.
LEMMA OthersGuarded ==
    ASSUME GuardInv, LastAnswer \/ TimeOut \/ HangUp \/ UNCHANGED vars
    PROVE  GuardInv'
  <1>1. UNCHANGED <<cfg, auth, sslproto, tlsdoubt, tls, i, shown>>
    BY DEF LastAnswer, TimeOut, HangUp, vars, ctlVars, connVars
  <1>2. pc' = pc \/ pc' \in {"done", "closed"}
    BY DEF LastAnswer, TimeOut, HangUp, vars, Return
  <1>3. i \in Nat /\ (pc' = "exch" => i \in 1..Len(Order))
    BY <1>2 DEF GuardInv, AtMechanism
  <1>4. TlsDemanded =>
              /\ pc' \notin {"noop", "clear"}
              /\ pc' \in {"reprobe", "try", "exch", "cancel", "final", "user"} => tls
    BY <1>2 DEF GuardInv, Insisted
  <1> QED BY <1>1, <1>3, <1>4, Moves

-----------------------------------------------------------------------------
(* RPA, which pop3_getauth tries before it starts TLS.                     *)

\* Such an account tries nothing else, and sends nothing but the RPA response.
RpaAlone ==
    cfg.protocol = "POP3" /\ cfg.rpa =>
       /\ pc \in {"idle", "start", "try", "exch", "final", "done", "closed"}
       /\ pc \in {"start", "try"} => i = 0
       /\ pc \in {"exch", "final"} => i = 1
       /\ pc = "exch" => k \in 1..3
       /\ \A s \in shown : s.what = "RPA"

\* Its only helper gives up by returning.
LEMMA RpaSteps ==
    /\ Len(Steps("RPA")) = 3 /\ Steps("RPA") # <<>>
    /\ \A n \in 1..3 : /\ Steps("RPA")[n].unfit = "quit"
                        /\ Steps("RPA")[n].fails \subseteq {"quit"}
  <1>1. Steps("RPA") = POP3_auth_rpa
    BY DEF Steps
  <1>2. /\ Len(POP3_auth_rpa) = 3 /\ POP3_auth_rpa # <<>>
        /\ POP3_auth_rpa[1] = Step("plus", "quit", {})
        /\ POP3_auth_rpa[2] = Step("chal", "quit", {"quit"})
        /\ POP3_auth_rpa[3] = Step("chal", "quit", {"quit"})
    BY DEF POP3_auth_rpa, RpaToken2, RpaToken4
  <1>3. /\ Step("plus", "quit", {}).unfit = "quit" /\ Step("plus", "quit", {}).fails = {}
        /\ Step("chal", "quit", {"quit"}).unfit = "quit"
        /\ Step("chal", "quit", {"quit"}).fails = {"quit"}
    BY DEF Step
  <1> QED BY <1>1, <1>2, <1>3

LEMMA RpaAccount ==
    ASSUME cfg.protocol = "POP3", cfg.rpa
    PROVE  ~Imap /\ Order = <<"RPA">> /\ Len(Order) = 1 /\ Order[1] = "RPA"
  BY DEF Imap, Order

LEMMA RpaExchange == ASSUME RpaAlone, Exchange PROVE RpaAlone'
  <1> SUFFICES ASSUME cfg.protocol = "POP3", cfg.rpa
               PROVE  /\ pc' \in {"exch", "final", "done"}
                      /\ i' = 1 /\ (pc' = "exch" => k' \in 1..3)
                      /\ \A s \in shown' : s.what = "RPA"
    BY DEF RpaAlone, Exchange, ctlVars
  <1>1. pc = "exch" /\ i = 1 /\ i' = i /\ k \in 1..3 /\ Order[i] = "RPA" /\ ~Imap
    BY RpaAccount DEF RpaAlone, Exchange
  <1>2. \A s \in shown : s.what = "RPA"
    BY DEF RpaAlone
  <1>3. ~StarsAfter("RPA")
    BY DEF StarsAfter
  <1>4. CASE k' = k + 1 /\ IF k = 3 THEN pc' = "final" /\ Show("RPA") ELSE UNCHANGED <<pc, shown>>
    <2>1. CASE k = 3
      <3>1. \A s \in shown' : s \in shown \/ s.what = "RPA"
        BY <1>4, <2>1 DEF Show
      <3> QED BY <1>1, <1>2, <1>4, <2>1, <3>1
    <2>2. CASE k # 3
      BY <1>1, <1>2, <1>4, <2>2
    <2> QED BY <2>1, <2>2
  <1>5. CASE shown' = shown /\ \E r : Failed("RPA", r)
    BY <1>1, <1>2, <1>5 DEF Failed, Return
  <1>6. Steps(Order[i])[k].unfit = "quit" /\ Steps(Order[i])[k].fails \subseteq {"quit"}
        /\ Len(Steps(Order[i])) = 3
    BY <1>1, RpaSteps
  <1> QED BY <1>1, <1>3, <1>4, <1>5, <1>6 DEF Exchange

LEMMA RpaTry == ASSUME RpaAlone, TryMechanism PROVE RpaAlone'
  <1> SUFFICES ASSUME cfg.protocol = "POP3", cfg.rpa
               PROVE  /\ pc' \in {"exch", "done"}
                      /\ i' = 1 /\ (pc' = "exch" => k' \in 1..3)
                      /\ \A s \in shown' : s.what = "RPA"
    BY DEF RpaAlone, TryMechanism, ctlVars
  <1>1. pc = "try" /\ i = 0 /\ Todo # {} /\ shown' = shown
    BY DEF RpaAlone, TryMechanism
  <1>2. Todo = {1}
    <2>1. (i + 1)..Len(Order) = {1}
      <3>1. Len(Order) = 1
        BY RpaAccount
      <3> QED BY <1>1, <3>1
    <2> QED BY <1>1, <2>1 DEF Todo
  <1>3. (CHOOSE j \in Todo : \A n \in Todo : j <= n) = 1
    <2>1. \E j \in Todo : \A n \in Todo : j <= n
      BY <1>2
    <2>2. (CHOOSE j \in Todo : \A n \in Todo : j <= n) \in Todo
      BY <2>1
    <2> QED BY <1>2, <2>2
  <1>4. Order[1] = "RPA" /\ Steps(Order[1]) # <<>>
    BY RpaAccount, RpaSteps
  <1>5. i' = 1 /\ k' = 1 /\ pc' = "exch"
    BY <1>3, <1>4 DEF TryMechanism
  <1> QED BY <1>1, <1>5 DEF RpaAlone

LEMMA RpaKept == ASSUME RpaAlone, [Next]_vars PROVE RpaAlone'
  <1>1. CASE Exchange  BY <1>1, RpaExchange
  <1>2. CASE TryMechanism  BY <1>2, RpaTry
  <1> SUFFICES ASSUME cfg.protocol = "POP3", cfg.rpa, ~Exchange, ~TryMechanism
               PROVE  RpaAlone'
    <2>1. cfg' = cfg
      BY DEF Next, Client, vars, ctlVars, Connect, ImapStart, Pop3Start, Pop3Capa, StartTls, Reprobe,
             Noop, TryMechanism, Exchange, Cancelled, Final, Clear, Pass, LastAnswer,
             TimeOut, SessionEnds, HangUp
    <2> QED BY <1>1, <1>2, <2>1 DEF RpaAlone
  <1>3. ~Imap /\ Order = <<"RPA">> /\ Len(Order) = 1 /\ Order[1] = "RPA"
    BY RpaAccount
  <1>4. CASE Connect
    BY <1>4 DEF RpaAlone, Connect
  <1>5. CASE Pop3Start
    <2>1. pc' \in {"done", "try"} /\ UNCHANGED <<i, shown>> /\ pc = "start"
      BY <1>3, <1>5 DEF Pop3Start, Return
    <2> QED BY <2>1 DEF RpaAlone
  <1>6. CASE Final
    <2>1. pc' = "done" /\ shown' = shown
      <3>1. pc = "final" /\ Order[i] = "RPA" /\ shown' = shown
        BY <1>3, <1>6 DEF Final, RpaAlone
      <3>2. pc' = "done" \/ \E r : Failed("RPA", r)
        BY <1>6, <3>1 DEF Final, Return
      <3> QED BY <3>1, <3>2 DEF Failed, Return
    <2> QED BY <2>1 DEF RpaAlone
  <1>7. CASE Clear
    <2>1. pc = "try" /\ Todo = {} /\ i = 0
      BY <1>7 DEF Clear, RpaAlone
    <2>2. 1 \in Todo
      BY <1>3, <2>1 DEF Todo, Wanted
    <2> QED BY <2>1, <2>2
  <1>8. CASE LastAnswer \/ TimeOut
    <2>1. pc' \in {"done", "closed"} /\ shown' = shown
      BY <1>8 DEF LastAnswer, TimeOut, Return
    <2> QED BY <2>1 DEF RpaAlone
  <1>9. CASE SessionEnds
    BY <1>9 DEF SessionEnds, RpaAlone
  <1>10. CASE HangUp \/ UNCHANGED vars
    BY <1>10 DEF HangUp, vars, RpaAlone, ctlVars
  <1>11. CASE ImapStart \/ StartTls \/ Reprobe \/ Noop \/ Cancelled \/ Pass
    BY <1>3, <1>11 DEF ImapStart, StartTls, Reprobe, Noop, Cancelled, Pass, RpaAlone
  <1> QED BY <1>4, <1>5, <1>6, <1>7, <1>8, <1>9, <1>10, <1>11 DEF Next, Client

\* Whatever the server offers, refuses or breaks off and however often the
\* account is polled, getauth sends the password only to users who asked for
\* it or left the choice; and where must_starttls holds of the account as it
\* was configured, no repoll undoes that: neither the password nor anything
\* computed from it goes out before TLS, but for the response of RPA, with
\* which POP3 sends nothing else.
THEOREM PasswordIsGuarded == Spec => []PasswordGuarded
  <1>1. GuardInv /\ [Next]_vars => GuardInv'
    BY ConnectGuarded, ImapStartGuarded, Pop3StartGuarded, StartTlsGuarded,
       ReprobeGuarded, NoopGuarded, TryMechanismGuarded, ExchangeGuarded,
       CancelledGuarded, FinalGuarded, ClearGuarded, PassGuarded,
       SessionEndsGuarded, OthersGuarded DEF Next, Client
  <1>2. Init => RpaAlone
    BY DEF Init, RpaAlone
  <1>3. RpaAlone /\ [Next]_vars => RpaAlone'
    BY RpaKept
  <1>4. GuardInv /\ RpaAlone => PasswordGuarded
    BY DEF GuardInv, Guarded, TlsDemanded, RpaAlone, PasswordGuarded
  <1> QED
    BY InitGuarded, <1>1, <1>2, <1>3, <1>4, PTL DEF Spec

-----------------------------------------------------------------------------
(* Whose turn it is.  SidesAgree needs an invariant in four parts: types     *)
(* and the place of each side in an exchange (TurnInv); that a client which  *)
(* has not strayed leaves nothing unread (StepInv); for IMAP what the tags   *)
(* say (TagInv); and for POP3, which has none, what lines a client that is   *)
(* some answers behind can have before it (OkInv, LagInv, RpaInv).           *)

Kinds == {"ok", "no", "bad", "lock", "busy", "chal", "junk", "blank", "star"}
Lines == [tag : Nat, kind : Kinds]
Servers == [at : {"cmd", "sasl", "authed", "gone"}, left : Nat, tag : Nat]

TurnType ==
    /\ cfg \in Configs /\ i \in Nat /\ k \in Nat /\ tag \in Nat
    /\ wire \in Seq(Lines) /\ srv \in Servers

\* A helper of getauth is at work.
Helper == i \in 1..Len(Order)

\* Before the first mechanism.
AtStart ==
    /\ pc \in {"start", "tls", "reprobe", "noop", "clear"} => i = 0 /\ srv.at # "sasl"
    /\ pc \in {"start", "tls", "reprobe", "clear"} => wire = <<>>

\* In an exchange the server expects as many responses as the client has
\* steps left, however far the client's reading lags behind.
AtWork ==
    /\ pc = "try" => i \in 0..Len(Order)
    /\ pc = "exch" =>
          /\ Helper /\ k \in 1..Len(Steps(Order[i]))
          /\ srv.at = "sasl" => srv.left = Len(Steps(Order[i])) - k + 1
    /\ pc = "cancel" => Helper /\ Order[i] = "GSSAPI" /\ srv.at # "sasl"
    /\ pc = "final" => i >= 1 /\ (Helper => srv.at # "sasl")
    /\ pc = "user" => ~Imap /\ i > Len(Order)

TurnInv ==
    /\ TurnType /\ AtStart /\ AtWork
    /\ pc \notin {"done", "idle", "closed"} => ok # "success"

\* Without a stray step every answer is read before the next line is sent.
StepInv ==
    strayed = {} /\ ~tlsdoubt =>
       /\ pc = "try" => wire = <<>> /\ srv.at # "sasl"
       /\ pc \in {"exch", "cancel", "final", "user"} => Len(wire) <= 1

-----------------------------------------------------------------------------
(* The mechanisms and the wire.                                            *)

\* The entries of Order, by protocol.
LEMMA Entries ==
    /\ Imap => /\ Len(Order) = 6
               /\ Order[1] = "EXTERNAL" /\ Order[2] = "GSSAPI" /\ Order[3] = "KERBEROS_V4"
               /\ Order[4] = "CRAM-MD5" /\ Order[5] = "X-OTP" /\ Order[6] = "NTLM"
    /\ ~Imap /\ cfg.rpa => Len(Order) = 1 /\ Order[1] = "RPA"
    /\ ~Imap /\ ~cfg.rpa =>
               /\ Len(Order) = 6
               /\ Order[1] = "KERBEROS_V4" /\ Order[2] = "GSSAPI" /\ Order[3] = "X-OTP"
               /\ Order[4] = "MSN" /\ Order[5] = "NTLM" /\ Order[6] = "CRAM-MD5"
  BY DEF Order

\* A helper has as many steps as its mechanism has challenges.
LEMMA StepsMatch ==
    ASSUME NEW m \in Mechs
    PROVE  /\ Rounds(m) \in 0..3 /\ Len(Steps(m)) = Rounds(m)
           /\ Steps(m) = <<>> <=> m = "EXTERNAL"
           /\ Rounds(m) = 0 <=> m = "EXTERNAL"
  <1>1. /\ Len(do_cram_md5) = 1 /\ Len(do_otp) = 2 /\ Len(ntlm_helper) = 2
        /\ Len(do_rfc1731) = 2 /\ Len(do_gssauth) = 3 /\ Len(POP3_auth_rpa) = 3
    <2> HIDE DEF Step
    <2> QED BY DEF do_cram_md5, do_otp, ntlm_helper, do_rfc1731, do_gssauth, GssContext, POP3_auth_rpa
  <1>2. Len(Steps(m)) = Rounds(m) /\ Rounds(m) \in 0..3 /\ (Rounds(m) = 0 <=> m = "EXTERNAL")
    <2>1. CASE m = "EXTERNAL"  BY <2>1 DEF Steps, Rounds
    <2>2. CASE m = "GSSAPI"  BY <1>1, <2>2 DEF Steps, Rounds
    <2>3. CASE m = "KERBEROS_V4"  BY <1>1, <2>3 DEF Steps, Rounds
    <2>4. CASE m = "CRAM-MD5"  BY <1>1, <2>4 DEF Steps, Rounds
    <2>5. CASE m = "X-OTP"  BY <1>1, <2>5 DEF Steps, Rounds
    <2>6. CASE m = "NTLM"  BY <1>1, <2>6 DEF Steps, Rounds
    <2>7. CASE m = "MSN"  BY <1>1, <2>7 DEF Steps, Rounds
    <2>8. CASE m = "RPA"  BY <1>1, <2>8 DEF Steps, Rounds
    <2> QED BY <2>1, <2>2, <2>3, <2>4, <2>5, <2>6, <2>7, <2>8 DEF Mechs
  <1>3. Steps(m) = <<>> <=> m = "EXTERNAL"
    BY <1>2 DEF Steps, Mechs
  <1> QED BY <1>2, <1>3

\* Every entry of Order is one of Mechs.
LEMMA OrderMechs == \A n \in 1..Len(Order) : Order[n] \in Mechs
  <1> SUFFICES ASSUME NEW n \in 1..Len(Order) PROVE Order[n] \in Mechs
    OBVIOUS
  <1>1. n = 1 \/ (Len(Order) = 6 /\ (n = 2 \/ n = 3 \/ n = 4 \/ n = 5 \/ n = 6))
    <2>1. Len(Order) = 1 \/ Len(Order) = 6
      BY Entries, Zenon
    <2>2. CASE Len(Order) = 1
      BY <2>2
    <2>3. CASE Len(Order) = 6
      <3>1. n \in 1..6
        BY <2>3
      <3> QED BY <2>3, <3>1
    <2> QED BY <2>1, <2>2, <2>3
  <1>2. CASE Imap
    BY <1>1, <1>2, Entries, Zenon DEF Mechs
  <1>3. CASE ~Imap /\ cfg.rpa
    BY <1>3, Entries DEF Mechs
  <1>4. CASE ~Imap /\ ~cfg.rpa
    BY <1>1, <1>4, Entries, Zenon DEF Mechs
  <1> QED BY <1>2, <1>3, <1>4

\* A line more at the end, one less at the head.
LEMMA Added ==
    ASSUME NEW w \in Seq(Lines), NEW l \in Lines
    PROVE  /\ w \o <<l>> \in Seq(Lines) /\ Len(w \o <<l>>) = Len(w) + 1
           /\ \A n \in 1..Len(w) : (w \o <<l>>)[n] = w[n]
           /\ (w \o <<l>>)[Len(w) + 1] = l
  OBVIOUS

LEMMA Shortened ==
    ASSUME NEW w \in Seq(Lines), w # <<>>
    PROVE  /\ Tail(w) \in Seq(Lines) /\ Len(Tail(w)) = Len(w) - 1
           /\ \A n \in 1..(Len(w) - 1) : Tail(w)[n] = w[n + 1]
           /\ Head(w) = w[1] /\ w[1] \in Lines /\ Len(w) \in Nat \ {0}
  OBVIOUS

\* A nonempty set of natural numbers has a least element.
LEMMA LeastNatural ==
    ASSUME NEW T, T \subseteq Nat, T # {}
    PROVE  \E n \in T : \A m \in T : n <= m
  <1>1. PICK R : R = OpToRel(<, Nat)
    OBVIOUS
  <1>2. IsWellFoundedOn(R, Nat)
    BY <1>1, NatLessThanWellFounded
  <1>3. PICK n \in T : \A m \in T : ~(<<m, n>> \in R)
    BY <1>2, WFMin
  <1>4. \A a, b \in Nat : a < b => <<a, b>> \in R
    BY <1>1 DEF OpToRel
  <1>5. ASSUME NEW m \in T PROVE n <= m
    <2>1. n \in Nat /\ m \in Nat /\ ~(<<m, n>> \in R)
      BY <1>3
    <2>2. ~(m < n)
      BY <1>4, <2>1
    <2> QED BY <2>1, <2>2
  <1> QED BY <1>5

\* The answer parse_response takes, and what it leaves.
LEMMA AnswerFacts ==
    ASSUME wire \in Seq(Lines), tag \in Nat, Answers # {}
    PROVE  \E n \in Answers :
              /\ n \in 1..Len(wire) /\ Answer = wire[n]
              /\ Rest = SubSeq(wire, n + 1, Len(wire))
              /\ Imap => wire[n].tag = tag
              /\ ~Imap => n = 1
  <1> DEFINE first == CHOOSE n \in Answers : \A m \in Answers : n <= m
  <1>1. Answers \subseteq 1..Len(wire) /\ Answers \subseteq Nat
    BY DEF Answers
  <1>2. \E n \in Answers : \A m \in Answers : n <= m
    BY <1>1, LeastNatural
  <1>3. first \in Answers /\ \A m \in Answers : first <= m
    BY <1>2
  <1>4. Answer = wire[first] /\ Rest = SubSeq(wire, 1 + first, Len(wire))
    BY DEF Answer, Rest
  <1> HIDE DEF first
  <1>5. first \in 1..Len(wire) /\ (Imap => wire[first].tag = tag)
    BY <1>1, <1>3 DEF Answers
  <1>6. ~Imap => 1 \in Answers
    BY <1>5 DEF Answers
  <1>7. ~Imap => first = 1
    BY <1>3, <1>5, <1>6
  <1>8. 1 + first = first + 1
    BY <1>5
  <1> QED BY <1>3, <1>4, <1>5, <1>7, <1>8

\* What is left after line n.
LEMMA Left ==
    ASSUME NEW w \in Seq(Lines), NEW n \in 1..Len(w)
    PROVE  /\ SubSeq(w, n + 1, Len(w)) \in Seq(Lines)
           /\ Len(SubSeq(w, n + 1, Len(w))) = Len(w) - n
           /\ \A q \in 1..(Len(w) - n) : SubSeq(w, n + 1, Len(w))[q] = w[n + q]
           /\ n = 1 => SubSeq(w, n + 1, Len(w)) = Tail(w)
  OBVIOUS

-----------------------------------------------------------------------------
(* The server's answers: a line l and its new state s.                     *)

AuthReply(m, l, s) ==
    \/ srv.at = "sasl" /\ l.kind \in {"no", "bad"} /\ s = Idle /\ (Imap => l.tag = srv.tag)
    \/ /\ srv.at # "sasl" /\ l.kind \in {"no", "bad", "lock", "busy"} /\ s = srv
       /\ Imap => l.tag = tag'
    \/ /\ srv.at # "sasl" /\ m = "EXTERNAL" /\ l.kind = "ok"
       /\ s.at = "authed" /\ s.tag = srv.tag
    \/ /\ srv.at # "sasl" /\ m # "EXTERNAL" /\ l.kind \in {FirstChallenge(m), "junk"}
       /\ l.tag = 0 /\ s.at = "sasl" /\ s.left = Rounds(m) /\ s.tag = tag'

ResponseReply(l, s) ==
    \/ /\ srv.at = "sasl" /\ srv.left > 1 /\ l.kind \in {"chal", "junk"} /\ l.tag = 0
       /\ s.at = "sasl" /\ s.left = srv.left - 1 /\ s.tag = srv.tag
    \/ srv.at = "sasl" /\ srv.left = 1 /\ l.kind = "ok" /\ s.at = "authed" /\ s.tag = 0
    \/ srv.at = "sasl" /\ l.kind = "no" /\ s = Idle
    \/ srv.at # "sasl" /\ l.kind = (IF Imap THEN "star" ELSE "no") /\ s = srv

StarReply(l, s) ==
    /\ l.kind \in {"no", "bad", "star"} /\ (~Imap => l.kind = "no")
    /\ s = IF srv.at = "sasl" THEN Idle ELSE srv

CommandReply(to, l, s) ==
    \/ srv.at = "sasl" /\ l.kind \in {"no", "bad"} /\ s = Idle
    \/ srv.at # "sasl" /\ l.kind \in {"no", "bad", "lock", "busy"} /\ s = srv
    \/ srv.at # "sasl" /\ l.kind = "ok" /\ s.at = to /\ s.tag = srv.tag

\* Tags of the answers: of the command the server is in, of this one or none.
TagOf(l, t) == l.tag \in Nat /\ l.tag \in {0, srv.tag, t}

\* Nothing more comes from a server that is gone.
Silent(unread) == srv.at = "gone" /\ wire' = unread /\ srv' = srv
Spoken(unread, l) ==
    srv.at # "gone" /\ l \in Lines /\ wire' = unread \o <<l>> /\ srv' \in Servers

AuthHeard(m) ==
    Silent(wire) \/ \E l : Spoken(wire, l) /\ AuthReply(m, l, srv') /\ TagOf(l, tag')
ResponseHeard ==
    Silent(Tail(wire)) \/ \E l : Spoken(Tail(wire), l) /\ ResponseReply(l, srv') /\ TagOf(l, 0)
StarHeard(unread, t) ==
    Silent(unread) \/ \E l : Spoken(unread, l) /\ StarReply(l, srv') /\ TagOf(l, t)
CommandHeard(unread, to) ==
    Silent(unread) \/ \E l : Spoken(unread, l) /\ CommandReply(to, l, srv') /\ TagOf(l, tag')

LEMMA LineTyped ==
    ASSUME NEW t \in Nat, NEW kd \in Kinds
    PROVE  /\ Line(t, kd) \in Lines /\ Line(t, kd).kind = kd
           /\ Line(t, kd).tag = IF Imap THEN t ELSE 0
  BY DEF Line, Lines

LEMMA SaysLines ==
    ASSUME NEW kinds, NEW t, NEW st, NEW a \in Says(kinds, t, st)
    PROVE  \E kd \in kinds : a = <<<<Line(t, kd)>>, st>>
  BY DEF Says

LEMMA FirstChallengeKind == \A m : FirstChallenge(m) \in {"chal", "blank"}
  BY DEF FirstChallenge

LEMMA AuthHears ==
    ASSUME TurnType, tag' \in Nat, NEW m \in Mechs, Send(OnAuth(m))
    PROVE  AuthHeard(m)
  <1>1. CASE srv.at = "gone"
    BY <1>1 DEF Send, SendAfter, AuthHeard, Silent
  <1>2. CASE srv.at # "gone"
    <2>1. PICK a \in OnAuth(m) : wire' = wire \o a[1] /\ srv' = a[2]
      BY <1>2 DEF Send, SendAfter
    <2>2. /\ srv.tag \in Nat /\ srv.left \in Nat
          /\ srv = [at |-> srv.at, left |-> srv.left, tag |-> srv.tag]
      BY DEF TurnType, Servers
    <2>3. \E kd \in Kinds, t \in Nat, s \in Servers :
             /\ a = <<<<Line(t, kd)>>, s>>
             /\ t \in {0, srv.tag, tag'} /\ AuthReply(m, Line(t, kd), s)
      <3>1. CASE srv.at = "sasl"
        <4>1. PICK kd \in {IF Imap THEN "bad" ELSE "no"} : a = <<<<Line(srv.tag, kd)>>, Idle>>
          BY <2>1, <3>1, SaysLines DEF OnAuth
        <4>2. kd \in Kinds /\ kd \in {"no", "bad"} /\ Idle \in Servers
          BY <4>1 DEF Kinds, Idle, Servers
        <4>3. AuthReply(m, Line(srv.tag, kd), Idle)
          BY <2>2, <3>1, <4>2, LineTyped DEF AuthReply
        <4> QED BY <2>2, <4>1, <4>2, <4>3
      <3>2. CASE srv.at # "sasl"
        <4>1. CASE a \in Says(Refusals, tag', srv)
          <5>1. PICK kd \in Refusals : a = <<<<Line(tag', kd)>>, srv>>
            BY <4>1, SaysLines
          <5>2. kd \in Kinds /\ kd \in {"no", "bad", "lock", "busy"} /\ srv \in Servers
            BY <5>1 DEF Refusals, Kinds, TurnType
          <5>3. AuthReply(m, Line(tag', kd), srv)
            BY <3>2, <5>2, LineTyped DEF AuthReply
          <5> QED BY <5>1, <5>2, <5>3
        <4>2. CASE Rounds(m) = 0 /\ a \in Says({"ok"}, tag', [srv EXCEPT !.at = "authed"])
          <5>1. PICK s : s = [srv EXCEPT !.at = "authed"]
            OBVIOUS
          <5>2. a = <<<<Line(tag', "ok")>>, s>>
            BY <4>2, <5>1, SaysLines
          <5>3. "ok" \in Kinds /\ s \in Servers /\ s.at = "authed" /\ s.tag = srv.tag
            BY <2>2, <5>1 DEF Kinds, Servers
          <5>4. AuthReply(m, Line(tag', "ok"), s)
            BY <3>2, <4>2, <5>3, LineTyped, StepsMatch DEF AuthReply
          <5> QED BY <5>2, <5>3, <5>4
        <4>3. CASE Rounds(m) # 0 /\ a \in Says({FirstChallenge(m), "junk"}, 0,
                                    [at |-> "sasl", left |-> Rounds(m), tag |-> tag'])
          <5>1. PICK s : s = [at |-> "sasl", left |-> Rounds(m), tag |-> tag']
            OBVIOUS
          <5>2. PICK kd \in {FirstChallenge(m), "junk"} : a = <<<<Line(0, kd)>>, s>>
            BY <4>3, <5>1, SaysLines
          <5>3. kd \in Kinds /\ s \in Servers
            BY <5>1, <5>2, StepsMatch, FirstChallengeKind DEF Kinds, Servers
          <5>4. AuthReply(m, Line(0, kd), s)
            BY <3>2, <4>3, <5>1, <5>2, <5>3, LineTyped, StepsMatch DEF AuthReply
          <5> QED BY <5>2, <5>3, <5>4
        <4> QED BY <2>1, <3>2, <4>1, <4>2, <4>3 DEF OnAuth
      <3> QED BY <3>1, <3>2
    <2>4. PICK kd \in Kinds, t \in Nat, s \in Servers :
             /\ a = <<<<Line(t, kd)>>, s>>
             /\ t \in {0, srv.tag, tag'} /\ AuthReply(m, Line(t, kd), s)
      BY <2>3
    <2>5. Spoken(wire, Line(t, kd)) /\ srv' = s
      BY <1>2, <2>1, <2>4, LineTyped DEF Spoken
    <2>6. TagOf(Line(t, kd), tag')
      BY <2>4, LineTyped DEF TagOf
    <2> QED BY <2>4, <2>5, <2>6 DEF AuthHeard
  <1> QED BY <1>1, <1>2

\* An answer in one of its forms is spoken.
LEMMA Speaks ==
    ASSUME srv.at # "gone", NEW unread, NEW a, NEW t \in Nat, NEW kd \in Kinds, NEW s \in Servers,
           a = <<<<Line(t, kd)>>, s>>, wire' = unread \o a[1], srv' = a[2]
    PROVE  Spoken(unread, Line(t, kd)) /\ srv' = s
  BY LineTyped DEF Spoken

LEMMA ResponseHears ==
    ASSUME TurnType, srv.at = "sasl" => srv.left >= 1, ReadAndSend(OnResponse)
    PROVE  ResponseHeard
  <1>1. CASE srv.at = "gone"
    BY <1>1 DEF ReadAndSend, SendAfter, ResponseHeard, Silent
  <1>2. CASE srv.at # "gone"
    <2>1. PICK a \in OnResponse : wire' = Tail(wire) \o a[1] /\ srv' = a[2]
      BY <1>2 DEF ReadAndSend, SendAfter
    <2>2. /\ srv.tag \in Nat /\ srv.left \in Nat /\ srv \in Servers
          /\ Idle \in Servers /\ Idle.at = "cmd"
      BY DEF TurnType, Servers, Idle
    <2>3. \E kd \in Kinds, t \in Nat, s \in Servers :
             /\ a = <<<<Line(t, kd)>>, s>>
             /\ t \in {0, srv.tag} /\ ResponseReply(Line(t, kd), s)
      <3>1. CASE srv.at # "sasl"
        <4>1. PICK kd \in {IF Imap THEN "star" ELSE "no"} : a = <<<<Line(0, kd)>>, srv>>
          BY <2>1, <3>1, SaysLines DEF OnResponse
        <4>2. kd \in Kinds
          BY <4>1 DEF Kinds
        <4>3. ResponseReply(Line(0, kd), srv)
          BY <3>1, <4>1, <4>2, LineTyped DEF ResponseReply
        <4> QED BY <2>2, <4>1, <4>2, <4>3
      <3>2. CASE srv.at = "sasl" /\ a \in Says({"no"}, srv.tag, Idle)
        <4>1. a = <<<<Line(srv.tag, "no")>>, Idle>> /\ "no" \in Kinds
          BY <3>2, SaysLines DEF Kinds
        <4>2. ResponseReply(Line(srv.tag, "no"), Idle)
          BY <2>2, <3>2, <4>1, LineTyped DEF ResponseReply
        <4> QED BY <2>2, <4>1, <4>2
      <3>3. CASE srv.at = "sasl" /\ srv.left = 1 /\ a \notin Says({"no"}, srv.tag, Idle)
        <4>1. PICK s : s = [Idle EXCEPT !.at = "authed"]
          OBVIOUS
        <4>2. a = <<<<Line(srv.tag, "ok")>>, s>> /\ "ok" \in Kinds
          BY <2>1, <2>2, <3>3, <4>1, SaysLines DEF OnResponse, Kinds
        <4>3. s \in Servers /\ s.at = "authed" /\ s.tag = 0
          BY <4>1 DEF Idle, Servers
        <4>4. ResponseReply(Line(srv.tag, "ok"), s)
          BY <2>2, <3>3, <4>2, <4>3, LineTyped DEF ResponseReply
        <4> QED BY <2>2, <4>2, <4>3, <4>4
      <3>4. CASE srv.at = "sasl" /\ srv.left # 1 /\ a \notin Says({"no"}, srv.tag, Idle)
        <4>1. PICK s : s = [srv EXCEPT !.left = @ - 1]
          OBVIOUS
        <4>2. srv.left > 1
          BY <2>2, <3>4
        <4>3. PICK kd \in {"chal", "junk"} : a = <<<<Line(0, kd)>>, s>>
          BY <2>1, <3>4, <4>1, <4>2, SaysLines DEF OnResponse
        <4>4. /\ kd \in Kinds /\ s \in Servers
              /\ s.at = srv.at /\ s.left = srv.left - 1 /\ s.tag = srv.tag
          BY <2>2, <4>1, <4>2, <4>3 DEF Servers, Kinds
        <4>5. ResponseReply(Line(0, kd), s)
          BY <3>4, <4>2, <4>3, <4>4, LineTyped DEF ResponseReply
        <4> QED BY <4>3, <4>4, <4>5
      <3> QED BY <3>1, <3>2, <3>3, <3>4
    <2>4. PICK kd \in Kinds, t \in Nat, s \in Servers :
             /\ a = <<<<Line(t, kd)>>, s>>
             /\ t \in {0, srv.tag} /\ ResponseReply(Line(t, kd), s)
      BY <2>3
    <2>5. Spoken(Tail(wire), Line(t, kd)) /\ srv' = s
      BY <1>2, <2>1, <2>4, Speaks
    <2>6. TagOf(Line(t, kd), 0)
      BY <2>4, LineTyped DEF TagOf
    <2> QED BY <2>4, <2>5, <2>6 DEF ResponseHeard
  <1> QED BY <1>1, <1>2

LEMMA StarHears ==
    ASSUME TurnType, NEW unread, NEW t \in Nat, SendAfter(unread, OnStar(t))
    PROVE  StarHeard(unread, t)
  <1>1. CASE srv.at = "gone"
    BY <1>1 DEF SendAfter, StarHeard, Silent
  <1>2. CASE srv.at # "gone"
    <2>1. PICK a \in OnStar(t) : wire' = unread \o a[1] /\ srv' = a[2]
      BY <1>2 DEF SendAfter
    <2>2. srv.tag \in Nat /\ srv \in Servers /\ Idle \in Servers
      BY DEF TurnType, Servers, Idle
    <2>3. \E kd \in {"no", "bad", "star"}, u \in {0, srv.tag, t} :
             /\ a = <<<<Line(u, kd)>>, IF srv.at = "sasl" THEN Idle ELSE srv>>
             /\ ~Imap => kd = "no"
      <3>1. CASE srv.at = "sasl"
        <4>1. PICK word : word = IF t = 0 \/ ~Imap THEN "no" ELSE "bad"
          OBVIOUS
        <4>2. OnStar(t) = Says({word}, srv.tag, Idle)
          BY <3>1, <4>1 DEF OnStar
        <4>3. a = <<<<Line(srv.tag, word)>>, Idle>>
          BY <2>1, <4>2, SaysLines
        <4> QED BY <3>1, <4>1, <4>3
      <3>2. CASE srv.at # "sasl" /\ Imap /\ t = 0
        <4>1. PICK kd \in {"star"} : a = <<<<Line(0, kd)>>, srv>>
          BY <2>1, <3>2, SaysLines DEF OnStar
        <4> QED BY <3>2, <4>1
      <3>3. CASE srv.at # "sasl" /\ ~(Imap /\ t = 0)
        <4>1. PICK kd \in {IF Imap THEN "bad" ELSE "no"} : a = <<<<Line(t, kd)>>, srv>>
          BY <2>1, <3>3, SaysLines DEF OnStar
        <4> QED BY <3>3, <4>1
      <3> QED BY <3>1, <3>2, <3>3
    <2>4. PICK s : s = IF srv.at = "sasl" THEN Idle ELSE srv
      OBVIOUS
    <2>5. PICK kd \in {"no", "bad", "star"}, u \in {0, srv.tag, t} :
             a = <<<<Line(u, kd)>>, s>> /\ (~Imap => kd = "no")
      BY <2>3, <2>4
    <2>6. kd \in Kinds /\ u \in Nat /\ s \in Servers
      BY <2>2, <2>4, <2>5 DEF Kinds
    <2>7. Spoken(unread, Line(u, kd)) /\ srv' = s
      BY <1>2, <2>1, <2>5, <2>6, Speaks
    <2>8. TagOf(Line(u, kd), t) /\ StarReply(Line(u, kd), s)
      BY <2>4, <2>5, <2>6, LineTyped DEF TagOf, StarReply
    <2> QED BY <2>7, <2>8 DEF StarHeard
  <1> QED BY <1>1, <1>2

LEMMA CommandHears ==
    ASSUME TurnType, tag' \in Nat, NEW to \in {"cmd", "authed"},
           NEW unread, SendAfter(unread, OnCommand(to))
    PROVE  CommandHeard(unread, to)
  <1>1. CASE srv.at = "gone"
    BY <1>1 DEF SendAfter, CommandHeard, Silent
  <1>2. CASE srv.at # "gone"
    <2>1. PICK a \in OnCommand(to) : wire' = unread \o a[1] /\ srv' = a[2]
      BY <1>2 DEF SendAfter
    <2>2. srv.tag \in Nat /\ srv.left \in Nat /\ srv \in Servers /\ Idle \in Servers
      BY DEF TurnType, Servers, Idle
    <2>3. \E kd \in Kinds, t \in {srv.tag, tag'}, s \in Servers :
             a = <<<<Line(t, kd)>>, s>> /\ CommandReply(to, Line(t, kd), s)
      <3>1. CASE srv.at = "sasl"
        <4>1. PICK kd \in {IF Imap THEN "bad" ELSE "no"} : a = <<<<Line(srv.tag, kd)>>, Idle>>
          BY <2>1, <3>1, SaysLines DEF OnCommand
        <4>2. kd \in Kinds /\ kd \in {"no", "bad"}
          BY <4>1 DEF Kinds
        <4>3. CommandReply(to, Line(srv.tag, kd), Idle)
          BY <2>2, <3>1, <4>2, LineTyped DEF CommandReply
        <4> QED BY <2>2, <4>1, <4>2, <4>3
      <3>2. CASE srv.at # "sasl" /\ a \in Says(Refusals, tag', srv)
        <4>1. PICK kd \in Refusals : a = <<<<Line(tag', kd)>>, srv>>
          BY <3>2, SaysLines
        <4>2. kd \in Kinds /\ kd \in {"no", "bad", "lock", "busy"}
          BY <4>1 DEF Refusals, Kinds
        <4>3. CommandReply(to, Line(tag', kd), srv)
          BY <3>2, <4>2, LineTyped DEF CommandReply
        <4> QED BY <2>2, <4>1, <4>2, <4>3
      <3>3. CASE srv.at # "sasl" /\ a \notin Says(Refusals, tag', srv)
        <4>1. PICK s : s = [srv EXCEPT !.at = to]
          OBVIOUS
        <4>2. a = <<<<Line(tag', "ok")>>, s>> /\ "ok" \in Kinds
          BY <2>1, <3>3, <4>1, SaysLines DEF OnCommand, Kinds
        <4>3. s \in Servers /\ s.at = to /\ s.tag = srv.tag
          BY <2>2, <4>1 DEF Servers
        <4>4. CommandReply(to, Line(tag', "ok"), s)
          BY <3>3, <4>2, <4>3, LineTyped DEF CommandReply
        <4> QED BY <4>2, <4>3, <4>4
      <3> QED BY <3>1, <3>2, <3>3
    <2>4. PICK kd \in Kinds, t \in {srv.tag, tag'}, s \in Servers :
             a = <<<<Line(t, kd)>>, s>> /\ CommandReply(to, Line(t, kd), s)
      BY <2>3
    <2>5. t \in Nat
      BY <2>2, <2>4
    <2>6. Spoken(unread, Line(t, kd)) /\ srv' = s
      BY <1>2, <2>1, <2>4, <2>5, Speaks
    <2>7. TagOf(Line(t, kd), tag')
      BY <2>4, <2>5, LineTyped DEF TagOf
    <2> QED BY <2>4, <2>6, <2>7 DEF CommandHeard
  <1> QED BY <1>1, <1>2

-----------------------------------------------------------------------------
(* The actions that read or send, in the form the invariants need.         *)

\* getauth goes on with the next mechanism, or returns without success.
GivesUpOn == pc' \in {"try", "done"} /\ ok' # "success"

LEMMA FailedFacts ==
    ASSUME NEW m, NEW r, r # "success", Failed(m, r)
    PROVE  GivesUpOn
  BY DEF Failed, Return, GivesUpOn

NewTag == tag' = IF Imap THEN tag + 1 ELSE tag

LEMMA TryCases ==
    ASSUME TurnInv, TryMechanism
    PROVE  /\ i' \in 1..Len(Order) /\ i' > i /\ UNCHANGED <<cfg, strayed, tlsdoubt>>
           /\ \/ /\ NewTag /\ AuthHeard(Order[i']) /\ k' = 1 /\ ok' = ok
                 /\ pc' = IF Order[i'] = "EXTERNAL" THEN "final" ELSE "exch"
              \/ UNCHANGED <<k, tag, wire, srv>> /\ GivesUpOn
  <1>1. /\ TurnType /\ i \in Nat /\ Todo # {} /\ UNCHANGED <<cfg, strayed, tlsdoubt>>
        /\ tag \in Nat /\ i' = (CHOOSE j \in Todo : \A n \in Todo : j <= n)
    BY DEF TurnInv, TurnType, TryMechanism, ctlVars
  <1>2. i' \in 1..Len(Order)
    BY <1>1, FirstTodo
  <1>3. i' > i
    <2>1. Todo \subseteq Nat
      BY <1>1, OrderFacts DEF Todo
    <2>2. \E j \in Todo : \A n \in Todo : j <= n
      BY <1>1, <2>1, LeastNatural
    <2>3. i' \in Todo
      BY <1>1, <2>2
    <2> QED BY <1>1, <2>3 DEF Todo
  <1>4. PICK m : m = Order[i']
    OBVIOUS
  <1>5. m \in Mechs
    BY <1>2, <1>4, OrderMechs
  <1>6. \/ /\ GENSYM /\ Send(OnAuth(m)) /\ k' = 1
           /\ pc' = (IF Steps(m) = <<>> THEN "final" ELSE "exch") /\ ok' = ok
        \/ Failed(m, "authfail") /\ UNCHANGED <<k, tag, wire, srv>>
    BY <1>1, <1>4 DEF TryMechanism
  <1>7. CASE /\ GENSYM /\ Send(OnAuth(m)) /\ k' = 1
             /\ pc' = (IF Steps(m) = <<>> THEN "final" ELSE "exch") /\ ok' = ok
    <2>1. NewTag /\ tag' \in Nat
      BY <1>1, <1>7 DEF GENSYM, NewTag
    <2>2. AuthHeard(m)
      BY <1>1, <1>5, <1>7, <2>1, AuthHears
    <2>3. pc' = IF m = "EXTERNAL" THEN "final" ELSE "exch"
      BY <1>5, <1>7, StepsMatch
    <2> QED BY <1>1, <1>2, <1>3, <1>4, <1>7, <2>1, <2>2, <2>3
  <1>8. CASE Failed(m, "authfail") /\ UNCHANGED <<k, tag, wire, srv>>
    BY <1>1, <1>2, <1>3, <1>8, FailedFacts
  <1> QED BY <1>6, <1>7, <1>8

LostFacts == srv.at = "gone" /\ wire' = <<>> /\ srv' = srv /\ tag' = tag

\* What a helper may do about the line it reads, if it does not go on.
Ways ==
    IF Accepts(Steps(Order[i])[k].takes, Head(wire)) THEN Steps(Order[i])[k].fails
    ELSE {Steps(Order[i])[k].unfit}

LEMMA ExchangeCases ==
    ASSUME TurnInv, Exchange
    PROVE  /\ UNCHANGED <<cfg, i, tlsdoubt>>
           /\ \/ /\ wire # <<>> /\ Accepts(Steps(Order[i])[k].takes, Head(wire))
                 /\ ResponseHeard /\ k' = k + 1 /\ ok' = ok /\ tag' = tag /\ strayed' = strayed
                 /\ pc' = IF k = Len(Steps(Order[i])) THEN "final" ELSE "exch"
              \/ /\ wire # <<>> /\ StarHeard(Tail(wire), 0) /\ k' = k
                 /\ "wait" \in {Steps(Order[i])[k].unfit} \cup Steps(Order[i])[k].fails
                 /\ pc' = "cancel" /\ ok' = ok /\ tag' = tag /\ strayed' = strayed
              \/ /\ wire # <<>> /\ (NewTag \/ tag' = tag) /\ StarHeard(Tail(wire), tag') /\ k' = k
                 /\ GivesUpOn /\ strayed' # {}
                 /\ "star" \in Ways \/ Imap
              \/ /\ wire # <<>> /\ wire' = Tail(wire) /\ srv' = srv /\ tag' = tag /\ k' = k
                 /\ GivesUpOn /\ strayed' = IF srv.at = "sasl" THEN strayed \cup {"quit"} ELSE strayed
              \/ LostFacts /\ GivesUpOn /\ strayed' = strayed /\ k' = k
  <1>1. /\ TurnType /\ pc = "exch" /\ UNCHANGED <<cfg, i, tlsdoubt>> /\ tag \in Nat
        /\ srv.at = "sasl" => srv.left >= 1
    BY DEF TurnInv, TurnType, Exchange, ctlVars, AtWork
  <1>2. PICK m, l, st, fits :
           /\ m = Order[i] /\ l = (IF wire = <<>> THEN Line(0, "star") ELSE Head(wire))
           /\ st = Steps(m)[k] /\ fits = Accepts(st.takes, l)
    OBVIOUS
  <1>3. \/ /\ wire # <<>> /\ fits
           /\ NoTag /\ ReadAndSend(OnResponse)
           /\ k' = k + 1
           /\ IF k = Len(Steps(m)) THEN pc' = "final" ELSE pc' = pc
           /\ UNCHANGED <<ok, strayed>>
        \/ /\ wire # <<>> /\ k' = k
           /\ \E way \in IF fits THEN st.fails ELSE {st.unfit} :
                 \/ /\ way = "wait" /\ NoTag /\ ReadAndSend(OnStar(0))
                    /\ pc' = "cancel" /\ UNCHANGED <<ok, strayed>>
                 \/ /\ way = "star" /\ NoTag /\ ReadAndSend(OnStar(0))
                    /\ Failed(m, "authfail") /\ Stray("star")
                 \/ /\ StarsAfter(m) /\ GENSYM /\ ReadAndSend(OnStar(tag'))
                    /\ Failed(m, "authfail") /\ Stray("star")
                 \/ /\ NoTag /\ wire' = Tail(wire) /\ srv' = srv
                    /\ Failed(m, "authfail")
                    /\ IF srv.at = "sasl" THEN Stray("quit") ELSE UNCHANGED strayed
        \/ NoTag /\ Lost /\ Failed(m, "socket") /\ UNCHANGED <<k, strayed>>
    BY <1>2 DEF Exchange
  <1>4. CASE /\ wire # <<>> /\ fits
             /\ NoTag /\ ReadAndSend(OnResponse)
             /\ k' = k + 1
             /\ IF k = Len(Steps(m)) THEN pc' = "final" ELSE pc' = pc
             /\ UNCHANGED <<ok, strayed>>
    <2>1. ResponseHeard
      BY <1>1, <1>4, ResponseHears
    <2>2. Accepts(Steps(Order[i])[k].takes, Head(wire))
      BY <1>2, <1>4, Zenon
    <2> QED BY <1>1, <1>2, <1>4, <2>1, <2>2 DEF NoTag
  <1>5. ASSUME wire # <<>>, k' = k, NEW way \in IF fits THEN st.fails ELSE {st.unfit},
               \/ /\ way = "wait" /\ NoTag /\ ReadAndSend(OnStar(0))
                  /\ pc' = "cancel" /\ UNCHANGED <<ok, strayed>>
               \/ /\ way = "star" /\ NoTag /\ ReadAndSend(OnStar(0))
                  /\ Failed(m, "authfail") /\ Stray("star")
               \/ /\ StarsAfter(m) /\ GENSYM /\ ReadAndSend(OnStar(tag'))
                  /\ Failed(m, "authfail") /\ Stray("star")
               \/ /\ NoTag /\ wire' = Tail(wire) /\ srv' = srv
                  /\ Failed(m, "authfail")
                  /\ IF srv.at = "sasl" THEN Stray("quit") ELSE UNCHANGED strayed
        PROVE  \/ /\ StarHeard(Tail(wire), 0)
                  /\ "wait" \in {st.unfit} \cup st.fails
                  /\ pc' = "cancel" /\ ok' = ok /\ tag' = tag /\ strayed' = strayed
               \/ /\ (NewTag \/ tag' = tag) /\ StarHeard(Tail(wire), tag')
                  /\ GivesUpOn /\ strayed' # {}
                  /\ "star" \in Ways \/ Imap
               \/ /\ wire' = Tail(wire) /\ srv' = srv /\ tag' = tag
                  /\ GivesUpOn /\ strayed' = IF srv.at = "sasl" THEN strayed \cup {"quit"} ELSE strayed
    <2>1. way \in {st.unfit} \cup st.fails
      BY <1>5
    <2>7. way \in Ways
      BY <1>2, <1>5, Zenon DEF Ways
    <2>2. 0 \in Nat
      OBVIOUS
    <2>3. CASE way = "wait" /\ NoTag /\ ReadAndSend(OnStar(0)) /\ pc' = "cancel" /\ UNCHANGED <<ok, strayed>>
      <3>1. StarHeard(Tail(wire), 0)
        BY <1>1, <2>3, StarHears DEF ReadAndSend
      <3> QED BY <2>1, <2>3, <3>1 DEF NoTag
    <2>4. CASE /\ way = "star" /\ NoTag /\ ReadAndSend(OnStar(0))
               /\ Failed(m, "authfail") /\ Stray("star")
      <3>1. StarHeard(Tail(wire), 0)
        BY <1>1, <2>4, StarHears DEF ReadAndSend
      <3>2. StarHeard(Tail(wire), tag')
        BY <1>1, <2>4, <3>1 DEF StarHeard, TagOf, NoTag
      <3>3. strayed' # {} /\ tag' = tag /\ GivesUpOn
        BY <2>4, FailedFacts DEF Stray, NoTag
      <3> QED BY <2>7, <2>4, <3>2, <3>3
    <2>5. CASE /\ StarsAfter(m) /\ GENSYM /\ ReadAndSend(OnStar(tag'))
               /\ Failed(m, "authfail") /\ Stray("star")
      <3>1. tag' \in Nat /\ NewTag
        BY <1>1, <2>5 DEF GENSYM, NewTag
      <3>2. StarHeard(Tail(wire), tag')
        BY <1>1, <2>5, <3>1, StarHears DEF ReadAndSend
      <3>3. strayed' # {} /\ GivesUpOn /\ Imap
        BY <2>5, FailedFacts DEF Stray, StarsAfter
      <3> QED BY <3>1, <3>2, <3>3
    <2>6. CASE /\ NoTag /\ wire' = Tail(wire) /\ srv' = srv
               /\ Failed(m, "authfail")
               /\ IF srv.at = "sasl" THEN Stray("quit") ELSE UNCHANGED strayed
      BY <2>6, FailedFacts DEF NoTag, Stray
    <2> QED BY <1>5, <2>3, <2>4, <2>5, <2>6
  <1>6. CASE NoTag /\ Lost /\ Failed(m, "socket") /\ UNCHANGED <<k, strayed>>
    BY <1>1, <1>6, FailedFacts DEF LostFacts, Lost, NoTag
  <1> QED BY <1>1, <1>2, <1>3, <1>4, <1>5, <1>6

\* The line a helper takes for the answer to its last response.
TakenAt(n) ==
    /\ n \in 1..Len(wire)
    /\ ~Imap => n = 1
    /\ Imap /\ ~ReadsRaw(Order[i]) => wire[n].tag = tag
Unread(n) == SubSeq(wire, n + 1, Len(wire))

LEMMA FinalCases ==
    ASSUME TurnInv, Final
    PROVE  /\ UNCHANGED <<cfg, auth, i, k, tlsdoubt>>
           /\ \/ \E n : /\ TakenAt(n) /\ "success" \in Verdict(Order[i], wire[n])
                        /\ pc' = "done" /\ ok' = "success" /\ wire' = Unread(n)
                        /\ UNCHANGED <<srv, tag, strayed>>
              \/ \E n, v : /\ TakenAt(n) /\ v \in Verdict(Order[i], wire[n]) /\ v # "success"
                           /\ GivesUpOn /\ wire' = Unread(n) /\ UNCHANGED <<srv, tag, strayed>>
              \/ \E n : /\ TakenAt(n) /\ Imap /\ GivesUpOn /\ strayed' # {}
                        /\ NewTag /\ StarHeard(Unread(n), tag')
              \/ LostFacts /\ GivesUpOn /\ strayed' = strayed
  <1>1. /\ TurnType /\ wire \in Seq(Lines) /\ tag \in Nat /\ UNCHANGED <<cfg, auth, i, k, tlsdoubt>>
    BY DEF TurnInv, TurnType, Final, ctlVars
  <1>2. PICK m : m = Order[i]
    OBVIOUS
  <1>3. CASE Lost /\ NoTag /\ Failed(m, "socket") /\ UNCHANGED strayed
    BY <1>1, <1>3, FailedFacts DEF LostFacts, Lost, NoTag
  <1>4. ASSUME NEW l, NEW rest,
               IF ReadsRaw(m) THEN wire # <<>> ELSE Answers # {},
               l = IF ReadsRaw(m) THEN Head(wire) ELSE Answer,
               rest = IF ReadsRaw(m) THEN Tail(wire) ELSE Rest
        PROVE  \E n : TakenAt(n) /\ l = wire[n] /\ rest = Unread(n)
    <2>1. CASE ReadsRaw(m)
      <3>1. 1 \in 1..Len(wire) /\ Head(wire) = wire[1]
        BY <1>1, <1>4, <2>1, Shortened
      <3>2. Unread(1) = Tail(wire)
        BY <1>1, <3>1, Left DEF Unread
      <3>3. TakenAt(1)
        BY <1>2, <2>1, <3>1 DEF TakenAt
      <3> QED BY <1>4, <2>1, <3>1, <3>2, <3>3
    <2>2. CASE ~ReadsRaw(m)
      <3>1. PICK n \in Answers :
              /\ n \in 1..Len(wire) /\ Answer = wire[n]
              /\ Rest = SubSeq(wire, n + 1, Len(wire))
              /\ Imap => wire[n].tag = tag
              /\ ~Imap => n = 1
        BY <1>1, <1>4, <2>2, AnswerFacts
      <3> QED BY <1>2, <1>4, <2>2, <3>1 DEF TakenAt, Unread
    <2> QED BY <2>1, <2>2
  <1>5. ASSUME NEW n, TakenAt(n), NEW v \in Verdict(m, wire[n]),
               IF v = "success" THEN
                 /\ Return(v) /\ wire' = Unread(n) /\ NoTag /\ UNCHANGED <<srv, strayed>>
               ELSE /\ Failed(m, v)
                    /\ IF StarsAfter(m)
                       THEN GENSYM /\ Stray("star") /\ SendAfter(Unread(n), OnStar(tag'))
                       ELSE /\ wire' = Unread(n) /\ NoTag /\ UNCHANGED <<srv, strayed>>
        PROVE  \/ /\ TakenAt(n) /\ "success" \in Verdict(Order[i], wire[n])
                  /\ pc' = "done" /\ ok' = "success" /\ wire' = Unread(n)
                  /\ UNCHANGED <<srv, tag, strayed>>
               \/ /\ TakenAt(n) /\ v \in Verdict(Order[i], wire[n]) /\ v # "success"
                  /\ GivesUpOn /\ wire' = Unread(n) /\ UNCHANGED <<srv, tag, strayed>>
               \/ /\ TakenAt(n) /\ Imap /\ GivesUpOn /\ strayed' # {}
                  /\ NewTag /\ StarHeard(Unread(n), tag')
    <2>1. CASE v = "success"
      BY <1>2, <1>5, <2>1 DEF Return, NoTag
    <2>2. CASE v # "success" /\ ~StarsAfter(m)
      BY <1>2, <1>5, <2>2, FailedFacts DEF NoTag
    <2>3. CASE v # "success" /\ StarsAfter(m)
      <3>1. tag' \in Nat /\ NewTag
        BY <1>1, <1>5, <2>3 DEF GENSYM, NewTag
      <3>2. StarHeard(Unread(n), tag')
        BY <1>1, <1>5, <2>3, <3>1, StarHears
      <3>3. strayed' # {} /\ GivesUpOn /\ Imap
        BY <1>5, <2>3, FailedFacts DEF Stray, StarsAfter
      <3> QED BY <1>5, <3>1, <3>2, <3>3
    <2> QED BY <2>1, <2>2, <2>3
  <1>6. CASE /\ IF ReadsRaw(m) THEN wire # <<>> ELSE Answers # {}
             /\ LET l == IF ReadsRaw(m) THEN Head(wire) ELSE Answer
                    rest == IF ReadsRaw(m) THEN Tail(wire) ELSE Rest
                IN \E v \in Verdict(m, l) :
                     IF v = "success" THEN
                       /\ Return(v) /\ wire' = rest /\ NoTag /\ UNCHANGED <<srv, strayed>>
                     ELSE /\ Failed(m, v)
                          /\ IF StarsAfter(m)
                             THEN GENSYM /\ Stray("star") /\ SendAfter(rest, OnStar(tag'))
                             ELSE /\ wire' = rest /\ NoTag /\ UNCHANGED <<srv, strayed>>
    <2>1. PICK l, rest : /\ l = IF ReadsRaw(m) THEN Head(wire) ELSE Answer
                         /\ rest = IF ReadsRaw(m) THEN Tail(wire) ELSE Rest
      OBVIOUS
    <2>2. PICK n : TakenAt(n) /\ l = wire[n] /\ rest = Unread(n)
      BY <1>4, <1>6, <2>1
    <2>3. PICK v \in Verdict(m, wire[n]) :
               IF v = "success" THEN
                 /\ Return(v) /\ wire' = Unread(n) /\ NoTag /\ UNCHANGED <<srv, strayed>>
               ELSE /\ Failed(m, v)
                    /\ IF StarsAfter(m)
                       THEN GENSYM /\ Stray("star") /\ SendAfter(Unread(n), OnStar(tag'))
                       ELSE /\ wire' = Unread(n) /\ NoTag /\ UNCHANGED <<srv, strayed>>
      BY <1>6, <2>1, <2>2
    <2> QED BY <1>1, <1>5, <2>2, <2>3
  <1>7. QED
    BY <1>2, <1>3, <1>6 DEF Final

LEMMA ClearCases ==
    ASSUME TurnInv, Clear
    PROVE  /\ i' = Len(Order) + 1 /\ UNCHANGED <<cfg, k, tlsdoubt, strayed>>
           /\ \/ /\ pc' = "done" /\ ok' # "success" /\ UNCHANGED <<wire, srv, tag>>
              \/ NewTag /\ CommandHeard(wire, "authed") /\ pc' = "final" /\ ok' = ok
              \/ ~Imap /\ NewTag /\ CommandHeard(wire, "cmd") /\ pc' = "user" /\ ok' = ok
  <1>1. /\ TurnType /\ tag \in Nat /\ UNCHANGED <<cfg, k, tlsdoubt, strayed>>
        /\ i' = Len(Order) + 1 /\ ok # "success"
    BY DEF TurnInv, TurnType, Clear, ctlVars
  <1>2. GENSYM \/ (NoTag /\ ~Imap) => NewTag /\ tag' \in Nat
    BY <1>1 DEF GENSYM, NoTag, NewTag
  <1>3. \/ /\ pc' = "done" /\ (ok' = ok \/ ok' = "authfail") /\ NoTag /\ UNCHANGED <<wire, srv>>
        \/ (GENSYM \/ (NoTag /\ ~Imap)) /\ Send(OnCommand("authed")) /\ pc' = "final" /\ ok' = ok
        \/ ~Imap /\ NoTag /\ Send(OnCommand("cmd")) /\ pc' = "user" /\ ok' = ok
    BY DEF Clear, Return, Imap
  <1>4. CASE pc' = "done" /\ (ok' = ok \/ ok' = "authfail") /\ NoTag /\ UNCHANGED <<wire, srv>>
    BY <1>1, <1>4 DEF NoTag
  <1>5. CASE (GENSYM \/ (NoTag /\ ~Imap)) /\ Send(OnCommand("authed")) /\ pc' = "final" /\ ok' = ok
    <2>1. CommandHeard(wire, "authed")
      BY <1>1, <1>2, <1>5, CommandHears DEF Send
    <2> QED BY <1>1, <1>2, <1>5, <2>1
  <1>6. CASE ~Imap /\ NoTag /\ Send(OnCommand("cmd")) /\ pc' = "user" /\ ok' = ok
    <2>1. CommandHeard(wire, "cmd")
      BY <1>1, <1>2, <1>6, CommandHears DEF Send
    <2> QED BY <1>1, <1>2, <1>6, <2>1
  <1> QED BY <1>3, <1>4, <1>5, <1>6

LEMMA PassCases ==
    ASSUME TurnInv, Pass
    PROVE  /\ UNCHANGED <<cfg, i, k, tlsdoubt, strayed, tag>> /\ ~Imap
           /\ \/ wire # <<>> /\ pc' = "done" /\ ok' # "success" /\ wire' = Tail(wire) /\ srv' = srv
              \/ /\ wire # <<>> /\ Head(wire).kind = "ok" /\ CommandHeard(Tail(wire), "authed")
                 /\ pc' = "final" /\ ok' = ok
              \/ LostFacts /\ pc' = "done" /\ ok' # "success"
  <1>1. /\ TurnType /\ UNCHANGED <<cfg, i, k, tlsdoubt, strayed, tag>> /\ ~Imap
        /\ ok # "success" /\ tag' \in Nat
    BY DEF TurnInv, TurnType, AtWork, Pass, NoTag, ctlVars
  <1>2. \/ wire # <<>> /\ pc' = "done" /\ ok' # "success" /\ wire' = Tail(wire) /\ srv' = srv
        \/ /\ wire # <<>> /\ StatusOf(Head(wire)) = "success" /\ ReadAndSend(OnCommand("authed"))
           /\ pc' = "final" /\ ok' = ok
        \/ Lost /\ pc' = "done" /\ ok' = "socket"
    BY DEF Pass, Return
  <1>3. CASE /\ wire # <<>> /\ StatusOf(Head(wire)) = "success" /\ ReadAndSend(OnCommand("authed"))
             /\ pc' = "final" /\ ok' = ok
    <2>1. CommandHeard(Tail(wire), "authed")
      BY <1>1, <1>3, CommandHears DEF ReadAndSend
    <2>2. Head(wire).kind = "ok"
      BY <1>3 DEF StatusOf
    <2> QED BY <1>1, <1>3, <2>1, <2>2
  <1> QED BY <1>1, <1>2, <1>3 DEF Lost, LostFacts

-----------------------------------------------------------------------------
(* Places, stray steps and tags.                                           *)

\* An OK under tag t answers the last command, of a server that is at a.
TagsOk(w, t, a) ==
    \A n \in 1..Len(w) :
       w[n].tag <= t /\ (w[n].kind = "ok" /\ w[n].tag = t => a \in {"authed", "gone"})
TagInv == Imap => srv.tag <= tag /\ TagsOk(wire, tag, srv.at)

PlaceInv == TurnInv /\ StepInv /\ TagInv

LEMMA SameAccount ==
    ASSUME cfg' = cfg
    PROVE  Order' = Order /\ Imap' = Imap
  BY DEF Order, Imap

\* The line spoken is the last on the wire.
LEMMA SpokenFacts ==
    ASSUME NEW unread \in Seq(Lines), NEW l, Spoken(unread, l)
    PROVE  /\ wire' \in Seq(Lines) /\ srv' \in Servers /\ l \in Lines
           /\ Len(unread) \in Nat /\ Len(wire') = Len(unread) + 1
           /\ \A n \in 1..Len(unread) : wire'[n] = unread[n]
           /\ wire'[Len(unread) + 1] = l
  BY Added DEF Spoken

\* Lines that stay keep their tags, and a line that is added has none above
\* the current one and is an OK only if the server is through.
Old(w, v, u, b) ==
    \A n \in 1..Len(v) :
       \/ \E q \in 1..Len(w) : v[n] = w[q]
       \/ v[n].tag <= u /\ (v[n].kind = "ok" => b \in {"authed", "gone"})

LEMMA TagStep ==
    ASSUME NEW w \in Seq(Lines), NEW v \in Seq(Lines), NEW t \in Nat, NEW u \in Nat,
           NEW a, NEW b, TagsOk(w, t, a), t <= u,
           u = t /\ a \in {"authed", "gone"} => b \in {"authed", "gone"},
           Old(w, v, u, b)
    PROVE  TagsOk(v, u, b)
  <1> SUFFICES ASSUME NEW n \in 1..Len(v)
               PROVE  v[n].tag <= u /\ (v[n].kind = "ok" /\ v[n].tag = u => b \in {"authed", "gone"})
    BY DEF TagsOk
  <1>0. \/ \E q \in 1..Len(w) : v[n] = w[q]
        \/ v[n].tag <= u /\ (v[n].kind = "ok" => b \in {"authed", "gone"})
    BY DEF Old
  <1>1. CASE \E q \in 1..Len(w) : v[n] = w[q]
    <2>1. PICK q \in 1..Len(w) : v[n] = w[q]
      BY <1>1
    <2>2. w[q].tag <= t /\ (w[q].kind = "ok" /\ w[q].tag = t => a \in {"authed", "gone"})
      BY <2>1 DEF TagsOk
    <2>3. w[q] \in Lines
      BY <2>1
    <2>4. w[q].tag \in Nat
      BY <2>3 DEF Lines
    <2> QED BY <2>1, <2>2, <2>4
  <1>2. CASE v[n].tag <= u /\ (v[n].kind = "ok" => b \in {"authed", "gone"})
    BY <1>2
  <1> QED BY <1>0, <1>1, <1>2

\* The same for a line that joins unread ones.
LEMMA TagSpoken ==
    ASSUME TurnType, TagInv, Imap, NEW unread \in Seq(Lines), NEW l, NEW t \in Nat,
           tag' \in Nat, tag <= tag', t <= tag',
           \A n \in 1..Len(unread) : \E q \in 1..Len(wire) : unread[n] = wire[q],
           Spoken(unread, l), TagOf(l, t),
           l.kind = "ok" => srv'.at \in {"authed", "gone"},
           tag' = tag /\ srv.at \in {"authed", "gone"} => srv'.at \in {"authed", "gone"},
           srv'.tag <= tag', cfg' = cfg
    PROVE  TagInv'
  <1>1. /\ wire' \in Seq(Lines) /\ Len(unread) \in Nat /\ Len(wire') = Len(unread) + 1
        /\ \A n \in 1..Len(unread) : wire'[n] = unread[n]
        /\ wire'[Len(unread) + 1] = l
    BY SpokenFacts
  <1>2. wire \in Seq(Lines) /\ tag \in Nat /\ srv.tag \in Nat /\ srv.tag <= tag
    BY DEF TurnType, Servers, TagInv
  <1>3. l.tag <= tag'
    BY <1>2 DEF TagOf
  <1>4. Old(wire, wire', tag', srv'.at)
    <2> SUFFICES ASSUME NEW n \in 1..Len(wire')
                 PROVE \/ \E q \in 1..Len(wire) : wire'[n] = wire[q]
                       \/ wire'[n].tag <= tag' /\ (wire'[n].kind = "ok" => srv'.at \in {"authed", "gone"})
      BY DEF Old
    <2>1. n \in 1..Len(unread) \/ n = Len(unread) + 1
      BY <1>1
    <2> QED BY <1>1, <1>3, <2>1
  <1>5. TagsOk(wire, tag, srv.at)
    BY DEF TagInv
  <1>6. TagsOk(wire', tag', srv'.at)
    BY <1>1, <1>2, <1>4, <1>5, TagStep
  <1> QED BY <1>6, SameAccount DEF TagInv

\* And for lines that are merely taken off, or were all there.
LEMMA TagKept ==
    ASSUME TurnType, TagInv, Imap, wire' \in Seq(Lines), tag' \in Nat, tag <= tag',
           \A n \in 1..Len(wire') : \E q \in 1..Len(wire) : wire'[n] = wire[q],
           srv.at \in {"authed", "gone"} => srv'.at \in {"authed", "gone"},
           srv'.tag <= tag', cfg' = cfg
    PROVE  TagInv'
  <1>1. wire \in Seq(Lines) /\ tag \in Nat /\ TagsOk(wire, tag, srv.at)
    BY DEF TurnType, TagInv
  <1>2. Old(wire, wire', tag', srv'.at)
    BY DEF Old
  <1>3. TagsOk(wire', tag', srv'.at)
    BY <1>1, <1>2, TagStep
  <1> QED BY <1>3, SameAccount DEF TagInv

\* Without IMAP there are no tags.
LEMMA TagFree ==
    ASSUME ~Imap, cfg' = cfg
    PROVE  TagInv'
  BY SameAccount DEF TagInv

LEMMA TagGrows ==
    ASSUME tag \in Nat, NewTag \/ tag' = tag
    PROVE  tag' \in Nat /\ tag <= tag' /\ (NewTag /\ Imap => tag < tag')
  BY DEF NewTag

\* A session that has ended keeps its types.
LEMMA EndPlaces ==
    ASSUME PlaceInv, pc' \in {"done", "idle", "closed"}, i' \in Nat, k' \in Nat, cfg' = cfg,
           tag' \in Nat, wire' \in Seq(Lines), srv' \in Servers, TagInv'
    PROVE  PlaceInv'
  BY DEF PlaceInv, TurnInv, TurnType, StepInv, AtStart, AtWork

LEMMA TryPlaces == ASSUME PlaceInv, TryMechanism PROVE PlaceInv'
  <1>1. /\ TurnInv /\ TurnType /\ TagInv /\ StepInv /\ pc = "try" /\ ok # "success"
        /\ wire \in Seq(Lines) /\ srv \in Servers /\ tag \in Nat /\ k \in Nat
        /\ srv.tag \in Nat /\ cfg \in Configs
    BY DEF PlaceInv, TurnInv, TurnType, TryMechanism, Servers
  <1>2. /\ i' \in 1..Len(Order) /\ i' > i /\ UNCHANGED <<cfg, strayed, tlsdoubt>>
        /\ \/ /\ NewTag /\ AuthHeard(Order[i']) /\ k' = 1 /\ ok' = ok
              /\ pc' = IF Order[i'] = "EXTERNAL" THEN "final" ELSE "exch"
           \/ UNCHANGED <<k, tag, wire, srv>> /\ GivesUpOn
    BY <1>1, TryCases
  <1>3. Order' = Order /\ Imap' = Imap /\ i' \in Nat /\ i' >= 1
    BY <1>2, SameAccount, OrderFacts
  <1>4. CASE UNCHANGED <<k, tag, wire, srv>> /\ GivesUpOn
    <2>1. TurnInv'
      BY <1>1, <1>2, <1>3, <1>4, OrderFacts DEF TurnInv, TurnType, AtStart, AtWork, GivesUpOn
    <2>2. StepInv'
      BY <1>1, <1>2, <1>4 DEF StepInv, GivesUpOn
    <2>3. TagInv'
      BY <1>1, <1>3, <1>4 DEF TagInv
    <2> QED BY <2>1, <2>2, <2>3 DEF PlaceInv
  <1>5. CASE /\ NewTag /\ AuthHeard(Order[i']) /\ k' = 1 /\ ok' = ok
             /\ pc' = IF Order[i'] = "EXTERNAL" THEN "final" ELSE "exch"
    <2>1. PICK m : m = Order[i']
      OBVIOUS
    <2>2. /\ m \in Mechs /\ Rounds(m) \in 0..3 /\ Len(Steps(m)) = Rounds(m)
          /\ Rounds(m) = 0 <=> m = "EXTERNAL"
      BY <1>2, <2>1, OrderMechs, StepsMatch
    <2>3. tag' \in Nat /\ tag <= tag' /\ (Imap => tag < tag')
      BY <1>1, <1>5, TagGrows
    <2>4. /\ wire' \in Seq(Lines) /\ srv' \in Servers
          /\ Len(wire') <= Len(wire) + 1
          /\ srv'.at = "sasl" => m # "EXTERNAL" /\ srv'.left = Rounds(m)
          /\ TagInv'
      <3>1. CASE Silent(wire)
        <4>1. TagInv'
          <5>1. CASE ~Imap  BY <1>2, <5>1, TagFree
          <5>2. CASE Imap
            BY <1>1, <1>2, <2>3, <3>1, <5>2, TagKept DEF Silent, TagInv
          <5> QED BY <5>1, <5>2
        <4> QED BY <1>1, <3>1, <4>1 DEF Silent
      <3>2. CASE ~Silent(wire)
        <4>1. PICK l : Spoken(wire, l) /\ AuthReply(m, l, srv') /\ TagOf(l, tag')
          BY <1>5, <2>1, <3>2 DEF AuthHeard
        <4>2. wire' \in Seq(Lines) /\ srv' \in Servers /\ Len(wire') = Len(wire) + 1
          BY <1>1, <4>1, SpokenFacts
        <4>3. srv'.at = "sasl" => m # "EXTERNAL" /\ srv'.left = Rounds(m)
          BY <4>1 DEF AuthReply, Idle
        <4>4. TagInv'
          <5>1. CASE ~Imap  BY <1>2, <5>1, TagFree
          <5>2. CASE Imap
            <6>1. srv'.tag <= tag'
              BY <1>1, <2>3, <4>1, <5>2 DEF AuthReply, Idle, TagInv
            <6>2. l.kind = "ok" => srv'.at = "authed"
              BY <4>1, FirstChallengeKind DEF AuthReply
            <6>3. tag' # tag
              BY <1>1, <2>3, <5>2
            <6> QED BY <1>1, <1>2, <2>3, <4>1, <5>2, <6>1, <6>2, <6>3, TagSpoken
          <5> QED BY <5>1, <5>2
        <4> QED BY <4>2, <4>3, <4>4
      <3> QED BY <3>1, <3>2
    <2>5. TurnInv'
      BY <1>1, <1>2, <1>3, <1>5, <2>1, <2>2, <2>3, <2>4
         DEF TurnInv, TurnType, AtStart, AtWork, Helper
    <2>6. StepInv'
      BY <1>1, <1>2, <1>5, <2>4 DEF StepInv
    <2> QED BY <2>4, <2>5, <2>6 DEF PlaceInv
  <1> QED BY <1>2, <1>4, <1>5

\* The steps of the helpers, one by one.
LEMMA Table ==
    /\ Rounds("CRAM-MD5") = 1 /\ Steps("CRAM-MD5")[1] = Step("chal", "quit", {})
    /\ Rounds("KERBEROS_V4") = 2
    /\ Steps("KERBEROS_V4")[1] = Step("chal", "quit", {"quit"})
    /\ Steps("KERBEROS_V4")[2] = Step("chal", "quit", {"quit"})
    /\ Rounds("X-OTP") = 2
    /\ Steps("X-OTP")[1] = Step("plus", "quit", {})
    /\ Steps("X-OTP")[2] = Step("chal", "quit", {"quit"})
    /\ Rounds("NTLM") = 2 /\ Rounds("MSN") = 2 /\ Steps("MSN") = Steps("NTLM")
    /\ Steps("NTLM")[1] = Step("plus", "star", {})
    /\ Steps("NTLM")[2] = Step("chal", "quit", {"star"})
    /\ Rounds("GSSAPI") = 3
    /\ Steps("GSSAPI")[1] = Step("blank", "wait", {"wait"})
    /\ Steps("GSSAPI")[2] = Step("token", "wait", {"wait"})
    /\ Steps("GSSAPI")[3] = Step("token", "quit", {"quit"})
    /\ Rounds("RPA") = 3
    /\ Steps("RPA")[1] = Step("plus", "quit", {})
    /\ Steps("RPA")[2] = Step("chal", "quit", {"quit"})
    /\ Steps("RPA")[3] = Step("chal", "quit", {"quit"})
  <1>1. /\ Rounds("CRAM-MD5") = 1 /\ Rounds("KERBEROS_V4") = 2 /\ Rounds("X-OTP") = 2
        /\ Rounds("NTLM") = 2 /\ Rounds("MSN") = 2 /\ Rounds("GSSAPI") = 3 /\ Rounds("RPA") = 3
    BY DEF Rounds
  <1>2. /\ Steps("CRAM-MD5") = do_cram_md5 /\ Steps("KERBEROS_V4") = do_rfc1731
        /\ Steps("X-OTP") = do_otp /\ Steps("NTLM") = ntlm_helper /\ Steps("MSN") = ntlm_helper
        /\ Steps("GSSAPI") = do_gssauth /\ Steps("RPA") = POP3_auth_rpa
    BY DEF Steps
  <1>3. do_cram_md5[1] = Step("chal", "quit", {})
    BY DEF do_cram_md5
  <1>4. do_rfc1731[1] = Step("chal", "quit", {"quit"}) /\ do_rfc1731[2] = Step("chal", "quit", {"quit"})
    BY DEF do_rfc1731, KerberosTicket, KerberosCheck
  <1>5. do_otp[1] = Step("plus", "quit", {}) /\ do_otp[2] = Step("chal", "quit", {"quit"})
    BY DEF do_otp
  <1>6. ntlm_helper[1] = Step("plus", "star", {}) /\ ntlm_helper[2] = Step("chal", "quit", {"star"})
    BY DEF ntlm_helper
  <1>7. /\ do_gssauth[1] = Step("blank", "wait", {"wait"}) /\ do_gssauth[2] = Step("token", "wait", {"wait"})
        /\ do_gssauth[3] = Step("token", "quit", {"quit"})
    BY DEF do_gssauth, GssContext, GssFlags
  <1>8. /\ POP3_auth_rpa[1] = Step("plus", "quit", {}) /\ POP3_auth_rpa[2] = Step("chal", "quit", {"quit"})
        /\ POP3_auth_rpa[3] = Step("chal", "quit", {"quit"})
    BY DEF POP3_auth_rpa, RpaToken2, RpaToken4
  <1> QED BY <1>1, <1>2, <1>3, <1>4, <1>5, <1>6, <1>7, <1>8, Zenon

LEMMA StepFields ==
    ASSUME NEW takes, NEW unfit, NEW fails
    PROVE  /\ Step(takes, unfit, fails).takes = takes /\ Step(takes, unfit, fails).unfit = unfit
           /\ Step(takes, unfit, fails).fails = fails
  BY DEF Step

\* Which helpers cancel an exchange with a "*", and which read its answer.
LEMMA WaysFacts ==
    ASSUME NEW m \in Mechs, NEW n \in 1..Len(Steps(m))
    PROVE  /\ "wait" \in {Steps(m)[n].unfit} \cup Steps(m)[n].fails => m = "GSSAPI" /\ n \in 1..2
           /\ "star" \in {Steps(m)[n].unfit} \cup Steps(m)[n].fails => m \in {"NTLM", "MSN"}
  <1>1. n \in 1..Rounds(m) /\ m # "EXTERNAL"
    BY StepsMatch
  <1>2. CASE m = "GSSAPI"
    <2>1. n = 1 \/ n = 2 \/ n = 3
      BY <1>1, <1>2, Table
    <2> QED BY <1>2, <2>1, Table, StepFields
  <1>3. CASE m = "KERBEROS_V4"
    <2>1. n = 1 \/ n = 2
      BY <1>1, <1>3, Table
    <2> QED BY <1>3, <2>1, Table, StepFields
  <1>4. CASE m = "CRAM-MD5"
    <2>1. n = 1
      BY <1>1, <1>4, Table
    <2> QED BY <1>4, <2>1, Table, StepFields
  <1>5. CASE m = "X-OTP"
    <2>1. n = 1 \/ n = 2
      BY <1>1, <1>5, Table
    <2> QED BY <1>5, <2>1, Table, StepFields
  <1>6. CASE m \in {"NTLM", "MSN"}
    <2>1. n = 1 \/ n = 2
      BY <1>1, <1>6, Table
    <2> QED BY <1>6, <2>1, Table, StepFields
  <1>7. CASE m = "RPA"
    <2>1. n = 1 \/ n = 2 \/ n = 3
      BY <1>1, <1>7, Table
    <2> QED BY <1>7, <2>1, Table, StepFields
  <1> QED BY <1>1, <1>2, <1>3, <1>4, <1>5, <1>6, <1>7 DEF Mechs

\* Lines that were on the wire.
From(unread) ==
    /\ unread \in Seq(Lines)
    /\ \A n \in 1..Len(unread) : \E q \in 1..Len(wire) : unread[n] = wire[q]

LEMMA FromTail ==
    ASSUME wire \in Seq(Lines), wire # <<>>
    PROVE  From(Tail(wire)) /\ Len(Tail(wire)) = Len(wire) - 1 /\ Len(wire) \in Nat
  <1>1. /\ Tail(wire) \in Seq(Lines) /\ Len(Tail(wire)) = Len(wire) - 1
        /\ \A n \in 1..(Len(wire) - 1) : Tail(wire)[n] = wire[n + 1]
        /\ Len(wire) \in Nat
    BY Shortened
  <1>2. \A n \in 1..Len(Tail(wire)) : n + 1 \in 1..Len(wire) /\ Tail(wire)[n] = wire[n + 1]
    BY <1>1
  <1> QED BY <1>1, <1>2 DEF From

LEMMA FromUnread ==
    ASSUME wire \in Seq(Lines), NEW n \in 1..Len(wire)
    PROVE  From(Unread(n)) /\ Len(Unread(n)) = Len(wire) - n /\ Len(wire) \in Nat
  <1>1. /\ Unread(n) \in Seq(Lines) /\ Len(Unread(n)) = Len(wire) - n
        /\ \A q \in 1..(Len(wire) - n) : Unread(n)[q] = wire[n + q]
        /\ Len(wire) \in Nat
    BY Left DEF Unread
  <1>2. \A q \in 1..Len(Unread(n)) : n + q \in 1..Len(wire) /\ Unread(n)[q] = wire[n + q]
    BY <1>1
  <1> QED BY <1>1, <1>2 DEF From

LEMMA FromWire ==
    ASSUME wire \in Seq(Lines)
    PROVE  From(wire) /\ From(<<>>) /\ Len(wire) \in Nat
  BY DEF From

\* Wherever a line is only read.
LEMMA ReadTags ==
    ASSUME TurnType, TagInv, From(wire'), tag' = tag, srv' = srv, cfg' = cfg
    PROVE  TagInv'
  <1>1. CASE ~Imap  BY <1>1, TagFree
  <1>2. CASE Imap
    <2>1. tag \in Nat /\ srv.tag <= tag
      BY <1>2 DEF TurnType, TagInv
    <2> QED BY <1>2, <2>1, TagKept DEF From
  <1> QED BY <1>1, <1>2

LEMMA StarFacts ==
    ASSUME TurnType, TagInv, NEW unread, From(unread), NEW t \in Nat, t <= tag',
           NewTag \/ tag' = tag, cfg' = cfg, StarHeard(unread, t)
    PROVE  /\ wire' \in Seq(Lines) /\ srv' \in Servers /\ srv'.at # "sasl"
           /\ Len(wire') <= Len(unread) + 1 /\ TagInv'
  <1>1. /\ unread \in Seq(Lines) /\ Len(unread) \in Nat /\ tag \in Nat /\ srv \in Servers
        /\ srv.tag \in Nat
    BY DEF From, TurnType, Servers
  <1>2. tag' \in Nat /\ tag <= tag'
    BY <1>1, TagGrows
  <1>3. CASE Silent(unread)
    <2>1. TagInv'
      <3>1. CASE ~Imap  BY <3>1, TagFree
      <3>2. CASE Imap
        <4>1. srv.tag <= tag'
          BY <1>1, <1>2, <3>2 DEF TagInv
        <4> QED BY <1>1, <1>2, <1>3, <3>2, <4>1, TagKept DEF Silent, From
      <3> QED BY <3>1, <3>2
    <2> QED BY <1>1, <1>3, <2>1 DEF Silent
  <1>4. CASE ~Silent(unread)
    <2>1. PICK l : Spoken(unread, l) /\ StarReply(l, srv') /\ TagOf(l, t)
      BY <1>4 DEF StarHeard
    <2>2. wire' \in Seq(Lines) /\ srv' \in Servers /\ Len(wire') = Len(unread) + 1
      BY <1>1, <2>1, SpokenFacts
    <2>3. srv'.at # "sasl" /\ l.kind # "ok" /\ (srv'.tag = 0 \/ srv' = srv)
      BY <2>1 DEF StarReply, Idle
    <2>4. TagInv'
      <3>1. CASE ~Imap  BY <3>1, TagFree
      <3>2. CASE Imap
        <4>1. srv'.tag <= tag'
          BY <1>1, <1>2, <2>3, <3>2 DEF TagInv
        <4>2. srv.at \in {"authed", "gone"} => srv' = srv
          BY <2>1 DEF StarReply
        <4>3. \A n \in 1..Len(unread) : \E q \in 1..Len(wire) : unread[n] = wire[q]
          BY DEF From
        <4> QED BY <1>1, <1>2, <2>1, <2>3, <3>2, <4>1, <4>2, <4>3, TagSpoken
      <3> QED BY <3>1, <3>2
    <2> QED BY <1>1, <2>2, <2>3, <2>4
  <1> QED BY <1>3, <1>4

LEMMA CommandFacts ==
    ASSUME TurnType, TagInv, NEW unread, From(unread), NEW to \in {"cmd", "authed"},
           Imap => to = "authed", NewTag, cfg' = cfg, CommandHeard(unread, to)
    PROVE  /\ wire' \in Seq(Lines) /\ srv' \in Servers /\ srv'.at # "sasl"
           /\ Len(wire') <= Len(unread) + 1 /\ TagInv'
  <1>1. /\ unread \in Seq(Lines) /\ Len(unread) \in Nat /\ tag \in Nat /\ srv \in Servers
        /\ srv.tag \in Nat
    BY DEF From, TurnType, Servers
  <1>2. tag' \in Nat /\ tag <= tag' /\ (Imap => tag < tag')
    BY <1>1, TagGrows
  <1>3. CASE Silent(unread)
    <2>1. TagInv'
      <3>1. CASE ~Imap  BY <3>1, TagFree
      <3>2. CASE Imap
        <4>1. srv.tag <= tag'
          BY <1>1, <1>2, <3>2 DEF TagInv
        <4> QED BY <1>1, <1>2, <1>3, <3>2, <4>1, TagKept DEF Silent, From
      <3> QED BY <3>1, <3>2
    <2> QED BY <1>1, <1>3, <2>1 DEF Silent
  <1>4. CASE ~Silent(unread)
    <2>1. PICK l : Spoken(unread, l) /\ CommandReply(to, l, srv') /\ TagOf(l, tag')
      BY <1>4 DEF CommandHeard
    <2>2. wire' \in Seq(Lines) /\ srv' \in Servers /\ Len(wire') = Len(unread) + 1
      BY <1>1, <2>1, SpokenFacts
    <2>3. srv'.at # "sasl" /\ (l.kind = "ok" => srv'.at = to) /\ srv'.tag \in {0, srv.tag}
      BY <2>1 DEF CommandReply, Idle
    <2>4. TagInv'
      <3>1. CASE ~Imap  BY <3>1, TagFree
      <3>2. CASE Imap
        <4>1. srv'.tag <= tag' /\ tag' # tag
          BY <1>1, <1>2, <2>3, <3>2 DEF TagInv
        <4>2. \A n \in 1..Len(unread) : \E q \in 1..Len(wire) : unread[n] = wire[q]
          BY DEF From
        <4> QED BY <1>1, <1>2, <2>1, <2>3, <3>2, <4>1, <4>2, TagSpoken
      <3> QED BY <3>1, <3>2
    <2> QED BY <1>1, <2>2, <2>3, <2>4
  <1> QED BY <1>3, <1>4

LEMMA ExchangePlaces == ASSUME PlaceInv, Exchange PROVE PlaceInv'
  <1>1. /\ TurnInv /\ TurnType /\ TagInv /\ StepInv /\ pc = "exch" /\ ok # "success"
        /\ wire \in Seq(Lines) /\ srv \in Servers /\ tag \in Nat /\ k \in Nat /\ i \in Nat
        /\ srv.tag \in Nat /\ srv.left \in Nat /\ cfg \in Configs
    BY DEF PlaceInv, TurnInv, TurnType, Exchange, Servers
  <1>2. PICK m : m = Order[i]
    OBVIOUS
  <1>3. /\ i \in 1..Len(Order) /\ k \in 1..Len(Steps(m))
        /\ srv.at = "sasl" => srv.left = Len(Steps(m)) - k + 1
    BY <1>1, <1>2 DEF TurnInv, AtWork, Helper
  <1>4. m \in Mechs /\ Len(Steps(m)) \in Nat
    BY <1>2, <1>3, OrderMechs, StepsMatch
  <1>5. UNCHANGED <<cfg, i, tlsdoubt>> /\ Order' = Order /\ Imap' = Imap
    BY <1>1, ExchangeCases, SameAccount
  <1>6. CASE /\ wire # <<>> /\ ResponseHeard /\ k' = k + 1 /\ ok' = ok /\ tag' = tag /\ strayed' = strayed
             /\ pc' = IF k = Len(Steps(m)) THEN "final" ELSE "exch"
    <2>1. From(Tail(wire)) /\ Len(Tail(wire)) = Len(wire) - 1 /\ Len(wire) \in Nat
      BY <1>1, <1>6, FromTail
    <2>2. /\ wire' \in Seq(Lines) /\ srv' \in Servers /\ Len(wire') <= Len(wire) /\ TagInv'
          /\ srv'.at = "sasl" => srv.at = "sasl" /\ srv.left > 1 /\ srv'.left = srv.left - 1
      <3>1. CASE Silent(Tail(wire))
        <4>1. wire' = Tail(wire) /\ srv' = srv /\ srv.at = "gone"
          BY <3>1 DEF Silent
        <4>2. TagInv'
          BY <1>1, <1>5, <1>6, <2>1, <4>1, ReadTags
        <4> QED BY <1>1, <2>1, <4>1, <4>2 DEF From
      <3>2. CASE ~Silent(Tail(wire))
        <4>1. PICK l : Spoken(Tail(wire), l) /\ ResponseReply(l, srv') /\ TagOf(l, 0)
          BY <1>6, <3>2 DEF ResponseHeard
        <4>2. wire' \in Seq(Lines) /\ srv' \in Servers /\ Len(wire') = Len(wire)
          <5>1. Tail(wire) \in Seq(Lines)
            BY <2>1 DEF From
          <5>2. /\ wire' \in Seq(Lines) /\ srv' \in Servers
                /\ Len(wire') = Len(Tail(wire)) + 1 /\ Len(Tail(wire)) \in Nat
            BY <4>1, <5>1, SpokenFacts
          <5> QED BY <2>1, <5>2
        <4>3. srv'.at = "sasl" => srv.at = "sasl" /\ srv.left > 1 /\ srv'.left = srv.left - 1
          BY <4>1 DEF ResponseReply, Idle
        <4>4. TagInv'
          <5>1. CASE ~Imap  BY <1>5, <5>1, TagFree
          <5>2. CASE Imap
            <6>1. srv'.tag <= tag'
              BY <1>1, <1>6, <4>1, <5>2 DEF ResponseReply, Idle, TagInv
            <6>2. l.kind = "ok" => srv'.at = "authed"
              BY <4>1 DEF ResponseReply
            <6>3. srv.at \in {"authed", "gone"} => srv' = srv
              BY <4>1 DEF ResponseReply
            <6>4. \A n \in 1..Len(Tail(wire)) : \E q \in 1..Len(wire) : Tail(wire)[n] = wire[q]
              BY <2>1 DEF From
            <6>5. Tail(wire) \in Seq(Lines) /\ tag' \in Nat /\ 0 \in Nat /\ 0 <= tag' /\ tag <= tag'
              BY <1>1, <1>6, <2>1 DEF From
            <6> QED BY <1>1, <1>5, <4>1, <5>2, <6>1, <6>2, <6>3, <6>4, <6>5, TagSpoken
          <5> QED BY <5>1, <5>2
        <4> QED BY <2>1, <4>2, <4>3, <4>4
      <3> QED BY <3>1, <3>2
    <2>3. TurnInv'
      BY <1>1, <1>2, <1>3, <1>4, <1>5, <1>6, <2>2 DEF TurnInv, TurnType, AtStart, AtWork, Helper
    <2>4. StepInv'
      <3>1. Len(wire') \in Nat
        BY <2>2
      <3> QED BY <1>1, <1>5, <1>6, <2>1, <2>2, <3>1 DEF StepInv
    <2> QED BY <2>2, <2>3, <2>4 DEF PlaceInv
  <1>7. CASE /\ wire # <<>> /\ StarHeard(Tail(wire), 0) /\ k' = k
             /\ "wait" \in {Steps(m)[k].unfit} \cup Steps(m)[k].fails
             /\ pc' = "cancel" /\ ok' = ok /\ tag' = tag /\ strayed' = strayed
    <2>1. From(Tail(wire)) /\ Len(Tail(wire)) = Len(wire) - 1 /\ Len(wire) \in Nat
      BY <1>1, <1>7, FromTail
    <2>2. /\ wire' \in Seq(Lines) /\ srv' \in Servers /\ srv'.at # "sasl"
          /\ Len(wire') <= Len(Tail(wire)) + 1 /\ TagInv'
      <3>1. 0 \in Nat /\ 0 <= tag'
        BY <1>1, <1>7
      <3> QED BY <1>1, <1>5, <1>7, <2>1, <3>1, StarFacts
    <2>3. m = "GSSAPI"
      BY <1>3, <1>4, <1>7, WaysFacts
    <2>4. TurnInv'
      BY <1>1, <1>2, <1>3, <1>5, <1>7, <2>2, <2>3 DEF TurnInv, TurnType, AtStart, AtWork, Helper
    <2>5. StepInv'
      <3>1. Len(wire') \in Nat
        BY <2>2
      <3> QED BY <1>1, <1>5, <1>7, <2>1, <2>2, <3>1 DEF StepInv
    <2> QED BY <2>2, <2>4, <2>5 DEF PlaceInv
  <1>8. CASE /\ wire # <<>> /\ (NewTag \/ tag' = tag) /\ StarHeard(Tail(wire), tag') /\ k' = k
             /\ GivesUpOn /\ strayed' # {}
    <2>1. From(Tail(wire)) /\ Len(Tail(wire)) = Len(wire) - 1 /\ Len(wire) \in Nat
      BY <1>1, <1>8, FromTail
    <2>2. tag' \in Nat
      BY <1>1, <1>8, TagGrows
    <2>3. wire' \in Seq(Lines) /\ srv' \in Servers /\ TagInv'
      BY <1>1, <1>5, <1>8, <2>1, <2>2, StarFacts
    <2>4. TurnInv'
      BY <1>1, <1>3, <1>5, <1>8, <2>2, <2>3 DEF TurnInv, TurnType, AtStart, AtWork, GivesUpOn
    <2>5. StepInv'
      BY <1>8 DEF StepInv
    <2> QED BY <2>3, <2>4, <2>5 DEF PlaceInv
  <1>9. CASE /\ wire # <<>> /\ wire' = Tail(wire) /\ srv' = srv /\ tag' = tag /\ k' = k
             /\ GivesUpOn /\ strayed' = IF srv.at = "sasl" THEN strayed \cup {"quit"} ELSE strayed
    <2>1. From(Tail(wire)) /\ Len(Tail(wire)) = Len(wire) - 1 /\ Len(wire) \in Nat
      BY <1>1, <1>9, FromTail
    <2>2. TagInv' /\ wire' \in Seq(Lines)
      BY <1>1, <1>5, <1>9, <2>1, ReadTags DEF From
    <2>3. TurnInv'
      BY <1>1, <1>3, <1>5, <1>9, <2>2 DEF TurnInv, TurnType, AtStart, AtWork, GivesUpOn
    <2>4. StepInv'
      <3> SUFFICES ASSUME strayed' = {}, ~tlsdoubt' PROVE wire' = <<>> /\ srv'.at # "sasl"
        BY <1>9 DEF StepInv, GivesUpOn
      <3>1. srv.at # "sasl" /\ strayed = {} /\ ~tlsdoubt
        BY <1>5, <1>9
      <3>2. Len(wire) <= 1
        BY <1>1, <3>1 DEF StepInv
      <3>3. Len(wire') = 0
        BY <1>9, <2>1, <2>2, <3>2
      <3> QED BY <1>9, <2>2, <3>1, <3>3
    <2> QED BY <2>2, <2>3, <2>4 DEF PlaceInv
  <1>10. CASE LostFacts /\ GivesUpOn /\ strayed' = strayed /\ k' = k
    <2>1. TagInv' /\ wire' \in Seq(Lines)
      BY <1>1, <1>5, <1>10, FromWire, ReadTags DEF LostFacts
    <2>2. TurnInv'
      BY <1>1, <1>3, <1>5, <1>10, <2>1 DEF LostFacts, TurnInv, TurnType, AtStart, AtWork, GivesUpOn
    <2>3. StepInv'
      BY <1>10 DEF LostFacts, StepInv, GivesUpOn
    <2> QED BY <2>1, <2>2, <2>3 DEF PlaceInv
  <1> QED BY <1>1, <1>2, <1>6, <1>7, <1>8, <1>9, <1>10, ExchangeCases

LEMMA CancelledPlaces == ASSUME PlaceInv, Cancelled PROVE PlaceInv'
  <1>1. /\ TurnInv /\ TurnType /\ TagInv /\ StepInv /\ pc = "cancel"
        /\ wire \in Seq(Lines) /\ srv \in Servers /\ i \in Nat
        /\ i \in 1..Len(Order) /\ srv.at # "sasl"
        /\ UNCHANGED <<cfg, i, k, tag, tlsdoubt, strayed>>
    BY DEF PlaceInv, TurnInv, TurnType, Cancelled, AtWork, Helper, ctlVars
  <1>2. GivesUpOn /\ srv' = srv /\ From(wire') /\ (wire' = <<>> \/ (wire # <<>> /\ wire' = Tail(wire)))
    <2>1. CASE wire # <<>> /\ wire' = Tail(wire) /\ UNCHANGED srv /\ Failed("GSSAPI", "authfail")
      BY <1>1, <2>1, FailedFacts, FromTail
    <2>2. CASE Lost /\ Failed("GSSAPI", "socket")
      BY <1>1, <2>2, FailedFacts, FromWire DEF Lost
    <2> QED BY <2>1, <2>2 DEF Cancelled
  <1>3. Order' = Order /\ Imap' = Imap
    BY <1>1, SameAccount
  <1>4. TagInv' /\ wire' \in Seq(Lines)
    BY <1>1, <1>2, ReadTags DEF From
  <1>5. TurnInv'
    BY <1>1, <1>2, <1>3, <1>4 DEF TurnInv, TurnType, AtStart, AtWork, GivesUpOn
  <1>6. StepInv'
    <2> SUFFICES ASSUME strayed' = {}, ~tlsdoubt' PROVE wire' = <<>>
      BY <1>1, <1>2 DEF StepInv, GivesUpOn
    <2>1. Len(wire) <= 1
      BY <1>1 DEF StepInv
    <2>2. CASE wire # <<>> /\ wire' = Tail(wire)
      <3>1. Len(wire') = Len(wire) - 1 /\ Len(wire) \in Nat /\ Len(wire') \in Nat
        BY <1>1, <1>4, <2>2, FromTail
      <3>2. Len(wire') = 0
        BY <2>1, <3>1
      <3> QED BY <1>4, <3>2
    <2> QED BY <1>2, <2>2
  <1> QED BY <1>4, <1>5, <1>6 DEF PlaceInv

LEMMA FinalPlaces == ASSUME PlaceInv, Final PROVE PlaceInv'
  <1>1. /\ TurnInv /\ TurnType /\ TagInv /\ StepInv /\ pc = "final" /\ cfg \in Configs
        /\ wire \in Seq(Lines) /\ srv \in Servers /\ i \in Nat /\ k \in Nat /\ tag \in Nat
        /\ i \in 1..Len(Order) /\ srv.at # "sasl"
    BY OrderFacts DEF PlaceInv, TurnInv, TurnType, Final, AtWork, Helper
  <1>2. UNCHANGED <<cfg, auth, i, k, tlsdoubt>> /\ Order' = Order /\ Imap' = Imap
    BY <1>1, FinalCases, SameAccount
  <1>3. ASSUME NEW n, TakenAt(n), wire' = Unread(n), UNCHANGED <<srv, tag, strayed>>,
               pc' = "done" \/ GivesUpOn
        PROVE  PlaceInv'
    <2>1. n \in 1..Len(wire)
      BY <1>3 DEF TakenAt
    <2>2. From(wire') /\ Len(wire') = Len(wire) - n /\ Len(wire) \in Nat
      BY <1>1, <1>3, <2>1, FromUnread
    <2>3. TagInv' /\ wire' \in Seq(Lines)
      BY <1>1, <1>2, <1>3, <2>2, ReadTags DEF From
    <2>4. TurnInv'
      BY <1>1, <1>2, <1>3, <2>3 DEF TurnInv, TurnType, AtStart, AtWork, GivesUpOn
    <2>5. StepInv'
      <3> SUFFICES ASSUME strayed' = {}, ~tlsdoubt' PROVE wire' = <<>>
        BY <1>1, <1>3 DEF StepInv, GivesUpOn
      <3>1. Len(wire) <= 1 /\ Len(wire') \in Nat
        BY <1>1, <1>2, <1>3, <2>3 DEF StepInv
      <3>2. Len(wire') = 0
        BY <2>1, <2>2, <3>1
      <3> QED BY <2>3, <3>2
    <2> QED BY <2>3, <2>4, <2>5 DEF PlaceInv
  <1>4. ASSUME NEW n, TakenAt(n), GivesUpOn, strayed' # {}, NewTag, StarHeard(Unread(n), tag')
        PROVE  PlaceInv'
    <2>1. n \in 1..Len(wire)
      BY <1>4 DEF TakenAt
    <2>2. From(Unread(n)) /\ tag' \in Nat
      BY <1>1, <1>4, <2>1, FromUnread, TagGrows
    <2>3. wire' \in Seq(Lines) /\ srv' \in Servers /\ TagInv'
      BY <1>1, <1>2, <1>4, <2>2, StarFacts
    <2>4. TurnInv'
      BY <1>1, <1>2, <1>4, <2>2, <2>3 DEF TurnInv, TurnType, AtStart, AtWork, GivesUpOn
    <2>5. StepInv'
      BY <1>4 DEF StepInv
    <2> QED BY <2>3, <2>4, <2>5 DEF PlaceInv
  <1>5. CASE LostFacts /\ GivesUpOn /\ strayed' = strayed
    <2>1. TagInv' /\ wire' \in Seq(Lines)
      BY <1>1, <1>2, <1>5, FromWire, ReadTags DEF LostFacts
    <2>2. TurnInv'
      BY <1>1, <1>2, <1>5, <2>1 DEF LostFacts, TurnInv, TurnType, AtStart, AtWork, GivesUpOn
    <2>3. StepInv'
      BY <1>5 DEF LostFacts, StepInv, GivesUpOn
    <2> QED BY <2>1, <2>2, <2>3 DEF PlaceInv
  <1> QED BY <1>1, <1>3, <1>4, <1>5, FinalCases

LEMMA ClearPlaces == ASSUME PlaceInv, Clear PROVE PlaceInv'
  <1>1. /\ TurnInv /\ TurnType /\ TagInv /\ StepInv /\ cfg \in Configs /\ ok # "success"
        /\ wire \in Seq(Lines) /\ srv \in Servers /\ k \in Nat /\ tag \in Nat
        /\ strayed = {} /\ ~tlsdoubt => wire = <<>>
    BY DEF PlaceInv, TurnInv, TurnType, Clear, AtStart, StepInv
  <1>2. /\ i' = Len(Order) + 1 /\ UNCHANGED <<cfg, k, tlsdoubt, strayed>> /\ Order' = Order /\ Imap' = Imap
        /\ i' \in Nat /\ i' >= 1 /\ i' > Len(Order)
    BY <1>1, ClearCases, SameAccount, OrderFacts
  <1>3. CASE pc' = "done" /\ ok' # "success" /\ UNCHANGED <<wire, srv, tag>>
    <2>1. TagInv'
      BY <1>1, <1>2, <1>3, FromWire, ReadTags
    <2> QED BY <1>1, <1>2, <1>3, <2>1, EndPlaces
  <1>4. ASSUME NEW to \in {"cmd", "authed"}, Imap => to = "authed", NewTag, CommandHeard(wire, to),
               pc' = IF to = "cmd" THEN "user" ELSE "final", ok' = ok
        PROVE  PlaceInv'
    <2>1. From(wire) /\ Len(wire) \in Nat
      BY <1>1, FromWire
    <2>2. /\ wire' \in Seq(Lines) /\ srv' \in Servers /\ srv'.at # "sasl"
          /\ Len(wire') <= Len(wire) + 1 /\ TagInv'
      BY <1>1, <1>2, <1>4, <2>1, CommandFacts
    <2>3. tag' \in Nat
      BY <1>1, <1>4, TagGrows
    <2>4. TurnInv'
      BY <1>1, <1>2, <1>4, <2>2, <2>3 DEF TurnInv, TurnType, AtStart, AtWork, Helper
    <2>5. StepInv'
      BY <1>1, <1>2, <1>4, <2>2 DEF StepInv
    <2> QED BY <2>2, <2>4, <2>5 DEF PlaceInv
  <1> QED BY <1>1, <1>3, <1>4, ClearCases

LEMMA PassPlaces == ASSUME PlaceInv, Pass PROVE PlaceInv'
  <1>1. /\ TurnInv /\ TurnType /\ TagInv /\ StepInv /\ cfg \in Configs /\ ok # "success" /\ pc = "user"
        /\ wire \in Seq(Lines) /\ srv \in Servers /\ k \in Nat /\ tag \in Nat /\ i \in Nat
        /\ i > Len(Order)
    BY DEF PlaceInv, TurnInv, TurnType, Pass, AtWork
  <1>2. /\ UNCHANGED <<cfg, i, k, tlsdoubt, strayed, tag>> /\ ~Imap /\ Order' = Order /\ Imap' = Imap
        /\ TagInv'
    BY <1>1, PassCases, SameAccount, TagFree
  <1>3. CASE wire # <<>> /\ pc' = "done" /\ wire' = Tail(wire) /\ srv' = srv
    <2>1. wire' \in Seq(Lines)
      BY <1>1, <1>3, FromTail DEF From
    <2> QED BY <1>1, <1>2, <1>3, <2>1, EndPlaces
  <1>4. CASE wire # <<>> /\ CommandHeard(Tail(wire), "authed") /\ pc' = "final" /\ ok' = ok
    <2>1. From(Tail(wire)) /\ Len(Tail(wire)) = Len(wire) - 1 /\ Len(wire) \in Nat
      BY <1>1, <1>4, FromTail
    <2>2. NewTag
      BY <1>2 DEF NewTag
    <2>3. /\ wire' \in Seq(Lines) /\ srv' \in Servers /\ srv'.at # "sasl"
          /\ Len(wire') <= Len(Tail(wire)) + 1
      BY <1>1, <1>2, <1>4, <2>1, <2>2, CommandFacts
    <2>4. TurnInv'
      BY <1>1, <1>2, <1>4, <2>3, OrderFacts DEF TurnInv, TurnType, AtStart, AtWork, Helper
    <2>5. StepInv'
      <3>1. Len(wire') \in Nat
        BY <2>3
      <3> QED BY <1>1, <1>2, <1>4, <2>1, <2>3, <3>1 DEF StepInv
    <2> QED BY <1>2, <2>4, <2>5 DEF PlaceInv
  <1>5. CASE LostFacts /\ pc' = "done"
    <2>1. wire' \in Seq(Lines)
      BY <1>5 DEF LostFacts
    <2> QED BY <1>1, <1>2, <1>5, <2>1, EndPlaces DEF LostFacts
  <1> QED BY <1>1, <1>3, <1>4, <1>5, PassCases

LEMMA LastAnswerPlaces == ASSUME PlaceInv, LastAnswer PROVE PlaceInv'
  <1>1. /\ TurnType /\ TagInv /\ wire \in Seq(Lines) /\ srv \in Servers /\ tag \in Nat
        /\ k \in Nat /\ i \in Nat
        /\ UNCHANGED <<cfg, i, k, tag, srv>> /\ pc' = "done"
    BY DEF PlaceInv, TurnInv, TurnType, LastAnswer, Return, Lost, ctlVars
  <1>2. From(wire')
    <2>1. CASE Answers # {} /\ wire' = Rest
      <3>1. PICK n \in Answers :
              /\ n \in 1..Len(wire) /\ Answer = wire[n]
              /\ Rest = SubSeq(wire, n + 1, Len(wire))
              /\ Imap => wire[n].tag = tag
              /\ ~Imap => n = 1
        BY <1>1, <2>1, AnswerFacts
      <3> QED BY <1>1, <2>1, <3>1, FromUnread DEF Unread
    <2>2. CASE wire' = <<>>
      BY <1>1, <2>2, FromWire
    <2> QED BY <2>1, <2>2 DEF LastAnswer, Lost
  <1>3. TagInv' /\ wire' \in Seq(Lines)
    BY <1>1, <1>2, ReadTags DEF From
  <1> QED BY <1>1, <1>3, EndPlaces

LEMMA HangUpPlaces == ASSUME PlaceInv, HangUp PROVE PlaceInv'
  <1>1. /\ TurnInv /\ TurnType /\ TagInv /\ StepInv /\ wire \in Seq(Lines) /\ srv \in Servers /\ tag \in Nat
        /\ UNCHANGED <<cfg, pc, ok, i, k, tag, tlsdoubt, strayed>>
        /\ pc \in {"exch", "cancel", "final", "user"}
    BY DEF PlaceInv, TurnInv, TurnType, HangUp, ctlVars
  <1>2. srv' \in Servers /\ srv'.at = "gone" /\ srv'.tag = srv.tag
    BY <1>1 DEF HangUp, Servers
  <1>3. From(wire') /\ wire' \in Seq(Lines) /\ Len(wire') <= Len(wire)
    <2>1. CASE wire' = wire
      BY <1>1, <2>1, FromWire
    <2>2. CASE wire' = <<>>
      BY <1>1, <2>2, FromWire
    <2> QED BY <2>1, <2>2 DEF HangUp
  <1>4. TagInv'
    <2>1. CASE ~Imap  BY <1>1, <2>1, TagFree
    <2>2. CASE Imap
      <3>1. srv'.tag <= tag'
        BY <1>1, <1>2, <2>2 DEF TagInv
      <3> QED BY <1>1, <1>2, <1>3, <2>2, <3>1, TagKept DEF From
    <2> QED BY <2>1, <2>2
  <1>5. Order' = Order /\ Imap' = Imap
    BY <1>1, SameAccount
  <1>6. TurnInv'
    BY <1>1, <1>2, <1>3, <1>5 DEF TurnInv, TurnType, AtStart, AtWork, Helper
  <1>7. StepInv'
    <2>1. Len(wire) \in Nat /\ Len(wire') \in Nat
      BY <1>1, <1>3
    <2> QED BY <1>1, <1>3, <2>1 DEF StepInv
  <1> QED BY <1>4, <1>6, <1>7 DEF PlaceInv

LEMMA EndsPlaces ==
    ASSUME PlaceInv, TimeOut \/ SessionEnds \/ UNCHANGED vars
    PROVE  PlaceInv'
  <1>1. /\ TurnInv /\ TurnType /\ TagInv /\ StepInv /\ wire \in Seq(Lines) /\ srv \in Servers
        /\ tag \in Nat /\ i \in Nat /\ k \in Nat
        /\ UNCHANGED <<cfg, i, k, tag, wire, srv, tlsdoubt, strayed>>
    BY DEF PlaceInv, TurnInv, TurnType, TimeOut, SessionEnds, vars, ctlVars
  <1>2. TagInv' /\ Order' = Order /\ Imap' = Imap
    BY <1>1, SameAccount DEF TagInv
  <1>3. CASE pc' \in {"idle", "closed"}
    BY <1>1, <1>2, <1>3, EndPlaces
  <1>4. CASE UNCHANGED <<pc, ok>>
    <2>1. TurnInv'
      BY <1>1, <1>2, <1>4 DEF TurnInv, TurnType, AtStart, AtWork, Helper
    <2>2. StepInv'
      BY <1>1, <1>4 DEF StepInv
    <2> QED BY <1>2, <2>1, <2>2 DEF PlaceInv
  <1> QED BY <1>3, <1>4 DEF TimeOut, SessionEnds, vars

\* Up to the first mechanism the wire is empty between two steps, but for
\* what a failed handshake leaves.
LEMMA InitPlaces == Init => PlaceInv
  <1> SUFFICES ASSUME Init PROVE PlaceInv
    OBVIOUS
  <1>1. TurnType /\ wire = <<>>
    BY DEF Init, TurnType, Idle, Servers
  <1>2. TagInv
    BY <1>1 DEF Init, TagInv, TagsOk, Idle
  <1> QED BY <1>1, <1>2 DEF Init, PlaceInv, TurnInv, AtStart, AtWork, StepInv

LEMMA ConnectPlaces == ASSUME PlaceInv, Connect PROVE PlaceInv'
  <1>1. /\ cfg' = cfg /\ cfg \in Configs /\ tag' = 0 /\ wire' = <<>> /\ pc' = "start"
        /\ ok' = "authfail" /\ i' = 0 /\ k' = 0 /\ strayed' = {} /\ ~tlsdoubt'
    BY DEF PlaceInv, TurnInv, TurnType, Connect, InitTransact, ctlVars
  <1>2. srv' \in Servers /\ srv'.at # "sasl" /\ srv'.tag = 0
    BY DEF Connect, Idle, Servers
  <1>3. TagInv'
    BY <1>1, <1>2 DEF TagInv, TagsOk
  <1>4. TurnInv'
    BY <1>1, <1>2 DEF TurnInv, TurnType, AtStart, AtWork
  <1>5. StepInv'
    BY <1>1 DEF StepInv
  <1> QED BY <1>3, <1>4, <1>5 DEF PlaceInv

\* A step before the first mechanism that leaves the wire empty.
LEMMA StartStep ==
    ASSUME PlaceInv, UNCHANGED <<cfg, i, k>>, i = 0, wire' = <<>>, srv' \in Servers,
           srv'.at # "sasl", srv'.tag = srv.tag, NewTag \/ tag' = tag,
           pc' \in {"tls", "reprobe", "noop", "clear", "try", "done"},
           pc' # "done" => ok' # "success"
    PROVE  PlaceInv'
  <1>1. tag \in Nat /\ tag' \in Nat /\ tag <= tag' /\ TurnType /\ srv.tag \in Nat
    BY TagGrows DEF PlaceInv, TurnInv, TurnType, Servers
  <1>2. TagInv'
    <2>1. CASE ~Imap  BY <2>1, TagFree
    <2>2. CASE Imap
      <3>1. srv'.tag <= tag'
        BY <1>1, <2>2 DEF PlaceInv, TagInv
      <3> QED BY <3>1 DEF TagInv, TagsOk
    <2> QED BY <2>1, <2>2
  <1>3. TurnInv'
    BY <1>1, OrderFacts, SameAccount DEF PlaceInv, TurnInv, TurnType, AtStart, AtWork
  <1>4. StepInv'
    BY DEF StepInv
  <1> QED BY <1>2, <1>3, <1>4 DEF PlaceInv

LEMMA ImapStartPlaces == ASSUME PlaceInv, ImapStart PROVE PlaceInv'
  <1>1. i = 0 /\ srv \in Servers /\ srv.at # "sasl" /\ wire = <<>> /\ ok # "success"
    BY DEF PlaceInv, TurnInv, TurnType, AtStart, ImapStart
  <1>2. UNCHANGED <<cfg, i, k, wire, srv>> /\ NewTag
    BY DEF ImapStart, ImapCapa, GENSYM, NewTag, ctlVars
  <1>3. pc' \in {"tls", "done"} /\ (pc' # "done" => ok' # "success")
    BY DEF ImapStart, ImapCapa, Return
  <1> QED BY <1>1, <1>2, <1>3, StartStep

LEMMA ReprobePlaces == ASSUME PlaceInv, Reprobe PROVE PlaceInv'
  <1>1. i = 0 /\ srv \in Servers /\ srv.at # "sasl" /\ wire = <<>> /\ ok # "success"
    BY DEF PlaceInv, TurnInv, TurnType, AtStart, Reprobe
  <1>2. UNCHANGED <<cfg, i, k, wire, srv>> /\ (NewTag \/ tag' = tag)
    BY DEF Reprobe, ImapCapa, GENSYM, NoTag, NewTag, ctlVars
  <1>3. pc' \in {"try", "done"} /\ (pc' # "done" => ok' # "success")
    BY <1>1 DEF Reprobe, ImapCapa, Return
  <1> QED BY <1>1, <1>2, <1>3, StartStep

LEMMA NoopPlaces == ASSUME PlaceInv, Noop PROVE PlaceInv'
  <1>1. i = 0 /\ srv \in Servers /\ srv.at # "sasl" /\ ok # "success"
    BY DEF PlaceInv, TurnInv, TurnType, AtStart, Noop
  <1>2. UNCHANGED <<cfg, i, k, srv>> /\ NewTag /\ wire' = <<>>
    BY DEF Noop, GENSYM, NewTag
  <1>3. pc' \in {"try", "done"} /\ (pc' # "done" => ok' # "success")
    BY <1>1 DEF Noop, Return
  <1> QED BY <1>1, <1>2, <1>3, StartStep

LEMMA Pop3StartPlaces == ASSUME PlaceInv, Pop3Start PROVE PlaceInv'
  <1>1. i = 0 /\ srv \in Servers /\ srv.at # "sasl" /\ wire = <<>> /\ ok # "success"
    BY DEF PlaceInv, TurnInv, TurnType, AtStart, Pop3Start
  <1>2. UNCHANGED <<cfg, i, k, wire, tag>>
    BY DEF Pop3Start, Pop3Capa, NoTag, ctlVars
  <1>3. srv' = srv \/ srv' = [srv EXCEPT !.at = "gone"]
    BY DEF Pop3Start, Pop3Capa
  <1>4. srv' \in Servers /\ srv'.at # "sasl" /\ srv'.tag = srv.tag
    BY <1>1, <1>3 DEF Servers
  <1>5. pc' \in {"tls", "clear", "try", "done"} /\ (pc' # "done" => ok' # "success")
    BY <1>1 DEF Pop3Start, Pop3Capa, Weaken, Return
  <1> QED BY <1>1, <1>2, <1>4, <1>5, StartStep

LEMMA StartTlsPlaces == ASSUME PlaceInv, StartTls PROVE PlaceInv'
  <1>1. /\ i = 0 /\ srv \in Servers /\ srv.at # "sasl" /\ wire = <<>> /\ ok # "success"
        /\ tag \in Nat /\ TurnType /\ TagInv /\ srv.tag \in Nat
    BY DEF PlaceInv, TurnInv, TurnType, AtStart, StartTls, Servers
  <1>2. UNCHANGED <<cfg, i, k, strayed>> /\ (NewTag \/ tag' = tag)
    BY DEF StartTls, GENSYM, NoTag, NewTag, ctlVars
  <1>3. srv' = srv \/ srv' = [srv EXCEPT !.at = "gone"]
    BY DEF StartTls, Upgrade
  <1>4. srv' \in Servers /\ srv'.at # "sasl" /\ srv'.tag = srv.tag
    BY <1>1, <1>3 DEF Servers
  <1>5. pc' \in {"reprobe", "noop", "try", "done"} /\ (pc' # "done" => ok' # "success")
    BY <1>1 DEF StartTls, Upgrade, Return
  <1>6. CASE wire' = <<>>
    BY <1>1, <1>2, <1>4, <1>5, <1>6, StartStep
  <1>7. CASE wire' # <<>>
    <2>1. wire' = <<Line(0, "junk")>> /\ pc' # "reprobe" /\ (pc' = "try" => tlsdoubt')
      BY <1>1, <1>7 DEF StartTls, Upgrade, Return
    <2>2. /\ Line(0, "junk") \in Lines /\ Line(0, "junk").kind = "junk" /\ Line(0, "junk").tag = 0
      BY LineTyped DEF Kinds
    <2>3. /\ wire' \in Seq(Lines) /\ tag' \in Nat /\ tag <= tag'
          /\ \A n \in 1..Len(wire') : wire'[n] = Line(0, "junk")
      BY <1>1, <1>2, <2>1, <2>2, TagGrows
    <2>4. TagInv'
      <3>1. CASE ~Imap  BY <1>2, <3>1, TagFree
      <3>2. CASE Imap
        <4>1. srv'.tag <= tag'
          BY <1>1, <1>4, <2>3, <3>2 DEF TagInv
        <4>2. TagsOk(wire', tag', srv'.at)
          BY <2>2, <2>3 DEF TagsOk
        <4> QED BY <4>1, <4>2 DEF TagInv
      <3> QED BY <3>1, <3>2
    <2>5. TurnInv'
      BY <1>1, <1>2, <1>4, <1>5, <2>1, <2>3, OrderFacts, SameAccount
         DEF TurnInv, TurnType, AtStart, AtWork
    <2>6. StepInv'
      BY <1>5, <2>1 DEF StepInv
    <2> QED BY <2>4, <2>5, <2>6 DEF PlaceInv
  <1> QED BY <1>6, <1>7

LEMMA PlacesKept == ASSUME PlaceInv, [Next]_vars PROVE PlaceInv'
  BY ConnectPlaces, ImapStartPlaces, Pop3StartPlaces, StartTlsPlaces, ReprobePlaces,
     NoopPlaces, TryPlaces, ExchangePlaces, CancelledPlaces, FinalPlaces, ClearPlaces,
     PassPlaces, LastAnswerPlaces, HangUpPlaces, EndsPlaces DEF Next, Client

-----------------------------------------------------------------------------
(* Without tags.  A POP3 client that gave up an exchange in the middle, or   *)
(* began with octets of a failed handshake before it, reads answers to       *)
(* earlier lines.  What keeps it from taking one of them for the outcome is  *)
(* that no OK is among them: the server can say OK only to the last response *)
(* of an exchange, and a client that is behind does not get to send it.      *)

\* Nothing on the wire is an OK.
NoOk(w) == \A n \in 1..Len(w) : w[n].kind # "ok"

OkInv ==
    ~Imap =>
       /\ pc \in {"try", "exch", "cancel"} => NoOk(wire)
       /\ pc = "user" => \A n \in 1..Len(wire) : wire[n].kind = "ok" => n = Len(wire)
       /\ pc = "final" => NoOk(wire) \/ (srv.at \in {"authed", "gone"} /\ (Helper => Len(wire) = 1))

\* How far a client may be behind, and with which lines, when the server is
\* at a: between the mechanisms, at step q of the exchange of mechanism j,
\* after a "*", and before the outcome.
Quiet(a) == a \in {"cmd", "authed"}
TryLag(w, j, a) ==
    /\ j < 5 => Len(w) <= 1
    /\ j = 5 => Len(w) <= 2 /\ (Len(w) = 2 => w[2].kind # "chal")
    /\ j < 6 /\ Quiet(a) /\ w # <<>> => w[1].kind # "chal" /\ (j < 3 => w[1].kind # "blank")
ExchLag(w, j, q, a) ==
    /\ j < 6 =>
          /\ Len(w) <= 2
          /\ Len(w) = 2 /\ Quiet(a) => w[2].kind # "chal" /\ (j < 3 => w[2].kind # "blank")
          /\ Len(w) = 2 /\ a = "sasl" =>
                /\ q <= 2 /\ w[1].kind # "chal" /\ (q = 2 => j # 2)
                /\ q = 1 => /\ w[2].kind \in {IF j = 1 THEN "chal" ELSE "blank", "junk"}
                            /\ j < 3 => w[1].kind # "blank"
    /\ j = 6 /\ Len(w) >= 2 /\ a = "sasl" => w[1].kind # "chal"
GapLag(w, a) == Len(w) <= 2 /\ (Len(w) = 2 /\ Quiet(a) => w[2].kind \notin {"chal", "blank"})

LagInv ==
    ~Imap /\ ~cfg.rpa =>
       /\ pc = "try" => TryLag(wire, i, srv.at)
       /\ pc = "exch" => ExchLag(wire, i, k, srv.at)
       /\ pc = "cancel" => GapLag(wire, srv.at)
       /\ pc = "final" /\ i < 6 => GapLag(wire, srv.at)

\* RPA is the only mechanism of its users, tried with nothing before it.
RpaInv ==
    ~Imap /\ cfg.rpa =>
       /\ pc # "tls"
       /\ pc \in {"try", "exch", "cancel"} \/ (pc = "final" /\ Helper) => Len(wire) <= 1
       /\ pc = "try" /\ i = 0 => wire = <<>>
       /\ pc = "final" /\ Helper =>
             \A n \in 1..Len(wire) : wire[n].kind \notin {"chal", "junk", "blank"}

BehindInv == OkInv /\ LagInv /\ RpaInv

\* A line more at the end of the wire.
LEMMA Push ==
    ASSUME wire \in Seq(Lines), NEW l, Spoken(wire, l)
    PROVE  /\ Len(wire) \in Nat /\ Len(wire') = Len(wire) + 1 /\ wire' # <<>>
           /\ Len(wire) = 0 => wire'[1] = l
           /\ Len(wire) > 0 => wire'[1] = wire[1] /\ wire # <<>>
           /\ Len(wire) = 1 => wire'[2] = l
           /\ NoOk(wire) /\ l.kind # "ok" => NoOk(wire')
  <1>1. /\ wire' \in Seq(Lines) /\ Len(wire) \in Nat /\ Len(wire') = Len(wire) + 1
        /\ \A n \in 1..Len(wire) : wire'[n] = wire[n]
        /\ wire'[Len(wire) + 1] = l
    BY SpokenFacts
  <1>2. NoOk(wire) /\ l.kind # "ok" => NoOk(wire')
    <2>1. \A n \in 1..Len(wire') : n \in 1..Len(wire) \/ n = Len(wire) + 1
      BY <1>1
    <2> QED BY <1>1, <2>1 DEF NoOk
  <1> QED BY <1>1, <1>2

\* A line less.
LEMMA Pop ==
    ASSUME wire \in Seq(Lines), wire # <<>>, wire' = Tail(wire)
    PROVE  /\ Len(wire) \in Nat /\ Len(wire') = Len(wire) - 1 /\ Len(wire') \in Nat
           /\ wire' # <<>> => Len(wire) >= 2
           /\ Len(wire) >= 2 => wire'[1] = wire[2]
           /\ NoOk(wire) => NoOk(wire')
  <1>1. /\ Tail(wire) \in Seq(Lines) /\ Len(Tail(wire)) = Len(wire) - 1
        /\ \A n \in 1..(Len(wire) - 1) : Tail(wire)[n] = wire[n + 1]
        /\ Len(wire) \in Nat \ {0}
    BY Shortened
  <1>2. NoOk(wire) => NoOk(wire')
    <2>1. \A n \in 1..Len(wire') : n \in 1..(Len(wire) - 1) /\ n + 1 \in 1..Len(wire)
      BY <1>1
    <2> QED BY <1>1, <2>1 DEF NoOk
  <1>3. Len(wire) >= 2 => wire'[1] = wire[2]
    <2>1. Len(wire) >= 2 => 1 \in 1..(Len(wire) - 1) /\ 1 + 1 = 2
      BY <1>1
    <2> QED BY <1>1, <2>1
  <1>4. wire' # <<>> => Len(wire) >= 2
    <2>1. wire' # <<>> => Len(wire') # 0
      BY <1>1
    <2> QED BY <1>1, <2>1
  <1> QED BY <1>1, <1>2, <1>3, <1>4

\* One line read and one more at the end.
LEMMA PopPush ==
    ASSUME wire \in Seq(Lines), wire # <<>>, NEW l, Spoken(Tail(wire), l)
    PROVE  /\ Len(wire) \in Nat \ {0} /\ Len(wire') = Len(wire) /\ Head(wire) = wire[1]
           /\ Len(wire) = 1 => wire'[1] = l
           /\ Len(wire) = 2 => wire'[1] = wire[2] /\ wire'[2] = l
           /\ NoOk(wire) /\ l.kind # "ok" => NoOk(wire')
  <1>1. /\ Tail(wire) \in Seq(Lines) /\ Len(Tail(wire)) = Len(wire) - 1
        /\ \A n \in 1..(Len(wire) - 1) : Tail(wire)[n] = wire[n + 1]
        /\ Len(wire) \in Nat \ {0} /\ Head(wire) = wire[1]
    BY Shortened
  <1>2. /\ wire' \in Seq(Lines) /\ Len(wire') = Len(Tail(wire)) + 1
        /\ \A n \in 1..Len(Tail(wire)) : wire'[n] = Tail(wire)[n]
        /\ wire'[Len(Tail(wire)) + 1] = l
    BY <1>1, SpokenFacts
  <1>3. /\ Len(wire') = Len(wire) /\ wire'[Len(wire)] = l
        /\ \A n \in 1..(Len(wire) - 1) : wire'[n] = wire[n + 1]
    BY <1>1, <1>2
  <1>4. NoOk(wire) /\ l.kind # "ok" => NoOk(wire')
    <2>1. \A n \in 1..Len(wire') :
             n = Len(wire) \/ (n \in 1..(Len(wire) - 1) /\ n + 1 \in 1..Len(wire))
      <3>1. Len(wire') = Len(wire) /\ Len(wire) \in Nat
        BY <1>1, <1>3
      <3> QED BY <3>1
    <2> QED BY <1>3, <2>1 DEF NoOk
  <1>5. Len(wire) = 2 => wire'[1] = wire[2]
    <2>1. Len(wire) = 2 => 1 \in 1..(Len(wire) - 1) /\ 1 + 1 = 2
      OBVIOUS
    <2> QED BY <1>3, <2>1
  <1> QED BY <1>1, <1>3, <1>4, <1>5

\* The helpers of pop3_getauth, by their place in its order.
LEMMA Pop3Table ==
    ASSUME ~Imap, ~cfg.rpa, i \in 1..Len(Order), NEW q \in 1..Len(Steps(Order[i]))
    PROVE  /\ i \in 1..6 /\ Order[i] # "EXTERNAL"
           /\ FirstChallenge(Order[i]) = IF i \in {1, 6} THEN "chal" ELSE "blank"
           /\ i = 6 => Len(Steps(Order[i])) = 1
           /\ i = 2 => Len(Steps(Order[i])) = 3
           /\ i \in {1, 3, 4, 5} => Len(Steps(Order[i])) = 2
           /\ q = 1 /\ i \in {1, 6} => Steps(Order[i])[q].takes = "chal"
           /\ q = 1 /\ i = 2 => Steps(Order[i])[q].takes = "blank"
           /\ q = 2 /\ i # 2 => Steps(Order[i])[q].takes = "chal"
           /\ i = 4 <=> Order[i] = "MSN"
           /\ i = 5 <=> Order[i] = "NTLM"
           /\ i = 2 <=> Order[i] = "GSSAPI"
  <1>1. Len(Order) = 6
    BY Entries, Zenon
  <1>2. i \in 1..6
    BY <1>1
  <1>3. /\ Order[i] \in Mechs /\ Len(Steps(Order[i])) = Rounds(Order[i])
    BY OrderMechs, StepsMatch
  <1>4. PICK m : m = Order[i]
    OBVIOUS
  <1>5. /\ i = 1 => m = "KERBEROS_V4"
        /\ i = 2 => m = "GSSAPI"
        /\ i = 3 => m = "X-OTP"
        /\ i = 4 => m = "MSN"
        /\ i = 5 => m = "NTLM"
        /\ i = 6 => m = "CRAM-MD5"
    BY <1>4, Entries, Zenon
  <1>6. i = 1 \/ i = 2 \/ i = 3 \/ i = 4 \/ i = 5 \/ i = 6
    BY <1>2
  <1>7. FirstChallenge(m) = IF i \in {1, 6} THEN "chal" ELSE "blank"
    BY <1>5, <1>6 DEF FirstChallenge
  <1>8. /\ i = 6 => Rounds(m) = 1
        /\ i = 2 => Rounds(m) = 3
        /\ i \in {1, 3, 4, 5} => Rounds(m) = 2
    BY <1>5, <1>6, Table
  <1>9. /\ q = 1 /\ i \in {1, 6} => Steps(m)[q].takes = "chal"
        /\ q = 1 /\ i = 2 => Steps(m)[q].takes = "blank"
    BY <1>5, Table, StepFields
  <1>10. q = 2 /\ i # 2 => Steps(m)[q].takes = "chal"
    <2>1. q = 2 /\ i # 2 => i = 1 \/ i = 3 \/ i = 4 \/ i = 5
      BY <1>3, <1>4, <1>6, <1>8
    <2> QED BY <2>1, <1>5, Table, StepFields
  <1>11. i = 4 <=> m = "MSN"
    BY <1>5, <1>6
  <1>12. (i = 5 <=> m = "NTLM") /\ (i = 2 <=> m = "GSSAPI") /\ m # "EXTERNAL"
    BY <1>5, <1>6
  <1> QED BY <1>2, <1>3, <1>4, <1>7, <1>8, <1>9, <1>10, <1>11, <1>12

\* A helper that sends a "*" it does not wait for is ntlm_helper, at the first
\* line or after a challenge.
LEMMA StarWay ==
    ASSUME ~Imap, ~cfg.rpa, i \in 1..Len(Order), k \in 1..Len(Steps(Order[i])), "star" \in Ways
    PROVE  i \in {4, 5} /\ (k = 1 \/ Head(wire).kind = "chal")
  <1>1. PICK m : m = Order[i]
    OBVIOUS
  <1>2. m \in Mechs
    BY <1>1, OrderMechs
  <1>3. "star" \in {Steps(m)[k].unfit} \cup Steps(m)[k].fails
    BY <1>1 DEF Ways
  <1>4. m \in {"NTLM", "MSN"}
    BY <1>1, <1>2, <1>3, WaysFacts
  <1>5. i \in {4, 5} /\ Len(Steps(m)) = 2 /\ (k = 2 => Steps(m)[k].takes = "chal")
    BY <1>1, <1>4, Pop3Table
  <1>6. k = 1 \/ k = 2
    BY <1>1, <1>5
  <1>7. CASE k = 2
    <2>1. Steps(m)[2] = Step("chal", "quit", {"star"})
      BY <1>4, Table
    <2>2. Steps(m)[k].unfit = "quit" /\ Steps(m)[k].takes = "chal"
      BY <1>7, <2>1, StepFields
    <2>3. Accepts(Steps(m)[k].takes, Head(wire))
      BY <1>1, <2>2 DEF Ways
    <2>4. Accepts("chal", Head(wire))
      BY <2>2, <2>3, Zenon
    <2> QED BY <1>5, <2>4 DEF Accepts
  <1> QED BY <1>5, <1>6, <1>7

\* What is to show at each place.
LEMMA BehindElse ==
    ASSUME cfg' = cfg,
           Imap \/ pc' \notin {"try", "exch", "cancel", "final", "user", "tls"} \/ (pc' = "tls" /\ ~cfg.rpa)
    PROVE  BehindInv'
  BY SameAccount DEF BehindInv, OkInv, LagInv, RpaInv

LEMMA BehindTry ==
    ASSUME cfg' = cfg, pc' = "try", ~Imap => NoOk(wire'),
           ~Imap /\ ~cfg.rpa => TryLag(wire', i', srv'.at),
           ~Imap /\ cfg.rpa => Len(wire') <= 1 /\ (i' = 0 => wire' = <<>>)
    PROVE  BehindInv'
  BY SameAccount DEF BehindInv, OkInv, LagInv, RpaInv

LEMMA BehindExch ==
    ASSUME cfg' = cfg, pc' = "exch", ~Imap => NoOk(wire'),
           ~Imap /\ ~cfg.rpa => ExchLag(wire', i', k', srv'.at),
           ~Imap /\ cfg.rpa => Len(wire') <= 1
    PROVE  BehindInv'
  BY SameAccount DEF BehindInv, OkInv, LagInv, RpaInv

LEMMA BehindCancel ==
    ASSUME cfg' = cfg, pc' = "cancel", ~Imap => NoOk(wire'),
           ~Imap /\ ~cfg.rpa => GapLag(wire', srv'.at),
           ~Imap /\ cfg.rpa => Len(wire') <= 1
    PROVE  BehindInv'
  BY SameAccount DEF BehindInv, OkInv, LagInv, RpaInv

LEMMA BehindFinal ==
    ASSUME cfg' = cfg, pc' = "final",
           ~Imap => \/ NoOk(wire')
                    \/ srv'.at \in {"authed", "gone"} /\ (i' \in 1..Len(Order) => Len(wire') = 1),
           ~Imap /\ ~cfg.rpa /\ i' < 6 => GapLag(wire', srv'.at),
           ~Imap /\ cfg.rpa /\ i' \in 1..Len(Order) =>
              Len(wire') <= 1 /\ \A n \in 1..Len(wire') : wire'[n].kind \notin {"chal", "junk", "blank"}
    PROVE  BehindInv'
  BY SameAccount DEF BehindInv, OkInv, LagInv, RpaInv, Helper

LEMMA TryBehind == ASSUME PlaceInv, BehindInv, TryMechanism PROVE BehindInv'
  <1>1. /\ TurnInv /\ pc = "try" /\ wire \in Seq(Lines) /\ srv \in Servers /\ i \in Nat
    BY DEF PlaceInv, TurnInv, TurnType, TryMechanism
  <1>2. /\ i' \in 1..Len(Order) /\ i' > i /\ cfg' = cfg
        /\ \/ /\ NewTag /\ AuthHeard(Order[i']) /\ k' = 1 /\ ok' = ok
              /\ pc' = IF Order[i'] = "EXTERNAL" THEN "final" ELSE "exch"
           \/ UNCHANGED <<k, tag, wire, srv>> /\ GivesUpOn
    BY <1>1, TryCases
  <1>3. CASE Imap \/ pc' = "done"
    BY <1>2, <1>3, BehindElse
  <1>4. CASE ~Imap /\ pc' # "done"
    <2>1. NoOk(wire)
      BY <1>1, <1>4 DEF BehindInv, OkInv
    <2>2. Len(wire) \in Nat
      BY <1>1
    <2>3. ~cfg.rpa => TryLag(wire, i, srv.at) /\ i' \in 1..6
      <3>1. ~cfg.rpa => Len(Order) = 6
        BY <1>4, Entries, Zenon
      <3> QED BY <1>1, <1>2, <1>4, <3>1 DEF BehindInv, LagInv
    <2>4. cfg.rpa => wire = <<>> /\ i' = 1
      <3>1. cfg.rpa => Len(Order) = 1
        BY <1>4, Entries, Zenon
      <3>2. cfg.rpa => i' = 1 /\ i = 0
        <4> SUFFICES ASSUME cfg.rpa PROVE i' = 1 /\ i = 0
          OBVIOUS
        <4>1. i' \in 1..1
          BY <1>2, <3>1
        <4> QED BY <1>1, <1>2, <4>1
      <3> QED BY <1>1, <1>4, <3>2 DEF BehindInv, RpaInv
    <2>5. CASE UNCHANGED <<k, tag, wire, srv>> /\ GivesUpOn
      <3>1. pc' = "try" /\ NoOk(wire')
        BY <1>4, <2>1, <2>5 DEF GivesUpOn
      <3>2. ~cfg.rpa => TryLag(wire', i', srv'.at)
        BY <1>1, <1>2, <2>2, <2>3, <2>5 DEF TryLag
      <3>3. cfg.rpa => Len(wire') <= 1 /\ i' # 0
        BY <2>4, <2>5
      <3> QED BY <1>2, <1>4, <3>1, <3>2, <3>3, BehindTry
    <2>6. CASE AuthHeard(Order[i']) /\ k' = 1 /\ pc' = IF Order[i'] = "EXTERNAL" THEN "final" ELSE "exch"
      <3>1. PICK m : m = Order[i']
        OBVIOUS
      <3>2. m # "EXTERNAL" /\ (~cfg.rpa => FirstChallenge(m) = IF i' \in {1, 6} THEN "chal" ELSE "blank")
        <4>1. CASE cfg.rpa
          BY <1>4, <2>4, <3>1, <4>1, Entries
        <4>2. CASE ~cfg.rpa
          <5>1. i' = 1 \/ i' = 2 \/ i' = 3 \/ i' = 4 \/ i' = 5 \/ i' = 6
            BY <2>3, <4>2
          <5>2. /\ i' = 1 => m = "KERBEROS_V4"
                /\ i' = 2 => m = "GSSAPI"
                /\ i' = 3 => m = "X-OTP"
                /\ i' = 4 => m = "MSN"
                /\ i' = 5 => m = "NTLM"
                /\ i' = 6 => m = "CRAM-MD5"
            BY <1>4, <3>1, <4>2, Entries, Zenon
          <5> QED BY <5>1, <5>2 DEF FirstChallenge
        <4> QED BY <4>1, <4>2
      <3>3. pc' = "exch"
        BY <2>6, <3>1, <3>2
      <3>4. CASE Silent(wire)
        <4>1. wire' = wire /\ srv'.at = "gone"
          BY <3>4 DEF Silent
        <4>2. ~cfg.rpa => ExchLag(wire', i', k', srv'.at)
          BY <1>1, <1>2, <2>2, <2>3, <4>1 DEF TryLag, ExchLag, Quiet
        <4>3. cfg.rpa => Len(wire') <= 1
          BY <2>4, <4>1
        <4> QED BY <1>2, <1>4, <2>1, <3>3, <4>1, <4>2, <4>3, BehindExch
      <3>5. CASE ~Silent(wire)
        <4>1. PICK l : Spoken(wire, l) /\ AuthReply(m, l, srv')
          BY <2>6, <3>1, <3>5 DEF AuthHeard
        <4>2. /\ Len(wire') = Len(wire) + 1
              /\ Len(wire) = 0 => wire'[1] = l
              /\ Len(wire) > 0 => wire'[1] = wire[1] /\ wire # <<>>
              /\ Len(wire) = 1 => wire'[2] = l
              /\ NoOk(wire) /\ l.kind # "ok" => NoOk(wire')
          BY <1>1, <4>1, Push
        <4>3. l.kind # "ok" /\ srv.at # "gone"
          BY <3>2, <4>1, FirstChallengeKind DEF AuthReply, Spoken
        <4>4. ~cfg.rpa => ExchLag(wire', i', 1, srv'.at)
          <5> SUFFICES ASSUME ~cfg.rpa PROVE ExchLag(wire', i', 1, srv'.at)
            OBVIOUS
          <5>1. i' \in 1..6 /\ (i' < 6 => Len(wire) <= 1)
            BY <1>1, <1>2, <2>3 DEF TryLag
          <5>2. /\ Len(wire') \in Nat /\ (i' < 6 => Len(wire') <= 2)
                /\ Len(wire') >= 2 => wire'[1] = wire[1] /\ wire # <<>>
                /\ Len(wire') = 2 => wire'[2] = l
            BY <2>2, <4>2, <5>1
          <5>3. CASE srv'.at # "sasl" /\ l.kind \notin {"chal", "blank"}
            BY <5>1, <5>2, <5>3 DEF ExchLag
          <5>4. CASE srv'.at = "sasl" /\ srv.at # "sasl" /\ l.kind \in {FirstChallenge(m), "junk"}
            <6>1. Quiet(srv.at)
              BY <1>1, <4>3, <5>4 DEF Servers, Quiet
            <6>2. wire # <<>> => wire[1].kind # "chal" /\ (i' < 3 => wire[1].kind # "blank")
              BY <1>1, <1>2, <2>3, <5>1, <6>1 DEF TryLag
            <6>3. i' < 6 => l.kind \in {IF i' = 1 THEN "chal" ELSE "blank", "junk"}
              BY <3>2, <5>1, <5>4
            <6> QED BY <5>1, <5>2, <5>4, <6>2, <6>3 DEF ExchLag, Quiet
          <5> QED BY <3>2, <4>1, <5>3, <5>4 DEF AuthReply, Idle
        <4>5. cfg.rpa => Len(wire') <= 1
          BY <2>4, <4>2
        <4> QED BY <1>2, <1>4, <2>1, <2>6, <3>3, <4>2, <4>3, <4>4, <4>5, BehindExch
      <3> QED BY <3>4, <3>5
    <2> QED BY <1>2, <2>5, <2>6
  <1> QED BY <1>3, <1>4

\* A client that is behind does not accept the line it reads, but at the first
\* step of a helper that takes anything with a "+" there.
LEMMA TooLate ==
    ASSUME ~Imap, ~cfg.rpa, wire \in Seq(Lines), wire # <<>>, i \in 1..Len(Order),
           k \in 1..Len(Steps(Order[i])), Accepts(Steps(Order[i])[k].takes, Head(wire)),
           ExchLag(wire, i, k, srv.at), srv.at = "sasl", Len(wire) >= 2
    PROVE  i \in {3, 4, 5} /\ k = 1 /\ Len(wire) = 2
  <1>1. Len(wire) \in Nat /\ Head(wire) = wire[1]
    BY Shortened
  <1>2. /\ i \in 1..6
        /\ i = 6 => Len(Steps(Order[i])) = 1
        /\ k = 1 /\ i \in {1, 6} => Steps(Order[i])[k].takes = "chal"
        /\ k = 1 /\ i = 2 => Steps(Order[i])[k].takes = "blank"
        /\ k = 2 /\ i # 2 => Steps(Order[i])[k].takes = "chal"
    BY Pop3Table
  <1>3. /\ Steps(Order[i])[k].takes = "chal" => wire[1].kind = "chal"
        /\ Steps(Order[i])[k].takes = "blank" => wire[1].kind = "blank"
    BY <1>1 DEF Accepts
  <1>4. CASE i = 6
    <2>1. k = 1
      BY <1>2, <1>4
    <2>2. wire[1].kind # "chal"
      BY <1>4 DEF ExchLag
    <2> QED BY <1>2, <1>3, <1>4, <2>1, <2>2
  <1>5. CASE i < 6
    <2>1. /\ Len(wire) = 2 /\ k <= 2 /\ wire[1].kind # "chal" /\ (k = 2 => i # 2)
          /\ k = 1 /\ i < 3 => wire[1].kind # "blank"
      <3>1. Len(wire) = 2
        <4>1. Len(wire) <= 2
          BY <1>5, Zenon DEF ExchLag
        <4>2. \A n \in Nat : n >= 2 /\ n <= 2 => n = 2
          OBVIOUS
        <4> QED BY <1>1, <4>1, <4>2, Zenon
      <3> QED BY <1>5, <3>1 DEF ExchLag
    <2>2. k = 1
      BY <1>2, <1>3, <2>1
    <2>3. i = 1 \/ i = 2 \/ i \in {3, 4, 5}
      BY <1>2, <1>5
    <2> QED BY <1>2, <1>3, <2>1, <2>2, <2>3
  <1> QED BY <1>2, <1>4, <1>5

\* Lines read, with nothing new: between mechanisms.
LEMMA ReadBehind ==
    ASSUME PlaceInv, BehindInv, cfg' = cfg, i' = i, i \in 1..Len(Order), pc' = "try",
           wire # <<>>, wire' = Tail(wire), srv' = srv, ~Imap,
           pc = "exch" \/ pc = "cancel" \/ (pc = "final" /\ (NoOk(wire) \/ Len(wire) = 1))
    PROVE  BehindInv'
  <1>1. wire \in Seq(Lines) /\ srv \in Servers /\ i \in Nat
    BY DEF PlaceInv, TurnInv, TurnType
  <1>2. /\ Len(wire) \in Nat /\ Len(wire') = Len(wire) - 1 /\ Len(wire') \in Nat
        /\ wire' # <<>> => Len(wire) >= 2
        /\ Len(wire) >= 2 => wire'[1] = wire[2]
        /\ NoOk(wire) => NoOk(wire')
    BY <1>1, Pop
  <1>3. NoOk(wire')
    <2>1. CASE NoOk(wire)
      BY <1>2, <2>1
    <2>2. CASE Len(wire) = 1
      <3>1. 1..Len(wire') = {}
        BY <1>2, <2>2
      <3> QED BY <3>1 DEF NoOk
    <2> QED BY <2>1, <2>2 DEF BehindInv, OkInv
  <1>4. ~cfg.rpa => TryLag(wire', i, srv.at)
    <2> SUFFICES ASSUME ~cfg.rpa PROVE TryLag(wire', i, srv.at)
      OBVIOUS
    <2>1. i < 6 => Len(wire) <= 2 /\ (Len(wire) = 2 /\ Quiet(srv.at) => wire[2].kind # "chal" /\ (i < 3 => wire[2].kind # "blank"))
      <3>1. pc = "exch" => ExchLag(wire, i, k, srv.at)
        BY DEF BehindInv, LagInv
      <3>2. pc \in {"cancel", "final"} /\ i < 6 => GapLag(wire, srv.at)
        BY DEF BehindInv, LagInv
      <3> QED BY <3>1, <3>2 DEF ExchLag, GapLag
    <2>2. i < 6 => Len(wire') <= 1
      BY <1>2, <2>1
    <2>3. i < 6 /\ wire' # <<>> => Len(wire) = 2
      BY <1>2, <2>1
    <2> QED BY <1>1, <1>2, <2>1, <2>2, <2>3 DEF TryLag
  <1>5. cfg.rpa => Len(wire') <= 1 /\ i # 0
    <2>1. i # 0
      BY OrderFacts
    <2>2. cfg.rpa => Len(wire) <= 1
      BY DEF BehindInv, RpaInv, Helper
    <2> QED BY <1>2, <2>1, <2>2
  <1> QED BY <1>3, <1>4, <1>5, BehindTry

LEMMA EmptyBehind ==
    ASSUME cfg' = cfg, i' = i, i \in 1..Len(Order), pc' = "try", wire' = <<>>, srv'.at = "gone"
    PROVE  BehindInv'
  <1>1. NoOk(wire') /\ i # 0
    BY OrderFacts DEF NoOk
  <1>2. TryLag(wire', i', srv'.at)
    BY DEF TryLag, Quiet
  <1> QED BY <1>1, <1>2, BehindTry

LEMMA ResponseBehind ==
    ASSUME PlaceInv, BehindInv, pc = "exch", ~Imap, wire # <<>>,
           Accepts(Steps(Order[i])[k].takes, Head(wire)), ResponseHeard,
           cfg' = cfg, i' = i, k' = k + 1,
           pc' = IF k = Len(Steps(Order[i])) THEN "final" ELSE "exch"
    PROVE  BehindInv'
  <1>1. /\ wire \in Seq(Lines) /\ srv \in Servers /\ i \in Nat /\ k \in Nat /\ srv.left \in Nat
        /\ i \in 1..Len(Order) /\ k \in 1..Len(Steps(Order[i]))
        /\ srv.at = "sasl" => srv.left = Len(Steps(Order[i])) - k + 1
    BY DEF PlaceInv, TurnInv, TurnType, AtWork, Helper, Servers
  <1>2. PICK z : z = Len(Steps(Order[i]))
    OBVIOUS
  <1>3. z \in 0..3 /\ k \in 1..z
    BY <1>1, <1>2, OrderMechs, StepsMatch
  <1>4. NoOk(wire)
    BY DEF BehindInv, OkInv
  <1>5. ~cfg.rpa => ExchLag(wire, i, k, srv.at) /\ i \in 1..6
    <2>1. ~cfg.rpa => Len(Order) = 6
      BY Entries, Zenon
    <2> QED BY <1>1, <2>1 DEF BehindInv, LagInv
  <1>6. cfg.rpa => Len(wire) <= 1
    BY DEF BehindInv, RpaInv
  <1>7. CASE Silent(Tail(wire))
    <2>1. wire' = Tail(wire) /\ srv'.at = "gone"
      BY <1>7 DEF Silent
    <2>2. /\ Len(wire) \in Nat /\ Len(wire') = Len(wire) - 1 /\ Len(wire') \in Nat
          /\ NoOk(wire')
      BY <1>1, <1>4, <2>1, Pop
    <2>3. ~cfg.rpa /\ i < 6 => Len(wire') <= 1
      BY <1>5, <2>2 DEF ExchLag
    <2>4. cfg.rpa => Len(wire') = 0
      BY <1>6, <2>2
    <2>5. CASE pc' = "exch"
      <3>1. ~cfg.rpa => ExchLag(wire', i', k', srv'.at)
        BY <1>5, <2>1, <2>2, <2>3 DEF ExchLag, Quiet
      <3> QED BY <2>2, <2>4, <2>5, <3>1, BehindExch
    <2>6. CASE pc' = "final"
      <3>1. ~cfg.rpa /\ i' < 6 => GapLag(wire', srv'.at)
        BY <2>1, <2>2, <2>3 DEF GapLag
      <3>2. cfg.rpa => Len(wire') <= 1 /\ \A n \in 1..Len(wire') : wire'[n].kind \notin {"chal", "junk", "blank"}
        BY <2>4
      <3> QED BY <2>2, <2>6, <3>1, <3>2, BehindFinal
    <2> QED BY <2>5, <2>6
  <1>8. CASE ~Silent(Tail(wire))
    <2>1. PICK l : Spoken(Tail(wire), l) /\ ResponseReply(l, srv')
      BY <1>8 DEF ResponseHeard
    <2>2. /\ Len(wire) \in Nat \ {0} /\ Len(wire') = Len(wire)
          /\ Len(wire) = 1 => wire'[1] = l
          /\ Len(wire) = 2 => wire'[1] = wire[2] /\ wire'[2] = l
          /\ l.kind # "ok" => NoOk(wire')
      BY <1>1, <1>4, <2>1, PopPush
    <2>3. ~cfg.rpa /\ i < 6 => Len(wire) <= 2
      BY <1>5, <2>2 DEF ExchLag
    <2>4. /\ i \in {3, 4, 5} => cfg.rpa \/ z = 2
          /\ cfg.rpa => i = 1
      <3>1. cfg.rpa => Len(Order) = 1
        BY Entries, Zenon
      <3>2. cfg.rpa => i = 1
        <4>1. cfg.rpa => i \in 1..1
          BY <1>1, <3>1, Zenon
        <4> QED BY <4>1
      <3>3. ~cfg.rpa /\ i \in {3, 4, 5} => z = 2
        BY <1>1, <1>2, Pop3Table
      <3> QED BY <3>2, <3>3
    <2>5. ~cfg.rpa /\ srv.at = "sasl" /\ Len(wire) >= 2 => i \in {3, 4, 5} /\ k = 1 /\ Len(wire) = 2
      BY <1>1, <1>5, TooLate
    \* The exchange goes on.
    <2>6. CASE srv.at = "sasl" /\ srv.left > 1 /\ l.kind \in {"chal", "junk"} /\ srv'.at = "sasl"
      <3>1. pc' = "exch"
        BY <1>1, <1>2, <1>3, <2>6
      <3>2. ~cfg.rpa => ExchLag(wire', i', k', srv'.at)
        <4> SUFFICES ASSUME ~cfg.rpa PROVE ExchLag(wire', i', k', srv'.at)
          OBVIOUS
        <4>1. CASE Len(wire) = 1
          BY <1>5, <2>2, <4>1 DEF ExchLag
        <4>2. CASE Len(wire) >= 2
          <5>1. i \in {3, 4, 5} /\ k = 1 /\ Len(wire) = 2 /\ k' = 2
            BY <2>5, <2>6, <4>2
          <5>2. wire[2].kind \in {"blank", "junk"}
            BY <1>5, <2>6, <5>1 DEF ExchLag
          <5> QED BY <2>2, <2>6, <5>1, <5>2 DEF ExchLag, Quiet
        <4> QED BY <2>2, <4>1, <4>2
      <3> QED BY <1>6, <2>2, <2>6, <3>1, <3>2, BehindExch
    \* The server authorizes the session.
    <2>7. CASE srv.at = "sasl" /\ srv.left = 1 /\ l.kind = "ok" /\ srv'.at = "authed"
      <3>1. k = z /\ pc' = "final"
        BY <1>1, <1>2, <1>3, <2>7
      <3>2. Len(wire) = 1
        BY <1>3, <1>6, <2>2, <2>4, <2>5, <2>7, <3>1
      <3>3. \A n \in 1..Len(wire') : wire'[n].kind \notin {"chal", "junk", "blank"}
        BY <2>2, <2>7, <3>2
      <3>4. GapLag(wire', srv'.at) /\ Len(wire') = 1 /\ Len(wire') <= 1
        BY <2>2, <3>2 DEF GapLag
      <3> QED BY <2>7, <3>1, <3>3, <3>4, BehindFinal
    \* It refuses.
    <2>8. CASE l.kind = "no" /\ srv'.at # "sasl"
      <3>1. NoOk(wire')
        BY <2>2, <2>8
      <3>2. CASE pc' = "exch"
        <4>1. ~cfg.rpa => ExchLag(wire', i', k', srv'.at)
          BY <1>5, <2>2, <2>3, <2>8 DEF ExchLag
        <4> QED BY <1>6, <2>2, <3>1, <3>2, <4>1, BehindExch
      <3>3. CASE pc' = "final"
        <4>1. ~cfg.rpa /\ i' < 6 => GapLag(wire', srv'.at)
          BY <2>2, <2>3, <2>8 DEF GapLag
        <4>2. cfg.rpa => Len(wire') <= 1 /\ \A n \in 1..Len(wire') : wire'[n].kind \notin {"chal", "junk", "blank"}
          BY <1>6, <2>2, <2>8
        <4> QED BY <3>1, <3>3, <4>1, <4>2, BehindFinal
      <3> QED BY <3>2, <3>3
    <2> QED BY <2>1, <2>6, <2>7, <2>8 DEF ResponseReply, Idle
  <1> QED BY <1>7, <1>8

\* After a "*" nothing is added but a refusal.
LEMMA StarBehind ==
    ASSUME wire \in Seq(Lines), wire # <<>>, NEW t, StarHeard(Tail(wire), t), ~Imap, NoOk(wire)
    PROVE  /\ NoOk(wire') /\ Len(wire') \in Nat /\ Len(wire') <= Len(wire) /\ Len(wire) \in Nat
           /\ \/ srv'.at = "gone" /\ Len(wire') = Len(wire) - 1
              \/ /\ srv.at # "gone" /\ Len(wire) >= 1 /\ Len(wire') = Len(wire)
                 /\ Len(wire) = 1 => wire'[1].kind = "no"
                 /\ Len(wire) = 2 => wire'[1] = wire[2] /\ wire'[2].kind = "no"
  <1>1. CASE Silent(Tail(wire))
    <2>1. wire' = Tail(wire) /\ srv'.at = "gone"
      BY <1>1 DEF Silent
    <2>2. /\ Len(wire) \in Nat /\ Len(wire') = Len(wire) - 1 /\ Len(wire') \in Nat
          /\ NoOk(wire')
      BY <2>1, Pop
    <2>3. Len(wire') <= Len(wire)
      BY <2>2
    <2> QED BY <2>1, <2>2, <2>3, Zenon
  <1>2. CASE ~Silent(Tail(wire))
    <2>1. PICK l : Spoken(Tail(wire), l) /\ StarReply(l, srv')
      BY <1>2 DEF StarHeard
    <2>2. l.kind = "no" /\ srv.at # "gone"
      BY <2>1 DEF StarReply, Spoken
    <2>3. /\ Len(wire) \in Nat \ {0} /\ Len(wire') = Len(wire)
          /\ Len(wire) = 1 => wire'[1] = l
          /\ Len(wire) = 2 => wire'[1] = wire[2] /\ wire'[2] = l
          /\ NoOk(wire')
      BY <2>1, <2>2, PopPush
    <2>4. Len(wire) >= 1 /\ Len(wire) \in Nat /\ Len(wire') \in Nat /\ Len(wire') <= Len(wire)
      BY <2>3
    <2>5. /\ Len(wire) = 1 => wire'[1].kind = "no"
          /\ Len(wire) = 2 => wire'[1] = wire[2] /\ wire'[2].kind = "no"
      BY <2>2, <2>3, Zenon
    <2> QED BY <2>2, <2>3, <2>4, <2>5, Zenon
  <1> QED BY <1>1, <1>2

\* pop3_getauth does not go on after MSN or RPA.
LEMMA OnlyWay ==
    ASSUME Exchange, Order[i] \in {"MSN", "RPA"}
    PROVE  pc' # "try"
  <1>1. PICK m : m = Order[i]
    OBVIOUS
  <1>2. pc = "exch" /\ m \in {"MSN", "RPA"}
    BY <1>1 DEF Exchange
  <1>3. pc' \in {"exch", "final", "cancel"} \/ \E r : Failed(m, r)
    BY <1>1, <1>2 DEF Exchange
  <1> QED BY <1>2, <1>3 DEF Failed, Return

LEMMA ExchangeBehind == ASSUME PlaceInv, BehindInv, Exchange PROVE BehindInv'
  <1>1. /\ TurnInv /\ pc = "exch" /\ wire \in Seq(Lines) /\ srv \in Servers
        /\ i \in 1..Len(Order) /\ k \in 1..Len(Steps(Order[i]))
    BY DEF PlaceInv, TurnInv, TurnType, Exchange, AtWork, Helper
  <1>2. UNCHANGED <<cfg, i>>
    BY <1>1, ExchangeCases
  <1>3. CASE Imap \/ pc' = "done"
    BY <1>2, <1>3, BehindElse
  <1>4. CASE ~Imap /\ pc' # "done"
    <2>1. NoOk(wire) /\ i # 0 /\ Len(wire) \in Nat
      BY <1>1, <1>4, OrderFacts DEF BehindInv, OkInv
    <2>2. ~cfg.rpa => ExchLag(wire, i, k, srv.at)
      BY <1>1, <1>4 DEF BehindInv, LagInv
    <2>3. cfg.rpa => Len(wire) <= 1
      BY <1>1, <1>4 DEF BehindInv, RpaInv
    <2>4. CASE /\ wire # <<>> /\ Accepts(Steps(Order[i])[k].takes, Head(wire))
               /\ ResponseHeard /\ k' = k + 1
               /\ pc' = IF k = Len(Steps(Order[i])) THEN "final" ELSE "exch"
      BY <1>1, <1>2, <1>4, <2>4, ResponseBehind
    <2>5. CASE /\ wire # <<>> /\ StarHeard(Tail(wire), 0) /\ pc' = "cancel"
               /\ "wait" \in {Steps(Order[i])[k].unfit} \cup Steps(Order[i])[k].fails
      <3>1. /\ NoOk(wire') /\ Len(wire') \in Nat /\ Len(wire') <= Len(wire)
            /\ \/ srv'.at = "gone"
               \/ Len(wire') = Len(wire) /\ (Len(wire) = 2 => wire'[2].kind = "no")
        BY <1>1, <1>4, <2>1, <2>5, StarBehind
      <3>2. ~cfg.rpa => i = 2
        <4>1. Order[i] = "GSSAPI"
          BY <1>1, <2>5, OrderMechs, WaysFacts
        <4> QED BY <1>1, <1>4, <4>1, Pop3Table
      <3>3. ~cfg.rpa => Len(wire) <= 2
        BY <2>2, <3>2 DEF ExchLag
      <3>4. ~cfg.rpa => GapLag(wire', srv'.at)
        BY <2>1, <3>1, <3>3 DEF GapLag, Quiet
      <3>5. cfg.rpa => Len(wire') <= 1
        BY <2>1, <2>3, <3>1
      <3> QED BY <1>2, <2>5, <3>1, <3>4, <3>5, BehindCancel
    <2>6. CASE wire # <<>> /\ StarHeard(Tail(wire), tag') /\ GivesUpOn /\ "star" \in Ways
      <3>1. pc' = "try"
        BY <1>4, <2>6 DEF GivesUpOn
      <3>2. /\ NoOk(wire') /\ Len(wire') \in Nat /\ Len(wire') <= Len(wire)
            /\ \/ srv'.at = "gone" /\ Len(wire') = Len(wire) - 1
               \/ /\ srv.at # "gone" /\ Len(wire) >= 1 /\ Len(wire') = Len(wire)
                  /\ Len(wire) = 1 => wire'[1].kind = "no"
                  /\ Len(wire) = 2 => wire'[1] = wire[2] /\ wire'[2].kind = "no"
        BY <1>1, <1>4, <2>1, <2>6, StarBehind
      <3>3. ~cfg.rpa => TryLag(wire', i, srv'.at)
        <4> SUFFICES ASSUME ~cfg.rpa PROVE TryLag(wire', i, srv'.at)
          OBVIOUS
        <4>1. i \in {4, 5} /\ (k = 1 \/ Head(wire).kind = "chal")
          BY <1>1, <1>4, <2>6, StarWay
        <4>2. i = 4 <=> Order[i] = "MSN"
          BY <1>1, <1>4, Pop3Table
        <4>3. i = 5
          BY <3>1, <4>1, <4>2, OnlyWay
        <4>4. /\ Len(wire) <= 2
              /\ Len(wire) = 2 /\ Quiet(srv.at) => wire[2].kind # "chal"
              /\ Len(wire) = 2 /\ srv.at = "sasl" =>
                    /\ wire[1].kind # "chal"
                    /\ k = 1 => wire[2].kind \in {"blank", "junk"}
          BY <2>2, <4>3 DEF ExchLag
        <4>5. CASE srv'.at = "gone" /\ Len(wire') = Len(wire) - 1
          BY <2>1, <3>2, <4>3, <4>4, <4>5 DEF TryLag, Quiet
        <4>6. CASE /\ srv.at # "gone" /\ Len(wire) >= 1 /\ Len(wire') = Len(wire)
                   /\ Len(wire) = 1 => wire'[1].kind = "no"
                   /\ Len(wire) = 2 => wire'[1] = wire[2] /\ wire'[2].kind = "no"
          <5>1. Quiet(srv.at) \/ srv.at = "sasl"
            BY <1>1, <4>6 DEF Servers, Quiet
          <5>2. Head(wire) = wire[1]
            BY <1>1, <2>6, Shortened
          <5>3. Len(wire) = 2 => wire[2].kind # "chal"
            BY <4>1, <4>4, <5>1, <5>2
          <5>4. Len(wire) = 1 \/ Len(wire) = 2
            BY <2>1, <4>4, <4>6
          <5>5. wire'[1].kind # "chal" /\ (Len(wire') = 2 => wire'[2].kind # "chal") /\ Len(wire') <= 2
            BY <4>6, <5>3, <5>4
          <5> QED BY <4>3, <5>5 DEF TryLag
        <4> QED BY <3>2, <4>5, <4>6
      <3>4. cfg.rpa => Len(wire') <= 1
        BY <2>1, <2>3, <3>2
      <3> QED BY <1>2, <2>1, <3>1, <3>2, <3>3, <3>4, BehindTry
    <2>7. CASE wire # <<>> /\ wire' = Tail(wire) /\ srv' = srv /\ GivesUpOn
      BY <1>1, <1>2, <1>4, <2>7, ReadBehind DEF GivesUpOn
    <2>8. CASE LostFacts /\ GivesUpOn
      BY <1>1, <1>2, <1>4, <2>8, EmptyBehind DEF GivesUpOn, LostFacts
    <2> QED BY <1>1, <1>4, <2>4, <2>5, <2>6, <2>7, <2>8, ExchangeCases
  <1> QED BY <1>3, <1>4

LEMMA CancelledBehind == ASSUME PlaceInv, BehindInv, Cancelled PROVE BehindInv'
  <1>1. /\ pc = "cancel" /\ i \in 1..Len(Order) /\ UNCHANGED <<cfg, i>>
    BY DEF PlaceInv, TurnInv, TurnType, Cancelled, AtWork, Helper, ctlVars
  <1>2. CASE wire # <<>> /\ wire' = Tail(wire) /\ UNCHANGED srv /\ Failed("GSSAPI", "authfail")
    <2>1. GivesUpOn
      BY <1>2, FailedFacts
    <2>2. CASE Imap \/ pc' = "done"
      BY <1>1, <2>2, BehindElse
    <2>3. CASE ~Imap /\ pc' = "try"
      BY <1>1, <1>2, <2>3, ReadBehind
    <2> QED BY <2>1, <2>2, <2>3 DEF GivesUpOn
  <1>3. CASE Lost /\ Failed("GSSAPI", "socket")
    <2>1. GivesUpOn
      BY <1>3, FailedFacts
    <2>2. CASE pc' = "done"
      BY <1>1, <2>2, BehindElse
    <2>3. CASE pc' = "try"
      BY <1>1, <1>3, <2>3, EmptyBehind DEF Lost
    <2> QED BY <2>1, <2>2, <2>3 DEF GivesUpOn
  <1> QED BY <1>2, <1>3 DEF Cancelled

LEMMA FinalBehind == ASSUME PlaceInv, BehindInv, Final PROVE BehindInv'
  <1>1. /\ TurnInv /\ pc = "final" /\ wire \in Seq(Lines) /\ i \in 1..Len(Order)
    BY OrderFacts DEF PlaceInv, TurnInv, TurnType, Final, AtWork
  <1>2. UNCHANGED <<cfg, i>>
    BY <1>1, FinalCases
  <1>3. CASE Imap \/ pc' = "done"
    BY <1>2, <1>3, BehindElse
  <1>4. CASE ~Imap /\ pc' # "done"
    <2>1. NoOk(wire) \/ Len(wire) = 1
      BY <1>1, <1>4 DEF BehindInv, OkInv, Helper
    <2>2. ASSUME NEW n, TakenAt(n), GivesUpOn, wire' = Unread(n), srv' = srv
          PROVE  BehindInv'
      <3>1. n = 1 /\ n \in 1..Len(wire) /\ wire # <<>>
        BY <1>1, <1>4, <2>2 DEF TakenAt
      <3>2. wire' = Tail(wire)
        BY <1>1, <2>2, <3>1, Left DEF Unread
      <3> QED BY <1>1, <1>2, <1>4, <2>1, <2>2, <3>1, <3>2, ReadBehind DEF GivesUpOn
    <2>3. CASE LostFacts /\ GivesUpOn
      BY <1>1, <1>2, <1>4, <2>3, EmptyBehind DEF GivesUpOn, LostFacts
    <2> QED BY <1>1, <1>4, <2>2, <2>3, FinalCases
  <1> QED BY <1>3, <1>4

LEMMA BehindUser ==
    ASSUME cfg' = cfg, pc' = "user",
           ~Imap => \A n \in 1..Len(wire') : wire'[n].kind = "ok" => n = Len(wire')
    PROVE  BehindInv'
  BY SameAccount DEF BehindInv, OkInv, LagInv, RpaInv

LEMMA ClearBehind == ASSUME PlaceInv, BehindInv, Clear PROVE BehindInv'
  <1>1. TurnInv /\ wire \in Seq(Lines) /\ cfg' = cfg /\ i' = Len(Order) + 1
    BY ClearCases DEF PlaceInv, TurnInv, TurnType
  <1>2. i' \notin 1..Len(Order)
    BY <1>1, OrderFacts
  <1>3. CASE Imap \/ pc' = "done"
    BY <1>1, <1>3, BehindElse
  <1>4. CASE ~Imap /\ pc' # "done"
    <2>1. NoOk(wire)
      <3>1. CASE pc = "try"
        BY <1>4, <3>1 DEF BehindInv, OkInv
      <3>2. CASE pc = "clear"
        BY <1>1, <3>2 DEF TurnInv, AtStart, NoOk
      <3> QED BY <3>1, <3>2 DEF Clear
    <2>2. ~cfg.rpa => ~(i' < 6)
      <3>1. ~cfg.rpa => Len(Order) = 6
        BY <1>4, Entries, Zenon
      <3>2. ~cfg.rpa => i' = 6 + 1
        BY <1>1, <3>1, Zenon
      <3> QED BY <3>2
    <2>3. ASSUME NEW to, CommandHeard(wire, to)
          PROVE  /\ NoOk(wire') \/ srv'.at = to
                 /\ \A n \in 1..Len(wire') : wire'[n].kind = "ok" => n = Len(wire')
      <3>1. CASE Silent(wire)
        BY <2>1, <3>1 DEF Silent, NoOk
      <3>2. CASE ~Silent(wire)
        <4>1. PICK l : Spoken(wire, l) /\ CommandReply(to, l, srv')
          BY <2>3, <3>2 DEF CommandHeard
        <4>2. NoOk(wire') \/ srv'.at = to
          BY <1>1, <2>1, <4>1, Push DEF CommandReply
        <4>3. /\ Len(wire) \in Nat /\ Len(wire') = Len(wire) + 1
              /\ \A n \in 1..Len(wire) : wire'[n] = wire[n]
          BY <1>1, <4>1, SpokenFacts
        <4>4. \A n \in 1..Len(wire') : n \in 1..Len(wire) \/ n = Len(wire')
          BY <4>3
        <4> QED BY <2>1, <4>2, <4>3, <4>4 DEF NoOk
      <3> QED BY <3>1, <3>2
    <2>4. CASE CommandHeard(wire, "authed") /\ pc' = "final"
      <3>1. NoOk(wire') \/ srv'.at = "authed"
        BY <2>3, <2>4
      <3> QED BY <1>1, <1>2, <1>4, <2>2, <2>4, <3>1, BehindFinal
    <2>5. CASE CommandHeard(wire, "cmd") /\ pc' = "user"
      <3>1. \A n \in 1..Len(wire') : wire'[n].kind = "ok" => n = Len(wire')
        BY <2>3, <2>5
      <3> QED BY <1>1, <2>5, <3>1, BehindUser
    <2> QED BY <1>1, <1>4, <2>4, <2>5, ClearCases
  <1> QED BY <1>3, <1>4

\* The OK to USER is the last line, so PASS is read with nothing before it.
LEMMA PassBehind == ASSUME PlaceInv, BehindInv, Pass PROVE BehindInv'
  <1>1. /\ TurnInv /\ wire \in Seq(Lines) /\ UNCHANGED <<cfg, i>> /\ ~Imap
        /\ pc = "user" /\ i \in Nat /\ i > Len(Order)
    BY PassCases DEF PlaceInv, TurnInv, TurnType, AtWork, Pass
  <1>2. i \notin 1..Len(Order) /\ (~cfg.rpa => ~(i < 6))
    <2>1. ~cfg.rpa => Len(Order) = 6
      BY <1>1, Entries, Zenon
    <2> QED BY <1>1, <2>1, OrderFacts
  <1>3. CASE pc' = "done"
    BY <1>1, <1>3, BehindElse
  <1>4. CASE /\ wire # <<>> /\ Head(wire).kind = "ok" /\ CommandHeard(Tail(wire), "authed")
             /\ pc' = "final"
    <2>1. Head(wire) = wire[1] /\ Len(wire) \in Nat \ {0}
      BY <1>1, <1>4, Shortened
    <2>2. 1 \in 1..Len(wire) /\ wire[1].kind = "ok"
      BY <1>4, <2>1
    <2>3. Len(wire) = 1
      BY <1>1, <2>2 DEF BehindInv, OkInv
    <2>4. CASE Silent(Tail(wire))
      <3>1. wire' = Tail(wire)
        BY <2>4 DEF Silent
      <3>2. Len(wire') = Len(wire) - 1
        BY <1>1, <1>4, <3>1, Pop
      <3>3. 1..Len(wire') = {}
        BY <2>3, <3>2
      <3>4. NoOk(wire')
        BY <3>3 DEF NoOk
      <3> QED BY <1>1, <1>2, <1>4, <3>4, BehindFinal
    <2>5. CASE ~Silent(Tail(wire))
      <3>1. PICK l : Spoken(Tail(wire), l) /\ CommandReply("authed", l, srv')
        BY <1>4, <2>5 DEF CommandHeard
      <3>2. Len(wire') = 1 /\ wire'[1] = l
        BY <1>1, <1>4, <2>3, <3>1, PopPush
      <3>3. l.kind = "ok" => srv'.at = "authed"
        BY <3>1 DEF CommandReply
      <3>4. NoOk(wire') \/ srv'.at = "authed"
        <4>1. \A n \in 1..Len(wire') : n = 1
          BY <3>2
        <4> QED BY <3>2, <3>3, <4>1 DEF NoOk
      <3> QED BY <1>1, <1>2, <1>4, <3>4, BehindFinal
    <2> QED BY <2>4, <2>5
  <1> QED BY <1>1, <1>3, <1>4, PassCases

\* Before the first mechanism, and after the last.
LEMMA StartBehind ==
    ASSUME cfg' = cfg, pc' = "try", wire' = <<>>, i' = 0
    PROVE  BehindInv'
  <1>1. NoOk(wire') /\ TryLag(wire', i', srv'.at)
    BY DEF NoOk, TryLag
  <1> QED BY <1>1, BehindTry

LEMMA Pop3StartBehind == ASSUME PlaceInv, BehindInv, Pop3Start PROVE BehindInv'
  <1>1. i = 0 /\ wire = <<>> /\ UNCHANGED <<cfg, i, wire>>
    BY DEF PlaceInv, TurnInv, TurnType, AtStart, Pop3Start, Pop3Capa, ctlVars
  <1>2. pc' \in {"clear", "done", "try", "tls"} /\ (pc' = "tls" => ~cfg.rpa)
    BY DEF Pop3Start, Pop3Capa, Weaken, Return
  <1> QED BY <1>1, <1>2, BehindElse, StartBehind

LEMMA StartTlsBehind == ASSUME PlaceInv, BehindInv, StartTls PROVE BehindInv'
  <1>1. i = 0 /\ wire = <<>> /\ pc = "tls" /\ UNCHANGED <<cfg, i>>
    BY DEF PlaceInv, TurnInv, TurnType, AtStart, StartTls, ctlVars
  <1>2. Imap \/ ~cfg.rpa
    BY <1>1 DEF BehindInv, RpaInv
  <1>3. pc' \in {"reprobe", "noop", "try", "done"} /\ wire' \in {<<>>, <<Line(0, "junk")>>}
    BY <1>1 DEF StartTls, Upgrade, Return
  <1>4. CASE wire' = <<>> \/ pc' # "try"
    BY <1>1, <1>3, <1>4, BehindElse, StartBehind
  <1>5. CASE wire' = <<Line(0, "junk")>> /\ pc' = "try"
    <2>1. Line(0, "junk") \in Lines /\ Line(0, "junk").kind = "junk"
      BY LineTyped DEF Kinds
    <2>2. Len(wire') = 1 /\ wire'[1].kind = "junk"
      BY <1>5, <2>1
    <2>3. NoOk(wire')
      <3>1. \A n \in 1..Len(wire') : n = 1
        BY <2>2
      <3> QED BY <2>2, <3>1 DEF NoOk
    <2>4. TryLag(wire', i', srv'.at)
      BY <1>1, <2>2 DEF TryLag
    <2> QED BY <1>1, <1>2, <1>5, <2>2, <2>3, <2>4, BehindTry
  <1> QED BY <1>3, <1>4, <1>5

LEMMA FirstBehind ==
    ASSUME PlaceInv, Connect \/ ImapStart \/ Reprobe \/ Noop
    PROVE  BehindInv'
  <1>1. CASE Connect
    BY <1>1, BehindElse DEF Connect, ctlVars
  <1>2. CASE ImapStart
    BY <1>2, BehindElse DEF ImapStart, ctlVars
  <1>3. CASE Reprobe
    <2>1. i = 0 /\ wire = <<>> /\ UNCHANGED <<cfg, i, wire>>
      BY <1>3 DEF PlaceInv, TurnInv, AtStart, Reprobe, ImapCapa, ctlVars
    <2>2. pc' \in {"try", "done"}
      BY <1>3 DEF Reprobe, ImapCapa, Return
    <2> QED BY <2>1, <2>2, BehindElse, StartBehind
  <1>4. CASE Noop
    <2>1. i = 0 /\ wire' = <<>> /\ UNCHANGED <<cfg, i>>
      BY <1>4 DEF PlaceInv, TurnInv, AtStart, Noop
    <2>2. pc' \in {"try", "done"}
      BY <1>4 DEF Noop, Return
    <2> QED BY <2>1, <2>2, BehindElse, StartBehind
  <1> QED BY <1>1, <1>2, <1>3, <1>4

LEMMA HangUpBehind == ASSUME PlaceInv, BehindInv, HangUp PROVE BehindInv'
  <1>1. /\ wire \in Seq(Lines) /\ srv \in Servers /\ UNCHANGED <<cfg, pc, i, k>>
        /\ pc \in {"exch", "cancel", "final", "user"}
    BY DEF PlaceInv, TurnInv, TurnType, HangUp, ctlVars
  <1>2. srv'.at = "gone" /\ (wire' = wire \/ wire' = <<>>)
    BY <1>1 DEF HangUp, Servers
  <1>3. Order' = Order /\ Imap' = Imap
    BY <1>1, SameAccount
  <1>4. OkInv'
    <2>1. CASE wire' = wire
      BY <1>1, <1>2, <1>3, <2>1 DEF BehindInv, OkInv, Helper
    <2>2. CASE wire' = <<>>
      BY <1>1, <2>2 DEF OkInv, NoOk
    <2> QED BY <1>2, <2>1, <2>2
  <1>5. LagInv'
    <2>1. CASE wire' = wire
      BY <1>1, <1>2, <1>3, <2>1 DEF BehindInv, LagInv, ExchLag, GapLag, Quiet
    <2>2. CASE wire' = <<>>
      BY <1>1, <2>2 DEF LagInv, ExchLag, GapLag
    <2> QED BY <1>2, <2>1, <2>2
  <1>6. RpaInv'
    <2>1. CASE wire' = wire
      BY <1>1, <1>3, <2>1 DEF BehindInv, RpaInv, Helper
    <2>2. CASE wire' = <<>>
      BY <1>1, <2>2 DEF RpaInv
    <2> QED BY <1>2, <2>1, <2>2
  <1> QED BY <1>4, <1>5, <1>6 DEF BehindInv

LEMMA EndsBehind ==
    ASSUME BehindInv, LastAnswer \/ TimeOut \/ SessionEnds \/ UNCHANGED vars
    PROVE  BehindInv'
  <1>1. CASE LastAnswer \/ TimeOut \/ SessionEnds
    BY <1>1, BehindElse DEF LastAnswer, TimeOut, SessionEnds, Return, ctlVars
  <1>2. CASE UNCHANGED vars
    <2>1. UNCHANGED <<cfg, pc, i, k, wire, srv>> /\ Order' = Order /\ Imap' = Imap
      BY <1>2, SameAccount DEF vars, ctlVars
    <2> QED BY <2>1 DEF BehindInv, OkInv, LagInv, RpaInv, Helper
  <1> QED BY <1>1, <1>2

LEMMA BehindKept == ASSUME PlaceInv, BehindInv, [Next]_vars PROVE BehindInv'
  BY FirstBehind, Pop3StartBehind, StartTlsBehind, TryBehind, ExchangeBehind, CancelledBehind,
     FinalBehind, ClearBehind, PassBehind, HangUpBehind, EndsBehind DEF Next, Client

-----------------------------------------------------------------------------
(* The outcome.                                                            *)

\* What a helper calls a success is an OK, but for do_otp.
LEMMA SuccessIsOk ==
    ASSUME NEW m, m # "X-OTP", NEW l, "success" \in Verdict(m, l),
           m = "RPA" => ~Imap /\ l.kind \notin {"chal", "junk", "blank"}
    PROVE  l.kind = "ok"
  <1>1. CASE m \in {"NTLM", "MSN"}
    BY <1>1 DEF Verdict
  <1>2. CASE m = "RPA"
    <2>1. Accepts("plus", l)
      BY <1>2 DEF Verdict
    <2> QED BY <1>2, <2>1 DEF Accepts
  <1>3. CASE m \notin {"NTLM", "MSN", "RPA"}
    <2>1. StatusOf(l) = "success"
      BY <1>3 DEF Verdict
    <2> QED BY <2>1 DEF StatusOf
  <1> QED BY <1>1, <1>2, <1>3

LEMMA FinalAgreed == ASSUME PlaceInv, BehindInv, Final PROVE Agreed'
  <1>1. /\ TurnInv /\ pc = "final" /\ wire \in Seq(Lines) /\ i \in 1..Len(Order)
    BY OrderFacts DEF PlaceInv, TurnInv, TurnType, Final, AtWork
  <1>2. UNCHANGED <<cfg, auth, i>> /\ Order' = Order /\ Imap' = Imap
    BY <1>1, FinalCases, SameAccount
  <1>3. ASSUME NEW n, TakenAt(n), "success" \in Verdict(Order[i], wire[n]), srv' = srv
        PROVE  srv.at \in {"authed", "gone"} \/ Order[i] = "X-OTP"
    <2> SUFFICES ASSUME Order[i] # "X-OTP" PROVE srv.at \in {"authed", "gone"}
      OBVIOUS
    <2>1. n \in 1..Len(wire)
      BY <1>3 DEF TakenAt
    <2>2. CASE Imap
      <3>1. Order[i] # "RPA" /\ ~ReadsRaw(Order[i])
        <4>1. Len(Order) = 6
          BY <2>2, Entries
        <4>2. i = 1 \/ i = 2 \/ i = 3 \/ i = 4 \/ i = 5 \/ i = 6
          BY <1>1, <4>1
        <4>3. Order[i] # "RPA"
          BY <2>2, <4>2, Entries
        <4> QED BY <4>3 DEF ReadsRaw
      <3>2. wire[n].tag = tag /\ wire[n].kind = "ok"
        BY <1>3, <2>2, <3>1, SuccessIsOk DEF TakenAt
      <3> QED BY <2>1, <2>2, <3>2 DEF PlaceInv, TagInv, TagsOk
    <2>3. CASE ~Imap
      <3>1. Order[i] = "RPA" => wire[n].kind \notin {"chal", "junk", "blank"}
        <4>1. Order[i] = "RPA" => cfg.rpa
          <5> SUFFICES ASSUME ~cfg.rpa PROVE Order[i] # "RPA"
            BY Zenon
          <5>1. Len(Order) = 6
            BY <2>3, Entries, Zenon
          <5>2. i = 1 \/ i = 2 \/ i = 3 \/ i = 4 \/ i = 5 \/ i = 6
            BY <1>1, <5>1
          <5> QED BY <2>3, <5>2, Entries
        <4> QED BY <1>1, <2>1, <2>3, <4>1 DEF BehindInv, RpaInv, Helper
      <3>2. wire[n].kind = "ok"
        BY <1>3, <2>3, <3>1, SuccessIsOk
      <3>3. ~NoOk(wire)
        BY <2>1, <3>2 DEF NoOk
      <3> QED BY <1>1, <2>3, <3>3 DEF BehindInv, OkInv
    <2> QED BY <2>2, <2>3
  <1>4. CASE ok' # "success"
    BY <1>4 DEF Agreed
  <1>5. CASE ok' = "success"
    <2>1. PICK n : TakenAt(n) /\ "success" \in Verdict(Order[i], wire[n]) /\ srv' = srv
      BY <1>1, <1>5, FinalCases DEF GivesUpOn
    <2> QED BY <1>1, <1>2, <1>3, <2>1 DEF Agreed
  <1> QED BY <1>4, <1>5

LEMMA LastAnswerAgreed == ASSUME PlaceInv, BehindInv, LastAnswer PROVE Agreed'
  <1>1. /\ pc = "final" /\ wire \in Seq(Lines) /\ tag \in Nat /\ i > Len(Order) /\ srv' = srv
    BY DEF PlaceInv, TurnInv, TurnType, LastAnswer, Lost
  <1>2. CASE ok' # "success"
    BY <1>2 DEF Agreed
  <1>3. CASE ok' = "success"
    <2>1. Answers # {} /\ StatusOf(Answer) = "success"
      BY <1>3 DEF LastAnswer, Return
    <2>2. Answer.kind = "ok"
      BY <2>1 DEF StatusOf
    <2>3. PICK n \in Answers : n \in 1..Len(wire) /\ Answer = wire[n] /\ (Imap => wire[n].tag = tag)
      BY <1>1, <2>1, AnswerFacts
    <2>4. CASE Imap
      BY <2>2, <2>3, <2>4 DEF PlaceInv, TagInv, TagsOk, Agreed, LastAnswer, Lost
    <2>5. CASE ~Imap
      <3>1. ~NoOk(wire)
        BY <2>2, <2>3 DEF NoOk
      <3>2. srv.at \in {"authed", "gone"}
        BY <1>1, <2>5, <3>1 DEF BehindInv, OkInv
      <3> QED BY <1>1, <3>2 DEF Agreed
    <2> QED BY <2>4, <2>5
  <1> QED BY <1>2, <1>3

LEMMA AgreedKept == ASSUME PlaceInv, BehindInv, Agreed, [Next]_vars PROVE Agreed'
  <1>1. CASE Connect \/ HangUp \/ TimeOut \/ SessionEnds
    BY <1>1 DEF Agreed, Connect, HangUp, TimeOut, SessionEnds
  <1>2. CASE ImapStart \/ Reprobe \/ Noop
    <2>1. pc \in {"start", "reprobe", "noop"}
      BY <1>2 DEF ImapStart, Reprobe, Noop
    <2>2. pc' = "done" => ok' # "success"
      BY <1>2, <2>1 DEF ImapStart, Reprobe, Noop, ImapCapa, Return
    <2> QED BY <2>2 DEF Agreed
  <1>3. CASE Pop3Start
    <2>1. ok # "success"
      BY <1>3 DEF PlaceInv, TurnInv, Pop3Start
    <2>2. pc' = "done" /\ ok' = "success" => auth' = "ssh"
      BY <1>3, <2>1 DEF Pop3Start, Pop3Capa, Weaken, GivesUp, CapaResults, Return, ctlVars
    <2> QED BY <2>2 DEF Agreed
  <1>4. CASE StartTls
    <2>1. ok # "success" /\ i = 0 /\ UNCHANGED <<cfg, i>>
      BY <1>4 DEF PlaceInv, TurnInv, AtStart, StartTls, ctlVars
    <2>2. pc' = "done" /\ ok' = "success" => Imap
      BY <1>4, <2>1 DEF StartTls, Upgrade, Return
    <2> QED BY <2>1, <2>2, SameAccount DEF Agreed
  <1>5. CASE TryMechanism \/ Exchange \/ Cancelled \/ Clear \/ Pass
    <2>1. TurnInv /\ ok # "success"
      BY <1>5 DEF PlaceInv, TurnInv, TryMechanism, Exchange, Cancelled, Clear, Pass
    <2>2. CASE TryMechanism
      BY <2>1, <2>2, TryCases DEF Agreed, GivesUpOn
    <2>3. CASE Exchange
      BY <2>1, <2>3, ExchangeCases DEF Agreed, GivesUpOn
    <2>4. CASE Cancelled
      BY <2>4, FailedFacts DEF Cancelled, Agreed, GivesUpOn
    <2>5. CASE Clear
      BY <2>1, <2>5, ClearCases DEF Agreed
    <2>6. CASE Pass
      BY <2>1, <2>6, PassCases DEF Agreed
    <2> QED BY <1>5, <2>2, <2>3, <2>4, <2>5, <2>6
  <1>6. CASE UNCHANGED vars
    <2>1. UNCHANGED <<cfg, auth, pc, ok, i, srv>> /\ Order' = Order /\ Imap' = Imap
      BY <1>6, SameAccount DEF vars, ctlVars
    <2> QED BY <2>1 DEF Agreed
  <1> QED BY <1>1, <1>2, <1>3, <1>4, <1>5, <1>6, FinalAgreed, LastAnswerAgreed DEF Next, Client

SidesInv == PlaceInv /\ BehindInv /\ Agreed

\* For every account and server: between two mechanisms nothing is left to
\* read, unless a helper left an exchange without reading to its end; and
\* even then what getauth takes for success is the server's, but for do_otp,
\* by its tag in IMAP and in POP3 because the answers a client that is behind
\* has yet to read hold no OK.
THEOREM SidesAlwaysAgree == Spec => []SidesAgree
  <1>1. Init => SidesInv
    BY InitPlaces DEF Init, SidesInv, BehindInv, OkInv, LagInv, RpaInv, Agreed
  <1>2. SidesInv /\ [Next]_vars => SidesInv'
    BY PlacesKept, BehindKept, AgreedKept DEF SidesInv
  <1>3. SidesInv => SidesAgree
    BY DEF SidesInv, PlaceInv, StepInv, SidesAgree, InStep
  <1> QED BY <1>1, <1>2, <1>3, PTL DEF Spec
=============================================================================
