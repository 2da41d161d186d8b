---------------------------- MODULE SocketProofs ----------------------------
(***************************************************************************)
(* Proofs about Socket: the peer of a connection that counts as secured is *)
(* the one the configuration asks for, a poll leaves nothing behind for    *)
(* the next one, and the lines read are the server's text.                 *)
(***************************************************************************)
EXTENDS Socket, SequenceTheorems, FiniteSetTheorems, WellFoundedInduction, TLAPS

-----------------------------------------------------------------------------
(* Natural numbers.                                                        *)

\* A nonempty set of natural numbers has a least element.
LEMMA LeastNatural ==
    ASSUME NEW T, T \subseteq Nat, T # {}
    PROVE  \E n \in T : \A m \in T : n <= m
  <1>1. PICK R : R = OpToRel(<, Nat)
    OBVIOUS
  <1>2. IsWellFoundedOn(R, Nat)
    BY <1>1, NatLessThanWellFounded
  <1>3. PICK n \in T : \A m \in T : ~(<<m, n>> \in R)
    BY <1>2, WFMin
  <1>4. \A a, b \in Nat : a < b => <<a, b>> \in R
    BY <1>1 DEF OpToRel
  <1>5. ASSUME NEW m \in T PROVE n <= m
    <2>1. n \in Nat /\ m \in Nat /\ ~(<<m, n>> \in R)
      BY <1>3
    <2>2. ~(m < n)
      BY <1>4, <2>1
    <2> QED BY <2>1, <2>2
  <1> QED BY <1>5

\* Induction, on a set instead of a predicate.
LEMMA SetInduction ==
    ASSUME NEW S, 0 \in S, \A n \in Nat : n \in S => n + 1 \in S
    PROVE  \A n \in Nat : n \in S
  <1> SUFFICES ASSUME NEW k \in Nat, k \notin S PROVE FALSE
    OBVIOUS
  <1>1. PICK n \in Nat \ S : \A m \in Nat \ S : n <= m
    BY LeastNatural
  <1>2. n # 0 /\ n - 1 \in Nat
    BY <1>1
  <1>3. n - 1 \in S
    BY <1>1, <1>2
  <1> QED BY <1>1, <1>2, <1>3

\* The system hands out the lowest free descriptor: it is a number, and free.
LEMMA FreshIsFree ==
    ASSUME NEW S, IsFiniteSet(S)
    PROVE  Fresh(S) \in Nat /\ Fresh(S) \notin S
  <1>1. Cardinality(S) \in Nat
    BY FS_CardinalityType
  <1>2. PICK c \in Nat : c = Cardinality(S)
    BY <1>1
  <1> DEFINE T == (0..c) \ S
  <1>3. T # {}
    <2> SUFFICES ASSUME 0..c \subseteq S PROVE FALSE
      OBVIOUS
    <2>1. Cardinality(0..c) <= Cardinality(S)
      BY FS_Subset
    <2>2. Cardinality(0..c) = c - 0 + 1
      BY FS_Interval
    <2> QED BY <1>2, <2>1, <2>2
  <1>a. T \subseteq Nat
    OBVIOUS
  <1>4. PICK n \in T : \A m \in T : n <= m
    <2> HIDE DEF T
    <2> QED BY <1>3, <1>a, LeastNatural
  <1>5. n \in 0..c /\ n \notin S /\ 0..(n - 1) \subseteq S
    BY <1>4
  <1> HIDE DEF T
  <1>6. \E k \in 0..Cardinality(S) : k \notin S /\ 0..(k - 1) \subseteq S
    BY <1>2, <1>5
  <1>7. Fresh(S) \in 0..Cardinality(S) /\ Fresh(S) \notin S
    BY <1>6 DEF Fresh
  <1> QED BY <1>1, <1>7

-----------------------------------------------------------------------------
(* Descriptors.                                                            *)

Before == {"idle", "plugin", "resolve", "address"}
During == {"exec", "sslopen", "handshake", "secured", "session", "reading", "writing"}

\* Every open descriptor has a name by which an end of the poll closes it,
\* and TLS sessions exist only for the mail server's.  In the phases before
\* a connection stands temp may name one that is closed.
FdInv ==
    /\ IsFiniteSet(open) /\ -1 \notin open /\ -1 \notin ssl
    /\ ssl \subseteq ctx /\ ssl \subseteq {sock}
    /\ \/ pc \in Before /\ sock = -1 /\ smtp = -1 /\ open \subseteq stranded
       \/ pc = "connecting" /\ sock = -1 /\ smtp = -1 /\ temp # -1
            /\ open \subseteq stranded \cup {temp}
       \/ pc \in During /\ sock # -1 /\ open \subseteq stranded \cup {sock, smtp}
       \/ pc = "unixopen" /\ sock # -1 /\ temp # -1
            /\ open \subseteq stranded \cup {sock, temp}

\* Closing, on a record of the sets.
Sane(d) == IsFiniteSet(d.open) /\ -1 \notin d.open /\ -1 \notin d.ssl /\ d.ssl \subseteq d.ctx

LEMMA ClosesOne ==
    ASSUME NEW d, NEW f, Sane(d)
    PROVE  /\ Sane(CloseIf(d, f)) /\ (f # -1 => CloseIf(d, f) = SockClose(d, f))
           /\ CloseIf(d, f).open = d.open \ {f} /\ CloseIf(d, f).ssl = d.ssl \ {f}
  <1>1. CASE f = -1
    BY <1>1 DEF CloseIf, Sane
  <1>2. CASE f # -1
    <2>1. CloseIf(d, f) = SockClose(d, f)
      BY <1>2 DEF CloseIf
    <2>2. IsFiniteSet(d.open \ {f})
      BY FS_Difference, FS_Subset DEF Sane
    <2> QED BY <2>1, <2>2 DEF SockClose, Sane
  <1> QED BY <1>1, <1>2

LEMMA ClosesAll ==
    ASSUME NEW d, Sane(d)
    PROVE  /\ Sane(CleanUp(d)) /\ CleanUp(d).open = d.open \ {smtp, sock, temp}
           /\ CleanUp(d).ssl = d.ssl \ {smtp, sock, temp}
  <1>1. PICK a : a = CloseIf(d, smtp)
    OBVIOUS
  <1>2. Sane(a) /\ a.open = d.open \ {smtp} /\ a.ssl = d.ssl \ {smtp}
    BY <1>1, ClosesOne
  <1>3. PICK b : b = CloseIf(a, sock)
    OBVIOUS
  <1>4. Sane(b) /\ b.open = a.open \ {sock} /\ b.ssl = a.ssl \ {sock}
    BY <1>2, <1>3, ClosesOne
  <1>5. PICK c : c = CloseIf(b, temp)
    OBVIOUS
  <1>6. Sane(c) /\ c.open = b.open \ {temp} /\ c.ssl = b.ssl \ {temp}
    BY <1>4, <1>5, ClosesOne
  <1>7. CleanUp(d) = c
    BY <1>1, <1>3, <1>5 DEF CleanUp
  <1> QED BY <1>2, <1>4, <1>6, <1>7

\* Whatever ends a poll in an error, all of its descriptors are closed.
LEMMA ErrorClosesAll ==
    ASSUME FdInv, NEW d, Sane(d), d.open = open, d.ssl \subseteq ssl, EndInError(d)
    PROVE  FdInv'
  <1>1. /\ pc' = "idle" /\ sock' = -1 /\ smtp' = -1 /\ stranded' = stranded
        /\ open' = CleanUp(d).open /\ ctx' = CleanUp(d).ctx /\ ssl' = CleanUp(d).ssl
    BY DEF EndInError, CloseUp, SetDescriptors
  <1>2. /\ Sane(CleanUp(d)) /\ open' = open \ {smtp, sock, temp}
        /\ ssl' = d.ssl \ {smtp, sock, temp}
    BY <1>1, ClosesAll
  <1>3. open' \subseteq stranded /\ ssl' = {}
    BY <1>2 DEF FdInv
  <1> QED BY <1>1, <1>2, <1>3 DEF FdInv, Sane, Before

LEMMA DescriptorsSane ==
    ASSUME FdInv
    PROVE  /\ Sane(Descriptors) /\ Descriptors.open = open /\ Descriptors.ssl \subseteq ssl
           /\ LET d == [Descriptors EXCEPT !.ctx = @ \ {sock}, !.ssl = @ \ {sock}]
              IN  Sane(d) /\ d.open = open /\ d.ssl \subseteq ssl
           /\ LET d == [Descriptors EXCEPT !.ctx = @ \cup {sock}, !.ssl = @ \ {sock}]
              IN  Sane(d) /\ d.open = open /\ d.ssl \subseteq ssl
  BY DEF FdInv, Sane, Descriptors

LEMMA InitFd == Init => FdInv
  <1>1. IsFiniteSet({})
    BY FS_EmptySet
  <1> QED BY <1>1 DEF Init, FdInv, Before

\* A descriptor more.
LEMMA OneMore ==
    ASSUME FdInv
    PROVE  /\ Fresh(open) \in Nat /\ IsFiniteSet(open \cup {Fresh(open)})
           /\ -1 \notin open \cup {Fresh(open)}
  <1>1. Fresh(open) \in Nat /\ IsFiniteSet(open)
    BY FreshIsFree DEF FdInv
  <1>2. IsFiniteSet(open \cup {Fresh(open)})
    BY <1>1, FS_AddElement
  <1> QED BY <1>1, <1>2 DEF FdInv

LEMMA PluginKeepsFd ==
    ASSUME FdInv, NEW r \in {"ok", "nopair", "nofork"}, Plugin(r)
    PROVE  FdInv'
  <1>1. PICK p : p = Fresh(open)
    OBVIOUS
  <1>2. PICK q : q = Fresh(open \cup {p})
    OBVIOUS
  <1>3. p \in Nat /\ IsFiniteSet(open \cup {p})
    BY <1>1, OneMore
  <1>4. q \in Nat
    BY <1>2, <1>3, FreshIsFree
  <1>5. IsFiniteSet(open \cup {q}) /\ IsFiniteSet(open \cup {p, q})
    <2>1. IsFiniteSet(open \cup {q}) /\ IsFiniteSet((open \cup {p}) \cup {q})
      BY <1>3, FS_AddElement DEF FdInv
    <2>2. (open \cup {p}) \cup {q} = open \cup {p, q}
      OBVIOUS
    <2> QED BY <2>1, <2>2
  <1>6. pc = "plugin" /\ open \subseteq stranded /\ sock = -1 /\ smtp = -1 /\ ssl = {}
    BY DEF Plugin, FdInv, Before, During
  <1>7. CASE r = "ok"
    <2>1. open' = open \cup {q} /\ sock' = q /\ pc' = "exec"
      BY <1>1, <1>2, <1>7 DEF Plugin
    <2>2. UNCHANGED <<ctx, ssl, smtp, stranded>>
      BY <1>7 DEF Plugin
    <2> QED BY <1>4, <1>5, <1>6, <2>1, <2>2 DEF FdInv, During
  <1>8. CASE r = "nopair"
    <2>1. UNCHANGED <<open, ctx, ssl, stranded>> /\ sock' = -1 /\ smtp' = -1 /\ pc' = "idle"
      BY <1>8 DEF Plugin, CloseUp
    <2> QED BY <1>6, <2>1 DEF FdInv, Before
  <1>9. CASE r = "nofork"
    <2>1. open' = open \cup {p, q} /\ stranded' = stranded \cup {p, q}
      BY <1>1, <1>2, <1>9 DEF Plugin
    <2>2. UNCHANGED <<ctx, ssl>> /\ sock' = -1 /\ smtp' = -1 /\ pc' = "idle"
      BY <1>9 DEF Plugin, CloseUp
    <2> QED BY <1>3, <1>4, <1>5, <1>6, <2>1, <2>2 DEF FdInv, Before
  <1> QED BY <1>7, <1>8, <1>9

LEMMA CloseKeepsFd == ASSUME FdInv, Close PROVE FdInv'
  <1>1. PICK a : a = CloseIf(Descriptors, smtp)
    OBVIOUS
  <1>2. Sane(a) /\ a.open = open \ {smtp} /\ a.ssl = ssl \ {smtp}
    BY <1>1, DescriptorsSane, ClosesOne DEF Descriptors
  <1>3. pc = "session" /\ sock # -1 /\ open \subseteq stranded \cup {sock, smtp}
    BY DEF Close, FdInv, Before, During
  <1>4. PICK b : b = SockClose(a, sock)
    OBVIOUS
  <1>5. Sane(b) /\ b.open = a.open \ {sock} /\ b.ssl = a.ssl \ {sock}
    BY <1>2, <1>3, <1>4, ClosesOne
  <1>6. /\ open' = b.open /\ ssl' = b.ssl /\ ctx' = b.ctx /\ stranded' = stranded
        /\ pc' = "idle" /\ sock' = -1 /\ smtp' = -1
    BY <1>1, <1>4 DEF Close, SetDescriptors, CloseUp
  <1> QED BY <1>2, <1>3, <1>5, <1>6 DEF FdInv, Sane, Before

\* A failed SSLOpen ends the poll or leaves the connection without TLS.
LEMMA FailureKeepsFd ==
    ASSUME FdInv, NEW d, Sane(d), d.open = open, d.ssl \subseteq ssl,
           pc \in {"sslopen", "handshake"}, SslFails(d)
    PROVE  FdInv'
  <1>1. CASE Opportunistic(opts)
    <2>1. /\ open' = d.open /\ ctx' = d.ctx /\ ssl' = d.ssl /\ pc' = "session"
          /\ UNCHANGED <<sock, smtp, stranded>>
      BY <1>1 DEF SslFails, SetDescriptors
    <2> QED BY <2>1 DEF FdInv, Sane, Before, During
  <1>2. CASE ~Opportunistic(opts)
    BY <1>2, ErrorClosesAll DEF SslFails
  <1> QED BY <1>1, <1>2

LEMMA SslOpenKeepsFd == ASSUME FdInv, NEW r \in SslSetups, SSLOpen(r) PROVE FdInv'
  <1>1. CASE ~InRange(sock)
    BY <1>1, DescriptorsSane, FailureKeepsFd DEF SSLOpen
  <1>2. CASE InRange(sock) /\ r \in {"noctx", "nossl"}
    <2>1. PICK d : d = [Descriptors EXCEPT !.ctx = @ \ {sock}, !.ssl = @ \ {sock}]
      OBVIOUS
    <2>2. SslFails(d) /\ pc = "sslopen"
      BY <1>2, <2>1 DEF SSLOpen
    <2>3. Sane(d) /\ d.open = open /\ d.ssl \subseteq ssl
      BY <2>1, DescriptorsSane
    <2> QED BY <2>2, <2>3, FailureKeepsFd
  <1>3. CASE InRange(sock) /\ r = "nossl3"
    <2>1. PICK d : d = [Descriptors EXCEPT !.ctx = @ \cup {sock}, !.ssl = @ \ {sock}]
      OBVIOUS
    <2>2. SslFails(d) /\ pc = "sslopen"
      BY <1>3, <2>1 DEF SSLOpen
    <2>3. Sane(d) /\ d.open = open /\ d.ssl \subseteq ssl
      BY <2>1, DescriptorsSane
    <2> QED BY <2>2, <2>3, FailureKeepsFd
  <1>4. CASE InRange(sock) /\ r = "ok"
    <2>1. /\ ctx' = ctx \cup {sock} /\ ssl' = ssl \cup {sock} /\ pc' = "handshake"
          /\ UNCHANGED <<open, sock, smtp, temp, stranded>> /\ pc = "sslopen"
      BY <1>4 DEF SSLOpen
    <2> QED BY <2>1 DEF FdInv, Before, During
  <1> QED BY <1>1, <1>2, <1>3, <1>4 DEF SslSetups

\* The ends of a handshake.
LEMMA HandshakeKeepsFd ==
    ASSUME FdInv, HandshakeFails
                  \/ (\E c \in Certs, ok \in BOOLEAN : Verify(c, ok))
                  \/ (\E v \in Versions : HandshakeDone(v))
    PROVE  FdInv'
  <1>1. PICK d : d = [Descriptors EXCEPT !.ctx = @ \ {sock}, !.ssl = @ \ {sock}]
    OBVIOUS
  <1>2. Sane(d) /\ d.open = open /\ d.ssl \subseteq ssl
    BY <1>1, DescriptorsSane
  <1>3. \/ SslFails(d) /\ pc = "handshake"
        \/ UNCHANGED <<pc, fdvars>>
        \/ /\ pc = "handshake" /\ pc' = "secured"
           /\ UNCHANGED <<open, ctx, ssl, sock, smtp, stranded>>
    <2>1. CASE HandshakeFails
      BY <1>1, <2>1 DEF HandshakeFails
    <2>2. CASE \E c \in Certs, ok \in BOOLEAN : Verify(c, ok)
      BY <1>1, <2>2, Zenon DEF Verify
    <2>3. CASE \E v \in Versions : HandshakeDone(v)
      BY <1>1, <2>3, Zenon DEF HandshakeDone
    <2> QED BY <2>1, <2>2, <2>3
  <1>4. CASE SslFails(d) /\ pc = "handshake"
    BY <1>2, <1>4, FailureKeepsFd
  <1>5. CASE UNCHANGED <<pc, fdvars>>
    BY <1>5 DEF fdvars, FdInv
  <1>6. CASE /\ pc = "handshake" /\ pc' = "secured"
             /\ UNCHANGED <<open, ctx, ssl, sock, smtp, stranded>>
    BY <1>6 DEF FdInv, Before, During
  <1> QED BY <1>3, <1>4, <1>5, <1>6

\* Opening a connection.
LEMMA OpeningKeepsFd ==
    ASSUME FdInv,
           \/ Exec \/ NoMoreAddresses \/ UnixOpen
           \/ \E b \in BOOLEAN : Resolve(b) \/ TryAddress(b) \/ Connect(b) \/ UnixConnect(b)
    PROVE  FdInv'
  <1>1. /\ Fresh(open) \in Nat /\ IsFiniteSet(open \cup {Fresh(open)})
        /\ -1 \notin open \cup {Fresh(open)}
    BY OneMore
  <1>2. IsFiniteSet(open \ {temp})
    BY FS_Subset DEF FdInv
  <1>3. CASE Exec
    BY <1>3 DEF Exec, Connected, FdInv, Before, During
  <1>4. CASE NoMoreAddresses
    BY <1>4 DEF NoMoreAddresses, CloseUp, FdInv, Before, During
  <1>5. CASE UnixOpen
    BY <1>1, <1>5 DEF UnixOpen, FdInv, Before, During
  <1>6. CASE \E b \in BOOLEAN : Resolve(b)
    BY <1>6 DEF Resolve, CloseUp, fdvars, FdInv, Before, During
  <1>7. CASE \E b \in BOOLEAN : TryAddress(b)
    BY <1>1, <1>7 DEF TryAddress, FdInv, Before, During
  <1>8. CASE \E b \in BOOLEAN : Connect(b)
    BY <1>2, <1>8 DEF Connect, Connected, Refused, FdInv, Before, During
  <1>9. CASE \E b \in BOOLEAN : UnixConnect(b)
    BY <1>2, <1>9 DEF UnixConnect, Refused, FdInv, Before, During
  <1> QED BY <1>3, <1>4, <1>5, <1>6, <1>7, <1>8, <1>9

\* Reading, writing and what else goes on during a session.
LEMMA SessionKeepsFd ==
    ASSUME FdInv, UNCHANGED fdvars,
           pc' = pc \/ (pc \in During /\ pc' \in During)
    PROVE  FdInv'
  BY DEF fdvars, FdInv, Before, During

LEMMA NextKeepsFd == ASSUME FdInv, [Next]_vars PROVE FdInv'
  <1>1. ASSUME NEW o \in Options, Begin(o) PROVE FdInv'
    BY <1>1 DEF Begin, FdInv, Before, During
  <1>2. ASSUME NEW r \in {"ok", "nopair", "nofork"}, Plugin(r) PROVE FdInv'
    BY <1>2, PluginKeepsFd
  <1>3. CASE \/ Exec \/ NoMoreAddresses \/ UnixOpen
             \/ \E b \in BOOLEAN : Resolve(b) \/ TryAddress(b) \/ Connect(b) \/ UnixConnect(b)
    BY <1>3, OpeningKeepsFd
  <1>4. CASE Timeout \/ ReadFails \/ WriteFails
    BY <1>4, DescriptorsSane, ErrorClosesAll DEF Timeout, ReadFails, WriteFails
  <1>5. CASE Close
    BY <1>5, CloseKeepsFd
  <1>6. ASSUME NEW r \in SslSetups, SSLOpen(r) PROVE FdInv'
    BY <1>6, SslOpenKeepsFd
  <1>7. CASE HandshakeFails
             \/ (\E c \in Certs, ok \in BOOLEAN : Verify(c, ok))
             \/ (\E v \in Versions : HandshakeDone(v))
    BY <1>7, HandshakeKeepsFd
  <1>8. CASE Secured \/ StartTls \/ SockRead \/ SockPrintf \/ Hangup \/ SockPeek
    BY <1>8, SessionKeepsFd
    DEF Secured, StartTls, SockRead, SockPrintf, Hangup, SockPeek, During
  <1>9. ASSUME NEW n, Arrive(n) \/ ReadSome(n) \/ PeekAtEnd(n) \/ SockWrite(n) PROVE FdInv'
    BY <1>9, SessionKeepsFd DEF Arrive, ReadSome, PeekAtEnd, SockWrite, During
  <1>10. CASE UNCHANGED vars
    BY <1>10, SessionKeepsFd DEF vars, fdvars
  <1> QED
    BY <1>1, <1>2, <1>3, <1>4, <1>5, <1>6, <1>7, <1>8, <1>9, <1>10, Zenon DEF Next

\* A poll leaves nothing to the next one, however it ends and wherever the
\* alarm interrupts it: no descriptor, but for a plugin's pair, and no TLS
\* session under a number that is handed out again.
THEOREM PollsCleanUp == Spec => []NothingLeft
  <1>1. FdInv /\ [Next]_vars => FdInv'
    BY NextKeepsFd
  <1>2. FdInv => NothingLeft
    BY DEF FdInv, NothingLeft, NoLeak, NoStaleTls, Before, During
  <1> QED BY InitFd, <1>1, <1>2, PTL DEF Spec

-----------------------------------------------------------------------------
(* The peer.                                                               *)

LEMMA ReversedTail ==
    ASSUME NEW s \in Seq(STRING), NEW t \in Seq(STRING), Len(s) <= Len(t), IsSuffix(s, t),
           NEW i \in 1..Len(s)
    PROVE  s[i] = t[Len(t) - Len(s) + i]
  <1>1. PICK m \in Nat, n \in Nat : m = Len(s) /\ n = Len(t)
    OBVIOUS
  <1>2. PICK a, b : /\ a = [j \in 1..m |-> s[(m - j) + 1]]
                    /\ b = [j \in 1..n |-> t[(n - j) + 1]]
    OBVIOUS
  <1>3. a \in Seq(STRING) /\ b \in Seq(STRING) /\ Len(a) = m /\ Len(b) = n
    BY <1>1, <1>2
  <1>4. SubSeq(a, 1, m) = SubSeq(b, 1, m)
    BY <1>1, <1>2, <1>3 DEF IsSuffix, IsPrefix, Reverse
  <1>5. PICK j \in 1..m : j = m - i + 1
    <2>1. m - i + 1 \in 1..m
      BY <1>1
    <2> QED BY <2>1
  <1>6. SubSeq(a, 1, m)[j] = a[j] /\ SubSeq(b, 1, m)[j] = b[j]
    BY <1>1, <1>3, <1>5, SubSeqProperties
  <1>7. a[j] = s[i] /\ b[j] = t[n - m + i]
    BY <1>1, <1>2, <1>5
  <1> QED BY <1>1, <1>4, <1>6, <1>7

\* What name_match lets pass is a name or a wildcard that covers the name.
LEMMA MatchCovers ==
    ASSUME NEW pattern \in Seq(STRING), NEW name \in Seq(STRING), NameMatch(pattern, name)
    PROVE  Covers(pattern, name)
  <1>1. CASE pattern = name
    BY <1>1 DEF Covers
  <1>2. CASE pattern # name
    <2>1. /\ pattern # <<>> /\ pattern[1] = "*" /\ Len(Tail(pattern)) >= 2
          /\ Len(name) >= Len(pattern) /\ IsSuffix(Tail(pattern), name)
          /\ ~(Range(name) \subseteq Numeric) /\ Len(pattern) > 1
      BY <1>2 DEF NameMatch
    <2>2. PICK s \in Seq(STRING) : s = Tail(pattern)
      <3>1. Tail(pattern) \in Seq(STRING)
        BY <2>1, HeadTailProperties
      <3> QED BY <3>1
    <2>3. Len(s) = Len(pattern) - 1 /\ \A i \in 1..Len(s) : s[i] = pattern[i + 1]
      BY <2>1, <2>2, HeadTailProperties
    <2>4. PICK k \in 1..Len(name) : k = Len(name) - Len(s)
      <3>1. Len(name) - Len(s) \in 1..Len(name)
        BY <2>1, <2>2, <2>3
      <3> QED BY <3>1
    <2>5. \A i \in 1..Len(s) : s[i] = name[k + i]
      <3>1. IsSuffix(s, name) /\ Len(s) <= Len(name)
        BY <2>1, <2>2, <2>3
      <3>2. ASSUME NEW i \in 1..Len(s) PROVE s[i] = name[Len(name) - Len(s) + i]
        BY <3>1, ReversedTail
      <3> QED BY <2>4, <3>2
    <2>6. SubSeq(name, k + 1, Len(name)) = SubSeq(pattern, 2, Len(pattern))
      <3>1. /\ SubSeq(name, k + 1, Len(name)) \in Seq(STRING)
            /\ Len(SubSeq(name, k + 1, Len(name))) = Len(s)
            /\ \A i \in 1..Len(s) : SubSeq(name, k + 1, Len(name))[i] = name[k + i]
        BY <2>3, <2>4
      <3>2. /\ SubSeq(pattern, 2, Len(pattern)) \in Seq(STRING)
            /\ Len(SubSeq(pattern, 2, Len(pattern))) = Len(s)
            /\ \A i \in 1..Len(s) : SubSeq(pattern, 2, Len(pattern))[i] = pattern[i + 1]
        BY <2>1, <2>3
      <3>3. \A i \in 1..Len(s) : name[k + i] = pattern[i + 1]
        BY <2>3, <2>5
      <3>4. PICK a, b : a = SubSeq(name, k + 1, Len(name)) /\ b = SubSeq(pattern, 2, Len(pattern))
        OBVIOUS
      <3>5. a \in Seq(STRING) /\ b \in Seq(STRING) /\ Len(a) = Len(b)
        BY <3>1, <3>2, <3>4
      <3>6. \A i \in 1..Len(a) : a[i] = b[i]
        BY <3>1, <3>2, <3>3, <3>4
      <3>7. a = b
        BY <3>5, <3>6, SeqEqual
      <3> QED BY <3>4, <3>7
    <2>7. \E i \in DOMAIN name : name[i] \notin Numeric
      BY <2>1 DEF Range
    <2>8. Len(pattern) >= 3
      BY <2>1, <2>2, <2>3
    <2> QED BY <2>1, <2>4, <2>6, <2>7, <2>8 DEF Covers
  <1> QED BY <1>1, <1>2

\* So the certificate of a peer that matched names the server.
Names(cert, cname) ==
    \/ Covers(cert.name, cname)
    \/ \E i \in DOMAIN cert.sans : Covers(cert.sans[i].name, cname)

LEMMA MatchedNames ==
    ASSUME NEW cert \in Certs, NEW cname \in Seq(STRING), Matched(cert, cname)
    PROVE  Names(cert, cname)
  BY MatchCovers, CertsAssumption DEF Matched, Names

\* The versions the library is told to use are those of sslproto.
LEMMA VersionsAsAsked ==
    ASSUME NEW p \in Protocols, NEW v \in MinVersion(p)..MaxVersion(p)
    PROVE  v \in WantedVersions[p]
  BY DEF Protocols, MinVersion, MaxVersion, WantedVersions

Flags == BOOLEAN
CertSlot == {<<>>} \cup {<<c>> : c \in Certs}
TlsType ==
    [depth : Int, errors : Int, cert : CertSlot, chain : Flags, asked : Flags,
     depth0ck : Flags, check_fp : {-1, 0, 1}, verify_ok : Flags, version : Int]

FingerprintSeen(t, o) ==
    t.cert # <<>> /\ (o.fingerprint # 0 => t.cert[1].digest = o.fingerprint)
NameSeen(t, o) ==
    t.cert # <<>> /\ (o.certck => t.chain /\ Matched(t.cert[1], o.cname))

\* What the callback's statics say in the middle of a handshake: the peer's
\* own certificate was looked at if depth0ck is set, its fingerprint too, and
\* its name by the time the chain is walked to its end.
ChainInv(t, o) ==
    /\ t \in TlsType /\ t.check_fp # 0
    /\ t.depth0ck <=> t.check_fp = -1
    /\ t.depth0ck => t.asked /\ t.depth <= 0 /\ FingerprintSeen(t, o)
    /\ t.depth < 0 => t.depth0ck /\ NameSeen(t, o)
    /\ o.certck => t.chain

PeerInv ==
    /\ pc # "idle" => opts \in Options
    /\ pc = "handshake" => ChainInv(tls, opts)
    /\ CheckedPeer

\* A call back that lets the handshake go on.
LEMMA CallbackKeeps ==
    ASSUME NEW t, NEW o \in Options, ChainInv(t, o), t.depth >= 0,
           NEW cert \in Certs, t.cert # <<>> => cert = t.cert[1], NEW ok \in BOOLEAN,
           NEW v, v = SSLVerifyCallback(ok, [t EXCEPT !.cert = <<cert>>], o.certck, o), v.ret
    PROVE  ChainInv(NextInChain(v.t, ok), o)
  <1>1. PICK u : u = [t EXCEPT !.cert = <<cert>>]
    OBVIOUS
  <1>2. t \in TlsType /\ t.check_fp # 0 /\ o.certck \in BOOLEAN
    BY OptionsAssumption DEF ChainInv
  <1>3. /\ u \in TlsType /\ u.depth = t.depth /\ u.check_fp = t.check_fp /\ u.cert = <<cert>>
        /\ u.depth0ck = t.depth0ck /\ u.chain = t.chain /\ u.asked = t.asked /\ u.cert[1] = cert
    BY <1>1, <1>2 DEF TlsType, Flags, CertSlot
  <1>4. PICK peer : peer = IF u.depth = 0 THEN PeerName(ok, u.cert[1], o.certck, o.cname)
                           ELSE [refuse |-> FALSE, ok |-> ok]
    OBVIOUS
  <1>5. PICK reached : reached = (u.depth = 0 /\ ~BadCN(u.cert[1]))
    OBVIOUS
  <1>6. /\ ~BadCN(cert) /\ ~peer.refuse /\ (peer.ok \/ ~o.certck)
        /\ ~(u.depth = 0 /\ u.check_fp = 1 /\ Fingerprint(cert, o))
        /\ v.t = [u EXCEPT !.depth0ck = @ \/ reached,
                           !.check_fp = IF reached /\ ~peer.refuse THEN -1 ELSE @,
                           !.verify_ok = @ /\ peer.ok]
    BY <1>1, <1>3, <1>4, <1>5 DEF SSLVerifyCallback
  <1>7. reached <=> t.depth = 0
    BY <1>3, <1>5, <1>6
  <1>8. PICK known \in Flags, good \in Flags, fp \in {-1, 1} :
          /\ known = (u.depth0ck \/ reached) /\ good = (u.verify_ok /\ peer.ok)
          /\ fp = IF reached /\ ~peer.refuse THEN -1 ELSE u.check_fp
    <2>1. (u.depth0ck \/ reached) \in Flags /\ (u.verify_ok /\ peer.ok) \in Flags
      BY Zenon DEF Flags
    <2>2. (IF reached /\ ~peer.refuse THEN -1 ELSE u.check_fp) \in {-1, 1}
      BY <1>2, <1>3 DEF TlsType, Flags, CertSlot
    <2> QED BY <2>1, <2>2, Zenon
  <1>9. v.t = [u EXCEPT !.depth0ck = known, !.check_fp = fp, !.verify_ok = good]
    BY <1>6, <1>8, Zenon
  <1>10. PICK x : x = v.t
    OBVIOUS
  <1>11. /\ x \in TlsType /\ x.depth = t.depth /\ x.cert = <<cert>> /\ x.chain = t.chain
         /\ x.check_fp = fp /\ x.depth0ck = known
    <2>1. fp \in {-1, 0, 1}
      OBVIOUS
    <2>2. x = [u EXCEPT !.depth0ck = known, !.check_fp = fp, !.verify_ok = good]
      BY <1>9, <1>10, Zenon
    <2>3. /\ x \in TlsType /\ x.depth = u.depth /\ x.cert = u.cert /\ x.chain = u.chain
          /\ x.check_fp = fp /\ x.depth0ck = known
      BY <1>3, <2>1, <2>2 DEF TlsType
    <2> QED BY <1>3, <2>3, Zenon
  <1>12. /\ known <=> fp = -1
         /\ known <=> (t.depth0ck \/ t.depth = 0)
    BY <1>3, <1>6, <1>7, <1>8 DEF ChainInv
  <1>13. t.depth0ck => t.depth = 0
    BY <1>2 DEF ChainInv, TlsType, Flags, CertSlot
  <1>14. t.depth = 0 => (o.fingerprint # 0 => cert.digest = o.fingerprint)
    <2> SUFFICES ASSUME t.depth = 0, o.fingerprint # 0 PROVE cert.digest = o.fingerprint
      OBVIOUS
    <2>1. CASE t.check_fp = 1
      BY <1>3, <1>6, <2>1 DEF Fingerprint
    <2>2. CASE t.check_fp = -1
      BY <2>2 DEF ChainInv, FingerprintSeen
    <2> QED BY <1>2, <2>1, <2>2 DEF TlsType, Flags, CertSlot
  <1>15. o.certck => ok /\ t.chain
    BY <1>4, <1>6 DEF PeerName, ChainInv
  <1>16. o.certck /\ t.depth = 0 => Matched(cert, o.cname)
    BY <1>3, <1>4, <1>6, <1>15 DEF PeerName
  <1>17. CASE ok
    <2>1. PICK w : w = NextInChain(x, ok)
      OBVIOUS
    <2>2. PICK c \in {<<>>, <<cert>>} : c = IF x.depth = 0 THEN x.cert ELSE <<>>
      BY <1>11
    <2>3. w = [x EXCEPT !.depth = x.depth - 1, !.cert = c, !.asked = TRUE]
      BY <1>17, <2>1, <2>2, Zenon DEF NextInChain
    <2>4. /\ w \in TlsType /\ w.depth = t.depth - 1 /\ w.cert = c /\ w.asked
          /\ w.chain = t.chain /\ w.check_fp = fp /\ w.depth0ck = known
      <3>1. x.depth - 1 \in Int /\ c \in CertSlot
        BY <1>11, <2>2 DEF TlsType, CertSlot
      <3>2. TRUE \in Flags
        BY Zenon DEF Flags
      <3>3. PICK yes \in Flags : yes = TRUE
        BY <3>2, Zenon
      <3>4. w = [x EXCEPT !.depth = x.depth - 1, !.cert = c, !.asked = yes]
        BY <2>3, <3>3, Zenon
      <3>5. /\ w \in TlsType /\ w.depth = x.depth - 1 /\ w.cert = c /\ w.asked = yes
            /\ w.chain = x.chain /\ w.check_fp = x.check_fp /\ w.depth0ck = x.depth0ck
        BY <1>11, <3>1, <3>4 DEF TlsType
      <3> QED BY <1>11, <3>3, <3>5, Zenon
    <2>5. t.depth = 0 => c = <<cert>>
      BY <1>11, <2>2
    <2>6. <<cert>> # <<>> /\ <<cert>>[1] = cert
      OBVIOUS
    <2>7. t.depth \in Nat
      BY <1>2 DEF TlsType, Flags, CertSlot
    <2>8. w.depth < 0 => t.depth = 0
      BY <2>4, <2>7
    <2>9. t.depth = 0 => FingerprintSeen(w, o) /\ NameSeen(w, o)
      <3> SUFFICES ASSUME t.depth = 0 PROVE FingerprintSeen(w, o) /\ NameSeen(w, o)
        OBVIOUS
      <3>1. w.cert # <<>> /\ w.cert[1] = cert
        BY <2>4, <2>5, <2>6
      <3> QED BY <1>14, <1>15, <1>16, <2>4, <3>1, Zenon DEF FingerprintSeen, NameSeen
    <2> QED
      BY <1>8, <1>10, <1>12, <1>13, <1>15, <2>1, <2>4, <2>7, <2>8, <2>9 DEF ChainInv
  <1>18. CASE ~ok
    <2>1. PICK w : w = NextInChain(x, ok)
      OBVIOUS
    <2>2. w = [x EXCEPT !.errors = x.errors + 1, !.chain = FALSE, !.asked = TRUE]
      BY <1>18, <2>1, Zenon DEF NextInChain
    <2>3. /\ w \in TlsType /\ w.depth = t.depth /\ w.cert = <<cert>> /\ w.asked
          /\ w.check_fp = fp /\ w.depth0ck = known
      <3>1. x.errors + 1 \in Int
        BY <1>11 DEF TlsType
      <3>2. TRUE \in Flags /\ FALSE \in Flags
        BY Zenon DEF Flags
      <3>3. PICK yes \in Flags, no \in Flags : yes = TRUE /\ no = FALSE
        BY <3>2, Zenon
      <3>4. w = [x EXCEPT !.errors = x.errors + 1, !.chain = no, !.asked = yes]
        BY <2>2, <3>3, Zenon
      <3>5. /\ w \in TlsType /\ w.depth = x.depth /\ w.cert = x.cert /\ w.asked = yes
            /\ w.check_fp = x.check_fp /\ w.depth0ck = x.depth0ck
        BY <1>11, <3>1, <3>4 DEF TlsType
      <3> QED BY <1>11, <3>3, <3>5, Zenon
    <2>4. <<cert>> # <<>> /\ <<cert>>[1] = cert
      OBVIOUS
    <2>5. ~o.certck /\ t.depth \in Nat
      BY <1>2, <1>15, <1>18 DEF TlsType, Flags, CertSlot
    <2>6. t.depth = 0 => FingerprintSeen(w, o)
      BY <1>14, <2>3, <2>4 DEF FingerprintSeen
    <2> QED
      BY <1>8, <1>10, <1>12, <1>13, <2>1, <2>3, <2>5, <2>6 DEF ChainInv
  <1> QED BY <1>17, <1>18

\* The other steps end in neither of the two states.
LEMMA ElsewhereKeepsPeer ==
    ASSUME PeerInv, pc' \notin {"handshake", "secured"},
           pc' # "idle" => opts' \in Options
    PROVE  PeerInv'
  BY DEF PeerInv, CheckedPeer

\* A failed SSLOpen leaves nothing that counts as secured.
LEMMA FailureKeepsPeer ==
    ASSUME PeerInv, pc # "idle", NEW d, SslFails(d)
    PROVE  PeerInv'
  <1>1. pc' = "idle" \/ (pc' = "session" /\ opts' = opts)
    BY DEF SslFails, EndInError, CloseUp
  <1> QED BY <1>1, ElsewhereKeepsPeer DEF PeerInv

\* The handshake is over: the statics say what is needed, or SSLOpen fails.
LEMMA DoneIsChecked ==
    ASSUME PeerInv, NEW v \in Versions, HandshakeDone(v)
    PROVE  PeerInv'
  <1>1. CASE Skipped(tls, opts)
    BY <1>1, FailureKeepsPeer DEF HandshakeDone
  <1>2. CASE ~Skipped(tls, opts)
    <2>1. /\ pc = "handshake" /\ pc' = "secured" /\ tls' = [tls EXCEPT !.version = v]
          /\ opts' = opts /\ (tls.depth = -1 \/ ~tls.asked)
          /\ v \in MinVersion(opts.sslproto)..MaxVersion(opts.sslproto)
      BY <1>2 DEF HandshakeDone
    <2>2. ChainInv(tls, opts) /\ opts \in Options /\ tls \in TlsType
      BY <2>1 DEF PeerInv, ChainInv
    <2>3. tls'.chain = tls.chain /\ tls'.cert = tls.cert /\ tls'.version = v
      BY <2>1, <2>2 DEF TlsType, Flags, CertSlot
    <2>4. v \in WantedVersions[opts.sslproto]
      BY <2>1, <2>2, OptionsAssumption, VersionsAsAsked
    <2>5. tls.depth0ck \/ (opts.fingerprint = 0 /\ ~opts.certck)
      BY <1>2 DEF Skipped
    <2>6. tls.depth0ck => tls.depth = -1
      BY <2>1, <2>2 DEF ChainInv
    <2>7. opts.certck => /\ tls.chain /\ tls.cert # <<>>
                         /\ Names(tls.cert[1], opts.cname)
      <3> SUFFICES ASSUME opts.certck
                   PROVE  tls.chain /\ tls.cert # <<>> /\ Names(tls.cert[1], opts.cname)
        OBVIOUS
      <3>1. tls.chain /\ tls.cert # <<>> /\ Matched(tls.cert[1], opts.cname)
        BY <2>2, <2>5, <2>6 DEF ChainInv, NameSeen
      <3>2. tls.cert[1] \in Certs
        BY <2>2, <3>1 DEF TlsType, Flags, CertSlot
      <3> QED BY <2>2, <3>1, <3>2, MatchedNames, OptionsAssumption
    <2>8. opts.fingerprint # 0 => tls.cert # <<>> /\ tls.cert[1].digest = opts.fingerprint
      BY <2>2, <2>5 DEF ChainInv, FingerprintSeen
    <2>10. CheckedPeer'
      BY <2>1, <2>3, <2>4, <2>7, <2>8 DEF CheckedPeer, Names
    <2>11. pc' # "handshake" /\ opts' \in Options
      BY <2>1, <2>2
    <2> QED BY <2>10, <2>11 DEF PeerInv
  <1> QED BY <1>1, <1>2

LEMMA VerifyKeeps ==
    ASSUME PeerInv, NEW cert \in Certs, NEW ok \in BOOLEAN, Verify(cert, ok)
    PROVE  PeerInv'
  <1>1. PICK v : v = SSLVerifyCallback(ok, [tls EXCEPT !.cert = <<cert>>], opts.certck, opts)
    OBVIOUS
  <1>2. /\ pc = "handshake" /\ ChainInv(tls, opts) /\ opts \in Options /\ tls.depth >= 0
        /\ tls.cert # <<>> => cert = tls.cert[1]
    BY DEF Verify, PeerInv
  <1>3. CASE v.ret
    <2>1. tls' = NextInChain(v.t, ok) /\ pc' = pc /\ opts' = opts
      BY <1>1, <1>3 DEF Verify
    <2>2. ChainInv(tls', opts)
      BY <1>1, <1>2, <1>3, <2>1, CallbackKeeps
    <2> QED BY <1>2, <2>1, <2>2 DEF PeerInv, CheckedPeer
  <1>4. CASE ~v.ret
    BY <1>1, <1>4, FailureKeepsPeer DEF Verify
  <1> QED BY <1>3, <1>4

LEMMA SslOpenKeepsPeer == ASSUME PeerInv, NEW r \in SslSetups, SSLOpen(r) PROVE PeerInv'
  <1>1. CASE ~InRange(sock) \/ r # "ok"
    <2>1. pc # "idle" /\ \E d : SslFails(d)
      BY <1>1, Zenon DEF SSLOpen, SslSetups
    <2> QED BY <2>1, FailureKeepsPeer
  <1>2. CASE InRange(sock) /\ r = "ok"
    <2>1. /\ pc = "sslopen" /\ pc' = "handshake" /\ opts' = opts
          /\ tls' = [NoTls EXCEPT !.depth = Depth, !.check_fp = 1]
      BY <1>2 DEF SSLOpen
    <2>2. /\ tls' \in TlsType /\ tls'.depth = Depth /\ tls'.check_fp = 1
          /\ tls'.depth0ck = FALSE /\ tls'.chain = TRUE
      <3>1. PICK yes, no : yes = TRUE /\ no = FALSE
        BY Zenon
      <3>2. yes \in Flags /\ no \in Flags
        BY <3>1, Zenon DEF Flags
      <3>3. <<>> \in CertSlot /\ Depth \in Int
        BY SizesAssumption DEF CertSlot
      <3>4. NoTls = [depth |-> -1, errors |-> 0, cert |-> <<>>, chain |-> yes, asked |-> no,
                     depth0ck |-> no, check_fp |-> 0, verify_ok |-> yes, version |-> 0]
        BY <3>1, Zenon DEF NoTls
      <3>a. PICK z : z = NoTls
        OBVIOUS
      <3>b. z \in TlsType /\ z.depth0ck = no /\ z.chain = yes
        BY <3>2, <3>3, <3>4, <3>a DEF TlsType
      <3>5. /\ tls' \in TlsType /\ tls'.depth = Depth /\ tls'.check_fp = 1
            /\ tls'.depth0ck = no /\ tls'.chain = yes
        BY <2>1, <3>3, <3>a, <3>b DEF TlsType
      <3> QED BY <3>1, <3>5, Zenon
    <2>3. ChainInv(tls', opts)
      BY <2>2, SizesAssumption DEF ChainInv
    <2> QED BY <2>1, <2>3 DEF PeerInv, CheckedPeer
  <1> QED BY <1>1, <1>2

LEMMA NextKeepsPeer == ASSUME PeerInv, [Next]_vars PROVE PeerInv'
  <1>1. ASSUME NEW o \in Options, Begin(o) PROVE PeerInv'
    BY <1>1, ElsewhereKeepsPeer DEF Begin
  <1>2. ASSUME NEW r \in {"ok", "nopair", "nofork"}, Plugin(r) PROVE PeerInv'
    <2>1. pc = "plugin" /\ (pc' = "idle" \/ (pc' = "exec" /\ opts' = opts))
      BY <1>2, Zenon DEF Plugin, CloseUp
    <2> QED BY <2>1, ElsewhereKeepsPeer DEF PeerInv
  <1>3. CASE Exec \/ NoMoreAddresses \/ UnixOpen
    BY <1>3, ElsewhereKeepsPeer DEF Exec, NoMoreAddresses, UnixOpen, Connected, CloseUp, PeerInv
  <1>4. ASSUME NEW b \in BOOLEAN, Resolve(b) \/ TryAddress(b) \/ Connect(b) \/ UnixConnect(b)
        PROVE  PeerInv'
    BY <1>4, ElsewhereKeepsPeer
    DEF Resolve, TryAddress, Connect, UnixConnect, Connected, CloseUp, PeerInv
  <1>5. CASE Timeout \/ ReadFails \/ WriteFails \/ Close
    BY <1>5, ElsewhereKeepsPeer
    DEF Timeout, ReadFails, WriteFails, Close, EndInError, CloseUp
  <1>f. CASE HandshakeFails
    BY <1>f, FailureKeepsPeer DEF HandshakeFails
  <1>6. ASSUME NEW r \in SslSetups, SSLOpen(r) PROVE PeerInv'
    BY <1>6, SslOpenKeepsPeer
  <1>7. ASSUME NEW c \in Certs, NEW ok \in BOOLEAN, Verify(c, ok) PROVE PeerInv'
    BY <1>7, VerifyKeeps
  <1>8. ASSUME NEW v \in Versions, HandshakeDone(v) PROVE PeerInv'
    BY <1>8, DoneIsChecked
  <1>9. CASE Secured \/ StartTls \/ SockRead \/ SockPrintf \/ Hangup \/ SockPeek
    BY <1>9, ElsewhereKeepsPeer
    DEF Secured, StartTls, SockRead, SockPrintf, Hangup, SockPeek, PeerInv
  <1>10. ASSUME NEW n, Arrive(n) \/ ReadSome(n) \/ PeekAtEnd(n) \/ SockWrite(n) PROVE PeerInv'
    <2>1. pc' \in {"session", "reading", "writing"} /\ opts' = opts /\ pc # "idle"
      BY <1>10 DEF Arrive, ReadSome, PeekAtEnd, SockWrite
    <2> QED BY <2>1, ElsewhereKeepsPeer DEF PeerInv
  <1>11. CASE UNCHANGED vars
    BY <1>11 DEF vars, PeerInv, CheckedPeer
  <1> QED
    BY <1>1, <1>2, <1>3, <1>4, <1>5, <1>6, <1>f, <1>7, <1>8, <1>9, <1>10, <1>11, Zenon DEF Next

\* A connection that counts as secured has the peer the configuration asks
\* for: chain, name and fingerprint were checked on one and the same
\* certificate whatever order of calls the library makes, and the version is
\* one of those allowed.
THEOREM PeerIsChecked == Spec => []CheckedPeer
  <1>1. Init => PeerInv
    BY DEF Init, PeerInv, CheckedPeer
  <1>2. PeerInv /\ [Next]_vars => PeerInv'
    BY NextKeepsPeer
  <1>3. PeerInv => CheckedPeer
    BY DEF PeerInv
  <1> QED BY <1>1, <1>2, <1>3, PTL DEF Spec

-----------------------------------------------------------------------------
(* Flattening.  What the recursive function behind FlattenSeq computes.    *)

FlatTo(s, n, f) == f = [i \in 1..n |-> IF i = 1 THEN s[i] ELSE f[i - 1] \o s[i]]

LEMMA FlatToAt ==
    ASSUME NEW s, NEW n \in Nat, NEW f, FlatTo(s, n, f), NEW i \in 1..n
    PROVE  /\ i = 1 => f[i] = s[i]
           /\ i # 1 => f[i] = f[i - 1] \o s[i]
  <1>1. \A k \in 1..n : f[k] = IF k = 1 THEN s[k] ELSE f[k - 1] \o s[k]
    BY Zenon DEF FlatTo
  <1> QED BY <1>1

LEMMA FlatToExists ==
    ASSUME NEW s, NEW n \in Nat
    PROVE  \E f : FlatTo(s, n, f)
  <1> DEFINE S == {k \in Nat : \E f : FlatTo(s, k, f)}
  <1>1. 0 \in S
    <2>1. PICK f : f = [i \in 1..0 |-> 0]
      OBVIOUS
    <2>2. f = [i \in 1..0 |-> IF i = 1 THEN s[i] ELSE f[i - 1] \o s[i]]
      BY <2>1
    <2> QED BY <2>2 DEF FlatTo
  <1>2. ASSUME NEW k \in Nat, k \in S PROVE k + 1 \in S
    <2>1. PICK f : FlatTo(s, k, f)
      BY <1>2
    <2>2. PICK x : x = IF k = 0 THEN s[1] ELSE f[k] \o s[k + 1]
      OBVIOUS
    <2>3. PICK g : g = [i \in 1..(k + 1) |-> IF i = k + 1 THEN x ELSE f[i]]
      OBVIOUS
    <2>4. ASSUME NEW i \in 1..(k + 1)
          PROVE  g[i] = IF i = 1 THEN s[i] ELSE g[i - 1] \o s[i]
      <3>1. CASE i = k + 1 /\ i = 1
        BY <2>2, <2>3, <3>1
      <3>2. CASE i = k + 1 /\ i # 1
        <4>1. i - 1 = k /\ k # 0 /\ i - 1 \in 1..(k + 1) /\ i - 1 # k + 1
          BY <3>2
        <4>2. g[i] = x /\ g[i - 1] = f[k]
          BY <2>3, <3>2, <4>1
        <4> QED BY <2>2, <3>2, <4>1, <4>2
      <3>3. CASE i # k + 1
        <4>1. i \in 1..k /\ g[i] = f[i]
          BY <2>3, <3>3
        <4>2. \A j \in 1..k : /\ j = 1 => f[j] = s[j]
                              /\ j # 1 => f[j] = f[j - 1] \o s[j]
          BY <2>1, FlatToAt
        <4>3. i # 1 => g[i - 1] = f[i - 1]
          BY <2>3, <4>1
        <4>4. CASE i = 1
          <5>1. f[i] = s[i]
            BY <4>1, <4>2, <4>4, Zenon
          <5> QED BY <4>1, <4>4, <5>1, Zenon
        <4>5. CASE i # 1
          <5>1. f[i] = f[i - 1] \o s[i]
            BY <4>1, <4>2, <4>5
          <5>2. g[i] = g[i - 1] \o s[i]
            BY <4>1, <4>3, <4>5, <5>1, Zenon
          <5> QED BY <4>5, <5>2
        <4> QED BY <4>4, <4>5
      <3> QED BY <3>1, <3>2, <3>3
    <2>5. g = [i \in 1..(k + 1) |-> IF i = 1 THEN s[i] ELSE g[i - 1] \o s[i]]
      BY <2>3, <2>4
    <2>6. FlatTo(s, k + 1, g)
      BY <2>5, Zenon DEF FlatTo
    <2> QED BY <2>6
  <1> HIDE DEF S
  <1>3. n \in S
    BY <1>1, <1>2, SetInduction
  <1> QED BY <1>3 DEF S

Agree(s, t, n) == \A i \in 1..n : s[i] = t[i]

\* Two such functions agree as far as the sequences do.
LEMMA FlatToAgree ==
    ASSUME NEW s, NEW t, NEW n \in Nat, NEW m \in Nat, n <= m,
           Agree(s, t, n), NEW f, FlatTo(s, n, f), NEW g, FlatTo(t, m, g)
    PROVE  Agree(f, g, n)
  <1> DEFINE S == {j \in Nat : j \in 1..n => f[j] = g[j]}
  <1>1. 0 \in S
    OBVIOUS
  <1>2. ASSUME NEW j \in Nat, j \in S PROVE j + 1 \in S
    <2> SUFFICES ASSUME j + 1 \in 1..n PROVE f[j + 1] = g[j + 1]
      OBVIOUS
    <2>1. PICK i \in 1..n : i = j + 1
      OBVIOUS
    <2>2. i \in 1..m /\ s[i] = t[i]
      BY <2>1 DEF Agree
    <2>3. /\ i = 1 => f[i] = s[i] /\ g[i] = t[i]
          /\ i # 1 => f[i] = f[i - 1] \o s[i] /\ g[i] = g[i - 1] \o t[i]
      <3>1. /\ i = 1 => f[i] = s[i]
            /\ i # 1 => f[i] = f[i - 1] \o s[i]
        BY FlatToAt
      <3>2. /\ i = 1 => g[i] = t[i]
            /\ i # 1 => g[i] = g[i - 1] \o t[i]
        BY <2>2, FlatToAt
      <3> QED BY <3>1, <3>2
    <2>4. i # 1 => f[i - 1] = g[i - 1]
      BY <1>2, <2>1
    <2>5. CASE i = 1
      BY <2>1, <2>2, <2>3, <2>5
    <2>6. CASE i # 1
      <3>1. f[i] = f[i - 1] \o s[i] /\ g[i] = g[i - 1] \o t[i]
        BY <2>3, <2>6
      <3> QED BY <2>1, <2>2, <2>4, <2>6, <3>1, Zenon
    <2> QED BY <2>5, <2>6
  <1> HIDE DEF S
  <1>3. \A k \in Nat : k \in S
    BY <1>1, <1>2, SetInduction
  <1> QED BY <1>3 DEF S, Agree

LEMMA FlattenUnfolds ==
    ASSUME NEW s, Len(s) \in Nat, Len(s) # 0
    PROVE  \E f : FlatTo(s, Len(s), f) /\ FlattenSeq(s) = f[Len(s)]
  <1>1. FlattenSeq(s) = (CHOOSE f : FlatTo(s, Len(s), f))[Len(s)]
    BY Zenon DEF FlattenSeq, FlatTo
  <1>2. \E f : FlatTo(s, Len(s), f)
    BY FlatToExists
  <1>3. FlatTo(s, Len(s), CHOOSE f : FlatTo(s, Len(s), f))
    BY <1>2, Zenon
  <1> QED BY <1>1, <1>3, Zenon

\* A line more at the end.
LEMMA FlattenAppend ==
    ASSUME NEW C, NEW s \in Seq(Seq(C)), NEW b \in Seq(C), FlattenSeq(s) \in Seq(C)
    PROVE  FlattenSeq(Append(s, b)) = FlattenSeq(s) \o b
  <1>a. PICK t : t = Append(s, b)
    OBVIOUS
  <1>b. Len(s) \in Nat
    BY LenProperties
  <1>c. PICK n \in Nat : n = Len(s)
    BY <1>b
  <1>1. t = Append(s, b) /\ n = Len(s)
    BY <1>a, <1>c
  <1>2. /\ t \in Seq(Seq(C)) /\ Len(t) = n + 1 /\ t[n + 1] = b
        /\ \A i \in 1..n : t[i] = s[i]
    BY <1>1, AppendProperties
  <1>3. PICK g : FlatTo(t, n + 1, g) /\ FlattenSeq(t) = g[n + 1]
    <2>1. Len(t) \in Nat /\ Len(t) # 0
      BY <1>2
    <2> QED BY <1>2, <2>1, FlattenUnfolds
  <1>4. n + 1 \in Nat /\ n + 1 \in 1..(n + 1)
    OBVIOUS
  <1>5. CASE n = 0
    <2>1. FlattenSeq(t) = b
      <3>1. PICK m \in Nat : m = n + 1
        BY <1>4
      <3>2. FlatTo(t, m, g) /\ m \in 1..m /\ m = 1
        BY <1>3, <1>5, <3>1
      <3>3. \A i \in 1..m : i = 1 => g[i] = t[i]
        BY ONLY <3>2, m \in Nat, FlatToAt
      <3>4. g[m] = t[m]
        BY <3>2, <3>3
      <3> QED BY <1>2, <1>3, <3>1, <3>4
    <2>2. s = <<>>
      BY <1>1, <1>5, EmptySeq
    <2>4. FlattenSeq(s) = s
      BY <2>2, EmptySeq DEF FlattenSeq
    <2>3. <<>> \o b = b
      BY ConcatEmptySeq
    <2> QED BY <1>1, <2>1, <2>2, <2>3, <2>4
  <1>6. CASE n # 0
    <2>1. PICK f : FlatTo(s, n, f) /\ FlattenSeq(s) = f[n]
      BY <1>1, <1>6, FlattenUnfolds
    <2>2. f[n] = g[n]
      <3>0. PICK m \in Nat : m = n + 1
        BY <1>4
      <3>1. n \in 1..n /\ n <= m
        BY <1>6, <3>0
      <3>2. Agree(s, t, n)
        BY <1>2 DEF Agree
      <3>3. FlatTo(t, m, g)
        BY <1>3, <3>0
      <3>4. FlatTo(s, n, f)
        BY <2>1
      <3>5. Agree(f, g, n)
        BY ONLY <3>4, <3>1, <3>2, <3>3, m \in Nat, n \in Nat, FlatToAgree
      <3> QED BY <3>1, <3>5 DEF Agree
    <2>3. g[n + 1] = g[n] \o b
      <3>1. n + 1 # 1 /\ (n + 1) - 1 = n
        BY <1>6
      <3>2. g[n + 1] = g[(n + 1) - 1] \o t[n + 1]
        BY <1>3, <1>4, <3>1, FlatToAt
      <3> QED BY <1>2, <3>1, <3>2
    <2> QED BY <1>1, <1>3, <2>1, <2>2, <2>3
  <1> QED BY <1>5, <1>6

-----------------------------------------------------------------------------
(* The server's text.                                                      *)

\* A line as SockRead returns it.
Whole(l) ==
    /\ \A k \in 1..(Len(l) - 1) : l[k] # "\n"
    /\ Last(l) = "\n" \/ Len(l) = BufLen - 1

\* The lines ls are returned, b is read, a has arrived and r is to come.
\* After a hangup (e) some rest of the text is lost.
Cut(ls, b, a, r, e) ==
    \E t \in Seq(STRING) :
       FlattenSeq(ls) \o b \o a \o t = Text /\ (e => r = <<>>) /\ (~e => t = r)

\* What SockPeek saw starts what is still to be returned, if there is any.
Promised(p, q, e) == p = <<>> \/ (q # <<>> /\ p[1] = q[1]) \/ (e /\ q = <<>>)

Stream(ls, b, a, r, e, p) ==
    /\ ls \in Seq(Seq(STRING)) /\ FlattenSeq(ls) \in Seq(STRING)
    /\ b \in Seq(STRING) /\ a \in Seq(STRING) /\ r \in Seq(STRING)
    /\ \A i \in DOMAIN ls : Whole(ls[i])
    /\ Len(b) < BufLen - 1 /\ \A i \in 1..Len(b) : b[i] # "\n"
    /\ Cut(ls, b, a, r, e)
    /\ Promised(p, b \o a, e)

Early == {"idle", "plugin", "exec", "resolve", "address", "connecting"}

\* Before a connection stands there is no text; later the text is where it
\* belongs, and only a read in progress has read a part of a line.
TextInv ==
    IF pc \in Early
    THEN avail = <<>> /\ buf = <<>> /\ lines = <<>> /\ peeked = <<>> /\ eof = FALSE
    ELSE Stream(lines, buf, avail, rest, eof, peeked) /\ (pc # "reading" => buf = <<>>)

\* What is read of the characters peeked at: a part of them, with no newline
\* but at its end.
LEMMA UpToFirst ==
    ASSUME NEW s \in Seq(STRING), s # <<>>
    PROVE  \E g \in 1..Len(s) :
             /\ UpToNewline(s) = SubSeq(s, 1, g)
             /\ \A k \in 1..(g - 1) : s[k] # "\n"
  <1>1. Len(s) \in Nat /\ Len(s) # 0
    BY EmptySeq, LenProperties
  <1>2. PICK m \in Nat : m = Len(s) /\ m # 0
    BY <1>1
  <1>3. PICK T : T = {i \in 1..Len(s) : s[i] = "\n"}
    OBVIOUS
  <1>4. UpToNewline(s) = IF (IF T # {} THEN Min(T) ELSE 0) = 0 THEN s
                         ELSE SubSeq(s, 1, IF T # {} THEN Min(T) ELSE 0)
    BY <1>3, Zenon DEF UpToNewline, SelectInSeq
  <1>5. CASE T = {}
    <2>1. UpToNewline(s) = s
      BY <1>4, <1>5
    <2>2. s = SubSeq(s, 1, m)
      BY <1>2, SubSeqFull
    <2>3. m \in 1..Len(s) /\ \A k \in 1..(m - 1) : s[k] # "\n"
      BY <1>2, <1>3, <1>5
    <2> QED BY <2>1, <2>2, <2>3
  <1>6. CASE T # {}
    <2>1. T \subseteq Nat
      BY <1>2, <1>3
    <2>2. \E x \in T : \A y \in T : x =< y
      BY <1>6, <2>1, LeastNatural
    <2>3. PICK g : g = Min(T)
      OBVIOUS
    <2>4. g \in T /\ \A y \in T : g =< y
      BY <2>2, <2>3 DEF Min
    <2>5. g \in 1..m /\ g # 0
      BY <1>2, <1>3, <2>4
    <2>6. UpToNewline(s) = SubSeq(s, 1, g)
      BY <1>4, <1>6, <2>3, <2>5
    <2>7. ASSUME NEW k \in 1..(g - 1) PROVE s[k] # "\n"
      <3>1. k \in 1..m /\ ~(g =< k)
        BY <1>2, <2>5
      <3>2. k \notin T
        BY <2>4, <3>1
      <3> QED BY <1>2, <1>3, <3>1, <3>2
    <2> QED BY <1>2, <2>5, <2>6, <2>7
  <1> QED BY <1>5, <1>6

\* The two parts of a sequence.
LEMMA Parts ==
    ASSUME NEW a \in Seq(STRING), NEW g \in 0..Len(a)
    PROVE  /\ SubSeq(a, 1, g) \in Seq(STRING) /\ Len(SubSeq(a, 1, g)) = g
           /\ \A i \in 1..g : SubSeq(a, 1, g)[i] = a[i]
           /\ SubSeq(a, g + 1, Len(a)) \in Seq(STRING)
           /\ SubSeq(a, 1, g) \o SubSeq(a, g + 1, Len(a)) = a
  <1>1. PICK n \in Nat : n = Len(a)
    BY LenProperties
  <1>2. g \in Nat /\ g <= n
    BY <1>1
  <1>3. \A i \in 1..n : a[i] \in STRING
    BY <1>1, ElementOfSeq
  <1>4. /\ SubSeq(a, 1, g) \in Seq(STRING) /\ Len(SubSeq(a, 1, g)) = g
        /\ \A i \in 1..g : SubSeq(a, 1, g)[i] = a[i]
    <2>1. \A i \in 1..g : a[i] \in STRING
      BY <1>2, <1>3
    <2> QED BY <1>2, <2>1, SubSeqProperties
  <1>5. SubSeq(a, g + 1, n) \in Seq(STRING)
    <2>1. \A i \in (g + 1)..n : a[i] \in STRING
      BY <1>2, <1>3
    <2>2. PICK h \in Int : h = g + 1
      BY <1>2
    <2> QED BY <2>1, <2>2, SubSeqProperties
  <1>6. SubSeq(a, 1, g) \o SubSeq(a, g + 1, n) = SubSeq(a, 1, n)
    <2>1. 1 \in 1..(Len(a) + 1) /\ g \in (1 - 1)..Len(a) /\ n \in g..Len(a)
      BY <1>1, <1>2
    <2> QED BY <2>1, ConcatAdjacentSubSeq
  <1>7. SubSeq(a, 1, n) = a
    BY <1>1, SubSeqFull
  <1> QED BY <1>1, <1>4, <1>5, <1>6, <1>7

Cat(u, v) == u \o v

Associative(L) ==
    /\ \A u, v \in L : Cat(u, v) \in L
    /\ \A u, v, w \in L : Cat(Cat(u, v), w) = Cat(u, Cat(v, w))

LEMMA Associates ==
    ASSUME NEW S
    PROVE  Associative(Seq(S))
  <1>1. ASSUME NEW u \in Seq(S), NEW v \in Seq(S) PROVE u \o v \in Seq(S)
    BY ConcatProperties
  <1>2. ASSUME NEW u \in Seq(S), NEW v \in Seq(S), NEW w \in Seq(S)
        PROVE  (u \o v) \o w = u \o (v \o w)
    BY ConcatAssociative
  <1> QED BY <1>1, <1>2, Zenon DEF Associative, Cat

\* Characters that move between the last three of four parts change nothing.
LEMMA Regroup ==
    ASSUME NEW L, Associative(L), NEW f \in L, NEW b \in L, NEW x \in L,
           NEW y \in L, NEW t \in L
    PROVE  /\ Cat(Cat(Cat(f, b), Cat(x, y)), t) = Cat(Cat(Cat(f, Cat(b, x)), y), t)
           /\ Cat(Cat(Cat(f, b), y), Cat(x, t)) = Cat(Cat(Cat(f, b), Cat(y, x)), t)
           /\ Cat(Cat(b, x), y) = Cat(b, Cat(x, y))
  <1>1. PICK u \in L : u = Cat(f, b)
    BY DEF Associative
  <1>2. PICK v \in L : v = Cat(u, y)
    BY <1>1 DEF Associative
  <1>3. Cat(Cat(u, x), y) = Cat(u, Cat(x, y))
    BY DEF Associative
  <1>4. Cat(Cat(f, b), x) = Cat(f, Cat(b, x))
    BY DEF Associative
  <1>5. Cat(Cat(v, x), t) = Cat(v, Cat(x, t))
    BY DEF Associative
  <1>6. Cat(Cat(u, y), x) = Cat(u, Cat(y, x))
    BY DEF Associative
  <1>7. Cat(Cat(b, x), y) = Cat(b, Cat(x, y))
    BY DEF Associative
  <1> QED BY <1>1, <1>2, <1>3, <1>4, <1>5, <1>6, <1>7

\* One turn of SockRead's loop takes g characters of what has arrived.
LEMMA TakesSome ==
    ASSUME NEW ls, NEW b, NEW a, NEW r, NEW e, NEW p, Stream(ls, b, a, r, e, p),
           NEW g \in 1..Len(a), g <= Room(b), \A k \in 1..(g - 1) : a[k] # "\n",
           NEW b2, b2 = b \o SubSeq(a, 1, g),
           NEW a2, a2 = SubSeq(a, g + 1, Len(a))
    PROVE  /\ LineDone(b2) => Stream(Append(ls, b2), <<>>, a2, r, e, <<>>)
           /\ ~LineDone(b2) => Stream(ls, b2, a2, r, e, p)
  <1>1. PICK x : x = SubSeq(a, 1, g)
    OBVIOUS
  <1>2. PICK f : f = FlattenSeq(ls)
    OBVIOUS
  <1>3. /\ f \in Seq(STRING) /\ b \in Seq(STRING) /\ a \in Seq(STRING) /\ r \in Seq(STRING)
        /\ ls \in Seq(Seq(STRING)) /\ \A i \in DOMAIN ls : Whole(ls[i])
        /\ Len(b) < BufLen - 1 /\ \A i \in 1..Len(b) : b[i] # "\n"
        /\ Cut(ls, b, a, r, e) /\ Promised(p, b \o a, e)
    BY <1>2 DEF Stream
  <1>4. Len(a) \in Nat /\ Len(b) \in Nat
    BY <1>3, LenProperties
  <1>5. /\ x \in Seq(STRING) /\ Len(x) = g /\ \A i \in 1..g : x[i] = a[i]
        /\ a2 \in Seq(STRING) /\ x \o a2 = a
    <2>1. g \in 0..Len(a)
      BY <1>4
    <2> QED BY <1>1, <1>3, <2>1, Parts
  <1>6. /\ b2 \in Seq(STRING) /\ Len(b2) = Len(b) + g
        /\ \A i \in 1..(Len(b) + g) : b2[i] = IF i <= Len(b) THEN b[i] ELSE x[i - Len(b)]
    <2>1. /\ b \o x \in Seq(STRING) /\ Len(b \o x) = Len(b) + Len(x)
          /\ \A i \in 1..(Len(b) + Len(x)) :
               (b \o x)[i] = IF i <= Len(b) THEN b[i] ELSE x[i - Len(b)]
      BY <1>3, <1>5, ConcatProperties
    <2> QED BY <1>1, <1>5, <2>1
  <1>7. \A i \in 1..(Len(b2) - 1) : b2[i] # "\n"
    <2> SUFFICES ASSUME NEW i \in 1..(Len(b2) - 1) PROVE b2[i] # "\n"
      OBVIOUS
    <2>1. CASE i <= Len(b)
      BY <1>3, <1>4, <1>6, <2>1
    <2>2. CASE ~(i <= Len(b))
      <3>1. i - Len(b) \in 1..(g - 1) /\ i - Len(b) \in 1..g /\ i \in 1..(Len(b) + g)
        BY <1>4, <1>6, <2>2
      <3> QED BY <1>5, <1>6, <2>2, <3>1
    <2> QED BY <2>1, <2>2
  <1>8. Len(b2) <= BufLen - 1 /\ Len(b2) \in Nat /\ Len(b2) # 0 /\ b2 # <<>>
    <2>1. PICK m \in Nat : m = Len(b)
      BY <1>4
    <2>2. PICK k \in Nat : k = Len(b2)
      BY <1>6, LenProperties
    <2>3. k = m + g /\ g \in Nat /\ g # 0 /\ g <= BufLen - 1 - m
      BY <1>4, <1>6, <2>1, <2>2 DEF Room
    <2>4. k <= BufLen - 1 /\ k # 0
      BY <2>3, SizesAssumption
    <2>5. b2 # <<>>
      BY <2>2, <2>4, EmptySeq
    <2> QED BY <2>2, <2>4, <2>5
  <1>9. PICK t \in Seq(STRING) :
           f \o b \o a \o t = Text /\ (e => r = <<>>) /\ (~e => t = r)
    BY <1>2, <1>3 DEF Cut
  <1>10. f \o b2 \o a2 \o t = Text
    <2>1. f \o b \o (x \o a2) \o t = f \o (b \o x) \o a2 \o t
      <3>1. PICK L : L = Seq(STRING) /\ Associative(L)
        BY Associates
      <3>2. f \in L /\ b \in L /\ x \in L /\ a2 \in L /\ t \in L
        BY <1>3, <1>5, <1>9, <3>1
      <3>3. Cat(Cat(Cat(f, b), Cat(x, a2)), t) = Cat(Cat(Cat(f, Cat(b, x)), a2), t)
        <4>1. Associative(L)
          BY <3>1
        <4> QED BY ONLY <3>2, <4>1, Regroup
      <3> QED BY <3>3, Zenon DEF Cat
    <2> QED BY <1>1, <1>5, <1>9, <2>1, Zenon
  <1>11. CASE LineDone(b2)
    <2>1. PICK l2 : l2 = Append(ls, b2)
      OBVIOUS
    <2>2. FlattenSeq(l2) = f \o b2 /\ f \o b2 \in Seq(STRING)
      BY <1>2, <1>3, <1>6, <2>1, FlattenAppend, ConcatProperties
    <2>3. Whole(b2)
      BY <1>6, <1>7, <1>8, <1>11, SizesAssumption DEF LineDone, Whole, Room
    <2>4. /\ l2 \in Seq(Seq(STRING)) /\ Len(l2) = Len(ls) + 1
          /\ \A i \in 1..Len(ls) : l2[i] = ls[i]
          /\ l2[Len(ls) + 1] = b2
      BY <1>3, <1>6, <2>1, AppendProperties
    <2>5. /\ Len(ls) \in Nat /\ DOMAIN ls = 1..Len(ls) /\ DOMAIN l2 = 1..Len(l2)
      BY <1>3, <2>4, LenProperties
    <2>6. \A i \in DOMAIN l2 : Whole(l2[i])
      <3> SUFFICES ASSUME NEW i \in 1..(Len(ls) + 1) PROVE Whole(l2[i])
        BY <2>4, <2>5
      <3>1. CASE i = Len(ls) + 1
        BY <2>3, <2>4, <3>1
      <3>2. CASE i # Len(ls) + 1
        <4>1. i \in 1..Len(ls)
          BY <2>5, <3>2
        <4> QED BY <1>3, <2>4, <2>5, <4>1
      <3> QED BY <3>1, <3>2
    <2>7. Cut(l2, <<>>, a2, r, e)
      <3>1. FlattenSeq(l2) \o <<>> = FlattenSeq(l2)
        BY <2>2, ConcatEmptySeq
      <3>2. FlattenSeq(l2) \o <<>> \o a2 \o t = Text
        BY <1>10, <2>2, <3>1, Zenon
      <3> QED BY <1>9, <3>2 DEF Cut
    <2>8. Len(<<>>) < BufLen - 1 /\ <<>> \in Seq(STRING) /\ 1..Len(<<>>) = {}
      BY SizesAssumption, EmptySeq, <1>3, <1>4
    <2>9. Promised(<<>>, <<>> \o a2, e)
      BY DEF Promised
    <2>10. Stream(l2, <<>>, a2, r, e, <<>>)
      BY <1>3, <1>5, <2>2, <2>4, <2>6, <2>7, <2>8, <2>9 DEF Stream
    <2> QED BY <1>11, <2>1, <2>10
  <1>12. CASE ~LineDone(b2)
    <2>a. PICK k \in Nat : k = Len(b2) /\ k <= BufLen - 1
      BY <1>8
    <2>b. b2[Len(b2)] # "\n" /\ BufLen - 1 - k # 0
      BY <1>12, <2>a, Zenon DEF LineDone, Room, Last
    <2>c. k < BufLen - 1
      <3>1. BufLen - 1 - k # 0 /\ k \in Nat /\ k <= BufLen - 1 /\ BufLen \in Nat
        BY <2>a, <2>b, SizesAssumption
      <3> QED BY ONLY <3>1
    <2>1. b2[Len(b2)] # "\n" /\ Len(b2) < BufLen - 1
      BY <2>a, <2>b, <2>c, Zenon
    <2>2. \A i \in 1..Len(b2) : b2[i] # "\n"
      <3> SUFFICES ASSUME NEW i \in 1..Len(b2) PROVE b2[i] # "\n"
        OBVIOUS
      <3>1. i = Len(b2) \/ i \in 1..(Len(b2) - 1)
        <4>1. i \in 1..k /\ (i = k \/ i \in 1..(k - 1))
          BY <2>a
        <4> QED BY <2>a, <4>1
      <3> QED BY <1>7, <2>1, <3>1
    <2>3. Cut(ls, b2, a2, r, e)
      BY <1>2, <1>9, <1>10 DEF Cut
    <2>4. b2 \o a2 = b \o a
      <3>0. PICK C : C = STRING
        OBVIOUS
      <3>a. b \in Seq(C) /\ x \in Seq(C) /\ a2 \in Seq(C)
        BY <1>3, <1>5, <3>0
      <3>1. (b \o x) \o a2 = b \o (x \o a2)
        <4>1. Associative(Seq(C))
          BY Associates
        <4> QED BY <3>a, <4>1, Zenon DEF Associative, Cat
      <3> QED BY <1>1, <1>5, <3>1
    <2>5. Promised(p, b2 \o a2, e)
      BY <1>3, <2>4
    <2>6. Stream(ls, b2, a2, r, e, p)
      BY <1>2, <1>3, <1>5, <1>6, <2>1, <2>2, <2>3, <2>5 DEF Stream
    <2> QED BY <1>12, <2>6
  <1> QED BY <1>11, <1>12

\* The next n characters arrive.
LEMMA ArrivesSome ==
    ASSUME NEW ls, NEW b, NEW a, NEW r, NEW e, NEW p,
           Stream(ls, b, a, r, e, p), NEW n \in 1..Len(r)
    PROVE  Stream(ls, b, a \o SubSeq(r, 1, n), SubSeq(r, n + 1, Len(r)), e, p)
  <1>1. PICK x, y, f : x = SubSeq(r, 1, n) /\ y = SubSeq(r, n + 1, Len(r)) /\ f = FlattenSeq(ls)
    OBVIOUS
  <1>2. /\ f \in Seq(STRING) /\ b \in Seq(STRING) /\ a \in Seq(STRING) /\ r \in Seq(STRING)
        /\ Cut(ls, b, a, r, e) /\ Promised(p, b \o a, e)
    BY <1>1 DEF Stream
  <1>3. Len(r) \in Nat /\ Len(r) # 0 /\ r # <<>>
    BY <1>2, LenProperties, EmptySeq
  <1>4. x \in Seq(STRING) /\ y \in Seq(STRING) /\ x \o y = r
    <2>1. n \in 0..Len(r)
      BY <1>3
    <2> QED BY <1>1, <1>2, <2>1, Parts
  <1>5. f \o b \o a \o r = Text /\ ~e
    BY <1>1, <1>2, <1>3 DEF Cut
  <1>6. PICK L : L = Seq(STRING) /\ Associative(L)
    BY Associates
  <1>7. /\ f \in L /\ b \in L /\ x \in L /\ a \in L /\ y \in L
        /\ Associative(L)
    BY <1>2, <1>4, <1>6
  <1>8. /\ Cat(Cat(Cat(f, b), a), Cat(x, y)) = Cat(Cat(Cat(f, b), Cat(a, x)), y)
        /\ Cat(Cat(b, a), x) = Cat(b, Cat(a, x)) /\ Cat(a, x) \in L
    <2>1. /\ Cat(Cat(Cat(f, b), a), Cat(x, y)) = Cat(Cat(Cat(f, b), Cat(a, x)), y)
      BY ONLY <1>7, Regroup
    <2> QED BY ONLY <1>7, <2>1 DEF Associative
  <1>9. f \o b \o (a \o x) \o y = Text
    BY <1>4, <1>5, <1>8, Zenon DEF Cat
  <1>10. Cut(ls, b, a \o x, y, e)
    BY <1>1, <1>4, <1>5, <1>9 DEF Cut
  <1>11. b \o (a \o x) = (b \o a) \o x /\ a \o x \in Seq(STRING)
    BY <1>6, <1>8, Zenon DEF Cat
  <1>12. Promised(p, b \o (a \o x), e)
    <2>1. PICK q \in Seq(STRING) : q = b \o a
      BY <1>2, ConcatProperties
    <2>2. Promised(p, q, e)
      BY <1>2, <2>1
    <2>3. q # <<>> => q \o x # <<>> /\ (q \o x)[1] = q[1]
      <3> SUFFICES ASSUME q # <<>> PROVE q \o x # <<>> /\ (q \o x)[1] = q[1]
        OBVIOUS
      <3>1. Len(q) \in Nat \ {0} /\ Len(x) \in Nat
        BY <1>4, EmptySeq, LenProperties
      <3>2. 1 \in 1..(Len(q) + Len(x)) /\ 1 <= Len(q)
        BY <3>1
      <3>3. (q \o x)[1] = q[1]
        BY <1>4, <3>2, ConcatProperties
      <3> QED BY <1>4, <3>3, ConcatEqualIffEmpty
    <2>4. Promised(p, q \o x, e)
      BY <1>5, <2>2, <2>3 DEF Promised
    <2> QED BY <1>11, <2>1, <2>4
  <1> QED BY <1>1, <1>4, <1>10, <1>11, <1>12 DEF Stream

\* A connection stands: all of the text is to come.
LEMMA StreamStarts == Stream(<<>>, <<>>, <<>>, Text, FALSE, <<>>)
  <1>1. <<>> \in Seq(STRING) /\ <<>> \in Seq(Seq(STRING)) /\ Len(<<>>) = 0 /\ DOMAIN <<>> = {}
    BY EmptySeq, LenProperties
  <1>2. FlattenSeq(<<>>) = <<>>
    BY <1>1 DEF FlattenSeq
  <1>3. <<>> \o Text = Text /\ <<>> \o <<>> = <<>>
    BY <1>1, TextAssumption, ConcatEmptySeq
  <1>4. FlattenSeq(<<>>) \o <<>> \o <<>> \o Text = Text
    BY <1>2, <1>3, Zenon
  <1>5. Cut(<<>>, <<>>, <<>>, Text, FALSE)
    BY <1>4, TextAssumption DEF Cut
  <1>6. Len(<<>>) < BufLen - 1 /\ 1..Len(<<>>) = {}
    BY <1>1, SizesAssumption
  <1>7. Promised(<<>>, <<>> \o <<>>, FALSE)
    BY DEF Promised
  <1>8. PICK o : o = <<>>
    OBVIOUS
  <1>9. Stream(o, o, o, Text, FALSE, o)
    BY <1>1, <1>2, <1>5, <1>6, <1>7, <1>8, TextAssumption DEF Stream
  <1> QED BY <1>8, <1>9

-----------------------------------------------------------------------------
(* Every step keeps the text.                                              *)

\* CloseUp forgets it.
LEMMA EndKeepsText == ASSUME CloseUp PROVE TextInv'
  BY DEF CloseUp, TextInv, Early

LEMMA EarlyKeepsText ==
    ASSUME TextInv, pc \in Early, pc' \in Early, UNCHANGED streamvars
    PROVE  TextInv'
  BY DEF TextInv, streamvars

LEMMA LateKeepsText ==
    ASSUME TextInv, pc \notin Early, pc' \notin Early, pc # "reading", UNCHANGED streamvars
    PROVE  TextInv'
  BY DEF TextInv, streamvars

LEMMA ConnectedKeepsText ==
    ASSUME TextInv, pc \in Early, NEW f, Connected(f)
    PROVE  TextInv'
  <1>1. /\ avail = <<>> /\ buf = <<>> /\ lines = <<>> /\ peeked = <<>> /\ eof = FALSE
    BY DEF TextInv
  <1>2. /\ avail' = <<>> /\ buf' = <<>> /\ lines' = <<>> /\ peeked' = <<>> /\ eof' = FALSE
        /\ rest' = Text /\ pc' \notin Early
    BY <1>1 DEF Connected, Early
  <1>3. Stream(lines', buf', avail', rest', eof', peeked')
    BY <1>2, StreamStarts, Zenon
  <1> QED BY <1>2, <1>3 DEF TextInv

LEMMA ReadKeepsText ==
    ASSUME TextInv, NEW n \in 1..BufLen, ReadSome(n)
    PROVE  TextInv'
  <1>1. /\ pc = "reading" /\ pc \notin Early /\ avail # <<>>
        /\ n = Room(buf) \/ n = 1
        /\ rest' = rest /\ eof' = eof
    BY DEF ReadSome, Early
  <1>2. Stream(lines, buf, avail, rest, eof, peeked)
    BY <1>1 DEF TextInv
  <1>3. avail \in Seq(STRING) /\ buf \in Seq(STRING) /\ Len(buf) < BufLen - 1
    BY <1>2 DEF Stream
  <1>4. Len(avail) \in Nat \ {0} /\ Len(buf) \in Nat
    BY <1>1, <1>3, EmptySeq, LenProperties
  <1>5. n \in Nat \ {0} /\ n <= Room(buf)
    BY <1>1, <1>3, <1>4, SizesAssumption DEF Room
  <1>6. PICK m \in 1..Len(avail) :
           m <= n /\ m = IF n < Len(avail) THEN n ELSE Len(avail)
    BY <1>4, <1>5
  <1>7. PICK q : q = SubSeq(avail, 1, m)
    OBVIOUS
  <1>8. q \in Seq(STRING) /\ Len(q) = m /\ q # <<>> /\ \A i \in 1..m : q[i] = avail[i]
    <2>1. m \in 0..Len(avail)
      BY <1>4, <1>6
    <2>2. q \in Seq(STRING) /\ Len(q) = m /\ \A i \in 1..m : q[i] = avail[i]
      BY <1>3, <1>7, <2>1, Parts
    <2>3. q # <<>>
      BY <1>4, <1>6, <2>2, EmptySeq
    <2> QED BY <2>2, <2>3
  <1>9. PICK g \in 1..m : UpToNewline(q) = SubSeq(q, 1, g) /\ \A k \in 1..(g - 1) : q[k] # "\n"
    BY <1>8, UpToFirst
  <1>10. PICK got : got = UpToNewline(q)
    OBVIOUS
  <1>11. /\ g \in 1..Len(avail) /\ g <= Room(buf) /\ \A k \in 1..(g - 1) : avail[k] # "\n"
    <2>1. Room(buf) \in Nat
      BY <1>3, <1>4, SizesAssumption DEF Room
    <2> QED BY <1>4, <1>5, <1>6, <1>8, <1>9, <2>1
  <1>12. got = SubSeq(avail, 1, g) /\ Len(got) = g
    <2>1. g \in 0..Len(q) /\ g \in 0..Len(avail)
      BY <1>4, <1>6, <1>8, <1>9
    <2>2. /\ SubSeq(q, 1, g) \in Seq(STRING) /\ Len(SubSeq(q, 1, g)) = g
          /\ \A i \in 1..g : SubSeq(q, 1, g)[i] = q[i]
      BY <1>8, <2>1, Parts
    <2>3. /\ SubSeq(avail, 1, g) \in Seq(STRING) /\ Len(SubSeq(avail, 1, g)) = g
          /\ \A i \in 1..g : SubSeq(avail, 1, g)[i] = avail[i]
      BY <1>3, <2>1, Parts
    <2>4. PICK u, v : u = SubSeq(q, 1, g) /\ v = SubSeq(avail, 1, g)
      OBVIOUS
    <2>5. /\ u \in Seq(STRING) /\ v \in Seq(STRING) /\ Len(u) = Len(v)
          /\ \A i \in 1..Len(u) : u[i] = v[i]
      BY <1>6, <1>8, <1>9, <2>2, <2>3, <2>4
    <2>6. u = v
      BY <2>5, SeqEqual
    <2> QED BY <1>9, <1>10, <2>2, <2>4, <2>6
  <1>13. PICK b : b = buf \o got
    OBVIOUS
  <1>14. Peek(n) = q
    BY <1>6, <1>7 DEF Peek
  <1>15. /\ avail' = SubSeq(avail, g + 1, Len(avail))
         /\ IF LineDone(b)
            THEN buf' = <<>> /\ lines' = Append(lines, b) /\ pc' = "session" /\ peeked' = <<>>
            ELSE buf' = b /\ UNCHANGED <<lines, pc, peeked>>
    BY <1>10, <1>12, <1>13, <1>14, Zenon DEF ReadSome
  <1>16. PICK a : a = SubSeq(avail, g + 1, Len(avail))
    OBVIOUS
  <1>17. b = buf \o SubSeq(avail, 1, g)
    BY <1>12, <1>13
  <1>18. /\ LineDone(b) => Stream(Append(lines, b), <<>>, a, rest, eof, <<>>)
         /\ ~LineDone(b) => Stream(lines, b, a, rest, eof, peeked)
    BY <1>2, <1>11, <1>16, <1>17, TakesSome
  <1>19. CASE LineDone(b)
    BY <1>1, <1>15, <1>16, <1>18, <1>19 DEF TextInv, Early
  <1>20. CASE ~LineDone(b)
    BY <1>1, <1>15, <1>16, <1>18, <1>20 DEF TextInv, Early
  <1> QED BY <1>19, <1>20

LEMMA StreamKeepsText ==
    ASSUME TextInv, NEW n, Arrive(n) \/ Hangup \/ SockRead \/ SockPeek \/ PeekAtEnd(n)
    PROVE  TextInv'
  <1>1. pc \in {"session", "reading"} /\ pc \notin Early /\ pc' \in {"session", "reading"}
    BY DEF Arrive, Hangup, SockRead, SockPeek, PeekAtEnd, Early
  <1>2. Stream(lines, buf, avail, rest, eof, peeked) /\ (pc # "reading" => buf = <<>>)
    BY <1>1 DEF TextInv
  <1>3. CASE Arrive(n)
    <2>1. n \in 1..Len(rest) /\ pc' = pc
          /\ lines' = lines /\ buf' = buf /\ eof' = eof /\ peeked' = peeked
          /\ avail' = avail \o SubSeq(rest, 1, n) /\ rest' = SubSeq(rest, n + 1, Len(rest))
      BY <1>3 DEF Arrive
    <2>2. Stream(lines', buf', avail', rest', eof', peeked')
      BY <1>2, <2>1, ArrivesSome
    <2> QED BY <1>1, <1>2, <2>1, <2>2 DEF TextInv, Early
  <1>4. CASE Hangup
    <2>1. /\ ~eof /\ eof' = TRUE /\ rest' = <<>> /\ pc' = pc
          /\ lines' = lines /\ buf' = buf /\ avail' = avail /\ peeked' = peeked
      BY <1>4 DEF Hangup
    <2>a. Cut(lines, buf, avail, rest, eof) /\ Promised(peeked, buf \o avail, eof)
      BY <1>2 DEF Stream
    <2>b. Cut(lines, buf, avail, <<>>, TRUE) /\ Promised(peeked, buf \o avail, TRUE)
      BY <2>a, <2>1, Zenon DEF Cut, Promised
    <2>c. <<>> \in Seq(STRING)
      BY EmptySeq
    <2>2. Stream(lines, buf, avail, <<>>, TRUE, peeked)
      BY <1>2, <2>b, <2>c DEF Stream
    <2>3. Stream(lines', buf', avail', rest', eof', peeked')
      BY <2>1, <2>2, Zenon
    <2> QED BY <1>1, <1>2, <2>1, <2>3 DEF TextInv, Early
  <1>5. CASE SockRead
    <2>1. UNCHANGED <<rest, avail, eof, lines, peeked>> /\ buf' = buf /\ buf = <<>>
            /\ pc' = "reading"
      BY <1>2, <1>5 DEF SockRead
    <2> QED BY <1>1, <1>2, <2>1 DEF TextInv, Early
  <1>6. CASE SockPeek \/ PeekAtEnd(n)
    <2>1. /\ pc = "session" /\ pc' = pc /\ buf = <<>>
          /\ lines' = lines /\ buf' = buf /\ avail' = avail /\ rest' = rest /\ eof' = eof
      BY <1>2, <1>6 DEF SockPeek, PeekAtEnd
    <2>2. avail \in Seq(STRING)
      BY <1>2 DEF Stream
    <2>3. buf \o avail = avail
      BY <2>1, <2>2, ConcatEmptySeq
    <2>4. Promised(peeked', avail, eof)
      BY <1>6 DEF SockPeek, PeekAtEnd, Promised
    <2>5. Stream(lines', buf', avail', rest', eof', peeked')
      BY <1>2, <2>1, <2>3, <2>4 DEF Stream
    <2> QED BY <1>1, <1>2, <2>1, <2>5 DEF TextInv, Early
  <1> QED BY <1>3, <1>4, <1>5, <1>6

\* A failed SSLOpen ends the poll or takes nothing from the stream.
LEMMA FailureKeepsText ==
    ASSUME TextInv, pc \in {"sslopen", "handshake"}, NEW d, SslFails(d)
    PROVE  TextInv'
  <1>1. CloseUp \/ (pc' = "session" /\ UNCHANGED streamvars)
    BY Zenon DEF SslFails, EndInError
  <1> QED BY <1>1, EndKeepsText, LateKeepsText DEF Early

LEMMA NextKeepsText == ASSUME TextInv, [Next]_vars PROVE TextInv'
  <1>1. ASSUME NEW o \in Options, Begin(o) PROVE TextInv'
    <2>1. pc \in Early /\ pc' \in Early /\ UNCHANGED streamvars
      BY <1>1, Zenon DEF Begin, Early
    <2> QED BY <2>1, EarlyKeepsText
  <1>2. ASSUME NEW r \in {"ok", "nopair", "nofork"}, Plugin(r) PROVE TextInv'
    <2>1. CloseUp \/ (pc = "plugin" /\ pc' = "exec" /\ UNCHANGED streamvars)
      BY <1>2, Zenon DEF Plugin
    <2> QED BY <2>1, EndKeepsText, EarlyKeepsText DEF Early
  <1>3. CASE Exec
    BY <1>3, ConnectedKeepsText DEF Exec, Early
  <1>4. ASSUME NEW b \in BOOLEAN, Resolve(b) \/ TryAddress(b) PROVE TextInv'
    <2>1. CloseUp \/ (pc \in Early /\ pc' \in Early /\ UNCHANGED streamvars)
      BY <1>4 DEF Resolve, TryAddress, Early
    <2> QED BY <2>1, EndKeepsText, EarlyKeepsText
  <1>5. ASSUME NEW b \in BOOLEAN, Connect(b) PROVE TextInv'
    <2>1. pc \in Early /\ (Connected(temp) \/ (pc' \in Early /\ UNCHANGED streamvars))
      BY <1>5 DEF Connect, Early
    <2> QED BY <2>1, ConnectedKeepsText, EarlyKeepsText
  <1>6. CASE NoMoreAddresses \/ Timeout \/ ReadFails \/ WriteFails \/ Close
    <2>1. CloseUp
      BY <1>6, Zenon
      DEF NoMoreAddresses, Timeout, ReadFails, WriteFails, Close, EndInError
    <2> QED BY <2>1, EndKeepsText
  <1>f. CASE HandshakeFails
    BY <1>f, FailureKeepsText DEF HandshakeFails
  <1>7. ASSUME NEW b \in BOOLEAN, UnixOpen \/ UnixConnect(b) PROVE TextInv'
    <2>1. pc \in {"session", "unixopen"} /\ pc' \in {"session", "unixopen"}
            /\ UNCHANGED streamvars
      BY <1>7 DEF UnixOpen, UnixConnect
    <2> QED BY <2>1, LateKeepsText DEF Early
  <1>8. ASSUME NEW r \in SslSetups, SSLOpen(r) PROVE TextInv'
    <2>1. /\ pc = "sslopen"
          /\ (\E d : SslFails(d)) \/ (pc' = "handshake" /\ UNCHANGED streamvars)
      BY <1>8, Zenon DEF SSLOpen
    <2> QED BY <2>1, FailureKeepsText, LateKeepsText DEF Early
  <1>9. ASSUME NEW c \in Certs, NEW ok \in BOOLEAN, Verify(c, ok) PROVE TextInv'
    <2>1. /\ pc = "handshake"
          /\ (\E d : SslFails(d)) \/ (pc' = pc /\ UNCHANGED streamvars)
      BY <1>9, Zenon DEF Verify
    <2> QED BY <2>1, FailureKeepsText, LateKeepsText DEF Early
  <1>10. ASSUME NEW v \in Versions, HandshakeDone(v) PROVE TextInv'
    <2>1. /\ pc = "handshake"
          /\ (\E d : SslFails(d)) \/ (pc' = "secured" /\ UNCHANGED streamvars)
      BY <1>10, Zenon DEF HandshakeDone
    <2> QED BY <2>1, FailureKeepsText, LateKeepsText DEF Early
  <1>11. CASE Secured \/ StartTls
    BY <1>11, LateKeepsText DEF Secured, StartTls, Early
  <1>12. ASSUME NEW n, Arrive(n) \/ Hangup \/ SockRead \/ SockPeek \/ PeekAtEnd(n)
         PROVE  TextInv'
    BY <1>12, StreamKeepsText
  <1>13. ASSUME NEW n \in 1..BufLen, ReadSome(n) PROVE TextInv'
    BY <1>13, ReadKeepsText
  <1>14. ASSUME NEW n, SockPrintf \/ SockWrite(n) PROVE TextInv'
    <2>1. /\ pc \in {"session", "writing"} /\ pc' \in {"session", "writing"}
          /\ UNCHANGED <<rest, avail, eof, buf, lines, peeked>>
      BY <1>14 DEF SockPrintf, SockWrite
    <2> QED BY <2>1 DEF TextInv, Early
  <1>15. CASE UNCHANGED vars
    BY <1>15 DEF vars, TextInv
  <1> QED
    BY <1>1, <1>2, <1>3, <1>4, <1>5, <1>6, <1>f, <1>7, <1>8, <1>9, <1>10, <1>11, <1>12, <1>13,
       <1>14, <1>15, Zenon DEF Next

LEMMA TextIsWhole == ASSUME TextInv PROVE LinesWhole
  <1> SUFFICES ASSUME pc \in {"session", "reading"} PROVE LinesWhole
    BY DEF LinesWhole
  <1>1. Stream(lines, buf, avail, rest, eof, peeked)
    BY DEF TextInv, Early
  <1>2. PICK t \in Seq(STRING) :
           FlattenSeq(lines) \o buf \o avail \o t = Text /\ (~eof => t = rest)
    BY <1>1 DEF Stream, Cut
  <1>3. PICK seen : seen = FlattenSeq(lines) \o buf \o avail
    OBVIOUS
  <1>4. seen \in Seq(STRING)
    <2>1. FlattenSeq(lines) \in Seq(STRING) /\ buf \in Seq(STRING) /\ avail \in Seq(STRING)
      BY <1>1 DEF Stream
    <2>2. FlattenSeq(lines) \o buf \in Seq(STRING)
      BY <2>1, ConcatProperties
    <2> QED BY <1>3, <2>1, <2>2, ConcatProperties
  <1>5. IsPrefix(seen, Text)
    <2>1. seen \o t = Text
      BY <1>2, <1>3
    <2>2. Len(seen) \in Nat /\ Len(t) \in Nat /\ Len(Text) = Len(seen) + Len(t)
            /\ \A i \in 1..Len(seen) : Text[i] = seen[i]
      BY <1>4, <2>1, LenProperties, ConcatProperties
    <2>3. PICK n \in Nat : n = Len(seen)
      BY <2>2
    <2>4. n \in 0..Len(Text) /\ n \in 0..Len(seen)
      BY <2>2, <2>3
    <2>5. PICK u, v : u = SubSeq(seen, 1, n) /\ v = SubSeq(Text, 1, n)
      OBVIOUS
    <2>6. u \in Seq(STRING) /\ Len(u) = n /\ \A i \in 1..n : u[i] = seen[i]
      BY <1>4, <2>4, <2>5, Parts
    <2>7. v \in Seq(STRING) /\ Len(v) = n /\ \A i \in 1..n : v[i] = Text[i]
      BY <2>4, <2>5, Parts, TextAssumption
    <2>8. u = v
      BY <2>2, <2>3, <2>6, <2>7, SeqEqual
    <2> QED BY <2>2, <2>3, <2>5, <2>8 DEF IsPrefix
  <1>6. IF eof THEN IsPrefix(seen, Text) ELSE seen \o rest = Text
    BY <1>2, <1>3, <1>5
  <1>7. \A i \in DOMAIN lines : Whole(lines[i])
    BY <1>1 DEF Stream
  <1>8. peeked # <<>> /\ buf \o avail # <<>> => peeked[1] = (buf \o avail)[1]
    BY <1>1 DEF Stream, Promised
  <1> QED BY <1>3, <1>6, <1>7, <1>8, Zenon DEF LinesWhole, Whole

\* The lines SockRead returns are the server's text, cut after each newline
\* and where the buffer ends, whatever the text, the length of the buffer and
\* the pieces it arrives in, with TLS and without; and the character SockPeek
\* saw is the one the next line starts with.
THEOREM LinesAreWhole == Spec => []LinesWhole
  <1>1. Init => TextInv
    BY DEF Init, TextInv, Early
  <1>2. TextInv /\ [Next]_vars => TextInv'
    BY NextKeepsText
  <1>3. TextInv => LinesWhole
    BY TextIsWhole
  <1> QED BY <1>1, <1>2, <1>3, PTL DEF Spec

=============================================================================
