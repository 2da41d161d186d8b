--------------------------- MODULE ImapPollProofs ---------------------------
(***************************************************************************)
(* Proofs about ImapPoll, for mailboxes of any size, any options and any   *)
(* number of faults and of other clients' steps.                           *)
(***************************************************************************)
EXTENDS ImapPoll, FiniteSetTheorems, TLAPS

-----------------------------------------------------------------------------
(* Message numbers.                                                        *)

\* The numbers of the messages of a finite set run from 1 to its size.
LEMMA NumberType ==
  ASSUME NEW S \in SUBSET Nat, IsFiniteSet(S), NEW m \in S
  PROVE  Number(S, m) \in 1..Cardinality(S)
  <1> DEFINE below == {k \in S : k <= m}
  <1>1. /\ IsFiniteSet(below) /\ Cardinality(below) <= Cardinality(S)
        /\ m \in below
    BY FS_Subset, below \in SUBSET S
  <1>2. Cardinality(below) \in Nat /\ Cardinality(S) \in Nat
    BY <1>1, FS_CardinalityType
  <1>3. Cardinality(below) # 0
    BY <1>1, FS_EmptySet
  <1> QED
    BY <1>1, <1>2, <1>3 DEF Number

\* Numbers are given out in the order of arrival.
LEMMA NumberOrder ==
  ASSUME NEW S \in SUBSET Nat, IsFiniteSet(S), NEW k \in S, NEW m \in S, k < m
  PROVE  Number(S, k) < Number(S, m)
  <1> DEFINE lower == {j \in S : j <= k}
             upper == {j \in S : j <= m}
  <1>1. lower \in SUBSET upper /\ m \in upper /\ m \notin lower
    <2>1. k \in Nat /\ m \in Nat /\ \A j \in S : j \in Nat
      OBVIOUS
    <2>2. \A j \in S : j <= k => j <= m
      BY <2>1
    <2>3. ~(m <= k) /\ m <= m
      BY <2>1
    <2> QED
      BY <2>2, <2>3
  <1>2. IsFiniteSet(upper)
    BY FS_Subset, upper \in SUBSET S
  <1>3. /\ IsFiniteSet(lower) /\ Cardinality(lower) <= Cardinality(upper)
        /\ Cardinality(lower) # Cardinality(upper)
    BY <1>1, <1>2, FS_Subset
  <1>4. Cardinality(lower) \in Nat /\ Cardinality(upper) \in Nat
    BY <1>2, <1>3, FS_CardinalityType
  <1> QED
    BY <1>3, <1>4 DEF Number

LEMMA NumberInjective ==
  ASSUME NEW S \in SUBSET Nat, IsFiniteSet(S), NEW k \in S, NEW m \in S,
         Number(S, k) = Number(S, m)
  PROVE  k = m
  <1>1. Number(S, k) \in Nat /\ Number(S, m) \in Nat
    <2>1. Cardinality(S) \in Nat
      BY FS_CardinalityType
    <2> QED
      BY <2>1, NumberType
  <1>2. k \in Nat /\ m \in Nat
    OBVIOUS
  <1>3. ~(k < m)
    BY <1>1, NumberOrder
  <1>4. ~(m < k)
    BY <1>1, NumberOrder
  <1> QED
    BY <1>2, <1>3, <1>4

\* Every number up to the size of the set belongs to exactly one message:
\* numbering is an injection into a set of the same size.
LEMMA NthFacts ==
  ASSUME NEW S \in SUBSET Nat, IsFiniteSet(S), NEW n \in 1..Cardinality(S)
  PROVE  Nth(S, n) \in S /\ Number(S, Nth(S, n)) = n
  <1> DEFINE f == [m \in S |-> Number(S, m)]
             T == 1..Cardinality(S)
  <1>1. Cardinality(S) \in Nat
    BY FS_CardinalityType
  <1>2. IsFiniteSet(T) /\ Cardinality(T) = Cardinality(S)
    BY <1>1, FS_Interval
  <1>3. f \in Injection(S, T)
    <2>1. f \in [S -> T]
      BY NumberType
    <2>2. ASSUME NEW k \in S, NEW m \in S, f[k] = f[m] PROVE k = m
      BY <2>2, NumberInjective
    <2> QED
      BY <2>1, <2>2, Zenon DEF Injection, IsInjective
  <1>4. f \in Surjection(S, T)
    BY <1>2, <1>3, FS_Injection
  <1>5. PICK m \in S : f[m] = n
    BY <1>4 DEF Surjection
  <1>6. \E x \in S : Cardinality({k \in S : k <= x}) = n
    BY <1>5 DEF Number
  <1> QED
    BY <1>6 DEF Nth, Number

\* The message with the number of m is m.
LEMMA NthNumber ==
  ASSUME NEW S \in SUBSET Nat, IsFiniteSet(S), NEW m \in S
  PROVE  Nth(S, Number(S, m)) = m
  <1> DEFINE x == Nth(S, Number(S, m))
  <1>1. Number(S, m) \in 1..Cardinality(S)
    BY NumberType
  <1>2. x \in S /\ Number(S, x) = Number(S, m)
    BY <1>1, NthFacts
  <1> HIDE DEF x
  <1>3. x = m
    BY <1>2, NumberInjective
  <1> QED
    BY <1>3 DEF x

-----------------------------------------------------------------------------
(* The inductive invariant.                                                *)

Selected == pc \notin {"asleep", "select", "logout"}
Scanning == pc \in {"check", "header", "ship", "flag", "expunge", "done"}

\* The messages of the range that the loop is through with.
Passed == {m \in listed : \/ pc = "done"
                          \/ Number(listed, m) < num
                          \/ pc = "expunge" /\ Number(listed, m) = num}

\* Messages without a number are younger than all that have one.
ArrivalInv ==
    /\ mbox \subseteq 1..(next - 1) /\ view \subseteq 1..(next - 1)
    /\ listed \subseteq 1..(next - 1)
    /\ Selected => \A k \in view \cup listed, m \in mbox \ view : k < m

\* What the counters of imap.c mean: `oldcount' never exceeds what is left of
\* the last range, so that the difference covers all that is new.
CountInv ==
    Selected => /\ count = Cardinality(view)
                /\ oldcount <= Cardinality(view \cap listed)
                /\ recentcount >= count - oldcount

\* Only messages that the loop is through with have lost their number, and
\* `expunged' is how many; of those that will lose it next, `deletions' at
\* least are fetchmail's own.
RangeInv ==
    Scanning => /\ total = Cardinality(listed)
                /\ pc # "done" => num \in 1..total
                /\ pc = "expunge" => deletions > 0
                /\ listed \ view \subseteq Passed
                /\ Cardinality(listed \ view) = expunged
                /\ \A k \in listed, m \in view \ listed : k < m
                /\ Cardinality(Gone \cap Passed) >= deletions

IInv == TypeOK /\ ArrivalInv /\ CountInv /\ RangeInv

-----------------------------------------------------------------------------
(* Sets of messages.                                                       *)

LEMMA MsgsFinite ==
  ASSUME NEW T \in SUBSET Msgs
  PROVE  IsFiniteSet(T) /\ Cardinality(T) \in 0..MaxMsg /\ T \in SUBSET Nat
  <1>1. IsFiniteSet(Msgs) /\ Cardinality(Msgs) = MaxMsg
    BY BoundsAssumption, FS_Interval DEF Msgs
  <1>2. IsFiniteSet(T) /\ Cardinality(T) <= Cardinality(Msgs)
    BY <1>1, FS_Subset
  <1>3. Cardinality(T) \in Nat
    BY <1>2, FS_CardinalityType
  <1> QED
    BY <1>1, <1>2, <1>3, BoundsAssumption DEF Msgs

\* Taking G from V takes at most as many from the part of V in L.
LEMMA RemoveCounts ==
  ASSUME NEW V \in SUBSET Msgs, NEW L \in SUBSET Msgs, NEW G \in SUBSET V
  PROVE  /\ Cardinality(V \ G) = Cardinality(V) - Cardinality(G)
         /\ Cardinality((V \ G) \cap L) >= Cardinality(V \cap L) - Cardinality(G)
  <1>1. /\ V \ G \in SUBSET Msgs /\ G \in SUBSET Msgs /\ V \cap L \in SUBSET Msgs
        /\ (V \cap L) \cap G \in SUBSET G /\ V \cap G = G
        /\ (V \ G) \cap L = (V \cap L) \ G
    OBVIOUS
  <1>2. Cardinality(V \ G) = Cardinality(V) - Cardinality(G)
    BY <1>1, MsgsFinite, FS_Difference
  <1>3. /\ Cardinality((V \cap L) \ G)
              = Cardinality(V \cap L) - Cardinality((V \cap L) \cap G)
    BY <1>1, MsgsFinite, FS_Difference
  <1>4. Cardinality((V \cap L) \cap G) <= Cardinality(G)
    BY <1>1, MsgsFinite, FS_Subset
  <1>5. /\ Cardinality(V \cap L) \in Nat /\ Cardinality(G) \in Nat
        /\ Cardinality((V \cap L) \cap G) \in Nat
    BY <1>1, MsgsFinite, (V \cap L) \cap G \in SUBSET Msgs
  <1>6. Cardinality((V \ G) \cap L) = Cardinality((V \cap L) \ G)
    BY <1>1
  <1>7. Cardinality((V \ G) \cap L) >= Cardinality(V \cap L) - Cardinality(G)
    BY <1>3, <1>4, <1>5, <1>6
  <1> QED
    BY <1>2, <1>7

\* A larger set of messages has more members.
LEMMA SubsetCounts ==
  ASSUME NEW S \in SUBSET Msgs, NEW T \in SUBSET S
  PROVE  Cardinality(T) <= Cardinality(S) /\ Cardinality(T) \in Nat
         /\ Cardinality(S) \in Nat
  <1>1. IsFiniteSet(S) /\ Cardinality(S) \in Nat
    BY MsgsFinite
  <1>2. T \in SUBSET Msgs
    OBVIOUS
  <1>3. Cardinality(T) \in Nat
    BY <1>2, MsgsFinite
  <1> QED
    BY <1>1, <1>3, FS_Subset

\* What the numbers of a range mean after the messages G of it, all with
\* numbers below n, have lost theirs and younger messages N have got some.
LEMMA Renumber ==
  ASSUME NEW L \in SUBSET Msgs, NEW V \in SUBSET Msgs,
         NEW n \in 1..Cardinality(L),
         \A k \in L \ V : Number(L, k) < n,
         \A k \in L, m \in V \ L : k < m
  PROVE  LET m == Nth(L, n)
         IN  /\ m \in L /\ m \in V
             /\ n - Cardinality(L \ V) \in 1..Cardinality(V)
             /\ Nth(V, n - Cardinality(L \ V)) = m
  <1> DEFINE m == Nth(L, n)
             below == {k \in L : k <= m}
             left == {k \in V : k <= m}
  <1>1. /\ IsFiniteSet(L) /\ L \in SUBSET Nat
        /\ IsFiniteSet(V) /\ V \in SUBSET Nat
        /\ Cardinality(L) \in Nat /\ n \in Nat
    BY MsgsFinite
  <1>2. m \in L /\ Number(L, m) = n
    BY <1>1, NthFacts
  <1> HIDE DEF m
  <1>3. m \in V
    BY <1>1, <1>2
  <1>4. ASSUME NEW k \in L \ V PROVE k < m
    <2>1. Number(L, k) < n /\ k \in Nat /\ m \in Nat /\ k \in L
      BY <1>1, <1>2
    <2>2. Number(L, k) \in Nat
      BY <2>1, <1>1, NumberType
    <2>3. k # m
      BY <1>2, <2>1, <2>2
    <2>4. ~(m < k)
      <3>1. SUFFICES ASSUME m < k PROVE FALSE
        OBVIOUS
      <3>2. Number(L, m) < Number(L, k)
        BY <3>1, <1>1, <1>2, <2>1, NumberOrder
      <3> QED
        BY <3>2, <2>1, <2>2, <1>1, <1>2
    <2> QED
      BY <2>1, <2>3, <2>4
  <1>5. left = below \ (L \ V)
    <2>1. ASSUME NEW k \in left PROVE k \in below
      <3>1. k \in V /\ k <= m /\ k \in Nat /\ m \in Nat
        BY <1>1, <1>2
      <3>2. CASE k \in L
        BY <3>1, <3>2
      <3>3. CASE k \notin L
        <4>1. m < k
          BY <1>2, <3>1, <3>3
        <4> QED
          BY <3>1, <4>1
      <3> QED
        BY <3>2, <3>3
    <2> QED
      BY <2>1
  <1>6. L \ V \in SUBSET below
    BY <1>1, <1>2, <1>4
  <1>7. Cardinality(below) = n
    BY <1>2 DEF Number
  <1>8. IsFiniteSet(below) /\ below \cap (L \ V) = L \ V
    BY <1>1, <1>6, FS_Subset, below \in SUBSET L
  <1>9. Cardinality(left) = n - Cardinality(L \ V)
    <2>1. Cardinality(below \ (L \ V))
             = Cardinality(below) - Cardinality(below \cap (L \ V))
      BY <1>8, FS_Difference
    <2>2. Cardinality(below \cap (L \ V)) = Cardinality(L \ V)
      BY <1>8
    <2>3. Cardinality(left) = Cardinality(below \ (L \ V))
      BY <1>5
    <2> HIDE DEF below, left
    <2> QED
      BY <1>7, <2>1, <2>2, <2>3
  <1>10. Number(V, m) = n - Cardinality(L \ V)
    BY <1>9 DEF Number
  <1>11. Number(V, m) \in 1..Cardinality(V) /\ Nth(V, Number(V, m)) = m
    BY <1>1, <1>3, NumberType, NthNumber
  <1> QED
    BY <1>2, <1>3, <1>10, <1>11 DEF m

-----------------------------------------------------------------------------
(* The messages that commands reach.                                       *)

\* The loop's commands reach the messages that had these numbers in the range.
LEMMA CommandsReach ==
  ASSUME IInv, InLoop, NEW n \in num..total
  PROVE  /\ Addressed(n) = Nth(listed, n)
         /\ Nth(listed, n) \in listed /\ Nth(listed, n) \in view
  <1> USE DEF InLoop, Scanning
  <1>1. /\ listed \in SUBSET Msgs /\ view \in SUBSET Msgs
        /\ total = Cardinality(listed) /\ num \in 1..total /\ total \in Nat
        /\ Cardinality(listed \ view) = expunged
    BY DEF IInv, TypeOK, RangeInv
  <1>2. n \in 1..Cardinality(listed) /\ num \in Nat /\ n \in Nat
    BY <1>1
  <1>3. ASSUME NEW k \in listed \ view PROVE Number(listed, k) < n
    <2>1. Number(listed, k) < num
      BY DEF IInv, RangeInv, Passed
    <2>2. Number(listed, k) \in Nat
      BY <1>1, MsgsFinite, NumberType
    <2> QED
      BY <1>1, <1>2, <2>1, <2>2
  <1>4. \A k \in listed, m \in view \ listed : k < m
    BY DEF IInv, RangeInv
  <1>5. /\ Nth(listed, n) \in listed /\ Nth(listed, n) \in view
        /\ n - expunged \in 1..Cardinality(view)
        /\ Nth(view, n - expunged) = Nth(listed, n)
    BY <1>1, <1>2, <1>3, <1>4, Renumber
  <1> QED
    BY <1>5 DEF Addressed, HasNumber, Target

\* The message under way.
LEMMA Current ==
  ASSUME IInv, InLoop
  PROVE  /\ num \in 1..total
         /\ Addressed(num) = Nth(listed, num)
         /\ Addressed(num) \in listed /\ Addressed(num) \in view
         /\ Addressed(num) \in Msgs /\ Number(listed, Addressed(num)) = num
  <1>1. /\ listed \in SUBSET Msgs /\ total = Cardinality(listed)
        /\ num \in 1..total /\ total \in Nat
    BY DEF IInv, TypeOK, RangeInv, InLoop, Scanning
  <1>2. num \in num..total /\ num \in 1..Cardinality(listed)
    BY <1>1
  <1>3. /\ Addressed(num) = Nth(listed, num)
        /\ Nth(listed, num) \in listed /\ Nth(listed, num) \in view
    BY <1>2, CommandsReach
  <1>4. Number(listed, Nth(listed, num)) = num
    BY <1>1, <1>2, MsgsFinite, NthFacts
  <1> QED
    BY <1>1, <1>3, <1>4

-----------------------------------------------------------------------------
(* Types.                                                                  *)

LEMMA MonusType ==
  ASSUME NEW a \in 0..MaxMsg, NEW b \in Nat
  PROVE  Monus(a, b) \in 0..MaxMsg /\ Monus(a, b) >= a - b
         /\ (a >= b => Monus(a, b) = a - b)
  BY BoundsAssumption DEF Monus

LEMMA ExistsType ==
  ASSUME TypeOK, Exists
  PROVE  view' \subseteq Msgs /\ count' \in 0..MaxMsg /\ recentcount' \in 0..MaxMsg
  <1>1. view' \in SUBSET Msgs
    BY DEF TypeOK, Exists
  <1>2. count' \in 0..MaxMsg
    BY <1>1, MsgsFinite DEF Exists
  <1> QED
    BY <1>1, <1>2, MonusType DEF TypeOK, Exists

LEMMA ExpungeType ==
  ASSUME TypeOK, Expunge
  PROVE  /\ mbox' \subseteq Msgs /\ view' \subseteq Msgs
         /\ deleted' \subseteq Msgs /\ seen' \subseteq Msgs
         /\ count' \in 0..MaxMsg /\ oldcount' \in 0..MaxMsg
         /\ recentcount' \in 0..MaxMsg
  <1>1. Gone \in SUBSET Msgs
    BY DEF TypeOK, Gone
  <1>2. Cardinality(Gone) \in Nat
    BY <1>1, MsgsFinite
  <1>3. count' \in 0..MaxMsg /\ oldcount' \in 0..MaxMsg
    BY <1>2, MonusType DEF TypeOK, Expunge
  <1>4. Monus(count', oldcount') \in 0..MaxMsg
    BY <1>3, MonusType
  <1>5. recentcount' \in 0..MaxMsg
    BY <1>4 DEF TypeOK, Expunge
  <1> QED
    BY <1>3, <1>5 DEF TypeOK, Expunge

LEMMA AdvanceType ==
  ASSUME TypeOK, NEW f \in Nat, Advance(f)
  PROVE  /\ fetches' \in Nat /\ result' = "none" /\ pc' \in {"check", "done"}
         /\ num' \in 0..MaxMsg
  BY BoundsAssumption DEF TypeOK, Advance

LEMMA FetchesType ==
  ASSUME TypeOK PROVE FetchesAfter \in Nat
  BY DEF TypeOK, FetchesAfter

\* The verdicts and the counts of copies.
LEMMA SettleType ==
  ASSUME TypeOK, NEW m \in Msgs,
         NEW f \in {"accepted", "refused", "discarded"}, Settle(m, f)
  PROVE  /\ fate' \in [Msgs -> {"waiting", "accepted", "refused", "discarded", "taken"}]
         /\ Settled(m)'
         /\ \A k \in Msgs : Settled(k) => Settled(k)'
         /\ \A k \in Msgs \ {m} : fate'[k] = fate[k]
  BY DEF TypeOK, Settle, Settled

LEMMA CopyType ==
  ASSUME TypeOK, NEW m \in Msgs, CountCopy(m)
  PROVE  copies' \in [Msgs -> 0..MaxCopies]
  <1>1. ASSUME NEW c \in 0..MaxCopies
        PROVE  (IF c < MaxCopies THEN c + 1 ELSE c) \in 0..MaxCopies
    BY BoundsAssumption
  <1> QED
    BY <1>1 DEF TypeOK, CountCopy

LEMMA TakenType ==
  ASSUME TypeOK, NEW S \in SUBSET Msgs, Taken(S)
  PROVE  /\ fate' \in [Msgs -> {"waiting", "accepted", "refused", "discarded", "taken"}]
         /\ \A m \in S : Settled(m)'
         /\ \A k \in Msgs : Settled(k) => Settled(k)'
         /\ \A k \in Msgs \ S : fate'[k] = fate[k]
  BY DEF TypeOK, Taken, Settled

LEMMA FaultType ==
  ASSUME TypeOK, Fault PROVE faults' \in 0..MaxFaults
  BY BoundsAssumption DEF TypeOK, Fault

LEMMA MeddleType ==
  ASSUME TypeOK, Meddle PROVE meddling' \in 0..MaxMeddling
  BY BoundsAssumption DEF TypeOK, Meddle

LEMMA TypeStep ==
  IInv /\ [Next]_vars => TypeOK'
  <1> SUFFICES ASSUME IInv, [Next]_vars PROVE TypeOK'
    OBVIOUS
  <1> USE DEF serverVars, imapVars, loopVars, rangeVars, mailVars
  <1>0. TypeOK
    BY DEF IInv
  <1>1. CASE Arrive
    BY <1>0, <1>1, BoundsAssumption DEF TypeOK, Arrive, Msgs
  <1>2. CASE Announce
    BY <1>0, <1>2, ExistsType DEF TypeOK, Announce
  <1>3. CASE OtherClient
    <2>1. /\ fate' \in [Msgs -> {"waiting", "accepted", "refused", "discarded", "taken"}]
          /\ meddling' \in 0..MaxMeddling
      BY <1>0, <1>3, TakenType, MeddleType DEF OtherClient, TypeOK
    <2> QED
      BY <1>0, <1>3, <2>1 DEF TypeOK, OtherClient
  <1>4. CASE OtherAccount
    BY <1>0, <1>4, MeddleType DEF TypeOK, OtherAccount
  <1>5. CASE Restart
    <2>1. force' \in BOOLEAN
      BY <1>5 DEF Restart
    <2> QED
      BY <1>0, <1>5, <2>1, FaultType, BoundsAssumption DEF TypeOK, Restart, PCs
  <1>6. CASE SessionLost
    <2>1. force' \in BOOLEAN
      BY <1>6 DEF SessionLost, Hangup
    <2> QED
      BY <1>0, <1>6, <2>1, FaultType, BoundsAssumption
      DEF TypeOK, SessionLost, Hangup, PCs
  <1>7. CASE ExpungeReplyLost
    <2>1. force' \in BOOLEAN
      BY <1>7 DEF ExpungeReplyLost, Hangup
    <2> QED
      BY <1>0, <1>7, <2>1, FaultType, BoundsAssumption
      DEF TypeOK, ExpungeReplyLost, Hangup, PCs
  <1>8. CASE CommandRefused
    BY <1>0, <1>8, FaultType, BoundsAssumption DEF TypeOK, CommandRefused, PCs
  <1>9. CASE Login
    <2>1. dispatches' \in BOOLEAN /\ errcount' \in BOOLEAN
      BY <1>9 DEF Login
    <2> QED
      BY <1>0, <1>9, <2>1 DEF TypeOK, Login, PCs
  <1>10. CASE Select
    <2>1. Cardinality(mbox) \in 0..MaxMsg
      BY <1>0, MsgsFinite DEF TypeOK
    <2> QED
      BY <1>0, <1>10, <2>1, BoundsAssumption DEF TypeOK, Select, AfterSelect, PCs
  <1>11. CASE Purge
    <2>1. expunged' \in Nat /\ deletions' \in Nat /\ pc' \in PCs
      BY <1>0, <1>11 DEF TypeOK, Purge, InternalExpunge, AfterSelect, PCs
    <2> QED
      BY <1>0, <1>11, <2>1, ExpungeType DEF TypeOK, Purge, InternalExpunge
  <1>12. CASE IdleExists
    <2>1. pc' \in PCs
      BY <1>12 DEF IdleExists, PCs
    <2> QED
      BY <1>0, <1>12, <2>1, ExistsType DEF TypeOK, IdleExists
  <1>13. CASE IdleExpunge
    <2>1. pc' \in PCs
      BY <1>13 DEF IdleExpunge, PCs
    <2>2. Cardinality(view \ mbox) \in Nat
      BY <1>0, MsgsFinite, view \ mbox \in SUBSET Msgs DEF TypeOK
    <2>3. count' \in 0..MaxMsg /\ oldcount' \in 0..MaxMsg
      BY <1>0, <1>13, <2>2, MonusType DEF TypeOK, IdleExpunge
    <2>4. recentcount' \in 0..MaxMsg
      BY <1>13, <2>3, MonusType DEF IdleExpunge
    <2> QED
      BY <1>0, <1>13, <2>1, <2>3, <2>4 DEF TypeOK, IdleExpunge
  <1>14. CASE Search
    <2>1. pc' \in PCs /\ num' \in 0..MaxMsg
      BY <1>0, <1>14, BoundsAssumption DEF TypeOK, Search, PCs
    <2>2. \A m \in view : Number(view, m) \in Msgs
      <3>1. /\ view \in SUBSET Nat /\ IsFiniteSet(view)
            /\ Cardinality(view) \in 0..MaxMsg
        BY <1>0, MsgsFinite DEF TypeOK
      <3>2. \A m \in view : Number(view, m) \in 1..Cardinality(view)
        BY <3>1, NumberType
      <3> QED
        BY <3>1, <3>2, BoundsAssumption DEF Msgs
    <2>3. unseen' \subseteq Msgs
      BY <1>14, <2>2 DEF Search, SearchFinds
    <2>4. force' \in BOOLEAN /\ dispatches' \in BOOLEAN
      BY <1>0, <1>14, OptionsAssumption
      DEF TypeOK, Search, ForceRetrieval, OptionType
    <2> QED
      BY <1>0, <1>14, <2>1, <2>3, <2>4, BoundsAssumption DEF TypeOK, Search
  <1>15. CASE Check
    <2>1. pc' \in PCs /\ result' \in Results \cup {"none", "open"}
      BY <1>15 DEF Check, PCs, Results
    <2> QED
      BY <1>0, <1>15, <2>1 DEF TypeOK, Check
  <1>16. CASE Headers
    <2>1. Addressed(num) \in Msgs
      BY <1>16, Current DEF Headers, InLoop
    <2>2. /\ fate' \in [Msgs -> {"waiting", "accepted", "refused", "discarded", "taken"}]
          /\ faults' \in 0..MaxFaults /\ deferred' \subseteq Msgs
      BY <1>0, <1>16, <2>1, SettleType, FaultType DEF Headers, TypeOK
    <2>3. pc' \in PCs /\ result' \in Results \cup {"none", "open"}
      BY <1>16 DEF Headers, PCs, Results
    <2> QED
      BY <1>0, <1>16, <2>2, <2>3 DEF TypeOK, Headers
  <1>17. CASE HeadersTransient
    <2>1. Addressed(num) \in Msgs
      BY <1>17, Current DEF HeadersTransient, InLoop
    <2>2. faults' \in 0..MaxFaults
      BY <1>0, <1>17, FaultType DEF HeadersTransient, TypeOK
    <2>3. pc' \in PCs /\ num' \in 0..MaxMsg
      BY <1>0, <1>17, BoundsAssumption DEF HeadersTransient, PCs, TypeOK
    <2> QED
      BY <1>0, <1>17, <2>1, <2>2, <2>3 DEF TypeOK, HeadersTransient
  <1>18. CASE Ship
    <2> DEFINE m == Addressed(num)
    <2>1. m \in Msgs
      BY <1>18, Current DEF Ship, InLoop
    <2> HIDE DEF m
    <2>2. /\ fate' \in [Msgs -> {"waiting", "accepted", "refused", "discarded", "taken"}]
          /\ copies' \in [Msgs -> 0..MaxCopies] /\ faults' \in 0..MaxFaults
          /\ errcount' \in BOOLEAN
      <3>1. \/ /\ Settle(m, "accepted") /\ CountCopy(m) /\ UNCHANGED <<errcount, faults>>
            \/ /\ Settle(m, "refused") /\ UNCHANGED <<errcount, copies, faults>>
            \/ /\ errcount' = TRUE /\ Fault
               /\ UNCHANGED <<fate, copies>> \/ (Settle(m, "accepted") /\ CountCopy(m))
        BY <1>18 DEF Ship, m
      <3> QED
        BY <1>0, <2>1, <3>1, SettleType, CopyType, FaultType DEF TypeOK
    <2>3. pc' \in PCs /\ result' \in Results \cup {"none", "open"}
      BY <1>18 DEF Ship, PCs, Results
    <2>4. seen' \subseteq Msgs
      BY <1>0, <1>18, <2>1 DEF Ship, TypeOK, m
    <2> QED
      BY <1>0, <1>18, <2>2, <2>3, <2>4 DEF TypeOK, Ship
  <1>19. CASE ShipGone
    BY <1>0, <1>19, BoundsAssumption DEF TypeOK, ShipGone, PCs
  <1>20. CASE FlagLeave
    BY <1>0, <1>20, AdvanceType, FetchesType DEF TypeOK, FlagLeave, PCs
  <1>21. CASE FlagSeen
    BY <1>0, <1>21, AdvanceType, FetchesType DEF TypeOK, FlagSeen, PCs
  <1>22. CASE FlagDelete
    <2>1. Addressed(num) \in Msgs
      BY <1>22, Current DEF FlagDelete, InLoop
    <2>2. fate' \in [Msgs -> {"waiting", "accepted", "refused", "discarded", "taken"}]
      BY <1>0, <1>22, <2>1, SettleType DEF FlagDelete, TypeOK
    <2>3. /\ fetches' \in Nat /\ pc' \in PCs /\ num' \in 0..MaxMsg
          /\ result' \in Results \cup {"none", "open"}
      BY <1>0, <1>22, AdvanceType, FetchesType DEF FlagDelete, TypeOK, PCs
    <2>4. deletions' \in Nat /\ deleted' \subseteq Msgs /\ seen' \subseteq Msgs
      BY <1>0, <1>22 DEF FlagDelete, TypeOK
    <2> QED
      BY <1>0, <1>22, <2>2, <2>3, <2>4 DEF TypeOK, FlagDelete
  <1>23. CASE ExpungeNow
    <2>1. expunged' \in Nat /\ deletions' \in Nat
      BY <1>0, <1>23 DEF TypeOK, ExpungeNow, InternalExpunge
    <2>2. /\ fetches' \in Nat /\ pc' \in PCs /\ num' \in 0..MaxMsg
          /\ result' \in Results \cup {"none", "open"}
      BY <1>0, <1>23, AdvanceType, BoundsAssumption DEF ExpungeNow, TypeOK, PCs
    <2> QED
      BY <1>0, <1>23, <2>1, <2>2, ExpungeType
      DEF TypeOK, ExpungeNow, InternalExpunge
  <1>24. CASE EndMailbox
    <2>1. /\ mbox' \subseteq Msgs /\ view' \subseteq Msgs
          /\ deleted' \subseteq Msgs /\ seen' \subseteq Msgs
          /\ count' \in 0..MaxMsg /\ oldcount' \in 0..MaxMsg
          /\ recentcount' \in 0..MaxMsg /\ expunged' \in Nat /\ deletions' \in Nat
      <3>1. CASE deletions > 0
        BY <1>0, <1>24, <3>1, ExpungeType DEF EndMailbox, InternalExpunge, TypeOK
      <3>2. CASE ~(deletions > 0)
        BY <1>0, <1>24, <3>2 DEF EndMailbox, TypeOK
      <3> QED
        BY <3>1, <3>2
    <2>2. pc' \in PCs /\ pass' \in 0..2
      BY <1>0, <1>24 DEF EndMailbox, PCs, TypeOK
    <2> QED
      BY <1>0, <1>24, <2>1, <2>2 DEF TypeOK, EndMailbox
  <1>25. CASE Logout
    <2>1. /\ mbox' \subseteq Msgs /\ deleted' \subseteq Msgs /\ seen' \subseteq Msgs
          /\ deletions' \in Nat
      BY <1>0, <1>25 DEF Logout, TypeOK
    <2>2. force' \in BOOLEAN
      BY <1>25 DEF Logout, Hangup
    <2> QED
      BY <1>0, <1>25, <2>1, <2>2, BoundsAssumption DEF TypeOK, Logout, Hangup, PCs
  <1>26. CASE UNCHANGED vars
    BY <1>0, <1>26 DEF TypeOK, vars
  <1> QED
    BY <1>1, <1>2, <1>3, <1>4, <1>5, <1>6, <1>7, <1>8, <1>9, <1>10, <1>11,
       <1>12, <1>13, <1>14, <1>15, <1>16, <1>17, <1>18, <1>19, <1>20, <1>21,
       <1>22, <1>23, <1>24, <1>25, <1>26
    DEF Next, ClientStep, FaultStep

-----------------------------------------------------------------------------
(* The order of arrival.                                                   *)

LEMMA ExpungeShape ==
  ASSUME TypeOK, Expunge
  PROVE  /\ mbox' \subseteq mbox /\ view' \subseteq view
         /\ \A m \in mbox' \ view' : m \in mbox \ view
  BY DEF TypeOK, Expunge, Gone

\* Nothing gets a number out of turn when sets shrink and none is announced.
LEMMA ArrivalQuiet ==
  ASSUME ArrivalInv, next' = next, mbox' \subseteq mbox, view' \subseteq view,
         listed' \subseteq listed, Selected' => Selected,
         Selected' => \A m \in mbox' \ view' : m \in mbox \ view
  PROVE  ArrivalInv'
  BY DEF ArrivalInv

LEMMA ArrivalStep ==
  IInv /\ [Next]_vars => ArrivalInv'
  <1> SUFFICES ASSUME IInv, [Next]_vars PROVE ArrivalInv'
    OBVIOUS
  <1> USE DEF serverVars, imapVars, loopVars, rangeVars, mailVars
  <1>0. TypeOK /\ ArrivalInv
    BY DEF IInv
  <1>1. CASE Arrive
    <2>1. next \in Nat
      BY <1>0 DEF TypeOK
    <2>2. \A k \in 1..(next - 1) : k < next /\ k \in 1..next
      BY <2>1
    <2>3. next \in 1..((next + 1) - 1) /\ 1..((next + 1) - 1) = 1..next
      BY <1>0, <2>1 DEF TypeOK
    <2> QED
      BY <1>0, <1>1, <2>2, <2>3 DEF ArrivalInv, Arrive, Selected
  <1>2. CASE Announce
    <2>1. /\ view' = view \cup mbox /\ mbox' = mbox /\ listed' = listed /\ next' = next
      BY <1>2 DEF Announce, Exists
    <2> QED
      BY <1>0, <2>1 DEF ArrivalInv
  <1>3. CASE OtherClient
    <2>1. mbox' \subseteq mbox /\ view' = view /\ next' = next /\ listed' = listed
          /\ pc' = pc
      BY <1>3 DEF OtherClient
    <2> QED
      BY <1>0, <2>1, ArrivalQuiet DEF Selected
  <1>4. CASE OtherAccount
    BY <1>0, <1>4, ArrivalQuiet DEF OtherAccount, Selected
  <1>5. CASE FaultStep \/ Logout
    <2>1. /\ mbox' \subseteq mbox /\ view' \subseteq view /\ next' = next
          /\ listed' \subseteq listed /\ ~Selected'
      BY <1>5
      DEF FaultStep, Restart, SessionLost, ExpungeReplyLost, CommandRefused,
          Logout, Hangup, Selected
    <2> QED
      BY <1>0, <2>1, ArrivalQuiet
  <1>6. CASE Login
    BY <1>0, <1>6, ArrivalQuiet DEF Login, Selected
  <1>7. CASE Select
    <2>1. /\ view' = mbox /\ mbox' = mbox /\ listed' = listed /\ next' = next
      BY <1>7 DEF Select
    <2> QED
      BY <1>0, <2>1 DEF ArrivalInv
  <1>8. CASE Purge
    BY <1>0, <1>8, ExpungeShape, ArrivalQuiet DEF Purge, InternalExpunge, Selected
  <1>9. CASE IdleExists
    <2>1. /\ view' = view \cup mbox /\ mbox' = mbox /\ listed' = listed /\ next' = next
      BY <1>9 DEF IdleExists, Exists
    <2> QED
      BY <1>0, <2>1 DEF ArrivalInv
  <1>10. CASE IdleExpunge
    <2>1. \A m \in mbox' \ view' : m \in mbox \ view
      BY <1>10 DEF IdleExpunge
    <2> QED
      BY <1>0, <1>10, <2>1, ArrivalQuiet DEF IdleExpunge, Selected
  <1>11. CASE Search
    <2>1. /\ view' = view /\ mbox' = mbox /\ listed' = view /\ next' = next
          /\ pc = "search"
      BY <1>11 DEF Search
    <2> QED
      BY <1>0, <2>1 DEF ArrivalInv, Selected
  <1>12. CASE \/ Check \/ Headers \/ HeadersTransient \/ Ship \/ ShipGone
              \/ FlagLeave \/ FlagSeen \/ FlagDelete
    <2>1. /\ mbox' = mbox /\ view' = view /\ next' = next /\ listed' = listed
          /\ Selected
      BY <1>12 DEF Check, Headers, HeadersTransient, Ship, ShipGone, FlagLeave,
                   FlagSeen, FlagDelete, Selected
    <2> QED
      BY <1>0, <2>1, ArrivalQuiet
  <1>13. CASE ExpungeNow
    BY <1>0, <1>13, ExpungeShape, ArrivalQuiet
    DEF ExpungeNow, InternalExpunge, Selected
  <1>14. CASE EndMailbox
    <2>1. /\ mbox' \subseteq mbox /\ view' \subseteq view
          /\ \A m \in mbox' \ view' : m \in mbox \ view
      BY <1>0, <1>14, ExpungeShape DEF EndMailbox, InternalExpunge
    <2> QED
      BY <1>0, <1>14, <2>1, ArrivalQuiet DEF EndMailbox, Selected
  <1>15. CASE UNCHANGED vars
    BY <1>0, <1>15, ArrivalQuiet DEF vars, Selected
  <1> QED
    BY <1>1, <1>2, <1>3, <1>4, <1>5, <1>6, <1>7, <1>8, <1>9, <1>10, <1>11,
       <1>12, <1>13, <1>14, <1>15
    DEF Next, ClientStep

-----------------------------------------------------------------------------
(* The counters.                                                           *)

\* EXISTS: the messages beyond the old count are new.
LEMMA ExistsCounts ==
  ASSUME TypeOK, Exists, listed' = listed, oldcount' = oldcount,
         oldcount <= Cardinality(view \cap listed)
  PROVE  CountInv'
  <1>1. view' \in SUBSET Msgs /\ view \cap listed \in SUBSET view' \cap listed
    BY DEF TypeOK, Exists
  <1>2. view' \cap listed \in SUBSET Msgs
    BY <1>1
  <1>3. /\ Cardinality(view \cap listed) <= Cardinality(view' \cap listed)
        /\ Cardinality(view \cap listed) \in Nat
        /\ Cardinality(view' \cap listed) \in Nat
    BY <1>1, <1>2, SubsetCounts
  <1>4. oldcount' <= Cardinality(view' \cap listed')
    BY <1>3 DEF TypeOK
  <1>5. count' = Cardinality(view') /\ count' \in 0..MaxMsg
    BY ExistsType DEF Exists
  <1>6. recentcount' >= count' - oldcount'
    BY <1>5, MonusType DEF Exists, TypeOK
  <1> QED
    BY <1>4, <1>5, <1>6 DEF CountInv

\* Removing the messages G: both counts shrink, the old one at least by what
\* the range has lost.
LEMMA RemovalCounts ==
  ASSUME NEW V \in SUBSET Msgs, NEW L \in SUBSET Msgs, NEW G \in SUBSET V,
         NEW old \in 0..MaxMsg, old <= Cardinality(V \cap L)
  PROVE  /\ Monus(Cardinality(V), Cardinality(G)) = Cardinality(V \ G)
         /\ Monus(old, Cardinality(G)) <= Cardinality((V \ G) \cap L)
         /\ Monus(Cardinality(V), Cardinality(G)) \in 0..MaxMsg
         /\ Monus(old, Cardinality(G)) \in 0..MaxMsg
  <1>1. /\ Cardinality(V) \in 0..MaxMsg /\ Cardinality(G) \in Nat
        /\ Cardinality(G) <= Cardinality(V)
        /\ Cardinality((V \ G) \cap L) \in Nat /\ Cardinality(V \cap L) \in Nat
    BY MsgsFinite, SubsetCounts, G \in SUBSET Msgs, (V \ G) \cap L \in SUBSET Msgs,
       V \cap L \in SUBSET Msgs
  <1>2. /\ Cardinality(V \ G) = Cardinality(V) - Cardinality(G)
        /\ Cardinality((V \ G) \cap L) >= Cardinality(V \cap L) - Cardinality(G)
    BY RemoveCounts
  <1> QED
    BY <1>1, <1>2, BoundsAssumption DEF Monus

LEMMA ExpungeCounts ==
  ASSUME TypeOK, CountInv, Selected, Expunge, listed' = listed
  PROVE  CountInv'
  <1>1. /\ view \in SUBSET Msgs /\ listed \in SUBSET Msgs /\ Gone \in SUBSET view
        /\ oldcount \in 0..MaxMsg /\ oldcount <= Cardinality(view \cap listed)
        /\ count = Cardinality(view) /\ recentcount >= count - oldcount
    BY DEF TypeOK, CountInv, Gone
  <1>2. view' = view \ Gone
    BY DEF Expunge
  <1>3. /\ count' = Cardinality(view') /\ count' \in 0..MaxMsg
        /\ oldcount' <= Cardinality(view' \cap listed') /\ oldcount' \in 0..MaxMsg
    BY <1>1, <1>2, RemovalCounts DEF Expunge
  <1>4. recentcount' >= count' - oldcount'
    <2>1. CASE Gone = {}
      <3>1. Cardinality(Gone) = 0
        BY <2>1, FS_EmptySet
      <3>2. count' = count /\ oldcount' = oldcount /\ recentcount' = recentcount
        BY <2>1, <3>1 DEF Expunge, Monus, TypeOK
      <3> QED
        BY <1>1, <3>2
    <2>2. CASE Gone # {}
      <3>1. Monus(count', oldcount') >= count' - oldcount'
        BY <1>3, MonusType
      <3> QED
        BY <2>2, <3>1 DEF Expunge
    <2> QED
      BY <2>1, <2>2
  <1> QED
    BY <1>3, <1>4 DEF CountInv

LEMMA CountQuiet ==
  ASSUME CountInv, Selected' => Selected,
         UNCHANGED <<count, oldcount, recentcount, view, listed>>
  PROVE  CountInv'
  BY DEF CountInv

LEMMA CountStep ==
  IInv /\ [Next]_vars => CountInv'
  <1> SUFFICES ASSUME IInv, [Next]_vars PROVE CountInv'
    OBVIOUS
  <1> USE DEF serverVars, imapVars, loopVars, rangeVars, mailVars
  <1>0. TypeOK /\ CountInv
    BY DEF IInv
  <1>1. CASE Arrive \/ OtherClient
    BY <1>0, <1>1, CountQuiet DEF Arrive, OtherClient, Selected
  <1>2. CASE Announce
    <2>1. CASE pc = "logout"
      BY <1>2, <2>1 DEF Announce, CountInv, Selected
    <2>2. CASE pc # "logout"
      <3>1. Selected
        BY <1>2, <2>2 DEF Announce, Selected
      <3> QED
        BY <1>0, <1>2, <3>1, ExistsCounts DEF Announce, CountInv
    <2> QED
      BY <2>1, <2>2
  <1>3. CASE OtherAccount \/ FaultStep \/ Logout \/ Login
    BY <1>3
    DEF OtherAccount, FaultStep, Restart, SessionLost, ExpungeReplyLost,
        CommandRefused, Logout, Login, Hangup, Selected, CountInv
  <1>4. CASE Select
    <2>1. /\ view' = mbox /\ count' = Cardinality(mbox) /\ recentcount' = count'
          /\ oldcount' = 0
      BY <1>4 DEF Select
    <2>2. mbox \cap listed' \in SUBSET Msgs /\ mbox \in SUBSET Msgs
      BY <1>0 DEF TypeOK
    <2>3. Cardinality(mbox \cap listed') \in Nat /\ Cardinality(mbox) \in Nat
      BY <2>2, MsgsFinite
    <2> QED
      BY <2>1, <2>3 DEF CountInv
  <1>5. CASE Purge
    BY <1>0, <1>5, ExpungeCounts DEF Purge, InternalExpunge, Selected
  <1>6. CASE IdleExists
    BY <1>0, <1>6, ExistsCounts DEF IdleExists, CountInv, Selected
  <1>7. CASE IdleExpunge
    <2>1. /\ view \in SUBSET Msgs /\ listed \in SUBSET Msgs
          /\ view \ mbox \in SUBSET view /\ oldcount \in 0..MaxMsg
          /\ oldcount <= Cardinality(view \cap listed) /\ count = Cardinality(view)
      BY <1>0, <1>7 DEF TypeOK, CountInv, Selected, IdleExpunge
    <2>2. view' = view \ (view \ mbox) /\ listed' = listed
      BY <1>7 DEF IdleExpunge
    <2>3. /\ count' = Cardinality(view') /\ count' \in 0..MaxMsg
          /\ oldcount' <= Cardinality(view' \cap listed') /\ oldcount' \in 0..MaxMsg
      BY <1>7, <2>1, <2>2, RemovalCounts DEF IdleExpunge
    <2>4. Monus(count', oldcount') >= count' - oldcount'
      BY <2>3, MonusType
    <2> QED
      BY <1>7, <2>3, <2>4 DEF IdleExpunge, CountInv
  <1>8. CASE Search
    <2>1. count = Cardinality(view)
      BY <1>0, <1>8 DEF Search, CountInv, Selected
    <2>2. /\ count' = count /\ oldcount' = count /\ recentcount' = 0
          /\ view' = view /\ listed' = view
      BY <1>8 DEF Search
    <2>3. Cardinality(view' \cap listed') = Cardinality(view)
      BY <2>2, view \cap view = view
    <2>4. count \in Nat
      BY <1>0 DEF TypeOK
    <2>5. oldcount' <= Cardinality(view' \cap listed') /\ recentcount' >= count' - oldcount'
      BY <2>1, <2>2, <2>3, <2>4
    <2> QED
      BY <2>1, <2>2, <2>5 DEF CountInv
  <1>9. CASE \/ Check \/ Headers \/ HeadersTransient \/ Ship \/ ShipGone
             \/ FlagLeave \/ FlagSeen \/ FlagDelete
    <2>1. UNCHANGED <<count, oldcount, recentcount, view, listed>> /\ Selected
      BY <1>9 DEF Check, Headers, HeadersTransient, Ship, ShipGone, FlagLeave,
                   FlagSeen, FlagDelete, Selected
    <2> QED
      BY <1>0, <2>1, CountQuiet
  <1>10. CASE ExpungeNow
    BY <1>0, <1>10, ExpungeCounts DEF ExpungeNow, InternalExpunge, Selected
  <1>11. CASE EndMailbox
    <2>1. Selected /\ listed' = listed
      BY <1>11 DEF EndMailbox, Selected
    <2>2. CASE deletions > 0
      BY <1>0, <1>11, <2>1, <2>2, ExpungeCounts DEF EndMailbox, InternalExpunge
    <2>3. CASE ~(deletions > 0)
      BY <1>0, <1>11, <2>1, <2>3, CountQuiet DEF EndMailbox
    <2> QED
      BY <2>2, <2>3
  <1>12. CASE UNCHANGED vars
    BY <1>0, <1>12, CountQuiet DEF vars, Selected
  <1> QED
    BY <1>1, <1>2, <1>3, <1>4, <1>5, <1>6, <1>7, <1>8, <1>9, <1>10, <1>11, <1>12
    DEF Next, ClientStep

-----------------------------------------------------------------------------
(* The range and its numbers.                                              *)

LEMMA ListedNumbers ==
  ASSUME TypeOK
  PROVE  \A m \in listed : Number(listed, m) \in Nat
  <1>1. /\ IsFiniteSet(listed) /\ listed \in SUBSET Nat
        /\ Cardinality(listed) \in 0..MaxMsg
    BY MsgsFinite DEF TypeOK
  <1>2. \A m \in listed : Number(listed, m) \in 1..Cardinality(listed)
    BY <1>1, NumberType
  <1> QED
    BY <1>1, <1>2

\* The loop goes on: it is through with one message more.
LEMMA AdvancePassed ==
  ASSUME IInv, InLoop \/ pc = "expunge", listed' = listed, total' = total,
         \/ pc' = "check" /\ num' = num + 1 /\ num < total
         \/ pc' = "done"
  PROVE  /\ Passed \subseteq Passed'
         /\ \A m \in listed : Number(listed, m) = num => m \in Passed'
         /\ pc' # "done" => num' \in 1..total'
  <1>1. /\ num \in 1..total /\ total \in Nat /\ num \in Nat
        /\ \A m \in listed : Number(listed, m) \in Nat
    BY ListedNumbers DEF IInv, RangeInv, TypeOK, InLoop, Scanning
  <1>2. CASE pc' = "done"
    BY <1>2 DEF Passed
  <1>3. CASE pc' = "check" /\ num' = num + 1 /\ num < total
    <2>1. \A m \in listed : Number(listed, m) <= num <=> Number(listed, m) < num + 1
      BY <1>1
    <2>2. \A m \in listed : Number(listed, m) < num => Number(listed, m) <= num
      BY <1>1
    <2>3. num <= num
      BY <1>1
    <2>4. \A m \in Passed : Number(listed, m) <= num
      BY <2>2, <2>3 DEF Passed, InLoop
    <2>5. \A m \in listed : Number(listed, m) <= num => m \in Passed'
      BY <1>3, <2>1 DEF Passed
    <2>6. num' \in 1..total'
      BY <1>1, <1>3
    <2> QED
      BY <2>3, <2>4, <2>5, <2>6 DEF Passed
  <1> QED
    BY <1>2, <1>3

\* A step that takes no number away and deletes nothing of fetchmail's own.
LEMMA RangeQuiet ==
  ASSUME IInv, Scanning, listed' = listed, total' = total,
         expunged' = expunged, deletions' = deletions,
         listed \ view' = listed \ view,
         \A k \in listed, m \in view' \ listed : k < m,
         Passed \subseteq Passed', Gone \subseteq Gone', Gone' \subseteq Msgs,
         pc' # "done" => num' \in 1..total',
         pc' = "expunge" => pc = "expunge"
  PROVE  RangeInv'
  <1>1. /\ total = Cardinality(listed) /\ Cardinality(listed \ view) = expunged
        /\ listed \ view \subseteq Passed
        /\ pc = "expunge" => deletions > 0
        /\ Cardinality(Gone \cap Passed) >= deletions /\ deletions \in Nat
    BY DEF IInv, RangeInv, TypeOK
  <1>2. /\ Gone \cap Passed \in SUBSET (Gone' \cap Passed')
        /\ Gone' \cap Passed' \in SUBSET Msgs
    OBVIOUS
  <1>3. /\ Cardinality(Gone \cap Passed) <= Cardinality(Gone' \cap Passed')
        /\ Cardinality(Gone \cap Passed) \in Nat
        /\ Cardinality(Gone' \cap Passed') \in Nat
    BY <1>2, SubsetCounts
  <1>4. Cardinality(Gone' \cap Passed') >= deletions'
    BY <1>1, <1>3
  <1> QED
    BY <1>1, <1>4 DEF RangeInv

LEMMA GoneType ==
  TypeOK => Gone \in SUBSET view /\ Gone \in SUBSET Msgs
  BY DEF TypeOK, Gone

\* A step of the loop that leaves the server's mailbox and flags alone.
LEMMA RangeLoop ==
  ASSUME IInv, Scanning, UNCHANGED <<listed, total, expunged, deletions, view>>,
         Passed \subseteq Passed', Gone \subseteq Gone', Gone' \subseteq Msgs,
         pc' # "done" => num' \in 1..total', pc' = "expunge" => pc = "expunge"
  PROVE  RangeInv'
  <1>1. \A k \in listed, m \in view' \ listed : k < m
    BY DEF IInv, RangeInv
  <1> QED
    BY <1>1, RangeQuiet

LEMMA RangeStep ==
  IInv /\ [Next]_vars => RangeInv'
  <1> SUFFICES ASSUME IInv, [Next]_vars, Scanning' PROVE RangeInv'
    BY DEF RangeInv
  <1> USE DEF serverVars, imapVars, loopVars, rangeVars, mailVars
  <1>0. TypeOK /\ ArrivalInv /\ RangeInv /\ TypeOK'
    BY TypeStep DEF IInv
  <1>g. Gone' \subseteq Msgs
    BY <1>0 DEF TypeOK, Gone
  <1>n. Scanning /\ pc # "done" => num \in 1..total
    BY <1>0 DEF RangeInv
  <1>1. CASE Arrive
    <2>1. Scanning /\ UNCHANGED <<listed, total, expunged, deletions, view, pc, num>>
      BY <1>1 DEF Arrive, Scanning
    <2>2. Gone \subseteq Gone'
      <3>1. next \notin view
        BY <1>0 DEF ArrivalInv, TypeOK
      <3> QED
        BY <1>0, <1>1, <3>1 DEF Arrive, Gone
    <2>3. Passed \subseteq Passed'
      BY <2>1 DEF Passed
    <2> QED
      BY <1>g, <1>n, <2>1, <2>2, <2>3, RangeLoop
  <1>2. CASE Announce
    <2>1. /\ Scanning /\ Selected
          /\ UNCHANGED <<listed, total, expunged, deletions, pc, num, mbox, deleted>>
          /\ view' = view \cup mbox
      BY <1>2 DEF Announce, Exists, Scanning, Selected
    <2>2. \A k \in listed, m \in mbox \ view : k < m
      BY <1>0, <2>1 DEF ArrivalInv
    <2>3. listed \in SUBSET Nat
      BY <1>0, MsgsFinite DEF TypeOK
    <2>4. ASSUME NEW m \in mbox \ view PROVE m \notin listed
      <3>1. SUFFICES ASSUME m \in listed PROVE FALSE
        OBVIOUS
      <3>2. m < m /\ m \in Nat
        BY <2>2, <2>3, <3>1
      <3> QED
        BY <3>2
    <2>5. listed \ view' = listed \ view
      BY <2>1, <2>4
    <2>6. \A k \in listed, m \in view' \ listed : k < m
      BY <1>0, <2>1, <2>2 DEF RangeInv
    <2>7. Gone \subseteq Gone' /\ Passed \subseteq Passed'
      BY <2>1 DEF Gone, Passed
    <2> QED
      BY <1>g, <1>n, <2>1, <2>5, <2>6, <2>7, RangeQuiet
  <1>3. CASE OtherClient
    <2>1. Scanning /\ UNCHANGED <<listed, total, expunged, deletions, view, pc, num>>
      BY <1>3 DEF OtherClient, Scanning
    <2>2. Gone \subseteq Gone'
      BY <1>0, <1>3 DEF OtherClient, Gone, TypeOK
    <2>3. Passed \subseteq Passed'
      BY <2>1 DEF Passed
    <2> QED
      BY <1>g, <1>n, <2>1, <2>2, <2>3, RangeLoop
  <1>4. CASE Search
    <2>1. /\ listed' = view /\ view' = view /\ total' = count /\ expunged' = 0
          /\ deletions' = 0 /\ num' = 1 /\ pc' = "check" /\ count > 0
      BY <1>4 DEF Search, Scanning
    <2>2. count = Cardinality(view) /\ count \in Nat
      BY <1>4 DEF Search, IInv, CountInv, Selected, TypeOK
    <2>3. listed' \ view' = {} /\ view' \ listed' = {} /\ Cardinality({}) = 0
      BY <2>1, FS_EmptySet
    <2>4. Gone' \cap Passed' \in SUBSET Msgs
      BY <1>g
    <2>5. Cardinality(Gone' \cap Passed') \in Nat
      BY <2>4, MsgsFinite
    <2>6. /\ Cardinality(Gone' \cap Passed') >= deletions' /\ num' \in 1..total'
          /\ total' = Cardinality(listed') /\ Cardinality(listed' \ view') = expunged'
      BY <2>1, <2>2, <2>3, <2>5
    <2> QED
      BY <2>1, <2>3, <2>6 DEF RangeInv
  <1>5. CASE Check \/ Headers \/ Ship
    <2>1. /\ Scanning /\ UNCHANGED <<listed, total, expunged, deletions, view, num>>
          /\ UNCHANGED <<mbox, deleted>>
          /\ pc \notin {"done", "expunge"} /\ pc' \notin {"done", "expunge"}
      BY <1>5 DEF Check, Headers, Ship, Scanning
    <2>2. Gone \subseteq Gone'
      BY <2>1 DEF Gone
    <2>3. Passed \subseteq Passed'
      BY <2>1 DEF Passed
    <2> QED
      BY <1>g, <1>n, <2>1, <2>2, <2>3, RangeLoop
  <1>6. CASE HeadersTransient \/ FlagLeave \/ FlagSeen
    <2>1. /\ Scanning /\ InLoop
          /\ UNCHANGED <<listed, total, expunged, deletions, view>>
          /\ UNCHANGED <<mbox, deleted>>
          /\ \/ pc' = "check" /\ num' = num + 1 /\ num < total
             \/ pc' = "done"
      BY <1>6 DEF HeadersTransient, FlagLeave, FlagSeen, Advance, Scanning, InLoop
    <2>2. Gone \subseteq Gone'
      BY <2>1 DEF Gone
    <2>3. Passed \subseteq Passed' /\ (pc' # "done" => num' \in 1..total')
      BY <2>1, AdvancePassed
    <2> QED
      BY <1>g, <2>1, <2>2, <2>3, RangeLoop
  <1>7. CASE FlagDelete
    <2> DEFINE a == Addressed(num)
    <2>1. InLoop /\ Scanning
      BY <1>7 DEF FlagDelete, InLoop, Scanning
    <2>2. /\ num \in 1..total /\ a \in listed /\ a \in view /\ a \in Msgs
          /\ Number(listed, a) = num
      BY <2>1, Current
    <2>3. /\ UNCHANGED <<listed, total, expunged, view, mbox>>
          /\ deleted' = deleted \cup ({a} \cap mbox) /\ deletions' = deletions + 1
          /\ pc = "flag"
          /\ \/ pc' = "expunge" /\ num' = num
             \/ pc' = "check" /\ num' = num + 1 /\ num < total
             \/ pc' = "done"
      BY <1>7 DEF FlagDelete, Advance
    <2> HIDE DEF a
    <2>4. Passed \subseteq Passed' /\ a \in Passed'
          /\ (pc' # "done" => num' \in 1..total')
      <3>1. CASE pc' = "expunge" /\ num' = num
        BY <2>2, <2>3, <3>1 DEF Passed
      <3>2. CASE pc' # "expunge"
        BY <2>1, <2>2, <2>3, <3>2, AdvancePassed
      <3> QED
        BY <2>3, <3>1, <3>2
    <2>5. a \notin Passed
      <3>1. num \in Nat
        BY <1>0 DEF TypeOK
      <3> QED
        BY <2>2, <2>3, <3>1 DEF Passed
    <2>6. Gone \cup {a} \subseteq Gone'
      BY <2>2, <2>3 DEF Gone
    <2>7. /\ (Gone \cap Passed) \cup {a} \in SUBSET (Gone' \cap Passed')
          /\ Gone' \cap Passed' \in SUBSET Msgs /\ Gone \cap Passed \in SUBSET Msgs
          /\ a \notin Gone \cap Passed
      BY <1>g, <2>4, <2>5, <2>6
    <2>8. /\ Cardinality((Gone \cap Passed) \cup {a}) <= Cardinality(Gone' \cap Passed')
          /\ Cardinality((Gone \cap Passed) \cup {a}) = Cardinality(Gone \cap Passed) + 1
      BY <2>7, SubsetCounts, MsgsFinite, FS_AddElement
    <2>9. /\ Cardinality(Gone \cap Passed) \in Nat
          /\ Cardinality(Gone' \cap Passed') \in Nat
      BY <2>7, MsgsFinite
    <2>10. /\ Cardinality(Gone \cap Passed) >= deletions /\ deletions \in Nat
           /\ total = Cardinality(listed) /\ Cardinality(listed \ view) = expunged
           /\ listed \ view \subseteq Passed
           /\ \A k \in listed, m \in view \ listed : k < m
      BY <1>0, <2>1 DEF RangeInv, TypeOK
    <2>11. Cardinality(Gone' \cap Passed') >= deletions' /\ deletions' > 0
      BY <2>3, <2>8, <2>9, <2>10
    <2> QED
      BY <2>3, <2>4, <2>10, <2>11 DEF RangeInv
  <1>8. CASE ExpungeNow
    <2>1. /\ pc = "expunge" /\ Scanning /\ deletions > 0 /\ ~Mismatch
          /\ UNCHANGED <<listed, total>> /\ view' = view \ Gone
          /\ expunged' = expunged + deletions /\ deletions' = 0
          /\ \/ pc' = "check" /\ num' = num + 1 /\ num < total
             \/ pc' = "done"
      BY <1>0, <1>8
      DEF ExpungeNow, InternalExpunge, Expunge, Advance, Scanning, RangeInv
    <2>2. /\ Cardinality(Gone \cap Passed) >= deletions /\ deletions \in Nat
          /\ total = Cardinality(listed) /\ Cardinality(listed \ view) = expunged
          /\ expunged \in Nat
          /\ listed \ view \subseteq Passed
          /\ \A k \in listed, m \in view \ listed : k < m
      BY <1>0, <2>1 DEF RangeInv, TypeOK
    <2>3. Cardinality(Gone) = deletions
      BY <2>1 DEF Mismatch
    <2>4. Gone \in SUBSET Msgs /\ Gone \in SUBSET view /\ Gone \cap Passed \in SUBSET Gone
      BY <1>0, GoneType
    <2>5. Gone \cap Passed = Gone
      <3>1. /\ Cardinality(Gone \cap Passed) <= Cardinality(Gone)
            /\ Cardinality(Gone \cap Passed) \in Nat
        BY <2>4, SubsetCounts
      <3>2. Cardinality(Gone) = Cardinality(Gone \cap Passed)
        BY <2>2, <2>3, <3>1
      <3> QED
        BY <2>4, <3>2, MsgsFinite, FS_Subset
    <2>6. Gone \subseteq Passed /\ Gone \subseteq listed
      BY <2>5 DEF Passed
    <2>7. listed \ view' = (listed \ view) \cup Gone /\ (listed \ view) \cap Gone = {}
      BY <2>1, <2>4, <2>6
    <2>8. Cardinality(listed \ view') = expunged'
      <3>1. listed \ view \in SUBSET Msgs
        BY <1>0 DEF TypeOK
      <3>2. Cardinality((listed \ view) \cup Gone)
              = Cardinality(listed \ view) + Cardinality(Gone)
                   - Cardinality((listed \ view) \cap Gone)
        BY <2>4, <3>1, MsgsFinite, FS_Union
      <3>3. Cardinality((listed \ view) \cap Gone) = 0
        BY <2>7, FS_EmptySet
      <3> QED
        BY <2>1, <2>2, <2>3, <2>7, <3>2, <3>3
    <2>9. Passed \subseteq Passed' /\ (pc' # "done" => num' \in 1..total')
      BY <2>1, AdvancePassed
    <2>10. Cardinality(Gone' \cap Passed') \in Nat
      BY <1>g, MsgsFinite, Gone' \cap Passed' \in SUBSET Msgs
    <2>11. listed' \ view' \subseteq Passed'
      BY <2>1, <2>2, <2>6, <2>7, <2>9
    <2>12. Cardinality(Gone' \cap Passed') >= deletions'
      BY <2>1, <2>10
    <2> QED
      BY <2>1, <2>2, <2>8, <2>9, <2>11, <2>12 DEF RangeInv
  <1>9. CASE UNCHANGED vars
    <2>1. /\ Scanning /\ UNCHANGED <<listed, total, expunged, deletions, view, num, pc>>
          /\ UNCHANGED <<mbox, deleted>>
      BY <1>9 DEF vars, Scanning
    <2>2. Gone \subseteq Gone' /\ Passed \subseteq Passed'
      BY <2>1 DEF Gone, Passed
    <2> QED
      BY <1>g, <1>n, <2>1, <2>2, RangeLoop
  <1>10. CASE \/ OtherAccount \/ FaultStep \/ Login \/ Select \/ Purge
              \/ IdleExists \/ IdleExpunge \/ ShipGone \/ EndMailbox \/ Logout
    BY <1>10
    DEF Scanning, OtherAccount, FaultStep, Restart, SessionLost, ExpungeReplyLost,
        CommandRefused, Login, Select, Purge, AfterSelect, IdleExists,
        IdleExpunge, ShipGone, EndMailbox, Logout, Hangup
  <1> QED
    BY <1>1, <1>2, <1>3, <1>4, <1>5, <1>6, <1>7, <1>8, <1>9, <1>10
    DEF Next, ClientStep

-----------------------------------------------------------------------------
(* The invariant holds.                                                    *)

LEMMA InitHolds == Init => IInv
  <1> SUFFICES ASSUME Init PROVE IInv
    OBVIOUS
  <1>1. fate \in [Msgs -> {"waiting", "accepted", "refused", "discarded", "taken"}]
    BY DEF Init
  <1>2. copies \in [Msgs -> 0..MaxCopies]
    BY BoundsAssumption DEF Init
  <1>3. dispatches \in BOOLEAN /\ errcount \in BOOLEAN /\ force \in BOOLEAN
    BY Zenon DEF Init
  <1>4. /\ next \in 1..(MaxMsg + 1) /\ 0 \in 0..MaxMsg /\ 0 \in 0..2 /\ 0 \in Nat
        /\ 0 \in 0..MaxFaults /\ 0 \in 0..MaxMeddling
    BY BoundsAssumption DEF Init
  <1>5. TypeOK
    BY <1>1, <1>2, <1>3, <1>4, Zenon DEF Init, TypeOK, PCs
  <1>6. ArrivalInv /\ CountInv /\ RangeInv
    BY DEF Init, ArrivalInv, CountInv, RangeInv, Selected, Scanning
  <1> QED
    BY <1>5, <1>6 DEF IInv

LEMMA Invariance == Spec => []IInv
  <1>1. IInv /\ [Next]_vars => IInv'
    BY TypeStep, ArrivalStep, CountStep, RangeStep DEF IInv
  <1> QED
    BY <1>1, InitHolds, PTL DEF Spec

\* The counters of imap.c and driver.c stay in their ranges and every command
\* is sent in a state of the session that has it, through aborted sessions,
\* restarts and the steps of other clients.
THEOREM ImapTypeCorrect == Spec => []TypeOK
  <1>1. IInv => TypeOK
    BY DEF IInv
  <1> QED
    BY <1>1, Invariance, PTL

\* number - expunged, the number of imap.c's FETCH and STORE commands, names
\* for every message still to be handled the one that had this number when
\* imap_getrange computed the range, whatever has been expunged since.
THEOREM ImapNumbersMatch == Spec => []NumbersMatch
  <1>1. IInv => NumbersMatch
    BY CommandsReach DEF NumbersMatch
  <1> QED
    BY <1>1, Invariance, PTL

\* At the end of a pass and while idling, recentcount of imap.c covers every
\* message the server has announced since the range was computed, so that the
\* driver's next pass fetches it.
THEOREM ImapNewMailNoticed == Spec => []NewMailNoticed
  <1>1. ASSUME IInv PROVE NewMailNoticed
    <2>1. SUFFICES ASSUME pc \in {"done", "idle"}
                   PROVE  recentcount >= Cardinality(view \ listed)
      BY DEF NewMailNoticed
    <2>2. /\ count = Cardinality(view) /\ oldcount <= Cardinality(view \cap listed)
          /\ recentcount >= count - oldcount
          /\ count \in Nat /\ oldcount \in Nat /\ recentcount \in Nat
      BY <1>1, <2>1 DEF IInv, CountInv, Selected, TypeOK
    <2>3. /\ view \in SUBSET Msgs /\ view \cap listed \in SUBSET Msgs
          /\ view \ listed \in SUBSET Msgs
      BY <1>1 DEF IInv, TypeOK
    <2>4. Cardinality(view \ listed)
             = Cardinality(view) - Cardinality(view \cap listed)
      BY <2>3, MsgsFinite, FS_Difference
    <2>5. Cardinality(view \ listed) \in Nat /\ Cardinality(view \cap listed) \in Nat
      BY <2>3, MsgsFinite
    <2> QED
      BY <2>2, <2>4, <2>5
  <1> QED
    BY <1>1, Invariance, PTL

-----------------------------------------------------------------------------
(* Fates.  A server that cannot peek flags a message as read when its text *)
(* is fetched, so that the next search takes one whose delivery failed for *)
(* an old one; the user must not have such messages flushed.               *)

SafeOptions == \A o \in Options : o.flush => o.peek

\* What is flagged or removed has been dealt with.
MailInv ==
    /\ \A m \in Msgs : m >= next => fate[m] = "waiting"
    /\ \A m \in deleted : Settled(m)
    /\ SeenIsSettled
    /\ RemovedIsSettled

\* A message that the search did not report has been dealt with.
SearchInv ==
    Scanning /\ opt.peek /\ ~opt.fetchall =>
        \A m \in listed : Settled(m) \/ Number(listed, m) \in unseen

\* What the result of an attempt says about the message under way.
VerdictInv ==
    pc = "flag" =>
        /\ result \in Results
        /\ result \in {"shipped", "refused"} => Settled(Nth(listed, num))
        /\ result = "old" /\ opt.peek => Settled(Nth(listed, num))
        /\ result = "toolarge" => Nth(listed, num) \in Big

FateInv == MailInv /\ SearchInv /\ VerdictInv

\* A message that has been dealt with stays so.
LEMMA FatesStand ==
  ASSUME TypeOK, [Next]_vars, NEW m \in Msgs, Settled(m)
  PROVE  Settled(m)'
  <1> USE DEF serverVars, imapVars, loopVars, rangeVars, mailVars
  <1>0. fate \in [Msgs -> {"waiting", "accepted", "refused", "discarded", "taken"}]
    BY DEF TypeOK
  <1>1. ASSUME NEW x, NEW f \in {"accepted", "refused", "discarded"}, Settle(x, f)
        PROVE  Settled(m)'
    BY <1>0, <1>1 DEF Settle, Settled
  <1>2. ASSUME NEW S, Taken(S) PROVE Settled(m)'
    BY <1>2 DEF Taken, Settled
  <1>3. ASSUME UNCHANGED fate PROVE Settled(m)'
    BY <1>3 DEF Settled
  <1>4. CASE OtherClient
    BY <1>2, <1>4 DEF OtherClient
  <1>5. CASE Headers
    BY <1>1, <1>3, <1>5 DEF Headers
  <1>6. CASE Ship
    BY <1>1, <1>3, <1>6 DEF Ship
  <1>7. CASE FlagDelete
    BY <1>1, <1>3, <1>7 DEF FlagDelete
  <1>8. CASE \/ Arrive \/ Announce \/ OtherAccount \/ FaultStep \/ UNCHANGED vars
    BY <1>3, <1>8 DEF Arrive, Announce, OtherAccount, FaultStep, Restart,
       SessionLost, ExpungeReplyLost, CommandRefused, vars
  <1>9. CASE \/ Login \/ Select \/ Purge \/ IdleExists \/ IdleExpunge \/ Search
             \/ Check \/ HeadersTransient \/ ShipGone \/ FlagLeave \/ FlagSeen
             \/ ExpungeNow \/ EndMailbox \/ Logout
    BY <1>3, <1>9 DEF Login, Select, Purge, IdleExists, IdleExpunge, Search, Check,
       HeadersTransient, ShipGone, FlagLeave, FlagSeen, ExpungeNow, EndMailbox,
       Logout
  <1> QED
    BY <1>4, <1>5, <1>6, <1>7, <1>8, <1>9 DEF Next, ClientStep

\* Steps that flag nothing new and remove only what is flagged.
LEMMA MailQuiet ==
  ASSUME IInv, MailInv, [Next]_vars, next' = next,
         seen' \subseteq seen, deleted' \subseteq deleted,
         mbox \ deleted \subseteq mbox', opt'.peek = opt.peek,
         \A m \in Msgs : m >= next => fate'[m] = fate[m]
  PROVE  MailInv'
  <1>1. \A m \in Msgs : Settled(m) => Settled(m)'
    BY FatesStand DEF IInv
  <1>2. /\ seen \subseteq Msgs /\ deleted \subseteq Msgs
        /\ \A m \in 1..(next - 1) : m \in Msgs
    BY BoundsAssumption DEF IInv, TypeOK, Msgs
  <1>3. (\A m \in deleted : Settled(m))'
    BY <1>1, <1>2 DEF MailInv
  <1>4. SeenIsSettled'
    BY <1>1, <1>2 DEF MailInv, SeenIsSettled
  <1>5. RemovedIsSettled'
    BY <1>1, <1>2 DEF MailInv, RemovedIsSettled
  <1>6. (\A m \in Msgs : m >= next => fate[m] = "waiting")'
    BY DEF MailInv
  <1> QED
    BY <1>3, <1>4, <1>5, <1>6 DEF MailInv

\* What the driver marks or deletes: a message that was delivered or refused,
\* an old one if the user wants it flushed, and one that is too large.
LEMMA Dispositions ==
  ASSUME NEW r \in Results \cup {"none", "open"}, NEW o \in OptionType,
         r \notin {"none", "open"}
  PROVE  /\ Disposition(r, o) = "mark" => r \in {"refused", "shipped"}
         /\ Disposition(r, o) = "delete" => \/ r \in {"refused", "shipped"}
                                            \/ r = "old" /\ o.flush
                                            \/ r = "toolarge"
  BY DEF Disposition, SuppressDelete, WantDelete, SuppressForward, Results

\* A step that flags or removes messages that have been dealt with, or that
\* flags one as read for a server that cannot peek.
LEMMA MailMarks ==
  ASSUME IInv, MailInv, [Next]_vars, next' = next, opt' = opt, mbox' = mbox,
         \A m \in Msgs : m >= next => fate'[m] = fate[m],
         NEW a \in Msgs,
         deleted' \subseteq deleted \cup {a}, seen' \subseteq seen \cup {a},
         Settled(a)' \/ (deleted' = deleted /\ (~opt.peek \/ seen' = seen))
  PROVE  MailInv'
  <1>1. \A m \in Msgs : Settled(m) => Settled(m)'
    BY FatesStand DEF IInv
  <1>2. /\ seen \subseteq Msgs /\ deleted \subseteq Msgs
        /\ \A m \in 1..(next - 1) : m \in Msgs
    BY BoundsAssumption DEF IInv, TypeOK, Msgs
  <1>3. (\A m \in deleted : Settled(m))'
    BY <1>1, <1>2 DEF MailInv
  <1>4. SeenIsSettled'
    BY <1>1, <1>2 DEF MailInv, SeenIsSettled
  <1>5. RemovedIsSettled'
    BY <1>1, <1>2 DEF MailInv, RemovedIsSettled
  <1>6. (\A m \in Msgs : m >= next => fate[m] = "waiting")'
    BY DEF MailInv
  <1> QED
    BY <1>3, <1>4, <1>5, <1>6 DEF MailInv

\* A verdict on a message of the range leaves the others alone.
LEMMA SettleFacts ==
  ASSUME TypeOK, NEW a \in Msgs, a < next,
         NEW f \in {"accepted", "refused", "discarded"}, Settle(a, f)
  PROVE  Settled(a)' /\ \A m \in Msgs : m >= next => fate'[m] = fate[m]
  <1>1. fate \in [Msgs -> {"waiting", "accepted", "refused", "discarded", "taken"}]
    BY DEF TypeOK
  <1>2. Settled(a)'
    BY <1>1 DEF Settle, Settled
  <1>3. \A m \in Msgs : m >= next => m # a
    BY BoundsAssumption DEF Msgs, TypeOK
  <1> QED
    BY <1>1, <1>2, <1>3 DEF Settle

LEMMA TakenFacts ==
  ASSUME TypeOK, NEW a \in Msgs, a < next, Taken({a})
  PROVE  Settled(a)' /\ \A m \in Msgs : m >= next => fate'[m] = fate[m]
  <1>1. Settled(a)'
    BY DEF Taken, Settled
  <1>2. \A m \in Msgs : m >= next => m \notin {a}
    BY BoundsAssumption DEF Msgs, TypeOK
  <1> QED
    BY <1>1, <1>2 DEF Taken

\* The message under way has arrived.
LEMMA CurrentArrived ==
  ASSUME IInv, InLoop
  PROVE  /\ Addressed(num) = Nth(listed, num) /\ Addressed(num) \in Msgs
         /\ Addressed(num) \in listed /\ Number(listed, Addressed(num)) = num
         /\ Addressed(num) < next
  <1>1. listed \subseteq 1..(next - 1) /\ next \in Nat
    BY BoundsAssumption DEF IInv, ArrivalInv, TypeOK
  <1>2. /\ Addressed(num) = Nth(listed, num) /\ Addressed(num) \in Msgs
        /\ Addressed(num) \in listed /\ Number(listed, Addressed(num)) = num
    BY Current
  <1>3. Addressed(num) \in 1..(next - 1)
    BY <1>1, <1>2
  <1> QED
    BY <1>1, <1>2, <1>3

LEMMA MailStep ==
  ASSUME SafeOptions, IInv, FateInv, [Next]_vars
  PROVE  MailInv'
  <1> USE DEF serverVars, imapVars, loopVars, rangeVars, mailVars
  <1>0. TypeOK /\ MailInv /\ next \in Nat /\ opt \in OptionType
        /\ (opt.flush => opt.peek)
    BY BoundsAssumption, OptionsAssumption DEF IInv, FateInv, TypeOK, SafeOptions
  <1>a. \A m \in mbox : m \in Msgs /\ m < next
    BY <1>0 DEF IInv, ArrivalInv, TypeOK
  <1>1. CASE Arrive
    <2>1. /\ next \in Msgs /\ next' = next + 1 /\ mbox' = mbox \cup {next}
          /\ UNCHANGED <<seen, deleted, fate, opt>>
      BY <1>0, <1>1, BoundsAssumption DEF Arrive, TypeOK, Msgs
    <2>2. RemovedIsSettled'
      <3>1. \A m \in 1..(next' - 1) : m \in 1..(next - 1) \/ m = next
        BY <1>0, <2>1
      <3> QED
        BY <1>0, <2>1, <3>1 DEF MailInv, RemovedIsSettled, Settled
    <2>3. \A m \in Msgs : m >= next' => m >= next
      BY <1>0, <2>1, BoundsAssumption DEF Msgs
    <2> QED
      BY <1>0, <2>1, <2>2, <2>3 DEF MailInv, SeenIsSettled, Settled
  <1>2. CASE OtherClient
    <2>1. next' = next /\ opt' = opt
      BY <1>2 DEF OtherClient
    <2>2. ASSUME NEW m \in mbox \ seen, seen' = seen \cup {m}, Taken({m}),
                 UNCHANGED <<mbox, deleted>>
          PROVE  MailInv'
      <3>1. m \in Msgs /\ m < next
        BY <1>a
      <3>2. Settled(m)' /\ \A k \in Msgs : k >= next => fate'[k] = fate[k]
        BY <1>0, <2>2, <3>1, TakenFacts
      <3> QED
        BY <1>0, <2>1, <2>2, <3>1, <3>2, MailMarks
    <2>3. ASSUME NEW m \in mbox \ deleted, deleted' = deleted \cup {m}, Taken({m}),
                 UNCHANGED <<mbox, seen>>
          PROVE  MailInv'
      <3>1. m \in Msgs /\ m < next
        BY <1>a
      <3>2. Settled(m)' /\ \A k \in Msgs : k >= next => fate'[k] = fate[k]
        BY <1>0, <2>3, <3>1, TakenFacts
      <3> QED
        BY <1>0, <2>1, <2>3, <3>1, <3>2, MailMarks
    <2>4. ASSUME NEW m \in mbox, mbox' = mbox \ (deleted \cup {m}), deleted' = {},
                 seen' = seen \cap mbox', Taken({m})
          PROVE  MailInv'
      <3>1. m \in Msgs /\ m < next
        BY <1>a
      <3>2. Settled(m)' /\ \A k \in Msgs : k >= next => fate'[k] = fate[k]
        BY <1>0, <2>4, <3>1, TakenFacts
      <3>3. \A k \in Msgs : Settled(k) => Settled(k)'
        BY <1>0, FatesStand
      <3>4. \A k \in 1..(next - 1) : k \in Msgs
        BY <1>0, BoundsAssumption DEF TypeOK, Msgs
      <3>5. RemovedIsSettled'
        BY <1>0, <2>1, <2>4, <3>2, <3>3, <3>4 DEF MailInv, RemovedIsSettled, TypeOK
      <3>6. SeenIsSettled'
        BY <1>0, <2>1, <2>4, <3>3 DEF MailInv, SeenIsSettled, TypeOK
      <3> QED
        BY <1>0, <2>1, <2>4, <3>2, <3>5, <3>6 DEF MailInv
    <2> QED
      BY <1>2, <2>2, <2>3, <2>4 DEF OtherClient
  <1>3. CASE Headers
    <2>1. InLoop /\ UNCHANGED <<next, opt, mbox, deleted, seen>>
      BY <1>3 DEF Headers, InLoop
    <2>2. Addressed(num) \in Msgs /\ Addressed(num) < next
      BY <2>1, CurrentArrived
    <2>3. \A m \in Msgs : m >= next => fate'[m] = fate[m]
      BY <1>0, <1>3, <2>2, SettleFacts DEF Headers
    <2> QED
      BY <1>0, <2>1, <2>3, MailQuiet
  <1>4. CASE Ship
    <2>0. PICK a : a = Addressed(num)
      OBVIOUS
    <2>1. /\ InLoop /\ UNCHANGED <<next, opt, mbox, deleted>>
          /\ seen' \subseteq seen \cup {a} /\ (opt.peek => seen' = seen)
      BY <1>4, <2>0 DEF Ship, InLoop
    <2>2. a \in Msgs /\ a < next
      BY <2>0, <2>1, CurrentArrived
    <2>3. UNCHANGED fate \/ Settle(a, "accepted") \/ Settle(a, "refused")
      BY <1>4, <2>0 DEF Ship
    <2>4. \A m \in Msgs : m >= next => fate'[m] = fate[m]
      BY <1>0, <2>2, <2>3, SettleFacts
    <2> QED
      BY <1>0, <2>1, <2>2, <2>4, MailMarks
  <1>5. CASE FlagSeen
    <2>0. PICK a : a = Addressed(num)
      OBVIOUS
    <2>1. /\ InLoop /\ UNCHANGED <<next, opt, mbox, deleted, fate>>
          /\ seen' \subseteq seen \cup {a} /\ pc = "flag"
          /\ Disposition(result, opt) = "mark"
      BY <1>5, <2>0 DEF FlagSeen, InLoop
    <2>2. a \in Msgs /\ a = Nth(listed, num)
      BY <2>0, <2>1, CurrentArrived
    <2>3. result \in Results /\ result \notin {"none", "open"}
      BY <2>1 DEF FateInv, VerdictInv, Results
    <2>4. result \in {"refused", "shipped"}
      BY <1>0, <2>1, <2>3, Dispositions
    <2>5. Settled(a)
      BY <2>1, <2>2, <2>4 DEF FateInv, VerdictInv
    <2>6. Settled(a)'
      BY <1>0, <2>2, <2>5, FatesStand
    <2> QED
      BY <1>0, <2>1, <2>2, <2>6, MailMarks
  <1>6. CASE FlagDelete
    <2>0. PICK a : a = Addressed(num)
      OBVIOUS
    <2>1. /\ InLoop /\ UNCHANGED <<next, opt, mbox>>
          /\ deleted' = deleted \cup ({a} \cap mbox) /\ seen' = seen \cup ({a} \cap mbox)
          /\ pc = "flag" /\ Disposition(result, opt) = "delete"
          /\ IF result = "toolarge" /\ a \in mbox
             THEN Settle(a, "discarded") ELSE UNCHANGED fate
      BY <1>6, <2>0 DEF FlagDelete, InLoop
    <2>2. a \in Msgs /\ a = Nth(listed, num) /\ a < next
      BY <2>0, <2>1, CurrentArrived
    <2>3. result \in Results /\ result \notin {"none", "open"}
      BY <2>1 DEF FateInv, VerdictInv, Results
    <2>4. result \in {"refused", "shipped"} \/ (result = "old" /\ opt.flush)
          \/ result = "toolarge"
      BY <1>0, <2>1, <2>3, Dispositions
    <2>5. Settled(a) \/ result = "toolarge"
      BY <1>0, <2>1, <2>2, <2>4 DEF FateInv, VerdictInv
    <2>6. \A m \in Msgs : m >= next => fate'[m] = fate[m]
      BY <1>0, <2>1, <2>2, SettleFacts
    <2>7. CASE a \in mbox
      <3>1. Settled(a)'
        BY <1>0, <2>1, <2>2, <2>5, <2>7, FatesStand, SettleFacts
      <3> QED
        BY <1>0, <2>1, <2>2, <2>6, <3>1, MailMarks
    <2>8. CASE a \notin mbox
      BY <1>0, <2>1, <2>6, <2>8, MailQuiet
    <2> QED
      BY <2>7, <2>8
  <1>7. CASE \/ Announce \/ OtherAccount \/ Restart \/ SessionLost
             \/ ExpungeReplyLost \/ CommandRefused \/ UNCHANGED vars
    <2>1. /\ next' = next /\ seen' \subseteq seen /\ deleted' \subseteq deleted
          /\ mbox \ deleted \subseteq mbox' /\ opt'.peek = opt.peek /\ fate' = fate
      BY <1>7 DEF Announce, OtherAccount, Restart, SessionLost, ExpungeReplyLost,
         CommandRefused, vars
    <2> QED
      BY <1>0, <2>1, MailQuiet
  <1>8. CASE \/ Login \/ Select \/ Purge \/ IdleExists \/ IdleExpunge \/ Search
             \/ Check \/ HeadersTransient \/ ShipGone \/ FlagLeave \/ ExpungeNow
             \/ EndMailbox \/ Logout
    <2>1. /\ next' = next /\ seen' \subseteq seen /\ deleted' \subseteq deleted
          /\ mbox \ deleted \subseteq mbox' /\ opt' = opt /\ fate' = fate
      BY <1>8 DEF Login, Select, Purge, IdleExists, IdleExpunge, Search, Check,
         HeadersTransient, ShipGone, FlagLeave, ExpungeNow, EndMailbox, Logout,
         InternalExpunge, Expunge
    <2> QED
      BY <1>0, <2>1, MailQuiet
  <1> QED
    BY <1>1, <1>2, <1>3, <1>4, <1>5, <1>6, <1>7, <1>8
    DEF Next, ClientStep, FaultStep

LEMMA SearchStep ==
  ASSUME SafeOptions, IInv, FateInv, [Next]_vars
  PROVE  SearchInv'
  <1> USE DEF serverVars, imapVars, loopVars, rangeVars, mailVars
  <1> SUFFICES ASSUME Scanning', opt'.peek, ~opt'.fetchall, NEW m \in listed'
               PROVE  (Settled(m) \/ Number(listed, m) \in unseen)'
    BY DEF SearchInv
  <1>0. TypeOK /\ MailInv
    BY DEF IInv, FateInv
  <1>1. CASE Search
    <2>1. /\ listed' = view /\ UNCHANGED <<opt, fate>> /\ count # 0
          /\ ~opt.fetchall /\ opt.peek /\ m \in view
      BY <1>1 DEF Search, Scanning
    <2>2. PICK form \in SearchForms :
             unseen' = {Number(view, k) : k \in SearchFinds(form)}
      BY <1>1, <2>1 DEF Search
    <2>3. CASE m \in SearchFinds(form)
      BY <2>1, <2>2, <2>3
    <2>4. CASE m \notin SearchFinds(form)
      <3>1. m \in seen \/ m \in deleted
        BY <2>1, <2>4 DEF SearchFinds
      <3>2. Settled(m)
        BY <1>0, <2>1, <3>1 DEF MailInv, SeenIsSettled
      <3> QED
        BY <2>1, <3>2 DEF Settled
    <2> QED
      BY <2>3, <2>4
  <1>2. ASSUME Scanning, UNCHANGED <<listed, unseen, opt>>
        PROVE  (Settled(m) \/ Number(listed, m) \in unseen)'
    <2>1. Settled(m) \/ Number(listed, m) \in unseen
      BY <1>2 DEF FateInv, SearchInv
    <2>2. m \in Msgs
      BY <1>0, <1>2 DEF TypeOK
    <2>3. Settled(m) => Settled(m)'
      BY <1>0, <2>2, FatesStand
    <2> QED
      BY <1>2, <2>1, <2>3
  <1>3. CASE \/ Arrive \/ Announce \/ OtherClient \/ UNCHANGED vars
    <2>1. Scanning /\ UNCHANGED <<listed, unseen, opt>>
      BY <1>3 DEF Arrive, Announce, OtherClient, vars, Scanning
    <2> QED
      BY <1>2, <2>1
  <1>4. CASE \/ Check \/ Headers \/ HeadersTransient \/ Ship \/ FlagLeave
             \/ FlagSeen \/ FlagDelete \/ ExpungeNow
    <2>1. Scanning /\ UNCHANGED <<listed, unseen, opt>>
      BY <1>4 DEF Check, Headers, HeadersTransient, Ship, FlagLeave, FlagSeen,
         FlagDelete, ExpungeNow, Scanning
    <2> QED
      BY <1>2, <2>1
  <1>5. CASE \/ OtherAccount \/ FaultStep \/ Login \/ Select \/ Purge
             \/ IdleExists \/ IdleExpunge \/ ShipGone \/ EndMailbox \/ Logout
    BY <1>5
    DEF Scanning, OtherAccount, FaultStep, Restart, SessionLost, ExpungeReplyLost,
        CommandRefused, Login, Select, Purge, AfterSelect, IdleExists,
        IdleExpunge, ShipGone, EndMailbox, Logout, Hangup
  <1> QED
    BY <1>1, <1>3, <1>4, <1>5 DEF Next, ClientStep

LEMMA VerdictStep ==
  ASSUME SafeOptions, IInv, FateInv, [Next]_vars
  PROVE  VerdictInv'
  <1> USE DEF serverVars, imapVars, loopVars, rangeVars, mailVars
  <1> SUFFICES ASSUME pc' = "flag" PROVE VerdictInv'
    BY DEF VerdictInv
  <1>0. TypeOK
    BY DEF IInv
  <1>1. CASE \/ Arrive \/ Announce \/ OtherClient \/ UNCHANGED vars
    <2>1. InLoop /\ pc = "flag" /\ UNCHANGED <<listed, num, result, opt>>
      BY <1>1 DEF Arrive, Announce, OtherClient, vars, InLoop
    <2>2. PICK a : a = Nth(listed, num)
      OBVIOUS
    <2>3. a \in Msgs
      BY <2>1, <2>2, CurrentArrived
    <2>4. Settled(a) => Settled(a)'
      BY <1>0, <2>3, FatesStand
    <2>5. Nth(listed', num') = a
      BY <2>1, <2>2
    <2>6. /\ result \in Results
          /\ result \in {"shipped", "refused"} => Settled(a)
          /\ result = "old" /\ opt.peek => Settled(a)
          /\ result = "toolarge" => a \in Big
      BY <2>1, <2>2 DEF FateInv, VerdictInv
    <2> QED
      BY <2>1, <2>4, <2>5, <2>6 DEF VerdictInv, Settled
  <1>2. CASE Check
    <2>0. PICK a : a = Addressed(num)
      OBVIOUS
    <2>1. /\ InLoop /\ Scanning /\ pc = "check" /\ UNCHANGED <<listed, num, opt, fate>>
          /\ \/ result' = "old" /\ ~opt.fetchall /\ num \notin unseen
             \/ result' = "toolarge" /\ a \in Big
      BY <1>2, <2>0 DEF Check, InLoop, Scanning, SizedMessage
    <2>2. a = Nth(listed, num) /\ a \in listed /\ Number(listed, a) = num
      BY <2>0, <2>1, CurrentArrived
    <2>3. result' = "old" /\ opt.peek => Settled(a)
      BY <2>1, <2>2 DEF FateInv, SearchInv
    <2>4. Nth(listed', num') = a
      BY <2>1, <2>2
    <2>5. Settled(a)' <=> Settled(a)
      BY <2>1 DEF Settled
    <2>6. result' \in Results /\ result' \notin {"shipped", "refused"}
      BY <2>1 DEF Results
    <2>7. opt'.peek = opt.peek /\ (result' = "toolarge" => a \in Big)
      BY <2>1
    <2> QED
      BY <2>3, <2>4, <2>5, <2>6, <2>7 DEF VerdictInv, Settled
  <1>3. CASE Headers
    <2>0. PICK a : a = Addressed(num)
      OBVIOUS
    <2>1. /\ InLoop /\ UNCHANGED <<listed, num>>
          /\ \/ result' = "refused" /\ Settle(a, "refused")
             \/ result' \in {"transient", "retained"}
      BY <1>3, <2>0 DEF Headers, InLoop
    <2>2. a \in Msgs /\ a < next /\ a = Nth(listed', num')
      BY <2>0, <2>1, CurrentArrived
    <2>3. result' = "refused" => Settled(a)'
      BY <1>0, <2>1, <2>2, SettleFacts
    <2>4. result' \in Results /\ result' \notin {"shipped", "old", "toolarge"}
      BY <2>1 DEF Results
    <2> QED
      BY <2>2, <2>3, <2>4 DEF VerdictInv, Settled
  <1>4. CASE Ship
    <2>0. PICK a : a = Addressed(num)
      OBVIOUS
    <2>1. /\ InLoop /\ UNCHANGED <<listed, num>>
          /\ \/ result' = "shipped" /\ (Settle(a, "refused") \/ Settle(a, "accepted"))
             \/ result' = "failed"
      BY <1>4, <2>0 DEF Ship, InLoop
    <2>2. a \in Msgs /\ a < next /\ a = Nth(listed', num')
      BY <2>0, <2>1, CurrentArrived
    <2>3. result' = "shipped" => Settled(a)'
      BY <1>0, <2>1, <2>2, SettleFacts
    <2>4. result' \in Results /\ result' \notin {"refused", "old", "toolarge"}
      BY <2>1 DEF Results
    <2> QED
      BY <2>2, <2>3, <2>4 DEF VerdictInv, Settled
  <1>5. CASE \/ HeadersTransient \/ FlagLeave \/ FlagSeen \/ FlagDelete \/ ExpungeNow
    BY <1>5 DEF HeadersTransient, FlagLeave, FlagSeen, FlagDelete, ExpungeNow, Advance
  <1>6. CASE \/ OtherAccount \/ FaultStep \/ Login \/ Select \/ Purge \/ Search
             \/ IdleExists \/ IdleExpunge \/ ShipGone \/ EndMailbox \/ Logout
    BY <1>6
    DEF OtherAccount, FaultStep, Restart, SessionLost, ExpungeReplyLost,
        CommandRefused, Login, Select, Purge, AfterSelect, IdleExists,
        IdleExpunge, ShipGone, EndMailbox, Logout, Hangup, Search
  <1> QED
    BY <1>1, <1>2, <1>3, <1>4, <1>5, <1>6 DEF Next, ClientStep

LEMMA FateInvariance ==
  ASSUME SafeOptions
  PROVE  Spec => [](IInv /\ FateInv)
  <1>1. IInv /\ FateInv /\ [Next]_vars => FateInv'
    BY MailStep, SearchStep, VerdictStep DEF FateInv
  <1>2. IInv /\ [Next]_vars => IInv'
    BY TypeStep, ArrivalStep, CountStep, RangeStep DEF IInv
  <1>3. Init => FateInv
    <2> SUFFICES ASSUME Init PROVE FateInv
      OBVIOUS
    <2>1. 1..(next - 1) = {}
      BY DEF Init
    <2>2. MailInv
      BY <2>1 DEF Init, MailInv, SeenIsSettled, RemovedIsSettled
    <2> QED
      BY <2>2 DEF Init, FateInv, SearchInv, VerdictInv, Scanning
  <1> QED
    BY <1>1, <1>2, <1>3, InitHolds, PTL DEF Spec

\* No mail is lost over IMAP: whatever the EXPUNGE commands of imap.c removed,
\* also in the middle of a pass and along with other clients' flags, had been
\* delivered, refused, discarded as too large, or dealt with by another client.
THEOREM ImapNoMailLost ==
  ASSUME SafeOptions
  PROVE  Spec => []RemovedIsSettled
  <1>1. IInv /\ FateInv => RemovedIsSettled
    BY DEF FateInv, MailInv
  <1> QED
    BY <1>1, FateInvariance, PTL

\* imap_mark_seen and imap_delete set the Seen flag only on messages that have
\* been dealt with, so the searches of later sessions overlook no mail.
THEOREM ImapSeenIsSettled ==
  ASSUME SafeOptions
  PROVE  Spec => []SeenIsSettled
  <1>1. IInv /\ FateInv => SeenIsSettled
    BY DEF FateInv, MailInv
  <1> QED
    BY <1>1, FateInvariance, PTL

-----------------------------------------------------------------------------
(* Polling implements the at-least-once transfer of MailTransfer.          *)

\* A verdict on a message that is on the server is one of MailTransfer's.
LEMMA VerdictTransfers ==
  ASSUME NEW a \in Msgs, a \in mbox, UNCHANGED mbox,
         NEW f \in {"accepted", "refused", "discarded"}, Settle(a, f),
         f = "discarded" => a \in Big
  PROVE  MT!Next
  <1>1. MT!Settle(a, f)
    BY DEF MT!Settle, Settle
  <1>2. f \in MT!Fates \ {"waiting"}
    BY DEF MT!Fates
  <1> QED
    BY <1>1, <1>2 DEF MT!Next

\* The server removes what is flagged.
LEMMA ExpungeTransfers ==
  ASSUME TypeOK, MailInv, mbox' = mbox \ deleted, fate' = fate
  PROVE  MT!Next
  <1>1. mbox \cap deleted \in SUBSET Msgs
    BY DEF TypeOK
  <1>2. mbox \cap deleted \subseteq mbox \cap MT!Settled(fate)
    BY <1>1 DEF MailInv, Settled, MT!Settled
  <1>3. MT!Expunge(mbox \cap deleted)
    BY <1>2 DEF MT!Expunge
  <1> QED
    BY <1>1, <1>3 DEF MT!Next

LEMMA StepTransfers ==
  ASSUME SafeOptions, IInv, FateInv, [Next]_vars
  PROVE  MT!Next \/ UNCHANGED <<mbox, fate>>
  <1> USE DEF serverVars, imapVars, loopVars, rangeVars, mailVars
  <1>0. TypeOK /\ MailInv
    BY DEF IInv, FateInv
  <1>1. CASE Arrive
    <2>1. /\ next \in Msgs /\ next \notin mbox /\ fate[next] = "waiting"
          /\ mbox' = mbox \cup {next} /\ fate' = fate
      <3>1. next \in Msgs /\ next \in Nat
        BY <1>0, <1>1, BoundsAssumption DEF Arrive, TypeOK, Msgs
      <3>2. next \notin 1..(next - 1)
        BY <3>1
      <3> QED
        BY <1>0, <1>1, <3>1, <3>2 DEF Arrive, MailInv, IInv, ArrivalInv
    <2>2. MT!Arrive(next)
      BY <2>1 DEF MT!Arrive
    <2> QED
      BY <2>1, <2>2 DEF MT!Next
  <1>2. CASE OtherClient
    <2>0. \A k \in Msgs : Settled(k) => Settled(k)'
      BY <1>0, FatesStand
    <2>1. ASSUME NEW m \in mbox, Taken({m}), UNCHANGED mbox
          PROVE  MT!Next
      <3>1. {m} \in SUBSET Msgs /\ {} \in SUBSET Msgs /\ {m} \subseteq mbox
        BY <1>0 DEF TypeOK
      <3>2. MT!Take({m}, {})
        BY <2>1, <3>1 DEF MT!Take, Taken
      <3> QED
        BY <3>1, <3>2 DEF MT!Next
    <2>2. ASSUME NEW m \in mbox, Taken({m}), mbox' = mbox \ (deleted \cup {m})
          PROVE  MT!Next
      <3> DEFINE R == mbox \cap (deleted \cup {m})
      <3>1. {m} \in SUBSET Msgs /\ R \in SUBSET Msgs /\ {m} \subseteq mbox
        BY <1>0 DEF TypeOK
      <3>2. Settled(m)'
        BY <2>2, <3>1 DEF Taken, Settled
      <3>3. \A k \in R : fate'[k] # "waiting"
        BY <1>0, <2>0, <3>1, <3>2 DEF MailInv, Settled
      <3>4. R \subseteq mbox \cap MT!Settled(fate')
        BY <3>1, <3>3 DEF MT!Settled
      <3>5. mbox' = mbox \ R
        BY <2>2
      <3> HIDE DEF R
      <3>6. MT!Take({m}, R)
        BY <2>2, <3>1, <3>4, <3>5 DEF MT!Take, Taken
      <3> QED
        BY <3>1, <3>6 DEF MT!Next
    <2> QED
      BY <1>2, <2>1, <2>2 DEF OtherClient
  <1>3. CASE Headers
    <2>1. /\ InLoop /\ Addressed(num) \in mbox /\ UNCHANGED mbox
          /\ UNCHANGED fate \/ Settle(Addressed(num), "refused")
      BY <1>3 DEF Headers, InLoop
    <2> QED
      BY <2>1, CurrentArrived, VerdictTransfers
  <1>4. CASE Ship
    <2>1. /\ InLoop /\ Addressed(num) \in mbox /\ UNCHANGED mbox
          /\ \/ UNCHANGED fate \/ Settle(Addressed(num), "refused")
             \/ Settle(Addressed(num), "accepted")
      BY <1>4 DEF Ship, InLoop
    <2> QED
      BY <2>1, CurrentArrived, VerdictTransfers
  <1>5. CASE FlagDelete
    <2>1. /\ InLoop /\ pc = "flag" /\ UNCHANGED mbox
          /\ \/ UNCHANGED fate
             \/ /\ result = "toolarge" /\ Addressed(num) \in mbox
                /\ Settle(Addressed(num), "discarded")
      BY <1>5 DEF FlagDelete, InLoop
    <2>2. Addressed(num) \in Msgs /\ Addressed(num) = Nth(listed, num)
      BY <2>1, CurrentArrived
    <2>3. result = "toolarge" => Addressed(num) \in Big
      BY <2>1, <2>2 DEF FateInv, VerdictInv
    <2> QED
      BY <2>1, <2>2, <2>3, VerdictTransfers
  <1>6. CASE Purge \/ ExpungeNow \/ ExpungeReplyLost \/ EndMailbox \/ Logout
    <2>1. fate' = fate /\ (mbox' = mbox \/ mbox' = mbox \ deleted)
      BY <1>6 DEF Purge, ExpungeNow, ExpungeReplyLost, EndMailbox, Logout,
         InternalExpunge, Expunge
    <2> QED
      BY <1>0, <2>1, ExpungeTransfers
  <1>7. CASE \/ Announce \/ OtherAccount \/ Restart \/ SessionLost
             \/ CommandRefused \/ UNCHANGED vars
    BY <1>7 DEF Announce, OtherAccount, Restart, SessionLost, CommandRefused, vars
  <1>8. CASE \/ Login \/ Select \/ IdleExists \/ IdleExpunge \/ Search
             \/ Check \/ HeadersTransient \/ ShipGone \/ FlagLeave \/ FlagSeen
    BY <1>8 DEF Login, Select, IdleExists, IdleExpunge, Search, Check,
       HeadersTransient, ShipGone, FlagLeave, FlagSeen
  <1> QED
    BY <1>1, <1>2, <1>3, <1>4, <1>5, <1>6, <1>7, <1>8
    DEF Next, ClientStep, FaultStep

\* Polling over IMAP is an at-least-once transfer: verdicts are given on mail
\* that is on the server, only mail with a verdict leaves it, and only mail
\* above the limit is discarded unread, whatever other clients do meanwhile.
THEOREM ImapTransfers ==
  ASSUME SafeOptions
  PROVE  Spec => Transfer
  <1>1. Init => MT!Init
    BY DEF Init, MT!Init
  <1>2. IInv /\ FateInv /\ [Next]_vars => [MT!Next]_(MT!vars)
    BY StepTransfers DEF MT!vars
  <1> QED
    BY <1>1, <1>2, FateInvariance, PTL DEF Spec, Transfer, MT!Spec
=============================================================================
