------------------------------- MODULE UidDb -------------------------------
(***************************************************************************)
(* One UID database (uid_db.c): a growing array of records in the order of *)
(* insertion, a PATRICIA trie that finds a record by its id, an array that *)
(* finds it by message number, and the walk that frees the trie.           *)
(*                                                                         *)
(* An id is a sequence of characters, a character a number with Width      *)
(* bits, not zero (8 bits in C).  A pointer is a position in nodes or      *)
(* recs, and 0 is NULL.                                                    *)
(***************************************************************************)
EXTENDS Integers, FiniteSets, Sequences

CONSTANTS Ids,        \* the ids servers give
          Width,      \* bits of a character
          MIN_RECORDS,
          UINT_MAX,   \* what (unsigned)-1 is
          MaxNum,     \* bound: message numbers
          MaxOps      \* bound: calls since the last clear_uid_db

ASSUME UidDbAssumption ==
    /\ Width \in Nat \ {0} /\ MIN_RECORDS \in Nat \ {0}
    /\ MaxNum \in Nat /\ MaxOps \in Nat
    /\ UINT_MAX \in Nat /\ UINT_MAX > MaxNum
    /\ \A id \in Ids : id \in Seq(1..(2^Width - 1)) /\ id # <<>>

VARIABLES
    nodes, root,            \* struct pat_node, db->pat_root
    recs, next, max,        \* ids of the records, their next pointers, records_max
    pos0, end, slots,       \* struct num_ndx
    pc, np,                 \* where free_pat_trie is
    gone, lost,             \* nodes and records that are freed
    given,                  \* bookkeeping: the record each number was given to
    ops

trieVars == <<nodes, root>>
recVars  == <<recs, next, max>>
numVars  == <<pos0, end, slots, given>>
freeVars == <<np, gone, lost>>
vars == <<trieVars, recVars, numVars, pc, freeVars, ops>>

\* init_uid_db
EmptyDb ==
    /\ nodes = <<>> /\ root = 0
    /\ recs = <<>> /\ next = <<>> /\ max = MIN_RECORDS
    /\ pos0 = UINT_MAX /\ end = UINT_MAX /\ slots = <<>>

Init ==
    /\ EmptyDb
    /\ pc = "ready" /\ np = 0 /\ gone = {} /\ lost = {}
    /\ given = [n \in 1..MaxNum |-> 0] /\ ops = 0

-----------------------------------------------------------------------------
(* Bits                                                                    *)

\* Characters behind the end of an id count as zero.
Char(id, ofs) == IF ofs < Len(id) THEN id[ofs + 1] ELSE 0

\* bit_set, with bit_ofs and bit_mask.
BitSet(n, id) == (Char(id, n \div Width) \div 2^(n % Width)) % 2 = 1

Side(n, id) == IF BitSet(n, id) THEN "right" ELSE "left"

Least(S) == CHOOSE n \in S : \A k \in S : n <= k

\* first_set_bit_in_char, for the first character.
FirstSetBit(id) == Least({n \in 0..(Width - 1) : BitSet(n, id)})

DiffBits(a, b) ==
    LET len == IF Len(a) > Len(b) THEN Len(a) ELSE Len(b)
    IN  {n \in 0..(Width * len - 1) : BitSet(n, a) # BitSet(n, b)}

\* A build that compares the common part of two ids only.
FindFirstDiffBit_Common(a, b) ==
    LET len == IF Len(a) < Len(b) THEN Len(a) ELSE Len(b)
        D == {n \in 0..(Width * len - 1) : BitSet(n, a) # BitSet(n, b)}
    IN  IF D = {} THEN -1 ELSE Least(D)

\* find_first_diff_bit
FindFirstDiffBit(a, b) ==
    IF a = b THEN -1 ELSE Least(DiffBits(a, b))

-----------------------------------------------------------------------------
(* The trie.                                                               *)

\* An edge leads down to a child as long as the bit numbers rise; an edge
\* that leads to a node with a smaller or the same bit ends the walk.
Descends(t, n, side) == t[n][side] # 0 /\ t[t[n][side]].bit > t[n].bit

\* walk_down: the node whose id is most similar, and the edge that led there.
WalkDown(t, id) ==
    LET down[n \in DOMAIN t] ==
            LET side == Side(t[n].bit, id)
            IN  IF Descends(t, n, side) THEN down[t[n][side]]
                ELSE [parent |-> n, side |-> side, closest |-> t[n][side]]
    IN  down[root]

\* walk_up: the highest node above which the new one belongs, and its parent.
WalkUp(t, bit, from) ==
    LET up[n \in DOMAIN t] ==
            IF t[n].up # 0 /\ t[t[n].up].bit > bit THEN up[t[n].up]
            ELSE [node |-> n, parent |-> t[n].up]
    IN  up[from]

\* find_uid_by_id
FindUidById(id) ==
    IF root = 0 THEN 0
    ELSE LET c == WalkDown(nodes, id).closest
         IN  IF c # 0 /\ recs[nodes[c].rec] = id THEN nodes[c].rec ELSE 0

\* The end of a list of records with the same id.
EndOfList(r) ==
    LET last[k \in DOMAIN next] == IF next[k] = 0 THEN k ELSE last[next[k]]
    IN  last[r]

\* last_uid_in_db
LastUidInDb(id) ==
    LET r == FindUidById(id) IN IF r = 0 THEN 0 ELSE EndOfList(r)

\* A build that forgets the parent pointer of the node it goes between.
Reparent_Nothing(t, child, new) == t

\* The node above which a new one is inserted gets a new parent.
Reparent(t, child, new) == [t EXCEPT ![child].up = new]

\* get_standalone_node for an empty trie.
FirstNode(id) == [left |-> 0, up |-> 0, right |-> 1, bit |-> FirstSetBit(id), rec |-> 1]

\* Whether the new node belongs further up than the walk has led.
BelongsAbove(t, parent, bit) == t[parent].bit > bit

\* pat_insert of record r: the trie and its root.
PatInsert(id, r) ==
    LET w == WalkDown(nodes, id)
        bit == IF w.closest = 0 THEN FirstSetBit(id)
               ELSE FindFirstDiffBit(recs[nodes[w.closest].rec], id)
        above == BelongsAbove(nodes, w.parent, bit)
        u == WalkUp(nodes, bit, w.parent)
        parent == IF above THEN u.parent ELSE w.parent
        closest == IF above THEN u.node ELSE w.closest
        side == IF ~above THEN w.side
                ELSE IF parent # 0 /\ nodes[parent].left = closest THEN "left" ELSE "right"
        new == Len(nodes) + 1
        mine == Side(bit, id)
        t == IF above THEN Reparent(nodes, closest, new) ELSE nodes
        linked == IF parent = 0 THEN t ELSE [t EXCEPT ![parent][side] = new]
        node == [k \in {"left", "right"} |-> IF k = mine THEN new ELSE closest]
    IN  [root |-> IF parent = 0 THEN new ELSE root,
         nodes |-> Append(linked, [left |-> node["left"], up |-> parent,
                                   right |-> node["right"], bit |-> bit, rec |-> r])]

\* Whether the walk ends at a record with the same id.
Known(id) ==
    /\ root # 0
    /\ LET c == WalkDown(nodes, id).closest
       IN  c # 0 /\ FindFirstDiffBit(recs[nodes[c].rec], id) < 0

\* A build that notices a full array one record too late.
Room_Late(n, m) == IF n > m THEN 2 * m ELSE m

\* The size of the record array before another record is stored.
Room(n, m) == IF n = m THEN 2 * m ELSE m

Op == pc = "ready" /\ ops < MaxOps /\ ops' = ops + 1

\* uid_db_insert
UidDbInsert(id) ==
    /\ Op
    /\ LET r == Len(recs) + 1
       IN  /\ recs' = Append(recs, id)
           /\ max' = Room(Len(recs), max)
           /\ IF Known(id)
              THEN LET c == WalkDown(nodes, id).closest
                   IN  /\ next' = Append([next EXCEPT ![EndOfList(nodes[c].rec)] = r], 0)
                       /\ UNCHANGED trieVars
              ELSE /\ next' = Append(next, 0)
                   /\ IF root = 0 THEN nodes' = <<FirstNode(id)>> /\ root' = 1
                      ELSE nodes' = PatInsert(id, r).nodes /\ root' = PatInsert(id, r).root
    /\ UNCHANGED <<numVars, pc, freeVars>>

-----------------------------------------------------------------------------
(* The index of message numbers.  It grows downwards from pos0.            *)

Junk == UINT_MAX        \* what memory holds that was never written

\* set_uid_db_num_pos_0, at the start of a session with n messages.
SetUidDbNumPos0(n) ==
    /\ Op
    /\ pos0' = n /\ end' = n + 1
    /\ given' = [k \in 1..MaxNum |-> 0]
    /\ UNCHANGED <<trieVars, recVars, slots, pc, freeVars>>

\* A build that does not clear the new part of the array.
Grown_NoClear(num) ==
    [i \in 1..(pos0 - num + 1) |-> IF i \in DOMAIN slots THEN slots[i] ELSE Junk]

\* The array after realloc, its new part cleared.
Grown(num) ==
    LET have == pos0 - end + 1
    IN  [i \in 1..(pos0 - num + 1) |-> IF i <= have THEN slots[i] ELSE 0]

\* set_uid_db_num for a number of the server's listing.
SetUidDbNum(r, num) ==
    /\ Op
    /\ pos0 # UINT_MAX /\ num <= pos0
    /\ LET a == IF end > num THEN Grown(num) ELSE slots
       IN  slots' = [a EXCEPT ![pos0 - num + 1] = r]
    /\ end' = IF end > num THEN num ELSE end
    /\ given' = [given EXCEPT ![num] = r]
    /\ UNCHANGED <<trieVars, recVars, pos0, pc, freeVars>>

\* find_uid_by_num; a position that is not in the array yields anything.
FindUidByNum(num) ==
    IF num < end THEN 0
    ELSE IF pos0 - num + 1 \in DOMAIN slots THEN slots[pos0 - num + 1] ELSE Junk

\* The lower end of the index after a reset.
ResetEnd == IF end < pos0 THEN pos0 + 1 ELSE end

\* reset_uid_db_nums leaves an index with a single number as it is.
ResetUidDbNums ==
    /\ Op
    /\ end' = ResetEnd
    /\ slots' = IF end < pos0 THEN <<>> ELSE slots
    /\ given' = [k \in 1..MaxNum |-> 0]
    /\ UNCHANGED <<trieVars, recVars, pos0, pc, freeVars>>

-----------------------------------------------------------------------------
(* clear_uid_db: free_uid_db and init_uid_db.                              *)

ClearUidDb ==
    /\ pc = "ready"
    /\ pc' = "free" /\ np' = root
    /\ UNCHANGED <<trieVars, recVars, numVars, gone, lost, ops>>

\* free_uid_list
ListFrom(r) ==
    LET list[k \in DOMAIN next] == {k} \cup (IF next[k] = 0 THEN {} ELSE list[next[k]])
    IN  list[r]

\* A build that follows every edge.
Follows_Always(side) == nodes[np][side] # 0

\* Whether free_pat_trie goes down an edge.
Follows(side) == Descends(nodes, np, side)

\* A build that leaves the edges in place.
Cut_Kept(sides) == nodes

Cut(sides) == [nodes EXCEPT ![np] = [k \in DOMAIN @ |-> IF k \in sides THEN 0 ELSE @[k]]]

\* One round of the loop of free_pat_trie: down to the left, down to the
\* right, or free the node and go up.
FreePatTrie ==
    /\ pc = "free" /\ np # 0
    /\ IF Follows("left")
       THEN np' = nodes[np].left /\ nodes' = Cut({"left"}) /\ UNCHANGED <<gone, lost>>
       ELSE /\ nodes' = Cut({"left", "right"})
            /\ IF Follows("right") THEN np' = nodes[np].right /\ UNCHANGED <<gone, lost>>
               ELSE /\ np' = nodes[np].up
                    /\ gone' = gone \cup {np}
                    /\ lost' = lost \cup ListFrom(nodes[np].rec)
    /\ UNCHANGED <<root, recVars, numVars, pc, ops>>

Freed ==
    /\ pc = "free" /\ np = 0
    /\ pc' = "ready" /\ gone' = {} /\ lost' = {} /\ ops' = 0
    /\ nodes' = <<>> /\ root' = 0
    /\ recs' = <<>> /\ next' = <<>> /\ max' = MIN_RECORDS
    /\ pos0' = UINT_MAX /\ end' = UINT_MAX /\ slots' = <<>>
    /\ given' = [k \in 1..MaxNum |-> 0]
    /\ UNCHANGED np

Next ==
    \/ \E id \in Ids : UidDbInsert(id)
    \/ \E n \in 1..MaxNum : SetUidDbNumPos0(n)
    \/ \E r \in DOMAIN recs, n \in 1..MaxNum : SetUidDbNum(r, n)
    \/ ResetUidDbNums \/ ClearUidDb \/ FreePatTrie \/ Freed

Spec == Init /\ [][Next]_vars

\* The walk that frees the trie is a loop without waits.
FairSpec == Spec /\ WF_vars(FreePatTrie)

-----------------------------------------------------------------------------
(* Properties.                                                             *)

Pointers == 0..Len(nodes)

TypeOK ==
    /\ nodes \in Seq([left : Pointers, up : Pointers, right : Pointers,
                      bit : Nat, rec : 1..Len(recs)])
    /\ root \in Pointers /\ np \in Pointers
    /\ recs \in Seq(Ids) /\ next \in Seq(0..Len(recs)) /\ Len(next) = Len(recs)
    /\ max \in Nat /\ Len(recs) <= max
    /\ pos0 \in 1..MaxNum \cup {UINT_MAX} /\ end \in 1..(MaxNum + 1) \cup {UINT_MAX}
    /\ pc \in {"ready", "free"} /\ gone \subseteq DOMAIN nodes
    /\ lost \subseteq DOMAIN recs /\ ops \in 0..MaxOps

With(id) == {r \in DOMAIN recs : recs[r] = id}

\* The trie finds exactly what was inserted, whatever the order and although
\* ids may be prefixes of others: for an id the first record with it, at the
\* end of its list the last one, and nothing for other ids.
FindsAll ==
    pc = "ready" => \A id \in Ids :
        IF With(id) = {} THEN FindUidById(id) = 0 /\ LastUidInDb(id) = 0
        ELSE /\ FindUidById(id) = Least(With(id))
             /\ \A r \in With(id) : r <= LastUidInDb(id)
             /\ LastUidInDb(id) \in With(id)

Above(n) ==
    LET up[k \in DOMAIN nodes] == {k} \cup (IF nodes[k].up = 0 THEN {} ELSE up[nodes[k].up])
    IN  up[n]

\* The shape that walks up, later insertions and the freeing rely on: the
\* parent pointer of a child leads back, every other edge ends in the node
\* itself or in one above it, and every node but the root has one parent.
TrieShape ==
    pc = "ready" =>
        /\ \A n \in DOMAIN nodes, side \in {"left", "right"} :
             IF Descends(nodes, n, side) THEN nodes[nodes[n][side]].up = n
             ELSE nodes[n][side] \in Above(n) \cup {0}
        /\ \A n \in DOMAIN nodes :
             Cardinality({<<p, side>> \in (DOMAIN nodes) \X {"left", "right"} :
                            Descends(nodes, p, side) /\ nodes[p][side] = n})
               = IF n = root THEN 0 ELSE 1

\* Freeing touches no node that is freed already, and in the end every node
\* and every record is freed.
FreedOnce ==
    pc = "free" =>
        IF np = 0 THEN gone = DOMAIN nodes /\ lost = DOMAIN recs
        ELSE ({np, nodes[np].left, nodes[np].right} \ {0}) \cap gone = {}

\* A number finds the record it was given to since the last listing, and no
\* other number finds one.  After a reset the highest number may still do.
NumbersFound ==
    pc = "ready" /\ pos0 # UINT_MAX =>
        \A n \in 1..pos0 : \/ FindUidByNum(n) = given[n]
                           \/ n = pos0 /\ given[n] = 0 /\ FindUidByNum(n) \in DOMAIN recs

\* Freeing a trie comes to an end.
FreeEnds == (pc = "free") ~> (pc = "free" /\ np = 0)
=============================================================================
