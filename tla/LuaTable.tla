------------------------------ MODULE LuaTable ------------------------------
(***************************************************************************)
(* misc/luabash/lua/ltable.c: a table is an array and a hash of chained    *)
(* scatter with Brent's variation.  Keys move between the two when the     *)
(* hash is full; a traversal must not notice values that are changed, or   *)
(* keys that the collector has found dead.                                 *)
(***************************************************************************)
EXTENDS Integers, Sequences, SequencesExt, FiniteSetsExt

CONSTANTS
  Ints,     \* keys that are positive integers
  Names,    \* keys that are strings (negative here): the collector may mark them dead
  Hashes,   \* [Ints \cup Names -> Nat]: hash values to choose from
  MAXBITS,  \* an array has at most 2^MAXBITS slots
  Sizes     \* hash sizes of the table constructor

VARIABLES
  t,        \* the table: array, node, free (lastfree) and dummy
  hash,     \* hash values of the keys
  ref,      \* history: what was set last for each key
  key,      \* a traversal: the key that next returned; Done after the last
  met, due \* history: keys met, keys that were there all along

ltVars == <<t, hash, ref, key, met, due>>

Keys == Ints \cup Names
Nil == 0
Done == -1
Free == [key |-> Nil, val |-> 0, next |-> 0, dead |-> FALSE]
IsInt(k) == k > 0

--------------------------------------------------------------------------
SizeNode(h) == Len(h.node)
Odd(n) == IF n % 2 = 1 THEN n ELSE n + 1
MainPosition(h, k) ==
  1 + (IF IsInt(k) THEN hash[k] % Odd(SizeNode(h) - 1) ELSE hash[k] % SizeNode(h))

InArray(h, k) == IF IsInt(k) THEN k <= Len(h.array) ELSE FALSE
SameKey(n, k) == n.key = k

(* The chain of nodes from n on. *)
RECURSIVE Chain(_, _)
Chain(h, n) == IF n = 0 THEN <<>> ELSE <<n>> \o Chain(h, h.node[n].next)

Found(h, k, withDead) ==
  SelectSeq(Chain(h, MainPosition(h, k)),
            LAMBDA n : SameKey(h.node[n], k) /\ (withDead \/ ~ h.node[n].dead))

Get(h, k) ==
  IF InArray(h, k) THEN h.array[k]
  ELSE LET f == Found(h, k, FALSE) IN IF f = <<>> THEN 0 ELSE h.node[f[1]].val

(* The free place with the largest number below free; 0 if there is none. *)
FreePos(h) == LET p == {n \in 1..(h.free - 1) : h.node[n].key = Nil} IN IF p = {} THEN 0 ELSE Max(p)

Put(h, n, k, v) == [h EXCEPT !.node[n].key = k, !.node[n].val = v, !.node[n].dead = FALSE]

(* Variant: the colliding node moves, and its chain still leads to the old place. *)
KeepChain(h, mp, n, othern) == [h EXCEPT !.node[n] = h.node[mp], !.node[mp].next = 0, !.free = n]

(* A node that is not in its main position moves to n, and its chain with it. *)
MoveNode(h, mp, n, othern) ==
  LET before == CHOOSE p \in ToSet(Chain(h, othern)) : h.node[p].next = mp
  IN [h EXCEPT !.node[before].next = n, !.node[n] = h.node[mp], !.node[mp].next = 0, !.free = n]

--------------------------------------------------------------------------
(* How many integer keys lie in each slice (2^(i-1), 2^i]. *)
Slice(i) == IF i = 0 THEN 1..1 ELSE (2^(i - 1) + 1)..(2^i)
HashUsed(h) == {n \in 1..SizeNode(h) : h.node[n].val # 0}
IntKeys(h, k) ==
  {i \in 1..Len(h.array) : h.array[i] # 0} \cup
  {i \in {h.node[n].key : n \in HashUsed(h)} \cup {k} : IsInt(i)}

(* computesizes: the largest 2^i of whose slots more than half are used. *)
ArraySize(ints) ==
  LET fit == {i \in 0..MAXBITS : LET n == Cardinality(ints \cap 1..(2^i)) IN
                ints \cap Slice(i) # {} /\ n > (2^i) \div 2}
  IN IF fit = {} THEN 0 ELSE 2^Max(fit)

CeilPow2(n) == 2^Min({l \in 0..(MAXBITS + 1) : 2^l >= n})
NewNodes(size) == [n \in 1..(IF size = 0 THEN 1 ELSE CeilPow2(size)) |-> Free]

RECURSIVE Set(_, _, _)
(* resize: what does not fit into the array, then the old hash from its end, *)
(* is set again.                                                             *)
Resize(h, nasize, nhsize) ==
  LET old == Len(h.array)
      empty == [array |-> [i \in 1..nasize |-> IF i <= old THEN h.array[i] ELSE 0],
                node |-> NewNodes(nhsize), dummy |-> nhsize = 0,
                free |-> IF nhsize = 0 THEN 0 ELSE CeilPow2(nhsize) + 1]
      slice == [i \in 1..(IF old > nasize THEN old - nasize ELSE 0) |-> nasize + i]
      one == FoldLeft(LAMBDA a, i : IF h.array[i] = 0 THEN a ELSE Set(a, i, h.array[i]), empty, slice)
  IN FoldRight(LAMBDA n, a : IF n.val = 0 THEN a ELSE Set(a, n.key, n.val), h.node, one)

Rehash(h, k) ==
  LET ints == IntKeys(h, k)
      nasize == ArraySize(ints)
      total == Cardinality({i \in 1..Len(h.array) : h.array[i] # 0}) + Cardinality(HashUsed(h)) + 1
  IN Resize(h, nasize, total - Cardinality(ints \cap 1..nasize))

NewKey(h, k, v) ==
  LET mp == MainPosition(h, k)
      n == FreePos(h)
  IN IF h.node[mp].val = 0 /\ ~ h.dummy THEN Put(h, mp, k, v)
     ELSE IF n = 0 THEN Set(Rehash(h, k), k, v)
     ELSE LET othern == MainPosition(h, h.node[mp].key) IN
          IF othern # mp THEN Put(MoveNode(h, mp, n, othern), mp, k, v)
          ELSE Put([h EXCEPT !.node[n].next = h.node[mp].next, !.node[mp].next = n, !.free = n], n, k, v)

(* luaH_set, and the value stored where it points. *)
Set(h, k, v) ==
  IF InArray(h, k) THEN [h EXCEPT !.array[k] = v]
  ELSE LET f == Found(h, k, FALSE) IN
       IF f # <<>> THEN [h EXCEPT !.node[f[1]].val = v] ELSE NewKey(h, k, v)

--------------------------------------------------------------------------
(* Where a traversal stands: 0 before the first; -1 if the key is not there. *)
FindIndex(h, k) == IF InArray(h, k) THEN k ELSE
  LET f == Found(h, k, TRUE) IN IF f = <<>> THEN -1 ELSE Len(h.array) + f[1]

ValueAt(h, i) == IF i <= Len(h.array) THEN h.array[i] ELSE h.node[i - Len(h.array)].val
KeyAt(h, i) == IF i <= Len(h.array) THEN i ELSE h.node[i - Len(h.array)].key

Start ==
  /\ key = Nil
  /\ due' = {k \in Keys : ref[k] # 0}
  /\ LET more == {i \in 1..(Len(t.array) + SizeNode(t)) : ValueAt(t, i) # 0} IN
     IF more = {} THEN key' = Done /\ UNCHANGED met
     ELSE key' = KeyAt(t, Min(more)) /\ met' = {KeyAt(t, Min(more))}
  /\ UNCHANGED <<t, hash, ref>>

(* luaH_next; an invalid key to next ends the program. *)
NextKey ==
  /\ key \notin {Nil, Done}
  /\ LET i == FindIndex(t, key)
         more == {j \in (i + 1)..(Len(t.array) + SizeNode(t)) : ValueAt(t, j) # 0}
     IN /\ key' = IF i = -1 THEN Nil ELSE IF more = {} THEN Done ELSE KeyAt(t, Min(more))
        /\ met' = IF i = -1 \/ more = {} THEN met ELSE met \cup {KeyAt(t, Min(more))}
  /\ UNCHANGED <<t, hash, ref, due>>

Rest ==
  /\ key = Done
  /\ key' = Nil /\ met' = {} /\ due' = {} /\ UNCHANGED <<t, hash, ref>>

(* An assignment; in a traversal a field that exists is changed or cleared. *)
SetKey(k, v) ==
  /\ (key = Nil) \/ (ref[k] # 0)
  /\ ref' = [ref EXCEPT ![k] = v]
  /\ t' = Set(t, k, v)
  /\ due' = IF v = 0 THEN due \ {k} ELSE due
  /\ UNCHANGED <<hash, key, met>>

(* The collector marks the key of an empty node dead (lgc.c, removeentry). *)
Collect ==
  /\ t' = [t EXCEPT !.node = [n \in DOMAIN @ |->
             IF @[n].val = 0 /\ ~ IsInt(@[n].key) /\ @[n].key # Nil THEN [@[n] EXCEPT !.dead = TRUE] ELSE @[n]]]
  /\ UNCHANGED <<hash, ref, key, met, due>>

(* OP_SETLIST, lua_createtable: room for n more array slots. *)
ResizeArray(n) ==
  /\ key = Nil /\ n > Len(t.array)
  /\ t' = Resize(t, n, IF t.dummy THEN 0 ELSE SizeNode(t))
  /\ UNCHANGED <<hash, ref, key, met, due>>

Init ==
  /\ hash \in Hashes
  /\ \E n \in Sizes : t = [array |-> <<>>, node |-> NewNodes(n), dummy |-> n = 0, free |-> IF n = 0 THEN 0 ELSE CeilPow2(n) + 1]
  /\ ref = [k \in Keys |-> 0] /\ key = Nil /\ met = {} /\ due = {}

Next ==
  \/ Start \/ NextKey \/ Rest \/ Collect
  \/ \E k \in Keys, v \in {0, 1} : SetKey(k, v)
  \/ \E n \in Ints : ResizeArray(n)

--------------------------------------------------------------------------
(* luaH_getn: a binary search in the array, or an unbound one in the hash. *)
GetNum(h, j) == IF j \in Ints THEN Get(h, j) ELSE 0

RECURSIVE Between(_, _, _)
Between(h, i, j) ==
  IF j - i <= 1 THEN i
  ELSE LET m == (i + j) \div 2 IN IF GetNum(h, m) = 0 THEN Between(h, i, m) ELSE Between(h, m, j)

RECURSIVE UnboundSearch(_, _, _)
UnboundSearch(h, i, j) == IF GetNum(h, j) = 0 THEN Between(h, i, j) ELSE UnboundSearch(h, j, 2 * j)

GetN(h) ==
  LET j == Len(h.array) IN
  IF j > 0 /\ GetNum(h, j) = 0 THEN Between(h, 0, j)
  ELSE IF h.dummy THEN j ELSE UnboundSearch(h, j, j + 1)

TypeOK ==
  /\ \A n \in 1..SizeNode(t) : t.node[n].next \in 0..SizeNode(t) /\ t.node[n].val \in {0, 1}
  /\ t.free \in 0..(SizeNode(t) + 1) /\ met \cup due \subseteq Keys

(* What a table promises (ltable.c), whatever the keys hash to and in which  *)
(* order they came and went: a key gives what was set for it last, and #t is *)
(* a border; a traversal, while fields are changed or cleared and their keys *)
(* collected, never loses its place, and meets every key that stays.         *)
TableIsRight ==
  /\ \A k \in Keys : Get(t, k) = ref[k]
  /\ LET n == GetN(t) IN (n = 0 \/ GetNum(t, n) # 0) /\ GetNum(t, n + 1) = 0
  /\ key = Nil => met = {}
  /\ key = Done => due \subseteq met
==============================================================================
