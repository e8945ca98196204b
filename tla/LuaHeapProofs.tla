--------------------------- MODULE LuaHeapProofs ---------------------------
(***************************************************************************)
(* Proofs about LuaHeap, for any number of objects, slots and operations   *)
(* of the program, and wherever the steps of the collector fall between    *)
(* them: the colours of the marking phase, and from them that nothing in   *)
(* reach is freed and that everything out of reach is.                     *)
(***************************************************************************)
EXTENDS LuaHeap, WellFoundedInduction, TLAPS

Refs == {Nil} \cup 1 .. MaxObjects
Modes ==
  {""} \cup (UNION {m.kinds.table \cup m.kinds.udata \cup m.kinds.string : m \in Mutators})
       \cup (UNION {{m.objects[i].mode : i \in DOMAIN m.objects} : m \in Mutators})
ObjectKinds == {"unborn", "freed", "table", "thread", "string", "userdata", "function", "upval"}
Objects ==
  [kind : ObjectKinds, mark : {"w0", "w1", "gray", "black"}, mode : Modes, key : Refs \cup {DeadKey}, val : Refs,
   on : Ids \cup {Nil}, slot : Nat, fin : BOOLEAN]

\* What a value of Lua can refer to: an upvalue is none.
IsValue(h, r) == r \in Ids => h[r].kind \notin {"upval", "unborn"}

Room(i) == IF i = Main THEN Slots ELSE 1

\* The objects of a heap h with the stacks st refer to objects of the right kind.
ShapedAt(h, st, i) ==
  /\ h[i].kind = "thread" => Len(st[i]) = Room(i)
  /\ \A n \in DOMAIN st[i] : IsValue(h, st[i][n])
  /\ h[i].kind = "table" => IsValue(h, h[i].val) /\ IsValue(h, h[i].key)
  /\ h[i].kind = "upval" => IsValue(h, h[i].val)
  /\ h[i].kind = "string" => h[i].val = Nil
  /\ h[i].kind = "function" => h[i].val # Nil /\ h[h[i].val].kind \in {"upval", "freed"}
  /\ h[i].kind = "userdata" /\ h[i].val # Nil => h[h[i].val].kind \in {"table", "freed"}
  /\ IsOpen(h[i]) => h[h[i].on].kind = "thread" /\ h[i].slot \in 1 .. Room(h[i].on) /\ h[i].mark # "black"
Shaped(h, st) ==
  /\ h \in [Ids -> Objects] /\ st \in [Ids -> Seq(Refs)]
  /\ h[Main].kind = "thread"
  /\ \A i \in Ids : ShapedAt(h, st, i)

\* The programs that may run: their objects are whole, white and tell strings apart.
HeapInstance ==
  /\ MaxObjects \in Nat /\ Slots \in Nat
  /\ \A m \in Mutators :
       /\ m.ops \in Nat
       /\ m.objects \in Seq(Objects) /\ Len(m.objects) <= MaxObjects
       /\ m.locals \in Seq(Refs) /\ m.stacks \in [1 .. Len(m.objects) -> Seq(Refs)]
       /\ LET n == Len(m.objects)
              Known(r) == r # Nil => r <= n
          IN /\ Len(m.locals) = Slots /\ \A a \in 1 .. Slots : Known(m.locals[a])
             /\ \A i \in 1 .. n :
                  LET o == m.objects[i] IN
                  /\ o.kind \in {"table", "thread", "string", "userdata"}
                  /\ o.mark = "w0" /\ ~ o.fin /\ o.on = Nil
                  /\ o.key # DeadKey /\ Known(o.key) /\ Known(o.val)
                  /\ o.kind = "string" => o.val = Nil
                  /\ o.kind = "userdata" /\ o.val # Nil => m.objects[o.val].kind = "table"
                  /\ o.kind = "thread" => Len(m.stacks[i]) = 1
                  /\ \A k \in DOMAIN m.stacks[i] : Known(m.stacks[i][k])
             /\ \A i, j \in 1 .. n :
                  /\ m.objects[i].kind = "string" /\ m.objects[j].kind = "string"
                  /\ m.objects[i].mode = m.objects[j].mode
                  => i = j

--------------------------------------------------------------------------
(* The parts of the invariant, for any heap h and stacks st. *)
\* What is there and not about to be freed.
NotDead(h, w, i) == Alive(h[i]) /\ h[i].mark # Other(w)
\* All references of an object, the weak ones included.
AllRefs(h, st, i) == RefsOf(h, st, i) \cup Entry(h[i])

\* Nothing that stays refers to what goes.
Whole(h, st, w, tm) ==
  /\ NotDead(h, w, Main) /\ \A u \in tm : NotDead(h, w, u)
  /\ \A i \in Ids : NotDead(h, w, i) => \A r \in AllRefs(h, st, i) \cap Ids : NotDead(h, w, r)

\* What each phase knows of the marks.
Settled(h, i) == i \in tmudata \/ h[i].mark = cw
PhaseOk(h) ==
  /\ gcstate \in {"pause", "finalize"} => \A i \in Ids : Alive(h[i]) => Settled(h, i)
  /\ gcstate = "propagate" => \A i \in Ids : Alive(h[i]) => h[i].mark # Other(cw)
  /\ gcstate \in {"sweepstring", "sweep"} =>
       \A i \in Ids : h[i].kind = "string" => h[i].mark = cw \/ (gcstate = "sweepstring" /\ i \in unswept)
  /\ gcstate = "sweep" =>
       \A i \in Ids : Alive(h[i]) => Settled(h, i) \/ (IF IsOpen(h[i]) THEN h[i].on ELSE i) \in unswept
PhaseInv ==
  /\ gcstate = "pause" => tmudata = {}
  /\ gcstate \in {"pause", "propagate"} => full # "sweep"
  /\ atomic # "no" => gcstate = "propagate"
  /\ PhaseOk(heap)

\* The userdata whose finalizers are to be called, and those that were.
FinalOk(h) ==
  /\ \A u \in tmudata :
       /\ h[u].kind = "userdata" /\ h[u].fin /\ gced[u] = 0 /\ h[u].mark \in {cw, "black"}
       /\ atomic = "tmudata" => h[u].mark = "black"
  /\ \A i \in Ids : gced[i] # 0 => h[i].fin /\ h[i].kind # "unborn"

StringsOk(h) == \A i, j \in Of(h, "string") : h[i].mode = h[j].mode => i = j

\* The colours while the heap is marked; what is in also is about to be marked.
Clear(h, is, also) == \A r \in is \cap Ids : ~ IsWhite(h[r]) \/ r \in also
Listed == {"table", "thread", "function"}
IsWeak(o) == WeakKey(o) \/ WeakValue(o)
BlackOk(h, st, tm, at, also, i) ==
  /\ i \notin tm \/ at = "tmudata" => Clear(h, RefsOf(h, st, i), also)
  /\ h[i].kind \in {"table", "function", "userdata", "upval"}
  /\ h[i].kind = "table" => ~ IsWeak(h[i]) /\ Clear(h, {h[i].key, h[i].val}, also)
ListsOk(h, gr, ga, wk) ==
  /\ \A i \in gr \cup ga \cup wk : i \in Ids /\ h[i].mark = "gray" /\ h[i].kind \in Listed
  /\ \A i \in ga : h[i].kind = "thread" \/ (h[i].kind = "table" /\ ~ IsWeak(h[i]))
  /\ \A i \in wk : h[i].kind = "table" /\ IsWeak(h[i])
  /\ gr \cap (ga \cup wk) = {}
Colours(h, st, gr, ga, wk, tm, at, also) ==
  /\ Clear(h, {Main}, also)
  /\ \A i \in Ids : Alive(h[i]) /\ h[i].mark = "black" => BlackOk(h, st, tm, at, also, i)
  /\ \A i \in Ids : Alive(h[i]) /\ h[i].mark = "gray" =>
       h[i].kind = "string" \/ IsOpen(h[i]) \/ i \in gr \cup ga \cup wk
  /\ ListsOk(h, gr, ga, wk)
  /\ at # "no" => \A i \in Ids : IsOpen(h[i]) /\ h[i].mark = "gray" => Clear(h, RefsOf(h, st, i), also)
  /\ at \in {"again", "tmudata"} => \A i \in ga : h[i].kind = "thread" /\ Clear(h, RefsOf(h, st, i), also)
ColourInv == gcstate = "propagate" => Colours(heap, stack, gray, grayagain, weak, tmudata, atomic, {})

\* What was out of reach when the collection began, and is so still, but for R.
GarbageOk(h, st, R) ==
  /\ \A i \in garbage : h[i].kind # "unborn"
  /\ Main \notin garbage /\ tmudata \cap garbage \subseteq R
  /\ \A i \in Ids \ garbage : Alive(h[i]) => RefsOf(h, st, i) \cap garbage \subseteq R
  /\ gcstate = "propagate" => \A i \in garbage \ R : Alive(h[i]) => IsWhite(h[i])
  /\ gcstate # "propagate" /\ full # "sweep" => \A i \in garbage \ R : Alive(h[i]) => h[i].mark = Other(cw)

HeapTypes ==
  /\ program \in Mutators /\ ops \in 0 .. program.ops
  /\ cw \in {"w0", "w1"} /\ full \in {"no", "sweep", "collect"}
  /\ gcstate \in {"pause", "propagate", "sweepstring", "sweep", "finalize"}
  /\ atomic \in {"no", "upvals", "weak", "again", "tmudata"}
  /\ gray \subseteq Ids /\ grayagain \subseteq Ids /\ weak \subseteq Ids
  /\ unswept \subseteq Ids /\ tmudata \subseteq Ids /\ garbage \subseteq Ids
  /\ gced \in [Ids -> 0 .. 1]

HeapInv ==
  /\ HeapTypes /\ Shaped(heap, stack) /\ Whole(heap, stack, cw, tmudata)
  /\ PhaseInv /\ FinalOk(heap) /\ StringsOk(heap) /\ ColourInv /\ GarbageOk(heap, stack, {})

--------------------------------------------------------------------------
(* The ends of what the definitions say. *)
\* What is in reach: the roots, what they refer to, and no more than any set that has these.
LEMMA ReachableIs ==
  ASSUME MaxObjects \in Nat, NEW h, NEW st, NEW tmu \in SUBSET Ids
  PROVE  /\ Reachable(h, st, tmu) \subseteq Ids
         /\ {Main} \cup tmu \subseteq Reachable(h, st, tmu)
         /\ \A i \in Reachable(h, st, tmu) : RefsOf(h, st, i) \cap Ids \subseteq Reachable(h, st, tmu)
         /\ \A C \in SUBSET Ids :
              {Main} \cup tmu \subseteq C /\ (\A i \in C : RefsOf(h, st, i) \cap Ids \subseteq C)
              => Reachable(h, st, tmu) \subseteq C
<1> Main \in Ids
  BY DEF Main, Ids
<1> QED
  BY DEF Reachable

(* The two whites (otherwhite, lgc.h). *)
LEMMA OtherIs == ASSUME NEW w \in {"w0", "w1"} PROVE Other(w) \in {"w0", "w1"} /\ Other(w) # w /\ Other(Other(w)) = w
BY DEF Other

\* The references of an object that is whole.
LEMMA RefsAre ==
  ASSUME MaxObjects \in Nat, NEW h, NEW st, Shaped(h, st), NEW i \in Ids
  PROVE  /\ h[i] \in Objects
         /\ Alive(h[i]) => AllRefs(h, st, i) \subseteq Refs \cup {DeadKey}
         /\ h[i].kind = "thread" => RefsOf(h, st, i) = {st[i][n] : n \in 1 .. Len(st[i])}
         /\ h[i].kind = "upval" => RefsOf(h, st, i) = {IF IsOpen(h[i]) THEN st[h[i].on][h[i].slot] ELSE h[i].val}
         /\ h[i].kind = "table" => RefsOf(h, st, i) = Strong(h[i]) \cup {r \in Entry(h[i]) : IsString(h, r)}
         /\ h[i].kind \notin {"thread", "upval", "table"} => RefsOf(h, st, i) = {h[i].val}
         /\ h[i].kind # "table" => AllRefs(h, st, i) = RefsOf(h, st, i)
         /\ h[i].kind = "table" /\ ~ IsWeak(h[i]) => RefsOf(h, st, i) = Entry(h[i])
         /\ h[i].kind = "table" => AllRefs(h, st, i) = Entry(h[i])
         /\ h[i].kind # "upval" => ~ IsOpen(h[i])
         /\ IsOpen(h[i]) => h[h[i].on].kind = "thread" /\ h[i].on \in Ids /\ h[i].slot \in 1 .. Len(st[h[i].on])
<1>1. h[i] \in Objects /\ st[i] \in Seq(Refs) /\ ShapedAt(h, st, i)
  BY DEF Shaped
<1>2. h[i].kind = "thread" => RefsOf(h, st, i) = {st[i][n] : n \in 1 .. Len(st[i])}
  BY <1>1 DEF RefsOf, ToSet
<1>3. h[i].kind = "upval" => RefsOf(h, st, i) = {IF IsOpen(h[i]) THEN st[h[i].on][h[i].slot] ELSE h[i].val}
  BY DEF RefsOf
<1>4. h[i].kind = "table" => RefsOf(h, st, i) = Strong(h[i]) \cup {r \in Entry(h[i]) : IsString(h, r)}
  BY DEF RefsOf
<1>5. h[i].kind \notin {"thread", "upval", "table"} => RefsOf(h, st, i) = {h[i].val}
  BY DEF RefsOf
<1>6. h[i].kind # "table" => Entry(h[i]) = {}
  BY DEF Entry
<1>7. h[i].kind = "table" => Strong(h[i]) \subseteq Entry(h[i])
  BY DEF Entry, Strong
<1>8. h[i].kind = "table" /\ ~ IsWeak(h[i]) => Strong(h[i]) = Entry(h[i])
  BY DEF Entry, Strong, IsWeak
<1>9. IsOpen(h[i]) => h[h[i].on].kind = "thread" /\ h[i].on \in Ids /\ h[i].slot \in 1 .. Len(st[h[i].on])
  <2> SUFFICES ASSUME IsOpen(h[i]) PROVE h[h[i].on].kind = "thread" /\ h[i].on \in Ids /\ h[i].slot \in 1 .. Len(st[h[i].on])
    OBVIOUS
  <2>1. h[i].on \in Ids /\ h[h[i].on].kind = "thread"
    BY <1>1 DEF ShapedAt, IsOpen, Objects
  <2>2. ShapedAt(h, st, h[i].on)
    BY <2>1 DEF Shaped
  <2> QED
    BY <1>1, <2>1, <2>2 DEF ShapedAt
<1>10. Alive(h[i]) => AllRefs(h, st, i) \subseteq Refs \cup {DeadKey}
  <2>1. CASE h[i].kind = "thread"
    BY <2>1, <1>1, <1>2, <1>6 DEF AllRefs
  <2>2. CASE h[i].kind = "upval"
    <3>1. IsOpen(h[i]) => st[h[i].on] \in Seq(Refs)
      BY <1>9 DEF Shaped
    <3> QED
      BY <2>2, <3>1, <1>1, <1>3, <1>6, <1>9 DEF AllRefs, Objects
  <2>3. CASE h[i].kind = "table"
    BY <2>3, <1>1, <1>4, <1>7 DEF AllRefs, Entry, Objects
  <2>4. CASE h[i].kind \notin {"thread", "upval", "table"}
    BY <2>4, <1>1, <1>5, <1>6 DEF AllRefs, Objects
  <2> QED
    BY <2>1, <2>2, <2>3, <2>4
<1> QED
  BY <1>1, <1>2, <1>3, <1>4, <1>5, <1>6, <1>7, <1>8, <1>9, <1>10 DEF AllRefs, IsOpen

(* The invariant says what the runs check: what is in reach is there and not about to be freed. *)
LEMMA InvIsSafe ==
  ASSUME HeapInstance, HeapInv
  PROVE  HeapIsSafe /\ MarksAreRight
<1> MaxObjects \in Nat
  BY DEF HeapInstance
<1> tmudata \in SUBSET Ids /\ cw \in {"w0", "w1"}
  BY DEF HeapInv, HeapTypes
<1> DEFINE C == {i \in Ids : NotDead(heap, cw, i)}
           reach == Reachable(heap, stack, tmudata)
<1>1. reach \subseteq C
  <2>1. {Main} \cup tmudata \subseteq C
    BY DEF HeapInv, Whole, Main, Ids
  <2>2. \A i \in C : RefsOf(heap, stack, i) \cap Ids \subseteq C
    BY DEF HeapInv, Whole, AllRefs
  <2> HIDE DEF C
  <2>3. C \in SUBSET Ids
    BY DEF C
  <2> QED
    BY <2>1, <2>2, <2>3, ReachableIs
<1>2. \A i \in reach \cup ((UNION {Entry(heap[i]) : i \in reach}) \cap Ids) : Alive(heap[i])
  BY <1>1 DEF HeapInv, Whole, AllRefs, NotDead
<1>3. \A i, j \in Of(heap, "string") : heap[i].mode = heap[j].mode => i = j
  BY DEF HeapInv, StringsOk
<1>4. \A i \in Ids : gced[i] <= 1
  BY DEF HeapInv, HeapTypes
<1>5. gcstate = "pause" => \A i \in garbage : heap[i].kind \in {"freed", "unborn"}
  BY OtherIs DEF HeapInv, HeapTypes, GarbageOk, PhaseInv, PhaseOk, Settled, Alive
<1>6. MarksAreRight
  <2>1. gcstate = "propagate" =>
         \A i \in Ids \ tmudata : Alive(heap[i]) /\ heap[i].mark = "black" =>
           \A r \in RefsOf(heap, stack, i) \cap Ids : ~ IsWhite(heap[r])
    BY DEF HeapInv, ColourInv, Colours, BlackOk, Clear
  <2>2. gcstate \in {"pause", "finalize"} => \A i \in Ids \ tmudata : Alive(heap[i]) => heap[i].mark = cw
    BY DEF HeapInv, PhaseInv, PhaseOk, Settled
  <2> QED
    BY <2>1, <2>2 DEF MarksAreRight
<1> QED
  BY <1>2, <1>3, <1>4, <1>5, <1>6 DEF HeapIsSafe

--------------------------------------------------------------------------
(* What a mark does. *)
\* The objects is, all white, are marked for the sake of is0 and of each other.
Spread(h, st, is0, is) ==
  /\ is \subseteq Ids /\ \A i \in is : IsWhite(h[i])
  /\ \A r \in is0 \cap Ids : IsWhite(h[r]) => r \in is
  /\ \A i \in is : h[i].kind \in {"upval", "userdata"} =>
       \A r \in RefsOf(h, st, i) \cap Ids : IsWhite(h[r]) => r \in is

(* reallymarkobject: what it marks white no longer has white values, or is traversed later. *)
LEMMA MarkedSpreads ==
  ASSUME MaxObjects \in Nat, NEW h, Shaped(h, stack), NEW is0, NEW is, is = Marked(h, is0)
  PROVE  Spread(h, stack, is0, is)
<1> DEFINE direct == Whites(h, is0)
           values == direct \cup Whites(h, {Value(h[i]) : i \in direct \cap Of(h, "upval")})
           envs == Whites(h, {h[i].val : i \in values \cap Of(h, "userdata")})
<1>1. is = values \cup envs
  BY DEF Marked
<1>2. is \subseteq Ids /\ \A i \in is : IsWhite(h[i])
  BY <1>1 DEF Whites
<1>3. \A r \in is0 \cap Ids : IsWhite(h[r]) => r \in is
  BY <1>1 DEF Whites
<1>4. ASSUME NEW i \in Ids, h[i].kind = "upval"
      PROVE  RefsOf(h, stack, i) = {Value(h[i])} /\ IsValue(h, Value(h[i]))
  <2>1. RefsOf(h, stack, i) = {Value(h[i])}
    BY <1>4, RefsAre DEF Value
  <2>2. CASE IsOpen(h[i])
    <3>1. h[i].on \in Ids /\ h[i].slot \in 1 .. Len(stack[h[i].on]) /\ stack[h[i].on] \in Seq(Refs)
      BY <2>2, RefsAre DEF Shaped
    <3>2. IsValue(h, stack[h[i].on][h[i].slot])
      BY <3>1 DEF Shaped, ShapedAt
    <3> QED
      BY <2>1, <2>2, <3>2 DEF Value
  <2>3. CASE ~ IsOpen(h[i])
    BY <1>4, <2>1, <2>3 DEF Value, Shaped, ShapedAt
  <2> QED
    BY <2>2, <2>3, <2>1
<1>5. \A i \in is : h[i].kind = "upval" => i \in direct
  <2> SUFFICES ASSUME NEW i \in is, h[i].kind = "upval", i \notin direct PROVE FALSE
    OBVIOUS
  <2>1. CASE i \in values
    BY <2>1, <1>4 DEF Whites, Of, IsValue
  <2>2. CASE i \in envs
    <3>1. PICK u \in values \cap Of(h, "userdata") : i = h[u].val
      BY <2>2 DEF Whites
    <3>2. u \in Ids /\ h[u].kind = "userdata" /\ i # Nil
      BY <3>1, <1>2 DEF Of, Ids, Nil
    <3> QED
      BY <3>1, <3>2 DEF Shaped, ShapedAt
  <2> QED
    BY <1>1, <2>1, <2>2
<1>6. \A i \in is : h[i].kind = "userdata" => i \in values
  <2> SUFFICES ASSUME NEW i \in is, h[i].kind = "userdata", i \notin values PROVE FALSE
    OBVIOUS
  <2>1. PICK u \in values \cap Of(h, "userdata") : i = h[u].val
    BY <1>1 DEF Whites
  <2>2. u \in Ids /\ h[u].kind = "userdata" /\ i # Nil
    BY <2>1, <1>2 DEF Of, Ids, Nil
  <2> QED
    BY <2>1, <2>2 DEF Shaped, ShapedAt
<1>7. ASSUME NEW i \in is, h[i].kind \in {"upval", "userdata"}, NEW r \in RefsOf(h, stack, i) \cap Ids, IsWhite(h[r])
      PROVE  r \in is
  <2>1. CASE h[i].kind = "upval"
    BY <2>1, <1>7, <1>2, <1>4, <1>5, <1>1 DEF Whites, Of
  <2>2. CASE h[i].kind = "userdata"
    <3>1. RefsOf(h, stack, i) = {h[i].val}
      BY <2>2, <1>2, RefsAre
    <3> QED
      BY <3>1, <2>2, <1>7, <1>2, <1>6, <1>1 DEF Whites, Of
  <2> QED
    BY <1>7, <2>1, <2>2
<1> QED
  BY <1>2, <1>3, <1>7 DEF Spread

\* A mark does not leave a set that is closed.
LEMMA MarkedWithin ==
  ASSUME MaxObjects \in Nat, NEW h, Shaped(h, stack), NEW is0, NEW C, is0 \cap Ids \subseteq C,
         \A i \in C \cap Ids : RefsOf(h, stack, i) \cap Ids \subseteq C
  PROVE  Marked(h, is0) \subseteq C
<1> DEFINE direct == Whites(h, is0)
           values == direct \cup Whites(h, {Value(h[i]) : i \in direct \cap Of(h, "upval")})
           envs == Whites(h, {h[i].val : i \in values \cap Of(h, "userdata")})
<1>1. Marked(h, is0) = values \cup envs
  BY DEF Marked
<1>2. direct \subseteq C \cap Ids
  BY DEF Whites
<1>3. values \subseteq C \cap Ids
  <2> SUFFICES ASSUME NEW i \in direct \cap Of(h, "upval"), Value(h[i]) \in Ids PROVE Value(h[i]) \in C
    BY <1>2 DEF Whites
  <2>1. i \in C \cap Ids /\ h[i].kind = "upval"
    BY <1>2 DEF Of
  <2>2. RefsOf(h, stack, i) = {Value(h[i])}
    BY <2>1, RefsAre DEF Value
  <2> QED
    BY <2>1, <2>2
<1>4. envs \subseteq C
  <2> SUFFICES ASSUME NEW i \in values \cap Of(h, "userdata"), h[i].val \in Ids PROVE h[i].val \in C
    BY DEF Whites
  <2>1. i \in C \cap Ids /\ h[i].kind = "userdata"
    BY <1>3 DEF Of
  <2>2. RefsOf(h, stack, i) = {h[i].val}
    BY <2>1, RefsAre
  <2> QED
    BY <2>1, <2>2
<1> QED
  BY <1>1, <1>3, <1>4

\* Two heaps that differ in marks, and in what finalizers have to do.
SameButMarks(h, h2) ==
  \A i \in Ids : /\ h2[i].kind = h[i].kind /\ h2[i].mode = h[i].mode /\ h2[i].val = h[i].val
                 /\ h2[i].on = h[i].on /\ h2[i].slot = h[i].slot
                 /\ h2[i].key = h[i].key \/ (h[i].kind = "table" /\ h[i].val = Nil /\ h2[i].key = DeadKey)

(* Marks are no references: the shape of the heap is the same whatever they are. *)
LEMMA SameRefs ==
  ASSUME MaxObjects \in Nat, NEW h, NEW h2, NEW st, Shaped(h, st), SameButMarks(h, h2), h2 \in [Ids -> Objects],
         \A i \in Ids : IsOpen(h2[i]) => h2[i].mark # "black"
  PROVE  /\ Shaped(h2, st)
         /\ \A i \in Ids : /\ RefsOf(h2, st, i) = RefsOf(h, st, i) /\ AllRefs(h2, st, i) = AllRefs(h, st, i)
                           /\ IsOpen(h2[i]) <=> IsOpen(h[i])
                           /\ Alive(h2[i]) <=> Alive(h[i])
                           /\ IsWeak(h2[i]) <=> IsWeak(h[i])
         /\ StringsOk(h) => StringsOk(h2)
<1>1. \A r : IsString(h2, r) <=> IsString(h, r)
  BY DEF IsString, SameButMarks
<1>2. \A i \in Ids : Entry(h2[i]) = Entry(h[i]) /\ Strong(h2[i]) = Strong(h[i])
  BY DEF Entry, Strong, SameButMarks, WeakKey, WeakValue
<1>3. \A i \in Ids : /\ IsOpen(h2[i]) <=> IsOpen(h[i])
                     /\ Alive(h2[i]) <=> Alive(h[i])
                     /\ IsWeak(h2[i]) <=> IsWeak(h[i])
  BY DEF IsOpen, Alive, IsWeak, WeakKey, WeakValue, SameButMarks
<1>4. \A i \in Ids : RefsOf(h2, st, i) = RefsOf(h, st, i)
  <2> SUFFICES ASSUME NEW i \in Ids PROVE RefsOf(h2, st, i) = RefsOf(h, st, i)
    OBVIOUS
  <2>1. h2[i].kind = h[i].kind /\ h2[i].val = h[i].val /\ h2[i].on = h[i].on /\ h2[i].slot = h[i].slot
    BY DEF SameButMarks
  <2>2. Strong(h2[i]) \cup {r \in Entry(h2[i]) : IsString(h2, r)} = Strong(h[i]) \cup {r \in Entry(h[i]) : IsString(h, r)}
    BY <1>1, <1>2
  <2> QED
    BY <2>1, <2>2, <1>3 DEF RefsOf
<1>5. \A r : IsValue(h, r) => IsValue(h2, r)
  BY DEF IsValue, SameButMarks
<1>6. DeadKey \notin Ids
  BY DEF DeadKey, Ids
<1>7. ASSUME NEW i \in Ids PROVE ShapedAt(h2, st, i)
  <2>1. ShapedAt(h, st, i) /\ h[i] \in Objects
    BY DEF Shaped
  <2>2. IsValue(h2, DeadKey)
    BY <1>6 DEF IsValue
  <2>3. /\ h2[i].kind = h[i].kind /\ h2[i].val = h[i].val /\ h2[i].on = h[i].on /\ h2[i].slot = h[i].slot
        /\ h2[i].key = h[i].key \/ h2[i].key = DeadKey
    BY DEF SameButMarks
  <2>4. h2[i].kind = "table" => IsValue(h2, h2[i].val) /\ IsValue(h2, h2[i].key)
    BY <2>1, <2>2, <2>3, <1>5 DEF ShapedAt
  <2>5. h[i].val \in Ids => h2[h[i].val].kind = h[h[i].val].kind
    BY DEF SameButMarks
  <2>6. h[i].val # Nil => h[i].val \in Ids
    BY <2>1 DEF Objects, Refs, Ids
  <2>7. IsOpen(h2[i]) => h2[h2[i].on].kind = "thread" /\ h2[i].slot \in 1 .. Room(h2[i].on) /\ h2[i].mark # "black"
    <3> SUFFICES ASSUME IsOpen(h2[i])
                 PROVE  h2[h2[i].on].kind = "thread" /\ h2[i].slot \in 1 .. Room(h2[i].on) /\ h2[i].mark # "black"
      OBVIOUS
    <3>1. IsOpen(h[i]) /\ h[i].on \in Ids
      BY <1>3, RefsAre
    <3> QED
      BY <3>1, <2>1, <2>3 DEF ShapedAt, SameButMarks
  <2> QED
    BY <2>1, <2>3, <2>4, <2>5, <2>6, <2>7, <1>5 DEF ShapedAt
<1>8. Shaped(h2, st)
  BY <1>7 DEF Shaped, SameButMarks, Main, Ids
<1>9. StringsOk(h) => StringsOk(h2)
  BY DEF StringsOk, Of, SameButMarks
<1> QED
  BY <1>2, <1>3, <1>4, <1>8, <1>9 DEF AllRefs

\* What paint does to objects that are whole.
LEMMA PaintedIs ==
  ASSUME MaxObjects \in Nat, NEW h, NEW st, Shaped(h, st), NEW is \in SUBSET Ids, NEW p, p = Painted(h, is)
  PROVE  /\ p \in [Ids -> Objects] /\ SameButMarks(h, p) /\ Shaped(p, st)
         /\ \A i \in Ids : /\ p[i].mark = (IF i \in is THEN Colour(h[i]) ELSE h[i].mark)
                           /\ p[i].fin = h[i].fin /\ p[i].key = h[i].key
                           /\ i \in is => p[i].mark \in {"gray", "black"} /\ ~ IsWhite(p[i])
                           /\ i \notin is => p[i] = h[i]
                           /\ IsOpen(p[i]) => p[i].mark # "black"
<1>0. h \in [Ids -> Objects]
  BY DEF Shaped
<1>1. \A i \in Ids : p[i] = IF i \in is THEN [h[i] EXCEPT !.mark = Colour(h[i])] ELSE h[i]
  BY DEF Painted
<1>2. \A i \in Ids : Colour(h[i]) \in {"gray", "black"}
  BY DEF Colour
<1>3. \A i \in Ids : /\ p[i] \in Objects
                     /\ p[i].mark = (IF i \in is THEN Colour(h[i]) ELSE h[i].mark)
                     /\ p[i].fin = h[i].fin /\ p[i].key = h[i].key
                     /\ p[i].kind = h[i].kind /\ p[i].mode = h[i].mode /\ p[i].val = h[i].val
                     /\ p[i].on = h[i].on /\ p[i].slot = h[i].slot
                     /\ i \notin is => p[i] = h[i]
  <2> TAKE i \in Ids
  <2>1. h[i] \in Objects
    BY <1>0
  <2>2. CASE i \in is
    BY <2>1, <2>2, <1>1, <1>2 DEF Objects
  <2>3. CASE i \notin is
    BY <2>1, <2>3, <1>1 DEF Objects
  <2> QED
    BY <2>2, <2>3
<1>4. p \in [Ids -> Objects]
  BY <1>3 DEF Painted
<1>5. SameButMarks(h, p)
  BY <1>3 DEF SameButMarks
<1>6. \A i \in Ids : IsOpen(p[i]) => p[i].mark # "black"
  BY <1>3, <1>0 DEF IsOpen, Colour, Shaped, ShapedAt
<1> QED
  BY <1>2, <1>3, <1>4, <1>5, <1>6, SameRefs DEF IsWhite

\* The colours are right again when what was to be marked is.
LEMMA PaintKeeps ==
  ASSUME MaxObjects \in Nat, NEW h, NEW st, Shaped(h, st), NEW gr, NEW ga, NEW wk, NEW tm, NEW at, NEW is0,
         Colours(h, st, gr, ga, wk, tm, at, is0),
         NEW is, Spread(h, st, is0, is), \A i \in is : Alive(h[i])
  PROVE  Colours(Painted(h, is), st, gr \cup ToTraverse(h, is), ga, wk, tm, at, {})
<1> DEFINE p == Painted(h, is)
           gr2 == gr \cup ToTraverse(h, is)
<1>1. is \in SUBSET Ids /\ \A i \in is : IsWhite(h[i])
  BY DEF Spread
<1>2. /\ SameButMarks(h, p) /\ Shaped(p, st) /\ p \in [Ids -> Objects]
      /\ \A i \in Ids : /\ p[i].mark = (IF i \in is THEN Colour(h[i]) ELSE h[i].mark)
                        /\ p[i].key = h[i].key
                        /\ i \in is => p[i].mark \in {"gray", "black"} /\ ~ IsWhite(p[i])
                        /\ i \notin is => p[i] = h[i]
  <2> HIDE DEF p
  <2> QED
    BY <1>1, PaintedIs DEF p
<1> HIDE DEF p
<1>3. \A i \in Ids : /\ RefsOf(p, st, i) = RefsOf(h, st, i)
                     /\ IsOpen(p[i]) <=> IsOpen(h[i])
                     /\ Alive(p[i]) <=> Alive(h[i])
                     /\ IsWeak(p[i]) <=> IsWeak(h[i])
                     /\ p[i].kind = h[i].kind /\ p[i].val = h[i].val
  <2>1. \A i \in Ids : IsOpen(p[i]) => p[i].mark # "black"
    BY <1>2 DEF Shaped, ShapedAt
  <2> QED
    BY <1>2, <2>1, SameRefs DEF SameButMarks
<1>4. ASSUME NEW rs, Clear(h, rs, is0) PROVE Clear(p, rs, {})
  BY <1>2, <1>4 DEF Clear, Spread, IsWhite
<1>5. Clear(p, {Main}, {})
  BY <1>4 DEF Colours
<1>6. ASSUME NEW i \in is, h[i].kind \in {"upval", "userdata"} PROVE Clear(p, RefsOf(h, st, i), {})
  BY <1>2, <1>6 DEF Clear, Spread, IsWhite
<1>7. ASSUME NEW i \in Ids, Alive(p[i]), p[i].mark = "black" PROVE BlackOk(p, st, tm, at, {}, i)
  <2>1. CASE i \in is
    <3>1. h[i].kind \in {"upval", "userdata"}
      BY <2>1, <1>2, <1>7 DEF Colour
    <3> QED
      BY <2>1, <3>1, <1>6, <1>3 DEF BlackOk
  <2>2. CASE i \notin is
    <3>1. BlackOk(h, st, tm, at, is0, i)
      BY <2>2, <1>7, <1>2, <1>3 DEF Colours
    <3> QED
      BY <3>1, <1>2, <1>3, <1>4 DEF BlackOk
  <2> QED
    BY <2>1, <2>2
<1>8. ASSUME NEW i \in Ids, Alive(p[i]), p[i].mark = "gray"
      PROVE  p[i].kind = "string" \/ IsOpen(p[i]) \/ i \in gr2 \cup ga \cup wk
  <2>1. CASE i \in is
    <3>1. h[i].kind \notin {"unborn", "freed", "userdata"} /\ (h[i].kind = "upval" => IsOpen(h[i]))
      BY <2>1, <1>2, <1>3, <1>8 DEF Colour, Alive
    <3>2. h[i].kind \in ObjectKinds
      <4>1. h[i] \in Objects
        BY DEF Shaped
      <4> QED
        BY <4>1 DEF Objects
    <3> QED
      BY <2>1, <3>1, <3>2, <1>3 DEF ToTraverse, ObjectKinds
  <2>2. CASE i \notin is
    BY <2>2, <1>8, <1>2, <1>3 DEF Colours
  <2> QED
    BY <2>1, <2>2
<1>9. ListsOk(p, gr2, ga, wk)
  <2>1. ListsOk(h, gr, ga, wk)
    BY DEF Colours
  <2>2. \A i \in gr \cup ga \cup wk : i \in Ids /\ i \notin is /\ p[i] = h[i]
    BY <2>1, <1>1, <1>2 DEF ListsOk, IsWhite
  <2>3. \A i \in ToTraverse(h, is) : i \in is /\ i \in Ids /\ p[i].mark = "gray" /\ p[i].kind \in Listed
    BY <1>1, <1>2, <1>3 DEF ToTraverse, Colour, Listed, IsOpen
  <2> QED
    BY <2>1, <2>2, <2>3 DEF ListsOk
<1>10. ASSUME at # "no", NEW i \in Ids, IsOpen(p[i]), p[i].mark = "gray" PROVE Clear(p, RefsOf(p, st, i), {})
  <2>1. CASE i \in is
    BY <2>1, <1>10, <1>6, <1>3 DEF IsOpen
  <2>2. CASE i \notin is
    BY <2>2, <1>10, <1>2, <1>3, <1>4 DEF Colours
  <2> QED
    BY <2>1, <2>2
<1>11. ASSUME at \in {"again", "tmudata"}, NEW i \in ga PROVE p[i].kind = "thread" /\ Clear(p, RefsOf(p, st, i), {})
  <2>1. i \in Ids /\ h[i].kind = "thread" /\ Clear(h, RefsOf(h, st, i), is0)
    BY <1>11 DEF Colours, ListsOk
  <2> QED
    BY <2>1, <1>3, <1>4
<1>12. Colours(p, st, gr2, ga, wk, tm, at, {})
  <2> HIDE DEF gr2
  <2> QED
    BY <1>5, <1>7, <1>8, <1>9, <1>10, <1>11 DEF Colours
<1> QED
  BY <1>12 DEF p

--------------------------------------------------------------------------
(* Steps of the marking phase. *)
\* What is still out of reach.
LEMMA GarbageNoted ==
  ASSUME MaxObjects \in Nat, Note, tmudata' \in SUBSET Ids, garbage \subseteq Ids,
         \A i \in garbage : heap'[i].kind # "unborn",
         \A i \in Ids \ garbage : Alive(heap'[i]) =>
           RefsOf(heap', stack', i) \cap garbage \subseteq Reachable(heap', stack', tmudata'),
         gcstate' = "propagate" =>
           \A i \in garbage \ Reachable(heap', stack', tmudata') : Alive(heap'[i]) => IsWhite(heap'[i]),
         gcstate' # "propagate" /\ full' # "sweep" =>
           \A i \in garbage \ Reachable(heap', stack', tmudata') : Alive(heap'[i]) => heap'[i].mark = Other(cw')
  PROVE  garbage' \subseteq Ids /\ GarbageOk(heap, stack, {})'
<1> DEFINE R == Reachable(heap', stack', tmudata')
<1>1. garbage' = garbage \ R
  BY DEF Note
<1>2. /\ {Main} \cup tmudata' \subseteq R
      /\ \A i \in R : RefsOf(heap', stack', i) \cap Ids \subseteq R
  BY ReachableIs
<1>3. \A i \in Ids \ garbage' : Alive(heap'[i]) => RefsOf(heap', stack', i) \cap garbage' \subseteq {}
  <2> HIDE DEF R
  <2> QED
    BY <1>1, <1>2 DEF R
<1> HIDE DEF R
<1> QED
  BY <1>1, <1>2, <1>3 DEF GarbageOk, R

(* While the heap is marked nothing has the mark of the dead. *)
LEMMA AllAlive ==
  ASSUME HeapInv, gcstate = "propagate", NEW i \in Ids, Alive(heap[i])
  PROVE  /\ NotDead(heap, cw, i)
         /\ \A r \in AllRefs(heap, stack, i) \cap Ids : Alive(heap[r])
         /\ \A r \in RefsOf(heap, stack, i) \cap Ids : Alive(heap[r])
<1>1. NotDead(heap, cw, i)
  BY DEF HeapInv, PhaseInv, PhaseOk, NotDead
<1> QED
  BY <1>1 DEF HeapInv, Whole, NotDead, AllRefs

(* A step of the marking phase that only marks, and does it as the colours want it. *)
LEMMA MarkStep ==
  ASSUME HeapInstance, HeapInv, gcstate = "propagate",
         UNCHANGED <<stack, cw, gcstate, full>>, Note, HeapTypes',
         heap' \in [Ids -> Objects], SameButMarks(heap, heap'),
         \A i \in Ids : IsOpen(heap'[i]) => heap'[i].mark # "black",
         \A i \in Ids : Alive(heap[i]) => heap'[i].mark \in {cw, "gray", "black"},
         \A i \in garbage \ Reachable(heap', stack', tmudata') : Alive(heap[i]) => IsWhite(heap'[i]),
         ColourInv', FinalOk(heap)'
  PROVE  HeapInv'
<1> MaxObjects \in Nat
  BY DEF HeapInstance
<1>1. /\ Shaped(heap', stack) /\ StringsOk(heap')
      /\ \A i \in Ids : /\ RefsOf(heap', stack, i) = RefsOf(heap, stack, i)
                        /\ AllRefs(heap', stack, i) = AllRefs(heap, stack, i)
                        /\ Alive(heap'[i]) <=> Alive(heap[i])
  BY SameRefs DEF HeapInv
<1>2. cw \in {"w0", "w1"} /\ Other(cw) # cw /\ Other(cw) \notin {"gray", "black"} /\ tmudata' \in SUBSET Ids /\ garbage \subseteq Ids
  BY DEF HeapInv, HeapTypes, Other
<1>3. \A i \in Ids : Alive(heap[i]) => NotDead(heap, cw, i) /\ NotDead(heap', cw, i)
  BY <1>1, <1>2, AllAlive DEF NotDead
<1>4. Whole(heap, stack, cw, tmudata)'
  <2>1. NotDead(heap', cw, Main)
    BY <1>3 DEF HeapInv, Whole, NotDead, Main, Ids
  <2>2. \A u \in tmudata' : NotDead(heap', cw, u)
    <3>1. \A u \in tmudata' : u \in Ids /\ heap'[u].kind = "userdata"
      BY <1>2 DEF FinalOk
    <3> QED
      BY <3>1, <1>1, <1>3 DEF Alive
  <2>3. \A i \in Ids : NotDead(heap', cw, i) => \A r \in AllRefs(heap', stack, i) \cap Ids : NotDead(heap', cw, r)
    BY <1>1, <1>3, AllAlive DEF NotDead
  <2>4. Whole(heap', stack, cw, tmudata')
    BY <2>1, <2>2, <2>3 DEF Whole
  <2> QED
    BY <2>4 DEF Whole, NotDead, AllRefs, RefsOf
<1>5. PhaseInv'
  BY <1>1, <1>2 DEF PhaseInv, PhaseOk, HeapInv
<1>6. GarbageOk(heap, stack, {})'
  <2>1. \A i \in garbage : heap'[i].kind # "unborn"
    BY <1>2 DEF HeapInv, GarbageOk, SameButMarks
  <2>2. \A i \in Ids \ garbage : Alive(heap'[i]) => RefsOf(heap', stack', i) \cap garbage \subseteq {}
    BY <1>1 DEF HeapInv, GarbageOk
  <2>3. gcstate' = "propagate"
    OBVIOUS
  <2>4. \A i \in garbage \ Reachable(heap', stack', tmudata') : Alive(heap'[i]) => IsWhite(heap'[i])
    BY <1>1, <1>2
  <2> QED
    BY <1>2, <2>1, <2>2, <2>3, <2>4, GarbageNoted
<1>7. Shaped(heap, stack)' /\ StringsOk(heap)'
  <2>1. stack' = stack
    OBVIOUS
  <2> QED
    BY <1>1, <2>1 DEF Shaped, ShapedAt, StringsOk
<1> QED
  BY <1>4, <1>5, <1>6, <1>7 DEF HeapInv

\* An object is taken from the gray ones, and what it refers to is marked.
LEMMA TraverseStep ==
  ASSUME HeapInstance, HeapInv, gcstate = "propagate",
         UNCHANGED <<program, stack, cw, gcstate, atomic, unswept, tmudata, full, ops, gced>>, Note,
         NEW i \in gray, NEW h1 \in [Ids -> Objects], SameButMarks(heap, h1),
         \A j \in Ids \ {i} : h1[j] = heap[j], h1[i].fin = heap[i].fin, h1[i].mark \in {"gray", "black"},
         NEW is0, is0 \cap Ids \subseteq RefsOf(heap, stack, i), NEW is, is = Marked(heap, is0),
         heap' = Painted(h1, is), gray' = (gray \ {i}) \cup ToTraverse(h1, is),
         grayagain' \subseteq grayagain \cup {i}, weak' \subseteq weak \cup {i},
         grayagain \subseteq grayagain', weak \subseteq weak',
         h1[i].mark = "black" => BlackOk(h1, stack, tmudata, atomic, is0, i),
         h1[i].mark = "gray" => i \in grayagain' \cup weak',
         ListsOk(h1, gray \ {i}, grayagain', weak'),
         atomic \in {"again", "tmudata"} /\ i \in grayagain' =>
           h1[i].kind = "thread" /\ Clear(h1, RefsOf(h1, stack, i), is0)
  PROVE  HeapInv'
<1> MaxObjects \in Nat
  BY DEF HeapInstance
<1>0. /\ Shaped(heap, stack) /\ Colours(heap, stack, gray, grayagain, weak, tmudata, atomic, {}) /\ FinalOk(heap) /\ HeapTypes
      /\ cw \in {"w0", "w1"}
  BY DEF HeapInv, ColourInv, HeapTypes
<1>1. i \in Ids /\ heap[i].mark = "gray" /\ heap[i].kind \in Listed /\ Alive(heap[i])
  BY <1>0 DEF Colours, ListsOk, Listed, Alive
<1>2. \A j \in Ids : IsOpen(h1[j]) => h1[j].mark # "black"
  <2>1. ~ IsOpen(h1[i])
    BY <1>1 DEF SameButMarks, IsOpen, Listed
  <2>2. \A j \in Ids : IsOpen(heap[j]) => heap[j].mark # "black"
    BY <1>0 DEF Shaped, ShapedAt
  <2> QED
    BY <2>1, <2>2
<1>3. /\ Shaped(h1, stack)
      /\ \A j \in Ids : /\ RefsOf(h1, stack, j) = RefsOf(heap, stack, j)
                        /\ IsOpen(h1[j]) <=> IsOpen(heap[j])
                        /\ Alive(h1[j]) <=> Alive(heap[j])
                        /\ IsWeak(h1[j]) <=> IsWeak(heap[j])
                        /\ h1[j].kind = heap[j].kind /\ h1[j].val = heap[j].val
                        /\ IsWhite(h1[j]) <=> IsWhite(heap[j])
  BY <1>0, <1>1, <1>2, SameRefs DEF SameButMarks, IsWhite
<1>4. Spread(heap, stack, is0, is) /\ is \subseteq Ids
  BY <1>0, MarkedSpreads DEF Spread
<1>5. Spread(h1, stack, is0, is)
  BY <1>3, <1>4 DEF Spread
<1>6. i \notin garbage
  BY <1>1 DEF HeapInv, GarbageOk, IsWhite
<1>7. \A j \in is : Alive(heap[j]) /\ j \notin garbage
  <2> DEFINE C == {j \in Ids : Alive(heap[j]) /\ j \notin garbage}
  <2>1. is0 \cap Ids \subseteq C
    BY <1>1, <1>6, AllAlive DEF HeapInv, GarbageOk
  <2>2. \A j \in C \cap Ids : RefsOf(heap, stack, j) \cap Ids \subseteq C
    BY AllAlive DEF HeapInv, GarbageOk
  <2> HIDE DEF C
  <2>3. is \subseteq C
    BY <1>0, <2>1, <2>2, MarkedWithin
  <2> QED
    BY <2>3 DEF C
<1>8. Colours(h1, stack, gray \ {i}, grayagain', weak', tmudata, atomic, is0)
  <2>1. \A rs : Clear(heap, rs, {}) => Clear(h1, rs, is0)
    BY <1>3 DEF Clear
  <2>2. Clear(h1, {Main}, is0)
    BY <1>0, <2>1 DEF Colours
  <2>3. ASSUME NEW j \in Ids, Alive(h1[j]), h1[j].mark = "black" PROVE BlackOk(h1, stack, tmudata, atomic, is0, j)
    <3>1. CASE j = i
      BY <3>1, <2>3
    <3>2. CASE j # i
      <4>1. h1[j] = heap[j]
        BY <3>2
      <4>2. BlackOk(heap, stack, tmudata, atomic, {}, j)
        BY <4>1, <2>3, <1>0 DEF Colours
      <4> QED
        BY <4>1, <4>2, <1>3, <2>1 DEF BlackOk
    <3> QED
      BY <3>1, <3>2
  <2>4. ASSUME NEW j \in Ids, Alive(h1[j]), h1[j].mark = "gray"
        PROVE  h1[j].kind = "string" \/ IsOpen(h1[j]) \/ j \in (gray \ {i}) \cup grayagain' \cup weak'
    <3>1. CASE j = i
      BY <3>1, <2>4
    <3>2. CASE j # i
      BY <3>2, <2>4, <1>0 DEF Colours
    <3> QED
      BY <3>1, <3>2
  <2>5. ASSUME atomic # "no", NEW j \in Ids, IsOpen(h1[j]), h1[j].mark = "gray" PROVE Clear(h1, RefsOf(h1, stack, j), is0)
    <3>1. j # i
      BY <2>5, <1>1, <1>3 DEF IsOpen, Listed
    <3> QED
      BY <3>1, <2>5, <1>0, <1>3, <2>1 DEF Colours
  <2>6. ASSUME atomic \in {"again", "tmudata"}, NEW j \in grayagain'
        PROVE h1[j].kind = "thread" /\ Clear(h1, RefsOf(h1, stack, j), is0)
    <3>1. CASE j = i
      BY <3>1, <2>6
    <3>2. CASE j # i
      <4>1. j \in grayagain /\ j \in Ids
        BY <3>2, <2>6, <1>0 DEF HeapTypes
      <4> QED
        BY <4>1, <2>6, <1>0, <1>3, <2>1 DEF Colours
    <3> QED
      BY <3>1, <3>2
  <2> QED
    BY <2>2, <2>3, <2>4, <2>5, <2>6 DEF Colours
<1>9. ColourInv'
  <2>1. \A j \in is : Alive(h1[j])
    BY <1>3, <1>4, <1>7
  <2>2. Colours(heap', stack, gray', grayagain', weak', tmudata, atomic, {})
    BY <1>3, <1>5, <1>8, <2>1, PaintKeeps
  <2> QED
    BY <2>2 DEF ColourInv
<1>10. /\ heap' \in [Ids -> Objects] /\ SameButMarks(h1, heap')
       /\ \A j \in Ids : /\ heap'[j].mark = (IF j \in is THEN Colour(h1[j]) ELSE h1[j].mark)
                         /\ heap'[j].fin = h1[j].fin
                         /\ j \in is => heap'[j].mark \in {"gray", "black"}
                         /\ IsOpen(heap'[j]) => heap'[j].mark # "black"
  <2>1. is \in SUBSET Ids
    BY <1>4
  <2> QED
    BY <2>1, <1>3, PaintedIs, SMTT(60) DEF Shaped, ShapedAt
<1>11. SameButMarks(heap, heap')
  BY <1>10 DEF SameButMarks
<1>12. \A j \in Ids : Alive(heap[j]) => heap'[j].mark \in {cw, "gray", "black"}
  <2>1. \A j \in Ids : Alive(heap[j]) => heap[j].mark \in {cw, "gray", "black"}
    <3>1. \A j \in Ids : heap[j] \in Objects
      BY <1>0 DEF Shaped
    <3> QED
      BY <3>1, <1>0 DEF HeapInv, PhaseInv, PhaseOk, Other, Objects
  <2>2. \A j \in Ids \ {i} : h1[j].mark = heap[j].mark
    OBVIOUS
  <2> QED
    BY <2>1, <2>2, <1>10
<1>13. \A j \in garbage : Alive(heap[j]) => IsWhite(heap'[j])
  <2>1. \A j \in garbage : j \in Ids /\ j # i /\ j \notin is
    BY <1>0, <1>6, <1>7 DEF HeapTypes
  <2> QED
    BY <2>1, <1>10 DEF HeapInv, GarbageOk, IsWhite
<1>14. FinalOk(heap)'
  <2>1. \A u \in tmudata : /\ u \in Ids /\ u # i /\ heap'[u].kind = "userdata" /\ heap'[u].fin
                           /\ heap'[u].mark \in {cw, "black"}
                           /\ heap[u].mark = "black" => heap'[u].mark = "black"
    <3> SUFFICES ASSUME NEW u \in tmudata
                 PROVE /\ u \in Ids /\ u # i /\ heap'[u].kind = "userdata" /\ heap'[u].fin
                       /\ heap'[u].mark \in {cw, "black"}
                       /\ heap[u].mark = "black" => heap'[u].mark = "black"
      OBVIOUS
    <3>1. u \in Ids /\ heap[u].kind = "userdata" /\ heap[u].fin /\ heap[u].mark \in {cw, "black"}
      BY <1>0 DEF FinalOk, HeapTypes
    <3>2. u # i /\ h1[u] = heap[u]
      BY <3>1, <1>1 DEF Listed
    <3> QED
      BY <3>1, <3>2, <1>10 DEF SameButMarks, Colour
  <2>2. \A j \in Ids : heap'[j].kind = heap[j].kind /\ heap'[j].fin = heap[j].fin
    BY <1>10, <1>11 DEF SameButMarks
  <2> QED
    BY <2>1, <2>2, <1>0 DEF FinalOk
<1>15. HeapTypes'
  <2>1. gray' \subseteq Ids /\ grayagain' \subseteq Ids /\ weak' \subseteq Ids /\ garbage' \subseteq Ids
    BY <1>0, <1>1, <1>4 DEF HeapTypes, ToTraverse, Note
  <2> QED
    BY <2>1, <1>0 DEF HeapTypes
<1> QED
  BY <1>9, <1>10, <1>11, <1>12, <1>13, <1>14, <1>15, MarkStep

(* Two fields of an object that are set at once. *)
LEMMA TwoFields ==
  ASSUME NEW S, NEW f, f = [j \in S |-> f[j]], NEW i \in S, NEW m, NEW k
  PROVE  [f EXCEPT ![i].mark = m, ![i].key = k] = [j \in S |-> IF j = i THEN [f[i] EXCEPT !.mark = m, !.key = k] ELSE f[j]]
<1> DEFINE g == [f EXCEPT ![i].mark = m]
<1>1. g = [j \in S |-> IF j = i THEN [f[i] EXCEPT !.mark = m] ELSE f[j]]
  OBVIOUS
<1>2. [g EXCEPT ![i].key = k] = [j \in S |-> IF j = i THEN [g[i] EXCEPT !.key = k] ELSE g[j]]
  BY <1>1
<1>3. g[i] = [f[i] EXCEPT !.mark = m] /\ \A j \in S \ {i} : g[j] = f[j]
  BY <1>1
<1> HIDE DEF g
<1>4. [g EXCEPT ![i].key = k] = [j \in S |-> IF j = i THEN [[f[i] EXCEPT !.mark = m] EXCEPT !.key = k] ELSE f[j]]
  BY <1>2, <1>3
<1> QED
  BY <1>4 DEF g

\* An object that leaves the gray ones, with its new mark and key.
With(i, m, k) == [heap EXCEPT ![i].mark = m, ![i].key = k]

(* propagatemark: an object leaves the gray list, gets its colour, and loses its dead key. *)
LEMMA Popped ==
  ASSUME HeapInstance, HeapInv, NEW i \in gray, gcstate = "propagate", NEW m \in {"gray", "black"}, NEW k,
         k = heap[i].key \/ (heap[i].kind = "table" /\ heap[i].val = Nil /\ k = DeadKey),
         NEW is0, NEW is, is = Marked(heap, is0), NEW h1, h1 = With(i, m, k)
  PROVE  /\ h1 \in [Ids -> Objects] /\ SameButMarks(heap, h1)
         /\ \A j \in Ids \ {i} : h1[j] = heap[j]
         /\ h1[i].fin = heap[i].fin /\ h1[i].mark = m /\ h1[i].key = k /\ h1[i].kind = heap[i].kind
         /\ [Painted(heap, is) EXCEPT ![i].mark = m, ![i].key = k] = Painted(h1, is)
         /\ ToTraverse(heap, is) = ToTraverse(h1, is)
         /\ i \in Ids /\ heap[i].mark = "gray" /\ heap[i].kind \in Listed
         /\ \A j \in gray \cup grayagain \cup weak : j \in Ids
         /\ ListsOk(heap, gray, grayagain, weak)
<1> MaxObjects \in Nat
  BY DEF HeapInstance
<1>1. /\ heap \in [Ids -> Objects] /\ Shaped(heap, stack)
      /\ ListsOk(heap, gray, grayagain, weak) /\ \A j \in gray \cup grayagain \cup weak : j \in Ids
  BY DEF HeapInv, Shaped, ColourInv, Colours, ListsOk
<1>2. i \in Ids /\ heap[i].mark = "gray" /\ heap[i].kind \in Listed
  BY <1>1 DEF ListsOk
<1>3. heap[i] \in Objects
  BY <1>1, <1>2
<1>4. /\ h1[i] \in Objects /\ h1[i].mark = m /\ h1[i].key = k /\ h1[i].kind = heap[i].kind /\ h1[i].mode = heap[i].mode
      /\ h1[i].val = heap[i].val /\ h1[i].on = heap[i].on /\ h1[i].slot = heap[i].slot /\ h1[i].fin = heap[i].fin
  BY <1>1, <1>2, <1>3 DEF Objects, With
<1>5. \A j \in Ids \ {i} : h1[j] = heap[j]
  BY <1>1 DEF With
<1>6. h1 \in [Ids -> Objects]
  BY <1>1, <1>2, <1>4, <1>5 DEF With
<1>7. SameButMarks(heap, h1)
  BY <1>4, <1>5 DEF SameButMarks
<1>8. is \subseteq Ids /\ i \notin is
  BY <1>1, <1>2, MarkedSpreads DEF Spread, IsWhite
<1>9. ToTraverse(heap, is) = ToTraverse(h1, is)
  BY <1>7, <1>8 DEF ToTraverse, SameButMarks
<1>10. [Painted(heap, is) EXCEPT ![i].mark = m, ![i].key = k] = Painted(h1, is)
  <2>1. \A j \in is : Colour(h1[j]) = Colour(heap[j]) /\ h1[j] = heap[j]
    BY <1>5, <1>8
  <2>2. Painted(heap, is)[i] = heap[i] /\ Painted(h1, is)[i] = h1[i]
    BY <1>2, <1>8 DEF Painted
  <2>3. h1[i] = [heap[i] EXCEPT !.mark = m, !.key = k]
    BY <1>1, <1>2, <1>3 DEF With
  <2>4. \A j \in Ids \ {i} : Painted(heap, is)[j] = Painted(h1, is)[j]
    BY <2>1, <1>5 DEF Painted
  <2> DEFINE p == Painted(heap, is)
             q == Painted(h1, is)
  <2>5. p = [j \in Ids |-> p[j]] /\ q = [j \in Ids |-> q[j]]
    BY DEF Painted
  <2> HIDE DEF p, q
  <2>6. [p EXCEPT ![i].mark = m, ![i].key = k] = [j \in Ids |-> IF j = i THEN [p[i] EXCEPT !.mark = m, !.key = k] ELSE p[j]]
    BY <2>5, <1>2, TwoFields
  <2>7. \A j \in Ids : q[j] = IF j = i THEN [p[i] EXCEPT !.mark = m, !.key = k] ELSE p[j]
    BY <2>2, <2>3, <2>4 DEF p, q
  <2> QED
    BY <2>5, <2>6, <2>7 DEF p, q
<1> QED
  BY <1>1, <1>2, <1>4, <1>5, <1>6, <1>7, <1>9, <1>10

(* traversetable: the entry of a strong table, one half or nothing of a weak one. *)
LEMMA TableStep ==
  ASSUME HeapInstance, HeapInv, gcstate = "propagate",
         UNCHANGED <<program, stack, cw, gcstate, atomic, unswept, tmudata, full, ops, gced>>, Note,
         NEW i \in gray, TraverseTable(i)
  PROVE  HeapInv'
<1> MaxObjects \in Nat
  BY DEF HeapInstance
<1> DEFINE o == heap[i]
           is0 == Strong(o)
           is == Marked(heap, is0)
           m == IF IsWeak(o) THEN "gray" ELSE "black"
           k == IF o.mode # "kv" /\ o.val = Nil /\ o.key # Nil THEN DeadKey ELSE o.key
           h1 == With(i, m, k)
<1>1. /\ o.kind = "table"
      /\ heap' = [Painted(heap, is) EXCEPT ![i].mark = m, ![i].key = k]
      /\ gray' = (gray \ {i}) \cup ToTraverse(heap, is)
      /\ weak' = IF IsWeak(o) THEN weak \cup {i} ELSE weak
      /\ grayagain' = grayagain
  BY DEF TraverseTable, IsWeak
<1>2. /\ h1 \in [Ids -> Objects] /\ SameButMarks(heap, h1)
      /\ \A j \in Ids \ {i} : h1[j] = heap[j]
      /\ h1[i].fin = heap[i].fin /\ h1[i].mark = m /\ h1[i].key = k /\ h1[i].kind = heap[i].kind
      /\ heap' = Painted(h1, is)
      /\ ToTraverse(heap, is) = ToTraverse(h1, is)
      /\ i \in Ids /\ heap[i].mark = "gray" /\ heap[i].kind \in Listed
      /\ \A j \in gray \cup grayagain \cup weak : j \in Ids
      /\ ListsOk(heap, gray, grayagain, weak)
  <2>1. m \in {"gray", "black"}
    OBVIOUS
  <2>2. k = heap[i].key \/ (heap[i].kind = "table" /\ heap[i].val = Nil /\ k = DeadKey)
    BY <1>1
  <2>3. h1 = With(i, m, k)
    OBVIOUS
  <2>4. is = Marked(heap, is0)
    OBVIOUS
  <2> HIDE DEF m, k, is0, h1, is
  <2>5. heap' = [Painted(heap, is) EXCEPT ![i].mark = m, ![i].key = k]
    BY <1>1
  <2> HIDE DEF o
  <2>6. Painted(h1, is) = [Painted(heap, is) EXCEPT ![i].mark = m, ![i].key = k]
    BY <2>1, <2>2, <2>3, <2>4, Popped
  <2> QED
    BY <2>1, <2>2, <2>3, <2>4, <2>5, <2>6, Popped
<1> Shaped(heap, stack)
  BY DEF HeapInv
<1>3. is0 \cap Ids \subseteq RefsOf(heap, stack, i)
  <2>1. i \in Ids /\ heap[i].kind = "table" /\ MaxObjects \in Nat
    BY <1>1, <1>2 DEF HeapInstance
  <2>2. RefsOf(heap, stack, i) = Strong(heap[i]) \cup {r \in Entry(heap[i]) : IsString(heap, r)}
    BY <2>1, RefsAre
  <2> QED
    BY <2>2
<1>4. h1[i].mark = "black" => BlackOk(h1, stack, tmudata, atomic, is0, i)
  <2> SUFFICES ASSUME ~ IsWeak(o) PROVE BlackOk(h1, stack, tmudata, atomic, is0, i)
    BY <1>2
  <2>1. RefsOf(heap, stack, i) = Entry(o) /\ is0 = Entry(o)
    BY <1>1, <1>2, RefsAre DEF IsWeak, Strong, Entry
  <2>2. RefsOf(h1, stack, i) = RefsOf(heap, stack, i) /\ (IsWeak(h1[i]) <=> IsWeak(o))
    <3> HIDE DEF h1
    <3>1. \A j \in Ids : IsOpen(h1[j]) => h1[j].mark # "black"
      <4>1. ~ IsOpen(h1[i])
        BY <1>1, <1>2 DEF IsOpen
      <4>2. \A j \in Ids \ {i} : h1[j] = heap[j] /\ (IsOpen(heap[j]) => heap[j].mark # "black")
        BY <1>2 DEF Shaped, ShapedAt
      <4> QED
        BY <4>1, <4>2
    <3> QED
      BY <1>2, <3>1, SameRefs
  <2>3. {k, o.val} \cap Ids \subseteq is0
    <3>1. o.mode # "kv"
      BY DEF IsWeak, WeakKey
    <3>2. Nil \notin Ids /\ DeadKey \notin Ids
      BY DEF Nil, DeadKey, Ids
    <3> QED
      BY <2>1, <3>1, <3>2, <1>1 DEF Entry
  <2>4. h1[i].kind = "table" /\ h1[i].val = o.val
    BY <1>1, <1>2 DEF SameButMarks
  <2> HIDE DEF h1, k, is0
  <2> QED
    BY <2>1, <2>2, <2>3, <2>4, <1>2 DEF BlackOk, Clear
<1>5. ListsOk(h1, gray \ {i}, grayagain', weak')
  <2>1. i \notin grayagain /\ (~ IsWeak(o) => i \notin weak)
    BY <1>2 DEF ListsOk
  <2>2. h1[i].kind = "table" /\ (IsWeak(h1[i]) <=> IsWeak(o))
    BY <1>1, <1>2 DEF SameButMarks, IsWeak, WeakKey, WeakValue
  <2> HIDE DEF h1, k, is0
  <2> QED
    BY <2>1, <2>2, <1>1, <1>2 DEF ListsOk
<1>6. i \notin grayagain'
  BY <1>1, <1>2 DEF ListsOk
<1>7. h1[i].mark = "gray" => i \in grayagain' \cup weak'
  BY <1>1, <1>2
<1>8. /\ grayagain' \subseteq grayagain \cup {i} /\ weak' \subseteq weak \cup {i}
      /\ grayagain \subseteq grayagain' /\ weak \subseteq weak'
  BY <1>1
<1>9. gray' = (gray \ {i}) \cup ToTraverse(h1, is) /\ h1[i].mark \in {"gray", "black"}
  BY <1>1, <1>2
<1> HIDE DEF h1, k, is0, is, m, o
<1> QED
  BY <1>2, <1>3, <1>4, <1>5, <1>6, <1>7, <1>8, <1>9, TraverseStep DEF is

(* traversestack: a thread stays gray and is traversed again (lgc.c:256-272). *)
LEMMA StackTraversed ==
  ASSUME HeapInstance, HeapInv, gcstate = "propagate",
         UNCHANGED <<program, stack, cw, gcstate, atomic, unswept, tmudata, full, ops, gced>>, Note,
         NEW i \in gray, TraverseStack(i)
  PROVE  HeapInv'
<1> MaxObjects \in Nat
  BY DEF HeapInstance
<1> DEFINE is0 == ToSet(stack[i])
           is == Marked(heap, is0)
<1>0. /\ Shaped(heap, stack) /\ heap \in [Ids -> Objects] /\ ListsOk(heap, gray, grayagain, weak)
      /\ grayagain \subseteq Ids
  BY DEF HeapInv, Shaped, ColourInv, Colours, HeapTypes
<1>1. /\ heap[i].kind = "thread"
      /\ heap' = Painted(heap, is)
      /\ gray' = (gray \ {i}) \cup ToTraverse(heap, is)
      /\ weak' = weak
      /\ grayagain' = grayagain \cup {i}
  BY DEF TraverseStack
<1>2. i \in Ids /\ heap[i].mark = "gray" /\ SameButMarks(heap, heap)
  BY <1>0 DEF ListsOk, SameButMarks
<1>3. RefsOf(heap, stack, i) = is0
  BY <1>1 DEF RefsOf
<1>4. Clear(heap, RefsOf(heap, stack, i), is0)
  BY <1>3 DEF Clear
<1>5. ListsOk(heap, gray \ {i}, grayagain', weak')
  BY <1>0, <1>1, <1>2 DEF ListsOk, Listed
<1> HIDE DEF is0, is
<1> QED
  BY <1>0, <1>1, <1>2, <1>3, <1>4, <1>5, TraverseStep DEF is

(* traverseclosure: the upvalue of a function. *)
LEMMA ClosureTraversed ==
  ASSUME HeapInstance, HeapInv, gcstate = "propagate",
         UNCHANGED <<program, stack, cw, gcstate, atomic, unswept, tmudata, full, ops, gced>>, Note,
         NEW i \in gray, TraverseClosure(i)
  PROVE  HeapInv'
<1> MaxObjects \in Nat
  BY DEF HeapInstance
<1> DEFINE is0 == {heap[i].val}
           is == Marked(heap, is0)
           h1 == With(i, "black", heap[i].key)
<1> Shaped(heap, stack)
  BY DEF HeapInv
<1>1. /\ heap[i].kind = "function"
      /\ heap' = [Painted(heap, is) EXCEPT ![i].mark = "black"]
      /\ gray' = (gray \ {i}) \cup ToTraverse(heap, is)
      /\ weak' = weak
      /\ grayagain' = grayagain
  BY DEF TraverseClosure
<1>2. /\ h1 \in [Ids -> Objects] /\ SameButMarks(heap, h1)
      /\ \A j \in Ids \ {i} : h1[j] = heap[j]
      /\ h1[i].fin = heap[i].fin /\ h1[i].mark = "black" /\ h1[i].kind = heap[i].kind
      /\ [Painted(heap, is) EXCEPT ![i].mark = "black", ![i].key = heap[i].key] = Painted(h1, is)
      /\ ToTraverse(heap, is) = ToTraverse(h1, is)
      /\ i \in Ids /\ heap[i].mark = "gray" /\ heap[i].kind \in Listed
      /\ ListsOk(heap, gray, grayagain, weak)
      /\ grayagain \cup weak \subseteq Ids
  <2>1. h1 = With(i, "black", heap[i].key)
    OBVIOUS
  <2>2. is = Marked(heap, is0)
    OBVIOUS
  <2> HIDE DEF is0, h1, is
  <2> QED
    BY <2>1, <2>2, Popped
<1>3. heap' = Painted(h1, is)
  <2>1. is \in SUBSET Ids
    <3> HIDE DEF is0
    <3> QED
      BY MarkedSpreads DEF Spread
  <2>2. Painted(heap, is) \in [Ids -> Objects] /\ Painted(heap, is)[i].key = heap[i].key
    <3> HIDE DEF is
    <3> QED
      BY <2>1, <1>2, PaintedIs
  <2>3. Painted(heap, is)[i] \in Objects
    BY <2>2, <1>2
  <2> DEFINE p == Painted(heap, is)
  <2> HIDE DEF is, p
  <2>4. [p EXCEPT ![i].mark = "black"] = [p EXCEPT ![i].mark = "black", ![i].key = heap[i].key]
    <3>1. p \in [Ids -> Objects] /\ p[i] \in Objects /\ p[i].key = heap[i].key /\ i \in Ids
      BY <2>2, <2>3, <1>2 DEF p
    <3>2. [p[i] EXCEPT !.mark = "black"] = [p[i] EXCEPT !.mark = "black", !.key = heap[i].key]
      BY <3>1 DEF Objects
    <3>3. [p EXCEPT ![i].mark = "black"] = [j \in Ids |-> IF j = i THEN [p[i] EXCEPT !.mark = "black"] ELSE p[j]]
      BY <3>1
    <3> HIDE DEF h1
    <3>4. [p EXCEPT ![i].mark = "black", ![i].key = heap[i].key] =
            [j \in Ids |-> IF j = i THEN [p[i] EXCEPT !.mark = "black", !.key = heap[i].key] ELSE p[j]]
      BY <3>1, TwoFields
    <3> QED
      BY <3>2, <3>3, <3>4
  <2> QED
    BY <2>4, <1>1, <1>2 DEF p
<1>4. RefsOf(heap, stack, i) = is0
  BY <1>1, <1>2, RefsAre
<1>5. BlackOk(h1, stack, tmudata, atomic, is0, i)
  <2>1. RefsOf(h1, stack, i) = is0
    BY <1>1, <1>2 DEF SameButMarks, RefsOf
  <2> HIDE DEF h1, is0
  <2> QED
    BY <2>1, <1>1, <1>2 DEF BlackOk, Clear
<1>6. ListsOk(h1, gray \ {i}, grayagain', weak')
  <2>1. i \notin grayagain /\ i \notin weak
    BY <1>1, <1>2 DEF ListsOk
  <2> HIDE DEF h1
  <2> QED
    BY <2>1, <1>1, <1>2 DEF ListsOk
<1>7. i \notin grayagain'
  BY <1>1, <1>2 DEF ListsOk
<1>8. gray' = (gray \ {i}) \cup ToTraverse(h1, is)
  BY <1>1, <1>2
<1> HIDE DEF h1, is0, is
<1> QED
  BY <1>1, <1>2, <1>3, <1>4, <1>5, <1>6, <1>7, <1>8, TraverseStep DEF is

(* propagatemark, one object of the gray list (lgc.c:277-320). *)
LEMMA PropagateOk == ASSUME HeapInstance, HeapInv, PropagateMark PROVE HeapInv'
BY TableStep, StackTraversed, ClosureTraversed DEF PropagateMark

--------------------------------------------------------------------------
(* The parts of atomic(). *)
\* What the marking phase knows of every step that does not move a mark.
LEMMA StillMarked ==
  ASSUME HeapInstance, HeapInv, gcstate = "propagate"
  PROVE  /\ MaxObjects \in Nat /\ Shaped(heap, stack) /\ heap \in [Ids -> Objects] /\ HeapTypes /\ FinalOk(heap)
         /\ Colours(heap, stack, gray, grayagain, weak, tmudata, atomic, {})
         /\ SameButMarks(heap, heap) /\ cw \in {"w0", "w1"}
         /\ \A i \in Ids : /\ IsOpen(heap[i]) => heap[i].mark # "black"
                           /\ Alive(heap[i]) => heap[i].mark \in {cw, "gray", "black"}
         /\ \A i \in garbage : Alive(heap[i]) => IsWhite(heap[i])
         /\ \A rs, also : Clear(heap, rs, {}) => Clear(heap, rs, also)
<1>1. Shaped(heap, stack) /\ heap \in [Ids -> Objects] /\ HeapTypes /\ cw \in {"w0", "w1"}
  BY DEF HeapInv, HeapTypes, Shaped
<1>2. \A i \in Ids : heap[i].mark \in {"w0", "w1", "gray", "black"}
  BY <1>1 DEF Objects
<1>3. \A i \in Ids : Alive(heap[i]) => heap[i].mark \in {cw, "gray", "black"}
  BY <1>1, <1>2 DEF HeapInv, PhaseInv, PhaseOk, Other
<1>4. \A rs, also : Clear(heap, rs, {}) => Clear(heap, rs, also)
  BY DEF Clear
<1> QED
  BY <1>1, <1>3, <1>4 DEF HeapInstance, HeapInv, ColourInv, SameButMarks, Shaped, ShapedAt, GarbageOk

(* remarkupvals: the values of open upvalues whose thread was not marked (lgc.c:515-522). *)
LEMMA RemarkUpvalsOk == ASSUME HeapInstance, HeapInv, RemarkUpvals PROVE HeapInv'
<1> DEFINE open == {j \in Ids : IsOpen(heap[j]) /\ heap[j].mark = "gray"}
           is0 == {Value(heap[i]) : i \in open}
           is == Marked(heap, is0)
<1>1. /\ gcstate = "propagate" /\ gray = {} /\ atomic = "no" /\ atomic' = "upvals"
      /\ UNCHANGED <<program, stack, full, ops, gced, cw, gcstate, grayagain, weak, unswept, tmudata>> /\ Note
      /\ heap' = Painted(heap, is) /\ gray' = ToTraverse(heap, is)
  BY DEF RemarkUpvals, Atomic
<1>2. /\ MaxObjects \in Nat /\ Shaped(heap, stack) /\ heap \in [Ids -> Objects] /\ HeapTypes /\ FinalOk(heap)
      /\ Colours(heap, stack, {}, grayagain, weak, tmudata, "no", {})
      /\ cw \in {"w0", "w1"}
      /\ \A i \in Ids : Alive(heap[i]) => heap[i].mark \in {cw, "gray", "black"}
      /\ \A i \in garbage : Alive(heap[i]) => IsWhite(heap[i])
      /\ \A rs, also : Clear(heap, rs, {}) => Clear(heap, rs, also)
  BY <1>1, StillMarked
<1>3. \A i \in open : i \in Ids /\ Alive(heap[i]) /\ i \notin garbage /\ RefsOf(heap, stack, i) = {Value(heap[i])}
  BY <1>2, RefsAre DEF IsOpen, Alive, Value, IsWhite
<1>4. Spread(heap, stack, is0, is) /\ is \in SUBSET Ids
  <2> HIDE DEF is0
  <2> QED
    BY <1>2, MarkedSpreads DEF Spread
<1>5. \A j \in is : Alive(heap[j]) /\ j \notin garbage
  <2> DEFINE C == {j \in Ids : Alive(heap[j]) /\ j \notin garbage}
  <2>1. is0 \cap Ids \subseteq C
    <3> SUFFICES ASSUME NEW i \in open, Value(heap[i]) \in Ids PROVE Value(heap[i]) \in C
      OBVIOUS
    <3> QED
      BY <1>1, <1>3, AllAlive DEF HeapInv, GarbageOk
  <2>2. \A j \in C \cap Ids : RefsOf(heap, stack, j) \cap Ids \subseteq C
    BY <1>1, AllAlive DEF HeapInv, GarbageOk
  <2> HIDE DEF C, is0
  <2>3. is \subseteq C
    BY <1>2, <2>1, <2>2, MarkedWithin
  <2> QED
    BY <2>3 DEF C
<1>6. Colours(heap, stack, {}, grayagain, weak, tmudata, "upvals", is0)
  <2>1. \A i \in Ids : IsOpen(heap[i]) /\ heap[i].mark = "gray" => Clear(heap, RefsOf(heap, stack, i), is0)
    BY <1>3 DEF Clear
  <2> HIDE DEF is0
  <2>2. \A i : BlackOk(heap, stack, tmudata, "no", {}, i) => BlackOk(heap, stack, tmudata, "upvals", is0, i)
    BY <1>2 DEF BlackOk
  <2> QED
    BY <1>2, <2>1, <2>2 DEF Colours
<1> HIDE DEF is0, is, open
<1>7. Colours(heap', stack, gray', grayagain, weak, tmudata, "upvals", {})
  BY <1>1, <1>2, <1>4, <1>5, <1>6, PaintKeeps
<1>8. ColourInv'
  BY <1>1, <1>7 DEF ColourInv, Colours, BlackOk, Clear, RefsOf
<1>9. /\ heap' \in [Ids -> Objects] /\ SameButMarks(heap, heap')
      /\ \A j \in Ids : /\ heap'[j].mark = (IF j \in is THEN Colour(heap[j]) ELSE heap[j].mark)
                        /\ heap'[j].fin = heap[j].fin
                        /\ j \in is => heap'[j].mark \in {"gray", "black"}
                        /\ IsOpen(heap'[j]) => heap'[j].mark # "black"
                        /\ j \notin is => heap'[j] = heap[j]
  BY <1>1, <1>2, <1>4, PaintedIs
<1>10. \A j \in Ids : Alive(heap[j]) => heap'[j].mark \in {cw, "gray", "black"}
  BY <1>2, <1>9
<1>11. \A j \in garbage : Alive(heap[j]) => IsWhite(heap'[j])
  BY <1>2, <1>5, <1>9 DEF HeapTypes
<1>12. FinalOk(heap)'
  <2>1. \A u \in tmudata : heap'[u].kind = "userdata" /\ heap'[u].fin /\ heap'[u].mark \in {cw, "black"}
    BY <1>2, <1>9 DEF FinalOk, HeapTypes, SameButMarks, Colour
  <2>2. \A j \in Ids : heap'[j].kind = heap[j].kind /\ heap'[j].fin = heap[j].fin
    BY <1>9 DEF SameButMarks
  <2> QED
    BY <2>1, <2>2, <1>1, <1>2 DEF FinalOk
<1>13. HeapTypes'
  <2>1. gray' \subseteq Ids /\ garbage' \subseteq Ids
    BY <1>1, <1>2, <1>4 DEF HeapTypes, ToTraverse, Note
  <2> QED
    BY <2>1, <1>1, <1>2 DEF HeapTypes
<1> QED
  BY <1>1, <1>8, <1>9, <1>10, <1>11, <1>12, <1>13, MarkStep

(* atomic() traverses the weak tables, and then grayagain, once more. *)
LEMMA RemarkListOk == ASSUME HeapInstance, HeapInv, RemarkWeak \/ RemarkAgain PROVE HeapInv'
<1>1. /\ gcstate = "propagate" /\ gray = {}
      /\ UNCHANGED <<heap, program, stack, full, ops, gced, cw, gcstate, unswept, tmudata>> /\ Note
      /\ \/ atomic = "upvals" /\ atomic' = "weak" /\ gray' = weak /\ weak' = {} /\ grayagain' = grayagain
         \/ atomic = "weak" /\ atomic' = "again" /\ gray' = grayagain /\ grayagain' = {} /\ weak' = weak
  BY DEF RemarkWeak, RemarkAgain, Atomic
<1>2. /\ MaxObjects \in Nat /\ Shaped(heap, stack) /\ heap \in [Ids -> Objects] /\ HeapTypes /\ FinalOk(heap)
      /\ Colours(heap, stack, gray, grayagain, weak, tmudata, atomic, {})
      /\ SameButMarks(heap, heap)
      /\ \A i \in Ids : /\ IsOpen(heap[i]) => heap[i].mark # "black"
                        /\ Alive(heap[i]) => heap[i].mark \in {cw, "gray", "black"}
      /\ \A i \in garbage : Alive(heap[i]) => IsWhite(heap[i])
  BY <1>1, StillMarked
<1>3. ListsOk(heap, gray', grayagain', weak')
  BY <1>1, <1>2 DEF Colours, ListsOk
<1>4. Colours(heap, stack, gray', grayagain', weak', tmudata, atomic', {})
  <2>1. \A i : BlackOk(heap, stack, tmudata, atomic, {}, i) => BlackOk(heap, stack, tmudata, atomic', {}, i)
    BY <1>1 DEF BlackOk
  <2>2. \A i : i \in gray \cup grayagain \cup weak => i \in gray' \cup grayagain' \cup weak'
    BY <1>1
  <2> QED
    BY <1>1, <1>2, <1>3, <2>1, <2>2 DEF Colours
<1>5. ColourInv'
  BY <1>1, <1>4 DEF ColourInv, Colours, BlackOk, Clear, RefsOf, ListsOk
<1>6. HeapTypes'
  <2>1. garbage' \subseteq Ids
    BY <1>1, <1>2 DEF HeapTypes, Note
  <2> QED
    BY <2>1, <1>1, <1>2 DEF HeapTypes
<1>7. FinalOk(heap)'
  BY <1>1, <1>2 DEF FinalOk
<1> QED
  BY <1>1, <1>2, <1>5, <1>6, <1>7, MarkStep

(* marktmu: userdata to be finalized are kept for that (lgc.c:115-125). *)
LEMMA MarkTmuOk == ASSUME HeapInstance, HeapInv, MarkTmu PROVE HeapInv'
<1> DEFINE sep == Separated
           tm == tmudata \cup ToFinalize
           is == Marked(sep, tm)
           R == Reachable(heap', stack, tm)
<1>1. /\ gcstate = "propagate" /\ gray = {} /\ atomic = "again" /\ atomic' = "tmudata"
      /\ UNCHANGED <<program, stack, full, ops, gced, cw, gcstate, grayagain, weak, unswept>> /\ Note
      /\ tmudata' = tm /\ heap' = Painted(sep, is) /\ gray' = ToTraverse(sep, is)
  BY DEF MarkTmu, Atomic
<1>2. /\ MaxObjects \in Nat /\ Shaped(heap, stack) /\ heap \in [Ids -> Objects] /\ HeapTypes /\ FinalOk(heap)
      /\ Colours(heap, stack, {}, grayagain, weak, tmudata, "again", {})
      /\ cw \in {"w0", "w1"} /\ StringsOk(heap)
      /\ \A i \in Ids : /\ Alive(heap[i]) => heap[i].mark \in {cw, "gray", "black"}
                        /\ IsOpen(heap[i]) => heap[i].mark # "black"
      /\ \A i \in garbage : Alive(heap[i]) => IsWhite(heap[i])
  <2>1. StringsOk(heap)
    BY DEF HeapInv
  <2> QED
    BY <1>1, <2>1, StillMarked
<1>3. /\ tm \subseteq Ids
      /\ \A u \in tm : /\ heap[u].kind = "userdata" /\ gced[u] = 0
                       /\ heap[u].mark \in {cw, "black"}
  BY <1>2 DEF HeapTypes, FinalOk, ToFinalize, Of, Alive, IsWhite
<1>4. /\ sep \in [Ids -> Objects] /\ SameButMarks(heap, sep)
      /\ \A i \in Ids : /\ sep[i].mark = (IF i \in tm THEN cw ELSE heap[i].mark)
                        /\ heap[i].fin \/ i \in tm => sep[i].fin
  <2>1. \A i \in Ids : sep[i] = (IF i \in tm THEN [heap[i] EXCEPT !.fin = TRUE, !.mark = cw]
                                 ELSE IF heap[i].kind = "userdata" /\ IsWhite(heap[i]) THEN [heap[i] EXCEPT !.fin = TRUE]
                                 ELSE heap[i])
    BY DEF Separated
  <2> HIDE DEF tm
  <2>2. ASSUME NEW i \in Ids
        PROVE  /\ sep[i] \in Objects /\ sep[i].kind = heap[i].kind /\ sep[i].mode = heap[i].mode /\ sep[i].val = heap[i].val
               /\ sep[i].on = heap[i].on /\ sep[i].slot = heap[i].slot /\ sep[i].key = heap[i].key
               /\ sep[i].mark = (IF i \in tm THEN cw ELSE heap[i].mark)
               /\ heap[i].fin \/ i \in tm => sep[i].fin
    <3>1. heap[i] \in Objects
      BY <1>2
    <3> HIDE DEF sep
    <3>2. CASE i \in tm
      <4>1. sep[i] = [heap[i] EXCEPT !.fin = TRUE, !.mark = cw]
        BY <2>1, <3>2
      <4> QED
        BY <4>1, <3>1, <3>2, <1>2 DEF Objects
    <3>3. CASE i \notin tm /\ heap[i].kind = "userdata" /\ IsWhite(heap[i])
      <4>1. sep[i] = [heap[i] EXCEPT !.fin = TRUE]
        BY <2>1, <3>3
      <4> QED
        BY <4>1, <3>1, <3>3, <1>2 DEF Objects
    <3>4. CASE i \notin tm /\ ~ (heap[i].kind = "userdata" /\ IsWhite(heap[i]))
      <4>1. sep[i] = heap[i]
        BY <2>1, <3>4
      <4> QED
        BY <4>1, <3>1, <3>4, <1>2 DEF Objects
    <3> QED
      BY <3>2, <3>3, <3>4
  <2>3. sep \in [Ids -> Objects]
    BY <2>2 DEF Separated
  <2> HIDE DEF sep
  <2> QED
    BY <2>2, <2>3 DEF SameButMarks
<1> HIDE DEF sep, tm
<1>5. /\ Shaped(sep, stack)
      /\ \A i \in Ids : /\ RefsOf(sep, stack, i) = RefsOf(heap, stack, i)
                        /\ IsOpen(sep[i]) <=> IsOpen(heap[i])
                        /\ Alive(sep[i]) <=> Alive(heap[i])
                        /\ IsWeak(sep[i]) <=> IsWeak(heap[i])
                        /\ sep[i].kind = heap[i].kind /\ sep[i].val = heap[i].val
                        /\ sep[i].key = heap[i].key \/ (heap[i].kind = "table" /\ heap[i].val = Nil /\ sep[i].key = DeadKey)
  <2>1. \A i \in Ids : IsOpen(sep[i]) => sep[i].mark # "black"
    BY <1>2, <1>3, <1>4 DEF IsOpen, SameButMarks
  <2> QED
    BY <1>2, <1>4, <2>1, SameRefs DEF SameButMarks
<1>6. Spread(sep, stack, tm, is) /\ is \in SUBSET Ids
  BY <1>2, <1>5, MarkedSpreads DEF Spread
<1>7. \A i \in is : Alive(heap[i])
  <2> DEFINE C == {j \in Ids : Alive(heap[j])}
  <2>1. tm \cap Ids \subseteq C
    BY <1>3 DEF Alive
  <2>2. \A j \in C \cap Ids : RefsOf(sep, stack, j) \cap Ids \subseteq C
    BY <1>1, <1>5, AllAlive
  <2> HIDE DEF C
  <2>3. is \subseteq C
    BY <1>2, <1>5, <2>1, <2>2, MarkedWithin
  <2> QED
    BY <2>3 DEF C
<1>8. Colours(sep, stack, {}, grayagain, weak, tm, "tmudata", tm)
  <2>1. ASSUME NEW rs, Clear(heap, rs, {}) PROVE Clear(sep, rs, tm)
    BY <2>1, <1>4 DEF Clear, IsWhite
  <2>3. Clear(sep, {Main}, tm)
    BY <2>1, <1>2 DEF Colours
  <2>4. ASSUME NEW i \in Ids, Alive(sep[i]), sep[i].mark = "black" PROVE BlackOk(sep, stack, tm, "tmudata", tm, i)
    <3>1. i \notin tm /\ heap[i].mark = "black" /\ i \notin tmudata
      BY <2>4, <1>2, <1>4 DEF tm
    <3>2. BlackOk(heap, stack, tmudata, "again", {}, i)
      BY <3>1, <2>4, <1>2, <1>5 DEF Colours
    <3>3. DeadKey \notin Ids
      BY DEF DeadKey, Ids
    <3>4. heap[i].kind = "table" => Clear(sep, {sep[i].key, sep[i].val}, tm)
      <4> SUFFICES ASSUME heap[i].kind = "table" PROVE Clear(sep, {sep[i].key, sep[i].val}, tm)
        OBVIOUS
      <4>1. Clear(sep, {heap[i].key, heap[i].val}, tm)
        BY <3>2, <2>1 DEF BlackOk
      <4>2. sep[i].val = heap[i].val /\ (sep[i].key = heap[i].key \/ sep[i].key = DeadKey)
        BY <1>5
      <4> QED
        BY <4>1, <4>2, <3>3 DEF Clear
    <3> QED
      BY <3>1, <3>2, <3>4, <2>1, <1>5 DEF BlackOk
  <2>5. ASSUME NEW i \in Ids, Alive(sep[i]), sep[i].mark = "gray"
        PROVE  sep[i].kind = "string" \/ IsOpen(sep[i]) \/ i \in {} \cup grayagain \cup weak
    BY <2>5, <1>2, <1>4, <1>5 DEF Colours
  <2>6. ListsOk(sep, {}, grayagain, weak)
    <3>1. \A i \in grayagain \cup weak : i \in Ids /\ heap[i].mark = "gray" /\ i \notin tm
      BY <1>2, <1>3 DEF Colours, ListsOk, Listed
    <3> QED
      BY <3>1, <1>2, <1>4, <1>5 DEF Colours, ListsOk
  <2>7. ASSUME NEW i \in Ids, IsOpen(sep[i]), sep[i].mark = "gray" PROVE Clear(sep, RefsOf(sep, stack, i), tm)
    BY <2>7, <2>1, <1>2, <1>4, <1>5 DEF Colours
  <2>8. \A i \in grayagain : sep[i].kind = "thread" /\ Clear(sep, RefsOf(sep, stack, i), tm)
    BY <2>1, <1>2, <1>5 DEF Colours, HeapTypes
  <2> QED
    BY <2>3, <2>4, <2>5, <2>6, <2>7, <2>8 DEF Colours
<1> HIDE DEF is
<1>9. ColourInv'
  <2>1. \A j \in is : Alive(sep[j])
    BY <1>5, <1>6, <1>7
  <2>2. Colours(heap', stack, gray', grayagain, weak, tm, "tmudata", {})
    BY <1>1, <1>2, <1>5, <1>6, <1>8, <2>1, PaintKeeps
  <2> QED
    BY <1>1, <2>2 DEF ColourInv, Colours, BlackOk, Clear, RefsOf
<1>10. /\ heap' \in [Ids -> Objects] /\ SameButMarks(sep, heap')
       /\ \A j \in Ids : /\ heap'[j].mark = (IF j \in is THEN Colour(sep[j]) ELSE sep[j].mark)
                         /\ heap'[j].fin = sep[j].fin
                         /\ j \in is => heap'[j].mark \in {"gray", "black"}
                         /\ IsOpen(heap'[j]) => heap'[j].mark # "black"
                         /\ heap'[j].key = sep[j].key
  BY <1>1, <1>2, <1>5, <1>6, PaintedIs
<1>11. SameButMarks(heap, heap')
  BY <1>4, <1>10 DEF SameButMarks
<1>12. \A j \in Ids : Alive(heap[j]) => heap'[j].mark \in {cw, "gray", "black"}
  BY <1>2, <1>4, <1>10
<1>13. is \cup tm \subseteq R
  <2>1. \A i \in Ids : RefsOf(heap', stack, i) = RefsOf(sep, stack, i)
    BY <1>2, <1>5, <1>10, SameRefs
  <2>2. tm \subseteq R /\ \A i \in R : RefsOf(heap', stack, i) \cap Ids \subseteq R
    BY <1>2, <1>3, ReachableIs
  <2> HIDE DEF R
  <2>3. is \subseteq R
    BY <2>1, <2>2, <1>2, <1>5, MarkedWithin DEF is
  <2> QED
    BY <2>2, <2>3
<1>14. \A j \in garbage \ R : Alive(heap[j]) => IsWhite(heap'[j])
  <2> HIDE DEF R
  <2>1. \A j \in garbage \ R : j \in Ids /\ j \notin is /\ j \notin tm
    BY <1>13, <1>2 DEF HeapTypes
  <2>2. \A j \in garbage \ R : heap'[j].mark = heap[j].mark
    BY <2>1, <1>4, <1>10
  <2> QED
    BY <1>2, <2>2 DEF IsWhite
<1>15. FinalOk(heap)'
  <2>1. \A u \in tm : heap'[u].kind = "userdata" /\ heap'[u].fin /\ heap'[u].mark = "black"
    <3> SUFFICES ASSUME NEW u \in tm PROVE heap'[u].kind = "userdata" /\ heap'[u].fin /\ heap'[u].mark = "black"
      OBVIOUS
    <3>1. u \in Ids /\ sep[u].kind = "userdata" /\ sep[u].mark = cw /\ sep[u].fin
      BY <1>3, <1>4, <1>5
    <3>2. u \in is
      BY <3>1, <1>2, <1>6 DEF Spread, IsWhite
    <3> QED
      BY <3>1, <3>2, <1>10 DEF SameButMarks, Colour
  <2>2. \A j \in Ids : heap'[j].kind = heap[j].kind /\ (heap[j].fin => heap'[j].fin)
    BY <1>4, <1>10, <1>11 DEF SameButMarks
  <2> QED
    BY <2>1, <2>2, <1>1, <1>2, <1>3 DEF FinalOk
<1>16. HeapTypes'
  <2>1. gray' \subseteq Ids /\ garbage' \subseteq Ids /\ tmudata' \subseteq Ids
    BY <1>1, <1>2, <1>3, <1>6 DEF HeapTypes, ToTraverse, Note
  <2> QED
    BY <2>1, <1>1, <1>2 DEF HeapTypes
<1>17. \A j \in garbage \ Reachable(heap', stack', tmudata') : Alive(heap[j]) => IsWhite(heap'[j])
  BY <1>1, <1>14
<1> QED
  BY <1>1, <1>9, <1>10, <1>11, <1>12, <1>15, <1>16, <1>17, MarkStep

(* markroot: a collection begins at the main thread; here what is out of reach becomes garbage. *)
LEMMA MarkRootOk == ASSUME HeapInstance, HeapInv, MarkRoot PROVE HeapInv'
<1> DEFINE is == Marked(heap, {Main})
           R == Reachable(heap', stack, tmudata)
<1>1. /\ gcstate = "pause" \/ gcstate = "finalize"
      /\ heap' = Painted(heap, is)
      /\ gray' = ToTraverse(heap, is) /\ grayagain' = {} /\ weak' = {}
      /\ gcstate' = "propagate" /\ full' = (IF full = "sweep" THEN "collect" ELSE full)
      /\ UNCHANGED <<program, stack, cw, atomic, unswept, tmudata, ops, gced>>
      /\ garbage' = {i \in Ids : Alive(heap[i])} \ R
  BY DEF MarkRoot
<1>2. /\ MaxObjects \in Nat /\ Shaped(heap, stack) /\ heap \in [Ids -> Objects] /\ HeapTypes /\ FinalOk(heap)
      /\ StringsOk(heap) /\ cw \in {"w0", "w1"} /\ Other(cw) \notin {cw, "gray", "black"} /\ atomic = "no" /\ tmudata \in SUBSET Ids
      /\ Main \in Ids
  <2>1. MaxObjects \in Nat /\ Shaped(heap, stack) /\ HeapTypes /\ FinalOk(heap) /\ StringsOk(heap) /\ PhaseInv
    BY DEF HeapInstance, HeapInv
  <2>2. cw \in {"w0", "w1"} /\ tmudata \in SUBSET Ids /\ heap \in [Ids -> Objects]
    BY <2>1 DEF HeapTypes, Shaped
  <2>3. atomic = "no"
    BY <1>1, <2>1 DEF PhaseInv
  <2>4. Main \in Ids
    BY <2>1 DEF Main, Ids
  <2>5. Other(cw) \notin {cw, "gray", "black"}
    BY <2>2 DEF Other
  <2> QED
    BY <2>1, <2>2, <2>3, <2>4, <2>5
<1>3. \A i \in Ids : Alive(heap[i]) => heap[i].mark = cw \/ (i \in tmudata /\ heap[i].mark = "black")
  BY <1>1, <1>2 DEF HeapInv, PhaseInv, PhaseOk, Settled, FinalOk
<1>4. \A i \in Ids : Alive(heap[i]) => \A r \in AllRefs(heap, stack, i) \cap Ids : Alive(heap[r])
  BY <1>2, <1>3 DEF HeapInv, Whole, NotDead
<1>5. Spread(heap, stack, {Main}, is) /\ is \in SUBSET Ids
  <2> DEFINE is0 == {Main}
  <2>1. is = Marked(heap, is0)
    OBVIOUS
  <2> HIDE DEF is0, is
  <2>2. Spread(heap, stack, is0, is)
    BY <1>2, <2>1, MarkedSpreads
  <2> QED
    BY <2>2 DEF Spread, is0
<1>6. \A i \in is : Alive(heap[i])
  <2> DEFINE C == {j \in Ids : Alive(heap[j])}
  <2>1. {Main} \cap Ids \subseteq C
    BY <1>2 DEF HeapInv, Whole, NotDead
  <2>2. \A j \in C \cap Ids : RefsOf(heap, stack, j) \cap Ids \subseteq C
    BY <1>4 DEF AllRefs
  <2> HIDE DEF C
  <2>3. is \subseteq C
    BY <1>2, <2>1, <2>2, MarkedWithin
  <2> QED
    BY <2>3 DEF C
<1>7. Colours(heap, stack, {}, {}, {}, tmudata, "no", {Main})
  <2>1. \A i \in Ids : Alive(heap[i]) /\ heap[i].mark = "black" => BlackOk(heap, stack, tmudata, "no", {Main}, i)
    BY <1>2, <1>3 DEF BlackOk, FinalOk
  <2>2. \A i \in Ids : ~ (Alive(heap[i]) /\ heap[i].mark = "gray")
    BY <1>2, <1>3
  <2> QED
    BY <2>1, <2>2 DEF Colours, Clear, ListsOk
<1> HIDE DEF is
<1>8. ColourInv'
  <2>1. Colours(heap', stack, gray', {}, {}, tmudata, "no", {})
    BY <1>1, <1>2, <1>5, <1>6, <1>7, PaintKeeps
  <2> QED
    BY <1>1, <1>2, <2>1 DEF ColourInv, Colours, BlackOk, Clear, RefsOf
<1>9. /\ heap' \in [Ids -> Objects] /\ SameButMarks(heap, heap') /\ Shaped(heap', stack)
      /\ \A j \in Ids : /\ heap'[j].mark = (IF j \in is THEN Colour(heap[j]) ELSE heap[j].mark)
                        /\ heap'[j].fin = heap[j].fin
                        /\ j \in is => heap'[j].mark \in {"gray", "black"}
                        /\ IsOpen(heap'[j]) => heap'[j].mark # "black"
  BY <1>1, <1>2, <1>5, PaintedIs
<1>10. /\ StringsOk(heap')
       /\ \A i \in Ids : /\ RefsOf(heap', stack, i) = RefsOf(heap, stack, i)
                         /\ AllRefs(heap', stack, i) = AllRefs(heap, stack, i)
                         /\ Alive(heap'[i]) <=> Alive(heap[i])
                         /\ heap'[i].kind = heap[i].kind
  BY <1>2, <1>9, SameRefs DEF SameButMarks
<1>11. \A i \in Ids : Alive(heap[i]) => NotDead(heap', cw, i)
  BY <1>2, <1>3, <1>9, <1>10 DEF NotDead
<1>12. Whole(heap, stack, cw, tmudata)'
  <2>1. NotDead(heap', cw, Main) /\ \A u \in tmudata : NotDead(heap', cw, u)
    <3>1. Alive(heap[Main]) /\ \A u \in tmudata : Alive(heap[u])
      BY <1>2 DEF HeapInv, Whole, NotDead
    <3> QED
      BY <3>1, <1>2, <1>11
  <2>2. \A i \in Ids : NotDead(heap', cw, i) => \A r \in AllRefs(heap', stack, i) \cap Ids : NotDead(heap', cw, r)
    BY <1>4, <1>10, <1>11 DEF NotDead
  <2>3. Whole(heap', stack, cw, tmudata)
    BY <2>1, <2>2 DEF Whole
  <2> QED
    BY <1>1, <2>3 DEF Whole, NotDead, AllRefs, RefsOf
<1>13. PhaseInv'
  <2>1. full' # "sweep"
    BY <1>1
  <2>2. \A i \in Ids : Alive(heap'[i]) => heap'[i].mark # Other(cw)
    BY <1>10, <1>11 DEF NotDead
  <2> QED
    BY <1>1, <2>1, <2>2 DEF PhaseInv, PhaseOk
<1>14. garbage' \subseteq Ids /\ GarbageOk(heap, stack, {})'
  <2>1. {Main} \cup tmudata \subseteq R /\ \A i \in R : RefsOf(heap', stack, i) \cap Ids \subseteq R
    BY <1>2, ReachableIs
  <2> HIDE DEF R
  <2>2. is \subseteq R
    <3>1. \A i \in R \cap Ids : RefsOf(heap, stack, i) \cap Ids \subseteq R
      BY <2>1, <1>10
    <3> QED
      BY <2>1, <3>1, <1>2, MarkedWithin DEF is
  <2>3. \A i \in garbage' : i \in Ids /\ Alive(heap[i]) /\ i \notin R /\ i \notin is /\ i \notin tmudata
    BY <1>1, <2>1, <2>2
  <2>4. \A i \in garbage' : heap'[i].kind # "unborn" /\ IsWhite(heap'[i])
    BY <2>3, <1>2, <1>3, <1>9, <1>10 DEF IsWhite, Alive
  <2>5. Main \notin garbage' /\ tmudata \cap garbage' = {}
    BY <2>1, <2>3
  <2>6. \A i \in Ids \ garbage' : Alive(heap'[i]) => RefsOf(heap', stack, i) \cap garbage' = {}
    BY <1>1, <1>10, <2>1, <2>3
  <2> QED
    BY <1>1, <2>3, <2>4, <2>5, <2>6 DEF GarbageOk
<1>15. FinalOk(heap)'
  <2>1. \A u \in tmudata : heap'[u].kind = "userdata" /\ heap'[u].fin /\ heap'[u].mark \in {cw, "black"}
    BY <1>2, <1>9, <1>10 DEF FinalOk, Colour
  <2> QED
    BY <2>1, <1>1, <1>2, <1>9, <1>10 DEF FinalOk
<1>16. HeapTypes'
  <2>1. gray' \subseteq Ids
    BY <1>1, <1>5 DEF ToTraverse
  <2> QED
    BY <2>1, <1>1, <1>2, <1>14 DEF HeapTypes
<1>17. Shaped(heap, stack)' /\ StringsOk(heap)'
  BY <1>1, <1>9, <1>10 DEF Shaped, ShapedAt, StringsOk
<1> QED
  BY <1>8, <1>12, <1>13, <1>14, <1>15, <1>16, <1>17 DEF HeapInv

\* Weak tables lose what was not marked; what was not marked is dead from now on.
LEMMA FlipWhiteOk == ASSUME HeapInstance, HeapInv, FlipWhite PROVE HeapInv'
<1> DEFINE cleared == {i \in weak : heap[i].val # Nil /\ (IsCleared(heap[i].key, TRUE) \/ IsCleared(heap[i].val, FALSE))}
           strings == Whites(heap, UNION {Tested(heap[i]) : i \in weak}) \cap Of(heap, "string")
           nw == Other(cw)
<1>1. /\ gcstate = "propagate" /\ gray = {} /\ atomic = "tmudata" /\ atomic' = "no"
      /\ UNCHANGED <<program, stack, full, ops, gced, gray, grayagain, weak, tmudata>> /\ Note
      /\ heap' = [i \in Ids |->
           IF i \in cleared THEN [heap[i] EXCEPT !.val = Nil, !.key = IF heap[i].key # Nil THEN DeadKey ELSE heap[i].key]
           ELSE IF i \in strings THEN [heap[i] EXCEPT !.mark = "gray"] ELSE heap[i]]
      /\ cw' = nw /\ gcstate' = "sweepstring" /\ unswept' = Of(heap, "string")
  BY DEF FlipWhite, Atomic, ClearTable
<1>2. /\ MaxObjects \in Nat /\ Shaped(heap, stack) /\ heap \in [Ids -> Objects] /\ HeapTypes /\ FinalOk(heap)
      /\ Colours(heap, stack, {}, grayagain, weak, tmudata, "tmudata", {})
      /\ cw \in {"w0", "w1"} /\ StringsOk(heap)
      /\ \A i \in Ids : /\ Alive(heap[i]) => heap[i].mark \in {cw, "gray", "black"}
                        /\ IsOpen(heap[i]) => heap[i].mark # "black"
      /\ \A i \in garbage : Alive(heap[i]) => IsWhite(heap[i])
  <2>1. StringsOk(heap)
    BY DEF HeapInv
  <2> QED
    BY <1>1, <2>1, StillMarked
<1>3. nw \in {"w0", "w1"} /\ nw # cw /\ Other(nw) = cw
  BY <1>2, OtherIs
<1>4. /\ \A i \in weak : i \in Ids /\ heap[i].kind = "table" /\ heap[i].mark = "gray"
      /\ \A i \in strings : i \in Ids /\ heap[i].kind = "string" /\ IsWhite(heap[i])
                            /\ \E j \in weak : i \in Tested(heap[j])
      /\ \A j \in weak : \A i \in Tested(heap[j]) : i \in Ids /\ heap[i].kind = "string" /\ IsWhite(heap[i]) => i \in strings
  <2>1. \A i \in weak : i \in Ids /\ heap[i].kind = "table" /\ heap[i].mark = "gray"
    BY <1>2 DEF Colours, ListsOk
  <2> QED
    BY <2>1 DEF Whites, Of
<1>5. cleared \subseteq weak
  OBVIOUS
<1>6. ASSUME NEW i \in Ids
      PROVE  /\ heap'[i] \in Objects
             /\ heap'[i].kind = heap[i].kind /\ heap'[i].mode = heap[i].mode /\ heap'[i].on = heap[i].on
             /\ heap'[i].slot = heap[i].slot /\ heap'[i].fin = heap[i].fin
             /\ i \in cleared => /\ heap'[i].val = Nil /\ heap'[i].mark = heap[i].mark
                                 /\ heap'[i].key = heap[i].key \/ heap'[i].key = DeadKey
             /\ i \notin cleared => heap'[i].val = heap[i].val /\ heap'[i].key = heap[i].key
             /\ i \in strings => heap'[i].mark = "gray"
             /\ i \notin strings => heap'[i].mark = heap[i].mark
  <2>1. heap[i] \in Objects
    BY <1>2
  <2>2. i \in strings => i \notin cleared
    BY <1>4, <1>5
  <2> HIDE DEF cleared, strings
  <2>3. CASE i \in cleared
    <3>1. heap'[i] = [heap[i] EXCEPT !.val = Nil, !.key = IF heap[i].key # Nil THEN DeadKey ELSE heap[i].key]
      BY <1>1, <2>3
    <3> QED
      BY <2>1, <2>2, <2>3, <3>1 DEF Objects, Refs
  <2>4. CASE i \notin cleared /\ i \in strings
    <3>1. heap'[i] = [heap[i] EXCEPT !.mark = "gray"]
      BY <1>1, <2>4
    <3> QED
      BY <2>1, <2>4, <3>1 DEF Objects
  <2>5. CASE i \notin cleared /\ i \notin strings
    <3>1. heap'[i] = heap[i]
      BY <1>1, <2>5
    <3> QED
      BY <2>1, <2>5, <3>1
  <2> QED
    BY <2>3, <2>4, <2>5
<1>7. heap' \in [Ids -> Objects]
  <2>1. heap' = [i \in Ids |-> heap'[i]]
    BY <1>1
  <2> QED
    BY <2>1, <1>6
<1>8. \A i \in Ids : heap[i].mark \in {"gray", "black"} => heap'[i].mark \in {"gray", "black"}
  BY <1>6
<1> HIDE DEF nw
<1>9. \A i \in Ids : /\ IsOpen(heap'[i]) <=> IsOpen(heap[i])
                     /\ Alive(heap'[i]) <=> Alive(heap[i])
                     /\ \A r : IsString(heap', r) <=> IsString(heap, r)
                     /\ \A r : IsValue(heap', r) <=> IsValue(heap, r)
  BY <1>6 DEF IsOpen, Alive, IsString, IsValue
<1>10. \A i \in Ids : i \notin cleared => Strong(heap'[i]) = Strong(heap[i]) /\ Entry(heap'[i]) = Entry(heap[i])
  BY <1>6 DEF Strong, Entry, WeakKey, WeakValue
<1>11. \A i \in cleared : /\ Strong(heap'[i]) = {} /\ Entry(heap'[i]) = {} /\ heap'[i].kind = "table"
                          /\ RefsOf(heap', stack, i) = {} /\ AllRefs(heap', stack, i) = {}
  <2>1. \A i \in cleared : Strong(heap'[i]) = {} /\ Entry(heap'[i]) = {} /\ heap'[i].kind = "table"
    <3>1. \A i \in cleared : i \in Ids /\ heap'[i].val = Nil /\ heap'[i].kind = "table"
      <4> HIDE DEF cleared, strings
      <4> QED
        BY <1>4, <1>5, <1>6
    <3> HIDE DEF cleared
    <3> QED
      BY <3>1 DEF Strong, Entry
  <2>2. \A i \in cleared : RefsOf(heap', stack, i) = {}
    BY <2>1 DEF RefsOf
  <2> QED
    BY <2>1, <2>2 DEF AllRefs
<1>12. \A i \in Ids : i \notin cleared => /\ RefsOf(heap', stack, i) = RefsOf(heap, stack, i)
                                          /\ AllRefs(heap', stack, i) = AllRefs(heap, stack, i)
  <2> SUFFICES ASSUME NEW i \in Ids, i \notin cleared
               PROVE  /\ RefsOf(heap', stack, i) = RefsOf(heap, stack, i)
                      /\ AllRefs(heap', stack, i) = AllRefs(heap, stack, i)
    OBVIOUS
  <2> HIDE DEF cleared
  <2>1. /\ heap'[i].kind = heap[i].kind /\ heap'[i].val = heap[i].val /\ heap'[i].on = heap[i].on
        /\ heap'[i].slot = heap[i].slot
    BY <1>6
  <2>2. Strong(heap'[i]) \cup {r \in Entry(heap'[i]) : IsString(heap', r)} = Strong(heap[i]) \cup {r \in Entry(heap[i]) : IsString(heap, r)}
    BY <1>9, <1>10
  <2>3. IsOpen(heap'[i]) <=> IsOpen(heap[i])
    BY <1>9
  <2>4. RefsOf(heap', stack, i) = RefsOf(heap, stack, i)
    BY <2>1, <2>2, <2>3 DEF RefsOf
  <2> QED
    BY <2>4, <1>10 DEF AllRefs
<1> DEFINE Good(r) == r \in Ids => heap'[r].mark \in {"gray", "black"}
<1>13. ASSUME NEW rs, Clear(heap, rs, {}) PROVE \A r \in rs : Good(r)
  <2>1. \A r \in Ids : ~ IsWhite(heap[r]) => heap[r].mark \in {"gray", "black"}
    BY <1>2 DEF Objects, IsWhite
  <2> QED
    BY <1>8, <1>13, <2>1 DEF Clear
<1>14. ASSUME NEW i \in Ids, Alive(heap[i]), heap'[i].mark \in {"gray", "black"}, NEW r \in AllRefs(heap', stack, i) PROVE Good(r)
  <2>1. i \notin cleared
    BY <1>11, <1>14
  <2>2. r \in AllRefs(heap, stack, i)
    BY <2>1, <1>12, <1>14
  <2>3. CASE i \in strings
    <3>1. heap[i].kind = "string" /\ heap[i].val = Nil
      BY <2>3, <1>2, <1>4 DEF Shaped, ShapedAt
    <3>2. AllRefs(heap, stack, i) = {Nil}
      BY <3>1, <1>2, RefsAre
    <3> QED
      BY <2>2, <3>2 DEF Nil, Ids
  <2>4. CASE heap[i].mark = "black"
    <3>1. BlackOk(heap, stack, tmudata, "tmudata", {}, i)
      BY <2>4, <1>14, <1>2 DEF Colours
    <3>2. AllRefs(heap, stack, i) = RefsOf(heap, stack, i)
      BY <3>1, <1>2, RefsAre DEF BlackOk
    <3> HIDE DEF Good
    <3> QED
      BY <3>1, <3>2, <2>2, <1>13 DEF BlackOk
  <2>5. CASE i \notin strings /\ heap[i].mark = "gray"
    <3>1. heap[i].kind = "string" \/ IsOpen(heap[i]) \/ i \in grayagain \/ i \in weak
      BY <2>5, <1>14, <1>2 DEF Colours
    <3>2. CASE heap[i].kind = "string"
      <4>0. heap[i].val = Nil
        BY <3>2, <1>2 DEF Shaped, ShapedAt
      <4> HIDE DEF strings, cleared, Good
      <4>1. AllRefs(heap, stack, i) = {Nil}
        BY <3>2, <4>0, <1>2, RefsAre
      <4> QED
        BY <2>2, <4>1 DEF Nil, Ids, Good
    <3>3. CASE IsOpen(heap[i])
      <4>1. Clear(heap, RefsOf(heap, stack, i), {})
        BY <3>3, <2>5, <1>2 DEF Colours
      <4>2. AllRefs(heap, stack, i) = RefsOf(heap, stack, i)
        BY <3>3, <1>2, RefsAre DEF IsOpen
      <4> HIDE DEF Good
      <4> QED
        BY <4>1, <4>2, <2>2, <1>13
    <3>4. CASE i \in grayagain
      <4>1. heap[i].kind = "thread" /\ Clear(heap, RefsOf(heap, stack, i), {})
        BY <3>4, <1>2 DEF Colours
      <4>2. AllRefs(heap, stack, i) = RefsOf(heap, stack, i)
        BY <4>1, <1>2, RefsAre
      <4> HIDE DEF Good
      <4> QED
        BY <4>1, <4>2, <2>2, <1>13
    <3>5. CASE i \in weak
      <4>1. heap[i].kind = "table" /\ r \in Entry(heap[i])
        BY <3>5, <2>2, <1>2, <1>4, RefsAre
      <4>2. heap[i].val # Nil /\ r \in {heap[i].key, heap[i].val}
        BY <4>1 DEF Entry
      <4>3. ~ IsCleared(heap[i].key, TRUE) /\ ~ IsCleared(heap[i].val, FALSE)
        BY <4>2, <2>1, <3>5
      <4>4. r \in Tested(heap[i])
        BY <4>2, <4>3 DEF Tested
      <4>5. r \in Ids => heap[r].kind = "string" \/ ~ IsWhite(heap[r])
        BY <4>2, <4>3 DEF IsCleared
      <4>6. CASE r \in Ids /\ IsWhite(heap[r])
        <5>1. r \in strings
          BY <4>4, <4>5, <4>6, <3>5, <1>4
        <5> HIDE DEF strings
        <5> QED
          BY <5>1, <4>6, <1>6
      <4>7. CASE r \in Ids /\ ~ IsWhite(heap[r])
        <5>1. Clear(heap, {r}, {})
          BY <4>7 DEF Clear
        <5> HIDE DEF Good
        <5> QED
          BY <5>1, <1>13
      <4> QED
        BY <4>6, <4>7
    <3> QED
      BY <3>1, <3>2, <3>3, <3>4, <3>5
  <2> HIDE DEF strings
  <2>6. i \in strings \/ heap[i].mark = "black" \/ (i \notin strings /\ heap[i].mark = "gray")
    BY <1>6, <1>14
  <2> QED
    BY <2>3, <2>4, <2>5, <2>6
<1>15. \A i \in Ids : NotDead(heap', nw, i) <=> Alive(heap[i]) /\ heap'[i].mark \in {"gray", "black"}
  <2>1. \A i \in Ids : Alive(heap[i]) => heap'[i].mark \in {cw, "gray", "black"}
    <3> HIDE DEF strings, cleared
    <3> QED
      BY <1>2, <1>6
  <2> QED
    BY <2>1, <1>2, <1>3, <1>9 DEF NotDead
<1>16. Whole(heap, stack, cw, tmudata)'
  <2>1. NotDead(heap', nw, Main)
    <3>1. Main \in Ids /\ Alive(heap[Main])
      BY <1>2 DEF Main, Ids, Shaped, Alive
    <3>2. Good(Main)
      <4>1. Clear(heap, {Main}, {})
        BY <1>2 DEF Colours
      <4> HIDE DEF Good
      <4> QED
        BY <4>1, <1>13
    <3> QED
      BY <3>1, <3>2, <1>15
  <2>2. \A u \in tmudata : NotDead(heap', nw, u)
    <3>1. \A u \in tmudata : u \in Ids /\ heap[u].kind = "userdata" /\ heap[u].mark = "black"
      BY <1>1, <1>2 DEF FinalOk, HeapTypes
    <3> QED
      BY <3>1, <1>8, <1>15 DEF Alive
  <2>3. ASSUME NEW i \in Ids, NotDead(heap', nw, i), NEW r \in AllRefs(heap', stack, i) \cap Ids PROVE NotDead(heap', nw, r)
    <3>1. Good(r) /\ Alive(heap[i])
      BY <2>3, <1>14, <1>15
    <3>2. Alive(heap[r])
      <4>1. i \notin cleared
        BY <1>11, <2>3
      <4> HIDE DEF cleared
      <4>2. r \in AllRefs(heap, stack, i)
        BY <4>1, <2>3, <1>12
      <4> QED
        BY <4>2, <3>1, <1>1, AllAlive
    <3> QED
      BY <3>1, <3>2, <1>15
  <2>4. Whole(heap', stack, nw, tmudata)
    BY <2>1, <2>2, <2>3 DEF Whole
  <2> HIDE DEF cleared, strings, Good
  <2>5. stack' = stack /\ tmudata' = tmudata /\ cw' = nw
    BY <1>1
  <2> HIDE DEF nw
  <2> QED
    BY <2>4, <2>5 DEF Whole, NotDead, AllRefs
<1> HIDE DEF strings, Good
<1>17. PhaseInv'
  <2>1. \A i \in Ids : heap'[i].kind = "string" => i \in unswept'
    BY <1>1, <1>6 DEF Of
  <2> QED
    BY <1>1, <2>1 DEF PhaseInv, PhaseOk
<1>18. FinalOk(heap)'
  <2>1. \A u \in tmudata : heap'[u].kind = "userdata" /\ heap'[u].fin /\ heap'[u].mark \in {nw, "black"} /\ gced[u] = 0
    <3>1. \A u \in tmudata : u \in Ids /\ heap[u].kind = "userdata" /\ heap[u].mark = "black" /\ heap[u].fin /\ gced[u] = 0
      BY <1>1, <1>2 DEF FinalOk, HeapTypes
    <3>2. \A u \in tmudata : u \notin strings
      BY <3>1, <1>4
    <3> QED
      BY <3>1, <3>2, <1>6
  <2>2. \A j \in Ids : heap'[j].kind = heap[j].kind /\ (heap[j].fin => heap'[j].fin)
    BY <1>6
  <2> HIDE DEF cleared
  <2>3. \A j \in Ids : gced[j] # 0 => heap'[j].fin /\ heap'[j].kind # "unborn"
    BY <2>2, <1>2 DEF FinalOk
  <2> QED
    BY <2>1, <2>3, <1>1 DEF FinalOk
<1>19. Shaped(heap, stack)'
  <2>1. ASSUME NEW i \in Ids PROVE ShapedAt(heap', stack, i)
    <3>1. ShapedAt(heap, stack, i) /\ heap[i] \in Objects
      BY <1>2 DEF Shaped
    <3>2. IsValue(heap', Nil) /\ IsValue(heap', DeadKey)
      BY DEF IsValue, Nil, DeadKey, Ids
    <3>3. heap'[i].kind = heap[i].kind /\ heap'[i].on = heap[i].on /\ heap'[i].slot = heap[i].slot
      BY <1>6
    <3>4. i \in cleared => heap[i].kind = "table"
      BY <1>4, <1>5
    <3> HIDE DEF cleared
    <3>5. heap[i].kind # "table" => heap'[i].val = heap[i].val
      BY <1>6, <3>4
    <3>6. heap[i].kind = "table" => IsValue(heap', heap'[i].val) /\ IsValue(heap', heap'[i].key)
      <4> SUFFICES ASSUME heap[i].kind = "table" PROVE IsValue(heap', heap'[i].val) /\ IsValue(heap', heap'[i].key)
        OBVIOUS
      <4>1. IsValue(heap', heap[i].val) /\ IsValue(heap', heap[i].key)
        BY <3>1, <1>9 DEF ShapedAt
      <4>2. (heap'[i].val = heap[i].val \/ heap'[i].val = Nil) /\ (heap'[i].key = heap[i].key \/ heap'[i].key = DeadKey)
        BY <1>6
      <4> QED
        BY <4>1, <4>2, <3>2
    <3>7. heap[i].val \in Ids => heap'[heap[i].val].kind = heap[heap[i].val].kind
      BY <1>6
    <3>8. heap[i].val # Nil => heap[i].val \in Ids
      BY <3>1 DEF Objects, Refs, Ids
    <3>9. IsOpen(heap'[i]) => heap'[heap'[i].on].kind = "thread" /\ heap'[i].slot \in 1 .. Room(heap'[i].on) /\ heap'[i].mark # "black"
      <4> SUFFICES ASSUME IsOpen(heap'[i])
                   PROVE  heap'[heap'[i].on].kind = "thread" /\ heap'[i].slot \in 1 .. Room(heap'[i].on) /\ heap'[i].mark # "black"
        OBVIOUS
      <4>1. IsOpen(heap[i]) /\ heap[i].on \in Ids /\ heap[i].kind = "upval"
        BY <1>2, <1>9, RefsAre DEF IsOpen
      <4>2. i \notin strings
        BY <4>1, <1>4
      <4>3. heap'[i].mark = heap[i].mark
        BY <4>2, <1>6
      <4>4. heap'[heap[i].on].kind = heap[heap[i].on].kind
        BY <4>1, <1>6
      <4> QED
        BY <3>1, <3>3, <4>1, <4>3, <4>4 DEF ShapedAt
    <3> QED
      BY <3>1, <3>3, <3>5, <3>6, <3>7, <3>8, <3>9, <1>9 DEF ShapedAt
  <2>2. Shaped(heap', stack)
    <3>1. Main \in Ids
      BY <1>2 DEF Main, Ids
    <3>2. heap'[Main].kind = "thread"
      BY <3>1, <1>2, <1>6 DEF Shaped
    <3> HIDE DEF cleared
    <3> QED
      BY <2>1, <3>2, <1>2, <1>7 DEF Shaped
  <2> QED
    BY <1>1, <2>2 DEF Shaped, ShapedAt
<1>20. StringsOk(heap)'
  <2>1. \A i \in Ids : heap'[i].kind = heap[i].kind /\ heap'[i].mode = heap[i].mode
    BY <1>6
  <2> QED
    BY <2>1, <1>2 DEF StringsOk, Of
<1>21. garbage' \subseteq Ids /\ GarbageOk(heap, stack, {})'
  <2>1. \A i \in garbage : i \in Ids /\ heap'[i].kind # "unborn" /\ i \notin strings
    <3>1. \A i \in garbage : i \in Ids /\ heap[i].kind # "unborn"
      BY <1>2 DEF HeapTypes, HeapInv, GarbageOk
    <3>2. \A i \in strings : i \notin garbage
      <4> SUFFICES ASSUME NEW i \in strings PROVE i \notin garbage
        OBVIOUS
      <4>1. PICK j \in weak : i \in Tested(heap[j])
        BY <1>4
      <4>2. j \in Ids /\ heap[j].kind = "table" /\ heap[j].mark = "gray" /\ j \notin garbage /\ Alive(heap[j])
        BY <1>2, <1>4 DEF IsWhite, Alive
      <4>3. i \in Entry(heap[j]) /\ IsString(heap, i)
        BY <4>1, <4>2, <1>4 DEF Tested, Entry, IsString
      <4>4. i \in RefsOf(heap, stack, j)
        BY <4>2, <4>3, <1>2, RefsAre
      <4> QED
        BY <4>2, <4>4 DEF HeapInv, GarbageOk
    <3> QED
      BY <3>1, <3>2, <1>6
  <2>2. \A i \in Ids : RefsOf(heap', stack, i) \subseteq RefsOf(heap, stack, i)
    <3> HIDE DEF cleared
    <3> QED
      BY <1>11, <1>12
  <2>3. \A i \in Ids \ garbage : Alive(heap'[i]) => RefsOf(heap', stack', i) \cap garbage \subseteq {}
    BY <2>2, <1>1, <1>9 DEF HeapInv, GarbageOk
  <2>4. \A i \in garbage : Alive(heap'[i]) => heap'[i].mark = Other(cw')
    <3>1. \A i \in garbage : Alive(heap'[i]) => heap[i].mark = cw /\ heap'[i].mark = heap[i].mark
      BY <2>1, <1>2, <1>6, <1>9 DEF IsWhite
    <3> QED
      BY <3>1, <1>1, <1>3
  <2>5. tmudata' \in SUBSET Ids /\ garbage \subseteq Ids /\ gcstate' # "propagate"
    BY <1>1, <1>2 DEF HeapTypes
  <2> QED
    BY <1>1, <1>2, <2>1, <2>3, <2>4, <2>5, GarbageNoted
<1>22. HeapTypes'
  <2>1. unswept' \subseteq Ids
    BY <1>1 DEF Of
  <2> QED
    BY <2>1, <1>1, <1>2, <1>3, <1>21 DEF HeapTypes
<1>23. ColourInv'
  BY <1>1 DEF ColourInv
<1> QED
  BY <1>16, <1>17, <1>18, <1>19, <1>20, <1>21, <1>22, <1>23 DEF HeapInv

--------------------------------------------------------------------------
(* The sweep. *)
Reached(is) == is \cup OpenOf(is \cap Of(heap, "thread"))
(* sweepwholelist and sweeplist, object by object (lgc.c:404-428). *)
LEMMA SweptIs ==
  ASSUME HeapInstance, HeapInv, NEW is \in SUBSET Ids
  PROVE  /\ Swept(is) \in [Ids -> Objects]
         /\ \A i \in Ids :
              /\ Swept(is)[i].mode = heap[i].mode /\ Swept(is)[i].key = heap[i].key /\ Swept(is)[i].slot = heap[i].slot
              /\ heap[i].fin => Swept(is)[i].fin
              /\ i \notin Reached(is) => Swept(is)[i] = heap[i]
              /\ i \in Reached(is) /\ Goes(i) => Swept(is)[i].kind = "freed"
              /\ i \in Reached(is) /\ ~ Goes(i) => Swept(is)[i].mark = cw
              /\ ~ (i \in Reached(is) /\ Goes(i)) => Swept(is)[i].kind = heap[i].kind
              /\ i \in Reached(is) /\ ~ Goes(i) /\ IsOpen(heap[i]) /\ Goes(heap[i].on) => Swept(is)[i].val = Value(heap[i]) /\ Swept(is)[i].on = Nil
              /\ ~ (i \in Reached(is) /\ ~ Goes(i) /\ IsOpen(heap[i]) /\ Goes(heap[i].on)) =>
                   Swept(is)[i].val = heap[i].val /\ Swept(is)[i].on = heap[i].on
<1> DEFINE h2 == Swept(is)
<1> DEFINE reached == Reached(is)
<1>1. h2 = [i \in Ids |->
         IF i \notin reached THEN heap[i]
         ELSE IF Goes(i) THEN [heap[i] EXCEPT !.kind = "freed"]
         ELSE IF IsOpen(heap[i]) /\ Goes(heap[i].on)
              THEN [heap[i] EXCEPT !.mark = cw, !.val = Value(heap[i]), !.on = Nil]
         ELSE [heap[i] EXCEPT !.mark = cw]]
  BY DEF Swept, Reached
<1> HIDE DEF h2, reached
<1>2. MaxObjects \in Nat /\ Shaped(heap, stack) /\ heap \in [Ids -> Objects] /\ cw \in {"w0", "w1"}
  BY DEF HeapInstance, HeapInv, HeapTypes, Shaped
<1>3. ASSUME NEW i \in Ids
      PROVE  /\ h2[i] \in Objects
             /\ h2[i].mode = heap[i].mode /\ h2[i].key = heap[i].key /\ h2[i].slot = heap[i].slot
             /\ heap[i].fin => h2[i].fin
             /\ i \notin reached => h2[i] = heap[i]
             /\ i \in reached /\ Goes(i) => h2[i].kind = "freed"
             /\ i \in reached /\ ~ Goes(i) => h2[i].mark = cw
             /\ ~ (i \in reached /\ Goes(i)) => h2[i].kind = heap[i].kind
             /\ i \in reached /\ ~ Goes(i) /\ IsOpen(heap[i]) /\ Goes(heap[i].on) => h2[i].val = Value(heap[i]) /\ h2[i].on = Nil
             /\ ~ (i \in reached /\ ~ Goes(i) /\ IsOpen(heap[i]) /\ Goes(heap[i].on)) =>
                  h2[i].val = heap[i].val /\ h2[i].on = heap[i].on
  <2>1. heap[i] \in Objects
    BY <1>2
  <2>2. CASE i \notin reached
    <3>1. h2[i] = heap[i]
      BY <1>1, <2>2
    <3> QED
      BY <2>1, <2>2, <3>1
  <2>3. CASE i \in reached /\ Goes(i)
    <3>1. h2[i] = [heap[i] EXCEPT !.kind = "freed"]
      BY <1>1, <2>3
    <3> QED
      BY <2>1, <2>3, <3>1 DEF Objects, ObjectKinds
  <2>4. CASE i \in reached /\ ~ Goes(i) /\ IsOpen(heap[i]) /\ Goes(heap[i].on)
    <3>1. h2[i] = [heap[i] EXCEPT !.mark = cw, !.val = Value(heap[i]), !.on = Nil]
      BY <1>1, <2>4
    <3>2. Value(heap[i]) \in Refs
      <4>1. heap[i].on \in Ids /\ heap[i].slot \in 1 .. Len(stack[heap[i].on]) /\ stack[heap[i].on] \in Seq(Refs)
        BY <2>4, <1>2, RefsAre DEF Shaped
      <4> QED
        BY <4>1, <2>4 DEF Value
    <3> QED
      BY <2>1, <2>4, <3>1, <3>2, <1>2 DEF Objects
  <2>5. CASE i \in reached /\ ~ Goes(i) /\ ~ (IsOpen(heap[i]) /\ Goes(heap[i].on))
    <3>1. h2[i] = [heap[i] EXCEPT !.mark = cw]
      BY <1>1, <2>5
    <3> QED
      BY <2>1, <2>5, <3>1, <1>2 DEF Objects
  <2> QED
    BY <2>2, <2>3, <2>4, <2>5
<1>4. h2 = [i \in Ids |-> h2[i]]
  BY <1>1
<1>5. h2 \in [Ids -> Objects]
  BY <1>3, <1>4
<1> QED
  BY <1>3, <1>5 DEF h2, reached

(* A step of the sweep frees what has the other white and nothing else. *)
LEMMA SweepStep ==
  ASSUME HeapInstance, HeapInv, gcstate \in {"sweepstring", "sweep"}, NEW is \in SUBSET Ids, heap' = Swept(is),
         UNCHANGED <<program, stack, cw, atomic, Lists, tmudata, full, ops, gced>>, Note,
         unswept' \subseteq Ids, gcstate' \in {"sweep", "finalize"}
  PROVE  /\ HeapTypes' /\ Shaped(heap, stack)' /\ Whole(heap, stack, cw, tmudata)' /\ FinalOk(heap)'
         /\ StringsOk(heap)' /\ ColourInv' /\ GarbageOk(heap, stack, {})'
         /\ \A i \in Ids : /\ heap'[i].kind \in {heap[i].kind, "freed"}
                           /\ i \in is /\ Alive(heap'[i]) => heap'[i].mark = cw
                           /\ Alive(heap'[i]) => heap'[i].mark \in {heap[i].mark, cw}
                           /\ IsOpen(heap'[i]) => IsOpen(heap[i]) /\ heap'[i].on = heap[i].on
                           /\ IsOpen(heap[i]) /\ Alive(heap'[i]) /\ (i \in is \/ heap[i].on \in is) => heap'[i].mark = cw
                           /\ IsOpen(heap[i]) /\ ~ IsOpen(heap'[i]) /\ Alive(heap'[i]) => heap'[i].mark = cw
<1> DEFINE reached == Reached(is)
<1>1. MaxObjects \in Nat /\ Shaped(heap, stack) /\ heap \in [Ids -> Objects] /\ cw \in {"w0", "w1"} /\ HeapTypes
  BY DEF HeapInstance, HeapInv, HeapTypes, Shaped
<1>2. /\ heap' \in [Ids -> Objects]
      /\ \A i \in Ids :
           /\ heap'[i].mode = heap[i].mode /\ heap'[i].key = heap[i].key /\ heap'[i].slot = heap[i].slot
           /\ heap[i].fin => heap'[i].fin
           /\ i \notin reached => heap'[i] = heap[i]
           /\ i \in reached /\ Goes(i) => heap'[i].kind = "freed"
           /\ i \in reached /\ ~ Goes(i) => heap'[i].mark = cw
           /\ ~ (i \in reached /\ Goes(i)) => heap'[i].kind = heap[i].kind
           /\ i \in reached /\ ~ Goes(i) /\ IsOpen(heap[i]) /\ Goes(heap[i].on) => heap'[i].val = Value(heap[i]) /\ heap'[i].on = Nil
           /\ ~ (i \in reached /\ ~ Goes(i) /\ IsOpen(heap[i]) /\ Goes(heap[i].on)) =>
                heap'[i].val = heap[i].val /\ heap'[i].on = heap[i].on
  <2> USE SweptIs
  <2> QED
    BY DEF reached
<1>3. \A i \in Ids : IsOpen(heap[i]) /\ heap[i].on \in is => i \in reached
  BY <1>1, RefsAre DEF OpenOf, Of, Reached
<1>4. \A i \in reached : i \in is \/ IsOpen(heap[i])
  BY DEF OpenOf, Reached
<1> HIDE DEF reached
<1>5. \A i \in Ids : heap'[i].kind \in {heap[i].kind, "freed"}
  BY <1>2
<1>6. \A i \in Ids : Alive(heap'[i]) => Alive(heap[i]) /\ heap'[i].kind = heap[i].kind /\ ~ (i \in reached /\ Goes(i))
  BY <1>2 DEF Alive
<1>7. \A i \in Ids : NotDead(heap', cw, i) <=> NotDead(heap, cw, i)
  <2>1. ASSUME NEW i \in Ids, NotDead(heap', cw, i) PROVE NotDead(heap, cw, i)
    <3>1. CASE i \in reached
      <4>1. ~ Goes(i)
        BY <2>1, <3>1, <1>6 DEF NotDead
      <4> QED
        BY <2>1, <4>1, <1>6 DEF NotDead, Goes, IsDead, HeapInv, Whole
    <3>2. CASE i \notin reached
      BY <2>1, <3>2, <1>2 DEF NotDead
    <3> QED
      BY <3>1, <3>2
  <2>2. ASSUME NEW i \in Ids, NotDead(heap, cw, i) PROVE NotDead(heap', cw, i)
    <3>1. ~ Goes(i)
      BY <2>2 DEF NotDead, Goes, IsDead
    <3>2. Other(cw) # cw
      BY <1>1, OtherIs
    <3> QED
      BY <2>2, <3>1, <3>2, <1>2 DEF NotDead, Alive
  <2> QED
    BY <2>1, <2>2
<1>8. ASSUME NEW i \in Ids, IsOpen(heap'[i])
      PROVE  /\ IsOpen(heap[i]) /\ heap'[i].on = heap[i].on /\ heap[i].on \in Ids
             /\ heap'[heap[i].on].kind = "thread"
  <2>1. heap'[i].kind = "upval" /\ heap'[i].on # Nil /\ Alive(heap'[i])
    BY <1>8 DEF IsOpen, Alive
  <2>2. heap[i].kind = "upval" /\ ~ (i \in reached /\ Goes(i))
    BY <2>1, <1>6
  <2>3. heap'[i].on = heap[i].on
    BY <2>1, <1>2
  <2>4. IsOpen(heap[i]) /\ heap[i].on \in Ids /\ heap[heap[i].on].kind = "thread"
    BY <2>1, <2>2, <2>3, <1>1, RefsAre DEF IsOpen
  <2>5. heap'[heap[i].on].kind = "thread"
    <3> SUFFICES ASSUME heap[i].on \in reached, Goes(heap[i].on) PROVE FALSE
      BY <2>4, <1>2
    <3>1. heap[i].on \in is
      BY <2>4, <1>4 DEF IsOpen
    <3>2. i \in reached
      BY <2>4, <3>1, <1>3
    <3> QED
      BY <2>1, <2>2, <2>4, <3>2, <1>2
  <2> QED
    BY <2>3, <2>4, <2>5
<1>9. ASSUME NEW i \in Ids, Alive(heap'[i])
      PROVE  RefsOf(heap', stack, i) \subseteq RefsOf(heap, stack, i) /\ AllRefs(heap', stack, i) \subseteq AllRefs(heap, stack, i)
  <2>1. heap'[i].kind = heap[i].kind /\ heap'[i].mode = heap[i].mode /\ heap'[i].key = heap[i].key /\ ~ (i \in reached /\ Goes(i))
    BY <1>2, <1>6, <1>9
  <2>2. CASE heap[i].kind = "upval"
    <3>1. CASE i \in reached /\ ~ Goes(i) /\ IsOpen(heap[i]) /\ Goes(heap[i].on)
      <4>1. heap'[i].val = Value(heap[i]) /\ ~ IsOpen(heap'[i])
        BY <3>1, <1>2 DEF IsOpen
      <4> QED
        BY <2>1, <2>2, <4>1, <3>1 DEF RefsOf, AllRefs, Entry, Value
    <3>2. CASE ~ (i \in reached /\ ~ Goes(i) /\ IsOpen(heap[i]) /\ Goes(heap[i].on))
      <4>1. heap'[i].val = heap[i].val /\ heap'[i].on = heap[i].on /\ heap'[i].slot = heap[i].slot
        BY <3>2, <1>2
      <4> QED
        BY <2>1, <2>2, <4>1 DEF RefsOf, AllRefs, Entry, IsOpen
    <3> QED
      BY <3>1, <3>2
  <2>3. CASE heap[i].kind = "table"
    <3>1. heap'[i].val = heap[i].val
      BY <2>3, <1>2 DEF IsOpen
    <3>2. Strong(heap'[i]) = Strong(heap[i]) /\ Entry(heap'[i]) = Entry(heap[i])
      BY <2>1, <3>1 DEF Strong, Entry, WeakKey, WeakValue
    <3>3. \A r : IsString(heap', r) => IsString(heap, r)
      BY <1>5 DEF IsString
    <3> QED
      BY <2>1, <2>3, <3>2, <3>3 DEF RefsOf, AllRefs
  <2>4. CASE heap[i].kind \notin {"upval", "table"}
    <3>1. heap'[i].val = heap[i].val
      BY <2>4, <1>2 DEF IsOpen
    <3> QED
      BY <2>1, <2>4, <3>1 DEF RefsOf, AllRefs, Entry
  <2> QED
    BY <2>2, <2>3, <2>4
<1>10. Shaped(heap, stack)'
  <2>1. \A r : IsValue(heap, r) => IsValue(heap', r)
    BY <1>5 DEF IsValue
  <2>2. ASSUME NEW i \in Ids PROVE ShapedAt(heap', stack, i)
    <3>1. ShapedAt(heap, stack, i) /\ heap[i] \in Objects
      BY <1>1 DEF Shaped
    <3>2. heap'[i].kind = heap[i].kind \/ heap'[i].kind = "freed"
      BY <1>5
    <3>3. heap[i].kind # "upval" => heap'[i].val = heap[i].val
      BY <1>2 DEF IsOpen
    <3>4. heap'[i].kind = "upval" => IsValue(heap', heap'[i].val)
      <4> SUFFICES ASSUME heap[i].kind = "upval" PROVE IsValue(heap', heap'[i].val)
        BY <3>2
      <4>1. CASE IsOpen(heap[i]) /\ heap'[i].val = Value(heap[i])
        <5>1. heap[i].on \in Ids /\ heap[i].slot \in 1 .. Len(stack[heap[i].on]) /\ stack[heap[i].on] \in Seq(Refs)
          BY <4>1, <1>1, RefsAre DEF Shaped
        <5>2. IsValue(heap, stack[heap[i].on][heap[i].slot])
          BY <5>1, <1>1 DEF Shaped, ShapedAt
        <5> QED
          BY <4>1, <5>2, <2>1 DEF Value
      <4>2. CASE heap'[i].val = heap[i].val
        BY <4>2, <3>1, <2>1 DEF ShapedAt
      <4> QED
        BY <4>1, <4>2, <1>2
    <3>5. heap[i].val \in Ids => heap'[heap[i].val].kind \in {heap[heap[i].val].kind, "freed"}
      BY <1>5
    <3>6. heap[i].val # Nil => heap[i].val \in Ids
      BY <3>1 DEF Objects, Refs, Ids
    <3>7. IsOpen(heap'[i]) => heap'[heap'[i].on].kind = "thread" /\ heap'[i].slot \in 1 .. Room(heap'[i].on) /\ heap'[i].mark # "black"
      <4> SUFFICES ASSUME IsOpen(heap'[i])
                   PROVE  heap'[heap'[i].on].kind = "thread" /\ heap'[i].slot \in 1 .. Room(heap'[i].on) /\ heap'[i].mark # "black"
        OBVIOUS
      <4>1. heap'[i].on = heap[i].on /\ IsOpen(heap[i]) /\ heap'[heap'[i].on].kind = "thread" /\ heap'[i].slot = heap[i].slot
        BY <1>2, <1>8
      <4>2. heap'[i].mark \in {heap[i].mark, cw}
        BY <1>2, <1>6, <4>1 DEF IsOpen, Alive
      <4> QED
        BY <3>1, <4>1, <4>2, <1>1 DEF ShapedAt
    <3>8. heap'[i].key = heap[i].key
      BY <1>2
    <3> QED
      BY <3>1, <3>2, <3>3, <3>4, <3>5, <3>6, <3>7, <3>8, <2>1 DEF ShapedAt
  <2>3. heap'[Main].kind = "thread"
    <3>1. Main \in Ids /\ ~ Goes(Main) /\ heap[Main].kind = "thread"
      BY <1>1 DEF Goes, Main, Ids, Shaped
    <3> QED
      BY <3>1, <1>2
  <2>4. Shaped(heap', stack)
    BY <2>2, <2>3, <1>1, <1>2 DEF Shaped
  <2> QED
    BY <2>4 DEF Shaped, ShapedAt
<1>11. Whole(heap, stack, cw, tmudata)'
  <2>1. \A i \in Ids : NotDead(heap', cw, i) => \A r \in AllRefs(heap', stack, i) \cap Ids : NotDead(heap', cw, r)
    BY <1>7, <1>9 DEF HeapInv, Whole, NotDead
  <2>2. NotDead(heap', cw, Main) /\ \A u \in tmudata : NotDead(heap', cw, u)
    <3>1. Main \in Ids /\ tmudata \subseteq Ids
      BY <1>1 DEF Main, Ids, HeapTypes
    <3> QED
      BY <3>1, <1>7 DEF HeapInv, Whole
  <2>3. Whole(heap', stack, cw, tmudata)
    BY <2>1, <2>2 DEF Whole
  <2> QED
    BY <2>3 DEF Whole, NotDead, AllRefs
<1>12. FinalOk(heap)'
  <2>0. FinalOk(heap) /\ tmudata \subseteq Ids /\ atomic # "tmudata"
    BY DEF HeapInv, HeapTypes, PhaseInv
  <2>1. \A u \in tmudata : heap'[u].kind = "userdata" /\ heap'[u].fin /\ heap'[u].mark \in {cw, "black"} /\ gced[u] = 0
    <3> SUFFICES ASSUME NEW u \in tmudata
                 PROVE  heap'[u].kind = "userdata" /\ heap'[u].fin /\ heap'[u].mark \in {cw, "black"} /\ gced[u] = 0
      OBVIOUS
    <3>1. u \in Ids /\ heap[u].kind = "userdata" /\ heap[u].mark \in {cw, "black"} /\ heap[u].fin /\ gced[u] = 0
      BY <2>0 DEF FinalOk
    <3>2. ~ Goes(u)
      BY <3>1, <1>1, OtherIs DEF Goes, IsDead, Other
    <3> QED
      BY <3>1, <3>2, <1>2
  <2>2. \A j \in Ids : gced[j] # 0 => heap'[j].fin /\ heap'[j].kind # "unborn"
    BY <2>0, <1>2, <1>5 DEF FinalOk
  <2> QED
    BY <2>0, <2>1, <2>2 DEF FinalOk
<1>13. StringsOk(heap)'
  <2>1. \A i \in Of(heap', "string") : i \in Of(heap, "string") /\ heap'[i].mode = heap[i].mode
    BY <1>2, <1>5 DEF Of
  <2> QED
    BY <2>1 DEF StringsOk, HeapInv, Of
<1>14. garbage' \subseteq Ids /\ GarbageOk(heap, stack, {})'
  <2>1. garbage \subseteq Ids /\ tmudata' \in SUBSET Ids
    BY <1>1 DEF HeapTypes
  <2>2. \A i \in garbage : heap'[i].kind # "unborn"
    BY <2>1, <1>5 DEF HeapInv, GarbageOk
  <2>3. \A i \in Ids \ garbage : Alive(heap'[i]) => RefsOf(heap', stack', i) \cap garbage \subseteq {}
    BY <1>6, <1>9 DEF HeapInv, GarbageOk
  <2>4. full' # "sweep" => \A i \in garbage : Alive(heap'[i]) => heap'[i].mark = Other(cw')
    <3> SUFFICES ASSUME full # "sweep", NEW i \in garbage, Alive(heap'[i]) PROVE heap'[i].mark = Other(cw)
      OBVIOUS
    <3>1. i \in Ids /\ Alive(heap[i]) /\ ~ (i \in reached /\ Goes(i)) /\ i # Main
      BY <2>1, <1>6 DEF HeapInv, GarbageOk
    <3>2. Goes(i) /\ heap[i].mark = Other(cw)
      BY <3>1 DEF HeapInv, GarbageOk, Goes, IsDead
    <3> QED
      BY <3>1, <3>2, <1>2
  <2> QED
    BY <1>1, <2>1, <2>2, <2>3, <2>4, GarbageNoted
<1>15. HeapTypes' /\ ColourInv'
  BY <1>1, <1>14 DEF HeapTypes, Lists, ColourInv
<1>16. ASSUME NEW i \in Ids
       PROVE /\ i \in is /\ Alive(heap'[i]) => heap'[i].mark = cw
             /\ Alive(heap'[i]) => heap'[i].mark \in {heap[i].mark, cw}
             /\ IsOpen(heap[i]) /\ Alive(heap'[i]) /\ (i \in is \/ heap[i].on \in is) => heap'[i].mark = cw
             /\ IsOpen(heap[i]) /\ ~ IsOpen(heap'[i]) /\ Alive(heap'[i]) => heap'[i].mark = cw
  <2>1. i \in is => i \in reached
    BY DEF reached, Reached
  <2>2. i \in reached /\ Alive(heap'[i]) => heap'[i].mark = cw
    BY <1>2, <1>6
  <2>3. Alive(heap'[i]) => heap'[i].mark \in {heap[i].mark, cw}
    BY <1>2, <1>6
  <2>4. IsOpen(heap[i]) /\ ~ IsOpen(heap'[i]) /\ Alive(heap'[i]) => i \in reached
    BY <1>2
  <2> QED
    BY <2>1, <2>2, <2>3, <2>4, <1>3
<1> QED
  BY <1>5, <1>8, <1>10, <1>11, <1>12, <1>13, <1>14, <1>15, <1>16

(* GCSsweepstring: the strings. *)
LEMMA SweepStringOk == ASSUME HeapInstance, HeapInv, SweepString PROVE HeapInv'
<1> DEFINE is == unswept
<1>1. /\ gcstate = "sweepstring" /\ heap' = Swept(is)
      /\ gcstate' = "sweep" /\ unswept' = Sweepable(heap')
      /\ UNCHANGED <<program, stack, cw, atomic, Lists, tmudata, full, ops, gced>> /\ Note
  BY DEF SweepString
<1>2. is \in SUBSET Ids /\ atomic = "no"
  BY <1>1 DEF HeapInv, HeapTypes, PhaseInv
<1>3. unswept' \subseteq Ids
  BY <1>1 DEF Sweepable
<1> HIDE DEF is
<1>4. /\ HeapTypes' /\ Shaped(heap, stack)' /\ Whole(heap, stack, cw, tmudata)' /\ FinalOk(heap)'
      /\ StringsOk(heap)' /\ ColourInv' /\ GarbageOk(heap, stack, {})'
      /\ \A i \in Ids : /\ heap'[i].kind \in {heap[i].kind, "freed"}
                        /\ i \in is /\ Alive(heap'[i]) => heap'[i].mark = cw
                        /\ Alive(heap'[i]) => heap'[i].mark \in {heap[i].mark, cw}
  BY <1>1, <1>2, <1>3, SweepStep
<1>5. \A i \in Ids : heap'[i].kind = "string" => heap'[i].mark = cw
  <2> SUFFICES ASSUME NEW i \in Ids, heap'[i].kind = "string" PROVE heap'[i].mark = cw
    OBVIOUS
  <2>1. heap[i].kind = "string" /\ Alive(heap'[i])
    BY <1>4 DEF Alive
  <2>2. heap[i].mark = cw \/ i \in is
    BY <2>1, <1>1 DEF HeapInv, PhaseInv, PhaseOk, is
  <2> QED
    BY <2>1, <2>2, <1>4
<1>6. ASSUME NEW i \in Ids, Alive(heap'[i]), heap'[i].mark # cw, i \notin tmudata
      PROVE  (IF IsOpen(heap'[i]) THEN heap'[i].on ELSE i) \in unswept'
  <2>1. CASE IsOpen(heap'[i])
    <3>1. heap'[i].on \in Ids /\ heap'[heap'[i].on].kind = "thread"
      <4>1. MaxObjects \in Nat /\ Shaped(heap', stack)
        <5>1. MaxObjects \in Nat /\ stack' = stack
          BY <1>1 DEF HeapInstance
        <5> QED
          BY <1>4, <5>1 DEF Shaped, ShapedAt
      <4> QED
        BY <2>1, <4>1, RefsAre
    <3>2. heap'[i].on \notin tmudata
      BY <3>1, <1>4, <1>1 DEF FinalOk
    <3> QED
      BY <2>1, <3>1, <3>2, <1>1 DEF Sweepable, Alive, IsOpen
  <2>2. CASE ~ IsOpen(heap'[i])
    BY <2>2, <1>1, <1>5, <1>6 DEF Sweepable
  <2> QED
    BY <2>1, <2>2
<1>7. PhaseInv'
  BY <1>1, <1>2, <1>5, <1>6 DEF PhaseInv, PhaseOk, Settled
<1> QED
  BY <1>4, <1>7 DEF HeapInv

(* GCSsweep: some of the objects of rootgc. *)
LEMMA SweepOk == ASSUME HeapInstance, HeapInv, Sweep PROVE HeapInv'
<1> DEFINE is == NextToSweep
<1>1. /\ gcstate = "sweep" /\ heap' = Swept(is) /\ unswept' = unswept \ is
      /\ gcstate' = IF unswept' = {} THEN "finalize" ELSE gcstate
      /\ UNCHANGED <<program, stack, cw, atomic, Lists, tmudata, full, ops, gced>> /\ Note
  BY DEF Sweep
<1>2. unswept \subseteq Ids /\ is \in SUBSET Ids /\ atomic = "no"
  BY <1>1 DEF HeapInv, HeapTypes, PhaseInv, NextToSweep
<1>3. unswept' \subseteq Ids /\ gcstate' \in {"sweep", "finalize"}
  BY <1>1, <1>2
<1> HIDE DEF is
<1>4. /\ HeapTypes' /\ Shaped(heap, stack)' /\ Whole(heap, stack, cw, tmudata)' /\ FinalOk(heap)'
      /\ StringsOk(heap)' /\ ColourInv' /\ GarbageOk(heap, stack, {})'
      /\ \A i \in Ids : /\ heap'[i].kind \in {heap[i].kind, "freed"}
                        /\ i \in is /\ Alive(heap'[i]) => heap'[i].mark = cw
                        /\ Alive(heap'[i]) => heap'[i].mark \in {heap[i].mark, cw}
                        /\ IsOpen(heap'[i]) => IsOpen(heap[i]) /\ heap'[i].on = heap[i].on
                        /\ IsOpen(heap[i]) /\ Alive(heap'[i]) /\ (i \in is \/ heap[i].on \in is) => heap'[i].mark = cw
                        /\ IsOpen(heap[i]) /\ ~ IsOpen(heap'[i]) /\ Alive(heap'[i]) => heap'[i].mark = cw
  BY <1>1, <1>2, <1>3, SweepStep
<1>5. \A i \in Ids : heap'[i].kind = "string" => heap'[i].mark = cw
  <2> SUFFICES ASSUME NEW i \in Ids, heap'[i].kind = "string" PROVE heap'[i].mark = cw
    OBVIOUS
  <2>1. heap[i].kind = "string" /\ Alive(heap'[i])
    BY <1>4 DEF Alive
  <2>2. heap[i].mark = cw
    BY <2>1, <1>1 DEF HeapInv, PhaseInv, PhaseOk
  <2> QED
    BY <2>1, <2>2, <1>4
<1>6. ASSUME NEW i \in Ids, Alive(heap'[i])
      PROVE  i \in tmudata \/ heap'[i].mark = cw \/ (IF IsOpen(heap'[i]) THEN heap'[i].on ELSE i) \in unswept'
  <2>1. Alive(heap[i])
    BY <1>4, <1>6 DEF Alive
  <2>2. i \in tmudata \/ heap[i].mark = cw \/ (IF IsOpen(heap[i]) THEN heap[i].on ELSE i) \in unswept
    BY <2>1, <1>1 DEF HeapInv, PhaseInv, PhaseOk, Settled
  <2>3. CASE IsOpen(heap[i])
    BY <1>1, <1>4, <1>6, <2>2, <2>3
  <2>4. CASE ~ IsOpen(heap[i])
    BY <1>1, <1>4, <1>6, <2>2, <2>4
  <2> QED
    BY <2>3, <2>4
<1>7. PhaseInv'
  <2>1. CASE unswept' = {}
    BY <2>1, <1>1, <1>2, <1>6 DEF PhaseInv, PhaseOk, Settled
  <2>2. CASE unswept' # {}
    BY <2>2, <1>1, <1>2, <1>5, <1>6 DEF PhaseInv, PhaseOk, Settled
  <2> QED
    BY <2>1, <2>2
<1> QED
  BY <1>4, <1>7 DEF HeapInv

(* The collection ends when there is nothing to finalize. *)
LEMMA EndCollectionOk == ASSUME HeapInstance, HeapInv, EndCollection PROVE HeapInv'
<1>1. /\ gcstate = "finalize" /\ full # "sweep" /\ tmudata = {} /\ gcstate' = "pause" /\ full' = "no"
      /\ UNCHANGED <<program, heap, stack, cw, atomic, gray, grayagain, weak, unswept, tmudata, ops, gced>> /\ Note
  BY DEF EndCollection, Lists
<1>2. MaxObjects \in Nat /\ HeapTypes /\ GarbageOk(heap, stack, {}) /\ PhaseInv /\ FinalOk(heap) /\ atomic = "no"
  BY <1>1 DEF HeapInstance, HeapInv, PhaseInv
<1>3. garbage' \subseteq Ids /\ GarbageOk(heap, stack, {})'
  <2>1. \A i \in Ids \ garbage : Alive(heap'[i]) => RefsOf(heap', stack', i) \cap garbage \subseteq {}
    BY <1>1, <1>2 DEF GarbageOk
  <2>2. \A i \in garbage : heap'[i].kind # "unborn"
    BY <1>1, <1>2 DEF GarbageOk
  <2>3. \A i \in garbage : Alive(heap'[i]) => heap'[i].mark = Other(cw')
    BY <1>1, <1>2 DEF GarbageOk
  <2> QED
    BY <1>1, <1>2, <2>1, <2>2, <2>3, GarbageNoted DEF HeapTypes
<1>4. PhaseInv'
  BY <1>1, <1>2 DEF PhaseInv, PhaseOk, Settled
<1>5. HeapTypes' /\ FinalOk(heap)' /\ ColourInv'
  BY <1>1, <1>2, <1>3 DEF HeapTypes, FinalOk, ColourInv
<1>6. (Shaped(heap, stack) /\ StringsOk(heap) /\ Whole(heap, stack, cw, tmudata))'
  BY <1>1 DEF HeapInv, Shaped, ShapedAt, StringsOk, Whole, NotDead, AllRefs, RefsOf
<1> QED
  BY <1>3, <1>4, <1>5, <1>6 DEF HeapInv

(* lua_gc(LUA_GCCOLLECT) in the middle of a collection first sweeps with the old white. *)
LEMMA FullGcOk == ASSUME HeapInstance, HeapInv, FullGc PROVE HeapInv'
<1>1. /\ full' = "sweep" /\ Runs
      /\ UNCHANGED <<program, heap, stack, cw, atomic, tmudata, gced>> /\ Note
      /\ \/ /\ gcstate \in {"pause", "propagate"}
            /\ gray' = {} /\ grayagain' = {} /\ weak' = {} /\ gcstate' = "sweepstring" /\ unswept' = Of(heap, "string")
         \/ /\ gcstate \notin {"pause", "propagate"} /\ UNCHANGED <<gray, grayagain, weak, gcstate, unswept>>
  BY DEF FullGc, Lists
<1>2. MaxObjects \in Nat /\ HeapTypes /\ GarbageOk(heap, stack, {}) /\ PhaseInv /\ FinalOk(heap) /\ atomic = "no"
      /\ ops' \in 0 .. program.ops
  BY <1>1 DEF HeapInstance, HeapInv, HeapTypes, PhaseInv, Runs
<1>3. garbage' \subseteq Ids /\ GarbageOk(heap, stack, {})'
  <2>1. \A i \in Ids \ garbage : Alive(heap'[i]) => RefsOf(heap', stack', i) \cap garbage \subseteq {}
    BY <1>1, <1>2 DEF GarbageOk
  <2>2. \A i \in garbage : heap'[i].kind # "unborn"
    BY <1>1, <1>2 DEF GarbageOk
  <2>3. gcstate' # "propagate" /\ full' = "sweep"
    BY <1>1
  <2> QED
    BY <1>1, <1>2, <2>1, <2>2, <2>3, GarbageNoted DEF HeapTypes
<1>4. PhaseInv'
  BY <1>1, <1>2 DEF PhaseInv, PhaseOk, Settled, Of
<1>5. HeapTypes' /\ FinalOk(heap)' /\ ColourInv'
  BY <1>1, <1>2, <1>3 DEF HeapTypes, FinalOk, ColourInv, Of
<1>6. (Shaped(heap, stack) /\ StringsOk(heap) /\ Whole(heap, stack, cw, tmudata))'
  BY <1>1 DEF HeapInv, Shaped, ShapedAt, StringsOk, Whole, NotDead, AllRefs, RefsOf
<1> QED
  BY <1>3, <1>4, <1>5, <1>6 DEF HeapInv

--------------------------------------------------------------------------
(* The mutator.  Its operations are made of changes after each of which the *)
(* heap h, the stacks st and the lists gr and ga are as they should be, but *)
(* that the objects in R may have come back into reach.                     *)
Ok(h, st, gr, ga, R) ==
  /\ Shaped(h, st) /\ Whole(h, st, cw, tmudata) /\ PhaseOk(h) /\ FinalOk(h) /\ StringsOk(h)
  /\ gcstate = "propagate" => Colours(h, st, gr, ga, weak, tmudata, atomic, {})
  /\ GarbageOk(h, st, R)
Context ==
  /\ MaxObjects \in Nat /\ Slots \in Nat /\ cw \in {"w0", "w1"} /\ atomic = "no"
  /\ tmudata \subseteq Ids /\ garbage \subseteq Ids
\* What may be put where a live object refers to it.
CanPut(h, v, R) == v \in Refs /\ (v # Nil => NotDead(h, cw, v) /\ IsValue(h, v) /\ (v \in garbage => v \in R))

(* Before an operation of the mutator the heap is as its steps want it. *)
LEMMA OkStart ==
  ASSUME HeapInstance, HeapInv, atomic = "no", NEW R
  PROVE  Context /\ Ok(heap, stack, gray, grayagain, R)
<1>1. Context
  BY DEF HeapInstance, HeapInv, HeapTypes, Context
<1>2. GarbageOk(heap, stack, R)
  BY DEF HeapInv, GarbageOk
<1> QED
  BY <1>1, <1>2 DEF Ok, HeapInv, PhaseInv, ColourInv

(* After the steps of an operation it is again, with what got back into reach taken off the garbage. *)
LEMMA OkEnd ==
  ASSUME HeapInstance, HeapInv, May(stack'), UNCHANGED weak, gray' \subseteq Ids, grayagain' \subseteq Ids,
         Ok(heap', stack', gray', grayagain', Reachable(heap', stack', tmudata))
  PROVE  HeapInv'
<1>1. /\ UNCHANGED <<program, cw, gcstate, atomic, unswept, tmudata, full, gced, weak>> /\ Note /\ Runs
      /\ MaxObjects \in Nat /\ HeapTypes /\ PhaseInv /\ full = "no" /\ atomic = "no" /\ ops' \in 0 .. program.ops
  BY DEF HeapInstance, HeapInv, HeapTypes, Runs, May
<1> DEFINE R == Reachable(heap', stack', tmudata)
<1>2. /\ Shaped(heap', stack') /\ Whole(heap', stack', cw, tmudata) /\ PhaseOk(heap') /\ FinalOk(heap') /\ StringsOk(heap')
      /\ gcstate = "propagate" => Colours(heap', stack', gray', grayagain', weak, tmudata, atomic, {})
      /\ GarbageOk(heap', stack', R)
  BY DEF Ok
<1>3. garbage' \subseteq Ids /\ GarbageOk(heap, stack, {})'
  <2>1. R = Reachable(heap', stack', tmudata')
    BY <1>1
  <2> HIDE DEF R
  <2>2. /\ \A i \in garbage : heap'[i].kind # "unborn"
        /\ \A i \in Ids \ garbage : Alive(heap'[i]) => RefsOf(heap', stack', i) \cap garbage \subseteq R
        /\ gcstate' = "propagate" => \A i \in garbage \ R : Alive(heap'[i]) => IsWhite(heap'[i])
        /\ gcstate' # "propagate" /\ full' # "sweep" => \A i \in garbage \ R : Alive(heap'[i]) => heap'[i].mark = Other(cw')
    BY <1>1, <1>2 DEF GarbageOk
  <2> QED
    BY <1>1, <2>1, <2>2, GarbageNoted DEF HeapTypes
<1> HIDE DEF R
<1>4. HeapTypes'
  BY <1>1, <1>3 DEF HeapTypes
<1>5. PhaseInv'
  BY <1>1, <1>2 DEF PhaseInv, PhaseOk, Settled
<1>6. (Shaped(heap, stack) /\ Whole(heap, stack, cw, tmudata) /\ StringsOk(heap))'
  BY <1>1, <1>2 DEF Shaped, ShapedAt, Whole, NotDead, AllRefs, StringsOk
<1>7. FinalOk(heap)'
  BY <1>1, <1>2 DEF FinalOk
<1>8. ColourInv'
  BY <1>1, <1>2 DEF ColourInv, Colours, BlackOk, ListsOk, Clear
<1> QED
  BY <1>3, <1>4, <1>5, <1>6, <1>7, <1>8 DEF HeapInv

\* A value is put on the stack of a thread.
LEMMA Put ==
  ASSUME Context, NEW h, NEW st, NEW gr, NEW ga, NEW R, Ok(h, st, gr, ga, R),
         NEW v, CanPut(h, v, R),
         NEW t \in Ids, h[t].kind = "thread", NEW st2 \in [Ids -> Seq(Refs)], Len(st2[t]) = Len(st[t]),
         \A j \in Ids \ {t} : st2[j] = st[j],
         \A n \in 1 .. Len(st[t]) : st2[t][n] \in {st[t][n], v}
  PROVE  Ok(h, st2, gr, ga, R)
<1>1. /\ MaxObjects \in Nat /\ Shaped(h, st) /\ Whole(h, st, cw, tmudata) /\ GarbageOk(h, st, R)
      /\ gcstate = "propagate" => Colours(h, st, gr, ga, weak, tmudata, atomic, {})
      /\ v \in Refs /\ (v # Nil => NotDead(h, cw, v) /\ IsValue(h, v) /\ (v \in garbage => v \in R))
  BY DEF Context, Ok, CanPut
<1>2. Nil \notin Ids /\ IsValue(h, v)
  BY <1>1 DEF Nil, Ids, IsValue
<1>3. ASSUME NEW j \in Ids, NEW n \in 1 .. Len(st[j])
      PROVE  st2[j][n] \in {st[j][n], v}
  <2>1. CASE j = t
    BY <2>1, <1>3
  <2>2. CASE j # t
    BY <2>2
  <2> QED
    BY <2>1, <2>2
<1>4. \A j \in Ids : Len(st2[j]) = Len(st[j]) /\ st[j] \in Seq(Refs) /\ st2[j] \in Seq(Refs)
  BY <1>1 DEF Shaped
<1>5. Shaped(h, st2)
  <2>1. ASSUME NEW i \in Ids PROVE ShapedAt(h, st2, i)
    <3>1. ShapedAt(h, st, i)
      BY <1>1 DEF Shaped
    <3>2. \A n \in DOMAIN st2[i] : IsValue(h, st2[i][n])
      <4> SUFFICES ASSUME NEW n \in 1 .. Len(st[i]) PROVE IsValue(h, st2[i][n])
        BY <1>4
      <4>1. IsValue(h, st[i][n])
        BY <3>1, <1>4 DEF ShapedAt
      <4> QED
        BY <4>1, <1>2, <1>3
    <3> QED
      BY <3>1, <3>2, <1>4 DEF ShapedAt
  <2> QED
    BY <2>1, <1>1 DEF Shaped
<1>6. ASSUME NEW i \in Ids
      PROVE  /\ RefsOf(h, st2, i) \subseteq RefsOf(h, st, i) \cup {v}
             /\ AllRefs(h, st2, i) \subseteq AllRefs(h, st, i) \cup {v}
             /\ h[i].kind # "thread" /\ ~ IsOpen(h[i]) => RefsOf(h, st2, i) = RefsOf(h, st, i)
  <2>1. CASE h[i].kind = "thread"
    <3>1. RefsOf(h, st2, i) = {st2[i][n] : n \in 1 .. Len(st2[i])} /\ RefsOf(h, st, i) = {st[i][n] : n \in 1 .. Len(st[i])}
      BY <2>1, <1>1, <1>5, RefsAre
    <3>2. RefsOf(h, st2, i) \subseteq RefsOf(h, st, i) \cup {v}
      BY <3>1, <1>3, <1>4
    <3> QED
      BY <2>1, <3>2 DEF AllRefs
  <2>2. CASE IsOpen(h[i])
    <3>1. h[i].on \in Ids /\ h[i].slot \in 1 .. Len(st[h[i].on]) /\ h[i].kind = "upval"
      BY <2>2, <1>1, RefsAre DEF IsOpen
    <3>2. RefsOf(h, st2, i) = {st2[h[i].on][h[i].slot]} /\ RefsOf(h, st, i) = {st[h[i].on][h[i].slot]}
      BY <2>2, <3>1, <1>1, <1>5, RefsAre
    <3>3. RefsOf(h, st2, i) \subseteq RefsOf(h, st, i) \cup {v}
      BY <3>1, <3>2, <1>3
    <3> QED
      BY <2>2, <3>3 DEF AllRefs
  <2>3. CASE h[i].kind # "thread" /\ ~ IsOpen(h[i])
    <3>1. RefsOf(h, st2, i) = RefsOf(h, st, i)
      BY <2>3 DEF RefsOf
    <3> QED
      BY <3>1 DEF AllRefs
  <2> QED
    BY <2>1, <2>2, <2>3
<1>7. Whole(h, st2, cw, tmudata)
  BY <1>1, <1>2, <1>6 DEF Whole
<1>8. gcstate = "propagate" => Colours(h, st2, gr, ga, weak, tmudata, atomic, {})
  <2> SUFFICES ASSUME gcstate = "propagate" PROVE Colours(h, st2, gr, ga, weak, tmudata, atomic, {})
    OBVIOUS
  <2>1. Colours(h, st, gr, ga, weak, tmudata, atomic, {}) /\ atomic = "no"
    BY <1>1 DEF Context
  <2>2. ASSUME NEW i \in Ids, Alive(h[i]) /\ h[i].mark = "black" PROVE BlackOk(h, st2, tmudata, atomic, {}, i)
    <3>1. BlackOk(h, st, tmudata, atomic, {}, i) /\ h[i].kind # "thread" /\ ~ IsOpen(h[i])
      BY <2>1, <2>2, <1>1 DEF Colours, BlackOk, Shaped, ShapedAt
    <3> QED
      BY <3>1, <1>6 DEF BlackOk
  <2> QED
    BY <2>1, <2>2 DEF Colours
<1>9. GarbageOk(h, st2, R)
  BY <1>1, <1>2, <1>6 DEF GarbageOk, Context
<1> QED
  BY <1>5, <1>7, <1>8, <1>9 DEF Ok

\* What the program has on its stack.
LEMMA Have ==
  ASSUME Context, NEW h, NEW st, NEW gr, NEW ga, NEW R, Ok(h, st, gr, ga, R),
         NEW i \in Ids \ garbage, NotDead(h, cw, i)
  PROVE  \A v \in RefsOf(h, st, i) \cap Ids : NotDead(h, cw, v) /\ (v \in garbage => v \in R)
<1>1. Whole(h, st, cw, tmudata) /\ GarbageOk(h, st, R)
  BY DEF Ok
<1> QED
  BY <1>1 DEF Whole, GarbageOk, AllRefs, NotDead

\* An object is made: a white one, to which nobody refers yet.
LEMMA Make ==
  ASSUME Context, NEW h, NEW st, NEW gr, NEW ga, NEW R, Ok(h, st, gr, ga, R),
         NEW i \in Ids \ {Main}, h[i].kind = "unborn",
         NEW o0 \in Objects, o0.kind \in {"table", "thread", "string", "userdata", "function", "upval"},
         NEW h2, h2 = Linked(h, i, o0),
         NEW st2 \in [Ids -> Seq(Refs)], \A j \in Ids \ {i} : st2[j] = st[j],
         ShapedAt(h2, st2, i),
         o0.kind = "string" => \A j \in Of(h, "string") : h[j].mode # o0.mode,
         \A r \in AllRefs(h2, st2, i) \cap Ids : r # i /\ NotDead(h, cw, r) /\ (r \in garbage => r \in R)
  PROVE  /\ Ok(h2, st2, gr, ga, R) /\ NotDead(h2, cw, i) /\ i \notin garbage
         /\ o0.kind # "upval" => CanPut(h2, i, R)
<1>1. /\ MaxObjects \in Nat /\ Shaped(h, st) /\ h \in [Ids -> Objects] /\ Whole(h, st, cw, tmudata) /\ GarbageOk(h, st, R)
      /\ PhaseOk(h) /\ FinalOk(h) /\ StringsOk(h)
      /\ gcstate = "propagate" => Colours(h, st, gr, ga, weak, tmudata, atomic, {})
      /\ cw \in {"w0", "w1"} /\ Other(cw) # cw /\ tmudata \subseteq Ids /\ garbage \subseteq Ids /\ atomic = "no"
  BY OtherIs DEF Context, Ok, Shaped
<1> DEFINE o == [o0 EXCEPT !.mark = cw]
<1>0. o \in Objects /\ o.kind = o0.kind /\ o.mode = o0.mode /\ o.mark = cw
  BY <1>1 DEF Objects
<1>14. h2 = [h EXCEPT ![i] = o]
  BY DEF Linked
<1> HIDE DEF o
<1>2. h2 \in [Ids -> Objects] /\ h2[i] = o /\ \A j \in Ids \ {i} : h2[j] = h[j]
  BY <1>0, <1>1, <1>14
<1>3. NotDead(h2, cw, i) /\ i \notin garbage /\ Alive(h2[i]) /\ i \notin tmudata
  BY <1>0, <1>1, <1>2 DEF NotDead, Alive, GarbageOk, FinalOk
<1>4. ASSUME NEW r, IsValue(h, r) PROVE r # i /\ IsValue(h2, r)
  BY <1>2, <1>4 DEF IsValue
<1>5. ASSUME NEW j \in Ids \ {i}
      PROVE  /\ ShapedAt(h2, st2, j)
             /\ RefsOf(h2, st2, j) = RefsOf(h, st, j) /\ AllRefs(h2, st2, j) = AllRefs(h, st, j)
             /\ Alive(h[j]) => i \notin AllRefs(h, st, j)
  <2>1. ShapedAt(h, st, j) /\ h[j] \in Objects /\ h2[j] = h[j] /\ st2[j] = st[j] /\ st[j] \in Seq(Refs)
    BY <1>1, <1>2 DEF Shaped
  <2>2. h[j].val # Nil => h[j].val \in Ids
    BY <2>1 DEF Objects, Refs, Ids
  <2>3. IsOpen(h[j]) => /\ h[j].on \in Ids \ {i} /\ h[h[j].on].kind = "thread"
                        /\ h2[h[j].on] = h[h[j].on] /\ st2[h[j].on] = st[h[j].on]
                        /\ IsValue(h, st[h[j].on][h[j].slot])
    <3> SUFFICES ASSUME IsOpen(h[j])
                 PROVE  /\ h[j].on \in Ids \ {i} /\ h[h[j].on].kind = "thread"
                        /\ h2[h[j].on] = h[h[j].on] /\ st2[h[j].on] = st[h[j].on]
                        /\ IsValue(h, st[h[j].on][h[j].slot])
      OBVIOUS
    <3>1. h[j].on \in Ids /\ h[h[j].on].kind = "thread" /\ h[j].slot \in 1 .. Len(st[h[j].on]) /\ st[h[j].on] \in Seq(Refs)
      BY <1>1, RefsAre DEF Shaped
    <3>2. IsValue(h, st[h[j].on][h[j].slot])
      BY <3>1, <1>1 DEF Shaped, ShapedAt
    <3> QED
      BY <3>1, <3>2, <1>2
  <2>4. ShapedAt(h2, st2, j)
    <3>1. \A n \in DOMAIN st2[j] : IsValue(h2, st2[j][n])
      BY <2>1, <1>4 DEF ShapedAt
    <3>2. h[j].kind = "table" => IsValue(h2, h[j].val) /\ IsValue(h2, h[j].key)
      BY <2>1, <1>4 DEF ShapedAt
    <3>3. h[j].kind = "upval" => IsValue(h2, h[j].val)
      BY <2>1, <1>4 DEF ShapedAt
    <3>4. h[j].kind = "function" => h[j].val # Nil /\ h2[h[j].val].kind \in {"upval", "freed"}
      BY <2>1, <2>2, <1>2 DEF ShapedAt
    <3>5. h[j].kind = "userdata" /\ h[j].val # Nil => h2[h[j].val].kind \in {"table", "freed"}
      BY <2>1, <2>2, <1>2 DEF ShapedAt
    <3>6. IsOpen(h[j]) => h2[h[j].on].kind = "thread" /\ h[j].slot \in 1 .. Room(h[j].on) /\ h[j].mark # "black"
      BY <2>1, <2>3 DEF ShapedAt
    <3> QED
      BY <2>1, <3>1, <3>2, <3>3, <3>4, <3>5, <3>6 DEF ShapedAt
  <2>5. RefsOf(h2, st2, j) = RefsOf(h, st, j)
    <3>1. CASE h[j].kind = "table"
      <4>1. i \notin Entry(h[j])
        BY <2>1, <3>1, <1>4 DEF ShapedAt, Entry
      <4>2. \A r \in Entry(h[j]) : IsString(h2, r) <=> IsString(h, r)
        BY <4>1, <1>2 DEF IsString
      <4> QED
        BY <2>1, <3>1, <4>2 DEF RefsOf
    <3>2. CASE h[j].kind = "upval"
      BY <3>2, <2>1, <2>3 DEF RefsOf
    <3>3. CASE h[j].kind \notin {"table", "upval"}
      BY <3>3, <2>1 DEF RefsOf
    <3> QED
      BY <3>1, <3>2, <3>3
  <2>6. AllRefs(h2, st2, j) = AllRefs(h, st, j)
    BY <2>1, <2>5 DEF AllRefs
  <2>7. ASSUME Alive(h[j]) PROVE i \notin AllRefs(h, st, j)
    <3>1. CASE h[j].kind = "table"
      <4>1. AllRefs(h, st, j) = Entry(h[j])
        BY <3>1, <1>1, RefsAre
      <4> QED
        BY <2>1, <3>1, <4>1, <1>4 DEF ShapedAt, Entry
    <3>2. CASE h[j].kind = "upval"
      <4>1. AllRefs(h, st, j) = {IF IsOpen(h[j]) THEN st[h[j].on][h[j].slot] ELSE h[j].val}
        BY <3>2, <1>1, RefsAre
      <4> QED
        BY <2>1, <3>2, <4>1, <2>3, <1>4 DEF ShapedAt
    <3>3. CASE h[j].kind = "thread"
      <4>1. AllRefs(h, st, j) = {st[j][n] : n \in 1 .. Len(st[j])}
        BY <3>3, <1>1, RefsAre
      <4> QED
        BY <2>1, <4>1, <1>4 DEF ShapedAt
    <3>4. CASE h[j].kind \in {"string", "function", "userdata"}
      <4>1. AllRefs(h, st, j) = {h[j].val}
        BY <3>4, <1>1, RefsAre
      <4> QED
        BY <2>1, <3>4, <4>1 DEF ShapedAt, Nil, Ids
    <3> QED
      BY <2>1, <2>7, <3>1, <3>2, <3>3, <3>4 DEF Alive, Objects, ObjectKinds
  <2> QED
    BY <2>4, <2>5, <2>6, <2>7
<1>6. Shaped(h2, st2)
  <2>1. h2[Main].kind = "thread"
    BY <1>1, <1>2 DEF Shaped, Main, Ids
  <2>2. \A j \in Ids : ShapedAt(h2, st2, j)
    BY <1>5
  <2> QED
    BY <2>1, <2>2, <1>2 DEF Shaped
<1>7. Whole(h2, st2, cw, tmudata)
  <2>1. ASSUME NEW j \in Ids, NotDead(h2, cw, j), NEW r \in AllRefs(h2, st2, j) \cap Ids
        PROVE  NotDead(h2, cw, r)
    <3>1. CASE j = i
      BY <2>1, <3>1, <1>2 DEF NotDead
    <3>2. CASE j # i
      <4>1. NotDead(h, cw, j) /\ r \in AllRefs(h, st, j)
        BY <2>1, <3>2, <1>2, <1>5 DEF NotDead
      <4>2. NotDead(h, cw, r) /\ r # i
        BY <2>1, <3>2, <4>1, <1>1, <1>5 DEF NotDead, Whole
      <4> QED
        BY <4>2, <1>2, <2>1 DEF NotDead
    <3> QED
      BY <3>1, <3>2
  <2>2. \A r \in Ids \ {i} : NotDead(h, cw, r) => NotDead(h2, cw, r)
    BY <1>2 DEF NotDead
  <2>3. Main \in Ids \ {i}
    BY <1>1 DEF Main, Ids
  <2> QED
    BY <2>1, <2>2, <2>3, <1>1, <1>3 DEF Whole
<1>15. h2[i].mark = cw /\ h2[i].kind = o0.kind /\ h2[i].mode = o0.mode
  BY <1>0, <1>2
<1>8. PhaseOk(h2)
  <2>1. \A j \in Ids : j = i \/ h2[j] = h[j]
    BY <1>2
  <2> QED
    BY <2>1, <1>1, <1>15 DEF PhaseOk, Settled
<1>9. FinalOk(h2)
  <2>1. FinalOk(h) /\ i \in Ids /\ i \notin tmudata /\ tmudata \subseteq Ids
    BY <1>1, <1>3
  <2>2. gced[i] = 0
    BY <2>1 DEF FinalOk
  <2>3. \A j \in Ids : j # i => h2[j] = h[j]
    BY <1>2
  <2> QED
    BY <2>1, <2>2, <2>3 DEF FinalOk
<1>10. StringsOk(h2)
  <2> SUFFICES ASSUME NEW j \in Ids, NEW k \in Ids, h2[j].kind = "string", h2[k].kind = "string", h2[j].mode = h2[k].mode
               PROVE  j = k
    BY DEF StringsOk, Of
  <2>1. \A l \in Ids : h[l].kind = "string" /\ h2[i].kind = "string" => h[l].mode # h2[i].mode
    BY <1>15 DEF Of
  <2>2. CASE j # i /\ k # i
    BY <2>2, <1>1, <1>2 DEF StringsOk, Of
  <2>3. CASE j = i \/ k = i
    BY <2>1, <2>3, <1>2
  <2> QED
    BY <2>2, <2>3
<1>11. ASSUME gcstate = "propagate" PROVE Colours(h2, st2, gr, ga, weak, tmudata, atomic, {})
  <2>1. Colours(h, st, gr, ga, weak, tmudata, atomic, {}) /\ o.mark \notin {"gray", "black"}
    BY <1>0, <1>1, <1>11
  <2>2. ASSUME NEW rs, i \notin rs, Clear(h, rs, {}) PROVE Clear(h2, rs, {})
    BY <2>2, <1>2 DEF Clear
  <2>3. Clear(h2, {Main}, {})
    BY <2>1, <2>2 DEF Colours
  <2>4. ASSUME NEW j \in Ids, Alive(h2[j]) /\ h2[j].mark = "black" PROVE BlackOk(h2, st2, tmudata, atomic, {}, j)
    <3>1. j # i /\ h2[j] = h[j] /\ BlackOk(h, st, tmudata, atomic, {}, j)
      BY <2>1, <2>4, <1>2 DEF Colours
    <3>2. i \notin AllRefs(h, st, j) /\ RefsOf(h2, st2, j) = RefsOf(h, st, j)
      BY <2>4, <3>1, <1>5
    <3>3. h[j].kind = "table" => i \notin {h[j].key, h[j].val}
      BY <3>1, <1>1, <1>4 DEF Shaped, ShapedAt
    <3> QED
      BY <2>2, <3>1, <3>2, <3>3 DEF BlackOk, AllRefs
  <2>5. \A j \in Ids : h2[j].mark \in {"gray", "black"} => j # i /\ h2[j] = h[j]
    BY <2>1, <1>2
  <2>6. ListsOk(h2, gr, ga, weak)
    <3>1. \A j \in gr \cup ga \cup weak : j \in Ids /\ j # i /\ h2[j] = h[j]
      <4>1. \A j \in gr \cup ga \cup weak : j \in Ids /\ h[j].kind # "unborn"
        BY <2>1 DEF Colours, ListsOk, Listed
      <4> QED
        BY <4>1, <1>2
    <3>2. ListsOk(h, gr, ga, weak)
      BY <2>1 DEF Colours
    <3> QED
      BY <3>1, <3>2 DEF ListsOk
  <2>7. \A j \in Ids : Alive(h2[j]) /\ h2[j].mark = "gray" => h2[j].kind = "string" \/ IsOpen(h2[j]) \/ j \in gr \cup ga \cup weak
    BY <2>1, <2>5 DEF Colours
  <2> QED
    BY <2>3, <2>4, <2>6, <2>7, <1>1 DEF Colours
<1>12. GarbageOk(h2, st2, R)
  <2>1. \A j \in garbage : j \in Ids /\ h2[j] = h[j]
    BY <1>1, <1>2, <1>3
  <2>2. ASSUME NEW j \in Ids \ garbage, Alive(h2[j]) PROVE RefsOf(h2, st2, j) \cap garbage \subseteq R
    <3>1. CASE j = i
      BY <3>1, <1>1 DEF AllRefs
    <3>2. CASE j # i
      BY <2>2, <3>2, <1>1, <1>2, <1>5 DEF GarbageOk
    <3> QED
      BY <3>1, <3>2
  <2> QED
    BY <2>1, <2>2, <1>1 DEF GarbageOk
<1>13. o0.kind # "upval" => CanPut(h2, i, R)
  BY <1>0, <1>1, <1>2, <1>3 DEF CanPut, IsValue, Refs, Ids, Main
<1> QED
  BY <1>3, <1>6, <1>7, <1>8, <1>9, <1>10, <1>11, <1>12, <1>13 DEF Ok

(* luaM_new: the object that is allocated is one that was not there. *)
LEMMA FreshIs ==
  ASSUME MaxObjects \in Nat, NEW is \in SUBSET Ids, is # {}
  PROVE  Fresh(is) \in is
<1> DEFINE Less == {p \in Nat \X Nat : p[1] < p[2]}
<1>1. IsWellFoundedOn(Less, Nat)
  BY NatLessThanWellFounded DEF OpToRel
<1>2. is \subseteq Nat
  BY DEF Ids
<1>3. PICK m \in is : \A n \in is : ~ (<<n, m>> \in Less)
  <2> HIDE DEF Less
  <2> QED
    BY <1>1, <1>2, WFMin
<1>4. \A n \in is : m \in Nat /\ n \in Nat /\ ~ (n < m)
  BY <1>2, <1>3
<1> HIDE DEF Less
<1>5. \A n \in is : m <= n
  BY <1>4
<1> QED
  BY <1>5 DEF Fresh

PutAt(st, a, v) == [st EXCEPT ![Main][a] = v]

(* A slot of the main stack gets a value (setobj). *)
LEMMA PutAtIs ==
  ASSUME MaxObjects \in Nat, NEW st \in [Ids -> Seq(Refs)], NEW a \in 1 .. Len(st[Main]), NEW v \in Refs
  PROVE  /\ PutAt(st, a, v) \in [Ids -> Seq(Refs)]
         /\ Len(PutAt(st, a, v)[Main]) = Len(st[Main])
         /\ PutAt(st, a, v)[Main][a] = v
         /\ \A j \in Ids \ {Main} : PutAt(st, a, v)[j] = st[j]
         /\ \A n \in 1 .. Len(st[Main]) : PutAt(st, a, v)[Main][n] \in {st[Main][n], v}
<1>1. Main \in Ids /\ st[Main] \in Seq(Refs)
  BY DEF Main, Ids
<1> DEFINE s == [st[Main] EXCEPT ![a] = v]
<1>2. s \in Seq(Refs) /\ Len(s) = Len(st[Main]) /\ s[a] = v /\ \A n \in 1 .. Len(st[Main]) : s[n] \in {st[Main][n], v}
  BY <1>1
<1>3. PutAt(st, a, v) = [st EXCEPT ![Main] = s]
  BY <1>1 DEF PutAt
<1> HIDE DEF s
<1> QED
  BY <1>1, <1>2, <1>3

(* What is on the main stack is there, is a value, and is no garbage. *)
LEMMA OnStack ==
  ASSUME HeapInstance, HeapInv
  PROVE  /\ MaxObjects \in Nat /\ Main \in Ids /\ stack \in [Ids -> Seq(Refs)] /\ heap \in [Ids -> Objects]
         /\ Len(stack[Main]) = Slots /\ heap[Main].kind = "thread"
         /\ Main \notin garbage /\ NotDead(heap, cw, Main)
         /\ \A a \in 1 .. Slots : /\ At(a) \in Refs /\ IsValue(heap, At(a))
                                  /\ At(a) # Nil => At(a) \in Ids \ {Main} /\ NotDead(heap, cw, At(a)) /\ At(a) \notin garbage
<1>1. /\ MaxObjects \in Nat /\ Main \in Ids /\ Shaped(heap, stack) /\ Whole(heap, stack, cw, tmudata) /\ GarbageOk(heap, stack, {})
      /\ Slots \in Nat
  BY DEF HeapInstance, HeapInv, Main, Ids
<1>2. stack \in [Ids -> Seq(Refs)] /\ heap \in [Ids -> Objects] /\ heap[Main].kind = "thread" /\ Len(stack[Main]) = Slots
  BY <1>1 DEF Shaped, ShapedAt, Room
<1>3. ASSUME NEW a \in 1 .. Slots
      PROVE  /\ At(a) \in Refs /\ IsValue(heap, At(a))
             /\ At(a) # Nil => At(a) \in Ids \ {Main} /\ NotDead(heap, cw, At(a)) /\ At(a) \notin garbage
  <2>1. At(a) \in Refs
    BY <1>1, <1>2 DEF At
  <2>2. IsValue(heap, At(a))
    BY <1>1, <1>2 DEF At, Shaped, ShapedAt
  <2>3. At(a) \in RefsOf(heap, stack, Main)
    BY <1>1, <1>2 DEF At, RefsOf, ToSet
  <2>4. At(a) # Nil => At(a) \in Ids \ {Main}
    BY <1>1, <2>1 DEF Refs, Ids, Main
  <2> QED
    BY <1>1, <1>2, <2>1, <2>2, <2>3, <2>4 DEF Whole, GarbageOk, AllRefs, NotDead
<1> QED
  BY <1>1, <1>2, <1>3 DEF Whole, GarbageOk

(* A value that is alive may be put on the stack: a thread is never black. *)
LEMMA PutAtOk ==
  ASSUME Context, NEW h, NEW st, NEW gr, NEW ga, NEW a \in 1 .. Slots, NEW v \in Refs,
         v # Nil => NotDead(h, cw, v) /\ IsValue(h, v),
         NEW R, R = Reachable(h, PutAt(st, a, v), tmudata), Ok(h, st, gr, ga, R)
  PROVE  Ok(h, PutAt(st, a, v), gr, ga, R)
<1> DEFINE st2 == PutAt(st, a, v)
<1>1. /\ MaxObjects \in Nat /\ tmudata \in SUBSET Ids /\ Main \in Ids /\ Shaped(h, st) /\ st \in [Ids -> Seq(Refs)]
      /\ h[Main].kind = "thread" /\ Len(st[Main]) = Slots
  BY DEF Context, Ok, Shaped, ShapedAt, Room, Main, Ids
<1>2. /\ st2 \in [Ids -> Seq(Refs)] /\ Len(st2[Main]) = Len(st[Main]) /\ st2[Main][a] = v
      /\ \A j \in Ids \ {Main} : st2[j] = st[j]
      /\ \A n \in 1 .. Len(st[Main]) : st2[Main][n] \in {st[Main][n], v}
  <2>1. a \in 1 .. Len(st[Main])
    BY <1>1
  <2>2. MaxObjects \in Nat /\ st \in [Ids -> Seq(Refs)]
    BY <1>1
  <2> HIDE DEF st2
  <2>3. /\ PutAt(st, a, v) \in [Ids -> Seq(Refs)]
        /\ Len(PutAt(st, a, v)[Main]) = Len(st[Main]) /\ PutAt(st, a, v)[Main][a] = v
    BY <2>1, <2>2, PutAtIs
  <2>4. \A j \in Ids \ {Main} : PutAt(st, a, v)[j] = st[j]
    BY <2>1, <2>2, PutAtIs
  <2>5. \A n \in 1 .. Len(st[Main]) : PutAt(st, a, v)[Main][n] \in {st[Main][n], v}
    BY <2>1, <2>2, PutAtIs
  <2> QED
    BY <2>3, <2>4, <2>5 DEF st2
<1> HIDE DEF st2
<1>3. v \in RefsOf(h, st2, Main)
  BY <1>1, <1>2 DEF RefsOf, ToSet
<1>4. v \in Ids => v \in R
  BY <1>1, <1>3, ReachableIs DEF st2
<1>5. CanPut(h, v, R)
  BY <1>4 DEF CanPut, Context
<1>6. Ok(h, st2, gr, ga, R)
  BY <1>1, <1>2, <1>5, Put
<1> QED
  BY <1>6 DEF st2

\* The program moves something to its stack.
LEMMA MoveOk ==
  ASSUME HeapInstance, HeapInv, UNCHANGED <<heap, Lists>>, NEW a \in 1 .. Slots, NEW v \in Refs,
         v # Nil => NotDead(heap, cw, v) /\ IsValue(heap, v), May(Puts(a, v))
  PROVE  HeapInv'
<1> DEFINE R == Reachable(heap', stack', tmudata)
<1>1. stack' = PutAt(stack, a, v) /\ May(stack') /\ atomic = "no" /\ heap' = heap /\ gray' = gray /\ grayagain' = grayagain /\ weak' = weak
      /\ gray' \subseteq Ids /\ grayagain' \subseteq Ids
  BY DEF May, Runs, Puts, PutAt, Lists, HeapInv, HeapTypes
<1>2. R = Reachable(heap, PutAt(stack, a, v), tmudata)
  BY <1>1
<1>3. Context /\ Ok(heap, stack, gray, grayagain, R)
  BY <1>1, OkStart
<1> HIDE DEF R
<1>4. Ok(heap', stack', gray', grayagain', R)
  BY <1>1, <1>2, <1>3, PutAtOk
<1> QED
  BY <1>1, <1>4, OkEnd DEF R

(* OP_MOVE and OP_LOADNIL. *)
LEMMA AssignOk ==
  ASSUME HeapInstance, HeapInv, NEW a \in 1 .. Slots, NEW b \in 1 .. Slots, Assign(a, IF a = b THEN Nil ELSE At(b))
  PROVE  HeapInv'
<1> DEFINE v == IF a = b THEN Nil ELSE At(b)
<1>1. v \in Refs /\ (v # Nil => NotDead(heap, cw, v) /\ IsValue(heap, v))
  BY OnStack DEF Refs
<1>2. UNCHANGED <<heap, Lists>> /\ May(Puts(a, v))
  BY DEF Assign
<1> HIDE DEF v
<1> QED
  BY <1>1, <1>2, MoveOk

(* OP_GETTABLE: the entry of a table comes on the stack, strong or weak. *)
LEMMA GetTableOk ==
  ASSUME HeapInstance, HeapInv, NEW t \in 1 .. Slots, NEW a \in 1 .. Slots, GetTable(t, a)
  PROVE  HeapInv'
<1>1. IsA(t, "table") /\ UNCHANGED <<heap, Lists>>
  BY DEF GetTable
<1>2. PICK v \in Entry(heap[At(t)]) \cap Ids : May(Puts(a, v))
  BY DEF GetTable
<1>3. At(t) \in Ids /\ NotDead(heap, cw, At(t)) /\ heap[At(t)].kind = "table"
  BY <1>1, OnStack DEF IsA
<1>4. Shaped(heap, stack) /\ Whole(heap, stack, cw, tmudata) /\ MaxObjects \in Nat
  BY DEF HeapInv, HeapInstance
<1>5. AllRefs(heap, stack, At(t)) = Entry(heap[At(t)]) /\ heap[At(t)] \in Objects
  BY <1>3, <1>4, RefsAre
<1>6. v \in Refs /\ IsValue(heap, v)
  <2>1. ShapedAt(heap, stack, At(t))
    BY <1>3, <1>4 DEF Shaped
  <2>2. v \in {heap[At(t)].key, heap[At(t)].val}
    BY <1>2 DEF Entry
  <2> QED
    BY <2>1, <2>2, <1>2, <1>3, <1>5 DEF ShapedAt, Objects, DeadKey, Ids
<1>7. NotDead(heap, cw, v)
  BY <1>2, <1>3, <1>4, <1>5 DEF Whole
<1> QED
  BY <1>1, <1>2, <1>6, <1>7, MoveOk

(* An upvalue refers to the one value, in the stack or its own. *)
LEMMA ValueIs ==
  ASSUME HeapInstance, HeapInv, NEW i \in Ids, heap[i].kind = "upval"
  PROVE  /\ RefsOf(heap, stack, i) = {Value(heap[i])}
         /\ Value(heap[i]) \in Refs /\ IsValue(heap, Value(heap[i]))
         /\ IsOpen(heap[i]) => /\ heap[i].on \in Ids /\ heap[heap[i].on].kind = "thread"
                               /\ heap[i].slot \in 1 .. Len(stack[heap[i].on]) /\ stack[heap[i].on] \in Seq(Refs)
<1>1. MaxObjects \in Nat /\ Shaped(heap, stack)
  BY DEF HeapInstance, HeapInv
<1>2. IsOpen(heap[i]) => /\ heap[i].on \in Ids /\ heap[heap[i].on].kind = "thread"
                         /\ heap[i].slot \in 1 .. Len(stack[heap[i].on]) /\ stack[heap[i].on] \in Seq(Refs)
  BY <1>1, RefsAre DEF Shaped
<1>3. RefsOf(heap, stack, i) = {Value(heap[i])}
  BY <1>1, RefsAre DEF Value
<1>4. Value(heap[i]) \in Refs /\ IsValue(heap, Value(heap[i]))
  <2>1. CASE IsOpen(heap[i])
    <3>1. IsValue(heap, stack[heap[i].on][heap[i].slot])
      BY <1>1, <1>2, <2>1 DEF Shaped, ShapedAt
    <3> QED
      BY <2>1, <3>1, <1>2 DEF Value
  <2>2. CASE ~ IsOpen(heap[i])
    <3>1. heap[i] \in Objects /\ ShapedAt(heap, stack, i)
      BY <1>1 DEF Shaped
    <3> QED
      BY <2>2, <3>1 DEF Value, ShapedAt, Objects
  <2> QED
    BY <2>1, <2>2
<1> QED
  BY <1>2, <1>3, <1>4

\* The upvalue of a function that the program has.
LEMMA UpvalIs ==
  ASSUME HeapInstance, HeapInv, NEW f \in 1 .. Slots, IsA(f, "function"), NEW uv, uv = heap[At(f)].val
  PROVE  /\ uv \in Ids /\ heap[uv].kind = "upval" /\ NotDead(heap, cw, uv) /\ uv \notin garbage
         /\ Value(heap[uv]) # Nil => NotDead(heap, cw, Value(heap[uv])) /\ Value(heap[uv]) \notin garbage
<1>1. At(f) \in Ids /\ NotDead(heap, cw, At(f)) /\ heap[At(f)].kind = "function" /\ At(f) \notin garbage
  BY OnStack DEF IsA
<1>2. MaxObjects \in Nat /\ Shaped(heap, stack) /\ Whole(heap, stack, cw, tmudata) /\ GarbageOk(heap, stack, {})
  BY DEF HeapInstance, HeapInv
<1>3. uv \in Ids /\ heap[uv].kind \in {"upval", "freed"}
  BY <1>1, <1>2 DEF Shaped, ShapedAt, Objects, Refs, Ids
<1>4. RefsOf(heap, stack, At(f)) = {uv}
  BY <1>1, <1>2, RefsAre
<1>5. NotDead(heap, cw, uv) /\ uv \notin garbage
  BY <1>1, <1>2, <1>3, <1>4 DEF Whole, AllRefs, GarbageOk, NotDead
<1>6. heap[uv].kind = "upval"
  BY <1>3, <1>5 DEF NotDead, Alive
<1>7. RefsOf(heap, stack, uv) = {Value(heap[uv])} /\ Value(heap[uv]) \in Refs
  BY <1>3, <1>6, ValueIs
<1>8. Value(heap[uv]) # Nil => Value(heap[uv]) \in Ids
  BY <1>7 DEF Refs, Ids
<1>9. Value(heap[uv]) # Nil => NotDead(heap, cw, Value(heap[uv])) /\ Value(heap[uv]) \notin garbage
  BY <1>2, <1>3, <1>5, <1>7, <1>8 DEF Whole, AllRefs, GarbageOk, NotDead
<1> QED
  BY <1>3, <1>5, <1>6, <1>9

(* OP_GETUPVAL. *)
LEMMA GetUpvalOk ==
  ASSUME HeapInstance, HeapInv, NEW f \in 1 .. Slots, NEW a \in 1 .. Slots, GetUpval(f, a)
  PROVE  HeapInv'
<1> DEFINE uv == heap[At(f)].val
           v == Value(heap[uv])
<1>1. IsA(f, "function") /\ UNCHANGED <<heap, Lists>> /\ May(Puts(a, v))
  BY DEF GetUpval
<1>2. uv \in Ids /\ heap[uv].kind = "upval" /\ (v # Nil => NotDead(heap, cw, v))
  BY <1>1, UpvalIs
<1>3. v \in Refs /\ IsValue(heap, v)
  BY <1>2, ValueIs
<1> HIDE DEF v, uv
<1> QED
  BY <1>1, <1>2, <1>3, MoveOk

(* lua_xmove: a value goes from one thread to another, without a barrier. *)
LEMMA XMoveOk ==
  ASSUME HeapInstance, HeapInv, NEW t \in 1 .. Slots, NEW a \in 1 .. Slots, XMove(t, a)
  PROVE  HeapInv'
<1> DEFINE i == At(t)
<1>1. /\ IsA(t, "thread") /\ UNCHANGED <<heap, Lists>>
      /\ May([stack EXCEPT ![i] = <<At(a)>>]) \/ May(Puts(a, stack[i][1]))
  BY DEF XMove
<1>2. /\ i \in Ids \ {Main} /\ NotDead(heap, cw, i) /\ heap[i].kind = "thread" /\ i \notin garbage
      /\ At(a) \in Refs /\ IsValue(heap, At(a)) /\ (At(a) # Nil => NotDead(heap, cw, At(a)) /\ At(a) \notin garbage)
      /\ stack \in [Ids -> Seq(Refs)]
  BY <1>1, OnStack DEF IsA
<1>3. MaxObjects \in Nat /\ Shaped(heap, stack) /\ Whole(heap, stack, cw, tmudata)
  BY DEF HeapInstance, HeapInv
<1>4. Len(stack[i]) = 1
  BY <1>2, <1>3 DEF Shaped, ShapedAt, Room
<1> HIDE DEF i
<1>5. CASE May([stack EXCEPT ![i] = <<At(a)>>])
  <2> DEFINE st2 == [stack EXCEPT ![i] = <<At(a)>>]
             R == Reachable(heap', stack', tmudata)
  <2>1. stack' = st2 /\ May(stack') /\ atomic = "no" /\ heap' = heap /\ gray' = gray /\ grayagain' = grayagain /\ weak' = weak
        /\ gray' \subseteq Ids /\ grayagain' \subseteq Ids
    BY <1>1, <1>5 DEF May, Runs, Lists, HeapInv, HeapTypes
  <2>2. /\ st2 \in [Ids -> Seq(Refs)] /\ Len(st2[i]) = 1 /\ st2[i][1] = At(a)
        /\ \A j \in Ids \ {i} : st2[j] = stack[j]
    BY <1>2
  <2> DEFINE v == At(a)
  <2> HIDE DEF st2, R
  <2>3. Context /\ Ok(heap, stack, gray, grayagain, R)
    BY <2>1, OkStart
  <2>4. CanPut(heap, v, R)
    BY <1>2 DEF CanPut
  <2>5. Len(st2[i]) = Len(stack[i]) /\ \A n \in 1 .. Len(stack[i]) : st2[i][n] \in {stack[i][n], v}
    BY <1>4, <2>2
  <2> HIDE DEF v
  <2>6. Ok(heap, st2, gray, grayagain, R)
    BY <1>2, <1>4, <2>2, <2>3, <2>4, <2>5, Put
  <2>7. Ok(heap', stack', gray', grayagain', R)
    BY <2>1, <2>6
  <2> QED
    BY <2>1, <2>7, OkEnd DEF R
<1>6. CASE May(Puts(a, stack[i][1]))
  <2> DEFINE v == stack[i][1]
  <2>1. v \in Refs /\ IsValue(heap, v)
    BY <1>2, <1>3, <1>4 DEF Shaped, ShapedAt
  <2>2. v \in RefsOf(heap, stack, i)
    BY <1>2, <1>4 DEF RefsOf, ToSet
  <2>3. v # Nil => NotDead(heap, cw, v)
    BY <1>2, <1>3, <2>1, <2>2 DEF Whole, AllRefs, Refs, Ids
  <2> HIDE DEF v
  <2>4. May(Puts(a, v))
    BY <1>6 DEF v
  <2> QED
    BY <1>1, <2>1, <2>3, <2>4, MoveOk
<1> QED
  BY <1>1, <1>5, <1>6

(* The modes of new objects are those of the program. *)
LEMMA ModesAre ==
  ASSUME NEW m \in Mutators
  PROVE  m.kinds.table \cup m.kinds.udata \cup m.kinds.string \subseteq Modes
<1> DEFINE Made(x) == x.kinds.table \cup x.kinds.udata \cup x.kinds.string
<1>1. Made(m) \subseteq UNION {Made(x) : x \in Mutators}
  <2> HIDE DEF Made
  <2> QED
    OBVIOUS
<1> QED
  BY <1>1 DEF Modes

(* The place of a new object. *)
LEMMA UnbornIs ==
  ASSUME HeapInstance, HeapInv, NEW i, Unborn # {}, i = Fresh(Unborn)
  PROVE  i \in Ids \ {Main} /\ heap[i].kind = "unborn" /\ i \in Refs /\ i # Nil
<1>1. MaxObjects \in Nat /\ Unborn \in SUBSET Ids
  BY DEF HeapInstance, Unborn, Of
<1>2. i \in Unborn
  BY <1>1, FreshIs
<1>3. i \in Ids /\ heap[i].kind = "unborn" /\ heap[Main].kind = "thread"
  BY <1>2, OnStack DEF Unborn, Of
<1> QED
  BY <1>1, <1>3 DEF Refs, Ids, Main, Nil

\* The program makes an object o for slot a.
LEMMA MakeOk ==
  ASSUME HeapInstance, HeapInv, NEW a \in 1 .. Slots, NEW i, i = Fresh(Unborn),
         NEW o \in Objects, o.kind \in {"table", "thread", "string", "userdata"},
         NEW h2, h2 = Linked(heap, i, o), NEW st0 \in [Ids -> Seq(Refs)], \A j \in Ids \ {i} : st0[j] = stack[j],
         ShapedAt(h2, st0, i),
         o.kind = "string" => \A j \in Of(heap, "string") : heap[j].mode # o.mode,
         \A r \in AllRefs(h2, st0, i) \cap Ids : r # i /\ NotDead(heap, cw, r) /\ r \notin garbage,
         NewObject(o, PutAt(st0, a, i))
  PROVE  HeapInv'
<1> DEFINE R == Reachable(heap', stack', tmudata)
<1>1. /\ Unborn # {} /\ heap' = h2 /\ gray' = gray /\ grayagain' = grayagain /\ weak' = weak
      /\ stack' = PutAt(st0, a, i) /\ May(stack') /\ atomic = "no" /\ gray' \subseteq Ids /\ grayagain' \subseteq Ids
  BY DEF NewObject, May, Runs, Lists, HeapInv, HeapTypes
<1>2. i \in Ids \ {Main} /\ heap[i].kind = "unborn" /\ i \in Refs /\ i # Nil
  BY <1>1, UnbornIs
<1> HIDE DEF R
<1>5. Context /\ Ok(heap, stack, gray, grayagain, R)
  BY <1>1, OkStart
<1>6. /\ Ok(h2, st0, gray, grayagain, R) /\ CanPut(h2, i, R)
  <2>1. o.kind \in {"table", "thread", "string", "userdata", "function", "upval"} /\ o.kind # "upval"
    OBVIOUS
  <2>2. \A r \in AllRefs(h2, st0, i) \cap Ids : r # i /\ NotDead(heap, cw, r) /\ (r \in garbage => r \in R)
    OBVIOUS
  <2> HIDE DEF Context
  <2> QED
    BY <1>2, <1>5, <2>1, <2>2, Make
<1>7. R = Reachable(h2, PutAt(st0, a, i), tmudata)
  BY <1>1 DEF R
<1>8. Ok(h2, PutAt(st0, a, i), gray, grayagain, R)
  BY <1>2, <1>5, <1>6, <1>7, PutAtOk DEF CanPut
<1>9. Ok(heap', stack', gray', grayagain', R)
  BY <1>1, <1>8
<1> QED
  BY <1>1, <1>9, OkEnd DEF R

\* The stack entries of an object that is not there yet are values.
LEMMA BlankStack ==
  ASSUME NEW h, NEW st, Shaped(h, st), NEW i \in Ids, NEW o, h[i].kind = "unborn"
  PROVE  \A n \in DOMAIN st[i] : IsValue(Linked(h, i, o), st[i][n])
<1>1. h \in [Ids -> Objects]
  BY DEF Shaped
<1> SUFFICES ASSUME NEW n \in DOMAIN st[i] PROVE IsValue(Linked(h, i, o), st[i][n])
  OBVIOUS
<1> DEFINE r == st[i][n]
<1>2. IsValue(h, r)
  BY <1>1 DEF Shaped, ShapedAt
<1>3. r # i
  BY <1>2 DEF IsValue
<1> HIDE DEF r
<1>4. IsValue(Linked(h, i, o), r)
  BY <1>1, <1>2, <1>3 DEF IsValue, Linked
<1> QED
  BY <1>4 DEF r

(* luaH_new. *)
LEMMA NewTableOk ==
  ASSUME HeapInstance, HeapInv, NEW a \in 1 .. Slots, NEW mode \in program.kinds.table, NewTable(a, mode)
  PROVE  HeapInv'
<1> DEFINE i == Fresh(Unborn)
           o == [Blank EXCEPT !.kind = "table", !.mode = mode]
           h2 == Linked(heap, i, o)
<1>1. NewObject(o, PutAt(stack, a, i)) /\ Unborn # {}
  BY DEF NewTable, NewObject, Puts, PutAt
<1>2. /\ i \in Ids \ {Main} /\ heap[i].kind = "unborn" /\ i \in Refs
      /\ heap \in [Ids -> Objects] /\ stack \in [Ids -> Seq(Refs)] /\ cw \in {"w0", "w1"}
  BY <1>1, UnbornIs, OnStack DEF HeapInv, HeapTypes
<1>3. mode \in Modes
  BY ModesAre DEF HeapInv, HeapTypes
<1>4. o \in Objects /\ o.kind = "table" /\ o.val = Nil /\ o.key = Nil /\ o.on = Nil
  BY <1>3 DEF Blank, Objects, ObjectKinds, Refs, Nil
<1>5. h2[i].kind = "table" /\ h2[i].val = Nil /\ h2[i].key = Nil
  BY <1>2, <1>4 DEF Linked
<1>6. \A n \in DOMAIN stack[i] : IsValue(h2, stack[i][n])
  BY <1>2, BlankStack DEF HeapInv
<1> HIDE DEF i, o, h2
<1>7. ShapedAt(h2, stack, i) /\ AllRefs(h2, stack, i) = {}
  BY <1>5, <1>6 DEF ShapedAt, IsValue, Nil, Ids, IsOpen, AllRefs, RefsOf, Entry, Strong
<1>8. i = Fresh(Unborn) /\ h2 = Linked(heap, i, o)
  BY DEF i, h2
<1> QED
  BY <1>1, <1>2, <1>4, <1>7, <1>8, MakeOk

(* luaE_newthread. *)
LEMMA NewThreadOk ==
  ASSUME HeapInstance, HeapInv, NEW a \in 1 .. Slots, NewThread(a)
  PROVE  HeapInv'
<1> DEFINE i == Fresh(Unborn)
           o == [Blank EXCEPT !.kind = "thread"]
           h2 == Linked(heap, i, o)
           st0 == [stack EXCEPT ![i] = <<Nil>>]
<1>1. NewObject(o, [Puts(a, i) EXCEPT ![i] = <<Nil>>]) /\ Unborn # {}
  BY DEF NewThread, NewObject
<1>2. /\ i \in Ids \ {Main} /\ heap[i].kind = "unborn" /\ i \in Refs /\ Main \in Ids
      /\ heap \in [Ids -> Objects] /\ stack \in [Ids -> Seq(Refs)] /\ cw \in {"w0", "w1"}
  BY <1>1, UnbornIs, OnStack DEF HeapInv, HeapTypes
<1>3. o \in Objects /\ o.kind = "thread"
  BY DEF Blank, Objects, ObjectKinds, Refs, Nil, Modes
<1>4. h2[i].kind = "thread"
  BY <1>2, <1>3 DEF Linked
<1>5. st0 \in [Ids -> Seq(Refs)] /\ st0[i] = <<Nil>> /\ \A j \in Ids \ {i} : st0[j] = stack[j]
  BY <1>2 DEF Refs
<1>6. [Puts(a, i) EXCEPT ![i] = <<Nil>>] = PutAt(st0, a, i)
  BY <1>2 DEF Puts, PutAt
<1> HIDE DEF i, o, h2, st0
<1>7. ShapedAt(h2, st0, i)
  BY <1>2, <1>4, <1>5 DEF ShapedAt, IsValue, Nil, Ids, IsOpen, Room
<1>8. AllRefs(h2, st0, i) = {Nil}
  BY <1>4, <1>5 DEF AllRefs, RefsOf, Entry, ToSet
<1>9. i = Fresh(Unborn) /\ h2 = Linked(heap, i, o) /\ NewObject(o, PutAt(st0, a, i))
  BY <1>1, <1>6 DEF i, h2
<1> QED
  <2>1. \A r \in AllRefs(h2, st0, i) \cap Ids : r # i /\ NotDead(heap, cw, r) /\ r \notin garbage
    BY <1>8 DEF Nil, Ids
  <2> QED
    BY <1>2, <1>3, <1>5, <1>7, <1>9, <2>1, MakeOk

(* luaS_newudata: it gets the environment of the running function. *)
LEMMA NewUdataOk ==
  ASSUME HeapInstance, HeapInv, NEW a \in 1 .. Slots, NEW env \in 1 .. Slots, NEW mode \in program.kinds.udata,
         NewUdata(a, env, mode)
  PROVE  HeapInv'
<1> DEFINE i == Fresh(Unborn)
           t == IF IsA(env, "table") THEN At(env) ELSE Nil
           o == [Blank EXCEPT !.kind = "userdata", !.mode = mode, !.val = t]
           h2 == Linked(heap, i, o)
<1>1. NewObject(o, PutAt(stack, a, i)) /\ Unborn # {}
  BY DEF NewUdata, NewObject, Puts, PutAt
<1>2. /\ i \in Ids \ {Main} /\ heap[i].kind = "unborn" /\ i \in Refs /\ Nil \notin Ids
      /\ heap \in [Ids -> Objects] /\ stack \in [Ids -> Seq(Refs)] /\ cw \in {"w0", "w1"}
  BY <1>1, UnbornIs, OnStack DEF HeapInv, HeapTypes, Nil, Ids
<1>3. mode \in Modes
  BY ModesAre DEF HeapInv, HeapTypes
<1>4. t \in Refs /\ (t # Nil => t \in Ids /\ NotDead(heap, cw, t) /\ t \notin garbage /\ heap[t].kind = "table")
  BY OnStack DEF IsA, Refs
<1> HIDE DEF t
<1>5. o \in Objects /\ o.kind = "userdata" /\ o.val = t /\ o.on = Nil
  BY <1>3, <1>4 DEF Blank, Objects, ObjectKinds, Refs, Nil
<1>6. h2[i].kind = "userdata" /\ h2[i].val = t /\ \A j \in Ids \ {i} : h2[j] = heap[j]
  BY <1>2, <1>5 DEF Linked
<1>7. \A n \in DOMAIN stack[i] : IsValue(h2, stack[i][n])
  BY <1>2, BlankStack DEF HeapInv
<1>8. t # i
  BY <1>2, <1>4
<1>9. i = Fresh(Unborn) /\ h2 = Linked(heap, i, o)
  OBVIOUS
<1> HIDE DEF i, o, h2
<1>10. ShapedAt(h2, stack, i) /\ AllRefs(h2, stack, i) = {t}
  BY <1>4, <1>6, <1>7, <1>8 DEF ShapedAt, IsOpen, AllRefs, RefsOf, Entry
<1> QED
  BY <1>1, <1>2, <1>4, <1>5, <1>8, <1>9, <1>10, MakeOk

\* A string or an upvalue that is dead is used again.
LEMMA ReviveOk ==
  ASSUME HeapInstance, HeapInv, atomic = "no", full = "no", NEW i \in Ids, heap[i].kind \in {"string", "upval"},
         \A r \in RefsOf(heap, stack, i) \cap Ids : NotDead(heap, cw, r),
         NEW R, i \in garbage => i \in R, NEW h, h = Revived(i)
  PROVE  /\ Ok(h, stack, gray, grayagain, R) /\ NotDead(h, cw, i) /\ h \in [Ids -> Objects]
         /\ h[i].kind = heap[i].kind /\ \A j \in Ids \ {i} : h[j] = heap[j]
<1>1. /\ MaxObjects \in Nat /\ Shaped(heap, stack) /\ heap \in [Ids -> Objects] /\ Whole(heap, stack, cw, tmudata)
      /\ GarbageOk(heap, stack, {}) /\ PhaseInv /\ FinalOk(heap) /\ StringsOk(heap) /\ HeapTypes
      /\ cw \in {"w0", "w1"} /\ Other(cw) # cw
      /\ Ok(heap, stack, gray, grayagain, R)
  BY OkStart, OtherIs DEF HeapInstance, HeapInv, HeapTypes, Shaped
<1>2. Alive(heap[i])
  BY DEF Alive
<1>3. CASE ~ IsDead(heap[i])
  <2>1. h = heap
    <3>1. heap[i] \in Objects
      BY <1>1
    <3>2. [heap[i] EXCEPT !.mark = heap[i].mark] = heap[i]
      BY <3>1 DEF Objects
    <3>3. h = [heap EXCEPT ![i] = [heap[i] EXCEPT !.mark = heap[i].mark]]
      BY <1>3 DEF Revived
    <3> QED
      BY <1>1, <3>2, <3>3
  <2> QED
    BY <1>1, <1>2, <1>3, <2>1 DEF NotDead, IsDead
<1>4. CASE IsDead(heap[i])
  <2>1. gcstate # "propagate"
    BY <1>1, <1>2, <1>4 DEF PhaseInv, PhaseOk, IsDead
  <2>2. h = [heap EXCEPT ![i] = [heap[i] EXCEPT !.mark = cw]]
    BY <1>4, <1>1 DEF Revived
  <2>3. h[i] = [heap[i] EXCEPT !.mark = cw] /\ \A j \in Ids \ {i} : h[j] = heap[j]
    BY <2>2, <1>1
  <2>4. h \in [Ids -> Objects] /\ heap[i] \in Objects
    BY <2>2, <1>1 DEF Objects
  <2> HIDE <2>2
  <2>5. /\ h[i].kind = heap[i].kind /\ h[i].mark = cw /\ h[i].mode = heap[i].mode /\ h[i].val = heap[i].val
        /\ h[i].key = heap[i].key /\ h[i].on = heap[i].on /\ h[i].slot = heap[i].slot /\ h[i].fin = heap[i].fin
    BY <2>3, <2>4 DEF Objects
  <2>6. SameButMarks(heap, h)
    BY <2>3, <2>5 DEF SameButMarks
  <2>7. \A j \in Ids : IsOpen(h[j]) => h[j].mark # "black"
    <3>1. \A j \in Ids : IsOpen(heap[j]) => heap[j].mark # "black"
      BY <1>1 DEF Shaped, ShapedAt
    <3>2. h[i].mark # "black"
      BY <1>1, <2>5
    <3> QED
      BY <2>3, <3>1, <3>2
  <2>8. /\ Shaped(h, stack) /\ StringsOk(h)
        /\ \A j \in Ids : /\ RefsOf(h, stack, j) = RefsOf(heap, stack, j) /\ AllRefs(h, stack, j) = AllRefs(heap, stack, j)
                          /\ IsOpen(h[j]) <=> IsOpen(heap[j])
                          /\ Alive(h[j]) <=> Alive(heap[j])
    BY <1>1, <2>4, <2>6, <2>7, SameRefs
  <2>9. NotDead(h, cw, i) /\ \A j \in Ids : NotDead(heap, cw, j) => NotDead(h, cw, j)
    BY <1>1, <1>2, <2>3, <2>5, <2>8 DEF NotDead
  <2>10. Whole(h, stack, cw, tmudata)
    <3>1. ASSUME NEW j \in Ids, NotDead(h, cw, j), NEW r \in AllRefs(h, stack, j) \cap Ids PROVE NotDead(h, cw, r)
      <4>1. CASE j = i
        <5>1. AllRefs(heap, stack, i) = RefsOf(heap, stack, i)
          BY <1>1, RefsAre
        <5> QED
          BY <3>1, <4>1, <5>1, <2>8, <2>9
      <4>2. CASE j # i
        <5>1. NotDead(heap, cw, j)
          BY <3>1, <4>2, <2>3 DEF NotDead
        <5> QED
          BY <3>1, <5>1, <2>8, <2>9, <1>1 DEF Whole
      <4> QED
        BY <4>1, <4>2
    <3>2. Main \in Ids /\ tmudata \subseteq Ids
      BY <1>1 DEF Main, Ids, HeapTypes
    <3> QED
      BY <3>1, <3>2, <1>1, <2>9 DEF Whole
  <2>11. PhaseOk(h)
    <3>1. \A j \in Ids : h[j].mark = cw \/ h[j] = heap[j]
      BY <2>3, <2>5
    <3>2. \A j \in Ids : Alive(h[j]) <=> Alive(heap[j])
      BY <2>8
    <3>3. \A j \in Ids : h[j].kind = heap[j].kind
      BY <2>3, <2>5
    <3> QED
      BY <3>1, <3>2, <3>3, <2>1, <1>1 DEF PhaseInv, PhaseOk, Settled
  <2>12. FinalOk(h)
    <3>1. i \notin tmudata /\ tmudata \subseteq Ids
      BY <1>1 DEF FinalOk, HeapTypes
    <3>2. \A u \in tmudata : h[u] = heap[u]
      BY <3>1, <2>3
    <3>3. \A j \in Ids : h[j].fin = heap[j].fin /\ h[j].kind = heap[j].kind
      BY <2>3, <2>5
    <3> QED
      BY <1>1, <3>2, <3>3 DEF FinalOk
  <2>13. GarbageOk(h, stack, R)
    <3>1. \A j \in garbage : j \in Ids /\ h[j].kind # "unborn" /\ (j # i => h[j] = heap[j])
      <4> TAKE j \in garbage
      <4>1. j \in Ids /\ heap[j].kind # "unborn"
        BY <1>1 DEF GarbageOk, HeapTypes
      <4> QED
        BY <4>1, <2>3, <2>5
    <3>2. \A j \in garbage \ R : j # i /\ j \in Ids /\ h[j] = heap[j]
      BY <3>1
    <3>3. \A j \in Ids \ garbage : Alive(h[j]) => RefsOf(h, stack, j) \cap garbage \subseteq R
      BY <1>1, <2>8 DEF GarbageOk
    <3> QED
      BY <1>1, <3>1, <3>2, <3>3 DEF GarbageOk
  <2> QED
    BY <2>1, <2>3, <2>4, <2>5, <2>8, <2>9, <2>10, <2>11, <2>12, <2>13 DEF Ok
<1> QED
  BY <1>3, <1>4

\* What the program puts in a slot is in its reach.
LEMMA InReach ==
  ASSUME MaxObjects \in Nat, tmudata \subseteq Ids, NEW h, NEW st \in [Ids -> Seq(Refs)], h[Main].kind = "thread",
         NEW a \in 1 .. Len(st[Main]), NEW v \in Refs \cap Ids
  PROVE  v \in Reachable(h, PutAt(st, a, v), tmudata)
<1>1. PutAt(st, a, v)[Main][a] = v /\ Len(PutAt(st, a, v)[Main]) = Len(st[Main]) /\ Main \in Ids
      /\ PutAt(st, a, v) \in [Ids -> Seq(Refs)]
  <2>1. Main \in Ids /\ v \in Refs
    BY DEF Main, Ids
  <2>2. PutAt(st, a, v) \in [Ids -> Seq(Refs)] /\ Len(PutAt(st, a, v)[Main]) = Len(st[Main])
    BY <2>1, PutAtIs
  <2>3. PutAt(st, a, v)[Main][a] = v
    BY <2>1, PutAtIs
  <2> QED
    BY <2>1, <2>2, <2>3
<1> DEFINE st2 == PutAt(st, a, v)
<1> HIDE DEF st2
<1>2. v \in RefsOf(h, st2, Main)
  BY <1>1 DEF RefsOf, ToSet, st2
<1> QED
  BY <1>2, ReachableIs DEF st2

(* luaS_newlstr: the interned string, back to life if it was about to go (lstring.c:83-91). *)
LEMMA NewStringOk ==
  ASSUME HeapInstance, HeapInv, NEW a \in 1 .. Slots, NEW bytes \in program.kinds.string, NewString(a, bytes)
  PROVE  HeapInv'
<1> DEFINE same == {i \in Of(heap, "string") : heap[i].mode = bytes}
<1>1. CASE \E i \in same : heap' = Revived(i) /\ UNCHANGED Lists /\ May(Puts(a, i))
  <2>1. PICK i \in same : heap' = Revived(i) /\ UNCHANGED Lists /\ May(Puts(a, i))
    BY <1>1
  <2> DEFINE R == Reachable(heap', stack', tmudata)
             h == Revived(i)
  <2>2. /\ stack' = PutAt(stack, a, i) /\ May(stack') /\ atomic = "no" /\ full = "no" /\ heap' = h
        /\ gray' = gray /\ grayagain' = grayagain /\ weak' = weak /\ gray' \subseteq Ids /\ grayagain' \subseteq Ids
    BY <2>1 DEF May, Runs, Puts, PutAt, Lists, HeapInv, HeapTypes
  <2>3. /\ i \in Ids /\ heap[i].kind = "string" /\ MaxObjects \in Nat /\ Shaped(heap, stack) /\ tmudata \subseteq Ids
        /\ i \in Refs /\ Nil \notin Ids /\ Main \in Ids
    <3>1. i \in Ids /\ heap[i].kind = "string"
      BY DEF Of
    <3> QED
      BY <3>1, OnStack DEF HeapInv, HeapTypes, Refs, Ids, Main, Nil
  <2>4. RefsOf(heap, stack, i) = {Nil}
    <3>1. heap[i].val = Nil
      BY <2>3 DEF Shaped, ShapedAt
    <3> QED
      BY <2>3, <3>1 DEF RefsOf
  <2>5. R = Reachable(h, PutAt(stack, a, i), tmudata)
    BY <2>2
  <2> HIDE DEF R
  <2>6. h[Main].kind = "thread"
    BY <2>3, OnStack DEF Revived
  <2>7. i \in R
    <3> HIDE DEF h
    <3> QED
      BY <2>3, <2>5, <2>6, OnStack, InReach
  <2>8. /\ Ok(h, stack, gray, grayagain, R) /\ NotDead(h, cw, i) /\ h[i].kind = "string"
    BY <2>2, <2>3, <2>4, <2>7, ReviveOk
  <2> HIDE DEF h
  <2>9. Context
    BY <2>2, OkStart
  <2>10. Ok(h, PutAt(stack, a, i), gray, grayagain, R)
    BY <2>3, <2>5, <2>8, <2>9, PutAtOk DEF IsValue
  <2>11. Ok(heap', stack', gray', grayagain', R)
    BY <2>2, <2>10
  <2> QED
    BY <2>2, <2>11, OkEnd DEF R
<1>2. CASE same = {} /\ NewObject([Blank EXCEPT !.kind = "string", !.mode = bytes], Puts(a, Fresh(Unborn)))
  <2> DEFINE i == Fresh(Unborn)
             o == [Blank EXCEPT !.kind = "string", !.mode = bytes]
             h2 == Linked(heap, i, o)
  <2>1. NewObject(o, PutAt(stack, a, i)) /\ Unborn # {}
    BY <1>2 DEF NewObject, Puts, PutAt
  <2>2. /\ i \in Ids \ {Main} /\ heap[i].kind = "unborn" /\ i \in Refs /\ Nil \notin Ids
        /\ heap \in [Ids -> Objects] /\ stack \in [Ids -> Seq(Refs)] /\ cw \in {"w0", "w1"}
    <3>1. i \in Ids \ {Main} /\ heap[i].kind = "unborn" /\ i \in Refs
      BY <2>1, UnbornIs
    <3>2. heap \in [Ids -> Objects] /\ stack \in [Ids -> Seq(Refs)]
      BY OnStack
    <3>3. cw \in {"w0", "w1"} /\ Nil \notin Ids
      BY DEF HeapInv, HeapTypes, Nil, Ids
    <3> QED
      BY <3>1, <3>2, <3>3
  <2>3. bytes \in Modes
    BY ModesAre DEF HeapInv, HeapTypes
  <2>4. o \in Objects /\ o.kind = "string" /\ o.val = Nil /\ o.mode = bytes
    BY <2>3 DEF Blank, Objects, ObjectKinds, Refs, Nil
  <2>5. h2[i].kind = "string" /\ h2[i].val = Nil
    BY <2>2, <2>4 DEF Linked
  <2>6. \A n \in DOMAIN stack[i] : IsValue(h2, stack[i][n])
    BY <2>2, BlankStack DEF HeapInv
  <2>7. \A j \in Of(heap, "string") : heap[j].mode # o.mode
    BY <1>2, <2>4
  <2> HIDE DEF i, o, h2
  <2>8. ShapedAt(h2, stack, i) /\ AllRefs(h2, stack, i) = {Nil}
    BY <2>5, <2>6 DEF ShapedAt, IsOpen, AllRefs, RefsOf, Entry
  <2>9. i = Fresh(Unborn) /\ h2 = Linked(heap, i, o)
    BY DEF i, h2
  <2> QED
    BY <2>1, <2>2, <2>4, <2>7, <2>8, <2>9, MakeOk
<1> QED
  BY <1>1, <1>2 DEF NewString

(* A new closure refers to its upvalue. *)
LEMMA FunctionIs ==
  ASSUME MaxObjects \in Nat, NEW uv \in Refs
  PROVE  Function(uv) \in Objects /\ Function(uv).kind = "function" /\ Function(uv).val = uv
  BY DEF Function, Blank, Objects, ObjectKinds, Refs, Nil, Modes

(* luaF_findupval finds the open upvalue, back to life if it was about to go (lfunc.c:56-60). *)
LEMMA FoundOk ==
  ASSUME HeapInstance, HeapInv, NEW a \in 1 .. Slots, NEW t \in Ids, heap[t].kind = "thread", NotDead(heap, cw, t),
         NEW b \in 1 .. Room(t), NEW i \in OpenOf({t}), heap[i].slot = b, Unborn # {},
         NEW uv, uv = Fresh(Unborn), heap' = Linked(Revived(i), uv, Function(i)), UNCHANGED Lists, May(Puts(a, uv))
  PROVE  HeapInv'
<1> DEFINE R == Reachable(heap', stack', tmudata)
           h == Revived(i)
           h2 == Linked(h, uv, Function(i))
<1>1. /\ stack' = PutAt(stack, a, uv) /\ May(stack') /\ atomic = "no" /\ full = "no" /\ heap' = h2
      /\ gray' = gray /\ grayagain' = grayagain /\ weak' = weak /\ gray' \subseteq Ids /\ grayagain' \subseteq Ids
  BY DEF May, Runs, Puts, PutAt, Lists, HeapInv, HeapTypes
<1>2. /\ uv \in Ids \ {Main} /\ heap[uv].kind = "unborn" /\ uv \in Refs /\ uv # Nil
      /\ MaxObjects \in Nat /\ Shaped(heap, stack) /\ tmudata \subseteq Ids /\ Main \in Ids /\ Whole(heap, stack, cw, tmudata)
      /\ stack \in [Ids -> Seq(Refs)] /\ heap[Main].kind = "thread" /\ Len(stack[Main]) = Slots /\ heap \in [Ids -> Objects]
  BY UnbornIs, OnStack DEF HeapInv, HeapTypes
<1>3. /\ i \in Ids /\ heap[i].kind = "upval" /\ IsOpen(heap[i]) /\ heap[i].on = t /\ i # uv /\ i # Main /\ i \in Refs /\ i # Nil
  <2>1. i \in Ids /\ heap[i].kind = "upval" /\ IsOpen(heap[i]) /\ heap[i].on = t
    BY DEF OpenOf, IsOpen
  <2> QED
    BY <2>1, <1>2 DEF Refs, Ids, Main, Nil
<1>4. Len(stack[t]) = Room(t)
  BY <1>2 DEF Shaped, ShapedAt
<1>5. RefsOf(heap, stack, i) = {stack[t][b]} /\ stack[t][b] \in RefsOf(heap, stack, t)
  BY <1>2, <1>3, <1>4 DEF RefsOf, ToSet
<1>6. \A r \in RefsOf(heap, stack, i) \cap Ids : NotDead(heap, cw, r)
  BY <1>2, <1>5 DEF Whole, AllRefs
<1>7. \A j \in Ids : h[j].kind = heap[j].kind
  BY <1>2 DEF Revived
<1>8. h2[Main].kind = "thread" /\ h2[uv].kind = "function" /\ h2[uv].val = i /\ h2[i].kind = "upval"
  <2> DEFINE o == Function(i)
             o2 == [o EXCEPT !.mark = cw]
  <2>1. h2[uv] = o2 /\ \A j \in Ids \ {uv} : h2[j] = h[j]
    BY <1>2 DEF Linked, Revived
  <2> HIDE DEF h, h2
  <2>2. o2.kind = "function" /\ o2.val = i
    <3>1. o \in Objects /\ o.kind = "function" /\ o.val = i
      BY <1>2, <1>3, FunctionIs
    <3> HIDE DEF o
    <3> QED
      BY <3>1 DEF Objects
  <2> HIDE DEF o, o2
  <2> QED
    BY <1>2, <1>3, <1>7, <2>1, <2>2
<1>9. R = Reachable(h2, PutAt(stack, a, uv), tmudata)
  BY <1>1
<1> HIDE DEF R, h2
<1>10. uv \in R
  BY <1>2, <1>8, <1>9, InReach
<1>11. RefsOf(h2, PutAt(stack, a, uv), uv) = {i}
  BY <1>8 DEF RefsOf
<1>12. i \in R
  BY <1>2, <1>3, <1>9, <1>10, <1>11, ReachableIs
<1>13. Ok(h, stack, gray, grayagain, R) /\ NotDead(h, cw, i) /\ h \in [Ids -> Objects]
  BY <1>1, <1>3, <1>6, <1>12, ReviveOk
<1> HIDE DEF h
<1>14. Context
  BY <1>1, OkStart
<1>15. Shaped(h, stack)
  BY <1>13 DEF Ok
<1>16. \A n \in DOMAIN stack[uv] : IsValue(h2, stack[uv][n])
  BY <1>2, <1>7, <1>15, BlankStack DEF h2
<1>17. ShapedAt(h2, stack, uv) /\ AllRefs(h2, stack, uv) = {i}
  BY <1>3, <1>8, <1>16 DEF ShapedAt, IsOpen, AllRefs, RefsOf, Entry
<1>18. Function(i) \in Objects /\ Function(i).kind = "function"
  BY <1>2, <1>3, FunctionIs
<1>19. Ok(h2, stack, gray, grayagain, R) /\ CanPut(h2, uv, R)
  <2>1. h2 = Linked(h, uv, Function(i)) /\ h[uv].kind = "unborn"
    BY <1>2, <1>7 DEF h2
  <2>2. \A r \in AllRefs(h2, stack, uv) \cap Ids : r # uv /\ NotDead(h, cw, r) /\ (r \in garbage => r \in R)
    BY <1>3, <1>12, <1>13, <1>17
  <2> DEFINE o == Function(i)
  <2>3. o \in Objects /\ o.kind = "function" /\ h2 = Linked(h, uv, o)
    BY <1>18, <2>1
  <2> HIDE DEF o
  <2> QED
    BY <1>2, <1>13, <1>14, <1>17, <2>1, <2>2, <2>3, Make
<1>20. Ok(h2, PutAt(stack, a, uv), gray, grayagain, R)
  BY <1>2, <1>9, <1>14, <1>19, PutAtOk DEF CanPut
<1>21. Ok(heap', stack', gray', grayagain', R)
  BY <1>1, <1>20
<1> QED
  BY <1>1, <1>21, OkEnd DEF R

(* What is made refers to what is there, and the stacks stay. *)
LEMMA MakeHere ==
  ASSUME Context, NEW h, NEW R, Ok(h, stack, gray, grayagain, R), stack \in [Ids -> Seq(Refs)],
         NEW i \in Ids \ {Main}, h[i].kind = "unborn",
         NEW o0 \in Objects, o0.kind \in {"function", "upval"},
         NEW h2, h2 = Linked(h, i, o0), ShapedAt(h2, stack, i),
         \A r \in AllRefs(h2, stack, i) \cap Ids : r # i /\ NotDead(h, cw, r) /\ (r \in garbage => r \in R)
  PROVE  /\ Ok(h2, stack, gray, grayagain, R) /\ NotDead(h2, cw, i) /\ i \notin garbage
         /\ o0.kind = "function" => CanPut(h2, i, R)
<1>1. /\ o0.kind \in {"table", "thread", "string", "userdata", "function", "upval"}
      /\ \A j \in Ids \ {i} : stack[j] = stack[j]
      /\ o0.kind = "string" => \A j \in Of(h, "string") : h[j].mode # o0.mode
  OBVIOUS
<1>2. /\ Ok(h2, stack, gray, grayagain, R) /\ NotDead(h2, cw, i) /\ i \notin garbage
      /\ o0.kind # "upval" => CanPut(h2, i, R)
  BY <1>1, Make
<1> QED
  BY <1>2

(* luaF_findupval makes a new upvalue, and then the closure is made. *)
LEMMA NotFoundOk ==
  ASSUME HeapInstance, HeapInv, NEW a \in 1 .. Slots, NEW t \in Ids, heap[t].kind = "thread", NotDead(heap, cw, t),
         t \notin garbage, NEW b \in 1 .. Room(t), Unborn # {},
         NEW uv, uv = Fresh(Unborn), Unborn \ {uv} # {}, NEW f, f = Fresh(Unborn \ {uv}),
         NEW o \in Objects, o.kind = "upval", o.on = t, o.slot = b, o.val = Nil,
         heap' = Linked(Linked(heap, uv, o), f, Function(uv)),
         UNCHANGED Lists, May(Puts(a, f))
  PROVE  HeapInv'
<1> DEFINE R == Reachable(heap', stack', tmudata)
           h == Linked(heap, uv, o)
           h2 == Linked(h, f, Function(uv))
<1>1. /\ stack' = PutAt(stack, a, f) /\ May(stack') /\ atomic = "no" /\ heap' = h2
      /\ gray' = gray /\ grayagain' = grayagain /\ weak' = weak /\ gray' \subseteq Ids /\ grayagain' \subseteq Ids
  BY DEF May, Runs, Puts, PutAt, Lists, HeapInv, HeapTypes
<1>2. /\ uv \in Ids \ {Main} /\ heap[uv].kind = "unborn" /\ uv \in Refs /\ uv # Nil
      /\ MaxObjects \in Nat /\ Shaped(heap, stack) /\ tmudata \subseteq Ids /\ Main \in Ids /\ Whole(heap, stack, cw, tmudata)
      /\ GarbageOk(heap, stack, {}) /\ cw \in {"w0", "w1"}
      /\ stack \in [Ids -> Seq(Refs)] /\ heap[Main].kind = "thread" /\ Len(stack[Main]) = Slots /\ heap \in [Ids -> Objects]
  BY UnbornIs, OnStack DEF HeapInv, HeapTypes
<1>3. f \in Ids \ {Main} /\ f # uv /\ heap[f].kind = "unborn" /\ f \in Refs /\ f # Nil
  <2>1. Unborn \ {uv} \in SUBSET Ids
    BY DEF Unborn, Of
  <2>2. f \in Unborn \ {uv}
    BY <1>2, <2>1, FreshIs
  <2> QED
    <3>1. f \in Ids /\ f # uv /\ heap[f].kind = "unborn" /\ f # Main
      BY <1>2, <2>2 DEF Unborn, Of
    <3> QED
      BY <1>2, <3>1 DEF Refs, Ids, Main, Nil
<1>4. Len(stack[t]) = Room(t) /\ t # uv
  BY <1>2 DEF Shaped, ShapedAt
<1>5. t # Nil
  BY DEF Nil, Ids
<1> HIDE DEF R
<1>6. Context /\ Ok(heap, stack, gray, grayagain, R)
  BY <1>1, OkStart
<1>7. /\ h[uv].kind = "upval" /\ h[uv].on = t /\ h[uv].slot = b /\ h[uv].val = Nil /\ h[uv].mark = cw
      /\ \A j \in Ids \ {uv} : h[j] = heap[j]
  <2>1. h[uv] = [o EXCEPT !.mark = cw] /\ \A j \in Ids \ {uv} : h[j] = heap[j]
    BY <1>2 DEF Linked
  <2> HIDE DEF h
  <2> QED
    BY <2>1, <1>5 DEF Objects
<1>8. \A n \in DOMAIN stack[uv] : IsValue(h, stack[uv][n])
  BY <1>2, BlankStack
<1>9. h = Linked(heap, uv, o)
  OBVIOUS
<1> HIDE DEF h
<1>10. ShapedAt(h, stack, uv) /\ AllRefs(h, stack, uv) = {stack[t][b]}
  <2>1. IsOpen(h[uv]) /\ h[t].kind = "thread" /\ b \in 1 .. Room(t) /\ cw # "black"
    BY <1>2, <1>4, <1>5, <1>7 DEF IsOpen
  <2> QED
    BY <1>7, <1>8, <2>1 DEF ShapedAt, IsValue, Nil, Ids, AllRefs, RefsOf, Entry
<1>11. stack[t][b] \in RefsOf(heap, stack, t) /\ IsValue(heap, stack[t][b])
  BY <1>2, <1>4 DEF RefsOf, ToSet, Shaped, ShapedAt
<1>12. \A r \in AllRefs(h, stack, uv) \cap Ids : r # uv /\ NotDead(heap, cw, r) /\ (r \in garbage => r \in R)
  <2>1. \A r \in {stack[t][b]} \cap Ids : r # uv
    BY <1>2, <1>11 DEF IsValue
  <2>2. \A r \in {stack[t][b]} \cap Ids : NotDead(heap, cw, r) /\ r \notin garbage
    BY <1>2, <1>11 DEF Whole, GarbageOk, AllRefs, NotDead
  <2> QED
    BY <1>10, <2>1, <2>2
<1>13. Ok(h, stack, gray, grayagain, R) /\ NotDead(h, cw, uv) /\ uv \notin garbage
  BY <1>2, <1>6, <1>9, <1>10, <1>12, MakeHere
<1>15. Shaped(h, stack) /\ h \in [Ids -> Objects] /\ h[f].kind = "unborn" /\ h[Main].kind = "thread"
  BY <1>2, <1>3, <1>7, <1>13 DEF Ok, Shaped
<1>16. \A n \in DOMAIN stack[f] : IsValue(h2, stack[f][n])
  BY <1>3, <1>15, BlankStack
<1> DEFINE g == Function(uv)
<1>17. h2 = Linked(h, f, g)
  OBVIOUS
<1> HIDE DEF h2
<1>18. /\ g \in Objects /\ g.kind = "function" /\ g.kind \in {"table", "thread", "string", "userdata", "function", "upval"}
       /\ h2[f].kind = "function" /\ h2[f].val = uv /\ h2[uv].kind = "upval"
  <2> DEFINE g2 == [g EXCEPT !.mark = cw]
  <2>1. g \in Objects /\ g.kind = "function" /\ g.val = uv
    BY <1>2, FunctionIs
  <2> HIDE DEF g
  <2>2. h2[f] = g2 /\ \A j \in Ids \ {f} : h2[j] = h[j]
    BY <1>3, <1>15, <1>17 DEF Linked
  <2>3. g2.kind = "function" /\ g2.val = uv
    BY <2>1 DEF Objects
  <2> HIDE DEF g2
  <2> QED
    BY <2>1, <2>2, <2>3, <1>2, <1>3, <1>7
<1> HIDE DEF g
<1>19. ShapedAt(h2, stack, f) /\ AllRefs(h2, stack, f) = {uv}
  BY <1>2, <1>16, <1>18 DEF ShapedAt, IsOpen, AllRefs, RefsOf, Entry
<1>20. Ok(h2, stack, gray, grayagain, R) /\ CanPut(h2, f, R)
  <2>1. \A r \in AllRefs(h2, stack, f) \cap Ids : r # f /\ NotDead(h, cw, r) /\ (r \in garbage => r \in R)
    BY <1>3, <1>13, <1>19
  <2>2. Context /\ Ok(h, stack, gray, grayagain, R) /\ f \in Ids \ {Main} /\ h[f].kind = "unborn"
    BY <1>3, <1>6, <1>13, <1>15
  <2>3. g \in Objects /\ g.kind = "function" /\ h2 = Linked(h, f, g)
    BY <1>17, <1>18
  <2>4. stack \in [Ids -> Seq(Refs)] /\ ShapedAt(h2, stack, f)
    BY <1>2, <1>19
  <2> QED
    BY <2>1, <2>2, <2>3, <2>4, MakeHere
<1>21. R = Reachable(h2, PutAt(stack, a, f), tmudata)
  BY <1>1 DEF R
<1>22. Ok(h2, PutAt(stack, a, f), gray, grayagain, R)
  BY <1>3, <1>6, <1>20, <1>21, PutAtOk DEF CanPut
<1>23. Ok(heap', stack', gray', grayagain', R)
  BY <1>1, <1>22
<1> QED
  BY <1>1, <1>23, OkEnd DEF R

(* OP_CLOSURE: of either of these, or of no object when there is no room. *)
LEMMA NewClosureOk ==
  ASSUME HeapInstance, HeapInv, NEW a \in 1 .. Slots, NEW t \in Ids, heap[t].kind = "thread", NotDead(heap, cw, t),
         t \notin garbage, NEW b \in 1 .. Room(t), NewClosure(a, t, b)
  PROVE  HeapInv'
<1> DEFINE found == {i \in OpenOf({t}) : heap[i].slot = b}
           uv == Fresh(Unborn)
           f == Fresh(Unborn \ {uv})
           o == [Blank EXCEPT !.kind = "upval", !.on = t, !.slot = b]
<1>1. CASE \E i \in found : /\ Unborn # {} /\ heap' = Linked(Revived(i), uv, Function(i)) /\ UNCHANGED Lists
                            /\ May(Puts(a, uv))
  <2>1. PICK i \in found : /\ Unborn # {} /\ heap' = Linked(Revived(i), uv, Function(i)) /\ UNCHANGED Lists
                           /\ May(Puts(a, uv))
    BY <1>1
  <2>2. i \in OpenOf({t}) /\ heap[i].slot = b /\ uv = Fresh(Unborn)
    OBVIOUS
  <2> HIDE DEF uv
  <2> QED
    BY <2>1, <2>2, FoundOk
<1>2. CASE /\ Unborn # {} /\ Unborn \ {uv} # {} /\ heap' = Linked(Linked(heap, uv, o), f, Function(uv))
           /\ UNCHANGED Lists /\ May(Puts(a, f))
  <2>1. uv = Fresh(Unborn) /\ f = Fresh(Unborn \ {uv}) /\ o = [Blank EXCEPT !.kind = "upval", !.on = t, !.slot = b]
    OBVIOUS
  <2>2. b \in Nat /\ t \in Ids \cup {Nil}
    BY DEF Room
  <2>3. o \in Objects /\ o.kind = "upval" /\ o.on = t /\ o.slot = b /\ o.val = Nil
    BY <2>2 DEF Blank, Objects, ObjectKinds, Refs, Nil, Modes
  <2> HIDE DEF uv, f, o
  <2> QED
    BY <1>2, <2>1, <2>3, NotFoundOk
<1> QED
  BY <1>1, <1>2 DEF NewClosure

(* GCTM: a userdata is white again and on the stack of its finalizer, once. *)
LEMMA GctmOk == ASSUME HeapInstance, HeapInv, Gctm PROVE HeapInv'
<1>1. PICK u \in tmudata :
        /\ heap' = [heap EXCEPT ![u].mark = cw] /\ gced' = [gced EXCEPT ![u] = @ + 1] /\ tmudata' = tmudata \ {u}
        /\ \/ UNCHANGED stack
           \/ \E a \in 1 .. Slots : stack' = [stack EXCEPT ![Main][a] = u]
  BY DEF Gctm
<1>2. /\ gcstate = "finalize" /\ full # "sweep"
      /\ UNCHANGED <<program, cw, gcstate, atomic, gray, grayagain, weak, unswept, full, ops>> /\ Note
  BY DEF Gctm, Lists
<1>3. /\ MaxObjects \in Nat /\ Shaped(heap, stack) /\ heap \in [Ids -> Objects] /\ Whole(heap, stack, cw, tmudata) /\ HeapTypes
      /\ PhaseInv /\ FinalOk(heap) /\ StringsOk(heap) /\ GarbageOk(heap, stack, {}) /\ atomic = "no" /\ cw \in {"w0", "w1"}
      /\ Other(cw) # cw /\ tmudata \subseteq Ids /\ garbage \subseteq Ids
  BY <1>2, OtherIs DEF HeapInstance, HeapInv, HeapTypes, Shaped, PhaseInv
<1>4. /\ u \in Ids /\ heap[u].kind = "userdata" /\ NotDead(heap, cw, u) /\ u \notin garbage /\ heap[u].fin /\ gced[u] = 0
      /\ u \in Refs /\ u # Nil
  <2>1. u \in Ids /\ heap[u].kind = "userdata" /\ NotDead(heap, cw, u) /\ u \notin garbage /\ heap[u].fin /\ gced[u] = 0
    BY <1>3 DEF FinalOk, Whole, GarbageOk
  <2>2. heap[Main].kind = "thread"
    BY <1>3 DEF Shaped
  <2> QED
    BY <2>1, <2>2 DEF Refs, Ids, Main, Nil
<1>5. Context /\ Ok(heap, stack, gray, grayagain, {})
  BY <1>3, OkStart
<1>6. Ok(heap, stack', gray, grayagain, {})
  <2>1. CASE UNCHANGED stack
    BY <2>1, <1>5
  <2>2. ASSUME NEW a \in 1 .. Slots, stack' = [stack EXCEPT ![Main][a] = u] PROVE Ok(heap, stack', gray, grayagain, {})
    <3>1. stack' = PutAt(stack, a, u) /\ Main \in Ids
      BY <2>2, OnStack DEF PutAt
    <3>2. stack \in [Ids -> Seq(Refs)] /\ a \in 1 .. Len(stack[Main]) /\ heap[Main].kind = "thread"
      BY OnStack
    <3> DEFINE st2 == PutAt(stack, a, u)
    <3>3. /\ st2 \in [Ids -> Seq(Refs)] /\ Len(st2[Main]) = Len(stack[Main])
          /\ \A j \in Ids \ {Main} : st2[j] = stack[j]
          /\ \A n \in 1 .. Len(stack[Main]) : st2[Main][n] \in {stack[Main][n], u}
      <4>1. MaxObjects \in Nat /\ u \in Refs /\ stack \in [Ids -> Seq(Refs)] /\ a \in 1 .. Len(stack[Main])
        BY <1>3, <1>4, <3>2
      <4> QED
        BY <4>1, PutAtIs
    <3>4. CanPut(heap, u, {})
      BY <1>4 DEF CanPut, IsValue
    <3>5. stack' = st2 /\ Main \in Ids
      BY <3>1
    <3> HIDE DEF st2
    <3>6. Ok(heap, st2, gray, grayagain, {})
      BY <1>5, <3>2, <3>3, <3>4, <3>5, Put
    <3> QED
      BY <3>5, <3>6
  <2> QED
    BY <1>1, <2>1, <2>2
<1>7. /\ heap'[u] = [heap[u] EXCEPT !.mark = cw] /\ \A j \in Ids \ {u} : heap'[j] = heap[j]
      /\ heap' \in [Ids -> Objects]
  <2>1. heap[u] \in Objects /\ [heap[u] EXCEPT !.mark = cw] \in Objects
    BY <1>3, <1>4 DEF Objects
  <2>2. heap' = [heap EXCEPT ![u] = [heap[u] EXCEPT !.mark = cw]]
    BY <1>1
  <2> QED
    BY <2>1, <2>2, <1>3, <1>4
<1>8. heap'[u].mark = cw /\ SameButMarks(heap, heap') /\ heap'[u].fin
  <2>1. heap[u] \in Objects
    BY <1>3, <1>4
  <2> QED
    BY <2>1, <1>4, <1>7 DEF Objects, SameButMarks
<1>9. Shaped(heap, stack') /\ Whole(heap, stack', cw, tmudata) /\ GarbageOk(heap, stack', {})
  BY <1>6 DEF Ok
<1>10. \A i \in Ids : IsOpen(heap'[i]) => heap'[i].mark # "black"
  <2> SUFFICES ASSUME NEW i \in Ids, IsOpen(heap'[i]) PROVE heap'[i].mark # "black"
    OBVIOUS
  <2>1. heap'[i] = heap[i]
    BY <1>4, <1>7, <1>8 DEF IsOpen, SameButMarks
  <2> QED
    BY <2>1, <1>3 DEF Shaped, ShapedAt
<1>11. /\ Shaped(heap', stack') /\ StringsOk(heap')
       /\ \A i \in Ids : /\ RefsOf(heap', stack', i) = RefsOf(heap, stack', i)
                         /\ AllRefs(heap', stack', i) = AllRefs(heap, stack', i)
                         /\ Alive(heap'[i]) <=> Alive(heap[i])
  BY <1>3, <1>7, <1>8, <1>9, <1>10, SameRefs
<1>12. Whole(heap, stack, cw, tmudata)'
  <2>1. \A i \in Ids : NotDead(heap', cw, i) <=> NotDead(heap, cw, i)
    BY <1>3, <1>4, <1>7, <1>8, <1>11 DEF NotDead
  <2>2. Main \in Ids
    BY <1>3 DEF Main, Ids
  <2>3. Whole(heap', stack', cw, tmudata \ {u})
    BY <1>3, <1>9, <1>11, <2>1, <2>2 DEF Whole
  <2> QED
    BY <1>1, <1>2, <2>3 DEF Whole, NotDead, AllRefs
<1>13. FinalOk(heap)'
  <2>1. \A v \in tmudata \ {u} : heap'[v] = heap[v] /\ gced'[v] = gced[v]
    BY <1>1, <1>3, <1>7 DEF HeapTypes
  <2>2. ASSUME NEW i \in Ids, gced'[i] # 0 PROVE heap'[i].fin /\ heap'[i].kind # "unborn"
    <3>1. CASE i = u
      BY <3>1, <1>4, <1>8 DEF SameButMarks
    <3>2. CASE i # u
      BY <2>2, <3>2, <1>1, <1>3, <1>7 DEF HeapTypes, FinalOk
    <3> QED
      BY <3>1, <3>2
  <2> QED
    BY <1>1, <1>2, <1>3, <2>1, <2>2 DEF FinalOk
<1>14. garbage' \subseteq Ids /\ GarbageOk(heap, stack, {})'
  <2>1. \A i \in garbage : heap'[i].kind # "unborn" /\ heap'[i] = heap[i]
    BY <1>3, <1>4, <1>7 DEF GarbageOk
  <2>2. \A i \in Ids \ garbage : Alive(heap'[i]) => RefsOf(heap', stack', i) \cap garbage \subseteq {}
    BY <1>9, <1>11 DEF GarbageOk
  <2>3. \A i \in garbage : Alive(heap'[i]) => heap'[i].mark = Other(cw')
    BY <1>2, <1>3, <2>1 DEF GarbageOk
  <2>4. tmudata' \in SUBSET Ids /\ gcstate' # "propagate"
    BY <1>1, <1>2, <1>3
  <2> QED
    BY <1>2, <1>3, <2>1, <2>2, <2>3, <2>4, GarbageNoted
<1>15. PhaseInv'
  <2>1. \A i \in Ids : Alive(heap'[i]) => i \in tmudata' \/ heap'[i].mark = cw
    BY <1>1, <1>2, <1>3, <1>4, <1>7, <1>8 DEF PhaseInv, PhaseOk, Settled
  <2> QED
    BY <1>2, <1>3, <2>1 DEF PhaseInv, PhaseOk, Settled
<1>16. HeapTypes' /\ ColourInv'
  <2>1. gced' \in [Ids -> 0 .. 1]
    BY <1>1, <1>3, <1>4 DEF HeapTypes
  <2> QED
    BY <1>1, <1>2, <1>3, <1>14, <2>1 DEF HeapTypes, ColourInv
<1>17. Shaped(heap, stack)' /\ StringsOk(heap)'
  BY <1>11 DEF Shaped, ShapedAt, StringsOk
<1> QED
  BY <1>12, <1>13, <1>14, <1>15, <1>16, <1>17 DEF HeapInv

--------------------------------------------------------------------------
(* The write barriers. *)
Parts(h, st) ==
  Shaped(h, st) /\ Whole(h, st, cw, tmudata) /\ PhaseOk(h) /\ FinalOk(h) /\ StringsOk(h) /\ GarbageOk(h, st, {})

\* Another value is stored in the object i, which may lose its mark for it.
Changed(i, h) ==
  /\ i \in Ids \ {Main} /\ i \notin garbage /\ NotDead(heap, cw, i) /\ heap[i].kind \in {"table", "upval", "userdata"}
  /\ ~ IsOpen(heap[i]) /\ h \in [Ids -> Objects] /\ \A j \in Ids \ {i} : h[j] = heap[j]
  /\ h[i].kind = heap[i].kind /\ h[i].mode = heap[i].mode /\ h[i].on = heap[i].on /\ h[i].fin = heap[i].fin
  /\ h[i].mark = heap[i].mark \/ (heap[i].mark = "black" /\ h[i].mark \in {cw, "gray"})
  /\ i \in tmudata => h[i].mark \in {cw, "black"}
  /\ ShapedAt(h, stack, i)
  /\ \A r \in AllRefs(h, stack, i) \cap Ids : NotDead(heap, cw, r) /\ r \notin garbage

(* A reference that an object gets leaves the rest of the heap as it was. *)
LEMMA Change ==
  ASSUME HeapInstance, HeapInv, atomic = "no", full = "no", NEW i, NEW h, Changed(i, h)
  PROVE  /\ Parts(h, stack)
         /\ \A j \in Ids \ {i} : RefsOf(h, stack, j) = RefsOf(heap, stack, j)
         /\ \A j \in Ids : IsOpen(h[j]) <=> IsOpen(heap[j])
<1>1. /\ MaxObjects \in Nat /\ Shaped(heap, stack) /\ heap \in [Ids -> Objects] /\ Whole(heap, stack, cw, tmudata)
      /\ GarbageOk(heap, stack, {}) /\ PhaseInv /\ FinalOk(heap) /\ StringsOk(heap) /\ HeapTypes /\ Main \in Ids
      /\ cw \in {"w0", "w1"} /\ Other(cw) # cw /\ Other(cw) \notin {"gray", "black"} /\ tmudata \subseteq Ids /\ garbage \subseteq Ids
  BY OtherIs DEF HeapInstance, HeapInv, HeapTypes, Shaped, Main, Ids
<1> USE DEF Changed
<1>2. \A j \in Ids : h[j].kind = heap[j].kind /\ h[j].fin = heap[j].fin /\ h[j].mode = heap[j].mode
  OBVIOUS
<1>3. \A j \in Ids : (Alive(h[j]) <=> Alive(heap[j])) /\ (IsOpen(h[j]) <=> IsOpen(heap[j]))
  BY <1>2 DEF Alive, IsOpen
<1>4. NotDead(h, cw, i) /\ \A j \in Ids : NotDead(h, cw, j) <=> NotDead(heap, cw, j)
  BY <1>1, <1>3 DEF NotDead
<1>5. \A r : (IsValue(h, r) <=> IsValue(heap, r)) /\ (IsString(h, r) <=> IsString(heap, r))
  BY <1>2 DEF IsValue, IsString
<1>6. ASSUME NEW j \in Ids \ {i}
      PROVE  /\ ShapedAt(h, stack, j)
             /\ RefsOf(h, stack, j) = RefsOf(heap, stack, j) /\ AllRefs(h, stack, j) = AllRefs(heap, stack, j)
  <2>1. ShapedAt(heap, stack, j) /\ h[j] = heap[j] /\ heap[j] \in Objects
    BY <1>1 DEF Shaped
  <2>2. h[j].val # Nil => h[j].val \in Ids /\ h[h[j].val].kind = heap[h[j].val].kind
    BY <2>1, <1>2 DEF Objects, Refs, Ids
  <2>3. IsOpen(h[j]) => h[h[j].on].kind = heap[h[j].on].kind
    <3>1. IsOpen(h[j]) => h[j].on \in Ids
      BY <2>1, <1>1, RefsAre
    <3> QED
      BY <3>1, <1>2
  <2>4. ShapedAt(h, stack, j)
    BY <2>1, <2>2, <2>3, <1>5 DEF ShapedAt
  <2>5. RefsOf(h, stack, j) = RefsOf(heap, stack, j)
    BY <2>1, <1>5 DEF RefsOf
  <2> QED
    BY <2>1, <2>4, <2>5 DEF AllRefs
<1>7. Shaped(h, stack)
  <2>1. h[Main].kind = "thread" /\ stack \in [Ids -> Seq(Refs)]
    BY <1>1, <1>2 DEF Shaped
  <2> QED
    BY <2>1, <1>6 DEF Shaped
<1>8. Whole(h, stack, cw, tmudata)
  <2>1. ASSUME NEW j \in Ids, NotDead(h, cw, j), NEW r \in AllRefs(h, stack, j) \cap Ids PROVE NotDead(h, cw, r)
    <3>1. CASE j = i
      BY <2>1, <3>1, <1>4
    <3>2. CASE j # i
      BY <2>1, <3>2, <1>1, <1>4, <1>6 DEF Whole
    <3> QED
      BY <3>1, <3>2
  <2> QED
    BY <2>1, <1>1, <1>4 DEF Whole
<1>9. PhaseOk(h)
  <2>1. \A j \in Ids : h[j].kind = "string" => h[j] = heap[j]
    BY <1>2
  <2>2. \A j \in Ids : Alive(heap[j]) /\ Settled(heap, j) => Settled(h, j)
    BY <1>1 DEF Settled
  <2>3. \A j \in Ids : IF IsOpen(heap[j]) THEN h[j].on = heap[j].on ELSE TRUE
    OBVIOUS
  <2>4. gcstate = "propagate" => \A j \in Ids : Alive(h[j]) => h[j].mark # Other(cw)
    BY <1>1, <1>3 DEF PhaseInv, PhaseOk
  <2>5. gcstate = "sweep" => \A j \in Ids : Alive(h[j]) => Settled(h, j) \/ (IF IsOpen(h[j]) THEN h[j].on ELSE j) \in unswept
    BY <1>1, <1>3, <2>2, <2>3 DEF PhaseInv, PhaseOk
  <2>6. gcstate \in {"pause", "finalize"} => \A j \in Ids : Alive(h[j]) => Settled(h, j)
    BY <1>1, <1>3, <2>2 DEF PhaseInv, PhaseOk
  <2>7. gcstate \in {"sweepstring", "sweep"} =>
          \A j \in Ids : h[j].kind = "string" => h[j].mark = cw \/ (gcstate = "sweepstring" /\ j \in unswept)
    BY <1>1, <2>1 DEF PhaseInv, PhaseOk
  <2> QED
    BY <2>4, <2>5, <2>6, <2>7 DEF PhaseOk
<1>10. FinalOk(h)
  BY <1>1, <1>2 DEF FinalOk
<1>11. StringsOk(h)
  BY <1>1, <1>2 DEF StringsOk, Of
<1>12. GarbageOk(h, stack, {})
  <2>1. \A j \in Ids \ garbage : Alive(h[j]) => RefsOf(h, stack, j) \cap garbage \subseteq {}
    <3>1. RefsOf(h, stack, i) \cap garbage = {}
      BY <1>1 DEF AllRefs
    <3> QED
      BY <3>1, <1>1, <1>3, <1>6 DEF GarbageOk
  <2>2. \A j \in garbage : j \in Ids /\ h[j] = heap[j]
    BY <1>1
  <2> QED
    BY <2>1, <2>2, <1>1 DEF GarbageOk
<1> QED
  BY <1>3, <1>6, <1>7, <1>8, <1>9, <1>10, <1>11, <1>12 DEF Parts

(* The colours hold after it, but for what the barrier is about to mark. *)
LEMMA ChangeColours ==
  ASSUME HeapInstance, HeapInv, atomic = "no", full = "no", gcstate = "propagate", NEW i, NEW h, Changed(i, h),
         NEW also, h[i].mark = "black" => BlackOk(h, stack, tmudata, atomic, also, i), NEW ga,
         \/ h[i].mark = heap[i].mark /\ ga = grayagain
         \/ heap[i].mark = "black" /\ h[i].mark = "gray" /\ heap[i].kind = "table" /\ ga = grayagain \cup {i}
  PROVE  Colours(h, stack, gray, ga, weak, tmudata, atomic, also)
<1>1. /\ i \in Ids /\ Alive(heap[i]) /\ \A j \in Ids \ {i} : h[j] = heap[j]
      /\ h[i].kind = heap[i].kind /\ h[i].mode = heap[i].mode
      /\ Colours(heap, stack, gray, grayagain, weak, tmudata, atomic, {})
  BY DEF Changed, NotDead, HeapInv, ColourInv
<1>2. /\ \A j \in Ids \ {i} : RefsOf(h, stack, j) = RefsOf(heap, stack, j)
      /\ \A j \in Ids : IsOpen(h[j]) <=> IsOpen(heap[j])
  BY Change
<1>3. \A j \in Ids : IsWhite(h[j]) => IsWhite(heap[j])
  BY <1>1 DEF IsWhite
<1>4. \A rs : Clear(heap, rs, {}) => Clear(h, rs, also)
  BY <1>3 DEF Clear
<1>5. ASSUME NEW j \in Ids, Alive(h[j]) /\ h[j].mark = "black" PROVE BlackOk(h, stack, tmudata, atomic, also, j)
  <2>1. CASE j = i
    BY <2>1, <1>5
  <2>2. CASE j # i
    <3>1. BlackOk(heap, stack, tmudata, atomic, {}, j) /\ h[j] = heap[j]
      BY <2>2, <1>1, <1>5 DEF Colours
    <3> QED
      BY <2>2, <3>1, <1>2, <1>4 DEF BlackOk
  <2> QED
    BY <2>1, <2>2
<1>6. ListsOk(heap, gray, grayagain, weak) /\ \A j \in Ids : h[j].kind = heap[j].kind /\ (IsWeak(h[j]) <=> IsWeak(heap[j]))
  BY <1>1 DEF Colours, IsWeak, WeakKey, WeakValue
<1>7. CASE h[i].mark = heap[i].mark /\ ga = grayagain
  <2>1. \A j \in Ids : h[j].mark = heap[j].mark /\ (Alive(h[j]) <=> Alive(heap[j]))
    BY <1>1, <1>7, <1>6 DEF Alive
  <2>2. ListsOk(h, gray, ga, weak)
    BY <1>6, <1>7, <2>1 DEF ListsOk
  <2>3. \A j \in Ids : Alive(h[j]) /\ h[j].mark = "gray" => h[j].kind = "string" \/ IsOpen(h[j]) \/ j \in gray \cup ga \cup weak
    BY <1>1, <1>2, <1>6, <1>7, <2>1 DEF Colours
  <2>4. Clear(h, {Main}, also)
    BY <1>1, <1>4 DEF Colours
  <2> QED
    BY <1>5, <2>2, <2>3, <2>4 DEF Colours
<1>8. CASE heap[i].mark = "black" /\ h[i].mark = "gray" /\ heap[i].kind = "table" /\ ga = grayagain \cup {i}
  <2>1. ~ IsWeak(heap[i])
    BY <1>1, <1>8 DEF Colours, BlackOk
  <2>2. ListsOk(h, gray, ga, weak)
    <3>1. \A j \in gray \cup grayagain \cup weak : j \in Ids /\ j # i /\ h[j] = heap[j]
      BY <1>1, <1>6, <1>8 DEF ListsOk
    <3> QED
      BY <3>1, <2>1, <1>1, <1>6, <1>8 DEF ListsOk, Listed
  <2>3. \A j \in Ids : Alive(h[j]) /\ h[j].mark = "gray" => h[j].kind = "string" \/ IsOpen(h[j]) \/ j \in gray \cup ga \cup weak
    BY <1>1, <1>2, <1>6, <1>8 DEF Colours
  <2>4. Clear(h, {Main}, also)
    BY <1>1, <1>4 DEF Colours
  <2> QED
    BY <1>5, <2>2, <2>3, <2>4 DEF Colours
<1> QED
  BY <1>7, <1>8

(* What got back into reach may only be more. *)
LEMMA OkMore ==
  ASSUME NEW h, NEW st, NEW gr, NEW ga, NEW R, Ok(h, st, gr, ga, {})
  PROVE  Ok(h, st, gr, ga, R)
  BY DEF Ok, GarbageOk

(* OP_SETTABLE: luaC_barrierback grays a black table. *)
LEMMA SetTableOk ==
  ASSUME HeapInstance, HeapInv, NEW t \in 1 .. Slots, NEW k \in Values, NEW v,
         v = Nil \/ \E b \in 1 .. Slots : v = At(b), SetTable(t, k, v)
  PROVE  HeapInv'
<1> DEFINE i == At(t)
           new == heap[i].key # k
           vs == (IF new THEN {k} ELSE {}) \cup {v}
           h1 == [heap EXCEPT ![i].key = k, ![i].val = v]
           watched == heap[i].mark = "black" /\ Whites(h1, vs) # {}
           R == Reachable(heap', stack', tmudata)
<1>1. IsA(t, "table") /\ ~ (new /\ heap[i].val # Nil) /\ BarrierBack(h1, i, vs) /\ May(stack)
  BY DEF SetTable
<1>2. /\ i \in Ids \ {Main} /\ NotDead(heap, cw, i) /\ heap[i].kind = "table" /\ i \notin garbage
      /\ heap \in [Ids -> Objects] /\ stack \in [Ids -> Seq(Refs)] /\ MaxObjects \in Nat
  BY <1>1, OnStack DEF IsA
<1>3. \A r \in {k, v} : r \in Refs /\ IsValue(heap, r) /\ (r # Nil => r \in Ids /\ NotDead(heap, cw, r) /\ r \notin garbage)
  <2>1. k = Nil \/ \E b \in 1 .. Slots : k = At(b)
    BY OnStack DEF Values, ToSet, At
  <2> QED
    BY <2>1, OnStack DEF Refs, IsValue, Nil, Ids
<1> HIDE DEF i, vs, h1, watched, R
<1>4. /\ May(stack') /\ atomic = "no" /\ full = "no" /\ stack' = stack
      /\ HeapTypes /\ FinalOk(heap) /\ Shaped(heap, stack) /\ cw \in {"w0", "w1"}
  <2>1. stack' = stack /\ atomic = "no" /\ full = "no"
    BY <1>1 DEF May, Runs
  <2>2. May(stack')
    BY <2>1, <1>1
  <2>3. HeapTypes /\ FinalOk(heap) /\ Shaped(heap, stack)
    BY DEF HeapInv
  <2> QED
    BY <2>1, <2>2, <2>3 DEF HeapTypes
<1>5. /\ h1 \in [Ids -> Objects] /\ \A j \in Ids \ {i} : h1[j] = heap[j]
      /\ h1[i] = [heap[i] EXCEPT !.key = k, !.val = v]
  <2>1. heap[i] \in Objects /\ [heap[i] EXCEPT !.key = k, !.val = v] \in Objects
    BY <1>2, <1>3 DEF Objects
  <2>2. h1 = [heap EXCEPT ![i] = [heap[i] EXCEPT !.key = k, !.val = v]]
    BY <1>2 DEF h1
  <2> QED
    BY <2>1, <2>2, <1>2
<1>6. /\ h1[i].key = k /\ h1[i].val = v /\ h1[i].kind = "table" /\ h1[i].mode = heap[i].mode /\ h1[i].mark = heap[i].mark
      /\ h1[i].on = heap[i].on /\ h1[i].fin = heap[i].fin /\ h1[i].slot = heap[i].slot
  BY <1>2, <1>5 DEF Objects
<1>7. /\ heap' = (IF watched THEN [h1 EXCEPT ![i].mark = "gray"] ELSE h1)
      /\ grayagain' = (IF watched THEN grayagain \cup {i} ELSE grayagain)
      /\ gray' = gray /\ weak' = weak
  BY <1>1, <1>6 DEF BarrierBack, watched
<1>8. /\ heap' \in [Ids -> Objects] /\ \A j \in Ids \ {i} : heap'[j] = heap[j]
      /\ heap'[i].key = k /\ heap'[i].val = v /\ heap'[i].kind = "table" /\ heap'[i].mode = heap[i].mode
      /\ heap'[i].on = heap[i].on /\ heap'[i].fin = heap[i].fin
      /\ heap'[i].mark = (IF watched THEN "gray" ELSE heap[i].mark)
  <2>1. CASE ~ watched
    BY <2>1, <1>5, <1>6, <1>7
  <2>2. CASE watched
    <3>0. h1[i] \in Objects
      BY <1>2, <1>5
    <3>1. [h1[i] EXCEPT !.mark = "gray"] \in Objects
      BY <3>0 DEF Objects
    <3>2. heap' = [h1 EXCEPT ![i] = [h1[i] EXCEPT !.mark = "gray"]]
      BY <1>7, <2>2
    <3>3. heap'[i] = [h1[i] EXCEPT !.mark = "gray"] /\ heap' \in [Ids -> Objects] /\ \A j \in Ids \ {i} : heap'[j] = heap[j]
      BY <1>2, <1>5, <3>1, <3>2
    <3> QED
      BY <2>2, <3>0, <3>3, <1>6 DEF Objects
  <2> QED
    BY <2>1, <2>2
<1>9. RefsOf(heap', stack, i) \subseteq {k, v} /\ AllRefs(heap', stack, i) \subseteq {k, v}
  <2>1. Entry(heap'[i]) \subseteq {k, v} /\ Strong(heap'[i]) \subseteq {k, v}
    BY <1>8 DEF Entry, Strong
  <2> QED
    BY <1>8, <2>1 DEF RefsOf, AllRefs
<1>10. Changed(i, heap')
  <2>1. \A r : IsValue(heap, r) => IsValue(heap', r)
    BY <1>2, <1>8 DEF IsValue
  <2>2. ShapedAt(heap', stack, i)
    <3>1. ShapedAt(heap, stack, i)
      BY <1>2, <1>4 DEF Shaped
    <3> QED
      BY <3>1, <2>1, <1>2, <1>3, <1>8 DEF ShapedAt, IsOpen
  <2>3. i \notin tmudata
    BY <1>2, <1>4 DEF FinalOk
  <2>4. watched => heap[i].mark = "black"
    BY DEF watched
  <2>5. Nil \notin Ids
    BY <1>2 DEF Nil, Ids
  <2>6. ~ IsOpen(heap[i])
    BY <1>2 DEF IsOpen
  <2>7. \A r \in AllRefs(heap', stack, i) \cap Ids : NotDead(heap, cw, r) /\ r \notin garbage
    BY <1>3, <1>9, <2>5
  <2> QED
    BY <1>2, <1>8, <2>2, <2>3, <2>4, <2>6, <2>7 DEF Changed
<1>11. gcstate = "propagate" => Colours(heap', stack, gray, grayagain', weak, tmudata, atomic, {})
  <2> SUFFICES ASSUME gcstate = "propagate" PROVE Colours(heap', stack, gray, grayagain', weak, tmudata, atomic, {})
    OBVIOUS
  <2>1. \/ heap'[i].mark = heap[i].mark /\ grayagain' = grayagain
        \/ heap[i].mark = "black" /\ heap'[i].mark = "gray" /\ heap[i].kind = "table" /\ grayagain' = grayagain \cup {i}
    BY <1>2, <1>7, <1>8 DEF watched
  <2>2. ASSUME heap'[i].mark = "black" PROVE BlackOk(heap', stack, tmudata, atomic, {}, i)
    <3>1. ~ watched /\ heap[i].mark = "black"
      BY <2>2, <1>8
    <3>2. BlackOk(heap, stack, tmudata, atomic, {}, i)
      BY <3>1, <1>2 DEF HeapInv, ColourInv, Colours, NotDead
    <3>3. \A r \in Ids : IsWhite(heap'[r]) <=> IsWhite(h1[r])
      BY <1>7, <3>1
    <3>4. \A r \in vs \cap Ids : ~ IsWhite(heap'[r])
      BY <3>1, <3>3 DEF watched, Whites
    <3>5. \A r \in Ids : IsWhite(heap'[r]) => IsWhite(heap[r])
      BY <1>8, <3>1 DEF IsWhite
    <3>6. k \in vs \/ k = heap[i].key
      BY DEF vs
    <3>7. v \in vs
      BY DEF vs
    <3>8. Clear(heap', {k, v}, {})
      BY <3>2, <3>4, <3>5, <3>6, <3>7, <1>2 DEF BlackOk, Clear
    <3>9. Clear(heap', RefsOf(heap', stack, i), {})
      BY <3>8, <1>9 DEF Clear
    <3>10. ~ IsWeak(heap'[i])
      BY <3>2, <1>2, <1>8 DEF BlackOk, IsWeak, WeakKey, WeakValue
    <3> QED
      BY <3>8, <3>9, <3>10, <1>8 DEF BlackOk
  <2> QED
    BY <1>4, <1>10, <2>1, <2>2, ChangeColours
<1>12. Ok(heap', stack, gray, grayagain', {})
  <2>1. Parts(heap', stack)
    BY <1>4, <1>10, Change
  <2> QED
    BY <2>1, <1>11 DEF Parts, Ok
<1>13. Ok(heap', stack', gray', grayagain', R)
  <2> HIDE DEF R
  <2> QED
    BY <1>4, <1>7, <1>12, OkMore
<1>14. gray' \subseteq Ids /\ grayagain' \subseteq Ids
  BY <1>2, <1>4, <1>7 DEF HeapTypes
<1> QED
  BY <1>4, <1>7, <1>13, <1>14, OkEnd DEF R


\* Nothing is painted.
LEMMA PaintNone == ASSUME NEW h \in [Ids -> Objects] PROVE Painted(h, {}) = h /\ ToTraverse(h, {}) = {}
BY DEF Painted, ToTraverse

\* What a barrier marks, while the heap is marked.
LEMMA PaintOk ==
  ASSUME Context, gcstate = "propagate", NEW h, NEW gr, NEW ga, NEW is0, Parts(h, stack),
         Colours(h, stack, gr, ga, weak, tmudata, atomic, is0),
         \A r \in is0 \cap Ids : NotDead(h, cw, r) /\ r \notin garbage, NEW is, is = Marked(h, is0)
  PROVE  Ok(Painted(h, is), stack, gr \cup ToTraverse(h, is), ga, {})
<1> DEFINE p == Painted(h, is)
           C == {j \in Ids : NotDead(h, cw, j) /\ j \notin garbage}
<1>1. /\ MaxObjects \in Nat /\ Shaped(h, stack) /\ Whole(h, stack, cw, tmudata) /\ PhaseOk(h) /\ FinalOk(h) /\ StringsOk(h)
      /\ GarbageOk(h, stack, {}) /\ atomic = "no" /\ tmudata \subseteq Ids /\ garbage \subseteq Ids
      /\ Other(cw) \notin {"gray", "black"}
  BY OtherIs DEF Context, Parts
<1>2. Spread(h, stack, is0, is) /\ is \in SUBSET Ids
  BY <1>1, MarkedSpreads DEF Spread
<1>3. is \subseteq C
  <2>1. is0 \cap Ids \subseteq C
    OBVIOUS
  <2>2. \A j \in C \cap Ids : RefsOf(h, stack, j) \cap Ids \subseteq C
    BY <1>1 DEF Whole, GarbageOk, AllRefs, NotDead
  <2> HIDE DEF C
  <2> QED
    BY <1>1, <2>1, <2>2, MarkedWithin
<1>4. \A j \in is : NotDead(h, cw, j) /\ Alive(h[j]) /\ j \notin garbage
  BY <1>3 DEF NotDead
<1> HIDE DEF C
<1>5. /\ p \in [Ids -> Objects] /\ SameButMarks(h, p) /\ Shaped(p, stack)
      /\ \A i \in Ids : /\ p[i].mark = (IF i \in is THEN Colour(h[i]) ELSE h[i].mark)
                        /\ p[i].fin = h[i].fin
                        /\ i \in is => p[i].mark \in {"gray", "black"}
                        /\ i \notin is => p[i] = h[i]
                        /\ IsOpen(p[i]) => p[i].mark # "black"
  <2> HIDE DEF p
  <2> QED
    BY <1>1, <1>2, PaintedIs DEF p
<1>6. Colours(p, stack, gr \cup ToTraverse(h, is), ga, weak, tmudata, atomic, {})
  BY <1>1, <1>2, <1>4, PaintKeeps
<1> HIDE DEF p
<1>7. /\ \A i \in Ids : /\ RefsOf(p, stack, i) = RefsOf(h, stack, i) /\ AllRefs(p, stack, i) = AllRefs(h, stack, i)
                        /\ Alive(p[i]) <=> Alive(h[i])
                        /\ p[i].kind = h[i].kind
      /\ StringsOk(p)
  BY <1>1, <1>5, SameRefs DEF SameButMarks
<1>8. \A i \in Ids : NotDead(p, cw, i) <=> NotDead(h, cw, i)
  BY <1>1, <1>4, <1>5, <1>7 DEF NotDead
<1>9. Whole(p, stack, cw, tmudata)
  BY <1>1, <1>7, <1>8 DEF Whole, Main, Ids
<1>10. PhaseOk(p)
  <2>1. \A i \in Ids : Alive(p[i]) => p[i].mark # Other(cw)
    BY <1>1, <1>5, <1>7 DEF PhaseOk
  <2> QED
    BY <2>1 DEF PhaseOk
<1>11. FinalOk(p)
  <2>1. \A u \in tmudata : u \in Ids /\ p[u].mark \in {h[u].mark, "black"}
    BY <1>1, <1>5 DEF FinalOk, Colour
  <2> QED
    BY <2>1, <1>1, <1>5, <1>7 DEF FinalOk
<1>12. GarbageOk(p, stack, {})
  <2>1. \A i \in garbage : i \in Ids /\ p[i] = h[i]
    BY <1>1, <1>4, <1>5
  <2> QED
    BY <2>1, <1>1, <1>7 DEF GarbageOk
<1> QED
  BY <1>5, <1>6, <1>7, <1>9, <1>10, <1>11, <1>12 DEF Ok, p

\* A value is stored in a closed upvalue, or an environment in a userdata.
LEMMA BarrierOk ==
  ASSUME HeapInstance, HeapInv, NEW i \in Ids \ {Main}, NEW v,
         i \notin garbage, NotDead(heap, cw, i), ~ IsOpen(heap[i]),
         heap[i].kind \in {"upval", "userdata"}, heap[i].kind = "userdata" => v \in Ids /\ heap[v].kind = "table",
         v \in Refs, IsValue(heap, v), v # Nil => v \in Ids /\ NotDead(heap, cw, v) /\ v \notin garbage,
         BarrierF([heap EXCEPT ![i].val = v], i, v), May(stack)
  PROVE  HeapInv'
<1> DEFINE h1 == [heap EXCEPT ![i].val = v]
           watched == v # Nil /\ heap[i].mark = "black" /\ IsWhite(h1[v])
           is == IF watched /\ gcstate = "propagate" THEN Marked(h1, {v}) ELSE {}
           R == Reachable(heap', stack', tmudata)
<1>1. BarrierF(h1, i, v)
  OBVIOUS
<1> HIDE DEF h1, watched, is, R
<1>2. /\ May(stack') /\ atomic = "no" /\ full = "no" /\ stack' = stack
      /\ HeapTypes /\ FinalOk(heap) /\ Shaped(heap, stack) /\ cw \in {"w0", "w1"} /\ MaxObjects \in Nat
      /\ Context
  <2>1. stack' = stack /\ atomic = "no" /\ full = "no"
    BY DEF May, Runs
  <2>2. May(stack')
    BY <2>1
  <2>3. HeapTypes /\ FinalOk(heap) /\ Shaped(heap, stack)
    BY DEF HeapInv
  <2>4. Context
    BY <2>1, OkStart
  <2> QED
    BY <2>1, <2>2, <2>3, <2>4 DEF HeapTypes, Context
<1>3. heap \in [Ids -> Objects] /\ heap[i] \in Objects
  BY <1>2 DEF Shaped
<1>4. /\ h1 \in [Ids -> Objects] /\ \A j \in Ids \ {i} : h1[j] = heap[j]
      /\ h1[i] = [heap[i] EXCEPT !.val = v]
  <2>1. [heap[i] EXCEPT !.val = v] \in Objects
    BY <1>3 DEF Objects
  <2>2. h1 = [heap EXCEPT ![i] = [heap[i] EXCEPT !.val = v]]
    BY <1>3 DEF h1
  <2> QED
    BY <2>1, <2>2, <1>3
<1>5. /\ h1[i].val = v /\ h1[i].kind = heap[i].kind /\ h1[i].mode = heap[i].mode /\ h1[i].mark = heap[i].mark
      /\ h1[i].on = heap[i].on /\ h1[i].fin = heap[i].fin /\ h1[i].slot = heap[i].slot
  BY <1>3, <1>4 DEF Objects
<1>6. /\ heap' = (IF watched /\ gcstate # "propagate" THEN [h1 EXCEPT ![i].mark = cw] ELSE Painted(h1, is))
      /\ gray' = gray \cup ToTraverse(h1, is) /\ grayagain' = grayagain /\ weak' = weak
  BY <1>1, <1>5 DEF BarrierF, watched, is
\* The stored value is all that the object refers to.
<1>7. ASSUME NEW h \in [Ids -> Objects], \A j \in Ids \ {i} : h[j] = heap[j],
             h[i].val = v, h[i].kind = heap[i].kind, h[i].mode = heap[i].mode, h[i].on = heap[i].on, h[i].fin = heap[i].fin,
             h[i].mark = heap[i].mark \/ (heap[i].mark = "black" /\ h[i].mark = cw)
      PROVE  Changed(i, h) /\ RefsOf(h, stack, i) = {v}
  <2>1. ~ IsOpen(h[i])
    BY <1>7 DEF IsOpen
  <2>2. RefsOf(h, stack, i) = {v} /\ Entry(h[i]) = {}
    BY <1>7, <2>1 DEF RefsOf, Entry
  <2>3. AllRefs(h, stack, i) = {v}
    BY <2>2 DEF AllRefs
  <2>4. \A r \in AllRefs(h, stack, i) \cap Ids : NotDead(heap, cw, r) /\ r \notin garbage
    BY <2>3 DEF Nil, Ids
  <2>5. \A r : IsValue(heap, r) => IsValue(h, r)
    BY <1>7 DEF IsValue
  <2>6. ShapedAt(h, stack, i)
    <3>1. ShapedAt(heap, stack, i)
      BY <1>2 DEF Shaped
    <3>2. h[i].kind = "userdata" => h[v].kind = "table"
      BY <1>7
    <3> QED
      BY <1>7, <2>1, <2>5, <3>1, <3>2 DEF ShapedAt
  <2>7. i \in tmudata => h[i].mark \in {cw, "black"}
    BY <1>2, <1>7 DEF FinalOk
  <2> QED
    BY <1>7, <2>2, <2>4, <2>6, <2>7 DEF Changed
<1>8. Changed(i, h1) /\ RefsOf(h1, stack, i) = {v}
  BY <1>4, <1>5, <1>7
<1>9. Painted(h1, {}) = h1 /\ ToTraverse(h1, {}) = {}
  BY <1>4, PaintNone
<1>10. CASE watched /\ gcstate # "propagate"
  <2>1. is = {}
    BY <1>10 DEF is
  <2>2. heap' = [h1 EXCEPT ![i].mark = cw] /\ gray' = gray
    BY <1>6, <1>9, <1>10, <2>1
  <2>3. h1[i] \in Objects
    BY <1>4
  <2>4. [h1[i] EXCEPT !.mark = cw] \in Objects
    BY <1>2, <2>3 DEF Objects
  <2>5. heap' = [h1 EXCEPT ![i] = [h1[i] EXCEPT !.mark = cw]]
    BY <2>2
  <2>6. heap' \in [Ids -> Objects] /\ heap'[i] = [h1[i] EXCEPT !.mark = cw] /\ \A j \in Ids \ {i} : heap'[j] = heap[j]
    BY <1>4, <2>4, <2>5
  <2>7. /\ heap'[i].val = v /\ heap'[i].kind = heap[i].kind /\ heap'[i].mode = heap[i].mode
        /\ heap'[i].on = heap[i].on /\ heap'[i].fin = heap[i].fin /\ heap'[i].mark = cw
    BY <1>5, <2>3, <2>6 DEF Objects
  <2>8. heap[i].mark = "black"
    BY <1>10 DEF watched
  <2>9. Changed(i, heap')
    BY <1>7, <2>6, <2>7, <2>8
  <2>10. Parts(heap', stack)
    BY <1>2, <2>9, Change
  <2>11. Ok(heap', stack, gray', grayagain', {})
    BY <1>10, <2>10 DEF Ok, Parts
  <2>12. Ok(heap', stack', gray', grayagain', R)
    BY <1>2, <2>11, OkMore
  <2> QED
    BY <1>2, <1>6, <2>2, <2>12, OkEnd DEF HeapTypes, R
<1>11. CASE watched /\ gcstate = "propagate"
  <2>1. is = Marked(h1, {v}) /\ heap' = Painted(h1, is)
    BY <1>6, <1>11 DEF is
  <2>2. BlackOk(h1, stack, tmudata, atomic, {v}, i)
    BY <1>2, <1>5, <1>8 DEF BlackOk, Clear
  <2>3. Colours(h1, stack, gray, grayagain, weak, tmudata, atomic, {v})
    BY <1>2, <1>5, <1>8, <1>11, <2>2, ChangeColours
  <2>4. Parts(h1, stack)
    BY <1>2, <1>8, Change
  <2>5. \A r \in {v} \cap Ids : NotDead(h1, cw, r) /\ r \notin garbage
    <3>1. \A r \in Ids : h1[r].kind = heap[r].kind /\ h1[r].mark = heap[r].mark
      BY <1>4, <1>5
    <3>2. \A r \in Ids : NotDead(h1, cw, r) <=> NotDead(heap, cw, r)
      BY <3>1 DEF NotDead, Alive
    <3>3. v # Nil
      BY <1>11 DEF watched
    <3> QED
      BY <3>2, <3>3
  <2>6. Ok(Painted(h1, is), stack, gray \cup ToTraverse(h1, is), grayagain, {})
    BY <1>2, <1>11, <2>1, <2>3, <2>4, <2>5, PaintOk
  <2>7. Ok(heap', stack, gray', grayagain', {})
    BY <1>6, <2>1, <2>6
  <2>8. Ok(heap', stack', gray', grayagain', R)
    BY <1>2, <2>7, OkMore
  <2>9. gray' \subseteq Ids
    <3>1. Shaped(h1, stack)
      BY <2>4 DEF Parts
    <3>2. is \subseteq Ids
      BY <1>2, <2>1, <3>1, MarkedSpreads DEF Spread
    <3> QED
      BY <1>2, <1>6, <3>2 DEF HeapTypes, ToTraverse
  <2> QED
    BY <1>2, <1>6, <2>8, <2>9, OkEnd DEF HeapTypes, R
<1>12. CASE ~ watched
  <2>1. is = {}
    BY <1>12 DEF is
  <2>2. heap' = h1 /\ gray' = gray
    BY <1>6, <1>9, <1>12, <2>1
  <2>3. Parts(h1, stack)
    BY <1>2, <1>8, Change
  <2>4. gcstate = "propagate" => Colours(h1, stack, gray, grayagain, weak, tmudata, atomic, {})
    <3> SUFFICES ASSUME gcstate = "propagate" PROVE Colours(h1, stack, gray, grayagain, weak, tmudata, atomic, {})
      OBVIOUS
    <3>1. h1[i].mark = "black" => BlackOk(h1, stack, tmudata, atomic, {}, i)
      <4>1. h1[i].mark = "black" => Clear(h1, {v}, {})
        BY <1>5, <1>12 DEF watched, Clear, Nil, Ids
      <4> QED
        BY <4>1, <1>5, <1>8 DEF BlackOk
    <3> QED
      BY <1>2, <1>5, <1>8, <3>1, ChangeColours
  <2>5. Ok(h1, stack, gray, grayagain, {})
    BY <2>3, <2>4 DEF Ok, Parts
  <2>6. Ok(heap', stack', gray', grayagain', R)
    BY <1>2, <1>6, <2>2, <2>5, OkMore
  <2> QED
    BY <1>2, <1>6, <2>2, <2>6, OkEnd DEF HeapTypes, R
<1> QED
  BY <1>10, <1>11, <1>12

(* OP_SETUPVAL: luaC_barrier marks the value, or whitens the upvalue in the sweep. *)
LEMMA SetUpvalOk ==
  ASSUME HeapInstance, HeapInv, NEW f \in 1 .. Slots, NEW b \in 1 .. Slots, SetUpval(f, At(b))
  PROVE  HeapInv'
<1> DEFINE uv == heap[At(f)].val
           v == At(b)
<1>1. /\ IsA(f, "function")
      /\ IF IsOpen(heap[uv]) THEN BarrierF(heap, uv, v) /\ May([stack EXCEPT ![heap[uv].on][heap[uv].slot] = v])
         ELSE BarrierF([heap EXCEPT ![uv].val = v], uv, v) /\ May(stack)
  BY DEF SetUpval
<1>2. uv \in Ids \ {Main} /\ heap[uv].kind = "upval" /\ NotDead(heap, cw, uv) /\ uv \notin garbage
  <2>1. uv \in Ids /\ heap[uv].kind = "upval" /\ NotDead(heap, cw, uv) /\ uv \notin garbage
    BY <1>1, UpvalIs
  <2> HIDE DEF uv
  <2> QED
    BY <2>1, OnStack
<1>3. v \in Refs /\ IsValue(heap, v) /\ (v # Nil => v \in Ids /\ NotDead(heap, cw, v) /\ v \notin garbage)
  BY OnStack
<1> HIDE DEF uv, v
<1>4. CASE ~ IsOpen(heap[uv])
  BY <1>1, <1>2, <1>3, <1>4, BarrierOk
<1>5. CASE IsOpen(heap[uv])
  <2> DEFINE t == heap[uv].on
             n == heap[uv].slot
             st2 == [stack EXCEPT ![t][n] = v]
             R == Reachable(heap', stack', tmudata)
  <2>1. BarrierF(heap, uv, v) /\ May(st2)
    BY <1>1, <1>5
  <2>2. t \in Ids /\ heap[t].kind = "thread" /\ n \in 1 .. Len(stack[t]) /\ stack[t] \in Seq(Refs)
    BY <1>2, <1>5, ValueIs
  <2>3. /\ heap[uv].mark # "black" /\ heap \in [Ids -> Objects] /\ stack \in [Ids -> Seq(Refs)]
        /\ gray \subseteq Ids /\ grayagain \subseteq Ids
    BY <1>2, <1>5 DEF HeapInv, HeapTypes, Shaped, ShapedAt
  <2>4. heap' = heap /\ gray' = gray /\ grayagain' = grayagain /\ weak' = weak
    BY <2>1, <2>3, PaintNone DEF BarrierF
  <2>5. /\ st2 \in [Ids -> Seq(Refs)] /\ Len(st2[t]) = Len(stack[t])
        /\ \A j \in Ids \ {t} : st2[j] = stack[j]
        /\ \A k \in 1 .. Len(stack[t]) : st2[t][k] \in {stack[t][k], v}
    <3> HIDE DEF t, n
    <3>1. st2 = [stack EXCEPT ![t] = [stack[t] EXCEPT ![n] = v]]
      OBVIOUS
    <3>2. [stack[t] EXCEPT ![n] = v] \in Seq(Refs) /\ Len([stack[t] EXCEPT ![n] = v]) = Len(stack[t])
      BY <1>3, <2>2
    <3>3. \A k \in 1 .. Len(stack[t]) : [stack[t] EXCEPT ![n] = v][k] \in {stack[t][k], v}
      BY <2>2
    <3> QED
      BY <2>2, <2>3, <3>1, <3>2, <3>3
  <2> HIDE DEF t, n, st2, R
  <2>6. stack' = st2 /\ atomic = "no"
    BY <2>1 DEF May, Runs
  <2>7. Context /\ Ok(heap, stack, gray, grayagain, R)
    BY <2>6, OkStart
  <2>8. CanPut(heap, v, R)
    BY <1>3 DEF CanPut
  <2>9. Ok(heap, st2, gray, grayagain, R)
    BY <2>2, <2>5, <2>7, <2>8, Put
  <2>10. Ok(heap', stack', gray', grayagain', R)
    BY <2>4, <2>6, <2>9
  <2>11. May(stack')
    BY <2>1, <2>6
  <2> QED
    BY <2>3, <2>4, <2>10, <2>11, OkEnd DEF R
<1> QED
  BY <1>4, <1>5

(* lua_setfenv: luaC_objbarrier marks the new environment of a userdata. *)
LEMMA SetEnvOk ==
  ASSUME HeapInstance, HeapInv, NEW u \in 1 .. Slots, NEW t \in 1 .. Slots, SetEnv(u, t)
  PROVE  HeapInv'
<1> DEFINE i == At(u)
           v == At(t)
<1>1. /\ IsA(u, "userdata") /\ IsA(t, "table")
      /\ BarrierF([heap EXCEPT ![i].val = v], i, v) /\ May(stack)
  BY DEF SetEnv
<1>2. /\ i \in Ids \ {Main} /\ heap[i].kind = "userdata" /\ NotDead(heap, cw, i) /\ i \notin garbage
      /\ v \in Ids /\ heap[v].kind = "table" /\ v \in Refs /\ IsValue(heap, v) /\ NotDead(heap, cw, v) /\ v \notin garbage
  BY <1>1, OnStack DEF IsA
<1> HIDE DEF i, v
<1>3. ~ IsOpen(heap[i])
  BY <1>2 DEF IsOpen
<1> QED
  BY <1>1, <1>2, <1>3, BarrierOk

--------------------------------------------------------------------------
(* Upvalues leave the stack. *)
ClosedIn(open, h) ==
  /\ open \subseteq Ids /\ \A i \in open : IsOpen(heap[i])
  /\ h = [i \in Ids |-> IF i \in open THEN CloseUpval(heap[i]) ELSE heap[i]]

(* luaF_close: an upvalue that is closed takes its value with it, or is freed. *)
LEMMA ClosedIs ==
  ASSUME HeapInstance, HeapInv, NEW open, NEW h, ClosedIn(open, h)
  PROVE  /\ h \in [Ids -> Objects] /\ open \subseteq Ids
         /\ \A i \in Ids \ open : h[i] = heap[i]
         /\ \A i \in open :
              /\ heap[i].kind = "upval" /\ heap[i].mark \in {cw, "gray", Other(cw)} /\ h[i].fin = heap[i].fin
              /\ heap[i].mark = Other(cw) => h[i].kind = "freed"
              /\ heap[i].mark # Other(cw) =>
                   /\ h[i].kind = "upval" /\ h[i].val = Value(heap[i]) /\ h[i].on = Nil
                   /\ h[i].mark = (IF heap[i].mark # "gray" THEN heap[i].mark
                                   ELSE IF gcstate = "propagate" THEN "black" ELSE cw)
<1>1. heap \in [Ids -> Objects] /\ Shaped(heap, stack) /\ cw \in {"w0", "w1"}
  BY DEF HeapInv, HeapTypes, Shaped
<1>2. open \subseteq Ids /\ \A i \in Ids : h[i] = IF i \in open THEN CloseUpval(heap[i]) ELSE heap[i]
  BY DEF ClosedIn
<1>3. ASSUME NEW i \in open
      PROVE  /\ h[i] \in Objects
             /\ heap[i].kind = "upval" /\ heap[i].mark \in {cw, "gray", Other(cw)} /\ h[i].fin = heap[i].fin
             /\ heap[i].mark = Other(cw) => h[i].kind = "freed"
             /\ heap[i].mark # Other(cw) =>
                  /\ h[i].kind = "upval" /\ h[i].val = Value(heap[i]) /\ h[i].on = Nil
                  /\ h[i].mark = (IF heap[i].mark # "gray" THEN heap[i].mark
                                  ELSE IF gcstate = "propagate" THEN "black" ELSE cw)
  <2> DEFINE o == heap[i]
             val == Value(heap[i])
  <2>1. o \in Objects /\ o.kind = "upval" /\ o.mark # "black" /\ h[i] = CloseUpval(o)
    BY <1>1, <1>2, <1>3 DEF ClosedIn, IsOpen, Shaped, ShapedAt
  <2>2. val \in Refs
    BY <1>2, <2>1, ValueIs
  <2> HIDE DEF o, val
  <2>3. o.mark \in {cw, "gray", Other(cw)}
    BY <1>1, <2>1 DEF Objects, Other
  <2>4. CASE o.mark = Other(cw)
    <3>1. h[i] = [o EXCEPT !.kind = "freed"]
      BY <2>1, <2>4 DEF CloseUpval, IsDead
    <3> QED
      BY <2>1, <2>3, <2>4, <3>1 DEF Objects, ObjectKinds, o
  <2>5. CASE o.mark # Other(cw)
    <3> DEFINE mark == IF o.mark # "gray" THEN o.mark ELSE IF gcstate = "propagate" THEN "black" ELSE cw
    <3>1. h[i] = [o EXCEPT !.val = val, !.on = Nil, !.mark = mark]
      BY <2>1, <2>5 DEF CloseUpval, IsDead, o, val
    <3>2. mark \in {"w0", "w1", "gray", "black"}
      BY <1>1, <2>1 DEF Objects
    <3> HIDE DEF mark
    <3>3. h[i] \in Objects /\ h[i].kind = "upval" /\ h[i].val = val /\ h[i].on = Nil /\ h[i].mark = mark /\ h[i].fin = o.fin
      BY <2>1, <2>2, <3>1, <3>2 DEF Objects
    <3> QED
      BY <2>1, <2>3, <2>5, <3>3 DEF o, val, mark
  <2> QED
    BY <2>4, <2>5
<1>4. h \in [Ids -> Objects]
  <2>1. \A i \in Ids : h[i] \in Objects
    BY <1>1, <1>2, <1>3
  <2>2. h = [i \in Ids |-> h[i]]
    BY DEF ClosedIn
  <2> QED
    BY <2>1, <2>2
<1> QED
  BY <1>2, <1>3, <1>4

(* Nobody's references change when upvalues are closed. *)
LEMMA ClosedParts ==
  ASSUME HeapInstance, HeapInv, full = "no", NEW open, NEW h, ClosedIn(open, h)
  PROVE  /\ Parts(h, stack)
         /\ \A i \in Ids : /\ Alive(h[i]) => Alive(heap[i]) /\ RefsOf(h, stack, i) = RefsOf(heap, stack, i)
                           /\ NotDead(h, cw, i) <=> NotDead(heap, cw, i)
                           /\ i \notin open => h[i] = heap[i]
<1>1. /\ MaxObjects \in Nat /\ Shaped(heap, stack) /\ heap \in [Ids -> Objects] /\ Whole(heap, stack, cw, tmudata)
      /\ GarbageOk(heap, stack, {}) /\ PhaseInv /\ FinalOk(heap) /\ StringsOk(heap) /\ Main \in Ids
      /\ cw \in {"w0", "w1"} /\ Other(cw) # cw /\ Other(cw) \notin {"gray", "black"} /\ tmudata \subseteq Ids /\ garbage \subseteq Ids
  BY OtherIs DEF HeapInstance, HeapInv, HeapTypes, Shaped, Main, Ids
<1>2. /\ h \in [Ids -> Objects] /\ open \subseteq Ids
      /\ \A i \in Ids \ open : h[i] = heap[i]
      /\ \A i \in open :
           /\ heap[i].kind = "upval" /\ heap[i].mark \in {cw, "gray", Other(cw)} /\ h[i].fin = heap[i].fin
           /\ heap[i].mark = Other(cw) => h[i].kind = "freed"
           /\ heap[i].mark # Other(cw) =>
                /\ h[i].kind = "upval" /\ h[i].val = Value(heap[i]) /\ h[i].on = Nil
                /\ h[i].mark = (IF heap[i].mark # "gray" THEN heap[i].mark
                                ELSE IF gcstate = "propagate" THEN "black" ELSE cw)
  BY ClosedIs
<1>3. \A i \in Ids : /\ h[i].kind # "upval" => h[i].kind \in {heap[i].kind, "freed"}
                     /\ h[i].kind = "upval" => heap[i].kind = "upval"
                     /\ heap[i].kind # "upval" => h[i] = heap[i]
                     /\ h[i].kind = "unborn" => heap[i].kind = "unborn"
                     /\ h[i].fin = heap[i].fin
  BY <1>2
<1>4. \A i \in Ids : (Alive(h[i]) => Alive(heap[i])) /\ (NotDead(h, cw, i) <=> NotDead(heap, cw, i))
  BY <1>1, <1>2 DEF Alive, NotDead
<1>5. \A r : (IsValue(heap, r) => IsValue(h, r)) /\ (IsString(h, r) <=> IsString(heap, r))
  BY <1>2, <1>3 DEF IsValue, IsString
<1>6. ASSUME NEW i \in Ids, Alive(h[i])
      PROVE  RefsOf(h, stack, i) = RefsOf(heap, stack, i) /\ AllRefs(h, stack, i) = AllRefs(heap, stack, i)
  <2>1. CASE i \in open
    <3>1. heap[i].kind = "upval" /\ h[i].kind = "upval" /\ h[i].val = Value(heap[i]) /\ h[i].on = Nil
      BY <1>2, <1>6, <2>1 DEF Alive
    <3>2. RefsOf(h, stack, i) = {Value(heap[i])} /\ Entry(h[i]) = {} /\ Entry(heap[i]) = {}
      BY <3>1 DEF RefsOf, IsOpen, Entry
    <3>3. RefsOf(heap, stack, i) = {Value(heap[i])}
      BY <3>1, ValueIs
    <3> QED
      BY <3>2, <3>3 DEF AllRefs
  <2>2. CASE i \notin open
    <3>1. h[i] = heap[i]
      BY <1>2, <2>2
    <3>2. RefsOf(h, stack, i) = RefsOf(heap, stack, i)
      BY <3>1, <1>5 DEF RefsOf
    <3> QED
      BY <3>1, <3>2 DEF AllRefs
  <2> QED
    BY <2>1, <2>2
<1>7. Shaped(h, stack)
  <2>1. ASSUME NEW i \in Ids PROVE ShapedAt(h, stack, i)
    <3>1. ShapedAt(heap, stack, i)
      BY <1>1 DEF Shaped
    <3>2. \A n \in DOMAIN stack[i] : IsValue(h, stack[i][n])
      BY <3>1, <1>5 DEF ShapedAt
    <3>3. CASE i \in open
      <4>1. h[i].kind \in {"upval", "freed"}
        BY <1>2, <3>3
      <4>2. h[i].kind = "upval" => IsValue(h, h[i].val) /\ ~ IsOpen(h[i])
        BY <1>2, <1>5, <3>3, ValueIs DEF IsOpen
      <4> QED
        BY <3>2, <4>1, <4>2 DEF ShapedAt, IsOpen
    <3>4. CASE i \notin open
      <4>1. h[i] = heap[i] /\ heap[i] \in Objects
        BY <1>1, <1>2, <3>4
      <4>2. h[i].val # Nil => h[i].val \in Ids
        BY <4>1 DEF Objects, Refs, Ids
      <4>3. IsOpen(h[i]) => h[i].on \in Ids /\ h[h[i].on].kind = "thread"
        <5>1. IsOpen(h[i]) => h[i].on \in Ids /\ heap[h[i].on].kind = "thread"
          BY <4>1, <1>1, RefsAre
        <5> QED
          BY <5>1, <1>3
      <4>4. h[i].kind = "function" => h[i].val # Nil /\ h[h[i].val].kind \in {"upval", "freed"}
        BY <1>3, <3>1, <4>1, <4>2 DEF ShapedAt
      <4>5. h[i].kind = "userdata" /\ h[i].val # Nil => h[h[i].val].kind \in {"table", "freed"}
        BY <1>3, <3>1, <4>1, <4>2 DEF ShapedAt
      <4> QED
        BY <1>5, <3>1, <3>2, <4>1, <4>3, <4>4, <4>5 DEF ShapedAt
    <3> QED
      BY <3>3, <3>4
  <2>2. stack \in [Ids -> Seq(Refs)] /\ h[Main].kind = "thread"
    BY <1>1, <1>3 DEF Shaped
  <2> QED
    BY <1>2, <2>1, <2>2 DEF Shaped
<1>8. Whole(h, stack, cw, tmudata)
  <2>1. \A i \in Ids : NotDead(h, cw, i) => Alive(h[i])
    BY DEF NotDead
  <2> QED
    BY <2>1, <1>1, <1>4, <1>6 DEF Whole
<1>9. PhaseOk(h)
  <2>1. \A i \in open : i \notin tmudata
    BY <1>1, <1>2 DEF FinalOk
  <2>2. gcstate # "propagate" => \A i \in open : Alive(h[i]) => h[i].mark = cw
    BY <1>1, <1>2 DEF Alive
  <2>3. \A i \in Ids \ open : h[i] = heap[i]
    BY <1>2
  <2>4. gcstate \in {"pause", "finalize"} => \A i \in Ids : Alive(h[i]) => Settled(h, i)
    BY <1>1, <2>2, <2>3 DEF PhaseInv, PhaseOk, Settled
  <2>5. gcstate = "propagate" => \A i \in Ids : Alive(h[i]) => h[i].mark # Other(cw)
    BY <1>1, <1>2, <2>3 DEF PhaseInv, PhaseOk, Alive
  <2>6. gcstate \in {"sweepstring", "sweep"} =>
          \A i \in Ids : h[i].kind = "string" => h[i].mark = cw \/ (gcstate = "sweepstring" /\ i \in unswept)
    BY <1>1, <1>2, <1>3 DEF PhaseInv, PhaseOk
  <2>7. gcstate = "sweep" =>
          \A i \in Ids : Alive(h[i]) => Settled(h, i) \/ (IF IsOpen(h[i]) THEN h[i].on ELSE i) \in unswept
    BY <1>1, <2>2, <2>3 DEF PhaseInv, PhaseOk, Settled
  <2> QED
    BY <2>4, <2>5, <2>6, <2>7 DEF PhaseOk
<1>10. FinalOk(h)
  <2>1. \A u \in tmudata : u \in Ids /\ h[u] = heap[u]
    BY <1>1, <1>3 DEF FinalOk
  <2>2. \A i \in Ids : gced[i] # 0 => h[i].fin /\ h[i].kind # "unborn"
    BY <1>1, <1>3 DEF FinalOk
  <2> QED
    BY <2>1, <2>2, <1>1 DEF FinalOk
<1>11. StringsOk(h)
  <2>1. \A i \in Ids : h[i].kind = "string" => h[i] = heap[i]
    BY <1>3
  <2> QED
    BY <2>1, <1>1 DEF StringsOk, Of
<1>12. GarbageOk(h, stack, {})
  <2>1. \A i \in garbage : h[i].kind # "unborn"
    BY <1>1, <1>3 DEF GarbageOk
  <2>2. \A i \in Ids \ garbage : Alive(h[i]) => RefsOf(h, stack, i) \cap garbage \subseteq {}
    BY <1>1, <1>4, <1>6 DEF GarbageOk
  <2>3. gcstate = "propagate" => \A i \in garbage : Alive(h[i]) => IsWhite(h[i])
    BY <1>1, <1>2, <1>4 DEF GarbageOk, IsWhite, Alive
  <2>4. gcstate # "propagate" => \A i \in garbage : Alive(h[i]) => h[i].mark = Other(cw)
    BY <1>1, <1>2, <1>4 DEF GarbageOk, Alive
  <2> QED
    BY <2>1, <2>2, <2>3, <2>4, <1>1 DEF GarbageOk
<1> QED
  BY <1>2, <1>4, <1>6, <1>7, <1>8, <1>9, <1>10, <1>11, <1>12 DEF Parts

\* While the heap is marked, the values of those that were gray are yet to be marked.
LEMMA ClosedColours ==
  ASSUME HeapInstance, HeapInv, atomic = "no", full = "no", gcstate = "propagate", NEW open, NEW h, ClosedIn(open, h),
         NEW is0, is0 = {Value(heap[i]) : i \in {j \in open : heap[j].mark = "gray"}}
  PROVE  /\ Colours(h, stack, gray, grayagain, weak, tmudata, atomic, is0)
         /\ \A r \in is0 \cap Ids : NotDead(h, cw, r) /\ r \notin garbage
         /\ Marked(h, is0) = Marked(heap, is0)
<1>1. /\ MaxObjects \in Nat /\ Shaped(heap, stack) /\ Whole(heap, stack, cw, tmudata) /\ GarbageOk(heap, stack, {})
      /\ Colours(heap, stack, gray, grayagain, weak, tmudata, atomic, {}) /\ PhaseInv
      /\ cw \in {"w0", "w1"} /\ cw \notin {"gray", "black"} /\ Other(cw) \notin {"gray", "black"}
  BY OtherIs DEF HeapInstance, HeapInv, HeapTypes, ColourInv
<1>2. /\ open \subseteq Ids
      /\ \A i \in Ids \ open : h[i] = heap[i]
      /\ \A i \in open :
           /\ heap[i].kind = "upval" /\ heap[i].mark \in {cw, "gray", Other(cw)}
           /\ heap[i].mark = Other(cw) => h[i].kind = "freed"
           /\ heap[i].mark # Other(cw) =>
                /\ h[i].kind = "upval" /\ h[i].val = Value(heap[i]) /\ h[i].on = Nil
                /\ h[i].mark = (IF heap[i].mark # "gray" THEN heap[i].mark ELSE "black")
  BY ClosedIs
<1>3. \A i \in Ids : /\ Alive(h[i]) => Alive(heap[i]) /\ RefsOf(h, stack, i) = RefsOf(heap, stack, i)
                     /\ NotDead(h, cw, i) <=> NotDead(heap, cw, i)
  BY ClosedParts
<1>4. \A i \in open : heap[i].mark # Other(cw)
  BY <1>1, <1>2 DEF PhaseInv, PhaseOk, Alive
<1>5. \A i \in Ids : IsWhite(h[i]) => IsWhite(heap[i])
  BY <1>2, <1>4 DEF IsWhite
<1>6. \A rs : Clear(heap, rs, {}) => Clear(h, rs, is0)
  BY <1>5 DEF Clear
<1>7. ASSUME NEW i \in Ids, Alive(h[i]) /\ h[i].mark = "black" PROVE BlackOk(h, stack, tmudata, atomic, is0, i)
  <2>1. CASE i \in open
    <3>1. heap[i].mark = "gray" /\ h[i].kind = "upval"
      BY <1>1, <1>2, <1>4, <1>7, <2>1
    <3>2. RefsOf(h, stack, i) = {Value(heap[i])}
      BY <1>2, <1>3, <1>7, <2>1, ValueIs
    <3>3. Value(heap[i]) \in is0
      BY <2>1, <3>1
    <3>4. Clear(h, RefsOf(h, stack, i), is0)
      BY <3>2, <3>3 DEF Clear
    <3> QED
      BY <3>1, <3>4 DEF BlackOk
  <2>2. CASE i \notin open
    <3>1. h[i] = heap[i] /\ BlackOk(heap, stack, tmudata, atomic, {}, i)
      BY <1>1, <1>2, <1>7, <2>2 DEF Colours
    <3> QED
      BY <3>1, <1>3, <1>6, <1>7 DEF BlackOk
  <2> QED
    BY <2>1, <2>2
<1>8. ASSUME NEW i \in Ids, Alive(h[i]) /\ h[i].mark = "gray"
      PROVE  h[i].kind = "string" \/ IsOpen(h[i]) \/ i \in gray \cup grayagain \cup weak
  <2>1. i \notin open
    BY <1>1, <1>2, <1>4, <1>8
  <2>2. h[i] = heap[i]
    BY <1>2, <2>1
  <2> QED
    BY <1>1, <1>8, <2>2 DEF Colours
<1>9. ListsOk(h, gray, grayagain, weak)
  <2>1. ListsOk(heap, gray, grayagain, weak)
    BY <1>1 DEF Colours
  <2>2. \A i \in gray \cup grayagain \cup weak : i \in Ids /\ h[i] = heap[i]
    BY <1>2, <2>1 DEF ListsOk, Listed
  <2> QED
    BY <2>1, <2>2 DEF ListsOk
<1>10. Clear(h, {Main}, is0)
  BY <1>1, <1>6 DEF Colours
<1>11. Colours(h, stack, gray, grayagain, weak, tmudata, atomic, is0)
  BY <1>7, <1>8, <1>9, <1>10 DEF Colours
<1>12. ASSUME NEW r \in is0 \cap Ids PROVE NotDead(h, cw, r) /\ r \notin garbage /\ r \notin open
  <2>1. PICK i \in open : heap[i].mark = "gray" /\ r = Value(heap[i])
    BY <1>12
  <2>2. i \in Ids /\ heap[i].kind = "upval"
    BY <1>2, <2>1
  <2>3. RefsOf(heap, stack, i) = {r} /\ IsValue(heap, r)
    BY <2>1, <2>2, ValueIs
  <2>4. NotDead(heap, cw, i) /\ Alive(heap[i])
    BY <1>1, <2>1, <2>2 DEF NotDead, Alive
  <2>5. i \notin garbage
    BY <1>1, <2>1, <2>4 DEF GarbageOk, IsWhite
  <2>6. r \in AllRefs(heap, stack, i)
    BY <2>3 DEF AllRefs
  <2>7. NotDead(heap, cw, r) /\ r \notin garbage
    BY <1>1, <1>12, <2>2, <2>3, <2>4, <2>5, <2>6 DEF Whole, GarbageOk
  <2>8. r \notin open
    BY <1>2, <1>12, <2>3 DEF IsValue
  <2> QED
    BY <1>3, <1>12, <2>7, <2>8
\* No upvalue is marked for them, and the environment of a userdata is none.
<1>13. Marked(h, is0) = Marked(heap, is0)
  <2> DEFINE direct == Whites(heap, is0)
  <2>1. Whites(h, is0) = direct
    BY <1>2, <1>12 DEF Whites
  <2>2. \A i \in direct : i \in Ids /\ i \notin open /\ h[i] = heap[i]
    BY <1>2, <1>12 DEF Whites
  <2>3. direct \cap Of(h, "upval") = {} /\ direct \cap Of(heap, "upval") = {}
    <3> SUFFICES ASSUME NEW r \in direct, heap[r].kind = "upval" PROVE FALSE
      BY <2>2 DEF Of
    <3>1. PICK i \in open : r = Value(heap[i]) /\ r \in Ids
      BY DEF Whites
    <3>2. IsValue(heap, r)
      BY <1>2, <3>1, ValueIs
    <3> QED
      BY <3>1, <3>2 DEF IsValue
  <2>4. /\ direct \cup Whites(h, {Value(h[i]) : i \in direct \cap Of(h, "upval")}) = direct
        /\ direct \cup Whites(heap, {Value(heap[i]) : i \in direct \cap Of(heap, "upval")}) = direct
    BY <2>3 DEF Whites
  <2>5. {h[i].val : i \in direct \cap Of(h, "userdata")} = {heap[i].val : i \in direct \cap Of(heap, "userdata")}
    BY <2>2 DEF Of
  <2>6. \A i \in direct \cap Of(heap, "userdata") : heap[i].val \in Ids => h[heap[i].val] = heap[heap[i].val]
    <3> SUFFICES ASSUME NEW i \in direct \cap Of(heap, "userdata"), heap[i].val \in Ids PROVE heap[i].val \notin open
      BY <1>2
    <3>1. ShapedAt(heap, stack, i) /\ heap[i].kind = "userdata" /\ heap[i].val # Nil
      BY <1>1, <2>2 DEF Shaped, Of, Nil, Ids
    <3> QED
      BY <1>2, <3>1 DEF ShapedAt
  <2>7. Whites(h, {heap[i].val : i \in direct \cap Of(heap, "userdata")}) =
          Whites(heap, {heap[i].val : i \in direct \cap Of(heap, "userdata")})
    BY <2>6 DEF Whites
  <2> HIDE DEF direct
  <2>8. Marked(heap, is0) = direct \cup Whites(heap, {heap[i].val : i \in direct \cap Of(heap, "userdata")})
    BY <2>4 DEF Marked, direct
  <2>9. Marked(h, is0) = direct \cup Whites(h, {h[i].val : i \in direct \cap Of(h, "userdata")})
    BY <2>1, <2>4 DEF Marked
  <2> QED
    BY <2>5, <2>7, <2>8, <2>9
<1> QED
  BY <1>11, <1>12, <1>13

(* luaF_close and luaC_linkupval: a gray upvalue becomes black with a barrier, or white (lgc.c:695-711). *)
LEMMA CloseOk ==
  ASSUME HeapInstance, HeapInv, NEW b \in 1 .. Slots, Close(b)
  PROVE  HeapInv'
<1> DEFINE open == {i \in OpenOf({Main}) : heap[i].slot >= b}
           h == [i \in Ids |-> IF i \in open THEN CloseUpval(heap[i]) ELSE heap[i]]
           is0 == {Value(heap[i]) : i \in {j \in open : heap[j].mark = "gray"}}
           is == IF gcstate = "propagate" THEN Marked(heap, is0) ELSE {}
           top == [a \in 1 .. Slots |-> IF a >= b THEN Nil ELSE stack[Main][a]]
           st2 == [stack EXCEPT ![Main] = top]
           R == Reachable(heap', stack', tmudata)
<1>1. /\ heap' = Painted(h, is) /\ gray' = gray \cup ToTraverse(heap, is) /\ grayagain' = grayagain /\ weak' = weak
      /\ May(st2)
  BY DEF Close
<1>2. ClosedIn(open, h)
  BY DEF ClosedIn, OpenOf
<1>3. /\ MaxObjects \in Nat /\ Main \in Ids /\ stack \in [Ids -> Seq(Refs)] /\ Len(stack[Main]) = Slots
      /\ heap[Main].kind = "thread"
  BY OnStack
<1>4. \A a \in 1 .. Slots : top[a] \in {stack[Main][a], Nil}
  OBVIOUS
<1>5. top \in Seq(Refs) /\ Len(top) = Slots
  <2>1. Slots \in Nat /\ Nil \in Refs
    BY DEF HeapInstance, Refs
  <2>2. \A a \in 1 .. Slots : top[a] \in Refs
    BY <1>3, <1>4, <2>1
  <2>3. top = [a \in 1 .. Slots |-> top[a]]
    OBVIOUS
  <2> HIDE DEF top
  <2> QED
    BY <2>1, <2>2, <2>3
<1>6. /\ st2 \in [Ids -> Seq(Refs)] /\ st2[Main] = top
      /\ \A j \in Ids \ {Main} : st2[j] = stack[j]
  BY <1>3, <1>5
<1> HIDE DEF open, h, is0, is, top, st2, R
<1>7. /\ stack' = st2 /\ atomic = "no" /\ full = "no" /\ gray \subseteq Ids /\ grayagain \subseteq Ids
      /\ Shaped(heap, stack)
  BY <1>1 DEF May, Runs, HeapInv, HeapTypes
<1>8. May(stack')
  BY <1>1, <1>7
<1>9. Context
  BY <1>7, OkStart
<1>10. Parts(h, stack) /\ h \in [Ids -> Objects]
  BY <1>2, <1>7, ClosedParts DEF Parts, Shaped
<1>11. Ok(heap', stack, gray', grayagain', {}) /\ gray' \subseteq Ids
  <2>1. CASE gcstate = "propagate"
    <3>1. /\ Colours(h, stack, gray, grayagain, weak, tmudata, atomic, is0)
          /\ \A r \in is0 \cap Ids : NotDead(h, cw, r) /\ r \notin garbage
          /\ Marked(h, is0) = Marked(heap, is0)
      BY <1>2, <1>7, <2>1, ClosedColours DEF is0
    <3>2. is = Marked(h, is0)
      BY <2>1, <3>1 DEF is
    <3>3. is \subseteq Ids
      BY <1>3, <1>10, <3>2, MarkedSpreads DEF Spread, Parts
    <3>4. Ok(Painted(h, is), stack, gray \cup ToTraverse(h, is), grayagain, {})
      BY <1>9, <1>10, <2>1, <3>1, <3>2, PaintOk
    <3>5. ToTraverse(h, is) = ToTraverse(heap, is)
      <4>1. \A i \in Ids : h[i].kind = heap[i].kind \/ (h[i].kind \in {"freed", "upval"} /\ heap[i].kind = "upval")
        BY <1>2, ClosedIs
      <4> QED
        BY <3>3, <4>1 DEF ToTraverse
    <3>6. ToTraverse(heap, is) \subseteq Ids
      BY <3>3 DEF ToTraverse
    <3> QED
      BY <1>1, <1>7, <3>4, <3>5, <3>6
  <2>2. CASE gcstate # "propagate"
    <3>1. is = {}
      BY <2>2 DEF is
    <3>2. heap' = h /\ gray' = gray
      <4>1. ToTraverse(heap, {}) = {}
        BY DEF ToTraverse
      <4> QED
        BY <1>1, <1>10, <3>1, <4>1, PaintNone
    <3> QED
      BY <1>7, <1>10, <2>2, <3>2 DEF Ok, Parts
  <2> QED
    BY <2>1, <2>2
<1>12. Ok(heap', st2, gray', grayagain', {})
  <2>1. CanPut(heap', Nil, {})
    BY DEF CanPut, Refs
  <2>2. heap'[Main].kind = "thread"
    BY <1>11 DEF Ok, Shaped
  <2>3. Len(st2[Main]) = Len(stack[Main]) /\ \A n \in 1 .. Len(stack[Main]) : st2[Main][n] \in {stack[Main][n], Nil}
    BY <1>3, <1>4, <1>5, <1>6
  <2> QED
    BY <1>3, <1>6, <1>9, <1>11, <2>1, <2>2, <2>3, Put
<1>13. Ok(heap', stack', gray', grayagain', R)
  BY <1>7, <1>12, OkMore
<1> QED
  BY <1>1, <1>7, <1>8, <1>11, <1>13, OkEnd DEF R

--------------------------------------------------------------------------
(* Every step. *)
LEMMA MutatorOk == ASSUME HeapInstance, HeapInv, Mutator PROVE HeapInv'
<1>0. PICK a, b \in 1 .. Slots :
    \/ /\ a = b
       /\ \/ \E mode \in program.kinds.table : NewTable(a, mode)
          \/ program.kinds.thread /\ NewThread(a)
          \/ \E bytes \in program.kinds.string : NewString(a, bytes)
          \/ Close(a)
    \/ \E mode \in program.kinds.udata : NewUdata(a, b, mode)
    \/ program.kinds.closure /\ NewClosure(a, Main, b)
    \/ program.kinds.closure /\ IsA(b, "thread") /\ NewClosure(a, At(b), 1)
    \/ Assign(a, IF a = b THEN Nil ELSE At(b))
    \/ \E k \in Values : SetTable(a, k, IF a = b THEN Nil ELSE At(b))
    \/ GetTable(a, b)
    \/ SetUpval(a, At(b))
    \/ GetUpval(a, b)
    \/ SetEnv(a, b)
    \/ XMove(a, b)
  BY DEF Mutator
<1>1. CASE \E mode \in program.kinds.table : NewTable(a, mode)
  BY <1>1, NewTableOk
<1>2. CASE NewThread(a)
  BY <1>2, NewThreadOk
<1>3. CASE \E bytes \in program.kinds.string : NewString(a, bytes)
  BY <1>3, NewStringOk
<1>4. CASE Close(a)
  BY <1>4, CloseOk
<1>5. CASE \E mode \in program.kinds.udata : NewUdata(a, b, mode)
  BY <1>5, NewUdataOk
<1>6. CASE NewClosure(a, Main, b)
  <2>1. Main \in Ids /\ heap[Main].kind = "thread" /\ NotDead(heap, cw, Main) /\ Main \notin garbage
    BY OnStack
  <2>2. b \in 1 .. Room(Main)
    BY DEF Room
  <2> QED
    BY <1>6, <2>1, <2>2, NewClosureOk
<1>7. CASE IsA(b, "thread") /\ NewClosure(a, At(b), 1)
  <2>1. At(b) \in Ids \ {Main} /\ heap[At(b)].kind = "thread" /\ NotDead(heap, cw, At(b)) /\ At(b) \notin garbage
    BY <1>7, OnStack DEF IsA
  <2>2. 1 \in 1 .. Room(At(b))
    BY <2>1 DEF Room
  <2> QED
    BY <1>7, <2>1, <2>2, NewClosureOk
<1>8. CASE Assign(a, IF a = b THEN Nil ELSE At(b))
  BY <1>8, AssignOk
<1>9. ASSUME NEW k \in Values, SetTable(a, k, IF a = b THEN Nil ELSE At(b)) PROVE HeapInv'
  <2> DEFINE v == IF a = b THEN Nil ELSE At(b)
  <2>1. v = Nil \/ \E c \in 1 .. Slots : v = At(c)
    OBVIOUS
  <2>2. SetTable(a, k, v)
    BY <1>9
  <2> HIDE DEF v
  <2> QED
    BY <2>1, <2>2, SetTableOk
<1>10. CASE GetTable(a, b)
  BY <1>10, GetTableOk
<1>11. CASE SetUpval(a, At(b))
  BY <1>11, SetUpvalOk
<1>12. CASE GetUpval(a, b)
  BY <1>12, GetUpvalOk
<1>13. CASE SetEnv(a, b)
  BY <1>13, SetEnvOk
<1>14. CASE XMove(a, b)
  BY <1>14, XMoveOk
<1> QED
  BY <1>0, <1>1, <1>2, <1>3, <1>4, <1>5, <1>6, <1>7, <1>8, <1>9, <1>10, <1>11, <1>12, <1>13, <1>14

(* Every step of the collector and of the program keeps the invariant. *)
LEMMA StepOk == ASSUME HeapInstance, HeapInv, [Next]_lhVars PROVE HeapInv'
<1>1. CASE UNCHANGED lhVars
  <2> USE <1>1 DEF lhVars
  <2>1. HeapTypes' /\ (Shaped(heap, stack) /\ Whole(heap, stack, cw, tmudata))'
    BY DEF HeapInv, HeapTypes, Shaped, ShapedAt, Whole, NotDead, AllRefs
  <2>2. PhaseInv' /\ FinalOk(heap)' /\ StringsOk(heap)'
    BY DEF HeapInv, PhaseInv, PhaseOk, Settled, FinalOk, StringsOk
  <2>3. ColourInv'
    BY DEF HeapInv, ColourInv, Colours, BlackOk, ListsOk, Clear
  <2>4. GarbageOk(heap, stack, {})'
    BY DEF HeapInv, GarbageOk
  <2> QED
    BY <2>1, <2>2, <2>3, <2>4 DEF HeapInv
<1>2. CASE MarkRoot \/ PropagateMark \/ RemarkUpvals \/ RemarkWeak \/ RemarkAgain \/ MarkTmu \/ FlipWhite
  BY <1>2, MarkRootOk, PropagateOk, RemarkUpvalsOk, RemarkListOk, MarkTmuOk, FlipWhiteOk
<1>3. CASE SweepString \/ Sweep \/ Gctm \/ EndCollection \/ FullGc
  BY <1>3, SweepStringOk, SweepOk, GctmOk, EndCollectionOk, FullGcOk
<1> QED
  BY <1>1, <1>2, <1>3, MutatorOk DEF Next

\* A program starts with the objects that it is given, all white.
LEMMA InitOk == ASSUME HeapInstance, Init PROVE HeapInv
<1> DEFINE n == Len(program.objects)
           Known == {Nil} \cup 1 .. n
           There == {Main} \cup 1 .. n
<1>1. /\ program \in Mutators /\ cw = "w0" /\ gcstate = "pause" /\ atomic = "no" /\ gray = {} /\ grayagain = {} /\ weak = {}
      /\ unswept = {} /\ tmudata = {} /\ full = "no" /\ ops = 0 /\ garbage = {} /\ gced = [i \in Ids |-> 0]
      /\ heap = [i \in Ids |-> IF i = Main THEN [Blank EXCEPT !.kind = "thread"]
                               ELSE IF i <= n THEN program.objects[i] ELSE Blank]
      /\ stack = [i \in Ids |-> IF i = Main THEN program.locals ELSE IF i <= n THEN program.stacks[i] ELSE <<>>]
  BY DEF Init
<1>2. /\ MaxObjects \in Nat /\ Slots \in Nat /\ program.ops \in Nat
      /\ program.objects \in Seq(Objects) /\ n \in Nat /\ n <= MaxObjects
      /\ program.locals \in Seq(Refs) /\ Len(program.locals) = Slots
      /\ program.stacks \in [1 .. n -> Seq(Refs)]
  BY <1>1 DEF HeapInstance
<1>3. \A k \in DOMAIN program.locals : program.locals[k] \in Known
  <2>1. \A k \in 1 .. Slots : program.locals[k] # Nil => program.locals[k] <= n
    BY <1>1 DEF HeapInstance
  <2>2. DOMAIN program.locals = 1 .. Slots /\ \A k \in 1 .. Slots : program.locals[k] \in Refs
    BY <1>2
  <2> HIDE DEF n
  <2> QED
    BY <1>2, <2>1, <2>2 DEF Refs
<1>4. \A i \in 1 .. n :
        /\ program.objects[i].kind \in {"table", "thread", "string", "userdata"}
        /\ program.objects[i].mark = "w0" /\ program.objects[i].on = Nil
        /\ program.objects[i].key \in Known /\ program.objects[i].val \in Known
        /\ program.objects[i].kind = "string" => program.objects[i].val = Nil
        /\ program.objects[i].kind = "userdata" /\ program.objects[i].val # Nil =>
             program.objects[program.objects[i].val].kind = "table"
        /\ program.objects[i].kind = "thread" => Len(program.stacks[i]) = 1
        /\ \A k \in DOMAIN program.stacks[i] : program.stacks[i][k] \in Known
  <2> DEFINE Low(v) == v # Nil => v <= n
  <2> SUFFICES ASSUME NEW i \in 1 .. n
               PROVE  /\ program.objects[i].kind \in {"table", "thread", "string", "userdata"}
                      /\ program.objects[i].mark = "w0" /\ program.objects[i].on = Nil
                      /\ program.objects[i].key \in Known /\ program.objects[i].val \in Known
                      /\ program.objects[i].kind = "string" => program.objects[i].val = Nil
                      /\ program.objects[i].kind = "userdata" /\ program.objects[i].val # Nil =>
                           program.objects[program.objects[i].val].kind = "table"
                      /\ program.objects[i].kind = "thread" => Len(program.stacks[i]) = 1
                      /\ \A k \in DOMAIN program.stacks[i] : program.stacks[i][k] \in Known
    OBVIOUS
  <2>1. /\ program.objects[i].kind \in {"table", "thread", "string", "userdata"}
        /\ program.objects[i].mark = "w0" /\ program.objects[i].on = Nil
        /\ program.objects[i].key # DeadKey /\ Low(program.objects[i].key) /\ Low(program.objects[i].val)
        /\ program.objects[i].kind = "string" => program.objects[i].val = Nil
        /\ program.objects[i].kind = "userdata" /\ program.objects[i].val # Nil =>
             program.objects[program.objects[i].val].kind = "table"
        /\ program.objects[i].kind = "thread" => Len(program.stacks[i]) = 1
        /\ \A k \in DOMAIN program.stacks[i] : Low(program.stacks[i][k])
    BY <1>1 DEF HeapInstance
  <2>2. program.objects[i] \in Objects /\ program.stacks[i] \in Seq(Refs)
    BY <1>2
  <2>3. \A v \in Refs : Low(v) => v \in Known
    <3> HIDE DEF n
    <3> QED
      BY <1>2 DEF Refs
  <2>4. program.objects[i].key \in Refs /\ program.objects[i].val \in Refs
    BY <2>1, <2>2 DEF Objects
  <2> HIDE DEF Low, n, Known
  <2>5. \A k \in DOMAIN program.stacks[i] : program.stacks[i][k] \in Known
    BY <2>1, <2>2, <2>3
  <2> QED
    BY <2>1, <2>3, <2>4, <2>5
<1>5. \A i, j \in 1 .. n :
        program.objects[i].kind = "string" /\ program.objects[j].kind = "string"
        /\ program.objects[i].mode = program.objects[j].mode => i = j
  BY <1>1 DEF HeapInstance
<1> HIDE DEF n
<1>6. Blank \in Objects /\ [Blank EXCEPT !.kind = "thread"] \in Objects
  BY <1>2 DEF Blank, Objects, ObjectKinds, Modes, Refs
<1>7. /\ heap \in [Ids -> Objects] /\ stack \in [Ids -> Seq(Refs)]
      /\ heap[Main].kind = "thread" /\ heap[Main].mark = "w0" /\ stack[Main] = program.locals
      /\ heap[Main].on = Nil
      /\ \A i \in 1 .. n : i \in Ids /\ heap[i] = program.objects[i] /\ stack[i] = program.stacks[i]
      /\ \A i \in Ids \ There : heap[i].kind = "unborn" /\ heap[i].on = Nil /\ stack[i] = <<>>
  <2>1. Main \in Ids /\ \A i \in 1 .. n : i \in Ids /\ i # Main /\ program.objects[i] \in Objects
    BY <1>2 DEF Main, Ids, n
  <2>2. \A i \in Ids : i = Main \/ i \in 1 .. n \/ ~ (i <= n)
    BY <1>2 DEF Main, Ids
  <2>3. heap \in [Ids -> Objects]
    BY <1>1, <1>6, <2>1, <2>2
  <2>4. stack \in [Ids -> Seq(Refs)]
    BY <1>1, <1>2, <2>2
  <2>5. heap[Main].kind = "thread" /\ heap[Main].mark = "w0" /\ heap[Main].on = Nil
    BY <1>1, <2>1 DEF Blank
  <2>6. \A i \in 1 .. n : heap[i] = program.objects[i] /\ stack[i] = program.stacks[i]
    BY <1>1, <2>1
  <2>7. \A i \in Ids \ There : heap[i] = Blank /\ stack[i] = <<>>
    BY <1>1, <2>2
  <2>8. Blank.kind = "unborn" /\ Blank.on = Nil
    BY DEF Blank
  <2> QED
    BY <1>1, <2>1, <2>3, <2>4, <2>5, <2>6, <2>7, <2>8
<1>8. \A i \in Ids : Alive(heap[i]) => i \in There /\ heap[i].mark = "w0"
  <2> SUFFICES ASSUME NEW i \in Ids, Alive(heap[i]) PROVE i \in There /\ heap[i].mark = "w0"
    OBVIOUS
  <2>1. i \in There
    BY <1>7 DEF Alive
  <2>2. i \in 1 .. n => heap[i].mark = "w0"
    BY <1>4, <1>7
  <2> QED
    BY <1>7, <2>1, <2>2
<1>9. \A i \in There : i \in Ids /\ heap[i].kind \in {"table", "thread", "string", "userdata"} /\ heap[i].on = Nil
  <2> SUFFICES ASSUME NEW i \in There
               PROVE  i \in Ids /\ heap[i].kind \in {"table", "thread", "string", "userdata"} /\ heap[i].on = Nil
    OBVIOUS
  <2>1. CASE i \in 1 .. n
    BY <1>4, <1>7, <2>1
  <2>2. CASE i = Main
    BY <1>2, <1>7, <2>2 DEF Main, Ids
  <2> QED
    BY <2>1, <2>2
<1>10. \A r \in Known : (r \in Ids => r \in There) /\ IsValue(heap, r)
  BY <1>2, <1>9, SMTT(60) DEF Ids, Nil, IsValue
<1>11. \A i \in Ids : \A k \in DOMAIN stack[i] : stack[i][k] \in Known
  <2> TAKE i \in Ids
  <2>1. CASE i = Main
    BY <1>3, <1>7, <2>1
  <2>2. CASE i \in 1 .. n
    BY <1>4, <1>7, <2>2
  <2>3. CASE i \notin There
    BY <1>7, <2>3
  <2> QED
    BY <2>1, <2>2, <2>3
<1>13. Shaped(heap, stack)
  <2>1. ASSUME NEW i \in Ids PROVE ShapedAt(heap, stack, i)
    <3>1. \A k \in DOMAIN stack[i] : IsValue(heap, stack[i][k])
      BY <1>10, <1>11
    <3>2. CASE i = Main
      BY <1>2, <1>7, <3>1, <3>2 DEF ShapedAt, Room, IsOpen
    <3>3. CASE i \in 1 .. n
      <4> DEFINE o == heap[i]
      <4>1. /\ o = program.objects[i] /\ o \in Objects /\ i # Main
            /\ o.kind \in {"table", "thread", "string", "userdata"} /\ o.on = Nil /\ o.val \in Known /\ o.key \in Known
            /\ (o.kind = "string" => o.val = Nil)
            /\ o.kind = "thread" => Len(stack[i]) = 1
        <5>1. o = program.objects[i] /\ o \in Objects /\ i # Main
          BY <1>7, <3>3 DEF Main
        <5> QED
          BY <1>4, <1>7, <3>3, <5>1
      <4>2. IsValue(heap, o.val) /\ IsValue(heap, o.key)
        BY <1>10, <4>1
      <4>3. o.kind = "userdata" /\ o.val # Nil => heap[o.val].kind = "table"
        <5>1. o.val # Nil => o.val \in 1 .. n
          BY <4>1
        <5> QED
          BY <1>4, <1>7, <3>3, <4>1, <5>1
      <4>4. ~ IsOpen(o)
        BY <4>1 DEF IsOpen
      <4> HIDE DEF o
      <4>5. o = heap[i]
        BY DEF o
      <4> QED
        BY <3>1, <4>1, <4>2, <4>3, <4>4, <4>5 DEF ShapedAt, Room
    <3>4. CASE i \notin There
      BY <1>7, <3>1, <3>4 DEF ShapedAt, IsOpen
    <3> QED
      BY <3>2, <3>3, <3>4
  <2> QED
    BY <1>7, <2>1 DEF Shaped
<1>14. \A i \in Ids : NotDead(heap, cw, i) <=> i \in There
  <2>1. \A i \in There : Alive(heap[i]) /\ i \in Ids
    BY <1>9 DEF Alive
  <2>2. Other(cw) # "w0"
    BY <1>1 DEF Other
  <2> QED
    BY <1>8, <2>1, <2>2 DEF NotDead
<1>15. Whole(heap, stack, cw, tmudata)
  <2>1. ASSUME NEW i \in There, NEW r \in AllRefs(heap, stack, i) \cap Ids PROVE r \in There
    <3>1. i \in Ids /\ heap[i].kind \in {"table", "thread", "string", "userdata"} /\ MaxObjects \in Nat
      BY <1>2, <1>9
    <3>2. heap[i].kind # "thread" => heap[i].val \in Known /\ heap[i].key \in Known
      BY <1>4, <1>7
    <3> HIDE DEF There, Known
    <3>3. CASE heap[i].kind = "thread"
      <4>1. AllRefs(heap, stack, i) = {stack[i][k] : k \in 1 .. Len(stack[i])} /\ stack[i] \in Seq(Refs)
        BY <1>7, <1>13, <3>1, <3>3, RefsAre
      <4> QED
        BY <1>10, <1>11, <2>1, <3>1, <4>1
    <3>4. CASE heap[i].kind = "table"
      <4>1. AllRefs(heap, stack, i) = Entry(heap[i])
        BY <1>13, <3>1, <3>4, RefsAre
      <4>2. r \in {heap[i].key, heap[i].val}
        BY <2>1, <4>1 DEF Entry
      <4> QED
        BY <1>10, <2>1, <3>2, <3>4, <4>2
    <3>5. CASE heap[i].kind \in {"string", "userdata"}
      <4>1. AllRefs(heap, stack, i) = {heap[i].val}
        BY <1>13, <3>1, <3>5, RefsAre
      <4> QED
        BY <1>10, <2>1, <3>2, <3>5, <4>1
    <3> QED
      BY <3>1, <3>3, <3>4, <3>5
  <2>2. Main \in Ids /\ Main \in There
    BY <1>2 DEF Main, Ids
  <2> HIDE DEF There
  <2> QED
    BY <1>1, <1>14, <2>1, <2>2 DEF Whole
<1>16. PhaseInv
  BY <1>1, <1>8 DEF PhaseInv, PhaseOk, Settled
<1>17. FinalOk(heap)
  BY <1>1 DEF FinalOk
<1>18. StringsOk(heap)
  <2>1. \A i \in Of(heap, "string") : i \in 1 .. n
    BY <1>7 DEF Of
  <2>2. \A i \in Of(heap, "string") : heap[i] = program.objects[i] /\ heap[i].kind = "string"
    BY <1>7, <2>1 DEF Of
  <2> QED
    BY <1>5, <2>1, <2>2 DEF StringsOk
<1>19. ColourInv /\ GarbageOk(heap, stack, {})
  BY <1>1 DEF ColourInv, GarbageOk
<1>20. HeapTypes
  BY <1>1, <1>2 DEF HeapTypes
<1> QED
  BY <1>13, <1>15, <1>16, <1>17, <1>18, <1>19, <1>20 DEF HeapInv

(* The invariant says the types of the state. *)
LEMMA InvTypes == ASSUME HeapInstance, HeapInv PROVE TypeOK
<1>1. \A i \in Ids : heap[i].mark \in {"w0", "w1", "gray", "black"}
  BY DEF HeapInv, Shaped, Objects
<1> QED
  BY <1>1 DEF HeapInv, HeapTypes, TypeOK

--------------------------------------------------------------------------
\* misc/luabash/lua/lgc.c: the heap and the lists of the collector stay what
\* they are meant to be, for any program that starts with a heap that is whole.
THEOREM HeapTypeCorrect == HeapInstance => (Spec => []TypeOK)
<1> SUFFICES ASSUME HeapInstance PROVE Spec => []TypeOK
  OBVIOUS
<1>1. Init => HeapInv
  BY InitOk
<1>2. HeapInv /\ [Next]_lhVars => HeapInv'
  BY StepOk
<1>3. HeapInv => TypeOK
  BY InvTypes
<1> QED
  BY <1>1, <1>2, <1>3, PTL DEF Spec

\* lgc.c, lfunc.c, lstring.c: wherever the steps of the collector fall between
\* those of the program, nothing that the program can get at has been freed,
\* __gc is called once, what was out of reach when a collection began is gone
\* when it ends, and while the heap is marked nothing black refers to what is
\* white.
THEOREM HeapIsKept == HeapInstance => (Spec => [](HeapIsSafe /\ MarksAreRight))
<1> SUFFICES ASSUME HeapInstance PROVE Spec => [](HeapIsSafe /\ MarksAreRight)
  OBVIOUS
<1>1. Init => HeapInv
  BY InitOk
<1>2. HeapInv /\ [Next]_lhVars => HeapInv'
  BY StepOk
<1>3. HeapInv => HeapIsSafe /\ MarksAreRight
  BY InvIsSafe
<1> QED
  BY <1>1, <1>2, <1>3, PTL DEF Spec
=============================================================================
