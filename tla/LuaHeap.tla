------------------------------- MODULE LuaHeap -------------------------------
(***************************************************************************)
(* misc/luabash/lua: lgc.c, lfunc.c, lstring.c.  The incremental collector *)
(* marks and sweeps a little at a time while the program (the mutator)     *)
(* runs: write barriers, upvalues that share the stack until they are      *)
(* closed, interned strings that are brought back to life, weak tables and *)
(* userdata with a finalizer.  When a step is due depends on the allocated *)
(* bytes: here it may come between any two operations of the mutator.  The *)
(* lists of objects to traverse are sets: any of them may be the next.     *)
(***************************************************************************)
EXTENDS Integers, Sequences, SequencesExt, FiniteSets

CONSTANTS
  MaxObjects,  \* bound on the objects that are allocated
  GCSWEEPMAX,  \* objects that one step sweeps
  Slots,       \* slots of the main thread's stack
  Mutators     \* [objects, stacks, locals] a program starts with, [kinds] it makes, [ops] bound on its operations

VARIABLES
  program,    \* one of Mutators
  heap,       \* the objects, with their marks
  stack,      \* the stack of each thread
  cw,         \* current white: the mark of new objects
  gcstate,    \* phase of the collector
  atomic,     \* the part of atomic() that has begun, "no" outside of it
  gray, grayagain, weak,  \* its lists
  unswept,    \* objects of rootgc, or strings, that the sweep has not reached
  tmudata,    \* userdata to be finalized
  full,       \* lua_gc(LUA_GCCOLLECT) is running
  ops,        \* history: operations of the mutator
  garbage,    \* history: objects out of reach since the mark phase began
  gced        \* history: how often __gc was called for each object

lhVars ==
  <<program, heap, stack, cw, gcstate, atomic, gray, grayagain, weak, unswept, tmudata, full, ops, garbage, gced>>
Lists == <<gray, grayagain, weak>>

Nil == -1
DeadKey == -2
Main == 0
Ids == 0..MaxObjects
(* An open upvalue is on a thread and lives in a slot of its stack. *)
Blank ==
  [kind |-> "unborn", mark |-> "w0", mode |-> "", key |-> Nil, val |-> Nil, on |-> Nil, slot |-> 0, fin |-> FALSE]

Other(w) == IF w = "w0" THEN "w1" ELSE "w0"
IsWhite(o) == o.mark \in {"w0", "w1"}
IsDead(o) == o.mark = Other(cw)
Alive(o) == o.kind \notin {"unborn", "freed"}
Of(h, kind) == {i \in Ids : h[i].kind = kind}
IsOpen(o) == o.kind = "upval" /\ o.on # Nil
Value(o) == IF IsOpen(o) THEN stack[o.on][o.slot] ELSE o.val
WeakKey(o) == o.mode \in {"k", "kv"}
WeakValue(o) == o.mode \in {"v", "kv"}

--------------------------------------------------------------------------
(* Marking.  A mark goes on from an upvalue to its value, which is none, and *)
(* from a userdata to its environment, a table.                              *)
Whites(h, is) == {i \in is \cap Ids : IsWhite(h[i])}
Marked(h, is) ==
  LET direct == Whites(h, is)
      values == direct \cup Whites(h, {Value(h[i]) : i \in direct \cap Of(h, "upval")})
  IN values \cup Whites(h, {h[i].val : i \in values \cap Of(h, "userdata")})

Colour(o) == IF o.kind = "userdata" \/ (o.kind = "upval" /\ ~ IsOpen(o)) THEN "black" ELSE "gray"
Painted(h, is) == [i \in Ids |-> IF i \in is THEN [h[i] EXCEPT !.mark = Colour(h[i])] ELSE h[i]]
(* The others of them are traversed later. *)
ToTraverse(h, is) == {i \in is : h[i].kind \in {"table", "thread", "function"}}

(* What the traversal of a table marks of its entry, and of a weak one.      *)
Strong(o) ==
  IF o.val = Nil THEN {} ELSE (IF WeakKey(o) THEN {} ELSE {o.key}) \cup (IF WeakValue(o) THEN {} ELSE {o.val})

--------------------------------------------------------------------------
(* What the program can still get at: the registry's tables, metatables and *)
(* globals are always there and left out; the stack of the main thread, and *)
(* what is referred to from there other than weakly.                        *)
IsString(h, i) == i \in Ids /\ h[i].kind = "string"
Entry(o) == IF o.kind = "table" /\ o.val # Nil THEN {o.key, o.val} ELSE {}

RefsOf(h, st, i) ==
  LET o == h[i] IN
  CASE o.kind = "thread" -> ToSet(st[i])
    [] o.kind = "upval" -> {IF IsOpen(o) THEN st[o.on][o.slot] ELSE o.val}
    [] o.kind = "table" -> Strong(o) \cup {r \in Entry(o) : IsString(h, r)}
    [] OTHER -> {o.val}

(* The least set with the main thread, the userdata and what is in reach. *)
Reachable(h, st, tmu) ==
  LET closed == {C \in SUBSET Ids : {Main} \cup tmu \subseteq C /\ \A i \in C : RefsOf(h, st, i) \cap Ids \subseteq C}
  IN {i \in Ids : \A C \in closed : i \in C}

(* What came back into reach, through a weak table or a finalizer, is no garbage. *)
Note == garbage' = garbage \ Reachable(heap', stack', tmudata')

--------------------------------------------------------------------------
(* The collector's steps. *)
MarkRoot ==
  /\ gcstate = "pause" \/ (gcstate = "finalize" /\ full = "sweep")
  /\ LET is == Marked(heap, {Main}) IN
     /\ heap' = Painted(heap, is)
     /\ gray' = ToTraverse(heap, is) /\ grayagain' = {} /\ weak' = {}
  /\ gcstate' = "propagate" /\ full' = IF full = "sweep" THEN "collect" ELSE full
  /\ UNCHANGED <<program, stack, cw, atomic, unswept, tmudata, ops, gced>>
  /\ garbage' = {i \in Ids : Alive(heap[i])} \ Reachable(heap', stack', tmudata')

(* A table is black, or stays gray if it is weak.  An entry without a value  *)
(* loses its key, but in a table that is weak in both.                       *)
TraverseTable(i) ==
  LET o == heap[i]
      is == Marked(heap, Strong(o))
      isWeak == WeakKey(o) \/ WeakValue(o)
  IN /\ o.kind = "table"
     /\ heap' = [Painted(heap, is) EXCEPT
          ![i].mark = IF isWeak THEN "gray" ELSE "black",
          ![i].key = IF o.mode # "kv" /\ o.val = Nil /\ o.key # Nil THEN DeadKey ELSE o.key]
     /\ gray' = (gray \ {i}) \cup ToTraverse(heap, is)
     /\ weak' = IF isWeak THEN weak \cup {i} ELSE weak
     /\ UNCHANGED grayagain

(* A thread stays gray, and is traversed again. *)
TraverseStack(i) ==
  LET is == Marked(heap, ToSet(stack[i])) IN
  /\ heap[i].kind = "thread"
  /\ heap' = Painted(heap, is)
  /\ gray' = (gray \ {i}) \cup ToTraverse(heap, is)
  /\ grayagain' = grayagain \cup {i}
  /\ UNCHANGED weak

TraverseClosure(i) ==
  LET is == Marked(heap, {heap[i].val}) IN
  /\ heap[i].kind = "function"
  /\ heap' = [Painted(heap, is) EXCEPT ![i].mark = "black"]
  /\ gray' = (gray \ {i}) \cup ToTraverse(heap, is)
  /\ UNCHANGED <<grayagain, weak>>

PropagateMark ==
  /\ gcstate = "propagate"
  /\ \E i \in gray : TraverseTable(i) \/ TraverseStack(i) \/ TraverseClosure(i)
  /\ UNCHANGED <<program, stack, cw, gcstate, atomic, unswept, tmudata, full, ops, gced>>
  /\ Note

(* atomic(), between the propagateall's of which the program does not run. *)
Atomic(from, to) ==
  /\ gcstate = "propagate" /\ gray = {} /\ atomic = from /\ atomic' = to
  /\ UNCHANGED <<program, stack, full, ops, gced>>

(* Open upvalues of threads that may be dead: their values live on a stack *)
(* that nobody has traversed.                                              *)
RemarkUpvals ==
  /\ Atomic("no", "upvals")
  /\ LET is == Marked(heap, {Value(heap[i]) : i \in {j \in Ids : IsOpen(heap[j]) /\ heap[j].mark = "gray"}}) IN
     heap' = Painted(heap, is) /\ gray' = ToTraverse(heap, is)
  /\ UNCHANGED <<cw, gcstate, grayagain, weak, unswept, tmudata>> /\ Note

RemarkWeak ==
  /\ Atomic("upvals", "weak")
  /\ gray' = weak /\ weak' = {}
  /\ UNCHANGED <<heap, cw, gcstate, grayagain, unswept, tmudata>> /\ Note

RemarkAgain ==
  /\ Atomic("weak", "again")
  /\ gray' = grayagain /\ grayagain' = {}
  /\ UNCHANGED <<heap, cw, gcstate, weak, unswept, tmudata>> /\ Note

(* Userdata that is white, with a finalizer: to be called once.  What is still *)
(* to be called from the last collection is marked again.                      *)
ToFinalize == {i \in Of(heap, "userdata") : IsWhite(heap[i]) /\ ~ heap[i].fin /\ heap[i].mode = "gc"}
Separated ==
  [i \in Ids |->
     IF i \in tmudata \cup ToFinalize THEN [heap[i] EXCEPT !.fin = TRUE, !.mark = cw]
     ELSE IF heap[i].kind = "userdata" /\ IsWhite(heap[i]) THEN [heap[i] EXCEPT !.fin = TRUE] ELSE heap[i]]

MarkTmu ==
  /\ Atomic("again", "tmudata")
  /\ tmudata' = tmudata \cup ToFinalize
  /\ LET is == Marked(Separated, tmudata') IN
     heap' = Painted(Separated, is) /\ gray' = ToTraverse(Separated, is)
  /\ UNCHANGED <<cw, gcstate, grayagain, weak, unswept>> /\ Note

(* Collected entries leave the weak tables; a string in one is a value, and *)
(* is marked, as long as the test of the key before it did not succeed.     *)
IsCleared(i, iskey) ==
  /\ i \in Ids /\ heap[i].kind # "string"
  /\ IsWhite(heap[i]) \/ (heap[i].kind = "userdata" /\ ~ iskey /\ heap[i].fin)
Tested(o) == IF o.val = Nil THEN {} ELSE {o.key} \cup (IF IsCleared(o.key, TRUE) THEN {} ELSE {o.val})
ClearTable ==
  LET cleared == {i \in weak : heap[i].val # Nil /\ (IsCleared(heap[i].key, TRUE) \/ IsCleared(heap[i].val, FALSE))}
      strings == Whites(heap, (UNION {Tested(heap[i]) : i \in weak})) \cap Of(heap, "string")
  IN heap' = [i \in Ids |->
       IF i \in cleared THEN [heap[i] EXCEPT !.val = Nil, !.key = IF @ # Nil THEN DeadKey ELSE @]
       ELSE IF i \in strings THEN [heap[i] EXCEPT !.mark = "gray"] ELSE heap[i]]

FlipWhite ==
  /\ Atomic("tmudata", "no")
  /\ ClearTable
  /\ cw' = Other(cw) /\ gcstate' = "sweepstring" /\ unswept' = Of(heap, "string")
  /\ UNCHANGED <<gray, grayagain, weak, tmudata>> /\ Note

(* An object that is dead goes, another turns white.  A thread has its open *)
(* upvalues swept with it, and closes those that are left when it goes.     *)
Goes(i) == i # Main /\ IsDead(heap[i])
OpenOf(threads) == {i \in Ids : IsOpen(heap[i]) /\ heap[i].on \in threads}
Swept(is) ==
  LET threads == is \cap Of(heap, "thread")
  IN [i \in Ids |->
       IF i \notin is \cup OpenOf(threads) THEN heap[i]
       ELSE IF Goes(i) THEN [heap[i] EXCEPT !.kind = "freed"]
       ELSE IF IsOpen(heap[i]) /\ Goes(heap[i].on)
            THEN [heap[i] EXCEPT !.mark = cw, !.val = Value(heap[i]), !.on = Nil]
       ELSE [heap[i] EXCEPT !.mark = cw]]

Sweepable(h) == {i \in Ids : Alive(h[i]) /\ h[i].kind # "string" /\ ~ IsOpen(h[i])} \ tmudata

(* The list of objects: the newest first, the main thread, then userdata. *)
Before(i, j) ==
  IF (heap[i].kind = "userdata") = (heap[j].kind = "userdata") THEN i > j ELSE heap[j].kind = "userdata"
NextToSweep == {i \in unswept : Cardinality({j \in unswept : Before(j, i)}) < GCSWEEPMAX}

SweepString ==
  /\ gcstate = "sweepstring"
  /\ heap' = Swept(unswept)
  /\ gcstate' = "sweep" /\ unswept' = Sweepable(heap')
  /\ UNCHANGED <<program, stack, cw, atomic, Lists, tmudata, full, ops, gced>> /\ Note

Sweep ==
  /\ gcstate = "sweep"
  /\ heap' = Swept(NextToSweep) /\ unswept' = unswept \ NextToSweep
  /\ gcstate' = IF unswept' = {} THEN "finalize" ELSE gcstate
  /\ UNCHANGED <<program, stack, cw, atomic, Lists, tmudata, full, ops, gced>> /\ Note

(* One of the userdata goes back to the list of objects, and its __gc is    *)
(* called with it on the stack: it may keep it.                             *)
Gctm ==
  /\ gcstate = "finalize" /\ full # "sweep"
  /\ \E u \in tmudata :
       /\ heap' = [heap EXCEPT ![u].mark = cw]
       /\ gced' = [gced EXCEPT ![u] = @ + 1]
       /\ tmudata' = tmudata \ {u}
       /\ \/ UNCHANGED stack
          \/ \E a \in 1..Slots : stack' = [stack EXCEPT ![Main][a] = u]
  /\ UNCHANGED <<program, cw, gcstate, atomic, Lists, unswept, full, ops>> /\ Note

EndCollection ==
  /\ gcstate = "finalize" /\ full # "sweep" /\ tmudata = {}
  /\ gcstate' = "pause" /\ full' = "no"
  /\ UNCHANGED <<program, heap, stack, cw, atomic, Lists, unswept, tmudata, ops, gced>> /\ Note

--------------------------------------------------------------------------
(* The mutator: the instructions and calls that touch the heap. *)
At(a) == stack[Main][a]
IsA(a, kind) == At(a) # Nil /\ heap[At(a)].kind = kind
Runs == full = "no" /\ atomic = "no" /\ ops < program.ops /\ ops' = ops + 1
May(st) ==
  /\ Runs
  /\ stack' = st
  /\ UNCHANGED <<program, cw, gcstate, atomic, unswept, tmudata, full, gced>> /\ Note
Puts(a, v) == [stack EXCEPT ![Main][a] = v]
Unborn == Of(heap, "unborn")
Fresh(is) == CHOOSE i \in is : \A j \in is : i <= j
Linked(h, i, o) == [h EXCEPT ![i] = [o EXCEPT !.mark = cw]]
NewObject(o, st) ==
  /\ Unborn # {} /\ heap' = Linked(heap, Fresh(Unborn), o) /\ UNCHANGED Lists
  /\ May(st)

(* luaC_fullgc: sweeps all the marks away, then does a whole collection. *)
FullGc ==
  /\ program.kinds.full /\ Runs
  /\ full' = "sweep"
  /\ IF gcstate \in {"pause", "propagate"}
     THEN /\ gray' = {} /\ grayagain' = {} /\ weak' = {}
          /\ gcstate' = "sweepstring" /\ unswept' = Of(heap, "string")
     ELSE UNCHANGED <<Lists, gcstate, unswept>>
  /\ UNCHANGED <<program, heap, stack, cw, atomic, tmudata, gced>> /\ Note

(* luaC_barrierf: the collector goes on from v, or o need not be watched. *)
BarrierF(h, o, v) ==
  LET watched == v # Nil /\ h[o].mark = "black" /\ IsWhite(h[v])
      is == IF watched /\ gcstate = "propagate" THEN Marked(h, {v}) ELSE {}
  IN /\ heap' = IF watched /\ gcstate # "propagate" THEN [h EXCEPT ![o].mark = cw] ELSE Painted(h, is)
     /\ gray' = gray \cup ToTraverse(h, is)
     /\ UNCHANGED <<grayagain, weak>>

(* Variant: a table that was traversed is left black. *)
NoBarrier(h, t, vs) == heap' = h /\ UNCHANGED Lists

(* luaC_barrierback: the table is to be traversed again. *)
BarrierBack(h, t, vs) ==
  LET watched == h[t].mark = "black" /\ Whites(h, vs) # {}
  IN /\ heap' = IF watched THEN [h EXCEPT ![t].mark = "gray"] ELSE h
     /\ grayagain' = IF watched THEN grayagain \cup {t} ELSE grayagain
     /\ UNCHANGED <<gray, weak>>

NewTable(a, mode) == NewObject([Blank EXCEPT !.kind = "table", !.mode = mode], Puts(a, Fresh(Unborn)))

NewThread(a) ==
  NewObject([Blank EXCEPT !.kind = "thread"], [Puts(a, Fresh(Unborn)) EXCEPT ![Fresh(Unborn)] = <<Nil>>])

NewUdata(a, env, mode) ==
  /\ env = a \/ IsA(env, "table")
  /\ NewObject([Blank EXCEPT !.kind = "userdata", !.mode = mode, !.val = IF IsA(env, "table") THEN At(env) ELSE Nil],
               Puts(a, Fresh(Unborn)))

Revived(i) == [heap EXCEPT ![i].mark = IF IsDead(heap[i]) THEN cw ELSE @]

(* luaS_newlstr: the string with these bytes, if there is one. *)
NewString(a, bytes) ==
  LET same == {i \in Of(heap, "string") : heap[i].mode = bytes} IN
  \/ \E i \in same : heap' = Revived(i) /\ UNCHANGED Lists /\ May(Puts(a, i))
  \/ same = {} /\ NewObject([Blank EXCEPT !.kind = "string", !.mode = bytes], Puts(a, Fresh(Unborn)))

(* OP_CLOSURE in thread t: a function with an upvalue, the local in slot b. *)
Function(uv) == [Blank EXCEPT !.kind = "function", !.val = uv]
NewClosure(a, t, b) ==
  LET found == {i \in OpenOf({t}) : heap[i].slot = b}
      uv == Fresh(Unborn)
      f == Fresh(Unborn \ {uv})
  IN \/ \E i \in found :
          /\ Unborn # {} /\ heap' = Linked(Revived(i), uv, Function(i)) /\ UNCHANGED Lists
          /\ May(Puts(a, uv))
     \/ /\ found = {} /\ Unborn # {} /\ Unborn \ {uv} # {}
        /\ heap' = Linked(Linked(heap, uv, [Blank EXCEPT !.kind = "upval", !.on = t, !.slot = b]), f, Function(uv))
        /\ UNCHANGED Lists /\ May(Puts(a, f))

Assign(a, v) == UNCHANGED <<heap, Lists>> /\ May(Puts(a, v))

(* A table has one entry here: it is set again, or was empty. *)
SetTable(t, k, v) ==
  LET i == At(t)
      new == heap[i].key # k
  IN /\ IsA(t, "table") /\ ~ (new /\ heap[i].val # Nil)
     /\ BarrierBack([heap EXCEPT ![i].key = k, ![i].val = v], i, (IF new THEN {k} ELSE {}) \cup {v})
     /\ May(stack)

(* The entry is looked up, or met by next. *)
GetTable(t, a) ==
  /\ IsA(t, "table")
  /\ UNCHANGED <<heap, Lists>>
  /\ \E v \in Entry(heap[At(t)]) \cap Ids : May(Puts(a, v))

SetUpval(f, v) ==
  LET uv == heap[At(f)].val IN
  /\ IsA(f, "function")
  /\ IF IsOpen(heap[uv]) THEN BarrierF(heap, uv, v) /\ May([stack EXCEPT ![heap[uv].on][heap[uv].slot] = v])
     ELSE BarrierF([heap EXCEPT ![uv].val = v], uv, v) /\ May(stack)

GetUpval(f, a) ==
  /\ IsA(f, "function") /\ UNCHANGED <<heap, Lists>>
  /\ May(Puts(a, Value(heap[heap[At(f)].val])))

(* luaF_close: an upvalue leaves the stack, or is freed if nothing refers to  *)
(* it.  A gray one that leaves needs a barrier, or is white if it was swept.  *)
CloseUpval(o) ==
  IF IsDead(o) THEN [o EXCEPT !.kind = "freed"]
  ELSE [o EXCEPT !.val = Value(o), !.on = Nil,
                 !.mark = IF @ # "gray" THEN @ ELSE IF gcstate = "propagate" THEN "black" ELSE cw]
Close(b) ==
  LET open == {i \in OpenOf({Main}) : heap[i].slot >= b}
      h == [i \in Ids |-> IF i \in open THEN CloseUpval(heap[i]) ELSE heap[i]]
      is == IF gcstate = "propagate" THEN Marked(heap, {Value(heap[i]) : i \in {j \in open : heap[j].mark = "gray"}}) ELSE {}
  IN /\ open # {}
     /\ heap' = Painted(h, is) /\ gray' = gray \cup ToTraverse(heap, is) /\ UNCHANGED <<grayagain, weak>>
     /\ May([stack EXCEPT ![Main] = [a \in 1..Slots |-> IF a >= b THEN Nil ELSE @[a]]])

SetEnv(u, t) ==
  /\ IsA(u, "userdata") /\ IsA(t, "table")
  /\ BarrierF([heap EXCEPT ![At(u)].val = At(t)], At(u), At(t)) /\ May(stack)

(* A coroutine is given a value, or gives the one that it holds. *)
XMove(t, a) ==
  /\ IsA(t, "thread") /\ UNCHANGED <<heap, Lists>>
  /\ \/ May([stack EXCEPT ![At(t)] = <<At(a)>>])
     \/ May(Puts(a, stack[At(t)][1]))

Values == ToSet(stack[Main]) \cup {Nil}

Mutator ==
  \E a, b \in 1..Slots :
    \/ /\ a = b
       /\ \/ \E mode \in program.kinds.table : NewTable(a, mode)
          \/ program.kinds.thread /\ NewThread(a)
          \/ \E bytes \in program.kinds.string : NewString(a, bytes)
          \/ Close(a)
    \/ \E mode \in program.kinds.udata : NewUdata(a, b, mode)
    \/ program.kinds.closure /\ NewClosure(a, Main, b)
    \/ program.kinds.closure /\ IsA(b, "thread") /\ NewClosure(a, At(b), 1)
    \/ Assign(a, IF a = b THEN Nil ELSE At(b))
    \/ \E k \in Values : SetTable(a, k, IF a = b THEN Nil ELSE At(b))
    \/ GetTable(a, b)
    \/ SetUpval(a, At(b))
    \/ GetUpval(a, b)
    \/ SetEnv(a, b)
    \/ XMove(a, b)

(* Between two collections. *)
Init ==
  /\ program \in Mutators
  /\ LET n == Len(program.objects) IN
     /\ heap = [i \in Ids |-> IF i = Main THEN [Blank EXCEPT !.kind = "thread"]
                            ELSE IF i <= n THEN program.objects[i] ELSE Blank]
     /\ stack = [i \in Ids |-> IF i = Main THEN program.locals ELSE IF i <= n THEN program.stacks[i] ELSE <<>>]
  /\ cw = "w0" /\ gcstate = "pause" /\ atomic = "no" /\ gray = {} /\ grayagain = {} /\ weak = {}
  /\ unswept = {} /\ tmudata = {} /\ full = "no" /\ ops = 0 /\ garbage = {}
  /\ gced = [i \in Ids |-> 0]

Next ==
  \/ MarkRoot \/ PropagateMark \/ RemarkUpvals \/ RemarkWeak \/ RemarkAgain \/ MarkTmu \/ FlipWhite
  \/ SweepString \/ Sweep \/ Gctm \/ EndCollection \/ FullGc
  \/ Mutator
Spec == Init /\ [][Next]_lhVars

--------------------------------------------------------------------------
(* The types of the heap and of the collector's lists. *)
TypeOK ==
  /\ \A i \in Ids : heap[i].mark \in {"w0", "w1", "gray", "black"}
  /\ gcstate \in {"pause", "propagate", "sweepstring", "sweep", "finalize"}
  /\ atomic \in {"no", "upvals", "weak", "again", "tmudata"}
  /\ gray \cup grayagain \cup weak \cup unswept \cup tmudata \cup garbage \subseteq Ids
  /\ cw \in {"w0", "w1"} /\ full \in {"no", "sweep", "collect"} /\ ops \in 0..program.ops

(* What the collector promises the program (lgc.c), wherever its steps fall  *)
(* between those of the program: nothing that the program can get at, the    *)
(* entries of weak tables included, has been freed; there is one string with *)
(* the same bytes; __gc is called once for a userdata; and nothing that was  *)
(* out of reach when a collection began is there when it ends.               *)
HeapIsSafe ==
  LET reach == Reachable(heap, stack, tmudata) IN
  /\ \A i \in reach \cup ((UNION {Entry(heap[i]) : i \in reach}) \cap Ids) : Alive(heap[i])
  /\ \A i, j \in Of(heap, "string") : heap[i].mode = heap[j].mode => i = j
  /\ \A i \in Ids : gced[i] <= 1
  /\ gcstate = "pause" => \A i \in garbage : heap[i].kind \in {"freed", "unborn"}

(* What the write barriers keep up (lgc.c:662-683): while the heap is being  *)
(* marked, nothing black refers to what is white; and when the sweep is done *)
(* everything is white, as luaC_barrierf takes for granted.                  *)
MarksAreRight ==
  /\ gcstate = "propagate" =>
       \A i \in Ids \ tmudata : Alive(heap[i]) /\ heap[i].mark = "black" =>
         \A r \in RefsOf(heap, stack, i) \cap Ids : ~ IsWhite(heap[r])
  /\ gcstate \in {"pause", "finalize"} =>
       \A i \in Ids \ tmudata : Alive(heap[i]) => heap[i].mark = cw
==============================================================================
