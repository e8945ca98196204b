-------------------------- MODULE LuaThreadProofs --------------------------
(***************************************************************************)
(* Proofs about the coroutines and protected calls of Lua, for any number  *)
(* of coroutines, any depth of calls and any limit of nested calls from C. *)
(***************************************************************************)
EXTENDS LuaThread, FiniteSetTheorems, SequenceTheorems, TLAPS

\* What the constants are: a stack has room for the call of the main chunk.
ThreadInstance ==
  /\ Main \notin Coroutines
  /\ MaxFrames \in Nat /\ MaxFrames >= 2
  /\ LUAI_MAXCCALLS \in Nat /\ LUAI_MAXCCALLS >= 2

CFunctions == {"pcall", "sort"}
Inner == {"lua"} \cup CFunctions
Resumes == {"resume", "wrap"}
Frames == [fn : Inner \cup Resumes \cup {"yield"}, top : {0, 1}, old : Nat]
Fates == {"none", "suspended", "running", "normal", "dead"}

ThreadTypes ==
  /\ frames \in [Threads -> Seq(Frames)]
  /\ bottom \in [Threads -> {0, 1}]
  /\ costatus \in [Threads -> {"ok", "yield", "err"}]
  /\ nCcalls \in [Threads -> Nat]
  /\ chain \in Seq(Threads)
  /\ throwing \in BOOLEAN
  /\ truth \in [Threads -> Fates]

\* The calls from C among the first n of s.
Under(s, n) == {i \in 1 .. n : s[i].fn \in CFunctions}
CCalls(s) == Cardinality(Under(s, Len(s)))

\* How calls are nested: a C function is called from Lua, only the last call
\* may be one that waits for another thread, and each call from C has saved
\* how many there are below it.
Nested(s, first) ==
  /\ s # <<>> => s[1].fn = first
  /\ \A i \in 2 .. Len(s) : s[i].fn # "lua" => s[i - 1].fn = "lua"
  /\ \A i \in 1 .. Len(s) - 1 : s[i].fn \in Inner
  /\ \A i \in 1 .. Len(s) : s[i].fn \in CFunctions => s[i].old = Cardinality(Under(s, i - 1))

Lowest(t) == IF t = Main THEN "pcall" ELSE "lua"

\* What a thread looks like, by its fate.
Fresh(t) == costatus[t] = "ok" /\ frames[t] = <<>> /\ bottom[t] = 1
Yielded(t) == costatus[t] = "yield" /\ frames[t] # <<>> /\ Last(frames[t]).fn = "yield"
Finished(t) == costatus[t] = "ok" /\ frames[t] = <<>> /\ bottom[t] = 0

ThreadOk(t) ==
  /\ Nested(frames[t], Lowest(t)) /\ Len(frames[t]) <= MaxFrames
  /\ nCcalls[t] <= LUAI_MAXCCALLS
  /\ truth[t] # "dead" => nCcalls[t] = CCalls(frames[t])
  /\ truth[t] = "none" => Finished(t)
  /\ truth[t] = "suspended" => nCcalls[t] = 0 /\ (Fresh(t) \/ Yielded(t))
  /\ truth[t] = "running" /\ chain # <<>> =>
       /\ costatus[t] = "ok" /\ frames[t] # <<>>
       /\ IF throwing THEN Last(frames[t]).fn \in Inner
          ELSE Last(frames[t]).fn = "lua" /\ nCcalls[t] < LUAI_MAXCCALLS
  /\ truth[t] = "normal" =>
       /\ costatus[t] = "ok" /\ frames[t] # <<>>
       /\ Last(frames[t]).fn \in Resumes /\ nCcalls[t] < LUAI_MAXCCALLS
  /\ truth[t] = "dead" =>
       /\ costatus[t] = "err" \/ Finished(t)
       /\ frames[t] # <<>> => Last(frames[t]).fn \in Inner

\* Who runs, and who waits for whom.
ChainOk ==
  chain # <<>> =>
    /\ chain[1] = Main
    /\ \A i, j \in 1 .. Len(chain) : chain[i] = chain[j] => i = j
    /\ \A t \in Threads : truth[t] = "running" <=> t = L
    /\ \A t \in Threads : truth[t] = "normal" <=> \E i \in 1 .. Len(chain) - 1 : chain[i] = t

ThreadsInv ==
  /\ ThreadTypes /\ ChainOk
  /\ chain = <<>> => ~ throwing
  /\ \A t \in Threads : ThreadOk(t)

--------------------------------------------------------------------------
(* The calls of a thread. *)
LEMMA UnderCounts ==
  ASSUME NEW s, NEW n \in Nat
  PROVE  /\ IsFiniteSet(Under(s, n)) /\ Cardinality(Under(s, n)) \in Nat
         /\ n > 0 => Cardinality(Under(s, n)) =
              Cardinality(Under(s, n - 1)) + (IF s[n].fn \in CFunctions THEN 1 ELSE 0)
         /\ Cardinality(Under(s, 0)) = 0
<1>1. ASSUME NEW m \in Nat PROVE IsFiniteSet(Under(s, m)) /\ Cardinality(Under(s, m)) \in Nat
  <2>1. IsFiniteSet(1 .. m)
    BY FS_Interval
  <2>2. Under(s, m) \subseteq 1 .. m
    BY DEF Under
  <2> QED
    BY <2>1, <2>2, FS_Subset, FS_CardinalityType
<1>2. ASSUME n > 0
      PROVE  Cardinality(Under(s, n)) =
               Cardinality(Under(s, n - 1)) + (IF s[n].fn \in CFunctions THEN 1 ELSE 0)
  <2>1. CASE s[n].fn \in CFunctions
    <3>1. Under(s, n) = Under(s, n - 1) \cup {n} /\ n \notin Under(s, n - 1)
      BY <1>2, <2>1 DEF Under
    <3>2. IsFiniteSet(Under(s, n - 1))
      BY <1>1, <1>2
    <3> QED
      BY <2>1, <3>1, <3>2, FS_AddElement
  <2>2. CASE s[n].fn \notin CFunctions
    <3>1. Under(s, n) = Under(s, n - 1)
      BY <1>2, <2>2 DEF Under
    <3>2. Cardinality(Under(s, n - 1)) \in Nat
      BY <1>1, <1>2
    <3> QED
      BY <2>2, <3>1, <3>2
  <2> QED
    BY <2>1, <2>2
<1>3. Under(s, 0) = {}
  BY DEF Under
<1> QED
  BY <1>1, <1>2, <1>3, FS_EmptySet

\* The count depends on the names of the functions only.
LEMMA UnderSame ==
  ASSUME NEW s, NEW u, NEW n \in Nat, \A i \in 1 .. n : s[i].fn = u[i].fn
  PROVE  \A k \in 0 .. n : Under(u, k) = Under(s, k)
BY DEF Under

LEMMA LastFrame ==
  ASSUME NEW s \in Seq(Frames), s # <<>>
  PROVE  Len(s) \in Nat /\ Len(s) >= 1 /\ Last(s) = s[Len(s)] /\ Last(s) \in Frames
BY DEF Last

\* Calls that return, or that an error unwinds.
LEMMA PrefixDoes ==
  ASSUME NEW s \in Seq(Frames), NEW first, Nested(s, first), NEW n \in 0 .. Len(s)
  PROVE  LET u == SubSeq(s, 1, n) IN
         /\ u \in Seq(Frames) /\ Len(u) = n /\ (\A i \in 1 .. n : u[i] = s[i])
         /\ Nested(u, first) /\ CCalls(u) = Cardinality(Under(s, n))
<1> DEFINE u == SubSeq(s, 1, n)
<1>1. n \in Nat /\ u \in Seq(Frames) /\ Len(u) = n /\ \A i \in 1 .. n : u[i] = s[i]
  BY SubSeqProperties
<1> HIDE DEF u
<1>2. \A k \in 0 .. n : Under(u, k) = Under(s, k)
  BY <1>1, UnderSame
<1>3. Nested(u, first)
  <2>1. u # <<>> => u[1].fn = first
    BY <1>1 DEF Nested
  <2>2. \A i \in 2 .. Len(u) : u[i].fn # "lua" => u[i - 1].fn = "lua"
    BY <1>1 DEF Nested
  <2>3. \A i \in 1 .. Len(u) - 1 : u[i].fn \in Inner
    BY <1>1 DEF Nested
  <2>4. ASSUME NEW i \in 1 .. Len(u), u[i].fn \in CFunctions
        PROVE  u[i].old = Cardinality(Under(u, i - 1))
    <3>1. i - 1 \in 0 .. n /\ i \in 1 .. Len(s) /\ u[i] = s[i]
      BY <1>1
    <3> QED
      BY <1>2, <2>4, <3>1 DEF Nested
  <2> QED
    BY <2>1, <2>2, <2>3, <2>4 DEF Nested
<1>4. CCalls(u) = Cardinality(Under(s, n))
  BY <1>1, <1>2 DEF CCalls
<1> QED
  BY <1>1, <1>3, <1>4 DEF u

\* A call that waited for another thread is answered.
LEMMA PopDoes ==
  ASSUME NEW s \in Seq(Frames), NEW first \in Inner, Nested(s, first),
         s # <<>>, Last(s).fn \notin Inner
  PROVE  /\ Front(s) \in Seq(Frames) /\ Front(s) # <<>> /\ Len(Front(s)) = Len(s) - 1
         /\ Nested(Front(s), first) /\ CCalls(Front(s)) = CCalls(s)
         /\ Last(Front(s)).fn = "lua"
<1> DEFINE n == Len(s) - 1
           u == SubSeq(s, 1, n)
<1>1. Len(s) \in Nat /\ Len(s) >= 1 /\ Last(s) = s[Len(s)]
  BY LastFrame
<1>2. Len(s) # 1
  BY <1>1 DEF Nested
<1>3. s[n].fn = "lua"
  BY <1>1, <1>2 DEF Nested, Inner
<1>4. /\ u \in Seq(Frames) /\ Len(u) = n /\ \A i \in 1 .. n : u[i] = s[i]
      /\ Nested(u, first) /\ CCalls(u) = Cardinality(Under(s, n))
  <2> n \in 0 .. Len(s)
    BY <1>1
  <2> HIDE DEF n
  <2> QED
    BY PrefixDoes
<1>5. Cardinality(Under(s, n)) = CCalls(s)
  <2>1. s[Len(s)].fn \notin CFunctions
    BY <1>1 DEF Inner
  <2>2. Cardinality(Under(s, Len(s))) = Cardinality(Under(s, Len(s) - 1)) + 0
    BY <1>1, <2>1, UnderCounts
  <2>3. Cardinality(Under(s, Len(s) - 1)) \in Nat
    BY <1>1, UnderCounts
  <2> QED
    BY <2>2, <2>3 DEF CCalls
<1>6. Front(s) = u
  BY DEF Front
<1>7. u # <<>> /\ Last(u).fn = "lua"
  <2> HIDE DEF u
  <2> QED
    BY <1>1, <1>2, <1>3, <1>4 DEF Last
<1> HIDE DEF u
<1> QED
  BY <1>1, <1>4, <1>5, <1>6, <1>7

\* A call.
LEMMA PushDoes ==
  ASSUME NEW s \in Seq(Frames), NEW f \in Frames, NEW first, Nested(s, first),
         s # <<>>, Last(s).fn \in Inner, f.fn # "lua" => Last(s).fn = "lua",
         f.fn \in CFunctions => f.old = CCalls(s)
  PROVE  LET u == Append(s, f) IN
         /\ u \in Seq(Frames) /\ u # <<>> /\ Len(u) = Len(s) + 1 /\ Last(u) = f
         /\ Nested(u, first)
         /\ CCalls(u) = CCalls(s) + (IF f.fn \in CFunctions THEN 1 ELSE 0)
<1> DEFINE u == Append(s, f)
           n == Len(s)
<1>1. n \in Nat /\ n >= 1 /\ Last(s) = s[n]
  BY LastFrame
<1>2. u \in Seq(Frames) /\ Len(u) = n + 1 /\ u[n + 1] = f /\ \A i \in 1 .. n : u[i] = s[i]
  BY <1>1, AppendProperties
<1> HIDE DEF u
<1>3. u # <<>> /\ Last(u) = f
  BY <1>1, <1>2 DEF Last
<1>4. \A k \in 0 .. n : Under(u, k) = Under(s, k)
  BY <1>1, <1>2, UnderSame
<1>5. Nested(u, first)
  <2>1. u[1].fn = first
    BY <1>1, <1>2 DEF Nested
  <2>2. ASSUME NEW i \in 2 .. Len(u), u[i].fn # "lua" PROVE u[i - 1].fn = "lua"
    <3>1. CASE i = n + 1
      BY <1>1, <1>2, <2>2, <3>1
    <3>2. CASE i # n + 1
      <4>1. i \in 2 .. n /\ u[i] = s[i] /\ u[i - 1] = s[i - 1]
        BY <1>1, <1>2, <3>2
      <4> QED
        BY <2>2, <4>1 DEF Nested
    <3> QED
      BY <3>1, <3>2
  <2>3. ASSUME NEW i \in 1 .. Len(u) - 1 PROVE u[i].fn \in Inner
    <3>1. i \in 1 .. n /\ u[i] = s[i]
      BY <1>1, <1>2
    <3> QED
      BY <1>1, <3>1 DEF Nested
  <2>4. ASSUME NEW i \in 1 .. Len(u), u[i].fn \in CFunctions
        PROVE  u[i].old = Cardinality(Under(u, i - 1))
    <3>1. i - 1 \in 0 .. n
      BY <1>1, <1>2
    <3>2. CASE i = n + 1
      BY <1>2, <1>4, <2>4, <3>1, <3>2 DEF CCalls
    <3>3. CASE i # n + 1
      BY <1>1, <1>2, <1>4, <2>4, <3>1, <3>3 DEF Nested
    <3> QED
      BY <3>2, <3>3
  <2> QED
    BY <2>1, <2>2, <2>3, <2>4 DEF Nested
<1>6. CCalls(u) = CCalls(s) + (IF f.fn \in CFunctions THEN 1 ELSE 0)
  <2>1. Cardinality(Under(u, n + 1)) =
          Cardinality(Under(u, n + 1 - 1)) + (IF u[n + 1].fn \in CFunctions THEN 1 ELSE 0)
    BY <1>1, UnderCounts
  <2>2. n + 1 - 1 = n /\ n \in 0 .. n
    BY <1>1
  <2> QED
    BY <1>2, <1>4, <2>1, <2>2 DEF CCalls
<1> QED
  BY <1>2, <1>3, <1>5, <1>6 DEF u

\* lua_gettop of the topmost call changes.
LEMMA RenamedDoes ==
  ASSUME NEW s \in Seq(Frames), NEW first, Nested(s, first), s # <<>>
  PROVE  LET u == [s EXCEPT ![Len(s)].top = 0] IN
         /\ u \in Seq(Frames) /\ u # <<>> /\ Len(u) = Len(s)
         /\ Last(u).fn = Last(s).fn /\ Nested(u, first) /\ CCalls(u) = CCalls(s)
<1> DEFINE n == Len(s)
           u == [s EXCEPT ![n].top = 0]
<1>1. n \in Nat /\ n >= 1 /\ Last(s) = s[n]
  BY LastFrame
<1>2. \A i \in 1 .. n : s[i] \in Frames
  BY ElementOfSeq
<1>3. u = [i \in 1 .. n |-> IF i = n THEN [s[n] EXCEPT !.top = 0] ELSE s[i]]
  BY <1>1
<1>4. \A i \in 1 .. n : u[i] \in Frames /\ u[i].fn = s[i].fn /\ u[i].old = s[i].old
  BY <1>1, <1>2, <1>3 DEF Frames
<1>5. u \in Seq(Frames) /\ Len(u) = n
  <2> HIDE DEF u
  <2>1. u \in [1 .. n -> Frames]
    BY <1>3, <1>4
  <2> QED
    BY <1>1, <2>1
<1> HIDE DEF u
<1>6. u # <<>> /\ Last(u).fn = Last(s).fn
  BY <1>1, <1>4, <1>5 DEF Last
<1>7. \A k \in 0 .. n : Under(u, k) = Under(s, k)
  BY <1>1, <1>4, UnderSame
<1>8. Nested(u, first)
  <2>1. ASSUME NEW i \in 1 .. n PROVE i - 1 \in 0 .. n
    BY <1>1
  <2>2. ASSUME NEW i \in 1 .. n, u[i].fn \in CFunctions
        PROVE  u[i].old = Cardinality(Under(u, i - 1))
    BY <1>4, <1>7, <2>1, <2>2 DEF Nested
  <2>3. \A i \in 2 .. n : u[i].fn # "lua" => u[i - 1].fn = "lua"
    BY <1>1, <1>4 DEF Nested
  <2>4. \A i \in 1 .. n - 1 : u[i].fn \in Inner
    BY <1>1, <1>4 DEF Nested
  <2>5. u[1].fn = first
    BY <1>1, <1>4 DEF Nested
  <2> QED
    BY <1>5, <2>2, <2>3, <2>4, <2>5 DEF Nested
<1>9. CCalls(u) = CCalls(s)
  BY <1>1, <1>5, <1>7 DEF CCalls
<1> QED
  BY <1>5, <1>6, <1>8, <1>9 DEF u
--------------------------------------------------------------------------
(* The chain of the threads that run. *)
LEMMA Runner ==
  ASSUME ThreadTypes, ChainOk, chain # <<>>
  PROVE  /\ Len(chain) \in Nat /\ Len(chain) >= 1 /\ L = chain[Len(chain)] /\ L \in Threads
         /\ truth[L] = "running" /\ (L # Main => Len(chain) >= 2)
<1>1. chain \in Seq(Threads)
  BY DEF ThreadTypes
<1>2. Len(chain) \in Nat /\ Len(chain) >= 1 /\ chain[Len(chain)] \in Threads
  BY <1>1
<1>3. L = chain[Len(chain)]
  BY DEF L, Last
<1>4. truth[L] = "running"
  BY <1>2, <1>3 DEF ChainOk
<1>5. L # Main => Len(chain) >= 2
  BY <1>2, <1>3 DEF ChainOk
<1> QED
  BY <1>2, <1>3, <1>4, <1>5

\* A thread resumes another one.
LEMMA ChainPush ==
  ASSUME ThreadTypes, ChainOk, chain # <<>>, NEW co \in Threads,
         truth[co] \notin {"running", "normal"},
         chain' = Append(chain, co),
         truth' = [truth EXCEPT ![L] = "normal", ![co] = "running"]
  PROVE  ChainOk' /\ chain' \in Seq(Threads) /\ chain' # <<>> /\ L' = co
<1> DEFINE n == Len(chain)
<1>1. n \in Nat /\ n >= 1 /\ L = chain[n] /\ L \in Threads /\ truth[L] = "running"
  BY Runner
<1>2. chain \in Seq(Threads) /\ \A i \in 1 .. n : chain[i] \in Threads
  BY ElementOfSeq DEF ThreadTypes
<1>3. /\ chain' \in Seq(Threads) /\ Len(chain') = n + 1 /\ chain'[n + 1] = co
      /\ \A i \in 1 .. n : chain'[i] = chain[i]
  BY <1>2, AppendProperties
<1>4. chain' # <<>> /\ L' = co
  BY <1>1, <1>3 DEF L, Last
<1>5. \A i \in 1 .. n : chain[i] # co
  <2> SUFFICES ASSUME NEW i \in 1 .. n, chain[i] = co PROVE FALSE
    OBVIOUS
  <2>1. CASE i = n
    BY <1>1, <2>1
  <2>2. CASE i # n
    <3>1. i \in 1 .. n - 1
      BY <1>1, <2>2
    <3> QED
      BY <3>1 DEF ChainOk
  <2> QED
    BY <2>1, <2>2
<1>6. \A i, j \in 1 .. Len(chain') : chain'[i] = chain'[j] => i = j
  <2>1. \A i \in 1 .. n + 1 : i = n + 1 \/ i \in 1 .. n
    BY <1>1
  <2> QED
    BY <1>3, <1>5, <2>1 DEF ChainOk
<1>7. L # co
  BY <1>1
<1>8. /\ truth'[co] = "running" /\ truth'[L] = "normal"
      /\ \A t \in Threads : t # co /\ t # L => truth'[t] = truth[t]
  BY <1>1, <1>7 DEF ThreadTypes
<1>9. \A t \in Threads : truth'[t] = "running" <=> t = L'
  <2> SUFFICES ASSUME NEW t \in Threads PROVE truth'[t] = "running" <=> t = co
    BY <1>4
  <2>1. truth[t] = "running" <=> t = L
    BY DEF ChainOk
  <2> QED
    BY Zenon, <1>7, <1>8, <2>1
<1>10. \A t \in Threads : truth'[t] = "normal" <=> \E i \in 1 .. Len(chain') - 1 : chain'[i] = t
  <2>0. Len(chain') - 1 = n
    BY <1>1, <1>3
  <2> HIDE DEF n
  <2> SUFFICES ASSUME NEW t \in Threads
               PROVE  truth'[t] = "normal" <=> \E i \in 1 .. n : chain[i] = t
    <3>1. \A t \in Threads : (\E i \in 1 .. n : chain'[i] = t) <=> (\E i \in 1 .. n : chain[i] = t)
      BY Zenon, <1>3
    <3> QED
      BY Zenon, <2>0, <3>1
  <2> USE DEF n
  <2>1. CASE t = co
    BY Zenon, <1>5, <1>8, <2>1
  <2>2. CASE t = L
    <3>1. n \in 1 .. n
      BY <1>1
    <3> QED
      BY Zenon, <1>1, <1>8, <2>2, <3>1
  <2>3. CASE t # co /\ t # L
    <3>1. truth[t] = "normal" <=> \E i \in 1 .. n - 1 : chain[i] = t
      BY DEF ChainOk
    <3>2. \A i \in 1 .. n : i = n \/ i \in 1 .. n - 1
      BY <1>1
    <3>3. 1 .. n - 1 \subseteq 1 .. n
      BY <1>1
    <3> QED
      BY Zenon, <1>1, <1>8, <2>3, <3>1, <3>2, <3>3
  <2> QED
    BY <2>1, <2>2, <2>3
<1>11. chain'[1] = Main
  BY <1>1, <1>3 DEF ChainOk
<1> HIDE DEF n
<1> QED
  BY <1>3, <1>4, <1>6, <1>9, <1>10, <1>11 DEF ChainOk

\* A coroutine yields or ends; who has resumed it goes on.
Resumer == chain[Len(chain) - 1]

\* A coroutine that runs has been resumed.
LEMMA ResumerIs ==
  ASSUME ThreadTypes, ChainOk, chain # <<>>, L # Main
  PROVE  Resumer \in Threads /\ Resumer # L /\ truth[Resumer] = "normal" /\ Len(chain) # 1
<1> DEFINE n == Len(chain)
<1>1. n \in Nat /\ n >= 2 /\ L = chain[n]
  BY Runner
<1>2. Resumer = chain[n - 1] /\ n - 1 \in 1 .. n - 1 /\ n - 1 \in 1 .. n /\ n \in 1 .. n
  BY <1>1 DEF Resumer
<1>3. Resumer \in Threads
  BY <1>2, ElementOfSeq DEF ThreadTypes
<1> QED
  BY <1>1, <1>2, <1>3 DEF ChainOk

LEMMA ChainPop ==
  ASSUME ThreadTypes, ChainOk, chain # <<>>, L # Main, NEW fate \in {"suspended", "dead"},
         chain' = Front(chain),
         truth' = [truth EXCEPT ![L] = fate, ![Resumer] = "running"]
  PROVE  /\ ChainOk' /\ chain' \in Seq(Threads) /\ chain' # <<>> /\ L' = Resumer
         /\ Len(chain) # 1 /\ Resumer \in Threads /\ Resumer # L /\ truth[Resumer] = "normal"
<1> DEFINE n == Len(chain)
<1>1. n \in Nat /\ n >= 2 /\ L = chain[n] /\ L \in Threads /\ truth[L] = "running"
  BY Runner
<1>2. chain \in Seq(Threads) /\ \A i \in 1 .. n : chain[i] \in Threads
  BY ElementOfSeq DEF ThreadTypes
<1>3. /\ chain' \in Seq(Threads) /\ Len(chain') = n - 1
      /\ \A i \in 1 .. n - 1 : chain'[i] = chain[i]
  BY <1>1, <1>2, SubSeqProperties DEF Front
<1>4. chain' # <<>> /\ L' = chain[n - 1]
  BY <1>1, <1>3 DEF L, Last
<1>5. Resumer \in Threads /\ Resumer = chain[n - 1] /\ n - 1 \in 1 .. n - 1 /\ n - 1 \in 1 .. n /\ n \in 1 .. n
  BY <1>1, <1>2 DEF Resumer
<1>6. Resumer # L /\ truth[Resumer] = "normal"
  BY <1>1, <1>5 DEF ChainOk
<1>7. /\ truth'[Resumer] = "running" /\ truth'[L] = fate
      /\ \A t \in Threads : t # Resumer /\ t # L => truth'[t] = truth[t]
  BY <1>1, <1>5, <1>6 DEF ThreadTypes
<1>8. \A t \in Threads : truth'[t] = "running" <=> t = L'
  <2> SUFFICES ASSUME NEW t \in Threads PROVE truth'[t] = "running" <=> t = Resumer
    BY <1>4, <1>5
  <2>1. truth[t] = "running" <=> t = L
    BY DEF ChainOk
  <2>2. fate # "running"
    OBVIOUS
  <2> QED
    BY Zenon, <1>6, <1>7, <2>1, <2>2
<1>9. \A i, j \in 1 .. Len(chain') : chain'[i] = chain'[j] => i = j
  <2>1. \A i \in 1 .. n - 1 : i \in 1 .. n
    BY <1>1
  <2> QED
    BY <1>3, <2>1 DEF ChainOk
<1>10. \A t \in Threads : truth'[t] = "normal" <=> \E i \in 1 .. Len(chain') - 1 : chain'[i] = t
  <2> SUFFICES ASSUME NEW t \in Threads
               PROVE  truth'[t] = "normal" <=> \E i \in 1 .. n - 2 : chain[i] = t
    <3>1. Len(chain') - 1 = n - 2 /\ \A i \in 1 .. n - 2 : i \in 1 .. n - 1
      BY <1>1, <1>3
    <3> QED
      BY Zenon, <1>3, <3>1
  <2>1. \A i \in 1 .. n - 2 : i \in 1 .. n - 1 /\ i \in 1 .. n /\ i # n /\ i # n - 1
    BY <1>1
  <2>2. \A i \in 1 .. n - 1 : i \in 1 .. n - 2 \/ i = n - 1
    BY <1>1
  <2>3. truth[t] = "normal" <=> \E i \in 1 .. n - 1 : chain[i] = t
    BY DEF ChainOk
  <2>4. CASE t = Resumer
    <3>1. \A i \in 1 .. n - 2 : chain[i] # t
      BY <1>5, <2>1, <2>4 DEF ChainOk
    <3> QED
      BY Zenon, <1>7, <2>4, <3>1
  <2>5. CASE t = L
    <3>1. \A i \in 1 .. n - 2 : chain[i] # t
      BY <1>1, <1>5, <2>1, <2>5 DEF ChainOk
    <3>2. fate # "normal"
      OBVIOUS
    <3> QED
      BY Zenon, <1>7, <2>5, <3>1, <3>2
  <2>6. CASE t # Resumer /\ t # L
    BY Zenon, <1>5, <1>7, <2>1, <2>2, <2>3, <2>6
  <2> QED
    BY <2>4, <2>5, <2>6
<1>11. chain'[1] = Main
  BY <1>1, <1>3 DEF ChainOk
<1> HIDE DEF n
<1>12. ChainOk'
  BY <1>4, <1>8, <1>9, <1>10, <1>11 DEF ChainOk
<1> QED
  BY <1>1, <1>3, <1>4, <1>5, <1>6, <1>12 DEF n

\* What a step leaves alone stays as it should be.
LEMMA Untouched ==
  ASSUME NEW t \in Threads, ThreadOk(t),
         frames'[t] = frames[t], bottom'[t] = bottom[t], costatus'[t] = costatus[t],
         nCcalls'[t] = nCcalls[t], truth'[t] = truth[t],
         truth[t] = "running" => chain # <<>> /\ throwing' = throwing
  PROVE  ThreadOk(t)'
BY DEF ThreadOk, Fresh, Yielded, Finished

\* The innermost pcall of a thread.
LEMMA Greatest ==
  ASSUME NEW n \in Nat, NEW I \in SUBSET (1 .. n), I # {}
  PROVE  Max(I) \in I /\ \A i \in I : i <= Max(I)
<1> DEFINE R == {p \in Nat \X Nat : p[1] < p[2]}
           T == {n - i : i \in I}
<1>1. IsWellFoundedOn(R, Nat)
  BY NatLessThanWellFounded DEF OpToRel
<1>2. T \subseteq Nat /\ T # {}
  <2>1. \A i \in I : n - i \in Nat
    OBVIOUS
  <2>2. PICK i \in I : TRUE
    OBVIOUS
  <2> QED
    BY Zenon, <2>1, <2>2
<1>3. PICK m \in T : \A k \in T : ~(<<k, m>> \in R)
  <2> HIDE DEF R, T
  <2> QED
    BY <1>1, <1>2, WFMin
<1>4. PICK j \in I : m = n - j
  OBVIOUS
<1>5. \A i \in I : i <= j
  <2> SUFFICES ASSUME NEW i \in I PROVE i <= j
    OBVIOUS
  <2>1. n - i \in T /\ n - i \in Nat /\ m \in Nat
    BY <1>2
  <2>2. ~(n - i < m)
    BY <1>3, <2>1
  <2> QED
    BY <1>4, <2>1, <2>2
<1>6. j \in I /\ \A i \in I : j >= i
  BY <1>5
<1>7. Max(I) \in I /\ \A i \in I : Max(I) >= i
  <2> HIDE DEF T, R
  <2> QED
    BY <1>6 DEF Max
<1> QED
  BY <1>7

LEMMA Handler ==
  ASSUME NEW s \in Seq(Frames)
  PROVE  LET p == SelectLastInSeq(s, LAMBDA f : f.fn = "pcall") IN
         /\ p \in 0 .. Len(s)
         /\ p > 0 => s[p].fn = "pcall"
         /\ p = 0 => \A i \in 1 .. Len(s) : s[i].fn # "pcall"
<1> DEFINE I == {i \in 1 .. Len(s) : s[i].fn = "pcall"}
           p == SelectLastInSeq(s, LAMBDA f : f.fn = "pcall")
<1>1. p = IF I # {} THEN Max(I) ELSE 0
  BY DEF SelectLastInSeq
<1>2. Len(s) \in Nat /\ I \in SUBSET (1 .. Len(s))
  OBVIOUS
<1>3. I # {} => Max(I) \in I
  <2> HIDE DEF I
  <2> QED
    BY <1>2, Greatest
<1> HIDE DEF p
<1>4. /\ p \in 0 .. Len(s)
      /\ p > 0 => s[p].fn = "pcall"
      /\ p = 0 => \A i \in 1 .. Len(s) : s[i].fn # "pcall"
  BY <1>1, <1>2, <1>3
<1> QED
  BY <1>4 DEF p
--------------------------------------------------------------------------
(* How the running thread, the one that has resumed it, and the others are. *)
LEMMA RunnerIs ==
  ASSUME ThreadsInv, chain # <<>>
  PROVE  /\ L \in Threads /\ frames[L] \in Seq(Frames) /\ frames[L] # <<>>
         /\ Len(frames[L]) \in Nat /\ Len(frames[L]) >= 1 /\ Len(frames[L]) <= MaxFrames
         /\ Last(frames[L]) = frames[L][Len(frames[L])]
         /\ Nested(frames[L], Lowest(L))
         /\ nCcalls[L] \in Nat /\ nCcalls[L] = CCalls(frames[L]) /\ nCcalls[L] <= LUAI_MAXCCALLS
         /\ truth[L] = "running" /\ costatus[L] = "ok"
         /\ ~ throwing => Last(frames[L]).fn = "lua" /\ nCcalls[L] < LUAI_MAXCCALLS
         /\ throwing => Last(frames[L]).fn \in Inner
<1>1. L \in Threads /\ truth[L] = "running"
  BY Runner DEF ThreadsInv
<1>2. ThreadOk(L)
  BY <1>1 DEF ThreadsInv
<1>3. frames[L] \in Seq(Frames) /\ nCcalls[L] \in Nat
  BY <1>1 DEF ThreadsInv, ThreadTypes
<1>4. frames[L] # <<>>
  BY <1>1, <1>2 DEF ThreadOk
<1> QED
  BY <1>1, <1>2, <1>3, <1>4, LastFrame DEF ThreadOk

LEMMA OthersKeep ==
  ASSUME ThreadsInv, chain # <<>>, NEW S \in SUBSET Threads, L \in S,
         \A t \in Threads \ S :
           /\ frames'[t] = frames[t] /\ bottom'[t] = bottom[t] /\ costatus'[t] = costatus[t]
           /\ nCcalls'[t] = nCcalls[t] /\ truth'[t] = truth[t]
  PROVE  \A t \in Threads \ S : ThreadOk(t)'
<1> SUFFICES ASSUME NEW t \in Threads \ S PROVE ThreadOk(t)'
  OBVIOUS
<1>1. truth[t] # "running"
  BY DEF ThreadsInv, ChainOk
<1>2. ThreadOk(t)
  BY DEF ThreadsInv
<1> QED
  BY <1>1, <1>2, Untouched

\* The running thread calls, returns or fails, and the others wait.
LEMMA OneMoves ==
  ASSUME ThreadsInv, chain # <<>>, NEW f \in Seq(Frames), NEW n \in Nat,
         frames' = [frames EXCEPT ![L] = f], nCcalls' = [nCcalls EXCEPT ![L] = n],
         bottom' = bottom, costatus' = costatus, truth' = truth, throwing' \in BOOLEAN,
         chain' = chain \/ (chain' = <<>> /\ ~ throwing'),
         Nested(f, Lowest(L)), Len(f) <= MaxFrames, n <= LUAI_MAXCCALLS, n = CCalls(f),
         chain' # <<>> =>
           /\ f # <<>>
           /\ IF throwing' THEN Last(f).fn \in Inner
              ELSE Last(f).fn = "lua" /\ n < LUAI_MAXCCALLS
  PROVE  ThreadsInv'
<1>1. ThreadTypes /\ L \in Threads /\ truth[L] = "running" /\ costatus[L] = "ok"
  BY RunnerIs DEF ThreadsInv
<1>2. ThreadTypes'
  <2>1. chain' \in Seq(Threads)
    BY <1>1, EmptySeq DEF ThreadTypes
  <2> QED
    BY <1>1, <2>1 DEF ThreadTypes
<1>3. ChainOk'
  <2>1. CASE chain' = chain
    BY <2>1 DEF ThreadsInv, ChainOk, L
  <2>2. CASE chain' = <<>>
    BY <2>2 DEF ChainOk
  <2> QED
    BY <2>1, <2>2
<1>4. frames'[L] = f /\ nCcalls'[L] = n
  BY <1>1 DEF ThreadTypes
<1>5. ASSUME NEW t \in Threads, t = L PROVE ThreadOk(t)'
  <2>1. /\ frames'[t] = f /\ nCcalls'[t] = n
        /\ truth'[t] = "running" /\ costatus'[t] = "ok" /\ Lowest(t) = Lowest(L)
    BY <1>1, <1>4, <1>5
  <2> QED
    BY <2>1 DEF ThreadOk
<1>6. \A t \in Threads \ {L} : ThreadOk(t)'
  <2>1. \A t \in Threads \ {L} :
          /\ frames'[t] = frames[t] /\ bottom'[t] = bottom[t] /\ costatus'[t] = costatus[t]
          /\ nCcalls'[t] = nCcalls[t] /\ truth'[t] = truth[t]
    BY <1>1 DEF ThreadTypes
  <2> QED
    BY <1>1, <2>1, OthersKeep
<1>7. chain' = <<>> => ~ throwing'
  OBVIOUS
<1>8. \A t \in Threads : ThreadOk(t)'
  BY <1>5, <1>6
<1> QED
  BY <1>2, <1>3, <1>7, <1>8 DEF ThreadsInv

\* A coroutine gives up its turn: what had resumed it goes on.
LEMMA Answer ==
  ASSUME ThreadInstance, ThreadsInv, chain # <<>>, L # Main,
         NEW f \in Seq(Frames), NEW fate \in {"suspended", "dead"},
         frames' = [frames EXCEPT ![L] = f, ![Resumer] = Front(frames[Resumer])],
         bottom' \in [Threads -> {0, 1}], \A t \in Threads \ {L} : bottom'[t] = bottom[t],
         costatus' \in [Threads -> {"ok", "yield", "err"}],
         \A t \in Threads \ {L} : costatus'[t] = costatus[t],
         nCcalls' = nCcalls, throwing' \in BOOLEAN,
         chain' = Front(chain),
         truth' = [truth EXCEPT ![L] = fate, ![Resumer] = "running"],
         Nested(f, Lowest(L)), Len(f) <= MaxFrames,
         fate = "suspended" =>
           /\ nCcalls[L] = 0 /\ CCalls(f) = 0
           /\ costatus'[L] = "yield" /\ f # <<>> /\ Last(f).fn = "yield",
         fate = "dead" =>
           /\ costatus'[L] = "err" \/ (costatus'[L] = "ok" /\ f = <<>> /\ bottom'[L] = 0)
           /\ f # <<>> => Last(f).fn \in Inner
  PROVE  ThreadsInv'
<1>1. ThreadTypes /\ L \in Threads /\ nCcalls[L] <= LUAI_MAXCCALLS
  BY RunnerIs DEF ThreadsInv
<1>2. /\ ChainOk' /\ chain' \in Seq(Threads) /\ chain' # <<>>
      /\ Resumer \in Threads /\ Resumer # L /\ truth[Resumer] = "normal"
  BY <1>1, ChainPop DEF ThreadsInv
<1>3. ThreadOk(Resumer)
  BY <1>2 DEF ThreadsInv
<1> DEFINE g == frames[Resumer]
           h == Front(g)
<1>4. /\ g \in Seq(Frames) /\ g # <<>> /\ Last(g).fn \in Resumes /\ Nested(g, Lowest(Resumer))
      /\ costatus[Resumer] = "ok" /\ nCcalls[Resumer] < LUAI_MAXCCALLS
      /\ nCcalls[Resumer] \in Nat /\ nCcalls[Resumer] = CCalls(g) /\ Len(g) <= MaxFrames
  BY <1>1, <1>2, <1>3 DEF ThreadOk, ThreadTypes
<1>5. /\ h \in Seq(Frames) /\ h # <<>> /\ Len(h) = Len(g) - 1
      /\ Nested(h, Lowest(Resumer)) /\ CCalls(h) = CCalls(g) /\ Last(h).fn = "lua"
  <2>1. Last(g).fn \notin Inner /\ Lowest(Resumer) \in Inner
    BY <1>4 DEF Inner, CFunctions, Resumes, Lowest
  <2> HIDE DEF g
  <2> QED
    BY <1>4, <2>1, PopDoes
<1>6. Len(h) <= MaxFrames
  <2> HIDE DEF h, g
  <2> QED
    BY <1>4, <1>5, LastFrame DEF ThreadInstance
<1>7. frames'[L] = f /\ frames'[Resumer] = h
  BY <1>1, <1>2 DEF ThreadTypes
<1>8. truth'[L] = fate /\ truth'[Resumer] = "running"
  BY <1>1, <1>2 DEF ThreadTypes
<1>9. \A t \in Threads \ {L, Resumer} : frames'[t] = frames[t] /\ truth'[t] = truth[t]
  BY <1>1, <1>2 DEF ThreadTypes
<1>10. ThreadTypes'
  <2>1. frames' \in [Threads -> Seq(Frames)]
    BY <1>1, <1>2, <1>5 DEF ThreadTypes
  <2>2. truth' \in [Threads -> Fates]
    BY <1>1, <1>2 DEF ThreadTypes, Fates
  <2> QED
    BY <1>1, <1>2, <2>1, <2>2 DEF ThreadTypes
<1>11. ASSUME NEW t \in Threads, t = L PROVE ThreadOk(t)'
  <2>1. /\ frames'[t] = f /\ nCcalls'[t] = nCcalls[L] /\ truth'[t] = fate
        /\ Lowest(t) = Lowest(L) /\ costatus'[t] = costatus'[L] /\ bottom'[t] = bottom'[L]
    BY <1>1, <1>7, <1>8, <1>11
  <2> QED
    BY <1>1, <2>1 DEF ThreadOk, Yielded, Finished
<1>12. ASSUME NEW t \in Threads, t = Resumer PROVE ThreadOk(t)'
  <2> HIDE DEF h
  <2>1. Last(h).fn \in Inner
    BY <1>5 DEF Inner
  <2>2. /\ frames'[t] = h /\ nCcalls'[t] = CCalls(h) /\ truth'[t] = "running"
        /\ Lowest(t) = Lowest(Resumer) /\ costatus'[t] = "ok" /\ nCcalls'[t] < LUAI_MAXCCALLS
    BY <1>2, <1>4, <1>5, <1>7, <1>8, <1>12
  <2> HIDE DEF g
  <2>3. nCcalls'[t] <= LUAI_MAXCCALLS
    BY <1>1, <1>2, <1>4, <2>2 DEF ThreadInstance, ThreadTypes
  <2> QED
    BY <1>2, <1>5, <1>6, <2>1, <2>2, <2>3 DEF ThreadOk
<1>13. \A t \in Threads \ {L, Resumer} : ThreadOk(t)'
  <2>1. \A t \in Threads \ {L, Resumer} :
          /\ frames'[t] = frames[t] /\ bottom'[t] = bottom[t] /\ costatus'[t] = costatus[t]
          /\ nCcalls'[t] = nCcalls[t] /\ truth'[t] = truth[t]
    BY <1>9
  <2> QED
    BY <1>1, <1>2, <2>1, OthersKeep
<1>14. \A t \in Threads : ThreadOk(t)'
  BY <1>11, <1>12, <1>13
<1> QED
  BY <1>2, <1>10, <1>14 DEF ThreadsInv
--------------------------------------------------------------------------
(* Every operation keeps the threads as they should be. *)
LEMMA FramesAre ==
  /\ LuaCall \in Frames
  /\ \A fn \in CFunctions, n \in Nat : Frame(fn, 1, n) \in Frames
  /\ \A fn \in Resumes, n \in {0, 1} : Frame(fn, n, 0) \in Frames
  /\ Frame("yield", 0, 0) \in Frames
BY DEF LuaCall, Frame, Frames, Inner, CFunctions, Resumes

LEMMA MainIsProtected ==
  ASSUME NEW s \in Seq(Frames), s # <<>>, Nested(s, "pcall")
  PROVE  s[1].fn = "pcall" /\ CCalls(s) \in Nat /\ CCalls(s) # 0
<1>1. Len(s) \in Nat /\ Len(s) >= 1
  BY LastFrame
<1>2. s[1].fn = "pcall"
  BY DEF Nested
<1>3. 1 \in Under(s, Len(s))
  BY <1>1, <1>2 DEF Under, CFunctions
<1> QED
  BY <1>1, <1>2, <1>3, UnderCounts, FS_EmptySet DEF CCalls

LEMMA InitOk ==
  ASSUME ThreadInstance, Init
  PROVE  ThreadsInv
<1> DEFINE s == <<Frame("pcall", 1, 0), LuaCall>>
<1>1. s \in Seq(Frames) /\ Len(s) = 2 /\ s[1] = Frame("pcall", 1, 0) /\ s[2] = LuaCall
  <2>1. Frame("pcall", 1, 0) \in Frames /\ LuaCall \in Frames
    BY DEF LuaCall, Frame, Frames, Inner, CFunctions
  <2> QED
    BY <2>1
<1>2. s[1].fn = "pcall" /\ s[1].old = 0 /\ s[2].fn = "lua"
  BY <1>1 DEF Frame, LuaCall
<1> HIDE DEF s
<1>3. Nested(s, "pcall") /\ CCalls(s) = 1
  <2>1. Cardinality(Under(s, 0)) = 0
    BY UnderCounts
  <2>2. /\ Cardinality(Under(s, 1)) = Cardinality(Under(s, 1 - 1)) + 1
        /\ Cardinality(Under(s, 2)) = Cardinality(Under(s, 2 - 1)) + 0
    BY <1>2, UnderCounts DEF CFunctions
  <2>3. CCalls(s) = 1
    BY <1>1, <2>1, <2>2 DEF CCalls
  <2>4. Nested(s, "pcall")
    <3>1. \A i \in 1 .. Len(s) : i = 1 \/ i = 2
      BY <1>1
    <3> QED
      BY <1>1, <1>2, <2>1, <3>1 DEF Nested, Inner, CFunctions
  <2> QED
    BY <2>3, <2>4
<1>4. s # <<>> /\ Last(s).fn = "lua"
  BY <1>1, <1>2 DEF Last
<1>5. Nested(<<>>, "lua") /\ CCalls(<<>>) = 0
  BY UnderCounts DEF Nested, CCalls
<1>6. frames = [t \in Threads |-> IF t = Main THEN s ELSE <<>>]
  BY DEF Init, s
<1>7. Main \in Threads /\ chain = <<Main>> /\ L = Main
  BY DEF Init, Threads, L, Last
<1>8. ThreadTypes
  <2>1. chain \in Seq(Threads)
    BY <1>7
  <2>2. frames \in [Threads -> Seq(Frames)]
    BY <1>1, <1>6, EmptySeq
  <2> QED
    BY <2>1, <2>2 DEF ThreadTypes, Init, Fates
<1>9. ChainOk
  BY <1>7 DEF ChainOk, Init
<1>10. ASSUME NEW t \in Threads PROVE ThreadOk(t)
  <2>1. CASE t = Main
    BY <1>1, <1>3, <1>4, <1>6, <2>1 DEF ThreadOk, Init, Lowest, ThreadInstance
  <2>2. CASE t # Main
    BY <1>5, <1>6, <2>2 DEF ThreadOk, Init, Lowest, Finished, ThreadInstance
  <2> QED
    BY <2>1, <2>2
<1> QED
  BY <1>7, <1>8, <1>9, <1>10 DEF ThreadsInv

\* The call of a Lua function.
LEMMA LuaPush ==
  ASSUME NEW s \in Seq(Frames), NEW first, Nested(s, first), s # <<>>, Last(s).fn \in Inner
  PROVE  LET u == Append(s, LuaCall) IN
         /\ u \in Seq(Frames) /\ u # <<>> /\ Len(u) = Len(s) + 1 /\ Last(u).fn = "lua"
         /\ Nested(u, first) /\ CCalls(u) = CCalls(s)
<1> DEFINE u == Append(s, LuaCall)
<1>1. LuaCall \in Frames /\ LuaCall.fn = "lua" /\ LuaCall.fn \notin CFunctions
  BY FramesAre DEF LuaCall, Frame, CFunctions
<1>2. /\ u \in Seq(Frames) /\ u # <<>> /\ Len(u) = Len(s) + 1 /\ Last(u) = LuaCall
      /\ Nested(u, first) /\ CCalls(u) = CCalls(s) + 0
  BY <1>1, PushDoes
<1>3. CCalls(s) \in Nat
  BY UnderCounts, LastFrame DEF CCalls
<1> HIDE DEF u
<1> QED
  BY <1>1, <1>2, <1>3 DEF u

LEMMA CallOk ==
  ASSUME ThreadInstance, ThreadsInv, Call
  PROVE  ThreadsInv'
<1> DEFINE s == frames[L]
           u == Append(s, LuaCall)
<1>1. chain # <<>> /\ ~ throwing /\ Len(s) + 1 <= MaxFrames /\ frames' = [frames EXCEPT ![L] = u]
  BY DEF Call, Runs, Room, Push
<1>2. /\ s \in Seq(Frames) /\ s # <<>> /\ Last(s).fn = "lua" /\ Nested(s, Lowest(L))
      /\ nCcalls[L] \in Nat /\ nCcalls[L] = CCalls(s) /\ nCcalls[L] < LUAI_MAXCCALLS
      /\ nCcalls[L] <= LUAI_MAXCCALLS
  BY <1>1, RunnerIs
<1> HIDE DEF s
<1>3. /\ u \in Seq(Frames) /\ u # <<>> /\ Len(u) = Len(s) + 1 /\ Last(u).fn = "lua"
      /\ Nested(u, Lowest(L)) /\ CCalls(u) = CCalls(s)
  BY <1>2, LuaPush DEF Inner
<1>4. nCcalls' = [nCcalls EXCEPT ![L] = nCcalls[L]] /\ throwing' \in BOOLEAN
  BY DEF Call, ThreadsInv, ThreadTypes
<1>5. /\ bottom' = bottom /\ costatus' = costatus /\ truth' = truth /\ chain' = chain
      /\ ~ throwing'
  BY <1>1 DEF Call
<1> HIDE DEF u
<1> QED
  BY <1>1, <1>2, <1>3, <1>4, <1>5, OneMoves

LEMMA CallBackOk ==
  ASSUME ThreadInstance, ThreadsInv, NEW fn \in CFunctions, CallBack(fn)
  PROVE  ThreadsInv'
<1> DEFINE s == frames[L]
           n == nCcalls[L] + 1
           f == Frame(fn, 1, nCcalls[L])
           u == Append(s, f)
           w == IF throwing' THEN u ELSE Append(u, LuaCall)
<1>1. /\ chain # <<>> /\ ~ throwing /\ Len(s) + 2 <= MaxFrames
      /\ nCcalls' = [nCcalls EXCEPT ![L] = n] /\ throwing' = (n >= LUAI_MAXCCALLS)
  BY DEF CallBack, Runs, Room
<1>2. /\ L \in Threads /\ s \in Seq(Frames) /\ s # <<>> /\ Last(s).fn = "lua" /\ Nested(s, Lowest(L))
      /\ nCcalls[L] \in Nat /\ nCcalls[L] = CCalls(s) /\ nCcalls[L] < LUAI_MAXCCALLS
  BY <1>1, RunnerIs
<1>3. frames' = [frames EXCEPT ![L] = w]
  BY <1>2 DEF CallBack, Push, ThreadsInv, ThreadTypes
<1>4. n \in Nat /\ n <= LUAI_MAXCCALLS /\ (throwing' \/ n < LUAI_MAXCCALLS) /\ throwing' \in BOOLEAN
  <2>1. /\ n \in Nat /\ n <= LUAI_MAXCCALLS /\ (n >= LUAI_MAXCCALLS \/ n < LUAI_MAXCCALLS)
        /\ (n >= LUAI_MAXCCALLS) \in BOOLEAN
    BY <1>2 DEF ThreadInstance
  <2> HIDE DEF n
  <2> QED
    BY Zenon, <1>1, <2>1
<1>5. f \in Frames /\ f.fn = fn /\ f.old = CCalls(s)
  BY <1>2, FramesAre DEF Frame
<1> HIDE DEF s, f
<1>6. /\ u \in Seq(Frames) /\ u # <<>> /\ Len(u) = Len(s) + 1 /\ Last(u) = f
      /\ Nested(u, Lowest(L)) /\ CCalls(u) = CCalls(s) + 1
  BY <1>2, <1>5, PushDoes DEF Inner
<1>7. Last(u).fn \in Inner
  BY <1>5, <1>6 DEF Inner
<1> HIDE DEF u
<1>8. /\ w \in Seq(Frames) /\ w # <<>> /\ Len(w) <= Len(s) + 2
      /\ Nested(w, Lowest(L)) /\ CCalls(w) = n
      /\ IF throwing' THEN Last(w).fn \in Inner ELSE Last(w).fn = "lua"
  <2>1. Len(s) \in Nat
    BY <1>2
  <2>2. CASE throwing'
    BY <1>2, <1>6, <1>7, <2>1, <2>2
  <2>3. CASE ~ throwing'
    BY <1>2, <1>6, <1>7, <2>1, <2>3, LuaPush
  <2> QED
    BY <2>2, <2>3
<1>9. /\ bottom' = bottom /\ costatus' = costatus /\ truth' = truth /\ chain' = chain
  BY DEF CallBack
<1>10. Len(w) <= MaxFrames
  BY <1>1, <1>2, <1>8 DEF ThreadInstance
<1> HIDE DEF w, n
<1> QED
  BY <1>1, <1>3, <1>4, <1>8, <1>9, <1>10, OneMoves

LEMMA RaiseOk ==
  ASSUME ThreadInstance, ThreadsInv, chain # <<>>, ~ throwing, throwing' \in BOOLEAN,
         UNCHANGED <<frames, bottom, costatus, nCcalls, chain, truth>>
  PROVE  ThreadsInv'
<1> DEFINE s == frames[L]
<1>1. /\ s \in Seq(Frames) /\ s # <<>> /\ Last(s).fn = "lua" /\ Nested(s, Lowest(L))
      /\ nCcalls[L] \in Nat /\ nCcalls[L] = CCalls(s) /\ nCcalls[L] < LUAI_MAXCCALLS
      /\ nCcalls[L] <= LUAI_MAXCCALLS /\ Len(s) <= MaxFrames
  BY RunnerIs
<1>2. frames' = [frames EXCEPT ![L] = s] /\ nCcalls' = [nCcalls EXCEPT ![L] = nCcalls[L]]
  BY DEF ThreadsInv, ThreadTypes
<1>3. Last(s).fn \in Inner
  BY <1>1 DEF Inner
<1> HIDE DEF s
<1> QED
  BY <1>1, <1>2, <1>3, OneMoves

LEMMA ReturnOk ==
  ASSUME ThreadInstance, ThreadsInv, Return
  PROVE  ThreadsInv'
<1> DEFINE s == frames[L]
           f == Front(s)
           n == nCcalls[L]
<1>1. /\ chain # <<>> /\ ~ throwing /\ ~ throwing' /\ costatus' = costatus
      /\ throwing' \in BOOLEAN
  BY DEF Return, Runs, ThreadsInv, ThreadTypes
<1>2. /\ L \in Threads /\ s \in Seq(Frames) /\ s # <<>> /\ Last(s).fn = "lua" /\ Nested(s, Lowest(L))
      /\ n \in Nat /\ n = CCalls(s) /\ n < LUAI_MAXCCALLS /\ n <= LUAI_MAXCCALLS
      /\ Len(s) \in Nat /\ Len(s) >= 1 /\ Len(s) <= MaxFrames /\ Last(s) = s[Len(s)]
      /\ costatus[L] = "ok"
  BY <1>1, RunnerIs
<1>3. Pop(frames, L)[L] = f
  BY <1>2 DEF Pop, ThreadsInv, ThreadTypes
<1>4. f = SubSeq(s, 1, Len(s) - 1)
  BY DEF Front
<1> HIDE DEF s
<1>5. /\ f \in Seq(Frames) /\ Len(f) = Len(s) - 1 /\ (\A i \in 1 .. Len(f) : f[i] = s[i])
      /\ Nested(f, Lowest(L)) /\ CCalls(f) = n
  <2>1. Len(s) - 1 \in 0 .. Len(s) /\ Len(s) \in Nat /\ Len(s) > 0
    BY <1>2
  <2>2. /\ f \in Seq(Frames) /\ Len(f) = Len(s) - 1 /\ (\A i \in 1 .. Len(f) : f[i] = s[i])
        /\ Nested(f, Lowest(L)) /\ CCalls(f) = Cardinality(Under(s, Len(s) - 1))
    BY <1>2, <1>4, <2>1, PrefixDoes
  <2>3. Cardinality(Under(s, Len(s))) = Cardinality(Under(s, Len(s) - 1)) + 0
    BY <1>2, <2>1, UnderCounts DEF CFunctions
  <2>4. Cardinality(Under(s, Len(s) - 1)) \in Nat
    BY <2>1, UnderCounts
  <2> QED
    BY <1>2, <2>2, <2>3, <2>4 DEF CCalls
<1> HIDE DEF f
<1>6. CASE f = <<>>
  <2>1. L # Main
    <3>1. Len(s) = 1
      BY <1>2, <1>5, <1>6
    <3>2. Lowest(L) = "lua"
      BY <1>2, <3>1 DEF Nested
    <3> QED
      BY <3>2 DEF Lowest
  <2>2. Len(chain) # 1
    BY <1>1, <2>1, Runner DEF ThreadsInv
  <2>3. Resumer \in Threads /\ Resumer # L
    BY <1>1, <2>1, ResumerIs DEF ThreadsInv
  <2>4. /\ frames' = Answered([frames EXCEPT ![L] = <<>>])
        /\ bottom' = [bottom EXCEPT ![L] = 0]
        /\ chain' = Front(chain) /\ nCcalls' = nCcalls
        /\ truth' = [truth EXCEPT ![L] = "dead", ![Resumer] = "running"]
    BY <1>3, <1>6 DEF Return, Resumer
  <2>5. frames' = [frames EXCEPT ![L] = f, ![Resumer] = Front(frames[Resumer])]
    BY <1>2, <1>6, <2>2, <2>3, <2>4 DEF Answered, Pop, Resumer, ThreadsInv, ThreadTypes
  <2>6. /\ bottom' \in [Threads -> {0, 1}] /\ bottom'[L] = 0
        /\ \A t \in Threads \ {L} : bottom'[t] = bottom[t]
    BY <1>2, <2>4 DEF ThreadsInv, ThreadTypes
  <2>7. /\ costatus' \in [Threads -> {"ok", "yield", "err"}] /\ costatus'[L] = "ok"
        /\ \A t \in Threads \ {L} : costatus'[t] = costatus[t]
    BY <1>1, <1>2 DEF ThreadsInv, ThreadTypes
  <2>8. Len(f) <= MaxFrames
    BY <1>6 DEF ThreadInstance
  <2> QED
    BY <1>1, <1>5, <1>6, <2>1, <2>4, <2>5, <2>6, <2>7, <2>8, Answer
<1>7. CASE f # <<>> /\ Last(f).fn = "lua"
  <2>1. frames' = [frames EXCEPT ![L] = f] /\ UNCHANGED <<bottom, chain, truth, nCcalls>>
    BY <1>3, <1>7 DEF Return
  <2>2. nCcalls' = [nCcalls EXCEPT ![L] = n]
    BY <2>1 DEF ThreadsInv, ThreadTypes
  <2>3. Len(f) <= MaxFrames
    BY <1>2, <1>5 DEF ThreadInstance
  <2> HIDE DEF n
  <2> QED
    BY <1>1, <1>2, <1>5, <1>7, <2>1, <2>2, <2>3, OneMoves
<1>8. CASE f # <<>> /\ Last(f).fn # "lua"
  <2> DEFINE g == Front(f)
  <2>1. /\ frames' = [frames EXCEPT ![L] = g]
        /\ nCcalls' = [nCcalls EXCEPT ![L] = @ - 1]
        /\ chain' = (IF L = Main /\ Len(f) = 1 THEN <<>> ELSE chain)
        /\ UNCHANGED <<bottom, truth>>
    BY <1>3, <1>8 DEF Return
  <2>2. Len(f) \in Nat /\ Len(f) >= 1 /\ Last(f) = f[Len(f)]
    BY <1>5, <1>8, LastFrame
  <2>3. f[Len(f)].fn \in CFunctions
    <3>1. s[Len(s) - 1].fn \in Inner
      BY <1>2, <1>5, <2>2 DEF Nested
    <3>2. f[Len(f)] = s[Len(s) - 1]
      BY <1>5, <2>2
    <3> QED
      BY <1>8, <2>2, <3>1, <3>2 DEF Inner
  <2>4. Cardinality(Under(f, Len(f))) = Cardinality(Under(f, Len(f) - 1)) + 1
    BY <2>2, <2>3, UnderCounts
  <2>5. /\ g \in Seq(Frames) /\ Len(g) = Len(f) - 1 /\ (\A i \in 1 .. Len(g) : g[i] = f[i])
        /\ Nested(g, Lowest(L)) /\ CCalls(g) = Cardinality(Under(f, Len(f) - 1))
    <3>1. Len(f) - 1 \in 0 .. Len(f)
      BY <2>2
    <3> QED
      BY <1>5, <3>1, PrefixDoes DEF Front
  <2> HIDE DEF g
  <2>6. CCalls(g) \in Nat /\ CCalls(g) = n - 1
    <3>1. Cardinality(Under(f, Len(f) - 1)) \in Nat
      BY <2>2, UnderCounts
    <3> QED
      BY <1>5, <2>4, <2>5, <3>1 DEF CCalls
  <2>7. nCcalls' = [nCcalls EXCEPT ![L] = CCalls(g)]
    BY <2>1, <2>6
  <2>8. Len(g) <= MaxFrames /\ CCalls(g) <= LUAI_MAXCCALLS /\ CCalls(g) < LUAI_MAXCCALLS
    BY <1>2, <1>5, <2>2, <2>5, <2>6 DEF ThreadInstance
  <2>9. ASSUME chain' # <<>> PROVE g # <<>> /\ Last(g).fn = "lua"
    <3>1. Len(f) # 1
      <4> SUFFICES ASSUME Len(f) = 1 PROVE FALSE
        OBVIOUS
      <4>1. L # Main
        BY <2>1, <2>9
      <4>2. f[1].fn = "lua"
        BY <1>5, <1>8, <4>1 DEF Nested, Lowest
      <4> QED
        BY <2>3, <4>2 DEF CFunctions
    <3>2. Len(f) \in 2 .. Len(f) /\ f[Len(f)].fn # "lua"
      <4>1. \A k \in Nat : k >= 1 /\ k # 1 => k \in 2 .. k
        OBVIOUS
      <4>2. f[Len(f)].fn # "lua"
        BY Zenon, <1>8, <2>2
      <4> QED
        BY Zenon, <2>2, <3>1, <4>1, <4>2
    <3>3. f[Len(f) - 1].fn = "lua"
      BY <1>5, <3>2 DEF Nested
    <3> QED
      BY <2>2, <2>5, <3>1, <3>3 DEF Last
  <2>10. chain' = chain \/ chain' = <<>>
    BY <2>1
  <2> QED
    BY <1>1, <2>1, <2>5, <2>6, <2>7, <2>8, <2>9, <2>10, OneMoves
<1> QED
  BY <1>6, <1>7, <1>8

LEMMA CreateOk ==
  ASSUME ThreadInstance, ThreadsInv, NEW co \in Coroutines, Create(co)
  PROVE  ThreadsInv'
<1>1. chain # <<>> /\ ~ throwing /\ co \in Threads /\ truth[co] = "none"
  BY DEF Create, Runs, Threads
<1>2. /\ truth' = [truth EXCEPT ![co] = "suspended"] /\ bottom' = [bottom EXCEPT ![co] = 1]
      /\ UNCHANGED <<frames, costatus, nCcalls, chain, throwing>>
  BY DEF Create
<1>3. L \in Threads /\ truth[L] = "running" /\ L # co /\ L' = L
  BY <1>1, <1>2, RunnerIs DEF L
<1>4. ThreadOk(co) /\ Finished(co) /\ nCcalls[co] = CCalls(frames[co])
  BY <1>1 DEF ThreadsInv, ThreadOk
<1>5. CCalls(<<>>) = 0
  BY UnderCounts DEF CCalls
<1>6. truth'[co] = "suspended" /\ \A t \in Threads : t # co => truth'[t] = truth[t]
  BY <1>1, <1>2 DEF ThreadsInv, ThreadTypes
<1>7. ThreadTypes'
  BY <1>1, <1>2 DEF ThreadsInv, ThreadTypes, Fates
<1>8. ChainOk'
  <2>1. \A t \in Threads : /\ truth'[t] = "running" <=> truth[t] = "running"
                           /\ truth'[t] = "normal" <=> truth[t] = "normal"
    BY <1>1, <1>6
  <2> QED
    BY <1>1, <1>2, <1>3, <2>1 DEF ThreadsInv, ChainOk
<1>9. ThreadOk(co)'
  <2>1. /\ frames'[co] = <<>> /\ frames[co] = <<>> /\ bottom'[co] = 1 /\ costatus'[co] = "ok"
        /\ nCcalls'[co] = 0 /\ nCcalls[co] = 0
    BY <1>1, <1>2, <1>4, <1>5 DEF Finished, ThreadsInv, ThreadTypes
  <2> QED
    BY <1>1, <1>2, <1>4, <1>5, <1>6, <2>1 DEF ThreadOk, Fresh
<1>10. \A t \in Threads \ {co, L} : ThreadOk(t)'
  <2>1. \A t \in Threads \ {co, L} :
          /\ frames'[t] = frames[t] /\ bottom'[t] = bottom[t] /\ costatus'[t] = costatus[t]
          /\ nCcalls'[t] = nCcalls[t] /\ truth'[t] = truth[t]
    BY <1>1, <1>2, <1>6 DEF ThreadsInv, ThreadTypes
  <2> QED
    BY <1>1, <1>3, <2>1, OthersKeep
<1>11. ASSUME NEW t \in Threads, t = L PROVE ThreadOk(t)'
  <2>1. ThreadOk(t) /\ t # co
    BY <1>3, <1>11 DEF ThreadsInv
  <2>2. bottom'[t] = bottom[t]
    BY <1>2, <2>1 DEF ThreadsInv, ThreadTypes
  <2> QED
    BY <1>1, <1>2, <1>6, <2>1, <2>2, Untouched
<1>12. \A t \in Threads : ThreadOk(t)'
  BY <1>9, <1>10, <1>11
<1> QED
  BY <1>1, <1>2, <1>7, <1>8, <1>12 DEF ThreadsInv

\* Which threads may be resumed: those that are suspended.
LEMMA OnlySuspended ==
  ASSUME ThreadInstance, ThreadsInv, chain # <<>>, ~ throwing, NEW co \in Coroutines, truth[co] # "none"
  PROVE  /\ co = L => \A top : ~ CanResume(co, top)
         /\ co # L => (CanResume(co, Top(co)) <=> truth[co] = "suspended")
<1>1. co \in Threads /\ ThreadOk(co) /\ truth[co] \in Fates
  BY DEF ThreadsInv, ThreadTypes, Threads
<1>2. co = L => costatus[co] = "ok" /\ frames[co] # <<>>
  BY RunnerIs
<1>3. ASSUME co # L PROVE CanResume(co, Top(co)) <=> truth[co] = "suspended"
  <2>1. truth[co] \in {"suspended", "normal", "dead"}
    BY <1>1, <1>3 DEF ThreadsInv, ChainOk, Fates
  <2>2. CASE truth[co] = "suspended"
    BY <1>1, <2>2 DEF ThreadOk, Fresh, Yielded, CanResume, Top
  <2>3. CASE truth[co] = "normal"
    BY <1>1, <2>3 DEF ThreadOk, CanResume
  <2>4. CASE truth[co] = "dead"
    BY <1>1, <2>4 DEF ThreadOk, Finished, CanResume, Top
  <2> QED
    BY <2>1, <2>2, <2>3, <2>4
<1> QED
  BY <1>2, <1>3 DEF CanResume

LEMMA RefuseOk ==
  ASSUME ThreadInstance, ThreadsInv, NEW co \in Coroutines, NEW fn \in Resumes, NEW narg \in {0, 1},
         Refuse(co, fn, narg)
  PROVE  ThreadsInv'
<1>1. /\ chain # <<>> /\ ~ throwing /\ truth[co] # "none" /\ co \in Threads
      /\ UNCHANGED <<costatus, nCcalls, chain, truth>> /\ throwing' \in BOOLEAN
  BY DEF Refuse, Runs, Threads
<1> DEFINE s == frames[co]
           u == [s EXCEPT ![Len(s)].top = 0]
           message == co # L /\ ~(costatus[co] = "ok" /\ Top(co) = 0)
<1>2. /\ frames' = (IF message /\ s # <<>> THEN [frames EXCEPT ![co] = u] ELSE frames)
      /\ bottom' = (IF message /\ s = <<>> THEN [bottom EXCEPT ![co] = 0] ELSE bottom)
  BY DEF Refuse
<1>3. CASE ~ message
  BY <1>1, <1>2, <1>3, RaiseOk
<1>4. CASE message
  <2>1. co # L /\ truth[co] \in {"normal", "dead"} /\ ThreadOk(co) /\ L' = L /\ L \in Threads
    <3>1. truth[co] # "suspended"
      BY <1>1, <1>4, OnlySuspended DEF Refuse
    <3>2. truth[co] # "running" /\ truth[co] \in Fates
      BY <1>1, <1>4 DEF ThreadsInv, ThreadTypes, ChainOk
    <3> QED
      BY <1>1, <1>4, <3>1, <3>2, RunnerIs DEF Fates, ThreadsInv, L
  <2>2. s \in Seq(Frames) /\ Nested(s, Lowest(co)) /\ Len(s) <= MaxFrames
    BY <1>1, <2>1 DEF ThreadsInv, ThreadTypes, ThreadOk
  <2>3. s # <<>> =>
          /\ u \in Seq(Frames) /\ u # <<>> /\ Len(u) = Len(s)
          /\ Last(u).fn = Last(s).fn /\ Nested(u, Lowest(co)) /\ CCalls(u) = CCalls(s)
    BY <2>2, RenamedDoes
  <2> HIDE DEF u, message
  <2>4. /\ s = <<>> => frames' = frames /\ bottom' = [bottom EXCEPT ![co] = 0]
        /\ s # <<>> => frames' = [frames EXCEPT ![co] = u] /\ bottom' = bottom
    BY <1>2, <1>4
  <2>5. ThreadTypes'
    BY <1>1, <2>3, <2>4 DEF ThreadsInv, ThreadTypes
  <2>6. ChainOk'
    BY <1>1, <2>1 DEF ThreadsInv, ChainOk
  <2>7. ThreadOk(co)'
    <3>1. CASE s = <<>>
      <4>1. frames'[co] = <<>> /\ frames[co] = <<>> /\ bottom'[co] = 0
        BY <1>1, <2>4, <3>1 DEF ThreadsInv, ThreadTypes
      <4>2. truth[co] = "dead"
        BY <2>1, <4>1 DEF ThreadOk
      <4> QED
        BY <1>1, <2>1, <4>1, <4>2 DEF ThreadOk, Finished
    <3>2. CASE s # <<>>
      <4>1. frames'[co] = u /\ bottom' = bottom
        BY <1>1, <2>4, <3>2 DEF ThreadsInv, ThreadTypes
      <4>2. Len(u) <= MaxFrames
        BY <2>2, <2>3, <3>2
      <4> QED
        BY <1>1, <2>1, <2>3, <3>2, <4>1, <4>2 DEF ThreadOk, Finished
    <3> QED
      BY <3>1, <3>2
  <2>8. \A t \in Threads \ {co, L} : ThreadOk(t)'
    <3>1. \A t \in Threads \ {co, L} :
            /\ frames'[t] = frames[t] /\ bottom'[t] = bottom[t] /\ costatus'[t] = costatus[t]
            /\ nCcalls'[t] = nCcalls[t] /\ truth'[t] = truth[t]
      BY <1>1, <2>4 DEF ThreadsInv, ThreadTypes
    <3> QED
      BY <1>1, <2>1, <3>1, OthersKeep
  <2>9. ASSUME NEW t \in Threads, t = L PROVE ThreadOk(t)'
    <3>1. frames'[t] = frames[t] /\ bottom'[t] = bottom[t]
      BY <1>1, <2>1, <2>4, <2>9 DEF ThreadsInv, ThreadTypes
    <3>2. ThreadOk(t) /\ truth[t] = "running" /\ Last(frames[t]).fn = "lua"
      BY <1>1, <2>9, RunnerIs DEF ThreadsInv
    <3> QED
      BY <1>1, <3>1, <3>2 DEF ThreadOk, Inner
  <2>10. \A t \in Threads : ThreadOk(t)'
    BY <2>7, <2>8, <2>9
  <2> QED
    BY <1>1, <2>5, <2>6, <2>10 DEF ThreadsInv
<1> QED
  BY <1>3, <1>4

LEMMA YieldOk ==
  ASSUME ThreadInstance, ThreadsInv, Yield
  PROVE  ThreadsInv'
<1>1. chain # <<>> /\ ~ throwing /\ UNCHANGED <<bottom, nCcalls>> /\ Len(frames[L]) + 1 <= MaxFrames
  BY DEF Yield, Runs, Room
<1>2. CASE nCcalls[L] > 0
  BY <1>1, <1>2, RaiseOk DEF Yield
<1>3. CASE ~(nCcalls[L] > 0)
  <2> DEFINE s == frames[L]
             f == Frame("yield", 0, 0)
             u == Append(s, f)
  <2>1. /\ L \in Threads /\ s \in Seq(Frames) /\ s # <<>> /\ Last(s).fn = "lua" /\ Nested(s, Lowest(L))
        /\ nCcalls[L] = 0 /\ nCcalls[L] = CCalls(s)
    BY <1>1, <1>3, RunnerIs
  <2>2. /\ costatus' = [costatus EXCEPT ![L] = "yield"]
        /\ frames' = Answered(Push(frames, L, f))
        /\ chain' = Front(chain) /\ throwing' = throwing
        /\ truth' = [truth EXCEPT ![L] = "suspended", ![Resumer] = "running"]
    BY <1>3 DEF Yield, Resumer
  <2>3. L # Main
    BY <2>1, MainIsProtected DEF Lowest
  <2>4. Resumer \in Threads /\ Resumer # L /\ Len(chain) # 1
    BY <1>1, <2>3, ResumerIs DEF ThreadsInv
  <2>5. frames' = [frames EXCEPT ![L] = u, ![Resumer] = Front(frames[Resumer])]
    BY <2>1, <2>2, <2>4 DEF Answered, Push, Pop, Resumer, ThreadsInv, ThreadTypes
  <2>6. f \in Frames /\ f.fn = "yield" /\ f.fn \notin CFunctions
    BY FramesAre DEF Frame, CFunctions
  <2> HIDE DEF s, f
  <2>7. /\ u \in Seq(Frames) /\ u # <<>> /\ Len(u) = Len(s) + 1 /\ Last(u) = f
        /\ Nested(u, Lowest(L)) /\ CCalls(u) = 0
    BY <2>1, <2>6, PushDoes DEF Inner
  <2>8. /\ costatus' \in [Threads -> {"ok", "yield", "err"}] /\ costatus'[L] = "yield"
        /\ \A t \in Threads \ {L} : costatus'[t] = costatus[t]
    BY <2>1, <2>2 DEF ThreadsInv, ThreadTypes
  <2>9. /\ bottom' \in [Threads -> {0, 1}] /\ (\A t \in Threads \ {L} : bottom'[t] = bottom[t])
        /\ throwing' \in BOOLEAN /\ nCcalls' = nCcalls
    BY <1>1, <2>2 DEF ThreadsInv, ThreadTypes
  <2>10. Len(u) <= MaxFrames /\ Last(u).fn = "yield"
    BY <1>1, <2>6, <2>7 DEF s
  <2> HIDE DEF u
  <2> QED
    BY <1>1, <2>1, <2>2, <2>3, <2>5, <2>7, <2>8, <2>9, <2>10, Answer
<1> QED
  BY <1>2, <1>3

LEMMA ResumeOk ==
  ASSUME ThreadInstance, ThreadsInv, NEW co \in Coroutines, NEW fn \in Resumes, NEW narg \in {0, 1},
         Resume(co, fn, narg)
  PROVE  ThreadsInv'
<1> DEFINE own == IF fn = "resume" THEN 1 ELSE 0
           f == Frame(fn, own, 0)
           s == frames[L]
           u == Append(s, f)
           g == frames[co]
           h == IF costatus[co] = "yield" THEN Front(g) ELSE <<LuaCall>>
<1>1. /\ chain # <<>> /\ ~ throwing /\ truth[co] # "none" /\ co \in Threads
      /\ Len(s) + 1 <= MaxFrames /\ UNCHANGED <<nCcalls, throwing>>
      /\ costatus' = [costatus EXCEPT ![co] = "ok"] /\ bottom' = [bottom EXCEPT ![co] = 0]
      /\ chain' = Append(chain, co)
  BY DEF Resume, Runs, Room, Threads
<1>2. co # L /\ truth[co] = "suspended" /\ ThreadOk(co)
  BY <1>1, OnlySuspended DEF Resume, ThreadsInv
<1>3. /\ L \in Threads /\ s \in Seq(Frames) /\ s # <<>> /\ Last(s).fn = "lua" /\ Nested(s, Lowest(L))
      /\ nCcalls[L] \in Nat /\ nCcalls[L] = CCalls(s) /\ nCcalls[L] < LUAI_MAXCCALLS
      /\ nCcalls[L] <= LUAI_MAXCCALLS /\ costatus[L] = "ok"
  BY <1>1, RunnerIs
<1>4. truth' = [truth EXCEPT ![L] = "normal", ![co] = "running"]
  BY <1>1, <1>2, <1>3 DEF Resume, ThreadsInv, ThreadTypes
<1>5. ChainOk' /\ chain' \in Seq(Threads) /\ chain' # <<>>
  BY <1>1, <1>2, <1>4, ChainPush DEF ThreadsInv
<1>6. f \in Frames /\ f.fn = fn /\ f.fn \notin CFunctions /\ f.fn \in Resumes
  BY FramesAre DEF Frame, CFunctions, Resumes
<1>7. frames' = [frames EXCEPT ![L] = u, ![co] = h]
  BY <1>1, <1>2, <1>3 DEF Resume, Push, ThreadsInv, ThreadTypes
<1>8. frames'[L] = u /\ frames'[co] = h
  BY <1>1, <1>2, <1>3, <1>7 DEF ThreadsInv, ThreadTypes
<1>9. /\ g \in Seq(Frames) /\ Nested(g, "lua") /\ Len(g) <= MaxFrames /\ Lowest(co) = "lua"
      /\ nCcalls[co] = 0 /\ CCalls(g) = 0 /\ (Fresh(co) \/ Yielded(co))
  BY <1>1, <1>2 DEF ThreadOk, Lowest, ThreadInstance, ThreadsInv, ThreadTypes
<1> HIDE DEF s, f
<1>10. /\ u \in Seq(Frames) /\ u # <<>> /\ Len(u) = Len(s) + 1 /\ Last(u) = f
       /\ Nested(u, Lowest(L)) /\ CCalls(u) = CCalls(s)
  <2>1. /\ u \in Seq(Frames) /\ u # <<>> /\ Len(u) = Len(s) + 1 /\ Last(u) = f
        /\ Nested(u, Lowest(L)) /\ CCalls(u) = CCalls(s) + 0
    BY <1>3, <1>6, PushDoes DEF Inner
  <2> HIDE DEF u
  <2> QED
    BY <1>3, <2>1
<1> HIDE DEF u
<1>11. /\ h \in Seq(Frames) /\ h # <<>> /\ Len(h) <= MaxFrames
       /\ Nested(h, "lua") /\ CCalls(h) = 0 /\ Last(h).fn = "lua"
  <2>1. CASE costatus[co] = "yield"
    <3>1. g # <<>> /\ Last(g).fn \notin Inner
      BY <1>9, <2>1 DEF Fresh, Yielded, Inner, CFunctions
    <3>2. Len(g) \in Nat
      BY <1>9
    <3> HIDE DEF g
    <3>3. /\ Front(g) \in Seq(Frames) /\ Front(g) # <<>> /\ Len(Front(g)) = Len(g) - 1
          /\ Nested(Front(g), "lua") /\ CCalls(Front(g)) = 0
          /\ Last(Front(g)).fn = "lua"
      BY <1>9, <3>1, PopDoes DEF Inner
    <3> QED
      BY <1>9, <2>1, <3>2, <3>3 DEF ThreadInstance
  <2>2. CASE costatus[co] # "yield"
    <3>1. LuaCall \in Frames /\ LuaCall.fn = "lua" /\ LuaCall.fn \notin CFunctions
      BY FramesAre DEF LuaCall, Frame, CFunctions
    <3> HIDE DEF LuaCall
    <3> DEFINE k == <<LuaCall>>
    <3>2. k \in Seq(Frames) /\ Len(k) = 1 /\ k[1] = LuaCall
      BY <3>1
    <3> HIDE DEF k
    <3>3. k # <<>> /\ Last(k).fn = "lua"
      BY <3>1, <3>2 DEF Last
    <3>4. Nested(k, "lua")
      BY <3>1, <3>2 DEF Nested
    <3>5. CCalls(k) = 0
      <4>1. /\ Cardinality(Under(k, 1)) =
                 Cardinality(Under(k, 1 - 1)) + (IF k[1].fn \in CFunctions THEN 1 ELSE 0)
            /\ Cardinality(Under(k, 0)) = 0
        BY UnderCounts
      <4> QED
        BY <3>1, <3>2, <4>1 DEF CCalls
    <3> QED
      BY <2>2, <3>2, <3>3, <3>4, <3>5 DEF ThreadInstance, k
  <2> QED
    BY <2>1, <2>2
<1> HIDE DEF h, g
<1>12. truth'[L] = "normal" /\ truth'[co] = "running"
  BY <1>1, <1>2, <1>3, <1>4 DEF ThreadsInv, ThreadTypes
<1>13. ThreadTypes'
  <2>1. frames' \in [Threads -> Seq(Frames)]
    BY <1>1, <1>3, <1>7, <1>10, <1>11 DEF ThreadsInv, ThreadTypes
  <2>2. truth' \in [Threads -> Fates]
    BY <1>1, <1>3, <1>4 DEF ThreadsInv, ThreadTypes, Fates
  <2> QED
    BY <1>1, <1>5, <2>1, <2>2 DEF ThreadsInv, ThreadTypes
<1>14. ThreadOk(co)'
  <2>1. costatus'[co] = "ok" /\ nCcalls'[co] = 0 /\ throwing' = FALSE
    BY <1>1, <1>9 DEF ThreadsInv, ThreadTypes
  <2>2. 0 < LUAI_MAXCCALLS /\ 0 <= LUAI_MAXCCALLS
    BY DEF ThreadInstance
  <2> QED
    BY <1>8, <1>9, <1>11, <1>12, <2>1, <2>2 DEF ThreadOk
<1>15. ASSUME NEW t \in Threads, t = L PROVE ThreadOk(t)'
  <2>1. costatus'[t] = "ok" /\ nCcalls'[t] = nCcalls[L] /\ frames'[t] = u /\ truth'[t] = "normal"
    BY <1>1, <1>2, <1>3, <1>8, <1>12, <1>15 DEF ThreadsInv, ThreadTypes
  <2>2. Len(u) <= MaxFrames /\ Lowest(t) = Lowest(L) /\ Last(u).fn \in Resumes
    BY <1>1, <1>6, <1>10, <1>15 DEF s
  <2> QED
    BY <1>3, <1>10, <2>1, <2>2 DEF ThreadOk
<1>16. \A t \in Threads \ {L, co} : ThreadOk(t)'
  <2>1. \A t \in Threads \ {L, co} :
          /\ frames'[t] = frames[t] /\ bottom'[t] = bottom[t] /\ costatus'[t] = costatus[t]
          /\ nCcalls'[t] = nCcalls[t] /\ truth'[t] = truth[t]
    BY <1>1, <1>3, <1>4, <1>7 DEF ThreadsInv, ThreadTypes
  <2> QED
    BY <1>1, <1>3, <2>1, OthersKeep
<1>17. \A t \in Threads : ThreadOk(t)'
  BY <1>14, <1>15, <1>16
<1> QED
  BY <1>5, <1>13, <1>17 DEF ThreadsInv

LEMMA CatchOk ==
  ASSUME ThreadInstance, ThreadsInv, Catch
  PROVE  ThreadsInv'
<1> DEFINE s == frames[L]
           p == SelectLastInSeq(s, LAMBDA f : f.fn = "pcall")
<1>1. throwing /\ chain # <<>> /\ UNCHANGED bottom
  BY DEF Catch, ThreadsInv
<1>2. /\ L \in Threads /\ s \in Seq(Frames) /\ s # <<>> /\ Last(s).fn \in Inner /\ Nested(s, Lowest(L))
      /\ nCcalls[L] \in Nat /\ nCcalls[L] = CCalls(s) /\ nCcalls[L] <= LUAI_MAXCCALLS
      /\ Len(s) \in Nat /\ Len(s) >= 1 /\ Len(s) <= MaxFrames
  BY <1>1, RunnerIs
<1>3. /\ p \in 0 .. Len(s)
      /\ p > 0 => s[p].fn = "pcall"
      /\ p = 0 => \A i \in 1 .. Len(s) : s[i].fn # "pcall"
  BY <1>2, Handler
<1>4. CASE p > 0
  <2> DEFINE u == SubSeq(s, 1, p - 1)
             n == s[p].old
  <2>1. /\ frames' = [frames EXCEPT ![L] = u]
        /\ nCcalls' = [nCcalls EXCEPT ![L] = n]
        /\ chain' = (IF L = Main /\ p = 1 THEN <<>> ELSE chain)
        /\ throwing' = FALSE
        /\ UNCHANGED <<costatus, truth>>
    BY <1>4 DEF Catch, RestoredCcalls
  <2> HIDE DEF s, p
  <2>2. p - 1 \in 0 .. Len(s) /\ p \in 1 .. Len(s) /\ p \in Nat
    BY <1>2, <1>3, <1>4
  <2>3. n = Cardinality(Under(s, p - 1))
    BY <1>2, <1>3, <1>4, <2>2 DEF Nested, CFunctions
  <2>4. /\ u \in Seq(Frames) /\ Len(u) = p - 1 /\ (\A i \in 1 .. p - 1 : u[i] = s[i])
        /\ Nested(u, Lowest(L)) /\ CCalls(u) = n
    BY <1>2, <2>2, <2>3, PrefixDoes
  <2>5. n \in Nat /\ n < LUAI_MAXCCALLS
    <3>1. IsFiniteSet(Under(s, Len(s))) /\ Under(s, p - 1) \subseteq Under(s, Len(s)) \ {p}
      <4>1. \A i \in 1 .. p - 1 : i \in 1 .. Len(s) /\ i # p
        BY <1>2, <2>2
      <4>2. Under(s, p - 1) \subseteq Under(s, Len(s)) \ {p}
        BY <4>1 DEF Under
      <4> QED
        BY <1>2, <4>2, UnderCounts
    <3>2. p \in Under(s, Len(s))
      BY <1>3, <1>4, <2>2 DEF Under, CFunctions
    <3>3. IsFiniteSet(Under(s, Len(s)) \ {p}) /\ Cardinality(Under(s, Len(s)) \ {p}) = nCcalls[L] - 1
      BY <1>2, <3>1, <3>2, FS_RemoveElement DEF CCalls
    <3>4. Cardinality(Under(s, p - 1)) <= nCcalls[L] - 1
      BY <3>1, <3>3, FS_Subset
    <3>5. p - 1 \in Nat
      BY <2>2
    <3>6. Cardinality(Under(s, p - 1)) \in Nat
      BY <3>5, UnderCounts
    <3> QED
      BY <1>2, <2>3, <3>4, <3>6 DEF ThreadInstance
  <2> HIDE DEF u, n
  <2>6. ASSUME chain' # <<>> PROVE u # <<>> /\ Last(u).fn = "lua"
    <3>1. p # 1
      <4> SUFFICES ASSUME p = 1 PROVE FALSE
        OBVIOUS
      <4>1. Lowest(L) = "lua"
        BY <2>1, <2>6 DEF Lowest
      <4>2. s[1].fn = "lua"
        BY <1>2, <4>1 DEF Nested
      <4> QED
        BY <1>3, <1>4, <4>2
    <3>2. p \in 2 .. Len(s) /\ s[p].fn # "lua"
      BY <1>3, <1>4, <2>2, <3>1
    <3>3. s[p - 1].fn = "lua"
      BY <1>2, <3>2 DEF Nested
    <3> QED
      BY <2>4, <3>2, <3>3 DEF Last
  <2>7. Len(u) <= MaxFrames /\ n <= LUAI_MAXCCALLS
    BY <1>2, <2>2, <2>4, <2>5 DEF ThreadInstance
  <2>8. chain' = chain \/ chain' = <<>>
    BY <2>1
  <2> QED
    BY <1>1, <2>1, <2>4, <2>5, <2>6, <2>7, <2>8, OneMoves
<1>5. CASE ~(p > 0)
  <2> DEFINE g == frames[Resumer]
  <2>1. /\ costatus' = [costatus EXCEPT ![L] = "err"]
        /\ frames' = Pop(frames, Resumer)
        /\ chain' = Front(chain)
        /\ throwing' = (Last(g).fn = "wrap")
        /\ truth' = [truth EXCEPT ![L] = "dead", ![Resumer] = "running"]
        /\ UNCHANGED nCcalls
    BY <1>5 DEF Catch, Resumer
  <2>2. L # Main
    <3>1. p = 0 /\ 1 \in 1 .. Len(s)
      BY <1>2, <1>3, <1>5
    <3> QED
      BY <1>2, <1>3, <3>1 DEF Nested, Lowest
  <2>3. Resumer \in Threads /\ Resumer # L
    BY <1>1, <2>2, ResumerIs DEF ThreadsInv
  <2>4. frames' = [frames EXCEPT ![L] = s, ![Resumer] = Front(g)]
    BY <1>2, <2>1, <2>3 DEF Pop, ThreadsInv, ThreadTypes
  <2>5. /\ costatus' \in [Threads -> {"ok", "yield", "err"}] /\ costatus'[L] = "err"
        /\ \A t \in Threads \ {L} : costatus'[t] = costatus[t]
    BY <1>2, <2>1 DEF ThreadsInv, ThreadTypes
  <2>6. /\ bottom' \in [Threads -> {0, 1}] /\ (\A t \in Threads \ {L} : bottom'[t] = bottom[t])
        /\ throwing' \in BOOLEAN /\ nCcalls' = nCcalls
    BY <1>1, <2>1 DEF ThreadsInv, ThreadTypes
  <2> HIDE DEF s, p
  <2> QED
    BY <1>1, <1>2, <2>1, <2>2, <2>4, <2>5, <2>6, Answer
<1> QED
  BY <1>4, <1>5
--------------------------------------------------------------------------
(* What the invariant says of the threads. *)
LEMMA InvTypes ==
  ASSUME ThreadInstance, ThreadsInv
  PROVE  TypeOK
<1>1. ToSet(chain) \subseteq Threads
  BY ElementOfSeq DEF ToSet, ThreadsInv, ThreadTypes
<1>2. IsInjective(chain)
  <2>1. CASE chain = <<>>
    BY <2>1 DEF IsInjective
  <2>2. CASE chain # <<>>
    <3>1. DOMAIN chain = 1 .. Len(chain)
      BY DEF ThreadsInv, ThreadTypes
    <3>2. \A i, j \in 1 .. Len(chain) : chain[i] = chain[j] => i = j
      BY <2>2 DEF ThreadsInv, ChainOk
    <3> QED
      BY Zenon, <3>1, <3>2 DEF IsInjective
  <2> QED
    BY <2>1, <2>2
<1>3. ASSUME NEW t \in Threads
      PROVE  Len(frames[t]) <= MaxFrames /\ Top(t) \in 0..2 /\ nCcalls[t] \in 0..LUAI_MAXCCALLS
  <2>1. ThreadOk(t) /\ frames[t] \in Seq(Frames) /\ bottom[t] \in {0, 1} /\ nCcalls[t] \in Nat
    BY DEF ThreadsInv, ThreadTypes
  <2>2. Top(t) \in 0 .. 2
    <3>1. frames[t] # <<>> => Last(frames[t]).top \in {0, 1}
      BY <2>1, LastFrame DEF Frames
    <3> QED
      BY <2>1, <3>1 DEF Top
  <2> QED
    BY <2>1, <2>2 DEF ThreadOk, ThreadInstance
<1> QED
  BY <1>1, <1>2, <1>3 DEF TypeOK

LEMMA InvIsRight ==
  ASSUME ThreadInstance, ThreadsInv
  PROVE  ThreadsAreRight
<1> SUFFICES ASSUME chain # <<>> PROVE ThreadsAreRight
  BY DEF ThreadsAreRight
<1>1. \A t \in Threads : ThreadOk(t) /\ frames[t] \in Seq(Frames) /\ truth[t] \in Fates /\ Len(frames[t]) \in Nat
  BY DEF ThreadsInv, ThreadTypes
<1>2. ASSUME NEW co \in Coroutines, truth[co] # "none" PROVE CoStatus(co) = truth[co]
  <2>1. co \in Threads
    BY DEF Threads
  <2>2. truth[co] = "running" <=> co = L
    BY <2>1 DEF ThreadsInv, ChainOk
  <2>3. CASE truth[co] = "running"
    BY <2>2, <2>3 DEF CoStatus
  <2>4. CASE truth[co] = "suspended"
    BY <1>1, <2>1, <2>2, <2>4 DEF CoStatus, ThreadOk, Fresh, Yielded, Top
  <2>5. CASE truth[co] = "normal"
    BY <1>1, <2>1, <2>2, <2>5 DEF CoStatus, ThreadOk
  <2>6. CASE truth[co] = "dead"
    BY <1>1, <2>1, <2>2, <2>6 DEF CoStatus, ThreadOk, Finished, Top
  <2> QED
    BY <1>1, <1>2, <2>1, <2>3, <2>4, <2>5, <2>6 DEF Fates
<1>3. ASSUME NEW i \in 1 .. Len(chain) - 1 PROVE Last(frames[chain[i]]).fn \in {"resume", "wrap"}
  <2>1. chain[i] \in Threads
    BY ElementOfSeq DEF ThreadsInv, ThreadTypes
  <2>2. truth[chain[i]] = "normal"
    BY <2>1 DEF ThreadsInv, ChainOk
  <2> QED
    BY <1>1, <2>1, <2>2 DEF ThreadOk, Resumes
<1>4. ASSUME NEW t \in Threads, truth[t] \in {"running", "normal", "suspended"}
      PROVE  nCcalls[t] = Cardinality({i \in DOMAIN frames[t] : frames[t][i].fn \in {"pcall", "sort"}})
  <2>1. DOMAIN frames[t] = 1 .. Len(frames[t])
    BY <1>1
  <2>2. nCcalls[t] = CCalls(frames[t])
    BY <1>1, <1>4 DEF ThreadOk
  <2> QED
    BY <2>1, <2>2 DEF CCalls, Under, CFunctions
<1>5. ASSUME NEW co \in Coroutines, truth[co] = "suspended" PROVE nCcalls[co] = 0
  BY <1>1, <1>5 DEF ThreadOk, Threads
<1>6. ASSUME NEW t \in Threads, NEW i \in DOMAIN frames[t], frames[t][i].fn = "yield"
      PROVE  i = Len(frames[t]) /\ truth[t] = "suspended"
  <2> DEFINE s == frames[t]
  <2>1. s \in Seq(Frames) /\ Len(s) \in Nat /\ i \in 1 .. Len(s) /\ s # <<>> /\ ThreadOk(t)
    BY <1>1, <1>6
  <2>2. s[i].fn \notin Inner /\ s[i].fn \notin Resumes
    BY <1>6 DEF Inner, CFunctions, Resumes
  <2>3. i = Len(s)
    <3>1. i \in 1 .. Len(s) - 1 => s[i].fn \in Inner
      BY <2>1 DEF ThreadOk, Nested
    <3> QED
      BY <2>1, <2>2, <3>1
  <2>4. Last(s).fn \notin Inner /\ Last(s).fn \notin Resumes
    BY <2>1, <2>2, <2>3, LastFrame
  <2>5. truth[t] = "suspended"
    BY <1>1, <2>1, <2>4 DEF ThreadOk, Finished, Inner, Fates
  <2> QED
    BY <2>3, <2>5
<1> QED
  BY <1>2, <1>3, <1>4, <1>5, <1>6 DEF ThreadsAreRight

\* Every step keeps the invariant.
LEMMA StepOk ==
  ASSUME ThreadInstance, ThreadsInv, [Next]_lthVars
  PROVE  ThreadsInv'
<1>1. CASE Call
  BY <1>1, CallOk
<1>2. CASE Return
  BY <1>2, ReturnOk
<1>3. CASE Yield
  BY <1>3, YieldOk
<1>4. CASE Raise
  BY <1>4, RaiseOk DEF Raise, Runs
<1>5. CASE Catch
  BY <1>5, CatchOk
<1>6. ASSUME NEW fn \in {"pcall", "sort"}, CallBack(fn) PROVE ThreadsInv'
  BY <1>6, CallBackOk DEF CFunctions
<1>7. ASSUME NEW co \in Coroutines, Create(co) PROVE ThreadsInv'
  BY <1>7, CreateOk
<1>8. ASSUME NEW co \in Coroutines, NEW fn \in {"resume", "wrap"}, NEW narg \in {0, 1},
             Resume(co, fn, narg)
      PROVE  ThreadsInv'
  BY <1>8, ResumeOk DEF Resumes
<1>9. ASSUME NEW co \in Coroutines, NEW fn \in {"resume", "wrap"}, NEW narg \in {0, 1},
             Refuse(co, fn, narg)
      PROVE  ThreadsInv'
  BY <1>9, RefuseOk DEF Resumes
<1>10. CASE UNCHANGED lthVars
  <2> USE <1>10 DEF lthVars
  <2>1. ThreadTypes' /\ ChainOk' /\ (chain' = <<>> => ~ throwing')
    BY DEF ThreadsInv, ThreadTypes, ChainOk, L
  <2>2. \A t \in Threads : ThreadOk(t)'
    BY DEF ThreadsInv, ThreadOk, Fresh, Yielded, Finished
  <2> QED
    BY <2>1, <2>2 DEF ThreadsInv
<1> QED
  BY <1>1, <1>2, <1>3, <1>4, <1>5, <1>6, <1>7, <1>8, <1>9, <1>10 DEF Next

\* misc/luabash/lua/ldo.c, lbaselib.c: the stacks of the threads stay as they
\* are meant to be, for any number of coroutines.
THEOREM ThreadTypeCorrect == ThreadInstance => (Spec => []TypeOK)
<1> SUFFICES ASSUME ThreadInstance PROVE Spec => []TypeOK
  OBVIOUS
<1>1. Init => ThreadsInv
  BY InitOk
<1>2. ThreadsInv /\ [Next]_lthVars => ThreadsInv'
  BY StepOk
<1>3. ThreadsInv => TypeOK
  BY InvTypes
<1> QED
  BY <1>1, <1>2, <1>3, PTL DEF Spec

\* ldo.c:383-478, lbaselib.c:480-585: whatever the order of errors, refused
\* resumes and yields, coroutine.status tells what became of a coroutine, a
\* thread that waits does so in a resume of its own, nCcalls counts the calls
\* from C of its thread, and a call that has yielded is the last of a thread
\* that is suspended.
THEOREM ThreadsAreKept == ThreadInstance => (Spec => []ThreadsAreRight)
<1> SUFFICES ASSUME ThreadInstance PROVE Spec => []ThreadsAreRight
  OBVIOUS
<1>1. Init => ThreadsInv
  BY InitOk
<1>2. ThreadsInv /\ [Next]_lthVars => ThreadsInv'
  BY StepOk
<1>3. ThreadsInv => ThreadsAreRight
  BY InvIsRight
<1> QED
  BY <1>1, <1>2, <1>3, PTL DEF Spec
=============================================================================
