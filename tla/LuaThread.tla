----------------------------- MODULE LuaThread -----------------------------
(***************************************************************************)
(* misc/luabash/lua: ldo.c, lbaselib.c (pcall, error, coroutines).  Each   *)
(* thread has its own stack of calls; a coroutine runs inside the resume   *)
(* of another thread.  An error unwinds to the innermost pcall of its      *)
(* thread, or ends the coroutine and is the answer of the resume.  What a  *)
(* thread may do depends on its status, on its calls and on the number of  *)
(* values of its topmost call (lua_gettop), which are kept separately.     *)
(***************************************************************************)
EXTENDS Integers, Sequences, SequencesExt, FiniteSets

CONSTANTS
  Coroutines,      \* coroutines that the program may create
  MaxFrames,       \* bound on the calls of a thread
  LUAI_MAXCCALLS,  \* limit of nested calls from C, each thread's own
  MaxSteps         \* bound on the operations of the program

VARIABLES
  frames,   \* calls of each thread: function, lua_gettop, saved nCcalls
  bottom,   \* lua_gettop of a thread outside of all calls
  costatus, \* L->status: "ok" (0), "yield", "err"
  nCcalls,  \* calls that go through C
  chain,    \* threads that are running, each inside a resume of the one before
  throwing, \* an error is looking for its handler in the running thread
  steps,    \* history: operations so far
  truth     \* history: what became of each coroutine; the dead stay dead

lthVars == <<frames, bottom, costatus, nCcalls, chain, throwing, steps, truth>>

Main == "main"
Threads == Coroutines \cup {Main}
L == Last(chain)
Frame(fn, top, old) == [fn |-> fn, top |-> top, old |-> old]
LuaCall == Frame("lua", 0, 0)
Top(co) == IF frames[co] = <<>> THEN bottom[co] ELSE Last(frames[co]).top
Push(fs, t, f) == [fs EXCEPT ![t] = Append(@, f)]
Pop(fs, t) == [fs EXCEPT ![t] = Front(@)]

--------------------------------------------------------------------------
Runs == chain # <<>> /\ ~ throwing /\ steps < MaxSteps /\ steps' = steps + 1
Room(n) == Len(frames[L]) + n <= MaxFrames

(* A Lua function calls another: luaV_execute goes on with it. *)
Call ==
  /\ Runs /\ Room(1)
  /\ frames' = Push(frames, L, LuaCall)
  /\ UNCHANGED <<bottom, costatus, nCcalls, chain, throwing, truth>>

(* A C function calls a Lua function (luaD_call): pcall protects the call, *)
(* table.sort, a metamethod or an iterator does not.                       *)
CallBack(fn) ==
  /\ Runs /\ Room(2)
  /\ nCcalls' = [nCcalls EXCEPT ![L] = @ + 1]
  /\ throwing' = (nCcalls[L] + 1 >= LUAI_MAXCCALLS)
  /\ frames' = LET f == Push(frames, L, Frame(fn, 1, nCcalls[L]))
               IN IF throwing' THEN f ELSE Push(f, L, LuaCall)
  /\ UNCHANGED <<bottom, costatus, chain, truth>>

(* The topmost Lua function returns: to a Lua function, to the C function   *)
(* that called it and returns too, or to the resume of its coroutine, whose *)
(* results all go to the thread that waits for them.                        *)
Answered(fs) == IF Len(chain) = 1 THEN fs ELSE Pop(fs, chain[Len(chain) - 1])

Return ==
  /\ Runs
  /\ LET f == Pop(frames, L)[L] IN
     IF f = <<>> THEN
       /\ frames' = Answered([frames EXCEPT ![L] = <<>>])
       /\ bottom' = [bottom EXCEPT ![L] = 0]
       /\ chain' = Front(chain)
       /\ truth' = [truth EXCEPT ![L] = "dead", ![chain[Len(chain) - 1]] = "running"]
       /\ UNCHANGED nCcalls
     ELSE IF Last(f).fn = "lua" THEN
       frames' = [frames EXCEPT ![L] = f] /\ UNCHANGED <<bottom, chain, truth, nCcalls>>
     ELSE
       /\ frames' = [frames EXCEPT ![L] = Front(f)]
       /\ nCcalls' = [nCcalls EXCEPT ![L] = @ - 1]
       /\ chain' = IF L = Main /\ Len(f) = 1 THEN <<>> ELSE chain
       /\ UNCHANGED <<bottom, truth>>
  /\ UNCHANGED <<costatus, throwing>>

(* coroutine.create: the function is the one value of the new thread. *)
Create(co) ==
  /\ Runs /\ truth[co] = "none"
  /\ truth' = [truth EXCEPT ![co] = "suspended"] /\ bottom' = [bottom EXCEPT ![co] = 1]
  /\ UNCHANGED <<frames, costatus, nCcalls, chain, throwing>>

(* Variant: auxresume does not ask if there is a function to start. *)
StartsAnything(co, top) == costatus[co] = "yield" \/ (costatus[co] = "ok" /\ frames[co] = <<>>)

(* auxresume and lua_resume: can co go on?  top is its lua_gettop. *)
CanResume(co, top) ==
  /\ ~ (costatus[co] = "ok" /\ top = 0)
  /\ costatus[co] = "yield" \/ (costatus[co] = "ok" /\ frames[co] = <<>>)

(* coroutine.resume, or the function of coroutine.wrap; narg arguments move *)
(* to co.  While it runs, the caller has the coroutine on its stack, or     *)
(* nothing.                                                                 *)
Resume(co, fn, narg) ==
  LET self == co = L
      own == IF fn = "resume" THEN 1 ELSE 0
      top == IF self THEN own + narg ELSE Top(co)
  IN /\ Runs /\ truth[co] # "none" /\ CanResume(co, top) /\ Room(1)
     /\ costatus' = [costatus EXCEPT ![co] = "ok"]
     /\ frames' = [Push(frames, L, Frame(fn, own, 0)) EXCEPT
                     ![co] = IF costatus[co] = "yield" THEN Front(@) ELSE <<LuaCall>>]
     /\ bottom' = [bottom EXCEPT ![co] = 0]
     /\ chain' = Append(chain, co)
     /\ truth' = [truth EXCEPT ![L] = "normal", ![co] = IF @ = "suspended" THEN "running" ELSE @]
     /\ UNCHANGED <<nCcalls, throwing>>

(* The answer is false; wrap makes it an error of the caller.  resume_error  *)
(* empties the topmost call of co (and an argument that had moved there).    *)
Refuse(co, fn, narg) ==
  LET self == co = L
      top == IF self THEN (IF fn = "resume" THEN 1 ELSE 0) + narg ELSE Top(co)
      message == ~ (costatus[co] = "ok" /\ top = 0) /\ ~ self
  IN /\ Runs /\ truth[co] # "none" /\ ~ CanResume(co, top)
     /\ throwing' = (fn = "wrap")
     /\ frames' = IF message /\ frames[co] # <<>> THEN [frames EXCEPT ![co][Len(frames[co])].top = 0] ELSE frames
     /\ bottom' = IF message /\ frames[co] = <<>> THEN [bottom EXCEPT ![co] = 0] ELSE bottom
     /\ UNCHANGED <<costatus, nCcalls, chain, truth>>

(* lua_yield: not across a call from C; all values go to the resumer. *)
Yield ==
  /\ Runs /\ Room(1)
  /\ IF nCcalls[L] > 0 THEN throwing' = TRUE /\ UNCHANGED <<frames, costatus, chain, truth>>
     ELSE /\ costatus' = [costatus EXCEPT ![L] = "yield"]
          /\ frames' = Answered(Push(frames, L, Frame("yield", 0, 0)))
          /\ chain' = Front(chain)
          /\ truth' = [truth EXCEPT ![L] = "suspended", ![chain[Len(chain) - 1]] = "running"]
          /\ UNCHANGED throwing
  /\ UNCHANGED <<bottom, nCcalls>>

Raise ==
  /\ Runs /\ throwing' = TRUE
  /\ UNCHANGED <<frames, bottom, costatus, nCcalls, chain, truth>>

RestoredCcalls(n, old) == old

(* luaD_throw, with the handler of the running thread: the innermost pcall   *)
(* returns false and the thread is as it was; a coroutine without one is     *)
(* dead, its calls stay, and the error is what its resume returns.           *)
Catch ==
  /\ throwing
  /\ LET p == SelectLastInSeq(frames[L], LAMBDA f : f.fn = "pcall") IN
     IF p > 0 THEN
       /\ frames' = [frames EXCEPT ![L] = SubSeq(@, 1, p - 1)]
       /\ nCcalls' = [nCcalls EXCEPT ![L] = RestoredCcalls(@, frames[L][p].old)]
       /\ chain' = IF L = Main /\ p = 1 THEN <<>> ELSE chain
       /\ throwing' = FALSE
       /\ UNCHANGED <<costatus, truth>>
     ELSE
       LET by == chain[Len(chain) - 1] IN
       /\ costatus' = [costatus EXCEPT ![L] = "err"]
       /\ frames' = Pop(frames, by)
       /\ chain' = Front(chain)
       /\ throwing' = (Last(frames[by]).fn = "wrap")
       /\ truth' = [truth EXCEPT ![L] = "dead", ![by] = "running"]
       /\ UNCHANGED nCcalls
  /\ UNCHANGED <<bottom, steps>>

(* The main chunk runs in a pcall of the program that embeds Lua. *)
Init ==
  /\ frames = [t \in Threads |-> IF t = Main THEN <<Frame("pcall", 1, 0), LuaCall>> ELSE <<>>]
  /\ bottom = [t \in Threads |-> 0] /\ costatus = [t \in Threads |-> "ok"]
  /\ nCcalls = [t \in Threads |-> IF t = Main THEN 1 ELSE 0]
  /\ chain = <<Main>> /\ throwing = FALSE /\ steps = 0
  /\ truth = [t \in Threads |-> IF t = Main THEN "running" ELSE "none"]

Next ==
  \/ Call \/ Return \/ Yield \/ Raise \/ Catch
  \/ \E fn \in {"pcall", "sort"} : CallBack(fn)
  \/ \E co \in Coroutines : Create(co)
  \/ \E co \in Coroutines, fn \in {"resume", "wrap"}, narg \in {0, 1} :
       Resume(co, fn, narg) \/ Refuse(co, fn, narg)

Spec == Init /\ [][Next]_lthVars

--------------------------------------------------------------------------
(* luaB_costatus, as the running thread sees it. *)
CoStatus(co) ==
  IF co = L THEN "running"
  ELSE CASE costatus[co] = "yield" -> "suspended"
         [] costatus[co] = "err" -> "dead"
         [] OTHER -> IF frames[co] # <<>> THEN "normal" ELSE IF Top(co) = 0 THEN "dead" ELSE "suspended"

TypeOK ==
  /\ ToSet(chain) \subseteq Threads /\ IsInjective(chain)
  /\ \A t \in Threads : Len(frames[t]) <= MaxFrames /\ Top(t) \in 0..2 /\ nCcalls[t] \in 0..LUAI_MAXCCALLS

(* What threads promise (ldo.c:383-478, lbaselib.c:480-585), through errors, *)
(* refused resumes and yields in any order: coroutine.status tells what      *)
(* became of a coroutine; each one that is resumed or running waits in a     *)
(* resume of its own; a suspended one has no call from C in it, and nCcalls  *)
(* is the number of those calls, so that a yield is refused exactly where    *)
(* one is; and no yielded call is left among those of a running thread.      *)
ThreadsAreRight ==
  chain # <<>> =>
    /\ \A co \in Coroutines : truth[co] # "none" => CoStatus(co) = truth[co]
    /\ \A i \in 1..(Len(chain) - 1) : Last(frames[chain[i]]).fn \in {"resume", "wrap"}
    /\ \A t \in Threads : truth[t] \in {"running", "normal", "suspended"} =>
         nCcalls[t] = Cardinality({i \in DOMAIN frames[t] : frames[t][i].fn \in {"pcall", "sort"}})
    /\ \A co \in Coroutines : truth[co] = "suspended" => nCcalls[co] = 0
    /\ \A t \in Threads : \A i \in DOMAIN frames[t] :
         frames[t][i].fn = "yield" => i = Len(frames[t]) /\ truth[t] = "suspended"
==============================================================================
