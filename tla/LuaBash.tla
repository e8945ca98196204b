------------------------------ MODULE LuaBash ------------------------------
(***************************************************************************)
(* luabash (misc/luabash/bash/luabash.c), the builtin by which the shell   *)
(* scripts call Lua functions and these call bash functions, nested as     *)
(* they like, on the stack of Lua (ldo.c).  luabash pushes without asking  *)
(* for room and never pops: what a call returned, or the message of its    *)
(* error, stays where it is.  Modelled is where values go on the stack,    *)
(* not what they are.  A push behind the allocated stack writes to memory  *)
(* that is not its own: what comes then is undefined and not modelled.     *)
(***************************************************************************)
EXTENDS Integers, Sequences, SequencesExt, FiniteSetsExt

CONSTANTS
  LUA_MINSTACK,    \* room that a C function gets
  EXTRA_STACK,     \* slots that are kept free behind the stack
  BASIC_STACK_SIZE,
  LUAI_MAXCCALLS,  \* limit of nested calls from C
  FrameSizes,      \* registers of the Lua functions that are called
  ArgCounts,       \* words behind the name of the function
  MessageParts,    \* values that an error pushes to make its message
  MaxLeft          \* bound on the values left on the stack of one C function

VARIABLES
  supported,    \* is BASH_VERSION a known one?
  initialized,
  nest,         \* [is, func, ctop, ccalls, wanted]: bash or lua in turn
  ltop,         \* L->top: slots in use
  stacksize,
  ncalls,
  pushed        \* words pushed for a call that has not begun, or -1

lbVars == <<supported, initialized, nest, ltop, stacksize, ncalls, pushed>>

(* luaD_checkstack at t: the stack, grown if n slots are not there. *)
StackLast(size) == size - EXTRA_STACK - 1
Checked(size, t, n) ==
  IF StackLast(size) - t > n THEN size
  ELSE (IF n <= size THEN 2 * size ELSE size + n) + 1 + EXTRA_STACK
Message(size, t) == Checked(size, t + MessageParts - 1, 1)

Cur == Last(nest)
CallRecord(is, func, ctop, wanted) ==
  [is |-> is, func |-> func, ctop |-> ctop, ccalls |-> ncalls, wanted |-> wanted]
InBash == Cur.is = "bash" /\ pushed = -1
Calls == InBash /\ initialized /\ ltop < Cur.ctop - LUA_MINSTACK + MaxLeft
InLua == Cur.is = "lua"
Overrun == ltop > stacksize

(* stack_init: slot 0 is the function of the outermost C code. *)
Init ==
  /\ supported \in BOOLEAN /\ initialized = FALSE
  /\ nest = <<[is |-> "bash", func |-> 0, ctop |-> 1 + LUA_MINSTACK, ccalls |-> 0, wanted |-> 0]>>
  /\ ltop = 1 /\ stacksize = BASIC_STACK_SIZE + EXTRA_STACK
  /\ ncalls = 0 /\ pushed = -1

(* luabash init, and the first luabash load. *)
InitLuabash ==
  /\ InBash /\ ~initialized /\ supported
  /\ initialized' = TRUE
  /\ UNCHANGED <<supported, nest, ltop, stacksize, ncalls, pushed>>

(* luabash call: the function and its arguments, without a lua_checkstack. *)
PushCall(argc) ==
  /\ Calls
  /\ ltop' = ltop + 1 + argc /\ pushed' = argc
  /\ UNCHANGED <<supported, initialized, nest, stacksize, ncalls>>
(* lua_pcall of it, which reaches the function or fails before. *)
Enter(m) ==
  /\ pushed >= 0 /\ ~ Overrun /\ ncalls + 1 < LUAI_MAXCCALLS
  /\ LET func == ltop - 1 - pushed IN
     /\ stacksize' = Checked(stacksize, ltop, m)
     /\ ltop' = func + 1 + m
     /\ nest' = Append(nest, CallRecord("lua", func, ltop', 1))
  /\ ncalls' = ncalls + 1 /\ pushed' = -1
  /\ UNCHANGED <<supported, initialized>>
(* The global is not a function, or too many calls are nested. *)
EnterFails ==
  /\ pushed >= 0 /\ ~ Overrun
  /\ stacksize' = Message(stacksize, ltop)
  /\ ltop' = ltop - pushed /\ pushed' = -1
  /\ UNCHANGED <<supported, initialized, nest, ncalls>>

(* luabash load: a chunk is called without arguments or results. *)
Load(m) ==
  /\ Calls /\ ncalls + 1 < LUAI_MAXCCALLS
  /\ stacksize' = Checked(Checked(stacksize, ltop, 1), ltop + 1, m)
  /\ ltop' = ltop + 1 + m
  /\ nest' = Append(nest, CallRecord("lua", ltop, ltop', 0))
  /\ ncalls' = ncalls + 1
  /\ UNCHANGED <<supported, initialized, pushed>>
LoadFails ==
  /\ Calls
  /\ stacksize' = Message(stacksize, ltop) /\ ltop' = ltop + 1
  /\ UNCHANGED <<supported, initialized, nest, ncalls, pushed>>

(* bash.call in a Lua function: its words are the topmost registers. *)
CallBash(words) ==
  /\ InLua /\ Cur.func + 1 + words < Cur.ctop
  /\ stacksize' = Checked(stacksize, ltop, LUA_MINSTACK)
  /\ nest' = Append(nest, CallRecord("bash", ltop - 1 - words, ltop + LUA_MINSTACK, 1))
  /\ UNCHANGED <<supported, initialized, ltop, ncalls, pushed>>
(* execute_command is back: the status is pushed and goes to the Lua function. *)
BashReturns ==
  /\ InBash /\ Len(nest) > 1
  /\ nest' = Front(nest) /\ ltop' = Last(nest').ctop
  /\ UNCHANGED <<supported, initialized, stacksize, ncalls, pushed>>

LuaReturns ==
  /\ InLua
  /\ nest' = Front(nest) /\ ltop' = Cur.func + Cur.wanted /\ ncalls' = ncalls - 1
  /\ UNCHANGED <<supported, initialized, stacksize, pushed>>

CcallsBefore == Cur.ccalls
(* An error ends the innermost luabash call, which leaves its message. *)
LuaRaises ==
  /\ InLua
  /\ stacksize' = Message(stacksize, ltop)
  /\ nest' = Front(nest) /\ ltop' = Cur.func + 1 /\ ncalls' = CcallsBefore
  /\ UNCHANGED <<supported, initialized, pushed>>

(* A collection: a stack that is mostly unused is halved. *)
Used == Max({ltop} \cup {nest[c].ctop : c \in DOMAIN nest})
Collect ==
  /\ initialized /\ ~ Overrun /\ 4 * Used < stacksize /\ 2 * (BASIC_STACK_SIZE + EXTRA_STACK) < stacksize
  /\ stacksize' = stacksize \div 2 + 1 + EXTRA_STACK
  /\ UNCHANGED <<supported, initialized, nest, ltop, ncalls, pushed>>

Next ==
  \/ InitLuabash \/ EnterFails \/ LoadFails \/ BashReturns \/ LuaReturns \/ LuaRaises \/ Collect
  \/ \E argc \in ArgCounts : PushCall(argc) \/ CallBash(argc)
  \/ \E m \in FrameSizes : Enter(m) \/ Load(m)
Spec == Init /\ [][Next]_lbVars

--------------------------------------------------------------------------
TypeOK ==
  /\ pushed \in {-1} \cup ArgCounts
  /\ \A c \in DOMAIN nest : nest[c].is = IF c % 2 = 1 THEN "bash" ELSE "lua"

(* The room that Lua grants a C function, and what it keeps free behind it. *)
Granted == LUA_MINSTACK + EXTRA_STACK + 1
Base == Cur.ctop - LUA_MINSTACK

(* Through nested calls, errors and collections: luabash pushes behind the    *)
(* stack that is allocated (luabash.c:452-461) only in a call whose words,    *)
(* with what earlier calls of the same script or function have left, are more *)
(* than the room that Lua grants a C function, as no lua_checkstack asks for  *)
(* more; until then there is room for the status of a bash function, a called *)
(* function has all its registers (lua_assert, ldo.c:298) and begins above    *)
(* the values of its caller, and the calls from C are counted as they are     *)
(* nested.                                                                    *)
StackHolds ==
  IF Overrun THEN ltop - Base > Granted
  ELSE
    /\ InBash => ltop < stacksize
    /\ \A c \in DOMAIN nest :
         /\ nest[c].ctop <= StackLast(stacksize)
         /\ c > 1 /\ nest[c].is = "lua" => nest[c].func >= nest[c - 1].ctop - LUA_MINSTACK
    /\ ncalls = Len(SelectSeq(nest, LAMBDA c : c.is = "lua"))
=============================================================================
