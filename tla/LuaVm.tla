------------------------------- MODULE LuaVm -------------------------------
(***************************************************************************)
(* The interpreter of Lua (luaV_execute in misc/luabash/lua/lvm.c), with   *)
(* calls (ldo.c) and upvalues (lfunc.c), on the code that the parser made  *)
(* of a chunk: one instruction a step.  Metatables, coroutines, hooks and  *)
(* C functions are left out.  What the chunk returns is what it means      *)
(* (LuaMeaning).                                                           *)
(***************************************************************************)
EXTENDS LuaParser, LuaMeaning, TLC

CONSTANTS
  Chunks,    \* the chunks, as syntax trees
  StackSize

VARIABLES
  chunk,
  main,      \* the function generated for it, with those in it
  ci,        \* the calls: [cl, base, pc, nresults], base counted from 1
  vstack,
  top,       \* behind the last value of an open call, else of the frame
  closures,  \* sequence of [p, upvals], with p the place of the code in main
  upvals,    \* sequence of [open, reg, v]
  tables,    \* sequence of functions from keys
  globals,   \* function from constants
  outcome,   \* "running", "returned", "error", or "invalid" if its code is
  results

vmVars == <<chunk, main, ci, vstack, top, closures, upvals, tables, globals, outcome, results>>

Cur == Last(ci)
Proto(c) == FoldLeft(LAMBDA f, j : f.p[j], main, closures[c].p)
P == Proto(Cur.cl)
I == P.code[Cur.pc + 1]
Reg(r) == vstack[Cur.base + r]
RKValue(o) == IF o >= BITRK THEN P.k[o - BITRK + 1] ELSE Reg(o)
FrameTop(c) == c.base + Proto(c.cl).maxstacksize

Init ==
  /\ chunk \in Chunks /\ outcome = "source"
  /\ main = Open(<<>>, <<>>)
  /\ ci = <<>> /\ vstack = [r \in 1..StackSize |-> Nil] /\ top = 2
  /\ closures = <<>> /\ upvals = <<>> /\ tables = <<>> /\ globals = [c \in {} |-> Nil] /\ results = <<>>

(* luaY_parser, and the call of the function.  Invalid code is not run: the     *)
(* generator's assertion stops it, and without assertions it would read         *)
(* registers that do not exist.                                                 *)
Parse ==
  /\ outcome = "source"
  /\ main' = Parser(chunk)
  /\ outcome' = IF main'.ok THEN "running" ELSE "invalid"
  /\ ci' = <<[cl |-> 1, base |-> 2, pc |-> 0, nresults |-> MULTRET]>>
  /\ top' = 2 + main'.maxstacksize
  /\ closures' = <<[p |-> <<>>, upvals |-> <<>>]>>
  /\ UNCHANGED <<chunk, vstack, upvals, tables, globals, results>>

(* luaV_execute: the next instruction, of one of the kinds ops. *)
Does(ops) == outcome = "running" /\ I.op \in ops
Goto(pc) == ci' = [ci EXCEPT ![Len(ci)].pc = pc]
Advance == Goto(Cur.pc + 1)
SetReg(r, v) == vstack' = [vstack EXCEPT ![Cur.base + r] = v]
Fail == outcome' = "error" /\ UNCHANGED <<ci, vstack, top, closures, upvals, tables, globals, results>>
Same == UNCHANGED <<chunk, main>>

UpvalueOf(b) == closures[Cur.cl].upvals[b + 1]
UpvalueValue(u) == IF upvals[u].open THEN vstack[upvals[u].reg] ELSE upvals[u].v
Load ==
  /\ Does({"MOVE", "LOADK", "GETUPVAL", "GETGLOBAL"}) /\ Same
  /\ SetReg(I.a, CASE I.op = "MOVE" -> Reg(I.b)
                   [] I.op = "LOADK" -> P.k[I.b + 1]
                   [] I.op = "GETUPVAL" -> UpvalueValue(UpvalueOf(I.b))
                   [] I.op = "GETGLOBAL" -> IF P.k[I.b + 1] \in DOMAIN globals THEN globals[P.k[I.b + 1]] ELSE Nil)
  /\ Advance /\ UNCHANGED <<top, closures, upvals, tables, globals, outcome, results>>
LoadBool ==
  /\ Does({"LOADBOOL"}) /\ Same
  /\ SetReg(I.a, Bool(I.b = 1)) /\ Goto(Cur.pc + 1 + I.c)
  /\ UNCHANGED <<top, closures, upvals, tables, globals, outcome, results>>
LoadNils ==
  /\ Does({"LOADNIL"}) /\ Same
  /\ vstack' = [r \in DOMAIN vstack |-> IF r - Cur.base \in I.a..I.b THEN Nil ELSE vstack[r]]
  /\ Advance /\ UNCHANGED <<top, closures, upvals, tables, globals, outcome, results>>
Store ==
  /\ Does({"SETUPVAL", "SETGLOBAL"}) /\ Same
  /\ IF I.op = "SETGLOBAL"
     THEN globals' = (P.k[I.b + 1] :> Reg(I.a)) @@ globals /\ UNCHANGED <<vstack, upvals>>
     ELSE IF upvals[UpvalueOf(I.b)].open
     THEN vstack' = [vstack EXCEPT ![upvals[UpvalueOf(I.b)].reg] = Reg(I.a)] /\ UNCHANGED <<globals, upvals>>
     ELSE upvals' = [upvals EXCEPT ![UpvalueOf(I.b)].v = Reg(I.a)] /\ UNCHANGED <<globals, vstack>>
  /\ Advance /\ UNCHANGED <<top, closures, tables, outcome, results>>

NewTable ==
  /\ Does({"NEWTABLE"}) /\ Same
  /\ tables' = Append(tables, [key \in {} |-> Nil])
  /\ SetReg(I.a, Value("table", <<Len(tables'), 0>>))
  /\ Advance /\ UNCHANGED <<top, closures, upvals, globals, outcome, results>>
GetTable ==
  /\ Does({"GETTABLE"}) /\ Same
  /\ IF Type(Reg(I.b)) = "table"
     THEN /\ SetReg(I.a, In(tables, Reg(I.b), RKValue(I.c))) /\ Advance
          /\ UNCHANGED <<top, closures, upvals, tables, globals, outcome, results>>
     ELSE Fail
SetTable ==
  /\ Does({"SETTABLE"}) /\ Same
  /\ IF Type(Reg(I.a)) = "table" /\ RKValue(I.b) # Nil
     THEN /\ tables' = Put(tables, Reg(I.a), RKValue(I.b), RKValue(I.c)) /\ Advance
          /\ UNCHANGED <<vstack, top, closures, upvals, globals, outcome, results>>
     ELSE Fail
SetItems ==
  /\ Does({"SETLIST"}) /\ Same
  /\ LET n == IF I.b = 0 THEN top - (Cur.base + I.a) - 1 ELSE I.b
         first == (I.c - 1) * LFIELDS_PER_FLUSH
     IN tables' = FoldLeft(LAMBDA t, j : Put(t, Reg(I.a), Num(first + j), Reg(I.a + j)), tables,
                           [j \in 1..n |-> j])
  /\ top' = FrameTop(Cur)
  /\ Advance /\ UNCHANGED <<vstack, closures, upvals, globals, outcome, results>>

(* An operation on values, or an error. *)
Operands == IF I.op \in {"UNM", "NOT", "LEN"} THEN <<Reg(I.b)>> ELSE <<RKValue(I.b), RKValue(I.c)>>
OpName ==
  CASE I.op = "ADD" -> "+" [] I.op = "MUL" -> "*" [] I.op = "UNM" -> "-" [] I.op = "NOT" -> "not"
    [] I.op = "LEN" -> "#"
    [] I.op = "EQ" -> "==" [] I.op = "LT" -> "<" [] I.op = "LE" -> "<="
Operate ==
  /\ Does({"ADD", "MUL", "UNM", "NOT", "LEN"}) /\ Same
  /\ IF Defined(OpName, Operands)
     THEN /\ SetReg(I.a, ResultOf(OpName, Operands, tables)) /\ Advance
          /\ UNCHANGED <<top, closures, upvals, tables, globals, outcome, results>>
     ELSE Fail
Concat ==
  /\ Does({"CONCAT"}) /\ Same
  /\ LET vs == [j \in 1..(I.c - I.b + 1) |-> Reg(I.b + j - 1)] IN
     IF Defined("..", vs)
     THEN /\ SetReg(I.a, ResultOf("..", vs, tables)) /\ Advance
          /\ UNCHANGED <<top, closures, upvals, tables, globals, outcome, results>>
     ELSE Fail

JumpBy(pc) == Goto(pc + 1 + P.code[pc + 1].b)
DoJump ==
  /\ Does({"JMP"}) /\ Same /\ JumpBy(Cur.pc)
  /\ UNCHANGED <<vstack, top, closures, upvals, tables, globals, outcome, results>>
Compare ==
  /\ Does({"EQ", "LT", "LE"}) /\ Same
  /\ IF Defined(OpName, Operands)
     THEN /\ IF ResultOf(OpName, Operands, tables) = Bool(I.a = 1) THEN JumpBy(Cur.pc + 1) ELSE Goto(Cur.pc + 2)
          /\ UNCHANGED <<vstack, top, closures, upvals, tables, globals, outcome, results>>
     ELSE Fail
Test ==
  /\ Does({"TEST", "TESTSET"}) /\ Same
  /\ LET v == IF I.op = "TEST" THEN Reg(I.a) ELSE Reg(I.b)
         jumps == IsFalse(v) # (I.c = 1)
     IN /\ IF jumps THEN JumpBy(Cur.pc + 1) ELSE Goto(Cur.pc + 2)
        /\ IF jumps /\ I.op = "TESTSET" THEN SetReg(I.a, v) ELSE UNCHANGED vstack
  /\ UNCHANGED <<top, closures, upvals, tables, globals, outcome, results>>

ForPrep ==
  /\ Does({"FORPREP"}) /\ Same
  /\ IF \A j \in 0..2 : Type(Reg(I.a + j)) = "number"
     THEN /\ SetReg(I.a, Num(NumOf(Reg(I.a)) - NumOf(Reg(I.a + 2)))) /\ JumpBy(Cur.pc)
          /\ UNCHANGED <<top, closures, upvals, tables, globals, outcome, results>>
     ELSE Fail
ForLoop ==
  /\ Does({"FORLOOP"}) /\ Same
  /\ LET step == NumOf(Reg(I.a + 2))
         idx == NumOf(Reg(I.a)) + step
         limit == NumOf(Reg(I.a + 1))
     IN IF IF step > 0 THEN idx <= limit ELSE limit <= idx
        THEN /\ vstack' = [vstack EXCEPT ![Cur.base + I.a] = Num(idx), ![Cur.base + I.a + 3] = Num(idx)]
             /\ JumpBy(Cur.pc)
        ELSE Advance /\ UNCHANGED vstack
  /\ UNCHANGED <<top, closures, upvals, tables, globals, outcome, results>>

--------------------------------------------------------------------------
(* Functions. *)

(* luaF_close: the variables from level on leave the stack. *)
CloseFrom(ups, level) ==
  [u \in DOMAIN ups |->
     IF ups[u].open /\ ups[u].reg >= level THEN [open |-> FALSE, reg |-> 0, v |-> vstack[ups[u].reg]]
     ELSE ups[u]]
Close ==
  /\ Does({"CLOSE"}) /\ Same
  /\ upvals' = CloseFrom(upvals, Cur.base + I.a)
  /\ Advance /\ UNCHANGED <<vstack, top, closures, tables, globals, outcome, results>>

(* luaF_findupval: one for each variable, however many functions use it. *)
FindUpval(ups, reg) ==
  LET found == {u \in DOMAIN ups : ups[u].open /\ ups[u].reg = reg}
  IN IF found # {} THEN [ups |-> ups, u |-> Min(found)]
     ELSE [ups |-> Append(ups, [open |-> TRUE, reg |-> reg, v |-> Nil]), u |-> Len(ups) + 1]
MakeClosure ==
  /\ Does({"CLOSURE"}) /\ Same
  /\ LET p == P.p[I.b + 1]
         Capture(c, j) ==
           LET i == P.code[Cur.pc + 1 + j]
               found == FindUpval(c.ups, Cur.base + i.b)
           IN IF i.op = "GETUPVAL" THEN [c EXCEPT !.of = Append(@, UpvalueOf(i.b))]
              ELSE [ups |-> found.ups, of |-> Append(c.of, found.u)]
         c == FoldLeft(Capture, [ups |-> upvals, of |-> <<>>], [j \in 1..p.nups |-> j])
     IN /\ upvals' = c.ups
        /\ closures' = Append(closures, [p |-> Append(closures[Cur.cl].p, I.b + 1), upvals |-> c.of])
        /\ SetReg(I.a, Value("function", <<Len(closures')>>))
        /\ Goto(Cur.pc + 1 + p.nups)
  /\ UNCHANGED <<top, tables, globals, outcome, results>>

(* luaD_precall: missing arguments are nil, as are the other registers. *)
ArgTop(func, f) == Min({IF I.b # 0 THEN func + I.b ELSE top, func + 1 + Proto(f).numparams})
Enter(func, f, st) ==
  [r \in DOMAIN st |->
     IF r \in ArgTop(func, f)..(func + Proto(f).maxstacksize) THEN Nil ELSE st[r]]
Frame(f, base, n) == [cl |-> f, base |-> base, pc |-> 0, nresults |-> n]
Call ==
  /\ Does({"CALL"}) /\ Same
  /\ LET func == Cur.base + I.a
         f == vstack[func][2][1]
     IN IF Type(vstack[func]) = "function"
        THEN /\ ci' = Append([ci EXCEPT ![Len(ci)].pc = @ + 1], Frame(f, func + 1, I.c - 1))
             /\ vstack' = Enter(func, f, vstack)
             /\ top' = FrameTop(Last(ci'))
             /\ UNCHANGED <<closures, upvals, tables, globals, outcome, results>>
        ELSE Fail
(* The new frame takes the place of the one that calls. *)
TailCall ==
  /\ Does({"TAILCALL"}) /\ Same
  /\ LET func == Cur.base + I.a
         f == vstack[func][2][1]
         new == Enter(func, f, vstack)
         to == Cur.base - 1
     IN IF Type(vstack[func]) = "function"
        THEN /\ upvals' = CloseFrom(upvals, Cur.base)
             /\ ci' = [ci EXCEPT ![Len(ci)] = Frame(f, Cur.base, @.nresults)]
             /\ vstack' = [r \in DOMAIN vstack |->
                            IF r \in to..(to + Proto(f).maxstacksize) THEN new[r - to + func] ELSE new[r]]
             /\ top' = FrameTop(Last(ci'))
             /\ UNCHANGED <<closures, tables, globals, outcome, results>>
        ELSE Fail
(* luaD_poscall: as many results as the caller wants, nil for those missing. *)
DoReturn ==
  /\ Does({"RETURN"}) /\ Same
  /\ LET first == Cur.base + I.a
         n == IF I.b # 0 THEN I.b - 1 ELSE top - first
         wanted == IF Cur.nresults = MULTRET THEN n ELSE Cur.nresults
         res == Cur.base - 1
         values == [j \in 1..wanted |-> IF j <= n THEN vstack[first + j - 1] ELSE Nil]
     IN /\ upvals' = CloseFrom(upvals, Cur.base)
        /\ IF Len(ci) = 1
           THEN outcome' = "returned" /\ results' = values /\ UNCHANGED <<ci, vstack, top>>
           ELSE /\ ci' = Front(ci)
                /\ vstack' = [r \in DOMAIN vstack |->
                               IF r \in res..(res + wanted - 1) THEN values[r - res + 1] ELSE vstack[r]]
                /\ top' = IF Cur.nresults = MULTRET THEN res + n ELSE FrameTop(Last(ci'))
                /\ UNCHANGED <<outcome, results>>
  /\ UNCHANGED <<closures, tables, globals>>

Next ==
  \/ Parse \/ Load \/ LoadBool \/ LoadNils \/ Store
  \/ NewTable \/ GetTable \/ SetTable \/ SetItems
  \/ Operate \/ Concat \/ DoJump \/ Compare \/ Test \/ ForPrep \/ ForLoop
  \/ Close \/ MakeClosure \/ Call \/ TailCall \/ DoReturn
Spec == Init /\ [][Next]_vmVars

--------------------------------------------------------------------------
TypeOK ==
  /\ outcome \in {"source", "running", "returned", "error", "invalid"}
  /\ outcome = "running" => \A i \in DOMAIN ci : ci[i].pc \in 0..(Len(Proto(ci[i].cl).code) - 1)
  /\ \A u \in DOMAIN upvals : upvals[u].open => upvals[u].reg \in 2..(top - 1)

(* A chunk returns what it means, or fails where it has no meaning             *)
(* (lparser.c:1328, lvm.c:373), and the code it is made of is valid, as the    *)
(* assertions of the generator say (lparser.c:374): whatever the constants     *)
(* that become operands, the jumps that are joined or turned, and the          *)
(* registers that are shared.  Two families of chunks break this, and only     *)
(* they may: the code of a minus before nil, true or false has that constant   *)
(* for a register (lcode.c:701); and where a jump that is always taken has     *)
(* taken along one that holds a value (lcode.c:59-66), the value may become    *)
(* that of the expression, instead of the constant.                            *)
ChunkIsRight ==
  /\ main.ok \/ main.negated
  /\ outcome \in {"returned", "error"} /\ ~main.misled =>
       [how |-> outcome, values |-> results] = Meaning(chunk)
=============================================================================
