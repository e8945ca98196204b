------------------------------ MODULE LuaCode ------------------------------
(***************************************************************************)
(* The code generator of Lua (misc/luabash/lua/lcode.c).  A state of it is *)
(* a record x: the function that is generated (FuncState), and in x.e the  *)
(* expression in hand (expdesc).  An expression is a constant, a variable, *)
(* a register, an instruction whose target is still open or a jump; beside *)
(* it wait the jumps that leave it when it is true (t) or false (f), as a  *)
(* list that runs through the offsets of the jumps themselves.             *)
(***************************************************************************)
EXTENDS Integers, Sequences, FiniteSetsExt, SequencesExt, TLC

CONSTANTS
  BITRK,       \* from here on an operand is the index of a constant
  MAXINDEXRK,  \* the last constant that can be an operand
  LFIELDS_PER_FLUSH

NO_JUMP == -1
NO_REG == BITRK - 1
TestOps == {"EQ", "LT", "LE", "TEST", "TESTSET"}

(* A value: nil, a boolean, a number, a string, a table or a function; s is  *)
(* its contents as a sequence.                                               *)
Value(type, s) == <<type, s>>
Nil == Value("nil", <<>>)
Bool(b) == Value("boolean", <<IF b THEN 1 ELSE 0>>)
Num(n) == Value("number", <<n>>)
IsFalse(v) == v \in {Nil, Bool(FALSE)}

Instr(op, a, b, c) == [op |-> op, a |-> a, b |-> b, c |-> c]
Exp(k, info) == [k |-> k, info |-> info, aux |-> 0, t |-> NO_JUMP, f |-> NO_JUMP, nval |-> 0]
SetE(x, e) == [x EXCEPT !.e = e]
With(x, k, info) == [x EXCEPT !.e.k = k, !.e.info = info]
HasJumps(e) == e.t # e.f
IsNumeral(e) == e.k = "KNUM" /\ e.t = NO_JUMP /\ e.f = NO_JUMP

PC(x) == Len(x.code)
At(x, pc) == x.code[pc + 1]
NumAct(x) == Len(x.act)
(* lua_assert *)
Asserted(x, b) == [x EXCEPT !.ok = @ /\ b]

--------------------------------------------------------------------------
(* Lists of jumps. *)

GetJump(x, pc) == IF At(x, pc).b = NO_JUMP THEN NO_JUMP ELSE pc + 1 + At(x, pc).b
RECURSIVE JumpList(_, _)
JumpList(x, list) == IF list = NO_JUMP THEN <<>> ELSE <<list>> \o JumpList(x, GetJump(x, list))

FixJump(x, pc, dest) == [x EXCEPT !.code[pc + 1].b = dest - (pc + 1)]
Link(x, l1, l2) ==
  IF l1 = NO_JUMP \/ l2 = NO_JUMP THEN x ELSE FixJump(x, Last(JumpList(x, l1)), l2)
FirstOf(l1, l2) == IF l1 = NO_JUMP THEN l2 ELSE l1
InT(x, list) == [Link(x, x.e.t, list) EXCEPT !.e.t = FirstOf(@, list)]
InF(x, list) == [Link(x, x.e.f, list) EXCEPT !.e.f = FirstOf(@, list)]

(* The test before a jump, if there is one. *)
Control(x, pc) == IF pc >= 1 /\ At(x, pc - 1).op \in TestOps THEN pc - 1 ELSE pc
HasValue(x, pc) == At(x, Control(x, pc)).op = "TESTSET"
NeedValue(x, list) == \E pc \in ToSet(JumpList(x, list)) : ~HasValue(x, pc)

PatchTestReg(x, pc, reg) ==
  LET i == Control(x, pc) IN
  IF ~HasValue(x, pc) THEN x
  ELSE IF reg # NO_REG /\ reg # At(x, i).b THEN [x EXCEPT !.code[i + 1].a = reg]
  ELSE [x EXCEPT !.code[i + 1] = Instr("TEST", @.b, 0, @.c)]
RemoveValues(x, list) == FoldLeft(LAMBDA y, pc : PatchTestReg(y, pc, NO_REG), x, JumpList(x, list))
PatchListAux(x, list, vtarget, reg, dtarget) ==
  FoldLeft(LAMBDA y, pc :
             FixJump(PatchTestReg(y, pc, reg), pc, IF HasValue(y, pc) THEN vtarget ELSE dtarget),
           x, JumpList(x, list))

Emit(x, i) ==
  LET y == PatchListAux(x, x.jpc, PC(x), NO_REG, PC(x))
  IN [y EXCEPT !.jpc = NO_JUMP, !.code = Append(@, i)]
GetLabel(x) == [x EXCEPT !.lasttarget = PC(x)]
PatchToHere(x, list) ==
  [Link(GetLabel(x), x.jpc, list) EXCEPT !.jpc = FirstOf(@, list)]
PatchList(x, list, target) ==
  IF target = PC(x) THEN PatchToHere(x, list)
  ELSE PatchListAux(x, list, target, NO_REG, target)

(* The new jump is at PC(x); it takes the jumps to it along. *)
Jump(x) == Link(Emit([x EXCEPT !.jpc = NO_JUMP], Instr("JMP", 0, NO_JUMP, 0)), PC(x), x.jpc)
CondJump(x, op, a, b, c) == Jump(Emit(x, Instr(op, a, b, c)))
(* The jump of a constant condition.  History: x.joined, the jumps it takes     *)
(* along, which may hold a value that is not its own; x.misled, that one of     *)
(* them still did when its expression went to a register.                       *)
Always(x) == Jump([x EXCEPT !.joined = @ \cup ToSet(JumpList(x, x.jpc))])

--------------------------------------------------------------------------
(* Registers and constants. *)

Reserve(x, n) == [x EXCEPT !.freereg = @ + n, !.maxstacksize = Max({@, x.freereg + n})]
FreeReg(x, reg) ==
  IF reg >= BITRK \/ reg < NumAct(x) THEN x
  ELSE Asserted([x EXCEPT !.freereg = @ - 1], reg = x.freereg - 1)
FreeExp(x, e) == IF e.k = "NONRELOC" THEN FreeReg(x, e.info) ELSE x
AddK(x, v) == IF v \in ToSet(x.k) THEN x ELSE [x EXCEPT !.k = Append(@, v)]
IndexK(x, v) == (CHOOSE i \in DOMAIN AddK(x, v).k : AddK(x, v).k[i] = v) - 1
EmitK(x, op, a, v) == Emit(AddK(x, v), Instr(op, a, IndexK(x, v), 0))

(* n registers become nil: those of a LOADNIL right before can join it. *)
LoadNil(x, from, n) ==
  LET clean == PC(x) > x.lasttarget /\ PC(x) = 0 /\ from >= NumAct(x)
      prev == At(x, PC(x) - 1)
      joins == /\ PC(x) > x.lasttarget /\ PC(x) > 0
               /\ IF PC(x) > 0 THEN prev.op = "LOADNIL" /\ from \in prev.a..(prev.b + 1) ELSE FALSE
  IN IF clean THEN x
     ELSE IF joins THEN [x EXCEPT !.code[PC(x)].b = Max({@, from + n - 1})]
     ELSE Emit(x, Instr("LOADNIL", from, from + n - 1, 0))

SetReturns(x, nresults) ==
  IF x.e.k = "CALL" THEN [x EXCEPT !.code[x.e.info + 1].c = nresults + 1] ELSE x

Relocable(x, i) == With(Emit(x, i), "RELOCABLE", PC(x))
DischargeVars(x) ==
  LET e == x.e IN
  CASE e.k = "LOCAL" -> With(x, "NONRELOC", e.info)
    [] e.k = "UPVAL" -> Relocable(x, Instr("GETUPVAL", 0, e.info, 0))
    [] e.k = "GLOBAL" -> Relocable(x, Instr("GETGLOBAL", 0, e.info, 0))
    [] e.k = "INDEXED" ->
         Relocable(FreeReg(FreeReg(x, e.aux), e.info), Instr("GETTABLE", 0, e.info, e.aux))
    [] e.k = "CALL" -> With(x, "NONRELOC", At(x, e.info).a)
    [] OTHER -> x

--------------------------------------------------------------------------
(* An expression into a register. *)

Loaded(x, reg) ==
  LET e == x.e IN
  CASE e.k = "NIL" -> LoadNil(x, reg, 1)
    [] e.k \in {"FALSE", "TRUE"} -> Emit(x, Instr("LOADBOOL", reg, IF e.k = "TRUE" THEN 1 ELSE 0, 0))
    [] e.k = "K" -> Emit(x, Instr("LOADK", reg, e.info, 0))
    [] e.k = "KNUM" -> EmitK(x, "LOADK", reg, Num(e.nval))
    [] e.k = "RELOCABLE" -> [x EXCEPT !.code[e.info + 1].a = reg]
    [] e.k = "NONRELOC" /\ reg # e.info -> Emit(x, Instr("MOVE", reg, e.info, 0))
    [] OTHER -> x
ToReg(x, reg) ==
  IF x.e.k \in {"VOID", "JMP"} THEN x ELSE With(Loaded(x, reg), "NONRELOC", reg)
Discharge2Reg(x, reg) == ToReg(DischargeVars(x), reg)
Discharge2AnyReg(x) ==
  IF x.e.k = "NONRELOC" THEN x ELSE Discharge2Reg(Reserve(x, 1), x.freereg)

(* Jumps that carry no value end at a LOADBOOL behind the expression. *)
FalseTrue(x, reg) ==
  Emit(GetLabel(Emit(GetLabel(x), Instr("LOADBOOL", reg, 0, 1))), Instr("LOADBOOL", reg, 1, 0))
LoadBools(x, reg) ==
  IF x.e.k = "JMP" THEN PatchToHere(FalseTrue(x, reg), NO_JUMP)
  ELSE PatchToHere(FalseTrue(Jump(x), reg), PC(x))
EndAtLabel(x, reg) ==
  PatchListAux(PatchListAux(x, x.e.f, PC(x), reg, PC(x) - 2), x.e.t, PC(x), reg, PC(x) - 1)
Misleads(x) ==
  \E pc \in ToSet(JumpList(x, x.e.t) \o JumpList(x, x.e.f)) : pc \in x.joined /\ HasValue(x, pc)
EndJumps(x, reg) ==
  LET value == NeedValue(x, x.e.t) \/ NeedValue(x, x.e.f)
      y == [x EXCEPT !.misled = @ \/ Misleads(x)]
  IN EndAtLabel(GetLabel(IF value THEN LoadBools(y, reg) ELSE y), reg)
JoinJump(x) == IF x.e.k = "JMP" THEN InT(x, x.e.info) ELSE x
Placed(x, reg) == [IF HasJumps(x.e) THEN EndJumps(x, reg) ELSE x EXCEPT !.e = Exp("NONRELOC", reg)]
Exp2Reg(x, reg) == Placed(JoinJump(Discharge2Reg(x, reg)), reg)

(* In the register reg, or in the topmost one. *)
InReg(x, reg) == Exp2Reg(x, IF reg = NO_REG THEN x.freereg - 1 ELSE reg)
InNextReg(x) == InReg(Reserve(FreeExp(x, x.e), 1), NO_REG)
InAnyReg(x) ==
  LET temporary == x.e.k = "NONRELOC" /\ x.e.info >= NumAct(x) IN
  IF x.e.k = "NONRELOC" /\ ~HasJumps(x.e) THEN x
  ELSE InReg(IF temporary THEN x ELSE Reserve(FreeExp(x, x.e), 1), IF temporary THEN x.e.info ELSE NO_REG)
Exp2NextReg(x) == InNextReg(DischargeVars(x))
Exp2AnyReg(x) == InAnyReg(DischargeVars(x))
Exp2Val(x) == IF HasJumps(x.e) THEN Exp2AnyReg(x) ELSE DischargeVars(x)

(* An operand: a constant, if it fits, or a register. *)
RK(e) == IF e.k = "K" THEN BITRK + e.info ELSE e.info
Const(e) ==
  CASE e.k = "NIL" -> Nil [] e.k = "TRUE" -> Bool(TRUE) [] e.k = "FALSE" -> Bool(FALSE)
    [] OTHER -> Num(e.nval)
Operand(x) ==
  LET plain == ~HasJumps(x.e)
      constant == x.e.k \in {"NIL", "TRUE", "FALSE", "KNUM"} /\ Len(x.k) <= MAXINDEXRK
  IN IF plain /\ constant THEN With(AddK(x, Const(x.e)), "K", IndexK(x, Const(x.e)))
     ELSE IF plain /\ x.e.k = "K" /\ x.e.info <= MAXINDEXRK THEN x
     ELSE InAnyReg(x)
Exp2RK(x) == Operand(DischargeVars(x))

StoreExp(x, var) ==
  FreeExp(Emit(x, CASE var.k = "UPVAL" -> Instr("SETUPVAL", x.e.info, var.info, 0)
                    [] var.k = "GLOBAL" -> Instr("SETGLOBAL", x.e.info, var.info, 0)
                    [] var.k = "INDEXED" -> Instr("SETTABLE", var.info, var.aux, RK(x.e))), x.e)
StoreVar(x, var) ==
  IF var.k = "LOCAL" THEN Exp2Reg(FreeExp(x, x.e), var.info)
  ELSE StoreExp(IF var.k = "INDEXED" THEN Exp2RK(x) ELSE Exp2AnyReg(x), var)

--------------------------------------------------------------------------
(* Conditions. *)

InvertJump(x) == [x EXCEPT !.code[Control(x, x.e.info) + 1].a = 1 - @]
(* The jump is at PC - 1 afterwards. *)
TestSet(x, cond) == CondJump(FreeExp(x, x.e), "TESTSET", NO_REG, x.e.info, cond)
JumpOnCond(x, cond) ==
  IF x.e.k = "RELOCABLE" /\ At(x, x.e.info).op = "NOT"
  THEN CondJump([x EXCEPT !.code = Front(@)], "TEST", At(x, x.e.info).b, 0, 1 - cond)
  ELSE TestSet(Discharge2AnyReg(x), cond)
(* The exits of e at which it is false, with the jump at pc; the others end here. *)
ExitIfFalse(x, pc) == LET y == InF(x, pc) IN [PatchToHere(y, y.e.t) EXCEPT !.e.t = NO_JUMP]
ExitIfTrue(x, pc) == LET y == InT(x, pc) IN [PatchToHere(y, y.e.f) EXCEPT !.e.f = NO_JUMP]
LastIfFalse(x) == ExitIfFalse(x, PC(x) - 1)
LastIfTrue(x) == ExitIfTrue(x, PC(x) - 1)
FallIfTrue(x) ==
  CASE x.e.k \in {"K", "KNUM", "TRUE"} -> ExitIfFalse(x, NO_JUMP)
    [] x.e.k = "JMP" -> ExitIfFalse(InvertJump(x), x.e.info)
    [] x.e.k = "FALSE" -> LastIfFalse(Always(x))
    [] OTHER -> LastIfFalse(JumpOnCond(x, 0))
FallIfFalse(x) ==
  CASE x.e.k \in {"NIL", "FALSE"} -> ExitIfTrue(x, NO_JUMP)
    [] x.e.k = "JMP" -> ExitIfTrue(x, x.e.info)
    [] x.e.k = "TRUE" -> LastIfTrue(Always(x))
    [] OTHER -> LastIfTrue(JumpOnCond(x, 1))
GoIfTrue(x) == FallIfTrue(DischargeVars(x))
GoIfFalse(x) == FallIfFalse(DischargeVars(x))

InvertReg(x) == Relocable(FreeExp(x, x.e), Instr("NOT", 0, x.e.info, 0))
NotOf(x) ==
  CASE x.e.k \in {"NIL", "FALSE"} -> [x EXCEPT !.e.k = "TRUE"]
    [] x.e.k \in {"K", "KNUM", "TRUE"} -> [x EXCEPT !.e.k = "FALSE"]
    [] x.e.k = "JMP" -> InvertJump(x)
    [] OTHER -> InvertReg(Discharge2AnyReg(x))
SwapJumps(x) ==
  [RemoveValues(RemoveValues(x, x.e.t), x.e.f) EXCEPT !.e.t = x.e.f, !.e.f = x.e.t]
CodeNot(x) == SwapJumps(NotOf(DischargeVars(x)))

--------------------------------------------------------------------------
(* Operators.  e1 is the left operand, x.e the right one. *)

ArithOps == "+" :> "ADD" @@ "*" :> "MUL"
(* The instruction, and the result of it that is true. *)
CompOps ==
  "==" :> <<"EQ", 1>> @@ "~=" :> <<"EQ", 0>> @@ "<" :> <<"LT", 1>> @@ "<=" :> <<"LE", 1>>
    @@ ">" :> <<"LT", 0>> @@ ">=" :> <<"LE", 0>>

Arith(op, m, n) == CASE op = "ADD" -> m + n [] op = "SUB" -> m - n [] op = "MUL" -> m * n [] op = "UNM" -> -m
(* x.e is the left operand now. *)
BinaryOp(x, op, e2) ==
  LET o1 == RK(x.e)
      o2 == IF op \in {"UNM", "LEN"} THEN 0 ELSE RK(e2)
      y == IF o1 > o2 THEN FreeExp(FreeExp(x, x.e), e2) ELSE FreeExp(FreeExp(x, e2), x.e)
  IN Relocable(y, Instr(op, 0, o1, o2))
LeftOperand(x, op, e1) == BinaryOp(Exp2RK(SetE(x, e1)), op, x.e)
CodeArith(x, op, e1) ==
  IF op \notin {"LEN", "CONCAT"} /\ IsNumeral(e1) /\ IsNumeral(x.e)
  THEN SetE(x, [e1 EXCEPT !.nval = Arith(op, e1.nval, x.e.nval)])
  ELSE LeftOperand(IF op \in {"UNM", "LEN"} THEN x ELSE Exp2RK(x), op, e1)
CompareJump(x, e1) == SetE(x, [e1 EXCEPT !.k = "JMP", !.info = PC(x) - 1])
CompareRegs(x, op, cond, e1) ==
  LET o1 == RK(e1)
      o2 == RK(x.e)
      swap == cond = 0 /\ op # "EQ"
  IN CompareJump(CondJump(FreeExp(FreeExp(x, x.e), e1), op, IF swap THEN 1 ELSE cond,
                          IF swap THEN o2 ELSE o1, IF swap THEN o1 ELSE o2), e1)
RightOperand(x, op, cond, e2) == CompareRegs(Exp2RK(SetE(x, e2)), op, cond, x.e)
CodeComp(x, op, cond, e1) == RightOperand(Exp2RK(SetE(x, e1)), op, cond, x.e)

Zero == [Exp("KNUM", 0) EXCEPT !.nval = 0]
Negate(x, op) == CodeArith(SetE(x, Zero), IF op = "-" THEN "UNM" ELSE "LEN", x.e)
(* History: x.negated, that a minus met a constant that is no number. *)
NoNumber(e) == e.k \in {"NIL", "TRUE", "FALSE"} /\ ~HasJumps(e)
Prefix(x, op) ==
  IF op = "not" THEN CodeNot(x)
  ELSE IF op = "#" \/ x.e.k = "K" THEN Negate(Exp2AnyReg(x), op)
  ELSE Negate([x EXCEPT !.negated = @ \/ NoNumber(x.e)], op)
Infix(x, op) ==
  CASE op = "and" -> GoIfTrue(x)
    [] op = "or" -> GoIfFalse(x)
    [] op = ".." -> Exp2NextReg(x)
    [] OTHER -> IF op \in DOMAIN ArithOps /\ IsNumeral(x.e) THEN x ELSE Exp2RK(x)

(* a .. b .. c is one CONCAT: the operands are in successive registers. *)
Concats(x) == IF x.e.k = "RELOCABLE" THEN At(x, x.e.info).op = "CONCAT" ELSE FALSE
JoinConcat(x, e1) ==
  LET pc == x.e.info
  IN [Asserted(FreeExp(x, e1), e1.info = At(x, pc).b - 1) EXCEPT
        !.code[pc + 1].b = e1.info, !.e = [e1 EXCEPT !.k = "RELOCABLE", !.info = pc]]
CodeConcat(x, e1) == IF Concats(x) THEN JoinConcat(x, e1) ELSE CodeArith(Exp2NextReg(x), "CONCAT", e1)
Posfix(x, op, e1) ==
  CASE op = "and" -> Asserted(InF(DischargeVars(x), e1.f), e1.t = NO_JUMP)
    [] op = "or" -> Asserted(InT(DischargeVars(x), e1.t), e1.f = NO_JUMP)
    [] op = ".." -> CodeConcat(Exp2Val(x), e1)
    [] op \in DOMAIN ArithOps -> CodeArith(x, ArithOps[op], e1)
    [] OTHER -> CodeComp(x, CompOps[op][1], CompOps[op][2], e1)

SetList(x, base, nelems, tostore) ==
  LET c == (nelems - 1) \div LFIELDS_PER_FLUSH + 1
  IN [Emit(x, Instr("SETLIST", base, tostore, c)) EXCEPT !.freereg = base + 1]
=============================================================================
