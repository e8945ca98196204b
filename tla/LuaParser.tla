----------------------------- MODULE LuaParser -----------------------------
(***************************************************************************)
(* The parser of Lua (misc/luabash/lua/lparser.c), which generates the     *)
(* code of a statement while it reads it: scopes of local variables, their *)
(* capture by inner functions (upvalues), calls, constructors, assignments *)
(* and loops.  A chunk is given as a syntax tree, a sequence of records    *)
(* n with the kind of statement or expression in n.is; the tokens are left *)
(* out, and so are "...", method calls and the for statement with "in".    *)
(***************************************************************************)
EXTENDS LuaCode

VOID == Exp("VOID", 0)
MULTRET == -1

--------------------------------------------------------------------------
(* Variables. *)

Open(prev, pars) ==
  [code |-> <<>>, k |-> <<>>, p |-> <<>>, ups |-> <<>>, prev |-> prev, act |-> pars,
   numparams |-> Len(pars), freereg |-> Len(pars), maxstacksize |-> Max({2, Len(pars)}),
   lasttarget |-> -1, jpc |-> NO_JUMP, bl |-> <<>>, e |-> VOID, ok |-> TRUE,
   joined |-> {}, misled |-> FALSE, negated |-> FALSE]
Activate(x, names) == [x EXCEPT !.act = @ \o names]

MarkNothing(x, level) == x
(* The block of the local variable must close it. *)
MarkUpval(x, level) ==
  LET in == {i \in DOMAIN x.bl : x.bl[i].nactvar <= level}
  IN IF in = {} THEN x ELSE [x EXCEPT !.bl[Max(in)].upval = TRUE]
IndexUpvalue(x, v) ==
  LET up == [k |-> v.k, info |-> v.info]
      y == IF up \in ToSet(x.ups) THEN x ELSE [x EXCEPT !.ups = Append(@, up)]
  IN SetE(y, Exp("UPVAL", (CHOOSE i \in DOMAIN y.ups : y.ups[i] = up) - 1))
Outer(x, outer) ==
  IF outer.e.k = "GLOBAL" THEN SetE(x, outer.e) ELSE IndexUpvalue([x EXCEPT !.prev = <<outer>>], outer.e)
RECURSIVE SingleVarAux(_, _, _)
SingleVarAux(x, n, base) ==
  LET found == {i \in DOMAIN x.act : x.act[i] = n}
      reg == Max(found) - 1
  IN IF found # {} THEN SetE(IF base THEN x ELSE MarkUpval(x, reg), Exp("LOCAL", reg))
     ELSE IF x.prev = <<>> THEN SetE(x, Exp("GLOBAL", NO_REG))
     ELSE Outer(x, SingleVarAux(x.prev[1], n, FALSE))
ConstantNamed(x, n) ==
  SetE(AddK(x, Value("string", <<n>>)), Exp("K", IndexK(x, Value("string", <<n>>))))
Named(x, n) == IF x.e.k = "GLOBAL" THEN With(ConstantNamed(x, n), "GLOBAL", ConstantNamed(x, n).e.info) ELSE x
SingleVar(x, n) == Named(SingleVarAux(x, n, TRUE), n)

LoadRest(x, extra) == IF extra > 0 THEN LoadNil(Reserve(x, extra), x.freereg, extra) ELSE x
AdjustAssign(x, nvars, nexps) ==
  LET call == x.e.k = "CALL"
      extra == Max({0, nvars - nexps + IF call THEN 1 ELSE 0})
  IN IF call THEN Reserve(SetReturns(x, extra), Max({0, extra - 1}))
     ELSE LoadRest(IF x.e.k = "VOID" THEN x ELSE Exp2NextReg(x), extra)

--------------------------------------------------------------------------
(* Blocks. *)

EnterBlock(x, breakable) ==
  Asserted([x EXCEPT !.bl = Append(@, [breaklist |-> NO_JUMP, isbreakable |-> breakable,
                                       nactvar |-> NumAct(x), upval |-> FALSE])],
           x.freereg = NumAct(x))
LeaveBlock(x) ==
  LET b == Last(x.bl)
      y == [x EXCEPT !.bl = Front(@), !.act = SubSeq(@, 1, b.nactvar)]
      z == IF b.upval THEN Emit(y, Instr("CLOSE", b.nactvar, 0, 0)) ELSE y
  IN PatchToHere(Asserted([z EXCEPT !.freereg = b.nactvar], ~(b.isbreakable /\ b.upval)), b.breaklist)
BreakTo(x, b) ==
  [Link(Jump(x), x.bl[b].breaklist, PC(x)) EXCEPT !.bl[b].breaklist = FirstOf(@, PC(x))]
Break(x) ==
  LET b == Max({i \in DOMAIN x.bl : x.bl[i].isbreakable})
      upval == \E i \in DOMAIN x.bl : i > b /\ x.bl[i].upval
  IN BreakTo(IF upval THEN Emit(x, Instr("CLOSE", x.bl[b].nactvar, 0, 0)) ELSE x, b)

(* luaG_checkcode: registers, constants and jumps of every instruction exist. *)
InCode(f, dest) == dest \in 0..(PC(f) - 1)
IsReg(f, r) == r \in 0..(f.maxstacksize - 1)
IsK(f, o) == o \in 0..(Len(f.k) - 1)
IsRK(f, o) == IsReg(f, o) \/ IsK(f, o - BITRK)
CheckInstr(f, pc) ==
  LET i == At(f, pc) IN
  /\ i.op \notin {"JMP", "EQ", "LT", "LE"} => IsReg(f, i.a)
  /\ i.op \in {"MOVE", "UNM", "NOT", "LEN", "TESTSET", "LOADNIL", "CONCAT", "GETTABLE"} => IsReg(f, i.b)
  /\ i.op \in {"ADD", "MUL", "EQ", "LT", "LE", "SETTABLE"} => IsRK(f, i.b) /\ IsRK(f, i.c)
  /\ i.op = "GETTABLE" => IsRK(f, i.c)
  /\ i.op = "CONCAT" => IsReg(f, i.c) /\ i.b < i.c
  /\ i.op \in {"LOADK", "GETGLOBAL", "SETGLOBAL"} => IsK(f, i.b)
  /\ i.op \in {"GETUPVAL", "SETUPVAL"} => i.b \in 0..(Len(f.ups) - 1)
  /\ i.op \in {"JMP", "FORLOOP", "FORPREP"} => i.b # NO_JUMP /\ InCode(f, pc + 1 + i.b)
  /\ i.op \in TestOps => InCode(f, pc + 2) /\ At(f, pc + 1).op = "JMP"
  /\ i.op = "LOADBOOL" /\ i.c = 1 => InCode(f, pc + 2)
  /\ i.op \in {"CALL", "RETURN"} /\ i.b > 1 => IsReg(f, i.a + i.b - IF i.op = "CALL" THEN 1 ELSE 2)
CheckCode(f) == /\ At(f, PC(f) - 1).op = "RETURN"
                /\ \A pc \in 0..(PC(f) - 1) : CheckInstr(f, pc)
CloseFunc(x) ==
  LET f == Emit([x EXCEPT !.act = <<>>], Instr("RETURN", 0, 1, 0)) IN Asserted(f, CheckCode(f) /\ f.bl = <<>>)
ProtoOf(f) ==
  [code |-> f.code, k |-> f.k, p |-> f.p, nups |-> Len(f.ups),
   numparams |-> f.numparams, maxstacksize |-> f.maxstacksize]
PushClosure(f) ==
  LET fs == f.prev[1]
      x == Relocable([fs EXCEPT !.p = Append(@, ProtoOf(f)), !.misled = @ \/ f.misled,
                                !.negated = @ \/ f.negated], Instr("CLOSURE", 0, Len(fs.p), 0))
      Captured(y, u) == Emit(y, Instr(IF u.k = "LOCAL" THEN "MOVE" ELSE "GETUPVAL", 0, u.info, 0))
  IN Asserted(FoldLeft(Captured, [x EXCEPT !.e = Exp("RELOCABLE", PC(fs))], f.ups), f.ok)

--------------------------------------------------------------------------
(* Expressions. *)

RECURSIVE Code(_, _), Chunk(_, _)
(* One step after another, until an assertion fails. *)
Then(x, Step(_)) == IF x.ok THEN Step(x) ELSE x
(* expr; Code is the grammar, below.  An assertion that fails ends everything. *)
Expr(x, n) == IF x.ok THEN Code(x, n) ELSE x
NextExp(x, n) == IF x.ok THEN Expr(Exp2NextReg(x), n) ELSE x
Body(x, pars, body) == PushClosure(CloseFunc(Chunk(Open(<<x>>, pars), body)))
ExpList1(x, es) ==
  FoldLeft(NextExp, Expr(x, Head(es)), Tail(es))
IndexedBy(x, t) == SetE(x, [t EXCEPT !.k = "INDEXED", !.aux = RK(x.e)])
IndexIn(x, n) == IndexedBy(Exp2RK(Exp2Val(Expr(x, n.key))), x.e)
Index(x, n) == IndexIn(Exp2AnyReg(Expr(x, n.table)), n)

CallOf(x, base, nparams) ==
  [Emit(x, Instr("CALL", base, nparams + 1, 2)) EXCEPT !.freereg = base + 1, !.e = Exp("CALL", PC(x))]
CallTop(x, base) == CallOf(x, base, x.freereg - (base + 1))
CallWith(x, base) ==
  IF x.e.k = "CALL" THEN CallOf(SetReturns(x, MULTRET), base, MULTRET) ELSE CallTop(Exp2NextReg(x), base)
FuncArgs(f, args) ==
  IF args = <<>> THEN CallOf(f, f.e.info, 0) ELSE CallWith(ExpList1(f, args), f.e.info)

(* Items of a constructor wait in registers until LFIELDS_PER_FLUSH are there. *)
Flushed(c, x) ==
  IF c.tostore < LFIELDS_PER_FLUSH THEN [c EXCEPT !.x = x, !.v = VOID]
  ELSE [c EXCEPT !.x = SetList(x, c.t, c.na, c.tostore), !.v = VOID, !.tostore = 0]
CloseListField(c) == IF c.v.k = "VOID" THEN c ELSE Flushed(c, Exp2NextReg(SetE(c.x, c.v)))
SetField(x, t, key) == Emit(x, Instr("SETTABLE", t, key, RK(x.e)))
FieldValue(x, t, n) == SetField(Exp2RK(Expr(x, n.val)), t, RK(x.e))
RecField(x, t, n) ==
  [FieldValue(Exp2RK(Exp2Val(Expr(x, n.key))), t, n) EXCEPT !.freereg = x.freereg]
ListField(c, x) == [c EXCEPT !.x = x, !.v = x.e, !.na = @ + 1, !.tostore = @ + 1]
LastListField(c) ==
  LET x == SetE(c.x, c.v) IN
  IF c.tostore = 0 THEN c.x
  ELSE IF c.v.k = "CALL" THEN SetList(SetReturns(x, MULTRET), c.t, c.na, 0)
  ELSE SetList(IF c.v.k = "VOID" THEN x ELSE Exp2NextReg(x), c.t, c.na, c.tostore)
Item(c, i) ==
  IF i.is = "pair" THEN [c EXCEPT !.x = RecField(@, c.t, i)] ELSE ListField(c, Expr(c.x, i))
Items(x, items) ==
  SetE(LastListField(FoldLeft(LAMBDA c, i : Item(CloseListField(c), i),
                              [x |-> x, t |-> x.e.info, v |-> VOID, na |-> 0, tostore |-> 0], items)), x.e)
Constructor(x, n) == Items(Exp2NextReg(Relocable(SetE(x, VOID), Instr("NEWTABLE", 0, 0, 0))), n.items)

Operation(x, op, e1) == IF x.ok THEN Posfix(x, op, e1) ELSE x
RightOf(x, n) == IF x.ok THEN Operation(Expr(x, n.r), n.op, x.e) ELSE x
SubExpr(x, n) == RightOf(Infix(Expr(x, n.l), n.op), n)

--------------------------------------------------------------------------
(* Statements. *)

EndBlock(x) == IF x.ok THEN LeaveBlock(Asserted(x, Last(x.bl).breaklist = NO_JUMP)) ELSE x
Block(x, body) == EndBlock(Chunk(EnterBlock(x, FALSE), body))
NilIsFalse(x) == IF x.e.k = "NIL" THEN [x EXCEPT !.e.k = "FALSE"] ELSE x
Cond(x, n) == GoIfTrue(NilIsFalse(Expr(x, n)))

NoConflict(x, v, lhs) == [x |-> x, lhs |-> lhs]
(* An earlier t[v] in this assignment keeps the old value of v. *)
CheckConflict(x, v, lhs) ==
  LET Safe(l) ==
        IF l.k # "INDEXED" THEN l
        ELSE [l EXCEPT !.info = IF @ = v.info THEN x.freereg ELSE @,
                       !.aux = IF @ = v.info THEN x.freereg ELSE @]
      new == [i \in DOMAIN lhs |-> Safe(lhs[i])]
  IN [x |-> IF new = lhs THEN x ELSE Reserve(Emit(x, Instr("MOVE", x.freereg, v.info, 0)), 1), lhs |-> new]
AddTarget(x, lhs) ==
  [IF x.e.k = "LOCAL" THEN CheckConflict(x, x.e, lhs) ELSE [x |-> x, lhs |-> lhs] EXCEPT
     !.lhs = Append(@, x.e)]
(* The last target gets its value first, which may not be in a register. *)
StoreAll(x, lhs) ==
  FoldLeft(LAMBDA y, i :
             StoreVar(IF i = 1 THEN y ELSE SetE(y, Exp("NONRELOC", y.freereg - 1)), Reverse(lhs)[i]),
           x, [i \in DOMAIN lhs |-> i])
DropRest(x, n) == [x EXCEPT !.freereg = @ - n, !.e = Exp("NONRELOC", x.freereg - n - 1)]
AssignTo(x, lhs, nexps) ==
  LET nvars == Len(lhs) IN
  StoreAll(IF nexps # nvars THEN DropRest(AdjustAssign(x, nvars, nexps), Max({0, nexps - nvars}))
           ELSE IF x.e.k = "CALL" THEN DischargeVars(x) ELSE x, lhs)
ValuesFor(c, es) == AssignTo(ExpList1(c.x, es), c.lhs, Len(es))
Assignment(x, n) ==
  ValuesFor(FoldLeft(LAMBDA c, v : AddTarget(Expr(c.x, v), c.lhs), [x |-> x, lhs |-> <<>>], n.vars), n.es)

LoopTo(x, pc) == PatchList(Jump(x), PC(x), pc)
WhileBody(x, n, start) ==
  PatchToHere(LeaveBlock(LoopTo(Block(EnterBlock(x, TRUE), n.body), start)), x.e.f)
While(x, n) == WhileBody(Cond(GetLabel(x), n.cond), n, PC(x))
(* Variables of the body that are captured are closed at each way out of it. *)
Until(x, start) ==
  IF Last(x.bl).upval THEN LeaveBlock(LoopTo(LeaveBlock(PatchToHere(Break(x), x.e.f)), start))
  ELSE LeaveBlock(PatchList(LeaveBlock(x), x.e.f, start))
Repeat(x, n) ==
  Until(Cond(Chunk(EnterBlock(EnterBlock(GetLabel(x), TRUE), FALSE), n.body), n.cond), PC(x))
ForStep(x, n) ==
  Activate(IF Len(n.es) = 3 THEN x ELSE Reserve(EmitK(x, "LOADK", x.freereg, Num(1)), 1),
           <<"(for index)", "(for limit)", "(for step)">>)
ForVariable(x, n) == Reserve(Activate(EnterBlock(x, FALSE), <<n.name>>), 1)
ForEnd(x, base, prep) ==
  PatchList(Emit(PatchToHere(x, prep), Instr("FORLOOP", base, NO_JUMP, 0)), PC(x), prep + 1)
ForBody(x, base, n) ==
  ForEnd(LeaveBlock(Block(ForVariable(Emit(x, Instr("FORPREP", base, NO_JUMP, 0)), n), n.body)), base, PC(x))
ForNum(x, n) ==
  LeaveBlock(ForBody(ForStep(FoldLeft(LAMBDA y, e : Exp2NextReg(Expr(y, e)), EnterBlock(x, TRUE), n.es), n),
                     x.freereg, n))

(* c.flist: where the last condition is false; c.escape: over the rest. *)
ThenBlock(c, x, body) == IF ~x.ok THEN [c EXCEPT !.x = x] ELSE [c EXCEPT !.x = Block(x, body), !.flist = x.e.f]
Escape(c) ==
  [x |-> PatchToHere(Link(Jump(c.x), c.escape, PC(c.x)), c.flist), flist |-> NO_JUMP,
   escape |-> FirstOf(c.escape, PC(c.x))]
ElseBlock(c, else) == PatchToHere(Block(c.x, else), c.escape)
EndIf(c, else) ==
  IF ~c.x.ok THEN c.x
  ELSE IF else = <<>> THEN PatchToHere(Link(c.x, c.escape, c.flist), FirstOf(c.escape, c.flist))
  ELSE ElseBlock(Escape(c), else)
IfClause(c, clause) == ThenBlock(c, Cond(c.x, clause.cond), clause.body)
If(x, n) ==
  EndIf(FoldLeft(LAMBDA c, i : IfClause(IF i = 1 THEN c ELSE Escape(c), n.clauses[i]),
                 [x |-> x, flist |-> NO_JUMP, escape |-> NO_JUMP], [i \in DOMAIN n.clauses |-> i]),
        n.else)

Local(x, n) ==
  Activate(AdjustAssign(IF n.es = <<>> THEN SetE(x, VOID) ELSE ExpList1(x, n.es), Len(n.names), Len(n.es)),
           n.names)
LocalFunc(x, n) ==
  StoreVar(Body(Activate(Reserve(x, 1), <<n.name>>), n.pars, n.body), Exp("LOCAL", x.freereg))
TailCallOf(x) == [SetReturns(x, MULTRET) EXCEPT !.code[x.e.info + 1].op = "TAILCALL"]
ReturnReg(x) == Emit(x, Instr("RETURN", x.e.info, 2, 0))
ReturnValues(x, nacts, n) ==
  IF x.e.k = "CALL"
  THEN Emit(IF n = 1 THEN TailCallOf(x) ELSE SetReturns(x, MULTRET), Instr("RETURN", nacts, MULTRET + 1, 0))
  ELSE IF n = 1 THEN ReturnReg(Exp2AnyReg(x))
  ELSE Emit(Exp2NextReg(x), Instr("RETURN", nacts, n + 1, 0))
Return(x, n) ==
  IF n.es = <<>> THEN Emit(x, Instr("RETURN", 0, 1, 0))
  ELSE ReturnValues(ExpList1(x, n.es), NumAct(x), Len(n.es))
DropResults(x) == [x EXCEPT !.code[x.e.info + 1].c = 1]
ExprStat(x, n) == DropResults(Expr(x, n.e))

(* An expression or a statement, of which one is a call as a statement. *)
Code(x, n) ==
  CASE n.is = "nil" -> SetE(x, Exp("NIL", 0))
    [] n.is = "bool" -> SetE(x, Exp(IF n.b THEN "TRUE" ELSE "FALSE", 0))
    [] n.is = "num" -> SetE(x, [Exp("KNUM", 0) EXCEPT !.nval = n.n])
    [] n.is = "str" -> ConstantNamed(x, n.s)
    [] n.is = "var" -> SingleVar(x, n.name)
    [] n.is = "paren" -> DischargeVars(Expr(x, n.e))
    [] n.is = "index" -> Index(x, n)
    [] n.is = "call" -> FuncArgs(Exp2NextReg(Expr(x, n.f)), n.args)
    [] n.is = "function" -> Body(x, n.pars, n.body)
    [] n.is = "table" -> Constructor(x, n)
    [] n.is = "un" -> Prefix(Expr(x, n.e), n.op)
    [] n.is = "bin" -> SubExpr(x, n)
    [] n.is = "local" -> Local(x, n)
    [] n.is = "localfunction" -> LocalFunc(x, n)
    [] n.is = "assign" -> Assignment(x, n)
    [] n.is = "callstat" -> ExprStat(x, n)
    [] n.is = "if" -> If(x, n)
    [] n.is = "while" -> While(x, n)
    [] n.is = "repeat" -> Repeat(x, n)
    [] n.is = "for" -> ForNum(x, n)
    [] n.is = "do" -> Block(x, n.body)
    [] n.is = "break" -> Break(x)
    [] n.is = "return" -> Return(x, n)
(* Registers above the variables are free again after a statement. *)
Statement(x, n) ==
  Then(Code(x, IF n.is = "call" THEN [is |-> "callstat", e |-> n] ELSE n), LAMBDA y :
    [Asserted(y, y.freereg \in NumAct(y)..y.maxstacksize) EXCEPT !.freereg = NumAct(y)])
Chunk(x, body) ==
  IF body = <<>> THEN x ELSE Then(Statement(x, Head(body)), LAMBDA y : Chunk(y, Tail(body)))
Parser(chunk) == CloseFunc(Chunk(Open(<<>>, <<>>), chunk))
=============================================================================
