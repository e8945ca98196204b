----------------------------- MODULE LuaMeaning -----------------------------
(***************************************************************************)
(* What a Lua chunk means, on its syntax tree: the variables of a scope    *)
(* are cells, a function is its text with the cells around it.  A result m *)
(* has the cells, tables, functions and globals, the values v, and in      *)
(* m.st how a statement ended.  Nothing here is translated from the code.  *)
(***************************************************************************)
EXTENDS Integers, Sequences, SequencesExt, TLC

LOCAL MNil == <<"nil", <<>>>>
LOCAL MBool(b) == <<"boolean", <<IF b THEN 1 ELSE 0>>>>
LOCAL MNum(n) == <<"number", <<n>>>>
Type(v) == v[1]
NumOf(v) == v[2][1]
LOCAL Truth(v) == v \notin {MNil, MBool(FALSE)}

In(tables, t, key) == LET h == tables[NumOf(t)] IN IF key \in DOMAIN h THEN h[key] ELSE MNil
Put(tables, t, key, v) == [tables EXCEPT ![NumOf(t)] = (key :> v) @@ @]

(* Operations on values. *)
Defined(op, vs) ==
  CASE op \in {"+", "*", "-", "<", "<=", ">", ">="} -> \A i \in DOMAIN vs : Type(vs[i]) = "number"
    [] op = ".." -> \A i \in DOMAIN vs : Type(vs[i]) \in {"number", "string"}
    [] op = "#" -> Type(vs[1]) = "table"
    [] OTHER -> TRUE
LOCAL Text(v) == IF Type(v) = "number" THEN <<ToString(NumOf(v))>> ELSE v[2]
ResultOf(op, vs, tables) ==
  CASE op = "+" -> MNum(NumOf(vs[1]) + NumOf(vs[2]))
    [] op = "*" -> MNum(NumOf(vs[1]) * NumOf(vs[2]))
    [] op = "-" -> MNum(-NumOf(vs[1]))
    [] op = "not" -> MBool(~Truth(vs[1]))
    [] op = "#" -> MNum(CHOOSE n \in 0..8 : In(tables, vs[1], MNum(n + 1)) = MNil /\ \A i \in 1..n : In(tables, vs[1], MNum(i)) # MNil)
    [] op = ".." -> <<"string", FlattenSeq([i \in DOMAIN vs |-> Text(vs[i])])>>
    [] op = "==" -> MBool(vs[1] = vs[2])
    [] op = "~=" -> MBool(vs[1] # vs[2])
    [] op = "<" -> MBool(NumOf(vs[1]) < NumOf(vs[2]))
    [] op = "<=" -> MBool(NumOf(vs[1]) <= NumOf(vs[2]))
    [] op = ">" -> MBool(NumOf(vs[1]) > NumOf(vs[2]))
    [] op = ">=" -> MBool(NumOf(vs[1]) >= NumOf(vs[2]))

LOCAL One(v) == IF v = <<>> THEN MNil ELSE Head(v)
LOCAL FirstOnly(m) == [m EXCEPT !.v = <<One(@)>>]
LOCAL Paren(e) == [is |-> "paren", e |-> e]
LOCAL Yields(m, v) == [m EXCEPT !.v = <<v>>]
LOCAL Failed(m) == [m EXCEPT !.st = "error"]
LOCAL Bind(m, names, vs) ==
  [m EXCEPT !.cell = @ \o [i \in DOMAIN names |-> IF i \in DOMAIN vs THEN vs[i] ELSE MNil],
            !.env = FoldLeft(LAMBDA e, i : (names[i] :> (Len(m.cell) + i)) @@ e, @, [i \in DOMAIN names |-> i])]

(* Do(m, n): an expression or a statement; Run: a block. *)
RECURSIVE Do(_, _), EvalList(_, _), Run(_, _), ForFrom(_, _, _, _, _), Clauses(_, _, _)

(* The values of es: of all but the last one value each. *)
LOCAL Prepend(v, m) == [m EXCEPT !.v = <<v>> \o @]
LOCAL Rest(m, es) ==
  IF m.st = "error" THEN m
  ELSE IF Len(es) > 1 THEN Prepend(One(m.v), EvalList(m, Tail(es)))
  ELSE IF es[1].is = "call" THEN m ELSE FirstOnly(m)
EvalList(m, es) == IF es = <<>> THEN [m EXCEPT !.v = <<>>] ELSE Rest(Do(m, Head(es)), es)

LOCAL Returned(m, env) ==
  IF m.st = "error" THEN m ELSE [m EXCEPT !.st = "next", !.env = env, !.v = IF m.st = "return" THEN @ ELSE <<>>]
LOCAL Enter(m, fn, args) == Returned(Run(Bind([m EXCEPT !.env = fn.env], fn.pars, args), fn.body), m.env)
LOCAL Apply(m) ==
  IF m.st = "error" THEN m
  ELSE IF Type(m.v[1]) = "function" THEN Enter(m, m.fun[NumOf(m.v[1])], Tail(m.v)) ELSE Failed(m)
LOCAL Closure(m, pars, body) ==
  [m EXCEPT !.fun = Append(@, [pars |-> pars, body |-> body, env |-> m.env]),
            !.v = <<<<"function", <<Len(m.fun) + 1>>>>>>]
LOCAL Lookup(m) ==
  IF m.st = "error" THEN m
  ELSE IF Type(m.v[1]) = "table" THEN Yields(m, In(m.tab, m.v[1], One(Tail(m.v)))) ELSE Failed(m)

LOCAL PutPair(m, t) == IF m.st = "error" THEN m ELSE [m EXCEPT !.tab = Put(@, t, m.v[1], m.v[2])]
LOCAL PutList(m, t, n) ==
  IF m.st = "error" THEN m
  ELSE [m EXCEPT !.tab = FoldLeft(LAMBDA s, j : Put(s, t, MNum(n + j), m.v[j]), @, [j \in DOMAIN m.v |-> j])]
LOCAL Item(m, t, i) ==
  IF m.st = "error" THEN m
  ELSE IF i.is = "pair" THEN PutPair(EvalList(m, <<Paren(i.key), Paren(i.val)>>), t)
  ELSE PutList(EvalList(m, <<i>>), t, NumOf(ResultOf("#", <<t>>, m.tab)))
LOCAL Table(m, items) ==
  LET t == <<"table", <<Len(m.tab) + 1, 0>>>>
      At(i) == IF items[i].is = "call" /\ i < Len(items) THEN Paren(items[i]) ELSE items[i]
  IN Yields(FoldLeft(LAMBDA a, i : Item(a, t, At(i)),
                     [m EXCEPT !.tab = Append(@, [key \in {} |-> MNil])], [i \in DOMAIN items |-> i]), t)

LOCAL Operate(op, left, m) ==
  LET vs == left \o <<One(m.v)>>
  IN IF m.st = "error" THEN m
     ELSE IF Defined(op, vs) THEN Yields(m, ResultOf(op, vs, m.tab)) ELSE Failed(m)
LOCAL Binary(m, n) ==
  IF m.st = "error" THEN m
  ELSE IF n.op \notin {"and", "or"} THEN Operate(n.op, <<One(m.v)>>, Do(m, n.r))
  ELSE IF Truth(One(m.v)) = (n.op = "or") THEN FirstOnly(m) ELSE FirstOnly(Do(m, n.r))

(* Values first, then the assignments; tables and keys of the targets before. *)
LOCAL Indexed(v) == v.is = "index"
LOCAL Targets(m, vars) ==
  LET Parts == SelectSeq(vars, Indexed)
  IN EvalList(m, FlattenSeq([i \in DOMAIN Parts |-> <<Paren(Parts[i].table), Paren(Parts[i].key)>>]))
LOCAL SetVar(m, v, t, key, val) ==
  IF m.st = "error" THEN m
  ELSE IF Indexed(v) THEN IF Type(t) # "table" \/ key = MNil THEN Failed(m) ELSE [m EXCEPT !.tab = Put(@, t, key, val)]
  ELSE IF v.name \in DOMAIN m.env THEN [m EXCEPT !.cell[m.env[v.name]] = val]
  ELSE [m EXCEPT !.glob = (v.name :> val) @@ @]
LOCAL SetAll(m, vars, t) ==
  LET Nth(i) == Len(SelectSeq(SubSeq(vars, 1, i), Indexed))
      Part(i, j) == IF Indexed(vars[i]) THEN t[2 * Nth(i) - 1 + j] ELSE MNil
      Set(a, i) ==
        SetVar(a, vars[i], Part(i, 0), Part(i, 1), IF i \in DOMAIN m.v THEN m.v[i] ELSE MNil)
  IN IF m.st = "error" THEN m ELSE FoldLeft(Set, m, Reverse([i \in DOMAIN vars |-> i]))
LOCAL Assign(m, n) == SetAll(EvalList(m, n.es), n.vars, m.v)

LOCAL Outside(m, env) == [m EXCEPT !.env = env]
LOCAL Scope(m, body) == Outside(Run(m, body), m.env)
LOCAL EndLoop(m) == IF m.st = "break" THEN [m EXCEPT !.st = "next"] ELSE m
LOCAL Again(m, n) == IF m.st = "next" THEN Do(m, n) ELSE EndLoop(m)
LOCAL While(m, n) ==
  IF m.st = "error" \/ ~Truth(One(m.v)) THEN m ELSE Again(Scope(m, n.body), n)
(* The condition of "repeat" sees the variables of the body. *)
LOCAL UntilTrue(m, n, env) ==
  IF m.st = "error" THEN m
  ELSE IF Truth(One(m.v)) THEN Outside(m, env) ELSE Do(Outside(m, env), n)
LOCAL Repeat(m, n, env) ==
  IF m.st = "next" THEN UntilTrue(Do(m, n.cond), n, env) ELSE Outside(EndLoop(m), env)
LOCAL ForNext(m, n, i, limit, step) ==
  IF m.st = "next" THEN ForFrom(m, n, i, limit, step) ELSE EndLoop(m)
ForFrom(m, n, i, limit, step) ==
  IF IF step > 0 THEN i > limit ELSE i < limit THEN m
  ELSE ForNext(Outside(Run(Bind(m, <<n.name>>, <<MNum(i)>>), n.body), m.env), n, i + step, limit, step)
LOCAL For(m, n) ==
  IF m.st = "error" THEN m
  ELSE IF \E i \in DOMAIN m.v : Type(m.v[i]) # "number" THEN Failed(m)
  ELSE ForFrom(m, n, NumOf(m.v[1]), NumOf(m.v[2]), IF Len(m.v) = 3 THEN NumOf(m.v[3]) ELSE 1)
LOCAL Clause(m, cs, else) ==
  IF m.st = "error" THEN m
  ELSE IF Truth(One(m.v)) THEN Scope(m, Head(cs).body) ELSE Clauses(m, Tail(cs), else)
Clauses(m, cs, else) == IF cs = <<>> THEN Scope(m, else) ELSE Clause(Do(m, Head(cs).cond), cs, else)

LOCAL Local(m, names) == IF m.st = "error" THEN m ELSE Bind(m, names, m.v)
LOCAL Named(m, name) == [m EXCEPT !.cell[m.env[name]] = One(m.v)]
LOCAL Return(m) == IF m.st = "error" THEN m ELSE [m EXCEPT !.st = "return"]
Do(m, n) ==
  CASE n.is = "nil" -> Yields(m, MNil)
    [] n.is = "bool" -> Yields(m, MBool(n.b))
    [] n.is = "num" -> Yields(m, MNum(n.n))
    [] n.is = "str" -> Yields(m, <<"string", <<n.s>>>>)
    [] n.is = "var" -> Yields(m, IF n.name \in DOMAIN m.env THEN m.cell[m.env[n.name]]
                                 ELSE IF n.name \in DOMAIN m.glob THEN m.glob[n.name] ELSE MNil)
    [] n.is = "paren" -> FirstOnly(Do(m, n.e))
    [] n.is = "index" -> Lookup(EvalList(m, <<n.table, n.key>>))
    [] n.is = "call" -> Apply(EvalList(m, <<Paren(n.f)>> \o n.args))
    [] n.is = "function" -> Closure(m, n.pars, n.body)
    [] n.is = "table" -> Table(m, n.items)
    [] n.is = "un" -> Operate(n.op, <<>>, Do(m, n.e))
    [] n.is = "bin" -> Binary(Do(m, n.l), n)
    [] n.is = "local" -> Local(EvalList(m, n.es), n.names)
    [] n.is = "localfunction" -> Named(Closure(Bind(m, <<n.name>>, <<>>), n.pars, n.body), n.name)
    [] n.is = "assign" -> Assign(Targets(m, n.vars), n)
    [] n.is = "if" -> Clauses(m, n.clauses, n.else)
    [] n.is = "while" -> While(Do(m, n.cond), n)
    [] n.is = "repeat" -> Repeat(Run(m, n.body), n, m.env)
    [] n.is = "for" -> For(EvalList(m, [i \in DOMAIN n.es |-> Paren(n.es[i])]), n)
    [] n.is = "do" -> Scope(m, n.body)
    [] n.is = "break" -> [m EXCEPT !.st = "break"]
    [] n.is = "return" -> Return(EvalList(m, n.es))
Run(m, body) ==
  IF body = <<>> \/ m.st # "next" THEN m ELSE Run(Do(m, Head(body)), Tail(body))
LOCAL Result(m) ==
  [how |-> IF m.st = "error" THEN "error" ELSE "returned", values |-> IF m.st = "return" THEN m.v ELSE <<>>]
Meaning(body) ==
  Result(Run([cell |-> <<>>, tab |-> <<>>, fun |-> <<>>, glob |-> <<>>, env |-> <<>>, st |-> "next", v |-> <<>>],
             body))
=============================================================================
