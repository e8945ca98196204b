---------------------------- MODULE MCLuaChunks ----------------------------
(***************************************************************************)
(* Chunks of Lua for MCPrograms, as syntax trees (LuaParser): expressions  *)
(* in every place of a value, loops that keep functions of their           *)
(* variables, assignments to several targets, functions in functions, and  *)
(* values of the wrong type.                                               *)
(***************************************************************************)
EXTENDS Integers, Sequences

N(n) == [is |-> "num", n |-> n]
S(s) == [is |-> "str", s |-> s]
B(b) == [is |-> "bool", b |-> b]
NilE == [is |-> "nil"]
V(x) == [is |-> "var", name |-> x]
Un(op, e) == [is |-> "un", op |-> op, e |-> e]
Bin(op, l, r) == [is |-> "bin", op |-> op, l |-> l, r |-> r]
At(t, k) == [is |-> "index", table |-> t, key |-> k]
Call(f, args) == [is |-> "call", f |-> f, args |-> args]
Paren(e) == [is |-> "paren", e |-> e]
Fun(pars, body) == [is |-> "function", pars |-> pars, body |-> body]
Tab(items) == [is |-> "table", items |-> items]
Pair(k, v) == [is |-> "pair", key |-> k, val |-> v]
Local(names, es) == [is |-> "local", names |-> names, es |-> es]
LocalFun(n, pars, body) == [is |-> "localfunction", name |-> n, pars |-> pars, body |-> body]
Assign(vars1, es) == [is |-> "assign", vars |-> vars1, es |-> es]
If(clauses, else) == [is |-> "if", clauses |-> clauses, else |-> else]
Clause(c, body) == [cond |-> c, body |-> body]
While(c, body) == [is |-> "while", cond |-> c, body |-> body]
Repeat(body, c) == [is |-> "repeat", body |-> body, cond |-> c]
For(n, es, body) == [is |-> "for", name |-> n, es |-> es, body |-> body]
Do(body) == [is |-> "do", body |-> body]
Break == [is |-> "break"]
Return(es) == [is |-> "return", es |-> es]

(* Expressions over a local variable x, in every place of a value.             *)
Atoms == {NilE, B(FALSE), B(TRUE), N(1), V("x")}
Deeper(A, D) == {Un("not", a) : a \in A} \cup {Bin(op, a, b) : op \in {"and", "or", "==", "<"}, a \in A, b \in D}
Small == Deeper({N(1), V("x")}, {V("x"), N(1), NilE})
(* A constant condition that jumps with a value lead to, alone, in a condition, *)
(* turned, and in another list of jumps.                                        *)
Constants ==
  LET ends == {Bin("and", Bin(op, V("x"), B(b)), c) : op \in {"and", "or"}, b \in BOOLEAN, c \in {B(FALSE), N(1)}}
                \cup {Bin("or", Bin(op, V("x"), B(b)), c) : op \in {"and", "or"}, b \in BOOLEAN, c \in {B(TRUE), N(1)}}
  IN ends \cup {Un("not", e) : e \in ends} \cup {Bin(op, e, c) : op \in {"and", "or"}, e \in ends, c \in {B(TRUE), V("x"), N(3)}}
          \cup {Bin("==", e, N(3)) : e \in ends}
Exps ==
  Deeper(Small, {V("x"), B(TRUE), N(1)}) \cup Deeper(Atoms, Small)
    \cup {Bin(op, a, b) : op \in {"and", "or"}, a \in {Bin("and", V("x"), N(1)), Un("not", V("x"))}, b \in Small}
    \cup {Bin("+", a, b) : a \in {N(1), Bin("or", V("x"), N(1))}, b \in {N(2), V("x"), Bin("and", V("x"), N(3))}}
    \cup {Un("-", a) : a \in {V("x"), N(1), Bin("and", V("x"), N(1)), S("s"), NilE, B(TRUE), B(FALSE), Bin("and", V("x"), NilE)}}
    \cup Constants
    \cup {Bin("..", S("s"), Bin("..", a, Bin("..", N(1), S("t")))) : a \in {V("x"), Bin("or", V("x"), N(1)), Bin("..", N(1), N(2))}}
InPlaces(e) ==
  {<<Local(<<"y">>, <<e>>), Return(<<V("y"), V("x")>>)>>,
   <<Assign(<<V("x")>>, <<e>>), Return(<<V("x")>>)>>,
   <<If(<<Clause(e, <<Return(<<N(1)>>)>>), Clause(V("x"), <<Return(<<N(2)>>)>>)>>, <<Return(<<N(3)>>)>>)>>}
WithX(p) == {<<Local(<<"x">>, <<v>>)>> \o p : v \in {NilE, N(2)}}

Inc(x) == Assign(<<V(x)>>, <<Bin("+", V(x), N(1))>>)
NoArgs(f) == Call(f, <<>>)
Getter(x) == Fun(<<>>, <<Return(<<V(x)>>)>>)
Counter(x) == Fun(<<>>, <<Inc(x), Return(<<V(x)>>)>>)
(* A loop that keeps functions of its variables, with a break out of it. *)
Body(k) == <<Local(<<"y">>, <<V("i")>>), Assign(<<At(V("t"), V("i"))>>, <<Counter("y")>>),
             If(<<Clause(Bin("==", V("y"), N(k)), <<Break>>)>>, <<>>)>>
Loops(k) ==
  {<<Local(<<"t", "i">>, <<Tab(<<>>)>>), For("i", <<N(1), N(2)>>, Body(k))>>,
   <<Local(<<"t", "i">>, <<Tab(<<>>), N(1)>>), While(Bin("<=", V("i"), N(2)), Body(k) \o <<Inc("i")>>)>>,
   <<Local(<<"t", "i">>, <<Tab(<<>>), N(1)>>), Repeat(Body(k) \o <<Inc("i")>>, Bin(">=", V("y"), N(2)))>>}
LoopPrograms ==
  {l \o <<Local(<<"y">>, <<N(7)>>),
           Return(<<NoArgs(At(V("t"), N(1))), NoArgs(At(V("t"), N(1))),
                    Bin("and", At(V("t"), N(2)), NoArgs(At(V("t"), N(2)))), V("y"), V("i")>>)>> :
     l \in UNION {Loops(k) : k \in 1..3}}
  \cup {<<LocalFun("f", <<"n">>, <<For("i", <<V("n"), N(1), Un("-", N(1))>>, <<Inc("i")>>),
                                    Repeat(<<Local(<<"q">>, <<>>), If(<<Clause(V("q"), <<Return(<<N(9)>>)>>)>>, <<>>),
                                             Assign(<<V("q"), V("n")>>, <<V("n"), Bin("+", V("n"), N(1))>>)>>,
                                           Bin(">", V("q"), N(2))),
                                    Return(<<V("n")>>)>>),
           Return(<<Call(V("f"), <<N(1)>>)>>)>>,
         <<Local(<<"f">>, <<Fun(<<>>, <<Repeat(<<Local(<<"q">>, <<>>), If(<<Clause(V("q"), <<Return(<<V("q")>>)>>)>>, <<>>),
                                                 Assign(<<V("q")>>, <<N(1)>>), Assign(<<V("g")>>, <<Bin("+", V("g"), N(1))>>)>>,
                                               Bin("~=", V("g"), N(1)))>>)>>),
           Assign(<<V("g")>>, <<N(0)>>), Return(<<NoArgs(V("f")), V("g")>>)>>}
(* Assignments to several variables, of too few and too many values. *)
Two == LocalFun("f", <<"a">>, <<Return(<<V("a"), N(8)>>)>>)
Values == {<<Call(V("f"), <<N(5)>>)>>, <<N(5), Call(V("f"), <<V("i")>>)>>, <<Call(V("f"), <<N(5)>>), V("i")>>, <<V("j"), V("i"), V("t")>>}
Targets == {<<V("i"), V("j")>>, <<V("i"), At(V("t"), V("i"))>>, <<At(V("t"), V("i")), V("i")>>,
            <<At(V("t"), V("j")), V("t")>>, <<V("g"), V("i"), V("j")>>, <<V("j")>>}
AssignPrograms ==
  {<<Two, Local(<<"t", "i", "j">>, <<Tab(<<N(3)>>), N(1), N(2)>>), Local(<<"u">>, <<V("t")>>), Assign(l, v),
     Return(<<V("i"), At(V("u"), N(1)), At(V("u"), N(2)), V("g"), Bin("==", V("u"), V("t")), V("j")>>)>> :
     l \in Targets, v \in Values}
  \cup {<<Two, Local(<<"i", "j", "k">>, v), Return(<<V("k"), V("j"), V("i")>>)>> : v \in Values}
(* Functions: upvalues of upvalues, recursion, tail calls, lists of values. *)
CallPrograms ==
  {<<Local(<<"x">>, <<N(1)>>), Two,
     LocalFun("h", <<>>, <<Local(<<"y">>, <<V("x")>>), Return(<<Fun(<<>>, <<Inc("x"), Inc("y"), Return(<<V("y"), V("x")>>)>>)>>)>>),
     Local(<<"a", "b">>, <<NoArgs(V("h")), NoArgs(V("h"))>>), call, Return(<<NoArgs(V("b")), V("x"), NoArgs(V("a"))>>)>> :
     call \in {NoArgs(V("a")), Assign(<<V("b")>>, <<V("a")>>), Inc("x"), Do(<<Local(<<"x">>, <<>>), NoArgs(V("a"))>>)}}
  \cup {<<LocalFun("f", <<"n", "m">>, <<If(<<Clause(Bin("<=", V("n"), N(1)), <<Return(<<V("m"), V("n")>>)>>)>>, <<>>), Return(r)>>),
           Return(<<Call(V("f"), <<N(3), N(2)>>)>>)>> :
          r \in {<<Call(V("f"), <<Bin("+", V("n"), N(-1)), Bin("*", V("n"), V("m"))>>)>>,
                  <<Bin("*", V("n"), Call(V("f"), <<Bin("+", V("n"), N(-1)), V("m")>>))>>,
                  <<V("n"), Call(V("f"), <<Bin("+", V("n"), N(-1)), V("n"), V("n")>>)>>,
                  <<Paren(Call(V("f"), <<N(1)>>))>>, <<Call(V("n"), <<>>)>>}}
  \cup {<<Two, Local(<<"t">>, <<Tab(i)>>), Return(<<Un("#", V("t")), At(V("t"), N(1)), At(V("t"), N(3)), At(V("t"), S("k"))>>)>> :
          i \in {<<N(1), Call(V("f"), <<N(2)>>)>>, <<Call(V("f"), <<N(2)>>), Pair(S("k"), N(6)), Call(V("f"), <<N(4)>>)>>,
                  <<N(1), N(2), N(3), N(4), Call(V("f"), <<N(2)>>)>>, <<N(1), Pair(S("k"), Call(V("f"), <<N(7)>>)), N(2), N(3)>>, <<>>}}
NilPrograms ==
  {<<Do(<<Local(<<"p">>, <<N(1)>>)>>), Local(<<"q">>, e)>> \o b \o <<Local(<<"r">>, <<>>), Return(<<V("q"), V("r")>>)>> :
     e \in {<<>>, <<NilE>>, <<V("q")>>},
     b \in {<<>>, <<If(<<Clause(V("q"), <<Local(<<"s">>, <<N(1)>>)>>)>>, <<>>)>>, <<Do(<<Local(<<"s", "s">>, <<N(4), N(5)>>)>>)>>,
             <<While(Un("not", V("q")), <<Local(<<"s", "q">>, <<N(3)>>), Break>>)>>}}
(* Operations on values of the wrong type. *)
ErrorPrograms ==
  {<<Local(<<"x">>, <<N(2)>>), Return(<<At(V("x"), N(1))>>)>>,
   <<Local(<<"x">>, <<NilE>>), Assign(<<At(V("x"), N(1))>>, <<N(1)>>)>>,
   <<Local(<<"x">>, <<B(TRUE)>>), Return(<<Un("#", V("x"))>>)>>,
   <<For("i", <<N(1), NilE>>, <<Inc("i")>>), Return(<<N(1)>>)>>}
Chunks ==
  UNION {WithX(p) : p \in UNION {InPlaces(e) : e \in Exps}}
    \cup LoopPrograms \cup AssignPrograms \cup CallPrograms \cup NilPrograms \cup ErrorPrograms
=============================================================================
