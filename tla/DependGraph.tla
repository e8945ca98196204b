----------------------------- MODULE DependGraph -----------------------------
(***************************************************************************)
(* source/dependency.cc: draws the packages that a package needs, each     *)
(* below its dependencies, with an arrow from a package down to those that *)
(* need it.  GetPriority is a recursion that marks the packages on its     *)
(* way; its calls are kept here as a stack.                                *)
(***************************************************************************)
EXTENDS Integers, Sequences, SequencesExt, FiniteSets, FiniteSetsExt

CONSTANTS
  Pkgs,     \* packages with a cache file
  NotThere,  \* a package without one
  Wanted,     \* the package asked for
  DepLists  \* the values of a DEP tag

VARIABLES
  deps,     \* the DEP tags of the cache files
  prio,     \* -1: not evaluated yet, -2: in evaluation
  calls,    \* calls of GetPriority: package, dependencies to go, maximum
  needed,   \* packages in the order of the drawing
  arrows,   \* start and end lines of the arrows, and their columns
  drawing,  \* "priority", "sort", "arrows", "columns", "drawn"
  row,      \* the index i of the loops
  cyclic    \* history: a circular dependency was met

dgVars == <<deps, prio, calls, needed, arrows, drawing, row, cyclic>>

Top == Head(calls)
Call(p) == [pkg |-> p, todo |-> deps[p], max |-> 0]

(* A call returns the value v to its caller. *)
Return(v) ==
  calls' = IF Len(calls) = 1 THEN <<>>
           ELSE <<[calls[2] EXCEPT !.max = Max({@, v})]>> \o SubSeq(calls, 3, Len(calls))

(* The next dependency: unknown, evaluated, in evaluation, or to be called. *)
Dependency ==
  /\ drawing = "priority" /\ calls # <<>> /\ Top.todo # <<>>
  /\ LET d == Head(Top.todo)
         skip(v) == calls' = <<[Top EXCEPT !.todo = Tail(@), !.max = Max({@, v})]>> \o Tail(calls)
     IN CASE d = NotThere -> skip(0) /\ UNCHANGED <<prio, cyclic>>
          [] d # NotThere /\ prio[d] = -2 ->
               skip(0) /\ prio' = [prio EXCEPT ![d] = 0] /\ cyclic' = TRUE
          [] d # NotThere /\ prio[d] = -1 ->
               /\ calls' = <<Call(d), [Top EXCEPT !.todo = Tail(@)]>> \o Tail(calls)
               /\ prio' = [prio EXCEPT ![d] = -2] /\ UNCHANGED cyclic
          [] OTHER -> skip(prio[d]) /\ UNCHANGED <<prio, cyclic>>
  /\ UNCHANGED <<deps, needed, arrows, drawing, row>>

Level(call) == call.max + 1

Evaluated ==
  /\ drawing = "priority" /\ calls # <<>> /\ Top.todo = <<>>
  /\ prio' = [prio EXCEPT ![Top.pkg] = Level(Top)]
  /\ Return(Level(Top))
  /\ UNCHANGED <<deps, needed, arrows, drawing, row, cyclic>>

AllEvaluated ==
  /\ drawing = "priority" /\ calls = <<>>
  /\ drawing' = "sort"
  /\ UNCHANGED <<deps, prio, calls, needed, arrows, row, cyclic>>

(* std::sort may leave packages of equal priority in any order. *)
SortByPriority ==
  /\ drawing = "sort"
  /\ needed' \in {s \in SetToSeqs({p \in Pkgs : prio[p] >= 0}) :
                    \A i \in 1..Len(s)-1 : prio[s[i]] <= prio[s[i+1]]}
  /\ drawing' = "arrows"
  /\ UNCHANGED <<deps, prio, calls, arrows, row, cyclic>>

(* DownArrow and SetNeed: arrows of dependencies above are made longer. *)
MakeArrow ==
  /\ drawing = "arrows" /\ row < Len(needed)
  /\ LET p == needed[row + 1] IN
     arrows' = [q \in DOMAIN arrows \cup {p} |->
                  IF q = p THEN [start |-> row, end |-> row, col |-> -1]
                  ELSE IF q \in ToSet(deps[p]) THEN [arrows[q] EXCEPT !.end = Max({@, row})]
                  ELSE arrows[q]]
  /\ row' = row + 1
  /\ UNCHANGED <<deps, prio, calls, needed, drawing, cyclic>>

EndOfRows(phase, next) ==
  /\ drawing = phase /\ row = Len(needed)
  /\ drawing' = next /\ row' = 0
  /\ UNCHANGED <<deps, prio, calls, needed, arrows, cyclic>>

Compatible(a, b) == a.start > b.end \/ a.end < b.start

(* The first column in which no arrow placed before is in the way. *)
PlaceArrow ==
  /\ drawing = "columns" /\ row < Len(needed)
  /\ LET p == needed[row + 1]
         taken == {arrows[q].col : q \in {r \in ToSet(SubSeq(needed, 1, row)) :
                                            ~ Compatible(arrows[r], arrows[p])}}
     IN arrows' = [arrows EXCEPT ![p].col = Min((0..row) \ taken)]
  /\ row' = row + 1
  /\ UNCHANGED <<deps, prio, calls, needed, drawing, cyclic>>

(* Template: the columns with a bar below line v. *)
Bars(v) == {arrows[q].col : q \in {r \in DOMAIN arrows : arrows[r].start <= v /\ arrows[r].end > v}}

(* HRef: the columns with a cross in line v, where its package's dependencies are. *)
Crosses(v) ==
  {arrows[q].col : q \in {r \in ToSet(deps[needed[v+1]]) \cap DOMAIN arrows : arrows[r].start < v}}

Init ==
  /\ deps \in [Pkgs -> DepLists]
  /\ prio = [p \in Pkgs |-> IF p = Wanted THEN -2 ELSE -1]
  /\ calls = <<Call(Wanted)>>
  /\ needed = <<>> /\ arrows = <<>> /\ drawing = "priority" /\ row = 0 /\ cyclic = FALSE

Next ==
  \/ Dependency \/ Evaluated \/ AllEvaluated \/ SortByPriority \/ MakeArrow \/ PlaceArrow
  \/ EndOfRows("arrows", "columns") \/ EndOfRows("columns", "drawn")

--------------------------------------------------------------------------
(* The types of the evaluation and of the drawing. *)
TypeOK ==
  /\ prio \in [Pkgs -> -2..Cardinality(Pkgs) * Cardinality(Pkgs)]
  /\ Len(calls) <= Cardinality(Pkgs)
  /\ \A i \in DOMAIN calls : calls[i].max >= 0
  /\ ToSet(needed) \subseteq Pkgs /\ DOMAIN arrows \subseteq ToSet(needed)
  /\ row \in 0..Len(needed) /\ cyclic \in BOOLEAN

(* What the drawing is for (dependency.cc:233-320): every package is drawn    *)
(* below those it needs, unless there is a cycle, each of them has a cross in *)
(* its line, of an arrow that comes from above, and no two arrows run in one  *)
(* column of a line.                                                          *)
DrawingIsRight ==
  drawing = "drawn" =>
    \A i \in DOMAIN needed :
      LET p == needed[i]
          known == ToSet(deps[p]) \cap Pkgs
      IN /\ known \subseteq ToSet(needed)
         /\ ~ cyclic =>
              /\ known \subseteq ToSet(SubSeq(needed, 1, i - 1))
              /\ Cardinality(Crosses(i - 1)) = Cardinality(known)
              /\ i > 1 => Crosses(i - 1) \subseteq Bars(i - 2)
         /\ \A q \in ToSet(needed) \ {p} :
              arrows[q].col = arrows[p].col =>
                arrows[q].start > arrows[p].end \/ arrows[p].start > arrows[q].end
=============================================================================
