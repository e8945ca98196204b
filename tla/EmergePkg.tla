----------------------------- MODULE EmergePkg -----------------------------
(***************************************************************************)
(* scripts/Emerge-Pkg: which packages an installed system has to build     *)
(* anew, and their builds.  add_if_updated, add_if_req and dep4pkg call    *)
(* each other; their depth-first walk over the dependencies is a stack of  *)
(* the lists that the loops of dep4pkg have still to go through.           *)
(***************************************************************************)
EXTENDS Naturals, Sequences, SequencesExt, FiniteSets, Relation

CONSTANTS
  Installable,  \* the packages, each its line in the packages file
  DepGraphs,    \* the lists of dependencies in their .cache files
  Systems,      \* the state of each package on the system
  Emerges       \* commands: args, deps, missing, force, rebuild, single, fetch, fatal

(* Not installed; installed, with another version or checksum; its last build *)
(* failed; up to date; without a description, or with several.                *)
PkgStates == {"absent", "new", "broken", "current", "unknown"}

VARIABLES
  emerge,    \* the command, one of Emerges
  graph, installed,  \* one of DepGraphs, one of Systems
  emPhase,   \* "walk", "complete", "fetch", "build", "end"
  todo,      \* the lists that the loops have still to go through, innermost first
  rest,      \* the list of the outermost loop after the arguments
  depth, been, deplist,
  emBuilt,   \* history: the packages whose Build-Pkg was run
  emStatus   \* exit status

emVars == <<emerge, graph, installed, emPhase, todo, rest, depth, been, deplist, emBuilt, emStatus>>

Given == <<emerge, graph, installed>>

(* The C library and the like: only an argument has them updated. *)
Blacklisted == {p \in Installable : \A q \in Installable : q <= p}

NeedsBuild(p, forced) ==
  \/ installed[p] \in {"absent", "new"}
  \/ installed[p] = "broken" /\ emerge.rebuild
  \/ installed[p] = "current" /\ forced

(* add_if_req: some more checks for packages not manually specified. *)
Refused(p) ==
  \/ p \in Blacklisted
  \/ installed[p] = "absent" /\ emerge.missing = "no"
  \/ installed[p] # "absent" /\ emerge.missing = "only"

Added(p) ==
  IF depth = 0 THEN NeedsBuild(p, emerge.force) ELSE NeedsBuild(p, FALSE) /\ ~Refused(p)

(* add_if_updated, and dep4pkg of a package that is added. *)
Look ==
  /\ todo # <<>> /\ Head(todo) # <<>>
  /\ LET p == Head(Head(todo))
         loops == <<Tail(Head(todo))>> \o Tail(todo)
         added == p \notin been /\ Added(p)
         enters == added /\ emerge.deps = "indirect" IN
     /\ been' = been \cup {p}
     /\ deplist' = IF added THEN Append(deplist, p) ELSE deplist
     /\ todo' = IF enters THEN <<graph[p]>> \o loops ELSE loops
     /\ depth' = IF enters THEN depth + 1 ELSE depth
  /\ UNCHANGED <<Given, emPhase, rest, emBuilt, emStatus>>

(* A loop of dep4pkg ends. *)
Leave ==
  /\ todo # <<>> /\ Head(todo) = <<>>
  /\ Len(todo) > 1 \/ emPhase = "complete"
  /\ todo' = Tail(todo) /\ depth' = depth - 1
  /\ UNCHANGED <<Given, emPhase, rest, been, deplist, emBuilt, emStatus>>

(* The arguments are through. *)
ArgsDone ==
  /\ emPhase = "walk" /\ todo = <<<<>>>>
  /\ todo' = <<>> /\ emPhase' = "complete"
  /\ rest' = IF emerge.deps = "none" THEN <<>> ELSE deplist
  /\ UNCHANGED <<Given, depth, been, deplist, emBuilt, emStatus>>

(* dep4pkg of each package that is on the list by now. *)
DepsOfNext ==
  /\ emPhase = "complete" /\ todo = <<>> /\ rest # <<>>
  /\ todo' = <<graph[Head(rest)]>> /\ rest' = Tail(rest) /\ depth' = depth + 1
  /\ UNCHANGED <<Given, emPhase, been, deplist, emBuilt, emStatus>>

(* In the order of the packages file, each package once. *)
SortList ==
  /\ emPhase = "complete" /\ todo = <<>> /\ rest = <<>>
  /\ rest' = SetToSortSeq(ToSet(deplist), <) /\ emPhase' = "fetch"
  /\ UNCHANGED <<Given, todo, depth, been, deplist, emBuilt, emStatus>>

(* The status of the loop is that of its last command: with -download-only *)
(* this is a test that fails.                                              *)
Fetch(ok) ==
  /\ emPhase = "fetch" /\ rest # <<>>
  /\ emPhase' = IF ~ok THEN "end" ELSE IF emerge.fetch THEN "fetch" ELSE "build"
  /\ rest' = IF ok /\ emerge.fetch THEN Tail(rest) ELSE rest
  /\ emStatus' = IF ok /\ ~emerge.fetch THEN 0 ELSE 1
  /\ UNCHANGED <<Given, todo, depth, been, deplist, emBuilt>>

Build(ok) ==
  /\ emPhase = "build"
  /\ emBuilt' = Append(emBuilt, Head(rest))
  /\ rest' = Tail(rest)
  /\ emStatus' = IF ~ok /\ emerge.fatal THEN 1 ELSE 0
  /\ emPhase' = IF ~ok /\ emerge.fatal THEN "end" ELSE "fetch"
  /\ UNCHANGED <<Given, todo, depth, been, deplist>>

EmergeEnds ==
  /\ emPhase = "fetch" /\ rest = <<>>
  /\ emPhase' = "end"
  /\ UNCHANGED <<Given, todo, rest, depth, been, deplist, emBuilt, emStatus>>

(* -repository and -system look at packages that nobody named, at depth 1. *)
Init ==
  /\ emerge \in Emerges /\ graph \in DepGraphs /\ installed \in Systems
  /\ todo = <<emerge.args>> /\ depth = IF emerge.single THEN 1 ELSE 0
  /\ emPhase = "walk" /\ rest = <<>> /\ been = {} /\ deplist = <<>>
  /\ emBuilt = <<>> /\ emStatus = 0

Next ==
  \/ Look \/ Leave \/ ArgsDone \/ DepsOfNext \/ SortList \/ EmergeEnds
  \/ \E ok \in BOOLEAN : Fetch(ok) \/ Build(ok)

Spec == Init /\ [][Next]_emVars

--------------------------------------------------------------------------
TypeOK ==
  /\ installed \in [Installable -> PkgStates]
  /\ emPhase \in {"walk", "complete", "fetch", "build", "end"}
  /\ depth \in Nat /\ been \subseteq Installable /\ emStatus \in {0, 1}
  /\ {deplist, rest, emBuilt} \subseteq Seq(Installable)

NeededBy == [p, d \in Installable |-> d \in ToSet(graph[p])]
NeededDep(d) == NeedsBuild(d, FALSE) /\ ~Refused(d)

(* Two arguments, and the first one needs the other. *)
BehindItsUser(a) ==
  \E i, k \in DOMAIN emerge.args :
    i < k /\ emerge.args[k] = a
      /\ TransitiveClosure(NeededBy, Installable)[emerge.args[i], a]

(* What is scheduled (Emerge-Pkg:90-256): of the arguments those that are not *)
(* up to date, unless an earlier argument made a dependency of them; of the   *)
(* dependencies those of scheduled packages (fast: of scheduled arguments)    *)
(* that may be updated unasked; nothing else, and nothing twice.              *)
ScheduleIsRight ==
  LET args == ToSet(emerge.args)
      asked == IF emerge.single THEN {p \in args : NeededDep(p)}
               ELSE {p \in args : NeedsBuild(p, emerge.force)}
      scheduled == ToSet(deplist)
      direct == {d \in Installable \ args : NeededDep(d) /\ \E p \in asked : NeededBy[p, d]} IN
  emPhase \notin {"walk", "complete"} =>
    /\ Cardinality(scheduled) = Len(deplist)
    /\ emerge.deps = "none" => scheduled = asked
    /\ emerge.deps = "fast" => scheduled = asked \cup direct
    /\ emerge.deps = "indirect" =>
         /\ \A a \in asked : a \in scheduled \/ BehindItsUser(a)
         /\ \A p \in scheduled, d \in Installable :
              NeededBy[p, d] /\ NeededDep(d) => d \in scheduled
         /\ \A d \in scheduled : d \in asked \/ (NeededDep(d) /\ \E p \in scheduled : NeededBy[p, d])

(* What is built (Emerge-Pkg:268-281): the scheduled packages in the order of *)
(* the packages file, all of them if the command ends with success.           *)
BuildsAreRight ==
  /\ \A i, k \in DOMAIN emBuilt : i < k => emBuilt[i] < emBuilt[k]
  /\ ToSet(emBuilt) \subseteq ToSet(deplist)
  /\ emPhase = "end" /\ emStatus = 0 => ToSet(emBuilt) = ToSet(deplist)
=============================================================================
