------------------------------ MODULE PkgQueue ------------------------------
(***************************************************************************)
(* Which package is built next.  scripts/Create-PkgQueue reads the         *)
(* packages file of a configuration once per stage level, 0 to 9, and      *)
(* decides for each line, from the log files found in var/adm/logs and     *)
(* from what the earlier lines left missing, whether the package can be    *)
(* built now.                                                              *)
(*                                                                         *)
(* This module gives the decision in closed form, as a predicate of the    *)
(* log files; PkgQueueScan models the loop itself and shows that it        *)
(* computes this.  A package is identified with its line number in the     *)
(* packages file, a job <<s, p>> is the build of package p in stage s.     *)
(***************************************************************************)
EXTENDS Naturals

CONSTANTS
  NumPackages,    \* active lines ("X ...") of the packages file
  Stages,         \* Stages[p]: the stage levels named by the line of p
  T2Debug,        \* the line of package t2-debug, 0 if it is not selected
  NoBrokenDeps    \* SDECFG_NOBROKENDEPS

Packages == 1 .. NumPackages

ASSUME PackagesFile ==
  /\ NumPackages \in Nat
  /\ Stages \in [Packages -> SUBSET (0 .. 9)]
  /\ T2Debug \in Nat
  /\ NoBrokenDeps \in BOOLEAN

Jobs == {j \in (0 .. 9) \X Packages : j[1] \in Stages[j[2]]}

\* The files <stage>-<package>.out, .log and .err of a job.
Logs == {"out", "log", "err"}

\* The order in which the scan meets the jobs: stage by stage, each in file order.
Before(k, j) == k[1] < j[1] \/ (k[1] = j[1] /\ k[2] < j[2])

-----------------------------------------------------------------------------
\* Neither a .log nor an .err: the job is still to be done.
Absent(files, j) == "log" \notin files[j] /\ "err" \notin files[j]

\* Variant: broken jobs are not missing.
MissingAbsent(files, j) == Absent(files, j)

\* A job that puts its package on the not_present list.
Missing(files, j) == Absent(files, j) \/ (NoBrokenDeps /\ "err" \in files[j])

MissingBefore(files, j) == {k \in Jobs : Before(k, j) /\ Missing(files, k)}

\* The database of dependencies is empty in Create-PkgQueue (its reading is
\* commented out), so every package depends on all the packages built before
\* it, except in stage 9 once no job of a lower stage is absent.
DepsSatisfied(files, j) ==
  \/ MissingBefore(files, j) = {}
  \/ j[1] = 9 /\ \A k \in Jobs : k[1] < 9 => ~Absent(files, k)

Buildable(files, j) ==
  /\ Absent(files, j)
  /\ "out" \notin files[j]
  /\ \A k \in MissingBefore(files, j) : k[2] # j[2]
  /\ j[1] = 0 => MissingBefore(files, j) = {}
  /\ j[1] > 0 => \A k \in Jobs : k[1] = 0 => ~Absent(files, k)
  /\ j[1] >= 2 => \A k \in Jobs : k[1] <= 1 => ~Absent(files, k)
  /\ DepsSatisfied(files, j)
  /\ j[2] = T2Debug => MissingBefore(files, j) = {}

\* The output of Create-PkgQueue, and of Create-PkgQueue -single.
Queue(files) == {j \in Jobs : Buildable(files, j)}

IsFirst(files, j) ==
  /\ j \in Queue(files)
  /\ \A k \in Queue(files) : k = j \/ Before(j, k)
=============================================================================
