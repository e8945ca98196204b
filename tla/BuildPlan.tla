----------------------------- MODULE BuildPlan -----------------------------
(***************************************************************************)
(* What a target build promises, without logs, processes or scripts: jobs  *)
(* are built one at a time, in order, each has a verdict when it is over,  *)
(* and a job is taken up again only if it failed or was lost.              *)
(* BuildTarget implements it (see PlanStatus there).                       *)
(***************************************************************************)
EXTENDS PkgQueue

CONSTANT JobMode    \* whether the user may have single jobs built again

VARIABLE status     \* [Jobs -> {"todo", "running", "built", "failed"}]

PlanTypeOK == status \in [Jobs -> {"todo", "running", "built", "failed"}]

PlanInit == status = [j \in Jobs |-> "todo"]

NoneRunning == \A k \in Jobs : status[k] # "running"
Settled(k) == status[k] \in {"built", "failed"}

\* All jobs before j are over.  With NoBrokenDeps none of them has failed,
\* except that stage 9 is not held back by a failure, but passes over jobs.
Due(j) ==
  \A k \in Jobs : Before(k, j) =>
    /\ (k[1] < 9 \/ ~NoBrokenDeps) => Settled(k)
    /\ (j[1] < 9 /\ NoBrokenDeps) => status[k] = "built"

Begin(j) ==
  /\ NoneRunning /\ status[j] = "todo" /\ Due(j)
  /\ status' = [status EXCEPT ![j] = "running"]

\* The user names a job.
Redo(j) ==
  /\ JobMode /\ NoneRunning
  /\ status' = [status EXCEPT ![j] = "running"]

\* The build ends with a verdict, or it is lost in a crash.
EndOf(j) ==
  /\ status[j] = "running"
  /\ \E v \in {"built", "failed", "todo"} : status' = [status EXCEPT ![j] = v]

\* A new run takes up failed jobs again; but one that the user has had built
\* again may then count as what it was before, as built.
Retry ==
  LET Failed == {j \in Jobs : status[j] = "failed"}
  IN  /\ NoneRunning
      /\ \E S \in SUBSET Failed, B \in IF JobMode THEN SUBSET Failed ELSE {{}} :
           status' = [j \in Jobs |-> IF j \in B THEN "built"
                                    ELSE IF j \in S THEN "todo" ELSE status[j]]

PlanNext == Retry \/ \E j \in Jobs : Begin(j) \/ Redo(j) \/ EndOf(j)

PlanSpec == PlanInit /\ [][PlanNext]_status
=============================================================================
