----------------------------- MODULE BuildTarget -----------------------------
(***************************************************************************)
(* scripts/Build-Target: the build of a whole target.  One run removes the *)
(* logs that must not survive from the last one, then asks                 *)
(* Create-PkgQueue -single for a job, has Build-Pkg build it and looks at  *)
(* the log files, until the queue is empty or an error stops the build.    *)
(* A run may end at any point with a crash; the user starts the next one.  *)
(* With -job, a run builds one job the user has named.                     *)
(***************************************************************************)
EXTENDS BuildPkg

CONSTANTS
  ContinueOnErrorAfter,   \* SDECFG_CONTINUE_ON_ERROR_AFTER
  RetryBroken,            \* SDECFG_RETRY_BROKEN
  PkgFiles,               \* SDECFG_PKGFILE_TYPE # none
  JobMode,                \* whether the user starts runs with -job
  MaxRuns, MaxCrashes     \* bounds on what the user and the host do

ASSUME BuildTargetOptions ==
  /\ ContinueOnErrorAfter \in 0 .. 9
  /\ {RetryBroken, PkgFiles, JobMode} \subseteq BOOLEAN
  /\ {MaxRuns, MaxCrashes} \subseteq Nat

VARIABLES
  pc,        \* where Build-Target is; "down": it does not run
  cur,       \* the job pkgloop_package works on
  jobrun,    \* this run was started with -job
  pkgbin,    \* pkgbin[p]: the stages whose files are in pkgs/p.tar.*
  pkgdb,     \* the packages listed in pkgs/packages.db
  ended,     \* how the last run ended
  runs, crashes

tgvars == <<cur, jobrun, pkgbin, pkgdb, runs, crashes>>
vars == <<bpvars, pc, ended, tgvars>>

PCs == {"down", "clean", "clean_out", "queue", "build", "wait", "pack", "finish"}

TypeOK ==
  /\ BuildPkgTypeOK
  /\ pc \in PCs
  /\ cur \in Jobs
  /\ jobrun \in BOOLEAN
  /\ pkgbin \in [Packages -> SUBSET (1 .. 9)]
  /\ pkgdb \subseteq Packages
  /\ ended \in {"no", "done", "aborted", "crashed"}
  /\ runs \in 0 .. MaxRuns
  /\ crashes \in 0 .. MaxCrashes

Init ==
  /\ BuildPkgInit
  /\ pc = "down"
  /\ cur \in Jobs
  /\ jobrun = FALSE
  /\ pkgbin = [p \in Packages |-> {}]
  /\ pkgdb = {}
  /\ ended = "no"
  /\ runs = 0 /\ crashes = 0

-----------------------------------------------------------------------------
End(how) == pc' = "down" /\ ended' = how

StartRun ==
  /\ pc = "down" /\ runs < MaxRuns
  /\ runs' = runs + 1
  /\ jobrun' = FALSE
  /\ pc' = "clean" /\ ended' = "no"
  /\ UNCHANGED <<bpvars, cur, pkgbin, pkgdb, crashes>>

\* -job: the two rm commands are one, whose single argument names no file (a
\* quote is not closed), so the old logs stay for Build-Pkg to remove.
StartJob(j) ==
  /\ JobMode
  /\ pc = "down" /\ runs < MaxRuns
  /\ runs' = runs + 1
  /\ jobrun' = TRUE
  /\ cur' = j
  /\ pc' = "build" /\ ended' = "no"
  /\ UNCHANGED <<bpvars, pkgbin, pkgdb, crashes>>

\* Variant: all logs of the jobs that are to be tried again.
CleanErrAndLogs ==
  /\ pc = "clean"
  /\ files' = [j \in Jobs |-> IF RetryBroken \/ j[1] <= ContinueOnErrorAfter
                              THEN {} ELSE files[j]]
  /\ pc' = "clean_out"
  /\ UNCHANGED <<step, rc, records, cache, history, ended, tgvars>>

\* Remove the error logs of the jobs that are to be tried again.
CleanErr ==
  /\ pc = "clean"
  /\ files' = [j \in Jobs |-> IF RetryBroken \/ j[1] <= ContinueOnErrorAfter
                              THEN files[j] \ {"err"} ELSE files[j]]
  /\ pc' = "clean_out"
  /\ UNCHANGED <<step, rc, records, cache, history, ended, tgvars>>

\* Variants: the output files stay; all log files are removed.
CleanNothing ==
  /\ pc = "clean_out"
  /\ pc' = "queue"
  /\ UNCHANGED <<bpvars, ended, tgvars>>
CleanAll ==
  /\ pc = "clean_out"
  /\ files' = [j \in Jobs |-> {}]
  /\ pc' = "queue"
  /\ UNCHANGED <<step, rc, records, cache, history, ended, tgvars>>

CleanOut ==
  /\ pc = "clean_out"
  /\ files' = [j \in Jobs |-> files[j] \ {"out"}]
  /\ pc' = "queue"
  /\ UNCHANGED <<step, rc, records, cache, history, ended, tgvars>>

\* next=`Create-PkgQueue -single`; then Download, whose result is not used.
TakeNext(j) ==
  /\ pc = "queue"
  /\ IsFirst(files, j)
  /\ cur' = j
  /\ pc' = "build"
  /\ UNCHANGED <<bpvars, ended, jobrun, pkgbin, pkgdb, runs, crashes>>

\* Variant: Create-PkgQueue has no output because it failed.
QueueFailed ==
  /\ pc = "queue"
  /\ pc' = "finish"
  /\ UNCHANGED <<bpvars, ended, tgvars>>

QueueEmpty ==
  /\ pc = "queue"
  /\ Queue(files) = {}
  /\ pc' = "finish"
  /\ UNCHANGED <<bpvars, ended, tgvars>>

\* pkgloop_action
CallBuildPkg ==
  /\ pc = "build"
  /\ Start(cur) \/ StartFails(cur)
  /\ pc' = "wait"
  /\ UNCHANGED <<ended, tgvars>>

\* Variant: ... in the first stage.
WantFirstStage(j) ==
  /\ PkgFiles /\ j[1] > 0
  /\ \A s \in Stages[j[2]] : s >= j[1]
  /\ "err" \notin files[j]

\* A package file is made in the last stage of a package that is not broken.
WantPkgFile(j) ==
  /\ PkgFiles /\ j[1] > 0
  /\ \A s \in Stages[j[2]] : s <= j[1]
  /\ "err" \notin files[j]

\* The next job, or with -job the end.
PackageDone == IF jobrun THEN End("done") ELSE pc' = "queue" /\ UNCHANGED ended

\* Build-Pkg has failed, and the error is not to be continued after.
StopOnError ==
  /\ pc = "wait" /\ Collect(cur)
  /\ rc[cur] = 1 /\ cur[1] <= ContinueOnErrorAfter
  /\ End("aborted")
  /\ UNCHANGED <<files, tgvars>>

\* Variant: no error stops the build.
GoesOnAlways == TRUE

GoesOn == rc[cur] = 0 \/ cur[1] > ContinueOnErrorAfter

\* Variants: the build is called abnormal whatever files there are; or is
\* just tried again.
AbnormalAlways ==
  /\ pc = "wait" /\ Collect(cur) /\ GoesOn
  /\ files' = [files EXCEPT ![cur] = @ \union {"err"}]
  /\ End("aborted")
  /\ UNCHANGED tgvars
AbnormalRetry ==
  /\ pc = "wait" /\ Collect(cur) /\ GoesOn
  /\ Absent(files, cur)
  /\ pc' = "queue"
  /\ UNCHANGED <<files, ended, tgvars>>

\* "Package build ended abnormally": neither .log nor .err is there.
AbnormalEnd ==
  /\ pc = "wait" /\ Collect(cur) /\ GoesOn
  /\ Absent(files, cur)
  /\ files' = [files EXCEPT ![cur] = @ \union {"err"}]
  /\ End("aborted")
  /\ UNCHANGED tgvars

NormalEnd ==
  /\ pc = "wait" /\ Collect(cur) /\ GoesOn
  /\ ~Absent(files, cur)
  /\ IF WantPkgFile(cur) THEN pc' = "pack" /\ UNCHANGED ended ELSE PackageDone
  /\ UNCHANGED <<files, tgvars>>

\* Variant: the records of the toolchain are packed, too.
PackAll ==
  /\ pc = "pack"
  /\ pkgbin' = [pkgbin EXCEPT ![cur[2]] = flist[cur[2]]]
  /\ PackageDone
  /\ UNCHANGED <<bpvars, cur, jobrun, pkgdb, runs, crashes>>

\* tar the files of the file list into a .tmp file, then mv it.
Pack ==
  /\ pc = "pack"
  /\ pkgbin' = [pkgbin EXCEPT ![cur[2]] = flist[cur[2]] \ {0}]
  /\ PackageDone
  /\ UNCHANGED <<bpvars, cur, jobrun, pkgdb, runs, crashes>>

\* The package database lists the described packages that have a file.
FinishBuild ==
  /\ pc = "finish"
  /\ pkgdb' = IF PkgFiles THEN {p \in Packages : adm[p] # {} /\ pkgbin[p] # {}}
                          ELSE pkgdb
  /\ End("done")
  /\ UNCHANGED <<bpvars, cur, jobrun, pkgbin, runs, crashes>>

\* Build-Pkg works while Build-Target waits for it.
BuildPkgWorks ==
  /\ pc = "wait"
  /\ BuildPkgStep(cur)
  /\ UNCHANGED <<pc, ended, tgvars>>

HostCrash ==
  /\ pc # "down" /\ crashes < MaxCrashes
  /\ crashes' = crashes + 1
  /\ Crash
  /\ End("crashed")
  /\ UNCHANGED <<cur, jobrun, pkgbin, pkgdb, runs>>

\* The steps of the program, as opposed to those of the user and the host.
Program ==
  \/ CleanErr \/ CleanOut \/ QueueEmpty \/ (\E j \in Jobs : TakeNext(j))
  \/ CallBuildPkg \/ BuildPkgWorks
  \/ StopOnError \/ AbnormalEnd \/ NormalEnd
  \/ Pack \/ FinishBuild

Next == Program \/ StartRun \/ (\E j \in Jobs : StartJob(j)) \/ HostCrash

Spec == Init /\ [][Next]_vars

\* The program is not stopped, and a package build does not hang.
FairSpec == Spec /\ WF_vars(Program)

-----------------------------------------------------------------------------
Running(j) == step[j] \notin {"idle", "exited"}

\* Jobs are built in the order of the queue: while Build-Pkg runs, all jobs
\* before its own are settled, in stages below 9 without a failure if broken
\* dependencies are not allowed.  Only with NoBrokenDeps can a job of stage 9
\* be passed over (Create-PkgQueue skips it) and a later one be built.
InOrder ==
  ~jobrun => \A j \in Jobs : Running(j) =>
    \A k \in Jobs : Before(k, j) =>
      /\ (k[1] < 9 \/ ~NoBrokenDeps) => ~Absent(files, k)
      /\ (j[1] < 9 /\ NoBrokenDeps) => "err" \notin files[k]

\* "Do not try building packages if deps failed": no job is started while a
\* job it depends on, as one of those before it in the queue, is broken.
HeldBackByBroken ==
  NoBrokenDeps /\ ~jobrun => \A j \in Jobs : Running(j) =>
    \A k \in Jobs : Before(k, j) => "err" \notin files[k]

\* "Always abort on package error" up to ContinueOnErrorAfter: the loop goes
\* on only while no job of these stages has failed, in this run or before.
NoErrorPassed ==
  ~jobrun /\ pc \in {"queue", "build", "pack", "finish"} =>
    \A j \in Jobs : j[1] <= ContinueOnErrorAfter => "err" \notin files[j]

\* A job has not both a .log and an .err (Create-ErrList counts each job
\* once, as completed or as failed).
LogErrExclusive == \A j \in Jobs : ~({"log", "err"} \subseteq files[j])

\* A run that came to its end has settled every job, unless jobs were held
\* back because packages before them are broken.
DoneIsComplete ==
  ended = "done" /\ ~jobrun =>
    \A j \in Jobs : Absent(files, j) =>
      NoBrokenDeps /\ \E k \in Jobs : Before(k, j) /\ "err" \in files[k]

\* A job that has a .log while the queue is consulted is a complete build:
\* what it installed is in the package's records.
LogMeansComplete ==
  pc \in {"queue", "finish"} => \A j \in Jobs : "log" \in files[j] =>
    j[1] \in disk[j[2]] \cap flist[j[2]] \cap adm[j[2]]

\* After a run that came to its end, each package whose last stage was built
\* has a package file with all that its builds have installed, and is in the
\* package database.
PkgFilesCurrent ==
  ended = "done" /\ ~jobrun /\ PkgFiles =>
    \A j \in Jobs : j[1] > 0 /\ "log" \in files[j] /\ (\A s \in Stages[j[2]] : s <= j[1]) =>
      /\ disk[j[2]] \ {0} \subseteq pkgbin[j[2]]
      /\ j[2] \in pkgdb

\* Within a run, a job that has its verdict is not touched again.
VerdictStands ==
  [][pc # "clean" /\ ~jobrun => \A j \in Jobs :
       ~Absent(files, j) /\ ~Running(j) => ~Absent(files, j)' /\ ~Running(j)']_vars

\* Every run ends: each turn of the loop settles a job or ends the run.
RunEnds == pc # "down" ~> pc = "down"

-----------------------------------------------------------------------------
\* The verdict on a job as the log files tell it.
PlanStatus ==
  [j \in Jobs |-> IF step[j] # "idle"       THEN "running"
                  ELSE IF "err" \in files[j] THEN "failed"
                  ELSE IF "log" \in files[j] THEN "built" ELSE "todo"]

Plan == INSTANCE BuildPlan WITH status <- PlanStatus

\* Build-Target, with its crashes and restarts, carries out the build plan.
ImplementsPlan == Plan!PlanSpec
=============================================================================
