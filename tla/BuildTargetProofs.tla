------------------------- MODULE BuildTargetProofs -------------------------
(***************************************************************************)
(* Proofs about Build-Target and the Build-Pkg processes it starts, for    *)
(* any packages file, any options and any number of runs, restarts and     *)
(* crashes.  Build-Pkg: what the log files of a job say about its build is *)
(* true, whatever fails, is killed or crashes; of a build that got a       *)
(* Ctrl-C, less is true (see InterruptIsFailure, which does not hold).     *)
(* Build-Target: the order of the build, and that it carries out the plan. *)
(***************************************************************************)
EXTENDS BuildTarget, WellFoundedInduction, TLAPS

--------------------------------------------------------------------------
(* Build-Pkg. *)
LEMMA JobParts == \A j \in Jobs : j[1] \in 0 .. 9 /\ j[2] \in Packages
BY DEF Jobs

Records == [Packages -> SUBSET (0 .. 9)]

\* A record grows by the stage of the job.
LEMMA Recorded ==
  ASSUME NEW rec \in Records, NEW j \in Jobs
  PROVE  /\ Record(rec, j) \in Records
         /\ j[1] \in Record(rec, j)[j[2]]
         /\ \A p \in Packages : rec[p] \subseteq Record(rec, j)[p]
BY JobParts DEF Record, Records

\* The job is on record, and the jobs that were on record still are.
Recording(rec, j) ==
  /\ j[1] \in Record(rec, j)[j[2]]
  /\ \A k \in Jobs : k[1] \in rec[k[2]] => k[1] \in Record(rec, j)[k[2]]

LEMMA BuildPkgTypeInit == BuildPkgInit => BuildPkgTypeOK
<1> SUFFICES ASSUME BuildPkgInit PROVE BuildPkgTypeOK
  OBVIOUS
<1>1. aborted \in [Jobs -> BOOLEAN]
  BY DEF BuildPkgInit
<1> QED
  BY <1>1 DEF BuildPkgInit, BuildPkgTypeOK, Steps, Logs

LEMMA AbortTypes ==
  ASSUME BuildPkgTypeOK, NEW j \in Jobs, Abort(j) \/ UNCHANGED <<files, aborted>>
  PROVE  files' \in [Jobs -> SUBSET Logs] /\ aborted' \in [Jobs -> BOOLEAN]
<1>1. CASE Abort(j)
  <2>1. files' \in [Jobs -> SUBSET Logs]
    BY <1>1 DEF BuildPkgTypeOK, Abort
  <2>2. aborted' \in [Jobs -> BOOLEAN]
    BY <1>1 DEF BuildPkgTypeOK, Abort
  <2> QED
    BY <2>1, <2>2
<1>2. CASE UNCHANGED <<files, aborted>>
  BY <1>2 DEF BuildPkgTypeOK
<1> QED
  BY <1>1, <1>2

LEMMA BuildPkgTypeStep == BuildPkgTypeOK /\ [BuildPkgNext]_bpvars => BuildPkgTypeOK'
<1> SUFFICES ASSUME BuildPkgTypeOK, [BuildPkgNext]_bpvars
             PROVE  BuildPkgTypeOK'
  OBVIOUS
<1> USE DEF BuildPkgTypeOK, Goto, Exit, Leave, records, history, Steps, Logs, FirstRun
<1>1. ASSUME NEW j \in Jobs, Start(j)
      PROVE  BuildPkgTypeOK'
  BY <1>1 DEF Start
<1>2. ASSUME NEW j \in Jobs, StartFails(j)
      PROVE  BuildPkgTypeOK'
  BY <1>2 DEF StartFails
<1>3. ASSUME NEW j \in Jobs, BuildPkgStep(j)
      PROVE  BuildPkgTypeOK'
  <2>1. /\ Record(disk, j) \in Records /\ Record(flist, j) \in Records
        /\ Record(adm, j) \in Records
    BY Recorded DEF Records
  <2> USE DEF Records
  <2>0. CASE RemoveLog(j) \/ RemoveErr(j) \/ RemoveCache(j)
    BY <2>0, JobParts DEF RemoveLog, RemoveErr, RemoveCache, ForgetCache
  <2>2. CASE ConfigFails(j)
    BY <2>2 DEF ConfigFails
  <2>3. CASE OpenOutput(j)
    BY <2>3 DEF OpenOutput
  <2>4. CASE MainBuild(j)
    BY <2>1, <2>4 DEF MainBuild
  <2>5. CASE MainBuildFails(j)
    BY <2>1, <2>5 DEF MainBuildFails, Abort
  <2>6. CASE FileList(j)
    <3>1. flist' \in Records
      BY <2>1, <2>6 DEF FileList
    <3>2. files' \in [Jobs -> SUBSET Logs] /\ aborted' \in [Jobs -> BOOLEAN]
      BY <2>6, AbortTypes DEF FileList
    <3>3. step' \in [Jobs -> Steps] /\ UNCHANGED <<rc, disk, adm, cache, signal, oldlog, olderr>>
      BY <2>6 DEF FileList
    <3> QED
      BY <3>1, <3>2, <3>3
  <2>7. CASE Describe(j)
    <3>1. adm' \in Records
      BY <2>1, <2>7 DEF Describe
    <3>2. files' \in [Jobs -> SUBSET Logs] /\ aborted' \in [Jobs -> BOOLEAN]
      BY <2>7, AbortTypes DEF Describe
    <3>3. step' \in [Jobs -> Steps] /\ UNCHANGED <<rc, disk, flist, cache, signal, oldlog, olderr>>
      BY <2>7 DEF Describe
    <3> QED
      BY <3>1, <3>2, <3>3
  <2>8. CASE Interrupt(j)
    <3>1. disk' \in Records
      BY <2>1, <2>8 DEF Interrupt
    <3>2. signal' \in [Jobs -> {"none", "INT", "KILL"}]
      BY <2>8 DEF Interrupt
    <3>3. step' \in [Jobs -> Steps] /\ rc' \in [Jobs -> {0, 1}]
      BY <2>8 DEF Interrupt
    <3> QED
      BY <2>8, <3>1, <3>2, <3>3 DEF Interrupt
  <2>9. CASE Killed(j)
    <3>1. disk' \in Records
      BY <2>1, <2>9 DEF Killed
    <3>2. signal' \in [Jobs -> {"none", "INT", "KILL"}]
      BY <2>9 DEF Killed
    <3>3. step' \in [Jobs -> Steps] /\ rc' \in [Jobs -> {0, 1}]
      BY <2>9 DEF Killed
    <3> QED
      BY <2>9, <3>1, <3>2, <3>3 DEF Killed
  <2>10. CASE Finish(j)
    BY <2>10 DEF Finish, Move
  <2>11. CASE WriteCache(j)
    BY <2>11 DEF WriteCache
  <2> QED
    BY <1>3, <2>0, <2>2, <2>3, <2>4, <2>5, <2>6, <2>7, <2>8, <2>9, <2>10, <2>11
       DEF BuildPkgStep
<1>4. ASSUME NEW j \in Jobs, Collect(j), UNCHANGED files
      PROVE  BuildPkgTypeOK'
  BY <1>4 DEF Collect
<1>5. CASE Crash
  BY <1>5 DEF Crash
<1>6. CASE UNCHANGED bpvars
  BY <1>6 DEF bpvars
<1> QED
  BY <1>1, <1>2, <1>3, <1>4, <1>5, <1>6 DEF BuildPkgNext

-----------------------------------------------------------------------------
\* After an abort there is no .log, and later no success.
AbortInv ==
  \A j \in Jobs :
    /\ step[j] \in {"rm_log", "rm_err", "rm_cache", "prepare", "main"} => ~aborted[j]
    /\ step[j] \in {"post", "check", "finish"} /\ aborted[j] => "log" \notin files[j]
    /\ step[j] \in {"timed", "exited"} /\ aborted[j] => rc[j] = 1

\* While a build runs its .out file is there, and a .log stands for what the
\* build has recorded up to this point.
WorkInv ==
  \A j \in Jobs :
    /\ step[j] \in InBlock \union {"finish"} => "out" \in files[j]
    /\ step[j] = "rm_log" => j \in oldlog
    /\ step[j] \in {"rm_err", "rm_cache", "prepare", "main"} => "log" \notin files[j]
    /\ "log" \in files[j] /\ step[j] \in {"post", "check", "finish"} =>
         j[1] \in disk[j[2]]
    /\ "log" \in files[j] /\ step[j] \in {"check", "finish"} /\ signal[j] # "INT" =>
         j[1] \in flist[j[2]]
    /\ "log" \in files[j] /\ step[j] = "finish" /\ signal[j] # "INT" =>
         j[1] \in adm[j[2]]

\* An ERROR in a cache file is that of a build that is timed, whose .err is
\* there, or has been removed just before the cache file will be.
CacheInv ==
  /\ \A j \in Jobs : step[j] \in {"timed", "rm_cache"} => IsTimed(j)
  /\ \A p \in Packages \ olderr : cache[p] = "ERROR" =>
       \E j \in Jobs : j[2] = p /\ IsTimed(j) /\ "err" \in files[j]

BPInv == AbortInv /\ WorkInv /\ LoneLogIsComplete /\ CacheInv

LEMMA BPInit == BuildPkgInit => BPInv
<1> SUFFICES ASSUME BuildPkgInit PROVE BPInv
  OBVIOUS
<1>1. \A j \in Jobs : step[j] = "idle" /\ files[j] = {}
  BY DEF BuildPkgInit
<1>2. \A p \in Packages : cache[p] = "none"
  BY DEF BuildPkgInit
<1> QED
  BY <1>1, <1>2 DEF BPInv, AbortInv, WorkInv, LoneLogIsComplete, CacheInv, InBlock

\* No step brings the .log back after an abort.
LEMMA AbortStep ==
  BuildPkgTypeOK /\ AbortInv /\ [BuildPkgNext]_bpvars => AbortInv'
<1> SUFFICES ASSUME BuildPkgTypeOK, AbortInv, [BuildPkgNext]_bpvars
             PROVE  AbortInv'
  OBVIOUS
<1> USE DEF BuildPkgTypeOK, Goto, Exit, Leave, records, history, AbortInv
<1>1. ASSUME NEW j \in Jobs, Alone(j), Start(j)
      PROVE  AbortInv'
  BY <1>1 DEF Start, Alone
<1>2. ASSUME NEW j \in Jobs, StartFails(j)
      PROVE  AbortInv'
  BY <1>2 DEF StartFails
<1>3. ASSUME NEW j \in Jobs, BuildPkgStep(j)
      PROVE  AbortInv'
  <2>0. CASE RemoveLog(j) \/ RemoveErr(j) \/ RemoveCache(j)
    BY <2>0, JobParts DEF RemoveLog, RemoveErr, RemoveCache, ForgetCache
  <2>2. CASE ConfigFails(j)
    BY <2>2 DEF ConfigFails
  <2>3. CASE OpenOutput(j)
    BY <2>3 DEF OpenOutput
  <2>4. CASE MainBuild(j)
    BY <2>4 DEF MainBuild
  <2>5. CASE MainBuildFails(j)
    BY <2>5 DEF MainBuildFails, Abort
  <2>6. CASE FileList(j)
    BY <2>6 DEF FileList, Abort
  <2>7. CASE Describe(j)
    BY <2>7 DEF Describe, Abort
  <2>8. CASE Killed(j)
    <3>1. /\ step' = [step EXCEPT ![j] = "timed"] \/ step' = [step EXCEPT ![j] = "exited"]
          /\ rc' = [rc EXCEPT ![j] = 1] /\ UNCHANGED <<files, aborted>>
      BY <2>8 DEF Killed
    <3> QED
      BY <3>1
  <2>9. CASE Finish(j)
    BY <2>9 DEF Finish, Move
  <2>10. CASE WriteCache(j)
    BY <2>10 DEF WriteCache
  <2>11. CASE Interrupt(j)
    BY <2>11 DEF Interrupt, InBlock
  <2> QED
    BY <1>3, <2>0, <2>2, <2>3, <2>4, <2>5, <2>6, <2>7, <2>8, <2>9, <2>10, <2>11 DEF BuildPkgStep
<1>4. ASSUME NEW j \in Jobs, Collect(j), UNCHANGED files
      PROVE  AbortInv'
  BY <1>4 DEF Collect
<1>5. CASE Crash
  BY <1>5 DEF Crash
<1>6. CASE UNCHANGED bpvars
  BY <1>6 DEF bpvars
<1> QED
  BY <1>1, <1>2, <1>3, <1>4, <1>5, <1>6 DEF BuildPkgNext

\* Each step records its part before the next relies on it.
LEMMA WorkStep ==
  BuildPkgTypeOK /\ WorkInv /\ [BuildPkgNext]_bpvars => WorkInv'
<1> SUFFICES ASSUME BuildPkgTypeOK, WorkInv, [BuildPkgNext]_bpvars
             PROVE  WorkInv'
  OBVIOUS
<1> USE DEF BuildPkgTypeOK, Goto, Exit, Leave, records, history, WorkInv, InBlock
<1>1. ASSUME NEW j \in Jobs, Alone(j), Start(j)
      PROVE  WorkInv'
  BY <1>1 DEF Start, Alone
<1>2. ASSUME NEW j \in Jobs, StartFails(j)
      PROVE  WorkInv'
  BY <1>2 DEF StartFails
<1>3. ASSUME NEW j \in Jobs, BuildPkgStep(j)
      PROVE  WorkInv'
  <2>1. /\ Recording(disk, j) /\ Recording(flist, j) /\ Recording(adm, j)
    BY Recorded, JobParts DEF Records, Recording
  <2> USE DEF Recording
  <2>0. CASE RemoveLog(j) \/ RemoveErr(j) \/ RemoveCache(j)
    BY <2>0, JobParts DEF RemoveLog, RemoveErr, RemoveCache, ForgetCache
  <2>2. CASE ConfigFails(j)
    BY <2>2 DEF ConfigFails
  <2>3. CASE OpenOutput(j)
    BY <2>3 DEF OpenOutput
  <2>4. CASE MainBuild(j)
    BY <2>1, <2>4 DEF MainBuild
  <2>5. CASE MainBuildFails(j)
    BY <2>1, <2>5 DEF MainBuildFails, Abort
  <2>6. CASE FileList(j)
    BY <2>1, <2>6 DEF FileList, Abort
  <2>7. CASE Describe(j)
    BY <2>1, <2>7 DEF Describe, Abort
  <2>8. CASE Killed(j)
    BY <2>1, <2>8 DEF Killed
  <2>9. CASE Finish(j)
    BY <2>9 DEF Finish, Move
  <2>10. CASE WriteCache(j)
    BY <2>10 DEF WriteCache
  <2>11. CASE Interrupt(j)
    BY <2>1, <2>11 DEF Interrupt
  <2> QED
    BY <1>3, <2>0, <2>2, <2>3, <2>4, <2>5, <2>6, <2>7, <2>8, <2>9, <2>10, <2>11 DEF BuildPkgStep
<1>4. ASSUME NEW j \in Jobs, Collect(j), UNCHANGED files
      PROVE  WorkInv'
  BY <1>4 DEF Collect
<1>5. CASE Crash
  BY <1>5 DEF Crash
<1>6. CASE UNCHANGED bpvars
  BY <1>6 DEF bpvars
<1> QED
  BY <1>1, <1>2, <1>3, <1>4, <1>5, <1>6 DEF BuildPkgNext

\* Only the last step of a build leaves a .log without an .out file.
LEMMA LoneStep ==
  BuildPkgTypeOK /\ WorkInv /\ LoneLogIsComplete /\ [BuildPkgNext]_bpvars => LoneLogIsComplete'
<1> SUFFICES ASSUME BuildPkgTypeOK, WorkInv, LoneLogIsComplete, [BuildPkgNext]_bpvars
             PROVE  LoneLogIsComplete'
  OBVIOUS
<1> USE DEF BuildPkgTypeOK, Goto, Exit, Leave, records, history, WorkInv, LoneLogIsComplete, InBlock
<1>1. ASSUME NEW j \in Jobs, Alone(j), Start(j)
      PROVE  LoneLogIsComplete'
  BY <1>1 DEF Start, Alone
<1>2. ASSUME NEW j \in Jobs, StartFails(j)
      PROVE  LoneLogIsComplete'
  BY <1>2 DEF StartFails
<1>3. ASSUME NEW j \in Jobs, BuildPkgStep(j)
      PROVE  LoneLogIsComplete'
  <2>1. /\ Recording(disk, j) /\ Recording(flist, j) /\ Recording(adm, j)
    BY Recorded, JobParts DEF Records, Recording
  <2> USE DEF Recording
  <2>0. CASE RemoveLog(j) \/ RemoveErr(j) \/ RemoveCache(j)
    BY <2>0, JobParts DEF RemoveLog, RemoveErr, RemoveCache, ForgetCache
  <2>2. CASE ConfigFails(j)
    BY <2>2 DEF ConfigFails
  <2>3. CASE OpenOutput(j)
    BY <2>3 DEF OpenOutput
  <2>4. CASE MainBuild(j)
    BY <2>1, <2>4 DEF MainBuild
  <2>5. CASE MainBuildFails(j)
    BY <2>1, <2>5 DEF MainBuildFails, Abort
  <2>6. CASE FileList(j)
    BY <2>1, <2>6 DEF FileList, Abort
  <2>7. CASE Describe(j)
    BY <2>1, <2>7 DEF Describe, Abort
  <2>8. CASE Killed(j)
    <3>1. /\ UNCHANGED <<files, flist, adm, oldlog>>
          /\ \A k \in Jobs : k[1] \in disk[k[2]] => k[1] \in disk'[k[2]]
          /\ step[j] \in Steps \ {"idle", "exited"}
          /\ signal' = IF step[j] = "timed" THEN signal ELSE [signal EXCEPT ![j] = "KILL"]
      BY <2>1, <2>8 DEF Killed
    <3>2. CASE step[j] = "timed" BY <3>1, <3>2
    <3>3. CASE step[j] # "timed"
      <4>1. ~(files[j] \cap {"log", "out"} = {"log"} /\ j \notin oldlog)
        BY <3>1, <3>3 DEF Steps
      <4> QED BY <3>1, <3>3, <4>1
    <3> QED BY <3>2, <3>3
  <2>9. CASE Finish(j)
    BY <2>9 DEF Finish, Move
  <2>10. CASE WriteCache(j)
    BY <2>10 DEF WriteCache
  <2>11. CASE Interrupt(j)
    BY <2>1, <2>11 DEF Interrupt
  <2> QED
    BY <1>3, <2>0, <2>2, <2>3, <2>4, <2>5, <2>6, <2>7, <2>8, <2>9, <2>10, <2>11 DEF BuildPkgStep
<1>4. ASSUME NEW j \in Jobs, Collect(j), UNCHANGED files
      PROVE  LoneLogIsComplete'
  BY <1>4 DEF Collect
<1>5. CASE Crash
  BY <1>5 DEF Crash
<1>6. CASE UNCHANGED bpvars
  BY <1>6 DEF bpvars
<1> QED
  BY <1>1, <1>2, <1>3, <1>4, <1>5, <1>6 DEF BuildPkgNext

\* An .err file is removed only by a build that removes the ERROR, too.
LEMMA CacheStep ==
  BuildPkgTypeOK /\ CacheInv /\ [BuildPkgNext]_bpvars => CacheInv'
<1> SUFFICES ASSUME BuildPkgTypeOK, CacheInv, [BuildPkgNext]_bpvars
             PROVE  CacheInv'
  OBVIOUS
<1> USE DEF BuildPkgTypeOK, Goto, Exit, Leave, records, history, CacheInv
<1>1. ASSUME NEW j \in Jobs, Alone(j), Start(j)
      PROVE  CacheInv'
  BY <1>1 DEF Start, Alone
<1>2. ASSUME NEW j \in Jobs, StartFails(j)
      PROVE  CacheInv'
  BY <1>2 DEF StartFails
<1>3. ASSUME NEW j \in Jobs, BuildPkgStep(j)
      PROVE  CacheInv'
  <2>0. CASE RemoveLog(j) \/ RemoveErr(j) \/ RemoveCache(j)
    BY <2>0, JobParts DEF RemoveLog, RemoveErr, RemoveCache, ForgetCache
  <2>2. CASE ConfigFails(j)
    BY <2>2 DEF ConfigFails
  <2>3. CASE OpenOutput(j)
    BY <2>3 DEF OpenOutput
  <2>4. CASE MainBuild(j)
    BY <2>4 DEF MainBuild
  <2>5. CASE MainBuildFails(j)
    BY <2>5 DEF MainBuildFails, Abort
  <2>6. CASE FileList(j)
    BY <2>6 DEF FileList, Abort
  <2>7. CASE Describe(j)
    BY <2>7 DEF Describe, Abort
  <2>8. CASE Killed(j)
    BY <2>8 DEF Killed
  <2>9. CASE Finish(j)
    BY <2>9 DEF Finish, Move
  <2>10. CASE WriteCache(j)
    BY <2>10 DEF WriteCache
  <2>11. CASE Interrupt(j)
    BY <2>11 DEF Interrupt
  <2> QED
    BY <1>3, <2>0, <2>2, <2>3, <2>4, <2>5, <2>6, <2>7, <2>8, <2>9, <2>10, <2>11 DEF BuildPkgStep
<1>4. ASSUME NEW j \in Jobs, Collect(j), UNCHANGED files
      PROVE  CacheInv'
  BY <1>4 DEF Collect
<1>5. CASE Crash
  BY <1>5 DEF Crash
<1>6. CASE UNCHANGED bpvars
  BY <1>6 DEF bpvars
<1> QED
  BY <1>1, <1>2, <1>3, <1>4, <1>5, <1>6 DEF BuildPkgNext

LEMMA BuildPkgInvariance ==
  BuildPkgSpec => [](BuildPkgTypeOK /\ BPInv)
<1>1. BuildPkgInit => BuildPkgTypeOK /\ BPInv
  BY BuildPkgTypeInit, BPInit
<1>2. (BuildPkgTypeOK /\ BPInv) /\ [BuildPkgNext]_bpvars
        => (BuildPkgTypeOK /\ BPInv)'
  BY BuildPkgTypeStep, AbortStep, WorkStep, LoneStep, CacheStep DEF BPInv
<1> QED
  BY <1>1, <1>2, PTL DEF BuildPkgSpec

\* Every variable of the build of a package has its type in every state.
THEOREM BuildPkgTypeCorrect == BuildPkgSpec => []BuildPkgTypeOK
BY BuildPkgTypeInit, BuildPkgTypeStep, PTL DEF BuildPkgSpec

\* A build in which abort() was called, which returns, or which was killed,
\* never exits with success, whatever the rest of the script does.
THEOREM AbortsAreFailures == BuildPkgSpec => []AbortIsFailure
<1>1. BPInv => AbortIsFailure
  BY DEF BPInv, AbortInv, AbortIsFailure
<1> QED
  BY <1>1, BuildPkgInvariance, PTL

\* After any sequence of builds, kills and crashes, a .log without an .out
\* file vouches for a build that is recorded in full, unless the build got a
\* Ctrl-C, or a start of the job has not come from the .out to the .log file
\* (Build-Pkg:293-294, 614-728, 982-986).
THEOREM LoneLogsAreComplete == BuildPkgSpec => []LoneLogIsComplete
<1>1. BPInv => LoneLogIsComplete
  BY DEF BPInv
<1> QED
  BY <1>1, BuildPkgInvariance, PTL

\* The ERROR in a package's cache file is never older than its error logs,
\* unless a start of a build has removed the .err file and not come to the
\* cache file (Build-Pkg:295-303, 333-336).
THEOREM CacheErrorsAreCurrent == BuildPkgSpec => []CacheErrorIsCurrent
<1>1. BPInv => CacheErrorIsCurrent
  BY DEF BPInv, CacheInv, CacheErrorIsCurrent
<1> QED
  BY <1>1, BuildPkgInvariance, PTL

--------------------------------------------------------------------------
(* Build-Target. *)
LEMMA JobPairs ==
  \A j \in Jobs : /\ j[1] \in 0 .. 9 /\ j[1] \in Nat
                  /\ j[2] \in Packages /\ j[2] \in Nat
                  /\ j = <<j[1], j[2]>>
BY DEF Jobs, Packages

\* What Build-Target knows of its jobs: their log files, where the Build-Pkg
\* process of each is, and how it exited.
LogTypes ==
  /\ files \in [Jobs -> SUBSET Logs]
  /\ step \in [Jobs -> Steps]
  /\ rc \in [Jobs -> {0, 1}]

\* The .err of a build is written by its last steps, or it fails.
ErrInv ==
  \A j \in Jobs :
    /\ step[j] = "rm_log" => "out" \notin files[j]
    /\ step[j] = "rm_err" => files[j] \subseteq {"err"}
    /\ step[j] \in {"rm_cache", "prepare"} => files[j] = {}
    /\ step[j] \in {"main", "post", "check", "finish"} => "err" \notin files[j]
    /\ step[j] \in {"timed", "exited"} /\ "err" \in files[j] => rc[j] = 1

\* Of the other jobs nothing changes.
OnlyOf(j) ==
  \A k \in Jobs : k # j => files'[k] = files[k] /\ step'[k] = step[k] /\ rc'[k] = rc[k]

\* A step of Build-Pkg, seen from outside.
LEMMA BuildPkgMoves ==
  ASSUME LogTypes, ErrInv, NEW j \in Jobs, BuildPkgStep(j)
  PROVE  /\ LogTypes' /\ ErrInv' /\ OnlyOf(j)
         /\ step[j] \notin {"idle", "exited"} /\ step'[j] # "idle"
         /\ LogErrExclusive => LogErrExclusive'
<1> USE DEF LogTypes, Goto, Exit, Leave, Logs, Steps
<1>1. /\ LogTypes' /\ OnlyOf(j)
      /\ step[j] \notin {"idle", "exited"} /\ step'[j] # "idle"
      /\ step'[j] # "rm_log"
      /\ step'[j] = "rm_err" => files'[j] \subseteq {"err"}
      /\ step'[j] \in {"rm_cache", "prepare"} => files'[j] = {}
      /\ step'[j] \in {"main", "post", "check", "finish"} => "err" \notin files'[j]
      /\ step'[j] \in {"timed", "exited"} /\ "err" \in files'[j] => rc'[j] = 1
      /\ ~({"log", "err"} \subseteq files[j]) => ~({"log", "err"} \subseteq files'[j])
  <2> USE DEF ErrInv, OnlyOf
  <2>0. CASE RemoveLog(j) \/ RemoveErr(j) \/ RemoveCache(j)
    BY <2>0 DEF RemoveLog, RemoveErr, RemoveCache
  <2>1. CASE ConfigFails(j) BY <2>1 DEF ConfigFails
  <2>2. CASE OpenOutput(j) BY <2>2 DEF OpenOutput
  <2>3. CASE MainBuild(j) BY <2>3 DEF MainBuild
  <2>4. CASE MainBuildFails(j) BY <2>4 DEF MainBuildFails, Abort
  <2>5. CASE FileList(j) BY <2>5 DEF FileList, Abort
  <2>6. CASE Describe(j) BY <2>6 DEF Describe, Abort
  <2>7. CASE Interrupt(j) BY <2>7 DEF Interrupt, InBlock
  <2>8. CASE Killed(j) BY <2>8 DEF Killed, FirstRun
  <2>9. CASE Finish(j) BY <2>9 DEF Finish, Move
  <2>10. CASE WriteCache(j) BY <2>10 DEF WriteCache
  <2> QED BY <2>0, <2>1, <2>2, <2>3, <2>4, <2>5, <2>6, <2>7, <2>8, <2>9, <2>10 DEF BuildPkgStep
<1>2. ErrInv' BY <1>1 DEF ErrInv, OnlyOf
<1>3. LogErrExclusive => LogErrExclusive' BY <1>1 DEF LogErrExclusive, OnlyOf
<1> QED BY <1>1, <1>2, <1>3

\* Build-Pkg is called, and removes the old logs, or it fails before.
LEMMA StartMoves ==
  ASSUME LogTypes, ErrInv, NEW j \in Jobs, Start(j) \/ StartFails(j)
  PROVE  /\ LogTypes' /\ ErrInv' /\ OnlyOf(j)
         /\ step[j] = "idle" /\ step'[j] # "idle"
         /\ LogErrExclusive /\ "log" \notin files[j] => LogErrExclusive'
<1> USE DEF LogTypes, Goto, Exit, Logs, Steps
<1>1. /\ LogTypes' /\ OnlyOf(j)
      /\ step[j] = "idle" /\ step'[j] # "idle"
      /\ step'[j] = "rm_log" => "out" \notin files'[j]
      /\ step'[j] \in {"rm_log", "exited"}
      /\ step'[j] \in {"timed", "exited"} /\ "err" \in files'[j] => rc'[j] = 1
      /\ "log" \notin files[j] => "log" \notin files'[j]
  <2> USE DEF ErrInv, OnlyOf
  <2>1. CASE Start(j) BY <2>1 DEF Start
  <2>2. CASE StartFails(j) BY <2>2 DEF StartFails
  <2> QED BY <2>1, <2>2
<1>2. ErrInv' BY <1>1 DEF ErrInv, OnlyOf
<1>3. LogErrExclusive /\ "log" \notin files[j] => LogErrExclusive'
  BY <1>1 DEF LogErrExclusive, OnlyOf
<1> QED BY <1>1, <1>2, <1>3

-----------------------------------------------------------------------------
(* The queue.                                                              *)

LEMMA Smallest ==
  ASSUME NEW S \in SUBSET Nat, S # {}
  PROVE  \E m \in S : \A n \in S : m <= n
<1> DEFINE R == {p \in Nat \X Nat : p[1] < p[2]}
<1>1. IsWellFoundedOn(R, Nat)
  BY NatLessThanWellFounded DEF OpToRel
<1>2. PICK m \in S : \A n \in S : ~(<<n, m>> \in R)
  <2> HIDE DEF R
  <2> QED BY <1>1, WFMin
<1>3. \A n \in S : m \in Nat /\ n \in Nat /\ ~(n < m)
  BY <1>2
<1> QED BY <1>3

\* Of any jobs, one comes before all others.
LEMMA FirstJob ==
  ASSUME NEW S \in SUBSET Jobs, S # {}
  PROVE  \E m \in S : \A k \in S : k = m \/ Before(m, k)
<1> DEFINE Ss == {j[1] : j \in S}
<1>1. PICK s \in Ss : \A n \in Ss : s <= n
  <2>1. Ss # {} /\ Ss \subseteq Nat BY JobPairs
  <2> HIDE DEF Ss
  <2> QED BY <2>1, Smallest
<1> DEFINE Ps == {j[2] : j \in {k \in S : k[1] = s}}
<1>2. PICK p \in Ps : \A n \in Ps : p <= n
  <2>1. Ps # {} /\ Ps \subseteq Nat BY JobPairs
  <2> HIDE DEF Ps
  <2> QED BY <2>1, Smallest
<1>3. PICK m \in S : m[1] = s /\ m[2] = p OBVIOUS
<1>4. ASSUME NEW k \in S PROVE k = m \/ Before(m, k)
  <2>1. s <= k[1] /\ (k[1] = s => p <= k[2]) BY <1>1, <1>2
  <2>2. /\ k[1] \in Nat /\ k[2] \in Nat /\ m[1] \in Nat /\ m[2] \in Nat
        /\ k = <<k[1], k[2]>> /\ m = <<m[1], m[2]>>
    BY JobPairs
  <2>3. CASE k[1] = s /\ k[2] = p BY <1>3, <2>2, <2>3
  <2>4. CASE ~(k[1] = s /\ k[2] = p) BY <1>3, <2>1, <2>2, <2>4 DEF Before
  <2> QED BY <2>3, <2>4
<1> QED BY <1>3, <1>4

LEMMA BeforeOrder ==
  ASSUME NEW i \in Jobs, NEW j \in Jobs, NEW k \in Jobs
  PROVE  /\ ~(Before(i, j) /\ Before(j, i)) /\ ~Before(i, i)
         /\ Before(i, j) /\ Before(j, k) => Before(i, k)
BY JobPairs DEF Before

\* Only a job that has a verdict has an output file.
NoOut == \A k \in Jobs : "out" \in files[k] => ~Absent(files, k)

\* The first job without a verdict is in the queue, if none before it is broken.
LEMMA FirstAbsentIsQueued ==
  ASSUME NoOut, NEW m \in Jobs, Absent(files, m), MissingBefore(files, m) = {},
         \A k \in Jobs : Absent(files, k) => k = m \/ Before(m, k)
  PROVE  m \in Queue(files)
<1>1. m[1] > 0 => \A k \in Jobs : k[1] = 0 => ~Absent(files, k)
  BY JobPairs DEF Before
<1>2. m[1] >= 2 => \A k \in Jobs : k[1] <= 1 => ~Absent(files, k)
  BY JobPairs DEF Before
<1> QED BY <1>1, <1>2 DEF Queue, Buildable, DepsSatisfied, NoOut

\* What is settled when a job is built (see InOrder).
DueNow(j) ==
  \A k \in Jobs : Before(k, j) =>
    /\ (k[1] < 9 \/ ~NoBrokenDeps) => ~Absent(files, k)
    /\ (j[1] < 9 /\ NoBrokenDeps) => "err" \notin files[k]

LEMMA FirstIsDue ==
  ASSUME NoOut, NEW j \in Jobs, IsFirst(files, j)
  PROVE  DueNow(j) /\ Absent(files, j)
<1>1. Absent(files, j) /\ DepsSatisfied(files, j) BY DEF IsFirst, Queue, Buildable
<1>2. CASE MissingBefore(files, j) = {}
  <2>1. \A k \in Jobs : Before(k, j) => ~Missing(files, k) BY <1>2 DEF MissingBefore
  <2> QED BY <1>1, <2>1 DEF DueNow, Missing
<1>3. CASE j[1] = 9 /\ \A k \in Jobs : k[1] < 9 => ~Absent(files, k)
  <2>1. ASSUME NEW k \in Jobs, Before(k, j), ~NoBrokenDeps, Absent(files, k) PROVE FALSE
    <3> DEFINE S == {i \in Jobs : Absent(files, i)}
    <3>1. PICK m \in S : \A i \in S : i = m \/ Before(m, i)
      <4>1. S \in SUBSET Jobs /\ S # {} BY <2>1
      <4> HIDE DEF S
      <4> QED BY <4>1, FirstJob
    <3>2. MissingBefore(files, m) = {}
      BY <2>1, <3>1, BeforeOrder DEF MissingBefore, Missing
    <3>3. m \in Queue(files) BY <3>1, <3>2, FirstAbsentIsQueued
    <3>4. m = j \/ Before(j, m) BY <3>3 DEF IsFirst
    <3>5. k = m \/ Before(m, k) BY <2>1, <3>1
    <3> QED BY <2>1, <3>1, <3>4, <3>5, BeforeOrder
  <2> QED BY <1>1, <1>3, <2>1 DEF DueNow
<1> QED BY <1>1, <1>2, <1>3 DEF DepsSatisfied

\* All jobs have a verdict, but for those held back by a broken one.
Complete ==
  \A j \in Jobs : Absent(files, j) =>
    NoBrokenDeps /\ \E k \in Jobs : Before(k, j) /\ "err" \in files[k]

LEMMA EmptyIsComplete ==
  ASSUME NoOut, Queue(files) = {}
  PROVE  Complete
<1> SUFFICES ASSUME NEW j \in Jobs, Absent(files, j)
             PROVE  NoBrokenDeps /\ \E k \in Jobs : Before(k, j) /\ "err" \in files[k]
  BY DEF Complete
<1> DEFINE S == {i \in Jobs : Absent(files, i)}
<1>1. PICK m \in S : \A i \in S : i = m \/ Before(m, i)
  <2>1. S \in SUBSET Jobs /\ S # {} OBVIOUS
  <2> HIDE DEF S
  <2> QED BY <2>1, FirstJob
<1>2. PICK k \in MissingBefore(files, m) : TRUE BY <1>1, FirstAbsentIsQueued
<1>3. k \in Jobs /\ Before(k, m) /\ Missing(files, k) BY <1>2 DEF MissingBefore
<1>4. ~Absent(files, k) BY <1>1, <1>3, BeforeOrder
<1>5. NoBrokenDeps /\ "err" \in files[k] BY <1>3, <1>4 DEF Missing
<1>6. Before(k, j) BY <1>1, <1>3, BeforeOrder
<1> QED BY <1>3, <1>5, <1>6

-----------------------------------------------------------------------------
(* The invariant.                                                          *)

TargetTypes ==
  /\ LogTypes
  /\ pc \in PCs /\ cur \in Jobs /\ jobrun \in BOOLEAN
  /\ ended \in {"no", "done", "aborted", "crashed"}

\* Build-Pkg runs only for the job that Build-Target waits for.
InWork(j) == pc = "wait" /\ j = cur
OneInv == \A j \in Jobs : step[j] # "idle" => InWork(j)

\* The output files of dead builds are gone when the queue is consulted.
OutInv ==
  pc \in {"queue", "build", "wait", "pack"} =>
    \A k \in Jobs : "out" \in files[k] => InWork(k) \/ ~Absent(files, k)

\* What Create-PkgQueue has said stays true until the build is over.
TurnInv ==
  /\ pc = "build" => Absent(files, cur)
  /\ pc \in {"build", "wait"} => DueNow(cur)

PassInv ==
  pc \in {"clean_out", "queue", "build", "wait", "pack", "finish"} =>
    \A j \in Jobs : j[1] <= ContinueOnErrorAfter /\ "err" \in files[j] => InWork(j)

EndInv == pc = "finish" \/ ended = "done" => Complete

TargetInv ==
  /\ TargetTypes /\ ErrInv /\ OneInv
  /\ ended # "no" => pc = "down"
  /\ ~jobrun => OutInv /\ TurnInv /\ PassInv /\ EndInv

LEMMA TargetInit == Init => TargetInv
<1> SUFFICES ASSUME Init PROVE TargetInv OBVIOUS
<1>1. LogTypes BY DEF Init, BuildPkgInit, LogTypes, Logs, Steps
<1>2. pc = "down" /\ ended = "no" /\ cur \in Jobs /\ jobrun = FALSE BY DEF Init
<1>3. \A j \in Jobs : step[j] = "idle" BY DEF Init, BuildPkgInit
<1>4. TargetTypes BY <1>1, <1>2 DEF TargetTypes, PCs
<1>5. ErrInv BY <1>3 DEF ErrInv
<1>6. OneInv BY <1>3 DEF OneInv
<1>7. OutInv /\ TurnInv /\ PassInv /\ EndInv BY <1>2 DEF OutInv, TurnInv, PassInv, EndInv
<1> QED BY <1>2, <1>4, <1>5, <1>6, <1>7 DEF TargetInv

\* The steps of a run between two builds: Build-Pkg does not run.
LEMMA RunSteps ==
  ASSUME TargetInv
  PROVE  /\ StartRun => TargetInv'
         /\ \A j \in Jobs : StartJob(j) => TargetInv'
         /\ CleanErr => TargetInv'
         /\ CleanOut => TargetInv'
         /\ \A j \in Jobs : TakeNext(j) => TargetInv'
         /\ QueueEmpty => TargetInv'
         /\ Pack => TargetInv'
         /\ FinishBuild => TargetInv'
         /\ HostCrash => TargetInv'
<1> USE DEF TargetInv, TargetTypes, LogTypes, PCs, End, bpvars, records, history, tgvars
<1>0. pc # "wait" => \A j \in Jobs : step[j] = "idle" BY DEF OneInv, InWork
<1>1. CASE StartRun
  <2>1. ErrInv' /\ OneInv' BY <1>0, <1>1 DEF StartRun, ErrInv, OneInv
  <2>2. OutInv' /\ TurnInv' /\ PassInv' /\ EndInv'
    BY <1>1 DEF StartRun, OutInv, TurnInv, PassInv, EndInv
  <2> QED BY <1>1, <2>1, <2>2 DEF StartRun
<1>2. ASSUME NEW j \in Jobs, StartJob(j) PROVE TargetInv'
  <2>1. ErrInv' /\ OneInv' BY <1>0, <1>2 DEF StartJob, ErrInv, OneInv
  <2> QED BY <1>2, <2>1 DEF StartJob
<1>3. CASE CleanErr
  <2>1. LogTypes' /\ ErrInv' /\ OneInv' BY <1>0, <1>3 DEF CleanErr, ErrInv, OneInv
  <2>2. OutInv' /\ TurnInv' /\ PassInv' /\ EndInv'
    BY <1>3 DEF CleanErr, OutInv, TurnInv, PassInv, EndInv
  <2> QED BY <1>3, <2>1, <2>2 DEF CleanErr
<1>4. CASE CleanOut
  <2>1. LogTypes' /\ ErrInv' /\ OneInv' BY <1>0, <1>4 DEF CleanOut, ErrInv, OneInv
  <2>2. OutInv' /\ TurnInv' /\ EndInv'
    BY <1>4 DEF CleanOut, OutInv, TurnInv, EndInv
  <2>3. ~jobrun => PassInv' BY <1>4 DEF CleanOut, PassInv, InWork
  <2> QED BY <1>4, <2>1, <2>2, <2>3 DEF CleanOut
<1>5. ASSUME NEW j \in Jobs, TakeNext(j) PROVE TargetInv'
  <2>1. ErrInv' /\ OneInv' BY <1>0, <1>5 DEF TakeNext, ErrInv, OneInv
  <2>2. ASSUME ~jobrun PROVE OutInv' /\ TurnInv' /\ PassInv' /\ EndInv'
    <3>1. NoOut BY <1>5, <2>2 DEF TakeNext, OutInv, NoOut, InWork
    <3>2. DueNow(j) /\ Absent(files, j) BY <1>5, <3>1, FirstIsDue DEF TakeNext
    <3>3. TurnInv' BY <1>5, <3>2 DEF TakeNext, TurnInv, DueNow
    <3>4. OutInv' /\ PassInv' BY <1>5, <2>2 DEF TakeNext, OutInv, PassInv, InWork
    <3>5. EndInv' BY <1>5 DEF TakeNext, EndInv
    <3> QED BY <3>3, <3>4, <3>5
  <2> QED BY <1>5, <2>1, <2>2 DEF TakeNext
<1>6. CASE QueueEmpty
  <2>1. ErrInv' /\ OneInv' BY <1>0, <1>6 DEF QueueEmpty, ErrInv, OneInv
  <2>2. ASSUME ~jobrun PROVE OutInv' /\ TurnInv' /\ PassInv' /\ EndInv'
    <3>1. NoOut BY <1>6, <2>2 DEF QueueEmpty, OutInv, NoOut, InWork
    <3>2. Complete BY <1>6, <3>1, EmptyIsComplete DEF QueueEmpty
    <3>3. EndInv' BY <1>6, <3>2 DEF QueueEmpty, EndInv, Complete
    <3>4. OutInv' /\ TurnInv' /\ PassInv'
      BY <1>6, <2>2 DEF QueueEmpty, OutInv, TurnInv, PassInv, InWork
    <3> QED BY <3>3, <3>4
  <2> QED BY <1>6, <2>1, <2>2 DEF QueueEmpty
<1>7. CASE Pack
  <2>1. ErrInv' /\ OneInv' BY <1>0, <1>7 DEF Pack, ErrInv, OneInv, PackageDone
  <2>2. ~jobrun => OutInv' /\ TurnInv' /\ PassInv' /\ EndInv'
    BY <1>7 DEF Pack, PackageDone, OutInv, TurnInv, PassInv, EndInv, InWork
  <2> QED BY <1>7, <2>1, <2>2 DEF Pack, PackageDone
<1>8. CASE FinishBuild
  <2>1. ErrInv' /\ OneInv' BY <1>0, <1>8 DEF FinishBuild, ErrInv, OneInv
  <2>2. ~jobrun => OutInv' /\ TurnInv' /\ PassInv' /\ EndInv'
    BY <1>8 DEF FinishBuild, OutInv, TurnInv, PassInv, EndInv, Complete
  <2> QED BY <1>8, <2>1, <2>2 DEF FinishBuild
<1>9. CASE HostCrash
  <2>1. LogTypes' /\ ErrInv' /\ OneInv'
    BY <1>9 DEF HostCrash, Crash, ErrInv, OneInv, Steps
  <2>2. OutInv' /\ TurnInv' /\ PassInv' /\ EndInv'
    BY <1>9 DEF HostCrash, OutInv, TurnInv, PassInv, EndInv
  <2> QED BY <1>9, <2>1, <2>2 DEF HostCrash, Crash
<1> QED BY <1>1, <1>2, <1>3, <1>4, <1>5, <1>6, <1>7, <1>8, <1>9

\* What was settled before a job stays so while only the job itself is built.
LEMMA DueStays ==
  ASSUME NEW j \in Jobs, OnlyOf(j), DueNow(j)
  PROVE  DueNow(j)'
<1>1. \A k \in Jobs : Before(k, j) => files'[k] = files[k]
  BY BeforeOrder DEF OnlyOf
<1> QED BY <1>1 DEF DueNow, Absent

\* The steps of a build, and of Build-Target when it looks at its result.
LEMMA WorkSteps ==
  ASSUME TargetInv
  PROVE  /\ CallBuildPkg => TargetInv'
         /\ BuildPkgWorks => TargetInv'
         /\ StopOnError => TargetInv'
         /\ AbnormalEnd => TargetInv'
         /\ NormalEnd => TargetInv'
<1> USE DEF TargetTypes, PCs, End, tgvars
<1>0. LogTypes /\ ErrInv /\ OneInv /\ cur \in Jobs BY DEF TargetInv
<1>1. ASSUME OnlyOf(cur), LogTypes', ErrInv', pc' = "wait", pc \in {"build", "wait"},
             UNCHANGED <<cur, jobrun, ended>>
      PROVE  TargetInv'
  <2>1. OneInv' BY <1>0, <1>1 DEF OneInv, OnlyOf, InWork
  <2>2. ASSUME ~jobrun PROVE OutInv' /\ TurnInv' /\ PassInv' /\ EndInv'
    <3>1. DueNow(cur)' BY <1>0, <1>1, <2>2, DueStays DEF TargetInv, TurnInv
    <3>2. TurnInv' BY <1>1, <3>1 DEF TurnInv, DueNow
    <3>3. OutInv' /\ PassInv'
      BY <1>1, <2>2 DEF TargetInv, OutInv, PassInv, InWork, OnlyOf, Absent
    <3>4. EndInv' BY <1>1 DEF TargetInv, EndInv
    <3> QED BY <3>2, <3>3, <3>4
  <2> QED BY <1>1, <2>1, <2>2 DEF TargetInv
<1>2. CASE CallBuildPkg
  <2>1. Start(cur) \/ StartFails(cur) BY <1>2 DEF CallBuildPkg
  <2>2. LogTypes' /\ ErrInv' /\ OnlyOf(cur) BY <1>0, <2>1, StartMoves
  <2> QED BY <1>1, <1>2, <2>2 DEF CallBuildPkg
<1>3. CASE BuildPkgWorks
  <2>1. LogTypes' /\ ErrInv' /\ OnlyOf(cur) BY <1>0, <1>3, BuildPkgMoves DEF BuildPkgWorks
  <2> QED BY <1>1, <1>3, <2>1 DEF BuildPkgWorks
\* Build-Pkg has exited: all is still.
<1>4. ASSUME Collect(cur), pc = "wait", files' \in [Jobs -> SUBSET Logs]
      PROVE  LogTypes' /\ ErrInv' /\ OneInv'
  <2>1. \A j \in Jobs : step'[j] = "idle"
    BY <1>0, <1>4 DEF Collect, Goto, OneInv, InWork, LogTypes
  <2>2. LogTypes' BY <1>0, <1>4, <2>1 DEF Collect, Goto, LogTypes, Steps
  <2> QED BY <2>1, <2>2 DEF ErrInv, OneInv
<1>5. CASE StopOnError
  <2>1. LogTypes' /\ ErrInv' /\ OneInv' BY <1>0, <1>4, <1>5 DEF StopOnError, LogTypes
  <2>2. OutInv' /\ TurnInv' /\ PassInv' /\ EndInv'
    BY <1>5 DEF StopOnError, OutInv, TurnInv, PassInv, EndInv
  <2> QED BY <1>5, <2>1, <2>2 DEF TargetInv, StopOnError
<1>6. CASE AbnormalEnd
  <2>1. files' \in [Jobs -> SUBSET Logs] BY <1>0, <1>6 DEF AbnormalEnd, LogTypes, Logs
  <2>2. LogTypes' /\ ErrInv' /\ OneInv' BY <1>4, <1>6, <2>1 DEF AbnormalEnd
  <2>3. OutInv' /\ TurnInv' /\ PassInv' /\ EndInv'
    BY <1>6 DEF AbnormalEnd, OutInv, TurnInv, PassInv, EndInv
  <2> QED BY <1>6, <2>2, <2>3 DEF TargetInv, AbnormalEnd
<1>7. CASE NormalEnd
  <2>1. LogTypes' /\ ErrInv' /\ OneInv' BY <1>0, <1>4, <1>7 DEF NormalEnd, LogTypes
  <2>2. /\ pc' \in {"pack", "queue", "down"} /\ (~jobrun => pc' # "down" /\ ended' = "no")
        /\ (ended' # "no" => pc' = "down") /\ ended' \in {"no", "done"}
        /\ UNCHANGED <<files, cur, jobrun>> /\ pc = "wait" /\ ~Absent(files, cur)
    BY <1>7 DEF NormalEnd, PackageDone, TargetInv
  <2>3. cur[1] <= ContinueOnErrorAfter => "err" \notin files[cur]
    BY <1>0, <1>7, BuildTargetOptions, JobPairs DEF NormalEnd, GoesOn, Collect, ErrInv
  <2>4. ASSUME ~jobrun PROVE OutInv' /\ TurnInv' /\ PassInv' /\ EndInv'
    <3>1. OutInv' BY <2>2, <2>4 DEF TargetInv, OutInv, InWork, Absent
    <3>2. PassInv' BY <2>2, <2>3, <2>4 DEF TargetInv, PassInv, InWork
    <3>3. TurnInv' /\ EndInv' BY <2>2, <2>4 DEF TurnInv, EndInv
    <3> QED BY <3>1, <3>2, <3>3
  <2>5. TargetTypes' BY <1>0, <2>1, <2>2 DEF TargetInv
  <2> QED BY <2>1, <2>2, <2>4, <2>5 DEF TargetInv
<1> QED BY <1>2, <1>3, <1>5, <1>6, <1>7

LEMMA TargetNext == TargetInv /\ [Next]_vars => TargetInv'
<1> SUFFICES ASSUME TargetInv, [Next]_vars PROVE TargetInv' OBVIOUS
<1>1. CASE UNCHANGED vars
  <2>1. UNCHANGED <<files, step, rc, pc, cur, jobrun, ended>>
    BY <1>1 DEF vars, bpvars, tgvars
  <2> QED
    BY <2>1 DEF TargetInv, TargetTypes, LogTypes, ErrInv, OneInv, OutInv, TurnInv, PassInv,
                EndInv, InWork, DueNow, Complete
<1>2. CASE Next BY <1>2, RunSteps, WorkSteps DEF Next, Program
<1> QED BY <1>1, <1>2

LEMMA TargetInvariance == Spec => []TargetInv
BY TargetInit, TargetNext, PTL DEF Spec

-----------------------------------------------------------------------------
\* Jobs are built in the order of the queue: while Build-Pkg runs, all jobs
\* before its own are settled, without a failure if broken dependencies are
\* not allowed (Build-Target:107-113).
THEOREM JobsAreInOrder == Spec => []InOrder
<1>1. TargetInv => InOrder
  BY DEF TargetInv, TurnInv, OneInv, InWork, DueNow, InOrder, Running
<1> QED BY <1>1, TargetInvariance, PTL

\* The loop goes on only while no job of the stages up to ContinueOnErrorAfter
\* has failed, in this run or before (Build-Target:84-98, 219-223).
THEOREM NoFailureIsPassed == Spec => []NoErrorPassed
<1>1. TargetInv => NoErrorPassed
  BY DEF TargetInv, PassInv, InWork, NoErrorPassed
<1> QED BY <1>1, TargetInvariance, PTL

\* A run that came to its end has settled every job, unless jobs were held
\* back because packages before them are broken (Build-Target:107-113).
THEOREM EndedRunsAreComplete == Spec => []DoneIsComplete
<1>1. TargetInv => DoneIsComplete
  BY DEF TargetInv, EndInv, Complete, DoneIsComplete
<1> QED BY <1>1, TargetInvariance, PTL

\* Within a run, a job that has its verdict is not touched again
\* (Build-Target:107-235).
THEOREM VerdictsStand == Spec => VerdictStands
<1>1. ASSUME TargetInv, [Next]_vars, pc # "clean", ~jobrun, NEW j \in Jobs,
             ~Absent(files, j), ~Running(j)
      PROVE  ~Absent(files', j) /\ ~Running(j)'
  <2> USE DEF End, tgvars, bpvars, records, history
  <2>0. LogTypes /\ ErrInv /\ OneInv /\ cur \in Jobs /\ TurnInv
    BY <1>1 DEF TargetInv, TargetTypes
  <2>1. CASE UNCHANGED <<files, step>> BY <1>1, <2>1 DEF Running
  <2>2. CASE CleanOut BY <1>1, <2>0, <2>2 DEF CleanOut, LogTypes, Absent, Running
  <2>3. CASE CallBuildPkg
    <3>1. OnlyOf(cur) BY <2>0, <2>3, StartMoves DEF CallBuildPkg
    <3>2. j # cur BY <1>1, <2>0, <2>3 DEF CallBuildPkg, TurnInv
    <3> QED BY <1>1, <3>1, <3>2 DEF OnlyOf, Absent, Running
  <2>4. CASE BuildPkgWorks
    <3>1. OnlyOf(cur) /\ step[cur] \notin {"idle", "exited"}
      BY <2>0, <2>4, BuildPkgMoves DEF BuildPkgWorks
    <3>2. j # cur BY <1>1, <3>1 DEF Running
    <3> QED BY <1>1, <3>1, <3>2 DEF OnlyOf, Absent, Running
  <2>5. CASE StopOnError \/ AbnormalEnd \/ NormalEnd
    <3>1. Collect(cur) /\ \A k \in Jobs : files[k] \subseteq files'[k]
      BY <2>0, <2>5 DEF StopOnError, AbnormalEnd, NormalEnd, LogTypes
    <3>2. step'[j] = "idle" \/ step'[j] = step[j] BY <2>0, <3>1 DEF Collect, Goto, LogTypes
    <3> QED BY <1>1, <3>1, <3>2 DEF Absent, Running
  <2>6. CASE HostCrash BY <1>1, <2>6 DEF HostCrash, Crash, Running
  <2>7. CleanErr => FALSE BY <1>1 DEF CleanErr
  <2> QED
    BY <1>1, <2>1, <2>2, <2>3, <2>4, <2>5, <2>6, <2>7
       DEF Next, Program, StartRun, StartJob, TakeNext, QueueEmpty, Pack, FinishBuild, vars
<1>2. TargetInv /\ [Next]_vars =>
        [pc # "clean" /\ ~jobrun => \A j \in Jobs :
           ~Absent(files, j) /\ ~Running(j) => ~Absent(files, j)' /\ ~Running(j)']_vars
  BY <1>1 DEF Absent, Running
<1> QED BY <1>2, TargetInvariance, PTL DEF Spec, VerdictStands

-----------------------------------------------------------------------------
\* Without -job, a job that is built has no log of an earlier build.
ExInv == ~JobMode => ~jobrun /\ LogErrExclusive

LEMMA ExInit == Init => ExInv
BY DEF Init, BuildPkgInit, ExInv, LogErrExclusive

LEMMA ExNext == TargetInv /\ ExInv /\ [Next]_vars => ExInv'
<1> SUFFICES ASSUME TargetInv, ExInv, [Next]_vars, ~JobMode PROVE ~jobrun' /\ LogErrExclusive'
  BY DEF ExInv
<1> USE DEF End, tgvars, bpvars, records, history
<1>0. LogTypes /\ ErrInv /\ cur \in Jobs /\ TurnInv /\ ~jobrun /\ LogErrExclusive
  BY DEF TargetInv, TargetTypes, ExInv
<1>1. CASE UNCHANGED <<files, jobrun>> BY <1>0, <1>1 DEF LogErrExclusive
<1>2. CASE StartRun BY <1>0, <1>2 DEF StartRun, LogErrExclusive
<1>3. CASE CleanErr BY <1>0, <1>3 DEF CleanErr, LogErrExclusive, LogTypes
<1>4. CASE CleanOut BY <1>0, <1>4 DEF CleanOut, LogErrExclusive, LogTypes
<1>5. CASE CallBuildPkg
  <2>1. "log" \notin files[cur] BY <1>0, <1>5 DEF CallBuildPkg, TurnInv, Absent
  <2> QED BY <1>0, <1>5, <2>1, StartMoves DEF CallBuildPkg
<1>6. CASE BuildPkgWorks BY <1>0, <1>6, BuildPkgMoves DEF BuildPkgWorks
<1>7. CASE AbnormalEnd BY <1>0, <1>7 DEF AbnormalEnd, Absent, LogErrExclusive, LogTypes
<1> QED
  BY <1>1, <1>2, <1>3, <1>4, <1>5, <1>6, <1>7
     DEF Next, Program, StartJob, TakeNext, QueueEmpty, StopOnError, NormalEnd, Pack,
         FinishBuild, HostCrash, Crash, vars

\* A job has not both a .log and an .err, if the user does not build single
\* jobs (Build-Target:229; with -job, see the quotes at 116-117).
THEOREM VerdictsAreUnique == Spec => [](~JobMode => LogErrExclusive)
<1>1. ExInv => (~JobMode => LogErrExclusive) BY DEF ExInv
<1> QED BY <1>1, TargetInvariance, ExInit, ExNext, PTL DEF Spec

-----------------------------------------------------------------------------
(* The build plan.                                                         *)

\* The plan is about the same jobs, in the same order.
LEMMA PlanJobs == Plan!Jobs = Jobs /\ \A i, j : Plan!Before(i, j) <=> Before(i, j)
BY DEF Plan!Jobs, Jobs, Plan!Packages, Packages, Plan!Before, Before

\* The verdict or the loss of the job that was built.
LEMMA EndOfBuild ==
  ASSUME TargetInv, pc = "wait", step[cur] # "idle", step' = [j \in Jobs |-> "idle"],
         \A j \in Jobs : j # cur => files'[j] = files[j]
  PROVE  Plan!EndOf(cur)
<1> DEFINE v == PlanStatus'[cur]
<1>1. cur \in Jobs /\ \A j \in Jobs : j # cur => step[j] = "idle"
  BY DEF TargetInv, TargetTypes, OneInv, InWork
<1>2. v \in {"built", "failed", "todo"} BY <1>1 DEF PlanStatus
<1>3. PlanStatus[cur] = "running" BY <1>1 DEF PlanStatus
<1>4. PlanStatus' = [PlanStatus EXCEPT ![cur] = v] BY <1>1 DEF PlanStatus
<1> QED BY <1>2, <1>3, <1>4 DEF Plan!EndOf

LEMMA PlanStep == TargetInv /\ ExInv /\ [Next]_vars => [Plan!PlanNext]_PlanStatus
<1> SUFFICES ASSUME TargetInv, ExInv, [Next]_vars
             PROVE  Plan!PlanNext \/ PlanStatus' = PlanStatus
  OBVIOUS
<1> USE DEF End, tgvars, bpvars, records, history
<1>0. LogTypes /\ ErrInv /\ OneInv /\ cur \in Jobs BY DEF TargetInv, TargetTypes
<1>00. pc # "wait" => \A j \in Jobs : step[j] = "idle" BY <1>0 DEF OneInv, InWork
<1>1. CASE UNCHANGED <<files, step>> BY <1>1 DEF PlanStatus
<1>2. CASE CleanErr
  <2> DEFINE Failed == {j \in Jobs : PlanStatus[j] = "failed"}
             S == {j \in Failed : PlanStatus'[j] = "todo"}
             B == {j \in Failed : PlanStatus'[j] = "built"}
  <2>1. \A j \in Jobs : step[j] = "idle" /\ step'[j] = "idle" BY <1>00, <1>2 DEF CleanErr
  <2>2. \A j \in Jobs : files'[j] = files[j] \/ files'[j] = files[j] \ {"err"}
    BY <1>2 DEF CleanErr
  <2>3. \A j \in Jobs : PlanStatus'[j] = IF j \in B THEN "built" ELSE IF j \in S THEN "todo" ELSE PlanStatus[j]
    BY <2>1, <2>2 DEF PlanStatus
  <2>4. ~JobMode => B = {}
    <3>1. ~JobMode => \A j \in Jobs : ~({"log", "err"} \subseteq files[j])
      BY DEF ExInv, LogErrExclusive
    <3> QED BY <2>1, <2>2, <3>1 DEF PlanStatus
  <2>5. \A j \in Jobs : PlanStatus[j] # "running" BY <2>1 DEF PlanStatus
  <2>6. PlanStatus' = [j \in Jobs |-> IF j \in B THEN "built" ELSE IF j \in S THEN "todo" ELSE PlanStatus[j]]
    BY <2>3 DEF PlanStatus
  <2>7. S \in SUBSET Failed /\ B \in IF JobMode THEN SUBSET Failed ELSE {{}}
    BY <2>4
  <2>8. Plan!Retry
    <3> HIDE DEF S, B
    <3> QED BY <2>5, <2>6, <2>7, PlanJobs DEF Plan!Retry, Plan!NoneRunning
  <2> QED BY <2>8 DEF Plan!PlanNext
<1>3. CASE CleanOut
  <2>1. \A j \in Jobs : files'[j] = files[j] \ {"out"} BY <1>3 DEF CleanOut
  <2>2. step' = step BY <1>3 DEF CleanOut
  <2> QED BY <2>1, <2>2 DEF PlanStatus
<1>4. CASE CallBuildPkg
  <2>1. OnlyOf(cur) /\ step[cur] = "idle" /\ step'[cur] # "idle" BY <1>0, <1>4, StartMoves DEF CallBuildPkg
  <2>2. \A j \in Jobs : step[j] = "idle" BY <1>00, <1>4 DEF CallBuildPkg
  <2>3. PlanStatus' = [PlanStatus EXCEPT ![cur] = "running"] BY <1>0, <2>1 DEF PlanStatus, OnlyOf
  <2>4. Plan!NoneRunning BY <2>2, PlanJobs DEF PlanStatus, Plan!NoneRunning
  <2>5. CASE jobrun
    <3>1. JobMode BY <2>5 DEF ExInv
    <3>2. Plan!Redo(cur) BY <2>3, <2>4, <3>1 DEF Plan!Redo
    <3> QED BY <1>0, <3>2, PlanJobs DEF Plan!PlanNext
  <2>6. CASE ~jobrun
    <3>1. Absent(files, cur) /\ DueNow(cur) BY <1>4, <2>6 DEF CallBuildPkg, TargetInv, TurnInv
    <3>2. PlanStatus[cur] = "todo" BY <1>0, <2>2, <3>1 DEF PlanStatus, Absent
    <3>3. \A k \in Jobs : ~Absent(files, k) => PlanStatus[k] \in {"built", "failed"}
      BY <2>2 DEF PlanStatus, Absent
    <3>4. \A k \in Jobs : ~Absent(files, k) /\ "err" \notin files[k] => PlanStatus[k] = "built"
      BY <2>2 DEF PlanStatus, Absent
    <3>5. \A k \in Jobs : Before(k, cur) /\ cur[1] < 9 => k[1] < 9
      BY <1>0, JobPairs DEF Before
    <3>6. Plan!Due(cur) BY <3>1, <3>3, <3>4, <3>5, PlanJobs DEF DueNow, Plan!Due, Plan!Settled
    <3>7. Plan!Begin(cur) BY <2>3, <2>4, <3>2, <3>6 DEF Plan!Begin
    <3> QED BY <1>0, <3>7, PlanJobs DEF Plan!PlanNext
  <2> QED BY <2>5, <2>6
<1>5. CASE BuildPkgWorks
  <2>1. OnlyOf(cur) /\ step[cur] # "idle" /\ step'[cur] # "idle"
    BY <1>0, <1>5, BuildPkgMoves DEF BuildPkgWorks
  <2> QED BY <2>1 DEF PlanStatus, OnlyOf
<1>6. CASE StopOnError \/ AbnormalEnd \/ NormalEnd
  <2>1. Collect(cur) /\ pc = "wait" /\ \A j \in Jobs : j # cur => files'[j] = files[j]
    BY <1>0, <1>6 DEF StopOnError, AbnormalEnd, NormalEnd, LogTypes
  <2>2. step' = [j \in Jobs |-> "idle"] /\ step[cur] # "idle"
    BY <1>0, <2>1 DEF Collect, Goto, OneInv, InWork, LogTypes
  <2>3. Plan!EndOf(cur) BY <2>1, <2>2, EndOfBuild
  <2> QED BY <1>0, <2>3, PlanJobs DEF Plan!PlanNext
<1>7. CASE HostCrash
  <2>1. step' = [j \in Jobs |-> "idle"] /\ files' = files BY <1>7 DEF HostCrash, Crash
  <2>2. CASE \A j \in Jobs : step[j] = "idle" BY <2>1, <2>2 DEF PlanStatus
  <2>3. CASE pc = "wait" /\ step[cur] # "idle"
    <3>1. Plan!EndOf(cur) BY <2>1, <2>3, EndOfBuild
    <3> QED BY <1>0, <3>1, PlanJobs DEF Plan!PlanNext
  <2> QED BY <1>0, <2>2, <2>3 DEF OneInv, InWork
<1> QED
  BY <1>1, <1>2, <1>3, <1>4, <1>5, <1>6, <1>7
     DEF Next, Program, StartRun, StartJob, TakeNext, QueueEmpty, Pack, FinishBuild, vars

\* Build-Target, with any crashes, restarts and -job runs, carries out the
\* build plan: one job at a time, none before it is due, each step of the
\* program a step of the plan or none (Build-Target:84-299).
THEOREM PlanIsCarriedOut == Spec => ImplementsPlan
<1>1. Init => Plan!PlanInit BY PlanJobs DEF Init, BuildPkgInit, PlanStatus, Plan!PlanInit
<1> QED
  BY <1>1, TargetInvariance, ExInit, ExNext, PlanStep, PTL DEF Spec, ImplementsPlan, Plan!PlanSpec

-----------------------------------------------------------------------------
(* The records of the packages.                                            *)

\* A step of the Build-Pkg that Build-Target has called, or its start.
Building ==
  /\ (Alone(cur) /\ (Start(cur) \/ StartFails(cur))) \/ BuildPkgStep(cur)
  /\ pc \in {"build", "wait"} /\ pc' = "wait"
  /\ (pc = "build" \/ step[cur] # "idle")
  /\ UNCHANGED <<ended, tgvars>>

\* A step of Build-Target: it leaves the records of Build-Pkg and the .log files alone.
Quiet ==
  /\ \A j \in Jobs : /\ step[j] \in {"idle", "exited"} /\ step'[j] = "idle"
                     /\ "log" \in files'[j] <=> "log" \in files[j]
  /\ UNCHANGED <<rc, records, cache, history>>
  /\ \A j \in Jobs : step[j] # "idle" => InWork(j)

LEMMA BuildingOrQuiet ==
  ASSUME TargetInv, [Next]_vars
  PROVE  Building \/ Quiet \/ HostCrash \/ UNCHANGED vars
<1> USE DEF End, tgvars, bpvars
<1>0. LogTypes /\ OneInv /\ cur \in Jobs BY DEF TargetInv, TargetTypes
<1>00. pc # "wait" => \A j \in Jobs : step[j] = "idle" BY <1>0 DEF OneInv, InWork
<1>1. CASE CallBuildPkg
  <2>1. Alone(cur) BY <1>00, <1>1 DEF CallBuildPkg, Alone
  <2> QED BY <1>1, <2>1 DEF CallBuildPkg, Building
<1>2. CASE BuildPkgWorks
  <2>1. step[cur] # "idle" BY <1>0, <1>2, BuildPkgMoves DEF BuildPkgWorks, TargetInv
  <2> QED BY <1>2, <2>1 DEF BuildPkgWorks, Building
<1>3. CASE StopOnError \/ AbnormalEnd \/ NormalEnd
  <2>1. /\ Collect(cur) /\ pc = "wait"
        /\ \A j \in Jobs : "log" \in files'[j] <=> "log" \in files[j]
    BY <1>0, <1>3 DEF StopOnError, AbnormalEnd, NormalEnd, LogTypes
  <2>2. \A j \in Jobs : step[j] \in {"idle", "exited"} /\ step'[j] = "idle"
    BY <1>0, <2>1 DEF Collect, Goto, OneInv, InWork, LogTypes
  <2> QED BY <1>0, <2>1, <2>2 DEF Collect, Quiet, OneInv
<1>4. CASE CleanErr \/ CleanOut
  <2>1. \A j \in Jobs : "log" \in files'[j] <=> "log" \in files[j]
    BY <1>4 DEF CleanErr, CleanOut
  <2> QED BY <1>00, <1>4, <2>1 DEF CleanErr, CleanOut, Quiet
<1>5. CASE \/ StartRun \/ (\E j \in Jobs : StartJob(j)) \/ QueueEmpty
           \/ (\E j \in Jobs : TakeNext(j)) \/ Pack \/ FinishBuild
  <2>1. UNCHANGED bpvars /\ pc # "wait"
    BY <1>5 DEF StartRun, StartJob, QueueEmpty, TakeNext, Pack, FinishBuild
  <2> QED BY <1>00, <2>1 DEF Quiet, records, history
<1> QED BY <1>1, <1>2, <1>3, <1>4, <1>5 DEF Next, Program

LEMMA BuildingIsStep == Building /\ cur \in Jobs => BuildPkgNext
BY DEF Building, BuildPkgNext

LEMMA TargetTypeInit == Init => TypeOK
<1> SUFFICES ASSUME Init PROVE TypeOK OBVIOUS
<1>1. BuildPkgTypeOK BY BuildPkgTypeInit DEF Init
<1>2. jobrun \in BOOLEAN BY DEF Init
<1> QED BY <1>1, <1>2, BuildTargetOptions DEF Init, TypeOK, PCs

LEMMA TargetTypeStep == TargetInv /\ TypeOK /\ [Next]_vars => TypeOK'
<1> SUFFICES ASSUME TargetInv, TypeOK, [Next]_vars PROVE TypeOK' OBVIOUS
<1> USE DEF End, tgvars
<1>0. TargetInv' BY TargetNext
<1>1. BuildPkgTypeOK'
  <2>0. BuildPkgTypeOK /\ cur \in Jobs BY DEF TypeOK
  <2>1. CASE Building BY <2>0, <2>1, BuildingIsStep, BuildPkgTypeStep
  <2>2. CASE Quiet \/ HostCrash
    <3>1. UNCHANGED <<rc, records, cache, history>>
      BY <2>2 DEF Quiet, HostCrash, Crash
    <3>2. LogTypes' BY <1>0 DEF TargetInv, TargetTypes
    <3> QED BY <2>0, <3>1, <3>2 DEF BuildPkgTypeOK, LogTypes, records, history
  <2>3. CASE UNCHANGED vars
    BY <2>0, <2>3, BuildPkgTypeStep DEF vars
  <2> QED BY <2>1, <2>2, <2>3, BuildingOrQuiet
<1>2. runs' \in 0 .. MaxRuns /\ crashes' \in 0 .. MaxCrashes
  BY BuildTargetOptions
     DEF TypeOK, Next, Program, StartRun, StartJob, CleanErr, CleanOut, TakeNext, QueueEmpty,
         CallBuildPkg, BuildPkgWorks, StopOnError, AbnormalEnd, NormalEnd, Pack, FinishBuild,
         HostCrash, vars
<1>3. pkgdb' \subseteq Packages
  BY DEF TypeOK, Next, Program, StartRun, StartJob, CleanErr, CleanOut, TakeNext, QueueEmpty,
         CallBuildPkg, BuildPkgWorks, StopOnError, AbnormalEnd, NormalEnd, Pack, FinishBuild,
         HostCrash, vars
<1>4. pkgbin' \in [Packages -> SUBSET (1 .. 9)]
  <2>1. CASE Pack
    <3>1. flist[cur[2]] \ {0} \subseteq 1 .. 9 BY JobPairs DEF TypeOK, BuildPkgTypeOK
    <3> QED BY <2>1, <3>1 DEF Pack, TypeOK
  <2>2. CASE ~Pack
    BY <2>2 DEF TypeOK, Next, Program, StartRun, StartJob, CleanErr, CleanOut, TakeNext, QueueEmpty,
           CallBuildPkg, BuildPkgWorks, StopOnError, AbnormalEnd, NormalEnd, FinishBuild,
           HostCrash, vars
  <2> QED BY <2>1, <2>2
<1> QED BY <1>0, <1>1, <1>2, <1>3, <1>4 DEF TypeOK, TargetInv, TargetTypes

LEMMA TargetTyping == Spec => [](TargetInv /\ TypeOK)
BY TargetInit, TargetNext, TargetTypeInit, TargetTypeStep, PTL DEF Spec

\* Every variable of the build of a target has its type in every state.
THEOREM TargetTypeCorrect == Spec => []TypeOK
BY TargetTyping, PTL

-----------------------------------------------------------------------------
(* What a .log vouches for.                                                *)

\* The builds of which no signal is known: a .log stands for a build that
\* is recorded in full.
LogInv ==
  \A j \in Jobs :
    "log" \in files[j] /\ signal[j] = "none" /\ step[j] \in {"idle", "timed", "exited"} =>
      j[1] \in disk[j[2]] \cap flist[j[2]] \cap adm[j[2]]

LEMMA BuildKeepsLogInv ==
  ASSUME BuildPkgTypeOK, WorkInv, LogInv, NEW j \in Jobs,
         Start(j) \/ StartFails(j) \/ BuildPkgStep(j)
  PROVE  LogInv'
<1> USE DEF BuildPkgTypeOK, Goto, Exit, Leave, records, history, WorkInv, LogInv, InBlock
<1>1. /\ Recording(disk, j) /\ Recording(flist, j) /\ Recording(adm, j)
  BY Recorded, JobPairs DEF Records, Recording
<1> USE DEF Recording
<1>0. CASE RemoveLog(j) \/ RemoveErr(j) \/ RemoveCache(j)
  BY <1>0 DEF RemoveLog, RemoveErr, RemoveCache
<1>2. CASE Start(j) BY <1>2 DEF Start
<1>3. CASE StartFails(j) BY <1>3 DEF StartFails
<1>4. CASE ConfigFails(j) BY <1>4 DEF ConfigFails
<1>5. CASE OpenOutput(j) BY <1>5 DEF OpenOutput
<1>6. CASE MainBuild(j) BY <1>1, <1>6 DEF MainBuild
<1>7. CASE MainBuildFails(j) BY <1>1, <1>7 DEF MainBuildFails, Abort
<1>8. CASE FileList(j) BY <1>1, <1>8 DEF FileList, Abort
<1>9. CASE Describe(j) BY <1>1, <1>9 DEF Describe, Abort
<1>10. CASE Killed(j) BY <1>1, <1>10 DEF Killed
<1>11. CASE Interrupt(j) BY <1>1, <1>11 DEF Interrupt
<1>12. CASE Finish(j) BY <1>12 DEF Finish, Move
<1>13. CASE WriteCache(j) BY <1>13 DEF WriteCache
<1> QED
  BY <1>0, <1>2, <1>3, <1>4, <1>5, <1>6, <1>7, <1>8, <1>9, <1>10, <1>11, <1>12, <1>13
     DEF BuildPkgStep

\* A crash leaves the .log of an unfinished build behind.
VouchInv == WorkInv /\ (crashes = 0 => LogInv)

LEMMA VouchInit == Init => VouchInv
BY DEF Init, BuildPkgInit, VouchInv, WorkInv, LogInv, InBlock

LEMMA VouchStep == TargetInv /\ TypeOK /\ VouchInv /\ [Next]_vars => VouchInv'
<1> SUFFICES ASSUME TargetInv, TypeOK, VouchInv, [Next]_vars PROVE VouchInv' OBVIOUS
<1>0. BuildPkgTypeOK /\ WorkInv /\ cur \in Jobs /\ crashes \in Nat
  BY BuildTargetOptions DEF TypeOK, VouchInv
<1>1. CASE Building
  <2>1. WorkInv' BY <1>0, <1>1, BuildingIsStep, WorkStep
  <2>2. crashes' = crashes BY <1>1 DEF Building, tgvars
  <2>3. LogInv => LogInv' BY <1>0, <1>1, BuildKeepsLogInv DEF Building
  <2> QED BY <2>1, <2>2, <2>3 DEF VouchInv
<1>2. CASE Quiet
  <2>1. WorkInv' BY <1>2 DEF Quiet, WorkInv, InBlock
  <2>2. LogInv => LogInv' BY <1>2 DEF Quiet, LogInv, records, history
  <2>3. CASE crashes = 0 BY <2>1, <2>2, <2>3 DEF VouchInv
  <2>4. crashes' = crashes \/ crashes' = crashes + 1
    BY DEF Next, Program, StartRun, StartJob, CleanErr, CleanOut, TakeNext, QueueEmpty,
           CallBuildPkg, BuildPkgWorks, StopOnError, AbnormalEnd, NormalEnd, Pack, FinishBuild,
           HostCrash, vars, tgvars
  <2> QED BY <1>0, <2>1, <2>3, <2>4 DEF VouchInv
<1>3. CASE HostCrash
  <2>1. WorkInv' BY <1>3 DEF HostCrash, Crash, WorkInv, InBlock
  <2> QED BY <1>0, <1>3, <2>1 DEF HostCrash, VouchInv
<1>4. CASE UNCHANGED vars
  BY <1>4 DEF vars, bpvars, records, history, tgvars, VouchInv, WorkInv, LogInv
<1> QED BY <1>1, <1>2, <1>3, <1>4, BuildingOrQuiet

LEMMA VouchInvariance == Spec => [](TargetInv /\ TypeOK /\ VouchInv)
BY TargetInit, TargetNext, TargetTypeInit, TargetTypeStep, VouchInit, VouchStep, PTL DEF Spec

\* While the queue is consulted, a .log is that of a complete build: what the
\* job installed is in the records of its package.  It is so whatever fails,
\* but for crashes of the host, and signals that hit the build of the .log
\* (Build-Pkg:614-728, 982-986; Build-Target:84-98).
THEOREM LogsAreComplete ==
  Spec => [](crashes = 0 /\ (\A j \in Jobs : signal[j] = "none") => LogMeansComplete)
<1>1. TargetInv /\ VouchInv =>
        (crashes = 0 /\ (\A j \in Jobs : signal[j] = "none") => LogMeansComplete)
  BY DEF TargetInv, OneInv, InWork, VouchInv, LogInv, LogMeansComplete
<1> QED BY <1>1, VouchInvariance, PTL

-----------------------------------------------------------------------------
(* The package files.                                                      *)

\* No build is cut off, and none is done again behind the last stage of its
\* package: that would leave the package file as it is.
Whole == ~Kills /\ ~Interrupts /\ crashes = 0
NoRedo == ~JobMode /\ (NoBrokenDeps \/ ~RetryBroken)

Last(j) == j[1] > 0 /\ \A s \in Stages[j[2]] : s <= j[1]

\* What is installed is on the file list, when the build has come so far.
ListInv ==
  /\ \A j \in Jobs : signal[j] = "none"
  /\ \A p \in Packages : \A s \in disk[p] :
       s \in flist[p] \/ \E k \in Jobs : k[1] = s /\ k[2] = p /\ step[k] = "post"

\* A build that has left its .log has exited with success.
ExitInv ==
  \A j \in Jobs : step[j] \in {"timed", "exited"} /\ "log" \in files[j] => rc[j] = 0

LEMMA BuildKeepsListInv ==
  ASSUME BuildPkgTypeOK, ListInv, ~Kills, ~Interrupts, NEW j \in Jobs,
         Start(j) \/ StartFails(j) \/ BuildPkgStep(j)
  PROVE  ListInv'
<1> USE DEF BuildPkgTypeOK, Goto, Exit, Leave, records, history
<1>0. j[2] \in Packages BY JobPairs
<1>1. \A k \in Jobs : signal'[k] = "none"
  BY DEF ListInv, BuildPkgStep, RemoveLog, RemoveErr, RemoveCache, Start, StartFails, ConfigFails, OpenOutput, MainBuild,
         MainBuildFails, FileList, Describe, Killed, Interrupt, Finish, WriteCache
<1>2. ASSUME NEW p \in Packages, NEW s \in disk'[p]
      PROVE  s \in flist'[p] \/ \E k \in Jobs : k[1] = s /\ k[2] = p /\ step'[k] = "post"
  <2>1. CASE MainBuild(j) \/ MainBuildFails(j)
    <3>1. /\ disk' \in {disk, Record(disk, j)} /\ flist' = flist
          /\ step' = [step EXCEPT ![j] = "post"]
      BY <2>1 DEF MainBuild, MainBuildFails
    <3>2. CASE s \in disk[p] BY <1>2, <3>1, <3>2 DEF ListInv
    <3>3. CASE s \notin disk[p]
      <4>1. p = j[2] /\ s = j[1] BY <1>0, <1>2, <3>1, <3>3 DEF Record
      <4>2. step'[j] = "post" BY <3>1
      <4> QED BY <4>1, <4>2
    <3> QED BY <3>2, <3>3
  <2>2. CASE FileList(j)
    <3>1. /\ disk' = disk /\ step' = [step EXCEPT ![j] = "check"]
          /\ flist' = IF j[1] \in disk[j[2]] THEN Record(flist, j) ELSE flist
      BY <2>2 DEF FileList
    <3>2. \A q \in Packages : flist[q] \subseteq flist'[q] BY <3>1 DEF Record
    <3>3. CASE s = j[1] /\ p = j[2] BY <1>0, <1>2, <3>1, <3>3 DEF Record
    <3>4. CASE ~(s = j[1] /\ p = j[2]) BY <1>2, <3>1, <3>2, <3>4 DEF ListInv
    <3> QED BY <3>3, <3>4
  <2>3. CASE ~(MainBuild(j) \/ MainBuildFails(j) \/ FileList(j))
    <3>1. /\ disk' = disk /\ flist' = flist
          /\ \A k \in Jobs : step[k] = "post" => step'[k] = "post"
      BY <2>3
         DEF BuildPkgStep, RemoveLog, RemoveErr, RemoveCache, Start, StartFails, ConfigFails, OpenOutput, Describe, Killed,
             Interrupt, Finish, WriteCache
    <3> QED BY <1>2, <3>1 DEF ListInv
  <2> QED BY <2>1, <2>2, <2>3
<1> QED BY <1>1, <1>2 DEF ListInv

LEMMA BuildKeepsExitInv ==
  ASSUME BuildPkgTypeOK, WorkInv, ExitInv, ~Kills, NEW j \in Jobs,
         Start(j) \/ (StartFails(j) /\ "log" \notin files[j]) \/ BuildPkgStep(j)
  PROVE  ExitInv'
<1> USE DEF BuildPkgTypeOK, Goto, Exit, Leave, records, history, WorkInv, ExitInv
<1>0. CASE RemoveLog(j) \/ RemoveErr(j) \/ RemoveCache(j)
  BY <1>0 DEF RemoveLog, RemoveErr, RemoveCache
<1>1. CASE Start(j) BY <1>1 DEF Start
<1>2. CASE StartFails(j) /\ "log" \notin files[j] BY <1>2 DEF StartFails
<1>3. CASE ConfigFails(j) BY <1>3 DEF ConfigFails
<1>4. CASE OpenOutput(j) \/ MainBuild(j) BY <1>4 DEF OpenOutput, MainBuild
<1>5. CASE MainBuildFails(j) \/ FileList(j) \/ Describe(j)
  BY <1>5 DEF MainBuildFails, FileList, Describe, Abort
<1>6. CASE Interrupt(j) BY <1>6 DEF Interrupt
<1>7. CASE Finish(j) BY <1>7 DEF Finish, Move
<1>8. CASE WriteCache(j) BY <1>8 DEF WriteCache
<1> QED BY <1>0, <1>1, <1>2, <1>3, <1>4, <1>5, <1>6, <1>7, <1>8 DEF BuildPkgStep, Killed

\* A later run will not build this job again.
Firm(k) ==
  "log" \in files[k] \/ ("err" \in files[k] /\ ~RetryBroken /\ k[1] > ContinueOnErrorAfter)

\* While a job is built, the earlier stages of its package are done for good,
\* and the last stage is not built yet.
OwnInv ==
  /\ pc \in {"build", "wait", "pack"} =>
       \A k \in Jobs : k[2] = cur[2] /\ Before(k, cur) => Firm(k)
  /\ pc \in {"build", "wait"} =>
       \A j \in Jobs : Last(j) /\ j[2] = cur[2] /\ j # cur => "log" \notin files[j]
  /\ pc = "pack" => Last(cur)

\* When the last stage is built, so is all the package.
FirmInv ==
  \A j, k \in Jobs : Last(j) /\ "log" \in files[j] /\ k[2] = j[2] /\ k # j => Firm(k)

\* The package file of a package that is built has all that is installed.
PackedInv ==
  \A j \in Jobs :
    Last(j) /\ "log" \in files[j] /\ ~InWork(j) /\ ~(pc = "pack" /\ j = cur) =>
      disk[j[2]] \ {0} \subseteq pkgbin[j[2]]

DbInv ==
  ended = "done" => \A j \in Jobs : Last(j) /\ "log" \in files[j] => j[2] \in pkgdb

PkgInv == ListInv /\ ExitInv /\ OwnInv /\ FirmInv /\ PackedInv /\ DbInv

LEMMA PkgInit == Init => PkgInv
<1> SUFFICES ASSUME Init PROVE PkgInv OBVIOUS
<1>1. pc = "down" /\ ended = "no" BY DEF Init
<1>2. /\ \A j \in Jobs : files[j] = {} /\ step[j] = "idle" /\ signal[j] = "none"
      /\ \A p \in Packages : disk[p] = {}
  BY DEF Init, BuildPkgInit
<1> QED
  BY <1>1, <1>2 DEF PkgInv, ListInv, ExitInv, OwnInv, FirmInv, PackedInv, DbInv

\* What the steps of Build-Pkg mean for the packages: only the job's own is touched.
LEMMA BuildingKeepsPkgInv ==
  ASSUME TargetInv, TypeOK, VouchInv, Whole, ~jobrun, PkgInv, Building
  PROVE  PkgInv'
<1> USE DEF tgvars
<1>0. BuildPkgTypeOK /\ WorkInv /\ LogTypes /\ ErrInv /\ cur \in Jobs /\ ~Kills /\ ~Interrupts
  BY DEF TypeOK, VouchInv, TargetInv, TargetTypes, Whole
<1>1. /\ Start(cur) \/ (StartFails(cur) /\ "log" \notin files[cur]) \/ BuildPkgStep(cur)
      /\ Start(cur) \/ StartFails(cur) \/ BuildPkgStep(cur)
  BY DEF Building, StartFails, TargetInv, TurnInv, Absent
<1>2. /\ pc \in {"build", "wait"} /\ pc' = "wait" /\ ended = "no"
      /\ UNCHANGED <<cur, pkgbin, ended>>
  BY DEF Building, TargetInv, TargetTypes
<1>3. OnlyOf(cur) BY <1>0, <1>1, StartMoves, BuildPkgMoves
<1>4. \A p \in Packages : p # cur[2] => disk'[p] = disk[p]
  BY <1>0, <1>1
     DEF BuildPkgTypeOK, Record, BuildPkgStep, RemoveLog, RemoveErr, RemoveCache, Start, StartFails, ConfigFails, OpenOutput,
         MainBuild, MainBuildFails, FileList, Describe, Killed, Interrupt, Finish, WriteCache,
         records
<1>5. ListInv' /\ ExitInv'
  BY <1>0, <1>1, BuildKeepsListInv, BuildKeepsExitInv DEF PkgInv
<1>6. \A k \in Jobs : k # cur => files'[k] = files[k] /\ (Firm(k)' <=> Firm(k))
  BY <1>3 DEF OnlyOf, Firm
<1>7. OwnInv'
  <2>1. \A k \in Jobs : Before(k, cur) => k # cur BY <1>0, BeforeOrder
  <2> QED BY <1>0, <1>2, <1>6, <2>1 DEF PkgInv, OwnInv
<1>8. FirmInv'
  <2> SUFFICES ASSUME NEW j \in Jobs, NEW k \in Jobs, Last(j), "log" \in files'[j],
                      k[2] = j[2], k # j
               PROVE  Firm(k)'
    BY DEF FirmInv, Last
  <2>1. CASE j = cur
    <3>1. k[1] <= j[1] BY DEF Last, Jobs
    <3>2. Before(k, j) BY <3>1, JobPairs DEF Before
    <3> QED BY <1>2, <1>6, <2>1, <3>2 DEF PkgInv, OwnInv
  <2>2. CASE j # cur
    <3>1. "log" \in files[j] BY <1>6, <2>2
    <3>2. k # cur BY <1>2, <2>2, <3>1 DEF PkgInv, OwnInv
    <3> QED BY <1>6, <3>1, <3>2 DEF PkgInv, FirmInv
  <2> QED BY <2>1, <2>2
<1>9. PackedInv'
  <2> SUFFICES ASSUME NEW j \in Jobs, Last(j), "log" \in files'[j], j # cur
               PROVE  disk'[j[2]] \ {0} \subseteq pkgbin[j[2]]
    BY <1>2 DEF PackedInv, Last, InWork
  <2>1. "log" \in files[j] BY <1>6
  <2>2. j[2] # cur[2] BY <1>2, <2>1 DEF PkgInv, OwnInv
  <2>3. disk'[j[2]] = disk[j[2]] BY <1>4, <2>2, JobPairs
  <2> QED BY <1>2, <2>1, <2>3 DEF PkgInv, PackedInv, InWork
<1>10. DbInv' BY <1>2 DEF DbInv
<1> QED BY <1>5, <1>7, <1>8, <1>9, <1>10 DEF PkgInv

\* The earlier stages of the package of the first job in the queue are done
\* for good: the queue has no job of a package that misses an earlier one.
LEMMA EarlierIsFirm ==
  ASSUME TargetInv, NoRedo, ~jobrun, pc = "queue", NEW j \in Jobs, IsFirst(files, j),
         NEW k \in Jobs, k[2] = j[2], Before(k, j)
  PROVE  Firm(k)
<1>1. k \notin MissingBefore(files, j) BY DEF IsFirst, Queue, Buildable
<1>2. ~Absent(files, k) /\ ~(NoBrokenDeps /\ "err" \in files[k])
  BY <1>1 DEF MissingBefore, Missing
<1>3. CASE "log" \in files[k] BY <1>3 DEF Firm
<1>4. CASE "err" \in files[k]
  <2>1. ~RetryBroken BY <1>2, <1>4 DEF NoRedo
  <2>2. ~(k[1] <= ContinueOnErrorAfter) BY <1>4 DEF TargetInv, PassInv, InWork
  <2> QED BY <1>4, <2>1, <2>2, BuildTargetOptions, JobPairs DEF Firm
<1> QED BY <1>2, <1>3, <1>4 DEF Absent

\* Build-Target's own steps take no log that matters away.
LEMMA QuietKeepsPkgInv ==
  ASSUME TargetInv, TypeOK, VouchInv, ExInv, Whole, NoRedo, PkgFiles, PkgInv, Next, Quiet,
         ~HostCrash
  PROVE  PkgInv'
<1> USE DEF End, tgvars
<1>0. BuildPkgTypeOK /\ cur \in Jobs /\ ~jobrun /\ crashes = 0 /\ ContinueOnErrorAfter \in 0 .. 9
  BY BuildTargetOptions DEF TypeOK, ExInv, NoRedo, Whole
<1>1. /\ UNCHANGED <<rc, disk, flist, adm, signal>>
      /\ \A j \in Jobs : /\ step[j] \in {"idle", "exited"} /\ step'[j] = "idle"
                         /\ "log" \in files'[j] <=> "log" \in files[j]
  BY DEF Quiet, records, history
<1>2. ListInv' /\ ExitInv' /\ \A p \in Packages : disk[p] \subseteq flist[p]
  BY <1>1 DEF PkgInv, ListInv, ExitInv
<1>2a. ~CallBuildPkg
  BY <1>0, <1>1 DEF CallBuildPkg, Start, StartFails, Goto, BuildPkgTypeOK
<1>2b. ~BuildPkgWorks
  BY <1>0, <1>1, BuildPkgMoves DEF BuildPkgWorks, TargetInv, TargetTypes
<1>3. ASSUME NEW k \in Jobs, Firm(k) PROVE Firm(k)'
  <2>1. CASE "log" \in files[k] BY <1>1, <2>1 DEF Firm
  <2>2. CASE "err" \in files[k] /\ ~RetryBroken /\ k[1] > ContinueOnErrorAfter
    <3>0. ~CallBuildPkg /\ ~BuildPkgWorks BY <1>2a, <1>2b
    <3>1. "err" \in files'[k]
      <4>1. CASE CleanErr
        <5>1. ~(RetryBroken \/ k[1] <= ContinueOnErrorAfter) BY <1>0, <2>2, JobPairs
        <5> QED BY <2>2, <4>1, <5>1 DEF CleanErr
      <4>2. CASE CleanOut BY <2>2, <4>2 DEF CleanOut
      <4>3. CASE AbnormalEnd BY <1>0, <2>2, <4>3 DEF AbnormalEnd, BuildPkgTypeOK
      <4> QED
        BY <2>2, <3>0, <4>1, <4>2, <4>3
           DEF Next, Program, StartRun, StartJob, TakeNext, QueueEmpty, StopOnError,
               NormalEnd, Pack, FinishBuild, bpvars
    <3> QED BY <2>2, <3>1 DEF Firm
  <2> QED BY <1>3, <2>1, <2>2 DEF Firm
<1>4. FirmInv' BY <1>1, <1>3 DEF PkgInv, FirmInv, Last
\* Where nothing of this depends on the place that is reached.
<1>5. ASSUME pc' \notin {"build", "wait", "pack"}, ended' # "done", UNCHANGED pkgbin,
             \A j \in Jobs : Last(j) /\ "log" \in files[j] =>
               ~InWork(j) /\ ~(pc = "pack" /\ j = cur)
      PROVE  PkgInv'
  <2>1. PackedInv' BY <1>1, <1>5 DEF PkgInv, PackedInv, Last
  <2>2. OwnInv' /\ DbInv' BY <1>5 DEF OwnInv, DbInv
  <2> QED BY <1>2, <1>4, <2>1, <2>2 DEF PkgInv
<1>6. CASE StartRun \/ CleanErr \/ CleanOut \/ QueueEmpty
  <2>1. pc \notin {"wait", "pack"} /\ UNCHANGED pkgbin /\ ended' # "done"
    BY <1>6 DEF StartRun, CleanErr, CleanOut, QueueEmpty, TargetInv
  <2>2. pc' \notin {"build", "wait", "pack"}
    BY <1>6 DEF StartRun, CleanErr, CleanOut, QueueEmpty
  <2> QED BY <1>5, <2>1, <2>2 DEF InWork
<1>7. ASSUME NEW j \in Jobs, TakeNext(j) PROVE PkgInv'
  <2>0. /\ pc = "queue" /\ pc' = "build" /\ cur' = j /\ IsFirst(files, j)
        /\ UNCHANGED <<files, disk, pkgbin, ended>> /\ ended # "done"
    BY <1>7 DEF TakeNext, bpvars, records, TargetInv
  <2>1. Absent(files, j) BY <2>0 DEF IsFirst, Queue, Buildable
  <2>2. \A k \in Jobs : k[2] = j[2] /\ Before(k, j) => Firm(k)
    BY <1>0, <2>0, EarlierIsFirm
  <2>3. \A i \in Jobs : Last(i) /\ i[2] = j[2] /\ i # j => "log" \notin files[i]
    <3>1. \A i \in Jobs : Last(i) /\ "log" \in files[i] /\ i[2] = j[2] /\ i # j => Firm(j)
      BY DEF PkgInv, FirmInv
    <3>2. "err" \notin files[j] /\ "log" \notin files[j] BY <2>1 DEF Absent
    <3> QED BY <3>1, <3>2 DEF Firm
  <2>4. OwnInv' BY <1>3, <2>0, <2>2, <2>3 DEF OwnInv, Last
  <2>5. PackedInv' BY <2>0 DEF PkgInv, PackedInv, InWork, Last
  <2>6. DbInv' BY <2>0 DEF DbInv
  <2> QED BY <1>2, <1>4, <2>4, <2>5, <2>6 DEF PkgInv
<1>8. CASE StopOnError
  <2>1. "log" \notin files[cur]
    BY <1>0, <1>8 DEF StopOnError, Collect, PkgInv, ExitInv
  <2>2. pc' = "down" /\ ended' = "aborted" /\ UNCHANGED pkgbin /\ pc = "wait"
    BY <1>8 DEF StopOnError
  <2> QED BY <1>5, <2>1, <2>2 DEF InWork
<1>9. CASE AbnormalEnd
  <2>1. "log" \notin files[cur] BY <1>9 DEF AbnormalEnd, Absent
  <2>2. pc' = "down" /\ ended' = "aborted" /\ UNCHANGED pkgbin /\ pc = "wait"
    BY <1>9 DEF AbnormalEnd
  <2> QED BY <1>5, <2>1, <2>2 DEF InWork
<1>10. CASE NormalEnd
  <2>0. pc = "wait" /\ UNCHANGED <<cur, pkgbin, files, disk>> /\ ended = "no"
    BY <1>1, <1>10 DEF NormalEnd, TargetInv, TargetTypes
  <2>1. CASE WantPkgFile(cur)
    <3>1. pc' = "pack" /\ ended' = ended BY <1>10, <2>1 DEF NormalEnd
    <3>2. Last(cur) BY <2>1 DEF WantPkgFile, Last
    <3>3. OwnInv' BY <1>3, <2>0, <3>1, <3>2 DEF PkgInv, OwnInv, Last
    <3>4. PackedInv' BY <2>0, <3>1 DEF PkgInv, PackedInv, InWork, Last
    <3>5. DbInv' BY <2>0, <3>1 DEF DbInv
    <3> QED BY <1>2, <1>4, <3>3, <3>4, <3>5 DEF PkgInv
  <2>2. CASE ~WantPkgFile(cur)
    <3>1. pc' = "queue" /\ ended' # "done" BY <1>0, <1>10, <2>0, <2>2 DEF NormalEnd, PackageDone
    <3>2. Last(cur) => "log" \notin files[cur]
      BY <1>0, <2>2 DEF WantPkgFile, Last, ExInv, NoRedo, LogErrExclusive
    <3> QED BY <1>5, <2>0, <3>1, <3>2 DEF InWork
  <2> QED BY <2>1, <2>2
<1>11. CASE Pack
  <2>0. /\ pc = "pack" /\ pc' = "queue" /\ ended' # "done" /\ UNCHANGED <<cur, files, disk>>
        /\ pkgbin' = [pkgbin EXCEPT ![cur[2]] = flist[cur[2]] \ {0}]
    BY <1>0, <1>11 DEF Pack, PackageDone, TargetInv, bpvars, records
  <2>1. Last(cur) BY <2>0 DEF PkgInv, OwnInv
  <2>2. PackedInv'
    <3> SUFFICES ASSUME NEW j \in Jobs, Last(j), "log" \in files[j]
                 PROVE  disk[j[2]] \ {0} \subseteq pkgbin'[j[2]]
      BY <2>0 DEF PackedInv, Last
    <3>0. j[2] \in Packages /\ cur[2] \in Packages /\ pkgbin \in [Packages -> SUBSET (1 .. 9)]
      BY <1>0, JobPairs DEF TypeOK
    <3>1. CASE j[2] = cur[2] BY <1>2, <2>0, <3>0, <3>1
    <3>2. CASE j[2] # cur[2] BY <2>0, <3>0, <3>2 DEF PkgInv, PackedInv, InWork
    <3> QED BY <3>1, <3>2
  <2>3. OwnInv' /\ DbInv' BY <2>0 DEF OwnInv, DbInv
  <2> QED BY <1>2, <1>4, <2>2, <2>3 DEF PkgInv
<1>12. CASE FinishBuild
  <2>0. /\ pc = "finish" /\ pc' = "down" /\ UNCHANGED <<cur, files, disk, adm, pkgbin>>
        /\ pkgdb' = {p \in Packages : adm[p] # {} /\ pkgbin[p] # {}}
    BY <1>12 DEF FinishBuild, bpvars, records
  <2>1. ASSUME NEW j \in Jobs, Last(j), "log" \in files[j] PROVE j[2] \in pkgdb'
    <3>1. j[1] \in adm[j[2]] /\ j[1] \in disk[j[2]]
      BY <1>0, <1>1, <2>1 DEF VouchInv, LogInv, PkgInv, ListInv
    <3>2. disk[j[2]] \ {0} \subseteq pkgbin[j[2]]
      BY <2>0, <2>1 DEF PkgInv, PackedInv, InWork
    <3>3. j[1] \in pkgbin[j[2]] BY <2>1, <3>1, <3>2, JobPairs DEF Last
    <3> QED BY <2>0, <3>1, <3>3, JobPairs
  <2>2. DbInv' BY <2>0, <2>1 DEF DbInv, Last
  <2>3. OwnInv' /\ PackedInv' BY <2>0 DEF PkgInv, OwnInv, PackedInv, InWork, Last
  <2> QED BY <1>2, <1>4, <2>2, <2>3 DEF PkgInv
<1>13. \A j \in Jobs : ~StartJob(j) BY DEF StartJob, NoRedo
<1> QED
  BY <1>6, <1>7, <1>8, <1>9, <1>10, <1>11, <1>12, <1>13, <1>2a, <1>2b DEF Next, Program

FilesInv == Whole /\ NoRedo /\ PkgFiles => PkgInv

LEMMA FilesStep == TargetInv /\ TypeOK /\ VouchInv /\ ExInv /\ FilesInv /\ [Next]_vars => FilesInv'
<1> SUFFICES ASSUME TargetInv, TypeOK, VouchInv, ExInv, FilesInv, [Next]_vars,
                    Whole', NoRedo, PkgFiles
             PROVE  PkgInv'
  BY DEF FilesInv, NoRedo
<1>1. crashes \in Nat /\ crashes' = 0 /\ ~HostCrash
  BY BuildTargetOptions DEF TypeOK, Whole, HostCrash
<1>2. crashes' = crashes
  BY <1>1
     DEF Next, Program, StartRun, StartJob, CleanErr, CleanOut, TakeNext, QueueEmpty,
         CallBuildPkg, BuildPkgWorks, StopOnError, AbnormalEnd, NormalEnd, Pack, FinishBuild,
         vars, tgvars
<1>3. Whole /\ PkgInv /\ ~jobrun BY <1>1, <1>2 DEF Whole, FilesInv, ExInv, NoRedo
<1>4. CASE Building BY <1>3, <1>4, BuildingKeepsPkgInv
<1>5. CASE UNCHANGED vars
  BY <1>3, <1>5
     DEF vars, bpvars, records, history, tgvars, PkgInv, ListInv, ExitInv, OwnInv, FirmInv,
         PackedInv, DbInv, Firm, Last, InWork
<1>6. CASE Quiet /\ Next BY <1>1, <1>3, <1>6, QuietKeepsPkgInv
<1> QED BY <1>1, <1>4, <1>5, <1>6, BuildingOrQuiet

\* After a run that came to its end, each package whose last stage is built
\* has a package file with all that its builds have installed, and is in the
\* package database (Build-Target:236-289).  That takes builds that are not
\* cut off, and no stage that is built behind the last one: not with -job,
\* nor if broken jobs are passed over and tried again in a later run.
THEOREM PackageFilesAreCurrent == Spec => [](Whole /\ NoRedo => PkgFilesCurrent)
<1> DEFINE All == TargetInv /\ TypeOK /\ VouchInv /\ ExInv /\ FilesInv
<1>1. Init => All
  BY TargetInit, TargetTypeInit, VouchInit, ExInit, PkgInit DEF FilesInv
<1>2. All /\ [Next]_vars => All'
  BY TargetNext, TargetTypeStep, VouchStep, ExNext, FilesStep
<1>3. All => (Whole /\ NoRedo => PkgFilesCurrent)
  <2> SUFFICES ASSUME All, Whole, NoRedo, ended = "done", PkgFiles, NEW j \in Jobs,
                      j[1] > 0, "log" \in files[j], \A s \in Stages[j[2]] : s <= j[1]
               PROVE  disk[j[2]] \ {0} \subseteq pkgbin[j[2]] /\ j[2] \in pkgdb
    BY DEF PkgFilesCurrent
  <2>1. pc = "down" /\ PkgInv /\ Last(j) BY DEF TargetInv, FilesInv, Last
  <2> QED BY <2>1 DEF PkgInv, PackedInv, DbInv, InWork
<1> QED BY <1>1, <1>2, <1>3, PTL DEF Spec
=============================================================================
