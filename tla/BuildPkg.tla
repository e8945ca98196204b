------------------------------ MODULE BuildPkg ------------------------------
(***************************************************************************)
(* scripts/Build-Pkg: the build of one package in one stage.               *)
(*                                                                         *)
(* What a build leaves behind are three files per job in var/adm/logs:     *)
(*   .out  the output of the build that is running, or was when it died    *)
(*   .log  the build succeeded, .err  the build failed                     *)
(* and, per package, its records in var/adm (flists, packages, md5sums)    *)
(* and its cache file.  .log has two uses: the main build touches it when  *)
(* it ends, a later abort removes it again, and the end of the script      *)
(* takes it as the verdict and replaces it with the .out file.             *)
(*                                                                         *)
(* Each step below is the code between two effects on these files; a       *)
(* process can be interrupted (Ctrl-C) or die between any two of them.     *)
(***************************************************************************)
EXTENDS PkgQueue

CONSTANTS
  CreateCache,     \* SDECFG_CREATE_CACHE
  Interrupts,      \* whether the user may press Ctrl-C
  Kills            \* whether a Build-Pkg process may be killed

ASSUME BuildPkgOptions == {CreateCache, Interrupts, Kills} \subseteq BOOLEAN

VARIABLES
  files,      \* [Jobs -> SUBSET Logs]
  step,       \* where the Build-Pkg process of a job is
  rc,         \* its exit status, 0 or 1, once it has exited
  disk,       \* disk[p]: the stages whose files are installed
  flist,      \* flist[p]: the stages whose files are listed in flists/p
  adm,        \* adm[p]: the "Build [stage]" lines of packages/p
  cache,      \* cache[p]: the [BUILDTIME] line of cache/p
  aborted,    \* history: this build ran abort(), or failed before it could
  signal,     \* history: the signal that hit this build
  oldlog,     \* history: the jobs whose last start has not come to the .log
  olderr      \* history: the packages whose last start has removed the .err,
              \* but not the cache file

records == <<disk, flist, adm>>
history == <<aborted, signal, oldlog, olderr>>
bpvars == <<files, step, rc, records, cache, history>>

Steps == {"idle", "rm_log", "rm_err", "rm_cache", "prepare",
          "main", "post", "check", "finish", "timed", "exited"}
FirstRun == {"rm_log", "rm_err", "rm_cache", "timed"}   \* the child does not run
InBlock == {"main", "post", "check"}      \* the { ... } 2>&1 | block

\* Variant: the record is written anew.
RecordOnly(rec, j) == [rec EXCEPT ![j[2]] = {j[1]}]

\* Add a stage to the record of the job's package.
Record(rec, j) == [rec EXCEPT ![j[2]] = @ \union {j[1]}]

BuildPkgTypeOK ==
  /\ files \in [Jobs -> SUBSET Logs]
  /\ step \in [Jobs -> Steps]
  /\ rc \in [Jobs -> {0, 1}]
  /\ disk \in [Packages -> SUBSET (0 .. 9)]
  /\ flist \in [Packages -> SUBSET (0 .. 9)]
  /\ adm \in [Packages -> SUBSET (0 .. 9)]
  /\ cache \in [Packages -> {"none", "ok", "ERROR"}]
  /\ aborted \in [Jobs -> BOOLEAN]
  /\ signal \in [Jobs -> {"none", "INT", "KILL"}]
  /\ oldlog \subseteq Jobs /\ olderr \subseteq Packages

BuildPkgInit ==
  /\ files = [j \in Jobs |-> {}]
  /\ step = [j \in Jobs |-> "idle"]
  /\ rc = [j \in Jobs |-> 0]
  /\ disk = [p \in Packages |-> {}]
  /\ flist = [p \in Packages |-> {}]
  /\ adm = [p \in Packages |-> {}]
  /\ cache = [p \in Packages |-> "none"]
  /\ aborted = [j \in Jobs |-> FALSE]
  /\ signal = [j \in Jobs |-> "none"]
  /\ oldlog = {} /\ olderr = {}

-----------------------------------------------------------------------------
Goto(j, s) == step' = [step EXCEPT ![j] = s]

\* Variant: the shell's status after a signal.
ExitSignal(j, code) == rc' = [rc EXCEPT ![j] = 130 * code]

Exit(j, code) == rc' = [rc EXCEPT ![j] = code]

\* With SDECFG_CREATE_CACHE the second run is a child that is timed.
IsTimed(j) == CreateCache /\ j[1] > 1
Leave(j) == Goto(j, IF IsTimed(j) THEN "timed" ELSE "exited")

\* Variant: the first run leaves the old cache file alone.
KeepCache(j) == UNCHANGED cache

\* The first run removes the [BUILDTIME] of the last build.
ForgetCache(j) == cache' = [cache EXCEPT ![j[2]] = "none"]

\* The logs of the previous build are removed, first the .out file.
Start(j) ==
  /\ step[j] = "idle"
  /\ files' = [files EXCEPT ![j] = @ \ {"out"}]
  /\ aborted' = [aborted EXCEPT ![j] = FALSE]
  /\ signal' = [signal EXCEPT ![j] = "none"]
  /\ oldlog' = oldlog \union {j}
  /\ Goto(j, "rm_log")
  /\ UNCHANGED <<rc, records, cache, olderr>>

RemoveLog(j) ==
  /\ step[j] = "rm_log"
  /\ files' = [files EXCEPT ![j] = @ \ {"log"}]
  /\ oldlog' = oldlog \ {j}
  /\ Goto(j, "rm_err")
  /\ UNCHANGED <<rc, records, cache, aborted, signal, olderr>>

\* (A second run finds no logs when it removes them again.)
RemoveErr(j) ==
  /\ step[j] = "rm_err"
  /\ files' = [files EXCEPT ![j] = @ \ {"err"}]
  /\ olderr' = IF IsTimed(j) THEN olderr \union {j[2]} ELSE olderr
  /\ Goto(j, IF IsTimed(j) THEN "rm_cache" ELSE "prepare")
  /\ UNCHANGED <<rc, records, cache, aborted, signal, oldlog>>

RemoveCache(j) ==
  /\ step[j] = "rm_cache"
  /\ ForgetCache(j)
  /\ olderr' = olderr \ {j[2]}
  /\ Goto(j, "prepare")
  /\ UNCHANGED <<files, rc, records, aborted, signal, oldlog>>

\* Exit 1 before the logs are removed: Build-Tools failed, or there is no
\* such package; one found in several trees writes an .err file first.
StartFails(j) ==
  /\ step[j] = "idle"
  /\ \E dup \in BOOLEAN :
       files' = IF dup THEN [files EXCEPT ![j] = @ \union {"err"}] ELSE files
  /\ aborted' = [aborted EXCEPT ![j] = TRUE]
  /\ Exit(j, 1) /\ Goto(j, "exited")
  /\ UNCHANGED <<records, cache, signal, oldlog, olderr>>

\* The second run exits 1 before the build: abort() of functions.in, for a
\* configuration error, writes an .err file; a failing Build-Tools does not.
ConfigFails(j) ==
  /\ step[j] = "prepare"
  /\ \E abort \in BOOLEAN :
       files' = IF abort THEN [files EXCEPT ![j] = @ \union {"err"}] ELSE files
  /\ aborted' = [aborted EXCEPT ![j] = TRUE]
  /\ Exit(j, 1) /\ Leave(j)
  /\ UNCHANGED <<records, cache, signal, oldlog, olderr>>

OpenOutput(j) ==
  /\ step[j] = "prepare"
  /\ files' = [files EXCEPT ![j] = @ \union {"out"}]
  /\ Goto(j, "main")
  /\ UNCHANGED <<rc, records, cache, history>>

\* Variant: the .log stays.
AbortKeepsLog(j) ==
  /\ aborted' = [aborted EXCEPT ![j] = TRUE]
  /\ UNCHANGED files

\* The redefined abort(): it removes the .log and returns, the block goes on.
Abort(j) ==
  /\ files' = [files EXCEPT ![j] = @ \ {"log"}]
  /\ aborted' = [aborted EXCEPT ![j] = TRUE]

\* Variant: the verdict is given right after the main build.
MainBuildMoves(j) ==
  /\ step[j] = "main"
  /\ disk' = Record(disk, j)
  /\ files' = [files EXCEPT ![j] = {"log"}]
  /\ Goto(j, "post")
  /\ UNCHANGED <<rc, flist, adm, cache, history>>

MainBuild(j) ==
  /\ step[j] = "main"
  /\ disk' = Record(disk, j)
  /\ files' = [files EXCEPT ![j] = @ \union {"log"}]
  /\ Goto(j, "post")
  /\ UNCHANGED <<rc, flist, adm, cache, history>>

\* A command of the main build fails, with files installed before or not.
MainBuildFails(j) ==
  /\ step[j] = "main"
  /\ disk' \in {disk, Record(disk, j)}
  /\ Abort(j)
  /\ Goto(j, "post")
  /\ UNCHANGED <<rc, flist, adm, cache, signal, oldlog, olderr>>

\* The file list is merged with the old one, whether or not files were
\* created where they should not be.
FileList(j) ==
  /\ step[j] = "post"
  /\ flist' = IF j[1] \in disk[j[2]] THEN Record(flist, j) ELSE flist
  /\ Abort(j) \/ UNCHANGED <<files, aborted>>
  /\ Goto(j, "check")
  /\ UNCHANGED <<rc, disk, adm, cache, signal, oldlog, olderr>>

\* Dependencies, md5sums and description; then the paranoia checks.
Describe(j) ==
  /\ step[j] = "check"
  /\ adm' = Record(adm, j)
  /\ Abort(j) \/ UNCHANGED <<files, aborted>>
  /\ Goto(j, "finish")
  /\ UNCHANGED <<rc, disk, flist, cache, signal, oldlog, olderr>>

\* Ctrl-C: the trap leaves the block with exit 1.  The reader of the pipe
\* ignores the signal, and the script goes on behind the pipe.
Interrupt(j) ==
  /\ Interrupts
  /\ step[j] \in InBlock
  /\ signal' = [signal EXCEPT ![j] = "INT"]
  /\ UNCHANGED disk \/ (step[j] = "main" /\ disk' = Record(disk, j))
  /\ Goto(j, "finish")
  /\ UNCHANGED <<files, rc, flist, adm, cache, aborted, oldlog, olderr>>

\* The process is killed, which is all that a Ctrl-C does before the trap is
\* set: its caller sees a failure, the files stay.  The run that times a child
\* outlives the child; a kill that hits it when the child has exited is no
\* signal to the build.
Killed(j) ==
  /\ Kills
  /\ step[j] \notin {"idle", "exited"}
  /\ signal' = IF step[j] = "timed" THEN signal ELSE [signal EXCEPT ![j] = "KILL"]
  /\ UNCHANGED disk \/ (step[j] = "main" /\ disk' = Record(disk, j))
  /\ Exit(j, 1)
  /\ IF step[j] \in FirstRun THEN Goto(j, "exited") ELSE Leave(j)
  /\ UNCHANGED <<files, flist, adm, cache, aborted, oldlog, olderr>>

\* Variant: cp.
Copy(from, to, s) == IF from \in s THEN s \union {to} ELSE s

\* mv .out .log or mv .out .err; mv fails if there is no .out file.
Move(from, to, s) == IF from \in s THEN (s \ {from}) \union {to} ELSE s

Finish(j) ==
  LET good == "log" \in files[j]
  IN  /\ step[j] = "finish"
      /\ files' = [files EXCEPT ![j] = Move("out", IF good THEN "log" ELSE "err", @)]
      /\ Exit(j, IF good THEN 0 ELSE 1)
      /\ Leave(j)
      /\ UNCHANGED <<records, cache, history>>

\* The first run notes the build time, and an ERROR if there is an .err file.
WriteCache(j) ==
  /\ step[j] = "timed"
  /\ cache' = [cache EXCEPT ![j[2]] = IF "err" \in files[j] THEN "ERROR" ELSE "ok"]
  /\ Goto(j, "exited")
  /\ UNCHANGED <<files, rc, records, history>>

\* The caller takes the exit status (and may write log files itself).
Collect(j) ==
  /\ step[j] = "exited"
  /\ Goto(j, "idle")
  /\ UNCHANGED <<rc, records, cache, history>>

\* One step of a Build-Pkg process that has started.
BuildPkgStep(j) ==
  \/ RemoveLog(j) \/ RemoveErr(j) \/ RemoveCache(j)
  \/ ConfigFails(j) \/ OpenOutput(j)
  \/ MainBuild(j) \/ MainBuildFails(j)
  \/ FileList(j) \/ Describe(j)
  \/ Interrupt(j) \/ Killed(j)
  \/ Finish(j) \/ WriteCache(j)

\* The host crashes: the processes are gone, their files stay.
Crash ==
  /\ step' = [j \in Jobs |-> "idle"]
  /\ UNCHANGED <<files, rc, records, cache, history>>

-----------------------------------------------------------------------------
(* Build-Pkg as it is run by hand, or by Emerge-Pkg: any job, again and     *)
(* again, several at a time, but no two jobs of one package at a time       *)
(* (they share the package's records).                                      *)
Alone(j) == \A k \in Jobs : k[2] = j[2] => step[k] = "idle"

BuildPkgNext ==
  \/ \E j \in Jobs :
       \/ Alone(j) /\ (Start(j) \/ StartFails(j))
       \/ BuildPkgStep(j)
       \/ Collect(j) /\ UNCHANGED files
  \/ Crash

BuildPkgSpec == BuildPkgInit /\ [][BuildPkgNext]_bpvars
BuildPkgFairSpec ==
  BuildPkgSpec /\ \A j \in Jobs : WF_bpvars(BuildPkgStep(j))

-----------------------------------------------------------------------------
\* A build that ran abort() at any point, which returns and lets the rest of
\* the block run, is not reported as a success, whatever that rest does.
AbortIsFailure ==
  \A j \in Jobs : step[j] = "exited" /\ aborted[j] => rc[j] = 1

\* "Got SIGINT (Ctrl-C).  Aborting build.": an interrupted build has failed.
InterruptIsFailure ==
  \A j \in Jobs : step[j] = "exited" /\ signal[j] = "INT" => rc[j] = 1

\* A .log that is not accompanied by an .out file is a verdict and not the
\* mark of the main build: everything the build installed is recorded, even
\* if there were kills and crashes (the mv at the end of Build-Pkg comes last).
\* There are two exceptions: a Ctrl-C (see InterruptIsFailure), and a start
\* that has removed the .out of a dead build and not yet its .log, or that
\* died there: then the mark of the dead build passes for a verdict.
LoneLogIsComplete ==
  \A j \in Jobs :
    files[j] \cap {"log", "out"} = {"log"} /\ signal[j] # "INT" /\ j \notin oldlog =>
      j[1] \in disk[j[2]] \cap flist[j[2]] \cap adm[j[2]]

\* The ERROR noted in a cache file is the failure of a build whose .err is
\* still there, never that of a build that has since been started again; but
\* for a start that dies after it has removed the .err and before it removes
\* the cache file.
CacheErrorIsCurrent ==
  \A p \in Packages \ olderr : cache[p] = "ERROR" =>
    \E j \in Jobs : j[2] = p /\ "err" \in files[j]

\* A build that is not killed ends with exactly one of .log and .err, also
\* after a Ctrl-C; or the host crashes.
BuildEnds ==
  \A j \in Jobs : step[j] = "main" ~>
    (step[j] = "idle" \/ signal[j] = "KILL" \/ files[j] \in {{"log"}, {"err"}})
=============================================================================
