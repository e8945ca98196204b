---------------------------- MODULE PkgQueueScan ----------------------------
(***************************************************************************)
(* The awk program of scripts/Create-PkgQueue, one line of the packages    *)
(* file per step: what it remembers from the lines before (not_present,    *)
(* stage0_not_present, stage01_not_present, stage9_no_deps) and what it    *)
(* prints.  The log files do not change while it runs.                     *)
(***************************************************************************)
EXTENDS PkgQueue

VARIABLES
  files,                \* the log files of each job
  single,               \* option -single: stop after the first job printed
  stagelevel, line,     \* the line read next; stage 10 is the end of BEGIN
  not_present,          \* packages found missing so far
  stage0_not_present,
  stage01_not_present,
  stage9_no_deps,       \* 9, or NoStage once a job below stage 9 is absent
  queued                \* the jobs printed

scanned == <<not_present, stage0_not_present, stage01_not_present,
             stage9_no_deps, queued>>
vars == <<files, single, stagelevel, line, scanned>>

NoStage == 10           \* the "x" that is different from every stage level

\* The sets of log files that builds leave behind (see BuildPkg).
LogSets == {{}, {"out"}, {"log"}, {"err"}, {"out", "log"}, {"log", "err"}}

Init ==
  /\ files \in [Jobs -> LogSets]
  /\ single \in BOOLEAN
  /\ stagelevel = 0 /\ line = 1
  /\ not_present = {}
  /\ stage0_not_present = FALSE /\ stage01_not_present = FALSE
  /\ stage9_no_deps = 9
  /\ queued = {}

\* Variant: the end of the file is not noticed.
ReadingOn == stagelevel <= 9

Reading == stagelevel <= 9 /\ line <= NumPackages
Here == <<stagelevel, line>>

NextLine == line' = line + 1 /\ UNCHANGED <<files, single, stagelevel>>

\* End of file: close it and read it again for the next stage.
NextStage ==
  /\ stagelevel <= 9 /\ line > NumPackages
  /\ stagelevel' = stagelevel + 1
  /\ line' = 1
  /\ UNCHANGED <<files, single, scanned>>

\* The package is not built in this stage.
SkipLine ==
  /\ Reading /\ Here \notin Jobs
  /\ NextLine
  /\ UNCHANGED scanned

\* Variant: t2-debug is not considered.
BuildDebugEarly(s0, s01, nodeps) ==
  /\ "out" \notin files[Here]
  /\ line \notin not_present
  /\ ~(not_present # {} /\ stagelevel # nodeps)

\* What the loop decides for an absent job, with its flags already updated.
BuildThis(s0, s01, nodeps) ==
  /\ "out" \notin files[Here]
  /\ line \notin not_present
  /\ ~(stagelevel = 0 /\ not_present # {})
  /\ ~(stagelevel > 0 /\ s0)
  /\ ~(stagelevel >= 2 /\ s01)
  /\ ~(not_present # {} /\ stagelevel # nodeps)
  /\ ~(line = T2Debug /\ not_present # {})

AbsentLine ==
  LET s0     == stage0_not_present \/ stagelevel = 0
      s01    == stage01_not_present \/ stagelevel <= 1
      nodeps == IF stagelevel < 9 THEN NoStage ELSE stage9_no_deps
      build  == BuildThis(s0, s01, nodeps)
  IN  /\ Reading /\ Here \in Jobs
      /\ Absent(files, Here)
      /\ stage0_not_present' = s0
      /\ stage01_not_present' = s01
      /\ stage9_no_deps' = nodeps
      /\ queued' = IF build THEN queued \union {Here} ELSE queued
      /\ IF build /\ single
         THEN /\ stagelevel' = NoStage
              /\ UNCHANGED <<files, single, line, not_present>>
         ELSE /\ not_present' = not_present \union {line}
              /\ NextLine

BrokenHere == NoBrokenDeps /\ "err" \in files[Here]

\* A job with a .log or an .err: only a failed one can still be missing.
PresentLine ==
  /\ Reading /\ Here \in Jobs
  /\ ~Absent(files, Here)
  /\ not_present' = IF BrokenHere THEN not_present \union {line} ELSE not_present
  /\ NextLine
  /\ UNCHANGED <<stage0_not_present, stage01_not_present, stage9_no_deps, queued>>

Next == NextStage \/ SkipLine \/ AbsentLine \/ PresentLine

Spec == Init /\ [][Next]_vars

-----------------------------------------------------------------------------
\* The position of the scan, as a job that every job already read is before.
Read(k) == Before(k, Here)

TypeOK ==
  /\ files \in [Jobs -> SUBSET Logs]
  /\ single \in BOOLEAN
  /\ stagelevel \in 0 .. NoStage
  /\ line \in 1 .. (NumPackages + 1)
  /\ not_present \subseteq Packages
  /\ stage0_not_present \in BOOLEAN
  /\ stage01_not_present \in BOOLEAN
  /\ stage9_no_deps \in {9, NoStage}
  /\ queued \subseteq Jobs

\* The flags the loop carries from line to line say exactly what the closed
\* form quantifies over (Create-PkgQueue accumulates them in awk globals).
FlagsInv ==
  stagelevel <= 9 =>
    /\ not_present = {k[2] : k \in {i \in Jobs : Read(i) /\ Missing(files, i)}}
    /\ stage0_not_present <=> \E k \in Jobs : Read(k) /\ k[1] = 0 /\ Absent(files, k)
    /\ stage01_not_present <=> \E k \in Jobs : Read(k) /\ k[1] <= 1 /\ Absent(files, k)
    /\ stage9_no_deps = NoStage <=>
         \E k \in Jobs : Read(k) /\ k[1] < 9 /\ Absent(files, k)

\* Every job read so far was printed exactly if it is buildable; with -single
\* the scan goes on only while there was none.
QueuedInv ==
  /\ stagelevel <= 9 => queued = {k \in Jobs : Read(k) /\ Buildable(files, k)}
  /\ single /\ stagelevel <= 9 => queued = {}

\* When Create-PkgQueue ends it has printed exactly the buildable jobs, or,
\* with -single, the first of them: nothing if and only if there is none.
QueueCorrect ==
  stagelevel = NoStage =>
    IF single THEN /\ queued = {} <=> Queue(files) = {}
                   /\ queued # {} => \E j \in Jobs : queued = {j} /\ IsFirst(files, j)
              ELSE queued = Queue(files)
=============================================================================
