------------------------- MODULE PkgQueueScanProofs -------------------------
(***************************************************************************)
(* Proof that the awk loop of Create-PkgQueue computes the queue, for any  *)
(* packages file and any log files.                                        *)
(*                                                                         *)
(* The loop decides each line from four flags it has accumulated.  They    *)
(* are invariantly what FlagsInv says: the closed form's quantifiers,      *)
(* restricted to the jobs that were read.  With that, the decision taken   *)
(* for a line is the closed form's (Decision), so what was printed is what *)
(* QueuedInv says, and at the end of the file everything was read.         *)
(***************************************************************************)
EXTENDS PkgQueueScan, TLAPS

LEMMA JobParts == \A k \in Jobs : /\ k = <<k[1], k[2]>>
                                  /\ k[1] \in 0 .. 9
                                  /\ k[2] \in Packages
BY DEF Jobs

\* Reading a line adds the job of the line to the jobs that were read.
LEMMA LineRead ==
  ASSUME TypeOK, Reading, NextLine
  PROVE  \A k \in Jobs : Read(k)' <=> (Read(k) \/ k = Here)
<1> TAKE k \in Jobs
<1>1. k = <<k[1], k[2]>> /\ k[1] \in Nat /\ k[2] \in Nat
  BY JobParts DEF Packages
<1>2. line \in Nat /\ stagelevel \in Nat
  BY PackagesFile DEF TypeOK
<1>3. line' = line + 1 /\ stagelevel' = stagelevel
  BY DEF NextLine
<1>4. k = Here <=> k[1] = stagelevel /\ k[2] = line
  BY <1>1 DEF Here
<1> QED
  BY <1>1, <1>2, <1>3, <1>4 DEF Read, Before, Here

\* The end of a stage adds none.
LEMMA StageRead ==
  ASSUME TypeOK, NextStage
  PROVE  \A k \in Jobs : Read(k)' <=> Read(k)
<1> TAKE k \in Jobs
<1>1. k[1] \in Nat /\ k[2] \in 1 .. NumPackages /\ NumPackages \in Nat
  BY JobParts, PackagesFile DEF Packages
<1>2. line \in Nat /\ stagelevel \in Nat /\ line > NumPackages
  BY PackagesFile DEF TypeOK, NextStage
<1>3. line' = 1 /\ stagelevel' = stagelevel + 1
  BY DEF NextStage
<1> QED
  BY <1>1, <1>2, <1>3 DEF Read, Before, Here

\* The flags with which an absent job is decided.
s0 == stage0_not_present \/ stagelevel = 0
s01 == stage01_not_present \/ stagelevel <= 1
nodeps == IF stagelevel < 9 THEN NoStage ELSE stage9_no_deps

\* The decision of the loop for an absent job is the closed form's.
LEMMA Decision ==
  ASSUME TypeOK, FlagsInv, Reading, Here \in Jobs, Absent(files, Here)
  PROVE  BuildThis(s0, s01, nodeps) <=> Buildable(files, Here)
<1> DEFINE MB == MissingBefore(files, Here)
<1>1. Here[1] = stagelevel /\ Here[2] = line /\ stagelevel \in 0 .. 9
  BY DEF Here, Reading, TypeOK
<1>2. not_present = {k[2] : k \in MB}
  BY <1>1 DEF FlagsInv, MissingBefore, Read
<1>3. not_present = {} <=> MB = {}
  BY <1>2
<1>4. line \notin not_present <=> \A k \in MB : k[2] # Here[2]
  BY <1>1, <1>2
<1>5. \A k \in Jobs : k[1] < stagelevel => Read(k)
  BY <1>1 DEF Read, Before
<1>6. stagelevel > 0 => (s0 <=> \E k \in Jobs : k[1] = 0 /\ Absent(files, k))
  <2>1. stagelevel > 0 => \A k \in Jobs : k[1] = 0 => Read(k)
    BY <1>1, <1>5
  <2> QED
    BY <1>1, <2>1 DEF s0, FlagsInv
<1>7. stagelevel >= 2 => (s01 <=> \E k \in Jobs : k[1] <= 1 /\ Absent(files, k))
  <2>1. stagelevel >= 2 => \A k \in Jobs : k[1] <= 1 => Read(k)
    BY <1>1, <1>5, JobParts
  <2> QED
    BY <1>1, <2>1 DEF s01, FlagsInv
<1>8. stagelevel = nodeps <=> /\ stagelevel = 9
                              /\ \A k \in Jobs : k[1] < 9 => ~Absent(files, k)
  <2>1. stagelevel = 9 => \A k \in Jobs : k[1] < 9 => Read(k)
    BY <1>1, <1>5
  <2>2. stagelevel = nodeps <=> stagelevel = 9 /\ stage9_no_deps # NoStage
    BY <1>1 DEF nodeps, NoStage, TypeOK
  <2> QED
    BY <1>1, <2>1, <2>2 DEF FlagsInv
<1>9. (~(not_present # {} /\ stagelevel # nodeps)) <=> DepsSatisfied(files, Here)
  BY <1>1, <1>3, <1>8 DEF DepsSatisfied
<1> QED
  BY <1>1, <1>3, <1>4, <1>6, <1>7, <1>9 DEF BuildThis, Buildable

-----------------------------------------------------------------------------
LEMMA TypeInit == Init => TypeOK
<1> SUFFICES ASSUME Init PROVE TypeOK
  OBVIOUS
<1>1. LogSets \subseteq SUBSET Logs
  BY DEF LogSets, Logs
<1>2. files \in [Jobs -> SUBSET Logs]
  BY <1>1 DEF Init
<1>3. 1 \in 1 .. (NumPackages + 1)
  BY PackagesFile
<1>4. stage0_not_present \in BOOLEAN /\ stage01_not_present \in BOOLEAN
  BY ZenonT(20) DEF Init
<1> QED
  BY <1>2, <1>3, <1>4 DEF Init, TypeOK, NoStage

LEMMA TypeStep == TypeOK /\ [Next]_vars => TypeOK'
<1> SUFFICES ASSUME TypeOK, [Next]_vars
             PROVE  TypeOK'
  OBVIOUS
<1> USE PackagesFile DEF TypeOK, NoStage, scanned
<1>1. CASE NextStage
  BY <1>1 DEF NextStage
<1>2. CASE SkipLine
  BY <1>2 DEF SkipLine, NextLine, Reading
<1>3. CASE AbsentLine
  <2>1. /\ UNCHANGED <<files, single>>
        /\ stage0_not_present' \in BOOLEAN /\ stage01_not_present' \in BOOLEAN
        /\ stage9_no_deps' \in {9, NoStage}
    BY <1>3 DEF AbsentLine, NextLine
  <2>2. queued' \subseteq Jobs
    BY <1>3 DEF AbsentLine
  <2>3. Reading /\ line \in Packages
    BY <1>3 DEF AbsentLine, Reading, Packages
  <2>4. \/ stagelevel' = NoStage /\ UNCHANGED <<line, not_present>>
        \/ NextLine /\ not_present' = not_present \union {line}
    BY <1>3 DEF AbsentLine
  <2>5. line' \in 1 .. (NumPackages + 1) /\ stagelevel' \in 0 .. NoStage
    BY <2>3, <2>4 DEF NextLine, Reading
  <2>6. not_present' \subseteq Packages
    BY <2>3, <2>4
  <2> QED
    BY <2>1, <2>2, <2>5, <2>6
<1>4. CASE PresentLine
  <2>1. Reading /\ line \in Packages
    BY <1>4 DEF PresentLine, Reading, Packages
  <2>2. not_present' \subseteq Packages
    BY <1>4, <2>1 DEF PresentLine
  <2>3. line' \in 1 .. (NumPackages + 1)
    BY <1>4, <2>1 DEF PresentLine, NextLine, Reading
  <2> QED
    BY <1>4, <2>2, <2>3 DEF PresentLine, NextLine
<1>5. CASE UNCHANGED vars
  BY <1>5 DEF vars
<1> QED
  BY <1>1, <1>2, <1>3, <1>4, <1>5 DEF Next

-----------------------------------------------------------------------------
LEMMA ScanInit == Init => FlagsInv /\ QueuedInv
<1> SUFFICES ASSUME Init PROVE FlagsInv /\ QueuedInv
  OBVIOUS
<1>1. \A k \in Jobs : ~Read(k)
  BY JobParts DEF Init, Read, Before, Here, Packages
<1> QED
  BY <1>1 DEF Init, FlagsInv, QueuedInv, NoStage

\* The flags say of one more job what they said of the jobs read before.
LEMMA FlagsStep == TypeOK /\ FlagsInv /\ [Next]_vars => FlagsInv'
<1> SUFFICES ASSUME TypeOK, FlagsInv, [Next]_vars, stagelevel' <= 9
             PROVE  FlagsInv'
  BY DEF FlagsInv
<1> USE DEF FlagsInv, scanned
<1>1. CASE NextStage
  <2>1. files' = files /\ UNCHANGED scanned /\ stagelevel <= 9
    BY <1>1 DEF NextStage
  <2> QED
    BY <1>1, <2>1, StageRead DEF Missing, Absent
<1>2. CASE SkipLine
  <2>1. files' = files /\ UNCHANGED scanned /\ stagelevel <= 9
    BY <1>2 DEF SkipLine, NextLine, Reading
  <2>2. \A k \in Jobs : Read(k)' <=> Read(k)
    BY <1>2, LineRead DEF SkipLine
  <2> QED
    BY <2>1, <2>2 DEF Missing, Absent
<1>3. CASE AbsentLine
  <2>1. Reading /\ Here \in Jobs /\ Absent(files, Here) /\ files' = files
    BY <1>3 DEF AbsentLine, NextLine
  <2>2. stagelevel \in 0 .. 9 /\ Here[1] = stagelevel /\ Here[2] = line
    BY <2>1 DEF TypeOK, Reading, Here
  <2>3. NextLine /\ not_present' = not_present \union {line}
    BY <1>3 DEF AbsentLine, NoStage
  <2>4. \A k \in Jobs : Read(k)' <=> Read(k) \/ k = Here
    BY <2>1, <2>3, LineRead
  <2>5. \A k \in Jobs : /\ Absent(files, k)' <=> Absent(files, k)
                       /\ Missing(files, k)' <=> Missing(files, k)
    BY <2>1 DEF Missing, Absent
  <2>6. Missing(files, Here)
    BY <2>1 DEF Missing
  <2>7. (not_present = {k[2] : k \in {i \in Jobs : Read(i) /\ Missing(files, i)}})'
    BY <2>1, <2>2, <2>3, <2>4, <2>5, <2>6
  <2>8. /\ stage0_not_present' <=> stage0_not_present \/ stagelevel = 0
        /\ stage01_not_present' <=> stage01_not_present \/ stagelevel <= 1
        /\ stage9_no_deps' = IF stagelevel < 9 THEN NoStage ELSE stage9_no_deps
    BY <1>3 DEF AbsentLine
  <2>9. (stage0_not_present <=>
           \E k \in Jobs : Read(k) /\ k[1] = 0 /\ Absent(files, k))'
    BY <2>1, <2>2, <2>4, <2>5, <2>8
  <2>10. (stage01_not_present <=>
           \E k \in Jobs : Read(k) /\ k[1] <= 1 /\ Absent(files, k))'
    BY <2>1, <2>2, <2>4, <2>5, <2>8
  <2>11. (stage9_no_deps = NoStage <=>
           \E k \in Jobs : Read(k) /\ k[1] < 9 /\ Absent(files, k))'
    BY <2>1, <2>2, <2>4, <2>5, <2>8
  <2> QED
    BY <2>7, <2>9, <2>10, <2>11
<1>4. CASE PresentLine
  <2>1. Reading /\ Here \in Jobs /\ ~Absent(files, Here) /\ files' = files /\ NextLine
    BY <1>4 DEF PresentLine, NextLine
  <2>2. Here[2] = line /\ stagelevel <= 9
    BY <2>1 DEF Reading, Here
  <2>3. \A k \in Jobs : Read(k)' <=> Read(k) \/ k = Here
    BY <2>1, LineRead
  <2>4. \A k \in Jobs : /\ Absent(files, k)' <=> Absent(files, k)
                       /\ Missing(files, k)' <=> Missing(files, k)
    BY <2>1 DEF Missing, Absent
  <2>5. BrokenHere <=> Missing(files, Here)
    BY <2>1 DEF Missing, BrokenHere
  <2>6. not_present' = IF BrokenHere THEN not_present \union {line} ELSE not_present
    BY <1>4 DEF PresentLine
  <2>7. (not_present = {k[2] : k \in {i \in Jobs : Read(i) /\ Missing(files, i)}})'
    BY <2>1, <2>2, <2>3, <2>4, <2>5, <2>6
  <2>8. UNCHANGED <<stage0_not_present, stage01_not_present, stage9_no_deps>>
    BY <1>4 DEF PresentLine
  <2> QED
    BY <2>1, <2>2, <2>3, <2>4, <2>7, <2>8
<1>5. CASE UNCHANGED vars
  BY <1>5 DEF vars, Read, Before, Here, Missing, Absent
<1> QED
  BY <1>1, <1>2, <1>3, <1>4, <1>5 DEF Next

\* Buildable depends on the log files only, and they do not change.
LEMMA SameQueue ==
  ASSUME files' = files
  PROVE  \A k \in Jobs : Buildable(files, k)' <=> Buildable(files, k)
BY DEF Buildable, MissingBefore, Missing, Absent, DepsSatisfied

\* The job of the line is printed exactly if it is buildable.
LEMMA QueuedStep == TypeOK /\ FlagsInv /\ QueuedInv /\ [Next]_vars => QueuedInv'
<1> SUFFICES ASSUME TypeOK, FlagsInv, QueuedInv, [Next]_vars, stagelevel' <= 9
             PROVE  QueuedInv'
  BY DEF QueuedInv
<1> USE DEF QueuedInv, scanned
<1>1. CASE NextStage
  <2>1. UNCHANGED <<files, single, queued>> /\ stagelevel <= 9
    BY <1>1 DEF NextStage
  <2> QED
    BY <1>1, <2>1, StageRead, SameQueue
<1>2. CASE SkipLine
  <2>1. UNCHANGED <<files, single, queued>> /\ stagelevel <= 9
    BY <1>2 DEF SkipLine, NextLine, Reading
  <2>2. \A k \in Jobs : Read(k)' <=> Read(k)
    BY <1>2, LineRead DEF SkipLine
  <2> QED
    BY <2>1, <2>2, SameQueue
<1>3. CASE AbsentLine
  <2>1. /\ Reading /\ Here \in Jobs /\ Absent(files, Here)
        /\ UNCHANGED <<files, single>> /\ stagelevel <= 9
    BY <1>3 DEF AbsentLine, NextLine, Reading
  <2>2. BuildThis(s0, s01, nodeps) <=> Buildable(files, Here)
    BY <2>1, Decision
  <2>3. /\ queued' = IF BuildThis(s0, s01, nodeps) THEN queued \union {Here} ELSE queued
        /\ BuildThis(s0, s01, nodeps) /\ single => stagelevel' = NoStage
        /\ ~(BuildThis(s0, s01, nodeps) /\ single) => NextLine
    BY <1>3 DEF AbsentLine, s0, s01, nodeps
  <2>4. ~(BuildThis(s0, s01, nodeps) /\ single) /\ NextLine
    BY <2>3 DEF NoStage
  <2>5. \A k \in Jobs : Read(k)' <=> Read(k) \/ k = Here
    BY <2>1, <2>4, LineRead
  <2> QED
    BY <2>1, <2>2, <2>3, <2>4, <2>5, SameQueue
<1>4. CASE PresentLine
  <2>1. /\ Reading /\ Here \in Jobs /\ ~Absent(files, Here) /\ NextLine
        /\ UNCHANGED <<files, single, queued>> /\ stagelevel <= 9
    BY <1>4 DEF PresentLine, NextLine, Reading
  <2>2. ~Buildable(files, Here)
    BY <2>1 DEF Buildable
  <2>3. \A k \in Jobs : Read(k)' <=> Read(k) \/ k = Here
    BY <2>1, LineRead
  <2> QED
    BY <2>1, <2>2, <2>3, SameQueue
<1>5. CASE UNCHANGED vars
  <2>1. UNCHANGED <<files, single, queued, stagelevel, line>>
    BY <1>5 DEF vars
  <2> QED
    BY <2>1, SameQueue DEF Read, Before, Here
<1> QED
  BY <1>1, <1>2, <1>3, <1>4, <1>5 DEF Next

-----------------------------------------------------------------------------
\* The two ways to reach the end, with all jobs read or with one printed.
LEMMA EndStep ==
  TypeOK /\ FlagsInv /\ QueuedInv /\ QueueCorrect /\ [Next]_vars => QueueCorrect'
<1> SUFFICES ASSUME TypeOK, FlagsInv, QueuedInv, QueueCorrect, [Next]_vars,
                    stagelevel' = NoStage
             PROVE  QueueCorrect'
  BY DEF QueueCorrect
<1>1. CASE NextStage
  <2>1. /\ UNCHANGED <<files, single, queued>>
        /\ stagelevel = 9 /\ line > NumPackages /\ line \in Nat
    BY <1>1, PackagesFile DEF NextStage, scanned, NoStage, TypeOK
  <2>2. \A k \in Jobs : k[1] \in 0 .. 9 /\ k[2] <= NumPackages /\ k[2] \in Nat
    BY JobParts, PackagesFile DEF Packages
  <2>3. \A k \in Jobs : Read(k)
    BY <2>1, <2>2, PackagesFile DEF Read, Before, Here
  <2>4. queued = Queue(files) /\ (single => queued = {})
    BY <2>1, <2>3 DEF QueuedInv, Queue
  <2>5. Queue(files)' = Queue(files)
    BY <2>1, SameQueue DEF Queue
  <2> QED
    BY <2>1, <2>4, <2>5 DEF QueueCorrect
<1>2. CASE SkipLine
  BY <1>2 DEF SkipLine, NextLine, Reading, NoStage
<1>3. CASE AbsentLine
  <2>1. /\ Reading /\ Here \in Jobs /\ Absent(files, Here)
        /\ UNCHANGED <<files, single>> /\ stagelevel \in 0 .. 9
    BY <1>3 DEF AbsentLine, NextLine, Reading, TypeOK
  <2>2. BuildThis(s0, s01, nodeps) <=> Buildable(files, Here)
    BY <2>1, Decision
  <2>3. /\ queued' = IF BuildThis(s0, s01, nodeps) THEN queued \union {Here} ELSE queued
        /\ ~(BuildThis(s0, s01, nodeps) /\ single) => NextLine
    BY <1>3 DEF AbsentLine, s0, s01, nodeps
  <2>4. BuildThis(s0, s01, nodeps) /\ single
    BY <2>1, <2>3 DEF NextLine, NoStage
  <2>5. queued = {} /\ \A k \in Jobs : Read(k) => ~Buildable(files, k)
    BY <2>1, <2>4 DEF QueuedInv
  <2>6. queued' = {Here} /\ Here \in Queue(files)
    BY <2>1, <2>2, <2>3, <2>4, <2>5 DEF Queue
  <2>7. \A k \in Jobs : Read(k) \/ k = Here \/ Before(Here, k)
    <3> TAKE k \in Jobs
    <3>1. k = <<k[1], k[2]>> /\ k[1] \in Nat /\ k[2] \in Nat
      BY JobParts, PackagesFile DEF Packages
    <3>2. line \in Nat /\ stagelevel \in Nat
      BY PackagesFile DEF TypeOK
    <3> QED
      BY <3>1, <3>2 DEF Read, Before, Here
  <2>8. IsFirst(files, Here)
    BY <2>5, <2>6, <2>7 DEF IsFirst, Queue
  <2>9. Queue(files)' = Queue(files) /\ (IsFirst(files, Here) <=> IsFirst(files', Here))
    BY <2>1, SameQueue DEF Queue
  <2> QED
    BY <2>1, <2>4, <2>6, <2>8, <2>9 DEF QueueCorrect
<1>4. CASE PresentLine
  BY <1>4 DEF PresentLine, NextLine, Reading, NoStage
<1>5. CASE UNCHANGED vars
  <2>1. UNCHANGED <<files, single, queued, stagelevel>>
    BY <1>5 DEF vars, scanned
  <2>2. Queue(files)' = Queue(files)
    BY <2>1, SameQueue DEF Queue
  <2>3. \A j : IsFirst(files', j) <=> IsFirst(files, j)
    BY <2>1
  <2> QED
    BY <2>1, <2>2, <2>3 DEF QueueCorrect
<1> QED
  BY <1>1, <1>2, <1>3, <1>4, <1>5 DEF Next

LEMMA ScanInvariance == Spec => [](TypeOK /\ FlagsInv /\ QueuedInv /\ QueueCorrect)
<1>1. Init => TypeOK /\ FlagsInv /\ QueuedInv /\ QueueCorrect
  BY TypeInit, ScanInit DEF Init, QueueCorrect, NoStage
<1>2. (TypeOK /\ FlagsInv /\ QueuedInv /\ QueueCorrect) /\ [Next]_vars
        => (TypeOK /\ FlagsInv /\ QueuedInv /\ QueueCorrect)'
  BY TypeStep, FlagsStep, QueuedStep, EndStep
<1> QED
  BY <1>1, <1>2, PTL DEF Spec

\* Whatever the packages file and the log files are, Create-PkgQueue prints
\* the buildable jobs, and with -single the first of them; it prints nothing,
\* which ends a target build, only if there is no buildable job.
THEOREM QueueIsCorrect == Spec => []QueueCorrect
BY ScanInvariance, PTL

\* The flags of the loop always stand for the quantifiers of the closed form.
THEOREM FlagsAreCorrect == Spec => []FlagsInv
BY ScanInvariance, PTL

\* The reader of the packages file and its flags have their types, and the
\* job it prints is one of the file.
THEOREM ScanTypeCorrect == Spec => []TypeOK
BY ScanInvariance, PTL
=============================================================================
