--------------------------- MODULE DownloadProofs ---------------------------
(***************************************************************************)
(* Theorems about Download, for any number of processes and files: the     *)
(* lock file keeps the processes apart; what is left under the final names *)
(* has the right checksum; a right file is not lost.                       *)
(***************************************************************************)
EXTENDS Download, TLAPS

Excused == raced \union interrupted \union unlocked

PlaceOK == pc \in [Procs -> PCs] /\ cur \in [Procs -> Files]

\* Who is inside holds the lock, unless it was taken twice or removed.
InsideIsLocked ==
  \A p \in Procs : pc[p] \in Inside => cur[p] \in lock \union Excused

LockInv == PlaceOK /\ InsideIsLocked /\ OverlapOnlyByRace /\ LockReleased

\* What the lock invariant depends on.
place == <<pc, cur, lock, raced, interrupted, unlocked, killed>>

\* A step inside download_file that neither enters nor leaves it.
Moves(p, S) ==
  /\ pc[p] \in Inside
  /\ \E s \in S : pc' = [pc EXCEPT ![p] = s]
  /\ UNCHANGED <<cur, lock, raced, interrupted, unlocked, killed>>

\* The steps from one command inside to another one.
InsideStep(p) ==
  \/ CheckOnly(p) \/ AlreadyDownloaded(p) \/ Refuse(p)
  \/ Alternative(p) \/ StartFetch(p)
  \/ Arrives(p) \/ WrongType(p) \/ FetchFails(p)
  \/ Uncompress(p) \/ CksumError(p) \/ CksumRight(p)
  \/ OpenFinal(p) \/ Bzip(p) \/ RemoveFetched(p)

LEMMA InsideSteps ==
  ASSUME NEW p \in Procs, InsideStep(p)
  PROVE  Moves(p, Inside)
<1> USE DEF Moves, Inside, At, Goto, Finish, Unpack, Fetch, AfterFetch, files,
            errors, process, work, history, faulty, failures
<1>1. CASE CheckOnly(p) BY <1>1 DEF CheckOnly
<1>2. CASE AlreadyDownloaded(p) BY <1>2 DEF AlreadyDownloaded
<1>3. CASE Refuse(p) BY <1>3 DEF Refuse, Missing
<1>4. CASE Alternative(p) BY <1>4 DEF Alternative, Missing
<1>5. CASE StartFetch(p) BY <1>5 DEF StartFetch, Missing
<1>6. CASE Arrives(p) BY <1>6 DEF Arrives, Fetching
<1>7. CASE WrongType(p) BY <1>7 DEF WrongType, Fetching
<1>8. CASE FetchFails(p) BY <1>8 DEF FetchFails, Fetching
<1>9. CASE Uncompress(p) BY <1>9 DEF Uncompress
<1>10. CASE CksumError(p) BY <1>10 DEF CksumError
<1>11. CASE CksumRight(p) BY <1>11 DEF CksumRight
<1>12. CASE OpenFinal(p) BY <1>12 DEF OpenFinal
<1>13. CASE Bzip(p) BY <1>13 DEF Bzip
<1>14. CASE RemoveFetched(p) BY <1>14 DEF RemoveFetched
<1> QED
  BY <1>1, <1>2, <1>3, <1>4, <1>5, <1>6, <1>7, <1>8, <1>9, <1>10, <1>11,
     <1>12, <1>13, <1>14 DEF InsideStep

LEMMA MovesKeepLockInv ==
  ASSUME NEW p \in Procs, LockInv, Moves(p, Inside)
  PROVE  LockInv'
<1> USE DEF LockInv, Moves, Excused, Working
<1>1. PlaceOK' BY DEF PlaceOK, PCs
<1>2. InsideIsLocked' BY DEF PlaceOK, InsideIsLocked
<1>3. OverlapOnlyByRace' BY DEF PlaceOK, OverlapOnlyByRace
<1>4. LockReleased' BY DEF PlaceOK, LockReleased
<1> QED BY <1>1, <1>2, <1>3, <1>4

\* Outside, pc and cur change.
Outside(p) ==
  /\ pc[p] \notin Inside
  /\ \E s \in PCs \ Inside : pc' = [pc EXCEPT ![p] = s]
  /\ \E f \in Files : cur' = [cur EXCEPT ![p] = f]
  /\ UNCHANGED <<lock, raced, interrupted, unlocked, killed>>

LEMMA OutsideKeepsLockInv ==
  ASSUME NEW p \in Procs, LockInv, Outside(p)
  PROVE  LockInv'
<1> USE DEF LockInv, Outside, Excused, Working
<1>1. PlaceOK' BY DEF PlaceOK
<1>2. InsideIsLocked' BY DEF PlaceOK, InsideIsLocked
<1>3. OverlapOnlyByRace' BY DEF PlaceOK, OverlapOnlyByRace
<1>4. LockReleased' BY DEF PlaceOK, LockReleased
<1> QED BY <1>1, <1>2, <1>3, <1>4

LEMMA ReturnPlace ==
  ASSUME NEW p \in Procs, PlaceOK, NEW s, Return(p, s)
  PROVE  /\ \E t \in PCs \ Inside : pc' = [pc EXCEPT ![p] = t]
         /\ \E f \in Files : cur' = [cur EXCEPT ![p] = f]
<1>1. cur[p] \in Files BY DEF PlaceOK
<1>2. CASE cur[p] = NumFiles
  BY <1>1, <1>2 DEF Return, Goto, PlaceOK, PCs, Inside
<1>3. CASE cur[p] # NumFiles
  BY <1>1, <1>3, DownloadOptions DEF Return, Goto, Files, PCs, Inside
<1> QED BY <1>2, <1>3

LEMMA OutsideSteps ==
  ASSUME NEW p \in Procs, PlaceOK, Start(p) \/ TestFile(p) \/ TestLock(p)
  PROVE  Outside(p)
<1> USE DEF Outside, At, Goto, files, errors, process, work, history, faulty, failures
<1>1. CASE Start(p)
  <2>1. 1 \in Files BY DownloadOptions DEF Files
  <2>2. "file" \in PCs \ Inside BY DEF PCs, Inside
  <2>3. pc[p] \notin Inside
    BY <1>1 DEF Start, Running, Inside, PlaceOK, PCs
  <2>4. pc' = [pc EXCEPT ![p] = "file"] /\ cur' = [cur EXCEPT ![p] = 1]
    BY <1>1 DEF Start
  <2>5. UNCHANGED <<lock, raced, interrupted, unlocked, killed>> BY <1>1 DEF Start
  <2> QED BY <2>1, <2>2, <2>3, <2>4, <2>5
<1>2. CASE TestFile(p)
  <2>1. CASE Return(p, 0)
    BY <1>2, <2>1, ReturnPlace DEF TestFile, Inside
  <2>2. CASE ~Return(p, 0)
    BY <1>2, <2>2 DEF TestFile, Inside, PCs, PlaceOK
  <2> QED BY <2>1, <2>2
<1>3. CASE TestLock(p)
  <2>1. CASE Return(p, 0)
    BY <1>3, <2>1, ReturnPlace DEF TestLock, Inside
  <2>2. CASE ~Return(p, 0)
    BY <1>3, <2>2 DEF TestLock, Inside, PCs, PlaceOK
  <2> QED BY <2>1, <2>2
<1> QED BY <1>1, <1>2, <1>3

\* The race: the file that is locked twice is excused from now on.
LEMMA TakeKeepsLockInv ==
  ASSUME NEW p \in Procs, LockInv, TakeLock(p)
  PROVE  LockInv'
<1> USE DEF LockInv, TakeLock, NoteLate, At, Goto, Excused, Working, process,
            faulty, Inside
<1>1. PlaceOK' BY DEF PlaceOK, PCs
<1>2. InsideIsLocked' BY DEF PlaceOK, InsideIsLocked
<1>3. OverlapOnlyByRace' BY DEF PlaceOK, OverlapOnlyByRace, InsideIsLocked
<1>4. LockReleased' BY DEF PlaceOK, LockReleased
<1> QED BY <1>1, <1>2, <1>3, <1>4

\* Another process in the same file loses its lock: the file is excused.
LEMMA UnlockKeepsLockInv ==
  ASSUME NEW p \in Procs, LockInv, Unlock(p)
  PROVE  LockInv'
<1> USE DEF LockInv, Unlock, At, Excused, Working, files, faulty, history,
            failures
<1>1. PICK t \in PCs \ Inside, f \in Files :
        pc' = [pc EXCEPT ![p] = t] /\ cur' = [cur EXCEPT ![p] = f]
  BY ReturnPlace
<1>2. PlaceOK' BY <1>1 DEF PlaceOK
<1>3. InsideIsLocked'
  BY <1>1 DEF PlaceOK, InsideIsLocked, OverlapOnlyByRace, Inside
<1>4. OverlapOnlyByRace' BY <1>1 DEF PlaceOK, OverlapOnlyByRace
<1>5. LockReleased' BY <1>1 DEF PlaceOK, LockReleased
<1> QED BY <1>2, <1>3, <1>4, <1>5

LEMMA InterruptKeepsLockInv ==
  ASSUME NEW p \in Procs, LockInv, Interrupt(p)
  PROVE  LockInv'
<1> USE DEF LockInv, Interrupt, Running, At, Goto, Excused, Working, process,
            failures
<1>1. CASE pc[p] \in Inside
  <2>1. PICK t \in Inside : pc' = [pc EXCEPT ![p] = t]
    BY <1>1 DEF Inside
  <2>2. PlaceOK' BY <1>1, <2>1 DEF PlaceOK, PCs
  <2>3. InsideIsLocked' BY <1>1, <2>1 DEF PlaceOK, InsideIsLocked
  <2>4. OverlapOnlyByRace' BY <1>1, <2>1 DEF PlaceOK, OverlapOnlyByRace
  <2>5. LockReleased' BY <1>1, <2>1 DEF PlaceOK, LockReleased
  <2> QED BY <2>2, <2>3, <2>4, <2>5
<1>2. CASE pc[p] \notin Inside
  <2>1. Outside(p)
    BY <1>2 DEF Outside, PlaceOK, PCs, Inside
  <2> QED BY <2>1, OutsideKeepsLockInv
<1> QED BY <1>1, <1>2

LEMMA KilledKeepsLockInv ==
  ASSUME NEW p \in Procs, LockInv, Killed(p)
  PROVE  LockInv'
<1> USE DEF LockInv, Killed, Goto, Excused, Working, failures
<1>1. PlaceOK' BY DEF PlaceOK, PCs
<1>2. InsideIsLocked' BY DEF PlaceOK, InsideIsLocked, Inside
<1>3. OverlapOnlyByRace' BY DEF PlaceOK, OverlapOnlyByRace, Inside
<1>4. LockReleased' BY DEF PlaceOK, LockReleased, Inside
<1> QED BY <1>1, <1>2, <1>3, <1>4

\* A lock file that Cleanup removes: its file is excused from now on.
LEMMA CleanLockKeepsLockInv ==
  ASSUME NEW f \in Files, LockInv, CleanLock(f)
  PROVE  LockInv'
<1> USE DEF LockInv, CleanLock, Excused, Working, process, faulty
<1>1. PlaceOK' BY DEF PlaceOK
<1>2. InsideIsLocked' BY DEF InsideIsLocked
<1>3. OverlapOnlyByRace' BY DEF OverlapOnlyByRace
<1>4. LockReleased' BY DEF LockReleased
<1> QED BY <1>1, <1>2, <1>3, <1>4

LEMMA SameLockInv ==
  ASSUME LockInv, UNCHANGED place
  PROVE  LockInv'
BY DEF LockInv, place, PlaceOK, InsideIsLocked, OverlapOnlyByRace,
       LockReleased, Excused, Working

LEMMA LockInvHolds == Spec => []LockInv
<1>1. Init => LockInv
  BY DownloadOptions DEF Init, LockInv, PlaceOK, InsideIsLocked,
     OverlapOnlyByRace, LockReleased, Working, PCs, Inside, Files
<1>2. LockInv /\ [Next]_vars => LockInv'
  <2> SUFFICES ASSUME LockInv, [Next]_vars PROVE LockInv' OBVIOUS
  <2>1. ASSUME NEW p \in Procs, Step(p) PROVE LockInv'
    <3>1. CASE InsideStep(p)
      BY <3>1, InsideSteps, MovesKeepLockInv
    <3>2. CASE TestFile(p) \/ TestLock(p)
      BY <3>2, OutsideSteps, OutsideKeepsLockInv DEF LockInv
    <3>3. CASE TakeLock(p) BY <2>1, <3>3, TakeKeepsLockInv
    <3>4. CASE Unlock(p) BY <2>1, <3>4, UnlockKeepsLockInv
    <3> QED BY <2>1, <3>1, <3>2, <3>3, <3>4 DEF Step, InsideStep
  <2>2. ASSUME NEW p \in Procs, Start(p) PROVE LockInv'
    BY <2>2, OutsideSteps, OutsideKeepsLockInv DEF LockInv
  <2>3. ASSUME NEW p \in Procs, Interrupt(p) PROVE LockInv'
    BY <2>3, InterruptKeepsLockInv
  <2>4. ASSUME NEW p \in Procs, Killed(p) PROVE LockInv'
    BY <2>4, KilledKeepsLockInv
  <2>5. ASSUME NEW n \in Names, Clean(n) PROVE LockInv'
    BY <2>5, SameLockInv DEF Clean, place, process, history, faulty, failures
  <2>6. ASSUME NEW p \in Procs, CleanDat(p) PROVE LockInv'
    BY <2>6, SameLockInv DEF CleanDat, place, process, faulty
  <2>7. ASSUME NEW f \in Files, CleanLock(f) PROVE LockInv'
    BY <2>7, CleanLockKeepsLockInv
  <2>8. CASE UNCHANGED vars
    BY <2>8, SameLockInv DEF vars, place, process, history, faulty, failures
  <2> QED BY <2>1, <2>2, <2>3, <2>4, <2>5, <2>6, <2>7, <2>8 DEF Next
<1> QED BY <1>1, <1>2, PTL DEF Spec

\* Two processes work on one file only after a race for the lock, or after
\* Ctrl-C or Cleanup removed it, or if it could not be written: whatever else
\* happens, the lock file keeps them apart.
THEOREM OverlapsAreRaces == Spec => []OverlapOnlyByRace
<1>1. LockInv => OverlapOnlyByRace BY DEF LockInv
<1> QED BY <1>1, LockInvHolds, PTL

\* A lock file whose process was not killed belongs to a running one.
THEOREM LocksAreReleased == Spec => []LockReleased
<1>1. LockInv => LockReleased BY DEF LockInv
<1> QED BY <1>1, LockInvHolds, PTL

-----------------------------------------------------------------------------
(* What the names mean.                                                    *)

Named == {"mirror", "orig", "unpack", "sum", "open", "bzip", "rmgz"}

\* A process works with a name of its own file.
NameInv ==
  \A p \in Procs : pc[p] \in Named => name[p] \in {Local(cur[p]), Tar(cur[p])}

\* Only a process that is not alone in its file loses its .incomplete file.
MovedInv == \A p \in moved : Fetching(p) /\ cur[p] \in Excused

Clear(f) == f \in Sums /\ Undisturbed(f) /\ f \notin spoilt
Settled(f) == file[Tar(f)] \in {"none", "good"}

\* The final name is being written, or not yet checked, by p.
Pending(p) ==
  \/ pc[p] \in {"unpack", "sum"} /\ name[p] = Tar(cur[p])
  \/ pc[p] = "bzip"

\* The data p has checked, or is about to check, are those of the file.
DatOK(p) ==
  /\ pc[p] = "sum" /\ name[p] = Tar(cur[p]) =>
       dat[p] \in {file[Tar(cur[p])], "none", "part"}
  /\ pc[p] = "open" => dat[p] \in {"none", "good"}
  /\ pc[p] = "bzip" => dat[p] = "good"

VerifiedInv ==
  \A f \in Files : Clear(f) =>
    /\ Settled(f) \/ \E p \in Procs : Working(p, f) /\ Pending(p)
    /\ \A p \in Procs : Working(p, f) => DatOK(p)

-----------------------------------------------------------------------------
(* Types.                                                                  *)

LEMMA NamesOfFiles ==
  ASSUME NEW f \in Files
  PROVE  Tar(f) \in Names /\ Local(f) \in Names
BY DEF Names, Tar, Local

LEMMA TarsDiffer ==
  ASSUME NEW f \in Files, NEW g \in Files, f # g
  PROVE  Tar(f) \notin {Tar(g), Local(g)}
BY DEF Tar, Local

LEMMA TarIsFirst == 1 \in Files /\ Tar(1) \in Names
<1>1. 1 \in Files BY DownloadOptions DEF Files
<1> QED BY <1>1, NamesOfFiles

ProcTypes ==
  /\ pc \in [Procs -> PCs] /\ cur \in [Procs -> Files]
  /\ name \in [Procs -> Names] /\ dat \in [Procs -> Contents]
  /\ mode \in [Procs -> Modes] /\ status \in [Procs -> {0, 1}]
  /\ moved \subseteq Procs

FileTypes ==
  /\ file \in [Names -> Contents]
  /\ incomplete \subseteq Names /\ cksumerr \subseteq Names
  /\ extckerr \subseteq Names
  /\ lock \subseteq Files

CountTypes ==
  /\ runs \in 0 .. MaxRuns /\ faults \in 0 .. MaxFaults
  /\ raced \subseteq Files /\ late \subseteq Files
  /\ interrupted \subseteq Files /\ killed \subseteq Files
  /\ unlocked \subseteq Files /\ unread \subseteq Files /\ spoilt \subseteq Files

LEMMA FaultTypes ==
  ASSUME TypeOK, Fault
  PROVE  faults' \in 0 .. MaxFaults
BY DownloadOptions DEF TypeOK, Fault

LEMMA TypeParts == TypeOK <=> ProcTypes /\ FileTypes /\ CountTypes
BY DEF TypeOK, ProcTypes, FileTypes, CountTypes

LEMMA ReturnTypes ==
  ASSUME NEW p \in Procs, TypeOK, NEW s \in {0, 1}, Return(p, s),
         UNCHANGED <<mode, moved>>
  PROVE  ProcTypes'
<1>1. pc' \in [Procs -> PCs] /\ cur' \in [Procs -> Files]
  BY ReturnPlace DEF TypeOK, PlaceOK
<1>2. name' \in [Procs -> Names] /\ dat' \in [Procs -> Contents]
  BY TarIsFirst DEF Return, TypeOK, Contents
<1>3. status' \in [Procs -> {0, 1}] BY DEF Return, TypeOK
<1> QED BY <1>1, <1>2, <1>3 DEF ProcTypes, TypeOK

LEMMA OuterTypes ==
  ASSUME NEW p \in Procs, TypeOK,
         \/ Start(p) \/ TestFile(p) \/ TestLock(p) \/ TakeLock(p)
         \/ Unlock(p) \/ Interrupt(p) \/ Killed(p)
  PROVE  TypeOK'
<1> USE DEF At, Goto, files, errors, process, work, history, faulty, failures
<1>0. cur[p] \in Files BY DEF TypeOK
<1>1. CASE Start(p)
  <2>1. ProcTypes'
    <3>1. pc' \in [Procs -> PCs] BY <1>1 DEF Start, TypeOK, PCs
    <3>2. cur' \in [Procs -> Files] BY <1>1, TarIsFirst DEF Start, TypeOK
    <3>3. mode' \in [Procs -> Modes] BY <1>1 DEF Start, TypeOK
    <3>4. status' \in [Procs -> {0, 1}] BY <1>1 DEF Start, TypeOK
    <3> QED BY <1>1, <3>1, <3>2, <3>3, <3>4 DEF Start, TypeOK, ProcTypes
  <2>2. FileTypes' BY <1>1 DEF Start, TypeOK, FileTypes
  <2>3. CountTypes'
    BY <1>1, DownloadOptions DEF Start, TypeOK, CountTypes
  <2> QED BY <2>1, <2>2, <2>3, TypeParts DEF TypeOK, ProcTypes, FileTypes, CountTypes
<1>2. CASE TestFile(p)
  <2>1. ProcTypes'
    <3>1. CASE Return(p, 0) BY <1>2, <3>1, ReturnTypes DEF TestFile
    <3>2. CASE ~Return(p, 0)
      BY <1>2, <3>2 DEF TestFile, TypeOK, ProcTypes, PCs
    <3> QED BY <3>1, <3>2
  <2>2. FileTypes' /\ CountTypes'
    BY <1>2 DEF TestFile, TypeOK, FileTypes, CountTypes
  <2> QED BY <2>1, <2>2 DEF TypeOK, ProcTypes, FileTypes, CountTypes
<1>3. CASE TestLock(p)
  <2>1. ProcTypes'
    <3>1. CASE Return(p, 0) BY <1>3, <3>1, ReturnTypes DEF TestLock
    <3>2. CASE ~Return(p, 0)
      BY <1>3, <3>2 DEF TestLock, TypeOK, ProcTypes, PCs
    <3> QED BY <3>1, <3>2
  <2>2. FileTypes' /\ CountTypes'
    BY <1>3 DEF TestLock, TypeOK, FileTypes, CountTypes
  <2> QED BY <2>1, <2>2 DEF TypeOK, ProcTypes, FileTypes, CountTypes
<1>4. CASE TakeLock(p)
  <2>1. ProcTypes'
    BY <1>4 DEF TakeLock, TypeOK, ProcTypes, PCs, Inside
  <2>2. FileTypes' /\ CountTypes'
    BY <1>0, <1>4, FaultTypes DEF TakeLock, NoteLate, TypeOK, FileTypes, CountTypes
  <2> QED BY <2>1, <2>2 DEF TypeOK, ProcTypes, FileTypes, CountTypes
<1>5. CASE Unlock(p)
  <2>1. status[p] \in {0, 1} BY DEF TypeOK
  <2>2. ProcTypes' BY <1>5, <2>1, ReturnTypes DEF Unlock
  <2>3. FileTypes' /\ CountTypes'
    BY <1>5 DEF Unlock, TypeOK, FileTypes, CountTypes
  <2> QED BY <2>2, <2>3 DEF TypeOK, ProcTypes, FileTypes, CountTypes
<1>6. CASE Interrupt(p)
  <2>1. pc' \in [Procs -> PCs]
    BY <1>6 DEF Interrupt, TypeOK, PCs, Inside
  <2>2. dat' \in [Procs -> Contents]
    BY <1>6 DEF Interrupt, TypeOK, Contents
  <2>3. ProcTypes'
    BY <1>6, <2>1, <2>2 DEF Interrupt, TypeOK, ProcTypes
  <2>4. FileTypes' BY <1>6 DEF Interrupt, TypeOK, FileTypes
  <2>5. CountTypes'
    BY <1>0, <1>6, FaultTypes DEF Interrupt, TypeOK, CountTypes
  <2> QED BY <2>3, <2>4, <2>5 DEF TypeOK, ProcTypes, FileTypes, CountTypes
<1>7. CASE Killed(p)
  <2>1. ProcTypes'
    BY <1>7, TarIsFirst DEF Killed, TypeOK, ProcTypes, PCs, Contents
  <2>2. FileTypes' BY <1>7 DEF Killed, TypeOK, FileTypes
  <2>3. CountTypes'
    BY <1>0, <1>7, FaultTypes DEF Killed, TypeOK, CountTypes
  <2> QED BY <2>1, <2>2, <2>3 DEF TypeOK, ProcTypes, FileTypes, CountTypes
<1> QED BY <1>1, <1>2, <1>3, <1>4, <1>5, <1>6, <1>7

\* The steps inside keep the lock and the runs; the rest is their data.
LEMMA InsideTypes ==
  ASSUME NEW p \in Procs, TypeOK, InsideStep(p)
  PROVE  TypeOK'
<1> USE DEF At, Goto, files, errors, process, work, history, faulty, failures
<1> DEFINE f == cur[p]
           n == name[p]
<1>0. f \in Files /\ n \in Names /\ Tar(f) \in Names /\ Local(f) \in Names
  BY NamesOfFiles DEF TypeOK
<1>1. pc' \in [Procs -> PCs] /\ cur' \in [Procs -> Files]
  BY InsideSteps DEF TypeOK, Moves, PCs
<1>2. UNCHANGED <<runs, raced, late, interrupted, killed, unlocked, lock, mode>>
  BY DEF InsideStep, CheckOnly, AlreadyDownloaded, Refuse, Alternative,
         StartFetch, Arrives, WrongType, FetchFails, Uncompress, CksumError,
         CksumRight, OpenFinal, Bzip, RemoveFetched
<1>3. status' \in [Procs -> {0, 1}]
  <2>1. \/ UNCHANGED status
        \/ \E s \in {0, 1} : status' = [status EXCEPT ![p] = s]
    BY DEF InsideStep, CheckOnly, AlreadyDownloaded, Refuse, Alternative,
           StartFetch, Arrives, WrongType, FetchFails, Uncompress, CksumError,
           CksumRight, OpenFinal, Bzip, RemoveFetched, AfterFetch, Finish
  <2> QED BY <2>1 DEF TypeOK
<1>4. dat' \in [Procs -> Contents]
  <2>1. \/ UNCHANGED dat
        \/ \E c \in {"none", "part", file[n]} : dat' = [dat EXCEPT ![p] = c]
    BY DEF InsideStep, CheckOnly, AlreadyDownloaded, Refuse, Alternative,
           StartFetch, Arrives, WrongType, FetchFails, Uncompress, CksumError,
           CksumRight, OpenFinal, Bzip, RemoveFetched, RemoveDat
  <2>2. file[n] \in Contents BY <1>0 DEF TypeOK
  <2> QED BY <2>1, <2>2 DEF TypeOK, Contents
<1>5. name' \in [Procs -> Names]
  <2>1. \/ UNCHANGED name
        \/ \E m \in {Tar(f), Local(f)} : name' = [name EXCEPT ![p] = m]
    BY DEF InsideStep, CheckOnly, AlreadyDownloaded, Refuse, Alternative,
           StartFetch, Arrives, WrongType, FetchFails, Uncompress, CksumError,
           CksumRight, OpenFinal, Bzip, RemoveFetched, Unpack, Fetch
  <2> QED BY <1>0, <2>1 DEF TypeOK
<1>6. moved' \subseteq Procs
  <2>1. UNCHANGED moved \/ moved' = moved \ {p} \/ Arrives(p)
    BY DEF InsideStep, CheckOnly, AlreadyDownloaded, Refuse, Alternative,
           StartFetch, WrongType, FetchFails, Uncompress, CksumError,
           CksumRight, OpenFinal, Bzip, RemoveFetched
  <2> QED BY <2>1 DEF Arrives, TypeOK
<1>7. file' \in [Names -> Contents]
  <2>1. \/ UNCHANGED file
        \/ \E m \in {n, Tar(f)} : \E c \in {"none", "part", "bad", "good", dat[p]} :
             file' = [file EXCEPT ![m] = c]
    BY DEF InsideStep, CheckOnly, AlreadyDownloaded, Refuse, Alternative,
           StartFetch, Arrives, WrongType, FetchFails, Uncompress, CksumError,
           CksumRight, OpenFinal, Bzip, RemoveFetched, Put
  <2>2. dat[p] \in Contents BY DEF TypeOK
  <2> QED BY <1>0, <2>1, <2>2 DEF TypeOK, Contents
<1>8. cksumerr' \subseteq Names /\ extckerr' \subseteq Names
  <2>1. cksumerr' \in {cksumerr, cksumerr \union {n}}
    BY DEF InsideStep, CheckOnly, AlreadyDownloaded, Refuse, Alternative,
           StartFetch, Arrives, WrongType, FetchFails, Uncompress, CksumError,
           CksumRight, OpenFinal, Bzip, RemoveFetched
  <2>2. extckerr' \in {extckerr, extckerr \union {n}}
    BY DEF InsideStep, CheckOnly, AlreadyDownloaded, Refuse, Alternative,
           StartFetch, Arrives, WrongType, FetchFails, Uncompress, CksumError,
           CksumRight, OpenFinal, Bzip, RemoveFetched
  <2> QED BY <1>0, <2>1, <2>2 DEF TypeOK
<1>9. incomplete' \subseteq Names
  <2>1. incomplete' \subseteq incomplete \union {Tar(f), Local(f)}
    <3>1. CASE FetchFails(p) BY <3>1 DEF FetchFails
    <3>2. CASE StartFetch(p) BY <3>2 DEF StartFetch, Fetch
    <3>3. CASE Arrives(p) BY <3>3 DEF Arrives
    <3>4. CASE WrongType(p) BY <3>4 DEF WrongType
    <3> QED
      BY <3>1, <3>2, <3>3, <3>4
      DEF InsideStep, CheckOnly, AlreadyDownloaded, Refuse, Alternative,
          Uncompress, CksumError, CksumRight, OpenFinal, Bzip, RemoveFetched
  <2> QED BY <1>0, <2>1 DEF TypeOK
<1>10. faults' \in 0 .. MaxFaults
  <2>1. UNCHANGED faults \/ Fault
    BY DEF InsideStep, CheckOnly, AlreadyDownloaded, Refuse, Alternative,
           StartFetch, Arrives, WrongType, FetchFails, Uncompress, CksumError,
           CksumRight, OpenFinal, Bzip, RemoveFetched
  <2> QED BY <2>1, FaultTypes DEF TypeOK
<1>11. unread' \subseteq Files /\ spoilt' \subseteq Files
  <2>1. /\ unread' \in {unread, unread \union {f}}
        /\ spoilt' \in {spoilt, spoilt \union {f}}
    BY DEF InsideStep, CheckOnly, AlreadyDownloaded, Refuse, Alternative,
           StartFetch, Arrives, WrongType, FetchFails, Uncompress, CksumError,
           CksumRight, OpenFinal, Bzip, RemoveFetched
  <2> QED BY <1>0, <2>1 DEF TypeOK
<1> QED
  BY <1>1, <1>2, <1>3, <1>4, <1>5, <1>6, <1>7, <1>8, <1>9, <1>10, <1>11
  DEF TypeOK

LEMMA CleanSrcTypes ==
  ASSUME TypeOK,
         \/ \E p \in Procs : CleanDat(p)
         \/ \E f \in Files : CleanLock(f)
  PROVE  TypeOK'
<1> USE DEF TypeOK, files, errors, process, work, faulty
<1>1. ASSUME NEW p \in Procs, CleanDat(p) PROVE TypeOK'
  <2>1. dat' \in [Procs -> Contents] /\ unread' \subseteq Files
    BY <1>1 DEF CleanDat, Contents
  <2>2. faults' \in 0 .. MaxFaults BY <1>1, FaultTypes DEF CleanDat
  <2> QED BY <1>1, <2>1, <2>2 DEF CleanDat
<1>2. ASSUME NEW f \in Files, CleanLock(f) PROVE TypeOK'
  <2>1. faults' \in 0 .. MaxFaults BY <1>2, FaultTypes DEF CleanLock
  <2> QED BY <1>2, <2>1 DEF CleanLock
<1> QED BY <1>1, <1>2

LEMMA CleanTypes ==
  ASSUME NEW n \in Names, TypeOK, Clean(n)
  PROVE  TypeOK'
<1>1. file' \in [Names -> Contents] /\ incomplete' \subseteq Names
  BY DEF Clean, Put, errors, TypeOK, Contents
<1>2. cksumerr' \subseteq Names /\ extckerr' \subseteq Names
  BY DEF Clean, errors, TypeOK
<1> QED
  BY <1>1, <1>2 DEF Clean, TypeOK, process, work, history, faulty, failures

\* The names, contents and sets of files are what the model takes them for.
THEOREM DownloadTypeCorrect == Spec => []TypeOK
<1>1. Init => TypeOK
  BY TarIsFirst, DownloadOptions
  DEF Init, TypeOK, PCs, Contents, Modes
<1>2. TypeOK /\ [Next]_vars => TypeOK'
  <2> SUFFICES ASSUME TypeOK, [Next]_vars PROVE TypeOK' OBVIOUS
  <2>1. ASSUME NEW p \in Procs, Step(p) PROVE TypeOK'
    BY <2>1, InsideTypes, OuterTypes DEF Step, InsideStep
  <2>2. ASSUME NEW p \in Procs, Start(p) \/ Interrupt(p) \/ Killed(p)
        PROVE TypeOK'
    BY <2>2, OuterTypes
  <2>3. ASSUME NEW n \in Names, Clean(n) PROVE TypeOK'
    BY <2>3, CleanTypes
  <2>4. CASE \/ \E p \in Procs : CleanDat(p)
             \/ \E f \in Files : CleanLock(f)
    BY <2>4, CleanSrcTypes
  <2>5. CASE UNCHANGED vars
    BY <2>5 DEF vars, files, errors, process, work, history, faulty, failures, TypeOK
  <2> QED BY <2>1, <2>2, <2>3, <2>4, <2>5 DEF Next
<1> QED BY <1>1, <1>2, PTL DEF Spec

-----------------------------------------------------------------------------
(* Names, and the .incomplete files that others move.                      *)

FileInv == TypeOK /\ LockInv /\ NameInv /\ MovedInv /\ VerifiedInv

\* A step of p leaves the other processes where they are.
OthersKept(p) ==
  \A q \in Procs \ {p} :
    pc'[q] = pc[q] /\ cur'[q] = cur[q] /\ name'[q] = name[q] /\ dat'[q] = dat[q]

\* Two processes with one name are in the same file.
LEMMA SameNameSameFile ==
  ASSUME NEW p \in Procs, NEW q \in Procs, NameInv, LockInv,
         pc[p] \in Named, pc[q] \in Named, name[p] = name[q]
  PROVE  cur[p] = cur[q]
BY DEF NameInv, LockInv, PlaceOK, Tar, Local

LEMMA OthersStay ==
  ASSUME NEW p \in Procs, TypeOK,
         Step(p) \/ Start(p) \/ Interrupt(p) \/ Killed(p)
  PROVE  OthersKept(p)
<1> USE DEF OthersKept, TypeOK
<1>1. CASE Start(p) BY <1>1 DEF Start, Goto
<1>2. CASE Interrupt(p) BY <1>2 DEF Interrupt, Goto, process
<1>3. CASE Killed(p) BY <1>3 DEF Killed, Goto
<1>4. CASE TestFile(p) BY <1>4 DEF TestFile, Return, Goto, work
<1>5. CASE TestLock(p) BY <1>5 DEF TestLock, Return, Goto, work
<1>6. CASE TakeLock(p) BY <1>6 DEF TakeLock, Goto, process, work
<1>7. CASE Unlock(p) BY <1>7 DEF Unlock, Return, Goto
<1>8. CASE CheckOnly(p)
  BY <1>8 DEF CheckOnly, Unpack, Finish, Goto, process
<1>9. CASE AlreadyDownloaded(p)
  BY <1>9 DEF AlreadyDownloaded, Unpack, Goto, process
<1>10. CASE Refuse(p) BY <1>10 DEF Refuse, Finish, Goto, process
<1>11. CASE Alternative(p)
  BY <1>11 DEF Alternative, AfterFetch, Finish, Goto, process
<1>12. CASE StartFetch(p) BY <1>12 DEF StartFetch, Fetch, Goto, process
<1>13. CASE Arrives(p) BY <1>13 DEF Arrives, AfterFetch, Finish, Goto
<1>14. CASE WrongType(p) BY <1>14 DEF WrongType, AfterFetch, Finish, Goto
<1>15. CASE FetchFails(p) BY <1>15 DEF FetchFails, AfterFetch, Finish, Goto
<1>16. CASE Uncompress(p) BY <1>16 DEF Uncompress, Goto, process
<1>17. CASE CksumError(p)
  BY <1>17 DEF CksumError, Finish, Goto, RemoveDat, process
<1>18. CASE CksumRight(p)
  BY <1>18 DEF CksumRight, Finish, Goto, RemoveDat, process
<1>19. CASE Bzip(p) BY <1>19 DEF Bzip, Goto, process, work
<1>20. CASE RemoveFetched(p)
  BY <1>20 DEF RemoveFetched, Finish, Goto, RemoveDat, process
<1>21. CASE OpenFinal(p) BY <1>21 DEF OpenFinal, Goto, process, work
<1> QED
  BY <1>1, <1>2, <1>3, <1>4, <1>5, <1>6, <1>7, <1>8, <1>9, <1>10, <1>11,
     <1>12, <1>13, <1>14, <1>15, <1>16, <1>17, <1>18, <1>19, <1>20, <1>21
  DEF Step

\* What is excused stays so, and no step but Arrives adds to moved.
LEMMA ExcusedStay ==
  ASSUME NEW p \in Procs, Step(p) \/ Start(p) \/ Interrupt(p) \/ Killed(p)
  PROVE  /\ raced \subseteq raced' /\ interrupted \subseteq interrupted'
         /\ killed \subseteq killed' /\ unlocked \subseteq unlocked'
         /\ spoilt \subseteq spoilt' /\ unread \subseteq unread'
BY DEF Step, Start, Interrupt, Killed, TestFile, TestLock, TakeLock, NoteLate,
       Unlock, CheckOnly, AlreadyDownloaded, Refuse, Alternative, StartFetch,
       Arrives, WrongType, FetchFails, Uncompress, CksumError, CksumRight,
       OpenFinal, Bzip, RemoveFetched, history, faulty, failures

LEMMA NameInvKept ==
  ASSUME NEW p \in Procs, TypeOK, NameInv,
         Step(p) \/ Start(p) \/ Interrupt(p) \/ Killed(p)
  PROVE  NameInv'
<1>1. ASSUME NEW q \in Procs \ {p}, pc'[q] \in Named
      PROVE  name'[q] \in {Local(cur'[q]), Tar(cur'[q])}
  BY <1>1, OthersStay DEF OthersKept, NameInv
<1>2. ASSUME pc'[p] \in Named
      PROVE  name'[p] \in {Local(cur'[p]), Tar(cur'[p])}
  <2> USE <1>2 DEF NameInv, Named, Goto, At, process, TypeOK
  <2>1. CASE Start(p) BY <2>1 DEF Start
  <2>2. CASE Interrupt(p) BY <2>2 DEF Interrupt, Inside
  <2>3. CASE Killed(p) BY <2>3 DEF Killed
  <2>4. CASE TestFile(p) BY <2>4 DEF TestFile, Return
  <2>5. CASE TestLock(p) BY <2>5 DEF TestLock, Return
  <2>6. CASE TakeLock(p) BY <2>6 DEF TakeLock
  <2>7. CASE Unlock(p) BY <2>7 DEF Unlock, Return
  <2>8. CASE CheckOnly(p) BY <2>8 DEF CheckOnly, Unpack, Finish
  <2>9. CASE AlreadyDownloaded(p) BY <2>9 DEF AlreadyDownloaded, Unpack
  <2>10. CASE Refuse(p) BY <2>10 DEF Refuse, Finish
  <2>11. CASE Alternative(p) BY <2>11 DEF Alternative, AfterFetch, Finish
  <2>12. CASE StartFetch(p) BY <2>12 DEF StartFetch, Fetch
  <2>13. CASE Arrives(p)
    BY <2>13 DEF Arrives, Fetching, AfterFetch, Finish
  <2>14. CASE WrongType(p)
    BY <2>14 DEF WrongType, Fetching, AfterFetch, Finish
  <2>15. CASE FetchFails(p)
    BY <2>15 DEF FetchFails, Fetching, AfterFetch, Finish
  <2>16. CASE Uncompress(p) BY <2>16 DEF Uncompress
  <2>17. CASE CksumError(p) BY <2>17 DEF CksumError, Finish
  <2>18. CASE CksumRight(p) BY <2>18 DEF CksumRight, Finish
  <2>19. CASE Bzip(p) BY <2>19 DEF Bzip, work
  <2>20. CASE RemoveFetched(p) BY <2>20 DEF RemoveFetched, Finish
  <2>21. CASE OpenFinal(p) BY <2>21 DEF OpenFinal, work
  <2> QED
    BY <2>1, <2>2, <2>3, <2>4, <2>5, <2>6, <2>7, <2>8, <2>9, <2>10, <2>11,
       <2>12, <2>13, <2>14, <2>15, <2>16, <2>17, <2>18, <2>19, <2>20, <2>21
    DEF Step
<1> QED BY <1>1, <1>2 DEF NameInv

LEMMA MovedInvKept ==
  ASSUME NEW p \in Procs, TypeOK, LockInv, NameInv, MovedInv,
         Step(p) \/ Start(p) \/ Interrupt(p) \/ Killed(p)
  PROVE  MovedInv'
<1> USE DEF MovedInv, Fetching, At, Excused
<1>1. CASE Arrives(p)
  <2>1. SUFFICES ASSUME NEW q \in moved'
                 PROVE  q \in Procs /\ q # p /\ Fetching(q) /\ cur[q] \in Excused
    BY <1>1, OthersStay, ExcusedStay DEF OthersKept
  <2>2. q \in Procs /\ q # p BY <1>1, <2>1 DEF Arrives, TypeOK
  <2>3. CASE q \in moved BY <2>2, <2>3
  <2>4. CASE q \notin moved
    <3>1. Fetching(q) /\ name[q] = name[p] BY <1>1, <2>4 DEF Arrives
    <3>2. Fetching(p) BY <1>1 DEF Arrives
    <3>3. cur[q] = cur[p]
      BY <2>2, <3>1, <3>2, SameNameSameFile DEF Named
    <3>4. Working(p, cur[p]) /\ Working(q, cur[p])
      BY <3>1, <3>2, <3>3 DEF Working, Inside
    <3>5. cur[p] \in Files BY DEF TypeOK
    <3> QED
      BY <2>2, <3>1, <3>3, <3>4, <3>5 DEF LockInv, OverlapOnlyByRace
  <2> QED BY <2>3, <2>4
<1>2. CASE ~Arrives(p)
  <2>1. moved' \subseteq moved
    BY <1>2 DEF Step, Start, Interrupt, Killed, TestFile, TestLock, TakeLock,
       Unlock, CheckOnly, AlreadyDownloaded, Refuse, Alternative, StartFetch,
       WrongType, FetchFails, Uncompress, CksumError, CksumRight,
       OpenFinal, Bzip, RemoveFetched, process
  <2>2. ASSUME p \in moved' PROVE Interrupt(p)
    <3>1. p \in moved /\ Fetching(p) BY <2>1, <2>2
    <3>2. ~Killed(p) /\ ~FetchFails(p) /\ ~WrongType(p)
      BY <2>2 DEF Killed, FetchFails, WrongType
    <3> QED
      BY <1>2, <3>1, <3>2 DEF Step, Start, Running, TestFile, TestLock,
         TakeLock, Unlock, CheckOnly, AlreadyDownloaded, Refuse, Alternative,
         Missing, StartFetch, Uncompress, CksumError, CksumRight,
         OpenFinal, Bzip, RemoveFetched
  <2>3. ASSUME Interrupt(p), p \in moved
        PROVE  (Fetching(p) /\ cur[p] \in Excused)'
    BY <2>3 DEF Interrupt, process, Inside, TypeOK
  <2>4. ASSUME NEW q \in moved', q # p
        PROVE  (Fetching(q) /\ cur[q] \in Excused)'
    <3>1. q \in Procs /\ q \in moved BY <2>1 DEF TypeOK
    <3> QED BY <2>4, <3>1, OthersStay, ExcusedStay DEF OthersKept
  <2> QED BY <2>1, <2>2, <2>3, <2>4
<1> QED BY <1>1, <1>2

-----------------------------------------------------------------------------
(* What is under the final names.                                          *)

\* A step of p writes to names of its own file only.
OtherFilesKept(p) ==
  \A f \in Files \ {cur[p]} : file'[Tar(f)] = file[Tar(f)]

\* The process in an undisturbed file is alone in it.
LEMMA Alone ==
  ASSUME NEW p \in Procs, NEW q \in Procs, LockInv, NEW f \in Files,
         Working(p, f), Working(q, f), Undisturbed(f)
  PROVE  p = q
BY DEF LockInv, OverlapOnlyByRace, Undisturbed

\* So the invariant says of it what it says of the file.
LEMMA OwnFile ==
  ASSUME NEW p \in Procs, LockInv, VerifiedInv, pc[p] \in Inside, Clear(cur[p])
  PROVE  (Settled(cur[p]) \/ Pending(p)) /\ DatOK(p)
<1>1. cur[p] \in Files /\ Working(p, cur[p])
  BY DEF LockInv, PlaceOK, Working
<1> QED BY <1>1, Alone DEF VerifiedInv, Clear

LEMMA MovesKeepVerified ==
  ASSUME NEW p \in Procs, LockInv, VerifiedInv, Moves(p, Inside),
         OthersKept(p), OtherFilesKept(p), spoilt \subseteq spoilt',
         Clear(cur[p])' => (Settled(cur[p])' \/ Pending(p)') /\ DatOK(p)'
  PROVE  VerifiedInv'
<1> SUFFICES ASSUME NEW f \in Files, Clear(f)'
             PROVE  /\ Settled(f)' \/ \E q \in Procs : Working(q, f)' /\ Pending(q)'
                    /\ \A q \in Procs : Working(q, f)' => DatOK(q)'
  BY DEF VerifiedInv
<1>1. Clear(f) BY DEF Clear, Undisturbed, Moves
<1>2. cur' = cur /\ pc[p] \in Inside /\ pc'[p] \in Inside
  BY DEF Moves, LockInv, PlaceOK
<1>3. ASSUME NEW q \in Procs \ {p}
      PROVE  /\ Working(q, f)' <=> Working(q, f)
             /\ Pending(q)' <=> Pending(q)
  BY DEF OthersKept, Working, Pending
<1>4. CASE f = cur[p]
  <2>1. Working(p, f) /\ Working(p, f)' BY <1>2, <1>4 DEF Working
  <2>2. ASSUME NEW q \in Procs, Working(q, f)' PROVE q = p
    <3>1. SUFFICES ASSUME q # p PROVE FALSE OBVIOUS
    <3>2. Working(q, f) BY <1>3, <2>2, <3>1
    <3> QED BY <1>1, <2>1, <3>1, <3>2, Alone DEF Clear
  <2>3. Clear(cur[p])' BY <1>2, <1>4
  <2>4. (Settled(cur[p])' \/ Pending(p)') /\ DatOK(p)' BY <2>3
  <2>5. Settled(cur[p])' <=> Settled(f)' BY <1>2, <1>4 DEF Settled
  <2> QED BY <2>1, <2>2, <2>4, <2>5
<1>5. CASE f # cur[p]
  <2>1. file'[Tar(f)] = file[Tar(f)] BY <1>5 DEF OtherFilesKept
  <2>2. ~Working(p, f) /\ ~Working(p, f)' BY <1>2, <1>5 DEF Working
  <2>3. Settled(f)' <=> Settled(f) BY <2>1 DEF Settled
  <2>4. ASSUME NEW q \in Procs, Working(q, f)' PROVE DatOK(q)'
    <3>1. q # p BY <2>2, <2>4
    <3>2. Working(q, f) /\ cur[q] = f BY <1>3, <2>4, <3>1 DEF Working
    <3>3. DatOK(q) BY <1>1, <3>2 DEF VerifiedInv
    <3> QED BY <2>1, <3>1, <3>2, <3>3 DEF DatOK, OthersKept
  <2>5. Settled(f)' \/ \E q \in Procs : Working(q, f)' /\ Pending(q)'
    <3>1. CASE Settled(f) BY <2>3, <3>1
    <3>2. CASE ~Settled(f)
      <4>1. PICK q \in Procs : Working(q, f) /\ Pending(q)
        BY <1>1, <3>2 DEF VerifiedInv
      <4>2. q # p BY <2>2, <4>1
      <4> QED BY <1>3, <4>1, <4>2
    <3> QED BY <3>1, <3>2
  <2> QED BY <2>4, <2>5
<1> QED BY <1>4, <1>5

\* Other steps of p write no file, and do not leave one that is pending.
LEMMA QuietKeepsVerified ==
  ASSUME NEW p \in Procs, VerifiedInv, UNCHANGED file, OthersKept(p),
         raced \subseteq raced', interrupted \subseteq interrupted',
         killed \subseteq killed', unlocked \subseteq unlocked',
         spoilt \subseteq spoilt',
         \A f \in Files : Working(p, f) /\ Clear(f)' => ~Pending(p),
         \A f \in Files : Working(p, f)' /\ Clear(f)' => DatOK(p)'
  PROVE  VerifiedInv'
<1> SUFFICES ASSUME NEW f \in Files, Clear(f)'
             PROVE  /\ Settled(f)' \/ \E q \in Procs : Working(q, f)' /\ Pending(q)'
                    /\ \A q \in Procs : Working(q, f)' => DatOK(q)'
  BY DEF VerifiedInv
<1>1. Clear(f) BY DEF Clear, Undisturbed
<1>2. ASSUME NEW q \in Procs \ {p}
      PROVE  /\ Working(q, f)' <=> Working(q, f)
             /\ Pending(q)' <=> Pending(q)
             /\ DatOK(q)' <=> DatOK(q)
  BY DEF OthersKept, Working, Pending, DatOK
<1>3. Settled(f)' <=> Settled(f) BY DEF Settled
<1>4. Settled(f) \/ \E q \in Procs : Working(q, f) /\ Pending(q)
  BY <1>1 DEF VerifiedInv
<1>5. Working(p, f) => ~Pending(p) OBVIOUS
<1>6. Working(p, f)' => DatOK(p)' OBVIOUS
<1>7. ASSUME NEW q \in Procs \ {p}, Working(q, f)' PROVE DatOK(q)'
  BY <1>1, <1>2, <1>7 DEF VerifiedInv
<1> QED BY <1>2, <1>3, <1>4, <1>5, <1>6, <1>7

\* The names of a file are not those of another one.
LEMMA OtherFiles ==
  ASSUME NEW p \in Procs, TypeOK, NEW n \in {Tar(cur[p]), Local(cur[p])},
         NEW c, Put(n, c) \/ UNCHANGED file
  PROVE  OtherFilesKept(p)
BY TarsDiffer, NamesOfFiles DEF OtherFilesKept, Put, TypeOK

LEMMA InsideKeepsVerified ==
  ASSUME NEW p \in Procs, FileInv, InsideStep(p)
  PROVE  VerifiedInv'
<1> DEFINE f == cur[p]
           n == name[p]
<1> USE DEF At, Goto, TypeOK
<1>1. TypeOK /\ LockInv /\ VerifiedInv /\ NameInv /\ MovedInv BY DEF FileInv
<1>2. Moves(p, Inside) BY InsideSteps
<1>3. OthersKept(p) /\ spoilt \subseteq spoilt'
  <2>1. Step(p) BY DEF InsideStep, Step
  <2> QED BY <1>1, <2>1, OthersStay, ExcusedStay
<1>4. f \in Files /\ Tar(f) \in Names /\ Local(f) \in Names /\ n \in Names
  BY <1>1, NamesOfFiles
<1>5. pc[p] \in Inside /\ cur' = cur /\ pc'[p] \in Inside
  BY <1>1, <1>2 DEF Moves
<1>6. Clear(f) => (Settled(f) \/ Pending(p)) /\ DatOK(p)
  BY <1>1, <1>5, OwnFile
<1>7. pc[p] \in Named => n \in {Tar(f), Local(f)} BY <1>1 DEF NameInv
<1>8. SUFFICES /\ OtherFilesKept(p)
               /\ Clear(f) /\ f \notin spoilt' =>
                    (Settled(f)' \/ Pending(p)') /\ DatOK(p)'
  <2>1. Clear(cur[p])' => Clear(f) /\ f \notin spoilt'
    BY <1>2, <1>3, <1>5 DEF Clear, Undisturbed, Moves
  <2>2. Clear(cur[p])' => (Settled(cur[p])' \/ Pending(p)') /\ DatOK(p)'
    BY <1>5, <1>8, <2>1 DEF Settled
  <2> QED BY <1>1, <1>2, <1>3, <1>8, <2>2, MovesKeepVerified
<1>9. UNCHANGED file => OtherFilesKept(p) BY DEF OtherFilesKept
<1>10. ASSUME pc[p] \in {"work", "mirror", "orig"}
       PROVE  Clear(f) => Settled(f)
  BY <1>6, <1>10 DEF Pending
<1>11. CASE UNCHANGED file /\ pc[p] \in {"work", "mirror", "orig"}
            /\ pc'[p] \notin {"sum", "open", "bzip"}
  BY <1>9, <1>10, <1>5, <1>11 DEF Settled, DatOK
<1>12. CASE CheckOnly(p) \/ AlreadyDownloaded(p) \/ Refuse(p) \/ StartFetch(p)
  <2>1. UNCHANGED file /\ pc[p] = "work"
    BY <1>12 DEF CheckOnly, AlreadyDownloaded, Refuse, Missing, StartFetch,
                 files
  <2>2. pc'[p] \notin {"sum", "open", "bzip"}
    BY <1>1, <1>12 DEF CheckOnly, AlreadyDownloaded, Refuse, StartFetch,
                Unpack, Finish, Fetch
  <2> QED BY <1>11, <2>1, <2>2
<1>13. CASE Alternative(p)
  <2>1. PICK c : Put(Tar(f), c) \/ UNCHANGED file BY <1>13 DEF Alternative
  <2>2. OtherFilesKept(p) BY <1>1, <2>1, OtherFiles
  <2>3. name'[p] = Tar(f) BY <1>1, <1>4, <1>13 DEF Alternative
  <2>4. \/ pc'[p] = "unpack"
        \/ pc'[p] = "done" /\ file'[Tar(f)] = "none"
    BY <1>1, <1>13 DEF Alternative, AfterFetch, Finish
  <2>5. Settled(f)' \/ Pending(p)'
    BY <1>5, <2>3, <2>4 DEF Settled, Pending
  <2>6. DatOK(p)' BY <2>4 DEF DatOK
  <2> QED BY <2>2, <2>5, <2>6
<1>14. CASE Arrives(p)
  <2>1. PICK c \in {"bad", "good"} : Put(n, c) BY <1>14 DEF Arrives
  <2>2. pc[p] \in {"mirror", "orig"} BY <1>14 DEF Arrives, Fetching
  <2>3. n \in {Tar(f), Local(f)} BY <1>7, <2>2 DEF Named
  <2>4. OtherFilesKept(p) BY <1>1, <2>1, <2>3, OtherFiles
  <2>5. file'[n] # "none" BY <1>1, <1>4, <2>1 DEF Put
  <2>6. pc'[p] = "unpack" /\ name' = name
    BY <1>1, <1>14, <2>5 DEF Arrives, AfterFetch
  <2>7. DatOK(p)' BY <2>6 DEF DatOK
  <2>8. CASE n = Tar(f) BY <1>5, <2>4, <2>6, <2>7, <2>8 DEF Pending
  <2>9. CASE n # Tar(f)
    <3>1. file'[Tar(f)] = file[Tar(f)] BY <1>1, <1>4, <2>1, <2>9 DEF Put
    <3>2. Clear(f) => Settled(f)' BY <1>5, <1>10, <2>2, <3>1 DEF Settled
    <3> QED BY <2>4, <2>7, <3>2
  <2> QED BY <2>8, <2>9
<1>15. CASE WrongType(p)
  <2>1. pc'[p] \in {"unpack", "done"}
    BY <1>1, <1>15 DEF WrongType, AfterFetch, Finish
  <2> QED BY <1>11, <1>15, <2>1 DEF WrongType, Fetching
<1>16. CASE FetchFails(p)
  <2>1. pc[p] \in {"mirror", "orig"} BY <1>16 DEF FetchFails, Fetching
  <2>2. pc'[p] \in {"orig", "unpack", "done"}
    BY <1>1, <1>16 DEF FetchFails, AfterFetch, Finish
  <2>3. CASE UNCHANGED file BY <1>11, <2>1, <2>2, <2>3
  <2>4. CASE ~UNCHANGED file
    <3>1. p \in moved /\ Put(n, "bad") BY <1>16, <2>4 DEF FetchFails
    <3>2. ~Clear(f)
      BY <1>1, <3>1 DEF MovedInv, Excused, Clear, Undisturbed
    <3>3. OtherFilesKept(p)
      BY <1>1, <1>7, <2>1, <3>1, OtherFiles DEF Named
    <3> QED BY <3>2, <3>3
  <2> QED BY <2>3, <2>4
<1>17. CASE Uncompress(p)
  <2>1. UNCHANGED <<file, name>> /\ pc[p] = "unpack" /\ pc'[p] = "sum"
    BY <1>1, <1>17 DEF Uncompress, files
  <2>2. dat'[p] \in {file[n], "none", "part"} BY <1>1, <1>17 DEF Uncompress
  <2>3. DatOK(p)' BY <1>5, <2>1, <2>2 DEF DatOK
  <2>4. Settled(f) \/ Pending(p) => Settled(f)' \/ Pending(p)'
    BY <1>5, <2>1 DEF Settled, Pending
  <2> QED BY <1>6, <1>9, <2>1, <2>3, <2>4
<1>18. CASE CksumError(p)
  <2>1. pc[p] = "sum" /\ pc'[p] = "done" /\ name' = name
    BY <1>1, <1>18 DEF CksumError, Finish
  <2>2. UNCHANGED file \/ Put(n, "none") BY <1>18 DEF CksumError
  <2>3. n \in {Tar(f), Local(f)} BY <1>7, <2>1 DEF Named
  <2>4. OtherFilesKept(p) BY <1>1, <2>2, <2>3, OtherFiles
  <2>5. file[n] # "none" => Put(n, "none") BY <1>18 DEF CksumError
  <2>6. CASE n = Tar(f)
    <3>1. file'[Tar(f)] = "none"
      BY <1>1, <1>4, <1>18, <2>2, <2>5, <2>6 DEF Put
    <3>2. Settled(f)' BY <1>5, <3>1 DEF Settled
    <3> QED BY <2>1, <2>4, <3>2 DEF DatOK
  <2>7. CASE n # Tar(f)
    <3>1. file'[Tar(f)] = file[Tar(f)]
      BY <1>1, <1>4, <2>2, <2>7 DEF Put
    <3>2. Clear(f) => Settled(f) BY <1>6, <2>1, <2>7 DEF Pending
    <3>3. Clear(f) => Settled(f)' BY <1>5, <3>1, <3>2 DEF Settled
    <3> QED BY <2>1, <2>4, <3>3 DEF DatOK
  <2> QED BY <2>6, <2>7
<1>19. CASE CksumRight(p)
  <2>1. pc[p] = "sum" /\ name' = name BY <1>19 DEF CksumRight
  <2>2. Clear(f) => dat[p] = "good"
    BY <1>19 DEF CksumRight, SumIsRight, Clear
  <2>3. CASE n = Tar(f)
    <3>1. UNCHANGED file /\ pc'[p] = "done"
      BY <1>1, <1>19, <2>3 DEF CksumRight, Finish, files
    <3>2. Clear(f) => file[Tar(f)] = "good"
      BY <1>6, <2>1, <2>2, <2>3 DEF DatOK
    <3>3. Clear(f) => Settled(f)' BY <1>5, <3>1, <3>2 DEF Settled
    <3> QED BY <1>9, <3>1, <3>3 DEF DatOK
  <2>4. CASE n # Tar(f)
    <3>1. UNCHANGED <<file, dat>> /\ pc'[p] = "open"
      BY <1>1, <1>19, <2>4 DEF CksumRight, files
    <3>2. Clear(f) => Settled(f) BY <1>6, <2>1, <2>4 DEF Pending
    <3>3. Clear(f) => Settled(f)' BY <1>5, <3>1, <3>2 DEF Settled
    <3>4. Clear(f) => DatOK(p)' BY <2>1, <2>2, <3>1 DEF DatOK
    <3> QED BY <1>9, <3>1, <3>3, <3>4
  <2> QED BY <2>3, <2>4
<1>20. CASE Bzip(p)
  <2>1. pc[p] = "bzip" /\ pc'[p] = "rmgz" BY <1>1, <1>20 DEF Bzip
  <2>2. PICK c : Put(Tar(f), c) BY <1>20 DEF Bzip
  <2>3. OtherFilesKept(p) BY <1>1, <2>2, OtherFiles
  <2>4. Clear(f) => dat[p] = "good" BY <1>6, <2>1 DEF DatOK
  <2>5. f \in spoilt' \/ file'[Tar(f)] = dat[p]
    <3>1. CASE Put(Tar(f), dat[p]) BY <1>1, <1>4, <3>1 DEF Put
    <3>2. CASE ~Put(Tar(f), dat[p]) BY <1>20, <3>2 DEF Bzip
    <3> QED BY <3>1, <3>2
  <2>6. Clear(f) /\ f \notin spoilt' => Settled(f)'
    BY <1>5, <2>4, <2>5 DEF Settled
  <2> QED BY <2>1, <2>3, <2>6 DEF DatOK
<1>22. CASE OpenFinal(p)
  <2>1. pc[p] = "open" /\ dat' = dat BY <1>22 DEF OpenFinal, work
  <2>2. Clear(f) => Settled(f) /\ dat[p] \in {"none", "good"}
    BY <1>6, <2>1 DEF DatOK, Pending
  <2>3. CASE dat[p] = "none"
    <3>1. UNCHANGED file /\ pc'[p] = "rmgz"
      BY <1>1, <1>22, <2>3 DEF OpenFinal
    <3>2. Clear(f) => Settled(f)' BY <1>5, <2>2, <3>1 DEF Settled
    <3> QED BY <1>9, <3>1, <3>2 DEF DatOK
  <2>4. CASE dat[p] # "none"
    <3>1. Put(Tar(f), "part") /\ pc'[p] = "bzip"
      BY <1>1, <1>22, <2>4 DEF OpenFinal
    <3>2. OtherFilesKept(p) BY <1>1, <3>1, OtherFiles
    <3>3. Pending(p)' BY <3>1 DEF Pending
    <3>4. Clear(f) => DatOK(p)' BY <2>1, <2>2, <2>4, <3>1 DEF DatOK
    <3> QED BY <3>2, <3>3, <3>4
  <2> QED BY <2>3, <2>4
<1>21. CASE RemoveFetched(p)
  <2>1. pc[p] = "rmgz" /\ pc'[p] = "done"
    BY <1>1, <1>21 DEF RemoveFetched, Finish
  <2>2. Put(n, "none") BY <1>21 DEF RemoveFetched
  <2>3. n \in {Tar(f), Local(f)} BY <1>7, <2>1 DEF Named
  <2>4. OtherFilesKept(p) BY <1>1, <2>2, <2>3, OtherFiles
  <2>5. Clear(f) => Settled(f) BY <1>6, <2>1 DEF Pending
  <2>6. file'[Tar(f)] \in {"none", file[Tar(f)]}
    BY <1>1, <1>4, <2>2 DEF Put
  <2>7. Clear(f) => Settled(f)' BY <1>5, <2>5, <2>6 DEF Settled
  <2> QED BY <2>1, <2>4, <2>7 DEF DatOK
<1> QED
  BY <1>12, <1>13, <1>14, <1>15, <1>16, <1>17, <1>18, <1>19, <1>20, <1>21,
     <1>22 DEF InsideStep

LEMMA OuterKeepsVerified ==
  ASSUME NEW p \in Procs, FileInv,
         \/ Start(p) \/ TestFile(p) \/ TestLock(p) \/ TakeLock(p)
         \/ Unlock(p) \/ Interrupt(p) \/ Killed(p)
  PROVE  VerifiedInv'
<1>1. TypeOK /\ VerifiedInv BY DEF FileInv
<1>2. Step(p) \/ Start(p) \/ Interrupt(p) \/ Killed(p) BY DEF Step
<1>3. /\ OthersKept(p)
      /\ raced \subseteq raced' /\ interrupted \subseteq interrupted'
      /\ killed \subseteq killed' /\ unlocked \subseteq unlocked'
      /\ spoilt \subseteq spoilt'
  BY <1>1, <1>2, OthersStay, ExcusedStay
<1>4. UNCHANGED file
  BY DEF Start, TestFile, TestLock, TakeLock, Unlock, Interrupt, Killed, files
<1>5. CASE Interrupt(p) /\ pc[p] \in Inside
  <2>1. cur' = cur /\ cur[p] \in interrupted'
    BY <1>5 DEF Interrupt, process
  <2>2. \A f \in Files : Working(p, f) \/ Working(p, f)' => ~Clear(f)'
    BY <2>1 DEF Working, Clear, Undisturbed
  <2> QED BY <1>1, <1>3, <1>4, <2>2, QuietKeepsVerified
<1>6. CASE Killed(p)
  <2>1. pc'[p] = "end" BY <1>1, <1>6 DEF Killed, Goto, TypeOK
  <2>2. pc[p] \in Inside => cur[p] \in killed' BY <1>6 DEF Killed
  <2>3. \A f \in Files : Working(p, f) => ~Clear(f)'
    BY <2>2 DEF Working, Clear, Undisturbed
  <2>4. \A f \in Files : ~Working(p, f)' BY <2>1 DEF Working, Inside
  <2> QED BY <1>1, <1>3, <1>4, <2>3, <2>4, QuietKeepsVerified
<1>7. CASE ~(Interrupt(p) /\ pc[p] \in Inside) /\ ~Killed(p)
  <2>1. pc[p] \notin Inside \/ pc[p] = "done"
    BY <1>7 DEF Start, Running, TestFile, TestLock, TakeLock, Unlock, At,
                Inside
  <2>2. ~Pending(p) BY <2>1 DEF Pending, Inside
  <2>3. pc'[p] \notin {"sum", "open", "bzip"}
    <3>1. pc \in [Procs -> PCs] BY <1>1 DEF TypeOK
    <3>2. CASE Interrupt(p)
      <4>1. pc' = [pc EXCEPT ![p] = "end"] BY <1>7, <3>2 DEF Interrupt, Goto
      <4> QED BY <3>1, <4>1
    <3>3. CASE Start(p) BY <3>1, <3>3 DEF Start, Goto
    <3>4. CASE TestFile(p) BY <3>1, <3>4 DEF TestFile, Return, Goto
    <3>5. CASE TestLock(p) BY <3>1, <3>5 DEF TestLock, Return, Goto
    <3>6. CASE TakeLock(p) BY <3>1, <3>6 DEF TakeLock, Goto
    <3>7. CASE Unlock(p) BY <3>1, <3>7 DEF Unlock, Return, Goto
    <3> QED BY <1>7, <3>2, <3>3, <3>4, <3>5, <3>6, <3>7
  <2>4. DatOK(p)' BY <2>3 DEF DatOK
  <2> QED BY <1>1, <1>3, <1>4, <2>2, <2>4, QuietKeepsVerified
<1> QED BY <1>5, <1>6, <1>7

LEMMA CleanKeepsFileInv ==
  ASSUME NEW n \in Names, FileInv, Clean(n)
  PROVE  NameInv' /\ MovedInv' /\ VerifiedInv'
<1>1. UNCHANGED <<lock, pc, process, work, history>> BY DEF Clean
<1>2. \A f \in Files : file'[Tar(f)] = file[Tar(f)]
  <2>1. file \in [Names -> Contents] BY DEF FileInv, TypeOK
  <2>2. UNCHANGED file \/ (n[2] = "fetched" /\ file' = [file EXCEPT ![n] = "none"])
    BY DEF Clean, Put
  <2>3. ASSUME NEW f \in Files, n[2] = "fetched" PROVE n # Tar(f)
    BY <2>3 DEF Tar
  <2> QED BY <2>1, <2>2, <2>3, NamesOfFiles
<1>3. NameInv' /\ MovedInv'
  BY <1>1 DEF FileInv, NameInv, MovedInv, Fetching, At, Excused, process, work,
              history, faulty, failures
<1>4. VerifiedInv'
  <2>1. ASSUME NEW f \in Files
        PROVE  (Clear(f)' <=> Clear(f)) /\ (Settled(f)' <=> Settled(f))
    BY <1>1, <1>2 DEF Clear, Undisturbed, Settled, history, faulty, failures
  <2>2. ASSUME NEW p \in Procs, NEW f \in Files, Working(p, f)
        PROVE  (Pending(p)' <=> Pending(p)) /\ (DatOK(p)' <=> DatOK(p))
    BY <1>1, <1>2, <2>2 DEF Working, Pending, DatOK, process, work
  <2>3. ASSUME NEW p \in Procs, NEW f \in Files
        PROVE  Working(p, f)' <=> Working(p, f)
    BY <1>1 DEF Working, process
  <2> QED BY <2>1, <2>2, <2>3 DEF FileInv, VerifiedInv
<1> QED BY <1>3, <1>4

\* Cleanup in src/: a lock file, whose file is excused then, or the unpacked
\* data, without which the file does not get through.
LEMMA CleanLockKeepsFileInv ==
  ASSUME NEW g \in Files, FileInv, CleanLock(g)
  PROVE  NameInv' /\ MovedInv' /\ VerifiedInv'
<1>1. UNCHANGED <<files, pc, process, work, raced, interrupted, killed, spoilt>>
      /\ unlocked \subseteq unlocked'
  BY DEF CleanLock, faulty
<1>2. NameInv' /\ MovedInv'
  BY <1>1 DEF FileInv, NameInv, MovedInv, Fetching, At, Excused, process, work
<1>3. VerifiedInv'
  BY <1>1 DEF FileInv, VerifiedInv, Clear, Undisturbed, Settled, Working,
              Pending, DatOK, files, process, work
<1> QED BY <1>2, <1>3

LEMMA CleanDatKeepsFileInv ==
  ASSUME NEW p \in Procs, FileInv, CleanDat(p)
  PROVE  NameInv' /\ MovedInv' /\ VerifiedInv'
<1>1. UNCHANGED <<files, pc, process, name, raced, faulty, unlocked, spoilt>>
  BY DEF CleanDat
<1>2. NameInv' /\ MovedInv'
  BY <1>1 DEF FileInv, NameInv, MovedInv, Fetching, At, Excused, process, faulty
<1>3. pc[p] \in {"sum", "open"} BY DEF CleanDat, At
<1>4. dat'[p] = "none" /\ \A q \in Procs \ {p} : dat'[q] = dat[q]
  BY DEF CleanDat, FileInv, TypeOK
<1>5. ASSUME NEW q \in Procs, DatOK(q) PROVE DatOK(q)'
  <2>1. CASE q = p BY <1>1, <1>3, <1>4, <2>1 DEF DatOK
  <2>2. CASE q # p BY <1>1, <1>4, <1>5, <2>2 DEF DatOK, files, process
  <2> QED BY <2>1, <2>2
<1>6. ASSUME NEW f \in Files
      PROVE  /\ Clear(f)' <=> Clear(f)
             /\ Settled(f)' <=> Settled(f)
             /\ \A q \in Procs : /\ Working(q, f)' <=> Working(q, f)
                                 /\ Pending(q)' <=> Pending(q)
  BY <1>1 DEF Clear, Undisturbed, Settled, Working, Pending, files, process,
              faulty
<1> QED BY <1>2, <1>5, <1>6 DEF FileInv, VerifiedInv

LEMMA FileInvHolds == Spec => []FileInv
<1>1. Init => NameInv /\ MovedInv /\ VerifiedInv
  BY NamesOfFiles
  DEF Init, NameInv, MovedInv, VerifiedInv, Settled, Named, Working, Inside
<1>2. FileInv /\ TypeOK' /\ LockInv' /\ [Next]_vars =>
        NameInv' /\ MovedInv' /\ VerifiedInv'
  <2> SUFFICES ASSUME FileInv, [Next]_vars
               PROVE  NameInv' /\ MovedInv' /\ VerifiedInv'
    OBVIOUS
  <2>1. TypeOK /\ LockInv /\ NameInv /\ MovedInv BY DEF FileInv
  <2>2. ASSUME NEW p \in Procs,
               Step(p) \/ Start(p) \/ Interrupt(p) \/ Killed(p)
        PROVE  NameInv' /\ MovedInv' /\ VerifiedInv'
    <3>1. NameInv' /\ MovedInv' BY <2>1, <2>2, NameInvKept, MovedInvKept
    <3>2. VerifiedInv'
      BY <2>2, InsideKeepsVerified, OuterKeepsVerified DEF Step, InsideStep
    <3> QED BY <3>1, <3>2
  <2>3. ASSUME NEW n \in Names, Clean(n)
        PROVE  NameInv' /\ MovedInv' /\ VerifiedInv'
    BY <2>3, CleanKeepsFileInv
  <2>4. CASE \/ \E p \in Procs : CleanDat(p)
             \/ \E f \in Files : CleanLock(f)
    BY <2>4, CleanDatKeepsFileInv, CleanLockKeepsFileInv
  <2>5. CASE UNCHANGED vars
    BY <2>5 DEF vars, files, errors, process, work, history, faulty, failures, FileInv,
       NameInv, MovedInv, VerifiedInv, Fetching, At, Excused, Clear,
       Undisturbed, Settled, Working, Pending, DatOK
  <2> QED BY <2>2, <2>3, <2>4, <2>5 DEF Next
<1> QED
  BY <1>1, <1>2, DownloadTypeCorrect, LockInvHolds, PTL DEF Spec, FileInv

\* An undisturbed file that nobody works on is absent or has its checksum,
\* unless bzip2 failed for it.
THEOREM FinalsAreVerified == Spec => []FinalIsVerified
<1>1. FileInv => FinalIsVerified
  <2> SUFFICES ASSUME VerifiedInv, NEW f \in Sums, Undisturbed(f), f \notin spoilt,
                      \A p \in Procs : ~Working(p, f)
               PROVE  file[Tar(f)] \in {"none", "good"}
    BY DEF FinalIsVerified, FileInv
  <2>1. f \in Files /\ Clear(f) BY DownloadOptions DEF Clear
  <2> QED BY <2>1 DEF VerifiedInv, Settled
<1> QED BY <1>1, FileInvHolds, PTL

-----------------------------------------------------------------------------
(* A right file is not lost.                                               *)

Lone(f) == Clear(f) /\ f \notin late \union unread

Good(f) == file[Tar(f)] = "good" \/ file[Local(f)] = "good"

\* What the process in a file that was missing knows of its names.
Keeps(p) ==
  LET f == cur[p]
      n == name[p]
  IN  /\ pc[p] \in {"work", "mirror", "orig"} => file[Tar(f)] = "none"
      /\ pc[p] \in {"mirror", "orig"} => file[Local(f)] = "none"
      /\ pc[p] \in {"unpack", "sum", "open"} /\ n # Tar(f) => file[Tar(f)] = "none"
      /\ pc[p] = "sum" =>
           dat[p] = file[n] \/ (n # Tar(f) /\ file[n] = "none")
      /\ pc[p] \in {"open", "bzip", "rmgz"} => n # Tar(f)
      /\ pc[p] = "open" => dat[p] = "good"
      /\ pc[p] = "bzip" => file[Tar(f)] = "part"
      /\ pc[p] = "rmgz" => file[Tar(f)] = "good"

KeepsInv ==
  \A f \in Files : Lone(f) => \A p \in Procs : Working(p, f) => Keeps(p)

\* A step of p leaves the names of other files alone.
LEMMA OtherNames ==
  ASSUME NEW p \in Procs, TypeOK, NameInv, InsideStep(p), NEW f \in Files, f # cur[p]
  PROVE  file'[Tar(f)] = file[Tar(f)] /\ file'[Local(f)] = file[Local(f)]
<1>1. cur[p] \in Files BY DEF TypeOK
<1>2. UNCHANGED file \/ \E n \in {Tar(cur[p]), Local(cur[p])} : \E c : Put(n, c)
  <2>1. pc[p] \in Named => name[p] \in {Tar(cur[p]), Local(cur[p])} BY DEF NameInv
  <2> QED
    BY <2>1
    DEF InsideStep, CheckOnly, AlreadyDownloaded, Refuse, Alternative, StartFetch,
        Arrives, WrongType, FetchFails, Fetching, At, Named, Uncompress, CksumError,
        CksumRight, OpenFinal, Bzip, RemoveFetched, files
<1>3. \A n \in {Tar(cur[p]), Local(cur[p])} : n # Tar(f) /\ n # Local(f)
  BY <1>1 DEF Tar, Local
<1> QED BY <1>2, <1>3, NamesOfFiles DEF Put, TypeOK

\* Nor does it lose the right file of its own.
LEMMA OwnStep ==
  ASSUME NEW p \in Procs, FileInv, KeepsInv, InsideStep(p), Lone(cur[p])
  PROVE  (Lone(cur[p])' => Keeps(p)') /\ (Good(cur[p]) => Good(cur[p])')
<1> DEFINE f == cur[p]
           n == name[p]
<1> USE DEF At, Goto, TypeOK
<1>1. TypeOK /\ LockInv /\ VerifiedInv /\ NameInv /\ MovedInv BY DEF FileInv
<1>2. pc[p] \in Inside /\ cur' = cur BY InsideSteps DEF Moves
<1>3. f \in Files /\ Tar(f) \in Names /\ Local(f) \in Names /\ n \in Names
  BY <1>1, NamesOfFiles
<1>4. Keeps(p) /\ DatOK(p) BY <1>1, <1>2, <1>3, OwnFile DEF KeepsInv, Lone, Working
<1>5. pc[p] \in Named => n \in {Tar(f), Local(f)} BY <1>1 DEF NameInv
<1>6. p \notin moved
  BY <1>1 DEF MovedInv, Excused, Lone, Clear, Undisturbed
<1>7. f \in Sums BY DEF Lone, Clear
<1>8. CASE CheckOnly(p) \/ AlreadyDownloaded(p) \/ Refuse(p) \/ StartFetch(p)
  <2>1. UNCHANGED file /\ pc[p] = "work" /\ pc'[p] \in {"unpack", "done", "mirror", "orig"}
    BY <1>1, <1>8
    DEF CheckOnly, AlreadyDownloaded, Refuse, Missing, StartFetch, files, Unpack, Finish, Fetch
  <2>2. pc'[p] \in {"mirror", "orig"} => file[Local(f)] = "none"
    BY <1>1, <1>8
    DEF CheckOnly, AlreadyDownloaded, Refuse, Missing, StartFetch, Unpack, Finish
  <2> QED BY <1>2, <1>4, <2>1, <2>2 DEF Keeps, Good
<1>9. CASE Alternative(p)
  <2>1. ~Good(f) BY <1>4, <1>9 DEF Alternative, Missing, Keeps, Good
  <2>2. pc'[p] \in {"unpack", "done"} /\ name'[p] = Tar(f)
    BY <1>1, <1>9 DEF Alternative, AfterFetch, Finish
  <2> QED BY <1>2, <2>1, <2>2 DEF Keeps
<1>10. CASE Arrives(p) \/ WrongType(p) \/ FetchFails(p)
  <2>1. pc[p] \in {"mirror", "orig"} BY <1>10 DEF Arrives, WrongType, FetchFails, Fetching
  <2>2. ~Good(f) /\ file[Tar(f)] = "none" /\ file[Local(f)] = "none"
    BY <1>4, <2>1 DEF Keeps, Good
  <2>3. CASE Arrives(p)
    <3>1. PICK c \in {"bad", "good"} : Put(n, c) BY <2>3 DEF Arrives
    <3>2. pc'[p] = "unpack" /\ name' = name
      BY <1>1, <1>3, <2>3, <3>1 DEF Arrives, AfterFetch, Put
    <3>3. n # Tar(f) => file'[Tar(f)] = "none" BY <1>1, <1>3, <2>2, <3>1 DEF Put
    <3> QED BY <1>2, <2>2, <3>2, <3>3 DEF Keeps
  <2>4. CASE ~Arrives(p)
    <3>1. UNCHANGED file /\ pc'[p] \in {"orig", "unpack", "done"}
      BY <1>1, <1>6, <1>10, <2>4 DEF WrongType, FetchFails, AfterFetch, Finish
    <3> QED BY <1>2, <2>2, <3>1 DEF Keeps
  <2> QED BY <2>3, <2>4
<1>11. CASE Uncompress(p)
  <2>1. /\ UNCHANGED <<file, name>> /\ pc[p] = "unpack" /\ pc'[p] = "sum"
        /\ dat'[p] = file[n] \/ f \in unread'
    BY <1>1, <1>11 DEF Uncompress, files
  <2>2. Lone(cur[p])' => f \notin unread' BY <1>2 DEF Lone
  <2> QED BY <1>2, <1>4, <2>1, <2>2 DEF Keeps, Good
<1>12. CASE CksumError(p)
  <2>1. pc[p] = "sum" /\ pc'[p] = "done" BY <1>1, <1>12 DEF CksumError, Finish
  <2>2. UNCHANGED file \/ Put(n, "none") BY <1>12 DEF CksumError
  <2>3. dat[p] # "good" BY <1>12 DEF CksumError, SumIsRight
  <2>4. file[n] # "good" BY <1>4, <2>1, <2>3 DEF Keeps
  <2>5. Good(f) => Good(f)' BY <1>1, <1>2, <1>3, <2>2, <2>4 DEF Good, Put
  <2> QED BY <2>1, <2>5 DEF Keeps
<1>13. CASE CksumRight(p)
  <2>1. pc[p] = "sum" /\ name' = name BY <1>13 DEF CksumRight
  <2>2. CASE n = Tar(f)
    <3>1. UNCHANGED file /\ pc'[p] = "done"
      BY <1>1, <1>13, <2>2 DEF CksumRight, Finish, files
    <3> QED BY <1>2, <3>1 DEF Keeps, Good
  <2>3. CASE n # Tar(f)
    <3>1. UNCHANGED <<file, dat>> /\ pc'[p] = "open"
      BY <1>1, <1>13, <2>3 DEF CksumRight, files
    <3>2. dat[p] = "good" BY <1>7, <1>13 DEF CksumRight, SumIsRight
    <3> QED BY <1>2, <1>4, <2>1, <2>3, <3>1, <3>2 DEF Keeps, Good
  <2> QED BY <2>2, <2>3
<1>14. CASE Bzip(p)
  <2>1. pc[p] = "bzip" /\ pc'[p] = "rmgz" /\ name' = name
    BY <1>1, <1>14 DEF Bzip, work
  <2>2. n # Tar(f) /\ file[Tar(f)] = "part" /\ n = Local(f)
    BY <1>4, <1>5, <2>1 DEF Keeps, Named
  <2>3. PICK c : Put(Tar(f), c) BY <1>14 DEF Bzip
  <2>4. file'[Local(f)] = file[Local(f)] BY <1>1, <1>3, <2>2, <2>3 DEF Put
  <2>5. Good(f) => Good(f)' BY <1>2, <2>2, <2>4 DEF Good
  <2>6. f \in spoilt' \/ file'[Tar(f)] = "good"
    <3>1. CASE Put(Tar(f), dat[p])
      BY <1>1, <1>3, <1>4, <2>1, <3>1 DEF DatOK, Put
    <3>2. CASE ~Put(Tar(f), dat[p]) BY <1>14, <3>2 DEF Bzip
    <3> QED BY <3>1, <3>2
  <2>7. Lone(cur[p])' => f \notin spoilt' BY <1>2 DEF Lone, Clear
  <2> QED BY <1>2, <2>1, <2>2, <2>5, <2>6, <2>7 DEF Keeps
<1>16. CASE OpenFinal(p)
  <2>1. pc[p] = "open" /\ name' = name BY <1>16 DEF OpenFinal, work
  <2>2. n # Tar(f) /\ file[Tar(f)] = "none" /\ dat[p] = "good" /\ n = Local(f)
    BY <1>4, <1>5, <2>1 DEF Keeps, Named
  <2>3. Put(Tar(f), "part") /\ pc'[p] = "bzip"
    BY <1>1, <1>16, <2>2 DEF OpenFinal
  <2>4. file'[Local(f)] = file[Local(f)] /\ file'[Tar(f)] = "part"
    BY <1>1, <1>3, <2>2, <2>3 DEF Put
  <2>5. Good(f) => Good(f)' BY <1>2, <2>2, <2>4 DEF Good
  <2> QED BY <1>2, <2>1, <2>2, <2>3, <2>4, <2>5 DEF Keeps
<1>15. CASE RemoveFetched(p)
  <2>1. pc[p] = "rmgz" /\ pc'[p] = "done" /\ Put(n, "none")
    BY <1>1, <1>15 DEF RemoveFetched, Finish
  <2>2. n # Tar(f) /\ file[Tar(f)] = "good" BY <1>4, <2>1 DEF Keeps
  <2>3. file'[Tar(f)] = "good" BY <1>1, <1>3, <2>1, <2>2 DEF Put
  <2> QED BY <1>2, <2>1, <2>3 DEF Keeps, Good
<1> QED
  BY <1>8, <1>9, <1>10, <1>11, <1>12, <1>13, <1>14, <1>15, <1>16 DEF InsideStep

\* The steps that enter or leave a file write to none.
LEMMA OuterKeepsKeeps ==
  ASSUME NEW p \in Procs, FileInv, KeepsInv,
         \/ Start(p) \/ TestFile(p) \/ TestLock(p) \/ TakeLock(p)
         \/ Unlock(p) \/ Interrupt(p) \/ Killed(p)
  PROVE  KeepsInv' /\ UNCHANGED file
<1> USE DEF TypeOK
<1>1. TypeOK /\ LockInv BY DEF FileInv
<1>2. Step(p) \/ Start(p) \/ Interrupt(p) \/ Killed(p) BY DEF Step
<1>3. /\ OthersKept(p)
      /\ raced \subseteq raced' /\ interrupted \subseteq interrupted'
      /\ killed \subseteq killed' /\ unlocked \subseteq unlocked'
      /\ spoilt \subseteq spoilt' /\ unread \subseteq unread'
  BY <1>1, <1>2, OthersStay, ExcusedStay
<1>4. UNCHANGED file /\ late \subseteq late'
  BY DEF Start, TestFile, TestLock, TakeLock, NoteLate, Unlock, Interrupt, Killed, files,
         history
<1>5. ASSUME NEW f \in Files, Lone(f)', Working(p, f)' PROVE Keeps(p)'
  <2>1. CASE TakeLock(p)
    <3>1. pc'[p] = "work" /\ cur' = cur BY <1>1, <2>1 DEF TakeLock, Goto, process
    <3>2. cur[p] = f BY <1>5, <3>1 DEF Working
    <3>3. file[Tar(f)] = "none" BY <1>5, <2>1, <3>2 DEF TakeLock, NoteLate, Lone
    <3> QED BY <1>4, <3>1, <3>2, <3>3 DEF Keeps
  <2>2. CASE Interrupt(p)
    <3>1. CASE pc[p] \in Inside
      <4>1. f \in interrupted' BY <1>5, <2>2, <3>1 DEF Interrupt, Working, process
      <4> QED BY <1>5, <4>1 DEF Lone, Clear, Undisturbed
    <3>2. CASE pc[p] \notin Inside
      <4>1. pc'[p] = "end" BY <1>1, <2>2, <3>2 DEF Interrupt, Goto
      <4> QED BY <4>1 DEF Keeps
    <3> QED BY <3>1, <3>2
  <2>3. CASE ~TakeLock(p) /\ ~Interrupt(p)
    <3>1. pc'[p] \in {"file", "lock", "take", "end"}
      <4>1. CASE Start(p) BY <1>1, <4>1 DEF Start, Goto
      <4>2. CASE TestFile(p) BY <1>1, <4>2 DEF TestFile, Return, Goto
      <4>3. CASE TestLock(p) BY <1>1, <4>3 DEF TestLock, Return, Goto
      <4>4. CASE Unlock(p) BY <1>1, <4>4 DEF Unlock, Return, Goto
      <4>5. CASE Killed(p) BY <1>1, <4>5 DEF Killed, Goto
      <4> QED BY <2>3, <4>1, <4>2, <4>3, <4>4, <4>5
    <3> QED BY <3>1 DEF Keeps
  <2> QED BY <2>1, <2>2, <2>3
<1>6. ASSUME NEW f \in Files, Lone(f)', NEW q \in Procs \ {p}, Working(q, f)' PROVE Keeps(q)'
  <2>1. Lone(f) BY <1>3, <1>4, <1>6 DEF Lone, Clear, Undisturbed
  <2>2. Working(q, f) BY <1>3, <1>6 DEF OthersKept, Working
  <2>3. Keeps(q) BY <2>1, <2>2 DEF KeepsInv
  <2> QED BY <1>3, <1>4, <2>3 DEF Keeps, OthersKept
<1> QED BY <1>4, <1>5, <1>6 DEF KeepsInv

\* Inside, only the process itself works on the file.
LEMMA InsideKeepsKeeps ==
  ASSUME NEW p \in Procs, FileInv, KeepsInv, InsideStep(p)
  PROVE  KeepsInv' /\ \A f \in Files : Lone(f) /\ Good(f) => Good(f)'
<1>1. TypeOK /\ LockInv /\ NameInv BY DEF FileInv
<1>2. Moves(p, Inside) BY InsideSteps
<1>3. OthersKept(p)
  <2>1. Step(p) BY DEF InsideStep, Step
  <2> QED BY <1>1, <2>1, OthersStay
<1>4. pc[p] \in Inside /\ cur' = cur BY <1>2 DEF Moves
<1>5. UNCHANGED <<raced, interrupted, killed, unlocked, late>>
  BY DEF InsideStep, CheckOnly, AlreadyDownloaded, Refuse, Alternative,
         StartFetch, Arrives, WrongType, FetchFails, Uncompress, CksumError,
         CksumRight, OpenFinal, Bzip, RemoveFetched, history, faulty, failures
<1>6. ASSUME NEW f \in Files PROVE Lone(f)' => Lone(f)
  <2>1. Step(p) BY DEF InsideStep, Step
  <2> QED BY <1>5, <2>1, ExcusedStay DEF Lone, Clear, Undisturbed
<1>7. ASSUME NEW f \in Files, Lone(f), Lone(f)', NEW q \in Procs, Working(q, f)' PROVE Keeps(q)'
  <2>1. CASE q = p
    <3>1. cur[p] = f /\ cur'[p] = f BY <1>4, <1>7, <2>1 DEF Working
    <3>2. Lone(cur[p])' BY <1>7, <3>1 DEF Lone, Clear, Undisturbed
    <3> QED BY <1>7, <2>1, <3>1, <3>2, OwnStep
  <2>2. CASE q # p
    <3>1. Working(q, f) /\ cur'[q] = f BY <1>3, <1>7, <2>2 DEF OthersKept, Working
    <3>2. Keeps(q) BY <1>7, <3>1 DEF KeepsInv
    <3>3. cur[p] # f
      BY <1>1, <1>4, <1>7, <2>2, <3>1, Alone DEF Lone, Clear, Working
    <3>4. file'[Tar(f)] = file[Tar(f)] /\ file'[Local(f)] = file[Local(f)]
      BY <1>1, <3>3, OtherNames
    <3>5. pc[q] \in Named => name[q] \in {Tar(f), Local(f)}
      BY <1>1, <3>1 DEF NameInv, Working
    <3> QED BY <1>3, <2>2, <3>1, <3>2, <3>4, <3>5 DEF Keeps, OthersKept, Working, Named
  <2> QED BY <2>1, <2>2
<1>8. ASSUME NEW f \in Files, Lone(f), Good(f) PROVE Good(f)'
  <2>1. CASE f = cur[p] BY <1>4, <1>8, <2>1, OwnStep DEF Good
  <2>2. CASE f # cur[p] BY <1>1, <1>8, <2>2, OtherNames DEF Good
  <2> QED BY <2>1, <2>2
<1> QED BY <1>6, <1>7, <1>8 DEF KeepsInv

\* Cleanup takes the fetched files away, also while they are worked on.
LEMMA CleanKeepsKeeps ==
  ASSUME NEW n \in Names, FileInv, KeepsInv, Clean(n)
  PROVE  KeepsInv'
<1>1. UNCHANGED <<lock, pc, process, work, history>> BY DEF Clean
<1>2. file \in [Names -> Contents] /\ NameInv /\ TypeOK BY DEF FileInv, TypeOK
<1>3. UNCHANGED file \/ (n[2] = "fetched" /\ file' = [file EXCEPT ![n] = "none"])
  BY DEF Clean, Put
<1>4. \A f \in Files : n[2] = "fetched" => n # Tar(f) BY DEF Tar
<1>5. \A f \in Files : file'[Tar(f)] = file[Tar(f)]
  BY <1>2, <1>3, <1>4, NamesOfFiles
<1>6. \A m \in Names : file'[m] = file[m] \/ (file'[m] = "none" /\ \A f \in Files : m # Tar(f))
  BY <1>2, <1>3, <1>4
<1>7. ASSUME NEW f \in Files, NEW p \in Procs, Working(p, f), Keeps(p) PROVE Keeps(p)'
  <2>1. cur[p] = f /\ Tar(f) \in Names /\ Local(f) \in Names /\ name[p] \in Names
    BY <1>2, <1>7, NamesOfFiles DEF Working, TypeOK
  <2>2. file'[Local(f)] \in {file[Local(f)], "none"} BY <1>6, <2>1
  <2>3. file'[name[p]] = file[name[p]] \/ (file'[name[p]] = "none" /\ name[p] # Tar(f))
    BY <1>6, <2>1
  <2> QED BY <1>1, <1>5, <1>7, <2>1, <2>2, <2>3 DEF Keeps, process, work
<1>8. \A f \in Files : Lone(f)' <=> Lone(f)
  BY <1>1 DEF Lone, Clear, Undisturbed, history, faulty, failures
<1>9. \A f \in Files : \A p \in Procs : Working(p, f)' <=> Working(p, f)
  BY <1>1 DEF Working, process
<1> QED BY <1>7, <1>8, <1>9 DEF KeepsInv

\* In src/ it takes no file, and the one that misses its data is not alone.
LEMMA CleanSrcKeepsKeeps ==
  ASSUME FileInv, KeepsInv,
         \/ \E p \in Procs : CleanDat(p)
         \/ \E f \in Files : CleanLock(f)
  PROVE  KeepsInv' /\ UNCHANGED file
<1>1. ASSUME NEW p \in Procs, CleanDat(p) PROVE KeepsInv' /\ UNCHANGED file
  <2>1. UNCHANGED <<files, pc, process, name, late, raced, faulty, unlocked, spoilt>>
        /\ unread' = unread \union {cur[p]}
    BY <1>1 DEF CleanDat
  <2>2. \A q \in Procs \ {p} : dat'[q] = dat[q]
    BY <1>1 DEF CleanDat, FileInv, TypeOK
  <2>3. ASSUME NEW f \in Files, Lone(f)', NEW q \in Procs, Working(q, f)'
        PROVE  Keeps(q)'
    <3>1. Lone(f) /\ f # cur[p]
      BY <2>1, <2>3 DEF Lone, Clear, Undisturbed, faulty
    <3>2. Working(q, f) /\ q # p BY <2>1, <2>3, <3>1 DEF Working, process
    <3>3. Keeps(q) BY <3>1, <3>2 DEF KeepsInv
    <3> QED BY <2>1, <2>2, <3>2, <3>3 DEF Keeps, files, process
  <2> QED BY <2>1, <2>3 DEF KeepsInv, files
<1>2. ASSUME NEW g \in Files, CleanLock(g) PROVE KeepsInv' /\ UNCHANGED file
  BY <1>2 DEF CleanLock, files, process, work, faulty, KeepsInv, Keeps, Lone,
              Clear, Undisturbed, Working
<1> QED BY <1>1, <1>2

\* A right file under one of its names stays there until it is under the final
\* one: no step of Download loses it (Download:308-535), if it is worked on by
\* one process, which is not killed, did not come when it was complete, and
\* could write all it unpacked and compressed.
THEOREM GoodFilesStay == Spec => GoodFileStays
<1>1. Init => KeepsInv
  BY DEF Init, KeepsInv, Working, Inside
<1>2. FileInv /\ KeepsInv /\ [Next]_vars =>
        /\ KeepsInv'
        /\ (\A n \in Names : ~Clean(n)) => \A f \in Files : Lone(f) /\ Good(f) => Good(f)'
  <2> SUFFICES ASSUME FileInv, KeepsInv, [Next]_vars
               PROVE  /\ KeepsInv'
                      /\ (\A n \in Names : ~Clean(n)) =>
                           \A f \in Files : Lone(f) /\ Good(f) => Good(f)'
    OBVIOUS
  <2>1. ASSUME NEW p \in Procs, Step(p) \/ Start(p) \/ Interrupt(p) \/ Killed(p)
        PROVE  KeepsInv' /\ \A f \in Files : Lone(f) /\ Good(f) => Good(f)'
    <3>1. CASE InsideStep(p) BY <3>1, InsideKeepsKeeps
    <3>2. CASE \/ Start(p) \/ TestFile(p) \/ TestLock(p) \/ TakeLock(p)
               \/ Unlock(p) \/ Interrupt(p) \/ Killed(p)
      BY <3>2, OuterKeepsKeeps DEF Good
    <3> QED BY <2>1, <3>1, <3>2 DEF Step, InsideStep
  <2>2. ASSUME NEW n \in Names, Clean(n) PROVE KeepsInv'
    BY <2>2, CleanKeepsKeeps
  <2>4. CASE \/ \E p \in Procs : CleanDat(p)
             \/ \E f \in Files : CleanLock(f)
    BY <2>4, CleanSrcKeepsKeeps DEF Good
  <2>3. CASE UNCHANGED vars
    BY <2>3 DEF vars, files, errors, process, work, history, faulty, failures, KeepsInv, Keeps, Lone,
                Clear, Undisturbed, Working, Good
  <2> QED BY <2>1, <2>2, <2>3, <2>4 DEF Next
<1>3. FileInv /\ KeepsInv /\ [Next]_vars =>
        [\A f \in Sums :
           /\ Undisturbed(f) /\ f \notin late \union unread \union spoilt
           /\ \E n \in {Local(f), Tar(f)} : file[n] = "good"
           /\ \A n \in Names : ~Clean(n)
           => \E n \in {Local(f), Tar(f)} : file'[n] = "good"]_vars
  <2>1. \A f \in Sums : f \in Files BY DownloadOptions
  <2> QED BY <1>2, <2>1 DEF Lone, Clear, Good
<1>4. Spec => [](FileInv /\ KeepsInv)
  BY <1>1, <1>2, FileInvHolds, PTL DEF Spec
<1> QED BY <1>3, <1>4, PTL DEF Spec, GoodFileStays
=============================================================================
