------------------------------ MODULE Download ------------------------------
(***************************************************************************)
(* scripts/Download: fetches the files of a package, checks their sums and *)
(* keeps them under their final, bzip2'ed name.  Each process is one       *)
(* `Download <package>', run by a user, a Build-Target or an Emerge-Pkg;   *)
(* it goes through the package's [D] lines, 1 .. NumFiles.                 *)
(*                                                                         *)
(* A file f has two names: Local(f), that of its [D] line, and Tar(f), its *)
(* final one; they differ if it must be converted (.gz, .xz, ... to .bz2). *)
(* Beside a name n there may be n.incomplete, n.cksum-err, n.extck-err.    *)
(* Of a file's content only matters whether it is truncated, whole but     *)
(* wrong, or right; an empty file counts as none, as it does for [ -s ].   *)
(* -nock is Sums = {}; checkouts from cvs, svn, git, hg and .gpg files are *)
(* left out, and all files are taken for compressed ones.  The disk may be *)
(* full whenever something is written, and Cleanup may come at any time.   *)
(***************************************************************************)
EXTENDS Naturals

CONSTANTS
  Procs,          \* the processes
  NumFiles,       \* [D] lines of the package
  Converted,      \* the files whose final name differs from the fetched one
  Sums,           \* the files with a checksum
  Questionable,   \* those whose URL is marked so, without -try-questionable
  Mirror,         \* download/Mirror-Cache names a mirror
  MaxRuns,        \* how many processes may be started in all
  MaxFaults       \* how often one may be killed or disturbed in all

Files == 1 .. NumFiles

ASSUME DownloadOptions ==
  /\ NumFiles \in Nat \ {0}
  /\ Converted \subseteq Files /\ Sums \subseteq Files
  /\ Questionable \subseteq Files
  /\ Mirror \in BOOLEAN
  /\ MaxRuns \in Nat /\ MaxFaults \in Nat

Tar(f) == <<f, "final">>
Local(f) == IF f \in Converted THEN <<f, "fetched">> ELSE Tar(f)
Names == {Local(f) : f \in Files} \union {Tar(f) : f \in Files}

\* -check; -alt-dir, a directory that has the file; or neither
Modes == {"check", "alt", "plain"}
Contents == {"none", "part", "bad", "good"}

VARIABLES
  file,                           \* the content of each name
  incomplete, cksumerr, extckerr, \* the names that have a file of this kind
  lock,                           \* the files whose lock file exists
  pc, cur,                        \* where a process is, and in which file
  name,                           \* gzfile: the name it works with
  dat,                            \* the content of its src/down.$$.dat
  mode,                           \* its option, of Modes
  moved,                          \* those whose .incomplete another one moved
  status,                         \* the last return value of download_file
  runs, faults,                   \* history: processes started, disturbed
  raced,                          \* history: files locked by two at once
  late,                           \* history: files locked when already there
  interrupted, killed,            \* history: files whose process was
  unlocked,         \* history: files whose lock was not written, or cleaned
  unread,           \* history: files not unpacked in full, or cleaned
  spoilt            \* history: files bzip2 failed for

errors == <<cksumerr, extckerr>>
files == <<file, incomplete, errors>>
process == <<cur, mode, moved>>
work == <<name, dat, status>>
faulty == <<interrupted, killed>>
failures == <<unlocked, unread, spoilt>>
history == <<raced, late, faulty, failures>>
vars == <<files, lock, pc, process, work, runs, faults, history>>

Inside == {"work", "mirror", "orig", "unpack", "sum", "open", "bzip", "rmgz",
           "done"}
PCs == {"idle", "end", "file", "lock", "take"} \union Inside

TypeOK ==
  /\ file \in [Names -> Contents]
  /\ incomplete \subseteq Names /\ cksumerr \subseteq Names
  /\ extckerr \subseteq Names
  /\ lock \subseteq Files
  /\ pc \in [Procs -> PCs] /\ cur \in [Procs -> Files]
  /\ name \in [Procs -> Names] /\ dat \in [Procs -> Contents]
  /\ mode \in [Procs -> Modes] /\ status \in [Procs -> {0, 1}]
  /\ moved \subseteq Procs
  /\ runs \in 0 .. MaxRuns /\ faults \in 0 .. MaxFaults
  /\ raced \subseteq Files /\ late \subseteq Files
  /\ interrupted \subseteq Files /\ killed \subseteq Files
  /\ unlocked \subseteq Files /\ unread \subseteq Files /\ spoilt \subseteq Files

\* Earlier downloads may have failed in any way.
Init ==
  /\ file = [n \in Names |-> "none"]
  /\ incomplete \in SUBSET Names /\ cksumerr \in SUBSET Names
  /\ extckerr \in SUBSET Names /\ lock = {}
  /\ pc = [p \in Procs |-> "idle"] /\ cur = [p \in Procs |-> 1]
  /\ name = [p \in Procs |-> Tar(1)] /\ dat = [p \in Procs |-> "none"]
  /\ mode = [p \in Procs |-> "plain"] /\ status = [p \in Procs |-> 0]
  /\ moved = {} /\ runs = 0 /\ faults = 0
  /\ raced = {} /\ late = {} /\ interrupted = {} /\ killed = {}
  /\ unlocked = {} /\ unread = {} /\ spoilt = {}

-----------------------------------------------------------------------------
Fault == faults < MaxFaults /\ faults' = faults + 1

At(p, s) == pc[p] = s
Running(p) == pc[p] \notin {"idle", "end"}
Checking(p) == mode[p] = "check"        \* $checkonly = 1
Goto(p, s) == pc' = [pc EXCEPT ![p] = s]
Put(n, c) == file' = [file EXCEPT ![n] = c]

\* Variant: the end of the list is not noticed.
ReturnOn(p, s) ==
  /\ status' = [status EXCEPT ![p] = s]
  /\ Goto(p, "file") /\ cur' = [cur EXCEPT ![p] = @ + 1]
  /\ name' = [name EXCEPT ![p] = Tar(1)] /\ dat' = [dat EXCEPT ![p] = "none"]

\* The end of download_file: the next [D] line, or exit.  `exit $downloaderr'
\* names a variable that is never set: the exit code is the last status.
Return(p, s) ==
  /\ status' = [status EXCEPT ![p] = s]
  /\ IF cur[p] = NumFiles
     THEN Goto(p, "end") /\ UNCHANGED cur
     ELSE Goto(p, "file") /\ cur' = [cur EXCEPT ![p] = @ + 1]
  /\ name' = [name EXCEPT ![p] = Tar(1)] /\ dat' = [dat EXCEPT ![p] = "none"]

\* Variant: an early return that leaves the lock file.
FinishLocked(p, s) ==
  /\ Goto(p, IF s = 1 THEN "end" ELSE "done")
  /\ status' = [status EXCEPT ![p] = s]

\* rm -f "$lkfile" ; trap INT ; return s
Finish(p, s) ==
  /\ Goto(p, "done")
  /\ status' = [status EXCEPT ![p] = s]

\* ./scripts/Download $pkg
Start(p) ==
  /\ ~Running(p) /\ runs < MaxRuns
  /\ Goto(p, "file")
  /\ cur' = [cur EXCEPT ![p] = 1]
  /\ \E m \in Modes : mode' = [mode EXCEPT ![p] = m]
  /\ status' = [status EXCEPT ![p] = 0]
  /\ runs' = runs + 1
  /\ UNCHANGED <<files, lock, name, dat, moved, faults, history>>

\* [ -s "$bzfile" -a $checkonly != 1 ] && return 0
TestFile(p) ==
  /\ At(p, "file")
  /\ IF file[Tar(cur[p])] # "none" /\ ~Checking(p)
     THEN Return(p, 0)
     ELSE Goto(p, "lock") /\ UNCHANGED <<cur, work>>
  /\ UNCHANGED <<files, lock, mode, moved, runs, faults, history>>

\* Variant: waits for the lock instead of skipping the file.
TestLockWaits(p) ==
  /\ At(p, "lock") /\ cur[p] \notin lock
  /\ Goto(p, "take")
  /\ UNCHANGED <<files, lock, process, work, runs, faults, history>>

\* Found $lkfile -> skip download.
TestLock(p) ==
  /\ At(p, "lock")
  /\ IF cur[p] \in lock
     THEN Return(p, 0)
     ELSE Goto(p, "take") /\ UNCHANGED <<cur, work>>
  /\ UNCHANGED <<files, lock, mode, moved, runs, faults, history>>

\* The two tests and this write are three commands: by now the file may be
\* locked, and it may be there.
NoteLate(p) ==
  LET f == cur[p] IN
  /\ raced' = IF f \in lock THEN raced \union {f} ELSE raced
  /\ late' = IF file[Tar(f)] # "none" THEN late \union {f} ELSE late

\* Variant: the lock file is not written.
TakeNoLock(p) ==
  /\ At(p, "take")
  /\ Goto(p, "work")
  /\ NoteLate(p)
  /\ UNCHANGED <<files, lock, process, work, runs, faults, faulty, failures>>

\* echo $$ > "$lkfile", which is not tested: the disk is full, or src/ was
\* removed since mkdir -p src/, and there is no lock file, or an empty one.
TakeLock(p) ==
  LET f == cur[p] IN
  /\ At(p, "take")
  /\ Goto(p, "work")
  /\ NoteLate(p)
  /\ \/ lock' = lock \union {f} /\ UNCHANGED <<unlocked, faults>>
     \/ lock' = lock \ {f} /\ unlocked' = unlocked \union {f} /\ Fault
  /\ UNCHANGED <<files, process, work, runs, faulty, unread, spoilt>>

-----------------------------------------------------------------------------
Unpack(p, n) == Goto(p, "unpack") /\ name' = [name EXCEPT ![p] = n]

\* download_file_now: curl writes to n.incomplete, from its end on if it is
\* there (resume).
Fetch(p, s, n) ==
  /\ Goto(p, s)
  /\ name' = [name EXCEPT ![p] = n]
  /\ incomplete' = incomplete \union {n}

\* -check: a file without a checksum is an error, too.
CheckOnly(p) ==
  LET f == cur[p] IN
  /\ At(p, "work") /\ Checking(p)
  /\ IF file[Tar(f)] # "none" /\ f \in Sums
     THEN Unpack(p, Tar(f)) /\ UNCHANGED status
     ELSE Finish(p, 1) /\ UNCHANGED name
  /\ UNCHANGED <<files, lock, process, dat, runs, faults, history>>

AlreadyDownloaded(p) ==
  LET f == cur[p] IN
  /\ At(p, "work") /\ ~Checking(p) /\ file[Local(f)] # "none"
  /\ Unpack(p, Local(f))
  /\ UNCHANGED <<files, lock, process, dat, status, runs, faults, history>>

Missing(p) ==
  At(p, "work") /\ ~Checking(p) /\ file[Local(cur[p])] = "none"

\* An error file of an earlier download, or a questionable URL.
Blocked(f) == Local(f) \in cksumerr \union extckerr \/ f \in Questionable

Refuse(p) ==
  /\ Missing(p) /\ Blocked(cur[p])
  /\ Finish(p, 1)
  /\ UNCHANGED <<files, lock, process, name, dat, runs, faults, history>>

\* if [ ! -s "$gzfile" ], whatever the fetch or the copy returned
AfterFetch(p, n) ==
  IF file'[n] # "none"
  THEN Goto(p, "unpack") /\ UNCHANGED status
  ELSE Finish(p, 1)

\* The file is linked from the alternative directory, or copied, if it can be.
Alternative(p) ==
  LET f == cur[p] IN
  /\ Missing(p) /\ ~Blocked(f) /\ mode[p] = "alt"
  /\ \/ \E c \in {"bad", "good"} : Put(Tar(f), c)
     \/ UNCHANGED file
  /\ name' = [name EXCEPT ![p] = Tar(f)]
  /\ AfterFetch(p, Tar(f))
  /\ UNCHANGED <<incomplete, errors, lock, process, dat, runs, faults, history>>

\* From the mirror under the final name, else from the original URL.
StartFetch(p) ==
  LET f == cur[p] IN
  /\ Missing(p) /\ ~Blocked(f) /\ mode[p] = "plain"
  /\ IF Mirror THEN Fetch(p, "mirror", Tar(f)) ELSE Fetch(p, "orig", Local(f))
  /\ UNCHANGED <<file, errors, lock, process, dat, status, runs, faults, history>>

Fetching(p) == At(p, "mirror") \/ At(p, "orig")

\* mv $gzfile.incomplete $gzfile, before the sum is checked
Arrives(p) ==
  LET n == name[p] IN
  /\ Fetching(p) /\ n \in incomplete
  /\ \E c \in {"bad", "good"} : Put(n, c)
  /\ incomplete' = incomplete \ {n}
  /\ AfterFetch(p, n)
  /\ moved' = (moved \ {p})
               \union {q \in Procs \ {p} : Fetching(q) /\ name[q] = n}
  /\ UNCHANGED <<errors, lock, cur, mode, name, dat, runs, faults, history>>

\* download_file_now returns 0: the original URL is not tried.
WrongType(p) ==
  LET n == name[p] IN
  /\ Fetching(p) /\ n \in incomplete
  /\ incomplete' = incomplete \ {n}
  /\ extckerr' = extckerr \union {n}
  /\ UNCHANGED file /\ AfterFetch(p, n)
  /\ moved' = moved \ {p}
  /\ UNCHANGED <<cksumerr, lock, cur, mode, name, dat, runs, faults, history>>

\* curl returns an error, or no data.  If another process has moved the
\* .incomplete file away, what curl still wrote went into the moved file.
FetchFails(p) ==
  LET f == cur[p]  n == name[p]
      left == IF n \in incomplete THEN {incomplete, incomplete \ {n}}
                                  ELSE {incomplete} IN
  /\ Fetching(p)
  /\ \/ UNCHANGED file
     \/ p \in moved /\ file[n] # "none" /\ Put(n, "bad")
  /\ moved' = moved \ {p}
  /\ \E inc \in left :
       IF At(p, "mirror")
       THEN /\ Goto(p, "orig") /\ UNCHANGED status
            /\ name' = [name EXCEPT ![p] = Local(f)]
            /\ incomplete' = inc \union {Local(f)}
       ELSE /\ AfterFetch(p, n) /\ UNCHANGED name
            /\ incomplete' = inc
  /\ UNCHANGED <<errors, lock, cur, mode, dat, runs, faults, history>>

-----------------------------------------------------------------------------
\* gunzip < $gzfile > src/down.$$.dat, which is not tested: the disk is full,
\* src/ is not there, or Cleanup removes what is being written.
Uncompress(p) ==
  /\ At(p, "unpack")
  /\ Goto(p, "sum")
  /\ \/ /\ dat' = [dat EXCEPT ![p] = file[name[p]]]
        /\ UNCHANGED <<unread, faults>>
     \/ /\ \E c \in {"none", "part"} : dat' = [dat EXCEPT ![p] = c]
        /\ unread' = unread \union {cur[p]} /\ Fault
  /\ UNCHANGED <<files, lock, process, name, status, runs, raced, late, faulty,
                 unlocked, spoilt>>

\* Variant: a file with the final name is not checked.
SumIsRightOrFinal(p) ==
  cur[p] \in Sums => dat[p] = "good" \/ name[p] = Tar(cur[p])

\* rm -f src/down.$$.dat
RemoveDat(p) == dat' = [dat EXCEPT ![p] = "none"]

SumIsRight(p) == cur[p] \in Sums => dat[p] = "good"

\* cksum_chk fails: the file becomes .cksum-err.  download_file returns 0.
CksumError(p) ==
  LET n == name[p] IN
  /\ At(p, "sum") /\ ~SumIsRight(p)
  /\ IF file[n] = "none" THEN UNCHANGED <<file, cksumerr>>
     ELSE Put(n, "none") /\ cksumerr' = cksumerr \union {n}
  /\ Finish(p, 0) /\ RemoveDat(p)
  /\ UNCHANGED <<incomplete, extckerr, lock, process, name, runs, faults, history>>

\* A fetched file is converted, one with its final name is done.
CksumRight(p) ==
  /\ At(p, "sum") /\ SumIsRight(p)
  /\ IF name[p] = Tar(cur[p]) THEN Finish(p, 0) /\ RemoveDat(p)
     ELSE Goto(p, "open") /\ UNCHANGED <<status, dat>>
  /\ UNCHANGED <<files, lock, process, name, runs, faults, history>>

\* Variant: the fetched file is removed before it is converted.
OpenFinalRemoves(p) ==
  /\ At(p, "open")
  /\ file' = [file EXCEPT ![Tar(cur[p])] = "part", ![name[p]] = "none"]
  /\ Goto(p, "bzip")
  /\ UNCHANGED <<incomplete, errors, lock, process, work, runs, faults, history>>

\* The shell opens < src/down.$$.dat > $bzfile for bzip2; without the first
\* one bzip2 is not run.
OpenFinal(p) ==
  /\ At(p, "open")
  /\ IF dat[p] = "none" THEN Goto(p, "rmgz") /\ UNCHANGED file
     ELSE Goto(p, "bzip") /\ Put(Tar(cur[p]), "part")
  /\ UNCHANGED <<incomplete, errors, lock, process, work, runs, faults, history>>

\* bzip2 < src/down.$$.dat > $bzfile: the disk may be full.
Bzip(p) ==
  LET f == cur[p] IN
  /\ At(p, "bzip")
  /\ \/ Put(Tar(f), dat[p]) /\ UNCHANGED <<spoilt, faults>>
     \/ /\ \E c \in {"none", "part"} : Put(Tar(f), c)
        /\ spoilt' = spoilt \union {f} /\ Fault
  /\ Goto(p, "rmgz")
  /\ UNCHANGED <<incomplete, errors, lock, process, work, runs, raced, late,
                 faulty, unlocked, unread>>

\* ; rm -f $gzfile, whether bzip2 succeeded or not
RemoveFetched(p) ==
  /\ At(p, "rmgz")
  /\ Put(name[p], "none")
  /\ Finish(p, 0) /\ RemoveDat(p)
  /\ UNCHANGED <<incomplete, errors, lock, process, name, runs, faults, history>>

Unlock(p) ==
  /\ At(p, "done")
  /\ lock' = lock \ {cur[p]}
  /\ Return(p, status[p])
  /\ UNCHANGED <<files, mode, moved, runs, faults, history>>

-----------------------------------------------------------------------------
\* Ctrl-C inside: the trap removes the lock file and the script goes on; the
\* command that runs is killed, and the sum that cksum did not print is wrong.
\* Outside, the script ends.
Interrupt(p) ==
  /\ Running(p) /\ Fault
  /\ IF pc[p] \in Inside
     THEN /\ lock' = lock \ {cur[p]}
          /\ interrupted' = interrupted \union {cur[p]}
          /\ pc' = [pc EXCEPT ![p] = CASE @ = "unpack" -> "sum"
                                       [] @ = "bzip"   -> "rmgz"
                                       [] OTHER        -> @]
          /\ dat' = [dat EXCEPT ![p] =
                       IF At(p, "unpack") \/ (At(p, "sum") /\ cur[p] \in Sums)
                       THEN "part" ELSE @]
          /\ UNCHANGED <<name, status>>
     ELSE /\ Goto(p, "end")
          /\ status' = [status EXCEPT ![p] = 1]
          /\ UNCHANGED <<name, dat, lock, interrupted>>
  /\ UNCHANGED <<files, process, runs, raced, late, killed, failures>>

\* kill -9 or a crash of the host: nothing is removed.
Killed(p) ==
  /\ Running(p) /\ Fault
  /\ Goto(p, "end")
  /\ status' = [status EXCEPT ![p] = 1]
  /\ name' = [name EXCEPT ![p] = Tar(1)] /\ dat' = [dat EXCEPT ![p] = "none"]
  /\ killed' = IF pc[p] \in Inside THEN killed \union {cur[p]} ELSE killed
  /\ moved' = moved \ {p}
  /\ UNCHANGED <<files, lock, cur, mode, runs, raced, late, interrupted,
                 failures>>

\* Cleanup -download removes the files that are not in Download -list: all but
\* the final ones.  Users are told to remove .cksum-err and .extck-err files.
Clean(n) ==
  /\ \/ /\ n[2] = "fetched" /\ file[n] # "none"
        /\ Put(n, "none") /\ UNCHANGED <<incomplete, errors>>
     \/ n \in incomplete /\ incomplete' = incomplete \ {n}
        /\ UNCHANGED <<file, errors>>
     \/ n \in cksumerr /\ cksumerr' = cksumerr \ {n}
        /\ UNCHANGED <<file, incomplete, extckerr>>
     \/ n \in extckerr /\ extckerr' = extckerr \ {n}
        /\ UNCHANGED <<file, incomplete, cksumerr>>
  /\ UNCHANGED <<lock, pc, process, work, runs, faults, history>>

\* Cleanup removes src/ (only a build.pid in it would stop it), one file after
\* the other: here a lock file, there the unpacked data of a download.
CleanLock(f) ==
  /\ f \in lock /\ Fault
  /\ lock' = lock \ {f}
  /\ unlocked' = unlocked \union {f}
  /\ UNCHANGED <<files, pc, process, work, runs, raced, late, faulty, unread,
                 spoilt>>

CleanDat(p) ==
  /\ At(p, "sum") \/ At(p, "open")
  /\ Fault
  /\ dat' = [dat EXCEPT ![p] = "none"]
  /\ unread' = unread \union {cur[p]}
  /\ UNCHANGED <<files, lock, pc, process, name, status, runs, raced, late,
                 faulty, unlocked, spoilt>>

Step(p) ==
  \/ TestFile(p) \/ TestLock(p) \/ TakeLock(p)
  \/ CheckOnly(p) \/ AlreadyDownloaded(p) \/ Refuse(p)
  \/ Alternative(p) \/ StartFetch(p)
  \/ Arrives(p) \/ WrongType(p) \/ FetchFails(p)
  \/ Uncompress(p) \/ CksumError(p) \/ CksumRight(p)
  \/ OpenFinal(p) \/ Bzip(p) \/ RemoveFetched(p) \/ Unlock(p)

Next ==
  \/ \E p \in Procs :
       Step(p) \/ Start(p) \/ Interrupt(p) \/ Killed(p) \/ CleanDat(p)
  \/ \E n \in Names : Clean(n)
  \/ \E f \in Files : CleanLock(f)

Spec == Init /\ [][Next]_vars

FairSpec == Spec /\ \A p \in Procs : WF_vars(Step(p))
-----------------------------------------------------------------------------
Working(p, f) == pc[p] \in Inside /\ cur[p] = f

\* Two may have been in f, or the only one did not get through.
Undisturbed(f) ==
  f \notin raced \union interrupted \union unlocked \union killed

\* Two processes are in the same file only if one of them passed the test of
\* the lock file before the other one wrote it, or the lock file was removed by
\* Ctrl-C or by Cleanup, which clears src/ under running downloads, or could
\* not be written, which nobody tests.
OverlapOnlyByRace ==
  \A p, q \in Procs : \A f \in Files :
    p # q /\ Working(p, f) /\ Working(q, f) =>
      f \in raced \union interrupted \union unlocked

\* Every way out of download_file removes the lock file: it is left behind by
\* killed processes only.
LockReleased ==
  \A f \in lock : f \in killed \/ \E p \in Procs : Working(p, f)

\* What is found under its final name when nobody works on it, and will be
\* built from (Build-Pkg looks for the name only), has the right checksum,
\* whatever was unpacked in full or not.  Not so once bzip2 failed: Download
\* does not test it, and a truncated file has the final name.
FinalIsVerified ==
  \A f \in Sums :
    Undisturbed(f) /\ f \notin spoilt /\ (\A p \in Procs : ~Working(p, f)) =>
      file[Tar(f)] \in {"none", "good"}

\* A right file under one of its names stays there until it is under the final
\* one: no step of Download loses it, only Cleanup does.  That does not hold of
\* a file that was completed between the test for it and the lock; of one that
\* was not unpacked in full, whose sum is wrong then; and of one bzip2 failed
\* for, since the fetched file is removed all the same.
GoodFileStays ==
  [][\A f \in Sums :
       /\ Undisturbed(f) /\ f \notin late \union unread \union spoilt
       /\ \E n \in {Local(f), Tar(f)} : file[n] = "good"
       /\ \A n \in Names : ~Clean(n)
       => \E n \in {Local(f), Tar(f)} : file'[n] = "good"]_vars

\* A download ends, whatever it finds: it does not wait for the lock.
DownloadEnds == \A p \in Procs : Running(p) ~> At(p, "end")

\* "The download for package $package failed!" (Emerge-Pkg:278) is what a
\* missing file leads to: a download that returns 0 leaves every file.
ExitTellsFailure ==
  \A p \in Procs :
    At(p, "end") /\ status[p] = 0 /\ ~Checking(p) =>
      \A f \in Files : file[Tar(f)] # "none"
=============================================================================
