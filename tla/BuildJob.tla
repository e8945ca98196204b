------------------------------ MODULE BuildJob ------------------------------
(***************************************************************************)
(* scripts/Build-Job: the daemons, on several hosts that share the queue   *)
(* directory, that take jobs and build them.  A job q is three files:      *)
(*   q.job   what to build        q.todo  the right to build it            *)
(*   q.lock  who builds it                                                 *)
(* A daemon claims a job by renaming q.todo to q.lock; of several that     *)
(* try, one succeeds.  When the job is done it removes q.lock and q.job.   *)
(*                                                                         *)
(* The daemon loop (-xdaemon) and the Build-Job process it runs for one    *)
(* job are one process here: the loop waits for its child.  The master     *)
(* that fills the queue directory is external.  A job is identified with   *)
(* its line in queue.txt.                                                  *)
(***************************************************************************)
EXTENDS Naturals

CONSTANTS
  Daemons,        \* the daemon processes
  NumJobs,        \* lines of queue.txt
  MaxOffers,      \* how often the master may offer a job
  MaxDeaths       \* how many builds may die

Jobs == 1 .. NumJobs

ASSUME BuildJobOptions ==
  /\ NumJobs \in Nat
  /\ MaxOffers \in Nat
  /\ MaxDeaths \in Nat

VARIABLES
  job, todo, lock,   \* the jobs that have a file of this kind
  open,              \* queue.txt and use_build_job_daemon exist
  stat,              \* the daemons whose .stat file exists
  pc,                \* where each daemon is
  line,              \* the job a daemon looks at, or builds
  offers,            \* history: how often each job was offered
  builds,            \* history: how often each job was built
  deaths

dir == <<job, todo, lock>>
vars == <<dir, open, stat, pc, line, offers, builds, deaths>>

PCs == {"loop", "scan", "scan_lock", "test", "claim", "build", "unlock",
        "unjob", "ended"}

TypeOK ==
  /\ job \subseteq Jobs /\ todo \subseteq Jobs /\ lock \subseteq Jobs
  /\ open \in BOOLEAN
  /\ stat \subseteq Daemons
  /\ pc \in [Daemons -> PCs]
  /\ line \in [Daemons -> 1 .. (NumJobs + 1)]
  /\ offers \in [Jobs -> 0 .. MaxOffers]
  /\ builds \in [Jobs -> Nat]
  /\ deaths \in 0 .. MaxDeaths

Init ==
  /\ job = {} /\ todo = {} /\ lock = {}
  /\ open = TRUE
  /\ stat = Daemons
  /\ pc = [d \in Daemons |-> "loop"]
  /\ line = [d \in Daemons |-> 1]
  /\ offers = [q \in Jobs |-> 0]
  /\ builds = [q \in Jobs |-> 0]
  /\ deaths = 0

-----------------------------------------------------------------------------
Goto(d, s) == pc' = [pc EXCEPT ![d] = s]
history == <<offers, builds, deaths>>

\* External: the master offers a job none of whose files is there.
Offer(q) ==
  /\ open /\ offers[q] < MaxOffers
  /\ q \notin job \union todo \union lock
  /\ job' = job \union {q} /\ todo' = todo \union {q}
  /\ offers' = [offers EXCEPT ![q] = @ + 1]
  /\ UNCHANGED <<lock, open, stat, pc, line, builds, deaths>>

\* External: the master removes the queue when all jobs are gone.
Close ==
  /\ open /\ job = {}
  /\ open' = FALSE
  /\ UNCHANGED <<dir, stat, pc, line, history>>

\* External: the user stops a daemon by removing its .stat file.
Stop(d) ==
  /\ d \in stat
  /\ stat' = stat \ {d}
  /\ UNCHANGED <<dir, open, pc, line, history>>

\* while the queue and the daemon's .stat file are there: read queue.txt.
Loop(d) ==
  /\ pc[d] = "loop" /\ open /\ d \in stat
  /\ Goto(d, "scan")
  /\ line' = [line EXCEPT ![d] = 1]
  /\ UNCHANGED <<dir, open, stat, history>>

Leave(d) ==
  /\ pc[d] = "loop" /\ ~(open /\ d \in stat)
  /\ Goto(d, "ended")
  /\ stat' = stat \ {d}
  /\ UNCHANGED <<dir, open, line, history>>

\* Variant: the end of the file is not noticed.
ReadingOn(d) == pc[d] = "scan"

Reading(d) == pc[d] = "scan" /\ line[d] <= NumJobs
NextLine(d) == line' = [line EXCEPT ![d] = @ + 1]

\* [ -f q.job -a ! -f q.lock ]: the two tests are two system calls.
ScanJob(d) ==
  /\ Reading(d)
  /\ IF line[d] \in job THEN Goto(d, "scan_lock") /\ UNCHANGED line
                        ELSE NextLine(d) /\ UNCHANGED pc
  /\ UNCHANGED <<dir, open, stat, history>>

ScanLock(d) ==
  /\ pc[d] = "scan_lock"
  /\ IF line[d] \in lock THEN Goto(d, "scan") /\ NextLine(d)
                         ELSE Goto(d, "test") /\ UNCHANGED line
  /\ UNCHANGED <<dir, open, stat, history>>

\* Nothing found: sleep 3.
Sleep(d) ==
  /\ pc[d] = "scan" /\ line[d] > NumJobs
  /\ Goto(d, "loop")
  /\ UNCHANGED <<dir, open, stat, line, history>>

\* Build-Job q: "No such job" if q.job has been removed meanwhile.
TestJob(d) ==
  /\ pc[d] = "test"
  /\ Goto(d, IF line[d] \in job THEN "claim" ELSE "loop")
  /\ UNCHANGED <<dir, open, stat, line, history>>

\* Variants: cp q.todo q.lock; touch q.lock, unless it is there.
ClaimByCopy(d) ==
  /\ pc[d] = "claim"
  /\ IF line[d] \in todo THEN lock' = lock \union {line[d]} /\ Goto(d, "build")
                         ELSE Goto(d, "loop") /\ UNCHANGED lock
  /\ UNCHANGED <<job, todo, open, stat, line, history>>
ClaimByLock(d) ==
  /\ pc[d] = "claim"
  /\ IF line[d] \notin lock THEN lock' = lock \union {line[d]} /\ Goto(d, "build")
                            ELSE Goto(d, "loop") /\ UNCHANGED lock
  /\ todo' = todo \ {line[d]}
  /\ UNCHANGED <<job, open, stat, line, history>>

\* mv q.todo q.lock; "Job locked by other build proc" if it fails.
Claim(d) ==
  /\ pc[d] = "claim"
  /\ IF line[d] \in todo
     THEN /\ todo' = todo \ {line[d]}
          /\ lock' = lock \union {line[d]}
          /\ Goto(d, "build")
     ELSE Goto(d, "loop") /\ UNCHANGED <<todo, lock>>
  /\ UNCHANGED <<job, open, stat, line, history>>

\* Source q.job, write q.lock, and build the package.
Build(d) ==
  /\ pc[d] = "build"
  /\ lock' = lock \union {line[d]}
  /\ builds' = [builds EXCEPT ![line[d]] = @ + 1]
  /\ Goto(d, "unlock")
  /\ UNCHANGED <<job, todo, open, stat, line, offers, deaths>>

\* Variant: q.job is never removed.
JobStays(d) ==
  /\ pc[d] = "unjob"
  /\ Goto(d, "loop")
  /\ UNCHANGED <<dir, open, stat, line, history>>

\* rm -f q.lock q.job
RemoveLock(d) ==
  /\ pc[d] = "unlock"
  /\ lock' = lock \ {line[d]}
  /\ Goto(d, "unjob")
  /\ UNCHANGED <<job, todo, open, stat, line, history>>

RemoveJob(d) ==
  /\ pc[d] = "unjob"
  /\ job' = job \ {line[d]}
  /\ Goto(d, "loop")
  /\ UNCHANGED <<todo, lock, open, stat, line, history>>

\* The Build-Job process exits in pkgloop_package, after an error that is not
\* to be continued after, or is killed: the daemon's loop goes on, the files
\* of the job stay.
Die(d) ==
  /\ deaths < MaxDeaths
  /\ pc[d] \in {"build", "unlock", "unjob"}
  /\ deaths' = deaths + 1
  /\ Goto(d, "loop")
  /\ UNCHANGED <<dir, open, stat, line, offers, builds>>

Daemon(d) ==
  \/ Loop(d) \/ Leave(d) \/ ScanJob(d) \/ ScanLock(d) \/ Sleep(d) \/ TestJob(d)
  \/ Claim(d) \/ Build(d) \/ RemoveLock(d) \/ RemoveJob(d)

Next ==
  \/ \E q \in Jobs : Offer(q)
  \/ Close
  \/ \E d \in Daemons : Daemon(d) \/ Stop(d) \/ Die(d)

Spec == Init /\ [][Next]_vars

\* A daemon keeps running; only its builds may die.
FairSpec == Spec /\ \A d \in Daemons : WF_vars(Daemon(d))

-----------------------------------------------------------------------------
Owns(d, q) == pc[d] \in {"build", "unlock", "unjob"} /\ line[d] = q

\* Two daemons never work on the same job, from its claim to the removal of
\* its last file, although all of them may have seen it free.
MutualExclusion ==
  \A d, e \in Daemons : \A q \in Jobs : Owns(d, q) /\ Owns(e, q) => d = e

\* A job is built at most once for each time it is offered.
BuiltOncePerOffer == \A q \in Jobs : builds[q] <= offers[q]

\* The job being built is described by its q.job file, is locked, and is not
\* on offer, so that nobody removes or replaces its files.
FilesOfOwner ==
  \A d \in Daemons : \A q \in Jobs : Owns(d, q) =>
    /\ q \in job /\ q \notin todo
    /\ pc[d] \in {"build", "unlock"} => q \in lock

\* The queue is emptied, unless a build dies or there is no daemon left,
\* although daemons that lose a race, or see a job whose files are just being
\* removed, do nothing.
JobsFinish ==
  \A q \in Jobs : q \in job ~> (q \notin job \/ stat = {} \/ deaths > 0)
=============================================================================
