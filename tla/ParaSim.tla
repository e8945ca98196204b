------------------------------ MODULE ParaSim ------------------------------
(***************************************************************************)
(* The simulation of a parallel build: scripts/parasim2.pl, started by     *)
(* scripts/Create-ParaSim -jobs.  It asks Create-PkgQueue for jobs, with a *)
(* directory of log files of its own in which it plays the builds, and     *)
(* lets the time go on to the end of the next one.  Without -jobs,         *)
(* Create-ParaSim counts how many jobs are free after each single build.   *)
(***************************************************************************)
EXTENDS PkgQueue, FiniteSets, FiniteSetsExt, Functions

CONSTANTS
  Parallel,   \* numbers of parallel jobs that are asked for; 0: Create-ParaSim itself
  BuildTimes  \* build time of a job, as its line of the queue has it

VARIABLES
  simlogs,  \* the log files in the directory of the simulation
  maxjobs,  \* number of parallel jobs
  freejobs, \* idle ones
  jobends,  \* of each job that is running, the time of its end
  now,      \* the time
  simstep,  \* "finish", "queue", "advance", "done"
  starts    \* history: how often each job was started

psVars == <<simlogs, maxjobs, freejobs, jobends, now, simstep, starts>>

With(files, js, file) == [j \in Jobs |-> IF j \in js THEN {file} ELSE files[j]]

--------------------------------------------------------------------------
(* A job that has run for its time: .out goes, .log comes. *)
FinishJobs ==
  /\ simstep = "finish"
  /\ LET over == {j \in DOMAIN jobends : jobends[j] <= now} IN
     /\ simlogs' = With(simlogs, over, "log")
     /\ freejobs' = freejobs + Cardinality(over)
     /\ jobends' = Restrict(jobends, DOMAIN jobends \ over)
  /\ simstep' = "queue"
  /\ UNCHANGED <<maxjobs, now, starts>>

(* The lines of the queue, which sort puts in any order, until no job is idle. *)
StartJobs(js) ==
  /\ simstep = "queue" /\ maxjobs > 0
  /\ js \subseteq Queue(simlogs)
  /\ Cardinality(js) = Min({freejobs, Cardinality(Queue(simlogs))})
  /\ simlogs' = With(simlogs, js, "out")
  /\ jobends' = [j \in DOMAIN jobends \cup js |->
                   IF j \in js THEN now + BuildTimes[j] + 1 ELSE jobends[j]]
  /\ freejobs' = freejobs - Cardinality(js)
  /\ starts' = [j \in Jobs |-> IF j \in js THEN starts[j] + 1 ELSE starts[j]]
  /\ simstep' = "advance"
  /\ UNCHANGED <<maxjobs, now>>

Advance ==
  /\ simstep = "advance"
  /\ IF jobends = <<>> THEN simstep' = "done" /\ UNCHANGED now
     ELSE simstep' = "finish" /\ now' = Min(Range(jobends))
  /\ UNCHANGED <<simlogs, maxjobs, freejobs, jobends, starts>>

(* Create-ParaSim without -jobs: the first line of the sorted queue is built. *)
BuildNext(j) ==
  /\ simstep = "queue" /\ maxjobs = 0
  /\ j \in Queue(simlogs)
  /\ simlogs' = With(simlogs, {j}, "log")
  /\ starts' = [starts EXCEPT ![j] = @ + 1]
  /\ UNCHANGED <<maxjobs, freejobs, jobends, now, simstep>>

QueueIsEmpty ==
  /\ simstep = "queue" /\ maxjobs = 0 /\ Queue(simlogs) = {}
  /\ simstep' = "done"
  /\ UNCHANGED <<simlogs, maxjobs, freejobs, jobends, now, starts>>

Init ==
  /\ maxjobs \in Parallel /\ freejobs = maxjobs
  /\ simlogs = [j \in Jobs |-> {}] /\ jobends = <<>> /\ now = 0
  /\ simstep = IF maxjobs = 0 THEN "queue" ELSE "finish"
  /\ starts = [j \in Jobs |-> 0]

Next ==
  \/ FinishJobs \/ Advance \/ QueueIsEmpty
  \/ \E js \in SUBSET Jobs : StartJobs(js)
  \/ \E j \in Jobs : BuildNext(j)

Spec == Init /\ [][Next]_psVars

--------------------------------------------------------------------------
TypeOK ==
  /\ simlogs \in [Jobs -> SUBSET {"out", "log"}]
  /\ freejobs \in 0..maxjobs /\ now \in Nat
  /\ DOMAIN jobends \subseteq Jobs
  /\ simstep \in {"finish", "queue", "advance", "done"}

Total == SumFunctionOnSet([j \in Jobs |-> BuildTimes[j] + 1], Jobs)

(* What the curves of Create-ParaSim rest on (parasim2.pl:45-73), whatever    *)
(* the order in which free jobs are taken: the simulated build stops only     *)
(* when every job was built, each one once; its length lies between that of a *)
(* build without any waiting and that of a build one by one; and two jobs are *)
(* built at a time only in stage 9, where they do not depend on each other.   *)
SimulationIsRight ==
  /\ simstep = "done" =>
       /\ \A j \in Jobs : simlogs[j] = {"log"} /\ starts[j] = 1
       /\ maxjobs > 0 => now <= Total /\ Total <= now * maxjobs
  /\ freejobs + Cardinality(DOMAIN jobends) = maxjobs
  /\ \A j \in DOMAIN jobends : simlogs[j] = {"out"} /\ jobends[j] <= now + BuildTimes[j] + 1
  /\ \A j, k \in DOMAIN jobends : j # k => j[1] = 9 /\ k[1] = 9
=============================================================================
