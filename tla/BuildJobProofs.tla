--------------------------- MODULE BuildJobProofs ---------------------------
(***************************************************************************)
(* Proofs about the build daemons, for any number of daemons, jobs, offers *)
(* and deaths: the right to build a job is handed out at most once for     *)
(* each time it is offered.                                                *)
(*                                                                         *)
(* The argument follows the right.  It is q.todo while q is on offer, and  *)
(* the position of the daemon after the rename; the rename turns one into  *)
(* the other in one step.  Whoever has it, q was built less often than it  *)
(* was offered (RightIsUnused).                                            *)
(***************************************************************************)
EXTENDS BuildJob, TLAPS

\* Where line[d] is a line of queue.txt and not its end.
AtLine == {"scan_lock", "test", "claim", "build", "unlock", "unjob"}

LineInv == \A d \in Daemons : pc[d] \in AtLine => line[d] \in Jobs

\* What is on offer is described.
OfferDescribed == todo \subseteq job

\* The right to build a job that is on offer, or just claimed, was not used.
RightIsUnused ==
  \A q \in Jobs :
    (q \in todo \/ \E d \in Daemons : pc[d] = "build" /\ line[d] = q)
      => builds[q] < offers[q]

IInv == OfferDescribed /\ FilesOfOwner /\ MutualExclusion
        /\ RightIsUnused /\ BuiltOncePerOffer

-----------------------------------------------------------------------------
LEMMA TypeInit == Init => TypeOK /\ LineInv
BY BuildJobOptions DEF Init, TypeOK, LineInv, AtLine, PCs, Jobs

\* A daemon's step, the master's and the user's keep the types, and a daemon
\* that has a line in hand has not read past the end of queue.txt.
LEMMA TypeStep == TypeOK /\ LineInv /\ [Next]_vars => TypeOK' /\ LineInv'
<1> SUFFICES ASSUME TypeOK, LineInv, [Next]_vars
             PROVE  TypeOK' /\ LineInv'
  OBVIOUS
<1> USE BuildJobOptions DEF TypeOK, LineInv, AtLine, PCs, Goto, dir, history
<1>1. ASSUME NEW q \in Jobs, Offer(q)
      PROVE  TypeOK' /\ LineInv'
  BY <1>1 DEF Offer, Jobs
<1>2. CASE Close
  BY <1>2 DEF Close
<1>3. ASSUME NEW d \in Daemons, Stop(d)
      PROVE  TypeOK' /\ LineInv'
  BY <1>3 DEF Stop
<1>4. ASSUME NEW d \in Daemons, Die(d)
      PROVE  TypeOK' /\ LineInv'
  BY <1>4 DEF Die
<1>5. ASSUME NEW d \in Daemons, Daemon(d)
      PROVE  TypeOK' /\ LineInv'
  <2>1. CASE Loop(d)
    BY <2>1 DEF Loop, Jobs
  <2>2. CASE Leave(d)
    BY <2>2 DEF Leave
  <2>3. CASE ScanJob(d)
    <3>1. line[d] \in Jobs /\ line[d] + 1 \in 1 .. (NumJobs + 1)
      BY <2>3 DEF ScanJob, Reading, Jobs
    <3>2. CASE line[d] \in job
      BY <2>3, <3>1, <3>2 DEF ScanJob, Reading
    <3>3. CASE line[d] \notin job
      BY <2>3, <3>1, <3>3 DEF ScanJob, Reading, NextLine
    <3> QED
      BY <3>2, <3>3
  <2>4. CASE ScanLock(d)
    <3>1. line[d] \in Jobs /\ line[d] + 1 \in 1 .. (NumJobs + 1)
      BY <2>4 DEF ScanLock, Jobs
    <3> QED
      BY <2>4, <3>1 DEF ScanLock, NextLine
  <2>5. CASE Sleep(d)
    BY <2>5 DEF Sleep
  <2>6. CASE TestJob(d)
    BY <2>6 DEF TestJob
  <2>7. CASE Claim(d)
    BY <2>7 DEF Claim
  <2>8. CASE Build(d)
    BY <2>8 DEF Build
  <2>9. CASE RemoveLock(d)
    BY <2>9 DEF RemoveLock
  <2>10. CASE RemoveJob(d)
    BY <2>10 DEF RemoveJob
  <2> QED
    BY <1>5, <2>1, <2>2, <2>3, <2>4, <2>5, <2>6, <2>7, <2>8, <2>9, <2>10 DEF Daemon
<1>6. CASE UNCHANGED vars
  BY <1>6 DEF vars
<1> QED
  BY <1>1, <1>2, <1>3, <1>4, <1>5, <1>6 DEF Next

\* Every variable of the daemons' model has its type in every state.
THEOREM TypeCorrect == Spec => [](TypeOK /\ LineInv)
<1>1. Init => TypeOK /\ LineInv
  BY TypeInit
<1>2. (TypeOK /\ LineInv) /\ [Next]_vars => (TypeOK /\ LineInv)'
  BY TypeStep
<1> QED
  BY <1>1, <1>2, PTL DEF Spec

-----------------------------------------------------------------------------
LEMMA IInit == Init => IInv
BY BuildJobOptions
   DEF Init, IInv, OfferDescribed, FilesOfOwner, MutualExclusion, RightIsUnused,
       BuiltOncePerOffer, Owns, Jobs

\* No step of a daemon, of the master or of the user gives the right to build
\* a job to a second daemon, or uses it twice.
LEMMA IStep == TypeOK /\ LineInv /\ IInv /\ [Next]_vars => IInv'
<1> SUFFICES ASSUME TypeOK, LineInv, IInv, [Next]_vars
             PROVE  IInv'
  OBVIOUS
<1> USE BuildJobOptions
    DEF TypeOK, LineInv, AtLine, IInv, OfferDescribed, FilesOfOwner, MutualExclusion,
        RightIsUnused, BuiltOncePerOffer, Owns, Goto, dir, history
<1>1. ASSUME NEW q \in Jobs, Offer(q)
      PROVE  IInv'
  BY <1>1 DEF Offer
<1>2. CASE Close
  BY <1>2 DEF Close
<1>3. ASSUME NEW d \in Daemons, Stop(d)
      PROVE  IInv'
  BY <1>3 DEF Stop
<1>4. ASSUME NEW d \in Daemons, Die(d)
      PROVE  IInv'
  BY <1>4 DEF Die
<1>5. ASSUME NEW d \in Daemons, Daemon(d)
      PROVE  IInv'
  <2>1. CASE Loop(d)
    BY <2>1 DEF Loop
  <2>2. CASE Leave(d)
    BY <2>2 DEF Leave
  <2>3. CASE ScanJob(d)
    BY <2>3 DEF ScanJob, Reading, NextLine
  <2>4. CASE ScanLock(d)
    BY <2>4 DEF ScanLock, NextLine
  <2>5. CASE Sleep(d)
    BY <2>5 DEF Sleep
  <2>6. CASE TestJob(d)
    BY <2>6 DEF TestJob
  <2>7. CASE Claim(d)
    BY <2>7 DEF Claim
  <2>8. CASE Build(d)
    BY <2>8 DEF Build
  <2>9. CASE RemoveLock(d)
    BY <2>9 DEF RemoveLock
  <2>10. CASE RemoveJob(d)
    BY <2>10 DEF RemoveJob
  <2> QED
    BY <1>5, <2>1, <2>2, <2>3, <2>4, <2>5, <2>6, <2>7, <2>8, <2>9, <2>10 DEF Daemon
<1>6. CASE UNCHANGED vars
  BY <1>6 DEF vars
<1> QED
  BY <1>1, <1>2, <1>3, <1>4, <1>5, <1>6 DEF Next

LEMMA Invariance == Spec => [](TypeOK /\ LineInv /\ IInv)
<1>1. Init => TypeOK /\ LineInv /\ IInv
  BY TypeInit, IInit
<1>2. (TypeOK /\ LineInv /\ IInv) /\ [Next]_vars => (TypeOK /\ LineInv /\ IInv)'
  BY TypeStep, IStep
<1> QED
  BY <1>1, <1>2, PTL DEF Spec

\* Build-Job's locking works: of any number of daemons that saw a job free at
\* the same time, one builds it, and no one else touches its files until it
\* has removed them.
THEOREM OneBuilder == Spec => []MutualExclusion
<1>1. IInv => MutualExclusion
  BY DEF IInv
<1> QED
  BY <1>1, Invariance, PTL

\* The files of a job that is being built stay as its builder needs them.
THEOREM OwnerHasFiles == Spec => []FilesOfOwner
<1>1. IInv => FilesOfOwner
  BY DEF IInv
<1> QED
  BY <1>1, Invariance, PTL

\* However often builds die and jobs are offered again, no job is built more
\* often than it was offered.
THEOREM OneBuildPerOffer == Spec => []BuiltOncePerOffer
<1>1. IInv => BuiltOncePerOffer
  BY DEF IInv
<1> QED
  BY <1>1, Invariance, PTL
=============================================================================
