--------------------------- MODULE ProgramsProofs ---------------------------
(***************************************************************************)
(* Proofs about three scripts (the lock of Config, the time stamp of       *)
(* Build-Tools, the directories and mounts of builds), for any number of   *)
(* processes, and from them, and from the theorems about the bonding tool  *)
(* and the threads and the collector of Lua, those of module Programs.     *)
(***************************************************************************)
EXTENDS Programs, FiniteSetTheorems, TLAPS

--------------------------------------------------------------------------
(***************************************************************************)
(* For any number of users and configurations: the lock of Config lets one *)
(* of them write, as long as nobody gets the lock of a removed file.       *)
(***************************************************************************)
LockSteps == Lock!InLock \cup {"idle", "flock", "exit"}

(* The steps of a command (Config:84-111). *)
LEMMA LockStepNames ==
  /\ Lock!InLock \subseteq LockSteps /\ {"idle", "flock", "exit"} \subseteq LockSteps
  /\ {"pid", "mkdir", "dialog", "rmlib", "make", "install", "enable", "load",
      "read", "cut", "write", "ask", "unlock"} \subseteq Lock!InLock
  /\ "idle" \notin Lock!InLock /\ "flock" \notin Lock!InLock /\ "exit" \notin Lock!InLock
  /\ "idle" # "exit" /\ "idle" # "flock" /\ "flock" # "exit"
BY DEF LockSteps, Lock!InLock

(* A file is held by one user; who is inside holds the file of the name    *)
(* lock.pid, or the configuration is stale.                                *)
LockInv ==
  /\ created \in Nat
  /\ configOf \in [Users -> Configs]
  /\ clPc \in [Users -> LockSteps] /\ lockPid \in [Configs -> Nat] /\ opened \in [Users -> Nat]
  /\ \A u \in Users : clPc[u] # "idle" => opened[u] # 0
  /\ \A u, v \in Users : Lock!Holds(u) /\ Lock!Holds(v) /\ opened[u] = opened[v] => u = v
  /\ \A u \in Users : clPc[u] \in Lock!InLock => opened[u] = lockPid[configOf[u]] \/ configOf[u] \in stale

(* Init has nobody inside (Config:84). *)
LEMMA InitLock == Lock!Init => LockInv
BY LockStepNames DEF Lock!Init, LockInv, Lock!Holds

(* A step of u from inside to inside or to the end, or from the end, that    *)
(* leaves the files and the history alone (Config:88-111).                   *)
LEMMA StepInside ==
  ASSUME LockInv, NEW u \in Users, NEW l \in LockSteps,
         Lock!Goto(u, l), clPc[u] # "idle",
         l # "idle" => Lock!Holds(u),
         l \in Lock!InLock => clPc[u] \in Lock!InLock,
         UNCHANGED <<configOf, lockPid, opened, created, stale>>
  PROVE  LockInv'
<1>1. clPc' \in [Users -> LockSteps] BY DEF LockInv, Lock!Goto
<1>2. \A v \in Users : Lock!Holds(v)' => Lock!Holds(v)
  BY LockStepNames DEF LockInv, Lock!Goto, Lock!Holds
<1>3. \A v \in Users : (clPc[v] \in Lock!InLock)' => clPc[v] \in Lock!InLock
  BY LockStepNames DEF LockInv, Lock!Goto
<1>4. \A v \in Users : clPc'[v] # "idle" => clPc[v] # "idle"
  BY DEF LockInv, Lock!Goto
<1> QED BY <1>1, <1>2, <1>3, <1>4 DEF LockInv, Lock!Holds

(* A command ends, and closes the file (Config:112). *)
LEMMA StepToEnd ==
  ASSUME LockInv, NEW u \in Users, Lock!Exit(u) \/ Lock!Kill(u) PROVE LockInv'
<1>1. /\ UNCHANGED <<configOf, lockPid, created, stale>>
      /\ clPc' = [clPc EXCEPT ![u] = "idle"] /\ opened' = [opened EXCEPT ![u] = 0]
  BY DEF Lock!Exit, Lock!Kill, Lock!Goto
<1>2. /\ clPc'[u] = "idle" /\ "idle" \in LockSteps
      /\ \A v \in Users : v # u => clPc'[v] = clPc[v] /\ opened'[v] = opened[v]
  BY <1>1, LockStepNames DEF LockInv
<1>3. clPc' \in [Users -> LockSteps] /\ opened' \in [Users -> Nat]
  BY <1>1, <1>2 DEF LockInv
<1>4. \A v \in Users : Lock!Holds(v)' => v # u /\ Lock!Holds(v)
  BY <1>2, LockStepNames DEF Lock!Holds
<1>5. \A v \in Users : (clPc[v] \in Lock!InLock)' => v # u /\ clPc[v] \in Lock!InLock
  BY <1>2, LockStepNames
<1> QED BY <1>1, <1>2, <1>3, <1>4, <1>5 DEF LockInv

(* lock.pid is opened, or made (Config:84). *)
LEMMA OpenStep ==
  ASSUME LockInv, NEW u \in Users, Lock!Open(u) PROVE LockInv'
<1>1. /\ created' \in Nat /\ lockPid' \in [Configs -> Nat] /\ opened' \in [Users -> Nat]
      /\ opened'[u] # 0
      /\ configOf' = configOf /\ stale' = stale
  BY DEF LockInv, Lock!Open, Lock!Create
<1>2. clPc' \in [Users -> LockSteps] /\ \A v \in Users : Lock!Holds(v)' => Lock!Holds(v) /\ v # u
  BY LockStepNames DEF LockInv, Lock!Open, Lock!Goto, Lock!Holds
<1>3. \A v \in Users : v # u => opened'[v] = opened[v] /\ clPc'[v] = clPc[v]
  BY DEF LockInv, Lock!Open, Lock!Goto
<1>4. \A v \in Users : (clPc[v] \in Lock!InLock)' => v # u /\ clPc[v] \in Lock!InLock
  BY LockStepNames DEF LockInv, Lock!Open, Lock!Goto
<1>5. \A v \in Users : clPc[v] \in Lock!InLock =>
        opened[v] = lockPid'[configOf[v]] \/ configOf[v] \in stale
  <2> SUFFICES ASSUME NEW v \in Users, clPc[v] \in Lock!InLock, configOf[v] \notin stale
               PROVE  opened[v] = lockPid'[configOf[v]]
    OBVIOUS
  <2>1. opened[v] = lockPid[configOf[v]] /\ opened[v] # 0
    BY LockStepNames DEF LockInv
  <2> QED BY <2>1 DEF LockInv, Lock!Open, Lock!Create
<1>6. \A v \in Users : clPc'[v] # "idle" => opened'[v] # 0
  BY <1>1, <1>3 DEF LockInv
<1>7. \A v, w \in Users : Lock!Holds(v)' /\ Lock!Holds(w)' /\ opened'[v] = opened'[w] => v = w
  BY <1>2, <1>3 DEF LockInv
<1>8. \A v \in Users : (clPc[v] \in Lock!InLock)' =>
        opened'[v] = lockPid'[configOf'[v]] \/ configOf'[v] \in stale'
  BY <1>1, <1>3, <1>4, <1>5
<1> QED BY <1>1, <1>2, <1>6, <1>7, <1>8 DEF LockInv

(* The lock is taken: nobody else holds the file (Config:85). *)
LEMMA FlockStep ==
  ASSUME LockInv, NEW u \in Users, Lock!Flock(u) PROVE LockInv'
<1>1. /\ UNCHANGED <<configOf, lockPid, opened, created>>
      /\ clPc' \in [Users -> LockSteps] /\ clPc[u] # "idle"
      /\ \A v \in Users : v # u => clPc'[v] = clPc[v]
  BY LockStepNames DEF LockInv, Lock!Flock, Lock!Goto
<1>2. \A v \in Users : clPc'[v] # "idle" => opened'[v] # 0
  BY <1>1 DEF LockInv
<1>3. \A v, w \in Users : Lock!Holds(v)' /\ Lock!Holds(w)' /\ opened'[v] = opened'[w] => v = w
  BY <1>1 DEF LockInv, Lock!Flock, Lock!Holds
<1>4. \A v \in Users : (clPc[v] \in Lock!InLock)' =>
        opened'[v] = lockPid'[configOf'[v]] \/ configOf'[v] \in stale'
  BY <1>1 DEF LockInv, Lock!Flock
<1> QED BY <1>1, <1>2, <1>3, <1>4 DEF LockInv

(* The holder of a file of that name writes to it; others may make a new one *)
(* only where the configuration is stale (Config:86).                        *)
LEMMA WritePidStep ==
  ASSUME LockInv, NEW u \in Users, Lock!WritePid(u) PROVE LockInv'
<1>1. /\ UNCHANGED <<configOf, opened, stale>>
      /\ created' \in Nat /\ lockPid' \in [Configs -> Nat]
      /\ clPc' \in [Users -> LockSteps]
  BY LockStepNames DEF LockInv, Lock!WritePid, Lock!Create, Lock!Goto
<1>2. \A v \in Users : /\ Lock!Holds(v)' <=> Lock!Holds(v)
                       /\ (clPc[v] \in Lock!InLock)' <=> clPc[v] \in Lock!InLock
                       /\ clPc'[v] = "idle" <=> clPc[v] = "idle"
  BY LockStepNames DEF LockInv, Lock!WritePid, Lock!Goto, Lock!Holds
<1>3. \A c \in Configs : lockPid[c] # 0 => lockPid'[c] = lockPid[c]
  BY DEF LockInv, Lock!WritePid, Lock!Create
<1>4. \A v \in Users : clPc[v] \in Lock!InLock =>
        opened[v] = lockPid'[configOf[v]] \/ configOf[v] \in stale
  <2> SUFFICES ASSUME NEW v \in Users, clPc[v] \in Lock!InLock, configOf[v] \notin stale
               PROVE  opened[v] = lockPid'[configOf[v]]
    OBVIOUS
  <2>1. opened[v] = lockPid[configOf[v]] /\ opened[v] # 0 /\ configOf[v] \in Configs
    BY LockStepNames DEF LockInv
  <2> QED BY <1>3, <2>1
<1> QED BY <1>1, <1>2, <1>4 DEF LockInv

(* The name goes; nobody else is inside unless the configuration is stale *)
(* (Config:111).                                                          *)
LEMMA RemoveLockStep ==
  ASSUME LockInv, NEW u \in Users, Lock!RemoveLock(u) PROVE LockInv'
<1>1. /\ UNCHANGED <<configOf, opened, created, stale>>
      /\ lockPid' \in [Configs -> Nat] /\ clPc' \in [Users -> LockSteps]
      /\ \A c \in Configs : c # configOf[u] => lockPid'[c] = lockPid[c]
  BY LockStepNames DEF LockInv, Lock!RemoveLock, Lock!Goto
<1>2. \A v \in Users : Lock!Holds(v)' => Lock!Holds(v)
  BY LockStepNames DEF LockInv, Lock!RemoveLock, Lock!Goto, Lock!Holds
<1>3. \A v \in Users : (clPc[v] \in Lock!InLock)' => v # u /\ clPc[v] \in Lock!InLock
  BY LockStepNames DEF LockInv, Lock!RemoveLock, Lock!Goto
<1>4. \A v \in Users : clPc'[v] # "idle" => clPc[v] # "idle"
  BY DEF LockInv, Lock!RemoveLock, Lock!Goto
<1>5. clPc[u] \in Lock!InLock BY LockStepNames DEF Lock!RemoveLock
<1>6. \A v \in Users : v # u /\ clPc[v] \in Lock!InLock =>
        opened[v] = lockPid'[configOf[v]] \/ configOf[v] \in stale
  <2> SUFFICES ASSUME NEW v \in Users, v # u, clPc[v] \in Lock!InLock, configOf[v] \notin stale
               PROVE  opened[v] = lockPid'[configOf[v]]
    OBVIOUS
  <2>1. configOf[v] \in Configs /\ opened[v] = lockPid[configOf[v]]
    BY DEF LockInv
  <2>2. configOf[v] # configOf[u]
    BY <1>5, <2>1 DEF LockInv, Lock!Holds
  <2> QED BY <1>1, <2>1, <2>2
<1> QED BY <1>1, <1>2, <1>3, <1>4, <1>6 DEF LockInv

(* Every step of Config keeps the invariant. *)
LEMMA NextLock == LockInv /\ [Lock!Next]_Lock!clVars => LockInv'
<1> SUFFICES ASSUME LockInv, [Lock!Next]_Lock!clVars PROVE LockInv' OBVIOUS
<1>1. CASE UNCHANGED Lock!clVars
  BY <1>1 DEF Lock!clVars, LockInv, Lock!Holds
<1>2. ASSUME NEW u \in Users, Lock!Open(u) PROVE LockInv' BY <1>2, OpenStep
<1>3. ASSUME NEW u \in Users, Lock!Flock(u) PROVE LockInv' BY <1>3, FlockStep
<1>4. ASSUME NEW u \in Users, Lock!WritePid(u) PROVE LockInv' BY <1>4, WritePidStep
<1>5. ASSUME NEW u \in Users, Lock!RemoveLock(u) PROVE LockInv' BY <1>5, RemoveLockStep
<1>6. ASSUME NEW u \in Users, Lock!MakeTmp(u) PROVE LockInv'
  BY <1>6, StepInside, LockStepNames DEF Lock!MakeTmp, Lock!Holds
<1>7. ASSUME NEW u \in Users, Lock!Dialog(u) \/ Lock!DialogFails(u) PROVE LockInv'
  BY <1>7, StepInside, LockStepNames DEF Lock!Dialog, Lock!DialogFails, Lock!Directory, Lock!Library, Lock!Holds
<1>8. ASSUME NEW u \in Users, Lock!RemoveLibrary(u) PROVE LockInv'
  BY <1>8, StepInside, LockStepNames DEF Lock!RemoveLibrary, Lock!Directory, Lock!Holds
<1>9. ASSUME NEW u \in Users, Lock!Install(u) \/ Lock!MakeLibrary(u) PROVE LockInv'
  BY <1>9, StepInside, LockStepNames DEF Lock!Install, Lock!MakeLibrary, Lock!Directory, Lock!Holds
<1>9a. ASSUME NEW u \in Users, Lock!MakeFails(u) PROVE LockInv'
  BY <1>9a, StepInside, LockStepNames DEF Lock!MakeFails, Lock!Directory, Lock!Holds
<1>9b. ASSUME NEW u \in Users, Lock!Load(u) \/ Lock!LoadFails(u) PROVE LockInv'
  BY <1>9b, StepInside, LockStepNames DEF Lock!Load, Lock!LoadFails, Lock!CycleFails, Lock!Directory, Lock!Holds
<1>9c. CASE Lock!Cleanup
  BY <1>9c DEF Lock!Cleanup, LockInv, Lock!Holds
<1>10. ASSUME NEW u \in Users, Lock!Enable(u) PROVE LockInv'
  <2>1. CASE luabash = "whole"
    BY <1>10, <2>1, StepInside, LockStepNames DEF Lock!Enable, Lock!Directory, Lock!Holds
  <2>2. CASE luabash # "whole"
    BY <1>10, <2>2, StepInside, LockStepNames DEF Lock!Enable, Lock!CycleFails, Lock!Directory, Lock!Holds
  <2> QED BY <2>1, <2>2
<1>11. ASSUME NEW u \in Users, Lock!Read(u) \/ Lock!Cut(u) \/ Lock!Write(u) PROVE LockInv'
  BY <1>11, StepInside, LockStepNames DEF Lock!Read, Lock!Cut, Lock!Write, Lock!Holds
<1>12. ASSUME NEW u \in Users, Lock!Choose(u) \/ Lock!Leave(u) PROVE LockInv'
  BY <1>12, StepInside, LockStepNames DEF Lock!Choose, Lock!Leave, Lock!Directory, Lock!Library, Lock!Holds
<1>13. ASSUME NEW u \in Users, Lock!Exit(u) \/ Lock!Kill(u) PROVE LockInv'
  BY <1>13, StepToEnd
<1> QED
  BY <1>1, <1>2, <1>3, <1>4, <1>5, <1>6, <1>7, <1>8, <1>9, <1>9a, <1>9b, <1>9c, <1>10, <1>11, <1>12, <1>13
     DEF Lock!Next

(* Two write a configuration only if somebody got the lock of a removed file *)
(* (Config:84-111).                                                          *)
THEOREM WritersAreAlone == Lock!Spec => []Lock!OneWriter
<1>1. LockInv => Lock!OneWriter BY DEF LockInv, Lock!OneWriter, Lock!Inside, Lock!Holds
<1> QED BY <1>1, InitLock, NextLock, PTL DEF Lock!Spec

--------------------------------------------------------------------------
(* From the directory src/<name> that is there to the removal of it. *)
Active == {"dialog", "rmlib", "make", "install", "enable", "load", "read", "cut", "write", "ask"}

Good(c) == c \notin stale /\ c \notin broken

(* What a cycle has read is what the file had, src/<name> is there as long   *)
(* as its user is inside, the file is not whole only while somebody writes   *)
(* it; and who is about to use the library has made it, alone and whole, or   *)
(* was robbed of it, or could not make it.                                    *)
OptionsInv ==
  /\ config \in [Configs -> {"kept", "cut", "lost"}] /\ options \in [Users -> {"kept", "lost"}]
  /\ \A u \in Users : clPc[u] \in {"cut", "write"} /\ Good(configOf[u]) => options[u] = "kept"
  /\ \A u \in Users : clPc[u] \in Active /\ Good(configOf[u]) => configOf[u] \in tmpdir
  /\ \A c \in Configs : Good(c) /\ config[c] # "kept" => \E u \in Users : configOf[u] = c /\ clPc[u] = "write"

LibraryInv ==
  /\ \A u \in Users : clPc[u] = "install" /\ u \notin robbed => luabash # "none" /\ Lock!Installing = {u}
  /\ \A u \in Users : clPc[u] = "enable" /\ u \notin robbed \cup unmade =>
       luabash = "whole" /\ Lock!Installing = {}
  /\ failed \subseteq robbed \cup unmade

(* A configuration with its options, nobody inside and no library            *)
(* (Config:84-125).                                                          *)
LEMMA InitOptions == Lock!Init => OptionsInv /\ LibraryInv
BY LockStepNames DEF Lock!Init, OptionsInv, LibraryInv, Active, LockSteps

(* Two users inside are inside of two configurations (Config:85). *)
LEMMA AloneInside ==
  ASSUME LockInv, NEW u \in Users, NEW v \in Users, clPc[u] \in Lock!InLock, clPc[v] \in Lock!InLock,
         configOf[u] = configOf[v], configOf[u] \notin stale
  PROVE  u = v
BY DEF LockInv, Lock!Holds

(* A step of u that leaves the file and the directory alone and neither      *)
(* begins the writing nor ends it (Config:84-125).                           *)
LEMMA OptionsStay ==
  ASSUME LockInv, OptionsInv, NEW u \in Users, NEW l \in LockSteps, Lock!Goto(u, l),
         UNCHANGED <<configOf, config, options, tmpdir>>, stale \subseteq stale', broken \subseteq broken',
         clPc[u] = "write" => configOf[u] \in broken',
         l \notin {"cut", "write"},
         l \in Active => clPc[u] \in Active
  PROVE  OptionsInv'
<1>1. \A v \in Users : v # u => clPc'[v] = clPc[v]
  BY DEF LockInv, Lock!Goto
<1>2. clPc'[u] = l
  BY DEF LockInv, Lock!Goto
<1>3. \A c : Good(c)' => Good(c)
  BY DEF Good
<1>4. \A v \in Users : clPc'[v] \in {"cut", "write"} /\ Good(configOf[v])' => options[v] = "kept"
  BY <1>1, <1>2, <1>3 DEF OptionsInv
<1>5. \A v \in Users : clPc'[v] \in Active /\ Good(configOf[v])' => configOf[v] \in tmpdir
  BY <1>1, <1>2, <1>3 DEF OptionsInv
<1>6. ASSUME NEW c \in Configs, Good(c)', config[c] # "kept"
      PROVE  \E v \in Users : configOf[v] = c /\ clPc'[v] = "write"
  <2>1. PICK v \in Users : configOf[v] = c /\ clPc[v] = "write"
    BY <1>3, <1>6 DEF OptionsInv
  <2>2. v # u
    BY <1>6, <2>1 DEF Good
  <2> QED BY <1>1, <2>1, <2>2
<1>7. UNCHANGED <<config, options, tmpdir, configOf>>
  OBVIOUS
<1>8. (\A v \in Users : clPc[v] \in {"cut", "write"} /\ Good(configOf[v]) => options[v] = "kept")'
  BY <1>4, <1>7 DEF Good
<1>9. (\A v \in Users : clPc[v] \in Active /\ Good(configOf[v]) => configOf[v] \in tmpdir)'
  BY <1>5, <1>7 DEF Good, Active
<1>10. (\A c \in Configs : Good(c) /\ config[c] # "kept" =>
          \E v \in Users : configOf[v] = c /\ clPc[v] = "write")'
  BY <1>6, <1>7 DEF Good
<1> QED BY <1>7, <1>8, <1>9, <1>10 DEF OptionsInv

(* src/<name> is made (Config:90). *)
LEMMA MakeTmpOptions ==
  ASSUME LockInv, OptionsInv, NEW u \in Users, Lock!MakeTmp(u) PROVE OptionsInv'
<1>1. /\ UNCHANGED <<configOf, config, options, stale, broken>> /\ tmpdir' = tmpdir \cup {configOf[u]}
      /\ clPc'[u] = "dialog" /\ clPc[u] = "mkdir"
      /\ \A v \in Users : v # u => clPc'[v] = clPc[v]
  BY DEF LockInv, Lock!MakeTmp, Lock!Goto
<1>2. \A v \in Users : clPc[v] = "write" <=> clPc'[v] = "write"
  BY <1>1
<1>3. \A v \in Users : clPc'[v] \in {"cut", "write"} => clPc[v] \in {"cut", "write"}
  BY <1>1
<1>4. \A v \in Users : clPc'[v] \in Active /\ v # u => clPc[v] \in Active
  BY <1>1
<1> QED BY <1>1, <1>2, <1>3, <1>4 DEF OptionsInv, Good, Active

(* The directory goes, and nobody else is inside (Config:109). *)
LEMMA LeaveOptions ==
  ASSUME LockInv, OptionsInv, NEW u \in Users, Lock!Leave(u) PROVE OptionsInv'
<1>1. /\ UNCHANGED <<configOf, config, options, stale, broken>> /\ tmpdir' = tmpdir \ {configOf[u]}
      /\ clPc'[u] = "unlock" /\ clPc[u] = "ask"
      /\ \A v \in Users : v # u => clPc'[v] = clPc[v]
  BY DEF LockInv, Lock!Leave, Lock!Goto
<1>2. \A v \in Users : clPc[v] = "write" <=> clPc'[v] = "write"
  BY <1>1
<1>3. \A v \in Users : clPc'[v] \in {"cut", "write"} => clPc[v] \in {"cut", "write"}
  BY <1>1
<1>4. \A v \in Users : clPc'[v] \in Active => v # u /\ clPc[v] \in Active
  BY <1>1 DEF Active
<1>5. \A v \in Users : v # u /\ clPc[v] \in Active /\ Good(configOf[v]) => configOf[v] # configOf[u]
  BY <1>1, AloneInside DEF Active, Lock!InLock, Good
<1>6. \A v \in Users : clPc'[v] \in Active /\ Good(configOf[v]) => configOf[v] \in tmpdir'
  BY <1>1, <1>4, <1>5 DEF OptionsInv
<1> QED BY <1>1, <1>2, <1>3, <1>6 DEF OptionsInv, Good, Active

(* What is read is whole, for nobody else writes (Config:173-180). *)
LEMMA ReadOptions ==
  ASSUME LockInv, OptionsInv, NEW u \in Users, Lock!Read(u) PROVE OptionsInv'
<1>1. /\ UNCHANGED <<configOf, config, tmpdir, stale, broken>>
      /\ clPc'[u] = "cut" /\ clPc[u] = "read"
      /\ options' \in [Users -> {"kept", "lost"}]
      /\ \A v \in Users : v # u => clPc'[v] = clPc[v] /\ options'[v] = options[v]
  BY DEF LockInv, OptionsInv, Lock!Read, Lock!Goto
<1>2. Good(configOf[u]) => options'[u] = "kept"
  <2> SUFFICES ASSUME Good(configOf[u]), config[configOf[u]] # "kept" PROVE FALSE
    BY DEF OptionsInv, Lock!Read
  <2>1. PICK v \in Users : configOf[v] = configOf[u] /\ clPc[v] = "write"
    BY DEF OptionsInv, LockInv
  <2>2. v = u
    BY <1>1, <2>1, AloneInside DEF Lock!InLock, Good
  <2> QED BY <1>1, <2>1, <2>2
<1>3. \A v \in Users : clPc[v] = "write" <=> clPc'[v] = "write"
  BY <1>1
<1>4. \A v \in Users : clPc'[v] \in Active => clPc[v] \in Active
  BY <1>1 DEF Active
<1>5. \A v \in Users : clPc'[v] \in {"cut", "write"} /\ Good(configOf[v]) => options'[v] = "kept"
  BY <1>1, <1>2 DEF OptionsInv
<1> QED BY <1>1, <1>3, <1>4, <1>5 DEF OptionsInv, Good, Active

(* The redirection cuts the file (Config:181). *)
LEMMA CutOptions ==
  ASSUME LockInv, OptionsInv, NEW u \in Users, Lock!Cut(u) PROVE OptionsInv'
<1>1. /\ UNCHANGED <<configOf, options, tmpdir, stale, broken>>
      /\ clPc'[u] = "write" /\ clPc[u] = "cut"
      /\ config' \in [Configs -> {"kept", "cut", "lost"}]
      /\ \A c \in Configs : c # configOf[u] => config'[c] = config[c]
      /\ \A v \in Users : v # u => clPc'[v] = clPc[v]
  BY DEF LockInv, OptionsInv, Lock!Cut, Lock!Goto
<1>2. \A v \in Users : clPc[v] = "write" => clPc'[v] = "write"
  BY <1>1
<1>3. \A v \in Users : clPc'[v] \in {"cut", "write"} => clPc[v] \in {"cut", "write"}
  BY <1>1
<1>4. \A v \in Users : clPc'[v] \in Active => clPc[v] \in Active
  BY <1>1 DEF Active
<1>5. \A c \in Configs : Good(c) /\ config'[c] # "kept" =>
        \E v \in Users : configOf[v] = c /\ clPc'[v] = "write"
  BY <1>1, <1>2 DEF OptionsInv
<1> QED BY <1>1, <1>3, <1>4, <1>5 DEF OptionsInv, Good, Active

(* It gets the options that were read (Config:181-197). *)
LEMMA WriteOptions ==
  ASSUME LockInv, OptionsInv, NEW u \in Users, Lock!Write(u) PROVE OptionsInv'
<1>1. /\ UNCHANGED <<configOf, tmpdir, stale, broken>>
      /\ clPc'[u] = "ask" /\ clPc[u] = "write"
      /\ options' \in [Users -> {"kept", "lost"}] /\ \A v \in Users : v # u => options'[v] = options[v]
      /\ config' \in [Configs -> {"kept", "cut", "lost"}]
      /\ \A c \in Configs : c # configOf[u] => config'[c] = config[c]
      /\ \A v \in Users : v # u => clPc'[v] = clPc[v]
  BY DEF LockInv, OptionsInv, Lock!Write, Lock!Goto
<1>2. Good(configOf[u]) => config'[configOf[u]] = "kept"
  BY DEF LockInv, OptionsInv, Lock!Write, Active
<1>3. \A v \in Users : clPc'[v] \in {"cut", "write"} => v # u /\ clPc[v] \in {"cut", "write"}
  BY <1>1
<1>4. \A v \in Users : clPc'[v] \in Active => clPc[v] \in Active
  BY <1>1 DEF Active
<1>5. ASSUME NEW c \in Configs, Good(c), config'[c] # "kept"
      PROVE  \E v \in Users : configOf[v] = c /\ clPc'[v] = "write"
  <2>1. c # configOf[u]
    BY <1>2, <1>5
  <2>2. PICK v \in Users : configOf[v] = c /\ clPc[v] = "write"
    BY <1>1, <1>5, <2>1 DEF OptionsInv
  <2> QED BY <1>1, <2>1, <2>2
<1> QED BY <1>1, <1>3, <1>4, <1>5 DEF OptionsInv, Good, Active

(* Cleanup takes src/<name> from those who are inside (Cleanup:61-82). *)
LEMMA CleanupOptions ==
  ASSUME LockInv, OptionsInv, Lock!Cleanup PROVE OptionsInv'
<1>1. /\ UNCHANGED <<configOf, clPc, config, options, stale>>
      /\ broken' = broken \cup {c \in tmpdir : Lock!Inside(c) # {}}
  BY DEF Lock!Cleanup
<1>2. \A c : Good(c)' => Good(c)
  BY <1>1 DEF Good
<1>3. ASSUME NEW u \in Users, clPc[u] \in Active, Good(configOf[u])' PROVE FALSE
  <2>1. configOf[u] \in tmpdir
    BY <1>1, <1>2, <1>3 DEF OptionsInv, Good
  <2>2. u \in Lock!Inside(configOf[u])
    BY <1>3 DEF Active, Lock!Inside, Lock!InLock
  <2> QED BY <1>1, <1>3, <2>1, <2>2 DEF Good
<1> QED BY <1>1, <1>2, <1>3 DEF OptionsInv, Good, Active

(* Every step keeps the options (Config:84-197). *)
LEMMA NextOptions == LockInv /\ OptionsInv /\ [Lock!Next]_Lock!clVars => OptionsInv'
<1> SUFFICES ASSUME LockInv, OptionsInv, [Lock!Next]_Lock!clVars PROVE OptionsInv' OBVIOUS
<1>1. CASE UNCHANGED Lock!clVars
  BY <1>1 DEF Lock!clVars, OptionsInv, Good, Active
<1>2. ASSUME NEW u \in Users, Lock!Open(u) \/ Lock!Flock(u) \/ Lock!WritePid(u) \/ Lock!RemoveLock(u) \/ Lock!Exit(u) PROVE OptionsInv'
  BY <1>2, OptionsStay, LockStepNames DEF Lock!Open, Lock!Flock, Lock!WritePid, Lock!RemoveLock, Lock!Exit, Lock!Directory, Active
<1>3. ASSUME NEW u \in Users, Lock!Dialog(u) \/ Lock!DialogFails(u) \/ Lock!Choose(u) PROVE OptionsInv'
  BY <1>3, OptionsStay, LockStepNames DEF Lock!Dialog, Lock!DialogFails, Lock!Choose, Lock!Directory, Active
<1>4. ASSUME NEW u \in Users,
             Lock!RemoveLibrary(u) \/ Lock!Install(u) \/ Lock!MakeLibrary(u) \/ Lock!MakeFails(u)
      PROVE  OptionsInv'
  BY <1>4, OptionsStay, LockStepNames
     DEF Lock!RemoveLibrary, Lock!Install, Lock!MakeLibrary, Lock!MakeFails, Lock!Directory, Active
<1>5. ASSUME NEW u \in Users, Lock!Enable(u) \/ Lock!Load(u) \/ Lock!LoadFails(u) PROVE OptionsInv'
  <2>1. PICK l \in {"load", "read", "unlock"} : Lock!Goto(u, l)
    BY <1>5 DEF Lock!Enable, Lock!Load, Lock!LoadFails, Lock!CycleFails
  <2> QED
    BY <1>5, <2>1, OptionsStay, LockStepNames
       DEF Lock!Enable, Lock!Load, Lock!LoadFails, Lock!Directory, Active
<1>6. ASSUME NEW u \in Users, Lock!MakeTmp(u) PROVE OptionsInv' BY <1>6, MakeTmpOptions
<1>7. ASSUME NEW u \in Users, Lock!Leave(u) PROVE OptionsInv' BY <1>7, LeaveOptions
<1>8. ASSUME NEW u \in Users, Lock!Read(u) PROVE OptionsInv' BY <1>8, ReadOptions
<1>9. ASSUME NEW u \in Users, Lock!Cut(u) PROVE OptionsInv' BY <1>9, CutOptions
<1>10. ASSUME NEW u \in Users, Lock!Write(u) PROVE OptionsInv' BY <1>10, WriteOptions
<1>11. ASSUME NEW u \in Users, Lock!Kill(u) PROVE OptionsInv'
  BY <1>11, OptionsStay, LockStepNames DEF Lock!Kill, Lock!Directory, Active
<1>12. CASE Lock!Cleanup BY <1>12, CleanupOptions
<1> QED
  BY <1>1, <1>2, <1>3, <1>4, <1>5, <1>6, <1>7, <1>8, <1>9, <1>10, <1>11, <1>12 DEF Lock!Next

(* A step of u that leaves the library alone and does not go to its making   *)
(* or its use (Config:84-197).                                               *)
LEMMA LibraryStays ==
  ASSUME LockInv, LibraryInv, NEW u \in Users, NEW l \in LockSteps \ {"install", "enable"}, Lock!Goto(u, l),
         luabash' = luabash, UNCHANGED <<robbed, unmade, failed>> \/ Lock!Forget(u)
  PROVE  LibraryInv'
<1>1. \A v \in Users : clPc'[v] \in {"install", "enable"} => v # u /\ clPc'[v] = clPc[v]
  BY DEF LockInv, Lock!Goto
<1>2. \A v \in Users : v # u => clPc'[v] = clPc[v] /\ (v \in robbed' <=> v \in robbed) /\ (v \in unmade' <=> v \in unmade)
  BY DEF LockInv, Lock!Goto, Lock!Forget
<1>3. failed' \subseteq robbed' \cup unmade'
  BY DEF LibraryInv, Lock!Forget
<1>4. ASSUME NEW v \in Users, clPc'[v] = "install", v \notin robbed'
      PROVE  luabash' # "none" /\ Lock!Installing' = {v}
  <2>1. v # u /\ clPc[v] = "install" /\ v \notin robbed
    BY <1>1, <1>2, <1>4
  <2>2. luabash # "none" /\ Lock!Installing = {v}
    BY <2>1 DEF LibraryInv
  <2> QED BY <1>1, <1>4, <2>2 DEF Lock!Installing
<1>5. ASSUME NEW v \in Users, clPc'[v] = "enable", v \notin robbed' \cup unmade'
      PROVE  luabash' = "whole" /\ Lock!Installing' = {}
  <2>1. v # u /\ clPc[v] = "enable" /\ v \notin robbed \cup unmade
    BY <1>1, <1>2, <1>5
  <2>2. luabash = "whole" /\ Lock!Installing = {}
    BY <2>1 DEF LibraryInv
  <2> QED BY <1>1, <2>2 DEF Lock!Installing
<1> QED BY <1>3, <1>4, <1>5 DEF LibraryInv

(* The library goes: the others that have it are robbed (Config:116). *)
LEMMA RemoveLibraryStep ==
  ASSUME LockInv, LibraryInv, NEW u \in Users, Lock!RemoveLibrary(u) PROVE LibraryInv'
<1>1. \A v \in Users : clPc'[v] \in {"install", "enable"} => v \in Lock!HasLibrary
  BY DEF LockInv, Lock!RemoveLibrary, Lock!Goto, Lock!HasLibrary
<1>2. UNCHANGED <<unmade, failed>> /\ robbed' = robbed \cup Lock!HasLibrary
  BY DEF Lock!RemoveLibrary
<1> QED BY <1>1, <1>2 DEF LibraryInv

(* So they are if Cleanup removes it (Cleanup:61-82). *)
LEMMA CleanupLibrary ==
  ASSUME LibraryInv, Lock!Cleanup PROVE LibraryInv'
<1>1. \A v \in Users : clPc'[v] \in {"install", "enable"} => v \in Lock!HasLibrary
  BY DEF Lock!Cleanup, Lock!HasLibrary
<1>2. UNCHANGED <<unmade, failed>> /\ robbed' = robbed \cup Lock!HasLibrary
  BY DEF Lock!Cleanup
<1> QED BY <1>1, <1>2 DEF LibraryInv

(* make writes it, and the others that have it are robbed (Config:117). *)
LEMMA InstallStep ==
  ASSUME LockInv, LibraryInv, NEW u \in Users, Lock!Install(u) PROVE LibraryInv'
<1>1. /\ UNCHANGED <<unmade, failed>> /\ luabash' = "torn"
      /\ robbed' = robbed \cup Lock!HasLibrary \cup (IF Lock!Installing = {} THEN {} ELSE {u})
  BY DEF Lock!Install
<1>2. /\ \A v \in Users : v # u => clPc'[v] = clPc[v]
      /\ clPc'[u] = "install"
  BY DEF LockInv, Lock!Install, Lock!Goto
<1>3. \A v \in Users : v # u /\ clPc'[v] \in {"install", "enable"} => v \in robbed'
  BY <1>1, <1>2 DEF Lock!HasLibrary
<1>4. u \notin robbed' => Lock!Installing' = {u}
  BY <1>1, <1>2 DEF Lock!Installing
<1>5. failed' \subseteq robbed' \cup unmade'
  BY <1>1 DEF LibraryInv
<1> QED BY <1>1, <1>2, <1>3, <1>4, <1>5 DEF LibraryInv

(* It is whole, if nobody else has removed it or writes it (Config:117-121). *)
LEMMA MakeLibraryStep ==
  ASSUME LockInv, LibraryInv, NEW u \in Users, Lock!MakeLibrary(u) PROVE LibraryInv'
<1>1. UNCHANGED <<robbed, unmade, failed>> /\ clPc[u] = "install"
  BY DEF Lock!MakeLibrary
<1>2. /\ \A v \in Users : v # u => clPc'[v] = clPc[v]
      /\ clPc'[u] = "enable"
  BY DEF LockInv, Lock!MakeLibrary, Lock!Goto
<1>3. \A v \in Users : clPc[v] \in {"install", "enable"} /\ v # u => v \in robbed \cup unmade
  BY <1>1 DEF LibraryInv, Lock!Installing
<1>4. \A v \in Users : clPc[v] = "install" /\ v # u => v \in robbed
  BY <1>1 DEF LibraryInv, Lock!Installing
<1>5. u \notin robbed => luabash' = "whole" /\ Lock!Installing' = {}
  <2> SUFFICES ASSUME u \notin robbed PROVE luabash' = "whole" /\ Lock!Installing' = {}
    OBVIOUS
  <2>1. luabash # "none" /\ Lock!Installing = {u}
    BY <1>1 DEF LibraryInv
  <2> QED BY <1>2, <2>1 DEF Lock!MakeLibrary, Lock!Installing
<1> QED BY <1>1, <1>2, <1>3, <1>4, <1>5 DEF LibraryInv

(* The make of u fails (Config:117). *)
LEMMA MakeFailsStep ==
  ASSUME LockInv, LibraryInv, NEW u \in Users, Lock!MakeFails(u) PROVE LibraryInv'
<1>1. UNCHANGED <<luabash, robbed, failed>> /\ unmade' = unmade \cup {u}
  BY DEF Lock!MakeFails
<1>2. /\ \A v \in Users : v # u => clPc'[v] = clPc[v]
      /\ clPc'[u] = "enable"
  BY DEF LockInv, Lock!MakeFails, Lock!Goto
<1>3. Lock!Installing' = Lock!Installing \ {u}
  BY <1>2 DEF Lock!Installing
<1>4. \A v \in Users : clPc'[v] = "install" => v # u
  BY <1>2
<1> QED BY <1>1, <1>2, <1>3, <1>4 DEF LibraryInv

(* Without it, or without the Lua code, the cycle fails (Config:119-129). *)
LEMMA EnableStep ==
  ASSUME LockInv, LibraryInv, NEW u \in Users, Lock!Enable(u) \/ Lock!LoadFails(u) PROVE LibraryInv'
<1>1. /\ \A v \in Users : v # u => clPc'[v] = clPc[v]
      /\ clPc'[u] \in {"load", "unlock"} /\ clPc[u] # "install"
  BY DEF LockInv, Lock!Enable, Lock!LoadFails, Lock!CycleFails, Lock!Goto
<1>2. UNCHANGED <<luabash, robbed>> /\ unmade \subseteq unmade' /\ unmade' \subseteq unmade \cup {u}
  BY DEF Lock!Enable, Lock!LoadFails
<1>3. Lock!Installing' = Lock!Installing
  BY <1>1 DEF Lock!Installing
<1>4. failed' \subseteq robbed' \cup unmade'
  <2>1. CASE Lock!Enable(u)
    <3>1. clPc[u] = "enable" /\ UNCHANGED <<robbed, unmade>>
      BY <2>1 DEF Lock!Enable
    <3>2. CASE luabash = "whole" BY <2>1, <3>1, <3>2 DEF Lock!Enable, LibraryInv
    <3>3. CASE luabash # "whole"
      <4>1. u \in robbed \cup unmade BY <3>1, <3>3 DEF LibraryInv
      <4>2. failed' = failed \cup {u} BY <2>1, <3>3 DEF Lock!Enable, Lock!CycleFails
      <4> QED BY <3>1, <4>1, <4>2 DEF LibraryInv
    <3> QED BY <3>2, <3>3
  <2>2. CASE Lock!LoadFails(u)
    BY <1>2, <2>2 DEF Lock!LoadFails, Lock!CycleFails, LibraryInv
  <2> QED BY <2>1, <2>2
<1> QED BY <1>1, <1>2, <1>3, <1>4 DEF LibraryInv

(* Every step keeps what is known of the library. *)
LEMMA NextLibrary == LockInv /\ LibraryInv /\ [Lock!Next]_Lock!clVars => LibraryInv'
<1> SUFFICES ASSUME LockInv, LibraryInv, [Lock!Next]_Lock!clVars PROVE LibraryInv' OBVIOUS
<1>1. CASE UNCHANGED Lock!clVars
  BY <1>1 DEF Lock!clVars, LibraryInv, Lock!Installing
<1>2. ASSUME NEW u \in Users, Lock!Open(u) \/ Lock!Flock(u) \/ Lock!WritePid(u) \/ Lock!RemoveLock(u) \/ Lock!Exit(u) \/ Lock!Kill(u)
      PROVE  LibraryInv'
  BY <1>2, LibraryStays, LockStepNames
     DEF Lock!Open, Lock!Flock, Lock!WritePid, Lock!RemoveLock, Lock!Exit, Lock!Kill, Lock!Library
<1>3. ASSUME NEW u \in Users, Lock!MakeTmp(u) \/ Lock!Dialog(u) \/ Lock!DialogFails(u) \/ Lock!Choose(u) \/ Lock!Leave(u)
      PROVE  LibraryInv'
  BY <1>3, LibraryStays, LockStepNames 
     DEF Lock!MakeTmp, Lock!Dialog, Lock!DialogFails, Lock!Choose, Lock!Leave, Lock!Library
<1>4. ASSUME NEW u \in Users, Lock!Load(u) \/ Lock!Read(u) \/ Lock!Cut(u) \/ Lock!Write(u) PROVE LibraryInv'
  BY <1>4, LibraryStays, LockStepNames DEF Lock!Load, Lock!Read, Lock!Cut, Lock!Write, Lock!Library
<1>5. ASSUME NEW u \in Users, Lock!RemoveLibrary(u) PROVE LibraryInv' BY <1>5, RemoveLibraryStep
<1>6. ASSUME NEW u \in Users, Lock!MakeLibrary(u) PROVE LibraryInv' BY <1>6, MakeLibraryStep
<1>7. ASSUME NEW u \in Users, Lock!Enable(u) \/ Lock!LoadFails(u) PROVE LibraryInv' BY <1>7, EnableStep
<1>8. ASSUME NEW u \in Users, Lock!Install(u) PROVE LibraryInv' BY <1>8, InstallStep
<1>9. ASSUME NEW u \in Users, Lock!MakeFails(u) PROVE LibraryInv' BY <1>9, MakeFailsStep
<1>10. CASE Lock!Cleanup BY <1>10, CleanupLibrary
<1> QED BY <1>1, <1>2, <1>3, <1>4, <1>5, <1>6, <1>7, <1>8, <1>9, <1>10 DEF Lock!Next

(* A configuration whose lock worked, that nobody was killed in the middle   *)
(* of writing, and whose src/<name> Cleanup left to its user, has its        *)
(* options when nobody is inside; and a cycle fails only if its own make or  *)
(* load did, or if another cycle or Cleanup removed or rewrote the library   *)
(* that it was making or had made (Config:84-129, 173-197; Cleanup:61-82).   *)
THEOREM OptionsStayWhole == Lock!Spec => []Lock!OptionsAreKept
<1>1. OptionsInv /\ LibraryInv => Lock!OptionsAreKept
  BY LockStepNames DEF OptionsInv, LibraryInv, Lock!OptionsAreKept, Lock!Inside, Good
<1> QED BY <1>1, InitLock, NextLock, InitOptions, NextOptions, NextLibrary, PTL DEF Lock!Spec

--------------------------------------------------------------------------
(***************************************************************************)
(* For any number of processes of Build-Tools and edits of the sources:    *)
(* what the time stamp vouches for.                                        *)
(***************************************************************************)
MakeSteps == Make!WorkSteps \cup {"find", "unstamp", "test", "end"}

(* A process removes or makes tools.  At "clean" it has not begun yet. *)
Making == {m \in Makers : maker[m] \in Make!WorkSteps \ {"clean"}}

MakeTypes ==
  /\ flag \in [Makers -> Flags] /\ maker \in [Makers -> MakeSteps]
  /\ edits \in Nat /\ lastupdate \in Int /\ confs \in Nat
  /\ tool \in [Make!Tools -> Int] /\ temp \in [Makers -> Int]
  /\ missed \in BOOLEAN /\ overlapped \in BOOLEAN

CleanersClean == \A m \in Makers : maker[m] \in {"clean", "unstamp2"} => flag[m] = "cleanup"

--------------------------------------------------------------------------
(* What a process has done that works alone, of sources that nobody edits. *)
Undisturbed == missed = FALSE /\ overlapped = FALSE /\ "cleanup" \notin dead

Alone == \A m, n \in Making : m = n

Unstamped == \A m \in Making : maker[m] # "unstamp2" => lastupdate = -1

Progress(m) ==
  /\ maker[m] = "mv" => temp[m] = edits
  /\ maker[m] \in {"sweep", "lib", "rmconf", "conf", "touch"} => tool["wrapper"] = edits
  /\ maker[m] \in {"rmconf", "conf", "touch"} => tool["lib"] = edits
  /\ maker[m] = "conf" => confs = 0
  /\ maker[m] = "touch" => confs = 1

(* The stamp vouches for the tools unless a -cleanup has just removed them. *)
Vouched ==
  lastupdate # -1 /\ (\A m \in Makers : maker[m] # "unstamp2") =>
    confs = 1 /\ \A t \in Make!Tools : tool[t] = lastupdate

Stamped == Alone /\ Unstamped /\ (\A m \in Making : Progress(m)) /\ Vouched

StampInv == Undisturbed => Stamped

(* What is there if nobody dies and nobody cleans up: many may make tools at *)
(* a time, sweep those of each other and remove the lines of each other.     *)
Orderly == dead = {} /\ \A m \in Makers : flag[m] # "cleanup"

Appending == \E n \in Makers : maker[n] = "conf"

IsMade(m) ==
  /\ maker[m] = "mv" => temp[m] # -1 \/ tool["wrapper"] # -1
  /\ maker[m] \in {"sweep", "lib", "rmconf", "conf", "touch"} => tool["wrapper"] # -1
  /\ maker[m] \in {"rmconf", "conf", "touch"} => tool["lib"] # -1
  /\ maker[m] = "touch" => confs # 0 \/ Appending

Present == lastupdate # -1 => (confs # 0 \/ Appending) /\ \A t \in Make!Tools : tool[t] # -1

ThereInv == Orderly => (\A m \in Makers : IsMade(m)) /\ Present

--------------------------------------------------------------------------
(* Nobody has begun (Build-Tools:55). *)
LEMMA InitTools == Make!Init => MakeTypes /\ CleanersClean /\ StampInv /\ ThereInv
<1> SUFFICES ASSUME Make!Init PROVE MakeTypes /\ CleanersClean /\ StampInv /\ ThereInv
  OBVIOUS
<1>1. MakeTypes
  <2>1. missed \in BOOLEAN /\ overlapped \in BOOLEAN
    BY DEF Make!Init
  <2>2. flag \in [Makers -> Flags] /\ maker \in [Makers -> MakeSteps]
    BY DEF Make!Init, MakeSteps
  <2>3. /\ edits \in Nat /\ lastupdate \in Int /\ confs \in Nat
        /\ tool \in [Make!Tools -> Int] /\ temp \in [Makers -> Int]
    BY DEF Make!Init
  <2> QED BY <2>1, <2>2, <2>3 DEF MakeTypes
<1>2. Making = {} /\ lastupdate = -1
  BY DEF Make!Init, Making, Make!WorkSteps
<1>3. \A m \in Makers : maker[m] = "find"
  BY DEF Make!Init
<1> QED
  BY <1>1, <1>2, <1>3 DEF CleanersClean, StampInv, Stamped, ThereInv, Alone, Unstamped, Vouched, IsMade, Present

(* Every step keeps the types. *)
LEMMA NextTypes == MakeTypes /\ [Make!Next]_Make!btVars => MakeTypes'
<1> SUFFICES ASSUME MakeTypes, [Make!Next]_Make!btVars PROVE MakeTypes'
  OBVIOUS
<1> USE DEF MakeTypes, Make!Goto, Make!Keep, MakeSteps, Make!WorkSteps
<1>1. CASE UNCHANGED Make!btVars BY <1>1 DEF Make!btVars
<1>2. CASE Make!Edit BY <1>2 DEF Make!Edit
<1>3. ASSUME NEW m \in Makers, Make!Find(m) PROVE MakeTypes'
  BY <1>3 DEF Make!Find, Make!AfterFind
<1>4. ASSUME NEW m \in Makers, Make!RemoveStamp(m) PROVE MakeTypes'
  BY <1>4 DEF Make!RemoveStamp, Make!AfterFind
<1>5. ASSUME NEW m \in Makers, Make!Cleanup(m) PROVE MakeTypes'
  BY <1>5 DEF Make!Cleanup
<1>6. ASSUME NEW m \in Makers, Make!Test(m) PROVE MakeTypes'
  BY <1>6 DEF Make!Test
<1>7. ASSUME NEW m \in Makers, Make!Compile(m) \/ Make!Move(m) \/ Make!Sweep(m) \/ Make!MakeLib(m) PROVE MakeTypes'
  BY <1>7 DEF Make!Compile, Make!Move, Make!Sweep, Make!MakeLib, Make!Tools
<1>8. ASSUME NEW m \in Makers, Make!RemoveConfs(m) \/ Make!AppendConfs(m) \/ Make!Touch(m) \/ Make!Dies(m) PROVE MakeTypes'
  BY <1>8 DEF Make!RemoveConfs, Make!AppendConfs, Make!Touch, Make!Dies
<1> QED BY <1>1, <1>2, <1>3, <1>4, <1>5, <1>6, <1>7, <1>8 DEF Make!Next

(* A step of m that goes on to l. *)
LEMMA GoesOn ==
  ASSUME MakeTypes, NEW m \in Makers, NEW l, Make!Goto(m, l)
  PROVE  /\ maker'[m] = l
         /\ \A n \in Makers : n # m => maker'[n] = maker[n]
BY DEF MakeTypes, Make!Goto

(* Only -cleanup removes the tools (Build-Tools:84-97). *)
LEMMA NextCleaners == MakeTypes /\ CleanersClean /\ [Make!Next]_Make!btVars => CleanersClean'
<1> SUFFICES ASSUME MakeTypes, CleanersClean, [Make!Next]_Make!btVars PROVE CleanersClean'
  OBVIOUS
<1> USE DEF CleanersClean, Make!Keep
<1>1. CASE UNCHANGED Make!btVars BY <1>1 DEF Make!btVars
<1>2. CASE Make!Edit BY <1>2 DEF Make!Edit
<1>3. ASSUME NEW m \in Makers, Make!Find(m) PROVE CleanersClean'
  BY <1>3, GoesOn DEF Make!Find, Make!AfterFind
<1>4. ASSUME NEW m \in Makers, Make!RemoveStamp(m) PROVE CleanersClean'
  BY <1>4, GoesOn DEF Make!RemoveStamp, Make!AfterFind
<1>5. ASSUME NEW m \in Makers, Make!Cleanup(m) PROVE CleanersClean'
  BY <1>5, GoesOn DEF Make!Cleanup
<1>6. ASSUME NEW m \in Makers, Make!Test(m) PROVE CleanersClean'
  BY <1>6, GoesOn DEF Make!Test
<1>7. ASSUME NEW m \in Makers, Make!Compile(m) \/ Make!Move(m) \/ Make!Sweep(m) \/ Make!MakeLib(m) PROVE CleanersClean'
  BY <1>7, GoesOn DEF Make!Compile, Make!Move, Make!Sweep, Make!MakeLib
<1>8. ASSUME NEW m \in Makers, Make!RemoveConfs(m) \/ Make!AppendConfs(m) \/ Make!Touch(m) \/ Make!Dies(m) PROVE CleanersClean'
  BY <1>8, GoesOn DEF Make!RemoveConfs, Make!AppendConfs, Make!Touch, Make!Dies
<1> QED BY <1>1, <1>2, <1>3, <1>4, <1>5, <1>6, <1>7, <1>8 DEF Make!Next

(* What has disturbed the work stays in the history. *)
LEMMA DisturbanceStays ==
  ASSUME MakeTypes, Make!Next, Undisturbed' PROVE Undisturbed
<1> USE DEF MakeTypes, Undisturbed, Make!Keep
<1>1. CASE Make!Edit BY <1>1, Zenon DEF Make!Edit
<1>2. ASSUME NEW m \in Makers, Make!Find(m) \/ Make!RemoveStamp(m) PROVE Undisturbed
  BY <1>2, Zenon DEF Make!Find, Make!RemoveStamp
<1>3. ASSUME NEW m \in Makers, Make!Cleanup(m) PROVE Undisturbed
  BY <1>3, Zenon DEF Make!Cleanup
<1>4. ASSUME NEW m \in Makers, Make!Test(m) PROVE Undisturbed
  BY <1>4, Zenon DEF Make!Test
<1>5. ASSUME NEW m \in Makers, Make!Compile(m) \/ Make!Move(m) \/ Make!Sweep(m) \/ Make!MakeLib(m) PROVE Undisturbed
  BY <1>5, Zenon DEF Make!Compile, Make!Move, Make!Sweep, Make!MakeLib
<1>6. ASSUME NEW m \in Makers, Make!RemoveConfs(m) \/ Make!AppendConfs(m) \/ Make!Touch(m) PROVE Undisturbed
  BY <1>6, Zenon DEF Make!RemoveConfs, Make!AppendConfs, Make!Touch
<1>7. ASSUME NEW m \in Makers, Make!Dies(m) PROVE Undisturbed
  BY <1>7, Zenon DEF Make!Dies
<1> QED BY <1>1, <1>2, <1>3, <1>4, <1>5, <1>6, <1>7 DEF Make!Next

--------------------------------------------------------------------------
(* An edit comes when nobody works, and the tools are those of the stamp. *)
LEMMA EditKeepsStamped ==
  ASSUME MakeTypes, Stamped, Make!Edit, missed' = FALSE PROVE Stamped'
<1>1. Make!Working = {} /\ UNCHANGED <<maker, lastupdate, tool, confs>>
  BY DEF Make!Edit, MakeTypes
<1>2. Making' = {} /\ \A m \in Makers : maker[m] # "unstamp2"
  BY <1>1 DEF Make!Working, Making, Make!WorkSteps
<1> QED
  BY <1>1, <1>2 DEF Stamped, Alone, Unstamped, Vouched

(* A step of a process that neither makes nor removes anything, and that     *)
(* leaves the stamp or removes it (Build-Tools:55-73, 97).                   *)
LEMMA OutsideKeepsStamped ==
  ASSUME MakeTypes, Stamped, NEW m \in Makers, NEW l \in {"clean", "unstamp", "test", "end"},
         Make!Goto(m, l), UNCHANGED <<edits, tool, confs>>, temp' = temp,
         (lastupdate' = lastupdate /\ maker[m] # "unstamp2") \/ lastupdate' = -1
  PROVE  Stamped'
<1>1. \A n \in Makers : n # m => maker'[n] = maker[n]
  BY GoesOn
<1>2. maker'[m] = l
  BY GoesOn
<1>3. \A n \in Making' : n # m /\ n \in Making /\ maker'[n] = maker[n]
  BY <1>1, <1>2 DEF Making, Make!WorkSteps
<1>4. Alone'
  BY <1>3 DEF Alone, Stamped
<1>5. Unstamped'
  BY <1>3 DEF Unstamped, Stamped
<1>6. \A n \in Making' : Progress(n)'
  BY <1>3 DEF Progress, Stamped
<1>7. Vouched'
  <2> SUFFICES ASSUME lastupdate' # -1, \A n \in Makers : maker'[n] # "unstamp2"
               PROVE  confs' = 1 /\ \A t \in Make!Tools : tool'[t] = lastupdate'
    BY DEF Vouched
  <2>1. lastupdate' = lastupdate /\ \A n \in Makers : maker[n] # "unstamp2"
    BY <1>1
  <2> QED BY <2>1 DEF Vouched, Stamped
<1> QED BY <1>4, <1>5, <1>6, <1>7 DEF Stamped

(* The tools go while nobody else works (Build-Tools:84-96). *)
LEMMA CleanupKeepsStamped ==
  ASSUME MakeTypes, Stamped, NEW m \in Makers, Make!Cleanup(m), overlapped' = FALSE PROVE Stamped'
<1>1. maker'[m] = "unstamp2" /\ \A n \in Makers : n # m => maker'[n] = maker[n]
  BY GoesOn DEF Make!Cleanup
<1>2. Make!Working = {m}
  BY Zenon DEF Make!Cleanup, MakeTypes
<1>3. Making' \subseteq {m}
  BY <1>1, <1>2 DEF Making, Make!Working
<1> QED BY <1>1, <1>3 DEF Stamped, Alone, Unstamped, Progress, Vouched

(* Without a stamp the work begins, and nobody else is at it                 *)
(* (Build-Tools:100).                                                        *)
LEMMA TestKeepsStamped ==
  ASSUME MakeTypes, Stamped, NEW m \in Makers, Make!Test(m), overlapped' = FALSE PROVE Stamped'
<1>1. UNCHANGED <<edits, lastupdate, tool, temp, confs>> /\ maker[m] = "test"
  BY DEF Make!Test, Make!Keep
<1>2. CASE lastupdate # -1
  <2>1. Make!Goto(m, "end")
    BY <1>2 DEF Make!Test
  <2> QED BY <1>1, <2>1, OutsideKeepsStamped
<1>3. CASE lastupdate = -1
  <2>1. maker'[m] = "cc" /\ \A n \in Makers : n # m => maker'[n] = maker[n]
    BY <1>3, GoesOn DEF Make!Test
  <2>2. Make!Working = {}
    BY <1>3, Zenon DEF Make!Test, MakeTypes
  <2>3. Making' \subseteq {m}
    BY <2>1, <2>2 DEF Making, Make!Working
  <2> QED BY <1>1, <1>3, <2>1, <2>3 DEF Stamped, Alone, Unstamped, Progress, Vouched
<1> QED BY <1>2, <1>3

(* A process that works alone makes the tools of the sources that are there  *)
(* (Build-Tools:106-382).                                                    *)
LEMMA WorkKeepsStamped ==
  ASSUME MakeTypes, Stamped, NEW m \in Makers,
         Make!Compile(m) \/ Make!Move(m) \/ Make!Sweep(m) \/ Make!MakeLib(m) \/ Make!RemoveConfs(m) \/ Make!AppendConfs(m)
  PROVE  Stamped'
<1>1. m \in Making /\ maker[m] # "unstamp2" /\ UNCHANGED <<edits, lastupdate>>
  BY DEF Making, Make!WorkSteps, Make!Compile, Make!Move, Make!Sweep, Make!MakeLib, Make!RemoveConfs, Make!AppendConfs, Make!Keep
<1>2. lastupdate = -1 /\ Progress(m)
  BY <1>1 DEF Stamped, Unstamped
<1>3. PICK l \in {"mv", "sweep", "lib", "rmconf", "conf", "touch"} : Make!Goto(m, l)
  BY DEF Make!Compile, Make!Move, Make!Sweep, Make!MakeLib, Make!RemoveConfs, Make!AppendConfs
<1>4. maker'[m] = l /\ \A n \in Makers : n # m => maker'[n] = maker[n]
  BY <1>3, GoesOn
<1>5. Making' = {m}
  BY <1>1, <1>3, <1>4 DEF Making, Stamped, Alone, Make!WorkSteps
<1>6. Progress(m)'
  <2> USE <1>1, <1>2, <1>4, GoesOn DEF Progress, MakeTypes, Make!Tools
  <2>1. CASE Make!Compile(m) BY <2>1 DEF Make!Compile
  <2>2. CASE Make!Move(m)
    <3>1. temp[m] # -1 /\ temp[m] = edits
      BY <2>2 DEF Make!Move
    <3> QED BY <2>2, <3>1 DEF Make!Move
  <2>3. CASE Make!Sweep(m) BY <2>3 DEF Make!Sweep
  <2>4. CASE Make!MakeLib(m) BY <2>4 DEF Make!MakeLib
  <2>5. CASE Make!RemoveConfs(m) BY <2>5 DEF Make!RemoveConfs
  <2>6. CASE Make!AppendConfs(m) BY <2>6 DEF Make!AppendConfs
  <2> QED BY <2>1, <2>2, <2>3, <2>4, <2>5, <2>6
<1> QED
  BY <1>1, <1>2, <1>5, <1>6 DEF Stamped, Alone, Unstamped, Vouched

(* The stamp gets the time of the sources that were used (Build-Tools:394). *)
LEMMA TouchKeepsStamped ==
  ASSUME MakeTypes, Stamped, NEW m \in Makers, Make!Touch(m) PROVE Stamped'
<1>1. m \in Making /\ maker[m] = "touch" /\ UNCHANGED <<edits, tool, confs>> /\ lastupdate' = edits
  BY DEF Making, Make!WorkSteps, Make!Touch, Make!Keep
<1>2. confs = 1 /\ \A t \in Make!Tools : tool[t] = edits
  BY <1>1 DEF Stamped, Progress, Make!Tools
<1>3. maker'[m] = "end" /\ \A n \in Makers : n # m => maker'[n] = maker[n]
  BY GoesOn DEF Make!Touch
<1>4. Making' = {}
  BY <1>1, <1>3 DEF Making, Stamped, Alone, Make!WorkSteps
<1> QED BY <1>1, <1>2, <1>4 DEF Stamped, Alone, Unstamped, Vouched

(* Who dies leaves what is there; a stamp is not there unless it was. *)
LEMMA DeathKeepsStamped ==
  ASSUME MakeTypes, CleanersClean, Stamped, NEW m \in Makers, Make!Dies(m), "cleanup" \notin dead'
  PROVE  Stamped'
<1>1. maker[m] # "unstamp2"
  BY DEF Make!Dies, CleanersClean
<1>2. Make!Goto(m, "end") /\ UNCHANGED <<edits, lastupdate, tool, temp, confs>>
  BY DEF Make!Dies
<1> QED BY <1>1, <1>2, OutsideKeepsStamped

(* Every step keeps what the stamp vouches for (Build-Tools:55-394). *)
LEMMA NextStamp == MakeTypes /\ CleanersClean /\ StampInv /\ [Make!Next]_Make!btVars => StampInv'
<1> SUFFICES ASSUME MakeTypes, CleanersClean, StampInv, [Make!Next]_Make!btVars, Undisturbed' PROVE Stamped'
  BY DEF StampInv
<1>1. CASE UNCHANGED Make!btVars
  <2>1. UNCHANGED <<maker, edits, lastupdate, tool, temp, confs>> /\ Undisturbed
    BY <1>1 DEF Make!btVars, Undisturbed
  <2>2. Making' = Making
    BY <2>1 DEF Making
  <2> QED
    BY <2>1, <2>2 DEF StampInv, Stamped, Alone, Unstamped, Progress, Vouched
<1>2. CASE Make!Next
  <2>1. Stamped
    BY <1>2, DisturbanceStays DEF StampInv
  <2> USE <2>1
  <2>2. CASE Make!Edit
    BY <2>2, EditKeepsStamped DEF Undisturbed
  <2>3. ASSUME NEW m \in Makers, Make!Find(m) PROVE Stamped'
    <3>1. PICK l \in {"clean", "unstamp", "test"} : Make!Goto(m, l)
      BY <2>3 DEF Make!Find, Make!AfterFind
    <3> QED BY <2>3, <3>1, OutsideKeepsStamped DEF Make!Find, Make!Keep
  <2>4. ASSUME NEW m \in Makers, Make!RemoveStamp(m) PROVE Stamped'
    <3>1. PICK l \in {"clean", "test"} : Make!Goto(m, l)
      BY <2>4 DEF Make!RemoveStamp, Make!AfterFind
    <3> QED BY <2>4, <3>1, OutsideKeepsStamped DEF Make!RemoveStamp, Make!Keep
  <2>5. ASSUME NEW m \in Makers, Make!Cleanup(m) PROVE Stamped'
    BY <2>5, CleanupKeepsStamped DEF Undisturbed
  <2>6. ASSUME NEW m \in Makers, Make!Test(m) PROVE Stamped'
    BY <2>6, TestKeepsStamped DEF Undisturbed
  <2>7. ASSUME NEW m \in Makers,
               Make!Compile(m) \/ Make!Move(m) \/ Make!Sweep(m) \/ Make!MakeLib(m) \/ Make!RemoveConfs(m) \/ Make!AppendConfs(m)
        PROVE  Stamped'
    BY <2>7, WorkKeepsStamped
  <2>8. ASSUME NEW m \in Makers, Make!Touch(m) PROVE Stamped'
    BY <2>8, TouchKeepsStamped
  <2>9. ASSUME NEW m \in Makers, Make!Dies(m) PROVE Stamped'
    BY <2>9, DeathKeepsStamped DEF Undisturbed
  <2> QED BY <1>2, <2>2, <2>3, <2>4, <2>5, <2>6, <2>7, <2>8, <2>9 DEF Make!Next
<1> QED BY <1>1, <1>2

--------------------------------------------------------------------------
(* If nobody has died or cleans up at the end of a step, nobody had before   *)
(* it, and it was none of the two.                                           *)
LEMMA OrderStays ==
  ASSUME MakeTypes, CleanersClean, Make!Next, Orderly'
  PROVE  /\ Orderly
         /\ \A m \in Makers : ~Make!Cleanup(m) /\ ~Make!Dies(m) /\ maker[m] # "unstamp2"
<1>1. flag' = flag /\ dead \subseteq dead' /\ \A m \in Makers : ~Make!Dies(m)
  <2> USE DEF Make!Keep
  <2>1. CASE Make!Edit BY <2>1 DEF Make!Edit, Make!Dies, MakeTypes
  <2>2. ASSUME NEW m \in Makers, Make!Find(m) \/ Make!RemoveStamp(m) \/ Make!Cleanup(m) \/ Make!Test(m)
        PROVE  UNCHANGED <<flag, dead>>
    BY <2>2 DEF Make!Find, Make!RemoveStamp, Make!Cleanup, Make!Test
  <2>3. ASSUME NEW m \in Makers, Make!Compile(m) \/ Make!Move(m) \/ Make!Sweep(m) \/ Make!MakeLib(m) PROVE UNCHANGED <<flag, dead>>
    BY <2>3 DEF Make!Compile, Make!Move, Make!Sweep, Make!MakeLib
  <2>4. ASSUME NEW m \in Makers, Make!RemoveConfs(m) \/ Make!AppendConfs(m) \/ Make!Touch(m) PROVE UNCHANGED <<flag, dead>>
    BY <2>4 DEF Make!RemoveConfs, Make!AppendConfs, Make!Touch
  <2>5. \A m \in Makers : ~Make!Dies(m)
    BY DEF Make!Dies, Orderly
  <2> QED BY <2>1, <2>2, <2>3, <2>4, <2>5 DEF Make!Next, Make!Edit
<1>2. Orderly
  BY <1>1 DEF Orderly
<1>3. \A m \in Makers : ~Make!Cleanup(m) /\ maker[m] # "unstamp2"
  BY <1>2 DEF Orderly, CleanersClean, Make!Cleanup
<1> QED BY <1>1, <1>2, <1>3

(* A step that takes no tool and no line away, where m is right in its next  *)
(* place, keeps the others right (Build-Tools:55-394).                       *)
LEMMA OthersStayMade ==
  ASSUME MakeTypes, ThereInv, Orderly, NEW m \in Makers, NEW l, Make!Goto(m, l),
         \A t \in Make!Tools : tool[t] # -1 => tool'[t] # -1,
         \A n \in Makers : n # m /\ temp[n] # -1 => temp'[n] # -1 \/ tool'["wrapper"] # -1,
         confs # 0 \/ Appending => confs' # 0 \/ Appending',
         IsMade(m)', lastupdate' # -1 => lastupdate # -1 \/ Present'
  PROVE  ThereInv'
<1>1. maker'[m] = l /\ \A n \in Makers : n # m => maker'[n] = maker[n]
  BY GoesOn
<1>2. ASSUME NEW n \in Makers, n # m PROVE IsMade(n)'
  BY <1>1, <1>2 DEF ThereInv, IsMade, Make!Tools
<1>3. Present'
  BY DEF ThereInv, Present
<1> QED BY <1>2, <1>3 DEF ThereInv

(* Find, the removal of the stamp and the test (Build-Tools:55-100). *)
LEMMA OutsideKeepsThere ==
  ASSUME MakeTypes, ThereInv, Orderly, NEW m \in Makers, NEW l \in {"clean", "unstamp", "test", "cc", "end"},
         Make!Goto(m, l), maker[m] # "conf", UNCHANGED <<tool, temp, confs>>,
         lastupdate' = lastupdate \/ lastupdate' = -1
  PROVE  ThereInv'
<1>1. maker'[m] = l /\ \A n \in Makers : n # m => maker'[n] = maker[n]
  BY GoesOn
<1>2. Appending => Appending'
  BY <1>1 DEF Appending
<1>3. IsMade(m)'
  BY <1>1 DEF IsMade
<1> QED BY <1>2, <1>3, OthersStayMade

(* The work on a tool (Build-Tools:106-351). *)
LEMMA WorkKeepsThere ==
  ASSUME MakeTypes, ThereInv, Orderly, NEW m \in Makers,
         Make!Compile(m) \/ Make!Move(m) \/ Make!Sweep(m) \/ Make!MakeLib(m)
  PROVE  ThereInv'
<1>1. PICK l \in {"mv", "sweep", "lib", "rmconf"} : Make!Goto(m, l)
  BY DEF Make!Compile, Make!Move, Make!Sweep, Make!MakeLib
<1>2. maker'[m] = l /\ \A n \in Makers : n # m => maker'[n] = maker[n]
  BY <1>1, GoesOn
<1>3. UNCHANGED <<confs, lastupdate>> /\ maker[m] # "conf" /\ IsMade(m)
  BY DEF Make!Compile, Make!Move, Make!Sweep, Make!MakeLib, ThereInv
<1>4. Appending => Appending'
  BY <1>2, <1>3 DEF Appending
<1> USE DEF MakeTypes, Make!Tools, IsMade
<1>5. CASE Make!Compile(m)
  <2>1. tool' = tool /\ temp' = [temp EXCEPT ![m] = edits] /\ IsMade(m)'
    BY <1>2, <1>5, GoesOn DEF Make!Compile
  <2> QED BY <1>1, <1>3, <1>4, <2>1, OthersStayMade
<1>6. CASE Make!Move(m)
  <2>1. temp' = [temp EXCEPT ![m] = -1] /\ tool'["wrapper"] # -1 /\ tool'["lib"] = tool["lib"]
    <3>1. CASE temp[m] = -1 BY <1>3, <1>6, <3>1 DEF Make!Move
    <3>2. CASE temp[m] # -1 BY <1>6, <3>2 DEF Make!Move
    <3> QED BY <3>1, <3>2
  <2>2. IsMade(m)'
    BY <1>2, <1>6, <2>1, GoesOn DEF Make!Move
  <2> QED BY <1>1, <1>3, <1>4, <2>1, <2>2, OthersStayMade
<1>7. CASE Make!Sweep(m)
  <2>1. tool' = tool /\ tool["wrapper"] # -1
    BY <1>3, <1>7 DEF Make!Sweep
  <2>2. IsMade(m)'
    BY <1>2, <1>7, <2>1, GoesOn DEF Make!Sweep
  <2> QED BY <1>1, <1>3, <1>4, <2>1, <2>2, OthersStayMade
<1>8. CASE Make!MakeLib(m)
  <2>1. tool' = [tool EXCEPT !["lib"] = edits] /\ temp' = temp /\ tool["wrapper"] # -1
    BY <1>3, <1>8 DEF Make!MakeLib
  <2>2. IsMade(m)'
    BY <1>2, <1>8, <2>1, GoesOn DEF Make!MakeLib
  <2> QED BY <1>1, <1>3, <1>4, <2>1, <2>2, OthersStayMade
<1> QED BY <1>5, <1>6, <1>7, <1>8

(* The lines of lib/pkg_*.conf, and the stamp (Build-Tools:357-394). *)
LEMMA ConfsKeepThere ==
  ASSUME MakeTypes, ThereInv, Orderly, NEW m \in Makers,
         Make!RemoveConfs(m) \/ Make!AppendConfs(m) \/ Make!Touch(m)
  PROVE  ThereInv'
<1>1. PICK l \in {"conf", "touch", "end"} : Make!Goto(m, l)
  BY DEF Make!RemoveConfs, Make!AppendConfs, Make!Touch
<1>2. maker'[m] = l /\ \A n \in Makers : n # m => maker'[n] = maker[n]
  BY <1>1, GoesOn
<1>3. UNCHANGED <<tool, temp>> /\ tool["wrapper"] # -1 /\ tool["lib"] # -1
  BY DEF Make!RemoveConfs, Make!AppendConfs, Make!Touch, ThereInv, IsMade
<1>4. CASE Make!RemoveConfs(m)
  <2>1. Appending' /\ lastupdate' = lastupdate /\ IsMade(m)'
    BY <1>2, <1>3, <1>4, GoesOn DEF Make!RemoveConfs, Appending, IsMade
  <2> QED BY <1>1, <1>3, <2>1, OthersStayMade
<1>5. CASE Make!AppendConfs(m)
  <2>1. confs' # 0 /\ lastupdate' = lastupdate
    BY <1>5 DEF Make!AppendConfs, MakeTypes
  <2>2. IsMade(m)'
    BY <1>2, <1>3, <1>5, <2>1, GoesOn DEF Make!AppendConfs, IsMade
  <2> QED BY <1>1, <1>3, <2>1, <2>2, OthersStayMade
<1>6. CASE Make!Touch(m)
  <2>1. confs' = confs /\ (confs # 0 \/ Appending)
    BY <1>6 DEF Make!Touch, ThereInv, IsMade
  <2>2. Appending => Appending'
    BY <1>2, <1>6 DEF Appending, Make!Touch
  <2>3. Present'
    BY <1>3, <2>1, <2>2 DEF Present, Make!Tools
  <2>4. IsMade(m)'
    BY <1>2, <1>6, GoesOn DEF Make!Touch, IsMade
  <2> QED BY <1>1, <1>3, <2>1, <2>2, <2>3, <2>4, OthersStayMade
<1> QED BY <1>4, <1>5, <1>6

(* Every step keeps the tools there (Build-Tools:55-394). *)
LEMMA NextThere == MakeTypes /\ CleanersClean /\ ThereInv /\ [Make!Next]_Make!btVars => ThereInv'
<1> SUFFICES ASSUME MakeTypes, CleanersClean, ThereInv, [Make!Next]_Make!btVars, Orderly' PROVE ThereInv'
  BY DEF ThereInv
<1>1. CASE UNCHANGED Make!btVars
  BY <1>1 DEF Make!btVars, ThereInv, Orderly, IsMade, Present, Appending
<1>2. CASE Make!Next
  <2>1. Orderly /\ \A m \in Makers : ~Make!Cleanup(m) /\ ~Make!Dies(m) /\ maker[m] # "unstamp2"
    BY <1>2, OrderStays
  <2>2. CASE Make!Edit
    BY <2>1, <2>2 DEF Make!Edit, ThereInv, IsMade, Present, Appending
  <2>3. ASSUME NEW m \in Makers, Make!Find(m) PROVE ThereInv'
    <3>1. PICK l \in {"clean", "unstamp", "test"} : Make!Goto(m, l)
      BY <2>3 DEF Make!Find, Make!AfterFind
    <3> QED BY <2>1, <2>3, <3>1, OutsideKeepsThere DEF Make!Find
  <2>4. ASSUME NEW m \in Makers, Make!RemoveStamp(m) PROVE ThereInv'
    <3>1. PICK l \in {"clean", "test"} : Make!Goto(m, l)
      BY <2>4 DEF Make!RemoveStamp, Make!AfterFind
    <3> QED BY <2>1, <2>4, <3>1, OutsideKeepsThere DEF Make!RemoveStamp
  <2>5. ASSUME NEW m \in Makers, Make!Test(m) PROVE ThereInv'
    <3>1. PICK l \in {"cc", "end"} : Make!Goto(m, l)
      BY <2>5 DEF Make!Test
    <3> QED BY <2>1, <2>5, <3>1, OutsideKeepsThere DEF Make!Test
  <2>6. ASSUME NEW m \in Makers, Make!Compile(m) \/ Make!Move(m) \/ Make!Sweep(m) \/ Make!MakeLib(m) PROVE ThereInv'
    BY <2>1, <2>6, WorkKeepsThere
  <2>7. ASSUME NEW m \in Makers, Make!RemoveConfs(m) \/ Make!AppendConfs(m) \/ Make!Touch(m) PROVE ThereInv'
    BY <2>1, <2>7, ConfsKeepThere
  <2> QED BY <1>2, <2>1, <2>2, <2>3, <2>4, <2>5, <2>6, <2>7 DEF Make!Next
<1> QED BY <1>1, <1>2

(* .lastupdate vouches for tools of the sources at its time, unless an edit  *)
(* came while they were made, two made them together or a -cleanup died; and *)
(* for tools that are there if nobody dies and nobody cleans up              *)
(* (Build-Tools:55-112, 357-394).                                            *)
THEOREM StampVouches == Make!Spec => []Make!StampIsRight
<1>1. MakeTypes /\ CleanersClean /\ StampInv /\ ThereInv => Make!StampIsRight
  <2> SUFFICES ASSUME MakeTypes, StampInv, ThereInv, lastupdate # -1, Make!Working = {}
               PROVE  /\ missed \/ overlapped \/ "cleanup" \in dead
                           \/ (confs = 1 /\ \A t \in Make!Tools : tool[t] = lastupdate)
                      /\ dead # {} \/ (\E m \in Makers : flag[m] = "cleanup")
                           \/ (confs > 0 /\ \A t \in Make!Tools : tool[t] # -1)
    BY Zenon DEF Make!StampIsRight
  <2>1. \A m \in Makers : maker[m] # "unstamp2" /\ maker[m] # "conf"
    BY DEF Make!Working, Make!WorkSteps
  <2>2. \/ missed = TRUE \/ overlapped = TRUE \/ "cleanup" \in dead
        \/ confs = 1 /\ \A t \in Make!Tools : tool[t] = lastupdate
    BY <2>1 DEF MakeTypes, StampInv, Stamped, Undisturbed, Vouched
  <2>3. \/ dead # {} \/ \E m \in Makers : flag[m] = "cleanup"
        \/ confs > 0 /\ \A t \in Make!Tools : tool[t] # -1
    BY <2>1 DEF MakeTypes, ThereInv, Orderly, Present, Appending
  <2> QED BY <2>2, <2>3, Zenon
<1> QED BY <1>1, InitTools, NextTypes, NextCleaners, NextStamp, NextThere, PTL DEF Make!Spec

--------------------------------------------------------------------------
(***************************************************************************)
(* For any number of builds: what a build can lose while it works, its     *)
(* directory and its mounts, it loses in the ways that the histories name. *)
(***************************************************************************)
Late == {"clean", "leave", "fuser", "umount", "end"}
WithDir == {"enter", "prepare", "pid"}
DirSteps == {"start", "test", "mount", "mkdir"} \cup WithDir \cup Chroots!InBlock \cup Late
(* Where a build of Build-Target has its log open. *)
Logged == {"test", "mount", "mkdir", "leave", "clean"} \cup WithDir \cup Chroots!InBlock

(* The next steps of a build, and the groups they are in. *)
LEMMA DirStepNames ==
  /\ DirSteps = {"start", "test", "mount", "mkdir", "enter", "prepare", "pid", "archdir", "work",
              "clean", "leave", "fuser", "umount", "end"}
  /\ Late = {"clean", "leave", "fuser", "umount", "end"}
  /\ WithDir = {"enter", "prepare", "pid"} /\ Chroots!InBlock = {"archdir", "work"}
  /\ Logged = {"test", "mount", "mkdir", "enter", "prepare", "pid", "archdir", "work", "clean", "leave"}
  /\ Chroots!InChroot = {"prepare", "pid", "clean", "archdir", "work"}
BY DEF DirSteps, Late, WithDir, Chroots!InBlock, Logged, Chroots!InChroot

Excused == early \cup purged

(* A directory is there from its making on, with build.pid open from the      *)
(* start of the work on, unless Cleanup came early or with -build; and        *)
(* Cleanup is about to remove only such directories, or those of builds that  *)
(* have ended their work.  What it removes with -build is not mounted.        *)
DirInv ==
  /\ buildPc \in [Builds -> DirSteps] /\ mounted \in Nat
  /\ \A b \in Builds : buildPc[b] \in {"start", "test", "mount", "mkdir"} => b \notin srcdirs
  /\ \A b \in Builds : buildPc[b] \in WithDir /\ b \notin srcdirs => b \in Excused
  /\ \A b \in Builds : buildPc[b] \in Chroots!InBlock /\ b \notin pidfiles => b \in Excused
  /\ \A b \in Builds : cleaning = "rm" /\ b \in looked => buildPc[b] \in Late \/ b \in Excused
  /\ torn \subseteq Builds /\ srcdirs \subseteq Builds /\ looked \subseteq Builds
  /\ torn \subseteq Excused
  /\ cleaning = "rmbuild" => mounted = 0 \/ remounted
  /\ wiped => remounted

LEMMA InitDirs == Chroots!Init => DirInv
<1> SUFFICES ASSUME Chroots!Init PROVE DirInv OBVIOUS
<1>1. \A b \in Builds : buildPc[b] \in {"start", "test"} BY DEF Chroots!Init
<1>2. buildPc \in [Builds -> DirSteps] BY DirStepNames DEF Chroots!Init
<1> QED BY <1>1, <1>2, DirStepNames DEF Chroots!Init, DirInv

(* A step of b, which changes no directory and no build.pid but its own, and  *)
(* mounts only what -build will see (Build-Pkg:168-245, Cleanup:70-121).      *)
LEMMA BuildStep ==
  ASSUME DirInv, NEW b \in Builds, NEW l \in DirSteps, Chroots!Goto(b, l),
         UNCHANGED <<cleaning, looked, early, torn, purged, wiped>>,
         \A c \in Builds : c # b => (c \in srcdirs' <=> c \in srcdirs) /\ (c \in pidfiles' <=> c \in pidfiles),
         srcdirs' \subseteq Builds,
         l \in {"start", "test", "mount", "mkdir"} => b \notin srcdirs',
         l \in WithDir /\ b \notin srcdirs' => b \in Excused,
         l \in Chroots!InBlock /\ b \notin pidfiles' => b \in Excused,
         buildPc[b] \in Late => l \in Late,
         mounted' \in Nat, remounted => remounted',
         cleaning = "rmbuild" => mounted' <= mounted \/ remounted'
  PROVE  DirInv'
<1>1. buildPc' = [buildPc EXCEPT ![b] = l] /\ buildPc' \in [Builds -> DirSteps]
  BY DEF DirInv, Chroots!Goto
<1>2. Excused' = Excused BY DEF Excused
<1>3. \A c \in Builds : buildPc'[c] \in {"start", "test", "mount", "mkdir"} => c \notin srcdirs'
  BY <1>1 DEF DirInv
<1>4. \A c \in Builds : buildPc'[c] \in WithDir /\ c \notin srcdirs' => c \in Excused'
  BY <1>1, <1>2 DEF DirInv
<1>5. \A c \in Builds : buildPc'[c] \in Chroots!InBlock /\ c \notin pidfiles' => c \in Excused'
  BY <1>1, <1>2 DEF DirInv
<1>6. \A c \in Builds : cleaning' = "rm" /\ c \in looked' => buildPc'[c] \in Late \/ c \in Excused'
  BY <1>1, <1>2 DEF DirInv
<1>7. cleaning' = "rmbuild" => mounted' = 0 \/ remounted' BY DEF DirInv
<1> QED BY <1>1, <1>2, <1>3, <1>4, <1>5, <1>6, <1>7 DEF DirInv

(* umount takes no more off than there is (Build-Target:304-305). *)
LEMMA UnmountedLess == DirInv => Chroots!Unmounted \in Nat /\ Chroots!Unmounted <= mounted
BY SMT DEF DirInv, Chroots!Unmounted

(* A build makes, enters, uses and leaves its directory (Build-Pkg:168-245). *)
LEMMA BuildSteps ==
  ASSUME DirInv, NEW b \in Builds
  PROVE  /\ Chroots!OpenLog(b) => DirInv'
         /\ Chroots!TestMounts(b) => DirInv'
         /\ Chroots!Mount(b) => DirInv'
         /\ Chroots!MakeDir(b) => DirInv'
         /\ Chroots!Enter(b) => DirInv'
         /\ Chroots!OpenPid(b) => DirInv'
         /\ Chroots!Worked(b) => DirInv'
         /\ \A keep \in BOOLEAN : Chroots!CleanupSrc(b, keep) => DirInv'
         /\ Chroots!Leave(b) => DirInv'
         /\ Chroots!Fuser(b) => DirInv'
         /\ Chroots!Umount(b) => DirInv'
         /\ Chroots!Killed(b) => DirInv'
<1> USE DEF Chroots!Cleaner, Chroots!Harm
<1>0. /\ buildPc[b] \in DirSteps /\ mounted \in Nat /\ srcdirs \subseteq Builds
      /\ buildPc[b] \in {"start", "test", "mount", "mkdir"} => b \notin srcdirs
      /\ buildPc[b] \in WithDir /\ b \notin srcdirs => b \in Excused
      /\ buildPc[b] \in Chroots!InBlock /\ b \notin pidfiles => b \in Excused
  BY DEF DirInv
<1>1. CASE Chroots!OpenLog(b) BY <1>0, <1>1, BuildStep, DirStepNames DEF Chroots!OpenLog
<1>2. CASE Chroots!TestMounts(b)
  <2>1. CASE mounted = 0
    <3>1. Chroots!Goto(b, "mount") BY <1>2, <2>1 DEF Chroots!TestMounts
    <3> QED BY <1>0, <1>2, <3>1, BuildStep, DirStepNames DEF Chroots!TestMounts
  <2>2. CASE mounted # 0
    <3>1. Chroots!Goto(b, "mkdir") BY <1>2, <2>2 DEF Chroots!TestMounts
    <3> QED BY <1>0, <1>2, <3>1, BuildStep, DirStepNames DEF Chroots!TestMounts
  <2> QED BY <2>1, <2>2
<1>3. CASE Chroots!Mount(b)
  <2>1. (remounted => remounted') /\ (cleaning = "rmbuild" => remounted') BY <1>3 DEF Chroots!Mount
  <2>2. mounted' \in Nat /\ Chroots!Goto(b, "mkdir") BY <1>0, <1>3 DEF Chroots!Mount
  <2>3. UNCHANGED <<srcdirs, pidfiles, cleaning, looked, early, torn, purged, wiped>> BY <1>3 DEF Chroots!Mount
  <2>4. b \notin srcdirs BY <1>0, <1>3 DEF Chroots!Mount
  <2>5. /\ \A c \in Builds : c # b => (c \in srcdirs' <=> c \in srcdirs) /\ (c \in pidfiles' <=> c \in pidfiles)
        /\ srcdirs' \subseteq Builds /\ b \notin srcdirs'
    BY <1>0, <2>3, <2>4
  <2>6. /\ "mkdir" \in DirSteps /\ "mkdir" \notin WithDir /\ "mkdir" \notin Chroots!InBlock
        /\ buildPc[b] \notin Late
    BY <1>3, DirStepNames DEF Chroots!Mount
  <2> QED BY ZenonT(30), <2>1, <2>2, <2>3, <2>5, <2>6, BuildStep
<1>4. CASE Chroots!MakeDir(b)
  <2>0. b \in srcdirs' /\ srcdirs' \subseteq Builds /\ \A c \in Builds : c # b => (c \in srcdirs' <=> c \in srcdirs)
    BY <1>0, <1>4 DEF Chroots!MakeDir
  <2>1. CASE buildPc[b] = "mkdir"
    <3>1. Chroots!Goto(b, "enter") BY <1>4, <2>1 DEF Chroots!MakeDir
    <3> QED BY <1>0, <1>4, <2>0, <2>1, <3>1, BuildStep, DirStepNames DEF Chroots!MakeDir
  <2>2. CASE buildPc[b] = "prepare"
    <3>1. Chroots!Goto(b, "pid") BY <1>4, <2>2 DEF Chroots!MakeDir
    <3> QED BY <1>0, <1>4, <2>0, <2>2, <3>1, BuildStep, DirStepNames DEF Chroots!MakeDir
  <2>3. CASE buildPc[b] = "archdir"
    <3>1. Chroots!Goto(b, "work") BY <1>4, <2>3 DEF Chroots!MakeDir
    <3> QED BY <1>0, <1>4, <2>0, <2>3, <3>1, BuildStep, DirStepNames DEF Chroots!MakeDir
  <2> QED BY <1>4, <2>1, <2>2, <2>3 DEF Chroots!MakeDir
<1>5. CASE Chroots!Enter(b)
  <2>1. CASE b \in srcdirs
    <3>1. Chroots!Goto(b, "prepare") BY <1>5, <2>1 DEF Chroots!Enter
    <3> QED BY <1>0, <1>5, <2>1, <3>1, BuildStep, DirStepNames DEF Chroots!Enter
  <2>2. CASE b \notin srcdirs
    <3>1. Chroots!Goto(b, "leave") BY <1>5, <2>2 DEF Chroots!Enter
    <3> QED BY <1>0, <1>5, <2>2, <3>1, BuildStep, DirStepNames DEF Chroots!Enter
  <2> QED BY <2>1, <2>2
<1>6. CASE Chroots!OpenPid(b)
  <2>1. \A c \in Builds : c # b => (c \in pidfiles' <=> c \in pidfiles) BY <1>6 DEF Chroots!OpenPid
  <2>2. b \notin pidfiles' => b \in Excused BY <1>0, <1>6, DirStepNames DEF Chroots!OpenPid
  <2> QED BY <1>0, <1>6, <2>1, <2>2, BuildStep, DirStepNames DEF Chroots!OpenPid
<1>7. CASE Chroots!Worked(b) BY <1>0, <1>7, BuildStep, DirStepNames DEF Chroots!Worked
<1>8. ASSUME NEW keep \in BOOLEAN, Chroots!CleanupSrc(b, keep) PROVE DirInv'
  <2>1. srcdirs' \subseteq Builds /\ \A c \in Builds : c # b => (c \in srcdirs' <=> c \in srcdirs)
    BY <1>0, <1>8 DEF Chroots!CleanupSrc
  <2> QED BY <1>0, <1>8, <2>1, BuildStep, DirStepNames DEF Chroots!CleanupSrc
<1>9. CASE Chroots!Leave(b)
  <2>1. PICK l \in {"fuser", "end"} : Chroots!Goto(b, l) BY <1>9 DEF Chroots!Leave
  <2> QED BY <1>0, <1>9, <2>1, BuildStep, DirStepNames DEF Chroots!Leave
<1>10. CASE Chroots!Fuser(b)
  <2>1. PICK l \in {"umount", "end"} : Chroots!Goto(b, l) BY <1>10 DEF Chroots!Fuser
  <2> QED BY <1>0, <1>10, <2>1, BuildStep, DirStepNames DEF Chroots!Fuser
<1>11. CASE Chroots!Umount(b)
  BY <1>0, <1>11, UnmountedLess, BuildStep, DirStepNames DEF Chroots!Umount
<1>12. CASE Chroots!Killed(b) BY <1>0, <1>12, BuildStep, DirStepNames DEF Chroots!Killed
<1> QED BY <1>1, <1>2, <1>3, <1>4, <1>5, <1>6, <1>7, <1>8, <1>9, <1>10, <1>11, <1>12

(* Cleanup, directory by directory (Cleanup:62-82). *)
LEMMA CleanupSteps ==
  ASSUME DirInv
  PROVE  /\ Chroots!StartCleanup => DirInv'
         /\ \A b \in Builds : Chroots!Look(b) => DirInv'
         /\ Chroots!RemoveDir => DirInv'
         /\ Chroots!UmountBuild => DirInv'
         /\ Chroots!RemoveBuild => DirInv'
         /\ Chroots!EndCleanup => DirInv'
<1> USE DEF Chroots!Cleaner, Chroots!Harm
<1>1. CASE Chroots!StartCleanup
  BY <1>1 DEF Chroots!StartCleanup, DirInv, Excused
<1>2. ASSUME NEW b \in Builds, Chroots!Look(b) PROVE DirInv'
  <2>1. /\ UNCHANGED <<buildPc, mounted, srcdirs, pidfiles, torn, purged, remounted, wiped>>
        /\ looked' = {b} /\ early \subseteq early' /\ cleaning' # "rmbuild"
    BY <1>2 DEF Chroots!Look
  <2>2. Excused \subseteq Excused' BY <2>1 DEF Excused
  <2>3. cleaning' = "rm" => b \in srcdirs /\ b \notin pidfiles BY <1>2 DEF Chroots!Look
  <2>4. buildPc[b] \in WithDir => b \in Excused' BY <1>2, DirStepNames DEF Chroots!Look, Excused
  <2>5. buildPc[b] \in {"start", "test", "mount", "mkdir"} => b \notin srcdirs
    BY DEF DirInv
  <2>6. buildPc[b] \in Chroots!InBlock /\ b \notin pidfiles => b \in Excused
    BY DEF DirInv
  <2>7. buildPc[b] \in DirSteps BY DEF DirInv
  <2>8. cleaning' = "rm" => buildPc[b] \in Late \/ b \in Excused'
    BY <2>2, <2>3, <2>4, <2>5, <2>6, <2>7 DEF DirSteps
  <2> QED BY <2>1, <2>2, <2>8 DEF DirInv
<1>3. CASE Chroots!RemoveDir
  <2>1. /\ UNCHANGED <<buildPc, mounted, looked, early, purged, remounted, wiped>>
        /\ cleaning = "rm" /\ cleaning' = "look"
        /\ srcdirs' = srcdirs \ looked /\ pidfiles' = pidfiles \ looked
        /\ torn' = torn \cup {b \in looked : buildPc[b] \in Chroots!InBlock}
    BY <1>3 DEF Chroots!RemoveDir
  <2>2. Excused' = Excused BY <2>1 DEF Excused
  <2>3. \A b \in Builds : b \in looked => buildPc[b] \in Late \/ b \in Excused
    BY <2>1 DEF DirInv
  <2>4. \A b \in looked : buildPc[b] \in Chroots!InBlock => b \in Excused
    BY <2>3, DirStepNames DEF DirInv
  <2>5. \A b \in looked : buildPc[b] \in WithDir => b \in Excused
    BY <2>3, DirStepNames DEF DirInv
  <2> QED BY <2>1, <2>2, <2>4, <2>5 DEF DirInv
<1>4. CASE Chroots!UmountBuild
  <2>1. /\ UNCHANGED <<buildPc, srcdirs, pidfiles, looked, early, torn, remounted, wiped>>
        /\ mounted' = Chroots!Unmounted /\ purged \subseteq purged' /\ cleaning' # "rm"
        /\ cleaning' = "rmbuild" => mounted' = 0
    BY <1>4 DEF Chroots!UmountBuild
  <2>2. Excused \subseteq Excused' BY <2>1 DEF Excused
  <2> QED BY <2>1, <2>2, UnmountedLess DEF DirInv
<1>5. CASE Chroots!RemoveBuild
  <2>1. /\ UNCHANGED <<buildPc, mounted, looked, early, remounted>>
        /\ cleaning = "rmbuild" /\ cleaning' = "end"
        /\ srcdirs' = {} /\ pidfiles' = {}
        /\ torn' = torn \cup {b \in srcdirs : buildPc[b] \in Chroots!InBlock}
        /\ purged' = purged \cup Chroots!Running
    BY <1>5 DEF Chroots!RemoveBuild
  <2>2. Excused \subseteq Excused' /\ Chroots!Running \subseteq Excused' BY <2>1 DEF Excused
  <2>3. \A b \in Builds : buildPc[b] \in WithDir \cup Chroots!InBlock => b \in Chroots!Running
    BY DirStepNames DEF Chroots!Running
  <2>4. wiped' => remounted
    <3>1. mounted = 0 \/ remounted BY <2>1 DEF DirInv
    <3>2. wiped' = (wiped \/ mounted > 0) BY <1>5 DEF Chroots!RemoveBuild
    <3>3. mounted = 0 => ~(mounted > 0) OBVIOUS
    <3>4. wiped => remounted BY DEF DirInv
    <3> QED BY Zenon, <3>1, <3>2, <3>3, <3>4
  <2>5. torn' \subseteq Builds /\ torn' \subseteq Excused'
    BY <2>1, <2>2, <2>3 DEF DirInv
  <2> QED BY <2>1, <2>2, <2>3, <2>4, <2>5 DEF DirInv
<1>6. CASE Chroots!EndCleanup
  BY <1>6 DEF Chroots!EndCleanup, DirInv, Excused
<1> QED BY <1>1, <1>2, <1>3, <1>4, <1>5, <1>6

LEMMA DirsNext == DirInv /\ [Chroots!Next]_Chroots!bdVars => DirInv'
<1> SUFFICES ASSUME DirInv, [Chroots!Next]_Chroots!bdVars PROVE DirInv' OBVIOUS
<1>1. CASE UNCHANGED Chroots!bdVars BY <1>1 DEF Chroots!bdVars, DirInv, Excused
<1>2. CASE Chroots!Next BY <1>2, BuildSteps, CleanupSteps DEF Chroots!Next
<1> QED BY <1>1, <1>2

(* A build that works loses its directory only if Cleanup has looked at it    *)
(* before its build.pid was open (Build-Pkg:478-581, Cleanup:70-82), or with  *)
(* -build; nothing is removed through a mount that was not made since -build  *)
(* took it off (Cleanup:110-121).                                             *)
THEOREM DirectoriesAreSafe == Chroots!Spec => []Chroots!DirsAreSafe
<1>1. DirInv => Chroots!DirsAreSafe BY DEF DirInv, Chroots!DirsAreSafe, Excused
<1> QED BY InitDirs, DirsNext, <1>1, PTL DEF Chroots!Spec

--------------------------------------------------------------------------
Target(b) == b \in Builds /\ kindOf[b] = "target"
Covered == \A b \in Builds : Target(b) /\ buildPc[b] \in Logged => b \in quick \cup purged

(* A build of Build-Target has its log open for as long as it counts on the   *)
(* mounts, unless Cleanup -build removed it; so the end of another one, which *)
(* has found no log open, can only meet those that have opened theirs since.  *)
MountInv ==
  /\ buildPc \in [Builds -> DirSteps]
  /\ \A b \in Builds : Target(b) /\ buildPc[b] \in Logged => b \in targetlogs \cup purged
  /\ \A c \in Builds : buildPc[c] = "umount" => Covered
  /\ Chroots!MountsAreSafe

LEMMA InitMounts == Chroots!Init => MountInv
<1> SUFFICES ASSUME Chroots!Init PROVE MountInv OBVIOUS
<1>1. \A b \in Builds : buildPc[b] = IF kindOf[b] = "target" THEN "start" ELSE "test" BY DEF Chroots!Init
<1>2. buildPc \in [Builds -> DirSteps] BY DirStepNames DEF Chroots!Init
<1>3. \A b \in Builds : ~(Target(b) /\ buildPc[b] \in Logged) BY <1>1, DirStepNames DEF Target
<1>4. \A b \in Builds : buildPc[b] # "umount" BY <1>1
<1>5. Chroots!MountsAreSafe BY DEF Chroots!Init, Chroots!MountsAreSafe
<1> QED BY <1>2, <1>3, <1>4, <1>5 DEF MountInv

(* A step of b that neither opens nor closes a log, nor decides on umount.    *)
LEMMA MountStep ==
  ASSUME MountInv, NEW b \in Builds, NEW l \in DirSteps, Chroots!Goto(b, l),
         UNCHANGED <<kindOf, targetlogs, bare, quick, purged>>,
         l # "umount", l \in Logged => buildPc[b] \in Logged
  PROVE  MountInv'
<1>1. buildPc' = [buildPc EXCEPT ![b] = l] /\ buildPc' \in [Builds -> DirSteps]
  BY DEF MountInv, Chroots!Goto
<1>2. \A c \in Builds : buildPc'[c] \in Logged => buildPc[c] \in Logged BY <1>1 DEF MountInv
<1>3. \A c \in Builds : buildPc'[c] = "umount" => buildPc[c] = "umount" BY <1>1 DEF MountInv
<1>4. \A c \in Builds : Target(c)' <=> Target(c) BY DEF Target
<1>5. Covered => Covered' BY <1>2, <1>4 DEF Covered
<1>6. Chroots!MountsAreSafe' BY DEF MountInv, Chroots!MountsAreSafe
<1> QED BY <1>1, <1>2, <1>3, <1>4, <1>5, <1>6 DEF MountInv

(* Builds in the chroot (Build-Pkg:168-245, Build-Target:301-308). *)
LEMMA BuildMounts ==
  ASSUME MountInv, NEW b \in Builds
  PROVE  /\ Chroots!OpenLog(b) => MountInv'
         /\ Chroots!TestMounts(b) => MountInv'
         /\ Chroots!Mount(b) => MountInv'
         /\ Chroots!MakeDir(b) => MountInv'
         /\ Chroots!Enter(b) => MountInv'
         /\ Chroots!OpenPid(b) => MountInv'
         /\ Chroots!Worked(b) => MountInv'
         /\ \A keep \in BOOLEAN : Chroots!CleanupSrc(b, keep) => MountInv'
         /\ Chroots!Leave(b) => MountInv'
         /\ Chroots!Fuser(b) => MountInv'
         /\ Chroots!Umount(b) => MountInv'
         /\ Chroots!Killed(b) => MountInv'
<1> USE DEF Chroots!Cleaner, Chroots!Harm
<1>1. CASE Chroots!OpenLog(b)
  <2>1. /\ UNCHANGED <<kindOf, bare, purged>> /\ targetlogs' = targetlogs \cup {b}
        /\ quick \subseteq quick' /\ (\A c \in Builds : buildPc[c] = "umount" => b \in quick')
        /\ buildPc[b] = "start" /\ Chroots!Goto(b, "test")
    BY <1>1 DEF Chroots!OpenLog
  <2>2. buildPc' = [buildPc EXCEPT ![b] = "test"] /\ buildPc' \in [Builds -> DirSteps]
    BY <2>1, DirStepNames DEF MountInv, Chroots!Goto
  <2>3. \A c \in Builds : c # b => buildPc'[c] = buildPc[c] BY <2>2 DEF MountInv
  <2>4. \A c \in Builds : buildPc'[c] = "umount" => buildPc[c] = "umount" BY <2>2 DEF MountInv
  <2>5. \A c \in Builds : Target(c)' <=> Target(c) BY <2>1 DEF Target
  <2>6. ASSUME NEW c \in Builds, buildPc'[c] = "umount" PROVE Covered'
    <3>1. Covered /\ b \in quick' BY <2>1, <2>4, <2>6 DEF MountInv
    <3> QED BY <2>1, <2>3, <2>5, <3>1 DEF Covered
  <2>7. Chroots!MountsAreSafe' BY <2>1 DEF MountInv, Chroots!MountsAreSafe
  <2> QED BY <2>1, <2>2, <2>3, <2>5, <2>6, <2>7 DEF MountInv
<1>2. CASE Chroots!TestMounts(b)
  <2>1. PICK l \in {"mount", "mkdir"} : Chroots!Goto(b, l) BY <1>2 DEF Chroots!TestMounts
  <2> QED BY <1>2, <2>1, MountStep, DirStepNames DEF Chroots!TestMounts
<1>3. CASE Chroots!Mount(b) BY <1>3, MountStep, DirStepNames DEF Chroots!Mount
<1>4. CASE Chroots!MakeDir(b)
  <2>1. PICK l \in {"enter", "pid", "work"} : Chroots!Goto(b, l) BY <1>4 DEF Chroots!MakeDir
  <2> QED BY <1>4, <2>1, MountStep, DirStepNames DEF Chroots!MakeDir
<1>5. CASE Chroots!Enter(b)
  <2>1. PICK l \in {"prepare", "leave"} : Chroots!Goto(b, l) BY <1>5 DEF Chroots!Enter
  <2> QED BY <1>5, <2>1, MountStep, DirStepNames DEF Chroots!Enter
<1>6. CASE Chroots!OpenPid(b) BY <1>6, MountStep, DirStepNames DEF Chroots!OpenPid
<1>7. CASE Chroots!Worked(b) BY <1>7, MountStep, DirStepNames DEF Chroots!Worked
<1>8. ASSUME NEW keep \in BOOLEAN, Chroots!CleanupSrc(b, keep) PROVE MountInv'
  BY <1>8, MountStep, DirStepNames DEF Chroots!CleanupSrc
<1>9. ASSUME NEW l \in {"fuser", "umount", "end"}, Chroots!Goto(b, l), UNCHANGED <<kindOf, quick, purged>>,
             targetlogs \ {b} \subseteq targetlogs', Chroots!MountsAreSafe', l = "umount" => Covered
      PROVE  MountInv'
  <2>1. buildPc' = [buildPc EXCEPT ![b] = l] /\ buildPc' \in [Builds -> DirSteps]
    BY <1>9, DirStepNames DEF MountInv, Chroots!Goto
  <2>2. \A c \in Builds : buildPc'[c] \in Logged => buildPc[c] \in Logged /\ c # b
    BY <1>9, <2>1, DirStepNames DEF MountInv
  <2>3. \A c \in Builds : buildPc'[c] = "umount" => buildPc[c] = "umount" \/ l = "umount"
    BY <2>1 DEF MountInv
  <2>4. \A c \in Builds : Target(c)' <=> Target(c) BY <1>9 DEF Target
  <2>5. Covered => Covered' BY <1>9, <2>2, <2>4 DEF Covered
  <2> QED BY <1>9, <2>1, <2>2, <2>3, <2>4, <2>5 DEF MountInv
<1>10. CASE Chroots!Leave(b)
  <2>1. PICK l \in {"fuser", "end"} : Chroots!Goto(b, l) BY <1>10 DEF Chroots!Leave
  <2>2. Chroots!MountsAreSafe' BY <1>10 DEF Chroots!Leave, MountInv, Chroots!MountsAreSafe
  <2> QED BY <1>9, <1>10, <2>1, <2>2 DEF Chroots!Leave
<1>11. CASE Chroots!Fuser(b)
  <2>1. PICK l \in {"umount", "end"} : Chroots!Goto(b, l) /\ (l = "umount" => targetlogs = {})
    BY <1>11 DEF Chroots!Fuser
  <2>2. l = "umount" => Covered BY <2>1 DEF MountInv, Covered
  <2>3. Chroots!MountsAreSafe' BY <1>11 DEF Chroots!Fuser, MountInv, Chroots!MountsAreSafe
  <2> QED BY <1>9, <1>11, <2>1, <2>2, <2>3 DEF Chroots!Fuser
<1>12. CASE Chroots!Umount(b)
  <2>1. Covered BY <1>12 DEF Chroots!Umount, MountInv
  <2>2. bare' \subseteq bare \cup Chroots!Relying /\ UNCHANGED <<kindOf, targetlogs, quick, purged>> /\ Chroots!Goto(b, "end")
    BY <1>12 DEF Chroots!Umount
  <2>3. Chroots!Relying \subseteq {c \in Builds : buildPc[c] \in Logged} BY DirStepNames DEF Chroots!Relying
  <2>4. Chroots!MountsAreSafe' BY <2>1, <2>2, <2>3 DEF MountInv, Chroots!MountsAreSafe, Covered, Target
  <2> QED BY <1>9, <2>2, <2>4
<1>13. CASE Chroots!Killed(b)
  <2>1. Chroots!MountsAreSafe' BY <1>13 DEF Chroots!Killed, MountInv, Chroots!MountsAreSafe
  <2> QED BY <1>9, <1>13, <2>1 DEF Chroots!Killed
<1> QED BY <1>1, <1>2, <1>3, <1>4, <1>5, <1>6, <1>7, <1>8, <1>10, <1>11, <1>12, <1>13

(* Cleanup takes mounts and logs away with -build, and then every build that  *)
(* runs is in purged (Cleanup:98-121).                                        *)
LEMMA CleanupMounts ==
  ASSUME MountInv
  PROVE  /\ Chroots!StartCleanup => MountInv'
         /\ \A b \in Builds : Chroots!Look(b) => MountInv'
         /\ Chroots!RemoveDir => MountInv'
         /\ Chroots!UmountBuild => MountInv'
         /\ Chroots!RemoveBuild => MountInv'
         /\ Chroots!EndCleanup => MountInv'
<1> USE DEF Chroots!Cleaner, Chroots!Harm
<1>1. ASSUME UNCHANGED <<buildPc, kindOf, quick>>, purged \subseteq purged',
             targetlogs \subseteq targetlogs' \/ Chroots!Running \subseteq purged',
             bare' \subseteq bare \/ (bare' \subseteq bare \cup Chroots!Relying /\ Chroots!Running \subseteq purged')
      PROVE  MountInv'
  <2>1. \A c \in Builds : Target(c)' <=> Target(c) BY <1>1 DEF Target
  <2>2. \A c \in Builds : buildPc[c] \in Logged => c \in Chroots!Running BY DirStepNames DEF Chroots!Running
  <2>3. Covered => Covered' BY <1>1, <2>1 DEF Covered
  <2>4. Chroots!Relying \subseteq Chroots!Running BY DirStepNames DEF Chroots!Relying, Chroots!Running
  <2>5. Chroots!MountsAreSafe' BY <1>1, <2>4 DEF MountInv, Chroots!MountsAreSafe
  <2> QED BY <1>1, <2>1, <2>2, <2>3, <2>5 DEF MountInv
<1>2. CASE Chroots!StartCleanup BY <1>1, <1>2 DEF Chroots!StartCleanup
<1>3. ASSUME NEW b \in Builds, Chroots!Look(b) PROVE MountInv' BY <1>1, <1>3 DEF Chroots!Look
<1>4. CASE Chroots!RemoveDir BY <1>1, <1>4 DEF Chroots!RemoveDir
<1>5. CASE Chroots!UmountBuild BY <1>1, <1>5 DEF Chroots!UmountBuild
<1>6. CASE Chroots!RemoveBuild BY <1>1, <1>6 DEF Chroots!RemoveBuild
<1>7. CASE Chroots!EndCleanup BY <1>1, <1>7 DEF Chroots!EndCleanup
<1> QED BY <1>2, <1>3, <1>4, <1>5, <1>6, <1>7

LEMMA MountsNext == MountInv /\ [Chroots!Next]_Chroots!bdVars => MountInv'
<1> SUFFICES ASSUME MountInv, [Chroots!Next]_Chroots!bdVars PROVE MountInv' OBVIOUS
<1>1. CASE UNCHANGED Chroots!bdVars BY <1>1 DEF Chroots!bdVars, MountInv, Covered, Target, Chroots!MountsAreSafe
<1>2. CASE Chroots!Next BY <1>2, BuildMounts, CleanupMounts DEF Chroots!Next
<1> QED BY <1>1, <1>2

(* A build of Build-Target loses the mounts it counts on only if it opened    *)
(* its log between the test and the umount of another one's end               *)
(* (Build-Target:301-308), or with Cleanup -build.                            *)
THEOREM MountsStay == Chroots!Spec => []Chroots!MountsAreSafe
<1>1. MountInv => Chroots!MountsAreSafe BY DEF MountInv
<1> QED BY InitMounts, MountsNext, <1>1, PTL DEF Chroots!Spec

--------------------------------------------------------------------------
Unmade == {b \in Builds : buildPc[b] \in {"start", "test", "mount"}}
Through == {"fuser", "umount", "end"}
AllTargets == shot = {} /\ \A b \in Builds : kindOf[b] = "target"

(* At most as many mounts are there as builds have come past the mounting;   *)
(* the log of a build that is through is closed, and if all of them are, the *)
(* one that was through last has still to take mounts off, or has done it.   *)
CountInv ==
  /\ buildPc \in [Builds -> DirSteps] /\ mounted \in Nat
  /\ mounted + Cardinality(Unmade) <= Cardinality(Builds)
  /\ \A b \in targetlogs : b \in Builds /\ buildPc[b] \notin Through
  /\ AllTargets /\ (\A b \in Builds : buildPc[b] \in Through) =>
       \/ mounted = 0 \/ mounted + 2 <= Cardinality(Builds)
       \/ \E b \in Builds : buildPc[b] # "end"

(* Nothing is mounted, and no build is through (Build-Pkg:168). *)
LEMMA InitCount == ASSUME IsFiniteSet(Builds), Chroots!Init PROVE CountInv
<1>1. \A b \in Builds : buildPc[b] \in {"start", "test"}
  BY DEF Chroots!Init
<1>2. buildPc \in [Builds -> DirSteps]
  BY DirStepNames DEF Chroots!Init
<1>3. Unmade = Builds
  BY <1>1 DEF Unmade
<1>4. Cardinality(Builds) \in Nat
  BY FS_CardinalityType
<1>5. mounted = 0 /\ targetlogs = {}
  BY DEF Chroots!Init
<1> QED BY <1>2, <1>3, <1>4, <1>5 DEF CountInv

(* Fewer builds before the mounting are not more in number. *)
LEMMA FewerUnmade ==
  ASSUME IsFiniteSet(Builds), Unmade' \subseteq Unmade
  PROVE  /\ Cardinality(Unmade') <= Cardinality(Unmade)
         /\ Cardinality(Unmade') \in Nat /\ Cardinality(Unmade) \in Nat /\ Cardinality(Builds) \in Nat
<1>1. IsFiniteSet(Unmade)
  BY FS_Subset DEF Unmade
<1>2. IsFiniteSet(Unmade') /\ Cardinality(Unmade') <= Cardinality(Unmade)
  BY <1>1, FS_Subset
<1> QED BY <1>1, <1>2, FS_CardinalityType

(* A step of b that mounts nothing; if it comes to its end, mounts are off    *)
(* or other builds are not through (Build-Pkg:168-245).                       *)
LEMMA CountStep ==
  ASSUME IsFiniteSet(Builds), CountInv, NEW b \in Builds, NEW l \in DirSteps, Chroots!Goto(b, l), kindOf' = kindOf,
         shot' = {} => shot = {}, mounted' \in Nat, mounted' <= mounted,
         l \in {"start", "test", "mount"} => buildPc[b] \in {"start", "test", "mount"},
         \A c \in targetlogs' : c = b \/ c \in targetlogs, b \in targetlogs' => l \notin Through,
         AllTargets' /\ l = "end" =>
           \/ mounted' = 0 \/ mounted' + 2 <= Cardinality(Builds)
           \/ \E c \in Builds \ {b} : buildPc[c] \notin Through
  PROVE  CountInv'
<1>1. buildPc' \in [Builds -> DirSteps] /\ buildPc'[b] = l /\ \A c \in Builds : c # b => buildPc'[c] = buildPc[c]
  BY DEF CountInv, Chroots!Goto
<1>2. Unmade' \subseteq Unmade
  BY <1>1 DEF Unmade
<1>3. mounted' + Cardinality(Unmade') <= Cardinality(Builds)
  BY <1>2, FewerUnmade DEF CountInv
<1>4. \A c \in targetlogs' : c \in Builds /\ buildPc'[c] \notin Through
  BY <1>1 DEF CountInv
<1>5. ASSUME AllTargets', \A c \in Builds : buildPc'[c] \in Through
      PROVE  \/ mounted' = 0 \/ mounted' + 2 <= Cardinality(Builds)
             \/ \E c \in Builds : buildPc'[c] # "end"
  <2>1. CASE l = "end"
    BY <1>1, <1>5, <2>1
  <2>2. CASE l # "end"
    BY <1>1, <2>2
  <2> QED BY <2>1, <2>2
<1> QED BY <1>1, <1>3, <1>4, <1>5 DEF CountInv

(* One more mount, and one build less that is before it (Build-Pkg:168-173). *)
LEMMA MountCount ==
  ASSUME IsFiniteSet(Builds), CountInv, NEW b \in Builds, Chroots!Mount(b) PROVE CountInv'
<1>1. /\ buildPc' \in [Builds -> DirSteps] /\ buildPc[b] = "mount"
      /\ buildPc'[b] = "mkdir" /\ \A c \in Builds : c # b => buildPc'[c] = buildPc[c]
      /\ mounted' = mounted + 1 /\ targetlogs' = targetlogs
  BY DirStepNames DEF CountInv, Chroots!Mount, Chroots!Goto
<1>2. Unmade' = Unmade \ {b} /\ b \in Unmade
  BY <1>1 DEF Unmade
<1>3. IsFiniteSet(Unmade)
  BY FS_Subset DEF Unmade
<1>4. Cardinality(Unmade') = Cardinality(Unmade) - 1
  BY <1>2, <1>3, FS_RemoveElement
<1>5. Cardinality(Unmade) \in Nat /\ Cardinality(Builds) \in Nat
  BY <1>3, FS_CardinalityType
<1>6. mounted' \in Nat /\ mounted' + Cardinality(Unmade') <= Cardinality(Builds)
  BY <1>1, <1>4, <1>5 DEF CountInv
<1>7. \A c \in targetlogs' : c \in Builds /\ buildPc'[c] \notin Through
  BY <1>1 DEF CountInv, Through
<1>8. buildPc'[b] \notin Through
  BY <1>1 DEF Through
<1> QED BY <1>1, <1>6, <1>7, <1>8 DEF CountInv

(* The last one takes two mounts off, for nobody is inside                   *)
(* (Build-Target:301-308).                                                   *)
LEMMA UmountCount ==
  ASSUME IsFiniteSet(Builds), CountInv, NEW b \in Builds, Chroots!Umount(b) PROVE CountInv'
<1>1. /\ Chroots!Goto(b, "end") /\ mounted' = Chroots!Unmounted /\ UNCHANGED <<kindOf, targetlogs, shot>>
      /\ buildPc[b] = "umount"
  BY DEF Chroots!Umount
<1>2. mounted' \in Nat /\ mounted' <= mounted
  BY <1>1, SMT DEF CountInv, Chroots!Unmounted
<1>3. ASSUME \A c \in Builds \ {b} : buildPc[c] \in Through
      PROVE  mounted' = 0 \/ mounted' + 2 <= Cardinality(Builds)
  <2>1. \A c \in Builds : buildPc[c] \notin Chroots!InChroot
    BY <1>1, <1>3, DirStepNames DEF Through
  <2>2. mounted' = IF mounted <= 2 THEN 0 ELSE mounted - 2
    BY <1>1, <2>1 DEF Chroots!Unmounted
  <2>3. Cardinality(Unmade) \in Nat /\ Cardinality(Builds) \in Nat
    BY FS_Subset, FS_CardinalityType DEF Unmade
  <2> QED BY <2>2, <2>3 DEF CountInv
<1>4. "end" \in DirSteps
  BY DirStepNames
<1>5. b \notin targetlogs
  BY <1>1 DEF CountInv, Through
<1> QED BY <1>1, <1>2, <1>3, <1>4, <1>5, CountStep

(* Every other step of a build (Build-Pkg:168-245, Build-Target:301-308). *)
LEMMA BuildCount ==
  ASSUME IsFiniteSet(Builds), CountInv, NEW b \in Builds
  PROVE  /\ Chroots!OpenLog(b) => CountInv'
         /\ Chroots!TestMounts(b) => CountInv'
         /\ Chroots!MakeDir(b) => CountInv'
         /\ Chroots!Enter(b) => CountInv'
         /\ Chroots!OpenPid(b) => CountInv'
         /\ Chroots!Worked(b) => CountInv'
         /\ \A keep \in BOOLEAN : Chroots!CleanupSrc(b, keep) => CountInv'
         /\ Chroots!Leave(b) => CountInv'
         /\ Chroots!Fuser(b) => CountInv'
         /\ Chroots!Killed(b) => CountInv'
<1>0. /\ mounted \in Nat /\ mounted <= mounted
      /\ \A c \in targetlogs : c \in Builds /\ buildPc[c] \notin Through
  BY DEF CountInv
<1>1. ASSUME NEW l \in DirSteps \ Through, Chroots!Goto(b, l), UNCHANGED <<kindOf, mounted, shot>>,
             \A c \in targetlogs' : c = b \/ c \in targetlogs,
             l \in {"start", "test", "mount"} => buildPc[b] \in {"start", "test", "mount"}
      PROVE  CountInv'
  <2>1. l # "end"
    BY DEF Through
  <2> QED BY <1>0, <1>1, <2>1, CountStep
<1>2. CASE Chroots!OpenLog(b) BY <1>1, <1>2, DirStepNames DEF Chroots!OpenLog, Through
<1>3. CASE Chroots!TestMounts(b)
  <2>1. PICK l \in {"mount", "mkdir"} : Chroots!Goto(b, l) BY <1>3 DEF Chroots!TestMounts
  <2> QED BY <1>1, <1>3, <2>1, DirStepNames DEF Chroots!TestMounts, Through
<1>4. CASE Chroots!MakeDir(b)
  <2>1. PICK l \in {"enter", "pid", "work"} : Chroots!Goto(b, l) BY <1>4 DEF Chroots!MakeDir
  <2> QED BY <1>1, <1>4, <2>1, DirStepNames DEF Chroots!MakeDir, Through
<1>5. CASE Chroots!Enter(b)
  <2>1. PICK l \in {"prepare", "leave"} : Chroots!Goto(b, l) BY <1>5 DEF Chroots!Enter
  <2> QED BY <1>1, <1>5, <2>1, DirStepNames DEF Chroots!Enter, Through
<1>6. CASE Chroots!OpenPid(b) BY <1>1, <1>6, DirStepNames DEF Chroots!OpenPid, Through
<1>7. CASE Chroots!Worked(b) BY <1>1, <1>7, DirStepNames DEF Chroots!Worked, Through
<1>8. ASSUME NEW keep \in BOOLEAN, Chroots!CleanupSrc(b, keep) PROVE CountInv'
  BY <1>1, <1>8, DirStepNames DEF Chroots!CleanupSrc, Through
<1>9. CASE Chroots!Leave(b)
  <2>1. PICK l \in {"fuser", "end"} : Chroots!Goto(b, l) /\ (l = "end" => kindOf[b] # "target")
    BY <1>9 DEF Chroots!Leave
  <2>2. UNCHANGED <<kindOf, mounted, shot>> /\ targetlogs' = targetlogs \ {b} BY <1>9 DEF Chroots!Leave, Chroots!Harm
  <2>3. AllTargets' => l # "end" BY <2>1, <2>2 DEF AllTargets
  <2>4. l \in DirSteps /\ l \notin {"start", "test", "mount"} BY <2>1, DirStepNames
  <2> QED BY <1>0, <2>1, <2>2, <2>3, <2>4, CountStep
<1>10. CASE Chroots!Fuser(b)
  <2>1. PICK l \in {"umount", "end"} : Chroots!Goto(b, l) /\ (l = "end" => targetlogs # {})
    BY <1>10 DEF Chroots!Fuser
  <2>2. UNCHANGED <<kindOf, mounted, shot, targetlogs>> /\ buildPc[b] = "fuser" BY <1>10 DEF Chroots!Fuser, Chroots!Harm
  <2>3. b \notin targetlogs BY <1>0, <2>2 DEF Through
  <2>4. l = "end" => \E c \in Builds \ {b} : buildPc[c] \notin Through BY <1>0, <2>1, <2>3
  <2>5. l \in DirSteps /\ l \notin {"start", "test", "mount"} BY <2>1, DirStepNames
  <2> QED BY <1>0, <2>1, <2>2, <2>3, <2>4, <2>5, CountStep
<1>11. CASE Chroots!Killed(b)
  <2>1. /\ Chroots!Goto(b, "end") /\ UNCHANGED <<kindOf, mounted>> /\ targetlogs' = targetlogs \ {b} /\ shot' # {}
    BY <1>11 DEF Chroots!Killed
  <2>2. ~AllTargets' BY <2>1 DEF AllTargets
  <2>3. "end" \in DirSteps BY DirStepNames
  <2> QED BY <1>0, <2>1, <2>2, <2>3, CountStep
<1> QED BY <1>2, <1>3, <1>4, <1>5, <1>6, <1>7, <1>8, <1>9, <1>10, <1>11

(* Cleanup mounts nothing (Cleanup:62-121). *)
LEMMA CleanupCount ==
  ASSUME IsFiniteSet(Builds), CountInv
  PROVE  /\ Chroots!StartCleanup => CountInv'
         /\ \A b \in Builds : Chroots!Look(b) => CountInv'
         /\ Chroots!RemoveDir => CountInv'
         /\ Chroots!UmountBuild => CountInv'
         /\ Chroots!RemoveBuild => CountInv'
         /\ Chroots!EndCleanup => CountInv'
<1>1. ASSUME UNCHANGED <<kindOf, buildPc, shot>>, mounted' \in Nat, mounted' <= mounted,
             targetlogs' \subseteq targetlogs
      PROVE  CountInv'
  <2>1. Unmade' \subseteq Unmade
    BY <1>1 DEF Unmade
  <2>2. mounted' + Cardinality(Unmade') <= Cardinality(Builds)
    BY <1>1, <2>1, FewerUnmade DEF CountInv
  <2>3. Cardinality(Builds) \in Nat
    BY FS_CardinalityType
  <2> QED BY <1>1, <2>2, <2>3 DEF CountInv, AllTargets
<1>2. mounted \in Nat /\ mounted <= mounted
  BY DEF CountInv
<1>3. Chroots!Unmounted \in Nat /\ Chroots!Unmounted <= mounted
  BY SMT DEF CountInv, Chroots!Unmounted
<1>4. CASE Chroots!StartCleanup BY <1>1, <1>2, <1>4 DEF Chroots!StartCleanup
<1>5. ASSUME NEW b \in Builds, Chroots!Look(b) PROVE CountInv' BY <1>1, <1>2, <1>5 DEF Chroots!Look
<1>6. CASE Chroots!RemoveDir BY <1>1, <1>2, <1>6 DEF Chroots!RemoveDir
<1>7. CASE Chroots!UmountBuild BY <1>1, <1>3, <1>7 DEF Chroots!UmountBuild
<1>8. CASE Chroots!RemoveBuild BY <1>1, <1>2, <1>8 DEF Chroots!RemoveBuild
<1>9. CASE Chroots!EndCleanup BY <1>1, <1>2, <1>9 DEF Chroots!EndCleanup
<1> QED BY <1>4, <1>5, <1>6, <1>7, <1>8, <1>9

LEMMA CountNext == ASSUME IsFiniteSet(Builds) PROVE CountInv /\ [Chroots!Next]_Chroots!bdVars => CountInv'
<1> SUFFICES ASSUME CountInv, [Chroots!Next]_Chroots!bdVars PROVE CountInv' OBVIOUS
<1>1. CASE UNCHANGED Chroots!bdVars BY <1>1 DEF Chroots!bdVars, CountInv, Unmade, AllTargets
<1>2. CASE Chroots!Next BY <1>2, BuildCount, MountCount, UmountCount, CleanupCount DEF Chroots!Next
<1> QED BY <1>1, <1>2

(* When finitely many builds of Build-Target have ended and none was killed,  *)
(* the last one has taken two mounts off (Build-Pkg:168-173,                  *)
(* Build-Target:304-305).                                                     *)
THEOREM MountsAreTakenOff == ASSUME IsFiniteSet(Builds) PROVE Chroots!Spec => []Chroots!MountsEnd
<1>1. CountInv => Chroots!MountsEnd
  <2> SUFFICES ASSUME CountInv, Chroots!Running \cup shot = {},
                      \A b \in Builds : kindOf[b] = "target"
               PROVE  mounted = 0 \/ mounted + 2 <= Cardinality(Builds)
    BY Zenon DEF Chroots!MountsEnd, Chroots!Cardinality, Cardinality
  <2>1. \A b \in Builds : buildPc[b] = "end"
    BY DirStepNames DEF Chroots!Running
  <2> QED
    BY <2>1 DEF CountInv, AllTargets, Through
<1>2. Chroots!Init => CountInv
  BY InitCount
<1>3. CountInv /\ [Chroots!Next]_Chroots!bdVars => CountInv'
  BY CountNext
<1> QED BY <1>1, <1>2, <1>3, PTL DEF Chroots!Spec

--------------------------------------------------------------------------
(***************************************************************************)
(* The properties of Programs, from those of the modules in it.            *)
(***************************************************************************)
(* A behaviour of the program p is one of its module: the program does not   *)
(* change, and its steps are those of the module.                            *)
LEMMA StaysTheProgram ==
  ASSUME NEW p
  PROVE  [ProgramsNext]_programsVars => (prog' = p <=> prog = p)
BY DEF ProgramsNext, programsVars

LEMMA ConfigAlone ==
  ProgramsSpec => [](prog = "config" => Lock!OneWriter /\ Lock!OptionsAreKept)
<1>1. ProgramsInit /\ prog = "config" => Lock!Init
  BY Zenon DEF ProgramsInit
<1>2. prog = "config" /\ [ProgramsNext]_programsVars => [Lock!Next]_Lock!clVars
  BY Zenon DEF ProgramsNext, programsVars, clVars, Lock!clVars
<1>3. [ProgramsNext]_programsVars => ((prog = "config")' <=> prog = "config")
  BY StaysTheProgram
<1> QED
  BY <1>1, <1>2, <1>3, WritersAreAlone, OptionsStayWhole, PTL DEF ProgramsSpec, Lock!Spec

LEMMA ToolsAlone ==
  ProgramsSpec => [](prog = "build_tools" => Make!StampIsRight)
<1>1. ProgramsInit /\ prog = "build_tools" => Make!Init
  BY Zenon DEF ProgramsInit
<1>2. prog = "build_tools" /\ [ProgramsNext]_programsVars => [Make!Next]_Make!btVars
  BY Zenon DEF ProgramsNext, programsVars, btVars, Make!btVars
<1>3. [ProgramsNext]_programsVars => ((prog = "build_tools")' <=> prog = "build_tools")
  BY StaysTheProgram
<1> QED
  BY <1>1, <1>2, <1>3, StampVouches, PTL DEF ProgramsSpec, Make!Spec

LEMMA DirsAlone ==
  ASSUME IsFiniteSet(Builds)
  PROVE  ProgramsSpec => [](prog = "build_dirs" =>
           Chroots!DirsAreSafe /\ Chroots!MountsAreSafe /\ Chroots!MountsEnd)
<1>1. ProgramsInit /\ prog = "build_dirs" => Chroots!Init
  BY Zenon DEF ProgramsInit
<1>2. prog = "build_dirs" /\ [ProgramsNext]_programsVars => [Chroots!Next]_Chroots!bdVars
  BY Zenon DEF ProgramsNext, programsVars, bdVars, Chroots!bdVars
<1>3. [ProgramsNext]_programsVars => ((prog = "build_dirs")' <=> prog = "build_dirs")
  BY StaysTheProgram
<1>4. Chroots!Spec => []Chroots!MountsEnd
  BY MountsAreTakenOff
<1> QED
  BY <1>1, <1>2, <1>3, <1>4, DirectoriesAreSafe, MountsStay, PTL DEF ProgramsSpec, Chroots!Spec

(* What the users of the scripts count on holds for any number of processes,  *)
(* configurations and builds (Config:84-197, Build-Tools:55-112, Build-Pkg,   *)
(* Build-Target:300-308, Cleanup).                                            *)
THEOREM ScriptsAreKept == IsFiniteSet(Builds) => (ProgramsSpec => []ScriptsAreRight)
<1> SUFFICES ASSUME IsFiniteSet(Builds) PROVE ProgramsSpec => []ScriptsAreRight
  OBVIOUS
<1>1. /\ prog = "config" => Lock!OneWriter /\ Lock!OptionsAreKept
      /\ prog = "build_tools" => Make!StampIsRight
      /\ prog = "build_dirs" => Chroots!DirsAreSafe /\ Chroots!MountsAreSafe /\ Chroots!MountsEnd
      => ScriptsAreRight
  BY Zenon DEF ScriptsAreRight
<1> QED
  BY <1>1, ConfigAlone, ToolsAlone, DirsAlone, PTL

(* Whatever ioctls fail, the bonding tool leaves slaves and master as its    *)
(* exit status tells (ifenslave.c:440-515, 686-886).                         *)
THEOREM BondsStayRight == Bond!BondInstance => (ProgramsSpec => []BondsAreRight)
<1> SUFFICES ASSUME Bond!BondInstance PROVE ProgramsSpec => []BondsAreRight
  OBVIOUS
<1>1. ProgramsInit /\ prog = "ifenslave" => Bond!Init
  BY Zenon DEF ProgramsInit
<1>2. prog = "ifenslave" /\ [ProgramsNext]_programsVars => [Bond!Next]_Bond!ifVars
  BY Zenon DEF ProgramsNext, programsVars, ifVars, Bond!ifVars
<1>3. [ProgramsNext]_programsVars => ((prog = "ifenslave")' <=> prog = "ifenslave")
  BY StaysTheProgram
<1>4. Bond!Spec => []Bond!BondIsRight
  BY Bond!BondsAreKept
<1>5. (prog = "ifenslave" => Bond!BondIsRight) => BondsAreRight
  BY Zenon DEF BondsAreRight
<1> QED
  BY <1>1, <1>2, <1>3, <1>4, <1>5, PTL DEF ProgramsSpec, Bond!Spec

(* Whatever the order of errors, refused resumes and yields, the threads of  *)
(* Lua are what their status says (ldo.c:383-478, lbaselib.c:480-585).       *)
THEOREM ThreadsStayRight == Thread!ThreadInstance => (ProgramsSpec => []ThreadsAreRight)
<1> SUFFICES ASSUME Thread!ThreadInstance PROVE ProgramsSpec => []ThreadsAreRight
  OBVIOUS
<1>1. ProgramsInit /\ prog = "lua_thread" => Thread!Init
  BY Zenon DEF ProgramsInit
<1>2. prog = "lua_thread" /\ [ProgramsNext]_programsVars => [Thread!Next]_Thread!lthVars
  BY Zenon DEF ProgramsNext, programsVars, lthVars, Thread!lthVars
<1>3. [ProgramsNext]_programsVars => ((prog = "lua_thread")' <=> prog = "lua_thread")
  BY StaysTheProgram
<1>4. Thread!Spec => []Thread!ThreadsAreRight
  BY Thread!ThreadsAreKept
<1>5. (prog = "lua_thread" => Thread!ThreadsAreRight) => ThreadsAreRight
  BY Zenon DEF ThreadsAreRight
<1> QED
  BY <1>1, <1>2, <1>3, <1>4, <1>5, PTL DEF ProgramsSpec, Thread!Spec

(* Wherever the steps of the collector fall, nothing that the program can    *)
(* get at is freed (lgc.c, lfunc.c, lstring.c).                              *)
THEOREM HeapStaysSafe == Heap!HeapInstance => (ProgramsSpec => []HeapIsSafe)
<1> SUFFICES ASSUME Heap!HeapInstance PROVE ProgramsSpec => []HeapIsSafe
  OBVIOUS
<1>1. ProgramsInit /\ prog = "lua_gc" => Heap!Init
  BY Zenon DEF ProgramsInit
<1>2. prog = "lua_gc" /\ [ProgramsNext]_programsVars => [Heap!Next]_Heap!lhVars
  BY Zenon DEF ProgramsNext, programsVars, lhVars, Heap!lhVars
<1>3. [ProgramsNext]_programsVars => ((prog = "lua_gc")' <=> prog = "lua_gc")
  BY StaysTheProgram
<1>4. Heap!Spec => [](Heap!HeapIsSafe /\ Heap!MarksAreRight)
  BY Heap!HeapIsKept
<1>5. (prog = "lua_gc" => Heap!HeapIsSafe /\ Heap!MarksAreRight) => HeapIsSafe
  BY Zenon DEF HeapIsSafe
<1> QED
  BY <1>1, <1>2, <1>3, <1>4, <1>5, PTL DEF ProgramsSpec, Heap!Spec
=============================================================================
