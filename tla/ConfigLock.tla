---------------------------- MODULE ConfigLock ----------------------------
(***************************************************************************)
(* scripts/Config: who may write a configuration.  The commands of several *)
(* users, and those that Build-Tools starts with -oldconfig, wait for a    *)
(* flock of config/<name>/lock.pid.  The one that has it removes the file  *)
(* when it is through, while others already wait for the lock of the same  *)
(* file: a lock belongs to the file that was opened, not to its name.      *)
(***************************************************************************)
EXTENDS Naturals, FiniteSets

CONSTANTS
  Users,      \* who runs Config, one command after the other
  Configs,    \* names of configurations
  MaxFiles,   \* bound: lock files that are ever made
  MaxKills    \* bound: commands that are killed

VARIABLES
  configOf,  \* the configuration that a user works on
  clPc,      \* of a user: the next step of the command, "idle" without one
  lockPid,   \* the file that is named lock.pid, 0 if there is none
  opened,    \* of a user: the file behind file descriptor 200, 0 without a command
  created,   \* number of lock files that were made
  config,    \* the options in the file: "kept", "cut" while it is written, "lost"
  options,   \* of a user: what the cycle has read
  tmpdir,    \* configurations whose directory src/<name> is there
  luabash,   \* src/luabash.so: "none", "torn" while it is written, "whole"
  stale,     \* history: configurations one of whose users got the lock of a removed file
  broken,    \* history: configurations whose writer was killed, or lost src/<name> to Cleanup
  kills,     \* number of commands that were killed
  robbed,    \* history: users whose luabash.so was removed or written by another
  unmade,    \* history: users whose make, or whose load of the Lua code, has failed
  failed     \* history: users whose cycle has failed

clVars == <<configOf, clPc, lockPid, opened, created, config, options, tmpdir, luabash, stale, broken, kills,
            robbed, unmade, failed>>

Library == <<luabash, robbed, unmade, failed>>
Directory == <<config, options, tmpdir>>

(* Between flock and the removal of lock.pid. *)
InLock == {"pid", "mkdir", "dialog", "rmlib", "make", "install", "enable", "load",
           "read", "cut", "write", "ask", "unlock"}
Inside(c) == {u \in Users : configOf[u] = c /\ clPc[u] \in InLock}

Holds(u) == clPc[u] \in InLock \cup {"exit"}

Goto(u, l) == clPc' = [clPc EXCEPT ![u] = l]

(* A redirection that makes a new file, even if one has the name. *)
CreateAnew(u) ==
  created < MaxFiles /\ created' = created + 1 /\ lockPid' = [lockPid EXCEPT ![configOf[u]] = created + 1]

(* A redirection to lock.pid opens the file of that name, or makes one. *)
Create(u) ==
  IF lockPid[configOf[u]] = 0
  THEN created < MaxFiles /\ created' = created + 1 /\ lockPid' = [lockPid EXCEPT ![configOf[u]] = created + 1]
  ELSE UNCHANGED <<created, lockPid>>

--------------------------------------------------------------------------
Open(u) ==
  /\ clPc[u] = "idle" /\ Create(u)
  /\ opened' = [opened EXCEPT ![u] = lockPid'[configOf[u]]]
  /\ Goto(u, "flock")
  /\ UNCHANGED <<configOf, Directory, Library, stale, broken, kills>>

Flock(u) ==
  /\ clPc[u] = "flock" /\ \A v \in Users : Holds(v) => opened[v] # opened[u]
  /\ stale' = IF opened[u] = lockPid[configOf[u]] THEN stale ELSE stale \cup {configOf[u]}
  /\ Goto(u, "pid")
  /\ UNCHANGED <<configOf, lockPid, opened, created, Directory, Library, broken, kills>>

WritePid(u) ==
  /\ clPc[u] = "pid" /\ Create(u)
  /\ Goto(u, "mkdir")
  /\ UNCHANGED <<configOf, opened, Directory, Library, stale, broken, kills>>

MakeTmp(u) ==
  /\ clPc[u] = "mkdir"
  /\ tmpdir' = tmpdir \cup {configOf[u]}
  /\ Goto(u, "dialog")
  /\ UNCHANGED <<configOf, lockPid, opened, created, config, options, Library, stale, broken, kills>>

(* The dialog tool is there, is compiled, or cannot be: then lock.pid stays. *)
Dialog(u) ==
  /\ clPc[u] = "dialog" /\ Goto(u, "rmlib")
  /\ UNCHANGED <<configOf, lockPid, opened, created, Directory, Library, stale, broken, kills>>

DialogFails(u) ==
  /\ clPc[u] = "dialog" /\ Goto(u, "exit")
  /\ UNCHANGED <<configOf, lockPid, opened, created, Directory, Library, stale, broken, kills>>

(* Each cycle makes the Lua library anew, one for all configurations. *)
Installing == {u \in Users : clPc[u] = "install"}
HasLibrary == {u \in Users : clPc[u] \in {"install", "enable"}}

(* The history of a cycle is that of the library until it is loaded, or the  *)
(* command ends.                                                             *)
Forget(u) == robbed' = robbed \ {u} /\ unmade' = unmade \ {u} /\ failed' = failed \ {u}

RemoveLibrary(u) ==
  /\ clPc[u] = "rmlib"
  /\ luabash' = "none"
  /\ robbed' = robbed \cup HasLibrary
  /\ Goto(u, "make")
  /\ UNCHANGED <<configOf, lockPid, opened, created, Directory, unmade, failed, stale, broken, kills>>

(* make has compiled it and begins to write it. *)
Install(u) ==
  /\ clPc[u] = "make"
  /\ luabash' = "torn"
  /\ robbed' = robbed \cup HasLibrary \cup (IF Installing = {} THEN {} ELSE {u})
  /\ Goto(u, "install")
  /\ UNCHANGED <<configOf, lockPid, opened, created, Directory, unmade, failed, stale, broken, kills>>

(* It is written, if it was not removed and nobody else writes it, too. *)
MakeLibrary(u) ==
  /\ clPc[u] = "install"
  /\ luabash' \in IF luabash = "none" THEN {"none"}
                  ELSE IF Installing = {u} THEN {"whole"} ELSE {"torn", "whole"}
  /\ Goto(u, "enable")
  /\ UNCHANGED <<configOf, lockPid, opened, created, Directory, robbed, unmade, failed, stale, broken, kills>>

(* The status of make is not used: the cycle looks for the file. *)
MakeFails(u) ==
  /\ clPc[u] \in {"make", "install"}
  /\ unmade' = unmade \cup {u}
  /\ Goto(u, "enable")
  /\ UNCHANGED <<configOf, lockPid, opened, created, Directory, luabash, robbed, failed, stale, broken, kills>>

CycleFails(u) ==
  /\ failed' = failed \cup {u}
  /\ Goto(u, "unlock")

(* Without it the cycle exits with 1, as it does at its end. *)
Enable(u) ==
  /\ clPc[u] = "enable"
  /\ IF luabash = "whole" THEN Goto(u, "load") /\ UNCHANGED failed ELSE CycleFails(u)
  /\ UNCHANGED <<configOf, lockPid, opened, created, Directory, luabash, robbed, unmade, stale, broken, kills>>

(* luabash load, and the profiler of -profile. *)
Load(u) ==
  /\ clPc[u] = "load" /\ Goto(u, "read")
  /\ Forget(u)
  /\ UNCHANGED <<configOf, lockPid, opened, created, Directory, luabash, stale, broken, kills>>

LoadFails(u) ==
  /\ clPc[u] = "load" /\ CycleFails(u)
  /\ unmade' = unmade \cup {u}
  /\ UNCHANGED <<configOf, lockPid, opened, created, Directory, luabash, robbed, stale, broken, kills>>

(* The options of the old file, as far as it is written. *)
Read(u) ==
  /\ clPc[u] = "read"
  /\ options' = [options EXCEPT ![u] = IF config[configOf[u]] = "kept" THEN "kept" ELSE "lost"]
  /\ Goto(u, "cut")
  /\ UNCHANGED <<configOf, lockPid, opened, created, config, tmpdir, Library, stale, broken, kills>>

Cut(u) ==
  /\ clPc[u] = "cut"
  /\ config' = [config EXCEPT ![configOf[u]] = "cut"]
  /\ Goto(u, "write")
  /\ UNCHANGED <<configOf, lockPid, opened, created, options, tmpdir, Library, stale, broken, kills>>

(* config.in sources the lists of options in src/<name>.  The next cycle     *)
(* reads the file anew.                                                      *)
Write(u) ==
  /\ clPc[u] = "write"
  /\ config' = [config EXCEPT ![configOf[u]] = IF configOf[u] \in tmpdir THEN options[u] ELSE "lost"]
  /\ options' = [options EXCEPT ![u] = "lost"]
  /\ Goto(u, "ask")
  /\ UNCHANGED <<configOf, lockPid, opened, created, tmpdir, Library, stale, broken, kills>>

(* The user chooses an item, and a cycle takes it over, or is through. *)
Choose(u) ==
  /\ clPc[u] = "ask" /\ Goto(u, "rmlib")
  /\ UNCHANGED <<configOf, lockPid, opened, created, Directory, Library, stale, broken, kills>>

Leave(u) ==
  /\ clPc[u] = "ask"
  /\ tmpdir' = tmpdir \ {configOf[u]}
  /\ Goto(u, "unlock")
  /\ UNCHANGED <<configOf, lockPid, opened, created, config, options, Library, stale, broken, kills>>

RemoveLock(u) ==
  /\ clPc[u] = "unlock"
  /\ lockPid' = [lockPid EXCEPT ![configOf[u]] = 0]
  /\ Goto(u, "exit")
  /\ Forget(u)
  /\ UNCHANGED <<configOf, opened, created, Directory, luabash, stale, broken, kills>>

Exit(u) ==
  /\ clPc[u] = "exit" /\ Goto(u, "idle")
  /\ opened' = [opened EXCEPT ![u] = 0]
  /\ UNCHANGED <<configOf, lockPid, created, Directory, Library, stale, broken, kills>>

(* The descriptor is closed, and lock.pid stays.  Ctrl-C does not get through. *)
Kill(u) ==
  /\ clPc[u] # "idle" /\ kills < MaxKills
  /\ kills' = kills + 1
  /\ broken' = IF clPc[u] = "write" THEN broken \cup {configOf[u]} ELSE broken
  /\ Goto(u, "idle")
  /\ Forget(u)
  /\ opened' = [opened EXCEPT ![u] = 0]
  /\ UNCHANGED <<configOf, lockPid, created, Directory, luabash, stale>>

(* scripts/Cleanup removes src, with the library and all src/<name>. *)
Cleanup ==
  /\ luabash' = "none" /\ tmpdir' = {}
  /\ robbed' = robbed \cup HasLibrary
  /\ broken' = broken \cup {c \in tmpdir : Inside(c) # {}}
  /\ UNCHANGED <<configOf, clPc, lockPid, opened, created, config, options, unmade, failed,
                 stale, kills>>

Init ==
  /\ configOf \in [Users -> Configs]
  /\ clPc = [u \in Users |-> "idle"]
  /\ lockPid = [c \in Configs |-> 0] /\ opened = [u \in Users |-> 0] /\ created = 0
  /\ config = [c \in Configs |-> "kept"] /\ options = [u \in Users |-> "lost"]
  /\ tmpdir = {} /\ luabash = "none"
  /\ stale = {} /\ broken = {} /\ kills = 0
  /\ robbed = {} /\ unmade = {} /\ failed = {}

Next ==
  \/ Cleanup
  \/ \E u \in Users :
       \/ Open(u) \/ Flock(u) \/ WritePid(u) \/ MakeTmp(u) \/ Dialog(u) \/ DialogFails(u)
       \/ RemoveLibrary(u) \/ Install(u) \/ MakeLibrary(u) \/ MakeFails(u)
       \/ Enable(u) \/ Load(u) \/ LoadFails(u)
       \/ Read(u) \/ Cut(u) \/ Write(u) \/ Choose(u) \/ Leave(u)
       \/ RemoveLock(u) \/ Exit(u) \/ Kill(u)

Spec == Init /\ [][Next]_clVars

--------------------------------------------------------------------------
TypeOK ==
  /\ configOf \in [Users -> Configs]
  /\ clPc \in [Users -> {"idle", "flock", "exit"} \cup InLock]
  /\ lockPid \in [Configs -> Nat] /\ opened \in [Users -> Nat] /\ created \in Nat
  /\ config \in [Configs -> {"kept", "cut", "lost"}] /\ options \in [Users -> {"kept", "lost"}]
  /\ stale \subseteq Configs /\ broken \subseteq Configs /\ tmpdir \subseteq Configs
  /\ luabash \in {"none", "torn", "whole"} /\ kills \in 0..MaxKills
  /\ robbed \subseteq Users /\ unmade \subseteq Users /\ failed \subseteq Users

(* Two write a configuration only after one of its users has got the lock of *)
(* a file that its holder had removed (Config:84-86, 111).                   *)
OneWriter == \A c \in Configs, u, v \in Users : {u, v} \subseteq Inside(c) => u = v \/ c \in stale

(* If not, if nobody was killed while he wrote and Cleanup has not removed    *)
(* src/<name> under a user, the options are there whenever nobody is inside   *)
(* (Config:103-107, 173-197; Cleanup:61-82): a cycle that fails loses none.   *)
(* A cycle fails (Config:119-129) only if its own make or load has failed, or *)
(* if its library was removed or rewritten after its make had begun to write  *)
(* it, by another cycle, maybe of another configuration, or by Cleanup.       *)
OptionsAreKept ==
  /\ \A c \in Configs : Inside(c) = {} => config[c] = "kept" \/ c \in stale \cup broken
  /\ failed \subseteq robbed \cup unmade
=============================================================================
