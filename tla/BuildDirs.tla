----------------------------- MODULE BuildDirs -----------------------------
(***************************************************************************)
(* What builds in the chroot of one target share on the host: the bind     *)
(* mounts of the source tree in build/<id>/TOOLCHAIN, which the first      *)
(* Build-Pkg makes and the last Build-Target takes off, and the            *)
(* directories src.* they build in, which scripts/Cleanup removes unless   *)
(* fuser finds a process that has build.pid open.  Every test and what is  *)
(* done upon it are two steps.                                             *)
(***************************************************************************)
EXTENDS Naturals, FiniteSets

CONSTANTS
  Builds,   \* processes that build one package each
  Kinds,    \* those of them that may be: "target", by Build-Target; "byhand"
  MaxKilled \* bound: builds that are killed

VARIABLES
  kindOf, buildPc,   \* of a build: one of Kinds, its next step
  mounted,       \* how many times the source tree is mounted, one upon the other
  srcdirs,       \* builds whose directory is there
  pidfiles,      \* builds that have the build.pid of their directory open
  targetlogs,    \* builds that have a build_target_*.log open
  cleaning,      \* the next step of Cleanup
  cleanBuild,    \* its option -build
  looks, looked, \* the directories that it has still to look at, and the last one
  delme,         \* its variable of that name
  torn, early,   \* history: builds whose directory went while they worked; before build.pid was open
  bare, quick,   \* history: ... whose mounts went; that came between test and umount
  purged,        \* history: builds that ran when Cleanup -build came
  remounted,     \* history: the source tree was mounted before rm and after umount
  wiped,         \* history: rm -rf went through a mount
  shot           \* history: builds that were killed

bdVars == <<kindOf, buildPc, mounted, srcdirs, pidfiles, targetlogs, cleaning, cleanBuild, looks, looked, delme,
            torn, early, bare, quick, purged, remounted, wiped, shot>>

Harm == <<torn, bare, purged, wiped>>
Cleaner == <<cleaning, cleanBuild, looks, looked, delme, early>>

InBlock == {"archdir", "work"}
InChroot == {"prepare", "pid", "clean"} \cup InBlock
Relying == {b \in Builds : buildPc[b] \in {"mkdir", "enter"} \cup InChroot}
Running == {b \in Builds : buildPc[b] # "end"}

Goto(b, l) == buildPc' = [buildPc EXCEPT ![b] = l]

(* umount fails if a process is inside; umount -l takes the topmost mount off. *)
Unmounted ==
  LET n == IF \E b \in Builds : buildPc[b] \in InChroot THEN 1 ELSE 2
  IN IF mounted <= n THEN 0 ELSE mounted - n

--------------------------------------------------------------------------
(* Build-Target opens its log as file descriptor 201 of all that it runs. *)
OpenLog(b) ==
  /\ buildPc[b] = "start"
  /\ targetlogs' = targetlogs \cup {b}
  /\ quick' = IF \E c \in Builds : buildPc[c] = "umount" THEN quick \cup {b} ELSE quick
  /\ Goto(b, "test")
  /\ UNCHANGED <<kindOf, mounted, srcdirs, pidfiles, Cleaner, Harm, remounted, shot>>

TestMounts(b) ==
  /\ buildPc[b] = "test"
  /\ Goto(b, IF mounted = 0 THEN "mount" ELSE "mkdir")
  /\ UNCHANGED <<kindOf, mounted, srcdirs, pidfiles, targetlogs, Cleaner, Harm, quick,
                 remounted, shot>>

Mount(b) ==
  /\ buildPc[b] = "mount"
  /\ mounted' = mounted + 1
  /\ remounted' = (remounted \/ cleaning = "rmbuild")
  /\ Goto(b, "mkdir")
  /\ UNCHANGED <<kindOf, srcdirs, pidfiles, targetlogs, Cleaner, Harm, quick, shot>>

(* Outside of the chroot, with chroot.sh in it, and inside, and a part of it. *)
MakeDir(b) ==
  /\ buildPc[b] \in {"mkdir", "prepare", "archdir"}
  /\ srcdirs' = srcdirs \cup {b}
  /\ Goto(b, CASE buildPc[b] = "mkdir" -> "enter"
               [] buildPc[b] = "prepare" -> "pid"
               [] buildPc[b] = "archdir" -> "work")
  /\ UNCHANGED <<kindOf, mounted, pidfiles, targetlogs, Cleaner, Harm, quick, remounted,
                 shot>>

(* Without chroot.sh there is nothing to run. *)
Enter(b) ==
  /\ buildPc[b] = "enter"
  /\ Goto(b, IF b \in srcdirs THEN "prepare" ELSE "leave")
  /\ UNCHANGED <<kindOf, mounted, srcdirs, pidfiles, targetlogs, Cleaner, Harm, quick,
                 remounted, shot>>

(* If the directory is gone, the build goes on without a build.pid. *)
OpenPid(b) ==
  /\ buildPc[b] = "pid"
  /\ pidfiles' = pidfiles \cup ({b} \cap srcdirs)
  /\ Goto(b, "archdir")
  /\ UNCHANGED <<kindOf, mounted, srcdirs, targetlogs, Cleaner, Harm, quick, remounted,
                 shot>>

Worked(b) ==
  /\ buildPc[b] = "work"
  /\ pidfiles' = pidfiles \ {b}
  /\ Goto(b, "clean")
  /\ UNCHANGED <<kindOf, mounted, srcdirs, targetlogs, Cleaner, Harm, quick, remounted,
                 shot>>

(* SDECFG_KEEP_SRC may keep the directory. *)
CleanupSrc(b, keep) ==
  /\ buildPc[b] = "clean"
  /\ srcdirs' = IF keep THEN srcdirs ELSE srcdirs \ {b}
  /\ Goto(b, "leave")
  /\ UNCHANGED <<kindOf, mounted, pidfiles, targetlogs, Cleaner, Harm, quick, remounted,
                 shot>>

Leave(b) ==
  /\ buildPc[b] = "leave"
  /\ targetlogs' = targetlogs \ {b}
  /\ Goto(b, IF kindOf[b] = "target" THEN "fuser" ELSE "end")
  /\ UNCHANGED <<kindOf, mounted, srcdirs, pidfiles, Cleaner, Harm, quick, remounted,
                 shot>>

(* Variant: the logs of other runs are not looked at. *)
FuserOwn(b) ==
  /\ buildPc[b] = "fuser"
  /\ Goto(b, "umount")
  /\ UNCHANGED <<kindOf, mounted, srcdirs, pidfiles, targetlogs, Cleaner, Harm, quick,
                 remounted, shot>>

(* umount_chroot, "if we are the last process using them". *)
Fuser(b) ==
  /\ buildPc[b] = "fuser"
  /\ Goto(b, IF targetlogs = {} THEN "umount" ELSE "end")
  /\ UNCHANGED <<kindOf, mounted, srcdirs, pidfiles, targetlogs, Cleaner, Harm, quick,
                 remounted, shot>>

Umount(b) ==
  /\ buildPc[b] = "umount"
  /\ mounted' = Unmounted
  /\ bare' = IF mounted' < mounted /\ mounted' = 0 THEN bare \cup Relying ELSE bare
  /\ Goto(b, "end")
  /\ UNCHANGED <<kindOf, srcdirs, pidfiles, targetlogs, Cleaner, torn, purged, wiped,
                 quick, remounted, shot>>

Killed(b) ==
  /\ b \in Running /\ Cardinality(shot) < MaxKilled
  /\ shot' = shot \cup {b}
  /\ pidfiles' = pidfiles \ {b} /\ targetlogs' = targetlogs \ {b}
  /\ Goto(b, "end")
  /\ UNCHANGED <<kindOf, mounted, srcdirs, Cleaner, Harm, quick, remounted>>

--------------------------------------------------------------------------
StartCleanup ==
  /\ cleaning = "none"
  /\ cleanBuild' \in BOOLEAN
  /\ looks' = srcdirs /\ cleaning' = "look" /\ delme' = TRUE
  /\ UNCHANGED <<kindOf, buildPc, mounted, srcdirs, pidfiles, targetlogs, looked, Harm,
                 early, quick, remounted, shot>>

Look(b) ==
  /\ cleaning = "look" /\ b \in looks
  /\ looks' = looks \ {b} /\ looked' = {b}
  /\ delme' = IF b \in srcdirs THEN b \notin pidfiles ELSE delme
  /\ cleaning' = IF b \in srcdirs \ pidfiles THEN "rm" ELSE "look"
  /\ early' = IF buildPc[b] \in {"enter", "prepare", "pid"} THEN early \cup {b} ELSE early
  /\ UNCHANGED <<kindOf, buildPc, mounted, srcdirs, pidfiles, targetlogs, cleanBuild, Harm,
                 quick, remounted, shot>>

RemoveDir ==
  /\ cleaning = "rm"
  /\ srcdirs' = srcdirs \ looked /\ pidfiles' = pidfiles \ looked
  /\ torn' = torn \cup {b \in looked : buildPc[b] \in InBlock}
  /\ cleaning' = "look"
  /\ UNCHANGED <<kindOf, buildPc, mounted, targetlogs, cleanBuild, looks, looked, delme,
                 bare, purged, wiped, early, quick, remounted, shot>>

(* Of the builds: mounts and mount points go, or the build stays; delme may  *)
(* also be what the last directory has left in it.                           *)
UmountBuild ==
  /\ cleaning = "look" /\ looks = {} /\ cleanBuild
  /\ mounted' = Unmounted
  /\ bare' = IF mounted' < mounted /\ mounted' = 0 THEN bare \cup Relying ELSE bare
  /\ purged' = purged \cup Running
  /\ delme' = (delme /\ mounted' = 0)
  /\ cleaning' = IF delme' THEN "rmbuild" ELSE "end"
  /\ UNCHANGED <<kindOf, buildPc, srcdirs, pidfiles, targetlogs, cleanBuild, looks, looked,
                 torn, wiped, early, quick, remounted, shot>>

(* With all that is below it: the logs, and what is mounted. *)
RemoveBuild ==
  /\ cleaning = "rmbuild"
  /\ wiped' = (wiped \/ mounted > 0)
  /\ torn' = torn \cup {b \in srcdirs : buildPc[b] \in InBlock}
  /\ purged' = purged \cup Running
  /\ srcdirs' = {} /\ pidfiles' = {} /\ targetlogs' = {}
  /\ cleaning' = "end"
  /\ UNCHANGED <<kindOf, buildPc, mounted, cleanBuild, looks, looked, delme, bare, early,
                 quick, remounted, shot>>

EndCleanup ==
  /\ cleaning = "look" /\ looks = {} /\ ~cleanBuild
  /\ cleaning' = "end"
  /\ UNCHANGED <<kindOf, buildPc, mounted, srcdirs, pidfiles, targetlogs, cleanBuild,
                 looks, looked, delme, Harm, early, quick, remounted, shot>>

Init ==
  /\ kindOf \in [Builds -> Kinds]
  /\ buildPc = [b \in Builds |-> IF kindOf[b] = "target" THEN "start" ELSE "test"]
  /\ mounted = 0 /\ srcdirs = {} /\ pidfiles = {} /\ targetlogs = {}
  /\ cleaning = "none" /\ cleanBuild = FALSE /\ looks = {} /\ looked = {} /\ delme = TRUE
  /\ torn = {} /\ early = {} /\ bare = {} /\ quick = {} /\ purged = {}
  /\ remounted = FALSE /\ wiped = FALSE /\ shot = {}

Next ==
  \/ \E b \in Builds :
       \/ OpenLog(b) \/ TestMounts(b) \/ Mount(b) \/ MakeDir(b) \/ Enter(b) \/ OpenPid(b) \/ Worked(b)
       \/ (\E keep \in BOOLEAN : CleanupSrc(b, keep))
       \/ Leave(b) \/ Fuser(b) \/ Umount(b) \/ Killed(b) \/ Look(b)
  \/ StartCleanup \/ RemoveDir \/ UmountBuild \/ RemoveBuild \/ EndCleanup

Spec == Init /\ [][Next]_bdVars

--------------------------------------------------------------------------
TypeOK ==
  /\ kindOf \in [Builds -> Kinds]
  /\ buildPc \in [Builds -> {"start", "test", "mount", "mkdir", "enter", "leave", "fuser", "umount", "end"} \cup InChroot]
  /\ mounted \in 0..Cardinality(Builds)
  /\ pidfiles \subseteq srcdirs /\ UNION {srcdirs, looks, looked, targetlogs} \subseteq Builds
  /\ cleaning \in {"none", "look", "rm", "rmbuild", "end"} /\ {cleanBuild, delme} \subseteq BOOLEAN

(* A build that works loses its directory only if Cleanup has looked at it    *)
(* before its build.pid was open (Build-Pkg:478-581, Cleanup:70-82), or with  *)
(* -build, which asks nobody.  The source tree is never removed through its   *)
(* mount, unless it was mounted since -build took it off (Cleanup:110-121).   *)
DirsAreSafe ==
  /\ torn \subseteq early \cup purged
  /\ wiped => remounted

(* A build of Build-Target loses the mounts it counts on only if it opened    *)
(* its log between the test and the umount of another one's end               *)
(* (Build-Target:301-308), or with Cleanup -build.                            *)
MountsAreSafe == {b \in bare : kindOf[b] = "target"} \subseteq quick \cup purged

(* If all builds are of Build-Target and none is killed, the last one takes   *)
(* two mounts off, which leaves none unless three have mounted at once        *)
(* (Build-Pkg:168-173, Build-Target:304-305).                                 *)
MountsEnd ==
  Running \cup shot = {} /\ (\A b \in Builds : kindOf[b] = "target") =>
    mounted = 0 \/ mounted + 2 <= Cardinality(Builds)
=============================================================================
