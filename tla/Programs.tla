------------------------------ MODULE Programs ------------------------------
(***************************************************************************)
(* Scripts and programs of the repository of which each works for itself:  *)
(* three scripts, the bonding tool, the threads and the collector of Lua.  *)
(* A behaviour is one of the program prog; the state of the others is      *)
(* None.                                                                   *)
(* The instances are of the modules with the theorems where these have a   *)
(* module of their own, so that ProgramsProofs can cite them.              *)
(***************************************************************************)
EXTENDS Integers, Sequences

CONSTANTS
  None,                                         \* the state of a program that does not run
  Users, Configs, MaxFiles, MaxKills,           \* of ConfigLock
  Makers, Flags, MaxEdits,                      \* of BuildTools
  Builds, Kinds, MaxKilled,                     \* of BuildDirs
  Master, Cards, SlaveLists, Abis, MaxFailures, \* of IfEnslave
  Coroutines, MaxFrames, LUAI_MAXCCALLS, MaxSteps, \* of LuaThread
  MaxObjects, GCSWEEPMAX, Slots, Mutators       \* of LuaHeap

VARIABLES
  prog,  \* the program that runs
  configOf, clPc, lockPid, opened, created, config, options, tmpdir, luabash, stale,
  broken, kills, robbed, unmade, failed,
  flag, maker, edits, lastupdate, tool, temp, confs, missed, overlapped, dead,
  kindOf, buildPc, mounted, srcdirs, pidfiles, targetlogs, cleaning, cleanBuild, looks,
  looked, delme, torn, early, bare, quick, purged, remounted, wiped, shot,
  dev, active, abi_ver, cmd, slaves, master_is, slave_is, hwaddr_set, step, res,
  failures, before, given_slaves,
  frames, bottom, costatus, nCcalls, chain, throwing, steps, truth,
  program, heap, stack, cw, gcstate, atomic, gray, grayagain, weak, unswept, tmudata,
  full, ops, garbage, gced

Lock == INSTANCE ConfigLock
Make == INSTANCE BuildTools
Chroots == INSTANCE BuildDirs
Bond == INSTANCE IfEnslaveProofs
Thread == INSTANCE LuaThreadProofs
Heap == INSTANCE LuaHeapProofs

clVars ==
  <<configOf, clPc, lockPid, opened, created, config, options, tmpdir, luabash, stale,
  broken, kills, robbed, unmade, failed>>
btVars ==
  <<flag, maker, edits, lastupdate, tool, temp, confs, missed, overlapped, dead>>
bdVars ==
  <<kindOf, buildPc, mounted, srcdirs, pidfiles, targetlogs, cleaning, cleanBuild,
  looks, looked, delme, torn, early, bare, quick, purged, remounted, wiped, shot>>
ifVars ==
  <<dev, active, abi_ver, cmd, slaves, master_is, slave_is, hwaddr_set, step, res,
  failures, before, given_slaves>>
lthVars ==
  <<frames, bottom, costatus, nCcalls, chain, throwing, steps, truth>>
lhVars ==
  <<program, heap, stack, cw, gcstate, atomic, gray, grayagain, weak, unswept, tmudata,
  full, ops, garbage, gced>>
programsVars == <<prog, clVars, btVars, bdVars, ifVars, lthVars, lhVars>>

(* A program that does not run. *)
NoLock ==
  /\ configOf = None /\ clPc = None /\ lockPid = None /\ opened = None
  /\ created = None /\ config = None /\ options = None /\ tmpdir = None
  /\ luabash = None /\ stale = None /\ broken = None /\ kills = None /\ robbed = None
  /\ unmade = None /\ failed = None
NoMake ==
  /\ flag = None /\ maker = None /\ edits = None /\ lastupdate = None /\ tool = None
  /\ temp = None /\ confs = None /\ missed = None /\ overlapped = None /\ dead = None
NoChroots ==
  /\ kindOf = None /\ buildPc = None /\ mounted = None /\ srcdirs = None
  /\ pidfiles = None /\ targetlogs = None /\ cleaning = None /\ cleanBuild = None
  /\ looks = None /\ looked = None /\ delme = None /\ torn = None /\ early = None
  /\ bare = None /\ quick = None /\ purged = None /\ remounted = None /\ wiped = None
  /\ shot = None
NoBond ==
  /\ dev = None /\ active = None /\ abi_ver = None /\ cmd = None /\ slaves = None
  /\ master_is = None /\ slave_is = None /\ hwaddr_set = None /\ step = None
  /\ res = None /\ failures = None /\ before = None /\ given_slaves = None
NoThread ==
  /\ frames = None /\ bottom = None /\ costatus = None /\ nCcalls = None
  /\ chain = None /\ throwing = None /\ steps = None /\ truth = None
NoHeap ==
  /\ program = None /\ heap = None /\ stack = None /\ cw = None /\ gcstate = None
  /\ atomic = None /\ gray = None /\ grayagain = None /\ weak = None /\ unswept = None
  /\ tmudata = None /\ full = None /\ ops = None /\ garbage = None /\ gced = None

ProgramsInit ==
  /\ IF prog = "config" THEN Lock!Init ELSE NoLock
  /\ IF prog = "build_tools" THEN Make!Init ELSE NoMake
  /\ IF prog = "build_dirs" THEN Chroots!Init ELSE NoChroots
  /\ IF prog = "ifenslave" THEN Bond!Init ELSE NoBond
  /\ IF prog = "lua_thread" THEN Thread!Init ELSE NoThread
  /\ IF prog = "lua_gc" THEN Heap!Init ELSE NoHeap

ProgramsNext ==
  /\ UNCHANGED prog
  /\ IF prog = "config" THEN Lock!Next ELSE UNCHANGED clVars
  /\ IF prog = "build_tools" THEN Make!Next ELSE UNCHANGED btVars
  /\ IF prog = "build_dirs" THEN Chroots!Next ELSE UNCHANGED bdVars
  /\ IF prog = "ifenslave" THEN Bond!Next ELSE UNCHANGED ifVars
  /\ IF prog = "lua_thread" THEN Thread!Next ELSE UNCHANGED lthVars
  /\ IF prog = "lua_gc" THEN Heap!Next ELSE UNCHANGED lhVars

ProgramsSpec == ProgramsInit /\ [][ProgramsNext]_programsVars

--------------------------------------------------------------------------
(* Of the scripts: two write a configuration only through a removed lock file *)
(* (Config), .lastupdate vouches for the tools (Build-Tools), and a build     *)
(* keeps its directory and the mounts it counts on (Build-Pkg, Build-Target,  *)
(* Cleanup).                                                                  *)
ScriptsAreRight ==
  /\ prog = "config" => Lock!OneWriter /\ Lock!OptionsAreKept
  /\ prog = "build_tools" => Make!StampIsRight
  /\ prog = "build_dirs" => Chroots!DirsAreSafe /\ Chroots!MountsAreSafe /\ Chroots!MountsEnd

(* The bonding tool (package/network/ifenslave) leaves slaves and master as   *)
(* told, or its exit status tells that it did not.                            *)
BondsAreRight == prog = "ifenslave" => Bond!BondIsRight

(* The coroutines and protected calls of Lua (ldo.c, lbaselib.c). *)
ThreadsAreRight == prog = "lua_thread" => Thread!ThreadsAreRight

(* The collector of Lua (misc/luabash/lua/lgc.c) frees nothing that is in use, *)
(* and what its write barriers keep up holds.                                  *)
HeapIsSafe == prog = "lua_gc" => Heap!HeapIsSafe /\ Heap!MarksAreRight
=============================================================================
