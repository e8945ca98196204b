# T2: a verification development of the build system

T2 builds Linux distributions from source.  Its program is a set of shell, awk and Perl
scripts (`scripts/`), C tools that watch a build (`misc/tools-source/`) or serve the
scripts and the installed system (`misc/`, `source/`, `package/network/ifenslave`), and a
Lua interpreter that runs inside bash (`misc/luabash`); `package/`, `target/` and
`architecture/` hold the data they work on.  This directory has TLA+ models of their
control logic, TLC configurations that check them on small instances, and TLAPS proofs
for all instances.

What the scripts have in common, and what makes them worth modelling: **their state is
files**.  A script reads and writes log files, lock files, lists and time stamps; it may
be interrupted between any two of them, and another process, or its own next run, goes
on from what it finds.  The models have these files as variables, and a step for each
access to them that somebody else can come in between.  The C programs keep their state
in memory; there the hard part is an invariant that many places have to keep up, such as
those of a garbage collector, of a hash table or of a list that is drawn row by row.

## Inventory

| Part | State it keeps | Operations | Hard behaviour | Correct means |
|---|---|---|---|---|
| **Build queue** `Create-PkgQueue` | four flags carried from line to line | one awk pass over the packages file per stage 0..9 | order of flag update and test; special cases for stages 0, 1, 9 and `t2-debug`; `-single` | prints exactly the jobs whose predecessors are settled; prints nothing only if nothing can be built |
| **Package build** `Build-Pkg` | `.out`/`.log`/`.err` of a job; the package's records (`flists`, `packages`, `md5sums`); the cache file | clean up, build, file list, description, checks, verdict | `abort` returns; `.log` is both a mark and the verdict; Ctrl-C reaches half of the script; crash between two files | the log files tell the truth about the build, whatever happened |
| **Target build** `Build-Target` | the log files of all jobs, package files, package database | clean old logs, take the first job of the queue, build it, judge the result, pack | crashes and restarts, errors that are fatal or not, `-job` rebuilds | jobs are built in order, each run ends, no job is forgotten, no failure is passed over |
| **Parallel daemons** `Build-Job` | `q.job`, `q.todo`, `q.lock` per job, on a shared directory | scan the queue, claim a job, build, remove its files | several hosts race for one job; a build dies | one builder per job, one build per offer, the queue is emptied |
| **Download** `Download` | lock file, `.incomplete`, `.cksum-err`, `.extck-err` files | lock, fetch, check sums, rename | two downloads of one file; interruption; mirror fallback | a file under its final name is complete; the exit code tells of errors |
| **Build directories** `Build-Pkg`, `Build-Target`, `Cleanup` | bind mounts of a chroot, directories `src.*`, `build.pid`, open log files | mount, make, enter; umount if last; remove if unused | every test is a step before what is done upon it; builds that have just started | a running build keeps its directory and its mounts; nothing is removed through a mount |
| **Configuration** `Config` | `config/<name>/config`, `lock.pid`, the temporary directory, `src/luabash.so` | lock, read, dialog, cut and write, unlock | two users; the lock file is removed while others wait for its lock | one writer; no options lost |
| **Build tools** `Build-Tools` | wrappers, `.lastupdate` | rebuild what is out of date | sources change meanwhile; parallel builds; death in between | the stamp vouches for the tools |
| **Package installation** `Emerge-Pkg` | list of packages, depth of the walk | follow dependencies, sort, download, build | cycles, packages met twice, blacklist, failures | what is needed is built, in order, once |
| **Build simulation** `parasim2.pl`, `Create-ParaSim` | simulated jobs, clock, log files of its own | ask the queue, start, advance | jobs that end at the same time | every job once; its length is that of a build |
| **Command wrappers** `cmd_wrapper.c`, `fl_stparse.c` | the wrappers' environment variables; table of traced processes | run the next wrapper or the command; follow `chdir`, `fork`, `open` | the program runs itself; lines out of order | the configured command is run; each created file is listed |
| **Description tools** `dependency.cc`, `UpdateList.cc` | drawing with columns for arrows; versions of a page | order, draw; fetch, compare | cycles; versions of different length | no arrow is lost; the newest version is reported |
| **Dialogs and media check** `misc/confdialog`, `misc/isomd5sum` | the rows of the screen, a buffer of a file; buffers of sums | key by key; fragment by fragment | partial redraws, reads at the edge of a buffer; the sum is stored in what is summed | the screen shows what an answer means; a changed media fails |
| **Bonding tool** `ifenslave.c` | flags, master, address, mtu of interfaces | attach, detach, make active | any of a dozen ioctls fails | slaves and master are as told or as they were |
| **Lua and luabash** `misc/luabash` | heap, tables, stacks, calls, code | collect, insert, traverse, sort, match, resume, compile, execute; calls between bash and Lua | the mutator between two steps of the collector; keys that die; errors through C calls; registers that are shared | below, per module |
| Reports, images, maintainer scripts, Lua scripts, targets, packages | - | conversions of text and files | - | not modelled: see the end |

How they interact: `Build-Target` calls `Create-PkgQueue`, `Download` and `Build-Pkg`
one after the other and learns what happened from exit codes and from the log files,
which `Build-Pkg` writes and `Create-PkgQueue` reads.  `Build-Job` daemons call the same
`pkgloop_package` on several hosts.  `Build-Pkg` runs `Build-Tools`, which runs `Config
-oldconfig` when a source has changed; it builds inside the command wrappers and gets its
file list from `fl_wrapper` or, traced, from `fl_stparse`.  Scripts call Lua by
`luabash`, and dialogs by `confdialog`.  `Cleanup`, `Config`, `Download` and `Emerge-Pkg`
are run by the user at any time beside all this.

## Modules

| Module | Models | Remarks |
|---|---|---|
| `PkgQueue` | the decision of `Create-PkgQueue`, in closed form | a job is `<<stage, package>>`, a package its line in the packages file |
| `PkgQueueScan` | the awk loop that takes it, a line per step | `stagelevel = 10` is the end |
| `BuildPkg` | `Build-Pkg` | `step[j]` is the position of the process of job `j` |
| `BuildTarget` | `Build-Target`, composing `PkgQueue` and `BuildPkg` | `pc` is its position, `down` between runs |
| `BuildPlan` | abstract: what a target build promises | no files, no processes; `BuildTarget` implements it |
| `BuildJob` | the daemons of `Build-Job` | `q.job`, `q.todo`, `q.lock` are the sets `job`, `todo`, `lock` |
| `Download` | `Download`, with `Cleanup`, of downloads and of `src/` | a process per command; a file has a fetched and a final name |
| `BuildDirs` | `Build-Pkg`, the end of `Build-Target`, and `Cleanup`, as they share mounts and directories | `buildPc` and `cleaning` are their positions |
| `ConfigLock` | `Config` | a lock file has a number; `lockPid` is the one with the name, `opened` the one a user has a descriptor of |
| `BuildTools` | `Build-Tools` | a time is the number of commands so far |
| `EmergePkg` | `Emerge-Pkg` | the recursion of `dep4pkg` is a stack of lists |
| `ParaSim` | `parasim2.pl`, `Create-ParaSim`, on `PkgQueue` | |
| `CmdWrapper`, `FileTrace` | `cmd_wrapper.c` with `fl_wrapper_execl.c`; `fl_stparse.c` with `fl_wrparse.c` | a word of the configuration is the set of arguments its condition matches |
| `DependGraph`, `UpdateCheck` | `dependency.cc`; `UpdateList.cc`, `desc-parser.hh`, `tag-parser.hh`, `Curl.hh` | |
| `ConfDialog`, `TextBox`, `IsoMd5` | `misc/confdialog`; its pager; `misc/isomd5sum` | |
| `IfEnslave` | `ifenslave.c` | an ioctl is a step |
| `LuaHeap` | `lgc.c`, `lfunc.c`, `lstring.c` | a step of the collector may come between any two operations; its lists are sets, and any object of `gray` may be the next |
| `LuaTable`, `LuaSort`, `LuaMatch` | `ltable.c`; `auxsort` of `ltablib.c`; the matcher of `lstrlib.c` | |
| `LuaThread` | `ldo.c`, coroutines and `pcall` of `lbaselib.c` | |
| `LuaCode`, `LuaParser` | `lcode.c`; `lparser.c` | operators on a record of the function that is generated |
| `LuaMeaning` | abstract: what a chunk means | an evaluator of syntax trees, not translated from the code |
| `LuaVm` | `lvm.c`, on the code `LuaParser` makes | an instruction per step |
| `LuaBash` | `luabash.c` and the stack of `ldo.c` | |
| `Programs` | the composition of `ConfigLock`, `BuildTools`, `BuildDirs`, `IfEnslave`, `LuaThread` and `LuaHeap` | one program per behaviour, `prog` says which; the properties proved of them together |
| `MCPrograms`, `MCLuaChunks` | `Programs` and instances of the other 14 of these programs for TLC | |
| other `MC...` | instances for TLC | values of `Stages`, `Daemons`, `Procs` |
| `...Proofs` | theorems about the module they extend | checked with `tlapm`; `ProgramsProofs` has those of the three scripts as well |

Definitions called "Variant" are versions of the code with a mistake in it, each beside
the definition it varies; they are used by no specification and serve to show that the
properties notice the mistake (`PROJECT.json`, `mutants`).

### The queue

`Create-PkgQueue` reads the packages file ten times.  For each line of a package that is
built in the current stage it looks for the job's log files: with neither `.log` nor
`.err` the job is `Absent`, and it is printed if it is `Buildable`.  The database of
dependencies that the script was written for is never filled (the lines that read it are
commented out), so that every package depends on all those before it; only stage 9 is
free of this as soon as no job of a lower stage is absent.  `PkgQueueScan` has the
script's four flags as variables, in the order in which the code updates and tests them
(`AbsentLine` updates first).  `FlagsInv` says what each flag stands for, `QueueCorrect`
that the result is that of the closed form, which `BuildTarget` then uses.

### The build of a package

`Build-Pkg` is split where another process or a crash can observe it:

| Step | Code | Effect |
|---|---|---|
| `Start` | 273-293 | the build begins, and removes the old `.out` |
| `RemoveLog`, `RemoveErr` | 294, 295 | remove the other old logs, one after the other |
| `RemoveCache` | 297-310 | removes the cache file of a timed build |
| `StartFails` | exits before 273 | `Build-Tools` fails, no such package, or several of the name (writes `.err`) |
| `ConfigFails` | up to 598 | `abort` of `functions.in`, or `Build-Tools` of the second run |
| `OpenOutput` | 353-598 | `tee` creates `.out` |
| `MainBuild`, `MainBuildFails` | 600-618 | files are installed, `.log` is touched, or `abort` removes it |
| `FileList` | 620-728 | merges the file list; may `abort` |
| `Describe` | 730-902 | package description, md5sums, checks; may `abort` |
| `Finish` | 918-1002 | the verdict: `mv .out` to `.log` or `.err`, exit status |
| `WriteCache` | 311-348 | the timing parent writes the cache file |
| `Interrupt`, `Killed`, `Crash` | - | Ctrl-C, a killed process, a host crash, at any of these |

Inside the block, `abort` is redefined to remove the `.log` and **return**, so each later
step is taken after a failure as well.  A start that dies between two of its `rm` commands
leaves a `.log` whose `.out` is gone, though the dead build before it had not got to its
verdict, or a cache file whose `.err` is gone: `oldlog` and `olderr` are the jobs of such
starts, and `LoneLogIsComplete` and `CacheErrorIsCurrent` are about all others.  `disk`,
`flist` and `adm` record for each package the stages that have installed, listed and
described files.  The records of stage 0 are in another directory
(`TOOLCHAIN/tools.cross/var/adm`), which is why `Pack` leaves stage 0 out.

### The target build

One action per block of `pkgloop` and `pkgloop_package`.  The result of `Download` is not
used by the code (212-214) and `Download` is no step.  Ctrl-C in `Build-Target` also stops
the `tee` behind `Build-Pkg`, so `Interrupts` is only for `Build-Pkg` run by itself.
`StartRun`, `StartJob` and `HostCrash` are what user and host do; `MaxRuns` and
`MaxCrashes` bound them.  The program itself has no bound: within a run it goes on until
its queue is empty or an error stops it.

### The daemons

Each system call on the shared directory is a step: the two tests of
`[ -f q.job -a ! -f q.lock ]`, the test in the `Build-Job` process, the `mv` of `q.todo`,
and the removal of the two files in their order.  The daemon and the `Build-Job` process
it waits for are one process.  The master that offers jobs is not part of the repository:
`Offer`, `Close` and `Stop` are external and as free as the daemons' code allows.

### Downloads

A process of `Download` goes through the `[D]` lines of a package.  `pc` follows
`download_file`: the test for the final name, the test and the write of the lock file
(three commands), `work` (which way to get the file), `mirror` and `orig` (curl writes to
`.incomplete`), `unpack` and `sum` (the checksum is that of the unpacked data, `dat`),
`open`, `bzip` and `rmgz` (conversion: the shell opens the final name, the pipe fills it,
the fetched file is removed), `done` (the lock file is removed).  `file` gives each name
a content: absent, truncated, wrong or right; `.cksum-err` and `.extck-err` files are the
sets `cksumerr` and `extckerr`.  Ctrl-C runs the trap, which removes the lock file, kills
the running command and lets the script go on; `Killed` leaves everything as it is.
Cleanup may come at any time: with `-download` it removes what has not got its final name,
without options it removes `src/` file by file, and so the lock files and the unpacked data
(`down.$$.dat`) of downloads that run.  The lock file may fail to be written, the file to be
unpacked in full, and the conversion to be completed; the code tests none of the three.
Data that `curl` still writes
when another download has renamed its `.incomplete` file go into the renamed file
(`moved`).

The lock has holes, and the properties say which: `raced` are the files that were locked
by two at once, `late` those that were completed between the first test and the lock (the
code tests for the file before it locks, Download:324, and so may fetch a file again that
is there), `interrupted` and `killed` those whose process was, `unlocked` those whose lock file
Cleanup removed, or that had none; `unread` are the files that were not unpacked in full,
whose right copy is then taken for a wrong one, and `spoilt` those whose conversion failed:
bzip2 is not tested (Download:483, 492, 500, 509), a truncated file has the final name, and
the fetched one is removed all the same.  `OverlapOnlyByRace`, `LockReleased`,
`FinalIsVerified` and `GoodFileStays` name each the histories that they except; what they say
of all other files is so what a user has who runs one command at a time, lets it end, and
whose disk does not run full.

Known and not stated as a run: the error files looked for (Download:362) are those of the
fetched name; a copy from the mirror with a wrong sum is kept as `.cksum-err` of the final
name, and is asked for again by each download of a file that has two names.

### Mounts and build directories

`BuildDirs` has the builds of one target, of which some are by `Build-Target` and others
by a user's `Build-Pkg -chroot`, and one `Cleanup`.  A build mounts the source tree if it
is not there, makes its directory three times on its way (outside of the chroot, inside,
and for `archdir`), opens `build.pid` in between, works and removes the directory; the end
of `Build-Target` takes mounts off if no `build_target_*.log` is open.  The histories say
what went wrong for whom: `torn` lost the directory, `bare` the mounts; `early`, `quick`,
`purged`, `remounted` are the ways of it.  What the properties leave open is what the code
does: `Cleanup` removes a directory made before its `build.pid` was opened; `-build` asks
no one, keeps `delme` from the last `src` directory, and removes through a mount that a
build has made since; a build by hand loses its mounts at the end of any `Build-Target`;
of three builds that mounted at once, the end takes two mounts off.

### Config and Build-Tools

`Config` locks `config/<name>/lock.pid` and removes the file at its end.  A user who waits
for the lock gets it of the file that is gone, while the next user makes a new one:
`stale` are the configurations where this has happened, and `OneWriter` is about the
others.  The library that each cycle of each configuration makes anew, `src/luabash.so`,
is under no common lock, and is not there, torn or whole: `make` begins with an `install`
that another cycle may be at, too, and Cleanup may remove `src/` with it.  A cycle fails
(`failed`, status 1 of Config:119-129) only if its own `make` or the loading of the Lua code
failed (`unmade`), or if it was robbed of the library (`robbed`); the options stay whole
however it ends, unless its user was killed while he wrote, or Cleanup took `src/<name>`
from under him (`broken`).
`Build-Tools` looks for files newer than `.lastupdate`, makes the tools and touches it.
Edits meanwhile, a second process, and a `-cleanup` that is killed after the tools and
before the stamp are the ways in which the stamp can lie; the property is that there are
no others.  Overlapping processes may also leave lines twice in the `pkg_*.conf` files.

### Emerge-Pkg and the simulation

The walk over the dependencies looks at a package once, at the depth at which it is met
first.  So an argument that an earlier argument needs is a dependency, which may be
refused (`ScheduleIsRight` excepts it); what comes out does not depend on the order
otherwise.  `-download-only` ends with status 1, always: its loop leaves what the test of
the last `[ ... ] && ...` has left.  The simulation plays the queue of `PkgQueue` with log
files of its own; the leftovers of an earlier simulation of the same number are not
removed, and the model begins without them.

### Wrappers, traces, reports, dialogs, media, bonds

`CmdWrapper` runs the wrapper from `main` to `exec`, and again when a command finds it in
the PATH; `FileTrace` reads lines of a trace in any order in which `strace -f` prints
them.  `Build-Pkg` has `creat` and `mknod` traced as well (Build-Pkg:594), and
`fl_stparse` reads neither (fl_stparse.c:150-176): the list has what was made by the calls
that are read, and what was made by `creat` alone is missing from it.  The prefix that
`fl_wrparse` compares (fl_wrparse.c:125) ends with a slash in all its calls
(Build-Pkg:665-735, functions.in:411), so that it is one of whole names.  In `ConfDialog`
a row of the screen is the item in it, with its highlight and check mark: what is printed
again or scrolled changes rows, and `ScreenIsRight` says that they are the list.
`UpdateCheck` has versions as sequences of numbers and words.  Of two versions one of
which begins the other, the wrong one's part is tested (UpdateList.cc:253): a package at
1.0rc is not told of 1.0.  `ReportIsRight` says that nothing is told that is not newer,
and that what is newer is missed in such cases only (`Comparable`).  The result of `curl`
is a wait status, that of an exit code 256 times the code: the handlers of Curl.hh:69-91
never see the codes that they are for, only signals whose numbers are the same, and any
other failure is told as a cancellation (`Exception`).  Of an empty page `curl` makes no
file, and the program reads for ever (`NoPage`, `ReadOn`).  `IsoMd5` splits an image into
buffers of several sizes; the blank at libcheckisomd5.c:180 is by a length where an offset
is meant, and `VerdictIsRight` says exactly which media pass: those that are unchanged and
have their sum in the first half of its buffer.  `IfEnslave` lets any ioctl fail.  What
the program undoes after a failure is "best effort", by its own comment: `BondIsRight`
names the failures that may leave the master down or slaves without its address, and says
that the status then tells of them, and that status 0 vouches for the bond.

### Lua

`LuaHeap` alternates a mutator (tables, closures with open upvalues, coroutines, strings,
userdata) and the steps of the collector.  `atomic()` is several steps, between which
`atomic` tells how far it has come and the mutator does not run.  `LuaTable` sets, removes
and traverses keys whose hash collides as the instance wants.  `LuaMatch` runs the matcher
and compares it with a definition of matching that has no state.  `LuaSort` is given any
relation as the order, strict or not.  `LuaThread` runs random programs of `resume`,
`yield`, `pcall`, errors and calls from C.  `LuaVm` takes a chunk, compiles it with
`LuaParser` (registers, jump lists, upvalues) and executes it; `ChunkIsRight` compares
what it returns with `LuaMeaning`.  `LuaBash` is about room on the stack: values go on it,
what they are is left out.  No `lua_checkstack` asks for room for the words of a call
(luabash.c:452-461), and a call with many of them writes behind the stack (`Overrun`):
`StackHolds` says that this takes more words than the room Lua grants every C function.

Two families of chunks are compiled wrongly, and `ChunkIsRight` excepts them by what happens
to them, not by leaving them out of the run.  A jump that is always taken, as that of the
`false` in `return (x and 1) or (false and 1)`, is joined to one that carries a value, and
is then mistaken for it (`getjumpcontrol`, lcode.c:108-114): `main.misled`.  The operand of
a minus before `nil` or a boolean becomes a constant where the interpreter has a register
(lcode.c:701-704), which the assertion at lparser.c:374 rejects: `main.negated`.
`ChunkIsRight` is violated without either exception.

## Runs

| Run | Instance | Shows |
|---|---|---|
| `queue_scan` | 3 packages, 6 jobs in stages 0, 1, 5, 9, one of them of `t2-debug`; all combinations of log files, with and without `-single`; `SDECFG_NOBROKENDEPS` | the loop computes the closed form |
| `build_pkg` | a package in stages 1 and 5; failures, Ctrl-C, kills, crashes anywhere, between the removals of a start too | verdicts are borne out by the records; a build ends with one verdict |
| `build_pkg_interrupt` | the same | *violation*: an interrupted build may count as a success |
| `target_run` | 3 packages, 6 jobs, `t2-debug` among them; `SDECFG_NOBROKENDEPS`, errors fatal in stage 0 only; 3 runs | all properties of a target build, and the build plan |
| `target_crash` | 2 packages, 3 jobs in stages 1, 5, 9; `SDECFG_RETRY_BROKEN`, errors fatal up to stage 4; a crash anywhere, `Build-Pkg` killed anywhere; 3 runs, of all jobs or with `-job` (the third one sees what a failed `-job` leaves of an older build) | completeness and the build plan survive crashes |
| `target_lost_log`, `target_both_logs`, `target_held_back` | small | *violations*, see below |
| `build_job` | 2 daemons, 2 jobs, 2 offers each, 1 death | one builder per job, one build per offer; without deaths the queue is emptied |
| `download` | 2 downloads of a file that is converted, from a mirror or the original URL, any leftovers of earlier ones, 1 Ctrl-C, kill, failed write or removal of a file in `src/`; `Cleanup -download` at any time | the lock, the checksums, and that downloads end |
| `download_exit` | 1 download of 2 files | *violation*: status 0 with files missing |
| `programs` | each of 20 programs alone, see below | a property per group of programs |

`programs` is one run of twenty small specifications: its initial states choose one, the
variables of the others are `None`, and nothing is shared.  Its properties are conjunctions
of the programs' own, which their modules state and explain:

| Property | Programs (modules: properties) | Instance |
|---|---|---|
| `ScriptsAreRight` | `ConfigLock`: `OneWriter`, `OptionsAreKept` | 2 users, 2 configurations, 2 lock files, 1 kill; make and load may fail, Cleanup at any time |
| | `BuildTools`: `StampIsRight` | 2 processes, 2 edits, deaths |
| | `BuildDirs`: `DirsAreSafe`, `MountsAreSafe`, `MountsEnd` | 2 builds of either kind, 1 kill, 1 Cleanup |
| `WrappersAreRight` | `CmdWrapper`: `CommandAsConfigured`, `FailureExplained` | 0 to 3 other wrappers, commands that are missing, scripts, busy |
| | `FileTrace`: `ListIsComplete`, `FailureExplained` | 2 pids, 3 processes, traces of 4 lines, files made by `open` and by `creat` |
| `ReportsAreRight` | `ParaSim`: `SimulationIsRight` | 4 packages, 6 jobs in stages 0, 1, 5, 9; Create-ParaSim itself, or 1 to 3 at a time |
| | `EmergePkg`: `ScheduleIsRight`, `BuildsAreRight` | 3 packages, 27 dependency graphs, 29 systems, 9 commands; each download and build may fail |
| | `DependGraph`: `DrawingIsRight`; `UpdateCheck`: `ReportIsRight` | 3 packages and one that is missing; 7 versions, pages of up to 3, two exit codes and two signals of `curl` |
| `ToolsAreRight` | `ConfDialog`: `ScreenIsRight`, `AnswerIsShown` | lists of 0 to 5 items in boxes of up to 4 rows, any keys |
| | `TextBox`: `PageIsRight` | all files of up to 7 characters, a buffer of 4, 2 rows, any keys |
| | `IsoMd5`: `VerdictIsRight` | images of 3 to 5 sectors, any change, buffers that cut the sum |
| | `LuaBash`: `StackHolds` | the real constants divided by about 7: calls with 1, 5 or 9 words, nested 3 deep |
| `BondsAreRight` | `IfEnslave`: `BondIsRight` | 2 slaves, 3 driver versions, 2 failing ioctls |
| `HeapIsSafe` | `LuaHeap`: `HeapIsSafe`, `MarksAreRight` | 4 objects, 2 or 3 operations, 7 starting heaps |
| `TablesAreRight` | `LuaTable`: `TableIsRight`; `LuaSort`: `SortIsRight` | 3 integer keys and a name that may die, all collisions; arrays of up to 9, three orders |
| `MatchesAreRight` | `LuaMatch`: `MatchIsRight` | patterns of up to two items, and captures of one; subjects of up to 3 characters |
| `ThreadsAreRight` | `LuaThread`: `ThreadsAreRight` | 2 coroutines, 4 calls each, 3 nested C calls, 8 operations |
| `ChunksAreRight` | `LuaVm`: `ChunkIsRight` | about 6800 chunks: expressions of two levels in every place, both families of miscompiled ones among them, loops, assignments, closures, calls |

Why these bounds are enough.  The queue has three regimes (stages 0-1, 2-8, 9) and looks
at pairs of a job and one before it; three packages with jobs in each regime, one package
in two of them, and `t2-debug`, give every such pair.  `Build-Pkg` works on one job, and
what it shares with others is per package: one package, in a stage without and in one
with a timing parent, which may be built again and again.  A target build needs a second
run to meet what the first one left, and a third one to meet what is left of that; two
jobs in stage 9 are needed to be built in the wrong order.  A race for a job or a lock
takes two; the proofs of mutual exclusion are for any number.  A download of another file
shares nothing with the first but the exit status, which `download_exit` is about; its
leftovers are in the initial states, so that no run is needed to produce them.

Of the programs: a lock that is lost takes two users and the file that is gone, a stamp
that lies a process and an edit; three builds, for which TLC takes too long, would add
only the third mount that `MountsEnd` allows for.  A list needs more items than rows, and
so an item above and below the box; a buffer of four characters has every place of its
edge in a line, and a file of seven is read in three parts.  The collector's sweep of two
objects stops between four, and the table of up to four slots is rehashed into an array
and back.  The constants of Lua's stack are scaled so that one call with many words passes
the room that a call with few words is given, and one with nine that of any call; nothing
compares them with another number.

Deadlock is not checked (`CHECK_DEADLOCK FALSE`): the scan ends, the user may start no
further run, daemons end, the programs end.  Termination is checked as a liveness
property instead.

### Fairness

`BuildPkgFairSpec` and `FairSpec` of `BuildTarget` assume weak fairness of the program's
own steps: a shell script executes its next command, and the commands of a package's
build end.  Starts, crashes, kills and Ctrl-C are not fair.  In `BuildJob`, each daemon
has weak fairness: the processes run on different hosts, and none waits for another one
except by looking at files and sleeping.  In `Download`, each process has weak fairness:
it waits for nobody (a lock makes it skip the file), and curl has its own time limits.
`programs` has safety properties only; that the programs get to their ends is seen from
the actions that end them, all of which are taken.

### Violations found

* `build_pkg_interrupt`: "Got SIGINT (Ctrl-C). Aborting build." (Build-Pkg:529), but the
  script goes on behind the pipe, finds the `.log` of the main build and exits 0.
  The property is `InterruptIsFailure`.
* `target_lost_log`: a crash after the `touch` of `.log` (Build-Pkg:614) makes the next
  run take the job for built, with no file list and no description.
* `target_both_logs`: unbalanced quotes in Build-Target:116-117 keep the old logs of a
  `-job` rebuild, which then can have a `.log` and an `.err`, against Build-Target:229.
* `target_held_back`: "Do not try building packages if deps failed" (config.in:218) does
  not hold back stage 9.
* `download_exit`: Emerge-Pkg:270 builds a package if its download returns 0.  After a
  checksum error `download_file` returns 0, the results of all files but the last are
  lost, and `exit $downloaderr` (Download:987) names a variable that is never set
  (`ExitTellsFailure`).

## Proofs

All theorems hold for any number of packages, stages, jobs, daemons and users, under the
named assumptions of the modules (`PackagesFile`, `BuildPkgOptions`, `BuildTargetOptions`,
`BuildJobOptions`, `DownloadOptions`), which give the constants their types; those of
`IfEnslave`, `LuaThread` and `LuaHeap` stand as hypotheses in the theorems
(`BondInstance`, `ThreadInstance`, `HeapInstance`), and `MountsAreTakenOff` counts builds
and is for a finite set of them. `ConfigLock` and `BuildTools` assume nothing.  Each
inductive invariant was checked with TLC before it was proved.

* **`PkgQueueScanProofs`**: `QueueIsCorrect` (`Spec => []QueueCorrect`),
  `ScanTypeCorrect`.  The flags alone are not inductive: what they mean is relative to the
  jobs read so far.  The invariant is `TypeOK /\ FlagsInv /\ QueuedInv /\ QueueCorrect`;
  `LineRead` and `StageRead` say how a step changes what was read, `Decision` that under
  `FlagsInv` the test of the loop is the closed form's, and `EndStep` treats the two ends,
  file read and first job printed.
* **`BuildTargetProofs`**: `TargetTypeCorrect`, `JobsAreInOrder`, `NoFailureIsPassed`,
  `EndedRunsAreComplete`, `VerdictsStand`, `VerdictsAreUnique` (without `-job`),
  `LogsAreComplete`, `PackageFilesAreCurrent`, and `PlanIsCarriedOut`: the
  refinement `Spec => ImplementsPlan`, with any crashes and `-job` runs.  `TargetInv` says
  that `Build-Pkg` runs only for `cur`, and of a run without `-job` that no dead `.out` file
  hides a job from the queue (`OutInv`), that what `Create-PkgQueue` said of `cur` still
  holds when its build starts and ends (`TurnInv`), and that an `.err` that stops the loop
  is that of `cur` (`PassInv`).  `FirstIsDue` and `EmptyIsComplete` are about the closed
  form of the queue: that stage 9 passes over nothing without `NoBrokenDeps`, and that an
  empty queue leaves no job but those behind a broken one, rest on there being a first
  among the jobs without a verdict (`FirstJob`).  `BuildPkgMoves` sums up the steps of
  `Build-Pkg`.

  `LogsAreComplete` is `LogMeansComplete` for runs with `crashes = 0` and no signal: of
  the others the run `target_lost_log` shows that it is false.  `VouchInv` carries
  `WorkInv` (see below) through the loop and says of every `.log` that stands
  when no build runs what it vouches for.

  `PackageFilesAreCurrent` is `PkgFilesCurrent` under two hypotheses.  `Whole`: no build
  is cut off.  `NoRedo`: no job is built behind the last stage of its package.  The second
  one is needed: with `-job`, or when broken jobs are passed over and a later run tries
  them again, an earlier stage is built after the package file was written, and nothing
  writes it again; TLC shows both (the `target_run` instances have neither).  `PkgInv`
  relates, for each job, its records to its `.log` (`ListInv`), the exit of its build to
  what follows (`ExitInv`), and the package file to what is on record: `OwnInv` says that
  only the last stage of a package writes the file, `FirmInv` that the earlier stages are
  built and will not be built again by then, which `EarlierIsFirm` draws from the order of
  the queue, `PackedInv` and `DbInv` that file and database entry, once made, stay current.
* **`BuildTargetProofs`**, of `Build-Pkg`: `AbortsAreFailures`, `LoneLogsAreComplete`,
  `CacheErrorsAreCurrent`, `BuildPkgTypeCorrect`, with Ctrl-C, kills and crashes at every
  step.  `AbortInv` ties `aborted` to the absence of the `.log` until the verdict,
  `WorkInv` says what a `.log` vouches for at each step while `.out` is there, of builds
  that got no Ctrl-C (TLC refutes it of the others), `CacheInv` that an `ERROR` is that of
  a timed build, so that the build that removes the `.err` removes it, too.  A start may be
  killed between any two of its removals: what it leaves of the `.log` is `oldlog` and of
  the cache file `olderr`, which the theorems except and nothing else; a start that goes on
  takes its job out of both.
* **`BuildJobProofs`**: `OneBuilder`, `OneBuildPerOffer`, `OwnerHasFiles`.  Mutual
  exclusion is not inductive by itself: that a job is claimed by one daemon rests on
  `q.todo` being gone while it is built (`FilesOfOwner`), and one build per offer on the
  right to build being unused until it is (`RightIsUnused`).
* **`DownloadProofs`**: `OverlapsAreRaces`, `LocksAreReleased`, `DownloadTypeCorrect`,
  `FinalsAreVerified`, `GoodFilesStay`.  The lock invariant adds to the first two
  properties that who is inside holds the lock, or its file was raced for, interrupted or
  `unlocked` (`InsideIsLocked`): the second one to lock a file then finds the lock, and
  the file is in `raced` from then on.  `VerifiedInv` says of an undisturbed file, no
  conversion of which failed (`spoilt`), that its final name is absent or right, or that
  the process in it (there is one, by the lock invariant) is writing it or has yet to
  check it, and that the data it has checked are those of the file.  `NameInv` and
  `MovedInv` (only a process that is not alone in its file loses its `.incomplete`) keep
  other files out of it.  `MovesKeepVerified` reduces each step to what it does to its own
  file.  `GoodFilesStay` is the action property: its invariant `KeepsInv` says at which of
  the three names (final, fetched, `.incomplete`) a process at each of its steps can hold
  a right file, so that the name that a step removes is not the only one; `OtherNames` and
  `OwnStep` frame the steps of other processes.

* **`ProgramsProofs`**, of `ConfigLock`: `WritersAreAlone` (`[]OneWriter`),
  `OptionsStayWhole` (`[]OptionsAreKept`).  `LockInv` says that a file is held by one user
  (flock), and that who is inside holds the file that has the name, unless the
  configuration is stale; `StepInside` frames the steps that touch neither files nor
  locks, `StepToEnd` the two that end a command.  `OptionsInv` says that a file is not
  whole only while somebody is about to write into it what he has read, which was whole
  because nobody else was inside, and that `src/<name>` is there until its user leaves,
  unless Cleanup took it (`broken`), whether the cycle's `make` and `load` succeed or not;
  `LibraryInv` that who is about to load the library finds it whole and nobody at
  installing it, or is in `robbed` or `unmade`.
* **`ProgramsProofs`**, of `BuildTools`: `StampVouches` (`[]StampIsRight`).  `StampInv` is
  about a process that works alone (`Undisturbed`): what it has made so far is of the
  sources that are there (`Progress`), there is no stamp until it has made all
  (`Unstamped`), and a stamp vouches for the tools unless a `-cleanup` has just removed
  them (`Vouched`); a process that has looked at the sources and is about to clean up is
  not alone any more, which is why `Making` leaves out `"clean"`.  `ThereInv` is about
  many at a time that sweep each other's temporary files and lines: whose `mv` finds
  nothing has been swept by one whose own `mv` came before (`IsMade`), and lines that are
  gone are about to be written again (`Appending`).
* **`ProgramsProofs`**, of `BuildDirs`: `DirectoriesAreSafe` (`[]DirsAreSafe`), `MountsStay`
  (`[]MountsAreSafe`), for any number of builds and kills, `MountsAreTakenOff`
  (`[]MountsEnd`).  `DirInv` says at which steps a
  directory and its `build.pid` must be there, and that `Cleanup`, when it is about to
  remove one, has seen no such build; `MountInv` that who counts on the mounts has its log
  open, so that an `umount` decided on none being open can only meet later ones.
  `CountInv` counts: there are at most as many mounts as builds that are past mounting, and
  when all are through with the chroot, the one that was last has still to umount, or has.
  `BuildStep`, `MountStep` and `CountStep` frame the steps of a build.
* **`ProgramsProofs`**, of the composition: `ScriptsAreKept` (`ProgramsSpec =>
  []ScriptsAreRight`), `BondsStayRight`, `ThreadsStayRight`, `HeapStaysSafe`: what each
  program promises by itself it promises in the run that has them all.  A behaviour has
  one program for ever (`StaysTheProgram`), and `ConfigAlone`, `ToolsAlone`, `DirsAlone`
  say that its steps are those of its module, so that the module's invariant holds of it.
* **`IfEnslaveProofs`**: `BondsAreKept` (`Spec => []BondIsRight`), `BondTypeCorrect`, for
  any slaves on the command line, any cards, any version of the driver and any ioctls that
  fail; `BondInstance` says only that the master is not a card and that the command line
  names cards.  Each conjunct of `BondIsRight` has its part of the invariant: `ServedInv`
  says of the slaves given and no longer to go that they are attached, or released, or
  that `res` tells a failure; `MtuInv` that the slave in hand is the only card whose mtu
  may be neither its own nor the master's, as what `UndoMtu` puts back is what was read;
  `ToldInv` that the failures which may leave the master down or a slave without its
  address are told by `res`; `StayUpInv` that attached slaves are up, and that only an old
  driver has its master taken down; `UpInv` that it is down only while it gets its
  address, or behind a failure to set that or to bring it up again; `HwInv` and `FreshInv`
  that, until the driver refuses a slave, a master that had a hardware address keeps it,
  one that had none gets that of its first slave, and what is attached has it, too.
  `StepsInv` ties each step to its command and to a slave in hand.  `HappenedStep` and
  `LostStep` say that what failed stays on record, `SetUpDoes` to `AttachDoes` what an
  ioctl does to the interfaces, `AddressesStay` and `TurnStays` frame the steps that touch
  no address and no turn.
* **`LuaThreadProofs`**: `ThreadTypeCorrect`, `ThreadsAreKept` (`Spec =>
  []ThreadsAreRight`), for any coroutines, any bound on frames and nested C calls.
  `ThreadsInv` says that the threads which resumed each other are a chain of different
  ones, the last of which runs while those before it wait in a `resume` (`ChainOk`), and
  of each thread how its frames and its count of C calls go with its fate (`ThreadOk`):
  each call that remembers the count of C calls remembers that of the calls below it
  (`Nested`), so that a `pcall` which catches an error, and so drops all frames above its
  own, puts the right count back. `ChainPush` and `ChainPop` are the two ways in which the
  chain changes, `PushDoes`, `PopDoes` and `PrefixDoes` those of a stack of frames;
  `Handler` finds the frame that catches, with `Greatest`, that a set of places has a last
  one.

* **`LuaHeapProofs`**: `HeapTypeCorrect`, `HeapIsKept` (`Spec => [](HeapIsSafe /\
  MarksAreRight)`), for any number of objects, slots, operations and collections, and
  wherever the steps of the collector fall between the operations.  `HeapInstance` says of
  the programs that they start with objects which refer to each other, are white, and no
  two of which are the same string; it holds of the seven programs of the run. `HeapInv`
  has a part for each thing that can go wrong.  `Shaped`: references are to objects of the
  right kind, an open upvalue to a slot of a thread, and it is never black. `Whole`: what
  is not about to be freed, in reach or not, refers only to what is not about to be freed
  either; this is what makes the sweep safe, step by step, and it is why a string or an
  upvalue that is found again has to get a new white.  `ColourInv`, of the marking phase:
  what a black object refers to is not white, and what is gray is on a list, except
  strings and open upvalues; inside `atomic()` it also says what `remarkupvals` and
  `grayagain` have settled, so that when the lists are empty and the white is flipped,
  `Whole` holds of what is marked (`FlipWhiteOk`).  `PhaseInv` says which marks there are
  in each other phase, `FinalOk` that a userdata is finalized once, `StringsOk` that a
  string is there once, and `GarbageOk` that what was out of reach when the marking began
  is never marked, so that the sweep frees it.

  A step of the marking phase goes through `MarkStep`: `MarkedSpreads` and `MarkedWithin`
  say that `reallymarkobject` marks enough and not too much, `PaintKeeps` that the colours
  are right again after it.  A step of the sweep goes through `SweepStep`.  An operation of
  the mutator is taken apart into what it makes, changes and puts on the stack, each of
  which keeps `Ok` (the parts of `HeapInv` for a heap and stacks in between): `Make`,
  `Change`, `ReviveOk`, `PutAtOk`, with `ChangeColours` for the two barriers and
  `ClosedParts` for `luaF_close`.  That a new object is one that was not there
  (`FreshIs`) is the only use of well-founded induction.

Three of the properties proved are stronger than the runs need and are in no run:
`FlagsInv` and `QueuedInv` of the scan, and `FilesOfOwner` of the daemons.

Only model-checked: all liveness (`BuildEnds`, `RunEnds`, `JobsFinish`, `DownloadEnds`),
and of the `programs` all but what `ConfigLock`, `BuildTools`, `BuildDirs`, `IfEnslave`,
`LuaThread` and `LuaHeap` promise.  Most of these are about data of bounded size (a
pattern, a chunk, a table) whose reference definitions are recursive, which the provers
cannot unfold; the two loops over lists in `EmergePkg` need induction over the list.

## Plan

1. *Done*: the build (queue, package, target, daemons, directories), downloads,
   configuration, tools, installation, simulation; the C and C++ programs; Lua.
2. Debug and update mode of `Build-Pkg`; checkouts in `Download`; `Create-PkgList`; menu
   evaluation of `config-functions.in`, with "a written configuration is a fixed point".
3. Of Lua: `...`, method calls, `for ... in` and metatables in `LuaVm`; coroutines that
   call `luabash`; binary chunks.
4. An abstract job pool that `BuildJob` implements.

## Not modelled

* **Build-Pkg**: debug and update mode.  **Download**: checkouts from cvs, svn, git and hg,
  `.gpg` files, the choice of the best mirror.  **Cleanup**: directories as arguments,
  ccache pools, lingering files.  **Config**: the evaluation of the menus, `-delete`;
  **Emerge-Pkg**: `-dry-run`; Update-Pkg, which runs Build-Pkg once per package.
* **Shared functions**, `scripts/functions.in`: message output, compiler set-up, patching
  and package formats act on the contents of a build, which is the nondeterminism of
  `MainBuild`.
* Create-ErrList, Create-ISO, Create-Links, the Check-* and Create-*Patch scripts, the
  Lua scripts and source/Download.cc are one-pass conversions without state.
* Of the C programs: colours and borders of the dialogs, the compression function of MD5,
  the printing of an interface's settings, getfiles.c, install_wrapper.sh and the
  generated functions of fl_wrapper.
* Of Lua: lexer, binary chunks, `debug`, `io`, `os`, `math` and `loadlib`, hooks, limits of
  memory; of luabash: the splitting of `"$@"` into words, and bash 5.
* target/, package/ (but for ifenslave) and architecture/ are data and build recipes.
