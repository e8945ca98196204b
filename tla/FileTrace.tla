------------------------------ MODULE FileTrace ------------------------------
(***************************************************************************)
(* The list of the files that a build creates, made from the output of     *)
(* strace by misc/tools-source/fl_stparse.c (a table of processes with     *)
(* their directories) and fl_wrparse.c (files that are there, relative to  *)
(* the root of the system that is built; Build-Pkg gives the root with a   *)
(* slash at its end, so what starts with it is below it).                  *)
(*                                                                         *)
(* A directory is the sequence of the names on its path; a name in a       *)
(* system call is absolute (a path) or relative to the directory of its    *)
(* process.  Symbolic links are names of directories that Real resolves.   *)
(***************************************************************************)
EXTENDS Naturals, Sequences, SequencesExt, FiniteSets

CONSTANTS
  Pids,       \* process ids
  First,      \* that of the build
  Dirs,       \* directories of the traced system
  Links,      \* symbolic links to directories: a function from their paths
  ChdirNames,      \* the arguments of chdir in the build
  BaseDir,    \* the directory in which the build starts
  RootDir,    \* the root of the system that is built
  MaxProcs,   \* MAXPROCS
  MaxLines    \* bound on the length of the trace

VARIABLES
  cwd,      \* directory of each running process
  pending,  \* parents whose fork has not returned yet, with their child
  trace,    \* the output of strace
  gone,     \* directories that the build has removed again
  made,     \* history: the files that it created, with the call that did
  killed,   \* history: processes that a signal ended
  phase,    \* "build", "stparse", "wrparse", "listed" or "failed"
  procs,    \* the table: sequence of MaxProcs entries
  here,     \* the directory of fl_stparse
  line,     \* number of lines read
  wlog,     \* files written, as fl_stparse logs them
  flist     \* what fl_wrparse prints

ftVars == <<cwd, pending, trace, gone, made, killed, phase, procs, here, line, wlog, flist>>
built == <<cwd, pending, trace, made, killed>>

Free == [pid |-> 0, dir |-> <<>>]
Real(d) == IF d \in DOMAIN Links THEN Links[d] ELSE d
There(d) == Real(d) \in Dirs \ gone

(* The directory that chdir leads to; it stays where it is if that fails. *)
Chdir(from, name) ==
  LET to == IF name.abs THEN Real(name.path)
            ELSE IF name.path = <<"..">> THEN (IF from = <<>> THEN from ELSE Front(from))
            ELSE Real(from \o name.path)
  IN IF There(to) THEN to ELSE from

--------------------------------------------------------------------------
(* The build (external): what strace sees of it, in the order of its output. *)
Room == phase = "build" /\ Len(trace) < MaxLines
Running(p) == p \in DOMAIN cwd /\ p \notin DOMAIN pending
Prints(l) == trace' = Append(trace, l)

Fork(p, c) ==
  /\ Room /\ Running(p) /\ c \notin DOMAIN cwd
  /\ \A q \in DOMAIN pending : pending[q] # c
  /\ cwd' = [q \in DOMAIN cwd \cup {c} |-> IF q = c THEN cwd[p] ELSE cwd[q]]
  /\ pending' = [q \in DOMAIN pending \cup {p} |-> IF q = p THEN c ELSE pending[q]]
  /\ UNCHANGED <<trace, gone, made, killed, phase, procs, here, line, wlog, flist>>

ForkReturns(p) ==
  /\ Room /\ p \in DOMAIN pending
  /\ Prints([call |-> "fork", pid |-> p, child |-> pending[p]])
  /\ pending' = [q \in DOMAIN pending \ {p} |-> pending[q]]
  /\ UNCHANGED <<cwd, gone, made, killed, phase, procs, here, line, wlog, flist>>

ExitProcess(p, bySignal) ==
  /\ Room /\ Running(p) /\ p # First
  /\ cwd' = [q \in DOMAIN cwd \ {p} |-> cwd[q]]
  /\ IF bySignal THEN killed' = killed \cup {p} /\ UNCHANGED trace
     ELSE Prints([call |-> "exit", pid |-> p]) /\ UNCHANGED killed
  /\ UNCHANGED <<pending, gone, made, phase, procs, here, line, wlog, flist>>

ChangeDir(p, n) ==
  /\ Room /\ Running(p)
  /\ cwd' = [cwd EXCEPT ![p] = Chdir(@, n)]
  /\ Prints([call |-> "chdir", pid |-> p, name |-> n])
  /\ UNCHANGED <<pending, gone, made, killed, phase, procs, here, line, wlog, flist>>

(* What is traced (Build-Pkg:594-596): the directory and the name.  "open"    *)
(* stands for open, mkdir, link, symlink and rename, "creat" for creat and    *)
(* mknod.                                                                     *)
CreatingCalls == {"open", "creat"}
CreateFile(p, d, call) ==
  /\ Room /\ Running(p) /\ made = <<>>
  /\ d \in {<<>>} \cup DOMAIN Links
  /\ Prints([call |-> call, pid |-> p, name |-> [abs |-> d # <<>>, path |-> d]])
  /\ made' = Append(made, [dir |-> IF d # <<>> THEN Real(d) ELSE cwd[p], call |-> call])
  /\ UNCHANGED <<cwd, pending, gone, killed, phase, procs, here, line, wlog, flist>>

(* The build ends; it may have removed a directory it worked in. *)
BuildEnds(d) ==
  /\ phase = "build" /\ made # <<>> /\ pending = <<>>
  /\ gone' = d
  /\ phase' = "stparse"
  /\ UNCHANGED <<built, procs, here, line, wlog, flist>>

--------------------------------------------------------------------------
SlotsOf(pid) == {c \in 1..MaxProcs : procs[c].pid = pid}
Slot(pid) == CHOOSE c \in SlotsOf(pid) : \A k \in SlotsOf(pid) : c <= k

FreeProc(pid) == [procs EXCEPT ![Slot(pid)] = Free]

NewProc(pid, dir) == [procs EXCEPT ![Slot(0)] = [pid |-> pid, dir |-> dir]]

GetProc(pid) == procs[Slot(pid)].dir

Line == trace[line + 1]

(* The first line is read twice: for its process and for its call. *)
StartParse ==
  /\ phase = "stparse" /\ line = 0 /\ procs[1] = Free
  /\ procs' = NewProc(Line.pid, here)
  /\ UNCHANGED <<built, gone, phase, here, line, wlog, flist>>

Parsing == phase = "stparse" /\ procs # [c \in 1..MaxProcs |-> Free] /\ line < Len(trace)

(* Most lines look up their process; there is no way on without it. *)
NeedsProc == Line.call # "creat" /\ ~ (Line.call = "open" /\ Line.name.abs)
Stuck == SlotsOf(Line.pid) = {} \/ (Line.call = "fork" /\ SlotsOf(0) = {})

NoSuchProc ==
  /\ Parsing /\ NeedsProc /\ Stuck = TRUE
  /\ phase' = "failed"
  /\ UNCHANGED <<built, gone, procs, here, line, wlog, flist>>

Read(call) ==
  /\ Parsing /\ Line.call = call
  /\ ~ (NeedsProc /\ Stuck)
  /\ line' = line + 1
  /\ UNCHANGED <<built, gone, phase, flist>>

ForkLine ==
  /\ Read("fork")
  /\ procs' = NewProc(Line.child, GetProc(Line.pid))
  /\ UNCHANGED <<here, wlog>>

ExitLine ==
  /\ Read("exit")
  /\ procs' = FreeProc(Line.pid)
  /\ UNCHANGED <<here, wlog>>

(* fl_stparse goes to the directory of the process, then where it went. *)
GoesTo(dir, name) ==
  LET start == IF There(dir) THEN dir ELSE here IN Chdir(start, name)

ChdirLine ==
  /\ Read("chdir")
  /\ here' = GoesTo(GetProc(Line.pid), Line.name)
  /\ procs' = [procs EXCEPT ![Slot(Line.pid)].dir = here']
  /\ UNCHANGED wlog

OpenLine ==
  /\ Read("open")
  /\ wlog' = Append(wlog, IF Line.name.abs THEN Line.name.path ELSE GetProc(Line.pid))
  /\ UNCHANGED <<procs, here>>

(* No pattern of fl_stparse is for creat or mknod. *)
OtherLine ==
  /\ Read("creat")
  /\ UNCHANGED <<procs, here, wlog>>

EndOfTrace ==
  /\ phase = "stparse" /\ line = Len(trace)
  /\ phase' = "wrparse"
  /\ UNCHANGED <<built, gone, procs, here, line, wlog, flist>>

--------------------------------------------------------------------------
(* The directories in which there is a file that such a call made. *)
DirsOf(calls) == {f.dir : f \in {f \in ToSet(made) : f.call \in calls}}

(* get_realname: the directory of a file as getcwd tells it. *)
RealName(d) == Real(d)

(* A line is passed over if its file is not there or outside of the root. *)
WrparseLine ==
  /\ phase = "wrparse" /\ wlog # <<>>
  /\ LET d == RealName(Head(wlog)) IN
     flist' = IF There(Head(wlog)) /\ d \in DirsOf(CreatingCalls) /\ IsPrefix(RootDir, d)
              THEN flist \cup {SubSeq(d, Len(RootDir) + 1, Len(d))} ELSE flist
  /\ wlog' = Tail(wlog)
  /\ UNCHANGED <<built, gone, phase, procs, here, line>>

EndOfLog ==
  /\ phase = "wrparse" /\ wlog = <<>>
  /\ phase' = "listed"
  /\ UNCHANGED <<built, gone, procs, here, line, wlog, flist>>

--------------------------------------------------------------------------
Init ==
  /\ cwd = [p \in {First} |-> BaseDir] /\ pending = <<>>
  /\ trace = <<[call |-> "chdir", pid |-> First, name |-> [abs |-> TRUE, path |-> BaseDir]]>>
  /\ gone = {} /\ made = <<>> /\ killed = {} /\ phase = "build"
  /\ procs = [c \in 1..MaxProcs |-> Free]
  /\ here = RootDir /\ line = 0 /\ wlog = <<>> /\ flist = {}

Next ==
  \/ \E p \in Pids : \/ \E c \in Pids : Fork(p, c)
                     \/ ForkReturns(p)
                     \/ \E s \in BOOLEAN : ExitProcess(p, s)
                     \/ \E n \in ChdirNames : ChangeDir(p, n)
                     \/ \E d \in {<<>>} \cup DOMAIN Links, call \in CreatingCalls : CreateFile(p, d, call)
  \/ \E d \in {{}} \cup {{e} : e \in {e \in Dirs : Len(e) > 1}} : BuildEnds(d)
  \/ StartParse \/ NoSuchProc \/ ForkLine \/ ExitLine \/ ChdirLine \/ OpenLine \/ OtherLine
  \/ EndOfTrace \/ WrparseLine \/ EndOfLog

--------------------------------------------------------------------------
(* The types of the traced system and of the table of processes. *)
TypeOK ==
  /\ DOMAIN cwd \subseteq Pids /\ \A p \in DOMAIN cwd : cwd[p] \in Dirs
  /\ DOMAIN pending \subseteq DOMAIN cwd
  /\ phase \in {"build", "stparse", "wrparse", "listed", "failed"}
  /\ procs \in [1..MaxProcs -> [pid : Pids \cup {0}, dir : Dirs]]
  /\ here \in Dirs /\ line \in 0..Len(trace)

(* The pid of a process that a signal ended is in use again. *)
Reused == \E i \in DOMAIN trace : trace[i].call = "fork" /\ trace[i].child \in killed

(* The file list of a build names the files inside the root that it made by a *)
(* call that fl_stparse reads (fl_stparse.c:123-188, fl_wrparse.c:102-137),   *)
(* and no other, in whatever order the lines of parents and children came;    *)
(* unless it removed a directory in which it had been, or a pid came back     *)
(* whose process had left no exit line.  What creat or mknod makes is traced  *)
(* and not read, so it is missing from the list.                              *)
ListIsComplete ==
  phase = "listed" /\ gone = {} /\ ~ Reused =>
    flist = {SubSeq(d, Len(RootDir) + 1, Len(d)) : d \in {e \in DirsOf({"open"}) : IsPrefix(RootDir, e)}}

(* fl_stparse gives up (fl_stparse.c:41, 52, 65, 79) only on a child that was *)
(* quicker than the fork line of its parent, or when the table is full.       *)
Early(i) ==
  \E k \in i+1..Len(trace) : trace[k].call = "fork" /\ trace[k].child = trace[i].pid
FailureExplained ==
  phase = "failed" =>
    \/ Early(line + 1)
    \/ SlotsOf(0) = {}
=============================================================================
