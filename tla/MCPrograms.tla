----------------------------- MODULE MCPrograms -----------------------------
(***************************************************************************)
(* The C and C++ programs of the repository and five of its scripts, each  *)
(* of which works for itself: one run of TLC takes one of them in each     *)
(* behaviour, one of module Programs or one of those below.  The bounds    *)
(* are in MCPrograms.cfg, the sets that a cfg cannot write are here.       *)
(***************************************************************************)
EXTENDS Programs, FiniteSets, TLC, MCLuaChunks

CONSTANTS
  ProgramNames,  \* the programs of this run
  Command, MyName, OtherNames, MyPath, Empty, Joined,
  Pids, First, MaxProcs, MaxLines,
  Pkgs, NotThere, Wanted,
  Digit, Tags, CurlCodes, Signals,
  Width, BoxWidth, MaxLen, Letters,
  BUF_SIZE, BoxRows, MaxShift,
  SECTOR, FIRST, APP_OFFSET, APP_LEN, TEXT_LEN, SKIPSECTORS, BUFSIZE, BLOCK, Sizes,
  Ints, MAXBITS,
  NUL,
  BITRK, MAXINDEXRK, LFIELDS_PER_FLUSH, StackSize,
  Hole,
  LUA_MINSTACK, EXTRA_STACK, BASIC_STACK_SIZE, FrameSizes, ArgCounts, MessageParts, MaxLeft,
  NumPackages, T2Debug, NoBrokenDeps, Parallel,
  Installable

--------------------------------------------------------------------------
(* CmdWrapper: a plain word always applies, another one if c is an argument. *)
Plain(w) == [cond |-> {Command}, lhs |-> w, rhs |-> Empty]
OnArg(c, l, r) == [cond |-> {c}, lhs |-> l, rhs |-> r]
Confs ==
  {[bypass |-> b, insert |-> <<Plain("O"), OnArg("g", "G", Empty)>>, remove |-> r,
    append |-> <<OnArg("s", Empty, "O")>>, filter |-> f] :
     b \in BOOLEAN, r \in {<<Plain("s")>>, <<OnArg("G", "g", Empty)>>}, f \in {{}, {"G"}}}
OtherLists ==
  {<<>>, <<"ccache">>, <<"ccache", Empty, "distcc">>, <<"ccache", "distcc", "dietlibc">>}
Paths == {<<>>, <<"local", MyPath, "bin">>, <<MyPath, "bin", MyPath>>}
FileMaps ==
  {[wrapper |-> [gcc |-> "wrapper", ccache |-> "absent", distcc |-> "absent", dietlibc |-> "absent"],
    bin |-> [gcc |-> g, ccache |-> "program", distcc |-> "program", dietlibc |-> "program"],
    local |-> [gcc |-> "absent", ccache |-> o, distcc |-> "absent", dietlibc |-> "absent"]] :
     g \in {"absent", "denied", "program", "script", "busy"}, o \in {"denied", "script", "busy"}}
UserArgs == {<<"g", "s", "x">>, <<"x">>}

(* FileTrace *)
Dirs == {<<>>, <<"r">>, <<"r", "s">>, <<"t">>}
Links == <<"l">> :> <<"r", "s">>
BaseDir == <<"t">>
RootDir == <<"r">>
ChdirNames ==
  {[abs |-> FALSE, path |-> <<"..">>], [abs |-> FALSE, path |-> <<"r">>], [abs |-> TRUE, path |-> <<"l">>]}

(* DependGraph *)
DepLists == {<<>>, <<"a">>, <<"b">>, <<"c", "x">>, <<"c", "b">>}

(* UpdateCheck: what pkg-1.2, pkg-1.3, pkg-1.3-rc2, ... have behind the name. *)
Versions == {<<<<1, 2>>>>, <<<<1, 3>>>>, <<<<1, 12>>>>, <<<<1, 3>>, <<-1, 2>>>>, <<<<1, 3, 1>>>>,
             <<<<1, 2>>, <<3>>>>, <<<<2004, 1>>>>}
Down(f, p) == [tag |-> "D", value |-> [file |-> f, protocol |-> p]]
Other(t1) == [tag |-> t1, value |-> 0]
Descs ==
  {<<Down(f, "http")>> : f \in Versions}
    \cup {<<Other("V"), Down(<<<<1, 2>>>>, "cvs"), Down(<<<<1, 2>>>>, "ftp")>>,
          <<Other("Z"), Down(<<<<1, 2>>>>, "ftp")>>}
Pages == {<<>>} \cup {<<v>> : v \in Versions} \cup {<<v, w>> : v, w \in Versions}
           \cup {<<v, v, <<<<1, 3>>>>>> : v \in Versions}

(* ConfDialog *)
Options == {<<>>, <<"title", "title">>, <<"title", "clear">>, <<"clear">>}
Box(kind, items, rows1, sel) == [kind |-> kind, letters |-> items, height |-> rows1, on |-> sel]
Boxes ==
  {Box(k, i, h, {}) : k \in {"menu", "radio"}, i \in {<<"a", "b", "c", "a", "h">>, <<"a", "h">>}, h \in {1, 3, 4}}
    \cup {Box("radio", <<"a", "b", "c", "a", "h">>, 3, {i}) : i \in 0..4}
    \cup {Box("check", <<"a", "b", "c", "a">>, 3, {0, 2, 3})}
    \cup {Box(k, <<>>, 0, {}) : k \in {"none", "input", "yesno", "msg"}}
Word(n, g) == [len |-> n, gap |-> g]
Prompts ==
  {<<Word(4, TRUE), Word(3, FALSE)>>,
   <<Word(2, TRUE), Word(14, FALSE), Word(5, FALSE), Word(2, TRUE), Word(9, FALSE), Word(20, FALSE), Word(1, TRUE)>>}
ScrlFiles == -1..2

(* TextBox *)
Texts == UNION {[1..n -> {"n", "x"}] : n \in 0..7}

(* IsoMd5, IfEnslave *)
Descriptors == {<<"pvd", "end">>, <<"other", "pvd", "end">>, <<"other", "end", "pvd">>}
Slaves == {<<>>, <<"eth0">>, <<"eth0", "eth1">>}

(* LuaHeap: programs that make tables, closures and coroutines, strings, *)
(* and those that work on weak tables and userdata.                     *)
Makes == [table |-> {}, thread |-> FALSE, string |-> {}, udata |-> {}, closure |-> FALSE, full |-> FALSE]
ObjectOf(kind1, m, k, v) ==
  [kind |-> kind1, mark |-> "w0", mode |-> m, key |-> k, val |-> v, on |-> -1, slot |-> 0, fin |-> FALSE]
TableObject(m, k, v) == ObjectOf("table", m, k, v)
Thread1 == ObjectOf("thread", "", -1, -1)
Udata == ObjectOf("userdata", "gc", -1, -1)
String == ObjectOf("string", "x", -1, -1)
Mutates(objects, stacks, locals, kinds1, n) ==
  [objects |-> objects, stacks |-> stacks, locals |-> locals, kinds |-> kinds1, ops |-> n]
MutatorPrograms == {
  Mutates(<<TableObject("", -1, -1)>>, <<<<>>>>, <<1, -1>>, [Makes EXCEPT !.table = {""}], 3),
  Mutates(<<TableObject("", -1, -1), Thread1>>, <<<<>>, <<1>>>>, <<-1, 2>>, [Makes EXCEPT !.closure = TRUE], 3),
  Mutates(<<>>, <<>>, <<-1, -1>>, [Makes EXCEPT !.thread = TRUE, !.table = {"v"}, !.udata = {"gc"}], 2),
  Mutates(<<TableObject("", -1, -1)>>, <<<<>>>>, <<1, -1>>, [Makes EXCEPT !.closure = TRUE], 2),
  Mutates(<<String, TableObject("k", -1, 1)>>, <<<<>>, <<>>>>, <<-1, 2>>, [Makes EXCEPT !.string = {"x"}], 2),
  Mutates(<<TableObject("v", -1, 2), Udata>>, <<<<>>, <<>>>>, <<1, 2>>, Makes, 2),
  Mutates(<<TableObject("kv", 2, -1), Udata>>, <<<<>>, <<>>>>, <<1, 2>>, [Makes EXCEPT !.full = TRUE], 2)}

(* LuaTable: the hash of the one name is that of some integer key. *)
Names == {-2}
Hashes == {[k \in Ints \cup Names |-> IF k = -2 THEN h ELSE k] : h \in 0..2}

(* LuaMatch: patterns of one item, of two, and of an item in a capture. *)
Item(op) == [op |-> op, set |-> {}, rep |-> "", x |-> "", y |-> "", n |-> 0]
One(chars, r) == [Item("one") EXCEPT !.set = chars, !.rep = r]
Items ==
  {Item(o) : o \in {"(", "()", ")", "$"}}
    \cup {[Item("%1") EXCEPT !.n = 1], [Item("%b") EXCEPT !.x = "a", !.y = "b"], [Item("%f") EXCEPT !.set = {"a"}]}
    \cup {One({"a"}, r) : r \in {"", "-"}} \cup {One({"a", "b"}, r) : r \in {"?", "+", "*"}}
Subjects == UNION {[1..n -> {"a", "b"}] : n \in 0..3}
Patterns ==
  {p \in UNION {[1..n -> Items] : n \in 0..2} : Len(p) > 1 => p[1] # Item("$")}
    \cup {<<Item("("), i, Item(")"), j, One({"b"}, "")>> :
            i \in {One({"a", "b"}, r) : r \in {"*", "-"}}, j \in Items \ {Item("$")}}
Inits == {1, -1}
--------------------------------------------------------------------------

(* LuaSort: a weak order, one that is not strict and one that is a circle. *)
Numbers == 0..8
Arrays ==
  UNION {[1..k -> 1..3] : k \in {0, 2, 3, 4}}
    \cup {[k \in 1..n |-> (k * f) % 9] : n \in {5, 7, 9}, f \in {0, 1, 2, 3, 4, 5, 8}}
    \cup {<<3, 1, 2, 1, 3, 2>>, <<2, 1, 2, 2, 1, 1, 2>>}
Orders ==
  {{p \in Numbers \X Numbers : p[1] < p[2]}, {p \in Numbers \X Numbers : p[1] <= p[2]},
   {<<1, 2>>, <<2, 3>>, <<3, 1>>}}

(* ParaSim: four packages, jobs of stages 0, 1, 5 and 9. *)
Stages == <<{1, 9}, {0, 5}, {9}, {9}>>
BuildTimes ==
  [j \in {k \in (0 .. 9) \X (1 .. NumPackages) : k[1] \in Stages[k[2]]} |-> (2 * j[2]) % 5]

(* EmergePkg: the third package is one of the blacklist. *)
DepGraphs == [1..3 -> {<<>>, <<1>>, <<3, 2>>}]
Systems == [1..3 -> {"absent", "new", "current"}] \cup {<<"broken", "unknown", "new">>, <<"new", "broken", "absent">>}
Emerge1(a, d, m) ==
  [args |-> a, deps |-> d, missing |-> m, force |-> FALSE, rebuild |-> FALSE,
   single |-> FALSE, fetch |-> FALSE, fatal |-> FALSE]
Emerges ==
  {Emerge1(a, d, "no") : a \in {<<2, 1>>, <<2, 3>>}, d \in {"fast", "indirect"}}
    \cup {[Emerge1(<<1, 2>>, d, "only") EXCEPT !.force = TRUE, !.fatal = TRUE] : d \in {"fast", "indirect"}}
    \cup {[Emerge1(<<1>>, "indirect", "yes") EXCEPT !.rebuild = TRUE]}
    \cup {[Emerge1(<<1, 2, 3>>, "none", "yes") EXCEPT !.single = TRUE, !.fetch = f] : f \in BOOLEAN}

VARIABLES
  conf, others, done, path, noloop, files, argv, runs, status, ran, orig, again,
  cwd, pending, trace, gone, made, killed, phase, procs, here, line, wlog, flist,
  deps, prio, calls, needed, arrows, drawing, row, cyclic,
  desc, errors, downs, doing, page, seen, report,
  args, box, scrltmp, on, scroll, choice, button, screen, text, input_x, lit, lines,
  result, answer,
  file, at, page_length, hscroll, rows, viewing,
  kinds, isosize, length, changed, app, offset, ctx, isodoing, sealed, verdict,
  t, hash, ref, key, met, due,
  fun, subject, pat, anchor, max_s, src, got, tried, pieces, matching,
  chunk, main, ci, vstack, top, closures, upvals, tables, globals, outcome, results,
  given, order, arr, halves, lo, hi, left, right, pivot, sorting,
  supported, initialized, nest, ltop, stacksize, ncalls, pushed,
  simlogs, maxjobs, freejobs, jobends, now, simstep, starts,
  emerge, graph, installed, emPhase, todo, rest, depth, been, deplist, emBuilt,
  emStatus

Cmd == INSTANCE CmdWrapper
Trace == INSTANCE FileTrace
Depend == INSTANCE DependGraph
Update == INSTANCE UpdateCheck
Dialog == INSTANCE ConfDialog
Pager == INSTANCE TextBox
Media == INSTANCE IsoMd5
Table == INSTANCE LuaTable
Match == INSTANCE LuaMatch
Vm == INSTANCE LuaVm
Sort == INSTANCE LuaSort
Shell == INSTANCE LuaBash
Sim == INSTANCE ParaSim
Emerge == INSTANCE EmergePkg

cwVars ==
  <<conf, others, done, path, noloop, files, argv, runs, status, ran, orig, again>>
ftVars ==
  <<cwd, pending, trace, gone, made, killed, phase, procs, here, line, wlog, flist>>
dgVars ==
  <<deps, prio, calls, needed, arrows, drawing, row, cyclic>>
ucVars ==
  <<desc, errors, downs, doing, page, seen, report>>
cdVars ==
  <<args, box, scrltmp, on, scroll, choice, button, screen, text, input_x, lit, lines,
  result, answer>>
tbVars ==
  <<file, at, page_length, hscroll, rows, viewing>>
imVars ==
  <<kinds, isosize, length, changed, app, offset, ctx, isodoing, sealed, verdict>>
ltVars ==
  <<t, hash, ref, key, met, due>>
lmVars ==
  <<fun, subject, pat, anchor, max_s, src, got, tried, pieces, matching>>
vmVars ==
  <<chunk, main, ci, vstack, top, closures, upvals, tables, globals, outcome, results>>
lsVars ==
  <<given, order, arr, halves, lo, hi, left, right, pivot, sorting>>
lbVars ==
  <<supported, initialized, nest, ltop, stacksize, ncalls, pushed>>
psVars ==
  <<simlogs, maxjobs, freejobs, jobends, now, simstep, starts>>
emVars ==
  <<emerge, graph, installed, emPhase, todo, rest, depth, been, deplist, emBuilt,
  emStatus>>

(* A program that does not run. *)
NoCmd ==
  /\ conf = None /\ others = None /\ done = None /\ path = None /\ noloop = None
  /\ files = None /\ argv = None /\ runs = None /\ status = None /\ ran = None
  /\ orig = None /\ again = None
NoTrace ==
  /\ cwd = None /\ pending = None /\ trace = None /\ gone = None /\ made = None
  /\ killed = None /\ phase = None /\ procs = None /\ here = None /\ line = None
  /\ wlog = None /\ flist = None
NoDepend ==
  /\ deps = None /\ prio = None /\ calls = None /\ needed = None /\ arrows = None
  /\ drawing = None /\ row = None /\ cyclic = None
NoUpdate ==
  /\ desc = None /\ errors = None /\ downs = None /\ doing = None /\ page = None
  /\ seen = None /\ report = None
NoDialog ==
  /\ args = None /\ box = None /\ scrltmp = None /\ on = None /\ scroll = None
  /\ choice = None /\ button = None /\ screen = None /\ text = None /\ input_x = None
  /\ lit = None /\ lines = None /\ result = None /\ answer = None
NoPager ==
  /\ file = None /\ at = None /\ page_length = None /\ hscroll = None /\ rows = None
  /\ viewing = None
NoMedia ==
  /\ kinds = None /\ isosize = None /\ length = None /\ changed = None /\ app = None
  /\ offset = None /\ ctx = None /\ isodoing = None /\ sealed = None /\ verdict = None
NoTable ==
  /\ t = None /\ hash = None /\ ref = None /\ key = None /\ met = None /\ due = None
NoMatch ==
  /\ fun = None /\ subject = None /\ pat = None /\ anchor = None /\ max_s = None
  /\ src = None /\ got = None /\ tried = None /\ pieces = None /\ matching = None
NoVm ==
  /\ chunk = None /\ main = None /\ ci = None /\ vstack = None /\ top = None
  /\ closures = None /\ upvals = None /\ tables = None /\ globals = None
  /\ outcome = None /\ results = None
NoSort ==
  /\ given = None /\ order = None /\ arr = None /\ halves = None /\ lo = None
  /\ hi = None /\ left = None /\ right = None /\ pivot = None /\ sorting = None
NoShell ==
  /\ supported = None /\ initialized = None /\ nest = None /\ ltop = None
  /\ stacksize = None /\ ncalls = None /\ pushed = None
NoSim ==
  /\ simlogs = None /\ maxjobs = None /\ freejobs = None /\ jobends = None
  /\ now = None /\ simstep = None /\ starts = None
NoEmerge ==
  /\ emerge = None /\ graph = None /\ installed = None /\ emPhase = None /\ todo = None
  /\ rest = None /\ depth = None /\ been = None /\ deplist = None /\ emBuilt = None
  /\ emStatus = None

(* One of the programs runs; nothing is shared between them. *)
Init ==
  /\ prog \in ProgramNames /\ ProgramsInit
  /\ IF prog = "cmd_wrapper" THEN Cmd!Init ELSE NoCmd
  /\ IF prog = "file_trace" THEN Trace!Init ELSE NoTrace
  /\ IF prog = "dependency" THEN Depend!Init ELSE NoDepend
  /\ IF prog = "update_list" THEN Update!Init ELSE NoUpdate
  /\ IF prog = "confdialog" THEN Dialog!Init ELSE NoDialog
  /\ IF prog = "textbox" THEN Pager!Init ELSE NoPager
  /\ IF prog = "isomd5" THEN Media!Init ELSE NoMedia
  /\ IF prog = "lua_table" THEN Table!Init ELSE NoTable
  /\ IF prog = "lua_match" THEN Match!Init ELSE NoMatch
  /\ IF prog = "lua_chunk" THEN Vm!Init ELSE NoVm
  /\ IF prog = "lua_sort" THEN Sort!Init ELSE NoSort
  /\ IF prog = "luabash" THEN Shell!Init ELSE NoShell
  /\ IF prog = "parasim" THEN Sim!Init ELSE NoSim
  /\ IF prog = "emerge_pkg" THEN Emerge!Init ELSE NoEmerge

Next ==
  /\ ProgramsNext
  /\ IF prog = "cmd_wrapper" THEN Cmd!Next ELSE UNCHANGED cwVars
  /\ IF prog = "file_trace" THEN Trace!Next ELSE UNCHANGED ftVars
  /\ IF prog = "dependency" THEN Depend!Next ELSE UNCHANGED dgVars
  /\ IF prog = "update_list" THEN Update!Next ELSE UNCHANGED ucVars
  /\ IF prog = "confdialog" THEN Dialog!Next ELSE UNCHANGED cdVars
  /\ IF prog = "textbox" THEN Pager!Next ELSE UNCHANGED tbVars
  /\ IF prog = "isomd5" THEN Media!Next ELSE UNCHANGED imVars
  /\ IF prog = "lua_table" THEN Table!Next ELSE UNCHANGED ltVars
  /\ IF prog = "lua_match" THEN Match!Next ELSE UNCHANGED lmVars
  /\ IF prog = "lua_chunk" THEN Vm!Next ELSE UNCHANGED vmVars
  /\ IF prog = "lua_sort" THEN Sort!Next ELSE UNCHANGED lsVars
  /\ IF prog = "luabash" THEN Shell!Next ELSE UNCHANGED lbVars
  /\ IF prog = "parasim" THEN Sim!Next ELSE UNCHANGED psVars
  /\ IF prog = "emerge_pkg" THEN Emerge!Next ELSE UNCHANGED emVars

vars == <<programsVars, cwVars, ftVars, dgVars, ucVars, cdVars, tbVars, imVars,
          ltVars, lmVars, vmVars, lsVars, lbVars, psVars, emVars>>
Spec == Init /\ [][Next]_vars

(* The types of the programs' states. *)
ProgramTypesOK ==
  /\ prog = "cmd_wrapper" => Cmd!TypeOK
  /\ prog = "file_trace" => Trace!TypeOK
  /\ prog = "dependency" => Depend!TypeOK
  /\ prog = "update_list" => Update!TypeOK
  /\ prog = "confdialog" => Dialog!TypeOK
  /\ prog = "textbox" => Pager!TypeOK
  /\ prog = "isomd5" => Media!TypeOK
  /\ prog = "ifenslave" => Bond!TypeOK
  /\ prog = "lua_gc" => Heap!TypeOK
  /\ prog = "lua_table" => Table!TypeOK
  /\ prog = "lua_match" => Match!TypeOK
  /\ prog = "lua_thread" => Thread!TypeOK
  /\ prog = "lua_chunk" => Vm!TypeOK
  /\ prog = "lua_sort" => Sort!TypeOK
  /\ prog = "luabash" => Shell!TypeOK
  /\ prog = "parasim" => Sim!TypeOK
  /\ prog = "emerge_pkg" => Emerge!TypeOK
  /\ prog = "config" => Lock!TypeOK
  /\ prog = "build_tools" => Make!TypeOK
  /\ prog = "build_dirs" => Chroots!TypeOK

(* Of the programs of a build (misc/tools-source): the wrapper runs the real  *)
(* command as it is configured, or tells why not, and the list of the files   *)
(* of a package is what the build created by the calls that the list is made  *)
(* from (cmd_wrapper.c, fl_stparse.c).                                        *)
WrappersAreRight ==
  /\ prog = "cmd_wrapper" => Cmd!CommandAsConfigured /\ Cmd!FailureExplained
  /\ prog = "file_trace" => Trace!ListIsComplete /\ Trace!FailureExplained

(* Of what plans and reports: the simulated build takes as long as a build    *)
(* would (parasim2.pl), what Emerge-Pkg builds is what has to be built, and    *)
(* so are the drawing of the dependencies and the report of newer versions, as *)
(* far as the program can tell versions apart (dependency.cc, UpdateList.cc).  *)
ReportsAreRight ==
  /\ prog = "parasim" => Sim!SimulationIsRight
  /\ prog = "emerge_pkg" => Emerge!ScheduleIsRight /\ Emerge!BuildsAreRight
  /\ prog = "dependency" => Depend!DrawingIsRight
  /\ prog = "update_list" => Update!ReportIsRight

(* Of the configuration dialogs (misc/confdialog) the screen shows what an    *)
(* answer means, and a page of a text is a page of the file.  The media check *)
(* (misc/isomd5sum) rejects what was changed, and accepts the image it made   *)
(* unless its descriptor is late.  The Lua stack of luabash has room for what *)
(* the builtin pushes, up to the words and leftovers that StackHolds names.   *)
ToolsAreRight ==
  /\ prog = "confdialog" => Dialog!ScreenIsRight /\ Dialog!AnswerIsShown
  /\ prog = "textbox" => Pager!PageIsRight
  /\ prog = "isomd5" => Media!VerdictIsRight
  /\ prog = "luabash" => Shell!StackHolds

(* A Lua table (ltable.c) is the map that was put in it, through rehashes,    *)
(* collections and traversals; and table.sort orders it.                      *)
TablesAreRight ==
  /\ prog = "lua_table" => Table!TableIsRight
  /\ prog = "lua_sort" => Sort!SortIsRight

(* The matches of a Lua pattern (lstrlib.c). *)
MatchesAreRight == prog = "lua_match" => Match!MatchIsRight

(* The code that the parser of Lua generates (lparser.c, lcode.c), run by the  *)
(* interpreter (lvm.c), returns what the chunk means, but for the two families *)
(* of chunks that LuaVm names.                                                 *)
ChunksAreRight == prog = "lua_chunk" => Vm!ChunkIsRight
=============================================================================
