----------------------------- MODULE CmdWrapper -----------------------------
(***************************************************************************)
(* misc/tools-source/cmd_wrapper.c: the program that stands in for a       *)
(* compiler in the PATH of a build.  It runs the "other" wrappers (ccache, *)
(* distcc), which start it anew, edits the arguments, takes its directory  *)
(* out of PATH and runs the real command.  exec goes through the execvp of *)
(* misc/tools-source/fl_wrapper_execl.c, which is preloaded in builds.     *)
(*                                                                         *)
(* A word of the configuration is a record: "condition?lhs:rhs" has in     *)
(* cond the arguments that its condition matches (fnmatch); a plain word   *)
(* has the name of the command there, which is always among them.          *)
(***************************************************************************)
EXTENDS Naturals, Sequences, SequencesExt

CONSTANTS
  Command,     \* the wrapped name, e.g. gcc
  MyName,      \* the wrapper's own name
  OtherNames,  \* programs that may stand in CMD_WRAPPER_OTHERS
  MyPath,      \* CMD_WRAPPER_MYPATH, the directory of the wrapper
  Empty,       \* the empty string
  Joined,      \* two or more names with colons between them
  Confs,       \* values of the lists INSERT, REMOVE, APPEND and of FILTER
  OtherLists,  \* values of OTHERS
  Paths,       \* values of PATH
  FileMaps,    \* what the directories of PATH have under each name
  UserArgs     \* arguments of the user

VARIABLES
  conf,    \* the lists of the configuration
  others,  \* CMD_WRAPPER_OTHERS
  done,    \* CMD_WRAPPER_OTHERS_DONE, <<>> if it is not set
  path,    \* PATH
  noloop,  \* CMD_WRAPPER_NOLOOP is set
  files,   \* the files of the directories
  argv,    \* the argument list of the running program
  runs,    \* "start", "wrapper", "other", "command", "shell" or "ended"
  status,  \* how it ended
  ran,     \* history: the other wrappers that ran
  orig,    \* history: the arguments of the user
  again    \* history: the command was run anew

cwVars == <<conf, others, done, path, noloop, files, argv, runs, status, ran, orig, again>>
kept == <<conf, files, orig>>

--------------------------------------------------------------------------
(* cleanenv drops the empty entries of a list. *)
CleanEnv(list) == SelectSeq(list, LAMBDA w : w # Empty)

EvalCondArg(w, args) ==
  IF \E i \in DOMAIN args : args[i] \in w.cond THEN w.lhs ELSE w.rhs

(* INSERT and APPEND: the words whose value is not empty. *)
Added(list, args) ==
  CleanEnv([i \in DOMAIN list |-> EvalCondArg(list[i], args)])

Removed(list, args) ==
  {EvalCondArg(list[i], args) : i \in DOMAIN list} \ {Empty}

Kept(list, args) ==
  SelectSeq(Tail(args), LAMBDA a : a \notin Removed(list, args))

Rest == SubSeq(others, Len(done) + 1, Len(others))

(* Variant: OTHERS_DONE is not considered. *)
OtherAgain == IF others = <<>> THEN <<>> ELSE <<Head(others)>>

(* The next wrapper: the first of OTHERS, or all that is left of it, which  *)
(* is the name of a program only if it is a single one.                     *)
Other ==
  IF others # <<>> /\ done = <<>> THEN <<Head(others)>> ELSE Rest

NewArgs ==
  <<Head(argv)>> \o Added(conf.insert, argv) \o Kept(conf.remove, argv)
    \o Added(conf.append, argv)

(* FILTER may be any program; here it takes words out of the list. *)
Filter(args) == SelectSeq(args, LAMBDA a : a \notin conf.filter)

StripPath(p) == SelectSeq(p, LAMBDA d : d # MyPath)

--------------------------------------------------------------------------
(* execvp: the first entry of PATH that is neither missing nor denied      *)
(* decides; the other names of the build have no file.                     *)
Found(name, p) ==
  LET hit == {i \in DOMAIN p : name \in OtherNames \cup {Command}
                               /\ files[p[i]][name] \notin {"absent", "denied"}}
  IN {files[p[i]][name] : i \in {k \in hit : \A l \in hit : k <= l}}

Program(name) == IF name \in OtherNames THEN "other" ELSE "command"

(* The exec of a program: it runs, or the caller ends with an exit status. *)
Execvp(args, p, failure) ==
  /\ argv' = args
  /\ runs' = CASE Found(Head(args), p) = {"wrapper"} -> "start"
               [] Found(Head(args), p) = {"program"} -> Program(Head(args))
               [] Found(Head(args), p) = {"script"} -> "shell"
               [] OTHER -> "ended"
  /\ status' = IF runs' = "ended" THEN failure ELSE status

(* A file that is not executable code is given to /bin/sh as a script. *)
ScriptExecute ==
  /\ runs = "shell"
  /\ runs' = Program(Head(argv))
  /\ UNCHANGED <<kept, others, done, path, noloop, argv, status, ran, again>>

--------------------------------------------------------------------------
Exit(s) ==
  /\ runs' = "ended" /\ status' = s
  /\ UNCHANGED <<kept, others, done, path, noloop, argv, ran, again>>

(* Called by its own name, the wrapper takes the command from the arguments. *)
DirectCall ==
  /\ runs = "start" /\ Head(argv) = MyName
  /\ IF Len(argv) = 1 THEN Exit(250)
     ELSE /\ argv' = Tail(argv)
          /\ UNCHANGED <<kept, others, done, path, noloop, runs, status, ran, again>>

(* BYPASS clears all lists, cleanenv puts them in shape. *)
ReadEnv ==
  /\ runs = "start" /\ Head(argv) # MyName
  /\ conf' = IF conf.bypass
             THEN [conf EXCEPT !.insert = <<>>, !.remove = <<>>, !.append = <<>>, !.filter = {}]
             ELSE conf
  /\ others' = IF conf.bypass THEN <<>> ELSE CleanEnv(others)
  /\ runs' = "wrapper"
  /\ UNCHANGED <<files, orig, done, path, noloop, argv, status, ran, again>>

Mismatch ==
  /\ runs = "wrapper" /\ others # <<>> /\ ~ IsPrefix(done, others)
  /\ Exit(249)

Matches == runs = "wrapper" /\ (others = <<>> \/ IsPrefix(done, others))

RunOther ==
  /\ Matches /\ Other # <<>>
  /\ done' = IF done = <<>> THEN Other ELSE done \o Other
  /\ LET name == IF Len(Other) = 1 THEN Head(Other) ELSE Joined
     IN Execvp(Filter(<<name>> \o NewArgs), path, 253)
  /\ UNCHANGED <<kept, others, path, noloop, ran, again>>

NoMyPath ==
  /\ Matches /\ Other = <<>> /\ path = <<>>
  /\ Exit(252)

Loop ==
  /\ Matches /\ Other = <<>> /\ path # <<>> /\ noloop
  /\ runs' = "ended" /\ status' = 251 /\ path' = StripPath(path)
  /\ UNCHANGED <<kept, others, done, noloop, argv, ran, again>>

RunCommand ==
  /\ Matches /\ Other = <<>> /\ path # <<>> /\ ~ noloop
  /\ path' = StripPath(path)
  /\ noloop' = TRUE
  /\ Execvp(Filter(NewArgs), StripPath(path), 254)
  /\ UNCHANGED <<kept, others, done, ran, again>>

--------------------------------------------------------------------------
(* The other wrappers are external: they run their arguments through PATH. *)
OtherRuns ==
  /\ runs = "other"
  /\ ran' = Append(ran, Head(argv))
  /\ Execvp(Tail(argv), path, 127)
  /\ UNCHANGED <<kept, others, done, path, noloop, again>>

(* The command may start itself by name, with a PATH and OTHERS of its own, *)
(* as a build inside a build does; once here.                              *)
CommandRestarts ==
  /\ runs = "command" /\ ~ again
  /\ again' = TRUE
  /\ path' = <<MyPath>> \o path
  /\ others' \in OtherLists
  /\ Execvp(argv, path', 127)
  /\ UNCHANGED <<kept, done, noloop, ran>>

CommandEnds ==
  /\ runs = "command"
  /\ Exit(0)

Init ==
  /\ conf \in Confs /\ others \in OtherLists /\ path \in Paths /\ files \in FileMaps
  /\ orig \in UserArgs /\ argv \in {<<Command>> \o orig, <<MyName, Command>> \o orig, <<MyName>>}
  /\ done = <<>> /\ noloop = FALSE /\ runs = "start" /\ status = 0
  /\ ran = <<>> /\ again = FALSE

Next ==
  \/ DirectCall \/ ReadEnv \/ Mismatch \/ RunOther \/ NoMyPath \/ Loop \/ RunCommand
  \/ ScriptExecute \/ OtherRuns \/ CommandRestarts \/ CommandEnds

--------------------------------------------------------------------------
(* The types of the wrapper's environment and of the running program. *)
TypeOK ==
  /\ runs \in {"start", "wrapper", "other", "command", "shell", "ended"}
  /\ status \in {0, 127, 249, 250, 251, 252, 253, 254}
  /\ done \in Seq(OtherNames) /\ ran \in Seq(OtherNames)
  /\ ToSet(path) \subseteq DOMAIN files
  /\ noloop \in BOOLEAN /\ again \in BOOLEAN

(* What the configuration adds, and what it never removes. *)
Additions(list) == UNION {{list[i].lhs, list[i].rhs} : i \in DOMAIN list}
Untouched(a) == a \notin conf.filter \cup Additions(conf.remove)
PlainRemoved ==
  {conf.remove[i].lhs : i \in {k \in DOMAIN conf.remove : Command \in conf.remove[k].cond}}

(* However often the wrapper was started on the way (cmd_wrapper.c:232-510), *)
(* the real command is run after each of the other wrappers ran once and in  *)
(* order, outside the wrapper's directory, with the user's arguments in      *)
(* order and without those that are to be removed.                           *)
CommandAsConfigured ==
  runs = "command" /\ ~ again =>
    /\ ran = others
    /\ MyPath \notin ToSet(path)
    /\ Head(argv) = Command
    /\ LET user == SelectSeq(orig, Untouched)
       IN user = SelectSeq(Tail(argv), LAMBDA a : a \in ToSet(user))
    /\ ToSet(Tail(argv)) \cap PlainRemoved
         \subseteq Additions(conf.insert) \cup Additions(conf.append)

(* The wrapper gives up only for a reason: a missing file, a PATH that is    *)
(* empty, a command that starts itself (and may inherit OTHERS_DONE), or a   *)
(* third other wrapper, whose name is not split from that of the second one  *)
(* (cmd_wrapper.c:243-254).                                                  *)
FailureExplained ==
  runs = "ended" =>
    /\ status \in {249, 251} => again
    /\ status = 253 =>
         \/ again
         \/ Len(others) > 2
         \/ \E n \in ToSet(others) : Found(n, path) \in {{}, {"busy"}}
    /\ status = 252 => path = <<>>
=============================================================================
