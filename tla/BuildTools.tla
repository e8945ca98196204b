---------------------------- MODULE BuildTools ----------------------------
(***************************************************************************)
(* scripts/Build-Tools: the programs that a build needs, made anew if a    *)
(* file of the source tree is newer than .lastupdate.  Each Build-Pkg      *)
(* runs it, and parallel builds at the same time.                          *)
(***************************************************************************)
EXTENDS Integers, FiniteSets

CONSTANTS
  Makers,     \* processes of Build-Tools, each runs once
  Flags,      \* what they are started with: "", "cleanup", "skip" (SDEDEBUG_TOOLS_SKIP)
  MaxEdits    \* bound: edits of the sources

(* The commands in wrapper/, and those in bin/ and lib/. *)
Tools == {"wrapper", "lib"}

VARIABLES
  flag, maker,  \* of a process: its option, its next step
  edits,        \* number of edits of the source tree, which is the time
  lastupdate,   \* time of .lastupdate, -1 if the file is not there
  tool,         \* of a tool: the sources it was made of, -1 if it is not there
  temp,         \* of a process: those of its wrapper/tmp.$$, -1 if it is not there
  confs,        \* how often lib/pkg_*.conf has a line
  missed,       \* history: the sources were edited while tools were made
  overlapped,   \* history: two processes made or removed tools at a time
  dead          \* history: the options of processes that were killed or have failed

btVars == <<flag, maker, edits, lastupdate, tool, temp, confs, missed, overlapped, dead>>

WorkSteps == {"clean", "unstamp2", "cc", "mv", "sweep", "lib", "rmconf", "conf", "touch"}
Working == {m \in Makers : maker[m] \in WorkSteps}

Goto(m, l) == maker' = [maker EXCEPT ![m] = l]
Keep == <<flag, edits, missed, dead>>

--------------------------------------------------------------------------
Edit ==
  /\ edits < MaxEdits
  /\ edits' = edits + 1
  /\ missed' = (missed \/ Working # {})
  /\ UNCHANGED <<flag, maker, lastupdate, tool, temp, confs, overlapped, dead>>

(* find -newer .lastupdate finds nothing if that is not there. *)
Newer == lastupdate # -1 /\ edits > lastupdate
AfterFind(m) == IF flag[m] = "cleanup" THEN "clean" ELSE "test"

Find(m) ==
  /\ maker[m] = "find"
  /\ Goto(m, IF Newer /\ flag[m] # "skip" THEN "unstamp" ELSE AfterFind(m))
  /\ UNCHANGED <<Keep, lastupdate, tool, temp, confs, overlapped>>

RemoveStamp(m) ==
  /\ maker[m] \in {"unstamp", "unstamp2"}
  /\ lastupdate' = -1
  /\ Goto(m, IF maker[m] = "unstamp" THEN AfterFind(m) ELSE "test")
  /\ UNCHANGED <<Keep, tool, temp, confs, overlapped>>

(* -cleanup: the tools go first, then the time stamp. *)
Cleanup(m) ==
  /\ maker[m] = "clean"
  /\ tool' = [t \in Tools |-> -1] /\ temp' = [n \in Makers |-> -1]
  /\ overlapped' = (overlapped \/ Working # {m})
  /\ Goto(m, "unstamp2")
  /\ UNCHANGED <<Keep, lastupdate, confs>>

Test(m) ==
  /\ maker[m] = "test"
  /\ Goto(m, IF lastupdate = -1 THEN "cc" ELSE "end")
  /\ overlapped' = (overlapped \/ (lastupdate = -1 /\ Working # {}))
  /\ UNCHANGED <<Keep, lastupdate, tool, temp, confs>>

(* The compiler writes to a temporary name. *)
Compile(m) ==
  /\ maker[m] = "cc"
  /\ temp' = [temp EXCEPT ![m] = edits]
  /\ Goto(m, "mv")
  /\ UNCHANGED <<Keep, lastupdate, tool, confs, overlapped>>

(* Nobody asks whether mv finds the file. *)
Move(m) ==
  /\ maker[m] = "mv"
  /\ tool' = IF temp[m] = -1 THEN tool ELSE [tool EXCEPT !["wrapper"] = temp[m]]
  /\ temp' = [temp EXCEPT ![m] = -1]
  /\ Goto(m, "sweep")
  /\ UNCHANGED <<Keep, lastupdate, confs, overlapped>>

(* What is in wrapper/ and not one of its commands goes. *)
Sweep(m) ==
  /\ maker[m] = "sweep"
  /\ temp' = [n \in Makers |-> -1]
  /\ Goto(m, "lib")
  /\ UNCHANGED <<Keep, lastupdate, tool, confs, overlapped>>

MakeLib(m) ==
  /\ maker[m] = "lib"
  /\ tool' = [tool EXCEPT !["lib"] = edits]
  /\ Goto(m, "rmconf")
  /\ UNCHANGED <<Keep, lastupdate, temp, confs, overlapped>>

RemoveConfs(m) ==
  /\ maker[m] = "rmconf"
  /\ confs' = 0 /\ Goto(m, "conf")
  /\ UNCHANGED <<Keep, lastupdate, tool, temp, overlapped>>

AppendConfs(m) ==
  /\ maker[m] = "conf"
  /\ confs' = confs + 1 /\ Goto(m, "touch")
  /\ UNCHANGED <<Keep, lastupdate, tool, temp, overlapped>>

Touch(m) ==
  /\ maker[m] = "touch"
  /\ lastupdate' = edits /\ Goto(m, "end")
  /\ UNCHANGED <<Keep, tool, temp, confs, overlapped>>

(* A compiler fails, or the process is killed. *)
Dies(m) ==
  /\ maker[m] # "end"
  /\ dead' = dead \cup {flag[m]} /\ Goto(m, "end")
  /\ UNCHANGED <<flag, edits, lastupdate, tool, temp, confs, missed, overlapped>>

Init ==
  /\ flag \in [Makers -> Flags] /\ maker = [m \in Makers |-> "find"]
  /\ edits = 0 /\ lastupdate = -1 /\ tool = [t \in Tools |-> -1] /\ temp = [m \in Makers |-> -1]
  /\ confs = 0 /\ missed = FALSE /\ overlapped = FALSE /\ dead = {}

Next ==
  \/ Edit
  \/ \E m \in Makers :
       \/ Find(m) \/ RemoveStamp(m) \/ Cleanup(m) \/ Test(m) \/ Compile(m) \/ Move(m) \/ Sweep(m)
       \/ MakeLib(m) \/ RemoveConfs(m) \/ AppendConfs(m) \/ Touch(m) \/ Dies(m)

Spec == Init /\ [][Next]_btVars

--------------------------------------------------------------------------
TypeOK ==
  /\ flag \in [Makers -> Flags]
  /\ maker \in [Makers -> WorkSteps \cup {"find", "unstamp", "test", "end"}]
  /\ {lastupdate, tool["wrapper"], tool["lib"]} \cup {temp[m] : m \in Makers} \subseteq -1..edits
  /\ edits \in 0..MaxEdits /\ confs \in 0..Cardinality(Makers)

(* What .lastupdate vouches for when nobody works on the tools                *)
(* (Build-Tools:55-112, 394).  They are those of the sources at its time, so  *)
(* that later edits lead to new ones, if no edit came while they were made,   *)
(* no two processes made them together, and no -cleanup was killed.  They are *)
(* there in any case if nobody dies and nobody cleans up.                     *)
StampIsRight ==
  lastupdate # -1 /\ Working = {} =>
    /\ missed \/ overlapped \/ "cleanup" \in dead
         \/ (confs = 1 /\ \A t \in Tools : tool[t] = lastupdate)
    /\ dead # {} \/ (\E m \in Makers : flag[m] = "cleanup")
         \/ (confs > 0 /\ \A t \in Tools : tool[t] # -1)
=============================================================================
