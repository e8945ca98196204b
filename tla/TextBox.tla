------------------------------- MODULE TextBox -------------------------------
(***************************************************************************)
(* misc/confdialog/textbox.c: a file in a box, read through a buffer that  *)
(* has a part of it.  The file is a sequence of characters, "n" being the  *)
(* newline.  page is the place in the buffer of the line below the box,    *)
(* which is found by reading on, and by going back over newlines.          *)
(***************************************************************************)
EXTENDS Integers, Sequences, FiniteSets, FiniteSetsExt, SequencesExt

CONSTANTS
  Texts,    \* files
  BUF_SIZE, \* size of the buffer, an even number
  BoxRows,  \* lines of the box
  MaxShift  \* MAX_LEN, the bound of hscroll

VARIABLES
  file,        \* the text
  at,          \* file offset, bytes in the buffer (which end there), page, and
               \* whether the begin and the end of the file are reached
  page_length, \* lines of the page up to the end of the file
  hscroll,     \* columns to the right
  rows,        \* where in the file each line in the box starts
  viewing      \* "start", "open", "exit", "escaped" or "broken"

tbVars == <<file, at, page_length, hscroll, rows, viewing>>

file_size == Len(file)
Base(p) == p.fpos - p.bytes
Offset(p) == Base(p) + p.page
IsNewline(p) == file[Offset(p) + 1] = "n"

(* read, after a seek to the offset from. *)
ReadAt(p, from) ==
  LET n == Min({BUF_SIZE, file_size - from})
  IN [p EXCEPT !.fpos = from + n, !.bytes = n]

--------------------------------------------------------------------------
(* Back at the start of the buffer: up to half of one is read before it. *)
Before(p) ==
  IF Base(p) < BUF_SIZE \div 2 THEN ReadAt([p EXCEPT !.page = Base(p)], 0)
  ELSE ReadAt([p EXCEPT !.page = BUF_SIZE \div 2], Base(p) - BUF_SIZE \div 2)

AtStart(p) == p.page = 0 /\ Base(p) = 0
Dec(p) == [(IF p.page = 0 THEN Before(p) ELSE p) EXCEPT !.page = @ - 1]

(* Back over one line, to the newline before it. *)
RECURSIVE OverLine(_)
OverLine(p) ==
  IF AtStart(p) THEN [p EXCEPT !.begin = TRUE]
  ELSE IF IsNewline(Dec(p)) THEN Dec(p) ELSE OverLine(Dec(p))

RECURSIVE OverLines(_, _)
OverLines(p, n) ==
  IF p.begin THEN p ELSE IF n = 0 THEN [p EXCEPT !.page = @ + 1] ELSE OverLines(OverLine(p), n - 1)

(* back_lines; unless the end is reached, page is behind a newline. *)
back_lines(from, n) ==
  LET p == [from EXCEPT !.begin = FALSE] IN
  IF p.end THEN OverLines(p, n)
  ELSE IF AtStart(p) THEN [p EXCEPT !.begin = TRUE]
  ELSE IF ~ IsNewline(Dec(p)) THEN [p EXCEPT !.page = -1]
  ELSE OverLines(Dec(p), n)

(* get_line: on to the next newline or the end, through the next buffers. *)
RECURSIVE Along(_)
Along(p) ==
  IF p.page < p.bytes THEN IF IsNewline(p) THEN [p EXCEPT !.page = @ + 1] ELSE Along([p EXCEPT !.page = @ + 1])
  ELSE IF p.fpos < file_size THEN Along([ReadAt(p, p.fpos) EXCEPT !.page = 0])
  ELSE [p EXCEPT !.end = TRUE]

get_line(p) == Along([p EXCEPT !.end = FALSE])

(* The places before each line of a page and after the last one. *)
Places(p) == LET pos[i \in 0..BoxRows] == IF i = 0 THEN p ELSE get_line(pos[i - 1]) IN pos

print_page(p) == [i \in 1..BoxRows |-> Offset(Places(p)[i - 1])]

(* Reading the lines of a page from p on. *)
ReadsPage(p) ==
  LET pos == Places(p)
      ends == {i \in 1..BoxRows : pos[i].end}
  IN /\ at' = pos[BoxRows]
     /\ page_length' = IF ends = {} THEN BoxRows ELSE Min(ends)

(* A page that starts n lines back; back_lines may meet an internal error. *)
ShowsBack(p, n) ==
  LET q == back_lines(p, n) IN
  IF q.page < 0 THEN viewing' = "broken" /\ UNCHANGED <<at, page_length, rows>>
  ELSE ReadsPage(q) /\ rows' = print_page(q) /\ UNCHANGED viewing

--------------------------------------------------------------------------
Open ==
  /\ viewing = "start"
  /\ viewing' = "open"
  /\ ReadsPage(at) /\ rows' = print_page(at)
  /\ UNCHANGED <<file, hscroll>>

FirstPage ==
  /\ viewing = "open" /\ ~ at.begin
  /\ LET p == [(IF Base(at) > 0 THEN ReadAt(at, 0) ELSE at) EXCEPT !.page = 0, !.begin = TRUE]
     IN ReadsPage(p) /\ rows' = print_page(p)
  /\ UNCHANGED <<file, hscroll, viewing>>

LastPage ==
  /\ viewing = "open"
  /\ LET p == IF at.fpos < file_size THEN ReadAt(at, file_size - BUF_SIZE) ELSE at
     IN ShowsBack([p EXCEPT !.page = p.bytes, !.end = TRUE], BoxRows)
  /\ UNCHANGED <<file, hscroll>>

LineUpLength == page_length + 1

(* The text in the box is moved down, its first line is printed. *)
PreviousLine ==
  /\ viewing = "open" /\ ~ at.begin
  /\ LET q == back_lines(at, LineUpLength) IN
     IF q.page < 0 THEN viewing' = "broken" /\ UNCHANGED <<at, page_length, rows>>
     ELSE ReadsPage(q) /\ rows' = <<Offset(q)>> \o Front(rows) /\ UNCHANGED viewing
  /\ UNCHANGED <<file, hscroll>>

PreviousPage ==
  /\ viewing = "open" /\ ~ at.begin
  /\ ShowsBack(at, page_length + BoxRows)
  /\ UNCHANGED <<file, hscroll>>

(* page_length stays: the box is full, or the end would be reached. *)
NextLine ==
  /\ viewing = "open" /\ ~ at.end
  /\ at' = [get_line(at) EXCEPT !.begin = FALSE]
  /\ rows' = Tail(rows) \o <<Offset(at)>>
  /\ UNCHANGED <<file, page_length, hscroll, viewing>>

NextPage ==
  /\ viewing = "open" /\ ~ at.end
  /\ LET p == [at EXCEPT !.begin = FALSE] IN ReadsPage(p) /\ rows' = print_page(p)
  /\ UNCHANGED <<file, hscroll, viewing>>

(* Left, right and 0: the page is printed again. *)
Shift(h) ==
  /\ viewing = "open" /\ (hscroll < MaxShift \/ h < hscroll)
  /\ h \in {0, hscroll - 1, hscroll + 1} \ {hscroll, -1}
  /\ hscroll' = h
  /\ ShowsBack(at, page_length)
  /\ UNCHANGED file

(* e and x; escape and return. *)
Leave(how) ==
  /\ viewing = "open"
  /\ viewing' = how
  /\ UNCHANGED <<file, at, page_length, hscroll, rows>>

Init ==
  /\ file \in Texts
  /\ LET n == Min({BUF_SIZE, file_size})
     IN at = [fpos |-> n, bytes |-> n, page |-> 0, begin |-> TRUE, end |-> FALSE]
  /\ page_length = 0 /\ hscroll = 0 /\ rows = <<>> /\ viewing = "start"

Next ==
  \/ Open \/ FirstPage \/ LastPage \/ PreviousLine \/ PreviousPage \/ NextLine \/ NextPage
  \/ \E h \in 0..MaxShift : Shift(h)
  \/ Leave("exit") \/ Leave("escaped")

--------------------------------------------------------------------------
(* The types of the reading position. *)
TypeOK ==
  /\ at.bytes \in 0..BUF_SIZE /\ at.page \in 0..at.bytes /\ at.fpos \in at.bytes..file_size
  /\ page_length \in 0..BoxRows /\ hscroll \in 0..MaxShift
  /\ viewing \in {"start", "open", "exit", "escaped", "broken"}

(* Where the line after the one at o starts; at the end, it is the end. *)
After(o) ==
  LET ns == {k \in o + 1..file_size : file[k] = "n"} IN IF ns = {} THEN file_size ELSE Min(ns)

Percent == IF file_size = 0 THEN 100 ELSE (Offset(at) * 100) \div file_size

(* After any number of keys (textbox.c:162-328) and whatever the buffer has,  *)
(* the lines in the box are lines of the file that follow each other; the     *)
(* keys that go back are off only at the first line, the keys that go on at   *)
(* the last one; back_lines meets no internal error (textbox.c:403); and the  *)
(* position is that of the line below the box.                                *)
PageIsRight ==
  /\ viewing # "broken"
  /\ viewing = "open" =>
       /\ rows[1] = 0 \/ file[rows[1]] = "n"
       /\ \A i \in 1..BoxRows - 1 : rows[i + 1] = After(rows[i])
       /\ Offset(at) = After(rows[BoxRows])
       /\ at.begin => rows[1] = 0
       /\ at.end => Percent = 100
==============================================================================
