----------------------------- MODULE ConfDialog -----------------------------
(***************************************************************************)
(* misc/confdialog: the dialog boxes of the configuration.  confdialog.c   *)
(* reads the options and opens one box: a menu (menubox.c), a checklist or *)
(* radiolist (checklist.c), an input line (inputbox.c), a question         *)
(* (yesno.c) or a message (msgbox.c).                                      *)
(*                                                                         *)
(* Lists are drawn step by step: a row is printed again, or all rows move  *)
(* by one.  A row of the screen is the item in it, whether it is           *)
(* highlighted, and its check mark.                                        *)
(***************************************************************************)
EXTENDS Integers, Sequences, SequencesExt, FiniteSetsExt

CONSTANTS
  Options,   \* options of a command line, each with its value
  Boxes,     \* the rest: kind, first letters of the items, height of the list,
             \* the items that are on
  ScrlFiles, \* numbers that confdialog.scrltmp may have; -1 if there is none
  Prompts,   \* prompts: the length of each word, and whether two spaces
             \* (or the start) are before it
  Width,     \* width of the prompt
  BoxWidth,  \* width of the input line
  MaxLen,    \* MAX_LEN, the longest input
  Letters    \* letters that the user may type

VARIABLES
  args, box,       \* command line: options to be read, and the box
  scrltmp,         \* the temporary file
  on,              \* check marks
  scroll, choice,  \* first item on the screen, row of the selected one
  button,          \* selected button, -1 for the input line
  screen,          \* rows of the list, or characters of the input line
  text, input_x,   \* input buffer, place of the cursor
  lit,             \* the button that is drawn as selected
  lines,           \* place of each word of the prompt
  result, answer   \* exit status, what is printed

cdVars == <<args, box, scrltmp, on, scroll, choice, button, screen, text,
            input_x, lit, lines, result, answer>>
given == <<args, box, lines>>

kind == box.kind
letter == box.letters
height == box.height

Items == 0..Len(letter) - 1
max_choice == Min({height, Len(letter)})
Listing == kind \in {"menu", "check", "radio"} /\ result = "open"
Lists == kind \in {"check", "radio"} /\ result = "open"
Menu == kind = "menu" /\ result = "open"

--------------------------------------------------------------------------
(* print_autowrap: the prompt, in the middle of a line or from column 3 on.  *)
(* A word that does not fit starts a new line, and so does a short one after *)
(* a double space if the next one does not fit with it.                      *)
Breaks(words, i, x) ==
  \/ words[i].len > Width - x
  \/ /\ words[i].gap /\ words[i].len < 4 /\ i < Len(words)
     /\ words[i].len + 1 + (IF words[i + 1].gap THEN 0 ELSE words[i + 1].len) > Width - x

PlaceWord(words, at, i) ==
  LET x == IF i = 1 THEN 3 ELSE Last(at).x + Last(at).len + (IF words[i].gap THEN 2 ELSE 1)
      y == IF i = 1 THEN 1 ELSE Last(at).y
  IN Append(at, IF Breaks(words, i, x) THEN [y |-> y + 1, x |-> 3, len |-> words[i].len]
                ELSE [y |-> y, x |-> x, len |-> words[i].len])

PromptLen(words) == FoldLeft(LAMBDA n, w : n + w.len + (IF w.gap THEN 2 ELSE 1), -2, words)

Wrap(words) ==
  IF PromptLen(words) <= Width - 6
  THEN <<[y |-> 1, x |-> (Width - PromptLen(words)) \div 2, len |-> PromptLen(words)]>>
  ELSE FoldLeftDomain(LAMBDA at, i : PlaceWord(words, at, i), <<>>, words)

(* main: each option may come once. *)
ReadOption ==
  /\ result = "start" /\ args # <<>>
  /\ result' = IF Head(args) \in ToSet(Tail(args)) THEN "usage"
               ELSE IF args = <<"clear">> /\ kind = "none" THEN "cleared"
               ELSE "start"
  /\ args' = Tail(args)
  /\ UNCHANGED <<box, scrltmp, on, scroll, choice, button, screen, text, input_x, lit, lines, answer>>

Usage ==
  /\ result = "start" /\ args = <<>> /\ kind = "none"
  /\ result' = "usage"
  /\ UNCHANGED <<given, scrltmp, on, scroll, choice, button, screen, text, input_x, lit, answer>>

Opens(kinds) ==
  /\ result = "start" /\ args = <<>> /\ kind \in kinds
  /\ result' = "open"
  /\ \E words \in Prompts : lines' = Wrap(words)
  /\ UNCHANGED <<args, box, answer>>

--------------------------------------------------------------------------
Row(i, marked) == [item |-> i, marked |-> marked, on |-> on[i]]
Blank == [item |-> -1, marked |-> FALSE, on |-> FALSE]
PrintItem(s, r, i, marked) == [s EXCEPT ![r] = Row(i, marked)]

(* The list as it is drawn when it is opened. *)
Drawn(first, sel) ==
  [r \in 0..height - 1 |-> IF r < max_choice THEN Row(first + r, r = sel) ELSE Blank]

ValidScroll(n, current) ==
  n \in 0..current /\ n + max_choice > current /\ n + max_choice <= Len(letter)

(* The first item: that of the file, or one that brings the default item to *)
(* the middle of the box.                                                   *)
FirstItem(current) ==
  IF ValidScroll(scrltmp, current) THEN scrltmp
  ELSE IF current < max_choice \div 2 THEN 0
  ELSE IF current >= Len(letter) - max_choice \div 2 THEN Len(letter) - max_choice
  ELSE current - max_choice \div 2

OpenMenu(current) ==
  /\ Opens({"menu"})
  /\ scroll' = FirstItem(current) /\ choice' = current - scroll'
  /\ screen' = Drawn(scroll', choice')
  /\ scrltmp' = IF ValidScroll(scrltmp, current) THEN scrltmp ELSE -1
  /\ UNCHANGED <<on, button, text, input_x, lit>>

(* The last item that is on is selected, unless one after the first is.    *)
FirstOn(marks) ==
  LET s == {i \in Items : marks[i]} IN
  IF s = {} THEN 0 ELSE IF s = {0} THEN 0 ELSE Min(s \ {0})

OpenChecklist ==
  /\ Opens({"check", "radio"})
  /\ LET c == FirstOn(on) IN
     scroll' = (IF c >= height THEN c - height + 1 ELSE 0) /\ choice' = c - scroll'
  /\ screen' = Drawn(scroll', choice')
  /\ UNCHANGED <<scrltmp, on, button, text, input_x, lit>>

--------------------------------------------------------------------------
Stays == UNCHANGED <<given, scrltmp, on, button, text, input_x, lit, result, answer>>

(* Menu: the selected row is printed plain before, and marked after a key. *)
Plain == PrintItem(screen, choice, scroll + choice, FALSE)
Marked(s, sc, ch) == PrintItem(s, ch, sc + ch, TRUE)

(* wscrl, k times, with the rows that come in. *)
Down(s, k) == [r \in 0..height - 1 |-> IF r < k THEN Row(scroll - k + r, FALSE) ELSE s[r - k]]
Up(s, k) ==
  [r \in 0..height - 1 |->
     IF r + k >= max_choice THEN Row(scroll + r + k, FALSE) ELSE s[r + k]]

(* A new selection, the list moved by k items up (k > 0) or down. *)
Moves(k, ch) ==
  /\ scroll' = scroll + k /\ choice' = ch
  /\ screen' = Marked(IF k > 0 THEN Up(Plain, k) ELSE IF k < 0 THEN Down(Plain, -k) ELSE Plain,
                      scroll + k, ch)
  /\ Stays

MenuUp ==
  /\ Menu
  /\ IF choice < 2 /\ scroll > 0 THEN Moves(-1, choice) ELSE Moves(0, Max({choice - 1, 0}))

MenuDown ==
  /\ Menu
  /\ IF choice > max_choice - 3 /\ scroll + max_choice < Len(letter)
     THEN Moves(1, choice) ELSE Moves(0, Min({choice + 1, max_choice - 1}))

MenuPageUp ==
  /\ Menu
  /\ LET k == Min({max_choice, scroll}) IN Moves(-k, Max({choice - (max_choice - k), 0}))

MenuPageDown ==
  /\ Menu
  /\ LET k == Min({max_choice, Len(letter) - max_choice - scroll})
     IN Moves(k, Min({choice + max_choice - k, max_choice - 1}))

(* A letter goes to the next visible item that has it, from the top on. *)
MenuLetter(l) ==
  /\ Menu
  /\ LET hit == {r \in 0..max_choice - 1 : letter[scroll + r + 1] = l}
         below == {r \in hit : r > choice}
     IN hit # {} /\ Moves(0, Min(IF below # {} THEN below ELSE hit))

MenuButton(step) ==
  /\ Menu
  /\ button' = (button + step) % 3 /\ lit' = button'
  /\ UNCHANGED <<given, scrltmp, on, scroll, choice, screen, text, input_x, result, answer>>

(* Return, space (0) and ? (2) end the menu; the file is written and removed. *)
MenuSelect(b) ==
  /\ Menu
  /\ button' = b /\ result' = "done" /\ answer' = {scroll + choice}
  /\ scrltmp' = -1
  /\ UNCHANGED <<given, on, scroll, choice, screen, text, input_x, lit>>

--------------------------------------------------------------------------
(* Checklist: at the edge of the box the list moves, else the selection.   *)
CheckUp ==
  /\ Lists /\ scroll + choice > 0
  /\ IF choice = 0 THEN Moves(-1, 0) ELSE Moves(0, choice - 1)

CheckDown ==
  /\ Lists /\ scroll + choice < Len(letter) - 1
  /\ IF choice = max_choice - 1 THEN Moves(1, choice) ELSE Moves(0, choice + 1)

CheckHits(l) == {r \in 0..max_choice - 1 : letter[scroll + r + 1] = l}

CheckLetter(l) ==
  /\ Lists /\ CheckHits(l) # {}
  /\ Moves(0, Min(CheckHits(l)))

(* A letter of an item that is in the box is no command. *)
IsKey(l) == Lists /\ CheckHits(l) = {}

Ends(status, out) ==
  /\ result' = status /\ answer' = out
  /\ UNCHANGED <<given, scrltmp, scroll, choice, screen, text, input_x, lit>>

CheckHelp ==
  /\ IsKey("h") \/ IsKey("?")
  /\ Ends("help", {}) /\ UNCHANGED <<on, button>>

Checked(i) ==
  IF kind = "check" THEN [on EXCEPT ![i] = ~ @]
  ELSE IF on[i] THEN on ELSE [k \in Items |-> k = i]

CheckSelect ==
  /\ IsKey("s") \/ IsKey(" ")
  /\ on' = Checked(scroll + choice)
  /\ Ends("done", {i \in Items : on'[i]}) /\ UNCHANGED button

--------------------------------------------------------------------------
(* The input line: a buffer that ends with the character 0. *)
Nul == ""
strlen == Min({i \in DOMAIN text : text[i] = Nul})
Input == kind = "input" /\ result = "open"

(* The line drawn anew, with the characters of the buffer and with blanks. *)
Field(buf, first, n, old) ==
  [r \in 0..BoxWidth - 1 |-> IF r < n THEN (IF first + r \in DOMAIN buf THEN buf[first + r] ELSE Nul) ELSE old[r]]

OpenInput(init) ==
  /\ Opens({"input"})
  /\ text' = [i \in 0..MaxLen |-> IF i < Len(init) THEN init[i + 1] ELSE Nul]
  /\ scroll' = IF Len(init) >= BoxWidth THEN Len(init) - BoxWidth + 1 ELSE 0
  /\ input_x' = Len(init) - scroll'
  /\ screen' = Field(text', scroll', BoxWidth - 1, [r \in 0..BoxWidth - 1 |-> Nul])
  /\ button' = -1
  /\ UNCHANGED <<scrltmp, on, choice, lit>>

(* Past MAX_LEN the terminal only flashes. *)
Type(c) ==
  /\ Input /\ button = -1 /\ scroll + input_x < MaxLen
  /\ text' = [text EXCEPT ![scroll + input_x] = c, ![scroll + input_x + 1] = Nul]
  /\ IF input_x = BoxWidth - 1
     THEN /\ scroll' = scroll + 1
          /\ screen' = Field(text', scroll', BoxWidth - 1, screen)
          /\ UNCHANGED input_x
     ELSE /\ screen' = [screen EXCEPT ![input_x] = c]
          /\ input_x' = input_x + 1 /\ UNCHANGED scroll
  /\ UNCHANGED <<given, scrltmp, on, choice, button, lit, result, answer>>

(* Variant: the line moves by its full width. *)
BackScrollFull == IF scroll < BoxWidth THEN 0 ELSE scroll - BoxWidth

(* At the left edge the line moves, and no character goes. *)
BackScroll == IF scroll < BoxWidth - 1 THEN 0 ELSE scroll - (BoxWidth - 1)

Backspace ==
  /\ Input /\ button = -1 /\ strlen > 0
  /\ IF input_x = 0
     THEN /\ scroll' = BackScroll
          /\ input_x' = strlen - scroll'
          /\ screen' = [Field(text, scroll', BoxWidth, screen) EXCEPT ![input_x'] = Nul]
     ELSE /\ input_x' = input_x - 1 /\ UNCHANGED scroll
          /\ screen' = [screen EXCEPT ![input_x'] = Nul]
  /\ text' = [text EXCEPT ![scroll' + input_x'] = Nul]
  /\ UNCHANGED <<given, scrltmp, on, choice, button, lit, result, answer>>

(* Between the line (-1) and the buttons; there is one, Ok, number 0. *)
InputFocus(forward) ==
  /\ Input
  /\ button' = CASE button = -1 -> 1 [] button = 0 -> IF forward THEN 1 ELSE -1
                 [] OTHER -> IF forward THEN -1 ELSE 0
  /\ lit' = IF (button = -1 /\ ~ forward) \/ (button = 0 /\ forward) THEN 1 ELSE 0
  /\ UNCHANGED <<given, scrltmp, on, scroll, choice, screen, text, input_x, result, answer>>

(* Return or, outside of the line, o: j_inputbox prints the text for status 0. *)
InputReturn ==
  /\ Input
  /\ IF button \in {-1, 0} THEN Ends("done", SubSeq([i \in 1..MaxLen + 1 |-> text[i - 1]], 1, strlen))
     ELSE Ends("help", {})
  /\ UNCHANGED <<on, button>>

InputOk ==
  /\ Input /\ button # -1
  /\ Ends("done", SubSeq([i \in 1..MaxLen + 1 |-> text[i - 1]], 1, strlen)) /\ UNCHANGED <<on, button>>

--------------------------------------------------------------------------
OpenQuestion ==
  /\ Opens({"yesno", "msg"})
  /\ UNCHANGED <<scrltmp, on, scroll, choice, button, screen, text, input_x, lit>>

YesNoButton ==
  /\ kind = "yesno" /\ result = "open"
  /\ button' = 1 - button /\ lit' = button'
  /\ UNCHANGED <<given, scrltmp, on, scroll, choice, screen, text, input_x, result, answer>>

(* y and n, or the selected button; a message ends with status 0. *)
YesNoAnswer(b) ==
  /\ kind \in {"yesno", "msg"} /\ result = "open"
  /\ b \in IF kind = "msg" THEN {0} ELSE {0, 1}
  /\ Ends("done", {b}) /\ UNCHANGED <<on, button>>

YesNoReturn ==
  /\ kind = "yesno" /\ result = "open"
  /\ Ends("done", {button}) /\ UNCHANGED <<on, button>>

(* Escape, and x in lists and outside of the input line; a menu removes its file. *)
Escape ==
  /\ result = "open"
  /\ result' = "escaped"
  /\ scrltmp' = IF kind = "menu" THEN -1 ELSE scrltmp
  /\ UNCHANGED <<given, on, scroll, choice, button, screen, text, input_x, lit, answer>>

Init ==
  /\ args \in Options /\ box \in Boxes
  /\ scrltmp \in IF kind = "menu" THEN ScrlFiles ELSE {-1}
  /\ on = [i \in Items |-> i \in box.on]
  /\ scroll = 0 /\ choice = 0 /\ button = 0 /\ lit = 0 /\ screen = <<>>
  /\ text = [i \in 0..MaxLen |-> Nul] /\ input_x = 0
  /\ lines = <<>> /\ result = "start" /\ answer = {}

Next ==
  \/ ReadOption \/ Usage \/ OpenChecklist \/ OpenQuestion \/ Escape
  \/ \E c \in Items : OpenMenu(c)
  \/ MenuUp \/ MenuDown \/ MenuPageUp \/ MenuPageDown
  \/ \E l \in Letters : MenuLetter(l) \/ CheckLetter(l) \/ Type(l)
  \/ \E k \in {-1, 1} : MenuButton(k)
  \/ \E b \in {0, 2, button} : MenuSelect(b)
  \/ CheckUp \/ CheckDown \/ CheckHelp \/ CheckSelect
  \/ \E n \in 0..MaxLen : OpenInput([i \in 1..n |-> "a"])
  \/ Backspace \/ \E f \in BOOLEAN : InputFocus(f)
  \/ InputReturn \/ InputOk
  \/ YesNoButton \/ \E b \in {0, 1} : YesNoAnswer(b)
  \/ YesNoReturn

--------------------------------------------------------------------------
(* The types of the open box. *)
TypeOK ==
  /\ kind \in {"none", "menu", "check", "radio", "input", "yesno", "msg"}
  /\ result \in {"start", "open", "done", "help", "escaped", "usage", "cleared"}
  /\ scroll \in Nat /\ choice \in Nat /\ button \in -1..2 /\ lit \in 0..2
  /\ on \in [Items -> BOOLEAN]

(* What the user sees after any number of keys (menubox.c:330-402,           *)
(* checklist.c:220-290, inputbox.c:153-192): the rows that were moved and    *)
(* printed one by one are the items from the first on, without a gap, with   *)
(* the selected one, and no other, highlighted; the input line shows the end *)
(* of the text; no word of the prompt runs out of the box unless it is       *)
(* longer than a line, or over another one.                                  *)
ScreenIsRight ==
  /\ kind \in {"menu", "check", "radio"} /\ result = "open" =>
       /\ screen = Drawn(scroll, choice)
       /\ choice \in 0..max_choice - 1
       /\ scroll + max_choice <= Len(letter)
  /\ Input =>
       /\ scroll + input_x = strlen /\ input_x < BoxWidth
       /\ \A r \in 0..BoxWidth - 1 : screen[r] = (IF scroll + r < strlen THEN text[scroll + r] ELSE Nul)
  /\ \A i \in DOMAIN lines :
       /\ lines[i].len <= Width - 3 => lines[i].x + lines[i].len <= Width
       /\ \A k \in 1..i - 1 :
            lines[k].y < lines[i].y \/ (lines[k].y = lines[i].y /\ lines[k].x + lines[k].len < lines[i].x)

(* What the program prints is what was highlighted or checked: the item of   *)
(* a menu, one item of a radiolist (menubox.c:410-433, checklist.c:305-335). *)
AnswerIsShown ==
  result = "done" =>
    /\ kind = "menu" => answer = {screen[r].item : r \in {r \in 0..height - 1 : screen[r].marked}}
    /\ kind = "radio" => answer = {scroll + choice}

=============================================================================
