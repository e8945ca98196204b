------------------------------ MODULE LuaMatch ------------------------------
(***************************************************************************)
(* misc/luabash/lua/lstrlib.c: string.find, match, gmatch and gsub.  The   *)
(* matcher backtracks over one set of captures that it changes in place.   *)
(* A pattern is given as the sequence of its items: the text of a class    *)
(* (classend, matchbracketclass) stands as the set of its characters.      *)
(***************************************************************************)
EXTENDS Integers, Sequences, SequencesExt

CONSTANTS
  Subjects,  \* strings: sequences of characters
  Patterns,  \* sequences of items
  Inits,     \* third argument of find, max_s of gsub
  NUL        \* the character that ends a subject

VARIABLES
  fun,      \* "find", "gmatch", "gsub"
  subject, pat, anchor,
  max_s,    \* gsub: most replacements
  src,      \* where the next attempt is made
  got,      \* the last attempt, at src: position after the match, captures
  tried,    \* the place of the last attempt, 0 before the first
  pieces,   \* gmatch, gsub: [from, to, hit] in the order they were found
  matching  \* "run", "found", "none", "error"

lmVars == <<fun, subject, pat, anchor, max_s, src, got, tried, pieces, matching>>

UNFINISHED == -1
POSITION == -2
Fail(caps) == [res |-> 0, caps |-> caps]
Error == [res |-> -1, caps |-> <<>>]
End == Len(subject) + 1
CharAt(s) == IF s = End THEN NUL ELSE subject[s]

--------------------------------------------------------------------------
SingleMatch(s, item) == s < End /\ CharAt(s) \in item.set

(* max_expand: how often an item matches from s on. *)
RECURSIVE Repeats(_, _)
Repeats(s, item) == IF SingleMatch(s, item) THEN 1 + Repeats(s + 1, item) ELSE 0

(* matchbalance: the position after the balanced text at s; 0 if there is none. *)
RECURSIVE Balance(_, _, _)
Balance(s, item, cont) ==
  IF s >= End THEN 0
  ELSE IF CharAt(s) = item.y THEN (IF cont = 1 THEN s + 1 ELSE Balance(s + 1, item, cont - 1))
  ELSE Balance(s + 1, item, IF CharAt(s) = item.x THEN cont + 1 ELSE cont)
MatchBalance(s, item) == IF CharAt(s) # item.x THEN 0 ELSE Balance(s + 1, item, 1)

Frontier(s, item) ==
  (IF s = 1 THEN NUL ELSE subject[s - 1]) \notin item.set /\ CharAt(s) \in item.set

(* capture_to_close: the last one that is unfinished. *)
ToClose(caps) == SelectLastInSeq(caps, LAMBDA c : c.len = UNFINISHED)
NoCapture(caps, n) == IF n > Len(caps) THEN TRUE ELSE caps[n].len = UNFINISHED

(* match_capture: the text of a capture again.  A position is no text. *)
MatchCapture(s, c) ==
  IF c.len = POSITION THEN 0
  ELSE IF End - s >= c.len /\ SubSeq(subject, c.init, c.init + c.len - 1) = SubSeq(subject, s, s + c.len - 1)
       THEN s + c.len ELSE 0

(* Variant: a capture stays closed when what follows it does not match. *)
StaysClosed(r, l) == r

(* end_capture: undone if what follows does not match. *)
Reopened(r, l) == IF r.res = 0 THEN [r EXCEPT !.caps[l].len = UNFINISHED] ELSE r

RECURSIVE Match(_, _, _)
(* max_expand, min_expand: i repetitions of item p are tried. *)
RECURSIVE MaxExpand(_, _, _, _)
MaxExpand(s, p, i, caps) ==
  IF i < 0 THEN Fail(caps)
  ELSE LET r == Match(s + i, p + 1, caps) IN
       IF r.res # 0 THEN r ELSE MaxExpand(s, p, i - 1, r.caps)

RECURSIVE MinExpand(_, _, _)
MinExpand(s, p, caps) ==
  LET r == Match(s, p + 1, caps) IN
  IF r.res # 0 THEN r
  ELSE IF SingleMatch(s, pat[p]) THEN MinExpand(s + 1, p, r.caps) ELSE r

StartCapture(s, p, what, caps) ==
  LET r == Match(s, p, Append(caps, [init |-> s, len |-> what])) IN
  IF r.res = 0 THEN Fail(Front(r.caps)) ELSE r

EndCapture(s, p, caps) ==
  LET l == ToClose(caps) IN
  IF l = 0 THEN Error ELSE Reopened(Match(s, p, [caps EXCEPT ![l].len = s - caps[l].init]), l)

GoOn(s, p, caps) == IF s = 0 THEN Fail(caps) ELSE Match(s, p, caps)

Item(s, p, caps) ==
  LET item == pat[p]
      m == SingleMatch(s, item)
  IN CASE item.rep = "?" ->
            LET r == GoOn(IF m THEN s + 1 ELSE 0, p + 1, caps) IN IF r.res # 0 THEN r ELSE Match(s, p + 1, r.caps)
       [] item.rep = "*" -> MaxExpand(s, p, Repeats(s, item), caps)
       [] item.rep = "+" -> IF m THEN MaxExpand(s + 1, p, Repeats(s + 1, item), caps) ELSE Fail(caps)
       [] item.rep = "-" -> MinExpand(s, p, caps)
       [] OTHER -> GoOn(IF m THEN s + 1 ELSE 0, p + 1, caps)

Match(s, p, caps) ==
  IF p > Len(pat) THEN [res |-> s, caps |-> caps]
  ELSE LET item == pat[p] IN
       CASE item.op = "(" -> StartCapture(s, p + 1, UNFINISHED, caps)
         [] item.op = "()" -> StartCapture(s, p + 1, POSITION, caps)
         [] item.op = ")" -> EndCapture(s, p + 1, caps)
         [] item.op = "%b" -> GoOn(MatchBalance(s, item), p + 1, caps)
         [] item.op = "%f" -> GoOn(IF Frontier(s, item) THEN s ELSE 0, p + 1, caps)
         [] item.op = "%1" -> IF NoCapture(caps, item.n) THEN Error
                              ELSE GoOn(MatchCapture(s, caps[item.n]), p + 1, caps)
         [] item.op = "$" -> IF s = End THEN Match(s, p + 1, caps) ELSE Fail(caps)
         [] OTHER -> Item(s, p, caps)

--------------------------------------------------------------------------
(* Reference: all the ways to match, the preferred one first, each with     *)
(* captures of its own; an error ends the search.                           *)
RECURSIVE Ways(_, _, _)
Ways(s, p, caps) ==
  IF p > Len(pat) THEN <<[res |-> s, caps |-> caps]>>
  ELSE LET item == pat[p]
           k == IF item.op = "one" THEN Repeats(s, item) ELSE 0
           From(i) == Ways(s + i, p + 1, caps)
           At(e) == IF e = 0 THEN <<>> ELSE Ways(e, p + 1, caps)
           l == ToClose(caps)
       IN CASE item.op = "(" -> Ways(s, p + 1, Append(caps, [init |-> s, len |-> UNFINISHED]))
            [] item.op = "()" -> Ways(s, p + 1, Append(caps, [init |-> s, len |-> POSITION]))
            [] item.op = ")" -> IF l = 0 THEN <<Error>> ELSE Ways(s, p + 1, [caps EXCEPT ![l].len = s - caps[l].init])
            [] item.op = "%b" -> At(MatchBalance(s, item))
            [] item.op = "%f" -> At(IF Frontier(s, item) THEN s ELSE 0)
            [] item.op = "%1" -> IF NoCapture(caps, item.n) THEN <<Error>> ELSE At(MatchCapture(s, caps[item.n]))
            [] item.op = "$" -> At(IF s = End THEN s ELSE 0)
            [] OTHER -> LET least == IF item.rep \in {"", "+"} THEN 1 ELSE 0
                            most == IF item.rep \in {"", "?"} /\ k > 1 THEN 1 ELSE k
                            counts == IF most < least THEN <<>> ELSE [i \in 1..(most - least + 1) |-> least + i - 1]
                        IN FlattenSeq([i \in 1..Len(counts) |->
                             From(IF item.rep = "-" THEN counts[i] ELSE counts[Len(counts) + 1 - i])])

--------------------------------------------------------------------------
(* push_captures: an unfinished capture is an error. *)
Pushed(r) == ~ \E c \in ToSet(r.caps) : c.len = UNFINISHED
Piece(e, hit) == [from |-> src, to |-> e, hit |-> hit]

(* One attempt at src. *)
Tries == got' = Match(src, 1, <<>>) /\ tried' = src
Args == UNCHANGED <<fun, subject, pat, anchor, max_s>>

FindStep ==
  /\ fun = "find" /\ matching = "run" /\ Tries
  /\ LET over == src >= End \/ anchor IN
     matching' = IF got'.res > 0 THEN (IF Pushed(got') THEN "found" ELSE "error")
               ELSE IF got'.res < 0 THEN "error" ELSE IF over THEN "none" ELSE "run"
  /\ src' = IF matching' = "run" THEN src + 1 ELSE src
  /\ Args /\ UNCHANGED pieces

(* gmatch_aux: an empty match goes on at least one position. *)
GmatchStep ==
  /\ fun = "gmatch" /\ matching = "run"
  /\ IF src > End THEN matching' = "none" /\ UNCHANGED <<src, got, tried, pieces>>
     ELSE /\ Tries
          /\ matching' = IF got'.res < 0 \/ (got'.res > 0 /\ ~ Pushed(got')) THEN "error" ELSE "run"
          /\ src' = IF got'.res > src THEN got'.res ELSE src + 1
          /\ pieces' = IF got'.res > 0 THEN Append(pieces, Piece(got'.res, TRUE)) ELSE pieces
  /\ Args

Hits == Len(SelectSeq(pieces, LAMBDA x : x.hit))
Rest(n) == IF n < End THEN <<[from |-> n, to |-> End, hit |-> FALSE]>> ELSE <<>>

(* str_gsub: a match is replaced, a character that none begins at is kept. *)
GsubStep ==
  /\ fun = "gsub" /\ matching = "run"
  /\ IF Hits >= max_s THEN matching' = "found" /\ pieces' = pieces \o Rest(src) /\ UNCHANGED <<src, got, tried>>
     ELSE /\ Tries
          /\ LET e == got'.res
                 bad == e < 0 \/ (e > 0 /\ ~ Pushed(got'))
                 hit == IF e > 0 THEN <<Piece(e, TRUE)>> ELSE <<>>
                 kept == IF e <= src /\ src < End THEN <<Piece(src + 1, FALSE)>> ELSE <<>>
             IN /\ src' = IF e > src THEN e ELSE IF src < End THEN src + 1 ELSE src
                /\ matching' = IF bad THEN "error" ELSE IF src' = src \/ anchor THEN "found" ELSE "run"
                /\ pieces' = pieces \o hit \o kept \o (IF matching' = "found" THEN Rest(src') ELSE <<>>)
  /\ Args

(* posrelat and the bounds of init: find starts in the subject, or at its end. *)
Bounded(i) ==
  LET pos == IF i >= 0 THEN i ELSE Len(subject) + i + 1
  IN IF pos < 1 THEN 1 ELSE IF pos > End THEN End ELSE pos

Init ==
  /\ fun \in {"find", "gmatch", "gsub"} /\ subject \in Subjects /\ pat \in Patterns
  /\ anchor \in (IF fun = "gmatch" THEN {FALSE} ELSE BOOLEAN)
  /\ \E i \in Inits :
       /\ src = IF fun = "find" THEN Bounded(i) ELSE 1
       /\ max_s = IF fun = "gsub" /\ i \in 1..Len(subject) THEN i ELSE End
  /\ got = Fail(<<>>) /\ tried = 0 /\ pieces = <<>> /\ matching = "run"

Next == FindStep \/ GmatchStep \/ GsubStep

--------------------------------------------------------------------------
(* The types of the search and of the captures. *)
TypeOK ==
  /\ src \in 1..(End + 1) /\ tried \in 0..End /\ matching \in {"run", "found", "none", "error"}
  /\ got.res \in -1..End /\ \A c \in ToSet(got.caps) : c.init \in 1..End /\ c.len \in -2..Len(subject)

(* What matching promises (lstrlib.c:359-428, 515-689): an attempt finds the *)
(* preferred way to match with its captures, if there is one, and one that   *)
(* fails leaves no capture behind; the matches of gmatch and the pieces of   *)
(* gsub follow one another, those of gsub make up the whole subject, and no  *)
(* two empty matches are found at one place.                                 *)
MatchIsRight ==
  /\ tried > 0 => LET ways == Ways(tried, 1, <<>>) IN got = IF ways = <<>> THEN Fail(<<>>) ELSE Head(ways)
  /\ \A i \in 1..(Len(pieces) - 1) :
       IF fun = "gsub" THEN pieces[i].to = pieces[i + 1].from ELSE pieces[i].to <= pieces[i + 1].from
  /\ \A i, j \in 1..Len(pieces) :
       i # j => pieces[i] # pieces[j]
  /\ fun = "gsub" /\ matching = "found" /\ subject # <<>> =>
       pieces # <<>> /\ pieces[1].from = 1 /\ Last(pieces).to = End /\ Hits <= max_s
==============================================================================
