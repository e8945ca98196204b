----------------------------- MODULE UpdateCheck -----------------------------
(***************************************************************************)
(* source/UpdateList.cc: looks on the download pages of packages for newer *)
(* versions; source/desc-parser.hh and tag-parser.hh read the description  *)
(* of a package, source/Curl.hh fetches a page.                            *)
(*                                                                         *)
(* What a file has behind its name is a sequence of segments with - before *)
(* each; a segment is a sequence of parts, numbers or words, a word being  *)
(* the negative number of its place in the order of words.  A description  *)
(* is a sequence of lines [tag, value]; a page is a sequence of the files  *)
(* on it that have the package's prefix and suffix.                        *)
(***************************************************************************)
EXTENDS Integers, Sequences, SequencesExt, FiniteSets, FiniteSetsExt

CONSTANTS
  Digit,     \* whether the name of the package has a digit in it
  Tags,      \* tags that a description may have
  Descs,     \* descriptions
  CurlCodes, \* exit codes of curl
  Signals,   \* signals that may end it
  Pages      \* what the pages have

VARIABLES
  desc,     \* lines of the description still to be read
  errors,   \* number of errors in it
  downs,    \* the [D] lines read, then those to be checked: [file, protocol]
  doing,    \* "parse", "check", "page", "stuck", "done"
  page,     \* versions on the page in hand
  seen,     \* versions matched, in order
  report    \* of each page: the newest version, or why there is none

ucVars == <<desc, errors, downs, doing, page, seen, report>>

--------------------------------------------------------------------------
IsWord(p) == p < 0
Numbered(f) == {k \in DOMAIN f : ~ IsWord(f[k][1])}

(* ExtractFromFilename: from the first digit, or from a number behind a -   *)
(* that comes after that digit.                                             *)
Extract(f) ==
  LET n == Numbered(f)
      from == IF Digit \/ Cardinality(n) = 1 THEN Min(n) ELSE Min(n \ {Min(n)})
  IN FlattenSeq(SubSeq(f, from, Len(f)))

Abs(n) == IF n < 0 THEN -n ELSE n

(* operator< of parts: words before numbers; numbers that are far apart are *)
(* dates and count as lower, in both directions.                            *)
PartLess(p, q) ==
  IF IsWord(p) # IsWord(q) THEN IsWord(p)
  ELSE (~ IsWord(p) /\ Abs(p - q) > 100) \/ p < q

PartGreater(p, q) ==
  IF IsWord(p) # IsWord(q) THEN IsWord(q)
  ELSE ~ (~ IsWord(p) /\ Abs(p - q) > 100) /\ p > q

(* Variant: a remainder does not count. *)
NoRest(a, b) == 0

(* What is left of one version when the other one has ended.  Of a remainder *)
(* of b, the code tests the first part of a, which is empty.                 *)
RestOf(a, b) ==
  IF Len(a) > Len(b) THEN (IF IsWord(a[Len(b) + 1]) THEN -1 ELSE 1)
  ELSE IF Len(b) > Len(a) THEN -1
  ELSE 0

Compare(a, b) ==
  LET shorter == IF Len(a) < Len(b) THEN Len(a) ELSE Len(b)
      differ == {i \in 1..shorter : PartLess(a[i], b[i]) \/ PartGreater(a[i], b[i])}
      first == CHOOSE i \in differ : \A k \in differ : i <= k
  IN IF differ = {} THEN RestOf(a, b)
     ELSE IF PartLess(a[first], b[first]) THEN -1 ELSE 1

--------------------------------------------------------------------------
(* Tag lines: values of one tag are appended; others are errors. *)
ReadLine ==
  /\ doing = "parse" /\ desc # <<>>
  /\ LET l == Head(desc) IN
     /\ errors' = IF l.tag \in Tags THEN errors ELSE errors + 1
     /\ downs' = IF l.tag = "D" THEN Append(downs, l.value) ELSE downs
  /\ desc' = Tail(desc)
  /\ UNCHANGED <<doing, page, seen, report>>

(* ParsePackage splits the [D] tag only if the file had no error. *)
EndOfDesc ==
  /\ doing = "parse" /\ desc = <<>>
  /\ doing' = "check"
  /\ downs' = IF errors = 0 THEN downs ELSE <<>>
  /\ UNCHANGED <<desc, errors, page, seen, report>>

Skip ==
  /\ doing = "check" /\ downs # <<>>
  /\ Head(downs).protocol \notin {"http", "https", "ftp"}
  /\ downs' = Tail(downs)
  /\ UNCHANGED <<desc, errors, doing, page, seen, report>>

(* The exception of what system() returned.  ExecCurl compares it with the   *)
(* exit codes of curl, but it is 256 times the code, or the number of the     *)
(* signal that ended curl.                                                    *)
Exception(ret) ==
  CASE ret = 1 -> "protocol" [] ret \in {3, 4, 49} -> "malformed"
    [] ret \in {5, 6, 7, 35} -> "connect" [] ret \in {9, 10, 46} -> "denied"
    [] ret = 22 -> "missing" [] ret = 28 -> "timeout" [] OTHER -> "canceled"

Fetching == doing = "check" /\ downs # <<>> /\ Head(downs).protocol \in {"http", "https", "ftp"}

(* GenList: after an exception there is a report of it, and the next file. *)
FetchFails(ret) ==
  /\ Fetching /\ ret # 0
  /\ report' = Append(report, [file |-> Head(downs).file, found |-> {}, of |-> {}, why |-> Exception(ret)])
  /\ downs' = Tail(downs)
  /\ UNCHANGED <<desc, errors, doing, page, seen>>

(* curl makes no file of an empty page: ParseList then reads for ever, as a  *)
(* stream that is not open has no end.                                        *)
NoPage ==
  /\ Fetching
  /\ doing' = "stuck"
  /\ UNCHANGED <<desc, errors, downs, page, seen, report>>

ReadOn == doing = "stuck" /\ UNCHANGED ucVars

Fetch(versions) ==
  /\ Fetching
  /\ page' = versions /\ seen' = <<>> /\ doing' = "page"
  /\ UNCHANGED <<desc, errors, downs, report>>

(* ParseList: each version is kept once; the last token is read twice. *)
MatchToken ==
  /\ doing = "page" /\ page # <<>>
  /\ seen' = IF Head(page) \in ToSet(seen) THEN seen ELSE Append(seen, Head(page))
  /\ page' = Tail(page)
  /\ UNCHANGED <<desc, errors, downs, doing, report>>

NewerFiles(ours) == {f \in ToSet(seen) : Compare(Extract(f), Extract(ours)) = 1}

(* std::sort and back(): the greatest version, if the comparison is an order *)
(* on those found; any of them if it is not.                                 *)
IsOrder(set) ==
  LET less(v, w) == Compare(Extract(v), Extract(w)) = -1
  IN /\ \A v, w \in set : ~ (less(v, w) /\ less(w, v))
     /\ \A u, v, w \in set : less(u, v) /\ less(v, w) => less(u, w)

Newest(set) ==
  IF IsOrder(set) THEN {v \in set : \A w \in set : Compare(Extract(v), Extract(w)) # -1} ELSE set

Report ==
  /\ doing = "page" /\ page = <<>>
  /\ LET ours == Head(downs).file IN
     report' = Append(report, [file |-> ours, found |-> ToSet(seen), of |-> Newest(NewerFiles(ours)), why |-> "read"])
  /\ downs' = Tail(downs) /\ doing' = "check"
  /\ UNCHANGED <<desc, errors, page, seen>>

AllChecked ==
  /\ doing = "check" /\ downs = <<>>
  /\ doing' = "done"
  /\ UNCHANGED <<desc, errors, downs, page, seen, report>>

Init ==
  /\ desc \in Descs /\ errors = 0 /\ downs = <<>> /\ doing = "parse"
  /\ page = <<>> /\ seen = <<>> /\ report = <<>>

Next ==
  \/ ReadLine \/ EndOfDesc \/ Skip \/ NoPage \/ ReadOn \/ MatchToken \/ Report \/ AllChecked
  \/ \E ret \in {256 * c : c \in CurlCodes} \cup Signals : FetchFails(ret)
  \/ \E p \in Pages : Fetch(p)
--------------------------------------------------------------------------
(* The types of the description, the page in hand and the reports. *)
TypeOK ==
  /\ doing \in {"parse", "check", "page", "stuck", "done"}
  /\ errors \in Nat /\ IsInjective(seen)
  /\ \A i \in DOMAIN report : report[i].of # {} => report[i].why = "read"

(* The order of versions: a word (beta, rc) comes before the end, the end     *)
(* before a number, as in the list of versions under TESTING.                 *)
Rank(v, i) == IF i > Len(v) THEN 0 ELSE IF IsWord(v[i]) THEN v[i] ELSE v[i] + 1
Later(v, w) ==
  \E i \in 1..Len(v) + Len(w) :
    Rank(v, i) > Rank(w, i) /\ \A k \in 1..i-1 : Rank(v, k) = Rank(w, k)

Version(f) == FlattenSeq(SubSeq(f, Min(Numbered(f)), Len(f)))

(* One number behind a -, so that there is no doubt where the version starts. *)
Plain(f) == Cardinality(Numbered(f)) = 1

(* Two versions that the code tells apart: numbers that are near (dates are   *)
(* held lower, 135-143), and no word that stands alone against the end of the *)
(* other: 1.0 is held lower than 1.0rc, and 1.0rc lower than 1.0 (237-263).   *)
Comparable(f, g) ==
  LET v == Version(f)  w == Version(g) IN
  /\ Plain(f) /\ Plain(g)
  /\ \A i \in 1..Len(v) : i <= Len(w) /\ ~ IsWord(v[i]) /\ ~ IsWord(w[i]) => Abs(v[i] - w[i]) <= 100
  /\ Len(v) > Len(w) => ~ IsWord(v[Len(w) + 1])
  /\ Len(w) > Len(v) => ~ IsWord(w[Len(v) + 1])

(* What is told of a page (UpdateList.cc:80-268, 295-389).  No version is told *)
(* that is not newer than the package's, whatever numbers and words there are. *)
(* None is told only if there is none that is newer and that the code can tell *)
(* apart from the package's: the exceptions are those of Comparable, by which *)
(* a package at 1.0rc is not told of 1.0.  Of a page with versions that it can *)
(* all tell apart, the newest is told.                                         *)
ReportIsRight ==
  \A i \in DOMAIN report :
    LET r == report[i]
        newer == {f \in r.found : Plain(f) /\ Later(Version(f), Version(r.file))}
    IN
    Plain(r.file) =>
      /\ \A f \in r.of : Plain(f) => f \in newer
      /\ r.of = {} => \A f \in newer : ~ Comparable(f, r.file)
      /\ (\A f, g \in r.found \cup {r.file} : Comparable(f, g)) =>
           r.of = {f \in newer : \A g \in newer : ~ Later(Version(g), Version(f))}
=============================================================================
