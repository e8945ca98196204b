------------------------------ MODULE LuaSort ------------------------------
(***************************************************************************)
(* table.sort of Lua (auxsort in misc/luabash/lua/ltablib.c): a quicksort  *)
(* whose order is a function of the program that uses it.  A step ends     *)
(* before the next calls of that function.  left and right are i and j of  *)
(* the source, lo and hi are l and u.                                      *)
(***************************************************************************)
EXTENDS Integers, Sequences, SequencesExt, FiniteSets

CONSTANTS
  Arrays,  \* sequences of elements
  Orders,  \* relations on elements: the pairs whose first one goes first
  Hole     \* what is behind the elements: an order raises an error if it meets it

VARIABLES given, order, arr, halves, lo, hi, left, right, pivot, sorting

lsVars == <<given, order, arr, halves, lo, hi, left, right, pivot, sorting>>

Size == Len(given)
Elem(k) == IF k \in 1..Size THEN arr[k] ELSE Hole
(* sort_comp *)
Before(a, b) == <<a, b>> \in order
Swapped(a, p, q) == [a EXCEPT ![p] = a[q], ![q] = a[p]]
Ordered(a, p, q) == IF Before(a[q], a[p]) THEN Swapped(a, p, q) ELSE a

Init ==
  /\ given \in Arrays /\ order \in Orders
  /\ arr = given /\ halves = <<>> /\ lo = 1 /\ hi = Size
  /\ left = 0 /\ right = 0 /\ pivot = Hole /\ sorting = "range"

(* The loop ends, and the call returns to the one that has the larger half. *)
EndRange ==
  /\ sorting = "range" /\ lo >= hi
  /\ IF halves = <<>> THEN sorting' = "done" /\ UNCHANGED <<halves, lo, hi>>
     ELSE /\ lo' = Last(halves)[1] /\ hi' = Last(halves)[2]
          /\ halves' = Front(halves) /\ UNCHANGED sorting
  /\ UNCHANGED <<given, order, arr, left, right, pivot>>
Ends ==
  /\ sorting = "range" /\ lo < hi
  /\ arr' = Ordered(arr, lo, hi)
  /\ IF hi - lo = 1 THEN lo' = hi /\ UNCHANGED <<left, sorting>>
     ELSE left' = (lo + hi) \div 2 /\ sorting' = "middle" /\ UNCHANGED lo
  /\ UNCHANGED <<given, order, halves, hi, right, pivot>>
(* The median of three is the pivot and waits at hi - 1. *)
Middle ==
  /\ sorting = "middle"
  /\ LET a == IF Before(arr[left], arr[lo]) THEN Swapped(arr, left, lo) ELSE Ordered(arr, left, hi)
     IN IF hi - lo = 2
        THEN arr' = a /\ lo' = hi /\ sorting' = "range" /\ UNCHANGED <<left, right, pivot>>
        ELSE /\ arr' = Swapped(a, left, hi - 1) /\ pivot' = a[left]
             /\ left' = lo /\ right' = hi - 1 /\ sorting' = "up" /\ UNCHANGED lo
  /\ UNCHANGED <<given, order, halves, hi>>

(* The index is tested after the call of the order. *)
Up ==
  /\ sorting = "up"
  /\ left' = left + 1
  /\ sorting' = IF Elem(left') = Hole THEN "error"
             ELSE IF ~Before(Elem(left'), pivot) THEN "down"
             ELSE IF left' > hi THEN "error" ELSE "up"
  /\ UNCHANGED <<given, order, arr, halves, lo, hi, right, pivot>>
Down ==
  /\ sorting = "down"
  /\ right' = right - 1
  /\ IF Elem(right') = Hole THEN sorting' = "error" /\ UNCHANGED arr
     ELSE IF Before(pivot, Elem(right'))
     THEN sorting' = (IF right' < lo THEN "error" ELSE "down") /\ UNCHANGED arr
     ELSE IF right' < left THEN sorting' = "split" /\ arr' = Swapped(arr, hi - 1, left)
     ELSE sorting' = "up" /\ arr' = Swapped(arr, left, right')
  /\ UNCHANGED <<given, order, halves, lo, hi, left, pivot>>

(* The smaller half is sorted by a call, then the larger one by the loop. *)
LowerFirst == left - lo < hi - left
Split ==
  /\ sorting = "split"
  /\ lo' = IF LowerFirst THEN lo ELSE left + 1
  /\ hi' = IF LowerFirst THEN left - 1 ELSE hi
  /\ halves' = Append(halves, IF LowerFirst THEN <<left + 1, hi>> ELSE <<lo, left - 1>>)
  /\ sorting' = "range"
  /\ UNCHANGED <<given, order, arr, left, right, pivot>>

Next == EndRange \/ Ends \/ Middle \/ Up \/ Down \/ Split
Spec == Init /\ [][Next]_lsVars

--------------------------------------------------------------------------
TypeOK ==
  /\ sorting \in {"range", "middle", "up", "down", "split", "done", "error"}
  /\ Len(arr) = Size /\ lo \in 1..(Size + 1) /\ hi \in 0..Size

Values == ToSet(given)
IsWeakOrder ==
  /\ \A a \in Values : ~Before(a, a)
  /\ \A a, b, c \in Values : Before(a, c) => Before(a, b) \/ Before(b, c)
Count(s, v) == Cardinality({k \in DOMAIN s : s[k] = v})
(* Whatever function is given as the order, and wherever it fails, no element *)
(* is lost or doubled; a weak order sorts and is never called invalid         *)
(* (ltablib.c:218); and the calls nest no deeper than the logarithm of the    *)
(* length, as the room on the stack assumes (ltablib.c:249).                  *)
SortIsRight ==
  /\ \A v \in Values : Count(arr, v) = Count(given, v)
  /\ halves # <<>> => 2 ^ (Len(halves) + 1) <= Size
  /\ IsWeakOrder => /\ sorting # "error"
                    /\ sorting = "done" => \A k \in 1..(Size - 1) : ~Before(arr[k + 1], arr[k])
=============================================================================
