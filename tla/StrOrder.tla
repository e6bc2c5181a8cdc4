------------------------------ MODULE StrOrder ------------------------------
(***************************************************************************)
(* Comparison and sorting, and the two array functions meant for each      *)
(* other: str_sort_array, then str_unique_partition_array (StrArrays) on   *)
(* what it sorted.                                                         *)
(*                                                                         *)
(* memcmp promises nothing but the sign of its result, so every call may   *)
(* give another number; qsort is any sequence of exchanges that the        *)
(* comparison function asks for, until it asks for none.                   *)
(***************************************************************************)
EXTENDS StrArrays, Integers

CONSTANT
  INT_MAX    \* bound: the size of what memcmp returns

\* A string is a sequence of bytes.  memcmp returns no INT_MIN, which has no
\* opposite: no C library does.
ASSUME OrderAssumption ==
  /\ INT_MAX \in Nat \ {0}
  /\ Value \subseteq Seq(0 .. 255)

VARIABLES
  cmp,       \* the comparison function: "asc" or "desc"
  sorting    \* what there is of sorting: "never", "now" or "done"

----------------------------------------------------------------------------
(* str.h: comparison. *)

\* What memcmp may return for the first n bytes.
memcmp(x, y, n) ==
  LET differ == {k \in 1 .. n : x[k] # y[k]}
      first(k) == \A j \in differ : k <= j
  IN  IF differ = {} THEN {0}
      ELSE IF \E k \in differ : first(k) /\ x[k] < y[k] THEN -INT_MAX .. -1 ELSE 1 .. INT_MAX

\* What it may return for two strings.
str_cmpLengthFirst(x, y) ==
  IF Len(x) = Len(y) THEN memcmp(x, y, Len(x)) ELSE IF Len(x) < Len(y) THEN {-1} ELSE {1}
str_cmp(x, y) ==
  {IF res # 0 \/ Len(x) = Len(y) THEN res ELSE IF Len(x) < Len(y) THEN -1 ELSE 1 :
     res \in memcmp(x, y, IF Len(x) < Len(y) THEN Len(x) ELSE Len(y))}

str_order_asc(x, y)  == str_cmp(x, y)
str_order_descNoTie(x, y) == {IF r > 0 THEN -1 ELSE 1 : r \in str_order_asc(x, y)}
str_order_desc(x, y) == {-r : r \in str_order_asc(x, y)}

Compare(x, y) == IF cmp = "asc" THEN str_order_asc(x, y) ELSE str_order_desc(x, y)

----------------------------------------------------------------------------
\* The program sorts the array and makes it unique, or calls one of the
\* functions with the array as it is.
InitOrder ==
  /\ Init
  /\ \/ sorting = "never" /\ cmp = "asc"
     \/ sorting = "now" /\ cmp \in {"asc", "desc"} /\ fn = "unique" /\ ~null

\* str_sort_array: one exchange of qsort's.
Exchange(k) ==
  /\ sorting = "now" /\ count > 1
  /\ \E r \in Compare(value[k], value[k + 1]) : r > 0
  /\ value' = [value EXCEPT ![k] = value[k + 1], ![k + 1] = value[k]]
  /\ UNCHANGED <<fn, null, array, p, s, pc, ret, cmp, sorting>>

Sorted ==
  /\ sorting = "now"
  /\ count > 1 => \A k \in 1 .. count - 1 : \E r \in Compare(value[k], value[k + 1]) : r <= 0
  /\ sorting' = "done"
  /\ UNCHANGED <<vars, cmp>>

NextOrder ==
  \/ \E k \in 1 .. count - 1 : Exchange(k)
  \/ Sorted
  \/ sorting # "now" /\ Next /\ UNCHANGED <<cmp, sorting>>

SpecOrder ==
  /\ InitOrder /\ [][NextOrder]_<<vars, cmp, sorting>>
  /\ WF_<<vars, cmp, sorting>>(NextOrder)

----------------------------------------------------------------------------
(* Properties. *)

\* The order of a dictionary: at the first difference, or where one string
\* ends, the smaller byte, or the end, comes first.
Before(x, y) ==
  \E n \in 0 .. Len(x) :
    /\ SubSeq(x, 1, n) = SubSeq(y, 1, n) /\ n < Len(y)
    /\ n = Len(x) \/ x[n + 1] < y[n + 1]

\* Sorting and then making unique gives every string once, in dictionary
\* order or the reverse, and loses none.
SortedUnique ==
  Returned("unique") /\ sorting = "done" =>
    /\ \A i, j \in Leading : i < j =>
         LET x == value[array[i]]
             y == value[array[j]]
         IN  IF cmp = "asc" THEN Before(x, y) ELSE Before(y, x)
    /\ \A k \in Place : \E i \in Leading : str_eq(i, k)

\* The comparison functions contradict themselves nowhere, so that sorting
\* ends.
SortEnds == <>(pc = "done")
=============================================================================
