----------------------------- MODULE StrArrays -----------------------------
(***************************************************************************)
(* str_partition_array and str_unique_partition_array: loops over an array *)
(* of str objects that rearrange it in place by swaps.                     *)
(*                                                                         *)
(* An object is named by its place when the function is called, so two     *)
(* objects with the same text stay apart: array[k] is the object that is   *)
(* at place k now, value[o] what object o reads.                           *)
(***************************************************************************)
EXTENDS Naturals, Sequences

CONSTANTS
  Value,     \* what a string can read
  Pred,      \* the values for which the caller's predicate holds
  MaxCount   \* bound: the length of the array

ASSUME ArraysAssumption == Pred \subseteq Value /\ MaxCount \in Nat

VARIABLES
  fn,        \* the function that is called
  null,      \* whether it is given NULL for the array
  value,     \* the strings' values, by object
  array,     \* the objects, by place
  p, s,      \* the function's pointers into the array
  pc,        \* where the call is
  ret        \* what it returns

vars == <<fn, null, value, array, p, s, pc, ret>>

count == Len(value)

Init ==
  /\ fn \in {"partition", "unique"} /\ null \in BOOLEAN
  /\ value \in UNION {[1 .. n -> Value] : n \in 0 .. MaxCount}
  /\ array = [k \in 1 .. count |-> k]
  /\ p = 1 /\ s = 1 /\ pc = "call" /\ ret = 0

pred(i) == value[array[i]] \in Pred

str_eq(i, j) == value[array[i]] = value[array[j]]

SwappedOneWay(i, j) == [array EXCEPT ![i] = array[j]]
Swapped(i, j) == [array EXCEPT ![i] = array[j], ![j] = array[i]]

Return(r) == pc' = "done" /\ ret' = r /\ UNCHANGED <<fn, null, value, array, p, s>>

Goto(label) == pc' = label /\ UNCHANGED <<fn, null, value, ret>>

----------------------------------------------------------------------------
(* str_partition_array. *)

PartitionNothing == pc = "call" /\ fn = "partition" /\ null /\ Return(0)

PartitionCall ==
  /\ pc = "call" /\ fn = "partition" /\ ~null
  /\ Goto("skip") /\ UNCHANGED <<array, p, s>>

\* The strings that match and are in front already stay there.
Skip ==
  /\ pc = "skip" /\ p <= count /\ pred(p)
  /\ p' = p + 1
  /\ Goto("skip") /\ UNCHANGED <<array, s>>

\* s = p, then ++p at the head of the second loop.
Skipped ==
  /\ pc = "skip" /\ ~(p <= count /\ pred(p))
  /\ s' = p /\ p' = p + 1
  /\ Goto("move") /\ UNCHANGED array

\* str_swap(s++, p) if p matches, and ++p.
MoveNoAdvance ==
  /\ pc = "move" /\ p <= count
  /\ IF pred(p) THEN array' = Swapped(s, p) ELSE UNCHANGED array
  /\ UNCHANGED s
  /\ p' = p + 1
  /\ Goto("move")
Move ==
  /\ pc = "move" /\ p <= count
  /\ IF pred(p) THEN array' = Swapped(s, p) /\ s' = s + 1 ELSE UNCHANGED <<array, s>>
  /\ p' = p + 1
  /\ Goto("move")

PartitionReturn == pc = "move" /\ p > count /\ Return(s - 1)

----------------------------------------------------------------------------
(* str_unique_partition_array. *)

UniqueNothing == pc = "call" /\ fn = "unique" /\ (null \/ count = 0) /\ Return(0)

UniqueOne == pc = "call" /\ fn = "unique" /\ ~null /\ count = 1 /\ Return(1)

UniqueCall ==
  /\ pc = "call" /\ fn = "unique" /\ ~null /\ count > 1
  /\ s' = 2
  /\ Goto("scan") /\ UNCHANGED <<array, p>>

\* The string at s is not the last unique one again.
DiffersFromNeighbour == ~str_eq(s - 1, s)
Differs == ~str_eq(p, s)

\* str_swap(++p, s), unless that is the same place.
Scan ==
  /\ pc = "scan" /\ s <= count
  /\ p' = IF Differs THEN p + 1 ELSE p
  /\ array' = IF Differs /\ p' < s THEN Swapped(p', s) ELSE array
  /\ s' = s + 1
  /\ Goto("scan")

UniqueReturn == pc = "scan" /\ s > count /\ Return(p)

Done == pc = "done" /\ UNCHANGED vars

----------------------------------------------------------------------------
Next ==
  \/ PartitionNothing \/ PartitionCall \/ Skip \/ Skipped \/ Move \/ PartitionReturn
  \/ UniqueNothing \/ UniqueOne \/ UniqueCall \/ Scan \/ UniqueReturn
  \/ Done

Spec == Init /\ [][Next]_vars

----------------------------------------------------------------------------
(* Properties. *)

Place == 1 .. count

\* An element is read, or written, only inside the array.
TypeOK ==
  /\ fn \in {"partition", "unique"} /\ null \in BOOLEAN
  /\ value \in Seq(Value) /\ array \in [Place -> Place]
  /\ p \in Nat \ {0} /\ s \in Nat \ {0} /\ ret \in 0 .. count
  /\ pc \in {"call", "skip", "move", "scan", "done"}
  /\ pc = "move" => s \in 1 .. p - 1
  /\ pc = "scan" => p \in 1 .. s - 1 /\ s <= count + 1

\* The strings are only moved around (api.md:328-330, 336-337): at every
\* moment each of them is in exactly one place, so that no owner is lost and
\* none is doubled, whatever the predicate says.
Rearranged ==
  /\ \A i, j \in Place : array[i] = array[j] => i = j
  /\ \A o \in Place : \E k \in Place : array[k] = o

Returned(f) == pc = "done" /\ fn = f /\ ~null

Leading == 1 .. ret

\* The objects in front are in the order they had in the array.
InOrder == \A i, j \in Leading : i < j => array[i] < array[j]

\* The matching strings are those in front, as many as returned, and they
\* keep their order.
Partitioned ==
  Returned("partition") => (\A k \in Place : pred(k) <=> k \in Leading) /\ InOrder

\* The objects that begin a run of equal strings.
First(o) == o = 1 \/ value[o] # value[o - 1]

\* Of an array in any order, the first string of every run comes to the
\* front, in order: the swaps that fill the front disturb nothing that is
\* still to be compared.
RunsCollapsed ==
  Returned("unique") => /\ \A o \in Place : First(o) <=> \E k \in Leading : array[k] = o
                        /\ InOrder

\* Equal strings stand together, as they do in a sorted array.
Grouped ==
  \A i, j \in Place : value[i] = value[j] => \A k \in i .. j : value[k] = value[i]

\* Then the strings in front are all different and none is missing.
UniqueInFront ==
  Returned("unique") /\ Grouped =>
    /\ \A i, j \in Leading : i # j => ~str_eq(i, j)
    /\ \A k \in Place : \E i \in Leading : str_eq(i, k)
=============================================================================
