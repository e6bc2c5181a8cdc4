------------------------------ MODULE StrValue ------------------------------
(***************************************************************************)
(* What the library promises about string values, with no heap in sight.   *)
(*                                                                         *)
(* A variable holds a string value, or LOST once it was a reference whose  *)
(* referent has been freed.  A variable in `owner' holds its value for as  *)
(* long as nobody assigns to it.  A library call picks its result from the *)
(* values its arguments have when it is called, the destination's own      *)
(* value included, and installs it when it returns (README: "the           *)
(* modification occurs at the very end, avoiding self-assignment issues"). *)
(***************************************************************************)
EXTENDS StrText

CONSTANTS
  Var,        \* the program's str variables
  Constant,   \* the values of the program's string literals
  MaxArgs,    \* bound: strings passed to one concat or join
  MaxTimes,   \* bound: the n of str_repeat
  LOST        \* the value of a dangling reference

VARIABLES
  val,        \* val[v]: the value variable v denotes
  owner,      \* the variables that own their value
  pending     \* the call in progress: its destination and its result

Nothing == [dest |-> LOST, result |-> LOST, fails |-> FALSE]
Exited  == [dest |-> LOST, result |-> LOST, fails |-> TRUE]

Holds(v) == val[v] # LOST

----------------------------------------------------------------------------
\* Variable v gets value x.  If v owned memory, that memory is gone: any of
\* the references may have lost its value.  Owners keep theirs.
Becomes(v, x) ==
  \E lost \in SUBSET {u \in Var \ (owner \cup {v}) : v \in owner} :
    val' = [u \in Var |-> IF u = v THEN x ELSE IF u \in lost THEN LOST ELSE val[u]]

\* Variable v becomes a reference with value x.
Refers(v, x) == Becomes(v, x) /\ owner' = owner \ {v}

\* Variable v becomes the owner of value x; an empty value needs no owner.
Owns(v, x) ==
  /\ Becomes(v, x)
  /\ owner' = IF x = <<>> THEN owner \ {v} ELSE owner \cup {v}

----------------------------------------------------------------------------
Init ==
  /\ val = [v \in Var |-> <<>>]
  /\ owner = {}
  /\ pending = Nothing

\* A literal, or a slice of a string; by plain or by str_assign assignment.
\* Nothing at all; by str_clear.
SetRef(v) ==
  /\ \/ \E x \in Constant \cup {<<>>} : Refers(v, x)
     \/ \E w \in Var : Holds(w) /\ \E x \in Slices(val[w]) : Refers(v, x)
  /\ UNCHANGED pending

\* v takes over w's memory, if w owns any; w keeps referring to it.
Take(v, w) ==
  /\ Holds(w)
  /\ Becomes(v, val[w])
  /\ owner' = (owner \ {v, w}) \cup (IF w \in owner THEN {v} ELSE {})
  /\ UNCHANGED pending

\* v takes over a buffer the program filled itself.
TakeBuffer(v) ==
  /\ \E x \in Constant : Owns(v, x)
  /\ UNCHANGED pending

Swap(v, w) ==
  LET other(u) == IF u = v THEN w ELSE IF u = w THEN v ELSE u
  IN  /\ val' = [u \in Var |-> val[other(u)]]
      /\ owner' = {u \in Var : other(u) \in owner}
      /\ UNCHANGED pending

\* A call for destination d starts; its result is fixed by today's values.
Call(d) ==
  /\ pending = Nothing
  /\ \/ \E k \in 0 .. MaxArgs : \E a \in [1 .. k -> Var] :
          LET xs == [i \in 1 .. k |-> val[a[i]]]
          IN  /\ \A i \in 1 .. k : Holds(a[i])
              /\ \/ \E f \in BOOLEAN :
                      pending' = [dest |-> d, result |-> FlattenSeq(xs), fails |-> f]
                 \/ \E w \in Var : Holds(w) /\ pending' =
                      [dest |-> d, result |-> Joined(val[w], xs), fails |-> FALSE]
     \/ Holds(d) /\ \E n \in 0 .. MaxTimes :
          pending' = [dest |-> d, result |-> Repeated(val[d], n), fails |-> FALSE]
  /\ UNCHANGED <<val, owner>>

\* The call returns: d owns the result.  A result equal to d's value may
\* also be delivered by leaving d alone.
Return ==
  /\ pending.dest \in Var
  /\ \/ Owns(pending.dest, pending.result)
     \/ pending.result = val[pending.dest] /\ UNCHANGED <<val, owner>>
  /\ pending' = Nothing

\* The call reports failure (str_sprintf): nothing has changed.
Fail ==
  /\ pending.dest \in Var /\ pending.fails
  /\ pending' = Nothing
  /\ UNCHANGED <<val, owner>>

\* From here on the call cannot fail any more.
Commit ==
  /\ pending.dest \in Var /\ pending.fails
  /\ pending' = [pending EXCEPT !.fails = FALSE]
  /\ UNCHANGED <<val, owner>>

\* Memory ran out and the process ends; no string has been touched.
Exit ==
  /\ pending.dest \in Var
  /\ pending' = Exited
  /\ UNCHANGED <<val, owner>>

Next ==
  \/ pending = Nothing /\ \/ \E v \in Var : SetRef(v) \/ TakeBuffer(v)
                          \/ \E v, w \in Var : Take(v, w) \/ Swap(v, w)
  \/ \E d \in Var : Call(d)
  \/ Return
  \/ Fail \/ Commit
  \/ Exit

vars == <<val, owner, pending>>

Spec == Init /\ [][Next]_vars
=============================================================================
