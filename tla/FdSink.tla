------------------------------- MODULE FdSink -------------------------------
(***************************************************************************)
(* What str_concat_array_to_fd promises: the bytes of the strings reach    *)
(* the file in order, none twice and none skipped; the call returns 0 once *)
(* all of them are written, or an error with the descriptor closed         *)
(* (api.md:283-286), and then what was written is a prefix.                *)
(*                                                                         *)
(* A byte of the strings is represented by its position among all of them. *)
(***************************************************************************)
EXTENDS Naturals, Sequences

CONSTANTS
  Errno,     \* the error codes a call can return
  Running    \* the call has not returned yet

VARIABLES
  total,     \* the number of bytes to write
  out,       \* the bytes in the file
  open,      \* whether the descriptor is open
  ret        \* the call's return value

vars == <<total, out, open, ret>>

Init == total \in Nat /\ out = <<>> /\ open = TRUE /\ ret = Running

Put(m) ==
  /\ ret = Running
  /\ Len(out) + m <= total
  /\ out' = out \o [j \in 1 .. m |-> Len(out) + j]
  /\ UNCHANGED <<total, open, ret>>

Succeed ==
  /\ ret = Running /\ Len(out) = total
  /\ ret' = 0
  /\ UNCHANGED <<total, out, open>>

Fail(e) ==
  /\ ret = Running
  /\ ret' = e /\ open' = FALSE
  /\ UNCHANGED <<total, out>>

Next == (\E m \in 1 .. total : Put(m)) \/ Succeed \/ (\E e \in Errno : Fail(e))

Spec == Init /\ [][Next]_vars
=============================================================================
