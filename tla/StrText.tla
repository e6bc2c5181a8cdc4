------------------------------ MODULE StrText ------------------------------
(***************************************************************************)
(* The string values the library's functions are meant to compute, stated  *)
(* on sequences of bytes: the reference that the specifications of those   *)
(* functions are checked against.                                          *)
(***************************************************************************)
EXTENDS Naturals, Sequences, SequencesExt

\* The strings xs, one after the other, with sep between them.
Joined(sep, xs) ==
  FlattenSeq([k \in DOMAIN xs |-> IF k = 1 THEN xs[k] ELSE sep \o xs[k]])

\* x, n times.
Repeated(x, n) == FlattenSeq([k \in 1 .. n |-> x])

\* The substrings of x.
Slices(x) == {SubSeq(x, i + 1, j) : i \in 0 .. Len(x), j \in 0 .. Len(x)}
=============================================================================
