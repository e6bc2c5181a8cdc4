----------------------------- MODULE MCStrMem -----------------------------
(* Small instances of StrMem for TLC. *)
EXTENDS StrMem

CONSTANTS a, ab, empty

\* The bytes of the literals "a", "ab" and "".
MCLitText ==
  [l \in Literal |-> CASE l = a -> <<1>> [] l = ab -> <<1, 2>> [] l = empty -> <<>>]

\* Blocks are interchangeable.
MCSymmetry == Permutations(Block)

\* Programs that trust README.md:69-70, where str_assign is the generic and
\* always safe assignment, and hand it any reference.
CarelessNext ==
  Next \/ \E v, w \in Var, i, j \in 0 .. MaxLen : AssignAnySlice(v, w, i, j)
CarelessSpec == Init /\ [][CarelessNext]_vars

\* README.md:80-81: functions that take a pointer to a destination modify it
\* at the very end, which avoids self-assignment issues.  A variable that
\* owns its string is hence never left with a dangling pointer by an
\* assignment to it.
AssignmentSafe == [][\A v \in Var : obj[v].own => obj'[v].at # GONE]_vars
=============================================================================
