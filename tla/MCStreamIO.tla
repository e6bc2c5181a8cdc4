----------------------------- MODULE MCStreamIO -----------------------------
(* A small instance of StreamIO for TLC. *)
EXTENDS StreamIO, TLC

CONSTANTS b1, b2, b3, EIO, ENOSPC

NoLiteral == [a \in {} |-> <<>>]
Blocks == Permutations(Block)
=============================================================================
