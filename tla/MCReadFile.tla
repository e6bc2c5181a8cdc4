----------------------------- MODULE MCReadFile -----------------------------
(* A small instance of ReadFile for TLC. *)
EXTENDS ReadFile, TLC

CONSTANTS b1, b2, b3, lit, EIO, EBADF

MCLitText == lit :> <<9>>
Blocks == Permutations(Block)
=============================================================================
