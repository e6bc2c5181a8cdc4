----------------------------- MODULE MCWriteFd -----------------------------
(* A small instance of WriteFd for TLC. *)
EXTENDS WriteFd

CONSTANT EBADF
=============================================================================
