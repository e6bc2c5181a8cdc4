----------------------------- MODULE MCStrOrder -----------------------------
(* A small instance of StrOrder for TLC. *)
EXTENDS StrOrder

\* Nothing, a string and one that it begins, and one that comes last.
MCValue == {<<>>, <<1>>, <<1, 1>>, <<2>>}
MCPred == {<<>>, <<1, 1>>}
=============================================================================
