----------------------------- MODULE MCStrSplit -----------------------------
(* A small instance of StrSplit for TLC. *)
EXTENDS StrSplit

MCPattern == {<<>>, <<65>>, <<200>>, <<65, 65>>, <<65, 200>>, <<200, 65, 200>>}
=============================================================================
