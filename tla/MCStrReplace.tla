---------------------------- MODULE MCStrReplace ----------------------------
(* Small instances of StrReplace for TLC. *)
EXTENDS StrReplace

CONSTANTS empty, one, pair, ffd

MCLitText ==
  [l \in Literal |-> CASE l = empty -> <<>> [] l = one -> <<1>>
                       [] l = pair -> <<3, 1>> [] l = ffd -> <<239, 191, 189>>]

\* Blocks are interchangeable.
MCSymmetry == Permutations(Block)

\* Texts of two letters, with every overlap a pattern of up to two can have.
MCText == SeqOf({1, 2}, 4)
MCOtherText == {<<>>, <<1, 1>>}
MCNoText == {<<>>}

\* An ASCII byte, two continuation bytes, and first bytes of sequences of two,
\* three and four bytes; each of the latter two lengths has a first byte that
\* one of the continuation bytes must not follow.
MCBytes == {65, 128, 160, 195, 224, 237, 244}
MCAnyText == SeqOf(MCBytes, 4)
=============================================================================
