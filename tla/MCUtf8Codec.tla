---------------------------- MODULE MCUtf8Codec ----------------------------
(* A finite instance of Utf8Codec for TLC. *)
EXTENDS Utf8Codec

\* Every first byte; around every boundary of the ranges of the others.
Later == {65, 127, 128, 143, 144, 159, 160, 191, 192, 255}
MCInput ==
  {<<>>} \cup {<<b>> : b \in Byte} \cup {<<b, c>> : b \in 190 .. 255, c \in Byte}
  \cup {<<b, c, d>> : b \in 190 .. 255, c \in Later, d \in {65, 128, 191, 192}}
  \cup {<<b, c, d, e>> : b \in 222 .. 250, c \in Later, d, e \in {127, 128, 191, 192}}

\* Every boundary of the encoder's ranges, and samples in between.
Boundary == {2, 128, 2048, 4096, 55296, 57344, 65536, 262144, 1048576, 1114112}
MCCodePoint ==
  {97 * k : k \in 0 .. 11486} \cup UNION {b - 2 .. b + 2 : b \in Boundary}
  \cup {16777216, 2147483647}
=============================================================================
