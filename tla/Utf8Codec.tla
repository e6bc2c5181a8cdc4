----------------------------- MODULE Utf8Codec -----------------------------
(***************************************************************************)
(* A caller of the UTF-8 functions: it decodes the start of some memory,   *)
(* or encodes a codepoint and decodes what it got.                         *)
(***************************************************************************)
EXTENDS Utf8

CONSTANTS
  Input,      \* the byte sequences to decode
  CodePoint,  \* the values to encode
  None        \* nothing yet

ASSUME CodecAssumption ==
  /\ Input \subseteq Seq(Byte)
  /\ CodePoint \subseteq Nat
  /\ None \notin Seq(Byte)

VARIABLES
  cp,         \* the value to encode, if any
  text,       \* the memory to decode
  got         \* what the decoder returned

codecVars == <<cp, text, got>>

CodecInit ==
  /\ got = None
  /\ \/ cp = None /\ text \in Input
     \/ cp \in CodePoint /\ text = None

Encode ==
  /\ text = None
  /\ text' = str_encode_codepoint(cp)
  /\ UNCHANGED <<cp, got>>

Decode ==
  /\ text # None /\ got = None
  /\ got' = str_decode_utf8(text)
  /\ UNCHANGED <<cp, text>>

Done == got # None /\ UNCHANGED codecVars

CodecNext == Encode \/ Decode \/ Done

CodecSpec == CodecInit /\ [][CodecNext]_codecVars

----------------------------------------------------------------------------
(* Properties. *)

Decoded == got # None

\* The table of first bytes and second-byte ranges accepts exactly the
\* encodings of the scalar values: no overlong form, no surrogate, nothing
\* above U+10FFFF; and the decoded value is the one they stand for.
DecodesEncodings ==
  Decoded /\ text # <<>> =>
    /\ got.status = OK <=> \E n \in 1 .. Len(text) : IsEncoding(SubSeq(text, 1, n))
    /\ got.status = OK =>
         LET e == SubSeq(text, 1, got.num_bytes)
         IN  IsEncoding(e) /\ got.codepoint = ScalarOf(e) /\ got.utf8_len = Len(e)

\* An error is reported at the first byte that cannot go on: what is in front
\* of it begins some encoding, and with that byte it does not any more.  (The
\* callers resume at that byte.)
ErrorAtFirstBadByte ==
  Decoded /\ got.status = ERROR =>
    /\ got.num_bytes > 1 => IsBeginning(SubSeq(text, 1, got.num_bytes - 1))
    /\ LET e == SubSeq(text, 1, got.num_bytes) IN ~IsBeginning(e) /\ ~IsEncoding(e)

\* Encoding a scalar value and decoding it gives the value back; nothing else
\* is encoded.
RoundTrip ==
  cp # None /\ Decoded =>
    IF IsScalar(cp) THEN got = result_ok(cp, Len(text)) /\ Len(text) \in 1 .. 4 ELSE text = <<>>
=============================================================================
