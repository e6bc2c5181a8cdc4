-------------------------------- MODULE Utf8 --------------------------------
(***************************************************************************)
(* The UTF-8 decoder and encoder.  A pointer and a length are a sequence   *)
(* of bytes; a codepoint is a number.  Masks and shifts of powers of two   *)
(* are remainders, products and quotients.                                 *)
(***************************************************************************)
EXTENDS Naturals, Sequences, FiniteSetsExt

Byte == 0 .. 255

OK == "STR_UTF8_OK"
ERROR == "STR_UTF8_ERROR"
INCOMPLETE == "STR_UTF8_INCOMPLETE"

----------------------------------------------------------------------------
(* Decoding. *)

Result(status, num_bytes, utf8_len, codepoint) ==
  [status |-> status, num_bytes |-> num_bytes, utf8_len |-> utf8_len, codepoint |-> codepoint]

result_ok(cp, bytes) == Result(OK, bytes, bytes, cp)
result_errorWhole(advance, seq_len) == Result(ERROR, seq_len, seq_len, 0)
result_error(advance, seq_len) == Result(ERROR, advance, seq_len, 0)
result_incomplete(available, seq_len) == Result(INCOMPLETE, available, seq_len, 0)

Info(len, bits, min_cont2, max_cont2) ==
  [len |-> len, bits |-> bits, min_cont2 |-> min_cont2, max_cont2 |-> max_cont2]

\* By the first byte: the length of the sequence (0 = invalid), how many
\* values the first byte's own bits can take (the table's mask + 1), and the
\* range of the second byte.
utf8_infoLoose(b) ==
  CASE b \in 194 .. 223 -> Info(2, 32, 128, 191)
    [] b \in 224 .. 239 -> Info(3, 16, IF b = 224 THEN 160 ELSE 128, 191)
    [] b \in 240 .. 244 -> Info(4, 8, IF b = 240 THEN 144 ELSE 128, 191)
    [] OTHER            -> Info(0, 1, 0, 0)
utf8_info(b) ==
  CASE b \in 194 .. 223                -> Info(2, 32, 128, 191)
    [] b = 224                         -> Info(3, 16, 160, 191)
    [] b \in 225 .. 236 \/ b \in 238 .. 239 -> Info(3, 16, 128, 191)
    [] b = 237                         -> Info(3, 16, 128, 159)
    [] b = 240                         -> Info(4,  8, 144, 191)
    [] b \in 241 .. 243                -> Info(4,  8, 128, 191)
    [] b = 244                         -> Info(4,  8, 128, 143)
    [] OTHER                           -> Info(0,  1,   0,   0)

IsContinuation(b) == b \div 64 = 2

\* cp << 6 | b & 0x3F
Shift6(cp, b) == cp * 64 + (b % 64)

str_decode_utf8_impl(s) ==
  LET info == utf8_info(s[1])
      len  == info.len
      bad  == {i \in 3 .. len : ~IsContinuation(s[i])}
      cp2  == Shift6(s[1] % info.bits, s[2])
      cp3  == Shift6(cp2, s[3])
      cp4  == Shift6(cp3, s[4])
  IN  IF len = 0 THEN result_error(1, 1)
      ELSE IF Len(s) < len THEN result_incomplete(Len(s), len)
      ELSE IF ~IsContinuation(s[2]) \/ s[2] < info.min_cont2 \/ s[2] > info.max_cont2
           THEN result_error(2, len)
      ELSE IF bad # {} THEN result_error(Min(bad), len)
      ELSE result_ok(CASE len = 2 -> cp2 [] len = 3 -> cp3 [] len = 4 -> cp4, len)

str_decode_utf8(s) ==
  IF s = <<>> THEN Result(OK, 0, 0, 0)
  ELSE IF s[1] < 128 THEN result_ok(s[1], 1)
  ELSE str_decode_utf8_impl(s)

----------------------------------------------------------------------------
(* Encoding: the bytes written to p; none for a value that is no codepoint. *)

Continuation(bits) == 128 + (bits % 64)

\* The bytes of a codepoint that takes two, three or four of them.
Bytes2(cp) == <<192 + ((cp \div 64) % 32), Continuation(cp)>>
Bytes3(cp) == <<224 + ((cp \div 4096) % 16), Continuation(cp \div 64), Continuation(cp)>>
Bytes4(cp) ==
  <<240 + ((cp \div 262144) % 8), Continuation(cp \div 4096),
    Continuation(cp \div 64), Continuation(cp)>>

str_encode_codepointNoSurrogateCheck(cp) ==
  CASE cp <= 127                       -> <<cp>>
    [] 128 <= cp /\ cp <= 2047         -> Bytes2(cp)
    [] 2048 <= cp /\ cp <= 65535       -> Bytes3(cp)
    [] 65536 <= cp /\ cp <= 1114111    -> Bytes4(cp)
    [] OTHER                           -> <<>>
str_encode_codepoint(cp) ==
  CASE cp <= 127                       -> <<cp>>
    [] 128 <= cp /\ cp <= 2047         -> Bytes2(cp)
    [] (2048 <= cp /\ cp <= 55295) \/ (57344 <= cp /\ cp <= 65535) -> Bytes3(cp)
    [] 65536 <= cp /\ cp <= 1114111    -> Bytes4(cp)
    [] OTHER                           -> <<>>

----------------------------------------------------------------------------
(* Walking over a string. *)

From(x, i) == SubSeq(x, i, Len(x))

\* The byte at which a sequence broke off starts the next one.
CountStep(r) == IF r.status # ERROR \/ r.num_bytes = 1 THEN r.num_bytes ELSE r.num_bytes - 1

str_count_codepoints(x) ==
  LET count[i \in 1 .. Len(x) + 1] ==
        LET r == str_decode_utf8(From(x, i))
        IN  IF r.num_bytes > 0 THEN 1 + count[i + CountStep(r)] ELSE 0
  IN  count[1]

----------------------------------------------------------------------------
(* The reference: the encodings of the Unicode scalar values, by value.     *)

IsScalar(c) == c \in Nat /\ (c <= 55295 \/ (57344 <= c /\ c <= 1114111))

\* The value an encoding of Len(s) bytes stands for, the least value that
\* needs that many bytes, and the range of a first byte for that length.
ScalarOf(s) ==
  CASE Len(s) = 1 -> s[1]
    [] Len(s) = 2 -> (s[1] - 192) * 64 + (s[2] - 128)
    [] Len(s) = 3 -> (s[1] - 224) * 4096 + (s[2] - 128) * 64 + (s[3] - 128)
    [] Len(s) = 4 -> (s[1] - 240) * 262144 + (s[2] - 128) * 4096 + (s[3] - 128) * 64 + (s[4] - 128)
Least(len) == <<0, 128, 2048, 65536>>[len]
Leads(len) == <<0 .. 127, 192 .. 223, 224 .. 239, 240 .. 247>>[len]

IsEncoding(s) ==
  /\ Len(s) \in 1 .. 4
  /\ s[1] \in Leads(Len(s))
  /\ \A i \in 2 .. Len(s) : s[i] \in 128 .. 191
  /\ ScalarOf(s) >= Least(Len(s)) /\ IsScalar(ScalarOf(s))

\* x is a sequence of encodings.
IsValid(x) ==
  LET valid[i \in 1 .. Len(x) + 1] ==
        i > Len(x) \/ \E j \in i .. Len(x) : IsEncoding(SubSeq(x, i, j)) /\ valid[j + 1]
  IN  valid[1]

\* s is the beginning of an encoding, of more bytes than s has.  A byte that
\* can follow s at all can be one of these.
IsBeginning(s) ==
  \E n \in 1 .. 3 : \E t \in [1 .. n -> {128, 144, 160}] : IsEncoding(s \o t)
=============================================================================
