----------------------------- MODULE StrSearch -----------------------------
(***************************************************************************)
(* The loops and library calls that search a text, and the functions made  *)
(* of one of them.  A text is a sequence of bytes; a position in it is the *)
(* number of bytes in front.                                               *)
(***************************************************************************)
EXTENDS Naturals, Sequences, SequencesExt

HasAt(x, i, y) == i + Len(y) <= Len(x) /\ SubSeq(x, i + 1, i + Len(y)) = y

\* The first occurrence of patt from position i on, or the end.
memmem(x, i, patt) == Min({Len(x)} \cup {q \in i .. Len(x) : HasAt(x, q, patt)})

\* The bitset of a charset is the set of its bytes.
bitset_init(charset) == ToSet(charset)

\* The first byte from position i on that is in the set, and that is not.
bitset_search(x, set, i) == Min({Len(x)} \cup {q \in i .. Len(x) - 1 : x[q + 1] \in set})
bitset_span(x, set, i)   == Min({Len(x)} \cup {q \in i .. Len(x) - 1 : x[q + 1] \notin set})

str_span_charsOne(s, charset) ==
  IF s = <<>> \/ charset = <<>> THEN 0 ELSE IF s[1] \in bitset_init(charset) THEN 1 ELSE 0
str_span_chars(s, charset) ==
  IF s = <<>> \/ charset = <<>> THEN 0 ELSE bitset_span(s, bitset_init(charset), 0)

str_span_nonmatching_chars(s, charset) ==
  IF s = <<>> THEN 0
  ELSE IF charset = <<>> THEN Len(s)
  ELSE bitset_search(s, bitset_init(charset), 0)

str_span_until_substringLast(s, substr) ==
  Max({0} \cup {q \in 0 .. Len(s) : HasAt(s, q, substr)})
str_span_until_substring(s, substr) == IF s = <<>> THEN 0 ELSE memmem(s, 0, substr)

\* memcmp is asked about no more bytes than there are.
str_has_prefixUnchecked(s, prefix) == HasAt(s \o prefix, 0, prefix)
str_has_prefix(s, prefix) == prefix = <<>> \/ HasAt(s, 0, prefix)

str_has_suffixFront(s, suffix) == suffix = <<>> \/ HasAt(s, 0, suffix)
str_has_suffix(s, suffix) ==
  suffix = <<>> \/ (Len(s) >= Len(suffix) /\ HasAt(s, Len(s) - Len(suffix), suffix))
=============================================================================
