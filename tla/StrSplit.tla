------------------------------ MODULE StrSplit ------------------------------
(***************************************************************************)
(* A program that takes a text apart with the span functions, the prefix   *)
(* and suffix tests and str_ref_slice, the way such loops are written:     *)
(* each round looks at the rest of the text and cuts something off it.     *)
(* The slices are words and addresses (StrWord).                           *)
(***************************************************************************)
EXTENDS StrWord, StrSearch, StrText

CONSTANTS
  MaxLen,    \* bound: the length of the text
  Letter,    \* bound: the bytes in it
  Pattern    \* bound: the separators

ASSUME SplitAssumption ==
  /\ MaxLen \in Nat /\ 2 * MaxLen < SIZE_MAX
  /\ Letter \subseteq 0 .. 255 /\ Pattern \subseteq Seq(Nat)

VARIABLES
  mem,       \* the text in memory
  sep,       \* a separator, or a charset
  task,      \* which of the loops it is
  rest,      \* the object that refers to what is left of the text
  tokens,    \* the objects cut off
  done

vars == <<mem, sep, task, rest, tokens, done>>

\* What memory holds outside the text is not known to be anything.
Text(s) ==
  SubSeq(mem \o [k \in 1 .. SIZE_MAX |-> 0], s.ptr, s.ptr + str_len(s) - 1)

\* The text is a reference or an owner.
Init ==
  /\ mem \in UNION {[1 .. n -> Letter] : n \in 0 .. MaxLen}
  /\ sep \in Pattern
  /\ task \in {"split", "words", "strip"} /\ (task = "words" \/ sep # <<>>)
  /\ rest \in {str_ref_mem(1, Len(mem)), str_acquire_mem(1, Len(mem))}
  /\ tokens = <<>> /\ done = FALSE

Cut(token) == tokens' = Append(tokens, token)

\* What stands between two separators.
Split ==
  /\ ~done /\ task = "split"
  /\ \E n \in {str_span_until_substring(Text(rest), sep)} :
         /\ Cut(str_ref_slice(rest, 0, n))
         /\ IF n = str_len(rest)
            THEN done' = TRUE /\ UNCHANGED rest
            ELSE rest' = str_ref_slice(rest, n + Len(sep), SIZE_MAX) /\ UNCHANGED done
  /\ UNCHANGED <<mem, sep, task>>

\* The words between runs of separating characters.
Words ==
  /\ ~done /\ task = "words"
  /\ \E r \in {str_ref_slice(rest, str_span_chars(Text(rest), sep), SIZE_MAX)} :
     \E n \in {str_span_nonmatching_chars(Text(r), sep)} :
       IF str_len(r) = 0
       THEN done' = TRUE /\ UNCHANGED <<rest, tokens>>
       ELSE /\ Cut(str_ref_slice(r, 0, n)) /\ rest' = str_ref_slice(r, n, SIZE_MAX)
            /\ UNCHANGED done
  /\ UNCHANGED <<mem, sep, task>>

\* Everything that repeats sep at the front, then at the back.
Strip ==
  /\ ~done /\ task = "strip"
  /\ IF str_has_prefix(Text(rest), sep)
     THEN rest' = str_ref_slice(rest, Len(sep), SIZE_MAX) /\ UNCHANGED done
     ELSE IF str_has_suffix(Text(rest), sep)
     THEN rest' = str_ref_slice(rest, 0, str_len(rest) - Len(sep)) /\ UNCHANGED done
     ELSE done' = TRUE /\ rest' = str_ref(rest)
  /\ UNCHANGED <<mem, sep, task, tokens>>

Finished == done /\ UNCHANGED vars

Next == Split \/ Words \/ Strip \/ Finished

Spec == Init /\ [][Next]_vars /\ WF_vars(Next)

----------------------------------------------------------------------------
(* Properties. *)

Inside(s) ==
  /\ s.ptr \in Nat /\ s.prop \in size_t
  /\ s = str_null \/ (s.ptr >= 1 /\ str_len(s) >= 1 /\ s.ptr + str_len(s) <= Len(mem) + 1)

\* Whatever is cut off, and with SIZE_MAX for "the rest of it", every slice
\* lies inside the text, and never owns it.
TypeOK ==
  /\ Inside(rest) /\ done \in BOOLEAN
  /\ \A k \in DOMAIN tokens : Inside(tokens[k]) /\ ~str_is_owner(tokens[k])

Texts == [k \in DOMAIN tokens |-> Text(tokens[k])]

\* Splitting loses nothing: the tokens around the separator are the text
\* again; and each of them ends at the first separator behind its beginning.
SplitRejoins ==
  done /\ task = "split" =>
    /\ Joined(sep, Texts) = mem
    /\ \A k \in DOMAIN tokens : \A q \in 0 .. Len(Texts[k]) - 1 :
         ~HasAt(IF k < Len(tokens) THEN Texts[k] \o sep ELSE Texts[k], q, sep)

\* The words are the longest runs of other characters, all of them, in order.
WordsFound ==
  done /\ task = "words" =>
    LET in(j) == j \in DOMAIN mem /\ mem[j] \notin ToSet(sep)
        run(i, n) == (\A j \in i .. i + n - 1 : in(j)) /\ ~in(i - 1) /\ ~in(i + n)
        is(k, i, n) == tokens[k].ptr = i /\ str_len(tokens[k]) = n
    IN  /\ \A i \in DOMAIN mem, n \in 1 .. Len(mem) :
             run(i, n) <=> \E k \in DOMAIN tokens : is(k, i, n)
        /\ \A j, k \in DOMAIN tokens : j < k => tokens[j].ptr < tokens[k].ptr

\* Only whole copies of sep are stripped, and none is left at either end.
Stripped ==
  done /\ task = "strip" =>
    LET x == Text(rest)
        n == (Len(mem) - Len(x)) \div Len(sep)
    IN  /\ \E i \in 0 .. n : Repeated(sep, i) \o x \o Repeated(sep, n - i) = mem
        /\ Len(x) >= Len(sep) =>
             sep \notin {SubSeq(x, 1, Len(sep)), SubSeq(x, Len(x) - Len(sep) + 1, Len(x))}

\* Every round cuts something off, so that the loops end.
LoopsEnd == <>done
=============================================================================
