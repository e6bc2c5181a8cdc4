----------------------------- MODULE StrReplace -----------------------------
(***************************************************************************)
(* The functions that edit a string piece by piece with the builder:       *)
(* str_replace_substring, str_replace_chars, str_replace_char_spans and    *)
(* str_to_valid_utf8.  Each walks over the destination's bytes, collects   *)
(* references to what it keeps and to the replacement, and assigns the     *)
(* concatenation to the destination when the walk is over.  The arguments  *)
(* may be the destination itself, slices of it, or owners of memory.       *)
(*                                                                         *)
(* An offset into the destination stands for a pointer into it.            *)
(***************************************************************************)
EXTENDS StrBuilder, StrSearch, StrText, Utf8

CONSTANTS
  Fn,        \* the functions the program calls
  DestText,  \* bound: the texts the destination can hold
  OtherText, \* bound: the texts the program's other variable can hold
  UFFFD      \* the literal "\xEF\xBF\xBD" of str_to_valid_utf8

ASSUME ReplaceAssumption ==
  /\ Fn \subseteq {"substring", "chars", "spans", "utf8"}
  /\ DestText \cup OtherText \subseteq Seq(Byte)
  /\ UFFFD \in Literal /\ LitText[UFFFD] = <<239, 191, 189>>

VARIABLES
  obj,      \* the program's variables: the destination and another one
  call,     \* the arguments and the locals of the call
  promise   \* history: the destination's text and the result expected

vars == <<live, heap, buff, count, obj, call, promise>>

NoCall == [fn |-> "none", pc |-> "idle", patt |-> str_null, repl |-> str_null,
           s |-> 0, p |-> 0, nrep |-> 0]

\* The other variable owns its text; the destination owns its own, or is a
\* reference to the other's.
Init ==
  /\ \E x \in DestText, y \in OtherText, b, c \in Block :
       LET other == str_acquire_mem(c, Len(y))
           mine  == str_acquire_mem(b, Len(x))
       IN  /\ b # c
           /\ \E d \in {mine, str_ref(other)} :
                /\ obj = [dest |-> d, other |-> other]
                /\ live = Freed(d) \cup Freed(other)
                /\ heap = [a \in Block |-> IF a \notin live THEN <<>>
                             ELSE Append(IF a = b THEN x ELSE y, 0)]
  /\ buff = [k \in Slot |-> str_null] /\ count = 0
  /\ call = NoCall
  /\ promise = [was |-> <<>>, text |-> <<>>, nrep |-> 0]

----------------------------------------------------------------------------
(* What the functions should compute: the result and the replacements.      *)

Edited(x, replaced, dropped, repl) ==
  [text |-> FlattenSeq([k \in DOMAIN x |->
     IF k \in replaced THEN repl ELSE IF k \in dropped THEN <<>> ELSE <<x[k]>>]),
   nrep |-> Cardinality(replaced)]

\* Every byte of the set is replaced; or only the first one of each run of
\* them, the others being dropped.
EditChars(x, set, repl) == Edited(x, {k \in DOMAIN x : x[k] \in set}, {}, repl)

EditSpans(x, set, repl) ==
  LET in == {k \in DOMAIN x : x[k] \in set}
  IN  Edited(x, {k \in in : k - 1 \notin in}, in, repl)

\* The occurrences that are replaced are those that overlap no earlier
\* occurrence that is replaced.
EditSubstring(x, patt, repl) ==
  LET at(k)    == SubSeq(x, k, k + Len(patt) - 1)
      found    == {k \in 1 .. Len(x) - Len(patt) + 1 : at(k) = patt}
      after(k) == k + 1 .. k + Len(patt) - 1
      chosen   == CHOOSE m \in SUBSET found :
                    \A k \in found : k \in m <=> \A j \in m : k \notin after(j)
  IN  Edited(x, chosen, UNION {after(k) : k \in chosen}, repl)

\* str_to_valid_utf8 promises no particular text (see Repaired).
Expected(fn, x, patt, repl) ==
  CASE fn = "utf8" \/ x = <<>> \/ patt = <<>> -> [text |-> x, nrep |-> 0]
    [] OTHER -> CASE fn = "substring" -> EditSubstring(x, patt, repl)
                  [] fn = "chars"     -> EditChars(x, ToSet(patt), repl)
                  [] fn = "spans"     -> EditSpans(x, ToSet(patt), repl)

----------------------------------------------------------------------------
(* The call starts. *)

\* "Nothing to do": the call returns 0 at once.
NothingToDo(fn, patt) == str_is_empty(obj.dest) \/ (fn # "utf8" /\ str_is_empty(patt))

Enter(fn, patt, repl) ==
  /\ call.pc = "idle" /\ fn \in Fn
  /\ call' = [NoCall EXCEPT !.fn = fn, !.patt = patt, !.repl = repl,
                !.pc = IF NothingToDo(fn, patt) THEN "done" ELSE "search"]
  /\ LET e == Expected(fn, Text(obj.dest), Text(patt), Text(repl))
     IN  promise' = [was |-> Text(obj.dest), text |-> e.text, nrep |-> e.nrep]
  /\ sb_init
  /\ UNCHANGED <<live, heap, obj>>

str_replace_substring(patt, repl)     == Enter("substring", patt, repl)
str_replace_chars(charset, repl)      == Enter("chars", charset, repl)
str_replace_char_spans(charset, repl) == Enter("spans", charset, repl)
str_to_valid_utf8                     == Enter("utf8", str_null, str_lit(UFFFD))

----------------------------------------------------------------------------
(* The loop. *)

Input == Text(obj.dest)
End   == obj.dest.len
Slice(i, j) == str_ref_mem(obj.dest.at, obj.dest.off + i, j - i)

\* Where the bytes that are replaced begin, searched from offset i on.
SearchFrom(i) ==
  IF call.fn = "substring" THEN memmem(Input, i, Text(call.patt))
                           ELSE bitset_search(Input, bitset_init(Text(call.patt)), i)

Search ==
  /\ call.pc = "search" /\ call.fn # "utf8"
  /\ LET p == SearchFrom(call.s)
     IN  call' = [call EXCEPT !.p = p, !.pc = IF p < End THEN "slice" ELSE "tail"]
  /\ UNCHANGED <<live, heap, buff, count, obj, promise>>

\* str_to_valid_utf8 decodes until it finds something invalid.
InLoopPastEnd(p) == p <= End
InLoop(p) == p < End

Decode ==
  /\ call.pc = "search" /\ call.fn = "utf8"
  /\ LET r == str_decode_utf8(From(Input, call.p + 1))
     IN  call' = IF ~InLoop(call.p) THEN [call EXCEPT !.pc = "tail"]
                 ELSE IF r.status = OK THEN [call EXCEPT !.p = @ + r.num_bytes]
                 ELSE [call EXCEPT !.pc = "slice"]
  /\ UNCHANGED <<live, heap, buff, count, obj, promise>>

\* The byte at which a sequence broke off is looked at again.
ReplaceStepWhole(r) == r.num_bytes
ReplaceStep(r) ==
  IF r.status = INCOMPLETE \/ r.num_bytes = 1 THEN r.num_bytes ELSE r.num_bytes - 1

\* Where the bytes end that are replaced from offset p on.
ReplacedUpToSameByte(p) ==
  CASE call.fn = "substring" -> p + 1
    [] call.fn = "chars"     -> p + 1
    [] call.fn = "spans"     -> bitset_span(Input, bitset_init(Text(call.patt)), p + 1)
    [] call.fn = "utf8"      -> p + ReplaceStep(str_decode_utf8(From(Input, p + 1)))
ReplacedUpTo(p) ==
  CASE call.fn = "substring" -> p + call.patt.len
    [] call.fn = "chars"     -> p + 1
    [] call.fn = "spans"     -> bitset_span(Input, bitset_init(Text(call.patt)), p + 1)
    [] call.fn = "utf8"      -> p + ReplaceStep(str_decode_utf8(From(Input, p + 1)))

AppendSlice ==
  /\ call.pc = "slice"
  /\ sb_append(Slice(call.s, call.p))
  /\ call' = [call EXCEPT !.pc = "repl"]
  /\ UNCHANGED <<obj, promise>>

AppendRepl ==
  /\ call.pc = "repl"
  /\ sb_append(call.repl)
  /\ call' = [call EXCEPT !.nrep = @ + 1, !.s = ReplacedUpTo(call.p),
                          !.p = ReplacedUpTo(call.p), !.pc = "search"]
  /\ UNCHANGED <<obj, promise>>

AppendTail ==
  /\ call.pc = "tail"
  /\ sb_append(Slice(call.s, End))
  /\ call' = [call EXCEPT !.pc = IF call.nrep > 0 THEN "join" ELSE "done"]
  /\ UNCHANGED <<obj, promise>>

----------------------------------------------------------------------------
(* The call ends: assign_sb(dest, &sb). *)

Join ==
  /\ call.pc = "join"
  /\ sb_join
  /\ call' = [call EXCEPT !.pc = "assign"]
  /\ UNCHANGED <<obj, promise>>

\* str_assign(dest, buff[0]); the builder goes out of scope.
assign_sb ==
  /\ call.pc = "assign"
  /\ live' = live \ Freed(obj.dest)
  /\ heap' = Scrub(heap, Freed(obj.dest))
  /\ obj' = [obj EXCEPT !.dest = buff[0]]
  /\ call' = [call EXCEPT !.pc = "done"]
  /\ sb_init
  /\ UNCHANGED promise

\* malloc returned NULL: the process exits.
mem_failure ==
  /\ \/ call.pc = "slice" /\ Flushes(Slice(call.s, call.p))
     \/ call.pc = "repl" /\ Flushes(call.repl)
     \/ call.pc = "tail" /\ Flushes(Slice(call.s, End))
     \/ call.pc = "join" /\ count > 0
  /\ call' = [call EXCEPT !.pc = "exited"]
  /\ UNCHANGED <<live, heap, buff, count, obj, promise>>

----------------------------------------------------------------------------
\* What the program can pass: its variables as they are, slices of them, and
\* literals.
SlicesOf(s) == {str_ref_slice(s, i, j) : i \in 0 .. s.len, j \in 0 .. s.len}
Arguments ==
  {obj.dest, obj.other} \cup {str_lit(a) : a \in Literal \ {UFFFD}}
  \cup SlicesOf(obj.dest) \cup SlicesOf(obj.other)

CallStep ==
  \/ \E patt, repl \in Arguments :
       \/ str_replace_substring(patt, repl)
       \/ str_replace_chars(patt, repl)
       \/ str_replace_char_spans(patt, repl)
  \/ str_to_valid_utf8

LibraryStep ==
  \/ Search \/ Decode
  \/ AppendSlice \/ AppendRepl \/ AppendTail
  \/ Join \/ assign_sb
  \/ mem_failure

\* The function has returned, or the process has exited.
Ended == call.pc \in {"done", "exited"} /\ UNCHANGED vars

Next == CallStep \/ LibraryStep \/ Ended

Spec == Init /\ [][Next]_vars

\* The thread inside the call keeps running.
FairSpec == Spec /\ WF_vars(LibraryStep)

----------------------------------------------------------------------------
(* Properties. *)

Object == [at : Block \cup Literal \cup {NULL}, off : Nat, len : Nat, own : BOOLEAN]

\* Between two steps the array has room for one more element, and of its
\* elements only the first can be an owner.
TypeOK ==
  /\ live \subseteq Block /\ heap \in [Block -> Seq(Nat)]
  /\ obj \in [{"dest", "other"} -> Object]
  /\ count \in Slot /\ buff \in [Slot -> Object]
  /\ \A k \in Slot \ {0} : ~buff[k].own
  /\ call \in [fn : Fn \cup {"none"}, patt : Object, repl : Object,
               s : Nat, p : Nat, nrep : Nat,
               pc : {"idle", "search", "slice", "repl", "tail", "join", "assign",
                     "done", "exited"}]

InCall == call.pc \notin {"idle", "done", "exited"}

\* The owners: the program's variables, and the builder while it exists.
\* Each has a block of its own, and together they have all the blocks: what
\* the builder flushes in the middle of a call is neither lost nor freed
\* twice, and a replacement passed as an owner stays the program's.
Owners == {o \in {obj.dest, obj.other, buff[0]} : o.own}
OneOwnerPerBlock ==
  /\ live = {o.at : o \in Owners}
  /\ obj.dest.own /\ obj.other.own => obj.dest.at # obj.other.at
  /\ buff[0].own => buff[0].at \notin {o.at : o \in {obj.dest, obj.other}}

\* Everything a call will still read is alive: the pieces collected so far,
\* the arguments, also when they are slices of the destination, the
\* destination, and the program's other variable after the call.
PiecesAlive ==
  /\ Readable(obj.dest) /\ Readable(obj.other)
  /\ InCall => /\ \A k \in 0 .. count - 1 : Readable(buff[k])
               /\ Readable(call.patt) /\ Readable(call.repl)

\* All or nothing: until the call returns, and if it never does because the
\* memory runs out, the destination has the text it had; then, if the call
\* replaces, it has the edited text, in memory of its own if anything was
\* replaced, with a NUL behind it; and the number of replacements is returned.
Delivered(text, nrep) ==
  /\ call.nrep = nrep
  /\ Text(obj.dest) = text
  /\ nrep > 0 /\ text # <<>> =>
       obj.dest.own /\ heap[obj.dest.at] = Append(text, 0)

Replaced ==
  /\ InCall \/ call.pc = "exited" => Text(obj.dest) = promise.was
  /\ call.pc = "done" /\ call.fn # "utf8" => Delivered(promise.text, promise.nrep)

\* str_to_valid_utf8 makes any bytes valid UTF-8, leaves valid UTF-8 alone,
\* and keeps the number of codepoints that str_count_codepoints reports.
Repaired ==
  /\ InCall \/ call.pc = "exited" => Text(obj.dest) = promise.was
  /\ call.pc = "done" /\ call.fn = "utf8" =>
       /\ IsValid(Text(obj.dest))
       /\ str_count_codepoints(Text(obj.dest)) = str_count_codepoints(promise.was)
       /\ IsValid(promise.was) <=> call.nrep = 0
       /\ IsValid(promise.was) => Text(obj.dest) = promise.was

\* Every call comes to an end.
CallReturns == InCall ~> ~InCall

\* api.md:260-261: only the invalid sequences are replaced.  An ASCII byte
\* belongs to none of them (the tests: "\xE0\x7F\x80" gives U+FFFD 7F U+FFFD,
\* "E0 subpart, 7F valid"), so as many of them come out as went in.
Ascii(x) == SelectSeq(x, LAMBDA b : b < 128)
AsciiKept == call.pc = "done" => Ascii(Text(obj.dest)) = Ascii(promise.was)
=============================================================================
