------------------------------ MODULE StrHeap ------------------------------
(***************************************************************************)
(* The `str' object of str.h and the C heap its buffers live in.           *)
(*                                                                         *)
(* A str object is a pointer and a `prop' word that packs a length and the *)
(* owner bit (str.h:46-49).  Here it is a record: `at' is the memory the   *)
(* pointer points into (a heap block, a literal, or NULL), `off' the       *)
(* pointer's offset in it, `len' and `own' the two parts of prop.          *)
(*                                                                         *)
(* Memory is a sequence of bytes per block.  When a block is freed, every  *)
(* reference into it becomes `str_dangling', so that a later malloc that   *)
(* returns the same address cannot make a dead reference look alive again. *)
(***************************************************************************)
EXTENDS Naturals, Sequences

CONSTANTS
  Block,    \* addresses malloc can return
  Literal,  \* C string literals and other memory that is never freed
  LitText,  \* LitText[a]: the bytes of literal a
  NULL,     \* the null pointer
  GONE      \* where a reference points whose block has been freed

ASSUME HeapAssumption ==
  /\ Block \cap (Literal \cup {NULL, GONE}) = {}
  /\ Literal \cap {NULL, GONE} = {}
  /\ NULL # GONE
  /\ LitText \in [Literal -> Seq(Nat)]

VARIABLES
  live,     \* the blocks that are allocated
  heap      \* heap[b]: the bytes written into block b so far

----------------------------------------------------------------------------
(* Constructors: they build an object and touch no memory (api.md:78-82). *)

str_null == [at |-> NULL, off |-> 0, len |-> 0, own |-> FALSE]

str_dangling == [at |-> GONE, off |-> 0, len |-> 1, own |-> FALSE]

str_lit(a) == [at |-> a, off |-> 0, len |-> Len(LitText[a]), own |-> FALSE]

str_ref(s) == [s EXCEPT !.own = FALSE]

str_ref_mem(a, o, n) ==
  IF a # NULL /\ n > 0 THEN [at |-> a, off |-> o, len |-> n, own |-> FALSE]
                       ELSE str_null

\* Indices i and j are any size_t: j may lie past the end, or before i.
str_ref_slice(s, i, j) ==
  LET n == IF j <= i \/ i >= s.len THEN 0
           ELSE IF j > s.len THEN s.len - i ELSE j - i
  IN  str_ref_mem(s.at, s.off + i, n)

\* The object for a malloc'ed block; an empty one is no owner, its block is
\* freed by the caller of this operator (see Surplus).
OwnerNoTest(b, n) == [at |-> b, off |-> 0, len |-> n, own |-> TRUE]
str_acquire_mem(b, n) ==
  IF n > 0 THEN [at |-> b, off |-> 0, len |-> n, own |-> TRUE] ELSE str_null

str_is_empty(s) == s.len = 0

----------------------------------------------------------------------------
(* Reading memory. *)

Bytes(a) == IF a \in Block THEN heap[a] ELSE LitText[a]

Text(s) == IF s.len = 0 THEN <<>> ELSE SubSeq(Bytes(s.at), s.off + 1, s.off + s.len)

\* The bytes of s may be read: its memory is alive and s lies inside it.
Readable(s) ==
  s.len = 0 \/ /\ s.at \in live \cup Literal
               /\ s.off + s.len <= Len(Bytes(s.at))

----------------------------------------------------------------------------
(* Freeing memory. *)

\* The blocks str_free(s) hands to free().
Freed(s) == IF s.own THEN {s.at} ELSE {}

\* The block str_acquire_mem(b, n) frees itself, because n is 0.
Surplus(b, n) == {b} \ Freed(str_acquire_mem(b, n))

\* What is left of object s after the blocks in B are freed.
Forget(s, B) == IF s.at \in B THEN str_dangling ELSE s

\* The heap contents h once the blocks in B are freed.
Scrub(h, B) == [b \in Block |-> IF b \in B THEN <<>> ELSE h[b]]
=============================================================================
