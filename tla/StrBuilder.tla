----------------------------- MODULE StrBuilder -----------------------------
(***************************************************************************)
(* The string builder of str_impl.h: a small array of references to the    *)
(* pieces of a string.  When the array is full its pieces are concatenated *)
(* into one heap block, which the first element then owns and the later    *)
(* pieces are put behind.  The builder is passive: a specification that    *)
(* uses it takes its operators into its actions.                           *)
(***************************************************************************)
EXTENDS StrHeap, SequencesExt

CONSTANT SB_SIZE  \* the elements of the array

ASSUME BuilderAssumption == SB_SIZE \in Nat \ {0, 1}

VARIABLES
  buff,     \* the array; elements from count on are never read
  count     \* the elements in use

Slot == 0 .. SB_SIZE - 1

sb_init ==
  /\ count' = 0
  /\ buff' = [k \in Slot |-> str_null]

\* str_concat_array(bs, bs, n), whose pieces are not all empty; malloc
\* returns block b.
Concat(bs, n, b) ==
  LET text == FlattenSeq([k \in 1 .. n |-> Text(bs[k - 1])])
      gone == Freed(bs[0])
  IN  /\ b \notin live
      /\ live' = (live \ gone) \cup {b}
      /\ heap' = Scrub([heap EXCEPT ![b] = Append(text, 0)], gone)
      /\ buff' = [bs EXCEPT ![0] = str_acquire_mem(b, Len(text))]

\* Element `count' has just been written.
FullLate(n) == n > SB_SIZE
Full(n) == n = SB_SIZE

\* After the flush the array holds one element, the text so far.
AfterFlushEmpty == 0
AfterFlush == 1

sb_inc_index(bs) ==
  \/ /\ ~Full(count + 1)
     /\ buff' = bs
     /\ count' = count + 1
     /\ UNCHANGED <<live, heap>>
  \/ /\ Full(count + 1)
     /\ \E b \in Block : Concat(bs, SB_SIZE, b)
     /\ count' = AfterFlush

\* sb_append(self, s), and sb_append_mem for a non-owning s.
sb_appendOwner(s) ==
  \/ str_is_empty(s) /\ UNCHANGED <<live, heap, buff, count>>
  \/ ~str_is_empty(s) /\ sb_inc_index([buff EXCEPT ![count] = s])
sb_append(s) ==
  \/ str_is_empty(s) /\ UNCHANGED <<live, heap, buff, count>>
  \/ ~str_is_empty(s) /\ sb_inc_index([buff EXCEPT ![count] = str_ref(s)])

\* The append has to allocate memory.
Flushes(s) == ~str_is_empty(s) /\ Full(count + 1)

\* The first half of assign_sb: the pieces become one string in buff[0].
sb_join ==
  \/ count = 0 /\ UNCHANGED <<live, heap, buff, count>>
  \/ count > 0 /\ (\E b \in Block : Concat(buff, count, b)) /\ UNCHANGED count
=============================================================================
