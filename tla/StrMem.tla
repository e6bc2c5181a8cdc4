------------------------------- MODULE StrMem -------------------------------
(***************************************************************************)
(* A single-threaded program that uses str objects: plain and str_assign   *)
(* assignment, ownership transfer, and the calls that allocate a result    *)
(* (str_clone, str_concat_array, str_join_array, str_repeat, str_sprintf). *)
(*                                                                         *)
(* A call is a sequence of steps in the order of the code: work out the    *)
(* size of the result, malloc, append one piece per step, terminate, free  *)
(* the old destination and assign.  The arguments are str objects copied   *)
(* at the call, so they may alias the destination or slices of it.         *)
(*                                                                         *)
(* The program keeps the discipline of README.md (String Ownership         *)
(* Management): it reads no dangling reference, overwrites no owner by     *)
(* plain assignment, and passes str_assign no reference into the memory    *)
(* that very str_assign will free.                                         *)
(***************************************************************************)
EXTENDS StrHeap, StrText

CONSTANTS
  Var,            \* the program's str variables
  SmallBuffSize,  \* SMALL_BUFF_SIZE of str_sprintf
  STACK,          \* the address of str_sprintf's small_buff
  MaxArgs,        \* bound: strings passed to one concat or join
  MaxTimes,       \* bound: the n of str_repeat
  MaxLen          \* bound: the length of any string

ASSUME MemAssumption ==
  /\ SmallBuffSize \in Nat \ {0}
  /\ MaxArgs \in Nat /\ MaxTimes \in Nat /\ MaxLen \in Nat
  /\ STACK \notin Block \cup Literal \cup {NULL, GONE}

\* What StrValue needs: the mark of a lost reference is no text, and a clone
\* is a concatenation of one string.
ASSUME ValueAssumption == GONE \notin Seq(Nat) /\ MaxArgs # 0

VARIABLES
  obj,   \* obj[v]: the str object in variable v
  call   \* the library call in progress

vars == <<live, heap, obj, call>>

\* A call's record: the function whose loop runs, its parameters, the offsets
\* where the members of src start and the last one ends in their
\* concatenation, the stack buffer of str_sprintf, and the loop's locals: the
\* buffer, its planned length n, the index i of the next piece.
NoCall == [fn |-> "none", dest |-> NULL, sep |-> str_null, src |-> <<>>,
           times |-> 1, starts |-> <<0>>, small |-> <<>>,
           buff |-> NULL, n |-> 0, i |-> 1]
Exited == [NoCall EXCEPT !.fn = "exited"]

Idle == call = NoCall

Init ==
  /\ live = {}
  /\ heap = [b \in Block |-> <<>>]
  /\ obj = [v \in Var |-> str_null]
  /\ call = NoCall

----------------------------------------------------------------------------
(* The program's own steps. *)

\* The blocks in gone are freed, the heap being h, and then *dest = s, where
\* os are the variables' objects just before.
FreeThenAssign(gone, os, h, v, s) ==
  /\ obj' = [u \in Var |-> Forget(IF u = v THEN s ELSE os[u], gone)]
  /\ heap' = Scrub(h, gone)

\* str_assign(&obj[v], s), after s was evaluated.
str_assign(os, v, s) ==
  FreeThenAssign(Freed(os[v]), os, heap, v, s) /\ live' = live \ Freed(os[v])

\* str_assign(&obj[v], str_acquire_mem(b, n)), where h is the heap with the
\* contents of b filled in.
AssignOwned(h, v, b, n) ==
  LET gone == Freed(obj[v]) \cup Surplus(b, n)
  IN  /\ FreeThenAssign(gone, obj, h, v, str_acquire_mem(b, n))
      /\ live' = (live \cup {b}) \ gone

\* The program may pass s to str_assign(&v, ...): s does not point into the
\* block that v frees.
MayAssign(os, v, s) == s.at \notin Freed(os[v])

\* obj[v] = s;  "correct only if the left-hand side is a non-owning reference".
SetLit(v, a) ==
  /\ Idle /\ ~obj[v].own
  /\ obj' = [obj EXCEPT ![v] = str_lit(a)]
  /\ UNCHANGED <<live, heap, call>>

SetSlice(v, w, i, j) ==
  /\ Idle /\ ~obj[v].own
  /\ Readable(obj[w])
  /\ obj' = [obj EXCEPT ![v] = str_ref_slice(obj[w], i, j)]
  /\ UNCHANGED <<live, heap, call>>

\* str_assign(&v, str_lit(...)).
AssignLit(v, a) ==
  /\ Idle
  /\ str_assign(obj, v, str_lit(a))
  /\ UNCHANGED call

\* str_assign(&v, str_ref_slice(w, i, j)), with any references at all ...
AssignAnySlice(v, w, i, j) ==
  /\ Idle
  /\ Readable(obj[w])
  /\ str_assign(obj, v, str_ref_slice(obj[w], i, j))
  /\ UNCHANGED call

\* ... and as a disciplined program uses it.
AssignSlice(v, w, i, j) ==
  /\ MayAssign(obj, v, str_ref_slice(obj[w], i, j))
  /\ AssignAnySlice(v, w, i, j)

\* str_assign(&v, str_acquire(&w)): the acquire leaves w a reference.
str_acquireKeep(os, w) == os
str_acquire(os, w) == [os EXCEPT ![w] = str_ref(@)]

AssignAcquire(v, w) ==
  /\ Idle
  /\ Readable(obj[w])
  /\ LET os == str_acquire(obj, w)
     IN  MayAssign(os, v, obj[w]) /\ str_assign(os, v, obj[w])
  /\ UNCHANGED call

\* str_assign(&v, str_acquire_mem(p, n)), where the program has just put the
\* text of literal a into malloc'ed memory p.
AssignAcquireMem(v, a, b) ==
  /\ Idle /\ b \notin live
  /\ AssignOwned([heap EXCEPT ![b] = LitText[a]], v, b, Len(LitText[a]))
  /\ UNCHANGED call

\* str_clear(&v); also the end of the scope of a str_auto variable.
str_clear(v) == str_assign(obj, v, str_null)

Clear(v) == Idle /\ str_clear(v) /\ UNCHANGED call

str_swap(v, w) ==
  /\ Idle
  /\ obj' = [obj EXCEPT ![v] = obj[w], ![w] = obj[v]]
  /\ UNCHANGED <<live, heap, call>>
----------------------------------------------------------------------------
(* A library call starts: its arguments are objects copied from variables. *)

\* str_join_array without a separator is str_concat_array; either of them
\* clears the destination for no string and clones for one.
Loop(fn, sep, src) ==
  IF fn = "join" /\ (str_is_empty(sep) \/ Len(src) <= 1) THEN "concat" ELSE fn

\* The running totals of the lengths of src; none if they exceed MaxLen.
calc_total_length(src) ==
  {t \in [1 .. Len(src) + 1 -> 0 .. MaxLen] :
     t[1] = 0 /\ \A k \in DOMAIN src : t[k + 1] = t[k] + src[k].len}

\* The size of the result: the n of every loop.
SizeSepTooMany(c) ==
  CASE c.fn = "join"   -> c.starts[Len(c.src) + 1] + c.sep.len * Len(c.src)
    [] c.fn = "repeat" -> c.src[1].len * c.times
    [] OTHER           -> c.starts[Len(c.src) + 1]
Size(c) ==
  CASE c.fn = "join"   -> c.starts[Len(c.src) + 1] + c.sep.len * (Len(c.src) - 1)
    [] c.fn = "repeat" -> c.src[1].len * c.times
    [] OTHER           -> c.starts[Len(c.src) + 1]

Enter(fn, d, sep, src, times) ==
  /\ Idle
  /\ Readable(sep) /\ \A k \in DOMAIN src : Readable(src[k])
  /\ \E t \in calc_total_length(src) :
       LET c == [NoCall EXCEPT !.fn = Loop(fn, sep, src), !.dest = d, !.sep = sep,
                               !.src = src, !.times = times, !.starts = t]
       IN  Size(c) <= MaxLen /\ call' = c
  /\ UNCHANGED <<live, heap, obj>>

Objects(a) == [k \in DOMAIN a |-> obj[a[k]]]

str_clone(d, w)           == Enter("concat", d, str_null, <<obj[w]>>, 1)
str_concat_array(d, a)    == Enter("concat", d, str_null, Objects(a), 1)
str_join_array(d, sep, a) == Enter("join", d, obj[sep], Objects(a), 1)
str_repeat(d, n)          == Enter("repeat", d, str_null, <<obj[d]>>, n)
str_sprintf(d, a)         == Enter("sprintf", d, str_null, Objects(a), 1)

----------------------------------------------------------------------------
(* str_sprintf: the format prints the arguments one after the other.       *)

Formatting == call.fn = "sprintf"

\* vsnprintf fails and so does the call; nothing was changed.
FormatFails ==
  /\ Formatting
  /\ call' = NoCall
  /\ UNCHANGED <<live, heap, obj>>

\* vsnprintf(small_buff, SMALL_BUFF_SIZE, ...) prints one more argument: it
\* keeps what fits in front of the NUL, and counts the rest.
vsnprintf ==
  /\ Formatting /\ call.i <= Len(call.src)
  /\ LET room == SmallBuffSize - 1 - Len(call.small)
         text == Text(call.src[call.i])
     IN  call' = [call EXCEPT !.i = @ + 1,
           !.small = @ \o (IF Len(text) <= room THEN text ELSE SubSeq(text, 1, room))]
  /\ UNCHANGED <<live, heap, obj>>

Formatted == Formatting /\ call.i > Len(call.src)

\* The text that fits in small_buff is cloned from there; longer text is
\* printed again, into a buffer of the right size.
FitsSmallWithoutNul(n) == n <= SmallBuffSize
FitsSmall(n) == n < SmallBuffSize

CloneSmall ==
  /\ Formatted /\ Size(call) > 0 /\ FitsSmall(Size(call))
  /\ call' = [call EXCEPT !.fn = "concat", !.i = 1,
                          !.src = <<str_ref_mem(STACK, 0, Size(call))>>,
                          !.starts = <<0, Size(call)>>,
                          !.small = Append(@, 0)]
  /\ UNCHANGED <<live, heap, obj>>

PrintBig ==
  /\ Formatted /\ Size(call) > 0 /\ ~FitsSmall(Size(call))
  /\ call' = [call EXCEPT !.fn = "concat", !.i = 1]
  /\ UNCHANGED <<live, heap, obj>>

----------------------------------------------------------------------------
(* The body shared by the calls: size, malloc, append loop, assign. *)

Looping == call.fn \in {"concat", "join", "repeat"}

\* str_repeat on an empty string, or once, leaves the string alone.
NothingToRepeat ==
  call.fn = "repeat" /\ call.buff = NULL /\ (str_is_empty(call.src[1]) \/ call.times = 1)

ReturnSame ==
  /\ NothingToRepeat
  /\ call' = NoCall
  /\ UNCHANGED <<live, heap, obj>>

ReturnEmpty ==
  /\ Looping \/ Formatted
  /\ call.buff = NULL /\ Size(call) = 0 /\ ~NothingToRepeat
  /\ str_clear(call.dest)
  /\ call' = NoCall

Sized == Looping /\ call.buff = NULL /\ Size(call) > 0 /\ ~NothingToRepeat

mem_allocEarlyFree(b) ==
  /\ Sized /\ b \notin live
  /\ FreeThenAssign(Freed(obj[call.dest]), obj, heap, call.dest, str_null)
  /\ live' = (live \ Freed(obj[call.dest])) \cup {b}
  /\ call' = [call EXCEPT !.buff = b, !.n = Size(call)]
mem_alloc(b) ==
  /\ Sized /\ b \notin live
  /\ live' = live \cup {b}
  /\ heap' = [heap EXCEPT ![b] = <<>>]
  /\ call' = [call EXCEPT !.buff = b, !.n = Size(call)]
  /\ UNCHANGED obj

\* malloc returned NULL: the process exits.
mem_failure ==
  /\ Sized
  /\ call' = Exited
  /\ UNCHANGED <<live, heap, obj>>

\* The concat and join loops run until n bytes are written, whatever the
\* index; the repeat loop counts.
More ==
  /\ Looping /\ call.buff # NULL
  /\ IF call.fn = "repeat" THEN call.i <= call.times ELSE Len(heap[call.buff]) < call.n

PieceText(s) ==
  IF s.at = STACK THEN SubSeq(call.small, s.off + 1, s.off + s.len) ELSE Text(s)

Piece ==
  CASE call.fn = "repeat" -> Text(call.src[1])
    [] call.fn = "join" /\ call.i > 1 -> Text(call.sep) \o Text(call.src[call.i])
    [] OTHER -> PieceText(call.src[call.i])

append_strStuck ==
  /\ More
  /\ heap' = [heap EXCEPT ![call.buff] = @ \o Piece]
  /\ call' = [call EXCEPT !.i = IF Piece = <<>> THEN @ ELSE @ + 1]
  /\ UNCHANGED <<live, obj>>
append_str ==
  /\ More
  /\ heap' = [heap EXCEPT ![call.buff] = @ \o Piece]
  /\ call' = [call EXCEPT !.i = @ + 1]
  /\ UNCHANGED <<live, obj>>

\* *p = 0 at the end of what was written, then the assignment.
TerminateNot(text) == Append(text, 255)
Terminate(text) == Append(text, 0)

Return ==
  /\ Looping /\ call.buff # NULL /\ ~More
  /\ AssignOwned([heap EXCEPT ![call.buff] = Terminate(@)], call.dest, call.buff,
                 IF call.fn = "repeat" THEN Len(heap[call.buff]) ELSE call.n)
  /\ call' = NoCall

\* The process has exited.
Ended == call = Exited /\ UNCHANGED vars

----------------------------------------------------------------------------
Arrays == SeqOf(Var, MaxArgs)

ProgramStep ==
  \/ \E v \in Var, a \in Literal : SetLit(v, a) \/ AssignLit(v, a)
  \/ \E v, w \in Var, i, j \in 0 .. MaxLen + 1 :
       SetSlice(v, w, i, j) \/ AssignSlice(v, w, i, j)
  \/ \E v, w \in Var : AssignAcquire(v, w) \/ str_swap(v, w)
  \/ \E v \in Var, a \in Literal, b \in Block : AssignAcquireMem(v, a, b)
  \/ \E v \in Var : Clear(v)

CallStep ==
  \/ \E d, w \in Var : str_clone(d, w)
  \/ \E d \in Var, a \in Arrays : str_concat_array(d, a) \/ str_sprintf(d, a)
  \/ \E d, sep \in Var, a \in Arrays : str_join_array(d, sep, a)
  \/ \E d \in Var, n \in 0 .. MaxTimes : str_repeat(d, n)

LibraryStep ==
  \/ FormatFails \/ vsnprintf \/ CloneSmall \/ PrintBig
  \/ ReturnSame \/ ReturnEmpty
  \/ \E b \in Block : mem_alloc(b)
  \/ mem_failure
  \/ append_str
  \/ Return

Next == ProgramStep \/ CallStep \/ LibraryStep \/ Ended

Spec == Init /\ [][Next]_vars

\* The thread inside a library call keeps running.
FairSpec == Spec /\ WF_vars(LibraryStep)

----------------------------------------------------------------------------
(* Properties. *)

Object == [at : Block \cup Literal \cup {NULL, GONE},
           off : Nat, len : Nat, own : BOOLEAN]

\* The object str_sprintf makes for the text in its small_buff.
SmallRef == [at : {STACK}, off : {0}, len : Nat, own : {FALSE}]

CallRecord ==
  [fn : {"none", "exited", "sprintf", "concat", "join", "repeat"},
   dest : Var \cup {NULL}, sep : Object, src : Seq(Object \cup SmallRef),
   times : Nat, starts : Seq(Nat), small : Seq(Nat),
   buff : Block \cup {NULL}, n : Nat, i : Nat \ {0}]

\* Only a non-empty object at the start of a heap block carries the owner
\* bit (str.h:154-161), so that str_free always gets a pointer from malloc.
TypeOK ==
  /\ live \subseteq Block
  /\ heap \in [Block -> Seq(Nat)]
  /\ obj \in [Var -> Object]
  /\ call \in CallRecord
  /\ \A v \in Var : obj[v].own => obj[v].at \in Block /\ obj[v].off = 0 /\ obj[v].len > 0

\* No double free: an owner's block is allocated, and no other owner and no
\* call in progress will free or hand out the same block.
SingleOwner ==
  \A v \in Var : obj[v].own =>
    /\ obj[v].at \in live \ {call.buff}
    /\ \A w \in Var \ {v} : obj[w].own => obj[w].at # obj[v].at

\* No leak: as long as the program keeps the ownership discipline of the
\* README, every allocated block has an owner, or is the call's buffer.
NoLeak == \A b \in live : b = call.buff \/ \E v \in Var : obj[v].own /\ obj[v].at = b

\* The Single-Owner Invariant of README.md:107, in both directions.
BlocksOwnedOnce == SingleOwner /\ NoLeak

\* A call's argument: a string, or the text in str_sprintf's small_buff.
Argument(s) ==
  IF s.at = STACK THEN s.off + s.len <= Len(call.small) ELSE Readable(s)

\* No read after free: the arguments of a call stay readable until it
\* returns, even when they alias the destination; and a reference that has
\* not seen its memory freed lies inside live memory.
NoUseAfterFree ==
  /\ Argument(call.sep) /\ \A k \in DOMAIN call.src : Argument(call.src[k])
  /\ \A v \in Var : obj[v].at = GONE \/ Readable(obj[v])

\* No overrun: the append loops, which stop on the number of bytes written
\* and never look at the count, read no element past the end of the array
\* and write no byte past the n bytes they asked malloc for.
LoopInBounds ==
  call.buff # NULL =>
    /\ Len(heap[call.buff]) <= call.n
    /\ More => call.fn = "repeat" \/ call.i \in DOMAIN call.src

\* Every buffer a call hands to its destination holds a NUL right after the
\* text (mem_alloc_copy, and *p = 0 in the loops).
Terminated ==
  [][ call.buff # NULL /\ call' = NoCall =>
        LET s == obj'[call.dest] IN s.own /\ heap'[s.at][s.len + 1] = 0 ]_vars

\* The values of the variables and of the call's result, for StrValue.
Value(s) == IF s.at = GONE THEN GONE ELSE Text(s)

Outcome(c) ==
  LET xs == [k \in DOMAIN c.src |-> PieceText(c.src[k])]
  IN  CASE c.fn = "repeat" -> Repeated(xs[1], c.times)
        [] c.fn = "join"   -> Joined(Text(c.sep), xs)
        [] OTHER           -> Joined(<<>>, xs)

V == INSTANCE StrValue WITH
  Constant <- {LitText[a] : a \in Literal},
  LOST     <- GONE,
  val      <- [v \in Var |-> Value(obj[v])],
  owner    <- {v \in Var : obj[v].own},
  pending  <- CASE call = NoCall -> [dest |-> GONE, result |-> GONE, fails |-> FALSE]
                [] call = Exited -> [dest |-> GONE, result |-> GONE, fails |-> TRUE]
                [] OTHER -> [dest |-> call.dest, result |-> Outcome(call),
                             fails |-> Formatting]

\* Step by step, the program's variables hold the values StrValue promises:
\* a call computes its result from the values its arguments had when it was
\* called, touches no variable before it returns, and then changes its
\* destination only.
Implements == V!Spec

\* Every call comes to an end, whatever its arguments (empty strings too).
CallReturns == (~Idle) ~> (Idle \/ call = Exited)
=============================================================================
