---------------------------- MODULE StrMemProofs ----------------------------
(***************************************************************************)
(* The memory-safety properties of StrMem, and that it implements          *)
(* StrValue, for every set of variables, blocks and literals and for every *)
(* bound.                                                                  *)
(***************************************************************************)
EXTENDS StrMem, SequenceTheorems, StrLemmas

----------------------------------------------------------------------------
(* The inductive invariant. *)

\* An object that points into a block points into an allocated one, and not
\* into the buffer the call in progress is filling.
PointersOK ==
  /\ \A v \in Var : obj[v].at \in Block => obj[v].at \in live \ {call.buff}
  /\ call.sep.at \in Block => call.sep.at \in live \ {call.buff}
  /\ \A k \in DOMAIN call.src :
       call.src[k].at \in Block => call.src[k].at \in live \ {call.buff}

\* The offsets in starts are the running totals of the lengths in src.
StartsOK ==
  /\ Len(call.starts) = Len(call.src) + 1
  /\ call.starts[1] = 0
  /\ \A k \in 1 .. Len(call.src) : call.starts[k + 1] = call.starts[k] + call.src[k].len

\* What str_sprintf has printed: all of it, up to the size of small_buff.
Printed(n) == IF n < SmallBuffSize THEN n ELSE SmallBuffSize - 1

FormatOK ==
  Formatting =>
    /\ call.buff = NULL
    /\ call.src \in Seq(Object)
    /\ call.i <= Len(call.src) + 1
    /\ Len(call.small) = Printed(call.starts[call.i])

\* The arguments the three loops can have.
LoopOK ==
  Looping =>
    /\ call.fn = "join" => Len(call.src) >= 2 /\ call.src \in Seq(Object)
    /\ call.fn = "repeat" => Len(call.src) = 1 /\ call.src \in Seq(Object)
    /\ call.buff = NULL => call.i = 1

\* n copies of a string of length len.
Copies(len, n) == len * n

\* The number of bytes a loop has written in front of piece i.
Written(c) ==
  CASE c.fn = "repeat" -> Copies(c.src[1].len, c.i - 1)
    [] c.fn = "join" /\ c.i > 1 -> c.starts[c.i] + Copies(c.sep.len, c.i - 2)
    [] OTHER -> c.starts[c.i]

\* The loop's position: the bytes written are those of the first i-1 pieces.
BufferOK ==
  call.buff # NULL =>
    /\ Looping
    /\ call.buff \in live
    /\ call.n = Size(call) /\ call.n > 0
    /\ call.i <= (IF call.fn = "repeat" THEN call.times ELSE Len(call.src)) + 1
    /\ Len(heap[call.buff]) = Written(call)

\* What is known of the call in progress.
CallOK ==
  /\ call.fn = "none" => call = NoCall
  /\ call.fn = "exited" => call = Exited
  /\ call.fn \notin {"none", "exited"} => call.dest \in Var /\ StartsOK
  /\ FormatOK /\ LoopOK /\ BufferOK

IInv == TypeOK /\ SingleOwner /\ NoLeak /\ NoUseAfterFree /\ PointersOK /\ CallOK

----------------------------------------------------------------------------
(* The invariant in two halves, the store and the call, as the steps of the *)
(* program disturb only the former.  The store's half is stated on values   *)
(* o, l, h, q of obj, live, heap and call.buff, so that the lemmas about it *)
(* apply to the values after a step too.                                    *)

Contents(h, a) == IF a \in Block THEN h[a] ELSE LitText[a]

ReadableIn(l, h, s) ==
  s.len = 0 \/ /\ s.at \in l \cup Literal
               /\ s.off + s.len <= Len(Contents(h, s.at))

\* An object a variable may hold.
ObjectOK(l, h, q, s) ==
  /\ s.own => s.at \in Block /\ s.off = 0 /\ s.len > 0
  /\ s.at \in Block => s.at \in l \ {q}
  /\ s.at = GONE \/ ReadableIn(l, h, s)

StoreOK(o, l, h, q) ==
  /\ l \subseteq Block
  /\ h \in [Block -> Seq(Nat)]
  /\ o \in [Var -> Object]
  /\ \A v \in Var : ObjectOK(l, h, q, o[v])
  /\ \A v, w \in Var : o[v].own /\ o[w].own /\ o[v].at = o[w].at => v = w
  /\ \A b \in l : b = q \/ \E v \in Var : o[v].own /\ o[v].at = b

Store == StoreOK(obj, live, heap, call.buff)

\* An argument the call in progress may have.
ArgumentOK(s) == Argument(s) /\ (s.at \in Block => s.at \in live \ {call.buff})

ArgumentsOK ==
  ArgumentOK(call.sep) /\ \A k \in DOMAIN call.src : ArgumentOK(call.src[k])

LEMMA Halves == IInv <=> Store /\ call \in CallRecord /\ ArgumentsOK /\ CallOK
<1>1. ASSUME IInv PROVE Store /\ ArgumentsOK
  BY <1>1 DEF IInv, TypeOK, SingleOwner, NoLeak, NoUseAfterFree, PointersOK, Store, StoreOK,
              ObjectOK, ArgumentsOK, ArgumentOK, Readable, ReadableIn, Bytes, Contents
<1>2. ASSUME Store, call \in CallRecord, ArgumentsOK, CallOK PROVE IInv
  <2>1. TypeOK
    BY <1>2 DEF TypeOK, Store, StoreOK, ObjectOK
  <2>2. SingleOwner
    BY <1>2 DEF SingleOwner, Store, StoreOK, ObjectOK
  <2>3. NoUseAfterFree /\ PointersOK
    BY <1>2 DEF NoUseAfterFree, PointersOK, Store, StoreOK, ObjectOK, ArgumentsOK, ArgumentOK,
                Readable, ReadableIn, Bytes, Contents
  <2>4. NoLeak
    BY <1>2 DEF NoLeak, Store, StoreOK
  <2> QED BY <1>2, <2>1, <2>2, <2>3, <2>4 DEF IInv
<1> QED BY <1>1, <1>2 DEF IInv, TypeOK

LEMMA HalvesPrimed == IInv' <=> (Store /\ call \in CallRecord /\ ArgumentsOK /\ CallOK)'
BY Halves, PTL

LEMMA ReadableHere == \A s : Readable(s) <=> ReadableIn(live, heap, s)
BY DEF Readable, ReadableIn, Bytes, Contents

----------------------------------------------------------------------------
(* Lemmas about the operators. *)

LEMMA Constructors ==
  /\ str_null \in Object /\ str_null.len = 0 /\ ~str_null.own /\ str_null.at \notin Block
  /\ str_dangling \in Object /\ ~str_dangling.own /\ str_dangling.at = GONE /\ GONE \notin Block
  /\ \A a \in Literal : /\ str_lit(a) \in Object /\ ~str_lit(a).own /\ str_lit(a).at \notin Block
                        /\ \A l, h : ReadableIn(l, h, str_lit(a))
<1>1. \A a \in Literal : Len(LitText[a]) \in Nat
  BY HeapAssumption, LenProperties
<1> QED BY <1>1, HeapAssumption DEF str_null, str_dangling, str_lit, Object, ReadableIn, Contents

LEMMA ContentsType ==
  ASSUME NEW l \in SUBSET Block, NEW h \in [Block -> Seq(Nat)], NEW a \in l \cup Literal
  PROVE  Contents(h, a) \in Seq(Nat) /\ Len(Contents(h, a)) \in Nat
BY HeapAssumption, LenProperties DEF Contents

\* The text of a readable string is as long as the string.
LEMMA TextType ==
  ASSUME heap \in [Block -> Seq(Nat)], live \in SUBSET Block, NEW s \in Object, Readable(s)
  PROVE  Text(s) \in Seq(Nat) /\ Len(Text(s)) = s.len
<1>1. s.off \in Nat /\ s.len \in Nat
  BY DEF Object
<1>2. CASE s.len = 0
  BY <1>2, EmptySeq DEF Text
<1>3. CASE s.len # 0
  <2>1. s.at \in live \cup Literal /\ s.off + s.len <= Len(Bytes(s.at))
    BY <1>3 DEF Readable
  <2>2. Bytes(s.at) \in Seq(Nat) /\ Len(Bytes(s.at)) \in Nat
    BY <2>1, ContentsType DEF Bytes, Contents
  <2>3. s.off + 1 \in 1 .. Len(Bytes(s.at)) + 1 /\ s.off + s.len \in 0 .. Len(Bytes(s.at))
    BY <1>1, <2>1, <2>2
  <2>4. \A i \in s.off + 1 .. s.off + s.len : Bytes(s.at)[i] \in Nat
    BY <2>2, <2>3, <1>1, ElementOfSeq
  <2>5. /\ SubSeq(Bytes(s.at), s.off + 1, s.off + s.len) \in Seq(Nat)
        /\ Len(SubSeq(Bytes(s.at), s.off + 1, s.off + s.len)) =
             IF s.off + 1 <= s.off + s.len THEN (s.off + s.len) - (s.off + 1) + 1 ELSE 0
    BY <2>4, <1>1, SubSeqProperties
  <2> QED BY <1>1, <1>3, <2>5 DEF Text
<1> QED BY <1>2, <1>3

\* Reference r is empty or a readable part of the memory of s.
PartOf(l, h, s, r) ==
  /\ r \in Object /\ ReadableIn(l, h, r) /\ ~r.own
  /\ r = str_null \/ r.at = s.at

\* A slice of a readable string is a part of it.
LEMMA SliceOK ==
  ASSUME NEW l \in SUBSET Block, NEW h \in [Block -> Seq(Nat)],
         NEW s \in Object, ReadableIn(l, h, s), NEW i \in Nat, NEW j \in Nat
  PROVE  PartOf(l, h, s, str_ref_slice(s, i, j))
<1> DEFINE n == IF j <= i \/ i >= s.len THEN 0 ELSE IF j > s.len THEN s.len - i ELSE j - i
           r == str_ref_slice(s, i, j)
<1>1. s.off \in Nat /\ s.len \in Nat /\ n \in Nat
  BY DEF Object
<1>2. n > 0 => i + n <= s.len
  BY <1>1
<1>3. CASE s.at # NULL /\ n > 0
  <2>1. r = [at |-> s.at, off |-> s.off + i, len |-> n, own |-> FALSE]
    BY <1>3 DEF str_ref_slice, str_ref_mem
  <2>2. r \in Object
    BY <2>1, <1>1 DEF Object
  <2>3. s.at \in l \cup Literal /\ s.off + s.len <= Len(Contents(h, s.at))
    BY <1>1, <1>2, <1>3 DEF ReadableIn
  <2>4. r.off + r.len <= s.off + s.len
    BY <2>1, <1>1, <1>2, <1>3
  <2>5. ReadableIn(l, h, r)
    BY <2>1, <2>3, <2>4, <1>1, ContentsType DEF ReadableIn
  <2> QED BY <2>1, <2>2, <2>5 DEF PartOf
<1>4. CASE ~(s.at # NULL /\ n > 0)
  BY <1>4, Constructors DEF str_ref_slice, str_ref_mem, ReadableIn, PartOf
<1> QED BY <1>3, <1>4

----------------------------------------------------------------------------
(* Assigning to a variable. *)

\* What was readable stays so when blocks it does not point into are freed
\* and blocks it does point into are filled further.
LEMMA ScrubKeeps ==
  ASSUME NEW l \in SUBSET Block, NEW h \in [Block -> Seq(Nat)],
         NEW l2 \in SUBSET Block, NEW h2 \in [Block -> Seq(Nat)],
         NEW gone \in SUBSET Block, l \subseteq l2,
         NEW s \in Object, ReadableIn(l, h, s), s.at \notin gone,
         s.at \in l => Len(h[s.at]) <= Len(h2[s.at])
  PROVE  ReadableIn(l2 \ gone, Scrub(h2, gone), s)
<1>1. CASE s.len = 0
  BY <1>1 DEF ReadableIn
<1>2. CASE s.len # 0
  <2>1. s.at \in l \cup Literal /\ s.off + s.len <= Len(Contents(h, s.at))
    BY <1>2 DEF ReadableIn
  <2>2. s.at \in (l2 \ gone) \cup Literal
    BY <2>1
  <2>3. CASE s.at \in Block
    <3>1. Contents(Scrub(h2, gone), s.at) = h2[s.at] /\ Contents(h, s.at) = h[s.at]
      BY <2>3 DEF Contents, Scrub
    <3>2. Len(h2[s.at]) \in Nat /\ Len(h[s.at]) \in Nat /\ s.off + s.len \in Nat
      BY <2>3, LenProperties DEF Object
    <3>3. s.at \in l
      BY <2>1, <2>3, HeapAssumption
    <3> QED BY <2>1, <2>2, <3>1, <3>2, <3>3 DEF ReadableIn
  <2>4. CASE s.at \notin Block
    BY <2>1, <2>2, <2>4 DEF ReadableIn, Contents
  <2> QED BY <2>3, <2>4
<1> QED BY <1>1, <1>2

\* str_assign(&v, s), where s is a reference that does not point into the
\* block v frees.
LEMMA AssignRef ==
  ASSUME Store, call.buff = NULL, call'.buff = NULL,
         NEW v \in Var, NEW s \in Object, ~s.own, ReadableIn(live, heap, s),
         s.at \in Block => s.at \in live, s.at \notin Freed(obj[v]),
         str_assign(obj, v, s)
  PROVE  Store'
<1> DEFINE gone == Freed(obj[v])
<1>1. gone \in SUBSET Block /\ NULL \notin Block
  BY HeapAssumption DEF Freed, Store, StoreOK, ObjectOK
<1>2. /\ heap \in [Block -> Seq(Nat)] /\ obj \in [Var -> Object] /\ live \in SUBSET Block
      /\ \A u \in Var : ObjectOK(live, heap, NULL, obj[u])
  BY DEF Store, StoreOK
<1>3. FreeThenAssign(gone, obj, heap, v, s) /\ live' = live \ gone
  BY DEF str_assign
<1>4. /\ heap' \in [Block -> Seq(Nat)] /\ heap' = Scrub(heap, gone)
      /\ obj' \in [Var -> Object]
      /\ obj'[v] = s
      /\ \A u \in Var \ {v} : obj'[u] = Forget(obj[u], gone)
  BY <1>1, <1>2, <1>3, Constructors, EmptySeq DEF FreeThenAssign, Scrub, Forget
<1>5. ASSUME NEW u \in Var PROVE ObjectOK(live', heap', NULL, obj'[u])
  <2>1. CASE u = v
    <3>1. ReadableIn(live', heap', s)
      <4>1. s.at \in live => Len(heap[s.at]) <= Len(heap[s.at])
        BY <1>2, LenProperties
      <4> HIDE DEF gone
      <4> QED BY <1>1, <1>2, <1>3, <1>4, <4>1, ScrubKeeps DEF gone
    <3> QED BY <2>1, <1>3, <1>4, <1>1, <3>1 DEF ObjectOK
  <2>2. CASE u # v /\ obj[u].at \in gone
    BY <2>2, <1>4, Constructors DEF Forget, ObjectOK
  <2>3. CASE u # v /\ obj[u].at \notin gone
    <3>1. obj'[u] = obj[u] /\ ObjectOK(live, heap, NULL, obj[u])
      BY <2>3, <1>2, <1>4 DEF Forget
    <3>2. ASSUME ReadableIn(live, heap, obj[u]) PROVE ReadableIn(live', heap', obj[u])
      <4>1. obj[u] \in Object /\ (obj[u].at \in live => Len(heap[obj[u].at]) <= Len(heap[obj[u].at]))
        BY <1>2, LenProperties
      <4> HIDE DEF gone
      <4> QED BY <1>1, <1>2, <1>3, <1>4, <2>3, <3>2, <4>1, ScrubKeeps
    <3> QED BY <2>3, <1>1, <1>3, <3>1, <3>2 DEF ObjectOK
  <2> QED BY <2>1, <2>2, <2>3
<1>6. ASSUME NEW u \in Var, NEW w \in Var, obj'[u].own, obj'[w].own, obj'[u].at = obj'[w].at
      PROVE  u = w
  BY <1>4, <1>6, Constructors DEF Forget, Store, StoreOK
<1>7. ASSUME NEW b \in live' PROVE \E u \in Var : obj'[u].own /\ obj'[u].at = b
  <2>1. b \in live /\ b \notin gone /\ b # NULL
    BY <1>1, <1>2, <1>3
  <2>2. PICK u \in Var : obj[u].own /\ obj[u].at = b
    BY <2>1 DEF Store, StoreOK
  <2>3. u # v
    BY <2>1, <2>2 DEF Freed
  <2> QED BY <1>4, <2>1, <2>2, <2>3 DEF Forget
<1>8. live' \subseteq Block /\ (\A b \in live' : b = NULL \/ \E u \in Var : obj'[u].own /\ obj'[u].at = b)
  BY <1>2, <1>3, <1>7
<1>9. StoreOK(obj', live', heap', NULL)
  BY <1>4, <1>5, <1>6, <1>8 DEF StoreOK
<1> QED BY <1>9 DEF Store

\* str_assign(&v, str_acquire_mem(b, n)), where b is a new block or the
\* call's buffer, and h the heap after its last byte was written.
LEMMA AssignOwnedOK ==
  ASSUME Store, call'.buff = NULL, NEW v \in Var, NEW b \in Block, NEW n \in Nat,
         NEW h \in [Block -> Seq(Nat)], \A c \in Block \ {b} : h[c] = heap[c],
         n <= Len(h[b]), b = call.buff \/ (b \notin live /\ call.buff = NULL),
         b \in live => n > 0,
         AssignOwned(h, v, b, n)
  PROVE  Store' /\ (n > 0 => obj'[v] = str_acquire_mem(b, n))
<1> DEFINE gone == Freed(obj[v]) \cup Surplus(b, n)
           x == str_acquire_mem(b, n)
           l == live \cup {b}
<1>1. /\ heap \in [Block -> Seq(Nat)] /\ obj \in [Var -> Object] /\ live \in SUBSET Block
      /\ \A u \in Var : ObjectOK(live, heap, call.buff, obj[u])
      /\ NULL \notin Block
  BY HeapAssumption DEF Store, StoreOK
<1>2. x \in Object /\ (x.own <=> n > 0) /\ (x.own => x.at = b /\ x.off = 0 /\ x.len = n)
      /\ (~x.own => x = str_null)
  BY Constructors DEF str_acquire_mem, Object
<1>3. \A u \in Var : obj[u].at # b
  BY <1>1 DEF ObjectOK
<1>4. gone \in SUBSET Block /\ l \in SUBSET Block /\ x.at \notin gone
  BY <1>1, <1>2, <1>3, Constructors DEF Freed, Surplus, ObjectOK
<1>5. FreeThenAssign(gone, obj, h, v, x) /\ live' = l \ gone
  BY DEF AssignOwned
<1>6. /\ heap' \in [Block -> Seq(Nat)] /\ heap' = Scrub(h, gone)
      /\ obj' \in [Var -> Object]
      /\ obj'[v] = x
      /\ \A u \in Var \ {v} : obj'[u] = Forget(obj[u], gone)
  BY <1>1, <1>2, <1>4, <1>5, Constructors, EmptySeq DEF FreeThenAssign, Scrub, Forget
<1>7. ASSUME NEW u \in Var PROVE ObjectOK(live', heap', NULL, obj'[u])
  <2>1. CASE u = v /\ n > 0
    <3>1. ReadableIn(l, h, x)
      BY <1>2, <2>1 DEF ReadableIn, Contents
    <3>2. ReadableIn(live', heap', x)
      <4>1. x.at \in l => Len(h[x.at]) <= Len(h[x.at])
        BY <1>4, LenProperties
      <4> HIDE DEF x, l, gone
      <4> QED BY <1>2, <1>4, <1>5, <1>6, <3>1, <4>1, ScrubKeeps
    <3> QED BY <2>1, <1>1, <1>2, <1>4, <1>5, <1>6, <3>2 DEF ObjectOK
  <2>2. CASE u = v /\ n = 0
    BY <2>2, <1>2, <1>6, Constructors DEF ObjectOK, ReadableIn
  <2>3. CASE u # v /\ obj[u].at \in gone
    BY <2>3, <1>6, Constructors DEF Forget, ObjectOK
  <2>4. CASE u # v /\ obj[u].at \notin gone
    <3>1. obj'[u] = obj[u] /\ ObjectOK(live, heap, call.buff, obj[u])
      BY <2>4, <1>1, <1>6 DEF Forget
    <3>2. ASSUME ReadableIn(live, heap, obj[u]) PROVE ReadableIn(live', heap', obj[u])
      <4>1. obj[u] \in Object /\ obj[u].at # b /\ live \subseteq l
        BY <1>1, <1>3
      <4>2. obj[u].at \in live => Len(heap[obj[u].at]) <= Len(h[obj[u].at])
        BY <1>1, <4>1, LenProperties
      <4> HIDE DEF l, gone
      <4> QED BY <1>1, <1>4, <1>5, <1>6, <2>4, <3>2, <4>1, <4>2, ScrubKeeps
    <3> QED BY <2>4, <1>1, <1>3, <1>5, <3>1, <3>2 DEF ObjectOK
  <2> QED BY <2>1, <2>2, <2>3, <2>4
<1>8. ASSUME NEW u \in Var, NEW w \in Var, obj'[u].own, obj'[w].own, obj'[u].at = obj'[w].at
      PROVE  u = w
  <2>1. \A c \in Var \ {v} : obj'[c].own => obj[c].own /\ obj[c].at = obj'[c].at /\ obj[c].at # b
    BY <1>3, <1>6, Constructors DEF Forget
  <2>2. u # v => w # v
    BY <1>2, <1>6, <1>8, <2>1
  <2>3. w # v => u # v
    BY SMTT(60), <1>2, <1>6, <1>8, <2>1
  <2> QED BY <1>8, <2>1, <2>2, <2>3 DEF Store, StoreOK
<1>9. ASSUME NEW c \in live' PROVE \E u \in Var : obj'[u].own /\ obj'[u].at = c
  <2>1. c \notin gone /\ c \in l
    BY <1>5
  <2>2. CASE c = b
    BY <1>2, <1>6, <2>1, <2>2 DEF Surplus, Freed
  <2>3. CASE c # b
    <3>1. PICK u \in Var : obj[u].own /\ obj[u].at = c
      BY <1>1, <2>1, <2>3 DEF Store, StoreOK
    <3>2. u # v
      BY <2>1, <3>1 DEF Freed
    <3> QED BY <1>6, <2>1, <3>1, <3>2 DEF Forget
  <2> QED BY <2>2, <2>3
<1>10. live' \subseteq Block
  BY <1>4, <1>5
<1>11. StoreOK(obj', live', heap', NULL)
  BY <1>6, <1>7, <1>8, <1>9, <1>10 DEF StoreOK
<1> QED BY <1>2, <1>6, <1>11 DEF Store

\* str_assign(&v, str_acquire(&w)).
LEMMA AssignAcquireOK ==
  ASSUME Store, call.buff = NULL, call'.buff = NULL, NEW v \in Var, NEW w \in Var,
         AssignAcquire(v, w)
  PROVE  Store'
<1> DEFINE os == str_acquire(obj, w)
           gone == Freed(os[v])
<1>1. /\ heap \in [Block -> Seq(Nat)] /\ obj \in [Var -> Object] /\ live \in SUBSET Block
      /\ \A u \in Var : ObjectOK(live, heap, NULL, obj[u])
      /\ NULL \notin Block
  BY HeapAssumption DEF Store, StoreOK
<1>2. /\ os \in [Var -> Object]
      /\ \A u \in Var : os[u].at = obj[u].at /\ (u # w => os[u] = obj[u])
      /\ ~os[w].own
  BY <1>1 DEF str_acquire, str_ref, Object
<1>3. gone \in SUBSET Block /\ obj[w].at \notin gone
  BY <1>1, <1>2 DEF AssignAcquire, MayAssign, Freed, ObjectOK
<1>4. FreeThenAssign(gone, os, heap, v, obj[w]) /\ live' = live \ gone /\ Readable(obj[w])
  BY DEF AssignAcquire, str_assign
<1>5. /\ heap' \in [Block -> Seq(Nat)] /\ heap' = Scrub(heap, gone)
      /\ obj' \in [Var -> Object]
      /\ obj'[v] = obj[w]
      /\ \A u \in Var \ {v} : obj'[u] = Forget(os[u], gone)
  BY <1>1, <1>2, <1>3, <1>4, Constructors, EmptySeq DEF FreeThenAssign, Scrub, Forget
<1>6. ASSUME NEW x \in Object, ObjectOK(live, heap, NULL, x), x.at \notin gone
      PROVE  ObjectOK(live', heap', NULL, x)
  <2>1. x.at \in live => Len(heap[x.at]) <= Len(heap[x.at])
    BY <1>1, LenProperties
  <2>2. ReadableIn(live, heap, x) => ReadableIn(live', heap', x)
    <3> HIDE DEF gone
    <3> QED BY <1>1, <1>3, <1>4, <1>5, <1>6, <2>1, ScrubKeeps
  <2> QED BY <1>4, <1>6, <2>2 DEF ObjectOK
<1>7. ASSUME NEW u \in Var PROVE ObjectOK(live, heap, NULL, os[u])
  <2>1. /\ os[u].at = obj[u].at /\ os[u].off = obj[u].off /\ os[u].len = obj[u].len
        /\ (os[u].own => obj[u].own)
    BY <1>1 DEF str_acquire, str_ref, Object
  <2> QED BY <1>1, <2>1 DEF ObjectOK, ReadableIn
<1>8. ASSUME NEW u \in Var PROVE ObjectOK(live', heap', NULL, obj'[u])
  <2>1. CASE u = v
    BY <1>1, <1>3, <1>5, <1>6, <2>1
  <2>2. CASE u # v /\ os[u].at \in gone
    BY <2>2, <1>5, Constructors DEF Forget, ObjectOK
  <2>3. CASE u # v /\ os[u].at \notin gone
    BY <1>2, <1>5, <1>6, <1>7, <2>3 DEF Forget
  <2> QED BY <2>1, <2>2, <2>3
<1>9. \A u \in Var \ {v} : obj'[u].own => u # w /\ obj[u].own /\ obj'[u].at = obj[u].at
  BY <1>2, <1>5, Constructors DEF Forget
<1>10. ASSUME NEW u \in Var, NEW x \in Var, obj'[u].own, obj'[x].own, obj'[u].at = obj'[x].at
       PROVE  u = x
  BY <1>5, <1>9, <1>10 DEF Store, StoreOK
<1>11. ASSUME NEW b \in live' PROVE \E u \in Var : obj'[u].own /\ obj'[u].at = b
  <2>1. b \in live /\ b \notin gone /\ b # NULL
    BY <1>1, <1>4
  <2>2. PICK u \in Var : obj[u].own /\ obj[u].at = b
    BY <2>1 DEF Store, StoreOK
  <2>3. CASE u = w
    BY <1>5, <2>2, <2>3
  <2>4. CASE u # w
    <3>1. os[u] = obj[u] /\ u # v
      BY <1>2, <2>1, <2>2, <2>4 DEF Freed
    <3> QED BY <1>5, <2>1, <2>2, <3>1 DEF Forget
  <2> QED BY <2>3, <2>4
<1>12. StoreOK(obj', live', heap', NULL)
  BY <1>1, <1>4, <1>5, <1>8, <1>10, <1>11 DEF StoreOK
<1> QED BY <1>12 DEF Store

\* Plain assignment of a reference to a variable that is no owner.
LEMMA PlainOK ==
  ASSUME Store, call'.buff = call.buff, NEW v \in Var, ~obj[v].own,
         NEW s \in Object, ~s.own, ObjectOK(live, heap, call.buff, s),
         obj' = [obj EXCEPT ![v] = s], UNCHANGED <<live, heap>>
  PROVE  Store'
<1>1. obj' \in [Var -> Object] /\ \A u \in Var : obj'[u] = IF u = v THEN s ELSE obj[u]
  BY DEF Store, StoreOK
<1>2. StoreOK(obj', live, heap, call.buff)
  BY <1>1 DEF Store, StoreOK
<1> QED BY <1>2 DEF Store

LEMMA SwapOK ==
  ASSUME Store, call'.buff = call.buff, NEW v \in Var, NEW w \in Var,
         obj' = [obj EXCEPT ![v] = obj[w], ![w] = obj[v]], UNCHANGED <<live, heap>>
  PROVE  Store'
<1> DEFINE other(u) == IF u = w THEN v ELSE IF u = v THEN w ELSE u
<1>1. /\ obj \in [Var -> Object] /\ obj' \in [Var -> Object]
      /\ \A u \in Var : obj'[u] = obj[other(u)]
  BY DEF Store, StoreOK
<1>2. \A u \in Var : other(u) \in Var /\ other(other(u)) = u
  OBVIOUS
<1> HIDE DEF other
<1>3. \A u \in Var : ObjectOK(live, heap, call.buff, obj'[u])
  BY <1>1, <1>2 DEF Store, StoreOK
<1>4. ASSUME NEW u \in Var, NEW t \in Var, obj'[u].own, obj'[t].own, obj'[u].at = obj'[t].at
      PROVE  u = t
  <2>1. other(u) = other(t)
    BY <1>1, <1>2, <1>4 DEF Store, StoreOK
  <2> QED BY <1>2, <2>1
<1>5. ASSUME NEW b \in live, b # call.buff PROVE \E u \in Var : obj'[u].own /\ obj'[u].at = b
  <2>1. PICK u \in Var : obj[u].own /\ obj[u].at = b
    BY <1>5 DEF Store, StoreOK
  <2>2. obj'[other(u)] = obj[u] /\ other(u) \in Var
    BY <1>1, <1>2
  <2> QED BY <2>1, <2>2
<1>6. StoreOK(obj', live, heap, call.buff)
  BY <1>1, <1>3, <1>4, <1>5 DEF Store, StoreOK
<1> QED BY <1>6 DEF Store

----------------------------------------------------------------------------
(* The program's own steps. *)

LEMMA NoCallOK == call = NoCall => call \in CallRecord /\ ArgumentsOK /\ CallOK
<1> SUFFICES ASSUME call = NoCall PROVE call \in CallRecord /\ ArgumentsOK /\ CallOK
  OBVIOUS
<1>1. <<>> \in Seq(Object \cup SmallRef) /\ <<0>> \in Seq(Nat) /\ <<>> \in Seq(Nat)
  BY EmptySeq
<1>2. call \in CallRecord
  BY <1>1, Constructors DEF NoCall, CallRecord
<1>3. ArgumentsOK
  BY Constructors, MemAssumption DEF NoCall, ArgumentsOK, ArgumentOK, Argument, Readable, str_null
<1>4. CallOK
  BY DEF NoCall, CallOK, FormatOK, LoopOK, BufferOK, Formatting, Looping
<1> QED BY <1>2, <1>3, <1>4

LEMMA NoCallOKPrimed == (call = NoCall => call \in CallRecord /\ ArgumentsOK /\ CallOK)'
BY NoCallOK, PTL

\* A step that ends with no call in progress preserves the invariant if it
\* preserves the store's half.
LEMMA Returned == Store' /\ call' = NoCall => IInv'
BY HalvesPrimed, NoCallOKPrimed

LEMMA ProgramStepOK == IInv /\ ProgramStep => IInv'
<1> SUFFICES ASSUME IInv, ProgramStep PROVE IInv'
  OBVIOUS
<1>1. Store /\ call' = NoCall /\ call.buff = NULL /\ call'.buff = NULL
  <2>1. Idle /\ call' = call
    BY DEF ProgramStep, SetLit, AssignLit, SetSlice, AssignSlice, AssignAnySlice,
           AssignAcquire, str_swap, AssignAcquireMem, Clear
  <2> QED BY <2>1, Halves DEF Idle, NoCall
<1>2. /\ heap \in [Block -> Seq(Nat)] /\ obj \in [Var -> Object] /\ live \in SUBSET Block
      /\ \A u \in Var : ObjectOK(live, heap, NULL, obj[u])
      /\ NULL \notin Block
  BY <1>1, HeapAssumption DEF Store, StoreOK
<1>3. ASSUME NEW v \in Var, NEW a \in Literal, SetLit(v, a) \/ AssignLit(v, a)
      PROVE  Store'
  <2>1. ObjectOK(live, heap, NULL, str_lit(a)) /\ str_lit(a).at \notin Freed(obj[v])
    BY <1>2, Constructors DEF ObjectOK, Freed
  <2> QED BY <1>1, <1>3, <2>1, Constructors, PlainOK, AssignRef DEF SetLit, AssignLit
<1>4. ASSUME NEW v \in Var, NEW w \in Var, NEW i \in 0 .. MaxLen + 1, NEW j \in 0 .. MaxLen + 1,
             SetSlice(v, w, i, j) \/ AssignSlice(v, w, i, j)
      PROVE  Store'
  <2> DEFINE r == str_ref_slice(obj[w], i, j)
  <2>1. Readable(obj[w]) /\ i \in Nat /\ j \in Nat
    BY <1>4, MemAssumption DEF SetSlice, AssignSlice, AssignAnySlice
  <2>2. r \in Object /\ ReadableIn(live, heap, r) /\ ~r.own /\ (r = str_null \/ r.at = obj[w].at)
    <3>1. ReadableIn(live, heap, obj[w]) /\ obj[w] \in Object
      BY <1>2, <2>1, ReadableHere
    <3>2. live \in SUBSET Block /\ heap \in [Block -> Seq(Nat)]
      BY <1>2
    <3>3. PartOf(live, heap, obj[w], r)
      BY <2>1, <3>1, <3>2, SliceOK
    <3> QED BY <3>3 DEF PartOf
  <2>3. ObjectOK(live, heap, NULL, r) /\ (r.at \in Block => r.at \in live)
    BY <1>2, <2>2, Constructors DEF ObjectOK
  <2>4. CASE SetSlice(v, w, i, j)
    BY <1>1, <2>2, <2>3, <2>4, PlainOK DEF SetSlice
  <2>5. CASE AssignSlice(v, w, i, j)
    BY <1>1, <2>2, <2>3, <2>5, AssignRef DEF AssignSlice, AssignAnySlice, MayAssign
  <2> QED BY <1>4, <2>4, <2>5
<1>5. ASSUME NEW v \in Var, NEW w \in Var, AssignAcquire(v, w) \/ str_swap(v, w)
      PROVE  Store'
  BY <1>1, <1>5, AssignAcquireOK, SwapOK DEF str_swap
<1>6. ASSUME NEW v \in Var, NEW a \in Literal, NEW b \in Block, AssignAcquireMem(v, a, b)
      PROVE  Store'
  <2> DEFINE h == [heap EXCEPT ![b] = LitText[a]]
             n == Len(LitText[a])
  <2>1. LitText[a] \in Seq(Nat) /\ n \in Nat
    BY HeapAssumption, LenProperties
  <2>2. h \in [Block -> Seq(Nat)] /\ h[b] = LitText[a] /\ \A c \in Block \ {b} : h[c] = heap[c]
    BY <1>2, <2>1
  <2>3. b \notin live /\ AssignOwned(h, v, b, n)
    BY <1>6 DEF AssignAcquireMem
  <2>4. n <= Len(h[b])
    BY <2>1, <2>2
  <2> HIDE DEF h, n
  <2> QED BY <1>1, <2>1, <2>2, <2>3, <2>4, AssignOwnedOK
<1>7. ASSUME NEW v \in Var, Clear(v) PROVE Store'
  <2>1. str_null.at \notin Freed(obj[v]) /\ ReadableIn(live, heap, str_null)
    BY <1>2, Constructors DEF Freed, ObjectOK, ReadableIn
  <2> QED BY <1>1, <1>7, <2>1, Constructors, AssignRef DEF Clear, str_clear
<1>8. Store'
  BY <1>3, <1>4, <1>5, <1>6, <1>7 DEF ProgramStep
<1> QED BY <1>1, <1>8, Returned

----------------------------------------------------------------------------
(* A call starts. *)

LEMMA TotalsOK ==
  ASSUME NEW S, NEW src \in Seq(S), NEW t \in calc_total_length(src)
  PROVE  /\ t \in Seq(Nat) /\ Len(t) = Len(src) + 1 /\ t[1] = 0
         /\ \A k \in 1 .. Len(src) : t[k + 1] = t[k] + src[k].len
<1>1. Len(src) \in Nat /\ DOMAIN src = 1 .. Len(src)
  BY LenProperties
<1>2. t \in [1 .. Len(src) + 1 -> Nat]
  BY <1>1, MemAssumption DEF calc_total_length
<1>3. t \in Seq(Nat)
  BY <1>1, <1>2, SeqDef
<1>4. Len(t) = Len(src) + 1
  BY <1>1, <1>2, <1>3, LenProperties
<1> QED BY <1>1, <1>3, <1>4 DEF calc_total_length

LEMMA EnterOK ==
  ASSUME IInv, NEW fn \in {"sprintf", "concat", "join", "repeat"}, NEW d \in Var,
         NEW sep \in Object, sep.at \in Block => sep.at \in live,
         NEW src \in Seq(Object), \A k \in DOMAIN src : src[k].at \in Block => src[k].at \in live,
         fn = "repeat" => Len(src) = 1,
         NEW times \in Nat, Enter(fn, d, sep, src, times)
  PROVE  IInv'
<1> DEFINE f == Loop(fn, sep, src)
<1>1. PICK t \in calc_total_length(src) :
        call' = [NoCall EXCEPT !.fn = f, !.dest = d, !.sep = sep, !.src = src, !.times = times,
                               !.starts = t]
  BY DEF Enter
<1>2. /\ call'.fn = f /\ call'.dest = d /\ call'.sep = sep /\ call'.src = src
      /\ call'.times = times /\ call'.starts = t /\ call'.small = <<>> /\ call'.buff = NULL
      /\ call'.n = 0 /\ call'.i = 1
  BY <1>1 DEF NoCall
<1>3. /\ t \in Seq(Nat) /\ Len(t) = Len(src) + 1 /\ t[1] = 0
      /\ \A k \in 1 .. Len(src) : t[k + 1] = t[k] + src[k].len
  BY TotalsOK
<1>4. /\ f \in {"sprintf", "concat", "join", "repeat"}
      /\ f = "join" => Len(src) >= 2
      /\ f = "repeat" => Len(src) = 1
      /\ Len(src) \in Nat /\ DOMAIN src = 1 .. Len(src)
  BY LenProperties DEF Loop
<1>5. call' \in CallRecord
  <2>1. src \in Seq(Object \cup SmallRef) /\ <<>> \in Seq(Nat)
    BY SeqMonotonic, EmptySeq
  <2>2. call' = [fn |-> f, dest |-> d, sep |-> sep, src |-> src, times |-> times, starts |-> t,
                 small |-> <<>>, buff |-> NULL, n |-> 0, i |-> 1]
    BY <1>1 DEF NoCall
  <2> HIDE DEF f
  <2> QED BY <1>3, <1>4, <2>1, <2>2 DEF CallRecord
<1>6. Store'
  BY <1>2, Halves DEF Enter, Idle, NoCall, Store
<1>7. ArgumentsOK'
  <2>1. /\ Readable(sep) /\ \A k \in DOMAIN src : Readable(src[k])
        /\ live' = live /\ heap' = heap
    BY DEF Enter
  <2>2. live \subseteq Block
    BY Halves DEF Store, StoreOK
  <2>3. ASSUME NEW s \in Object, Readable(s), s.at \in Block => s.at \in live
        PROVE  ArgumentOK(s)'
    <3>1. s.at # STACK
      BY MemAssumption DEF Object
    <3>2. s.at \in Block => s.at \in live \ {NULL}
      BY <2>3, HeapAssumption
    <3> QED BY <1>2, <2>1, <2>3, <3>1, <3>2 DEF ArgumentOK, Argument, Readable, Bytes
  <2> QED BY <1>2, <1>4, <2>1, <2>3, ElementOfSeq DEF ArgumentsOK
<1>8. CallOK'
  <2>1. StartsOK'
    BY <1>2, <1>3 DEF StartsOK
  <2>2. FormatOK'
    <3>1. Len(<<>>) = 0 /\ 0 < SmallBuffSize
      BY MemAssumption
    <3> QED BY <1>2, <1>3, <1>4, <3>1 DEF FormatOK, Formatting, Printed
  <2>3. LoopOK' /\ BufferOK'
    BY <1>2, <1>4 DEF LoopOK, BufferOK, Looping
  <2> HIDE DEF f
  <2> QED BY <1>2, <1>4, <2>1, <2>2, <2>3 DEF CallOK
<1> QED BY <1>5, <1>6, <1>7, <1>8, HalvesPrimed

LEMMA CallStepOK == IInv /\ CallStep => IInv'
<1> SUFFICES ASSUME IInv, CallStep PROVE IInv'
  OBVIOUS
<1>1. /\ obj \in [Var -> Object]
      /\ \A v \in Var : obj[v].at \in Block => obj[v].at \in live
  BY Halves DEF Store, StoreOK, ObjectOK
<1>2. str_null \in Object /\ str_null.at \notin Block
  BY Constructors
<1>3. ASSUME NEW a \in Arrays
      PROVE  /\ Objects(a) \in Seq(Object)
             /\ \A k \in DOMAIN Objects(a) : Objects(a)[k].at \in Block => Objects(a)[k].at \in live
  <2>1. PICK m \in 0 .. MaxArgs : a \in [1 .. m -> Var]
    BY DEF Arrays, SeqOf
  <2>2. Objects(a) \in [1 .. m -> Object] /\ m \in Nat
    BY <1>1, <2>1, MemAssumption DEF Objects
  <2>3. Objects(a) \in Seq(Object)
    BY <2>2, SeqDef
  <2> QED BY <1>1, <2>1, <2>3 DEF Objects
<1>4. ASSUME NEW v \in Var
      PROVE  /\ <<obj[v]>> \in Seq(Object) /\ Len(<<obj[v]>>) = 1
             /\ \A k \in DOMAIN <<obj[v]>> : <<obj[v]>>[k].at \in Block => <<obj[v]>>[k].at \in live
  BY <1>1
<1>5. 0 .. MaxTimes \subseteq Nat /\ 1 \in Nat
  BY MemAssumption
<1>6. ASSUME NEW d \in Var, NEW w \in Var, str_clone(d, w) PROVE IInv'
  BY <1>2, <1>4, <1>5, <1>6, EnterOK DEF str_clone
<1>7. ASSUME NEW d \in Var, NEW a \in Arrays, str_concat_array(d, a) \/ str_sprintf(d, a)
      PROVE  IInv'
  BY <1>2, <1>3, <1>5, <1>7, EnterOK DEF str_concat_array, str_sprintf
<1>8. ASSUME NEW d \in Var, NEW sep \in Var, NEW a \in Arrays, str_join_array(d, sep, a)
      PROVE  IInv'
  BY <1>1, <1>3, <1>5, <1>8, EnterOK DEF str_join_array
<1>9. ASSUME NEW d \in Var, NEW n \in 0 .. MaxTimes, str_repeat(d, n) PROVE IInv'
  BY <1>2, <1>4, <1>5, <1>9, EnterOK DEF str_repeat
<1> QED BY <1>6, <1>7, <1>8, <1>9 DEF CallStep

----------------------------------------------------------------------------
(* The steps of a call. *)

LEMMA StoreSame == Store /\ UNCHANGED <<live, heap, obj>> /\ call'.buff = call.buff => Store'
BY DEF Store

LEMMA CallTypes ==
  ASSUME IInv
  PROVE  /\ heap \in [Block -> Seq(Nat)] /\ live \in SUBSET Block /\ NULL \notin Block
         /\ call.i \in Nat \ {0} /\ call.times \in Nat /\ call.n \in Nat
         /\ call.sep \in Object /\ call.sep.len \in Nat
         /\ call.small \in Seq(Nat) /\ Len(call.small) \in Nat
         /\ call.src \in Seq(Object \cup SmallRef) /\ Len(call.src) \in Nat
         /\ DOMAIN call.src = 1 .. Len(call.src)
         /\ \A k \in 1 .. Len(call.src) : /\ call.src[k] \in Object \cup SmallRef
                                          /\ call.src[k].len \in Nat
         /\ call.starts \in Seq(Nat)
         /\ \A k \in 1 .. Len(call.starts) : call.starts[k] \in Nat
<1>1. call \in CallRecord
  BY Halves
<1>2. /\ call.src \in Seq(Object \cup SmallRef) /\ call.starts \in Seq(Nat)
      /\ call.small \in Seq(Nat)
  BY <1>1 DEF CallRecord
<1>3. \A s \in Object \cup SmallRef : s.len \in Nat
  BY DEF Object, SmallRef
<1>4. /\ Len(call.src) \in Nat /\ DOMAIN call.src = 1 .. Len(call.src)
      /\ Len(call.small) \in Nat
      /\ \A k \in 1 .. Len(call.src) : call.src[k] \in Object \cup SmallRef
  BY <1>2, LenProperties, ElementOfSeq
<1>5. \A k \in 1 .. Len(call.starts) : call.starts[k] \in Nat
  BY <1>2, ElementOfSeq
<1>6. heap \in [Block -> Seq(Nat)] /\ live \in SUBSET Block /\ NULL \notin Block
  BY Halves, HeapAssumption DEF Store, StoreOK
<1> QED BY <1>1, <1>2, <1>3, <1>4, <1>5, <1>6 DEF CallRecord

LEMMA CallReturnsOK == IInv /\ (FormatFails \/ ReturnSame \/ ReturnEmpty) => IInv'
<1> SUFFICES ASSUME IInv, FormatFails \/ ReturnSame \/ ReturnEmpty PROVE IInv'
  OBVIOUS
<1>1. call.buff = NULL /\ call' = NoCall /\ call'.buff = NULL
  BY Halves DEF FormatFails, ReturnSame, ReturnEmpty, NothingToRepeat, CallOK, FormatOK, NoCall
<1>2. CASE FormatFails \/ ReturnSame
  BY <1>1, <1>2, Halves, StoreSame, Returned DEF FormatFails, ReturnSame
<1>3. CASE ReturnEmpty
  <2>1. call.dest \in Var
    BY <1>3, Halves DEF ReturnEmpty, CallOK, Looping, Formatted, Formatting
  <2>2. str_null.at \notin Freed(obj[call.dest]) /\ ReadableIn(live, heap, str_null)
    BY <2>1, Halves, Constructors DEF Store, StoreOK, ObjectOK, Freed, ReadableIn
  <2>3. str_assign(obj, call.dest, str_null)
    BY <1>3 DEF ReturnEmpty, str_clear
  <2>4. Store'
    BY <1>1, <2>1, <2>2, <2>3, Halves, Constructors, AssignRef
  <2> QED BY <1>1, <2>4, Returned
<1> QED BY <1>2, <1>3

LEMMA mem_failureOK == IInv /\ mem_failure => IInv'
<1> SUFFICES ASSUME IInv, mem_failure PROVE IInv'
  OBVIOUS
<1>1. call.buff = NULL /\ call' = Exited /\ UNCHANGED <<live, heap, obj>>
  BY DEF mem_failure, Sized
<1>2. Exited = [fn |-> "exited", dest |-> NULL, sep |-> str_null, src |-> <<>>,
                times |-> 1, starts |-> <<0>>, small |-> <<>>, buff |-> NULL, n |-> 0, i |-> 1]
  BY DEF Exited, NoCall
<1>3. call' \in CallRecord
  <2>1. <<>> \in Seq(Object \cup SmallRef) /\ <<0>> \in Seq(Nat) /\ <<>> \in Seq(Nat)
    BY EmptySeq
  <2> QED BY <1>1, <1>2, <2>1, Constructors DEF CallRecord
<1>4. Store'
  BY <1>1, <1>2, Halves, StoreSame
<1>5. ArgumentsOK'
  BY <1>1, <1>2, Constructors, MemAssumption
     DEF ArgumentsOK, ArgumentOK, Argument, Readable, str_null
<1>6. CallOK'
  BY <1>1, <1>2 DEF CallOK, FormatOK, LoopOK, BufferOK, Formatting, Looping
<1> QED BY <1>3, <1>4, <1>5, <1>6, HalvesPrimed

\* Of a text that starts at offset a, as much is kept as fits in front of
\* the NUL.
LEMMA PrintedMore ==
  ASSUME NEW a \in Nat, NEW t \in Nat
  PROVE  /\ Printed(a) \in Nat /\ SmallBuffSize - 1 - Printed(a) \in Nat
         /\ Printed(a + t) = Printed(a) + IF t <= SmallBuffSize - 1 - Printed(a)
                                          THEN t ELSE SmallBuffSize - 1 - Printed(a)
BY MemAssumption DEF Printed

LEMMA vsnprintfOK == IInv /\ vsnprintf => IInv'
<1> SUFFICES ASSUME IInv, vsnprintf PROVE IInv'
  OBVIOUS
<1> DEFINE room == SmallBuffSize - 1 - Len(call.small)
           text == Text(call.src[call.i])
           kept == IF Len(text) <= room THEN text ELSE SubSeq(text, 1, room)
<1>1. /\ Formatting /\ call.i <= Len(call.src) /\ UNCHANGED <<live, heap, obj>>
      /\ call' = [call EXCEPT !.i = @ + 1, !.small = @ \o kept]
  BY DEF vsnprintf
<1>2. /\ call.fn = "sprintf" /\ call.buff = NULL /\ StartsOK
      /\ call.src \in Seq(Object) /\ call.i \in 1 .. Len(call.src)
      /\ Len(call.small) = Printed(call.starts[call.i])
  BY <1>1, Halves, CallTypes DEF CallOK, FormatOK, Formatting
<1>3. /\ call.src[call.i] \in Object /\ Readable(call.src[call.i])
  <2>1. call.src[call.i] \in Object
    BY <1>2, ElementOfSeq
  <2>2. call.src[call.i].at # STACK
    BY <2>1, MemAssumption DEF Object
  <2>3. Argument(call.src[call.i])
    BY <1>2, Halves, CallTypes DEF ArgumentsOK, ArgumentOK
  <2> QED BY <2>1, <2>2, <2>3 DEF Argument
<1>4. text \in Seq(Nat) /\ Len(text) = call.src[call.i].len /\ Len(text) \in Nat
  BY <1>3, CallTypes, TextType, LenProperties
<1>5. /\ call.starts[call.i] \in Nat
      /\ call.starts[call.i + 1] = call.starts[call.i] + Len(text)
  <2>1. \A k \in 1 .. Len(call.src) + 1 : call.starts[k] \in Nat
    BY <1>2, CallTypes DEF StartsOK
  <2>2. \A k \in 1 .. Len(call.src) : call.starts[k + 1] = call.starts[k] + call.src[k].len
    BY <1>2 DEF StartsOK
  <2>3. call.i \in 1 .. Len(call.src) + 1
    BY <1>2, CallTypes
  <2> HIDE DEF text
  <2> QED BY <1>2, <1>4, <2>1, <2>2, <2>3
<1>6. room \in Nat
  BY <1>2, <1>5, PrintedMore
<1>7. kept \in Seq(Nat) /\ Len(kept) = IF Len(text) <= room THEN Len(text) ELSE room
  <2>1. CASE Len(text) <= room
    BY <2>1, <1>4
  <2>2. CASE Len(text) > room
    <3>1. \A k \in 1 .. room : text[k] \in Nat
      BY <1>4, <1>6, <2>2, ElementOfSeq
    <3> HIDE DEF room, text
    <3>2. SubSeq(text, 1, room) \in Seq(Nat) /\ Len(SubSeq(text, 1, room)) = room
      BY <1>6, <3>1, SubSeqProperties
    <3> QED BY <1>4, <1>6, <2>2, <3>2
  <2> QED BY <1>4, <1>6, <2>1, <2>2
<1> HIDE DEF kept
<1>8. call.small \o kept \in Seq(Nat) /\ Len(call.small \o kept) = Len(call.small) + Len(kept)
  <2>1. call.small \in Seq(Nat)
    BY CallTypes
  <2> QED BY <1>7, <2>1, ConcatProperties
<1>9. /\ call' \in CallRecord
      /\ call'.fn = call.fn /\ call'.dest = call.dest /\ call'.sep = call.sep
      /\ call'.src = call.src /\ call'.starts = call.starts /\ call'.buff = call.buff
      /\ call'.i = call.i + 1 /\ call'.small = call.small \o kept
  <2>1. call \in CallRecord /\ call.i + 1 \in Nat \ {0}
    BY Halves, CallTypes
  <2> DEFINE big == call.small \o kept
  <2>2. big \in Seq(Nat) /\ call' = [call EXCEPT !.i = @ + 1, !.small = big]
    BY <1>1, <1>8
  <2> HIDE DEF big
  <2>3. /\ call' \in CallRecord
        /\ call'.fn = call.fn /\ call'.dest = call.dest /\ call'.sep = call.sep
        /\ call'.src = call.src /\ call'.starts = call.starts /\ call'.buff = call.buff
        /\ call'.i = call.i + 1 /\ call'.small = big
    BY <2>1, <2>2 DEF CallRecord
  <2> QED BY <2>3 DEF big
<1>10. Store'
  BY <1>1, <1>9, Halves, StoreSame
<1>11. ArgumentsOK'
  <2>1. \A s \in Object : ArgumentOK(s) => ArgumentOK(s)'
    <3>1. \A s \in Object : s.at # STACK
      BY MemAssumption DEF Object
    <3>2. \A s : s.at # STACK => (Argument(s)' <=> Argument(s))
      BY <1>1 DEF Argument, Readable, Bytes
    <3> QED BY <1>1, <1>9, <3>1, <3>2 DEF ArgumentOK
  <2>2. call.sep \in Object /\ \A k \in DOMAIN call.src : call.src[k] \in Object
    BY <1>2, Halves, CallTypes, ElementOfSeq
  <2>3. ArgumentsOK
    BY Halves
  <2> QED BY <1>9, <2>1, <2>2, <2>3 DEF ArgumentsOK
<1>12. FormatOK'
  <2>1. Len(call'.small) = Len(call.small) + Len(kept)
    BY <1>8, <1>9
  <2>2. Len(kept) = IF Len(text) <= SmallBuffSize - 1 - Printed(call.starts[call.i])
                    THEN Len(text) ELSE SmallBuffSize - 1 - Printed(call.starts[call.i])
    BY <1>2, <1>7
  <2>3. call.starts[call.i] \in Nat /\ Len(text) \in Nat
    BY <1>4, <1>5
  <2> HIDE DEF text
  <2>4. Len(call'.small) = Printed(call.starts[call.i] + Len(text))
    BY <1>2, <2>1, <2>2, <2>3, PrintedMore
  <2>5. Len(call'.small) = Printed(call.starts[call.i + 1])
    BY <1>5, <2>4
  <2> QED BY <1>2, <1>9, <2>5, CallTypes DEF FormatOK
<1>13. CallOK'
  BY <1>1, <1>2, <1>9, <1>12, Halves DEF CallOK, StartsOK, LoopOK, BufferOK, Looping, Formatting
<1> QED BY <1>9, <1>10, <1>11, <1>13, HalvesPrimed

LEMMA ConcatFn ==
  1 \in Nat \ {0} /\ "concat" \in {"none", "exited", "sprintf", "concat", "join", "repeat"}
OBVIOUS

LEMMA PrintedOK == IInv /\ (CloneSmall \/ PrintBig) => IInv'
<1> SUFFICES ASSUME IInv, CloneSmall \/ PrintBig PROVE IInv'
  OBVIOUS
<1> DEFINE n == Size(call)
           ref == str_ref_mem(STACK, 0, n)
<1>1. /\ Formatting /\ ~(call.i <= Len(call.src)) /\ n > 0 /\ UNCHANGED <<live, heap, obj>>
      /\ call.fn = "sprintf" /\ call.buff = NULL /\ StartsOK /\ call.dest \in Var
      /\ call.src \in Seq(Object)
      /\ call.i = Len(call.src) + 1 /\ Len(call.small) = Printed(call.starts[call.i])
  <2>1. Formatting /\ call.i > Len(call.src) /\ n > 0 /\ UNCHANGED <<live, heap, obj>>
    BY DEF CloneSmall, PrintBig, Formatted
  <2> HIDE DEF n
  <2> QED BY <2>1, Halves, CallTypes DEF CallOK, FormatOK, Formatting
<1>2. n = call.starts[call.i] /\ n \in Nat
  BY <1>1, CallTypes DEF Size, StartsOK
<1>3. Store' /\ call'.buff = NULL
  <2>1. call'.buff = NULL
    BY <1>1, Halves DEF CloneSmall, PrintBig, CallRecord
  <2> QED BY <1>1, <2>1, Halves, StoreSame
<1> HIDE DEF n
<1>4. ASSUME PrintBig PROVE IInv'
  <2>1. /\ call' \in CallRecord
        /\ call'.fn = "concat" /\ call'.dest = call.dest /\ call'.sep = call.sep
        /\ call'.src = call.src /\ call'.starts = call.starts /\ call'.small = call.small
        /\ call'.i = 1
    <3>1. call' = [call EXCEPT !.fn = "concat", !.i = 1] /\ call \in CallRecord
      BY <1>4, Halves DEF PrintBig
    <3>2. call' \in CallRecord
      BY <3>1, ConcatFn DEF CallRecord
    <3> QED BY <3>1, <3>2 DEF CallRecord
  <2>2. ArgumentsOK'
    BY <1>1, <1>3, <2>1, Halves DEF ArgumentsOK, ArgumentOK, Argument, Readable, Bytes
  <2>3. CallOK'
    BY <1>1, <1>3, <2>1
       DEF CallOK, StartsOK, FormatOK, LoopOK, BufferOK, Looping, Formatting
  <2> QED BY <1>3, <2>1, <2>2, <2>3, HalvesPrimed
<1>5. ASSUME CloneSmall PROVE IInv'
  <2>1. n < SmallBuffSize
    BY <1>5 DEF CloneSmall, FitsSmall, n
  <2>2. Len(call.small) = n
    BY <1>1, <1>2, <2>1 DEF Printed
  <2>3. ref = [at |-> STACK, off |-> 0, len |-> n, own |-> FALSE]
    BY <1>1, MemAssumption DEF str_ref_mem
  <2>4. ref \in SmallRef /\ ref.at = STACK /\ ref.off = 0 /\ ref.len = n
    <3> HIDE DEF ref
    <3> QED BY <1>2, <2>3 DEF SmallRef
  <2>5. Append(call.small, 0) \in Seq(Nat) /\ Len(Append(call.small, 0)) = n + 1
    <3>1. call.small \in Seq(Nat)
      BY CallTypes
    <3> QED BY <2>2, <3>1, AppendProperties
  <2>6. <<0, n>> \in Seq(Nat) /\ Len(<<0, n>>) = 2 /\ <<0, n>>[1] = 0 /\ <<0, n>>[2] = n
    BY <1>2
  <2>7. /\ <<ref>> \in Seq(Object \cup SmallRef) /\ Len(<<ref>>) = 1 /\ <<ref>>[1] = ref
        /\ DOMAIN <<ref>> = {1}
    BY <2>4
  <2>8. /\ call' \in CallRecord
        /\ call'.fn = "concat" /\ call'.dest = call.dest /\ call'.sep = call.sep
        /\ call'.src = <<ref>> /\ call'.starts = <<0, n>> /\ call'.i = 1
        /\ call'.small = Append(call.small, 0)
    <3> DEFINE sm == Append(call.small, 0)
               sr == <<ref>>
               st == <<0, n>>
    <3>1. call' = [call EXCEPT !.fn = "concat", !.i = 1, !.src = sr, !.starts = st, !.small = sm]
      BY <1>5 DEF CloneSmall, n
    <3>2. call \in CallRecord /\ sm \in Seq(Nat) /\ st \in Seq(Nat) /\ sr \in Seq(Object \cup SmallRef)
      BY <2>5, <2>6, <2>7, Halves
    <3> HIDE DEF sm, sr, st
    <3>3. call' \in CallRecord
      BY <3>1, <3>2, ConcatFn DEF CallRecord
    <3>4. /\ call'.fn = "concat" /\ call'.dest = call.dest /\ call'.sep = call.sep
          /\ call'.src = sr /\ call'.starts = st /\ call'.i = 1 /\ call'.small = sm
      BY <3>1, <3>2 DEF CallRecord
    <3> QED BY <3>3, <3>4 DEF sm, sr, st
  <2> HIDE DEF ref
  <2>9. ArgumentsOK'
    <3>1. call.sep.at # STACK
      BY CallTypes, MemAssumption DEF Object
    <3>2. ArgumentOK(call.sep)'
      BY <1>1, <1>3, <2>8, <3>1, Halves DEF ArgumentsOK, ArgumentOK, Argument, Readable, Bytes
    <3>3. ref.off + ref.len <= Len(call'.small) /\ ref.at = STACK /\ STACK \notin Block
      BY <1>2, <2>4, <2>5, <2>8, MemAssumption
    <3>4. ArgumentOK(call.src[1])'
      BY <2>7, <2>8, <3>3 DEF ArgumentOK, Argument
    <3> QED BY <2>7, <2>8, <3>2, <3>4 DEF ArgumentsOK
  <2>10. StartsOK'
    BY <1>2, <2>4, <2>6, <2>7, <2>8 DEF StartsOK
  <2>11. CallOK'
    BY <1>1, <1>3, <2>8, <2>10
       DEF CallOK, FormatOK, LoopOK, BufferOK, Looping, Formatting
  <2> QED BY <1>3, <2>8, <2>9, <2>11, HalvesPrimed
<1> QED BY <1>4, <1>5

----------------------------------------------------------------------------
(* The body of a call. *)

LEMMA SizeType ==
  ASSUME IInv, Looping
  PROVE  Size(call) \in Nat /\ call.dest \in Var /\ StartsOK
<1>1. StartsOK /\ call.dest \in Var
  BY Halves DEF CallOK, Looping
<1>2. call.starts[Len(call.src) + 1] \in Nat
  BY <1>1, CallTypes DEF StartsOK
<1>3. CASE call.fn = "join"
  <2>1. Len(call.src) - 1 \in Nat
    BY <1>3, Halves, CallTypes DEF CallOK, LoopOK, Looping
  <2>2. call.sep.len * (Len(call.src) - 1) \in Nat
    <3>1. \A x, y \in Nat : x * y \in Nat
      OBVIOUS
    <3> QED BY <2>1, <3>1, CallTypes
  <2> QED BY <1>1, <1>2, <1>3, <2>2 DEF Size
<1>4. CASE call.fn = "repeat"
  <2>1. call.src[1].len \in Nat
    BY <1>4, Halves, CallTypes DEF CallOK, LoopOK, Looping
  <2> QED BY <1>1, <1>4, <2>1, CallTypes DEF Size
<1>5. CASE call.fn = "concat"
  BY <1>1, <1>2, <1>5 DEF Size
<1> QED BY <1>3, <1>4, <1>5 DEF Looping

LEMMA mem_allocOK == ASSUME IInv, NEW b \in Block, mem_alloc(b) PROVE IInv'
<1>1. /\ Looping /\ call.buff = NULL /\ Size(call) > 0 /\ b \notin live
      /\ live' = live \cup {b} /\ heap' = [heap EXCEPT ![b] = <<>>] /\ obj' = obj
      /\ call' = [call EXCEPT !.buff = b, !.n = Size(call)] /\ ~NothingToRepeat
  BY DEF mem_alloc, Sized
<1>2. Size(call) \in Nat /\ call.dest \in Var /\ StartsOK /\ call.i = 1
  BY <1>1, SizeType, Halves DEF CallOK, LoopOK
<1>3. /\ call' \in CallRecord
      /\ call'.fn = call.fn /\ call'.dest = call.dest /\ call'.sep = call.sep
      /\ call'.src = call.src /\ call'.starts = call.starts /\ call'.small = call.small
      /\ call'.i = 1 /\ call'.times = call.times /\ call'.buff = b /\ call'.n = Size(call)
  BY <1>1, <1>2, Halves DEF CallRecord
<1>4. /\ heap' \in [Block -> Seq(Nat)] /\ heap'[b] = <<>>
      /\ \A c \in Block \ {b} : heap'[c] = heap[c]
  BY <1>1, CallTypes, EmptySeq
<1>5. Store'
  <2>1. ASSUME NEW v \in Var PROVE ObjectOK(live', heap', b, obj[v])
    <3>1. ObjectOK(live, heap, NULL, obj[v]) /\ obj[v].at # b
      BY <1>1, Halves DEF Store, StoreOK, ObjectOK
    <3>2. Contents(heap', obj[v].at) = Contents(heap, obj[v].at)
      BY <1>4, <3>1 DEF Contents
    <3> QED BY <1>1, <3>1, <3>2 DEF ObjectOK, ReadableIn
  <2>2. \A c \in live' : c = b \/ \E v \in Var : obj[v].own /\ obj[v].at = c
    BY <1>1, Halves, HeapAssumption DEF Store, StoreOK
  <2>3. StoreOK(obj, live', heap', b)
    BY <1>1, <1>4, <2>1, <2>2, Halves DEF Store, StoreOK
  <2> QED BY <1>1, <1>3, <2>3 DEF Store
<1>6. ArgumentsOK'
  <2>1. ASSUME NEW s, ArgumentOK(s) PROVE ArgumentOK(s)'
    BY <1>1, <1>3, <1>4, <2>1 DEF ArgumentOK, Argument, Readable, Bytes
  <2> QED BY <1>3, <2>1, Halves DEF ArgumentsOK
<1>7. CallOK'
  <2>1. StartsOK' /\ FormatOK' /\ LoopOK'
    BY <1>1, <1>2, <1>3, Halves, CallTypes
       DEF CallOK, StartsOK, FormatOK, LoopOK, Formatting, Looping
  <2>2. Written(call)' = 0
    <3>1. CASE call.fn = "repeat"
      <4>1. Len(call.src) = 1
        BY <1>1, <3>1, Halves DEF CallOK, LoopOK
      <4>2. call.src[1].len \in Nat
        BY <4>1, CallTypes
      <4> QED BY <1>3, <3>1, <4>2 DEF Written, Copies
    <3>2. CASE call.fn # "repeat"
      BY <1>2, <1>3, <3>2 DEF Written, StartsOK
    <3> QED BY <3>1, <3>2
  <2>3. BufferOK'
    <3>1. Size(call)' = Size(call)
      BY <1>3 DEF Size
    <3> QED BY <1>1, <1>2, <1>3, <1>4, <2>2, <3>1, CallTypes DEF BufferOK, Looping
  <2> QED BY <1>1, <1>2, <1>3, <2>1, <2>3 DEF CallOK, Looping
<1> QED BY <1>3, <1>5, <1>6, <1>7, HalvesPrimed

LEMMA PieceTextType ==
  ASSUME IInv, NEW s \in Object \cup SmallRef, Argument(s)
  PROVE  PieceText(s) \in Seq(Nat) /\ Len(PieceText(s)) = s.len
<1>1. CASE s.at = STACK
  <2>1. s.off \in Nat /\ s.len \in Nat /\ s.off + s.len <= Len(call.small)
    <3>1. s.off \in Nat /\ s.len \in Nat
      <4>1. CASE s \in Object
        BY <4>1 DEF Object
      <4>2. CASE s \in SmallRef
        BY <4>2 DEF SmallRef
      <4> QED BY <4>1, <4>2
    <3> QED BY <1>1, <3>1 DEF Argument
  <2>2. \A k \in s.off + 1 .. s.off + s.len : call.small[k] \in Nat
    <3>1. call.small \in Seq(Nat) /\ Len(call.small) \in Nat
      BY CallTypes
    <3>2. s.off + 1 .. s.off + s.len \subseteq 1 .. Len(call.small)
      BY <2>1, <3>1
    <3> QED BY <3>1, <3>2, ElementOfSeq
  <2>3. /\ SubSeq(call.small, s.off + 1, s.off + s.len) \in Seq(Nat)
        /\ Len(SubSeq(call.small, s.off + 1, s.off + s.len)) =
             IF s.off + 1 <= s.off + s.len THEN (s.off + s.len) - (s.off + 1) + 1 ELSE 0
    BY <2>1, <2>2, SubSeqProperties
  <2> QED BY <1>1, <2>1, <2>3 DEF PieceText
<1>2. CASE s.at # STACK
  <2>1. s \in Object /\ Readable(s)
    BY <1>2 DEF Argument, SmallRef
  <2> QED BY <1>2, <2>1, CallTypes, TextType DEF PieceText
<1> QED BY <1>1, <1>2

LEMMA OneMoreCopy ==
  ASSUME NEW len \in Nat, NEW n \in Nat
  PROVE  Copies(len, n) \in Nat /\ Copies(len, n + 1) = Copies(len, n) + len
BY DEF Copies

\* The call's record one piece later.
Advanced(c) ==
  /\ c.i = call.i + 1
  /\ c.fn = call.fn /\ c.src = call.src /\ c.starts = call.starts /\ c.sep = call.sep

\* While there is more to write, the next piece is in the array, and writing
\* it takes the loop to its next position.
LEMMA PieceOK ==
  ASSUME IInv, More
  PROVE  /\ call.fn # "repeat" => call.i \in 1 .. Len(call.src)
         /\ call.i < (IF call.fn = "repeat" THEN call.times ELSE Len(call.src)) + 1
         /\ Piece \in Seq(Nat)
         /\ \A c : Advanced(c) => Written(c) = Written(call) + Len(Piece)
<1>1. Looping /\ call.buff # NULL /\ BufferOK /\ StartsOK /\ LoopOK
  BY Halves, SizeType DEF More, CallOK
<1>2. /\ \A k \in 1 .. Len(call.src) : /\ Argument(call.src[k])
                                       /\ call.src[k] \in Object \cup SmallRef
                                       /\ call.src[k].len \in Nat
                                       /\ call.starts[k] \in Nat
                                       /\ call.starts[k + 1] = call.starts[k] + call.src[k].len
  <2>1. \A k \in 1 .. Len(call.src) : Argument(call.src[k])
    BY Halves, CallTypes DEF ArgumentsOK, ArgumentOK
  <2>2. \A k \in 1 .. Len(call.src) : /\ call.src[k] \in Object \cup SmallRef
                                       /\ call.src[k].len \in Nat
    BY CallTypes
  <2>3. \A k \in 1 .. Len(call.src) : call.starts[k] \in Nat
    BY <1>1, CallTypes DEF StartsOK
  <2>4. \A k \in 1 .. Len(call.src) : call.starts[k + 1] = call.starts[k] + call.src[k].len
    BY <1>1 DEF StartsOK
  <2> QED BY <2>1, <2>2, <2>3, <2>4
<1>3. call.i \in Nat \ {0} /\ Len(call.src) \in Nat /\ call.times \in Nat /\ call.sep.len \in Nat
  BY CallTypes
<1>4. /\ call.n = Size(call)
      /\ call.i <= (IF call.fn = "repeat" THEN call.times ELSE Len(call.src)) + 1
      /\ Len(heap[call.buff]) = Written(call)
  BY <1>1 DEF BufferOK
<1>5. CASE call.fn = "repeat"
  <2>1. Len(call.src) = 1 /\ call.src \in Seq(Object) /\ call.i <= call.times
    BY <1>1, <1>5 DEF LoopOK, More
  <2>2. call.src[1] \in Object /\ Argument(call.src[1]) /\ call.src[1].at # STACK
    <3>1. call.src[1] \in Object
      BY <2>1, ElementOfSeq
    <3>2. call.src[1].at # STACK
      BY <3>1, MemAssumption DEF Object
    <3> QED BY <1>2, <2>1, <3>1, <3>2
  <2>3. Text(call.src[1]) \in Seq(Nat) /\ Len(Text(call.src[1])) = call.src[1].len
    BY <2>2, CallTypes, TextType DEF Argument
  <2> DEFINE was == Copies(call.src[1].len, call.i - 1)
             is  == Copies(call.src[1].len, call.i - 1 + 1)
  <2>4. call.src[1].len \in Nat /\ call.i - 1 \in Nat /\ call.i - 1 + 1 = call.i + 1 - 1
    BY <1>2, <1>3, <2>1
  <2>5. was \in Nat /\ is = was + call.src[1].len
    BY <2>4, OneMoreCopy
  <2>6. Piece = Text(call.src[1]) /\ Written(call) = was
    BY <1>5 DEF Piece, Written
  <2>7. ASSUME NEW c, Advanced(c)
        PROVE  Written(c) = is
    <3>1. c.fn = "repeat" /\ c.i - 1 = call.i - 1 + 1 /\ c.src = call.src
      BY <1>3, <1>5, <2>7 DEF Advanced
    <3>2. Written(c) = Copies(c.src[1].len, c.i - 1)
      BY <3>1 DEF Written
    <3> QED BY <3>1, <3>2
  <2> HIDE DEF was, is
  <2> QED BY <1>3, <1>5, <2>1, <2>3, <2>5, <2>6, <2>7
<1>6. CASE call.fn = "concat"
  <2>1. call.i # Len(call.src) + 1
    BY <1>3, <1>4, <1>6 DEF More, Written, Size
  <2>2. call.i \in 1 .. Len(call.src)
    BY <1>3, <1>4, <1>6, <2>1
  <2>3. PieceText(call.src[call.i]) \in Seq(Nat) /\ Len(PieceText(call.src[call.i])) = call.src[call.i].len
    BY <1>2, <2>2, PieceTextType
  <2> QED BY <1>2, <1>3, <1>6, <2>2, <2>3 DEF Piece, Written, Advanced
<1>7. CASE call.fn = "join"
  <2>1. Len(call.src) >= 2 /\ call.src \in Seq(Object)
    BY <1>1, <1>7 DEF LoopOK
  <2>2. call.i # Len(call.src) + 1
    <3>1. ASSUME call.i = Len(call.src) + 1 PROVE Written(call) = Size(call)
      <4>1. call.i > 1 /\ call.i - 2 = Len(call.src) - 1
        BY <1>3, <2>1, <3>1
      <4> QED BY <1>7, <3>1, <4>1 DEF Written, Size, Copies
    <3> QED BY <1>3, <1>4, <1>7, <3>1, SizeType, <1>1 DEF More
  <2>3. call.i \in 1 .. Len(call.src)
    BY <1>3, <1>4, <1>7, <2>2
  <2>4. ASSUME NEW s \in Object, Argument(s) PROVE Text(s) \in Seq(Nat) /\ Len(Text(s)) = s.len
    <3>1. Readable(s)
      BY <2>4, MemAssumption DEF Argument, Object
    <3> QED BY <3>1, CallTypes, TextType
  <2>5. /\ call.src[call.i] \in Object /\ Argument(call.src[call.i]) /\ call.src[call.i].at # STACK
        /\ call.sep \in Object /\ Argument(call.sep)
    <3>1. call.src[call.i] \in Object
      BY <2>1, <2>3, ElementOfSeq
    <3>2. call.src[call.i].at # STACK
      BY <3>1, MemAssumption DEF Object
    <3>3. call.sep \in Object /\ Argument(call.sep)
      BY Halves, CallTypes DEF ArgumentsOK, ArgumentOK
    <3> QED BY <1>2, <2>3, <3>1, <3>2, <3>3
  <2>6. /\ Text(call.src[call.i]) \in Seq(Nat) /\ Len(Text(call.src[call.i])) = call.src[call.i].len
        /\ Text(call.sep) \in Seq(Nat) /\ Len(Text(call.sep)) = call.sep.len
    BY <2>4, <2>5
  <2>7. CASE call.i = 1
    <3>1. Piece = Text(call.src[1]) /\ Written(call) = 0
      BY <1>1, <1>7, <2>5, <2>7 DEF Piece, PieceText, Written, StartsOK
    <3>2. call.starts[2] = call.src[1].len /\ call.src[1].len \in Nat
      BY <1>1, <1>2, <2>1, <2>3, <2>7 DEF StartsOK
    <3>3. ASSUME NEW c, Advanced(c)
          PROVE  Written(c) = call.starts[2] + Copies(call.sep.len, 0)
      <4>1. /\ c.fn = "join" /\ c.i = 2 /\ c.i - 2 = 0
            /\ c.starts = call.starts /\ c.sep = call.sep
        BY <1>7, <2>7, <3>3 DEF Advanced
      <4>2. Written(c) = c.starts[c.i] + Copies(c.sep.len, c.i - 2)
        BY <4>1 DEF Written
      <4> QED BY <4>1, <4>2
    <3>4. Copies(call.sep.len, 0) = 0
      BY <1>3 DEF Copies
    <3> QED BY <1>3, <1>7, <2>1, <2>3, <2>6, <2>7, <3>1, <3>2, <3>3, <3>4
  <2>8. CASE call.i > 1
    <3>1. Piece = Text(call.sep) \o Text(call.src[call.i])
      BY <1>7, <2>8 DEF Piece
    <3>2. Piece \in Seq(Nat) /\ Len(Piece) = call.sep.len + call.src[call.i].len
      BY <2>6, <3>1, ConcatProperties
    <3> DEFINE was == Copies(call.sep.len, call.i - 2)
               is  == Copies(call.sep.len, call.i - 2 + 1)
    <3>9. call.i - 2 \in Nat /\ call.i - 2 + 1 = call.i + 1 - 2 /\ call.i + 1 > 1
      BY <1>3, <2>8
    <3>3. was \in Nat /\ is = was + call.sep.len
      BY <1>3, <3>9, OneMoreCopy
    <3>4. Written(call) = call.starts[call.i] + was
      BY <1>7, <2>8 DEF Written
    <3>5. ASSUME NEW c, Advanced(c)
          PROVE  Written(c) = call.starts[call.i + 1] + is
      <4>1. /\ c.fn = "join" /\ c.i > 1 /\ c.i = call.i + 1 /\ c.i - 2 = call.i - 2 + 1
            /\ c.starts = call.starts /\ c.sep = call.sep
        BY <1>3, <1>7, <2>8, <3>5 DEF Advanced
      <4>2. Written(c) = c.starts[c.i] + Copies(c.sep.len, c.i - 2)
        BY <4>1 DEF Written
      <4>3. Copies(c.sep.len, c.i - 2) = is
        BY <4>1
      <4> QED BY <4>1, <4>2, <4>3
    <3>6. /\ call.starts[call.i + 1] = call.starts[call.i] + call.src[call.i].len
          /\ call.starts[call.i] \in Nat /\ call.src[call.i].len \in Nat
      BY <1>2, <2>3
    <3> HIDE DEF was, is
    <3>7. call.starts[call.i + 1] + is = Written(call) + Len(Piece)
      <4>1. call.sep.len \in Nat
        BY <1>3
      <4> QED BY SMTT(60), <3>2, <3>3, <3>4, <3>6, <4>1
    <3> QED BY <1>3, <1>7, <2>3, <3>2, <3>5, <3>7
  <2> QED BY <1>3, <2>7, <2>8
<1> QED BY <1>1, <1>5, <1>6, <1>7 DEF Looping

LEMMA append_strOK == IInv /\ append_str => IInv'
<1> SUFFICES ASSUME IInv, append_str PROVE IInv'
  OBVIOUS
<1> DEFINE b == call.buff
<1>1. /\ More /\ heap' = [heap EXCEPT ![b] = @ \o Piece] /\ UNCHANGED <<live, obj>>
      /\ call' = [call EXCEPT !.i = @ + 1]
  BY DEF append_str
<1>2. Looping /\ b # NULL /\ b \in Block /\ b \in live /\ BufferOK /\ StartsOK /\ call.dest \in Var
  BY <1>1, Halves, SizeType, CallTypes DEF More, CallOK, BufferOK
<1>3. /\ call' \in CallRecord
      /\ call'.fn = call.fn /\ call'.dest = call.dest /\ call'.sep = call.sep
      /\ call'.src = call.src /\ call'.starts = call.starts /\ call'.small = call.small
      /\ call'.i = call.i + 1 /\ call'.times = call.times /\ call'.buff = b /\ call'.n = call.n
  <2>1. call \in CallRecord /\ call.i + 1 \in Nat \ {0}
    BY Halves, CallTypes
  <2> QED BY <1>1, <2>1 DEF CallRecord
<1>4. Piece \in Seq(Nat) /\ heap[b] \in Seq(Nat)
  BY <1>1, <1>2, PieceOK, CallTypes
<1>5. heap[b] \o Piece \in Seq(Nat) /\ Len(heap[b] \o Piece) = Len(heap[b]) + Len(Piece)
  BY <1>4, ConcatProperties
<1>6. /\ heap' \in [Block -> Seq(Nat)] /\ heap'[b] = heap[b] \o Piece
      /\ \A c \in Block \ {b} : heap'[c] = heap[c]
  BY <1>1, <1>2, <1>5, CallTypes
<1>7. Store'
  <2>1. ASSUME NEW v \in Var PROVE ObjectOK(live, heap', b, obj[v])
    <3>1. ObjectOK(live, heap, b, obj[v]) /\ obj[v].at # b
      BY <1>2, Halves DEF Store, StoreOK, ObjectOK
    <3>2. Contents(heap', obj[v].at) = Contents(heap, obj[v].at)
      BY <1>6, <3>1 DEF Contents
    <3> QED BY <3>1, <3>2 DEF ObjectOK, ReadableIn
  <2>2. StoreOK(obj, live, heap', b)
    BY <1>6, <2>1, Halves DEF Store, StoreOK
  <2> QED BY <1>1, <1>3, <2>2 DEF Store
<1>8. ArgumentsOK'
  <2>1. ASSUME NEW s, ArgumentOK(s) PROVE ArgumentOK(s)'
    BY <1>1, <1>2, <1>3, <1>6, <2>1 DEF ArgumentOK, Argument, Readable, Bytes
  <2> QED BY <1>3, <2>1, Halves DEF ArgumentsOK
<1>9. CallOK'
  <2>1. StartsOK' /\ FormatOK' /\ LoopOK'
    BY <1>2, <1>3, Halves DEF CallOK, StartsOK, FormatOK, LoopOK, Formatting, Looping
  <2>2. Size(call)' = Size(call)
    BY <1>3 DEF Size
  <2>3. Written(call)' = Written(call) + Len(Piece)
    BY <1>1, <1>3, PieceOK DEF Advanced, Written
  <2>4. Len(heap'[b]) = Written(call)'
    BY <1>2, <1>5, <1>6, <2>3 DEF BufferOK
  <2>5. call.i + 1 <= (IF call.fn = "repeat" THEN call.times ELSE Len(call.src)) + 1
    BY <1>1, PieceOK, CallTypes
  <2>6. BufferOK'
    BY <1>1, <1>2, <1>3, <2>2, <2>4, <2>5 DEF BufferOK, Looping
  <2> QED BY <1>2, <1>3, <2>1, <2>6 DEF CallOK, Looping
<1> QED BY <1>3, <1>7, <1>8, <1>9, HalvesPrimed

\* The bytes in front of any piece are no more than the n bytes planned.
LEMMA UpToSize ==
  ASSUME IInv, call.buff # NULL
  PROVE  Len(heap[call.buff]) <= call.n
<1>1. Looping /\ BufferOK /\ StartsOK /\ LoopOK
  BY Halves, SizeType DEF CallOK, BufferOK
<1>2. /\ call.n = Size(call)
      /\ call.i <= (IF call.fn = "repeat" THEN call.times ELSE Len(call.src)) + 1
      /\ Len(heap[call.buff]) = Written(call)
  BY <1>1 DEF BufferOK
<1>3. /\ call.i \in Nat \ {0} /\ Len(call.src) \in Nat /\ call.times \in Nat
      /\ call.sep.len \in Nat
  BY CallTypes
<1>4. \A k \in 1 .. Len(call.src) + 1 :
        /\ call.starts[k] \in Nat
        /\ call.starts[Len(call.src) + 1] \in Nat
        /\ call.starts[k] <= call.starts[Len(call.src) + 1]
  <2> DEFINE m == Len(call.src)
             t == call.starts
             d == [k \in 1 .. m |-> call.src[k].len]
  <2>1. \A k \in 1 .. m + 1 : t[k] \in Nat
    BY <1>1, CallTypes DEF StartsOK
  <2>2. \A k \in 1 .. m : d[k] \in Nat /\ t[k + 1] = t[k] + d[k]
    BY <1>1, CallTypes DEF StartsOK
  <2>3. m \in Nat
    BY <1>3
  <2> HIDE DEF m, t, d
  <2>4. \A k \in 1 .. m + 1 : t[k] <= t[m + 1]
    BY <2>1, <2>2, <2>3, RunningTotals
  <2> QED BY <2>1, <2>3, <2>4 DEF m, t
<1>5. CASE call.fn = "repeat"
  <2>1. call.src[1].len \in Nat /\ call.i - 1 \in Nat /\ call.i - 1 <= call.times
    BY <1>1, <1>2, <1>3, <1>5, CallTypes DEF LoopOK
  <2>2. Copies(call.src[1].len, call.i - 1) <= call.src[1].len * call.times
    BY <1>3, <2>1, ProductGrows DEF Copies
  <2> QED BY <1>2, <1>5, <2>2 DEF Written, Size
<1>6. CASE call.fn = "concat"
  BY <1>2, <1>3, <1>4, <1>6 DEF Written, Size
<1>7. CASE call.fn = "join"
  <2> DEFINE was == Copies(call.sep.len, call.i - 2)
             all == call.sep.len * (Len(call.src) - 1)
  <2>1. Len(call.src) >= 2 /\ call.i \in 1 .. Len(call.src) + 1
    BY <1>1, <1>2, <1>3, <1>7 DEF LoopOK
  <2>2. call.n = call.starts[Len(call.src) + 1] + all
    BY <1>2, <1>7 DEF Size
  <2>3. 0 <= all /\ all \in Nat
    <3>1. Len(call.src) - 1 \in Nat
      BY <1>3, <2>1
    <3> QED BY <1>3, <3>1, ProductGrows
  <2>4. CASE call.i = 1
    <3>1. Written(call) = call.starts[call.i]
      BY <1>7, <2>4 DEF Written
    <3> HIDE DEF all
    <3> QED BY SMTT(60), <1>2, <1>3, <1>4, <2>1, <2>2, <2>3, <3>1
  <2>5. CASE call.i > 1
    <3>1. Written(call) = call.starts[call.i] + was
      BY <1>7, <2>5 DEF Written
    <3>2. was \in Nat /\ was <= all
      <4>1. call.i - 2 \in Nat /\ Len(call.src) - 1 \in Nat /\ call.i - 2 <= Len(call.src) - 1
        BY <1>3, <2>1, <2>5
      <4> QED BY <1>3, <4>1, ProductGrows DEF Copies
    <3>3. /\ call.starts[call.i] \in Nat /\ call.starts[Len(call.src) + 1] \in Nat
          /\ call.starts[call.i] <= call.starts[Len(call.src) + 1]
      BY <1>4, <2>1
    <3> HIDE DEF all, was
    <3>4. Written(call) <= call.n
      BY <2>2, <2>3, <3>1, <3>2, <3>3
    <3> QED BY <1>2, <3>4
  <2> QED BY <1>3, <2>4, <2>5
<1> QED BY <1>1, <1>5, <1>6, <1>7 DEF Looping

\* When its loop is over, a call has written exactly n bytes.
LEMMA AllWritten ==
  ASSUME IInv, Looping, call.buff # NULL, ~More
  PROVE  Len(heap[call.buff]) = call.n
<1>1. BufferOK /\ StartsOK /\ LoopOK
  BY Halves, SizeType DEF CallOK
<1>2. /\ call.n = Size(call)
      /\ call.i <= (IF call.fn = "repeat" THEN call.times ELSE Len(call.src)) + 1
      /\ Len(heap[call.buff]) = Written(call)
  BY <1>1 DEF BufferOK
<1>3. call.i \in Nat \ {0} /\ Len(call.src) \in Nat /\ call.times \in Nat /\ call.n \in Nat
  BY CallTypes
<1>4. CASE call.fn = "repeat"
  <2>1. call.i - 1 = call.times
    BY <1>2, <1>3, <1>4 DEF More
  <2>2. Written(call) = call.src[1].len * call.times
    BY <1>4, <2>1 DEF Written, Copies
  <2> QED BY <1>2, <1>4, <2>2 DEF Size
<1>5. CASE call.fn # "repeat"
  <2>1. ~(Len(heap[call.buff]) < call.n)
    BY <1>5 DEF More
  <2>2. Len(heap[call.buff]) <= call.n /\ Len(heap[call.buff]) \in Nat
    <3>1. call.buff \in Block
      BY CallTypes, Halves DEF Store, CallRecord
    <3> QED BY <3>1, CallTypes, UpToSize, LenProperties
  <2> QED BY <1>3, <2>1, <2>2
<1> QED BY <1>4, <1>5

\* The call returns: the buffer, all of it written and terminated, becomes
\* the destination's.
LEMMA ReturnOK ==
  ASSUME IInv, Return
  PROVE  /\ Store' /\ call' = NoCall
         /\ obj'[call.dest].own
         /\ heap'[obj'[call.dest].at][obj'[call.dest].len + 1] = 0
<1> DEFINE b == call.buff
           h == [heap EXCEPT ![b] = Terminate(@)]
           n == IF call.fn = "repeat" THEN Len(heap[call.buff]) ELSE call.n
           gone == Freed(obj[call.dest]) \cup Surplus(b, n)
<1>1. /\ Looping /\ b # NULL /\ ~More
      /\ AssignOwned(h, call.dest, b, n) /\ call' = NoCall
  BY DEF Return
<1>2. call.dest \in Var /\ b \in live /\ b \in Block /\ call.n > 0 /\ call.n \in Nat
  BY <1>1, Halves, SizeType, CallTypes DEF CallOK, BufferOK
<1>3. n = call.n /\ Len(heap[b]) = n /\ heap[b] \in Seq(Nat)
  BY <1>1, <1>2, AllWritten, CallTypes
<1>4. /\ Terminate(heap[b]) \in Seq(Nat) /\ Len(Terminate(heap[b])) = n + 1
      /\ Terminate(heap[b])[n + 1] = 0
  BY <1>3, AppendProperties DEF Terminate
<1>5. /\ h \in [Block -> Seq(Nat)] /\ h[b] = Terminate(heap[b])
      /\ \A c \in Block \ {b} : h[c] = heap[c]
  BY <1>2, <1>4, CallTypes
<1>6. call'.buff = NULL /\ Store /\ n \in Nat /\ n > 0 /\ n <= Len(h[b])
  BY <1>1, <1>2, <1>3, <1>4, <1>5, Halves DEF NoCall
<1>7. heap' = Scrub(h, gone) /\ b \notin gone
  <2>1. b \notin Freed(obj[call.dest])
    BY <1>2, Halves DEF Freed, Store, StoreOK, ObjectOK
  <2>2. b \notin Surplus(b, n)
    BY <1>6 DEF Surplus, Freed, str_acquire_mem
  <2> QED BY <1>1, <2>1, <2>2 DEF AssignOwned, FreeThenAssign
<1> HIDE DEF h, n, gone
<1>8. Store' /\ obj'[call.dest] = str_acquire_mem(b, n)
  BY <1>1, <1>2, <1>5, <1>6, AssignOwnedOK
<1>9. obj'[call.dest].own /\ obj'[call.dest].at = b /\ obj'[call.dest].len = n
  BY <1>6, <1>8 DEF str_acquire_mem
<1>10. heap'[b] = Terminate(heap[b])
  BY <1>2, <1>5, <1>7 DEF Scrub
<1> QED BY <1>1, <1>4, <1>8, <1>9, <1>10

----------------------------------------------------------------------------
(* The theorems. *)

LEMMA InitOK == Init => IInv
<1> SUFFICES ASSUME Init PROVE IInv
  OBVIOUS
<1>1. Store
  <2>1. ObjectOK({}, heap, NULL, str_null)
    BY Constructors DEF ObjectOK, ReadableIn
  <2>2. heap \in [Block -> Seq(Nat)] /\ obj \in [Var -> Object] /\ live = {}
    BY Constructors, EmptySeq DEF Init
  <2>3. \A v \in Var : obj[v] = str_null
    BY DEF Init
  <2>4. \A v \in Var : ~obj[v].own /\ ObjectOK(live, heap, call.buff, obj[v])
    BY <2>1, <2>2, <2>3, Constructors DEF ObjectOK
  <2> QED BY <2>2, <2>4 DEF Store, StoreOK
<1> QED BY <1>1, NoCallOK, Halves DEF Init

LEMMA LibraryStepOK == IInv /\ LibraryStep => IInv'
BY CallReturnsOK, mem_failureOK, vsnprintfOK, PrintedOK, mem_allocOK, append_strOK,
   ReturnOK, Returned DEF LibraryStep

LEMMA NextOK == IInv /\ [Next]_vars => IInv'
<1> SUFFICES ASSUME IInv, [Next]_vars PROVE IInv'
  OBVIOUS
<1>1. CASE ProgramStep
  BY <1>1, ProgramStepOK
<1>2. CASE CallStep
  BY <1>2, CallStepOK
<1>3. CASE LibraryStep
  BY <1>3, LibraryStepOK
<1>4. CASE Ended \/ UNCHANGED vars
  <2>1. live' = live /\ heap' = heap /\ obj' = obj /\ call' = call
    BY <1>4 DEF Ended, vars
  <2>2. Store' /\ (call \in CallRecord)'
    BY <2>1, Halves DEF Store
  <2>3. ArgumentsOK'
    <3>1. ASSUME NEW s, ArgumentOK(s) PROVE ArgumentOK(s)'
      BY <2>1, <3>1 DEF ArgumentOK, Argument, Readable, Bytes
    <3> QED BY <2>1, <3>1, Halves DEF ArgumentsOK
  <2>4. StartsOK' = StartsOK /\ FormatOK' = FormatOK /\ LoopOK' = LoopOK
    BY <2>1 DEF StartsOK, FormatOK, LoopOK, Formatting, Looping
  <2>5. BufferOK' = BufferOK
    BY <2>1 DEF BufferOK, Looping, Written, Size
  <2>6. CallOK'
    BY <2>1, <2>4, <2>5, Halves DEF CallOK
  <2> QED BY <2>2, <2>3, <2>6, HalvesPrimed
<1> QED BY <1>1, <1>2, <1>3, <1>4 DEF Next

LEMMA Inductive == Spec => []IInv
BY InitOK, NextOK, PTL DEF Spec

\* Only a non-empty object at the start of an allocated block ever carries the
\* owner bit (str_acquire_mem, str.h:153-161), so str_free (str.h:88-93) gets
\* nothing but pointers malloc returned.
THEOREM TypeCorrect == Spec => []TypeOK
<1>1. IInv => TypeOK
  BY DEF IInv
<1> QED BY <1>1, Inductive, PTL

\* No double free and no leak: whatever sequence of assignments, transfers and
\* library calls a disciplined program makes (str.h:88-161, README.md
\* "Single-Owner Invariant"), a live block has one owner, or is the buffer of
\* the call in progress.
THEOREM OneOwnerPerBlock == Spec => []BlocksOwnedOnce
<1>1. IInv => BlocksOwnedOnce
  BY DEF IInv, BlocksOwnedOnce
<1> QED BY <1>1, Inductive, PTL

\* A call may be given arguments that alias its destination: they stay readable
\* until the assignment that ends it (README.md:80-81, str_join_array.c:44-62).
THEOREM AliasedArgumentsSurvive == Spec => []NoUseAfterFree
<1>1. IInv => NoUseAfterFree
  BY DEF IInv
<1> QED BY <1>1, Inductive, PTL

\* The append loops of str_concat_array.c:55-60 and str_join_array.c:53-59 stop
\* on the bytes written and never look at the count; all the same they stay
\* inside the array and inside the n + 1 bytes they asked malloc for.
THEOREM LoopsStayInBounds == Spec => []LoopInBounds
<1>1. ASSUME IInv PROVE LoopInBounds
  <2>1. ASSUME More, call.fn # "repeat" PROVE call.i \in DOMAIN call.src
    BY <1>1, <2>1, PieceOK, CallTypes
  <2> QED BY <1>1, <2>1, UpToSize DEF LoopInBounds
<1> QED BY <1>1, Inductive, PTL

\* Every buffer that a finished call leaves in its destination has a NUL just
\* after the text (README.md:74-76).
THEOREM ResultsTerminated == Spec => Terminated
<1> DEFINE Ends == call.buff # NULL /\ call' = NoCall =>
                     LET s == obj'[call.dest] IN s.own /\ heap'[s.at][s.len + 1] = 0
<1>1. ASSUME IInv, Next, call.buff # NULL, call' = NoCall
      PROVE  obj'[call.dest].own /\ heap'[obj'[call.dest].at][obj'[call.dest].len + 1] = 0
  <2>1. call.fn \in {"concat", "join", "repeat"} /\ call # NoCall
    BY <1>1, Halves DEF CallOK, BufferOK, Looping, NoCall
  <2>2. ~Idle /\ call # Exited /\ NoCall # Exited
    BY <2>1 DEF Idle, NoCall, Exited
  <2>3. ~ProgramStep /\ ~CallStep /\ ~Ended
    BY <2>2 DEF ProgramStep, CallStep, Ended, SetLit, AssignLit, SetSlice, AssignSlice,
       AssignAnySlice, AssignAcquire, str_swap, AssignAcquireMem, Clear, Enter, str_clone,
       str_concat_array, str_join_array, str_repeat, str_sprintf
  <2>4. Return
    <3>1. LibraryStep
      BY <1>1, <2>3 DEF Next
    <3>2. ~FormatFails /\ ~vsnprintf /\ ~CloneSmall /\ ~PrintBig
      BY <2>1 DEF FormatFails, vsnprintf, CloneSmall, PrintBig, Formatted, Formatting
    <3>3. ~ReturnSame /\ ~ReturnEmpty /\ ~mem_failure /\ \A b \in Block : ~mem_alloc(b)
      BY <1>1 DEF ReturnSame, ReturnEmpty, NothingToRepeat, mem_failure, mem_alloc, Sized
    <3>4. ~append_str
      BY <1>1, <2>1, Halves DEF append_str, NoCall, CallRecord
    <3> QED BY <3>1, <3>2, <3>3, <3>4 DEF LibraryStep
  <2> QED BY <1>1, <2>4, ReturnOK
<1>2. IInv /\ [Next]_vars => [Ends]_vars
  BY <1>1 DEF Ends
<1> QED BY <1>2, Inductive, PTL DEF Spec, Terminated

----------------------------------------------------------------------------
(* The refinement of StrValue.                                              *)
(* The mapping, on values o and h of obj and heap.                          *)

TextOf(h, s) ==
  IF s.len = 0 THEN <<>> ELSE SubSeq(Contents(h, s.at), s.off + 1, s.off + s.len)

ValueOf(h, s) == IF s.at = GONE THEN GONE ELSE TextOf(h, s)
ValOf(o, h) == [v \in Var |-> ValueOf(h, o[v])]
OwnersOf(o) == {v \in Var : o[v].own}

\* V!Becomes, for a step from o and h to o2 and h2.
BecomesIn(o, h, o2, h2, v, x) ==
  \E lost \in SUBSET {u \in Var \ (OwnersOf(o) \cup {v}) : v \in OwnersOf(o)} :
    ValOf(o2, h2) = [u \in Var |-> IF u = v THEN x ELSE IF u \in lost THEN GONE ELSE ValOf(o, h)[u]]

LEMMA TextHere == \A s : Text(s) = TextOf(heap, s)
BY DEF Text, TextOf, Bytes, Contents

LEMMA ValueHere ==
  /\ [v \in Var |-> Value(obj[v])] = ValOf(obj, heap)
  /\ {v \in Var : obj[v].own} = OwnersOf(obj)
BY TextHere DEF Value, ValOf, ValueOf, OwnersOf

LEMMA ValueNext ==
  /\ [v \in Var |-> Value(obj[v])]' = ValOf(obj', heap')
  /\ {v \in Var : obj[v].own}' = OwnersOf(obj')
BY DEF Value, ValOf, ValueOf, Text, TextOf, Bytes, Contents, OwnersOf

LEMMA BecomesMeans ==
  ASSUME NEW v, NEW x
  PROVE  V!Becomes(v, x) <=> BecomesIn(obj, heap, obj', heap', v, x)
BY ValueHere, ValueNext DEF V!Becomes, BecomesIn, OwnersOf

\* Variable v refers to x, or owns it.
RefersIn(v, x) == BecomesIn(obj, heap, obj', heap', v, x) /\ OwnersOf(obj') = OwnersOf(obj) \ {v}
OwnsIn(v, x) ==
  /\ BecomesIn(obj, heap, obj', heap', v, x)
  /\ OwnersOf(obj') = IF x = <<>> THEN OwnersOf(obj) \ {v} ELSE OwnersOf(obj) \cup {v}

LEMMA AssignMeans ==
  ASSUME NEW v, NEW x
  PROVE  /\ V!Refers(v, x) <=> RefersIn(v, x)
         /\ V!Owns(v, x) <=> OwnsIn(v, x)
BY BecomesMeans, ValueHere, ValueNext DEF V!Refers, V!Owns, RefersIn, OwnsIn

\* A string reads the same as long as its memory does.
LEMMA TextStays ==
  ASSUME NEW h, NEW h2, NEW s, s.at \in Block => h2[s.at] = h[s.at]
  PROVE  TextOf(h2, s) = TextOf(h, s) /\ ValueOf(h2, s) = ValueOf(h, s)
BY DEF TextOf, ValueOf, Contents

\* The other variables than v are as before, but for owners that became
\* references, and what is freed belongs to v.
Apart(os, h, gone, v) ==
  \A u \in Var \ {v} : /\ os[u] = obj[u] \/ os[u] = str_ref(obj[u])
                       /\ obj[u].at \in Block => h[obj[u].at] = heap[obj[u].at]
                       /\ obj[u].at \in gone => obj[v].own /\ ~obj[u].own

\* What FreeThenAssign does to the values: v gets the value of s, and the
\* references into what it frees lose theirs.
LEMMA FreedMeans ==
  ASSUME obj \in [Var -> Object], NEW os, NEW h, NEW gone \in SUBSET Block, NEW v \in Var, NEW s,
         FreeThenAssign(gone, os, h, v, s), s.at \notin gone, Apart(os, h, gone, v)
  PROVE  /\ BecomesIn(obj, heap, obj', heap', v, ValueOf(h, s))
         /\ OwnersOf(obj') = {u \in Var \ {v} : os[u].own} \cup (IF s.own THEN {v} ELSE {})
         /\ obj' \in [Var -> {s} \cup {os[u] : u \in Var \ {v}} \cup {str_dangling}]
<1> DEFINE lost == {u \in Var \ {v} : obj[u].at \in gone}
<1>1. ASSUME NEW u \in Var \ {v}
      PROVE  os[u].at = obj[u].at /\ os[u].len = obj[u].len /\ os[u].off = obj[u].off
             /\ (os[u].own => obj[u].own)
  <2>1. obj[u] \in Object
    OBVIOUS
  <2> QED BY <2>1 DEF str_ref, Object, Apart
<1>2. heap' = Scrub(h, gone) /\ GONE \notin Block /\ GONE \notin gone
  BY HeapAssumption DEF FreeThenAssign
<1>3. obj'[v] = s
  BY DEF FreeThenAssign, Forget
<1>4. \A u \in Var \ {v} : obj'[u] = IF u \in lost THEN str_dangling ELSE os[u]
  BY <1>1 DEF FreeThenAssign, Forget
<1>5. ValueOf(heap', s) = ValueOf(h, s)
  BY <1>2, TextStays DEF Scrub
<1>6. ASSUME NEW u \in Var \ {v}, u \notin lost PROVE ValueOf(heap', obj'[u]) = ValueOf(heap, obj[u])
  <2>1. obj[u].at \in Block => heap'[obj[u].at] = heap[obj[u].at]
    BY <1>2, <1>6 DEF Scrub, Apart
  <2>2. ValueOf(heap', obj[u]) = ValueOf(heap, obj[u])
    BY <2>1, TextStays
  <2>3. ValueOf(heap', os[u]) = ValueOf(heap', obj[u])
    BY <1>1 DEF ValueOf, TextOf
  <2> QED BY <1>4, <1>6, <2>2, <2>3
<1>7. \A u \in lost : ValueOf(heap', obj'[u]) = GONE
  BY <1>4, Constructors DEF ValueOf
<1>8. ValOf(obj', heap') = [u \in Var |-> IF u = v THEN ValueOf(h, s)
                                          ELSE IF u \in lost THEN GONE ELSE ValOf(obj, heap)[u]]
  BY <1>3, <1>5, <1>6, <1>7 DEF ValOf
<1>9. lost \in SUBSET {u \in Var \ (OwnersOf(obj) \cup {v}) : v \in OwnersOf(obj)}
  BY DEF OwnersOf, Apart
<1>10. OwnersOf(obj') = {u \in Var \ {v} : os[u].own} \cup (IF s.own THEN {v} ELSE {})
  <2>1. \A u \in Var \ {v} : obj'[u].own <=> os[u].own
    BY <1>1, <1>4, Constructors DEF Apart
  <2> QED BY <1>3, <2>1 DEF OwnersOf
<1>11. obj' \in [Var -> {s} \cup {os[u] : u \in Var \ {v}} \cup {str_dangling}]
  BY <1>3, <1>4 DEF FreeThenAssign
<1> HIDE DEF lost
<1> QED BY <1>8, <1>9, <1>10, <1>11 DEF BecomesIn

----------------------------------------------------------------------------
(* What the mapping needs besides IInv.                                     *)

\* A reference that lost its memory was not empty.
GoneOK == \A v \in Var : obj[v].at = GONE => obj[v].len # 0

LEMMA HeldMeans ==
  ASSUME IInv, GoneOK, NEW v \in Var, Readable(obj[v])
  PROVE  /\ ValueOf(heap, obj[v]) = TextOf(heap, obj[v])
         /\ TextOf(heap, obj[v]) \in Seq(Nat) /\ Len(TextOf(heap, obj[v])) = obj[v].len
         /\ obj[v].at # GONE /\ ValueOf(heap, obj[v]) # GONE
<1>1. obj[v] \in Object /\ heap \in [Block -> Seq(Nat)] /\ live \in SUBSET Block
  BY Halves DEF Store, StoreOK
<1>2. obj[v].at # GONE
  BY <1>1, HeapAssumption DEF Readable, GoneOK
<1>3. TextOf(heap, obj[v]) \in Seq(Nat) /\ Len(TextOf(heap, obj[v])) = obj[v].len
  BY <1>1, TextHere, TextType
<1> QED BY <1>2, <1>3, ValueAssumption DEF ValueOf

LEMMA SliceOfSlice ==
  ASSUME NEW y \in Seq(Nat), NEW o \in Nat, NEW n \in Nat, o + n <= Len(y),
         NEW i \in Nat, NEW m \in Nat, i + m <= n
  PROVE  SubSeq(y, o + i + 1, o + i + m) = SubSeq(SubSeq(y, o + 1, o + n), i + 1, i + m)
OBVIOUS

\* A slice of a string is a slice of its text.
LEMMA SliceMeans ==
  ASSUME IInv, GoneOK, NEW w \in Var, Readable(obj[w]), NEW i \in Nat, NEW j \in Nat
  PROVE  ValueOf(heap, str_ref_slice(obj[w], i, j)) \in V!Slices(ValueOf(heap, obj[w]))
<1> DEFINE s == obj[w]
           n == IF j <= i \/ i >= s.len THEN 0 ELSE IF j > s.len THEN s.len - i ELSE j - i
           r == str_ref_slice(s, i, j)
           x == TextOf(heap, s)
<1>1. s \in Object /\ s.off \in Nat /\ s.len \in Nat /\ n \in Nat
      /\ (n > 0 => i + n <= s.len /\ s.len # 0)
  <2>1. s \in Object
    BY Halves DEF Store, StoreOK
  <2> QED BY <2>1 DEF Object
<1>2. ValueOf(heap, s) = x /\ x \in Seq(Nat) /\ Len(x) = s.len /\ s.at # GONE
  BY HeldMeans
<1>3. \A a \in 0 .. s.len, b \in 0 .. s.len : SubSeq(x, a + 1, b) \in V!Slices(x)
  BY <1>2 DEF V!Slices
<1>4. CASE s.at # NULL /\ n > 0
  <2>1. r = [at |-> s.at, off |-> s.off + i, len |-> n, own |-> FALSE]
    BY <1>4 DEF str_ref_slice, str_ref_mem
  <2> HIDE DEF n, r, x, s
  <2>2. Contents(heap, s.at) \in Seq(Nat) /\ s.off + s.len <= Len(Contents(heap, s.at))
    <3>1. s.at \in live \cup Literal /\ s.off + s.len <= Len(Contents(heap, s.at))
      BY <1>1, <1>4, ReadableHere DEF ReadableIn, s
    <3> QED BY <3>1, CallTypes, ContentsType
  <2>3. ValueOf(heap, r) = SubSeq(Contents(heap, s.at), s.off + i + 1, s.off + i + n)
    <3>1. r.at = s.at /\ r.off = s.off + i /\ r.len = n /\ n # 0
      BY <1>1, <1>4, <2>1
    <3> QED BY ONLY <1>2, <3>1, Zenon DEF ValueOf, TextOf
  <2>4. x = SubSeq(Contents(heap, s.at), s.off + 1, s.off + s.len)
    BY <1>1, <1>4 DEF TextOf, x
  <2>5. ValueOf(heap, r) = SubSeq(x, i + 1, i + n)
    <3>1. ASSUME NEW y \in Seq(Nat), NEW o \in Nat, NEW l \in Nat, NEW m \in Nat,
                 y = Contents(heap, s.at), o = s.off, l = s.len, m = n
          PROVE  SubSeq(y, o + i + 1, o + i + m) = SubSeq(SubSeq(y, o + 1, o + l), i + 1, i + m)
      <4>1. o + l <= Len(y) /\ i + m <= l
        BY <1>1, <1>4, <2>2, <3>1
      <4> QED BY <4>1, SliceOfSlice
    <3>2. /\ Contents(heap, s.at) \in Seq(Nat) /\ s.off \in Nat /\ s.len \in Nat /\ n \in Nat
      BY <1>1, <2>2
    <3>3. SubSeq(Contents(heap, s.at), s.off + i + 1, s.off + i + n)
            = SubSeq(SubSeq(Contents(heap, s.at), s.off + 1, s.off + s.len), i + 1, i + n)
      BY ONLY <3>1, <3>2, SMTT(40), ZenonT(40)
    <3> QED BY ONLY <2>3, <2>4, <3>3
  <2>6. i \in 0 .. s.len /\ i + n \in 0 .. s.len
    BY <1>1, <1>4
  <2>7. SubSeq(x, i + 1, i + n) \in V!Slices(x)
    BY <1>3, <2>6
  <2> QED BY <1>2, <2>5, <2>7 DEF r, s
<1>5. CASE ~(s.at # NULL /\ n > 0)
  <2>1. r = str_null
    BY <1>5 DEF str_ref_slice, str_ref_mem
  <2>2. ValueOf(heap, r) = <<>>
    BY <2>1, HeapAssumption DEF ValueOf, TextOf, str_null
  <2>3. SubSeq(x, 0 + 1, 0) = <<>> /\ 0 \in 0 .. s.len
    BY <1>1, <1>2
  <2> HIDE DEF n, r, x, s
  <2>4. SubSeq(x, 0 + 1, 0) \in V!Slices(x)
    BY <1>3, <2>3
  <2> QED BY <1>2, <2>2, <2>3, <2>4 DEF r, s
<1> QED BY <1>4, <1>5

----------------------------------------------------------------------------
(* The program's own steps. *)

\* Plain assignment of a reference to a variable that is no owner.
LEMMA PlainMeans ==
  ASSUME IInv, NEW v \in Var, ~obj[v].own, NEW s, ~s.own,
         obj' = [obj EXCEPT ![v] = s], heap' = heap
  PROVE  /\ BecomesIn(obj, heap, obj', heap', v, ValueOf(heap, s))
         /\ OwnersOf(obj') = OwnersOf(obj) \ {v}
<1>1. obj \in [Var -> Object]
  BY Halves DEF Store, StoreOK
<1>2. \A u \in Var : obj'[u] = IF u = v THEN s ELSE obj[u]
  BY <1>1
<1>3. ValOf(obj', heap') = [u \in Var |-> IF u = v THEN ValueOf(heap, s)
                                          ELSE IF u \in {} THEN GONE ELSE ValOf(obj, heap)[u]]
  BY <1>2 DEF ValOf
<1>4. OwnersOf(obj') = OwnersOf(obj) \ {v}
  BY <1>2 DEF OwnersOf
<1>5. {} \in SUBSET {u \in Var \ (OwnersOf(obj) \cup {v}) : v \in OwnersOf(obj)}
  OBVIOUS
<1>6. BecomesIn(obj, heap, obj', heap', v, ValueOf(heap, s))
  BY <1>3, <1>5 DEF BecomesIn
<1> QED BY <1>4, <1>6

\* str_assign(&v, s), where s is a reference that does not point into the
\* block v frees.
LEMMA ReferenceMeans ==
  ASSUME IInv, NEW v \in Var, NEW s, ~s.own, s.at \notin Freed(obj[v]), str_assign(obj, v, s)
  PROVE  /\ BecomesIn(obj, heap, obj', heap', v, ValueOf(heap, s))
         /\ OwnersOf(obj') = OwnersOf(obj) \ {v}
<1>1. obj \in [Var -> Object] /\ Freed(obj[v]) \in SUBSET Block
  BY Halves DEF Store, StoreOK, ObjectOK, Freed
<1>2. \A u \in Var \ {v} : obj[u].at \in Freed(obj[v]) => obj[v].own /\ ~obj[u].own
  BY Halves DEF Store, StoreOK, Freed
<1>3. FreeThenAssign(Freed(obj[v]), obj, heap, v, s)
  BY DEF str_assign
<1>4. /\ BecomesIn(obj, heap, obj', heap', v, ValueOf(heap, s))
      /\ OwnersOf(obj') = {u \in Var \ {v} : obj[u].own} \cup (IF s.own THEN {v} ELSE {})
  <2>1. Apart(obj, heap, Freed(obj[v]), v)
    BY <1>2 DEF Apart
  <2> QED BY <1>1, <1>3, <2>1, FreedMeans
<1>5. OwnersOf(obj') = OwnersOf(obj) \ {v}
  BY <1>4 DEF OwnersOf
<1> QED BY <1>4, <1>5

\* str_assign(&v, str_acquire_mem(b, n)): v owns the text in block b.
LEMMA OwnedMeans ==
  ASSUME IInv, NEW v \in Var, NEW b \in Block, NEW n \in Nat,
         NEW h \in [Block -> Seq(Nat)], \A c \in Block \ {b} : h[c] = heap[c],
         b \notin live \/ b = call.buff, n <= Len(h[b]),
         AssignOwned(h, v, b, n), NEW x, x = SubSeq(h[b], 1, n)
  PROVE  OwnsIn(v, x)
<1> DEFINE gone == Freed(obj[v]) \cup Surplus(b, n)
           s == str_acquire_mem(b, n)
<1>1. obj \in [Var -> Object] /\ \A u \in Var : obj[u].at # b
  BY Halves DEF Store, StoreOK, ObjectOK
<1>2. gone \in SUBSET Block /\ \A u \in Var \ {v} : obj[u].at \in gone => obj[v].own /\ ~obj[u].own
  BY <1>1, Halves DEF Store, StoreOK, ObjectOK, Freed, Surplus
<1>3. \A u \in Var \ {v} : obj[u].at \in Block => h[obj[u].at] = heap[obj[u].at]
  BY <1>1
<1>4. s.at \notin gone
  <2>1. CASE n > 0
    <3>1. s.at = b /\ Surplus(b, n) = {}
      BY <2>1 DEF str_acquire_mem, Surplus, Freed
    <3> QED BY <1>1, <3>1 DEF Freed
  <2>2. CASE ~(n > 0)
    <3>1. s.at = NULL /\ NULL \notin Block
      BY <2>2, HeapAssumption DEF str_acquire_mem, str_null
    <3> QED BY <1>2, <3>1
  <2> QED BY <2>1, <2>2
<1>5. FreeThenAssign(gone, obj, h, v, s)
  BY DEF AssignOwned
<1>6. ValueOf(h, s) = x /\ (s.own <=> x # <<>>)
  <2>1. h[b] \in Seq(Nat) /\ Len(h[b]) \in Nat /\ b # GONE
    BY HeapAssumption
  <2>2. Len(x) = n /\ (n = 0 => x = <<>>)
    BY <2>1
  <2>3. n > 0 => x # <<>>
    <3>1. Len(<<>>) = 0
      OBVIOUS
    <3> QED BY ONLY <2>2, <3>1
  <2>4. ValueOf(h, s) = x
    BY <2>1, <2>2, HeapAssumption DEF str_acquire_mem, ValueOf, TextOf, Contents, str_null
  <2>5. s.own <=> n > 0
    BY DEF str_acquire_mem, str_null
  <2> HIDE DEF s
  <2>6. n = 0 \/ n > 0
    OBVIOUS
  <2> QED BY ONLY <2>2, <2>3, <2>4, <2>5, <2>6, ~(0 > 0), Zenon
<1> HIDE DEF gone, s
<1>7. /\ BecomesIn(obj, heap, obj', heap', v, x)
      /\ OwnersOf(obj') = {u \in Var \ {v} : obj[u].own} \cup (IF s.own THEN {v} ELSE {})
  <2>1. Apart(obj, h, gone, v)
    BY <1>2, <1>3 DEF Apart
  <2>2. /\ BecomesIn(obj, heap, obj', heap', v, ValueOf(h, s))
        /\ OwnersOf(obj') = {u \in Var \ {v} : obj[u].own} \cup (IF s.own THEN {v} ELSE {})
    <3>1. v \in Var
      OBVIOUS
    <3> QED BY ONLY <1>1, <1>2, <1>4, <1>5, <2>1, <3>1, FreedMeans
  <2> QED BY ONLY <1>6, <2>2
<1>8. OwnersOf(obj') = IF x = <<>> THEN OwnersOf(obj) \ {v} ELSE OwnersOf(obj) \cup {v}
  BY <1>6, <1>7 DEF OwnersOf
<1> QED BY <1>7, <1>8 DEF OwnsIn

LEMMA AcquireMeans ==
  ASSUME IInv, GoneOK, NEW v \in Var, NEW w \in Var, AssignAcquire(v, w)
  PROVE  /\ BecomesIn(obj, heap, obj', heap', v, ValueOf(heap, obj[w]))
         /\ OwnersOf(obj') = (OwnersOf(obj) \ {v, w}) \cup (IF w \in OwnersOf(obj) THEN {v} ELSE {})
<1> DEFINE os == str_acquire(obj, w)
           gone == Freed(os[v])
<1>1. /\ obj \in [Var -> Object]
      /\ \A u \in Var : ObjectOK(live, heap, call.buff, obj[u])
  BY Halves DEF Store, StoreOK
<1>2. /\ \A u \in Var : os[u] = IF u = w THEN str_ref(obj[u]) ELSE obj[u]
      /\ ~os[w].own
  BY <1>1 DEF str_acquire, str_ref, Object
<1>3. FreeThenAssign(gone, os, heap, v, obj[w]) /\ obj[w].at \notin gone
  BY DEF AssignAcquire, str_assign, MayAssign
<1>4. gone \in SUBSET Block
  BY <1>1, <1>2 DEF Freed, ObjectOK
<1>5. \A u \in Var \ {v} : obj[u].at \in gone => obj[v].own /\ ~obj[u].own
  BY <1>1, <1>2, Halves DEF Freed, Store, StoreOK
<1> HIDE DEF os, gone
<1>6. /\ BecomesIn(obj, heap, obj', heap', v, ValueOf(heap, obj[w]))
      /\ OwnersOf(obj') = {u \in Var \ {v} : os[u].own} \cup (IF obj[w].own THEN {v} ELSE {})
  <2>1. Apart(os, heap, gone, v)
    BY <1>2, <1>5 DEF Apart
  <2> QED BY <1>1, <1>3, <1>4, <2>1, FreedMeans
<1>7. {u \in Var \ {v} : os[u].own} = OwnersOf(obj) \ {v, w}
  BY <1>2 DEF OwnersOf
<1> QED BY <1>6, <1>7 DEF OwnersOf

----------------------------------------------------------------------------
(* The steps of StrValue that the program's steps are.                      *)

Pending ==
  CASE call = NoCall -> [dest |-> GONE, result |-> GONE, fails |-> FALSE]
    [] call = Exited -> [dest |-> GONE, result |-> GONE, fails |-> TRUE]
    [] OTHER -> [dest |-> call.dest, result |-> Outcome(call), fails |-> Formatting]

LEMMA PendingIs ==
  /\ call = NoCall => Pending = V!Nothing
  /\ call = Exited => Pending = V!Exited
  /\ call # NoCall /\ call # Exited =>
       Pending = [dest |-> call.dest, result |-> Outcome(call), fails |-> Formatting]
<1>1. NoCall # Exited
  <2>1. NoCall.fn = "none" /\ Exited.fn = "exited"
    BY DEF NoCall, Exited
  <2> QED BY <2>1
<1>2. V!Exited = [dest |-> GONE, result |-> GONE, fails |-> TRUE]
  BY DEF V!Exited
<1>3. CASE call = NoCall
  BY <1>1, <1>3 DEF Pending, V!Nothing
<1>4. CASE call = Exited
  BY <1>1, <1>2, <1>4 DEF Pending
<1>5. CASE call # NoCall /\ call # Exited
  BY <1>5 DEF Pending
<1> QED BY <1>1, <1>3, <1>4, <1>5

LEMMA PendingNext ==
  ( /\ call = NoCall => Pending = V!Nothing
    /\ call = Exited => Pending = V!Exited
    /\ call # NoCall /\ call # Exited =>
         Pending = [dest |-> call.dest, result |-> Outcome(call), fails |-> Formatting] )'
BY PendingIs, PTL

LEMMA IdleMeans == call = NoCall /\ call' = NoCall => Pending = V!Nothing /\ Pending' = Pending
BY PendingIs, PendingNext

LEMMA HoldsMeans == \A w \in Var : V!Holds(w) <=> ValueOf(heap, obj[w]) # GONE
BY ValueHere DEF V!Holds, ValOf

LEMMA SetRefMeans ==
  ASSUME NEW v \in Var, NEW x, RefersIn(v, x), call = NoCall, call' = NoCall,
         \/ x \in {LitText[a] : a \in Literal} \cup {<<>>}
         \/ \E w \in Var : ValueOf(heap, obj[w]) # GONE /\ x \in V!Slices(ValueOf(heap, obj[w]))
  PROVE  V!SetRef(v)
<1>1. V!Refers(v, x)
  BY AssignMeans
<1>2. Pending' = Pending
  BY IdleMeans
<1>3. CASE x \in {LitText[a] : a \in Literal} \cup {<<>>}
  BY <1>1, <1>2, <1>3 DEF V!SetRef, Pending
<1>4. CASE \E w \in Var : ValueOf(heap, obj[w]) # GONE /\ x \in V!Slices(ValueOf(heap, obj[w]))
  <2>1. PICK w \in Var : ValueOf(heap, obj[w]) # GONE /\ x \in V!Slices(ValueOf(heap, obj[w]))
    BY <1>4
  <2>2. V!Holds(w) /\ [u \in Var |-> Value(obj[u])][w] = ValueOf(heap, obj[w])
    BY <2>1, HoldsMeans, ValueHere DEF ValOf
  <2> QED BY <1>1, <1>2, <2>1, <2>2 DEF V!SetRef, Pending
<1> QED BY <1>3, <1>4

LEMMA TakeBufferMeans ==
  ASSUME NEW v \in Var, NEW x, OwnsIn(v, x), call = NoCall, call' = NoCall,
         x \in {LitText[a] : a \in Literal}
  PROVE  V!TakeBuffer(v)
<1>1. V!Owns(v, x)
  BY AssignMeans
<1>2. Pending' = Pending
  BY IdleMeans
<1> QED BY <1>1, <1>2 DEF V!TakeBuffer, Pending

LEMMA TakeMeans ==
  ASSUME NEW v \in Var, NEW w \in Var, NEW x, x = ValueOf(heap, obj[w]), x # GONE,
         BecomesIn(obj, heap, obj', heap', v, x),
         OwnersOf(obj') = (OwnersOf(obj) \ {v, w}) \cup (IF w \in OwnersOf(obj) THEN {v} ELSE {}),
         call = NoCall, call' = NoCall
  PROVE  V!Take(v, w)
<1>1. V!Holds(w) /\ [u \in Var |-> Value(obj[u])][w] = x
  BY HoldsMeans, ValueHere DEF ValOf
<1>2. V!Becomes(v, x)
  BY BecomesMeans
<1>3. V!Becomes(v, [u \in Var |-> Value(obj[u])][w])
  BY <1>1, <1>2 DEF V!Becomes
<1>4. Pending' = Pending
  BY IdleMeans
<1> QED BY <1>1, <1>3, <1>4, ValueHere, ValueNext DEF V!Take, Pending

LEMMA SwapMeans ==
  ASSUME IInv, NEW v \in Var, NEW w \in Var, str_swap(v, w), call = NoCall, call' = NoCall
  PROVE  V!Swap(v, w)
<1> DEFINE other(u) == IF u = v THEN w ELSE IF u = w THEN v ELSE u
<1>1. \A u \in Var : obj'[u] = obj[other(u)] /\ other(u) \in Var
  BY Halves DEF Store, StoreOK, str_swap
<1>2. heap' = heap
  BY DEF str_swap
<1>3. ValOf(obj', heap') = [u \in Var |-> ValOf(obj, heap)[other(u)]]
  BY <1>1, <1>2 DEF ValOf
<1>4. OwnersOf(obj') = {u \in Var : other(u) \in OwnersOf(obj)}
  BY <1>1 DEF OwnersOf
<1>5. Pending' = Pending
  BY IdleMeans
<1> QED BY <1>3, <1>4, <1>5, ValueHere, ValueNext DEF V!Swap, Pending

LEMMA ProgramMeans ==
  ASSUME IInv, GoneOK, ProgramStep
  PROVE  /\ \/ \E v \in Var : V!SetRef(v) \/ V!TakeBuffer(v)
            \/ \E v, w \in Var : V!Take(v, w) \/ V!Swap(v, w)
         /\ call = NoCall
<1>1. call = NoCall /\ call' = NoCall
  BY DEF ProgramStep, SetLit, AssignLit, SetSlice, AssignSlice, AssignAnySlice,
         AssignAcquire, str_swap, AssignAcquireMem, Clear, Idle
<1>2. GONE \notin Literal /\ GONE # NULL /\ GONE \notin Block
  BY HeapAssumption
<1>3. ASSUME NEW v \in Var, NEW a \in Literal, SetLit(v, a) \/ AssignLit(v, a)
      PROVE  V!SetRef(v)
  <2>1. ~str_lit(a).own /\ str_lit(a).at \notin Block /\ str_lit(a).at = a
    BY Constructors DEF str_lit
  <2>2. ValueOf(heap, str_lit(a)) = LitText[a]
    <3>1. LitText[a] \in Seq(Nat) /\ a \notin Block
      BY HeapAssumption
    <3>2. ASSUME NEW y \in Seq(Nat) PROVE IF Len(y) = 0 THEN y = <<>> ELSE SubSeq(y, 0 + 1, 0 + Len(y)) = y
      OBVIOUS
    <3> QED BY <1>2, <3>1, <3>2 DEF ValueOf, TextOf, Contents, str_lit
  <2>3. Freed(obj[v]) \subseteq Block
    BY Halves DEF Store, StoreOK, ObjectOK, Freed
  <2>4. RefersIn(v, LitText[a])
    <3>1. CASE SetLit(v, a)
      BY <2>1, <2>2, <3>1, PlainMeans DEF SetLit, RefersIn
    <3>2. CASE AssignLit(v, a)
      BY <2>1, <2>2, <2>3, <3>2, ReferenceMeans DEF AssignLit, RefersIn
    <3> QED BY <1>3, <3>1, <3>2
  <2> QED BY <1>1, <2>4, SetRefMeans
<1>4. ASSUME NEW v \in Var, NEW w \in Var, NEW i \in 0 .. MaxLen + 1, NEW j \in 0 .. MaxLen + 1,
             SetSlice(v, w, i, j) \/ AssignSlice(v, w, i, j)
      PROVE  V!SetRef(v)
  <2>1. Readable(obj[w]) /\ i \in Nat /\ j \in Nat
    BY <1>4, MemAssumption DEF SetSlice, AssignSlice, AssignAnySlice
  <2>2. PICK r : r = str_ref_slice(obj[w], i, j)
    OBVIOUS
  <2>3. ~r.own
    <3>1. ReadableIn(live, heap, obj[w]) /\ obj[w] \in Object /\ live \in SUBSET Block
          /\ heap \in [Block -> Seq(Nat)]
      BY <2>1, ReadableHere, Halves DEF Store, StoreOK
    <3>2. PartOf(live, heap, obj[w], str_ref_slice(obj[w], i, j))
      BY <2>1, <3>1, SliceOK
    <3> QED BY <2>2, <3>2 DEF PartOf
  <2>4. PICK x : x = ValueOf(heap, r)
    OBVIOUS
  <2>5. ValueOf(heap, obj[w]) # GONE /\ x \in V!Slices(ValueOf(heap, obj[w]))
    BY <2>1, <2>2, <2>4, SliceMeans, HeldMeans
  <2>6. RefersIn(v, x)
    <3>1. CASE SetSlice(v, w, i, j)
      BY <2>2, <2>3, <2>4, <3>1, PlainMeans DEF SetSlice, RefersIn
    <3>2. CASE AssignSlice(v, w, i, j)
      BY <2>2, <2>3, <2>4, <3>2, ReferenceMeans DEF AssignSlice, AssignAnySlice, MayAssign, RefersIn
    <3> QED BY <1>4, <3>1, <3>2
  <2> QED BY <1>1, <2>5, <2>6, SetRefMeans
<1>5. ASSUME NEW v \in Var, NEW w \in Var, AssignAcquire(v, w) PROVE V!Take(v, w)
  <2>1. PICK x : x = ValueOf(heap, obj[w])
    OBVIOUS
  <2>2. x # GONE
    BY <1>5, <2>1, HeldMeans DEF AssignAcquire
  <2>3. /\ BecomesIn(obj, heap, obj', heap', v, x)
        /\ OwnersOf(obj') = (OwnersOf(obj) \ {v, w}) \cup (IF w \in OwnersOf(obj) THEN {v} ELSE {})
    BY <1>5, <2>1, AcquireMeans
  <2> QED BY <1>1, <2>1, <2>2, <2>3, TakeMeans
<1>6. ASSUME NEW v \in Var, NEW w \in Var, str_swap(v, w) PROVE V!Swap(v, w)
  BY <1>1, <1>6, SwapMeans
<1>7. ASSUME NEW v \in Var, NEW a \in Literal, NEW b \in Block, AssignAcquireMem(v, a, b)
      PROVE  V!TakeBuffer(v)
  <2> DEFINE h == [heap EXCEPT ![b] = LitText[a]]
             n == Len(LitText[a])
  <2>1. LitText[a] \in Seq(Nat) /\ n \in Nat /\ SubSeq(LitText[a], 1, n) = LitText[a]
    BY HeapAssumption
  <2>2. h \in [Block -> Seq(Nat)] /\ h[b] = LitText[a] /\ \A c \in Block \ {b} : h[c] = heap[c]
    BY <2>1, CallTypes
  <2>3. b \notin live /\ AssignOwned(h, v, b, n)
    BY <1>7 DEF AssignAcquireMem
  <2>4. n <= Len(h[b])
    BY <2>1, <2>2
  <2> HIDE DEF h, n
  <2>5. OwnsIn(v, LitText[a])
    BY <2>1, <2>2, <2>3, <2>4, OwnedMeans
  <2> QED BY <1>1, <2>5, TakeBufferMeans
<1>8. ASSUME NEW v \in Var, Clear(v) PROVE V!SetRef(v)
  <2>1. str_null.at \notin Freed(obj[v]) /\ ~str_null.own
    BY Halves, Constructors DEF Store, StoreOK, ObjectOK, Freed
  <2>2. ValueOf(heap, str_null) = <<>>
    BY <1>2 DEF ValueOf, TextOf, str_null
  <2>3. RefersIn(v, <<>>)
    BY <1>8, <2>1, <2>2, ReferenceMeans DEF Clear, str_clear, RefersIn
  <2> QED BY <1>1, <2>3, SetRefMeans
<1> QED BY <1>1, <1>3, <1>4, <1>5, <1>6, <1>7, <1>8 DEF ProgramStep

----------------------------------------------------------------------------
(* The pieces a call puts together.                                         *)

PieceOf(h, c, s) ==
  IF s.at = STACK THEN SubSeq(c.small, s.off + 1, s.off + s.len) ELSE TextOf(h, s)

PieceAt(h, c, k) ==
  CASE c.fn = "repeat" -> TextOf(h, c.src[1])
    [] c.fn = "join" /\ k > 1 -> TextOf(h, c.sep) \o TextOf(h, c.src[k])
    [] OTHER -> PieceOf(h, c, c.src[k])

LenAt(c, k) ==
  CASE c.fn = "repeat" -> c.src[1].len
    [] c.fn = "join" /\ k > 1 -> c.sep.len + c.src[k].len
    [] OTHER -> c.src[k].len

NumberOf(c) == IF c.fn = "repeat" THEN c.times ELSE Len(c.src)

Pieces(h, c, n) == FlattenSeq([k \in 1 .. n |-> PieceAt(h, c, k)])

Active == Formatting \/ Looping

LEMMA PieceHere == \A s : PieceText(s) = PieceOf(heap, call, s)
BY TextHere DEF PieceText, PieceOf

LEMMA ArgumentsActive ==
  ASSUME IInv, Active
  PROVE  /\ call.dest \in Var /\ StartsOK /\ NumberOf(call) \in Nat
         /\ call.fn = "repeat" => Len(call.src) = 1
         /\ call.fn = "join" => Len(call.src) >= 2
         /\ call.fn \in {"join", "repeat", "sprintf"} =>
              \A k \in 1 .. Len(call.src) : call.src[k] \in Object /\ call.src[k].at # STACK
         /\ \A k \in 1 .. Len(call.src) :
              /\ PieceOf(heap, call, call.src[k]) \in Seq(Nat)
              /\ Len(PieceOf(heap, call, call.src[k])) = call.src[k].len
         /\ TextOf(heap, call.sep) \in Seq(Nat) /\ Len(TextOf(heap, call.sep)) = call.sep.len
<1>1. call.dest \in Var /\ StartsOK /\ LoopOK /\ FormatOK
  BY Halves DEF CallOK, Active, Formatting, Looping
<1>2. NumberOf(call) \in Nat
  BY CallTypes DEF NumberOf
<1>3. call.fn \in {"join", "repeat", "sprintf"} =>
        \A k \in 1 .. Len(call.src) : call.src[k] \in Object /\ call.src[k].at # STACK
  <2>1. call.fn \in {"join", "repeat", "sprintf"} => call.src \in Seq(Object)
    BY <1>1 DEF LoopOK, FormatOK, Looping, Formatting
  <2>2. \A s \in Object : s.at # STACK
    BY MemAssumption DEF Object
  <2> QED BY <2>1, <2>2, ElementOfSeq
<1>4. ASSUME NEW k \in 1 .. Len(call.src)
      PROVE  /\ PieceOf(heap, call, call.src[k]) \in Seq(Nat)
             /\ Len(PieceOf(heap, call, call.src[k])) = call.src[k].len
  <2>1. Argument(call.src[k]) /\ call.src[k] \in Object \cup SmallRef
    BY Halves, CallTypes DEF ArgumentsOK, ArgumentOK
  <2>2. PieceText(call.src[k]) \in Seq(Nat) /\ Len(PieceText(call.src[k])) = call.src[k].len
    BY <2>1, PieceTextType
  <2> QED BY <2>2, PieceHere
<1>5. TextOf(heap, call.sep) \in Seq(Nat) /\ Len(TextOf(heap, call.sep)) = call.sep.len
  <2>1. call.sep \in Object /\ Argument(call.sep) /\ call.sep.at # STACK
    BY Halves, CallTypes, MemAssumption DEF ArgumentsOK, ArgumentOK, Object
  <2>2. PieceText(call.sep) \in Seq(Nat) /\ Len(PieceText(call.sep)) = call.sep.len
    BY <2>1, PieceTextType
  <2> QED BY <2>1, <2>2, PieceHere DEF PieceOf
<1> QED BY <1>1, <1>2, <1>3, <1>4, <1>5 DEF LoopOK, Active, Formatting, Looping

LEMMA PieceAtType ==
  ASSUME IInv, Active, NEW k \in 1 .. NumberOf(call)
  PROVE  PieceAt(heap, call, k) \in Seq(Nat) /\ Len(PieceAt(heap, call, k)) = LenAt(call, k)
<1>1. CASE call.fn = "repeat"
  <2>1. 1 \in 1 .. Len(call.src) /\ call.src[1].at # STACK
    <3>1. 1 \in 1 .. Len(call.src)
      <4>1. Len(call.src) = 1
        BY <1>1, ArgumentsActive
      <4> QED BY <4>1
    <3> QED BY <1>1, <3>1, ArgumentsActive
  <2>2. PieceOf(heap, call, call.src[1]) = TextOf(heap, call.src[1])
    BY <2>1 DEF PieceOf
  <2> QED BY <1>1, <2>1, <2>2, ArgumentsActive DEF PieceAt, LenAt
<1>2. CASE call.fn = "join" /\ k > 1
  <2>1. k \in 1 .. Len(call.src)
    BY <1>2 DEF NumberOf
  <2>2. PieceOf(heap, call, call.src[k]) = TextOf(heap, call.src[k])
    BY <1>2, <2>1, ArgumentsActive DEF PieceOf
  <2>3. PieceOf(heap, call, call.src[k]) \in Seq(Nat)
        /\ Len(PieceOf(heap, call, call.src[k])) = call.src[k].len
    BY <2>1, ArgumentsActive
  <2>4. \A x, y \in Seq(Nat) : x \o y \in Seq(Nat) /\ Len(x \o y) = Len(x) + Len(y)
    OBVIOUS
  <2>5. PieceAt(heap, call, k) = TextOf(heap, call.sep) \o TextOf(heap, call.src[k])
    BY <1>2 DEF PieceAt
  <2>6. LenAt(call, k) = call.sep.len + call.src[k].len
    BY <1>2 DEF LenAt
  <2>7. TextOf(heap, call.sep) \in Seq(Nat) /\ Len(TextOf(heap, call.sep)) = call.sep.len
    BY ArgumentsActive
  <2>8. TextOf(heap, call.src[k]) \in Seq(Nat)
        /\ Len(TextOf(heap, call.src[k])) = call.src[k].len
    BY ONLY <2>2, <2>3
  <2> DEFINE x == TextOf(heap, call.sep)  y == TextOf(heap, call.src[k])
  <2> HIDE DEF x, y
  <2>9. x \o y \in Seq(Nat) /\ Len(x \o y) = Len(x) + Len(y)
    BY ONLY <2>4, <2>7, <2>8 DEF x, y
  <2> QED BY ONLY <2>5, <2>6, <2>7, <2>8, <2>9 DEF x, y
<1>3. CASE call.fn # "repeat" /\ ~(call.fn = "join" /\ k > 1)
  <2>1. k \in 1 .. Len(call.src)
    BY <1>3 DEF NumberOf
  <2>2. PieceAt(heap, call, k) = PieceOf(heap, call, call.src[k]) /\ LenAt(call, k) = call.src[k].len
    BY <1>3 DEF PieceAt, LenAt
  <2> QED BY <2>1, <2>2, ArgumentsActive
<1> QED BY <1>1, <1>2, <1>3

\* What a call promises is its pieces one after the other.
LEMMA OutcomeIs ==
  ASSUME IInv, Active
  PROVE  Outcome(call) = Pieces(heap, call, NumberOf(call))
<1> DEFINE xs == [k \in DOMAIN call.src |-> PieceText(call.src[k])]
           ps == [k \in 1 .. NumberOf(call) |-> PieceAt(heap, call, k)]
<1>1. /\ DOMAIN xs = 1 .. Len(call.src)
      /\ \A k \in 1 .. Len(call.src) : xs[k] = PieceOf(heap, call, call.src[k])
  BY CallTypes, PieceHere
<1>2. Outcome(call) = CASE call.fn = "repeat" -> Repeated(xs[1], call.times)
                        [] call.fn = "join"   -> Joined(Text(call.sep), xs)
                        [] OTHER              -> Joined(<<>>, xs)
  BY DEF Outcome
<1> HIDE DEF xs
<1>3. CASE call.fn = "repeat"
  <2>1. 1 \in 1 .. Len(call.src) /\ call.src[1].at # STACK
    <3>1. 1 \in 1 .. Len(call.src)
      <4>1. Len(call.src) = 1
        BY <1>3, ArgumentsActive
      <4> QED BY <4>1
    <3> QED BY <1>3, <3>1, ArgumentsActive
  <2>2. xs[1] = TextOf(heap, call.src[1])
    BY <1>1, <2>1 DEF PieceOf
  <2>3. [k \in 1 .. call.times |-> xs[1]] = ps
    BY <1>3, <2>2 DEF PieceAt, NumberOf
  <2> QED BY <1>2, <1>3, <2>3 DEF Repeated, Pieces
<1>4. CASE call.fn = "join"
  <2>1. \A k \in 1 .. Len(call.src) : xs[k] = TextOf(heap, call.src[k])
    BY <1>1, <1>4, ArgumentsActive DEF PieceOf
  <2>2. \A k \in 1 .. Len(call.src) :
          (IF k = 1 THEN xs[k] ELSE Text(call.sep) \o xs[k]) = PieceAt(heap, call, k)
    BY <1>1, <1>4, <2>1, TextHere DEF PieceAt
  <2>3. [k \in DOMAIN xs |-> IF k = 1 THEN xs[k] ELSE Text(call.sep) \o xs[k]] = ps
    BY <1>1, <1>4, <2>2 DEF NumberOf
  <2> QED BY <1>2, <1>4, <2>3 DEF Joined, Pieces
<1>5. CASE call.fn \notin {"repeat", "join"}
  <2>1. \A y \in Seq(Nat) : <<>> \o y = y
    OBVIOUS
  <2>2. \A k \in 1 .. Len(call.src) :
          (IF k = 1 THEN xs[k] ELSE <<>> \o xs[k]) = PieceAt(heap, call, k)
    BY <1>1, <1>5, <2>1, ArgumentsActive DEF PieceAt
  <2>3. [k \in DOMAIN xs |-> IF k = 1 THEN xs[k] ELSE <<>> \o xs[k]] = ps
    BY <1>1, <1>5, <2>2 DEF NumberOf
  <2> QED BY <1>2, <1>5, <2>3 DEF Joined, Pieces
<1> QED BY <1>3, <1>4, <1>5

\* Pieces that are empty add nothing.
LEMMA RestEmpty ==
  ASSUME IInv, Active, NEW m \in 0 .. NumberOf(call),
         \A k \in m + 1 .. NumberOf(call) : LenAt(call, k) = 0
  PROVE  Pieces(heap, call, NumberOf(call)) = Pieces(heap, call, m)
<1> DEFINE e(k) == PieceAt(heap, call, k)
<1>1. PICK n : n = NumberOf(call) /\ n \in Nat
  BY ArgumentsActive
<1>2. \A k \in 1 .. n : e(k) \in Seq(Nat)
  BY <1>1, PieceAtType
<1>3. \A k \in m + 1 .. n : e(k) = <<>>
  <2>1. \A k \in m + 1 .. n : k \in 1 .. n
    BY <1>1
  <2>2. \A y \in Seq(Nat) : Len(y) = 0 => y = <<>>
    OBVIOUS
  <2> QED BY <1>1, <2>1, <2>2, PieceAtType
<1>4. PICK f : f = [k \in 1 .. n |-> e(k)]
  OBVIOUS
<1>5. /\ \A k \in 1 .. n : f[k] \in Seq(Nat)
      /\ \A k \in m + 1 .. n : f[k] = <<>>
  <2>1. \A k \in m + 1 .. n : k \in 1 .. n
    BY <1>1
  <2> QED BY <1>2, <1>3, <1>4, <2>1
<1>6. FlattenSeq([k \in 1 .. n |-> f[k]]) = FlattenSeq([k \in 1 .. m |-> f[k]])
  <2>1. n \in Nat /\ m \in 0 .. n
    BY <1>1
  <2>2. EmptyAfter(f, m, n, Nat)
    BY <1>5 DEF EmptyAfter
  <2> QED BY <2>1, <2>2, FlattenRest
<1>7. [k \in 1 .. n |-> f[k]] = [k \in 1 .. n |-> e(k)] /\ [k \in 1 .. m |-> f[k]] = [k \in 1 .. m |-> e(k)]
  <2>1. \A k \in 1 .. m : k \in 1 .. n
    BY <1>1
  <2> QED BY <1>4, <2>1
<1> QED BY <1>1, <1>6, <1>7 DEF Pieces

LEMMA NoMoreBytes ==
  ASSUME NEW x \in Nat, NEW m \in Nat, NEW n \in Nat, m < n, x * n <= x * m
  PROVE  x = 0
<1> DEFINE k == n - m - 1
<1>1. k \in Nat /\ n = m + (k + 1)
  OBVIOUS
<1> HIDE DEF k
<1>2. x * n = x * m + (x * k + x) /\ x * m \in Nat /\ x * k \in Nat
  BY <1>1
<1> QED BY <1>2

\* If no strings from the m-th on have bytes, their total says so.
LEMMA TotalsEven ==
  ASSUME IInv, Active, NEW m \in 0 .. Len(call.src)
  PROVE  /\ call.starts[m + 1] \in Nat /\ call.starts[Len(call.src) + 1] \in Nat
         /\ call.starts[m + 1] <= call.starts[Len(call.src) + 1]
         /\ call.starts[m + 1] = call.starts[Len(call.src) + 1] =>
              \A k \in m + 1 .. Len(call.src) : call.src[k].len = 0
<1> DEFINE t == call.starts
           d == [k \in 1 .. Len(call.src) |-> call.src[k].len]
<1>1. PICK n : n = Len(call.src) /\ n \in Nat
  BY CallTypes
<1>2. /\ \A k \in 1 .. n + 1 : t[k] \in Nat
      /\ \A k \in 1 .. n : d[k] \in Nat /\ t[k + 1] = t[k] + d[k]
  BY <1>1, ArgumentsActive, CallTypes DEF StartsOK
<1>3. \A k \in 1 .. n : d[k] = call.src[k].len
  BY <1>1
<1> HIDE DEF t, d
<1>4. ASSUME NEW l \in 0 .. n PROVE \A k \in 1 .. l + 1 : t[k] <= t[l + 1]
  <2>1. /\ l \in Nat
        /\ \A k \in 1 .. l + 1 : t[k] \in Nat
        /\ \A k \in 1 .. l : d[k] \in Nat /\ t[k + 1] = t[k] + d[k]
    BY <1>1, <1>2
  <2> QED BY ONLY <2>1, RunningTotals
<1>5. m \in 0 .. n /\ m + 1 \in 1 .. n + 1
  BY <1>1
<1>6. t[m + 1] \in Nat /\ t[n + 1] \in Nat /\ t[m + 1] <= t[n + 1]
  BY <1>1, <1>2, <1>4, <1>5
<1>7. ASSUME t[m + 1] = t[n + 1], NEW k \in m + 1 .. n PROVE d[k] = 0
  <2>1. k \in 1 .. n /\ k \in Nat /\ k - 1 \in 0 .. n /\ k - 1 + 1 = k /\ k \in 0 .. n
        /\ m + 1 \in 1 .. k - 1 + 1 /\ k + 1 \in 1 .. n + 1 /\ k \in 1 .. n + 1
    BY <1>1, <1>5
  <2>2. t[m + 1] <= t[k]
    BY <1>4, <2>1
  <2>3. t[k + 1] <= t[n + 1]
    BY <1>1, <1>4, <2>1
  <2>4. t[k] \in Nat /\ t[k + 1] \in Nat /\ d[k] \in Nat /\ t[k + 1] = t[k] + d[k]
    BY <1>2, <2>1
  <2> QED BY <1>6, <1>7, <2>2, <2>3, <2>4
<1>8. \A k \in m + 1 .. n : k \in 1 .. n
  BY <1>1, <1>5
<1> QED BY <1>1, <1>3, <1>6, <1>7, <1>8 DEF t

----------------------------------------------------------------------------
(* When a loop ends it has written everything.                              *)

\* What the mapping needs of the call: str_repeat works on its destination,
\* small_buff holds the pieces printed so far for as long as they fit, and the
\* buffer holds the pieces written so far.
PiecesOK ==
  /\ call.fn = "repeat" => call.src[1] = obj[call.dest]
  /\ Formatting /\ call.starts[call.i] < SmallBuffSize =>
       call.small = Pieces(heap, call, call.i - 1)
  /\ call.buff # NULL => heap[call.buff] = Pieces(heap, call, call.i - 1)

\* The bytes that the strings and separators up to the m-th leave to write.
LEMMA RestOfJoin ==
  ASSUME IInv, Active, call.fn = "join", NEW m \in 1 .. Len(call.src),
         call.starts[m + 1] + call.sep.len * (m - 1)
           >= call.starts[Len(call.src) + 1] + call.sep.len * (Len(call.src) - 1)
  PROVE  \A k \in m + 1 .. Len(call.src) : LenAt(call, k) = 0
<1>1. PICK n : n = Len(call.src) /\ n \in Nat /\ m \in 1 .. n
  BY CallTypes
<1>2. PICK l : l = call.sep.len /\ l \in Nat
  BY CallTypes
<1>3. PICK a, c : a = call.starts[m + 1] /\ c = call.starts[n + 1]
  OBVIOUS
<1>4. m \in 0 .. Len(call.src)
  OBVIOUS
<1>5. a \in Nat /\ c \in Nat /\ a <= c
      /\ (a = c => \A k \in m + 1 .. n : call.src[k].len = 0)
  BY <1>1, <1>3, <1>4, TotalsEven
<1>6. a + l * (m - 1) >= c + l * (n - 1)
  BY <1>1, <1>2, <1>3
<1>7. l * (m - 1) \in Nat /\ l * (n - 1) \in Nat /\ m - 1 \in Nat /\ n - 1 \in Nat
  <2>1. \A x, y \in Nat : x * y \in Nat
    OBVIOUS
  <2>2. m - 1 \in Nat /\ n - 1 \in Nat
    BY <1>1
  <2> QED BY <1>2, <2>1, <2>2
<1>8. l * (n - 1) <= l * (m - 1)
  <2>1. \A x, y \in Nat : a + x >= c + y => y <= x
    BY <1>5
  <2> QED BY <1>6, <1>7, <2>1
<1>9. ASSUME NEW k \in m + 1 .. n PROVE LenAt(call, k) = 0
  <2>1. m - 1 < n - 1 /\ k > 1
    BY <1>1
  <2>2. l = 0
    BY <1>2, <1>7, <1>8, <2>1, NoMoreBytes
  <2>3. l * (m - 1) = 0 /\ l * (n - 1) = 0
    <3>1. \A x \in Nat : 0 * x = 0
      OBVIOUS
    <3> QED BY <1>7, <2>2, <3>1
  <2>4. a = c
    BY <1>5, <1>6, <2>3
  <2>5. call.src[k].len = 0
    BY <1>5, <2>4
  <2> QED BY <1>2, <2>1, <2>2, <2>5 DEF LenAt
<1> QED BY <1>1, <1>9

LEMMA RestOfOthers ==
  ASSUME IInv, Active, call.fn \notin {"join", "repeat"}, NEW m \in 0 .. Len(call.src),
         call.starts[m + 1] >= call.starts[Len(call.src) + 1]
  PROVE  \A k \in m + 1 .. Len(call.src) : LenAt(call, k) = 0
<1>1. call.starts[m + 1] = call.starts[Len(call.src) + 1]
  BY TotalsEven
<1> QED BY <1>1, TotalsEven DEF LenAt

\* The append loop stops: concat and join because the bytes are all there, so
\* that what they have not looked at is empty.
LEMMA AllPieces ==
  ASSUME IInv, PiecesOK, Looping, call.buff # NULL, ~More
  PROVE  heap[call.buff] = Pieces(heap, call, NumberOf(call))
<1>1. /\ call.n = Size(call) /\ call.n > 0
      /\ call.i <= NumberOf(call) + 1
      /\ Len(heap[call.buff]) = Written(call)
  BY Halves DEF CallOK, BufferOK, NumberOf
<1>2. call.i \in Nat \ {0} /\ NumberOf(call) \in Nat /\ Active /\ StartsOK
  BY CallTypes, ArgumentsActive DEF Active
<1>3. PICK m \in 0 .. NumberOf(call) : m = call.i - 1 /\ call.i = m + 1
  BY <1>1, <1>2
<1>4. heap[call.buff] = Pieces(heap, call, m)
  BY <1>3 DEF PiecesOK
<1>5. call.fn # "repeat" => Written(call) >= Size(call)
  <2>1. ASSUME call.fn # "repeat" PROVE ~(Len(heap[call.buff]) < call.n)
    BY <2>1 DEF More
  <2>2. Len(heap[call.buff]) \in Nat /\ call.n \in Nat
    <3>1. call.buff \in Block
      BY CallTypes, Halves DEF Store, CallRecord
    <3> QED BY <3>1, CallTypes, LenProperties
  <2> QED BY <1>1, <2>1, <2>2
<1>6. CASE call.fn = "repeat"
  <2>1. NumberOf(call) = call.times /\ ~(call.i <= call.times)
    BY <1>6 DEF More, NumberOf
  <2>2. m = NumberOf(call)
    BY <1>2, <1>3, <2>1
  <2> QED BY <1>4, <2>2
<1>7. CASE call.fn = "join"
  <2>1. NumberOf(call) = Len(call.src) /\ Len(call.src) \in Nat
    BY <1>7, CallTypes DEF NumberOf
  <2>2. m # 0
    <3>1. ASSUME m = 0 PROVE FALSE
      <4>0. call.i = 1 /\ ~(call.i > 1) /\ call.starts[1] = 0
        BY <1>2, <1>3, <3>1 DEF StartsOK
      <4>1. Written(call) = 0
        BY <1>7, <4>0 DEF Written
      <4> QED BY <1>1, <1>5, <1>7, <4>1, CallTypes
    <3> QED BY <3>1
  <2>3. m \in 1 .. Len(call.src) /\ call.i > 1 /\ call.i - 2 = m - 1
    BY <1>3, <2>1, <2>2
  <2>4. /\ Written(call) = call.starts[m + 1] + call.sep.len * (m - 1)
        /\ Size(call) = call.starts[Len(call.src) + 1] + call.sep.len * (Len(call.src) - 1)
    BY <1>3, <1>7, <2>3 DEF Written, Copies, Size
  <2>5. \A k \in m + 1 .. Len(call.src) : LenAt(call, k) = 0
    BY <1>2, <1>5, <1>7, <2>3, <2>4, RestOfJoin
  <2> QED BY <1>2, <1>4, <2>1, <2>5, RestEmpty
<1>8. CASE call.fn = "concat"
  <2>1. NumberOf(call) = Len(call.src) /\ m \in 0 .. Len(call.src)
    BY <1>8 DEF NumberOf
  <2>2. Written(call) = call.starts[m + 1] /\ Size(call) = call.starts[Len(call.src) + 1]
    BY <1>3, <1>8 DEF Written, Size
  <2>3. \A k \in m + 1 .. Len(call.src) : LenAt(call, k) = 0
    BY <1>2, <1>5, <1>8, <2>1, <2>2, RestOfOthers
  <2> QED BY <1>2, <1>4, <2>1, <2>3, RestEmpty
<1> QED BY <1>6, <1>7, <1>8 DEF Looping

LEMMA NoPieces == \A h, c : Pieces(h, c, 0) = <<>>
<1>1. \A h, c : [k \in 1 .. 0 |-> PieceAt(h, c, k)] = <<>>
  OBVIOUS
<1> QED BY <1>1, FlattenNone DEF Pieces

\* A call whose result has no bytes: all its pieces are empty.
LEMMA EmptyMeans ==
  ASSUME IInv, Active, Size(call) = 0
  PROVE  Outcome(call) = <<>>
<1>1. /\ NumberOf(call) \in Nat /\ StartsOK /\ call.starts[1] = 0 /\ Len(call.src) \in Nat
      /\ call.times \in Nat /\ call.sep.len \in Nat
  BY CallTypes, ArgumentsActive DEF StartsOK
<1>2. ASSUME \A k \in 1 .. NumberOf(call) : LenAt(call, k) = 0 PROVE Outcome(call) = <<>>
  <2>1. 0 \in 0 .. NumberOf(call) /\ \A k \in 0 + 1 .. NumberOf(call) : LenAt(call, k) = 0
    BY <1>1, <1>2
  <2> QED BY <2>1, RestEmpty, NoPieces, OutcomeIs
<1>3. CASE call.fn = "repeat"
  <2>1. PICK x \in Nat : x = call.src[1].len
    <3>1. Len(call.src) = 1
      BY <1>3, ArgumentsActive
    <3> QED BY <3>1, CallTypes
  <2>2. x * call.times = 0 /\ NumberOf(call) = call.times
    BY <1>3, <2>1 DEF Size, NumberOf
  <2>3. ASSUME call.times # 0 PROVE x = 0
    <3>1. 0 < call.times /\ x * call.times <= x * 0 /\ 0 \in Nat
      BY <1>1, <2>2, <2>3
    <3> QED BY <1>1, <3>1, NoMoreBytes
  <2>4. \A k \in 1 .. NumberOf(call) : LenAt(call, k) = 0
    BY <1>1, <1>3, <2>1, <2>2, <2>3 DEF LenAt
  <2> QED BY <1>2, <2>4
<1>4. CASE call.fn = "join"
  <2>1. Len(call.src) >= 2 /\ NumberOf(call) = Len(call.src)
    BY <1>4, ArgumentsActive DEF NumberOf
  <2>2. PICK l \in Nat, m \in Nat : l = call.sep.len /\ m = Len(call.src) - 1
    <3>1. Len(call.src) - 1 \in Nat /\ call.sep.len \in Nat
      BY <1>1, <2>1
    <3> QED BY <3>1, Zenon
  <2>3. l * m \in Nat
    OBVIOUS
  <2>4. call.starts[Len(call.src) + 1] \in Nat /\ call.starts[Len(call.src) + 1] + l * m = 0
    <3>1. 0 \in 0 .. Len(call.src)
      BY <1>1
    <3> QED BY <1>4, <2>2, <3>1, TotalsEven DEF Size
  <2>5. call.starts[Len(call.src) + 1] = 0 /\ l * m = 0
    BY <2>3, <2>4
  <2>6. l = 0
    <3>1. 0 < m /\ l * 0 = 0 /\ 0 \in Nat
      BY <1>1, <2>1, <2>2
    <3>2. l * m <= l * 0
      BY <2>5, <3>1
    <3> QED BY <3>1, <3>2, NoMoreBytes
  <2>7. \A k \in 1 .. Len(call.src) : call.src[k].len = 0
    <3>1. 0 \in 0 .. Len(call.src) /\ call.starts[0 + 1] = call.starts[Len(call.src) + 1]
      BY <1>1, <2>5
    <3> QED BY <3>1, TotalsEven
  <2> QED BY <1>2, <1>4, <2>1, <2>2, <2>6, <2>7 DEF LenAt
<1>5. CASE call.fn \notin {"join", "repeat"}
  <2>1. NumberOf(call) = Len(call.src) /\ call.starts[Len(call.src) + 1] = 0
    BY <1>5 DEF NumberOf, Size
  <2>2. 0 \in 0 .. Len(call.src) /\ call.starts[0 + 1] = call.starts[Len(call.src) + 1]
    BY <1>1, <2>1
  <2>3. \A k \in 1 .. Len(call.src) : call.src[k].len = 0
    BY <2>2, TotalsEven
  <2> QED BY <1>2, <1>5, <2>1, <2>3 DEF LenAt
<1> QED BY <1>3, <1>4, <1>5

----------------------------------------------------------------------------
(* The steps of a call that the program cannot see.                         *)

\* Between two steps of a call, c and h becoming c2 and h2: the arguments are
\* the same, and so is the memory they lie in.
SameArguments(h, h2, c, c2) ==
  /\ c2.src = c.src /\ c2.sep = c.sep /\ c2.times = c.times
  /\ c2.fn = c.fn \/ (c.fn = "sprintf" /\ c2.fn = "concat")
  /\ c.fn = "repeat" => 1 \in 1 .. Len(c.src)
  /\ c.sep.at \in Block => h2[c.sep.at] = h[c.sep.at]
  /\ \A k \in 1 .. Len(c.src) : /\ c.src[k].at \in Block => h2[c.src[k].at] = h[c.src[k].at]
                                /\ c.src[k].at = STACK => c2.small = c.small

LEMMA PiecesStay ==
  ASSUME NEW h, NEW h2, NEW c, NEW c2, SameArguments(h, h2, c, c2), Len(c.src) \in Nat,
         NEW n \in Nat, n <= NumberOf(c)
  PROVE  NumberOf(c2) = NumberOf(c) /\ Pieces(h2, c2, n) = Pieces(h, c, n)
<1>1. NumberOf(c2) = NumberOf(c)
  BY DEF SameArguments, NumberOf
<1>2. ASSUME NEW k \in 1 .. Len(c.src)
      PROVE  /\ TextOf(h2, c.src[k]) = TextOf(h, c.src[k])
             /\ PieceOf(h2, c2, c.src[k]) = PieceOf(h, c, c.src[k])
  <2>1. TextOf(h2, c.src[k]) = TextOf(h, c.src[k])
    BY TextStays DEF SameArguments
  <2> QED BY <2>1 DEF PieceOf, SameArguments
<1>3. TextOf(h2, c.sep) = TextOf(h, c.sep)
  BY TextStays DEF SameArguments
<1>4. c2.src = c.src /\ c2.sep = c.sep
  BY DEF SameArguments
<1>5. ASSUME NEW k \in 1 .. n PROVE PieceAt(h2, c2, k) = PieceAt(h, c, k)
  <2>1. CASE c.fn = "repeat"
    <3>1. c2.fn = "repeat" /\ 1 \in 1 .. Len(c.src)
      BY <2>1 DEF SameArguments
    <3> QED BY <1>2, <1>4, <2>1, <3>1 DEF PieceAt
  <2>2. CASE c.fn # "repeat"
    <3>1. k \in 1 .. Len(c.src)
      BY <2>2 DEF NumberOf
    <3>2. c2.fn # "repeat" /\ (c2.fn = "join" <=> c.fn = "join")
      BY <2>2 DEF SameArguments
    <3> QED BY <1>2, <1>3, <1>4, <2>2, <3>1, <3>2 DEF PieceAt
  <2> QED BY <2>1, <2>2
<1> QED BY <1>1, <1>5 DEF Pieces

\* The variables' values do not change when their memory does not.
LEMMA ValuesStay ==
  ASSUME obj' = obj, \A v \in Var : obj[v].at \in Block => heap'[obj[v].at] = heap[obj[v].at]
  PROVE  ValOf(obj', heap') = ValOf(obj, heap) /\ OwnersOf(obj') = OwnersOf(obj)
<1>1. \A v \in Var : ValueOf(heap', obj'[v]) = ValueOf(heap, obj[v])
  BY TextStays
<1> QED BY <1>1 DEF ValOf, OwnersOf

LEMMA OutcomeNext ==
  ( IInv /\ Active => Outcome(call) = Pieces(heap, call, NumberOf(call)) )'
<1>1. IInv /\ Active => Outcome(call) = Pieces(heap, call, NumberOf(call))
  BY OutcomeIs
<1> QED BY <1>1, PTL

LEMMA OutcomeStays ==
  ASSUME IInv, IInv', Active, Active', SameArguments(heap, heap', call, call')
  PROVE  Outcome(call)' = Outcome(call)
<1>1. NumberOf(call) \in Nat /\ Len(call.src) \in Nat /\ NumberOf(call) <= NumberOf(call)
  BY ArgumentsActive, CallTypes
<1>2. /\ NumberOf(call') = NumberOf(call)
      /\ Pieces(heap', call', NumberOf(call)) = Pieces(heap, call, NumberOf(call))
  BY <1>1, PiecesStay
<1>3. Outcome(call)' = Pieces(heap', call', NumberOf(call'))
  BY OutcomeNext
<1> QED BY <1>2, <1>3, OutcomeIs

LEMMA ActiveCall == Active => call # NoCall /\ call # Exited
BY DEF Active, Formatting, Looping, NoCall, Exited

LEMMA ActiveNext == ( Active => call # NoCall /\ call # Exited )'
BY ActiveCall, PTL

\* The arguments of a call lie neither in its buffer nor in a free block.
LEMMA ArgumentsApart ==
  ASSUME IInv, NEW b \in Block, b \notin live \/ b = call.buff
  PROVE  /\ call.sep.at # b /\ \A k \in 1 .. Len(call.src) : call.src[k].at # b
         /\ \A v \in Var : obj[v].at # b
BY Halves, CallTypes DEF ArgumentsOK, ArgumentOK, Store, StoreOK, ObjectOK

\* A step of a call that touches no argument and no variable.
LEMMA HiddenStep ==
  ASSUME IInv, IInv', Active, Active', SameArguments(heap, heap', call, call'), obj' = obj,
         call'.dest = call.dest,
         \A v \in Var : obj[v].at \in Block => heap'[obj[v].at] = heap[obj[v].at]
  PROVE  /\ Pending = [dest |-> call.dest, result |-> Outcome(call), fails |-> Formatting]
         /\ Pending' = [dest |-> call.dest, result |-> Outcome(call), fails |-> Formatting']
         /\ ValOf(obj', heap') = ValOf(obj, heap) /\ OwnersOf(obj') = OwnersOf(obj)
<1>1. Pending = [dest |-> call.dest, result |-> Outcome(call), fails |-> Formatting]
  BY PendingIs, ActiveCall
<1>2. Pending' = [dest |-> call'.dest, result |-> Outcome(call)', fails |-> Formatting']
  BY PendingNext, ActiveNext
<1> QED BY <1>1, <1>2, OutcomeStays, ValuesStay

----------------------------------------------------------------------------
(* The steps of a call keep PiecesOK, and are steps of StrValue or none.    *)

LEMMA PiecesNext ==
  ASSUME IInv, Active, NEW m \in Nat, m + 1 <= NumberOf(call)
  PROVE  Pieces(heap, call, m + 1) = Pieces(heap, call, m) \o PieceAt(heap, call, m + 1)
<1>1. PICK f : f = [k \in 1 .. m + 1 |-> PieceAt(heap, call, k)]
  OBVIOUS
<1>2. \A k \in 1 .. m + 1 : k \in 1 .. NumberOf(call)
  BY ArgumentsActive
<1>3. \A k \in 1 .. m + 1 : f[k] \in Seq(Nat)
  BY <1>1, <1>2, PieceAtType
<1>4. FlattenSeq([k \in 1 .. m + 1 |-> f[k]]) = FlattenSeq([k \in 1 .. m |-> f[k]]) \o f[m + 1]
  BY <1>3, FlattenNext
<1>5. /\ [k \in 1 .. m + 1 |-> f[k]] = [k \in 1 .. m + 1 |-> PieceAt(heap, call, k)]
      /\ [k \in 1 .. m |-> f[k]] = [k \in 1 .. m |-> PieceAt(heap, call, k)]
      /\ f[m + 1] = PieceAt(heap, call, m + 1)
  BY <1>1
<1> QED BY <1>4, <1>5 DEF Pieces

\* The call goes on as c, and the heap h differs from heap in block b only,
\* which is free or the call's buffer.
GoesOn(h, c, b) ==
  /\ c.src = call.src /\ c.sep = call.sep /\ c.times = call.times
  /\ c.fn = call.fn \/ (call.fn = "sprintf" /\ c.fn = "concat")
  /\ c.small = call.small \/ Formatting
  /\ b \in Block => b \notin live \/ b = call.buff
  /\ \A a \in Block \ {b} : h[a] = heap[a]

LEMMA SameArgumentsHere ==
  ASSUME IInv, Active, NEW h, NEW c, NEW b, GoesOn(h, c, b)
  PROVE  SameArguments(heap, h, call, c)
<1> USE DEF GoesOn
<1>1. ASSUME call.fn = "repeat" PROVE 1 \in 1 .. Len(call.src)
  <2>1. Len(call.src) = 1
    BY <1>1, ArgumentsActive
  <2> QED BY <2>1
<1>2. call.sep.at \in Block => h[call.sep.at] = heap[call.sep.at]
  BY ArgumentsApart
<1>3. ASSUME NEW k \in 1 .. Len(call.src)
      PROVE  /\ call.src[k].at \in Block => h[call.src[k].at] = heap[call.src[k].at]
             /\ call.src[k].at = STACK => c.small = call.small
  BY ArgumentsApart, ArgumentsActive DEF Formatting
<1> QED BY <1>1, <1>2, <1>3 DEF SameArguments

LEMMA KeptPrefix ==
  ASSUME NEW s \in Seq(Nat), NEW x \in Seq(Nat), NEW r \in Nat, Len(x) <= r
  PROVE  (s \o (IF Len(x) <= r THEN x ELSE SubSeq(x, 1, r))) = s \o x
OBVIOUS

LEMMA vsnprintfMeans ==
  ASSUME IInv, IInv', PiecesOK, vsnprintf
  PROVE  PiecesOK' /\ Pending' = Pending
         /\ ValOf(obj', heap') = ValOf(obj, heap) /\ OwnersOf(obj') = OwnersOf(obj)
<1> DEFINE room == SmallBuffSize - 1 - Len(call.small)
           text == Text(call.src[call.i])
           kept == IF Len(text) <= room THEN text ELSE SubSeq(text, 1, room)
<1>1. /\ Formatting /\ call.i <= Len(call.src) /\ obj' = obj /\ heap' = heap
      /\ call' = [call EXCEPT !.i = @ + 1, !.small = @ \o kept]
  BY DEF vsnprintf
<1>2. /\ call.fn = "sprintf" /\ call.buff = NULL /\ StartsOK /\ Active
      /\ call.i \in 1 .. Len(call.src)
      /\ Len(call.small) = Printed(call.starts[call.i])
  BY <1>1, Halves, CallTypes DEF CallOK, FormatOK, Formatting, Active
<1>3. /\ call'.fn = "sprintf" /\ call'.dest = call.dest /\ call'.sep = call.sep
      /\ call'.src = call.src /\ call'.starts = call.starts /\ call'.times = call.times
      /\ call'.buff = NULL /\ call'.i = call.i + 1 /\ call'.small = call.small \o kept
  <2> HIDE DEF kept
  <2> QED BY <1>1, <1>2, Halves DEF CallRecord
<1>4. Formatting' /\ Active' /\ Formatting
  BY <1>1, <1>3 DEF Formatting, Active
<1>5. SameArguments(heap, heap', call, call')
  <2>1. NULL \notin Block /\ \A a \in Block \ {NULL} : heap'[a] = heap[a]
    BY <1>1, CallTypes
  <2>2. GoesOn(heap', call', NULL)
    <3>1. /\ call'.src = call.src /\ call'.sep = call.sep /\ call'.times = call.times
          /\ call'.fn = call.fn
      BY <1>2, <1>3
    <3> QED BY ONLY <1>4, <2>1, <3>1 DEF GoesOn
  <2> QED BY <1>2, <2>2, SameArgumentsHere
<1>6. PICK n \in Nat : n = Len(call.src) /\ n = NumberOf(call)
  BY <1>2, CallTypes DEF NumberOf
<1>7. PICK m \in Nat : call.i = m + 1 /\ call.i - 1 = m /\ call'.i - 1 = m + 1 /\ m + 1 <= n
  <2>1. call.i - 1 \in Nat
    BY <1>2
  <2>2. call.i = (call.i - 1) + 1 /\ call'.i - 1 = (call.i - 1) + 1
    BY <1>2, <1>3
  <2> QED BY <1>2, <1>6, <2>1, <2>2
<1>8. PieceAt(heap, call, m + 1) = text
  <2>1. call.src[call.i].at # STACK
    BY <1>2, ArgumentsActive
  <2> QED BY <1>2, <1>7, <2>1, TextHere DEF PieceAt, PieceOf
<1>9. text \in Seq(Nat) /\ Len(text) = call.src[call.i].len /\ call.src[call.i].len \in Nat
  <2>1. m + 1 \in 1 .. NumberOf(call)
    BY <1>6, <1>7
  <2>2. PieceAt(heap, call, m + 1) \in Seq(Nat)
        /\ Len(PieceAt(heap, call, m + 1)) = LenAt(call, m + 1)
    BY <1>2, <2>1, PieceAtType
  <2> HIDE DEF text
  <2> QED BY <1>2, <1>7, <1>8, <2>2, CallTypes DEF LenAt
<1> HIDE DEF text
<1>10. /\ call.starts[call.i] \in Nat
       /\ call.starts[call.i + 1] = call.starts[call.i] + Len(text)
  <2>1. \A k \in 1 .. Len(call.src) + 1 : call.starts[k] \in Nat
    BY <1>2, CallTypes DEF StartsOK
  <2>2. \A k \in 1 .. Len(call.src) : call.starts[k + 1] = call.starts[k] + call.src[k].len
    BY <1>2 DEF StartsOK
  <2>3. call.i \in 1 .. Len(call.src) + 1
    BY <1>2, CallTypes
  <2> QED BY <1>2, <1>9, <2>1, <2>2, <2>3
<1>11. ASSUME call'.starts[call'.i] < SmallBuffSize
       PROVE  call'.small = Pieces(heap', call', call'.i - 1)
  <2>1. call.starts[call.i] + Len(text) < SmallBuffSize
    BY <1>3, <1>10, <1>11
  <2>2. SmallBuffSize \in Nat /\ Len(text) \in Nat
    BY <1>9, MemAssumption
  <2>3. Len(call.small) = call.starts[call.i] /\ call.starts[call.i] < SmallBuffSize
    BY <1>2, <1>10, <2>1, <2>2 DEF Printed
  <2>4. Len(text) <= room /\ room \in Nat
    BY <1>10, <2>1, <2>2, <2>3
  <2>5. call.small \o kept = call.small \o text
    <3> HIDE DEF room
    <3> QED BY <1>9, <2>4, KeptPrefix, CallTypes
  <2>6. call.small = Pieces(heap, call, m)
    BY <1>1, <1>7, <2>3 DEF PiecesOK
  <2>7. Pieces(heap, call, m + 1) = Pieces(heap, call, m) \o text
    BY <1>2, <1>6, <1>7, <1>8, PiecesNext
  <2>8. m + 1 \in Nat /\ m + 1 <= NumberOf(call) /\ Len(call.src) \in Nat
    BY <1>6, <1>7
  <2>9. Pieces(heap', call', m + 1) = Pieces(heap, call, m + 1)
    BY <1>5, <2>8, PiecesStay
  <2> QED BY <1>3, <1>7, <2>5, <2>6, <2>7, <2>9
<1>12. PiecesOK'
  BY <1>3, <1>11 DEF PiecesOK
<1>13. /\ Pending = [dest |-> call.dest, result |-> Outcome(call), fails |-> Formatting]
       /\ Pending' = [dest |-> call.dest, result |-> Outcome(call), fails |-> Formatting']
       /\ ValOf(obj', heap') = ValOf(obj, heap) /\ OwnersOf(obj') = OwnersOf(obj)
  BY <1>1, <1>2, <1>3, <1>4, <1>5, HiddenStep
<1>14. Formatting' = Formatting
  BY <1>2, <1>3 DEF Formatting
<1> QED BY <1>12, <1>13, <1>14

LEMMA mem_allocMeans ==
  ASSUME IInv, IInv', PiecesOK, NEW b \in Block, mem_alloc(b)
  PROVE  PiecesOK' /\ Pending' = Pending
         /\ ValOf(obj', heap') = ValOf(obj, heap) /\ OwnersOf(obj') = OwnersOf(obj)
<1>1. /\ Looping /\ b \notin live /\ call.buff = NULL
      /\ heap' = [heap EXCEPT ![b] = <<>>] /\ obj' = obj
      /\ call' = [call EXCEPT !.buff = b, !.n = Size(call)]
  BY DEF mem_alloc, Sized
<1>2. /\ call'.fn = call.fn /\ call'.dest = call.dest /\ call'.sep = call.sep
      /\ call'.src = call.src /\ call'.times = call.times /\ call'.small = call.small
      /\ call'.i = 1 /\ call'.buff = b /\ call.i = 1
  BY <1>1, Halves DEF CallRecord, CallOK, LoopOK
<1>3. Active /\ Active' /\ ~Formatting /\ ~Formatting'
  BY <1>1, <1>2 DEF Active, Looping, Formatting
<1>4. \A a \in Block \ {b} : heap'[a] = heap[a]
  BY <1>1, CallTypes
<1>5. heap'[b] = <<>>
  BY <1>1, CallTypes
<1>6. GoesOn(heap', call', b)
  BY <1>1, <1>2, <1>4 DEF GoesOn
<1>7. SameArguments(heap, heap', call, call')
  BY <1>3, <1>6, SameArgumentsHere
<1>8. \A v \in Var : obj[v].at \in Block => heap'[obj[v].at] = heap[obj[v].at]
  BY <1>1, <1>4, ArgumentsApart
<1>9. /\ Pending = [dest |-> call.dest, result |-> Outcome(call), fails |-> Formatting]
      /\ Pending' = [dest |-> call.dest, result |-> Outcome(call), fails |-> Formatting']
      /\ ValOf(obj', heap') = ValOf(obj, heap) /\ OwnersOf(obj') = OwnersOf(obj)
  BY <1>1, <1>2, <1>3, <1>7, <1>8, HiddenStep
<1>10. Formatting' = Formatting
  BY <1>1, <1>2 DEF Formatting
<1>11. PiecesOK'
  <2>1. call'.i - 1 = 0
    BY <1>2
  <2>2. Pieces(heap', call', call'.i - 1) = <<>>
    BY <2>1, NoPieces
  <2>3. call'.fn = "repeat" => call'.src[1] = obj'[call'.dest]
    BY <1>1, <1>2 DEF PiecesOK
  <2> QED BY <1>2, <1>3, <1>5, <2>2, <2>3 DEF PiecesOK
<1> QED BY <1>9, <1>10, <1>11

\* What append_str writes is the next piece.
LEMMA NextPiece ==
  ASSUME IInv, More
  PROVE  call.i \in 1 .. NumberOf(call) /\ Piece = PieceAt(heap, call, call.i)
<1>1. call.i < NumberOf(call) + 1 /\ call.i \in Nat \ {0} /\ NumberOf(call) \in Nat
  BY PieceOK, CallTypes, ArgumentsActive DEF NumberOf, More, Active
<1>2. Piece = PieceAt(heap, call, call.i)
  BY TextHere, PieceHere DEF Piece, PieceAt
<1> QED BY <1>1, <1>2

LEMMA append_strMeans ==
  ASSUME IInv, IInv', PiecesOK, append_str
  PROVE  PiecesOK' /\ Pending' = Pending
         /\ ValOf(obj', heap') = ValOf(obj, heap) /\ OwnersOf(obj') = OwnersOf(obj)
<1> DEFINE b == call.buff
<1>1. /\ More /\ Looping /\ b # NULL /\ b \in Block
      /\ heap' = [heap EXCEPT ![b] = @ \o Piece] /\ obj' = obj
      /\ call' = [call EXCEPT !.i = @ + 1]
  BY CallTypes, Halves DEF append_str, More, CallOK, BufferOK
<1>2. /\ call'.fn = call.fn /\ call'.dest = call.dest /\ call'.sep = call.sep
      /\ call'.src = call.src /\ call'.times = call.times /\ call'.small = call.small
      /\ call'.i = call.i + 1 /\ call'.buff = b
  BY <1>1, Halves DEF CallRecord
<1>3. Active /\ Active' /\ ~Formatting /\ ~Formatting'
  BY <1>1, <1>2 DEF Active, Looping, Formatting
<1>4. heap'[b] = heap[b] \o Piece /\ \A a \in Block \ {b} : heap'[a] = heap[a]
  BY <1>1, CallTypes
<1>5. GoesOn(heap', call', b)
  BY <1>1, <1>2, <1>4 DEF GoesOn
<1>6. SameArguments(heap, heap', call, call')
  BY <1>3, <1>5, SameArgumentsHere
<1>7. \A v \in Var : obj[v].at \in Block => heap'[obj[v].at] = heap[obj[v].at]
  BY <1>1, <1>4, ArgumentsApart
<1>8. /\ Pending = [dest |-> call.dest, result |-> Outcome(call), fails |-> Formatting]
      /\ Pending' = [dest |-> call.dest, result |-> Outcome(call), fails |-> Formatting']
      /\ ValOf(obj', heap') = ValOf(obj, heap) /\ OwnersOf(obj') = OwnersOf(obj)
  BY <1>1, <1>2, <1>3, <1>6, <1>7, HiddenStep
<1>9. Formatting' = Formatting
  BY <1>1, <1>2 DEF Formatting
<1>10. heap'[b] = Pieces(heap', call', call'.i - 1)
  <2>1. PICK m \in Nat : call.i = m + 1 /\ call.i - 1 = m /\ call'.i - 1 = m + 1
                         /\ m + 1 <= NumberOf(call)
    <3>1. call.i - 1 \in Nat /\ call.i = (call.i - 1) + 1 /\ call'.i - 1 = (call.i - 1) + 1
          /\ call.i <= NumberOf(call)
      BY <1>1, <1>2, NextPiece
    <3> QED BY <3>1
  <2>2. heap[b] = Pieces(heap, call, m)
    BY <1>1, <2>1 DEF PiecesOK
  <2>3. Pieces(heap, call, m + 1) = Pieces(heap, call, m) \o Piece
    BY <1>1, <1>3, <2>1, NextPiece, PiecesNext
  <2>4. m + 1 \in Nat /\ m + 1 <= NumberOf(call) /\ Len(call.src) \in Nat
    BY <2>1, CallTypes
  <2>5. Pieces(heap', call', m + 1) = Pieces(heap, call, m + 1)
    BY <1>6, <2>4, PiecesStay
  <2> QED BY <1>4, <2>1, <2>2, <2>3, <2>5
<1>11. PiecesOK'
  <2>1. call'.fn = "repeat" => call'.src[1] = obj'[call'.dest]
    BY <1>1, <1>2 DEF PiecesOK
  <2> QED BY <1>2, <1>3, <1>10, <2>1 DEF PiecesOK
<1> QED BY <1>8, <1>9, <1>11

\* A call that goes on as one that cannot fail any more.
LEMMA CommitMeans ==
  ASSUME call.dest \in Var, Formatting, ~Formatting',
         Pending = [dest |-> call.dest, result |-> Outcome(call), fails |-> Formatting],
         Pending' = [dest |-> call.dest, result |-> Outcome(call), fails |-> Formatting'],
         ValOf(obj', heap') = ValOf(obj, heap), OwnersOf(obj') = OwnersOf(obj)
  PROVE  V!Commit
<1>1. PICK d, r : d = call.dest /\ r = Outcome(call)
  OBVIOUS
<1>2. Formatting = TRUE /\ Formatting' = FALSE
  <2>1. Formatting \in BOOLEAN
    BY DEF Formatting
  <2>2. (Formatting \in BOOLEAN)'
    BY DEF Formatting
  <2> QED BY <2>1, <2>2
<1>3. Pending = [dest |-> d, result |-> r, fails |-> TRUE]
  BY <1>1, <1>2
<1>4. Pending' = [dest |-> d, result |-> r, fails |-> FALSE]
  BY <1>1, <1>2
<1>5. Pending.dest \in Var /\ Pending.fails /\ Pending' = [Pending EXCEPT !.fails = FALSE]
  <2>1. Pending.dest \in Var /\ Pending.fails
    BY <1>1, <1>3
  <2>2. ASSUME NEW p, NEW q, NEW t, NEW f, p = [dest |-> d, result |-> r, fails |-> t],
               q = [dest |-> d, result |-> r, fails |-> f]
        PROVE  q = [p EXCEPT !.fails = f]
    BY ONLY <2>2
  <2>3. Pending' = [Pending EXCEPT !.fails = FALSE]
    <3> DEFINE p == Pending  q == Pending'
    <3> HIDE DEF p, q
    <3>1. p = [dest |-> d, result |-> r, fails |-> TRUE]
          /\ q = [dest |-> d, result |-> r, fails |-> FALSE]
      BY ONLY <1>3, <1>4 DEF p, q
    <3>2. q = [p EXCEPT !.fails = FALSE]
      BY ONLY <2>2, <3>1, SMTT(40), ZenonT(40)
    <3> QED BY ONLY <3>2 DEF p, q
  <2> QED BY ONLY <2>1, <2>3
<1> QED BY <1>5, ValueHere, ValueNext DEF V!Commit, Pending

LEMMA PrintBigMeans ==
  ASSUME IInv, IInv', PiecesOK, PrintBig
  PROVE  PiecesOK' /\ V!Commit
<1>1. /\ Formatting /\ call.fn = "sprintf" /\ call.buff = NULL /\ Active
      /\ heap' = heap /\ obj' = obj
      /\ call' = [call EXCEPT !.fn = "concat", !.i = 1]
  BY Halves DEF PrintBig, Formatted, Formatting, Active, CallOK, FormatOK
<1>2. /\ call'.fn = "concat" /\ call'.dest = call.dest /\ call'.sep = call.sep
      /\ call'.src = call.src /\ call'.times = call.times /\ call'.small = call.small
      /\ call'.buff = NULL
  BY <1>1, Halves DEF CallRecord
<1>3. Active' /\ ~Formatting'
  BY <1>2 DEF Active, Looping, Formatting
<1>4. NULL \notin Block /\ \A a \in Block \ {NULL} : heap'[a] = heap[a]
  BY <1>1, CallTypes
<1>5. GoesOn(heap', call', NULL)
  BY <1>1, <1>2, <1>4 DEF GoesOn
<1>6. SameArguments(heap, heap', call, call')
  BY <1>1, <1>5, SameArgumentsHere
<1>7. /\ Pending = [dest |-> call.dest, result |-> Outcome(call), fails |-> Formatting]
      /\ Pending' = [dest |-> call.dest, result |-> Outcome(call), fails |-> Formatting']
      /\ ValOf(obj', heap') = ValOf(obj, heap) /\ OwnersOf(obj') = OwnersOf(obj)
  BY <1>1, <1>2, <1>3, <1>6, HiddenStep
<1>8. PiecesOK'
  BY <1>2, <1>3 DEF PiecesOK
<1>9. call.dest \in Var
  BY <1>1, ArgumentsActive
<1> QED BY <1>1, <1>3, <1>7, <1>8, <1>9, CommitMeans

LEMMA AppendedText ==
  ASSUME NEW s \in Seq(Nat), NEW n \in Nat, n = Len(s), NEW z \in Nat
  PROVE  SubSeq(Append(s, z), 0 + 1, 0 + n) = s
OBVIOUS

LEMMA CloneSmallMeans ==
  ASSUME IInv, IInv', PiecesOK, CloneSmall
  PROVE  PiecesOK' /\ V!Commit
<1> DEFINE ref == str_ref_mem(STACK, 0, Size(call))
<1>1. /\ Formatting /\ call.fn = "sprintf" /\ call.buff = NULL /\ Active /\ StartsOK
      /\ call.i > Len(call.src) /\ call.i <= Len(call.src) + 1
      /\ Len(call.small) = Printed(call.starts[call.i])
      /\ Size(call) > 0 /\ FitsSmall(Size(call))
      /\ heap' = heap /\ obj' = obj
      /\ call' = [call EXCEPT !.fn = "concat", !.i = 1, !.src = <<ref>>,
                              !.starts = <<0, Size(call)>>, !.small = Append(@, 0)]
  BY Halves, ArgumentsActive DEF CloneSmall, Formatted, Formatting, Active, CallOK, FormatOK
<1>2. PICK n \in Nat : n = Size(call) /\ n = call.starts[call.i] /\ n < SmallBuffSize /\ n > 0
  <2>1. call.i = Len(call.src) + 1 /\ call.i \in 1 .. Len(call.starts)
    BY <1>1, CallTypes DEF StartsOK
  <2>2. Size(call) = call.starts[call.i] /\ call.starts[call.i] \in Nat
    BY <1>1, <2>1, CallTypes DEF Size
  <2> QED BY <1>1, <2>2 DEF FitsSmall
<1>3. ref = [at |-> STACK, off |-> 0, len |-> n, own |-> FALSE]
  BY <1>2, MemAssumption DEF str_ref_mem
<1> HIDE DEF ref
<1>4. /\ call'.fn = "concat" /\ call'.dest = call.dest /\ call'.src = <<ref>>
      /\ call'.small = Append(call.small, 0) /\ call'.buff = NULL
  BY <1>1, Halves DEF CallRecord
<1>5. Active' /\ ~Formatting'
  BY <1>4 DEF Active, Looping, Formatting
<1>6. NumberOf(call) = Len(call.src) /\ call.i - 1 = Len(call.src) /\ Len(call.small) = n
  <2>1. NumberOf(call) = Len(call.src)
    BY <1>1 DEF NumberOf
  <2>2. call.i - 1 = Len(call.src)
    <3>1. call.i > Len(call.src) /\ call.i <= Len(call.src) + 1
      BY <1>1
    <3>2. call.i \in Nat /\ Len(call.src) \in Nat
      BY CallTypes
    <3> QED BY ONLY <3>1, <3>2
  <2>3. Len(call.small) = n
    BY <1>1, <1>2 DEF Printed
  <2> QED BY <2>1, <2>2, <2>3
<1>7. call.small = Outcome(call)
  BY <1>1, <1>2, <1>6, OutcomeIs DEF PiecesOK
<1>8. Outcome(call)' = call.small
  <2>1. Outcome(call)' = Pieces(heap', call', NumberOf(call'))
    BY <1>5, OutcomeNext
  <2>2. NumberOf(call') = 1
    <3>1. Len(<<ref>>) = 1
      OBVIOUS
    <3> QED BY <1>4, <3>1 DEF NumberOf
  <2>3. PieceAt(heap', call', 1) = call.small
    <3>1. <<ref>>[1] = ref
      OBVIOUS
    <3>2. PieceAt(heap', call', 1) = PieceOf(heap', call', ref)
      BY <1>4, <3>1 DEF PieceAt
    <3>3. PieceOf(heap', call', ref) = SubSeq(Append(call.small, 0), 0 + 1, 0 + n)
      BY <1>3, <1>4 DEF PieceOf
    <3>4. SubSeq(Append(call.small, 0), 0 + 1, 0 + n) = call.small
      BY <1>6, CallTypes, AppendedText
    <3> QED BY <3>2, <3>3, <3>4
  <2>4. Pieces(heap', call', 1) = call.small
    <3>1. PICK f : f = [k \in 1 .. 0 + 1 |-> PieceAt(heap', call', k)]
      OBVIOUS
    <3>2. \A k \in 1 .. 0 + 1 : f[k] \in Seq(Nat) /\ f[k] = call.small
      <4>1. \A k \in 1 .. 0 + 1 : k = 1
        OBVIOUS
      <4> QED BY <2>3, <3>1, <4>1, CallTypes
    <3>3. FlattenSeq([k \in 1 .. 0 + 1 |-> f[k]]) = FlattenSeq([k \in 1 .. 0 |-> f[k]]) \o f[0 + 1]
      BY <3>2, FlattenNext
    <3>4. /\ [k \in 1 .. 0 + 1 |-> f[k]] = [k \in 1 .. 1 |-> PieceAt(heap', call', k)]
          /\ [k \in 1 .. 0 |-> f[k]] = <<>> /\ f[0 + 1] = call.small
      BY <3>1, <3>2
    <3>5. <<>> \o call.small = call.small
      BY CallTypes
    <3> QED BY <3>3, <3>4, <3>5, FlattenNone DEF Pieces
  <2> QED BY <2>1, <2>2, <2>4
<1>9. /\ Pending = [dest |-> call.dest, result |-> Outcome(call), fails |-> Formatting]
      /\ Pending' = [dest |-> call.dest, result |-> Outcome(call), fails |-> Formatting']
  <2>1. Pending = [dest |-> call.dest, result |-> Outcome(call), fails |-> Formatting]
    BY <1>1, PendingIs, ActiveCall
  <2>2. Pending' = [dest |-> call'.dest, result |-> Outcome(call)', fails |-> Formatting']
    BY <1>5, PendingNext, ActiveNext
  <2> QED BY <1>4, <1>7, <1>8, <2>1, <2>2
<1>10. ValOf(obj', heap') = ValOf(obj, heap) /\ OwnersOf(obj') = OwnersOf(obj)
  BY <1>1
<1>11. PiecesOK'
  BY <1>4, <1>5 DEF PiecesOK
<1>12. call.dest \in Var
  BY <1>1, ArgumentsActive
<1> QED BY <1>1, <1>5, <1>9, <1>10, <1>11, <1>12, CommitMeans

LEMMA NotCalling == call = NoCall \/ call = Exited => PiecesOK
BY DEF PiecesOK, NoCall, Exited, Formatting

LEMMA NotCallingNext == ( call = NoCall \/ call = Exited => PiecesOK )'
BY NotCalling, PTL

LEMMA FormatFailsMeans ==
  ASSUME IInv, FormatFails
  PROVE  PiecesOK' /\ V!Fail
<1>1. Formatting /\ Active /\ call' = NoCall /\ heap' = heap /\ obj' = obj
  BY DEF FormatFails, Active
<1>2. Pending = [dest |-> call.dest, result |-> Outcome(call), fails |-> Formatting]
  BY <1>1, PendingIs, ActiveCall
<1>3. Pending' = V!Nothing
  BY <1>1, PendingNext
<1>4. call.dest \in Var
  BY <1>1, ArgumentsActive
<1>5. Pending.dest \in Var /\ Pending.fails
  BY <1>1, <1>2, <1>4
<1>6. [v \in Var |-> Value(obj[v])]' = [v \in Var |-> Value(obj[v])]
      /\ {v \in Var : obj[v].own}' = {v \in Var : obj[v].own}
  BY <1>1, ValueHere, ValueNext
<1> QED BY <1>1, <1>3, <1>5, <1>6, NotCallingNext DEF V!Fail, Pending

LEMMA mem_failureMeans ==
  ASSUME IInv, mem_failure
  PROVE  PiecesOK' /\ V!Exit
<1>1. Looping /\ Active /\ call' = Exited /\ heap' = heap /\ obj' = obj
  BY DEF mem_failure, Sized, Active
<1>2. Pending = [dest |-> call.dest, result |-> Outcome(call), fails |-> Formatting]
  BY <1>1, PendingIs, ActiveCall
<1>3. Pending' = V!Exited
  BY <1>1, PendingNext
<1>4. Pending.dest \in Var
  BY <1>1, <1>2, ArgumentsActive
<1>5. [v \in Var |-> Value(obj[v])]' = [v \in Var |-> Value(obj[v])]
      /\ {v \in Var : obj[v].own}' = {v \in Var : obj[v].own}
  BY <1>1, ValueHere, ValueNext
<1> QED BY <1>1, <1>3, <1>4, <1>5, NotCallingNext DEF V!Exit, Pending

----------------------------------------------------------------------------
(* A call returns. *)

LEMMA ReturnMeans ==
  ASSUME NEW d \in Var, NEW x, Active, d = call.dest, x = Outcome(call), call' = NoCall,
         \/ OwnsIn(d, x)
         \/ /\ x = ValueOf(heap, obj[d])
            /\ ValOf(obj', heap') = ValOf(obj, heap) /\ OwnersOf(obj') = OwnersOf(obj)
  PROVE  V!Return
<1>1. Pending = [dest |-> d, result |-> x, fails |-> Formatting]
  BY PendingIs, ActiveCall
<1>2. Pending' = V!Nothing
  BY PendingNext
<1>3. Pending.dest = d /\ Pending.result = x
  BY <1>1
<1>4. CASE OwnsIn(d, x)
  <2>1. V!Owns(d, x)
    BY <1>4, AssignMeans
  <2>2. V!Owns(Pending.dest, Pending.result)
    <3> DEFINE val == [v \in Var |-> Value(obj[v])]
               owner == {v \in Var : obj[v].own}
    <3>1. PICK lost \in SUBSET {u \in Var \ (owner \cup {d}) : d \in owner} :
            val' = [u \in Var |-> IF u = d THEN x ELSE IF u \in lost THEN GONE ELSE val[u]]
      BY <2>1 DEF V!Owns, V!Becomes
    <3>2. owner' = IF x = <<>> THEN owner \ {d} ELSE owner \cup {d}
      BY <2>1 DEF V!Owns
    <3> HIDE DEF val, owner
    <3>3. lost \in SUBSET {u \in Var \ (owner \cup {Pending.dest}) : Pending.dest \in owner}
      BY <1>3
    <3>4. val' = [u \in Var |-> IF u = Pending.dest THEN Pending.result
                               ELSE IF u \in lost THEN GONE ELSE val[u]]
      BY <1>3, <3>1
    <3>5. owner' = IF Pending.result = <<>> THEN owner \ {Pending.dest} ELSE owner \cup {Pending.dest}
      BY <1>3, <3>2
    <3> QED BY <3>3, <3>4, <3>5, Zenon DEF V!Owns, V!Becomes, val, owner
  <2> QED BY <1>2, <1>3, <2>2 DEF V!Return, Pending
<1>5. CASE /\ x = ValueOf(heap, obj[d])
           /\ ValOf(obj', heap') = ValOf(obj, heap) /\ OwnersOf(obj') = OwnersOf(obj)
  <2>1. /\ [v \in Var |-> Value(obj[v])]' = [v \in Var |-> Value(obj[v])]
        /\ {v \in Var : obj[v].own}' = {v \in Var : obj[v].own}
    BY <1>5, ValueHere, ValueNext
  <2>2. [v \in Var |-> Value(obj[v])][Pending.dest] = x
    BY <1>3, <1>5, ValueHere DEF ValOf
  <2> QED BY <1>2, <1>3, <2>1, <2>2 DEF V!Return, Pending
<1> QED BY <1>4, <1>5

LEMMA ReturnSameMeans ==
  ASSUME IInv, GoneOK, PiecesOK, ReturnSame
  PROVE  PiecesOK' /\ V!Return
<1>1. /\ call.fn = "repeat" /\ Active /\ call' = NoCall /\ heap' = heap /\ obj' = obj
      /\ call.src[1].len = 0 \/ call.times = 1
  BY DEF ReturnSame, NothingToRepeat, Active, Looping, str_is_empty
<1>2. PICK d \in Var : d = call.dest /\ call.src[1] = obj[d]
  BY <1>1, ArgumentsActive DEF PiecesOK
<1>3. Len(call.src) = 1 /\ 1 \in 1 .. Len(call.src)
  <2>1. Len(call.src) = 1
    BY <1>1, ArgumentsActive
  <2> QED BY <2>1
<1>4. Readable(obj[d])
  <2>1. Argument(call.src[1]) /\ call.src[1].at # STACK
    BY <1>1, <1>3, Halves, CallTypes, ArgumentsActive DEF ArgumentsOK, ArgumentOK
  <2> QED BY <1>2, <2>1 DEF Argument
<1>5. PICK x : x = TextOf(heap, obj[d])
  OBVIOUS
<1>6. x = ValueOf(heap, obj[d]) /\ x \in Seq(Nat) /\ Len(x) = obj[d].len
  BY <1>4, <1>5, HeldMeans
<1>7. Outcome(call) = x
  <2>1. CASE call.times = 1
    <3>1. NumberOf(call) = 0 + 1 /\ 0 \in Nat /\ 0 + 1 <= NumberOf(call)
      BY <1>1, <2>1 DEF NumberOf
    <3>2. PieceAt(heap, call, 0 + 1) = x
      BY <1>1, <1>2, <1>5 DEF PieceAt
    <3>3. Pieces(heap, call, 0 + 1) = Pieces(heap, call, 0) \o x
      BY <1>1, <3>1, <3>2, PiecesNext
    <3>4. <<>> \o x = x
      BY <1>6
    <3> QED BY <1>1, <3>1, <3>3, <3>4, NoPieces, OutcomeIs
  <2>2. CASE call.src[1].len = 0
    <3>1. Size(call) = 0
      <4>1. \A y \in Nat : 0 * y = 0
        OBVIOUS
      <4> QED BY <1>1, <2>2, <4>1, CallTypes DEF Size
    <3>2. x = <<>>
      BY <1>2, <1>6, <2>2
    <3> QED BY <1>1, <3>1, <3>2, EmptyMeans
  <2> QED BY <1>1, <2>1, <2>2
<1>8. ValOf(obj', heap') = ValOf(obj, heap) /\ OwnersOf(obj') = OwnersOf(obj)
  BY <1>1
<1> QED BY <1>1, <1>2, <1>6, <1>7, <1>8, ReturnMeans, NotCallingNext

LEMMA ReturnEmptyMeans ==
  ASSUME IInv, ReturnEmpty
  PROVE  PiecesOK' /\ V!Return
<1>1. Active /\ call' = NoCall /\ Size(call) = 0 /\ str_clear(call.dest)
  BY DEF ReturnEmpty, Formatted, Active
<1>2. PICK d \in Var : d = call.dest /\ str_assign(obj, d, str_null)
  BY <1>1, ArgumentsActive DEF str_clear
<1>3. str_null.at \notin Freed(obj[d]) /\ ~str_null.own
  BY Halves, Constructors DEF Store, StoreOK, ObjectOK, Freed
<1>4. ValueOf(heap, str_null) = <<>>
  BY HeapAssumption DEF ValueOf, TextOf, str_null
<1>5. PICK x : x = Outcome(call) /\ x = <<>>
  BY <1>1, EmptyMeans
<1>6. OwnsIn(d, x)
  BY <1>2, <1>3, <1>4, <1>5, ReferenceMeans DEF OwnsIn
<1> QED BY <1>1, <1>2, <1>5, <1>6, ReturnMeans, NotCallingNext

LEMMA ReturnOwnedMeans ==
  ASSUME IInv, PiecesOK, Return
  PROVE  PiecesOK' /\ V!Return
<1> DEFINE h == [heap EXCEPT ![call.buff] = Terminate(@)]
           n == IF call.fn = "repeat" THEN Len(heap[call.buff]) ELSE call.n
<1>1. /\ Looping /\ Active /\ call.buff # NULL /\ ~More /\ call' = NoCall
      /\ AssignOwned(h, call.dest, call.buff, n)
  BY DEF Return, Active
<1>2. PICK d \in Var, b \in Block : d = call.dest /\ b = call.buff
  BY <1>1, Halves, SizeType, CallTypes DEF CallOK, BufferOK
<1>3. n = Len(heap[b]) /\ heap[b] \in Seq(Nat) /\ n \in Nat
  <2>1. Len(heap[b]) = call.n
    BY <1>1, <1>2, AllWritten
  <2> QED BY <1>2, <2>1, CallTypes
<1>4. PICK x : x = heap[b]
  OBVIOUS
<1>5. /\ h \in [Block -> Seq(Nat)] /\ h[b] = Append(x, 0)
      /\ \A c \in Block \ {b} : h[c] = heap[c]
  <2>1. Append(heap[b], 0) \in Seq(Nat)
    BY <1>3
  <2> QED BY <1>2, <1>4, <2>1, CallTypes DEF Terminate
<1>6. AssignOwned(h, d, b, n) /\ b = call.buff
  BY <1>1, <1>2
<1> HIDE DEF h, n
<1>7. x = SubSeq(h[b], 1, n) /\ n <= Len(h[b])
  <2>1. SubSeq(Append(x, 0), 0 + 1, 0 + n) = x
    BY <1>3, <1>4, AppendedText
  <2>2. n <= Len(Append(x, 0))
    BY <1>3, <1>4
  <2> QED BY <1>3, <1>5, <2>1, <2>2
<1>8. OwnsIn(d, x)
  BY <1>3, <1>5, <1>6, <1>7, OwnedMeans
<1>9. x = Outcome(call)
  BY <1>1, <1>2, <1>4, AllPieces, OutcomeIs
<1> QED BY <1>1, <1>2, <1>8, <1>9, ReturnMeans, NotCallingNext

----------------------------------------------------------------------------
(* A call starts. *)

LEMMA SameOperators ==
  /\ \A xs : V!FlattenSeq(xs) = FlattenSeq(xs)
  /\ \A sep, xs : V!Joined(sep, xs) = Joined(sep, xs)
  /\ \A x, n : V!Repeated(x, n) = Repeated(x, n)
<1>1. \A xs : V!FlattenSeq(xs) = FlattenSeq(xs)
  BY DEF V!FlattenSeq, FlattenSeq
<1> QED BY <1>1 DEF V!Joined, Joined, V!Repeated, Repeated

Held(v) == ValueOf(heap, obj[v]) # GONE
ValuesAt(a, k) == [i \in 1 .. k |-> ValueOf(heap, obj[a[i]])]

LEMMA CallMeans ==
  ASSUME NEW d \in Var, NEW r, NEW f \in BOOLEAN, call = NoCall,
         Pending' = [dest |-> d, result |-> r, fails |-> f], obj' = obj, heap' = heap,
         \/ \E k \in 0 .. MaxArgs : \E a \in [1 .. k -> Var] :
              /\ \A i \in 1 .. k : Held(a[i])
              /\ \/ r = FlattenSeq(ValuesAt(a, k))
                 \/ f = FALSE /\ \E w \in Var : /\ Held(w)
                                                /\ r = Joined(ValueOf(heap, obj[w]), ValuesAt(a, k))
         \/ f = FALSE /\ Held(d) /\ \E n \in 0 .. MaxTimes : r = Repeated(ValueOf(heap, obj[d]), n)
  PROVE  V!Call(d)
<1> DEFINE val == [v \in Var |-> Value(obj[v])]
<1>1. \A v \in Var : val[v] = ValueOf(heap, obj[v]) /\ (V!Holds(v) <=> Held(v))
  BY ValueHere, HoldsMeans DEF ValOf, Held
<1>2. Pending = V!Nothing
  BY PendingIs
<1>3. val' = val /\ {v \in Var : obj[v].own}' = {v \in Var : obj[v].own}
  BY ValueHere, ValueNext
<1>4. CASE f = FALSE /\ Held(d) /\ \E n \in 0 .. MaxTimes : r = Repeated(ValueOf(heap, obj[d]), n)
  <2>1. PICK n \in 0 .. MaxTimes : r = Repeated(val[d], n)
    BY <1>1, <1>4
  <2>2. V!Holds(d) /\ r = V!Repeated(val[d], n)
    BY <1>1, <1>4, <2>1, SameOperators
  <2>3. Pending' = [dest |-> d, result |-> V!Repeated(val[d], n), fails |-> FALSE]
    BY <1>4, <2>2
  <2> HIDE DEF val
  <2> QED BY <1>2, <1>3, <2>2, <2>3 DEF V!Call, Pending, val
<1>5. ASSUME NEW k \in 0 .. MaxArgs, NEW a \in [1 .. k -> Var], \A i \in 1 .. k : Held(a[i]),
             \/ r = FlattenSeq(ValuesAt(a, k))
             \/ f = FALSE /\ \E w \in Var : /\ Held(w)
                                            /\ r = Joined(ValueOf(heap, obj[w]), ValuesAt(a, k))
      PROVE  V!Call(d)
  <2>1. \A i \in 1 .. k : V!Holds(a[i])
    BY <1>1, <1>5
  <2>2. ValuesAt(a, k) = [i \in 1 .. k |-> val[a[i]]]
    BY <1>1 DEF ValuesAt
  <2>3. CASE r = FlattenSeq(ValuesAt(a, k))
    <3>1. r = V!FlattenSeq([i \in 1 .. k |-> val[a[i]]])
      BY <2>2, <2>3, SameOperators
    <3>2. Pending' = [dest |-> d, result |-> V!FlattenSeq([i \in 1 .. k |-> val[a[i]]]), fails |-> f]
      BY <3>1
    <3> HIDE DEF val
    <3> QED BY <1>2, <1>3, <2>1, <3>2 DEF V!Call, Pending, val
  <2>4. ASSUME f = FALSE, NEW w \in Var, Held(w), r = Joined(ValueOf(heap, obj[w]), ValuesAt(a, k))
        PROVE  V!Call(d)
    <3>1. V!Holds(w) /\ r = V!Joined(val[w], [i \in 1 .. k |-> val[a[i]]])
      BY <1>1, <2>2, <2>4, SameOperators
    <3>2. Pending' = [dest |-> d, result |-> V!Joined(val[w], [i \in 1 .. k |-> val[a[i]]]),
                      fails |-> FALSE]
      BY <2>4, <3>1
    <3> HIDE DEF val
    <3> QED BY <1>2, <1>3, <2>1, <3>1, <3>2 DEF V!Call, Pending, val
  <2> QED BY <1>5, <2>3, <2>4
<1> QED BY <1>4, <1>5

LEMMA PieceNext == ( \A s : PieceText(s) = PieceOf(heap, call, s) /\ Text(s) = TextOf(heap, s) )'
<1>1. \A s : PieceText(s) = PieceOf(heap, call, s) /\ Text(s) = TextOf(heap, s)
  BY PieceHere, TextHere
<1> QED BY <1>1, PTL

Texts(src) == [k \in DOMAIN src |-> TextOf(heap, src[k])]

\* The result a call has from the start.
ResultOf(fn, sep, src, times) ==
  CASE fn = "repeat" -> Repeated(Texts(src)[1], times)
    [] fn = "join"   -> Joined(TextOf(heap, sep), Texts(src))
    [] OTHER         -> FlattenSeq(Texts(src))

LEMMA JoinedWithNothing ==
  ASSUME NEW n \in Nat, NEW xs, DOMAIN xs = 1 .. n, xs = [k \in 1 .. n |-> xs[k]],
         \A k \in 1 .. n : xs[k] \in Seq(Nat)
  PROVE  Joined(<<>>, xs) = FlattenSeq(xs)
<1>1. \A y \in Seq(Nat) : <<>> \o y = y
  OBVIOUS
<1>2. [k \in DOMAIN xs |-> IF k = 1 THEN xs[k] ELSE <<>> \o xs[k]] = xs
  BY <1>1
<1> QED BY <1>2 DEF Joined

\* All the objects src of a call are readable.
LEMMA TextsAre ==
  ASSUME IInv, NEW src \in Seq(Object), \A k \in DOMAIN src : Readable(src[k])
  PROVE  /\ Len(src) \in Nat /\ DOMAIN src = 1 .. Len(src)
         /\ Texts(src) = [k \in 1 .. Len(src) |-> TextOf(heap, src[k])]
         /\ DOMAIN Texts(src) = 1 .. Len(src)
         /\ \A k \in 1 .. Len(src) : src[k].at # STACK /\ Texts(src)[k] \in Seq(Nat)
<1>1. Len(src) \in Nat /\ DOMAIN src = 1 .. Len(src) /\ \A k \in 1 .. Len(src) : src[k] \in Object
  BY ElementOfSeq
<1>2. \A k \in 1 .. Len(src) : TextOf(heap, src[k]) \in Seq(Nat)
  BY <1>1, TextHere, TextType, CallTypes
<1>3. \A s \in Object : s.at # STACK
  BY MemAssumption DEF Object
<1> QED BY <1>1, <1>2, <1>3 DEF Texts

LEMMA EnterMeans ==
  ASSUME IInv, NEW fn \in {"sprintf", "concat", "join", "repeat"}, NEW d \in Var,
         NEW sep, NEW src \in Seq(Object), NEW times,
         fn = "repeat" => Len(src) = 1 /\ src[1] = obj[d],
         Enter(fn, d, sep, src, times)
  PROVE  /\ PiecesOK'
         /\ call = NoCall /\ obj' = obj /\ heap' = heap
         /\ \A k \in DOMAIN src : Readable(src[k])
         /\ Readable(sep)
         /\ Pending' = [dest   |-> d,
                        result |-> ResultOf(Loop(fn, sep, src), sep, src, times),
                        fails  |-> fn = "sprintf"]
<1>1. PICK f : f = Loop(fn, sep, src)
  OBVIOUS
<1>2. f \in {"sprintf", "concat", "join", "repeat"} /\ (f = "sprintf" <=> fn = "sprintf")
      /\ (f = "repeat" => fn = "repeat")
  BY <1>1 DEF Loop
<1>3. /\ call = NoCall /\ obj' = obj /\ heap' = heap
      /\ Readable(sep) /\ \A k \in DOMAIN src : Readable(src[k])
      /\ \E t \in calc_total_length(src) :
           call' = [NoCall EXCEPT !.fn = f, !.dest = d, !.sep = sep, !.src = src, !.times = times,
                                  !.starts = t]
  BY <1>1 DEF Enter, Idle
<1>4. /\ call'.fn = f /\ call'.dest = d /\ call'.sep = sep /\ call'.src = src
      /\ call'.times = times /\ call'.small = <<>> /\ call'.buff = NULL /\ call'.i = 1
  BY <1>3 DEF NoCall
<1>5. Active' /\ (Formatting' <=> fn = "sprintf")
  BY <1>2, <1>4 DEF Active, Looping, Formatting
<1>6. /\ Len(src) \in Nat /\ DOMAIN src = 1 .. Len(src)
      /\ Texts(src) = [k \in 1 .. Len(src) |-> TextOf(heap, src[k])]
      /\ DOMAIN Texts(src) = 1 .. Len(src)
      /\ \A k \in 1 .. Len(src) : src[k].at # STACK /\ Texts(src)[k] \in Seq(Nat)
  BY <1>3, TextsAre
<1>7. Outcome(call)' = ResultOf(f, sep, src, times)
  <2>1. PICK xs : xs = [k \in DOMAIN src |-> PieceText(src[k])']
    OBVIOUS
  <2>2. xs = Texts(src)
    <3>1. \A k \in 1 .. Len(src) : PieceText(src[k])' = TextOf(heap, src[k])
      BY <1>3, <1>6, PieceNext DEF PieceOf
    <3> QED BY <1>6, <2>1, <3>1
  <2>3. Outcome(call)' = CASE f = "repeat" -> Repeated(xs[1], times)
                           [] f = "join"   -> Joined(Text(sep)', xs)
                           [] OTHER        -> Joined(<<>>, xs)
    BY <1>4, <2>1 DEF Outcome
  <2>4. Text(sep)' = TextOf(heap, sep)
    BY <1>3, PieceNext
  <2>5. Joined(<<>>, xs) = FlattenSeq(xs)
    BY <1>6, <2>2, JoinedWithNothing
  <2> QED BY <2>2, <2>3, <2>4, <2>5 DEF ResultOf
<1>8. Pending' = [dest |-> d, result |-> ResultOf(f, sep, src, times), fails |-> fn = "sprintf"]
  <2>1. Pending' = [dest |-> call'.dest, result |-> Outcome(call)', fails |-> Formatting']
    BY <1>5, PendingNext, ActiveNext
  <2>2. Formatting' = (fn = "sprintf")
    BY <1>2, <1>4 DEF Formatting
  <2> QED BY <1>4, <1>7, <2>1, <2>2
<1>9. PiecesOK'
  <2>1. call'.i - 1 = 0
    BY <1>4
  <2>2. Pieces(heap', call', call'.i - 1) = <<>>
    BY <2>1, NoPieces
  <2>3. call'.fn = "repeat" => call'.src[1] = obj'[call'.dest]
    BY <1>2, <1>3, <1>4
  <2> QED BY <1>4, <2>2, <2>3 DEF PiecesOK
<1> QED BY <1>1, <1>3, <1>8, <1>9

LEMMA ArgumentsAre ==
  ASSUME IInv, GoneOK, NEW k \in Nat, NEW a \in [1 .. k -> Var], NEW src,
         src = [i \in 1 .. k |-> obj[a[i]]], \A i \in DOMAIN src : Readable(src[i])
  PROVE  Texts(src) = ValuesAt(a, k) /\ \A i \in 1 .. k : Held(a[i])
<1>1. \A i \in 1 .. k : src[i] = obj[a[i]] /\ a[i] \in Var /\ Readable(obj[a[i]])
  OBVIOUS
<1>2. \A i \in 1 .. k : ValueOf(heap, obj[a[i]]) = TextOf(heap, obj[a[i]]) /\ Held(a[i])
  BY <1>1, HeldMeans DEF Held
<1> QED BY <1>1, <1>2 DEF Texts, ValuesAt

LEMMA ObjectsType ==
  ASSUME IInv, NEW k \in Nat, NEW a \in [1 .. k -> Var], NEW src, src = [i \in 1 .. k |-> obj[a[i]]]
  PROVE  src \in Seq(Object) /\ Len(src) = k
<1>1. obj \in [Var -> Object]
  BY Halves DEF Store, StoreOK
<1> QED BY <1>1

\* str_concat_array, str_clone and str_sprintf.
LEMMA ConcatMeans ==
  ASSUME IInv, GoneOK, NEW fn \in {"sprintf", "concat"}, NEW d \in Var, NEW sep, NEW src,
         NEW k \in 0 .. MaxArgs, NEW a \in [1 .. k -> Var], src = [i \in 1 .. k |-> obj[a[i]]],
         Enter(fn, d, sep, src, 1)
  PROVE  PiecesOK' /\ obj' = obj /\ V!Call(d)
<1>1. k \in Nat /\ src \in Seq(Object)
  BY MemAssumption, ObjectsType
<1>2. /\ PiecesOK' /\ call = NoCall /\ obj' = obj /\ heap' = heap
      /\ \A i \in DOMAIN src : Readable(src[i])
      /\ Pending' = [dest |-> d, result |-> ResultOf(Loop(fn, sep, src), sep, src, 1),
                     fails |-> fn = "sprintf"]
  <2>1. fn \in {"sprintf", "concat", "join", "repeat"}
    OBVIOUS
  <2>2. fn = "repeat" => Len(src) = 1 /\ src[1] = obj[d]
    OBVIOUS
  <2>3. IInv /\ d \in Var /\ Enter(fn, d, sep, src, 1)
    OBVIOUS
  <2> QED BY ONLY <1>1, <2>1, <2>2, <2>3, EnterMeans
<1>3. Texts(src) = ValuesAt(a, k) /\ \A i \in 1 .. k : Held(a[i])
  BY <1>1, <1>2, ArgumentsAre
<1>4. PICK r : r = FlattenSeq(ValuesAt(a, k))
  OBVIOUS
<1>5. ResultOf(Loop(fn, sep, src), sep, src, 1) = r
  BY <1>3, <1>4 DEF ResultOf, Loop
<1>6. PICK f \in BOOLEAN : f = (fn = "sprintf")
  OBVIOUS
<1>7. Pending' = [dest |-> d, result |-> r, fails |-> f]
  BY <1>2, <1>5, <1>6
<1> QED BY <1>2, <1>3, <1>4, <1>7, CallMeans

LEMMA JoinMeans ==
  ASSUME IInv, GoneOK, NEW d \in Var, NEW w \in Var, NEW src,
         NEW k \in 0 .. MaxArgs, NEW a \in [1 .. k -> Var], src = [i \in 1 .. k |-> obj[a[i]]],
         Enter("join", d, obj[w], src, 1)
  PROVE  PiecesOK' /\ obj' = obj /\ V!Call(d)
<1>1. k \in Nat /\ src \in Seq(Object)
  BY MemAssumption, ObjectsType
<1>2. /\ PiecesOK' /\ call = NoCall /\ obj' = obj /\ heap' = heap
      /\ Readable(obj[w]) /\ \A i \in DOMAIN src : Readable(src[i])
      /\ Pending' = [dest |-> d, result |-> ResultOf(Loop("join", obj[w], src), obj[w], src, 1),
                     fails |-> "join" = "sprintf"]
  <2>1. "join" \in {"sprintf", "concat", "join", "repeat"}
    OBVIOUS
  <2>2. "join" = "repeat" => Len(src) = 1 /\ src[1] = obj[d]
    OBVIOUS
  <2>3. IInv /\ d \in Var /\ Enter("join", d, obj[w], src, 1)
    OBVIOUS
  <2> QED BY ONLY <1>1, <2>1, <2>2, <2>3, EnterMeans
<1>3. Texts(src) = ValuesAt(a, k) /\ \A i \in 1 .. k : Held(a[i])
  BY <1>1, <1>2, ArgumentsAre
<1>4. Held(w) /\ ValueOf(heap, obj[w]) = TextOf(heap, obj[w])
  BY <1>2, HeldMeans DEF Held
<1>5. PICK r : r = ResultOf(Loop("join", obj[w], src), obj[w], src, 1)
  OBVIOUS
<1>6. r = FlattenSeq(ValuesAt(a, k)) \/ r = Joined(ValueOf(heap, obj[w]), ValuesAt(a, k))
  BY <1>3, <1>4, <1>5 DEF ResultOf, Loop
<1>7. PICK f \in BOOLEAN : f = FALSE
  OBVIOUS
<1>8. Pending' = [dest |-> d, result |-> r, fails |-> f]
  BY <1>2, <1>5, <1>7
<1> QED BY <1>2, <1>3, <1>4, <1>6, <1>7, <1>8, CallMeans

LEMMA RepeatMeans ==
  ASSUME IInv, GoneOK, NEW d \in Var, NEW n \in 0 .. MaxTimes, str_repeat(d, n)
  PROVE  PiecesOK' /\ obj' = obj /\ V!Call(d)
<1>1. PICK src : src = <<obj[d]>>
  OBVIOUS
<1>2. src \in Seq(Object) /\ Len(src) = 1 /\ src[1] = obj[d] /\ 1 \in DOMAIN src
  <2>1. obj[d] \in Object
    BY Halves DEF Store, StoreOK
  <2> QED BY <1>1, <2>1
<1>3. Enter("repeat", d, str_null, src, n)
  BY <1>1 DEF str_repeat
<1>4. /\ PiecesOK' /\ call = NoCall /\ obj' = obj /\ heap' = heap
      /\ \A i \in DOMAIN src : Readable(src[i])
      /\ Pending' = [dest |-> d, result |-> ResultOf(Loop("repeat", str_null, src), str_null, src, n),
                     fails |-> "repeat" = "sprintf"]
  <2>1. "repeat" \in {"sprintf", "concat", "join", "repeat"}
    OBVIOUS
  <2>2. src \in Seq(Object)
    BY <1>2
  <2>3. "repeat" = "repeat" => Len(src) = 1 /\ src[1] = obj[d]
    BY <1>2
  <2> QED BY <1>3, <2>1, <2>2, <2>3, EnterMeans
<1>5. Held(d) /\ ValueOf(heap, obj[d]) = TextOf(heap, obj[d])
  <2>1. Readable(obj[d])
    BY <1>2, <1>4
  <2> QED BY <2>1, HeldMeans DEF Held
<1>6. PICK r : r = Repeated(ValueOf(heap, obj[d]), n)
  OBVIOUS
<1>7. ResultOf(Loop("repeat", str_null, src), str_null, src, n) = r
  <2>1. Texts(src)[1] = ValueOf(heap, obj[d])
    BY <1>2, <1>5 DEF Texts
  <2>2. Loop("repeat", str_null, src) = "repeat"
    BY DEF Loop
  <2> QED BY <1>6, <2>1, <2>2 DEF ResultOf
<1>8. PICK f \in BOOLEAN : f = FALSE
  OBVIOUS
<1>9. Pending' = [dest |-> d, result |-> r, fails |-> f]
  BY <1>4, <1>7, <1>8
<1> QED BY <1>4, <1>5, <1>6, <1>8, <1>9, CallMeans

LEMMA CallStepMeans ==
  ASSUME IInv, GoneOK, CallStep
  PROVE  PiecesOK' /\ obj' = obj /\ \E d \in Var : V!Call(d)
<1>1. ASSUME NEW d \in Var, NEW w \in Var, str_clone(d, w)
      PROVE  PiecesOK' /\ obj' = obj /\ V!Call(d)
  <2>1. 1 \in 0 .. MaxArgs
    BY MemAssumption, ValueAssumption
  <2>2. PICK a \in [1 .. 1 -> Var] : \A i \in 1 .. 1 : a[i] = w
    <3>1. [i \in 1 .. 1 |-> w] \in [1 .. 1 -> Var]
      OBVIOUS
    <3> QED BY <3>1
  <2>3. PICK src : src = <<obj[w]>> /\ src = [i \in 1 .. 1 |-> obj[a[i]]]
    <3>1. <<obj[w]>> = [i \in 1 .. 1 |-> obj[w]]
      OBVIOUS
    <3>2. [i \in 1 .. 1 |-> obj[w]] = [i \in 1 .. 1 |-> obj[a[i]]]
      BY <2>2
    <3> QED BY <3>1, <3>2
  <2>4. Enter("concat", d, str_null, src, 1)
    BY <1>1, <2>3 DEF str_clone
  <2>5. "concat" \in {"sprintf", "concat"}
    OBVIOUS
  <2> QED BY <2>1, <2>2, <2>3, <2>4, <2>5, ConcatMeans
<1>2. ASSUME NEW a \in Arrays
      PROVE  \E k \in 0 .. MaxArgs : a \in [1 .. k -> Var] /\ Objects(a) = [i \in 1 .. k |-> obj[a[i]]]
  <2>1. PICK k \in 0 .. MaxArgs : a \in [1 .. k -> Var]
    BY DEF Arrays, SeqOf
  <2>2. DOMAIN a = 1 .. k
    BY <2>1
  <2> QED BY <2>1, <2>2 DEF Objects
<1>3. ASSUME NEW d \in Var, NEW a \in Arrays, str_concat_array(d, a) \/ str_sprintf(d, a)
      PROVE  PiecesOK' /\ obj' = obj /\ V!Call(d)
  <2>1. PICK k \in 0 .. MaxArgs : a \in [1 .. k -> Var] /\ Objects(a) = [i \in 1 .. k |-> obj[a[i]]]
    BY <1>2
  <2>2. PICK src : src = Objects(a)
    OBVIOUS
  <2>3. PICK fn \in {"sprintf", "concat"} : Enter(fn, d, str_null, src, 1)
    BY <1>3, <2>2 DEF str_concat_array, str_sprintf
  <2> QED BY <2>1, <2>2, <2>3, ConcatMeans
<1>4. ASSUME NEW d \in Var, NEW sep \in Var, NEW a \in Arrays, str_join_array(d, sep, a)
      PROVE  PiecesOK' /\ obj' = obj /\ V!Call(d)
  <2>1. PICK k \in 0 .. MaxArgs : a \in [1 .. k -> Var] /\ Objects(a) = [i \in 1 .. k |-> obj[a[i]]]
    BY <1>2
  <2>2. PICK src : src = Objects(a)
    OBVIOUS
  <2>3. Enter("join", d, obj[sep], src, 1)
    BY <1>4, <2>2 DEF str_join_array
  <2> QED BY <2>1, <2>2, <2>3, JoinMeans
<1>5. ASSUME NEW d \in Var, NEW n \in 0 .. MaxTimes, str_repeat(d, n)
      PROVE  PiecesOK' /\ obj' = obj /\ V!Call(d)
  BY <1>5, RepeatMeans
<1> QED BY <1>1, <1>3, <1>4, <1>5 DEF CallStep

----------------------------------------------------------------------------
(* Every step. *)

Sound(s) == s.at = GONE => s.len # 0

LEMMA SoundConstructors ==
  /\ Sound(str_null) /\ Sound(str_dangling)
  /\ \A a \in Literal : Sound(str_lit(a))
  /\ \A s, i, j : Sound(str_ref_slice(s, i, j))
  /\ \A b \in Block : \A n : Sound(str_acquire_mem(b, n))
<1>1. Sound(str_null) /\ Sound(str_dangling)
  BY HeapAssumption DEF Sound, str_null, str_dangling
<1>2. \A a \in Literal : Sound(str_lit(a))
  BY HeapAssumption DEF Sound, str_lit
<1>3. ASSUME NEW a, NEW o, NEW n PROVE Sound(str_ref_mem(a, o, n))
  BY <1>1 DEF Sound, str_ref_mem
<1>4. \A s, i, j : Sound(str_ref_slice(s, i, j))
  BY <1>3 DEF str_ref_slice
<1>5. \A b \in Block : \A n : Sound(str_acquire_mem(b, n))
  BY <1>1, HeapAssumption DEF Sound, str_acquire_mem
<1> QED BY <1>1, <1>2, <1>4, <1>5

LEMMA FreedSound ==
  ASSUME NEW os, NEW h, NEW gone, NEW v, NEW s, FreeThenAssign(gone, os, h, v, s),
         Sound(s), \A u \in Var : Sound(os[u])
  PROVE  GoneOK'
<1>1. \A u \in Var : obj'[u] = Forget(IF u = v THEN s ELSE os[u], gone)
  BY DEF FreeThenAssign
<1>2. \A u \in Var : Sound(obj'[u])
  BY <1>1, SoundConstructors DEF Forget
<1> QED BY <1>2 DEF GoneOK, Sound

LEMMA ReferenceSound ==
  ASSUME GoneOK, NEW v, NEW s, str_assign(obj, v, s), Sound(s)
  PROVE  GoneOK'
<1>1. \A u \in Var : Sound(obj[u])
  BY DEF GoneOK, Sound
<1>2. FreeThenAssign(Freed(obj[v]), obj, heap, v, s)
  BY DEF str_assign
<1> QED BY <1>1, <1>2, FreedSound

LEMMA OwnedSound ==
  ASSUME GoneOK, NEW h, NEW v, NEW b \in Block, NEW n, AssignOwned(h, v, b, n)
  PROVE  GoneOK'
<1>1. \A u \in Var : Sound(obj[u])
  BY DEF GoneOK, Sound
<1>2. FreeThenAssign(Freed(obj[v]) \cup Surplus(b, n), obj, h, v, str_acquire_mem(b, n))
  BY DEF AssignOwned
<1>3. Sound(str_acquire_mem(b, n))
  BY SoundConstructors
<1> QED BY <1>1, <1>2, <1>3, FreedSound

LEMMA PlainSound ==
  ASSUME IInv, GoneOK, NEW v \in Var, NEW s, obj' = [obj EXCEPT ![v] = s], Sound(s)
  PROVE  GoneOK'
<1>1. obj \in [Var -> Object]
  BY Halves DEF Store, StoreOK
<1> QED BY <1>1 DEF GoneOK, Sound

LEMMA ProgramSound ==
  ASSUME IInv, GoneOK, ProgramStep
  PROVE  GoneOK'
<1>1. ASSUME NEW v \in Var, NEW a \in Literal, SetLit(v, a) \/ AssignLit(v, a) PROVE GoneOK'
  BY <1>1, PlainSound, ReferenceSound, SoundConstructors DEF SetLit, AssignLit
<1>2. ASSUME NEW v \in Var, NEW w \in Var, NEW i, NEW j, SetSlice(v, w, i, j) \/ AssignSlice(v, w, i, j)
      PROVE  GoneOK'
  <2>1. PICK r : r = str_ref_slice(obj[w], i, j) /\ Sound(r)
    BY SoundConstructors
  <2>2. obj' = [obj EXCEPT ![v] = r] \/ str_assign(obj, v, r)
    BY <1>2, <2>1 DEF SetSlice, AssignSlice, AssignAnySlice
  <2> QED BY <2>1, <2>2, PlainSound, ReferenceSound
<1>3. ASSUME NEW v \in Var, NEW w \in Var, AssignAcquire(v, w) PROVE GoneOK'
  <2>1. obj \in [Var -> Object]
    BY Halves DEF Store, StoreOK
  <2>2. PICK os : os = str_acquire(obj, w) /\ str_assign(os, v, obj[w])
    BY <1>3 DEF AssignAcquire
  <2>3. \A u \in Var : Sound(os[u])
    BY <2>1, <2>2 DEF str_acquire, str_ref, GoneOK, Sound, Object
  <2>4. FreeThenAssign(Freed(os[v]), os, heap, v, obj[w]) /\ Sound(obj[w])
    BY <2>2 DEF str_assign, GoneOK, Sound
  <2> QED BY <2>3, <2>4, FreedSound
<1>4. ASSUME NEW v \in Var, NEW w \in Var, str_swap(v, w) PROVE GoneOK'
  <2>1. obj \in [Var -> Object] /\ obj' = [obj EXCEPT ![v] = obj[w], ![w] = obj[v]]
    BY <1>4, Halves DEF Store, StoreOK, str_swap
  <2>2. \A u \in Var : obj'[u] = IF u = w THEN obj[v] ELSE IF u = v THEN obj[w] ELSE obj[u]
    BY <2>1
  <2> QED BY <2>2 DEF GoneOK
<1>5. ASSUME NEW v \in Var, NEW a \in Literal, NEW b \in Block, AssignAcquireMem(v, a, b) PROVE GoneOK'
  BY <1>5, OwnedSound DEF AssignAcquireMem
<1>6. ASSUME NEW v \in Var, Clear(v) PROVE GoneOK'
  BY <1>6, ReferenceSound, SoundConstructors DEF Clear, str_clear
<1> QED BY <1>1, <1>2, <1>3, <1>4, <1>5, <1>6 DEF ProgramStep

\* A step that changes no value and not what is pending.
LEMMA HiddenMeans ==
  ASSUME Pending' = Pending, ValOf(obj', heap') = ValOf(obj, heap), OwnersOf(obj') = OwnersOf(obj)
  PROVE  UNCHANGED V!vars
BY ValueHere, ValueNext DEF V!vars, Pending

Maps == GoneOK' /\ PiecesOK' /\ [V!Next]_(V!vars)

LEMMA LibraryMeans ==
  ASSUME IInv, IInv', GoneOK, PiecesOK, LibraryStep
  PROVE  Maps
<1>1. GoneOK' \/ obj' # obj
  BY DEF GoneOK
<1>2. CASE FormatFails
  BY <1>1, <1>2, FormatFailsMeans DEF FormatFails, Maps, V!Next
<1>3. CASE vsnprintf
  BY <1>1, <1>3, vsnprintfMeans, HiddenMeans DEF vsnprintf, Maps
<1>4. CASE CloneSmall
  BY <1>1, <1>4, CloneSmallMeans DEF CloneSmall, Maps, V!Next
<1>5. CASE PrintBig
  BY <1>1, <1>5, PrintBigMeans DEF PrintBig, Maps, V!Next
<1>6. CASE ReturnSame
  BY <1>1, <1>6, ReturnSameMeans DEF ReturnSame, Maps, V!Next
<1>7. CASE ReturnEmpty
  BY <1>7, ReturnEmptyMeans, ReferenceSound, SoundConstructors DEF ReturnEmpty, str_clear, Maps, V!Next
<1>8. ASSUME NEW b \in Block, mem_alloc(b) PROVE Maps
  BY <1>1, <1>8, mem_allocMeans, HiddenMeans DEF mem_alloc, Maps
<1>9. CASE mem_failure
  BY <1>1, <1>9, mem_failureMeans DEF mem_failure, Maps, V!Next
<1>10. CASE append_str
  BY <1>1, <1>10, append_strMeans, HiddenMeans DEF append_str, Maps
<1>11. CASE Return
  <2>1. call.buff \in Block
    BY <1>11, Halves, CallTypes DEF Return, CallOK, BufferOK
  <2>2. GoneOK'
    BY <1>11, <2>1, OwnedSound DEF Return
  <2> QED BY <1>11, <2>2, ReturnOwnedMeans DEF Maps, V!Next
<1> QED BY <1>2, <1>3, <1>4, <1>5, <1>6, <1>7, <1>8, <1>9, <1>10, <1>11 DEF LibraryStep

LEMMA NextMeans ==
  ASSUME IInv, IInv', GoneOK, PiecesOK, [Next]_vars
  PROVE  Maps
<1>1. CASE ProgramStep
  <2>1. call' = NoCall
    BY <1>1 DEF ProgramStep, SetLit, AssignLit, SetSlice, AssignSlice, AssignAnySlice,
         AssignAcquire, str_swap, AssignAcquireMem, Clear, Idle
  <2>2. PiecesOK'
    BY <2>1, NotCallingNext
  <2>3. /\ \/ \E v \in Var : V!SetRef(v) \/ V!TakeBuffer(v)
           \/ \E v, w \in Var : V!Take(v, w) \/ V!Swap(v, w)
        /\ Pending = V!Nothing
    BY <1>1, ProgramMeans, PendingIs
  <2>4. V!Next
    BY <2>3 DEF V!Next, Pending
  <2> QED BY <1>1, <2>2, <2>4, ProgramSound DEF Maps
<1>2. CASE CallStep
  <2>1. PiecesOK' /\ obj' = obj /\ \E d \in Var : V!Call(d)
    BY <1>2, CallStepMeans
  <2>2. GoneOK'
    BY <2>1 DEF GoneOK
  <2>3. V!Next
    BY <2>1 DEF V!Next
  <2> QED BY <2>1, <2>2, <2>3 DEF Maps
<1>3. CASE LibraryStep
  BY <1>3, LibraryMeans
<1>4. CASE Ended \/ UNCHANGED vars
  <2>1. live' = live /\ heap' = heap /\ obj' = obj /\ call' = call
    BY <1>4 DEF Ended, vars
  <2>2. GoneOK'
    BY <2>1 DEF GoneOK
  <2>3. PiecesOK'
    <3>1. call'.i - 1 = call.i - 1
      BY <2>1
    <3>2. Pieces(heap', call', call'.i - 1) = Pieces(heap, call, call.i - 1)
      BY <2>1
    <3> QED BY <2>1, <3>2 DEF PiecesOK, Formatting
  <2>4. ValOf(obj', heap') = ValOf(obj, heap) /\ OwnersOf(obj') = OwnersOf(obj)
    BY <2>1
  <2>5. Pending' = Pending
    BY <2>1 DEF Pending, Outcome, PieceText, Text, Bytes, Formatting
  <2> QED BY <2>2, <2>3, <2>4, <2>5, HiddenMeans DEF Maps
<1> QED BY <1>1, <1>2, <1>3, <1>4 DEF Next

LEMMA InitMeans == Init => GoneOK /\ PiecesOK /\ V!Init
<1> SUFFICES ASSUME Init PROVE GoneOK /\ PiecesOK /\ V!Init
  OBVIOUS
<1>1. \A v \in Var : obj[v] = str_null /\ ~obj[v].own
  BY Constructors DEF Init
<1>2. GoneOK
  BY <1>1, SoundConstructors DEF GoneOK, Sound
<1>3. PiecesOK
  BY NotCalling DEF Init
<1>4. \A v \in Var : ValueOf(heap, obj[v]) = <<>>
  BY <1>1, HeapAssumption DEF ValueOf, TextOf, str_null
<1>5. ValOf(obj, heap) = [v \in Var |-> <<>>] /\ OwnersOf(obj) = {}
  BY <1>1, <1>4 DEF ValOf, OwnersOf
<1>6. Pending = V!Nothing
  BY PendingIs DEF Init
<1> QED BY <1>2, <1>3, <1>5, <1>6, ValueHere DEF V!Init, Pending

\* With no heap in sight: whatever aliases its arguments are, a library call
\* computes its result from the values they had when it was called, touches no
\* variable before it returns, and then changes its destination only (README.md
\* "avoiding self-assignment issues"); and an owner keeps its value until it is
\* assigned to.
THEOREM ImplementsStrValue == Spec => Implements
<1>1. Init => GoneOK /\ PiecesOK /\ V!Init
  BY InitMeans
<1>2. IInv /\ IInv' /\ GoneOK /\ PiecesOK /\ [Next]_vars
        => GoneOK' /\ PiecesOK' /\ [V!Next]_(V!vars)
  BY NextMeans DEF Maps
<1> QED BY <1>1, <1>2, Inductive, PTL DEF Spec, Implements, V!Spec
=============================================================================
