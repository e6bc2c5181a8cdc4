--------------------------- MODULE StrReplaceProofs ---------------------------
(***************************************************************************)
(* The safety properties of the functions that edit a string piece by      *)
(* piece, for texts, arguments and blocks without bound and a builder of   *)
(* any size: what they replace, and that what str_to_valid_utf8 leaves is  *)
(* valid.                                                                  *)
(*                                                                         *)
(* A string's memory is spoken of with the live blocks and the heap as     *)
(* arguments, so that a lemma can compare two moments.                     *)
(***************************************************************************)
EXTENDS StrReplace, SequenceTheorems, FiniteSetTheorems, StrLemmas

----------------------------------------------------------------------------
(* Strings in memory. *)

BytesIn(h, a) == IF a \in Block THEN h[a] ELSE LitText[a]

TextIn(h, s) ==
  IF s.len = 0 THEN <<>> ELSE SubSeq(BytesIn(h, s.at), s.off + 1, s.off + s.len)

Heaps(l, h) == l \subseteq Block /\ h \in [Block -> Seq(Nat)]

\* The bytes of s may be read, and if it is an owner its block is alive.
Sound(l, h, s) ==
  /\ s \in Object
  /\ s.at \in l \cup Literal \cup {NULL}
  /\ s.len > 0 => s.at \in l \cup Literal /\ s.off + s.len <= Len(BytesIn(h, s.at))
  /\ s.own => s.at \in l /\ s.len > 0

\* The texts of the first n pieces of a builder, one after the other.
PiecesIn(h, bs, n) == FlattenSeq([k \in 1 .. n |-> TextIn(h, bs[k - 1])])

\* A builder with c elements: every piece can be read, and no other piece
\* lies in the block that the first one may own.
Builder(l, h, bs, c) ==
  /\ c \in Slot /\ bs \in [Slot -> Object]
  /\ \A k \in Slot \ {0} : ~bs[k].own
  /\ c = 0 => bs[0] = str_null
  /\ \A k \in 0 .. c - 1 : Sound(l, h, bs[k]) /\ bs[k].len > 0
  /\ \A k \in 1 .. c - 1 : bs[k].at \notin Freed(bs[0])

LEMMA ObjectFields ==
  \A s \in Object :
    /\ s.at \in Block \cup Literal \cup {NULL} /\ s.off \in Nat /\ s.len \in Nat
    /\ s.own \in BOOLEAN
    /\ s = [at |-> s.at, off |-> s.off, len |-> s.len, own |-> s.own]
BY DEF Object

LEMMA ObjectMade ==
  \A a \in Block \cup Literal \cup {NULL} : \A o, n \in Nat : \A w \in BOOLEAN :
    [at |-> a, off |-> o, len |-> n, own |-> w] \in Object
BY DEF Object

LEMMA NoBytes == <<>> \in Seq(Nat)
OBVIOUS

LEMMA TextIsIn == \A s : Text(s) = TextIn(heap, s)
BY DEF Text, TextIn, Bytes, BytesIn

LEMMA SoundReadable == \A s : Sound(live, heap, s) => Readable(s)
BY DEF Sound, Readable, Bytes, BytesIn, Object

LEMMA NullSound == \A l, h : Sound(l, h, str_null)
BY DEF Sound, str_null, Object

\* The text of a string that can be read has the string's length.
LEMMA TextLength ==
  ASSUME NEW l, NEW h, Heaps(l, h), NEW s, Sound(l, h, s)
  PROVE  TextIn(h, s) \in Seq(Nat) /\ Len(TextIn(h, s)) = s.len
<1>1. s.len \in Nat /\ s.off \in Nat
  BY DEF Sound, Object
<1>2. CASE s.len = 0
  BY <1>2 DEF TextIn
<1>3. CASE s.len # 0
  <2>1. s.at \in l \cup Literal /\ s.off + s.len <= Len(BytesIn(h, s.at))
    BY <1>1, <1>3 DEF Sound
  <2>2. BytesIn(h, s.at) \in Seq(Nat)
    BY <2>1, HeapAssumption DEF BytesIn, Heaps
  <2>3. ASSUME NEW x \in Seq(Nat), NEW i \in Nat, NEW n \in Nat, i + n <= Len(x),
               x = BytesIn(h, s.at), i = s.off, n = s.len
        PROVE  SubSeq(x, i + 1, i + n) \in Seq(Nat) /\ Len(SubSeq(x, i + 1, i + n)) = n
    <3> DEFINE a == i + 1  c == i + n
    <3>1. i \in Nat /\ n \in Nat /\ \E m \in Nat : m = Len(x) /\ i + n <= m
      BY <2>3
    <3>2. a \in 1 .. Len(x) + 1 /\ c \in a - 1 .. Len(x) /\ c - a + 1 = n /\ (a <= c \/ n = 0)
      BY ONLY <3>1
    <3>3. x \in Seq(Nat)
      OBVIOUS
    <3> HIDE DEF a, c
    <3>4. SubSeq(x, a, c) \in Seq(Nat) /\ Len(SubSeq(x, a, c)) = IF a <= c THEN c - a + 1 ELSE 0
      BY ONLY <3>2, <3>3, SubSeqProperties
    <3>5. Len(SubSeq(x, a, c)) = n
      <4>1. a \in Int /\ c \in Int /\ n \in Nat
        BY ONLY <3>1 DEF a, c
      <4> QED BY ONLY <3>2, <3>4, <4>1
    <3> QED BY <3>4, <3>5 DEF a, c
  <2>4. TextIn(h, s) = SubSeq(BytesIn(h, s.at), s.off + 1, s.off + s.len)
    BY <1>3 DEF TextIn
  <2>5. /\ SubSeq(BytesIn(h, s.at), s.off + 1, s.off + s.len) \in Seq(Nat)
        /\ Len(SubSeq(BytesIn(h, s.at), s.off + 1, s.off + s.len)) = s.len
    BY ONLY <1>1, <2>1, <2>2, <2>3
  <2> QED BY ONLY <2>4, <2>5
<1> QED BY <1>2, <1>3

\* A reference to a string, and a part of it, can be read when it can.
LEMMA RefSound ==
  ASSUME NEW l, NEW h, NEW s, Sound(l, h, s)
  PROVE  /\ Sound(l, h, str_ref(s)) /\ ~str_ref(s).own /\ str_ref(s).at = s.at
         /\ str_ref(s).len = s.len /\ TextIn(h, str_ref(s)) = TextIn(h, s)
<1>1. s \in Object
  BY DEF Sound
<1>2. str_ref(s) = [s EXCEPT !.own = FALSE]
  BY DEF str_ref
<1>3. str_ref(s) \in Object
  BY <1>1, <1>2 DEF Object
<1>4. /\ ~str_ref(s).own /\ str_ref(s).at = s.at
      /\ str_ref(s).len = s.len /\ str_ref(s).off = s.off
  BY <1>1, <1>2 DEF Object
<1> QED BY <1>3, <1>4 DEF Sound, TextIn

LEMMA PartSound ==
  ASSUME NEW l, NEW h, Heaps(l, h), NEW s, Sound(l, h, s), NEW i \in Nat, NEW n \in Nat, i + n <= s.len
  PROVE  /\ Sound(l, h, str_ref_mem(s.at, s.off + i, n))
         /\ ~str_ref_mem(s.at, s.off + i, n).own
         /\ str_ref_mem(s.at, s.off + i, n).at \in {s.at, NULL}
<1> DEFINE r == str_ref_mem(s.at, s.off + i, n)
<1>1. s \in Object /\ s.off \in Nat /\ s.len \in Nat /\ s.at \in Block \cup Literal \cup {NULL}
  BY ObjectFields DEF Sound
<1>2. CASE s.at # NULL /\ n > 0
  <2>1. r = [at |-> s.at, off |-> s.off + i, len |-> n, own |-> FALSE]
    BY <1>2 DEF str_ref_mem
  <2>2. r \in Object
    <3>1. s.off + i \in Nat
      BY <1>1
    <3> HIDE DEF r
    <3> QED BY <1>1, <2>1, <3>1, ObjectMade
  <2>3. s.len > 0
    BY <1>1, <1>2
  <2>4. /\ s.at \in l \cup Literal /\ s.off + s.len <= Len(BytesIn(h, s.at))
        /\ BytesIn(h, s.at) = BytesIn(h, r.at)
    BY <2>1, <2>3 DEF Sound
  <2>5. s.off + i + n <= s.off + s.len
    BY <1>1
  <2>6. r.at = s.at /\ r.off = s.off + i /\ r.len = n /\ ~r.own
    BY <2>1
  <2>7. Sound(l, h, r)
    <3>1. s.at \in l \cup Literal \cup {NULL} /\ r.off + r.len <= Len(BytesIn(h, s.at))
      <4>1. Len(BytesIn(h, s.at)) \in Nat
        BY <2>4, HeapAssumption DEF BytesIn, Heaps
      <4> QED BY <1>1, <2>4, <2>5, <2>6, <4>1
    <3> HIDE DEF r
    <3> QED BY <2>2, <2>4, <2>6, <3>1 DEF Sound
  <2> QED BY <2>6, <2>7
<1>3. CASE ~(s.at # NULL /\ n > 0)
  <2>1. r = str_null
    BY <1>3 DEF str_ref_mem
  <2>2. str_null.at = NULL /\ ~str_null.own
    BY DEF str_null
  <2> QED BY <2>1, <2>2, NullSound
<1> QED BY <1>2, <1>3

----------------------------------------------------------------------------
(* The builder. *)

\* The pieces have a text, and one piece more is put behind it.
LEMMA PiecesText ==
  ASSUME NEW h, NEW bs, NEW n \in Nat, \A k \in 0 .. n : TextIn(h, bs[k]) \in Seq(Nat)
  PROVE  /\ PiecesIn(h, bs, n) \in Seq(Nat)
         /\ PiecesIn(h, bs, n + 1) = PiecesIn(h, bs, n) \o TextIn(h, bs[n])
<1> DEFINE e == [k \in 1 .. n + 1 |-> TextIn(h, bs[k - 1])]
<1>1. \A k \in 1 .. n + 1 : e[k] \in Seq(Nat) /\ k - 1 \in 0 .. n
  OBVIOUS
<1>2. /\ [k \in 1 .. n |-> e[k]] = [k \in 1 .. n |-> TextIn(h, bs[k - 1])]
      /\ [k \in 1 .. n + 1 |-> e[k]] = [k \in 1 .. n + 1 |-> TextIn(h, bs[k - 1])]
      /\ e[n + 1] = TextIn(h, bs[n])
  OBVIOUS
<1> HIDE DEF e
<1>3. /\ FlattenSeq([k \in 1 .. n |-> e[k]]) \in Seq(Nat)
      /\ FlattenSeq([k \in 1 .. n + 1 |-> e[k]])
           = FlattenSeq([k \in 1 .. n |-> e[k]]) \o e[n + 1]
  BY <1>1, FlattenNext
<1> QED BY <1>2, <1>3, Zenon DEF PiecesIn

\* The pieces have the same text as long as each of them has.
LEMMA PiecesSame ==
  ASSUME NEW h, NEW g, NEW bs, NEW cs, NEW n \in Nat,
         \A k \in 0 .. n - 1 : TextIn(h, bs[k]) = TextIn(g, cs[k])
  PROVE  PiecesIn(h, bs, n) = PiecesIn(g, cs, n)
<1>1. \A k \in 1 .. n : k - 1 \in 0 .. n - 1
  OBVIOUS
<1>2. [k \in 1 .. n |-> TextIn(h, bs[k - 1])] = [k \in 1 .. n |-> TextIn(g, cs[k - 1])]
  BY <1>1
<1> QED BY <1>2, Zenon DEF PiecesIn

LEMMA PiecesOne ==
  ASSUME NEW h, NEW bs, TextIn(h, bs[0]) \in Seq(Nat)
  PROVE  PiecesIn(h, bs, 1) = TextIn(h, bs[0]) /\ PiecesIn(h, bs, 0) = <<>>
<1>1. \A k \in 0 .. 0 : TextIn(h, bs[k]) \in Seq(Nat)
  OBVIOUS
<1>2. PiecesIn(h, bs, 0 + 1) = PiecesIn(h, bs, 0) \o TextIn(h, bs[0])
  BY <1>1, PiecesText
<1>3. PiecesIn(h, bs, 0) = <<>>
  <2>1. [k \in 1 .. 0 |-> TextIn(h, bs[k - 1])] = <<>>
    OBVIOUS
  <2> QED BY <2>1, FlattenNone, Zenon DEF PiecesIn
<1>4. \A x \in Seq(Nat) : <<>> \o x = x
  OBVIOUS
<1> QED BY <1>2, <1>3, <1>4

\* The pieces are not all empty, and fill a block of their own.
LEMMA ConcatStep ==
  ASSUME Heaps(live, heap), NEW bs \in [Slot -> Object], NEW n \in Nat \ {0},
         \A k \in 0 .. n - 1 : Sound(live, heap, bs[k]) /\ bs[k].len > 0,
         NEW b \in Block, Concat(bs, n, b), NEW text, text = PiecesIn(heap, bs, n)
  PROVE  /\ text \in Seq(Nat) /\ Len(text) > 0
         /\ b \notin live /\ live' = (live \ Freed(bs[0])) \cup {b} /\ Heaps(live', heap')
         /\ buff' = [bs EXCEPT ![0] = OwnerNoTest(b, Len(text))]
         /\ heap'[b] = Append(text, 0)
         /\ \A s : Sound(live, heap, s) /\ s.at \notin Freed(bs[0])
                     => /\ Sound(live', heap', s) /\ TextIn(heap', s) = TextIn(heap, s)
                        /\ s.at # b
<1>1. /\ b \notin live
      /\ live' = (live \ Freed(bs[0])) \cup {b}
      /\ heap' = Scrub([heap EXCEPT ![b] = Append(text, 0)], Freed(bs[0]))
      /\ buff' = [bs EXCEPT ![0] = str_acquire_mem(b, Len(text))]
  <2>1. [k \in 1 .. n |-> Text(bs[k - 1])] = [k \in 1 .. n |-> TextIn(heap, bs[k - 1])]
    BY TextIsIn, Zenon
  <2>2. text = FlattenSeq([k \in 1 .. n |-> Text(bs[k - 1])])
    BY <2>1, Zenon DEF PiecesIn
  <2> QED BY <2>2, Zenon DEF Concat
<1>2. text \in Seq(Nat) /\ Len(text) > 0
  <2>1. ASSUME NEW m \in Nat, n = m + 1
        PROVE  text \in Seq(Nat) /\ Len(text) > 0
    <3>1. \A k \in 0 .. m : TextIn(heap, bs[k]) \in Seq(Nat)
      BY <2>1, TextLength
    <3>2. /\ PiecesIn(heap, bs, m) \in Seq(Nat)
          /\ PiecesIn(heap, bs, m + 1) = PiecesIn(heap, bs, m) \o TextIn(heap, bs[m])
      BY <3>1, PiecesText
    <3>3. m \in 0 .. n - 1
      BY <2>1
    <3>4. TextIn(heap, bs[m]) \in Seq(Nat) /\ Len(TextIn(heap, bs[m])) = bs[m].len /\ bs[m].len > 0
      BY <3>3, TextLength
    <3>5. \A x, y \in Seq(Nat) : x \o y \in Seq(Nat) /\ Len(x \o y) = Len(x) + Len(y)
      OBVIOUS
    <3>6. \A x \in Seq(Nat) : Len(x) \in Nat
      OBVIOUS
    <3>7. text = PiecesIn(heap, bs, m) \o TextIn(heap, bs[m])
      BY <2>1, <3>2, Zenon
    <3> HIDE DEF PiecesIn
    <3> QED BY <3>2, <3>4, <3>5, <3>6, <3>7
  <2>2. n - 1 \in Nat /\ n = (n - 1) + 1
    OBVIOUS
  <2> QED BY <2>1, <2>2
<1>3. Freed(bs[0]) \subseteq live
  <2>1. Sound(live, heap, bs[0])
    OBVIOUS
  <2> QED BY <2>1 DEF Sound, Freed
<1>4. heap' \in [Block -> Seq(Nat)] /\ live' \subseteq Block /\ heap'[b] = Append(text, 0)
      /\ \A a \in Block \ Freed(bs[0]) : a # b => heap'[a] = heap[a]
  <2>1. Append(text, 0) \in Seq(Nat)
    BY <1>2
  <2>2. heap \in [Block -> Seq(Nat)] /\ live \subseteq Block
    BY DEF Heaps
  <2> QED BY <1>1, <1>3, <2>1, <2>2, NoBytes DEF Scrub
<1>5. buff' = [bs EXCEPT ![0] = OwnerNoTest(b, Len(text))]
  BY <1>1, <1>2 DEF str_acquire_mem, OwnerNoTest
<1>6. ASSUME NEW s, Sound(live, heap, s), s.at \notin Freed(bs[0])
      PROVE  Sound(live', heap', s) /\ TextIn(heap', s) = TextIn(heap, s) /\ s.at # b
  <2>1. s.at \in live \cup Literal \cup {NULL} /\ s.at # b
    BY <1>1, <1>6, HeapAssumption DEF Sound
  <2>2. BytesIn(heap', s.at) = BytesIn(heap, s.at)
    BY <1>4, <1>6, <2>1 DEF BytesIn
  <2>3. s.at \in live => s.at \in live'
    BY <1>1, <1>6
  <2> QED BY <1>6, <2>1, <2>2, <2>3 DEF Sound, TextIn
<1> QED BY <1>1, <1>2, <1>4, <1>5, <1>6 DEF Heaps

\* The object for a block filled like this.
LEMMA OwnerSound ==
  ASSUME NEW l, NEW h, Heaps(l, h), NEW b \in l, NEW text \in Seq(Nat), Len(text) > 0,
         h[b] = Append(text, 0), NEW s, s = OwnerNoTest(b, Len(text))
  PROVE  Sound(l, h, s) /\ TextIn(h, s) = text /\ s.len > 0 /\ Freed(s) = {b} /\ s.own
<1>1. /\ s.at = b /\ s.off = 0 /\ s.len = Len(text) /\ s.own
      /\ s = [at |-> b, off |-> 0, len |-> Len(text), own |-> TRUE]
  BY DEF OwnerNoTest
<1>2. b \in Block /\ Len(text) \in Nat
  BY DEF Heaps
<1>3. s \in Object
  <2>2. [at |-> b, off |-> 0, len |-> Len(text), own |-> TRUE] \in Object
    BY <1>2 DEF Object
  <2> QED BY <1>1, <2>2
<1>4. BytesIn(h, b) = Append(text, 0) /\ Len(Append(text, 0)) = Len(text) + 1
  BY <1>2 DEF BytesIn
<1>5. SubSeq(Append(text, 0), 1, Len(text)) = text
  OBVIOUS
<1>6. TextIn(h, s) = text
  <2>1. 0 + 1 = 1 /\ 0 + Len(text) = Len(text) /\ Len(text) # 0
    BY <1>2
  <2> QED BY <1>1, <1>4, <1>5, <2>1 DEF TextIn
<1>7. Freed(s) = {b}
  BY <1>1 DEF Freed
<1>8. /\ s.at \in l /\ s.at \in l \cup Literal \cup {NULL} /\ s.at \in l \cup Literal
      /\ s.len > 0 /\ s.off + s.len <= Len(BytesIn(h, s.at))
  <2>1. 0 + Len(text) <= Len(BytesIn(h, b))
    BY <1>2, <1>4
  <2> QED BY <1>1, <2>1
<1>9. Sound(l, h, s)
  BY <1>3, <1>8, Zenon DEF Sound
<1> QED BY <1>1, <1>6, <1>7, <1>8, <1>9

\* A step of the builder may give up its block for another one, and keeps
\* every string that does not lie in it.
Kept(l, h, lp, hp, s) == Sound(lp, hp, s) /\ TextIn(hp, s) = TextIn(h, s)

Moved(l, h, bs, lp, hp, cs) ==
  /\ lp = (l \ Freed(bs[0])) \cup Freed(cs[0])
  /\ \A s : Sound(l, h, s) /\ s.at \notin Freed(bs[0])
              => Kept(l, h, lp, hp, s) /\ s.at \notin Freed(cs[0])

\* sb_append puts the text of a string behind the pieces.
LEMMA AppendStep ==
  ASSUME Heaps(live, heap), Builder(live, heap, buff, count),
         NEW s, Sound(live, heap, s), s.at \notin Freed(buff[0]), sb_append(s)
  PROVE  /\ Heaps(live', heap') /\ Builder(live', heap', buff', count')
         /\ PiecesIn(heap', buff', count') = PiecesIn(heap, buff, count) \o TextIn(heap, s)
         /\ Moved(live, heap, buff, live', heap', buff')
<1> DEFINE bs == [buff EXCEPT ![count] = str_ref(s)]
<1>1. /\ live \subseteq Block /\ count \in Nat /\ count \in Slot /\ buff \in [Slot -> Object]
      /\ SB_SIZE \in Nat /\ SB_SIZE > 1 /\ 0 \in Slot
      /\ \A k \in 0 .. count - 1 : Sound(live, heap, buff[k]) /\ buff[k].len > 0 /\ k \in Slot
  BY BuilderAssumption DEF Builder, Heaps, Slot
<1>2. Freed(buff[0]) \subseteq live
  <2>1. CASE count = 0
    BY <2>1 DEF Builder, Freed, str_null
  <2>2. CASE count # 0
    BY <1>1, <2>2 DEF Sound, Freed
  <2> QED BY <2>1, <2>2
<1>3. \A k \in 0 .. count - 1 : TextIn(heap, buff[k]) \in Seq(Nat)
  BY <1>1, TextLength
<1>4. PiecesIn(heap, buff, count) \in Seq(Nat)
  <2>1. CASE count = 0
    <3>1. PiecesIn(heap, buff, 0) = <<>>
      <4>1. [k \in 1 .. 0 |-> TextIn(heap, buff[k - 1])] = <<>>
        OBVIOUS
      <4> QED BY <4>1, FlattenNone, Zenon DEF PiecesIn
    <3> QED BY <2>1, <3>1, NoBytes
  <2>2. ASSUME NEW m \in Nat, count = m + 1 PROVE PiecesIn(heap, buff, count) \in Seq(Nat)
    <3>1. \A k \in 0 .. m : TextIn(heap, buff[k]) \in Seq(Nat)
      BY <1>3, <2>2
    <3>2. /\ PiecesIn(heap, buff, m) \in Seq(Nat)
          /\ PiecesIn(heap, buff, m + 1) = PiecesIn(heap, buff, m) \o TextIn(heap, buff[m])
          /\ TextIn(heap, buff[m]) \in Seq(Nat)
      BY <3>1, PiecesText
    <3>3. PiecesIn(heap, buff, count) = PiecesIn(heap, buff, m) \o TextIn(heap, buff[m])
      BY <2>2, <3>2, Zenon
    <3> HIDE DEF PiecesIn
    <3> QED BY <3>2, <3>3
  <2>3. count # 0 => count - 1 \in Nat /\ count = (count - 1) + 1
    BY <1>1
  <2> QED BY <2>1, <2>2, <2>3
<1>5. CASE str_is_empty(s)
  <2>1. UNCHANGED <<live, heap, buff, count>>
    BY <1>5 DEF sb_append
  <2>2. TextIn(heap, s) = <<>>
    BY <1>5 DEF str_is_empty, TextIn
  <2>3. \A x \in Seq(Nat) : x \o <<>> = x
    OBVIOUS
  <2>4. live = (live \ Freed(buff[0])) \cup Freed(buff[0])
    BY <1>2
  <2> HIDE DEF Builder, Heaps, PiecesIn
  <2> QED BY <1>4, <2>1, <2>2, <2>3, <2>4 DEF Kept, Moved
<1>6. CASE ~str_is_empty(s)
  <2>1. sb_inc_index(bs)
    BY <1>6 DEF sb_append
  <2>2. /\ Sound(live, heap, str_ref(s)) /\ ~str_ref(s).own /\ str_ref(s).at = s.at
        /\ str_ref(s).len > 0 /\ TextIn(heap, str_ref(s)) = TextIn(heap, s)
    <3>1. s.len \in Nat /\ s.len # 0
      BY <1>6, ObjectFields DEF str_is_empty, Sound
    <3> QED BY <3>1, RefSound
  <2>3. str_ref(s) \in Object
    BY <2>2 DEF Sound
  <2>4. /\ bs \in [Slot -> Object] /\ bs[count] = str_ref(s)
        /\ \A k \in Slot : k # count => bs[k] = buff[k]
    BY <1>1, <2>3
  <2>5. /\ \A k \in 0 .. count : Sound(live, heap, bs[k]) /\ bs[k].len > 0
        /\ \A k \in 0 .. count : TextIn(heap, bs[k]) \in Seq(Nat)
    <3>1. ASSUME NEW k \in 0 .. count PROVE Sound(live, heap, bs[k]) /\ bs[k].len > 0
      <4>1. CASE k = count
        BY <2>2, <2>4, <4>1
      <4>2. CASE k # count
        <5>1. k \in 0 .. count - 1
          BY <1>1, <4>2
        <5> QED BY <1>1, <2>4, <4>2, <5>1
      <4> QED BY <4>1, <4>2
    <3> HIDE DEF bs
    <3>2. \A k \in 0 .. count : TextIn(heap, bs[k]) \in Seq(Nat)
      BY <3>1, TextLength
    <3> QED BY <3>1, <3>2
  <2>6. PiecesIn(heap, bs, count + 1) = PiecesIn(heap, buff, count) \o TextIn(heap, s)
    <3>1. \A k \in 0 .. count - 1 : TextIn(heap, bs[k]) = TextIn(heap, buff[k])
      BY <1>1, <2>4
    <3> HIDE DEF bs
    <3>2. PiecesIn(heap, bs, count) = PiecesIn(heap, buff, count)
      BY <1>1, <3>1, PiecesSame
    <3>3. PiecesIn(heap, bs, count + 1) = PiecesIn(heap, bs, count) \o TextIn(heap, bs[count])
      BY <1>1, <2>5, PiecesText
    <3> QED BY <2>2, <2>4, <3>2, <3>3, Zenon
  <2>7. /\ Freed(bs[0]) = Freed(buff[0])
        /\ \A k \in Slot \ {0} : ~bs[k].own
        /\ \A k \in 1 .. count : bs[k].at \notin Freed(bs[0])
    <3>1. Freed(bs[0]) = Freed(buff[0])
      <4>1. CASE count = 0
        BY <2>2, <2>4, <4>1 DEF Builder, Freed, str_null
      <4>2. CASE count # 0
        BY <1>1, <2>4, <4>2
      <4> QED BY <4>1, <4>2
    <3>2. \A k \in Slot \ {0} : ~bs[k].own
      BY <2>2, <2>4 DEF Builder
    <3>3. ASSUME NEW k \in 1 .. count PROVE bs[k].at \notin Freed(buff[0])
      <4>1. CASE k = count
        BY <2>2, <2>4, <4>1
      <4>2. CASE k # count
        <5>1. k \in 1 .. count - 1 /\ k \in Slot
          BY <1>1, <4>2
        <5> QED BY <2>4, <4>2, <5>1 DEF Builder
      <4> QED BY <4>1, <4>2
    <3> QED BY <3>1, <3>2, <3>3
  <2>8. CASE ~Full(count + 1)
    <3> HIDE DEF bs
    <3>1. buff' = bs /\ count' = count + 1 /\ live' = live /\ heap' = heap
      BY <2>1, <2>8 DEF sb_inc_index
    <3>2. count + 1 \in Slot /\ (count + 1) - 1 = count /\ count + 1 # 0
      BY <1>1, <2>8 DEF Full, Slot
    <3>3. Builder(live, heap, bs, count + 1)
      BY <2>4, <2>5, <2>7, <3>2 DEF Builder
    <3> HIDE DEF Builder, Heaps, PiecesIn
    <3> QED BY <1>2, <2>6, <2>7, <3>1, <3>3 DEF Kept, Moved
  <2>9. CASE Full(count + 1)
    <3> HIDE DEF bs
    <3> DEFINE text == PiecesIn(heap, bs, SB_SIZE)  own(b) == OwnerNoTest(b, Len(text))
    <3>1. count' = 1 /\ \E b \in Block : Concat(bs, SB_SIZE, b)
      BY <2>1, <2>9 DEF sb_inc_index, AfterFlush
    <3>2. PICK b \in Block : Concat(bs, SB_SIZE, b)
      BY <3>1
    <3>3. count + 1 = SB_SIZE /\ SB_SIZE \in Nat \ {0} /\ SB_SIZE - 1 = count /\ 1 \in Slot
      BY <1>1, <2>9 DEF Full, Slot
    <3>4. /\ text \in Seq(Nat) /\ Len(text) > 0
          /\ b \notin live /\ live' = (live \ Freed(bs[0])) \cup {b} /\ Heaps(live', heap')
          /\ buff' = [bs EXCEPT ![0] = own(b)]
          /\ heap'[b] = Append(text, 0)
          /\ \A x : Sound(live, heap, x) /\ x.at \notin Freed(bs[0])
                     => /\ Sound(live', heap', x) /\ TextIn(heap', x) = TextIn(heap, x)
                        /\ x.at # b
      <4>1. \A k \in 0 .. SB_SIZE - 1 : Sound(live, heap, bs[k]) /\ bs[k].len > 0
        BY <2>5, <3>3
      <4> HIDE DEF Sound, Heaps
      <4> QED BY <2>4, <3>2, <3>3, <4>1, ConcatStep
    <3>5. /\ own(b) = buff'[0] /\ Sound(live', heap', own(b)) /\ TextIn(heap', own(b)) = text
          /\ own(b).len > 0 /\ Freed(own(b)) = {b}
      <4>1. b \in live'
        BY <3>4
      <4>2. buff'[0] = own(b)
        BY <1>1, <2>4, <3>4
      <4>3. /\ text \in Seq(Nat) /\ Len(text) > 0 /\ heap'[b] = Append(text, 0)
            /\ Heaps(live', heap')
        BY <3>4
      <4> HIDE DEF text, Sound, Heaps
      <4>4. /\ Sound(live', heap', own(b)) /\ TextIn(heap', own(b)) = text
            /\ own(b).len > 0 /\ Freed(own(b)) = {b}
        BY ONLY <4>1, <4>3, OwnerSound
      <4> HIDE DEF own
      <4> QED BY ONLY <4>2, <4>4
    <3> HIDE DEF own
    <3>6. Builder(live', heap', buff', 1)
      <4>1. own(b) \in Object
        BY <3>5 DEF Sound
      <4>2. buff' \in [Slot -> Object] /\ \A k \in Slot \ {0} : buff'[k] = bs[k]
        BY <2>4, <3>4, <4>1
      <4>3. \A k \in 0 .. 1 - 1 : k = 0
        OBVIOUS
      <4>4. /\ 1 \in Slot /\ \A k \in Slot \ {0} : ~buff'[k].own
            /\ \A k \in 0 .. 1 - 1 : Sound(live', heap', buff'[k]) /\ buff'[k].len > 0
        <5> HIDE DEF Sound, text, own
        <5> QED BY ONLY <2>7, <3>3, <3>5, <4>2, <4>3
      <4>5. \A k \in 1 .. 1 - 1 : buff'[k].at \notin Freed(buff'[0])
        OBVIOUS
      <4>6. 1 # 0
        OBVIOUS
      <4> HIDE DEF Sound, text, own
      <4> QED BY ONLY <4>2, <4>4, <4>5, <4>6, Zenon DEF Builder
    <3>7. PiecesIn(heap', buff', 1) = PiecesIn(heap, buff, count) \o TextIn(heap, s)
      <4>1. PiecesIn(heap', buff', 1) = TextIn(heap', buff'[0])
        BY <3>4, <3>5, PiecesOne, SMTT(40), ZenonT(40)
      <4>2. text = PiecesIn(heap, bs, count + 1)
        BY <3>3
      <4> HIDE DEF text
      <4> QED BY <2>6, <3>5, <4>1, <4>2, Zenon
    <3>8. Freed(buff'[0]) = {b} /\ Freed(bs[0]) = Freed(buff[0])
      BY <2>7, <3>5
    <3> HIDE DEF Builder, Heaps, PiecesIn, text
    <3> QED BY <3>1, <3>4, <3>6, <3>7, <3>8 DEF Kept, Moved
  <2> QED BY <2>8, <2>9
<1> QED BY <1>5, <1>6

\* sb_join makes the pieces one string, which is the builder's first element.
LEMMA JoinStep ==
  ASSUME Heaps(live, heap), Builder(live, heap, buff, count), sb_join,
         NEW text, text = PiecesIn(heap, buff, count)
  PROVE  /\ Heaps(live', heap') /\ Builder(live', heap', buff', count')
         /\ Moved(live, heap, buff, live', heap', buff')
         /\ TextIn(heap', buff'[0]) = text
         /\ \/ buff'[0] = str_null /\ text = <<>>
            \/ buff'[0].own /\ heap'[buff'[0].at] = Append(text, 0)
<1>1. /\ live \subseteq Block /\ count \in Nat /\ count \in Slot /\ buff \in [Slot -> Object]
      /\ 0 \in Slot /\ SB_SIZE \in Nat
      /\ \A k \in 0 .. count - 1 : Sound(live, heap, buff[k]) /\ buff[k].len > 0
  BY BuilderAssumption DEF Builder, Heaps, Slot
<1>2. CASE count = 0
  <2>1. UNCHANGED <<live, heap, buff, count>>
    BY <1>2 DEF sb_join
  <2>2. buff[0] = str_null /\ Freed(str_null) = {} /\ TextIn(heap, str_null) = <<>>
    BY <1>2 DEF Builder, Freed, str_null, TextIn
  <2>3. text = <<>>
    <3>1. [k \in 1 .. 0 |-> TextIn(heap, buff[k - 1])] = <<>>
      OBVIOUS
    <3> QED BY <1>2, <3>1, FlattenNone, Zenon DEF PiecesIn
  <2>4. Moved(live, heap, buff, live, heap, buff)
    BY <2>2 DEF Moved, Kept
  <2> HIDE DEF Builder, Heaps, PiecesIn, TextIn
  <2> QED BY <2>1, <2>2, <2>3, <2>4
<1>3. CASE count # 0
  <2> DEFINE own(b) == OwnerNoTest(b, Len(text))
  <2>1. count' = count /\ \E b \in Block : Concat(buff, count, b)
    BY <1>1, <1>3 DEF sb_join
  <2>2. PICK b \in Block : Concat(buff, count, b)
    BY <2>1
  <2>3. /\ text \in Seq(Nat) /\ Len(text) > 0
        /\ b \notin live /\ live' = (live \ Freed(buff[0])) \cup {b} /\ Heaps(live', heap')
        /\ buff' = [buff EXCEPT ![0] = own(b)]
        /\ heap'[b] = Append(text, 0)
        /\ \A s : Sound(live, heap, s) /\ s.at \notin Freed(buff[0])
                    => /\ Sound(live', heap', s) /\ TextIn(heap', s) = TextIn(heap, s)
                       /\ s.at # b
    <3> HIDE DEF Sound, Heaps
    <3>1. count \in Nat \ {0}
      BY <1>1, <1>3
    <3> QED BY <1>1, <2>2, <3>1, ConcatStep
  <2>4. /\ own(b) = buff'[0] /\ Sound(live', heap', own(b)) /\ TextIn(heap', own(b)) = text
        /\ own(b).len > 0 /\ Freed(own(b)) = {b} /\ own(b).own
    <3>1. b \in live'
      BY <2>3
    <3>2. buff'[0] = own(b)
      BY <1>1, <2>3
    <3> HIDE DEF Sound, Heaps
    <3> QED BY <2>3, <3>1, <3>2, OwnerSound, SMTT(60)
  <2>5. own(b).at = b
    BY DEF OwnerNoTest
  <2> HIDE DEF own
  <2>8. /\ Sound(live', heap', buff'[0]) /\ TextIn(heap', buff'[0]) = text /\ buff'[0].len > 0
        /\ Freed(buff'[0]) = {b} /\ buff'[0].own /\ buff'[0].at = b
    BY <2>4, <2>5, Zenon
  <2>6. Moved(live, heap, buff, live', heap', buff')
    <3>1. live' = (live \ Freed(buff[0])) \cup Freed(buff'[0])
      BY <2>3, <2>8, Zenon
    <3>2. ASSUME NEW s, Sound(live, heap, s), s.at \notin Freed(buff[0])
          PROVE  Kept(live, heap, live', heap', s) /\ s.at \notin Freed(buff'[0])
      BY <2>3, <2>8, <3>2, Zenon DEF Kept
    <3> QED BY <3>1, <3>2, Zenon DEF Moved
  <2>7. Builder(live', heap', buff', count)
    <3>1. own(b) \in Object
      BY <2>4 DEF Sound
    <3>2. buff' \in [Slot -> Object] /\ \A k \in Slot \ {0} : buff'[k] = buff[k]
      BY <1>1, <2>3, <3>1
    <3>3. ASSUME NEW k \in 0 .. count - 1
          PROVE  /\ Sound(live', heap', buff'[k]) /\ buff'[k].len > 0
                 /\ k # 0 => buff'[k].at \notin Freed(buff'[0])
      <4>1. CASE k = 0
        BY <2>8, <4>1
      <4>2. CASE k # 0
        <5>1. k \in Slot \ {0} /\ k \in 1 .. count - 1
          BY <1>1, <4>2 DEF Slot
        <5>2. buff'[k] = buff[k] /\ buff[k].at \notin Freed(buff[0])
          BY <3>2, <5>1 DEF Builder
        <5>3. Sound(live, heap, buff[k]) /\ buff[k].len > 0
          BY <1>1
        <5> QED BY <2>6, <5>2, <5>3, Zenon DEF Moved, Kept
      <4> QED BY <4>1, <4>2
    <3>4. \A k \in 1 .. count - 1 : k \in 0 .. count - 1 /\ k # 0
      BY <1>1
    <3> HIDE DEF Sound
    <3> QED BY <1>1, <1>3, <3>2, <3>3, <3>4 DEF Builder
  <2> HIDE DEF Builder, Heaps, Moved, TextIn
  <2> QED BY <2>1, <2>3, <2>6, <2>7, <2>8
<1> QED BY <1>2, <1>3

----------------------------------------------------------------------------
(* The searches. *)

\* The decoder consumes something, and nothing behind the end.
LEMMA DecodeResult ==
  ASSUME NEW x \in Seq(Nat), Len(x) > 0, NEW r, r = str_decode_utf8(x)
  PROVE  /\ r.num_bytes \in Nat /\ r.num_bytes > 0 /\ r.num_bytes <= Len(x)
         /\ ReplaceStep(r) \in Nat /\ ReplaceStep(r) > 0 /\ ReplaceStep(r) <= r.num_bytes
<1> DEFINE info == utf8_info(x[1])  len == info.len
           bad == {i \in 3 .. len : ~IsContinuation(x[i])}
<1>1. Len(x) \in Nat /\ x # <<>>
  OBVIOUS
<1>2. len \in {0, 2, 3, 4}
  BY DEF utf8_info, Info
<1>3. \E s, n, l, c : r = Result(s, n, l, c) /\ n \in Nat /\ n > 0 /\ n <= Len(x)
  <2>1. CASE x[1] < 128
    <3>1. r = Result(OK, 1, 1, x[1])
      BY <1>1, <2>1 DEF str_decode_utf8, result_ok
    <3>2. 1 \in Nat /\ 1 > 0 /\ 1 <= Len(x)
      BY <1>1
    <3> QED BY <3>1, <3>2
  <2>2. CASE ~(x[1] < 128) /\ len = 0
    <3>1. r = Result(ERROR, 1, 1, 0)
      BY <1>1, <2>2 DEF str_decode_utf8, str_decode_utf8_impl, result_error
    <3>2. 1 \in Nat /\ 1 > 0 /\ 1 <= Len(x)
      BY <1>1
    <3> QED BY <3>1, <3>2
  <2>3. CASE ~(x[1] < 128) /\ len # 0 /\ Len(x) < len
    <3>1. r = Result(INCOMPLETE, Len(x), len, 0)
      BY <1>1, <2>3 DEF str_decode_utf8, str_decode_utf8_impl, result_incomplete
    <3> QED BY <1>1, <3>1
  <2>4. CASE ~(x[1] < 128) /\ len # 0 /\ ~(Len(x) < len)
    <3>1. len \in Nat /\ len >= 2 /\ len <= Len(x)
      BY <1>1, <1>2, <2>4
    <3>2. \/ r = Result(ERROR, 2, len, 0)
          \/ bad # {} /\ r = Result(ERROR, Min(bad), len, 0)
          \/ \E c : r = Result(OK, len, len, c)
      <4> DEFINE cp2 == Shift6(x[1] % info.bits, x[2])
                 cp3 == Shift6(cp2, x[3])
                 cp4 == Shift6(cp3, x[4])
                 cp == CASE len = 2 -> cp2 [] len = 3 -> cp3 [] len = 4 -> cp4
                 wrong == ~IsContinuation(x[2]) \/ x[2] < info.min_cont2 \/ x[2] > info.max_cont2
      <4>1. r = IF wrong THEN result_error(2, len)
                ELSE IF bad # {} THEN result_error(Min(bad), len)
                ELSE result_ok(cp, len)
        BY <1>1, <2>4, Zenon DEF str_decode_utf8, str_decode_utf8_impl
      <4> HIDE DEF cp, wrong, bad, len
      <4> QED BY <4>1 DEF result_error, result_ok
    <3>3. CASE r = Result(ERROR, 2, len, 0)
      BY <3>1, <3>3
    <3>4. CASE bad # {} /\ r = Result(ERROR, Min(bad), len, 0)
      <4>1. bad \in SUBSET Nat /\ \A i \in bad : i \in Nat /\ i >= 3 /\ i <= len
        BY <3>1
      <4> HIDE DEF bad, len
      <4>2. Min(bad) \in bad
        <5>1. \E k \in bad : \A m \in bad : k <= m
          BY <3>4, <4>1, LeastNumber
        <5> QED BY <5>1 DEF Min
      <4>3. \A m \in bad : m \in Nat /\ m > 0 /\ m <= Len(x)
        BY <1>1, <3>1, <4>1
      <4> QED BY <3>4, <4>2, <4>3, Zenon
    <3>5. CASE \E c : r = Result(OK, len, len, c)
      <4>1. len \in Nat /\ len > 0 /\ len <= Len(x)
        BY <3>1
      <4> QED BY <3>5, <4>1
    <3> QED BY <3>2, <3>3, <3>4, <3>5
  <2> QED BY <2>1, <2>2, <2>3, <2>4
<1>4. r.num_bytes \in Nat /\ r.num_bytes > 0 /\ r.num_bytes <= Len(x)
  BY <1>3 DEF Result
<1> QED BY <1>4 DEF ReplaceStep

----------------------------------------------------------------------------
(* The edited text, from the front up to position i. *)

Piece(x, rep, drop, repl, k) ==
  IF k \in rep THEN repl ELSE IF k \in drop THEN <<>> ELSE <<x[k]>>

EditedTo(x, rep, drop, repl, i) == FlattenSeq([k \in 1 .. i |-> Piece(x, rep, drop, repl, k)])

LEMMA EditedIs ==
  ASSUME NEW x \in Seq(Nat), NEW rep, NEW drop, NEW repl
  PROVE  Edited(x, rep, drop, repl)
           = [text |-> EditedTo(x, rep, drop, repl, Len(x)), nrep |-> Cardinality(rep)]
<1>1. DOMAIN x = 1 .. Len(x)
  OBVIOUS
<1> QED BY <1>1, Zenon DEF Edited, EditedTo, Piece

LEMMA EditedNone == \A x, rep, drop, repl : EditedTo(x, rep, drop, repl, 0) = <<>>
<1> SUFFICES ASSUME NEW x, NEW rep, NEW drop, NEW repl
             PROVE  EditedTo(x, rep, drop, repl, 0) = <<>>
  OBVIOUS
<1>1. [k \in 1 .. 0 |-> Piece(x, rep, drop, repl, k)] = <<>>
  OBVIOUS
<1> QED BY <1>1, FlattenNone, Zenon DEF EditedTo

LEMMA EditedNext ==
  ASSUME NEW x \in Seq(Nat), NEW rep, NEW drop, NEW repl \in Seq(Nat),
         NEW i \in Nat, i < Len(x)
  PROVE  /\ EditedTo(x, rep, drop, repl, i) \in Seq(Nat)
         /\ EditedTo(x, rep, drop, repl, i + 1)
              = EditedTo(x, rep, drop, repl, i) \o Piece(x, rep, drop, repl, i + 1)
<1> DEFINE e == [k \in 1 .. i + 1 |-> Piece(x, rep, drop, repl, k)]
<1>1. ASSUME NEW k \in 1 .. i + 1 PROVE e[k] \in Seq(Nat)
  <2>1. x[k] \in Nat
    OBVIOUS
  <2>2. <<x[k]>> \in Seq(Nat)
    BY <2>1
  <2> QED BY <2>2, NoBytes DEF Piece
<1>2. /\ [k \in 1 .. i |-> e[k]] = [k \in 1 .. i |-> Piece(x, rep, drop, repl, k)]
      /\ [k \in 1 .. i + 1 |-> e[k]] = [k \in 1 .. i + 1 |-> Piece(x, rep, drop, repl, k)]
      /\ e[i + 1] = Piece(x, rep, drop, repl, i + 1)
  OBVIOUS
<1> HIDE DEF e
<1>3. /\ FlattenSeq([k \in 1 .. i |-> e[k]]) \in Seq(Nat)
      /\ FlattenSeq([k \in 1 .. i + 1 |-> e[k]])
           = FlattenSeq([k \in 1 .. i |-> e[k]]) \o e[i + 1]
  BY <1>1, FlattenNext
<1> QED BY <1>2, <1>3, Zenon DEF EditedTo

LEMMA EditedType ==
  ASSUME NEW x \in Seq(Nat), NEW rep, NEW drop, NEW repl \in Seq(Nat),
         NEW i \in Nat, i <= Len(x)
  PROVE  EditedTo(x, rep, drop, repl, i) \in Seq(Nat)
<1>1. CASE i < Len(x)
  BY <1>1, EditedNext
<1>2. CASE i = 0
  BY <1>2, EditedNone, NoBytes
<1>3. ASSUME NEW j \in Nat, i = j + 1 PROVE EditedTo(x, rep, drop, repl, i) \in Seq(Nat)
  <2>1. j < Len(x)
    BY <1>3
  <2>2. /\ EditedTo(x, rep, drop, repl, j) \in Seq(Nat)
        /\ EditedTo(x, rep, drop, repl, j + 1)
             = EditedTo(x, rep, drop, repl, j) \o Piece(x, rep, drop, repl, j + 1)
    BY <2>1, EditedNext
  <2>3. Piece(x, rep, drop, repl, i) \in Seq(Nat)
    <3>1. i \in 1 .. Len(x)
      BY <1>3
    <3>2. x[i] \in Nat
      BY <3>1
    <3>3. <<x[i]>> \in Seq(Nat)
      BY <3>2
    <3> QED BY <3>3, NoBytes DEF Piece
  <2>4. EditedTo(x, rep, drop, repl, i)
          = EditedTo(x, rep, drop, repl, j) \o Piece(x, rep, drop, repl, i)
    BY <1>3, <2>2, Zenon
  <2>5. \A y, z \in Seq(Nat) : y \o z \in Seq(Nat)
    OBVIOUS
  <2> QED BY <2>2, <2>3, <2>4, <2>5, Zenon
<1>4. i # 0 => i - 1 \in Nat /\ i = (i - 1) + 1
  OBVIOUS
<1> QED BY <1>2, <1>3, <1>4

\* Two texts, one behind the other.
Followed(u, v) == u \o v

\* The bytes from offset i up to offset j.
Stretch(x, i, j) == SubSeq(x, i + 1, j)

LEMMA StretchGrows ==
  ASSUME NEW x \in Seq(Nat), NEW i \in Nat
  PROVE  /\ SubSeq(x, i + 1, i) = <<>>
         /\ \A l \in Nat : i <= l /\ l <= Len(x) => SubSeq(x, i + 1, l) \in Seq(Nat)
         /\ \A l \in Nat : i <= l /\ l < Len(x) =>
              SubSeq(x, i + 1, l + 1) = SubSeq(x, i + 1, l) \o <<x[l + 1]>>
<1>1. SubSeq(x, i + 1, i) = <<>>
  OBVIOUS
<1>2. ASSUME NEW l \in Nat, i <= l, l <= Len(x) PROVE SubSeq(x, i + 1, l) \in Seq(Nat)
  <2>1. \A k \in i + 1 .. l : x[k] \in Nat
    BY <1>2
  <2> QED BY <1>2, <2>1, SubSeqProperties
<1>3. ASSUME NEW l \in Nat, i <= l, l < Len(x)
      PROVE  SubSeq(x, i + 1, l + 1) = SubSeq(x, i + 1, l) \o <<x[l + 1]>>
  BY <1>3
<1> QED BY <1>1, <1>2, <1>3, Zenon

LEMMA TextsAssociative ==
  ASSUME NEW u \in Seq(Nat), NEW v \in Seq(Nat), NEW w \in Seq(Nat)
  PROVE  (u \o v) \o w = u \o (v \o w)
OBVIOUS

\* A stretch that is neither replaced nor dropped is copied.
LEMMA EditedCopies ==
  ASSUME NEW x \in Seq(Nat), NEW rep, NEW drop, NEW repl \in Seq(Nat),
         NEW i \in Nat, NEW j \in Nat, i <= j, j <= Len(x),
         \A k \in i + 1 .. j : k \notin rep /\ k \notin drop
  PROVE  EditedTo(x, rep, drop, repl, j)
           = Followed(EditedTo(x, rep, drop, repl, i), Stretch(x, i, j))
<1> DEFINE G(m) == EditedTo(x, rep, drop, repl, m)
           T(m) == SubSeq(x, i + 1, m)
           Bad == {m \in i .. j : G(m) # G(i) \o T(m)}
<1>1. G(i) \in Seq(Nat)
  BY EditedType
<1>2. /\ T(i) = <<>>
      /\ \A l \in Nat : i <= l /\ l <= Len(x) => T(l) \in Seq(Nat)
      /\ \A l \in Nat : i <= l /\ l < Len(x) => T(l + 1) = T(l) \o <<x[l + 1]>>
  BY StretchGrows
<1>3. ASSUME Bad # {} PROVE FALSE
  <2>1. PICK m \in Bad : \A k \in Bad : m <= k
    <3> Bad \subseteq Nat
      OBVIOUS
    <3> HIDE DEF Bad
    <3> QED BY <1>3, LeastNumber
  <2>2. m \in i .. j /\ G(m) # G(i) \o T(m)
    OBVIOUS
  <2>3. m # i
    <3>1. \A y \in Seq(Nat) : y \o <<>> = y
      OBVIOUS
    <3> HIDE DEF G, T
    <3> QED BY <1>1, <1>2, <2>2, <3>1
  <2>4. PICK l \in Nat : m = l + 1 /\ l \in i .. j
    <3>1. m - 1 \in Nat /\ m = (m - 1) + 1 /\ m - 1 \in i .. j
      BY <2>2, <2>3
    <3> QED BY <3>1
  <2>5. G(l) = G(i) \o T(l)
    <3>1. ~(m <= l)
      BY ONLY <2>4
    <3>2. l \notin Bad
      <4> HIDE DEF Bad
      <4> QED BY ONLY <2>1, <3>1
    <3> HIDE DEF G, T
    <3> QED BY ONLY <2>4, <3>2, Zenon DEF Bad
  <2>6. G(m) = G(l) \o <<x[m]>>
    <3>1. l < Len(x) /\ m \notin rep /\ m \notin drop
      BY <2>2, <2>4
    <3>2. G(l + 1) = G(l) \o Piece(x, rep, drop, repl, l + 1)
      BY <3>1, EditedNext, SMTT(40), ZenonT(40)
    <3>3. Piece(x, rep, drop, repl, m) = <<x[m]>>
      BY <3>1 DEF Piece
    <3> HIDE DEF G
    <3> QED BY <2>4, <3>2, <3>3, Zenon
  <2>7. i <= l /\ l < Len(x) /\ l <= Len(x) /\ m \in 1 .. Len(x)
    <3>1. Len(x) \in Nat
      OBVIOUS
    <3> HIDE DEF G, T, Bad
    <3> QED BY <2>2, <2>4, <3>1
  <2>8. T(m) = T(l) \o <<x[m]>> /\ T(l) \in Seq(Nat) /\ <<x[m]>> \in Seq(Nat)
    <3>1. x[m] \in Nat
      BY <2>7
    <3>2. <<x[m]>> \in Seq(Nat)
      BY <3>1
    <3> HIDE DEF T
    <3> QED BY <1>2, <2>4, <2>7, <3>2
  <2>9. ASSUME NEW u \in Seq(Nat), NEW v \in Seq(Nat), NEW w \in Seq(Nat)
        PROVE  (u \o v) \o w = u \o (v \o w)
    BY TextsAssociative, SMTT(40), ZenonT(40)
  <2>10. (G(i) \o T(l)) \o <<x[m]>> = G(i) \o (T(l) \o <<x[m]>>)
    <3> HIDE DEF G, T
    <3> QED BY <1>1, <2>8, <2>9, Zenon
  <2> HIDE DEF G, T, Bad
  <2> QED BY <2>2, <2>5, <2>6, <2>8, <2>10, Zenon
<1>4. j \in i .. j /\ j \notin Bad
  <2> HIDE DEF Bad
  <2> QED BY <1>3
<1> QED BY <1>4 DEF Stretch, Followed

\* A stretch that is dropped adds nothing.
LEMMA EditedDrops ==
  ASSUME NEW x \in Seq(Nat), NEW rep, NEW drop, NEW repl \in Seq(Nat),
         NEW i \in Nat, NEW j \in Nat, i <= j, j <= Len(x),
         \A k \in i + 1 .. j : k \notin rep /\ k \in drop
  PROVE  EditedTo(x, rep, drop, repl, j) = EditedTo(x, rep, drop, repl, i)
<1> DEFINE G(m) == EditedTo(x, rep, drop, repl, m)
           Bad == {m \in i .. j : G(m) # G(i)}
<1>2. ASSUME Bad # {} PROVE FALSE
  <2>1. PICK m \in Bad : \A k \in Bad : m <= k
    <3> Bad \subseteq Nat
      OBVIOUS
    <3> HIDE DEF Bad
    <3> QED BY <1>2, LeastNumber
  <2>2. m \in i .. j /\ G(m) # G(i)
    OBVIOUS
  <2>3. m # i
    BY <2>2
  <2>4. PICK l \in Nat : m = l + 1 /\ l \in i .. j
    <3>1. m - 1 \in Nat /\ m = (m - 1) + 1 /\ m - 1 \in i .. j
      BY <2>2, <2>3
    <3> QED BY <3>1
  <2>5. G(l) = G(i)
    <3>1. ~(m <= l)
      BY ONLY <2>4
    <3>2. l \notin Bad
      <4> HIDE DEF Bad
      <4> QED BY ONLY <2>1, <3>1
    <3> HIDE DEF G
    <3> QED BY ONLY <2>4, <3>2, Zenon DEF Bad
  <2>6. G(m) = G(l)
    <3>1. l < Len(x) /\ m \notin rep /\ m \in drop
      BY <2>2, <2>4
    <3>2. G(l + 1) = G(l) \o Piece(x, rep, drop, repl, l + 1) /\ G(l) \in Seq(Nat)
      BY <3>1, EditedNext, SMTT(40), ZenonT(40)
    <3>3. Piece(x, rep, drop, repl, m) = <<>>
      BY <3>1 DEF Piece
    <3>4. \A y \in Seq(Nat) : y \o <<>> = y
      OBVIOUS
    <3> HIDE DEF G
    <3> QED BY <2>4, <3>2, <3>3, <3>4, Zenon
  <2> QED BY <2>2, <2>5, <2>6
<1>3. j \in i .. j /\ j \notin Bad
  BY <1>2, SMTT(40), ZenonT(40)
<1> QED BY <1>3

----------------------------------------------------------------------------
(* Which bytes each function replaces and which it drops. *)

InSet(x, patt) == {k \in DOMAIN x : x[k] \in ToSet(patt)}

Found(x, patt) ==
  {k \in 1 .. Len(x) - Len(patt) + 1 : SubSeq(x, k, k + Len(patt) - 1) = patt}
After(patt, k) == k + 1 .. k + Len(patt) - 1

\* Of the occurrences f, those that overlap no earlier one that is chosen.
Choice(f, patt, m) == m \in SUBSET f /\ \A k \in f : k \in m <=> \A j \in m : k \notin After(patt, j)
Chosen(x, patt) == CHOOSE m \in SUBSET Found(x, patt) :
  \A k \in Found(x, patt) : k \in m <=> \A j \in m : k \notin After(patt, j)

Rep(fn, x, patt) ==
  CASE fn = "substring" -> Chosen(x, patt)
    [] fn = "chars"     -> InSet(x, patt)
    [] fn = "spans"     -> {k \in InSet(x, patt) : k - 1 \notin InSet(x, patt)}

Drop(fn, x, patt) ==
  CASE fn = "substring" -> UNION {After(patt, k) : k \in Chosen(x, patt)}
    [] fn = "chars"     -> {}
    [] fn = "spans"     -> InSet(x, patt)

LEMMA ExpectedIs ==
  ASSUME NEW fn \in {"substring", "chars", "spans"}, NEW x \in Seq(Nat), NEW patt \in Seq(Nat),
         x # <<>>, patt # <<>>, NEW repl
  PROVE  Expected(fn, x, patt, repl)
           = [text |-> EditedTo(x, Rep(fn, x, patt), Drop(fn, x, patt), repl, Len(x)),
              nrep |-> Cardinality(Rep(fn, x, patt))]
<1>1. Expected(fn, x, patt, repl) = Edited(x, Rep(fn, x, patt), Drop(fn, x, patt), repl)
  <2>1. CASE fn = "substring"
    <3>1. Expected(fn, x, patt, repl) = EditSubstring(x, patt, repl)
      BY <2>1 DEF Expected
    <3>2. Rep(fn, x, patt) = Chosen(x, patt)
          /\ Drop(fn, x, patt) = UNION {After(patt, k) : k \in Chosen(x, patt)}
      BY <2>1 DEF Rep, Drop
    <3>3. EditSubstring(x, patt, repl)
            = Edited(x, Chosen(x, patt), UNION {After(patt, k) : k \in Chosen(x, patt)}, repl)
      BY Zenon DEF EditSubstring, Chosen, After, Found
    <3> QED BY <3>1, <3>2, <3>3, Zenon
  <2>2. CASE fn = "chars"
    <3>1. Expected(fn, x, patt, repl) = EditChars(x, ToSet(patt), repl)
      BY <2>2 DEF Expected
    <3>2. Rep(fn, x, patt) = InSet(x, patt) /\ Drop(fn, x, patt) = {}
      BY <2>2 DEF Rep, Drop
    <3> QED BY <3>1, <3>2, Zenon DEF EditChars, InSet
  <2>3. CASE fn = "spans"
    <3>1. Expected(fn, x, patt, repl) = EditSpans(x, ToSet(patt), repl)
      BY <2>3 DEF Expected
    <3>2. Rep(fn, x, patt) = {k \in InSet(x, patt) : k - 1 \notin InSet(x, patt)}
          /\ Drop(fn, x, patt) = InSet(x, patt)
      BY <2>3 DEF Rep, Drop
    <3> QED BY <3>1, <3>2, Zenon DEF EditSpans, InSet
  <2> QED BY <2>1, <2>2, <2>3
<1> QED BY <1>1, EditedIs, Zenon

\* Walking from the front, an occurrence is chosen unless it overlaps one that
\* has been: so a choice exists.
LEMMA ChosenExists ==
  ASSUME NEW x \in Seq(Nat), NEW patt \in Seq(Nat), patt # <<>>
  PROVE  Choice(Found(x, patt), patt, Chosen(x, patt))
<1> DEFINE F == Found(x, patt)
           Good(n) == \E m : Choice(F \cap 1 .. n, patt, m)
           Bad == {n \in Nat : ~Good(n)}
<1>1. Len(x) \in Nat /\ Len(patt) \in Nat /\ Len(patt) > 0
  OBVIOUS
<1>2. F \subseteq 1 .. Len(x)
  BY <1>1 DEF Found
<1>3. \A j \in Nat : \A k \in After(patt, j) : k \in Nat /\ j < k
  BY <1>1 DEF After
<1>4. Good(0)
  <2>1. F \cap 1 .. 0 = {}
    OBVIOUS
  <2>2. Choice({}, patt, {})
    BY DEF Choice
  <2> QED BY <2>1, <2>2
<1>5. ASSUME NEW n \in Nat, Good(n) PROVE Good(n + 1)
  <2>1. PICK m : Choice(F \cap 1 .. n, patt, m)
    BY <1>5
  <2>2. m \subseteq F \cap 1 .. n
    BY <2>1 DEF Choice
  <2>3. \A j \in m : j \in Nat /\ j < n + 1 /\ j \in F
    BY <2>2
  <2>4. CASE n + 1 \in F /\ \A j \in m : n + 1 \notin After(patt, j)
    <3> DEFINE M == m \cup {n + 1}
    <3>1. M \subseteq F \cap 1 .. n + 1
      BY <2>2, <2>4
    <3>2. ASSUME NEW k \in F \cap 1 .. n + 1
          PROVE  k \in M <=> \A j \in M : k \notin After(patt, j)
      <4>1. k \notin After(patt, n + 1)
        BY <1>3
      <4>2. CASE k = n + 1
        BY <2>4, <4>1, <4>2
      <4>3. CASE k # n + 1
        <5>1. k \in F \cap 1 .. n
          BY <4>3
        <5>2. k \in m <=> \A j \in m : k \notin After(patt, j)
          BY <2>1, <5>1 DEF Choice
        <5> QED BY <4>1, <4>3, <5>2
      <4> QED BY <4>2, <4>3
    <3>3. Choice(F \cap 1 .. n + 1, patt, M)
      <4> HIDE DEF M, F
      <4> QED BY <3>1, <3>2 DEF Choice
    <3> QED BY <3>3
  <2>5. CASE ~(n + 1 \in F /\ \A j \in m : n + 1 \notin After(patt, j))
    <3>1. m \subseteq F \cap 1 .. n + 1
      BY <2>2
    <3>2. ASSUME NEW k \in F \cap 1 .. n + 1
          PROVE  k \in m <=> \A j \in m : k \notin After(patt, j)
      <4>1. CASE k = n + 1
        BY <2>3, <2>5, <4>1
      <4>2. CASE k # n + 1
        <5>1. k \in F \cap 1 .. n
          BY <4>2
        <5> QED BY <2>1, <5>1 DEF Choice
      <4> QED BY <4>1, <4>2
    <3>3. Choice(F \cap 1 .. n + 1, patt, m)
      <4> HIDE DEF F
      <4> QED BY <3>1, <3>2 DEF Choice
    <3> QED BY <3>3
  <2> QED BY <2>4, <2>5
<1>6. Good(Len(x))
  <2> SUFFICES ASSUME Bad # {} PROVE FALSE
    BY <1>1
  <2>1. PICK n \in Bad : \A k \in Bad : n <= k
    <3> Bad \subseteq Nat
      OBVIOUS
    <3> HIDE DEF Bad
    <3> QED BY LeastNumber
  <2>2. n # 0 /\ n \in Nat /\ ~Good(n)
    <3> HIDE DEF Good
    <3> QED BY <1>4
  <2> HIDE DEF Good
  <2>3. PICK l \in Nat : n = l + 1
    <3>1. n - 1 \in Nat /\ n = (n - 1) + 1
      BY <2>2
    <3> QED BY <3>1
  <2>4. Good(l)
    <3>1. ~(n <= l)
      BY <2>3
    <3> QED BY <2>1, <3>1
  <2> QED BY <1>5, <2>2, <2>3, <2>4
<1>7. F \cap 1 .. Len(x) = F
  <2> HIDE DEF F
  <2> QED BY <1>2
<1>8. \E m : Choice(F, patt, m)
  BY <1>6, <1>7
<1> QED BY <1>8, Zenon DEF Choice, Chosen

----------------------------------------------------------------------------
(* The walk meets the bytes that are replaced one after the other. *)

\* At offset s a new search begins: nothing that is replaced lies across it.
Boundary(fn, x, patt, s) ==
  CASE fn = "substring" -> \A k \in Chosen(x, patt) : k <= s => k + Len(patt) - 1 <= s
    [] fn = "chars"     -> TRUE
    [] fn = "spans"     -> s = 0 \/ s + 1 \notin InSet(x, patt)

\* From s up to p nothing is replaced and nothing is dropped.
Plain(fn, x, patt, s, p) ==
  \A k \in s + 1 .. p : k \notin Rep(fn, x, patt) /\ k \notin Drop(fn, x, patt)

FindsNext(fn, x, patt, s) ==
  IF fn = "substring" THEN memmem(x, s, patt) ELSE bitset_search(x, bitset_init(patt), s)

LEMMA SearchFinds ==
  ASSUME NEW fn \in {"substring", "chars", "spans"}, NEW x \in Seq(Nat), NEW patt \in Seq(Nat),
         patt # <<>>, NEW s \in Nat, s <= Len(x), Boundary(fn, x, patt, s),
         NEW p, p = FindsNext(fn, x, patt, s)
  PROVE  /\ p \in Nat /\ s <= p /\ p <= Len(x)
         /\ Plain(fn, x, patt, s, p)
         /\ p < Len(x) => /\ p + 1 \in Rep(fn, x, patt)
                          /\ fn = "substring" => p + Len(patt) <= Len(x)
<1>1. Len(x) \in Nat /\ Len(patt) \in Nat /\ Len(patt) > 0 /\ DOMAIN x = 1 .. Len(x)
  OBVIOUS
<1>2. CASE fn = "substring"
  <2> DEFINE C == Chosen(x, patt)
  <2>1. /\ p \in Nat /\ s <= p /\ p <= Len(x)
        /\ p < Len(x) => HasAt(x, p, patt)
        /\ \A q \in s .. p - 1 : ~HasAt(x, q, patt)
    BY <1>2, MemmemResult DEF FindsNext
  <2>2. C \subseteq Found(x, patt)
        /\ \A k \in Found(x, patt) : k \in C <=> \A j \in C : k \notin After(patt, j)
    BY ChosenExists DEF Choice
  <2>3. \A k \in C : k <= s => k + Len(patt) - 1 <= s
    BY <1>2 DEF Boundary
  <2>4. \A k \in Nat \ {0} : k \in Found(x, patt) <=> HasAt(x, k - 1, patt)
    <3>1. ASSUME NEW k \in Nat \ {0} PROVE k \in Found(x, patt) <=> HasAt(x, k - 1, patt)
      <4>1. k - 1 + 1 = k /\ k - 1 + Len(patt) = k + Len(patt) - 1
        BY <1>1
      <4>2. k \in 1 .. Len(x) - Len(patt) + 1 <=> k - 1 + Len(patt) <= Len(x)
        BY <1>1
      <4> QED BY <4>1, <4>2 DEF Found, HasAt
    <3> QED BY <3>1
  <2>5. \A k \in C : k \in Nat \ {0} /\ k <= Len(x) /\ ~(s < k /\ k <= p)
    <3>1. ASSUME NEW k \in C, s < k, k <= p PROVE FALSE
      <4>1. k \in Nat \ {0} /\ k \in Found(x, patt)
        BY <2>2 DEF Found
      <4>2. k - 1 \in s .. p - 1
        BY <2>1, <3>1, <4>1
      <4> QED BY <2>1, <2>4, <4>1, <4>2
    <3>2. \A k \in Found(x, patt) : k \in Nat \ {0} /\ k <= Len(x)
      BY <1>1 DEF Found
    <3> HIDE DEF C
    <3> QED BY <2>2, <3>1, <3>2
  <2>6. ASSUME NEW k \in Nat, s < k, k <= p + 1, NEW j \in C PROVE k \notin After(patt, j)
    <3>1. CASE k <= j
      BY <1>1, <2>5, <3>1 DEF After
    <3>2. CASE j < k
      <4>1. j <= s
        BY <2>1, <2>5, <2>6, <3>2
      <4>2. j + Len(patt) - 1 <= s
        BY <2>3, <4>1
      <4> QED BY <1>1, <2>5, <2>6, <4>2 DEF After
    <3> QED BY <2>5, <3>1, <3>2
  <2>7. Rep(fn, x, patt) = C /\ Drop(fn, x, patt) = UNION {After(patt, k) : k \in C}
    BY <1>2 DEF Rep, Drop
  <2>8. Plain(fn, x, patt, s, p)
    <3>1. ASSUME NEW k \in s + 1 .. p PROVE k \notin C /\ k \notin UNION {After(patt, j) : j \in C}
      <4>1. k \in Nat /\ s < k /\ k <= p /\ k <= p + 1
        BY <2>1
      <4> HIDE DEF C
      <4> QED BY <2>5, <2>6, <4>1
    <3> HIDE DEF C
    <3> QED BY <2>7, <3>1 DEF Plain
  <2>9. ASSUME p < Len(x) PROVE p + 1 \in C /\ p + Len(patt) <= Len(x)
    <3>1. p + 1 \in Nat \ {0} /\ p + 1 - 1 = p /\ s < p + 1 /\ p + 1 <= p + 1
      BY <2>1
    <3>2. p + 1 \in Found(x, patt)
      BY <2>1, <2>4, <2>9, <3>1
    <3>3. \A j \in C : p + 1 \notin After(patt, j)
      <4> HIDE DEF C
      <4> QED BY <2>6, <3>1
    <3>4. p + Len(patt) <= Len(x)
      BY <2>1, <2>9 DEF HasAt
    <3> HIDE DEF C
    <3> QED BY <2>2, <3>2, <3>3, <3>4
  <2> HIDE DEF C
  <2> QED BY <2>1, <2>7, <2>8, <2>9
<1>3. CASE fn \in {"chars", "spans"}
  <2>1. /\ p \in Nat /\ s <= p /\ p <= Len(x)
        /\ p < Len(x) => x[p + 1] \in ToSet(patt)
        /\ \A q \in s .. p - 1 : x[q + 1] \notin ToSet(patt)
    <3>1. p = bitset_search(x, ToSet(patt), s)
      BY <1>3 DEF FindsNext, bitset_init
    <3> QED BY <3>1, SearchResult
  <2>2. \A k \in s + 1 .. p : k \notin InSet(x, patt)
    <3>1. ASSUME NEW k \in s + 1 .. p PROVE k \notin InSet(x, patt)
      <4>1. k - 1 \in s .. p - 1 /\ k - 1 + 1 = k
        BY <2>1
      <4>2. x[k - 1 + 1] \notin ToSet(patt)
        BY <2>1, <4>1
      <4> QED BY <4>1, <4>2 DEF InSet
    <3> QED BY <3>1
  <2>3. p < Len(x) => p + 1 \in InSet(x, patt)
    BY <1>1, <2>1 DEF InSet
  <2>4. CASE fn = "chars"
    BY <2>1, <2>2, <2>3, <2>4 DEF Rep, Drop, Plain
  <2>5. CASE fn = "spans"
    <3>1. s = 0 \/ s + 1 \notin InSet(x, patt)
      BY <2>5 DEF Boundary
    <3>2. Rep(fn, x, patt) = {k \in InSet(x, patt) : k - 1 \notin InSet(x, patt)}
          /\ Drop(fn, x, patt) = InSet(x, patt)
      BY <2>5 DEF Rep, Drop
    <3>3. ASSUME p < Len(x) PROVE p \notin InSet(x, patt)
      <4>1. CASE p = s
        <5>1. p = 0
          BY <2>3, <3>1, <3>3, <4>1
        <5> QED BY <1>1, <5>1 DEF InSet
      <4>2. CASE p # s
        <5>1. p \in s + 1 .. p
          BY <2>1, <4>2
        <5> QED BY <2>2, <5>1
      <4> QED BY <4>1, <4>2
    <3>4. p < Len(x) => p + 1 \in Rep(fn, x, patt)
      <4>1. PICK q \in Nat : q = p + 1 /\ q - 1 = p
        BY <2>1
      <4>2. p < Len(x) => q \in Rep(fn, x, patt)
        BY <2>3, <3>2, <3>3, <4>1
      <4> QED BY <4>1, <4>2
    <3>5. Plain(fn, x, patt, s, p)
      BY <2>2, <3>2 DEF Plain
    <3> QED BY <2>1, <2>5, <3>4, <3>5
  <2> QED BY <1>3, <2>4, <2>5
<1> QED BY <1>2, <1>3

\* Where the replaced bytes end that begin behind offset p.
EndsAt(fn, x, patt, p) ==
  CASE fn = "substring" -> p + Len(patt)
    [] fn = "chars"     -> p + 1
    [] fn = "spans"     -> bitset_span(x, bitset_init(patt), p + 1)

LEMMA SkipsTo ==
  ASSUME NEW fn \in {"substring", "chars", "spans"}, NEW x \in Seq(Nat), NEW patt \in Seq(Nat),
         patt # <<>>, NEW s \in Nat, Boundary(fn, x, patt, s), NEW p \in Nat, s <= p, p < Len(x),
         fn = "substring" => p + Len(patt) <= Len(x),
         Plain(fn, x, patt, s, p), p + 1 \in Rep(fn, x, patt),
         NEW e, e = EndsAt(fn, x, patt, p)
  PROVE  /\ e \in Nat /\ p + 1 <= e /\ e <= Len(x)
         /\ \A k \in p + 2 .. e : k \notin Rep(fn, x, patt) /\ k \in Drop(fn, x, patt)
         /\ Boundary(fn, x, patt, e)
<1>1. Len(x) \in Nat /\ Len(patt) \in Nat /\ Len(patt) > 0 /\ DOMAIN x = 1 .. Len(x)
  OBVIOUS
<1>2. CASE fn = "substring"
  <2> DEFINE C == Chosen(x, patt)
  <2>1. C \subseteq Found(x, patt)
        /\ \A k \in Found(x, patt) : k \in C <=> \A j \in C : k \notin After(patt, j)
    BY ChosenExists DEF Choice
  <2>2. \A k \in C : k <= s => k + Len(patt) - 1 <= s
    BY <1>2 DEF Boundary
  <2>3. Rep(fn, x, patt) = C /\ Drop(fn, x, patt) = UNION {After(patt, k) : k \in C}
    BY <1>2 DEF Rep, Drop
  <2>4. e = p + Len(patt) /\ e \in Nat /\ p + 1 <= e /\ e <= Len(x)
    BY <1>1, <1>2 DEF EndsAt
  <2>5. ASSUME NEW k \in p + 2 .. e PROVE k \notin C /\ k \in UNION {After(patt, j) : j \in C}
    <3>1. k \in After(patt, p + 1)
      BY <1>1, <2>4 DEF After
    <3> HIDE DEF C
    <3> QED BY <2>1, <2>3, <3>1
  <2>6. ASSUME NEW k \in C, k <= e PROVE k + Len(patt) - 1 <= e
    <3>1. k \in Nat
      BY <2>1 DEF Found
    <3>2. CASE k <= s
      BY <1>1, <2>2, <2>4, <3>1, <3>2
    <3>3. CASE s < k /\ k <= p
      <4>1. k \in s + 1 .. p
        BY <3>1, <3>3
      <4>2. FALSE
        BY <2>3, <4>1 DEF Plain
      <4> QED BY <4>2
    <3>4. CASE k = p + 1
      BY <1>1, <2>4, <3>4
    <3>5. CASE p + 2 <= k
      <4>1. k \in p + 2 .. e
        BY <2>6, <3>1, <3>5
      <4> QED BY <2>5, <4>1
    <3> QED BY <3>1, <3>2, <3>3, <3>4, <3>5
  <2>7. Boundary(fn, x, patt, e)
    BY <1>2, <2>6 DEF Boundary
  <2> HIDE DEF C
  <2> QED BY <2>3, <2>4, <2>5, <2>7
<1>3. CASE fn = "chars"
  <2>1. e = p + 1 /\ p + 1 \in Nat /\ p + 2 .. e = {}
    BY <1>3 DEF EndsAt
  <2> QED BY <1>1, <1>3, <2>1 DEF Boundary
<1>4. CASE fn = "spans"
  <2>1. p + 1 \in Nat /\ p + 1 <= Len(x)
    BY <1>1
  <2>2. e = bitset_span(x, ToSet(patt), p + 1)
    BY <1>4 DEF EndsAt, bitset_init
  <2>3. /\ e \in Nat /\ p + 1 <= e /\ e <= Len(x)
        /\ e < Len(x) => x[e + 1] \notin ToSet(patt)
        /\ \A q \in p + 1 .. e - 1 : x[q + 1] \in ToSet(patt)
    BY <2>1, <2>2, SpanResult
  <2>4. Rep(fn, x, patt) = {k \in InSet(x, patt) : k - 1 \notin InSet(x, patt)}
        /\ Drop(fn, x, patt) = InSet(x, patt)
    BY <1>4 DEF Rep, Drop
  <2>5. ASSUME NEW k \in p + 1 .. e PROVE k \in InSet(x, patt)
    <3>1. CASE k = p + 1
      BY <2>4, <3>1
    <3>2. CASE k # p + 1
      <4>1. k - 1 \in p + 1 .. e - 1 /\ k - 1 + 1 = k /\ k \in 1 .. Len(x)
        BY <1>1, <2>3, <3>2
      <4>2. x[k - 1 + 1] \in ToSet(patt)
        BY <2>3, <4>1
      <4> QED BY <1>1, <4>1, <4>2 DEF InSet
    <3> QED BY <3>1, <3>2
  <2>6. ASSUME NEW k \in p + 2 .. e PROVE k \notin Rep(fn, x, patt) /\ k \in Drop(fn, x, patt)
    <3>1. k \in p + 1 .. e /\ k - 1 \in p + 1 .. e
      BY <2>3
    <3>2. k \in InSet(x, patt) /\ k - 1 \in InSet(x, patt)
      BY <2>5, <3>1
    <3> QED BY <2>4, <3>2
  <2>7. e + 1 \notin InSet(x, patt)
    BY <1>1, <2>3 DEF InSet
  <2> QED BY <1>4, <2>3, <2>6, <2>7 DEF Boundary
<1> QED BY <1>2, <1>3, <1>4

\* What one round of the loop adds: the bytes up to p, then the replacement
\* for the bytes up to e.
LEMMA RoundAdds ==
  ASSUME NEW x \in Seq(Nat), NEW rep, NEW drop, NEW repl \in Seq(Nat),
         NEW p \in Nat, NEW e \in Nat, p < Len(x), p + 1 <= e, e <= Len(x), p + 1 \in rep,
         \A k \in p + 2 .. e : k \notin rep /\ k \in drop
  PROVE  EditedTo(x, rep, drop, repl, e) = Followed(EditedTo(x, rep, drop, repl, p), repl)
<1>1. EditedTo(x, rep, drop, repl, p + 1)
        = EditedTo(x, rep, drop, repl, p) \o Piece(x, rep, drop, repl, p + 1)
  BY EditedNext
<1>2. Piece(x, rep, drop, repl, p + 1) = repl
  BY DEF Piece
<1>3. PICK q \in Nat : q = p + 1 /\ q + 1 = p + 2
  OBVIOUS
<1>4. \A k \in q + 1 .. e : k \notin rep /\ k \in drop
  BY <1>3
<1>5. EditedTo(x, rep, drop, repl, e) = EditedTo(x, rep, drop, repl, q)
  BY <1>3, <1>4, EditedDrops
<1> QED BY <1>1, <1>2, <1>3, <1>5, Zenon DEF Followed

\* How many of the replaced bytes lie in front of an offset.
RepUpTo(rep, i) == Cardinality(rep \cap 1 .. i)

LEMMA RepType ==
  ASSUME NEW rep, NEW i \in Nat
  PROVE  IsFiniteSet(rep \cap 1 .. i) /\ RepUpTo(rep, i) \in Nat
<1>1. IsFiniteSet(1 .. i)
  BY FS_Interval
<1>2. rep \cap 1 .. i \in SUBSET (1 .. i)
  OBVIOUS
<1>3. IsFiniteSet(rep \cap 1 .. i)
  BY <1>1, <1>2, FS_Subset
<1> QED BY <1>3, FS_CardinalityType DEF RepUpTo

LEMMA RepNone ==
  ASSUME NEW rep, NEW i \in Nat, NEW j \in Nat, i <= j, \A k \in i + 1 .. j : k \notin rep
  PROVE  RepUpTo(rep, j) = RepUpTo(rep, i)
<1>1. rep \cap 1 .. j = rep \cap 1 .. i
  OBVIOUS
<1> QED BY <1>1, Zenon DEF RepUpTo

LEMMA RepOne ==
  ASSUME NEW rep, NEW p \in Nat, NEW e \in Nat, p + 1 <= e, p + 1 \in rep,
         \A k \in p + 2 .. e : k \notin rep
  PROVE  RepUpTo(rep, e) = RepUpTo(rep, p) + 1
<1>1. PICK q \in Nat : q = p + 1 /\ q + 1 = p + 2
  OBVIOUS
<1>2. RepUpTo(rep, e) = RepUpTo(rep, q)
  <2>1. \A k \in q + 1 .. e : k \notin rep
    BY <1>1
  <2> QED BY <1>1, <2>1, RepNone
<1>3. rep \cap 1 .. q = (rep \cap 1 .. p) \cup {q} /\ q \notin rep \cap 1 .. p
  BY <1>1
<1>4. Cardinality((rep \cap 1 .. p) \cup {q})
        = IF q \in rep \cap 1 .. p THEN Cardinality(rep \cap 1 .. p)
                                   ELSE Cardinality(rep \cap 1 .. p) + 1
  BY RepType, FS_AddElement
<1>5. RepUpTo(rep, q) = RepUpTo(rep, p) + 1
  BY <1>3, <1>4, Zenon DEF RepUpTo
<1> QED BY <1>2, <1>5, Zenon

LEMMA RepAll ==
  ASSUME NEW fn \in {"substring", "chars", "spans"}, NEW x \in Seq(Nat), NEW patt \in Seq(Nat),
         patt # <<>>
  PROVE  RepUpTo(Rep(fn, x, patt), Len(x)) = Cardinality(Rep(fn, x, patt))
<1>1. Len(x) \in Nat /\ Len(patt) \in Nat /\ Len(patt) > 0 /\ DOMAIN x = 1 .. Len(x)
  OBVIOUS
<1>2. Rep(fn, x, patt) \subseteq 1 .. Len(x)
  <2>1. Chosen(x, patt) \subseteq 1 .. Len(x)
    BY <1>1, ChosenExists DEF Choice, Found
  <2>2. InSet(x, patt) \subseteq 1 .. Len(x)
    BY <1>1 DEF InSet
  <2> QED BY <2>1, <2>2 DEF Rep
<1>3. Rep(fn, x, patt) \cap 1 .. Len(x) = Rep(fn, x, patt)
  BY <1>2
<1> QED BY <1>3, Zenon DEF RepUpTo

----------------------------------------------------------------------------
(* The invariant about memory: who owns what, and who may read what. *)

MemOK ==
  /\ Heaps(live, heap)
  /\ obj \in [{"dest", "other"} -> Object]
  /\ Sound(live, heap, obj.dest) /\ Sound(live, heap, obj.other)
  /\ obj.other.at \notin Freed(obj.dest)
  /\ Builder(live, heap, buff, count)
  /\ obj.dest.at \notin Freed(buff[0]) /\ obj.other.at \notin Freed(buff[0])
  /\ live = Freed(obj.dest) \cup Freed(obj.other) \cup Freed(buff[0])

CallType ==
  [fn : Fn \cup {"none"}, patt : Object, repl : Object, s : Nat, p : Nat, nrep : Nat,
   pc : {"idle", "search", "slice", "repl", "tail", "join", "assign", "done", "exited"}]

\* A string the builder's block may be given up under.
Safe(l, h, bs, s) == Sound(l, h, s) /\ s.at \notin Freed(bs[0])

CallOK ==
  /\ call \in CallType
  /\ call.pc = "idle" => count = 0
  /\ InCall => /\ call.fn \in Fn
               /\ Safe(live, heap, buff, call.patt) /\ Safe(live, heap, buff, call.repl)
               /\ obj.dest.len > 0
               /\ call.fn # "utf8" => call.patt.len > 0
               /\ call.s <= call.p /\ call.p <= obj.dest.len
  /\ call.pc \in {"slice", "repl"} =>
       /\ call.p < obj.dest.len
       /\ call.fn = "substring" => call.p + call.patt.len <= obj.dest.len
  /\ call.pc = "assign" => buff[0] = str_null \/ buff[0].own

MemInv == MemOK /\ CallOK

LEMMA BuilderOwns ==
  ASSUME NEW l, NEW h, NEW bs, NEW c, Heaps(l, h), Builder(l, h, bs, c)
  PROVE  /\ Freed(bs[0]) \subseteq l /\ NULL \notin Freed(bs[0])
         /\ bs[0] \in Object
         /\ bs[0] = str_null \/ Sound(l, h, bs[0])
<1>1. 0 \in Slot /\ c \in Nat /\ (c # 0 => 0 \in 0 .. c - 1)
  BY BuilderAssumption DEF Builder, Slot
<1>2. bs[0] = str_null \/ Sound(l, h, bs[0])
  BY <1>1 DEF Builder
<1>3. bs[0] \in Object
  BY <1>1 DEF Builder
<1>4. Freed(bs[0]) \subseteq l
  BY <1>2 DEF Sound, Freed, str_null
<1>5. l \subseteq Block /\ NULL \notin Block
  BY HeapAssumption DEF Heaps
<1> QED BY <1>2, <1>3, <1>4, <1>5

\* A step of the builder takes nothing from the program.
LEMMA BuilderMoves ==
  ASSUME MemOK, obj' = obj, Heaps(live', heap'), Builder(live', heap', buff', count'),
         Moved(live, heap, buff, live', heap', buff')
  PROVE  /\ MemOK'
         /\ \A s : Safe(live, heap, buff, s)
                     => Kept(live, heap, live', heap', s) /\ Safe(live', heap', buff', s)
         /\ Safe(live, heap, buff, obj.dest)
<1>1. \A s : Safe(live, heap, buff, s)
               => Kept(live, heap, live', heap', s) /\ Safe(live', heap', buff', s)
  BY DEF Moved, Safe, Kept
<1>2. Safe(live, heap, buff, obj.dest) /\ Safe(live, heap, buff, obj.other)
  BY DEF MemOK, Safe
<1>3. Safe(live', heap', buff', obj.dest) /\ Safe(live', heap', buff', obj.other)
  BY <1>1, <1>2
<1>4. live' = Freed(obj.dest) \cup Freed(obj.other) \cup Freed(buff'[0])
  <2>1. live' = (live \ Freed(buff[0])) \cup Freed(buff'[0])
    BY DEF Moved
  <2>2. /\ live = Freed(obj.dest) \cup Freed(obj.other) \cup Freed(buff[0])
        /\ obj.dest.at \notin Freed(buff[0]) /\ obj.other.at \notin Freed(buff[0])
    BY DEF MemOK
  <2>3. Freed(obj.dest) \subseteq {obj.dest.at} /\ Freed(obj.other) \subseteq {obj.other.at}
    BY DEF Freed
  <2> QED BY <2>1, <2>2, <2>3
<1>5. MemOK'
  <2>1. /\ obj \in [{"dest", "other"} -> Object]
        /\ obj.other.at \notin Freed(obj.dest)
    BY DEF MemOK
  <2> QED BY <1>3, <1>4, <2>1 DEF MemOK, Safe
<1> QED BY <1>1, <1>2, <1>5

LEMMA MemStays ==
  ASSUME MemOK, UNCHANGED <<live, heap, buff, count, obj>> PROVE MemOK'
BY DEF MemOK

\* sb_init, once the builder owns nothing.
LEMMA MemInit ==
  ASSUME MemOK, Freed(buff[0]) = {}, UNCHANGED <<live, heap, obj>>, sb_init
  PROVE  MemOK' /\ buff'[0] = str_null /\ Freed(buff'[0]) = {} /\ count' = 0
<1>1. /\ count' = 0 /\ buff' = [k \in Slot |-> str_null] /\ 0 \in Slot
  BY BuilderAssumption DEF sb_init, Slot
<1>2. Builder(live', heap', buff', count') /\ buff'[0] = str_null
  <2>1. str_null \in Object /\ ~str_null.own
    BY DEF str_null, Object
  <2>2. 0 .. count' - 1 = {} /\ 1 .. count' - 1 = {}
    BY <1>1
  <2>3. buff' \in [Slot -> Object] /\ \A k \in Slot : buff'[k] = str_null
    BY <1>1, <2>1
  <2> QED BY <1>1, <2>1, <2>2, <2>3 DEF Builder
<1>3. Freed(buff'[0]) = {}
  BY <1>2 DEF Freed, str_null
<1> QED BY <1>1, <1>2, <1>3 DEF MemOK

\* The slices of the destination that the loop appends.
LEMMA SliceSafe ==
  ASSUME MemOK, NEW i \in Nat, NEW j \in Nat, i <= j, j <= obj.dest.len
  PROVE  Safe(live, heap, buff, Slice(i, j))
<1>1. PICK n \in Nat : n = j - i /\ i + n <= obj.dest.len
  <2>1. obj.dest.len \in Nat
    BY ObjectFields DEF MemOK, Sound
  <2>2. j - i \in Nat /\ i + (j - i) <= obj.dest.len
    BY <2>1
  <2> QED BY <2>2
<1>2. Slice(i, j) = str_ref_mem(obj.dest.at, obj.dest.off + i, n)
  BY <1>1 DEF Slice
<1>3. Heaps(live, heap) /\ Sound(live, heap, obj.dest)
  BY DEF MemOK
<1>4. /\ Sound(live, heap, str_ref_mem(obj.dest.at, obj.dest.off + i, n))
      /\ str_ref_mem(obj.dest.at, obj.dest.off + i, n).at \in {obj.dest.at, NULL}
  BY <1>1, <1>3, PartSound
<1>5. obj.dest.at \notin Freed(buff[0]) /\ NULL \notin Freed(buff[0])
  BY BuilderOwns DEF MemOK
<1> QED BY <1>2, <1>4, <1>5 DEF Safe

\* What the program may pass can be read.
LEMMA ArgumentSound ==
  ASSUME MemOK
  PROVE  /\ \A a \in Arguments : Sound(live, heap, a)
         /\ \A a \in Literal : Sound(live, heap, str_lit(a))
<1>1. Heaps(live, heap) /\ Sound(live, heap, obj.dest) /\ Sound(live, heap, obj.other)
  BY DEF MemOK
<1>2. ASSUME NEW a \in Literal PROVE Sound(live, heap, str_lit(a))
  <2>1. LitText[a] \in Seq(Nat) /\ a \notin Block
    BY HeapAssumption
  <2>2. Len(LitText[a]) \in Nat /\ 0 + Len(LitText[a]) <= Len(LitText[a])
    BY <2>1
  <2>3. str_lit(a) \in Object
    BY <2>2 DEF str_lit, Object
  <2> QED BY <2>1, <2>2, <2>3 DEF Sound, str_lit, BytesIn
<1>3. ASSUME NEW s, Sound(live, heap, s), NEW i \in 0 .. s.len, NEW j \in 0 .. s.len
      PROVE  Sound(live, heap, str_ref_slice(s, i, j))
  <2>1. s.len \in Nat /\ i \in Nat /\ j \in Nat
    BY <1>3, ObjectFields DEF Sound
  <2>2. CASE j <= i \/ i >= s.len
    <3>1. str_ref_slice(s, i, j) = str_ref_mem(s.at, s.off + i, 0)
      BY <2>2 DEF str_ref_slice
    <3>2. str_ref_mem(s.at, s.off + i, 0) = str_null
      BY DEF str_ref_mem
    <3> QED BY <3>1, <3>2, NullSound
  <2>3. CASE ~(j <= i \/ i >= s.len)
    <3>1. PICK n \in Nat : n = j - i /\ i + n <= s.len
      <4>1. j - i \in Nat /\ i + (j - i) <= s.len
        BY <2>1, <2>3
      <4> QED BY <4>1
    <3>2. str_ref_slice(s, i, j) = str_ref_mem(s.at, s.off + i, n)
      BY <2>1, <2>3, <3>1 DEF str_ref_slice
    <3>3. Sound(live, heap, str_ref_mem(s.at, s.off + i, n))
      BY <1>1, <1>3, <2>1, <3>1, PartSound
    <3> QED BY <3>2, <3>3
  <2> QED BY <2>2, <2>3
<1> QED BY <1>1, <1>2, <1>3 DEF Arguments, SlicesOf

LEMMA BuilderAppends ==
  ASSUME MemOK, NEW s, Safe(live, heap, buff, s), sb_append(s), obj' = obj
  PROVE  /\ MemOK'
         /\ \A t : Safe(live, heap, buff, t)
                     => Kept(live, heap, live', heap', t) /\ Safe(live', heap', buff', t)
         /\ PiecesIn(heap', buff', count') = PiecesIn(heap, buff, count) \o TextIn(heap, s)
<1>1. /\ Heaps(live, heap) /\ Builder(live, heap, buff, count)
      /\ Sound(live, heap, s) /\ s.at \notin Freed(buff[0])
  BY DEF MemOK, Safe
<1>2. /\ Heaps(live', heap') /\ Builder(live', heap', buff', count')
      /\ PiecesIn(heap', buff', count') = PiecesIn(heap, buff, count) \o TextIn(heap, s)
      /\ Moved(live, heap, buff, live', heap', buff')
  BY <1>1, AppendStep
<1> QED BY <1>2, BuilderMoves

LEMMA BuilderJoins ==
  ASSUME MemOK, sb_join, obj' = obj
  PROVE  /\ MemOK'
         /\ \A t : Safe(live, heap, buff, t)
                     => Kept(live, heap, live', heap', t) /\ Safe(live', heap', buff', t)
         /\ TextIn(heap', buff'[0]) = PiecesIn(heap, buff, count)
         /\ \/ buff'[0] = str_null /\ PiecesIn(heap, buff, count) = <<>>
            \/ /\ buff'[0].own
               /\ heap'[buff'[0].at] = Append(PiecesIn(heap, buff, count), 0)
<1>1. Heaps(live, heap) /\ Builder(live, heap, buff, count)
  BY DEF MemOK
<1>2. PICK text : text = PiecesIn(heap, buff, count)
  OBVIOUS
<1>3. /\ Heaps(live', heap') /\ Builder(live', heap', buff', count')
      /\ Moved(live, heap, buff, live', heap', buff')
      /\ TextIn(heap', buff'[0]) = text
      /\ \/ buff'[0] = str_null /\ text = <<>>
         \/ buff'[0].own /\ heap'[buff'[0].at] = Append(text, 0)
  BY <1>1, <1>2, JoinStep
<1> QED BY <1>2, <1>3, BuilderMoves

\* The destination's text, which the loop walks over.
LEMMA InputIs ==
  ASSUME MemOK
  PROVE  /\ Input \in Seq(Nat) /\ Len(Input) = obj.dest.len /\ End = obj.dest.len
         /\ Input = TextIn(heap, obj.dest) /\ obj.dest.len \in Nat
<1>1. Heaps(live, heap) /\ Sound(live, heap, obj.dest)
  BY DEF MemOK
<1>2. TextIn(heap, obj.dest) \in Seq(Nat) /\ Len(TextIn(heap, obj.dest)) = obj.dest.len
  BY <1>1, TextLength
<1>3. Input = TextIn(heap, obj.dest)
  BY TextIsIn DEF Input
<1>4. obj.dest.len \in Nat
  BY <1>1, ObjectFields DEF Sound
<1> QED BY <1>2, <1>3, <1>4 DEF End

\* What is decoded at offset p lies in front of the end.
LEMMA DecodesInside ==
  ASSUME MemOK, NEW p \in Nat, p < obj.dest.len,
         NEW r, r = str_decode_utf8(From(Input, p + 1))
  PROVE  /\ p + r.num_bytes \in Nat /\ p < p + r.num_bytes /\ p + r.num_bytes <= obj.dest.len
         /\ p + ReplaceStep(r) \in Nat /\ p < p + ReplaceStep(r)
         /\ p + ReplaceStep(r) <= obj.dest.len
<1>1. Input \in Seq(Nat) /\ Len(Input) = obj.dest.len /\ obj.dest.len \in Nat
  BY InputIs
<1>2. PICK x : x = From(Input, p + 1)
  OBVIOUS
<1>3. x \in Seq(Nat) /\ Len(x) = obj.dest.len - p
  <2>1. ASSUME NEW y \in Seq(Nat), p < Len(y)
        PROVE  SubSeq(y, p + 1, Len(y)) \in Seq(Nat) /\ Len(SubSeq(y, p + 1, Len(y))) = Len(y) - p
    <3>1. PICK m \in 1 .. Len(y) + 1 : m = p + 1
      BY <2>1
    <3>2. PICK n \in m - 1 .. Len(y) : n = Len(y)
      BY <2>1, <3>1
    <3>3. SubSeq(y, m, n) \in Seq(Nat) /\ Len(SubSeq(y, m, n)) = n - m + 1
      BY <2>1, <3>1, <3>2, SubSeqProperties
    <3>4. n - m + 1 = Len(y) - p
      BY <3>1, <3>2
    <3> QED BY <3>1, <3>2, <3>3, <3>4, Zenon
  <2> HIDE DEF Input
  <2> QED BY <1>1, <1>2, <2>1 DEF From
<1>4. Len(x) > 0 /\ r = str_decode_utf8(x)
  BY <1>1, <1>2, <1>3
<1>5. /\ r.num_bytes \in Nat /\ r.num_bytes > 0 /\ r.num_bytes <= Len(x)
      /\ ReplaceStep(r) \in Nat /\ ReplaceStep(r) > 0 /\ ReplaceStep(r) <= r.num_bytes
  BY <1>3, <1>4, DecodeResult
<1>6. PICK a \in Nat : a = r.num_bytes /\ a > 0 /\ a <= Len(x)
  BY <1>5
<1>7. PICK b \in Nat : b = ReplaceStep(r) /\ b > 0 /\ b <= a
  BY <1>5, <1>6
<1>8. /\ p + a \in Nat /\ p < p + a /\ p + a <= obj.dest.len
      /\ p + b \in Nat /\ p < p + b /\ p + b <= obj.dest.len
  <2>1. PICK l \in Nat : l = obj.dest.len
    BY <1>1
  <2>2. Len(x) = l - p /\ p < l
    BY <1>3, <2>1
  <2>3. /\ p + a \in Nat /\ p < p + a /\ p + a <= l
        /\ p + b \in Nat /\ p < p + b /\ p + b <= l
    BY <1>6, <1>7, <2>2
  <2> QED BY <2>1, <2>3
<1> QED BY <1>6, <1>7, <1>8, Zenon

\* What is replaced from offset p on ends in front of the end.
LEMMA ReplacesInside ==
  ASSUME MemOK, CallOK, InCall, NEW p \in Nat, p < obj.dest.len,
         call.fn = "substring" => p + call.patt.len <= obj.dest.len
  PROVE  ReplacedUpTo(p) \in Nat /\ p < ReplacedUpTo(p) /\ ReplacedUpTo(p) <= obj.dest.len
<1>1. Input \in Seq(Nat) /\ Len(Input) = obj.dest.len /\ obj.dest.len \in Nat
  BY InputIs
<1>2. call.fn \in {"substring", "chars", "spans", "utf8"}
  BY ReplaceAssumption DEF CallOK
<1>3. CASE call.fn = "substring"
  <2>1. call.patt.len \in Nat /\ call.patt.len > 0
    BY <1>3, ObjectFields DEF CallOK, CallType
  <2>2. ReplacedUpTo(p) = p + call.patt.len
    BY <1>3 DEF ReplacedUpTo
  <2> QED BY <1>1, <1>3, <2>1, <2>2
<1>4. CASE call.fn = "chars"
  <2>1. ReplacedUpTo(p) = p + 1
    BY <1>4 DEF ReplacedUpTo
  <2> QED BY <1>1, <2>1
<1>5. CASE call.fn = "spans"
  <2>1. ReplacedUpTo(p) = bitset_span(Input, bitset_init(Text(call.patt)), p + 1)
    BY <1>5 DEF ReplacedUpTo
  <2>2. p + 1 \in Nat /\ p + 1 <= Len(Input)
    BY <1>1
  <2>3. /\ ReplacedUpTo(p) \in Nat /\ p + 1 <= ReplacedUpTo(p)
        /\ ReplacedUpTo(p) <= Len(Input)
    BY <1>1, <2>1, <2>2, SpanResult
  <2> QED BY <1>1, <2>3
<1>6. CASE call.fn = "utf8"
  <2>1. ReplacedUpTo(p) = p + ReplaceStep(str_decode_utf8(From(Input, p + 1)))
    BY <1>6 DEF ReplacedUpTo
  <2> QED BY <2>1, DecodesInside
<1> QED BY <1>2, <1>3, <1>4, <1>5, <1>6

\* Where a search ends.
LEMMA SearchesInside ==
  ASSUME MemOK, CallOK, call.pc = "search", call.fn # "utf8", NEW p, p = SearchFrom(call.s)
  PROVE  /\ p \in Nat /\ call.s <= p /\ p <= obj.dest.len
         /\ p < obj.dest.len /\ call.fn = "substring" => p + call.patt.len <= obj.dest.len
<1>1. Input \in Seq(Nat) /\ Len(Input) = obj.dest.len /\ obj.dest.len \in Nat
  BY InputIs
<1>2. InCall
  BY DEF InCall
<1>3. call.s \in Nat /\ call.s <= Len(Input)
  BY <1>1, <1>2 DEF CallOK, CallType
<1>4. CASE call.fn = "substring"
  <2>1. p = memmem(Input, call.s, Text(call.patt))
    BY <1>4 DEF SearchFrom
  <2>2. /\ p \in Nat /\ call.s <= p /\ p <= Len(Input)
        /\ p < Len(Input) => HasAt(Input, p, Text(call.patt))
    BY <1>1, <1>3, <2>1, MemmemResult
  <2>3. Len(Text(call.patt)) = call.patt.len
    <3>1. Heaps(live, heap) /\ Sound(live, heap, call.patt)
      BY <1>2 DEF MemOK, CallOK, Safe
    <3> QED BY <3>1, TextLength, TextIsIn
  <2> QED BY <1>1, <2>2, <2>3 DEF HasAt
<1>5. CASE call.fn # "substring"
  <2>1. p = bitset_search(Input, bitset_init(Text(call.patt)), call.s)
    BY <1>5 DEF SearchFrom
  <2>2. p \in Nat /\ call.s <= p /\ p <= Len(Input)
    BY <1>1, <1>3, <2>1, SearchResult
  <2> QED BY <1>1, <1>5, <2>2
<1> QED BY <1>4, <1>5

\* The call goes on: its arguments stay as they are.
LEMMA CallKeeps ==
  ASSUME CallOK, InCall, obj' = obj,
         \A t : Safe(live, heap, buff, t) => Safe(live', heap', buff', t),
         call' \in CallType, call'.fn = call.fn, call'.patt = call.patt, call'.repl = call.repl,
         call'.pc # "idle", call'.s <= call'.p, call'.p <= obj.dest.len,
         call'.pc \in {"slice", "repl"} =>
           /\ call'.p < obj.dest.len
           /\ call.fn = "substring" => call'.p + call.patt.len <= obj.dest.len,
         call'.pc = "assign" => buff'[0] = str_null \/ buff'[0].own
  PROVE  CallOK'
BY DEF CallOK

LEMMA InitMem == Init => MemInv
<1> SUFFICES ASSUME Init PROVE MemOK /\ CallOK
  BY DEF MemInv
<1>1. PICK x \in DestText, y \in OtherText, b, c \in Block :
        LET other == str_acquire_mem(c, Len(y))
            mine  == str_acquire_mem(b, Len(x))
        IN  /\ b # c
            /\ \E d \in {mine, str_ref(other)} :
                 /\ obj = [dest |-> d, other |-> other]
                 /\ live = Freed(d) \cup Freed(other)
                 /\ heap = [a \in Block |-> IF a \notin live THEN <<>>
                              ELSE Append(IF a = b THEN x ELSE y, 0)]
  BY DEF Init
<1> DEFINE mine == str_acquire_mem(b, Len(x))
           other == str_acquire_mem(c, Len(y))
<1>2. PICK d \in {mine, str_ref(other)} :
          /\ b # c
          /\ obj = [dest |-> d, other |-> other]
          /\ live = Freed(d) \cup Freed(other)
          /\ heap = [a \in Block |-> IF a \notin live THEN <<>>
                       ELSE Append(IF a = b THEN x ELSE y, 0)]
  BY <1>1
<1>3. x \in Seq(Nat) /\ y \in Seq(Nat) /\ Len(x) \in Nat /\ Len(y) \in Nat
  <2>1. x \in Seq(Byte) /\ y \in Seq(Byte)
    BY ReplaceAssumption
  <2>2. ASSUME NEW z \in Seq(Byte) PROVE z \in Seq(Nat)
    <3>1. Len(z) \in Nat /\ \A i \in 1 .. Len(z) : z[i] \in Nat
      <4>1. Len(z) \in Nat /\ \A i \in 1 .. Len(z) : z[i] \in Byte
        OBVIOUS
      <4>2. Byte \subseteq Nat
        BY DEF Byte
      <4> QED BY <4>1, <4>2
    <3>2. z = [i \in 1 .. Len(z) |-> z[i]]
      OBVIOUS
    <3>3. [i \in 1 .. Len(z) |-> z[i]] \in Seq(Nat)
      BY <3>1
    <3> QED BY <3>2, <3>3, Zenon
  <2> QED BY <2>1, <2>2
<1>4. obj.dest = d /\ obj.other = other /\ str_null.own = FALSE /\ str_null.at = NULL
  BY <1>2 DEF str_null
<1>5. /\ (Len(y) > 0 => other = OwnerNoTest(c, Len(y)) /\ Freed(other) = {c} /\ other.at = c)
      /\ (Len(y) = 0 => other = str_null /\ Freed(other) = {})
      /\ (Len(x) > 0 => mine = OwnerNoTest(b, Len(x)) /\ Freed(mine) = {b} /\ mine.at = b)
      /\ (Len(x) = 0 => mine = str_null /\ Freed(mine) = {})
  BY <1>3, <1>4 DEF str_acquire_mem, OwnerNoTest, Freed
<1>6. Freed(str_ref(other)) = {} /\ str_ref(other).at = other.at
  <2>1. CASE Len(y) > 0
    BY <1>5, <2>1 DEF str_ref, Freed, OwnerNoTest
  <2>2. CASE Len(y) = 0
    BY <1>5, <2>2 DEF str_ref, Freed, str_null
  <2> QED BY <1>3, <2>1, <2>2
<1>7. Freed(other) \subseteq {c} /\ Freed(d) \subseteq {b}
  BY <1>3, <1>5, <1>6
<1> HIDE DEF mine, other
<1>8. Heaps(live, heap)
  <2>1. live \subseteq Block
    BY <1>2, <1>7
  <2>2. Append(x, 0) \in Seq(Nat) /\ Append(y, 0) \in Seq(Nat) /\ <<>> \in Seq(Nat)
    BY <1>3
  <2>3. heap \in [Block -> Seq(Nat)]
    BY <1>2, <2>2
  <2> QED BY <2>1, <2>3 DEF Heaps
<1>9. Sound(live, heap, other)
  <2>1. CASE Len(y) > 0
    <3>1. c \in live /\ heap[c] = Append(y, 0)
      BY <1>2, <1>5, <2>1
    <3> QED BY <1>3, <1>5, <1>8, <2>1, <3>1, OwnerSound
  <2>2. CASE Len(y) = 0
    BY <1>5, <2>2, NullSound
  <2> QED BY <1>3, <2>1, <2>2
<1>10. Sound(live, heap, d)
  <2>1. CASE d = mine
    <3>1. CASE Len(x) > 0
      <4>1. b \in live /\ heap[b] = Append(x, 0)
        BY <1>2, <1>5, <2>1, <3>1
      <4> QED BY <1>3, <1>5, <1>8, <2>1, <3>1, <4>1, OwnerSound
    <3>2. CASE Len(x) = 0
      BY <1>5, <2>1, <3>2, NullSound
    <3> QED BY <1>3, <3>1, <3>2
  <2>2. CASE d = str_ref(other)
    BY <1>9, <2>2, RefSound
  <2> QED BY <2>1, <2>2
<1>11. d \in Object /\ other \in Object
  BY <1>9, <1>10 DEF Sound
<1>12. other.at \notin Freed(d)
  <2>1. other.at \in {c, NULL}
    BY <1>3, <1>4, <1>5
  <2>2. b # NULL
    BY HeapAssumption
  <2> QED BY <1>2, <1>7, <2>1, <2>2
<1>13. /\ 0 \in Slot /\ buff \in [Slot -> Object] /\ count = 0
       /\ \A k \in Slot : buff[k] = str_null
  <2>1. buff = [k \in Slot |-> str_null] /\ count = 0
    BY DEF Init
  <2>2. 0 \in Slot
    BY BuilderAssumption DEF Slot
  <2>3. str_null \in Object
    BY NullSound DEF Sound
  <2> QED BY <2>1, <2>2, <2>3
<1>14. Builder(live, heap, buff, count) /\ Freed(buff[0]) = {}
  <2>1. 0 .. count - 1 = {} /\ 1 .. count - 1 = {}
    BY <1>13
  <2> QED BY <1>4, <1>13, <2>1 DEF Builder, Freed
<1>15. MemOK
  <2>1. obj \in [{"dest", "other"} -> Object]
    BY <1>2, <1>11
  <2>2. live = Freed(d) \cup Freed(other) \cup Freed(buff[0])
    BY <1>2, <1>14
  <2> QED BY <1>4, <1>8, <1>9, <1>10, <1>12, <1>14, <2>1, <2>2 DEF MemOK
<1>16. CallOK
  <2>1. call = NoCall
    BY DEF Init
  <2>2. call.pc = "idle" /\ call \in CallType
    <3>1. str_null \in Object
      BY NullSound DEF Sound
    <3> QED BY <2>1, <3>1 DEF NoCall, CallType
  <2> QED BY <1>13, <2>2 DEF CallOK, InCall
<1> QED BY <1>15, <1>16

LEMMA EnterMem ==
  ASSUME MemInv, NEW fn, NEW patt, Sound(live, heap, patt), NEW repl, Sound(live, heap, repl),
         Enter(fn, patt, repl)
  PROVE  MemInv'
<1>1. MemOK /\ CallOK /\ call.pc = "idle" /\ count = 0
  BY DEF MemInv, CallOK, Enter
<1>2. Freed(buff[0]) = {}
  BY <1>1 DEF MemOK, Builder, Freed, str_null
<1>3. MemOK' /\ buff'[0] = str_null /\ Freed(buff'[0]) = {} /\ count' = 0
  BY <1>1, <1>2, MemInit DEF Enter
<1>4. /\ call' = [NoCall EXCEPT !.fn = fn, !.patt = patt, !.repl = repl,
                    !.pc = IF NothingToDo(fn, patt) THEN "done" ELSE "search"]
      /\ fn \in Fn /\ obj' = obj /\ live' = live /\ heap' = heap
  BY DEF Enter
<1>5. patt \in Object /\ repl \in Object /\ str_null \in Object
  BY NullSound DEF Sound
<1>6. /\ call' \in CallType /\ call'.fn = fn /\ call'.patt = patt /\ call'.repl = repl
      /\ call'.s = 0 /\ call'.p = 0
      /\ call'.pc = IF NothingToDo(fn, patt) THEN "done" ELSE "search"
  BY <1>4, <1>5 DEF NoCall, CallType
<1>7. Safe(live', heap', buff', patt) /\ Safe(live', heap', buff', repl)
  BY <1>3, <1>4 DEF Safe
<1>8. obj.dest.len \in Nat /\ patt.len \in Nat
  BY <1>1, <1>5, ObjectFields DEF MemOK, Sound
<1>9. ~NothingToDo(fn, patt) => obj.dest.len > 0 /\ (fn # "utf8" => patt.len > 0)
  BY <1>8 DEF NothingToDo, str_is_empty
<1>10. CallOK'
  BY <1>3, <1>4, <1>6, <1>7, <1>8, <1>9 DEF CallOK, InCall
<1> QED BY <1>3, <1>10 DEF MemInv

LEMMA CallStepMem == MemInv /\ CallStep => MemInv'
<1> SUFFICES ASSUME MemInv, CallStep PROVE MemInv'
  OBVIOUS
<1>1. /\ \A a \in Arguments : Sound(live, heap, a)
      /\ \A a \in Literal : Sound(live, heap, str_lit(a))
  BY ArgumentSound DEF MemInv
<1>2. CASE str_to_valid_utf8
  <2>1. Enter("utf8", str_null, str_lit(UFFFD))
    BY <1>2 DEF str_to_valid_utf8
  <2>2. Sound(live, heap, str_lit(UFFFD)) /\ Sound(live, heap, str_null)
    BY <1>1, NullSound, ReplaceAssumption
  <2> QED BY <2>1, <2>2, EnterMem
<1>3. ASSUME NEW patt \in Arguments, NEW repl \in Arguments,
             \/ str_replace_substring(patt, repl)
             \/ str_replace_chars(patt, repl)
             \/ str_replace_char_spans(patt, repl)
      PROVE  MemInv'
  <2>1. \E fn : Enter(fn, patt, repl)
    BY <1>3 DEF str_replace_substring, str_replace_chars, str_replace_char_spans
  <2> QED BY <1>1, <2>1, EnterMem
<1> QED BY <1>2, <1>3 DEF CallStep

LEMMA SearchMem == MemInv /\ (Search \/ Decode) => MemInv'
<1> SUFFICES ASSUME MemInv, Search \/ Decode PROVE MemInv'
  OBVIOUS
<1>1. /\ MemOK /\ CallOK /\ InCall /\ call.pc = "search"
      /\ UNCHANGED <<live, heap, buff, count, obj>>
  BY DEF MemInv, Search, Decode, InCall
<1>2. MemOK'
  BY <1>1, MemStays
<1>3. /\ call \in CallType /\ call.s \in Nat /\ call.p \in Nat
      /\ call.s <= call.p /\ call.p <= obj.dest.len /\ obj.dest.len \in Nat
  BY <1>1, InputIs DEF CallOK, CallType
<1>4. \A t : Safe(live, heap, buff, t) => Safe(live', heap', buff', t)
  BY <1>1
<1>5. CASE Search
  <2>1. PICK p : p = SearchFrom(call.s)
                 /\ call' = [call EXCEPT !.p = p, !.pc = IF p < End THEN "slice" ELSE "tail"]
    BY <1>5 DEF Search
  <2>2. call.fn # "utf8"
    BY <1>5 DEF Search
  <2>3. /\ p \in Nat /\ call.s <= p /\ p <= obj.dest.len
        /\ p < obj.dest.len /\ call.fn = "substring" => p + call.patt.len <= obj.dest.len
    BY <1>1, <2>1, <2>2, SearchesInside
  <2>4. /\ call' \in CallType /\ call'.fn = call.fn /\ call'.patt = call.patt
        /\ call'.repl = call.repl /\ call'.s = call.s /\ call'.p = p
        /\ call'.pc = IF p < obj.dest.len THEN "slice" ELSE "tail"
    BY <1>3, <2>1, <2>3 DEF CallType, End
  <2>5. CallOK'
    BY <1>1, <1>4, <2>3, <2>4, CallKeeps
  <2> QED BY <1>2, <2>5 DEF MemInv
<1>6. CASE Decode
  <2>1. call.fn = "utf8"
    BY <1>6 DEF Decode
  <2>2. CASE call' = [call EXCEPT !.pc = "tail"]
    <3>1. /\ call' \in CallType /\ call'.fn = call.fn /\ call'.patt = call.patt
          /\ call'.repl = call.repl /\ call'.s = call.s /\ call'.p = call.p /\ call'.pc = "tail"
      BY <1>3, <2>2 DEF CallType
    <3>2. CallOK'
      BY <1>1, <1>3, <1>4, <3>1, CallKeeps
    <3> QED BY <1>2, <3>2 DEF MemInv
  <2>3. CASE call.p < obj.dest.len /\ call' = [call EXCEPT !.pc = "slice"]
    <3>1. /\ call' \in CallType /\ call'.fn = call.fn /\ call'.patt = call.patt
          /\ call'.repl = call.repl /\ call'.s = call.s /\ call'.p = call.p /\ call'.pc = "slice"
      BY <1>3, <2>3 DEF CallType
    <3>2. CallOK'
      BY <1>1, <1>3, <1>4, <2>1, <2>3, <3>1, CallKeeps
    <3> QED BY <1>2, <3>2 DEF MemInv
  <2>4. CASE \E n \in Nat : call.p <= n /\ n <= obj.dest.len /\ call' = [call EXCEPT !.p = n]
    <3>1. PICK n \in Nat : call.p <= n /\ n <= obj.dest.len /\ call' = [call EXCEPT !.p = n]
      BY <2>4
    <3>2. /\ call' \in CallType /\ call'.fn = call.fn /\ call'.patt = call.patt
          /\ call'.repl = call.repl /\ call'.s = call.s /\ call'.p = n /\ call'.pc = "search"
      BY <1>1, <1>3, <3>1 DEF CallType
    <3>3. call'.s <= call'.p
      BY <1>3, <3>1, <3>2
    <3>4. CallOK'
      BY <1>1, <1>3, <1>4, <3>1, <3>2, <3>3, CallKeeps
    <3> QED BY <1>2, <3>4 DEF MemInv
  <2>5. PICK r : r = str_decode_utf8(From(Input, call.p + 1))
                 /\ call' = IF ~InLoop(call.p) THEN [call EXCEPT !.pc = "tail"]
                            ELSE IF r.status = OK THEN [call EXCEPT !.p = @ + r.num_bytes]
                            ELSE [call EXCEPT !.pc = "slice"]
    BY <1>6 DEF Decode
  <2>6. InLoop(call.p) <=> call.p < obj.dest.len
    BY DEF InLoop, End
  <2>7. CASE call.p < obj.dest.len /\ r.status = OK
    <3>1. call' = [call EXCEPT !.p = call.p + r.num_bytes]
      BY <2>5, <2>6, <2>7
    <3>2. PICK n : n = call.p + r.num_bytes
      OBVIOUS
    <3>3. n \in Nat /\ call.p < n /\ n <= obj.dest.len
      BY <1>1, <1>3, <2>5, <2>7, <3>2, DecodesInside
    <3>4. call.p <= n /\ call' = [call EXCEPT !.p = n]
      BY <1>3, <3>1, <3>2, <3>3
    <3> QED BY <2>4, <3>3, <3>4
  <2> QED BY <2>2, <2>3, <2>5, <2>6, <2>7
<1> QED BY <1>5, <1>6

LEMMA AppendMem == MemInv /\ (AppendSlice \/ AppendRepl \/ AppendTail) => MemInv'
<1> SUFFICES ASSUME MemInv, AppendSlice \/ AppendRepl \/ AppendTail PROVE MemInv'
  OBVIOUS
<1>1. MemOK /\ CallOK /\ InCall /\ obj' = obj /\ call.pc \in {"slice", "repl", "tail"}
  BY DEF MemInv, AppendSlice, AppendRepl, AppendTail, InCall
<1>2. /\ call \in CallType /\ call.s \in Nat /\ call.p \in Nat /\ call.nrep \in Nat
      /\ call.s <= call.p /\ call.p <= obj.dest.len /\ obj.dest.len \in Nat
      /\ call.s <= obj.dest.len
  BY <1>1, InputIs DEF CallOK, CallType
<1>3. ASSUME NEW s, Safe(live, heap, buff, s), sb_append(s)
      PROVE  MemOK' /\ \A t : Safe(live, heap, buff, t) => Safe(live', heap', buff', t)
  BY <1>1, <1>3, BuilderAppends
<1>4. CASE AppendSlice
  <2>1. Safe(live, heap, buff, Slice(call.s, call.p))
    BY <1>1, <1>2, SliceSafe
  <2>2. /\ call.pc = "slice" /\ sb_append(Slice(call.s, call.p))
        /\ call' = [call EXCEPT !.pc = "repl"]
    BY <1>4 DEF AppendSlice
  <2>3. MemOK' /\ \A t : Safe(live, heap, buff, t) => Safe(live', heap', buff', t)
    BY <1>3, <2>1, <2>2
  <2>4. /\ call' \in CallType /\ call'.fn = call.fn /\ call'.patt = call.patt
        /\ call'.repl = call.repl /\ call'.s = call.s /\ call'.p = call.p /\ call'.pc = "repl"
    BY <1>2, <2>2 DEF CallType
  <2>5. /\ call.p < obj.dest.len
        /\ call.fn = "substring" => call.p + call.patt.len <= obj.dest.len
    BY <1>1, <2>2 DEF CallOK
  <2>6. CallOK'
    BY <1>1, <1>2, <2>3, <2>4, <2>5, CallKeeps
  <2> QED BY <2>3, <2>6 DEF MemInv
<1>5. CASE AppendRepl
  <2>1. /\ call.pc = "repl" /\ sb_append(call.repl)
        /\ call' = [call EXCEPT !.nrep = @ + 1, !.s = ReplacedUpTo(call.p),
                                !.p = ReplacedUpTo(call.p), !.pc = "search"]
    BY <1>5 DEF AppendRepl
  <2>2. Safe(live, heap, buff, call.repl)
    BY <1>1 DEF CallOK
  <2>3. MemOK' /\ \A t : Safe(live, heap, buff, t) => Safe(live', heap', buff', t)
    BY <1>3, <2>1, <2>2
  <2>4. /\ call.p < obj.dest.len
        /\ call.fn = "substring" => call.p + call.patt.len <= obj.dest.len
    BY <1>1, <2>1 DEF CallOK
  <2>5. PICK e : e = ReplacedUpTo(call.p)
    OBVIOUS
  <2>6. e \in Nat /\ call.p < e /\ e <= obj.dest.len
    BY <1>1, <1>2, <2>4, <2>5, ReplacesInside
  <2>7. /\ call' \in CallType /\ call'.fn = call.fn /\ call'.patt = call.patt
        /\ call'.repl = call.repl /\ call'.s = e /\ call'.p = e /\ call'.pc = "search"
    <3>1. PICK n \in Nat : n = call.nrep + 1
      BY <1>2
    <3>2. call' = [call EXCEPT !.nrep = n, !.s = e, !.p = e, !.pc = "search"]
      BY <2>1, <2>5, <3>1
    <3> QED BY <1>2, <2>6, <3>2 DEF CallType
  <2>8. CallOK'
    BY <1>1, <1>2, <2>3, <2>6, <2>7, CallKeeps
  <2> QED BY <2>3, <2>8 DEF MemInv
<1>6. CASE AppendTail
  <2>1. /\ call.pc = "tail" /\ sb_append(Slice(call.s, End))
        /\ call' = [call EXCEPT !.pc = IF call.nrep > 0 THEN "join" ELSE "done"]
    BY <1>6 DEF AppendTail
  <2>2. Safe(live, heap, buff, Slice(call.s, End))
    BY <1>1, <1>2, SliceSafe DEF End
  <2>3. MemOK' /\ \A t : Safe(live, heap, buff, t) => Safe(live', heap', buff', t)
    BY <1>3, <2>1, <2>2
  <2>4. /\ call' \in CallType /\ call'.fn = call.fn /\ call'.patt = call.patt
        /\ call'.repl = call.repl /\ call'.s = call.s /\ call'.p = call.p
        /\ call'.pc \in {"join", "done"}
    BY <1>2, <2>1 DEF CallType
  <2>5. CallOK'
    BY <1>1, <1>2, <2>3, <2>4, CallKeeps
  <2> QED BY <2>3, <2>5 DEF MemInv
<1> QED BY <1>4, <1>5, <1>6

LEMMA JoinMem == MemInv /\ Join => MemInv'
<1> SUFFICES ASSUME MemInv, Join PROVE MemInv'
  OBVIOUS
<1>1. MemOK /\ CallOK /\ InCall /\ obj' = obj /\ sb_join
      /\ call' = [call EXCEPT !.pc = "assign"]
  BY DEF MemInv, Join, InCall
<1>2. /\ MemOK' /\ \A t : Safe(live, heap, buff, t) => Safe(live', heap', buff', t)
      /\ buff'[0] = str_null \/ buff'[0].own
  BY <1>1, BuilderJoins
<1>3. /\ call' \in CallType /\ call'.fn = call.fn /\ call'.patt = call.patt
      /\ call'.repl = call.repl /\ call'.s = call.s /\ call'.p = call.p /\ call'.pc = "assign"
  BY <1>1 DEF CallType, CallOK
<1>4. call.s <= call.p /\ call.p <= obj.dest.len
  BY <1>1 DEF CallOK
<1>5. CallOK'
  BY <1>1, <1>2, <1>3, <1>4, CallKeeps
<1> QED BY <1>2, <1>5 DEF MemInv

\* The destination's own block is freed; what does not lie in it stays.
LEMMA FreesOnly ==
  ASSUME NEW l, NEW h, Heaps(l, h), NEW F, NEW s, Sound(l, h, s), s.at \notin F
  PROVE  /\ Heaps(l \ F, Scrub(h, F))
         /\ Sound(l \ F, Scrub(h, F), s) /\ TextIn(Scrub(h, F), s) = TextIn(h, s)
         /\ s.at \in Block => Scrub(h, F)[s.at] = h[s.at]
<1>1. Heaps(l \ F, Scrub(h, F))
  <2>1. \A a \in Block : Scrub(h, F)[a] \in Seq(Nat)
    BY NoBytes DEF Heaps, Scrub
  <2>2. Scrub(h, F) = [a \in Block |-> Scrub(h, F)[a]]
    BY DEF Scrub
  <2>3. Scrub(h, F) \in [Block -> Seq(Nat)]
    <3> HIDE DEF Scrub
    <3> QED BY <2>1, <2>2
  <2> QED BY <2>3 DEF Heaps
<1>2. s.at \in Block => Scrub(h, F)[s.at] = h[s.at]
  BY DEF Scrub
<1>3. BytesIn(Scrub(h, F), s.at) = BytesIn(h, s.at)
  BY <1>2 DEF BytesIn
<1>4. Sound(l \ F, Scrub(h, F), s)
  BY <1>3 DEF Sound
<1>5. TextIn(Scrub(h, F), s) = TextIn(h, s)
  BY <1>3 DEF TextIn
<1> QED BY <1>1, <1>2, <1>4, <1>5

\* The string that is assigned lies in a block of the builder's own.
LEMMA BuiltApart ==
  ASSUME MemOK, buff[0] = str_null \/ buff[0].own
  PROVE  Sound(live, heap, buff[0]) /\ buff[0].at \notin Freed(obj.dest)
<1>1. /\ Heaps(live, heap) /\ Builder(live, heap, buff, count)
      /\ Sound(live, heap, obj.dest) /\ obj.dest.at \notin Freed(buff[0])
  BY DEF MemOK
<1>2. buff[0] = str_null \/ Sound(live, heap, buff[0])
  BY <1>1, BuilderOwns
<1>3. Freed(obj.dest) \subseteq {obj.dest.at}
  BY DEF Freed
<1>4. Freed(obj.dest) \subseteq Block /\ NULL \notin Block
  <2>1. Freed(obj.dest) \subseteq live
    BY <1>1 DEF Sound, Freed
  <2> QED BY <1>1, <2>1, HeapAssumption DEF Heaps
<1>5. CASE buff[0] = str_null
  <2>1. buff[0].at = NULL
    BY <1>5 DEF str_null
  <2> QED BY <1>4, <1>5, <2>1, NullSound
<1>6. CASE buff[0].own
  <2>1. buff[0] # str_null
    BY <1>6 DEF str_null
  <2>2. buff[0].at \in Freed(buff[0])
    BY <1>6 DEF Freed
  <2> QED BY <1>1, <1>2, <1>3, <2>1, <2>2
<1> QED BY <1>5, <1>6

LEMMA AssignMem == MemInv /\ assign_sb => MemInv'
<1> SUFFICES ASSUME MemInv, assign_sb PROVE MemInv'
  OBVIOUS
<1>1. /\ MemOK /\ CallOK /\ call.pc = "assign"
      /\ live' = live \ Freed(obj.dest) /\ heap' = Scrub(heap, Freed(obj.dest))
      /\ obj' = [obj EXCEPT !.dest = buff[0]]
      /\ call' = [call EXCEPT !.pc = "done"] /\ sb_init
  BY DEF MemInv, assign_sb
<1>2. /\ Heaps(live, heap) /\ Builder(live, heap, buff, count)
      /\ Sound(live, heap, obj.dest) /\ Sound(live, heap, obj.other)
      /\ obj \in [{"dest", "other"} -> Object]
      /\ obj.other.at \notin Freed(obj.dest)
      /\ obj.dest.at \notin Freed(buff[0]) /\ obj.other.at \notin Freed(buff[0])
      /\ live = Freed(obj.dest) \cup Freed(obj.other) \cup Freed(buff[0])
  BY <1>1 DEF MemOK
<1>3. /\ buff[0] \in Object /\ NULL \notin Freed(buff[0])
      /\ buff[0] = str_null \/ Sound(live, heap, buff[0])
      /\ Freed(buff[0]) \subseteq live
  BY <1>2, BuilderOwns
<1>4. obj'.dest = buff[0] /\ obj'.other = obj.other /\ obj' \in [{"dest", "other"} -> Object]
  BY <1>1, <1>2, <1>3
<1>5. buff[0] = str_null \/ buff[0].own
  BY <1>1 DEF CallOK
<1>6. Freed(obj.dest) \subseteq {obj.dest.at} /\ Freed(obj.other) \subseteq {obj.other.at}
  BY DEF Freed
<1>8. Sound(live, heap, buff[0]) /\ buff[0].at \notin Freed(obj.dest)
  BY <1>1, <1>5, BuiltApart
<1>9. /\ Heaps(live', heap')
      /\ Sound(live', heap', obj'.dest) /\ Sound(live', heap', obj'.other)
  BY <1>1, <1>2, <1>4, <1>8, FreesOnly
<1>10. live' = Freed(buff[0]) \cup Freed(obj.other)
  <2>1. Freed(buff[0]) \cap Freed(obj.dest) = {} /\ Freed(obj.other) \cap Freed(obj.dest) = {}
    BY <1>2, <1>6
  <2> QED BY <1>1, <1>2, <2>1
<1>11. Builder(live', heap', buff', count') /\ Freed(buff'[0]) = {}
  <2>1. /\ count' = 0 /\ buff' = [k \in Slot |-> str_null] /\ 0 \in Slot
    BY <1>1, BuilderAssumption DEF sb_init, Slot
  <2>2. str_null \in Object /\ ~str_null.own
    BY DEF str_null, Object
  <2>3. 0 .. count' - 1 = {} /\ 1 .. count' - 1 = {}
    BY <2>1
  <2>4. buff' \in [Slot -> Object] /\ \A k \in Slot : buff'[k] = str_null
    BY <2>1, <2>2
  <2>5. Builder(live', heap', buff', count')
    BY <2>1, <2>2, <2>3, <2>4 DEF Builder
  <2>6. Freed(buff'[0]) = {}
    BY <2>1, <2>2, <2>4 DEF Freed
  <2> QED BY <2>5, <2>6
<1>12. MemOK'
  BY <1>2, <1>4, <1>9, <1>10, <1>11 DEF MemOK
<1>13. call' \in CallType /\ call'.pc = "done"
  BY <1>1 DEF CallOK, CallType
<1>14. CallOK'
  BY <1>13 DEF CallOK, InCall
<1> QED BY <1>12, <1>14 DEF MemInv

LEMMA FailMem == MemInv /\ mem_failure => MemInv'
<1> SUFFICES ASSUME MemInv, mem_failure PROVE MemInv'
  OBVIOUS
<1>1. /\ MemOK /\ CallOK /\ call' = [call EXCEPT !.pc = "exited"]
      /\ UNCHANGED <<live, heap, buff, count, obj>>
  BY DEF MemInv, mem_failure
<1>2. call' \in CallType /\ call'.pc = "exited"
  BY <1>1 DEF CallOK, CallType
<1>3. CallOK'
  BY <1>2 DEF CallOK, InCall
<1> QED BY <1>1, <1>3, MemStays DEF MemInv

LEMMA NextMem == MemInv /\ [Next]_vars => MemInv'
<1> SUFFICES ASSUME MemInv, [Next]_vars PROVE MemInv'
  OBVIOUS
<1>1. CASE UNCHANGED vars
  BY <1>1 DEF vars, MemInv, MemOK, CallOK, InCall
<1>2. CASE CallStep
  BY <1>2, CallStepMem
<1>3. CASE LibraryStep
  BY <1>3, SearchMem, AppendMem, JoinMem, AssignMem, FailMem DEF LibraryStep
<1>4. CASE Ended
  BY <1>1, <1>4 DEF Ended
<1> QED BY <1>1, <1>2, <1>3, <1>4 DEF Next

LEMMA MemHolds == Spec => []MemInv
<1>1. Init => MemInv
  BY InitMem
<1>2. MemInv /\ [Next]_vars => MemInv'
  BY NextMem
<1> QED BY <1>1, <1>2, PTL DEF Spec

\* TypeOK: every step keeps the shape of the data, and only the first element
\* of the builder's array is ever an owner.
THEOREM TypeCorrect == Spec => []TypeOK
<1>1. MemInv => TypeOK
  BY DEF MemInv, MemOK, CallOK, CallType, Heaps, Builder, TypeOK
<1> QED BY <1>1, MemHolds, PTL

\* OneOwnerPerBlock: through every flush and the assignment, the program's
\* variables and the builder own each block once, and no block is lost.
THEOREM OneOwner == Spec => []OneOwnerPerBlock
<1>1. MemInv => OneOwnerPerBlock
  <2> SUFFICES ASSUME MemInv PROVE OneOwnerPerBlock
    OBVIOUS
  <2>1. /\ live = Freed(obj.dest) \cup Freed(obj.other) \cup Freed(buff[0])
        /\ obj.other.at \notin Freed(obj.dest)
        /\ obj.dest.at \notin Freed(buff[0]) /\ obj.other.at \notin Freed(buff[0])
    BY DEF MemInv, MemOK
  <2>2. \A s : Freed(s) = IF s.own THEN {s.at} ELSE {}
    BY DEF Freed
  <2>3. live = {o.at : o \in Owners}
    <3>1. {o.at : o \in Owners} = Freed(obj.dest) \cup Freed(obj.other) \cup Freed(buff[0])
      BY <2>2, Zenon DEF Owners
    <3> QED BY <2>1, <3>1
  <2>4. obj.dest.own /\ obj.other.own => obj.dest.at # obj.other.at
    BY <2>1, <2>2
  <2>5. buff[0].own => buff[0].at \notin {o.at : o \in {obj.dest, obj.other}}
    BY <2>1, <2>2
  <2> QED BY <2>3, <2>4, <2>5 DEF OneOwnerPerBlock
<1> QED BY <1>1, MemHolds, PTL

\* PiecesAlive: whatever a call will still read is alive, though the builder
\* frees its block each time it is full and the arguments may be slices of
\* the destination.
THEOREM PiecesReadable == Spec => []PiecesAlive
<1>1. MemInv => PiecesAlive
  <2> SUFFICES ASSUME MemInv PROVE PiecesAlive
    OBVIOUS
  <2>1. Sound(live, heap, obj.dest) /\ Sound(live, heap, obj.other)
    BY DEF MemInv, MemOK
  <2>2. InCall => Sound(live, heap, call.patt) /\ Sound(live, heap, call.repl)
    BY DEF MemInv, CallOK, Safe
  <2>3. \A k \in 0 .. count - 1 : Sound(live, heap, buff[k])
    BY DEF MemInv, MemOK, Builder
  <2> QED BY <2>1, <2>2, <2>3, SoundReadable DEF PiecesAlive
<1> QED BY <1>1, MemHolds, PTL

----------------------------------------------------------------------------
(* The invariant about the text: what the builder has collected is the     *)
(* edited text up to where the loop is.                                     *)

\* The call edits bytes; the other function repairs UTF-8.
Replaces == InCall /\ call.fn # "utf8"

RepNow  == Rep(call.fn, promise.was, TextIn(heap, call.patt))
DropNow == Drop(call.fn, promise.was, TextIn(heap, call.patt))
GoalTo(i) == EditedTo(promise.was, RepNow, DropNow, TextIn(heap, call.repl), i)

\* The builder has the edited text up to offset s, and so many replacements.
UpTo(s) == /\ PiecesIn(heap, buff, count) = GoalTo(s)
           /\ call.nrep = RepUpTo(RepNow, call.s)

PlainNow(p) == Plain(call.fn, promise.was, TextIn(heap, call.patt), call.s, p)
BoundaryNow == Boundary(call.fn, promise.was, TextIn(heap, call.patt), call.s)

TextOK ==
  /\ InCall \/ call.pc = "exited" => TextIn(heap, obj.dest) = promise.was
  /\ Replaces => /\ promise.text = GoalTo(obj.dest.len)
                 /\ promise.nrep = Cardinality(RepNow)
                 /\ call.nrep = 0 => call.s = 0

LoopOK ==
  /\ call.pc = "search" => UpTo(call.s) /\ BoundaryNow
  /\ call.pc = "slice"  => UpTo(call.s) /\ BoundaryNow /\ PlainNow(call.p) /\ call.p + 1 \in RepNow
  /\ call.pc = "repl"   => UpTo(call.p) /\ BoundaryNow /\ PlainNow(call.p) /\ call.p + 1 \in RepNow
  /\ call.pc = "tail"   => UpTo(call.s) /\ PlainNow(obj.dest.len)
  /\ call.pc = "join"   => /\ PiecesIn(heap, buff, count) = promise.text
                           /\ call.nrep = promise.nrep
  /\ call.pc = "assign" => /\ TextIn(heap, buff[0]) = promise.text
                           /\ call.nrep = promise.nrep
                           /\ \/ buff[0] = str_null /\ promise.text = <<>>
                              \/ buff[0].own /\ heap[buff[0].at] = Append(promise.text, 0)

DoneOK == call.pc = "done" /\ call.fn # "utf8" => Delivered(promise.text, promise.nrep)

TextInv == TextOK /\ (Replaces => LoopOK) /\ DoneOK

LEMMA StretchOfStretch ==
  ASSUME NEW y \in Seq(Nat), NEW o \in Nat, NEW e \in Nat, e <= Len(y),
         NEW i \in Nat, NEW j \in Nat, i <= j,
         NEW a, a = o + i, NEW b, b = o + j, b <= e
  PROVE  Stretch(y, a, b) = Stretch(Stretch(y, o, e), i, j)
<1>1. ASSUME NEW n \in Nat, e = o + n
      PROVE  SubSeq(y, o + i + 1, o + j) = SubSeq(SubSeq(y, o + 1, o + n), i + 1, j)
  BY <1>1
<1>2. e - o \in Nat /\ e = o + (e - o)
  OBVIOUS
<1> QED BY <1>1, <1>2 DEF Stretch

LEMMA SliceText ==
  ASSUME MemOK, NEW i \in Nat, NEW j \in Nat, i <= j, j <= obj.dest.len
  PROVE  TextIn(heap, Slice(i, j)) = Stretch(TextIn(heap, obj.dest), i, j)
<1>1. PICK d : d = obj.dest
  OBVIOUS
<1>2. Heaps(live, heap) /\ Sound(live, heap, d)
  BY <1>1 DEF MemOK
<1>3. d.len \in Nat /\ d.off \in Nat
  BY <1>2, ObjectFields DEF Sound
<1>4. PICK r : r = Slice(i, j)
  OBVIOUS
<1>5. r = str_ref_mem(d.at, d.off + i, j - i)
  BY <1>1, <1>4 DEF Slice
<1>6. CASE i = j
  <2>1. r = str_null
    <3>1. ~(j - i > 0)
      BY <1>6
    <3> QED BY <1>5, <3>1 DEF str_ref_mem
  <2>2. TextIn(heap, r) = <<>>
    BY <2>1 DEF TextIn, str_null
  <2>3. Stretch(TextIn(heap, d), i, j) = <<>>
    BY <1>6 DEF Stretch
  <2> QED BY <1>1, <1>4, <2>2, <2>3
<1>7. CASE i # j
  <2>1. d.len > 0 /\ d.len # 0 /\ j - i > 0 /\ j - i \in Nat /\ j - i # 0 /\ j <= d.len
    BY <1>1, <1>3, <1>7
  <2>2. d.at \in live \cup Literal /\ d.off + d.len <= Len(BytesIn(heap, d.at))
    BY <1>2, <2>1 DEF Sound
  <2>3. d.at # NULL
    BY <1>2, <2>2, HeapAssumption DEF Heaps
  <2>4. r = [at |-> d.at, off |-> d.off + i, len |-> j - i, own |-> FALSE]
    BY <1>5, <2>1, <2>3 DEF str_ref_mem
  <2>5. PICK y : y = BytesIn(heap, d.at)
    OBVIOUS
  <2>6. y \in Seq(Nat)
    BY <1>2, <2>2, <2>5, HeapAssumption DEF BytesIn, Heaps
  <2>7. r.at = d.at /\ r.off = d.off + i /\ r.len = j - i /\ r.len # 0
    BY <2>1, <2>4
  <2>8. TextIn(heap, r) = Stretch(y, r.off, r.off + r.len)
    BY <2>5, <2>7 DEF TextIn, Stretch
  <2>9. TextIn(heap, d) = Stretch(y, d.off, d.off + d.len)
    BY <2>1, <2>5 DEF TextIn, Stretch
  <2>10. PICK o \in Nat, e \in Nat : o = d.off /\ e = d.off + d.len
    BY <1>3
  <2>11. PICK a, b : a = o + i /\ b = o + j
    OBVIOUS
  <2>12. e <= Len(y) /\ b <= e
    BY <1>3, <2>1, <2>2, <2>5, <2>10, <2>11
  <2>13. Stretch(y, a, b) = Stretch(Stretch(y, o, e), i, j)
    BY <2>6, <2>10, <2>11, <2>12, StretchOfStretch
  <2>14. r.off = a /\ r.off + r.len = b
    BY <1>3, <2>7, <2>10, <2>11
  <2> QED BY <1>1, <1>4, <2>8, <2>9, <2>10, <2>13, <2>14, Zenon
<1> QED BY <1>6, <1>7

\* What is known of the texts while the call edits bytes.
LEMMA TextsKnown ==
  ASSUME MemInv, TextOK, Replaces,
         NEW x, x = promise.was, NEW patt, patt = TextIn(heap, call.patt)
  PROVE  /\ x \in Seq(Nat) /\ x = Input /\ Len(x) = obj.dest.len /\ x # <<>>
         /\ patt \in Seq(Nat) /\ patt # <<>> /\ Len(patt) = call.patt.len
         /\ TextIn(heap, call.repl) \in Seq(Nat)
         /\ call.fn \in {"substring", "chars", "spans"}
         /\ call.s \in Nat /\ call.p \in Nat /\ call.nrep \in Nat
         /\ call.s <= call.p /\ call.p <= Len(x) /\ call.s <= Len(x)
         /\ SearchFrom(call.s) = FindsNext(call.fn, x, patt, call.s)
         /\ \A q : ReplacedUpTo(q) = EndsAt(call.fn, x, patt, q)
<1>1. MemOK /\ CallOK /\ InCall /\ call.fn # "utf8" /\ call \in CallType
  BY DEF MemInv, Replaces, CallOK
<1>2. /\ Input \in Seq(Nat) /\ Len(Input) = obj.dest.len /\ obj.dest.len \in Nat
      /\ Input = TextIn(heap, obj.dest)
  BY <1>1, InputIs
<1>3. x = Input
  BY <1>1, <1>2 DEF TextOK
<1>4. /\ Heaps(live, heap) /\ Sound(live, heap, call.patt) /\ Sound(live, heap, call.repl)
      /\ obj.dest.len > 0 /\ call.patt.len > 0
  BY <1>1 DEF MemOK, CallOK, Safe
<1>5. patt \in Seq(Nat) /\ Len(patt) = call.patt.len
  BY <1>4, TextLength
<1>6. TextIn(heap, call.repl) \in Seq(Nat)
  BY <1>4, TextLength
<1>7. call.fn \in {"substring", "chars", "spans"}
  BY <1>1, ReplaceAssumption DEF CallOK
<1>8. /\ call.s \in Nat /\ call.p \in Nat /\ call.nrep \in Nat
      /\ call.s <= call.p /\ call.p <= obj.dest.len /\ call.s <= obj.dest.len
  BY <1>1, <1>2 DEF CallType, CallOK
<1>9. patt = Text(call.patt)
  BY TextIsIn
<1>10. SearchFrom(call.s) = FindsNext(call.fn, x, patt, call.s)
  BY <1>3, <1>9 DEF SearchFrom, FindsNext
<1>11. ASSUME NEW q PROVE ReplacedUpTo(q) = EndsAt(call.fn, x, patt, q)
  <2>1. CASE call.fn = "substring"
    BY <1>5, <2>1 DEF ReplacedUpTo, EndsAt
  <2>2. CASE call.fn = "chars"
    BY <2>2 DEF ReplacedUpTo, EndsAt
  <2>3. CASE call.fn = "spans"
    BY <1>3, <1>9, <2>3 DEF ReplacedUpTo, EndsAt
  <2> QED BY <1>7, <2>1, <2>2, <2>3
<1>12. x # <<>> /\ patt # <<>>
  BY <1>2, <1>3, <1>4, <1>5
<1> HIDE DEF Input
<1> QED BY <1>2, <1>3, <1>5, <1>6, <1>7, <1>8, <1>10, <1>11, <1>12

\* The texts and what they say should come out stay the same in a step.
LEMMA TextsStay ==
  ASSUME MemInv, TextOK, InCall, obj' = obj, promise' = promise,
         call'.fn = call.fn, call'.patt = call.patt, call'.repl = call.repl,
         \A t : Safe(live, heap, buff, t) => Kept(live, heap, live', heap', t)
  PROVE  /\ TextIn(heap', obj'.dest) = promise'.was
         /\ RepNow' = RepNow /\ \A i : GoalTo(i)' = GoalTo(i)
         /\ \A q : call'.s = call.s => (PlainNow(q)' <=> PlainNow(q))
         /\ call'.s = call.s => (BoundaryNow' <=> BoundaryNow)
<1>1. MemOK /\ CallOK
  BY DEF MemInv
<1>2. /\ Safe(live, heap, buff, call.patt) /\ Safe(live, heap, buff, call.repl)
      /\ Safe(live, heap, buff, obj.dest)
  BY <1>1 DEF CallOK, MemOK, Safe
<1>3. /\ TextIn(heap', call.patt) = TextIn(heap, call.patt)
      /\ TextIn(heap', call.repl) = TextIn(heap, call.repl)
      /\ TextIn(heap', obj.dest) = TextIn(heap, obj.dest)
  BY <1>2 DEF Kept
<1>4. TextIn(heap', obj'.dest) = promise'.was
  BY <1>3 DEF TextOK
<1>5. RepNow' = RepNow /\ DropNow' = DropNow
  BY <1>3 DEF RepNow, DropNow
<1>6. \A i : GoalTo(i)' = GoalTo(i)
  BY <1>3, <1>5 DEF GoalTo
<1>7. \A q : call'.s = call.s => (PlainNow(q)' <=> PlainNow(q))
  BY <1>3 DEF PlainNow
<1>8. call'.s = call.s => (BoundaryNow' <=> BoundaryNow)
  BY <1>3 DEF BoundaryNow
<1> QED BY <1>4, <1>5, <1>6, <1>7, <1>8

\* A stretch in which nothing is replaced is copied, and nothing is counted.
LEMMA PlainCopied ==
  ASSUME MemInv, TextOK, Replaces,
         NEW p \in Nat, call.s <= p, p <= obj.dest.len, PlainNow(p)
  PROVE  /\ GoalTo(p) = Followed(GoalTo(call.s), Stretch(promise.was, call.s, p))
         /\ RepUpTo(RepNow, p) = RepUpTo(RepNow, call.s)
<1>1. PICK x : x = promise.was
  OBVIOUS
<1>2. PICK patt : patt = TextIn(heap, call.patt)
  OBVIOUS
<1>3. PICK repl : repl = TextIn(heap, call.repl)
  OBVIOUS
<1>4. /\ x \in Seq(Nat) /\ Len(x) = obj.dest.len /\ repl \in Seq(Nat) /\ call.s \in Nat
  BY <1>1, <1>2, <1>3, TextsKnown
<1>5. PICK rep, drop : rep = RepNow /\ drop = DropNow
  OBVIOUS
<1>6. PICK s : s = call.s
  OBVIOUS
<1>7. \A k \in s + 1 .. p : k \notin rep /\ k \notin drop
  BY <1>1, <1>2, <1>5, <1>6 DEF PlainNow, Plain, RepNow, DropNow
<1>8. x \in Seq(Nat) /\ repl \in Seq(Nat) /\ s \in Nat /\ p \in Nat /\ s <= p /\ p <= Len(x)
  BY <1>4, <1>6
<1>9. EditedTo(x, rep, drop, repl, p) = Followed(EditedTo(x, rep, drop, repl, s), Stretch(x, s, p))
  BY ONLY <1>7, <1>8, EditedCopies
<1>10. RepUpTo(rep, p) = RepUpTo(rep, s)
  BY ONLY <1>7, <1>8, RepNone
<1>11. \A i : GoalTo(i) = EditedTo(x, rep, drop, repl, i)
  BY <1>1, <1>3, <1>5 DEF GoalTo
<1> QED BY <1>1, <1>5, <1>6, <1>9, <1>10, <1>11, Zenon

LEMMA AllCounted ==
  ASSUME MemInv, TextOK, Replaces
  PROVE  RepUpTo(RepNow, obj.dest.len) = Cardinality(RepNow)
<1>1. PICK x : x = promise.was
  OBVIOUS
<1>2. PICK patt : patt = TextIn(heap, call.patt)
  OBVIOUS
<1>3. /\ x \in Seq(Nat) /\ Len(x) = obj.dest.len /\ patt \in Seq(Nat) /\ patt # <<>>
      /\ call.fn \in {"substring", "chars", "spans"}
  BY <1>1, <1>2, TextsKnown
<1>4. RepNow = Rep(call.fn, x, patt)
  BY <1>1, <1>2 DEF RepNow
<1>5. RepUpTo(Rep(call.fn, x, patt), Len(x)) = Cardinality(Rep(call.fn, x, patt))
  BY <1>3, RepAll
<1> QED BY <1>3, <1>4, <1>5, Zenon

LEMMA TextOKStays ==
  ASSUME MemInv, TextOK, InCall, obj' = obj, promise' = promise,
         call'.fn = call.fn, call'.patt = call.patt, call'.repl = call.repl,
         \A t : Safe(live, heap, buff, t) => Kept(live, heap, live', heap', t),
         Replaces /\ call'.nrep = 0 => call'.s = 0
  PROVE  TextOK'
<1>1. /\ TextIn(heap', obj'.dest) = promise'.was
      /\ RepNow' = RepNow /\ \A i : GoalTo(i)' = GoalTo(i)
  BY TextsStay
<1>2. Replaces' => Replaces
  BY DEF Replaces
<1>3. Replaces' => /\ promise'.text = GoalTo(obj.dest.len)'
                   /\ promise'.nrep = Cardinality(RepNow')
  <2>1. PICK l : l = obj.dest.len /\ l = obj'.dest.len
    OBVIOUS
  <2>2. GoalTo(obj.dest.len)' = GoalTo(l)'
    BY <2>1 DEF GoalTo
  <2>3. Replaces => promise.text = GoalTo(l) /\ promise.nrep = Cardinality(RepNow)
    BY <2>1 DEF TextOK
  <2> QED BY <1>1, <1>2, <2>2, <2>3
<1> QED BY <1>1, <1>2, <1>3 DEF TextOK

LEMMA SearchText == MemInv /\ TextInv /\ (Search \/ Decode) => TextInv'
<1> SUFFICES ASSUME MemInv, TextInv, Search \/ Decode PROVE TextInv'
  OBVIOUS
<1>1. /\ InCall /\ call.pc = "search" /\ call \in CallType /\ TextOK
      /\ UNCHANGED <<live, heap, buff, count, obj, promise>>
  BY DEF MemInv, CallOK, TextInv, Search, Decode, InCall
<1>2. \A t : Safe(live, heap, buff, t) => Kept(live, heap, live', heap', t)
  BY <1>1 DEF Safe, Kept
<1>3. CASE Search
  <2>1. PICK p : p = SearchFrom(call.s)
                 /\ call' = [call EXCEPT !.p = p, !.pc = IF p < End THEN "slice" ELSE "tail"]
    BY <1>3 DEF Search
  <2>2. Replaces
    BY <1>1, <1>3 DEF Search, Replaces
  <2>3. PICK x : x = promise.was
    OBVIOUS
  <2>4. PICK patt : patt = TextIn(heap, call.patt)
    OBVIOUS
  <2>5. /\ x \in Seq(Nat) /\ Len(x) = obj.dest.len /\ patt \in Seq(Nat) /\ patt # <<>>
        /\ call.fn \in {"substring", "chars", "spans"}
        /\ call.s \in Nat /\ call.s <= Len(x) /\ p = FindsNext(call.fn, x, patt, call.s)
    BY <1>1, <2>1, <2>2, <2>3, <2>4, TextsKnown
  <2>6. UpTo(call.s) /\ BoundaryNow /\ (call.nrep = 0 => call.s = 0)
    BY <1>1, <2>2 DEF TextInv, LoopOK, TextOK
  <2>7. Boundary(call.fn, x, patt, call.s)
    BY <2>3, <2>4, <2>6 DEF BoundaryNow
  <2>8. /\ p \in Nat /\ call.s <= p /\ p <= Len(x)
        /\ Plain(call.fn, x, patt, call.s, p)
        /\ p < Len(x) => p + 1 \in Rep(call.fn, x, patt)
    BY <2>5, <2>7, SearchFinds
  <2>9. /\ PlainNow(p)
        /\ p < obj.dest.len => p + 1 \in RepNow
        /\ ~(p < obj.dest.len) => p = obj.dest.len
    BY <2>3, <2>4, <2>5, <2>8 DEF PlainNow, RepNow
  <2>10. /\ call'.fn = call.fn /\ call'.patt = call.patt /\ call'.repl = call.repl
         /\ call'.s = call.s /\ call'.nrep = call.nrep /\ call'.p = p
         /\ call'.pc = IF p < obj.dest.len THEN "slice" ELSE "tail"
    BY <1>1, <2>1 DEF CallType, End
  <2>11. TextOK'
    BY <1>1, <1>2, <2>6, <2>10, TextOKStays
  <2>12. /\ RepNow' = RepNow /\ \A i : GoalTo(i)' = GoalTo(i)
         /\ \A q : PlainNow(q)' <=> PlainNow(q)
         /\ BoundaryNow' <=> BoundaryNow
    BY <1>1, <1>2, <2>10, TextsStay
  <2>13. UpTo(call.s)' /\ BoundaryNow' /\ PlainNow(p)' /\ RepNow' = RepNow
    <3>1. UpTo(call.s)'
      BY <1>1, <2>6, <2>10, <2>12 DEF UpTo
    <3> QED BY <2>6, <2>9, <2>12, <3>1
  <2>14. LoopOK'
    BY <1>1, <2>9, <2>10, <2>13 DEF LoopOK
  <2>15. DoneOK'
    BY <2>10 DEF DoneOK
  <2> QED BY <2>11, <2>14, <2>15 DEF TextInv
<1>4. CASE Decode
  <2>1. call.fn = "utf8" /\ ~Replaces
    BY <1>4 DEF Decode, Replaces
  <2>2. PICK r : call' = IF ~InLoop(call.p) THEN [call EXCEPT !.pc = "tail"]
                         ELSE IF r.status = OK THEN [call EXCEPT !.p = @ + r.num_bytes]
                         ELSE [call EXCEPT !.pc = "slice"]
    BY <1>4 DEF Decode
  <2>3. /\ call'.fn = call.fn /\ call'.patt = call.patt /\ call'.repl = call.repl
        /\ call'.pc \in {"tail", "slice", "search"}
    BY <1>1, <2>2 DEF CallType
  <2>4. TextOK'
    BY <1>1, <1>2, <2>1, <2>3, TextOKStays
  <2>5. ~Replaces' /\ DoneOK'
    BY <2>1, <2>3 DEF Replaces, DoneOK
  <2> QED BY <2>4, <2>5 DEF TextInv
<1> QED BY <1>3, <1>4

LEMMA AppendSliceText == MemInv /\ TextInv /\ AppendSlice => TextInv'
<1> SUFFICES ASSUME MemInv, TextInv, AppendSlice PROVE TextInv'
  OBVIOUS
<1>1. /\ MemOK /\ InCall /\ call \in CallType /\ TextOK /\ call.pc = "slice"
      /\ sb_append(Slice(call.s, call.p)) /\ obj' = obj /\ promise' = promise
      /\ call' = [call EXCEPT !.pc = "repl"]
  BY DEF MemInv, CallOK, TextInv, AppendSlice, InCall
<1>2. /\ call.s \in Nat /\ call.p \in Nat /\ call.s <= call.p /\ call.p <= obj.dest.len
  BY <1>1 DEF MemInv, CallOK, CallType
<1>3. Safe(live, heap, buff, Slice(call.s, call.p))
  BY <1>1, <1>2, SliceSafe
<1>4. /\ \A t : Safe(live, heap, buff, t) => Kept(live, heap, live', heap', t)
      /\ PiecesIn(heap', buff', count')
           = PiecesIn(heap, buff, count) \o TextIn(heap, Slice(call.s, call.p))
  BY <1>1, <1>3, BuilderAppends
<1>5. /\ call'.fn = call.fn /\ call'.patt = call.patt /\ call'.repl = call.repl
      /\ call'.s = call.s /\ call'.nrep = call.nrep /\ call'.p = call.p /\ call'.pc = "repl"
  BY <1>1 DEF CallType
<1>6. TextOK'
  <2>1. Replaces /\ call'.nrep = 0 => call'.s = 0
    BY <1>1, <1>5 DEF TextOK
  <2> QED BY <1>1, <1>4, <1>5, <2>1, TextOKStays
<1>7. ASSUME Replaces PROVE LoopOK'
  <2>1. UpTo(call.s) /\ BoundaryNow /\ PlainNow(call.p) /\ call.p + 1 \in RepNow
    BY <1>1, <1>7 DEF TextInv, LoopOK
  <2>2. /\ RepNow' = RepNow /\ \A i : GoalTo(i)' = GoalTo(i)
        /\ \A q : PlainNow(q)' <=> PlainNow(q)
        /\ BoundaryNow' <=> BoundaryNow
    BY <1>1, <1>4, <1>5, TextsStay
  <2>3. GoalTo(call.p) = Followed(GoalTo(call.s), Stretch(promise.was, call.s, call.p))
    BY <1>1, <1>2, <1>7, <2>1, PlainCopied
  <2>4. TextIn(heap, Slice(call.s, call.p)) = Stretch(TextIn(heap, obj.dest), call.s, call.p)
    BY <1>1, <1>2, SliceText
  <2>5. TextIn(heap, obj.dest) = promise.was
    BY <1>1 DEF TextOK
  <2>6. PiecesIn(heap, buff, count) = GoalTo(call.s) /\ call.nrep = RepUpTo(RepNow, call.s)
    BY <2>1 DEF UpTo
  <2>7. PiecesIn(heap', buff', count') = GoalTo(call.p)
    BY <1>4, <2>3, <2>4, <2>5, <2>6, Zenon DEF Followed
  <2>8. PICK p : p = call.p /\ p = call'.p
    BY <1>5
  <2>9. PiecesIn(heap', buff', count') = GoalTo(p)' /\ call'.nrep = RepUpTo(RepNow', call'.s)
    BY <1>5, <2>2, <2>6, <2>7, <2>8
  <2>10. UpTo(p)' /\ PlainNow(p)' /\ BoundaryNow' /\ call'.p + 1 \in RepNow'
    BY <1>5, <2>1, <2>2, <2>8, <2>9 DEF UpTo
  <2>11. UpTo(call.p)' /\ PlainNow(call.p)'
    BY <2>8, <2>10 DEF UpTo, PlainNow, GoalTo
  <2> QED BY <1>5, <2>10, <2>11 DEF LoopOK
<1>8. (Replaces' => Replaces) /\ DoneOK'
  BY <1>1, <1>5 DEF Replaces, DoneOK
<1> QED BY <1>6, <1>7, <1>8 DEF TextInv

LEMMA AppendReplText == MemInv /\ TextInv /\ AppendRepl => TextInv'
<1> SUFFICES ASSUME MemInv, TextInv, AppendRepl PROVE TextInv'
  OBVIOUS
<1>1. /\ MemOK /\ InCall /\ call \in CallType /\ TextOK /\ call.pc = "repl"
      /\ sb_append(call.repl) /\ obj' = obj /\ promise' = promise
  BY DEF MemInv, CallOK, TextInv, AppendRepl, InCall
<1>2. PICK e, n : /\ e = ReplacedUpTo(call.p) /\ n = call.nrep + 1
                  /\ call' = [call EXCEPT !.nrep = n, !.s = e, !.p = e, !.pc = "search"]
  BY DEF AppendRepl
<1>3. Safe(live, heap, buff, call.repl)
  BY <1>1 DEF MemInv, CallOK
<1>4. /\ \A t : Safe(live, heap, buff, t) => Kept(live, heap, live', heap', t)
      /\ PiecesIn(heap', buff', count') = PiecesIn(heap, buff, count) \o TextIn(heap, call.repl)
  BY <1>1, <1>3, BuilderAppends
<1>5. /\ call'.fn = call.fn /\ call'.patt = call.patt /\ call'.repl = call.repl
      /\ call'.s = e /\ call'.nrep = n /\ call'.p = e /\ call'.pc = "search" /\ call.nrep \in Nat
  BY <1>1, <1>2 DEF CallType
<1>6. TextOK'
  <2>1. call'.nrep # 0
    BY <1>2, <1>5
  <2> QED BY <1>1, <1>4, <1>5, <2>1, TextOKStays
<1>7. ASSUME Replaces PROVE LoopOK'
  <2>1. UpTo(call.p) /\ BoundaryNow /\ PlainNow(call.p) /\ call.p + 1 \in RepNow
    BY <1>1, <1>7 DEF TextInv, LoopOK
  <2>2. PICK x : x = promise.was
    OBVIOUS
  <2>3. PICK patt : patt = TextIn(heap, call.patt)
    OBVIOUS
  <2>4. PICK repl : repl = TextIn(heap, call.repl)
    OBVIOUS
  <2>5. PICK fn, s, p : fn = call.fn /\ s = call.s /\ p = call.p
    OBVIOUS
  <2>6. /\ x \in Seq(Nat) /\ Len(x) = obj.dest.len /\ patt \in Seq(Nat) /\ patt # <<>>
        /\ Len(patt) = call.patt.len /\ repl \in Seq(Nat)
        /\ fn \in {"substring", "chars", "spans"}
        /\ s \in Nat /\ p \in Nat /\ s <= p /\ p <= Len(x)
        /\ e = EndsAt(fn, x, patt, p)
    BY <1>1, <1>2, <1>7, <2>2, <2>3, <2>4, <2>5, TextsKnown
  <2>7. p < Len(x) /\ (fn = "substring" => p + Len(patt) <= Len(x))
    BY <1>1, <2>5, <2>6 DEF MemInv, CallOK
  <2>8. PICK rep, drop : rep = Rep(fn, x, patt) /\ drop = Drop(fn, x, patt)
    OBVIOUS
  <2>9. rep = RepNow /\ drop = DropNow
    BY <2>2, <2>3, <2>5, <2>8 DEF RepNow, DropNow
  <2>10. Boundary(fn, x, patt, s) /\ Plain(fn, x, patt, s, p) /\ p + 1 \in Rep(fn, x, patt)
    BY <2>1, <2>2, <2>3, <2>5, <2>8, <2>9 DEF BoundaryNow, PlainNow
  <2>11. /\ e \in Nat /\ p + 1 <= e /\ e <= Len(x)
         /\ \A k \in p + 2 .. e : k \notin rep /\ k \in drop
         /\ Boundary(fn, x, patt, e)
    <3>1. /\ e \in Nat /\ p + 1 <= e /\ e <= Len(x)
          /\ \A k \in p + 2 .. e : k \notin Rep(fn, x, patt) /\ k \in Drop(fn, x, patt)
          /\ Boundary(fn, x, patt, e)
      BY ONLY <2>6, <2>7, <2>10, SkipsTo
    <3> QED BY <2>8, <3>1
  <2>12. p + 1 \in rep
    BY <2>8, <2>10
  <2>13. EditedTo(x, rep, drop, repl, e) = Followed(EditedTo(x, rep, drop, repl, p), repl)
    <3>1. /\ x \in Seq(Nat) /\ repl \in Seq(Nat) /\ p \in Nat /\ e \in Nat
          /\ p < Len(x) /\ p + 1 <= e /\ e <= Len(x) /\ p + 1 \in rep
      BY <2>6, <2>7, <2>11, <2>12
    <3>2. \A k \in p + 2 .. e : k \notin rep /\ k \in drop
      BY <2>11
    <3> QED BY ONLY <3>1, <3>2, RoundAdds
  <2>14. \A i : GoalTo(i) = EditedTo(x, rep, drop, repl, i)
    BY <2>2, <2>4, <2>9 DEF GoalTo
  <2>15. PiecesIn(heap', buff', count') = GoalTo(e)
    <3>1. PiecesIn(heap, buff, count) = GoalTo(p)
      BY <2>1, <2>5 DEF UpTo
    <3> QED BY <1>4, <2>4, <2>13, <2>14, <3>1, Zenon DEF Followed
  <2>16. n = RepUpTo(rep, e)
    <3>1. RepUpTo(rep, e) = RepUpTo(rep, p) + 1
      BY ONLY <2>6, <2>11, <2>12, RepOne
    <3>2. RepUpTo(rep, p) = RepUpTo(rep, s)
      BY <1>1, <1>7, <2>1, <2>5, <2>6, <2>9, PlainCopied
    <3>3. call.nrep = RepUpTo(rep, s)
      BY <2>1, <2>5, <2>9 DEF UpTo
    <3> QED BY <1>2, <3>1, <3>2, <3>3
  <2>17. RepNow' = RepNow /\ \A i : GoalTo(i)' = GoalTo(i)
    BY <1>1, <1>4, <1>5, TextsStay
  <2>18. UpTo(e)'
    BY <1>5, <2>9, <2>15, <2>16, <2>17 DEF UpTo
  <2>19. UpTo(call.s)'
    BY <1>5, <2>18 DEF UpTo, GoalTo
  <2>20. BoundaryNow'
    <3>1. TextIn(heap', call'.patt) = patt
      <4>1. Safe(live, heap, buff, call.patt)
        BY <1>1 DEF MemInv, CallOK
      <4> QED BY <1>4, <1>5, <2>3, <4>1 DEF Kept
    <3> QED BY <1>1, <1>5, <2>2, <2>5, <2>11, <3>1 DEF BoundaryNow
  <2> QED BY <1>5, <2>19, <2>20 DEF LoopOK
<1>8. (Replaces' => Replaces) /\ DoneOK'
  BY <1>1, <1>5 DEF Replaces, DoneOK
<1> QED BY <1>6, <1>7, <1>8 DEF TextInv

LEMMA AppendTailText == MemInv /\ TextInv /\ AppendTail => TextInv'
<1> SUFFICES ASSUME MemInv, TextInv, AppendTail PROVE TextInv'
  OBVIOUS
<1>1. /\ MemOK /\ InCall /\ call \in CallType /\ TextOK /\ call.pc = "tail"
      /\ sb_append(Slice(call.s, End)) /\ obj' = obj /\ promise' = promise
      /\ call' = [call EXCEPT !.pc = IF call.nrep > 0 THEN "join" ELSE "done"]
  BY DEF MemInv, CallOK, TextInv, AppendTail, InCall
<1>2. PICK l : l = obj.dest.len
  OBVIOUS
<1>3. /\ call.s \in Nat /\ call.nrep \in Nat /\ l \in Nat /\ call.s <= l /\ l <= obj.dest.len
      /\ End = l
  <2>1. obj.dest.len \in Nat
    BY <1>1, InputIs
  <2>2. call.s \in Nat /\ call.p \in Nat /\ call.s <= call.p /\ call.p <= obj.dest.len
    BY <1>1 DEF MemInv, CallOK, CallType
  <2> QED BY <1>1, <1>2, <2>1, <2>2 DEF CallType, End
<1>4. Safe(live, heap, buff, Slice(call.s, l))
  BY <1>1, <1>3, SliceSafe
<1>5. /\ \A t : Safe(live, heap, buff, t) => Kept(live, heap, live', heap', t)
      /\ PiecesIn(heap', buff', count')
           = PiecesIn(heap, buff, count) \o TextIn(heap, Slice(call.s, l))
  BY <1>1, <1>3, <1>4, BuilderAppends
<1>6. /\ call'.fn = call.fn /\ call'.patt = call.patt /\ call'.repl = call.repl
      /\ call'.s = call.s /\ call'.nrep = call.nrep
      /\ call'.pc = IF call.nrep > 0 THEN "join" ELSE "done"
  BY <1>1 DEF CallType
<1>7. TextOK'
  <2>1. Replaces /\ call'.nrep = 0 => call'.s = 0
    BY <1>1, <1>6 DEF TextOK
  <2> QED BY <1>1, <1>5, <1>6, <2>1, TextOKStays
<1>8. ASSUME Replaces
      PROVE  /\ PiecesIn(heap', buff', count') = promise.text
             /\ call.nrep = promise.nrep
             /\ call.nrep = 0 => promise.text = promise.was
  <2>1. UpTo(call.s) /\ PlainNow(l)
    BY <1>1, <1>2, <1>8 DEF TextInv, LoopOK
  <2>2. /\ promise.text = GoalTo(l) /\ promise.nrep = Cardinality(RepNow)
        /\ call.nrep = 0 => call.s = 0
    BY <1>1, <1>2, <1>8 DEF TextOK
  <2>3. /\ GoalTo(l) = Followed(GoalTo(call.s), Stretch(promise.was, call.s, l))
        /\ RepUpTo(RepNow, l) = RepUpTo(RepNow, call.s)
    BY <1>1, <1>3, <1>8, <2>1, PlainCopied
  <2>4. TextIn(heap, Slice(call.s, l)) = Stretch(TextIn(heap, obj.dest), call.s, l)
    BY <1>1, <1>3, SliceText
  <2>5. TextIn(heap, obj.dest) = promise.was
    BY <1>1 DEF TextOK
  <2>6. PiecesIn(heap, buff, count) = GoalTo(call.s) /\ call.nrep = RepUpTo(RepNow, call.s)
    BY <2>1 DEF UpTo
  <2>7. PiecesIn(heap', buff', count') = promise.text
    BY <1>5, <2>2, <2>3, <2>4, <2>5, <2>6, Zenon DEF Followed
  <2>8. call.nrep = promise.nrep
    BY <1>1, <1>2, <1>8, <2>2, <2>3, <2>6, AllCounted
  <2>9. ASSUME call.nrep = 0 PROVE promise.text = promise.was
    <3>1. PICK x : x = promise.was
      OBVIOUS
    <3>2. x \in Seq(Nat) /\ Len(x) = l
      BY <1>1, <1>2, <1>8, <3>1, TextsKnown
    <3>3. GoalTo(call.s) = <<>>
      <4>1. call.s = 0
        BY <2>2, <2>9
      <4>2. GoalTo(0) = <<>>
        BY EditedNone, Zenon DEF GoalTo
      <4> QED BY <4>1, <4>2, Zenon
    <3>4. Stretch(x, 0, l) = x
      BY <3>2 DEF Stretch
    <3>5. Stretch(promise.was, call.s, l) = x
      BY <2>2, <2>9, <3>1, <3>4, Zenon
    <3>6. \A y \in Seq(Nat) : <<>> \o y = y
      OBVIOUS
    <3> QED BY <2>2, <2>3, <3>1, <3>2, <3>3, <3>5, <3>6, Zenon DEF Followed
  <2> QED BY <2>7, <2>8, <2>9
<1>9. ASSUME Replaces' PROVE LoopOK'
  <2>1. Replaces
    BY <1>1, <1>6, <1>9 DEF Replaces
  <2>2. call'.pc = "join"
    BY <1>6, <1>9 DEF Replaces, InCall
  <2> QED BY <1>1, <1>6, <1>8, <2>1, <2>2 DEF LoopOK
<1>10. DoneOK'
  <2> SUFFICES ASSUME call'.pc = "done", call'.fn # "utf8"
               PROVE  Delivered(promise.text, promise.nrep)'
    BY DEF DoneOK
  <2>1. Replaces /\ call.nrep = 0
    BY <1>1, <1>3, <1>6 DEF Replaces
  <2>2. promise.text = promise.was /\ promise.nrep = 0
    BY <1>8, <2>1
  <2>3. Text(obj.dest)' = promise'.was
    <3>1. Text(obj.dest)' = TextIn(heap', obj'.dest)
      BY TextIsIn DEF Text, TextIn, Bytes, BytesIn
    <3>2. TextIn(heap', obj'.dest) = promise'.was
      BY <1>1, <1>5, <1>6, TextsStay
    <3> QED BY <3>1, <3>2
  <2> QED BY <1>1, <1>6, <2>1, <2>2, <2>3 DEF Delivered
<1> QED BY <1>7, <1>9, <1>10 DEF TextInv

LEMMA JoinText == MemInv /\ TextInv /\ Join => TextInv'
<1> SUFFICES ASSUME MemInv, TextInv, Join PROVE TextInv'
  OBVIOUS
<1>1. /\ MemOK /\ InCall /\ call \in CallType /\ TextOK /\ call.pc = "join"
      /\ sb_join /\ obj' = obj /\ promise' = promise
      /\ call' = [call EXCEPT !.pc = "assign"]
  BY DEF MemInv, CallOK, TextInv, Join, InCall
<1>2. /\ \A t : Safe(live, heap, buff, t) => Kept(live, heap, live', heap', t)
      /\ TextIn(heap', buff'[0]) = PiecesIn(heap, buff, count)
      /\ \/ buff'[0] = str_null /\ PiecesIn(heap, buff, count) = <<>>
         \/ /\ buff'[0].own
            /\ heap'[buff'[0].at] = Append(PiecesIn(heap, buff, count), 0)
  BY <1>1, BuilderJoins
<1>3. /\ call'.fn = call.fn /\ call'.patt = call.patt /\ call'.repl = call.repl
      /\ call'.s = call.s /\ call'.nrep = call.nrep /\ call'.pc = "assign"
  BY <1>1 DEF CallType
<1>4. TextOK'
  <2>1. Replaces /\ call'.nrep = 0 => call'.s = 0
    BY <1>1, <1>3 DEF TextOK
  <2> QED BY <1>1, <1>2, <1>3, <2>1, TextOKStays
<1>5. ASSUME Replaces PROVE LoopOK'
  <2>1. PiecesIn(heap, buff, count) = promise.text /\ call.nrep = promise.nrep
    BY <1>1, <1>5 DEF TextInv, LoopOK
  <2>2. PICK t : t = promise.text /\ t = promise'.text
    BY <1>1
  <2>3. /\ TextIn(heap', buff'[0]) = t
        /\ \/ buff'[0] = str_null /\ t = <<>>
           \/ buff'[0].own /\ heap'[buff'[0].at] = Append(t, 0)
    BY <1>2, <2>1, <2>2
  <2>4. call'.nrep = promise'.nrep
    BY <1>1, <1>3, <2>1
  <2> QED BY <1>3, <2>2, <2>3, <2>4 DEF LoopOK
<1>6. (Replaces' => Replaces) /\ DoneOK'
  BY <1>1, <1>3 DEF Replaces, DoneOK
<1> QED BY <1>4, <1>5, <1>6 DEF TextInv

LEMMA FailText == MemInv /\ TextInv /\ mem_failure => TextInv'
<1> SUFFICES ASSUME MemInv, TextInv, mem_failure PROVE TextInv'
  OBVIOUS
<1>1. /\ InCall /\ call \in CallType /\ TextOK
      /\ call' = [call EXCEPT !.pc = "exited"]
      /\ UNCHANGED <<live, heap, buff, count, obj, promise>>
  BY DEF MemInv, CallOK, TextInv, mem_failure, InCall
<1>2. call'.pc = "exited"
  BY <1>1 DEF CallType
<1>3. TextIn(heap', obj'.dest) = promise'.was
  BY <1>1 DEF TextOK
<1>4. ~Replaces' /\ DoneOK'
  BY <1>2 DEF Replaces, InCall, DoneOK
<1> QED BY <1>3, <1>4 DEF TextInv, TextOK

LEMMA AssignText == MemInv /\ TextInv /\ assign_sb => TextInv'
<1> SUFFICES ASSUME MemInv, TextInv, assign_sb PROVE TextInv'
  OBVIOUS
<1>1. /\ MemOK /\ InCall /\ call \in CallType /\ call.pc = "assign"
      /\ buff[0] = str_null \/ buff[0].own
      /\ live' = live \ Freed(obj.dest) /\ heap' = Scrub(heap, Freed(obj.dest))
      /\ obj' = [obj EXCEPT !.dest = buff[0]]
      /\ call' = [call EXCEPT !.pc = "done"] /\ promise' = promise
  BY DEF MemInv, CallOK, assign_sb, InCall
<1>2. call'.pc = "done" /\ call'.fn = call.fn /\ call'.nrep = call.nrep
  BY <1>1 DEF CallType
<1>3. TextOK' /\ ~Replaces'
  BY <1>2 DEF TextOK, Replaces, InCall
<1>4. DoneOK'
  <2> SUFFICES ASSUME call'.fn # "utf8" PROVE Delivered(promise.text, promise.nrep)'
    BY DEF DoneOK
  <2>1. Replaces
    BY <1>1, <1>2 DEF Replaces
  <2>2. /\ TextIn(heap, buff[0]) = promise.text
        /\ call.nrep = promise.nrep
        /\ \/ buff[0] = str_null /\ promise.text = <<>>
           \/ buff[0].own /\ heap[buff[0].at] = Append(promise.text, 0)
    BY <1>1, <2>1 DEF TextInv, LoopOK
  <2>3. Sound(live, heap, buff[0]) /\ buff[0].at \notin Freed(obj.dest)
    BY <1>1, BuiltApart
  <2>4. obj'.dest = buff[0]
    BY <1>1 DEF MemOK
  <2>5. Heaps(live, heap)
    BY <1>1 DEF MemOK
  <2>6. /\ TextIn(heap', buff[0]) = TextIn(heap, buff[0])
        /\ buff[0].at \in Block => heap'[buff[0].at] = heap[buff[0].at]
    BY <1>1, <2>3, <2>5, FreesOnly
  <2>7. Text(obj.dest)' = promise.text
    <3>1. Text(obj.dest)' = TextIn(heap', obj'.dest)
      BY DEF Text, TextIn, Bytes, BytesIn
    <3> QED BY <2>2, <2>4, <2>6, <3>1
  <2>8. promise.text # <<>> => buff[0].own /\ heap'[buff[0].at] = Append(promise.text, 0)
    <3>1. buff[0].own => buff[0].at \in Block
      BY <2>3, <2>5 DEF Sound, Heaps
    <3> QED BY <2>2, <2>6, <3>1
  <2> QED BY <1>1, <1>2, <2>2, <2>4, <2>7, <2>8 DEF Delivered
<1> QED BY <1>3, <1>4 DEF TextInv

LEMMA EnterText ==
  ASSUME MemInv, NEW fn, NEW patt, Sound(live, heap, patt), NEW repl, Sound(live, heap, repl),
         Enter(fn, patt, repl)
  PROVE  TextInv'
<1>1. MemOK /\ fn \in Fn
  BY DEF MemInv, Enter
<1>2. PICK e : /\ e = Expected(fn, Text(obj.dest), Text(patt), Text(repl))
               /\ promise' = [was |-> Text(obj.dest), text |-> e.text, nrep |-> e.nrep]
  BY DEF Enter
<1>3. /\ call' = [NoCall EXCEPT !.fn = fn, !.patt = patt, !.repl = repl,
                    !.pc = IF NothingToDo(fn, patt) THEN "done" ELSE "search"]
      /\ obj' = obj /\ live' = live /\ heap' = heap /\ sb_init
  BY DEF Enter
<1>4. /\ call'.fn = fn /\ call'.patt = patt /\ call'.repl = repl
      /\ call'.s = 0 /\ call'.p = 0 /\ call'.nrep = 0
      /\ call'.pc = IF NothingToDo(fn, patt) THEN "done" ELSE "search"
  BY <1>3 DEF NoCall
<1>5. PICK x : x = Text(obj.dest)
  OBVIOUS
<1>6. PICK y : y = Text(patt)
  OBVIOUS
<1>7. PICK z : z = Text(repl)
  OBVIOUS
<1>8. /\ x = TextIn(heap, obj.dest) /\ y = TextIn(heap, patt) /\ z = TextIn(heap, repl)
  BY <1>5, <1>6, <1>7, TextIsIn
<1>9. /\ x \in Seq(Nat) /\ Len(x) = obj.dest.len /\ y \in Seq(Nat) /\ Len(y) = patt.len
      /\ z \in Seq(Nat)
  <2>1. Heaps(live, heap) /\ Sound(live, heap, obj.dest)
    BY <1>1 DEF MemOK
  <2> QED BY <1>8, <2>1, TextLength
<1>10. promise'.was = x /\ promise'.text = e.text /\ promise'.nrep = e.nrep /\ e = Expected(fn, x, y, z)
  BY <1>2, <1>5, <1>6, <1>7
<1>11. NothingToDo(fn, patt) <=> x = <<>> \/ (fn # "utf8" /\ y = <<>>)
  BY <1>9 DEF NothingToDo, str_is_empty
<1>12. TextIn(heap', obj'.dest) = promise'.was /\ Text(obj.dest)' = x
  <2>1. Text(obj.dest)' = TextIn(heap', obj'.dest)
    BY DEF Text, TextIn, Bytes, BytesIn
  <2> QED BY <1>3, <1>8, <1>10, <2>1
<1>13. CASE NothingToDo(fn, patt)
  <2>1. call'.pc = "done"
    BY <1>4, <1>13
  <2>2. x = <<>> \/ y = <<>> \/ fn = "utf8"
    BY <1>11, <1>13
  <2>3. e = [text |-> x, nrep |-> 0]
    BY <1>10, <2>2 DEF Expected
  <2>4. promise'.text = x /\ promise'.nrep = 0
    BY <1>10, <2>3
  <2>5. Delivered(promise.text, promise.nrep)'
    BY <1>4, <1>12, <2>4 DEF Delivered
  <2>6. ~Replaces' /\ ~InCall'
    BY <2>1 DEF Replaces, InCall
  <2> QED BY <2>1, <2>5, <2>6 DEF TextInv, TextOK, DoneOK, Replaces
<1>14. CASE ~NothingToDo(fn, patt)
  <2>1. call'.pc = "search"
    BY <1>4, <1>14
  <2>2. DoneOK'
    BY <2>1 DEF DoneOK
  <2>3. CASE fn = "utf8"
    <3>1. ~Replaces'
      BY <1>4, <2>3 DEF Replaces
    <3> QED BY <1>12, <2>2, <3>1 DEF TextInv, TextOK
  <2>4. CASE fn # "utf8"
    <3>1. x # <<>> /\ y # <<>> /\ fn \in {"substring", "chars", "spans"}
      BY <1>1, <1>11, <1>14, <2>4, ReplaceAssumption
    <3>2. PICK rep, drop : rep = Rep(fn, x, y) /\ drop = Drop(fn, x, y)
      OBVIOUS
    <3>3. e = [text |-> EditedTo(x, rep, drop, z, Len(x)), nrep |-> Cardinality(rep)]
      BY <1>9, <1>10, <3>1, <3>2, ExpectedIs
    <3>4. RepNow' = rep /\ \A i : GoalTo(i)' = EditedTo(x, rep, drop, z, i)
      BY <1>3, <1>4, <1>8, <1>10, <3>2 DEF RepNow, DropNow, GoalTo
    <3>5. promise'.text = EditedTo(x, rep, drop, z, Len(x)) /\ promise'.nrep = Cardinality(rep)
      BY <1>10, <3>3
    <3>6. PICK l : l = Len(x) /\ l = obj'.dest.len
      BY <1>3, <1>9
    <3>7. promise'.text = GoalTo(l)' /\ promise'.nrep = Cardinality(RepNow')
      BY <3>4, <3>5, <3>6
    <3>8. promise'.text = GoalTo(obj.dest.len)'
      BY <3>6, <3>7 DEF GoalTo
    <3>9. TextOK'
      BY <1>4, <1>12, <3>7, <3>8 DEF TextOK
    <3>10. PiecesIn(heap', buff', count') = <<>>
      <4>1. count' = 0
        BY <1>3 DEF sb_init
      <4>2. PiecesIn(heap', buff', 0) = <<>>
        <5>1. [k \in 1 .. 0 |-> TextIn(heap', buff'[k - 1])] = <<>>
          OBVIOUS
        <5> QED BY <5>1, FlattenNone, Zenon DEF PiecesIn
      <4> QED BY <4>1, <4>2
    <3>11. GoalTo(0)' = <<>>
      BY <3>4, EditedNone, Zenon
    <3>12. call'.nrep = RepUpTo(RepNow', 0)
      <4>1. RepUpTo(RepNow', 0) = Cardinality({})
        <5>1. RepNow' \cap 1 .. 0 = {}
          OBVIOUS
        <5> QED BY <5>1, Zenon DEF RepUpTo
      <4> QED BY <1>4, <4>1, FS_EmptySet
    <3>13. UpTo(call.s)'
      <4>1. GoalTo(call.s)' = GoalTo(0)'
        BY <1>4 DEF GoalTo
      <4> QED BY <1>4, <3>10, <3>11, <3>12, <4>1 DEF UpTo
    <3>14. BoundaryNow'
      <4>1. Boundary(fn, x, y, 0)
        <5>1. CASE fn = "substring"
          <6>1. \A k \in Chosen(x, y) : ~(k <= 0)
            BY <1>9, <3>1, ChosenExists DEF Choice, Found
          <6> QED BY <5>1, <6>1 DEF Boundary
        <5>2. CASE fn = "chars"
          BY <5>2 DEF Boundary
        <5>3. CASE fn = "spans"
          BY <5>3 DEF Boundary
        <5> QED BY <3>1, <5>1, <5>2, <5>3
      <4> QED BY <1>3, <1>4, <1>8, <1>10, <4>1 DEF BoundaryNow
    <3>15. LoopOK'
      BY <2>1, <3>13, <3>14 DEF LoopOK
    <3> QED BY <2>2, <3>9, <3>15 DEF TextInv
  <2> QED BY <2>3, <2>4
<1> QED BY <1>13, <1>14

LEMMA CallStepText == MemInv /\ CallStep => TextInv'
<1> SUFFICES ASSUME MemInv, CallStep PROVE TextInv'
  OBVIOUS
<1>1. /\ \A a \in Arguments : Sound(live, heap, a)
      /\ \A a \in Literal : Sound(live, heap, str_lit(a))
  BY ArgumentSound DEF MemInv
<1>2. CASE str_to_valid_utf8
  <2>1. Enter("utf8", str_null, str_lit(UFFFD))
    BY <1>2 DEF str_to_valid_utf8
  <2>2. Sound(live, heap, str_lit(UFFFD)) /\ Sound(live, heap, str_null)
    BY <1>1, NullSound, ReplaceAssumption
  <2> QED BY <2>1, <2>2, EnterText
<1>3. ASSUME NEW patt \in Arguments, NEW repl \in Arguments,
             \/ str_replace_substring(patt, repl)
             \/ str_replace_chars(patt, repl)
             \/ str_replace_char_spans(patt, repl)
      PROVE  TextInv'
  <2>1. \E fn : Enter(fn, patt, repl)
    BY <1>3 DEF str_replace_substring, str_replace_chars, str_replace_char_spans
  <2> QED BY <1>1, <2>1, EnterText
<1> QED BY <1>2, <1>3 DEF CallStep

LEMMA InitText == Init => TextInv
<1> SUFFICES ASSUME Init PROVE TextInv
  OBVIOUS
<1>1. call.pc = "idle"
  BY DEF Init, NoCall
<1> QED BY <1>1 DEF TextInv, TextOK, DoneOK, Replaces, InCall

LEMMA NextText == MemInv /\ TextInv /\ [Next]_vars => TextInv'
<1> SUFFICES ASSUME MemInv, TextInv, [Next]_vars PROVE TextInv'
  OBVIOUS
<1>1. CASE UNCHANGED vars
  BY <1>1 DEF vars, TextInv, TextOK, LoopOK, DoneOK, Replaces, InCall, RepNow, DropNow, GoalTo,
              UpTo, PlainNow, BoundaryNow, Delivered, Text, Bytes
<1>2. CASE CallStep
  BY <1>2, CallStepText
<1>3. CASE LibraryStep
  BY <1>3, SearchText, AppendSliceText, AppendReplText, AppendTailText, JoinText, AssignText,
     FailText DEF LibraryStep
<1>4. CASE Ended
  BY <1>1, <1>4 DEF Ended
<1> QED BY <1>1, <1>2, <1>3, <1>4 DEF Next

\* Replaced: whatever text, pattern and replacement, and however often the
\* builder is full in between, the destination ends up with the text in which
\* exactly the chosen bytes are replaced, and keeps the one it had until then,
\* also when memory runs out; the latter holds of the repair of UTF-8, too.
THEOREM ReplacesWhatItShould == Spec => []Replaced
<1>1. Init => MemInv /\ TextInv
  BY InitMem, InitText
<1>2. (MemInv /\ TextInv) /\ [Next]_vars => (MemInv /\ TextInv)'
  BY NextMem, NextText
<1>3. TextInv => Replaced
  BY TextIsIn DEF TextInv, TextOK, DoneOK, Replaced
<1> QED BY <1>1, <1>2, <1>3, PTL DEF Spec

----------------------------------------------------------------------------
(* The repair of UTF-8: u is what the loop has put together, k the bytes it *)
(* has accepted since and r those in front of it; x is the whole text.      *)

Counted(x) == str_count_codepoints(x)

Patched(x, nrep, u, k, r) ==
  /\ u \in Seq(Byte) /\ k \in Seq(Byte) /\ r \in Seq(Byte)
  /\ IsValid(u) /\ IsValid(k)
  /\ Counted(u) + Counted(k) + Counted(r) = Counted(x)
  /\ nrep = 0 => u = <<>> /\ x = k \o r
  /\ nrep # 0 => ~IsValid(x)

\* The bytes in front are refused, those accepted are put together, too.
Refused(r) == r # <<>> /\ str_decode_utf8(r).status # OK
Broken(x, u, r) ==
  /\ u \in Seq(Byte) /\ r \in Seq(Byte) /\ IsValid(u) /\ ~IsValid(x)
  /\ Counted(u) + Counted(r) = Counted(x)

Mended(x, u) == IsValid(u) /\ Counted(u) = Counted(x) /\ ~IsValid(x)

LEMMA StretchesJoin ==
  ASSUME NEW S, NEW x \in Seq(S), NEW a \in Nat, NEW b \in Nat, NEW c \in Nat,
         a <= b, b <= c, c <= Len(x)
  PROVE  Stretch(x, a, b) \o Stretch(x, b, c) = Stretch(x, a, c)
BY DEF Stretch

LEMMA WholeStretch ==
  ASSUME NEW S, NEW x \in Seq(S), NEW n, n = Len(x)
  PROVE  Stretch(x, 0, n) = x
BY DEF Stretch

LEMMA BytesAssociative ==
  \A x, y, z \in Seq(Byte) : x \o (y \o z) = (x \o y) \o z
<1> SUFFICES ASSUME NEW S, NEW x \in Seq(S), NEW y \in Seq(S), NEW z \in Seq(S)
             PROVE  x \o (y \o z) = (x \o y) \o z
  OBVIOUS
<1> QED OBVIOUS

LEMMA CountedType == \A x \in Seq(Byte) : Counted(x) \in Nat
<1> SUFFICES ASSUME NEW x \in Seq(Byte) PROVE Counted(x) \in Nat
  OBVIOUS
<1>1. Len(x) \in Nat
  BY LenProperties
<1> QED BY ONLY <1>1, x \in Seq(Byte), CountLaws DEF Counted

LEMMA JoinedBytes == \A u, v \in Seq(Byte) : u \o v \in Seq(Byte)
BY ConcatProperties

LEMMA JoinedCount ==
  ASSUME NEW u \in Seq(Byte), NEW v \in Seq(Byte), IsValid(u)
  PROVE  /\ IsValid(u \o v) <=> IsValid(v)
         /\ Counted(u \o v) = Counted(u) + Counted(v)
BY ValidJoins DEF ValidInFront, Counted

\* An encoding is accepted.
LEMMA Accepting ==
  ASSUME NEW x, NEW nrep, NEW u, NEW k, NEW r, Patched(x, nrep, u, k, r), r # <<>>,
         NEW d, d = str_decode_utf8(r), d.status = OK,
         NEW m \in Nat, m = d.num_bytes, NEW e, e = SubSeq(r, 1, m), NEW z, z = From(r, m + 1)
  PROVE  1 <= m /\ m <= Len(r) /\ Patched(x, nrep, u, k \o e, z)
<1>1. /\ u \in Seq(Byte) /\ k \in Seq(Byte) /\ r \in Seq(Byte) /\ IsValid(u) /\ IsValid(k)
      /\ Counted(u) + Counted(k) + Counted(r) = Counted(x)
      /\ nrep = 0 => u = <<>> /\ x = k \o r
      /\ nrep # 0 => ~IsValid(x)
  BY DEF Patched
<1>2. PICK s, y : Steps(r, d, s, y)
  BY ONLY <1>1, r # <<>>, d = str_decode_utf8(r), FirstStep
<1>3. s = m
  BY ONLY <1>2, d.status = OK, m = d.num_bytes DEF Steps, CountStep, OK, ERROR
<1>4. /\ 1 <= m /\ m <= Len(r) /\ z \in Seq(Byte) /\ str_count_codepoints(r) = 1 + str_count_codepoints(z)
  BY ONLY <1>2, <1>3, z = From(r, m + 1) DEF Steps
<1>5. m \in 1 .. Len(r)
  <2>1. Len(r) \in Nat
    BY ONLY <1>1, LenProperties
  <2> QED BY ONLY <1>4, <2>1, m \in Nat
<1>6. IsEncoding(e) /\ e \in Seq(Byte)
  <2>1. m = CountStep(d)
    BY ONLY <1>2, <1>3 DEF Steps
  <2>2. IsEncoding(e)
    BY ONLY <1>1, <1>5, <2>1, r # <<>>, d = str_decode_utf8(r), d.status = OK, e = SubSeq(r, 1, m),
            EncodingAtFront
  <2>3. e \in Seq(Byte)
    BY ONLY <1>1, <1>5, e = SubSeq(r, 1, m), FirstOnes
  <2> QED BY ONLY <2>2, <2>3
<1>7. IsValid(e) /\ Counted(e) = 1
  BY ONLY <1>6, OneEncoding DEF Counted
<1>8. k \o e \in Seq(Byte) /\ IsValid(k \o e) /\ Counted(k \o e) = Counted(k) + 1
  <2>1. IsValid(k \o e) /\ Counted(k \o e) = Counted(k) + Counted(e)
    BY ONLY <1>1, <1>6, <1>7, JoinedCount
  <2> QED BY ONLY <1>1, <1>6, <1>7, <2>1, JoinedBytes
<1>9. Counted(u) + Counted(k \o e) + Counted(z) = Counted(x)
  <2>1. Counted(u) \in Nat /\ Counted(k) \in Nat /\ Counted(z) \in Nat
    BY ONLY <1>1, <1>4, CountedType
  <2>2. Counted(r) = 1 + Counted(z)
    BY ONLY <1>4 DEF Counted
  <2> QED BY ONLY <1>1, <1>8, <2>1, <2>2
<1>10. k \o r = (k \o e) \o z
  <2>1. r = e \o z
    <3>1. PICK n \in Nat : n = Len(r) /\ m <= n
      BY ONLY <1>1, <1>4, LenProperties
    <3>2. e = Stretch(r, 0, m) /\ z = Stretch(r, m, n)
      BY ONLY <3>1, e = SubSeq(r, 1, m), z = From(r, m + 1) DEF Stretch, From
    <3>3. Stretch(r, 0, m) \o Stretch(r, m, n) = Stretch(r, 0, n) /\ Stretch(r, 0, n) = r
      <4>1. 0 \in Nat /\ 0 <= m /\ n <= Len(r)
        BY ONLY <1>1, <3>1, m \in Nat, LenProperties
      <4>2. Stretch(r, 0, m) \o Stretch(r, m, n) = Stretch(r, 0, n)
        BY ONLY <1>1, <3>1, <4>1, m \in Nat, StretchesJoin
      <4> QED BY ONLY <1>1, <3>1, <4>2, WholeStretch
    <3> QED BY ONLY <3>2, <3>3
  <2>2. k \o (e \o z) = (k \o e) \o z
    <3>1. k \in Seq(Byte) /\ e \in Seq(Byte) /\ z \in Seq(Byte)
      BY ONLY <1>1, <1>4, <1>6
    <3> QED BY ONLY <3>1, BytesAssociative, Zenon
  <2> QED BY ONLY <2>1, <2>2
<1> QED BY ONLY <1>1, <1>4, <1>8, <1>9, <1>10 DEF Patched

\* Nothing valid begins with bytes that are refused.
LEMMA Refusing ==
  ASSUME NEW x, NEW nrep, NEW u, NEW k, NEW r, Patched(x, nrep, u, k, r), Refused(r)
  PROVE  Broken(x, u \o k, r)
<1>1. /\ u \in Seq(Byte) /\ k \in Seq(Byte) /\ r \in Seq(Byte) /\ IsValid(u) /\ IsValid(k)
      /\ Counted(u) + Counted(k) + Counted(r) = Counted(x)
      /\ nrep = 0 => u = <<>> /\ x = k \o r
      /\ nrep # 0 => ~IsValid(x)
  BY DEF Patched
<1>2. ~IsValid(r)
  <2>1. PICK d : d = str_decode_utf8(r)
    OBVIOUS
  <2>2. r # <<>> /\ d.status # OK
    BY ONLY <2>1, Refused(r) DEF Refused
  <2>3. PICK s, z : Steps(r, d, s, z)
    BY ONLY <1>1, <2>1, <2>2, FirstStep
  <2> QED BY ONLY <2>2, <2>3 DEF Steps
<1>3. ~IsValid(x)
  <2>1. IsValid(k \o r) <=> IsValid(r)
    BY ONLY <1>1, JoinedCount
  <2> QED BY ONLY <1>1, <1>2, <2>1
<1>4. u \o k \in Seq(Byte) /\ IsValid(u \o k) /\ Counted(u \o k) = Counted(u) + Counted(k)
  BY ONLY <1>1, JoinedCount, JoinedBytes
<1> QED BY ONLY <1>1, <1>3, <1>4 DEF Broken

\* One U+FFFD for what counts as one codepoint.
LEMMA Replacing ==
  ASSUME NEW x, NEW u, NEW r, Broken(x, u, r), Refused(r), NEW n \in Nat,
         NEW d, d = str_decode_utf8(r), NEW m, m = ReplaceStep(d), NEW z, z = From(r, m + 1),
         NEW f, f = <<239, 191, 189>>
  PROVE  m \in Nat /\ 1 <= m /\ m <= Len(r) /\ Patched(x, n + 1, u \o f, <<>>, z)
<1>1. /\ u \in Seq(Byte) /\ r \in Seq(Byte) /\ IsValid(u) /\ ~IsValid(x)
      /\ Counted(u) + Counted(r) = Counted(x)
  BY DEF Broken
<1>2. r # <<>> /\ d.status # OK
  BY DEF Refused
<1>3. PICK s, y : Steps(r, d, s, y)
  BY ONLY <1>1, <1>2, d = str_decode_utf8(r), FirstStep
<1>4. m = s
  <2>1. s = CountStep(d)
    BY ONLY <1>3 DEF Steps
  <2>2. d.status = ERROR \/ d.status = INCOMPLETE
    <3>1. Accepts(r, d) \/ Refuses(r, d)
      BY ONLY <1>1, <1>2, d = str_decode_utf8(r), Verdict
    <3>2. Accepts(r, d) => d.status = OK
      BY ONLY DEF Accepts, result_ok, Result
    <3>3. Refuses(r, d) => d.status = ERROR \/ d.status = INCOMPLETE
      BY ONLY DEF Refuses, result_error, result_incomplete, Result
    <3> QED BY ONLY <1>2, <3>1, <3>2, <3>3
  <2> QED BY ONLY <2>1, <2>2, m = ReplaceStep(d) DEF CountStep, ReplaceStep, ERROR, INCOMPLETE
<1>5. /\ m \in Nat /\ 1 <= m /\ m <= Len(r) /\ z \in Seq(Byte)
      /\ str_count_codepoints(r) = 1 + str_count_codepoints(z)
  BY ONLY <1>3, <1>4, z = From(r, m + 1) DEF Steps
<1>6. f \in Seq(Byte) /\ IsValid(f) /\ Counted(f) = 1
  BY ONLY f = <<239, 191, 189>>, ReplacementCharacter DEF Counted
<1>7. u \o f \in Seq(Byte) /\ IsValid(u \o f) /\ Counted(u \o f) = Counted(u) + 1
  <2>1. IsValid(u \o f) /\ Counted(u \o f) = Counted(u) + Counted(f)
    BY ONLY <1>1, <1>6, JoinedCount
  <2> QED BY ONLY <1>1, <1>6, <2>1, JoinedBytes
<1>8. <<>> \in Seq(Byte) /\ IsValid(<<>>) /\ Counted(<<>>) = 0
  BY ONLY EmptySeq, EmptyText DEF Counted
<1>9. Counted(u \o f) + Counted(<<>>) + Counted(z) = Counted(x)
  <2>1. Counted(u) \in Nat /\ Counted(z) \in Nat
    BY ONLY <1>1, <1>5, CountedType
  <2>2. Counted(r) = 1 + Counted(z)
    BY ONLY <1>5 DEF Counted
  <2> QED BY ONLY <1>1, <1>7, <1>8, <2>1, <2>2
<1>10. n + 1 # 0
  OBVIOUS
<1> QED BY ONLY <1>1, <1>5, <1>7, <1>8, <1>9, <1>10 DEF Patched

\* Nothing is left.
LEMMA Finishing ==
  ASSUME NEW x, NEW nrep, NEW u, NEW k, Patched(x, nrep, u, k, <<>>)
  PROVE  /\ nrep = 0 => IsValid(x)
         /\ nrep # 0 => Mended(x, u \o k)
<1>1. /\ u \in Seq(Byte) /\ k \in Seq(Byte) /\ IsValid(u) /\ IsValid(k)
      /\ Counted(u) + Counted(k) + Counted(<<>>) = Counted(x)
      /\ nrep = 0 => x = k \o <<>>
      /\ nrep # 0 => ~IsValid(x)
  BY DEF Patched
<1>2. k \o <<>> = k
  BY ONLY <1>1
<1>3. IsValid(u \o k) /\ Counted(u \o k) = Counted(u) + Counted(k)
  BY ONLY <1>1, JoinedCount
<1>4. Counted(<<>>) = 0 /\ Counted(u) \in Nat /\ Counted(k) \in Nat
  <2>1. Counted(<<>>) = 0
    BY ONLY EmptyText DEF Counted
  <2> QED BY ONLY <1>1, <2>1, CountedType
<1> QED BY ONLY <1>1, <1>2, <1>3, <1>4 DEF Mended

\* What a repair has come to at step pc, of the text x of length l: u is the
\* text put together so far, and the bytes from s to p are accepted.
RepairAt(pc, x, nrep, u, s, p, l) ==
  /\ pc \in {"search", "slice", "tail"} => Patched(x, nrep, u, Stretch(x, s, p), From(x, p + 1))
  /\ pc \in {"slice", "repl"} => Refused(From(x, p + 1))
  /\ pc = "repl" => Broken(x, u, From(x, p + 1))
  /\ pc = "tail" => p = l
  /\ pc \in {"join", "assign"} => Mended(x, u) /\ nrep # 0

\* y is what x, with nrep replacements, should become.
RepairedText(x, y, nrep) ==
  /\ IsValid(y) /\ Counted(y) = Counted(x)
  /\ IsValid(x) <=> nrep = 0
  /\ IsValid(x) => y = x

Made == IF call.pc = "assign" THEN TextIn(heap, buff[0]) ELSE PiecesIn(heap, buff, count)

Repairs == InCall /\ call.fn = "utf8"

RepairOK ==
  /\ promise.was \in Seq(Byte) /\ TextIn(heap, call.repl) = <<239, 191, 189>>
  /\ RepairAt(call.pc, promise.was, call.nrep, Made, call.s, call.p, obj.dest.len)

RepairInv ==
  /\ call.pc = "idle" => TextIn(heap, obj.dest) \in Seq(Byte)
  /\ Repairs => RepairOK
  /\ call.pc = "done" /\ call.fn = "utf8"
       => RepairedText(promise.was, TextIn(heap, obj.dest), call.nrep)

\* The bytes in front of offset p, where there are any.
LEMMA AheadIs ==
  ASSUME NEW x \in Seq(Byte), NEW l \in Nat, l = Len(x), NEW p \in Nat, p < l,
         NEW r, r = From(x, p + 1)
  PROVE  r \in Seq(Byte) /\ r # <<>> /\ Len(r) = l - p
<1>1. PICK i \in Nat, k \in Nat : /\ i = p + 1 /\ k = l + 1 - i /\ k = l - p
                                /\ 1 <= i /\ i <= l + 1 /\ 1 <= k
  <2>1. /\ p + 1 \in Nat /\ l + 1 - (p + 1) \in Nat /\ l + 1 - (p + 1) = l - p
        /\ 1 <= p + 1 /\ p + 1 <= l + 1 /\ 1 <= l + 1 - (p + 1)
    OBVIOUS
  <2> QED BY ONLY <2>1
<1>2. Ending(Byte, x, i, k, From(x, i))
  BY ONLY <1>1, x \in Seq(Byte), l \in Nat, l = Len(x), FromIs
<1>3. r \in Seq(Byte) /\ Len(r) = k
  BY ONLY <1>1, <1>2, r = From(x, p + 1) DEF Ending
<1>4. r # <<>>
  <2>1. Len(<<>>) = 0
    OBVIOUS
  <2> QED BY ONLY <1>1, <1>3, <2>1
<1> QED BY ONLY <1>1, <1>3, <1>4

LEMMA StepAhead ==
  ASSUME NEW x \in Seq(Byte), NEW l \in Nat, l = Len(x), NEW p \in Nat, p < l,
         NEW r, r = From(x, p + 1), NEW m \in Nat, 1 <= m, m <= Len(r),
         NEW q \in Nat, q = p + m
  PROVE  q <= l /\ SubSeq(r, 1, m) = Stretch(x, p, q) /\ From(r, m + 1) = From(x, q + 1)
<1>1. r \in Seq(Byte) /\ Len(r) = l - p
  BY ONLY x \in Seq(Byte), l \in Nat, l = Len(x), p \in Nat, p < l, r = From(x, p + 1), AheadIs
<1>2. q <= l
  BY <1>1
<1>3. PICK i \in Nat, j \in Nat : /\ i = p + 1 /\ j = q + 1 /\ 1 <= i /\ i <= q
                                /\ m = q - i + 1
  <2>1. p + 1 \in Nat /\ q + 1 \in Nat /\ 1 <= p + 1 /\ p + 1 <= q /\ m = q - (p + 1) + 1
    OBVIOUS
  <2> QED BY ONLY <2>1
<1>4. SubSeq(x, i, q) = SubSeq(From(x, i), 1, m)
  BY ONLY <1>2, <1>3, x \in Seq(Byte), l \in Nat, l = Len(x), q \in Nat, m \in Nat, PartFrom
<1>5. PICK k \in Nat : k = m + 1 /\ 1 <= k /\ j = i + k - 1 /\ j <= l + 1
  <2>1. m + 1 \in Nat /\ 1 <= m + 1 /\ j = i + (m + 1) - 1 /\ j <= l + 1
    BY <1>2, <1>3
  <2> QED BY ONLY <2>1
<1>6. From(From(x, i), k) = From(x, j)
  BY ONLY <1>3, <1>5, x \in Seq(Byte), l \in Nat, l = Len(x), FromFrom
<1> QED BY ONLY <1>2, <1>3, <1>4, <1>5, <1>6, r = From(x, p + 1) DEF Stretch

LEMMA RepairStarts ==
  ASSUME NEW x \in Seq(Byte), NEW l
  PROVE  /\ RepairAt("search", x, 0, <<>>, 0, 0, l)
         /\ x = <<>> => RepairedText(x, x, 0)
<1>1. Patched(x, 0, <<>>, <<>>, x)
  <2>1. <<>> \in Seq(Byte) /\ IsValid(<<>>) /\ Counted(<<>>) = 0
    BY ONLY EmptySeq, EmptyText DEF Counted
  <2>2. Counted(<<>>) + Counted(<<>>) + Counted(x) = Counted(x)
    <3>1. Counted(x) \in Nat
      BY CountedType
    <3> QED BY ONLY <2>1, <3>1
  <2>3. x = <<>> \o x
    BY ONLY x \in Seq(Byte)
  <2> QED BY ONLY <2>1, <2>2, <2>3, x \in Seq(Byte) DEF Patched
<1>2. Stretch(x, 0, 0) = <<>>
  BY DEF Stretch
<1>3. From(x, 0 + 1) = x
  <2>1. From(x, 1) = x
    BY FromEnds
  <2>2. 0 + 1 = 1
    OBVIOUS
  <2> QED BY ONLY <2>1, <2>2
<1>4. RepairAt("search", x, 0, <<>>, 0, 0, l)
  BY ONLY <1>1, <1>2, <1>3 DEF RepairAt
<1>5. x = <<>> => RepairedText(x, x, 0)
  BY ONLY EmptyText DEF RepairedText
<1> QED BY <1>4, <1>5

\* What is valid is accepted.
LEMMA RepairAccepts ==
  ASSUME NEW x \in Seq(Byte), NEW l \in Nat, l = Len(x), NEW s \in Nat, NEW p \in Nat,
         s <= p, p < l, NEW nrep, NEW u, RepairAt("search", x, nrep, u, s, p, l),
         NEW d, d = str_decode_utf8(From(x, p + 1)), d.status = OK,
         NEW m \in Nat, m = d.num_bytes, NEW q \in Nat, q = p + m
  PROVE  RepairAt("search", x, nrep, u, s, q, l)
<1>1. PICK r : r = From(x, p + 1)
  OBVIOUS
<1>2. PICK k : k = Stretch(x, s, p)
  OBVIOUS
<1>3. r # <<>>
  BY ONLY <1>1, x \in Seq(Byte), l \in Nat, l = Len(x), p \in Nat, p < l, AheadIs
<1>4. Patched(x, nrep, u, k, r)
  BY ONLY <1>1, <1>2, RepairAt("search", x, nrep, u, s, p, l) DEF RepairAt
<1>5. PICK e, z : e = SubSeq(r, 1, m) /\ z = From(r, m + 1)
  OBVIOUS
<1>6. d = str_decode_utf8(r)
  BY <1>1
<1>7. 1 <= m /\ m <= Len(r) /\ Patched(x, nrep, u, k \o e, z)
  BY ONLY <1>3, <1>4, <1>5, <1>6, d.status = OK, m \in Nat, m = d.num_bytes, Accepting
<1>8. q <= l /\ e = Stretch(x, p, q) /\ z = From(x, q + 1)
  BY ONLY <1>1, <1>5, <1>7, x \in Seq(Byte), l \in Nat, l = Len(x), p \in Nat, p < l, m \in Nat,
          q \in Nat, q = p + m, StepAhead
<1>9. k \o e = Stretch(x, s, q)
  <2>1. p <= q /\ q <= Len(x)
    BY <1>8
  <2> QED BY ONLY <1>2, <1>8, <2>1, x \in Seq(Byte), s \in Nat, p \in Nat, q \in Nat, s <= p,
                  StretchesJoin
<1> QED BY ONLY <1>7, <1>8, <1>9 DEF RepairAt

\* Something invalid stops the search, and so does the end.
LEMMA RepairStops ==
  ASSUME NEW x \in Seq(Byte), NEW l \in Nat, l = Len(x), NEW s, NEW p \in Nat, p <= l,
         NEW nrep, NEW u, RepairAt("search", x, nrep, u, s, p, l)
  PROVE  /\ /\ p < l
            /\ str_decode_utf8(From(x, p + 1)).status # OK
            => RepairAt("slice", x, nrep, u, s, p, l)
         /\ ~(p < l) => RepairAt("tail", x, nrep, u, s, p, l)
<1>1. Patched(x, nrep, u, Stretch(x, s, p), From(x, p + 1))
  BY DEF RepairAt
<1>2. p < l => From(x, p + 1) # <<>>
  BY ONLY x \in Seq(Byte), l \in Nat, l = Len(x), p \in Nat, AheadIs
<1>3. ~(p < l) => p = l
  OBVIOUS
<1> QED BY ONLY <1>1, <1>2, <1>3 DEF RepairAt, Refused

LEMMA RepairSlices ==
  ASSUME NEW x, NEW l, NEW s, NEW p, NEW nrep, NEW u, RepairAt("slice", x, nrep, u, s, p, l)
  PROVE  RepairAt("repl", x, nrep, u \o Stretch(x, s, p), s, p, l)
<1>1. PICK r : r = From(x, p + 1)
  OBVIOUS
<1>2. PICK k : k = Stretch(x, s, p)
  OBVIOUS
<1>3. Patched(x, nrep, u, k, r) /\ Refused(r)
  BY <1>1, <1>2 DEF RepairAt
<1>4. Broken(x, u \o k, r)
  BY ONLY <1>3, Refusing
<1> QED BY ONLY <1>1, <1>2, <1>3, <1>4 DEF RepairAt

LEMMA RepairReplaces ==
  ASSUME NEW x \in Seq(Byte), NEW l \in Nat, l = Len(x), NEW s, NEW p \in Nat, p < l,
         NEW nrep \in Nat, NEW u, RepairAt("repl", x, nrep, u, s, p, l),
         NEW d, d = str_decode_utf8(From(x, p + 1)), NEW q, q = p + ReplaceStep(d),
         NEW f, f = <<239, 191, 189>>
  PROVE  RepairAt("search", x, nrep + 1, u \o f, q, q, l)
<1>1. PICK r : r = From(x, p + 1)
  OBVIOUS
<1>2. Broken(x, u, r) /\ Refused(r)
  BY ONLY <1>1, RepairAt("repl", x, nrep, u, s, p, l) DEF RepairAt
<1>3. PICK m, z : m = ReplaceStep(d) /\ z = From(r, m + 1)
  OBVIOUS
<1>4. d = str_decode_utf8(r)
  BY <1>1
<1>5. m \in Nat /\ 1 <= m /\ m <= Len(r) /\ Patched(x, nrep + 1, u \o f, <<>>, z)
  BY ONLY <1>2, <1>3, <1>4, nrep \in Nat, f = <<239, 191, 189>>, Replacing
<1>6. q = p + m /\ q \in Nat
  BY ONLY <1>3, <1>5, p \in Nat, q = p + ReplaceStep(d)
<1>7. z = From(x, q + 1)
  BY ONLY <1>1, <1>3, <1>5, <1>6, x \in Seq(Byte), l \in Nat, l = Len(x), p \in Nat, p < l,
          StepAhead
<1>8. Stretch(x, q, q) = <<>>
  BY <1>6 DEF Stretch
<1> QED BY ONLY <1>5, <1>7, <1>8 DEF RepairAt

LEMMA RepairEnds ==
  ASSUME NEW x \in Seq(Byte), NEW l \in Nat, l = Len(x), NEW s, NEW p,
         NEW nrep \in Nat, NEW u, RepairAt("tail", x, nrep, u, s, p, l)
  PROVE  /\ nrep > 0 => RepairAt("join", x, nrep, u \o Stretch(x, s, l), s, p, l)
         /\ ~(nrep > 0) => RepairedText(x, x, nrep)
<1>1. PICK k : k = Stretch(x, s, l)
  OBVIOUS
<1>2. p = l /\ Patched(x, nrep, u, k, From(x, l + 1))
  BY <1>1 DEF RepairAt
<1>3. From(x, l + 1) = <<>>
  BY FromEnds
<1>4. Patched(x, nrep, u, k, <<>>)
  BY ONLY <1>2, <1>3
<1>5. (nrep = 0 => IsValid(x)) /\ (nrep # 0 => Mended(x, u \o k))
  BY ONLY <1>4, Finishing
<1>6. nrep > 0 <=> nrep # 0
  OBVIOUS
<1> QED BY ONLY <1>1, <1>5, <1>6 DEF RepairAt, RepairedText

LEMMA RepairJoins ==
  ASSUME NEW x, NEW l, NEW s, NEW p, NEW nrep, NEW u
  PROVE  /\ RepairAt("join", x, nrep, u, s, p, l) => RepairAt("assign", x, nrep, u, s, p, l)
         /\ RepairAt("assign", x, nrep, u, s, p, l) => RepairedText(x, u, nrep)
BY DEF RepairAt, Mended, RepairedText

\* What is known while the text is repaired.
LEMMA RepairKnown ==
  ASSUME MemInv, TextInv, RepairInv, Repairs
  PROVE  /\ promise.was \in Seq(Byte) /\ TextIn(heap, call.repl) = <<239, 191, 189>>
         /\ RepairAt(call.pc, promise.was, call.nrep, Made, call.s, call.p, obj.dest.len)
         /\ obj.dest.len \in Nat /\ obj.dest.len = Len(promise.was)
         /\ Input = promise.was /\ End = obj.dest.len
         /\ call.s \in Nat /\ call.p \in Nat /\ call.nrep \in Nat
         /\ call.s <= call.p /\ call.p <= obj.dest.len
         /\ call.pc \in {"slice", "repl"} => call.p < obj.dest.len
<1>1. MemOK /\ CallOK /\ TextOK /\ InCall /\ RepairOK
  BY DEF MemInv, TextInv, RepairInv, Repairs
<1>2. TextIn(heap, obj.dest) = promise.was
  BY <1>1 DEF TextOK
<1>3. /\ Len(Input) = obj.dest.len /\ End = obj.dest.len /\ Input = TextIn(heap, obj.dest)
      /\ obj.dest.len \in Nat
  BY <1>1, InputIs
<1>4. /\ call.s \in Nat /\ call.p \in Nat /\ call.nrep \in Nat
      /\ call.s <= call.p /\ call.p <= obj.dest.len
      /\ call.pc \in {"slice", "repl"} => call.p < obj.dest.len
  BY <1>1 DEF CallOK, CallType
<1>5. /\ promise.was \in Seq(Byte) /\ TextIn(heap, call.repl) = <<239, 191, 189>>
      /\ RepairAt(call.pc, promise.was, call.nrep, Made, call.s, call.p, obj.dest.len)
  BY <1>1 DEF RepairOK
<1> HIDE DEF Input, End
<1> QED BY ONLY <1>2, <1>3, <1>4, <1>5

\* A step inside the call, of this function or of another one.
LEMMA RepairStays ==
  ASSUME MemInv, TextInv, RepairInv, Repairs, obj' = obj, promise' = promise,
         call'.fn = call.fn, call'.repl = call.repl, call'.pc # "idle", call'.pc # "done",
         \A t : Safe(live, heap, buff, t) => Kept(live, heap, live', heap', t),
         RepairAt(call'.pc, promise.was, call'.nrep, Made', call'.s, call'.p, obj.dest.len)
  PROVE  RepairInv'
<1>1. promise.was \in Seq(Byte) /\ TextIn(heap, call.repl) = <<239, 191, 189>>
  BY RepairKnown
<1>2. Safe(live, heap, buff, call.repl)
  BY DEF MemInv, CallOK, Repairs
<1>3. TextIn(heap', call'.repl) = <<239, 191, 189>>
  BY <1>1, <1>2 DEF Kept
<1>4. RepairOK'
  BY <1>1, <1>3 DEF RepairOK
<1> QED BY <1>4 DEF RepairInv

LEMMA NoRepair ==
  ASSUME call'.fn = call.fn, call.fn # "utf8", call'.pc # "idle"
  PROVE  RepairInv'
BY DEF RepairInv, Repairs

LEMMA SearchRepair == MemInv /\ TextInv /\ RepairInv /\ (Search \/ Decode) => RepairInv'
<1> SUFFICES ASSUME MemInv, TextInv, RepairInv, Search \/ Decode PROVE RepairInv'
  OBVIOUS
<1>1. /\ InCall /\ call.pc = "search" /\ call \in CallType /\ MemOK
      /\ live' = live /\ heap' = heap /\ buff' = buff /\ count' = count /\ obj' = obj
      /\ promise' = promise
  BY DEF MemInv, CallOK, Search, Decode, InCall
<1>2. CASE Search
  <2>1. call.fn # "utf8" /\ call'.fn = call.fn /\ call'.pc # "idle"
    BY <1>1, <1>2 DEF Search, CallType
  <2> QED BY <2>1, NoRepair
<1>3. CASE Decode
  <2>1. Repairs
    BY <1>1, <1>3 DEF Decode, Repairs
  <2>2. PICK x : x = promise.was
    OBVIOUS
  <2>3. PICK l, s, p, nrep, u : /\ l = obj.dest.len /\ s = call.s /\ p = call.p
                                /\ nrep = call.nrep /\ u = Made
    OBVIOUS
  <2>4. /\ x \in Seq(Byte) /\ l \in Nat /\ l = Len(x) /\ s \in Nat /\ p \in Nat /\ s <= p /\ p <= l
        /\ RepairAt("search", x, nrep, u, s, p, l) /\ Input = x /\ End = l
    BY <1>1, <2>1, <2>2, <2>3, RepairKnown
  <2>5. PICK d : d = str_decode_utf8(From(x, p + 1))
    OBVIOUS
  <2>6. call' = IF ~(p < l) THEN [call EXCEPT !.pc = "tail"]
                ELSE IF d.status = OK THEN [call EXCEPT !.p = @ + d.num_bytes]
                ELSE [call EXCEPT !.pc = "slice"]
    BY <1>3, <2>3, <2>4, <2>5 DEF Decode, InLoop
  <2>7. \A t : Safe(live, heap, buff, t) => Kept(live, heap, live', heap', t)
    BY <1>1 DEF Safe, Kept
  <2>8. \A pc : pc # "assign" /\ pc = call'.pc => u = Made'
    BY <1>1, <2>3 DEF Made
  <2>9. CASE ~(p < l)
    <3>1. /\ call'.fn = call.fn /\ call'.repl = call.repl /\ call'.pc = "tail"
          /\ call'.nrep = nrep /\ call'.s = s /\ call'.p = p
      BY <1>1, <2>3, <2>6, <2>9 DEF CallType
    <3>2. RepairAt("tail", x, nrep, u, s, p, l)
      BY ONLY <2>4, <2>9, RepairStops
    <3> QED BY <1>1, <2>1, <2>2, <2>3, <2>7, <2>8, <3>1, <3>2, RepairStays
  <2>10. CASE p < l /\ d.status = OK
    <3>1. PICK m \in Nat : m = d.num_bytes
      <4>1. PICK y : y = From(x, p + 1)
        OBVIOUS
      <4>2. y \in Seq(Byte) /\ y # <<>>
        BY ONLY <2>4, <2>10, <4>1, AheadIs
      <4>3. d = str_decode_utf8(y)
        BY <2>5, <4>1
      <4>4. PICK k, z : Steps(y, d, k, z)
        BY ONLY <4>2, <4>3, FirstStep
      <4>5. k \in Nat /\ k = d.num_bytes
        BY ONLY <2>10, <4>4 DEF Steps, CountStep, OK, ERROR
      <4> QED BY <4>5
    <3>2. PICK q \in Nat : q = p + m
      BY <2>4
    <3>3. /\ call'.fn = call.fn /\ call'.repl = call.repl /\ call'.pc = "search"
          /\ call'.nrep = nrep /\ call'.s = s /\ call'.p = q
      BY <1>1, <2>3, <2>6, <2>10, <3>1, <3>2 DEF CallType
    <3>4. RepairAt("search", x, nrep, u, s, q, l)
      BY ONLY <2>4, <2>5, <2>10, <3>1, <3>2, RepairAccepts
    <3> QED BY <1>1, <2>1, <2>2, <2>3, <2>7, <2>8, <3>3, <3>4, RepairStays
  <2>11. CASE p < l /\ d.status # OK
    <3>1. /\ call'.fn = call.fn /\ call'.repl = call.repl /\ call'.pc = "slice"
          /\ call'.nrep = nrep /\ call'.s = s /\ call'.p = p
      BY <1>1, <2>3, <2>6, <2>11 DEF CallType
    <3>2. RepairAt("slice", x, nrep, u, s, p, l)
      BY ONLY <2>4, <2>5, <2>11, RepairStops
    <3> QED BY <1>1, <2>1, <2>2, <2>3, <2>7, <2>8, <3>1, <3>2, RepairStays
  <2> QED BY <2>9, <2>10, <2>11
<1> QED BY <1>2, <1>3

LEMMA AppendSliceRepair == MemInv /\ TextInv /\ RepairInv /\ AppendSlice => RepairInv'
<1> SUFFICES ASSUME MemInv, TextInv, RepairInv, AppendSlice PROVE RepairInv'
  OBVIOUS
<1>1. /\ InCall /\ call.pc = "slice" /\ call \in CallType /\ MemOK /\ TextOK
      /\ sb_append(Slice(call.s, call.p)) /\ obj' = obj /\ promise' = promise
      /\ call' = [call EXCEPT !.pc = "repl"]
  BY DEF MemInv, CallOK, TextInv, AppendSlice, InCall
<1>2. /\ call'.fn = call.fn /\ call'.repl = call.repl /\ call'.pc = "repl"
      /\ call'.nrep = call.nrep /\ call'.s = call.s /\ call'.p = call.p
  BY <1>1 DEF CallType
<1>3. CASE Repairs
  <2>1. PICK x : x = promise.was
    OBVIOUS
  <2>2. PICK l, s, p, nrep, u : /\ l = obj.dest.len /\ s = call.s /\ p = call.p
                                /\ nrep = call.nrep /\ u = Made
    OBVIOUS
  <2>3. /\ s \in Nat /\ p \in Nat /\ s <= p /\ p <= l /\ RepairAt("slice", x, nrep, u, s, p, l)
    BY <1>1, <1>3, <2>1, <2>2, RepairKnown
  <2>4. Safe(live, heap, buff, Slice(s, p)) /\ TextIn(heap, Slice(s, p)) = Stretch(x, s, p)
    BY <1>1, <2>1, <2>2, <2>3, SliceSafe, SliceText DEF TextOK
  <2>5. /\ \A t : Safe(live, heap, buff, t) => Kept(live, heap, live', heap', t)
        /\ PiecesIn(heap', buff', count') = PiecesIn(heap, buff, count) \o Stretch(x, s, p)
    BY <1>1, <2>2, <2>4, BuilderAppends
  <2>6. Made' = u \o Stretch(x, s, p)
    BY <1>1, <1>2, <2>2, <2>5 DEF Made
  <2>7. RepairAt("repl", x, nrep, u \o Stretch(x, s, p), s, p, l)
    BY ONLY <2>3, RepairSlices
  <2> QED BY <1>1, <1>2, <1>3, <2>1, <2>2, <2>5, <2>6, <2>7, RepairStays
<1>4. CASE ~Repairs
  BY <1>1, <1>2, <1>4, NoRepair DEF Repairs
<1> QED BY <1>3, <1>4

LEMMA AppendReplRepair == MemInv /\ TextInv /\ RepairInv /\ AppendRepl => RepairInv'
<1> SUFFICES ASSUME MemInv, TextInv, RepairInv, AppendRepl PROVE RepairInv'
  OBVIOUS
<1>1. /\ InCall /\ call.pc = "repl" /\ call \in CallType /\ MemOK
      /\ sb_append(call.repl) /\ obj' = obj /\ promise' = promise
  BY DEF MemInv, CallOK, AppendRepl, InCall
<1>2. PICK q, n : /\ q = ReplacedUpTo(call.p) /\ n = call.nrep + 1
                  /\ call' = [call EXCEPT !.nrep = n, !.s = q, !.p = q, !.pc = "search"]
  BY DEF AppendRepl
<1>3. /\ call'.fn = call.fn /\ call'.repl = call.repl /\ call'.pc = "search"
      /\ call'.nrep = n /\ call'.s = q /\ call'.p = q
  BY <1>1, <1>2 DEF CallType
<1>4. CASE Repairs
  <2>1. PICK x : x = promise.was
    OBVIOUS
  <2>2. PICK l, s, p, nrep, u : /\ l = obj.dest.len /\ s = call.s /\ p = call.p
                                /\ nrep = call.nrep /\ u = Made
    OBVIOUS
  <2>3. PICK f : f = <<239, 191, 189>>
    OBVIOUS
  <2>4. /\ x \in Seq(Byte) /\ l \in Nat /\ l = Len(x) /\ p \in Nat /\ p < l /\ nrep \in Nat
        /\ RepairAt("repl", x, nrep, u, s, p, l) /\ Input = x /\ TextIn(heap, call.repl) = f
    BY <1>1, <1>4, <2>1, <2>2, <2>3, RepairKnown
  <2>5. PICK d : d = str_decode_utf8(From(x, p + 1))
    OBVIOUS
  <2>6. q = p + ReplaceStep(d)
    <3>1. call.fn = "utf8"
      BY <1>4 DEF Repairs
    <3> HIDE DEF Input
    <3> QED BY <1>2, <2>2, <2>4, <2>5, <3>1 DEF ReplacedUpTo
  <2>7. RepairAt("search", x, nrep + 1, u \o f, q, q, l)
    BY ONLY <2>3, <2>4, <2>5, <2>6, RepairReplaces
  <2>8. Safe(live, heap, buff, call.repl)
    BY <1>1 DEF MemInv, CallOK
  <2>9. /\ \A t : Safe(live, heap, buff, t) => Kept(live, heap, live', heap', t)
        /\ PiecesIn(heap', buff', count') = PiecesIn(heap, buff, count) \o f
    BY <1>1, <2>4, <2>8, BuilderAppends
  <2>10. Made' = u \o f
    BY <1>1, <1>3, <2>2, <2>9 DEF Made
  <2>11. n = nrep + 1
    BY <1>2, <2>2
  <2> QED BY <1>1, <1>3, <1>4, <2>1, <2>2, <2>7, <2>9, <2>10, <2>11, RepairStays
<1>5. CASE ~Repairs
  BY <1>1, <1>3, <1>5, NoRepair DEF Repairs
<1> QED BY <1>4, <1>5

LEMMA AppendTailRepair == MemInv /\ TextInv /\ RepairInv /\ AppendTail => RepairInv'
<1> SUFFICES ASSUME MemInv, TextInv, RepairInv, AppendTail PROVE RepairInv'
  OBVIOUS
<1>1. /\ InCall /\ call.pc = "tail" /\ call \in CallType /\ MemOK /\ TextOK
      /\ sb_append(Slice(call.s, End)) /\ obj' = obj /\ promise' = promise
      /\ call' = [call EXCEPT !.pc = IF call.nrep > 0 THEN "join" ELSE "done"]
  BY DEF MemInv, CallOK, TextInv, AppendTail, InCall
<1>2. /\ call'.fn = call.fn /\ call'.repl = call.repl
      /\ call'.pc = (IF call.nrep > 0 THEN "join" ELSE "done")
      /\ call'.nrep = call.nrep /\ call'.s = call.s /\ call'.p = call.p
  BY <1>1 DEF CallType
<1>3. CASE Repairs
  <2>1. PICK x : x = promise.was
    OBVIOUS
  <2>2. PICK l, s, p, nrep, u : /\ l = obj.dest.len /\ s = call.s /\ p = call.p
                                /\ nrep = call.nrep /\ u = Made
    OBVIOUS
  <2>3. /\ x \in Seq(Byte) /\ l \in Nat /\ l = Len(x) /\ s \in Nat /\ p \in Nat /\ nrep \in Nat
        /\ s <= p /\ p <= l /\ RepairAt("tail", x, nrep, u, s, p, l) /\ End = l
    BY <1>1, <1>3, <2>1, <2>2, RepairKnown
  <2>4. Safe(live, heap, buff, Slice(s, l)) /\ TextIn(heap, Slice(s, l)) = Stretch(x, s, l)
    <3>1. s <= l /\ l <= obj.dest.len
      BY <2>2, <2>3
    <3> QED BY <1>1, <2>1, <2>3, <3>1, SliceSafe, SliceText DEF TextOK
  <2>5. /\ \A t : Safe(live, heap, buff, t) => Kept(live, heap, live', heap', t)
        /\ PiecesIn(heap', buff', count') = PiecesIn(heap, buff, count) \o Stretch(x, s, l)
    <3>1. sb_append(Slice(s, l))
      BY <1>1, <2>2, <2>3
    <3> QED BY <1>1, <2>4, <3>1, BuilderAppends
  <2>6. /\ nrep > 0 => RepairAt("join", x, nrep, u \o Stretch(x, s, l), s, p, l)
        /\ ~(nrep > 0) => RepairedText(x, x, nrep)
    BY ONLY <2>3, RepairEnds
  <2>7. CASE nrep > 0
    <3>1. call'.pc = "join"
      BY <1>2, <2>2, <2>7
    <3>2. Made' = u \o Stretch(x, s, l)
      BY <1>1, <2>2, <2>5, <3>1 DEF Made
    <3> QED BY <1>1, <1>2, <1>3, <2>1, <2>2, <2>5, <2>6, <2>7, <3>1, <3>2, RepairStays
  <2>8. CASE ~(nrep > 0)
    <3>1. call'.pc = "done"
      BY <1>2, <2>2, <2>8
    <3>2. TextIn(heap', obj'.dest) = x
      <4>1. Safe(live, heap, buff, obj.dest) /\ TextIn(heap, obj.dest) = x
        BY <1>1, <2>1 DEF MemOK, Safe, TextOK
      <4> QED BY <1>1, <2>5, <4>1 DEF Kept
    <3>3. RepairedText(promise'.was, TextIn(heap', obj'.dest), call'.nrep)
      BY <1>1, <1>2, <2>1, <2>2, <2>6, <2>8, <3>2
    <3> QED BY <3>1, <3>3 DEF RepairInv, Repairs, InCall
  <2> QED BY <2>7, <2>8
<1>4. CASE ~Repairs
  BY <1>1, <1>2, <1>4, NoRepair DEF Repairs
<1> QED BY <1>3, <1>4

LEMMA JoinRepair == MemInv /\ TextInv /\ RepairInv /\ Join => RepairInv'
<1> SUFFICES ASSUME MemInv, TextInv, RepairInv, Join PROVE RepairInv'
  OBVIOUS
<1>1. /\ InCall /\ call.pc = "join" /\ call \in CallType /\ MemOK
      /\ sb_join /\ obj' = obj /\ promise' = promise
      /\ call' = [call EXCEPT !.pc = "assign"]
  BY DEF MemInv, CallOK, Join, InCall
<1>2. /\ call'.fn = call.fn /\ call'.repl = call.repl /\ call'.pc = "assign"
      /\ call'.nrep = call.nrep /\ call'.s = call.s /\ call'.p = call.p
  BY <1>1 DEF CallType
<1>3. CASE Repairs
  <2>1. /\ \A t : Safe(live, heap, buff, t) => Kept(live, heap, live', heap', t)
        /\ TextIn(heap', buff'[0]) = PiecesIn(heap, buff, count)
    BY <1>1, BuilderJoins
  <2>2. Made' = Made
    BY <1>1, <1>2, <2>1 DEF Made
  <2>3. RepairAt("assign", promise.was, call.nrep, Made, call.s, call.p, obj.dest.len)
    BY <1>1, <1>3, RepairKnown, RepairJoins
  <2> QED BY <1>1, <1>2, <1>3, <2>1, <2>2, <2>3, RepairStays
<1>4. CASE ~Repairs
  BY <1>1, <1>2, <1>4, NoRepair DEF Repairs
<1> QED BY <1>3, <1>4

LEMMA AssignRepair == MemInv /\ TextInv /\ RepairInv /\ assign_sb => RepairInv'
<1> SUFFICES ASSUME MemInv, TextInv, RepairInv, assign_sb PROVE RepairInv'
  OBVIOUS
<1>1. /\ MemOK /\ InCall /\ call \in CallType /\ call.pc = "assign"
      /\ buff[0] = str_null \/ buff[0].own
      /\ live' = live \ Freed(obj.dest) /\ heap' = Scrub(heap, Freed(obj.dest))
      /\ obj' = [obj EXCEPT !.dest = buff[0]]
      /\ call' = [call EXCEPT !.pc = "done"] /\ promise' = promise
  BY DEF MemInv, CallOK, assign_sb, InCall
<1>2. call'.pc = "done" /\ call'.fn = call.fn /\ call'.nrep = call.nrep
  BY <1>1 DEF CallType
<1>3. CASE Repairs
  <2>1. RepairedText(promise.was, TextIn(heap, buff[0]), call.nrep)
    <3>1. RepairAt("assign", promise.was, call.nrep, Made, call.s, call.p, obj.dest.len)
      BY <1>1, <1>3, RepairKnown
    <3>2. Made = TextIn(heap, buff[0])
      BY <1>1 DEF Made
    <3> QED BY ONLY <3>1, <3>2, RepairJoins
  <2>2. TextIn(heap', buff[0]) = TextIn(heap, buff[0])
    <3>1. Sound(live, heap, buff[0]) /\ buff[0].at \notin Freed(obj.dest) /\ Heaps(live, heap)
      BY <1>1, BuiltApart DEF MemOK
    <3>2. PICK F, t : F = Freed(obj.dest) /\ t = buff[0]
      OBVIOUS
    <3>3. Sound(live, heap, t) /\ t.at \notin F /\ Heaps(live, heap)
      BY ONLY <3>1, <3>2
    <3>4. /\ Heaps(live \ F, Scrub(heap, F))
          /\ Sound(live \ F, Scrub(heap, F), t) /\ TextIn(Scrub(heap, F), t) = TextIn(heap, t)
          /\ t.at \in Block => Scrub(heap, F)[t.at] = heap[t.at]
      BY ONLY <3>3, FreesOnly
    <3> QED BY ONLY <1>1, <3>2, <3>4
  <2>3. obj'.dest = buff[0]
    BY <1>1 DEF MemOK
  <2>4. RepairedText(promise'.was, TextIn(heap', obj'.dest), call'.nrep)
    BY <1>1, <1>2, <2>1, <2>2, <2>3
  <2> QED BY <1>2, <2>4 DEF RepairInv, Repairs, InCall
<1>4. CASE ~Repairs
  BY <1>1, <1>2, <1>4, NoRepair DEF Repairs
<1> QED BY <1>3, <1>4

LEMMA FailRepair == MemInv /\ mem_failure => RepairInv'
<1> SUFFICES ASSUME MemInv, mem_failure PROVE RepairInv'
  OBVIOUS
<1>1. call'.pc = "exited"
  BY DEF MemInv, CallOK, CallType, mem_failure
<1> QED BY <1>1 DEF RepairInv, Repairs, InCall

LEMMA EnterRepair ==
  ASSUME MemInv, RepairInv, NEW fn, NEW patt, NEW repl, Enter(fn, patt, repl),
         fn = "utf8" => TextIn(heap, repl) = <<239, 191, 189>>
  PROVE  RepairInv'
<1>1. /\ call'.fn = fn /\ call'.repl = repl /\ call'.s = 0 /\ call'.p = 0 /\ call'.nrep = 0
      /\ call'.pc = (IF NothingToDo(fn, patt) THEN "done" ELSE "search")
      /\ obj' = obj /\ live' = live /\ heap' = heap /\ count' = 0
      /\ promise'.was = Text(obj.dest) /\ call.pc = "idle" /\ MemOK
  BY DEF Enter, NoCall, sb_init, MemInv
<1>2. CASE fn = "utf8"
  <2>1. PICK x : x = TextIn(heap, obj.dest)
    OBVIOUS
  <2>2. PICK l : l = obj.dest.len
    OBVIOUS
  <2>3. x \in Seq(Byte) /\ promise'.was = x /\ l = Len(x) /\ l \in Nat
    <3>1. Text(obj.dest) = TextIn(heap, obj.dest)
      BY TextIsIn
    <3>2. /\ Len(Input) = obj.dest.len /\ Input = TextIn(heap, obj.dest) /\ obj.dest.len \in Nat
      BY <1>1, InputIs
    <3> HIDE DEF Input
    <3> QED BY <1>1, <2>1, <2>2, <3>1, <3>2 DEF RepairInv
  <2>4. RepairAt("search", x, 0, <<>>, 0, 0, l) /\ (x = <<>> => RepairedText(x, x, 0))
    BY ONLY <2>3, RepairStarts
  <2>5. NothingToDo(fn, patt) <=> x = <<>>
    <3>1. l = 0 <=> x = <<>>
      BY <2>3
    <3> QED BY <1>2, <2>2, <3>1 DEF NothingToDo, str_is_empty
  <2>6. CASE x = <<>>
    <3>1. call'.pc = "done" /\ RepairedText(promise'.was, TextIn(heap', obj'.dest), call'.nrep)
      BY <1>1, <2>1, <2>3, <2>4, <2>5, <2>6
    <3> QED BY <3>1 DEF RepairInv, Repairs, InCall
  <2>7. CASE x # <<>>
    <3>1. call'.pc = "search"
      BY <1>1, <2>5, <2>7
    <3>2. Made' = <<>>
      <4>1. PiecesIn(heap', buff', 0) = <<>>
        <5>1. [k \in 1 .. 0 |-> TextIn(heap', buff'[k - 1])] = <<>>
          OBVIOUS
        <5> QED BY <5>1, FlattenNone, Zenon DEF PiecesIn
      <4> QED BY <1>1, <3>1, <4>1 DEF Made
    <3>3. RepairOK'
      <4>1. promise'.was \in Seq(Byte) /\ TextIn(heap', call'.repl) = <<239, 191, 189>>
        BY <1>1, <1>2, <2>3
      <4>2. RepairAt(call'.pc, promise'.was, call'.nrep, Made', call'.s, call'.p, obj'.dest.len)
        BY <1>1, <2>2, <2>3, <2>4, <3>1, <3>2
      <4> QED BY <4>1, <4>2 DEF RepairOK
    <3> QED BY <3>1, <3>3 DEF RepairInv
  <2> QED BY <2>6, <2>7
<1>3. CASE fn # "utf8"
  BY <1>1, <1>3 DEF RepairInv, Repairs
<1> QED BY <1>2, <1>3

LEMMA CallStepRepair == MemInv /\ RepairInv /\ CallStep => RepairInv'
<1> SUFFICES ASSUME MemInv, RepairInv, CallStep PROVE RepairInv'
  OBVIOUS
<1>1. CASE str_to_valid_utf8
  <2>1. Enter("utf8", str_null, str_lit(UFFFD))
    BY <1>1 DEF str_to_valid_utf8
  <2>2. TextIn(heap, str_lit(UFFFD)) = <<239, 191, 189>>
    <3>1. UFFFD \notin Block /\ LitText[UFFFD] = <<239, 191, 189>>
      BY ReplaceAssumption, HeapAssumption
    <3>2. BytesIn(heap, UFFFD) = <<239, 191, 189>>
      BY <3>1 DEF BytesIn
    <3>3. str_lit(UFFFD) = [at |-> UFFFD, off |-> 0, len |-> 3, own |-> FALSE]
      BY <3>1 DEF str_lit
    <3>4. PICK f \in Seq(Byte) : f = <<239, 191, 189>> /\ Len(f) = 3
      <4>1. <<239, 191, 189>> \in Seq(Byte)
        BY ReplacementCharacter
      <4>2. Len(<<239, 191, 189>>) = 3
        OBVIOUS
      <4> QED BY ONLY <4>1, <4>2
    <3>5. SubSeq(f, 0 + 1, 0 + 3) = f
      <4>1. Stretch(f, 0, 3) = f
        <5>1. PICK n : n = 3 /\ n = Len(f)
          BY ONLY <3>4
        <5>2. f \in Seq(Byte) /\ n = Len(f)
          BY ONLY <3>4, <5>1
        <5>3. Stretch(f, 0, n) = f
          BY ONLY <5>2, WholeStretch, Zenon
        <5> QED BY ONLY <5>1, <5>3
      <4>2. 0 + 3 = 3
        OBVIOUS
      <4> QED BY ONLY <4>1, <4>2 DEF Stretch
    <3>6. /\ str_lit(UFFFD).at = UFFFD /\ str_lit(UFFFD).off = 0 /\ str_lit(UFFFD).len = 3
          /\ ~(str_lit(UFFFD).len = 0)
      BY <3>3
    <3>7. TextIn(heap, str_lit(UFFFD)) = SubSeq(BytesIn(heap, UFFFD), 0 + 1, 0 + 3)
      BY ONLY <3>6 DEF TextIn
    <3> QED BY ONLY <3>2, <3>4, <3>5, <3>7
  <2> QED BY <2>1, <2>2, EnterRepair
<1>2. ASSUME NEW patt \in Arguments, NEW repl \in Arguments,
             \/ str_replace_substring(patt, repl)
             \/ str_replace_chars(patt, repl)
             \/ str_replace_char_spans(patt, repl)
      PROVE  RepairInv'
  <2>1. \E fn : fn # "utf8" /\ Enter(fn, patt, repl)
    BY <1>2 DEF str_replace_substring, str_replace_chars, str_replace_char_spans
  <2> QED BY <2>1, EnterRepair
<1> QED BY <1>1, <1>2 DEF CallStep

\* The bytes the program starts with are bytes.
LEMMA InitRepair == Init => RepairInv
<1> SUFFICES ASSUME Init PROVE RepairInv
  OBVIOUS
<1>1. PICK x \in DestText, y \in OtherText, b, c \in Block :
        LET other == str_acquire_mem(c, Len(y))
            mine  == str_acquire_mem(b, Len(x))
        IN  /\ b # c
            /\ \E d \in {mine, str_ref(other)} :
                 /\ obj = [dest |-> d, other |-> other]
                 /\ live = Freed(d) \cup Freed(other)
                 /\ heap = [a \in Block |-> IF a \notin live THEN <<>>
                              ELSE Append(IF a = b THEN x ELSE y, 0)]
  BY DEF Init
<1>2. PICK mine, other, d :
          /\ other = str_acquire_mem(c, Len(y)) /\ mine = str_acquire_mem(b, Len(x))
          /\ b # c /\ d \in {mine, str_ref(other)}
          /\ obj.dest = d
          /\ live = Freed(d) \cup Freed(other)
          /\ heap = [a \in Block |-> IF a \notin live THEN <<>>
                       ELSE Append(IF a = b THEN x ELSE y, 0)]
  BY <1>1
<1>3. x \in Seq(Byte) /\ y \in Seq(Byte)
  BY ReplaceAssumption
<1>4. ASSUME NEW z \in Seq(Byte), NEW a \in Block, NEW s, s = str_acquire_mem(a, Len(z)),
             a \in live => heap[a] = Append(z, 0), Freed(s) \subseteq live
      PROVE  TextIn(heap, s) \in Seq(Byte)
  <2>1. PICK n \in Nat : n = Len(z)
    BY <1>4, LenProperties
  <2>2. CASE n = 0
    <3>1. s = str_null
      BY <1>4, <2>1, <2>2 DEF str_acquire_mem
    <3> QED BY <3>1, EmptySeq DEF TextIn, str_null
  <2>3. CASE n > 0
    <3>1. s = [at |-> a, off |-> 0, len |-> n, own |-> TRUE]
      BY <1>4, <2>1, <2>3 DEF str_acquire_mem
    <3>2. a \in live
      BY <1>4, <3>1 DEF Freed
    <3>3. BytesIn(heap, a) = Append(z, 0)
      BY <1>4, <3>2 DEF BytesIn
    <3>4. SubSeq(Append(z, 0), 1, n) = z
      BY <1>4, <2>1
    <3>5. TextIn(heap, s) = SubSeq(BytesIn(heap, a), 0 + 1, 0 + n)
      BY <2>3, <3>1 DEF TextIn
    <3>6. 0 + 1 = 1 /\ 0 + n = n
      OBVIOUS
    <3> QED BY <1>4, <3>3, <3>4, <3>5, <3>6
  <2> QED BY <2>1, <2>2, <2>3
<1>5. CASE d = mine
  <2>1. b \in live => heap[b] = Append(x, 0)
    BY <1>2
  <2> QED BY <1>2, <1>3, <1>4, <1>5, <2>1 DEF RepairInv, Init, NoCall, Repairs, InCall
<1>6. CASE d = str_ref(other)
  <2>1. c \in live => heap[c] = Append(y, 0)
    BY <1>2
  <2>2. TextIn(heap, other) \in Seq(Byte)
    BY <1>2, <1>3, <1>4, <2>1
  <2>3. TextIn(heap, d) = TextIn(heap, other)
    <3>1. Len(y) \in Nat
      BY <1>3, LenProperties
    <3>2. /\ str_ref(other).at = other.at /\ str_ref(other).off = other.off
          /\ str_ref(other).len = other.len
      BY <1>2, <3>1 DEF str_acquire_mem, str_ref, str_null
    <3> QED BY <1>6, <3>2 DEF TextIn
  <2> QED BY <1>2, <2>2, <2>3 DEF RepairInv, Init, NoCall, Repairs, InCall
<1> QED BY <1>2, <1>5, <1>6

LEMMA NextRepair == MemInv /\ TextInv /\ RepairInv /\ [Next]_vars => RepairInv'
<1> SUFFICES ASSUME MemInv, TextInv, RepairInv, [Next]_vars PROVE RepairInv'
  OBVIOUS
<1>1. CASE UNCHANGED vars
  BY <1>1 DEF vars, RepairInv, RepairOK, Repairs, InCall, Made
<1>2. CASE CallStep
  BY <1>2, CallStepRepair
<1>3. CASE LibraryStep
  BY <1>3, SearchRepair, AppendSliceRepair, AppendReplRepair, AppendTailRepair, JoinRepair,
     AssignRepair, FailRepair DEF LibraryStep
<1>4. CASE Ended
  BY <1>1, <1>4 DEF Ended
<1> QED BY <1>1, <1>2, <1>3, <1>4 DEF Next

\* Repaired: whatever bytes the destination holds, however many of them are
\* invalid and however often the builder is full in between, what
\* str_to_valid_utf8 leaves is valid UTF-8 with the number of codepoints that
\* str_count_codepoints reported before; nothing is replaced, and nothing
\* changes, exactly when the bytes were valid, or when memory runs out.
THEOREM RepairsUtf8 == Spec => []Repaired
<1>1. Init => MemInv /\ TextInv /\ RepairInv
  BY InitMem, InitText, InitRepair
<1>2. (MemInv /\ TextInv /\ RepairInv) /\ [Next]_vars => (MemInv /\ TextInv /\ RepairInv)'
  BY NextMem, NextText, NextRepair
<1>3. TextInv /\ RepairInv => Repaired
  BY TextIsIn DEF TextInv, TextOK, RepairInv, RepairedText, Counted, Repaired
<1> QED BY <1>1, <1>2, <1>3, PTL DEF Spec
=============================================================================
