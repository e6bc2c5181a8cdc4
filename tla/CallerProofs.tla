---------------------------- MODULE CallerProofs ----------------------------
(***************************************************************************)
(* Two callers of functions that keep no state.                            *)
(*                                                                         *)
(* StrSplit: the loops that cut a text up find all of it, for any text and *)
(* any separator.  Utf8Codec: the decoder accepts exactly the encodings,   *)
(* reports an error at the first byte that cannot go on and inverts the    *)
(* encoder, for any bytes and any number to encode.                        *)
(***************************************************************************)
EXTENDS Utf8Codec, StrSplit, SequenceTheorems, StrLemmas
----------------------------------------------------------------------------
(* StrSplit: the objects, as what they refer to. *)

\* The bytes of s, when the text in memory is x.
TextIn(x, s) ==
  SubSeq(x \o [k \in 1 .. SIZE_MAX |-> 0], s.ptr, s.ptr + str_len(s) - 1)

\* s refers to the n bytes behind the first a ones, and perhaps owns them.
Refers(s, a, n) ==
  IF n = 0 THEN s = str_null ELSE s \in {str(a + 1, 2 * n), str(a + 1, 2 * n + 1)}

LEMMA WordHolds ==
  ASSUME NEW n \in Nat, n <= MaxLen
  PROVE  /\ str_ref_prop(n) = 2 * n /\ str_owner_prop(n) = 2 * n + 1
         /\ 2 * n + 1 <= SIZE_MAX /\ n < SIZE_MAX
<1>1. PICK M \in Nat : M = SIZE_MAX
  BY WordAssumption
<1>2. 2 * n + 1 <= M /\ n < M
  BY <1>1, SplitAssumption
<1>3. (2 * n) % (M + 1) = 2 * n
  BY ONLY n \in Nat, M \in Nat, <1>2
<1> QED BY <1>1, <1>2, <1>3 DEF str_ref_prop, str_owner_prop, Wrapped

LEMMA Halved ==
  \A n \in Nat : /\ (2 * n) \div 2 = n /\ (2 * n + 1) \div 2 = n
                 /\ (2 * n) % 2 = 0 /\ (2 * n + 1) % 2 = 1
OBVIOUS

LEMMA RefersLen ==
  ASSUME NEW s, NEW a \in Nat, NEW n \in Nat, Refers(s, a, n)
  PROVE  /\ str_len(s) = n /\ s.ptr \in Nat /\ s.prop \in Nat
         /\ n = 0 => s.ptr = 0 /\ s.prop = 0 /\ s = str_null
         /\ n # 0 => s.ptr = a + 1 /\ (s.prop = 2 * n \/ s.prop = 2 * n + 1)
         /\ s = str(s.ptr, s.prop)
<1>1. CASE n = 0
  BY <1>1 DEF Refers, str_null, str, str_len, Nullptr
<1>2. CASE n # 0
  <2>1. s.ptr = a + 1 /\ (s.prop = 2 * n \/ s.prop = 2 * n + 1) /\ s = str(s.ptr, s.prop)
    BY <1>2 DEF Refers, str
  <2> QED BY <1>2, <2>1, Halved DEF str_len
<1> QED BY <1>1, <1>2

\* A text; its definition is expanded only where the bytes matter.
Strings == Seq(Nat)

\* What stands in x behind the first a bytes, up to the first b ones.
Part(x, a, b) == SubSeq(x, a + 1, b)

LEMMA RefersText ==
  ASSUME NEW x \in Strings, NEW s, NEW a \in Nat, NEW n \in Nat,
         a + n <= Len(x), Refers(s, a, n)
  PROVE  TextIn(x, s) = Part(x, a, a + n)
<1> USE DEF Part, Strings
<1> DEFINE z == [k \in 1 .. SIZE_MAX |-> 0]
<1>1. z \in Seq(Nat)
  <2>1. \A l \in Nat : [k \in 1 .. l |-> 0] \in Seq(Nat)
    OBVIOUS
  <2> QED BY <2>1, WordAssumption
<1>0. TextIn(x, s) = SubSeq(x \o z, s.ptr, s.ptr + str_len(s) - 1)
  BY DEF TextIn
<1> HIDE DEF z
<1>2. CASE n = 0
  <2>1. TextIn(x, s) = SubSeq(x \o z, 0, 0 + 0 - 1)
    BY <1>0, <1>2, RefersLen
  <2> QED BY <1>1, <1>2, <2>1
<1>3. CASE n # 0
  <2>1. TextIn(x, s) = SubSeq(x \o z, a + 1, a + 1 + n - 1)
    BY <1>0, <1>3, RefersLen
  <2> QED BY <1>1, <1>3, <2>1
<1> QED BY <1>2, <1>3

\* How long a slice is.
SliceLen(n, i, j) == IF j <= i \/ i >= n THEN 0 ELSE IF j > n THEN n - i ELSE j - i

\* A slice of an object that refers to n bytes refers to m of them, and never
\* owns them.
LEMMA SliceRefers ==
  ASSUME NEW s, NEW a \in Nat, NEW n \in Nat, NEW i \in Nat, NEW j \in Nat, NEW m \in Nat,
         n <= MaxLen, Refers(s, a, n), m = SliceLen(n, i, j)
  PROVE  Refers(str_ref_slice(s, i, j), a + i, m) /\ ~str_is_owner(str_ref_slice(s, i, j))
<1> USE DEF SliceLen
<1>1. str_ref_slice(s, i, j) = str_ref_mem(s.ptr + i, m)
  BY RefersLen DEF str_ref_slice
<1>2. CASE m = 0
  <2>1. str_ref_slice(s, i, j) = str_null
    BY <1>1, <1>2 DEF str_ref_mem
  <2> QED BY <1>2, <2>1, Halved DEF Refers, str_is_owner, str_null, str, Nullptr
<1>3. CASE m # 0
  <2>1. n # 0 /\ m <= n /\ m <= MaxLen /\ m > 0 /\ s.ptr = a + 1
    BY <1>3, RefersLen, SplitAssumption
  <2>2. s.ptr + i # 0 /\ s.ptr + i = (a + i) + 1
    BY <2>1
  <2>3. str_ref_slice(s, i, j) = str((a + i) + 1, 2 * m)
    BY <1>1, <2>1, <2>2, WordHolds DEF str_ref_mem, Nullptr
  <2>4. ~str_is_owner(str((a + i) + 1, 2 * m))
    BY Halved DEF str_is_owner, str
  <2> QED BY <1>3, <2>3, <2>4 DEF Refers
<1> QED BY <1>2, <1>3

----------------------------------------------------------------------------
(* StrSplit: texts cut up and put together. *)

Then(u, v) == u \o v

LEMMA PartsJoin ==
  ASSUME NEW x \in Strings, NEW a \in Nat, NEW b \in Nat, NEW c \in Nat,
         a <= b, b <= c, c <= Len(x)
  PROVE  /\ Part(x, a, b) \in Strings /\ Len(Part(x, a, b)) = b - a
         /\ Then(Part(x, a, b), Part(x, b, c)) = Part(x, a, c)
BY DEF Part, Strings, Then

LEMMA WholePart == \A x \in Strings : Part(x, 0, Len(x)) = x /\ Part(x, 0, 0) = <<>>
BY DEF Part, Strings

LEMMA PartOfPart ==
  ASSUME NEW x \in Strings, NEW a \in Nat, NEW b \in Nat, NEW i \in Nat, NEW j \in Nat,
         a <= b, b <= Len(x), a + j <= b
  PROVE  Part(Part(x, a, b), i, j) = Part(x, a + i, a + j)
BY DEF Part, Strings

\* Where p stands in a part of x.
LEMMA HasAtPart ==
  ASSUME NEW x \in Strings, NEW p \in Strings, NEW a \in Nat, NEW b \in Nat,
         NEW q \in Nat, a <= b, b <= Len(x)
  PROVE  HasAt(Part(x, a, b), q, p)
           <=> a + q + Len(p) <= b /\ Part(x, a + q, a + q + Len(p)) = p
<1> USE DEF Strings
<1> DEFINE y == Part(x, a, b)
<1>0. PICK n \in Nat : n = Len(p)
  OBVIOUS
<1>1. Len(y) = b - a
  BY DEF Part
<1>2. a + q + n <= b => Part(y, q, q + n) = Part(x, a + q, a + (q + n))
  BY PartOfPart
<1>3. HasAt(y, q, p) <=> q + n <= Len(y) /\ Part(y, q, q + n) = p
  BY <1>0 DEF HasAt, Part
<1> HIDE DEF y
<1>4. a + (q + n) = a + q + n /\ (q + n <= b - a <=> a + q + n <= b)
  OBVIOUS
<1> QED BY ONLY <1>0, <1>1, <1>2, <1>3, <1>4 DEF y

LEMMA TextsAssociative ==
  \A u, v, w \in Seq(Nat) : (u \o v) \o w = u \o (v \o w)
OBVIOUS

LEMMA JoinedFirst ==
  ASSUME NEW p \in Seq(Nat), NEW t \in Seq(Nat)
  PROVE  Joined(p, <<t>>) = t
<1> DEFINE e == [k \in 1 .. 1 |-> t]
<1>1. \A k \in 1 .. 0 + 1 : e[k] \in Seq(Nat)
  OBVIOUS
<1>2. /\ [k \in DOMAIN <<t>> |-> IF k = 1 THEN <<t>>[k] ELSE p \o <<t>>[k]]
           = [k \in 1 .. 0 + 1 |-> e[k]]
      /\ [k \in 1 .. 0 |-> e[k]] = <<>> /\ e[0 + 1] = t
  OBVIOUS
<1>3. <<>> \o t = t
  OBVIOUS
<1> HIDE DEF e
<1>4. FlattenSeq([k \in 1 .. 0 + 1 |-> e[k]]) = FlattenSeq([k \in 1 .. 0 |-> e[k]]) \o e[0 + 1]
  BY <1>1, FlattenNext
<1> QED BY ONLY <1>2, <1>3, <1>4, FlattenNone, Zenon DEF Joined

LEMMA JoinedMore ==
  ASSUME NEW p \in Seq(Nat), NEW xs \in Seq(Seq(Nat)), xs # <<>>, NEW t \in Seq(Nat)
  PROVE  /\ Joined(p, xs) \in Seq(Nat)
         /\ Joined(p, Append(xs, t)) = Joined(p, xs) \o (p \o t)
<1> DEFINE n == Len(xs)  ys == Append(xs, t)
           e == [k \in 1 .. n + 1 |-> IF k = 1 THEN ys[k] ELSE p \o ys[k]]
<1>1. n \in Nat /\ n # 0
  OBVIOUS
<1>2. \A k \in 1 .. n + 1 : e[k] \in Seq(Nat)
  <2>1. \A k \in 1 .. n + 1 : ys[k] \in Seq(Nat)
    OBVIOUS
  <2>2. \A y \in Seq(Nat) : p \o y \in Seq(Nat)
    OBVIOUS
  <2> HIDE DEF ys, n
  <2> QED BY <2>1, <2>2
<1>3. Joined(p, xs) = FlattenSeq([k \in 1 .. n |-> e[k]])
  <2>1. [k \in DOMAIN xs |-> IF k = 1 THEN xs[k] ELSE p \o xs[k]] = [k \in 1 .. n |-> e[k]]
    OBVIOUS
  <2> QED BY <2>1 DEF Joined
<1>4. Joined(p, ys) = FlattenSeq([k \in 1 .. n + 1 |-> e[k]])
  <2>1. [k \in DOMAIN ys |-> IF k = 1 THEN ys[k] ELSE p \o ys[k]] = [k \in 1 .. n + 1 |-> e[k]]
    OBVIOUS
  <2> QED BY <2>1 DEF Joined
<1>5. e[n + 1] = p \o t
  OBVIOUS
<1> HIDE DEF e, n
<1> QED BY <1>1, <1>2, <1>3, <1>4, <1>5, FlattenNext DEF ys

LEMMA RepeatedMore ==
  ASSUME NEW p \in Seq(Nat), NEW n \in Nat
  PROVE  /\ Repeated(p, n) \in Seq(Nat) /\ Repeated(p, 0) = <<>>
         /\ Repeated(p, n + 1) = Repeated(p, n) \o p
<1> DEFINE e == [k \in 1 .. n + 1 |-> p]
<1>1. \A k \in 1 .. n + 1 : e[k] \in Seq(Nat)
  OBVIOUS
<1>2. /\ [k \in 1 .. n |-> p] = [k \in 1 .. n |-> e[k]]
      /\ [k \in 1 .. n + 1 |-> p] = [k \in 1 .. n + 1 |-> e[k]]
      /\ e[n + 1] = p /\ [k \in 1 .. 0 |-> p] = <<>>
  OBVIOUS
<1> HIDE DEF e
<1>3. /\ FlattenSeq([k \in 1 .. n |-> e[k]]) \in Seq(Nat)
      /\ FlattenSeq([k \in 1 .. n + 1 |-> e[k]]) = FlattenSeq([k \in 1 .. n |-> e[k]]) \o e[n + 1]
  BY <1>1, FlattenNext
<1> QED BY ONLY <1>2, <1>3, FlattenNone, Zenon DEF Repeated

\* Copies of p can be counted from either end.
LEMMA RepeatedFront ==
  ASSUME NEW p \in Seq(Nat), NEW n \in Nat
  PROVE  Repeated(p, n + 1) = p \o Repeated(p, n)
<1> DEFINE Bad == {m \in 0 .. n : Repeated(p, m + 1) # p \o Repeated(p, m)}
<1>1. ASSUME Bad # {} PROVE FALSE
  <2>1. PICK m \in Bad : \A k \in Bad : m <= k
    <3> Bad \subseteq Nat
      OBVIOUS
    <3> HIDE DEF Bad
    <3> QED BY <1>1, LeastNumber
  <2>2. m \in 0 .. n /\ Repeated(p, m + 1) # p \o Repeated(p, m)
    OBVIOUS
  <2> HIDE DEF Bad
  <2>3. m # 0
    <3>1. ASSUME m = 0 PROVE FALSE
      <4>1. Repeated(p, 0 + 1) = <<>> \o p /\ Repeated(p, 0) = <<>>
        BY RepeatedMore
      <4>2. <<>> \o p = p /\ p \o <<>> = p
        OBVIOUS
      <4> QED BY ONLY <2>2, <3>1, <4>1, <4>2, Zenon
    <3> QED BY <3>1
  <2>4. PICK k \in Nat : m = k + 1 /\ k \in 0 .. n
    <3>1. m - 1 \in Nat /\ m = (m - 1) + 1 /\ m - 1 \in 0 .. n
      BY <2>2, <2>3
    <3> QED BY <3>1
  <2>5. Repeated(p, m) = p \o Repeated(p, k)
    <3>1. k \notin Bad
      <4>1. ~(m <= k)
        BY ONLY <2>4
      <4> QED BY ONLY <2>1, <4>1
    <3> QED BY ONLY <2>4, <3>1, Zenon DEF Bad
  <2>6. /\ Repeated(p, m + 1) = Repeated(p, m) \o p /\ Repeated(p, m) = Repeated(p, k) \o p
        /\ Repeated(p, k) \in Seq(Nat)
    <3>1. m \in Nat
      BY <2>2
    <3> QED BY <2>4, <3>1, RepeatedMore
  <2>7. (p \o Repeated(p, k)) \o p = p \o (Repeated(p, k) \o p)
    BY <2>6, TextsAssociative, Zenon
  <2> QED BY ONLY <2>2, <2>5, <2>6, <2>7, Zenon
<1>2. n \in 0 .. n /\ n \notin Bad
  <2> HIDE DEF Bad
  <2> QED BY <1>1
<1> QED BY ONLY <1>2, Zenon

----------------------------------------------------------------------------
(* StrSplit: what has been cut off so far. *)

Objects == [ptr : Nat, prop : Nat]
TextsIn(x, ts) == [k \in 1 .. Len(ts) |-> TextIn(x, ts[k])]

\* Every token refers to some of the text and owns nothing.
TokenOK(x, t) ==
  /\ t \in Objects /\ ~str_is_owner(t)
  /\ \E a \in Nat, n \in Nat : a + n <= Len(x) /\ Refers(t, a, n)
TokensOK(x, ts) == ts \in Seq(Objects) /\ \A k \in 1 .. Len(ts) : TokenOK(x, ts[k])

\* Bytes i to j of s, which refers to the n bytes behind a: m bytes.
SliceAsked(x, s, a, n, i, j, m) ==
  /\ x \in Strings /\ Len(x) <= MaxLen /\ a + n <= Len(x) /\ Refers(s, a, n)
  /\ a \in Nat /\ n \in Nat /\ i \in Nat /\ j \in Nat /\ m \in Nat /\ m = SliceLen(n, i, j)
SliceGiven(x, u, b, m) ==
  /\ Refers(u, b, m) /\ TokenOK(x, u)
  /\ b + m <= Len(x) => TextIn(x, u) = Part(x, b, b + m)

LEMMA SliceIsToken ==
  ASSUME NEW x, NEW s, NEW a, NEW n, NEW i, NEW j, NEW m, SliceAsked(x, s, a, n, i, j, m)
  PROVE  SliceGiven(x, str_ref_slice(s, i, j), a + i, m)
<1> /\ x \in Strings /\ Len(x) <= MaxLen /\ a + n <= Len(x) /\ Refers(s, a, n)
    /\ a \in Nat /\ n \in Nat /\ i \in Nat /\ j \in Nat /\ m \in Nat /\ m = SliceLen(n, i, j)
  BY DEF SliceAsked
<1> USE DEF Strings
<1>0. m <= n /\ (m # 0 => i + m <= n)
  BY DEF SliceLen
<1>1. n <= MaxLen /\ Len(x) \in Nat
  BY SplitAssumption
<1>2. Refers(str_ref_slice(s, i, j), a + i, m) /\ ~str_is_owner(str_ref_slice(s, i, j))
  BY <1>1, SliceRefers
<1>3. PICK t : t = str_ref_slice(s, i, j)
  OBVIOUS
<1>4. t \in Objects
  <2>1. a + i \in Nat
    OBVIOUS
  <2>2. t.ptr \in Nat /\ t.prop \in Nat /\ t = str(t.ptr, t.prop)
    BY ONLY <1>2, <1>3, <2>1, m \in Nat, RefersLen
  <2> QED BY ONLY <2>2 DEF Objects, str
<1>5. \E b \in Nat, l \in Nat : b + l <= Len(x) /\ Refers(t, b, l)
  <2>1. CASE m = 0
    <3>1. Refers(t, 0, 0)
      BY ONLY <1>2, <1>3, <2>1 DEF Refers
    <3> QED BY <1>1, <3>1
  <2>2. CASE m # 0
    <3>1. a + i \in Nat /\ a + i + m <= Len(x)
      BY <1>0, <1>1, <2>2
    <3> QED BY <1>2, <1>3, <3>1
  <2> QED BY <2>1, <2>2
<1>6. a + i + m <= Len(x) => TextIn(x, t) = Part(x, a + i, a + i + m)
  <2>1. a + i \in Nat
    OBVIOUS
  <2> QED BY ONLY <1>2, <1>3, <2>1, x \in Seq(Nat), m \in Nat, RefersText
<1> QED BY ONLY <1>2, <1>3, <1>4, <1>5, <1>6 DEF TokenOK, SliceGiven

More(ts, t) == Append(ts, t)

LEMMA TokensMore ==
  ASSUME NEW x \in Strings, NEW ts, NEW t, TokensOK(x, ts), TokenOK(x, t)
  PROVE  /\ TokensOK(x, More(ts, t)) /\ Len(More(ts, t)) = Len(ts) + 1 /\ Len(ts) \in Nat
         /\ TextsIn(x, ts) \in Seq(Strings) /\ Len(TextsIn(x, ts)) = Len(ts)
         /\ TextsIn(x, More(ts, t)) = More(TextsIn(x, ts), TextIn(x, t))
         /\ TextIn(x, t) \in Strings /\ More(ts, t) # <<>>
         /\ \A k \in 1 .. Len(ts) + 1 : More(ts, t)[k] = IF k = Len(ts) + 1 THEN t ELSE ts[k]
<1> USE DEF Strings, More
<1>1. ts \in Seq(Objects) /\ t \in Objects /\ \A k \in 1 .. Len(ts) : TokenOK(x, ts[k])
  BY DEF TokensOK, TokenOK
<1>2. /\ Append(ts, t) \in Seq(Objects) /\ Len(Append(ts, t)) = Len(ts) + 1 /\ Len(ts) \in Nat
      /\ Append(ts, t) # <<>>
      /\ \A k \in 1 .. Len(ts) + 1 : Append(ts, t)[k] = IF k = Len(ts) + 1 THEN t ELSE ts[k]
  <2> HIDE DEF Objects
  <2> QED BY <1>1
<1>3. TokensOK(x, Append(ts, t))
  <2>1. ASSUME NEW k \in 1 .. Len(ts) + 1 PROVE TokenOK(x, Append(ts, t)[k])
    <3>1. k = Len(ts) + 1 \/ k \in 1 .. Len(ts)
      BY <1>2
    <3>2. Append(ts, t)[k] = IF k = Len(ts) + 1 THEN t ELSE ts[k]
      BY <1>2
    <3> QED BY ONLY <1>1, <3>1, <3>2, TokenOK(x, t)
  <2> QED BY <1>2, <2>1 DEF TokensOK
<1>4. ASSUME NEW u, TokenOK(x, u) PROVE TextIn(x, u) \in Seq(Nat)
  <2>1. PICK a \in Nat : \E n \in Nat : a + n <= Len(x) /\ Refers(u, a, n)
    BY <1>4 DEF TokenOK
  <2>2. PICK n \in Nat : a + n <= Len(x) /\ Refers(u, a, n)
    BY <2>1
  <2>3. TextIn(x, u) = Part(x, a, a + n)
    BY ONLY <2>2, x \in Seq(Nat), a \in Nat, n \in Nat, RefersText
  <2>4. Part(x, a, a + n) \in Seq(Nat)
    BY ONLY <2>2, x \in Seq(Nat), a \in Nat, n \in Nat DEF Part
  <2> QED BY ONLY <2>3, <2>4
<1>5. TextsIn(x, ts) \in Seq(Seq(Nat)) /\ Len(TextsIn(x, ts)) = Len(ts)
  <2>1. \A k \in 1 .. Len(ts) : TextIn(x, ts[k]) \in Seq(Nat)
    BY <1>1, <1>4
  <2> QED BY ONLY <1>2, <2>1 DEF TextsIn
<1>6. TextsIn(x, Append(ts, t)) = Append(TextsIn(x, ts), TextIn(x, t))
  <2> DEFINE l == Len(ts)  u == Append(ts, t)  v == TextsIn(x, ts)  w == TextIn(x, t)
  <2>1. l \in Nat /\ Len(u) = l + 1 /\ v = [k \in 1 .. l |-> TextIn(x, ts[k])] /\ Len(v) = l
        /\ \A k \in 1 .. l + 1 : u[k] = IF k = l + 1 THEN t ELSE ts[k]
    BY <1>2, <1>5 DEF TextsIn
  <2>2. [k \in 1 .. l + 1 |-> TextIn(x, u[k])] = [k \in 1 .. l + 1 |-> IF k = l + 1 THEN w ELSE v[k]]
    <3> HIDE DEF u, v, l
    <3>1. ASSUME NEW k \in 1 .. l + 1 PROVE TextIn(x, u[k]) = IF k = l + 1 THEN w ELSE v[k]
      <4>1. k = l + 1 \/ k \in 1 .. l
        BY <2>1
      <4> QED BY <2>1, <4>1
    <3> QED BY <3>1
  <2>3. Append(v, w) = [k \in 1 .. l + 1 |-> IF k = l + 1 THEN w ELSE v[k]]
    <3> HIDE DEF u, v, l, w
    <3>1. v \in Seq(Seq(Nat))
      BY <1>5 DEF v
    <3>2. w \in Seq(Nat)
      BY <1>4 DEF w
    <3> QED BY ONLY <2>1, <3>1, <3>2
  <2>4. TextsIn(x, u) = [k \in 1 .. l + 1 |-> TextIn(x, u[k])]
    <3> HIDE DEF l, v, w
    <3> QED BY ONLY <2>1 DEF TextsIn
  <2> QED BY ONLY <2>2, <2>3, <2>4
<1> QED BY <1>2, <1>3, <1>4, <1>5, <1>6

----------------------------------------------------------------------------
(* Splitting. *)

\* p does not begin inside t, nor in what follows t when that is p.
Unbroken(p, t, more) == \A q \in 0 .. Len(t) - 1 : ~HasAt(IF more THEN t \o p ELSE t, q, p)

\* The tokens, each with the separator behind it, are the text in front of
\* what is left; the last one ends the text.
SplitOK(x, p, s, ts, d) ==
  LET f == Len(x) - str_len(s)
  IN  /\ f \in Nat /\ str_len(s) \in Nat /\ Refers(s, f, str_len(s))
      /\ ~d => IF ts = <<>> THEN f = 0 ELSE Then(Joined(p, TextsIn(x, ts)), p) = Part(x, 0, f)
      /\ d => Joined(p, TextsIn(x, ts)) = x
      /\ \A k \in 1 .. Len(ts) : Unbroken(p, TextIn(x, ts[k]), ~d \/ k < Len(ts))

\* Whatever is cut off up to the first p does not contain it.
BreakAsked(x, p, f, e) ==
  x \in Strings /\ p \in Strings /\ f \in Nat /\ e \in Nat /\ Len(p) > 0 /\ f <= e /\ e <= Len(x)
BreakGiven(x, p, f, e, n) ==
  /\ n \in Nat /\ f + n <= e
  /\ f + n = e => Unbroken(p, Part(x, f, f + n), FALSE)
  /\ f + n # e => /\ Unbroken(p, Part(x, f, f + n), TRUE)
                  /\ f + n + Len(p) <= e /\ Part(x, f + n, f + n + Len(p)) = p

LEMMA FirstBreak ==
  ASSUME NEW x, NEW p, NEW f, NEW e, BreakAsked(x, p, f, e)
  PROVE  BreakGiven(x, p, f, e, str_span_until_substring(Part(x, f, e), p))
<1>0. PICK n : n = str_span_until_substring(Part(x, f, e), p)
  OBVIOUS
<1> SUFFICES BreakGiven(x, p, f, e, n)
  BY <1>0
<1> /\ x \in Strings /\ p \in Strings /\ f \in Nat /\ e \in Nat /\ Len(p) > 0
    /\ f <= e /\ e <= Len(x)
  BY DEF BreakAsked
<1> USE DEF Strings
<1> DEFINE y == Part(x, f, e)  l == e - f
<1>1. y \in Seq(Nat) /\ Len(y) = l /\ l \in Nat
  BY PartsJoin
<1>2. /\ n \in Nat /\ n <= l
      /\ n < l => HasAt(y, n, p)
      /\ \A q \in 0 .. n - 1 : ~HasAt(y, q, p)
  <2> HIDE DEF y, l
  <2>0. n = str_span_until_substring(y, p)
    BY <1>0 DEF y
  <2>1. CASE y = <<>>
    <3>1. n = 0 /\ l = 0
      BY <1>1, <2>0, <2>1 DEF str_span_until_substring
    <3> QED BY <3>1
  <2>2. CASE y # <<>>
    <3>1. n = memmem(y, 0, p)
      BY <2>0, <2>2 DEF str_span_until_substring
    <3>2. 0 \in Nat /\ 0 <= Len(y)
      BY <1>1
    <3> QED BY ONLY <1>1, <3>1, <3>2, MemmemResult
  <2> QED BY <2>1, <2>2
<1>3. PICK m \in Nat : m = Len(p) /\ m > 0
  OBVIOUS
<1>4. n \in Nat /\ f + n <= e /\ (f + n = e <=> n = l) /\ (f + n # e => n < l)
  BY ONLY <1>2, f \in Nat, e \in Nat
<1>5. ASSUME f + n = e PROVE Unbroken(p, Part(x, f, f + n), FALSE)
  <2> HIDE DEF l
  <2> QED BY ONLY <1>1, <1>2, <1>4, <1>5 DEF Unbroken, y
<1>6. ASSUME f + n # e
      PROVE  /\ Unbroken(p, Part(x, f, f + n), TRUE)
             /\ f + n + Len(p) <= e /\ Part(x, f + n, f + n + Len(p)) = p
  <2>1. HasAt(y, n, p) /\ n \in Nat
    BY <1>2, <1>4, <1>6
  <2>2. f + n + m <= e /\ Part(x, f + n, f + n + m) = p
    BY ONLY <1>3, <2>1, x \in Seq(Nat), p \in Seq(Nat), f \in Nat, e \in Nat, f <= e,
            e <= Len(x), HasAtPart
  <2> DEFINE b == f + n  c == f + n + m  t == Part(x, f, b)  z == Part(x, f, c)
  <2>0. /\ b \in Nat /\ c \in Nat /\ f <= b /\ b <= c /\ f <= c /\ c <= Len(x)
        /\ b - f = n
    <3>1. Len(x) \in Nat
      OBVIOUS
    <3> QED BY ONLY <2>1, <2>2, <3>1, f \in Nat, e \in Nat, m \in Nat, e <= Len(x)
  <2> HIDE DEF b, c
  <2>3. t \o p = z /\ Len(t) = n
    <3>1. Len(Part(x, f, b)) = b - f /\ Then(Part(x, f, b), Part(x, b, c)) = Part(x, f, c)
      BY ONLY <2>0, x \in Seq(Nat), f \in Nat, PartsJoin
    <3>2. Part(x, b, c) = p
      BY ONLY <2>2 DEF b, c
    <3> QED BY ONLY <2>0, <3>1, <3>2 DEF Then
  <2>4. ASSUME NEW q \in 0 .. n - 1, HasAt(z, q, p) PROVE FALSE
    <3>1. q \in Nat /\ q <= n - 1
      BY ONLY <2>1, <2>4
    <3>2. f + q + m <= c /\ Part(x, f + q, f + q + m) = p
      BY ONLY <1>3, <2>0, <2>4, <3>1, x \in Seq(Nat), p \in Seq(Nat), f \in Nat, HasAtPart
    <3>3. f + q + m <= e
      <4>1. c <= e
        BY ONLY <2>2 DEF c
      <4> QED BY ONLY <2>0, <3>1, <3>2, <4>1, f \in Nat, e \in Nat, m \in Nat
    <3>4. HasAt(y, q, p)
      BY ONLY <1>3, <3>1, <3>2, <3>3, x \in Seq(Nat), p \in Seq(Nat), f \in Nat, e \in Nat,
              f <= e, e <= Len(x), HasAtPart
    <3> QED BY ONLY <1>2, <2>4, <3>4
  <2> HIDE DEF t, z
  <2>5. Unbroken(p, t, TRUE)
    BY ONLY <2>3, <2>4 DEF Unbroken
  <2> QED BY ONLY <1>3, <2>2, <2>5 DEF t, b
<1> QED BY ONLY <1>4, <1>5, <1>6 DEF BreakGiven

\* What SIZE_MAX leaves of a slice is the rest of it.
LEMMA RestIsToken ==
  ASSUME NEW x \in Strings, NEW s, NEW a \in Nat, NEW n \in Nat, NEW i \in Nat,
         Len(x) <= MaxLen, a + n <= Len(x), Refers(s, a, n), i <= n
  PROVE  Refers(str_ref_slice(s, i, SIZE_MAX), a + i, n - i)
<1> USE DEF Strings
<1>1. SIZE_MAX \in Nat /\ n < SIZE_MAX /\ n <= MaxLen
  BY WordHolds, SplitAssumption, WordAssumption
<1>2. PICK m \in Nat : m = n - i
  OBVIOUS
<1>3. m = SliceLen(n, i, SIZE_MAX)
  BY ONLY <1>1, <1>2, n \in Nat, i \in Nat, i <= n DEF SliceLen
<1> QED BY ONLY <1>1, <1>2, <1>3, a \in Nat, n \in Nat, i \in Nat, Refers(s, a, n), SliceRefers

LEMMA JoinedToken ==
  ASSUME NEW x \in Strings, NEW p \in Strings, NEW ts, NEW u, NEW f \in Nat, NEW b \in Nat,
         TokensOK(x, ts), TokenOK(x, u), f <= b, b <= Len(x), TextIn(x, u) = Part(x, f, b),
         IF ts = <<>> THEN f = 0 ELSE Then(Joined(p, TextsIn(x, ts)), p) = Part(x, 0, f)
  PROVE  Joined(p, TextsIn(x, More(ts, u))) = Part(x, 0, b)
<1> USE DEF Strings, More
<1> DEFINE xs == TextsIn(x, ts)  t == TextIn(x, u)
<1>1. /\ xs \in Seq(Seq(Nat)) /\ t \in Seq(Nat) /\ Len(xs) = Len(ts)
      /\ TextsIn(x, Append(ts, u)) = Append(xs, t)
  BY TokensMore
<1> HIDE DEF xs, t
<1>2. CASE ts = <<>>
  <2>1. xs = <<>> /\ Append(<<>>, t) = <<t>>
    BY ONLY <1>1, <1>2
  <2>2. Joined(p, <<t>>) = t
    BY <1>1, JoinedFirst
  <2>3. t = Part(x, 0, b)
    BY <1>2 DEF t
  <2> QED BY ONLY <1>1, <2>1, <2>2, <2>3
<1>3. CASE ts # <<>>
  <2>1. xs # <<>>
    <3>1. ts \in Seq(Objects)
      BY DEF TokensOK
    <3>2. Len(ts) # 0
      <4> HIDE DEF Objects
      <4> QED BY ONLY <1>3, <3>1
    <3> QED BY ONLY <1>1, <3>2
  <2>2. Joined(p, xs) \in Seq(Nat) /\ Joined(p, Append(xs, t)) = Joined(p, xs) \o (p \o t)
    BY <1>1, <2>1, JoinedMore
  <2>3. Joined(p, xs) \o (p \o t) = (Joined(p, xs) \o p) \o t
    BY <1>1, <2>2, TextsAssociative, Zenon
  <2>4. Joined(p, xs) \o p = Part(x, 0, f) /\ t = Part(x, f, b)
    BY <1>3 DEF xs, t, Then
  <2>5. Then(Part(x, 0, f), Part(x, f, b)) = Part(x, 0, b)
    <3>1. 0 \in Nat /\ 0 <= f
      OBVIOUS
    <3> QED BY <3>1, PartsJoin
  <2> QED BY ONLY <1>1, <2>2, <2>3, <2>4, <2>5, Zenon DEF Then
<1> QED BY <1>2, <1>3

LEMMA SplitStep ==
  ASSUME NEW x \in Strings, NEW p \in Strings, NEW s, NEW ts, NEW n \in Nat, NEW u, NEW r,
         Len(x) <= MaxLen, Len(p) > 0, TokensOK(x, ts), SplitOK(x, p, s, ts, FALSE),
         n = str_span_until_substring(TextIn(x, s), p), u = str_ref_slice(s, 0, n),
         r = str_ref_slice(s, n + Len(p), SIZE_MAX)
  PROVE  /\ TokenOK(x, u)
         /\ n = str_len(s) => SplitOK(x, p, s, More(ts, u), TRUE)
         /\ n # str_len(s) => SplitOK(x, p, r, More(ts, u), FALSE)
<1> DEFINE ts2 == More(ts, u)
<1>a. /\ Len(x) - str_len(s) \in Nat /\ str_len(s) \in Nat
      /\ Refers(s, Len(x) - str_len(s), str_len(s))
      /\ IF ts = <<>> THEN Len(x) - str_len(s) = 0
         ELSE Then(Joined(p, TextsIn(x, ts)), p) = Part(x, 0, Len(x) - str_len(s))
      /\ \A k \in 1 .. Len(ts) : Unbroken(p, TextIn(x, ts[k]), ~FALSE \/ k < Len(ts))
  BY ONLY SplitOK(x, p, s, ts, FALSE) DEF SplitOK
<1>b. PICK L \in Nat : L = Len(x)
  BY DEF Strings
<1>c. PICK l \in Nat : l = str_len(s)
  BY <1>a
<1>d. PICK f \in Nat : f = L - l
  BY <1>a, <1>b, <1>c
<1>1. /\ Refers(s, f, l) /\ f + l = L /\ f <= L
      /\ IF ts = <<>> THEN f = 0 ELSE Then(Joined(p, TextsIn(x, ts)), p) = Part(x, 0, f)
      /\ \A k \in 1 .. Len(ts) : Unbroken(p, TextIn(x, ts[k]), TRUE)
  <2>1. /\ Refers(s, f, l)
        /\ IF ts = <<>> THEN f = 0 ELSE Then(Joined(p, TextsIn(x, ts)), p) = Part(x, 0, f)
    BY ONLY <1>a, <1>b, <1>c, <1>d, Zenon
  <2>2. f + l = L /\ f <= L
    BY ONLY <1>d
  <2>3. ASSUME NEW k \in 1 .. Len(ts) PROVE Unbroken(p, TextIn(x, ts[k]), TRUE)
    <3>1. (~FALSE \/ k < Len(ts)) = TRUE
      OBVIOUS
    <3> QED BY ONLY <1>a, <3>1, k \in 1 .. Len(ts)
  <2> QED BY ONLY <2>1, <2>2, <2>3
<1>2. TextIn(x, s) = Part(x, f, L)
  <2>1. TextIn(x, s) = Part(x, f, f + l)
    BY <1>b, <1>1, RefersText
  <2> QED BY <1>1, <2>1
<1>3. /\ n \in Nat /\ f + n <= L
      /\ f + n = L => Unbroken(p, Part(x, f, f + n), FALSE)
      /\ f + n # L => /\ Unbroken(p, Part(x, f, f + n), TRUE)
                      /\ f + n + Len(p) <= L /\ Part(x, f + n, f + n + Len(p)) = p
  <2>1. n = str_span_until_substring(Part(x, f, L), p) /\ L <= Len(x) /\ f <= L
    BY ONLY <1>b, <1>1, <1>2, n = str_span_until_substring(TextIn(x, s), p)
  <2>2. BreakAsked(x, p, f, L)
    BY <2>1 DEF BreakAsked
  <2>3. BreakGiven(x, p, f, L, n)
    BY ONLY <2>1, <2>2, FirstBreak, Zenon
  <2> QED BY ONLY <2>3 DEF BreakGiven
<1>4. PICK b \in Nat : b = f + n /\ f <= b /\ b <= L
  BY <1>1, <1>3
<1>5. TokenOK(x, u) /\ TextIn(x, u) = Part(x, f, b)
  <2>0. PICK o \in Nat : o = 0
    OBVIOUS
  <2>1. f + l <= Len(x) /\ f + o + n <= Len(x) /\ f + o = f
        /\ n = SliceLen(l, o, n)
    BY ONLY <1>b, <1>1, <1>3, <2>0 DEF SliceLen
  <2>2. u = str_ref_slice(s, o, n)
    BY <2>0
  <2>3. TokenOK(x, u) /\ TextIn(x, u) = Part(x, f + o, f + o + n)
    <3>1. SliceAsked(x, s, f, l, o, n, n)
      BY <1>1, <1>3, <2>1 DEF SliceAsked
    <3>2. SliceGiven(x, u, f + o, n)
      BY ONLY <2>2, <3>1, SliceIsToken, Zenon
    <3> QED BY ONLY <2>1, <3>2 DEF SliceGiven
  <2> QED BY ONLY <1>4, <2>1, <2>3
<1>6. /\ Len(ts2) = Len(ts) + 1 /\ Len(ts) \in Nat /\ ts2 # <<>>
      /\ \A k \in 1 .. Len(ts) + 1 : ts2[k] = IF k = Len(ts) + 1 THEN u ELSE ts[k]
  BY ONLY <1>5, TokensOK(x, ts), x \in Strings, TokensMore
<1>7. Joined(p, TextsIn(x, ts2)) = Part(x, 0, b)
  <2>1. b <= Len(x)
    BY <1>4, <1>b
  <2> QED BY ONLY <1>1, <1>4, <1>5, <2>1, x \in Strings, p \in Strings, b \in Nat,
             TokensOK(x, ts), JoinedToken
<1> HIDE DEF ts2
<1>8. ASSUME NEW d \in BOOLEAN, Unbroken(p, Part(x, f, b), ~d), NEW k \in 1 .. Len(ts2)
      PROVE  Unbroken(p, TextIn(x, ts2[k]), ~d \/ k < Len(ts2))
  <2>1. CASE k = Len(ts2)
    <3>1. ts2[k] = u /\ ~(k < Len(ts2))
      BY ONLY <1>6, <2>1
    <3>2. (~d \/ k < Len(ts2)) = ~d
      BY ONLY <3>1
    <3> QED BY ONLY <1>5, <1>8, <3>1, <3>2
  <2>2. CASE k # Len(ts2)
    <3>1. ts2[k] = ts[k] /\ k < Len(ts2) /\ k \in 1 .. Len(ts)
      BY ONLY <1>6, <1>8, <2>2
    <3>2. (~d \/ k < Len(ts2)) = TRUE
      BY ONLY <3>1
    <3> QED BY ONLY <1>1, <3>1, <3>2
  <2> QED BY <2>1, <2>2
<1>9. ASSUME n = l PROVE SplitOK(x, p, s, ts2, TRUE)
  <2>1. b = L /\ f + n = L
    BY <1>1, <1>4, <1>9
  <2>2. Joined(p, TextsIn(x, ts2)) = x
    BY <1>7, <1>b, <2>1, WholePart
  <2>3. \A k \in 1 .. Len(ts2) : Unbroken(p, TextIn(x, ts2[k]), ~TRUE \/ k < Len(ts2))
    <3>1. Unbroken(p, Part(x, f, b), ~TRUE)
      BY ONLY <1>3, <1>4, <2>1
    <3> QED BY ONLY <1>8, <3>1
  <2>4. Len(x) - str_len(s) = f
    BY ONLY <1>b, <1>c, <1>d
  <2>5. Refers(s, f, str_len(s)) /\ str_len(s) \in Nat /\ f \in Nat
    BY ONLY <1>c, <1>1
  <2> QED BY ONLY <2>2, <2>3, <2>4, <2>5 DEF SplitOK
<1>10. ASSUME n # l PROVE SplitOK(x, p, r, ts2, FALSE)
  <2>1. PICK m \in Nat : m = Len(p)
    OBVIOUS
  <2>2. f + n # L /\ b + m <= L /\ Part(x, b, b + m) = p
    <3>1. f + l = L /\ f \in Nat /\ l \in Nat /\ n \in Nat
      BY ONLY <1>1, <1>3
    <3>2. f + n # L
      BY ONLY <1>10, <3>1
    <3>3. f + n + m <= L /\ Part(x, f + n, f + n + m) = p
      BY ONLY <1>3, <2>1, <3>2
    <3> QED BY ONLY <1>4, <3>2, <3>3
  <2>3. PICK i \in Nat : i = n + m
    BY <1>3
  <2>4. PICK g \in Nat : g = b + m
    OBVIOUS
  <2>5. PICK k \in Nat : k = l - i
    BY ONLY <1>1, <1>3, <1>4, <2>2, <2>3, b \in Nat, m \in Nat, i \in Nat
  <2>6. f + i = g /\ i <= l /\ L - k = g /\ b <= g /\ g <= L /\ 0 <= b /\ 0 \in Nat
    BY ONLY <1>1, <1>3, <1>4, <2>2, <2>3, <2>4, <2>5, b \in Nat, m \in Nat, i \in Nat,
            k \in Nat, g \in Nat
  <2>7. Refers(r, g, k)
    <3>1. r = str_ref_slice(s, i, SIZE_MAX)
      BY <2>1, <2>3
    <3>2. f + l <= Len(x)
      BY <1>1, <1>b
    <3>3. Refers(str_ref_slice(s, i, SIZE_MAX), f + i, l - i)
      BY ONLY <1>1, <2>6, <3>2, x \in Strings, Len(x) <= MaxLen, i \in Nat, RestIsToken
    <3> QED BY ONLY <2>5, <2>6, <3>1, <3>3
  <2>8. str_len(r) = k
    BY ONLY <2>7, g \in Nat, k \in Nat, RefersLen
  <2>9. Then(Joined(p, TextsIn(x, ts2)), p) = Part(x, 0, g)
    <3>1. Then(Part(x, 0, b), Part(x, b, g)) = Part(x, 0, g)
      <4>1. g <= Len(x)
        BY ONLY <2>6, <1>b
      <4> QED BY ONLY <2>6, <4>1, x \in Strings, b \in Nat, g \in Nat, PartsJoin
    <3> QED BY ONLY <1>7, <2>2, <2>4, <3>1
  <2>10. \A j \in 1 .. Len(ts2) : Unbroken(p, TextIn(x, ts2[j]), ~FALSE \/ j < Len(ts2))
    <3>1. Unbroken(p, Part(x, f, b), ~FALSE)
      BY ONLY <1>3, <1>4, <2>2
    <3> QED BY ONLY <1>8, <3>1
  <2>11. Len(x) - str_len(r) = g
    BY ONLY <2>6, <2>8, <1>b
  <2>12. Refers(r, g, str_len(r)) /\ str_len(r) \in Nat /\ g \in Nat
    BY ONLY <2>7, <2>8, k \in Nat, g \in Nat
  <2> QED BY ONLY <1>6, <2>9, <2>10, <2>11, <2>12 DEF SplitOK
<1> QED BY ONLY <1>5, <1>9, <1>10, <1>c DEF ts2

----------------------------------------------------------------------------
(* Stripping. *)

\* What is left is x without a copies of p in front and b copies behind.
StripAt(x, p, s, a, b, f, g) ==
  /\ f <= g /\ g <= Len(x) /\ Refers(s, f, g - f)
  /\ Repeated(p, a) = Part(x, 0, f) /\ f = a * Len(p)
  /\ Repeated(p, b) = Part(x, g, Len(x)) /\ Len(x) = g + b * Len(p)

LEMMA OneMore == \A a \in Nat, m \in Nat : (a + 1) * m = a * m + m
OBVIOUS

LEMMA StripPrefix ==
  ASSUME NEW x \in Strings, NEW p \in Strings, NEW s, NEW a \in Nat, NEW b \in Nat,
         NEW f \in Nat, NEW g \in Nat, Len(x) <= MaxLen, Len(p) > 0,
         StripAt(x, p, s, a, b, f, g), str_has_prefix(TextIn(x, s), p)
  PROVE  /\ StripAt(x, p, str_ref_slice(s, Len(p), SIZE_MAX), a + 1, b, f + Len(p), g)
         /\ f + Len(p) \in Nat
<1>1. PICK m \in Nat : m = Len(p) /\ m > 0
  BY DEF Strings
<1>2. PICK L \in Nat : L = Len(x)
  BY DEF Strings
<1>0. f <= g
  BY DEF StripAt
<1>3. PICK l \in Nat : l = g - f /\ f + l = g
  BY ONLY <1>0, f \in Nat, g \in Nat
<1>4. Refers(s, f, l) /\ f <= g /\ g <= L
  BY <1>2, <1>3 DEF StripAt
<1>5. TextIn(x, s) = Part(x, f, g)
  BY ONLY <1>2, <1>3, <1>4, x \in Strings, f \in Nat, l \in Nat, RefersText
<1>6. HasAt(Part(x, f, g), 0, p)
  <2>1. p # <<>>
    <3>1. ASSUME p = <<>> PROVE FALSE
      BY ONLY <3>1, <1>1
    <3> QED BY <3>1
  <2> QED BY <1>5, <2>1 DEF str_has_prefix
<1>7. f + m <= g /\ Part(x, f, f + m) = p
  <2>1. f + 0 + Len(p) <= g /\ Part(x, f + 0, f + 0 + Len(p)) = p
    <3>1. 0 \in Nat
      OBVIOUS
    <3> QED BY ONLY <1>2, <1>4, <1>6, <3>1, x \in Strings, p \in Strings, f \in Nat, g \in Nat,
               HasAtPart
  <2>2. f + 0 = f
    OBVIOUS
  <2> QED BY ONLY <1>1, <2>1, <2>2
<1>8. PICK h \in Nat : h = f + m /\ h <= g /\ f <= h /\ h <= L
  BY ONLY <1>4, <1>7, f \in Nat, m \in Nat, g \in Nat, L \in Nat
<1>9. Refers(str_ref_slice(s, m, SIZE_MAX), h, g - h)
  <2>1. m <= l /\ l - m = g - h /\ f + m = h /\ f + l <= Len(x)
    BY ONLY <1>2, <1>3, <1>4, <1>8, f \in Nat, m \in Nat, g \in Nat, l \in Nat
  <2>2. Refers(str_ref_slice(s, m, SIZE_MAX), f + m, l - m)
    BY ONLY <1>4, <2>1, x \in Strings, Len(x) <= MaxLen, f \in Nat, l \in Nat, m \in Nat,
            RestIsToken
  <2> QED BY ONLY <2>1, <2>2
<1>10. Repeated(p, a + 1) = Part(x, 0, h)
  <2>1. Repeated(p, a + 1) = Then(Repeated(p, a), p)
    BY RepeatedMore DEF Strings, Then
  <2>2. Repeated(p, a) = Part(x, 0, f)
    BY DEF StripAt
  <2>3. Then(Part(x, 0, f), Part(x, f, h)) = Part(x, 0, h)
    <3>1. 0 \in Nat /\ 0 <= f /\ h <= Len(x)
      BY <1>2, <1>8
    <3> QED BY ONLY <1>8, <3>1, x \in Strings, f \in Nat, h \in Nat, PartsJoin
  <2> QED BY ONLY <1>7, <1>8, <2>1, <2>2, <2>3
<1>11. h = (a + 1) * m
  <2>1. f = a * m
    BY <1>1 DEF StripAt
  <2> QED BY ONLY <1>8, <2>1, a \in Nat, m \in Nat, OneMore
<1>12. Repeated(p, b) = Part(x, g, Len(x)) /\ Len(x) = g + b * Len(p)
  BY DEF StripAt
<1> QED BY ONLY <1>1, <1>2, <1>8, <1>9, <1>10, <1>11, <1>12, f \in Nat DEF StripAt

LEMMA StripSuffix ==
  ASSUME NEW x \in Strings, NEW p \in Strings, NEW s, NEW a \in Nat, NEW b \in Nat,
         NEW f \in Nat, NEW g \in Nat, Len(x) <= MaxLen, Len(p) > 0,
         StripAt(x, p, s, a, b, f, g), str_has_suffix(TextIn(x, s), p)
  PROVE  /\ StripAt(x, p, str_ref_slice(s, 0, str_len(s) - Len(p)), a, b + 1, f, g - Len(p))
         /\ g - Len(p) \in Nat
<1>1. PICK m \in Nat : m = Len(p) /\ m > 0
  BY DEF Strings
<1>2. PICK L \in Nat : L = Len(x)
  BY DEF Strings
<1>0. f <= g
  BY DEF StripAt
<1>3. PICK l \in Nat : l = g - f /\ f + l = g
  BY ONLY <1>0, f \in Nat, g \in Nat
<1>4. Refers(s, f, l) /\ f <= g /\ g <= L
  BY <1>2, <1>3 DEF StripAt
<1>5. TextIn(x, s) = Part(x, f, g)
  BY ONLY <1>2, <1>3, <1>4, x \in Strings, f \in Nat, l \in Nat, RefersText
<1>l. Len(Part(x, f, g)) = l /\ str_len(s) = l
  BY ONLY <1>2, <1>3, <1>4, x \in Strings, f \in Nat, g \in Nat, l \in Nat, PartsJoin, RefersLen
<1>6. /\ m <= l /\ HasAt(Part(x, f, g), l - m, p)
  <2>1. p # <<>>
    <3>1. ASSUME p = <<>> PROVE FALSE
      BY ONLY <3>1, <1>1
    <3> QED BY <3>1
  <2>2. /\ Len(Part(x, f, g)) >= Len(p)
        /\ HasAt(Part(x, f, g), Len(Part(x, f, g)) - Len(p), p)
    BY <1>5, <2>1 DEF str_has_suffix
  <2> QED BY ONLY <1>1, <1>l, <2>2, l \in Nat, m \in Nat
<1>e. PICK e \in Nat : e = l - m
  BY ONLY <1>6, l \in Nat, m \in Nat
<1>h. PICK h \in Nat : h = f + e
  OBVIOUS
<1>8. h + m = g /\ h = g - m /\ f <= h /\ h <= g /\ h <= L /\ h - f = e /\ e < l
  BY ONLY <1>1, <1>3, <1>4, <1>e, <1>h, f \in Nat, m \in Nat, g \in Nat, L \in Nat, l \in Nat
<1>7. Part(x, h, g) = p
  <2>1. f + e + Len(p) <= g /\ Part(x, f + e, f + e + Len(p)) = p
    <3>1. HasAt(Part(x, f, g), e, p) /\ g <= Len(x)
      BY <1>2, <1>4, <1>6, <1>e
    <3> QED BY ONLY <1>4, <3>1, x \in Strings, p \in Strings, f \in Nat, g \in Nat, e \in Nat,
               HasAtPart
  <2> QED BY ONLY <1>1, <1>8, <1>h, <2>1
<1>9. Refers(str_ref_slice(s, 0, e), f, h - f)
  <2>1. PICK o \in Nat : o = 0 /\ f + o = f
    OBVIOUS
  <2>2. e = SliceLen(l, o, e) /\ f + l <= Len(x)
    BY ONLY <1>2, <1>3, <1>4, <1>8, <2>1, e \in Nat, l \in Nat DEF SliceLen
  <2>3. SliceAsked(x, s, f, l, o, e, e)
    BY <1>4, <2>2 DEF SliceAsked
  <2>4. SliceGiven(x, str_ref_slice(s, o, e), f + o, e)
    BY ONLY <2>3, SliceIsToken, Zenon
  <2> QED BY ONLY <1>8, <2>1, <2>4 DEF SliceGiven
<1>10. Repeated(p, b + 1) = Part(x, h, Len(x))
  <2>1. Repeated(p, b + 1) = Then(p, Repeated(p, b))
    BY RepeatedFront DEF Strings, Then
  <2>2. Repeated(p, b) = Part(x, g, Len(x))
    BY DEF StripAt
  <2>3. Then(Part(x, h, g), Part(x, g, L)) = Part(x, h, L)
    <3>1. L <= Len(x)
      BY <1>2
    <3> QED BY ONLY <1>4, <1>8, <3>1, x \in Strings, g \in Nat, h \in Nat, L \in Nat, PartsJoin
  <2> QED BY ONLY <1>2, <1>7, <2>1, <2>2, <2>3
<1>11. L = h + (b + 1) * m
  <2>1. L = g + b * m
    BY <1>1, <1>2 DEF StripAt
  <2>2. PICK c \in Nat : c = b * m
    OBVIOUS
  <2>3. (b + 1) * m = c + m
    BY ONLY <2>2, b \in Nat, m \in Nat, OneMore
  <2>4. L = g + c
    BY <2>1, <2>2
  <2> QED BY ONLY <1>8, <2>3, <2>4, g \in Nat, h \in Nat, m \in Nat, c \in Nat
<1>12. Repeated(p, a) = Part(x, 0, f) /\ f = a * Len(p)
  BY DEF StripAt
<1>13. str_len(s) - Len(p) = e /\ g - Len(p) = h
  BY ONLY <1>1, <1>8, <1>e, <1>l
<1> QED BY ONLY <1>1, <1>2, <1>8, <1>9, <1>10, <1>11, <1>12, <1>13 DEF StripAt

LEMMA RefKeeps ==
  ASSUME NEW s, NEW a \in Nat, NEW n \in Nat, Refers(s, a, n)
  PROVE  Refers(str_ref(s), a, n) /\ str_ref(s).ptr = s.ptr /\ str_len(str_ref(s)) = n
<1>1. str_ref(s) = str(s.ptr, str_mask_owner(s.prop))
  <2>1. PICK q : q = s.ptr
    OBVIOUS
  <2>2. PICK w : w = s.prop
    OBVIOUS
  <2>3. s = [ptr |-> q, prop |-> w]
    BY ONLY RefersLen, Refers(s, a, n), a \in Nat, n \in Nat, <2>1, <2>2 DEF str
  <2>4. str_ref(s) = [ptr |-> q, prop |-> str_mask_owner(w)]
    BY ONLY <2>3 DEF str_ref
  <2> QED BY ONLY <2>1, <2>2, <2>4 DEF str
<1>2. CASE n = 0
  BY <1>1, <1>2, RefersLen, Halved
     DEF str_mask_owner, Refers, str_null, str, Nullptr, str_len
<1>3. CASE n # 0
  <2>1. str_mask_owner(s.prop) = 2 * n
    <3>1. s.prop = 2 * n \/ s.prop = 2 * n + 1
      BY <1>3, RefersLen
    <3> QED BY ONLY <3>1, Halved, n \in Nat DEF str_mask_owner
  <2>2. s.ptr = a + 1
    BY <1>3, RefersLen
  <2>3. Refers(str_ref(s), a, n)
    BY ONLY <1>1, <1>3, <2>1, <2>2 DEF Refers
  <2> QED BY ONLY <1>1, <2>1, <2>2, <2>3, n \in Nat, a \in Nat, RefersLen DEF str
<1> QED BY <1>2, <1>3

----------------------------------------------------------------------------
(* Words. *)

\* Byte j of x is in a word; and bytes i up to i + n are all of a word.
InWord(x, p, j) == j \in 1 .. Len(x) /\ x[j] \notin ToSet(p)
Word(x, p, i, n) ==
  /\ \A j \in i .. i + n - 1 : InWord(x, p, j)
  /\ ~InWord(x, p, i - 1) /\ ~InWord(x, p, i + n)

\* No byte of a word among the m ones behind f, and then one; the other way
\* round.
Skips(x, p, f, m) ==
  /\ m \in Nat /\ f + m <= Len(x) /\ \A j \in Nat : f < j /\ j <= f + m => ~InWord(x, p, j)
  /\ f + m < Len(x) => InWord(x, p, f + m + 1)
Takes(x, p, f, n) ==
  /\ n \in Nat /\ f + n <= Len(x) /\ \A j \in Nat : f < j /\ j <= f + n => InWord(x, p, j)
  /\ f + n < Len(x) => ~InWord(x, p, f + n + 1)

LEMMA PartByte ==
  ASSUME NEW x \in Strings, NEW f \in Nat, f <= Len(x), NEW q \in Nat, f + q < Len(x)
  PROVE  /\ Part(x, f, Len(x))[q + 1] = x[f + q + 1] /\ f + q + 1 \in 1 .. Len(x)
         /\ q < Len(Part(x, f, Len(x)))
<1>1. PICK n \in Nat : n = Len(x)
  BY DEF Strings
<1>2. f <= n /\ n <= n /\ n <= Len(x) /\ f + q < n
  BY ONLY <1>1, f <= Len(x), f + q < Len(x), n \in Nat
<1>3. Len(Part(x, f, n)) = n - f
  BY ONLY <1>2, x \in Strings, f \in Nat, n \in Nat, PartsJoin
<1>4. q + 1 \in 1 .. n - f /\ f + q + 1 \in 1 .. n /\ q < n - f
  BY ONLY <1>2, f \in Nat, q \in Nat, n \in Nat
<1>5. SubSeq(x, f + 1, n)[q + 1] = x[f + q + 1]
  <2>1. ASSUME NEW a \in Nat, NEW j \in 1 .. n - f, a = f + 1
        PROVE  SubSeq(x, a, n)[j] = x[f + j]
    BY <1>1, <1>2, <2>1 DEF Strings
  <2>2. f + 1 \in Nat /\ f + (q + 1) = f + q + 1
    BY ONLY f \in Nat, q \in Nat
  <2> QED BY ONLY <1>4, <2>1, <2>2
<1> QED BY ONLY <1>1, <1>3, <1>4, <1>5 DEF Part

LEMMA SpanSkips ==
  ASSUME NEW x \in Strings, NEW p \in Strings, NEW f \in Nat, f <= Len(x)
  PROVE  Skips(x, p, f, str_span_chars(Part(x, f, Len(x)), p))
<1> DEFINE y == Part(x, f, Len(x))
<1>1. PICK L \in Nat : L = Len(x)
  BY DEF Strings
<1>2. y \in Seq(Nat) /\ Len(y) = L - f
  <2>1. L <= L /\ f <= L /\ L <= Len(x)
    BY <1>1
  <2>2. Part(x, f, L) \in Strings /\ Len(Part(x, f, L)) = L - f
    BY ONLY <2>1, x \in Strings, f \in Nat, L \in Nat, PartsJoin
  <2> QED BY ONLY <1>1, <2>2 DEF Strings
<1>3. PICK m : m = str_span_chars(y, p)
  OBVIOUS
<1>b. \A q \in Nat : f + q < L => y[q + 1] = x[f + q + 1] /\ f + q + 1 \in 1 .. L
  BY ONLY <1>1, x \in Strings, f \in Nat, f <= Len(x), PartByte
<1> HIDE DEF y
<1>4. /\ m \in Nat /\ m <= L - f
      /\ m < L - f => y[m + 1] \notin ToSet(p)
      /\ \A q \in Nat : q < m => y[q + 1] \in ToSet(p)
  <2>1. CASE y = <<>>
    <3>1. m = 0 /\ L - f = 0
      BY ONLY <1>2, <1>3, <2>1 DEF str_span_chars
    <3> QED BY ONLY <3>1
  <2>2. CASE p = <<>>
    <3>1. m = 0 /\ L - f \in Nat
      BY ONLY <1>1, <1>2, <1>3, <2>2, f \in Nat, f <= Len(x), L \in Nat DEF str_span_chars
    <3>2. \A e : e \notin ToSet(p)
      BY ONLY <2>2 DEF ToSet
    <3> QED BY ONLY <3>1, <3>2
  <2>3. CASE y # <<>> /\ p # <<>>
    <3>1. m = bitset_span(y, ToSet(p), 0)
      BY ONLY <1>3, <2>3 DEF str_span_chars, bitset_init
    <3>2. 0 \in Nat /\ 0 <= Len(y)
      BY ONLY <1>2
    <3>3. /\ m \in Nat /\ m <= Len(y)
          /\ m < Len(y) => y[m + 1] \notin ToSet(p)
          /\ \A q \in 0 .. m - 1 : y[q + 1] \in ToSet(p)
      BY ONLY <1>2, <3>1, <3>2, SpanResult
    <3> QED BY ONLY <1>2, <3>3
  <2> QED BY <2>1, <2>2, <2>3
<1>5. ASSUME NEW j \in Nat, f < j, j <= f + m PROVE ~InWord(x, p, j)
  <2>1. PICK q \in Nat : j = f + q + 1 /\ q < m /\ f + q < L
    <3>1. j - f - 1 \in Nat /\ j = f + (j - f - 1) + 1 /\ j - f - 1 < m /\ f + (j - f - 1) < L
      BY ONLY <1>4, <1>5, f \in Nat, L \in Nat, j \in Nat
    <3> QED BY ONLY <3>1
  <2>2. x[j] \in ToSet(p)
    BY ONLY <1>4, <1>b, <2>1
  <2> QED BY ONLY <2>2 DEF InWord
<1>6. ASSUME f + m < L PROVE InWord(x, p, f + m + 1)
  <2>1. m < L - f
    BY ONLY <1>4, <1>6, f \in Nat, L \in Nat
  <2>2. x[f + m + 1] \notin ToSet(p) /\ f + m + 1 \in 1 .. L
    BY ONLY <1>4, <1>6, <1>b, <2>1
  <2> QED BY ONLY <1>1, <2>2 DEF InWord
<1>7. f + m <= L
  BY ONLY <1>4, f \in Nat, L \in Nat
<1> QED BY ONLY <1>1, <1>3, <1>4, <1>5, <1>6, <1>7 DEF Skips, y

LEMMA SpanTakes ==
  ASSUME NEW x \in Strings, NEW p \in Strings, NEW f \in Nat, f <= Len(x)
  PROVE  Takes(x, p, f, str_span_nonmatching_chars(Part(x, f, Len(x)), p))
<1> DEFINE y == Part(x, f, Len(x))
<1>1. PICK L \in Nat : L = Len(x)
  BY DEF Strings
<1>2. y \in Seq(Nat) /\ Len(y) = L - f
  <2>1. L <= L /\ f <= L /\ L <= Len(x)
    BY <1>1
  <2>2. Part(x, f, L) \in Strings /\ Len(Part(x, f, L)) = L - f
    BY ONLY <2>1, x \in Strings, f \in Nat, L \in Nat, PartsJoin
  <2> QED BY ONLY <1>1, <2>2 DEF Strings
<1>3. PICK n : n = str_span_nonmatching_chars(y, p)
  OBVIOUS
<1>b. \A q \in Nat : f + q < L => y[q + 1] = x[f + q + 1] /\ f + q + 1 \in 1 .. L
  BY ONLY <1>1, x \in Strings, f \in Nat, f <= Len(x), PartByte
<1> HIDE DEF y
<1>4. /\ n \in Nat /\ n <= L - f
      /\ n < L - f => y[n + 1] \in ToSet(p)
      /\ \A q \in Nat : q < n => y[q + 1] \notin ToSet(p)
  <2>1. CASE y = <<>>
    <3>1. n = 0 /\ L - f = 0
      BY ONLY <1>2, <1>3, <2>1 DEF str_span_nonmatching_chars
    <3> QED BY ONLY <3>1
  <2>2. CASE y # <<>> /\ p = <<>>
    <3>1. n = L - f /\ L - f \in Nat
      BY ONLY <1>1, <1>2, <1>3, <2>2, f \in Nat, f <= Len(x), L \in Nat
         DEF str_span_nonmatching_chars
    <3>2. \A e : e \notin ToSet(p)
      BY ONLY <2>2 DEF ToSet
    <3> QED BY ONLY <3>1, <3>2
  <2>3. CASE y # <<>> /\ p # <<>>
    <3>1. n = bitset_search(y, ToSet(p), 0)
      BY ONLY <1>3, <2>3 DEF str_span_nonmatching_chars, bitset_init
    <3>2. 0 \in Nat /\ 0 <= Len(y)
      BY ONLY <1>2
    <3>3. /\ n \in Nat /\ n <= Len(y)
          /\ n < Len(y) => y[n + 1] \in ToSet(p)
          /\ \A q \in 0 .. n - 1 : y[q + 1] \notin ToSet(p)
      BY ONLY <1>2, <3>1, <3>2, SearchResult
    <3> QED BY ONLY <1>2, <3>3
  <2> QED BY <2>1, <2>2, <2>3
<1>5. ASSUME NEW j \in Nat, f < j, j <= f + n PROVE InWord(x, p, j)
  <2>1. PICK q \in Nat : j = f + q + 1 /\ q < n /\ f + q < L
    <3>1. j - f - 1 \in Nat /\ j = f + (j - f - 1) + 1 /\ j - f - 1 < n /\ f + (j - f - 1) < L
      BY ONLY <1>4, <1>5, f \in Nat, L \in Nat, j \in Nat
    <3> QED BY ONLY <3>1
  <2>2. x[j] \notin ToSet(p) /\ j \in 1 .. L
    BY ONLY <1>4, <1>b, <2>1
  <2> QED BY ONLY <1>1, <2>2 DEF InWord
<1>6. ASSUME f + n < L PROVE ~InWord(x, p, f + n + 1)
  <2>1. n < L - f
    BY ONLY <1>4, <1>6, f \in Nat, L \in Nat
  <2>2. x[f + n + 1] \in ToSet(p)
    BY ONLY <1>4, <1>6, <1>b, <2>1
  <2> QED BY ONLY <2>2 DEF InWord
<1>7. f + n <= L
  BY ONLY <1>4, f \in Nat, L \in Nat
<1> QED BY ONLY <1>1, <1>3, <1>4, <1>5, <1>6, <1>7 DEF Takes, y

\* The word behind the bytes skipped is whole, and there is no other.
WordFollows(x, p, f, m, n) ==
  /\ f \in Nat /\ m \in Nat /\ n \in Nat /\ Len(x) \in Nat
  /\ f = 0 \/ ~InWord(x, p, f + 1)
  /\ Skips(x, p, f, m) /\ f + m < Len(x) /\ Takes(x, p, f + m, n)
WordIs(x, p, f, h, n) ==
  /\ n >= 1 /\ Word(x, p, h + 1, n) /\ ~InWord(x, p, h + n + 1)
  /\ \A i, l \in Nat :
       i > f /\ i <= h + n /\ l >= 1 /\ Word(x, p, i, l) => i = h + 1 /\ l = n

LEMMA NextWord ==
  ASSUME NEW x, NEW p, NEW f, NEW m, NEW n, WordFollows(x, p, f, m, n)
  PROVE  WordIs(x, p, f, f + m, n)
<1>0. PICK L \in Nat : L = Len(x)
  BY DEF WordFollows
<1>00. /\ f \in Nat /\ m \in Nat /\ n \in Nat /\ (f = 0 \/ ~InWord(x, p, f + 1))
       /\ Skips(x, p, f, m) /\ f + m < L /\ Takes(x, p, f + m, n)
  BY <1>0 DEF WordFollows
<1> USE <1>0, <1>00
<1> DEFINE W(j) == InWord(x, p, j)
<1>1. ~W(0) /\ ~W(L + 1)
  BY DEF InWord
<1> HIDE DEF W
<1>2. (\A j \in Nat : f < j /\ j <= f + m => ~W(j)) /\ W(f + m + 1)
  BY DEF Skips, W
<1>3. /\ f + m + n <= L /\ \A j \in Nat : f + m < j /\ j <= f + m + n => W(j)
      /\ f + m + n < L => ~W(f + m + n + 1)
  BY DEF Takes, W
<1>4. f = 0 \/ ~W(f + 1)
  BY DEF W
<1>5. ~W(f + m + n + 1)
  <2>1. CASE f + m + n = L
    BY <1>1, <2>1
  <2>2. CASE f + m + n # L
    BY <1>3, <2>2
  <2> QED BY <2>1, <2>2
<1>6. n >= 1
  <2>1. CASE n = 0
    BY <1>2, <1>5, <2>1
  <2> QED BY <2>1
<1>7. ~W(f + m)
  <2>1. CASE m = 0
    <3>1. f = 0
      BY <1>2, <1>4, <2>1
    <3> QED BY <1>1, <2>1, <3>1
  <2>2. CASE m # 0
    BY <1>2, <2>2
  <2> QED BY <2>1, <2>2
<1>8. Word(x, p, f + m + 1, n)
  <2>1. ASSUME NEW j \in f + m + 1 .. f + m + 1 + n - 1 PROVE W(j)
    BY <1>3
  <2>2. f + m + 1 - 1 = f + m /\ f + m + 1 + n = f + m + n + 1
    OBVIOUS
  <2>3. ~W(f + m + 1 - 1) /\ ~W(f + m + 1 + n)
    BY ONLY <1>5, <1>7, <2>2
  <2>4. PICK i \in Nat : i = f + m + 1
    OBVIOUS
  <2>5. (\A j \in i .. i + n - 1 : W(j)) /\ ~W(i - 1) /\ ~W(i + n)
    BY ONLY <2>1, <2>3, <2>4, f \in Nat, m \in Nat, n \in Nat
  <2>6. Word(x, p, i, n)
    BY ONLY <2>5 DEF Word, W
  <2> QED BY ONLY <2>4, <2>6
<1>9. ASSUME NEW i \in Nat, NEW l \in Nat, i > f, i <= f + m + n, l >= 1, Word(x, p, i, l)
      PROVE  i = f + m + 1 /\ l = n
  <2>1. (\A j \in i .. i + l - 1 : W(j)) /\ ~W(i - 1) /\ ~W(i + l)
    BY <1>9 DEF Word, W
  <2>2. W(i)
    BY <1>9, <2>1
  <2>3. i > f + m
    BY <1>2, <1>9, <2>2
  <2>4. i = f + m + 1
    <3>1. CASE i > f + m + 1
      <4>1. i - 1 \in Nat /\ f + m < i - 1 /\ i - 1 <= f + m + n
        BY <1>9, <3>1
      <4> QED BY <1>3, <2>1, <4>1
    <3> QED BY <2>3, <3>1
  <2>5. ~(l < n)
    <3>1. ASSUME l < n PROVE FALSE
      <4>1. i + l \in Nat /\ f + m < i + l /\ i + l <= f + m + n
        BY <2>4, <3>1
      <4> QED BY <1>3, <2>1, <4>1
    <3> QED BY <3>1
  <2>6. ~(l > n)
    <3>1. ASSUME l > n PROVE FALSE
      <4>1. f + m + n + 1 \in i .. i + l - 1
        BY <2>4, <3>1
      <4> QED BY ONLY <1>5, <2>1, <4>1
    <3> QED BY <3>1
  <2> QED BY <2>4, <2>5, <2>6
<1> QED BY ONLY <1>3, <1>5, <1>6, <1>8, <1>9 DEF W, WordIs

\* The tokens are the words that begin in front of what is left, in order.
WordsAt(x, p, s, ts, f) ==
  /\ f + str_len(s) = Len(x) /\ Refers(s, f, str_len(s)) /\ str_len(s) \in Nat
  /\ f = 0 \/ ~InWord(x, p, f + 1)
  /\ \A k \in 1 .. Len(ts) :
       /\ ts[k].ptr >= 1 /\ str_len(ts[k]) >= 1 /\ ts[k].ptr + str_len(ts[k]) <= f + 1
       /\ Word(x, p, ts[k].ptr, str_len(ts[k]))
  /\ \A i, l \in Nat :
       i >= 1 /\ i <= f /\ l >= 1 /\ Word(x, p, i, l)
         => \E k \in 1 .. Len(ts) : ts[k].ptr = i /\ str_len(ts[k]) = l
  /\ \A j, k \in 1 .. Len(ts) : j < k => ts[j].ptr < ts[k].ptr

LEMMA WordsStep ==
  ASSUME NEW x \in Strings, NEW p \in Strings, NEW s, NEW ts, NEW f \in Nat,
         NEW r, NEW n, NEW u, NEW v,
         Len(x) <= MaxLen, TokensOK(x, ts), WordsAt(x, p, s, ts, f),
         r = str_ref_slice(s, str_span_chars(TextIn(x, s), p), SIZE_MAX),
         n = str_span_nonmatching_chars(TextIn(x, r), p),
         u = str_ref_slice(r, 0, n), v = str_ref_slice(r, n, SIZE_MAX)
  PROVE  /\ str_len(r) = 0 => \A j \in Nat : j > f => ~InWord(x, p, j)
         /\ str_len(r) # 0
              => TokenOK(x, u) /\ \E g \in Nat : WordsAt(x, p, v, More(ts, u), g)
<1>1. PICK L \in Nat : L = Len(x)
  BY DEF Strings
<1>2. PICK l \in Nat : l = str_len(s)
  BY DEF WordsAt
<1>3. Refers(s, f, l) /\ f + l = L /\ f <= L /\ (f = 0 \/ ~InWord(x, p, f + 1))
  <2>1. Refers(s, f, l) /\ f + l = L /\ (f = 0 \/ ~InWord(x, p, f + 1))
    BY <1>1, <1>2 DEF WordsAt
  <2> QED BY ONLY <2>1, f \in Nat, l \in Nat
<1>4. TextIn(x, s) = Part(x, f, L)
  <2>1. TextIn(x, s) = Part(x, f, f + l)
    BY ONLY <1>1, <1>3, x \in Strings, f \in Nat, l \in Nat, RefersText
  <2> QED BY ONLY <1>3, <2>1
<1>5. PICK m : m = str_span_chars(TextIn(x, s), p)
  OBVIOUS
<1>6. Skips(x, p, f, m)
  BY ONLY <1>1, <1>3, <1>4, <1>5, x \in Strings, p \in Strings, f \in Nat, SpanSkips
<1>7. m \in Nat /\ f + m <= L /\ \A j \in Nat : f < j /\ j <= f + m => ~InWord(x, p, j)
  BY ONLY <1>1, <1>6 DEF Skips
<1>8. PICK h \in Nat : h = f + m
  BY <1>7
<1>9. PICK d \in Nat : d = l - m /\ h + d = L /\ m <= l /\ f + l <= Len(x) /\ h <= L
  BY ONLY <1>1, <1>3, <1>7, <1>8, f \in Nat, l \in Nat, L \in Nat
<1>10. Refers(r, h, d) /\ str_len(r) = d
  <2>1. Refers(str_ref_slice(s, m, SIZE_MAX), f + m, l - m)
    BY ONLY <1>3, <1>7, <1>9, x \in Strings, Len(x) <= MaxLen, f \in Nat, l \in Nat, RestIsToken
  <2>2. Refers(r, h, d)
    BY ONLY <1>5, <1>8, <1>9, <2>1, r = str_ref_slice(s, str_span_chars(TextIn(x, s), p), SIZE_MAX)
  <2> QED BY ONLY <2>2, h \in Nat, d \in Nat, RefersLen
<1>11. ASSUME d = 0, NEW j \in Nat, j > f PROVE ~InWord(x, p, j)
  <2>1. CASE j <= L
    BY ONLY <1>7, <1>8, <1>9, <1>11, <2>1, L \in Nat, h \in Nat
  <2>2. CASE ~(j <= L)
    BY ONLY <1>1, <2>2 DEF InWord
  <2> QED BY <2>1, <2>2
<1>12. ASSUME d # 0
       PROVE  TokenOK(x, u) /\ \E g \in Nat : WordsAt(x, p, v, More(ts, u), g)
  <2>1. TextIn(x, r) = Part(x, h, L)
    BY ONLY <1>1, <1>9, <1>10, x \in Strings, h \in Nat, d \in Nat, RefersText
  <2>2. Takes(x, p, h, n)
    BY ONLY <1>1, <1>9, <2>1, x \in Strings, p \in Strings, h \in Nat, SpanTakes,
            n = str_span_nonmatching_chars(TextIn(x, r), p)
  <2>3. n \in Nat /\ h + n <= L
    BY ONLY <1>1, <2>2 DEF Takes
  <2>4. /\ n >= 1 /\ Word(x, p, h + 1, n) /\ ~InWord(x, p, h + n + 1)
        /\ \A i, k \in Nat : i > f /\ i <= h + n /\ k >= 1 /\ Word(x, p, i, k)
                               => i = h + 1 /\ k = n
    <3>1. f + m < Len(x)
      BY ONLY <1>1, <1>8, <1>9, <1>12, h \in Nat, d \in Nat, L \in Nat
    <3>2. Takes(x, p, f + m, n)
      BY ONLY <1>8, <2>2
    <3>3. WordFollows(x, p, f, m, n)
      BY ONLY <1>1, <1>3, <1>6, <1>7, <2>3, <3>1, <3>2, f \in Nat, L \in Nat DEF WordFollows
    <3>4. WordIs(x, p, f, h, n)
      BY ONLY <1>8, <3>3, NextWord, Zenon
    <3> QED BY ONLY <3>4 DEF WordIs
  <2>5. PICK g \in Nat : g = h + n /\ f <= h /\ h <= g /\ g <= L
    BY ONLY <1>8, <1>7, <2>3, h \in Nat, f \in Nat
  <2>6. PICK e \in Nat : e = d - n /\ g + e = L /\ n <= d /\ h + d <= Len(x)
    BY ONLY <1>1, <1>9, <2>3, <2>5, d \in Nat, h \in Nat, g \in Nat, L \in Nat
  <2>7. Refers(v, g, e) /\ str_len(v) = e
    <3>1. Refers(str_ref_slice(r, n, SIZE_MAX), h + n, d - n)
      BY ONLY <1>10, <2>3, <2>6, x \in Strings, Len(x) <= MaxLen, h \in Nat, d \in Nat, RestIsToken
    <3>2. Refers(v, g, e)
      BY ONLY <2>5, <2>6, <3>1, v = str_ref_slice(r, n, SIZE_MAX)
    <3> QED BY ONLY <3>2, g \in Nat, e \in Nat, RefersLen
  <2>8. TokenOK(x, u) /\ u.ptr = h + 1 /\ str_len(u) = n
    <3>1. PICK o \in Nat : o = 0 /\ h + o = h
      OBVIOUS
    <3>2. n = SliceLen(d, o, n)
      BY ONLY <2>3, <2>4, <2>6, <3>1, d \in Nat DEF SliceLen
    <3>3. SliceAsked(x, r, h, d, o, n, n)
      BY <1>10, <2>3, <2>6, <3>2 DEF SliceAsked
    <3>4. SliceGiven(x, u, h + o, n)
      <4>1. u = str_ref_slice(r, o, n)
        BY <3>1
      <4> QED BY ONLY <3>3, <4>1, SliceIsToken, Zenon
    <3>5. TokenOK(x, u) /\ Refers(u, h, n)
      BY ONLY <3>1, <3>4 DEF SliceGiven
    <3> QED BY ONLY <2>3, <2>4, <3>5, h \in Nat, RefersLen
  <2> DEFINE ts2 == More(ts, u)
  <2>9. /\ Len(ts2) = Len(ts) + 1 /\ Len(ts) \in Nat
        /\ \A k \in 1 .. Len(ts) + 1 : ts2[k] = IF k = Len(ts) + 1 THEN u ELSE ts[k]
    BY ONLY <2>8, TokensOK(x, ts), x \in Strings, TokensMore
  <2> HIDE DEF ts2
  <2>10. PICK c \in Nat : c = Len(ts)
    BY <2>9
  <2>11. \A k \in 1 .. c + 1 : (k = c + 1 /\ ts2[k] = u) \/ (k \in 1 .. c /\ ts2[k] = ts[k])
    BY ONLY <2>9, <2>10
  <2>12. \A k \in 1 .. c :
           /\ ts[k].ptr >= 1 /\ str_len(ts[k]) >= 1 /\ ts[k].ptr + str_len(ts[k]) <= f + 1
           /\ Word(x, p, ts[k].ptr, str_len(ts[k])) /\ ts[k].ptr \in Nat /\ str_len(ts[k]) \in Nat
    <3>1. \A k \in 1 .. c :
            /\ ts[k].ptr >= 1 /\ str_len(ts[k]) >= 1 /\ ts[k].ptr + str_len(ts[k]) <= f + 1
            /\ Word(x, p, ts[k].ptr, str_len(ts[k]))
      BY <2>10 DEF WordsAt
    <3>2. ASSUME NEW k \in 1 .. c PROVE ts[k].ptr \in Nat /\ str_len(ts[k]) \in Nat
      <4>1. TokenOK(x, ts[k])
        BY <2>10 DEF TokensOK
      <4>2. PICK a \in Nat, z \in Nat : Refers(ts[k], a, z)
        BY <4>1 DEF TokenOK
      <4> QED BY ONLY <4>2, RefersLen
    <3> QED BY ONLY <3>1, <3>2
  <2>13. ASSUME NEW k \in 1 .. c + 1
         PROVE  /\ ts2[k].ptr >= 1 /\ str_len(ts2[k]) >= 1 /\ ts2[k].ptr + str_len(ts2[k]) <= g + 1
                /\ Word(x, p, ts2[k].ptr, str_len(ts2[k]))
    <3>1. CASE k = c + 1 /\ ts2[k] = u
      BY ONLY <2>3, <2>4, <2>5, <2>8, <3>1, h \in Nat
    <3>2. CASE k \in 1 .. c /\ ts2[k] = ts[k]
      BY ONLY <2>5, <2>12, <3>2, f \in Nat, h \in Nat, g \in Nat
    <3> QED BY <2>11, <3>1, <3>2
  <2>14. ASSUME NEW i \in Nat, NEW k \in Nat, i >= 1, i <= g, k >= 1, Word(x, p, i, k)
         PROVE  \E j \in 1 .. c + 1 : ts2[j].ptr = i /\ str_len(ts2[j]) = k
    <3>1. CASE i <= f
      <4>1. PICK j \in 1 .. c : ts[j].ptr = i /\ str_len(ts[j]) = k
        BY <2>10, <2>14, <3>1 DEF WordsAt
      <4>2. j \in 1 .. c + 1 /\ j # c + 1
        BY ONLY j \in 1 .. c, c \in Nat
      <4>3. ts2[j] = ts[j]
        BY ONLY <2>11, <4>2
      <4> QED BY ONLY <4>1, <4>2, <4>3
    <3>2. CASE ~(i <= f)
      <4>1. i = h + 1 /\ k = n
        <5>1. i > f /\ i <= h + n
          BY ONLY <2>5, <2>14, <3>2, f \in Nat
        <5> QED BY ONLY <2>4, <2>14, <5>1
      <4>2. c + 1 \in 1 .. c + 1 /\ ts2[c + 1] = u
        BY ONLY <2>11, c \in Nat
      <4> QED BY ONLY <2>8, <4>1, <4>2
    <3> QED BY <3>1, <3>2
  <2>15. ASSUME NEW j \in 1 .. c + 1, NEW k \in 1 .. c + 1, j < k
         PROVE  ts2[j].ptr < ts2[k].ptr
    <3>1. j \in 1 .. c /\ ts2[j] = ts[j]
      BY ONLY <2>11, <2>15, c \in Nat
    <3>2. CASE k = c + 1 /\ ts2[k] = u
      BY ONLY <2>5, <2>8, <2>12, <3>1, <3>2, h \in Nat, f \in Nat
    <3>3. CASE k \in 1 .. c /\ ts2[k] = ts[k]
      <4>1. ts[j].ptr < ts[k].ptr
        BY <2>10, <2>15, <3>1, <3>3 DEF WordsAt
      <4> QED BY ONLY <3>1, <3>3, <4>1
    <3> QED BY <2>11, <3>2, <3>3
  <2>16. WordsAt(x, p, v, ts2, g)
    <3>1. Len(ts2) = c + 1
      BY <2>9, <2>10
    <3>2. g + str_len(v) = Len(x) /\ Refers(v, g, str_len(v)) /\ str_len(v) \in Nat
      BY ONLY <1>1, <2>6, <2>7, e \in Nat
    <3>3. ~InWord(x, p, g + 1)
      BY ONLY <2>4, <2>5
    <3> QED BY ONLY <2>13, <2>14, <2>15, <3>1, <3>2, <3>3 DEF WordsAt
  <2> QED BY <2>8, <2>16 DEF ts2
<1> QED BY ONLY <1>10, <1>11, <1>12

----------------------------------------------------------------------------
(* StrSplit: the loops. *)

SplitPart == SplitOK(mem, sep, rest, tokens, done)
WordsPart ==
  \E f \in Nat : /\ WordsAt(mem, sep, rest, tokens, f)
                 /\ done => \A j \in Nat : j > f => ~InWord(mem, sep, j)
StripPart ==
  \E a \in Nat, b \in Nat, f \in Nat, g \in Nat :
    /\ StripAt(mem, sep, rest, a, b, f, g)
    /\ done => /\ ~str_has_prefix(TextIn(mem, rest), sep)
               /\ ~str_has_suffix(TextIn(mem, rest), sep)

Loops ==
  /\ mem \in Strings /\ Len(mem) <= MaxLen /\ sep \in Strings
  /\ done \in BOOLEAN /\ task \in {"split", "words", "strip"}
  /\ task # "words" => Len(sep) > 0
SplitInv ==
  /\ Loops /\ TokensOK(mem, tokens)
  /\ task = "split" => SplitPart
  /\ task = "words" => WordsPart
  /\ task = "strip" => StripPart

\* The object the loop begins with refers to all of the text.
LEMMA WholeRefers ==
  ASSUME NEW s, NEW n \in Nat, n <= MaxLen, s \in {str_ref_mem(1, n), str_acquire_mem(1, n)}
  PROVE  Refers(s, 0, n)
<1>1. CASE n = 0
  <2>1. s = str_null
    BY <1>1 DEF str_ref_mem, str_acquire_mem
  <2> QED BY <1>1, <2>1 DEF Refers
<1>2. CASE n # 0
  <2>1. s \in {str(1, 2 * n), str(1, 2 * n + 1)}
    <3>1. str_ref_prop(n) = 2 * n /\ str_owner_prop(n) = 2 * n + 1
      BY WordHolds
    <3> QED BY ONLY <1>2, <3>1, n \in Nat, s \in {str_ref_mem(1, n), str_acquire_mem(1, n)}
        DEF str_ref_mem, str_acquire_mem, Nullptr
  <2>2. 0 + 1 = 1
    OBVIOUS
  <2> QED BY ONLY <1>2, <2>1, <2>2 DEF Refers
<1> QED BY <1>1, <1>2

LEMMA LoopsBegin == Init => SplitInv
<1> SUFFICES ASSUME Init PROVE SplitInv
  OBVIOUS
<1>1. PICK n \in 0 .. MaxLen : mem \in [1 .. n -> Letter]
  BY DEF Init
<1>2. n \in Nat /\ n <= MaxLen
  BY <1>1, SplitAssumption
<1>3. mem \in Strings /\ Len(mem) = n
  <2>1. Letter \subseteq Nat
    BY SplitAssumption
  <2>2. mem \in [1 .. n -> Nat]
    BY ONLY <1>1, <2>1
  <2> QED BY ONLY <1>2, <2>2 DEF Strings
<1>4. /\ sep \in Strings /\ (task = "words" \/ sep # <<>>) /\ tokens = <<>> /\ done = FALSE
      /\ task \in {"split", "words", "strip"}
  BY SplitAssumption DEF Init, Strings
<1>5. sep # <<>> => Len(sep) > 0
  BY <1>4 DEF Strings
<1>6. Loops
  BY ONLY <1>2, <1>3, <1>4, <1>5 DEF Loops
<1>7. TokensOK(mem, tokens) /\ Len(tokens) = 0
  <2>1. tokens \in Seq(Objects) /\ Len(tokens) = 0
    <3> HIDE DEF Objects
    <3> QED BY ONLY <1>4
  <2> QED BY ONLY <2>1 DEF TokensOK
<1>8. Refers(rest, 0, n) /\ str_len(rest) = n
  <2>1. rest \in {str_ref_mem(1, n), str_acquire_mem(1, n)}
    BY <1>3 DEF Init
  <2>2. Refers(rest, 0, n) /\ 0 \in Nat
    BY ONLY <1>2, <2>1, WholeRefers
  <2> QED BY ONLY <1>2, <2>2, RefersLen
<1>9. SplitPart
  <2>1. Len(mem) - str_len(rest) = 0 /\ str_len(rest) \in Nat /\ 0 \in Nat
    BY ONLY <1>2, <1>3, <1>8
  <2>2. Refers(rest, 0, str_len(rest))
    BY ONLY <1>8
  <2>3. 1 .. Len(tokens) = {}
    BY ONLY <1>7
  <2> QED BY ONLY <1>4, <2>1, <2>2, <2>3 DEF SplitPart, SplitOK
<1>10. WordsPart
  <2>1. WordsAt(mem, sep, rest, tokens, 0)
    <3>1. 0 + str_len(rest) = Len(mem) /\ Refers(rest, 0, str_len(rest)) /\ str_len(rest) \in Nat
      BY ONLY <1>2, <1>3, <1>8
    <3>2. 1 .. Len(tokens) = {} /\ \A i \in Nat : ~(i >= 1 /\ i <= 0)
      BY ONLY <1>7
    <3> QED BY ONLY <3>1, <3>2 DEF WordsAt
  <2>2. 0 \in Nat
    OBVIOUS
  <2> QED BY ONLY <1>4, <2>1, <2>2 DEF WordsPart
<1>11. StripPart
  <2>1. PICK o \in Nat : o = 0 /\ o * Len(sep) = 0
    BY <1>4 DEF Strings
  <2>2. /\ Repeated(sep, o) = <<>> /\ Part(mem, o, o) = <<>> /\ Part(mem, n, n) = <<>>
    <3>1. Repeated(sep, o) = <<>> /\ Part(mem, o, o) = <<>>
      BY <1>3, <1>4, <2>1, RepeatedMore, WholePart DEF Strings
    <3>2. Part(mem, n, n) = <<>>
      BY <1>2, <1>3 DEF Part, Strings
    <3> QED BY <3>1, <3>2
  <2>3. o <= n /\ n <= n /\ n - o = n /\ n = n + 0
    BY ONLY <1>2, <2>1
  <2>4. StripAt(mem, sep, rest, o, o, o, n)
    BY ONLY <1>3, <1>8, <2>1, <2>2, <2>3 DEF StripAt
  <2> QED BY ONLY <1>2, <1>4, <2>1, <2>4 DEF StripPart
<1> QED BY ONLY <1>6, <1>7, <1>9, <1>10, <1>11 DEF SplitInv

LEMMA SplitKeeps ==
  ASSUME SplitInv, Split
  PROVE  SplitInv'
<1> /\ ~done /\ task = "split" /\ mem' = mem /\ sep' = sep /\ task' = task
  BY DEF Split
<1>1. PICK n : /\ n = str_span_until_substring(TextIn(mem, rest), sep)
               /\ tokens' = More(tokens, str_ref_slice(rest, 0, n))
               /\ IF n = str_len(rest)
                  THEN done' = TRUE /\ rest' = rest
                  ELSE rest' = str_ref_slice(rest, n + Len(sep), SIZE_MAX) /\ done' = done
  BY DEF Split, Cut, Text, TextIn, More
<1>2. /\ mem \in Strings /\ Len(mem) <= MaxLen /\ sep \in Strings /\ done = FALSE
      /\ Len(sep) > 0 /\ TokensOK(mem, tokens) /\ SplitOK(mem, sep, rest, tokens, FALSE)
  <2>1. done = FALSE
    BY DEF SplitInv, Loops
  <2>2. SplitOK(mem, sep, rest, tokens, done)
    BY DEF SplitInv, SplitPart
  <2> QED BY <2>1, <2>2 DEF SplitInv, Loops
<1>n. n \in Nat
  <2>1. PICK f : f = Len(mem) - str_len(rest)
    OBVIOUS
  <2>2. f \in Nat /\ str_len(rest) \in Nat /\ Refers(rest, f, str_len(rest))
    BY <1>2, <2>1 DEF SplitOK
  <2>3. f + str_len(rest) <= Len(mem) /\ f <= Len(mem) /\ Len(mem) \in Nat /\ Len(mem) <= Len(mem)
        /\ f + str_len(rest) = Len(mem)
    BY <1>2, <2>1, <2>2 DEF Strings
  <2>4. TextIn(mem, rest) = Part(mem, f, f + str_len(rest))
    BY ONLY <1>2, <2>2, <2>3, RefersText
  <2>5. BreakAsked(mem, sep, f, Len(mem))
    BY <1>2, <2>2, <2>3 DEF BreakAsked
  <2>6. BreakGiven(mem, sep, f, Len(mem), str_span_until_substring(Part(mem, f, Len(mem)), sep))
    BY ONLY <2>5, FirstBreak, Zenon
  <2>7. n = str_span_until_substring(Part(mem, f, Len(mem)), sep)
    BY ONLY <1>1, <2>3, <2>4
  <2> QED BY ONLY <2>6, <2>7 DEF BreakGiven
<1> DEFINE u == str_ref_slice(rest, 0, n)  r == str_ref_slice(rest, n + Len(sep), SIZE_MAX)
<1>3. /\ TokenOK(mem, u)
      /\ n = str_len(rest) => SplitOK(mem, sep, rest, More(tokens, u), TRUE)
      /\ n # str_len(rest) => SplitOK(mem, sep, r, More(tokens, u), FALSE)
  <2>1. u = str_ref_slice(rest, 0, n) /\ r = str_ref_slice(rest, n + Len(sep), SIZE_MAX)
    OBVIOUS
  <2> HIDE DEF u, r
  <2> QED BY ONLY <1>1, <1>2, <1>n, <2>1, SplitStep
<1> HIDE DEF u, r
<1>4. TokensOK(mem, More(tokens, u))
  BY ONLY <1>2, <1>3, TokensMore
<1>5. SplitOK(mem, sep, rest', More(tokens, u), done') /\ done' \in BOOLEAN
  <2>1. CASE n = str_len(rest)
    BY ONLY <1>1, <1>3, <2>1
  <2>2. CASE n # str_len(rest)
    <3>1. rest' = r
      BY <1>1, <2>2 DEF r
    <3> QED BY ONLY <1>1, <1>2, <1>3, <2>2, <3>1
  <2> QED BY <2>1, <2>2
<1>6. tokens' = More(tokens, u)
  BY <1>1 DEF u
<1>7. SplitPart'
  BY ONLY <1>5, <1>6, mem' = mem, sep' = sep DEF SplitPart
<1>8. Loops'
  BY ONLY <1>2, <1>5, mem' = mem, sep' = sep, task' = task, task = "split" DEF Loops
<1>9. TokensOK(mem', tokens')
  BY ONLY <1>4, <1>6, mem' = mem
<1> QED BY ONLY <1>7, <1>8, <1>9, task' = task, task = "split" DEF SplitInv

LEMMA WordsKeep ==
  ASSUME SplitInv, Words
  PROVE  SplitInv'
<1> /\ ~done /\ task = "words" /\ mem' = mem /\ sep' = sep /\ task' = task
  BY DEF Words
<1>1. PICK r : /\ r = str_ref_slice(rest, str_span_chars(TextIn(mem, rest), sep), SIZE_MAX)
               /\ \E n : /\ n = str_span_nonmatching_chars(TextIn(mem, r), sep)
                         /\ IF str_len(r) = 0
                            THEN done' = TRUE /\ rest' = rest /\ tokens' = tokens
                            ELSE /\ tokens' = More(tokens, str_ref_slice(r, 0, n))
                                 /\ rest' = str_ref_slice(r, n, SIZE_MAX) /\ done' = done
  BY DEF Words, Cut, Text, TextIn, More
<1>2. PICK n : /\ n = str_span_nonmatching_chars(TextIn(mem, r), sep)
               /\ IF str_len(r) = 0
                  THEN done' = TRUE /\ rest' = rest /\ tokens' = tokens
                  ELSE /\ tokens' = More(tokens, str_ref_slice(r, 0, n))
                       /\ rest' = str_ref_slice(r, n, SIZE_MAX) /\ done' = done
  BY <1>1
<1>3. /\ mem \in Strings /\ Len(mem) <= MaxLen /\ sep \in Strings /\ done = FALSE
      /\ TokensOK(mem, tokens)
  BY DEF SplitInv, Loops
<1>4. PICK f \in Nat : WordsAt(mem, sep, rest, tokens, f)
  BY DEF SplitInv, WordsPart
<1> DEFINE u == str_ref_slice(r, 0, n)  v == str_ref_slice(r, n, SIZE_MAX)
<1>5. /\ str_len(r) = 0 => \A j \in Nat : j > f => ~InWord(mem, sep, j)
      /\ str_len(r) # 0
           => TokenOK(mem, u) /\ \E g \in Nat : WordsAt(mem, sep, v, More(tokens, u), g)
  <2>1. u = str_ref_slice(r, 0, n) /\ v = str_ref_slice(r, n, SIZE_MAX)
    OBVIOUS
  <2> HIDE DEF u, v
  <2> QED BY ONLY <1>1, <1>2, <1>3, <1>4, <2>1, WordsStep
<1>6. CASE str_len(r) = 0
  <2>1. done' = TRUE /\ rest' = rest /\ tokens' = tokens
    BY <1>2, <1>6
  <2>2. WordsPart'
    BY ONLY <1>4, <1>5, <1>6, <2>1, mem' = mem, sep' = sep, f \in Nat DEF WordsPart
  <2>3. Loops'
    BY ONLY <1>3, <2>1, mem' = mem, sep' = sep, task' = task, task = "words" DEF Loops
  <2>4. TokensOK(mem', tokens')
    BY ONLY <1>3, <2>1, mem' = mem
  <2> QED BY ONLY <2>2, <2>3, <2>4, task' = task, task = "words" DEF SplitInv
<1>7. CASE str_len(r) # 0
  <2>1. tokens' = More(tokens, u) /\ rest' = v /\ done' = FALSE
    BY <1>2, <1>3, <1>7
  <2> HIDE DEF u, v
  <2>2. WordsPart'
    <3>1. PICK g \in Nat : WordsAt(mem, sep, v, More(tokens, u), g)
      BY ONLY <1>5, <1>7
    <3> QED BY ONLY <2>1, <3>1, mem' = mem, sep' = sep DEF WordsPart
  <2>3. Loops'
    BY ONLY <1>3, <2>1, mem' = mem, sep' = sep, task' = task, task = "words" DEF Loops
  <2>4. TokensOK(mem', tokens')
    <3>1. TokensOK(mem, More(tokens, u))
      BY ONLY <1>3, <1>5, <1>7, TokensMore
    <3> QED BY ONLY <2>1, <3>1, mem' = mem
  <2> QED BY ONLY <2>2, <2>3, <2>4, task' = task, task = "words" DEF SplitInv
<1> QED BY <1>6, <1>7

LEMMA StripKeeps ==
  ASSUME SplitInv, Strip
  PROVE  SplitInv'
<1> /\ ~done /\ task = "strip" /\ mem' = mem /\ sep' = sep /\ task' = task /\ tokens' = tokens
  BY DEF Strip
<1>1. IF str_has_prefix(TextIn(mem, rest), sep)
      THEN rest' = str_ref_slice(rest, Len(sep), SIZE_MAX) /\ done' = done
      ELSE IF str_has_suffix(TextIn(mem, rest), sep)
      THEN rest' = str_ref_slice(rest, 0, str_len(rest) - Len(sep)) /\ done' = done
      ELSE done' = TRUE /\ rest' = str_ref(rest)
  BY DEF Strip, Text, TextIn
<1>2. /\ mem \in Strings /\ Len(mem) <= MaxLen /\ sep \in Strings /\ done = FALSE
      /\ Len(sep) > 0 /\ TokensOK(mem, tokens)
  BY DEF SplitInv, Loops
<1>3. PICK a \in Nat, b \in Nat, f \in Nat, g \in Nat : StripAt(mem, sep, rest, a, b, f, g)
  BY DEF SplitInv, StripPart
<1>4. StripPart' /\ done' \in BOOLEAN
  <2>1. CASE str_has_prefix(TextIn(mem, rest), sep)
    <3>1. rest' = str_ref_slice(rest, Len(sep), SIZE_MAX) /\ done' = FALSE
      BY <1>1, <1>2, <2>1
    <3>2. PICK k \in Nat : k = f + Len(sep)
      BY <1>2 DEF Strings
    <3>3. StripAt(mem, sep, rest', a + 1, b, k, g) /\ a + 1 \in Nat
      BY ONLY <1>2, <1>3, <2>1, <3>1, <3>2, StripPrefix
    <3> QED BY ONLY <1>3, <3>1, <3>2, <3>3, mem' = mem, sep' = sep DEF StripPart
  <2>2. CASE ~str_has_prefix(TextIn(mem, rest), sep) /\ str_has_suffix(TextIn(mem, rest), sep)
    <3>1. rest' = str_ref_slice(rest, 0, str_len(rest) - Len(sep)) /\ done' = FALSE
      BY <1>1, <1>2, <2>2
    <3>2. StripAt(mem, sep, rest', a, b + 1, f, g - Len(sep)) /\ g - Len(sep) \in Nat
      BY ONLY <1>2, <1>3, <2>2, <3>1, StripSuffix
    <3>3. b + 1 \in Nat
      OBVIOUS
    <3> QED BY ONLY <1>3, <3>1, <3>2, <3>3, mem' = mem, sep' = sep DEF StripPart
  <2>3. CASE ~str_has_prefix(TextIn(mem, rest), sep) /\ ~str_has_suffix(TextIn(mem, rest), sep)
    <3>1. rest' = str_ref(rest) /\ done' = TRUE
      BY <1>1, <2>3
    <3>2. PICK l \in Nat : l = g - f
      <4>1. f <= g
        BY <1>3 DEF StripAt
      <4> QED BY ONLY <4>1, f \in Nat, g \in Nat
    <3>3. Refers(rest, f, l)
      BY <1>3, <3>2 DEF StripAt
    <3>4. Refers(rest', f, l) /\ rest'.ptr = rest.ptr /\ str_len(rest') = str_len(rest)
      <4>1. str_len(rest) = l
        BY ONLY <3>3, f \in Nat, l \in Nat, RefersLen
      <4> QED BY ONLY <3>1, <3>3, <4>1, f \in Nat, l \in Nat, RefKeeps
    <3>5. TextIn(mem, rest') = TextIn(mem, rest)
      BY ONLY <3>4 DEF TextIn
    <3>6. StripAt(mem, sep, rest', a, b, f, g)
      BY ONLY <1>3, <3>2, <3>4 DEF StripAt
    <3> QED BY ONLY <1>3, <2>3, <3>1, <3>5, <3>6, mem' = mem, sep' = sep DEF StripPart
  <2> QED BY <2>1, <2>2, <2>3
<1>5. Loops'
  BY ONLY <1>2, <1>4, mem' = mem, sep' = sep, task' = task, task = "strip" DEF Loops
<1>6. TokensOK(mem', tokens')
  BY <1>2
<1> QED BY ONLY <1>4, <1>5, <1>6, task' = task, task = "strip" DEF SplitInv

\* What the loops have done so far is known at every round.
THEOREM SplitInvariant == Spec => []SplitInv
<1>1. SplitInv /\ [Next]_vars => SplitInv'
  <2> SUFFICES ASSUME SplitInv, [Next]_vars PROVE SplitInv'
    OBVIOUS
  <2>1. CASE Split
    BY <2>1, SplitKeeps
  <2>2. CASE Words
    BY <2>2, WordsKeep
  <2>3. CASE Strip
    BY <2>3, StripKeeps
  <2>4. CASE UNCHANGED vars
    BY <2>4 DEF vars, SplitInv, Loops, SplitPart, WordsPart, StripPart
  <2> QED BY <2>1, <2>2, <2>3, <2>4 DEF Next, Finished
<1> QED BY <1>1, LoopsBegin, PTL DEF Spec

LEMMA ReferenceInside ==
  ASSUME NEW s, NEW a \in Nat, NEW n \in Nat, a + n <= Len(mem), Len(mem) <= MaxLen,
         Len(mem) \in Nat, Refers(s, a, n)
  PROVE  Inside(s)
<1>1. n <= MaxLen /\ MaxLen \in Nat
  BY SplitAssumption
<1>2. /\ s.ptr \in Nat /\ s.prop \in Nat /\ str_len(s) = n
      /\ n = 0 => s.prop = 0 /\ s = str_null
      /\ n # 0 => s.ptr = a + 1 /\ (s.prop = 2 * n \/ s.prop = 2 * n + 1)
  BY ONLY a \in Nat, n \in Nat, Refers(s, a, n), RefersLen
<1>3. PICK M \in Nat : M = SIZE_MAX /\ 2 * n + 1 <= M
  BY <1>1, WordHolds, WordAssumption
<1>4. s.prop \in size_t
  BY ONLY <1>2, <1>3, n \in Nat DEF size_t
<1>5. n # 0 => s.ptr >= 1 /\ n >= 1 /\ s.ptr + n <= Len(mem) + 1
  BY ONLY <1>2, a \in Nat, n \in Nat, a + n <= Len(mem), Len(mem) \in Nat
<1> QED BY ONLY <1>2, <1>4, <1>5 DEF Inside

\* Whatever a loop cuts off, for any text, separator and charset, lies inside
\* the text and owns nothing: str_ref_slice clamps what it is asked for, also
\* when the end is SIZE_MAX, and clears the owner bit of the object it slices.
THEOREM SlicesStayInside == Spec => []TypeOK
<1>1. SplitInv => TypeOK
  <2> SUFFICES ASSUME SplitInv PROVE TypeOK
    OBVIOUS
  <2>1. /\ mem \in Strings /\ Len(mem) <= MaxLen /\ done \in BOOLEAN
        /\ task \in {"split", "words", "strip"} /\ TokensOK(mem, tokens)
    BY DEF SplitInv, Loops
  <2>2. Len(mem) \in Nat
    BY <2>1 DEF Strings
  <2>3. \E a \in Nat, n \in Nat : a + n <= Len(mem) /\ Refers(rest, a, n)
    <3>1. CASE task = "split"
      <4>1. SplitOK(mem, sep, rest, tokens, done)
        BY <3>1 DEF SplitInv, SplitPart
      <4>2. PICK f : f = Len(mem) - str_len(rest)
        OBVIOUS
      <4>3. f \in Nat /\ str_len(rest) \in Nat /\ Refers(rest, f, str_len(rest))
        BY ONLY <4>1, <4>2 DEF SplitOK
      <4>4. f + str_len(rest) <= Len(mem)
        BY ONLY <2>2, <4>2, <4>3
      <4> QED BY ONLY <4>3, <4>4
    <3>2. CASE task = "words"
      <4>1. PICK f \in Nat : WordsAt(mem, sep, rest, tokens, f)
        BY <3>2 DEF SplitInv, WordsPart
      <4>2. /\ f + str_len(rest) = Len(mem) /\ Refers(rest, f, str_len(rest))
            /\ str_len(rest) \in Nat
        BY ONLY <4>1 DEF WordsAt
      <4> QED BY ONLY <2>2, <4>2, f \in Nat
    <3>3. CASE task = "strip"
      <4>1. PICK a \in Nat, b \in Nat, f \in Nat, g \in Nat : StripAt(mem, sep, rest, a, b, f, g)
        BY <3>3 DEF SplitInv, StripPart
      <4>2. f <= g /\ g <= Len(mem) /\ Refers(rest, f, g - f)
        BY ONLY <4>1 DEF StripAt
      <4>3. g - f \in Nat /\ f + (g - f) <= Len(mem)
        BY ONLY <2>2, <4>2, f \in Nat, g \in Nat
      <4> QED BY ONLY <4>2, <4>3, f \in Nat
    <3> QED BY ONLY <2>1, <3>1, <3>2, <3>3
  <2>4. Inside(rest)
    BY ONLY <2>1, <2>2, <2>3, ReferenceInside
  <2>5. ASSUME NEW k \in DOMAIN tokens PROVE Inside(tokens[k]) /\ ~str_is_owner(tokens[k])
    <3>1. k \in 1 .. Len(tokens)
      <4>1. tokens \in Seq(Objects)
        BY <2>1 DEF TokensOK
      <4> HIDE DEF Objects
      <4> QED BY ONLY <4>1, <2>5
    <3>2. TokenOK(mem, tokens[k])
      BY ONLY <2>1, <3>1 DEF TokensOK
    <3>3. ~str_is_owner(tokens[k])
      BY ONLY <3>2 DEF TokenOK
    <3>4. PICK a \in Nat, n \in Nat : a + n <= Len(mem) /\ Refers(tokens[k], a, n)
      BY ONLY <3>2 DEF TokenOK
    <3>5. Inside(tokens[k])
      BY ONLY <2>1, <2>2, <3>4, ReferenceInside
    <3> QED BY ONLY <3>3, <3>5
  <2> QED BY ONLY <2>1, <2>4, <2>5 DEF TypeOK
<1> QED BY <1>1, SplitInvariant, PTL

LEMMA TokensDomain ==
  ASSUME NEW x, NEW ts, TokensOK(x, ts)
  PROVE  DOMAIN ts = 1 .. Len(ts) /\ Len(ts) \in Nat
<1>1. ts \in Seq(Objects)
  BY DEF TokensOK
<1> HIDE DEF Objects
<1> QED BY ONLY <1>1

\* A text split at a separator loses nothing, whatever the text and the
\* separator: the tokens with the separator between them are the text, and
\* each token ends where the separator first stands.
THEOREM SplittingRejoins == Spec => []SplitRejoins
<1>1. SplitInv => SplitRejoins
  <2> SUFFICES ASSUME SplitInv, done, task = "split"
               PROVE  /\ Joined(sep, Texts) = mem
                      /\ \A k \in DOMAIN tokens : \A q \in 0 .. Len(Texts[k]) - 1 :
                           ~HasAt(IF k < Len(tokens) THEN Texts[k] \o sep ELSE Texts[k], q, sep)
    BY DEF SplitRejoins
  <2>1. done = TRUE /\ TokensOK(mem, tokens) /\ SplitOK(mem, sep, rest, tokens, done)
    BY DEF SplitInv, Loops, SplitPart
  <2>2. SplitOK(mem, sep, rest, tokens, TRUE)
    BY <2>1
  <2>3. DOMAIN tokens = 1 .. Len(tokens)
    BY ONLY <2>1, TokensDomain
  <2>4. Texts = TextsIn(mem, tokens)
    BY ONLY <2>3 DEF Texts, TextsIn, Text, TextIn
  <2>5. Joined(sep, Texts) = mem
    BY ONLY <2>2, <2>4 DEF SplitOK
  <2>6. ASSUME NEW k \in DOMAIN tokens, NEW q \in 0 .. Len(Texts[k]) - 1
        PROVE  ~HasAt(IF k < Len(tokens) THEN Texts[k] \o sep ELSE Texts[k], q, sep)
    <3>1. Texts[k] = TextIn(mem, tokens[k]) /\ k \in 1 .. Len(tokens)
      BY ONLY <2>3, <2>4, <2>6 DEF TextsIn
    <3>2. Unbroken(sep, Texts[k], ~TRUE \/ k < Len(tokens))
      BY ONLY <2>2, <3>1 DEF SplitOK
    <3>3. (~TRUE \/ k < Len(tokens)) = (k < Len(tokens))
      OBVIOUS
    <3>4. Unbroken(sep, Texts[k], k < Len(tokens))
      BY ONLY <3>2, <3>3
    <3> QED BY ONLY <2>6, <3>4, Zenon DEF Unbroken
  <2> QED BY ONLY <2>5, <2>6
<1> QED BY <1>1, SplitInvariant, PTL

\* The loop over str_span_chars and str_span_nonmatching_chars finds every
\* longest run of bytes outside the charset, nothing else, and in order,
\* whatever the text and the charset.
THEOREM FindsAllWords == Spec => []WordsFound
<1>1. SplitInv => WordsFound
  <2> SUFFICES ASSUME SplitInv, done, task = "words" PROVE WordsFound
    BY DEF WordsFound
  <2>1. /\ mem \in Strings /\ TokensOK(mem, tokens) /\ WordsPart
    BY DEF SplitInv, Loops
  <2>2. PICK L \in Nat : L = Len(mem) /\ DOMAIN mem = 1 .. L
    BY <2>1 DEF Strings
  <2>3. DOMAIN tokens = 1 .. Len(tokens)
    BY ONLY <2>1, TokensDomain
  <2>4. PICK f \in Nat : /\ WordsAt(mem, sep, rest, tokens, f)
                         /\ \A j \in Nat : j > f => ~InWord(mem, sep, j)
    BY ONLY <2>1, done DEF WordsPart
  <2> DEFINE in(j) == j \in DOMAIN mem /\ mem[j] \notin ToSet(sep)
             run(i, n) == (\A j \in i .. i + n - 1 : in(j)) /\ ~in(i - 1) /\ ~in(i + n)
             is(k, i, n) == tokens[k].ptr = i /\ str_len(tokens[k]) = n
  <2>5. \A j : in(j) <=> InWord(mem, sep, j)
    BY ONLY <2>2 DEF InWord
  <2> HIDE DEF in
  <2>6. \A i, n : run(i, n) <=> Word(mem, sep, i, n)
    BY ONLY <2>5 DEF Word
  <2> HIDE DEF run
  <2>7. ASSUME NEW i \in DOMAIN mem, NEW n \in 1 .. Len(mem)
        PROVE  run(i, n) <=> \E k \in DOMAIN tokens : is(k, i, n)
    <3>1. i \in Nat /\ n \in Nat /\ i >= 1 /\ n >= 1
      BY ONLY <2>2, <2>7
    <3>2. ASSUME run(i, n) PROVE \E k \in DOMAIN tokens : is(k, i, n)
      <4>1. Word(mem, sep, i, n)
        BY ONLY <2>6, <3>2
      <4>2. InWord(mem, sep, i)
        <5>1. i \in i .. i + n - 1
          BY ONLY <3>1
        <5> QED BY ONLY <4>1, <5>1 DEF Word
      <4>3. i <= f
        BY ONLY <2>4, <3>1, <4>2, f \in Nat
      <4>4. \E k \in 1 .. Len(tokens) : tokens[k].ptr = i /\ str_len(tokens[k]) = n
        BY ONLY <2>4, <3>1, <4>1, <4>3 DEF WordsAt
      <4> QED BY ONLY <2>3, <4>4
    <3>3. ASSUME NEW k \in DOMAIN tokens, is(k, i, n) PROVE run(i, n)
      <4>1. Word(mem, sep, tokens[k].ptr, str_len(tokens[k]))
        BY ONLY <2>3, <2>4, <3>3 DEF WordsAt
      <4> QED BY ONLY <2>6, <3>3, <4>1
    <3> QED BY ONLY <3>2, <3>3
  <2>8. \A j, k \in DOMAIN tokens : j < k => tokens[j].ptr < tokens[k].ptr
    BY ONLY <2>3, <2>4 DEF WordsAt
  <2> QED BY ONLY <2>7, <2>8 DEF WordsFound, run, in
<1> QED BY <1>1, SplitInvariant, PTL

\* Stripping takes whole copies of the separator off either end and leaves
\* none there, whatever the text and the separator.
THEOREM StripsCopies == Spec => []Stripped
<1>1. SplitInv => Stripped
  <2> SUFFICES ASSUME SplitInv, done, task = "strip" PROVE Stripped
    BY DEF Stripped
  <2>1. /\ mem \in Strings /\ sep \in Strings /\ Len(sep) > 0 /\ StripPart
    BY DEF SplitInv, Loops
  <2>2. PICK L \in Nat : L = Len(mem)
    BY <2>1 DEF Strings
  <2>3. PICK a \in Nat, b \in Nat, f \in Nat, g \in Nat :
               /\ StripAt(mem, sep, rest, a, b, f, g)
               /\ ~str_has_prefix(TextIn(mem, rest), sep)
               /\ ~str_has_suffix(TextIn(mem, rest), sep)
    BY ONLY <2>1, done DEF StripPart
  <2>4. PICK x : x = Text(rest) /\ x = TextIn(mem, rest)
    BY DEF Text, TextIn
  <2>5. /\ f <= g /\ g <= L /\ Refers(rest, f, g - f)
        /\ Repeated(sep, a) = Part(mem, 0, f) /\ f = a * Len(sep)
        /\ Repeated(sep, b) = Part(mem, g, L) /\ L = g + b * Len(sep)
    BY ONLY <2>2, <2>3 DEF StripAt
  <2>6. PICK l \in Nat : l = g - f /\ f + l = g
    <3>1. f <= g
      BY <2>5
    <3> QED BY ONLY <3>1, f \in Nat, g \in Nat
  <2>7. x = Part(mem, f, g) /\ x \in Strings /\ Len(x) = l
    <3>1. f + l <= Len(mem) /\ Refers(rest, f, l) /\ g <= Len(mem) /\ f <= g /\ g <= g
      BY ONLY <2>2, <2>5, <2>6, g \in Nat
    <3>2. TextIn(mem, rest) = Part(mem, f, f + l)
      BY ONLY <2>1, <3>1, f \in Nat, l \in Nat, RefersText
    <3>3. Part(mem, f, g) \in Strings /\ Len(Part(mem, f, g)) = g - f
      BY ONLY <2>1, <3>1, f \in Nat, g \in Nat, PartsJoin
    <3> QED BY ONLY <2>4, <2>6, <3>2, <3>3
  <2>8. PICK m \in Nat : m = Len(sep) /\ m > 0
    BY <2>1 DEF Strings
  <2>9. (Len(mem) - Len(x)) \div Len(sep) = a + b
    <3>1. PICK c \in Nat : c = a + b
      OBVIOUS
    <3>2. L - l = c * m
      <4>1. c * m = a * m + b * m
        BY ONLY <3>1, a \in Nat, b \in Nat, m \in Nat
      <4>2. PICK u \in Nat, v \in Nat : u = a * m /\ v = b * m
        OBVIOUS
      <4>3. f = u /\ L = g + v
        BY ONLY <2>5, <2>8, <4>2
      <4>4. L - l = u + v
        BY ONLY <2>6, <4>3, f \in Nat, g \in Nat, l \in Nat, v \in Nat
      <4> QED BY ONLY <4>1, <4>2, <4>4
    <3>3. (c * m) \div m = c
      BY ONLY <2>8, c \in Nat, m \in Nat
    <3> QED BY ONLY <2>2, <2>7, <2>8, <3>1, <3>2, <3>3
  <2>10. a \in 0 .. a + b /\ (a + b) - a = b
    OBVIOUS
  <2>11. Repeated(sep, a) \o x \o Repeated(sep, b) = mem
    <3>1. 0 \in Nat /\ 0 <= f /\ f <= g /\ g <= L /\ 0 <= g /\ L <= Len(mem) /\ g <= Len(mem)
      BY ONLY <2>2, <2>5, f \in Nat, g \in Nat
    <3>2. Then(Part(mem, 0, f), Part(mem, f, g)) = Part(mem, 0, g)
      BY ONLY <2>1, <3>1, f \in Nat, g \in Nat, PartsJoin
    <3>3. Then(Part(mem, 0, g), Part(mem, g, L)) = Part(mem, 0, L)
      BY ONLY <2>1, <3>1, L \in Nat, g \in Nat, PartsJoin
    <3>4. Part(mem, 0, L) = mem
      BY ONLY <2>1, <2>2, WholePart
    <3> QED BY ONLY <2>5, <2>7, <3>2, <3>3, <3>4, Zenon DEF Then
  <2>12. ASSUME Len(x) >= Len(sep)
         PROVE  /\ sep # SubSeq(x, 1, Len(sep))
                /\ sep # SubSeq(x, Len(x) - Len(sep) + 1, Len(x))
    <3>1. m <= l
      BY ONLY <2>7, <2>8, <2>12
    <3>2. sep # <<>>
      <4>1. ASSUME sep = <<>> PROVE FALSE
        BY ONLY <2>8, <4>1
      <4> QED BY <4>1
    <3>3. ~HasAt(x, 0, sep) /\ ~HasAt(x, l - m, sep)
      BY ONLY <2>3, <2>4, <2>7, <2>8, <2>12, <3>2 DEF str_has_prefix, str_has_suffix
    <3>4. 0 + m <= l /\ 0 + 1 = 1 /\ 0 + m = m /\ l - m + m <= l /\ l - m + m = l
      BY ONLY <3>1, m \in Nat, l \in Nat
    <3>5. SubSeq(x, 1, m) # sep /\ SubSeq(x, l - m + 1, l) # sep
      <4>1. HasAt(x, 0, sep) <=> SubSeq(x, 1, m) = sep
        BY ONLY <2>7, <2>8, <3>4 DEF HasAt
      <4>2. HasAt(x, l - m, sep) <=> SubSeq(x, l - m + 1, l) = sep
        BY ONLY <2>7, <2>8, <3>4 DEF HasAt
      <4> QED BY ONLY <3>3, <4>1, <4>2
    <3> QED BY ONLY <2>7, <2>8, <3>5
  <2>13. PICK n : n = (Len(mem) - Len(x)) \div Len(sep)
    OBVIOUS
  <2>14. \E i \in 0 .. n : Repeated(sep, i) \o x \o Repeated(sep, n - i) = mem
    <3>1. a \in 0 .. n /\ n - a = b
      BY ONLY <2>9, <2>10, <2>13
    <3>2. Repeated(sep, a) \o x \o Repeated(sep, n - a) = mem
      BY ONLY <2>11, <3>1
    <3> QED BY ONLY <3>1, <3>2, Zenon
  <2>15. Len(x) >= Len(sep) =>
           sep \notin {SubSeq(x, 1, Len(sep)), SubSeq(x, Len(x) - Len(sep) + 1, Len(x))}
    BY ONLY <2>12
  <2> QED BY ONLY <2>4, <2>13, <2>14, <2>15, Zenon DEF Stripped
<1> QED BY <1>1, SplitInvariant, PTL

----------------------------------------------------------------------------
(* Utf8Codec. *)

\* What has been encoded is the encoding of cp, what has been decoded is the
\* text.
CodecInv ==
  /\ text = None \/ text \in Seq(Byte)
  /\ text = None => got = None /\ cp \in CodePoint
  /\ cp # None /\ text # None => cp \in CodePoint /\ text = str_encode_codepoint(cp)
  /\ got # None => text # None /\ got = str_decode_utf8(text)

LEMMA EncodesBytes ==
  ASSUME NEW c \in Nat
  PROVE  str_encode_codepoint(c) \in Seq(Byte)
<1>1. <<>> \in Seq(Byte)
  OBVIOUS
<1> QED BY <1>1, EncoderIs DEF Encodes

THEOREM CodecInvariant == CodecSpec => []CodecInv
<1>1. CodecInit => CodecInv
  BY CodecAssumption DEF CodecInit, CodecInv
<1>2. CodecInv /\ [CodecNext]_codecVars => CodecInv'
  <2> SUFFICES ASSUME CodecInv, [CodecNext]_codecVars
               PROVE  CodecInv'
    OBVIOUS
  <2> USE DEF CodecInv
  <2>1. CASE Encode
    <3>1. cp \in CodePoint /\ cp \in Nat /\ got = None
      BY <2>1, CodecAssumption DEF Encode
    <3>2. text' \in Seq(Byte)
      BY ONLY <2>1, <3>1, EncodesBytes DEF Encode
    <3> QED BY <2>1, <3>1, <3>2, CodecAssumption DEF Encode
  <2>2. CASE Decode
    BY <2>2 DEF Decode
  <2>3. CASE UNCHANGED codecVars
    BY <2>3 DEF codecVars
  <2>4. CASE Done
    BY <2>4 DEF Done, codecVars
  <2> QED BY <2>1, <2>2, <2>3, <2>4 DEF CodecNext
<1> QED BY <1>1, <1>2, PTL DEF CodecSpec

\* str_decode_utf8 accepts exactly the encodings of the scalar values, and
\* returns the value that one stands for, whatever memory it is given.
THEOREM AcceptsExactlyEncodings == CodecSpec => []DecodesEncodings
<1>1. CodecInv => DecodesEncodings
  <2> SUFFICES ASSUME CodecInv, Decoded, text # <<>>
               PROVE  DecodesEncodings
    BY DEF DecodesEncodings
  <2>1. text \in Seq(Byte) /\ got = str_decode_utf8(text)
    BY DEF CodecInv, Decoded
  <2> QED BY ONLY <2>1, text # <<>>, AcceptsEncodings DEF DecodesEncodings
<1> QED BY <1>1, CodecInvariant, PTL

\* The byte at which str_decode_utf8 reports an error is the first one that
\* cannot go on, so that nothing that starts an encoding is skipped.
THEOREM StopsAtFirstBadByte == CodecSpec => []ErrorAtFirstBadByte
<1>1. CodecInv => ErrorAtFirstBadByte
  <2> SUFFICES ASSUME CodecInv, Decoded, got.status = ERROR
               PROVE  ErrorAtFirstBadByte
    BY DEF ErrorAtFirstBadByte
  <2>1. text \in Seq(Byte) /\ got = str_decode_utf8(text)
    BY DEF CodecInv, Decoded
  <2>2. text # <<>>
    <3>1. ASSUME text = <<>> PROVE FALSE
      <4>1. got = Result(OK, 0, 0, 0)
        BY ONLY <2>1, <3>1 DEF str_decode_utf8
      <4> QED BY <4>1 DEF Result, OK, ERROR
    <3> QED BY <3>1
  <2> QED BY ONLY <2>1, <2>2, got.status = ERROR, RefusesAtFirstBadByte DEF ErrorAtFirstBadByte
<1> QED BY <1>1, CodecInvariant, PTL

\* Decoding what str_encode_codepoint wrote gives the codepoint back, for
\* every scalar value; for any other number it writes nothing.
THEOREM EncodedDecodes == CodecSpec => []RoundTrip
<1>1. CodecInv => RoundTrip
  <2> SUFFICES ASSUME CodecInv, cp # None, Decoded
               PROVE  IF IsScalar(cp) THEN got = result_ok(cp, Len(text)) /\ Len(text) \in 1 .. 4
                                      ELSE text = <<>>
    BY DEF RoundTrip
  <2>1. cp \in Nat /\ text = str_encode_codepoint(cp) /\ got = str_decode_utf8(text)
    BY CodecAssumption DEF CodecInv, Decoded
  <2>2. ASSUME ~IsScalar(cp) PROVE text = <<>>
    BY ONLY <2>1, <2>2, EncoderIs
  <2>3. ASSUME IsScalar(cp)
        PROVE  got = result_ok(cp, Len(text)) /\ Len(text) \in 1 .. 4
    <3>1. Encodes(text, cp)
      BY ONLY <2>1, <2>3, EncoderIs
    <3>2. got = result_ok(cp, Len(text))
      BY ONLY <2>1, <3>1, DecodesEncoded
    <3>3. Len(text) \in 1 .. 4
      <4>1. text \in Seq(Byte) /\ 1 <= Len(text) /\ Len(text) <= 4
        BY ONLY <3>1 DEF Encodes
      <4>2. Len(text) \in Nat
        BY ONLY <4>1, FourBytes
      <4>3. PICK n \in Nat : n = Len(text)
        BY ONLY <4>2
      <4>4. n \in 1 .. 4
        BY ONLY <4>1, <4>3
      <4> QED BY ONLY <4>3, <4>4
    <3> QED BY ONLY <3>2, <3>3
  <2> QED BY ONLY <2>2, <2>3
<1> QED BY <1>1, CodecInvariant, PTL
=============================================================================
