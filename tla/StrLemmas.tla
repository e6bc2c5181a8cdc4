------------------------------ MODULE StrLemmas ------------------------------
(***************************************************************************)
(* Facts about numbers, strings put together, searches and UTF-8 (decoding *)
(* and encoding, valid texts, counts of codepoints) that the proofs about  *)
(* several components rest on.                                             *)
(*                                                                         *)
(* LeastNumber stands in for an induction rule: to show a fact for every   *)
(* number up to n, take the least counterexample and derive another.       *)
(***************************************************************************)
EXTENDS Integers, SequencesExt, WellFoundedInduction, SequenceTheorems, StrSearch, Utf8, TLAPS

\* A non-empty set of natural numbers has a least element.
LEMMA LeastNumber ==
  ASSUME NEW S \in SUBSET Nat, S # {}
  PROVE  \E k \in S : \A m \in S : k <= m
<1> DEFINE R == {ss \in Nat \X Nat : ss[1] < ss[2]}
<1>1. IsWellFoundedOn(R, Nat)
  BY NatLessThanWellFounded DEF OpToRel
<1>2. PICK k \in S : \A m \in S : ~(<<m, k>> \in R)
  <2> HIDE DEF R
  <2> QED BY <1>1, WFMin
<1>3. ASSUME NEW m \in S PROVE k <= m
  <2>1. m \in Nat /\ k \in Nat /\ ~(m < k)
    BY <1>2
  <2> QED BY <2>1
<1> QED BY <1>3

\* Totals t of non-negative terms d never go down: none exceeds the last.
LEMMA RunningTotals ==
  ASSUME NEW n \in Nat, NEW t, NEW d, \A k \in 1 .. n + 1 : t[k] \in Nat,
         \A k \in 1 .. n : d[k] \in Nat /\ t[k + 1] = t[k] + d[k]
  PROVE  \A k \in 1 .. n + 1 : t[k] <= t[n + 1]
<1> DEFINE Bad == {m \in 0 .. n : ~(t[n + 1 - m] <= t[n + 1])}
<1>1. ASSUME Bad # {} PROVE FALSE
  <2>1. PICK m \in Bad : \A k \in Bad : m <= k
    <3> Bad \subseteq Nat
      OBVIOUS
    <3> HIDE DEF Bad
    <3> QED BY <1>1, LeastNumber
  <2>2. m \in Nat /\ m # 0 /\ m <= n /\ ~(t[n + 1 - m] <= t[n + 1])
    OBVIOUS
  <2>3. m - 1 \in 0 .. n /\ ~(m - 1 \in Bad)
    BY <2>1, <2>2
  <2>4. t[n + 1 - (m - 1)] <= t[n + 1]
    BY <2>3
  <2>5. n + 1 - m \in 1 .. n /\ n + 1 - (m - 1) = (n + 1 - m) + 1
    BY <2>2
  <2>6. t[n + 1 - m] \in Nat /\ d[n + 1 - m] \in Nat /\ t[n + 1] \in Nat
    BY <2>5
  <2>7. t[(n + 1 - m) + 1] = t[n + 1 - m] + d[n + 1 - m]
    BY <2>5
  <2> QED BY <2>2, <2>4, <2>5, <2>6, <2>7
<1>2. ASSUME NEW k \in 1 .. n + 1 PROVE t[k] <= t[n + 1]
  <2>1. n + 1 - k \in 0 .. n /\ n + 1 - (n + 1 - k) = k
    OBVIOUS
  <2>2. n + 1 - k \notin Bad
    BY <1>1
  <2> QED BY <2>1, <2>2
<1> QED BY <1>2

\* More copies are not shorter.
LEMMA ProductGrows ==
  ASSUME NEW x \in Nat, NEW m \in Nat, NEW n \in Nat, m <= n
  PROVE  x * m \in Nat /\ x * m <= x * n
<1> DEFINE k == n - m
<1>1. k \in Nat /\ n = m + k
  OBVIOUS
<1> HIDE DEF k
<1>2. x * n = x * m + x * k /\ x * m \in Nat /\ x * k \in Nat
  BY <1>1
<1> QED BY <1>2

----------------------------------------------------------------------------
(* FlattenSeq. *)

\* The function f of FlattenSeq, up to n.
Flattens(ss, n, f) ==
  f = [i \in 1 .. n |-> IF i = 1 THEN ss[i] ELSE f[i - 1] \o ss[i]]

LEMMA FlattensAt ==
  \A n \in Nat : \A ss, f : Flattens(ss, n, f) =>
    \A i \in 1 .. n : /\ i = 1 => f[i] = ss[i]
                      /\ i # 1 => f[i] = f[i - 1] \o ss[i] /\ i - 1 \in 1 .. n
<1> SUFFICES ASSUME NEW n \in Nat, NEW ss, NEW f, Flattens(ss, n, f), NEW i \in 1 .. n
             PROVE  /\ i = 1 => f[i] = ss[i]
                    /\ i # 1 => f[i] = f[i - 1] \o ss[i] /\ i - 1 \in 1 .. n
  OBVIOUS
<1>1. f[i] = IF i = 1 THEN ss[i] ELSE f[i - 1] \o ss[i]
  BY DEF Flattens
<1>2. i # 1 => i - 1 \in 1 .. n
  OBVIOUS
<1> QED BY <1>1, <1>2, Zenon

\* The recursion has a solution.
LEMMA FlattensExists ==
  ASSUME NEW ss, NEW n \in Nat
  PROVE  \E f : Flattens(ss, n, f)
<1> DEFINE Bad == {m \in 0 .. n : ~ \E f : Flattens(ss, m, f)}
<1>1. ASSUME Bad # {} PROVE FALSE
  <2>1. PICK m \in Bad : \A k \in Bad : m <= k
    <3> Bad \subseteq Nat
      OBVIOUS
    <3> HIDE DEF Bad
    <3> QED BY <1>1, LeastNumber
  <2>2. m \in Nat /\ m <= n /\ ~ \E f : Flattens(ss, m, f)
    OBVIOUS
  <2>3. m > 0
    <3>1. Flattens(ss, 0, [i \in 1 .. 0 |-> ss[i]])
      BY DEF Flattens
    <3> QED BY <2>2, <3>1
  <2>4. m - 1 \in 0 .. n /\ m - 1 \notin Bad
    BY <2>1, <2>2, <2>3
  <2>5. PICK g : Flattens(ss, m - 1, g)
    BY <2>4
  <2> DEFINE f == [i \in 1 .. m |-> IF i = 1 THEN ss[1] ELSE g[i - 1] \o ss[i]]
  <2>6. ASSUME NEW i \in 1 .. m - 1 PROVE f[i] = g[i]
    <3>1. g[i] = IF i = 1 THEN ss[i] ELSE g[i - 1] \o ss[i]
      BY <2>5 DEF Flattens
    <3> QED BY <3>1
  <2>7. Flattens(ss, m, f)
    <3>1. \A i \in 1 .. m : i # 1 => i - 1 \in 1 .. m - 1
      BY <2>2
    <3>2. \A i \in 1 .. m : f[i] = IF i = 1 THEN ss[i] ELSE f[i - 1] \o ss[i]
      BY <2>6, <3>1
    <3> HIDE DEF f
    <3>3. f = [i \in 1 .. m |-> f[i]]
      BY DEF f
    <3> QED BY <3>2, <3>3 DEF Flattens
  <2> QED BY <2>2, <2>7
<1>2. n \in 0 .. n /\ n \notin Bad
  BY <1>1
<1> QED BY <1>2

LEMMA FlattenSeqIs ==
  ASSUME NEW ss, NEW n \in Nat, Len(ss) = n, n # 0
  PROVE  \E f : Flattens(ss, n, f) /\ FlattenSeq(ss) = f[n]
<1>1. FlattenSeq(ss) = (CHOOSE f : Flattens(ss, Len(ss), f))[Len(ss)]
  BY DEF FlattenSeq, Flattens
<1>2. \E f : Flattens(ss, n, f)
  BY FlattensExists
<1> QED BY <1>1, <1>2

\* Two solutions agree where their sequences do.
LEMMA FlattensAgree ==
  \A m, n \in Nat : \A ss, tt, f, g :
    m <= n /\ (\A i \in 1 .. m : ss[i] = tt[i]) /\ Flattens(ss, m, f) /\ Flattens(tt, n, g)
      => \A i \in 1 .. m : f[i] = g[i]
<1> SUFFICES ASSUME NEW m \in Nat, NEW n \in Nat, NEW ss, NEW tt, NEW f, NEW g,
                    m <= n, \A i \in 1 .. m : ss[i] = tt[i],
                    Flattens(ss, m, f), Flattens(tt, n, g)
             PROVE  \A i \in 1 .. m : f[i] = g[i]
  OBVIOUS
<1> DEFINE Bad == {i \in 1 .. m : f[i] # g[i]}
<1>1. ASSUME Bad # {} PROVE FALSE
  <2>1. PICK i \in Bad : \A k \in Bad : i <= k
    <3> Bad \subseteq Nat
      OBVIOUS
    <3> HIDE DEF Bad
    <3> QED BY <1>1, LeastNumber
  <2>2. i \in 1 .. m /\ i \in 1 .. n /\ f[i] # g[i] /\ ss[i] = tt[i]
    OBVIOUS
  <2>3. /\ i = 1 => f[i] = ss[i]
        /\ i # 1 => f[i] = f[i - 1] \o ss[i] /\ i - 1 \in 1 .. m
    BY <2>2, FlattensAt
  <2>4. /\ i = 1 => g[i] = tt[i]
        /\ i # 1 => g[i] = g[i - 1] \o tt[i] /\ i - 1 \in 1 .. n
    BY <2>2, FlattensAt
  <2>5. i - 1 \in 1 .. m => f[i - 1] = g[i - 1]
    <3>1. i - 1 \notin Bad
      BY <2>1, <2>2
    <3> QED BY <3>1
  <2> HIDE DEF Bad
  <2> QED BY <2>2, <2>3, <2>4, <2>5, Zenon
<1> QED BY <1>1

LEMMA FlattensType ==
  ASSUME NEW T, NEW n \in Nat, NEW ss, \A i \in 1 .. n : ss[i] \in Seq(T),
         NEW f, Flattens(ss, n, f)
  PROVE  \A i \in 1 .. n : f[i] \in Seq(T)
<1> DEFINE Bad == {i \in 1 .. n : f[i] \notin Seq(T)}
<1>1. ASSUME Bad # {} PROVE FALSE
  <2>1. PICK i \in Bad : \A k \in Bad : i <= k
    <3> Bad \subseteq Nat
      OBVIOUS
    <3> HIDE DEF Bad
    <3> QED BY <1>1, LeastNumber
  <2>2. i \in 1 .. n /\ f[i] \notin Seq(T) /\ ss[i] \in Seq(T)
    OBVIOUS
  <2>3. /\ i = 1 => f[i] = ss[i]
        /\ i # 1 => f[i] = f[i - 1] \o ss[i] /\ i - 1 \in 1 .. n
    BY <2>2, FlattensAt
  <2>4. i - 1 \in 1 .. n => f[i - 1] \in Seq(T)
    <3>1. i - 1 \notin Bad
      BY <2>1, <2>2
    <3> QED BY <3>1
  <2>5. \A x, y \in Seq(T) : x \o y \in Seq(T)
    OBVIOUS
  <2> HIDE DEF Bad
  <2> QED BY <2>2, <2>3, <2>4, <2>5, Zenon
<1> QED BY <1>1

\* No strings, one after the other, are the empty string.
LEMMA FlattenNone == FlattenSeq(<<>>) = <<>>
<1>1. Len(<<>>) = 0
  OBVIOUS
<1> QED BY <1>1, Zenon DEF FlattenSeq

LEMMA FlattenType ==
  ASSUME NEW T, NEW ss \in Seq(Seq(T))
  PROVE  FlattenSeq(ss) \in Seq(T)
<1>1. CASE Len(ss) = 0
  <2>1. ss = <<>> /\ <<>> \in Seq(T)
    BY <1>1
  <2> QED BY <2>1, FlattenNone, Zenon
<1>2. ASSUME NEW n \in Nat, n = Len(ss), n # 0 PROVE FlattenSeq(ss) \in Seq(T)
  <2>1. PICK f : Flattens(ss, n, f) /\ FlattenSeq(ss) = f[n]
    BY <1>2, FlattenSeqIs
  <2>2. \A i \in 1 .. n : ss[i] \in Seq(T)
    BY <1>2
  <2>3. \A i \in 1 .. n : f[i] \in Seq(T)
    BY <2>1, <2>2, FlattensType
  <2> QED BY <1>2, <2>1, <2>3
<1> QED BY <1>1, <1>2

\* One string more.
LEMMA FlattenMore ==
  ASSUME NEW T, NEW ss \in Seq(Seq(T)), NEW x \in Seq(T)
  PROVE  FlattenSeq(Append(ss, x)) = FlattenSeq(ss) \o x
<1> DEFINE n == Len(ss)  l == Len(ss) + 1  tt == Append(ss, x)
<1>1. n \in Nat /\ l \in Nat /\ l = n + 1 /\ (n = 0 => ss = <<>>)
  OBVIOUS
<1>2. Len(tt) = l /\ tt[l] = x /\ (\A i \in 1 .. n : ss[i] = tt[i]) /\ l # 0 /\ l \in 1 .. l
      /\ l - 1 = n /\ n <= l
  OBVIOUS
<1> HIDE DEF n, l, tt
<1>3. PICK g : Flattens(tt, l, g) /\ FlattenSeq(tt) = g[l]
  BY <1>1, <1>2, FlattenSeqIs
<1>4. /\ l = 1 => g[l] = tt[l]
      /\ l # 1 => g[l] = g[l - 1] \o tt[l] /\ l - 1 \in 1 .. l
  BY <1>1, <1>2, <1>3, FlattensAt
<1>5. CASE n = 0
  <2>1. ss = <<>> /\ <<>> \o x = x /\ l = 1
    BY <1>1, <1>5
  <2> QED BY <1>2, <1>3, <1>4, <2>1, FlattenNone, Zenon DEF tt
<1>6. CASE n # 0
  <2>1. PICK f : Flattens(ss, n, f) /\ FlattenSeq(ss) = f[n]
    BY <1>1, <1>6, FlattenSeqIs DEF n
  <2>2. n \in 1 .. n /\ l # 1
    BY <1>1, <1>6
  <2>3. \A i \in 1 .. n : f[i] = g[i]
    BY <1>1, <1>2, <1>3, <2>1, FlattensAgree
  <2> QED BY <1>2, <1>3, <1>4, <2>1, <2>2, <2>3, Zenon DEF tt
<1> QED BY <1>5, <1>6

\* The strings as a function.
LEMMA FlattenNext ==
  ASSUME NEW T, NEW n \in Nat, NEW e, \A k \in 1 .. n + 1 : e[k] \in Seq(T)
  PROVE  /\ FlattenSeq([k \in 1 .. n |-> e[k]]) \in Seq(T)
         /\ FlattenSeq([k \in 1 .. n + 1 |-> e[k]])
              = FlattenSeq([k \in 1 .. n |-> e[k]]) \o e[n + 1]
<1> DEFINE ss == [k \in 1 .. n |-> e[k]]  tt == [k \in 1 .. n + 1 |-> e[k]]  x == e[n + 1]
<1>1. ss \in Seq(Seq(T)) /\ x \in Seq(T)
  OBVIOUS
<1>2. tt = Append(ss, x)
  OBVIOUS
<1> HIDE DEF ss, tt, x
<1>3. FlattenSeq(Append(ss, x)) = FlattenSeq(ss) \o x
  BY <1>1, FlattenMore
<1>4. FlattenSeq(ss) \in Seq(T)
  BY <1>1, FlattenType
<1> QED BY <1>2, <1>3, <1>4 DEF ss, tt, x

\* Empty strings at the end add nothing.
EmptyAfter(e, m, n, T) ==
  /\ \A k \in 1 .. n : e[k] \in Seq(T)
  /\ \A k \in m + 1 .. n : e[k] = <<>>

LEMMA FlattenRest ==
  ASSUME NEW T, NEW n \in Nat, NEW m \in 0 .. n, NEW e, EmptyAfter(e, m, n, T)
  PROVE  FlattenSeq([k \in 1 .. n |-> e[k]]) = FlattenSeq([k \in 1 .. m |-> e[k]])
<1> DEFINE F(l) == FlattenSeq([k \in 1 .. l |-> e[k]])
           Bad == {l \in m .. n : F(l) # F(m)}
<1>0. (\A k \in 1 .. n : e[k] \in Seq(T)) /\ (\A k \in m + 1 .. n : e[k] = <<>>)
  BY DEF EmptyAfter
<1>1. ASSUME Bad # {} PROVE FALSE
  <2>1. PICK l \in Bad : \A k \in Bad : l <= k
    <3> Bad \subseteq Nat
      OBVIOUS
    <3> HIDE DEF Bad
    <3> QED BY <1>1, LeastNumber
  <2>2. l \in m .. n /\ F(l) # F(m)
    OBVIOUS
  <2>3. l # m
    BY <2>2, Zenon
  <2>4. PICK j \in Nat : l = j + 1 /\ j \in m .. n /\ j \notin Bad
    <3>1. l - 1 \in Nat /\ l - 1 \in m .. n /\ l = (l - 1) + 1
      BY <2>2, <2>3
    <3>2. l - 1 \notin Bad
      <4> HIDE DEF Bad
      <4> QED BY <2>1, <3>1
    <3> QED BY <3>1, <3>2
  <2>5. F(j) = F(m)
    BY <2>4
  <2>6. \A k \in 1 .. j + 1 : e[k] \in Seq(T)
    BY <1>0, <2>2, <2>4
  <2>7. F(j) \in Seq(T) /\ F(j + 1) = F(j) \o e[j + 1]
    BY <2>6, FlattenNext
  <2>8. e[j + 1] = <<>>
    BY <1>0, <2>2, <2>4
  <2>9. \A y \in Seq(T) : y \o <<>> = y
    OBVIOUS
  <2> HIDE DEF F, Bad
  <2> QED BY <2>2, <2>4, <2>5, <2>7, <2>8, <2>9
<1>2. n \in m .. n
  OBVIOUS
<1>3. n \notin Bad
  <2> HIDE DEF Bad
  <2> QED BY <1>1
<1> QED BY <1>2, <1>3, Zenon

-----------------------------------------------------------------------------
(* The searches. *)

LEMMA LeastOf ==
  ASSUME NEW n \in Nat, NEW i \in Nat, i <= n, NEW S, S \subseteq i .. n,
         NEW p, p = Min({n} \cup S)
  PROVE  /\ p \in Nat /\ i <= p /\ p <= n
         /\ p < n => p \in S
         /\ \A q \in S : p <= q
<1> DEFINE All == {n} \cup S
<1>1. All \in SUBSET Nat /\ All # {} /\ \A q \in All : q \in i .. n
  OBVIOUS
<1>2. \E k \in All : \A m \in All : k <= m
  <2> HIDE DEF All
  <2> QED BY <1>1, LeastNumber
<1>3. p \in All /\ \A m \in All : p <= m
  <2>1. p = CHOOSE k \in All : \A m \in All : k <= m
    BY DEF Min
  <2> HIDE DEF All
  <2> QED BY <1>2, <2>1
<1> QED BY <1>1, <1>3

LEMMA SearchResult ==
  ASSUME NEW x \in Seq(Nat), NEW set, NEW i \in Nat, i <= Len(x),
         NEW p, p = bitset_search(x, set, i)
  PROVE  /\ p \in Nat /\ i <= p /\ p <= Len(x)
         /\ p < Len(x) => x[p + 1] \in set
         /\ \A q \in i .. p - 1 : x[q + 1] \notin set
<1> DEFINE S == {q \in i .. Len(x) - 1 : x[q + 1] \in set}
<1>1. Len(x) \in Nat /\ S \subseteq i .. Len(x) /\ p = Min({Len(x)} \cup S)
  BY DEF bitset_search
<1>2. /\ p \in Nat /\ i <= p /\ p <= Len(x)
      /\ p < Len(x) => p \in S
      /\ \A q \in S : p <= q
  <2> HIDE DEF S
  <2> QED BY <1>1, LeastOf
<1>3. ASSUME NEW q \in i .. p - 1 PROVE x[q + 1] \notin set
  <2>1. q \in i .. Len(x) - 1 /\ ~(p <= q)
    BY <1>1, <1>2
  <2>2. q \notin S
    BY <1>2, <2>1
  <2> QED BY <2>1, <2>2
<1> QED BY <1>2, <1>3

LEMMA SpanResult ==
  ASSUME NEW x \in Seq(Nat), NEW set, NEW i \in Nat, i <= Len(x),
         NEW p, p = bitset_span(x, set, i)
  PROVE  /\ p \in Nat /\ i <= p /\ p <= Len(x)
         /\ p < Len(x) => x[p + 1] \notin set
         /\ \A q \in i .. p - 1 : x[q + 1] \in set
<1> DEFINE S == {q \in i .. Len(x) - 1 : x[q + 1] \notin set}
<1>1. Len(x) \in Nat /\ S \subseteq i .. Len(x) /\ p = Min({Len(x)} \cup S)
  BY DEF bitset_span
<1>2. /\ p \in Nat /\ i <= p /\ p <= Len(x)
      /\ p < Len(x) => p \in S
      /\ \A q \in S : p <= q
  <2> HIDE DEF S
  <2> QED BY <1>1, LeastOf
<1>3. ASSUME NEW q \in i .. p - 1 PROVE x[q + 1] \in set
  <2>1. q \in i .. Len(x) - 1 /\ ~(p <= q)
    BY <1>1, <1>2
  <2>2. q \notin S
    BY <1>2, <2>1
  <2> QED BY <2>1, <2>2
<1> QED BY <1>2, <1>3

LEMMA MemmemResult ==
  ASSUME NEW x \in Seq(Nat), NEW patt, NEW i \in Nat, i <= Len(x),
         NEW p, p = memmem(x, i, patt)
  PROVE  /\ p \in Nat /\ i <= p /\ p <= Len(x)
         /\ p < Len(x) => HasAt(x, p, patt)
         /\ \A q \in i .. p - 1 : ~HasAt(x, q, patt)
<1> DEFINE S == {q \in i .. Len(x) : HasAt(x, q, patt)}
<1>1. Len(x) \in Nat /\ S \subseteq i .. Len(x) /\ p = Min({Len(x)} \cup S)
  BY DEF memmem
<1>2. /\ p \in Nat /\ i <= p /\ p <= Len(x)
      /\ p < Len(x) => p \in S
      /\ \A q \in S : p <= q
  <2> HIDE DEF S
  <2> QED BY <1>1, LeastOf
<1>3. ASSUME NEW q \in i .. p - 1 PROVE ~HasAt(x, q, patt)
  <2>1. q \in i .. Len(x) /\ ~(p <= q)
    BY <1>1, <1>2
  <2>2. q \notin S
    BY <1>2, <2>1
  <2> QED BY <2>1, <2>2
<1> QED BY <1>2, <1>3

----------------------------------------------------------------------------
(* The encodings, defined in Utf8 by value, byte by byte. *)

Cont(b) == 128 <= b /\ b <= 191

\* The second bytes that may follow a first one: what is left out are the
\* overlong forms, the surrogates and what is above U+10FFFF.
Second(a, b) ==
  /\ Cont(b)
  /\ a = 224 => b >= 160
  /\ a = 237 => b <= 159
  /\ a = 240 => b >= 144
  /\ a = 244 => b <= 143

WellFormed(s) ==
  \/ Len(s) = 1 /\ s[1] <= 127
  \/ Len(s) = 2 /\ 194 <= s[1] /\ s[1] <= 223 /\ Cont(s[2])
  \/ Len(s) = 3 /\ 224 <= s[1] /\ s[1] <= 239 /\ Second(s[1], s[2]) /\ Cont(s[3])
  \/ Len(s) = 4 /\ 240 <= s[1] /\ s[1] <= 244 /\ Second(s[1], s[2]) /\ Cont(s[3]) /\ Cont(s[4])

LEMMA ByteTypes ==
  ASSUME NEW s \in Seq(Byte)
  PROVE  Len(s) \in Nat /\ \A i \in 1 .. Len(s) : s[i] \in Nat /\ s[i] <= 255
<1>1. s \in [1 .. Len(s) -> Byte] /\ Len(s) \in Nat
  BY LenProperties
<1>2. Byte \subseteq Nat /\ \A b \in Byte : b <= 255
  BY DEF Byte
<1> QED BY <1>1, <1>2

LEMMA FourBytes ==
  ASSUME NEW s \in Seq(Byte)
  PROVE  /\ Len(s) \in Nat
         /\ Len(s) >= 1 => s[1] \in Nat /\ s[1] <= 255
         /\ Len(s) >= 2 => s[2] \in Nat /\ s[2] <= 255
         /\ Len(s) >= 3 => s[3] \in Nat /\ s[3] <= 255
         /\ Len(s) >= 4 => s[4] \in Nat /\ s[4] <= 255
BY ByteTypes

LEMMA LeadBytes ==
  ASSUME NEW a \in Nat
  PROVE  /\ a \in Leads(1) <=> a <= 127
         /\ a \in Leads(2) <=> 192 <= a /\ a <= 223
         /\ a \in Leads(3) <=> 224 <= a /\ a <= 239
         /\ a \in Leads(4) <=> 240 <= a /\ a <= 247
<1>1. a \in Leads(1) <=> a <= 127
  BY DEF Leads
<1>2. a \in Leads(2) <=> 192 <= a /\ a <= 223
  BY DEF Leads
<1>3. a \in Leads(3) <=> 224 <= a /\ a <= 239
  BY DEF Leads
<1>4. a \in Leads(4) <=> 240 <= a /\ a <= 247
  BY DEF Leads
<1> QED BY ONLY <1>1, <1>2, <1>3, <1>4

LEMMA Leasts == Least(1) = 0 /\ Least(2) = 128 /\ Least(3) = 2048 /\ Least(4) = 65536
BY DEF Least

\* The values of two, three and four bytes.
Value2(a, b) == (a - 192) * 64 + (b - 128)
Value3(a, b, c) == (a - 224) * 4096 + (b - 128) * 64 + (c - 128)
Value4(a, b, c, d) == (a - 240) * 262144 + (b - 128) * 4096 + (c - 128) * 64 + (d - 128)

\* Of those with the shape of an encoding, which values are in the range for
\* that length.
InRange(v, len) == v >= Least(len) /\ IsScalar(v)

LEMMA TwoBytes ==
  ASSUME NEW a \in Nat, NEW b \in Nat
  PROVE  a \in Leads(2) /\ Cont(b) /\ InRange(Value2(a, b), 2)
         <=> 194 <= a /\ a <= 223 /\ Cont(b)
<1>1. a \in Leads(2) <=> 192 <= a /\ a <= 223
  BY ONLY a \in Nat, LeadBytes
<1>2. 192 <= a /\ a <= 223 /\ Cont(b) /\ Value2(a, b) >= 128 /\ IsScalar(Value2(a, b))
      <=> 194 <= a /\ a <= 223 /\ Cont(b)
  BY DEF Cont, IsScalar, Value2
<1> QED BY ONLY <1>1, <1>2, Leasts DEF InRange

LEMMA ThreeBytes ==
  ASSUME NEW a \in Nat, NEW b \in Nat, NEW c \in Nat
  PROVE  a \in Leads(3) /\ Cont(b) /\ Cont(c) /\ InRange(Value3(a, b, c), 3)
         <=> 224 <= a /\ a <= 239 /\ Second(a, b) /\ Cont(c)
<1>1. a \in Leads(3) <=> 224 <= a /\ a <= 239
  BY ONLY a \in Nat, LeadBytes
<1>2. /\ 224 <= a /\ a <= 239 /\ Cont(b) /\ Cont(c)
      /\ Value3(a, b, c) >= 2048 /\ IsScalar(Value3(a, b, c))
      <=> 224 <= a /\ a <= 239 /\ Second(a, b) /\ Cont(c)
  BY DEF Cont, IsScalar, Second, Value3
<1> QED BY ONLY <1>1, <1>2, Leasts DEF InRange

LEMMA AllFourBytes ==
  ASSUME NEW a \in Nat, NEW b \in Nat, NEW c \in Nat, NEW d \in Nat
  PROVE  a \in Leads(4) /\ Cont(b) /\ Cont(c) /\ Cont(d) /\ InRange(Value4(a, b, c, d), 4)
         <=> 240 <= a /\ a <= 244 /\ Second(a, b) /\ Cont(c) /\ Cont(d)
<1>1. a \in Leads(4) <=> 240 <= a /\ a <= 247
  BY ONLY a \in Nat, LeadBytes
<1>2. /\ 240 <= a /\ a <= 247 /\ Cont(b) /\ Cont(c) /\ Cont(d)
      /\ Value4(a, b, c, d) >= 65536 /\ IsScalar(Value4(a, b, c, d))
      <=> 240 <= a /\ a <= 244 /\ Second(a, b) /\ Cont(c) /\ Cont(d)
  BY DEF Cont, IsScalar, Second, Value4
<1> QED BY ONLY <1>1, <1>2, Leasts DEF InRange

LEMMA ContIs ==
  ASSUME NEW b \in Nat
  PROVE  b \in 128 .. 191 <=> Cont(b)
BY DEF Cont

\* Both definitions agree on all sequences of bytes.
LEMMA EncodingsAre ==
  ASSUME NEW s \in Seq(Byte)
  PROVE  IsEncoding(s) <=> WellFormed(s)
<1>1. /\ Len(s) \in Nat
      /\ Len(s) >= 1 => s[1] \in Nat
      /\ Len(s) >= 2 => s[2] \in Nat
      /\ Len(s) >= 3 => s[3] \in Nat
      /\ Len(s) >= 4 => s[4] \in Nat
  BY FourBytes
<1>2. ASSUME Len(s) \in 1 .. 4
      PROVE  IsEncoding(s) <=> /\ s[1] \in Leads(Len(s))
                               /\ \A i \in 2 .. Len(s) : Cont(s[i])
                               /\ InRange(ScalarOf(s), Len(s))
  <2>1. ASSUME NEW i \in 2 .. Len(s) PROVE s[i] \in 128 .. 191 <=> Cont(s[i])
    <3>1. s[i] \in Nat
      BY <1>1, <1>2, ByteTypes
    <3> QED BY ONLY <3>1, ContIs
  <2> QED BY ONLY <1>2, <2>1, Zenon DEF IsEncoding, InRange
<1>3. CASE Len(s) = 1
  <2>1. ScalarOf(s) = s[1] /\ s[1] \in Nat
    BY ONLY <1>1, <1>3 DEF ScalarOf
  <2>2. s[1] \in Leads(1) <=> s[1] <= 127
    BY ONLY <2>1, LeadBytes
  <2>3. IsEncoding(s) <=> s[1] \in Leads(1) /\ InRange(s[1], 1)
    BY ONLY <1>2, <1>3, <2>1
  <2>4. IsEncoding(s) <=> s[1] <= 127
    BY ONLY <2>1, <2>2, <2>3, Leasts DEF InRange, IsScalar
  <2> QED BY ONLY <1>3, <2>4 DEF WellFormed
<1>4. CASE Len(s) = 2
  <2>1. ScalarOf(s) = Value2(s[1], s[2])
    BY ONLY <1>4 DEF ScalarOf, Value2
  <2>2. IsEncoding(s) <=> s[1] \in Leads(2) /\ Cont(s[2]) /\ InRange(Value2(s[1], s[2]), 2)
    BY ONLY <1>2, <1>4, <2>1
  <2>3. s[1] \in Nat /\ s[2] \in Nat
    BY ONLY <1>1, <1>4
  <2>4. IsEncoding(s) <=> 194 <= s[1] /\ s[1] <= 223 /\ Cont(s[2])
    BY ONLY <2>2, <2>3, TwoBytes, Zenon
  <2> QED BY ONLY <1>4, <2>4 DEF WellFormed
<1>5. CASE Len(s) = 3
  <2>1. ScalarOf(s) = Value3(s[1], s[2], s[3])
    BY ONLY <1>5 DEF ScalarOf, Value3
  <2>2. IsEncoding(s) <=> /\ s[1] \in Leads(3) /\ Cont(s[2]) /\ Cont(s[3])
                          /\ InRange(Value3(s[1], s[2], s[3]), 3)
    BY ONLY <1>2, <1>5, <2>1
  <2>3. s[1] \in Nat /\ s[2] \in Nat /\ s[3] \in Nat
    BY ONLY <1>1, <1>5
  <2>4. IsEncoding(s) <=> 224 <= s[1] /\ s[1] <= 239 /\ Second(s[1], s[2]) /\ Cont(s[3])
    BY ONLY <2>2, <2>3, ThreeBytes, Zenon
  <2> QED BY ONLY <1>5, <2>4 DEF WellFormed
<1>6. CASE Len(s) = 4
  <2>1. ScalarOf(s) = Value4(s[1], s[2], s[3], s[4])
    BY ONLY <1>6 DEF ScalarOf, Value4
  <2>2. IsEncoding(s) <=> /\ s[1] \in Leads(4) /\ Cont(s[2]) /\ Cont(s[3]) /\ Cont(s[4])
                          /\ InRange(Value4(s[1], s[2], s[3], s[4]), 4)
    BY ONLY <1>2, <1>6, <2>1
  <2>3. s[1] \in Nat /\ s[2] \in Nat /\ s[3] \in Nat /\ s[4] \in Nat
    BY ONLY <1>1, <1>6
  <2>4. IsEncoding(s) <=> /\ 240 <= s[1] /\ s[1] <= 244
                          /\ Second(s[1], s[2]) /\ Cont(s[3]) /\ Cont(s[4])
    <3>1. s[1] \in Leads(4) /\ Cont(s[2]) /\ Cont(s[3]) /\ Cont(s[4])
            /\ InRange(Value4(s[1], s[2], s[3], s[4]), 4)
          <=> 240 <= s[1] /\ s[1] <= 244 /\ Second(s[1], s[2]) /\ Cont(s[3]) /\ Cont(s[4])
      BY ONLY <2>3, AllFourBytes, Zenon
    <3> QED BY ONLY <2>2, <3>1
  <2> QED BY ONLY <1>6, <2>4 DEF WellFormed
<1>7. CASE ~(Len(s) \in 1 .. 4)
  <2>1. ~IsEncoding(s)
    BY ONLY <1>7 DEF IsEncoding
  <2>2. ~WellFormed(s)
    BY ONLY <1>1, <1>7 DEF WellFormed
  <2> QED BY ONLY <2>1, <2>2
<1>8. Len(s) = 1 \/ Len(s) = 2 \/ Len(s) = 3 \/ Len(s) = 4 \/ ~(Len(s) \in 1 .. 4)
  BY ONLY <1>1
<1> QED BY ONLY <1>3, <1>4, <1>5, <1>6, <1>7, <1>8, Zenon

----------------------------------------------------------------------------
(* The decoder, by the bytes it looks at. *)

LEMMA Table ==
  ASSUME NEW b \in Nat, b <= 255
  PROVE  /\ 194 <= b /\ b <= 223 => utf8_info(b) = Info(2, 32, 128, 191)
         /\ b = 224 => utf8_info(b) = Info(3, 16, 160, 191)
         /\ 225 <= b /\ b <= 239 /\ b # 237 => utf8_info(b) = Info(3, 16, 128, 191)
         /\ b = 237 => utf8_info(b) = Info(3, 16, 128, 159)
         /\ b = 240 => utf8_info(b) = Info(4, 8, 144, 191)
         /\ 241 <= b /\ b <= 243 => utf8_info(b) = Info(4, 8, 128, 191)
         /\ b = 244 => utf8_info(b) = Info(4, 8, 128, 143)
         /\ ~(194 <= b /\ b <= 244) => utf8_info(b) = Info(0, 1, 0, 0)
<1>1. /\ b \in 194 .. 223 <=> 194 <= b /\ b <= 223
      /\ b \in 225 .. 236 <=> 225 <= b /\ b <= 236
      /\ b \in 238 .. 239 <=> 238 <= b /\ b <= 239
      /\ b \in 241 .. 243 <=> 241 <= b /\ b <= 243
  OBVIOUS
<1> DEFINE i2 == b \in 194 .. 223
           i3 == b \in 225 .. 236 \/ b \in 238 .. 239
           i4 == b \in 241 .. 243
<1>2. /\ i2 <=> 194 <= b /\ b <= 223
      /\ i3 <=> 225 <= b /\ b <= 239 /\ b # 237
      /\ i4 <=> 241 <= b /\ b <= 243
  BY ONLY <1>1, b \in Nat
<1>3. utf8_info(b) =
        CASE i2      -> Info(2, 32, 128, 191)
          [] b = 224 -> Info(3, 16, 160, 191)
          [] i3      -> Info(3, 16, 128, 191)
          [] b = 237 -> Info(3, 16, 128, 159)
          [] b = 240 -> Info(4,  8, 144, 191)
          [] i4      -> Info(4,  8, 128, 191)
          [] b = 244 -> Info(4,  8, 128, 143)
          [] OTHER   -> Info(0,  1,   0,   0)
  BY ONLY Zenon DEF utf8_info
<1> HIDE DEF i2, i3, i4
<1> QED BY ONLY <1>2, <1>3, b \in Nat

LEMMA FirstBytes ==
  ASSUME NEW a \in Nat, a <= 255
  PROVE  LET info == utf8_info(a)
         IN  /\ ~(194 <= a /\ a <= 244) => info.len = 0
             /\ 194 <= a /\ a <= 223 => info.len = 2 /\ info.bits = 32
             /\ 224 <= a /\ a <= 239 => info.len = 3 /\ info.bits = 16
             /\ 240 <= a /\ a <= 244 => info.len = 4 /\ info.bits = 8
BY Table DEF Info

LEMMA SecondBytes ==
  ASSUME NEW a \in Nat, 194 <= a, a <= 244, NEW b \in Nat
  PROVE  LET info == utf8_info(a)
         IN  Second(a, b) <=> Cont(b) /\ ~(b < info.min_cont2 \/ b > info.max_cont2)
BY Table DEF Info, Second, Cont

LEMMA LeastElement ==
  ASSUME NEW S \in SUBSET Int, NEW x \in S, \A y \in S : x <= y
  PROVE  Min(S) = x
<1>1. \A z \in S : (\A y \in S : z <= y) => z = x
  OBVIOUS
<1> QED BY <1>1 DEF Min

\* What the masks keep of a byte.
LEMMA Masks ==
  ASSUME NEW b \in Nat, b <= 255
  PROVE  /\ IsContinuation(b) <=> Cont(b)
         /\ Cont(b) => b % 64 = b - 128
         /\ 192 <= b /\ b <= 223 => b % 32 = b - 192
         /\ 224 <= b /\ b <= 239 => b % 16 = b - 224
         /\ 240 <= b /\ b <= 247 => b % 8 = b - 240
BY DEF IsContinuation, Cont

\* What the shifts make of two, three and four bytes.
LEMMA ShiftsTwo ==
  ASSUME NEW a \in Nat, 192 <= a, a <= 223, NEW b \in Nat, Cont(b)
  PROVE  Shift6(a % 32, b) = Value2(a, b)
<1>1. a % 32 = a - 192 /\ b % 64 = b - 128
  BY DEF Cont
<1> QED BY ONLY <1>1 DEF Shift6, Value2

LEMMA ShiftsThree ==
  ASSUME NEW a \in Nat, 224 <= a, a <= 239, NEW b \in Nat, Cont(b), NEW c \in Nat, Cont(c)
  PROVE  Shift6(Shift6(a % 16, b), c) = Value3(a, b, c)
<1>1. a % 16 = a - 224 /\ b % 64 = b - 128 /\ c % 64 = c - 128
  BY DEF Cont
<1>2. ((a - 224) * 64 + (b - 128)) * 64 + (c - 128) = Value3(a, b, c)
  BY DEF Value3
<1> QED BY ONLY <1>1, <1>2 DEF Shift6

LEMMA ShiftsFour ==
  ASSUME NEW a \in Nat, 240 <= a, a <= 247, NEW b \in Nat, Cont(b), NEW c \in Nat, Cont(c),
         NEW d \in Nat, Cont(d)
  PROVE  Shift6(Shift6(Shift6(a % 8, b), c), d) = Value4(a, b, c, d)
<1>1. a % 8 = a - 240 /\ b % 64 = b - 128 /\ c % 64 = c - 128 /\ d % 64 = d - 128
  BY DEF Cont
<1>2. (((a - 240) * 64 + (b - 128)) * 64 + (c - 128)) * 64 + (d - 128) = Value4(a, b, c, d)
  BY DEF Value4
<1> QED BY ONLY <1>1, <1>2 DEF Shift6

\* The result of decoding a sequence of n bytes, or what there is of it.
Decodes(s, n, r) ==
  IF Len(s) < n THEN r = result_incomplete(Len(s), n)
  ELSE IF ~Second(s[1], s[2]) THEN r = result_error(2, n)
  ELSE IF n >= 3 /\ ~Cont(s[3]) THEN r = result_error(3, n)
  ELSE IF n >= 4 /\ ~Cont(s[4]) THEN r = result_error(4, n)
  ELSE r = result_ok(CASE n = 2 -> Value2(s[1], s[2])
                       [] n = 3 -> Value3(s[1], s[2], s[3])
                       [] n = 4 -> Value4(s[1], s[2], s[3], s[4]), n)

\* By the first byte: an ASCII character, no lead byte, or a sequence of the
\* length that it announces.
LEMMA DecoderIs ==
  ASSUME NEW s \in Seq(Byte), s # <<>>
  PROVE  LET r == str_decode_utf8(s)
         IN  /\ s[1] <= 127 => r = result_ok(s[1], 1)
             /\ 128 <= s[1] /\ ~(194 <= s[1] /\ s[1] <= 244) => r = result_error(1, 1)
             /\ 194 <= s[1] /\ s[1] <= 223 => Decodes(s, 2, r)
             /\ 224 <= s[1] /\ s[1] <= 239 => Decodes(s, 3, r)
             /\ 240 <= s[1] /\ s[1] <= 244 => Decodes(s, 4, r)
<1>1. Len(s) \in Nat /\ Len(s) >= 1 /\ s[1] \in Nat /\ s[1] <= 255
  BY FourBytes
<1>2. /\ Len(s) >= 2 => s[2] \in Nat /\ s[2] <= 255
      /\ Len(s) >= 3 => s[3] \in Nat /\ s[3] <= 255
      /\ Len(s) >= 4 => s[4] \in Nat /\ s[4] <= 255
  BY FourBytes
<1>3. ASSUME s[1] <= 127 PROVE str_decode_utf8(s) = result_ok(s[1], 1)
  BY <1>1, <1>3 DEF str_decode_utf8
<1>4. s[1] >= 128 => str_decode_utf8(s) = str_decode_utf8_impl(s)
  BY <1>1 DEF str_decode_utf8
<1>5. ASSUME 128 <= s[1], ~(194 <= s[1] /\ s[1] <= 244)
      PROVE  str_decode_utf8(s) = result_error(1, 1)
  <2>1. utf8_info(s[1]).len = 0
    BY ONLY <1>1, <1>5, Table DEF Info
  <2> QED BY ONLY <1>4, <1>5, <1>1, <2>1 DEF str_decode_utf8_impl
<1>6. ASSUME NEW n \in {2, 3, 4}, 194 <= s[1], s[1] <= 244,
             n = 2 <=> s[1] <= 223, n = 4 <=> s[1] >= 240
      PROVE  Decodes(s, n, str_decode_utf8(s))
  <2> DEFINE info == utf8_info(s[1])
  <2>1. /\ info.len = n
        /\ n = 2 => info.bits = 32 /\ 192 <= s[1] /\ s[1] <= 223
        /\ n = 3 => info.bits = 16 /\ 224 <= s[1] /\ s[1] <= 239
        /\ n = 4 => info.bits = 8 /\ 240 <= s[1] /\ s[1] <= 247
    <3>1. /\ n = 2 => 194 <= s[1] /\ s[1] <= 223
          /\ n = 3 => 224 <= s[1] /\ s[1] <= 239
          /\ n = 4 => 240 <= s[1] /\ s[1] <= 244
      BY ONLY <1>1, <1>6
    <3>2. /\ 194 <= s[1] /\ s[1] <= 223 => info.len = 2 /\ info.bits = 32
          /\ 224 <= s[1] /\ s[1] <= 239 => info.len = 3 /\ info.bits = 16
          /\ 240 <= s[1] /\ s[1] <= 244 => info.len = 4 /\ info.bits = 8
      BY ONLY <1>1, FirstBytes
    <3> HIDE DEF info
    <3> QED BY ONLY <1>1, <1>6, <3>1, <3>2
  <2>2. CASE Len(s) < n
    <3>1. str_decode_utf8(s) = result_incomplete(Len(s), n)
      BY ONLY <1>1, <1>4, <1>6, <2>1, <2>2 DEF str_decode_utf8_impl
    <3> QED BY ONLY <2>2, <3>1 DEF Decodes
  <2>3. CASE ~(Len(s) < n)
    <3>1. s[2] \in Nat /\ s[2] <= 255
      BY ONLY <1>1, <1>2, <1>6, <2>3
    <3> DEFINE refused == ~IsContinuation(s[2]) \/ s[2] < info.min_cont2 \/ s[2] > info.max_cont2
               bad == {i \in 3 .. n : ~IsContinuation(s[i])}
               cp2 == Shift6(s[1] % info.bits, s[2])
               cp3 == Shift6(cp2, s[3])
               cp4 == Shift6(cp3, s[4])
    <3>2. str_decode_utf8(s) =
            IF refused THEN result_error(2, n)
            ELSE IF bad # {} THEN result_error(Min(bad), n)
            ELSE result_ok(CASE n = 2 -> cp2 [] n = 3 -> cp3 [] n = 4 -> cp4, n)
      BY ONLY <1>1, <1>4, <1>6, <2>1, <2>3 DEF str_decode_utf8_impl
    <3>3. refused <=> ~Second(s[1], s[2])
      <4>1. Second(s[1], s[2])
            <=> Cont(s[2]) /\ ~(s[2] < info.min_cont2 \/ s[2] > info.max_cont2)
        BY ONLY <1>1, <1>6, <3>1, SecondBytes
      <4>2. IsContinuation(s[2]) <=> Cont(s[2])
        BY ONLY <3>1, Masks
      <4> QED BY ONLY <4>1, <4>2
    <3>4. /\ n >= 3 => s[3] \in Nat /\ s[3] <= 255 /\ (IsContinuation(s[3]) <=> Cont(s[3]))
          /\ n >= 4 => s[4] \in Nat /\ s[4] <= 255 /\ (IsContinuation(s[4]) <=> Cont(s[4]))
      BY ONLY <1>1, <1>2, <1>6, <2>3, Masks
    <3>5. /\ bad = {} <=> (n >= 3 => Cont(s[3])) /\ (n >= 4 => Cont(s[4]))
          /\ n >= 3 /\ ~Cont(s[3]) => Min(bad) = 3
          /\ n >= 4 /\ Cont(s[3]) /\ ~Cont(s[4]) => Min(bad) = 4
      <4>1. bad \subseteq {3, 4} /\ (3 \in bad <=> n >= 3 /\ ~Cont(s[3]))
            /\ (4 \in bad <=> n >= 4 /\ ~Cont(s[4]))
        BY ONLY <1>6, <3>4
      <4> HIDE DEF bad
      <4>2. 3 \in bad => Min(bad) = 3
        BY ONLY <4>1, LeastElement
      <4>3. 3 \notin bad /\ 4 \in bad => Min(bad) = 4
        BY ONLY <4>1, LeastElement
      <4> QED BY ONLY <1>6, <4>1, <4>2, <4>3
    <3>6. Second(s[1], s[2]) => Cont(s[2])
      BY DEF Second
    <3>7. ASSUME Cont(s[2]), n = 2 PROVE cp2 = Value2(s[1], s[2])
      <4>1. info.bits = 32
        BY ONLY <2>1, <3>7
      <4>2. Shift6(s[1] % 32, s[2]) = Value2(s[1], s[2])
        BY ONLY <1>1, <2>1, <3>1, <3>7, ShiftsTwo
      <4> HIDE DEF info
      <4> QED BY ONLY <4>1, <4>2
    <3>8. ASSUME Cont(s[2]), Cont(s[3]), n = 3 PROVE cp3 = Value3(s[1], s[2], s[3])
      <4>1. info.bits = 16
        BY ONLY <2>1, <3>8
      <4>2. Shift6(Shift6(s[1] % 16, s[2]), s[3]) = Value3(s[1], s[2], s[3])
        BY ONLY <1>1, <2>1, <3>1, <3>4, <3>8, ShiftsThree
      <4> HIDE DEF info
      <4> QED BY ONLY <4>1, <4>2
    <3>9. ASSUME Cont(s[2]), Cont(s[3]), Cont(s[4]), n = 4
          PROVE  cp4 = Value4(s[1], s[2], s[3], s[4])
      <4>1. info.bits = 8
        BY ONLY <2>1, <3>9
      <4>2. Shift6(Shift6(Shift6(s[1] % 8, s[2]), s[3]), s[4]) = Value4(s[1], s[2], s[3], s[4])
        <5>1. /\ s[1] \in Nat /\ 240 <= s[1] /\ s[1] <= 247 /\ s[2] \in Nat /\ Cont(s[2])
              /\ s[3] \in Nat /\ Cont(s[3]) /\ s[4] \in Nat /\ Cont(s[4])
          BY ONLY <1>1, <2>1, <3>1, <3>4, <3>9
        <5> QED BY ONLY <5>1, ShiftsFour
      <4> HIDE DEF info
      <4> QED BY ONLY <4>1, <4>2
    <3> HIDE DEF info, refused, bad, cp2, cp3, cp4
    <3> QED BY ONLY <1>6, <2>3, <3>2, <3>3, <3>5, <3>6, <3>7, <3>8, <3>9 DEF Decodes
  <2> QED BY ONLY <1>1, <1>6, <2>2, <2>3
<1>7. /\ 194 <= s[1] /\ s[1] <= 223 => Decodes(s, 2, str_decode_utf8(s))
      /\ 224 <= s[1] /\ s[1] <= 239 => Decodes(s, 3, str_decode_utf8(s))
      /\ 240 <= s[1] /\ s[1] <= 244 => Decodes(s, 4, str_decode_utf8(s))
  BY ONLY <1>1, <1>6
<1> QED BY ONLY <1>3, <1>5, <1>7

----------------------------------------------------------------------------
(* What the decoder is asked about: the first bytes of its input. *)

LEMMA FirstOnes ==
  ASSUME NEW s \in Seq(Byte), NEW n \in 1 .. Len(s)
  PROVE  LET e == SubSeq(s, 1, n)
         IN  e \in Seq(Byte) /\ Len(e) = n /\ \A i \in 1 .. n : e[i] = s[i]
<1>1. Len(s) \in Nat /\ n \in Nat /\ 1 <= n /\ n <= Len(s)
  BY FourBytes
<1> QED BY <1>1

\* The first n bytes are well-formed, or the beginning of what is.
WellFormedAt(s, n) ==
  \/ n = 1 /\ s[1] <= 127
  \/ n = 2 /\ 194 <= s[1] /\ s[1] <= 223 /\ Cont(s[2])
  \/ n = 3 /\ 224 <= s[1] /\ s[1] <= 239 /\ Second(s[1], s[2]) /\ Cont(s[3])
  \/ n = 4 /\ 240 <= s[1] /\ s[1] <= 244 /\ Second(s[1], s[2]) /\ Cont(s[3]) /\ Cont(s[4])

BeginsAt(s, n) ==
  \/ n = 1 /\ 194 <= s[1] /\ s[1] <= 244
  \/ n = 2 /\ 224 <= s[1] /\ s[1] <= 244 /\ Second(s[1], s[2])
  \/ n = 3 /\ 240 <= s[1] /\ s[1] <= 244 /\ Second(s[1], s[2]) /\ Cont(s[3])

LEMMA PrefixEncodings ==
  ASSUME NEW s \in Seq(Byte), NEW n \in 1 .. Len(s)
  PROVE  IsEncoding(SubSeq(s, 1, n)) <=> WellFormedAt(s, n)
<1> DEFINE e == SubSeq(s, 1, n)
<1>1. e \in Seq(Byte) /\ Len(e) = n /\ \A i \in 1 .. n : e[i] = s[i]
  BY ONLY FirstOnes, s \in Seq(Byte), n \in 1 .. Len(s)
<1> HIDE DEF e
<1>2. n \in Nat /\ n >= 1
  BY FourBytes
<1>3. WellFormed(e) <=> WellFormedAt(s, n)
  <2>1. CASE n = 1
    BY ONLY <1>1, <2>1 DEF WellFormed, WellFormedAt
  <2>2. CASE n = 2
    BY ONLY <1>1, <2>2 DEF WellFormed, WellFormedAt
  <2>3. CASE n = 3
    BY ONLY <1>1, <2>3 DEF WellFormed, WellFormedAt
  <2>4. CASE n = 4
    BY ONLY <1>1, <2>4 DEF WellFormed, WellFormedAt
  <2>5. CASE n \notin {1, 2, 3, 4}
    BY ONLY <1>1, <2>5 DEF WellFormed, WellFormedAt
  <2> QED BY ONLY <2>1, <2>2, <2>3, <2>4, <2>5
<1>4. IsEncoding(e) <=> WellFormed(e)
  BY ONLY <1>1, EncodingsAre
<1> QED BY ONLY <1>3, <1>4 DEF e

\* Bytes that may follow.
LEMMA Continued ==
  ASSUME NEW s \in Seq(Byte), NEW n \in Nat, NEW t \in [1 .. n -> {128, 144, 160}]
  PROVE  LET e == s \o t
         IN  /\ e \in Seq(Byte) /\ Len(e) = Len(s) + n
             /\ \A i \in 1 .. Len(s) : e[i] = s[i]
             /\ \A i \in 1 .. n : e[Len(s) + i] = t[i]
<1>1. {128, 144, 160} \subseteq Byte
  BY DEF Byte
<1>2. t \in Seq(Byte) /\ Len(t) = n
  <2>1. t \in [1 .. n -> Byte]
    BY ONLY <1>1, t \in [1 .. n -> {128, 144, 160}]
  <2>2. t \in Seq(Byte)
    BY ONLY <2>1, n \in Nat, SeqDef
  <2> QED BY ONLY <2>1, <2>2, n \in Nat, LenProperties
<1> QED BY ONLY <1>2, s \in Seq(Byte), n \in Nat

\* A continuation by n bytes.
LaterBytes(n, x) == [i \in 1 .. n |-> IF i = 1 THEN x ELSE 128]

Extended(s, n, x) == s \o LaterBytes(n, x)

LEMMA WithRest ==
  ASSUME NEW s \in Seq(Byte), NEW n \in Nat, 1 <= n, n <= 3,
         NEW x \in Nat, x = 128 \/ x = 144 \/ x = 160
  PROVE  LET e == Extended(s, n, x)
         IN  /\ Len(e) = Len(s) + n
             /\ \A i \in 1 .. Len(s) : e[i] = s[i]
             /\ e[Len(s) + 1] = x
             /\ n >= 2 => e[Len(s) + 2] = 128
             /\ n >= 3 => e[Len(s) + 3] = 128
             /\ WellFormed(e) => IsBeginning(s)
<1>1. PICK t : t = LaterBytes(n, x)
  OBVIOUS
<1>2. PICK e : e = s \o t
  OBVIOUS
<1>3. t \in [1 .. n -> {128, 144, 160}]
  BY <1>1 DEF LaterBytes
<1>4. /\ e \in Seq(Byte) /\ Len(e) = Len(s) + n
      /\ \A i \in 1 .. Len(s) : e[i] = s[i]
      /\ \A i \in 1 .. n : e[Len(s) + i] = t[i]
  BY ONLY <1>2, <1>3, s \in Seq(Byte), n \in Nat, Continued
<1>5. 1 \in 1 .. n /\ (n >= 2 => 2 \in 1 .. n) /\ (n >= 3 => 3 \in 1 .. n)
  OBVIOUS
<1>6. t[1] = x /\ (n >= 2 => t[2] = 128) /\ (n >= 3 => t[3] = 128)
  BY ONLY <1>1, <1>5 DEF LaterBytes
<1>7. WellFormed(e) => IsBeginning(s)
  <2>1. WellFormed(e) => IsEncoding(s \o t)
    BY ONLY <1>2, <1>4, EncodingsAre
  <2>2. n \in 1 .. 3
    OBVIOUS
  <2> QED BY ONLY <1>3, <2>1, <2>2 DEF IsBeginning
<1>8. e = Extended(s, n, x)
  BY ONLY <1>1, <1>2 DEF Extended
<1> QED BY ONLY <1>4, <1>5, <1>6, <1>7, <1>8

LEMMA Beginnings ==
  ASSUME NEW s \in Seq(Byte), Len(s) \in 1 .. 4
  PROVE  IsBeginning(s) <=> BeginsAt(s, Len(s))
<1>1. /\ Len(s) \in Nat /\ Len(s) >= 1 /\ s[1] \in Nat /\ s[1] <= 255
      /\ Len(s) >= 2 => s[2] \in Nat
      /\ Len(s) >= 3 => s[3] \in Nat
  BY FourBytes
<1>2. Len(s) = 1 \/ Len(s) = 2 \/ Len(s) = 3 \/ Len(s) = 4
  BY ONLY Len(s) \in 1 .. 4
<1>3. \A n \in 1 .. 3 : n = 1 \/ n = 2 \/ n = 3
  OBVIOUS
<1>4. ASSUME NEW n \in 1 .. 3, NEW t \in [1 .. n -> {128, 144, 160}], IsEncoding(s \o t)
      PROVE  BeginsAt(s, Len(s))
  <2>1. PICK e : e = s \o t
    OBVIOUS
  <2>2. e \in Seq(Byte) /\ Len(e) = Len(s) + n /\ \A i \in 1 .. Len(s) : e[i] = s[i]
    BY ONLY <2>1, s \in Seq(Byte), n \in 1 .. 3, t \in [1 .. n -> {128, 144, 160}], Continued
  <2>3. WellFormed(e)
    BY ONLY <1>4, <2>1, <2>2, EncodingsAre
  <2>4. /\ e[1] = s[1]
        /\ Len(s) >= 2 => e[2] = s[2]
        /\ Len(s) >= 3 => e[3] = s[3]
    BY ONLY <1>1, <2>2
  <2>5. n = 1 \/ n = 2 \/ n = 3
    BY ONLY <1>3, n \in 1 .. 3
  <2>6. CASE Len(s) = 1
    <3>1. Len(e) # 1
      BY ONLY <2>2, <2>5, <2>6
    <3> QED BY ONLY <1>1, <2>3, <2>4, <2>6, <3>1 DEF WellFormed, BeginsAt
  <2>7. CASE Len(s) = 2
    <3>1. Len(e) # 1 /\ Len(e) # 2
      BY ONLY <2>2, <2>5, <2>7
    <3> QED BY ONLY <1>1, <2>3, <2>4, <2>7, <3>1 DEF WellFormed, BeginsAt
  <2>8. CASE Len(s) = 3
    <3>1. Len(e) # 1 /\ Len(e) # 2 /\ Len(e) # 3
      BY ONLY <2>2, <2>5, <2>8
    <3> QED BY ONLY <1>1, <2>3, <2>4, <2>8, <3>1 DEF WellFormed, BeginsAt
  <2>9. CASE Len(s) = 4
    <3>1. Len(e) # 1 /\ Len(e) # 2 /\ Len(e) # 3 /\ Len(e) # 4
      BY ONLY <2>2, <2>5, <2>9
    <3> QED BY ONLY <2>3, <3>1 DEF WellFormed
  <2> QED BY ONLY <1>2, <2>6, <2>7, <2>8, <2>9
<1>5. ASSUME BeginsAt(s, Len(s)) PROVE IsBeginning(s)
  <2> DEFINE all == IF s[1] <= 223 THEN 2 ELSE IF s[1] <= 239 THEN 3 ELSE 4
             x == IF Len(s) # 1 THEN 128 ELSE IF s[1] = 224 THEN 160 ELSE IF s[1] = 240 THEN 144 ELSE 128
  <2>1. Len(s) \in {1, 2, 3} /\ all \in {2, 3, 4} /\ all > Len(s)
    <3>1. CASE Len(s) = 1
      BY ONLY <3>1
    <3>2. CASE Len(s) = 2
      BY ONLY <1>1, <1>5, <3>2 DEF BeginsAt
    <3>3. CASE Len(s) = 3
      BY ONLY <1>1, <1>5, <3>3 DEF BeginsAt
    <3>4. ASSUME Len(s) = 4 PROVE FALSE
      BY ONLY <1>5, <3>4 DEF BeginsAt
    <3> QED BY ONLY <1>2, <3>1, <3>2, <3>3, <3>4
  <2>2. PICK n : n = all - Len(s)
    OBVIOUS
  <2>3. PICK y : y = x
    OBVIOUS
  <2>4. PICK e : e = Extended(s, n, y)
    OBVIOUS
  <2>5. n \in Nat /\ 1 <= n /\ n <= 3
    BY ONLY <2>1, <2>2
  <2>6. y \in Nat /\ (y = 128 \/ y = 144 \/ y = 160)
    BY ONLY <2>3
  <2> HIDE DEF all, x
  <2>7. /\ Len(e) = Len(s) + n
        /\ \A i \in 1 .. Len(s) : e[i] = s[i]
        /\ e[Len(s) + 1] = y
        /\ n >= 2 => e[Len(s) + 2] = 128
        /\ n >= 3 => e[Len(s) + 3] = 128
        /\ WellFormed(e) => IsBeginning(s)
    BY ONLY <2>4, <2>5, <2>6, s \in Seq(Byte), WithRest
  <2>8. WellFormed(e)
    <3>1. CASE Len(s) = 1
      BY ONLY <1>1, <1>5, <2>1, <2>2, <2>3, <2>7, <3>1 DEF WellFormed, BeginsAt, Second, Cont, all, x
    <3>2. CASE Len(s) = 2
      BY ONLY <1>1, <1>5, <2>1, <2>2, <2>3, <2>7, <3>2 DEF WellFormed, BeginsAt, Second, Cont, all, x
    <3>3. CASE Len(s) = 3
      BY ONLY <1>1, <1>5, <2>1, <2>2, <2>3, <2>7, <3>3 DEF WellFormed, BeginsAt, Second, Cont, all, x
    <3> QED BY ONLY <2>1, <3>1, <3>2, <3>3
  <2> QED BY ONLY <2>7, <2>8
<1> QED BY ONLY <1>4, <1>5 DEF IsBeginning

----------------------------------------------------------------------------
(* What the decoder returns, by the bytes it was given. *)

ValueAt(s, n) ==
  CASE n = 1 -> s[1]
    [] n = 2 -> Value2(s[1], s[2])
    [] n = 3 -> Value3(s[1], s[2], s[3])
    [] n = 4 -> Value4(s[1], s[2], s[3], s[4])

Accepts(s, r) ==
  \E n \in Nat : /\ 1 <= n /\ n <= 4 /\ n <= Len(s) /\ WellFormedAt(s, n)
                 /\ r = result_ok(ValueAt(s, n), n)

Refuses(s, r) ==
  /\ \A n \in Nat : n <= Len(s) => ~WellFormedAt(s, n)
  /\ \/ \E n \in Nat : r = result_incomplete(Len(s), n)
     \/ \E m, n \in Nat : /\ 1 <= m /\ m <= 4 /\ m <= Len(s)
                          /\ r = result_error(m, n)
                          /\ m = 1 \/ BeginsAt(s, m - 1)
                          /\ ~BeginsAt(s, m)

LEMMA Verdict ==
  ASSUME NEW s \in Seq(Byte), s # <<>>
  PROVE  Accepts(s, str_decode_utf8(s)) \/ Refuses(s, str_decode_utf8(s))
<1>1. Len(s) \in Nat /\ Len(s) >= 1 /\ s[1] \in Nat /\ s[1] <= 255
  BY FourBytes
<1>2. PICK r : r = str_decode_utf8(s)
  OBVIOUS
<1>3. /\ s[1] <= 127 => r = result_ok(s[1], 1)
      /\ 128 <= s[1] /\ ~(194 <= s[1] /\ s[1] <= 244) => r = result_error(1, 1)
      /\ 194 <= s[1] /\ s[1] <= 223 => Decodes(s, 2, r)
      /\ 224 <= s[1] /\ s[1] <= 239 => Decodes(s, 3, r)
      /\ 240 <= s[1] /\ s[1] <= 244 => Decodes(s, 4, r)
  BY ONLY <1>2, s \in Seq(Byte), s # <<>>, DecoderIs
<1>4. CASE s[1] <= 127
  <2>1. r = result_ok(ValueAt(s, 1), 1) /\ WellFormedAt(s, 1)
    BY ONLY <1>3, <1>4 DEF ValueAt, WellFormedAt
  <2>2. Accepts(s, r)
    BY ONLY <1>1, <2>1 DEF Accepts
  <2> QED BY ONLY <1>2, <2>2
<1>5. CASE 128 <= s[1] /\ ~(194 <= s[1] /\ s[1] <= 244)
  <2>1. r = result_error(1, 1)
    BY ONLY <1>3, <1>5
  <2>2. ~BeginsAt(s, 1) /\ \A n \in Nat : ~WellFormedAt(s, n)
    BY ONLY <1>1, <1>5 DEF BeginsAt, WellFormedAt
  <2>3. Refuses(s, r)
    BY ONLY <1>1, <2>1, <2>2 DEF Refuses
  <2> QED BY ONLY <1>2, <2>3
<1>6. ASSUME NEW l \in Nat, Decodes(s, l, r), l = 2 \/ l = 3 \/ l = 4,
             l = 2 => 194 <= s[1] /\ s[1] <= 223,
             l = 3 => 224 <= s[1] /\ s[1] <= 239,
             l = 4 => 240 <= s[1] /\ s[1] <= 244
      PROVE  Accepts(s, r) \/ Refuses(s, r)
  <2>1. \A n \in Nat : WellFormedAt(s, n) => n = l
    BY ONLY <1>1, <1>6 DEF WellFormedAt
  <2>2. WellFormedAt(s, l) <=> /\ l = 2 => Cont(s[2])
                               /\ l >= 3 => Second(s[1], s[2]) /\ Cont(s[3])
                               /\ l = 4 => Cont(s[4])
    BY ONLY <1>1, <1>6 DEF WellFormedAt
  <2>3. l = 2 => (Second(s[1], s[2]) <=> Cont(s[2]))
    BY ONLY <1>1, <1>6 DEF Second
  <2>4. BeginsAt(s, 1)
    BY ONLY <1>1, <1>6 DEF BeginsAt
  <2>5. /\ BeginsAt(s, 2) <=> l >= 3 /\ Second(s[1], s[2])
        /\ BeginsAt(s, 3) <=> l = 4 /\ Second(s[1], s[2]) /\ Cont(s[3])
        /\ ~BeginsAt(s, 4)
    BY ONLY <1>1, <1>6 DEF BeginsAt
  <2>6. CASE Len(s) < l
    <3>1. r = result_incomplete(Len(s), l)
      BY ONLY <1>6, <2>6 DEF Decodes
    <3>2. \A n \in Nat : n <= Len(s) => ~WellFormedAt(s, n)
      BY ONLY <1>1, <1>6, <2>1, <2>6
    <3> QED BY ONLY <1>6, <3>1, <3>2 DEF Refuses
  <2>7. CASE Len(s) >= l /\ ~WellFormedAt(s, l)
    <3>1. \A n \in Nat : n <= Len(s) => ~WellFormedAt(s, n)
      BY ONLY <2>1, <2>7
    <3>2. PICK m \in Nat : /\ m = 2 \/ m = 3 \/ m = 4
                           /\ m <= l /\ r = result_error(m, l)
                           /\ m = 2 => ~Second(s[1], s[2])
                           /\ m >= 3 => Second(s[1], s[2])
                           /\ m = 3 => ~Cont(s[3])
                           /\ m = 4 => Cont(s[3])
      <4>1. CASE ~Second(s[1], s[2])
        BY ONLY <1>1, <1>6, <2>7, <4>1 DEF Decodes
      <4>2. CASE Second(s[1], s[2]) /\ l >= 3 /\ ~Cont(s[3])
        BY ONLY <1>1, <1>6, <2>7, <4>2 DEF Decodes
      <4>3. CASE Second(s[1], s[2]) /\ l = 4 /\ Cont(s[3]) /\ ~Cont(s[4])
        BY ONLY <1>1, <1>6, <2>7, <4>3 DEF Decodes
      <4> QED BY ONLY <1>6, <2>2, <2>3, <2>7, <4>1, <4>2, <4>3
    <3>3. BeginsAt(s, m - 1) /\ ~BeginsAt(s, m)
      <4>1. CASE m = 2
        BY ONLY <2>4, <2>5, <3>2, <4>1
      <4>2. CASE m = 3
        BY ONLY <1>6, <2>5, <3>2, <4>2
      <4>3. CASE m = 4
        BY ONLY <1>6, <2>5, <3>2, <4>3
      <4> QED BY ONLY <3>2, <4>1, <4>2, <4>3
    <3>4. 1 <= m /\ m <= 4 /\ m <= Len(s)
      BY ONLY <1>1, <1>6, <2>7, <3>2
    <3> QED BY ONLY <1>6, <3>1, <3>2, <3>3, <3>4 DEF Refuses
  <2>8. CASE Len(s) >= l /\ WellFormedAt(s, l)
    <3>1. r = result_ok(ValueAt(s, l), l)
      <4>1. CASE l = 2
        BY ONLY <1>1, <1>6, <2>2, <2>3, <2>8, <4>1 DEF Decodes, ValueAt
      <4>2. CASE l = 3
        BY ONLY <1>1, <1>6, <2>2, <2>8, <4>2 DEF Decodes, ValueAt
      <4>3. CASE l = 4
        BY ONLY <1>1, <1>6, <2>2, <2>8, <4>3 DEF Decodes, ValueAt
      <4> QED BY ONLY <1>6, <4>1, <4>2, <4>3
    <3>2. 1 <= l /\ l <= 4 /\ l <= Len(s)
      BY ONLY <1>6, <2>8
    <3> QED BY ONLY <1>6, <2>8, <3>1, <3>2 DEF Accepts
  <2> QED BY ONLY <1>1, <1>6, <2>6, <2>7, <2>8
<1>7. CASE 194 <= s[1] /\ s[1] <= 223
  <2>1. Decodes(s, 2, r)
    BY ONLY <1>3, <1>7
  <2>2. Accepts(s, r) \/ Refuses(s, r)
    BY ONLY <1>1, <1>6, <1>7, <2>1
  <2> QED BY ONLY <1>2, <2>2
<1>8. CASE 224 <= s[1] /\ s[1] <= 239
  <2>1. Decodes(s, 3, r)
    BY ONLY <1>3, <1>8
  <2>2. Accepts(s, r) \/ Refuses(s, r)
    BY ONLY <1>1, <1>6, <1>8, <2>1
  <2> QED BY ONLY <1>2, <2>2
<1>9. CASE 240 <= s[1] /\ s[1] <= 244
  <2>1. Decodes(s, 4, r)
    BY ONLY <1>3, <1>9
  <2>2. Accepts(s, r) \/ Refuses(s, r)
    BY ONLY <1>1, <1>6, <1>9, <2>1
  <2> QED BY ONLY <1>2, <2>2
<1>10. \/ s[1] <= 127 \/ (128 <= s[1] /\ ~(194 <= s[1] /\ s[1] <= 244))
       \/ (194 <= s[1] /\ s[1] <= 223) \/ (224 <= s[1] /\ s[1] <= 239)
       \/ (240 <= s[1] /\ s[1] <= 244)
  BY ONLY <1>1
<1> QED BY ONLY <1>4, <1>5, <1>7, <1>8, <1>9, <1>10

----------------------------------------------------------------------------
(* The encoder. *)

\* A number is its digits of six bits: the last one and what is in front.
High(c) == c \div 64
Last6(c) == c % 64

LEMMA Digits ==
  ASSUME NEW c \in Nat
  PROVE  High(c) \in Nat /\ Last6(c) \in Nat /\ Last6(c) <= 63 /\ c = High(c) * 64 + Last6(c)
<1>1. High(c) \in Nat
  BY DEF High
<1>2. Last6(c) \in Nat /\ Last6(c) <= 63
  BY DEF Last6
<1>3. c = High(c) * 64 + Last6(c)
  BY DEF High, Last6
<1> QED BY ONLY <1>1, <1>2, <1>3

LEMMA Quotient4096 ==
  ASSUME NEW p \in Nat, NEW r \in Nat, r <= 4095, NEW c \in Nat, c = 4096 * p + r
  PROVE  c \div 4096 = p
OBVIOUS

LEMMA Quotient262144 ==
  ASSUME NEW p \in Nat, NEW r \in Nat, r <= 262143, NEW c \in Nat, c = 262144 * p + r
  PROVE  c \div 262144 = p
OBVIOUS

LEMMA SixBits ==
  ASSUME NEW c \in Nat
  PROVE  /\ High(c) \in Nat /\ High(High(c)) \in Nat /\ High(High(High(c))) \in Nat
         /\ c = High(c) * 64 + Last6(c)
         /\ c = High(High(c)) * 4096 + Last6(High(c)) * 64 + Last6(c)
         /\ c = High(High(High(c))) * 262144 + Last6(High(High(c))) * 4096
                 + Last6(High(c)) * 64 + Last6(c)
         /\ c \div 64 = High(c)
         /\ c \div 4096 = High(High(c))
         /\ c \div 262144 = High(High(High(c)))
<1>1. PICK q, r : q = High(c) /\ r = Last6(c)
  OBVIOUS
<1>2. q \in Nat /\ r \in Nat /\ r <= 63 /\ c = q * 64 + r
  BY ONLY <1>1, c \in Nat, Digits
<1>3. PICK p, t : p = High(q) /\ t = Last6(q)
  OBVIOUS
<1>4. p \in Nat /\ t \in Nat /\ t <= 63 /\ q = p * 64 + t
  BY ONLY <1>2, <1>3, Digits
<1>5. PICK o, u : o = High(p) /\ u = Last6(p)
  OBVIOUS
<1>6. o \in Nat /\ u \in Nat /\ u <= 63 /\ p = o * 64 + u
  BY ONLY <1>4, <1>5, Digits
<1>7. c \div 4096 = p
  <2>1. PICK v : v = t * 64 + r
    OBVIOUS
  <2>2. v \in Nat /\ v <= 4095 /\ c = 4096 * p + v
    BY ONLY <1>2, <1>4, <2>1
  <2> QED BY ONLY <1>4, <2>2, c \in Nat, Quotient4096
<1>8. c \div 262144 = o
  <2>1. PICK v : v = u * 4096 + t * 64 + r
    OBVIOUS
  <2>2. v \in Nat /\ v <= 262143 /\ c = 262144 * o + v
    BY ONLY <1>2, <1>4, <1>6, <2>1
  <2> QED BY ONLY <1>6, <2>2, c \in Nat, Quotient262144
<1>9. c = p * 4096 + t * 64 + r /\ c = o * 262144 + u * 4096 + t * 64 + r
  BY ONLY <1>2, <1>4, <1>6
<1>10. c \div 64 = High(c)
  BY DEF High
<1>11. /\ c = High(c) * 64 + Last6(c)
       /\ c = High(High(c)) * 4096 + Last6(High(c)) * 64 + Last6(c)
       /\ c = High(High(High(c))) * 262144 + Last6(High(High(c))) * 4096
               + Last6(High(c)) * 64 + Last6(c)
  <2>1. /\ q = High(c) /\ p = High(High(c)) /\ o = High(High(High(c)))
        /\ r = Last6(c) /\ t = Last6(High(c)) /\ u = Last6(High(High(c)))
    BY ONLY <1>1, <1>3, <1>5
  <2>2. c = High(c) * 64 + Last6(c)
    BY ONLY <1>1, <1>2
  <2>3. c = High(High(c)) * 4096 + Last6(High(c)) * 64 + Last6(c)
    BY ONLY <1>9, <2>1
  <2>4. c = High(High(High(c))) * 262144 + Last6(High(High(c))) * 4096
            + Last6(High(c)) * 64 + Last6(c)
    BY ONLY <1>9, <2>1
  <2> QED BY ONLY <2>2, <2>3, <2>4
<1>12. High(c) \in Nat /\ High(High(c)) \in Nat /\ High(High(High(c))) \in Nat
  BY ONLY <1>1, <1>2, <1>3, <1>4, <1>5, <1>6
<1>13. c \div 4096 = High(High(c)) /\ c \div 262144 = High(High(High(c)))
  BY ONLY <1>1, <1>3, <1>5, <1>7, <1>8
<1> QED BY ONLY <1>10, <1>11, <1>12, <1>13

LEMMA BytesAre ==
  ASSUME NEW b \in Nat, b <= 255
  PROVE  b \in Byte
BY DEF Byte

Encodes(s, c) ==
  /\ s \in Seq(Byte) /\ 1 <= Len(s) /\ Len(s) <= 4
  /\ WellFormedAt(s, Len(s))
  /\ ValueAt(s, Len(s)) = c

\* A continuation byte carries six bits.
LEMMA ContinuationIs ==
  ASSUME NEW q \in Nat
  PROVE  /\ Continuation(q) \in Byte /\ Continuation(q) \in Nat
         /\ Cont(Continuation(q))
         /\ Continuation(q) - 128 = Last6(q)
<1>1. Continuation(q) = 128 + Last6(q)
  BY DEF Continuation, Last6
<1>2. Last6(q) \in Nat /\ Last6(q) <= 63
  BY Digits
<1>3. Continuation(q) \in Nat /\ Continuation(q) <= 255
  BY ONLY <1>1, <1>2
<1>4. Cont(Continuation(q)) /\ Continuation(q) - 128 = Last6(q)
  BY ONLY <1>1, <1>2 DEF Cont
<1> QED BY ONLY <1>3, <1>4, BytesAre

\* A remainder that takes nothing away.
LEMMA Small ==
  ASSUME NEW q \in Nat, NEW m \in {8, 16, 32}, q < m
  PROVE  q % m = q
OBVIOUS

LEMMA Ranges ==
  ASSUME NEW c \in Nat
  PROVE  /\ c <= 127 => str_encode_codepoint(c) = <<c>>
         /\ 128 <= c /\ c <= 2047 => str_encode_codepoint(c) = Bytes2(c)
         /\ (2048 <= c /\ c <= 55295) \/ (57344 <= c /\ c <= 65535) =>
              str_encode_codepoint(c) = Bytes3(c)
         /\ 65536 <= c /\ c <= 1114111 => str_encode_codepoint(c) = Bytes4(c)
         /\ (55296 <= c /\ c <= 57343) \/ 1114112 <= c => str_encode_codepoint(c) = <<>>
BY DEF str_encode_codepoint

LEMMA EncodeOne ==
  ASSUME NEW c \in Nat, c <= 127
  PROVE  Encodes(str_encode_codepoint(c), c)
<1>1. str_encode_codepoint(c) = <<c>>
  BY Ranges
<1>2. c \in Byte
  BY BytesAre
<1>3. <<c>> \in Seq(Byte) /\ Len(<<c>>) = 1 /\ <<c>>[1] = c
  BY ONLY <1>2
<1> QED BY ONLY <1>1, <1>3, c \in Nat, c <= 127 DEF Encodes, WellFormedAt, ValueAt

LEMMA EncodeTwo ==
  ASSUME NEW c \in Nat, 128 <= c, c <= 2047
  PROVE  Encodes(str_encode_codepoint(c), c)
<1>1. PICK a : a = 192 + High(c)
  OBVIOUS
<1>2. PICK b : b = Continuation(c)
  OBVIOUS
<1> DEFINE s == <<a, b>>
<1>3. /\ High(c) \in Nat /\ c = High(c) * 64 + Last6(c)
      /\ Last6(c) \in Nat /\ Last6(c) <= 63 /\ c \div 64 = High(c)
  BY ONLY SixBits, Digits, c \in Nat
<1>4. a \in Nat /\ 194 <= a /\ a <= 223 /\ High(c) < 32
  BY <1>1, <1>3
<1>5. b \in Byte /\ b \in Nat /\ Cont(b) /\ b - 128 = Last6(c)
  BY ONLY <1>2, ContinuationIs, c \in Nat
<1>6. Value2(a, b) = c
  BY ONLY <1>1, <1>3, <1>5 DEF Value2
<1>7. str_encode_codepoint(c) = s
  <2>1. High(c) % 32 = High(c)
    BY ONLY <1>3, <1>4, Small
  <2>2. Bytes2(c) = <<192 + (High(c) % 32), Continuation(c)>>
    BY ONLY <1>3 DEF Bytes2
  <2>3. str_encode_codepoint(c) = Bytes2(c)
    BY Ranges
  <2> QED BY ONLY <1>1, <1>2, <2>1, <2>2, <2>3
<1>8. a \in Byte
  BY ONLY <1>4, BytesAre
<1>9. s \in Seq(Byte) /\ Len(s) = 2 /\ s[1] = a /\ s[2] = b
  BY ONLY <1>5, <1>8
<1> HIDE DEF s
<1>10. WellFormedAt(s, 2) /\ ValueAt(s, 2) = c
  BY ONLY <1>4, <1>5, <1>6, <1>9 DEF WellFormedAt, ValueAt
<1> QED BY ONLY <1>7, <1>9, <1>10 DEF Encodes

LEMMA EncodeThree ==
  ASSUME NEW c \in Nat, (2048 <= c /\ c <= 55295) \/ (57344 <= c /\ c <= 65535)
  PROVE  Encodes(str_encode_codepoint(c), c)
<1> DEFINE p == High(High(c))
           q == High(c)
           t == Last6(High(c))
           r == Last6(c)
           a == 224 + p
           b == Continuation(q)
           d == Continuation(c)
           s == <<a, b, d>>
<1>1. /\ p \in Nat /\ q \in Nat /\ c = p * 4096 + t * 64 + r
      /\ c \div 64 = q /\ c \div 4096 = p
  BY ONLY SixBits, c \in Nat
<1>2. t \in Nat /\ t <= 63 /\ r \in Nat /\ r <= 63
  BY ONLY <1>1, Digits, c \in Nat
<1>3. p < 16
  BY ONLY <1>1, <1>2, (2048 <= c /\ c <= 55295) \/ (57344 <= c /\ c <= 65535)
<1>4. a \in Nat /\ 224 <= a /\ a <= 239 /\ a - 224 = p
  BY ONLY <1>1, <1>3
<1>5. /\ b \in Byte /\ b \in Nat /\ Cont(b) /\ b - 128 = t
      /\ d \in Byte /\ d \in Nat /\ Cont(d) /\ d - 128 = r
  BY ONLY <1>1, ContinuationIs, c \in Nat
<1>6. Value3(a, b, d) = c
  BY ONLY <1>1, <1>4, <1>5 DEF Value3
<1>7. str_encode_codepoint(c) = s
  <2>1. p % 16 = p
    BY ONLY <1>1, <1>3, Small
  <2>2. Bytes3(c) = <<224 + (p % 16), Continuation(q), Continuation(c)>>
    BY ONLY <1>1 DEF Bytes3
  <2>3. str_encode_codepoint(c) = Bytes3(c)
    BY Ranges
  <2> QED BY ONLY <2>1, <2>2, <2>3
<1>8. a \in Byte
  BY ONLY <1>4, BytesAre
<1>9. s \in Seq(Byte) /\ Len(s) = 3 /\ s[1] = a /\ s[2] = b /\ s[3] = d
  BY ONLY <1>5, <1>8
<1> HIDE DEF s
<1>10. Second(a, b)
  BY <1>1, <1>2, <1>4, <1>5 DEF Second
<1>11. WellFormedAt(s, 3) /\ ValueAt(s, 3) = c
  BY ONLY <1>4, <1>5, <1>6, <1>9, <1>10 DEF WellFormedAt, ValueAt
<1> QED BY ONLY <1>7, <1>9, <1>11 DEF Encodes

LEMMA EncodeFour ==
  ASSUME NEW c \in Nat, 65536 <= c, c <= 1114111
  PROVE  Encodes(str_encode_codepoint(c), c)
<1> DEFINE o == High(High(High(c)))
           p == High(High(c))
           q == High(c)
           u == Last6(High(High(c)))
           t == Last6(High(c))
           r == Last6(c)
           a == 240 + o
           b == Continuation(p)
           d == Continuation(q)
           e == Continuation(c)
           s == <<a, b, d, e>>
<1>1. /\ o \in Nat /\ p \in Nat /\ q \in Nat
      /\ c = o * 262144 + u * 4096 + t * 64 + r
      /\ c \div 64 = q /\ c \div 4096 = p /\ c \div 262144 = o
  BY ONLY SixBits, c \in Nat
<1>2. u \in Nat /\ u <= 63 /\ t \in Nat /\ t <= 63 /\ r \in Nat /\ r <= 63
  BY ONLY <1>1, Digits, c \in Nat
<1>3. o < 5
  BY ONLY <1>1, <1>2, c <= 1114111
<1>4. a \in Nat /\ 240 <= a /\ a <= 244 /\ a - 240 = o
  BY ONLY <1>1, <1>3
<1>5. /\ b \in Byte /\ b \in Nat /\ Cont(b) /\ b - 128 = u
      /\ d \in Byte /\ d \in Nat /\ Cont(d) /\ d - 128 = t
      /\ e \in Byte /\ e \in Nat /\ Cont(e) /\ e - 128 = r
  BY ONLY <1>1, ContinuationIs, c \in Nat
<1>6. Value4(a, b, d, e) = c
  BY ONLY <1>1, <1>4, <1>5 DEF Value4
<1>7. str_encode_codepoint(c) = s
  <2>1. o % 8 = o
    BY ONLY <1>1, <1>3, Small
  <2>2. Bytes4(c) = <<240 + (o % 8), Continuation(p), Continuation(q), Continuation(c)>>
    BY ONLY <1>1 DEF Bytes4
  <2>3. str_encode_codepoint(c) = Bytes4(c)
    BY Ranges
  <2> QED BY ONLY <2>1, <2>2, <2>3
<1>8. a \in Byte
  BY ONLY <1>4, BytesAre
<1>9. s \in Seq(Byte) /\ Len(s) = 4 /\ s[1] = a /\ s[2] = b /\ s[3] = d /\ s[4] = e
  BY ONLY <1>5, <1>8
<1> HIDE DEF s
<1>10. Second(a, b)
  BY <1>1, <1>2, <1>4, <1>5 DEF Second
<1>11. WellFormedAt(s, 4) /\ ValueAt(s, 4) = c
  BY ONLY <1>4, <1>5, <1>6, <1>9, <1>10 DEF WellFormedAt, ValueAt
<1> QED BY ONLY <1>7, <1>9, <1>11 DEF Encodes

\* A scalar value gets an encoding, anything else no bytes.
LEMMA EncoderIs ==
  ASSUME NEW c \in Nat
  PROVE  /\ IsScalar(c) => Encodes(str_encode_codepoint(c), c)
         /\ ~IsScalar(c) => str_encode_codepoint(c) = <<>>
<1>1. ASSUME ~IsScalar(c) PROVE str_encode_codepoint(c) = <<>>
  <2>1. (55296 <= c /\ c <= 57343) \/ 1114112 <= c
    BY <1>1 DEF IsScalar
  <2> QED BY ONLY <2>1, c \in Nat, Ranges
<1>2. ASSUME IsScalar(c) PROVE Encodes(str_encode_codepoint(c), c)
  <2>1. \/ c <= 127 \/ (128 <= c /\ c <= 2047)
        \/ (2048 <= c /\ c <= 55295) \/ (57344 <= c /\ c <= 65535)
        \/ (65536 <= c /\ c <= 1114111)
    BY <1>2 DEF IsScalar
  <2> QED BY ONLY <2>1, c \in Nat, EncodeOne, EncodeTwo, EncodeThree, EncodeFour
<1> QED BY ONLY <1>1, <1>2

\* The first byte says how many there are.
LEMMA OneLength ==
  ASSUME NEW s, s[1] \in Nat, NEW m \in Nat, NEW n \in Nat,
         WellFormedAt(s, m), WellFormedAt(s, n)
  PROVE  m = n
BY DEF WellFormedAt

\* Decoding what the encoder made.
LEMMA DecodesEncoded ==
  ASSUME NEW c \in Nat, NEW s, Encodes(s, c)
  PROVE  str_decode_utf8(s) = result_ok(c, Len(s))
<1>1. s \in Seq(Byte) /\ Len(s) \in Nat /\ 1 <= Len(s) /\ Len(s) <= 4 /\ s # <<>>
      /\ WellFormedAt(s, Len(s)) /\ ValueAt(s, Len(s)) = c
  BY FourBytes DEF Encodes
<1>2. s[1] \in Nat
  BY ONLY <1>1, FourBytes
<1>3. PICK r : r = str_decode_utf8(s)
  OBVIOUS
<1>4. Accepts(s, r) \/ Refuses(s, r)
  BY ONLY <1>1, <1>3, Verdict
<1>5. ~Refuses(s, r)
  BY ONLY <1>1 DEF Refuses
<1>6. PICK n \in Nat : WellFormedAt(s, n) /\ r = result_ok(ValueAt(s, n), n)
  BY ONLY <1>4, <1>5 DEF Accepts
<1>7. n = Len(s)
  BY ONLY <1>1, <1>2, <1>6, OneLength
<1> QED BY ONLY <1>1, <1>3, <1>6, <1>7

\* The value of the first bytes.
LEMMA PrefixValue ==
  ASSUME NEW s \in Seq(Byte), NEW n \in 1 .. Len(s), n <= 4
  PROVE  ScalarOf(SubSeq(s, 1, n)) = ValueAt(s, n)
<1>1. PICK e : e = SubSeq(s, 1, n)
  OBVIOUS
<1>2. Len(e) = n /\ \A i \in 1 .. n : e[i] = s[i]
  BY ONLY FirstOnes, <1>1, s \in Seq(Byte), n \in 1 .. Len(s)
<1>3. n = 1 \/ n = 2 \/ n = 3 \/ n = 4
  BY FourBytes
<1>4. /\ n >= 1 => e[1] = s[1]
      /\ n >= 2 => e[2] = s[2]
      /\ n >= 3 => e[3] = s[3]
      /\ n >= 4 => e[4] = s[4]
  BY ONLY <1>2, <1>3
<1>5. ScalarOf(e) = ValueAt(s, n)
  <2>1. CASE n = 1
    BY ONLY <1>2, <1>4, <2>1 DEF ScalarOf, ValueAt
  <2>2. CASE n = 2
    BY ONLY <1>2, <1>4, <2>2 DEF ScalarOf, ValueAt, Value2
  <2>3. CASE n = 3
    BY ONLY <1>2, <1>4, <2>3 DEF ScalarOf, ValueAt, Value3
  <2>4. CASE n = 4
    BY ONLY <1>2, <1>4, <2>4 DEF ScalarOf, ValueAt, Value4
  <2> QED BY ONLY <1>3, <2>1, <2>2, <2>3, <2>4
<1> QED BY ONLY <1>1, <1>5

----------------------------------------------------------------------------
(* The decoder against the definition of UTF-8. *)

LEMMA AcceptsEncodings ==
  ASSUME NEW s \in Seq(Byte), s # <<>>, NEW r, r = str_decode_utf8(s)
  PROVE  /\ r.status = OK <=> \E n \in 1 .. Len(s) : IsEncoding(SubSeq(s, 1, n))
         /\ r.status = OK =>
              LET e == SubSeq(s, 1, r.num_bytes)
              IN  IsEncoding(e) /\ r.codepoint = ScalarOf(e) /\ r.utf8_len = Len(e)
<1>1. Len(s) \in Nat
  BY FourBytes
<1>2. Accepts(s, r) \/ Refuses(s, r)
  BY Verdict
<1>3. CASE Accepts(s, r)
  <2>1. PICK n \in Nat : /\ 1 <= n /\ n <= 4 /\ n <= Len(s) /\ WellFormedAt(s, n)
                         /\ r = result_ok(ValueAt(s, n), n)
    BY ONLY <1>3 DEF Accepts
  <2>2. r.status = OK /\ r.num_bytes = n /\ r.utf8_len = n /\ r.codepoint = ValueAt(s, n)
    BY ONLY <2>1 DEF result_ok, Result
  <2>3. n \in 1 .. Len(s)
    BY ONLY <1>1, <2>1
  <2>4. IsEncoding(SubSeq(s, 1, n))
    BY ONLY <2>1, <2>3, s \in Seq(Byte), PrefixEncodings
  <2>5. ScalarOf(SubSeq(s, 1, n)) = ValueAt(s, n)
    BY ONLY <2>1, <2>3, s \in Seq(Byte), PrefixValue
  <2>6. Len(SubSeq(s, 1, n)) = n
    BY ONLY <2>3, s \in Seq(Byte), FirstOnes
  <2> QED BY ONLY <2>2, <2>3, <2>4, <2>5, <2>6
<1>4. CASE Refuses(s, r)
  <2>1. r.status # OK
    BY ONLY <1>4 DEF Refuses, result_error, result_incomplete, Result, OK, ERROR, INCOMPLETE
  <2>2. ASSUME NEW n \in 1 .. Len(s) PROVE ~IsEncoding(SubSeq(s, 1, n))
    <3>1. n \in Nat /\ n <= Len(s)
      BY ONLY <1>1, n \in 1 .. Len(s)
    <3>2. ~WellFormedAt(s, n)
      BY ONLY <1>4, <3>1 DEF Refuses
    <3> QED BY ONLY <3>2, s \in Seq(Byte), n \in 1 .. Len(s), PrefixEncodings
  <2> QED BY ONLY <2>1, <2>2
<1> QED BY ONLY <1>2, <1>3, <1>4

LEMMA RefusesAtFirstBadByte ==
  ASSUME NEW s \in Seq(Byte), s # <<>>, NEW r, r = str_decode_utf8(s), r.status = ERROR
  PROVE  /\ r.num_bytes > 1 => IsBeginning(SubSeq(s, 1, r.num_bytes - 1))
         /\ LET e == SubSeq(s, 1, r.num_bytes) IN ~IsBeginning(e) /\ ~IsEncoding(e)
<1>1. Len(s) \in Nat
  BY FourBytes
<1>2. Accepts(s, r) \/ Refuses(s, r)
  BY Verdict
<1>3. ~Accepts(s, r)
  BY ONLY r.status = ERROR DEF Accepts, result_ok, Result, OK, ERROR
<1>4. PICK m, n \in Nat : /\ 1 <= m /\ m <= 4 /\ m <= Len(s)
                          /\ r = result_error(m, n)
                          /\ m = 1 \/ BeginsAt(s, m - 1)
                          /\ ~BeginsAt(s, m)
  BY ONLY <1>2, <1>3, r.status = ERROR DEF Refuses, result_incomplete, Result, INCOMPLETE, ERROR
<1>5. r.num_bytes = m
  BY ONLY <1>4 DEF result_error, Result
<1>6. ~WellFormedAt(s, m)
  BY ONLY <1>2, <1>3, <1>4 DEF Refuses
<1>7. ASSUME NEW k \in Nat, 1 <= k, k <= 4, k <= Len(s)
      PROVE  /\ IsBeginning(SubSeq(s, 1, k)) <=> BeginsAt(s, k)
             /\ IsEncoding(SubSeq(s, 1, k)) <=> WellFormedAt(s, k)
  <2>1. k \in 1 .. Len(s) /\ k \in 1 .. 4
    BY ONLY <1>1, <1>7
  <2>2. PICK e : e = SubSeq(s, 1, k)
    OBVIOUS
  <2>3. e \in Seq(Byte) /\ Len(e) = k /\ \A i \in 1 .. k : e[i] = s[i]
    BY ONLY <2>1, <2>2, s \in Seq(Byte), FirstOnes
  <2>4. IsBeginning(e) <=> BeginsAt(e, k)
    BY ONLY <2>1, <2>3, Beginnings
  <2>5. BeginsAt(e, k) <=> BeginsAt(s, k)
    <3>1. /\ e[1] = s[1]
          /\ k >= 2 => e[2] = s[2]
          /\ k >= 3 => e[3] = s[3]
      BY ONLY <1>7, <2>3
    <3> QED BY ONLY <3>1, k \in Nat DEF BeginsAt
  <2>6. IsEncoding(SubSeq(s, 1, k)) <=> WellFormedAt(s, k)
    BY ONLY <2>1, s \in Seq(Byte), PrefixEncodings
  <2> QED BY ONLY <2>2, <2>4, <2>5, <2>6
<1>8. /\ ~IsBeginning(SubSeq(s, 1, m)) /\ ~IsEncoding(SubSeq(s, 1, m))
  BY ONLY <1>4, <1>6, <1>7
<1>9. ASSUME m > 1 PROVE IsBeginning(SubSeq(s, 1, m - 1))
  <2>1. PICK k \in Nat : k = m - 1 /\ 1 <= k /\ k <= 4 /\ k <= Len(s)
    BY ONLY <1>1, <1>4, <1>9
  <2>2. BeginsAt(s, k)
    BY ONLY <1>4, <1>9, <2>1
  <2>3. IsBeginning(SubSeq(s, 1, k))
    BY ONLY <1>7, <2>1, <2>2
  <2> QED BY ONLY <2>1, <2>3
<1> QED BY ONLY <1>5, <1>8, <1>9

----------------------------------------------------------------------------
(* Functions defined from the end of a sequence to its front. *)

\* f at i is step at i, of f, for i from k to n + 1.
Descends(step, n, f, k) == \A i \in k .. n + 1 : f[i] = step[i][f]

\* A step at i that looks at f only behind i.
LooksBehind(step, n, S) ==
  /\ step \in [1 .. n + 1 -> [[1 .. n + 1 -> S] -> S]]
  /\ \A i \in 1 .. n + 1, f \in [1 .. n + 1 -> S], g \in [1 .. n + 1 -> S] :
       (\A j \in i + 1 .. n + 1 : f[j] = g[j]) => step[i][f] = step[i][g]

LEMMA DescentExists ==
  ASSUME NEW n \in Nat, NEW S, NEW e \in S, NEW step, LooksBehind(step, n, S)
  PROVE  \E f \in [1 .. n + 1 -> S] : Descends(step, n, f, 1)
<1> DEFINE F == [1 .. n + 1 -> S]
           Good == {k \in Nat : \E f \in F : Descends(step, n, f, k + 1)}
<1>1. Good # {}
  <2>1. [i \in 1 .. n + 1 |-> e] \in F
    OBVIOUS
  <2>2. n + 1 \in Nat /\ (n + 1) + 1 .. n + 1 = {}
    OBVIOUS
  <2>3. \A f : Descends(step, n, f, (n + 1) + 1)
    BY ONLY <2>2 DEF Descends
  <2> HIDE DEF F
  <2> QED BY ONLY <2>1, <2>2, <2>3
<1>2. PICK k \in Good : \A m \in Good : k <= m
  <2>1. Good \in SUBSET Nat
    OBVIOUS
  <2> HIDE DEF Good
  <2> QED BY ONLY <1>1, <2>1, LeastNumber
<1>3. k \in Nat
  OBVIOUS
<1>4. PICK f : f \in F /\ Descends(step, n, f, k + 1)
  OBVIOUS
<1>5. k = 0
  <2> SUFFICES ASSUME k # 0 PROVE FALSE
    OBVIOUS
  <2>1. PICK m \in Nat : k = m + 1
    <3>1. k - 1 \in Nat /\ k = (k - 1) + 1
      BY ONLY <1>3, k # 0
    <3> QED BY ONLY <3>1
  <2>2. CASE k > n + 1
    <3>1. m + 1 .. n + 1 = {}
      BY ONLY <2>1, <2>2, n \in Nat, m \in Nat
    <3>2. Descends(step, n, f, m + 1)
      BY ONLY <3>1 DEF Descends
    <3>3. m \in Good
      BY ONLY <1>4, <3>2, m \in Nat
    <3>4. k <= m
      BY <1>2, <3>3
    <3> QED BY ONLY <3>4, <2>1, m \in Nat
  <2>3. CASE k <= n + 1
    <3>1. k \in 1 .. n + 1
      BY ONLY <1>3, <2>3, k # 0, n \in Nat
    <3> DEFINE v == step[k][f]  g == [f EXCEPT ![k] = v]
    <3>2. v \in S
      BY ONLY <1>4, <3>1, LooksBehind(step, n, S) DEF LooksBehind, F
    <3> HIDE DEF v
    <3>3. g \in F /\ g[k] = v /\ \A j \in 1 .. n + 1 : j # k => g[j] = f[j]
      BY ONLY <1>4, <3>1, <3>2 DEF F
    <3> HIDE DEF g, F
    <3>4. ASSUME NEW i \in m + 1 .. n + 1 PROVE g[i] = step[i][g]
      <4>1. i \in 1 .. n + 1 /\ (i = k \/ i \in k + 1 .. n + 1)
        BY ONLY <2>1, i \in m + 1 .. n + 1, m \in Nat, n \in Nat
      <4>2. \A j \in i + 1 .. n + 1 : j \in 1 .. n + 1 /\ j # k
        BY ONLY <2>1, <4>1, m \in Nat, n \in Nat
      <4>3. step[i][f] = step[i][g]
        <5>1. \A j \in i + 1 .. n + 1 : f[j] = g[j]
          BY ONLY <3>3, <4>2
        <5>2. f \in [1 .. n + 1 -> S] /\ g \in [1 .. n + 1 -> S]
          BY ONLY <1>4, <3>3 DEF F
        <5> QED BY ONLY <4>1, <5>1, <5>2, LooksBehind(step, n, S) DEF LooksBehind
      <4>4. CASE i = k
        BY ONLY <3>3, <4>3, <4>4 DEF v
      <4>5. CASE i \in k + 1 .. n + 1
        <5>1. f[i] = step[i][f]
          BY ONLY <1>4, <4>5 DEF Descends
        <5>2. i # k
          BY ONLY <4>5, <1>3, n \in Nat
        <5> QED BY ONLY <3>3, <4>1, <4>3, <5>1, <5>2
      <4> QED BY ONLY <4>1, <4>4, <4>5
    <3>5. Descends(step, n, g, m + 1)
      BY ONLY <3>4 DEF Descends
    <3>6. m \in Good
      BY ONLY <3>3, <3>5, m \in Nat
    <3>7. k <= m
      BY <1>2, <3>6
    <3> QED BY ONLY <3>7, <2>1, m \in Nat
  <2> QED BY ONLY <1>3, <2>2, <2>3, n \in Nat
<1>6. k + 1 = 1
  BY ONLY <1>5
<1> QED BY ONLY <1>4, <1>6 DEF F

----------------------------------------------------------------------------
(* What is left of a sequence from position i on. *)

\* y is the l elements of x from i on.
Ending(S, x, i, l, y) ==
  /\ y \in Seq(S) /\ Len(y) = l
  /\ \A q \in Nat : 1 <= q /\ q <= l => y[q] = x[i + q - 1]

LEMMA FromIs ==
  ASSUME NEW S, NEW x \in Seq(S), NEW i \in Nat, NEW n \in Nat, NEW l \in Nat, n = Len(x),
         1 <= i, i <= n + 1, l = n + 1 - i
  PROVE  Ending(S, x, i, l, From(x, i))
<1>1. \A j \in i .. n : x[j] \in S
  BY ElementOfSeq
<1>2. /\ SubSeq(x, i, n) \in Seq(S)
      /\ Len(SubSeq(x, i, n)) = IF i <= n THEN n - i + 1 ELSE 0
      /\ \A k \in 1 .. n - i + 1 : SubSeq(x, i, n)[k] = x[i + k - 1]
  BY ONLY <1>1, i \in Nat, n \in Nat, SubSeqProperties
<1>3. (IF i <= n THEN n - i + 1 ELSE 0) = l
  BY ONLY i \in Nat, n \in Nat, i <= n + 1, l = n + 1 - i
<1>4. \A k \in Nat : 1 <= k /\ k <= l => k \in 1 .. n - i + 1
  BY ONLY i \in Nat, n \in Nat, l = n + 1 - i
<1>5. From(x, i) = SubSeq(x, i, n)
  BY ONLY n = Len(x) DEF From
<1> QED BY ONLY <1>2, <1>3, <1>4, <1>5 DEF Ending

LEMMA SameSequence ==
  ASSUME NEW S, NEW x \in Seq(S), NEW y \in Seq(S), NEW n \in Nat, Len(x) = n, Len(y) = n,
         \A k \in Nat : 1 <= k /\ k <= n => x[k] = y[k]
  PROVE  x = y
<1>1. \A k \in 1 .. n : x[k] = y[k]
  OBVIOUS
<1> QED BY ONLY <1>1, x \in Seq(S), y \in Seq(S), Len(x) = n, Len(y) = n, SeqEqual

LEMMA FromFrom ==
  ASSUME NEW S, NEW x \in Seq(S), NEW i \in Nat, NEW k \in Nat, NEW j \in Nat, NEW n \in Nat,
         n = Len(x), 1 <= i, 1 <= k, j = i + k - 1, j <= n + 1
  PROVE  From(From(x, i), k) = From(x, j)
<1>1. PICK m \in Nat : m = n + 1 - i
  <2>1. n + 1 - i \in Nat
    OBVIOUS
  <2> QED BY ONLY <2>1
<1>2. PICK l \in Nat : l = n + 1 - j
  <2>1. n + 1 - j \in Nat
    OBVIOUS
  <2> QED BY ONLY <2>1
<1>3. i <= n + 1 /\ 1 <= j /\ k <= m + 1 /\ m + 1 - k = l
  BY ONLY <1>1, <1>2, i \in Nat, k \in Nat, j \in Nat, n \in Nat, 1 <= i, 1 <= k,
          j = i + k - 1, j <= n + 1
<1>4. PICK y : y = From(x, i)
  OBVIOUS
<1>5. /\ y \in Seq(S) /\ Len(y) = m
      /\ \A q \in Nat : 1 <= q /\ q <= m => y[q] = x[i + q - 1]
  <2>1. Ending(S, x, i, m, From(x, i))
    BY ONLY <1>1, <1>3, x \in Seq(S), i \in Nat, n \in Nat, m \in Nat, n = Len(x), 1 <= i, FromIs
  <2> QED BY ONLY <1>4, <2>1 DEF Ending
<1>6. /\ From(x, j) \in Seq(S) /\ Len(From(x, j)) = l
      /\ \A q \in Nat : 1 <= q /\ q <= l => From(x, j)[q] = x[j + q - 1]
  <2>1. Ending(S, x, j, l, From(x, j))
    BY ONLY <1>2, <1>3, x \in Seq(S), j \in Nat, n \in Nat, l \in Nat, n = Len(x), j <= n + 1,
            FromIs
  <2> QED BY ONLY <2>1 DEF Ending
<1>7. /\ From(y, k) \in Seq(S) /\ Len(From(y, k)) = l
      /\ \A q \in Nat : 1 <= q /\ q <= l => From(y, k)[q] = y[k + q - 1]
  <2>1. Ending(S, y, k, l, From(y, k))
    BY ONLY <1>3, <1>5, k \in Nat, m \in Nat, l \in Nat, 1 <= k, FromIs
  <2> QED BY ONLY <2>1 DEF Ending
<1>8. ASSUME NEW q \in Nat, 1 <= q, q <= l PROVE From(y, k)[q] = From(x, j)[q]
  <2>1. PICK a \in Nat : a = k + q - 1 /\ 1 <= a /\ a <= m /\ i + a - 1 = j + q - 1
    <3>1. /\ k + q - 1 \in Nat /\ 1 <= k + q - 1 /\ k + q - 1 <= m
          /\ i + (k + q - 1) - 1 = j + q - 1
      BY ONLY <1>3, <1>8, i \in Nat, k \in Nat, j \in Nat, q \in Nat, l \in Nat, m \in Nat,
              1 <= k, j = i + k - 1
    <3> QED BY ONLY <3>1
  <2>2. From(y, k)[q] = y[a] /\ y[a] = x[i + a - 1] /\ From(x, j)[q] = x[j + q - 1]
    BY ONLY <1>5, <1>6, <1>7, <1>8, <2>1
  <2> QED BY ONLY <2>1, <2>2
<1>9. From(y, k) = From(x, j)
  BY ONLY <1>6, <1>7, <1>8, l \in Nat, SameSequence
<1> QED BY ONLY <1>4, <1>9

LEMMA FromEnds ==
  ASSUME NEW S, NEW x \in Seq(S)
  PROVE  From(x, 1) = x /\ From(x, Len(x) + 1) = <<>>
BY DEF From

LEMMA FromJoined ==
  ASSUME NEW S, NEW u \in Seq(S), NEW v \in Seq(S), NEW k \in Nat, NEW n \in Nat, n = Len(u),
         1 <= k, k <= n + 1
  PROVE  From(u \o v, k) = From(u, k) \o v
<1>1. PICK m \in Nat : m = Len(v)
  OBVIOUS
<1>2. PICK w : w = u \o v
  OBVIOUS
<1>3. /\ w \in Seq(S) /\ Len(w) = n + m
      /\ \A q \in Nat : 1 <= q /\ q <= n + m => w[q] = IF q <= n THEN u[q] ELSE v[q - n]
  <2>1. \A q \in Nat : 1 <= q /\ q <= n + m => q \in 1 .. Len(u) + Len(v)
    BY ONLY <1>1, n = Len(u), n \in Nat, m \in Nat
  <2>2. /\ u \o v \in Seq(S) /\ Len(u \o v) = Len(u) + Len(v)
        /\ \A q \in 1 .. Len(u) + Len(v) :
             (u \o v)[q] = IF q <= Len(u) THEN u[q] ELSE v[q - Len(u)]
    BY ONLY u \in Seq(S), v \in Seq(S), ConcatProperties
  <2> QED BY ONLY <1>1, <1>2, <2>1, <2>2, n = Len(u)
<1>4. PICK l \in Nat : l = n + 1 - k
  <2>1. n + 1 - k \in Nat
    OBVIOUS
  <2> QED BY ONLY <2>1
<1>5. /\ From(u, k) \in Seq(S) /\ Len(From(u, k)) = l
      /\ \A q \in Nat : 1 <= q /\ q <= l => From(u, k)[q] = u[k + q - 1]
  <2>1. Ending(S, u, k, l, From(u, k))
    BY ONLY <1>4, u \in Seq(S), k \in Nat, n \in Nat, l \in Nat, n = Len(u), 1 <= k, k <= n + 1,
            FromIs
  <2> QED BY ONLY <2>1 DEF Ending
<1>6. PICK p \in Nat : p = n + m
  BY ONLY n \in Nat, m \in Nat
<1>7. PICK z \in Nat : z = l + m /\ z = p + 1 - k /\ k <= p + 1
  <2>1. l + m \in Nat /\ l + m = p + 1 - k /\ k <= p + 1
    BY ONLY <1>4, <1>6, k \in Nat, n \in Nat, m \in Nat, l \in Nat, k <= n + 1
  <2> QED BY ONLY <2>1
<1>8. /\ From(w, k) \in Seq(S) /\ Len(From(w, k)) = l + m
      /\ \A q \in Nat : 1 <= q /\ q <= l + m => From(w, k)[q] = w[k + q - 1]
  <2>1. Ending(S, w, k, z, From(w, k))
    BY ONLY <1>3, <1>6, <1>7, k \in Nat, 1 <= k, p \in Nat, z \in Nat, FromIs
  <2> QED BY ONLY <1>7, <2>1 DEF Ending
<1>9. PICK t : t = From(u, k) \o v
  OBVIOUS
<1>10. /\ t \in Seq(S) /\ Len(t) = l + m
       /\ \A q \in Nat : 1 <= q /\ q <= l + m =>
            t[q] = IF q <= l THEN From(u, k)[q] ELSE v[q - l]
  <2>0. PICK a : a = From(u, k)
    OBVIOUS
  <2>1. a \in Seq(S) /\ Len(a) = l
    BY ONLY <1>5, <2>0
  <2>2. \A q \in Nat : 1 <= q /\ q <= l + m => q \in 1 .. Len(a) + Len(v)
    BY ONLY <1>1, <2>1, l \in Nat, m \in Nat
  <2>3. /\ a \o v \in Seq(S) /\ Len(a \o v) = Len(a) + Len(v)
        /\ \A q \in 1 .. Len(a) + Len(v) :
             (a \o v)[q] = IF q <= Len(a) THEN a[q] ELSE v[q - Len(a)]
    BY ONLY <2>1, v \in Seq(S), ConcatProperties
  <2> QED BY ONLY <1>1, <1>9, <2>0, <2>1, <2>2, <2>3
<1>11. ASSUME NEW q \in Nat, 1 <= q, q <= l + m PROVE From(w, k)[q] = t[q]
  <2>1. PICK a \in Nat : a = k + q - 1 /\ 1 <= a /\ a <= n + m
                         /\ (a <= n <=> q <= l) /\ a - n = q - l
    <3>1. /\ k + q - 1 \in Nat /\ 1 <= k + q - 1 /\ k + q - 1 <= n + m
          /\ (k + q - 1 <= n <=> q <= l) /\ (k + q - 1) - n = q - l
      BY ONLY <1>4, <1>11, k \in Nat, q \in Nat, n \in Nat, m \in Nat, l \in Nat, 1 <= k
    <3> QED BY ONLY <3>1
  <2>2. From(w, k)[q] = IF q <= l THEN u[a] ELSE v[q - l]
    BY ONLY <1>3, <1>8, <1>11, <2>1
  <2>3. q <= l => From(u, k)[q] = u[a]
    BY ONLY <1>5, <1>11, <2>1
  <2> QED BY ONLY <1>10, <1>11, <2>2, <2>3
<1>12. From(w, k) = t
  BY ONLY <1>7, <1>8, <1>10, <1>11, SameSequence
<1> QED BY ONLY <1>2, <1>9, <1>12

\* What holds at the end, and at a position if at a later one, holds everywhere.
LEMMA Backwards ==
  ASSUME NEW m \in Nat, NEW A, m + 1 \in A,
         \A k \in Nat : 1 <= k /\ k <= m =>
           \E j \in Nat : k < j /\ j <= m + 1 /\ (j \in A => k \in A)
  PROVE  \A k \in Nat : 1 <= k /\ k <= m + 1 => k \in A
<1> DEFINE Bad == {q \in Nat : \E k \in Nat : 1 <= k /\ k + q = m + 1 /\ k \notin A}
<1>1. ASSUME Bad # {} PROVE FALSE
  <2>1. PICK q \in Bad : \A o \in Bad : q <= o
    <3>1. Bad \in SUBSET Nat
      OBVIOUS
    <3> HIDE DEF Bad
    <3> QED BY ONLY <1>1, <3>1, LeastNumber
  <2>2. PICK k \in Nat : 1 <= k /\ k + q = m + 1 /\ k \notin A
    OBVIOUS
  <2>3. q \in Nat
    OBVIOUS
  <2>4. k <= m
    <3>1. k # m + 1
      BY ONLY <2>2, m + 1 \in A
    <3> QED BY ONLY <2>2, <2>3, <3>1, k \in Nat, m \in Nat
  <2>5. PICK j \in Nat : k < j /\ j <= m + 1 /\ (j \in A => k \in A)
    BY <2>2, <2>4
  <2>6. PICK o \in Nat : j + o = m + 1 /\ o < q
    <3>1. m + 1 - j \in Nat /\ j + (m + 1 - j) = m + 1 /\ m + 1 - j < q
      BY ONLY <2>2, <2>3, <2>5, k \in Nat, j \in Nat, m \in Nat
    <3> QED BY ONLY <3>1
  <2>7. o \in Bad
    <3>1. 1 <= j /\ j \notin A
      BY ONLY <2>2, <2>5, k \in Nat, j \in Nat
    <3> QED BY ONLY <2>6, <3>1, j \in Nat, o \in Nat
  <2>8. q <= o
    BY <2>1, <2>7
  <2> QED BY ONLY <2>3, <2>6, <2>8, o \in Nat
<1>2. ASSUME NEW k \in Nat, 1 <= k, k <= m + 1, k \notin A PROVE FALSE
  <2>1. m + 1 - k \in Nat /\ k + (m + 1 - k) = m + 1
    BY ONLY <1>2, k \in Nat, m \in Nat
  <2>2. m + 1 - k \in Bad
    BY ONLY <1>2, <2>1, k \in Nat
  <2> QED BY <1>1, <2>2
<1> QED BY <1>2

----------------------------------------------------------------------------
(* str_count_codepoints and IsValid walk over a text as the decoder does.   *)

\* How far a step goes.
LEMMA StepIs ==
  ASSUME NEW x \in Seq(Byte), NEW r, r = str_decode_utf8(x)
  PROVE  /\ x = <<>> => r.num_bytes = 0
         /\ x # <<>> => /\ r.num_bytes > 0
                        /\ CountStep(r) \in Nat /\ 1 <= CountStep(r) /\ CountStep(r) <= Len(x)
<1>1. x = <<>> => r.num_bytes = 0
  BY DEF str_decode_utf8, Result
<1>2. ASSUME x # <<>>
      PROVE  /\ r.num_bytes > 0
             /\ CountStep(r) \in Nat /\ 1 <= CountStep(r) /\ CountStep(r) <= Len(x)
  <2>1. Accepts(x, r) \/ Refuses(x, r)
    BY <1>2, Verdict
  <2>2. Len(x) \in Nat /\ Len(x) >= 1
    BY <1>2, FourBytes
  <2>3. CASE Accepts(x, r)
    <3>1. PICK n \in Nat : 1 <= n /\ n <= Len(x) /\ r.num_bytes = n /\ r.status = OK
      BY ONLY <2>3 DEF Accepts, result_ok, Result
    <3>2. r.status # ERROR
      BY ONLY <3>1 DEF OK, ERROR
    <3> QED BY ONLY <3>1, <3>2, <2>2 DEF CountStep
  <2>4. CASE Refuses(x, r)
    <3>1. CASE \E n \in Nat : r = result_incomplete(Len(x), n)
      <4>1. r.num_bytes = Len(x) /\ r.status # ERROR
        BY ONLY <3>1 DEF result_incomplete, Result, INCOMPLETE, ERROR
      <4> QED BY ONLY <4>1, <2>2 DEF CountStep
    <3>2. CASE \E m, n \in Nat : 1 <= m /\ m <= Len(x) /\ r = result_error(m, n)
      <4>1. PICK m \in Nat : 1 <= m /\ m <= Len(x) /\ r.num_bytes = m
        BY ONLY <3>2 DEF result_error, Result
      <4> QED BY ONLY <4>1, <2>2 DEF CountStep
    <3> QED BY ONLY <2>4, <3>1, <3>2 DEF Refuses
  <2> QED BY ONLY <2>1, <2>3, <2>4
<1> QED BY ONLY <1>1, <1>2

\* The decoder at position i, and the position after its step.
DecodedAt(x, i) == str_decode_utf8(From(x, i))
Stepped(x, n, i, j) == j \in Nat /\ j = i + CountStep(DecodedAt(x, i)) /\ i < j /\ j <= n + 1

LEMMA StepInside ==
  ASSUME NEW x \in Seq(Byte), NEW n \in Nat, n = Len(x), NEW i \in Nat, 1 <= i, i <= n + 1
  PROVE  /\ i = n + 1 => DecodedAt(x, i).num_bytes = 0
         /\ i <= n => DecodedAt(x, i).num_bytes > 0 /\ \E j \in Nat : Stepped(x, n, i, j)
<1>1. PICK l \in Nat : l = n + 1 - i
  <2>1. n + 1 - i \in Nat
    OBVIOUS
  <2> QED BY ONLY <2>1
<1>2. PICK y : y = From(x, i)
  OBVIOUS
<1>3. y \in Seq(Byte) /\ Len(y) = l
  <2>1. Ending(Byte, x, i, l, From(x, i))
    BY ONLY <1>1, x \in Seq(Byte), n = Len(x), n \in Nat, l \in Nat, i \in Nat, 1 <= i,
            i <= n + 1, FromIs
  <2> QED BY ONLY <1>2, <2>1 DEF Ending
<1>4. PICK r : r = DecodedAt(x, i)
  OBVIOUS
<1>5. r = str_decode_utf8(y)
  BY ONLY <1>2, <1>4 DEF DecodedAt
<1>6. /\ y = <<>> => r.num_bytes = 0
      /\ y # <<>> => /\ r.num_bytes > 0
                     /\ CountStep(r) \in Nat /\ 1 <= CountStep(r) /\ CountStep(r) <= Len(y)
  BY ONLY <1>3, <1>5, StepIs
<1>7. ASSUME i = n + 1 PROVE y = <<>>
  <2>1. l = 0
    BY ONLY <1>1, <1>7, n \in Nat
  <2> QED BY ONLY <1>3, <2>1, EmptySeq
<1>8. ASSUME i <= n PROVE y # <<>> /\ r.num_bytes > 0 /\ \E j \in Nat : Stepped(x, n, i, j)
  <2>1. l # 0
    BY ONLY <1>1, <1>8, n \in Nat, i \in Nat
  <2>2. y # <<>>
    BY ONLY <1>3, <2>1, EmptySeq
  <2>3. PICK s \in Nat : s = CountStep(r) /\ 1 <= s /\ s <= l
    BY ONLY <1>3, <1>6, <2>2
  <2>4. i + s \in Nat /\ i < i + s /\ i + s <= n + 1
    BY ONLY <1>1, <2>3, n \in Nat, i \in Nat, l \in Nat
  <2>5. Stepped(x, n, i, i + s)
    BY ONLY <1>4, <2>3, <2>4 DEF Stepped
  <2> QED BY ONLY <1>6, <2>2, <2>4, <2>5
<1> QED BY ONLY <1>4, <1>6, <1>7, <1>8

\* The function count of str_count_codepoints.
Counts(x, c) ==
  c = [i \in 1 .. Len(x) + 1 |->
        LET r == str_decode_utf8(From(x, i))
        IN  IF r.num_bytes > 0 THEN 1 + c[i + CountStep(r)] ELSE 0]

LEMMA CountsAt ==
  ASSUME NEW x \in Seq(Byte), NEW n \in Nat, n = Len(x), NEW c, Counts(x, c),
         NEW i \in Nat, 1 <= i, i <= n + 1
  PROVE  /\ i = n + 1 => c[i] = 0
         /\ i <= n => \E j \in Nat : Stepped(x, n, i, j) /\ c[i] = 1 + c[j]
<1>1. c[i] = IF DecodedAt(x, i).num_bytes > 0 THEN 1 + c[i + CountStep(DecodedAt(x, i))] ELSE 0
  <2>1. i \in 1 .. Len(x) + 1
    OBVIOUS
  <2> QED BY ONLY <2>1, Counts(x, c) DEF Counts, DecodedAt
<1>2. /\ i = n + 1 => DecodedAt(x, i).num_bytes = 0
      /\ i <= n => DecodedAt(x, i).num_bytes > 0 /\ \E j \in Nat : Stepped(x, n, i, j)
  BY StepInside
<1>3. ASSUME i = n + 1 PROVE c[i] = 0
  BY ONLY <1>1, <1>2, <1>3
<1>4. ASSUME i <= n PROVE \E j \in Nat : Stepped(x, n, i, j) /\ c[i] = 1 + c[j]
  <2>1. PICK j \in Nat : Stepped(x, n, i, j)
    BY ONLY <1>2, <1>4
  <2>2. i + CountStep(DecodedAt(x, i)) = j
    BY ONLY <2>1 DEF Stepped
  <2>3. c[i] = 1 + c[j]
    BY ONLY <1>1, <1>2, <1>4, <2>2
  <2> QED BY ONLY <2>1, <2>3
<1> QED BY ONLY <1>3, <1>4

LEMMA CountsExist ==
  ASSUME NEW x \in Seq(Byte), NEW n \in Nat, n = Len(x)
  PROVE  \E c \in [1 .. n + 1 -> Nat] : Counts(x, c)
<1> DEFINE F == [1 .. n + 1 -> Nat]
           At(i, f) == IF DecodedAt(x, i).num_bytes > 0 THEN 1 + f[i + CountStep(DecodedAt(x, i))]
                       ELSE 0
           step == [i \in 1 .. n + 1 |-> [f \in F |-> At(i, f)]]
<1>1. ASSUME NEW i \in 1 .. n + 1, DecodedAt(x, i).num_bytes > 0
      PROVE  i + CountStep(DecodedAt(x, i)) \in i + 1 .. n + 1
  <2>1. i \in Nat /\ 1 <= i /\ i <= n + 1
    OBVIOUS
  <2>2. i <= n
    <3>1. i # n + 1
      BY ONLY <1>1, <2>1, x \in Seq(Byte), n \in Nat, n = Len(x), StepInside
    <3> QED BY ONLY <2>1, <3>1, n \in Nat
  <2>3. PICK j \in Nat : Stepped(x, n, i, j)
    BY ONLY <2>1, <2>2, x \in Seq(Byte), n \in Nat, n = Len(x), StepInside
  <2> QED BY ONLY <2>1, <2>3, n \in Nat DEF Stepped
<1>2. ASSUME NEW i \in 1 .. n + 1, NEW f \in F PROVE At(i, f) \in Nat
  <2>1. CASE DecodedAt(x, i).num_bytes > 0
    <3>1. PICK j : j = i + CountStep(DecodedAt(x, i)) /\ j \in i + 1 .. n + 1
      BY ONLY <1>1, <2>1
    <3>2. j \in 1 .. n + 1
      BY ONLY <3>1, i \in 1 .. n + 1, n \in Nat
    <3>3. f[j] \in Nat
      BY ONLY <3>2, f \in F DEF F
    <3> QED BY ONLY <2>1, <3>1, <3>3 DEF At
  <2>2. CASE ~(DecodedAt(x, i).num_bytes > 0)
    BY ONLY <2>2 DEF At
  <2> QED BY ONLY <2>1, <2>2
<1>3. ASSUME NEW i \in 1 .. n + 1, NEW f \in F, NEW g \in F,
             \A j \in i + 1 .. n + 1 : f[j] = g[j]
      PROVE  At(i, f) = At(i, g)
  <2>1. CASE DecodedAt(x, i).num_bytes > 0
    <3>1. PICK j : j = i + CountStep(DecodedAt(x, i)) /\ j \in i + 1 .. n + 1
      BY ONLY <1>1, <2>1
    <3> QED BY ONLY <1>3, <2>1, <3>1 DEF At
  <2>2. CASE ~(DecodedAt(x, i).num_bytes > 0)
    BY ONLY <2>2 DEF At
  <2> QED BY ONLY <2>1, <2>2
<1> HIDE DEF At
<1>4. LooksBehind(step, n, Nat)
  <2>1. \A i \in 1 .. n + 1, f \in F : step[i][f] = At(i, f)
    OBVIOUS
  <2>2. step \in [1 .. n + 1 -> [F -> Nat]]
    BY <1>2
  <2> HIDE DEF step, F
  <2>3. \A i \in 1 .. n + 1, f \in F, g \in F :
          (\A j \in i + 1 .. n + 1 : f[j] = g[j]) => step[i][f] = step[i][g]
    BY ONLY <1>3, <2>1
  <2> QED BY ONLY <2>2, <2>3 DEF LooksBehind, F
<1>5. PICK c \in F : Descends(step, n, c, 1)
  <2> HIDE DEF step
  <2> QED BY ONLY <1>4, n \in Nat, 0 \in Nat, DescentExists DEF F
<1>6. \A i \in 1 .. n + 1 : c[i] = At(i, c)
  BY <1>5 DEF Descends
<1>7. c = [i \in 1 .. n + 1 |-> At(i, c)]
  BY ONLY <1>6, c \in F DEF F
<1> QED BY ONLY <1>7, c \in F, n = Len(x) DEF F, At, Counts, DecodedAt

\* y is the last m bytes of x, those from i on: the decoder takes the same
\* steps in both.
Shifted(x, n, y, m, i) ==
  /\ y \in Seq(Byte) /\ Len(y) = m
  /\ \A k, q, j, o \in Nat :
       1 <= k /\ k <= m + 1 /\ q = i + k - 1 =>
         /\ 1 <= q /\ q <= n + 1 /\ DecodedAt(y, k) = DecodedAt(x, q)
         /\ k <= m <=> q <= n
         /\ Stepped(y, m, k, j) /\ Stepped(x, n, q, o) => o = i + j - 1

LEMMA DecodedSame ==
  ASSUME NEW x \in Seq(Byte), NEW n \in Nat, n = Len(x), NEW i \in Nat, 1 <= i, i <= n + 1,
         NEW y, y = From(x, i), NEW m \in Nat, m = n + 1 - i
  PROVE  Shifted(x, n, y, m, i)
<1>1. y \in Seq(Byte) /\ Len(y) = m
  <2>1. Ending(Byte, x, i, m, From(x, i))
    BY FromIs
  <2> QED BY ONLY <2>1, y = From(x, i) DEF Ending
<1>2. ASSUME NEW k \in Nat, NEW q \in Nat, NEW j \in Nat, NEW o \in Nat,
             1 <= k, k <= m + 1, q = i + k - 1
      PROVE  /\ 1 <= q /\ q <= n + 1 /\ DecodedAt(y, k) = DecodedAt(x, q)
             /\ k <= m <=> q <= n
             /\ Stepped(y, m, k, j) /\ Stepped(x, n, q, o) => o = i + j - 1
  <2>1. 1 <= q /\ q <= n + 1 /\ (k <= m <=> q <= n)
    BY ONLY <1>2, m = n + 1 - i, 1 <= i, i \in Nat, n \in Nat, m \in Nat, k \in Nat, q \in Nat
  <2>2. From(From(x, i), k) = From(x, q)
    BY ONLY <1>2, <2>1, x \in Seq(Byte), n = Len(x), 1 <= i, i \in Nat, n \in Nat, k \in Nat,
            q \in Nat, FromFrom
  <2>3. DecodedAt(y, k) = DecodedAt(x, q)
    BY ONLY <2>2, y = From(x, i) DEF DecodedAt
  <2>4. ASSUME Stepped(y, m, k, j), Stepped(x, n, q, o) PROVE o = i + j - 1
    <3>1. PICK s : s = CountStep(DecodedAt(x, q)) /\ j = k + s /\ o = q + s
      BY ONLY <2>3, <2>4 DEF Stepped
    <3>2. PICK z \in Int : z = s
      <4>1. CountStep(DecodedAt(x, q)) \in Nat
        <5>1. From(x, q) \in Seq(Byte)
          <6>1. PICK l \in Nat : l = n + 1 - q
            <7>1. n + 1 - q \in Nat
              BY ONLY <2>1, n \in Nat, q \in Nat
            <7> QED BY ONLY <7>1
          <6>2. Ending(Byte, x, q, l, From(x, q))
            BY ONLY <2>1, <6>1, x \in Seq(Byte), n = Len(x), n \in Nat, q \in Nat, l \in Nat, FromIs
          <6> QED BY ONLY <6>2 DEF Ending
        <5>2. CASE From(x, q) = <<>>
          BY ONLY <5>2 DEF DecodedAt, str_decode_utf8, CountStep, Result, OK, ERROR
        <5>3. CASE From(x, q) # <<>>
          BY ONLY <5>1, <5>3, StepIs DEF DecodedAt
        <5> QED BY ONLY <5>2, <5>3
      <4> QED BY ONLY <3>1, <4>1
    <3> QED BY ONLY <1>2, <3>1, <3>2, i \in Nat, k \in Nat, q \in Nat, j \in Nat, o \in Nat
  <2> QED BY ONLY <2>1, <2>3, <2>4
<1> QED BY ONLY <1>1, <1>2 DEF Shifted

\* Two solutions agree where their texts do.
LEMMA CountsAgree ==
  ASSUME NEW x \in Seq(Byte), NEW n \in Nat, n = Len(x), NEW i \in Nat, 1 <= i, i <= n + 1,
         NEW y, y = From(x, i), NEW c, Counts(x, c), NEW d, Counts(y, d)
  PROVE  d[1] = c[i]
<1>1. PICK m \in Nat : m = n + 1 - i
  <2>1. n + 1 - i \in Nat
    OBVIOUS
  <2> QED BY ONLY <2>1
<1>2. /\ y \in Seq(Byte) /\ Len(y) = m
      /\ \A k, q, j, o \in Nat :
           /\ 1 <= k /\ k <= m + 1 /\ q = i + k - 1 =>
                /\ 1 <= q /\ q <= n + 1 /\ DecodedAt(y, k) = DecodedAt(x, q)
                /\ k <= m <=> q <= n
                /\ Stepped(y, m, k, j) /\ Stepped(x, n, q, o) => o = i + j - 1
  <2>1. Shifted(x, n, y, m, i)
    BY ONLY <1>1, x \in Seq(Byte), n \in Nat, n = Len(x), i \in Nat, 1 <= i, i <= n + 1,
            y = From(x, i), DecodedSame
  <2> QED BY ONLY <2>1 DEF Shifted
<1> DEFINE A == {k \in Nat : d[k] = c[i + k - 1]}
<1>3. m + 1 \in A
  <2>1. i + (m + 1) - 1 = n + 1 /\ m + 1 \in Nat /\ 1 <= m + 1 /\ n + 1 \in Nat /\ 1 <= n + 1
    BY ONLY <1>1, i \in Nat, n \in Nat, m \in Nat
  <2>2. d[m + 1] = 0
    BY ONLY <1>2, <2>1, m \in Nat, Counts(y, d), CountsAt
  <2>3. c[n + 1] = 0
    BY ONLY <2>1, x \in Seq(Byte), n \in Nat, n = Len(x), Counts(x, c), CountsAt
  <2> QED BY ONLY <2>1, <2>2, <2>3
<1>4. ASSUME NEW k \in Nat, 1 <= k, k <= m
      PROVE  \E j \in Nat : k < j /\ j <= m + 1 /\ (j \in A => k \in A)
  <2>1. PICK q \in Nat : q = i + k - 1 /\ k <= m + 1
    <3>1. i + k - 1 \in Nat /\ k <= m + 1
      BY ONLY <1>4, 1 <= i, i \in Nat, k \in Nat, m \in Nat
    <3> QED BY ONLY <3>1
  <2>2. 1 <= q /\ q <= n + 1 /\ q <= n
    BY ONLY <1>2, <1>4, <2>1
  <2>3. PICK j \in Nat : Stepped(y, m, k, j) /\ d[k] = 1 + d[j]
    BY ONLY <1>2, <1>4, <2>1, m \in Nat, k \in Nat, Counts(y, d), CountsAt
  <2>4. PICK o \in Nat : Stepped(x, n, q, o) /\ c[q] = 1 + c[o]
    BY ONLY <2>2, x \in Seq(Byte), n \in Nat, q \in Nat, n = Len(x), Counts(x, c), CountsAt
  <2>5. o = i + j - 1
    BY ONLY <1>2, <1>4, <2>1, <2>3, <2>4
  <2>6. k < j /\ j <= m + 1
    BY ONLY <2>3 DEF Stepped
  <2>7. j \in A => k \in A
    BY ONLY <2>1, <2>3, <2>4, <2>5, k \in Nat
  <2> QED BY ONLY <2>6, <2>7
<1> HIDE DEF A
<1>5. 1 \in A
  <2>1. 1 \in Nat /\ 1 <= 1 /\ 1 <= m + 1
    BY ONLY m \in Nat
  <2>2. \A k \in Nat : 1 <= k /\ k <= m + 1 => k \in A
    BY ONLY <1>3, <1>4, m \in Nat, Backwards
  <2> QED BY ONLY <2>1, <2>2
<1>6. i + 1 - 1 = i
  BY ONLY i \in Nat
<1> QED BY ONLY <1>5, <1>6 DEF A

\* Whatever solution the definition takes.
LEMMA CountIs ==
  ASSUME NEW x \in Seq(Byte), NEW c, Counts(x, c)
  PROVE  str_count_codepoints(x) = c[1] /\ c[1] \in Nat
<1>1. PICK n \in Nat : n = Len(x)
  BY LenProperties
<1>2. PICK d \in [1 .. n + 1 -> Nat] : Counts(x, d)
  BY ONLY <1>1, x \in Seq(Byte), CountsExist
<1>3. PICK e : Counts(x, e) /\ str_count_codepoints(x) = e[1]
  <2>1. str_count_codepoints(x) = (CHOOSE f : Counts(x, f))[1]
    BY DEF str_count_codepoints, Counts
  <2> QED BY <1>2, <2>1
<1>4. 1 \in Nat /\ 1 <= 1 /\ 1 <= n + 1 /\ 1 \in 1 .. n + 1
  BY ONLY n \in Nat
<1>5. x = From(x, 1)
  BY ONLY x \in Seq(Byte), FromEnds
<1>6. e[1] = c[1] /\ c[1] = d[1]
  BY ONLY <1>1, <1>2, <1>3, <1>4, <1>5, x \in Seq(Byte), Counts(x, c), CountsAgree
<1>7. d[1] \in Nat
  BY ONLY <1>2, <1>4
<1> QED BY ONLY <1>3, <1>6, <1>7

\* A codepoint is counted for each step.
LEMMA CountLaws ==
  ASSUME NEW x \in Seq(Byte), NEW n \in Nat, n = Len(x)
  PROVE  /\ str_count_codepoints(x) \in Nat
         /\ x = <<>> => str_count_codepoints(x) = 0
         /\ x # <<>> => \E j \in Nat :
              /\ Stepped(x, n, 1, j)
              /\ str_count_codepoints(x) = 1 + str_count_codepoints(From(x, j))
<1>1. PICK c \in [1 .. n + 1 -> Nat] : Counts(x, c)
  BY CountsExist
<1>2. str_count_codepoints(x) = c[1] /\ c[1] \in Nat
  BY <1>1, CountIs
<1>3. ASSUME x = <<>> PROVE c[1] = 0
  <2>1. n = 0
    BY <1>3, EmptySeq
  <2>2. 1 \in Nat /\ 1 <= 1 /\ 1 <= n + 1 /\ 1 = n + 1
    BY ONLY <2>1
  <2> QED BY ONLY <1>1, <2>2, x \in Seq(Byte), n \in Nat, n = Len(x), CountsAt
<1>4. ASSUME x # <<>>
      PROVE  \E j \in Nat : Stepped(x, n, 1, j) /\ c[1] = 1 + str_count_codepoints(From(x, j))
  <2>1. n # 0
    BY <1>4, EmptySeq
  <2>2. 1 \in Nat /\ 1 <= 1 /\ 1 <= n + 1 /\ 1 <= n
    BY ONLY <2>1, n \in Nat
  <2>3. PICK j \in Nat : Stepped(x, n, 1, j) /\ c[1] = 1 + c[j]
    BY ONLY <1>1, <2>2, x \in Seq(Byte), n \in Nat, n = Len(x), CountsAt
  <2>4. 1 <= j /\ j <= n + 1
    BY ONLY <2>3 DEF Stepped
  <2>5. PICK y : y = From(x, j)
    OBVIOUS
  <2>6. y \in Seq(Byte)
    <3>1. PICK l \in Nat : l = n + 1 - j
      <4>1. n + 1 - j \in Nat
        BY ONLY <2>4, n \in Nat, j \in Nat
      <4> QED BY ONLY <4>1
    <3>2. Ending(Byte, x, j, l, From(x, j))
      BY ONLY <2>4, <3>1, x \in Seq(Byte), n = Len(x), n \in Nat, j \in Nat, l \in Nat, FromIs
    <3> QED BY ONLY <2>5, <3>2 DEF Ending
  <2>7. PICK m \in Nat : m = Len(y)
    BY ONLY <2>6, LenProperties
  <2>8. PICK d \in [1 .. m + 1 -> Nat] : Counts(y, d)
    BY ONLY <2>6, <2>7, CountsExist
  <2>9. str_count_codepoints(y) = d[1]
    BY ONLY <2>6, <2>8, CountIs
  <2>10. d[1] = c[j]
    BY ONLY <1>1, <2>4, <2>5, <2>8, x \in Seq(Byte), n \in Nat, n = Len(x), j \in Nat, CountsAgree,
            SMTT(40), ZenonT(40)
  <2> QED BY ONLY <2>3, <2>5, <2>9, <2>10
<1> QED BY ONLY <1>2, <1>3, <1>4

\* The encoding at the front of a text is what the decoder accepts.
LEMMA EncodingAtFront ==
  ASSUME NEW y \in Seq(Byte), y # <<>>, NEW r, r = str_decode_utf8(y), NEW k \in 1 .. Len(y)
  PROVE  IsEncoding(SubSeq(y, 1, k)) <=> r.status = OK /\ k = CountStep(r)
<1>1. Len(y) \in Nat /\ y[1] \in Nat
  BY FourBytes
<1>2. k \in Nat /\ k <= Len(y)
  BY ONLY <1>1, k \in 1 .. Len(y)
<1>3. IsEncoding(SubSeq(y, 1, k)) <=> WellFormedAt(y, k)
  BY PrefixEncodings
<1>4. Accepts(y, r) \/ Refuses(y, r)
  BY Verdict
<1>5. CASE Accepts(y, r)
  <2>1. PICK n \in Nat : WellFormedAt(y, n) /\ r.status = OK /\ r.num_bytes = n
    BY ONLY <1>5 DEF Accepts, result_ok, Result
  <2>2. CountStep(r) = n
    BY ONLY <2>1 DEF CountStep, OK, ERROR
  <2>3. WellFormedAt(y, k) <=> k = n
    BY ONLY <1>1, <1>2, <2>1, OneLength
  <2> QED BY ONLY <1>3, <2>1, <2>2, <2>3
<1>6. CASE Refuses(y, r)
  <2>1. ~WellFormedAt(y, k)
    BY ONLY <1>2, <1>6 DEF Refuses
  <2>2. r.status # OK
    BY ONLY <1>6 DEF Refuses, result_error, result_incomplete, Result, OK, ERROR, INCOMPLETE
  <2> QED BY ONLY <1>3, <2>1, <2>2
<1> QED BY ONLY <1>4, <1>5, <1>6

LEMMA PartFrom ==
  ASSUME NEW S, NEW x \in Seq(S), NEW n \in Nat, n = Len(x), NEW i \in Nat, NEW j \in Nat,
         NEW k \in Nat, 1 <= i, i <= j, j <= n, k = j - i + 1
  PROVE  SubSeq(x, i, j) = SubSeq(From(x, i), 1, k)
<1>1. PICK m \in Nat : m = n + 1 - i /\ k <= m /\ 1 <= k /\ i <= n + 1
  <2>1. n + 1 - i \in Nat /\ k <= n + 1 - i /\ 1 <= k /\ i <= n + 1
    OBVIOUS
  <2> QED BY ONLY <2>1
<1>2. PICK y : y = From(x, i)
  OBVIOUS
<1>3. y \in Seq(S) /\ Len(y) = m /\ \A q \in Nat : 1 <= q /\ q <= m => y[q] = x[i + q - 1]
  <2>1. Ending(S, x, i, m, From(x, i))
    BY ONLY <1>1, x \in Seq(S), n = Len(x), n \in Nat, i \in Nat, m \in Nat, 1 <= i, FromIs
  <2> QED BY ONLY <1>2, <2>1 DEF Ending
<1>4. /\ SubSeq(y, 1, k) \in Seq(S) /\ Len(SubSeq(y, 1, k)) = k
      /\ \A q \in Nat : 1 <= q /\ q <= k => SubSeq(y, 1, k)[q] = y[q]
  <2>1. \A q \in 1 .. k : y[q] \in S
    <3>1. \A q \in 1 .. k : q \in 1 .. Len(y)
      BY ONLY <1>1, <1>3, k \in Nat, m \in Nat
    <3> QED BY ONLY <1>3, <3>1, ElementOfSeq
  <2>2. /\ SubSeq(y, 1, k) \in Seq(S)
        /\ Len(SubSeq(y, 1, k)) = IF 1 <= k THEN k - 1 + 1 ELSE 0
        /\ \A q \in 1 .. k - 1 + 1 : SubSeq(y, 1, k)[q] = y[1 + q - 1]
    BY ONLY <2>1, k \in Nat, SubSeqProperties
  <2>3. \A q \in Nat : 1 <= q /\ q <= k => q \in 1 .. k - 1 + 1 /\ 1 + q - 1 = q
    BY ONLY k \in Nat
  <2>4. (IF 1 <= k THEN k - 1 + 1 ELSE 0) = k
    BY ONLY <1>1, k \in Nat
  <2> QED BY ONLY <2>2, <2>3, <2>4
<1>5. /\ SubSeq(x, i, j) \in Seq(S) /\ Len(SubSeq(x, i, j)) = k
      /\ \A q \in Nat : 1 <= q /\ q <= k => SubSeq(x, i, j)[q] = x[i + q - 1]
  <2>1. \A q \in i .. j : x[q] \in S
    <3>1. \A q \in i .. j : q \in 1 .. Len(x)
      BY ONLY n = Len(x), n \in Nat, i \in Nat, j \in Nat, 1 <= i, j <= n
    <3> QED BY ONLY x \in Seq(S), <3>1, ElementOfSeq
  <2>2. /\ SubSeq(x, i, j) \in Seq(S)
        /\ Len(SubSeq(x, i, j)) = IF i <= j THEN j - i + 1 ELSE 0
        /\ \A q \in 1 .. j - i + 1 : SubSeq(x, i, j)[q] = x[i + q - 1]
    BY ONLY <2>1, i \in Nat, j \in Nat, SubSeqProperties
  <2>3. \A q \in Nat : 1 <= q /\ q <= k => q \in 1 .. j - i + 1
    BY ONLY k \in Nat, i \in Nat, j \in Nat, k = j - i + 1
  <2> QED BY ONLY <2>2, <2>3, k = j - i + 1, i <= j
<1>6. ASSUME NEW q \in Nat, 1 <= q, q <= k PROVE SubSeq(x, i, j)[q] = SubSeq(y, 1, k)[q]
  <2>1. q <= m
    BY ONLY <1>1, <1>6, q \in Nat, k \in Nat, m \in Nat
  <2> QED BY ONLY <1>3, <1>4, <1>5, <1>6, <2>1
<1>7. SubSeq(x, i, j) = SubSeq(y, 1, k)
  BY ONLY <1>4, <1>5, <1>6, k \in Nat, SameSequence
<1> QED BY ONLY <1>2, <1>7

\* The function valid of IsValid.
Valids(x, v) ==
  v = [i \in 1 .. Len(x) + 1 |->
        i > Len(x) \/ \E j \in i .. Len(x) : IsEncoding(SubSeq(x, i, j)) /\ v[j + 1]]

LEMMA ValidsAt ==
  ASSUME NEW x \in Seq(Byte), NEW n \in Nat, n = Len(x), NEW v, Valids(x, v),
         NEW i \in Nat, 1 <= i, i <= n + 1
  PROVE  /\ v[i] \in BOOLEAN
         /\ i <= n => \E j \in Nat :
              Stepped(x, n, i, j) /\ (v[i] = TRUE <=> DecodedAt(x, i).status = OK /\ v[j] = TRUE)
<1>1. v[i] = (i > n \/ \E j \in i .. n : IsEncoding(SubSeq(x, i, j)) /\ v[j + 1])
  <2>1. i \in 1 .. Len(x) + 1
    OBVIOUS
  <2> QED BY ONLY <2>1, n = Len(x), Valids(x, v) DEF Valids
<1>2. v[i] \in BOOLEAN
  BY ONLY <1>1
<1>3. ASSUME i <= n
      PROVE  \E j \in Nat :
               Stepped(x, n, i, j) /\ (v[i] = TRUE <=> DecodedAt(x, i).status = OK /\ v[j] = TRUE)
  <2>1. PICK o \in Nat : Stepped(x, n, i, o)
    BY ONLY <1>3, x \in Seq(Byte), n \in Nat, n = Len(x), i \in Nat, 1 <= i, i <= n + 1, StepInside
  <2>2. PICK r : r = DecodedAt(x, i)
    OBVIOUS
  <2>3. PICK m \in Nat : m = n + 1 - i /\ m # 0
    <3>1. n + 1 - i \in Nat /\ n + 1 - i # 0
      BY ONLY <1>3, n \in Nat, i \in Nat
    <3> QED BY ONLY <3>1
  <2>4. PICK y : y = From(x, i)
    OBVIOUS
  <2>5. y \in Seq(Byte) /\ Len(y) = m /\ y # <<>> /\ r = str_decode_utf8(y)
    <3>1. Ending(Byte, x, i, m, From(x, i))
      BY ONLY <2>3, x \in Seq(Byte), n = Len(x), n \in Nat, i \in Nat, m \in Nat, 1 <= i,
              i <= n + 1, FromIs
    <3>2. y \in Seq(Byte) /\ Len(y) = m
      BY ONLY <2>4, <3>1 DEF Ending
    <3> QED BY ONLY <2>2, <2>3, <2>4, <3>2, EmptySeq DEF DecodedAt
  <2>6. ASSUME NEW j \in Nat, i <= j, j <= n
        PROVE  IsEncoding(SubSeq(x, i, j)) <=> r.status = OK /\ j + 1 = o
    <3>1. PICK k \in Nat : k = j - i + 1 /\ 1 <= k /\ k <= m
      <4>1. j - i + 1 \in Nat /\ 1 <= j - i + 1 /\ j - i + 1 <= m
        BY ONLY <2>3, <2>6, j \in Nat, n \in Nat, i \in Nat
      <4> QED BY ONLY <4>1
    <3>2. SubSeq(x, i, j) = SubSeq(y, 1, k)
      BY ONLY <2>4, <2>6, <3>1, x \in Seq(Byte), n \in Nat, n = Len(x), i \in Nat, j \in Nat,
              k \in Nat, 1 <= i, PartFrom
    <3>3. k \in 1 .. Len(y)
      BY ONLY <2>5, <3>1, k \in Nat, m \in Nat
    <3>4. IsEncoding(SubSeq(y, 1, k)) <=> r.status = OK /\ k = CountStep(r)
      BY ONLY <2>5, <3>3, EncodingAtFront
    <3>5. PICK s : s = CountStep(r)
      OBVIOUS
    <3>6. o = i + s /\ s \in Nat
      <4>1. s \in Nat
        BY ONLY <2>5, <3>5, StepIs
      <4> QED BY ONLY <2>1, <2>2, <3>5, <4>1 DEF Stepped
    <3>7. k = s <=> j + 1 = o
      BY ONLY <3>1, <3>6, i \in Nat, j \in Nat, k \in Nat
    <3> QED BY ONLY <3>2, <3>4, <3>5, <3>7
  <2>7. ASSUME v[i] = TRUE PROVE r.status = OK /\ v[o] = TRUE
    <3>1. ~(i > n)
      BY ONLY <1>3, i \in Nat, n \in Nat
    <3>2. PICK j \in i .. n : IsEncoding(SubSeq(x, i, j)) /\ v[j + 1]
      BY ONLY <1>1, <2>7, <3>1
    <3>3. j \in Nat /\ i <= j /\ j <= n
      BY ONLY i \in Nat, n \in Nat, j \in i .. n
    <3>4. r.status = OK /\ j + 1 = o
      BY ONLY <2>6, <3>2, <3>3
    <3>5. v[o] \in BOOLEAN
      <4>1. o \in 1 .. Len(x) + 1
        BY ONLY <2>1, n = Len(x), n \in Nat, i \in Nat, 1 <= i DEF Stepped
      <4>2. v[o] = (o > Len(x) \/ \E q \in o .. Len(x) : IsEncoding(SubSeq(x, o, q)) /\ v[q + 1])
        BY ONLY <4>1, Valids(x, v) DEF Valids
      <4> QED BY ONLY <4>2
    <3> QED BY ONLY <3>2, <3>4, <3>5
  <2>8. ASSUME r.status = OK, v[o] = TRUE PROVE v[i] = TRUE
    <3>1. PICK j \in Nat : j + 1 = o /\ i <= j /\ j <= n /\ j \in i .. n
      <4>1. o - 1 \in Nat /\ (o - 1) + 1 = o /\ i <= o - 1 /\ o - 1 <= n /\ o - 1 \in i .. n
        BY ONLY <2>1, o \in Nat, i \in Nat, n \in Nat, 1 <= i DEF Stepped
      <4> QED BY ONLY <4>1
    <3>2. IsEncoding(SubSeq(x, i, j)) /\ v[j + 1]
      BY ONLY <2>6, <2>8, <3>1
    <3> QED BY ONLY <1>1, <3>1, <3>2
  <2> QED BY ONLY <2>1, <2>2, <2>7, <2>8
<1> QED BY ONLY <1>2, <1>3

LEMMA ValidsEnd ==
  ASSUME NEW x \in Seq(Byte), NEW n \in Nat, n = Len(x), NEW v, Valids(x, v)
  PROVE  v[n + 1] = TRUE
<1>1. PICK i \in Nat : i = n + 1 /\ 1 <= i /\ i <= n + 1
  <2>1. n + 1 \in Nat /\ 1 <= n + 1 /\ n + 1 <= n + 1
    BY ONLY n \in Nat
  <2> QED BY ONLY <2>1
<1>2. v[i] = (i > n \/ \E j \in i .. n : IsEncoding(SubSeq(x, i, j)) /\ v[j + 1])
  <2>1. i \in 1 .. Len(x) + 1
    BY ONLY <1>1, n = Len(x), n \in Nat, i \in Nat
  <2> QED BY ONLY <2>1, n = Len(x), Valids(x, v) DEF Valids
<1>3. i > n
  BY ONLY <1>1, n \in Nat
<1> QED BY ONLY <1>1, <1>2, <1>3

LEMMA ValidsExist ==
  ASSUME NEW x \in Seq(Byte), NEW n \in Nat, n = Len(x)
  PROVE  \E v \in [1 .. n + 1 -> BOOLEAN] : Valids(x, v)
<1> DEFINE F == [1 .. n + 1 -> BOOLEAN]
           At(i, f) == i > n \/ \E j \in i .. n : IsEncoding(SubSeq(x, i, j)) /\ f[j + 1]
           step == [i \in 1 .. n + 1 |-> [f \in F |-> At(i, f)]]
<1>1. ASSUME NEW i, NEW f PROVE At(i, f) \in BOOLEAN
  OBVIOUS
<1>2. ASSUME NEW i \in 1 .. n + 1, NEW f \in F, NEW g \in F,
             \A j \in i + 1 .. n + 1 : f[j] = g[j]
      PROVE  At(i, f) = At(i, g)
  <2>1. ASSUME NEW j \in i .. n PROVE f[j + 1] = g[j + 1]
    <3>1. j + 1 \in i + 1 .. n + 1
      BY ONLY i \in 1 .. n + 1, j \in i .. n, n \in Nat
    <3> QED BY ONLY <1>2, <3>1
  <2>2. (\E j \in i .. n : IsEncoding(SubSeq(x, i, j)) /\ f[j + 1])
          <=> \E j \in i .. n : IsEncoding(SubSeq(x, i, j)) /\ g[j + 1]
    BY ONLY <2>1
  <2>3. At(i, f) <=> At(i, g)
    BY ONLY <2>2 DEF At
  <2> QED BY ONLY <1>1, <2>3
<1> HIDE DEF At
<1>3. LooksBehind(step, n, BOOLEAN)
  <2>1. \A i \in 1 .. n + 1, f \in F : step[i][f] = At(i, f)
    OBVIOUS
  <2>2. step \in [1 .. n + 1 -> [F -> BOOLEAN]]
    BY <1>1
  <2> HIDE DEF step, F
  <2>3. \A i \in 1 .. n + 1, f \in F, g \in F :
          (\A j \in i + 1 .. n + 1 : f[j] = g[j]) => step[i][f] = step[i][g]
    BY ONLY <1>2, <2>1
  <2> QED BY ONLY <2>2, <2>3 DEF LooksBehind, F
<1>4. PICK v \in F : Descends(step, n, v, 1)
  <2> HIDE DEF step
  <2> QED BY ONLY <1>3, n \in Nat, TRUE \in BOOLEAN, DescentExists DEF F
<1>5. \A i \in 1 .. n + 1 : v[i] = At(i, v)
  BY <1>4 DEF Descends
<1>6. v = [i \in 1 .. n + 1 |-> At(i, v)]
  BY ONLY <1>5, v \in F DEF F
<1> QED BY ONLY <1>6, v \in F, n = Len(x) DEF F, At, Valids

LEMMA ValidsAgree ==
  ASSUME NEW x \in Seq(Byte), NEW n \in Nat, n = Len(x), NEW i \in Nat, 1 <= i, i <= n + 1,
         NEW y, y = From(x, i), NEW v, Valids(x, v), NEW w, Valids(y, w)
  PROVE  w[1] = TRUE <=> v[i] = TRUE
<1>1. PICK m \in Nat : m = n + 1 - i
  <2>1. n + 1 - i \in Nat
    OBVIOUS
  <2> QED BY ONLY <2>1
<1>2. /\ y \in Seq(Byte) /\ Len(y) = m
      /\ \A k, q, j, o \in Nat :
           1 <= k /\ k <= m + 1 /\ q = i + k - 1 =>
             /\ 1 <= q /\ q <= n + 1 /\ DecodedAt(y, k) = DecodedAt(x, q)
             /\ k <= m <=> q <= n
             /\ Stepped(y, m, k, j) /\ Stepped(x, n, q, o) => o = i + j - 1
  <2>1. Shifted(x, n, y, m, i)
    BY ONLY <1>1, x \in Seq(Byte), n \in Nat, n = Len(x), i \in Nat, 1 <= i, i <= n + 1,
            y = From(x, i), DecodedSame
  <2> QED BY ONLY <2>1 DEF Shifted
<1> DEFINE A == {k \in Nat : w[k] = TRUE <=> v[i + k - 1] = TRUE}
<1>3. m + 1 \in A
  <2>1. i + (m + 1) - 1 = n + 1 /\ m + 1 \in Nat /\ 1 <= m + 1 /\ n + 1 \in Nat /\ 1 <= n + 1
    BY ONLY <1>1, i \in Nat, n \in Nat, m \in Nat
  <2>2. w[m + 1] = TRUE
    BY ONLY <1>2, m \in Nat, Valids(y, w), ValidsEnd
  <2>3. v[n + 1] = TRUE
    BY ONLY x \in Seq(Byte), n \in Nat, n = Len(x), Valids(x, v), ValidsEnd
  <2> QED BY ONLY <2>1, <2>2, <2>3
<1>4. ASSUME NEW k \in Nat, 1 <= k, k <= m
      PROVE  \E j \in Nat : k < j /\ j <= m + 1 /\ (j \in A => k \in A)
  <2>1. PICK q \in Nat : q = i + k - 1 /\ k <= m + 1
    <3>1. i + k - 1 \in Nat /\ k <= m + 1
      BY ONLY <1>4, 1 <= i, i \in Nat, k \in Nat, m \in Nat
    <3> QED BY ONLY <3>1
  <2>2. 1 <= q /\ q <= n + 1 /\ q <= n /\ DecodedAt(y, k) = DecodedAt(x, q)
    BY ONLY <1>2, <1>4, <2>1
  <2>3. PICK j \in Nat : /\ Stepped(y, m, k, j)
                         /\ w[k] = TRUE <=> DecodedAt(y, k).status = OK /\ w[j] = TRUE
    BY ONLY <1>2, <1>4, <2>1, m \in Nat, k \in Nat, Valids(y, w), ValidsAt
  <2>4. PICK o \in Nat : /\ Stepped(x, n, q, o)
                         /\ v[q] = TRUE <=> DecodedAt(x, q).status = OK /\ v[o] = TRUE
    BY ONLY <2>2, x \in Seq(Byte), n \in Nat, q \in Nat, n = Len(x), Valids(x, v), ValidsAt
  <2>5. o = i + j - 1
    BY ONLY <1>2, <1>4, <2>1, <2>3, <2>4
  <2>6. k < j /\ j <= m + 1
    BY ONLY <2>3 DEF Stepped
  <2>7. j \in A => k \in A
    BY ONLY <2>1, <2>2, <2>3, <2>4, <2>5, k \in Nat
  <2> QED BY ONLY <2>6, <2>7
<1> HIDE DEF A
<1>5. 1 \in A
  <2>1. 1 \in Nat /\ 1 <= 1 /\ 1 <= m + 1
    BY ONLY m \in Nat
  <2>2. \A k \in Nat : 1 <= k /\ k <= m + 1 => k \in A
    BY ONLY <1>3, <1>4, m \in Nat, Backwards
  <2> QED BY ONLY <2>1, <2>2
<1>6. i + 1 - 1 = i
  BY ONLY i \in Nat
<1> QED BY ONLY <1>5, <1>6 DEF A

LEMMA ValidIs ==
  ASSUME NEW x \in Seq(Byte), NEW v, Valids(x, v)
  PROVE  IsValid(x) <=> v[1] = TRUE
<1>1. PICK n \in Nat : n = Len(x)
  BY LenProperties
<1>2. 1 \in Nat /\ 1 <= 1 /\ 1 <= n + 1
  BY ONLY n \in Nat
<1>3. PICK w : Valids(x, w) /\ (IsValid(x) <=> w[1])
  <2>1. IsValid(x) <=> (CHOOSE f : Valids(x, f))[1]
    BY DEF IsValid, Valids
  <2> QED BY <2>1
<1>4. w[1] \in BOOLEAN
  BY ONLY <1>1, <1>2, <1>3, x \in Seq(Byte), ValidsAt
<1>5. x = From(x, 1)
  BY ONLY x \in Seq(Byte), FromEnds
<1>6. w[1] = TRUE <=> v[1] = TRUE
  BY ONLY <1>1, <1>2, <1>3, <1>5, x \in Seq(Byte), Valids(x, v), ValidsAgree
<1> QED BY ONLY <1>3, <1>4, <1>6

\* A text is valid if the decoder accepts all of it.
LEMMA ValidLaws ==
  ASSUME NEW x \in Seq(Byte), NEW n \in Nat, n = Len(x)
  PROVE  /\ x = <<>> => IsValid(x)
         /\ x # <<>> => \E j \in Nat :
              /\ Stepped(x, n, 1, j)
              /\ IsValid(x) <=> str_decode_utf8(x).status = OK /\ IsValid(From(x, j))
<1>1. PICK v \in [1 .. n + 1 -> BOOLEAN] : Valids(x, v)
  BY ValidsExist
<1>2. IsValid(x) <=> v[1] = TRUE
  BY <1>1, ValidIs
<1>3. ASSUME x = <<>> PROVE v[1] = TRUE
  <2>1. n = 0
    BY <1>3, EmptySeq
  <2>2. v[n + 1] = TRUE
    BY ONLY <1>1, x \in Seq(Byte), n \in Nat, n = Len(x), ValidsEnd
  <2> QED BY ONLY <2>1, <2>2
<1>4. ASSUME x # <<>>
      PROVE  \E j \in Nat :
               /\ Stepped(x, n, 1, j)
               /\ v[1] = TRUE <=> str_decode_utf8(x).status = OK /\ IsValid(From(x, j))
  <2>1. n # 0
    BY <1>4, EmptySeq
  <2>2. 1 \in Nat /\ 1 <= 1 /\ 1 <= n + 1 /\ 1 <= n
    BY ONLY <2>1, n \in Nat
  <2>3. PICK j \in Nat : /\ Stepped(x, n, 1, j)
                         /\ v[1] = TRUE <=> DecodedAt(x, 1).status = OK /\ v[j] = TRUE
    BY ONLY <1>1, <2>2, x \in Seq(Byte), n \in Nat, n = Len(x), ValidsAt
  <2>4. 1 <= j /\ j <= n + 1
    BY ONLY <2>3 DEF Stepped
  <2>5. PICK y : y = From(x, j)
    OBVIOUS
  <2>6. y \in Seq(Byte)
    <3>1. PICK l \in Nat : l = n + 1 - j
      <4>1. n + 1 - j \in Nat
        BY ONLY <2>4, n \in Nat, j \in Nat
      <4> QED BY ONLY <4>1
    <3>2. Ending(Byte, x, j, l, From(x, j))
      BY ONLY <2>4, <3>1, x \in Seq(Byte), n = Len(x), n \in Nat, j \in Nat, l \in Nat, FromIs
    <3> QED BY ONLY <2>5, <3>2 DEF Ending
  <2>7. PICK m \in Nat : m = Len(y)
    BY ONLY <2>6, LenProperties
  <2>8. PICK w \in [1 .. m + 1 -> BOOLEAN] : Valids(y, w)
    BY ONLY <2>6, <2>7, ValidsExist
  <2>9. IsValid(y) <=> w[1] = TRUE
    BY ONLY <2>6, <2>8, ValidIs
  <2>10. w[1] = TRUE <=> v[j] = TRUE
    BY ONLY <1>1, <2>4, <2>5, <2>8, x \in Seq(Byte), n \in Nat, n = Len(x), j \in Nat, ValidsAgree
  <2>11. DecodedAt(x, 1) = str_decode_utf8(x)
    BY ONLY x \in Seq(Byte), FromEnds DEF DecodedAt
  <2> QED BY ONLY <2>3, <2>5, <2>9, <2>10, <2>11
<1> QED BY ONLY <1>2, <1>3, <1>4

\* The decoder's first step in a text: over an encoding, which is counted, or
\* over what is counted although it is none.
Steps(y, r, k, z) ==
  /\ k \in Nat /\ k = CountStep(r) /\ 1 <= k /\ k <= Len(y)
  /\ z \in Seq(Byte) /\ z = From(y, k + 1) /\ Len(z) < Len(y)
  /\ str_count_codepoints(y) = 1 + str_count_codepoints(z)
  /\ IsValid(y) <=> r.status = OK /\ IsValid(z)

LEMMA FirstStep ==
  ASSUME NEW y \in Seq(Byte), y # <<>>, NEW r, r = str_decode_utf8(y)
  PROVE  \E k, z : Steps(y, r, k, z)
<1>1. PICK n \in Nat : n = Len(y)
  BY LenProperties
<1>2. DecodedAt(y, 1) = r
  BY ONLY y \in Seq(Byte), r = str_decode_utf8(y), FromEnds DEF DecodedAt
<1>3. PICK j \in Nat : /\ Stepped(y, n, 1, j)
                       /\ str_count_codepoints(y) = 1 + str_count_codepoints(From(y, j))
  BY ONLY <1>1, y \in Seq(Byte), y # <<>>, CountLaws
<1>4. PICK o \in Nat : /\ Stepped(y, n, 1, o)
                       /\ IsValid(y) <=> r.status = OK /\ IsValid(From(y, o))
  BY ONLY <1>1, y \in Seq(Byte), y # <<>>, r = str_decode_utf8(y), ValidLaws
<1>5. j = o /\ 1 < j /\ j <= n + 1 /\ j = 1 + CountStep(r)
  BY ONLY <1>2, <1>3, <1>4 DEF Stepped
<1>6. PICK k \in Nat : k = CountStep(r) /\ 1 <= k /\ k <= n
  <2>1. CountStep(r) \in Nat /\ 1 <= CountStep(r) /\ CountStep(r) <= Len(y)
    BY StepIs
  <2> QED BY ONLY <1>1, <2>1
<1>7. k + 1 = j
  BY ONLY <1>5, <1>6, j \in Nat, k \in Nat
<1>8. PICK l \in Nat : l = n + 1 - j /\ l < n
  <2>1. n + 1 - j \in Nat /\ n + 1 - j < n
    BY ONLY <1>5, n \in Nat, j \in Nat
  <2> QED BY ONLY <2>1
<1>9. PICK z : z = From(y, j)
  OBVIOUS
<1>10. z \in Seq(Byte) /\ Len(z) = l
  <2>1. 1 <= j
    BY ONLY <1>5, j \in Nat
  <2>2. Ending(Byte, y, j, l, From(y, j))
    BY ONLY <1>1, <1>5, <1>8, <2>1, y \in Seq(Byte), n \in Nat, j \in Nat, l \in Nat, FromIs
  <2> QED BY ONLY <1>9, <2>2 DEF Ending
<1>11. Steps(y, r, k, z)
  BY ONLY <1>1, <1>3, <1>4, <1>5, <1>6, <1>7, <1>8, <1>9, <1>10, k \in Nat DEF Steps
<1> QED BY ONLY <1>11

LEMMA EmptyText == IsValid(<<>>) /\ str_count_codepoints(<<>>) = 0
<1>1. <<>> \in Seq(Byte) /\ Len(<<>>) = 0
  BY EmptySeq
<1> QED BY ONLY <1>1, CountLaws, ValidLaws

LEMMA FrontOfJoined ==
  ASSUME NEW S, NEW u \in Seq(S), NEW v \in Seq(S), NEW k \in Nat, k <= Len(u)
  PROVE  SubSeq(u \o v, 1, k) = SubSeq(u, 1, k)
<1>1. PICK n \in Nat : n = Len(u) /\ k <= n
  BY LenProperties
<1>2. PICK m \in Nat : m = Len(v)
  BY LenProperties
<1>3. PICK w : w = u \o v
  OBVIOUS
<1>4. /\ w \in Seq(S) /\ Len(w) = n + m
      /\ \A q \in 1 .. n + m : w[q] = IF q <= n THEN u[q] ELSE v[q - n]
  BY ONLY <1>1, <1>2, <1>3, u \in Seq(S), v \in Seq(S), ConcatProperties
<1>5. ASSUME NEW y \in Seq(S), k <= Len(y)
      PROVE  /\ SubSeq(y, 1, k) \in Seq(S) /\ Len(SubSeq(y, 1, k)) = k
             /\ \A q \in Nat : 1 <= q /\ q <= k => SubSeq(y, 1, k)[q] = y[q]
  <2>1. \A q \in 1 .. k : y[q] \in S
    <3>1. Len(y) \in Nat
      BY ONLY y \in Seq(S), LenProperties
    <3>2. \A q \in 1 .. k : q \in 1 .. Len(y)
      BY ONLY <1>5, <3>1, k \in Nat
    <3> QED BY ONLY <3>2, y \in Seq(S), ElementOfSeq
  <2>2. /\ SubSeq(y, 1, k) \in Seq(S)
        /\ Len(SubSeq(y, 1, k)) = IF 1 <= k THEN k - 1 + 1 ELSE 0
        /\ \A q \in 1 .. k - 1 + 1 : SubSeq(y, 1, k)[q] = y[1 + q - 1]
    BY ONLY <2>1, k \in Nat, SubSeqProperties
  <2>3. \A q \in Nat : 1 <= q /\ q <= k => q \in 1 .. k - 1 + 1 /\ 1 + q - 1 = q
    BY ONLY k \in Nat
  <2>4. (IF 1 <= k THEN k - 1 + 1 ELSE 0) = k
    BY ONLY k \in Nat
  <2> QED BY ONLY <2>2, <2>3, <2>4
<1>6. k <= Len(w)
  BY ONLY <1>1, <1>4, n \in Nat, m \in Nat, k \in Nat
<1>7. ASSUME NEW q \in Nat, 1 <= q, q <= k PROVE SubSeq(w, 1, k)[q] = SubSeq(u, 1, k)[q]
  <2>1. q \in 1 .. n + m /\ q <= n
    BY ONLY <1>1, <1>7, n \in Nat, m \in Nat, k \in Nat, q \in Nat
  <2>2. SubSeq(w, 1, k)[q] = w[q] /\ SubSeq(u, 1, k)[q] = u[q]
    BY ONLY <1>1, <1>4, <1>5, <1>6, <1>7, u \in Seq(S)
  <2> QED BY ONLY <1>4, <2>1, <2>2
<1>8. SubSeq(w, 1, k) = SubSeq(u, 1, k)
  <2>1. /\ SubSeq(w, 1, k) \in Seq(S) /\ Len(SubSeq(w, 1, k)) = k
        /\ SubSeq(u, 1, k) \in Seq(S) /\ Len(SubSeq(u, 1, k)) = k
    BY ONLY <1>1, <1>4, <1>5, <1>6, u \in Seq(S)
  <2> QED BY ONLY <1>7, <2>1, k \in Nat, SameSequence
<1> QED BY ONLY <1>3, <1>8

\* Nothing behind an encoding changes how it is decoded: behind a valid text
\* the decoder starts afresh.
ValidInFront(u, v) ==
  /\ IsValid(u \o v) <=> IsValid(v)
  /\ str_count_codepoints(u \o v) = str_count_codepoints(u) + str_count_codepoints(v)

LEMMA ValidJoins ==
  ASSUME NEW u \in Seq(Byte), NEW v \in Seq(Byte), IsValid(u)
  PROVE  ValidInFront(u, v)
<1> DEFINE Bad == {n \in Nat : \E s \in Seq(Byte) : Len(s) = n /\ IsValid(s) /\ ~ValidInFront(s, v)}
<1>1. ASSUME Bad # {} PROVE FALSE
  <2>1. PICK n \in Bad : \A o \in Bad : n <= o
    <3>1. Bad \in SUBSET Nat
      OBVIOUS
    <3> HIDE DEF Bad
    <3> QED BY ONLY <1>1, <3>1, LeastNumber
  <2>2. n \in Nat
    OBVIOUS
  <2>3. PICK s \in Seq(Byte) : Len(s) = n /\ IsValid(s) /\ ~ValidInFront(s, v)
    OBVIOUS
  <2>4. s # <<>>
    <3> SUFFICES ASSUME s = <<>> PROVE FALSE
      OBVIOUS
    <3>1. s \o v = v
      BY ONLY s = <<>>, v \in Seq(Byte)
    <3>2. str_count_codepoints(v) \in Nat
      <4>1. Len(v) \in Nat
        BY ONLY v \in Seq(Byte), LenProperties
      <4> QED BY ONLY <4>1, v \in Seq(Byte), CountLaws
    <3>3. str_count_codepoints(s) = 0
      BY ONLY s = <<>>, EmptyText
    <3> QED BY ONLY <2>3, <3>1, <3>2, <3>3 DEF ValidInFront
  <2>5. PICK r : r = str_decode_utf8(s)
    OBVIOUS
  <2>6. PICK k, z : Steps(s, r, k, z)
    BY ONLY <2>4, <2>5, s \in Seq(Byte), FirstStep
  <2>7. /\ k \in Nat /\ k = CountStep(r) /\ 1 <= k /\ k <= Len(s)
        /\ z \in Seq(Byte) /\ z = From(s, k + 1) /\ Len(z) < Len(s)
        /\ str_count_codepoints(s) = 1 + str_count_codepoints(z)
        /\ IsValid(s) <=> r.status = OK /\ IsValid(z)
    BY ONLY <2>6 DEF Steps
  <2>8. r.status = OK /\ IsValid(z)
    BY ONLY <2>3, <2>7
  <2>9. ValidInFront(z, v)
    <3>1. Len(z) \in Nat
      BY ONLY <2>7, LenProperties
    <3>2. ~(n <= Len(z))
      BY ONLY <2>2, <2>3, <2>7, <3>1
    <3>3. Len(z) \notin Bad
      BY <2>1, <3>2
    <3> QED BY <2>7, <2>8, <3>1, <3>3
  <2>10. PICK w : w = s \o v
    OBVIOUS
  <2>11. w \in Seq(Byte) /\ k <= Len(w) /\ w # <<>>
    <3>1. w \in Seq(Byte) /\ Len(w) = Len(s) + Len(v)
      BY ONLY <2>10, s \in Seq(Byte), v \in Seq(Byte), ConcatProperties
    <3>2. Len(v) \in Nat
      BY ONLY v \in Seq(Byte), LenProperties
    <3>3. Len(w) # 0 /\ k <= Len(w)
      BY ONLY <2>2, <2>3, <2>7, <3>1, <3>2
    <3> QED BY ONLY <3>1, <3>3, EmptySeq
  <2>12. PICK q : q = str_decode_utf8(w)
    OBVIOUS
  <2>13. q.status = OK /\ k = CountStep(q)
    <3>1. k \in 1 .. Len(s) /\ k \in 1 .. Len(w)
      <4>1. Len(w) \in Nat
        BY ONLY <2>11, LenProperties
      <4> QED BY ONLY <2>2, <2>3, <2>7, <2>11, <4>1
    <3>2. IsEncoding(SubSeq(s, 1, k))
      BY ONLY <2>4, <2>5, <2>7, <2>8, <3>1, s \in Seq(Byte), EncodingAtFront
    <3>3. SubSeq(w, 1, k) = SubSeq(s, 1, k)
      BY ONLY <2>7, <2>10, s \in Seq(Byte), v \in Seq(Byte), FrontOfJoined
    <3>4. IsEncoding(SubSeq(w, 1, k))
      BY ONLY <3>2, <3>3
    <3> QED BY ONLY <2>11, <2>12, <3>1, <3>4, EncodingAtFront
  <2>14. PICK o, y : Steps(w, q, o, y)
    BY ONLY <2>11, <2>12, FirstStep
  <2>15. /\ o = CountStep(q) /\ y = From(w, o + 1)
         /\ str_count_codepoints(w) = 1 + str_count_codepoints(y)
         /\ IsValid(w) <=> q.status = OK /\ IsValid(y)
    BY ONLY <2>14 DEF Steps
  <2>16. y = z \o v
    <3>1. PICK j \in Nat : j = k + 1 /\ 1 <= j /\ j <= n + 1
      <4>1. k + 1 \in Nat /\ 1 <= k + 1 /\ k + 1 <= n + 1
        BY ONLY <2>2, <2>3, <2>7
      <4> QED BY ONLY <4>1
    <3>2. From(s \o v, j) = From(s, j) \o v
      BY ONLY <2>2, <2>3, <3>1, s \in Seq(Byte), v \in Seq(Byte), j \in Nat, FromJoined
    <3> QED BY ONLY <2>7, <2>10, <2>13, <2>15, <3>1, <3>2
  <2>17. ValidInFront(s, v)
    <3>1. IsValid(w) <=> IsValid(v)
      BY ONLY <2>9, <2>13, <2>15, <2>16 DEF ValidInFront
    <3>2. str_count_codepoints(z) \in Nat /\ str_count_codepoints(v) \in Nat
      <4>1. Len(z) \in Nat /\ Len(v) \in Nat
        BY ONLY <2>7, v \in Seq(Byte), LenProperties
      <4> QED BY ONLY <4>1, <2>7, v \in Seq(Byte), CountLaws
    <3>3. str_count_codepoints(w) = 1 + (str_count_codepoints(z) + str_count_codepoints(v))
      BY ONLY <2>9, <2>15, <2>16 DEF ValidInFront
    <3>4. str_count_codepoints(w) = str_count_codepoints(s) + str_count_codepoints(v)
      BY ONLY <2>7, <3>2, <3>3
    <3> QED BY ONLY <2>10, <3>1, <3>4 DEF ValidInFront
  <2> QED BY ONLY <2>3, <2>17
<1>2. Len(u) \in Nat /\ Len(u) \notin Bad
  BY <1>1, LenProperties
<1> QED BY <1>2

\* A single encoding, and the one that str_to_valid_utf8 puts in.
LEMMA OneEncoding ==
  ASSUME NEW e \in Seq(Byte), IsEncoding(e)
  PROVE  IsValid(e) /\ str_count_codepoints(e) = 1
<1>1. PICK n \in Nat : n = Len(e) /\ 1 <= n /\ n \in 1 .. Len(e) /\ e # <<>>
  <2>1. Len(e) \in Nat /\ 1 <= Len(e) /\ Len(e) \in 1 .. Len(e)
    BY LenProperties DEF IsEncoding
  <2> QED BY ONLY <2>1, EmptySeq
<1>2. SubSeq(e, 1, n) = e
  BY ONLY <1>1, e \in Seq(Byte)
<1>3. PICK r : r = str_decode_utf8(e)
  OBVIOUS
<1>4. r.status = OK /\ n = CountStep(r)
  BY ONLY <1>1, <1>2, <1>3, e \in Seq(Byte), IsEncoding(e), EncodingAtFront
<1>5. PICK k, z : Steps(e, r, k, z)
  BY ONLY <1>1, <1>3, e \in Seq(Byte), FirstStep
<1>6. z = From(e, Len(e) + 1)
  BY ONLY <1>1, <1>4, <1>5 DEF Steps
<1>7. z = <<>>
  BY ONLY <1>6, e \in Seq(Byte), FromEnds
<1> QED BY ONLY <1>4, <1>5, <1>7, EmptyText DEF Steps

LEMMA ReplacementCharacter ==
  /\ <<239, 191, 189>> \in Seq(Byte)
  /\ IsValid(<<239, 191, 189>>) /\ str_count_codepoints(<<239, 191, 189>>) = 1
<1>1. PICK e : e = <<239, 191, 189>>
  OBVIOUS
<1>2. e \in Seq(Byte) /\ Len(e) = 3 /\ e[1] = 239 /\ e[2] = 191 /\ e[3] = 189
  BY ONLY <1>1 DEF Byte
<1>3. WellFormed(e)
  BY ONLY <1>2 DEF WellFormed, Second, Cont
<1>4. IsEncoding(e)
  BY ONLY <1>2, <1>3, EncodingsAre
<1>5. IsValid(e) /\ str_count_codepoints(e) = 1
  BY ONLY <1>2, <1>4, OneEncoding
<1> QED BY ONLY <1>1, <1>2, <1>5, Zenon
=============================================================================
