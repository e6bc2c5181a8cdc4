--------------------------- MODULE WriteFdProofs ---------------------------
(***************************************************************************)
(* WriteFd implements FdSink, for any number of strings of any length, any *)
(* batch size and any partial writes.                                      *)
(***************************************************************************)
EXTENDS WriteFd, SequenceTheorems, StrLemmas

----------------------------------------------------------------------------
(* The inductive invariant. *)

StartsOK == starts[1] = 0 /\ \A k \in 1 .. count : starts[k] <= starts[k + 1]

\* Where the bytes of iovec k end: where those of the next one begin.
EndOf(k) == IF k = Len(v) THEN starts[i] ELSE v[k + 1].base

\* The iovecs from pv on are one stretch of bytes up to string i.
ChainOK ==
  \A k \in DOMAIN v : k >= pv =>
    /\ v[k].base + v[k].len = EndOf(k)
    /\ v[k].base + v[k].len <= starts[i]
    /\ pc # "one" => v[k].len > 0

\* The first byte not yet in the file is where the writing goes on.
PlaceOK ==
  /\ Len(out) <= starts[i]
  /\ pc = "gather" => IF v = <<>> THEN Len(out) = starts[i]
                                  ELSE pv = 1 /\ v[1].base = Len(out)
  /\ pc \in {"one", "write"} => pv \in DOMAIN v /\ v[pv].base = Len(out)
  /\ InKernel => /\ pv \in DOMAIN v /\ v[pv].base + n = Len(out)
                 /\ IF kv \in DOMAIN v
                    THEN kv >= pv /\ v[kv].base + koff = Len(out) /\ koff < v[kv].len
                    ELSE Len(out) = starts[i]
  /\ pc \in {"advance", "scroll"} =>
       IF pv \in DOMAIN v THEN v[pv].base + n = Len(out) ELSE Len(out) = starts[i]

Writing == pc \notin {"call", "done"}

\* The state in front of, during and after the writing.
CallOK ==
  /\ i \in 1 .. count + 1
  /\ Len(v) <= BATCH_SIZE
  /\ pc = "call" => out = <<>> /\ v = <<>> /\ i = 1 /\ pv = 1
  /\ Writing => ChainOK /\ PlaceOK
  /\ pc = "gather" => Len(v) < BATCH_SIZE
  /\ pc \in {"one", "write()", "advance"} => count = 1 /\ i = 2 /\ Len(v) = 1 /\ pv = 1
  /\ ret = Running <=> pc # "done"

IInv == TypeOK /\ StartsOK /\ CallOK

----------------------------------------------------------------------------
LEMMA Types ==
  ASSUME TypeOK
  PROVE  /\ count \in Nat /\ DOMAIN v = 1 .. Len(v) /\ Len(v) \in Nat /\ Len(out) \in Nat
         /\ \A k \in 1 .. count + 1 : starts[k] \in Nat
         /\ \A k \in 1 .. Len(v) : v[k] \in [base : Nat, len : Nat]
         /\ \A k \in 1 .. Len(v) : v[k].base \in Nat /\ v[k].len \in Nat
         /\ BATCH_SIZE \in Nat \ {0}
<1>1. Len(starts) \in Nat /\ Len(starts) > 0 /\ Len(v) \in Nat /\ Len(out) \in Nat
      /\ DOMAIN v = 1 .. Len(v)
  BY LenProperties DEF TypeOK
<1>2. \A k \in 1 .. Len(starts) : starts[k] \in Nat
  BY ElementOfSeq DEF TypeOK
<1>3. \A k \in 1 .. Len(v) : v[k] \in [base : Nat, len : Nat]
  BY ElementOfSeq DEF TypeOK
<1> QED BY <1>1, <1>2, <1>3, WriteFdAssumption DEF count

\* No string starts behind the end of the last one.
LEMMA UpToTotal == ASSUME IInv PROVE Total \in Nat /\ starts[i] \in Nat /\ starts[i] <= Total
<1> DEFINE m == count
           d == [k \in 1 .. m |-> starts[k + 1] - starts[k]]
<1>1. m \in Nat /\ \A k \in 1 .. m + 1 : starts[k] \in Nat
  BY Types DEF IInv
<1>2. \A k \in 1 .. m : d[k] \in Nat /\ starts[k + 1] = starts[k] + d[k]
  BY <1>1 DEF IInv, StartsOK
<1> HIDE DEF m, d
<1>3. \A k \in 1 .. m + 1 : starts[k] <= starts[m + 1]
  BY <1>1, <1>2, RunningTotals
<1> QED BY <1>1, <1>3 DEF IInv, CallOK, Total, m

LEMMA InitOK == Init => IInv
<1> SUFFICES ASSUME Init PROVE IInv
  OBVIOUS
<1>1. PICK c \in 0 .. MaxCount : starts \in [1 .. c + 1 -> 0 .. MaxCount * MaxLen]
  BY DEF Init, Strings
<1>2. starts[1] = 0 /\ \A k \in 1 .. Len(starts) - 1 : starts[k + 1] \in starts[k] .. starts[k] + MaxLen
  BY DEF Init, Strings
<1>3. c \in Nat /\ starts \in [1 .. c + 1 -> Nat]
  BY <1>1, WriteFdAssumption
<1>4. starts \in Seq(Nat) /\ Len(starts) = c + 1
  BY <1>3, LenProperties
<1>5. StartsOK
  BY <1>2, <1>3, <1>4 DEF StartsOK, count
<1>6. <<>> \in Seq(Nat) /\ <<>> \in Seq([base : Nat, len : Nat]) /\ Len(<<>>) = 0
  BY EmptySeq
<1>7. TypeOK
  BY <1>3, <1>4, <1>6 DEF Init, TypeOK
<1> QED BY <1>3, <1>4, <1>5, <1>6, <1>7, WriteFdAssumption DEF Init, IInv, CallOK, count, Writing

----------------------------------------------------------------------------
(* The steps. *)

\* The next index, if there is one.
LEMMA NotLast == \A m \in Nat : \A k \in 1 .. m : k # m => k + 1 \in 1 .. m
OBVIOUS

LEMMA FinishOK == ASSUME IInv, NEW r \in Errno \cup {0}, Finish(r), open' \in BOOLEAN PROVE IInv'
BY WriteFdAssumption DEF IInv, Finish, TypeOK, StartsOK, CallOK, Writing, count

LEMMA CallStartsOK == IInv /\ (CallOne \/ CallVec) => IInv'
<1> SUFFICES ASSUME IInv, CallOne \/ CallVec PROVE IInv'
  OBVIOUS
<1>0. TypeOK /\ StartsOK /\ CallOK
  BY DEF IInv
<1>1. /\ pc = "call" /\ starts[1] = 0 /\ Len(out) = 0 /\ i = 1 /\ pv = 1 /\ Len(v) = 0
      /\ v = <<>> /\ count \in Nat /\ ret = Running
  BY <1>0, EmptySeq, Types DEF CallOne, CallVec, StartsOK, CallOK
<1>2. CASE CallOne
  <2> DEFINE x == iovec(0, str_len(1))
  <2>1. /\ count = 1 /\ starts[1] \in Nat /\ starts[2] \in Nat /\ starts[1] <= starts[2]
        /\ str_len(1) = starts[2]
    <3>1. count = 1
      BY <1>2 DEF CallOne
    <3>2. starts[1] \in Nat /\ starts[2] \in Nat
      BY <1>0, <3>1, Types
    <3> QED BY <1>0, <1>1, <3>1, <3>2 DEF StartsOK, str_len
  <2>2. x \in [base : Nat, len : Nat] /\ x.base = 0 /\ x.len = starts[2]
    BY <2>1 DEF iovec
  <2>3. v' = <<x>> /\ i' = 2 /\ pc' = "one"
        /\ UNCHANGED <<starts, pv, n, kv, koff, out, open, ret>>
    BY <1>2 DEF CallOne
  <2>4. v' \in Seq([base : Nat, len : Nat]) /\ Len(v') = 1 /\ v'[1] = x /\ DOMAIN v' = 1 .. 1
    BY <2>2, <2>3
  <2> HIDE DEF x
  <2>5. TypeOK' /\ StartsOK'
    BY <1>0, <2>3, <2>4 DEF TypeOK, StartsOK, count
  <2>6. ChainOK'
    BY <2>1, <2>2, <2>3, <2>4 DEF ChainOK, EndOf
  <2>7. PlaceOK'
    BY <1>1, <2>1, <2>2, <2>3, <2>4 DEF PlaceOK, InKernel
  <2>8. CallOK'
    <3>1. count' = 1 /\ i' = 2 /\ pv' = 1 /\ pc' = "one" /\ ret' = Running
      BY <1>1, <2>1, <2>3 DEF count
    <3>2. Len(v') = 1 /\ Len(v') <= BATCH_SIZE
      BY <2>4, WriteFdAssumption
    <3> QED BY <2>6, <2>7, <3>1, <3>2 DEF CallOK
  <2> QED BY <2>5, <2>8 DEF IInv
<1>3. CASE CallVec
  <2>1. pc' = "gather" /\ UNCHANGED <<starts, i, v, pv, n, kv, koff, out, open, ret>>
    BY <1>3 DEF CallVec
  <2>2. TypeOK' /\ StartsOK'
    BY <1>0, <2>1 DEF TypeOK, StartsOK, count
  <2>3. ChainOK' /\ PlaceOK'
    BY <1>1, <2>1 DEF ChainOK, PlaceOK, InKernel
  <2>4. CallOK'
    BY <1>0, <1>1, <2>1, <2>3, WriteFdAssumption DEF CallOK, Writing, count
  <2> QED BY <2>2, <2>4 DEF IInv
<1> QED BY <1>2, <1>3

LEMMA GatherOK == IInv /\ (SkipEmpty \/ Gather \/ LastBatch) => IInv'
<1> SUFFICES ASSUME IInv, SkipEmpty \/ Gather \/ LastBatch PROVE IInv'
  OBVIOUS
<1>0. TypeOK /\ StartsOK /\ CallOK /\ pc = "gather" /\ ChainOK /\ PlaceOK
  BY DEF IInv, CallOK, Writing, SkipEmpty, Gather, LastBatch
<1>1. CASE SkipEmpty
  <2>1. i \in 1 .. count /\ starts[i] = starts[i + 1] /\ starts[i] \in Nat /\ i + 1 \in 1 .. count + 1
    BY <1>0, <1>1, Types DEF SkipEmpty, str_len, CallOK
  <2>2. TypeOK' /\ StartsOK'
    BY <1>0, <1>1, <2>1 DEF SkipEmpty, TypeOK, StartsOK, count
  <2>3. ChainOK' /\ PlaceOK'
    BY <1>0, <1>1, <2>1 DEF SkipEmpty, ChainOK, PlaceOK, EndOf, InKernel
  <2> QED BY <1>0, <1>1, <2>1, <2>2, <2>3 DEF SkipEmpty, IInv, CallOK, Writing, count
<1>2. CASE Gather
  <2> DEFINE x == iovec(starts[i], str_len(i))
  <2>1. /\ i \in 1 .. count /\ i + 1 \in 1 .. count + 1
        /\ starts[i] \in Nat /\ starts[i + 1] \in Nat
        /\ str_len(i) > 0 /\ str_len(i) = starts[i + 1] - starts[i]
    BY <1>0, <1>2, Types DEF Gather, str_len, CallOK
  <2>2. x \in [base : Nat, len : Nat] /\ x.base = starts[i] /\ x.len > 0
        /\ x.base + x.len = starts[i + 1]
    BY <2>1 DEF iovec
  <2>3. v' = Append(v, x) /\ i' = i + 1 /\ pv' = 1 /\ pc' \in {"gather", "write"}
        /\ UNCHANGED <<starts, n, kv, koff, out, open, ret>>
    BY <1>2 DEF Gather
  <2> HIDE DEF x
  <2>4. /\ v' \in Seq([base : Nat, len : Nat]) /\ Len(v') = Len(v) + 1 /\ v'[Len(v) + 1] = x
        /\ \A k \in 1 .. Len(v) : v'[k] = v[k]
        /\ DOMAIN v' = 1 .. Len(v) + 1
    BY <1>0, <2>2, <2>3, AppendProperties, LenProperties DEF TypeOK
  <2>5. TypeOK' /\ StartsOK'
    <3>1. i + 1 \in Nat \ {0} /\ pv' \in Nat \ {0}
      BY <2>1, <2>3
    <3> QED BY <1>0, <2>3, <2>4, <3>1 DEF TypeOK, StartsOK, count
  <2>6. /\ v = <<>> => Len(v) = 0 /\ Len(out) = starts[i]
        /\ v # <<>> => Len(v) > 0 /\ pv = 1 /\ v[1].base = Len(out)
    BY <1>0, Types, EmptySeq DEF PlaceOK, TypeOK
  <2>7. ChainOK'
    <3> SUFFICES ASSUME NEW k \in 1 .. Len(v) + 1
                 PROVE  /\ v'[k].base + v'[k].len = EndOf(k)' /\ v'[k].len > 0
                        /\ v'[k].base + v'[k].len <= starts[i + 1]
      BY <2>3, <2>4 DEF ChainOK
    <3>0. \A x1 \in Nat : x1 <= starts[i] => x1 <= starts[i + 1]
      BY <2>1
    <3>1. CASE k = Len(v) + 1
      BY <2>1, <2>2, <2>3, <2>4, <3>1 DEF EndOf
    <3>2. CASE k \in 1 .. Len(v)
      <4>0. Len(v) \in Nat /\ DOMAIN v = 1 .. Len(v)
        BY <1>0, Types
      <4>1. k \in DOMAIN v /\ k >= pv /\ pc # "one" /\ Len(v) > 0
        <5>1. k \in DOMAIN v /\ k >= 1 /\ Len(v) > 0
          BY <3>2, <4>0
        <5> QED BY <1>0, <2>6, <5>1
      <4>2. /\ v[k].base + v[k].len = EndOf(k) /\ v[k].len > 0
            /\ v[k].base + v[k].len <= starts[i]
        BY <1>0, <4>1 DEF ChainOK
      <4>3. v[k].base \in Nat /\ v[k].len \in Nat
        BY <1>0, <3>2, Types
      <4>4. v[k].base + v[k].len <= starts[i + 1]
        BY <3>0, <4>2, <4>3
      <4>5. v'[k] = v[k] /\ k # Len(v')
        BY <2>4, <3>2, <4>0
      <4>6. EndOf(k)' = EndOf(k)
        <5>1. CASE k = Len(v)
          <6>1. v'[k + 1] = x
            BY <2>4, <5>1
          <6> QED BY <2>2, <4>5, <5>1, <6>1 DEF EndOf
        <5>2. CASE k # Len(v)
          <6>1. k + 1 \in 1 .. Len(v)
            BY <3>2, <4>0, <5>2, NotLast
          <6>2. v'[k + 1] = v[k + 1]
            BY <2>4, <6>1
          <6> QED BY <4>5, <5>2, <6>2 DEF EndOf
        <5> QED BY <5>1, <5>2
      <4> QED BY <4>2, <4>4, <4>5, <4>6
    <3>3. k = Len(v) + 1 \/ k \in 1 .. Len(v)
      <4>1. Len(v) \in Nat
        BY <1>0, Types
      <4> QED BY <4>1
    <3> QED BY <3>1, <3>2, <3>3
  <2>8. PlaceOK'
    <3>0. v' # <<>> /\ 1 \in DOMAIN v'
      BY <1>0, <2>4, EmptySeq, Types
    <3>1. v'[1].base = Len(out)
      <4>1. CASE v = <<>>
        BY <2>2, <2>4, <2>6, <4>1
      <4>2. CASE v # <<>>
        BY <2>4, <2>6, <4>2
      <4> QED BY <4>1, <4>2
    <3>2. Len(out) <= starts[i + 1]
      BY <1>0, <2>1, Types DEF PlaceOK
    <3> QED BY <2>3, <3>0, <3>1, <3>2 DEF PlaceOK, InKernel
  <2>9. Len(v') <= BATCH_SIZE /\ (pc' = "gather" => Len(v') < BATCH_SIZE)
    BY <1>0, <1>2, <2>4, Types DEF CallOK, Gather, BatchFull
  <2> QED BY <1>0, <2>1, <2>3, <2>5, <2>7, <2>8, <2>9 DEF IInv, CallOK, Writing, count
<1>3. CASE LastBatch
  <2>1. Len(v) > 0 /\ pv = 1 /\ v[1].base = Len(out)
    BY <1>0, <1>3, Types, EmptySeq DEF LastBatch, PlaceOK, TypeOK
  <2>2. TypeOK' /\ StartsOK'
    BY <1>0, <1>3 DEF LastBatch, TypeOK, StartsOK, count
  <2>3. ChainOK' /\ PlaceOK'
    BY <1>0, <1>3, <2>1, Types DEF LastBatch, ChainOK, PlaceOK, EndOf, InKernel
  <2> QED BY <1>0, <1>3, <2>2, <2>3 DEF LastBatch, IInv, CallOK, Writing, count
<1> QED BY <1>1, <1>2, <1>3

LEMMA syscallOK == IInv /\ syscall => IInv'
<1> SUFFICES ASSUME IInv, syscall PROVE IInv'
  OBVIOUS
<1>0. TypeOK /\ StartsOK /\ CallOK /\ pc \in {"one", "write"} /\ ChainOK /\ PlaceOK
  BY DEF IInv, CallOK, Writing, syscall, OneLeft
<1>1. /\ pc' \in {"write()", "writev()"} /\ (pc' = "write()" <=> pc = "one")
      /\ kv' = pv /\ koff' = 0 /\ n' = 0
      /\ UNCHANGED <<starts, i, v, pv, out, open, ret>>
  BY <1>0 DEF syscall
<1>2. pv \in DOMAIN v /\ v[pv].base = Len(out) /\ v[pv].base \in Nat /\ v[pv].len \in Nat
  BY <1>0, Types DEF PlaceOK
<1>3. pc = "one" => v[1].len > 0 /\ pv = 1 /\ Len(v) = 1
  BY <1>0 DEF syscall, OneLeft, CallOK
<1>4. TypeOK' /\ StartsOK'
  BY <1>0, <1>1 DEF TypeOK, StartsOK, count
<1>5. ChainOK'
  <2> SUFFICES ASSUME NEW k \in DOMAIN v, k >= pv
               PROVE  v[k].len > 0
    BY <1>0, <1>1 DEF ChainOK, EndOf
  <2>1. CASE pc = "one"
    BY <1>0, <1>3, <2>1, Types DEF ChainOK
  <2>2. CASE pc # "one"
    BY <1>0, <2>2 DEF ChainOK
  <2> QED BY <2>1, <2>2
<1>6. v[pv].len > 0
  <2>1. pv >= pv
    BY <1>0 DEF TypeOK
  <2> QED BY <1>1, <1>2, <1>5, <2>1 DEF ChainOK
<1>7. PlaceOK'
  <2>1. Len(out) <= starts[i]
    BY <1>0 DEF PlaceOK
  <2> QED BY <1>0, <1>1, <1>2, <1>6, <2>1 DEF PlaceOK, InKernel, TypeOK
<1> QED BY <1>0, <1>1, <1>3, <1>4, <1>5, <1>7 DEF IInv, CallOK, Writing, count

LEMMA Shift ==
  \A a, b, c, m \in Nat : a + b = c => a + (b + m) = c + m
OBVIOUS

\* What a system call writes comes right after what is in the file.
LEMMA TransferOK ==
  ASSUME IInv, NEW m \in Nat, m > 0, Transfer(m)
  PROVE  /\ IInv'
         /\ out' = out \o [j \in 1 .. m |-> Len(out) + j]
         /\ Len(out) + m <= starts[i]
<1>0. TypeOK /\ StartsOK /\ CallOK /\ InKernel /\ ChainOK /\ PlaceOK
  BY DEF IInv, CallOK, Writing, Transfer, InKernel
<1>1. /\ kv <= Len(v) /\ koff + m <= v[kv].len
      /\ out' = out \o [j \in 1 .. m |-> v[kv].base + koff + j]
      /\ n' = n + m
      /\ kv' = (IF koff + m = v[kv].len THEN kv + 1 ELSE kv)
      /\ koff' = (IF koff + m = v[kv].len THEN 0 ELSE koff + m)
      /\ UNCHANGED <<starts, pc, i, v, pv, open, ret>>
  BY DEF Transfer
<1>2. /\ kv \in DOMAIN v /\ kv >= pv /\ v[kv].base + koff = Len(out) /\ koff < v[kv].len
      /\ pv \in DOMAIN v /\ v[pv].base + n = Len(out) /\ v[pv].base \in Nat
      /\ v[kv].base \in Nat /\ v[kv].len \in Nat /\ koff \in Nat /\ n \in Nat
      /\ pv \in Nat /\ kv \in Nat
  <2>1. koff \in Nat /\ n \in Nat /\ pv \in Nat /\ kv \in Nat \ {0}
    BY <1>0 DEF TypeOK
  <2>2. kv \in DOMAIN v
    BY <1>0, <1>1, <2>1, Types
  <2>3. pv \in DOMAIN v /\ v[pv].base + n = Len(out)
        /\ kv >= pv /\ v[kv].base + koff = Len(out) /\ koff < v[kv].len
    BY <1>0, <2>2 DEF PlaceOK
  <2>4. v[pv].base \in Nat /\ v[kv].base \in Nat /\ v[kv].len \in Nat
    BY <1>0, <2>2, <2>3, Types
  <2> QED BY <2>1, <2>2, <2>3, <2>4
<1> DEFINE more == [j \in 1 .. m |-> v[kv].base + koff + j]
<1>3. more \in Seq(Nat) /\ Len(more) = m
  BY SMTT(60), <1>2, LenProperties
<1>4. out' = out \o [j \in 1 .. m |-> Len(out) + j]
  BY <1>1, <1>2
<1>5. out' \in Seq(Nat) /\ Len(out') = Len(out) + m
  <2> HIDE DEF more
  <2>1. out' = out \o more
    BY <1>1 DEF more
  <2> QED BY <1>0, <1>3, <2>1, ConcatProperties DEF TypeOK
<1>6. /\ v[kv].base + v[kv].len = EndOf(kv) /\ v[kv].base + v[kv].len <= starts[i]
      /\ starts[i] \in Nat
  BY <1>0, <1>2, Types DEF ChainOK, CallOK
<1> HIDE DEF more
<1>10. m \in Nat /\ m > 0 /\ Len(out) \in Nat
  BY <1>0, Types
<1>7. Len(out) + m <= starts[i] /\ Len(out) \in Nat /\ koff + m <= v[kv].len
  <2>1. Len(out) \in Nat
    BY <1>0, Types
  <2>2. koff + m <= v[kv].len
    BY <1>1
  <2> QED BY SMTT(60), <1>2, <1>6, <2>1, <2>2
<1>8. PlaceOK'
  <2>1. v[pv].base + n' = Len(out')
    <3>1. n' = n + m
      BY <1>1
    <3>2. v[pv].base + (n + m) = Len(out) + m
      BY SMTT(60), <1>2, <1>10, Shift
    <3> QED BY <1>5, <3>1, <3>2
  <2>2. InKernel' /\ pv' = pv /\ v' = v /\ starts[i]' = starts[i] /\ pc' = pc /\ Len(out') <= starts[i]
    BY <1>0, <1>1, <1>5, <1>7 DEF InKernel
  <2> SUFFICES IF kv' \in DOMAIN v
               THEN kv' >= pv /\ v[kv'].base + koff' = Len(out') /\ koff' < v[kv'].len
               ELSE Len(out') = starts[i]
    BY <1>2, <2>1, <2>2 DEF PlaceOK, InKernel
  <2>3. CASE koff + m # v[kv].len
    <3>1. kv' = kv /\ koff' = koff + m
      BY <1>1, <2>3
    <3>2. koff + m < v[kv].len
      BY SMTT(60), <1>2, <1>7, <1>10, <2>3
    <3>3. v[kv].base + (koff + m) = Len(out) + m
      BY SMTT(60), <1>2, <1>10, Shift
    <3> QED BY <1>2, <1>5, <3>1, <3>2, <3>3
  <2>4. CASE koff + m = v[kv].len /\ kv = Len(v)
    <3>1. kv' = Len(v) + 1
      BY <1>1, <2>4
    <3>2. kv' \notin DOMAIN v
      BY <1>0, <3>1, Types
    <3>3. Len(out) + m = starts[i]
      <4>1. v[kv].base + v[kv].len = starts[i]
        BY <1>6, <2>4 DEF EndOf
      <4> QED BY SMTT(60), <1>2, <1>7, <2>4, <4>1
    <3> QED BY <1>5, <3>2, <3>3
  <2>5. CASE koff + m = v[kv].len /\ kv # Len(v)
    <3>1. kv' = kv + 1 /\ koff' = 0
      BY <1>1, <2>5
    <3>2. kv + 1 \in DOMAIN v /\ kv + 1 >= pv /\ pc # "one"
      <4>1. kv \in 1 .. Len(v) /\ DOMAIN v = 1 .. Len(v) /\ Len(v) \in Nat
        BY <1>0, <1>2, Types
      <4>2. kv + 1 \in 1 .. Len(v) /\ kv + 1 >= pv
        BY SMTT(60), <1>2, <2>5, <4>1
      <4> QED BY <1>0, <4>1, <4>2 DEF InKernel
    <3>3. v[kv + 1].len > 0 /\ v[kv + 1].base \in Nat /\ v[kv + 1].len \in Nat
      BY <1>0, <3>2, Types DEF ChainOK
    <3>4. v[kv + 1].base = Len(out) + m
      <4>1. v[kv].base + v[kv].len = v[kv + 1].base
        BY <1>6, <2>5 DEF EndOf
      <4>2. v[kv].base + (koff + m) = Len(out) + m
        BY SMTT(60), <1>2, <1>10, Shift
      <4> QED BY <2>5, <4>1, <4>2
    <3> QED BY <1>5, <3>1, <3>2, <3>3, <3>4
  <2> QED BY <2>3, <2>4, <2>5
<1>9. TypeOK' /\ StartsOK' /\ ChainOK'
  BY <1>0, <1>1, <1>2, <1>5 DEF TypeOK, StartsOK, ChainOK, EndOf, count
<1> QED BY <1>0, <1>1, <1>4, <1>7, <1>8, <1>9 DEF IInv, CallOK, Writing, InKernel, count

LEMMA ReturnedOK == IInv /\ (Returned \/ Interrupted) => IInv'
<1> SUFFICES ASSUME IInv, Returned \/ Interrupted PROVE IInv'
  OBVIOUS
<1>0. TypeOK /\ StartsOK /\ CallOK /\ InKernel /\ ChainOK /\ PlaceOK
  BY DEF IInv, CallOK, Writing, Returned, Interrupted, InKernel
<1>1. /\ \/ pc' = "advance" /\ pc = "write()"
         \/ pc' = "scroll" /\ pc = "writev()"
         \/ pc' = "one" /\ pc = "write()" /\ n = 0
         \/ pc' = "write" /\ pc = "writev()" /\ n = 0
      /\ UNCHANGED <<starts, i, v, pv, n, kv, koff, out, open, ret>>
  BY <1>0 DEF Returned, Interrupted, InKernel
<1>2. TypeOK' /\ StartsOK'
  BY <1>0, <1>1 DEF TypeOK, StartsOK, count
<1>3. ChainOK'
  BY <1>0, <1>1 DEF ChainOK, EndOf, InKernel
<1>4. pv \in DOMAIN v /\ v[pv].base + n = Len(out) /\ v[pv].base \in Nat
      /\ Len(out) <= starts[i]
  BY <1>0, Types DEF PlaceOK
<1>5. PlaceOK'
  BY <1>1, <1>4 DEF PlaceOK, InKernel
<1> QED BY <1>0, <1>1, <1>2, <1>3, <1>5 DEF IInv, CallOK, Writing, count

LEMMA AdvanceOK == IInv /\ Advance => IInv'
<1> SUFFICES ASSUME IInv, Advance PROVE IInv'
  OBVIOUS
<1> DEFINE x == iovec(v[1].base + n, v[1].len - n)
<1>0. /\ TypeOK /\ StartsOK /\ CallOK /\ ChainOK /\ PlaceOK
      /\ pc = "advance" /\ count = 1 /\ i = 2 /\ Len(v) = 1 /\ pv = 1
  BY DEF IInv, CallOK, Writing, Advance
<1>1. v' = <<x>> /\ pc' = "one" /\ UNCHANGED <<starts, i, pv, n, kv, koff, out, open, ret>>
  BY DEF Advance
<1>2. /\ v[1].base + n = Len(out) /\ Len(out) <= starts[2] /\ n \in Nat
      /\ v[1].base + v[1].len = starts[2] /\ v[1].base \in Nat /\ v[1].len \in Nat
  <2>1. 1 \in DOMAIN v /\ pv >= 1 /\ n \in Nat
    BY <1>0, Types DEF TypeOK
  <2> QED BY <1>0, <2>1, Types DEF ChainOK, PlaceOK, EndOf
<1>3. x \in [base : Nat, len : Nat] /\ x.base = Len(out) /\ x.base + x.len = starts[2]
  BY <1>0, <1>2, Types DEF iovec
<1>4. v' \in Seq([base : Nat, len : Nat]) /\ Len(v') = 1 /\ v'[1] = x /\ DOMAIN v' = 1 .. 1
  BY <1>1, <1>3
<1> HIDE DEF x
<1>5. starts[2] \in Nat
  BY <1>0, Types
<1>6. TypeOK' /\ StartsOK'
  BY <1>0, <1>1, <1>4 DEF TypeOK, StartsOK, count
<1>7. ChainOK' /\ PlaceOK'
  BY <1>0, <1>1, <1>2, <1>3, <1>4, <1>5 DEF ChainOK, PlaceOK, EndOf, InKernel
<1> QED BY <1>0, <1>1, <1>4, <1>6, <1>7 DEF IInv, CallOK, Writing, count

LEMMA ScrollOK == IInv /\ Scroll => IInv'
<1> SUFFICES ASSUME IInv, Scroll PROVE IInv'
  OBVIOUS
<1>0. TypeOK /\ StartsOK /\ CallOK /\ ChainOK /\ PlaceOK /\ pc = "scroll"
  BY DEF IInv, CallOK, Writing, Scroll
<1>1. /\ pv <= Len(v) /\ n >= v[pv].len /\ n' = n - v[pv].len /\ pv' = pv + 1
      /\ UNCHANGED <<starts, pc, i, v, kv, koff, out, open, ret>>
  BY DEF Scroll, Written
<1>2. /\ pv \in DOMAIN v /\ pv \in Nat /\ n \in Nat /\ v[pv].base \in Nat /\ v[pv].len \in Nat
      /\ v[pv].base + n = Len(out) /\ v[pv].base + v[pv].len = EndOf(pv)
      /\ starts[i] \in Nat /\ Len(out) <= starts[i]
  <2>1. pv \in DOMAIN v /\ pv \in Nat \ {0} /\ n \in Nat /\ pv >= pv
    BY <1>0, <1>1, Types DEF TypeOK
  <2> QED BY <1>0, <2>1, Types DEF ChainOK, PlaceOK, CallOK
<1>3. TypeOK' /\ StartsOK'
  <2>1. n' \in Nat /\ pv' \in Nat \ {0}
    BY <1>1, <1>2
  <2> QED BY <1>0, <1>1, <2>1 DEF TypeOK, StartsOK, count
<1>4. ChainOK'
  <2>1. \A k \in DOMAIN v : k >= pv + 1 => k >= pv
    BY <1>0, <1>2, Types
  <2> QED BY <1>0, <1>1, <2>1 DEF ChainOK, EndOf
<1>5. PlaceOK'
  <2>1. CASE pv = Len(v)
    <3>1. pv' \notin DOMAIN v /\ Len(out) = starts[i]
      BY <1>0, <1>1, <1>2, <2>1, Types DEF EndOf
    <3> QED BY <1>0, <1>1, <1>2, <3>1 DEF PlaceOK, InKernel
  <2>2. CASE pv # Len(v)
    <3>1. pv' \in DOMAIN v /\ v[pv + 1].base = v[pv].base + v[pv].len
      BY <1>0, <1>1, <1>2, <2>2, Types DEF EndOf
    <3>2. v[pv'].base + n' = Len(out)
      BY SMTT(60), <1>1, <1>2, <3>1
    <3> QED BY <1>0, <1>1, <1>2, <3>1, <3>2 DEF PlaceOK, InKernel
  <2> QED BY <2>1, <2>2
<1> QED BY <1>0, <1>1, <1>3, <1>4, <1>5 DEF IInv, CallOK, Writing, count

LEMMA AgainOK == IInv /\ Again => IInv'
<1> SUFFICES ASSUME IInv, Again PROVE IInv'
  OBVIOUS
<1> DEFINE x == iovec(v[pv].base + n, v[pv].len - n)
<1>0. TypeOK /\ StartsOK /\ CallOK /\ ChainOK /\ PlaceOK /\ pc = "scroll"
  BY DEF IInv, CallOK, Writing, Again
<1>1. /\ pv <= Len(v) /\ ~(n >= v[pv].len) /\ v' = [v EXCEPT ![pv] = x] /\ pc' = "write"
      /\ UNCHANGED <<starts, i, pv, n, kv, koff, out, open, ret>>
  BY DEF Again, Written, Rest
<1>2. /\ pv \in DOMAIN v /\ pv \in Nat /\ n \in Nat /\ v[pv].base \in Nat /\ v[pv].len \in Nat
      /\ v[pv].base + n = Len(out) /\ v[pv].base + v[pv].len = EndOf(pv)
      /\ v[pv].base + v[pv].len <= starts[i] /\ Len(out) <= starts[i]
  <2>1. pv \in DOMAIN v /\ pv \in Nat \ {0} /\ n \in Nat /\ pv >= pv
    BY <1>0, <1>1, Types DEF TypeOK
  <2> QED BY <1>0, <2>1, Types DEF ChainOK, PlaceOK
<1>3. /\ x \in [base : Nat, len : Nat] /\ x.base = Len(out) /\ x.len > 0
      /\ x.base + x.len = v[pv].base + v[pv].len
  <2>1. v[pv].len - n \in Nat /\ v[pv].len - n > 0 /\ v[pv].base + n \in Nat
    BY <1>1, <1>2
  <2>2. x.base = v[pv].base + n /\ x.len = v[pv].len - n /\ x \in [base : Nat, len : Nat]
    BY <2>1 DEF iovec
  <2> HIDE DEF x
  <2> QED BY SMTT(60), <1>2, <2>1, <2>2
<1>4. /\ v' \in Seq([base : Nat, len : Nat]) /\ Len(v') = Len(v) /\ v'[pv] = x
      /\ \A k \in DOMAIN v \ {pv} : v'[k] = v[k]
      /\ DOMAIN v' = DOMAIN v
  BY <1>0, <1>1, <1>2, <1>3, ExceptSeq DEF TypeOK
<1> HIDE DEF x
<1>5. TypeOK' /\ StartsOK'
  BY <1>0, <1>1, <1>4 DEF TypeOK, StartsOK, count
<1>6. ChainOK'
  <2> SUFFICES ASSUME NEW k \in DOMAIN v, k >= pv
               PROVE  /\ v'[k].base + v'[k].len = EndOf(k)'
                      /\ v'[k].base + v'[k].len <= starts[i]
                      /\ v'[k].len > 0
    BY <1>1, <1>4 DEF ChainOK
  <2>1. EndOf(k)' = EndOf(k)
    <3>1. CASE k = Len(v)
      BY <1>1, <1>4, <3>1 DEF EndOf
    <3>2. CASE k # Len(v)
      <4>1. k + 1 \in DOMAIN v /\ k + 1 # pv
        BY SMTT(60), <1>0, <1>2, <3>2, Types
      <4> QED BY <1>1, <1>4, <3>2, <4>1 DEF EndOf
    <3> QED BY <3>1, <3>2
  <2>2. v[k].base + v[k].len = EndOf(k) /\ v[k].base + v[k].len <= starts[i] /\ v[k].len > 0
    BY <1>0 DEF ChainOK
  <2>3. CASE k = pv
    BY <1>3, <1>4, <2>1, <2>2, <2>3
  <2>4. CASE k # pv
    BY <1>4, <2>1, <2>2, <2>4
  <2> QED BY <2>3, <2>4
<1>7. PlaceOK'
  BY <1>1, <1>2, <1>3, <1>4 DEF PlaceOK, InKernel
<1> QED BY <1>0, <1>1, <1>4, <1>5, <1>6, <1>7 DEF IInv, CallOK, Writing, count

LEMMA BatchSentOK == IInv /\ BatchSent => IInv'
<1> SUFFICES ASSUME IInv, BatchSent PROVE IInv'
  OBVIOUS
<1>0. TypeOK /\ StartsOK /\ CallOK /\ PlaceOK /\ pc = "scroll"
  BY DEF IInv, CallOK, Writing, BatchSent
<1>1. /\ pv > Len(v) /\ v' = <<>> /\ pc' = "gather"
      /\ UNCHANGED <<starts, i, pv, n, kv, koff, out, open, ret>>
  BY DEF BatchSent
<1>2. Len(out) = starts[i] /\ Len(out) <= starts[i]
  <2>1. pv \notin DOMAIN v
    BY <1>0, <1>1, Types DEF TypeOK
  <2> QED BY <1>0, <2>1 DEF PlaceOK
<1>3. v' \in Seq([base : Nat, len : Nat]) /\ Len(v') = 0
  BY <1>1, EmptySeq
<1>4. TypeOK' /\ StartsOK'
  BY <1>0, <1>1, <1>3 DEF TypeOK, StartsOK, count
<1>5. ChainOK' /\ PlaceOK'
  BY <1>1, <1>2, <1>3 DEF ChainOK, PlaceOK, InKernel
<1> QED BY <1>0, <1>1, <1>3, <1>4, <1>5, WriteFdAssumption DEF IInv, CallOK, Writing, count

LEMMA FinishedOK ==
  ASSUME IInv, CallNone \/ AllSent \/ OneSent \/ \E e \in Errno : Failed(e)
  PROVE  IInv'
<1>1. PICK r \in Errno \cup {0} : Finish(r) /\ (open' = open \/ open' = FALSE)
  BY DEF CallNone, AllSent, OneSent, Failed
<1>2. open' \in BOOLEAN
  BY <1>1 DEF IInv, TypeOK
<1> QED BY <1>1, <1>2, FinishOK

LEMMA NextOK == IInv /\ [Next]_vars => IInv'
<1> SUFFICES ASSUME IInv, [Next]_vars PROVE IInv'
  OBVIOUS
<1>1. CASE CallNone \/ AllSent \/ OneSent \/ \E e \in Errno : Failed(e)
  BY <1>1, FinishedOK
<1>2. CASE CallOne \/ CallVec
  BY <1>2, CallStartsOK
<1>3. CASE SkipEmpty \/ Gather \/ LastBatch
  BY <1>3, GatherOK
<1>4. CASE syscall
  BY <1>4, syscallOK
<1>5. CASE SomeTransfer
  <2>1. PICK m \in 1 .. Total : Transfer(m)
    BY <1>5 DEF SomeTransfer
  <2>2. m \in Nat /\ m > 0
    BY <2>1, UpToTotal
  <2> QED BY <2>1, <2>2, TransferOK
<1>6. CASE Returned \/ Interrupted
  BY <1>6, ReturnedOK
<1>7. CASE Advance \/ Scroll \/ Again \/ BatchSent
  BY <1>7, AdvanceOK, ScrollOK, AgainOK, BatchSentOK
<1>8. CASE Done \/ UNCHANGED vars
  <2>1. /\ TypeOK /\ StartsOK /\ CallOK
        /\ UNCHANGED <<starts, pc, i, v, pv, n, kv, koff, out, open, ret>>
    BY <1>8 DEF Done, vars, IInv
  <2>2. TypeOK' /\ StartsOK'
    BY <2>1 DEF TypeOK, StartsOK, count
  <2>3. ChainOK' = ChainOK /\ PlaceOK' = PlaceOK
    BY <2>1 DEF ChainOK, PlaceOK, EndOf, InKernel
  <2> QED BY <2>1, <2>2, <2>3 DEF IInv, CallOK, Writing, count
<1> QED BY <1>1, <1>2, <1>3, <1>4, <1>5, <1>6, <1>7, <1>8 DEF Next, CallStep, KernelStep

LEMMA Inductive == Spec => []IInv
BY InitOK, NextOK, PTL DEF Spec

----------------------------------------------------------------------------
(* The theorems. *)

\* The types of the locals of str_concat_array_to_fd.c; above all, the bytes
\* left over from a system call (the signed n of write_batch:78-79) are never
\* negative.
THEOREM TypeCorrect == Spec => []TypeOK
<1>1. IInv => TypeOK
  BY DEF IInv
<1> QED BY <1>1, Inductive, PTL

\* The batch array of BATCH_SIZE iovecs (str_concat_array_to_fd.c:93-110) never
\* overflows, and every writev is asked to write at least one byte.
THEOREM BatchesFit == Spec => []BatchInBounds
<1>1. ASSUME IInv PROVE BatchInBounds
  <2>1. TypeOK /\ CallOK
    BY <1>1 DEF IInv
  <2>2. ASSUME pc \in {"write", "writev()"} PROVE pv \in DOMAIN v /\ v[pv].len > 0
    <3>1. ChainOK /\ pv \in DOMAIN v
      BY <2>1, <2>2 DEF CallOK, Writing, PlaceOK, InKernel
    <3>2. pv >= pv
      BY <2>1 DEF TypeOK
    <3> QED BY <2>2, <3>1, <3>2 DEF ChainOK
  <2> QED BY <2>1, <2>2 DEF BatchInBounds, CallOK
<1> QED BY <1>1, Inductive, PTL

\* When the call returns 0, every byte of every string is in the file.
LEMMA AllWritten ==
  ASSUME IInv, CallNone \/ AllSent \/ OneSent
  PROVE  Len(out) = Total
<1>0. TypeOK /\ StartsOK /\ CallOK
  BY DEF IInv
<1>1. CASE CallNone
  <2>1. pc = "call" /\ count = 0 /\ Total = starts[1]
    BY <1>1 DEF CallNone, Total
  <2>2. out = <<>>
    BY <1>0, <2>1 DEF CallOK
  <2> QED BY <1>0, <2>1, <2>2, EmptySeq DEF StartsOK
<1>2. CASE AllSent
  <2>1. pc = "gather" /\ i > count /\ v = <<>>
    BY <1>2 DEF AllSent
  <2>2. i = count + 1
    BY <1>0, <2>1, Types DEF CallOK
  <2> QED BY <1>0, <2>1, <2>2 DEF CallOK, Writing, PlaceOK, Total
<1>3. CASE OneSent
  <2>1. pc = "one" /\ ~(v[1].len > 0)
    BY <1>3 DEF OneSent, OneLeft
  <2>2. ChainOK /\ PlaceOK /\ count = 1 /\ i = 2 /\ Len(v) = 1 /\ pv = 1
    BY <1>0, <2>1 DEF CallOK, Writing
  <2>3. 1 \in DOMAIN v /\ v[1].base \in Nat /\ v[1].len \in Nat
    BY <1>0, <2>2, Types
  <2>4. v[1].base = Len(out) /\ v[1].base + v[1].len = starts[2]
    BY <2>1, <2>2, <2>3 DEF ChainOK, PlaceOK, EndOf
  <2>5. v[1].len = 0
    BY <2>1, <2>3
  <2>6. v[1].base + 0 = v[1].base
    BY <2>3
  <2> QED BY <2>2, <2>4, <2>5, <2>6 DEF Total
<1> QED BY <1>1, <1>2, <1>3

LEMMA StepOK == IInv /\ [Next]_vars => [S!Next]_S!vars
<1> SUFFICES ASSUME IInv, [Next]_vars PROVE [S!Next]_S!vars
  OBVIOUS
<1>1. CASE SomeTransfer
  <2>1. PICK m \in 1 .. Total : Transfer(m)
    BY <1>1 DEF SomeTransfer
  <2>2. m \in Nat /\ m > 0 /\ Total \in Nat
    BY <2>1, UpToTotal
  <2>3. /\ out' = out \o [j \in 1 .. m |-> Len(out) + j]
        /\ Len(out) + m <= starts[i]
    BY <2>1, <2>2, TransferOK
  <2>4. Len(out) + m <= Total
    <3>1. Len(out) \in Nat /\ starts[i] \in Nat /\ starts[i] <= Total
      BY UpToTotal, Types DEF IInv
    <3> QED BY <2>2, <2>3, <3>1
  <2>5. pc # "done" /\ UNCHANGED <<starts, open, ret>>
    BY <2>1 DEF Transfer, InKernel
  <2>6. ret = Running /\ Total' = Total
    BY <2>5 DEF IInv, CallOK, Total, count
  <2> QED BY <2>1, <2>3, <2>4, <2>5, <2>6 DEF S!Next, S!Put
<1>2. CASE CallNone \/ AllSent \/ OneSent
  <2>1. pc # "done" /\ UNCHANGED <<starts, out, open>> /\ ret' = 0
    BY <1>2 DEF CallNone, AllSent, OneSent, Finish
  <2>2. ret = Running /\ Total' = Total
    BY <2>1 DEF IInv, CallOK, Total, count
  <2> QED BY <1>2, <2>1, <2>2, AllWritten DEF S!Next, S!Succeed
<1>3. CASE \E e \in Errno : Failed(e)
  <2>1. PICK e \in Errno : Failed(e)
    BY <1>3
  <2>2. pc # "done" /\ UNCHANGED <<starts, out>> /\ ret' = e /\ open' = FALSE
    BY <2>1 DEF Failed, Finish, InKernel
  <2>3. ret = Running /\ Total' = Total
    BY <2>2 DEF IInv, CallOK, Total, count
  <2> QED BY <2>1, <2>2, <2>3 DEF S!Next, S!Fail
<1>4. CASE UNCHANGED <<starts, out, open, ret>>
  BY <1>4 DEF S!vars, Total, count
<1> QED BY <1>1, <1>2, <1>3, <1>4
     DEF Next, CallStep, KernelStep, CallOne, CallVec, SkipEmpty, Gather, LastBatch, syscall,
         Advance, Scroll, Again, BatchSent, Returned, Interrupted, Done, vars

\* str_concat_array_to_fd keeps the promise of api.md:283-286 for any number of
\* strings of any length and any partial, interrupted or failing writes: the
\* bytes reach the file in order, each once; 0 is returned when all have, and
\* an error only with the descriptor closed.
THEOREM WritesInOrder == Spec => Implements
<1>1. Init => S!Init
  <2> SUFFICES ASSUME Init PROVE S!Init
    OBVIOUS
  <2>1. IInv
    BY InitOK
  <2> QED BY <2>1, UpToTotal DEF Init, S!Init
<1> QED BY <1>1, StepOK, Inductive, PTL DEF Spec, Implements, S!Spec
=============================================================================
