-------------------------- MODULE StrArraysProofs --------------------------
(***************************************************************************)
(* The array functions keep every object and deliver the promised          *)
(* arrangement, for arrays of every length and any values and predicate.   *)
(***************************************************************************)
EXTENDS StrOrder, SequenceTheorems, StrLemmas

----------------------------------------------------------------------------
(* The inductive invariant. *)

\* The loop has not come to place b yet: the objects from there on are where
\* they were.
Untouched(b) == \A k \in Place : k >= b => array[k] = k

Ordered(n) == \A i, j \in 1 .. n : i < j => array[i] < array[j]

\* In front of s are matching strings in order, between s and p others.
PartitionOK ==
  /\ pc = "skip" => /\ p <= count + 1 /\ Untouched(1)
                    /\ \A k \in 1 .. p - 1 : pred(k)
  /\ pc = "move" => /\ s <= count + 1 /\ Untouched(p) /\ Ordered(s - 1)
                    /\ \A k \in 1 .. s - 1 : pred(k)
                    /\ \A k \in Place : k \in s .. p - 1 => ~pred(k)

\* Up to p are the firsts of the runs seen so far; the string at p begins the
\* run that the last object seen belongs to.
UniqueOK ==
  pc = "scan" => /\ Untouched(s) /\ Ordered(p)
                 /\ \A o \in Place : o < s => (First(o) <=> \E k \in 1 .. p : array[k] = o)
                 /\ value[array[p]] = value[s - 1]

CallOK ==
  /\ pc = "call" => p = 1 /\ Untouched(1)
  /\ pc \in {"skip", "move"} => fn = "partition"
  /\ pc = "scan" => fn = "unique"

IInv ==
  /\ TypeOK /\ Rearranged /\ CallOK /\ PartitionOK /\ UniqueOK
  /\ Partitioned /\ RunsCollapsed

----------------------------------------------------------------------------
LEMMA Types ==
  ASSUME TypeOK
  PROVE  /\ count \in Nat /\ value \in [Place -> Value]
         /\ \A k \in Place : k \in Nat /\ k >= 1 /\ k <= count /\ array[k] \in Place
BY LenProperties DEF TypeOK, Place, count

\* What is in front of the untouched part came from there.
LEMMA FrontFromFront ==
  ASSUME TypeOK, Rearranged, NEW b \in Nat, Untouched(b), NEW k \in Place, k < b
  PROVE  array[k] < b
<1>1. array[k] \in Place /\ k \in Nat /\ array[k] \in Nat
  BY Types
<1>2. ASSUME array[k] >= b PROVE FALSE
  <2>1. array[array[k]] = array[k]
    BY <1>1, <1>2 DEF Untouched
  <2>2. array[k] = k
    BY <1>1, <2>1 DEF Rearranged
  <2> QED BY <1>1, <1>2, <2>2
<1> QED BY <1>1, <1>2

\* A swap moves two objects and loses none.
LEMMA SwapStep ==
  ASSUME TypeOK, Rearranged, NEW i \in Place, NEW j \in Place,
         array' = Swapped(i, j), value' = value
  PROVE  /\ array' \in [Place -> Place]
         /\ \A k \in Place : array'[k] =
              IF k = j THEN array[i] ELSE IF k = i THEN array[j] ELSE array[k]
         /\ Rearranged'
<1>1. array \in [Place -> Place]
  BY DEF TypeOK
<1>2. /\ array' \in [Place -> Place]
      /\ \A k \in Place : array'[k] =
           IF k = j THEN array[i] ELSE IF k = i THEN array[j] ELSE array[k]
  BY <1>1 DEF Swapped
<1>3. \A k, l \in Place : array'[k] = array'[l] => k = l
  BY <1>2 DEF Rearranged
<1>4. ASSUME NEW o \in Place PROVE \E k \in Place : array'[k] = o
  <2>1. PICK k \in Place : array[k] = o
    BY DEF Rearranged
  <2>2. CASE k = i
    BY <1>2, <2>1, <2>2
  <2>3. CASE k = j
    BY <1>2, <2>1, <2>3
  <2>4. CASE k # i /\ k # j
    BY <1>2, <2>1, <2>4
  <2> QED BY <2>2, <2>3, <2>4
<1>5. Place' = Place
  BY DEF Place, count
<1> QED BY <1>2, <1>3, <1>4, <1>5 DEF Rearranged

\* A step that leaves the arrays alone keeps what is known of them.
LEMMA ArrayKept ==
  ASSUME TypeOK, Rearranged, UNCHANGED <<value, array>>
  PROVE  /\ Rearranged' /\ count' = count /\ Place' = Place
         /\ array' \in [Place -> Place] /\ value' \in Seq(Value)
         /\ \A k : pred(k)' <=> pred(k)
         /\ \A o : First(o)' <=> First(o)
BY DEF TypeOK, Rearranged, Place, count, pred, First

----------------------------------------------------------------------------
LEMMA InitIInv == Init => IInv
<1> SUFFICES ASSUME Init PROVE IInv
  OBVIOUS
<1>1. value \in Seq(Value)
  <2>1. PICK n \in 0 .. MaxCount : value \in [1 .. n -> Value]
    BY DEF Init
  <2>2. n \in Nat
    BY <2>1, ArraysAssumption
  <2> QED BY <2>1, <2>2, SeqDef
<1>2. count \in Nat /\ array = [k \in Place |-> k] /\ pc = "call" /\ p = 1 /\ s = 1 /\ ret = 0
  BY <1>1, LenProperties DEF Init, count, Place
<1>3. TypeOK
  BY <1>1, <1>2 DEF Init, TypeOK, Place
<1>4. Rearranged /\ CallOK
  BY <1>2 DEF Rearranged, CallOK, Untouched, Place
<1>5. PartitionOK /\ UniqueOK /\ Partitioned /\ RunsCollapsed
  BY <1>2 DEF PartitionOK, UniqueOK, Partitioned, RunsCollapsed, Returned
<1> QED BY <1>3, <1>4, <1>5 DEF IInv

\* A return with nothing to do, or with the loop behind it.
LEMMA ReturnStep ==
  ASSUME IInv, NEW r \in 0 .. count, Return(r),
         fn = "partition" /\ ~null =>
           /\ \A k \in Place : pred(k) <=> k \in 1 .. r
           /\ Ordered(r),
         fn = "unique" /\ ~null =>
           /\ \A o \in Place : First(o) <=> \E k \in 1 .. r : array[k] = o
           /\ Ordered(r)
  PROVE  IInv'
<1> USE DEF IInv, Return
<1>1. /\ Rearranged' /\ count' = count /\ Place' = Place
      /\ \A k : pred(k)' <=> pred(k)
      /\ \A o : First(o)' <=> First(o)
  BY ArrayKept
<1>2. TypeOK' /\ CallOK' /\ PartitionOK' /\ UniqueOK'
  BY <1>1 DEF TypeOK, CallOK, PartitionOK, UniqueOK
<1>3. Leading' = 1 .. r /\ InOrder' <=> Ordered(r)
  BY DEF Leading, InOrder, Ordered
<1>4. Partitioned' /\ RunsCollapsed'
  BY <1>1, <1>3 DEF Partitioned, RunsCollapsed, Returned
<1> QED BY <1>1, <1>2, <1>4

LEMMA PartitionStep ==
  ASSUME IInv, PartitionNothing \/ PartitionCall \/ Skip \/ Skipped \/ PartitionReturn
  PROVE  IInv'
<1> USE DEF IInv
<1>1. ASSUME PartitionNothing PROVE IInv'
  <2>1. 0 \in 0 .. count
    BY Types
  <2> QED BY <1>1, <2>1, ReturnStep DEF PartitionNothing, Ordered
<1>2. ASSUME PartitionCall PROVE IInv'
  <2>1. /\ Rearranged' /\ count' = count /\ Place' = Place
    BY <1>2, ArrayKept DEF PartitionCall, Goto
  <2>2. TypeOK' /\ CallOK' /\ Partitioned' /\ RunsCollapsed' /\ UniqueOK'
    BY <1>2, <2>1
       DEF PartitionCall, Goto, TypeOK, CallOK, UniqueOK, Partitioned, RunsCollapsed, Returned
  <2>3. PartitionOK'
    <3>1. p' = 1 /\ Untouched(1)' /\ count \in Nat
      BY <1>2, <2>1, Types DEF PartitionCall, Goto, CallOK, Untouched
    <3> QED BY <1>2, <2>1, <3>1 DEF PartitionCall, Goto, PartitionOK
  <2> QED BY <2>1, <2>2, <2>3
<1>3. ASSUME Skip PROVE IInv'
  <2>1. /\ Rearranged' /\ count' = count /\ Place' = Place /\ \A k : pred(k)' <=> pred(k)
    BY <1>3, ArrayKept DEF Skip, Goto
  <2>2. TypeOK' /\ CallOK' /\ Partitioned' /\ RunsCollapsed' /\ UniqueOK'
    BY <1>3, <2>1
       DEF Skip, Goto, TypeOK, CallOK, UniqueOK, Partitioned, RunsCollapsed, Returned
  <2>3. PartitionOK'
    <3>1. p \in Nat /\ count \in Nat /\ p' = p + 1 /\ p <= count /\ pred(p)
      BY <1>3, Types DEF Skip, TypeOK
    <3>2. Untouched(1)' /\ \A k \in 1 .. p : pred(k)
      BY <1>3, <2>1, <3>1 DEF Skip, PartitionOK, Untouched
    <3> QED BY <1>3, <2>1, <3>1, <3>2 DEF Skip, Goto, PartitionOK
  <2> QED BY <2>1, <2>2, <2>3
<1>4. ASSUME Skipped PROVE IInv'
  <2>1. /\ Rearranged' /\ count' = count /\ Place' = Place /\ \A k : pred(k)' <=> pred(k)
    BY <1>4, ArrayKept DEF Skipped, Goto
  <2>2. p \in Nat \ {0} /\ count \in Nat /\ s' = p /\ p' = p + 1 /\ p <= count + 1
    BY <1>4, Types DEF Skipped, TypeOK, PartitionOK
  <2>3. TypeOK' /\ CallOK' /\ Partitioned' /\ RunsCollapsed' /\ UniqueOK'
    BY <1>4, <2>1, <2>2
       DEF Skipped, Goto, TypeOK, CallOK, UniqueOK, Partitioned, RunsCollapsed, Returned
  <2>4. PartitionOK'
    <3>1. Untouched(p') /\ Ordered(s' - 1) /\ array' = array
      <4>1. \A k \in Place : array[k] = k
        BY <1>4, Types DEF Skipped, PartitionOK, Untouched
      <4>2. \A k \in 1 .. p - 1 : k \in Place
        BY <2>2 DEF Place
      <4> QED BY <1>4, <2>1, <2>2, <4>1, <4>2 DEF Skipped, Untouched, Ordered
    <3>2. \A k \in 1 .. p - 1 : pred(k)
      BY <1>4 DEF Skipped, PartitionOK
    <3>3. \A k \in Place : k \in p .. p => ~pred(k)
      BY <1>4, <2>2 DEF Skipped, Place
    <3>4. p + 1 - 1 = p
      BY <2>2
    <3> QED BY <1>4, <2>1, <2>2, <3>1, <3>2, <3>3, <3>4
       DEF Skipped, Goto, PartitionOK, Untouched, Ordered
  <2> QED BY <2>1, <2>3, <2>4
<1>5. ASSUME PartitionReturn PROVE IInv'
  <2>1. /\ s \in Nat \ {0} /\ p \in Nat /\ count \in Nat /\ s <= count + 1 /\ p > count
        /\ Ordered(s - 1) /\ \A k \in 1 .. s - 1 : pred(k)
        /\ \A k \in Place : k \in s .. p - 1 => ~pred(k)
    BY <1>5, Types DEF PartitionReturn, PartitionOK, TypeOK
  <2>2. s - 1 \in 0 .. count
    BY <2>1
  <2>3. \A k \in Place : pred(k) <=> k \in 1 .. s - 1
    BY <2>1 DEF Place
  <2>4. fn = "partition"
    BY <1>5 DEF PartitionReturn, CallOK
  <2>5. Return(s - 1)
    BY <1>5 DEF PartitionReturn
  <2> HIDE DEF IInv
  <2> QED BY <2>1, <2>2, <2>3, <2>4, <2>5, ReturnStep
<1> QED BY <1>1, <1>2, <1>3, <1>4, <1>5

\* The swap brings the matching string at p to the end of the front; the one
\* it replaces there does not match.
LEMMA MoveStep ==
  ASSUME IInv, Move
  PROVE  IInv'
<1> USE DEF IInv
<1>1. /\ s \in Nat \ {0} /\ p \in Nat /\ count \in Nat /\ p <= count /\ s < p
      /\ s \in Place /\ p \in Place /\ p' = p + 1
      /\ count' = count /\ Place' = Place /\ value' = value /\ UNCHANGED <<fn, null, ret, pc>>
      /\ pc = "move" /\ fn = "partition"
  BY Types DEF Move, Goto, TypeOK, Place, count, CallOK
<1>2. /\ Untouched(p) /\ Ordered(s - 1) /\ \A k \in 1 .. s - 1 : pred(k)
      /\ \A k \in Place : k \in s .. p - 1 => ~pred(k)
  BY <1>1 DEF PartitionOK
<1>3. CallOK' /\ UniqueOK' /\ Partitioned' /\ RunsCollapsed'
  BY <1>1 DEF CallOK, UniqueOK, Partitioned, RunsCollapsed, Returned
<1>4. CASE ~pred(p)
  <2>1. array' = array /\ s' = s
    BY <1>4 DEF Move
  <2>2. Rearranged' /\ \A k : pred(k)' <=> pred(k)
    BY <1>1, <2>1, ArrayKept
  <2>3. TypeOK'
    BY <1>1, <2>1 DEF TypeOK
  <2>4. Untouched(p)' /\ Ordered(s - 1)'
    BY <1>1, <1>2, <2>1 DEF Untouched, Ordered, Place
  <2>5. \A k \in Place : k \in s .. p => ~pred(k)
    BY <1>1, <1>2, <1>4 DEF Place
  <2>6. s <= count + 1 /\ p' - 1 = p
    BY <1>1
  <2>7. PartitionOK'
    BY <1>1, <1>2, <2>1, <2>2, <2>4, <2>5, <2>6 DEF PartitionOK
  <2> QED BY <1>3, <2>2, <2>3, <2>7
<1>5. CASE pred(p)
  <2>1. array' = Swapped(s, p) /\ s' = s + 1
    BY <1>5 DEF Move
  <2>2. /\ array' \in [Place -> Place]
        /\ \A k \in Place : array'[k] =
             IF k = p THEN array[s] ELSE IF k = s THEN array[p] ELSE array[k]
        /\ Rearranged'
    <3> HIDE DEF IInv
    <3>1. TypeOK /\ Rearranged
      BY DEF IInv
    <3> QED BY <1>1, <2>1, <3>1, SwapStep
  <2>3. TypeOK'
    BY <1>1, <2>1, <2>2 DEF TypeOK
  <2>4. Untouched(p)'
    <3>1. ASSUME NEW k \in Place, k >= p + 1 PROVE array'[k] = k
      <4>1. k \in Nat /\ k # p /\ k # s /\ k >= p
        BY <1>1, <3>1 DEF Place
      <4> QED BY <1>2, <2>2, <4>1 DEF Untouched
    <3> QED BY <1>1, <3>1 DEF Untouched
  <2>5. \A i, j \in 1 .. s : i < j => array'[i] < array'[j]
    <3>1. ASSUME NEW k \in 1 .. s - 1
          PROVE  k \in Place /\ k < p /\ array'[k] = array[k] /\ array[k] < p
      <4>1. k \in Place /\ k < p /\ k # s
        BY <1>1 DEF Place
      <4> QED BY <1>1, <1>2, <2>2, <4>1, FrontFromFront
    <3>2. array'[s] = p
      BY <1>1, <1>2, <2>2 DEF Untouched
    <3>3. ASSUME NEW i \in 1 .. s, NEW j \in 1 .. s, i < j PROVE array'[i] < array'[j]
      <4>1. i \in 1 .. s - 1
        BY <1>1, <3>3
      <4>2. CASE j = s
        BY <3>1, <3>2, <4>1, <4>2
      <4>3. CASE j # s
        <5>1. j \in 1 .. s - 1
          BY <1>1, <4>3
        <5> QED BY <1>2, <3>1, <3>3, <4>1, <5>1 DEF Ordered
      <4> QED BY <4>2, <4>3
    <3> QED BY <3>3
  <2>6. \A k \in 1 .. s : value[array'[k]] \in Pred
    <3>1. \A k \in 1 .. s - 1 : k \in Place /\ k # p /\ k # s
      BY <1>1 DEF Place
    <3>2. value[array'[s]] \in Pred
      BY <1>1, <1>5, <2>2 DEF pred
    <3>3. \A k \in 1 .. s - 1 : value[array'[k]] \in Pred
      BY <1>1, <1>2, <2>2, <3>1 DEF pred
    <3> QED BY <1>1, <3>2, <3>3
  <2>7. ASSUME NEW k \in Place, k \in s + 1 .. p PROVE ~(value[array'[k]] \in Pred)
    <3>1. CASE k = p
      <4>1. ~pred(s) /\ array'[p] = array[s]
        BY <1>1, <1>2, <2>2
      <4> QED BY <1>1, <3>1, <4>1 DEF pred
    <3>2. CASE k # p
      <4>1. k \in s .. p - 1 /\ k # s
        BY <1>1, <2>7, <3>2
      <4>2. array'[k] = array[k] /\ ~pred(k)
        BY <1>2, <2>2, <3>2, <4>1
      <4> QED BY <1>1, <4>2 DEF pred
    <3> QED BY <3>1, <3>2
  <2>8. s' <= count + 1 /\ p' - 1 = p /\ s' - 1 = s
    BY <1>1, <2>1
  <2>9. Ordered(s - 1)' /\ PartitionOK'
    BY <1>1, <2>1, <2>4, <2>5, <2>6, <2>7, <2>8 DEF PartitionOK, Ordered, pred
  <2> QED BY <1>3, <2>2, <2>3, <2>9
<1> QED BY <1>4, <1>5

LEMMA UniqueStep ==
  ASSUME IInv, UniqueNothing \/ UniqueOne \/ UniqueCall \/ UniqueReturn
  PROVE  IInv'
<1>1. ASSUME UniqueNothing PROVE IInv'
  <2>1. 0 \in 0 .. count /\ fn = "unique" /\ Return(0) /\ (~null => Place = {})
    BY <1>1, Types DEF IInv, UniqueNothing, Place
  <2> QED BY <2>1, ReturnStep DEF Ordered
<1>2. ASSUME UniqueOne PROVE IInv'
  <2>1. /\ 1 \in 0 .. count /\ fn = "unique" /\ Return(1) /\ Place = {1}
    BY <1>2 DEF UniqueOne, Place
  <2>2. array[1] = 1 /\ First(1)
    BY <1>2, <2>1 DEF IInv, UniqueOne, CallOK, Untouched, First
  <2>3. Ordered(1) /\ \A o \in Place : First(o) <=> \E k \in 1 .. 1 : array[k] = o
    BY <2>1, <2>2 DEF Ordered
  <2> QED BY <1>2, <2>1, <2>3, ReturnStep
<1>3. ASSUME UniqueCall PROVE IInv'
  <2> USE DEF IInv
  <2>1. /\ Rearranged' /\ count' = count /\ Place' = Place
        /\ \A o : First(o)' <=> First(o)
    BY <1>3, ArrayKept DEF UniqueCall, Goto
  <2>2. s' = 2 /\ p' = 1 /\ p = 1 /\ pc' = "scan" /\ count > 1 /\ count \in Nat
        /\ array' = array /\ value' = value
    BY <1>3, Types DEF UniqueCall, Goto, CallOK
  <2>3. TypeOK' /\ CallOK' /\ Partitioned' /\ RunsCollapsed' /\ PartitionOK'
    BY <1>3, <2>1, <2>2
       DEF UniqueCall, Goto, TypeOK, CallOK, PartitionOK, Partitioned, RunsCollapsed, Returned
  <2>4. Untouched(1) /\ 1 \in Place
    BY <1>3, <2>2 DEF UniqueCall, CallOK, Place
  <2>5. array[1] = 1 /\ First(1)
    BY <2>4 DEF Untouched, First
  <2>6. \A o \in Place : o < 2 => (First(o) <=> \E k \in 1 .. 1 : array[k] = o)
    BY <2>2, <2>5 DEF Place
  <2>7. Untouched(2) /\ Ordered(1)
    BY <2>2, <2>4 DEF Untouched, Ordered, Place
  <2>8. UniqueOK'
    BY <2>1, <2>2, <2>5, <2>6, <2>7 DEF UniqueOK, Untouched, Ordered
  <2> QED BY <2>1, <2>3, <2>8
<1>4. ASSUME UniqueReturn PROVE IInv'
  <2>1. /\ p \in Nat \ {0} /\ s \in Nat /\ count \in Nat /\ p < s /\ s <= count + 1 /\ s > count
        /\ fn = "unique" /\ Return(p) /\ Ordered(p)
        /\ \A o \in Place : o < s => (First(o) <=> \E k \in 1 .. p : array[k] = o)
    BY <1>4, Types DEF IInv, UniqueReturn, UniqueOK, TypeOK, CallOK
  <2>2. p \in 0 .. count /\ \A o \in Place : o < s
    BY <2>1 DEF Place
  <2> QED BY <2>1, <2>2, ReturnStep
<1> QED BY <1>1, <1>2, <1>3, <1>4

\* The object at s begins a run exactly if it differs from the last of the
\* firsts; if so it joins them.
LEMMA ScanStep ==
  ASSUME IInv, Scan
  PROVE  IInv'
<1>1. /\ TypeOK /\ Rearranged
      /\ s \in Nat \ {0} /\ p \in Nat \ {0} /\ count \in Nat /\ s <= count /\ p < s
      /\ s \in Place /\ p \in Place /\ s' = s + 1
      /\ count' = count /\ Place' = Place /\ value' = value /\ UNCHANGED <<fn, null, ret, pc>>
      /\ pc = "scan" /\ fn = "unique"
  BY Types DEF IInv, Scan, Goto, TypeOK, Place, count, CallOK
<1>2. /\ Untouched(s) /\ Ordered(p)
      /\ \A o \in Place : o < s => (First(o) <=> \E k \in 1 .. p : array[k] = o)
      /\ value[array[p]] = value[s - 1]
  BY <1>1 DEF IInv, UniqueOK
<1>3. CallOK' /\ PartitionOK' /\ Partitioned' /\ RunsCollapsed'
  BY <1>1 DEF IInv, CallOK, PartitionOK, Partitioned, RunsCollapsed, Returned
<1>4. array[s] = s /\ (First(s) <=> ~str_eq(p, s)) /\ \A o : First(o)' <=> First(o)
  BY <1>1, <1>2 DEF Untouched, First, str_eq
<1>5. ASSUME NEW k \in 1 .. p PROVE k \in Place /\ k < s /\ array[k] \in Nat /\ array[k] < s
  <2>1. k \in Place /\ k < s
    BY <1>1 DEF Place
  <2>2. array[k] \in Place
    BY <1>1, <2>1, Types
  <2> QED BY <1>1, <1>2, <2>1, <2>2, FrontFromFront DEF Place
<1>6. CASE ~Differs
  <2>1. array' = array /\ p' = p
    BY <1>6 DEF Scan
  <2>2. Rearranged'
    BY <1>1, <2>1, ArrayKept
  <2>3. TypeOK'
    BY <1>1, <2>1 DEF TypeOK
  <2>4. ~First(s) /\ value[array[p]] = value[s]
    BY <1>4, <1>6 DEF Differs, str_eq
  <2>5. \A o \in Place : o < s + 1 => (First(o) <=> \E k \in 1 .. p : array[k] = o)
    <3>1. ASSUME NEW o \in Place, o < s + 1, o # s PROVE o < s
      BY <1>1, <3>1 DEF Place
    <3> QED BY <1>2, <1>5, <2>4, <3>1
  <2>6. \A k \in Place : k >= s + 1 => array[k] = k
    BY <1>1, <1>2 DEF Untouched, Place
  <2>7. s' - 1 = s
    BY <1>1
  <2>8. UniqueOK'
    BY <1>1, <1>2, <1>4, <2>1, <2>4, <2>5, <2>6, <2>7 DEF UniqueOK, Untouched, Ordered
  <2> QED BY <1>3, <2>2, <2>3, <2>8 DEF IInv
<1>7. CASE Differs
  <2>1. p' = p + 1 /\ p + 1 \in Place /\ p + 1 <= s
    BY <1>1, <1>7 DEF Scan, Place
  <2>2. /\ array' \in [Place -> Place] /\ Rearranged'
        /\ array'[p + 1] = s
        /\ \A k \in 1 .. p : array'[k] = array[k]
        /\ \A k \in Place : k > s => array'[k] = array[k]
    <3>1. CASE p + 1 < s
      <4>1. array' = Swapped(p + 1, s)
        BY <1>7, <2>1, <3>1 DEF Scan
      <4>2. /\ array' \in [Place -> Place] /\ Rearranged'
            /\ \A k \in Place : array'[k] =
                 IF k = s THEN array[p + 1] ELSE IF k = p + 1 THEN array[s] ELSE array[k]
        BY <1>1, <2>1, <4>1, SwapStep
      <4>3. \A k \in 1 .. p : k \in Place /\ k # s /\ k # p + 1
        BY <1>1, <1>5
      <4>4. \A k \in Place : k > s => k # s /\ k # p + 1
        BY <1>1, <2>1 DEF Place
      <4> QED BY <1>1, <1>4, <2>1, <3>1, <4>2, <4>3, <4>4
    <3>2. CASE p + 1 = s
      <4>1. array' = array
        BY <1>1, <1>7, <2>1, <3>2 DEF Scan
      <4> QED BY <1>1, <1>4, <3>2, <4>1, ArrayKept
    <3> QED BY <1>1, <2>1, <3>1, <3>2
  <2>3. TypeOK'
    BY <1>1, <2>1, <2>2 DEF TypeOK
  <2>4. First(s)
    BY <1>4, <1>7 DEF Differs
  <2>5. ASSUME NEW o \in Place, o < s + 1
        PROVE  First(o) <=> \E k \in 1 .. p + 1 : array'[k] = o
    <3>1. CASE o = s
      BY <1>1, <2>2, <2>4, <3>1
    <3>2. CASE o # s
      <4>1. o < s
        BY <1>1, <2>5, <3>2 DEF Place
      <4>2. \A k \in 1 .. p + 1 : k \in 1 .. p \/ k = p + 1
        BY <1>1
      <4>3. \A k \in 1 .. p : k \in 1 .. p + 1
        BY <1>1
      <4> QED BY <1>2, <2>2, <3>2, <4>1, <4>2, <4>3
    <3> QED BY <3>1, <3>2
  <2>6. \A i, j \in 1 .. p + 1 : i < j => array'[i] < array'[j]
    <3>1. ASSUME NEW i \in 1 .. p + 1, NEW j \in 1 .. p + 1, i < j
          PROVE  array'[i] < array'[j]
      <4>1. i \in 1 .. p
        BY <1>1, <3>1
      <4>2. CASE j = p + 1
        BY <1>5, <2>2, <4>1, <4>2
      <4>3. CASE j # p + 1
        <5>1. j \in 1 .. p
          BY <1>1, <4>3
        <5> QED BY <1>2, <2>2, <3>1, <4>1, <5>1 DEF Ordered
      <4> QED BY <4>2, <4>3
    <3> QED BY <3>1
  <2>7. \A k \in Place : k >= s + 1 => array'[k] = k
    <3>1. \A k \in Place : k >= s + 1 => k > s /\ k >= s
      BY <1>1 DEF Place
    <3> QED BY <1>2, <2>2, <3>1 DEF Untouched
  <2>8. s' - 1 = s /\ value[array'[p + 1]] = value[s]
    BY <1>1, <2>2
  <2>9. UniqueOK'
    BY <1>1, <1>4, <2>1, <2>2, <2>5, <2>6, <2>7, <2>8 DEF UniqueOK, Untouched, Ordered
  <2> QED BY <1>3, <2>2, <2>3, <2>9 DEF IInv
<1> QED BY <1>6, <1>7

LEMMA NextIInv ==
  ASSUME IInv, [Next]_vars
  PROVE  IInv'
<1>1. ASSUME UNCHANGED vars PROVE IInv'
  BY <1>1 DEF vars, IInv, TypeOK, Rearranged, CallOK, PartitionOK, UniqueOK, Partitioned,
     RunsCollapsed, Returned, Leading, InOrder, Untouched, Ordered, First, pred, Place, count
<1> QED BY <1>1, PartitionStep, MoveStep, UniqueStep, ScanStep DEF Next, Done

LEMMA Invariance == Spec => []IInv
<1>1. Init => IInv
  BY InitIInv
<1>2. IInv /\ [Next]_vars => IInv'
  BY NextIInv
<1> QED BY <1>1, <1>2, PTL DEF Spec

----------------------------------------------------------------------------
\* Both functions read and write inside the array only, and return no more
\* than its length.
THEOREM TypeCorrect == Spec => []TypeOK
<1>1. IInv => TypeOK
  BY DEF IInv
<1> QED BY <1>1, Invariance, PTL

\* No object is lost or doubled by the swaps, at any moment.
THEOREM OnlyMovedAround == Spec => []Rearranged
<1>1. IInv => Rearranged
  BY DEF IInv
<1> QED BY <1>1, Invariance, PTL

\* str_partition_array leaves the matching strings in front, in their order,
\* and returns their number.
THEOREM MatchesInFront == Spec => []Partitioned
<1>1. IInv => Partitioned
  BY DEF IInv
<1> QED BY <1>1, Invariance, PTL

\* str_unique_partition_array leaves the first string of every run in front,
\* whatever the order of the array.
THEOREM FirstOfEachRunInFront == Spec => []RunsCollapsed
<1>1. IInv => RunsCollapsed
  BY DEF IInv
<1> QED BY <1>1, Invariance, PTL

\* Of an array whose equal strings stand together, the least object with a
\* value begins the run of that value; no other object with it does.
LEMMA GroupedRuns ==
  ASSUME IInv
  PROVE  UniqueInFront
<1> SUFFICES ASSUME Returned("unique"), Grouped PROVE
      /\ \A i, j \in Leading : i # j => ~str_eq(i, j)
      /\ \A k \in Place : \E i \in Leading : str_eq(i, k)
  BY DEF UniqueInFront
<1>1. /\ TypeOK /\ Rearranged /\ count \in Nat /\ Leading \subseteq Place
      /\ \A o \in Place : First(o) <=> \E k \in Leading : array[k] = o
      /\ \A k \in Place : array[k] \in Place
  BY Types DEF IInv, TypeOK, RunsCollapsed, Leading, Place
<1>2. ASSUME NEW o1 \in Place, NEW o2 \in Place, o1 < o2, value[o1] = value[o2]
      PROVE  ~First(o2)
  <2>1. o2 - 1 \in o1 .. o2 /\ o2 # 1
    BY <1>1, <1>2 DEF Place
  <2>2. value[o2 - 1] = value[o1]
    BY <1>2, <2>1 DEF Grouped
  <2> QED BY <1>2, <2>1, <2>2 DEF First
<1>3. ASSUME NEW i \in Leading, NEW j \in Leading, i # j PROVE ~str_eq(i, j)
  <2>1. /\ i \in Place /\ j \in Place /\ array[i] \in Place /\ array[j] \in Place
        /\ array[i] # array[j]
    BY <1>1, <1>3 DEF Rearranged
  <2>2. First(array[i]) /\ First(array[j])
    BY <1>1, <2>1
  <2>3. array[i] < array[j] \/ array[j] < array[i]
    BY <2>1 DEF Place
  <2> QED BY <1>2, <2>1, <2>2, <2>3 DEF str_eq
<1>4. ASSUME NEW k \in Place PROVE \E i \in Leading : str_eq(i, k)
  <2> DEFINE Same == {o \in Place : value[o] = value[array[k]]}
  <2>1. Same \in SUBSET Nat /\ Same # {}
    BY <1>1, <1>4 DEF Place
  <2>2. PICK o \in Same : \A m \in Same : o <= m
    <3> HIDE DEF Same
    <3> QED BY <2>1, LeastNumber
  <2>3. o \in Place /\ value[o] = value[array[k]] /\ o \in Nat
    BY <2>1, <2>2
  <2>4. First(o)
    <3>1. ASSUME o # 1, value[o] = value[o - 1] PROVE FALSE
      <4>1. o - 1 \in Place /\ ~(o <= o - 1)
        BY <1>1, <2>3, <3>1 DEF Place
      <4>2. o - 1 \in Same
        BY <2>3, <3>1, <4>1
      <4> QED BY <2>2, <4>1, <4>2
    <3> QED BY <3>1 DEF First
  <2>5. PICK i \in Leading : array[i] = o
    BY <1>1, <2>3, <2>4
  <2> QED BY <2>3, <2>5 DEF str_eq
<1> QED BY <1>3, <1>4

\* Of a sorted array, str_unique_partition_array leaves every string in front
\* exactly once.
THEOREM SortedMadeUnique == Spec => []UniqueInFront
<1>1. IInv => UniqueInFront
  BY GroupedRuns
<1> QED BY <1>1, Invariance, PTL

----------------------------------------------------------------------------
(* The dictionary order of StrOrder is strict and total, and the sign of   *)
(* every result of the comparison functions tells it.                      *)

\* What Before says, byte by byte: they are the same up to n.
BeforeAt(x, y, n) ==
  /\ n \in Nat /\ n <= Len(x) /\ n < Len(y)
  /\ \A k \in 1 .. n : x[k] = y[k]
  /\ n = Len(x) \/ x[n + 1] < y[n + 1]

Text == Seq(0 .. 255)

LEMMA TextTypes ==
  ASSUME NEW x \in Text
  PROVE  Len(x) \in Nat /\ \A k \in 1 .. Len(x) : x[k] \in Int
<1>1. x \in [1 .. Len(x) -> 0 .. 255] /\ Len(x) \in Nat
  BY LenProperties DEF Text
<1>2. 0 .. 255 \subseteq Int
  OBVIOUS
<1> QED BY <1>1, <1>2

LEMMA BeforeIs ==
  ASSUME NEW x \in Text, NEW y \in Text
  PROVE  Before(x, y) <=> \E n \in Nat : BeforeAt(x, y, n)
<1>1. Len(x) \in Nat /\ Len(y) \in Nat
  BY TextTypes
<1>2. ASSUME NEW n \in Nat, n <= Len(x), n < Len(y)
      PROVE  SubSeq(x, 1, n) = SubSeq(y, 1, n) <=> \A k \in 1 .. n : x[k] = y[k]
  <2>1. SubSeq(x, 1, n) = [k \in 1 .. n |-> x[k]] /\ SubSeq(y, 1, n) = [k \in 1 .. n |-> y[k]]
    BY <1>1, <1>2 DEF Text
  <2> QED BY <2>1
<1>3. ASSUME Before(x, y) PROVE \E n \in Nat : BeforeAt(x, y, n)
  <2>1. PICK n \in 0 .. Len(x) :
          /\ SubSeq(x, 1, n) = SubSeq(y, 1, n) /\ n < Len(y)
          /\ n = Len(x) \/ x[n + 1] < y[n + 1]
    BY <1>3 DEF Before
  <2> QED BY <1>1, <1>2, <2>1 DEF BeforeAt
<1>4. ASSUME NEW n \in Nat, BeforeAt(x, y, n) PROVE Before(x, y)
  <2>1. n \in 0 .. Len(x) /\ SubSeq(x, 1, n) = SubSeq(y, 1, n)
    BY <1>1, <1>2, <1>4 DEF BeforeAt
  <2> QED BY <1>4, <2>1 DEF Before, BeforeAt
<1> QED BY <1>3, <1>4

LEMMA BeforeStrict ==
  ASSUME NEW x \in Text
  PROVE  ~Before(x, x)
<1>1. ASSUME NEW n \in Nat, BeforeAt(x, x, n) PROVE FALSE
  <2>1. Len(x) \in Nat /\ n < Len(x) /\ x[n + 1] < x[n + 1] /\ n + 1 \in 1 .. Len(x)
    BY <1>1, TextTypes DEF BeforeAt
  <2>2. x[n + 1] \in Int
    BY <2>1, TextTypes
  <2> QED BY <2>1, <2>2
<1> QED BY <1>1, BeforeIs

\* The shorter of the two common beginnings decides.
LEMMA BeforeTransitive ==
  ASSUME NEW x \in Text, NEW y \in Text, NEW z \in Text, Before(x, y), Before(y, z)
  PROVE  Before(x, z)
<1>1. PICK n \in Nat : BeforeAt(x, y, n)
  BY BeforeIs
<1>2. PICK m \in Nat : BeforeAt(y, z, m)
  BY BeforeIs
<1>3. Len(x) \in Nat /\ Len(y) \in Nat /\ Len(z) \in Nat
  BY TextTypes
<1>4. /\ n <= Len(x) /\ n < Len(y) /\ (n = Len(x) \/ x[n + 1] < y[n + 1])
      /\ m <= Len(y) /\ m < Len(z) /\ (m = Len(y) \/ y[m + 1] < z[m + 1])
      /\ \A k \in 1 .. n : x[k] = y[k]
      /\ \A k \in 1 .. m : y[k] = z[k]
  BY <1>1, <1>2 DEF BeforeAt
<1>5. /\ n < Len(x) => x[n + 1] \in Int
      /\ n < Len(y) => y[n + 1] \in Int
      /\ m < Len(z) => z[m + 1] \in Int
  BY <1>3, TextTypes
<1>6. CASE n < m
  <2>1. \A k \in 1 .. n : x[k] = z[k]
    BY <1>4, <1>6
  <2>2. y[n + 1] = z[n + 1]
    BY <1>4, <1>6
  <2>3. BeforeAt(x, z, n)
    BY <1>3, <1>4, <1>6, <2>1, <2>2 DEF BeforeAt
  <2> QED BY <2>3, BeforeIs
<1>7. CASE n = m
  <2>1. \A k \in 1 .. n : x[k] = z[k]
    BY <1>4, <1>7
  <2>2. n = Len(x) \/ x[n + 1] < z[n + 1]
    BY <1>3, <1>4, <1>5, <1>7
  <2>3. BeforeAt(x, z, n)
    BY <1>3, <1>4, <1>7, <2>1, <2>2 DEF BeforeAt
  <2> QED BY <2>3, BeforeIs
<1>8. CASE m < n
  <2>1. \A k \in 1 .. m : x[k] = z[k]
    BY <1>4, <1>8
  <2>2. x[m + 1] = y[m + 1]
    BY <1>4, <1>8
  <2>3. BeforeAt(x, z, m)
    BY <1>3, <1>4, <1>8, <2>1, <2>2 DEF BeforeAt
  <2> QED BY <2>3, BeforeIs
<1> QED BY <1>6, <1>7, <1>8

\* memcmp of the first n bytes gives 0 only if they are the same, and
\* otherwise the sign of the first difference.
LEMMA MemcmpSign ==
  ASSUME NEW x \in Text, NEW y \in Text,
         NEW n \in Nat, n <= Len(x), n <= Len(y), NEW r \in memcmp(x, y, n)
  PROVE  /\ r \in Int
         /\ r = 0 => \A k \in 1 .. n : x[k] = y[k]
         /\ r < 0 => \E m \in Nat : m < n /\ BeforeAt(x, y, m)
         /\ r > 0 => \E m \in Nat : m < n /\ BeforeAt(y, x, m)
<1> DEFINE differ == {k \in 1 .. n : x[k] # y[k]}
<1>1. CASE differ = {}
  <2>1. r = 0
    BY <1>1 DEF memcmp
  <2> QED BY <1>1, <2>1
<1>2. CASE differ # {}
  <2>1. PICK k \in differ : \A j \in differ : k <= j
    <3>1. differ \in SUBSET Nat
      OBVIOUS
    <3> HIDE DEF differ
    <3> QED BY <1>2, <3>1, LeastNumber
  <2>2. k \in 1 .. n /\ x[k] # y[k] /\ k - 1 \in Nat /\ k - 1 < n
    BY <2>1
  <2>3. \A j \in 1 .. k - 1 : x[j] = y[j]
    <3>1. ASSUME NEW j \in 1 .. k - 1, x[j] # y[j] PROVE FALSE
      <4>1. j \in differ /\ ~(k <= j)
        BY <2>2, <3>1
      <4> QED BY <2>1, <4>1
    <3> QED BY <3>1
  <2>4. x[k] \in Int /\ y[k] \in Int /\ Len(x) \in Nat /\ Len(y) \in Nat
    BY <2>2, TextTypes
  <2>5. \A l \in differ : (\A j \in differ : l <= j) => l = k
    <3>1. \A l \in differ : l \in Nat
      OBVIOUS
    <3> HIDE DEF differ
    <3> QED BY <2>1, <3>1
  <2>6. IF x[k] < y[k] THEN r \in -INT_MAX .. -1 ELSE r \in 1 .. INT_MAX
    <3>1. memcmp(x, y, n) =
            IF \E l \in differ : (\A j \in differ : l <= j) /\ x[l] < y[l]
            THEN -INT_MAX .. -1 ELSE 1 .. INT_MAX
      BY <1>2 DEF memcmp
    <3> HIDE DEF differ
    <3>2. (\E l \in differ : (\A j \in differ : l <= j) /\ x[l] < y[l]) <=> x[k] < y[k]
      BY <2>1, <2>5
    <3> QED BY <3>1, <3>2
  <2>7. CASE x[k] < y[k]
    <3>1. r \in Int /\ r < 0
      BY <2>6, <2>7, OrderAssumption
    <3>2. BeforeAt(x, y, k - 1)
      <4>1. (k - 1) + 1 = k
        BY <2>2
      <4> QED BY <2>2, <2>3, <2>4, <2>7, <4>1 DEF BeforeAt
    <3> QED BY <2>2, <3>1, <3>2
  <2>8. CASE ~(x[k] < y[k])
    <3>1. r \in Int /\ r > 0
      BY <2>6, <2>8, OrderAssumption
    <3>2. BeforeAt(y, x, k - 1)
      <4>1. (k - 1) + 1 = k /\ y[k] < x[k]
        BY <2>2, <2>4, <2>8
      <4> QED BY <2>2, <2>3, <2>4, <4>1 DEF BeforeAt
    <3> QED BY <2>2, <3>1, <3>2
  <2> QED BY <2>7, <2>8
<1> QED BY <1>1, <1>2

\* Where one string begins the other, the shorter comes first.
LEMMA CompareSign ==
  ASSUME NEW x \in Text, NEW y \in Text, NEW r \in str_cmp(x, y)
  PROVE  /\ r \in Int
         /\ r <= 0 => x = y \/ Before(x, y)
         /\ r >= 0 => x = y \/ Before(y, x)
<1> DEFINE n == IF Len(x) < Len(y) THEN Len(x) ELSE Len(y)
<1>1. Len(x) \in Nat /\ Len(y) \in Nat /\ n \in Nat /\ n <= Len(x) /\ n <= Len(y)
  BY TextTypes
<1>2. PICK res \in memcmp(x, y, n) :
        r = IF res # 0 \/ Len(x) = Len(y) THEN res ELSE IF Len(x) < Len(y) THEN -1 ELSE 1
  BY DEF str_cmp
<1>3. n = IF Len(x) < Len(y) THEN Len(x) ELSE Len(y)
  OBVIOUS
<1> HIDE DEF n
<1>4. /\ res \in Int
      /\ res = 0 => \A k \in 1 .. n : x[k] = y[k]
      /\ res < 0 => \E m \in Nat : m < n /\ BeforeAt(x, y, m)
      /\ res > 0 => \E m \in Nat : m < n /\ BeforeAt(y, x, m)
  BY <1>1, <1>2, MemcmpSign
<1>5. CASE res < 0
  <2>1. Before(x, y)
    BY <1>4, <1>5, BeforeIs
  <2> QED BY <1>2, <1>4, <1>5, <2>1
<1>6. CASE res > 0
  <2>1. Before(y, x)
    BY <1>4, <1>6, BeforeIs
  <2> QED BY <1>2, <1>4, <1>6, <2>1
<1>7. CASE res = 0
  <2>1. CASE Len(x) = Len(y)
    <3>1. x = y
      BY <1>1, <1>3, <1>4, <1>7, <2>1, SeqEqual DEF Text
    <3> QED BY <1>2, <1>7, <3>1
  <2>2. CASE Len(x) < Len(y)
    <3>1. r = -1 /\ BeforeAt(x, y, Len(x))
      BY <1>1, <1>2, <1>3, <1>4, <1>7, <2>2 DEF BeforeAt
    <3> QED BY <1>1, <3>1, BeforeIs
  <2>3. CASE Len(y) < Len(x)
    <3>1. r = 1 /\ BeforeAt(y, x, Len(y))
      BY <1>1, <1>2, <1>3, <1>4, <1>7, <2>3 DEF BeforeAt
    <3> QED BY <1>1, <3>1, BeforeIs
  <2> QED BY <1>1, <2>1, <2>2, <2>3
<1> QED BY <1>4, <1>5, <1>6, <1>7

----------------------------------------------------------------------------
(* The inductive invariant of sorting, then making unique. *)

\* How the chosen comparison function orders two strings.
Precedes(x, y) == IF cmp = "asc" THEN Before(x, y) ELSE Before(y, x)

\* No two neighbours are in the wrong order.
NeighboursSorted ==
  \A k \in 1 .. count - 1 :
    value[k] = value[k + 1] \/ Precedes(value[k], value[k + 1])

\* While it is sorted, no call has touched the array.
SortingOK ==
  /\ cmp \in {"asc", "desc"}
  /\ sorting \in {"never", "now", "done"}
  /\ sorting = "now" => pc = "call"
  /\ sorting = "done" => NeighboursSorted

OrderIInv == IInv /\ SortingOK

LEMMA PrecedesStrict ==
  ASSUME NEW x \in Text, NEW y \in Text, NEW z \in Text
  PROVE  /\ ~Precedes(x, x)
         /\ Precedes(x, y) /\ Precedes(y, z) => Precedes(x, z)
<1>1. ~Before(x, x)
  BY BeforeStrict
<1>2. Before(x, y) /\ Before(y, z) => Before(x, z)
  BY BeforeTransitive
<1>3. Before(z, y) /\ Before(y, x) => Before(z, x)
  BY BeforeTransitive
<1> QED BY <1>1, <1>2, <1>3 DEF Precedes

LEMMA ComparedWell ==
  ASSUME NEW x \in Text, NEW y \in Text, NEW r \in Compare(x, y), r <= 0
  PROVE  x = y \/ Precedes(x, y)
<1>1. CASE cmp = "asc"
  BY <1>1, CompareSign DEF Compare, str_order_asc, Precedes
<1>2. CASE cmp # "asc"
  <2>1. PICK q \in str_cmp(x, y) : r = -q
    BY <1>2 DEF Compare, str_order_desc, str_order_asc
  <2>2. q \in Int /\ (q >= 0 => x = y \/ Before(y, x))
    BY CompareSign
  <2> QED BY <1>2, <2>1, <2>2 DEF Precedes
<1> QED BY <1>1, <1>2

LEMMA ValuesAreTexts ==
  ASSUME TypeOK
  PROVE  count \in Nat /\ \A k \in Place : value[k] \in Text
<1>1. \A k \in Place : value[k] \in Value
  BY Types
<1> QED BY <1>1, Types, OrderAssumption DEF Text

\* Sorted neighbours make a sorted array: of the objects after i that are out
\* of order with it, the least has a neighbour that is in order.
LEMMA SortedThroughout ==
  ASSUME TypeOK, NeighboursSorted, NEW i \in Place, NEW j \in Place, i <= j
  PROVE  value[i] = value[j] \/ Precedes(value[i], value[j])
<1> DEFINE Bad == {k \in Place : i <= k /\ ~(value[i] = value[k] \/ Precedes(value[i], value[k]))}
<1>1. ASSUME Bad # {} PROVE FALSE
  <2>1. PICK k \in Bad : \A m \in Bad : k <= m
    <3>1. Bad \in SUBSET Nat
      BY DEF Place
    <3> HIDE DEF Bad
    <3> QED BY <1>1, <3>1, LeastNumber
  <2>2. /\ k \in Place /\ i <= k /\ i # k /\ count \in Nat
        /\ ~(value[i] = value[k] \/ Precedes(value[i], value[k]))
    BY <2>1, Types
  <2>3. k - 1 \in 1 .. count - 1 /\ k - 1 \in Place /\ i <= k - 1 /\ ~(k <= k - 1) /\ (k - 1) + 1 = k
    BY <2>2 DEF Place
  <2>4. value[i] = value[k - 1] \/ Precedes(value[i], value[k - 1])
    BY <2>1, <2>3
  <2>5. value[k - 1] = value[k] \/ Precedes(value[k - 1], value[k])
    BY <2>3 DEF NeighboursSorted
  <2>6. value[i] \in Text /\ value[k - 1] \in Text /\ value[k] \in Text
    BY <2>2, <2>3, ValuesAreTexts
  <2>7. Precedes(value[i], value[k - 1]) /\ Precedes(value[k - 1], value[k])
        => Precedes(value[i], value[k])
    BY ONLY <2>6, PrecedesStrict
  <2> HIDE DEF Bad
  <2> QED BY <2>2, <2>4, <2>5, <2>7
<1> QED BY <1>1

\* In a sorted array equal strings stand together: whatever stands between
\* them would come both before and after them.
LEMMA SortedGrouped ==
  ASSUME TypeOK, NeighboursSorted
  PROVE  Grouped
<1> SUFFICES ASSUME NEW i \in Place, NEW j \in Place, value[i] = value[j], NEW k \in i .. j
             PROVE  value[k] = value[i]
  BY DEF Grouped
<1>1. k \in Place /\ i <= k /\ k <= j
  BY Types DEF Place
<1>2. /\ value[i] = value[k] \/ Precedes(value[i], value[k])
      /\ value[k] = value[j] \/ Precedes(value[k], value[j])
  BY <1>1, SortedThroughout
<1>3. value[i] \in Text /\ value[k] \in Text
  BY <1>1, ValuesAreTexts
<1>4. ~Precedes(value[i], value[i])
      /\ (Precedes(value[i], value[k]) /\ Precedes(value[k], value[i])
          => Precedes(value[i], value[i]))
  BY ONLY <1>3, PrecedesStrict
<1> QED BY <1>2, <1>4

LEMMA InitOrderIInv == InitOrder => OrderIInv
BY InitIInv DEF InitOrder, OrderIInv, SortingOK, Init

LEMMA ExchangeStep ==
  ASSUME OrderIInv, NEW k \in 1 .. count - 1, Exchange(k)
  PROVE  OrderIInv'
<1>1. /\ TypeOK /\ Rearranged /\ pc = "call" /\ p = 1 /\ Untouched(1) /\ sorting = "now"
      /\ cmp \in {"asc", "desc"} /\ count \in Nat
  BY Types DEF OrderIInv, IInv, SortingOK, CallOK, Exchange
<1>2. /\ value' = [value EXCEPT ![k] = value[k + 1], ![k + 1] = value[k]]
      /\ UNCHANGED <<fn, null, array, p, s, pc, ret, cmp, sorting>>
  BY DEF Exchange
<1>3. k \in Place /\ k + 1 \in Place /\ value \in [Place -> Value] /\ value \in Seq(Value)
  BY <1>1, Types DEF Place, TypeOK
<1>4. value' \in [Place -> Value]
  BY <1>2, <1>3
<1>5. value' \in Seq(Value) /\ count' = count /\ Place' = Place
  <2>1. DOMAIN value = 1 .. count /\ DOMAIN value' = 1 .. count
    BY <1>1, <1>3, <1>4 DEF Place
  <2>2. value' \in Seq(Value)
    BY <1>1, <1>4, SeqDef DEF Place
  <2>3. Len(value') = count
    BY <1>1, <2>1, <2>2
  <2> QED BY <2>2, <2>3 DEF Place, count
<1>6. TypeOK' /\ Rearranged' /\ CallOK' /\ PartitionOK' /\ UniqueOK'
  BY <1>1, <1>2, <1>5
     DEF TypeOK, Rearranged, CallOK, PartitionOK, UniqueOK, Untouched
<1>7. Partitioned' /\ RunsCollapsed' /\ SortingOK'
  BY <1>1, <1>2 DEF Partitioned, RunsCollapsed, Returned, SortingOK
<1> QED BY <1>6, <1>7 DEF OrderIInv, IInv

\* What qsort stops at is sorted, whatever number memcmp gave for each sign.
LEMMA SortedStep ==
  ASSUME OrderIInv, Sorted
  PROVE  OrderIInv'
<1>1. IInv'
  <2>1. IInv /\ [Next]_vars
    BY DEF OrderIInv, Sorted
  <2> QED BY <2>1, NextIInv
<1>2. count \in Nat /\ \A k \in Place : value[k] \in Text
  BY ValuesAreTexts DEF OrderIInv, IInv
<1>3. ASSUME NEW k \in 1 .. count - 1
      PROVE  value[k] = value[k + 1] \/ Precedes(value[k], value[k + 1])
  <2>1. k \in Place /\ k + 1 \in Place /\ count > 1
    BY <1>2 DEF Place
  <2>2. PICK r \in Compare(value[k], value[k + 1]) : r <= 0
    BY <2>1 DEF Sorted
  <2>3. value[k] \in Text /\ value[k + 1] \in Text
    BY <1>2, <2>1
  <2> QED BY <2>2, <2>3, ComparedWell
<1>4. NeighboursSorted'
  <2>1. value' = value /\ cmp' = cmp
    BY DEF Sorted, vars
  <2> QED BY <1>3, <2>1 DEF NeighboursSorted, Precedes, count
<1>5. SortingOK'
  BY <1>4 DEF OrderIInv, SortingOK, Sorted, vars
<1> QED BY <1>1, <1>5 DEF OrderIInv

LEMMA OrderNextIInv ==
  ASSUME OrderIInv, [NextOrder]_<<vars, cmp, sorting>>
  PROVE  OrderIInv'
<1>1. ASSUME [Next]_vars, UNCHANGED <<cmp, sorting>>, sorting # "now" \/ UNCHANGED vars
      PROVE  OrderIInv'
  <2>1. IInv'
    BY <1>1, NextIInv DEF OrderIInv
  <2>2. value' = value
    BY <1>1 DEF Next, vars, PartitionNothing, PartitionCall, Skip, Skipped, Move, PartitionReturn,
       UniqueNothing, UniqueOne, UniqueCall, Scan, UniqueReturn, Done, Goto, Return
  <2>3. NeighboursSorted' <=> NeighboursSorted
    BY <1>1, <2>2 DEF NeighboursSorted, Precedes, count
  <2>4. SortingOK'
    BY <1>1, <2>3 DEF OrderIInv, SortingOK, vars
  <2> QED BY <2>1, <2>4 DEF OrderIInv
<1>2. ASSUME UNCHANGED <<vars, cmp, sorting>> PROVE OrderIInv'
  BY <1>1, <1>2
<1>3. ASSUME sorting # "now" /\ Next /\ UNCHANGED <<cmp, sorting>> PROVE OrderIInv'
  BY <1>1, <1>3
<1> QED BY <1>2, <1>3, ExchangeStep, SortedStep DEF NextOrder

LEMMA OrderInvariance == SpecOrder => []OrderIInv
<1>1. InitOrder => OrderIInv
  BY InitOrderIInv
<1>2. OrderIInv /\ [NextOrder]_<<vars, cmp, sorting>> => OrderIInv'
  BY OrderNextIInv
<1> QED BY <1>1, <1>2, PTL DEF SpecOrder

----------------------------------------------------------------------------
\* Sorting before a call disturbs nothing that the functions promise.
THEOREM SortingKeepsPromises == SpecOrder => [](Rearranged /\ Partitioned /\ RunsCollapsed)
<1>1. OrderIInv => Rearranged /\ Partitioned /\ RunsCollapsed
  BY DEF OrderIInv, IInv
<1> QED BY <1>1, OrderInvariance, PTL

\* str_sort_array, then str_unique_partition_array: every string is in front
\* once, in the order of the comparison function.
THEOREM SortedThenUnique == SpecOrder => []SortedUnique
<1>1. ASSUME OrderIInv PROVE SortedUnique
  <2> SUFFICES ASSUME Returned("unique"), sorting = "done"
               PROVE  /\ \A i, j \in Leading : i < j =>
                           Precedes(value[array[i]], value[array[j]])
                      /\ \A k \in Place : \E i \in Leading : str_eq(i, k)
    BY DEF SortedUnique, Precedes
  <2>1. /\ IInv /\ TypeOK /\ NeighboursSorted /\ InOrder /\ count \in Nat /\ Leading \subseteq Place
        /\ \A k \in Place : array[k] \in Place
    BY <1>1, Types DEF OrderIInv, IInv, SortingOK, RunsCollapsed, TypeOK, Leading, Place
  <2>2. /\ \A i, j \in Leading : i # j => ~str_eq(i, j)
        /\ \A k \in Place : \E i \in Leading : str_eq(i, k)
    BY <2>1, GroupedRuns, SortedGrouped DEF UniqueInFront
  <2>3. ASSUME NEW i \in Leading, NEW j \in Leading, i < j
        PROVE  Precedes(value[array[i]], value[array[j]])
    <3>1. /\ array[i] \in Place /\ array[j] \in Place /\ array[i] <= array[j]
          /\ value[array[i]] # value[array[j]]
      BY <2>1, <2>2, <2>3 DEF InOrder, Place, str_eq, Leading
    <3>2. PICK o1 \in Place, o2 \in Place : o1 = array[i] /\ o2 = array[j]
      BY <3>1
    <3>3. value[o1] = value[o2] \/ Precedes(value[o1], value[o2])
      BY <2>1, <3>1, <3>2, SortedThroughout
    <3> QED BY <3>1, <3>2, <3>3
  <2> QED BY <2>2, <2>3
<1> QED BY <1>1, OrderInvariance, PTL
=============================================================================
