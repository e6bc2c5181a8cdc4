---------------------------- MODULE StreamIOProofs ----------------------------
(***************************************************************************)
(* The safety properties of the program that copies a stream line by line, *)
(* for inputs of every size with delimiters anywhere, any set of blocks    *)
(* and of errors, and both C libraries.                                    *)
(***************************************************************************)
EXTENDS StreamIO, SequenceTheorems, StrLemmas

----------------------------------------------------------------------------
(* The inductive invariant. *)

\* The m bytes of the input behind position i.
File(i, m) == [j \in 1 .. m |-> i + j]

\* The same with a terminator.
CString(i, m) == File(i, m) \o <<0>>

Copying == {"read", "line", "no line", "write", "concat"}
Failure == Errno \cup {ENOMEM, EINVAL}

InputOK ==
  /\ size \in Nat /\ delims \subseteq 1 .. size
  /\ begin \in Nat /\ pos \in begin .. size
  /\ n \in Int /\ k \in Nat

FlagsOK == ferror \in BOOLEAN /\ nomem \in BOOLEAN

\* The destination has no block, or one of its own with a line in it.
Owner(s) == s.at \in Block /\ s.off = 0 /\ s.len \in Nat \ {0} /\ s.own

StoreOK ==
  /\ live \subseteq Block /\ heap \in [Block -> Seq(Nat)]
  /\ dest = str_null \/ Owner(dest)
  /\ line \in Block \cup {NULL} /\ line \notin Freed(dest)
  /\ pc \notin {"line", "no line"} => line = NULL
  /\ NothingLeaked

\* From getdelim to the end of the writing, the last line ends at the first
\* delimiter, or somewhere before it if the read failed.
LineOK ==
  pc \in {"line", "write", "concat"} =>
    /\ begin < pos
    /\ \A d \in delims : d > begin => d >= pos
    /\ pos \in delims \cup {size} \/ ferror

\* Where the line is.
HeldOK ==
  /\ pc = "line" => line # NULL /\ n = pos - begin /\ heap[line] = CString(begin, n)
  /\ pc \in {"write", "concat"} =>
       dest.len = pos - begin /\ heap[dest.at] = CString(begin, dest.len)
  /\ pc = "concat" =>
       \E i \in 0 .. dest.len :
         array = <<str_ref_slice(dest, 0, i), str_ref_slice(dest, i, dest.len)>>

\* How much has been written.
Copy ==
  CASE pc = "read"   -> pos
    [] pc = "concat" -> begin + (CASE k = 1 -> 0 [] k = 2 -> array[1].len [] OTHER -> dest.len)
    [] OTHER         -> begin

OutOK ==
  /\ \E m \in Nat : out = File(0, m)
  /\ pc \in Copying => out = File(0, Copy)
  /\ pc = "concat" => k \in 1 .. 3
  /\ pc = "no line" /\ ~ferror /\ ~nomem => begin = size
  /\ pc = "end" /\ ret = -1 /\ ~nomem => out = File(0, size)

EndOK ==
  /\ pc \in Copying \cup {"end", "exited"}
  /\ {istream, ostream} \subseteq {"open", "closed"}
  /\ errno \in Failure \cup {0} /\ (ferror => errno \in Failure)
  /\ pc # "end" => ret \in {0, Running} /\ istream = "open" /\ ostream = "open"
  /\ pc = "end" => \/ ret = -1 /\ istream = "open" /\ ostream = "open"
                   \/ ret \in Failure /\ "closed" \in {istream, ostream}

IInv == InputOK /\ StoreOK /\ LineOK /\ HeldOK /\ OutOK /\ EndOK

----------------------------------------------------------------------------
(* Lemmas about the operators. *)

LEMMA NoBytes == <<>> \in Seq(Nat)
OBVIOUS

LEMMA FileType ==
  ASSUME NEW i \in Nat, NEW m \in Nat
  PROVE  /\ File(i, m) \in Seq(Nat) /\ Len(File(i, m)) = m
         /\ CString(i, m) \in Seq(Nat) /\ Len(CString(i, m)) = m + 1
<1>1. File(i, m) \in Seq(Nat) /\ Len(File(i, m)) = m
  BY DEF File
<1>2. <<0>> \in Seq(Nat) /\ Len(<<0>>) = 1
  OBVIOUS
<1> HIDE DEF File
<1> QED BY <1>1, <1>2 DEF CString

\* A beginning of the input and what follows it.
LEMMA FileJoined == \A m, l \in Nat : File(0, m) \o File(m, l) = File(0, m + l)
BY DEF File

LEMMA FilePrefix ==
  ASSUME NEW i \in Nat, NEW m \in Nat, NEW l \in 0 .. m
  PROVE  SubSeq(File(i, m), 1, l) = File(i, l)
BY DEF File

LEMMA WholeLine ==
  ASSUME NEW i \in Nat, NEW m \in Nat
  PROVE  SubSeq(CString(i, m), 1, m + 1) = CString(i, m)
<1>1. \A x \in Seq(Nat) : SubSeq(x, 1, Len(x)) = x
  OBVIOUS
<1> QED BY <1>1, FileType

\* The least delimiter behind pos exists if there is any.
LEMMA LineEndOK ==
  ASSUME InputOK
  PROVE  /\ LineEnd \in pos .. size /\ LineEnd \in delims \cup {size}
         /\ pos < size => pos < LineEnd
         /\ \A d \in delims : d > pos => d >= LineEnd
<1> DEFINE later == {d \in delims : d > pos}
<1>1. pos \in Nat /\ size \in Nat /\ pos <= size /\ \A d \in later : d \in pos + 1 .. size
  BY DEF InputOK
<1>2. CASE later = {}
  <2>1. LineEnd = size
    BY <1>2 DEF LineEnd
  <2> QED BY <1>1, <1>2, <2>1
<1>3. CASE later # {}
  <2>1. later \in SUBSET Nat
    BY <1>1
  <2>2. \E d \in later : \A x \in later : d <= x
    <3> HIDE DEF later
    <3> QED BY <1>3, <2>1, LeastNumber
  <2>3. LineEnd \in later /\ \A x \in later : LineEnd <= x
    BY <1>3, <2>2 DEF LineEnd
  <2> QED BY <1>1, <2>3
<1> QED BY <1>2, <1>3

LEMMA StartOK == Init => IInv
<1> SUFFICES ASSUME Init PROVE IInv
  OBVIOUS
<1> USE HeapAssumption, StreamAssumption DEF Init
<1>1. InputOK
  <2>1. size \in Nat /\ delims \subseteq 1 .. size /\ pos \in 0 .. size
    OBVIOUS
  <2>2. begin = 0 /\ n \in Int /\ k \in Nat
    OBVIOUS
  <2> QED BY <2>1, <2>2 DEF InputOK
<1>2. LineOK /\ HeldOK /\ EndOK
  BY DEF LineOK, HeldOK, EndOK, Copying
<1>3. StoreOK
  <2> QED BY NoBytes DEF StoreOK, NothingLeaked, Freed, str_null
<1>4. OutOK
  <2>1. out = File(0, 0)
    BY DEF File
  <2> QED BY <2>1, <1>1 DEF OutOK, Copy, InputOK
<1> QED BY <1>1, <1>2, <1>3, <1>4 DEF IInv

----------------------------------------------------------------------------
(* getdelim. *)

\* It has a line, up to position e.
LEMMA StoresStep ==
  ASSUME IInv, NEW e \in pos + 1 .. LineEnd, Getdelim(e), Stores(e),
         nomem' = nomem, errno' \in Failure \cup {0},
         ferror' => errno' \in Failure, e \in delims \cup {size} \/ ferror'
  PROVE  IInv'
<1> USE DEF IInv, Getdelim, input, writing
<1>1. PICK b \in Block \ live :
        /\ line' = b /\ live' = live \cup {b}
        /\ heap' = [heap EXCEPT ![b] = [j \in 1 .. e - pos |-> pos + j] \o <<0>>]
  BY DEF Stores
<1>2. /\ pos \in Nat /\ e \in Nat /\ pos < e /\ e <= size /\ size \in Nat
      /\ \A d \in delims : d > pos => d >= e
  <2>1. pos \in Nat /\ size \in Nat /\ delims \subseteq 1 .. size
    BY DEF InputOK
  <2> QED BY <2>1, LineEndOK
<1>3. InputOK'
  BY <1>2 DEF InputOK, Stores
<1>4. heap'[b] = CString(pos, e - pos) /\ heap'[b] \in Seq(Nat)
  <2>1. heap'[b] = CString(pos, e - pos)
    BY <1>1 DEF StoreOK, File, CString
  <2> QED BY <1>2, <2>1, FileType
<1>5. StoreOK'
  <2>1. live = Freed(dest) /\ line' \notin live /\ live \subseteq Block
    BY <1>1 DEF StoreOK, NothingLeaked
  <2>2. heap' \in [Block -> Seq(Nat)] /\ line' \in Block /\ line' # NULL
    BY <1>1, <1>4, HeapAssumption DEF StoreOK
  <2> QED BY <1>1, <2>1, <2>2 DEF StoreOK, NothingLeaked, Stores
<1>6. LineOK'
  BY <1>2 DEF LineOK, Stores
<1>7. HeldOK'
  BY <1>1, <1>4, HeapAssumption DEF HeldOK, Stores
<1>8. OutOK'
  BY DEF OutOK, Copy, Stores, Copying
<1>9. EndOK'
  BY DEF EndOK, Stores, Copying, Used
<1> QED BY <1>3, <1>5, <1>6, <1>7, <1>8, <1>9

\* It returns -1.
LEMMA StoresNothingStep ==
  ASSUME IInv, NEW e \in pos .. size, Getdelim(e), StoresNothing,
         errno' \in Failure \cup {0},
         ferror' => errno' \in Failure, ferror' \/ nomem' \/ pos = size
  PROVE  IInv'
<1>1. pos \in Nat /\ size \in Nat /\ e \in Nat /\ pos <= e /\ e <= size
  <2>1. pos \in Nat /\ size \in Nat
    BY DEF IInv, InputOK
  <2> QED BY <2>1
<1>2. pc = "read" /\ pc' = "no line" /\ begin' = pos /\ pos' = e
  BY DEF Getdelim, StoresNothing
<1>8. n' \in Int
  <2>1. -1 \in Int
    OBVIOUS
  <2> QED BY <2>1 DEF StoresNothing
<1> USE DEF IInv, Getdelim, StoresNothing, input, writing
<1>3. InputOK'
  <2>1. size' = size /\ delims' = delims /\ k' = k
    BY DEF Getdelim
  <2>2. delims \subseteq 1 .. size /\ k \in Nat /\ pos' \in begin' .. size'
    BY <1>1, <1>2, <2>1 DEF InputOK
  <2> QED BY <1>1, <1>2, <1>8, <2>1, <2>2 DEF InputOK
<1>4. StoreOK'
  <2>1. live = Freed(dest) /\ live \subseteq Block
    BY DEF StoreOK, NothingLeaked
  <2>2. line' \notin live /\ line' \in Block \cup {NULL} /\ NULL \notin live
    BY <2>1, HeapAssumption
  <2> QED BY <2>1, <2>2, HeapAssumption DEF StoreOK, NothingLeaked
<1>5. LineOK' /\ HeldOK'
  BY <1>2 DEF LineOK, HeldOK
<1>6. OutOK'
  BY <1>2 DEF OutOK, Copy, Copying
<1>7. EndOK'
  BY <1>2 DEF EndOK, Copying, Used
<1> QED BY <1>3, <1>4, <1>5, <1>6, <1>7

LEMMA GetdelimStep == ASSUME IInv, getdelim PROVE IInv'
<1>1. /\ pos \in Nat /\ size \in Nat /\ pos <= size
      /\ errno \in Failure \cup {0} /\ (ferror => errno \in Failure)
  BY DEF IInv, InputOK, EndOK
<1>2. /\ LineEnd \in pos .. size /\ LineEnd \in delims \cup {size}
      /\ pos < size => pos < LineEnd
  BY LineEndOK DEF IInv
<1>3. CASE ReadLine
  <2>1. LineEnd \in pos + 1 .. LineEnd
    BY <1>1, <1>2, <1>3 DEF ReadLine
  <2> QED BY <1>1, <1>2, <1>3, <2>1, StoresStep DEF ReadLine
<1>4. CASE ReadEnd \/ StillFailed
  BY <1>1, <1>4, StoresNothingStep DEF ReadEnd, StillFailed
<1>5. CASE ReadNoMemory
  <2>1. PICK e \in Part : Getdelim(e) /\ StoresNothing
    BY <1>5 DEF ReadNoMemory
  <2>2. e \in pos .. size
    BY <1>1, <1>2 DEF Part
  <2> QED BY <1>1, <1>5, <2>1, <2>2, StoresNothingStep DEF ReadNoMemory, Failure
<1>6. ASSUME NEW err \in Errno \cup {EINVAL}, ReadFails(err) PROVE IInv'
  <2>1. PICK e \in Part :
          /\ Getdelim(e)
          /\ IF libc = "glibc" /\ e > pos THEN Stores(e) ELSE StoresNothing
    BY <1>6 DEF ReadFails
  <2>2. e \in pos .. LineEnd /\ e \in pos .. size
    BY <1>1, <1>2 DEF Part
  <2>3. ferror' = TRUE /\ errno' \in Failure /\ nomem' = nomem
    BY <1>6 DEF ReadFails, Failure
  <2>4. CASE libc = "glibc" /\ e > pos
    <3>1. e \in pos + 1 .. LineEnd
      BY <1>1, <1>2, <2>2, <2>4
    <3> QED BY <2>1, <2>3, <2>4, <3>1, StoresStep
  <2>5. CASE ~(libc = "glibc" /\ e > pos)
    BY <1>1, <2>1, <2>2, <2>3, <2>5, StoresNothingStep
  <2> QED BY <2>4, <2>5
<1> QED BY <1>3, <1>4, <1>5, <1>6 DEF getdelim

----------------------------------------------------------------------------
(* The rest of str_get_line. *)

\* The line becomes the destination's, in its own block or in another one.
LEMMA AssignStep == ASSUME IInv, Assign PROVE IInv'
<1> USE DEF IInv, Assign, Return, input, reading, writing
<1>1. PICK b \in {line} \cup (Block \ live) :
        /\ dest' = str_acquire_mem(b, n)
        /\ live' = ((live \ {line}) \cup {b}) \ Freed(dest)
        /\ heap' = [Scrub(heap, {line} \cup Freed(dest)) EXCEPT
                      ![b] = SubSeq(heap[line], 1, NewSize)]
  OBVIOUS
<1>2. /\ line \in Block /\ line # NULL /\ line \notin Freed(dest)
      /\ live = Freed(dest) \cup {line} /\ live \subseteq Block
      /\ b \in Block /\ b # NULL /\ b \notin Freed(dest)
  BY <1>1, HeapAssumption DEF StoreOK, NothingLeaked, HeldOK
<1>3. /\ begin \in Nat /\ pos \in Nat /\ begin < pos /\ n = pos - begin /\ n \in Nat \ {0}
      /\ heap[line] = CString(begin, n)
  BY DEF InputOK, LineOK, HeldOK
<1>4. /\ dest' = [at |-> b, off |-> 0, len |-> n, own |-> TRUE]
      /\ Freed(dest') = {b} /\ live' = {b}
  <2>1. n > 0
    BY <1>3
  <2>2. dest' = [at |-> b, off |-> 0, len |-> n, own |-> TRUE]
    BY <1>1, <2>1 DEF str_acquire_mem
  <2> QED BY <1>1, <1>2, <2>2 DEF Freed
<1>5. heap'[b] = CString(begin, n) /\ heap'[b] \in Seq(Nat)
  <2>1. SubSeq(heap[line], 1, n + 1) = CString(begin, n)
    BY <1>3, WholeLine
  <2>2. heap'[b] = SubSeq(heap[line], 1, n + 1)
    BY <1>1, <1>2 DEF Scrub, NewSize
  <2>3. n \in Nat
    BY <1>3
  <2>4. CString(begin, n) \in Seq(Nat)
    BY <1>3, <2>3, FileType
  <2> QED BY <2>1, <2>2, <2>4
<1>6. heap' \in [Block -> Seq(Nat)]
  <2>2. Scrub(heap, {line} \cup Freed(dest)) \in [Block -> Seq(Nat)]
    BY NoBytes DEF Scrub, StoreOK
  <2> QED BY <1>1, <1>2, <1>5, <2>2
<1>7. StoreOK'
  BY <1>2, <1>3, <1>4, <1>6, HeapAssumption DEF StoreOK, NothingLeaked, Owner
<1>8. InputOK' /\ LineOK'
  BY DEF InputOK, LineOK
<1>9. HeldOK'
  BY <1>3, <1>4, <1>5 DEF HeldOK
<1>10. OutOK' /\ EndOK'
  BY DEF OutOK, EndOK, Copy, Copying
<1> QED BY <1>7, <1>8, <1>9, <1>10

\* getdelim's buffer is freed, and the program reads no more.
LEMMA FreeLine ==
  ASSUME IInv, free({line}), line' = NULL, UNCHANGED <<input, reading, writing, dest, n, nomem>>,
         pc \in {"line", "no line"}, pc' \in {"end", "exited"}
  PROVE  InputOK' /\ StoreOK' /\ LineOK' /\ HeldOK'
<1> USE DEF IInv, input, reading, writing
<1>1. StoreOK'
  <2>2. live' = Freed(dest) /\ NULL \notin Freed(dest) /\ live' \subseteq Block
    BY HeapAssumption DEF StoreOK, NothingLeaked, free, Freed, Owner, str_null
  <2>3. heap' \in [Block -> Seq(Nat)]
    BY NoBytes DEF StoreOK, free, Scrub
  <2> QED BY <2>2, <2>3 DEF StoreOK, NothingLeaked, Owner
<1> QED BY <1>1 DEF InputOK, LineOK, HeldOK

LEMMA EndStep ==
  ASSUME IInv, mem_failure \/ Eof \/ Invalid \/ Failed
  PROVE  IInv'
<1>1. /\ free({line}) /\ line' = NULL /\ UNCHANGED <<input, reading, writing, dest, n, nomem>>
      /\ pc \in {"line", "no line"} /\ pc' \in {"end", "exited"}
  <2>1. CASE mem_failure
    BY <2>1 DEF mem_failure, writing
  <2>2. CASE Eof
    <3>1. pc' = "end"
      <4>1. -1 # 0
        OBVIOUS
      <4> QED BY <2>2, <4>1 DEF Eof, Return
    <3> QED BY <2>2, <3>1 DEF Eof, NoLine
  <2>3. CASE Invalid
    BY <2>3, StreamAssumption DEF Invalid, NoLine, Return
  <2>4. CASE Failed
    BY <2>4, StreamAssumption DEF Failed, NoLine, Return, AfterClose, IInv, EndOK, Failure
  <2> QED BY <2>1, <2>2, <2>3, <2>4
<1>5. InputOK' /\ StoreOK' /\ LineOK' /\ HeldOK'
  BY <1>1, FreeLine
<1>2. CASE mem_failure
  <2> USE <1>2 DEF mem_failure, IInv, input, reading, writing
  <2>1. OutOK'
    BY DEF OutOK, Copying
  <2>2. EndOK'
    BY DEF EndOK, Copying
  <2> QED BY <1>5, <2>1, <2>2
<1>3. CASE Eof
  <2> USE <1>3 DEF Eof, NoLine, IInv, Return, input, reading, writing
  <2>1. OutOK'
    BY DEF OutOK, Copy, Copying
  <2>2. EndOK'
    BY DEF EndOK, Copying
  <2> QED BY <1>5, <2>1, <2>2
<1>4. CASE Invalid \/ Failed
  <2> USE DEF Invalid, Failed, NoLine, IInv, Return, AfterClose, input, reading, writing
  <2>1. /\ errno' \in Failure /\ ret' = (IF Failed THEN errno' ELSE EINVAL) /\ ret' \in Failure
        /\ istream' = "closed" /\ ostream' = ostream /\ ferror' = ferror /\ out' = out
    BY <1>4 DEF EndOK, Failure, fclose
  <2>2. pc' = "end" /\ ret' # -1
    BY <1>4, <2>1, StreamAssumption DEF Failure
  <2>3. OutOK'
    BY <2>1, <2>2 DEF OutOK, Copying
  <2>4. EndOK'
    BY <2>1, <2>2 DEF EndOK, Copying
  <2> QED BY <1>5, <2>3, <2>4
<1> QED BY <1>2, <1>3, <1>4

----------------------------------------------------------------------------
(* str_concat_array_to_stream. *)

\* The part of a line from i up to j.
LEMMA SliceOfLine ==
  ASSUME NEW s, NEW b \in Block, s.at = b, b # NULL, s.off = 0, NEW l \in Nat, s.len = l,
         NEW f \in Nat, heap[b] = CString(f, l),
         NEW i \in Nat, NEW j \in Nat, i <= j, j <= l
  PROVE  /\ str_ref_slice(s, i, j).len = j - i
         /\ Text(str_ref_slice(s, i, j)) = File(f + i, j - i)
<1>1. CASE i = j
  <2>1. str_ref_slice(s, i, j) = str_null
    BY <1>1 DEF str_ref_slice, str_ref_mem
  <2>2. File(f + i, j - i) = <<>> /\ j - i = 0
    BY <1>1 DEF File
  <2> QED BY <2>1, <2>2 DEF str_null, Text
<1>2. ASSUME NEW m \in Nat, m = j - i, m > 0
      PROVE  str_ref_slice(s, i, j).len = m /\ Text(str_ref_slice(s, i, j)) = File(f + i, m)
  <2>1. str_ref_slice(s, i, j) = str_ref_mem(b, i, m)
    <3>1. ~(j <= i \/ i >= l) /\ ~(j > l) /\ 0 + i = i
      BY <1>2
    <3> QED BY <1>2, <3>1 DEF str_ref_slice
  <2>2. str_ref_slice(s, i, j) = [at |-> b, off |-> i, len |-> m, own |-> FALSE]
    BY <1>2, <2>1 DEF str_ref_mem
  <2>3. Text(str_ref_slice(s, i, j)) = SubSeq(heap[b], i + 1, i + m)
    <3>1. m # 0
      BY <1>2
    <3>2. Text([at |-> b, off |-> i, len |-> m, own |-> FALSE]) = SubSeq(heap[b], i + 1, i + m)
      BY <3>1 DEF Text, Bytes
    <3> QED BY <2>2, <3>2
  <2>4. i + m <= l
    BY <1>2
  <2>5. str_ref_slice(s, i, j).len = m
    BY <2>2
  <2>6. SubSeq(CString(f, l), i + 1, i + m) = File(f + i, m)
    BY <2>4 DEF CString, File
  <2> QED BY <2>3, <2>5, <2>6
<1>3. CASE i # j
  <2>1. j - i \in Nat /\ j - i > 0
    BY <1>3
  <2> QED BY <1>2, <2>1
<1> QED BY <1>1, <1>3

\* What the two pieces of the line are.
LEMMA Pieces ==
  ASSUME IInv, pc = "concat"
  PROVE  /\ Len(array) = 2 /\ dest.len \in Nat /\ begin \in Nat
         /\ array[1].len \in 0 .. dest.len /\ array[2].len = dest.len - array[1].len
         /\ Text(array[1]) = File(begin, array[1].len)
         /\ Text(array[2]) = File(begin + array[1].len, array[2].len)
<1>1. PICK i \in 0 .. dest.len :
        array = <<str_ref_slice(dest, 0, i), str_ref_slice(dest, i, dest.len)>>
  BY DEF IInv, HeldOK
<1>2. /\ begin \in Nat /\ dest.len \in Nat /\ dest.len > 0
      /\ heap[dest.at] = CString(begin, dest.len)
  BY DEF IInv, InputOK, LineOK, HeldOK
<1>3. dest.off = 0 /\ dest.at \in Block /\ dest.at # NULL
  BY <1>2, HeapAssumption DEF IInv, StoreOK, Owner, str_null
<1>4. /\ i \in Nat /\ 0 \in Nat /\ 0 <= i /\ i <= dest.len /\ dest.len <= dest.len
      /\ i - 0 = i /\ begin + 0 = begin
  BY <1>2
<1> HIDE DEF File
<1>5. str_ref_slice(dest, 0, i).len = i /\ Text(str_ref_slice(dest, 0, i)) = File(begin, i)
  <2>1. /\ str_ref_slice(dest, 0, i).len = i - 0
        /\ Text(str_ref_slice(dest, 0, i)) = File(begin + 0, i - 0)
    BY <1>2, <1>3, <1>4, SliceOfLine
  <2> QED BY <1>4, <2>1
<1>6. /\ str_ref_slice(dest, i, dest.len).len = dest.len - i
      /\ Text(str_ref_slice(dest, i, dest.len)) = File(begin + i, dest.len - i)
  BY <1>2, <1>3, <1>4, SliceOfLine
<1>7. /\ Len(array) = 2 /\ array[1] = str_ref_slice(dest, 0, i)
      /\ array[2] = str_ref_slice(dest, i, dest.len)
  BY <1>1
<1> QED BY <1>2, <1>4, <1>5, <1>6, <1>7

\* Where the output stands in front of a piece, and what the piece is.
LEMMA NextPiece ==
  ASSUME IInv, pc = "concat", k <= Len(array)
  PROVE  /\ k \in {1, 2} /\ Copy \in Nat /\ array[k].len \in Nat
         /\ out = File(0, Copy) /\ Text(array[k]) = File(Copy, array[k].len)
         /\ k = 1 => Copy + array[k].len = begin + array[1].len
         /\ k = 2 => Copy + array[k].len = begin + dest.len
<1>1. /\ Len(array) = 2 /\ dest.len \in Nat /\ begin \in Nat
      /\ array[1].len \in 0 .. dest.len /\ array[2].len = dest.len - array[1].len
      /\ Text(array[1]) = File(begin, array[1].len)
      /\ Text(array[2]) = File(begin + array[1].len, array[2].len)
  BY Pieces
<1>2. k \in 1 .. 3 /\ out = File(0, Copy)
  BY DEF IInv, OutOK, Copying
<1>3. CASE k = 1
  <2>1. Copy = begin + 0
    BY <1>3 DEF Copy
  <2> QED BY <1>1, <1>2, <1>3, <2>1
<1>4. CASE k = 2
  <2>1. Copy = begin + array[1].len
    BY <1>4 DEF Copy
  <2> QED BY <1>1, <1>2, <1>4, <2>1
<1> QED BY <1>1, <1>2, <1>3, <1>4

\* A piece or some of it is written.
LEMMA Put ==
  ASSUME IInv, pc = "concat", k <= Len(array), NEW m \in 0 .. array[k].len,
         out' = out \o SubSeq(Text(array[k]), 1, m)
  PROVE  m \in Nat /\ Copy \in Nat /\ out' = File(0, Copy + m)
<1>1. /\ Copy \in Nat /\ array[k].len \in Nat
      /\ out = File(0, Copy) /\ Text(array[k]) = File(Copy, array[k].len)
  BY NextPiece
<1>2. SubSeq(Text(array[k]), 1, m) = File(Copy, m)
  BY <1>1, FilePrefix
<1>3. m \in Nat
  BY <1>1
<1>4. File(0, Copy) \o File(Copy, m) = File(0, Copy + m)
  BY <1>1, <1>3, FileJoined
<1> QED BY <1>1, <1>2, <1>3, <1>4

LEMMA WriteStep == ASSUME IInv, Write PROVE IInv'
<1> USE DEF IInv, Write, input, reading, memory
<1>1. InputOK' /\ StoreOK' /\ LineOK'
  BY DEF InputOK, StoreOK, LineOK, NothingLeaked, Owner
<1>2. HeldOK'
  BY DEF HeldOK
<1>3. OutOK'
  <2>1. begin \in Nat /\ begin + 0 = begin
    BY DEF InputOK
  <2> QED BY <2>1 DEF OutOK, Copy, Copying
<1>4. EndOK'
  BY DEF EndOK, Copying
<1> QED BY <1>1, <1>2, <1>3, <1>4

\* What writing leaves alone.
LEMMA ConcatKeeps ==
  ASSUME IInv, pc = "concat", UNCHANGED <<input, reading, istream, array, memory, n, nomem>>,
         k' \in Nat, pc' \in {"concat", "read", "end"}
  PROVE  InputOK' /\ StoreOK' /\ LineOK' /\ HeldOK'
<1> USE DEF IInv, input, reading, memory
<1>1. InputOK' /\ StoreOK' /\ LineOK'
  BY DEF InputOK, StoreOK, LineOK, NothingLeaked, Owner
<1> QED BY <1>1 DEF HeldOK

LEMMA fwriteStep == ASSUME IInv, fwrite PROVE IInv'
<1> USE DEF fwrite, Concat
<1>1. /\ k \in {1, 2} /\ Copy \in Nat /\ array[k].len \in Nat
      /\ Text(array[k]) = File(Copy, array[k].len) /\ out = File(0, Copy)
      /\ k = 1 => Copy + array[k].len = begin + array[1].len
      /\ k = 2 => Copy + array[k].len = begin + dest.len
  BY NextPiece
<1>2. out' = File(0, Copy + array[k].len)
  <2>1. out' = File(0, Copy) \o File(Copy, array[k].len)
    BY <1>1
  <2> QED BY <1>1, <2>1, FileJoined
<1>3. InputOK' /\ StoreOK' /\ LineOK' /\ HeldOK'
  BY <1>1, ConcatKeeps DEF IInv, InputOK
<1>4. OutOK'
  <2>1. begin' = begin /\ array' = array /\ dest' = dest /\ pc' = "concat" /\ k' = k + 1
    BY DEF reading, memory
  <2>2. array[1].len \in Nat /\ dest.len \in Nat
    BY Pieces
  <2>3. Copy' = Copy + array[k].len /\ k' \in 1 .. 3
    BY <1>1, <2>1, <2>2 DEF Copy
  <2>4. Copy' \in Nat
    BY <1>1, <2>3
  <2>5. out' = File(0, Copy')
    BY <1>2, <2>3
  <2> QED BY <2>1, <2>3, <2>4, <2>5 DEF OutOK
<1>5. EndOK'
  BY DEF IInv, EndOK, reading, Used, Copying
<1> QED BY <1>3, <1>4, <1>5 DEF IInv

LEMMA WriteFailsStep == ASSUME IInv, NEW err \in Errno, WriteFails(err) PROVE IInv'
<1> USE DEF WriteFails, ShortWrite, Return
<1>1. /\ errno' \in Failure /\ ret' = errno' /\ pc' = "end" /\ ret' # -1
      /\ ostream' = "closed" /\ istream = "open"
  BY StreamAssumption DEF IInv, EndOK, Failure, AfterClose, fclose
<1>2. PICK m \in 0 .. array[k].len - 1 : out' = out \o SubSeq(Text(array[k]), 1, m)
  OBVIOUS
<1>3. m \in Nat /\ Copy \in Nat /\ out' = File(0, Copy + m)
  <2>1. m \in 0 .. array[k].len
    BY <1>2, NextPiece
  <2> QED BY <1>2, <2>1, Put
<1>4. InputOK' /\ StoreOK' /\ LineOK' /\ HeldOK'
  BY <1>1, ConcatKeeps DEF IInv, InputOK
<1>5. OutOK'
  <2>1. Copy + m \in Nat
    BY <1>3
  <2> QED BY <1>1, <1>3, <2>1 DEF OutOK, Copying
<1>6. EndOK'
  BY <1>1 DEF IInv, EndOK, Copying, reading
<1> QED BY <1>4, <1>5, <1>6 DEF IInv

\* Both pieces have been written, and the next line is read.
LEMMA WrittenStep == ASSUME IInv, Written PROVE IInv'
<1> USE DEF Written, writing
<1>1. k = 3 /\ Copy = pos
  <2>1. Len(array) = 2 /\ dest.len \in Nat /\ begin \in Nat
    BY Pieces
  <2> QED BY <2>1 DEF IInv, OutOK, Copy, HeldOK, InputOK
<1>2. InputOK' /\ StoreOK' /\ LineOK' /\ HeldOK'
  BY ConcatKeeps DEF IInv, InputOK
<1>3. OutOK'
  BY <1>1 DEF IInv, OutOK, Copy, Copying, reading
<1>4. EndOK'
  BY DEF IInv, EndOK, Copying, reading
<1> QED BY <1>2, <1>3, <1>4 DEF IInv

----------------------------------------------------------------------------
(* The theorems. *)

LEMMA NextStep == ASSUME IInv, [Next]_vars PROVE IInv'
<1>1. CASE UNCHANGED vars
  <2> USE <1>1 DEF IInv, vars, input, reading, writing, memory
  <2>1. InputOK' /\ StoreOK' /\ LineOK' /\ HeldOK'
    BY DEF InputOK, StoreOK, LineOK, HeldOK, NothingLeaked, Owner
  <2>2. OutOK' /\ EndOK'
    BY DEF OutOK, EndOK, Copy
  <2> QED BY <2>1, <2>2
<1>2. CASE getdelim \/ Assign \/ mem_failure \/ Eof \/ Invalid \/ Failed
  BY <1>2, GetdelimStep, AssignStep, EndStep
<1>3. CASE Write \/ fwrite \/ Written
  BY <1>3, WriteStep, fwriteStep, WrittenStep
<1>4. CASE \E err \in Errno : WriteFails(err)
  BY <1>4, WriteFailsStep
<1> QED BY <1>1, <1>2, <1>3, <1>4 DEF Next, Finished

LEMMA Flags == Spec => []FlagsOK
<1>1. Init => FlagsOK
  BY DEF Init, FlagsOK
<1>2. ASSUME FlagsOK, [Next]_vars PROVE FlagsOK'
  <2>1. /\ ferror' \in {ferror, TRUE, FALSE}
        /\ nomem' \in {nomem, TRUE}
    BY <1>2, Zenon
       DEF Next, vars, reading, getdelim, ReadLine, ReadEnd, StillFailed, ReadNoMemory, ReadFails,
           Assign, mem_failure, Eof, Invalid, Failed, NoLine, Write, fwrite, Concat, WriteFails,
           ShortWrite, Written, Finished
  <2> QED BY <1>2, <2>1 DEF FlagsOK
<1> QED BY <1>1, <1>2, PTL DEF Spec

LEMMA Invariance == Spec => []IInv
<1>1. Init => IInv
  BY StartOK
<1>2. IInv /\ [Next]_vars => IInv'
  BY NextStep
<1> QED BY <1>1, <1>2, PTL DEF Spec

\* No stream is used after it was closed, and none is closed twice.
THEOREM TypeCorrect == Spec => []TypeOK
<1>1. IInv /\ FlagsOK => TypeOK
  BY DEF IInv, TypeOK, InputOK, FlagsOK, StoreOK, EndOK, Copying, Failure
<1> QED BY <1>1, Invariance, Flags, PTL

\* Whatever fails, str_get_line leaves no block behind but the destination's.
THEOREM NothingLost == Spec => []NothingLeaked
<1>1. IInv => NothingLeaked
  BY DEF IInv, StoreOK
<1> QED BY <1>1, Invariance, PTL

\* A line that str_get_line returns is the next one, all of it unless the read
\* failed, with a terminator.
THEOREM NextLineDelivered == Spec => []LineDelivered
<1>1. IInv => LineDelivered
  BY DEF IInv, LineDelivered, LineOK, HeldOK, File, CString
<1> QED BY <1>1, Invariance, PTL

\* What is written is a beginning of what was read, in order and each byte
\* once; when str_get_line returns -1 it is everything.
THEOREM CopiesTheInput == Spec => []Copied
<1>1. ASSUME IInv PROVE Copied
  <2>1. PICK m \in Nat : out = File(0, m)
    BY <1>1 DEF IInv, OutOK
  <2>2. \A j \in DOMAIN out : out[j] = j
    BY <2>1 DEF File
  <2>3. ASSUME ret = -1, ~nomem PROVE Len(out) = size
    <3>1. pc = "end"
      BY <1>1, <2>3, StreamAssumption DEF IInv, EndOK
    <3> QED BY <1>1, <2>3, <3>1, FileType DEF IInv, OutOK, InputOK
  <2> QED BY <2>2, <2>3 DEF Copied
<1> QED BY <1>1, Invariance, PTL

\* An error is returned exactly when a stream was closed.
THEOREM ErrorsCloseStreams == Spec => []ErrorCloses
<1>1. IInv => ErrorCloses
  BY StreamAssumption DEF IInv, EndOK, ErrorCloses, Failure
<1> QED BY <1>1, Invariance, PTL
=============================================================================
