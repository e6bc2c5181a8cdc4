--------------------------- MODULE ReadFileProofs ---------------------------
(***************************************************************************)
(* The safety properties of str_read_all_file, for files of every size and *)
(* limit, any set of blocks and of errors, and any sequence of resizes.    *)
(***************************************************************************)
EXTENDS ReadFile, SequenceTheorems, TLAPS

----------------------------------------------------------------------------
(* The inductive invariant. *)

Before  == {"open", "stat", "check"}
Holding == {"read", "close", "shrink", "assign"}
Ended   == {"done", "exited"}

Object == [at : Block \cup Literal \cup {NULL}, off : Nat, len : Nat, own : BOOLEAN]

\* A destination refers to no block it does not own.
StoreOK ==
  /\ live \subseteq Block /\ heap \in [Block -> Seq(Nat)]
  /\ \A b \in Block \ live : heap[b] = <<>>
  /\ dest \in Object
  /\ dest.at \in Block <=> dest.own

\* Which blocks there are, by where the call is.
BlocksOK ==
  /\ Freed(dest) \subseteq live
  /\ buff \in Block \cup {NULL}
  /\ pc \in Before => buff = NULL
  /\ pc \in Holding => buff # NULL
  /\ pc \in Holding \cup {"fail"} /\ buff # NULL =>
       buff \notin Freed(dest) /\ live = Freed(dest) \cup {buff}
  /\ pc \in Before \cup Ended \/ buff = NULL => live = Freed(dest)

\* What the buffer holds: the beginning of the file, up to where it was read.
Contents == [j \in 1 .. p |-> j]

BufferOK ==
  /\ {size, offset, st_size, p, room} \subseteq Nat /\ n \in Int
  /\ pc \in Holding =>
       offset = p /\ p <= st_size /\ st_size \in 1 .. STR_MAX_FILE_SIZE
  /\ pc = "read" => p < st_size
  /\ pc = "read" => st_size < room
  /\ pc \in Holding \cup {"fail"} /\ buff # NULL => p < room
  /\ pc \in {"read", "close", "fail"} /\ buff # NULL => heap[buff] = Contents
  /\ pc \in {"shrink", "assign"} => heap[buff] = Append(Contents, 0)
  /\ pc \in Before => offset = 0 /\ p = 0
  /\ buff \in live => Len(heap[buff]) <= room

\* If nobody changes the file after fstat, it is read up to its end.
SizeOK ==
  steady /\ kind = "file" =>
    /\ pc \in Holding \cup {"check"} => st_size = size
    /\ pc \in {"close", "shrink", "assign"} => p = size

DescriptorOK ==
  /\ pc = "open" => fd = "none"
  /\ pc \in {"stat", "check", "fail", "read", "close"} => fd = "open"
  /\ pc \in {"shrink", "assign"} => fd = "closed"
  /\ pc = "done" => fd \in {"none", "closed"}
  /\ fd \in {"none", "open", "closed"}

CauseOK ==
  /\ pc \in Before \cup Holding \cup Ended \cup {"fail"}
  /\ pc \in Before \cup Holding => cause = 0
  /\ pc = "fail" => cause = err /\ err \in Errno
  /\ pc # "done" => ret = Running
  /\ pc = "done" => ret = cause /\ ret \in Errno \cup {0, EISDIR, ENOTSUP, EFBIG}

IInv == StoreOK /\ BlocksOK /\ BufferOK /\ SizeOK /\ DescriptorOK /\ CauseOK /\ WholeFile

----------------------------------------------------------------------------
\* The state in which the program may call the function.
LEMMA Start == Init => IInv
<1> SUFFICES ASSUME Init PROVE IInv
  OBVIOUS
<1> USE ReadFileAssumption, HeapAssumption DEF Init
<1>1. heap \in [Block -> Seq(Nat)] /\ live \subseteq Block
  <2>1. <<0, 0>> \in Seq(Nat) /\ <<>> \in Seq(Nat)
    OBVIOUS
  <2> QED BY <2>1
<1>2. dest \in Object
  <2>1. \A a \in Literal : Len(LitText[a]) \in Nat
    BY LenProperties
  <2>2. CASE dest = str_null
    BY <2>2 DEF str_null, Object
  <2>3. CASE \E a \in Literal : dest = str_lit(a)
    BY <2>1, <2>3 DEF str_lit, Object
  <2>4. CASE \E b \in Block : dest = str_acquire_mem(b, 1)
    BY <2>4 DEF str_acquire_mem, Object
  <2> QED BY <2>2, <2>3, <2>4
<1>3. StoreOK
  BY <1>1, <1>2 DEF StoreOK, str_null, str_lit, str_acquire_mem
<1>4. BlocksOK
  BY DEF BlocksOK, Freed, Before, Holding, Ended, str_null, str_lit, str_acquire_mem
<1>5. BufferOK
  BY DEF BufferOK, Before, Holding
<1>6. SizeOK /\ DescriptorOK /\ CauseOK /\ WholeFile
  BY DEF SizeOK, DescriptorOK, CauseOK, WholeFile, Before, Holding, Ended
<1> QED BY <1>3, <1>4, <1>5, <1>6 DEF IInv

----------------------------------------------------------------------------
(* The steps.  Most of them leave the memory, or the descriptor, or the     *)
(* buffer alone.                                                            *)

\* What the last parts of the invariant say of the end of a call.
LEMMA Unfinished == ASSUME CauseOK, pc \notin Ended PROVE ret = Running /\ ret # 0
BY ReadFileAssumption DEF CauseOK, Ended

\* Another process changes the size of the file.
LEMMA ResizeStep == ASSUME IInv, Resize PROVE IInv'
<1> USE DEF IInv, Resize, memory
<1>1. StoreOK'
  BY DEF StoreOK
<1>2. BlocksOK'
  BY DEF BlocksOK
<1>3. BufferOK'
  <2>1. size' \in Nat
    BY ReadFileAssumption
  <2> QED BY <2>1 DEF BufferOK, Contents
<1>4. SizeOK' /\ DescriptorOK' /\ CauseOK'
  BY DEF SizeOK, DescriptorOK, CauseOK
<1>5. WholeFile'
  BY Unfinished DEF WholeFile, Ended
<1> QED BY <1>1, <1>2, <1>3, <1>4, <1>5

\* open and fstat, successful or not.
LEMMA OpenSteps ==
  ASSUME IInv, Open \/ Interrupted \/ fstat
  PROVE  IInv'
<1>1. ASSUME Open PROVE IInv'
  <2> USE <1>1 DEF IInv, Open, file, memory
  <2>1. StoreOK' /\ BlocksOK'
    BY DEF StoreOK, BlocksOK, Before, Holding, Ended
  <2>2. BufferOK'
    BY DEF BufferOK, Contents, Before, Holding
  <2>3. SizeOK' /\ DescriptorOK' /\ CauseOK'
    BY DEF SizeOK, DescriptorOK, CauseOK, Before, Holding, Ended
  <2>4. WholeFile'
    BY Unfinished DEF WholeFile, Ended
  <2> QED BY <2>1, <2>2, <2>3, <2>4
<1>2. ASSUME Interrupted PROVE IInv'
  <2> USE <1>2 DEF IInv, Interrupted, file, memory
  <2>1. StoreOK' /\ BlocksOK'
    BY DEF StoreOK, BlocksOK
  <2>2. BufferOK'
    BY DEF BufferOK, Contents
  <2>3. SizeOK' /\ DescriptorOK' /\ CauseOK'
    BY DEF SizeOK, DescriptorOK, CauseOK, Before, Holding, Ended
  <2>4. WholeFile'
    BY Unfinished DEF WholeFile, Ended
  <2> QED BY <2>1, <2>2, <2>3, <2>4
<1>3. ASSUME fstat PROVE IInv'
  <2> USE <1>3 DEF IInv, fstat, file, memory
  <2>1. StoreOK' /\ BlocksOK'
    BY DEF StoreOK, BlocksOK, Before, Holding, Ended
  <2>2. BufferOK'
    BY DEF BufferOK, Contents, Before, Holding
  <2>3. SizeOK' /\ DescriptorOK' /\ CauseOK'
    BY DEF SizeOK, DescriptorOK, CauseOK, Before, Holding, Ended
  <2>4. WholeFile'
    BY Unfinished DEF WholeFile, Ended
  <2> QED BY <2>1, <2>2, <2>3, <2>4
<1> QED BY <1>1, <1>2, <1>3

\* The errors before anything is allocated, and the first of all others.
LEMMA EarlyErrors ==
  ASSUME IInv, NEW e \in Errno, OpenFails(e) \/ Failed("stat", e) \/ Failed("read", e)
  PROVE  IInv'
<1>1. ASSUME OpenFails(e) PROVE IInv'
  <2> USE <1>1 DEF IInv, OpenFails, file, memory, Return
  <2>1. StoreOK' /\ BlocksOK'
    BY DEF StoreOK, BlocksOK, Before, Holding, Ended
  <2>2. BufferOK'
    BY DEF BufferOK, BlocksOK, Contents, Before, Holding
  <2>3. SizeOK' /\ DescriptorOK'
    BY DEF SizeOK, DescriptorOK, Before, Holding
  <2>4. CauseOK' /\ WholeFile'
    BY Unfinished, ReadFileAssumption DEF CauseOK, WholeFile, Before, Holding, Ended
  <2> QED BY <2>1, <2>2, <2>3, <2>4
<1>2. ASSUME Failed("stat", e) PROVE IInv'
  <2> USE <1>2 DEF IInv, Failed, file, memory, Return
  <2>1. StoreOK' /\ BlocksOK'
    BY DEF StoreOK, BlocksOK, Before, Holding, Ended
  <2>2. BufferOK'
    BY DEF BufferOK, BlocksOK, Contents, Before, Holding
  <2>3. SizeOK' /\ DescriptorOK'
    BY DEF SizeOK, DescriptorOK, Before, Holding
  <2>4. CauseOK' /\ WholeFile'
    BY Unfinished, ReadFileAssumption DEF CauseOK, WholeFile, Before, Holding, Ended
  <2> QED BY <2>1, <2>2, <2>3, <2>4
<1>3. ASSUME Failed("read", e) PROVE IInv'
  <2> USE <1>3 DEF IInv, Failed, file, memory, Return
  <2>1. StoreOK' /\ BlocksOK'
    BY DEF StoreOK, BlocksOK, Before, Holding, Ended
  <2>2. BufferOK'
    BY DEF BufferOK, BlocksOK, Contents, Before, Holding
  <2>3. SizeOK' /\ DescriptorOK'
    BY DEF SizeOK, DescriptorOK, Before, Holding
  <2>4. CauseOK' /\ WholeFile'
    BY Unfinished, ReadFileAssumption DEF CauseOK, WholeFile, Before, Holding, Ended
  <2> QED BY <2>1, <2>2, <2>3, <2>4
<1> QED BY <1>1, <1>2, <1>3

\* Files that are not read at all.
LEMMA RefusedSteps == ASSUME IInv, NotRegular \/ TooBig PROVE IInv'
<1>1. ASSUME NotRegular PROVE IInv'
  <2> USE <1>1 DEF IInv, NotRegular, CloseUnchecked, Close, file, memory, Return
  <2>1. StoreOK' /\ BlocksOK'
    BY DEF StoreOK, BlocksOK, Before, Holding, Ended
  <2>2. BufferOK'
    BY DEF BufferOK, BlocksOK, Contents, Before, Holding
  <2>3. SizeOK' /\ DescriptorOK'
    BY DEF SizeOK, DescriptorOK, Before, Holding
  <2>4. CauseOK' /\ WholeFile'
    BY Unfinished, ReadFileAssumption DEF CauseOK, WholeFile, Before, Holding, Ended
  <2> QED BY <2>1, <2>2, <2>3, <2>4
<1>2. ASSUME TooBig PROVE IInv'
  <2> USE <1>2 DEF IInv, TooBig, CloseUnchecked, Close, file, memory, Return
  <2>1. StoreOK' /\ BlocksOK'
    BY DEF StoreOK, BlocksOK, Before, Holding, Ended
  <2>2. BufferOK'
    BY DEF BufferOK, BlocksOK, Contents, Before, Holding
  <2>3. SizeOK' /\ DescriptorOK'
    BY DEF SizeOK, DescriptorOK, Before, Holding
  <2>4. CauseOK' /\ WholeFile'
    BY Unfinished, ReadFileAssumption DEF CauseOK, WholeFile, Before, Holding, Ended
  <2> QED BY <2>1, <2>2, <2>3, <2>4
<1> QED BY <1>1, <1>2

\* What free leaves behind.
LEMMA Freeing ==
  ASSUME StoreOK, NEW B, free(B)
  PROVE  /\ live' \subseteq Block /\ heap' \in [Block -> Seq(Nat)]
         /\ \A b \in Block \ live' : heap'[b] = <<>>
         /\ \A b \in Block \ B : heap'[b] = heap[b]
<1>1. <<>> \in Seq(Nat)
  OBVIOUS
<1> QED BY <1>1 DEF StoreOK, free, Scrub

\* A destination with nothing to free.
LEMMA Emptied ==
  /\ str_null \in Object /\ str_null.at \notin Block /\ ~str_null.own
  /\ Freed(str_null) = {} /\ str_null.len = 0
BY HeapAssumption DEF str_null, Object, Freed

\* An empty file empties the destination, once it is closed.
LEMMA EmptyFileStep == ASSUME IInv, NEW e \in Errno \cup {0}, EmptyFile(e) PROVE IInv'
<1> USE DEF IInv, EmptyFile, IsEmpty, Close, file, Return
<1>1. CASE e = 0
  <2> USE <1>1
  <2>1. StoreOK'
    BY Freeing, Emptied DEF StoreOK
  <2>2. BlocksOK'
    BY Emptied DEF BlocksOK, free, Before, Holding, Ended
  <2>3. BufferOK'
    BY HeapAssumption DEF BufferOK, BlocksOK, StoreOK, free, Before, Holding
  <2>4. SizeOK' /\ DescriptorOK' /\ CauseOK'
    BY DEF SizeOK, DescriptorOK, CauseOK, Before, Holding, Ended
  <2>5. WholeFile'
    <3>1. 0 <= STR_MAX_FILE_SIZE
      BY ReadFileAssumption DEF STR_MAX_FILE_SIZE
    <3>2. steady /\ kind = "file" => size = 0
      BY DEF SizeOK
    <3> QED BY <3>1, <3>2, Emptied DEF WholeFile
  <2> QED BY <2>1, <2>2, <2>3, <2>4, <2>5
<1>2. CASE e # 0
  <2> USE <1>2
  <2>1. StoreOK' /\ BlocksOK'
    BY DEF StoreOK, BlocksOK, Before, Holding, Ended
  <2>2. BufferOK'
    BY HeapAssumption DEF BufferOK, BlocksOK, StoreOK, Before, Holding
  <2>3. SizeOK' /\ DescriptorOK'
    BY DEF SizeOK, DescriptorOK, Before, Holding
  <2>4. CauseOK' /\ WholeFile'
    BY ReadFileAssumption DEF CauseOK, WholeFile, Before, Holding, Ended
  <2> QED BY <2>1, <2>2, <2>3, <2>4
<1> QED BY <1>1, <1>2

\* The buffer has room for the file and the terminator.
LEMMA AllocStep == ASSUME IInv, mem_alloc PROVE IInv'
<1> USE DEF IInv, mem_alloc, ToRead, file
<1>1. /\ buff' \in Block \ live /\ live' = live \cup {buff'}
      /\ heap[buff'] = <<>>
  BY DEF StoreOK
<1>2. StoreOK'
  BY <1>1 DEF StoreOK
<1>3. BlocksOK'
  BY <1>1, HeapAssumption DEF BlocksOK, Before, Holding, Ended
<1>4. BufferOK'
  <2>1. heap'[buff'] = Contents'
    BY <1>1 DEF Contents
  <2>2. Len(heap'[buff']) = 0 /\ offset = 0 /\ st_size \in Nat
    BY <1>1 DEF BufferOK, Before
  <2> QED BY <2>1, <2>2, <1>1 DEF BufferOK, BufferSize, Before, Holding
<1>5. SizeOK' /\ DescriptorOK' /\ CauseOK'
  BY DEF SizeOK, DescriptorOK, CauseOK, Before, Holding, Ended
<1>6. WholeFile'
  BY Unfinished DEF WholeFile, Ended
<1> QED BY <1>2, <1>3, <1>4, <1>5, <1>6

\* When memory runs out the process exits, without the buffer.
LEMMA ExitStep == ASSUME IInv, mem_failure PROVE IInv'
<1> USE DEF IInv, mem_failure, ToRead, file
<1> DEFINE gone == IF ToRead THEN {} ELSE {buff}
<1>1. /\ free(gone)
      /\ \/ gone = {} /\ buff = NULL
         \/ gone = {buff} /\ buff \in Block /\ pc = "shrink"
  BY DEF BlocksOK, Before, Holding
<1>2. StoreOK'
  BY <1>1, Freeing DEF StoreOK
<1>3. BlocksOK'
  BY <1>1 DEF BlocksOK, free, Before, Holding, Ended
<1>4. BufferOK'
  BY <1>1, HeapAssumption DEF BufferOK, BlocksOK, StoreOK, free, Before, Holding
<1>5. SizeOK' /\ DescriptorOK' /\ CauseOK'
  BY DEF SizeOK, DescriptorOK, CauseOK, Before, Holding, Ended
<1>6. WholeFile'
  BY Unfinished DEF WholeFile, Ended
<1> QED BY <1>2, <1>3, <1>4, <1>5, <1>6

\* A read, however much it returns, appends the next bytes of the file.
LEMMA ReadStep == ASSUME IInv, read PROVE IInv'
<1> USE DEF IInv, read, file
<1>1. PICK m \in Count :
        /\ heap' = [heap EXCEPT ![buff] = @ \o [j \in 1 .. m |-> offset + j]]
        /\ n' = m /\ offset' = offset + m /\ p' = p + m
        /\ pc' = IF More(m) THEN "read" ELSE "close"
  OBVIOUS
<1>2. /\ buff \in live /\ buff \in Block /\ buff # NULL /\ buff \notin Freed(dest)
      /\ live = Freed(dest) \cup {buff}
  BY HeapAssumption DEF BlocksOK, StoreOK, Holding
<1>3. /\ p \in Nat /\ offset = p /\ p < st_size /\ heap[buff] = Contents /\ size \in Nat
      /\ st_size \in 1 .. STR_MAX_FILE_SIZE /\ st_size < room /\ room \in Nat
  BY <1>2 DEF BufferOK, Holding
<1>4. m \in Nat /\ p + m <= st_size /\ st_size \in Nat
  BY <1>1, <1>3, ReadFileAssumption DEF Count, STR_MAX_FILE_SIZE
<1>5. heap'[buff] = Contents' /\ heap'[buff] \in Seq(Nat)
  <2>1. heap'[buff] = [j \in 1 .. p |-> j] \o [j \in 1 .. m |-> p + j]
    BY <1>1, <1>2, <1>3 DEF StoreOK, Contents
  <2>2. [j \in 1 .. p |-> j] \o [j \in 1 .. m |-> p + j] = [j \in 1 .. p + m |-> j]
    BY <1>3, <1>4
  <2>3. [j \in 1 .. p + m |-> j] \in Seq(Nat)
    BY <1>3, <1>4
  <2> QED BY <1>1, <2>1, <2>2, <2>3 DEF Contents
<1>6. StoreOK'
  BY <1>1, <1>2, <1>5 DEF StoreOK
<1>7. BlocksOK'
  BY <1>1, <1>2 DEF BlocksOK, Before, Holding, Ended
<1>8. BufferOK'
  <2>1. Len(heap'[buff]) = p'
    BY <1>1, <1>3, <1>4, <1>5 DEF Contents
  <2>2. pc' \in {"read", "close"} /\ (pc' = "read" => p' < st_size)
    BY <1>1 DEF More
  <2>3. /\ p' \in Nat /\ p' <= st_size' /\ offset' = p' /\ n' \in Int
        /\ st_size' \in 1 .. STR_MAX_FILE_SIZE /\ st_size' < room' /\ p' < room'
        /\ {size, offset, st_size, p, room}' \subseteq Nat
    BY <1>1, <1>3, <1>4
  <2>4. buff' # NULL /\ heap'[buff'] = Contents' /\ Len(heap'[buff']) = p'
    BY <1>2, <1>5, <2>1
  <2>5. p' < room'
    BY <2>3
  <2>6. p' <= room'
    BY <2>3
  <2>7. pc' \notin Before /\ pc' \notin {"shrink", "assign"}
    BY <2>2 DEF Before
  <2>8. pc' = "read" => p' < st_size'
    BY <2>2
  <2> HIDE DEF IInv, read, file
  <2> QED BY <2>1, <2>2, <2>3, <2>4, <2>5, <2>6, <2>7, <2>8 DEF BufferOK
<1>9. SizeOK'
  <2>1. steady /\ kind = "file" => st_size = size
    BY DEF SizeOK, Holding
  <2>2. pc' = "close" => p' >= st_size \/ p' >= size
    BY <1>1, <1>3, <1>4 DEF More, Count
  <2> QED BY <1>1, <1>3, <1>4, <2>1, <2>2 DEF SizeOK, Holding
<1>10. DescriptorOK' /\ CauseOK'
  BY <1>1 DEF DescriptorOK, CauseOK, Before, Holding, Ended
<1>11. WholeFile'
  BY Unfinished DEF WholeFile, Ended
<1> QED BY <1>6, <1>7, <1>8, <1>9, <1>10, <1>11

\* After a failure: the buffer is freed if there is one.
LEMMA GiveUpSteps ==
  ASSUME IInv, GiveUp \/ \E e \in Errno : CloseFails(e)
  PROVE  IInv'
<1> USE DEF IInv, Close, file, Return
<1>1. /\ free({buff}) /\ pc \in {"fail", "close"} /\ pc' = "done" /\ UNCHANGED <<dest, buff>>
      /\ fd' = "closed" /\ ret' # 0 /\ ret' = cause' /\ ret' \in Errno
  BY ReadFileAssumption DEF GiveUp, CloseFails, CloseUnchecked, DescriptorOK, CauseOK
<1>2. UNCHANGED <<offset, room, st_size, p, n, size>>
  BY DEF GiveUp, CloseFails
<1>3. StoreOK'
  BY <1>1, Freeing DEF StoreOK
<1>4. BlocksOK'
  BY <1>1, HeapAssumption DEF BlocksOK, StoreOK, free, Before, Holding, Ended
<1>5. BufferOK'
  BY <1>1, <1>2 DEF BufferOK, free, Before, Holding
<1>6. SizeOK' /\ DescriptorOK' /\ CauseOK'
  BY <1>1 DEF SizeOK, DescriptorOK, CauseOK, Before, Holding, Ended
<1>7. WholeFile'
  BY <1>1 DEF WholeFile
<1> QED BY <1>3, <1>4, <1>5, <1>6, <1>7

\* The terminator.
LEMMA CloseStep == ASSUME IInv, Closed PROVE IInv'
<1> USE DEF IInv, Closed, Close, file
<1>1. /\ buff \in Block /\ buff \in live /\ buff # NULL /\ buff \notin Freed(dest)
      /\ pc' \in {"shrink", "assign"} /\ p \in Nat /\ p < room /\ room \in Nat
      /\ heap[buff] = Contents /\ Contents' = Contents
  BY DEF BlocksOK, BufferOK, Contents, Holding
<1>2. /\ heap'[buff] = Append(Contents, 0) /\ heap'[buff] \in Seq(Nat)
      /\ Len(heap'[buff]) = p + 1
  <2>1. Contents \in Seq(Nat) /\ Len(Contents) = p
    BY <1>1 DEF Contents
  <2> QED BY <1>1, <2>1 DEF StoreOK
<1>3. StoreOK'
  BY <1>1, <1>2 DEF StoreOK
<1>4. BlocksOK'
  BY <1>1 DEF BlocksOK, Before, Holding, Ended
<1>5. BufferOK'
  BY <1>1, <1>2 DEF BufferOK, Before, Holding
<1>6. SizeOK' /\ DescriptorOK' /\ CauseOK'
  BY DEF SizeOK, DescriptorOK, CauseOK, Before, Holding, Ended
<1>7. WholeFile'
  BY Unfinished DEF WholeFile, Ended
<1> QED BY <1>3, <1>4, <1>5, <1>6, <1>7

\* A block that realloc moved holds what the old one held.
LEMMA ReallocStep == ASSUME IInv, mem_realloc PROVE IInv'
<1> USE DEF IInv, mem_realloc, file
<1>1. PICK b \in {buff} \cup (Block \ live) :
        /\ buff' = b /\ live' = (live \ {buff}) \cup {b}
        /\ heap' = [Scrub(heap, {buff}) EXCEPT ![b] = SubSeq(heap[buff], 1, p + 1)]
  OBVIOUS
<1>2. /\ buff \in Block /\ buff \notin Freed(dest) /\ live = Freed(dest) \cup {buff}
      /\ b \in Block /\ b # NULL /\ b \notin Freed(dest)
      /\ p \in Nat /\ heap[buff] = Append(Contents, 0) /\ Contents' = Contents
  BY <1>1, HeapAssumption DEF BlocksOK, BufferOK, Contents, Holding
<1>3. /\ SubSeq(heap[buff], 1, p + 1) = heap[buff] /\ heap[buff] \in Seq(Nat)
      /\ Len(heap[buff]) = p + 1
  <2>1. Contents \in Seq(Nat) /\ Len(Contents) = p
    BY <1>2 DEF Contents
  <2>2. heap[buff] \in Seq(Nat) /\ Len(heap[buff]) = p + 1
    BY <1>2, <2>1 DEF StoreOK
  <2>3. \A x \in Seq(Nat) : SubSeq(x, 1, Len(x)) = x
    OBVIOUS
  <2> QED BY <2>2, <2>3
<1>4. heap'[b] = heap[buff]
  BY <1>1, <1>2, <1>3 DEF Scrub
<1>5. StoreOK'
  <2>1. <<>> \in Seq(Nat)
    OBVIOUS
  <2>2. heap' \in [Block -> Seq(Nat)]
    BY <1>1, <1>3, <2>1 DEF StoreOK, Scrub
  <2>3. \A a \in Block \ live' : heap'[a] = <<>>
    BY <1>1 DEF StoreOK, Scrub
  <2> QED BY <1>1, <1>2, <2>2, <2>3 DEF StoreOK
<1>6. BlocksOK'
  BY <1>1, <1>2 DEF BlocksOK, Before, Holding, Ended
<1>7. BufferOK'
  <2>1. buff' = b /\ p' = p /\ room' = p + 1 /\ pc' = "assign"
    BY <1>1
  <2>2. heap'[buff'] = Append(Contents', 0) /\ Len(heap'[buff']) = p + 1
    BY <1>2, <1>3, <1>4, <2>1
  <2>3. p' < room' /\ Len(heap'[buff']) <= room'
    BY <1>2, <2>1, <2>2
  <2>4. /\ offset' = p' /\ p' <= st_size' /\ st_size' \in 1 .. STR_MAX_FILE_SIZE
        /\ {size, offset, st_size, p, room}' \subseteq Nat /\ n' \in Int
    BY <1>2 DEF BufferOK, Holding
  <2> HIDE DEF IInv, mem_realloc, file
  <2> QED BY <2>1, <2>2, <2>3, <2>4 DEF BufferOK, Before, Holding
<1>8. SizeOK' /\ DescriptorOK' /\ CauseOK'
  BY DEF SizeOK, DescriptorOK, CauseOK, Before, Holding, Ended
<1>9. WholeFile'
  BY Unfinished DEF WholeFile, Ended
<1> QED BY <1>5, <1>6, <1>7, <1>8, <1>9

\* The buffer becomes the destination's, or is freed if there is nothing in it.
LEMMA AssignStep == ASSUME IInv, str_assign PROVE IInv'
<1> USE DEF IInv, str_assign, file, Return
<1> DEFINE gone == Freed(dest) \cup Surplus(buff, p)
<1>1. /\ buff \in Block /\ buff \in live /\ buff # NULL /\ buff \notin Freed(dest)
      /\ live = Freed(dest) \cup {buff} /\ free(gone) /\ dest' = str_acquire_mem(buff, p)
      /\ p \in Nat /\ p < room /\ room \in Nat /\ p <= STR_MAX_FILE_SIZE
      /\ heap[buff] = Append(Contents, 0) /\ Contents' = Contents
  <2>1. st_size \in 1 .. STR_MAX_FILE_SIZE /\ p <= st_size /\ p \in Nat
    BY DEF BufferOK, Holding
  <2>2. p <= STR_MAX_FILE_SIZE
    BY <2>1, ReadFileAssumption DEF STR_MAX_FILE_SIZE
  <2> QED BY <2>1, <2>2 DEF BlocksOK, BufferOK, Contents, Holding
<1>2. CASE p = 0
  <2>1. dest' = str_null /\ gone = live /\ live' = {}
    BY <1>1, <1>2, Emptied DEF str_acquire_mem, Surplus, free
  <2>2. StoreOK'
    BY <1>1, <2>1, Freeing, Emptied DEF StoreOK
  <2>3. BlocksOK' /\ BufferOK'
    BY <1>1, <2>1, Emptied DEF BlocksOK, BufferOK, Before, Holding, Ended
  <2>4. WholeFile'
    BY <1>1, <1>2, <2>1, Emptied DEF WholeFile, SizeOK
  <2> QED BY <2>2, <2>3, <2>4 DEF SizeOK, DescriptorOK, CauseOK, Before, Holding, Ended
<1>3. CASE p # 0
  <2>1. /\ dest' = [at |-> buff, off |-> 0, len |-> p, own |-> TRUE]
        /\ Freed(dest') = {buff} /\ gone = Freed(dest) /\ live' = {buff} /\ dest' \in Object
    BY <1>1, <1>3 DEF str_acquire_mem, Surplus, Freed, free, Object
  <2>2. heap'[buff] = heap[buff]
    BY <1>1, <2>1, Freeing
  <2>3. StoreOK'
    BY <1>1, <2>1, Freeing DEF StoreOK
  <2>4. BlocksOK'
    BY <1>1, <2>1 DEF BlocksOK, Before, Holding, Ended
  <2>5. BufferOK'
    BY <1>1, <2>1, <2>2 DEF BufferOK, Before, Holding
  <2>6. WholeFile'
    BY <1>1, <2>1, <2>2 DEF WholeFile, SizeOK, Contents
  <2> QED BY <2>3, <2>4, <2>5, <2>6 DEF SizeOK, DescriptorOK, CauseOK, Before, Holding, Ended
<1> QED BY <1>2, <1>3

----------------------------------------------------------------------------
(* The theorems. *)

LEMMA Step == ASSUME IInv, [Next]_vars PROVE IInv'
<1>1. CASE Open \/ Interrupted \/ fstat
  BY <1>1, OpenSteps
<1>2. ASSUME NEW e \in Errno,
             \/ OpenFails(e) \/ Failed("stat", e) \/ Failed("read", e)
             \/ EmptyFile(e) \/ CloseFails(e)
      PROVE  IInv'
  BY <1>2, EarlyErrors, EmptyFileStep, GiveUpSteps
<1>3. CASE NotRegular \/ TooBig
  BY <1>3, RefusedSteps
<1>4. CASE EmptyFile(0) \/ mem_alloc \/ mem_failure \/ read \/ GiveUp
  BY <1>4, EmptyFileStep, AllocStep, ExitStep, ReadStep, GiveUpSteps
<1>5. CASE Closed \/ mem_realloc \/ str_assign
  BY <1>5, CloseStep, ReallocStep, AssignStep
<1>6. CASE UNCHANGED vars
  <2> USE <1>6 DEF vars, file, memory, IInv
  <2>1. StoreOK' /\ BlocksOK' /\ SizeOK' /\ DescriptorOK' /\ CauseOK'
    BY DEF StoreOK, BlocksOK, SizeOK, DescriptorOK, CauseOK
  <2>2. BufferOK'
    BY DEF BufferOK, Contents
  <2>3. WholeFile'
    BY DEF WholeFile
  <2> QED BY <2>1, <2>2, <2>3
<1> QED BY <1>1, <1>2, <1>3, <1>4, <1>5, <1>6, ResizeStep
        DEF Next, CallStep, OpenAttempt, ReadAttempt, Finished

\* The memory of the destination is not the buffer's.
LEMMA Untouched ==
  ASSUME IInv, [Next]_vars
  PROVE  ret' = 0 \/ (UNCHANGED dest /\ \A b \in Freed(dest) : heap'[b] = heap[b])
<1> USE DEF memory
<1>1. CASE UNCHANGED memory
  BY <1>1
<1>2. CASE (\E e \in Errno \cup {0} : EmptyFile(e)) \/ str_assign
  BY <1>2 DEF EmptyFile, str_assign, Return
<1>3. CASE mem_alloc
  BY <1>3 DEF mem_alloc
<1>4. Freed(dest) \subseteq Block /\ Freed(dest) \subseteq live
  BY DEF IInv, StoreOK, BlocksOK, Freed
<1>5. CASE mem_failure \/ GiveUp \/ \E e \in Errno : CloseFails(e)
  <2>1. /\ UNCHANGED dest
        /\ \/ heap' = Scrub(heap, {})
           \/ heap' = Scrub(heap, {buff}) /\ pc \in {"shrink", "fail", "close"}
    BY <1>5 DEF mem_failure, GiveUp, CloseFails, free
  <2>2. pc \in {"shrink", "fail", "close"} => buff \notin Freed(dest)
    BY <1>4, HeapAssumption DEF IInv, BlocksOK, Holding
  <2> QED BY <1>4, <2>1, <2>2 DEF Scrub
<1>6. CASE read \/ Closed
  <2>1. /\ UNCHANGED dest /\ pc \in Holding
        /\ \E x : heap' = [heap EXCEPT ![buff] = x]
    BY <1>6 DEF read, Closed, Holding
  <2> QED BY <1>4, <2>1 DEF IInv, BlocksOK, StoreOK
<1>7. CASE mem_realloc
  <2>1. PICK b \in {buff} \cup (Block \ live) :
          \E x : heap' = [Scrub(heap, {buff}) EXCEPT ![b] = x]
    BY <1>7 DEF mem_realloc
  <2>2. UNCHANGED dest /\ {buff, b} \cap Freed(dest) = {}
    BY <1>4, <1>7 DEF mem_realloc, IInv, BlocksOK, Holding
  <2> QED BY <1>4, <2>1, <2>2 DEF Scrub
<1>8. \/ UNCHANGED memory
      \/ (\E e \in Errno \cup {0} : EmptyFile(e)) \/ str_assign
      \/ mem_alloc \/ mem_failure \/ GiveUp \/ (\E e \in Errno : CloseFails(e))
      \/ read \/ Closed \/ mem_realloc
  BY DEF Next, CallStep, OpenAttempt, ReadAttempt, Finished, Resize, Open, OpenFails,
         Interrupted, fstat, Failed, NotRegular, TooBig, vars
<1> QED BY <1>1, <1>2, <1>3, <1>5, <1>6, <1>7, <1>8

LEMMA Invariance == Spec => []IInv
<1>1. Init => IInv
  BY Start
<1>2. IInv /\ [Next]_vars => IInv'
  BY Step
<1> QED BY <1>1, <1>2, PTL DEF Spec

\* The reads and the terminator stay inside the buffer, for a file of any size
\* that changes at any moment.
THEOREM TypeCorrect == Spec => []TypeOK
<1>1. IInv => TypeOK
  BY ReadFileAssumption DEF IInv, TypeOK, StoreOK, BlocksOK, BufferOK, DescriptorOK, CauseOK,
                            Before, Holding, Ended
<1> QED BY <1>1, Invariance, PTL

\* str_read_all_file leaves no block and no descriptor behind, on any path.
THEOREM NothingLeft == Spec => []NothingLeaked
<1>1. IInv => NothingLeaked
  BY DEF IInv, NothingLeaked, BlocksOK, DescriptorOK, Ended
<1> QED BY <1>1, Invariance, PTL

\* On success the destination is the file, or what was left of it.
THEOREM ReadsTheFile == Spec => []WholeFile
<1>1. IInv => WholeFile
  BY DEF IInv
<1> QED BY <1>1, Invariance, PTL

\* The error returned is the first one, and no error is taken for success.
THEOREM FirstErrorReturned == Spec => []CauseReported
<1>1. IInv => CauseReported
  BY DEF IInv, CauseOK, CauseReported
<1> QED BY <1>1, Invariance, PTL

\* Until str_read_all_file succeeds, its destination is what it was.
THEOREM DestinationKept == Spec => ChangedOnSuccess
<1>1. ASSUME IInv, [Next]_vars
      PROVE  [dest' # dest \/ Text(dest)' # Text(dest) => ret' = 0]_vars
  <2>1. dest.at \in Block => dest.at \in Freed(dest)
    BY <1>1 DEF IInv, StoreOK, Freed
  <2> QED BY <1>1, <2>1, Untouched DEF Text, Bytes
<1> QED BY <1>1, Invariance, PTL DEF Spec, ChangedOnSuccess
=============================================================================
