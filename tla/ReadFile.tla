------------------------------ MODULE ReadFile ------------------------------
(***************************************************************************)
(* str_read_all_file: open, fstat, a buffer of the size fstat reports, a   *)
(* loop of reads, close, and the buffer becomes the destination's.  Other  *)
(* processes may change the size of the file between any two system calls. *)
(*                                                                         *)
(* The code never looks at the bytes: a byte is represented by its         *)
(* position in the file, counted from 1, and 0 is the terminator.          *)
(***************************************************************************)
EXTENDS StrHeap, Integers

CONSTANTS
  Mb64,      \* 64 * 1024 * 1024
  Errno,     \* what errno may hold after a failed call, EINTR left aside
  EINTR, EISDIR, ENOTSUP, EFBIG,
  Running,   \* the call has not returned yet
  MaxSize    \* bound: the size of the file

ASSUME ReadFileAssumption ==
  /\ Mb64 \in Nat \ {0} /\ MaxSize \in Nat
  /\ {0, Running} \cap (Errno \cup {EINTR, EISDIR, ENOTSUP, EFBIG}) = {} /\ Running # 0
  /\ {EINTR, EISDIR, ENOTSUP, EFBIG} \cap Errno = {}

STR_MAX_FILE_SIZE == Mb64 - 1

VARIABLES
  kind,      \* what the name refers to; a "proc" file is regular and says 0 of its size
  size,      \* the number of bytes in the file
  steady,    \* whether its size is still what it was when fstat looked
  fd,        \* the descriptor, and its
  offset,    \*   offset in the file
  dest,      \* the destination
  st_size,   \* the size fstat reports
  buff,      \* the buffer,
  room,      \*   its size, and
  p,         \*   how much of it has been read
  n,         \* what the last read returned
  errno,
  err,       \* the local variable
  pc,        \* where the call is
  ret,       \* the call's return value
  cause      \* history: the error that made the call give up

file   == <<kind, size, steady>>
memory == <<live, heap, dest, buff, room>>
vars   == <<file, fd, offset, memory, st_size, p, n, errno, err, pc, ret, cause>>

\* A destination: empty, a reference to a literal, an owner.
Init ==
  /\ kind \in {"file", "dir", "other", "proc"} /\ size \in 0 .. MaxSize /\ steady = FALSE
  /\ fd = "none" /\ offset = 0
  /\ \/ live = {} /\ dest \in {str_null} \cup {str_lit(a) : a \in Literal}
     \/ \E b \in Block : live = {b} /\ dest = str_acquire_mem(b, 1)
  /\ heap = [b \in Block |-> IF b \in live THEN <<0, 0>> ELSE <<>>]
  /\ buff = NULL /\ room = 0 /\ st_size = 0 /\ p = 0 /\ n = 0
  /\ errno = 0 /\ err = 0 /\ cause = 0 /\ pc = "open" /\ ret = Running

\* Another process truncates or extends the file.
Resize ==
  /\ pc \notin {"done", "exited"}
  /\ size' \in 0 .. MaxSize \ {size} /\ steady' = FALSE
  /\ UNCHANGED <<kind, fd, offset, memory, st_size, p, n, errno, err, pc, ret, cause>>

Return(r) == pc' = "done" /\ ret' = r

\* close() releases the descriptor, whatever it returns (Linux).
Close == fd' = IF fd = "open" THEN "closed" ELSE "misused"

\* A close() nobody checks may fail too.
CloseUnchecked == Close /\ errno' \in {errno} \cup Errno

free(B) == live' = live \ B /\ heap' = Scrub(heap, B)

----------------------------------------------------------------------------
(* open and fstat. *)

Open ==
  /\ pc = "open" /\ fd' = "open"
  /\ pc' = "stat"
  /\ UNCHANGED <<file, offset, memory, st_size, p, n, errno, err, ret, cause>>

OpenFails(e) ==
  /\ pc = "open"
  /\ errno' = e /\ err' = e /\ cause' = e /\ Return(e)
  /\ UNCHANGED <<file, fd, offset, memory, st_size, p, n>>

\* EINTR: open or read again.
Interrupted ==
  /\ pc \in {"open", "read"}
  /\ errno' = EINTR /\ err' = EINTR
  /\ n' = IF pc = "read" THEN -1 ELSE n
  /\ UNCHANGED <<file, fd, offset, memory, st_size, p, pc, ret, cause>>

fstat ==
  /\ pc = "stat"
  /\ st_size' = IF kind = "proc" THEN 0 ELSE size
  /\ steady' = TRUE /\ pc' = "check"
  /\ UNCHANGED <<kind, size, fd, offset, memory, p, n, errno, err, ret, cause>>

\* err = errno, here and in the reading loop.
Failed(at, e) ==
  /\ pc = at
  /\ errno' = e /\ err' = e /\ cause' = e /\ n' = (IF at = "read" THEN -1 ELSE n) /\ pc' = "fail"
  /\ UNCHANGED <<file, fd, offset, memory, st_size, p, ret>>

IsReg == kind \in {"file", "proc"}

NotRegular ==
  /\ pc = "check" /\ ~IsReg
  /\ CloseUnchecked
  /\ cause' = (IF kind = "dir" THEN EISDIR ELSE ENOTSUP) /\ Return(cause')
  /\ UNCHANGED <<file, offset, memory, st_size, p, n, err>>

IsEmpty == pc = "check" /\ IsReg /\ st_size = 0

ClearThenClose(e) ==
  /\ IsEmpty /\ Close
  /\ dest' = str_null /\ free(Freed(dest))
  /\ IF e = 0 THEN UNCHANGED <<errno, cause>> ELSE errno' = e /\ cause' = e
  /\ Return(e)
  /\ UNCHANGED <<file, offset, buff, room, st_size, p, n, err>>
EmptyFile(e) ==
  /\ IsEmpty /\ Close
  /\ IF e = 0 THEN dest' = str_null /\ free(Freed(dest)) /\ UNCHANGED <<errno, cause>>
              ELSE errno' = e /\ cause' = e /\ UNCHANGED <<live, heap, dest>>
  /\ Return(e)
  /\ UNCHANGED <<file, offset, buff, room, st_size, p, n, err>>

TooBig ==
  /\ pc = "check" /\ IsReg /\ st_size > STR_MAX_FILE_SIZE
  /\ CloseUnchecked
  /\ cause' = EFBIG /\ Return(EFBIG)
  /\ UNCHANGED <<file, offset, memory, st_size, p, n, err>>

----------------------------------------------------------------------------
(* The buffer and the reads. *)

ToRead == pc = "check" /\ IsReg /\ st_size \in 1 .. STR_MAX_FILE_SIZE

BufferSizeTight(len) == len
BufferSize(len) == len + 1

mem_alloc ==
  /\ ToRead
  /\ \E b \in Block \ live : buff' = b /\ live' = live \cup {b}
  /\ room' = BufferSize(st_size) /\ p' = 0 /\ pc' = "read"
  /\ UNCHANGED <<file, fd, offset, heap, dest, st_size, n, errno, err, ret, cause>>

\* From mem_alloc, and from mem_realloc, which frees the buffer.
mem_failure ==
  /\ ToRead \/ pc = "shrink"
  /\ free(IF ToRead THEN {} ELSE {buff}) /\ pc' = "exited"
  /\ UNCHANGED <<file, fd, offset, dest, buff, room, st_size, p, n, errno, err, ret, cause>>

\* What read returns: at least one byte unless the end of the file is reached.
Count ==
  {m \in 0 .. st_size - p : IF m > 0 THEN offset + m <= size ELSE offset >= size}

\* while(n > 0 && (p += n) < end)
MoreNoEnd(m) == p + m < st_size
MoreFullOnly(m) == FALSE
More(m) == m > 0 /\ p + m < st_size

read ==
  /\ pc = "read"
  /\ \E m \in Count :
       /\ heap' = [heap EXCEPT ![buff] = @ \o [j \in 1 .. m |-> offset + j]]
       /\ n' = m /\ offset' = offset + m /\ p' = p + m
       /\ pc' = IF More(m) THEN "read" ELSE "close"
  /\ UNCHANGED <<file, fd, live, dest, buff, room, st_size, errno, err, ret, cause>>

\* close(fd), free(buff) if there is one, return err.
GiveUpErrno ==
  /\ pc = "fail"
  /\ CloseUnchecked /\ free({buff}) /\ Return(errno')
  /\ UNCHANGED <<file, offset, dest, buff, room, st_size, p, n, err, cause>>
GiveUpNoFree ==
  /\ pc = "fail"
  /\ CloseUnchecked /\ UNCHANGED <<live, heap>> /\ Return(err)
  /\ UNCHANGED <<file, offset, dest, buff, room, st_size, p, n, err, cause>>
GiveUp ==
  /\ pc = "fail"
  /\ CloseUnchecked /\ free({buff}) /\ Return(err)
  /\ UNCHANGED <<file, offset, dest, buff, room, st_size, p, n, err, cause>>

----------------------------------------------------------------------------
(* The end: close, terminate, give back what was not used, assign. *)

\* errno is read after free(), which keeps it (POSIX.1-2024, glibc 2.33).
CloseFails(e) ==
  /\ pc = "close"
  /\ Close /\ errno' = e /\ cause' = e /\ free({buff}) /\ Return(errno')
  /\ UNCHANGED <<file, offset, dest, buff, room, st_size, p, n, err>>

Closed ==
  /\ pc = "close" /\ Close
  /\ heap' = [heap EXCEPT ![buff] = Append(@, 0)]
  /\ pc' = IF 0 < p /\ p < st_size THEN "shrink" ELSE "assign"
  /\ UNCHANGED <<file, offset, live, dest, buff, room, st_size, p, n, errno, err, ret, cause>>

\* realloc(buff, p + 1): the same block or another one.
mem_realloc ==
  /\ pc = "shrink"
  /\ \E b \in {buff} \cup (Block \ live) :
       /\ buff' = b /\ live' = (live \ {buff}) \cup {b}
       /\ heap' = [Scrub(heap, {buff}) EXCEPT ![b] = SubSeq(heap[buff], 1, p + 1)]
  /\ room' = p + 1 /\ pc' = "assign"
  /\ UNCHANGED <<file, fd, offset, dest, st_size, p, n, errno, err, ret, cause>>

\* str_assign(dest, str_acquire_mem(buff, p - buff))
str_assign ==
  /\ pc = "assign"
  /\ free(Freed(dest) \cup Surplus(buff, p)) /\ dest' = str_acquire_mem(buff, p)
  /\ Return(0)
  /\ UNCHANGED <<file, fd, offset, buff, room, st_size, p, n, errno, err, cause>>

Finished == pc \in {"done", "exited"} /\ UNCHANGED vars

----------------------------------------------------------------------------
OpenAttempt == Open \/ \E e \in Errno : OpenFails(e)
ReadAttempt == read \/ \E e \in Errno : Failed("read", e)

CallStep ==
  \/ OpenAttempt \/ ReadAttempt \/ Interrupted
  \/ fstat \/ (\E e \in Errno : Failed("stat", e)) \/ NotRegular
  \/ (\E e \in Errno \cup {0} : EmptyFile(e)) \/ TooBig
  \/ mem_alloc \/ mem_failure \/ GiveUp
  \/ Closed \/ (\E e \in Errno : CloseFails(e))
  \/ mem_realloc \/ str_assign

Next == CallStep \/ Resize \/ Finished

Spec == Init /\ [][Next]_vars

\* The thread runs, and not every attempt to open or to read is interrupted.
FairSpec == Spec /\ WF_vars(CallStep) /\ SF_vars(OpenAttempt) /\ SF_vars(ReadAttempt)

----------------------------------------------------------------------------
(* Properties. *)

\* The reads and the terminator stay inside the buffer.
TypeOK ==
  /\ size \in Nat /\ offset \in Nat /\ st_size \in Nat /\ p \in Nat /\ n \in Int /\ room \in Nat
  /\ fd \in {"none", "open", "closed", "misused"}
  /\ buff \in Block \cup {NULL}
  /\ buff \in live => Len(heap[buff]) <= room
  /\ pc \in {"open", "stat", "check", "fail", "read", "close", "shrink", "assign",
             "done", "exited"}
  /\ ret \in Errno \cup {0, Running, EISDIR, ENOTSUP, EFBIG}

\* On every path the descriptor is closed once and the blocks that are left
\* are the destination's; until then nothing is freed that is in use.
NothingLeaked ==
  /\ fd # "misused"
  /\ Freed(dest) \subseteq live
  /\ pc = "done" => fd # "open" /\ live = Freed(dest)

\* On success the destination is the file from its first byte on, none
\* missing and none twice however short the reads are, with a terminator; it
\* is all of the file if nobody touched it meanwhile.
WholeFile ==
  ret = 0 =>
    /\ dest.len > 0 => heap[dest.at] = Append([j \in 1 .. dest.len |-> j], 0)
    /\ dest.len <= STR_MAX_FILE_SIZE
    /\ steady /\ kind = "file" => dest.len = size

\* The destination changes when the call succeeds and at no other moment,
\* also not when the process exits for lack of memory.
ChangedOnSuccess == [][dest' # dest \/ Text(dest)' # Text(dest) => ret' = 0]_vars

\* The caller learns what went wrong first, whatever fails during the clean-up,
\* and an error is never taken for success.
CauseReported == pc = "done" => ret = cause

\* The call returns, or the process exits, however many signals arrive and
\* whatever happens to the file.
CallReturns == <>(pc \in {"done", "exited"})

\* api.md:297: "Reads the entire file into a string in one shot. The
\* `file_name` must refer to either a regular file, or ..."
EntireFile == ret = 0 /\ steady => dest.len = size
=============================================================================
