------------------------------ MODULE StreamIO ------------------------------
(***************************************************************************)
(* str_get_line and str_concat_array_to_stream on C streams, in a program  *)
(* that copies a stream line by line: it reads a line, writes it in two    *)
(* pieces, and stops when a call returns something other than 0.           *)
(*                                                                         *)
(* A byte is represented by its position in the input, counted from 1.     *)
(* The C library is glibc or musl: after a read error in the middle of a   *)
(* line glibc returns the part it has, and -1 at every later call; when    *)
(* memory runs out musl sets the stream's error indicator and glibc does   *)
(* not.  The program never sets errno.                                     *)
(***************************************************************************)
EXTENDS StrHeap, Integers

CONSTANTS
  Errno,         \* what errno may hold after a failed call, except:
  ENOMEM, EINVAL,
  Running,       \* no call has returned yet
  MaxSize        \* bound: the size of the input

ASSUME StreamAssumption ==
  /\ {-1, 0, Running} \cap (Errno \cup {ENOMEM, EINVAL}) = {} /\ Running \notin {-1, 0}
  /\ MaxSize \in Nat

VARIABLES
  libc,
  size, delims,      \* the input: its size, and where the delimiters are
  pos, begin,        \* where it has been read to, and where the last line began
  ferror,            \* the input's error indicator
  istream, ostream,  \* whether the streams are open
  out,               \* the bytes written
  errno,
  dest,              \* the destination of str_get_line
  line, n,           \* getdelim's buffer and result
  array, k,          \* what the program writes, and the loop's index in it
  pc, ret,           \* where the program is, what the last call returned
  nomem              \* history: whether memory ran out

input == <<size, delims>>
reading == <<pos, begin, ferror>>
writing == <<out, ostream, array, k>>
memory == <<live, heap, dest, line>>
vars == <<libc, input, reading, istream, writing, errno, memory, n, pc, ret, nomem>>

Init ==
  /\ libc \in {"glibc", "musl"}
  /\ size \in 0 .. MaxSize /\ delims \in SUBSET (1 .. size)
  /\ pos = 0 /\ begin = 0 /\ ferror = FALSE
  /\ istream = "open" /\ ostream = "open" /\ out = <<>>
  /\ errno = 0 /\ live = {} /\ heap = [b \in Block |-> <<>>]
  /\ dest = str_null /\ line = NULL /\ n = 0 /\ array = <<>> /\ k = 1
  /\ pc = "read" /\ ret = Running /\ nomem = FALSE

\* fclose and every other use of a stream that is closed is undefined.
Used(stream) == IF stream = "open" THEN "open" ELSE "misused"
fclose(stream) == IF stream = "open" THEN "closed" ELSE "misused"

\* What errno may be once fclose has run.
AfterClose(e) == {e} \cup Errno

Return(r) == ret' = r /\ pc' = IF r = 0 THEN "write" ELSE "end"

----------------------------------------------------------------------------
(* getdelim. *)

\* The line at pos ends at the next delimiter, or where the input does.
LineEnd ==
  LET later == {d \in delims : d > pos}
  IN  IF later = {} THEN size ELSE CHOOSE d \in later : \A x \in later : d <= x

\* Where it may have read to when it fails, the delimiter not being read yet.
Part == {e \in pos .. LineEnd : e \in delims => e = pos}

\* It stores the bytes up to e, and a terminator.
Stores(e) ==
  /\ \E b \in Block \ live :
       /\ line' = b /\ live' = live \cup {b}
       /\ heap' = [heap EXCEPT ![b] = [j \in 1 .. e - pos |-> pos + j] \o <<0>>]
  /\ n' = e - pos /\ pc' = "line"

\* It returns -1, with or without a buffer that is the caller's to free.
StoresNothing ==
  /\ line' \in {NULL} \cup (Block \ live)
  /\ live' = live \cup ({line'} \ {NULL}) /\ heap' = heap
  /\ n' = -1 /\ pc' = "no line"

Getdelim(e) ==
  /\ pc = "read" /\ istream' = Used(istream)
  /\ begin' = pos /\ pos' = e
  /\ UNCHANGED <<libc, input, writing, dest, ret>>

ReadLine ==
  /\ ~ferror /\ pos < size /\ Getdelim(LineEnd) /\ Stores(LineEnd)
  /\ UNCHANGED <<ferror, errno, nomem>>

ReadEnd ==
  /\ ~ferror /\ pos = size /\ Getdelim(pos) /\ StoresNothing
  /\ UNCHANGED <<ferror, errno, nomem>>

\* The read fails after the bytes up to e.
ReadFails(err) ==
  /\ ~ferror /\ ferror' = TRUE /\ errno' = err
  /\ \E e \in Part :
       /\ Getdelim(e)
       /\ IF libc = "glibc" /\ e > pos THEN Stores(e) ELSE StoresNothing
  /\ UNCHANGED nomem

StillFailed ==
  /\ ferror /\ Getdelim(pos) /\ StoresNothing
  /\ UNCHANGED <<ferror, errno, nomem>>

ReadNoMemory ==
  /\ ~ferror /\ ferror' = (libc = "musl") /\ errno' = ENOMEM /\ nomem' = TRUE
  /\ \E e \in Part : Getdelim(e) /\ StoresNothing

getdelim ==
  \/ ReadLine \/ ReadEnd \/ StillFailed \/ ReadNoMemory
  \/ \E err \in Errno \cup {EINVAL} : ReadFails(err)

----------------------------------------------------------------------------
(* The rest of str_get_line. *)

free(B) == live' = live \ B /\ heap' = Scrub(heap, B)

NewSizeTight == n
NewSize == n + 1

\* str_assign(dest, str_acquire_mem(mem_realloc(line, n + 1), n))
Assign ==
  /\ pc = "line"
  /\ \E b \in {line} \cup (Block \ live) :
       /\ dest' = str_acquire_mem(b, n)
       /\ live' = ((live \ {line}) \cup {b}) \ Freed(dest)
       /\ heap' = [Scrub(heap, {line} \cup Freed(dest)) EXCEPT
                     ![b] = SubSeq(heap[line], 1, NewSize)]
  /\ line' = NULL /\ Return(0)
  /\ UNCHANGED <<libc, input, reading, istream, writing, errno, n, nomem>>

\* Without a line, the process exits too if the error was lack of memory.
mem_failure ==
  /\ \/ pc = "line"
     \/ pc = "no line" /\ ferror /\ errno = ENOMEM
  /\ free({line}) /\ line' = NULL /\ pc' = "exited"
  /\ UNCHANGED <<libc, input, reading, istream, writing, errno, dest, n, ret, nomem>>

NoLine ==
  /\ pc = "no line"
  /\ free({line}) /\ line' = NULL
  /\ UNCHANGED <<libc, input, reading, writing, dest, n, nomem>>

EofNoFree ==
  /\ pc = "no line" /\ ~ferror
  /\ line' = NULL /\ Return(-1)
  /\ UNCHANGED <<libc, input, reading, istream, writing, errno, live, heap, dest, n, nomem>>
Eof == NoLine /\ ~ferror /\ Return(-1) /\ UNCHANGED <<istream, errno>>

InvalidUnclosed ==
  /\ NoLine /\ ferror /\ errno = EINVAL
  /\ Return(EINVAL) /\ UNCHANGED <<istream, errno>>
Invalid ==
  /\ NoLine /\ ferror /\ errno = EINVAL
  /\ istream' = fclose(istream) /\ errno' \in AfterClose(EINVAL) /\ Return(EINVAL)

Failed ==
  /\ NoLine /\ ferror /\ errno \notin {ENOMEM, EINVAL}
  /\ istream' = fclose(istream) /\ errno' \in AfterClose(errno) /\ Return(errno')

----------------------------------------------------------------------------
(* str_concat_array_to_stream. *)

\* The program writes what it has read in two pieces, which may be empty.
Write ==
  /\ pc = "write"
  /\ \E i \in 0 .. dest.len :
       array' = <<str_ref_slice(dest, 0, i), str_ref_slice(dest, i, dest.len)>>
  /\ k' = 1 /\ pc' = "concat"
  /\ UNCHANGED <<libc, input, reading, istream, ostream, out, errno, memory, n, ret, nomem>>

Concat ==
  /\ pc = "concat" /\ k <= Len(array)
  /\ UNCHANGED <<libc, input, reading, istream, array, memory, n, nomem>>

\* An empty string is passed over.
fwrite ==
  /\ Concat
  /\ ostream' = IF array[k].len > 0 THEN Used(ostream) ELSE ostream
  /\ out' = out \o Text(array[k])
  /\ k' = k + 1 /\ UNCHANGED <<pc, ret, errno>>

\* fwrite(p->ptr, 1, n, stream) < n
ShortWrite(err) ==
  /\ pc = "concat" /\ k <= Len(array) /\ array[k].len > 0
  /\ \E m \in 0 .. array[k].len - 1 : out' = out \o SubSeq(Text(array[k]), 1, m)
  /\ UNCHANGED <<libc, input, reading, istream, array, memory, n, nomem>>

WriteFailsUnseen(err) ==
  ShortWrite(err) /\ errno' = err /\ k' = k + 1 /\ UNCHANGED <<ostream, pc, ret>>
WriteFailsLoop(err) ==
  /\ ShortWrite(err)
  /\ ostream' = fclose(ostream) /\ errno' \in AfterClose(err)
  /\ k' = k + 1 /\ UNCHANGED <<pc, ret>>
WriteFails(err) ==
  /\ ShortWrite(err)
  /\ ostream' = fclose(ostream) /\ errno' \in AfterClose(err)
  /\ Return(errno') /\ UNCHANGED k

Written ==
  /\ pc = "concat" /\ k > Len(array)
  /\ ret' = 0 /\ pc' = "read"
  /\ UNCHANGED <<libc, input, reading, istream, writing, errno, memory, n, nomem>>

Finished == pc \in {"end", "exited"} /\ UNCHANGED vars

----------------------------------------------------------------------------
Next ==
  \/ getdelim \/ Assign \/ mem_failure \/ Eof \/ Invalid \/ Failed
  \/ Write \/ fwrite \/ (\E err \in Errno : WriteFails(err)) \/ Written
  \/ Finished

Spec == Init /\ [][Next]_vars

----------------------------------------------------------------------------
(* Properties. *)

\* No stream is used after it was closed, none is closed twice.
TypeOK ==
  /\ pos \in begin .. size /\ ferror \in BOOLEAN /\ nomem \in BOOLEAN
  /\ {istream, ostream} \subseteq {"open", "closed"}
  /\ line \in Block \cup {NULL} /\ n \in Int /\ k \in Nat
  /\ pc \in {"read", "line", "no line", "write", "concat", "end", "exited"}
  /\ {errno, ret} \subseteq Errno \cup {-1, 0, ENOMEM, EINVAL, Running}

\* getdelim's buffer is freed or becomes the destination's, and the old value
\* of the destination is freed then and no earlier.
NothingLeaked == live = Freed(dest) \cup ({line} \ {NULL})

\* A line that is returned is terminated, goes up to the first delimiter or
\* to the end of what could be read, and begins where the last one ended.
LineDelivered ==
  pc = "write" =>
    /\ dest.len = pos - begin
    /\ heap[dest.at] = [j \in 1 .. dest.len |-> begin + j] \o <<0>>
    /\ \A d \in delims : d > begin => d >= pos
    /\ pos \in delims \cup {size} \/ ferror

\* -1 is returned at the end of the input (or where glibc ran out of memory,
\* which str_get_line cannot tell from the end), and then all of it has been copied; at every other moment the
\* output is a beginning of the input, also when a write or a read fails.
Copied ==
  /\ \A j \in DOMAIN out : out[j] = j
  /\ ret = -1 /\ ~nomem => Len(out) = size

\* api.md:272-274, 304-305: an error is returned exactly when a stream was
\* closed.  What is returned is read from errno after fclose, which may have
\* changed it, or comes from a stream that had failed before: it may be another
\* error, and is never taken for success.
ErrorCloses == ret \in {-1, 0, Running} <=> "closed" \notin {istream, ostream}
=============================================================================
