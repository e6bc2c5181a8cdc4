# A specification of the `str` library

TLA+ modules that model the string library of this repository (`str.h`, `src/*.c`), TLC
configurations that check them on small instances, and proofs of the most important properties
for instances of every size. Line numbers refer to the files of the repository.

Run a model with `tlc -config <X>.cfg <Module>`; check the proofs with `tlapm StrMemProofs.tla`,
and in the same way those of `StrReplaceProofs`, `StreamIOProofs`, `ReadFileProofs`, `WriteFdProofs`,
`StrArraysProofs`, `CallerProofs` and `StrLemmas`.
`PROJECT.json` lists the runs, and gives for every definition that models code the lines it models.

## 1. The system

The library is single-threaded C: a function runs to its end before the program goes on. What
makes it hard is not concurrency between threads but

* **ownership**: a `str` is a pointer and a word that packs the length with an *owner bit*. Objects
  are copied freely, so a reference, an owner, and an owner that has handed its memory on look alike;
* **aliasing**: every function takes its arguments by value and its destination by pointer, and the
  arguments may be the destination or slices of it;
* **loops that trust arithmetic**: they stop when the planned number of bytes has been written and
  never look at the number of strings;
* **the operating system**: partial writes, short reads, signals, errors after some of the bytes have
  moved, other processes that change a file while it is read, `malloc` failing in the middle of a
  call, and an `errno` that is read late;
* **order in place**: arrays of owners rearranged by swaps, where a lost or doubled owner is a leak
  or a double free.

| component | state it keeps | operations | uses | what makes it correct |
|---|---|---|---|---|
| objects and ownership (`str.h`) | the variables' objects, the heap | `str_ref*`, `str_lit`, `str_acquire*`, `str_assign`, `str_clear`, `str_swap` | `free` | one owner per block, no leak, no dangling owner |
| allocating functions (`str_clone.c`, `str_concat_array.c`, `str_join_array.c`, `str_repeat.c`, `str_sprintf.c`) | a buffer, its planned size, a cursor | one call each | `mem_alloc`, `str_assign` | the right value, in bounds, terminated, destination untouched until the end |
| memory (`str_impl.h:40-69`, `str_mem.c`) | none | `mem_alloc`, `mem_alloc_copy`, `mem_realloc`, `mem_failure` | `malloc`, `exit` | a call either completes or ends the process |
| builder (`str_impl.h:129-171`) | an array of 64 objects and a count | `sb_append`, `sb_append_mem`, `assign_sb` | `str_concat_array` on itself | nothing lost in a flush |
| replace and repair (`str_replace_*.c`, `str_to_valid_utf8.c`) | cursors into the destination, a builder | one call each | builder, bitset, `memmem`, decoder | right text and count, all or nothing, termination |
| UTF-8 (`str_decode_utf8.c`, `str_encode_codepoint.c`, `str_count_codepoints.c`) | none | pure | – | accepts exactly UTF-8, inverse of each other, resynchronises |
| descriptor output (`str_concat_array_to_fd.c`) | a batch of iovecs, the file | one call | `write`, `writev`, `close` | bytes in order, each once; truthful return value |
| stream output (`str_concat_array_to_stream.c`) | the stream | one call | `fwrite`, `fclose` | bytes in order, an error exactly with the stream closed |
| reading a file (`str_read_all_file.c`) | buffer, descriptor | one call | `open`, `fstat`, `read`, `close`, `mem_realloc` | the whole file or the first error, destination untouched on failure, nothing leaked |
| reading a line (`str_get_line.c`) | `getdelim`'s buffer, the stream | one call | `getdelim`, `fclose`, `mem_realloc` | every line once, nothing leaked |
| arrays (`str_partition_array.c`, `str_unique_partition_array.c`) | an array of objects | in place | `str_swap`, `str_eq` | a permutation, in the promised arrangement |
| comparison and sorting (`str.h:167-179`, `str_sort.c`) | none | `str_cmp`, `str_eq`, `str_order_*`, `str_sort_array` | `memcmp`, `qsort` | one total order and its reverse |
| prefix, suffix, spans, search (`str.h:181-197`, `str_span_*.c`) | none | pure | `memcmp`, `memmem`, bitset | loops built from them lose nothing and end |
| hash (`str_hash.c`) | a seed | pure | rapidhash | – |

`PROJECT.json` "hazards" lists what can go wrong, at the line where it bites, with the properties
that look at it.

## 2. The modules

```
StrText     reference values          StrHeap     object, heap, constructors
   |  \                                 |     \            \
   |   StrValue  <--- implements --- StrMem   StrBuilder     ReadFile, StreamIO
   |      (abstract)                    |        \               \
   |                               StrMemProofs   \          ReadFileProofs, StreamIOProofs
   |                                           StrReplace --- Utf8 --- Utf8Codec --- CallerProofs
   +---------------------------------------------/  |   \
   |                                            StrSearch StrReplaceProofs          |
   +---------------- StrWord (objects as words) --- StrSplit ------------------+

FdSink (abstract) <--- implements --- WriteFd --- WriteFdProofs        StrLemmas

StrArrays --- StrOrder (sorting, then the array functions) --- StrArraysProofs
```

**StrHeap** models an object as a record: `at` (a block, a literal or `NULL`), `off`, `len`, `own` –
the pointer, split into the memory and the offset in it, and the two parts of `prop`. `heap[b]` is
the bytes written to block `b`, `live` the allocated blocks. References into a block that is freed
become `str_dangling`, so that a block that is allocated again at the same address does not bring
them back to life. The constructors are operators and touch no memory, as api.md:78-82 says.

**StrMem** is a program and the five calls that allocate. Program steps: `SetLit`, `SetSlice`
(plain assignment to a non-owner), `AssignLit`, `AssignSlice`, `AssignAcquire`, `AssignAcquireMem`,
`Clear`, `str_swap`. A call is a record `call` with the arguments (objects copied at the call, as C
does), the loop's locals and the buffer; its steps are those of the code: the early returns
(`ReturnSame`, `ReturnEmpty`), `mem_alloc` or `mem_failure`, one `append_str` per piece, and
`Return`, which terminates the text, frees the old value and assigns. The functions share one body
because their C bodies are the same but for the pieces: `Size` and `Piece` tell them apart.
`str_sprintf` prints one argument per step into its small buffer and then enters the same body, with
the small buffer or with a big one. The state within a call is visible, so the invariants speak
about every moment of it.

**StrValue** is what the library promises, without a heap: variables hold values; a call fixes its
result when it is called, from the values its arguments have then, and installs it when it returns;
freeing an owner may make references lose their value. `StrMem` implements it (`Implements`).

**StrBuilder** and **StrReplace**: the builder's array and its flush, and the four functions that walk
over the destination. An offset stands for a pointer into the destination. `Search` is the loop
head of the replace functions, `Decode` that of `str_to_valid_utf8`; `AppendSlice`, `AppendRepl`,
`AppendTail` the three appends, any of which may flush; `Join` and `assign_sb` the two halves of the
C function `assign_sb`; `mem_failure` the exit at any of the allocations. A flush or the final
concatenation is one step: its own steps are those of StrMem. `promise` is a history variable with
the text at the call and the expected result, stated by where the matches are and not by walking.

**Utf8** has the decoder with its table, the encoder and the codepoint count as operators, and
a reference definition of UTF-8 by value (length, least value, surrogates). **Utf8Codec** is a
caller of them.

**WriteFd** is `str_concat_array_to_fd` against a kernel. The code never looks at the bytes, so a byte
is represented by its position among all the bytes of the strings: a byte lost, repeated or out of
place shows as a wrong number, and the result holds for all contents. A system call moves
some bytes at a time (`Transfer`), may return at any moment (`Returned`, also with 0 or in the
middle of an iovec), and reports a signal or an error only if it has moved nothing, which is what
POSIX promises. **FdSink** is the promise: an output that grows in order, success only
when it is complete, an error only with the descriptor closed.

**StrArrays** is the two array functions, one action per line of their loops. An object is named by its
place when the function is called, so that two objects with the same text stay apart: `array` is where
each of them is now, `value` what it reads. The caller's predicate is any set of values, `s` and `p`
are the code's pointers. **StrOrder** adds `str_cmp`, both orders and
`str_sort_array`, in a program that sorts an array and makes it unique: `memcmp` returns any number of the right
sign, another one at every call, and `qsort` is any sequence of exchanges the comparison function asks
for, until it asks for none.

**StrSearch** has the spans, the bitset loops, `memmem` and the prefix and suffix tests as operators;
StrReplace uses them too. **StrWord** is the object as `str.h` lays it out, an address and a
word of limited width. **StrSplit** is a caller of both: programs that split a text at a separator,
cut it into words, or strip a prefix and a suffix, each round cutting a slice off the rest with
`SIZE_MAX` for "to the end".

**ReadFile** is `str_read_all_file`, one action per system call or statement. A byte is
represented by its position in the file. `Resize` is another process that truncates or extends the
file between any two of them; every system call may fail, be interrupted or read less than it was
asked for, and `close` may fail on the paths that do not look at it too. `kind = "proc"` is a regular file
that reports a size of 0 and has contents, as procfs has them. `steady` (nobody changed the size since
`fstat`) and `cause` (the first error) are history variables.

**StreamIO** is a program that copies a stream: `str_get_line`, then `str_concat_array_to_stream` with the line in
two pieces, until a call returns something other than 0. `getdelim` is modelled as glibc or musl
have it: after a read error in the middle of a line glibc returns the part it has, musl
-1; when memory runs out musl sets the error indicator, glibc does not; either may leave
a buffer for the caller to free when it returns -1. `fclose` may change `errno`, but to no 0, as no library
function does.

## 3. The runs

| run | instance | what it shows |
|---|---|---|
| `mem` | 2 variables, 3 blocks, literals of 0 and 2 bytes, strings up to 3 bytes, 2 arguments, `SmallBuffSize` 3 | no double free, leak, read after free or overrun in any sequence of steps; refinement of StrValue, terminator, every call ends |
| `self_assign` | the same | finding 1 |
| `write_fd` | up to 4 strings of up to 3 bytes, batches of 2 | refinement of FdSink, batches in bounds, the call returns |
| `utf8_codec` | every one- and two-byte input that matters, longer ones with bytes around every boundary; codepoints around every boundary and every 97th | decoder = definition of UTF-8, first bad byte, round trip |
| `replace` | every text of up to 4 bytes over 2 letters, all patterns and replacements that are variables, slices of variables or literals; builder of 3 | the three replace functions |
| `to_valid_utf8` | every text of up to 4 bytes over 7 bytes, builder of 2 | repair, termination |
| `ascii_kept` | the same | finding 2 |
| `arrays` | every array of up to 6 strings with 4 values, as it is or sorted first | permutation, arrangement, sorted and unique, sorting ends |
| `split` | every text of up to 7 bytes over 2 letters, separators of 0 to 3 bytes, words of 4 bits | slices inside the text, nothing lost, the loops end |
| `read_file` | files of 0 to 6 bytes with a limit of 5, two errors, 3 blocks | the file or nothing, nothing leaks, first error, the call returns |
| `read_proc` | the same | finding 3 |
| `stream_io` | inputs of up to 4 bytes with delimiters anywhere, glibc and musl, two errors besides `ENOMEM` and `EINVAL` | what is written is a beginning of what is read, all of it at -1; nothing leaks; an error exactly when a stream was closed |

*Why the bounds are enough.* Blocks: the owners, one buffer in construction and one block for a
flush are the most that is alive at once, and the count lets `malloc` also return an address that
was freed before. Two arguments and two repetitions make the loops take their first, middle and last
iteration with and without separators; strings of 0, 1 and 2 bytes make empty pieces, proper slices
and a string that is its own slice. `SmallBuffSize` is smaller than the longest string,
so that `str_sprintf` takes both branches and hits the boundary. Four strings and batches of two
make a full batch followed by another, by a partial one, and by nothing. Builders of 2 and 3 elements
flush several times in one call. Six strings make runs of one, two and three, and a swap whose far end
is swapped again. Files around a limit of 5 bytes are empty, at the limit, above it, shrink to nothing, and are read
in up to five parts. Inputs of 4 bytes have empty lines, a last line without a delimiter, and an
error in each place of a line; three blocks are the old value, `getdelim`'s buffer and what
`realloc` moves it to. For the properties that are proved, the bounds do not matter.

*The bounds by name*: `MaxArgs`, `MaxTimes`, `MaxLen` (StrMem), `MaxCount`, `MaxLen` (WriteFd),
`DestText`, `OtherText` (StrReplace), `Input`, `CodePoint` (Utf8Codec), `MaxCount` (StrArrays), `INT_MAX`
(StrOrder: the size of what `memcmp` returns), `MaxLen`, `Letter`, `Pattern` (StrSplit; `SIZE_MAX` is more than twice
`MaxLen`, so that no length loses a bit), `MaxSize` (ReadFile, StreamIO), `Mb64` (ReadFile: what stands for 64Mb).

*Fairness.* `StrMem` and `StrReplace` assume that the thread inside a library call keeps
running (weak fairness of the library's steps), and nothing about the program. `WriteFd` assumes that
the thread runs, that a system call returns, and (strong fairness of `SomeTransfer`) that not every
attempt to write is interrupted or returns 0 before a byte has moved: the code retries on `EINTR`
without a limit, so it cannot return without that. `ReadFile` assumes that the thread runs, and (strong
fairness of `OpenAttempt` and `ReadAttempt`) that not every attempt to open or to read is interrupted; nothing about
the other processes, which may change the file for ever. `StrOrder` and `StrSplit` assume that the program runs;
`StreamIO` states no liveness. Deadlock is checked in every run; a finished
call and an exited process stutter.

*The programs' discipline.* `StrMem` models the programs that README.md allows: a plain assignment
never overwrites an owner, no dangling reference is read, and `str_assign` is not given a reference
into the memory it is about to free (`MayAssign`). The last is not in README.md: it is finding 1. `StreamIO`'s program
never sets `errno`: see the first note below.

*What is assumed of the C library and the system.* `close` releases the descriptor even when it
fails (Linux); `free` keeps `errno` (POSIX.1-2024, glibc from 2.33), which `str_read_all_file.c:103-104` relies on; a call that succeeds
leaves `errno` alone; `memcmp` never returns `INT_MIN`, which has no opposite
(`str_sort.c:40`); `fclose` may be called once.

### Findings

1. `str_assign(&v, <reference into v>)` leaves `v` dangling (`str.h:104-107`: free first, assign
   second), while README.md:69-70 calls `str_assign` generic and always safe and
   README.md:80-81 says that functions with a destination pointer avoid self-assignment issues.
2. `str_to_valid_utf8("\xE0\x41")` is U+FFFD alone: the `A` is lost, because
   `str_decode_utf8.c:122-123` reports everything up to the end of the string as one incomplete
   sequence without looking at it. api.md:260-261 and test_utf8_validator.c:131 say that only
   invalid sequences are replaced.
3. `str_read_all_file(&s, "/proc/self/status")` returns 0 and an empty string: `str_read_all_file.c:70` takes a file
   of `st_size` 0 for empty and never reads it. The files of procfs are regular files, report 0 and are not empty;
   api.md:297 says that the entire file is read, of any regular file.

Three smaller things that no run is about, seen while modelling:

* With glibc, `getdelim` returns -1 at once when the stream has failed before, without touching `errno`. After a read
  error in the middle of a line (for which `str_get_line` returned 0), a program that sets `errno` to 0
  gets 0 from the next call, without a line and with the stream closed.
* With glibc, `getdelim` running out of memory sets no error indicator, so `str_get_line` reports the end
  of the file (`Copied` leaves this out).
* A file of exactly 64Mb is refused (`STR_MAX_FILE_SIZE` is one less), while api.md:298 says that the size
  must not exceed 64Mb.

## 4. The proofs

| module | theorem | statement |
|---|---|---|
| StrMemProofs | `TypeCorrect` | `Spec => []TypeOK` |
| | `OneOwnerPerBlock` | `Spec => []BlocksOwnedOnce` |
| | `AliasedArgumentsSurvive` | `Spec => []NoUseAfterFree` |
| | `LoopsStayInBounds` | `Spec => []LoopInBounds` |
| | `ResultsTerminated` | `Spec => Terminated` |
| | `ImplementsStrValue` | `Spec => Implements` (refinement of StrValue) |
| StrArraysProofs | `TypeCorrect` | `Spec => []TypeOK` |
| | `OnlyMovedAround` | `Spec => []Rearranged` |
| | `MatchesInFront` | `Spec => []Partitioned` |
| | `FirstOfEachRunInFront` | `Spec => []RunsCollapsed` |
| | `SortedMadeUnique` | `Spec => []UniqueInFront` |
| | `SortingKeepsPromises` | `SpecOrder => [](Rearranged /\ Partitioned /\ RunsCollapsed)` |
| | `SortedThenUnique` | `SpecOrder => []SortedUnique` |
| ReadFileProofs | `TypeCorrect` | `Spec => []TypeOK` |
| | `NothingLeft` | `Spec => []NothingLeaked` |
| | `ReadsTheFile` | `Spec => []WholeFile` |
| | `DestinationKept` | `Spec => ChangedOnSuccess` |
| | `FirstErrorReturned` | `Spec => []CauseReported` |
| StreamIOProofs | `TypeCorrect` | `Spec => []TypeOK` |
| | `NothingLost` | `Spec => []NothingLeaked` |
| | `NextLineDelivered` | `Spec => []LineDelivered` |
| | `CopiesTheInput` | `Spec => []Copied` |
| | `ErrorsCloseStreams` | `Spec => []ErrorCloses` |
| StrReplaceProofs | `TypeCorrect` | `Spec => []TypeOK` |
| | `OneOwner` | `Spec => []OneOwnerPerBlock` |
| | `PiecesReadable` | `Spec => []PiecesAlive` |
| | `ReplacesWhatItShould` | `Spec => []Replaced` |
| | `RepairsUtf8` | `Spec => []Repaired` |
| WriteFdProofs | `TypeCorrect` | `Spec => []TypeOK` |
| | `BatchesFit` | `Spec => []BatchInBounds` |
| | `WritesInOrder` | `Spec => Implements` (refinement of FdSink) |
| CallerProofs | `SlicesStayInside` | `Spec => []TypeOK` (StrSplit) |
| | `SplittingRejoins` | `Spec => []SplitRejoins` |
| | `FindsAllWords` | `Spec => []WordsFound` |
| | `StripsCopies` | `Spec => []Stripped` |
| | `AcceptsExactlyEncodings` | `CodecSpec => []DecodesEncodings` |
| | `StopsAtFirstBadByte` | `CodecSpec => []ErrorAtFirstBadByte` |
| | `EncodedDecodes` | `CodecSpec => []RoundTrip` |

They hold for every value of the constants: any number of variables, blocks, strings and bytes, any
size of the buffers. The assumptions are `HeapAssumption` (addresses of blocks, literals, `NULL` are
distinct; literals are sequences of numbers), `ValueAssumption` (a lost reference's mark is no text, a program may pass one string), `MemAssumption` and `WriteFdAssumption` (sizes are
natural numbers, the buffers not empty, `errno` not 0), `ArraysAssumption` (the predicate
holds for some of the values), `OrderAssumption` (strings are sequences of bytes; `memcmp` returns an `int`, but not
`INT_MIN`), `CodecAssumption` (the input is bytes, the values to encode are natural numbers), `WordAssumption` and
`SplitAssumption` (`SIZE_MAX` is odd and more than twice the length of the text, which is bytes; separators are sequences of numbers), `ReadFileAssumption` (the limit is positive, the codes of errors are not 0 and
`EINTR` is told apart from the other ones), `StreamAssumption` (no error code is 0 or -1, which the functions
return for other reasons; `Running` stands for no value at all), `BuilderAssumption` (the builder's array has two elements or more: with one, a
flush would find no room) and `ReplaceAssumption` (texts are sequences of bytes, and U+FFFD is a literal), all evaluated by TLC too. The types of StrArrays and WriteFd, and
`UniqueInFront`, are proved and checked by no run.

*StrMem.* The invariants are not inductive: that a freed block is nobody else's needs
`SingleOwner`, that an argument stays readable needs to know that nothing is freed before
`Return` and that a block's contents cover every reference into it; that the loop stops inside the
array needs to know *where* in the concatenation of the arguments it is. `IInv` adds
these: the running totals of the lengths (`starts`) agree with what the buffer holds after `i`
pieces, and the buffer is live and nobody's. The loops compare a number of bytes, so "the
next index exists" is a fact about sums: as long as the total is not reached, some string is left.
That needs induction over the array, and `StrLemmas` supplies it without an induction
operator: `LeastNumber` says that a non-empty set of naturals has a least element
(from the well-foundedness of `<`), and `RunningTotals` applies it to the least index at which the totals
would decrease.

`ImplementsStrValue` needs to know in addition *what* has been written: `PiecesOK` says that the buffer holds the first `i - 1`
pieces of the result, that `small_buff` holds those printed so far for as long as they fit, and that `str_repeat`
works on its destination's object. A step of a call then changes no variable's value (its buffer is nobody's memory) and not the
result that is pending (`HiddenStep`: no argument lies in the buffer or in a free block), and when the loop ends the buffer is the
result. The concat and join loops end when the bytes are there, with strings they may not have looked at;
`AllPieces` shows that those are empty, the separators in front of them included. On the abstract side, the return of
a call and every assignment are a `Becomes` whose lost references are those into the blocks that are freed (`FreedMeans`), and
`CloneSmall` and `PrintBig` are the point from which `str_sprintf` cannot fail (`Commit`). `GoneOK` (no dangling object is empty) makes
an argument that may be read one that holds a value.

*StrArrays.* That the matches end up in front *in their order* follows from no property of the finished array alone.
`IInv` says it of every moment. In `str_partition_array` the objects from `p` on have not been touched, those
before `s` are the matching ones among the others, in order, and those between match nothing; a swap takes one object from the
untouched part to the end of the front part, and one that matches nothing behind it. In
`str_unique_partition_array` the objects from `s` on have not been touched, and up to `p` are the first ones of the runs before
`s`, in order. The scan compares with the string at `p` and not with the neighbour, which a swap may have
replaced; the last conjunct of `UniqueOK` says that it reads the same as object `s - 1`. `SortedMadeUnique` then needs
that the least object with a given value begins its run: `LeastNumber` again.

In front of that stands sorting. `SpecOrder` is proved in the same module: `OrderIInv` adds to `IInv`, whose part about
the array an exchange keeps, that the neighbours are in order once sorting is done (`SortingOK`). What `qsort` leaves is an array in which no comparison of two neighbours asks for an exchange.
`CompareSign` turns that into an order: the sign of `memcmp` over the shorter length is the sign at the first difference
(`LeastNumber`), and where there is none the lengths decide; so the comparison function returns more than 0 exactly when
`Before` holds the other way round, whatever number `memcmp` chose. `Before` is strict and transitive, so neighbours in
order are the whole array in order (`SortedThroughout`), equal strings stand together (`SortedGrouped`), and
`SortedUnique` follows from what the unique partition promises for such an array.

*Utf8.* The definition of UTF-8 in `Utf8` is by value; the code has a table of ranges of bytes. `WellFormed` says byte by byte what
an encoding is, as the standard's own table does, and stands between the two: `EncodingsAre` shows that it is the definition by value (linear
arithmetic, by length: an overlong form is a value below `Least`, a surrogate a second byte above 159 behind 237), and
`DecoderIs` that the code's table, masks and shifts decide it. `Verdict` then says what the decoder returns for any input at all: a value, with a
well-formed sequence in front (`Accepts`); or an error or "incomplete", with none (`Refuses`). That what is in front of an error begins an
encoding is shown by completing it (`Beginnings`). The encoder is four cases, on digits of six bits (`SixBits`). The state
machine around it only has to remember which text and which value belong together.

*StrSplit.* `SplitInv` says for each of the three loops what has been cut off and where the rest begins, in terms of parts of the
text in memory (`Refers`: an object refers to `n` bytes behind the first `a` ones; an empty one is `str_null`, wherever it was cut).
`SliceRefers` is the law of `str_ref_slice` that everything rests on: clamping included, a slice of such an object is one, and
its word never has the owner bit. In `SplitOK` the tokens, each with the separator behind it, are the text in front of the rest, and a
token that is followed by the separator contains no earlier place where it begins (`FirstBreak`), though separators may overlap
themselves. In `WordsAt` the tokens are *all* the words that begin in front of the rest; that the next round adds exactly one
(`NextWord`) needs that the rest never begins inside a word, which is why the bytes on either side of the cut are in the
invariant. In `StripAt` the text in front of the rest and the text behind it are copies of the separator; a copy taken off the back is a copy
put in front of those behind (`RepeatedFront`, by `LeastNumber`).

*ReadFile.* `IInv` says for every label of the call which blocks are alive (`BlocksOK`: the destination's, the buffer, or
both, and never the same one), how much of the file the buffer holds (`BufferOK`: the first `p` bytes, `p` within
`st_size`, which is less than the buffer's size), and whether the descriptor is open. `SizeOK` carries what `fstat` saw
through the loop: while nobody changes the file, `st_size` is its size, so that a read returns 0 only at the end
and the loop stops with `p = size`. `Resize` breaks the hypothesis of `SizeOK` and nothing else. `DestinationKept` follows from
`BlocksOK`: whatever is written or freed before the assignment is the buffer, which is not the destination's block.

*StreamIO.* `IInv` says, for every label, where the line is: in `getdelim`'s buffer, then in the destination, whose old block is freed
only then (`StoreOK`, `HeldOK`), and later in the two pieces the writer gets, which are slices of the destination and together the line. `OutOK`
counts: the output is the input up to `begin` while a line is read, and up to somewhere in the line while it is written. That `Copied` holds
at -1 needs `EndOK`: it is returned only where `pos = size`, or where memory ran out as in glibc. `ErrorCloses` needs that nothing the
functions return from `errno` can be mistaken for 0 or -1, which is the assumption.

*StrReplace.* Two invariants, one on top of the other. `MemInv` is about memory: the live blocks are those of the destination, of the other
variable and of the builder's first element, all different; every other element of the builder, and both arguments,
lie outside the builder's block. That is why a flush, which frees that block, leaves everything else readable, and why it may be freed although the
arguments are slices of the destination: they never refer to it. `TextInv` is about contents: the pieces in the builder,
concatenated, are the edited text of the part of the destination in front of `s`, and the replacements counted so far are those that
end there (`UpTo`). For substrings that is only meaningful where no match lies across `s` (`Boundary`), which the walk
keeps because the matches that are replaced are chosen greedily from the left and the next one found is the first behind the last. The
definition of the result does not walk: it says which sets of matches are the greedy choice, and that one exists for every text
is a lemma (by `LeastNumber`, on the shortest part of the text without one). What a flush or the final concatenation makes
of the pieces is a fact about `FlattenSeq`; `StrLemmas` proves the laws it needs (empty, one more at the end, two in a row) from the recursive
function that defines it. All allocations may fail in these proofs; the destination then keeps its text.

A third invariant, `RepairInv`, stands on these two: what `str_to_valid_utf8` has come to at each step (`RepairAt`). The pieces in the builder and
the bytes accepted since, from `s` to `p`, are valid UTF-8 each, and their codepoints and those `str_count_codepoints` sees in front of `p` add up
to those of the whole text (`Patched`); as long as nothing was replaced, the pieces are empty, so the accepted bytes and those in front are
the text; once something was, the text is known to be invalid. One lemma per kind of step keeps that: `Accepting` takes an encoding
off the front, `Refusing` uses that nothing valid begins with bytes the decoder refuses, `Replacing` that the loop skips
exactly the bytes that count as one codepoint, and that U+FFFD is one. `str_count_codepoints` and `IsValid` are functions defined
from the end of the text to its front. That such functions exist is itself a lemma (`DescentExists`), and that they see the same in a joined
text as in its parts is `ValidJoins`: counts add up and validity carries over where the first part is valid, and in general only there, since what
begins a sequence at the end of one text may be completed by the next.

*WriteFd.* `IInv` says that the iovecs not yet written are one stretch of bytes (`ChainOK`: each
begins where the one before ends, the last ends where string `i` begins), and that this stretch begins
where the output ends, displaced by what the system call has moved (`PlaceOK`). Every system call and
every step of the scrolling loop moves that place and the output together. Refinement then is: a
`Transfer` is a `Put`, the three returns of 0 are reached only with an empty stretch and no string left,
an error closes the descriptor, and every other step is a stutter.

Model-checked only: everything about liveness (`CallReturns`, `SortEnds`, `LoopsEnd`), as the prover has no rules for `WF`, `SF`
and `ENABLED` here. Every safety property of a run that passes is proved.

## 5. Not modelled

* The width of `size_t` outside StrWord: in `str_repeat`, `len * n + 1` may wrap, and the other
  functions' sums could, for strings of 2^63 bytes and more. Lengths are natural numbers there.
* The contents of a format string: `str_sprintf` prints its arguments one after the other. The second
  `vsnprintf` is assumed to print what the first one counted; the code does not check that it did
  (`str_sprintf.c:69`), and would take a -1 for a length.
* The bit arithmetic of the bitset and of `str_decode_result`: a set of bytes, a record.
* A bare `str_free`, which leaves the variable to be initialised again, is `str_clear`. `str_ref_ptr` and
  `str_acquire_ptr` are their `_mem` counterparts behind `strlen`.
* A NULL array given to the stream writer, which writes nothing.
* `memmem`, `memcmp`, `qsort`, `getdelim`, `read`, `writev`, `malloc` and the rest of the C library and the system are
  modelled as their callers use them.
* The hash: its algorithm is a submodule that is not part of this tree, and what is left is a call with a seed.
  The tests and the Makefile are not part of the library.

## 6. Plan

Every part of the library but the hash has a model, and every safety property that a passing run checks is proved. What
is left is liveness, which TLC checks on small instances.
