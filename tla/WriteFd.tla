------------------------------ MODULE WriteFd ------------------------------
(***************************************************************************)
(* str_concat_array_to_fd: the strings are gathered into batches of at     *)
(* most BATCH_SIZE non-empty iovecs, each written by writev until nothing  *)
(* of it is left; a single string goes through write.                      *)
(*                                                                         *)
(* A system call moves the bytes piece by piece, and may at any time stop  *)
(* short, be interrupted by a signal or fail: it reports an error only     *)
(* when it has moved nothing.                                              *)
(*                                                                         *)
(* Nothing in the code depends on the bytes' values: a byte is represented *)
(* by its position among all the bytes of the strings, so that a byte      *)
(* written twice, skipped or out of order shows.                           *)
(***************************************************************************)
EXTENDS Naturals, Sequences

CONSTANTS
  BATCH_SIZE,
  Errno,      \* what errno may hold after a failed call, EINTR left aside
  Running,    \* the call has not returned yet
  MaxCount,   \* bound: the number of strings
  MaxLen      \* bound: the length of a string

ASSUME WriteFdAssumption ==
  /\ BATCH_SIZE \in Nat \ {0}
  /\ MaxCount \in Nat /\ MaxLen \in Nat
  /\ 0 \notin Errno /\ Running \notin Errno \cup {0}

VARIABLES
  starts,   \* starts[k]: the position where string k starts, the last one: the end
  pc,       \* where the call is
  i,        \* write_vec's index of the next string
  v,        \* the iovecs; base is the position of the iovec's first byte
  pv,       \* the first iovec not yet written
  n,        \* what the last system call returned
  kv, koff, \* the system call's own position: iovec kv, offset koff
  out,      \* the bytes in the file
  open,     \* whether the descriptor is open
  ret       \* the call's return value

vars == <<starts, pc, i, v, pv, n, kv, koff, out, open, ret>>

count == Len(starts) - 1
str_len(k) == starts[k + 1] - starts[k]
Total == starts[count + 1]

iovec(base, len) == [base |-> base, len |-> len]

\* The strings of a call.
Strings ==
  {t \in UNION {[1 .. c + 1 -> 0 .. MaxCount * MaxLen] : c \in 0 .. MaxCount} :
     t[1] = 0 /\ \A k \in 1 .. Len(t) - 1 : t[k + 1] \in t[k] .. t[k] + MaxLen}

Init ==
  /\ starts \in Strings
  /\ pc = "call" /\ i = 1 /\ v = <<>> /\ pv = 1 /\ n = 0 /\ kv = 1 /\ koff = 0
  /\ out = <<>> /\ open = TRUE /\ ret = Running

Finish(r) ==
  /\ pc' = "done" /\ ret' = r
  /\ UNCHANGED <<starts, i, v, pv, n, kv, koff, out>>

----------------------------------------------------------------------------
(* str_concat_array_to_fd and write_vec. *)

\* switch(count)
CallNone == pc = "call" /\ count = 0 /\ Finish(0) /\ UNCHANGED open

\* write_one is write_batch on the one string, empty or not: a loop that is
\* not entered when there is nothing to write.
CallOne ==
  /\ pc = "call" /\ count = 1
  /\ i' = 2 /\ v' = <<iovec(0, str_len(1))>>
  /\ pc' = "one"
  /\ UNCHANGED <<starts, pv, n, kv, koff, out, open, ret>>

CallVec ==
  /\ pc = "call" /\ count > 1
  /\ pc' = "gather"
  /\ UNCHANGED <<starts, i, v, pv, n, kv, koff, out, open, ret>>

SkipEmpty ==
  /\ pc = "gather" /\ i <= count /\ str_len(i) = 0
  /\ i' = i + 1
  /\ UNCHANGED <<starts, pc, v, pv, n, kv, koff, out, open, ret>>

BatchFullLate(k) == k = BATCH_SIZE + 1
BatchFull(k) == k = BATCH_SIZE

Gather ==
  /\ pc = "gather" /\ i <= count /\ str_len(i) > 0
  /\ v' = Append(v, iovec(starts[i], str_len(i)))
  /\ i' = i + 1
  /\ pc' = IF BatchFull(Len(v')) THEN "write" ELSE "gather"
  /\ pv' = 1
  /\ UNCHANGED <<starts, n, kv, koff, out, open, ret>>

LastBatch ==
  /\ pc = "gather" /\ i > count /\ v # <<>>
  /\ pc' = "write"
  /\ UNCHANGED <<starts, i, v, pv, n, kv, koff, out, open, ret>>

AllSent == pc = "gather" /\ i > count /\ v = <<>> /\ Finish(0) /\ UNCHANGED open

----------------------------------------------------------------------------
(* write_batch and write_one: the system call, then the loop around it. *)

\* while(p < end)
OneLeft == pc = "one" /\ v[1].len > 0

syscall ==
  /\ pc = "write" \/ OneLeft
  /\ pc' = IF pc = "one" THEN "write()" ELSE "writev()"
  /\ kv' = pv /\ koff' = 0 /\ n' = 0
  /\ UNCHANGED <<starts, i, v, pv, out, open, ret>>

InKernel == pc \in {"write()", "writev()"}

\* The kernel moves m bytes from its current iovec to the file.
Transfer(m) ==
  /\ InKernel /\ kv <= Len(v) /\ koff + m <= v[kv].len
  /\ out' = out \o [j \in 1 .. m |-> v[kv].base + koff + j]
  /\ n' = n + m
  /\ IF koff + m = v[kv].len THEN kv' = kv + 1 /\ koff' = 0
                             ELSE kv' = kv     /\ koff' = koff + m
  /\ UNCHANGED <<starts, pc, i, v, pv, open, ret>>

SomeTransfer == \E m \in 1 .. Total : Transfer(m)

\* It returns the number of bytes it has moved, all of them or fewer.
Returned ==
  /\ InKernel
  /\ pc' = IF pc = "write()" THEN "advance" ELSE "scroll"
  /\ UNCHANGED <<starts, i, v, pv, n, kv, koff, out, open, ret>>

\* EINTR: call again, with the same arguments.
Interrupted ==
  /\ InKernel /\ n = 0
  /\ pc' = IF pc = "write()" THEN "one" ELSE "write"
  /\ UNCHANGED <<starts, i, v, pv, n, kv, koff, out, open, ret>>

\* Any other error: close(fd), return err.
Failed(e) == InKernel /\ n = 0 /\ Finish(e) /\ open' = FALSE

\* p += n
Advance ==
  /\ pc = "advance"
  /\ v' = <<iovec(v[1].base + n, v[1].len - n)>>
  /\ pc' = "one"
  /\ UNCHANGED <<starts, i, pv, n, kv, koff, out, open, ret>>

OneSent == pc = "one" /\ ~OneLeft /\ Finish(0) /\ UNCHANGED open

\* for(; pv < end && n >= pv->iov_len; ++pv)
WrittenNoFull(x) == n > v[x].len
Written(x) == n >= v[x].len

Scroll ==
  /\ pc = "scroll" /\ pv <= Len(v) /\ Written(pv)
  /\ n' = n - v[pv].len
  /\ pv' = pv + 1
  /\ UNCHANGED <<starts, pc, i, v, kv, koff, out, open, ret>>

\* What is left of an iovec that was written in part.
RestNoBase(x) == iovec(v[x].base, v[x].len - n)
Rest(x) == iovec(v[x].base + n, v[x].len - n)

Again ==
  /\ pc = "scroll" /\ pv <= Len(v) /\ ~Written(pv)
  /\ v' = [v EXCEPT ![pv] = Rest(pv)]
  /\ pc' = "write"
  /\ UNCHANGED <<starts, i, pv, n, kv, koff, out, open, ret>>

BatchSent ==
  /\ pc = "scroll" /\ pv > Len(v)
  /\ v' = <<>>
  /\ pc' = "gather"
  /\ UNCHANGED <<starts, i, pv, n, kv, koff, out, open, ret>>

Done == pc = "done" /\ UNCHANGED vars

----------------------------------------------------------------------------
CallStep ==
  \/ CallNone \/ CallOne \/ CallVec
  \/ SkipEmpty \/ Gather \/ LastBatch \/ AllSent
  \/ syscall \/ Advance \/ OneSent \/ Scroll \/ Again \/ BatchSent

KernelStep == SomeTransfer \/ Returned \/ Interrupted \/ \E e \in Errno : Failed(e)

Next == CallStep \/ KernelStep \/ Done

Spec == Init /\ [][Next]_vars

\* The thread runs, a system call returns, and not every one of them is
\* interrupted, or returns 0, before it has moved a byte.
FairSpec == Spec /\ WF_vars(CallStep) /\ WF_vars(KernelStep) /\ SF_vars(SomeTransfer)

----------------------------------------------------------------------------
(* Properties. *)

TypeOK ==
  /\ starts \in Seq(Nat) /\ Len(starts) > 0
  /\ pc \in {"call", "gather", "one", "write", "write()", "writev()", "advance", "scroll", "done"}
  /\ i \in Nat \ {0}
  /\ v \in Seq([base : Nat, len : Nat])
  /\ pv \in Nat \ {0} /\ n \in Nat /\ kv \in Nat \ {0} /\ koff \in Nat
  /\ out \in Seq(Nat) /\ open \in BOOLEAN
  /\ ret \in Errno \cup {0, Running}

\* The iovec array never overflows, and no system call is made with nothing
\* to write (writev returns 0 for that, and the loop would spin forever).
BatchInBounds ==
  /\ Len(v) <= BATCH_SIZE
  /\ pc \in {"write", "writev()"} => pv \in DOMAIN v /\ v[pv].len > 0

S == INSTANCE FdSink WITH total <- Total

\* Whatever the sizes of the partial writes and wherever they stop, the bytes
\* reach the file in order, none lost and none twice; 0 is returned only when
\* all are written, an error only with the descriptor closed.
Implements == S!Spec

\* The call returns, however many signals interrupt it.
CallReturns == pc = "call" ~> pc = "done"
=============================================================================
