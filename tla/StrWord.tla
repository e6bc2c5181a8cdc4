------------------------------ MODULE StrWord ------------------------------
(***************************************************************************)
(* The `str' object as str.h lays it out: a pointer, and a word of limited *)
(* width that holds twice the length plus the owner bit.                   *)
(*                                                                         *)
(* An address is a number, the first byte of the program's text being at   *)
(* address 1.                                                              *)
(***************************************************************************)
EXTENDS Naturals

CONSTANT SIZE_MAX    \* the greatest size_t

ASSUME WordAssumption == SIZE_MAX \in Nat /\ SIZE_MAX % 2 = 1

Nullptr == 0

size_t == 0 .. SIZE_MAX
Wrapped(n) == n % (SIZE_MAX + 1)

str_ref_prop(n)      == Wrapped(2 * n)
str_owner_prop(n)    == Wrapped(2 * n) + 1
str_mask_owner(prop) == prop - (prop % 2)

str(ptr, prop) == [ptr |-> ptr, prop |-> prop]
str_null == str(Nullptr, 0)

str_len(s)      == s.prop \div 2
str_is_owner(s) == s.prop % 2 = 1

str_ref(s) == [s EXCEPT !.prop = str_mask_owner(@)]

str_ref_mem(ptr, n) ==
  IF ptr # Nullptr /\ n > 0 THEN str(ptr, str_ref_prop(n)) ELSE str_null

str_acquire_mem(ptr, n) ==
  IF ptr # Nullptr /\ n > 0 THEN str(ptr, str_owner_prop(n)) ELSE str_null

\* For any i and j, in any order.
str_ref_sliceUnclamped(s, i, j) ==
  str_ref_mem(s.ptr + i, IF j <= i \/ i >= str_len(s) THEN 0 ELSE j - i)
str_ref_slice(s, i, j) ==
  str_ref_mem(s.ptr + i,
              IF j <= i \/ i >= str_len(s) THEN 0
              ELSE IF j > str_len(s) THEN str_len(s) - i ELSE j - i)
=============================================================================
