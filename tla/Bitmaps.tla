------------------------------- MODULE Bitmaps -------------------------------
(***************************************************************************)
(* The bitmap helpers of fs_ctx.c.  A bitmap is the set of the indices     *)
(* whose bit is 1: byte index/8, bit index%8 is one position of the set.   *)
(***************************************************************************)
EXTENDS Integers, FiniteSets

(***************************************************************************)
(* What get_first_available_position returns when every bit is set.  The   *)
(* code writes (uint32_t) 2e32-1: the conversion saturates to 2^32 - 1 and *)
(* the cast binds before the subtraction, which leaves 2^32 - 2.  It is    *)
(* written here as its value modulo 2^32, since TLC's integers end below   *)
(* 2^31; all that matters is that it is no position of any image.          *)
(***************************************************************************)
NotFound == -2

is_bit_set(index, bitmap) == index \in bitmap

set_bitmap(bitmap, index) == bitmap \cup {index}

unset_bitmap(bitmap, index) == bitmap \ {index}

(***************************************************************************)
(* The lowest clear bit below n.                                           *)
(***************************************************************************)
IsFirstAvailable(i, n, bitmap) ==
    /\ i \in 0 .. n - 1
    /\ ~is_bit_set(i, bitmap)
    /\ \A j \in 0 .. i - 1 : is_bit_set(j, bitmap)

get_first_available_position(n, bitmap) ==
    IF \E i \in 0 .. n - 1 : ~is_bit_set(i, bitmap)
      THEN CHOOSE i \in 0 .. n - 1 : IsFirstAvailable(i, n, bitmap)
      ELSE NotFound

=============================================================================
