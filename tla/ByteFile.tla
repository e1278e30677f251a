------------------------------ MODULE ByteFile ------------------------------
(***************************************************************************)
(* What create, unlink, truncate and write promise whoever reads: files    *)
(* are sequences of bytes.  A write replaces the bytes it names, and what  *)
(* a file gains that nobody wrote is 0.  Blocks, extents, bitmaps and names*)
(* do not exist here.                                                      *)
(***************************************************************************)
EXTENDS Integers, Sequences

VARIABLE file   \* file -> its bytes; the domain is the set of files there are

Resized(bs, size) == [k \in 1 .. size |-> IF k <= Len(bs) THEN bs[k] ELSE 0]

\* data in place of the bytes from offset on, in a file made long enough first.
Overwritten(bs, offset, data) ==
    LET end  == offset + Len(data)
        long == Resized(bs, IF end > Len(bs) THEN end ELSE Len(bs))
    IN  [k \in DOMAIN long |->
            IF k \in offset + 1 .. end THEN data[k - offset] ELSE long[k]]

Init == file = [i \in {} |-> <<>>]

\* create and unlink: the files there are now; a new one is empty.
Keep(files) ==
    file' = [i \in files |-> IF i \in DOMAIN file THEN file[i] ELSE <<>>]

\* truncate; also a write or truncate that gives up, which may leave zeros.
Resize(i, size) == file' = [file EXCEPT ![i] = Resized(@, size)]

Write(i, offset, data) == file' = [file EXCEPT ![i] = Overwritten(@, offset, data)]

=============================================================================
