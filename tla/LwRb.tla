-------------------------------- MODULE LwRb --------------------------------
(***************************************************************************)
(* The index arithmetic and the copies of the LwRB ring buffer             *)
(* (src/Core/Src/lwrb.c) that the firmware uses.  A ring of size slots has *)
(* a write index w and a read index r, both below size between two calls,  *)
(* and keeps one slot empty: w = r means an empty ring.  lwrb_skip leaves  *)
(* r = size for an instant, so r ranges over 0..size.                      *)
(***************************************************************************)
EXTENDS Integers, Sequences

Lesser(a, b) == IF a <= b THEN a ELSE b

(* Mutant of GetFree: every slot may be filled. *)
GetFreeAll(size, w, r) ==
    IF w = r THEN size ELSE IF r > w THEN r - w ELSE size - (w - r)

(* Bytes that can still be written: one slot always stays empty. *)
GetFree(size, w, r) ==
    (IF w = r THEN size ELSE IF r > w THEN r - w ELSE size - (w - r)) - 1

(* Bytes waiting to be read. *)
GetFull(size, w, r) ==
    IF w = r THEN 0 ELSE IF w > r THEN w - r ELSE size - (r - w)

(* Bytes that can be read at r without wrapping. *)
LinearReadLength(size, w, r) ==
    IF w > r THEN w - r ELSE IF r > w THEN size - r ELSE 0

(* What lwrb_write accepts of a burst of n bytes. *)
Accepted(size, w, r, n) == Lesser(GetFree(size, w, r), n)

(* Mutant of WriteIndex: no end-of-buffer check. *)
WriteIndexUnchecked(size, w, r, n) ==
    LET m     == Accepted(size, w, r, n)
        first == Lesser(size - w, m)
    IN  IF m > first THEN m - first ELSE w + first

(* The write index after a burst of n bytes: the linear part, then the     *)
(* part that wraps to the start, then the end-of-buffer check.             *)
WriteIndex(size, w, r, n) ==
    LET m     == Accepted(size, w, r, n)
        first == Lesser(size - w, m)
        next  == IF m > first THEN m - first ELSE w + first
    IN  IF next >= size THEN 0 ELSE next

(* Mutant of WriteSlots: the part that wraps is copied from the start of   *)
(* the data.                                                               *)
WriteSlotsRestart(size, w, r, slots, data) ==
    LET m     == Accepted(size, w, r, Len(data))
        first == Lesser(size - w, m)
    IN  [i \in 0 .. size - 1 |->
            IF w <= i /\ i < w + first THEN data[i - w + 1]
            ELSE IF i < m - first      THEN data[i + 1]
            ELSE slots[i]]

(* The slots after the burst data (a sequence). *)
WriteSlots(size, w, r, slots, data) ==
    LET m     == Accepted(size, w, r, Len(data))
        first == Lesser(size - w, m)
    IN  [i \in 0 .. size - 1 |->
            IF w <= i /\ i < w + first THEN data[i - w + 1]
            ELSE IF i < m - first      THEN data[first + i + 1]
            ELSE slots[i]]

(* lwrb_skip adds to the read index, which may then be the size, and       *)
(* brings it back below the size.                                          *)
SkipTo(size, w, r, n) == r + Lesser(n, GetFull(size, w, r))
Wrap(size, i)         == IF i >= size THEN i - size ELSE i
=============================================================================
