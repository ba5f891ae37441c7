------------------------------- MODULE Region -------------------------------
(***************************************************************************)
(* The bounded view of a flash image that every destructive operation of   *)
(* the program goes through (region.rs).  A buffer is a function from      *)
(* addresses to cells.  A cell holds the address its datum had in the      *)
(* image that was read, so two data are never confused, or FF when it has  *)
(* been erased.  A region is a record [start, end] of addresses, end       *)
(* excluded; the offsets of every operation are relative to its start.     *)
(***************************************************************************)
EXTENDS Integers

CONSTANTS
  BLOCK,  \* flash erase granularity, 0x1000 bytes in the code
  FF      \* the erased cell

ASSUME BlockAssumption == BLOCK \in Nat \ {0}
ASSUME ErasedAssumption == FF \notin Int

RegionLen(r) == r.end - r.start
IsEmpty(r) == r.end <= r.start

\* Region::check: the range starting at off lies inside the region.
Check(r, off, len) == r.start + off + len <= r.end

\* Address a lies in the region-relative range [s, e).
Within(r, a, s, e) == r.start + s <= a /\ a < r.start + e

\* Region::fill_range: an empty range is accepted wherever it lies.
FillOk(r, s, e) == s >= e \/ Check(r, s, e - s)
Filled(r, buf, s, e) ==
  [a \in DOMAIN buf |-> IF Within(r, a, s, e) THEN FF ELSE buf[a]]

\* The cells in a set are erased.
Erased(buf, cells) ==
  [a \in DOMAIN buf |-> IF a \in cells THEN FF ELSE buf[a]]

\* One turn of the loop of Region::move_range: the block is read, its source
\* is erased, and only then is it written at its destination.
BlockMoved_EraseLast(r, buf, from, to, n) ==
  [a \in DOMAIN buf |->
     IF Within(r, a, from, from + n) THEN FF
     ELSE IF Within(r, a, to, to + n) THEN buf[a - to + from]
     ELSE buf[a]]

BlockMoved(r, buf, from, to, n) ==
  [a \in DOMAIN buf |->
     IF Within(r, a, to, to + n) THEN buf[a - to + from]
     ELSE IF Within(r, a, from, from + n) THEN FF
     ELSE buf[a]]

\* The length of the block that starts at offset i of a move of size bytes.
Chunk_Whole(size, i) == BLOCK
Chunk(size, i) == IF size - i < BLOCK THEN size - i ELSE BLOCK

\* What a memmove that erases its source leaves behind.
Moved(r, old, new, from, size, to) ==
  \A a \in DOMAIN old :
    new[a] = IF Within(r, a, to, to + size) THEN old[a - to + from]
             ELSE IF Within(r, a, from, from + size) THEN FF
             ELSE old[a]

\* The moves that the block loop performs correctly.
SafeMove(from, size, to) == to <= from \/ to >= from + size \/ size <= BLOCK
=============================================================================
