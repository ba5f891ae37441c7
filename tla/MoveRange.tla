----------------------------- MODULE MoveRange ------------------------------
(***************************************************************************)
(* Region::move_range, block by block: the step by which -r relocates the  *)
(* FTPR partition.  The caller gives any offsets and any size; the region  *)
(* is a part of the image, so a move may also be asked to run past it.     *)
(***************************************************************************)
EXTENDS Region

CONSTANTS
  FileLen,  \* length of the image
  ME,       \* the region, inside the image
  Args      \* the offsets and sizes a caller may give

ASSUME FileLenAssumption == FileLen \in Nat
ASSUME MEAssumption ==
  /\ ME \in [start : Nat, end : Nat]
  /\ ME.start <= ME.end /\ ME.end <= FileLen
ASSUME ArgsAssumption == Args \subseteq Nat

Addr == 0 .. FileLen - 1
Image == [a \in Addr |-> a]

VARIABLES
  buf,             \* the image being edited
  from, size, to,  \* the arguments of the call
  i,               \* how much has been moved
  pc               \* "check", "loop", "done" or "err"

args == <<from, size, to>>
vars == <<buf, from, size, to, i, pc>>

Init ==
  /\ buf = Image
  /\ from \in Args /\ size \in Args /\ to \in Args
  /\ i = 0
  /\ pc = "check"

Accept_SourceOnly ==
  /\ pc = "check"
  /\ Check(ME, from, size)
  /\ pc' = "loop"
  /\ UNCHANGED <<buf, args, i>>

Accept ==
  /\ pc = "check"
  /\ Check(ME, from, size) /\ Check(ME, to, size)
  /\ pc' = "loop"
  /\ UNCHANGED <<buf, args, i>>

Reject ==
  /\ pc = "check"
  /\ ~(Check(ME, from, size) /\ Check(ME, to, size))
  /\ pc' = "err"
  /\ UNCHANGED <<buf, args, i>>

MoveBlock ==
  /\ pc = "loop" /\ i < size
  /\ buf' = BlockMoved(ME, buf, from + i, to + i, Chunk(size, i))
  /\ i' = i + Chunk(size, i)
  /\ UNCHANGED <<args, pc>>

Finish_WholeBlocks ==
  /\ pc = "loop" /\ i + BLOCK > size
  /\ pc' = "done"
  /\ UNCHANGED <<buf, args, i>>

Finish ==
  /\ pc = "loop" /\ i >= size
  /\ pc' = "done"
  /\ UNCHANGED <<buf, args, i>>

Next == Accept \/ Reject \/ MoveBlock \/ Finish

Spec == Init /\ [][Next]_vars
-----------------------------------------------------------------------------
TypeOK ==
  /\ buf \in [Addr -> Addr \cup {FF}]
  /\ from \in Args /\ size \in Args /\ to \in Args
  /\ i \in 0 .. size
  /\ pc \in {"check", "loop", "done", "err"}

\* A finished call has moved the range, with its source erased, exactly when
\* the move is downward, between disjoint ranges, or of one block at most;
\* the upward overlapping moves that the doc comment of move_range also
\* allows are the ones that lose data.
MovedIffSafe ==
  pc = "done" => (Moved(ME, Image, buf, from, size, to)
                    <=> SafeMove(from, size, to))

\* At every moment of a call, successful or not, the cells outside the two
\* ranges - among them every cell of the other flash regions - hold what
\* they held in the image.
OutsideUntouched ==
  \A a \in Addr :
    \/ buf[a] = a
    \/ /\ pc \in {"loop", "done"}
       /\ ME.start <= a /\ a < ME.end
       /\ \/ Within(ME, a, from, from + size)
          \/ Within(ME, a, to, to + size)

\* The block loop implements a memmove that takes one step.
Abstract == INSTANCE Memmove WITH
  abuf <- IF pc = "done" THEN buf ELSE Image,
  afrom <- from, asize <- size, ato <- to,
  status <- CASE pc = "done" -> "ok"
              [] pc = "err" -> "refused"
              [] OTHER -> "called"

ImplementsMemmove ==
  Abstract!AInit(Image, Args) /\ [][Abstract!ANext]_(Abstract!avars)
=============================================================================
