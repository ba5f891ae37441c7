------------------------------ MODULE Memmove -------------------------------
(***************************************************************************)
(* What a caller of Region::move_range gets, in one step: either the call  *)
(* is refused and the buffer is as it was, or the range has moved and its  *)
(* source is erased.  For an upward overlapping move of more than one      *)
(* block nothing is promised but that only the two ranges change.          *)
(***************************************************************************)
EXTENDS Region

CONSTANT ME  \* the region

VARIABLES abuf, afrom, asize, ato, status

avars == <<abuf, afrom, asize, ato, status>>

AInit(Image, Args) ==
  /\ abuf = Image
  /\ afrom \in Args /\ asize \in Args /\ ato \in Args
  /\ status = "called"

Fits == Check(ME, afrom, asize) /\ Check(ME, ato, asize)

Move ==
  /\ status = "called" /\ Fits
  /\ status' = "ok"
  /\ DOMAIN abuf' = DOMAIN abuf
  /\ SafeMove(afrom, asize, ato) => Moved(ME, abuf, abuf', afrom, asize, ato)
  /\ \A a \in DOMAIN abuf :
       abuf'[a] = abuf[a] \/ Within(ME, a, afrom, afrom + asize)
                          \/ Within(ME, a, ato, ato + asize)
  /\ UNCHANGED <<afrom, asize, ato>>

Refuse ==
  /\ status = "called" /\ ~Fits
  /\ status' = "refused"
  /\ UNCHANGED <<abuf, afrom, asize, ato>>

ANext == Move \/ Refuse
=============================================================================
