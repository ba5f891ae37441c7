----------------------------- MODULE ModulePass ------------------------------
(***************************************************************************)
(* What the partition stage of `clean` gets from a module pass of either   *)
(* generation (modules.rs), in one step: it declines, and the image is as  *)
(* it was; or it erases cells of FTPR, and no others, and returns where    *)
(* the data that is left ends; or it fails with some of that done.         *)
(* Partitions.tla relies on this contract.                                 *)
(***************************************************************************)
EXTENDS Region

CONSTANTS ME, None

VARIABLES mbuf, moffset, mextent, mend, status

mvars == <<mbuf, moffset, mextent, mend, status>>

PassInit == mend = None /\ status = "called"

FtprCells ==
  {c \in DOMAIN mbuf : c < ME.end /\ Within(ME, c, moffset, moffset + mextent)}

\* No module is left, or the last one ends in FTPR.
Ends == {0} \cup moffset .. moffset + mextent

Decline ==
  /\ status = "called" /\ status' = "declined"
  /\ UNCHANGED <<mbuf, moffset, mextent, mend>>

Strip ==
  /\ status = "called" /\ status' = "done"
  /\ \E cells \in SUBSET FtprCells : mbuf' = Erased(mbuf, cells)
  /\ mend' \in Ends
  /\ UNCHANGED <<moffset, mextent>>

Fail ==
  /\ status = "called" /\ status' = "failed"
  /\ \E cells \in SUBSET FtprCells : mbuf' = Erased(mbuf, cells)
  /\ UNCHANGED <<moffset, mextent, mend>>

PassNext == Decline \/ Strip \/ Fail
=============================================================================
