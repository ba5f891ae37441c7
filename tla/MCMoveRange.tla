---------------------------- MODULE MCMoveRange -----------------------------
EXTENDS MoveRange

MCME == [start |-> 1, end |-> 8]
MCArgs == 0 .. 8
=============================================================================
