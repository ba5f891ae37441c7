----------------------------- MODULE MCCleanCli -----------------------------
EXTENDS CleanCli, TLC

\* Nothing tells the paths apart.
Symmetry == Permutations(Paths)
=============================================================================
