---------------------------- MODULE MCPartitions ----------------------------
EXTENDS Partitions

MCME == [start |-> 1, end |-> 11]
Part(n, v, s, l) == [name |-> n, nvram |-> v, start |-> s, length |-> l]

\* FTPR in the middle, at the start or at the end of the region; FTUP around
\* NFTP; an EFFS with and without data; an entry past the region, one of no
\* length, an open-ended last one, also past the region; no FTPR at all; two
\* of it, the second where the first may be moved, or the first without data;
\* CODE in its place, with an FTPR behind it or without.
MCTables == {
  << Part("FTPR", FALSE, 5, 3), Part("NFTP", FALSE, 8, 2),
     Part("EFFS", FALSE, 2, 2) >>,
  << Part("EFFS", TRUE, 2, 2), Part("FTPR", FALSE, 3, 4),
     Part("NFTP", FALSE, 7, 12) >>,
  << Part("NFTP", FALSE, 8, 2), Part("FTPR", FALSE, 4, 3),
     Part("FTUP", FALSE, 7, 3) >>,
  << Part("FTPR", FALSE, 7, 12), Part("NFTP", FALSE, 4, 0) >>,
  << Part("FTPR", FALSE, 2, 4), Part("NFTP", FALSE, 6, 99) >>,
  << Part("FTPR", FALSE, 1, 4), Part("NFTP", FALSE, 12, 99) >>,
  << Part("NFTP", FALSE, 7, 2), Part("EFFS", FALSE, 0, 2) >>,
  << Part("FTPR", FALSE, 5, 2), Part("FTPR", FALSE, 3, 2) >>,
  << Part("FTPR", FALSE, 0, 2), Part("FTPR", FALSE, 4, 3) >>,
  << Part("CODE", FALSE, 2, 2), Part("FTPR", FALSE, 5, 3) >>,
  << Part("NFTP", FALSE, 8, 2), Part("CODE", TRUE, 3, 3) >>
}

MCIfwi == [offset |-> 3, length |-> 2]
MCWhitelists == {{}, {"EFFS", "NFTP"}}
MCBlacklists == {{}, {"FTPR"}, {"EFFS"}, {"NFTP"}}
MCNewOffsets == {1, 3, 8}
MCHeaders ==
  [pre : {3}, num : 1 .. 3, effs : {1}, other : {6}, cksum : {2}]
=============================================================================
