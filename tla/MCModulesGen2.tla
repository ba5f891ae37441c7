---------------------------- MODULE MCModulesGen2 ---------------------------
EXTENDS ModulesGen2

MCME == [start |-> 1, end |-> 18]
Mod(comp, place, size, stays, base, memory) ==
  [comp |-> comp, place |-> place, size |-> size, stays |-> stays,
   base |-> base, memory |-> memory]
Plain(place, size, stays) == Mod("plain", place, size, stays, 0, 0)
Huff(base, memory, stays) == Mod("huffman", 1, 0, stays, base, memory)
Chunks(offsets) ==
  [c \in DOMAIN offsets |->
    [offset |-> offsets[c], absent |-> offsets[c] = 5]]
Table(offsets, end, corr, size) ==
  [chunks |-> Chunks(offsets), chunkSize |-> size, huffSize |-> end - 6,
   huffStart |-> 6, corr |-> corr, lutOffset |-> 0]
Part(offset, modules, table) ==
  [offset |-> offset, length |-> 10, modules |-> modules, recognised |-> TRUE,
   tag |-> TRUE, llut |-> table]

\* FTPR at 6: headers at 6, LLUT at 7, its chunks at 8 to 10, data from 11 to
\* 16.  Offset 5 stands for a chunk that is marked as absent.
Offsets == {5, 11, 12, 14}
ModuleLists ==
  { <<Huff(0, 2, s), Huff(2, 4, t)>> : s, t \in BOOLEAN }
  \cup { <<Huff(2, 2, TRUE), Huff(4, 2, FALSE), Huff(0, 1, FALSE)>>,
         <<Plain(8, 2, FALSE), Huff(0, 3, TRUE)>>,
         <<Huff(0, 2, TRUE), Plain(8, 2, TRUE)>>,
         <<Mod("other", 5, 1, FALSE, 0, 0), Huff(-2, 2, FALSE)>> }
Tables3 ==
  { Table(<<o, p, q>>, e, c, 2) :
      o, p, q \in Offsets, e \in {12, 16}, c \in {0, 6} }
Special ==
  { Part(6, <<Plain(5, 2, s), Plain(p, 3, t)>>, Table(<<>>, 6, 0, 0)) :
      s, t \in BOOLEAN, p \in {6, 7, 10} }
  \cup { Part(6, <<Huff(0, 2, s)>>, t) :
           s \in BOOLEAN,
           t \in {Table(<<>>, 16, 0, 2), Table(<<11>>, 16, 0, 0),
                  Table(<<0, 12>>, 16, 0, 2), Table(<<11, 14>>, 16, 9, 2),
                  Table(<<11, 14>>, 16, 13, 2), Table(<<4, 12>>, 16, 0, 2)} }
  \cup { Part(6, <<Huff(0, 0, TRUE), Huff(2, 2, s)>>,
              Table(<<11, 12, 14>>, 16, 0, 2)) : s \in BOOLEAN }
  \cup { Part(6, <<Huff(b, 2, TRUE)>>, Table(<<11, 14>>, 16, 0, 2)) :
           b \in {1, 4, 6, -4} }
  \cup { Part(6, <<Plain(0, 3, FALSE), Huff(0, 2, TRUE)>>,
              Table(<<11, 14>>, 16, 0, 2)),
         Part(6, <<Huff(0, 2, TRUE), Plain(0, 3, FALSE)>>,
              Table(<<11, 14>>, 16, 0, 2)),
         Part(15, <<Huff(0, 2, TRUE)>>, Table(<<11>>, 16, 0, 2)),
         Part(17, <<Huff(0, 2, TRUE)>>, Table(<<11>>, 16, 0, 2)),
         [Part(6, <<Plain(5, 2, TRUE), Huff(0, 2, TRUE)>>,
               Table(<<11>>, 16, 0, 2)) EXCEPT !.tag = FALSE],
         [Part(6, <<Plain(5, 2, FALSE)>>, Table(<<>>, 6, 0, 0))
            EXCEPT !.recognised = FALSE] }
MCFirmwares == { Part(6, m, t) : m \in ModuleLists, t \in Tables3 } \cup Special
=============================================================================
