--------------------------- MODULE MCModulesGen3 ----------------------------
EXTENDS ModulesGen3

MCME == [start |-> 1, end |-> 15]
Mod(offset, size, stays) == [offset |-> offset, size |-> size, stays |-> stays]
Keep(offset, size) == Mod(offset, size, TRUE)
Drop(offset, size) == Mod(offset, size, FALSE)
Dir(offset, length, modules) ==
  [offset |-> offset, length |-> length, modules |-> modules]

\* Every placement of up to three modules in a partition of nine cells, in any
\* order in the directory, at equal offsets, over one another and past the
\* end; a partition of no length; partitions at and past the region's end.
Modules == {Mod(o, z, s) : o \in {0, 3, 4, 6, 9, 10}, z \in {1, 2}, s \in BOOLEAN}
MCDirectories ==
  { Dir(2, 9, <<m, n, p>>) : m, n, p \in {x \in Modules : x.offset \in {4, 6, 9}} }
  \cup { Dir(2, 9, <<m, n>>) : m, n \in Modules }
  \cup { Dir(2, 0, <<m, n>>) : m, n \in {x \in Modules : x.offset \in {4, 6}} }
  \cup { Dir(7, 9, <<m, n>>) : m, n \in {x \in Modules : x.offset > 3} }
  \cup { Dir(2, 9, <<>>), Dir(14, 2, <<>>), Dir(12, 2, <<Drop(2, 1), Keep(2, 1)>>),
         Dir(6, 3, <<Drop(3, 1), Keep(5, 1), Drop(8, 1)>>) }
=============================================================================
