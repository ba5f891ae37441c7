------------------------- MODULE ModulesGen3Proofs --------------------------
(***************************************************************************)
(* The generation 3 module pass for every image, directory and order of    *)
(* the modules in it.                                                      *)
(*                                                                         *)
(* What the sweep has done up to the entry it is at is the invariant: the  *)
(* range in front of it is erased where a module could go (Swept), and the *)
(* end remembered covers the modules that stay (Covered).  For this to be  *)
(* about every module, the sorted order has to list every one of them:     *)
(* the sort is strict, so the order is injective, and as it has as many    *)
(* places as there are entries, it is a permutation (Listed).              *)
(***************************************************************************)
EXTENDS ModulesGen3, FiniteSetTheorems, WellFoundedInduction, TLAPS

Ordered == pc = "sweep" \/ (pc = "done" /\ ~keepModules)

Phase ==
  /\ pc = "start" => buf = Image /\ endData = None /\ i = 1
  /\ pc = "err" => buf = Image /\ endData = None
  /\ pc = "sweep" => ~keepModules
  /\ pc = "done" /\ keepModules => endData = dir.offset + dir.length
  /\ pc = "done" /\ ~keepModules => i = Count + 1

OrderInv ==
  Ordered => order \in [1 .. Count + 1 -> 0 .. Count] /\ Sorted(order)

\* Every cell holds its own datum, or lies in FTPR and is erased.
Framed ==
  \A a \in Addr :
    \/ buf[a] = a
    \/ /\ buf[a] = FF /\ a < ME.end
       /\ Within(ME, a, dir.offset, dir.offset + Extent)

Swept ==
  Ordered => \A g \in 1 .. i - 1 : ~Stays(order[g]) =>
    \A a \in Addr :
      (/\ a < ME.end
       /\ Within(ME, a, dir.offset + OffsetOf(order[g]),
                        dir.offset + OffsetOf(order[g + 1]))) => buf[a] = FF

Covered ==
  Ordered =>
    /\ endData \in Nat
    /\ endData = 0 \/ endData \in dir.offset .. dir.offset + Extent
    /\ \A g \in 1 .. i - 1 : Stays(order[g]) =>
         dir.offset + OffsetOf(order[g + 1]) <= endData

IInv ==
  /\ TypeOK /\ Phase /\ OrderInv /\ Framed /\ Swept /\ Covered /\ KeptSurvives
-----------------------------------------------------------------------------
Less == {p \in Nat \X Nat : p[1] < p[2]}

\* The least-number principle for sets.
LEMMA LeastNumber ==
  ASSUME NEW S \in SUBSET Nat, S # {}
  PROVE  \E x \in S : \A y \in S : x <= y
<1>1. IsWellFoundedOn(Less, Nat)
  BY NatLessThanWellFounded, Zenon DEF OpToRel, Less
<1>2. \E x \in S : \A y \in S : <<y, x>> \notin Less
  <2> HIDE DEF Less
  <2> QED
    BY <1>1, WFMin
<1>3. PICK x \in S : \A y \in S : <<y, x>> \notin Less
  BY <1>2
<1>4. \A y \in S : ~(y < x)
  BY <1>3 DEF Less
<1> QED
  BY <1>3, <1>4

\* The entries of a directory have offsets in it, the length among them.
LEMMA Types ==
  ASSUME dir \in Directory
  PROVE  /\ Count \in Nat /\ dir.offset \in Nat /\ dir.length \in Nat
         /\ \A m \in 1 .. Count : /\ dir.modules[m] \in Module
                                  /\ dir.modules[m].offset \in Nat
                                  /\ dir.modules[m].offset < OffsetValues
                                  /\ dir.modules[m].size \in Nat
                                  /\ DataEnd(m) \in Nat
                                  /\ OffsetOf(m) = dir.modules[m].offset
         /\ OffsetOf(0) = dir.length
         /\ \A m \in 0 .. Count : OffsetOf(m) \in Nat
         /\ MeLen \in Nat /\ ME.start \in Nat /\ ME.end \in Nat
         /\ ME.start + MeLen = ME.end
         /\ HEAD \in Nat /\ ENTRY \in Nat /\ OffsetValues \in Nat
         /\ FF \notin Addr /\ (\A a \in Addr : a \in Int) /\ None \notin Int
<1>1. /\ Count \in Nat /\ dir.offset \in Nat /\ dir.length \in Nat
      /\ \A m \in 1 .. Count : dir.modules[m] \in Module
  BY DEF Directory, Count
<1>2. \A m \in 1 .. Count : /\ dir.modules[m].offset \in Nat
                            /\ dir.modules[m].offset < OffsetValues
                            /\ dir.modules[m].size \in Nat
  BY <1>1, SizesAssumption DEF Module
<1>3. \A m \in 1 .. Count : DataEnd(m) \in Nat /\ m # 0
  BY <1>1, <1>2 DEF DataEnd
<1>4. /\ MeLen \in Nat /\ ME.start \in Nat /\ ME.end \in Nat
      /\ ME.start + MeLen = ME.end
  BY ImageAssumption DEF MeLen, RegionLen
<1>5. FF \notin Addr /\ \A a \in Addr : a \in Int
  BY ErasedAssumption, ImageAssumption DEF Addr
<1> QED
  BY <1>1, <1>2, <1>3, <1>4, <1>5, SizesAssumption, NoneAssumption DEF OffsetOf

\* The extent is the largest offset of an entry.
LEMMA ExtentIsLargest ==
  ASSUME dir \in Directory
  PROVE  /\ Extent \in Nat
         /\ \A m \in 0 .. Count : OffsetOf(m) <= Extent
<1> DEFINE Bound == dir.length + OffsetValues
           Slack == {x \in Nat : \E m \in 0 .. Count : x = Bound - OffsetOf(m)}
<1>1. \A m \in 0 .. Count : OffsetOf(m) \in Nat /\ OffsetOf(m) <= Bound
  BY Types
<1>2. \A m \in 0 .. Count : Bound - OffsetOf(m) \in Slack
  BY <1>1, Types
<1>3. Slack \in SUBSET Nat /\ Slack # {}
  BY <1>2, Types
<1> HIDE DEF Slack
<1>4. PICK x \in Slack : \A y \in Slack : x <= y
  BY <1>3, LeastNumber
<1>5. PICK m \in 0 .. Count : x = Bound - OffsetOf(m)
  BY <1>4 DEF Slack
<1>6. \A n \in 0 .. Count : OffsetOf(n) <= OffsetOf(m)
  <2> TAKE n \in 0 .. Count
  <2>1. x <= Bound - OffsetOf(n)
    BY <1>2, <1>4
  <2> HIDE DEF Bound
  <2>2. Bound \in Nat
    BY Types DEF Bound
  <2> QED
    BY <1>1, <1>5, <2>1, <2>2
<1>7. /\ Extent \in {OffsetOf(n) : n \in 0 .. Count}
      /\ \A n \in 0 .. Count : OffsetOf(n) <= Extent
  <2> DEFINE Largest(e) == \A n \in 0 .. Count : OffsetOf(n) <= e
             Offsets == {OffsetOf(n) : n \in 0 .. Count}
  <2>1. OffsetOf(m) \in Offsets /\ Largest(OffsetOf(m))
    BY <1>6
  <2>2. Extent = CHOOSE e \in Offsets : Largest(e)
    BY DEF Extent
  <2> HIDE DEF Largest, Offsets
  <2>3. Extent \in Offsets /\ Largest(Extent)
    BY <2>1, <2>2
  <2> QED
    BY <2>3 DEF Largest, Offsets
<1> QED
  BY <1>1, <1>7

\* A sorted order lists every entry, and does not fall.
LEMMA Listed ==
  ASSUME dir \in Directory, NEW o \in [1 .. Count + 1 -> 0 .. Count], Sorted(o)
  PROVE  /\ \A m \in 0 .. Count : \E g \in 1 .. Count + 1 : o[g] = m
         /\ \A g, h \in 1 .. Count + 1 : g < h => o[g] # o[h]
         /\ \A g, h \in 1 .. Count + 1 : g <= h => OffsetOf(o[g]) <= OffsetOf(o[h])
<1>1. \A g, h \in 1 .. Count + 1 : g < h =>
        o[g] # o[h] /\ OffsetOf(o[g]) <= OffsetOf(o[h])
  <2> TAKE g, h \in 1 .. Count + 1
  <2> HAVE g < h
  <2>1. o[g] \in 0 .. Count /\ o[h] \in 0 .. Count
    OBVIOUS
  <2>2. OffsetOf(o[g]) \in Nat /\ OffsetOf(o[h]) \in Nat /\ Count \in Nat
    BY <2>1, Types
  <2>3. Before(o[g], o[h])
    BY DEF Sorted
  <2> QED
    BY <2>1, <2>2, <2>3 DEF Before
<1>2. \A g, h \in 1 .. Count + 1 : o[g] = o[h] => g = h
  <2> SUFFICES ASSUME NEW g \in 1 .. Count + 1, NEW h \in 1 .. Count + 1,
                      o[g] = o[h], g # h
               PROVE  FALSE
    OBVIOUS
  <2>1. g < h \/ h < g
    BY Types
  <2> QED
    BY <1>1, <2>1
<1>3. o \in Injection(1 .. Count + 1, 0 .. Count)
  BY <1>2 DEF Injection, IsInjective
<1>4. /\ IsFiniteSet(0 .. Count)
      /\ Cardinality(0 .. Count) = Cardinality(1 .. Count + 1)
  BY FS_Interval, Types
<1>5. o \in Surjection(1 .. Count + 1, 0 .. Count)
  BY <1>3, <1>4, FS_Injection
<1>6. \A m \in 0 .. Count : \E g \in 1 .. Count + 1 : o[g] = m
  BY <1>5 DEF Surjection
<1>7. \A g, h \in 1 .. Count + 1 : g <= h => OffsetOf(o[g]) <= OffsetOf(o[h])
  <2> TAKE g, h \in 1 .. Count + 1
  <2> HAVE g <= h
  <2>1. CASE g = h
    <3>1. o[g] \in 0 .. Count
      OBVIOUS
    <3>2. OffsetOf(o[g]) \in Nat
      BY <3>1, Types
    <3> QED
      BY <2>1, <3>2
  <2>2. CASE g < h
    BY <1>1, <2>2
  <2> QED
    BY <2>1, <2>2, Types
<1> QED
  BY <1>1, <1>6, <1>7

\* What an entry is depends on the directory only.
LEMMA InputsDecide ==
  ASSUME dir' = dir
  PROVE  /\ Count' = Count /\ Extent' = Extent
         /\ \A m : /\ OffsetOf(m)' = OffsetOf(m) /\ DataEnd(m)' = DataEnd(m)
                   /\ Stays(m)' <=> Stays(m)
         /\ \A m : Apart(m)' <=> Apart(m)
         /\ \A a, m : InModule(a, m)' <=> InModule(a, m)
         /\ \A a : InDirectory(a)' <=> InDirectory(a)
         /\ \A o : Sorted(o)' <=> Sorted(o)
  BY DEF Count, Extent, OffsetOf, DataEnd, Stays, Apart, InModule, InDirectory,
         Sorted, Before
-----------------------------------------------------------------------------
\* The pass starts in the invariant.
LEMMA InitInv == Init => IInv
<1> SUFFICES ASSUME Init PROVE IInv
  OBVIOUS
<1>1. dir \in Directory /\ Count \in Nat
  BY DirectoriesAssumption, Types DEF Init
<1>2. \A a \in Addr : buf[a] = a
  BY DEF Init, Image
<1>3. TypeOK /\ Phase /\ OrderInv /\ Swept /\ Covered
  BY <1>1 DEF Init, TypeOK, Phase, OrderInv, Swept, Covered, Ordered, Image
<1>4. Framed /\ KeptSurvives
  BY <1>2 DEF Framed, KeptSurvives
<1> QED
  BY <1>3, <1>4 DEF IInv

\* A step that leaves the image alone loses nothing.
LEMMA SameImage ==
  ASSUME Framed, KeptSurvives, UNCHANGED <<buf, inputs>>
  PROVE  Framed' /\ KeptSurvives'
<1>1. dir' = dir /\ buf' = buf
  BY DEF inputs
<1>2. Framed'
  BY <1>1, InputsDecide DEF Framed, Within
<1>3. KeptSurvives'
  BY <1>1, InputsDecide DEF KeptSurvives
<1> QED
  BY <1>2, <1>3

\* The steps that come before the sweep.
LEMMA ReadInv ==
  ASSUME IInv, KeepModules \/ ReadFails \/ ReadDirectory
  PROVE  IInv'
<1> USE DEF IInv
<1>1. /\ dir' = dir /\ keepModules' = keepModules /\ buf' = buf /\ i' = i
      /\ pc = "start" /\ buf = Image /\ endData = None /\ i = 1
      /\ UNCHANGED inputs
  BY DEF KeepModules, ReadFails, ReadDirectory, inputs, Phase
<1>2. Framed' /\ KeptSurvives'
  BY <1>1, SameImage
<1>3. Count' = Count /\ dir.offset \in Nat /\ dir.length \in Nat /\ Count \in Nat
  BY <1>1, InputsDecide, Types DEF TypeOK
<1>4. CASE KeepModules \/ ReadFails
  <2>1. /\ order' = order
        /\ \/ pc' = "err" /\ endData' = endData
           \/ pc' = "done" /\ keepModules /\ endData' = dir.offset + dir.length
    BY <1>4 DEF KeepModules, ReadFails
  <2>2. TypeOK'
    BY <1>1, <1>3, <2>1 DEF TypeOK
  <2>3. Phase' /\ OrderInv' /\ Swept' /\ Covered'
    BY <1>1, <1>3, <2>1
       DEF Phase, OrderInv, Swept, Covered, Ordered, Image
  <2> QED
    BY <1>2, <2>2, <2>3
<1>5. CASE ReadDirectory
  <2>1. PICK o \in [1 .. Count + 1 -> 0 .. Count] : Sorted(o) /\ order' = o
    BY <1>5 DEF ReadDirectory
  <2>2. pc' = "sweep" /\ ~keepModules /\ endData' = 0
    BY <1>5 DEF ReadDirectory
  <2>3. TypeOK'
    BY <1>1, <1>3, <2>1, <2>2 DEF TypeOK
  <2>4. OrderInv'
    BY <1>1, <1>3, <2>1, InputsDecide
       DEF OrderInv, Sorted, Before, OffsetOf
  <2>5. Phase' /\ Swept' /\ Covered'
    BY <1>1, <1>3, <2>2 DEF Phase, Swept, Covered, Ordered
  <2> QED
    BY <1>2, <2>3, <2>4, <2>5
<1> QED
  BY <1>4, <1>5

\* What a turn of the loop finds: the entry it is at and the next one, in order.
LEMMA Turn ==
  ASSUME IInv, pc = "sweep", i <= Count
  PROVE  /\ order \in [1 .. Count + 1 -> 0 .. Count] /\ Sorted(order)
         /\ ~keepModules /\ i \in 1 .. Count /\ Count \in Nat
         /\ order[i] \in 0 .. Count /\ order[i + 1] \in 0 .. Count
         /\ OffsetOf(order[i]) \in Nat /\ OffsetOf(order[i + 1]) \in Nat
         /\ OffsetOf(order[i + 1]) <= Extent /\ Extent \in Nat
         /\ dir.offset \in Nat /\ endData \in Nat
<1>1. /\ order \in [1 .. Count + 1 -> 0 .. Count] /\ Sorted(order)
      /\ ~keepModules /\ endData \in Nat
  BY DEF IInv, OrderInv, Phase, Covered, Ordered
<1>2. Count \in Nat /\ dir.offset \in Nat /\ i \in 1 .. Count
  BY Types DEF IInv, TypeOK
<1>3. order[i] \in 0 .. Count /\ order[i + 1] \in 0 .. Count
  BY <1>1, <1>2
<1>4. /\ OffsetOf(order[i]) \in Nat /\ OffsetOf(order[i + 1]) \in Nat
      /\ OffsetOf(order[i + 1]) <= Extent /\ Extent \in Nat
  BY <1>3, Types, ExtentIsLargest DEF IInv, TypeOK
<1> QED
  BY <1>1, <1>2, <1>3, <1>4

\* The properties of the order hold on as the sweep goes on.
LEMMA OrderStays ==
  ASSUME OrderInv, Ordered, UNCHANGED <<inputs, order>>
  PROVE  OrderInv'
<1>1. dir' = dir /\ order' = order
  BY DEF inputs
<1> QED
  BY SMTT(30), <1>1 DEF OrderInv, Sorted, Before, OffsetOf, Count

\* A module that stays raises the end to where the next entry starts.
LEMMA KeepInv ==
  ASSUME IInv, KeepModule
  PROVE  IInv'
<1> USE DEF IInv
<1> DEFINE E == dir.offset + OffsetOf(order[i + 1])
<1>1. /\ dir' = dir /\ keepModules' = keepModules /\ buf' = buf
      /\ order' = order /\ pc' = pc /\ i' = i + 1
      /\ pc = "sweep" /\ i <= Count /\ Stays(order[i])
      /\ endData' = IF E > endData THEN E ELSE endData
      /\ UNCHANGED inputs
  BY DEF KeepModule, End, inputs
<1>2. /\ i \in 1 .. Count /\ Count \in Nat /\ ~keepModules
      /\ E \in dir.offset .. dir.offset + Extent
      /\ endData \in Nat /\ dir.offset \in Nat /\ Extent \in Nat
      /\ E \in Nat
  BY SMTT(30), <1>1, Turn
<1> HIDE DEF E
<1>3. endData' \in Nat /\ endData' >= endData /\ endData' >= E
  BY <1>1, <1>2
<1>4. Count' = Count /\ Extent' = Extent
  BY <1>1, InputsDecide
<1>5. TypeOK'
  BY <1>1, <1>2, <1>3, <1>4 DEF TypeOK
<1>6. Phase' /\ OrderInv'
  BY <1>1, <1>2, OrderStays DEF Phase, Ordered
<1>7. Framed' /\ KeptSurvives'
  BY <1>1, SameImage
<1>8. Swept'
  <2>1. Swept' <=>
          \A g \in 1 .. (i + 1) - 1 : ~Stays(order[g]) =>
            \A a \in Addr :
              (/\ a < ME.end
               /\ Within(ME, a, dir.offset + OffsetOf(order[g]),
                                dir.offset + OffsetOf(order[g + 1])))
              => buf[a] = FF
    BY <1>1, <1>2 DEF Swept, Ordered, Stays, OffsetOf, Within
  <2>2. \A g \in 1 .. (i + 1) - 1 : g = i \/ g \in 1 .. i - 1
    BY <1>2
  <2> QED
    BY <1>1, <2>1, <2>2 DEF Swept, Ordered
<1>9. Covered'
  <2>1. /\ endData = 0 \/ endData \in dir.offset .. dir.offset + Extent
        /\ \A g \in 1 .. i - 1 : Stays(order[g]) =>
             dir.offset + OffsetOf(order[g + 1]) <= endData
    BY <1>1 DEF Covered, Ordered
  <2>2. \A g \in 1 .. (i + 1) - 1 : Stays(order[g]) =>
          dir.offset + OffsetOf(order[g + 1]) <= endData'
    <3> TAKE g \in 1 .. (i + 1) - 1
    <3> HAVE Stays(order[g])
    <3>1. CASE g = i
      BY <1>3, <3>1, <1>2 DEF E
    <3>2. CASE g \in 1 .. i - 1
      <4>1. order[g + 1] \in 0 .. Count
        BY <1>1, <1>2, <3>2, Turn
      <4>2. OffsetOf(order[g + 1]) \in Nat
        BY <4>1, Types DEF TypeOK
      <4> QED
        BY <1>2, <1>3, <2>1, <3>2, <4>2
    <3> QED
      BY <1>2, <3>1, <3>2
  <2>3. endData' = 0 \/ endData' \in dir.offset .. dir.offset + Extent
    BY <1>1, <1>2, <2>1
  <2> QED
    BY <1>1, <1>2, <1>3, <1>4, <2>2, <2>3 DEF Covered, Ordered, Stays, OffsetOf
<1> QED
  BY <1>5, <1>6, <1>7, <1>8, <1>9

\* A module is erased up to where the next entry starts.
LEMMA EraseInv ==
  ASSUME IInv, EraseModule
  PROVE  IInv'
<1> USE DEF IInv
<1> DEFINE S == dir.offset + OffsetOf(order[i])
           E == dir.offset + OffsetOf(order[i + 1])
           Hit(a) == /\ a < ME.end /\ Within(ME, a, S, E)
<1>1. /\ dir' = dir /\ keepModules' = keepModules /\ endData' = endData
      /\ order' = order /\ pc' = pc /\ i' = i + 1
      /\ pc = "sweep" /\ i <= Count /\ ~Stays(order[i])
      /\ buf' = Filled(ME, buf, S, IF E < MeLen THEN E ELSE MeLen)
      /\ UNCHANGED inputs
  BY DEF EraseModule, Start, End, inputs
<1>2. /\ i \in 1 .. Count /\ Count \in Nat /\ ~keepModules
      /\ S \in Nat /\ S >= dir.offset
      /\ E \in Nat /\ E <= dir.offset + Extent
      /\ dir.offset \in Nat /\ Extent \in Nat
  <2>1. /\ OffsetOf(order[i]) \in Nat /\ OffsetOf(order[i + 1]) \in Nat
        /\ OffsetOf(order[i + 1]) <= Extent /\ Extent \in Nat
        /\ dir.offset \in Nat /\ i \in 1 .. Count /\ Count \in Nat
        /\ ~keepModules
    BY <1>1, Turn
  <2>2. S \in Nat /\ S >= dir.offset /\ E \in Nat /\ E <= dir.offset + Extent
    BY <2>1
  <2> QED
    BY <2>1, <2>2
<1>2a. order \in [1 .. Count + 1 -> 0 .. Count] /\ Sorted(order)
  BY <1>1, Turn
<1>3. Count' = Count /\ Extent' = Extent
  BY <1>1, InputsDecide
<1>4. /\ DOMAIN buf = Addr /\ FF \notin Addr /\ (\A a \in Addr : a \in Int)
      /\ ME.start \in Nat /\ MeLen \in Nat /\ ME.end = ME.start + MeLen
  BY Types DEF TypeOK
<1> HIDE DEF S, E
<1>5. /\ buf' \in [Addr -> Addr \cup {FF}]
      /\ \A a \in Addr : buf'[a] = IF Hit(a) THEN FF ELSE buf[a]
  <2>1. \A a \in Addr :
          Within(ME, a, S, IF E < MeLen THEN E ELSE MeLen) <=> Hit(a)
    BY <1>2, <1>4 DEF Within
  <2>2. buf' = [a \in Addr |-> IF Hit(a) THEN FF ELSE buf[a]]
    BY <1>1, <1>4, <2>1 DEF Filled
  <2> HIDE DEF Hit
  <2> QED
    BY <2>2 DEF TypeOK
<1>6. TypeOK'
  BY <1>1, <1>2, <1>2a, <1>3, <1>5 DEF TypeOK
<1>7. Phase' /\ OrderInv'
  BY <1>1, <1>2, OrderStays DEF Phase, Ordered
<1>8. Framed'
  <2>1. \A a \in Addr : Hit(a) =>
          a < ME.end /\ Within(ME, a, dir.offset, dir.offset + Extent)
    <3> TAKE a \in Addr
    <3> HAVE Hit(a)
    <3>1. a \in Int
      BY <1>4
    <3> QED
      BY <1>2, <1>4, <3>1 DEF Within
  <2> HIDE DEF Hit
  <2>2. \A a \in Addr :
          \/ buf'[a] = a
          \/ /\ buf'[a] = FF /\ a < ME.end
             /\ Within(ME, a, dir.offset, dir.offset + Extent)
    BY <1>5, <2>1 DEF Framed
  <2> QED
    BY <1>1, <1>3, <2>2 DEF Framed, Within
<1>9. Swept'
  <2>1. Swept' <=>
          \A g \in 1 .. (i + 1) - 1 : ~Stays(order[g]) =>
            \A a \in Addr :
              (/\ a < ME.end
               /\ Within(ME, a, dir.offset + OffsetOf(order[g]),
                                dir.offset + OffsetOf(order[g + 1])))
              => buf'[a] = FF
    BY <1>1, <1>2 DEF Swept, Ordered, Stays, OffsetOf, Within
  <2>2. \A g \in 1 .. (i + 1) - 1 : g = i \/ g \in 1 .. i - 1
    BY <1>2
  <2>3. \A a \in Addr : Hit(a) => buf'[a] = FF
    BY <1>5
  <2>4. \A a \in Addr : buf[a] = FF => buf'[a] = FF
    BY <1>5
  <2>5. \A g \in 1 .. i - 1 : ~Stays(order[g]) =>
            \A a \in Addr :
              (/\ a < ME.end
               /\ Within(ME, a, dir.offset + OffsetOf(order[g]),
                                dir.offset + OffsetOf(order[g + 1])))
              => buf[a] = FF
    BY <1>1 DEF Swept, Ordered
  <2> QED
    BY <2>1, <2>2, <2>3, <2>4, <2>5 DEF S, E
<1>10. Covered'
  <2>1. \A g \in 1 .. (i + 1) - 1 : g = i \/ g \in 1 .. i - 1
    BY <1>2
  <2> QED
    BY <1>1, <1>2, <1>3, <2>1 DEF Covered, Ordered, Stays, OffsetOf
<1>11. \A m \in 1 .. Count : (Stays(m) /\ Apart(m)) =>
         \A a \in Addr : InModule(a, m) => ~Hit(a)
  <2> TAKE m \in 1 .. Count
  <2> HAVE Stays(m) /\ Apart(m)
  <2> TAKE a \in Addr
  <2> HAVE InModule(a, m)
  <2>1. PICK h \in 1 .. Count + 1 : order[h] = m
    <3>1. m \in 0 .. Count
      BY <1>2
    <3> QED
      BY <1>2a, <3>1, Listed DEF TypeOK
  <2>2. /\ OffsetOf(m) = dir.modules[m].offset
        /\ OffsetOf(m) \in Nat /\ DataEnd(m) \in Nat
    BY Types DEF TypeOK
  <2>3. /\ ME.start + dir.offset + OffsetOf(m) <= a
        /\ a < ME.start + dir.offset + DataEnd(m)
        /\ a \in Int
    <3>1. a \in Int
      BY <1>4
    <3>2. /\ ME.start + (dir.offset + OffsetOf(m)) <= a
          /\ a < ME.start + (dir.offset + DataEnd(m))
      BY <2>2 DEF InModule, Within
    <3> QED
      BY <1>2, <1>4, <2>2, <3>1, <3>2
  <2>4. order[i] \in 0 .. Count \ {m} /\ order[i + 1] \in 0 .. Count
    BY <1>1, <1>2, <1>2a
  <2>5. OffsetOf(order[i]) \in Nat /\ OffsetOf(order[i + 1]) \in Nat
    BY <1>1, Turn
  <2>6. \A g, k \in 1 .. Count + 1 :
          g <= k => OffsetOf(order[g]) <= OffsetOf(order[k])
    BY <1>2a, Listed DEF TypeOK
  <2>7. CASE h < i
    <3>1. OffsetOf(m) <= OffsetOf(order[i])
      BY <1>2, <2>1, <2>7, <2>6
    <3>2. OffsetOf(order[i]) >= DataEnd(m)
      BY <2>2, <2>4, <2>5, <3>1 DEF Apart
    <3> QED
      BY <1>2, <1>4, <2>2, <2>3, <2>5, <3>2 DEF Within, S
  <2>8. CASE h >= i + 1
    <3>1. OffsetOf(order[i + 1]) <= OffsetOf(m)
      BY <1>2, <2>1, <2>8, <2>6
    <3> QED
      BY <1>2, <1>4, <2>2, <2>3, <2>5, <3>1 DEF Within, E
  <2>9. h # i
    BY <1>1, <2>1
  <2> QED
    BY <1>2, <2>7, <2>8, <2>9
<1>12. (\A n \in 0 .. Count : OffsetOf(n) >= HEAD + Count * ENTRY) =>
         \A a \in Addr : InDirectory(a) => ~Hit(a)
  <2> HAVE \A n \in 0 .. Count : OffsetOf(n) >= HEAD + Count * ENTRY
  <2> TAKE a \in Addr
  <2> HAVE InDirectory(a)
  <2> DEFINE D == HEAD + Count * ENTRY
  <2>1. D \in Int
    BY Types DEF TypeOK
  <2>2. OffsetOf(order[i]) >= D /\ OffsetOf(order[i]) \in Nat
    BY <1>1, Turn
  <2>3. a \in Int /\ Within(ME, a, dir.offset, dir.offset + D)
    <3>1. HEAD \in Int /\ Count * ENTRY \in Int /\ dir.offset \in Int
      BY Types DEF TypeOK
    <3>2. dir.offset + HEAD + Count * ENTRY = dir.offset + D
      BY <3>1
    <3> QED
      BY <1>4, <3>2 DEF InDirectory
  <2> HIDE DEF D
  <2> QED
    BY <1>2, <1>4, <2>1, <2>2, <2>3 DEF Within, S
<1>13. KeptSurvives'
  <2>1. KeptSurvives' <=>
          /\ \A m \in 1 .. Count : (Stays(m) /\ Apart(m)) =>
               \A a \in Addr : InModule(a, m) => buf'[a] = a
          /\ (\A n \in 0 .. Count : OffsetOf(n) >= HEAD + Count * ENTRY) =>
               \A a \in Addr : InDirectory(a) => buf'[a] = a
    BY <1>1, InputsDecide DEF KeptSurvives
  <2> HIDE DEF Hit
  <2> QED
    BY <1>5, <1>11, <1>12, <2>1 DEF KeptSurvives
<1> QED
  BY <1>6, <1>7, <1>8, <1>9, <1>10, <1>13

\* The sweep ends, and a step that changes nothing keeps everything.
LEMMA FinishInv ==
  ASSUME IInv, Finish \/ UNCHANGED vars
  PROVE  IInv'
<1> USE DEF IInv
<1>1. /\ dir' = dir /\ keepModules' = keepModules /\ buf' = buf
      /\ order' = order /\ i' = i /\ endData' = endData
      /\ UNCHANGED inputs
      /\ \/ pc' = pc
         \/ pc = "sweep" /\ pc' = "done" /\ ~keepModules /\ i = Count + 1
  <2>1. CASE Finish
    <3>1. i \in 1 .. Count + 1 /\ Count \in Nat
      BY Types DEF TypeOK
    <3> QED
      BY <2>1, <3>1 DEF Finish, inputs, Phase
  <2>2. CASE UNCHANGED vars
    BY <2>2 DEF vars, inputs
  <2> QED
    BY <2>1, <2>2
<1>2. Count' = Count /\ Extent' = Extent
  BY <1>1, InputsDecide
<1>3. TypeOK' /\ Phase'
  BY <1>1, <1>2 DEF TypeOK, Phase, Image
<1>4. Framed' /\ KeptSurvives'
  BY <1>1, SameImage
<1>5. Ordered' => Ordered
  BY <1>1 DEF Ordered
<1>6. OrderInv' /\ Swept' /\ Covered'
  BY <1>1, <1>2, <1>5
     DEF OrderInv, Swept, Covered, Sorted, Before, OffsetOf, Stays, Within
<1> QED
  BY <1>3, <1>4, <1>6
-----------------------------------------------------------------------------
THEOREM Invariant == Spec => []IInv
<1>1. IInv /\ [Next]_vars => IInv'
  BY ReadInv, KeepInv, EraseInv, FinishInv DEF Next
<1> QED
  BY <1>1, InitInv, PTL DEF Spec

\* The variables keep their types, for every image and directory.
THEOREM TypeCorrect == Spec => []TypeOK
<1>1. IInv => TypeOK
  BY DEF IInv
<1> QED
  BY <1>1, Invariant, PTL

\* A module that has to stay, and the directory, are intact at every moment,
\* for every number of modules, in every order, at every place.
THEOREM KeptIntact == Spec => []KeptSurvives
<1>1. IInv => KeptSurvives
  BY DEF IInv
<1> QED
  BY <1>1, Invariant, PTL

\* The sweep has passed every entry: what a finished pass knows.
LEMMA Finished ==
  ASSUME IInv, pc = "done", ~keepModules
  PROVE  /\ \A m \in 0 .. Count : \E g \in 1 .. Count + 1 : order[g] = m
         /\ \A g, h \in 1 .. Count + 1 :
              /\ g < h => order[g] # order[h]
              /\ g <= h => OffsetOf(order[g]) <= OffsetOf(order[h])
         /\ \A g \in 1 .. Count + 1 :
              order[g] \in 0 .. Count /\ OffsetOf(order[g]) \in Nat
         /\ \A g \in 1 .. Count : ~Stays(order[g]) =>
              \A a \in Addr :
                (/\ a < ME.end
                 /\ Within(ME, a, dir.offset + OffsetOf(order[g]),
                                  dir.offset + OffsetOf(order[g + 1])))
                => buf[a] = FF
         /\ \A g \in 1 .. Count : Stays(order[g]) =>
              dir.offset + OffsetOf(order[g + 1]) <= endData
         /\ endData \in Nat
<1> USE DEF IInv
<1>1. Ordered /\ i = Count + 1 /\ dir \in Directory
  BY DEF Ordered, Phase, TypeOK
<1>2. order \in [1 .. Count + 1 -> 0 .. Count] /\ Sorted(order)
  BY <1>1 DEF OrderInv
<1>3. Count \in Nat /\ i - 1 = Count
  BY <1>1, Types
<1>4. /\ \A m \in 0 .. Count : \E g \in 1 .. Count + 1 : order[g] = m
      /\ \A g, h \in 1 .. Count + 1 :
           /\ g < h => order[g] # order[h]
           /\ g <= h => OffsetOf(order[g]) <= OffsetOf(order[h])
  BY <1>1, <1>2, Listed
<1>5. \A g \in 1 .. Count + 1 : order[g] \in 0 .. Count
  BY <1>2
<1>6. \A g \in 1 .. Count + 1 : OffsetOf(order[g]) \in Nat
  BY <1>1, <1>5, Types
<1>7. endData \in Nat
  BY <1>1 DEF Covered
<1>8. \A g \in 1 .. Count : Stays(order[g]) =>
        dir.offset + OffsetOf(order[g + 1]) <= endData
  BY <1>1, <1>3 DEF Covered
<1>9. \A g \in 1 .. Count : ~Stays(order[g]) =>
        \A a \in Addr :
          (/\ a < ME.end
           /\ Within(ME, a, dir.offset + OffsetOf(order[g]),
                            dir.offset + OffsetOf(order[g + 1])))
          => buf[a] = FF
  BY <1>1, <1>3 DEF Swept
<1> QED
  BY <1>4, <1>5, <1>6, <1>7, <1>8, <1>9

\* A module that need not stay ends before the next entry starts, and the next
\* entry is there, because the length of the partition comes behind it.
LEMMA StrippedGone ==
  ASSUME IInv
  PROVE  StrippedModulesGone
<1> SUFFICES ASSUME pc = "done", ~keepModules, Inside,
                    NEW m \in 1 .. Count, ~Stays(m), Apart(m),
                    NEW a \in Addr, InModule(a, m), a < ME.end
             PROVE  buf[a] = FF
  BY DEF StrippedModulesGone
<1>1. /\ dir \in Directory /\ Count \in Nat /\ a \in Int
      /\ dir.offset \in Nat /\ ME.start \in Nat
      /\ OffsetOf(m) = dir.modules[m].offset /\ OffsetOf(m) \in Nat
      /\ DataEnd(m) \in Nat /\ OffsetOf(0) = dir.length /\ OffsetOf(0) \in Nat
  BY Types DEF IInv, TypeOK
<1>2. m \in 0 .. Count /\ 0 \in 0 .. Count
  BY <1>1
<1>3. PICK g \in 1 .. Count + 1 : order[g] = m
  BY <1>2, Finished
<1>4. PICK p \in 1 .. Count + 1 : order[p] = 0
  BY <1>2, Finished
<1>5. g < p
  <2>1. OffsetOf(m) < OffsetOf(0)
    BY <1>1 DEF Inside
  <2>2. ~(p <= g)
    <3>1. p <= g => OffsetOf(order[p]) <= OffsetOf(order[g])
      BY Finished
    <3> QED
      BY <1>1, <1>3, <1>4, <2>1, <3>1
  <2> QED
    BY <1>1, <2>2
<1>6. g \in 1 .. Count /\ g + 1 \in 1 .. Count + 1 /\ g < g + 1
  BY <1>1, <1>5
<1>7. /\ order[g + 1] \in 0 .. Count /\ OffsetOf(order[g + 1]) \in Nat
      /\ order[g + 1] # m /\ OffsetOf(m) <= OffsetOf(order[g + 1])
  BY <1>3, <1>6, Finished
<1>8. OffsetOf(order[g + 1]) >= DataEnd(m)
  BY <1>1, <1>7 DEF Apart
<1>9. Within(ME, a, dir.offset + OffsetOf(order[g]),
                    dir.offset + OffsetOf(order[g + 1]))
  <2>1. /\ ME.start + (dir.offset + OffsetOf(m)) <= a
        /\ a < ME.start + (dir.offset + DataEnd(m))
    BY <1>1 DEF InModule, Within
  <2>2. a < ME.start + (dir.offset + OffsetOf(order[g + 1]))
    BY <1>1, <1>7, <1>8, <2>1
  <2> QED
    BY <1>3, <2>1, <2>2 DEF Within
<1> QED
  BY <1>3, <1>6, <1>9, Finished

\* A cell of a module behind the end returned lies between two entries, the
\* first of which is a module that was erased: were it one that stays, the end
\* would cover the cell.
LEMMA NothingBehind ==
  ASSUME IInv
  PROVE  NothingBehindEnd
<1> SUFFICES ASSUME pc = "done", NEW a \in Addr, a < ME.end,
                    Within(ME, a, endData, dir.offset + dir.length),
                    NEW m \in 1 .. Count, InModule(a, m)
             PROVE  buf[a] = FF
  BY DEF NothingBehindEnd
<1> DEFINE x == a - ME.start - dir.offset
<1>1. /\ dir \in Directory /\ Count \in Nat /\ a \in Int
      /\ dir.offset \in Nat /\ ME.start \in Nat
      /\ OffsetOf(m) = dir.modules[m].offset /\ OffsetOf(m) \in Nat
      /\ DataEnd(m) \in Nat /\ OffsetOf(0) = dir.length /\ OffsetOf(0) \in Nat
  BY Types DEF IInv, TypeOK
<1>2. CASE keepModules
  <2>1. endData = dir.offset + dir.length
    BY <1>2 DEF IInv, Phase
  <2> QED
    BY <1>1, <2>1 DEF Within
<1>3. CASE ~keepModules
  <2>1. m \in 0 .. Count /\ 0 \in 0 .. Count
    BY <1>1
  <2>2. PICK h \in 1 .. Count + 1 : order[h] = m
    BY <1>3, <2>1, Finished
  <2>3. PICK p \in 1 .. Count + 1 : order[p] = 0
    BY <1>3, <2>1, Finished
  <2>4. endData \in Nat /\ x \in Int /\ a = ME.start + dir.offset + x
    BY <1>1, <1>3, Finished
  <2>5. endData <= dir.offset + x /\ x < OffsetOf(0)
    BY <1>1, <2>4 DEF Within
  <2>6. OffsetOf(m) <= x
    BY <1>1 DEF InModule, Within
  <2> HIDE DEF x
  <2> DEFINE Later == {g \in 1 .. Count + 1 : OffsetOf(order[g]) > x}
  <2>7. PICK q \in Later : \A g \in Later : q <= g
    <3>1. p \in Later
      BY <1>1, <2>3, <2>4, <2>5
    <3>2. Later \in SUBSET Nat
      BY <1>1
    <3> HIDE DEF Later
    <3> QED
      BY <3>1, <3>2, LeastNumber
  <2>8. q \in 1 .. Count + 1 /\ OffsetOf(order[q]) > x
    OBVIOUS
  <2>9. q # 1
    <3>1. OffsetOf(order[1]) <= OffsetOf(order[h]) /\ OffsetOf(order[1]) \in Nat
      BY <1>1, <1>3, Finished
    <3> QED
      BY <1>1, <2>2, <2>4, <2>6, <2>8, <3>1
  <2>10. q - 1 \in 1 .. Count /\ q - 1 \in 1 .. Count + 1 /\ (q - 1) + 1 = q
    BY <1>1, <2>8, <2>9
  <2>11. OffsetOf(order[q - 1]) <= x /\ OffsetOf(order[q - 1]) \in Nat
    <3>1. q - 1 \notin Later
      BY <1>1, <2>7, <2>8
    <3>2. OffsetOf(order[q - 1]) \in Nat
      BY <1>3, <2>10, Finished
    <3> QED
      BY <2>4, <2>10, <3>1, <3>2
  <2>12. OffsetOf(order[q]) \in Nat
    BY <1>3, <2>8, Finished
  <2>13. ~Stays(order[q - 1])
    <3>1. Stays(order[q - 1]) => dir.offset + OffsetOf(order[q]) <= endData
      BY <1>3, <2>10, Finished
    <3> QED
      BY <1>1, <2>4, <2>5, <2>8, <2>12, <3>1
  <2>14. Within(ME, a, dir.offset + OffsetOf(order[q - 1]),
                       dir.offset + OffsetOf(order[q]))
    BY <1>1, <2>4, <2>8, <2>11, <2>12 DEF Within
  <2> QED
    BY <1>3, <2>10, <2>13, <2>14, Finished
<1> QED
  BY <1>2, <1>3

\* After the pass nothing is left of a module that need not stay.
THEOREM StrippedErased == Spec => []StrippedModulesGone
  BY Invariant, StrippedGone, PTL

\* No module that stays lies behind the end that is returned.
THEOREM EndCoversKept == Spec => []NothingBehindEnd
  BY Invariant, NothingBehind, PTL
-----------------------------------------------------------------------------
\* Up to the end of the sweep the pass has, as the partition stage sees it, not
\* begun; then it erases at once what the sweep erased bit by bit.
Outcome == IF pc \in {"done", "err"} THEN buf ELSE Image
Returned == IF pc = "done" THEN endData ELSE None
Status ==
  CASE pc = "done" -> "done" [] pc = "err" -> "failed" [] OTHER -> "called"

\* The cells of FTPR, as the contract counts them.
LEMMA FtprOfImage ==
  ASSUME Outcome = Image
  PROVE  Pass!FtprCells =
           {a \in Addr : a < ME.end /\ Within(ME, a, dir.offset, dir.offset + Extent)}
  BY DEF Outcome, Image, Pass!FtprCells, Pass!Within, Within

LEMMA StepRefines ==
  ASSUME IInv, IInv', [Next]_vars
  PROVE  [Pass!PassNext]_(Pass!mvars)
<1> USE DEF IInv
<1>1. ASSUME dir' = dir, Outcome' = Outcome, Returned' = Returned, Status' = Status
      PROVE  UNCHANGED Pass!mvars
  BY <1>1, InputsDecide DEF Pass!mvars, Outcome, Returned, Status
<1>2. ASSUME pc \in {"start", "sweep"}, dir' = dir, pc' \in {"done", "err"},
             NEW cells \in SUBSET Pass!FtprCells, buf' = Pass!Erased(Image, cells)
      PROVE  /\ Outcome = Image /\ Returned = None /\ Status = "called"
             /\ Outcome' = Pass!Erased(Outcome, cells)
             /\ Extent' = Extent
  BY <1>2, InputsDecide DEF Outcome, Returned, Status
<1>3. /\ dir \in Directory /\ dir.offset \in Nat /\ dir.length \in Nat
      /\ Extent \in Nat /\ OffsetOf(0) = dir.length /\ Count \in Nat
  BY Types, ExtentIsLargest DEF TypeOK
<1>4. Pass!Erased(Image, {}) = Image
  BY DEF Pass!Erased, Image
<1>5. CASE KeepModules
  <2>1. /\ pc = "start" /\ dir' = dir /\ pc' = "done" /\ buf' = Image
        /\ endData' = dir.offset + dir.length
    BY <1>5 DEF KeepModules, inputs, Phase
  <2>2. dir.offset + dir.length \in dir.offset .. dir.offset + Extent
    <3>1. OffsetOf(0) <= Extent
      BY <1>3, ExtentIsLargest
    <3> QED
      BY <1>3, <3>1
  <2>3. {} \in SUBSET Pass!FtprCells
    OBVIOUS
  <2>4. /\ Outcome = Image /\ Status = "called" /\ Extent' = Extent
        /\ Outcome' = Pass!Erased(Outcome, {})
    BY <1>2, <1>4, <2>1, <2>3
  <2>5. Pass!Strip
    BY <2>1, <2>2, <2>3, <2>4
       DEF Pass!Strip, Pass!Ends, Outcome, Status, Returned
  <2> QED
    BY <2>5 DEF Pass!PassNext
<1>6. CASE ReadFails
  <2>1. pc = "start" /\ dir' = dir /\ pc' = "err" /\ buf' = Image
    BY <1>6 DEF ReadFails, inputs, Phase
  <2>2. {} \in SUBSET Pass!FtprCells
    OBVIOUS
  <2>3. /\ Outcome = Image /\ Status = "called" /\ Extent' = Extent
        /\ Outcome' = Pass!Erased(Outcome, {})
    BY <1>2, <1>4, <2>1, <2>2
  <2>4. Pass!Fail
    BY <2>1, <2>2, <2>3 DEF Pass!Fail, Outcome, Status
  <2> QED
    BY <2>4 DEF Pass!PassNext
<1>7. CASE Finish
  <2> DEFINE cells == {a \in Addr : buf[a] = FF}
  <2>1. /\ pc = "sweep" /\ dir' = dir /\ pc' = "done" /\ buf' = buf
        /\ endData' = endData
    BY <1>7 DEF Finish, inputs
  <2>2. cells \in SUBSET Pass!FtprCells
    <3>1. \A a \in Addr : buf[a] = FF =>
            a < ME.end /\ Within(ME, a, dir.offset, dir.offset + Extent)
      BY Types DEF Framed, TypeOK
    <3>2. Outcome = Image
      BY <2>1 DEF Outcome
    <3> QED
      BY <3>1, <3>2, FtprOfImage
  <2>3. buf = Pass!Erased(Image, cells)
    <3>1. \A a \in Addr : buf[a] = IF a \in cells THEN FF ELSE a
      BY DEF Framed
    <3>2. Pass!Erased(Image, cells) = [a \in Addr |-> IF a \in cells THEN FF ELSE a]
      BY DEF Pass!Erased, Image
    <3> HIDE DEF cells
    <3>3. buf \in [Addr -> Addr \cup {FF}]
      BY DEF TypeOK
    <3> QED
      BY <3>1, <3>2, <3>3
  <2>4. endData \in {0} \cup dir.offset .. dir.offset + Extent
    BY <1>3, <2>1 DEF Covered, Ordered
  <2>5. /\ Outcome = Image /\ Status = "called" /\ Extent' = Extent
        /\ Outcome' = Pass!Erased(Outcome, cells)
    BY <1>2, <2>1, <2>2, <2>3
  <2> HIDE DEF cells
  <2>6. Pass!Strip
    BY <2>1, <2>2, <2>4, <2>5
       DEF Pass!Strip, Pass!Ends, Outcome, Status, Returned
  <2> QED
    BY <2>6 DEF Pass!PassNext
<1>8. CASE ReadDirectory \/ KeepModule \/ EraseModule
  BY <1>1, <1>8
     DEF ReadDirectory, KeepModule, EraseModule, inputs, Outcome, Returned, Status
<1>9. CASE UNCHANGED vars
  BY <1>1, <1>9 DEF vars, inputs, Outcome, Returned, Status, Image
<1> QED
  BY <1>5, <1>6, <1>7, <1>8, <1>9 DEF Next

\* The sweep implements the contract the partition stage relies on.
THEOREM RefinesPass == Spec => ImplementsPass
<1>1. Init => Pass!PassInit
  BY DEF Init, Pass!PassInit
<1>2. IInv /\ IInv' /\ [Next]_vars => [Pass!PassNext]_(Pass!mvars)
  BY StepRefines
<1> QED
  BY <1>1, <1>2, Invariant, PTL DEF Spec, ImplementsPass
=============================================================================
