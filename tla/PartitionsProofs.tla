-------------------------- MODULE PartitionsProofs ---------------------------
(***************************************************************************)
(* The partition stage for every image, table, list and option.            *)
(*                                                                         *)
(* The properties of the finished stage are not inductive: the invariant   *)
(* IInv adds what holds while the stage runs.  Up to the relocation every  *)
(* cell holds its own datum or is erased, so erasing the range of a        *)
(* partition erases all of it, and as the relocation only copies what is   *)
(* in the image, it brings nothing back.  The entries kept are the ones    *)
(* the lists retain, the slots hold exactly those, and because -r excludes *)
(* both lists, the one partition that is moved is named FTPR.              *)
(***************************************************************************)
EXTENDS Partitions, FiniteSetTheorems, WellFoundedInduction,
        SequenceTheorems, TLAPS

Header == [pre : Nat, num : Nat, effs : {0, 1}, other : Nat, cksum : Nat]

\* The steps before a relocation moves anything, and the steps after the
\* table has been rewritten.
Early == {"scan", "effs", "checksum", "modules", "relocate"}
Rewritten == {"effs", "checksum", "modules", "relocate", "move", "done"}

Inputs ==
  /\ table \in Tables /\ gen \in {2, 3}
  /\ opts.relocate => opts.white = {} /\ opts.black = {}
  /\ hdr \in Header

Phase ==
  /\ pc \in Early => move.size = 0 /\ ftprOffset = FtprStart(table)
  /\ pc \in Early \ {"relocate"} => end = None
  /\ pc \in {"relocate", "move"} => end \in Int
  /\ pc = "relocate" => end >= 0
  /\ pc \in Rewritten => k = Len(table) + 1 /\ hdr.num = Len(kept)

KeptInv ==
  /\ Len(kept) < k
  /\ \A j \in DOMAIN kept :
       /\ Retained(kept[j])
       /\ table[kept[j]].name # "FTPR" => PartEnd(kept[j]) <= extraEnd

SlotsInv ==
  pc \in Rewritten =>
    \A j \in DOMAIN table :
      /\ j > Len(kept) => slots[j] = FF
      /\ j <= Len(kept) =>
           /\ slots[j] \in [entry : DOMAIN table, start : Nat]
           /\ slots[j].entry = kept[j]
           /\ \/ slots[j].start = PartStart(kept[j])
              \/ pc \in {"move", "done"} /\ opts.relocate

EffsInv == hdr.effs = 1 \/ EffsDropped

SumInv ==
  (pc \in {"modules", "relocate", "move", "done"} /\ (gen = 3 \/ ~atZero)) =>
    (SumOf(hdr) + hdr.cksum) % CheckMod = 0

EndInv ==
  (pc = "done" /\ end # None) => opts.relocate \/ extraEnd <= end

MoveInv ==
  pc = "move" =>
    /\ opts.relocate
    /\ Check(ME, move.from, move.size) /\ Check(ME, move.to, move.size)
    /\ \E j \in DOMAIN table :
         /\ table[j].name = "FTPR"
         /\ move.from = PartStart(j) /\ move.size <= PartLength(j)

InPlace == pc \in Early => \A a \in Addr : buf[a] = a \/ buf[a] = FF

Gone(j) ==
  \A a, d \in Addr : buf[a] = d => ~Within(ME, d, PartStart(j), PartEnd(j))
ErasedInv == \A j \in DOMAIN table : j < k /\ Removed(j) => Gone(j)

IInv ==
  /\ TypeOK /\ Inputs /\ Phase /\ KeptInv /\ SlotsInv /\ EffsInv /\ SumInv
  /\ EndInv /\ MoveInv /\ InPlace /\ ErasedInv /\ OnlyRemovedDataLost
-----------------------------------------------------------------------------
Less == {p \in Nat \X Nat : p[1] < p[2]}

\* The least-number principle for sets.
LEMMA LeastNumber ==
  ASSUME NEW S \in SUBSET Nat, S # {}
  PROVE  \E x \in S : \A y \in S : x <= y
<1>1. IsWellFoundedOn(Less, Nat)
  BY NatLessThanWellFounded, Zenon DEF OpToRel, Less
<1>2. \E x \in S : \A y \in S : <<y, x>> \notin Less
  <2> HIDE DEF Less
  <2> QED
    BY <1>1, WFMin
<1>3. PICK x \in S : \A y \in S : <<y, x>> \notin Less
  BY <1>2
<1>4. \A y \in S : ~(y < x)
  BY <1>3 DEF Less
<1> QED
  BY <1>3, <1>4

\* A table is a sequence of entries.
LEMMA TableType ==
  ASSUME NEW t \in Tables
  PROVE  /\ t \in Seq(Entry) /\ Len(t) \in Nat /\ DOMAIN t = 1 .. Len(t)
         /\ 1 \in DOMAIN t
         /\ \A j \in DOMAIN t : t[j] \in Entry
  BY TablesAssumption

\* Where FTPR is, of whatever length, is a range of offsets.
LEMMA FtprType ==
  ASSUME NEW t \in Tables
  PROVE  FtprStart(t) \in Nat /\ FtprLength(t) \in Nat /\ FtprExtent(t) \in Nat
<1>1. CASE Listed(t)
  <2> DEFINE S == {j \in DOMAIN t : t[j].name \in FtprNames}
  <2>1. S \in SUBSET Nat /\ S # {}
    BY <1>1, TableType DEF Listed, Names
  <2>2. PICK x \in S : \A y \in S : x <= y
    BY <2>1, LeastNumber
  <2>3. \A h \in 1 .. x - 1 : t[h].name \notin FtprNames
    BY <2>1, <2>2, TableType
  <2>4. FirstFtpr(t) \in DOMAIN t
    BY <2>2, <2>3 DEF FirstFtpr
  <2> QED
    BY <1>1, <2>4, TableType DEF FtprStart, FtprLength, FtprExtent, Entry
<1>2. CASE ~Listed(t)
  BY <1>2, OffsetsAssumption DEF FtprStart, FtprLength, FtprExtent
<1> QED
  BY <1>1, <1>2
-----------------------------------------------------------------------------
\* What a partition is, and which lists keep it, depends on the inputs only.
LEMMA InputsDecide ==
  ASSUME UNCHANGED inputs
  PROVE  /\ \A j : /\ PartStart(j)' = PartStart(j)
                   /\ PartLength(j)' = PartLength(j)
                   /\ PartEnd(j)' = PartEnd(j)
                   /\ Removed(j)' <=> Removed(j)
                   /\ Retained(j)' <=> Retained(j)
         /\ EffsDropped' <=> EffsDropped
         /\ \A a : InRemoved(a)' <=> InRemoved(a)
         /\ \A a : InFtpr(a)' <=> InFtpr(a)
<1> USE DEF inputs
<1>1. /\ table' = table /\ opts' = opts /\ me6' = me6
      /\ \A j : OpenEnded(j)' <=> OpenEnded(j)
  BY DEF OpenEnded
<1>2. \A j : /\ PartStart(j)' = PartStart(j)
             /\ PartLength(j)' = PartLength(j)
             /\ PartEnd(j)' = PartEnd(j)
             /\ HasData(j)' <=> HasData(j)
  BY <1>1 DEF PartStart, PartLength, PartEnd, HasData
<1>3. /\ \A name : Keep(name)' <=> Keep(name)
      /\ EffsDropped' <=> EffsDropped
  BY <1>1 DEF Keep, EffsDropped
<1>4. \A j : /\ Removed(j)' <=> Removed(j)
             /\ Retained(j)' <=> Retained(j)
  BY <1>1, <1>2, <1>3 DEF Removed, Retained
<1>5. /\ \A a : InRemoved(a)' <=> InRemoved(a)
      /\ \A a : InFtpr(a)' <=> InFtpr(a)
  BY <1>1, <1>2, <1>4 DEF InRemoved, InFtpr
<1> QED
  BY <1>2, <1>3, <1>4, <1>5

\* Offsets of partitions are numbers; one that has data ends in the region.
LEMMA PartitionType ==
  ASSUME table \in Tables, NEW j \in DOMAIN table
  PROVE  /\ PartStart(j) \in Nat /\ PartLength(j) \in Int /\ PartEnd(j) \in Int
         /\ HasData(j) => PartEnd(j) \in 0 .. MeLen
<1>1. table[j].start \in Nat /\ table[j].length \in Nat
  BY TableType DEF Entry
<1>2. MeLen \in Nat
  BY ImageAssumption DEF MeLen, RegionLen
<1> QED
  BY <1>1, <1>2 DEF PartStart, PartLength, PartEnd, HasData

\* With -r, which excludes both lists, only FTPR is kept.
LEMMA OnlyFtprWithRelocate ==
  ASSUME Inputs, opts.relocate, NEW j, Retained(j)
  PROVE  table[j].name = "FTPR"
  BY DEF Inputs, Retained, Keep

\* The stage starts in the invariant.
LEMMA InitInv == Init => IInv
<1> SUFFICES ASSUME Init PROVE IInv
  OBVIOUS
<1>1. /\ table \in Tables /\ Len(table) \in Nat /\ DOMAIN table = 1 .. Len(table)
      /\ table \in Seq(Entry)
      /\ \A j \in DOMAIN table : table[j] \in Entry
  BY TableType DEF Init
<1>2. MeLen \in Nat
  BY ImageAssumption DEF MeLen, RegionLen
<1>3. hdr \in Header
  BY CheckAssumption DEF Init, Header
<1>4. TypeOK
  <2>1. SlotsOK
    BY <1>1 DEF SlotsOK, Init, Entry
  <2>2. ftprOffset \in Nat
    BY <1>1, FtprType DEF Init
  <2>3. kept \in Seq(DOMAIN table) /\ k \in 1 .. Len(table) + 1
    BY <1>1 DEF Init
  <2> QED
    BY <1>1, <1>2, <2>1, <2>2, <2>3 DEF TypeOK, Init, Image, Addr
<1>5. Inputs /\ Phase /\ KeptInv /\ SlotsInv /\ SumInv /\ EndInv /\ MoveInv
  BY <1>1, <1>3
     DEF Init, Inputs, Phase, KeptInv, SlotsInv, SumInv, EndInv, MoveInv,
         Early, Rewritten
<1>6. EffsInv
  BY CheckAssumption DEF Init, EffsInv
<1>7. InPlace /\ ErasedInv /\ OnlyRemovedDataLost
  BY <1>1 DEF Init, Image, InPlace, ErasedInv, OnlyRemovedDataLost
<1> QED
  BY <1>4, <1>5, <1>6, <1>7 DEF IInv
-----------------------------------------------------------------------------
\* The facts about types that the steps below rest on.
LEMMA Types ==
  ASSUME IInv
  PROVE  /\ table \in Tables /\ Len(table) \in Nat /\ Len(table) >= 1
         /\ DOMAIN table = 1 .. Len(table) /\ DOMAIN slots = DOMAIN table
         /\ k \in 1 .. Len(table) + 1
         /\ kept \in Seq(DOMAIN table) /\ Len(kept) \in Nat
         /\ DOMAIN kept = 1 .. Len(kept)
         /\ buf \in [Addr -> Addr \cup {FF}] /\ FF \notin Addr
         /\ MeLen \in Nat /\ ME.start \in Nat
<1>1. MeLen \in Nat /\ ME.start \in Nat
  BY ImageAssumption DEF MeLen, RegionLen
<1>2. FF \notin Addr
  BY ErasedAssumption, ImageAssumption DEF Addr
<1>3. table \in Tables
  BY DEF IInv, TypeOK
<1> QED
  BY <1>1, <1>2, <1>3, TableType DEF IInv, TypeOK, SlotsOK

\* A step that leaves the image and the move alone loses nothing, and a step
\* that only puts into a cell what was in some cell, or erases it, brings
\* nothing of an erased partition back.
LEMMA FrameSame ==
  ASSUME OnlyRemovedDataLost, UNCHANGED <<buf, inputs, move>>
  PROVE  OnlyRemovedDataLost'
  BY InputsDecide DEF OnlyRemovedDataLost, InTarget

LEMMA GoneStays ==
  ASSUME UNCHANGED inputs, NEW j, Gone(j),
         \A a \in Addr : buf'[a] = FF \/ \E b \in Addr : buf'[a] = buf[b],
         FF \notin Addr
  PROVE  Gone(j)'
  BY InputsDecide DEF Gone

\* A partition that is skipped changes nothing but the loop counter.
LEMMA SkipInv ==
  ASSUME IInv, ScanPanic \/ SkipNvram \/ SkipNoData
  PROVE  IInv'
<1> USE DEF IInv
<1>1. /\ UNCHANGED <<buf, inputs, kept, extraEnd, slots, hdr, ftprOffset, end,
                     move>>
      /\ pc = "scan" /\ k <= Len(table)
      /\ \/ k' = k /\ pc' = "panic"
         \/ k' = k + 1 /\ pc' = "scan" /\ ~Removed(k)
  BY DEF ScanPanic, SkipNvram, SkipNoData, Scanning, Removed
<1>2. /\ table' = table /\ opts' = opts /\ gen' = gen /\ me6' = me6
      /\ atZero' = atZero
  BY <1>1 DEF inputs
<1>3. k' \in 1 .. Len(table)' + 1
  BY <1>1, <1>2, Types
<1>4. TypeOK'
  BY <1>1, <1>2, <1>3 DEF TypeOK, SlotsOK
<1>5. Inputs' /\ Phase' /\ SlotsInv' /\ SumInv' /\ EndInv' /\ MoveInv'
  BY <1>1, <1>2
     DEF Inputs, Phase, SlotsInv, SumInv, EndInv, MoveInv, Early, Rewritten
<1>6. KeptInv'
  BY <1>1, <1>2, Types, InputsDecide DEF KeptInv
<1>7. EffsInv'
  BY <1>1, <1>2, InputsDecide DEF EffsInv
<1>8. InPlace' /\ OnlyRemovedDataLost'
  BY <1>1, FrameSame DEF InPlace, Early
<1>9. ErasedInv'
  <2>1. \A j : Gone(j)' <=> Gone(j)
    BY <1>1, InputsDecide DEF Gone
  <2> QED
    BY <1>1, <1>2, <2>1, Types, InputsDecide DEF ErasedInv
<1> QED
  BY <1>4, <1>5, <1>6, <1>7, <1>8, <1>9

\* An entry that is kept is retained, and the end behind it is remembered.
LEMMA KeepInv ==
  ASSUME IInv, KeepPartition
  PROVE  IInv'
<1> USE DEF IInv
<1>1. /\ UNCHANGED <<buf, inputs, slots, hdr, ftprOffset, end, pc, move>>
      /\ pc = "scan" /\ k <= Len(table) /\ Retained(k)
      /\ kept' = Append(kept, k) /\ k' = k + 1
      /\ extraEnd' = IF table[k].name # "FTPR" /\ PartEnd(k) > extraEnd
                       THEN PartEnd(k) ELSE extraEnd
  BY DEF KeepPartition, Scanning
<1>2. /\ table' = table /\ opts' = opts /\ gen' = gen /\ me6' = me6
      /\ atZero' = atZero
  BY <1>1 DEF inputs
<1>3. k \in DOMAIN table /\ PartEnd(k) \in 0 .. MeLen /\ ~Removed(k)
  <2>1. k \in DOMAIN table
    BY <1>1, Types
  <2> QED
    BY <1>1, <2>1, PartitionType, Types DEF Retained, Removed
<1>4. TypeOK'
  <2>1. extraEnd' \in 0 .. MeLen /\ k' \in 1 .. Len(table) + 1
    BY SMTT(30), <1>1, <1>3, Types DEF TypeOK
  <2>2. kept' \in Seq(DOMAIN table)
    BY <1>1, <1>3, Types
  <2> QED
    BY <1>1, <1>2, <2>1, <2>2 DEF TypeOK, SlotsOK
<1>5. Inputs' /\ Phase' /\ SlotsInv' /\ SumInv' /\ EndInv' /\ MoveInv'
  BY <1>1, <1>2
     DEF Inputs, Phase, SlotsInv, SumInv, EndInv, MoveInv, Early, Rewritten
<1>6. KeptInv'
  <2>1. /\ Len(kept') = Len(kept) + 1 /\ DOMAIN kept' = 1 .. Len(kept) + 1
        /\ kept'[Len(kept) + 1] = k
        /\ \A j \in DOMAIN kept : kept'[j] = kept[j] /\ kept[j] \in DOMAIN table
    BY <1>1, <1>3, Types
  <2>2. \A j \in DOMAIN kept : PartEnd(kept[j]) \in Int
    BY <2>1, Types, PartitionType
  <2>3. ASSUME NEW j \in DOMAIN kept'
        PROVE  /\ Retained(kept'[j])
               /\ table[kept'[j]].name # "FTPR" => PartEnd(kept'[j]) <= extraEnd'
    <3>1. extraEnd \in Int /\ extraEnd' \in Int /\ extraEnd <= extraEnd'
      BY <1>1, <1>3, Types DEF TypeOK
    <3>2. CASE j \in DOMAIN kept
      <4>1. kept'[j] = kept[j] /\ PartEnd(kept[j]) \in Int
        BY <2>1, <2>2, <3>2
      <4>2. /\ Retained(kept[j])
            /\ table[kept[j]].name # "FTPR" => PartEnd(kept[j]) <= extraEnd
        BY <3>2 DEF KeptInv
      <4> QED
        BY <3>1, <4>1, <4>2
    <3>3. CASE j = Len(kept) + 1
      <4>1. kept'[j] = k
        BY <2>1, <3>3
      <4>2. PartEnd(k) \in Int
        BY <1>3
      <4> QED
        BY <1>1, <3>1, <4>1, <4>2
    <3> QED
      BY <2>1, <3>2, <3>3, Types
  <2>4. Len(kept') < k'
    BY <1>1, <2>1, Types DEF KeptInv
  <2> QED
    BY <1>1, <1>2, <2>3, <2>4, InputsDecide DEF KeptInv
<1>7. EffsInv'
  BY <1>1, <1>2, InputsDecide DEF EffsInv
<1>8. InPlace' /\ OnlyRemovedDataLost'
  BY <1>1, FrameSame DEF InPlace, Early
<1>9. ErasedInv'
  <2>1. \A j : Gone(j)' <=> Gone(j)
    BY <1>1, InputsDecide DEF Gone
  <2> QED
    BY <1>1, <1>2, <1>3, <2>1, Types, InputsDecide DEF ErasedInv
<1> QED
  BY <1>4, <1>5, <1>6, <1>7, <1>8, <1>9

\* Erasing the range of a partition erases its data: every cell still holds
\* its own datum, so the partition's data is nowhere else.
LEMMA RemoveInv ==
  ASSUME IInv, RemovePartition
  PROVE  IInv'
<1> USE DEF IInv
<1>1. /\ UNCHANGED <<inputs, kept, extraEnd, slots, hdr, ftprOffset, end, pc,
                     move>>
      /\ pc = "scan" /\ k <= Len(table) /\ Removed(k) /\ k' = k + 1
      /\ buf' = Filled(ME, buf, PartStart(k), PartEnd(k))
  BY DEF RemovePartition, Scanning
<1>2. /\ table' = table /\ opts' = opts /\ gen' = gen /\ me6' = me6
      /\ atZero' = atZero
  BY <1>1 DEF inputs
<1>3. /\ DOMAIN buf' = Addr
      /\ buf' \in [Addr -> Addr \cup {FF}]
      /\ \A a \in Addr : buf'[a] = IF Within(ME, a, PartStart(k), PartEnd(k))
                                     THEN FF ELSE buf[a]
  BY <1>1, Types DEF Filled
<1>4. TypeOK'
  <2>1. k' \in 1 .. Len(table) + 1
    BY <1>1, Types
  <2> QED
    BY <1>1, <1>2, <1>3, <2>1 DEF TypeOK, SlotsOK
<1>5. Inputs' /\ Phase' /\ SlotsInv' /\ SumInv' /\ EndInv' /\ MoveInv'
  BY <1>1, <1>2
     DEF Inputs, Phase, SlotsInv, SumInv, EndInv, MoveInv, Early, Rewritten
<1>6. KeptInv'
  BY <1>1, <1>2, Types, InputsDecide DEF KeptInv
<1>7. EffsInv'
  BY <1>1, <1>2, InputsDecide DEF EffsInv
<1>8. InPlace'
  BY <1>1, <1>3 DEF InPlace, Early
<1>9. ErasedInv'
  <2>1. ASSUME NEW j, j = k PROVE Gone(j)'
    <3>1. \A a \in Addr : buf[a] = a \/ buf[a] = FF
      BY <1>1 DEF InPlace, Early
    <3>2. \A a, d \in Addr :
            buf'[a] = d => ~Within(ME, d, PartStart(j), PartEnd(j))
      <4> SUFFICES ASSUME NEW a \in Addr, NEW d \in Addr, buf'[a] = d
                   PROVE  ~Within(ME, d, PartStart(j), PartEnd(j))
        OBVIOUS
      <4>1. d # FF
        BY Types
      <4>2. ~Within(ME, a, PartStart(k), PartEnd(k)) /\ buf[a] = d
        BY <1>3, <4>1
      <4>3. d = a
        BY <3>1, <4>1, <4>2
      <4> QED
        BY <2>1, <4>2, <4>3
    <3> QED
      BY <1>1, <3>2, InputsDecide DEF Gone
  <2>2. ASSUME NEW j, Gone(j) PROVE Gone(j)'
    <3>1. \A a \in Addr : buf'[a] = FF \/ \E b \in Addr : buf'[a] = buf[b]
      BY <1>3
    <3> QED
      BY <1>1, <2>2, <3>1, GoneStays, Types
  <2>3. ASSUME NEW j \in DOMAIN table, j < k + 1, Removed(j)
        PROVE  Gone(j)'
    <3>1. CASE j < k
      BY <2>2, <2>3, <3>1 DEF ErasedInv
    <3>2. CASE j = k
      BY <2>1, <3>2
    <3> QED
      BY <2>3, <3>1, <3>2, Types
  <2> QED
    BY <1>1, <1>2, <2>3, InputsDecide DEF ErasedInv
<1>10. OnlyRemovedDataLost'
  <2>1. k \in DOMAIN table
    BY <1>1, Types
  <2>2. \A a : InTarget(a)' <=> InTarget(a)
    BY <1>1 DEF InTarget
  <2>3. ASSUME NEW a \in Addr
        PROVE  InRemoved(a) \/ InFtpr(a) \/ InTarget(a) \/ buf'[a] = a
    <3>1. CASE Within(ME, a, PartStart(k), PartEnd(k))
      BY <1>1, <2>1, <3>1 DEF InRemoved
    <3>2. CASE ~Within(ME, a, PartStart(k), PartEnd(k))
      BY <1>3, <3>2 DEF OnlyRemovedDataLost
    <3> QED
      BY <3>1, <3>2
  <2> QED
    BY <1>1, <2>2, <2>3, InputsDecide DEF OnlyRemovedDataLost
<1> QED
  BY <1>4, <1>5, <1>6, <1>7, <1>8, <1>9, <1>10
-----------------------------------------------------------------------------
\* The rewritten table lists the entries that were kept, each at its start.
LEMMA RewriteInv ==
  ASSUME IInv, RewriteTable
  PROVE  IInv'
<1> USE DEF IInv
<1>1. /\ UNCHANGED <<buf, inputs, k, kept, extraEnd, ftprOffset, end, move>>
      /\ pc = "scan" /\ k > Len(table) /\ pc' = "effs"
      /\ slots' = [j \in DOMAIN table |->
                     IF j <= Len(kept)
                       THEN [entry |-> kept[j], start |-> table[kept[j]].start]
                       ELSE FF]
      /\ hdr' = [hdr EXCEPT !.num = Len(kept)]
  BY DEF RewriteTable
<1>2. /\ table' = table /\ opts' = opts /\ gen' = gen /\ me6' = me6
      /\ atZero' = atZero
  BY <1>1 DEF inputs
<1>3. /\ k = Len(table) + 1 /\ Len(kept) <= Len(table)
      /\ \A j \in DOMAIN table :
           j <= Len(kept) => /\ j \in DOMAIN kept /\ kept[j] \in DOMAIN table
                             /\ table[kept[j]].start \in Nat
  <2>1. k = Len(table) + 1 /\ Len(kept) <= Len(table)
    BY <1>1, Types DEF KeptInv
  <2>2. \A j \in DOMAIN kept : kept[j] \in DOMAIN table
    BY Types
  <2>3. \A j \in DOMAIN table : table[j].start \in Nat
    BY Types, TableType DEF Entry
  <2> QED
    BY <2>1, <2>2, <2>3, Types
<1>4. TypeOK'
  <2>1. SlotsOK'
    BY <1>1, <1>2, <1>3 DEF SlotsOK
  <2> QED
    BY <1>1, <1>2, <2>1 DEF TypeOK
<1>5. hdr' \in Header /\ hdr'.num = Len(kept) /\ hdr'.effs = hdr.effs
  BY <1>1, Types DEF Inputs, Header
<1>6. Inputs' /\ Phase' /\ SumInv' /\ EndInv' /\ MoveInv'
  BY <1>1, <1>2, <1>3, <1>5
     DEF Inputs, Phase, SumInv, EndInv, MoveInv, Early, Rewritten
<1>7. SlotsInv'
  BY <1>1, <1>2, <1>3 DEF SlotsInv, PartStart
<1>8. KeptInv'
  BY <1>1, <1>2, InputsDecide DEF KeptInv
<1>9. EffsInv'
  BY <1>1, <1>5, InputsDecide DEF EffsInv
<1>10. InPlace' /\ OnlyRemovedDataLost'
  BY <1>1, FrameSame DEF InPlace, Early
<1>11. ErasedInv'
  BY <1>1, <1>2, InputsDecide DEF ErasedInv, Gone
<1> QED
  BY <1>4, <1>6, <1>7, <1>8, <1>9, <1>10, <1>11

\* The presence flag goes only if the lists drop EFFS, and the checksum is
\* computed over the header as it then stays.
LEMMA HeaderInv ==
  ASSUME IInv, ClearEffs \/ FixChecksum
  PROVE  IInv'
<1> USE DEF IInv
<1>1. /\ UNCHANGED <<buf, inputs, k, kept, extraEnd, slots, ftprOffset, end,
                     move>>
      /\ \/ pc = "effs" /\ pc' = "checksum"
         \/ pc = "checksum" /\ pc' = "modules"
  BY DEF ClearEffs, FixChecksum
<1>2. /\ table' = table /\ opts' = opts /\ gen' = gen /\ me6' = me6
      /\ atZero' = atZero
  BY <1>1 DEF inputs
<1>3. /\ hdr' \in Header /\ hdr'.num = hdr.num
      /\ hdr'.effs = hdr.effs \/ EffsDropped
      /\ pc' = "modules" /\ (gen = 3 \/ ~atZero)
           => (SumOf(hdr') + hdr'.cksum) % CheckMod = 0
  <2>1. CASE ClearEffs
    BY <2>1 DEF ClearEffs, Inputs, Header
  <2>2. CASE FixChecksum
    <3>1. PICK c \in 0 .. CheckMod - 1 :
            /\ (gen = 3 \/ ~atZero) => (SumOf(hdr) + c) % CheckMod = 0
            /\ hdr' = [hdr EXCEPT !.cksum = c]
      BY <2>2 DEF FixChecksum
    <3>2. c \in Nat
      BY CheckAssumption
    <3>3. /\ hdr' \in Header /\ hdr'.cksum = c /\ hdr'.num = hdr.num
          /\ hdr'.effs = hdr.effs
          /\ hdr'.other = hdr.other /\ hdr'.pre = hdr.pre
      BY <3>1, <3>2 DEF Inputs, Header
    <3>4. SumOf(hdr') = SumOf(hdr)
      BY <3>3 DEF SumOf
    <3> QED
      BY <3>1, <3>3, <3>4
  <2> QED
    BY <2>1, <2>2
<1>4. TypeOK' /\ Inputs' /\ Phase' /\ EndInv' /\ MoveInv'
  BY <1>1, <1>2, <1>3
     DEF TypeOK, SlotsOK, Inputs, Phase, EndInv, MoveInv, Early, Rewritten
<1>5. SumInv'
  BY <1>1, <1>2, <1>3 DEF SumInv, SumOf
<1>6. SlotsInv'
  BY <1>1, <1>2, InputsDecide DEF SlotsInv, Rewritten
<1>7. KeptInv'
  BY <1>1, <1>2, InputsDecide DEF KeptInv
<1>8. EffsInv'
  BY <1>1, <1>3, InputsDecide DEF EffsInv
<1>9. InPlace' /\ OnlyRemovedDataLost'
  BY <1>1, FrameSame DEF InPlace, Early
<1>10. ErasedInv'
  BY <1>1, <1>2, InputsDecide DEF ErasedInv, Gone
<1> QED
  BY <1>4, <1>5, <1>6, <1>7, <1>8, <1>9, <1>10
-----------------------------------------------------------------------------
\* The module pass erases nothing or modules of FTPR, in place.
LEMMA ModulesInv ==
  ASSUME IInv, ModulesUnknown \/ ModulesFail \/ KeepModules \/ StripModules
  PROVE  IInv'
<1> USE DEF IInv
<1>1. /\ UNCHANGED <<inputs, k, kept, extraEnd, slots, hdr, ftprOffset, move>>
      /\ pc = "modules"
      /\ \/ pc' \in {"done", "err", "panic"} /\ end' = end
         \/ pc' = "relocate" /\ end' \in Nat
      /\ \/ buf' = buf
         \/ \E cells \in SUBSET FtprCells : buf' = Erased(buf, cells)
  <2>1. /\ ftprOffset \in Nat /\ FtprLength(table) \in Nat
        /\ FtprExtent(table) \in Nat
    BY Types, FtprType DEF TypeOK
  <2>2. CASE ModulesUnknown \/ ModulesFail
    BY <2>2 DEF ModulesUnknown, ModulesFail
  <2>3. CASE KeepModules
    BY <2>1, <2>3 DEF KeepModules
  <2>4. CASE StripModules
    BY <2>1, <2>4 DEF StripModules
  <2> QED
    BY <2>2, <2>3, <2>4
<1>2. /\ table' = table /\ opts' = opts /\ gen' = gen /\ me6' = me6
      /\ atZero' = atZero
  BY <1>1 DEF inputs
<1>3. /\ buf' \in [Addr -> Addr \cup {FF}]
      /\ \A a \in Addr : \/ buf'[a] = buf[a]
                         \/ buf'[a] = FF /\ InFtpr(a)
  <2>1. CASE buf' = buf
    BY <2>1, Types
  <2>2. ASSUME NEW cells \in SUBSET FtprCells, buf' = Erased(buf, cells)
        PROVE  /\ buf' \in [Addr -> Addr \cup {FF}]
               /\ \A a \in Addr : \/ buf'[a] = buf[a]
                                  \/ buf'[a] = FF /\ InFtpr(a)
    <3>1. /\ buf' \in [Addr -> Addr \cup {FF}]
          /\ \A a \in Addr : buf'[a] = IF a \in cells THEN FF ELSE buf[a]
      BY <2>2, Types DEF Erased
    <3>2. \A a \in cells : InFtpr(a)
      BY DEF FtprCells, InFtpr
    <3> QED
      BY <3>1, <3>2
  <2> QED
    BY <1>1, <2>1, <2>2
<1>4. TypeOK'
  BY <1>1, <1>2, <1>3 DEF TypeOK, SlotsOK
<1>5. Inputs' /\ Phase' /\ SumInv' /\ MoveInv'
  BY <1>1, <1>2
     DEF Inputs, Phase, SumInv, SumOf, MoveInv, Early, Rewritten
<1>6. EndInv'
  BY <1>1 DEF EndInv, Phase, Early
<1>7. SlotsInv'
  BY <1>1, <1>2, InputsDecide DEF SlotsInv, Rewritten
<1>8. KeptInv' /\ EffsInv'
  BY <1>1, <1>2, InputsDecide DEF KeptInv, EffsInv
<1>9. InPlace'
  BY <1>1, <1>3 DEF InPlace, Early
<1>10. ErasedInv'
  <2>1. \A a \in Addr : buf'[a] = FF \/ \E b \in Addr : buf'[a] = buf[b]
    BY <1>3
  <2>2. ASSUME NEW j, Gone(j) PROVE Gone(j)'
    BY <1>1, <2>1, <2>2, GoneStays, Types
  <2> QED
    BY <1>1, <1>2, <2>2, InputsDecide DEF ErasedInv
<1>11. OnlyRemovedDataLost'
  <2>1. \A a : InTarget(a)' <=> InTarget(a)
    BY <1>1 DEF InTarget
  <2> QED
    BY <1>1, <1>3, <2>1, InputsDecide DEF OnlyRemovedDataLost
<1> QED
  BY <1>4, <1>5, <1>6, <1>7, <1>8, <1>9, <1>10, <1>11
-----------------------------------------------------------------------------
\* Without -r the end is raised over the partitions kept besides FTPR.
LEMMA StayInv ==
  ASSUME IInv, StayInPlace
  PROVE  IInv'
<1> USE DEF IInv
<1>1. /\ UNCHANGED <<buf, inputs, k, kept, extraEnd, slots, hdr, ftprOffset,
                     move>>
      /\ pc = "relocate" /\ pc' = "done" /\ ~opts.relocate
      /\ end' = ResultEnd(end)
  BY DEF StayInPlace
<1>2. /\ table' = table /\ opts' = opts /\ gen' = gen /\ me6' = me6
      /\ atZero' = atZero
  BY <1>1 DEF inputs
<1>3. end' \in Int /\ extraEnd <= end'
  BY <1>1, Types DEF ResultEnd, Phase, TypeOK
<1>4. TypeOK' /\ Inputs' /\ Phase' /\ SumInv' /\ EndInv' /\ MoveInv'
  BY <1>1, <1>2, <1>3
     DEF TypeOK, SlotsOK, Inputs, Phase, SumInv, SumOf, EndInv, MoveInv,
         Early, Rewritten
<1>5. SlotsInv'
  BY <1>1, <1>2, InputsDecide DEF SlotsInv, Rewritten
<1>6. KeptInv' /\ EffsInv'
  BY <1>1, <1>2, InputsDecide DEF KeptInv, EffsInv
<1>7. InPlace' /\ OnlyRemovedDataLost'
  BY <1>1, FrameSame DEF InPlace, Early
<1>8. ErasedInv'
  BY <1>1, <1>2, InputsDecide DEF ErasedInv, Gone
<1> QED
  BY <1>4, <1>5, <1>6, <1>7, <1>8

\* The slot of FTPR is a slot of the table, and with -r the entry in it is
\* the one partition that was kept, which is named FTPR.
LEMMA FtprSlotType ==
  ASSUME IInv, pc = "relocate"
  PROVE  /\ FtprSlot \in DOMAIN table
         /\ opts.relocate /\ slots[FtprSlot] # FF =>
              /\ slots[FtprSlot] \in [entry : DOMAIN table, start : Nat]
              /\ slots[FtprSlot].start = PartStart(slots[FtprSlot].entry)
              /\ table[slots[FtprSlot].entry].name = "FTPR"
<1> USE DEF IInv
<1> DEFINE S == {j \in DOMAIN kept : table[kept[j]].name = "FTPR"}
<1>1. FtprSlot \in DOMAIN table
  <2>1. Len(kept) <= Len(table)
    BY Types DEF KeptInv, Phase, Rewritten
  <2>2. CASE S = {}
    BY <2>2, Types DEF FtprSlot
  <2>3. CASE S # {}
    <3>1. S \in SUBSET Nat
      BY Types
    <3>2. PICK x \in S : \A y \in S : x <= y
      BY <2>3, <3>1, LeastNumber
    <3>3. \A h \in 1 .. x - 1 : table[kept[h]].name # "FTPR"
      <4>1. x \in 1 .. Len(kept) /\ Len(kept) \in Nat
        BY Types
      <4>2. \A h \in 1 .. x - 1 : h \in DOMAIN kept /\ ~(x <= h)
        BY <4>1, Types
      <4> QED
        BY <3>2, <4>2
    <3>4. FtprSlot \in DOMAIN kept
      BY <3>2, <3>3 DEF FtprSlot
    <3> QED
      BY <2>1, <3>4, Types
  <2> QED
    BY <2>2, <2>3
<1>2. ASSUME opts.relocate, slots[FtprSlot] # FF
      PROVE  /\ slots[FtprSlot] \in [entry : DOMAIN table, start : Nat]
             /\ slots[FtprSlot].start = PartStart(slots[FtprSlot].entry)
             /\ table[slots[FtprSlot].entry].name = "FTPR"
  <2>1. ASSUME NEW s \in DOMAIN table, s = FtprSlot
        PROVE  /\ s \in DOMAIN kept /\ slots[s].entry = kept[s]
               /\ slots[s] \in [entry : DOMAIN table, start : Nat]
               /\ slots[s].start = PartStart(kept[s])
               /\ Retained(kept[s])
    <3>1. s <= Len(kept)
      BY <1>2, <2>1, Types DEF SlotsInv, Rewritten
    <3>2. s \in DOMAIN kept
      BY <3>1, Types
    <3>3. /\ slots[s] \in [entry : DOMAIN table, start : Nat]
          /\ slots[s].entry = kept[s]
          /\ slots[s].start = PartStart(kept[s])
      BY <3>1 DEF SlotsInv, Rewritten
    <3> QED
      BY <3>2, <3>3 DEF KeptInv
  <2>2. ASSUME NEW j, Retained(j) PROVE table[j].name = "FTPR"
    BY <1>2, <2>2, OnlyFtprWithRelocate
  <2> QED
    BY <1>1, <2>1, <2>2
<1> QED
  BY <1>1, <1>2

\* The start in the slot is rewritten to where the move will put FTPR.
LEMMA StartMoveInv ==
  ASSUME IInv, StartMove
  PROVE  IInv'
<1> USE DEF IInv
<1>1. PICK new \in NewOffsets :
        /\ CanMove(new)
        /\ slots' = [slots EXCEPT ![FtprSlot].start = new]
        /\ move' = [from |-> slots[FtprSlot].start, to |-> new,
                    size |-> MoveSize(FtprSlot), i |-> 0]
  BY DEF StartMove
<1>2. /\ UNCHANGED <<buf, inputs, k, kept, extraEnd, hdr, ftprOffset, end>>
      /\ pc = "relocate" /\ pc' = "move" /\ opts.relocate
  BY DEF StartMove
<1>3. /\ table' = table /\ opts' = opts /\ gen' = gen /\ me6' = me6
      /\ atZero' = atZero
  BY <1>2 DEF inputs
<1>4. PICK s \in DOMAIN table : s = FtprSlot
  BY <1>2, FtprSlotType
<1>5. PICK j \in DOMAIN table : j = slots[s].entry
  BY <1>1, <1>2, <1>4, FtprSlotType DEF CanMove
<1>6. /\ slots[s] \in [entry : DOMAIN table, start : Nat]
      /\ slots[s].start = PartStart(j) /\ table[j].name = "FTPR"
  BY <1>1, <1>2, <1>4, <1>5, FtprSlotType DEF CanMove
<1>7. /\ new \in Nat /\ MoveSize(s) \in Nat /\ MoveSize(s) <= PartLength(j)
      /\ Check(ME, PartStart(j), MoveSize(s)) /\ Check(ME, new, MoveSize(s))
  <2>1. new \in Nat
    BY OffsetsAssumption
  <2>2. slots[s].start \in Nat /\ slots[s].start <= MeLen
    BY <1>1, <1>4, <1>6 DEF CanMove
  <2>3. table[j].length \in Nat /\ slots[s].start = table[j].start
    BY <1>6, Types, TableType DEF Entry, PartStart
  <2>4. MoveSize(s) \in Nat /\ MoveSize(s) <= PartLength(j)
    BY SMTT(30), <1>5, <2>2, <2>3, Types DEF MoveSize, PartLength
  <2> QED
    BY <1>1, <1>4, <1>6, <2>1, <2>4 DEF CanMove
<1>8. /\ DOMAIN slots' = DOMAIN slots
      /\ slots'[s] = [slots[s] EXCEPT !.start = new]
      /\ \A h \in DOMAIN table : h # s => slots'[h] = slots[h]
  BY <1>1, <1>4, Types
<1>9. /\ move' = [from |-> PartStart(j), to |-> new, size |-> MoveSize(s),
                  i |-> 0]
      /\ PartStart(j) \in Nat
  BY <1>1, <1>4, <1>6
<1>10. TypeOK'
  <2>1. slots'[s] \in [entry : DOMAIN table, start : Nat]
    BY <1>6, <1>7, <1>8
  <2>2. SlotsOK'
    BY <1>3, <1>8, <2>1 DEF SlotsOK, TypeOK
  <2>3. move' \in [from : Nat, to : Nat, size : Nat, i : Nat]
    BY <1>7, <1>9
  <2> QED
    BY <1>2, <1>3, <2>2, <2>3 DEF TypeOK
<1>11. Inputs' /\ Phase' /\ SumInv' /\ EndInv' /\ InPlace'
  BY <1>2, <1>3
     DEF Inputs, Phase, SumInv, SumOf, EndInv, InPlace, Early, Rewritten
<1>12. SlotsInv'
  <2>1. ASSUME NEW h \in DOMAIN table
        PROVE  /\ h > Len(kept) => slots'[h] = FF
               /\ h <= Len(kept) =>
                    /\ slots'[h] \in [entry : DOMAIN table, start : Nat]
                    /\ slots'[h].entry = kept[h]
    <3>1. /\ h > Len(kept) => slots[h] = FF
          /\ h <= Len(kept) =>
               /\ slots[h] \in [entry : DOMAIN table, start : Nat]
               /\ slots[h].entry = kept[h]
      BY <1>2 DEF SlotsInv, Rewritten
    <3>2. CASE h # s
      BY <1>8, <3>1, <3>2
    <3>3. CASE h = s
      <4>1. h <= Len(kept)
        BY <1>1, <1>4, <3>1, <3>3, Types DEF CanMove
      <4> QED
        BY <1>7, <1>8, <3>1, <3>3, <4>1, Types
    <3> QED
      BY <3>2, <3>3
  <2> QED
    BY <1>2, <1>3, <2>1 DEF SlotsInv
<1>13. MoveInv'
  BY <1>2, <1>3, <1>6, <1>7, <1>9, InputsDecide DEF MoveInv
<1>14. KeptInv' /\ EffsInv'
  BY <1>2, <1>3, InputsDecide DEF KeptInv, EffsInv
<1>15. ErasedInv'
  BY <1>2, <1>3, InputsDecide DEF ErasedInv, Gone
<1>16. OnlyRemovedDataLost'
  <2>1. \A a \in Addr : ~InTarget(a)
    <3>1. move.size = 0 /\ move.to \in Nat
      BY <1>2 DEF Phase, Early, TypeOK
    <3> QED
      BY SMTT(30), <3>1, Types, ImageAssumption DEF InTarget, Within, Addr
  <2> QED
    BY <1>2, <2>1, InputsDecide DEF OnlyRemovedDataLost
<1> QED
  BY <1>10, <1>11, <1>12, <1>13, <1>14, <1>15, <1>16

\* A relocation that cannot be done ends the stage.
LEMMA RelocateFailsInv ==
  ASSUME IInv, RelocateFails
  PROVE  IInv'
<1> USE DEF IInv
<1>1. PICK new \in NewOffsets :
        slots' = IF slots[FtprSlot] = FF THEN slots
                 ELSE [slots EXCEPT ![FtprSlot].start = new]
  BY DEF RelocateFails
<1>2. /\ UNCHANGED <<buf, inputs, k, kept, extraEnd, hdr, ftprOffset, end,
                     move>>
      /\ pc = "relocate" /\ pc' \in {"panic", "err"} /\ opts.relocate
  BY DEF RelocateFails
<1>3. /\ table' = table /\ opts' = opts /\ gen' = gen /\ me6' = me6
      /\ atZero' = atZero
  BY <1>2 DEF inputs
<1>4. SlotsOK'
  <2>1. CASE slots[FtprSlot] = FF
    BY <1>1, <1>3, <2>1 DEF SlotsOK, TypeOK
  <2>2. CASE slots[FtprSlot] # FF
    <3>1. PICK s \in DOMAIN table : s = FtprSlot
      BY <1>2, FtprSlotType
    <3>2. /\ slots[s] \in [entry : DOMAIN table, start : Nat]
          /\ new \in Nat
      BY <1>2, <2>2, <3>1, FtprSlotType, OffsetsAssumption
    <3>3. /\ DOMAIN slots' = DOMAIN slots
          /\ slots'[s] = [slots[s] EXCEPT !.start = new]
          /\ \A h \in DOMAIN table : h # s => slots'[h] = slots[h]
      BY <1>1, <2>2, <3>1, Types
    <3>4. slots'[s] \in [entry : DOMAIN table, start : Nat]
      BY <3>2, <3>3
    <3> QED
      BY <1>3, <3>3, <3>4 DEF SlotsOK, TypeOK
  <2> QED
    BY <2>1, <2>2
<1>5. TypeOK'
  BY <1>2, <1>3, <1>4 DEF TypeOK
<1>6. /\ Inputs' /\ Phase' /\ SumInv' /\ EndInv' /\ InPlace' /\ SlotsInv'
      /\ MoveInv'
  BY <1>2, <1>3
     DEF Inputs, Phase, SumInv, EndInv, InPlace, SlotsInv, MoveInv, Early,
         Rewritten
<1>7. KeptInv' /\ EffsInv'
  BY <1>2, <1>3, InputsDecide DEF KeptInv, EffsInv
<1>8. ErasedInv'
  BY <1>2, <1>3, InputsDecide DEF ErasedInv, Gone
<1>9. OnlyRemovedDataLost'
  BY <1>2, FrameSame
<1> QED
  BY <1>5, <1>6, <1>7, <1>8, <1>9

\* A block comes from the range of FTPR and goes to the range it is moved to.
LEMMA MoveBlockInv ==
  ASSUME IInv, MoveBlock
  PROVE  IInv'
<1> USE DEF IInv
<1>1. /\ UNCHANGED <<inputs, k, kept, extraEnd, slots, hdr, ftprOffset, end,
                     pc>>
      /\ pc = "move" /\ move.i < move.size
  BY DEF MoveBlock
<1>2. PICK from, to, n :
        /\ from = move.from + move.i /\ to = move.to + move.i
        /\ n = Chunk(move.size, move.i)
        /\ buf' = BlockMoved(ME, buf, from, to, n)
        /\ move' = [move EXCEPT !.i = move.i + n]
  BY DEF MoveBlock
<1>3. /\ table' = table /\ opts' = opts /\ gen' = gen /\ me6' = me6
      /\ atZero' = atZero
  BY <1>1 DEF inputs
<1>4. /\ move \in [from : Nat, to : Nat, size : Nat, i : Nat]
      /\ ME.start \in Nat /\ ME.end \in Nat /\ ME.end <= FileLen
      /\ FileLen \in Nat
  BY ImageAssumption DEF TypeOK
<1>5. n \in Nat /\ move.i + n <= move.size
  BY <1>1, <1>2, <1>4, BlockAssumption DEF Chunk
<1>6. PICK j \in DOMAIN table :
        table[j].name = "FTPR" /\ move.from = PartStart(j)
        /\ move.size <= PartLength(j)
  BY <1>1 DEF MoveInv
<1>7. Check(ME, move.from, move.size) /\ Check(ME, move.to, move.size)
  BY <1>1 DEF MoveInv
<1>8. \A a \in Addr : Within(ME, a, to, to + n) => a - to + from \in Addr
  BY <1>2, <1>4, <1>5, <1>7 DEF Within, Addr, Check
<1>9. /\ buf' \in [Addr -> Addr \cup {FF}]
      /\ \A a \in Addr :
           buf'[a] = IF Within(ME, a, to, to + n) THEN buf[a - to + from]
                     ELSE IF Within(ME, a, from, from + n) THEN FF
                     ELSE buf[a]
  BY <1>2, <1>8, Types DEF BlockMoved
<1>10. /\ move' \in [from : Nat, to : Nat, size : Nat, i : Nat]
       /\ move'.from = move.from /\ move'.to = move.to
       /\ move'.size = move.size
  BY <1>2, <1>4, <1>5
<1>11. TypeOK'
  BY <1>1, <1>3, <1>9, <1>10 DEF TypeOK, SlotsOK
<1>12. Inputs' /\ Phase' /\ SumInv' /\ EndInv' /\ InPlace'
  BY <1>1, <1>3
     DEF Inputs, Phase, SumInv, SumOf, EndInv, InPlace, Early, Rewritten
<1>13. MoveInv'
  BY <1>1, <1>3, <1>6, <1>7, <1>10, InputsDecide DEF MoveInv
<1>14. SlotsInv' /\ KeptInv' /\ EffsInv'
  BY <1>1, <1>3, InputsDecide DEF SlotsInv, KeptInv, EffsInv, Rewritten
<1>15. ErasedInv'
  <2>1. \A a \in Addr : buf'[a] = FF \/ \E b \in Addr : buf'[a] = buf[b]
    BY <1>8, <1>9
  <2>2. ASSUME NEW h, Gone(h) PROVE Gone(h)'
    BY <1>1, <2>1, <2>2, GoneStays, Types
  <2> QED
    BY <1>1, <1>3, <2>2, InputsDecide DEF ErasedInv
<1>16. OnlyRemovedDataLost'
  <2>1. \A a : InTarget(a)' <=> InTarget(a)
    BY <1>10 DEF InTarget
  <2>2. ASSUME NEW a \in Addr
        PROVE  InRemoved(a) \/ InFtpr(a) \/ InTarget(a) \/ buf'[a] = a
    <3>1. CASE Within(ME, a, to, to + n)
      BY <1>2, <1>4, <1>5, <3>1 DEF InTarget, Within, Addr
    <3>2. CASE Within(ME, a, from, from + n)
      <4>1. PartStart(j) \in Nat /\ PartLength(j) \in Int
            /\ PartEnd(j) = PartStart(j) + PartLength(j)
        BY Types, PartitionType DEF PartEnd
      <4>2. Within(ME, a, PartStart(j), PartEnd(j))
        BY <1>2, <1>4, <1>5, <1>6, <3>2, <4>1 DEF Within, Addr
      <4> QED
        BY <1>6, <4>2 DEF InFtpr
    <3>3. CASE ~Within(ME, a, to, to + n) /\ ~Within(ME, a, from, from + n)
      BY <1>9, <3>3 DEF OnlyRemovedDataLost
    <3> QED
      BY <3>1, <3>2, <3>3
  <2> QED
    BY <1>1, <2>1, <2>2, InputsDecide DEF OnlyRemovedDataLost
<1> QED
  BY <1>11, <1>12, <1>13, <1>14, <1>15, <1>16

\* The end follows FTPR to its new place.
LEMMA FinishMoveInv ==
  ASSUME IInv, FinishMove
  PROVE  IInv'
<1> USE DEF IInv
<1>1. /\ UNCHANGED <<buf, inputs, k, kept, extraEnd, slots, hdr, move>>
      /\ pc = "move" /\ pc' \in {"panic", "done"}
      /\ ftprOffset' = move.to
      /\ end' = ResultEnd(end + move.to - ftprOffset)
  BY DEF FinishMove
<1>2. /\ table' = table /\ opts' = opts /\ gen' = gen /\ me6' = me6
      /\ atZero' = atZero
  BY <1>1 DEF inputs
<1>3. ftprOffset' \in Nat /\ end' \in Int
  <2>1. move.to \in Nat /\ ftprOffset \in Nat /\ end \in Int
        /\ extraEnd \in Int
    BY <1>1, Types DEF TypeOK, Phase
  <2> QED
    BY <1>1, <2>1 DEF ResultEnd
<1>4. TypeOK' /\ Inputs' /\ Phase' /\ SumInv' /\ EndInv' /\ MoveInv'
  BY <1>1, <1>2, <1>3
     DEF TypeOK, SlotsOK, Inputs, Phase, SumInv, SumOf, EndInv, MoveInv,
         Early, Rewritten
<1>5. SlotsInv' /\ KeptInv' /\ EffsInv'
  BY <1>1, <1>2, InputsDecide
     DEF SlotsInv, KeptInv, EffsInv, MoveInv, Rewritten
<1>6. InPlace' /\ OnlyRemovedDataLost'
  BY <1>1, FrameSame DEF InPlace, Early
<1>7. ErasedInv'
  BY <1>1, <1>2, InputsDecide DEF ErasedInv, Gone
<1> QED
  BY <1>4, <1>5, <1>6, <1>7
-----------------------------------------------------------------------------
\* Every step of the stage keeps the invariant.
LEMMA NextInv == IInv /\ [Next]_vars => IInv'
<1> SUFFICES ASSUME IInv, [Next]_vars PROVE IInv'
  OBVIOUS
<1>1. CASE ScanPanic \/ SkipNvram \/ SkipNoData
  BY <1>1, SkipInv
<1>2. CASE KeepPartition
  BY <1>2, KeepInv
<1>3. CASE RemovePartition
  BY <1>3, RemoveInv
<1>4. CASE RewriteTable
  BY <1>4, RewriteInv
<1>5. CASE ClearEffs \/ FixChecksum
  BY <1>5, HeaderInv
<1>6. CASE ModulesUnknown \/ ModulesFail \/ KeepModules \/ StripModules
  BY <1>6, ModulesInv
<1>7. CASE StayInPlace
  BY <1>7, StayInv
<1>8. CASE StartMove
  BY <1>8, StartMoveInv
<1>9. CASE RelocateFails
  BY <1>9, RelocateFailsInv
<1>10. CASE MoveBlock
  BY <1>10, MoveBlockInv
<1>11. CASE FinishMove
  BY <1>11, FinishMoveInv
<1>12. CASE UNCHANGED vars
  <2>1. /\ UNCHANGED <<buf, inputs, k, kept, extraEnd, slots, hdr, ftprOffset,
                       end, move, pc>>
        /\ table' = table /\ opts' = opts /\ gen' = gen /\ atZero' = atZero
    BY <1>12 DEF vars, inputs
  <2>2. /\ TypeOK' /\ Inputs' /\ Phase' /\ SumInv' /\ EndInv' /\ InPlace'
    BY <2>1 DEF IInv, TypeOK, SlotsOK, Inputs, Phase, SumInv, SumOf, EndInv,
                InPlace
  <2>3. /\ KeptInv' /\ SlotsInv' /\ EffsInv' /\ MoveInv'
    BY <2>1, InputsDecide DEF IInv, KeptInv, SlotsInv, EffsInv, MoveInv
  <2>4. ErasedInv' /\ OnlyRemovedDataLost'
    BY <2>1, InputsDecide, FrameSame DEF IInv, ErasedInv, Gone
  <2> QED
    BY <2>2, <2>3, <2>4 DEF IInv
<1> QED
  BY <1>1, <1>2, <1>3, <1>4, <1>5, <1>6, <1>7, <1>8, <1>9, <1>10, <1>11,
     <1>12 DEF Next

THEOREM Invariance == Spec => []IInv
BY InitInv, NextInv, PTL DEF Spec
-----------------------------------------------------------------------------
\* The stage keeps its variables in their types, for every image, table,
\* list and option: no step of remove_partitions_and_modules computes a slot,
\* an index or an end that is not one.
THEOREM TypeCorrect == Spec => []TypeOK
<1>1. IInv => TypeOK
  BY DEF IInv
<1> QED
  BY <1>1, Invariance, PTL

\* Nothing outside the removed partitions, FTPR and the place FTPR is moved
\* to is ever changed.
THEOREM OthersKept == Spec => []OnlyRemovedDataLost
<1>1. IInv => OnlyRemovedDataLost
  BY DEF IInv
<1> QED
  BY <1>1, Invariance, PTL

\* What was removed is gone from the finished image: not left in place, not
\* carried along by the relocation.
THEOREM RemovedGone == Spec => []RemovedDataGone
<1>1. IInv => RemovedDataGone
  <2> SUFFICES ASSUME IInv, pc = "done",
                      NEW a \in Addr, NEW d \in Addr, buf[a] = d, InRemoved(d)
               PROVE  FALSE
    BY DEF RemovedDataGone
  <2>1. PICK j \in DOMAIN table :
          Removed(j) /\ Within(ME, d, PartStart(j), PartEnd(j))
    BY DEF InRemoved
  <2>2. j < k
    BY Types DEF IInv, Phase, Rewritten
  <2> QED
    BY <2>1, <2>2 DEF IInv, ErasedInv, Gone
<1> QED
  BY <1>1, Invariance, PTL

\* A table that still lists EFFS keeps its presence flag.
THEOREM EffsFlag == Spec => []EffsEntryKeepsFlag
<1>1. IInv => EffsEntryKeepsFlag
  <2> SUFFICES ASSUME IInv, pc \in {"checksum", "modules", "relocate", "done"},
                      NEW j \in DOMAIN slots, slots[j] # FF,
                      table[slots[j].entry].name = "EFFS"
               PROVE  hdr.effs = 1
    BY DEF EffsEntryKeepsFlag
  <2>1. j \in DOMAIN kept /\ slots[j].entry = kept[j]
    <3>1. j \in DOMAIN table /\ pc \in Rewritten /\ DOMAIN kept = 1 .. Len(kept)
          /\ Len(kept) \in Nat /\ DOMAIN table = 1 .. Len(table)
          /\ Len(table) \in Nat
      BY Types DEF Rewritten
    <3>2. j <= Len(kept)
      BY <3>1 DEF IInv, SlotsInv
    <3> QED
      BY <3>1, <3>2 DEF IInv, SlotsInv
  <2>2. Keep("EFFS")
    BY <2>1 DEF IInv, KeptInv, Retained
  <2>3. ~EffsDropped
    BY <2>2 DEF Keep, EffsDropped
  <2> QED
    BY <2>3 DEF IInv, EffsInv
<1> QED
  BY <1>1, Invariance, PTL

\* The header of the finished table sums to zero.
THEOREM Checksum == Spec => []ChecksumHolds
<1>1. IInv => ChecksumHolds
  <2> SUFFICES ASSUME IInv, pc = "done", gen = 3 \/ ~atZero
               PROVE  HeaderSum % CheckMod = 0
    BY DEF ChecksumHolds
  <2>1. (SumOf(hdr) + hdr.cksum) % CheckMod = 0
    BY DEF IInv, SumInv
  <2>2. /\ hdr.num \in Int /\ hdr.effs \in Int /\ hdr.other \in Int
        /\ hdr.cksum \in Int /\ hdr.pre \in Int
    BY DEF IInv, Inputs, Header
  <2>3. SumOf(hdr) + hdr.cksum = HeaderSum
    BY <2>2 DEF SumOf, HeaderSum
  <2> QED
    BY <2>1, <2>3
<1> QED
  BY <1>1, Invariance, PTL

\* The header of the finished table agrees with the table and with itself.
THEOREM HeaderConsistent == Spec => []HeaderAgrees
  BY EffsFlag, Checksum, PTL DEF HeaderAgrees

\* The end that the truncation is computed from covers what the table lists.
THEOREM KeptCovered == Spec => []EndCoversKept
<1>1. IInv => EndCoversKept
  <2> SUFFICES ASSUME IInv, pc = "done", end # None, NEW j \in 1 .. hdr.num,
                      table[slots[j].entry].name # "FTPR"
               PROVE  slots[j].start + PartLength(slots[j].entry) <= end
    BY DEF EndCoversKept
  <2>1. j \in DOMAIN kept /\ j \in DOMAIN table
    BY Types DEF IInv, Phase, KeptInv, Rewritten
  <2>2. /\ slots[j].entry = kept[j]
        /\ slots[j].start = PartStart(kept[j]) \/ opts.relocate
    BY <2>1, Types DEF IInv, SlotsInv, Rewritten
  <2>3. PICK p \in DOMAIN table : p = kept[j]
    BY <2>1, Types
  <2>4. Retained(p) /\ PartEnd(p) <= extraEnd
    BY <2>1, <2>2, <2>3 DEF IInv, KeptInv
  <2>5. ~opts.relocate
    BY <2>2, <2>3, <2>4, OnlyFtprWithRelocate DEF IInv
  <2>6. extraEnd <= end /\ extraEnd \in Int /\ end \in Int
    BY SMTT(30), <2>5, Types DEF IInv, EndInv, TypeOK
  <2>7. PartEnd(p) \in Int /\ PartEnd(p) = PartStart(p) + PartLength(p)
    BY Types, PartitionType DEF PartEnd
  <2> QED
    BY <2>2, <2>3, <2>4, <2>5, <2>6, <2>7
<1> QED
  BY <1>1, Invariance, PTL
-----------------------------------------------------------------------------
(***************************************************************************)
(* What the finished table says is true.  Two more invariants, on top of   *)
(* IInv: Counted, that the entries kept so far are those the lists retain, *)
(* in their order, each once; and Located, that each slot tells where the  *)
(* data of its entry is, while a move is under way, too: the part of the   *)
(* range that has been moved is in its new place and the rest in the old.  *)
(***************************************************************************)
RetainedBelow(n) == {j \in 1 .. n - 1 : Retained(j)}

Counted ==
  /\ IsFiniteSet(RetainedBelow(k)) /\ Cardinality(RetainedBelow(k)) = Len(kept)
  /\ \A j \in RetainedBelow(k) : \E h \in DOMAIN kept : kept[h] = j
  /\ \A h \in DOMAIN kept : kept[h] < k
  /\ \A h, g \in DOMAIN kept : h < g => kept[h] < kept[g]

\* The relocation has started, and the stage has not failed.
InMove == pc = "move" \/ (pc = "done" /\ opts.relocate /\ end # None)

OwnOrErased(a) == buf[a] = a \/ buf[a] = FF

StillLocated ==
  (pc \in Rewritten /\ ~InMove) =>
    /\ \A j \in DOMAIN kept : slots[j].start = PartStart(kept[j])
    /\ \A a \in Addr : OwnOrErased(a)

\* The slot that is rewritten, and the move it is rewritten for.
SlotMoved ==
  InMove =>
    \E s \in DOMAIN kept :
      /\ s = FtprSlot /\ Retained(kept[s])
      /\ slots[s].start = move.to
      /\ move.from = PartStart(kept[s]) /\ move.size = PartLength(kept[s])
      /\ \A j \in DOMAIN kept \ {s} : slots[j].start = PartStart(kept[j])

MoveProgress ==
  InMove =>
    /\ opts.relocate
    /\ Check(ME, move.from, move.size) /\ Check(ME, move.to, move.size)
    /\ move.size <= BLOCK => move.i = 0 \/ move.i >= move.size
    /\ pc = "done" => ftprOffset = move.to /\ move.i >= move.size

DataMoved ==
  InMove =>
    /\ \A a \in Addr : ~InTarget(a) => OwnOrErased(a)
    /\ SafeMove(move.from, move.size, move.to) =>
         \A a \in Addr :
           IF Within(ME, a, move.to, move.to + move.i)
             THEN buf[a] = a - move.to + move.from \/ buf[a] = FF
             ELSE OwnOrErased(a)

Located == StillLocated /\ SlotMoved /\ MoveProgress /\ DataMoved
JInv == Counted /\ Located
-----------------------------------------------------------------------------
LEMMA CountedInit == Init => Counted
<1> SUFFICES ASSUME Init PROVE Counted
  OBVIOUS
<1>1. RetainedBelow(k) = {}
  BY DEF Init, RetainedBelow
<1>2. kept = <<>> /\ Len(kept) = 0 /\ DOMAIN kept = {}
  BY DEF Init
<1> QED
  BY <1>1, <1>2, FS_EmptySet DEF Counted

\* An entry that is not retained is passed over, one that is comes last.
LEMMA CountedSkip ==
  ASSUME IInv, Counted, UNCHANGED <<inputs, kept>>, k <= Len(table),
         ~Retained(k), k' = k + 1
  PROVE  Counted'
<1>1. RetainedBelow(k') = RetainedBelow(k)
  BY Types DEF RetainedBelow
<1>2. RetainedBelow(k)' = RetainedBelow(k')
  BY InputsDecide DEF RetainedBelow
<1>3. \A h \in DOMAIN kept : kept[h] \in Nat
  BY Types
<1> QED
  BY <1>1, <1>2, <1>3, Types DEF Counted

LEMMA CountedKeep ==
  ASSUME IInv, Counted, KeepPartition
  PROVE  Counted'
<1>1. /\ UNCHANGED inputs /\ k' = k + 1 /\ kept' = Append(kept, k)
      /\ k \in DOMAIN table /\ Retained(k)
  BY Types DEF KeepPartition, Scanning
<1>2. RetainedBelow(k)' = RetainedBelow(k) \cup {k}
  <2>1. RetainedBelow(k)' = {j \in 1 .. k' - 1 : Retained(j)}
    BY <1>1, InputsDecide DEF RetainedBelow
  <2>2. 1 .. k' - 1 = (1 .. k - 1) \cup {k}
    BY <1>1, Types
  <2> QED
    BY <1>1, <2>1, <2>2 DEF RetainedBelow
<1>3. k \notin RetainedBelow(k)
  BY Types DEF RetainedBelow
<1>4. /\ Len(kept') = Len(kept) + 1 /\ DOMAIN kept' = 1 .. Len(kept) + 1
      /\ kept'[Len(kept) + 1] = k
      /\ \A j \in DOMAIN kept : kept'[j] = kept[j] /\ kept[j] \in Nat
  BY <1>1, Types
<1>5. /\ IsFiniteSet(RetainedBelow(k)')
      /\ Cardinality(RetainedBelow(k)') = Len(kept')
  <2>1. IsFiniteSet(RetainedBelow(k)) /\ Cardinality(RetainedBelow(k)) = Len(kept)
    BY DEF Counted
  <2>2. /\ IsFiniteSet(RetainedBelow(k) \cup {k})
        /\ Cardinality(RetainedBelow(k) \cup {k})
             = IF k \in RetainedBelow(k) THEN Cardinality(RetainedBelow(k))
               ELSE Cardinality(RetainedBelow(k)) + 1
    BY <2>1, FS_AddElement, Zenon
  <2> QED
    BY <1>2, <1>3, <1>4, <2>1, <2>2
<1>6. \A j \in RetainedBelow(k)' : \E h \in DOMAIN kept' : kept'[h] = j
  <2> SUFFICES ASSUME NEW j \in RetainedBelow(k) \cup {k}
               PROVE  \E h \in DOMAIN kept' : kept'[h] = j
    BY <1>2
  <2>1. CASE j = k
    <3>1. Len(kept) + 1 \in DOMAIN kept'
      BY <1>4, Types
    <3> QED
      BY <1>4, <2>1, <3>1
  <2>2. CASE j \in RetainedBelow(k)
    <3>1. PICK h \in DOMAIN kept : kept[h] = j
      BY <2>2 DEF Counted
    <3>2. h \in DOMAIN kept' /\ kept'[h] = j
      BY <1>4, <3>1, Types
    <3> QED
      BY <3>2
  <2> QED
    BY <2>1, <2>2
<1>7. \A h \in DOMAIN kept' : kept'[h] < k'
  <2> SUFFICES ASSUME NEW h \in DOMAIN kept' PROVE kept'[h] < k'
    OBVIOUS
  <2>1. CASE h \in DOMAIN kept
    <3>1. kept[h] < k /\ kept'[h] = kept[h] /\ kept[h] \in Nat
      BY <1>4, <2>1 DEF Counted
    <3> QED
      BY <1>1, <3>1, Types
  <2>2. CASE h = Len(kept) + 1
    BY <1>1, <1>4, <2>2, Types
  <2> QED
    BY <1>4, <2>1, <2>2, Types
<1>8. \A h, g \in DOMAIN kept' : h < g => kept'[h] < kept'[g]
  <2> SUFFICES ASSUME NEW h \in DOMAIN kept', NEW g \in DOMAIN kept', h < g
               PROVE  kept'[h] < kept'[g]
    OBVIOUS
  <2>1. h \in DOMAIN kept
    BY <1>4, Types
  <2>2. CASE g \in DOMAIN kept
    BY <1>4, <2>1, <2>2 DEF Counted
  <2>3. CASE g = Len(kept) + 1
    BY <1>4, <2>1, <2>3 DEF Counted
  <2> QED
    BY <1>4, <2>2, <2>3, Types
<1> QED
  BY <1>5, <1>6, <1>7, <1>8 DEF Counted

LEMMA CountedNext ==
  ASSUME IInv, Counted, [Next]_vars
  PROVE  Counted'
<1>1. CASE KeepPartition
  BY <1>1, CountedKeep
<1>2. CASE UNCHANGED <<inputs, k, kept>>
  <2>1. RetainedBelow(k)' = RetainedBelow(k)
    BY <1>2, InputsDecide DEF RetainedBelow
  <2> QED
    BY <1>2, <2>1 DEF Counted
<1>3. CASE SkipNvram \/ SkipNoData \/ RemovePartition
  <2>1. /\ UNCHANGED <<inputs, kept>> /\ k <= Len(table) /\ k' = k + 1
        /\ ~Retained(k)
    BY <1>3
       DEF SkipNvram, SkipNoData, RemovePartition, Scanning, Retained, Removed
  <2> QED
    BY <2>1, CountedSkip
<1>4. CASE ~KeepPartition /\ ~SkipNvram /\ ~SkipNoData /\ ~RemovePartition
  <2>1. UNCHANGED <<inputs, k, kept>>
    <3>1. CASE ScanPanic \/ RewriteTable \/ ClearEffs \/ FixChecksum
      BY <3>1 DEF ScanPanic, RewriteTable, ClearEffs, FixChecksum
    <3>2. CASE ModulesUnknown \/ ModulesFail \/ KeepModules \/ StripModules
      BY <3>2 DEF ModulesUnknown, ModulesFail, KeepModules, StripModules
    <3>3. CASE StayInPlace \/ StartMove \/ RelocateFails \/ MoveBlock
               \/ FinishMove
      BY <3>3 DEF StayInPlace, StartMove, RelocateFails, MoveBlock, FinishMove
    <3>4. CASE UNCHANGED vars
      BY <3>4 DEF vars
    <3> QED
      BY <1>4, <3>1, <3>2, <3>3, <3>4 DEF Next
  <2> QED
    BY <1>2, <2>1
<1> QED
  BY <1>1, <1>3, <1>4
-----------------------------------------------------------------------------
\* Which slot the relocation rewrites is decided by the entries kept.
LEMMA FtprSlotSame ==
  ASSUME table' = table, kept' = kept
  PROVE  FtprSlot' = FtprSlot
BY DEF FtprSlot

LEMMA LocatedInit == Init => Located
BY DEF Init, Located, StillLocated, SlotMoved, MoveProgress, DataMoved, InMove,
       Rewritten

\* Up to the relocation the slots are as the table is rewritten, and no cell
\* holds another's datum.
LEMMA LocatedEarly ==
  ASSUME IInv, Located, IInv', pc' \in Early
  PROVE  Located'
<1>1. ~InMove'
  BY DEF InMove, Early
<1>2. (pc \in Rewritten)' => \A j \in DOMAIN kept' : slots'[j].start = PartStart(kept[j])'
  <2> SUFFICES ASSUME pc' \in Rewritten, NEW j \in DOMAIN kept'
               PROVE  slots'[j].start = PartStart(kept[j])'
    OBVIOUS
  <2>1. SlotsInv' /\ KeptInv' /\ Phase' /\ TypeOK'
    BY DEF IInv
  <2>2. /\ table' \in Tables /\ kept' \in Seq(DOMAIN table')
        /\ k' \in 1 .. Len(table') + 1
    BY <2>1 DEF TypeOK
  <2>3. Len(table') \in Nat /\ DOMAIN table' = 1 .. Len(table')
    BY <2>2, TableType
  <2>4. Len(kept') \in Nat /\ DOMAIN kept' = 1 .. Len(kept')
    BY <2>2
  <2>5. j \in DOMAIN table' /\ j <= Len(kept')
    BY <2>1, <2>2, <2>3, <2>4 DEF KeptInv
  <2>6. pc' \notin {"move", "done"}
    BY DEF Early
  <2> QED
    BY <2>1, <2>5, <2>6 DEF SlotsInv
<1>3. (\A a \in Addr : OwnOrErased(a))'
  BY DEF IInv, InPlace, OwnOrErased
<1> QED
  BY <1>1, <1>2, <1>3
     DEF Located, StillLocated, SlotMoved, MoveProgress, DataMoved

\* A stage that has failed says nothing.
LEMMA LocatedFailed ==
  ASSUME pc' \in {"err", "panic"}
  PROVE  Located'
BY DEF Located, StillLocated, SlotMoved, MoveProgress, DataMoved, InMove,
       Rewritten

\* Without a relocation the stage ends as it was before.
LEMMA LocatedInPlace ==
  ASSUME IInv, Located, ModulesUnknown \/ StayInPlace
  PROVE  Located'
<1>1. /\ UNCHANGED <<buf, inputs, kept, slots>> /\ pc' = "done"
      /\ pc \in Rewritten /\ ~InMove
      /\ ~opts.relocate \/ end' = None
  BY DEF ModulesUnknown, StayInPlace, Rewritten, InMove, IInv, Phase, Early
<1>2. ~InMove'
  BY <1>1 DEF InMove, inputs
<1>3. StillLocated'
  BY <1>1, InputsDecide DEF Located, StillLocated, OwnOrErased
<1> QED
  BY <1>2, <1>3 DEF Located, SlotMoved, MoveProgress, DataMoved

\* The whole partition is moved: its length, of an open-ended one what is left
\* of the region.
LEMMA MoveSizeWhole ==
  ASSUME IInv, NEW s \in DOMAIN table, NEW j \in DOMAIN table,
         slots[s] \in [entry : DOMAIN table, start : Nat],
         slots[s].entry = j, slots[s].start = PartStart(j), HasData(j)
  PROVE  MoveSize(s) = PartLength(j)
<1>1. /\ table[j].start \in Nat /\ table[j].length \in Nat /\ MeLen \in Nat
      /\ MeLen <= MaxLength /\ MaxLength \in Nat
  BY Types, TableType, LengthAssumption DEF Entry
<1>2. slots[s].start = table[j].start
  BY DEF PartStart
<1>3. CASE OpenEnded(j)
  BY <1>1, <1>2, <1>3 DEF OpenEnded, MoveSize, PartLength
<1>4. CASE ~OpenEnded(j)
  <2>1. PartLength(j) = table[j].length
    BY <1>4 DEF PartLength
  <2>2. table[j].start + table[j].length <= MeLen
    BY <2>1 DEF HasData, PartEnd, PartStart
  <2> QED
    BY <1>1, <1>2, <2>1, <2>2 DEF MoveSize
<1> QED
  BY <1>3, <1>4

\* The slot is rewritten, and nothing has been moved.
LEMMA LocatedStartMove ==
  ASSUME IInv, Located, StartMove
  PROVE  Located'
<1>1. PICK new \in NewOffsets :
        /\ CanMove(new)
        /\ slots' = [slots EXCEPT ![FtprSlot].start = new]
        /\ move' = [from |-> slots[FtprSlot].start, to |-> new,
                    size |-> MoveSize(FtprSlot), i |-> 0]
  BY DEF StartMove
<1>2. /\ UNCHANGED <<buf, inputs, kept, ftprOffset>>
      /\ pc = "relocate" /\ pc' = "move" /\ opts.relocate
      /\ table' = table /\ opts' = opts
  BY DEF StartMove, inputs
<1>3. /\ StillLocated /\ pc \in Rewritten /\ ~InMove
  BY <1>2 DEF Located, InMove, Rewritten
<1>4. PICK s \in DOMAIN table : s = FtprSlot
  BY <1>2, FtprSlotType
<1>5. slots[s] # FF /\ slots[s] \in [entry : DOMAIN table, start : Nat]
  BY <1>1, <1>2, <1>4, FtprSlotType DEF CanMove
<1>6. s \in DOMAIN kept /\ slots[s].entry = kept[s]
  <2>1. s <= Len(kept)
    BY <1>3, <1>5, Types DEF IInv, SlotsInv
  <2> QED
    BY <1>3, <2>1, Types DEF IInv, SlotsInv
<1>7. PICK j \in DOMAIN table : j = kept[s]
  BY <1>6, Types
<1>8. Retained(j) /\ HasData(j)
  BY <1>6, <1>7 DEF IInv, KeptInv, Retained
<1>9. slots[s].start = PartStart(j)
  BY <1>3, <1>6, <1>7 DEF StillLocated
<1>10. MoveSize(s) = PartLength(j)
  BY <1>5, <1>6, <1>7, <1>8, <1>9, MoveSizeWhole
<1>11. /\ move'.from = PartStart(j) /\ move'.to = new
       /\ move'.size = PartLength(j) /\ move'.i = 0
  BY <1>1, <1>4, <1>9, <1>10
<1>12. /\ slots'[s].start = new
       /\ \A h \in DOMAIN table : h # s => slots'[h] = slots[h]
  BY <1>1, <1>4, <1>5, Types
<1>13. InMove' /\ ~(pc = "done")'
  BY <1>2 DEF InMove
<1>14. SlotMoved'
  <2>1. s = FtprSlot'
    BY <1>2, <1>4, FtprSlotSame
  <2>2. Retained(kept[s])' /\ PartStart(kept[s])' = PartStart(j)
        /\ PartLength(kept[s])' = PartLength(j)
    BY <1>2, <1>7, <1>8, InputsDecide
  <2>3. ASSUME NEW h \in DOMAIN kept \ {s}
        PROVE  slots'[h].start = PartStart(kept[h])'
    <3>1. h \in DOMAIN table /\ PartStart(kept[h])' = PartStart(kept[h])
      BY <1>2, Types, InputsDecide DEF IInv, KeptInv
    <3> QED
      BY <1>3, <1>12, <3>1 DEF StillLocated
  <2> QED
    BY <1>2, <1>6, <1>11, <1>12, <2>1, <2>2, <2>3 DEF SlotMoved
<1>15. MoveProgress'
  <2>1. Check(ME, PartStart(j), PartLength(j)) /\ Check(ME, new, PartLength(j))
    BY <1>1, <1>4, <1>9, <1>10 DEF CanMove
  <2> QED
    BY <1>2, <1>11, <1>13, <2>1 DEF MoveProgress
<1>16. DataMoved'
  <2>1. \A a \in Addr : OwnOrErased(a)'
    BY <1>2, <1>3 DEF StillLocated, OwnOrErased
  <2>2. new \in Nat /\ ME.start \in Nat
    BY Types, OffsetsAssumption
  <2>3. \A a \in Addr : ~Within(ME, a, move'.to, move'.to + move'.i)
    BY <1>11, <2>2, ImageAssumption DEF Within, Addr
  <2> QED
    BY <2>1, <2>3 DEF DataMoved
<1> QED
  BY <1>13, <1>14, <1>15, <1>16 DEF Located, StillLocated

\* A block is read from the part of the range that no block was written to
\* before, if the move is one the loop performs correctly.
LEMMA LocatedMoveBlock ==
  ASSUME IInv, Located, MoveBlock
  PROVE  Located'
<1>1. /\ UNCHANGED <<inputs, kept, slots, ftprOffset, pc>>
      /\ pc = "move" /\ move.i < move.size /\ table' = table /\ opts' = opts
  BY DEF MoveBlock, inputs
<1>2. PICK f \in Nat, g \in Nat, size \in Nat, i \in Nat :
        move = [from |-> f, to |-> g, size |-> size, i |-> i]
  BY DEF IInv, TypeOK
<1>3. PICK start \in Nat, stop \in Nat :
        start = ME.start /\ stop = ME.end /\ stop <= FileLen
  BY ImageAssumption
<1>4. InMove /\ InMove' /\ pc # "done"
  BY <1>1 DEF InMove
<1>5. /\ Check(ME, f, size) /\ Check(ME, g, size)
      /\ start + f + size <= stop /\ start + g + size <= stop
      /\ size <= BLOCK => i = 0
  BY <1>1, <1>2, <1>3, <1>4 DEF Located, MoveProgress, Check
<1>6. PICK n \in Nat :
        /\ i + n <= size /\ (size <= BLOCK => n = size)
        /\ buf' = BlockMoved(ME, buf, f + i, g + i, n)
        /\ move' = [from |-> f, to |-> g, size |-> size, i |-> i + n]
  <2>1. Chunk(size, i) \in Nat /\ i + Chunk(size, i) <= size
    BY <1>1, <1>2, BlockAssumption DEF Chunk
  <2>2. size <= BLOCK => Chunk(size, i) = size
    BY <1>1, <1>2, <1>5, BlockAssumption DEF Chunk
  <2>3. buf' = BlockMoved(ME, buf, f + i, g + i, Chunk(size, i))
    BY <1>2 DEF MoveBlock
  <2>4. move' = [from |-> f, to |-> g, size |-> size, i |-> i + Chunk(size, i)]
    BY <1>2 DEF MoveBlock
  <2> QED
    BY <2>1, <2>2, <2>3, <2>4
<1> DEFINE InBlock(a) == start + (g + i) <= a /\ a < start + (g + i + n)
<1>7. \A a \in Addr :
        InBlock(a) => a - (g + i) + (f + i) \in Addr
                      /\ a - (g + i) + (f + i) = a - g + f
  BY <1>3, <1>5, <1>6, ImageAssumption DEF Addr
<1>8. \A a \in Addr :
        buf'[a] = IF InBlock(a) THEN buf[a - g + f]
                  ELSE IF Within(ME, a, f + i, f + i + n) THEN FF
                  ELSE buf[a]
  <2>1. buf \in [Addr -> Addr \cup {FF}]
    BY Types
  <2>2. \A a : Within(ME, a, g + i, g + i + n) <=> InBlock(a)
    BY <1>3 DEF Within
  <2>3. \A a \in Addr :
          buf'[a] = IF Within(ME, a, g + i, g + i + n)
                      THEN buf[a - (g + i) + (f + i)]
                    ELSE IF Within(ME, a, f + i, f + i + n) THEN FF
                    ELSE buf[a]
    <3> HIDE DEF InBlock
    <3> QED
      BY <1>6, <2>1 DEF BlockMoved
  <2> HIDE DEF InBlock
  <2> QED
    BY <1>7, <2>2, <2>3
<1>9. /\ move'.from = f /\ move'.to = g /\ move'.size = size
      /\ move'.i = i + n
      /\ move.from = f /\ move.to = g /\ move.size = size /\ move.i = i
  BY <1>2, <1>6
<1>10. SlotMoved'
  <2>1. FtprSlot' = FtprSlot
    BY <1>1, FtprSlotSame
  <2>2. PICK s \in DOMAIN kept :
          /\ s = FtprSlot /\ Retained(kept[s])
          /\ slots[s].start = move.to
          /\ move.from = PartStart(kept[s]) /\ move.size = PartLength(kept[s])
          /\ \A j \in DOMAIN kept \ {s} : slots[j].start = PartStart(kept[j])
    BY <1>4 DEF Located, SlotMoved
  <2>3. \A j : /\ PartStart(kept[j])' = PartStart(kept[j])
               /\ PartLength(kept[j])' = PartLength(kept[j])
               /\ Retained(kept[j])' <=> Retained(kept[j])
    BY <1>1, InputsDecide
  <2> QED
    BY <1>1, <1>9, <2>1, <2>2, <2>3 DEF SlotMoved
<1>11. MoveProgress'
  <2>1. size <= BLOCK => i + n = size
    BY <1>5, <1>6
  <2>2. opts'.relocate
    BY <1>1, <1>4 DEF Located, MoveProgress
  <2> QED
    BY <1>1, <1>5, <1>9, <2>1, <2>2 DEF MoveProgress
<1>12. \A a \in Addr : ~InTarget(a)' => OwnOrErased(a)'
  <2> SUFFICES ASSUME NEW a \in Addr, ~InTarget(a)' PROVE OwnOrErased(a)'
    OBVIOUS
  <2>1. ~InTarget(a)
    BY <1>9 DEF InTarget
  <2>2. ~InBlock(a)
    <3>1. ~(start + g <= a /\ a < start + (g + size))
      BY <1>3, <1>9, <2>1 DEF InTarget, Within
    <3> QED
      BY <1>3, <1>6, <3>1, ImageAssumption DEF Addr
  <2>3. OwnOrErased(a)
    BY <1>4, <2>1 DEF Located, DataMoved
  <2> HIDE DEF InBlock
  <2> QED
    BY <1>8, <2>2, <2>3 DEF OwnOrErased
<1>13. ASSUME SafeMove(f, size, g), NEW a \in Addr
       PROVE  IF Within(ME, a, g, g + (i + n))
                THEN buf'[a] = a - g + f \/ buf'[a] = FF
                ELSE OwnOrErased(a)'
  <2> DEFINE Written(b, m) == start + g <= b /\ b < start + (g + m)
  <2>1. \A b \in Addr :
          IF Written(b, i)
            THEN buf[b] = b - g + f \/ buf[b] = FF
            ELSE buf[b] = b \/ buf[b] = FF
    <3>1. \A b \in Addr :
            IF Within(ME, b, g, g + i)
              THEN buf[b] = b - g + f \/ buf[b] = FF
              ELSE buf[b] = b \/ buf[b] = FF
      BY <1>4, <1>9, <1>13 DEF Located, DataMoved, OwnOrErased
    <3> QED
      BY <1>3, <3>1 DEF Within
  <2>2. CASE InBlock(a)
    <3>1. PICK b \in Addr : b = a - g + f
      BY <1>7, <2>2
    <3>2. ~Written(b, i)
      <4>1. a \in Int
        BY ImageAssumption DEF Addr
      <4> QED
        BY <1>5, <1>6, <1>13, <2>2, <3>1, <4>1 DEF SafeMove
    <3>3. buf[b] = b \/ buf[b] = FF
      <4> HIDE DEF Written
      <4> QED
        BY <2>1, <3>2
    <3>4. buf'[a] = buf[b]
      <4> HIDE DEF InBlock
      <4> QED
        BY <1>8, <2>2, <3>1
    <3>5. Written(a, i + n)
      <4>1. a \in Int
        BY ImageAssumption DEF Addr
      <4> QED
        BY <1>6, <2>2, <4>1
    <3>6. Within(ME, a, g, g + (i + n))
      BY <1>3, <3>5 DEF Within
    <3> QED
      BY <3>1, <3>3, <3>4, <3>6
  <2>3. CASE ~InBlock(a)
    <3>1. Written(a, i + n) <=> Written(a, i)
      <4>1. a \in Int
        BY ImageAssumption DEF Addr
      <4> QED
        BY <1>6, <2>3, <4>1
    <3>2. buf'[a] = FF \/ buf'[a] = buf[a]
      <4> HIDE DEF InBlock
      <4> QED
        BY <1>8, <2>3
    <3>3. Within(ME, a, g, g + (i + n)) <=> Written(a, i + n)
      BY <1>3 DEF Within
    <3> HIDE DEF Written
    <3> QED
      BY <2>1, <3>1, <3>2, <3>3 DEF OwnOrErased
  <2> QED
    BY <2>2, <2>3
<1>14. DataMoved'
  BY <1>9, <1>12, <1>13 DEF DataMoved
<1> QED
  BY <1>4, <1>10, <1>11, <1>14 DEF Located, StillLocated

LEMMA LocatedFinish ==
  ASSUME IInv, Located, FinishMove
  PROVE  Located'
<1>1. CASE pc' = "panic"
  BY <1>1, LocatedFailed
<1>2. CASE pc' # "panic"
  <2>1. /\ UNCHANGED <<buf, inputs, kept, slots, move>>
        /\ pc = "move" /\ move.i >= move.size /\ pc' = "done"
        /\ ftprOffset' = move.to /\ table' = table /\ opts' = opts
    BY <1>2 DEF FinishMove, inputs
  <2>2. InMove /\ opts.relocate
    BY <2>1 DEF InMove, Located, MoveProgress
  <2>3. end' # None
    <3>1. end \in Int /\ move.to \in Int /\ ftprOffset \in Int /\ extraEnd \in Int
      BY <2>1, Types DEF IInv, Phase, TypeOK
    <3> QED
      BY <3>1, NoneAssumption DEF FinishMove, ResultEnd
  <2>4. InMove'
    BY <2>1, <2>2, <2>3 DEF InMove
  <2>5. SlotMoved'
    <3>1. FtprSlot' = FtprSlot
      BY <2>1, FtprSlotSame
    <3>2. \A j : /\ PartStart(kept[j])' = PartStart(kept[j])
                 /\ PartLength(kept[j])' = PartLength(kept[j])
                 /\ Retained(kept[j])' <=> Retained(kept[j])
      BY <2>1, InputsDecide
    <3> QED
      BY <2>1, <2>2, <3>1, <3>2 DEF Located, SlotMoved
  <2>6. MoveProgress'
    BY <2>1, <2>2 DEF Located, MoveProgress
  <2>7. DataMoved'
    BY <2>1, <2>2 DEF Located, DataMoved, OwnOrErased, InTarget
  <2> QED
    BY <2>4, <2>5, <2>6, <2>7 DEF Located, StillLocated
<1> QED
  BY <1>1, <1>2

LEMMA LocatedNext ==
  ASSUME IInv, Located, IInv', [Next]_vars
  PROVE  Located'
<1>1. CASE pc' \in Early
  BY <1>1, LocatedEarly
<1>2. CASE pc' \in {"err", "panic"}
  BY <1>2, LocatedFailed
<1>3. CASE pc' \in {"move", "done"}
  <2>1. CASE ModulesUnknown \/ StayInPlace
    BY <2>1, LocatedInPlace
  <2>2. CASE StartMove
    BY <2>2, LocatedStartMove
  <2>3. CASE MoveBlock
    BY <2>3, LocatedMoveBlock
  <2>4. CASE FinishMove
    BY <2>4, LocatedFinish
  <2>5. CASE UNCHANGED vars
    <3>1. UNCHANGED <<buf, inputs, k, kept, extraEnd, slots, hdr, ftprOffset,
                      end, move, pc>> /\ table' = table /\ opts' = opts
      BY <2>5 DEF vars, inputs
    <3>2. /\ FtprSlot' = FtprSlot
          /\ \A j : /\ PartStart(kept[j])' = PartStart(kept[j])
                    /\ PartLength(kept[j])' = PartLength(kept[j])
                    /\ Retained(kept[j])' <=> Retained(kept[j])
      BY <3>1, FtprSlotSame, InputsDecide
    <3>3. InMove' <=> InMove
      BY <3>1 DEF InMove
    <3>4. StillLocated'
      BY <3>1, <3>2, <3>3 DEF Located, StillLocated, OwnOrErased
    <3>5. SlotMoved'
      BY <3>1, <3>2, <3>3 DEF Located, SlotMoved
    <3>6. MoveProgress' /\ DataMoved'
      BY <3>1, <3>3
         DEF Located, MoveProgress, DataMoved, OwnOrErased, InTarget
    <3> QED
      BY <3>4, <3>5, <3>6 DEF Located
  <2> QED
    BY <1>3, <2>1, <2>2, <2>3, <2>4, <2>5
       DEF Next, ScanPanic, SkipNvram, SkipNoData, KeepPartition,
           RemovePartition, RewriteTable, ClearEffs, FixChecksum, ModulesFail,
           KeepModules, StripModules, RelocateFails, Scanning
<1> QED
  BY <1>1, <1>2, <1>3 DEF IInv, TypeOK, Early

THEOREM TableInvariance == Spec => []JInv
<1>1. Init => JInv
  BY CountedInit, LocatedInit DEF JInv
<1>2. IInv /\ JInv /\ IInv' /\ [Next]_vars => JInv'
  BY CountedNext, LocatedNext DEF JInv
<1> QED
  BY <1>1, <1>2, Invariance, PTL DEF Spec
-----------------------------------------------------------------------------
\* The entries of the finished table, whether a relocation has taken place or
\* not.
LEMMA Listing ==
  ASSUME IInv, JInv, pc = "done"
  PROVE  /\ hdr.num = Len(kept) /\ Len(kept) <= Len(table)
         /\ DOMAIN kept = 1 .. hdr.num
         /\ \A j \in DOMAIN table : j > hdr.num => slots[j] = FF
         /\ \A j \in DOMAIN kept :
              /\ j \in DOMAIN table /\ kept[j] \in DOMAIN table
              /\ slots[j] \in [entry : DOMAIN table, start : Nat]
              /\ slots[j].entry = kept[j] /\ slots[j] # FF
              /\ Retained(kept[j])
         /\ RetainedBelow(k) = {j \in DOMAIN table : Retained(j)}
<1>1. hdr.num = Len(kept) /\ k = Len(table) + 1 /\ pc \in Rewritten
  BY DEF IInv, Phase, Rewritten
<1>2. Len(kept) <= Len(table) /\ DOMAIN kept = 1 .. hdr.num
  BY <1>1, Types DEF IInv, KeptInv
<1>3. \A j \in DOMAIN table : j > hdr.num => slots[j] = FF
  BY <1>1, Types DEF IInv, SlotsInv
<1>4. ASSUME NEW j \in DOMAIN kept
      PROVE  /\ j \in DOMAIN table /\ kept[j] \in DOMAIN table
             /\ slots[j] \in [entry : DOMAIN table, start : Nat]
             /\ slots[j].entry = kept[j] /\ slots[j] # FF
             /\ Retained(kept[j])
  <2>1. j \in DOMAIN table /\ kept[j] \in DOMAIN table /\ j <= Len(kept)
    <3>1. j \in Nat /\ 1 <= j /\ j <= Len(kept) /\ j <= Len(table)
      BY <1>1, <1>2, Types
    <3>2. j \in DOMAIN table
      BY <3>1, Types
    <3>3. kept[j] \in DOMAIN table
      BY <3>1, Types
    <3> QED
      BY <3>1, <3>2, <3>3
  <2>2. /\ slots[j] \in [entry : DOMAIN table, start : Nat]
        /\ slots[j].entry = kept[j]
    BY <1>1, <2>1 DEF IInv, SlotsInv
  <2>3. DOMAIN table \subseteq Nat
    BY Types
  <2>4. slots[j] # FF
    BY <2>2, <2>3, SlotsAssumption
  <2> QED
    BY <2>1, <2>2, <2>4 DEF IInv, KeptInv
<1>5. RetainedBelow(k) = {j \in DOMAIN table : Retained(j)}
  BY <1>1, Types DEF RetainedBelow
<1> QED
  BY <1>1, <1>2, <1>3, <1>4, <1>5

LEMMA FtprListed ==
  ASSUME IInv, JInv
  PROVE  FtprListedIffInRegion
<1> SUFFICES ASSUME pc = "done"
             PROVE  /\ \A f \in DOMAIN table :
                         table[f].name = "FTPR" =>
                           ((\E j \in DOMAIN slots :
                               slots[j] # FF /\ slots[j].entry = f)
                              <=> (~table[f].nvram /\ HasData(f)))
                    /\ opts.relocate /\ end # None =>
                         LET e == slots[FtprSlot].entry IN
                         /\ table[e].name = "FTPR" /\ HasData(e)
                         /\ slots[FtprSlot].start = ftprOffset
  BY DEF FtprListedIffInRegion
<1>3. ASSUME NEW f \in DOMAIN table, table[f].name = "FTPR"
      PROVE  (\E j \in DOMAIN slots : slots[j] # FF /\ slots[j].entry = f)
               <=> (~table[f].nvram /\ HasData(f))
  <2>0. Retained(f) <=> ~table[f].nvram /\ HasData(f)
    BY <1>3 DEF Retained, Keep
  <2>1. ASSUME NEW j \in DOMAIN slots, slots[j] # FF, slots[j].entry = f
        PROVE  Retained(f)
    <3>1. j \in DOMAIN kept
      BY <2>1, Listing, Types
    <3> QED
      BY <2>1, <3>1, Listing
  <2>2. ASSUME Retained(f)
        PROVE  \E j \in DOMAIN slots : slots[j] # FF /\ slots[j].entry = f
    <3>1. PICK h \in DOMAIN kept : kept[h] = f
      BY <2>2, Listing DEF JInv, Counted
    <3> QED
      BY <3>1, Listing, Types
  <2> QED
    BY <2>0, <2>1, <2>2
<1>4. ASSUME opts.relocate, end # None
      PROVE  /\ table[slots[FtprSlot].entry].name = "FTPR"
             /\ HasData(slots[FtprSlot].entry)
             /\ slots[FtprSlot].start = ftprOffset
  <2>1. InMove
    BY <1>4 DEF InMove
  <2>2. PICK s \in DOMAIN kept :
          s = FtprSlot /\ Retained(kept[s]) /\ slots[s].start = move.to
    BY <2>1 DEF JInv, Located, SlotMoved
  <2>3. ftprOffset = move.to
    BY <2>1 DEF JInv, Located, MoveProgress
  <2>4. slots[s].entry = kept[s]
    BY Listing
  <2>5. table[kept[s]].name = "FTPR" /\ HasData(kept[s])
    BY <1>4, <2>2, OnlyFtprWithRelocate DEF IInv, Retained
  <2> QED
    BY <2>2, <2>3, <2>4, <2>5
<1> QED
  BY <1>3, <1>4

\* The cells a slot points to are its partition's own, or erased.
LEMMA DataFound ==
  ASSUME IInv, JInv, pc = "done", NEW j \in DOMAIN kept
  PROVE  \/ EntryFindsData(j) \/ WrittenOver(j)
         \/ /\ opts.relocate
            /\ ~SafeMove(PartStart(slots[j].entry), PartLength(slots[j].entry),
                         slots[j].start)
<1>1. PICK p \in DOMAIN table : p = kept[j]
  BY Listing
<1>2. slots[j].entry = p /\ Retained(p)
  BY <1>1, Listing
<1>3. PartStart(p) \in Nat /\ PartLength(p) \in Int /\ PartEnd(p) <= MeLen
      /\ PartEnd(p) = PartStart(p) + PartLength(p)
  BY <1>1, <1>2, Types, PartitionType DEF Retained, HasData, PartEnd
<1>4. CASE PartLength(p) < 0
  <2>1. 0 .. PartLength(p) - 1 = {}
    BY <1>3, <1>4
  <2> QED
    BY <1>2, <2>1 DEF EntryFindsData
<1>5. CASE PartLength(p) >= 0
  <2>1. PICK s \in Nat, len \in Nat, start \in Nat, stop \in Nat :
          /\ s = PartStart(p) /\ len = PartLength(p) /\ s + len = PartEnd(p)
          /\ start = ME.start /\ stop = ME.end /\ stop <= FileLen
          /\ start + s + len <= stop
    <3>1. ME.start \in Nat /\ ME.end \in Nat /\ ME.end <= FileLen
          /\ MeLen = ME.end - ME.start
      BY ImageAssumption DEF MeLen, RegionLen
    <3>2. PartLength(p) \in Nat /\ ME.start + PartStart(p) + PartLength(p) <= ME.end
      BY <1>3, <1>5, <3>1
    <3> QED
      BY <1>3, <3>1, <3>2
  <2>2. \A o \in 0 .. len - 1 : start + s + o \in Addr
    BY <2>1, ImageAssumption DEF Addr
  <2>3. CASE ~InMove
    <3>1. slots[j].start = s /\ \A a \in Addr : OwnOrErased(a)
      BY <1>1, <2>1, <2>3 DEF JInv, Located, StillLocated, Rewritten
    <3>2. \A o \in 0 .. len - 1 :
            buf[start + s + o] = FF \/ buf[start + s + o] = start + s + o
      BY <2>2, <3>1 DEF OwnOrErased
    <3> QED
      BY <1>2, <2>1, <3>1, <3>2 DEF EntryFindsData
  <2>4. CASE InMove
    <3>1. PICK f \in DOMAIN kept :
            /\ f = FtprSlot /\ slots[f].start = move.to
            /\ move.from = PartStart(kept[f])
            /\ move.size = PartLength(kept[f])
            /\ \A h \in DOMAIN kept \ {f} : slots[h].start = PartStart(kept[h])
      BY <2>4 DEF JInv, Located, SlotMoved
    <3>2. CASE j # f
      <4>1. slots[j].start = s
        BY <1>1, <2>1, <3>1, <3>2
      <4>2. SUFFICES ASSUME ~WrittenOver(j) PROVE EntryFindsData(j)
        OBVIOUS
      <4>3. ASSUME NEW o \in 0 .. len - 1
            PROVE  buf[start + s + o] = FF \/ buf[start + s + o] = start + s + o
        <5>1. PICK a \in Addr : a = start + s + o
          BY <2>2
        <5>2. Within(ME, a, PartStart(p), PartEnd(p))
          BY <2>1, <5>1 DEF Within
        <5>3. ~InTarget(a)
          BY <1>2, <3>1, <3>2, <4>2, <5>2 DEF WrittenOver
        <5>4. OwnOrErased(a)
          BY <2>4, <5>3 DEF JInv, Located, DataMoved
        <5> QED
          BY <5>1, <5>4 DEF OwnOrErased
      <4> QED
        BY <1>2, <2>1, <4>1, <4>3 DEF EntryFindsData
    <3>3. CASE j = f
      <4>1. PICK g \in Nat, i \in Nat :
              /\ g = move.to /\ i = move.i /\ i >= len
              /\ move.from = s /\ move.size = len /\ slots[j].start = g
              /\ start + g + len <= stop /\ opts.relocate
        <5>1. move.to \in Nat /\ move.i \in Nat
          BY DEF IInv, TypeOK
        <5>2. /\ opts.relocate /\ Check(ME, move.to, move.size)
              /\ move.i >= move.size
          BY <2>4 DEF JInv, Located, MoveProgress
        <5> QED
          BY <1>1, <2>1, <3>1, <3>3, <5>1, <5>2 DEF Check
      <4>2. SUFFICES ASSUME SafeMove(s, len, g) PROVE EntryFindsData(j)
        BY <1>2, <2>1, <4>1
      <4>3. ASSUME NEW o \in 0 .. len - 1
            PROVE  buf[start + g + o] = FF \/ buf[start + g + o] = start + s + o
        <5>1. PICK a \in Addr : a = start + g + o
          BY <2>1, <4>1, ImageAssumption DEF Addr
        <5>2. Within(ME, a, g, g + i)
          BY <2>1, <4>1, <5>1 DEF Within
        <5>3. buf[a] = a - g + s \/ buf[a] = FF
          BY <2>4, <4>1, <4>2, <5>2 DEF JInv, Located, DataMoved
        <5>4. a - g + s = start + s + o
          BY <5>1
        <5> QED
          BY <5>1, <5>3, <5>4
      <4> QED
        BY <1>2, <2>1, <4>1, <4>3 DEF EntryFindsData
    <3> QED
      BY <3>2, <3>3
  <2> QED
    BY <2>3, <2>4
<1> QED
  BY <1>3, <1>4, <1>5

\* The finished table lists the entries the lists retain, in their order, the
\* header counts them, and each tells where the data of its partition is.
THEOREM TableTrue == Spec => []TableDescribesImage
<1>1. ASSUME IInv, JInv PROVE TableDescribesImage
  <2> SUFFICES ASSUME pc = "done" PROVE TableDescribesImage
    BY DEF TableDescribesImage
  <2>1. hdr.num = Cardinality({j \in DOMAIN table : Retained(j)})
    BY <1>1, Listing DEF JInv, Counted
  <2>2. ASSUME NEW j \in DOMAIN slots PROVE slots[j] = FF <=> j > hdr.num
    <3>1. j \in DOMAIN table /\ j \in Nat /\ j >= 1 /\ hdr.num \in Nat
          /\ DOMAIN kept = 1 .. hdr.num
      BY <1>1, Listing, Types
    <3>2. CASE j > hdr.num
      BY <1>1, <3>1, <3>2, Listing
    <3>3. CASE j <= hdr.num
      <4>1. j \in DOMAIN kept
        BY <3>1, <3>3
      <4> QED
        BY <1>1, <3>1, <3>3, <4>1, Listing
    <3> QED
      BY <3>1, <3>2, <3>3
  <2>3. ASSUME NEW j \in 1 .. hdr.num, NEW h \in 1 .. j - 1
        PROVE  slots[h].entry < slots[j].entry
    <3>1. j \in DOMAIN kept /\ h \in DOMAIN kept /\ h < j
      BY SMTT(30), <1>1, Listing, Types
    <3> QED
      BY <1>1, <3>1, Listing DEF JInv, Counted
  <2>4. ASSUME NEW j \in 1 .. hdr.num
        PROVE  \/ EntryFindsData(j) \/ WrittenOver(j)
               \/ /\ opts.relocate
                  /\ ~SafeMove(PartStart(slots[j].entry),
                               PartLength(slots[j].entry), slots[j].start)
    <3>1. j \in DOMAIN kept
      BY <1>1, Listing
    <3> QED
      BY <1>1, <3>1, DataFound
  <2>5. FtprListedIffInRegion
    BY <1>1, FtprListed
  <2> QED
    BY <2>1, <2>2, <2>3, <2>4, <2>5 DEF TableDescribesImage
<1> QED
  BY <1>1, Invariance, TableInvariance, PTL
=============================================================================
