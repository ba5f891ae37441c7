----------------------------- MODULE Partitions -----------------------------
(***************************************************************************)
(* remove_partitions_and_modules (cleaner.rs): the stage of `clean` that   *)
(* erases the partitions nobody asked to keep, rewrites the partition      *)
(* table ($FPT) behind them, repairs its header and hands the FTPR         *)
(* partition to the module pass and the relocation (modules.rs).           *)
(*                                                                         *)
(* The image is a buffer of cells named by the address they come from      *)
(* (Region.tla).  The table is kept apart from it: partitions are taken    *)
(* not to overlap the table.  A table slot is an entry - which original    *)
(* entry it is, and the start it holds now - or FF.  Of the header the     *)
(* fields the code touches are kept, as the numbers they add to the sum    *)
(* the checksum is about, which is taken modulo CheckMod (256).            *)
(***************************************************************************)
EXTENDS Region, Sequences, FiniteSets

CONSTANTS
  FileLen,         \* length of the image
  ME,              \* the ME region in it
  Tables,          \* partition tables: sequences of Entry records
  MaxLength,       \* the length 0xffffffff: "up to the end of the region"
  Ifwi,            \* [offset, length] of the FTPR directory outside the table
  Whitelists, Blacklists,   \* what -w and -b may hold: sets of names
  NewOffsets,      \* offsets relocate_partition may settle on
  CheckMod,        \* the checksum is modulo this
  Headers,         \* values of the header the image may start with
  None

Entry == [name : STRING, nvram : BOOLEAN, start : Nat, length : Nat]

Addr == 0 .. FileLen - 1
Image == [a \in Addr |-> a]
MeLen == RegionLen(ME)

ASSUME ImageAssumption ==
  /\ FileLen \in Nat
  /\ ME \in [start : Nat, end : Nat]
  /\ ME.start <= ME.end /\ ME.end <= FileLen
ASSUME TablesAssumption == \A t \in Tables : t \in Seq(Entry) /\ t # <<>>
ASSUME OffsetsAssumption ==
  NewOffsets \subseteq Nat /\ Ifwi \in [offset : Nat, length : Nat]
\* The length is above any region's: offsets have 32 bits.
ASSUME LengthAssumption == MaxLength \in Nat /\ MeLen <= MaxLength
ASSUME SlotsAssumption == FF \notin [entry : Nat, start : Nat]
ASSUME NoneAssumption == None \notin Int
ASSUME CheckAssumption ==
  /\ CheckMod \in Nat \ {0}
  /\ \A h \in Headers : h \in [pre : Nat, num : Nat, effs : {1}, other : Nat,
                               cksum : Nat]

VARIABLES
  buf,         \* the image being edited
  table,       \* the parsed table: fpt.partitions
  opts,        \* [white, black, relocate, keepModules]
  gen,         \* generation: 2 or 3
  me6,         \* variant "ME", major version 6
  atZero,      \* the table is at offset 0 of the region, not at 0x10
  checks,      \* the build panics on arithmetic overflow (dev and test do)
  k,           \* loop counter over the table
  kept,        \* the entries kept so far, as indices in table
  extraEnd,    \* extra_part_end
  slots,       \* the table in the image
  hdr,         \* the table's header in the image
  ftprOffset,  \* where FTPR is
  end,         \* end of the data that is retained, or None
  move,        \* the move_range under way: [from, to, size, i]
  pc

inputs == <<table, opts, gen, me6, atZero, checks>>
vars == <<buf, inputs, k, kept, extraEnd, slots, hdr, ftprOffset, end, move,
          pc>>
-----------------------------------------------------------------------------
Names(t) == {t[j].name : j \in DOMAIN t}

\* find_ftpr: the first FTPR entry - or CODE, its name in generation 1, which
\* only a partition directory can make a later one - or else the directory a
\* scan finds (length 0).
FtprNames == {"FTPR", "CODE"}
Listed(t) == Names(t) \cap FtprNames # {}
FirstFtpr(t) ==
  CHOOSE j \in DOMAIN t : t[j].name \in FtprNames
                          /\ \A h \in 1 .. j - 1 : t[h].name \notin FtprNames
IsCode(t) == Listed(t) /\ t[FirstFtpr(t)].name = "CODE"
FtprStart(t) == IF Listed(t) THEN t[FirstFtpr(t)].start ELSE Ifwi.offset
FtprLength(t) == IF Listed(t) THEN t[FirstFtpr(t)].length ELSE 0

\* What the module pass may erase of FTPR: its modules.  The directory of an
\* image whose table has none does not know its length.
FtprExtent(t) == IF Listed(t) THEN FtprLength(t) ELSE Ifwi.length

\* A name that the lists of the user keep.
Keep(name) ==
  \/ name = "FTPR"
  \/ opts.black = {} /\ name \in opts.white
  \/ opts.black # {} /\ name \notin opts.black

\* The EFFS presence flag goes away with these lists.
EffsDropped_WhitelistOnly == "EFFS" \notin opts.white
EffsDropped ==
  \/ opts.black = {} /\ "EFFS" \notin opts.white
  \/ "EFFS" \in opts.black

\* The last partition of an ME 6 table may run to the end of the region.
OpenEnded(j) == me6 /\ j = Len(table) /\ table[j].length = MaxLength
PartStart(j) == table[j].start
PartLength(j) ==
  IF OpenEnded(j) THEN MeLen - table[j].start ELSE table[j].length
PartEnd(j) == PartStart(j) + PartLength(j)
HasData_Unbounded(j) == PartStart(j) # 0 /\ PartLength(j) # 0
HasData(j) == PartStart(j) # 0 /\ PartLength(j) # 0 /\ PartEnd(j) <= MeLen

\* Partitions that are erased, and that stay in the table.
Removed(j) == ~table[j].nvram /\ HasData(j) /\ ~Keep(table[j].name)
Retained(j) == ~table[j].nvram /\ HasData(j) /\ Keep(table[j].name)

Init ==
  /\ buf = Image
  /\ table \in Tables
  /\ opts \in [white : Whitelists, black : Blacklists,
               relocate : BOOLEAN, keepModules : BOOLEAN]
  /\ opts.relocate => opts.white = {} /\ opts.black = {}
  /\ gen \in {2, 3} /\ (~Listed(table) \/ IsCode(table) => gen = 3)
  /\ me6 \in BOOLEAN /\ (me6 => gen = 2)
  /\ atZero \in BOOLEAN /\ checks \in BOOLEAN
  /\ hdr \in {h \in Headers : h.num = Len(table)}
  /\ slots = [j \in DOMAIN table |-> [entry |-> j, start |-> table[j].start]]
  /\ k = 1 /\ kept = <<>> /\ extraEnd = 0
  /\ ftprOffset = FtprStart(table)
  /\ end = None
  /\ move = [from |-> 0, to |-> 0, size |-> 0, i |-> 0]
  /\ pc = "scan"
-----------------------------------------------------------------------------
\* The loop over the partitions.  In a build with overflow checks the length
\* of an open-ended partition that starts past the region panics.
Underflows(j) == OpenEnded(j) /\ table[j].start > MeLen /\ checks

Scanning == pc = "scan" /\ k <= Len(table)

ScanPanic ==
  /\ Scanning /\ Underflows(k)
  /\ pc' = "panic"
  /\ UNCHANGED <<buf, inputs, k, kept, extraEnd, slots, hdr, ftprOffset, end,
                 move>>

SkipNvram ==
  /\ Scanning /\ ~Underflows(k)
  /\ table[k].nvram
  /\ k' = k + 1
  /\ UNCHANGED <<buf, inputs, kept, extraEnd, slots, hdr, ftprOffset, end, pc,
                 move>>

SkipNoData ==
  /\ Scanning /\ ~Underflows(k)
  /\ ~table[k].nvram /\ ~HasData(k)
  /\ k' = k + 1
  /\ UNCHANGED <<buf, inputs, kept, extraEnd, slots, hdr, ftprOffset, end, pc,
                 move>>

KeepPartition_EndForgotten ==
  /\ Scanning /\ ~Underflows(k)
  /\ Retained(k)
  /\ kept' = Append(kept, k)
  /\ k' = k + 1
  /\ UNCHANGED <<buf, inputs, extraEnd, slots, hdr, ftprOffset, end, move, pc>>

KeepPartition ==
  /\ Scanning /\ ~Underflows(k)
  /\ Retained(k)
  /\ kept' = Append(kept, k)
  /\ extraEnd' = IF table[k].name # "FTPR" /\ PartEnd(k) > extraEnd
                   THEN PartEnd(k) ELSE extraEnd
  /\ k' = k + 1
  /\ UNCHANGED <<buf, inputs, slots, hdr, ftprOffset, end, pc, move>>

RemovePartition_OneShort ==
  /\ Scanning /\ ~Underflows(k)
  /\ Removed(k)
  /\ buf' = Filled(ME, buf, PartStart(k), PartEnd(k) - 1)
  /\ k' = k + 1
  /\ UNCHANGED <<inputs, kept, extraEnd, slots, hdr, ftprOffset, end, move, pc>>

RemovePartition_OneMore ==
  /\ Scanning /\ ~Underflows(k)
  /\ Removed(k)
  /\ buf' = Filled(ME, buf, PartStart(k), PartEnd(k) + 1)
  /\ k' = k + 1
  /\ UNCHANGED <<inputs, kept, extraEnd, slots, hdr, ftprOffset, end, move, pc>>

RemovePartition ==
  /\ Scanning /\ ~Underflows(k)
  /\ Removed(k)
  /\ buf' = Filled(ME, buf, PartStart(k), PartEnd(k))
  /\ k' = k + 1
  /\ UNCHANGED <<inputs, kept, extraEnd, slots, hdr, ftprOffset, end, pc,
                 move>>

\* The kept entries move up and the slots behind them are erased.
RewriteTable ==
  /\ pc = "scan" /\ k > Len(table)
  /\ slots' = [j \in DOMAIN table |->
                 IF j <= Len(kept)
                   THEN [entry |-> kept[j], start |-> table[kept[j]].start]
                   ELSE FF]
  /\ hdr' = [hdr EXCEPT !.num = Len(kept)]
  /\ pc' = "effs"
  /\ UNCHANGED <<buf, inputs, k, kept, extraEnd, ftprOffset, end, move>>

ClearEffs ==
  /\ pc = "effs"
  /\ hdr' = IF EffsDropped THEN [hdr EXCEPT !.effs = 0] ELSE hdr
  /\ pc' = "checksum"
  /\ UNCHANGED <<buf, inputs, k, kept, extraEnd, slots, ftprOffset, end,
                 move>>

\* What a header adds up to without its checksum byte: from generation 3 on
\* the header, before it also the 0x10 bytes in front of it.
SumOf(h) == h.num + h.effs + h.other + (IF gen = 3 THEN 0 ELSE h.pre)

\* A generation 2 table at offset 0 has no bytes in front of it: the sum is
\* then over the wrong bytes (0x30 from the table on, without byte 0x1b) and
\* the checksum written may be any.
FixChecksum ==
  /\ pc = "checksum"
  /\ \E c \in 0 .. CheckMod - 1 :
       /\ (gen = 3 \/ ~atZero) => (SumOf(hdr) + c) % CheckMod = 0
       /\ hdr' = [hdr EXCEPT !.cksum = c]
  /\ pc' = "modules"
  /\ UNCHANGED <<buf, inputs, k, kept, extraEnd, slots, ftprOffset, end,
                 move>>
-----------------------------------------------------------------------------
(***************************************************************************)
(* The module pass, as far as this stage depends on it (ModulePass.tla):   *)
(* it does not know the module headers (generation 2), or fails, in        *)
(* generation 2 possibly with some modules erased, or erases some of FTPR  *)
(* and returns an end inside it.  Then comes the relocation.               *)
(***************************************************************************)
FtprCells ==
  {a \in Addr :
     a < ME.end
     /\ Within(ME, a, FtprStart(table), FtprStart(table) + FtprExtent(table))}

ModulesUnknown ==
  /\ pc = "modules" /\ gen = 2
  /\ pc' = "done"
  /\ UNCHANGED <<buf, inputs, k, kept, extraEnd, slots, hdr, ftprOffset, end,
                 move>>

ModulesFail ==
  /\ pc = "modules" /\ (gen = 3 => ~opts.keepModules)
  /\ \E cells \in SUBSET FtprCells :
       /\ gen = 3 \/ opts.keepModules => cells = {}
       /\ buf' = Erased(buf, cells)
  /\ \/ pc' = "err"
     \/ pc' = "panic" /\ gen = 2 /\ ~opts.keepModules
  /\ UNCHANGED <<inputs, k, kept, extraEnd, slots, hdr, ftprOffset, end, move>>

KeepModules ==
  /\ pc = "modules" /\ opts.keepModules
  /\ end' = ftprOffset + FtprLength(table)
  /\ pc' = "relocate"
  /\ UNCHANGED <<buf, inputs, k, kept, extraEnd, slots, hdr, ftprOffset,
                 move>>

StripModules ==
  /\ pc = "modules" /\ ~opts.keepModules
  /\ \E cells \in SUBSET FtprCells : buf' = Erased(buf, cells)
  /\ \E e \in {0} \cup ftprOffset .. ftprOffset + FtprExtent(table) : end' = e
  /\ pc' = "relocate"
  /\ UNCHANGED <<inputs, k, kept, extraEnd, slots, hdr, ftprOffset, move>>

\* The result of the stage: the end covers the partitions kept besides FTPR.
\* A negative end is one that wrapped: 2^64 more, so above any other.
ResultEnd(e) == IF e < 0 \/ e > extraEnd THEN e ELSE extraEnd

StayInPlace ==
  /\ pc = "relocate" /\ ~opts.relocate
  /\ end' = ResultEnd(end)
  /\ pc' = "done"
  /\ UNCHANGED <<buf, inputs, k, kept, extraEnd, slots, hdr, ftprOffset,
                 move>>

\* The slot whose start is rewritten: the first FTPR kept, else the first.
FtprSlot ==
  IF \E j \in DOMAIN kept : table[kept[j]].name = "FTPR"
    THEN CHOOSE j \in DOMAIN kept :
           /\ table[kept[j]].name = "FTPR"
           /\ \A h \in 1 .. j - 1 : table[kept[h]].name # "FTPR"
    ELSE 1

\* What relocate_partition moves: the partition as its slot describes it.
MoveSize(j) ==
  LET left == MeLen - slots[j].start
      length == table[slots[j].entry].length
  IN  IF length < left THEN length ELSE left

CanMove(new) ==
  /\ slots[FtprSlot] # FF
  /\ slots[FtprSlot].start <= MeLen
  /\ Check(ME, slots[FtprSlot].start, MoveSize(FtprSlot))
  /\ Check(ME, new, MoveSize(FtprSlot))

\* The start in the slot is rewritten first, then move_range takes over.
StartMove_SlotStale ==
  /\ pc = "relocate" /\ opts.relocate
  /\ \E new \in NewOffsets :
       /\ CanMove(new)
       /\ move' = [from |-> slots[FtprSlot].start, to |-> new,
                   size |-> MoveSize(FtprSlot), i |-> 0]
  /\ pc' = "move"
  /\ UNCHANGED <<buf, inputs, k, kept, extraEnd, slots, hdr, ftprOffset, end>>

StartMove ==
  /\ pc = "relocate" /\ opts.relocate
  /\ \E new \in NewOffsets :
       /\ CanMove(new)
       /\ slots' = [slots EXCEPT ![FtprSlot].start = new]
       /\ move' = [from |-> slots[FtprSlot].start, to |-> new,
                   size |-> MoveSize(FtprSlot), i |-> 0]
  /\ pc' = "move"
  /\ UNCHANGED <<buf, inputs, k, kept, extraEnd, hdr, ftprOffset, end>>

\* The erased slot, whose start is past any region, the LLUT of generation 2
\* that is not there, or the move that leaves the region is noticed after the
\* start has been rewritten.  What is written into an erased slot is not kept:
\* the image of a stage that fails is not used.
RelocateFails ==
  /\ pc = "relocate" /\ opts.relocate
  /\ \E new \in NewOffsets :
       /\ CanMove(new) => gen = 2
       /\ slots' = IF slots[FtprSlot] = FF THEN slots
                   ELSE [slots EXCEPT ![FtprSlot].start = new]
  /\ \/ pc' = "err" /\ (checks /\ slots[FtprSlot] = FF => gen = 2)
     \/ pc' = "panic" /\ checks /\ slots[FtprSlot] = FF
  /\ UNCHANGED <<buf, inputs, k, kept, extraEnd, hdr, ftprOffset, end, move>>

\* A turn of the loop of move_range.
MoveBlock ==
  /\ pc = "move" /\ move.i < move.size
  /\ LET n == Chunk(move.size, move.i) IN
       /\ buf' = BlockMoved(ME, buf, move.from + move.i, move.to + move.i, n)
       /\ move' = [move EXCEPT !.i = move.i + n]
  /\ UNCHANGED <<inputs, k, kept, extraEnd, slots, hdr, ftprOffset, end, pc>>

\* `end += new_offset - offset` wraps when FTPR moves down: the right sum in
\* a release build, a panic in a build with overflow checks.
FinishMove ==
  /\ pc = "move" /\ move.i >= move.size
  /\ ftprOffset' = move.to
  /\ end' = ResultEnd(end + move.to - ftprOffset)
  /\ pc' = IF checks /\ move.to < ftprOffset THEN "panic" ELSE "done"
  /\ UNCHANGED <<buf, inputs, k, kept, extraEnd, slots, hdr, move>>

Next ==
  \/ ScanPanic \/ SkipNvram \/ SkipNoData \/ KeepPartition \/ RemovePartition
  \/ RewriteTable \/ ClearEffs \/ FixChecksum
  \/ ModulesUnknown \/ ModulesFail \/ KeepModules \/ StripModules
  \/ StayInPlace \/ StartMove \/ RelocateFails \/ MoveBlock \/ FinishMove

Spec == Init /\ [][Next]_vars
-----------------------------------------------------------------------------
SlotsOK ==
  /\ DOMAIN slots = DOMAIN table
  /\ \A j \in DOMAIN slots :
       slots[j] \in [entry : DOMAIN table, start : Nat] \cup {FF}

TypeOK ==
  /\ buf \in [Addr -> Addr \cup {FF}]
  /\ table \in Tables
  /\ k \in 1 .. Len(table) + 1
  /\ kept \in Seq(DOMAIN table)
  /\ extraEnd \in 0 .. MeLen
  /\ SlotsOK
  /\ ftprOffset \in Nat
  /\ end \in Int \cup {None}
  /\ move \in [from : Nat, to : Nat, size : Nat, i : Nat]
  /\ pc \in {"scan", "effs", "checksum", "modules", "relocate", "move",
             "done", "err", "panic"}

InRemoved(a) ==
  \E j \in DOMAIN table : Removed(j) /\ Within(ME, a, PartStart(j), PartEnd(j))
InFtpr(a) ==
  \/ Within(ME, a, FtprStart(table), FtprStart(table) + FtprExtent(table))
  \/ \E j \in DOMAIN table : /\ table[j].name = "FTPR"
                             /\ Within(ME, a, PartStart(j), PartEnd(j))
InTarget(a) == Within(ME, a, move.to, move.to + move.size)

\* Nothing of a partition that is removed is left in the image, in its old
\* place or, carried along by the relocation, in a new one.
RemovedDataGone ==
  pc = "done" => \A a, d \in Addr : buf[a] = d => ~InRemoved(d)

\* Only removed partitions, FTPR and the place FTPR is moved to lose data:
\* every other cell of the image - kept partitions, the other flash regions -
\* is as it was, whatever the tables and the lists.
OnlyRemovedDataLost ==
  \A a \in Addr : InRemoved(a) \/ InFtpr(a) \/ InTarget(a) \/ buf[a] = a

\* Whatever the lists say, an FTPR stays in the table and is not erased as a
\* partition, provided its entry has data inside the region; an entry that
\* reaches past the region - as in an image truncated before - is dropped.  The
\* entry that is relocated is one of FTPR, with data, and says where the data
\* now is, even where the module pass worked on an entry named CODE.
FtprListedIffInRegion ==
  pc = "done" =>
    /\ \A f \in DOMAIN table :
         table[f].name = "FTPR" =>
           ((\E j \in DOMAIN slots : slots[j] # FF /\ slots[j].entry = f)
              <=> (~table[f].nvram /\ HasData(f)))
    /\ opts.relocate /\ end # None =>
         LET e == slots[FtprSlot].entry IN
         /\ table[e].name = "FTPR" /\ HasData(e)
         /\ slots[FtprSlot].start = ftprOffset

\* The entries that the finished table lists are those it kept, in order and
\* counted by the header, and each describes where its data is: the cells it
\* points to hold that partition's own data or are erased.  A relocation
\* that the block loop cannot perform is excepted (see MoveRange), and so is
\* a second entry of FTPR that the first is moved over.
EntryFindsData(j) ==
  LET e == slots[j] IN
  \A o \in 0 .. PartLength(e.entry) - 1 :
    LET c == buf[ME.start + e.start + o]
    IN  c = FF \/ c = ME.start + PartStart(e.entry) + o

WrittenOver(j) ==
  /\ j # FtprSlot
  /\ \E a \in Addr :
       InTarget(a) /\ Within(ME, a, PartStart(slots[j].entry), PartEnd(slots[j].entry))

TableDescribesImage ==
  pc = "done" =>
    /\ FtprListedIffInRegion
    /\ hdr.num = Cardinality({j \in DOMAIN table : Retained(j)})
    /\ \A j \in DOMAIN slots : slots[j] = FF <=> j > hdr.num
    /\ \A j \in 1 .. hdr.num : \A h \in 1 .. j - 1 : slots[h].entry < slots[j].entry
    /\ \A j \in 1 .. hdr.num :
         \/ EntryFindsData(j)
         \/ WrittenOver(j)
         \/ /\ opts.relocate
            /\ ~SafeMove(PartStart(slots[j].entry), PartLength(slots[j].entry),
                         slots[j].start)

\* A listed EFFS partition keeps its presence flag: the table and the header
\* are decided by two different conditions on the same two lists.
EffsEntryKeepsFlag ==
  pc \in {"checksum", "modules", "relocate", "done"} =>
    ((\E j \in DOMAIN slots : slots[j] # FF /\ table[slots[j].entry].name = "EFFS")
       => hdr.effs = 1)

\* What the firmware adds up: the header, before generation 3 with the bytes
\* in front of it.
HeaderSum == hdr.num + hdr.effs + hdr.other + hdr.cksum
             + (IF gen = 3 THEN 0 ELSE hdr.pre)

\* The finished header sums to zero: nothing the checksum covers is changed
\* after it is computed.  Generation 2 tables at offset 0 are excepted.
ChecksumHolds ==
  (pc = "done" /\ (gen = 3 \/ ~atZero)) =>
    HeaderSum % CheckMod = 0

\* The header agrees with the table it describes and with itself.
HeaderAgrees == EffsEntryKeepsFlag /\ ChecksumHolds

\* The end that the truncation of the image is computed from lies behind
\* every partition the table still lists besides FTPR.
EndCoversKept ==
  (pc = "done" /\ end # None) =>
    \A j \in 1 .. hdr.num :
      table[slots[j].entry].name # "FTPR" =>
        slots[j].start + PartLength(slots[j].entry) <= end

=============================================================================
