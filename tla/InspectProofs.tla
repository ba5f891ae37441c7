--------------------------- MODULE InspectProofs ----------------------------
(***************************************************************************)
(* The commands that report, for every file and every image, before and    *)
(* after `clean`.                                                          *)
(*                                                                         *)
(* What fit, amd and gbe say depends on the file alone, so the first parts *)
(* are about their parsers: modular arithmetic on addresses, in the main.  *)
(* What info, check and locks say depends on what `clean` has left; that   *)
(* rests on the invariants of CleanProofs, which hold here because a step  *)
(* of this specification is one of `clean` or leaves its variables alone.  *)
(***************************************************************************)
EXTENDS Inspect, CleanProofs, WellFoundedInduction

\* The FIT.
GuardTypes == {"KeyManifest", "BootPolicyManifest"}
Fits(f, offset) ==
  /\ offset % 16 = 0 /\ offset \in DOMAIN f.tables
  /\ offset + FIT_RECORD + Count(f.tables[offset]) * FIT_RECORD <= f.len
Guards(f, offset) ==
  \E k \in 1 .. Count(f.tables[offset]) : f.tables[offset].types[k] \in GuardTypes

LEMMA TableTypes ==
  ASSUME NEW f, IsFitFile(f), NEW offset \in DOMAIN f.tables
  PROVE  /\ offset \in Nat /\ f.len \in Nat
         /\ f.tables[offset].total \in Nat /\ Count(f.tables[offset]) \in Nat
         /\ f.tables[offset].types \in Seq(STRING)
<1>1. f.tables[offset] \in FitTable /\ offset \in Nat /\ f.len \in Nat
  BY DEF IsFitFile
<1>2. f.tables[offset].total \in Nat /\ f.tables[offset].types \in Seq(STRING)
  BY <1>1 DEF FitTable
<1> QED
  BY <1>1, <1>2 DEF Count

\* The parser finds a table exactly where it fits the file, and sees Boot Guard
\* exactly in a table that it finds.
LEMMA ParsedFit ==
  ASSUME NEW f, IsFitFile(f)
  PROVE  LET offset == f.ptr % MappingFor(f.len) IN
         /\ offset \in 0 .. MappingFor(f.len) - 1
         /\ ParseFit(f).result = "ok" <=>
              /\ f.len >= FIT_POINTER_FROM_END + 4 /\ f.ptr \notin {0, -1}
              /\ Fits(f, offset)
         /\ ParseFit(f).result = "ok" =>
              /\ ParseFit(f).offset = offset
              /\ HasBootGuard(ParseFit(f)) <=> Guards(f, offset)
         /\ ParseFit(f).result # "ok" => ~HasBootGuard(ParseFit(f))
<1> DEFINE offset == f.ptr % MappingFor(f.len)
           table == f.tables[offset]
           types == SubSeq(table.types, 1, Count(table))
           Found == [result |-> "ok", offset |-> offset, entries |-> types]
<1>1. f.len \in Nat /\ f.ptr \in Int /\ DOMAIN f.tables \subseteq Nat
  BY DEF IsFitFile
<1>2. MappingFor(f.len) \in Nat \ {0}
  BY <1>1, SMT DEF MappingFor, MiB
<1>3. offset \in 0 .. MappingFor(f.len) - 1
  BY <1>1, <1>2
<1> HIDE DEF offset
<1>4. offset \in DOMAIN f.tables => Count(table) \in Nat
  BY TableTypes
<1>5. /\ ParseFit(f).result = "ok" <=>
           /\ f.len >= FIT_POINTER_FROM_END + 4 /\ f.ptr \notin {0, -1}
           /\ Fits(f, offset)
      /\ ParseFit(f).result = "ok" => ParseFit(f) = Found
      /\ ParseFit(f).result # "ok" => ParseFit(f).entries = <<>>
  <2>1. ParseFit(f) =
          IF f.len < FIT_POINTER_FROM_END + 4 \/ f.ptr \in {0, -1}
            THEN FitError("FitNotFound")
          ELSE IF offset % 16 # 0 \/ offset + FIT_RECORD > f.len
            THEN FitError("FitInvalidPointer")
          ELSE IF offset \notin DOMAIN f.tables
            THEN FitError("FitNotFound")
          ELSE IF offset + FIT_RECORD + Count(table) * FIT_RECORD > f.len
            THEN FitError("FitInvalidPointer")
          ELSE Found
    BY DEF ParseFit, offset
  <2>2. /\ Found.result = "ok"
        /\ \A e \in {"FitNotFound", "FitInvalidPointer"} :
             FitError(e).result # "ok" /\ FitError(e).entries = <<>>
    BY DEF FitError
  <2> HIDE DEF Found, types
  <2> QED
    BY <1>1, <1>3, <1>4, <2>1, <2>2 DEF Fits, FIT_RECORD, FIT_POINTER_FROM_END
<1>6. ASSUME Fits(f, offset) PROVE HasBootGuard(Found) <=> Guards(f, offset)
  <2>1. /\ offset \in DOMAIN f.tables /\ Count(table) \in Nat
        /\ table.types \in Seq(STRING) /\ Count(table) <= Len(table.types)
    BY <1>6, TableTypes DEF Fits, IsFitFile
  <2>2. PICK list \in Seq(STRING) : list = table.types
    BY <2>1
  <2>3. PICK n \in Nat : n = Count(table)
    BY <2>1
  <2>4. DOMAIN SubSeq(list, 1, n) = 1 .. n
        /\ \A k \in 1 .. n : SubSeq(list, 1, n)[k] = list[k]
    BY <2>1, <2>2, <2>3
  <2>5. ToSet(SubSeq(list, 1, n)) = {list[k] : k \in 1 .. n}
    BY <2>4 DEF ToSet
  <2>6. HasBootGuard(Found) <=> ToSet(SubSeq(list, 1, n)) \cap GuardTypes # {}
    BY <2>2, <2>3 DEF HasBootGuard, GuardTypes
  <2> QED
    BY <2>2, <2>3, <2>5, <2>6 DEF Guards
<1>7. ParseFit(f).result # "ok" => ~HasBootGuard(ParseFit(f))
  <2>1. ToSet(<<>>) = {}
    BY DEF ToSet
  <2> QED
    BY <1>5, <2>1 DEF HasBootGuard
<1>8. Found.offset = offset
  OBVIOUS
<1> HIDE DEF Found, table, types
<1>9. /\ offset \in 0 .. MappingFor(f.len) - 1
      /\ ParseFit(f).result = "ok" <=>
           /\ f.len >= FIT_POINTER_FROM_END + 4 /\ f.ptr \notin {0, -1}
           /\ Fits(f, offset)
      /\ ParseFit(f).result = "ok" =>
           /\ ParseFit(f).offset = offset
           /\ HasBootGuard(ParseFit(f)) <=> Guards(f, offset)
      /\ ParseFit(f).result # "ok" => ~HasBootGuard(ParseFit(f))
  BY <1>3, <1>5, <1>6, <1>7, <1>8
<1> QED
  BY <1>9 DEF offset

\* The mask leads to the table that is meant, if it is that of the flash or the
\* table lies low in a flash of a multiple of it; elsewhere it never does.
Reached(f) ==
  \/ f.len \in {8 * MiB, 16 * MiB, 32 * MiB}
  \/ f.len % (16 * MiB) = 0 /\ Meant(f) < 16 * MiB

LEMMA Masked ==
  ASSUME NEW f, IsFitFile(f), f.ptr < -1, Meant(f) >= 0
  PROVE  /\ Reached(f) <=> f.ptr % MappingFor(f.len) = Meant(f)
         /\ Reached(f) => f.len >= 8 * MiB
<1>1. PICK len \in Nat : len = f.len
  BY DEF IsFitFile
<1>2. PICK ptr \in Int : ptr = f.ptr
  BY DEF IsFitFile
<1>3. len + ptr >= 0 /\ ptr < -1 /\ Meant(f) = len + ptr
  BY <1>1, <1>2 DEF Meant
<1>4. MiB = 1048576
  BY DEF MiB
<1>5. ASSUME NEW size \in {8388608, 16777216, 33554432}, len = size
      PROVE  ptr % size = len + ptr
  BY <1>3, <1>5, SMT
<1>6. ASSUME len % 16777216 = 0, len + ptr < 16777216
      PROVE  ptr % 16777216 = len + ptr /\ len >= 16777216
  BY <1>3, <1>6, SMT
<1>7. ASSUME ptr % 16777216 = len + ptr
      PROVE  len % 16777216 = 0 /\ len + ptr < 16777216
  BY <1>3, <1>7, SMT
<1>8. CASE len \in {8388608, 16777216, 33554432}
  <2>1. Reached(f) /\ MappingFor(f.len) = len /\ len >= 8388608
    BY <1>1, <1>4, <1>8, SMT DEF Reached, MappingFor
  <2> QED
    BY <1>1, <1>2, <1>3, <1>4, <1>5, <1>8, <2>1, SMT
<1>9. CASE len \notin {8388608, 16777216, 33554432}
  <2>1. MappingFor(f.len) = 16777216
    BY <1>1, <1>4, <1>9, SMT DEF MappingFor
  <2>2. Reached(f) <=> (len % 16777216 = 0 /\ len + ptr < 16777216)
    BY <1>1, <1>3, <1>4, <1>9, SMT DEF Reached
  <2> QED
    BY <1>1, <1>2, <1>3, <1>4, <1>6, <1>7, <2>1, <2>2, SMT
<1> QED
  BY <1>8, <1>9

LEMMA FitReported ==
  ASSUME NEW f, IsFitFile(f), f.ptr < -1, Meant(f) >= 0
  PROVE  LET guard == HasBootGuard(ParseFit(f)) IN
         /\ guard /\ Reached(f) => Advertised(f)
         /\ Reached(f) /\ InFile(f, Meant(f)) => (guard <=> Advertised(f))
         /\ ParseFit(f).result = "ok" /\ ~Reached(f) =>
              ParseFit(f).offset # Meant(f)
<1> DEFINE guard == HasBootGuard(ParseFit(f))
           offset == f.ptr % MappingFor(f.len)
<1>1. /\ offset \in 0 .. MappingFor(f.len) - 1
      /\ ParseFit(f).result = "ok" <=>
           /\ f.len >= FIT_POINTER_FROM_END + 4 /\ f.ptr \notin {0, -1}
           /\ Fits(f, offset)
      /\ ParseFit(f).result = "ok" =>
           /\ ParseFit(f).offset = offset
           /\ guard <=> Guards(f, offset)
      /\ ParseFit(f).result # "ok" => ~guard
  BY ParsedFit
<1>2. (Reached(f) <=> offset = Meant(f)) /\ (Reached(f) => f.len >= 8 * MiB)
  BY Masked
<1>3. f.len \in Nat /\ f.ptr \in Int
  BY DEF IsFitFile
<1> HIDE DEF offset, guard
<1>4. ASSUME Meant(f) \in DOMAIN f.tables
      PROVE  Advertised(f) <=> Guards(f, Meant(f))
  <2>1. /\ f.tables[Meant(f)].total \in Nat
        /\ Count(f.tables[Meant(f)]) \in Nat
    BY <1>4, TableTypes
  <2>2. 1 .. Count(f.tables[Meant(f)]) = 1 .. f.tables[Meant(f)].total - 1
    BY <2>1 DEF Count
  <2> QED
    BY <1>4, <2>2 DEF Advertised, Guards, GuardTypes
<1>5. ASSUME InFile(f, Meant(f)) PROVE Fits(f, Meant(f))
  <2>1. /\ Meant(f) \in DOMAIN f.tables /\ Meant(f) \in Nat
        /\ f.tables[Meant(f)].total \in Nat
    BY <1>5, TableTypes DEF InFile
  <2> QED
    BY <1>3, <1>5, <2>1 DEF InFile, Fits, Count, FIT_RECORD
<1>6. Fits(f, Meant(f)) => Meant(f) \in DOMAIN f.tables
  BY DEF Fits
<1>7. Reached(f) =>
        (ParseFit(f).result = "ok" <=> Fits(f, Meant(f)))
  BY <1>1, <1>2, <1>3, SMT DEF FIT_POINTER_FROM_END, MiB
<1> QED
  BY <1>1, <1>2, <1>4, <1>5, <1>6, <1>7 DEF guard
-----------------------------------------------------------------------------
\* The AMD directories: masking keeps an address that lies in the ROM, and takes
\* the last bytes of the address space to the last ones of the ROM.
LEMMA Remainder ==
  ASSUME NEW n \in Nat \ {0}, NEW x \in Int
  PROVE  /\ x % n \in 0 .. n - 1
         /\ x \in 0 .. n - 1 => x % n = x
         /\ x \in -n .. -1 => x % n = x + n
<1>1. x % n \in 0 .. n - 1
  OBVIOUS
<1>3. ASSUME x \in 0 .. n - 1 PROVE x % n = x
  BY <1>3, SMT
<1>4. ASSUME x \in -n .. -1 PROVE x % n = x + n
  BY <1>4, SMT
<1> QED
  BY <1>1, <1>3, <1>4

Less == {pair \in Nat \X Nat : pair[1] < pair[2]}

LEMMA SmallestOf ==
  ASSUME NEW S \in SUBSET Nat, S # {}
  PROVE  Min(S) \in S
<1>1. IsWellFoundedOn(Less, Nat)
  BY NatLessThanWellFounded, Zenon DEF OpToRel, Less
<1>2. \E x \in S : \A y \in S : <<y, x>> \notin Less
  <2> HIDE DEF Less
  <2> QED
    BY <1>1, WFMin
<1>3. PICK x \in S : \A y \in S : <<y, x>> \notin Less
  BY <1>2
<1>4. \A y \in S : ~(y < x)
  BY <1>3 DEF Less
<1>5. \A y \in S : x =< y
  BY <1>3, <1>4
<1> QED
  BY <1>5 DEF Min

LEMMA RomType ==
  ASSUME NEW len \in Nat
  PROVE  RomSizeFor(len) \in Nat \ {0}
<1>1. MEGABYTE \in Nat \ {0}
  BY SMT DEF MEGABYTE
<1>2. CASE len >= 8 * MEGABYTE
  <2> DEFINE S == {r \in {8, 16, 32} : r * MEGABYTE <= len}
  <2>1. 8 \in S /\ S \subseteq {8, 16, 32}
    BY <1>1, <1>2
  <2>2. \E x \in S : \A y \in S : x >= y
    <3> HIDE DEF S
    <3>1. CASE 32 \in S
      BY <2>1, <3>1
    <3>2. CASE 32 \notin S /\ 16 \in S
      BY <2>1, <3>2
    <3>3. CASE 32 \notin S /\ 16 \notin S
      BY <2>1, <3>3
    <3> QED
      BY <3>1, <3>2, <3>3
  <2>3. RomSizeFor(len) = Max(S) * MEGABYTE
    BY <1>2 DEF RomSizeFor
  <2> HIDE DEF S
  <2>4. Max(S) \in {8, 16, 32}
    BY <2>1, <2>2 DEF Max
  <2> QED
    BY <1>1, <2>3, <2>4
<1>3. CASE ~(len >= 8 * MEGABYTE)
  <2> DEFINE S == {p \in PowersOfTwo : p >= len}
  <2>1. PowersOfTwo \subseteq Nat \ {0}
    BY SMT DEF PowersOfTwo
  <2>2. 8 * MEGABYTE \in PowersOfTwo
    BY SMT DEF PowersOfTwo, MEGABYTE
  <2>3. S \in SUBSET Nat /\ S # {} /\ S \subseteq PowersOfTwo
    <3>1. PICK large \in PowersOfTwo : large = 8 * MEGABYTE
      BY <2>2
    <3>2. large \in S
      BY <1>1, <1>3, <2>1, <3>1
    <3> QED
      BY <2>1, <3>2
  <2>4. RomSizeFor(len) = Min(S)
    BY <1>3 DEF RomSizeFor
  <2> HIDE DEF S
  <2>5. Min(S) \in S
    BY <2>3, SmallestOf
  <2> QED
    BY <2>1, <2>3, <2>4, <2>5
<1> QED
  BY <1>2, <1>3

LEMMA Masking ==
  ASSUME NEW rom \in Nat \ {0}, NEW addr \in Int
  PROVE  LET shown == IF rom < WINDOW THEN rom ELSE WINDOW IN
         /\ MaskAddr(addr, rom) \in 0 .. rom - 1
         /\ addr \in 0 .. rom - 1 => MaskAddr(addr, rom) = addr
         /\ (addr \in -shown .. -1 /\ (rom > WINDOW => addr # -WINDOW))
              => MaskAddr(addr, rom) = addr + shown
<1>1. WINDOW \in Nat \ {0}
  BY SMT DEF WINDOW, MEGABYTE
<1>2. CASE -WINDOW < addr /\ addr < 0 /\ rom > WINDOW
  <2>1. MaskAddr(addr, rom) = addr % WINDOW
    BY <1>2 DEF MaskAddr
  <2>2. addr \in -WINDOW .. -1
    BY <1>1, <1>2
  <2>3. addr % WINDOW = addr + WINDOW
    BY <1>1, <2>2, Remainder
  <2> QED
    BY <1>1, <1>2, <2>1, <2>3
<1>3. CASE ~(-WINDOW < addr /\ addr < 0 /\ rom > WINDOW)
  <2>1. MaskAddr(addr, rom) = addr % rom
    BY <1>3 DEF MaskAddr
  <2>2. /\ addr % rom \in 0 .. rom - 1
        /\ addr \in 0 .. rom - 1 => addr % rom = addr
        /\ addr \in -rom .. -1 => addr % rom = addr + rom
    BY Remainder
  <2> QED
    BY <1>1, <1>3, <2>1, <2>2
<1> QED
  BY <1>2, <1>3

\* What EntriesMapped says of the directories of a file.
DirectoriesMapped(f, dirs) ==
  LET rom == RomSizeFor(f.len)
      shown == IF rom < WINDOW THEN rom ELSE WINDOW
  IN  \A d \in dirs :
        /\ d.offset + 16 + Len(d.entries) * EntrySize(d.magic) <= f.len
        /\ \A k \in DOMAIN d.entries :
             LET addr == f.dirs[d.offset].entries[k].addr
                 location == d.entries[k].location
             IN  /\ location \in 0 .. rom - 1
                 /\ addr \in 0 .. rom - 1 => location = addr
                 /\ (addr \in -shown .. -1 /\ (rom > WINDOW => addr # -WINDOW))
                      => location = addr + shown

LEMMA AmdReported ==
  ASSUME NEW f, IsAmdFile(f)
  PROVE  DirectoriesMapped(f, Directories(f))
<1> DEFINE rom == RomSizeFor(f.len)
           shown == IF rom < WINDOW THEN rom ELSE WINDOW
<1>1. f.len \in Nat /\ DOMAIN f.dirs \subseteq Nat /\ rom \in Nat \ {0}
  BY RomType DEF IsAmdFile
<1> HIDE DEF rom
<1>2. ASSUME NEW offset \in DOMAIN f.dirs, IsDirectory(f, offset),
             NEW d, d = Directory(f, offset)
      PROVE  /\ d.offset + 16 + Len(d.entries) * EntrySize(d.magic) <= f.len
             /\ \A k \in DOMAIN d.entries :
                  LET addr == f.dirs[d.offset].entries[k].addr
                      location == d.entries[k].location
                  IN  /\ location \in 0 .. rom - 1
                      /\ addr \in 0 .. rom - 1 => location = addr
                      /\ (addr \in -shown .. -1
                            /\ (rom > WINDOW => addr # -WINDOW))
                           => location = addr + shown
  <2> DEFINE dir == f.dirs[offset]
             found == [k \in 1 .. dir.count |-> Located(dir.entries[k], rom)]
  <2>1. /\ d.offset = offset /\ d.magic = dir.magic
        /\ d.entries = IF dir.magic \in ComboMagics THEN <<>> ELSE found
    BY <1>2 DEF Directory, rom
  <2>2. /\ offset + 16 <= f.len /\ dir.count \in 1 .. 256
        /\ dir.magic \in ComboMagics
             \/ offset + 16 + dir.count * EntrySize(dir.magic) <= f.len
    BY <1>2 DEF IsDirectory
  <2>3. offset \in Nat
    BY <1>1
  <2>4. CASE dir.magic \in ComboMagics
    <3>1. d.entries = <<>> /\ EntrySize(d.magic) \in Nat
      BY <2>1, <2>4 DEF EntrySize
    <3>2. Len(d.entries) * EntrySize(d.magic) = 0
      BY <3>1
    <3>3. DOMAIN d.entries = {}
      BY <3>1
    <3>4. d.offset + 16 + Len(d.entries) * EntrySize(d.magic) <= f.len
      <4> HIDE DEF found, dir
      <4> QED
        BY <1>1, <2>1, <2>2, <2>3, <3>2
    <3> QED
      BY <3>3, <3>4
  <2>5. CASE dir.magic \notin ComboMagics
    <3>1. d.entries = found /\ DOMAIN found = 1 .. dir.count
      BY <2>1, <2>5
    <3>2. Len(found) = dir.count
      BY <2>2
    <3>3. \A k \in 1 .. dir.count : dir.entries[k].addr \in Int
      BY <2>2, <2>5 DEF IsAmdFile
    <3>4. ASSUME NEW k \in 1 .. dir.count
          PROVE  found[k].location = MaskAddr(dir.entries[k].addr, rom)
      BY DEF Located
    <3> HIDE DEF found
    <3>5. d.offset + 16 + Len(d.entries) * EntrySize(d.magic) <= f.len
      BY <2>1, <2>2, <2>5, <3>1, <3>2
    <3>6. ASSUME NEW k \in DOMAIN d.entries,
                 NEW addr, addr = dir.entries[k].addr,
                 NEW location, location = d.entries[k].location
          PROVE  /\ location \in 0 .. rom - 1
                 /\ addr \in 0 .. rom - 1 => location = addr
                 /\ (addr \in -shown .. -1
                       /\ (rom > WINDOW => addr # -WINDOW))
                      => location = addr + shown
      <4>1. addr \in Int /\ location = MaskAddr(addr, rom)
        BY <3>1, <3>3, <3>4, <3>6
      <4> QED
        BY <1>1, <4>1, Masking
    <3> QED
      BY <2>1, <3>5, <3>6
  <2> QED
    BY <2>4, <2>5
<1> QED
  BY <1>2 DEF DirectoriesMapped, Directories, rom
-----------------------------------------------------------------------------
\* The LAN region: its banks, and the first of them that is valid.
LEMMA GbeRegionType ==
  ASSUME NEW f, IsGbeFile(f), HasGbe(f)
  PROVE  /\ GbeRegion(f).start \in Nat /\ GbeRegion(f).end \in Nat
         /\ GbeRegion(f).end <= f.len
<1>1. f.len \in Nat /\ f.reg \in Flreg
  BY DEF IsGbeFile
<1>2. OptionalRegion(f).start \in Nat /\ OptionalRegion(f).end \in Nat
  BY <1>1, Decoded DEF OptionalRegion
<1> QED
  BY <1>1, <1>2 DEF GbeRegion, HasGbe

LEMMA BanksInRegion ==
  ASSUME NEW region, region.start \in Nat, region.end \in Nat
  PROVE  /\ Banks(region) \in Seq(Nat) /\ Len(Banks(region)) \in 0 .. 2
         /\ \A n \in DOMAIN Banks(region) :
              /\ region.start <= Banks(region)[n]
              /\ Banks(region)[n] + NVM_BYTES <= region.end
         /\ Len(Banks(region)) = 2 =>
              Banks(region)[1] + NVM_BYTES <= Banks(region)[2]
<1>1. PICK start \in Nat : start = region.start
  OBVIOUS
<1>2. PICK len \in Int : len = RegionLen(region) /\ region.end = start + len
  BY <1>1 DEF RegionLen
<1>3. PICK half \in Int : half = len \div 2
  BY <1>2
<1>4. half + half <= len
  BY <1>2, <1>3
<1>5. Banks(region) = IF len < 128 THEN <<>>
                      ELSE IF half >= 128 THEN <<start, start + half>>
                      ELSE <<start>>
  BY <1>1, <1>2, <1>3 DEF Banks, NVM_BYTES
<1>6. CASE len < 128
  <2>1. Banks(region) = <<>>
    BY <1>5, <1>6
  <2> QED
    BY <2>1
<1>7. CASE ~(len < 128) /\ half >= 128
  <2>1. Banks(region) = <<start, start + half>>
    BY <1>5, <1>7
  <2> QED
    BY <1>1, <1>2, <1>4, <1>7, <2>1 DEF NVM_BYTES
<1>8. CASE ~(len < 128) /\ ~(half >= 128)
  <2>1. Banks(region) = <<start>>
    BY <1>5, <1>8
  <2> QED
    BY <1>1, <1>2, <1>8, <2>1 DEF NVM_BYTES
<1> QED
  BY <1>6, <1>7, <1>8

LEMMA FirstValid ==
  ASSUME NEW f, NEW banks \in Seq(Nat), Len(banks) \in 0 .. 2
  PROVE  /\ Active(f, banks) = 0 <=> ~\E n \in DOMAIN banks : banks[n] \in f.valid
         /\ Active(f, banks) # 0 => banks[Active(f, banks)] \in f.valid
<1>1. DOMAIN banks = 1 .. Len(banks)
  OBVIOUS
<1>2. CASE ~\E n \in DOMAIN banks : banks[n] \in f.valid
  BY <1>2 DEF Active
<1>3. CASE \E n \in DOMAIN banks : banks[n] \in f.valid
  <2>1. \E n \in DOMAIN banks : banks[n] \in f.valid
                                  /\ \A m \in 1 .. n - 1 : banks[m] \notin f.valid
    <3>1. CASE 1 \in DOMAIN banks /\ banks[1] \in f.valid
      BY <3>1
    <3>2. CASE ~(1 \in DOMAIN banks /\ banks[1] \in f.valid)
      <4>1. 2 \in DOMAIN banks /\ banks[2] \in f.valid
        BY <1>1, <1>3, <3>2
      <4>2. 1 \in DOMAIN banks
        BY <1>1, <4>1
      <4> QED
        BY <3>2, <4>1, <4>2
    <3> QED
      BY <3>1, <3>2
  <2>2. Active(f, banks) \in DOMAIN banks /\ banks[Active(f, banks)] \in f.valid
    BY <1>3, <2>1 DEF Active
  <2> QED
    BY <1>1, <1>3, <2>2
<1> QED
  BY <1>2, <1>3

\* What BanksReadable says of the banks of a file and of the active one.
BanksFound(f, banks, active) ==
  LET region == GbeRegion(f)
      Covers(n) == banks[n] .. banks[n] + NVM_BYTES - 1
  IN  /\ \A n \in DOMAIN banks :
           /\ region.start <= banks[n] /\ region.end <= f.len
           /\ banks[n] + NVM_BYTES <= region.end
      /\ \A m, n \in DOMAIN banks : m # n => Covers(m) \cap Covers(n) = {}
      /\ active = 0 <=> ~\E n \in DOMAIN banks : banks[n] \in f.valid
      /\ active # 0 => banks[active] \in f.valid

LEMMA GbeReported ==
  ASSUME NEW f, IsGbeFile(f)
  PROVE  BanksFound(f, GbeSays(f).banks, GbeSays(f).active)
<1>1. CASE HasGbe(f)
  <2>1. PICK banks \in Seq(Nat) : banks = Banks(GbeRegion(f))
    BY <1>1, GbeRegionType, BanksInRegion
  <2>2. GbeSays(f).banks = banks /\ GbeSays(f).active = Active(f, banks)
    BY <1>1, <2>1 DEF GbeSays
  <2>3. /\ Len(banks) \in 0 .. 2
        /\ \A n \in DOMAIN banks :
             /\ GbeRegion(f).start <= banks[n]
             /\ GbeRegion(f).end <= f.len
             /\ banks[n] + NVM_BYTES <= GbeRegion(f).end
        /\ Len(banks) = 2 => banks[1] + NVM_BYTES <= banks[2]
    BY <1>1, <2>1, GbeRegionType, BanksInRegion
  <2>4. \A m, n \in DOMAIN banks :
          m # n => (banks[m] .. banks[m] + NVM_BYTES - 1)
                     \cap (banks[n] .. banks[n] + NVM_BYTES - 1) = {}
    <3>1. DOMAIN banks \subseteq {1, 2}
          /\ (2 \in DOMAIN banks => Len(banks) = 2 /\ banks[1] \in Nat)
          /\ \A n \in DOMAIN banks : banks[n] \in Nat
      BY <2>3
    <3>2. ASSUME Len(banks) = 2
          PROVE  (banks[1] .. banks[1] + NVM_BYTES - 1)
                   \cap (banks[2] .. banks[2] + NVM_BYTES - 1) = {}
      <4>1. PICK first \in Nat, second \in Nat :
              first = banks[1] /\ second = banks[2]
        BY <3>2
      <4>2. first + NVM_BYTES <= second /\ NVM_BYTES \in Nat
        BY <2>3, <3>2, <4>1 DEF NVM_BYTES
      <4>3. \A x \in first .. first + NVM_BYTES - 1 :
              x \notin second .. second + NVM_BYTES - 1
        BY <4>2
      <4> QED
        BY <4>1, <4>3
    <3> QED
      BY <3>1, <3>2
  <2>5. /\ Active(f, banks) = 0 <=> ~\E n \in DOMAIN banks : banks[n] \in f.valid
        /\ Active(f, banks) # 0 => banks[Active(f, banks)] \in f.valid
    BY <2>3, FirstValid
  <2> QED
    BY <2>2, <2>3, <2>4, <2>5 DEF BanksFound
<1>2. CASE ~HasGbe(f)
  <2>1. GbeSays(f).banks = <<>> /\ GbeSays(f).active = 0
    BY <1>2 DEF GbeSays
  <2> QED
    BY <2>1 DEF BanksFound
<1> QED
  BY <1>1, <1>2
-----------------------------------------------------------------------------
(***************************************************************************)
(* `clean`, once more.  What its invariants do not say and the answers     *)
(* depend on: that a region which was analysed lies in the file, what -d   *)
(* writes and when, which generations are erased, and that an image left   *)
(* with an FTPR of its own is a signed one.                                *)
(***************************************************************************)
AfterHarden == {"extract descriptor", "extract ME", "signature"}

RegionRead ==
  (pc \in Steps \ {"analyze"} \/ outcome = "ok") =>
    /\ img.kind # "other"
    /\ ~IsEmpty(MeRegion) => MeRegion.end <= img.len
DumpRequired ==
  (opts.descriptor
     /\ (pc \in Steps \ {"analyze", "validate"} \/ outcome = "ok")) => FullImage
ErasedKnown == flash.me = FF => Generation1 \/ a.generation = 2
NotLonger == flash.len <= img.len
AccessWritten ==
  /\ pc \in Steps \ AfterHarden => flash.flmstr = img.flmstr
  /\ (opts.descriptor /\ (pc \in AfterHarden \/ (outcome = "ok" /\ a.ftpr))) =>
       flash.flmstr = HardenedFlmstr(a.generation, img.flmstr)
SignatureValid ==
  outcome = "ok" => ~a.ftpr \/ Generation1 \/ flash.me = FF \/ img.signature = "valid"

LeftInv ==
  /\ RegionRead /\ DumpRequired /\ ErasedKnown /\ NotLonger /\ AccessWritten
  /\ SignatureValid

LEMMA LeftInit == Init => LeftInv
<1> SUFFICES ASSUME Init PROVE LeftInv
  OBVIOUS
<1>1. img \in Image /\ pc = "analyze" /\ outcome = None /\ flash = Original
  BY ImagesAssumption DEF Init
<1>2. flash.me # FF /\ flash.len = img.len /\ flash.flmstr = img.flmstr
  BY <1>1, WipedAssumption DEF Original
<1>3. outcome # "ok" /\ img.len \in Nat
  BY <1>1, NoneAssumption DEF Results, Image
<1> QED
  BY <1>1, <1>2, <1>3
  DEF LeftInv, RegionRead, DumpRequired, ErasedKnown, NotLonger, AccessWritten,
      SignatureValid, AfterHarden

\* The steps between the validation and the hardening.
LEMMA BeforeHarden ==
  ASSUME IInv, LeftInv, UNCHANGED inputs, a' = a,
         pc \in Steps \ ({"analyze", "validate"} \cup AfterHarden),
         pc' \notin AfterHarden, outcome' = "ok" => ~a.ftpr,
         flash'.flmstr = flash.flmstr, flash'.len <= img.len,
         flash'.me = FF => flash.me = FF \/ Generation1 \/ a.generation = 2
  PROVE  LeftInv'
<1>1. /\ img' = img /\ opts' = opts /\ FullImage' = FullImage
      /\ MeRegion' = MeRegion /\ Generation1' = Generation1
  BY InputsFix DEF Generation1
<1>2. RegionRead' /\ DumpRequired'
  BY <1>1 DEF LeftInv, RegionRead, DumpRequired
<1>3. ErasedKnown' /\ NotLonger' /\ SignatureValid'
  BY <1>1 DEF LeftInv, ErasedKnown, NotLonger, SignatureValid
<1>4. AccessWritten'
  BY <1>1 DEF LeftInv, AccessWritten
<1> QED
  BY <1>2, <1>3, <1>4 DEF LeftInv

LEMMA AnalyzeLeft ==
  ASSUME IInv, LeftInv, Analyze
  PROVE  LeftInv'
<1>1. /\ UNCHANGED inputs /\ img' = img /\ opts' = opts
      /\ FullImage' = FullImage /\ MeRegion' = MeRegion /\ flash' = flash
  BY InputsFix DEF Analyze
<1>2. img \in Image /\ MeRegion.end \in Nat /\ img.len \in Nat
  BY GenerationType, ImagesAssumption DEF IInv, Known, Image
<1>3. \/ pc' = "stop" /\ outcome' # "ok"
      \/ /\ pc' = "validate" /\ outcome' = None /\ img.kind # "other"
         /\ ~IsEmpty(MeRegion) => MeRegion.end <= img.len
  <2>1. pc = "analyze" /\ outcome = None
    BY DEF Analyze, IInv, Known, Steps
  <2>2. ~(MeRegion.end > img.len) => MeRegion.end <= img.len
    BY <1>2
  <2> QED
    BY <2>1, <2>2 DEF Analyze, Stop, Continue
<1>4. pc = "analyze" /\ flash = Original /\ outcome' # "ok"
  BY <1>3, NoneAssumption DEF Analyze, IInv, Edited, Results
<1>5. flash.me # FF /\ flash.flmstr = img.flmstr /\ flash.len = img.len
  BY <1>4, WipedAssumption DEF Original
<1>6. pc' \notin AfterHarden
  BY <1>3 DEF AfterHarden
<1>7. RegionRead' /\ DumpRequired'
  BY <1>1, <1>3, <1>4 DEF RegionRead, DumpRequired, Steps
<1>8. ErasedKnown' /\ NotLonger' /\ SignatureValid' /\ AccessWritten'
  BY <1>1, <1>2, <1>4, <1>5, <1>6
  DEF ErasedKnown, NotLonger, SignatureValid, AccessWritten
<1> QED
  BY <1>7, <1>8 DEF LeftInv

LEMMA ValidateLeft ==
  ASSUME IInv, LeftInv, Validate
  PROVE  LeftInv'
<1>1. /\ UNCHANGED inputs /\ img' = img /\ opts' = opts /\ a' = a
      /\ FullImage' = FullImage /\ MeRegion' = MeRegion /\ flash' = flash
      /\ Generation1' = Generation1
  BY InputsFix DEF Validate, Generation1
<1>2. pc = "validate" /\ outcome' # "ok"
      /\ (pc' = "stop" \/ (pc' = "straps" /\ Refusal = None))
  BY NoneAssumption
  DEF Validate, Stop, Continue, Refusal, IInv, Known, Steps, Results
<1>3. opts.descriptor /\ ~FullImage => Refusal # None
  BY NoneAssumption DEF Refusal, NeedsFullDump, Results, Refusals
<1>4. pc' \notin AfterHarden /\ pc \in Steps \ AfterHarden
  BY <1>2 DEF AfterHarden, Steps
<1>5. RegionRead' /\ DumpRequired'
  BY <1>1, <1>2, <1>3, <1>4 DEF LeftInv, RegionRead, DumpRequired, Steps
<1>6. ErasedKnown' /\ NotLonger' /\ SignatureValid' /\ AccessWritten'
  BY <1>1, <1>2, <1>4
  DEF LeftInv, ErasedKnown, NotLonger, SignatureValid, AccessWritten
<1> QED
  BY <1>5, <1>6 DEF LeftInv

LEMMA HardenLeft ==
  ASSUME IInv, LeftInv, Harden
  PROVE  LeftInv'
<1>1. /\ UNCHANGED inputs /\ img' = img /\ opts' = opts /\ a' = a
      /\ FullImage' = FullImage /\ MeRegion' = MeRegion
      /\ Generation1' = Generation1
  BY InputsFix DEF Harden, Generation1
<1>2. /\ pc = "harden" /\ pc' = "extract descriptor" /\ outcome' = None
      /\ flash = Flash
  BY DEF Harden, Continue, IInv, Known, Edited, Steps
<1>3. pc \in Steps \ ({"analyze", "validate"} \cup AfterHarden)
      /\ pc' \in AfterHarden /\ outcome' # "ok"
  BY <1>2, NoneAssumption DEF Steps, AfterHarden, Results
<1>4. RegionRead' /\ DumpRequired'
  BY <1>1, <1>3 DEF LeftInv, RegionRead, DumpRequired
<1>5. flash'.me = flash.me /\ flash'.len = flash.len
      /\ (opts.descriptor /\ FullImage =>
            flash'.flmstr = HardenedFlmstr(a.generation, flash.flmstr))
  BY <1>2 DEF Harden, Flash
<1>6. ErasedKnown' /\ NotLonger' /\ SignatureValid'
  BY <1>1, <1>3, <1>5 DEF LeftInv, ErasedKnown, NotLonger, SignatureValid
<1>7. flash.flmstr = img.flmstr /\ (opts.descriptor => FullImage)
  BY <1>3 DEF LeftInv, AccessWritten, DumpRequired
<1>8. AccessWritten'
  BY <1>1, <1>3, <1>5, <1>7 DEF AccessWritten
<1> QED
  BY <1>4, <1>6, <1>8 DEF LeftInv

\* The last steps edit nothing; success is the signature's, or there is none.
LEMMA AfterLeft ==
  ASSUME IInv, LeftInv, ExtractDescriptor \/ ExtractMe \/ VerifySignature
  PROVE  LeftInv'
<1>1. /\ UNCHANGED inputs /\ img' = img /\ opts' = opts /\ a' = a /\ flash' = flash
      /\ FullImage' = FullImage /\ MeRegion' = MeRegion
      /\ Generation1' = Generation1
  <2>1. UNCHANGED inputs /\ a' = a /\ flash' = flash
    BY DEF ExtractDescriptor, ExtractMe, VerifySignature
  <2> QED
    BY <2>1, InputsFix DEF Generation1
<1>2. /\ pc \in AfterHarden /\ pc \in Steps \ {"analyze", "validate"}
      /\ pc' \in AfterHarden \cup {"stop"}
  BY DEF ExtractDescriptor, ExtractMe, VerifySignature, Verified, Stop, Continue,
         AfterHarden, Steps
<1>3. outcome' = "ok" => Generation1 \/ flash.me = FF \/ img.signature = "valid"
  <2>1. CASE ExtractDescriptor \/ ExtractMe
    BY <1>2, <2>1, NoneAssumption
    DEF ExtractDescriptor, ExtractMe, Stop, Continue, IInv, Known, Results
  <2>2. CASE VerifySignature
    <3>1. img.signature \in {"valid", "invalid", "outside"}
      BY ImagesAssumption DEF IInv, Known, Image
    <3>2. Verdict = "ok" => img.signature = "valid"
      BY <3>1 DEF Verdict
    <3> QED
      BY <2>2, <3>2 DEF VerifySignature, Verified, Stop
  <2> QED
    BY <2>1, <2>2
<1>4. RegionRead' /\ DumpRequired'
  BY <1>1, <1>2 DEF LeftInv, RegionRead, DumpRequired
<1>5. ErasedKnown' /\ NotLonger' /\ SignatureValid'
  BY <1>1, <1>3 DEF LeftInv, ErasedKnown, NotLonger, SignatureValid
<1>6. AccessWritten'
  BY <1>1, <1>2 DEF LeftInv, AccessWritten, Steps
<1> QED
  BY <1>4, <1>5, <1>6 DEF LeftInv

LEMMA LeftNext ==
  ASSUME IInv, XInv, LeftInv, [Next]_vars
  PROVE  LeftInv'
<1>0. /\ flash = Flash /\ flash.len \in Nat /\ flash.len <= img.len
      /\ img.len \in Nat /\ FF # "stripped"
      /\ pc \in Steps => outcome = None
      /\ outcome = None => outcome # "ok"
  BY ImagesAssumption, WipedAssumption, NoneAssumption
  DEF IInv, Known, Edited, LeftInv, NotLonger, Image, Results
<1>1. CASE Analyze
  BY <1>1, AnalyzeLeft
<1>2. CASE Validate
  BY <1>2, ValidateLeft
<1>3. CASE SetStraps
  <2>1. /\ pc = "straps" /\ pc' = "wipe" /\ outcome' = outcome
        /\ flash'.flmstr = flash.flmstr /\ flash'.len = flash.len
        /\ flash'.me = flash.me
    BY <1>0, <1>3 DEF SetStraps, Continue, Flash
  <2> QED
    BY <1>0, <1>3, <2>1, BeforeHarden DEF SetStraps, Steps, AfterHarden
<1>4. CASE WipeGeneration1
  <2>1. /\ pc = "wipe" /\ pc' = "version" /\ outcome' = outcome
        /\ flash'.flmstr = flash.flmstr /\ flash'.len = flash.len
        /\ flash'.me = flash.me \/ Generation1
    BY <1>0, <1>4 DEF WipeGeneration1, Continue, Flash
  <2> QED
    BY <1>0, <1>4, <2>1, BeforeHarden DEF WipeGeneration1, Steps, AfterHarden
<1>5. CASE CheckVersion
  <2>1. /\ pc = "version" /\ flash' = flash /\ pc' \in {"stop", "ignition"}
        /\ outcome' = "ok" => ~a.ftpr
    BY <1>0, <1>5 DEF CheckVersion, Stop, Continue, Steps
  <2> QED
    BY <1>0, <1>5, <2>1, BeforeHarden DEF CheckVersion, Steps, AfterHarden
<1>6. CASE Ignition
  <2>1. /\ pc = "ignition" /\ pc' \in {"stop", "disable", "strip"}
        /\ outcome' # "ok"
        /\ flash'.flmstr = flash.flmstr /\ flash'.len = flash.len
        /\ flash'.me = flash.me \/ a.generation = 2
    BY <1>0, <1>6 DEF Ignition, MayBeIgnition, Stop, Continue, Flash, Steps
  <2> QED
    BY <1>0, <1>6, <2>1, BeforeHarden DEF Ignition, Steps, AfterHarden
<1>7. CASE SkipStrip
  <2>1. pc = "strip" /\ flash' = flash /\ pc' = "disable" /\ outcome' = outcome
    BY <1>7 DEF SkipStrip, Continue
  <2> QED
    BY <1>0, <1>7, <2>1, BeforeHarden DEF SkipStrip, Steps, AfterHarden
<1>8. CASE StripFails \/ Strip
  <2>1. /\ pc = "strip" /\ pc' \in {"stop", "truncate"} /\ outcome' # "ok"
        /\ UNCHANGED inputs /\ a' = a
        /\ flash' = [flash EXCEPT !.me = "stripped"]
    BY <1>0, <1>8 DEF StripFails, Strip, Stop, Continue, Steps
  <2>2. /\ flash'.flmstr = flash.flmstr /\ flash'.len = flash.len
        /\ flash'.me # FF
    BY <1>0, <2>1 DEF Flash
  <2> QED
    BY <1>0, <2>1, <2>2, BeforeHarden DEF Steps, AfterHarden
<1>9. CASE Truncate
  <2>1. /\ pc = "truncate" /\ pc' = "disable" /\ outcome' = outcome
        /\ flash' = flash
             \/ \E e \in Int : e < flash.len /\ flash' = [flash EXCEPT !.len = e]
    <3>1. report.endAddr # None => Rounded(report.endAddr) \in Int
      BY RoundedType DEF IInv, Reported
    <3> QED
      BY <1>9, <3>1 DEF Truncate, Continue
  <2>2. /\ flash'.flmstr = flash.flmstr /\ flash'.len <= img.len
        /\ flash'.me = flash.me
    BY <1>0, <2>1 DEF Flash
  <2> QED
    BY <1>0, <1>9, <2>1, <2>2, BeforeHarden DEF Truncate, Steps, AfterHarden
<1>10. CASE SoftDisable
  <2>1. /\ pc = "disable" /\ pc' = "harden" /\ outcome' = outcome
        /\ flash'.flmstr = flash.flmstr /\ flash'.len = flash.len
        /\ flash'.me = flash.me
    BY <1>0, <1>10 DEF SoftDisable, Continue, Flash
  <2> QED
    BY <1>0, <1>10, <2>1, BeforeHarden DEF SoftDisable, Steps, AfterHarden
<1>11. CASE Harden
  BY <1>11, HardenLeft
<1>12. CASE ExtractDescriptor \/ ExtractMe \/ VerifySignature
  BY <1>12, AfterLeft
<1>13. CASE UNCHANGED vars
  <2>1. UNCHANGED <<inputs, a, flash, pc, outcome>>
    BY <1>13 DEF vars
  <2>2. /\ img' = img /\ opts' = opts /\ FullImage' = FullImage
        /\ MeRegion' = MeRegion /\ Generation1' = Generation1
    BY <2>1, InputsFix DEF Generation1
  <2> QED
    BY <2>1, <2>2
    DEF LeftInv, RegionRead, DumpRequired, ErasedKnown, NotLonger,
        AccessWritten, SignatureValid
<1> QED
  BY <1>1, <1>2, <1>3, <1>4, <1>5, <1>6, <1>7, <1>8, <1>9, <1>10, <1>11,
     <1>12, <1>13 DEF Next
-----------------------------------------------------------------------------
(***************************************************************************)
(* What is left, analysed again.                                           *)
(***************************************************************************)
LEMMA NowDefs ==
  /\ Now!FullImage <=> File.kind \in {"fd0", "fd10"}
  /\ Now!MeRegion = IF Now!FullImage THEN Decode(File.me)
                                     ELSE [start |-> 0, end |-> File.len]
BY DEF Now!FullImage, Now!MeRegion, Now!Decode, Decode

LEMMA WhatIsLeft ==
  ASSUME img \in Image, outcome = "ok"
  PROVE  /\ File.kind = IF img.kind = "me" /\ flash.me = FF THEN "other"
                                                            ELSE img.kind
         /\ File.fpt = IF flash.me = FF THEN "none" ELSE img.fpt
         /\ File.me = flash.meReg /\ File.len = flash.len
         /\ File.flmstr = flash.flmstr /\ File.signature = img.signature
         /\ File.ftpr = img.ftpr /\ File.cpd = img.cpd
         /\ File.manifest = img.manifest /\ File.major = img.major
BY DEF File, Left, Image

\* The generation is told as it was of what has not been erased, and of an
\* erased region there is nothing but the signature to tell it by.
LEMMA SameAnalysis ==
  ASSUME img \in Image, outcome = "ok", flash.me # FF,
         ~IsEmpty(MeRegion), ~IsEmpty(Now!MeRegion)
  PROVE  /\ Now!Analysis.generation = Analysis.generation
         /\ Now!Analysis.ftpr = Analysis.ftpr
<1>1. /\ File.kind = img.kind /\ File.fpt = img.fpt /\ File.ftpr = img.ftpr
      /\ File.cpd = img.cpd /\ File.manifest = img.manifest
      /\ File.major = img.major
  BY WhatIsLeft
<1>2. (Now!HasFtpr <=> HasFtpr) /\ Now!BaseGeneration = BaseGeneration
  BY <1>1 DEF Now!HasFtpr, HasFtpr, Now!BaseGeneration, BaseGeneration
<1>3. (Now!Resolved <=> Resolved) /\ Now!ByManifest = ByManifest
  BY <1>1, <1>2 DEF Now!Resolved, Resolved, Now!ByManifest, ByManifest
<1>4. Now!ByVersion = ByVersion
  BY <1>1, <1>3 DEF Now!ByVersion, ByVersion
<1>5. ~Now!IsEmpty(Now!MeRegion)
  BY DEF Now!IsEmpty, IsEmpty
<1> QED
  BY <1>2, <1>3, <1>4, <1>5 DEF Now!Analysis, Analysis

LEMMA ErasedAnalysis ==
  ASSUME img \in Image, outcome = "ok", flash.me = FF
  PROVE  Now!Analysis.generation \in {1, None} /\ ~Now!Analysis.ftpr
<1>1. ~Now!HasFtpr
  BY WhatIsLeft DEF Now!HasFtpr
<1>2. Now!BaseGeneration \in {1, None} /\ ~Now!Resolved
  BY <1>1 DEF Now!BaseGeneration, Now!Resolved
<1> QED
  BY <1>1, <1>2 DEF Now!Analysis

LEMMA EmptyAnalysis ==
  ASSUME IsEmpty(Now!MeRegion)
  PROVE  Now!Analysis.generation \in {1, None}
<1>1. Now!IsEmpty(Now!MeRegion)
  BY DEF Now!IsEmpty, IsEmpty
<1> QED
  BY <1>1 DEF Now!Analysis

\* The region after a success: still what it was, or gone.
LEMMA RegionLeft ==
  ASSUME IInv, XInv, LeftInv, outcome = "ok"
  PROVE  /\ img \in Image /\ a = Analysis
         /\ Now!FullImage <=> FullImage
         /\ FullImage => \/ Now!MeRegion = MeRegion /\ flash.meReg = img.me
                         \/ Generation1 /\ IsEmpty(Now!MeRegion)
         /\ ~FullImage => /\ MeRegion = [start |-> 0, end |-> img.len]
                          /\ Now!MeRegion = [start |-> 0, end |-> flash.len]
         /\ IsEmpty(MeRegion) => IsEmpty(Now!MeRegion)
         /\ Generation1 /\ FullImage => IsEmpty(Now!MeRegion)
<1>1. /\ img \in Image /\ a = Analysis /\ flash.len \in Nat /\ img.len \in Nat
      /\ flash.meReg \in {img.me, DisabledMe}
      /\ flash.meReg = img.me \/ Generation1
      /\ flash.len <= img.len
      /\ (Generation1 /\ FullImage /\ ~IsEmpty(MeRegion)) =>
           flash.meReg = DisabledMe
  BY ImagesAssumption
  DEF IInv, Known, Edited, Straps, LeftInv, NotLonger, Image
<1>2. Now!FullImage <=> FullImage
  BY <1>1, WhatIsLeft, NowDefs DEF FullImage
<1>3. Now!MeRegion = IF FullImage THEN Decode(flash.meReg)
                                  ELSE [start |-> 0, end |-> flash.len]
  BY <1>1, <1>2, WhatIsLeft, NowDefs
<1>4. IsEmpty(Decode(DisabledMe))
  BY BlockAssumption DEF IsEmpty, Decode, DisabledMe
<1>5. CASE FullImage
  <2>1. MeRegion = Decode(img.me)
    BY <1>5 DEF MeRegion
  <2>2. Now!MeRegion = Decode(flash.meReg)
    BY <1>3, <1>5
  <2> QED
    BY <1>1, <1>2, <1>4, <1>5, <2>1, <2>2
<1>6. CASE ~FullImage
  <2>1. /\ MeRegion = [start |-> 0, end |-> img.len]
        /\ Now!MeRegion = [start |-> 0, end |-> flash.len]
    BY <1>3, <1>6 DEF MeRegion
  <2>2. IsEmpty(MeRegion) => IsEmpty(Now!MeRegion)
    BY <1>1, <2>1 DEF IsEmpty
  <2> QED
    BY <1>1, <1>2, <1>6, <2>1, <2>2
<1> QED
  BY <1>5, <1>6

LEMMA CanBeAnalysed ==
  ASSUME IInv, XInv, LeftInv, outcome = "ok", MeBehindDescriptor
  PROVE  ~AnalysisPanics
<1>1. /\ img \in Image /\ File.len = flash.len /\ flash.len \in Nat
      /\ img.len \in Nat
  BY ImagesAssumption, WhatIsLeft DEF IInv, Known, Edited, Image
<1> SUFFICES ASSUME ~IsEmpty(Now!MeRegion), Now!MeRegion.end > File.len
             PROVE  FALSE
  BY DEF AnalysisPanics
<1>2. CASE FullImage
  <2>1. Now!MeRegion = MeRegion
    BY <1>2, RegionLeft
  <2>2. MeRegion.end <= img.len /\ MeRegion.end \in Nat
    BY <2>1, GenerationType DEF LeftInv, RegionRead, IInv, Known
  <2>3. a.me.start # 0
    BY <1>2, GenerationType, RegionLeft DEF MeBehindDescriptor, IInv, Known
  <2>4. flash.len = img.len
    BY <2>3 DEF XInv, Lengths
  <2> QED
    BY <1>1, <2>1, <2>2, <2>4
<1>3. CASE ~FullImage
  <2>1. Now!MeRegion.end = flash.len
    BY <1>3, RegionLeft
  <2> QED
    BY <1>1, <2>1
<1> QED
  BY <1>2, <1>3
-----------------------------------------------------------------------------
\* What the commands say of it.
LEMMA Accepted ==
  ASSUME IInv, XInv, LeftInv, outcome = "ok", MeBehindDescriptor, NEW f
  PROVE  /\ InfoSays(TRUE, f).result = "ok"
         /\ Generation1 /\ FullImage => InfoSays(FALSE, f).me = "gone"
<1>1. ~AnalysisPanics
  BY CanBeAnalysed
<1>2. /\ img \in Image /\ a = Analysis
      /\ FullImage => \/ Now!MeRegion = MeRegion /\ flash.meReg = img.me
                      \/ Generation1 /\ IsEmpty(Now!MeRegion)
      /\ IsEmpty(MeRegion) => IsEmpty(Now!MeRegion)
      /\ Generation1 /\ FullImage => IsEmpty(Now!MeRegion)
  BY RegionLeft
<1>3. ASSUME ~Unknown, ~IsEmpty(Now!MeRegion) PROVE Deed(TRUE) = "ok"
  <2> SUFFICES ASSUME Now!Analysis.generation # 1, Now!Analysis.ftpr,
                      Now!Verdict # "ok"
               PROVE  FALSE
    BY DEF Deed
  <2>1. flash.me # FF
    BY <1>2, ErasedAnalysis
  <2>2. /\ Analysis.generation = Now!Analysis.generation
        /\ Analysis.ftpr = Now!Analysis.ftpr
    BY <1>2, <1>3, <2>1, SameAnalysis
  <2>3. img.signature # "valid"
    BY <1>2, WhatIsLeft DEF Now!Verdict
  <2> QED
    BY <1>2, <2>1, <2>2, <2>3 DEF LeftInv, SignatureValid, Generation1
<1>4. InfoSays(TRUE, f).result = "ok"
  BY <1>1, <1>3 DEF InfoSays, Report
<1>5. Generation1 /\ FullImage => InfoSays(FALSE, f).me = "gone"
  <2> SUFFICES ASSUME Generation1, FullImage
               PROVE  InfoSays(FALSE, f).me = "gone"
    OBVIOUS
  <2>1. ~Unknown
    BY <1>2, WhatIsLeft DEF Unknown, FullImage
  <2> QED
    BY <1>1, <1>2, <2>1 DEF InfoSays, Report
<1> QED
  BY <1>4, <1>5

\* The access that -d leaves, in the layout of its generation.
LEMMA MaskedAccess ==
  ASSUME NEW bits
  PROVE  /\ MeReads(3, HardenedFlmstr(3, bits)) = {0, 2}
         /\ MeWrites(3, HardenedFlmstr(3, bits)) = {2}
         /\ \A generation : generation \notin 3 .. 7 =>
              /\ MeReads(generation, HardenedFlmstr(generation, bits)) = {2}
              /\ MeWrites(generation, HardenedFlmstr(generation, bits)) = {2}
<1>1. HardenedFlmstr(3, bits) = {8, 10, 22} /\ WideFields(3)
  BY DEF HardenedFlmstr, WideFields
<1>2. MeReads(3, HardenedFlmstr(3, bits)) = {r \in 0 .. 11 : r + 8 \in {8, 10, 22}}
  BY <1>1 DEF MeReads
<1>3. MeWrites(3, HardenedFlmstr(3, bits)) = {r \in 0 .. 11 : r + 20 \in {8, 10, 22}}
  BY <1>1 DEF MeWrites
<1>4. ASSUME NEW generation, generation \notin 3 .. 7
      PROVE  /\ MeReads(generation, HardenedFlmstr(generation, bits)) = {2}
             /\ MeWrites(generation, HardenedFlmstr(generation, bits)) = {2}
  <2>1. generation # 3 /\ ~WideFields(generation)
    BY <1>4 DEF WideFields
  <2> DEFINE mask == HardenedFlmstr(generation, bits)
  <2>2. \A n \in 16 .. 31 : n \in mask <=> n \in {18, 26}
    BY <2>1 DEF HardenedFlmstr
  <2> HIDE DEF mask
  <2>3. MeReads(generation, mask) = {r \in 0 .. 7 : r + 16 \in mask}
        /\ MeWrites(generation, mask) = {r \in 0 .. 7 : r + 24 \in mask}
    BY <2>1 DEF MeReads, MeWrites
  <2>4. \A r \in 0 .. 7 : (r + 16 \in mask <=> r = 2) /\ (r + 24 \in mask <=> r = 2)
    BY <2>2
  <2> QED
    BY <2>3, <2>4 DEF mask
<1> QED
  BY <1>2, <1>3, <1>4

LEMMA Hardened ==
  ASSUME IInv, XInv, LeftInv, outcome = "ok", MeBehindDescriptor,
         opts.descriptor, a.ftpr, a.generation \in 1 .. 3,
         NEW f, NEW pfat, NEW keys, NEW othersAll \in BOOLEAN
  PROVE  LET matrix == LocksSays(f, pfat, keys, othersAll).matrix IN
         /\ matrix.writes = {2} /\ ~matrix.fullyUnlocked
         /\ 2 \in matrix.reads
         /\ matrix.reads \subseteq (IF a.generation = 3 THEN {0, 2} ELSE {2})
<1>1. ~AnalysisPanics
  BY CanBeAnalysed
<1>2. /\ img \in Image /\ a = Analysis /\ FullImage /\ Now!FullImage
      /\ \/ Now!MeRegion = MeRegion
         \/ Generation1 /\ IsEmpty(Now!MeRegion)
      /\ Generation1 => IsEmpty(Now!MeRegion)
  BY RegionLeft DEF LeftInv, DumpRequired
<1>3. ~Unknown
  BY <1>2, WhatIsLeft DEF Unknown, FullImage
<1>4. File.flmstr = HardenedFlmstr(a.generation, img.flmstr)
  BY <1>2, WhatIsLeft DEF LeftInv, AccessWritten
<1>5. LocksSays(f, pfat, keys, othersAll).matrix = Matrix(othersAll)
  BY <1>1, <1>2, <1>3 DEF LocksSays
<1>6. None \notin 3 .. 7 /\ Generation = Now!Analysis.generation
  BY <1>3, NoneAssumption DEF Generation
<1>7. CASE a.generation = 3
  <2>1. flash.me # FF /\ ~Generation1
    BY <1>7 DEF LeftInv, ErasedKnown, Generation1
  <2>2. ~IsEmpty(MeRegion)
    BY <1>2 DEF Analysis
  <2>3. Generation = 3
    BY <1>2, <1>6, <1>7, <2>1, <2>2, SameAnalysis
  <2>4. MeReads(Generation, File.flmstr) = {0, 2}
        /\ MeWrites(Generation, File.flmstr) = {2}
    BY <1>4, <1>7, <2>3, MaskedAccess
  <2>5. 11 \in AllRegions
    BY <2>3 DEF AllRegions, WideFields
  <2> QED
    <3>1. MeWrites(Generation, File.flmstr) # AllRegions
      BY <2>4, <2>5
    <3>2. Matrix(othersAll).reads = {0, 2} /\ Matrix(othersAll).writes = {2}
      BY <2>4 DEF Matrix
    <3>3. ~Matrix(othersAll).fullyUnlocked
      BY <3>1, Zenon DEF Matrix
    <3> QED
      BY <1>5, <1>7, <3>2, <3>3
<1>8. CASE a.generation \in {1, 2}
  <2>1. Generation \notin 3 .. 7
    <3>1. CASE flash.me = FF
      BY <1>2, <1>6, <3>1, ErasedAnalysis
    <3>2. CASE IsEmpty(Now!MeRegion)
      BY <1>6, <3>2, EmptyAnalysis
    <3>3. CASE flash.me # FF /\ ~IsEmpty(Now!MeRegion)
      BY <1>2, <1>6, <1>8, <3>3, SameAnalysis
    <3> QED
      BY <3>1, <3>2, <3>3
  <2>2. a.generation \notin 3 .. 7
    BY <1>8
  <2>3. HardenedFlmstr(Generation, img.flmstr)
          = HardenedFlmstr(a.generation, img.flmstr)
    BY <2>1, <2>2 DEF HardenedFlmstr
  <2>4. MeReads(Generation, File.flmstr) = {2}
        /\ MeWrites(Generation, File.flmstr) = {2}
    BY <1>4, <2>1, <2>3, MaskedAccess
  <2>5. 7 \in AllRegions
    BY <2>1 DEF AllRegions, WideFields
  <2> QED
    <3>1. MeWrites(Generation, File.flmstr) # AllRegions
      BY <2>4, <2>5
    <3>2. Matrix(othersAll).reads = {2} /\ Matrix(othersAll).writes = {2}
      BY <2>4 DEF Matrix
    <3>3. ~Matrix(othersAll).fullyUnlocked
      BY <3>1, Zenon DEF Matrix
    <3> QED
      BY <1>5, <1>8, <3>2, <3>3
<1> QED
  BY <1>7, <1>8
-----------------------------------------------------------------------------
(***************************************************************************)
(* The specification: its runs of `clean` are those of Clean.tla, and the  *)
(* answer is that of the state it was given in, since nothing changes      *)
(* after it.                                                               *)
(***************************************************************************)
THEOREM RunsClean == InspectSpec => Spec
<1>1. InspectInit => Init
  BY DEF InspectInit
<1>2. [InspectNext]_allVars => [Next]_vars
  BY DEF InspectNext, Inspection, Info, ReportFit, Locks, ReportAmd, ReportGbe,
         Answer, allVars
<1> QED
  BY <1>1, <1>2, PTL DEF InspectSpec, Spec

SaidInv ==
  said # None =>
    \/ \E check \in BOOLEAN, f \in FitFiles : said = InfoSays(check, f)
    \/ \E f \in FitFiles : said = FitSays(f)
    \/ \E f \in FitFiles, pfat, othersAll \in BOOLEAN, keys \in SUBSET SbKeys :
         said = LocksSays(f, pfat, keys, othersAll)
    \/ \E f \in AmdFiles : said = AmdSays(f)
    \/ \E f \in GbeFiles : said = GbeSays(f)

LEMMA AnswersFix ==
  ASSUME UNCHANGED vars
  PROVE  /\ \A check, f : InfoSays(check, f)' = InfoSays(check, f)
         /\ \A f, pfat, keys, othersAll :
              LocksSays(f, pfat, keys, othersAll)'
                = LocksSays(f, pfat, keys, othersAll)
<1>1. File' = File
  <2>1. img' = img /\ flash' = flash /\ outcome' = outcome
    BY DEF vars, inputs
  <2> QED
    BY <2>1 DEF File, Left
<1>2. /\ Now!FullImage' = Now!FullImage /\ Now!HasFtpr' = Now!HasFtpr
      /\ Unknown' = Unknown
  BY <1>1 DEF Now!FullImage, Now!HasFtpr, Unknown
<1>3. /\ Now!MeRegion' = Now!MeRegion /\ Now!Resolved' = Now!Resolved
      /\ Now!BaseGeneration' = Now!BaseGeneration
  BY <1>1, <1>2 DEF Now!MeRegion, Now!Resolved, Now!BaseGeneration
<1>4. /\ Now!ByManifest' = Now!ByManifest /\ Now!ByVersion' = Now!ByVersion
      /\ AnalysisPanics' = AnalysisPanics
  BY <1>1, <1>2, <1>3 DEF Now!ByManifest, Now!ByVersion, AnalysisPanics
<1>5. Now!Analysis' = Now!Analysis
  BY <1>1, <1>2, <1>3, <1>4 DEF Now!Analysis
<1>6. \A check : Deed(check)' = Deed(check)
  <2>1. Now!Verdict' = Now!Verdict
    BY <1>1 DEF Now!Verdict
  <2> QED
    BY <1>5, <2>1 DEF Deed
<1>7. Generation' = Generation /\ AllRegions' = AllRegions
      /\ \A othersAll : Matrix(othersAll)' = Matrix(othersAll)
  BY <1>1, <1>2, <1>5 DEF Generation, AllRegions, Matrix
<1> QED
  BY <1>2, <1>3, <1>4, <1>6, <1>7 DEF InfoSays, LocksSays

LEMMA SaidNext ==
  ASSUME SaidInv, [InspectNext]_allVars
  PROVE  SaidInv'
<1>1. CASE said = None /\ Next /\ said' = said
  BY <1>1 DEF SaidInv
<1>2. CASE Inspection
  <2>1. UNCHANGED vars
    BY <1>2 DEF Inspection, Info, ReportFit, Locks, ReportAmd, ReportGbe, Answer
  <2>2. CASE \E check \in BOOLEAN, f \in FitFiles : Info(check, f)
    BY <2>1, <2>2, AnswersFix DEF SaidInv, Info, Answer
  <2>3. CASE \E f \in FitFiles : ReportFit(f)
    BY <2>3 DEF SaidInv, ReportFit, Answer
  <2>4. CASE \E f \in FitFiles, pfat, othersAll \in BOOLEAN,
                keys \in SUBSET SbKeys : Locks(f, pfat, keys, othersAll)
    BY <2>1, <2>4, AnswersFix DEF SaidInv, Locks, Answer
  <2>5. CASE \E f \in AmdFiles : ReportAmd(f)
    BY <2>5 DEF SaidInv, ReportAmd, Answer
  <2>6. CASE \E f \in GbeFiles : ReportGbe(f)
    BY <2>6 DEF SaidInv, ReportGbe, Answer
  <2> QED
    BY <1>2, <2>2, <2>3, <2>4, <2>5, <2>6 DEF Inspection
<1>3. CASE UNCHANGED allVars
  <2>1. UNCHANGED vars /\ said' = said
    BY <1>3 DEF allVars
  <2> QED
    BY <2>1, AnswersFix DEF SaidInv
<1> QED
  BY <1>1, <1>2, <1>3 DEF InspectNext

LEMMA InspectInvariance == InspectSpec => [](IInv /\ XInv /\ LeftInv /\ SaidInv)
<1>1. InspectInit => Init /\ SaidInv
  BY DEF InspectInit, SaidInv
<1>2. [InspectNext]_allVars => [Next]_vars
  BY DEF InspectNext, Inspection, Info, ReportFit, Locks, ReportAmd, ReportGbe,
         Answer, allVars
<1>3. Init => LeftInv
  BY LeftInit
<1>4. IInv /\ XInv /\ LeftInv /\ [Next]_vars => LeftInv'
  BY LeftNext
<1>5. SaidInv /\ [InspectNext]_allVars => SaidInv'
  BY SaidNext
<1> QED
  BY <1>1, <1>2, <1>3, <1>4, <1>5, RunsClean, Invariance, CopiesInvariance, PTL
  DEF InspectSpec

\* Which command has given an answer is in the answer.
LEMMA SaidOf ==
  ASSUME SaidInv
  PROVE  /\ Said("check") => \E f \in FitFiles : said = InfoSays(TRUE, f)
         /\ Said("info") => \E f \in FitFiles : said = InfoSays(FALSE, f)
         /\ Said("fit") => \E f \in FitFiles : said = FitSays(f)
         /\ Said("locks") =>
              \E f \in FitFiles, pfat, othersAll \in BOOLEAN,
                 keys \in SUBSET SbKeys : said = LocksSays(f, pfat, keys, othersAll)
         /\ Said("amd") => \E f \in AmdFiles : said = AmdSays(f)
         /\ Said("gbe") => \E f \in GbeFiles : said = GbeSays(f)
<1>1. \A check, f :
        InfoSays(check, f).cmd = IF check THEN "check" ELSE "info"
  BY DEF InfoSays, Report
<1>2. \A f : FitSays(f).cmd = "fit"
  BY DEF FitSays
<1>3. \A f, pfat, keys, othersAll : LocksSays(f, pfat, keys, othersAll).cmd = "locks"
  BY DEF LocksSays
<1>4. \A f : AmdSays(f).cmd = "amd"
  BY DEF AmdSays
<1>5. \A f : GbeSays(f).cmd = "gbe"
  BY DEF GbeSays
<1> QED
  BY <1>1, <1>2, <1>3, <1>4, <1>5 DEF SaidInv, Said

\* `check` accepts whatever `clean` has called a success, and `info` says of a
\* generation 1 dump that its ME is gone, of every image whose descriptor does
\* not place the ME region at 0.
THEOREM Accepts == InspectSpec => []CheckAcceptsCleaned
<1>1. ASSUME IInv, XInv, LeftInv, SaidInv PROVE CheckAcceptsCleaned
  <2> SUFFICES ASSUME outcome = "ok", MeBehindDescriptor
               PROVE  /\ Said("check") => said.result = "ok"
                      /\ (Said("info") /\ Generation1 /\ FullImage) =>
                           said.me = "gone"
    BY DEF CheckAcceptsCleaned
  <2>1. \A f : /\ InfoSays(TRUE, f).result = "ok"
               /\ Generation1 /\ FullImage => InfoSays(FALSE, f).me = "gone"
    BY <1>1, Accepted
  <2> QED
    BY <1>1, <2>1, SaidOf
<1> QED
  BY <1>1, InspectInvariance, PTL

\* After -d `locks` sees the ME confined, up to generation 3, whichever layout
\* it reads the register in.
THEOREM Confined == InspectSpec => []HardeningSeen
<1>1. ASSUME IInv, XInv, LeftInv, SaidInv PROVE HardeningSeen
  <2> SUFFICES ASSUME outcome = "ok", opts.descriptor, a.ftpr,
                      a.generation \in 1 .. 3, MeBehindDescriptor, Said("locks")
               PROVE  /\ said.matrix.writes = {2} /\ ~said.matrix.fullyUnlocked
                      /\ 2 \in said.matrix.reads
                      /\ said.matrix.reads
                           \subseteq (IF a.generation = 3 THEN {0, 2} ELSE {2})
    BY DEF HardeningSeen
  <2>1. PICK f \in FitFiles, pfat \in BOOLEAN, othersAll \in BOOLEAN,
             keys \in SUBSET SbKeys : said = LocksSays(f, pfat, keys, othersAll)
    BY <1>1, SaidOf
  <2> QED
    BY <1>1, <2>1, Hardened
<1> QED
  BY <1>1, InspectInvariance, PTL

\* Boot Guard is reported exactly if the table that the pointer means advertises
\* it, of every file, for the sizes of flash that the code knows; for others the
\* mask misses that table or finds it low in the flash.
THEOREM GuardTold == InspectSpec => []BootGuardReported
<1>1. ASSUME SaidInv PROVE BootGuardReported
  <2> SUFFICES ASSUME NEW cmd \in {"fit", "locks", "info"},
                      Said(cmd), said.result \notin {"panic"},
                      said.file.ptr < -1, Meant(said.file) >= 0
               PROVE  LET f == said.file
                          guard == IF cmd = "info" THEN said.warned
                                                   ELSE said.bootGuard
                      IN  /\ guard /\ Reached(f) => Advertised(f)
                          /\ Reached(f) /\ InFile(f, Meant(f)) /\ cmd # "info" =>
                               (guard <=> Advertised(f))
                          /\ (ParseFit(f).result = "ok" /\ ~Reached(f)) =>
                               ParseFit(f).offset # Meant(f)
    BY DEF BootGuardReported, Reached
  <2>1. \E f \in FitFiles :
          /\ said.file = f
          /\ cmd # "info" => (said.bootGuard <=> HasBootGuard(ParseFit(f)))
          /\ cmd = "info" /\ said.warned => HasBootGuard(ParseFit(f))
    <3>1. CASE cmd = "info"
      <4>1. PICK f \in FitFiles : said = InfoSays(FALSE, f)
        BY <1>1, <3>1, SaidOf
      <4>2. said.file = f /\ (said.warned => HasBootGuard(ParseFit(f)))
        BY <4>1 DEF InfoSays, Report
      <4> QED
        BY <3>1, <4>2
    <3>2. CASE cmd = "fit"
      <4>1. PICK f \in FitFiles : said = FitSays(f)
        BY <1>1, <3>2, SaidOf
      <4>2. said.file = f /\ (said.bootGuard <=> HasBootGuard(ParseFit(f)))
        BY <4>1 DEF FitSays
      <4> QED
        BY <3>2, <4>2
    <3>3. CASE cmd = "locks"
      <4>1. PICK f \in FitFiles, pfat \in BOOLEAN, othersAll \in BOOLEAN,
                 keys \in SUBSET SbKeys :
              said = LocksSays(f, pfat, keys, othersAll)
        BY <1>1, <3>3, SaidOf
      <4>2. ~AnalysisPanics
        BY <4>1 DEF LocksSays
      <4>3. said.file = f /\ (said.bootGuard <=> HasBootGuard(ParseFit(f)))
        BY <4>1, <4>2 DEF LocksSays
      <4> QED
        BY <3>3, <4>3
    <3> QED
      BY <3>1, <3>2, <3>3
  <2>2. PICK f \in FitFiles :
          /\ said.file = f
          /\ cmd # "info" => (said.bootGuard <=> HasBootGuard(ParseFit(f)))
          /\ cmd = "info" /\ said.warned => HasBootGuard(ParseFit(f))
    BY <2>1
  <2>3. IsFitFile(f) /\ f.ptr < -1 /\ Meant(f) >= 0
    BY <2>2, FilesAssumption
  <2>4. /\ HasBootGuard(ParseFit(f)) /\ Reached(f) => Advertised(f)
        /\ Reached(f) /\ InFile(f, Meant(f)) =>
             (HasBootGuard(ParseFit(f)) <=> Advertised(f))
        /\ ParseFit(f).result = "ok" /\ ~Reached(f) =>
             ParseFit(f).offset # Meant(f)
    BY <2>3, FitReported
  <2> QED
    BY <2>2, <2>4
<1> QED
  BY <1>1, InspectInvariance, PTL

\* An entry of an AMD directory is shown where its address lies in the ROM, of
\* every file and every address.
THEOREM EntriesShown == InspectSpec => []EntriesMapped
<1>1. ASSUME SaidInv PROVE EntriesMapped
  <2> SUFFICES ASSUME Said("amd") PROVE DirectoriesMapped(said.file, said.dirs)
    BY DEF EntriesMapped, DirectoriesMapped
  <2>1. PICK f \in AmdFiles : said = AmdSays(f)
    BY <1>1, SaidOf
  <2>2. said.file = f /\ said.dirs = Directories(f)
    BY <2>1 DEF AmdSays
  <2>3. DirectoriesMapped(f, Directories(f))
    BY AmdReported, FilesAssumption
  <2> QED
    BY <2>2, <2>3
<1> QED
  BY <1>1, InspectInvariance, PTL

\* The LAN region's banks lie in it and beside each other, and the first valid
\* one is the active one, of every file.
THEOREM BanksRead == InspectSpec => []BanksReadable
<1>1. ASSUME SaidInv PROVE BanksReadable
  <2> SUFFICES ASSUME Said("gbe")
               PROVE  BanksFound(said.file, said.banks, said.active)
    BY DEF BanksReadable, BanksFound
  <2>1. PICK f \in GbeFiles : said = GbeSays(f)
    BY <1>1, SaidOf
  <2>2. said.file = f
    BY <2>1 DEF GbeSays
  <2>3. BanksFound(f, GbeSays(f).banks, GbeSays(f).active)
    BY GbeReported, FilesAssumption
  <2> QED
    BY <2>1, <2>2, <2>3
<1> QED
  BY <1>1, InspectInvariance, PTL
=============================================================================
