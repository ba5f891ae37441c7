-------------------------------- MODULE Amd ---------------------------------
(***************************************************************************)
(* The inspection of AMD images (amd.rs): the FET, the PSP and BIOS        *)
(* directories and where their entries are in the file.  A file is its     *)
(* length, the positions of the FET magic, with those that have padding in *)
(* front, and the directories: for each offset of a directory magic that   *)
(* magic, the count in its header and its entries.  Addresses are signed   *)
(* 32-bit numbers, as in Fit.                                              *)
(***************************************************************************)
EXTENDS Integers, Sequences, FiniteSetsExt

MEGABYTE == 1048576
WINDOW == 16 * MEGABYTE    \* the ROM bytes behind 0xff00_0000
FET_FIXED_OFFSETS ==
  {131072, 8519680, 9568256, 12713984, 14811136, 15859712, 16384000}

ComboMagics == {"2PSP", "2BHD"}
BiosMagics == {"$BHD", "$BL2", "2BHD"}
DIR_MAGICS == ComboMagics \cup BiosMagics \cup {"$PSP", "$PL2"}

\* rom_size_for
PowersOfTwo == {2^k : k \in 0 .. 23}
RomSizeFor(len) ==
  IF len >= 8 * MEGABYTE
    THEN Max({r \in {8, 16, 32} : r * MEGABYTE <= len}) * MEGABYTE
    ELSE Min({p \in PowersOfTwo : p >= len})

\* mask_addr: the addresses above 0xff00_0000 are negative.
MaskAddr_NoWindow(addr, rom) == addr % rom
MaskAddr(addr, rom) ==
  IF -WINDOW < addr /\ addr < 0 /\ rom > WINDOW THEN addr % WINDOW
                                                ELSE addr % rom

\* find_fet: a fixed place, or the first one behind padding; -1 is none.
FindFet(f) ==
  LET fixed == {p \in f.fet \cap FET_FIXED_OFFSETS : p + 4 <= f.len}
      padded == {p \in f.fet \cap f.padded : p + 4 <= f.len}
  IN  IF fixed # {} THEN Min(fixed)
      ELSE IF padded # {} THEN Min(padded) ELSE -1

\* parse_directory: what is rejected, and what is reported.
EntrySize(magic) == IF magic \in BiosMagics THEN 24 ELSE 16
IsAmdFile(f) ==
  /\ f.len \in Nat /\ DOMAIN f.dirs \subseteq Nat
  /\ \A offset \in DOMAIN f.dirs :
       LET d == f.dirs[offset] IN
       /\ d.magic \in DIR_MAGICS /\ d.count \in Nat
       /\ (/\ d.magic \notin ComboMagics
           /\ offset + 16 + d.count * EntrySize(d.magic) <= f.len) =>
            \A k \in 1 .. d.count : d.entries[k].addr \in Int
Located(e, rom) ==
  [type |-> e.type, size |-> e.size, location |-> MaskAddr(e.addr, rom)]
Sane(e, rom) == MaskAddr(e.addr, rom) < rom /\ e.size <= rom

IsDirectory(f, offset) ==
  LET d == f.dirs[offset]
      rom == RomSizeFor(f.len)
  IN  /\ offset + 16 <= f.len
      /\ d.count \in 1 .. 256
      /\ d.magic \in ComboMagics
           \/ /\ offset + 16 + d.count * EntrySize(d.magic) <= f.len
              /\ \E k \in 1 .. d.count : Sane(d.entries[k], rom)

Directory(f, offset) ==
  LET d == f.dirs[offset] IN
  [magic |-> d.magic, offset |-> offset, count |-> d.count,
   entries |-> IF d.magic \in ComboMagics THEN <<>>
               ELSE [k \in 1 .. d.count |->
                       Located(d.entries[k], RomSizeFor(f.len))]]

Directories(f) ==
  {Directory(f, offset) : offset \in {o \in DOMAIN f.dirs : IsDirectory(f, o)}}

\* parse
IsAmd(f) == FindFet(f) # -1 \/ Directories(f) # {}
=============================================================================
