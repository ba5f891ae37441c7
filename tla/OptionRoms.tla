----------------------------- MODULE OptionRoms -----------------------------
(***************************************************************************)
(* scan_option_roms (bios.rs): the search of a buffer for legacy PCI       *)
(* option ROMs, and the files extract_option_roms (main.rs) writes them    *)
(* to.  A buffer is described by its length and by sig: for each position  *)
(* of the bytes 55 AA the ROM whose PCIR block the pointer behind them     *)
(* finds or None if it finds none, and by torn: the positions for which    *)
(* the size has to be read from the block but the buffer ends in front of  *)
(* it.                                                                     *)
(***************************************************************************)
EXTENDS Integers, Sequences, SequencesExt

CONSTANTS
  Roms,     \* option ROMs: [stem, data], the stem of a file name and content
  None

ASSUME RomsAssumption == None \notin Roms /\ None \notin Int

ROM_HEADER == 26   \* 0x1a, up to the pointer
ROM_STEP == 512

\* The signatures the scan stops at, from the first byte on: behind each it
\* goes on 512 bytes further, whatever it found there.
Ahead(buf, i) == {p \in DOMAIN buf.sig : i <= p /\ p + ROM_HEADER <= buf.len}
First(positions) == CHOOSE p \in positions : \A q \in positions : p <= q

Hits(buf) ==
  LET from[i \in 0 .. buf.len + ROM_STEP] ==
        IF Ahead(buf, i) = {} THEN <<>>
        ELSE LET p == First(Ahead(buf, i)) IN <<p>> \o from[p + ROM_STEP]
  IN  from[0]

ScanPanics(buf) == ToSet(Hits(buf)) \cap buf.torn # {}

\* New ROMs are appended; one that is equal to one of the list is not.
Scanned(buf, roms) ==
  LET hits == Hits(buf)
      list[k \in 0 .. Len(hits)] ==
        IF k = 0 THEN roms
        ELSE LET rom == buf.sig[hits[k]]
                 last == list[k - 1]
             IN  IF rom = None \/ rom \in ToSet(last) THEN last
                 ELSE Append(last, rom)
  IN  list[Len(hits)]

\* The name of the file of ROM k: its stem, with the number of ROMs in front
\* of it that have the same one unless that is 0.
FileName_Stem(roms, k) == [stem |-> roms[k].stem, n |-> 0]
FileName(roms, k) ==
  [stem |-> roms[k].stem,
   n |-> Cardinality({m \in 1 .. k - 1 : roms[m].stem = roms[k].stem})]
=============================================================================
