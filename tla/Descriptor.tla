----------------------------- MODULE Descriptor -----------------------------
(***************************************************************************)
(* The registers of the flash descriptor that the program edits: the       *)
(* region registers FLREG, the straps that disable the ME and the access   *)
(* register FLMSTR2 of the ME (descriptor.rs, locks.rs and the end of      *)
(* `clean`).  An FLREG is its two fields, in blocks; the straps that are   *)
(* set are a set of <<table, byte offset, bit>>; FLMSTR2 is the set of its *)
(* bits that are set.                                                      *)
(***************************************************************************)
EXTENDS Region

CONSTANT FieldValues  \* values of a field of an FLREG: 2^15

ASSUME FieldAssumption == FieldValues \in Nat /\ FieldValues > 8191

Flreg == [base : 0 .. FieldValues - 1, limit : 0 .. FieldValues - 1]

\* flreg_to_start_end
Decode(reg) == [start |-> reg.base * BLOCK, end |-> (reg.limit + 1) * BLOCK]

\* start_end_to_flreg: whatever does not fit the fields is masked off.
Encode_EndInclusive(start, end) ==
  [base |-> (start \div BLOCK) % FieldValues,
   limit |-> (end \div BLOCK) % FieldValues]
Encode(start, end) ==
  [base |-> (start \div BLOCK) % FieldValues,
   limit |-> ((end - 1) \div BLOCK) % FieldValues]

\* What generation 1 writes as the ME region: its end lies before its start.
DisabledMe == [base |-> 8191, limit |-> 0]

\* disable_bit, and the two straps of generation 1.
DisableStrap(generation) ==
  CASE generation = 2 -> <<"fisba", 40, 7>>
    [] generation = 4 -> <<"fisba", 112, 16>>
    [] generation = 5 -> <<"fisba", 128, 16>>
    [] generation = 6 -> <<"fisba", 124, 16>>
    [] generation = 7 -> <<"fisba", 220, 16>>
    [] OTHER -> <<"fisba", 0, 16>>

Generation1Straps == {<<"fisba", 0, 0>>, <<"fmsba", 0, 0>>}

\* What -d makes of FLMSTR2: 0x00400500 for generation 3, otherwise
\* (v | 0x04040000) & 0x0404ffff.
HardenedFlmstr_NoMask(generation, bits) ==
  IF generation = 3 THEN {8, 10, 22} ELSE bits \cup {18, 26}
HardenedFlmstr(generation, bits) ==
  IF generation = 3 THEN {8, 10, 22}
  ELSE (bits \cup {18, 26}) \cap (0 .. 15 \cup {18, 26})

\* How `locks` reads FLMSTR2: the regions the ME may read and write.
WideFields(generation) == generation \in 3 .. 7
MeReads(generation, bits) ==
  IF WideFields(generation) THEN {r \in 0 .. 11 : r + 8 \in bits}
                            ELSE {r \in 0 .. 7 : r + 16 \in bits}
MeWrites(generation, bits) ==
  IF WideFields(generation) THEN {r \in 0 .. 11 : r + 20 \in bits}
                            ELSE {r \in 0 .. 7 : r + 24 \in bits}
=============================================================================
