-------------------------------- MODULE Fit ---------------------------------
(***************************************************************************)
(* The Firmware Interface Table (fit.rs): where its pointer leads and what *)
(* the table says about Boot Guard.  A file is its length, the pointer at  *)
(* 0x40 bytes from its end and the tables in it: for each offset of the    *)
(* magic the number of records in its header and the types of the entries  *)
(* behind it.  A 32-bit address is a signed number: the byte in front of   *)
(* 4 GiB is -1, and masking the low k bits is % 2^k.                       *)
(***************************************************************************)
EXTENDS Integers, Sequences, SequencesExt

MiB == 1048576
FIT_POINTER_FROM_END == 64
FIT_RECORD == 16     \* bytes of the header and of an entry

FitTable == [total : Nat, types : Seq(STRING)]
Count(table) == IF table.total = 0 THEN 0 ELSE table.total - 1

\* A file has the entries that its headers count, as far as it reaches.
IsFitFile(f) ==
  /\ f.len \in Nat /\ f.ptr \in Int /\ DOMAIN f.tables \subseteq Nat
  /\ \A offset \in DOMAIN f.tables :
       LET table == f.tables[offset] IN
       /\ table \in FitTable
       /\ offset + FIT_RECORD + Count(table) * FIT_RECORD <= f.len =>
            Count(table) <= Len(table.types)

MappingFor_Always16(size) == 16 * MiB
MappingFor(size) ==
  IF size \in {8 * MiB, 16 * MiB, 32 * MiB} THEN size ELSE 16 * MiB

FitError(error) == [result |-> error, offset |-> -1, entries |-> <<>>]

\* Fit::parse
ParseFit(f) ==
  LET offset == f.ptr % MappingFor(f.len)
      table == f.tables[offset]
      count == Count(table)
  IN  IF f.len < FIT_POINTER_FROM_END + 4 \/ f.ptr \in {0, -1}
        THEN FitError("FitNotFound")
      ELSE IF offset % 16 # 0 \/ offset + FIT_RECORD > f.len
        THEN FitError("FitInvalidPointer")
      ELSE IF offset \notin DOMAIN f.tables
        THEN FitError("FitNotFound")
      ELSE IF offset + FIT_RECORD + count * FIT_RECORD > f.len
        THEN FitError("FitInvalidPointer")
      ELSE [result |-> "ok", offset |-> offset,
            entries |-> SubSeq(table.types, 1, count)]

\* has_boot_guard
HasBootGuard(fit) ==
  ToSet(fit.entries) \cap {"KeyManifest", "BootPolicyManifest"} # {}
=============================================================================
