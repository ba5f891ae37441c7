-------------------------------- MODULE Gbe ---------------------------------
(***************************************************************************)
(* The LAN controller's region (gbe.rs and run_gbe of main.rs).  A file is *)
(* its length, whether it has a descriptor and register 3 of that - the    *)
(* fields, and the two bits that belong to neither - and the positions at  *)
(* which 64 words sum to the checksum.                                     *)
(***************************************************************************)
EXTENDS Descriptor

NVM_BYTES == 128

IsGbeFile(f) ==
  /\ f.len \in Nat /\ f.fd \in BOOLEAN /\ f.valid \subseteq Nat
  /\ f.reg \in Flreg /\ f.spare \in {"zeros", "ones", "mixed"}

\* optional_region: a register that is all zeros or ones is unused.
Unused(f) ==
  \/ f.spare = "zeros" /\ f.reg = [base |-> 0, limit |-> 0]
  \/ f.spare = "ones" /\ f.reg = [base |-> FieldValues - 1, limit |-> FieldValues - 1]
  \/ f.reg.limit < f.reg.base
OptionalRegion(f) ==
  IF Unused(f) THEN [start |-> 0, end |-> 0] ELSE Decode(f.reg)

\* The region a full dump has, and the file itself without a descriptor.
HasGbe(f) ==
  LET region == OptionalRegion(f)
  IN  f.fd => ~IsEmpty(region) /\ region.end <= f.len
GbeRegion(f) ==
  IF f.fd THEN OptionalRegion(f) ELSE [start |-> 0, end |-> f.len]

\* parse: two banks split the region in half, unless it holds but one.
Banks_Half(region) == <<region.start, region.start + RegionLen(region) \div 2>>
Banks(region) ==
  LET half == RegionLen(region) \div 2
  IN  IF RegionLen(region) < NVM_BYTES THEN <<>>
      ELSE IF half >= NVM_BYTES THEN <<region.start, region.start + half>>
      ELSE <<region.start>>

\* The first bank with a valid checksum is the active one; 0 is none.
Active(f, banks) ==
  IF \E n \in DOMAIN banks : banks[n] \in f.valid
    THEN CHOOSE n \in DOMAIN banks :
           /\ banks[n] \in f.valid
           /\ \A m \in 1 .. n - 1 : banks[m] \notin f.valid
    ELSE 0
=============================================================================
