------------------------------ MODULE MCClean -------------------------------
EXTENDS Clean

\* A full dump of 16 blocks: descriptor, 8 blocks of ME, 7 of BIOS.
Dump == [kind |-> "fd10", len |-> 32,
         bios |-> [base |-> 9, limit |-> 15], me |-> [base |-> 1, limit |-> 8],
         straps |-> {}, flmstr |-> {9, 10, 16, 17, 18, 21, 22, 25, 26},
         fpt |-> "one", ftpr |-> "FTPR", cpd |-> FALSE, manifest |-> "ok",
         major |-> 8, variant |-> "ME", sku |-> "absent", signature |-> "valid"]
Gen1 == [Dump EXCEPT !.kind = "fd0", !.ftpr = "CODE", !.major = 3]
Gen3 == [Dump EXCEPT !.cpd = TRUE, !.major = 11]
MeOnly == [Dump EXCEPT !.kind = "me", !.len = 16]
NoMe == [base |-> 8191, limit |-> 0]

MCImages ==
  { Dump, Gen1, Gen3, MeOnly,
    [Dump EXCEPT !.kind = "other"], [Dump EXCEPT !.len = 12],
    \* no ME region, no table, no FTPR, several tables
    [Dump EXCEPT !.me = NoMe], [Gen1 EXCEPT !.me = NoMe],
    [Dump EXCEPT !.fpt = "none"], [Gen1 EXCEPT !.fpt = "none"],
    [Dump EXCEPT !.ftpr = "none"], [Dump EXCEPT !.ftpr = "unparsed"],
    [Dump EXCEPT !.fpt = "many"], [MeOnly EXCEPT !.fpt = "none"],
    \* manifests that cannot be read
    [Dump EXCEPT !.manifest = "bad"], [Gen3 EXCEPT !.manifest = "bad"],
    [Gen1 EXCEPT !.manifest = "bad"],
    [Dump EXCEPT !.manifest = "noversion", !.signature = "outside"],
    [Dump EXCEPT !.manifest = "nokey", !.signature = "outside"],
    \* ME 6
    [Dump EXCEPT !.major = 6, !.sku = "ignition"], [Dump EXCEPT !.major = 6],
    [Dump EXCEPT !.major = 6, !.sku = "outside"],
    \* TXE, generation 1 without its signature, or without a descriptor
    [Gen3 EXCEPT !.major = 3, !.variant = "TXE"],
    [Gen1 EXCEPT !.kind = "fd10"],
    [MeOnly EXCEPT !.ftpr = "CODE", !.major = 3], [MeOnly EXCEPT !.cpd = TRUE],
    \* IFWI, known to the code by its version or not
    [Gen3 EXCEPT !.major = 12, !.ftpr = "ifwi"], [Gen3 EXCEPT !.major = 14],
    [Gen3 EXCEPT !.major = 15, !.ftpr = "ifwi"], [Gen3 EXCEPT !.major = 16],
    [Gen3 EXCEPT !.major = 13, !.ftpr = "ifwi"],
    \* a signature that does not verify, a strap that is set, other layouts
    [Dump EXCEPT !.signature = "invalid"], [Dump EXCEPT !.signature = "outside"],
    [Gen3 EXCEPT !.straps = {<<"fisba", 0, 16>>}],
    [Dump EXCEPT !.bios = [base |-> 10, limit |-> 15]],
    \* regions at the end of what the registers can name
    [Dump EXCEPT !.me = [base |-> 32759, limit |-> 32766], !.len = 65536,
                 !.bios = [base |-> 32767, limit |-> 32767]] }

\* 16 is the end of the smaller regions, 19 lies past it.
MCEnds == {0, 5, 16, 19}
=============================================================================
