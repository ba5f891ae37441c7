----------------------------- MODULE MCInspect ------------------------------
EXTENDS MCClean, Inspect

\* The images that the commands are asked about: those of MCClean that differ in
\* what the reports say, and more of them.
MCReported ==
  { Dump, Gen1, Gen3, MeOnly, [Gen1 EXCEPT !.kind = "fd10"],
    [Dump EXCEPT !.me = [base |-> 0, limit |-> 8]],
    [Dump EXCEPT !.kind = "other"], [Dump EXCEPT !.len = 12],
    [Dump EXCEPT !.me = NoMe],
    [Dump EXCEPT !.fpt = "none"], [Gen1 EXCEPT !.fpt = "none"],
    [Dump EXCEPT !.ftpr = "none"],
    [Gen3 EXCEPT !.manifest = "bad", !.signature = "invalid"],
    [Dump EXCEPT !.manifest = "noversion", !.signature = "outside"],
    [Dump EXCEPT !.major = 6, !.sku = "ignition"],
    [MeOnly EXCEPT !.major = 6, !.sku = "ignition"],
    [Gen3 EXCEPT !.major = 12, !.ftpr = "ifwi"],
    \* all regions open to the ME
    [Dump EXCEPT !.flmstr = 16 .. 31], [Gen3 EXCEPT !.flmstr = 8 .. 31],
    \* without a valid signature
    [Gen3 EXCEPT !.signature = "outside"], [Gen3 EXCEPT !.signature = "invalid"],
    [Dump EXCEPT !.signature = "invalid"],
    [MeOnly EXCEPT !.ftpr = "CODE", !.major = 3, !.signature = "invalid"],
    [Gen1 EXCEPT !.kind = "fd10", !.signature = "invalid"] }

MCAllImages == MCImages \cup MCReported

NoOptions == [o \in {"softDisable", "softDisableOnly", "relocate", "truncate",
                     "lists", "descriptor", "extractDescriptor", "extractMe"}
                |-> FALSE]
MCOptions ==
  { NoOptions, [NoOptions EXCEPT !.softDisableOnly = TRUE],
    [NoOptions EXCEPT !.descriptor = TRUE],
    [NoOptions EXCEPT !.descriptor = TRUE, !.softDisable = TRUE],
    [NoOptions EXCEPT !.descriptor = TRUE, !.truncate = TRUE,
                      !.extractDescriptor = TRUE, !.extractMe = TRUE] }

\* FITs at some places of flashes of some sizes: with Boot Guard, without it,
\* with more records than there is room for, or none.
Table(total, types) == [total |-> total, types |-> types]
Guarded == Table(3, <<"MicrocodeUpdate", "KeyManifest", "UnusedEntry">>)
Sizes == {4 * MiB, 8 * MiB, 12 * MiB, 16 * MiB, 32 * MiB, 64 * MiB}
Places(size) == {1024, size - MiB, size - 256}
Flash(size, place, tables) ==
  [len |-> size, ptr |-> place - size, tables |-> tables]
Just(place, table) == [o \in {place} |-> table]

MCFitFiles ==
  UNION {{Flash(size, place, Just(place, Guarded)) : place \in Places(size)}
           : size \in Sizes}
    \cup
  { Flash(8 * MiB, MiB, <<>>), Flash(8 * MiB, 1032, Just(1032, Guarded)),
    Flash(8 * MiB, MiB, Just(MiB, Table(1, <<"KeyManifest">>))),
    Flash(8 * MiB, MiB, Just(MiB, Table(0, <<"KeyManifest">>))),
    Flash(8 * MiB, MiB, Just(MiB, Table(3, <<"TxtPolicy", "TpmPolicy">>))),
    Flash(16 * MiB, MiB, Just(MiB, Table(2, <<"BootPolicyManifest">>))),
    \* the last records lie just in the file, or not
    Flash(8 * MiB, 8 * MiB - 48, Just(8 * MiB - 48, Guarded)),
    Flash(8 * MiB, 8 * MiB - 32, Just(8 * MiB - 32, Guarded)),
    \* a table at the place that the mask makes of the pointer
    Flash(12 * MiB, MiB, Just(5 * MiB, Guarded)),
    \* no pointer, and one that is not of this flash
    [len |-> 8 * MiB, ptr |-> 0, tables |-> Just(0, Guarded)],
    [len |-> 8 * MiB, ptr |-> -1, tables |-> <<>>],
    [len |-> 8 * MiB, ptr |-> MiB, tables |-> Just(MiB, Guarded)],
    [len |-> 67, ptr |-> -64, tables |-> <<>>] }

\* Directories with entries at the edges of what is mapped.
Entry(type, size, addr) == [type |-> type, size |-> size, addr |-> addr]
Dir(magic, entries) ==
  [magic |-> magic, count |-> Len(entries), entries |-> entries]
Edges == <<-33554432, -33554431, -16777217, -16777216, -16777215, -8388609,
           -8388608, -1, 0, 1, 8388607, 8388608, 16777215, 16777216, 33554431>>
AtEdges == [k \in DOMAIN Edges |-> Entry(k - 1, 64, Edges[k])]
Rom(len, dirs) == [len |-> len, fet |-> {}, padded |-> {}, dirs |-> dirs]

MCAmdFiles ==
  {Rom(len, 4096 :> Dir(magic, AtEdges)) :
     len \in {65536, 65535, 4 * MiB, 12 * MiB, 8 * MiB, 16 * MiB, 32 * MiB,
              64 * MiB},
     magic \in {"$PSP", "$BHD"}}
    \cup
  { Rom(0, <<>>), Rom(MiB, <<>>), Rom(4111, 4096 :> Dir("2PSP", AtEdges)),
    Rom(MiB, 4096 :> Dir("2PSP", AtEdges)),
    Rom(MiB, 4096 :> Dir("$PL2", <<>>)),
    Rom(MiB, 4096 :> [Dir("2BHD", <<>>) EXCEPT !.count = 257]),
    Rom(4112 + 16 * 15, 4096 :> Dir("$PSP", AtEdges)),
    Rom(4112 + 16 * 15, 4096 :> Dir("$BL2", AtEdges)),
    Rom(MiB, 4096 :> Dir("$PSP", <<Entry(0, MiB + 1, 0)>>)),
    [Rom(MiB, <<>>) EXCEPT !.fet = {131072, 4096}, !.padded = {4096}],
    [Rom(MiB, <<>>) EXCEPT !.fet = {4096, 8192}, !.padded = {4096, 8192}],
    [Rom(MiB, <<>>) EXCEPT !.fet = {4096}] }

\* LAN regions with registers that are 0, all ones, inverted, or of some sizes;
\* the reserved bits matter for the first two only.
Registers ==
  {<<[base |-> n, limit |-> n], spare>> :
     n \in {0, 32767}, spare \in {"zeros", "ones", "mixed"}}
    \cup
  {<<[base |-> range[1], limit |-> range[2]], "mixed">> :
     range \in {<<9, 8>>, <<1, 63>>, <<1, 128>>, <<64, 319>>}}
Lan(fd, register, len, valid) ==
  [fd |-> fd, len |-> len, reg |-> register[1], spare |-> register[2],
   valid |-> valid]
Lengths == {127, 128, 255, 256, 257, 640}
Valid == {{}, {0, 128}, {384}, {128}}

MCGbeFiles ==
  {Lan(TRUE, register, len, valid) :
     register \in Registers, len \in Lengths, valid \in Valid}
    \cup
  {Lan(FALSE, <<[base |-> 0, limit |-> 0], "zeros">>, len, valid) :
     len \in Lengths, valid \in Valid}

\* clean has all images, options and ends, and the commands are asked about some
\* of them: MCReported, MCOptions and the end MCReportedEnd.
MCReportedEnd == 5
Asked ==
  /\ img \in MCReported /\ opts \in MCOptions
  /\ report.retained \in {None, MCReportedEnd}
MCNext == (said = None /\ Next /\ said' = said) \/ (Asked /\ Inspection)
MCSpec == InspectInit /\ [][MCNext]_allVars
=============================================================================
