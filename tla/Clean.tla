------------------------------- MODULE Clean --------------------------------
(***************************************************************************)
(* `clean` (cleaner.rs): analysis, validation of the options, the disable  *)
(* straps, the wipe of generation 1 and of ME 6 Ignition, the stage that   *)
(* strips the region, the truncation, soft disable, descriptor hardening,  *)
(* extraction and the signature check, in the order of the code.           *)
(*                                                                         *)
(* An image is described by what `analyze` can find out about it.  What    *)
(* the program edits of it is the variable flash: the registers of the     *)
(* descriptor, the length of the file and whether the ME region holds what *)
(* it held, has been stripped or is erased.  The stage that strips it is   *)
(* the subject of Partitions.tla; here it fails, panics or returns an end. *)
(***************************************************************************)
EXTENDS Descriptor

CONSTANTS
  Images,   \* images: Image records
  Ends,     \* ends the stage may return, in bytes
  None

\* How a call ends: with success, by refusing the image or the options, or
\* later by an error or a panic.
Refusals == {"UnknownImage", "MultipleFpt", "RequiresFullDump", "BadOptions",
             "panic: short dump"}
Failures == {"OutOfRegion", "InvalidSignature", "stage failed",
             "panic: version present", "panic: stage"}
Results == {"ok"} \cup Refusals \cup Failures

ASSUME NoneAssumption == None \notin Int \cup BOOLEAN \cup Results
ASSUME WipedAssumption == FF \notin {"original", "stripped"}
ASSUME EndsAssumption == Ends \subseteq Nat

SPARED_BLOCKS == 4

Image == [
  kind : {"other", "me", "fd0", "fd10"},  \* where which magic is
  len : Nat,                              \* length of the file
  bios : Flreg, me : Flreg,               \* FLREG1 and FLREG2
  straps : SUBSET (STRING \X Nat \X Nat), flmstr : SUBSET (0 .. 31),
  fpt : {"none", "one", "many"},          \* $FPT tables in the region
  ftpr : {"unparsed", "none", "CODE", "FTPR", "ifwi"},  \* what the table has
  cpd : BOOLEAN,                          \* FTPR starts with $CPD
  manifest : {"bad", "noversion", "nokey", "ok"},  \* how far it can be read
  major : Nat, variant : {"ME", "TXE"},   \* firmware version
  sku : {"absent", "ignition", "outside"},  \* the probe for ME 6 Ignition
  signature : {"valid", "invalid", "outside"}]  \* of FTPR: is it read, and valid

ASSUME ImagesAssumption == \A image \in Images : image \in Image

Options == [
  softDisable : BOOLEAN, softDisableOnly : BOOLEAN, relocate : BOOLEAN,
  truncate : BOOLEAN, lists : BOOLEAN,    \* -w or -b is given
  descriptor : BOOLEAN, extractDescriptor : BOOLEAN, extractMe : BOOLEAN]

VARIABLES
  img,      \* the image that was read
  opts,
  a,        \* the analysis
  flash,    \* the image being edited
  report,
  outcome,  \* None, "ok", the error or the panic
  pc

inputs == <<img, opts>>
vars == <<inputs, a, flash, report, outcome, pc>>
-----------------------------------------------------------------------------
FullImage == img.kind \in {"fd0", "fd10"}
HasFtpr == img.fpt # "none" /\ img.ftpr \in {"CODE", "FTPR", "ifwi"}

MeRegion ==
  IF FullImage THEN Decode(img.me) ELSE [start |-> 0, end |-> img.len]

\* The generation before the manifest is looked at, after its directory or
\* tag is, and after the version is.
BaseGeneration ==
  IF img.kind = "fd0" \/ (HasFtpr /\ img.ftpr = "CODE") THEN 1 ELSE None

ByManifest ==
  CASE img.cpd -> 3
    [] ~img.cpd /\ BaseGeneration = None /\ img.manifest # "bad" -> 2
    [] OTHER -> BaseGeneration

ByVersion_OneMore ==
  IF img.major \in 12 .. 16 THEN img.major - 8 ELSE ByManifest

ByVersion ==
  CASE img.major = 12 -> 4
    [] img.major = 14 -> 5
    [] img.major = 15 -> 6
    [] img.major = 16 -> 7
    [] OTHER -> ByManifest

Resolved == HasFtpr /\ img.manifest \in {"nokey", "ok"}

\* analyze, once the magic is known; resolve_manifest may fail half way and
\* leaves what it has found by then.
Analysis ==
  [me |-> MeRegion,
   generation |-> CASE IsEmpty(MeRegion) /\ img.kind = "fd0" -> 1
                    [] IsEmpty(MeRegion) /\ img.kind # "fd0" -> None
                    [] ~IsEmpty(MeRegion) /\ Resolved -> ByVersion
                    [] ~IsEmpty(MeRegion) /\ ~Resolved /\ HasFtpr -> ByManifest
                    [] OTHER -> BaseGeneration,
   tables |-> IF IsEmpty(MeRegion) THEN "none" ELSE img.fpt,
   ftpr |-> ~IsEmpty(MeRegion) /\ HasFtpr,
   version |-> IF ~IsEmpty(MeRegion) /\ Resolved THEN img.major ELSE None,
   variant |-> IF Resolved /\ img.manifest = "ok" THEN img.variant ELSE ""]

NoReport == [endAddr |-> None, retained |-> None, truncatedTo |-> None,
             desc |-> None, meImage |-> None, signature |-> None]

Original ==
  [straps |-> img.straps, flmstr |-> img.flmstr, meReg |-> img.me,
   me |-> "original", len |-> img.len]

Init ==
  /\ img \in Images
  /\ opts \in Options
  /\ a = None
  /\ flash = Original
  /\ report = NoReport
  /\ outcome = None
  /\ pc = "analyze"

Stop(result) == pc' = "stop" /\ outcome' = result
Continue(label) == pc' = label /\ outcome' = outcome

MeLen == RegionLen(a.me)
-----------------------------------------------------------------------------
\* analyze panics on a dump that ends before the ME region does.
Analyze ==
  /\ pc = "analyze"
  /\ CASE img.kind = "other" -> Stop("UnknownImage") /\ a' = a
       [] img.kind # "other" /\ ~IsEmpty(MeRegion) /\ MeRegion.end > img.len ->
            Stop("panic: short dump") /\ a' = a
       [] OTHER -> Continue("validate") /\ a' = Analysis
  /\ UNCHANGED <<inputs, flash, report>>

NeedsFullDump ==
  \/ opts.descriptor \/ opts.extractDescriptor \/ opts.extractMe
  \/ opts.softDisable \/ opts.softDisableOnly

BadOptions ==
  \/ opts.softDisableOnly /\ (opts.relocate \/ opts.truncate)
  \/ opts.lists /\ opts.relocate

\* The first check that fails decides the error.
Refusal ==
  IF a.tables = "many" THEN "MultipleFpt"
  ELSE IF ~FullImage /\ NeedsFullDump THEN "RequiresFullDump"
  ELSE IF BadOptions THEN "BadOptions"
  ELSE None

Validate ==
  /\ pc = "validate"
  /\ IF Refusal # None THEN Stop(Refusal) ELSE Continue("straps")
  /\ UNCHANGED <<inputs, a, flash, report>>

\* The status of the disable bits; generation 1 has its two set right away.
Generation1 == a.generation = 1

SetStraps ==
  /\ pc = "straps"
  /\ flash' = IF Generation1 /\ FullImage
                THEN [flash EXCEPT !.straps = @ \cup Generation1Straps]
                ELSE flash
  /\ Continue("wipe")
  /\ UNCHANGED <<inputs, a, report>>

WipeGeneration1 ==
  /\ pc = "wipe"
  /\ flash' = IF Generation1 /\ FullImage /\ ~IsEmpty(a.me)
                THEN [flash EXCEPT !.meReg = DisabledMe, !.me = FF]
                ELSE flash
  /\ Continue("version")
  /\ UNCHANGED <<inputs, a, report>>

\* Without a table or FTPR there is nothing left to do; with them the code
\* expects the version to be known.
CheckVersion ==
  /\ pc = "version"
  /\ CASE ~a.ftpr -> Stop("ok")
       [] a.ftpr /\ a.version = None -> Stop("panic: version present")
       [] OTHER -> Continue("ignition")
  /\ UNCHANGED <<inputs, a, flash, report>>
-----------------------------------------------------------------------------
MayBeIgnition ==
  /\ a.generation = 2 /\ ~opts.softDisableOnly
  /\ a.variant = "ME" /\ a.version = 6

\* ME 6 Ignition is wiped as a whole; the module count it is recognised by
\* may lie outside the region.
Ignition ==
  /\ pc = "ignition"
  /\ CASE MayBeIgnition /\ img.sku = "outside" ->
            Stop("OutOfRegion") /\ flash' = flash
       [] MayBeIgnition /\ img.sku = "ignition" ->
            Continue("disable") /\ flash' = [flash EXCEPT !.me = FF]
       [] OTHER -> Continue("strip") /\ flash' = flash
  /\ UNCHANGED <<inputs, a, report>>

Strips_Ifwi == ~Generation1 /\ ~opts.softDisableOnly
Strips ==
  /\ ~Generation1 /\ ~opts.softDisableOnly
  /\ a.generation \notin {4, 5, 6, 7}

SkipStrip ==
  /\ pc = "strip" /\ ~Strips
  /\ Continue("disable")
  /\ UNCHANGED <<inputs, a, flash, report>>

\* The stage changes the region before it fails or panics, too.
StripFails ==
  /\ pc = "strip" /\ Strips
  /\ flash' = [flash EXCEPT !.me = "stripped"]
  /\ \E result \in {"stage failed", "panic: stage"} : Stop(result)
  /\ UNCHANGED <<inputs, a, report>>

\* The end may lie past the region: for kept modules it is where the table
\* says that FTPR ends.
Strip ==
  /\ pc = "strip" /\ Strips
  /\ flash' = [flash EXCEPT !.me = "stripped"]
  /\ \E e \in Ends \cup {None} :
       /\ e = None => a.generation = 2
       /\ report' = [report EXCEPT !.endAddr = e, !.retained = e]
  /\ Continue("truncate")
  /\ UNCHANGED <<inputs, a>>

\* The end is rounded up to a block, and spare blocks are added.
Rounded_Down(e) == (e \div BLOCK) * BLOCK
Rounded(e) == (e \div BLOCK + 1) * BLOCK + SPARED_BLOCKS * BLOCK

Truncate ==
  /\ pc = "truncate"
  /\ IF report.endAddr # None /\ report.endAddr > 0
       THEN LET e == Rounded(report.endAddr)
                cut == a.me.start = 0 /\ opts.truncate
            IN  /\ report' = [report EXCEPT
                     !.endAddr = e, !.truncatedTo = IF cut THEN e ELSE None]
                /\ flash' = IF cut /\ e < flash.len
                              THEN [flash EXCEPT !.len = e] ELSE flash
       ELSE UNCHANGED <<report, flash>>
  /\ Continue("disable")
  /\ UNCHANGED <<inputs, a>>

SoftDisable_NotOnly ==
  /\ pc = "disable"
  /\ flash' = IF /\ ~Generation1 /\ a.generation # None /\ FullImage
                 /\ opts.softDisable
                THEN [flash EXCEPT !.straps = @ \cup {DisableStrap(a.generation)}]
                ELSE flash
  /\ Continue("harden")
  /\ UNCHANGED <<inputs, a, report>>

SoftDisable ==
  /\ pc = "disable"
  /\ flash' = IF /\ ~Generation1 /\ a.generation # None /\ FullImage
                 /\ opts.softDisable \/ opts.softDisableOnly
                THEN [flash EXCEPT !.straps = @ \cup {DisableStrap(a.generation)}]
                ELSE flash
  /\ Continue("harden")
  /\ UNCHANGED <<inputs, a, report>>

Harden ==
  /\ pc = "harden"
  /\ flash' = IF opts.descriptor /\ FullImage
                THEN [flash EXCEPT !.flmstr = HardenedFlmstr(a.generation, @)]
                ELSE flash
  /\ Continue("extract descriptor")
  /\ UNCHANGED <<inputs, a, report>>
-----------------------------------------------------------------------------
\* The extracted descriptor is a copy of the image's, with the regions of
\* the ME and of the BIOS moved to where the truncated ME region ends.
Bios == Decode(img.bios)
NewEnd == a.me.start + report.endAddr

Desc ==
  LET copy == [straps |-> flash.straps, flmstr |-> flash.flmstr,
               bios |-> img.bios, me |-> flash.meReg]
      resized == /\ opts.truncate /\ report.endAddr # None
                 /\ Bios.start = a.me.end
  IN  IF ~resized THEN copy
      ELSE [copy EXCEPT !.bios = Encode(NewEnd, Bios.end),
                        !.me = IF Generation1 THEN @
                               ELSE Encode(a.me.start, NewEnd)]

ExtractDescriptor ==
  /\ pc = "extract descriptor"
  /\ report' = IF opts.extractDescriptor /\ FullImage
                 THEN [report EXCEPT !.desc = Desc] ELSE report
  /\ Continue("extract ME")
  /\ UNCHANGED <<inputs, a, flash>>

ExtractSize ==
  IF opts.truncate /\ report.endAddr # None THEN report.endAddr ELSE MeLen

ExtractMe ==
  /\ pc = "extract ME"
  /\ IF opts.extractMe /\ ~Generation1
       THEN IF Check(a.me, 0, ExtractSize)
              THEN /\ report' = [report EXCEPT
                                   !.meImage = [me |-> flash.me, len |-> ExtractSize]]
                   /\ Continue("signature")
              ELSE Stop("OutOfRegion") /\ report' = report
       ELSE Continue("signature") /\ report' = report
  /\ UNCHANGED <<inputs, a, flash>>

\* check_partition_signature; a manifest that reaches past the region cannot
\* be judged.
Verdict ==
  CASE img.signature = "valid" -> "ok"
    [] img.signature = "invalid" -> "InvalidSignature"
    [] img.signature = "outside" -> "OutOfRegion"

Verified ==
  /\ Stop(Verdict)
  /\ report' = IF Verdict = "OutOfRegion" THEN report
                ELSE [report EXCEPT !.signature = (Verdict = "ok")]

\* The region of an ME 6 Ignition image, erased, has no signature.
VerifySignature_IfUnchanged ==
  /\ pc = "signature"
  /\ IF Generation1 \/ flash.me # "original"
       THEN Stop("ok") /\ report' = report
       ELSE Verified
  /\ UNCHANGED <<inputs, a, flash>>

VerifySignature ==
  /\ pc = "signature"
  /\ IF Generation1 \/ flash.me = FF
       THEN Stop("ok") /\ report' = report
       ELSE Verified
  /\ UNCHANGED <<inputs, a, flash>>

Next ==
  \/ Analyze \/ Validate \/ SetStraps \/ WipeGeneration1 \/ CheckVersion
  \/ Ignition \/ SkipStrip \/ StripFails \/ Strip \/ Truncate
  \/ SoftDisable \/ Harden
  \/ ExtractDescriptor \/ ExtractMe \/ VerifySignature

Spec == Init /\ [][Next]_vars
-----------------------------------------------------------------------------
Done == outcome = "ok"
Analyzed == a # None

TypeOK ==
  /\ img \in Images /\ opts \in Options
  /\ Analyzed => a.generation \in 1 .. 7 \cup {None}
  /\ flash.me \in {"original", "stripped", FF}
  /\ flash.len \in Nat /\ flash.meReg \in {img.me, DisabledMe}
  /\ report.desc # None => {report.desc.bios, report.desc.me} \subseteq Flreg
  /\ outcome \in Results \cup {None} /\ (pc = "stop" <=> outcome # None)

\* What must not be touched is not: the buffer of the caller when image and
\* options are refused, since validation comes before the first edit, and the
\* region with -s and on the IFWI generations, whatever the outcome.
\* Generation 1, which is always wiped, is excepted.
SparedUntouched ==
  /\ outcome \in Refusals => flash = Original /\ report = NoReport
  /\ (/\ Analyzed /\ ~Generation1
      /\ opts.softDisableOnly \/ a.generation \in 4 .. 7)
       => /\ flash.me = "original" /\ flash.meReg = img.me
          /\ flash.len = img.len

\* Success on a stripped region means that the signature of the FTPR that is
\* left was checked and is valid; an erased region is generation 1 or ME 6.
StrippedMeansSigned ==
  Done => CASE flash.me = "stripped" -> report.signature = TRUE
            [] flash.me = FF -> Generation1 \/ a.version = 6
            [] flash.me = "original" -> report.signature # FALSE

\* What success on a full image says of the disable straps.  Generation 1,
\* whichever of the signature and the table told it and whatever the options:
\* both straps are set, and the region is erased and no longer in the
\* descriptor.  A later generation: its strap is set if -S or -s asked for it
\* and is as it was if not, and no other strap ever is touched.  Without an
\* FTPR the generation is not known: whatever was asked for, nothing is edited
\* or extracted, and success is reported all the same.
DisabledExactly ==
  (Done /\ FullImage) =>
    CASE Generation1 ->
           /\ flash.straps = img.straps \cup Generation1Straps
           /\ ~IsEmpty(MeRegion) => flash.me = FF /\ IsEmpty(Decode(flash.meReg))
      [] ~Generation1 /\ a.ftpr ->
           /\ a.generation \in 2 .. 7
           /\ flash.straps = IF opts.softDisable \/ opts.softDisableOnly
                               THEN img.straps \cup {DisableStrap(a.generation)}
                               ELSE img.straps
      [] ~Generation1 /\ ~a.ftpr -> flash = Original /\ report = NoReport

\* The registers can name the end that -t gives the region, as an end, so it
\* is not 0, and as a start, so it is not past the last block a field holds.
EndFits == report.endAddr # None => NewEnd \in 1 .. (FieldValues - 1) * BLOCK

\* Nothing that -t cuts - the file, the extracted region, the region in the
\* extracted descriptor - ends before the retained data does, or before the
\* region if the data runs past it.  An end that the registers cannot name is
\* masked, and excepted here and below.
TruncationKeepsRetained ==
  (Done /\ report.retained # None) =>
    \A kept \in {report.retained, MeLen} :
      (kept <= report.retained /\ kept <= MeLen) =>
        /\ flash.len >= a.me.start + kept
        /\ report.meImage # None => report.meImage.len >= kept
        /\ report.desc # None /\ EndFits =>
             RegionLen(Decode(report.desc.me)) >= kept

\* What was extracted is what the image holds in the end: no strap, access
\* right or region is edited after its copy was taken.  And the copies fit
\* each other: after -t the two regions of the descriptor adjoin, the BIOS
\* region ends where it did, and the ME region has the place and the length of
\* the extracted one.
ExtractsAgree ==
  Done =>
    /\ report.meImage # None => report.meImage.me = flash.me
    /\ report.desc # None =>
         LET me == Decode(report.desc.me)
             bios == Decode(report.desc.bios)
         IN  /\ report.desc.straps = flash.straps
             /\ report.desc.flmstr = flash.flmstr
             /\ Generation1 => report.desc.me = flash.meReg
             /\ (~Generation1 /\ EndFits /\ Bios.start = MeRegion.end) =>
                  /\ me.start = MeRegion.start /\ bios.end = Bios.end
                  /\ bios.start = me.end
                  /\ report.meImage # None => report.meImage.len = RegionLen(me)
-----------------------------------------------------------------------------
\* What the documentation says, beyond the above, and the code does not do.

\* -d: "drop ME R/W access to other flash regions", of every generation.
MeLockedOut ==
  (Done /\ opts.descriptor /\ a.ftpr) =>
    /\ MeWrites(a.generation, flash.flmstr) \subseteq {2}
    /\ MeReads(a.generation, flash.flmstr) \subseteq {0, 2}

\* "version present when fpt present".
VersionPresent == outcome # "panic: version present"
=============================================================================
