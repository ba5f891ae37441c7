------------------------------ MODULE Inspect -------------------------------
(***************************************************************************)
(* The commands that report - info, check, fit, locks, amd and gbe         *)
(* (main.rs) - asked about an image before or after `clean`.  The run of   *)
(* `clean` is that of Clean.tla; the file holds what it leaves if it       *)
(* succeeds and the image as it was if it does not (CleanCli.tla).  What   *)
(* the commands read of the image that `clean` never looks at - the FIT,   *)
(* the AMD directories, the LAN region, the marks of BIOS Guard and Secure *)
(* Boot - is an input of each command.                                     *)
(***************************************************************************)
EXTENDS Clean, Fit, Amd, Gbe

CONSTANTS
  FitFiles,    \* files as Fit.tla describes them
  AmdFiles,    \* files as Amd.tla describes them
  GbeFiles,    \* files as Gbe.tla describes them
  SbKeys       \* the Secure Boot keys that are looked for

ASSUME FilesAssumption ==
  /\ \A f \in FitFiles : IsFitFile(f)
  /\ \A f \in AmdFiles : IsAmdFile(f)
  /\ \A f \in GbeFiles : IsGbeFile(f)

VARIABLE said   \* the answer of the command, None before

allVars == <<vars, said>>

\* What `clean` has left of the image: an erased region has no table, and a
\* file that was nothing but the region is no image any more.
Left ==
  [img EXCEPT
     !.kind = IF @ = "me" /\ flash.me = FF THEN "other" ELSE @,
     !.fpt = IF flash.me = FF THEN "none" ELSE @,
     !.me = flash.meReg, !.len = flash.len,
     !.straps = flash.straps, !.flmstr = flash.flmstr]

\* The file, and the analysis of it.
File == IF outcome = "ok" THEN Left ELSE img
Now == INSTANCE Clean WITH img <- File

Unknown == File.kind = "other"
AnalysisPanics == ~Unknown /\ ~IsEmpty(Now!MeRegion) /\ Now!MeRegion.end > File.len

InspectInit == Init /\ said = None
Answer(answer) ==
  /\ pc \in {"analyze", "stop"} /\ said = None
  /\ said' = answer
  /\ UNCHANGED vars
-----------------------------------------------------------------------------
\* run_info: a disabled region ends the report, before Boot Guard is looked
\* for and before the signature is checked.
Deed_GenerationIgnored(check) ==
  IF check /\ Now!Analysis.ftpr THEN Now!Verdict ELSE "ok"
Deed(check) ==
  IF check /\ Now!Analysis.generation # 1 /\ Now!Analysis.ftpr
    THEN Now!Verdict ELSE "ok"

Report(check, me, result, warned, f) ==
  [cmd |-> IF check THEN "check" ELSE "info", me |-> me, result |-> result,
   warned |-> warned, file |-> f]

InfoSays(check, f) ==
  IF AnalysisPanics THEN Report(check, "unread", "panic", FALSE, f)
  ELSE IF Unknown THEN Report(check, "none", "ok", FALSE, f)
  ELSE IF IsEmpty(Now!MeRegion) THEN Report(check, "gone", "ok", FALSE, f)
  ELSE Report(check, "present", Deed(check),
              Now!FullImage /\ HasBootGuard(ParseFit(f)), f)
Info(check, f) == Answer(InfoSays(check, f))

\* run_fit
FitSays(f) ==
  [cmd |-> "fit", result |-> ParseFit(f).result,
   bootGuard |-> HasBootGuard(ParseFit(f)), file |-> f]
ReportFit(f) == Answer(FitSays(f))

\* LockReport::scan and run_locks: without an analysis there is no access
\* matrix, and without a generation it is read in the narrow layout.
Generation == IF Unknown THEN None ELSE Now!Analysis.generation
AllRegions == IF WideFields(Generation) THEN 0 .. 11 ELSE 0 .. 7
Matrix(othersAll) ==
  LET reads == MeReads(Generation, File.flmstr)
      writes == MeWrites(Generation, File.flmstr)
  IN  [reads |-> reads, writes |-> writes, meWritesBios |-> 1 \in writes,
       fullyUnlocked |-> othersAll /\ reads = AllRegions /\ writes = AllRegions]

LocksSays(f, pfat, keys, othersAll) ==
  IF AnalysisPanics THEN [cmd |-> "locks", result |-> "panic"]
  ELSE LET guard == HasBootGuard(ParseFit(f)) IN
       [cmd |-> "locks", result |-> "ok", bootGuard |-> guard,
        matrix |-> IF ~Unknown /\ Now!FullImage THEN Matrix(othersAll) ELSE None,
        locked |-> guard \/ pfat \/ keys # {}, file |-> f]
Locks(f, pfat, keys, othersAll) == Answer(LocksSays(f, pfat, keys, othersAll))

\* run_amd: a root of trust and soft fuses are looked for in PSP directories.
HasEntry(dirs, type) ==
  \E d \in dirs : d.magic \notin BiosMagics
                    /\ \E k \in DOMAIN d.entries : d.entries[k].type = type
AmdSays(f) ==
  [cmd |-> "amd", result |-> IF IsAmd(f) THEN "ok" ELSE "none",
   fet |-> FindFet(f), dirs |-> Directories(f),
   rootOfTrust |-> HasEntry(Directories(f), 0),
   softFuses |-> HasEntry(Directories(f), 11), file |-> f]
ReportAmd(f) == Answer(AmdSays(f))

\* run_gbe
GbeSays(f) ==
  [cmd |-> "gbe", file |-> f,
   result |-> IF ~HasGbe(f) THEN "none"
              ELSE IF Banks(GbeRegion(f)) = <<>> THEN "too small" ELSE "ok",
   banks |-> IF HasGbe(f) THEN Banks(GbeRegion(f)) ELSE <<>>,
   active |-> IF HasGbe(f) THEN Active(f, Banks(GbeRegion(f))) ELSE 0]
ReportGbe(f) == Answer(GbeSays(f))

Inspection ==
  \/ \E check \in BOOLEAN, f \in FitFiles : Info(check, f)
  \/ \E f \in FitFiles : ReportFit(f)
  \/ \E f \in FitFiles, pfat, othersAll \in BOOLEAN, keys \in SUBSET SbKeys :
       Locks(f, pfat, keys, othersAll)
  \/ \E f \in AmdFiles : ReportAmd(f)
  \/ \E f \in GbeFiles : ReportGbe(f)

InspectNext == (said = None /\ Next /\ said' = said) \/ Inspection

InspectSpec == InspectInit /\ [][InspectNext]_allVars
-----------------------------------------------------------------------------
Said(cmd) == said # None /\ said.cmd = cmd

\* The descriptor of a full dump does not place the ME region at 0, where it is
\* itself: `clean` cuts the file where it would cut that region, and what is left
\* of it cannot be analysed.
MeBehindDescriptor == FullImage => MeRegion.start # 0

\* What `clean` calls a success `check` accepts, and of a generation 1 dump
\* `info` says that its ME is gone: the two commands tell the generation of
\* the image, once from the original and once from what is left of it.
CheckAcceptsCleaned ==
  (outcome = "ok" /\ MeBehindDescriptor) =>
    /\ Said("check") => said.result = "ok"
    /\ (Said("info") /\ Generation1 /\ FullImage) => said.me = "gone"

\* After -d `locks` says that the ME has no access but to its own region and,
\* in generation 3, to the descriptor: the mask was chosen by the generation
\* of the original, the layout `locks` reads it in by that of what is left.
\* It holds up to generation 3.
HardeningSeen ==
  (/\ outcome = "ok" /\ opts.descriptor /\ a.ftpr /\ a.generation \in 1 .. 3
   /\ MeBehindDescriptor /\ Said("locks")) =>
    /\ said.matrix.writes = {2} /\ ~said.matrix.fullyUnlocked
    /\ 2 \in said.matrix.reads
    /\ said.matrix.reads \subseteq (IF a.generation = 3 THEN {0, 2} ELSE {2})

\* The table that the FIT pointer means lies at the same distance from the
\* end of the file as the address from 4 GiB.
Meant(f) == f.len + f.ptr
InFile(f, offset) ==
  /\ offset >= 0 /\ offset % 16 = 0
  /\ offset \in DOMAIN f.tables
  /\ offset + FIT_RECORD * (IF f.tables[offset].total = 0 THEN 1
                            ELSE f.tables[offset].total) <= f.len
Advertised(f) ==
  /\ Meant(f) \in DOMAIN f.tables
  /\ \E k \in 1 .. f.tables[Meant(f)].total - 1 :
       f.tables[Meant(f)].types[k] \in {"KeyManifest", "BootPolicyManifest"}

\* `fit` and `locks` report Boot Guard exactly if that table advertises it,
\* and `info` warns of nothing else, for the three sizes of flash that the
\* code knows; of other sizes that is so for tables in the first 16 MiB of a
\* multiple of 16 MiB, and no other table is ever found.
BootGuardReported ==
  \A cmd \in {"fit", "locks", "info"} :
    (/\ Said(cmd) /\ said.result \notin {"panic"}
     /\ said.file.ptr < -1 /\ Meant(said.file) >= 0) =>
      LET f == said.file
          known == f.len \in {8 * MiB, 16 * MiB, 32 * MiB}
          reached == known \/ (f.len % (16 * MiB) = 0 /\ Meant(f) < 16 * MiB)
          guard == IF cmd = "info" THEN said.warned ELSE said.bootGuard
      IN  /\ guard /\ reached => Advertised(f)
          /\ reached /\ InFile(f, Meant(f)) /\ cmd # "info" =>
               (guard <=> Advertised(f))
          /\ (ParseFit(f).result = "ok" /\ ~reached) =>
               ParseFit(f).offset # Meant(f)

\* An entry of an AMD directory is reported at the place in the file that its
\* address means: the offset itself, or the byte of the ROM mapped behind
\* 0xff00_0000 - of a ROM of more than 16 MiB its first 16 MiB, but for the
\* first byte - and a directory that is reported lies in the file.
EntriesMapped ==
  Said("amd") =>
    LET f == said.file
        rom == RomSizeFor(f.len)
        shown == IF rom < WINDOW THEN rom ELSE WINDOW
    IN  \A d \in said.dirs :
          /\ d.offset + 16 + Len(d.entries) * EntrySize(d.magic) <= f.len
          /\ \A k \in DOMAIN d.entries :
               LET addr == f.dirs[d.offset].entries[k].addr
                   location == d.entries[k].location
               IN  /\ location \in 0 .. rom - 1
                   /\ addr \in 0 .. rom - 1 => location = addr
                   /\ (addr \in -shown .. -1 /\ (rom > WINDOW => addr # -WINDOW))
                        => location = addr + shown

\* The banks that are read lie in the region, the region in the file, and the
\* banks beside each other; the active one is valid, and there is one if any
\* bank is.
BanksReadable ==
  Said("gbe") =>
    LET f == said.file
        region == GbeRegion(f)
        Covers(n) == said.banks[n] .. said.banks[n] + NVM_BYTES - 1
    IN  /\ \A n \in DOMAIN said.banks :
             /\ region.start <= said.banks[n] /\ region.end <= f.len
             /\ said.banks[n] + NVM_BYTES <= region.end
        /\ \A m, n \in DOMAIN said.banks :
             m # n => Covers(m) \cap Covers(n) = {}
        /\ said.active = 0 <=> ~\E n \in DOMAIN said.banks : said.banks[n] \in f.valid
        /\ said.active # 0 => said.banks[said.active] \in f.valid
=============================================================================
