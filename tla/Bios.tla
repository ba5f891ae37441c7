-------------------------------- MODULE Bios --------------------------------
(***************************************************************************)
(* `bios` (bios.rs, run_bios of main.rs): the walk over the firmware       *)
(* volumes of an image, their files, the sections of the files and what    *)
(* those hold - stored or compressed sections, volumes again - as a        *)
(* machine with the stack of its calls, followed by the extraction of the  *)
(* option ROMs that were found.                                            *)
(*                                                                         *)
(* An image is a family of buffers: buffer 1 is the file, each other one   *)
(* what some section decompresses to.  A buffer is described by the        *)
(* headers that would be read at each position: vol where "_FVH" follows   *)
(* at 0x28, file and sec where the size is neither that of free space nor  *)
(* zero.  Positions outside of their domains end a loop.                   *)
(*                                                                         *)
(* The lengths of volumes and the sizes of large files are whole words,    *)
(* and a position plus one of them may not fit a word: a build that checks *)
(* panics, another one goes on with what is left of the sum.               *)
(***************************************************************************)
EXTENDS OptionRoms

CONSTANTS
  Bufs,       \* the numbers of the buffers
  Images,     \* the images: functions from Bufs to buffers
  Markers,    \* vendors whose marker a buffer may have
  MAX_DEPTH,
  WORD        \* the values of a word: 2^64

ASSUME BufsAssumption == Bufs \subseteq Nat \ {0} /\ 1 \in Bufs
ASSUME DepthAssumption == MAX_DEPTH \in Nat
ASSUME WordAssumption == WORD \in Nat \ {0}
Outcomes == {"ok", "err", "panic"}
ASSUME NoneAssumption == None \notin Outcomes
ASSUME MarkersAssumption == None \notin Markers

Words == 0 .. WORD - 1
VolumeHeader == [len : Words, hdr : Nat, ext : Nat, extSize : Nat]
FileHeader == [pad : BOOLEAN, large : BOOLEAN, size : Words]
SectionTypes == {"stored", "packed", "lzma", "tiano", "guid",
                 "module", "name", "volume", "other"}
\* at is the data offset of a GUID-defined section, out the buffer that the
\* payload decompresses to or None if it cannot be decompressed.
SectionHeader == [type : SectionTypes, size : Nat, ext : BOOLEAN,
                  at : Nat, out : Bufs \cup {None}]

\* The size of a file that is not large has three bytes: no sum exceeds a word.
IsBuffer(buf) ==
  /\ buf.len \in Words
  /\ DOMAIN buf.vol \subseteq Nat
  /\ \A p \in DOMAIN buf.vol : buf.vol[p] \in VolumeHeader
  /\ DOMAIN buf.file \subseteq Nat
  /\ \A p \in DOMAIN buf.file :
       /\ buf.file[p] \in FileHeader
       /\ ~buf.file[p].large => p + buf.file[p].size < WORD
  /\ DOMAIN buf.sec \subseteq Nat
  /\ \A p \in DOMAIN buf.sec : buf.sec[p] \in SectionHeader
  /\ DOMAIN buf.sig \subseteq Nat
  /\ \A p \in DOMAIN buf.sig : buf.sig[p] \in Roms \cup {None}
  /\ buf.torn \subseteq DOMAIN buf.sig
  /\ buf.vendor \in Markers \cup {None}

\* What a section decompresses to is a buffer of its own: none decompresses to
\* itself or to one it comes from, nor do two to the same.
IsImage(im) ==
  /\ DOMAIN im = Bufs
  /\ \A b \in Bufs :
       /\ IsBuffer(im[b])
       /\ \A p \in DOMAIN im[b].sec :
            im[b].sec[p].out # None =>
              /\ im[b].sec[p].out > b
              /\ \A c \in Bufs : \A q \in DOMAIN im[c].sec :
                   im[c].sec[q].out = im[b].sec[p].out => c = b /\ q = p

ASSUME ImagesAssumption == \A im \in Images : IsImage(im)

VARIABLES
  image,      \* the image that is read
  dir,        \* whether --extract-roms was given
  checks,     \* the build panics on arithmetic overflow (dev and test do)
  i,          \* how far parse has scanned
  stack,      \* the calls of walk_volume and walk_sections
  volumes,    \* the volumes recorded, each with the buffer it is in
  visits,     \* history: the files counted, as <<buffer, position>>
  opened,     \* history: the buffers recorded as decompressed
  leaves,     \* modules, names and sections that could not be decoded
  vendor,
  roms,
  saved,      \* the files that were extracted
  outcome,    \* None, "ok", "err" or "panic"
  pc

found == <<volumes, visits, opened, leaves, vendor, roms>>
inputs == <<image, dir, checks>>
vars == <<inputs, i, stack, found, saved, outcome, pc>>

Frame == [fn : {"volume", "sections"}, buf : Bufs, lo : Nat, pos : Nat,
          end : Nat, depth : 0 .. MAX_DEPTH, files : Nat]
Top == stack[Len(stack)]
Buf == image[Top.buf]
Below == SubSeq(stack, 1, Len(stack) - 1)

\* Words are added modulo WORD.
Overflows(x, y) == x + y >= WORD
Plus(x, y) == IF Overflows(x, y) THEN x + y - WORD ELSE x + y

Aligned(x, n) == ((x + n - 1) \div n) * n

\* A call of walk_sections and one of walk_volume, which may return at once.
Sections_Unbounded(b, start, end, depth) ==
  <<[fn |-> "sections", buf |-> b, lo |-> start, pos |-> start, end |-> end,
     depth |-> depth, files |-> 0]>>
Sections(b, start, end, depth) ==
  IF depth > MAX_DEPTH THEN <<>>
  ELSE <<[fn |-> "sections", buf |-> b, lo |-> start, pos |-> start,
          end |-> end, depth |-> depth, files |-> 0]>>

\* The end of a volume is computed where its header can be read.
VolumeOverflows(buf, fv) ==
  fv + 56 <= buf.len /\ Overflows(fv, buf.vol[fv].len)

Accepted(buf, fv) ==
  /\ fv + 56 <= buf.len
  /\ buf.vol[fv].len > 0 /\ Plus(fv, buf.vol[fv].len) <= buf.len
  /\ buf.vol[fv].hdr >= 56

FileArea(buf, fv) ==
  LET v == buf.vol[fv] IN
  IF v.ext = 0 \/ fv + v.ext + 20 > buf.len THEN fv + v.hdr
  ELSE Aligned(fv + v.ext + v.extSize, 8)

Volume(b, fv) ==
  IF ~Accepted(image[b], fv) THEN <<>>
  ELSE <<[fn |-> "volume", buf |-> b, lo |-> fv,
          pos |-> FileArea(image[b], fv),
          end |-> Plus(fv, image[b].vol[fv].len), depth |-> 0, files |-> 0]>>

Init ==
  /\ image \in Images /\ dir \in BOOLEAN /\ checks \in BOOLEAN
  /\ i = 0 /\ stack = <<>>
  /\ volumes = <<>> /\ visits = <<>> /\ opened = <<>>
  /\ leaves = [modules |-> 0, names |-> 0, undecoded |-> 0]
  /\ vendor = None /\ roms = <<>> /\ saved = <<>>
  /\ outcome = None /\ pc = "walk"

Panics ==
  /\ outcome' = "panic" /\ pc' = "stop"
  /\ UNCHANGED <<inputs, i, stack, found, saved>>
-----------------------------------------------------------------------------
\* parse: volumes of the image by their signatures, from the start on.
Unscanned == {fv \in DOMAIN image[1].vol : i <= fv /\ fv + 44 <= image[1].len}

Covered_ByLength(fv) ==
  \E n \in DOMAIN volumes :
    volumes[n].offset <= fv /\ fv < volumes[n].length
Covered(fv) ==
  \E n \in DOMAIN volumes :
    /\ volumes[n].offset <= fv
    /\ fv < Plus(volumes[n].offset, volumes[n].length)

Scanning == pc = "walk" /\ stack = <<>> /\ Unscanned # {}
VolumePanics(buf, fv) == checks /\ VolumeOverflows(buf, fv)

ScanVolume ==
  /\ Scanning
  /\ LET fv == First(Unscanned) IN
       /\ ~Covered(fv) => ~VolumePanics(image[1], fv)
       /\ i' = fv + 1
       /\ stack' = IF Covered(fv) THEN <<>> ELSE Volume(1, fv)
  /\ UNCHANGED <<inputs, found, saved, outcome, pc>>

ScanVolumePanic ==
  /\ Scanning
  /\ ~Covered(First(Unscanned)) /\ VolumePanics(image[1], First(Unscanned))
  /\ Panics

FinishScan ==
  /\ pc = "walk" /\ stack = <<>> /\ Unscanned = {}
  /\ ~ScanPanics(image[1])
  /\ vendor' = IF vendor = None THEN image[1].vendor ELSE vendor
  /\ roms' = Scanned(image[1], roms)
  /\ pc' = "extract"
  /\ UNCHANGED <<inputs, i, stack, volumes, visits, opened, leaves, saved,
                 outcome>>

ScanPanic ==
  /\ pc = "walk" /\ stack = <<>> /\ Unscanned = {}
  /\ ScanPanics(image[1])
  /\ Panics
-----------------------------------------------------------------------------
\* walk_volume: the files of a volume.
InVolume == pc = "walk" /\ stack # <<>> /\ Top.fn = "volume"
AtFile == Top.pos + 24 <= Top.end /\ Top.pos \in DOMAIN Buf.file
File == Buf.file[Top.pos]
DataStart == Top.pos + (IF File.large THEN 32 ELSE 24)

\* The 64-bit size of a large file is read without a look at the end.
SizeReadable == File.large => Top.pos + 32 <= Buf.len
FileOverflows == Overflows(Top.pos, File.size)
FileEnd == Plus(Top.pos, File.size)
FileFits == FileEnd <= Top.end /\ File.size > DataStart - Top.pos

\* What the loop does with the header it is at.
ReadsFile == AtFile /\ SizeReadable /\ (checks => ~FileOverflows)

VisitFile ==
  /\ InVolume /\ ReadsFile /\ FileFits
  /\ LET next == [Top EXCEPT !.pos = Aligned(FileEnd, 8)] IN
       IF File.pad
         THEN /\ stack' = Append(Below, next)
              /\ visits' = visits
         ELSE /\ stack' = Append(Below, [next EXCEPT !.files = @ + 1])
                            \o Sections(Top.buf, DataStart, FileEnd, 0)
              /\ visits' = Append(visits, <<Top.buf, Top.pos>>)
  /\ UNCHANGED <<inputs, i, volumes, opened, leaves, vendor, roms, saved,
                 outcome, pc>>

FilePanic ==
  /\ InVolume /\ AtFile /\ ~ReadsFile
  /\ Panics

\* The length that is recorded is the one of the header.
Length(frame) == IF frame.lo <= frame.end THEN frame.end - frame.lo
                 ELSE frame.end - frame.lo + WORD

EndVolume ==
  /\ InVolume
  /\ AtFile => ReadsFile /\ ~FileFits
  /\ stack' = Below
  /\ volumes' = Append(volumes,
       [buf |-> Top.buf, offset |-> Top.lo,
        length |-> Length(Top), files |-> Top.files])
  /\ UNCHANGED <<inputs, i, visits, opened, leaves, vendor, roms, saved,
                 outcome, pc>>
-----------------------------------------------------------------------------
\* walk_sections: a run of sections.
InSections == pc = "walk" /\ stack # <<>> /\ Top.fn = "sections"
Section == Buf.sec[Top.pos]
Content == Top.pos + (IF Section.ext THEN 8 ELSE 4)
SectionEnd == Top.pos + Section.size
AtSection ==
  /\ Top.pos + 4 <= Top.end /\ Top.pos \in DOMAIN Buf.sec
  /\ Section.ext => Top.pos + 8 <= Top.end
  /\ Section.size >= 4 /\ SectionEnd <= Top.end

\* The loop goes on behind the section, after the calls it made.
Advanced == Append(Below, [Top EXCEPT !.pos = Aligned(SectionEnd, 4)])

EndSections ==
  /\ InSections /\ ~AtSection
  /\ stack' = Below
  /\ UNCHANGED <<inputs, i, found, saved, outcome, pc>>

Type(types) == InSections /\ AtSection /\ Section.type \in types

CountModule ==
  /\ Type({"module"})
  /\ stack' = Advanced
  /\ leaves' = [leaves EXCEPT !.modules = @ + 1]
  /\ UNCHANGED <<inputs, i, volumes, visits, opened, vendor, roms, saved,
                 outcome, pc>>

\* A name is kept if it can be decoded and is not empty.  With an extended
\* header that does not fit its section it is sliced with its end before its
\* start.
NameReadable == Content <= SectionEnd

CountName ==
  /\ Type({"name"}) /\ NameReadable
  /\ stack' = Advanced
  /\ leaves' \in {leaves, [leaves EXCEPT !.names = @ + 1]}
  /\ UNCHANGED <<inputs, i, volumes, visits, opened, vendor, roms, saved,
                 outcome, pc>>

NamePanic ==
  /\ Type({"name"}) /\ ~NameReadable
  /\ Panics

\* Where the payload starts: behind the compression header, or where the data
\* offset, counted from the start of the section, says.
Payload == IF Section.type \in {"stored", "packed"} THEN Content + 5
           ELSE Top.pos + Section.at
HasPayload ==
  IF Section.type \in {"stored", "packed"} THEN Payload <= SectionEnd
  ELSE Content + 20 <= SectionEnd /\ Payload < SectionEnd

SkipSection_Again ==
  /\ \/ Type({"other"})
     \/ Type({"stored", "packed", "lzma", "tiano", "guid"}) /\ ~HasPayload
  /\ UNCHANGED vars

SkipSection ==
  /\ \/ Type({"other"})
     \/ Type({"stored", "packed", "lzma", "tiano", "guid"}) /\ ~HasPayload
  /\ stack' = Advanced
  /\ UNCHANGED <<inputs, i, found, saved, outcome, pc>>

\* Sections in a section: stored, or guarded by a checksum.
EnterSection_SameDepth ==
  /\ Type({"stored", "guid"}) /\ HasPayload
  /\ stack' = Advanced \o Sections(Top.buf, Payload, SectionEnd, Top.depth)
  /\ UNCHANGED <<inputs, i, found, saved, outcome, pc>>

EnterSection ==
  /\ Type({"stored", "guid"}) /\ HasPayload
  /\ stack' = Advanced \o Sections(Top.buf, Payload, SectionEnd, Top.depth + 1)
  /\ UNCHANGED <<inputs, i, found, saved, outcome, pc>>
-----------------------------------------------------------------------------
\* record_decompressed and walk_owned_sections: the payload is a buffer.
Decompressed(out) ==
  /\ opened' = Append(opened, out)
  /\ roms' = Scanned(image[out], roms)
  /\ vendor' = IF vendor = None THEN image[out].vendor ELSE vendor

Packed == Type({"packed", "lzma", "tiano"}) /\ HasPayload

Decompress_FromNothing ==
  /\ Packed /\ Section.out # None /\ ~ScanPanics(image[Section.out])
  /\ Decompressed(Section.out)
  /\ visits' = <<>>
  /\ stack' = Advanced
       \o Sections(Section.out, 0, image[Section.out].len, Top.depth + 1)
  /\ UNCHANGED <<inputs, i, volumes, leaves, saved, outcome, pc>>

Decompress ==
  /\ Packed /\ Section.out # None /\ ~ScanPanics(image[Section.out])
  /\ Decompressed(Section.out)
  /\ stack' = Advanced
       \o Sections(Section.out, 0, image[Section.out].len, Top.depth + 1)
  /\ UNCHANGED <<inputs, i, volumes, visits, leaves, saved, outcome, pc>>

DecompressPanic ==
  /\ Packed /\ Section.out # None /\ ScanPanics(image[Section.out])
  /\ Panics

DecompressFails ==
  /\ Packed /\ Section.out = None
  /\ stack' = Advanced
  /\ leaves' = IF Section.type = "lzma"
                 THEN [leaves EXCEPT !.undecoded = @ + 1] ELSE leaves
  /\ UNCHANGED <<inputs, i, volumes, visits, opened, vendor, roms, saved,
                 outcome, pc>>

\* walk_volume_slice: a volume is looked for at the start of the section, and
\* has the length its own header says.
HasVolume == Content + 44 <= SectionEnd /\ Content \in DOMAIN Buf.vol

NestedVolume ==
  /\ Type({"volume"})
  /\ HasVolume => ~VolumePanics(Buf, Content)
  /\ stack' = Advanced
                \o (IF HasVolume THEN Volume(Top.buf, Content) ELSE <<>>)
  /\ UNCHANGED <<inputs, i, found, saved, outcome, pc>>

NestedPanic ==
  /\ Type({"volume"}) /\ HasVolume /\ VolumePanics(Buf, Content)
  /\ Panics
-----------------------------------------------------------------------------
\* extract_option_roms: one file after the other; a write may fail.
SaveRom ==
  /\ pc = "extract" /\ dir /\ Len(saved) < Len(roms)
  /\ LET k == Len(saved) + 1 IN
       saved' = Append(saved, [name |-> FileName(roms, k),
                               data |-> roms[k].data])
  /\ UNCHANGED <<inputs, i, stack, found, outcome, pc>>

SaveFails ==
  /\ pc = "extract" /\ dir /\ Len(saved) < Len(roms)
  /\ outcome' = "err" /\ pc' = "stop"
  /\ UNCHANGED <<inputs, i, stack, found, saved>>

Return ==
  /\ pc = "extract" /\ (dir => Len(saved) = Len(roms))
  /\ outcome' = "ok" /\ pc' = "stop"
  /\ UNCHANGED <<inputs, i, stack, found, saved>>

Next ==
  \/ ScanVolume \/ ScanVolumePanic \/ FinishScan \/ ScanPanic
  \/ VisitFile \/ FilePanic \/ EndVolume
  \/ EndSections \/ CountModule \/ CountName \/ NamePanic \/ SkipSection
  \/ EnterSection \/ Decompress \/ DecompressPanic \/ DecompressFails
  \/ NestedVolume \/ NestedPanic
  \/ SaveRom \/ SaveFails \/ Return

\* The program is sequential and, once started, runs on.
Spec == Init /\ [][Next]_vars /\ WF_vars(Next)
-----------------------------------------------------------------------------
TypeOK ==
  /\ IsImage(image) /\ dir \in BOOLEAN /\ checks \in BOOLEAN /\ i \in Nat
  /\ stack \in Seq(Frame)
  /\ volumes \in Seq([buf : Bufs, offset : Nat, length : Nat, files : Nat])
  /\ visits \in Seq(Bufs \X Nat) /\ opened \in Seq(Bufs)
  /\ leaves \in [modules : Nat, names : Nat, undecoded : Nat]
  /\ vendor \in Markers \cup {None} /\ roms \in Seq(Roms)
  /\ outcome \in Outcomes \cup {None}
  /\ pc \in {"walk", "extract", "stop"}

\* No step computes with a sum that does not fit a word: the build checks, or
\* no header of the image is of such a size.
NoWrap ==
  checks \/ \A b \in Bufs :
    /\ \A p \in DOMAIN image[b].file : ~Overflows(p, image[b].file[p].size)
    /\ \A fv \in DOMAIN image[b].vol : ~Overflows(fv, image[b].vol[fv].len)

\* The calls on the stack are nested for good.  MAX_DEPTH counts runs of
\* sections, starts again at 0 in a nested volume, and a GUID-defined section
\* may have itself as its payload: still, each call made from a run of sections
\* is in a later buffer, or starts later in the buffer, or is one deeper than
\* the run; and so is a call made for a file of a volume unless a size wrapped
\* and took the volume back in front of its start.
Deeper(upper, lower) ==
  \/ upper.buf > lower.buf
  \/ /\ upper.buf = lower.buf
     /\ \/ upper.lo > lower.lo
        \/ upper.lo = lower.lo /\ upper.depth > lower.depth
Onward(f) == NoWrap \/ f.fn = "sections"
\* And no call reads a header outside of the buffer it walks.
Inside(f) == (Onward(f) => f.lo <= f.pos) /\ f.end <= image[f.buf].len
CallsNest ==
  /\ \A n \in DOMAIN stack : Inside(stack[n])
  /\ \A n \in DOMAIN stack :
       (n > 1 /\ Onward(stack[n - 1])) => Deeper(stack[n], stack[n - 1])

\* The files reported are those of the volumes reported, whatever is still
\* being walked, and no file is counted twice if no size wraps and nested
\* volumes end where their sections do (Contained).
SumOf(list) ==
  LET sum[n \in 0 .. Len(list)] ==
        IF n = 0 THEN 0 ELSE sum[n - 1] + list[n].files
  IN  sum[Len(list)]
Contained ==
  NoWrap /\ \A b \in Bufs : \A p \in DOMAIN image[b].sec :
    LET s == image[b].sec[p]
        fv == p + (IF s.ext THEN 8 ELSE 4)
    IN  (s.type = "volume" /\ fv \in DOMAIN image[b].vol) =>
          fv + image[b].vol[fv].len <= p + s.size
FilesCounted ==
  /\ Len(visits) = SumOf(volumes) + SumOf(stack)
  /\ Contained => \A m, n \in DOMAIN visits : visits[m] = visits[n] => m = n

\* "Parse the BIOS region: find and walk every top-level firmware volume."
Done == outcome = "ok"
Walked(b, fv) ==
  \E n \in DOMAIN volumes :
    /\ volumes[n].buf = b /\ volumes[n].offset <= fv
    /\ \/ fv = volumes[n].offset
       \/ fv < Plus(volumes[n].offset, volumes[n].length)
EveryVolumeWalked ==
  Done => \A fv \in DOMAIN image[1].vol : Accepted(image[1], fv) => Walked(1, fv)

\* So it is for images in which nothing that is decompressed has volumes, and
\* no volume of the image is reported twice.
VolumesFound ==
  Done =>
    /\ (\A n \in DOMAIN volumes : volumes[n].buf = 1) => EveryVolumeWalked
    /\ Contained =>
         \A m, n \in DOMAIN volumes :
           (volumes[m].buf = volumes[n].buf
              /\ volumes[m].offset = volumes[n].offset) => m = n

\* Success with --extract-roms means that every ROM of the image and of what
\* was decompressed is in a file, under its own stem and not overwritten by
\* another one, unless another signature lies in the 512 bytes before its own.
LastWrite(name) ==
  LET last == CHOOSE n \in DOMAIN saved :
                /\ saved[n].name = name
                /\ \A m \in DOMAIN saved : saved[m].name = name => m <= n
  IN  saved[last].data
Alone(buf, p) == \A q \in DOMAIN buf.sig : q < p => q + ROM_STEP <= p
RomsSaved ==
  (Done /\ dir) =>
    \A b \in {1} \cup ToSet(opened) : \A p \in DOMAIN image[b].sig :
      (/\ image[b].sig[p] # None /\ p + ROM_HEADER <= image[b].len
       /\ Alone(image[b], p)) =>
        \E n \in DOMAIN saved :
          /\ saved[n].name.stem = image[b].sig[p].stem
          /\ LastWrite(saved[n].name) = image[b].sig[p].data

\* "find and walk every top-level firmware volume": so parse returns, whatever
\* the headers say.
WalkReturns == <>(outcome # None)

\* It does if no size wraps: the positions that a loop goes to grow, and the
\* calls nest.
WalkEnds == NoWrap => WalkReturns
=============================================================================
