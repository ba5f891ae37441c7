# intel_ma: a TLA+ verification project

`intel_ma` reads SPI flash images of Intel machines and, with `clean`, removes
most of the Management Engine (ME) firmware from them: it erases partitions and
modules, rewrites the partition table (`$FPT`), relocates the one partition that
must stay (`FTPR`), truncates the region, sets the disable straps and edits the
flash descriptor. A wrong byte bricks a board. The program is sequential; what
makes it hard is that one buffer is edited by a long chain of steps, each of
which depends on facts an earlier step read, and that many steps can fail in the
middle of the chain.

Paths below are relative to `src/src/`, unless they start with `src/`.

## 1. Inventory

| Component | State it keeps | Operations | What makes it correct |
|---|---|---|---|
| `region.rs` bounded view | none; edits the caller's buffer | `check`, `read*`, `write*`, `fill_range`, `move_range`, `extract` | nothing outside the checked range changes; a refused call changes nothing; `move_range` moves |
| `fpt.rs` table parsing | `Fpt` (raw entries), `Ftpr` | `find_all_fpt`, `parse_fpt`, `find_ftpr` (also by scan, IFWI) | entries describe where partitions are |
| `cleaner.rs` analysis | `Analysis` | `analyze`, `resolve_manifest` | generation and version fit the image; failures leave no half truths |
| `cleaner.rs` pipeline (`clean`) | the buffer, `Report` | validate, straps, wipe (gen 1), ignition, strip, truncate, soft disable, harden, extract, verify | success means what the report says; a refusal changes nothing; what is extracted is current |
| `cleaner.rs` partition stage | kept entries, `extra_part_end` | scan of the table, rewriting, EFFS flag, checksum, module pass | only removed data is lost; table, header and end describe the image |
| `modules.rs` generation 2 | LLUT, chunk ranges | `remove_modules`, `relocate_partition` | unremovable modules keep every chunk; LLUT follows the move |
| `modules.rs` generation 3 | the sorted `$CPD` directory | `check_and_remove_modules_gen3` | directory, manifests and unremovable modules survive; the end covers them |
| `descriptor.rs`, `locks.rs` | registers of the descriptor | FLREG codec, `disable_bit`, survey of access rights | codec is an inverse pair; the survey agrees with what `clean -d` writes |
| `manifest.rs`, `pubkeys.rs` | none | key, version, hash, RSA check | a changed FTPR is noticed |
| `main.rs` | files | `run_clean`, reports | outputs are written whole and in an order that survives errors |
| `bios.rs` | the result being built, the volumes recorded, the call stack | `parse`, `walk_volume`, `walk_sections` and what they call, `scan_option_roms` | the walk ends and stays in its buffers; nothing is counted twice or missed; every ROM gets a file of its own |
| `fit.rs` | none | pointer, table, what it says of Boot Guard | the table that is read is the one the pointer means |
| `amd.rs` | none | firmware table, directories, addresses of entries | an address is mapped to the byte the hardware would see |
| `gbe.rs` | none | region, banks, the active bank | banks lie in the region and the active one is valid |
| `locks.rs` survey, `info`, `check` | none | one report from descriptor, FIT and searches | agrees with what `clean` has done to the image |
| `mei.rs`, `lingo.rs`, `bytes.rs`, `error.rs` | none | a probe of the running machine, wording, byte reads | they print what they read |

Interactions: everything runs in one thread and by plain calls. `main.rs` calls
`clean`; `clean` calls `analyze`, the partition stage, `descriptor.rs` and
`manifest.rs`; the partition stage calls `modules.rs`; all of them edit the
image through `region.rs`. What they share is the buffer and, across steps, the
offsets that were read from it earlier: `ftpr_offset`, `end_addr`, the parsed
table, the generation. The hard behaviours are therefore stale facts, order,
failures half way, arithmetic at boundaries, and images that are legal in form
but were truncated or cleaned before. They are listed line by line under
"hazards" in `PROJECT.json`.

## 2. Plan

Ordered by how much damage a mistake does; (done) marks what exists.

1. (done) `Region`, `Memmove`, `MoveRange`, `MoveRangeProofs`: the primitive
   that every relocation rests on, with its one-step abstraction.
2. (done) `Partitions`, `PartitionsProofs`: the stage that erases.
3. (done) `Descriptor`, `Clean`: the pipeline and its options.
4. (done) `ModulePass`, `ModulesGen3`, `ModulesGen3Proofs`, `ModulesGen2`: the
   two module passes and the contract they both implement and `Partitions`
   relies on.
5. (done) `CleanCli`, `CleanCliProofs`: `run_clean` over files, with I/O errors
   and crashes.
6. (done) `OptionRoms`, `Bios`, `BiosProofs`: the recursive walk (depth bound,
   covered ranges, nested buffers) and the extraction of option ROMs.
7. (done) `Fit`, `Amd`, `Gbe`, `Inspect`: the tables the other commands read,
   and the commands asked about an image before and after `clean`.
8. (done) `CleanProofs`: the invariants of the pipeline, and the codec of
   `Descriptor` as a round trip.
9. (done) `ModulesGen2Proofs`; `TableDescribesImage` with the invariant of the
   block loop carried into `Partitions`; the sums, lists and places of the walk
   in `BiosProofs`.
10. (done) `InspectProofs`: the parsers for every file, and the reports on what
    `clean` leaves.
11. Left: nothing of what the runs check but liveness; `mei.rs`, and the
    byte level of the parsers, are left out (section 6).

Composition: `Region` holds the storage operators and is extended by every
component that edits the image; `MoveRange` instantiates `Memmove` with a
refinement mapping; `Partitions` runs the same block loop (`MoveBlock` is
`BlockMoved` of `Region`) and has the module pass as `ModulePass` states it,
which `ModulesGen3` and `ModulesGen2` instantiate with refinement mappings;
`Clean` extends `Descriptor` and has the partition stage by its results;
`CleanCli` has `Clean` by its results; `Inspect` extends `Clean` with `Fit`,
`Amd` and `Gbe`, runs it, and instantiates it a second time with the image that
is left (`Now == INSTANCE Clean WITH img <- File`); `Bios` extends `OptionRoms`.

## 3. The modules

### Region, MoveRange, Memmove (`region.rs`)

The buffer is a function from addresses to cells. A cell holds the *address its
datum had in the image that was read*, or `FF` when erased: no two data can be
confused, so "lost", "moved" and "untouched" can be told apart exactly, which
bytes cannot do. `BLOCK` and the region are constants. `MoveRange` is
`Region::move_range`, one action per turn of the loop (`MoveBlock`: read the
block, erase its source, write it), the two checks first (`Accept`, `Reject`).
`Memmove` is what a caller is promised, in one step.

`move_range.cfg`: every call with offsets and size up to 8 on a region of 7 cells
inside an image of 9, blocks of 2: overlaps in both directions, sizes below, at,
above and not divisible by a block, ranges that run past the region.

### Partitions (`remove_partitions_and_modules`, cleaner.rs:508)

Actions follow the code: the loop over the entries (`SkipNvram`, `SkipNoData`,
`KeepPartition`, `RemovePartition`, and `ScanPanic` for the subtraction that
overflows in builds with checks), `RewriteTable`, `ClearEffs`, `FixChecksum`,
the module pass, and the relocation with its own block loop. The table in the
image (`slots`, `hdr`) is separate from the table that was parsed (`table`):
that they go apart and come together again is what the properties are about.

Abstractions and assumptions:

* partitions do not overlap the table itself;
* a region is at most as long as the length an entry can have
  (`LengthAssumption`: lengths have 32 bits);
* a table may name FTPR twice. The first one in the region is FTPR and is moved,
  possibly over the second; `TableDescribesImage` excepts an entry whose range
  the move has written to (`WrittenOver`);
* the checksum is over the header fields the code touches, as the numbers they
  add to the sum, modulo `CheckMod` (256; 8 in the run); `other` stands for the
  bytes that do not change. A generation 2 table at offset 0 has no 0x10 bytes
  in front of it and the code sums the wrong bytes: the model leaves that
  checksum open and `HeaderAgrees` excepts it;
* the module pass is its contract, `ModulePass`: it fails (in generation 2 with
  any part of FTPR erased), declines (generation 2 without recognisable
  headers), or erases any part of FTPR and returns 0 or an end within it. Images
  whose module tables point outside FTPR are outside of the contract.
  `NewOffsets` are the offsets `relocate_partition` may settle on;
* `checks` is the build: debug and test builds panic on overflow, release builds
  wrap; a wrapped end is 2^64 too large and modelled as a negative number that
  compares above all others (`ResultEnd`);
* what a failed relocation has written into an *erased* slot is not kept, as the
  image of a stage that fails is not used.

`find_ftpr` takes the first entry named FTPR or CODE (`FtprNames`), and the `$CPD`
scan if there is neither; CODE means generation 1, which is not stripped, unless a
`$CPD` makes it generation 3 (`IsCode`). The lists protect the name FTPR only, which
is what `FtprListedIffInRegion` is about: every entry of that name, in whatever
place, and the entry that the relocation rewrites.

`partitions.cfg`: eleven tables (FTPR first, in the middle, last, absent, listed
twice; CODE in front of FTPR or instead of it; a container FTUP around NFTP; NVRAM;
entries without data, past the region, open-ended), all lists and options; 10 cells
in the region, blocks of 2, three relocation targets: in place, downward
overlapping, upward. The run distinguishes every branch condition of the code.

### Descriptor and Clean (`descriptor.rs`, `locks.rs`, `clean`)

`Clean` is the pipeline in the code's order, one action per section of `clean`:
`Analyze`, `Validate`, `SetStraps`, `WipeGeneration1`, `CheckVersion`,
`Ignition`, `Strip`/`SkipStrip`/`StripFails`, `Truncate`, `SoftDisable`,
`Harden`, `ExtractDescriptor`, `ExtractMe`, `VerifySignature`. An image is what
`analyze` can find out about it; the ME region is "original", "stripped" or
erased. The partition stage returns one of `Ends`, declines, fails or panics;
panics are outcomes of their own. `Descriptor` has FLREG as its two fields in
blocks, with their 15-bit width, straps as a set of bits, and FLMSTR2 as a set of
bit numbers, once as `clean -d` writes it and once as `locks` reads it.

Two conventions of this module carry properties. A call that ends says how
(`Refusals`, `Failures`, "ok"), and the refusals are the ends in front of the
first edit. And `a`, the analysis, is read once and used to the end, as in the
code; what an image *has* and what the analysis *says* are different things
(`img.major` 13 has no generation of its own, a manifest may be unreadable).

A FLREG field has 15 bits, so a region end of 0 or one past the last block has no
name in it and `-t` would write a masked one. `EndFits` is where the end is
nameable; what `TruncationKeepsRetained` and `ExtractsAgree` say of the extracted
descriptor is said for those images. The extracted file and the truncated image
need no such condition.

`resolve_manifest` may fail half way: with a tag and no version (`noversion`) the
generation is set and the version is not. The signature check has three verdicts
(`Verdict`), as a manifest that reaches past the region ends it with an error and
no answer.

`clean_inspect.cfg`: 45 images, 36 of them in `MCClean`, each a variation of a
generation 1, 2 or 3 dump that takes one branch of the code (no region, no table, no
FTPR, several tables, unreadable manifest, ME 6 Ignition, TXE, IFWI, bad signature,
short file, BIOS not adjoining, ...), times all 256 combinations of options, times
four ends: 0, one inside the regions, the end of the small regions and one past it.
Blocks are 2 bytes, so an end can be unaligned. An end past the region is what the
stage returns for modules that are kept in a partition that the table says is longer
than the region (modules.rs:253, 287), as in an image that was truncated before; the
promise of `TruncationKeepsRetained` then is for the part in the region. Ends are
naturals: the one case whose end wraps, a relocation downward of a generation 3
partition of which no module is left, in a build without overflow checks, is left
out.

### ModulePass, ModulesGen3 (`check_and_remove_modules_gen3`)

`ModulePass` is what the caller of a module pass gets, in one step: `Decline`,
`Strip` (cells of FTPR, and no others, are erased; the end is 0 or in FTPR) or
`Fail` (some of that is done).

`ModulesGen3` reads the directory as a whole (`ReadDirectory`, `ReadFails`),
sorts it by offset with the partition's length as entry 0, and sweeps: module by
module `KeepModule` or `EraseModule`, up to where the next entry starts. A module
is its offset, whether its name keeps it, and a size, which the code does not
read: it is what the properties are about. `ReadDirectory` picks the one order
that `Sorted` admits, stable as the code's sort is. The run's directories have up
to three modules at equal offsets, over one another, in any order, past the end
of the partition and of the region, and a partition of length 0, as the IFWI scan
finds it. There entry 0 sorts first and every range ends one entry later:
`KeptSurvives` shows that no module is lost, and excepts the directory itself,
which the range of entry 0 covers and the code does erase.

### ModulesGen2 (`check_and_remove_modules`, `relocate_partition`)

The loop over the headers (`KeepPlain`, `ErasePlain`, `HuffmanModule`, ...), the
loop over the chunks (`SpareChunk`, `EraseChunk`), and the relocation with the
LLUT it rewrites (`StartMove`, `MoveBlock`, `FinishMove`). What the LLUT says
(`llut`) is apart from the cells it occupies in `buf`, which tell whether it is
still there. `GetChunksOffsets` is `get_chunks_offsets` with its sorted list read
as a set: an offset that occurs twice is its own successor, the largest has none
and makes the code panic (`NoSuccessor`). Panics and errors end the pass where
they happen, with what has been erased by then. `result` is a history variable:
what the pass had left before the relocation began, for the refinement of
`ModulePass`.

Assumptions: the Huffman modules name one LLUT; nothing that is erased starts
inside the LLUT; the slot of the table has the start of FTPR (shown by
`Partitions`). The properties are about images that are `Sound`: no two chunks
start at one place, the stream ends behind the last, and modules are loaded at
multiples of the chunk size. The last one matters: the code keeps the chunks
`base / size` to `base / size + length / size`, which for a module that starts in
the middle of a chunk can be one too few; for one that ends at a chunk's start it
is one more than needed, an empty module's included (`Spared`). What a pass does
outside of FTPR depends on where the LLUT points: behind FTPR's end the chunks
are erased too, which `Extent` covers, and in front of its start as well, which
`ImplementsPass` excepts (`ChunksInFtpr`). Likewise only an LLUT that lies in what
is moved, with all its chunks, is found and finds them after a relocation
(`LlutInFtpr`). An LLUT entry of offset 0 that is not
marked as absent counts as no chunk for the removal, and is shifted by the
relocation, after which it is one; `LlutFollows` excepts it.

The run's partitions have two or three modules and three chunks with every choice
of three offsets or none, a stream that ends behind the last chunk or in the
middle, and each error: no LLUT, an erased one, headers or LLUT past the region,
no chunk size, modules before the first and behind the last chunk. The relocation
goes to its minimum, to a higher place that the LLUT's pointer enforces, or out of
the region.

### CleanCli (`run_clean`, `write_extract`)

A file is written in two steps, emptied (`Open`) and filled (`Fill`); either can
fail, `Crash` can come between any two steps, and `Rerun` starts the command
again on what is there. Input, output and the two extracted parts may be the same
file. What `clean` does to a torn file is open (it may well succeed: a file
without a table is not an error). Four files are one for each role; two runs are
enough for a run to meet what another one has left. Paths are symmetric.

### OptionRoms, Bios (`bios.rs`, `run_bios`, `extract_option_roms`)

The recursion is a machine with its stack of calls: a frame is a call of
`walk_volume` or `walk_sections` with the buffer it walks, where it started
(`lo`), where it is (`pos`), where it must end, the depth argument and the files
counted so far. `ScanVolume` and `FinishScan` are the loop of `parse`;
`VisitFile`, `EndVolume` the one of `walk_volume`; the actions on sections are the
arms of the match in `walk_sections`, with the functions they call as far as
these return at once (`CountModule`, `CountName`, `EnterSection`, `Decompress`,
`DecompressFails`, `NestedVolume`, `SkipSection`). `walk_owned_sections` takes the
result of the walk over into a walk of another buffer and back: in the model the
result is shared, and that is what the mutant of `FilesCounted` breaks. Slices
that would be out of order and reads past a buffer are panics.

An image is a family of buffers, each described by the headers that would be read at
each of its positions; what a section decompresses to is another buffer, of its own
for each section. The one assumption is that decompression is acyclic (no buffer
contains itself, in any number of steps), as it is for images that were built from
their parts. `visits` and `opened` are histories: the files counted and the buffers
decompressed, by which `FilesCounted` and `RomsSaved` are stated.

The length of a volume and the size of a large file have 64 bits, and their sum
with a position may not. `checks` is the build, as in `Partitions`: one that checks
overflow panics (`ScanVolumePanic`, `FilePanic`, `NestedPanic`), a release build
goes on with the sum modulo `WORD` (`Plus`). A file of such a size passes the test
of bios.rs:159 and takes `pos` backwards, even in front of its volume; a volume of
such a length has its end in front of its start. `NoWrap` is where neither happens:
the build checks, or no header of the image has such a size. It is a premise of
what the properties say of positions that only grow, and of nothing else: a call
made from a run of sections is deeper whatever wraps, every end lies in its buffer,
and the files add up. That the premise is needed is what `bios_endless` shows.

`bios.cfg`: some 550 images. Each is a volume whose file holds one of seven kinds
of sections - stored, GUID-defined, GUID-defined with itself as its payload,
compressed, undecodable, a nested volume, a nested volume longer than its section
- in another one in a third, followed by variations of a second volume, headers at
the edges of what is accepted, and option ROMs at every relation of two
signatures. `MAX_DEPTH` is 2 instead of the code's constant, so that the bound is
met by three kinds in each other. Four buffers are one for each nesting of
compressed sections. `WORD` is 4096 instead of 2^64: larger than every sum of
positions in the images, so that only the sizes made for it wrap. Eight images have
one: back to where no file is, to a file, into a nested volume or a padding file
that is read for ever, and volumes that end in front of their start. What is left out
is an image in which a file that is *counted* is read for ever, or whose nested volume
is entered again without end: the release build then counts or recurses without
bound, and TLC's states would be infinite. The theorems cover these images.
The specification has `WF_vars(Next)`: one thread, which once
started runs on. `WalkEnds` needs no more than that.

`bios_endless.cfg`: one image, with a padding file whose size leads back to the
first one. The release build never returns, although every step is fair.

### Fit, Amd, Gbe, Inspect (`fit.rs`, `amd.rs`, `gbe.rs`, `locks.rs`, `main.rs`)

The parsers are operators: `ParseFit` with `MappingFor`, the mask that depends on
the file's size; `FindFet`, `Directories` and `MaskAddr`; `GbeRegion`, `Banks` and
`Active`. 32-bit addresses above the middle are the negative numbers they are
congruent to, so that an address of the last 16 MiB below 4 GiB and its distance
from there are the same thing.

`Inspect` is the program used twice: `clean`, and before or after it one of `info`,
`check`, `fit`, `locks`, `amd`, `gbe`. `Left` is the image `clean` leaves, and the
answer is computed from a new analysis of it - which may tell another generation
than the first one did. Each answer is an operator of its own (`InfoSays`,
`LocksSays`, ...), and the action only gives it. What the commands read and `clean`
never touches are inputs. A file has the tables, directories and entries that its
headers count, as far as it reaches (`IsFitFile`, `IsAmdFile`, `IsGbeFile`), and
nothing else is assumed of one.

`CheckAcceptsCleaned` and `HardeningSeen` except a full dump whose descriptor places
the ME region at 0 (`MeBehindDescriptor`), where the descriptor itself lies: `-t`
then cuts the file where it would cut the extracted region, and the analysis of what
is left panics.

`clean_inspect.cfg` asks each command about 24 images, before `clean` and after it
with five of the sets of options and one of the ends (`Asked`); the runs of `clean`
with all others are in the same state space, unasked, so one run checks what `clean`
promises and what the reports make of it. The files are FITs in files of 4 to 64 MiB
with the table at the start, in the last MiB and at the end, and each way a table is
refused; AMD directories with entries at every edge of the address mapping in ROMs
of eight sizes; LAN regions of unused, empty, small, odd and large size, and
registers whose reserved bits are zeros, ones or mixed, as only a register that is 0
or all ones in every bit counts as unused (`Unused`). The properties of the parsers
state what an address *means* (distance from the end of the file for the FIT, the
window below 4 GiB for AMD) and never the arithmetic of the code.

## 4. Runs

| Run | Distinct states | Question |
|---|---|---|
| `move_range` | 1872 | does the block loop move, exactly when, and what else does it touch? |
| `partitions` | 546000 | do image, table, header and end agree after the stage? |
| `modules_gen3` | 20000 | which modules survive the sweep, and what does the end cover? |
| `modules_gen2` | 138000 | do the chunks that must stay survive, and does the LLUT follow the move? |
| `clean_inspect` | 253000 | what do success, refusal and failure of `clean` mean, and do the reports agree with it and with what the addresses mean? |
| `clean_cli` | 150000 | which files are whole after errors and crashes? |
| `bios` | 42000 | does the walk end if no size wraps, inside its buffers, with everything counted once and every ROM saved? |
| `partitions_whitelist` | violation | is a kept partition always still there? |
| `clean_hardening` | violation | does `-d` drop the ME's access in every generation? |
| `clean_version` | violation | is the version present when the code expects it? |
| `bios_volumes` | violation | is every top-level volume walked? |
| `bios_endless` | violation | does the walk return, whatever sizes the headers have? |

`CHECK_DEADLOCK FALSE` is set where the modelled program ends: a call that has
returned takes no further step.

What the passing runs say, and where it could have gone wrong:

* `move_range`: a finished call has moved the range exactly if the move is downward,
  between disjoint ranges or of one block at most (`MovedIffSafe`), and it
  implements a one-step memmove.
* `partitions`: the finished table points at the data it names after a relocation
  and lists FTPR exactly if its entry has data in the region (`TableDescribesImage`;
  every entry of that name, also next to one named CODE), the header's flag and
  checksum fit the table (`HeaderAgrees`), the end covers what is kept
  (`EndCoversKept`), and exactly what is removed is lost (`OnlyRemovedDataLost`,
  `RemovedDataGone`).
* `modules_gen3`, `modules_gen2`: modules that must stay survive both passes,
  wherever they are listed and whatever surrounds them (`KeptSurvives`,
  `UnremovableSurvives`: the latter through the relocation and inside the end, too),
  nothing but free space lies behind the end (`NothingBehindEnd`), the others are
  gone (`StrippedModulesGone`, `RemovedModulesGone`), after a move the LLUT finds
  each chunk in its new place (`LlutFollows`), and both passes are the one
  `Partitions` relies on (`ImplementsPass`).
* `clean_inspect`: a refused call, -s and the IFWI generations touch nothing they
  must not (`SparedUntouched`); success on a stripped region implies a verified
  signature (`StrippedMeansSigned`); success on a full dump means both straps and an
  erased region for generation 1, exactly the strap that was asked for where there
  is an FTPR, and a dump that was not edited at all, whatever was asked for, where
  there is none (`DisabledExactly`); `-t` never cuts retained data
  (`TruncationKeepsRetained`); what is extracted is taken after every edit and its
  parts fit each other (`ExtractsAgree`).
* `clean_cli`: the input is safe if no output goes there (`InputKept`), the
  extracted parts are safe before the image is written (`ExtractsSavedFirst`), and
  the exit status tells what has happened to the files (`OutcomeTold`).
* `bios`: each call made from a run of sections is in a later buffer, or starts
  later, or is deeper than its caller, and so is each call made for a file if no
  size wraps (`CallsNest`: MAX_DEPTH alone does not bound the recursion, it starts
  anew in each nested volume); the walk ends if no size wraps (`WalkEnds`). The
  files reported are those of the volumes reported and, if nested volumes end where
  their sections do and no size wraps, none is counted twice (`FilesCounted`); every
  volume of the image is walked if nothing that is decompressed has volumes, and none
  is reported twice under the premises of `FilesCounted` (`VolumesFound`); every ROM that no other signature hides is in a file that no
  other ROM has overwritten (`RomsSaved`).
* `clean_inspect`, the reports: what `clean` calls a success `check` accepts
  (`CheckAcceptsCleaned`); after -d `locks` sees the ME locked out up to generation
  3 (`HardeningSeen`); Boot Guard is reported exactly if the table the pointer means
  advertises it, for flashes of the sizes the code knows (`BootGuardReported`); AMD
  entries are reported where they are mapped (`EntriesMapped`); GbE banks lie in the
  region and beside each other (`BanksReadable`).

The five violations and three of the passing properties (`MovedIffSafe`,
`DisabledExactly`, `BootGuardReported`) are disagreements between the code and
what its documents, log lines or assertions say; "findings" in `PROJECT.json`
quotes both sides. Observations that have no finding of their own:

* the early success without a table or FTPR, a finding for `-S`, drops `-d`, `-D`
  and `-M` silently, too (`DisabledExactly` states it); `-M` on generation 1 does
  nothing;
* IFWI images are protected by their generation, hence by their version: one
  whose version the code does not know (13) is stripped;
* the truncation size that is reported may exceed the region;
* a relocation downward always overflows an unsigned subtraction and panics in
  builds with overflow checks (modules.rs:261, 330), which is `FinishMove`'s
  "panic"; an image truncated before has an FTPR entry that reaches past the
  region and loses it;
* `info` and `check` end at a disabled region, before Boot Guard is looked for;
* a full dump whose descriptor places the ME region at 0 is cut by `-t`
  (cleaner.rs:408) to less than the region, and what is left cannot be analysed
  any more;
* a stray `55 AA` hides an option ROM that starts within the next 512 bytes
  (`RomsSaved` excepts it, by `Alone`);
* for AMD ROMs of more than 16 MiB the address 0xff00_0000 itself is taken as an
  offset (`EntriesMapped` excepts it).

## 5. Theorems

Proved with TLAPS for every value of the constants that satisfies the ASSUMEs of
the modules (TLC evaluates those on every run).

`MoveRangeProofs`: `TypeCorrect`, `MovedExactlyIfSafe`, `OthersUntouched`,
`RefinesMemmove`. Only finished calls are described by `MovedIffSafe`, so the
inductive invariant `IInv` says what the buffer is after `i` bytes: if the move
is safe, what a complete move of the first `i` bytes leaves (`MovedSoFar`); if
not, the first block already wrote over a datum that was not read yet, that datum
is nowhere in the buffer, and since later blocks only copy what is there it never
comes back (`LostForGood`); `Framed` is the frame.

`PartitionsProofs`: `TypeCorrect`, `OthersKept`, `RemovedGone`,
`HeaderConsistent`, `KeptCovered`. The invariant adds what holds while the stage
runs: up to the relocation every cell holds its own datum or is erased
(`InPlace`), so erasing a partition's range erases all of its data (`ErasedInv`),
and the relocation copies only what is in the image, so nothing comes back; the
slots hold exactly the entries kept (`SlotsInv`), which are retained by the lists
and covered by `extraEnd` (`KeptInv`); the sum is restored by the checksum and not
disturbed after it (`SumInv`); and because `-r` excludes both lists the partition
that is moved is named FTPR (`MoveInv`, `OnlyFtprWithRelocate`).

`TableTrue`, of the same module, states `TableDescribesImage`. A second
invariant is kept on top of the first. `Counted`: the entries kept are those the
lists retain among the ones scanned, in increasing order and each once, which
relates the number in the header to a cardinality. `Located`: each slot tells where
the data of its entry is, and while the block loop runs, the part of the range that
has been moved is in its new place and the rest in the old one, as in
`MoveRangeProofs`. That the target of the move belongs to no other entry that was
kept follows from `-r` excluding the lists: only entries of the name FTPR are kept,
hence the exception for a second one.

`ModulesGen2Proofs`: `TypeCorrect`, `Survives`, `Removed`, `LlutFollowsFtpr`,
`RefinesPass`, for every image, module list and LLUT. The code protects a chunk by
testing whether an end of one range lies in another one, which would miss a chunk
around another. `ChunksApart` shows that this cannot be: the end of a chunk is the
least offset behind its start (or the stream's end), so chunks of a sound LLUT are
equal or disjoint. The invariant says what the first loop has found, marked and
erased up to the module it is at (`Found`, `Marked`, `Covered`, `Gone`), what the
second has erased up to the chunk (`Gone`), that what has to stay is `Intact`, what
the pass leaves (`Left`), and how the bytes of the relocation relate to those
(`Moving`). For `LlutFollowsFtpr` the successor of a chunk is shown to be the same
one after every offset has been shifted by the same amount, within 24 bits.
`Removed` says more than that data is erased where it was: no datum of a removed
module is anywhere in the image after the move. With `RefinesPass` the contract of
`ModulePass` is no assumption for generation 2 either.

`ModulesGen3Proofs`: `TypeCorrect`, `KeptIntact`, `StrippedErased`,
`EndCoversKept`, `RefinesPass`, for every number, order and place of the modules.
The invariant says what the sweep has done in front of the entry it is at: where a
module could go its range is erased (`Swept`), and the end remembered covers those
that stay (`Covered`); `Framed` is the frame, which is also what the refinement
needs. The sweep goes over places in the sorted order and the properties are about
modules, so the order must list them all (`Listed`): the sort is strict, hence
injective, and there are as many places as entries, hence it is a permutation.
For `EndCoversKept` a cell behind the end is put between two neighbouring entries:
the first place whose entry starts behind the cell exists, because the length of
the partition is an entry too, and the module in front of it was erased. With
`RefinesPass` the contract `Partitions` relies on is no assumption for generation 3.

`CleanProofs`: `TypeCorrect`, `Spared`, `Signed`, `Disabled`, for every set of
images, every end the stage may return and every block size. The pipeline is a
line of steps with early ends; the properties speak of its end, or of every
moment but of facts fixed before. The invariant says for each step what has been
edited so far (`Edited`), what the report holds (`Reported`), how the straps stand
(`Straps`) and that the analysis is a function of the image and does not change
(`Known`). `Disabled` needs all of it: that the straps of generation 1 are set in
front of every early success, that the strap of a later generation is touched in
one place, and that an early success has no FTPR. Two more invariants tell the cases
apart: `Early` (an early success of a later generation has edited and reported
nothing, which no step in front of `CheckVersion` does) and `AfterVersion` (behind
it there is an FTPR, with a version, from which `VersionTellsGeneration` gets a
generation of 2 to 7).

`RetainedKept` and `Agree` state `TruncationKeepsRetained` and `ExtractsAgree`, on
a second invariant: `Lengths` follows the end that the stage returns through the
rounding to a block and the cut, and `Copies` says that what was extracted equals
what would be extracted now, at every later step. They rest on the codec as a round
trip: decoding an encoded region of whole blocks, not empty and within the fields,
gives the region.

`BiosProofs`: `CallsNested`, `TypeCorrect`, `FilesCountedOnce`, `VolumesFoundOnce`
and `RomsAllSaved`, for every image, every `MAX_DEPTH` and `WORD`, and both kinds of
build. The headers of an image may contradict each other in any way; what `CallsNested`
says of the files of a volume, and the second halves of `FilesCountedOnce` and
`VolumesFoundOnce`, have the premise `NoWrap`.

* `CallsNested`: a step replaces the frame at the top by one that differs in `pos`
  and `files` alone and pushes at most one frame, or drops the top (`Pushes`,
  `Moves`, `Pops`); a pushed frame is inside of its buffer and deeper because a
  section's content starts behind its header, a file's data behind the file's, and
  the depth grows where the payload may start at the section itself. `WordsAdded` is
  the sum of two words: in front of the end of the buffer wherever the code's test
  passes (so every end is `Inside`), and behind its summands if it has not wrapped.
  `FileBounds` and `VolumeFrame` take the code's two tests apart with it. Since there
  are finitely many buffers, places and depths, this is, for an image with `NoWrap`,
  the safety half of termination.
* `VolumesFoundOnce`: `ScanInv` says of each acceptable volume the scan has passed
  that it lies in one that is recorded or is being walked, unless a volume was found
  in a decompressed buffer; it needs no `NoWrap`, as the walk of a volume ends where
  its length says, wrapped or not, and `LengthEnds` recovers that end from what is
  recorded. That this exception is needed is the finding of
  `bios_volumes`.
* `FilesCountedOnce`: `Sums` is the arithmetic, with a frame's own count. That
  nothing is counted twice is `OnceInv`: what the calls on the stack will still read
  is pairwise apart (`Apart`), and none of it has been seen (`Fresh`), where a place
  is seen when its file is counted, its volume recorded or its section decompressed.
  A call gets what its caller passes over and the caller goes on behind it; a buffer
  is walked once because the section it comes from is; and the scan of the image does
  not come back to a volume because what was seen of the image lies in volumes it
  passed (`Behind`). `Walks` gives the eight actions that move the walk one common
  shape, so that the argument is made once.
* `RomsAllSaved`: `RomInv` keeps, for each buffer scanned, that every ROM the scan
  stops at is in the list, that the list only grows, and that the files written are
  its first ones under their names. `HitsFind` shows that the scan stops at each
  signature with no other one in the 512 bytes in front of it, and `NamesDiffer` that
  no two names are equal: of two ROMs with one stem the later has more of that stem in
  front of it.

`Hits`, `Scanned` and `SumOf` are recursive functions on numbers. The library's
induction theorems cannot be used with these provers; `Recursion` (the function
exists) and `Induction` (over a set of numbers, from the well-foundedness of `<`) are
proved here without them, and each function gets its equations from those.

`CleanCliProofs`: `InputIsKept`, `ExtractsFirst`, `WholeOnSuccess`, `Told`, for any
number of paths and runs and any failures. `SuccessIsWhole` is about the end of a
run; the invariant says what an output that has been passed holds (`Saved`), which
needs that the buffer is the cleaned original (`Buffer`), which needs that no
earlier run wrote to the input (`Frame`, `ReadsOriginal`); `Pristine` is the first
run, in which the place of the image still holds what it held while the extracted
parts are written.

`InspectProofs`: `Accepts`, `Confined`, `GuardTold`, `EntriesShown`, `BanksRead`, for
every image, every set of files and every Secure Boot key.

* The parsers are functions of the file, so these parts are lemmas about operators.
  `Masked` is the arithmetic of the FIT pointer: the remainder by the mapping is the
  place that is meant if and only if the flash has one of the three sizes, or is a
  multiple of 16 MiB with the table in its first 16; `ParsedFit` says that the parser
  finds a table exactly where one fits. `Masking` does the same for the two mappings
  of an AMD address, for any size of ROM, and `RomType` shows that the size is never 0.
  `BanksInRegion` and `FirstValid` are about the halves of the LAN region.
* `RunsClean`: every run of the specification is a run of `Clean`'s, so the invariants
  of `CleanProofs` hold in it. `LeftInv` adds what the answers depend on: that a region
  which was analysed lies in the file, that -d was accepted for a full dump only, what
  the register holds before and after the hardening, that only generation 1 and 2 are
  ever erased, and that a success with an FTPR left is that of a signed image.
* `RegionLeft`, `SameAnalysis` and `ErasedAnalysis` compare the two analyses: the
  region is what it was or gone; of what was not erased the generation is told as
  before; of what was erased it is 1 or unknown, which have the narrow layout of
  FLMSTR2, as generation 2 has. `Accepted` and `Hardened` follow.
* `SaidInv`: an answer is that of the present state, since nothing changes after it.

Only model-checked:

* liveness (`WalkEnds`, and the lasso that refutes `WalkReturns`), which is out of
  the prover's reach;
* the five runs that find a violation, which are about single behaviours.

## 6. Not modelled

* `mei.rs`: reads /dev and /sys of the running machine once, prints what it finds
  and keeps nothing; there is no order, state or failure in it that a property
  could be about.
* Hashing and RSA (`manifest.rs`, `pubkeys.rs`): their outcome is an input.
* Decompressors, the names and markers the walk finds, the searches of `locks`
  for GUIDs and marks: inputs, as what they return.
* `lingo.rs`, `bytes.rs`, `error.rs`, wording, layout and the log of `clean`:
  they print what they are given.
* `find_all_fpt` and `parse_fpt` at the level of bytes: an image in `Clean` has no,
  one or several tables, and a table in `Partitions` is a sequence of entries.
