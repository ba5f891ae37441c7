---------------------------- MODULE ModulesGen2 -----------------------------
(***************************************************************************)
(* The generation 2 module pass (check_and_remove_modules) with the        *)
(* relocation that belongs to it (relocate_partition).                     *)
(*                                                                         *)
(* The modules of FTPR are plain ranges, or Huffman-coded: a Huffman       *)
(* module is a range of addresses of which each chunk is looked up in one  *)
(* table (LLUT) that all of them share.  The table has where a chunk       *)
(* starts, in offsets of the region; a chunk ends where the next larger    *)
(* offset starts.  Plain modules are erased as they are met, chunks when   *)
(* all modules that stay are known.  The relocation then shifts what the   *)
(* LLUT points to, and moves the partition with the LLUT in it.            *)
(*                                                                         *)
(* The buffer is as in Region.tla.  What the LLUT says is kept apart, in   *)
(* llut; in the buffer it takes LLUT_HEAD cells and one for each chunk,    *)
(* and it is there as long as the first of them is.                        *)
(***************************************************************************)
EXTENDS Region, Sequences, FiniteSetsExt

CONSTANTS
  FileLen, ME,      \* length of the image, the ME region in it
  Firmwares,        \* FTPR partitions: Firmware records
  MIN_FTPR_OFFSET,
  ROUND,            \* new offsets are multiples of it (0x20)
  HEADERS,          \* where in FTPR the module headers are (0x290), one
                    \* cell each
  PROBE,            \* how much is read to tell how long a header is (0x84)
  LLUT_HEAD,        \* size of the LLUT without its chunks (0x40)
  OffsetValues,     \* a chunk's offset has 24 bits
  WORD,             \* 2^32
  None

\* place is relative to FTPR, base to the address of the first chunk; it is
\* the difference of two addresses.
Module == [comp : {"plain", "huffman", "other"}, place : Nat, size : Nat,
           stays : BOOLEAN, base : 1 - WORD .. WORD - 1, memory : Nat]
Llut == [chunks : Seq([offset : 0 .. OffsetValues - 1, absent : BOOLEAN]),
         chunkSize : Nat, huffSize : Nat, huffStart : Nat, corr : Nat,
         lutOffset : Nat]
Firmware == [offset : Nat \ {0}, length : Nat, modules : Seq(Module),
             recognised : BOOLEAN,  \* the headers are found where expected
             tag : BOOLEAN,         \* Huffman modules do point to an LLUT
             llut : Llut]

Addr == 0 .. FileLen - 1
Image == [a \in Addr |-> a]
MeLen == RegionLen(ME)

ASSUME ImageAssumption ==
  /\ FileLen \in Nat
  /\ ME \in [start : Nat, end : Nat]
  /\ ME.start <= ME.end /\ ME.end <= FileLen
ASSUME FirmwareAssumption == \A f \in Firmwares : f \in Firmware
ASSUME SizeAssumption ==
  /\ {HEADERS, PROBE} \subseteq Nat
  /\ {LLUT_HEAD, MIN_FTPR_OFFSET, ROUND, OffsetValues, WORD} \subseteq Nat \ {0}
  /\ OffsetValues < WORD

\* What the module pass leaves: the bytes, and where the data that is left ends.
Results == [status : {"done", "declined", "failed"},
            buf : [Addr -> Addr \cup {FF}], end : Int \cup {None}]
ASSUME NoneAssumption == None \notin Int /\ None \notin Results

VARIABLES
  fw, keepModules, relocate,
  checks,       \* the build panics on arithmetic overflow
  buf,          \* the image being edited
  llut,         \* what the LLUT in the image says
  chunks,       \* chunks_offsets: [start, end] of every chunk
  unremovable,  \* unremovable_huff: the chunks that have to stay
  i,            \* loop counter, over the modules and then over the chunks
  endAddr,      \* end_addr
  ftprOffset,
  move,         \* the move_range under way: [from, to, size, i]
  result,       \* what the module pass left, before the relocation: history
  pc

inputs == <<fw, keepModules, relocate, checks>>
vars == <<inputs, buf, llut, chunks, unremovable, i, endAddr, ftprOffset, move,
          result, pc>>
-----------------------------------------------------------------------------
Modules == fw.modules
Huffman == {m \in DOMAIN Modules : Modules[m].comp = "huffman"}
Start(m) == fw.offset + Modules[m].place
End(m) == Start(m) + Modules[m].size

\* The Huffman modules name the same LLUT.
LlutStart == Start(Min(Huffman))
LlutInRegion(l) == Check(ME, LlutStart, LLUT_HEAD + Len(l.chunks))
LlutTagged ==
  /\ Check(ME, LlutStart, LLUT_HEAD)
  /\ fw.tag /\ buf[ME.start + LlutStart] = ME.start + LlutStart

\* get_chunks_offsets.  All offsets and the end of the stream are sorted; an
\* offset that is there twice is its own successor, and the largest has none.
Offset(l, c) == IF l.chunks[c].absent THEN 0 ELSE l.chunks[c].offset
StreamEnd(l) == (l.huffSize + l.huffStart) % WORD
Larger(l, v) ==
  {o \in {StreamEnd(l)} \cup {Offset(l, c) : c \in DOMAIN l.chunks} : o > v}
Twice(l, v) ==
  \/ v = StreamEnd(l)
  \/ \E c, d \in DOMAIN l.chunks : c # d /\ Offset(l, c) = v /\ Offset(l, d) = v

NoSuccessor(l) ==
  \E c \in DOMAIN l.chunks :
    LET v == Offset(l, c) IN v # 0 /\ ~Twice(l, v) /\ Larger(l, v) = {}

GetChunksOffsets_PartitionEnd(l) ==
  [c \in DOMAIN l.chunks |->
    LET v == Offset(l, c) IN
    [start |-> v, end |-> IF v = 0 THEN 0 ELSE StreamEnd(l)]]

GetChunksOffsets(l) ==
  [c \in DOMAIN l.chunks |->
    LET v == Offset(l, c) IN
    [start |-> v,
     end |-> IF v = 0 THEN 0 ELSE IF Twice(l, v) THEN v ELSE Min(Larger(l, v))]]

\* The chunks of a module, counted from 0; one more than it needs if its size
\* is a multiple of the chunks'.
First(m) == (Modules[m].base % WORD) \div llut.chunkSize
Last_OneShort(m) == First(m) + Modules[m].memory \div llut.chunkSize - 1
Last(m) == First(m) + Modules[m].memory \div llut.chunkSize

Init ==
  /\ fw \in Firmwares
  /\ keepModules \in BOOLEAN /\ relocate \in BOOLEAN /\ checks \in BOOLEAN
  /\ buf = Image /\ llut = fw.llut
  /\ chunks = <<>> /\ unremovable = {}
  /\ i = 1 /\ endAddr = 0 /\ ftprOffset = fw.offset
  /\ move = [from |-> 0, to |-> 0, size |-> 0, i |-> 0]
  /\ result = None
  /\ pc = "start"

\* The module pass ends here: with modules erased, declined, or failed.
Passed(status, bytes, end) ==
  result' = [status |-> status, buf |-> bytes, end |-> end]

HeadersInRegion ==
  Check(ME, fw.offset + HEADERS, Max({PROBE, Len(Modules)}))

ReadFails ==
  /\ pc = "start" /\ ~HeadersInRegion
  /\ pc' = "err" /\ Passed("failed", buf, None)
  /\ UNCHANGED <<inputs, buf, llut, chunks, unremovable, i, endAddr,
                 ftprOffset, move>>

Decline ==
  /\ pc = "start" /\ HeadersInRegion /\ ~fw.recognised
  /\ pc' = "declined" /\ Passed("declined", buf, None)
  /\ UNCHANGED <<inputs, buf, llut, chunks, unremovable, i, endAddr,
                 ftprOffset, move>>

KeepModules ==
  /\ pc = "start" /\ HeadersInRegion /\ fw.recognised
  /\ keepModules
  /\ endAddr' = fw.offset + fw.length
  /\ pc' = "relocate" /\ Passed("done", buf, endAddr')
  /\ UNCHANGED <<inputs, buf, llut, chunks, unremovable, i, ftprOffset, move>>

RemoveModules ==
  /\ pc = "start" /\ HeadersInRegion /\ fw.recognised
  /\ ~keepModules
  /\ pc' = "modules"
  /\ UNCHANGED <<inputs, buf, llut, chunks, unremovable, i, endAddr,
                 ftprOffset, move, result>>
-----------------------------------------------------------------------------
\* remove_modules: the loop over the headers.
At(comp) == pc = "modules" /\ i <= Len(Modules) /\ Modules[i].comp = comp

KeepPlain ==
  /\ At("plain") /\ Modules[i].stays
  /\ endAddr' = Max({endAddr, End(i)})
  /\ i' = i + 1
  /\ UNCHANGED <<inputs, buf, llut, chunks, unremovable, ftprOffset, move,
                 result, pc>>

ErasePlain_Unclamped ==
  /\ At("plain") /\ ~Modules[i].stays
  /\ buf' = Filled(ME, buf, Start(i), End(i))
  /\ i' = i + 1
  /\ UNCHANGED <<inputs, llut, chunks, unremovable, endAddr, ftprOffset, move,
                 result, pc>>

ErasePlain ==
  /\ At("plain") /\ ~Modules[i].stays
  /\ buf' = Filled(ME, buf, Start(i), Min({End(i), MeLen}))
  /\ i' = i + 1
  /\ UNCHANGED <<inputs, llut, chunks, unremovable, endAddr, ftprOffset, move,
                 result, pc>>

SkipOther ==
  /\ At("other")
  /\ i' = i + 1
  /\ UNCHANGED <<inputs, buf, llut, chunks, unremovable, endAddr, ftprOffset,
                 move, result, pc>>

\* The LLUT is read with the first Huffman module, after the plain modules in
\* front of it have been erased; one without chunks is read again each time.
LlutFound == chunks = <<>> => LlutTagged /\ LlutInRegion(llut)
LlutMissing ==
  /\ At("huffman") /\ ~LlutFound
  /\ pc' = "err" /\ Passed("failed", buf, None)
  /\ UNCHANGED <<inputs, buf, llut, chunks, unremovable, i, endAddr,
                 ftprOffset, move>>

\* A panic: in the construction of the chunks, a division by zero, an
\* underflow, or a module that has to stay beyond the last chunk.
Panics(m) ==
  \/ chunks = <<>> /\ NoSuccessor(llut)
  \/ llut.chunkSize = 0
  \/ checks /\ Modules[m].base < 0
  \/ /\ llut.chunkSize # 0 /\ Modules[m].stays
     /\ llut.chunks = <<>> \/ First(m) > Len(llut.chunks)
HuffmanPanics ==
  /\ At("huffman") /\ LlutFound /\ Panics(i)
  /\ pc' = "panic" /\ Passed("failed", buf, None)
  /\ UNCHANGED <<inputs, buf, llut, chunks, unremovable, i, endAddr,
                 ftprOffset, move>>

HuffmanModule ==
  /\ At("huffman") /\ LlutFound /\ ~Panics(i)
  /\ chunks' = GetChunksOffsets(llut)
  /\ unremovable' =
       IF Modules[i].stays
         THEN unremovable \cup {chunks'[c] : c \in
                {d \in DOMAIN chunks' : d - 1 \in First(i) .. Last(i)
                                        /\ chunks'[d].start # 0}}
         ELSE unremovable
  /\ i' = i + 1
  /\ UNCHANGED <<inputs, buf, llut, endAddr, ftprOffset, move, result, pc>>

ModulesRead ==
  /\ pc = "modules" /\ i > Len(Modules)
  /\ i' = 1 /\ pc' = "chunks"
  /\ UNCHANGED <<inputs, buf, llut, chunks, unremovable, endAddr, ftprOffset,
                 move, result>>

\* The loop over the chunks.
Overlaps(c) ==
  \E u \in unremovable :
    \/ u.start <= c.start /\ c.start < u.end
    \/ u.start < c.end /\ c.end <= u.end

SpareChunk ==
  /\ pc = "chunks" /\ i <= Len(chunks)
  /\ Overlaps(chunks[i]) \/ chunks[i].end <= chunks[i].start
  /\ i' = i + 1
  /\ UNCHANGED <<inputs, buf, llut, chunks, unremovable, endAddr, ftprOffset,
                 move, result, pc>>

EraseChunk ==
  /\ pc = "chunks" /\ i <= Len(chunks)
  /\ ~Overlaps(chunks[i]) /\ chunks[i].end > chunks[i].start
  /\ buf' = Filled(ME, buf, chunks[i].start, Min({chunks[i].end, MeLen}))
  /\ i' = i + 1
  /\ UNCHANGED <<inputs, llut, chunks, unremovable, endAddr, ftprOffset, move,
                 result, pc>>

FinishRemoval ==
  /\ pc = "chunks" /\ i > Len(chunks)
  /\ endAddr' = Max({endAddr} \cup {u.end : u \in unremovable})
  /\ pc' = "relocate" /\ Passed("done", buf, endAddr')
  /\ UNCHANGED <<inputs, buf, llut, chunks, unremovable, i, ftprOffset, move>>
-----------------------------------------------------------------------------
StayInPlace ==
  /\ pc = "relocate" /\ ~relocate
  /\ pc' = "done"
  /\ UNCHANGED <<inputs, buf, llut, chunks, unremovable, i, endAddr,
                 ftprOffset, move, result>>

\* relocate_partition: FTPR may not come so low that the LLUT's own pointer,
\* which the 16 bits of the correction are subtracted from, becomes negative.
MinNew == llut.corr - LlutStart - LLUT_HEAD + fw.offset
RoundUp(n) == ((n + ROUND - 1) \div ROUND) * ROUND
NewOffset ==
  IF Huffman = {} THEN MIN_FTPR_OFFSET
                  ELSE RoundUp(Max({MIN_FTPR_OFFSET, MinNew}))
Diff == NewOffset - fw.offset
MoveSize == Min({fw.length, MeLen - fw.offset})

Shifted_ChunksOnly(l) ==
  [l EXCEPT
     !.lutOffset = (LlutStart + Diff + LLUT_HEAD - l.corr) % WORD,
     !.chunks = [c \in DOMAIN l.chunks |->
       IF l.chunks[c].absent THEN l.chunks[c]
       ELSE [l.chunks[c] EXCEPT !.offset = (@ + Diff) % OffsetValues]]]
Shifted_Unwrapped(l) ==
  [l EXCEPT
     !.lutOffset = (LlutStart + Diff + LLUT_HEAD - l.corr) % WORD,
     !.huffStart = (l.huffStart + Diff) % WORD,
     !.chunks = [c \in DOMAIN l.chunks |->
       IF l.chunks[c].absent THEN l.chunks[c]
       ELSE [l.chunks[c] EXCEPT !.offset = @ + Diff]]]
Shifted(l) ==
  [l EXCEPT
     !.lutOffset = (LlutStart + Diff + LLUT_HEAD - l.corr) % WORD,
     !.huffStart = (l.huffStart + Diff) % WORD,
     !.chunks = [c \in DOMAIN l.chunks |->
       IF l.chunks[c].absent THEN l.chunks[c]
       ELSE [l.chunks[c] EXCEPT !.offset = (@ + Diff) % OffsetValues]]]

LlutReadable == Huffman # {} => LlutTagged /\ LlutInRegion(llut)
MoveFits ==
  Check(ME, fw.offset, MoveSize) /\ Check(ME, NewOffset, MoveSize)

\* The LLUT is not there, or its chunks are not, or the move is refused: by
\* then the LLUT has been rewritten as far as it could be read.
RelocateFails ==
  /\ pc = "relocate" /\ relocate
  /\ ~LlutReadable \/ ~MoveFits
  /\ llut' = IF Huffman = {} \/ ~LlutTagged THEN llut
             ELSE IF LlutInRegion(llut) THEN Shifted(llut)
             ELSE [Shifted(llut) EXCEPT !.chunks = llut.chunks]
  /\ pc' = "err"
  /\ UNCHANGED <<inputs, buf, chunks, unremovable, i, endAddr, ftprOffset,
                 move, result>>

StartMove ==
  /\ pc = "relocate" /\ relocate
  /\ LlutReadable /\ MoveFits
  /\ llut' = IF Huffman # {} THEN Shifted(llut) ELSE llut
  /\ move' = [from |-> fw.offset, to |-> NewOffset, size |-> MoveSize, i |-> 0]
  /\ ftprOffset' = NewOffset
  /\ pc' = "move"
  /\ UNCHANGED <<inputs, buf, chunks, unremovable, i, endAddr, result>>

MoveBlock ==
  /\ pc = "move" /\ move.i < move.size
  /\ LET n == Chunk(move.size, move.i) IN
       /\ buf' = BlockMoved(ME, buf, move.from + move.i, move.to + move.i, n)
       /\ move' = [move EXCEPT !.i = move.i + n]
  /\ UNCHANGED <<inputs, llut, chunks, unremovable, i, endAddr, ftprOffset,
                 result, pc>>

\* The sum wraps when FTPR moves down.
FinishMove ==
  /\ pc = "move" /\ move.i >= move.size
  /\ endAddr' = endAddr + move.to - move.from
  /\ pc' = IF checks /\ move.to < move.from THEN "panic" ELSE "done"
  /\ UNCHANGED <<inputs, buf, llut, chunks, unremovable, i, ftprOffset, move,
                 result>>

Next ==
  \/ ReadFails \/ Decline \/ KeepModules \/ RemoveModules
  \/ KeepPlain \/ ErasePlain \/ SkipOther
  \/ LlutMissing \/ HuffmanPanics \/ HuffmanModule \/ ModulesRead
  \/ SpareChunk \/ EraseChunk \/ FinishRemoval
  \/ StayInPlace \/ RelocateFails \/ StartMove \/ MoveBlock \/ FinishMove

Spec == Init /\ [][Next]_vars
-----------------------------------------------------------------------------
ChunkRange == [start : Nat, end : Nat]
TypeOK ==
  /\ fw \in Firmware
  /\ buf \in [Addr -> Addr \cup {FF}]
  /\ llut \in Llut
  /\ chunks \in Seq(ChunkRange) /\ unremovable \subseteq ChunkRange
  /\ i \in 1 .. Max({Len(Modules), Len(llut.chunks)}) + 1
  /\ endAddr \in Int /\ ftprOffset \in Nat
  /\ move \in [from : Nat, to : Nat, size : Nat, i : Nat]
  /\ result \in Results \cup {None}
  /\ pc \in {"start", "modules", "chunks", "relocate", "move", "done",
             "declined", "err", "panic"}

\* What the LLUT of the image that was read means, by itself: chunk c has the
\* data up to the next chunk, and covers the addresses from (c - 1) times the
\* chunk size on.
Original == fw.llut
HoldsData(c) == Offset(Original, c) # 0
InChunk(d, c) ==
  LET v == Offset(Original, c) IN
  /\ HoldsData(c)
  /\ ME.start + v <= d
  /\ \A w \in Larger(Original, v) : d < ME.start + w
  /\ Larger(Original, v) # {}
Needs(m, c) ==
  /\ (c - 1) * Original.chunkSize < Modules[m].base + Modules[m].memory
  /\ c * Original.chunkSize > Modules[m].base

\* No two chunks start at the same place, the stream ends behind the last one,
\* and modules are loaded at multiples of the chunk size.
Sound ==
  /\ fw.tag /\ Original.chunkSize > 0 /\ ~NoSuccessor(Original)
  /\ \A c \in DOMAIN Original.chunks :
       HoldsData(c) => ~Twice(Original, Offset(Original, c))
  /\ \A m \in Huffman : /\ Modules[m].base >= 0
                         /\ Modules[m].base % Original.chunkSize = 0

InPlain(d, m) ==
  Modules[m].comp = "plain" /\ Within(ME, d, Start(m), End(m))
InHuffman(d, m) ==
  /\ Modules[m].comp = "huffman"
  /\ \E c \in DOMAIN Original.chunks : Needs(m, c) /\ InChunk(d, c)
InFtpr(d) == Within(ME, d, fw.offset, fw.offset + MoveSize)

\* The data of the modules that have to stay, in FTPR, unless it is claimed
\* by another module or chunk as well.
Vital ==
  {d \in Addr :
     /\ InFtpr(d)
     /\ \A m \in DOMAIN Modules : InPlain(d, m) => Modules[m].stays
     /\ \E m \in DOMAIN Modules :
          /\ Modules[m].stays
          /\ \/ InPlain(d, m)
                /\ \A c \in DOMAIN Original.chunks : ~InChunk(d, c)
             \/ InHuffman(d, m)}

HasMoved == pc \in {"done", "panic"} /\ move.size > 0
MoveIsSafe == SafeMove(fw.offset, MoveSize, NewOffset)
Place(d) == IF HasMoved THEN d + Diff ELSE d

\* Whatever is erased and moved, the modules that have to stay are intact
\* where FTPR is at that moment.  The chunks that have to stay are told from
\* the others by one end of a range lying in another range, which would miss
\* a chunk around another one: the ends computed must exclude it.  And the end
\* that is returned lies behind them: what the truncation cuts off is not
\* needed.
UnremovableSurvives ==
  (Sound /\ pc # "move" /\ (HasMoved => MoveIsSafe)) =>
    \A d \in Vital :
      /\ buf[Place(d)] = d
      /\ pc = "done" => Place(d) < ME.start + endAddr

\* No datum of a module to be removed is left in the image, in the old place
\* or the new: of plain modules, and of chunks no module that stays needs.
\* The chunk that starts where a module that stays ends is kept as well.
Spared(c) ==
  \E m \in Huffman :
    /\ Modules[m].stays
    /\ (c - 1) * Original.chunkSize <= Modules[m].base + Modules[m].memory
    /\ c * Original.chunkSize > Modules[m].base
Unneeded(d) ==
  \/ \E m \in DOMAIN Modules : InPlain(d, m) /\ ~Modules[m].stays
  \/ \E c \in DOMAIN Original.chunks :
       Huffman # {} /\ InChunk(d, c) /\ ~Spared(c)
RemovedModulesGone ==
  (Sound /\ pc = "done" /\ ~keepModules) =>
    \A a \in Addr : buf[a] # FF /\ buf[a] < ME.end => ~Unneeded(buf[a])

\* The LLUT lies in what is moved, and so does all the data it points to; an
\* offset 0 is marked as absent, or it would be shifted like the others and
\* then point to something; and the region is as small as 24 bits of offset
\* reach.
LlutInFtpr ==
  /\ LlutStart + LLUT_HEAD <= fw.offset + MoveSize
  /\ StreamEnd(Original) \in fw.offset .. fw.offset + MoveSize
  /\ \A c \in DOMAIN Original.chunks :
       IF HoldsData(c)
         THEN Offset(Original, c) \in fw.offset .. fw.offset + MoveSize - 1
         ELSE Original.chunks[c].absent
  /\ MeLen <= OffsetValues

\* After the relocation the LLUT is in its new place, finds what it found
\* before, and the pointer to itself has not wrapped.
LlutFollows ==
  (Sound /\ pc = "done" /\ HasMoved /\ MoveIsSafe /\ Huffman # {} /\ LlutInFtpr)
  =>
    /\ buf[ME.start + LlutStart + Diff] = ME.start + LlutStart
    /\ llut.lutOffset = LlutStart + Diff + LLUT_HEAD - Original.corr
    /\ \A c \in DOMAIN Original.chunks : HoldsData(c) =>
         LET old == GetChunksOffsets(Original)[c]
             new == GetChunksOffsets(llut)[c]
         IN  /\ new.start = old.start + Diff /\ new.end = old.end + Diff
             /\ \A d \in Addr : (InChunk(d, c) /\ InFtpr(d)) =>
                  buf[d + Diff] \in {d, FF}

\* No chunk lies in front of FTPR.
ChunksInFtpr ==
  \A c \in DOMAIN Original.chunks :
    HoldsData(c) => Offset(Original, c) >= fw.offset

\* Up to the relocation this is a module pass as the partition stage expects
\* it, unless the LLUT points in front of FTPR: the code follows it there.
Extent ==
  Max({fw.length} \cup {Modules[m].place + Modules[m].size : m \in DOMAIN Modules}
      \cup {StreamEnd(Original) - fw.offset}
      \cup {Offset(Original, c) - fw.offset : c \in DOMAIN Original.chunks})
Pass == INSTANCE ModulePass WITH
  mbuf <- IF result = None THEN Image ELSE result.buf,
  moffset <- fw.offset, mextent <- Extent,
  mend <- IF result = None THEN None ELSE result.end,
  status <- IF result = None THEN "called" ELSE result.status

ImplementsPass ==
  Pass!PassInit /\ [][ChunksInFtpr => Pass!PassNext]_(Pass!mvars)
=============================================================================
