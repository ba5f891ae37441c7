----------------------------- MODULE BiosProofs -----------------------------
(***************************************************************************)
(* The walk of `bios`, on every image and for every bound on the depth.    *)
(*                                                                         *)
(* CallsNested: the calls on the stack are strictly deeper one than the    *)
(* other, those made for files if no size wraps around a word (NoWrap),    *)
(* and each stays inside of the buffer it walks.  A step changes the frame *)
(* at the top in its pos and files alone and pushes at most one frame on   *)
(* it, or it drops the top one; the first lemmas say what each of the two  *)
(* does to a nested stack.                                                 *)
(*                                                                         *)
(* TypeCorrect and VolumesFoundOnce: what the scan has passed is recorded  *)
(* or is being walked (ScanInv).                                           *)
(*                                                                         *)
(* FilesCountedOnce: the files are summed up correctly (Sums), and if no   *)
(* size wraps the places the calls will read are apart from each other and *)
(* from what was seen (OnceInv).                                           *)
(*                                                                         *)
(* RomsAllSaved: the ROMs of what was scanned are in the list, which is    *)
(* written in its order to names of which no two are equal (RomInv).       *)
(*                                                                         *)
(* Hits, Scanned and SumOf are recursive functions.  What is proved of     *)
(* them rests on Recursion, that a function defined by iteration exists,   *)
(* and on Induction over a set of numbers.                                 *)
(***************************************************************************)
EXTENDS Bios, SequenceTheorems, FiniteSetTheorems, WellFoundedInduction, TLAPS

IInv ==
  /\ image \in Images
  /\ stack \in Seq(Frame)
  /\ CallsNest

Nested(s) ==
  /\ s \in Seq(Frame)
  /\ \A n \in DOMAIN s : Inside(s[n])
  /\ \A n \in DOMAIN s : (n > 1 /\ Onward(s[n - 1])) => Deeper(s[n], s[n - 1])

\* What a step may put in the place of the frame at the top.
Replaces(next) ==
  /\ next \in Frame /\ Inside(next)
  /\ next.fn = Top.fn
  /\ next.buf = Top.buf /\ next.lo = Top.lo /\ next.depth = Top.depth

\* What it may push.
Pushable(call) ==
  call \in Frame /\ Inside(call) /\ (Onward(Top) => Deeper(call, Top))
-----------------------------------------------------------------------------
\* No step changes what is read, and so neither what it is said of.
LEMMA InputsSame ==
  ASSUME UNCHANGED inputs
  PROVE  /\ image' = image /\ dir' = dir /\ checks' = checks
         /\ (NoWrap' <=> NoWrap) /\ (Contained' <=> Contained)
BY DEF inputs, NoWrap, Contained

LEMMA InputsKept ==
  ASSUME [Next]_vars
  PROVE  UNCHANGED inputs
BY DEF Next, vars, ScanVolume, ScanVolumePanic, FinishScan, ScanPanic,
       VisitFile, FilePanic, EndVolume, EndSections, CountModule, CountName,
       NamePanic, SkipSection, EnterSection, Decompress, DecompressPanic,
       DecompressFails, NestedVolume, NestedPanic, SaveRom, SaveFails, Return,
       Panics
-----------------------------------------------------------------------------
LEMMA AlignedUp ==
  ASSUME NEW x \in Nat, NEW n \in Nat \ {0}
  PROVE  Aligned(x, n) \in Nat /\ Aligned(x, n) >= x
<1> DEFINE q == (x + n - 1) \div n
           r == (x + n - 1) % n
<1>1. q \in Int /\ r \in 0 .. n - 1 /\ x + n - 1 = n * q + r
  OBVIOUS
<1>2. n * q >= x
  BY <1>1
<1>3. q * n = n * q /\ n * q \in Int
  BY <1>1
<1> QED
  BY <1>2, <1>3 DEF Aligned

LEMMA WordsAdded ==
  ASSUME NEW x \in Nat, NEW y \in Nat
  PROVE  /\ Plus(x, y) \in Nat /\ Plus(x, y) <= x + y
         /\ ~Overflows(x, y) => Plus(x, y) = x + y
BY WordAssumption DEF Plus, Overflows

LEMMA BufferLength ==
  ASSUME NEW buf, IsBuffer(buf)
  PROVE  buf.len \in Nat /\ buf.len < WORD
BY WordAssumption DEF IsBuffer, Words

LEMMA TopFrame ==
  ASSUME IInv, stack # <<>>
  PROVE  /\ Len(stack) \in Nat \ {0} /\ Len(stack) \in DOMAIN stack
         /\ Top \in Frame /\ Inside(Top)
         /\ image[Top.buf].len \in Nat
         /\ \A p \in DOMAIN Buf.sec :
              /\ p \in Nat /\ Buf.sec[p] \in SectionHeader
              /\ Buf.sec[p].out # None =>
                   Buf.sec[p].out \in Bufs /\ Buf.sec[p].out > Top.buf
         /\ \A p \in DOMAIN Buf.file : p \in Nat /\ Buf.file[p] \in FileHeader
<1>1. Len(stack) \in Nat \ {0} /\ Len(stack) \in DOMAIN stack
  BY EmptySeq DEF IInv
<1>2. Top \in Frame /\ Inside(Top)
  BY <1>1 DEF IInv, CallsNest, Top
<1>3. IsImage(image) /\ Top.buf \in Bufs
  BY <1>2, ImagesAssumption DEF IInv, Frame
<1>4. IsBuffer(Buf)
  BY <1>3 DEF IsImage, Buf
<1>5. \A p \in DOMAIN Buf.sec :
        Buf.sec[p].out # None =>
          Buf.sec[p].out \in Bufs /\ Buf.sec[p].out > Top.buf
  BY <1>3, <1>4 DEF IsImage, IsBuffer, Buf, SectionHeader
<1>6. image[Top.buf].len \in Nat
  BY <1>4, BufferLength DEF Buf
<1> QED
  BY <1>1, <1>2, <1>4, <1>5, <1>6 DEF IsBuffer, Buf
-----------------------------------------------------------------------------
LEMMA CountReplaces ==
  ASSUME NEW next, Replaces(next)
  PROVE  Replaces([next EXCEPT !.files = @ + 1])
BY DEF Replaces, Frame, Inside, Onward

LEMMA BelowTop ==
  ASSUME IInv, stack # <<>>
  PROVE  /\ Below \in Seq(Frame) /\ Len(Below) = Len(stack) - 1
         /\ \A n \in 1 .. Len(stack) - 1 : Below[n] = stack[n]
<1> DEFINE l == Len(stack) - 1
<1>1. l \in Nat /\ \A n \in 1 .. l : stack[n] \in Frame
  BY TopFrame DEF IInv
<1> HIDE DEF l
<1>2. /\ SubSeq(stack, 1, l) \in Seq(Frame)
      /\ Len(SubSeq(stack, 1, l)) = IF 1 <= l THEN l - 1 + 1 ELSE 0
      /\ \A n \in 1 .. l - 1 + 1 : SubSeq(stack, 1, l)[n] = stack[1 + n - 1]
  BY <1>1, SubSeqProperties
<1>3. Len(SubSeq(stack, 1, l)) = l
  BY <1>1, <1>2
<1>4. \A n \in 1 .. l : SubSeq(stack, 1, l)[n] = stack[n]
  BY <1>1, <1>2
<1> QED
  BY <1>2, <1>3, <1>4 DEF l, Below

LEMMA PopNests ==
  ASSUME IInv, stack # <<>>
  PROVE  Nested(Below)
<1>0. Len(stack) \in Nat \ {0}
  BY TopFrame
<1>1. /\ Below \in Seq(Frame) /\ Len(Below) = Len(stack) - 1
      /\ \A n \in 1 .. Len(stack) - 1 : Below[n] = stack[n]
  BY BelowTop
<1>2. DOMAIN Below = 1 .. Len(stack) - 1 /\ DOMAIN stack = 1 .. Len(stack)
  BY <1>1 DEF IInv
<1>3. ASSUME NEW n \in DOMAIN Below, n > 1
      PROVE  /\ n \in DOMAIN stack /\ Below[n] = stack[n]
             /\ Below[n - 1] = stack[n - 1]
  BY <1>0, <1>1, <1>2, <1>3
<1> QED
  BY <1>0, <1>1, <1>2, <1>3 DEF Nested, IInv, CallsNest

LEMMA ReplaceNests ==
  ASSUME IInv, stack # <<>>, NEW next, Replaces(next)
  PROVE  /\ Nested(Append(Below, next))
         /\ Len(Append(Below, next)) = Len(stack)
         /\ Append(Below, next)[Len(stack)] = next
<1> DEFINE new == Append(Below, next)
<1>1. /\ Below \in Seq(Frame) /\ Len(Below) = Len(stack) - 1
      /\ \A n \in 1 .. Len(stack) - 1 : Below[n] = stack[n]
  BY BelowTop
<1>2. /\ new \in Seq(Frame) /\ Len(new) = Len(stack)
      /\ new[Len(stack)] = next
      /\ \A n \in 1 .. Len(stack) - 1 : new[n] = stack[n]
  BY <1>1, TopFrame DEF Replaces
<1>3. DOMAIN new = 1 .. Len(stack) /\ DOMAIN stack = 1 .. Len(stack)
  BY <1>2 DEF IInv
<1> HIDE DEF new
<1>4. \A n \in DOMAIN new : Inside(new[n])
  BY <1>2, <1>3 DEF Replaces, IInv, CallsNest
<1>5. ASSUME NEW n \in DOMAIN new, n > 1, Onward(new[n - 1])
      PROVE  Deeper(new[n], new[n - 1])
  <2>1. Deeper(stack[n], stack[n - 1]) /\ new[n - 1] = stack[n - 1]
    <3>1. new[n - 1] = stack[n - 1] /\ n \in DOMAIN stack
      BY <1>2, <1>3, <1>5, TopFrame
    <3> QED
      BY <1>5, <3>1 DEF IInv, CallsNest
  <2>2. CASE n = Len(stack)
    BY <1>2, <2>1, <2>2 DEF Replaces, Deeper, Top
  <2>3. CASE n # Len(stack)
    BY <1>2, <1>3, <2>1, <2>3, TopFrame
  <2> QED
    BY <2>2, <2>3
<1> QED
  BY <1>2, <1>4, <1>5 DEF Nested, new

LEMMA PushNests ==
  ASSUME IInv, stack # <<>>, NEW next, Replaces(next), NEW calls,
         calls = <<>> \/ \E call : calls = <<call>> /\ Pushable(call)
  PROVE  Nested(Append(Below, next) \o calls)
<1> DEFINE rest == Append(Below, next)
<1>1. Nested(rest) /\ Len(rest) = Len(stack) /\ rest[Len(stack)] = next
  BY ReplaceNests
<1>2. rest \in Seq(Frame)
  BY <1>1 DEF Nested
<1> HIDE DEF rest
<1>3. CASE calls = <<>>
  <2>1. rest \o calls = rest
    BY <1>2, <1>3
  <2> QED
    BY <1>1, <2>1 DEF rest
<1>4. CASE \E call : calls = <<call>> /\ Pushable(call)
  <2> PICK call : calls = <<call>> /\ Pushable(call)
    BY <1>4
  <2> DEFINE new == rest \o calls
             l == Len(stack)
  <2>0. l \in Nat \ {0} /\ DOMAIN rest = 1 .. l
    BY <1>1, <1>2, TopFrame
  <2>1. calls \in Seq(Frame) /\ Len(calls) = 1 /\ calls[1] = call
    BY DEF Pushable
  <2>2. /\ new \in Seq(Frame) /\ Len(new) = l + 1 /\ new[l + 1] = call
        /\ \A n \in 1 .. l : new[n] = rest[n]
    BY <1>1, <1>2, <2>0, <2>1
  <2>3. DOMAIN new = 1 .. l + 1
    BY <2>2
  <2> HIDE DEF new, l
  <2>4. \A n \in DOMAIN new : Inside(new[n])
    BY <1>1, <2>0, <2>2, <2>3 DEF Nested, Pushable
  <2>5. ASSUME NEW n \in DOMAIN new, n > 1, Onward(new[n - 1])
        PROVE  Deeper(new[n], new[n - 1])
    <3>1. CASE n = l + 1
      <4>1. new[n] = call /\ new[n - 1] = next
        BY <1>1, <2>0, <2>2, <3>1 DEF l
      <4> QED
        BY <2>5, <4>1 DEF Pushable, Replaces, Deeper, Onward
    <3>2. CASE n # l + 1
      BY <1>1, <2>0, <2>2, <2>3, <2>5, <3>2 DEF Nested
    <3> QED
      BY <3>1, <3>2
  <2> QED
    BY <2>2, <2>4, <2>5 DEF Nested, new, rest
<1> QED
  BY <1>3, <1>4
-----------------------------------------------------------------------------
LEMMA SectionsPushable ==
  ASSUME NEW b \in Bufs, NEW start \in Nat, NEW end \in Nat, NEW depth \in Nat,
         end <= image[b].len,
         Onward(Top) => \/ b > Top.buf
                        \/ b = Top.buf /\ start > Top.lo
                        \/ /\ b = Top.buf /\ start >= Top.lo
                           /\ depth > Top.depth,
         b = Top.buf => Top.lo \in Nat
  PROVE  \/ Sections(b, start, end, depth) = <<>>
         \/ \E call : /\ Sections(b, start, end, depth) = <<call>>
                      /\ Pushable(call)
<1>1. CASE depth > MAX_DEPTH
  BY <1>1 DEF Sections
<1>2. CASE ~(depth > MAX_DEPTH)
  <2> DEFINE call == [fn |-> "sections", buf |-> b, lo |-> start, pos |-> start,
                      end |-> end, depth |-> depth, files |-> 0]
  <2>1. Sections(b, start, end, depth) = <<call>>
    BY <1>2 DEF Sections
  <2>2. call \in Frame
    BY <1>2, DepthAssumption DEF Frame
  <2>3. Inside(call) /\ (Onward(Top) => Deeper(call, Top))
    BY DEF Inside, Deeper
  <2> QED
    BY <2>1, <2>2, <2>3 DEF Pushable
<1> QED
  BY <1>1, <1>2

LEMMA VolumeFrame ==
  ASSUME NEW b \in Bufs, IsBuffer(image[b]), NEW fv \in DOMAIN image[b].vol
  PROVE  \/ Volume(b, fv) = <<>> /\ ~Accepted(image[b], fv)
         \/ \E call \in Frame :
              /\ Volume(b, fv) = <<call>> /\ Inside(call) /\ call.fn = "volume"
              /\ call.buf = b /\ call.lo = fv /\ call.lo < WORD
              /\ call.lo <= call.pos /\ call.files = 0
              /\ NoWrap /\ (checks => ~VolumeOverflows(image[b], fv)) =>
                   /\ call.lo < call.end
                   /\ call.end = fv + image[b].vol[fv].len
<1> DEFINE buf == image[b]
           v == buf.vol[fv]
           call == [fn |-> "volume", buf |-> b, lo |-> fv,
                    pos |-> FileArea(buf, fv), end |-> Plus(fv, v.len),
                    depth |-> 0, files |-> 0]
<1>1. CASE ~Accepted(buf, fv)
  BY <1>1 DEF Volume
<1>2. CASE Accepted(buf, fv)
  <2>1. fv \in Nat /\ v \in VolumeHeader
    BY DEF IsBuffer
  <2>2. v.len \in Nat /\ v.hdr \in Nat /\ v.ext \in Nat /\ v.extSize \in Nat
    BY <2>1, WordAssumption DEF VolumeHeader, Words
  <2>3. FileArea(buf, fv) \in Nat /\ FileArea(buf, fv) >= fv
    <3>1. fv + v.ext + v.extSize \in Nat /\ fv + v.hdr \in Nat
      BY <2>1, <2>2
    <3>2. /\ Aligned(fv + v.ext + v.extSize, 8) \in Nat
          /\ Aligned(fv + v.ext + v.extSize, 8) >= fv + v.ext + v.extSize
      BY <3>1, AlignedUp
    <3> QED
      BY <2>1, <2>2, <3>1, <3>2 DEF FileArea
  <2>4. Volume(b, fv) = <<call>>
    BY <1>2 DEF Volume
  <2>5. call \in Frame
    <3>1. Plus(fv, v.len) \in Nat
      BY <2>1, <2>2, WordsAdded
    <3> QED
      BY <2>1, <2>3, <3>1, DepthAssumption DEF Frame
  <2>6. Inside(call)
    BY <1>2, <2>3 DEF Inside, Accepted
  <2>7. fv < WORD /\ fv + 56 <= buf.len
    <3>1. buf.len \in Nat /\ buf.len < WORD
      BY BufferLength
    <3>2. fv + 56 <= buf.len
      BY <1>2 DEF Accepted
    <3> QED
      BY <2>1, <3>1, <3>2, WordAssumption
  <2>8. ASSUME NoWrap, checks => ~VolumeOverflows(image[b], fv)
        PROVE  call.lo < call.end /\ call.end = fv + v.len
    <3>1. ~Overflows(fv, v.len)
      BY <2>7, <2>8 DEF NoWrap, VolumeOverflows
    <3>2. call.end = fv + v.len
      BY <2>1, <2>2, <3>1, WordsAdded
    <3> QED
      BY <1>2, <2>1, <2>2, <3>2 DEF Accepted
  <2> QED
    BY <2>3, <2>4, <2>5, <2>6, <2>7, <2>8
<1> QED
  BY <1>1, <1>2

Less == {pair \in Nat \X Nat : pair[1] < pair[2]}

LEMMA FirstIsLeast ==
  ASSUME NEW T, T \subseteq Nat, T # {}
  PROVE  First(T) \in T /\ \A x \in T : First(T) <= x
<1>1. IsWellFoundedOn(Less, Nat)
  BY NatLessThanWellFounded, Zenon DEF OpToRel, Less
<1>2. \E x \in T : \A y \in T : <<y, x>> \notin Less
  <2> HIDE DEF Less
  <2> QED
    BY <1>1, WFMin
<1>3. PICK x \in T : \A y \in T : <<y, x>> \notin Less
  BY <1>2
<1>4. \A y \in T : ~(y < x)
  BY <1>3 DEF Less
<1>5. \A y \in T : x <= y
  BY <1>3, <1>4
<1> QED
  BY <1>5 DEF First

LEMMA NestedInvariant ==
  ASSUME image \in Images, UNCHANGED inputs, Nested(stack')
  PROVE  IInv'
BY InputsSame DEF Nested, IInv, CallsNest, Inside, Deeper, Onward

\* The two shapes of a step of the walk.
LEMMA Pops ==
  ASSUME IInv, stack # <<>>, UNCHANGED inputs, stack' = Below
  PROVE  IInv'
BY PopNests, NestedInvariant DEF IInv

LEMMA Pushes ==
  ASSUME IInv, stack # <<>>, UNCHANGED inputs, NEW next, Replaces(next), NEW calls,
         calls = <<>> \/ \E call : calls = <<call>> /\ Pushable(call),
         stack' = Append(Below, next) \o calls
  PROVE  IInv'
BY PushNests, NestedInvariant DEF IInv

LEMMA Moves ==
  ASSUME IInv, stack # <<>>, UNCHANGED inputs, NEW next, Replaces(next),
         stack' = Append(Below, next)
  PROVE  IInv'
BY ReplaceNests, NestedInvariant DEF IInv

\* A section lies in the run, behind what was read of it before.
LEMMA AtSectionType ==
  ASSUME IInv, InSections, AtSection
  PROVE  /\ stack # <<>> /\ Top \in Frame /\ Inside(Top)
         /\ Top.pos \in Nat /\ Top.lo \in Nat /\ Top.lo <= Top.pos
         /\ Top.depth \in Nat /\ Top.buf \in Bufs /\ Onward(Top)
         /\ SectionEnd \in Nat /\ SectionEnd >= Top.pos + 4
         /\ SectionEnd <= image[Top.buf].len
         /\ Content \in Nat /\ Content > Top.lo /\ Section.at \in Nat
         /\ Replaces([Top EXCEPT !.pos = Aligned(SectionEnd, 4)])
<1>1. /\ stack # <<>> /\ Top \in Frame /\ Inside(Top)
      /\ Section \in SectionHeader /\ image[Top.buf].len \in Nat
  BY TopFrame DEF InSections, AtSection, Section
<1>2. /\ Top.pos \in Nat /\ Top.lo \in Nat /\ Top.lo <= Top.pos
      /\ Top.end \in Nat /\ Top.end <= image[Top.buf].len
      /\ Top.depth \in Nat /\ Top.buf \in Bufs /\ Onward(Top)
  BY <1>1, DepthAssumption DEF Frame, Inside, Onward, InSections
<1>3. /\ SectionEnd \in Nat /\ SectionEnd >= Top.pos + 4
      /\ SectionEnd <= image[Top.buf].len
      /\ Content \in Nat /\ Content > Top.lo /\ Section.at \in Nat
  <2>1. Section.size \in Nat /\ Section.at \in Nat
    BY <1>1 DEF SectionHeader
  <2>2. Section.size >= 4 /\ Top.pos + Section.size <= Top.end
    BY DEF AtSection, SectionEnd
  <2>3. Content = Top.pos + 8 \/ Content = Top.pos + 4
    BY DEF Content
  <2>4. PICK size \in Nat, pos \in Nat, end \in Nat, len \in Nat :
          /\ size = Section.size /\ pos = Top.pos /\ end = Top.end
          /\ len = image[Top.buf].len
    BY <1>1, <1>2, <2>1
  <2>5. pos + size \in Nat /\ pos + size >= pos + 4 /\ pos + size <= len
    BY <1>2, <2>2, <2>4
  <2>6. SectionEnd = pos + size
    BY <2>4 DEF SectionEnd
  <2>7. Content \in Nat /\ Content > Top.lo
    BY <1>2, <2>3
  <2> QED
    BY <2>1, <2>4, <2>5, <2>6, <2>7
<1>4. Aligned(SectionEnd, 4) \in Nat /\ Aligned(SectionEnd, 4) >= Top.lo
  BY <1>2, <1>3, AlignedUp
<1>5. Replaces([Top EXCEPT !.pos = Aligned(SectionEnd, 4)])
  BY <1>1, <1>2, <1>4 DEF Replaces, Frame, Inside
<1> QED
  BY <1>1, <1>2, <1>3, <1>5

LEMMA Advances ==
  ASSUME IInv, InSections, AtSection, UNCHANGED inputs, stack' = Advanced
  PROVE  IInv'
BY AtSectionType, Moves DEF Advanced

LEMMA AdvancesInto ==
  ASSUME IInv, InSections, AtSection, UNCHANGED inputs, NEW calls,
         calls = <<>> \/ \E call : calls = <<call>> /\ Pushable(call),
         stack' = Advanced \o calls
  PROVE  IInv'
BY AtSectionType, Pushes DEF Advanced
-----------------------------------------------------------------------------
\* What is known of a file that the loop takes.  Its end does not lie in front
\* of its start if no size wraps.
LEMMA FileBounds ==
  ASSUME IInv, InVolume, ReadsFile, FileFits
  PROVE  /\ Top.pos \in Nat /\ Top.end \in Nat /\ Top.files \in Nat
         /\ DataStart \in Nat /\ Top.pos < DataStart /\ Top.pos < Top.end
         /\ FileEnd \in Nat /\ FileEnd <= Top.end
         /\ Aligned(FileEnd, 8) \in Nat /\ FileEnd <= Aligned(FileEnd, 8)
         /\ NoWrap => Top.pos < FileEnd
<1>1. stack # <<>> /\ Top \in Frame /\ Top.buf \in Bufs /\ File \in FileHeader
  BY TopFrame DEF InVolume, ReadsFile, AtFile, File, Frame
<1>2. PICK pos \in Nat, end \in Nat, size \in Nat :
        pos = Top.pos /\ end = Top.end /\ size = File.size
  BY <1>1, WordAssumption DEF Frame, FileHeader, Words
<1>3. DataStart = pos + 24 \/ DataStart = pos + 32
  BY <1>2 DEF DataStart
<1>4. pos + 24 <= end /\ FileEnd <= end /\ size > DataStart - pos
  BY <1>2 DEF FileFits, ReadsFile, AtFile
<1>5. PICK to \in Nat : to = FileEnd /\ (~FileOverflows => to = pos + size)
  BY <1>2, WordsAdded DEF FileEnd, FileOverflows
<1>6. NoWrap => ~FileOverflows
  BY <1>1 DEF NoWrap, ReadsFile, AtFile, FileOverflows, File, Buf
<1>7. Aligned(to, 8) \in Nat /\ to <= Aligned(to, 8)
  BY AlignedUp
<1>8. DataStart \in Nat /\ pos < DataStart /\ pos < end /\ pos < pos + size
  BY <1>2, <1>3, <1>4
<1> QED
  BY <1>1, <1>2, <1>4, <1>5, <1>6, <1>7, <1>8 DEF Frame

LEMMA NestInvariance ==
  ASSUME IInv, [Next]_vars
  PROVE  IInv'
<1>0. UNCHANGED inputs
  BY InputsKept
<1>1. CASE ScanVolume
  <2> DEFINE fv == First(Unscanned)
  <2>1. IsBuffer(image[1]) /\ fv \in DOMAIN image[1].vol
    <3>1. IsBuffer(image[1])
      BY ImagesAssumption, BufsAssumption DEF IInv, IsImage
    <3>2. Unscanned \subseteq Nat /\ Unscanned # {}
      BY <1>1, <3>1 DEF ScanVolume, Scanning, Unscanned, IsBuffer
    <3>3. fv \in Unscanned
      BY <3>2, FirstIsLeast
    <3> QED
      BY <3>1, <3>3 DEF Unscanned
  <2> HIDE DEF fv
  <2>2. \/ Volume(1, fv) = <<>>
        \/ \E call \in Frame : Volume(1, fv) = <<call>> /\ Inside(call)
    BY <2>1, VolumeFrame, BufsAssumption
  <2>3. stack' \in {<<>>, Volume(1, fv)}
    BY <1>1 DEF ScanVolume, fv
  <2>4. Nested(stack')
    <3>1. CASE stack' = <<>>
      BY <3>1 DEF Nested
    <3>2. CASE \E call \in Frame : stack' = <<call>> /\ Inside(call)
      <4> PICK call \in Frame : stack' = <<call>> /\ Inside(call)
        BY <3>2
      <4>1. <<call>> \in Seq(Frame) /\ DOMAIN <<call>> = {1}
            /\ <<call>>[1] = call
        OBVIOUS
      <4> QED
        BY <4>1 DEF Nested
    <3> QED
      BY <2>2, <2>3, <3>1, <3>2
  <2> QED
    BY <1>0, <2>4, NestedInvariant DEF IInv
<1>2. CASE VisitFile
  <2> DEFINE next == [Top EXCEPT !.pos = Aligned(FileEnd, 8)]
             counted == [next EXCEPT !.files = @ + 1]
  <2>1. /\ stack # <<>> /\ Top \in Frame /\ Top.buf \in Bufs
        /\ image[Top.buf].len \in Nat /\ Inside(Top)
    BY <1>2, TopFrame DEF VisitFile, InVolume, Frame
  <2>2. /\ Top.pos \in Nat /\ Top.lo \in Nat /\ DataStart \in Nat
        /\ Top.pos < DataStart /\ FileEnd \in Nat
        /\ FileEnd <= image[Top.buf].len
        /\ Aligned(FileEnd, 8) \in Nat
        /\ NoWrap => Top.pos < FileEnd /\ FileEnd <= Aligned(FileEnd, 8)
    BY <1>2, <2>1, FileBounds, SMT DEF VisitFile, Inside, Frame
  <2>3. Onward(Top) => NoWrap /\ Top.lo <= Top.pos
    BY <1>2, <2>1 DEF Onward, VisitFile, InVolume, Inside
  <2>5. Replaces(next) /\ Replaces(counted)
    <3>1. Onward(Top) => Top.lo <= Aligned(FileEnd, 8)
      BY <2>2, <2>3
    <3>2. Replaces(next)
      BY <2>1, <2>2, <3>1 DEF Replaces, Frame, Inside, Onward
    <3> HIDE DEF next
    <3> QED
      BY <3>2, CountReplaces
  <2> DEFINE calls == Sections(Top.buf, DataStart, FileEnd, 0)
  <2>6. calls = <<>> \/ \E call : calls = <<call>> /\ Pushable(call)
    <3>1. Onward(Top) => DataStart > Top.lo
      BY <2>2, <2>3
    <3>2. PICK b \in Bufs, start \in Nat, end \in Nat :
            b = Top.buf /\ start = DataStart /\ end = FileEnd
      BY <2>1, <2>2
    <3>3. end <= image[b].len /\ (Onward(Top) => start > Top.lo)
      BY <2>2, <3>1, <3>2
    <3>4. \/ Sections(b, start, end, 0) = <<>>
          \/ \E call : /\ Sections(b, start, end, 0) = <<call>>
                       /\ Pushable(call)
      BY <2>2, <3>2, <3>3, SectionsPushable
    <3> QED
      BY <3>2, <3>4
  <2>7. \/ stack' = Append(Below, next)
        \/ stack' = Append(Below, counted) \o calls
    BY <1>2 DEF VisitFile
  <2> HIDE DEF next, counted, calls
  <2> QED
    BY <1>0, <2>1, <2>5, <2>6, <2>7, Moves, Pushes
<1>3. CASE EndVolume
  BY <1>0, <1>3, Pops DEF EndVolume, InVolume
<1>4. CASE EndSections
  BY <1>0, <1>4, Pops DEF EndSections, InSections
<1>5. CASE CountModule \/ CountName \/ SkipSection \/ DecompressFails
  <2>1. InSections /\ AtSection /\ stack' = Advanced
    BY <1>5
    DEF CountModule, CountName, SkipSection, DecompressFails, Packed, Type
  <2> QED
    BY <1>0, <2>1, Advances
<1>6. CASE EnterSection
  <2> DEFINE calls == Sections(Top.buf, Payload, SectionEnd, Top.depth + 1)
  <2>1. InSections /\ AtSection /\ stack' = Advanced \o calls
    BY <1>6 DEF EnterSection, Type
  <2>2. Payload \in Nat /\ Payload >= Top.lo
    <3>1. /\ Content + 5 \in Nat /\ Content + 5 >= Top.lo
          /\ Top.pos + Section.at \in Nat /\ Top.pos + Section.at >= Top.lo
      BY SMTT(30), <2>1, AtSectionType
    <3> QED
      BY <3>1 DEF Payload
  <2>3. calls = <<>> \/ \E call : calls = <<call>> /\ Pushable(call)
    <3>1. /\ Top.buf \in Bufs /\ Top.lo \in Nat /\ SectionEnd \in Nat
          /\ SectionEnd <= image[Top.buf].len
          /\ Top.depth + 1 \in Nat /\ Top.depth + 1 > Top.depth
      BY <2>1, AtSectionType
    <3> QED
      BY <2>2, <3>1, SectionsPushable
  <2> HIDE DEF calls
  <2> QED
    BY <1>0, <2>1, <2>3, AdvancesInto
<1>7. CASE Decompress
  <2> DEFINE out == Section.out
             calls == Sections(out, 0, image[out].len, Top.depth + 1)
  <2>1. InSections /\ AtSection /\ stack' = Advanced \o calls
    BY <1>7 DEF Decompress, Packed, Type
  <2>2. out \in Bufs /\ out > Top.buf
    BY <1>7, <2>1, TopFrame
    DEF Decompress, AtSection, InSections, Section
  <2>3. image[out].len \in Nat
    BY <2>2, ImagesAssumption, BufferLength DEF IInv, IsImage
  <2>4. Top.buf \in Nat /\ out \in Nat /\ Top.depth + 1 \in Nat
    BY SMTT(30), <2>1, <2>2, AtSectionType, BufsAssumption
  <2>5. calls = <<>> \/ \E call : calls = <<call>> /\ Pushable(call)
    BY <2>2, <2>3, <2>4, SectionsPushable
  <2> HIDE DEF calls
  <2> QED
    BY <1>0, <2>1, <2>5, AdvancesInto
<1>8. CASE NestedVolume
  <2> DEFINE calls == IF HasVolume THEN Volume(Top.buf, Content) ELSE <<>>
  <2>1. InSections /\ AtSection /\ stack' = Advanced \o calls
    BY <1>8 DEF NestedVolume, Type
  <2>2. ASSUME HasVolume
        PROVE  calls = <<>> \/ \E call : calls = <<call>> /\ Pushable(call)
    <3>1. Content \in DOMAIN image[Top.buf].vol
      BY <2>2 DEF HasVolume, Buf
    <3>2. Top.buf \in Bufs /\ IsBuffer(image[Top.buf])
      BY <2>1, AtSectionType, ImagesAssumption DEF IInv, IsImage
    <3>3. \/ Volume(Top.buf, Content) = <<>>
          \/ \E call \in Frame :
               /\ Volume(Top.buf, Content) = <<call>> /\ Inside(call)
               /\ call.buf = Top.buf /\ call.lo = Content
      BY <3>1, <3>2, VolumeFrame
    <3>4. Content > Top.lo
      BY <2>1, AtSectionType
    <3>5. ASSUME NEW call \in Frame, Inside(call),
                 call.buf = Top.buf, call.lo = Content
          PROVE  Pushable(call)
      BY <3>4, <3>5 DEF Pushable, Deeper
    <3>6. calls = Volume(Top.buf, Content)
      BY <2>2
    <3> HIDE DEF calls
    <3> QED
      BY <3>3, <3>5, <3>6
  <2>3. calls = <<>> \/ \E call : calls = <<call>> /\ Pushable(call)
    <3>1. ~HasVolume => calls = <<>>
      OBVIOUS
    <3> HIDE DEF calls
    <3> QED
      BY <2>2, <3>1
  <2> HIDE DEF calls
  <2> QED
    BY <1>0, <2>1, <2>3, AdvancesInto
<1>9. CASE \/ FinishScan \/ ScanPanic \/ FilePanic \/ NamePanic
           \/ DecompressPanic \/ ScanVolumePanic \/ NestedPanic
           \/ SaveRom \/ SaveFails \/ Return \/ UNCHANGED vars
  <2>1. stack' = stack
    BY <1>9
    DEF FinishScan, ScanPanic, FilePanic, NamePanic, DecompressPanic,
        ScanVolumePanic, NestedPanic, Panics, SaveRom, SaveFails, Return, vars
  <2> QED
    BY <1>0, <2>1, InputsSame DEF IInv, CallsNest, Inside, Deeper, Onward
<1> QED
  BY <1>1, <1>2, <1>3, <1>4, <1>5, <1>6, <1>7, <1>8, <1>9 DEF Next

\* A call made from a run of sections is further on or deeper than the run, and
\* so is a call made for a file of a volume if no size wraps around a word: then
\* no chain of nested calls repeats a place, although MAX_DEPTH does not count
\* volumes.  And none reads behind its buffer, not even if a size wraps.
THEOREM CallsNested == Spec => []CallsNest
<1>1. Init => IInv
  BY DEF Init, IInv, CallsNest
<1>2. IInv /\ [Next]_vars => IInv'
  BY NestInvariance
<1>3. IInv => CallsNest
  BY DEF IInv
<1> QED
  BY <1>1, <1>2, <1>3, PTL DEF Spec
-----------------------------------------------------------------------------
(***************************************************************************)
(* Recursive functions.  The induction theorems of the library take an     *)
(* operator; with a set in its place induction is a fact of first-order    *)
(* logic, and so is that a recursive definition has one solution.          *)
(***************************************************************************)
LEMMA Induction ==
  ASSUME NEW P, 0 \in P, \A n \in Nat : n \in P => n + 1 \in P
  PROVE  \A n \in Nat : n \in P
<1> DEFINE T == Nat \ P
<1>1. CASE T = {}
  BY <1>1
<1>2. CASE T # {}
  <2>1. T \subseteq Nat
    OBVIOUS
  <2> HIDE DEF T
  <2>2. PICK m : m \in T /\ \A x \in T : m <= x
    BY <1>2, <2>1, FirstIsLeast
  <2>3. m \in Nat /\ m \notin P /\ \A x \in Nat : x < m => x \in P
    BY <2>1, <2>2 DEF T
  <2>4. m # 0 /\ m - 1 \in Nat /\ m - 1 \in P /\ m - 1 + 1 = m
    BY <2>3
  <2> QED
    BY <2>3, <2>4
<1> QED
  BY <1>1, <1>2

\* g is what step makes of s0, again and again.
Iterates(g, N, s0, step) ==
  g[0] = s0 /\ \A n \in 1 .. N : g[n] = step[<<n, g[n - 1]>>]

LEMMA Recursion ==
  ASSUME NEW N \in Nat, NEW S, NEW s0 \in S,
         NEW step \in [(1 .. N) \X S -> S]
  PROVE  \E g \in [0 .. N -> S] : Iterates(g, N, s0, step)
<1> DEFINE P == {k \in Nat : k <= N =>
                   \E g \in [0 .. N -> S] :
                     g[0] = s0 /\ \A n \in 1 .. k : g[n] = step[<<n, g[n - 1]>>]}
<1>1. 0 \in P
  <2> DEFINE g == [n \in 0 .. N |-> s0]
  <2>1. g \in [0 .. N -> S] /\ g[0] = s0 /\ 1 .. 0 = {}
    OBVIOUS
  <2> QED
    BY <2>1
<1>2. ASSUME NEW k \in Nat, k \in P
      PROVE  k + 1 \in P
  <2> SUFFICES ASSUME k + 1 <= N
               PROVE  \E g \in [0 .. N -> S] :
                        /\ g[0] = s0
                        /\ \A n \in 1 .. k + 1 : g[n] = step[<<n, g[n - 1]>>]
    OBVIOUS
  <2> PICK g \in [0 .. N -> S] :
        g[0] = s0 /\ \A n \in 1 .. k : g[n] = step[<<n, g[n - 1]>>]
    BY <1>2
  <2> DEFINE h == [g EXCEPT ![k + 1] = step[<<k + 1, g[k]>>]]
  <2>1. g[k] \in S /\ <<k + 1, g[k]>> \in (1 .. N) \X S
    OBVIOUS
  <2>2. h \in [0 .. N -> S] /\ h[0] = s0 /\ h[k + 1] = step[<<k + 1, g[k]>>]
    BY <2>1
  <2>3. \A n \in 0 .. k : h[n] = g[n]
    OBVIOUS
  <2> HIDE DEF h
  <2>4. ASSUME NEW n \in 1 .. k + 1 PROVE h[n] = step[<<n, h[n - 1]>>]
    <3>1. n - 1 \in 0 .. k /\ h[n - 1] = g[n - 1]
      BY <2>3
    <3>2. CASE n = k + 1
      BY <2>2, <3>1, <3>2
    <3>3. CASE n # k + 1
      BY <2>3, <3>1, <3>3
    <3> QED
      BY <3>2, <3>3
  <2> QED
    BY <2>2, <2>4
<1>3. N \in P
  <2> HIDE DEF P
  <2> QED
    BY <1>1, <1>2, Induction
<1> QED
  BY <1>3 DEF Iterates
-----------------------------------------------------------------------------
\* The sums of files.
IsSum(g, list) ==
  g = [n \in 0 .. Len(list) |->
         IF n = 0 THEN 0 ELSE g[n - 1] + list[n].files]

LEMMA SumChosen ==
  ASSUME NEW list, NEW g, IsSum(g, list), \A h : IsSum(h, list) => h = g
  PROVE  SumOf(list) = g[Len(list)]
<1>1. (CHOOSE h : IsSum(h, list)) = g
  OBVIOUS
<1>2. (CHOOSE h : IsSum(h, list))
        = (CHOOSE h : h = [n \in 0 .. Len(list) |->
                             IF n = 0 THEN 0 ELSE h[n - 1] + list[n].files])
  BY DEF IsSum
<1>3. SumOf(list)
        = (CHOOSE h : h = [n \in 0 .. Len(list) |->
                             IF n = 0 THEN 0 ELSE h[n - 1] + list[n].files])
            [Len(list)]
  BY Zenon DEF SumOf
<1> QED
  BY <1>1, <1>2, <1>3

Counts(R) == \A r \in R : r.files \in Nat

LEMMA SumUnfolds ==
  ASSUME NEW R, Counts(R), NEW list \in Seq(R)
  PROVE  \E g \in [0 .. Len(list) -> Nat] :
           /\ g[0] = 0
           /\ \A n \in 1 .. Len(list) : g[n] = g[n - 1] + list[n].files
           /\ SumOf(list) = g[Len(list)]
<1> DEFINE N == Len(list)
           step == [x \in (1 .. N) \X Nat |-> x[2] + list[x[1]].files]
<1>1. N \in Nat /\ \A n \in 1 .. N : list[n].files \in Nat
  BY DEF Counts
<1> HIDE DEF N
<1>2. step \in [(1 .. N) \X Nat -> Nat]
  BY <1>1
<1>3. \A n \in 1 .. N, m \in Nat : step[<<n, m>>] = m + list[n].files
  OBVIOUS
<1> HIDE DEF step
<1>4. PICK g \in [0 .. N -> Nat] : Iterates(g, N, 0, step)
  <2>1. 0 \in Nat
    OBVIOUS
  <2> QED
    BY <1>1, <1>2, <2>1, Recursion, Zenon
<1>5. \A n \in 1 .. N : g[n] = g[n - 1] + list[n].files
  <2>1. \A n \in 1 .. N : n - 1 \in 0 .. N
    BY <1>1
  <2>2. \A n \in 1 .. N : g[n - 1] \in Nat
    BY <2>1
  <2> QED
    BY <1>3, <1>4, <2>2 DEF Iterates
<1>6. IsSum(g, list)
  BY <1>1, <1>4, <1>5 DEF IsSum, N, Iterates
<1>7. ASSUME NEW h, IsSum(h, list) PROVE h = g
  <2> DEFINE P == {k \in Nat : k <= N => h[k] = g[k]}
  <2>1. /\ h = [n \in 0 .. N |-> h[n]] /\ h[0] = 0
        /\ \A n \in 1 .. N : h[n] = h[n - 1] + list[n].files
    BY <1>1, <1>7 DEF IsSum, N
  <2>2. 0 \in P
    BY <1>4, <2>1 DEF Iterates
  <2>3. ASSUME NEW k \in Nat, k \in P PROVE k + 1 \in P
    <3> SUFFICES ASSUME k + 1 <= N PROVE h[k + 1] = g[k + 1]
      OBVIOUS
    <3>1. h[k] = g[k] /\ k + 1 \in 1 .. N /\ k + 1 - 1 = k
      BY <1>1, <2>3
    <3>2. /\ h[k + 1] = h[k] + list[k + 1].files
          /\ g[k + 1] = g[k] + list[k + 1].files
      <4> DEFINE n == k + 1
      <4>1. n \in 1 .. N /\ n - 1 = k
        BY <3>1
      <4> HIDE DEF n
      <4>2. h[n] = h[k] + list[n].files /\ g[n] = g[k] + list[n].files
        BY <1>5, <2>1, <4>1
      <4> QED
        BY <4>2 DEF n
    <3> QED
      BY <3>1, <3>2
  <2>4. \A k \in Nat : k \in P
    <3> HIDE DEF P
    <3> QED
      BY <2>2, <2>3, Induction
  <2>5. \A k \in 0 .. N : h[k] = g[k]
    BY <1>1, <2>4
  <2> QED
    BY <1>4, <2>1, <2>5
<1> QED
  BY <1>4, <1>5, <1>6, <1>7, SumChosen DEF N, Iterates

LEMMA SumEmpty == SumOf(<<>>) = 0
<1>1. <<>> \in Seq({}) /\ Counts({}) /\ Len(<<>>) = 0
  BY DEF Counts
<1> QED
  BY <1>1, SumUnfolds

LEMMA SumAppend ==
  ASSUME NEW R, Counts(R), NEW list \in Seq(R), NEW r \in R
  PROVE  /\ SumOf(list) \in Nat
         /\ SumOf(Append(list, r)) = SumOf(list) + r.files
<1> DEFINE N == Len(list)
           longer == Append(list, r)
<1>1. /\ N \in Nat /\ longer \in Seq(R) /\ Len(longer) = N + 1
      /\ longer[N + 1] = r /\ \A n \in 1 .. N : longer[n] = list[n]
  OBVIOUS
<1> HIDE DEF longer
<1>2. PICK g \in [0 .. N -> Nat] :
           /\ g[0] = 0 /\ SumOf(list) = g[N]
           /\ \A n \in 1 .. N : g[n] = g[n - 1] + list[n].files
  BY SumUnfolds
<1>3. PICK h \in [0 .. N + 1 -> Nat] :
           /\ h[0] = 0 /\ SumOf(longer) = h[N + 1]
           /\ \A n \in 1 .. N + 1 : h[n] = h[n - 1] + longer[n].files
  BY <1>1, SumUnfolds
<1> DEFINE P == {k \in Nat : k <= N => h[k] = g[k]}
<1>4. \A k \in Nat : k \in P
  <2>1. 0 \in P
    BY <1>2, <1>3
  <2>2. ASSUME NEW k \in Nat, k \in P PROVE k + 1 \in P
    <3> SUFFICES ASSUME k + 1 <= N PROVE h[k + 1] = g[k + 1]
      OBVIOUS
    <3>1. h[k] = g[k] /\ k + 1 \in 1 .. N /\ k + 1 - 1 = k
      BY <1>1, <2>2
    <3>2. /\ h[k + 1] = h[k] + longer[k + 1].files
          /\ g[k + 1] = g[k] + list[k + 1].files
      BY <1>1, <1>2, <1>3, <3>1
    <3> QED
      BY <1>1, <3>1, <3>2
  <2> HIDE DEF P
  <2> QED
    BY <2>1, <2>2, Induction
<1>5. h[N] = g[N] /\ h[N + 1] = h[N] + r.files /\ g[N] \in Nat
  BY <1>1, <1>2, <1>3, <1>4
<1> QED
  BY <1>2, <1>3, <1>5 DEF longer
-----------------------------------------------------------------------------
\* The scan for option ROMs: what Hits finds, and what Scanned makes of it.
Resumed(buf, g, x) ==
  IF Ahead(buf, x) = {} THEN <<>>
  ELSE <<First(Ahead(buf, x))>> \o g[First(Ahead(buf, x)) + ROM_STEP]

IsHits(g, buf) ==
  g = [x \in 0 .. buf.len + ROM_STEP |-> Resumed(buf, g, x)]

LEMMA HitsChosen ==
  ASSUME NEW buf, NEW g, IsHits(g, buf), \A h : IsHits(h, buf) => h = g
  PROVE  Hits(buf) = g[0]
<1>1. (CHOOSE h : IsHits(h, buf)) = g
  OBVIOUS
<1>2. (CHOOSE h : IsHits(h, buf))
        = (CHOOSE h : h = [x \in 0 .. buf.len + ROM_STEP |->
             IF Ahead(buf, x) = {} THEN <<>>
             ELSE <<First(Ahead(buf, x))>>
                    \o h[First(Ahead(buf, x)) + ROM_STEP]])
  BY DEF IsHits, Resumed
<1>3. Hits(buf)
        = (CHOOSE h : h = [x \in 0 .. buf.len + ROM_STEP |->
             IF Ahead(buf, x) = {} THEN <<>>
             ELSE <<First(Ahead(buf, x))>>
                    \o h[First(Ahead(buf, x)) + ROM_STEP]])[0]
  BY Zenon DEF Hits
<1> QED
  BY <1>1, <1>2, <1>3

LEMMA Prepend ==
  ASSUME NEW D, NEW q \in D, NEW rest \in Seq(D)
  PROVE  /\ <<q>> \o rest \in Seq(D)
         /\ q \in ToSet(<<q>> \o rest)
         /\ ToSet(rest) \subseteq ToSet(<<q>> \o rest)
<1>1. <<q>> \in Seq(D) /\ Len(<<q>>) = 1 /\ <<q>>[1] = q
  OBVIOUS
<1> DEFINE one == <<q>>
<1> HIDE DEF one
<1>2. one \in Seq(D) /\ Len(one) = 1 /\ one[1] = q
  BY <1>1 DEF one
<1> DEFINE all == one \o rest
<1>3. /\ all \in Seq(D) /\ Len(all) = 1 + Len(rest) /\ all[1] = q
      /\ \A m \in 1 .. Len(rest) : all[m + 1] = rest[m]
  <2>1. /\ all \in Seq(D) /\ Len(all) = Len(one) + Len(rest)
        /\ \A n \in 1 .. Len(one) + Len(rest) :
             all[n] = IF n <= Len(one) THEN one[n] ELSE rest[n - Len(one)]
    BY <1>2, ConcatProperties
  <2>2. Len(rest) \in Nat
    OBVIOUS
  <2> HIDE DEF all
  <2>3. ASSUME NEW m \in 1 .. Len(rest) PROVE all[m + 1] = rest[m]
    <3>1. m + 1 \in 1 .. 1 + Len(rest) /\ ~(m + 1 <= 1) /\ m + 1 - 1 = m
      BY <2>2
    <3> QED
      BY <1>2, <2>1, <3>1
  <2> QED
    BY <1>2, <2>1, <2>2, <2>3
<1>4. DOMAIN all = 1 .. 1 + Len(rest) /\ DOMAIN rest = 1 .. Len(rest)
      /\ Len(rest) \in Nat
  BY <1>3
<1> HIDE DEF all
<1>5. q \in ToSet(all)
  BY <1>3, <1>4 DEF ToSet
<1>6. ASSUME NEW m \in DOMAIN rest PROVE rest[m] \in ToSet(all)
  <2>1. m + 1 \in DOMAIN all /\ all[m + 1] = rest[m]
    BY <1>3, <1>4
  <2> QED
    BY <2>1 DEF ToSet
<1>7. ToSet(rest) \subseteq ToSet(all)
  BY <1>6 DEF ToSet
<1> QED
  BY <1>3, <1>5, <1>7 DEF all, one

\* The next signature, and that the scan goes on behind it.
LEMMA NextHit ==
  ASSUME NEW buf, IsBuffer(buf), NEW x \in Nat, Ahead(buf, x) # {}
  PROVE  /\ First(Ahead(buf, x)) \in DOMAIN buf.sig
         /\ First(Ahead(buf, x)) \in Nat /\ x <= First(Ahead(buf, x))
         /\ First(Ahead(buf, x)) + ROM_STEP \in x + 1 .. buf.len + ROM_STEP
         /\ \A p \in Ahead(buf, x) : First(Ahead(buf, x)) <= p
<1>1. Ahead(buf, x) \subseteq Nat /\ buf.len \in Nat
  BY BufferLength DEF IsBuffer, Ahead
<1>2. /\ First(Ahead(buf, x)) \in Ahead(buf, x)
      /\ \A p \in Ahead(buf, x) : First(Ahead(buf, x)) <= p
  BY <1>1, FirstIsLeast
<1>3. PICK q \in Nat : q = First(Ahead(buf, x))
  BY <1>1, <1>2
<1>4. q \in DOMAIN buf.sig /\ x <= q /\ q + ROM_HEADER <= buf.len
  BY <1>2, <1>3 DEF Ahead
<1>5. q + ROM_STEP \in x + 1 .. buf.len + ROM_STEP
  BY <1>1, <1>4 DEF ROM_STEP, ROM_HEADER
<1> QED
  BY <1>2, <1>3, <1>4, <1>5

LEMMA HitsUnfold ==
  ASSUME NEW buf, IsBuffer(buf)
  PROVE  \E g \in [0 .. buf.len + ROM_STEP -> Seq(DOMAIN buf.sig)] :
           /\ \A x \in 0 .. buf.len + ROM_STEP : g[x] = Resumed(buf, g, x)
           /\ Hits(buf) = g[0]
<1> DEFINE S == Seq(DOMAIN buf.sig)
<1>0. buf.len + ROM_STEP \in Nat
  BY BufferLength DEF IsBuffer, ROM_STEP
<1>1. PICK N \in Nat : N = buf.len + ROM_STEP
  BY <1>0
<1>2. ASSUME NEW x \in 0 .. N, Ahead(buf, x) # {}
      PROVE  /\ First(Ahead(buf, x)) \in DOMAIN buf.sig
             /\ First(Ahead(buf, x)) + ROM_STEP \in x + 1 .. N
  BY <1>1, <1>2, NextHit
<1>3. ASSUME NEW g \in [0 .. N -> S], NEW x \in 0 .. N
      PROVE  Resumed(buf, g, x) \in S
  <2>1. CASE Ahead(buf, x) = {}
    BY <2>1 DEF Resumed
  <2>2. CASE Ahead(buf, x) # {}
    <3>1. PICK q \in DOMAIN buf.sig : q = First(Ahead(buf, x))
      BY <1>2, <2>2
    <3>2. q + ROM_STEP \in 0 .. N
      BY <1>2, <2>2, <3>1
    <3>3. g[q + ROM_STEP] \in S
      BY <3>2
    <3>4. <<q>> \o g[q + ROM_STEP] \in S
      BY <3>3, Prepend
    <3> QED
      BY <2>2, <3>1, <3>4 DEF Resumed
  <2> QED
    BY <2>1, <2>2
<1> HIDE DEF S
<1> DEFINE P == {k \in Nat : k <= N + 1 =>
                   \E g \in [0 .. N -> S] :
                     \A x \in 0 .. N :
                       x >= N + 1 - k => g[x] = Resumed(buf, g, x)}
<1>4. 0 \in P
  <2> DEFINE g == [x \in 0 .. N |-> <<>>]
  <2>1. g \in [0 .. N -> S]
    BY DEF S
  <2>2. \A x \in 0 .. N : ~(x >= N + 1 - 0)
    OBVIOUS
  <2> HIDE DEF g
  <2> QED
    BY <2>1, <2>2
<1>5. ASSUME NEW k \in Nat, k \in P PROVE k + 1 \in P
  <2> SUFFICES ASSUME k + 1 <= N + 1
               PROVE  \E g \in [0 .. N -> S] :
                        \A x \in 0 .. N :
                          x >= N + 1 - (k + 1) => g[x] = Resumed(buf, g, x)
    OBVIOUS
  <2> PICK g \in [0 .. N -> S] :
        \A x \in 0 .. N : x >= N + 1 - k => g[x] = Resumed(buf, g, x)
    BY <1>5
  <2>1. PICK j \in 0 .. N : j = N - k
    OBVIOUS
  <2> DEFINE h == [g EXCEPT ![j] = Resumed(buf, g, j)]
  <2>2. h \in [0 .. N -> S]
    BY <1>3
  <2>3. h[j] = Resumed(buf, g, j) /\ \A x \in 0 .. N : x > j => h[x] = g[x]
    OBVIOUS
  <2> HIDE DEF h
  <2>4. ASSUME NEW x \in 0 .. N, x >= j
        PROVE  Resumed(buf, h, x) = Resumed(buf, g, x)
    <3>1. CASE Ahead(buf, x) = {}
      BY <3>1 DEF Resumed
    <3>2. CASE Ahead(buf, x) # {}
      <4>1. PICK q \in x + 1 .. N : q = First(Ahead(buf, x)) + ROM_STEP
        BY <1>2, <3>2
      <4>2. h[q] = g[q]
        BY <2>3, <2>4, <4>1
      <4> QED
        BY <3>2, <4>1, <4>2 DEF Resumed
    <3> QED
      BY <3>1, <3>2
  <2>5. ASSUME NEW x \in 0 .. N, x >= N + 1 - (k + 1)
        PROVE  h[x] = Resumed(buf, h, x)
    <3>1. x >= j
      BY <2>1, <2>5
    <3>2. CASE x = j
      BY <2>3, <2>4, <3>1, <3>2
    <3>3. CASE x # j
      <4>1. x >= N + 1 - k /\ x > j
        BY <2>1, <3>1, <3>3
      <4>2. h[x] = g[x] /\ g[x] = Resumed(buf, g, x)
        BY <2>3, <4>1
      <4> QED
        BY <2>4, <3>1, <4>2
    <3> QED
      BY <3>2, <3>3
  <2> QED
    BY <2>2, <2>5
<1>6. N + 1 \in P
  <2> HIDE DEF P
  <2> QED
    BY <1>4, <1>5, Induction
<1>7. PICK g \in [0 .. N -> S] :
        \A x \in 0 .. N : x >= N + 1 - (N + 1) => g[x] = Resumed(buf, g, x)
  BY <1>6
<1>8. \A x \in 0 .. N : g[x] = Resumed(buf, g, x)
  BY <1>7
<1>9. IsHits(g, buf)
  <2>1. g = [x \in 0 .. N |-> g[x]]
    OBVIOUS
  <2>2. [x \in 0 .. N |-> g[x]] = [x \in 0 .. N |-> Resumed(buf, g, x)]
    BY <1>8
  <2> QED
    BY <1>1, <2>1, <2>2, Zenon DEF IsHits
<1>10. ASSUME NEW h, IsHits(h, buf) PROVE h = g
  <2>1. h = [x \in 0 .. N |-> Resumed(buf, h, x)]
    BY <1>1, <1>10 DEF IsHits
  <2>2. \A x \in 0 .. N : h[x] = Resumed(buf, h, x)
    BY <2>1
  <2> DEFINE Q == {k \in Nat : \A x \in 0 .. N : x >= N + 1 - k => h[x] = g[x]}
  <2>3. 0 \in Q
    <3>1. \A x \in 0 .. N : ~(x >= N + 1 - 0)
      OBVIOUS
    <3> QED
      BY <3>1
  <2>4. ASSUME NEW k \in Nat, k \in Q PROVE k + 1 \in Q
    <3> SUFFICES ASSUME NEW x \in 0 .. N, x >= N + 1 - (k + 1)
                 PROVE  h[x] = g[x]
      OBVIOUS
    <3>1. CASE Ahead(buf, x) = {}
      BY <1>8, <2>2, <3>1 DEF Resumed
    <3>2. CASE Ahead(buf, x) # {}
      <4>1. PICK q \in x + 1 .. N : q = First(Ahead(buf, x)) + ROM_STEP
        BY <1>2, <3>2
      <4>2. q \in 0 .. N /\ q >= N + 1 - k
        BY <4>1
      <4>3. h[q] = g[q]
        BY <2>4, <4>2
      <4>4. Resumed(buf, h, x) = Resumed(buf, g, x)
        BY <3>2, <4>1, <4>3 DEF Resumed
      <4> QED
        BY <1>8, <2>2, <4>4
    <3> QED
      BY <3>1, <3>2
  <2>5. N + 1 \in Q
    <3> HIDE DEF Q
    <3> QED
      BY <2>3, <2>4, Induction
  <2>6. \A x \in 0 .. N : h[x] = g[x]
    BY <2>5
  <2>7. [x \in 0 .. N |-> Resumed(buf, h, x)] = [x \in 0 .. N |-> g[x]]
    BY <2>2, <2>6
  <2>8. g = [x \in 0 .. N |-> g[x]]
    OBVIOUS
  <2> QED
    BY <2>1, <2>7, <2>8
<1>11. Hits(buf) = g[0]
  BY <1>9, <1>10, HitsChosen
<1> QED
  BY <1>1, <1>8, <1>11 DEF S

\* A signature that no other one is close in front of is found.
LEMMA HitsFind ==
  ASSUME NEW buf, IsBuffer(buf)
  PROVE  /\ Hits(buf) \in Seq(DOMAIN buf.sig)
         /\ \A p \in DOMAIN buf.sig :
              (p + ROM_HEADER <= buf.len /\ Alone(buf, p)) =>
                p \in ToSet(Hits(buf))
<1>0. buf.len + ROM_STEP \in Nat /\ DOMAIN buf.sig \subseteq Nat
  BY BufferLength DEF IsBuffer, ROM_STEP
<1>1. PICK N \in Nat : N = buf.len + ROM_STEP
  BY <1>0
<1>2. PICK g \in [0 .. N -> Seq(DOMAIN buf.sig)] :
        /\ \A x \in 0 .. N : g[x] = Resumed(buf, g, x)
        /\ Hits(buf) = g[0]
  BY <1>1, HitsUnfold
<1>3. ASSUME NEW p \in DOMAIN buf.sig, p + ROM_HEADER <= buf.len, Alone(buf, p)
      PROVE  p \in ToSet(Hits(buf))
  <2> DEFINE Q == {k \in Nat : \A x \in 0 .. N :
                     (x >= N + 1 - k /\ x <= p) => p \in ToSet(g[x])}
  <2>0. p \in Nat
    BY <1>0
  <2>1. 0 \in Q
    <3>1. \A x \in 0 .. N : ~(x >= N + 1 - 0)
      OBVIOUS
    <3> QED
      BY <3>1
  <2>2. ASSUME NEW k \in Nat, k \in Q PROVE k + 1 \in Q
    <3> SUFFICES ASSUME NEW x \in 0 .. N, x >= N + 1 - (k + 1), x <= p
                 PROVE  p \in ToSet(g[x])
      OBVIOUS
    <3>1. x \in Nat /\ p \in Ahead(buf, x) /\ Ahead(buf, x) # {}
      BY <1>3 DEF Ahead
    <3>2. /\ First(Ahead(buf, x)) \in DOMAIN buf.sig
          /\ First(Ahead(buf, x)) \in Nat
          /\ First(Ahead(buf, x)) + ROM_STEP \in x + 1 .. N
          /\ First(Ahead(buf, x)) <= p
      BY <1>1, <3>1, NextHit
    <3>3. PICK q \in Nat : q = First(Ahead(buf, x))
      BY <3>2
    <3>4. /\ q \in DOMAIN buf.sig /\ q + ROM_STEP \in x + 1 .. N /\ q <= p
      BY <3>3, <3>2
    <3>5. PICK rest \in Seq(DOMAIN buf.sig) : rest = g[q + ROM_STEP]
      BY <3>4
    <3>6. g[x] = <<q>> \o rest
      BY <1>2, <3>1, <3>3, <3>5 DEF Resumed
    <3>7. CASE q = p
      BY <3>4, <3>6, <3>7, Prepend
    <3>8. CASE q # p
      <4>1. q + ROM_STEP <= p
        BY <1>3, <2>0, <3>4, <3>8 DEF Alone
      <4>2. PICK j \in 0 .. N : j = q + ROM_STEP
        BY <3>4
      <4>3. j >= N + 1 - k /\ j <= p
        BY <3>4, <4>1, <4>2
      <4>4. p \in ToSet(rest)
        BY <2>2, <3>5, <4>2, <4>3
      <4> QED
        BY <3>4, <3>6, <4>4, Prepend
    <3> QED
      BY <3>7, <3>8
  <2>3. N + 1 \in Q
    <3> HIDE DEF Q
    <3> QED
      BY <2>1, <2>2, Induction
  <2>4. 0 >= N + 1 - (N + 1) /\ 0 <= p /\ 0 \in 0 .. N
    BY <2>0
  <2> QED
    BY <1>2, <2>3, <2>4
<1>4. Hits(buf) \in Seq(DOMAIN buf.sig)
  BY <1>2
<1> QED
  BY <1>3, <1>4

IsScan(g, buf, list) ==
  g = [k \in 0 .. Len(Hits(buf)) |->
         IF k = 0 THEN list
         ELSE IF \/ buf.sig[Hits(buf)[k]] = None
                 \/ buf.sig[Hits(buf)[k]] \in ToSet(g[k - 1]) THEN g[k - 1]
              ELSE Append(g[k - 1], buf.sig[Hits(buf)[k]])]

LEMMA ScanChosen ==
  ASSUME NEW buf, NEW list, NEW g, IsScan(g, buf, list),
         \A h : IsScan(h, buf, list) => h = g
  PROVE  Scanned(buf, list) = g[Len(Hits(buf))]
<1>1. (CHOOSE h : IsScan(h, buf, list)) = g
  OBVIOUS
<1> DEFINE body(h) ==
      [k \in 0 .. Len(Hits(buf)) |->
         IF k = 0 THEN list
         ELSE IF \/ buf.sig[Hits(buf)[k]] = None
                 \/ buf.sig[Hits(buf)[k]] \in ToSet(h[k - 1]) THEN h[k - 1]
              ELSE Append(h[k - 1], buf.sig[Hits(buf)[k]])]
<1>2. (CHOOSE h : IsScan(h, buf, list)) = (CHOOSE h : h = body(h))
  BY DEF IsScan
<1>3. Scanned(buf, list) = (CHOOSE h : h = body(h))[Len(Hits(buf))]
  BY Zenon DEF Scanned
<1> QED
  BY <1>1, <1>2, <1>3

\* The list holds what it held, and every ROM that was hit.
LEMMA ScanKeeps ==
  ASSUME NEW buf, IsBuffer(buf), NEW list \in Seq(Roms)
  PROVE  /\ Scanned(buf, list) \in Seq(Roms)
         /\ ToSet(list) \subseteq ToSet(Scanned(buf, list))
         /\ \A p \in ToSet(Hits(buf)) :
              buf.sig[p] # None => buf.sig[p] \in ToSet(Scanned(buf, list))
<1>1. PICK hits : hits = Hits(buf)
  OBVIOUS
<1>2. hits \in Seq(DOMAIN buf.sig) /\ \A p \in DOMAIN buf.sig : buf.sig[p] \in Roms \cup {None}
  BY <1>1, HitsFind DEF IsBuffer
<1>3. PICK N \in Nat : N = Len(hits)
  BY <1>2
<1> DEFINE rom == [k \in 1 .. N |-> buf.sig[hits[k]]]
<1>4. \A k \in 1 .. N : rom[k] \in Roms \cup {None} /\ rom[k] = buf.sig[hits[k]]
  BY <1>2, <1>3
<1> HIDE DEF rom
<1> DEFINE Next1(last, r) == IF r = None \/ r \in ToSet(last) THEN last
                             ELSE Append(last, r)
           S == Seq(Roms)
           step == [x \in (1 .. N) \X S |-> Next1(x[2], rom[x[1]])]
<1>5. \A last \in S : \A r \in Roms \cup {None} : Next1(last, r) \in S
  OBVIOUS
<1>6. \A k \in 1 .. N : \A last \in S : step[<<k, last>>] = Next1(last, rom[k])
  OBVIOUS
<1>7. step \in [(1 .. N) \X S -> S]
  <2> HIDE DEF Next1
  <2> QED
    BY <1>4, <1>5
<1>8. PICK g \in [0 .. N -> S] : Iterates(g, N, list, step)
  <2> HIDE DEF step
  <2> QED
    BY <1>7, Recursion
<1>9. ASSUME NEW k \in 1 .. N
      PROVE  k - 1 \in 0 .. N /\ g[k - 1] \in S /\ g[k] = Next1(g[k - 1], rom[k])
  <2>1. k - 1 \in 0 .. N
    OBVIOUS
  <2>2. g[k - 1] \in S
    BY <2>1
  <2> HIDE DEF step, Next1
  <2> QED
    BY <1>6, <1>8, <2>1, <2>2 DEF Iterates
<1>10. g[0] = list
  BY <1>8 DEF Iterates
<1>11. \A h : IsScan(h, buf, list) <=>
         h = [k \in 0 .. N |-> IF k = 0 THEN list ELSE Next1(h[k - 1], rom[k])]
  <2> SUFFICES ASSUME NEW h
               PROVE  IsScan(h, buf, list) <=>
                        h = [k \in 0 .. N |-> IF k = 0 THEN list
                                             ELSE Next1(h[k - 1], rom[k])]
    OBVIOUS
  <2> DEFINE f(k) == IF k = 0 THEN list
                     ELSE IF \/ buf.sig[hits[k]] = None
                             \/ buf.sig[hits[k]] \in ToSet(h[k - 1])
                            THEN h[k - 1]
                          ELSE Append(h[k - 1], buf.sig[hits[k]])
             e(k) == IF k = 0 THEN list ELSE Next1(h[k - 1], rom[k])
  <2>1. IsScan(h, buf, list) <=> h = [k \in 0 .. N |-> f(k)]
    BY <1>1, <1>3 DEF IsScan
  <2>2. ASSUME NEW k \in 0 .. N PROVE f(k) = e(k)
    <3>1. CASE k = 0
      BY <3>1
    <3>2. CASE k # 0
      <4>1. k \in 1 .. N
        BY <3>2
      <4>2. rom[k] = buf.sig[hits[k]]
        BY <1>4, <4>1
      <4> QED
        BY <3>2, <4>2
    <3> QED
      BY <3>1, <3>2
  <2> HIDE DEF f, e
  <2>3. [k \in 0 .. N |-> f(k)] = [k \in 0 .. N |-> e(k)]
    BY <2>2
  <2> QED
    BY <2>1, <2>3 DEF e
<1>12. IsScan(g, buf, list)
  <2>1. g = [k \in 0 .. N |-> g[k]]
    OBVIOUS
  <2>2. \A k \in 0 .. N :
          g[k] = IF k = 0 THEN list ELSE Next1(g[k - 1], rom[k])
    <3> HIDE DEF Next1
    <3>1. \A k \in 0 .. N : k # 0 => k \in 1 .. N
      OBVIOUS
    <3> QED
      BY <1>9, <1>10, <3>1
  <2> HIDE DEF Next1
  <2>3. g = [k \in 0 .. N |-> IF k = 0 THEN list ELSE Next1(g[k - 1], rom[k])]
    BY <2>1, <2>2
  <2> QED
    BY <1>11, <2>3
<1>13. ASSUME NEW h, IsScan(h, buf, list) PROVE h = g
  <2> HIDE DEF Next1
  <2>1. h = [k \in 0 .. N |-> IF k = 0 THEN list ELSE Next1(h[k - 1], rom[k])]
    BY <1>11, <1>13
  <2>2. h[0] = list /\ \A k \in 1 .. N : h[k] = Next1(h[k - 1], rom[k])
    BY <2>1
  <2> DEFINE P == {k \in Nat : k <= N => h[k] = g[k]}
  <2>3. 0 \in P
    BY <1>10, <2>2
  <2>4. ASSUME NEW k \in Nat, k \in P PROVE k + 1 \in P
    <3> SUFFICES ASSUME k + 1 <= N PROVE h[k + 1] = g[k + 1]
      OBVIOUS
    <3>1. PICK n \in 1 .. N : n = k + 1
      OBVIOUS
    <3>2. h[k] = g[k] /\ n - 1 = k
      BY <2>4, <3>1
    <3>3. h[n] = Next1(h[k], rom[n]) /\ g[n] = Next1(g[k], rom[n])
      BY <1>9, <2>2, <3>2
    <3> QED
      BY <3>1, <3>2, <3>3
  <2>5. \A k \in Nat : k \in P
    <3> HIDE DEF P
    <3> QED
      BY <2>3, <2>4, Induction
  <2>6. \A k \in 0 .. N : h[k] = g[k]
    BY <2>5
  <2>7. h = [k \in 0 .. N |-> h[k]]
    BY <2>1
  <2>8. g = [k \in 0 .. N |-> g[k]]
    OBVIOUS
  <2>9. [k \in 0 .. N |-> h[k]] = [k \in 0 .. N |-> g[k]]
    BY <2>6
  <2> QED
    BY <2>7, <2>8, <2>9
<1>14. Scanned(buf, list) = g[N]
  BY <1>1, <1>3, <1>12, <1>13, ScanChosen
<1>15. ASSUME NEW last \in S, NEW r \in Roms \cup {None}
       PROVE  /\ ToSet(last) \subseteq ToSet(Next1(last, r))
              /\ r # None => r \in ToSet(Next1(last, r))
  <2>1. CASE r = None \/ r \in ToSet(last)
    BY <2>1
  <2>2. CASE ~(r = None \/ r \in ToSet(last))
    <3>1. PICK longer : longer = Append(last, r)
      OBVIOUS
    <3>2. /\ r \in Roms /\ longer \in S /\ Len(longer) = Len(last) + 1
          /\ longer[Len(last) + 1] = r /\ Len(last) \in Nat
          /\ \A m \in 1 .. Len(last) : longer[m] = last[m]
      BY <2>2, <3>1
    <3>3. DOMAIN longer = 1 .. Len(last) + 1 /\ DOMAIN last = 1 .. Len(last)
      BY <3>2
    <3>4. Len(last) + 1 \in DOMAIN longer
          /\ \A m \in DOMAIN last : m \in DOMAIN longer /\ longer[m] = last[m]
      BY <3>2, <3>3
    <3>5. r \in ToSet(longer)
      BY <3>2, <3>4 DEF ToSet
    <3>6. ToSet(last) \subseteq ToSet(longer)
      BY <3>4 DEF ToSet
    <3> QED
      BY <2>2, <3>1, <3>5, <3>6
  <2> QED
    BY <2>1, <2>2
<1> HIDE DEF Next1, step
<1> DEFINE P == {k \in Nat : k <= N =>
                   /\ ToSet(list) \subseteq ToSet(g[k])
                   /\ \A j \in 1 .. k : rom[j] # None => rom[j] \in ToSet(g[k])}
<1>16. 0 \in P
  <2>1. 1 .. 0 = {}
    OBVIOUS
  <2> QED
    BY <1>10, <2>1
<1>17. ASSUME NEW k \in Nat, k \in P PROVE k + 1 \in P
  <2> SUFFICES ASSUME k + 1 <= N
               PROVE  /\ ToSet(list) \subseteq ToSet(g[k + 1])
                      /\ \A j \in 1 .. k + 1 :
                           rom[j] # None => rom[j] \in ToSet(g[k + 1])
    OBVIOUS
  <2>1. PICK n \in 1 .. N : n = k + 1
    OBVIOUS
  <2>2. n - 1 = k
    BY <2>1
  <2>3. g[k] \in S /\ g[n] = Next1(g[k], rom[n]) /\ rom[n] \in Roms \cup {None}
    BY <1>4, <1>9, <2>2
  <2>4. ToSet(g[k]) \subseteq ToSet(g[n]) /\ (rom[n] # None => rom[n] \in ToSet(g[n]))
    BY <1>15, <2>3
  <2>5. /\ ToSet(list) \subseteq ToSet(g[k])
        /\ \A j \in 1 .. k : rom[j] # None => rom[j] \in ToSet(g[k])
    BY <1>17
  <2>6. \A j \in 1 .. n : j \in 1 .. k \/ j = n
    BY <2>1
  <2>7. /\ ToSet(list) \subseteq ToSet(g[n])
        /\ \A j \in 1 .. n : rom[j] # None => rom[j] \in ToSet(g[n])
    BY <2>4, <2>5, <2>6
  <2> QED
    BY <2>1, <2>7
<1>18. N \in P
  <2> HIDE DEF P
  <2> QED
    BY <1>16, <1>17, Induction
<1>19. g[N] \in Seq(Roms) /\ ToSet(list) \subseteq ToSet(g[N])
  BY <1>18
<1>20. ASSUME NEW p \in ToSet(Hits(buf)), buf.sig[p] # None
       PROVE  buf.sig[p] \in ToSet(g[N])
  <2>1. PICK j \in 1 .. N : hits[j] = p
    BY <1>1, <1>2, <1>3 DEF ToSet
  <2>2. \A m \in 1 .. N : rom[m] # None => rom[m] \in ToSet(g[N])
    BY <1>18
  <2>3. rom[j] = buf.sig[p]
    BY <1>4, <2>1
  <2> QED
    BY <1>20, <2>2, <2>3
<1> QED
  BY <1>14, <1>19, <1>20
-----------------------------------------------------------------------------
(***************************************************************************)
(* What the walk has behind it and what it has in front of it.  Seen are   *)
(* the files counted, the volumes recorded and the sections decompressed;  *)
(* a call will read the headers from its position to its end.              *)
(***************************************************************************)
Expanded ==
  UNION {{<<b, p>> : p \in {q \in DOMAIN image[b].sec :
                              image[b].sec[q].out \in ToSet(opened)}} : b \in Bufs}
Recorded == {<<volumes[m].buf, volumes[m].offset>> : m \in DOMAIN volumes}
Seen == ToSet(visits) \cup Recorded \cup Expanded

ToRead(f, x) == x[1] = f.buf /\ f.pos <= x[2] /\ x[2] < f.end

\* Of the volumes: the call at the bottom is that of a volume of the image
\* which the scan has passed, and what it passed is recorded or being walked.
Begun ==
  \A n \in DOMAIN stack :
    stack[n].fn = "volume" =>
      stack[n].lo < WORD /\ (NoWrap => stack[n].lo < stack[n].end)
Bottom ==
  stack # <<>> => stack[1].fn = "volume" /\ stack[1].buf = 1 /\ stack[1].lo < i
Spans(f, fv) == f.lo <= fv /\ (fv = f.lo \/ fv < f.end)
Passed ==
  \A fv \in DOMAIN image[1].vol :
    (fv < i /\ Accepted(image[1], fv)) =>
      \/ \E n \in DOMAIN volumes : volumes[n].buf # 1
      \/ Walked(1, fv)
      \/ stack # <<>> /\ Spans(stack[1], fv)
Ended == (pc = "extract" \/ outcome = "ok") => stack = <<>> /\ Unscanned = {}

\* If nested volumes end where their sections do: no two calls will read the
\* same place, none a place that was seen, and what was seen of the image lies
\* in a volume that the scan has passed.
Apart ==
  \A m, n \in DOMAIN stack :
    m < n =>
      /\ stack[m].buf <= stack[n].buf
      /\ stack[m].buf = stack[n].buf =>
           /\ stack[n].end <= stack[m].pos
           /\ stack[m].lo <= stack[n].lo
           /\ stack[n].fn = "volume" => stack[m].lo < stack[n].lo
Fresh == \A n \in DOMAIN stack : \A x \in Seen : ~ToRead(stack[n], x)
Reached ==
  /\ \A x \in Seen : x[1] = 1 \/ x[1] \in ToSet(opened)
  /\ \A n \in DOMAIN stack : stack[n].buf = 1 \/ stack[n].buf \in ToSet(opened)
Behind ==
  \A x \in Seen :
    x[1] = 1 =>
      \/ \E m \in DOMAIN volumes :
           /\ volumes[m].buf = 1 /\ volumes[m].offset < i
           /\ volumes[m].offset <= x[2]
           /\ x[2] < Plus(volumes[m].offset, volumes[m].length)
      \/ stack # <<>> /\ stack[1].lo <= x[2] /\ x[2] < stack[1].end
Within ==
  \A n \in DOMAIN stack :
    stack[n].buf = 1 => stack[1].lo <= stack[n].lo /\ stack[n].end <= stack[1].end
Unrecorded ==
  \A n \in DOMAIN stack :
    stack[n].fn = "volume" => <<stack[n].buf, stack[n].lo>> \notin Recorded
Once ==
  /\ \A m, n \in DOMAIN visits : visits[m] = visits[n] => m = n
  /\ \A m, n \in DOMAIN volumes :
       (volumes[m].buf = volumes[n].buf
          /\ volumes[m].offset = volumes[n].offset) => m = n

ScanInv == Begun /\ Bottom /\ Passed /\ Ended
OnceInv ==
  Contained => /\ Apart /\ Fresh /\ Reached /\ Behind /\ Within
               /\ Unrecorded /\ Once
-----------------------------------------------------------------------------
\* What a step leaves in the place of the frame at the top, and what it pushes.
Follows(next) ==
  /\ next \in Frame
  /\ next.fn = Top.fn /\ next.buf = Top.buf /\ next.lo = Top.lo
  /\ next.end = Top.end /\ next.depth = Top.depth
  /\ Onward(Top) => Top.pos < next.pos
  /\ Top.pos < Top.end
Made(call, next) ==
  /\ call \in Frame /\ call.files = 0 /\ call.lo <= call.pos
  /\ call.fn = "volume" =>
       /\ Top.lo < call.lo /\ call.lo < Top.end /\ call.lo < WORD
       /\ NoWrap => call.lo < call.end
  /\ \/ /\ call.buf = Top.buf /\ Top.pos <= call.lo
        /\ opened' = opened /\ (visits' = visits \/ Top.pos < call.lo)
        /\ Contained => call.end <= Top.end /\ call.end <= next.pos
     \/ /\ call.buf > Top.buf /\ call.fn = "sections"
        /\ InSections /\ AtSection /\ call.buf = Section.out
        /\ opened' = Append(opened, Section.out)
Calls(calls, next) ==
  calls = <<>> \/ \E call : calls = <<call>> /\ Made(call, next)

Walks(next, calls) ==
  /\ stack # <<>> /\ Follows(next) /\ Calls(calls, next)
  /\ stack' = Append(Below, next) \o calls
  /\ UNCHANGED <<inputs, i, volumes, outcome, pc>>
  /\ \/ visits' = visits /\ next.files = Top.files
     \/ /\ visits' = Append(visits, <<Top.buf, Top.pos>>)
        /\ next.files = Top.files + 1 /\ Top.fn = "volume"
  /\ \/ opened' = opened
     \/ /\ InSections /\ AtSection /\ Section.out # None
        /\ opened' = Append(opened, Section.out)
Walk ==
  VisitFile \/ CountModule \/ CountName \/ SkipSection \/ EnterSection
    \/ Decompress \/ DecompressFails \/ NestedVolume

LEMMA TopReplaced ==
  ASSUME IInv, stack # <<>>, NEW next \in Frame
  PROVE  /\ Append(Below, next) \in Seq(Frame)
         /\ Len(Append(Below, next)) = Len(stack)
         /\ Append(Below, next)[Len(stack)] = next
         /\ \A n \in 1 .. Len(stack) - 1 : Append(Below, next)[n] = stack[n]
<1>1. /\ Below \in Seq(Frame) /\ Len(Below) = Len(stack) - 1
      /\ \A n \in 1 .. Len(stack) - 1 : Below[n] = stack[n]
  BY BelowTop
<1>2. PICK l \in Nat : l = Len(stack) /\ l # 0
  BY TopFrame
<1>3. PICK below \in Seq(Frame) : below = Below
  BY <1>1
<1>4. /\ Append(below, next) \in Seq(Frame) /\ Len(Append(below, next)) = l
      /\ Append(below, next)[l] = next
      /\ \A n \in 1 .. l - 1 : Append(below, next)[n] = below[n]
  BY <1>1, <1>2, <1>3
<1> QED
  BY <1>1, <1>2, <1>3, <1>4

LEMMA CallOnTop ==
  ASSUME IInv, stack # <<>>, NEW next \in Frame, NEW call \in Frame
  PROVE  LET s == Append(Below, next) \o <<call>> IN
         /\ s \in Seq(Frame) /\ Len(s) = Len(stack) + 1
         /\ s[Len(stack) + 1] = call /\ s[Len(stack)] = next
         /\ \A n \in 1 .. Len(stack) - 1 : s[n] = stack[n]
<1> DEFINE rest == Append(Below, next)
<1>1. PICK l \in Nat : l = Len(stack) /\ l # 0
  BY TopFrame
<1>0. /\ rest \in Seq(Frame) /\ Len(rest) = Len(stack)
      /\ rest[Len(stack)] = next
      /\ \A n \in 1 .. Len(stack) - 1 : rest[n] = stack[n]
  BY TopReplaced
<1> HIDE DEF rest
<1>2. /\ rest \in Seq(Frame) /\ Len(rest) = l /\ rest[l] = next
      /\ \A n \in 1 .. l - 1 : rest[n] = stack[n]
  BY <1>0, <1>1
<1> DEFINE one == <<call>>
<1>3. one \in Seq(Frame) /\ Len(one) = 1 /\ one[1] = call
  OBVIOUS
<1> HIDE DEF one
<1>4. /\ rest \o one \in Seq(Frame) /\ Len(rest \o one) = l + 1
      /\ \A n \in 1 .. l + 1 :
           (rest \o one)[n] = IF n <= l THEN rest[n] ELSE one[n - l]
  <2>1. /\ rest \o one \in Seq(Frame)
        /\ Len(rest \o one) = Len(rest) + Len(one)
        /\ \A n \in 1 .. Len(rest) + Len(one) :
             (rest \o one)[n] = IF n <= Len(rest) THEN rest[n]
                                ELSE one[n - Len(rest)]
    BY <1>2, <1>3, ConcatProperties, Zenon
  <2> QED
    BY <1>2, <1>3, <2>1
<1>5. (rest \o one)[l + 1] = call /\ (rest \o one)[l] = next
  BY <1>1, <1>2, <1>3, <1>4
<1>6. \A n \in 1 .. l - 1 : (rest \o one)[n] = stack[n]
  BY <1>1, <1>2, <1>4
<1> QED
  BY <1>1, <1>4, <1>5, <1>6 DEF rest, one

\* Both shapes at once: the frames below the top stay.
LEMMA StackAfter ==
  ASSUME IInv, NEW next, NEW calls, Walks(next, calls)
  PROVE  /\ Len(stack) \in Nat \ {0} /\ stack' # <<>>
         /\ DOMAIN stack = 1 .. Len(stack)
         /\ \A n \in 1 .. Len(stack) - 1 : stack'[n] = stack[n]
         /\ stack'[Len(stack)] = next
         /\ \/ calls = <<>> /\ DOMAIN stack' = 1 .. Len(stack)
            \/ \E call \in Frame :
                 /\ calls = <<call>> /\ Made(call, next)
                 /\ DOMAIN stack' = 1 .. Len(stack) + 1
                 /\ stack'[Len(stack) + 1] = call
<1>0. /\ next \in Frame /\ stack # <<>> /\ Calls(calls, next)
      /\ stack' = Append(Below, next) \o calls
  BY DEF Walks, Follows
<1>1. Len(stack) \in Nat \ {0} /\ DOMAIN stack = 1 .. Len(stack)
  BY <1>0, TopFrame DEF IInv
<1>2. CASE calls = <<>>
  <2> DEFINE rest == Append(Below, next)
  <2>1. /\ rest \in Seq(Frame) /\ Len(rest) = Len(stack)
        /\ rest[Len(stack)] = next
        /\ \A n \in 1 .. Len(stack) - 1 : rest[n] = stack[n]
    BY <1>0, TopReplaced
  <2> HIDE DEF rest
  <2>2. stack' = rest
    BY <1>0, <1>2, <2>1 DEF rest
  <2>3. DOMAIN rest = 1 .. Len(stack) /\ rest # <<>>
    BY <1>1, <2>1
  <2>4. /\ DOMAIN stack' = 1 .. Len(stack) /\ stack'[Len(stack)] = next
        /\ \A n \in 1 .. Len(stack) - 1 : stack'[n] = stack[n]
        /\ stack' # <<>>
    BY <2>1, <2>2, <2>3
  <2> QED
    BY <1>1, <1>2, <2>4
<1>3. CASE \E call : calls = <<call>> /\ Made(call, next)
  <2> PICK call : calls = <<call>> /\ Made(call, next)
    BY <1>3
  <2>3. call \in Frame
    BY DEF Made
  <2> DEFINE s == Append(Below, next) \o <<call>>
  <2>0. /\ s \in Seq(Frame) /\ Len(s) = Len(stack) + 1
        /\ s[Len(stack) + 1] = call /\ s[Len(stack)] = next
        /\ \A n \in 1 .. Len(stack) - 1 : s[n] = stack[n]
    BY <1>0, <2>3, CallOnTop, Zenon
  <2> HIDE DEF s
  <2>1. stack' = s
    BY <1>0 DEF s
  <2>2. DOMAIN stack' = 1 .. Len(stack) + 1 /\ stack' # <<>>
    BY <1>1, <2>0, <2>1
  <2> QED
    BY <1>1, <2>0, <2>1, <2>2, <2>3
<1> QED
  BY <1>0, <1>2, <1>3 DEF Calls

LEMMA SectionFollows ==
  ASSUME IInv, InSections, AtSection
  PROVE  /\ Follows([Top EXCEPT !.pos = Aligned(SectionEnd, 4)])
         /\ SectionEnd <= Aligned(SectionEnd, 4) /\ SectionEnd <= Top.end
<1>1. /\ stack # <<>> /\ Top \in Frame /\ Top.pos \in Nat
      /\ SectionEnd \in Nat /\ SectionEnd >= Top.pos + 4
  BY AtSectionType
<1>2. Top.end \in Nat /\ SectionEnd <= Top.end
  BY <1>1 DEF Frame, AtSection
<1>3. PICK pos \in Nat : pos = Aligned(SectionEnd, 4) /\ pos >= SectionEnd
  BY <1>1, AlignedUp
<1>4. [Top EXCEPT !.pos = pos] \in Frame
  BY <1>1 DEF Frame
<1>5. Top.pos < pos /\ Top.pos < Top.end
  BY <1>1, <1>2, <1>3
<1> QED
  BY <1>1, <1>2, <1>3, <1>4, <1>5 DEF Follows, Frame

LEMMA FileFollows ==
  ASSUME IInv, InVolume, ReadsFile, FileFits
  PROVE  /\ stack # <<>> /\ Top \in Frame /\ Top.buf \in Bufs
         /\ Follows([Top EXCEPT !.pos = Aligned(FileEnd, 8)])
         /\ Follows([[Top EXCEPT !.pos = Aligned(FileEnd, 8)]
                       EXCEPT !.files = @ + 1])
<1>1. stack # <<>> /\ Top \in Frame /\ Top.fn = "volume"
  BY TopFrame DEF InVolume
<1>2. PICK pos \in Nat, files \in Nat, to \in Nat :
        pos = Top.pos /\ files = Top.files /\ to = Aligned(FileEnd, 8)
  BY FileBounds
<1>3. Onward(Top) => pos < to
  <2>1. Onward(Top) => NoWrap
    BY <1>1 DEF Onward
  <2> QED
    BY <1>2, <2>1, FileBounds
<1>4. Top.pos < Top.end
  BY FileBounds
<1> DEFINE moved == [Top EXCEPT !.pos = to]
<1>5. /\ moved \in Frame /\ moved.pos = to /\ moved.fn = Top.fn
      /\ moved.buf = Top.buf /\ moved.lo = Top.lo /\ moved.end = Top.end
      /\ moved.depth = Top.depth /\ moved.files = files
  BY <1>1, <1>2 DEF Frame
<1>6. Follows(moved)
  BY <1>2, <1>3, <1>4, <1>5 DEF Follows
<1> HIDE DEF moved
<1>7. [moved EXCEPT !.files = files + 1] \in Frame
  BY <1>5 DEF Frame
<1>8. Follows([moved EXCEPT !.files = @ + 1])
  BY <1>2, <1>3, <1>4, <1>5, <1>7 DEF Follows, Frame
<1> QED
  BY <1>1, <1>2, <1>6, <1>8 DEF Frame, moved

LEMMA SectionsCall ==
  ASSUME NEW b \in Bufs, NEW start \in Nat, NEW end \in Nat, NEW depth \in Nat
  PROVE  \/ Sections(b, start, end, depth) = <<>>
         \/ \E call \in Frame :
              /\ Sections(b, start, end, depth) = <<call>>
              /\ call.fn = "sections" /\ call.buf = b /\ call.lo = start
              /\ call.pos = start /\ call.end = end /\ call.files = 0
<1>1. CASE depth > MAX_DEPTH
  BY <1>1 DEF Sections
<1>2. CASE ~(depth > MAX_DEPTH)
  <2> DEFINE call == [fn |-> "sections", buf |-> b, lo |-> start, pos |-> start,
                      end |-> end, depth |-> depth, files |-> 0]
  <2>1. Sections(b, start, end, depth) = <<call>>
    BY <1>2 DEF Sections
  <2>2. call \in Frame
    BY <1>2, DepthAssumption DEF Frame
  <2> QED
    BY <2>1, <2>2
<1> QED
  BY <1>1, <1>2

LEMMA WalkShape ==
  ASSUME IInv, Walk
  PROVE  \E next, calls : Walks(next, calls)
<1>1. CASE VisitFile
  <2> DEFINE to == Aligned(FileEnd, 8)
             next == [Top EXCEPT !.pos = to]
             counted == [next EXCEPT !.files = @ + 1]
             calls == Sections(Top.buf, DataStart, FileEnd, 0)
  <2>1. InVolume /\ ReadsFile /\ FileFits
    BY <1>1 DEF VisitFile
  <2>2. /\ stack # <<>> /\ Top \in Frame /\ Top.buf \in Bufs
        /\ Top.pos \in Nat /\ Top.files \in Nat /\ Top.end \in Nat
        /\ DataStart \in Nat /\ Top.pos < DataStart
        /\ FileEnd \in Nat /\ FileEnd <= Top.end /\ FileEnd <= to
        /\ Follows(next) /\ Follows(counted)
    BY <2>1, FileFollows, FileBounds
  <2>3. /\ next.files = Top.files /\ next.pos = to
        /\ counted.files = Top.files + 1 /\ counted.pos = to
    BY <2>2 DEF Frame
  <2>4. UNCHANGED <<inputs, i, volumes, outcome, pc, opened>>
    BY <1>1 DEF VisitFile
  <2>5. CASE File.pad
    <3>1. stack' = Append(Below, next) /\ visits' = visits
      BY <1>1, <2>5 DEF VisitFile
    <3>2. next \in Frame
      BY <2>2 DEF Follows
    <3> HIDE DEF next
    <3>3. Append(Below, next) \in Seq(Frame)
      BY <2>2, <3>2, TopReplaced
    <3>4. stack' = Append(Below, next) \o <<>>
      BY <3>1, <3>3
    <3>5. Walks(next, <<>>)
      BY <2>2, <2>3, <2>4, <3>1, <3>4 DEF Walks, Calls
    <3> QED
      BY <3>5
  <2>6. CASE ~File.pad
    <3>1. /\ stack' = Append(Below, counted) \o calls
          /\ visits' = Append(visits, <<Top.buf, Top.pos>>)
      BY <1>1, <2>6 DEF VisitFile
    <3> HIDE DEF counted, to
    <3>2. Calls(calls, counted)
      <4>1. CASE calls = <<>>
        BY <4>1 DEF Calls
      <4>2. CASE \E call \in Frame :
              /\ calls = <<call>>
              /\ call.fn = "sections" /\ call.buf = Top.buf /\ call.lo = DataStart
              /\ call.pos = DataStart /\ call.end = FileEnd
              /\ call.files = 0
        <5> PICK call \in Frame :
              /\ calls = <<call>>
              /\ call.fn = "sections" /\ call.buf = Top.buf /\ call.lo = DataStart
              /\ call.pos = DataStart /\ call.end = FileEnd
              /\ call.files = 0
          BY <4>2
        <5>1. call.end <= Top.end /\ call.end <= counted.pos
          BY <2>2, <2>3
        <5>2. Top.pos <= call.lo /\ Top.pos < call.lo /\ call.lo <= call.pos
          BY <2>2
        <5>3. Made(call, counted)
          BY <2>4, <5>1, <5>2 DEF Made
        <5> QED
          BY <5>3 DEF Calls
      <4> HIDE DEF calls
      <4> QED
        BY <2>2, <4>1, <4>2, SectionsCall DEF calls
    <3> HIDE DEF calls
    <3>3. Walks(counted, calls)
      BY <1>1, <2>2, <2>3, <2>4, <3>1, <3>2 DEF Walks, VisitFile, InVolume
    <3> QED
      BY <3>3
  <2> QED
    BY <2>5, <2>6
<1>2. CASE ~VisitFile
  <2> DEFINE next == [Top EXCEPT !.pos = Aligned(SectionEnd, 4)]
  <2>1. InSections /\ AtSection
    BY <1>2
    DEF Walk, CountModule, CountName, SkipSection, EnterSection, Decompress,
        DecompressFails, NestedVolume, Packed, Type
  <2>2. /\ stack # <<>> /\ Top \in Frame /\ Top.buf \in Bufs
        /\ Top.pos \in Nat /\ SectionEnd \in Nat /\ Content \in Nat
        /\ Content > Top.lo /\ Section.at \in Nat /\ Top.lo \in Nat
        /\ Top.depth \in Nat /\ Top.lo <= Top.pos
    BY <2>1, AtSectionType
  <2>3. /\ Follows(next) /\ SectionEnd <= next.pos /\ SectionEnd <= Top.end
        /\ next.files = Top.files /\ next.pos \in Nat /\ Top.end \in Nat
    <3>1. Follows(next) /\ SectionEnd <= Aligned(SectionEnd, 4)
          /\ SectionEnd <= Top.end
      BY <2>1, SectionFollows
    <3>2. next.pos = Aligned(SectionEnd, 4) /\ next.files = Top.files
          /\ Top.end \in Nat
      BY <2>2 DEF Frame
    <3>3. next.pos \in Nat
      BY <3>1 DEF Follows, Frame
    <3> QED
      BY <3>1, <3>2, <3>3
  <2>4. Advanced = Append(Below, next)
    BY DEF Advanced
  <2>5. Content \in {Top.pos + 4, Top.pos + 8}
    BY DEF Content
  <2> HIDE DEF next
  <2>6. CASE CountModule \/ CountName \/ SkipSection \/ DecompressFails
    <3>1. UNCHANGED <<inputs, i, volumes, outcome, pc, opened, visits>>
      BY <2>6 DEF CountModule, CountName, SkipSection, DecompressFails, found
    <3>2. stack' = Append(Below, next)
      BY <2>4, <2>6 DEF CountModule, CountName, SkipSection, DecompressFails
    <3>3. Append(Below, next) \in Seq(Frame)
      BY <2>2, <2>3, TopReplaced DEF Follows
    <3>4. stack' = Append(Below, next) \o <<>>
      BY <3>2, <3>3
    <3>5. Walks(next, <<>>)
      BY <2>2, <2>3, <3>1, <3>4 DEF Walks, Calls
    <3> QED
      BY <3>5
  <2>7. CASE EnterSection
    <3> DEFINE calls == Sections(Top.buf, Payload, SectionEnd, Top.depth + 1)
    <3>1. UNCHANGED <<inputs, i, volumes, outcome, pc, opened, visits>>
          /\ stack' = Append(Below, next) \o calls
      BY <2>4, <2>7 DEF EnterSection, found
    <3>2. Payload \in Nat /\ Top.pos <= Payload
      BY <2>2, <2>5 DEF Payload
    <3>3. Calls(calls, next)
      <4>1. CASE calls = <<>>
        BY <4>1 DEF Calls
      <4>2. CASE \E call \in Frame :
              /\ calls = <<call>>
              /\ call.fn = "sections" /\ call.buf = Top.buf /\ call.lo = Payload
              /\ call.pos = Payload /\ call.end = SectionEnd /\ call.files = 0
        <5> PICK call \in Frame :
              /\ calls = <<call>>
              /\ call.fn = "sections" /\ call.buf = Top.buf /\ call.lo = Payload
              /\ call.pos = Payload /\ call.end = SectionEnd /\ call.files = 0
          BY <4>2
        <5>1. call.lo <= call.pos
          BY <3>2
        <5>2. Made(call, next)
          BY <2>3, <3>1, <3>2, <5>1 DEF Made
        <5> QED
          BY <5>2 DEF Calls
      <4>3. Top.depth + 1 \in Nat
        BY <2>2
      <4> HIDE DEF calls
      <4> QED
        BY <2>2, <3>2, <4>1, <4>2, <4>3, SectionsCall DEF calls
    <3> HIDE DEF calls
    <3>4. Walks(next, calls)
      BY <2>2, <2>3, <3>1, <3>3 DEF Walks
    <3> QED
      BY <3>4
  <2>8. CASE Decompress
    <3> DEFINE out == Section.out
               calls == Sections(out, 0, image[out].len, Top.depth + 1)
    <3>1. UNCHANGED <<inputs, i, volumes, outcome, pc, visits>>
          /\ stack' = Append(Below, next) \o calls
          /\ opened' = Append(opened, out) /\ out # None
      BY <2>4, <2>8 DEF Decompress, Decompressed
    <3>2. out \in Bufs /\ out > Top.buf
      BY <2>1, <2>2, <3>1, TopFrame DEF AtSection, Section
    <3>3. image[out].len \in Nat /\ Top.depth + 1 \in Nat
      BY <2>2, <3>2, ImagesAssumption, BufferLength DEF IInv, IsImage
    <3>4. Calls(calls, next)
      <4>1. CASE calls = <<>>
        BY <4>1 DEF Calls
      <4>2. CASE \E call \in Frame :
              /\ calls = <<call>>
              /\ call.fn = "sections" /\ call.buf = out /\ call.lo = 0
              /\ call.pos = 0 /\ call.end = image[out].len /\ call.files = 0
        <5> PICK call \in Frame :
              /\ calls = <<call>>
              /\ call.fn = "sections" /\ call.buf = out /\ call.lo = 0
              /\ call.pos = 0 /\ call.end = image[out].len /\ call.files = 0
          BY <4>2
        <5>1. Made(call, next)
          BY <2>1, <3>1, <3>2 DEF Made
        <5> QED
          BY <5>1 DEF Calls
      <4> HIDE DEF calls, out
      <4> QED
        BY <3>2, <3>3, <4>1, <4>2, SectionsCall DEF calls
    <3> HIDE DEF calls
    <3>5. Walks(next, calls)
      BY <2>1, <2>2, <2>3, <3>1, <3>4 DEF Walks
    <3> QED
      BY <3>5
  <2>9. CASE NestedVolume
    <3> DEFINE calls == IF HasVolume THEN Volume(Top.buf, Content) ELSE <<>>
    <3>1. UNCHANGED <<inputs, i, volumes, outcome, pc, opened, visits>>
          /\ stack' = Append(Below, next) \o calls
      BY <2>4, <2>9 DEF NestedVolume, found
    <3>2. Calls(calls, next)
      <4>1. CASE calls = <<>>
        BY <4>1 DEF Calls
      <4>2. CASE HasVolume
        <5>1. Content \in DOMAIN image[Top.buf].vol /\ Content + 44 <= SectionEnd
          BY <4>2 DEF HasVolume, Buf
        <5>2. IsImage(image) /\ IsBuffer(image[Top.buf])
          BY <2>2, ImagesAssumption DEF IInv, IsImage
        <5>3. ASSUME NEW call \in Frame,
                     call.fn = "volume", call.buf = Top.buf, call.files = 0,
                     call.lo = Content, call.lo <= call.pos, call.lo < WORD,
                     NoWrap =>
                       /\ call.lo < call.end
                       /\ call.end = Content + image[Top.buf].vol[Content].len
              PROVE  Made(call, next)
          <6>1. Contained => call.end <= SectionEnd
            <7>1. Top.pos \in DOMAIN image[Top.buf].sec
              BY <2>1 DEF AtSection, Buf
            <7>2. Section.type = "volume" /\ Section = image[Top.buf].sec[Top.pos]
              BY <2>9 DEF NestedVolume, Type, Section, Buf
            <7> QED
              BY <2>2, <5>1, <5>3, <7>1, <7>2
              DEF Contained, SectionEnd, Content
          <6>2. call.lo < Top.end /\ Top.pos <= call.lo /\ Top.lo < call.lo
            BY <2>2, <2>3, <2>5, <5>1, <5>3
          <6>3. call.end \in Nat
            BY DEF Frame
          <6>4. Contained => call.end <= Top.end /\ call.end <= next.pos
            BY <2>2, <2>3, <6>1, <6>3
          <6> QED
            BY <3>1, <5>3, <6>2, <6>4 DEF Made
        <5>6. checks => ~VolumeOverflows(image[Top.buf], Content)
          BY <2>9, <4>2 DEF NestedVolume, VolumePanics, Buf
        <5>4. \/ Volume(Top.buf, Content) = <<>>
              \/ \E call \in Frame :
                   /\ Volume(Top.buf, Content) = <<call>>
                   /\ call.fn = "volume" /\ call.buf = Top.buf
                   /\ call.files = 0 /\ call.lo = Content
                   /\ call.lo <= call.pos /\ call.lo < WORD
                   /\ NoWrap =>
                        /\ call.lo < call.end
                        /\ call.end = Content + image[Top.buf].vol[Content].len
          BY <2>2, <5>1, <5>2, <5>6, VolumeFrame
        <5>5. calls = Volume(Top.buf, Content)
          BY <4>2
        <5> HIDE DEF calls
        <5> QED
          BY <5>3, <5>4, <5>5 DEF Calls
      <4> QED
        BY <4>1, <4>2
    <3> HIDE DEF calls
    <3>3. Walks(next, calls)
      BY <2>2, <2>3, <3>1, <3>2 DEF Walks
    <3> QED
      BY <3>3
  <2> QED
    BY <1>2, <2>6, <2>7, <2>8, <2>9 DEF Walk
<1> QED
  BY <1>1, <1>2
-----------------------------------------------------------------------------
\* Types, and the volumes of the image that the scan has passed.
TInv == IInv /\ TypeOK /\ ScanInv

LEMMA Appended ==
  ASSUME NEW S, NEW list \in Seq(S), NEW e \in S
  PROVE  /\ Append(list, e) \in Seq(S)
         /\ Len(list) \in Nat /\ DOMAIN list = 1 .. Len(list)
         /\ DOMAIN Append(list, e) = 1 .. Len(list) + 1
         /\ Append(list, e)[Len(list) + 1] = e
         /\ \A n \in 1 .. Len(list) : Append(list, e)[n] = list[n]
         /\ ToSet(Append(list, e)) = ToSet(list) \cup {e}
<1> DEFINE longer == Append(list, e)
<1>1. /\ longer \in Seq(S) /\ Len(longer) = Len(list) + 1 /\ Len(list) \in Nat
      /\ longer[Len(list) + 1] = e
      /\ \A n \in 1 .. Len(list) : longer[n] = list[n]
  OBVIOUS
<1>2. DOMAIN longer = 1 .. Len(list) + 1 /\ DOMAIN list = 1 .. Len(list)
  BY <1>1
<1> HIDE DEF longer
<1>3. /\ Len(list) + 1 \in DOMAIN longer
      /\ \A n \in DOMAIN list : n \in DOMAIN longer /\ longer[n] = list[n]
  BY <1>1, <1>2
<1>4. \A n \in DOMAIN longer : n = Len(list) + 1 \/ n \in DOMAIN list
  BY <1>1, <1>2
<1>5. ToSet(list) \cup {e} \subseteq ToSet(longer)
  BY <1>1, <1>3 DEF ToSet
<1>6. ToSet(longer) \subseteq ToSet(list) \cup {e}
  BY <1>1, <1>3, <1>4 DEF ToSet
<1> QED
  BY <1>1, <1>2, <1>5, <1>6 DEF longer

\* What the end of a volume records.
Volume1 == [buf |-> Top.buf, offset |-> Top.lo, length |-> Length(Top),
            files |-> Top.files]
Records == [buf : Bufs, offset : Nat, length : Nat, files : Nat]

\* The sum of what is recorded is the end, modulo a word.
LEMMA LengthEnds ==
  ASSUME NEW f \in Frame, f.lo < WORD, f.end < WORD
  PROVE  Length(f) \in Nat /\ Plus(f.lo, Length(f)) = f.end
<1>1. PICK lo \in Nat, end \in Nat : lo = f.lo /\ end = f.end
  BY DEF Frame
<1>2. Length(f) = IF lo <= end THEN end - lo ELSE end - lo + WORD
  BY <1>1 DEF Length
<1>3. lo < WORD /\ end < WORD /\ WORD \in Nat
  BY <1>1, WordAssumption
<1>4. CASE lo <= end
  BY <1>1, <1>2, <1>3, <1>4 DEF Plus, Overflows
<1>5. CASE ~(lo <= end)
  BY <1>1, <1>2, <1>3, <1>5 DEF Plus, Overflows
<1> QED
  BY <1>4, <1>5

LEMMA VolumeRecorded ==
  ASSUME IInv, Begun, EndVolume
  PROVE  /\ Volume1 \in Records /\ volumes' = Append(volumes, Volume1)
         /\ stack # <<>> /\ Top.fn = "volume"
         /\ NoWrap => Top.lo < Top.end
         /\ Plus(Volume1.offset, Volume1.length) = Top.end
<1>1. /\ stack # <<>> /\ Top \in Frame /\ Top.fn = "volume"
      /\ Top.lo < WORD /\ (NoWrap => Top.lo < Top.end)
  <2>1. stack # <<>> /\ Top.fn = "volume"
    BY DEF EndVolume, InVolume
  <2>2. Top \in Frame /\ Len(stack) \in DOMAIN stack
    BY <2>1, TopFrame
  <2> QED
    BY <2>1, <2>2 DEF Begun, Top
<1>2. Top.buf \in Bufs /\ Top.lo \in Nat /\ Top.end \in Nat /\ Top.files \in Nat
  BY <1>1 DEF Frame
<1>3. Top.end < WORD
  <2>1. IsBuffer(image[Top.buf])
    BY <1>2, ImagesAssumption DEF IInv, IsImage
  <2>2. image[Top.buf].len \in Nat /\ image[Top.buf].len < WORD
    BY <2>1, BufferLength
  <2>3. Top.end <= image[Top.buf].len
    BY <1>1, TopFrame DEF Inside
  <2> QED
    BY <1>2, <2>2, <2>3, WordAssumption
<1>4. Length(Top) \in Nat /\ Plus(Top.lo, Length(Top)) = Top.end
  BY <1>1, <1>3, LengthEnds
<1>5. Volume1 \in Records
  BY <1>2, <1>4 DEF Volume1, Records
<1>6. volumes' = Append(volumes, Volume1)
  BY DEF EndVolume, Volume1
<1> QED
  BY <1>1, <1>4, <1>5, <1>6 DEF Volume1

LEMMA TypeInvariance ==
  ASSUME TInv, [Next]_vars
  PROVE  TypeOK'
<1> USE DEF TInv
<1>1. /\ IsImage(image) /\ dir \in BOOLEAN /\ checks \in BOOLEAN /\ i \in Nat
      /\ volumes \in Seq(Records)
      /\ visits \in Seq(Bufs \X Nat) /\ opened \in Seq(Bufs)
      /\ leaves \in [modules : Nat, names : Nat, undecoded : Nat]
      /\ vendor \in Markers \cup {None} /\ roms \in Seq(Roms)
      /\ outcome \in Outcomes \cup {None}
      /\ pc \in {"walk", "extract", "stop"}
  BY DEF TypeOK, Records
<1>2. /\ stack' \in Seq(Frame) /\ IsImage(image)'
      /\ dir' \in BOOLEAN /\ checks' \in BOOLEAN
  <2>1. IInv'
    BY NestInvariance
  <2>2. image' = image /\ dir' = dir /\ checks' = checks
    BY InputsKept, InputsSame
  <2>3. IsImage(image')
    BY <1>1, <2>2
  <2>4. IsImage(image)' <=> IsImage(image')
    OBVIOUS
  <2> QED
    BY <1>1, <2>1, <2>2, <2>3, <2>4 DEF IInv
<1>3. i' \in Nat
  <2>1. CASE ScanVolume
    <3>1. IsBuffer(image[1])
      BY <1>1, BufsAssumption DEF IsImage
    <3>2. Unscanned \subseteq Nat /\ Unscanned # {}
      BY <2>1, <3>1 DEF ScanVolume, Scanning, Unscanned, IsBuffer
    <3>3. First(Unscanned) \in Nat
      BY <3>2, FirstIsLeast
    <3> QED
      BY <2>1, <3>3 DEF ScanVolume
  <2>2. CASE ~ScanVolume
    <3>1. i' = i
      BY <2>2
      DEF Next, vars, FinishScan, ScanPanic, VisitFile, FilePanic,
          EndVolume, EndSections, CountModule, CountName, NamePanic,
          SkipSection, EnterSection, Decompress, DecompressPanic,
          DecompressFails, NestedVolume, NestedPanic, ScanVolumePanic,
          SaveRom, SaveFails, Return, Panics
    <3> QED
      BY <1>1, <3>1
  <2> QED
    BY <2>1, <2>2
<1>4. volumes' \in Seq(Records)
  <2>1. CASE EndVolume
    <3>1. Volume1 \in Records /\ volumes' = Append(volumes, Volume1)
      BY <2>1, VolumeRecorded DEF ScanInv
    <3> QED
      BY <1>1, <3>1, Appended
  <2>2. CASE ~EndVolume
    <3>1. volumes' = volumes
      BY <2>2
      DEF Next, vars, found, ScanVolume, FinishScan, ScanPanic, VisitFile,
          FilePanic, EndSections, CountModule, CountName, NamePanic,
          SkipSection, EnterSection, Decompress, DecompressPanic,
          DecompressFails, NestedVolume, NestedPanic, ScanVolumePanic,
          SaveRom, SaveFails, Return, Panics
    <3> QED
      BY <1>1, <3>1
  <2> QED
    BY <2>1, <2>2
<1>5. visits' \in Seq(Bufs \X Nat)
  <2>1. CASE VisitFile
    <3>1. Top.buf \in Bufs /\ Top.pos \in Nat
      BY <2>1, FileFollows, FileBounds DEF VisitFile
    <3>2. visits' \in {visits, Append(visits, <<Top.buf, Top.pos>>)}
      BY <2>1 DEF VisitFile
    <3>3. PICK e \in Bufs \X Nat : e = <<Top.buf, Top.pos>>
      BY <3>1
    <3>4. Append(visits, e) \in Seq(Bufs \X Nat)
      BY <1>1, Appended, Zenon
    <3> QED
      BY <1>1, <3>2, <3>3, <3>4
  <2>2. CASE ~VisitFile
    <3>1. visits' = visits
      BY <2>2
      DEF Next, vars, found, ScanVolume, FinishScan, ScanPanic, EndVolume,
          FilePanic, EndSections, CountModule, CountName, NamePanic,
          SkipSection, EnterSection, Decompress, DecompressPanic,
          DecompressFails, NestedVolume, NestedPanic, ScanVolumePanic,
          SaveRom, SaveFails, Return, Panics
    <3> QED
      BY <1>1, <3>1
  <2> QED
    BY <2>1, <2>2
<1>6. ASSUME NEW b \in Bufs
      PROVE  /\ Scanned(image[b], roms) \in Seq(Roms)
             /\ image[b].vendor \in Markers \cup {None}
  <2>1. IsBuffer(image[b])
    BY <1>1 DEF IsImage
  <2> QED
    BY <1>1, <2>1, ScanKeeps DEF IsBuffer
<1>7. /\ opened' \in Seq(Bufs) /\ vendor' \in Markers \cup {None}
      /\ roms' \in Seq(Roms)
  <2>1. CASE Decompress
    <3>1. InSections /\ AtSection /\ Section.out # None
      BY <2>1 DEF Decompress, Packed, Type
    <3>2. Section.out \in Bufs
      BY <3>1, TopFrame DEF InSections, AtSection, Section
    <3>3. /\ opened' = Append(opened, Section.out)
          /\ roms' = Scanned(image[Section.out], roms)
          /\ vendor' \in {vendor, image[Section.out].vendor}
      BY <2>1 DEF Decompress, Decompressed
    <3> QED
      BY <1>1, <1>6, <3>2, <3>3, Appended
  <2>2. CASE FinishScan
    <3>1. /\ opened' = opened /\ roms' = Scanned(image[1], roms)
          /\ vendor' \in {vendor, image[1].vendor}
      BY <2>2 DEF FinishScan
    <3> QED
      BY <1>1, <1>6, <3>1, BufsAssumption
  <2>3. CASE ~Decompress /\ ~FinishScan
    <3>1. opened' = opened /\ vendor' = vendor /\ roms' = roms
      BY <2>3
      DEF Next, vars, found, ScanVolume, VisitFile, ScanPanic, EndVolume,
          FilePanic, EndSections, CountModule, CountName, NamePanic,
          SkipSection, EnterSection, DecompressPanic,
          DecompressFails, NestedVolume, NestedPanic, ScanVolumePanic,
          SaveRom, SaveFails, Return, Panics
    <3> QED
      BY <1>1, <3>1
  <2> QED
    BY <2>1, <2>2, <2>3
<1>8. leaves' \in [modules : Nat, names : Nat, undecoded : Nat]
  <2>1. \/ leaves' = leaves
        \/ leaves' = [leaves EXCEPT !.modules = @ + 1]
        \/ leaves' = [leaves EXCEPT !.names = @ + 1]
        \/ leaves' = [leaves EXCEPT !.undecoded = @ + 1]
    BY DEF Next, vars, found, ScanVolume, VisitFile, ScanPanic, EndVolume,
          FilePanic, EndSections, CountModule, CountName, NamePanic, FinishScan,
          SkipSection, EnterSection, DecompressPanic, Decompress,
          DecompressFails, NestedVolume, NestedPanic, ScanVolumePanic,
          SaveRom, SaveFails, Return, Panics
  <2>2. /\ leaves.modules + 1 \in Nat /\ leaves.names + 1 \in Nat
        /\ leaves.undecoded + 1 \in Nat
    BY <1>1
  <2>3. \A m \in Nat :
          /\ [leaves EXCEPT !.modules = m]
               \in [modules : Nat, names : Nat, undecoded : Nat]
          /\ [leaves EXCEPT !.names = m]
               \in [modules : Nat, names : Nat, undecoded : Nat]
          /\ [leaves EXCEPT !.undecoded = m]
               \in [modules : Nat, names : Nat, undecoded : Nat]
    BY <1>1
  <2> QED
    BY <1>1, <2>1, <2>2, <2>3
<1>9. /\ outcome' \in Outcomes \cup {None}
      /\ pc' \in {"walk", "extract", "stop"}
  BY <1>1
  DEF Outcomes, Next, vars, found, ScanVolume, VisitFile, ScanPanic, EndVolume,
      FilePanic, EndSections, CountModule, CountName, NamePanic, FinishScan,
      SkipSection, EnterSection, DecompressPanic, Decompress,
      DecompressFails, NestedVolume, NestedPanic, ScanVolumePanic,
      SaveRom, SaveFails, Return, Panics
<1> QED
  BY <1>2, <1>3, <1>4, <1>5, <1>7, <1>8, <1>9 DEF TypeOK, Records

LEMMA ScanInvariance ==
  ASSUME TInv, [Next]_vars
  PROVE  ScanInv'
<1> USE DEF TInv
<1>0. IInv' /\ UNCHANGED inputs /\ image' = image /\ (NoWrap' <=> NoWrap)
  BY NestInvariance, InputsKept, InputsSame
<1>1. CASE Walk
  <2>1. PICK next, calls : Walks(next, calls)
    BY <1>1, WalkShape
  <2> DEFINE l == Len(stack)
  <2>2. /\ l \in Nat \ {0} /\ stack' # <<>> /\ stack # <<>>
        /\ DOMAIN stack = 1 .. l
        /\ \A n \in 1 .. l - 1 : stack'[n] = stack[n]
        /\ stack'[l] = next
        /\ \/ DOMAIN stack' = 1 .. l
           \/ \E call \in Frame :
                /\ Made(call, next)
                /\ DOMAIN stack' = 1 .. l + 1
                /\ stack'[l + 1] = call
    BY <2>1, StackAfter DEF Walks
  <2>3. /\ i' = i /\ volumes' = volumes
        /\ outcome' = outcome /\ pc' = pc /\ Follows(next)
    BY <2>1 DEF Walks
  <2>4. Top = stack[l]
    BY DEF Top
  <2> HIDE DEF l
  <2>5. Begun'
    <3>1. ASSUME NEW n \in 1 .. l, stack'[n].fn = "volume"
          PROVE  /\ stack'[n].lo < WORD
                 /\ NoWrap => stack'[n].lo < stack'[n].end
      <4>1. CASE n = l
        BY <2>2, <2>3, <2>4, <3>1, <4>1 DEF ScanInv, Begun, Follows
      <4>2. CASE n # l
        BY <2>2, <3>1, <4>2 DEF ScanInv, Begun
      <4> QED
        BY <4>1, <4>2
    <3>2. CASE DOMAIN stack' = 1 .. l
      BY <1>0, <3>1, <3>2 DEF Begun
    <3>3. CASE \E call \in Frame :
                /\ Made(call, next)
                /\ DOMAIN stack' = 1 .. l + 1
                /\ stack'[l + 1] = call
      <4> PICK call \in Frame :
                /\ Made(call, next)
                /\ DOMAIN stack' = 1 .. l + 1
                /\ stack'[l + 1] = call
        BY <3>3
      <4>1. \A n \in DOMAIN stack' : n \in 1 .. l \/ n = l + 1
        BY <2>2
      <4>2. call.fn = "volume" =>
              call.lo < WORD /\ (NoWrap => call.lo < call.end)
        BY DEF Made
      <4> QED
        BY <1>0, <3>1, <4>1, <4>2 DEF Begun
    <3> QED
      BY <2>2, <3>2, <3>3
  <2>6. /\ stack'[1].fn = stack[1].fn /\ stack'[1].buf = stack[1].buf
        /\ stack'[1].lo = stack[1].lo /\ stack'[1].end = stack[1].end
    <3>1. CASE l = 1
      BY <2>2, <2>3, <2>4, <3>1 DEF Follows
    <3>2. CASE l # 1
      BY <2>2, <3>2
    <3> QED
      BY <3>1, <3>2
  <2>7. Bottom'
    BY <2>2, <2>3, <2>6 DEF ScanInv, Bottom
  <2>8. Passed'
    BY <1>0, <2>2, <2>3, <2>6 DEF ScanInv, Passed, Accepted, Walked, Spans
  <2>9. Ended'
    BY <1>0, <2>2, <2>3 DEF ScanInv, Ended
  <2> QED
    BY <2>5, <2>7, <2>8, <2>9 DEF ScanInv
<1>2. CASE EndVolume \/ EndSections
  <2> DEFINE l == Len(stack)
  <2>1. /\ stack # <<>> /\ stack' = Below /\ image' = image /\ i' = i
        /\ outcome' = outcome /\ pc' = pc
    BY <1>0, <1>2 DEF EndVolume, EndSections, InVolume, InSections
  <2>2. /\ l \in Nat \ {0} /\ DOMAIN stack = 1 .. l /\ Top = stack[l]
        /\ DOMAIN stack' = 1 .. l - 1
        /\ \A n \in 1 .. l - 1 : stack'[n] = stack[n]
        /\ (stack' # <<>> => l > 1)
    <3>1. l \in Nat \ {0} /\ DOMAIN stack = 1 .. l /\ Top = stack[l]
      BY <2>1, TopFrame DEF IInv, Top
    <3>2. /\ Below \in Seq(Frame) /\ Len(Below) = l - 1
          /\ \A n \in 1 .. l - 1 : Below[n] = stack[n]
      BY <2>1, BelowTop
    <3>3. DOMAIN Below = 1 .. l - 1 /\ (Below # <<>> => l - 1 # 0)
      BY <3>1, <3>2, EmptySeq
    <3> QED
      BY <2>1, <3>1, <3>2, <3>3
  <2>3. volumes' = volumes \/ (Top.fn = "volume" /\ volumes' = Append(volumes, Volume1))
    BY <1>2 DEF EndVolume, EndSections, found, InVolume, Volume1
  <2> HIDE DEF l
  <2>4. Begun'
    BY <1>0, <2>2 DEF ScanInv, Begun
  <2>5. stack' # <<>> => 1 \in 1 .. l - 1 /\ stack'[1] = stack[1]
    BY <2>2
  <2>6. Bottom'
    BY <2>1, <2>5 DEF ScanInv, Bottom
  <2>7. Ended'
    BY <2>1 DEF ScanInv, Ended
  <2>8. ASSUME NEW n \in DOMAIN volumes
        PROVE  n \in DOMAIN volumes' /\ volumes'[n] = volumes[n]
    <3>1. volumes \in Seq(Records)
      BY DEF TypeOK, Records
    <3>2. CASE volumes' = volumes
      BY <3>2
    <3>3. CASE EndVolume
      <4>1. Volume1 \in Records /\ volumes' = Append(volumes, Volume1)
        BY <3>3, VolumeRecorded DEF ScanInv
      <4> QED
        BY <3>1, <4>1, Appended
    <3> QED
      BY <1>2, <3>2, <3>3 DEF EndSections, found
  <2>9. ASSUME NEW fv \in DOMAIN image[1].vol, fv < i, Accepted(image[1], fv)
        PROVE  \/ \E n \in DOMAIN volumes' : volumes'[n].buf # 1
               \/ Walked(1, fv)'
               \/ stack' # <<>> /\ Spans(stack'[1], fv)
    <3>1. CASE \E n \in DOMAIN volumes : volumes[n].buf # 1
      BY <2>8, <3>1
    <3>2. CASE Walked(1, fv)
      BY <2>8, <3>2 DEF Walked
    <3>3. CASE Spans(stack[1], fv) /\ stack' # <<>>
      BY <2>5, <3>3
    <3>4. CASE Spans(stack[1], fv) /\ stack' = <<>>
      <4>1. l = 1
        <5>1. Len(Below) = l - 1 /\ Below = <<>>
          BY <2>1, <3>4, BelowTop DEF l
        <5> QED
          BY <2>2, <5>1
      <4>2. Top = stack[1] /\ Top.fn = "volume" /\ Top.buf = 1
        BY <2>1, <2>2, <4>1 DEF ScanInv, Bottom
      <4>3. EndVolume
        BY <1>2, <4>2 DEF EndSections, InSections
      <4>4. Volume1 \in Records /\ volumes' = Append(volumes, Volume1)
        BY <4>3, VolumeRecorded DEF ScanInv
      <4>5. volumes \in Seq(Records)
        BY DEF TypeOK, Records
      <4>6. PICK n \in DOMAIN volumes' : volumes'[n] = Volume1
        <5>1. /\ Len(volumes) \in Nat
              /\ DOMAIN Append(volumes, Volume1) = 1 .. Len(volumes) + 1
              /\ Append(volumes, Volume1)[Len(volumes) + 1] = Volume1
          BY <4>4, <4>5, Appended
        <5> QED
          BY <4>4, <5>1
      <4>7. /\ Volume1.buf = 1 /\ Volume1.offset = Top.lo
            /\ Plus(Volume1.offset, Volume1.length) = Top.end
        BY <4>2, <4>3, VolumeRecorded DEF ScanInv, Volume1
      <4>8. /\ Volume1.offset <= fv
            /\ \/ fv = Volume1.offset
               \/ fv < Plus(Volume1.offset, Volume1.length)
        BY <3>4, <4>2, <4>7 DEF Spans
      <4> QED
        BY <4>6, <4>7, <4>8 DEF Walked
    <3> QED
      BY <2>9, <3>1, <3>2, <3>3, <3>4 DEF ScanInv, Passed
  <2>10. Passed'
    BY <2>1, <2>9 DEF Passed, Accepted, Spans
  <2> QED
    BY <2>4, <2>6, <2>7, <2>10 DEF ScanInv
<1>3. CASE ScanVolume
  <2> DEFINE fv == First(Unscanned)
  <2>1. /\ image' = image /\ volumes' = volumes /\ outcome' = outcome
        /\ pc' = pc /\ stack = <<>> /\ i' = fv + 1 /\ Unscanned # {} /\ pc = "walk"
        /\ stack' = IF Covered(fv) THEN <<>> ELSE Volume(1, fv)
    BY <1>0, <1>3 DEF ScanVolume, Scanning, found
  <2>2. IsBuffer(image[1]) /\ i \in Nat
    BY BufsAssumption DEF TypeOK, IsImage
  <2>3. DOMAIN image[1].vol \subseteq Nat /\ image[1].len \in Nat
    BY <2>2, BufferLength DEF IsBuffer
  <2>4. /\ fv \in DOMAIN image[1].vol /\ fv \in Nat /\ i <= fv
        /\ \A x \in Unscanned : fv <= x
    <3>1. Unscanned \subseteq Nat
      BY <2>3 DEF Unscanned
    <3>2. fv \in Unscanned /\ \A x \in Unscanned : fv <= x
      BY <2>1, <3>1, FirstIsLeast
    <3> QED
      BY <2>3, <3>2 DEF Unscanned
  <2> HIDE DEF fv
  <2>5. \/ Volume(1, fv) = <<>> /\ ~Accepted(image[1], fv)
        \/ \E call \in Frame :
             /\ Volume(1, fv) = <<call>> /\ call.fn = "volume"
             /\ call.buf = 1 /\ call.lo = fv /\ call.lo < WORD
             /\ NoWrap /\ ~Covered(fv) => call.lo < call.end
    <3>1. ~Covered(fv) => (checks => ~VolumeOverflows(image[1], fv))
      BY <1>3 DEF ScanVolume, VolumePanics, fv
    <3> QED
      BY <2>2, <2>4, <3>1, VolumeFrame, BufsAssumption
  <2>6. \/ stack' = <<>> /\ (Covered(fv) \/ ~Accepted(image[1], fv))
        \/ \E call \in Frame :
             /\ stack' = <<call>> /\ call.fn = "volume"
             /\ call.buf = 1 /\ call.lo = fv /\ call.lo < WORD
             /\ NoWrap => call.lo < call.end
    BY <2>1, <2>5
  <2>7. ASSUME NEW call \in Frame, stack' = <<call>>
        PROVE  DOMAIN stack' = {1} /\ stack'[1] = call /\ stack' # <<>>
    BY <2>7
  <2>8. Begun' /\ Bottom'
    <3>1. CASE stack' = <<>>
      BY <3>1 DEF Begun, Bottom
    <3>2. CASE stack' # <<>>
      <4>1. PICK call \in Frame :
             /\ stack' = <<call>> /\ call.fn = "volume"
             /\ call.buf = 1 /\ call.lo = fv /\ call.lo < WORD
             /\ NoWrap => call.lo < call.end
        BY <2>6, <3>2
      <4>2. DOMAIN stack' = {1} /\ stack'[1] = call
        BY <2>7, <4>1
      <4>3. fv < i'
        BY <2>1, <2>4
      <4> QED
        BY <1>0, <4>1, <4>2, <4>3 DEF Begun, Bottom
    <3> QED
      BY <3>1, <3>2
  <2>9. Ended'
    BY <2>1 DEF ScanInv, Ended
  <2>10. ASSUME NEW x \in DOMAIN image[1].vol, x < i', Accepted(image[1], x)
         PROVE  \/ \E n \in DOMAIN volumes : volumes[n].buf # 1
                \/ Walked(1, x)
                \/ stack' # <<>> /\ Spans(stack'[1], x)
    <3>1. x \in Nat /\ x + 44 <= image[1].len
      BY <2>3, <2>10 DEF Accepted
    <3>2. CASE x < i
      BY <2>1, <2>10, <3>2 DEF ScanInv, Passed
    <3>3. CASE ~(x < i)
      <4>1. x \in Unscanned
        BY <2>2, <2>10, <3>1, <3>3 DEF Unscanned
      <4>2. x = fv
        BY <2>1, <2>4, <2>10, <3>1, <4>1
      <4>3. CASE Covered(fv)
        BY <4>2, <4>3 DEF Covered, Walked
      <4>4. CASE ~Covered(fv)
        <5>1. PICK call \in Frame :
             /\ stack' = <<call>> /\ call.fn = "volume"
             /\ call.buf = 1 /\ call.lo = fv /\ call.lo < WORD
             /\ NoWrap => call.lo < call.end
          BY <2>6, <2>10, <4>2, <4>4
        <5>2. stack'[1] = call /\ stack' # <<>>
          BY <2>7, <5>1
        <5> QED
          BY <2>4, <4>2, <5>1, <5>2 DEF Spans
      <4> QED
        BY <4>3, <4>4
    <3> QED
      BY <3>2, <3>3
  <2>11. Passed'
    BY <2>1, <2>10 DEF Passed, Accepted, Walked, Spans
  <2> QED
    BY <2>8, <2>9, <2>11 DEF ScanInv
<1>4. CASE \/ FinishScan \/ ScanPanic \/ FilePanic \/ NamePanic
           \/ DecompressPanic \/ ScanVolumePanic \/ NestedPanic
           \/ SaveRom \/ SaveFails \/ Return \/ UNCHANGED vars
  <2>1. image' = image /\ stack' = stack /\ i' = i /\ volumes' = volumes
    BY <1>0, <1>4
    DEF FinishScan, ScanPanic, FilePanic, NamePanic, DecompressPanic,
        ScanVolumePanic, NestedPanic, Panics, SaveRom, SaveFails, Return, vars,
        found
  <2>2. Begun' /\ Bottom' /\ Passed'
    BY <1>0, <2>1 DEF ScanInv, Begun, Bottom, Passed, Accepted, Walked, Spans
  <2>3. (pc' = "extract" \/ outcome' = "ok") =>
          pc = "extract" \/ outcome = "ok" \/ (stack = <<>> /\ Unscanned = {})
    <3>1. CASE FinishScan
      BY <3>1 DEF FinishScan
    <3>2. CASE SaveRom \/ SaveFails \/ Return
      BY <3>2 DEF SaveRom, SaveFails, Return
    <3>3. CASE \/ ScanPanic \/ FilePanic \/ NamePanic \/ DecompressPanic
               \/ ScanVolumePanic \/ NestedPanic \/ UNCHANGED vars
      <4>1. (pc' = "stop" /\ outcome' = "panic")
              \/ (pc' = pc /\ outcome' = outcome)
        BY <3>3
        DEF ScanPanic, FilePanic, NamePanic, DecompressPanic, ScanVolumePanic,
            NestedPanic, Panics, vars
      <4> QED
        BY <4>1
    <3> QED
      BY <1>4, <3>1, <3>2, <3>3
  <2>4. Ended'
    BY <2>1, <2>3 DEF ScanInv, Ended, Unscanned
  <2> QED
    BY <2>2, <2>4 DEF ScanInv
<1> QED
  BY <1>1, <1>2, <1>3, <1>4 DEF Next, Walk

LEMMA TypeInit == Init => TInv
<1> SUFFICES ASSUME Init PROVE TInv
  OBVIOUS
<1>1. IInv
  BY DEF Init, IInv, CallsNest
<1>2. TypeOK
  <2>1. IsImage(image)
    BY ImagesAssumption DEF Init
  <2> QED
    BY <2>1 DEF Init, TypeOK
<1>3. ScanInv
  <2>1. \A fv \in DOMAIN image[1].vol : ~(fv < i)
    <3>1. IsBuffer(image[1])
      BY <1>2, BufsAssumption DEF TypeOK, IsImage
    <3> QED
      BY <3>1 DEF IsBuffer, Init
  <2>2. Passed
    BY <2>1 DEF Passed
  <2> QED
    BY <2>2, NoneAssumption DEF Init, ScanInv, Begun, Bottom, Ended, Outcomes
<1> QED
  BY <1>1, <1>2, <1>3 DEF TInv

LEMMA TInvariance ==
  ASSUME TInv, [Next]_vars
  PROVE  TInv'
BY NestInvariance, TypeInvariance, ScanInvariance DEF TInv

\* The state of the walk has its types: the calls on the stack have positions
\* in a buffer of the image and depths up to MAX_DEPTH, and what is found is
\* found in a buffer; the list of ROMs holds nothing but ROMs.
THEOREM TypeCorrect == Spec => []TypeOK
<1>1. TInv => TypeOK
  BY DEF TInv
<1> QED
  BY <1>1, TypeInit, TInvariance, PTL DEF Spec
-----------------------------------------------------------------------------
\* What is seen once is not read again.
LEMMA SeenTypes ==
  ASSUME TypeOK
  PROVE  \A x \in Seen : x[1] \in Bufs /\ x[1] \in Nat \ {0} /\ x[2] \in Nat
<1>1. ASSUME NEW x \in ToSet(visits) PROVE x[1] \in Bufs /\ x[2] \in Nat
  <2>1. PICK n \in DOMAIN visits : x = visits[n]
    BY DEF ToSet
  <2>2. visits[n] \in Bufs \X Nat
    BY DEF TypeOK
  <2> QED
    BY <2>1, <2>2
<1>2. ASSUME NEW x \in Recorded PROVE x[1] \in Bufs /\ x[2] \in Nat
  <2>1. PICK n \in DOMAIN volumes : x = <<volumes[n].buf, volumes[n].offset>>
    BY DEF Recorded
  <2>2. volumes \in Seq(Records)
    BY DEF TypeOK, Records
  <2>3. volumes[n] \in Records
    BY <2>2
  <2> QED
    BY <2>1, <2>3 DEF Records
<1>3. ASSUME NEW x \in Expanded PROVE x[1] \in Bufs /\ x[2] \in Nat
  <2>1. PICK b \in Bufs : \E p \in DOMAIN image[b].sec : x = <<b, p>>
    BY DEF Expanded
  <2>2. DOMAIN image[b].sec \subseteq Nat
    BY DEF TypeOK, IsImage, IsBuffer
  <2> QED
    BY <2>1, <2>2
<1> QED
  BY <1>1, <1>2, <1>3, BufsAssumption DEF Seen

LEMMA FrameTypes ==
  ASSUME IInv
  PROVE  \A n \in DOMAIN stack :
           /\ stack[n] \in Frame /\ stack[n].buf \in Bufs
           /\ stack[n].buf \in Nat \ {0}
           /\ stack[n].lo \in Nat /\ stack[n].pos \in Nat /\ stack[n].end \in Nat
           /\ NoWrap => stack[n].lo <= stack[n].pos
<1> SUFFICES ASSUME NEW n \in DOMAIN stack
             PROVE  /\ stack[n] \in Frame /\ stack[n].buf \in Bufs
                    /\ stack[n].buf \in Nat \ {0}
                    /\ stack[n].lo \in Nat /\ stack[n].pos \in Nat
                    /\ stack[n].end \in Nat
                    /\ NoWrap => stack[n].lo <= stack[n].pos
  OBVIOUS
<1>1. stack[n] \in Frame /\ Inside(stack[n])
  BY DEF IInv, CallsNest
<1> QED
  BY <1>1, BufsAssumption DEF Frame, Inside, Onward

LEMMA ExpandedGrows ==
  ASSUME TInv, InSections, AtSection, Section.out # None, image' = image,
         opened' = Append(opened, Section.out)
  PROVE  /\ Expanded' = Expanded \cup {<<Top.buf, Top.pos>>}
         /\ ToSet(opened') = ToSet(opened) \cup {Section.out}
<1>1. /\ Top.buf \in Bufs /\ Top.pos \in DOMAIN image[Top.buf].sec
      /\ Section = image[Top.buf].sec[Top.pos]
  BY AtSectionType DEF TInv, AtSection, Section, Buf
<1>2. Section.out \in Bufs
  BY TopFrame DEF TInv, InSections, AtSection, Section
<1>3. ToSet(opened') = ToSet(opened) \cup {Section.out}
  BY <1>2, Appended DEF TInv, TypeOK
<1>4. \A b \in Bufs : \A q \in DOMAIN image[b].sec :
        image[b].sec[q].out = Section.out => b = Top.buf /\ q = Top.pos
  BY <1>1 DEF TInv, TypeOK, IsImage
<1>5. Expanded' =
        UNION {{<<b, p>> : p \in {q \in DOMAIN image[b].sec :
          image[b].sec[q].out \in ToSet(opened) \cup {Section.out}}} : b \in Bufs}
  BY <1>3 DEF Expanded
<1>6. \A x : x \in Expanded' <=>
        \E b \in Bufs : \E q \in DOMAIN image[b].sec :
          /\ x = <<b, q>>
          /\ image[b].sec[q].out \in ToSet(opened) \cup {Section.out}
  BY <1>5
<1>7. \A x : x \in Expanded <=>
        \E b \in Bufs : \E q \in DOMAIN image[b].sec :
          x = <<b, q>> /\ image[b].sec[q].out \in ToSet(opened)
  BY DEF Expanded
<1>8. <<Top.buf, Top.pos>> \in Expanded'
  BY <1>1, <1>6
<1>9. Expanded' \subseteq Expanded \cup {<<Top.buf, Top.pos>>}
  BY <1>4, <1>6, <1>7
<1>10. Expanded \subseteq Expanded'
  BY <1>6, <1>7
<1> QED
  BY <1>3, <1>8, <1>9, <1>10

LEMMA WalkSees ==
  ASSUME TInv, NEW next, NEW calls, Walks(next, calls)
  PROVE  /\ Seen' \subseteq Seen \cup {<<Top.buf, Top.pos>>}
         /\ (visits' = visits /\ opened' = opened) => Seen' = Seen
         /\ ToSet(opened) \subseteq ToSet(opened')
         /\ Recorded' = Recorded
<1>1. image' = image /\ volumes' = volumes /\ stack # <<>>
  BY InputsSame DEF Walks
<1>2. Recorded' = Recorded
  BY <1>1 DEF Recorded
<1>3. ToSet(visits') \subseteq ToSet(visits) \cup {<<Top.buf, Top.pos>>}
  <2>1. CASE visits' = visits
    BY <2>1
  <2>2. CASE visits' = Append(visits, <<Top.buf, Top.pos>>)
    <3>1. Top.buf \in Bufs /\ Top.pos \in Nat
      BY <1>1, TopFrame DEF TInv, Frame
    <3>2. PICK e \in Bufs \X Nat : e = <<Top.buf, Top.pos>>
      BY <3>1
    <3>3. visits \in Seq(Bufs \X Nat)
      BY DEF TInv, TypeOK
    <3>4. ToSet(Append(visits, e)) = ToSet(visits) \cup {e}
      BY <3>3, Appended
    <3> QED
      BY <2>2, <3>2, <3>4
  <2> QED
    BY <2>1, <2>2 DEF Walks
<1>4. /\ Expanded' \subseteq Expanded \cup {<<Top.buf, Top.pos>>}
      /\ opened' = opened => Expanded' = Expanded
      /\ ToSet(opened) \subseteq ToSet(opened')
  <2>1. CASE opened' = opened
    BY <1>1, <2>1 DEF Expanded
  <2>2. CASE /\ InSections /\ AtSection /\ Section.out # None
             /\ opened' = Append(opened, Section.out)
    <3>1. /\ Expanded' = Expanded \cup {<<Top.buf, Top.pos>>}
          /\ ToSet(opened') = ToSet(opened) \cup {Section.out}
      BY <1>1, <2>2, ExpandedGrows
    <3>2. opened' # opened
      <4>1. opened \in Seq(Bufs) /\ Section.out \in Bufs
        BY <2>2, TopFrame DEF TInv, TypeOK, InSections, AtSection, Section
      <4>2. Len(Append(opened, Section.out)) = Len(opened) + 1 /\ Len(opened) \in Nat
        BY <4>1
      <4> QED
        BY <2>2, <4>2
    <3> QED
      BY <3>1, <3>2
  <2> QED
    BY <2>1, <2>2 DEF Walks
<1>5. Seen' = ToSet(visits') \cup Recorded' \cup Expanded'
  BY DEF Seen
<1> QED
  BY <1>2, <1>3, <1>4, <1>5 DEF Seen

Unread == Apart /\ Fresh /\ Reached /\ Behind /\ Within /\ Unrecorded

LEMMA TopUnread ==
  ASSUME TInv, Unread, stack # <<>>
  PROVE  /\ \A x \in Seen : ~ToRead(Top, x)
         /\ Top.buf = 1 \/ Top.buf \in ToSet(opened)
         /\ Top.buf = 1 => stack[1].lo <= Top.lo /\ Top.end <= stack[1].end
         /\ \A m \in 1 .. Len(stack) - 1 :
              /\ stack[m].buf <= Top.buf
              /\ stack[m].buf = Top.buf =>
                   /\ Top.end <= stack[m].pos
                   /\ stack[m].lo <= Top.lo
                   /\ Top.fn = "volume" => stack[m].lo < Top.lo
<1>1. Len(stack) \in Nat \ {0} /\ Len(stack) \in DOMAIN stack
      /\ DOMAIN stack = 1 .. Len(stack) /\ Top = stack[Len(stack)]
  BY TopFrame DEF TInv, IInv, Top
<1>2. \A m \in 1 .. Len(stack) - 1 : m \in DOMAIN stack /\ m < Len(stack)
  BY <1>1
<1> QED
  BY <1>1, <1>2 DEF Unread, Fresh, Reached, Within, Apart

\* The call that a step makes will read what the one that makes it would have
\* read, or a buffer that nothing is known of.
LEMMA CallUnread ==
  ASSUME TInv, Contained, Unread, NEW next, NEW calls, Walks(next, calls),
         NEW call \in Frame, Made(call, next)
  PROVE  /\ \A x \in Seen' : ~ToRead(call, x)
         /\ call.buf = 1 \/ call.buf \in ToSet(opened')
         /\ call.buf = Top.buf =>
              call.end <= Top.end /\ Top.pos <= call.lo /\ call.end <= next.pos
         /\ call.buf >= Top.buf
         /\ call.fn = "volume" =>
              call.buf = Top.buf /\ <<call.buf, call.lo>> \notin Recorded
<1>0. stack # <<>> /\ Follows(next) /\ NoWrap
  BY DEF Walks, Contained
<1>1. /\ Top \in Frame /\ Top.buf \in Bufs /\ Top.buf \in Nat \ {0}
      /\ Top.pos \in Nat /\ Top.end \in Nat /\ Top.lo \in Nat
      /\ Top.lo <= Top.pos
  BY <1>0, TopFrame, BufsAssumption DEF TInv, Frame, Inside, Onward
<1>2. /\ call.buf \in Bufs /\ call.buf \in Nat \ {0} /\ call.lo \in Nat
      /\ call.pos \in Nat /\ call.end \in Nat /\ call.lo <= call.pos
  BY BufsAssumption DEF Frame, Made
<1>3. \A x \in Seen : x[1] \in Nat \ {0} /\ x[2] \in Nat
  BY SeenTypes DEF TInv
<1>4. Seen' \subseteq Seen \cup {<<Top.buf, Top.pos>>}
      /\ ((visits' = visits /\ opened' = opened) => Seen' = Seen)
      /\ ToSet(opened) \subseteq ToSet(opened')
  BY WalkSees
<1>5. Top.pos < Top.end
  BY <1>0 DEF Follows
<1>6. /\ \A x \in Seen : ~ToRead(Top, x)
      /\ Top.buf = 1 \/ Top.buf \in ToSet(opened)
  BY <1>0, TopUnread
<1>7. CASE /\ call.buf = Top.buf /\ Top.pos <= call.lo
           /\ opened' = opened /\ (visits' = visits \/ Top.pos < call.lo)
           /\ Contained => call.end <= Top.end /\ call.end <= next.pos
  <2>1. call.end <= Top.end /\ call.end <= next.pos
    BY <1>7
  <2>2. ASSUME NEW x \in Seen' PROVE ~ToRead(call, x)
    <3>1. CASE x \in Seen
      <4>1. ~ToRead(Top, x) /\ x[2] \in Nat
        BY <1>3, <1>6, <3>1
      <4> QED
        BY <1>1, <1>2, <1>7, <2>1, <4>1 DEF ToRead
    <3>2. CASE x \notin Seen
      <4>1. x = <<Top.buf, Top.pos>> /\ Top.pos < call.lo
        BY <1>4, <1>7, <3>2
      <4> QED
        BY <1>1, <1>2, <4>1 DEF ToRead
    <3> QED
      BY <3>1, <3>2
  <2>3. call.fn = "volume" => <<call.buf, call.lo>> \notin Recorded
    <3> SUFFICES ASSUME call.fn = "volume", <<call.buf, call.lo>> \in Recorded
                 PROVE  FALSE
      OBVIOUS
    <3>1. call.lo < Top.end
      BY DEF Made
    <3>2. ToRead(Top, <<call.buf, call.lo>>)
      BY <1>7, <3>1 DEF ToRead
    <3> QED
      BY <1>6, <3>2 DEF Seen
  <2> QED
    BY <1>1, <1>2, <1>4, <1>6, <1>7, <2>1, <2>2, <2>3
<1>8. CASE /\ call.buf > Top.buf /\ call.fn = "sections"
           /\ InSections /\ AtSection /\ call.buf = Section.out
           /\ opened' = Append(opened, Section.out)
  <2>1. /\ Top.pos \in DOMAIN image[Top.buf].sec
        /\ Section = image[Top.buf].sec[Top.pos]
    BY <1>8 DEF AtSection, Section, Buf
  <2>2. Section.out \notin ToSet(opened)
    <3> SUFFICES ASSUME Section.out \in ToSet(opened) PROVE FALSE
      OBVIOUS
    <3>1. <<Top.buf, Top.pos>> \in Expanded
      BY <1>1, <2>1 DEF Expanded
    <3>2. ToRead(Top, <<Top.buf, Top.pos>>)
      BY <1>1, <1>5 DEF ToRead
    <3> QED
      BY <1>6, <3>1, <3>2 DEF Seen
  <2>3. call.buf # 1 /\ call.buf # Top.buf
    BY <1>1, <1>2, <1>8
  <2>4. ASSUME NEW x \in Seen' PROVE ~ToRead(call, x)
    <3>1. CASE x \in Seen
      <4>1. x[1] = 1 \/ x[1] \in ToSet(opened)
        BY <3>1 DEF Unread, Reached
      <4> QED
        BY <1>8, <2>2, <2>3, <4>1 DEF ToRead
    <3>2. CASE x \notin Seen
      <4>1. x = <<Top.buf, Top.pos>>
        BY <1>4, <3>2
      <4> QED
        BY <2>3, <4>1 DEF ToRead
    <3> QED
      BY <3>1, <3>2
  <2>5. call.buf \in ToSet(opened')
    <3>1. opened \in Seq(Bufs)
      BY DEF TInv, TypeOK
    <3>2. ToSet(Append(opened, call.buf)) = ToSet(opened) \cup {call.buf}
      BY <1>2, <3>1, Appended
    <3> QED
      BY <1>8, <3>2
  <2>6. call.fn # "volume"
    BY <1>8
  <2> QED
    BY <1>1, <1>2, <1>8, <2>3, <2>4, <2>5, <2>6
<1> QED
  BY <1>7, <1>8 DEF Made

\* A step of the walk that goes on, and perhaps makes a call.
LEMMA WalkUnread ==
  ASSUME TInv, Contained, Unread, Once, NEW next, NEW calls, Walks(next, calls)
  PROVE  Unread' /\ Once'
<1> DEFINE l == Len(stack)
<1>0. NoWrap
  BY DEF Contained
<1>1. /\ l \in Nat \ {0} /\ stack' # <<>> /\ stack # <<>>
      /\ DOMAIN stack = 1 .. l
      /\ \A n \in 1 .. l - 1 : stack'[n] = stack[n]
      /\ stack'[l] = next
      /\ \/ DOMAIN stack' = 1 .. l
         \/ \E call \in Frame :
              /\ Made(call, next)
              /\ DOMAIN stack' = 1 .. l + 1
              /\ stack'[l + 1] = call
  BY StackAfter DEF TInv, Walks
<1>2. /\ image' = image /\ i' = i /\ volumes' = volumes /\ Follows(next)
  BY InputsSame DEF Walks
<1>3. /\ Top = stack[l]
      /\ next \in Frame /\ next.fn = Top.fn /\ next.buf = Top.buf
      /\ next.lo = Top.lo /\ next.end = Top.end
      /\ Top.pos < next.pos /\ Top.pos < Top.end
  BY <1>0, <1>2 DEF Follows, Top, Onward
<1>4. /\ \A x \in Seen : ~ToRead(Top, x)
      /\ Top.buf = 1 \/ Top.buf \in ToSet(opened)
      /\ Top.buf = 1 => stack[1].lo <= Top.lo /\ Top.end <= stack[1].end
      /\ \A m \in 1 .. l - 1 :
           /\ stack[m].buf <= Top.buf
           /\ stack[m].buf = Top.buf =>
                /\ Top.end <= stack[m].pos
                /\ stack[m].lo <= Top.lo
                /\ Top.fn = "volume" => stack[m].lo < Top.lo
  BY <1>1, TopUnread
<1>5. /\ Seen' \subseteq Seen \cup {<<Top.buf, Top.pos>>}
      /\ ToSet(opened) \subseteq ToSet(opened')
      /\ Recorded' = Recorded
  BY WalkSees
<1>6. \A n \in 1 .. l :
        /\ stack[n] \in Frame /\ stack[n].buf \in Nat \ {0}
        /\ stack[n].lo \in Nat /\ stack[n].pos \in Nat /\ stack[n].end \in Nat
        /\ stack[n].lo <= stack[n].pos
  BY <1>0, <1>1, FrameTypes DEF TInv
<1>7. /\ Top.buf \in Nat \ {0} /\ Top.lo \in Nat /\ Top.pos \in Nat
      /\ Top.end \in Nat /\ Top.lo <= Top.pos /\ next.pos \in Nat
  BY <1>1, <1>3, <1>6 DEF Frame
<1>8. \A x \in Seen : x[1] \in Nat \ {0} /\ x[2] \in Nat
  BY SeenTypes DEF TInv
<1>9. ASSUME NEW call \in Frame, Made(call, next)
      PROVE  /\ \A x \in Seen' : ~ToRead(call, x)
             /\ call.buf = 1 \/ call.buf \in ToSet(opened')
             /\ call.buf = Top.buf =>
                  call.end <= Top.end /\ Top.pos <= call.lo /\ call.end <= next.pos
             /\ call.buf >= Top.buf
             /\ call.fn = "volume" =>
                  /\ call.buf = Top.buf /\ <<call.buf, call.lo>> \notin Recorded
                  /\ Top.lo < call.lo
             /\ call.buf \in Nat \ {0} /\ call.lo \in Nat /\ call.end \in Nat
  BY <1>9, CallUnread, BufsAssumption DEF Made, Frame
<1>10. /\ stack'[1].lo = stack[1].lo /\ stack'[1].end = stack[1].end
  <2>1. CASE l = 1
    BY <1>1, <1>3, <2>1
  <2>2. CASE l # 1
    BY <1>1, <2>2
  <2> QED
    BY <2>1, <2>2
<1> HIDE DEF l
<1>11. ASSUME NEW n \in DOMAIN stack'
       PROVE  \/ n \in 1 .. l - 1 /\ stack'[n] = stack[n]
              \/ n = l /\ stack'[n] = next
              \/ /\ n = l + 1
                 /\ \E call \in Frame : Made(call, next) /\ stack'[n] = call
  <2>1. CASE DOMAIN stack' = 1 .. l
    <3>1. n \in 1 .. l - 1 \/ n = l
      BY <1>1, <2>1
    <3> QED
      BY <1>1, <3>1
  <2>2. CASE \E call \in Frame : /\ Made(call, next)
                                 /\ DOMAIN stack' = 1 .. l + 1
                                 /\ stack'[l + 1] = call
    <3>1. n \in 1 .. l - 1 \/ n = l \/ n = l + 1
      BY <1>1, <2>2
    <3> QED
      BY <1>1, <2>2, <3>1
  <2> QED
    BY <1>1, <2>1, <2>2
<1>12. Fresh'
  <2>1. ASSUME NEW n \in DOMAIN stack', NEW x \in Seen'
        PROVE  ~ToRead(stack'[n], x)
    <3>1. CASE n \in 1 .. l - 1 /\ stack'[n] = stack[n]
      <4>1. CASE x \in Seen
        <5>1. n \in DOMAIN stack
          BY <1>1, <3>1
        <5> QED
          BY <3>1, <4>1, <5>1 DEF Unread, Fresh
      <4>2. CASE x \notin Seen
        <5>1. x = <<Top.buf, Top.pos>>
          BY <1>5, <4>2
        <5>2. /\ stack[n].pos \in Nat
              /\ stack[n].buf = Top.buf => Top.end <= stack[n].pos
          BY <1>1, <1>4, <1>6, <3>1
        <5> QED
          BY <1>3, <1>7, <3>1, <5>1, <5>2 DEF ToRead
      <4> QED
        BY <4>1, <4>2
    <3>2. CASE n = l /\ stack'[n] = next
      <4>1. CASE x \in Seen
        <5>1. ~ToRead(Top, x) /\ x[2] \in Nat
          BY <1>4, <1>8, <4>1
        <5> QED
          BY <1>3, <1>7, <3>2, <5>1 DEF ToRead
      <4>2. CASE x \notin Seen
        <5>1. x = <<Top.buf, Top.pos>>
          BY <1>5, <4>2
        <5> QED
          BY <1>3, <1>7, <3>2, <5>1 DEF ToRead
      <4> QED
        BY <4>1, <4>2
    <3>3. CASE \E call \in Frame : Made(call, next) /\ stack'[n] = call
      BY <1>9, <3>3
    <3> QED
      BY <1>11, <3>1, <3>2, <3>3
  <2> QED
    BY <2>1 DEF Fresh, ToRead
<1>13. Apart'
  <2>1. ASSUME NEW m \in DOMAIN stack', NEW n \in DOMAIN stack', m < n
        PROVE  /\ stack'[m].buf <= stack'[n].buf
               /\ stack'[m].buf = stack'[n].buf =>
                    /\ stack'[n].end <= stack'[m].pos
                    /\ stack'[m].lo <= stack'[n].lo
                    /\ stack'[n].fn = "volume" => stack'[m].lo < stack'[n].lo
    <3>1. CASE n \in 1 .. l - 1 /\ stack'[n] = stack[n]
      <4>1. m \in DOMAIN stack /\ n \in DOMAIN stack /\ stack'[m] = stack[m]
        BY <1>1, <1>11, <2>1, <3>1
      <4> QED
        BY <2>1, <3>1, <4>1 DEF Unread, Apart
    <3>2. CASE n = l /\ stack'[n] = next
      <4>1. m \in 1 .. l - 1 /\ stack'[m] = stack[m]
        BY <1>1, <1>11, <2>1, <3>2
      <4> QED
        BY <1>3, <1>4, <3>2, <4>1
    <3>3. CASE n = l + 1 /\ \E call \in Frame : Made(call, next) /\ stack'[n] = call
      <4> PICK call \in Frame : Made(call, next) /\ stack'[n] = call
        BY <3>3
      <4>1. /\ call.buf = Top.buf =>
                  call.end <= Top.end /\ Top.pos <= call.lo /\ call.end <= next.pos
            /\ call.buf >= Top.buf
            /\ call.fn = "volume" => call.buf = Top.buf /\ Top.lo < call.lo
            /\ call.buf \in Nat \ {0} /\ call.lo \in Nat /\ call.end \in Nat
        BY <1>9
      <4>2. CASE m = l /\ stack'[m] = next
        BY <1>3, <1>7, <4>1, <4>2
      <4>3. CASE m \in 1 .. l - 1 /\ stack'[m] = stack[m]
        <5>1. /\ stack[m].buf \in Nat /\ stack[m].lo \in Nat
              /\ stack[m].pos \in Nat
          BY <1>1, <1>6, <4>3
        <5>2. /\ stack[m].buf <= Top.buf
              /\ stack[m].buf = Top.buf =>
                   Top.end <= stack[m].pos /\ stack[m].lo <= Top.lo
          BY <1>4, <4>3
        <5>3. stack[m].buf <= call.buf
          BY <1>7, <4>1, <5>1, <5>2
        <5>4. stack[m].buf = call.buf => call.buf = Top.buf
          BY <1>7, <4>1, <5>1, <5>2
        <5>5. ASSUME stack[m].buf = call.buf
              PROVE  /\ call.end <= stack[m].pos /\ stack[m].lo <= call.lo
                     /\ call.fn = "volume" => stack[m].lo < call.lo
          BY <1>7, <4>1, <5>1, <5>2, <5>4, <5>5
        <5> QED
          BY <4>3, <5>3, <5>5
      <4>4. \/ m = l /\ stack'[m] = next
            \/ m \in 1 .. l - 1 /\ stack'[m] = stack[m]
        BY <1>1, <1>11, <2>1, <3>3
      <4> QED
        BY <4>2, <4>3, <4>4
    <3> QED
      BY <1>11, <3>1, <3>2, <3>3
  <2> QED
    BY <2>1 DEF Apart
<1>14. Reached'
  <2>1. ASSUME NEW x \in Seen' PROVE x[1] = 1 \/ x[1] \in ToSet(opened')
    <3>1. CASE x \in Seen
      BY <1>5, <3>1 DEF Unread, Reached
    <3>2. CASE x \notin Seen
      <4>1. x[1] = Top.buf
        BY <1>5, <3>2
      <4> QED
        BY <1>4, <1>5, <4>1
    <3> QED
      BY <3>1, <3>2
  <2>2. ASSUME NEW n \in DOMAIN stack'
        PROVE  stack'[n].buf = 1 \/ stack'[n].buf \in ToSet(opened')
    <3>1. CASE n \in 1 .. l - 1 /\ stack'[n] = stack[n]
      <4>1. n \in DOMAIN stack
        BY <1>1, <3>1
      <4> QED
        BY <1>5, <3>1, <4>1 DEF Unread, Reached
    <3>2. CASE stack'[n] = next
      BY <1>3, <1>4, <1>5, <3>2
    <3>3. CASE \E call \in Frame : Made(call, next) /\ stack'[n] = call
      BY <1>9, <3>3
    <3> QED
      BY <1>11, <3>1, <3>2, <3>3
  <2> QED
    BY <2>1, <2>2 DEF Reached
<1>15. Behind'
  <2>1. ASSUME NEW x \in Seen', x[1] = 1
        PROVE  \/ \E m \in DOMAIN volumes :
                    /\ volumes[m].buf = 1 /\ volumes[m].offset < i
                    /\ volumes[m].offset <= x[2]
                    /\ x[2] < Plus(volumes[m].offset, volumes[m].length)
               \/ stack'[1].lo <= x[2] /\ x[2] < stack'[1].end
    <3>1. CASE x \in Seen
      BY <1>10, <2>1, <3>1 DEF Unread, Behind
    <3>2. CASE x \notin Seen
      <4>1. x = <<Top.buf, Top.pos>> /\ Top.buf = 1
        BY <1>5, <2>1, <3>2
      <4>2. stack[1].lo <= Top.lo /\ Top.end <= stack[1].end
        BY <1>4, <4>1
      <4>3. stack[1].lo \in Nat /\ stack[1].end \in Nat
        BY <1>1, <1>6
      <4>4. stack[1].lo <= Top.pos /\ Top.pos < stack[1].end
        BY <1>3, <1>7, <4>2, <4>3
      <4> QED
        BY <1>10, <4>1, <4>4
    <3> QED
      BY <3>1, <3>2
  <2> QED
    BY <1>1, <1>2, <2>1 DEF Behind
<1>16. Within'
  <2>1. ASSUME NEW n \in DOMAIN stack', stack'[n].buf = 1
        PROVE  stack[1].lo <= stack'[n].lo /\ stack'[n].end <= stack[1].end
    <3>1. CASE n \in 1 .. l - 1 /\ stack'[n] = stack[n]
      <4>1. n \in DOMAIN stack
        BY <1>1, <3>1
      <4> QED
        BY <2>1, <3>1, <4>1 DEF Unread, Within
    <3>2. CASE stack'[n] = next
      BY <1>3, <1>4, <2>1, <3>2
    <3>3. CASE \E call \in Frame : Made(call, next) /\ stack'[n] = call
      <4> PICK call \in Frame : Made(call, next) /\ stack'[n] = call
        BY <3>3
      <4>1. /\ call.buf = Top.buf => call.end <= Top.end /\ Top.pos <= call.lo
            /\ call.buf >= Top.buf
            /\ call.buf \in Nat \ {0} /\ call.lo \in Nat /\ call.end \in Nat
        BY <1>9
      <4>2. Top.buf = 1
        BY <1>7, <2>1, <4>1
      <4>3. stack[1].lo \in Nat /\ stack[1].end \in Nat
        BY <1>1, <1>6
      <4>4. stack[1].lo <= call.lo /\ call.end <= stack[1].end
        BY <1>4, <1>7, <2>1, <4>1, <4>2, <4>3
      <4> QED
        BY <4>4
    <3> QED
      BY <1>11, <3>1, <3>2, <3>3
  <2> QED
    BY <1>10, <2>1 DEF Within
<1>17. Unrecorded'
  <2>1. ASSUME NEW n \in DOMAIN stack', stack'[n].fn = "volume"
        PROVE  <<stack'[n].buf, stack'[n].lo>> \notin Recorded
    <3>1. CASE n \in 1 .. l - 1 /\ stack'[n] = stack[n]
      <4>1. n \in DOMAIN stack
        BY <1>1, <3>1
      <4> QED
        BY <2>1, <3>1, <4>1 DEF Unread, Unrecorded
    <3>2. CASE stack'[n] = next
      <4>1. l \in DOMAIN stack
        BY <1>1
      <4> QED
        BY <1>3, <2>1, <3>2, <4>1 DEF Unread, Unrecorded
    <3>3. CASE \E call \in Frame : Made(call, next) /\ stack'[n] = call
      BY <1>9, <2>1, <3>3
    <3> QED
      BY <1>11, <3>1, <3>2, <3>3
  <2> QED
    BY <1>5, <2>1 DEF Unrecorded
<1>18. Once'
  <2>1. CASE visits' = visits
    BY <1>2, <2>1 DEF Once
  <2>2. CASE visits' = Append(visits, <<Top.buf, Top.pos>>)
    <3>1. PICK e \in Bufs \X Nat : e = <<Top.buf, Top.pos>>
      <4>1. Top.buf \in Bufs
        BY <1>1, <1>3, <1>6 DEF Frame
      <4> QED
        BY <1>7, <4>1
    <3>2. visits \in Seq(Bufs \X Nat)
      BY DEF TInv, TypeOK
    <3>3. /\ Len(visits) \in Nat /\ DOMAIN visits = 1 .. Len(visits)
          /\ DOMAIN Append(visits, e) = 1 .. Len(visits) + 1
          /\ Append(visits, e)[Len(visits) + 1] = e
          /\ \A n \in 1 .. Len(visits) : Append(visits, e)[n] = visits[n]
      BY <3>2, Appended
    <3>4. e \notin ToSet(visits)
      <4>1. ToRead(Top, e)
        BY <1>3, <1>7, <3>1 DEF ToRead
      <4> QED
        BY <1>4, <4>1 DEF Seen
    <3>5. \A n \in 1 .. Len(visits) : visits[n] # e
      BY <3>3, <3>4 DEF ToSet
    <3>6. visits' = Append(visits, e)
      BY <2>2, <3>1
    <3>7. \A m \in DOMAIN visits' : m \in 1 .. Len(visits) \/ m = Len(visits) + 1
      BY <3>3, <3>6
    <3>8. \A m, n \in DOMAIN visits' : visits'[m] = visits'[n] => m = n
      BY <3>3, <3>5, <3>6, <3>7 DEF Once
    <3> QED
      BY <1>2, <3>8 DEF Once
  <2> QED
    BY <2>1, <2>2 DEF Walks
<1> QED
  BY <1>12, <1>13, <1>14, <1>15, <1>16, <1>17, <1>18 DEF Unread

\* A call returns; that of a volume records it.
LEMMA EndUnread ==
  ASSUME TInv, Contained, Unread, Once, EndVolume \/ EndSections
  PROVE  Unread' /\ Once'
<1> DEFINE l == Len(stack)
           here == <<Top.buf, Top.lo>>
<1>0. NoWrap
  BY DEF Contained
<1>1. /\ stack # <<>> /\ stack' = Below /\ image' = image /\ i' = i
      /\ visits' = visits /\ opened' = opened
  BY DEF EndVolume, EndSections, InVolume, InSections, found, inputs
<1>2. /\ l \in Nat \ {0} /\ DOMAIN stack = 1 .. l /\ Top = stack[l]
      /\ DOMAIN stack' = 1 .. l - 1
      /\ \A n \in 1 .. l - 1 : stack'[n] = stack[n]
      /\ (stack' # <<>> <=> l > 1)
  <2>1. l \in Nat \ {0} /\ DOMAIN stack = 1 .. l /\ Top = stack[l]
    BY <1>1, TopFrame DEF TInv, IInv, Top
  <2>2. /\ Below \in Seq(Frame) /\ Len(Below) = l - 1
        /\ \A n \in 1 .. l - 1 : Below[n] = stack[n]
    BY <1>1, BelowTop DEF TInv
  <2>3. DOMAIN Below = 1 .. l - 1 /\ (Below # <<>> <=> l - 1 # 0)
    BY <2>1, <2>2, EmptySeq
  <2> QED
    BY <1>1, <2>1, <2>2, <2>3
<1>3. /\ \A x \in Seen : ~ToRead(Top, x)
      /\ Top.buf = 1 \/ Top.buf \in ToSet(opened)
      /\ Top.buf = 1 => stack[1].lo <= Top.lo /\ Top.end <= stack[1].end
      /\ \A m \in 1 .. l - 1 :
           /\ stack[m].buf <= Top.buf
           /\ stack[m].buf = Top.buf =>
                /\ Top.end <= stack[m].pos
                /\ stack[m].lo <= Top.lo
                /\ Top.fn = "volume" => stack[m].lo < Top.lo
  BY <1>1, TopUnread
<1>4. \A n \in 1 .. l :
        /\ stack[n] \in Frame /\ stack[n].buf \in Nat \ {0}
        /\ stack[n].lo \in Nat /\ stack[n].pos \in Nat /\ stack[n].end \in Nat
        /\ stack[n].lo <= stack[n].pos
  BY <1>0, <1>2, FrameTypes DEF TInv
<1>5. /\ Top.buf \in Nat \ {0} /\ Top.lo \in Nat /\ Top.pos \in Nat
      /\ Top.end \in Nat /\ Top.lo <= Top.pos
  BY <1>2, <1>4
<1>6. \A x \in Seen : x[1] \in Nat \ {0} /\ x[2] \in Nat
  BY SeenTypes DEF TInv
<1>7. volumes \in Seq(Records)
  BY DEF TInv, TypeOK, Records
<1>8. \/ volumes' = volumes /\ EndSections
      \/ /\ EndVolume /\ Top.fn = "volume" /\ Top.lo < Top.end
         /\ Volume1 \in Records /\ volumes' = Append(volumes, Volume1)
  BY <1>0, VolumeRecorded DEF EndSections, found, TInv, ScanInv
<1>9. \A n \in DOMAIN volumes : n \in DOMAIN volumes' /\ volumes'[n] = volumes[n]
  <2>1. CASE volumes' = volumes
    BY <2>1
  <2>2. CASE Volume1 \in Records /\ volumes' = Append(volumes, Volume1)
    BY <1>7, <2>2, Appended
  <2> QED
    BY <1>8, <2>1, <2>2
<1>10. EndVolume => /\ Len(volumes) \in Nat
                    /\ DOMAIN volumes = 1 .. Len(volumes)
                    /\ DOMAIN volumes' = 1 .. Len(volumes) + 1
                    /\ volumes'[Len(volumes) + 1] = Volume1
  <2>1. EndVolume => Volume1 \in Records /\ volumes' = Append(volumes, Volume1)
    BY VolumeRecorded DEF TInv, ScanInv
  <2> QED
    BY <1>7, <2>1, Appended
<1>11. /\ Volume1.buf = Top.buf /\ Volume1.offset = Top.lo
       /\ EndVolume => Plus(Volume1.offset, Volume1.length) = Top.end
  BY VolumeRecorded DEF Volume1, TInv, ScanInv
<1>12. /\ Recorded' \subseteq Recorded \cup {here}
       /\ EndSections => Recorded' = Recorded
  <2>1. CASE volumes' = volumes
    BY <2>1 DEF Recorded
  <2>2. CASE EndVolume
    <3>1. \A n \in DOMAIN volumes' :
            \/ n \in DOMAIN volumes
            \/ n = Len(volumes) + 1
      BY <1>10, <2>2
    <3>2. \A n \in DOMAIN volumes' :
            \/ n \in DOMAIN volumes /\ volumes'[n] = volumes[n]
            \/ volumes'[n] = Volume1
      BY <1>9, <1>10, <2>2, <3>1
    <3>3. Recorded' \subseteq Recorded \cup {here}
      BY <1>11, <3>2 DEF Recorded
    <3>4. ~EndSections
      BY <2>2 DEF EndVolume, EndSections, InVolume, InSections
    <3> QED
      BY <3>3, <3>4
  <2> QED
    BY <1>8, <2>1, <2>2
<1>13. /\ Seen' \subseteq Seen \cup {here}
       /\ EndSections => Seen' = Seen
  <2>1. Seen' = ToSet(visits) \cup Recorded' \cup Expanded
    BY <1>1 DEF Seen, Expanded
  <2> QED
    BY <1>12, <2>1 DEF Seen
<1>14. EndVolume => Top.fn = "volume" /\ Top.lo < Top.end
  BY <1>0, VolumeRecorded DEF TInv, ScanInv
<1>15. \A x \in Seen' : x \in Seen \/ (x = here /\ EndVolume)
  <2>1. EndVolume \/ EndSections
    OBVIOUS
  <2> HIDE DEF here
  <2> QED
    BY <1>13, <2>1
<1> HIDE DEF l
<1>16. Fresh'
  <2>1. ASSUME NEW n \in 1 .. l - 1, NEW x \in Seen'
        PROVE  ~ToRead(stack[n], x)
    <3>1. CASE x \in Seen
      <4>1. n \in DOMAIN stack
        BY <1>2
      <4> QED
        BY <3>1, <4>1 DEF Unread, Fresh
    <3>2. CASE x = here /\ EndVolume
      <4>1. stack[n].buf = Top.buf => Top.end <= stack[n].pos
        BY <1>3
      <4>2. stack[n].pos \in Nat
        BY <1>2, <1>4
      <4> QED
        BY <1>5, <1>14, <3>2, <4>1, <4>2 DEF ToRead
    <3> QED
      BY <1>15, <3>1, <3>2
  <2> QED
    BY <1>2, <2>1 DEF Fresh, ToRead
<1>17. Apart'
  <2>1. \A n \in 1 .. l - 1 : n \in DOMAIN stack
    BY <1>2
  <2> QED
    BY <1>2, <2>1 DEF Unread, Apart
<1>18. Reached'
  <2>1. \A n \in 1 .. l - 1 : n \in DOMAIN stack
    BY <1>2
  <2>2. \A x \in Seen' : x[1] = 1 \/ x[1] \in ToSet(opened)
    BY <1>3, <1>15 DEF Unread, Reached
  <2>3. \A n \in DOMAIN stack' :
          stack'[n].buf = 1 \/ stack'[n].buf \in ToSet(opened)
    BY <1>2, <2>1 DEF Unread, Reached
  <2> QED
    BY <1>1, <2>2, <2>3 DEF Reached
<1>19. Behind'
  <2>1. ASSUME NEW x \in Seen', x[1] = 1
        PROVE  \/ \E m \in DOMAIN volumes' :
                    /\ volumes'[m].buf = 1 /\ volumes'[m].offset < i
                    /\ volumes'[m].offset <= x[2]
                    /\ x[2] < Plus(volumes'[m].offset, volumes'[m].length)
               \/ stack' # <<>> /\ stack'[1].lo <= x[2] /\ x[2] < stack'[1].end
    <3>1. \/ \E m \in DOMAIN volumes :
                    /\ volumes[m].buf = 1 /\ volumes[m].offset < i
                    /\ volumes[m].offset <= x[2]
                    /\ x[2] < Plus(volumes[m].offset, volumes[m].length)
          \/ stack[1].lo <= x[2] /\ x[2] < stack[1].end
      <4>1. CASE x \in Seen
        BY <2>1, <4>1 DEF Unread, Behind
      <4>2. CASE x = here /\ EndVolume
        <5>1. Top.buf = 1 /\ x[2] = Top.lo
          BY <2>1, <4>2
        <5>2. stack[1].lo <= Top.lo /\ Top.end <= stack[1].end
          BY <1>3, <5>1
        <5>3. stack[1].lo \in Nat /\ stack[1].end \in Nat
          BY <1>2, <1>4
        <5> QED
          BY <1>5, <1>14, <4>2, <5>1, <5>2, <5>3
      <4> QED
        BY <1>15, <4>1, <4>2
    <3>2. CASE \E m \in DOMAIN volumes :
                    /\ volumes[m].buf = 1 /\ volumes[m].offset < i
                    /\ volumes[m].offset <= x[2]
                    /\ x[2] < Plus(volumes[m].offset, volumes[m].length)
      BY <1>9, <3>2
    <3>3. CASE l > 1 /\ stack[1].lo <= x[2] /\ x[2] < stack[1].end
      <4>1. stack' # <<>> /\ stack'[1] = stack[1]
        BY <1>2, <3>3
      <4> QED
        BY <3>3, <4>1
    <3>4. CASE l = 1 /\ stack[1].lo <= x[2] /\ x[2] < stack[1].end
      <4>1. /\ Top = stack[1] /\ Top.fn = "volume" /\ Top.buf = 1 /\ Top.lo < i
        BY <1>1, <1>2, <3>4 DEF TInv, ScanInv, Bottom
      <4>2. EndVolume
        BY <4>1 DEF EndSections, InSections
      <4>3. Len(volumes) + 1 \in DOMAIN volumes'
            /\ volumes'[Len(volumes) + 1] = Volume1
        BY <1>10, <4>2
      <4> QED
        BY <1>11, <3>4, <4>1, <4>2, <4>3
    <3>5. l = 1 \/ l > 1
      BY <1>2
    <3> QED
      BY <3>1, <3>2, <3>3, <3>4, <3>5
  <2> QED
    BY <1>1, <2>1 DEF Behind
<1>20. Within'
  <2>1. ASSUME NEW n \in DOMAIN stack', stack'[n].buf = 1
        PROVE  stack'[1].lo <= stack'[n].lo /\ stack'[n].end <= stack'[1].end
    <3>1. /\ n \in DOMAIN stack /\ stack'[n] = stack[n]
          /\ stack'[1] = stack[1]
      BY <1>2
    <3> QED
      BY <2>1, <3>1 DEF Unread, Within
  <2> QED
    BY <2>1 DEF Within
<1>21. Unrecorded'
  <2>1. ASSUME NEW n \in DOMAIN stack', stack'[n].fn = "volume"
        PROVE  <<stack'[n].buf, stack'[n].lo>> \notin Recorded'
    <3>1. /\ n \in DOMAIN stack /\ stack'[n] = stack[n] /\ n \in 1 .. l - 1
      BY <1>2
    <3>2. <<stack[n].buf, stack[n].lo>> \notin Recorded
      BY <2>1, <3>1 DEF Unread, Unrecorded
    <3>3. EndVolume => <<stack[n].buf, stack[n].lo>> # here
      <4> SUFFICES ASSUME EndVolume, stack[n].buf = Top.buf, stack[n].lo = Top.lo
                   PROVE  FALSE
        OBVIOUS
      <4>1. stack[n].lo < Top.lo
        BY <1>3, <1>14, <3>1
      <4> QED
        BY <1>5, <4>1
    <3>4. CASE EndVolume
      BY <1>12, <3>1, <3>2, <3>3, <3>4
    <3>5. CASE EndSections
      BY <1>12, <3>1, <3>2, <3>5
    <3> QED
      BY <3>4, <3>5
  <2> QED
    BY <2>1 DEF Unrecorded
<1>22. Once'
  <2>1. CASE EndSections
    <3>1. volumes' = volumes
      BY <2>1 DEF EndSections, found
    <3> QED
      BY <1>1, <3>1 DEF Once
  <2>2. CASE EndVolume
    <3>1. ASSUME NEW m \in DOMAIN volumes
          PROVE  ~(volumes[m].buf = Top.buf /\ volumes[m].offset = Top.lo)
      <4>1. <<Top.buf, Top.lo>> \notin Recorded
        <5>1. l \in DOMAIN stack /\ Top.fn = "volume"
          BY <1>2, <1>14, <2>2
        <5> QED
          BY <1>2, <5>1 DEF Unread, Unrecorded
      <4>2. <<volumes[m].buf, volumes[m].offset>> \in Recorded
        BY DEF Recorded
      <4> QED
        BY <4>1, <4>2
    <3>2. \A n \in DOMAIN volumes' : n \in DOMAIN volumes \/ n = Len(volumes) + 1
      BY <1>10, <2>2
    <3>3. \A m, n \in DOMAIN volumes' :
            (volumes'[m].buf = volumes'[n].buf
               /\ volumes'[m].offset = volumes'[n].offset) => m = n
      BY <1>9, <1>10, <1>11, <2>2, <3>1, <3>2 DEF Once
    <3> QED
      BY <1>1, <3>3 DEF Once
  <2> QED
    BY <2>1, <2>2
<1> QED
  BY <1>16, <1>17, <1>18, <1>19, <1>20, <1>21, <1>22 DEF Unread

\* The scan comes to a volume: one that it has not passed a longer one of.
LEMMA ScanUnread ==
  ASSUME TInv, Contained, Unread, Once, ScanVolume
  PROVE  Unread' /\ Once'
<1> DEFINE fv == First(Unscanned)
<1>1. /\ image' = image /\ volumes' = volumes /\ visits' = visits
      /\ opened' = opened /\ stack = <<>> /\ i' = fv + 1 /\ Unscanned # {}
      /\ stack' = IF Covered(fv) THEN <<>> ELSE Volume(1, fv)
  BY DEF ScanVolume, Scanning, found, inputs
<1>2. IsBuffer(image[1]) /\ i \in Nat
  BY BufsAssumption DEF TInv, TypeOK, IsImage
<1>3. DOMAIN image[1].vol \subseteq Nat
  BY <1>2 DEF IsBuffer
<1>4. fv \in DOMAIN image[1].vol /\ fv \in Nat /\ i <= fv
  <2>1. Unscanned \subseteq Nat
    BY <1>3 DEF Unscanned
  <2>2. fv \in Unscanned
    BY <1>1, <2>1, FirstIsLeast
  <2> QED
    BY <1>3, <2>2 DEF Unscanned
<1> HIDE DEF fv
<1>5. \/ stack' = <<>>
      \/ /\ ~Covered(fv)
         /\ \E call \in Frame :
              /\ stack' = <<call>> /\ call.lo <= call.pos /\ call.fn = "volume"
              /\ call.buf = 1 /\ call.lo = fv
  <2>1. \/ Volume(1, fv) = <<>>
        \/ \E call \in Frame :
             /\ Volume(1, fv) = <<call>> /\ call.lo <= call.pos /\ call.fn = "volume"
             /\ call.buf = 1 /\ call.lo = fv
    BY <1>2, <1>4, VolumeFrame, BufsAssumption
  <2> QED
    BY <1>1, <2>1
<1>6. Seen' = Seen /\ Recorded' = Recorded
  BY <1>1 DEF Seen, Recorded, Expanded
<1>7. Once'
  BY <1>1 DEF Once
<1>8. \A x \in Seen : x[1] \in Nat /\ x[2] \in Nat
  BY SeenTypes DEF TInv
<1>9. \A x \in Seen : x[1] = 1 =>
        \E m \in DOMAIN volumes :
          /\ volumes[m].buf = 1 /\ volumes[m].offset < i
          /\ volumes[m].offset <= x[2]
          /\ x[2] < Plus(volumes[m].offset, volumes[m].length)
  BY <1>1 DEF Unread, Behind
<1>10. \A m \in DOMAIN volumes :
         volumes[m].offset \in Nat /\ volumes[m].length \in Nat
  <2>1. volumes \in Seq(Records)
    BY DEF TInv, TypeOK, Records
  <2>2. \A m \in DOMAIN volumes : volumes[m] \in Records
    BY <2>1
  <2> QED
    BY <2>2 DEF Records
<1>11. Behind'
  <2>1. ASSUME NEW x \in Seen, x[1] = 1
        PROVE  \E m \in DOMAIN volumes :
          /\ volumes[m].buf = 1 /\ volumes[m].offset < i'
          /\ volumes[m].offset <= x[2]
          /\ x[2] < Plus(volumes[m].offset, volumes[m].length)
    <3>1. PICK m \in DOMAIN volumes :
          /\ volumes[m].buf = 1 /\ volumes[m].offset < i
          /\ volumes[m].offset <= x[2]
          /\ x[2] < Plus(volumes[m].offset, volumes[m].length)
      BY <1>9, <2>1
    <3>2. volumes[m].offset < i'
      BY <1>1, <1>2, <1>4, <1>10, <3>1
    <3> QED
      BY <3>1, <3>2
  <2> QED
    BY <1>1, <1>6, <2>1 DEF Behind
<1>12. ASSUME ~Covered(fv), NEW x \in Seen, x[1] = 1 PROVE x[2] < fv
  <2>1. PICK m \in DOMAIN volumes :
          /\ volumes[m].buf = 1 /\ volumes[m].offset < i
          /\ volumes[m].offset <= x[2]
          /\ x[2] < Plus(volumes[m].offset, volumes[m].length)
    BY <1>9, <1>12
  <2>2. ~(/\ volumes[m].offset <= fv
          /\ fv < Plus(volumes[m].offset, volumes[m].length))
    BY <1>12 DEF Covered
  <2>3. Plus(volumes[m].offset, volumes[m].length) \in Nat
    BY <1>10, WordsAdded
  <2> QED
    BY <1>2, <1>4, <1>8, <1>10, <2>1, <2>2, <2>3
<1>13. CASE stack' = <<>>
  <2>1. DOMAIN stack' = {}
    BY <1>13
  <2>2. Apart' /\ Fresh' /\ Within' /\ Unrecorded'
    BY <2>1 DEF Apart, Fresh, Within, Unrecorded
  <2>3. Reached'
    BY <1>1, <1>6, <2>1 DEF Unread, Reached
  <2> QED
    BY <1>7, <1>11, <2>2, <2>3 DEF Unread
<1>14. CASE /\ ~Covered(fv)
            /\ \E call \in Frame :
                 /\ stack' = <<call>> /\ call.lo <= call.pos /\ call.fn = "volume"
                 /\ call.buf = 1 /\ call.lo = fv
  <2> PICK call \in Frame :
        /\ stack' = <<call>> /\ call.lo <= call.pos /\ call.fn = "volume"
        /\ call.buf = 1 /\ call.lo = fv
    BY <1>14
  <2>1. DOMAIN stack' = {1} /\ stack'[1] = call
    OBVIOUS
  <2>2. /\ call.lo \in Nat /\ call.pos \in Nat /\ call.end \in Nat
        /\ call.lo <= call.pos
    BY DEF Frame
  <2>3. Apart'
    BY <2>1 DEF Apart
  <2>4. Within'
    BY <2>1, <2>2 DEF Within
  <2>5. \A x \in Seen : ~ToRead(call, x)
    BY <1>4, <1>8, <1>12, <1>14, <2>2 DEF ToRead
  <2>6. Fresh'
    BY <1>6, <2>1, <2>5 DEF Fresh, ToRead
  <2>7. Reached'
    BY <1>1, <1>6, <2>1 DEF Unread, Reached
  <2>8. <<1, fv>> \notin Recorded
    <3>1. ASSUME <<1, fv>> \in Recorded PROVE FALSE
      <4>1. <<1, fv>> \in Seen
        BY <3>1 DEF Seen
      <4>2. <<1, fv>>[2] < fv
        BY <1>12, <1>14, <4>1
      <4> QED
        BY <1>4, <4>2
    <3> QED
      BY <3>1
  <2>9. Unrecorded'
    BY <1>6, <2>1, <2>8 DEF Unrecorded
  <2> QED
    BY <1>7, <1>11, <2>3, <2>4, <2>6, <2>7, <2>9 DEF Unread
<1> QED
  BY <1>5, <1>13, <1>14

LEMMA OnceInvariance ==
  ASSUME TInv, OnceInv, [Next]_vars
  PROVE  OnceInv'
<1>1. image' = image
  BY InputsKept, InputsSame
<1>2. Contained' <=> Contained
  BY InputsKept, InputsSame
<1> SUFFICES ASSUME Contained PROVE Unread' /\ Once'
  BY <1>2 DEF OnceInv, Unread
<1>3. Unread /\ Once
  BY DEF OnceInv, Unread
<1>4. CASE Walk
  BY <1>3, <1>4, WalkShape, WalkUnread DEF TInv
<1>5. CASE EndVolume \/ EndSections
  BY <1>3, <1>5, EndUnread
<1>6. CASE ScanVolume
  BY <1>3, <1>6, ScanUnread
<1>7. CASE \/ FinishScan \/ ScanPanic \/ FilePanic \/ NamePanic
           \/ DecompressPanic \/ ScanVolumePanic \/ NestedPanic
           \/ SaveRom \/ SaveFails \/ Return \/ UNCHANGED vars
  <2>1. /\ stack' = stack /\ i' = i /\ volumes' = volumes
        /\ visits' = visits /\ opened' = opened
    BY <1>7
    DEF FinishScan, ScanPanic, FilePanic, NamePanic, DecompressPanic,
        ScanVolumePanic, NestedPanic, Panics, SaveRom, SaveFails, Return, vars,
        found
  <2>2. Seen' = Seen /\ Recorded' = Recorded
    BY <1>1, <2>1 DEF Seen, Recorded, Expanded
  <2>3. Unread'
    BY <1>3, <2>1, <2>2
    DEF Unread, Apart, Fresh, Reached, Behind, Within, Unrecorded, ToRead
  <2>4. Once'
    BY <1>3, <2>1 DEF Once
  <2> QED
    BY <2>3, <2>4
<1> QED
  BY <1>4, <1>5, <1>6, <1>7 DEF Next, Walk

LEMMA OnceInit == Init => OnceInv
<1> SUFFICES ASSUME Init PROVE OnceInv
  OBVIOUS
<1>1. /\ DOMAIN stack = {} /\ DOMAIN volumes = {} /\ DOMAIN visits = {}
      /\ DOMAIN opened = {}
  BY DEF Init
<1>2. Seen = {} /\ Recorded = {}
  BY <1>1 DEF Seen, Recorded, Expanded, ToSet
<1> QED
  BY <1>1, <1>2
  DEF OnceInv, Apart, Fresh, Reached, Behind, Within, Unrecorded, Once
-----------------------------------------------------------------------------
\* The files of the volumes recorded and of those being walked are the ones
\* counted.
Idle == \A n \in DOMAIN stack : stack[n].fn = "sections" => stack[n].files = 0
Sums == Len(visits) = SumOf(volumes) + SumOf(stack) /\ Idle

LEMMA FilesCount == Counts(Frame) /\ Counts(Records)
BY DEF Counts, Frame, Records

LEMMA SumStack ==
  ASSUME TInv, stack # <<>>
  PROVE  /\ SumOf(Below) \in Nat /\ Top.files \in Nat
         /\ SumOf(stack) = SumOf(Below) + Top.files
<1>1. /\ Top \in Frame /\ Below \in Seq(Frame) /\ Len(Below) = Len(stack) - 1
      /\ Len(stack) \in Nat \ {0}
      /\ \A n \in 1 .. Len(stack) - 1 : Below[n] = stack[n]
  BY TopFrame, BelowTop DEF TInv
<1>2. /\ Append(Below, Top) \in Seq(Frame)
      /\ Len(Append(Below, Top)) = Len(stack)
      /\ Append(Below, Top)[Len(stack)] = Top
      /\ \A n \in 1 .. Len(stack) - 1 : Append(Below, Top)[n] = stack[n]
  BY <1>1, TopReplaced DEF TInv
<1>3. \A n \in 1 .. Len(stack) : Append(Below, Top)[n] = stack[n]
  BY <1>1, <1>2 DEF Top
<1>4. stack \in Seq(Frame)
  BY DEF TInv, IInv
<1>5. stack = Append(Below, Top)
  BY <1>2, <1>3, <1>4, SeqEqual
<1>6. /\ SumOf(Below) \in Nat
      /\ SumOf(Append(Below, Top)) = SumOf(Below) + Top.files
  BY <1>1, FilesCount, SumAppend
<1> QED
  BY <1>1, <1>5, <1>6 DEF Frame

\* A step of the walk adds what it counts to the frame at the top, and a call
\* starts with no file.
LEMMA WalkSums ==
  ASSUME TInv, Sums, NEW next, NEW calls, Walks(next, calls)
  PROVE  Sums'
<1>1. /\ stack # <<>> /\ next \in Frame /\ volumes' = volumes
      /\ stack' = Append(Below, next) \o calls
  BY DEF Walks, Follows
<1>2. /\ SumOf(Below) \in Nat /\ Top.files \in Nat
      /\ SumOf(stack) = SumOf(Below) + Top.files
  BY <1>1, SumStack
<1>3. /\ Below \in Seq(Frame) /\ Append(Below, next) \in Seq(Frame)
  BY <1>1, BelowTop, TopReplaced DEF TInv
<1>4. /\ SumOf(Append(Below, next)) \in Nat
      /\ SumOf(Append(Below, next)) = SumOf(Below) + next.files
  BY <1>1, <1>3, FilesCount, SumAppend
<1>5. SumOf(stack') = SumOf(Append(Below, next))
  <2>1. CASE calls = <<>>
    <3>1. stack' = Append(Below, next)
      BY <1>1, <1>3, <2>1
    <3> QED
      BY <3>1
  <2>2. CASE \E call : calls = <<call>> /\ Made(call, next)
    <3>1. PICK call : calls = <<call>> /\ Made(call, next)
      BY <2>2
    <3>2. call \in Frame /\ call.files = 0
      BY <3>1 DEF Made
    <3>3. stack' = Append(Append(Below, next), call)
      BY <1>1, <1>3, <3>1, <3>2
    <3>4. SumOf(Append(Append(Below, next), call))
            = SumOf(Append(Below, next)) + call.files
      BY <1>3, <3>2, FilesCount, SumAppend
    <3> QED
      BY <1>4, <3>2, <3>3, <3>4
  <2> QED
    BY <2>1, <2>2 DEF Walks, Calls
<1>6. visits \in Seq(Bufs \X Nat) /\ SumOf(volumes) \in Nat
  <2>1. visits \in Seq(Bufs \X Nat) /\ volumes \in Seq(Records)
    BY DEF TInv, TypeOK, Records
  <2>2. \E r : r \in Records
    <3>1. [buf |-> 1, offset |-> 0, length |-> 0, files |-> 0] \in Records
      BY BufsAssumption DEF Records
    <3> QED
      BY <3>1
  <2> QED
    BY <2>1, <2>2, FilesCount, SumAppend
<1>7. Idle'
  <2>1. Top = stack[Len(stack)]
    BY DEF Top
  <2>2. next.fn = "sections" => next.files = 0
    <3>1. Len(stack) \in DOMAIN stack
      BY <1>1, TopFrame DEF TInv
    <3> QED
      BY <2>1, <3>1 DEF Walks, Follows, Sums, Idle
  <2>3. \A n \in 1 .. Len(stack) - 1 : n \in DOMAIN stack /\ stack'[n] = stack[n]
    BY StackAfter DEF TInv
  <2>4. \A n \in DOMAIN stack' :
          \/ n \in 1 .. Len(stack) - 1
          \/ stack'[n] = next
          \/ stack'[n].files = 0
    BY StackAfter DEF TInv, Made
  <2> QED
    BY <2>2, <2>3, <2>4 DEF Sums, Idle
<1>8. CASE visits' = visits /\ next.files = Top.files
  BY <1>1, <1>2, <1>4, <1>5, <1>6, <1>7, <1>8 DEF Sums
<1>9. CASE /\ visits' = Append(visits, <<Top.buf, Top.pos>>)
           /\ next.files = Top.files + 1
  <2>1. Len(visits') = Len(visits) + 1 /\ Len(visits) \in Nat
    BY <1>6, <1>9
  <2>2. Len(visits) = SumOf(volumes) + SumOf(Below) + Top.files
    BY <1>2, <1>6 DEF Sums
  <2>3. SumOf(stack') = SumOf(Below) + Top.files + 1
    BY <1>2, <1>4, <1>5, <1>9
  <2>4. Len(visits') = SumOf(volumes') + SumOf(stack')
    BY <1>1, <1>2, <1>6, <2>1, <2>2, <2>3
  <2> QED
    BY <1>7, <2>4 DEF Sums
<1> QED
  BY <1>8, <1>9 DEF Walks

LEMMA SumsInvariance ==
  ASSUME TInv, Sums, [Next]_vars
  PROVE  Sums'
<1>1. ASSUME stack # <<>>, stack' = Below PROVE Idle'
  <2>1. /\ Len(stack') = Len(stack) - 1 /\ Len(stack) \in Nat \ {0}
        /\ stack' \in Seq(Frame) /\ stack \in Seq(Frame)
        /\ \A n \in 1 .. Len(stack) - 1 : stack'[n] = stack[n]
    BY <1>1, BelowTop, TopFrame DEF TInv, IInv
  <2>2. \A n \in DOMAIN stack' : n \in DOMAIN stack /\ stack'[n] = stack[n]
    BY <2>1
  <2> QED
    BY <2>2 DEF Sums, Idle
<1>2. CASE Walk
  BY <1>2, WalkShape, WalkSums DEF TInv
<1>3. CASE EndVolume
  <2>1. /\ Volume1 \in Records /\ volumes' = Append(volumes, Volume1)
        /\ stack # <<>> /\ stack' = Below /\ visits' = visits
    BY <1>3, VolumeRecorded DEF TInv, ScanInv, EndVolume
  <2>2. volumes \in Seq(Records)
    BY DEF TInv, TypeOK, Records
  <2>3. /\ SumOf(volumes) \in Nat
        /\ SumOf(Append(volumes, Volume1)) = SumOf(volumes) + Volume1.files
    BY <2>1, <2>2, FilesCount, SumAppend
  <2>4. Volume1.files = Top.files
    BY DEF Volume1
  <2>5. /\ SumOf(Below) \in Nat /\ Top.files \in Nat
        /\ SumOf(stack) = SumOf(Below) + Top.files
    BY <2>1, SumStack
  <2> QED
    BY <1>1, <2>1, <2>3, <2>4, <2>5 DEF Sums
<1>4. CASE EndSections
  <2>1. /\ volumes' = volumes /\ visits' = visits /\ stack' = Below
        /\ stack # <<>> /\ Top.fn = "sections"
    BY <1>4 DEF EndSections, InSections, found
  <2>2. Top.files = 0
    <3>1. Len(stack) \in DOMAIN stack /\ Top = stack[Len(stack)]
      BY <2>1, TopFrame DEF TInv, Top
    <3> QED
      BY <2>1, <3>1 DEF Sums, Idle
  <2> QED
    BY <1>1, <2>1, <2>2, SumStack DEF Sums
<1>5. CASE ScanVolume
  <2> DEFINE fv == First(Unscanned)
  <2>1. /\ visits' = visits /\ volumes' = volumes /\ stack = <<>>
        /\ Unscanned # {}
        /\ stack' = IF Covered(fv) THEN <<>> ELSE Volume(1, fv)
    BY <1>5 DEF ScanVolume, Scanning, found
  <2>2. IsBuffer(image[1])
    BY BufsAssumption DEF TInv, TypeOK, IsImage
  <2>3. fv \in DOMAIN image[1].vol
    <3>1. Unscanned \subseteq Nat
      BY <2>2 DEF Unscanned, IsBuffer
    <3> QED
      BY <2>1, <3>1, FirstIsLeast DEF Unscanned
  <2> HIDE DEF fv
  <2>4. \/ stack' = <<>>
        \/ \E call \in Frame : /\ stack' = <<call>> /\ call.files = 0
    BY <2>1, <2>2, <2>3, VolumeFrame, BufsAssumption
  <2>5. CASE stack' = <<>>
    BY <2>1, <2>5 DEF Sums, Idle
  <2>6. CASE \E call \in Frame : /\ stack' = <<call>> /\ call.files = 0
    <3>1. PICK call \in Frame : /\ stack' = <<call>> /\ call.files = 0
      BY <2>6
    <3>2. /\ stack' = Append(<<>>, call) /\ <<>> \in Seq(Frame)
          /\ DOMAIN stack' = {1} /\ stack'[1] = call
      BY <3>1
    <3>3. /\ SumOf(<<>>) = 0
          /\ SumOf(Append(<<>>, call)) = SumOf(<<>>) + call.files
      BY <3>2, FilesCount, SumAppend, SumEmpty
    <3>4. SumOf(stack') = 0
      BY <3>1, <3>2, <3>3
    <3>5. Idle'
      BY <3>1, <3>2 DEF Idle
    <3> QED
      BY <2>1, <3>3, <3>4, <3>5 DEF Sums
  <2> QED
    BY <2>4, <2>5, <2>6
<1>6. CASE \/ FinishScan \/ ScanPanic \/ FilePanic \/ NamePanic
           \/ DecompressPanic \/ ScanVolumePanic \/ NestedPanic
           \/ SaveRom \/ SaveFails \/ Return \/ UNCHANGED vars
  <2>1. stack' = stack /\ volumes' = volumes /\ visits' = visits
    BY <1>6
    DEF FinishScan, ScanPanic, FilePanic, NamePanic, DecompressPanic,
        ScanVolumePanic, NestedPanic, Panics, SaveRom, SaveFails, Return, vars,
        found
  <2> QED
    BY <2>1 DEF Sums, Idle
<1> QED
  BY <1>2, <1>3, <1>4, <1>5, <1>6 DEF Next, Walk

LEMMA SumsInit == Init => Sums
BY SumEmpty DEF Init, Sums, Idle

\* The files reported are the files counted, in every state of the walk and for
\* every header.  No file is counted twice if no size wraps around a word and
\* nested volumes end where their sections do, however deep volumes and sections
\* are nested and whatever is decompressed on the way.
THEOREM FilesCountedOnce == Spec => []FilesCounted
<1>1. Init => TInv /\ OnceInv /\ Sums
  BY TypeInit, OnceInit, SumsInit
<1>2. TInv /\ OnceInv /\ Sums /\ [Next]_vars => (TInv /\ OnceInv /\ Sums)'
  BY TInvariance, OnceInvariance, SumsInvariance
<1>3. OnceInv /\ Sums => FilesCounted
  BY DEF OnceInv, Sums, Once, FilesCounted
<1> QED
  BY <1>1, <1>2, <1>3, PTL DEF Spec

\* A run that ends has walked every volume of the image that can be walked, if
\* it found none elsewhere, whether a length wraps or not; and no volume is
\* reported twice if no size wraps and nested volumes end where their sections
\* do.
THEOREM VolumesFoundOnce == Spec => []VolumesFound
<1>1. Init => TInv /\ OnceInv
  BY TypeInit, OnceInit
<1>2. TInv /\ OnceInv /\ [Next]_vars => (TInv /\ OnceInv)'
  BY TInvariance, OnceInvariance
<1>3. TInv /\ OnceInv => VolumesFound
  <2> SUFFICES ASSUME TInv, OnceInv, Done PROVE VolumesFound
    BY DEF VolumesFound
  <2>1. ASSUME \A n \in DOMAIN volumes : volumes[n].buf = 1,
               NEW fv \in DOMAIN image[1].vol, Accepted(image[1], fv)
        PROVE  Walked(1, fv)
    <3>1. stack = <<>> /\ Unscanned = {}
      BY DEF Done, TInv, ScanInv, Ended
    <3>2. IsBuffer(image[1]) /\ i \in Nat
      BY BufsAssumption DEF TInv, TypeOK, IsImage
    <3>3. fv \in Nat /\ image[1].len \in Nat
      BY <3>2, BufferLength DEF IsBuffer
    <3>4. fv + 44 <= image[1].len
      BY <2>1, <3>3 DEF Accepted
    <3>5. fv < i
      BY <3>1, <3>2, <3>3, <3>4 DEF Unscanned
    <3> QED
      BY <2>1, <3>1, <3>5 DEF TInv, ScanInv, Passed
  <2>2. Contained => Once
    BY DEF OnceInv
  <2> QED
    BY <2>1, <2>2 DEF VolumesFound, EveryVolumeWalked, Once
<1> QED
  BY <1>1, <1>2, <1>3, PTL DEF Spec
-----------------------------------------------------------------------------
(***************************************************************************)
(* The option ROMs: of a buffer that was scanned, every ROM the scan stops *)
(* at is in the list, and the files written so far are those of the first  *)
(* ROMs of it.                                                             *)
(***************************************************************************)
Gathered(b) ==
  \A p \in ToSet(Hits(image[b])) :
    image[b].sig[p] # None => image[b].sig[p] \in ToSet(roms)
FileOf(n) == [name |-> FileName(roms, n), data |-> roms[n].data]
Files == {FileOf(n) : n \in DOMAIN roms}
RomInv ==
  /\ \A b \in ToSet(opened) : Gathered(b)
  /\ (pc = "extract" \/ Done) => Gathered(1)
  /\ saved \in Seq(Files) /\ Len(saved) <= Len(roms)
  /\ \A n \in DOMAIN saved : saved[n] = FileOf(n)
  /\ pc = "walk" => saved = <<>>
  /\ Done => pc = "stop" /\ (dir => Len(saved) = Len(roms))

LEMMA RomsTyped ==
  ASSUME TypeOK, NEW b \in Bufs
  PROVE  IsBuffer(image[b]) /\ roms \in Seq(Roms)
BY DEF TypeOK, IsImage

\* To scan a buffer gathers its ROMs and keeps those of the ones before.
LEMMA ScanGathers ==
  ASSUME TypeOK, image' = image, NEW b \in Bufs,
         roms' = Scanned(image[b], roms)
  PROVE  /\ Gathered(b)'
         /\ \A c : Gathered(c) => Gathered(c)'
<1>1. /\ ToSet(roms) \subseteq ToSet(roms')
      /\ \A p \in ToSet(Hits(image[b])) :
           image[b].sig[p] # None => image[b].sig[p] \in ToSet(roms')
  BY RomsTyped, ScanKeeps
<1> QED
  BY <1>1 DEF Gathered

\* A step of the walk leaves the ROMs as they are, but for a section that is
\* decompressed.
LEMMA WalkRoms ==
  ASSUME TypeOK, RomInv, IInv, Walk
  PROVE  RomInv'
<1>1. /\ image' = image /\ saved' = saved /\ outcome' = outcome /\ pc' = pc
      /\ pc = "walk" /\ dir' = dir
  BY DEF Walk, VisitFile, CountModule, CountName, SkipSection, EnterSection,
         Decompress, DecompressFails, NestedVolume, Type, InVolume, InSections,
         Packed, inputs
<1>2. saved' = <<>> /\ ~Done /\ ~Done'
  BY <1>1 DEF RomInv, Done
<1>3. roms' \in Seq(Roms)
  <2>1. CASE Decompress
    <3>1. Section.out \in Bufs
      BY <2>1, AtSectionType, TopFrame
      DEF Decompress, Packed, Type, Section, AtSection, InSections
    <3>2. roms' = Scanned(image[Section.out], roms)
      BY <2>1 DEF Decompress, Decompressed
    <3> QED
      BY <3>1, <3>2, RomsTyped, ScanKeeps
  <2>2. CASE ~Decompress
    <3>1. roms' = roms
      BY <2>2 DEF Walk, VisitFile, CountModule, CountName, SkipSection,
                  EnterSection, DecompressFails, NestedVolume, found
    <3> QED
      BY <3>1, BufsAssumption, RomsTyped
  <2> QED
    BY <2>1, <2>2
<1>4. \A b \in ToSet(opened') : Gathered(b)'
  <2>1. CASE Decompress
    <3>1. Section.out \in Bufs
      BY <2>1, AtSectionType, TopFrame
      DEF Decompress, Packed, Type, Section, AtSection, InSections
    <3>2. PICK out \in Bufs : out = Section.out
      BY <3>1
    <3>3. roms' = Scanned(image[out], roms) /\ opened' = Append(opened, out)
      BY <2>1, <3>2 DEF Decompress, Decompressed
    <3>4. /\ Gathered(out)'
          /\ \A c : Gathered(c) => Gathered(c)'
      BY <1>1, <3>3, ScanGathers
    <3>5. opened \in Seq(Bufs)
      BY DEF TypeOK
    <3>6. ToSet(opened') = ToSet(opened) \cup {out}
      BY <3>3, <3>5, Appended
    <3> QED
      BY <3>4, <3>6 DEF RomInv
  <2>2. CASE ~Decompress
    <3>1. roms' = roms /\ opened' = opened
      BY <2>2 DEF Walk, VisitFile, CountModule, CountName, SkipSection,
                  EnterSection, DecompressFails, NestedVolume, found
    <3> QED
      BY <1>1, <3>1 DEF RomInv, Gathered
  <2> QED
    BY <2>1, <2>2
<1>5. <<>> \in Seq(Files') /\ DOMAIN <<>> = {} /\ Len(<<>>) = 0
  OBVIOUS
<1>6. Len(roms') \in Nat
  BY <1>3
<1> QED
  BY <1>1, <1>2, <1>4, <1>5, <1>6 DEF RomInv

LEMMA RomInvariance ==
  ASSUME TInv, RomInv, [Next]_vars
  PROVE  RomInv'
<1>0. image' = image /\ dir' = dir
  BY InputsKept, InputsSame
<1>1. CASE Walk
  BY <1>1, WalkRoms DEF TInv
<1>2. CASE FinishScan
  <2>1. /\ pc = "walk" /\ pc' = "extract" /\ image' = image
        /\ saved' = saved /\ opened' = opened /\ outcome' = outcome
        /\ roms' = Scanned(image[1], roms)
    BY <1>0, <1>2 DEF FinishScan
  <2>2. /\ Gathered(1)' /\ \A c : Gathered(c) => Gathered(c)'
    BY <2>1, BufsAssumption, ScanGathers DEF TInv
  <2>3. roms' \in Seq(Roms)
    BY <2>1, BufsAssumption, RomsTyped, ScanKeeps DEF TInv
  <2>4. <<>> \in Seq(Files') /\ DOMAIN <<>> = {} /\ Len(<<>>) = 0
    OBVIOUS
  <2> QED
    BY <2>1, <2>2, <2>3, <2>4 DEF RomInv, Done
<1>3. CASE SaveRom
  <2> DEFINE k == Len(saved) + 1
  <2>1. /\ pc = "extract" /\ Len(saved) < Len(roms)
        /\ saved' = Append(saved, FileOf(k))
        /\ image' = image /\ roms' = roms /\ opened' = opened
        /\ outcome' = outcome /\ pc' = pc /\ dir' = dir
    BY <1>0, <1>3 DEF SaveRom, FileOf, found
  <2>2. saved \in Seq(Files) /\ roms \in Seq(Roms)
    BY BufsAssumption, RomsTyped DEF RomInv, TInv
  <2>3. k \in DOMAIN roms /\ Len(saved) \in Nat /\ Len(roms) \in Nat
    BY <2>1, <2>2
  <2>4. FileOf(k) \in Files
    BY <2>3 DEF Files
  <2>5. /\ saved' \in Seq(Files)
        /\ DOMAIN saved = 1 .. Len(saved)
        /\ DOMAIN saved' = 1 .. Len(saved) + 1
        /\ saved'[Len(saved) + 1] = FileOf(k)
        /\ \A n \in 1 .. Len(saved) : saved'[n] = saved[n]
    BY <2>1, <2>2, <2>4, Appended
  <2>6. Len(saved') = k
    BY <2>2, <2>3, <2>5
  <2>7. \A n \in DOMAIN saved' : saved'[n] = FileOf(n)
    <3>1. \A n \in DOMAIN saved' : n \in 1 .. Len(saved) \/ n = k
      BY <2>3, <2>5
    <3> QED
      BY <2>5, <3>1 DEF RomInv
  <2>8. \A n : FileOf(n)' = FileOf(n)
    BY <2>1 DEF FileOf
  <2>9. Files' = Files
    BY <2>1, <2>8 DEF Files
  <2>10. ~Done' /\ ~Done
    BY <2>1 DEF RomInv, Done
  <2>11. \A b : Gathered(b)' <=> Gathered(b)
    BY <2>1 DEF Gathered
  <2> HIDE DEF k
  <2> QED
    BY <2>1, <2>3, <2>5, <2>6, <2>7, <2>8, <2>9, <2>10, <2>11 DEF RomInv, k
<1>4. CASE ScanVolume \/ EndVolume \/ EndSections
  <2>1. /\ pc' = pc /\ image' = image /\ roms' = roms /\ opened' = opened
        /\ saved' = saved /\ outcome' = outcome /\ dir' = dir
    BY <1>0, <1>4 DEF ScanVolume, EndVolume, EndSections, found
  <2> QED
    BY <2>1 DEF RomInv, Gathered, Files, FileOf, Done
<1>5. CASE SaveFails \/ Return
  <2>1. /\ pc = "extract" /\ image' = image /\ roms' = roms /\ opened' = opened
        /\ saved' = saved /\ pc' = "stop" /\ dir' = dir
        /\ outcome' = "ok" => (dir => Len(saved) = Len(roms))
    BY <1>0, <1>5 DEF SaveFails, Return, found
  <2> QED
    BY <2>1 DEF RomInv, Gathered, Files, FileOf, Done
<1>6. CASE \/ ScanPanic \/ FilePanic \/ NamePanic \/ DecompressPanic
           \/ ScanVolumePanic \/ NestedPanic
  <2>1. /\ image' = image /\ roms' = roms /\ opened' = opened
        /\ saved' = saved /\ pc' = "stop" /\ outcome' = "panic"
    BY <1>0, <1>6
    DEF ScanPanic, FilePanic, NamePanic, DecompressPanic, ScanVolumePanic,
        NestedPanic, Panics, found
  <2> QED
    BY <2>1 DEF RomInv, Gathered, Files, FileOf, Done
<1>7. CASE UNCHANGED vars
  BY <1>0, <1>7 DEF vars, found, RomInv, Gathered, Files, FileOf, Done
<1> QED
  BY <1>1, <1>2, <1>3, <1>4, <1>5, <1>6, <1>7 DEF Next, Walk

LEMMA RomInit == Init => RomInv
<1> SUFFICES ASSUME Init PROVE RomInv
  OBVIOUS
<1>1. /\ opened = <<>> /\ roms = <<>> /\ saved = <<>> /\ pc = "walk"
      /\ outcome = None
  BY DEF Init
<1>2. ~Done
  BY <1>1, NoneAssumption DEF Done, Outcomes
<1>3. <<>> \in Seq(Files) /\ DOMAIN <<>> = {} /\ Len(<<>>) = 0
  OBVIOUS
<1>4. ToSet(opened) = {}
  BY <1>1, <1>3 DEF ToSet
<1> QED
  BY <1>1, <1>2, <1>3, <1>4 DEF RomInv

\* No two ROMs are written to files of the same name: of two with the same stem
\* the later one has more with that stem in front of it.
LEMMA NamesDiffer ==
  ASSUME NEW list \in Seq(Roms), NEW m \in DOMAIN list, NEW n \in DOMAIN list,
         m < n
  PROVE  FileName(list, m) # FileName(list, n)
<1> SUFFICES ASSUME FileName(list, m) = FileName(list, n) PROVE FALSE
  OBVIOUS
<1> DEFINE front(k) == {x \in 1 .. k - 1 : list[x].stem = list[k].stem}
<1>1. /\ list[m].stem = list[n].stem
      /\ Cardinality(front(m)) = Cardinality(front(n))
  BY DEF FileName
<1>2. m \in Nat /\ n \in Nat /\ m \in 1 .. n - 1
  OBVIOUS
<1>3. front(m) \subseteq front(n) /\ m \in front(n) /\ m \notin front(m)
  BY <1>1, <1>2
<1>4. IsFiniteSet(front(n))
  <2>1. IsFiniteSet(1 .. n - 1) /\ front(n) \in SUBSET (1 .. n - 1)
    BY <1>2, FS_Interval
  <2> HIDE DEF front
  <2> QED
    BY <2>1, FS_Subset
<1> HIDE DEF front
<1>5. front(m) = front(n)
  BY <1>1, <1>3, <1>4, FS_Subset
<1> QED
  BY <1>3, <1>5

\* After a run with --extract-roms that succeeds every ROM of the image and of
\* what was decompressed is in a file under its own stem, and no file was
\* written over by a later ROM.
THEOREM RomsAllSaved == Spec => []RomsSaved
<1>1. Init => TInv /\ RomInv
  BY TypeInit, RomInit
<1>2. TInv /\ RomInv /\ [Next]_vars => (TInv /\ RomInv)'
  BY TInvariance, RomInvariance
<1>3. TInv /\ RomInv => RomsSaved
  <2> SUFFICES ASSUME TInv, RomInv, Done, dir,
                      NEW b \in {1} \cup ToSet(opened),
                      NEW p \in DOMAIN image[b].sig,
                      image[b].sig[p] # None,
                      p + ROM_HEADER <= image[b].len, Alone(image[b], p)
               PROVE  \E n \in DOMAIN saved :
                        /\ saved[n].name.stem = image[b].sig[p].stem
                        /\ LastWrite(saved[n].name) = image[b].sig[p].data
    BY DEF RomsSaved
  <2>1. b \in Bufs
    <3>1. \A x \in ToSet(opened) : x \in Bufs
      BY DEF TInv, TypeOK, ToSet
    <3> QED
      BY <3>1, BufsAssumption
  <2>2. IsBuffer(image[b]) /\ roms \in Seq(Roms)
    BY <2>1, RomsTyped DEF TInv
  <2>3. p \in ToSet(Hits(image[b]))
    BY <2>2, HitsFind
  <2>4. image[b].sig[p] \in ToSet(roms)
    BY <2>3 DEF RomInv, Gathered
  <2>5. PICK n \in DOMAIN roms : roms[n] = image[b].sig[p]
    BY <2>4 DEF ToSet
  <2>6. DOMAIN saved = DOMAIN roms
    BY <2>2 DEF RomInv
  <2>7. \A m \in DOMAIN saved : saved[m].name = FileName(roms, m)
    BY DEF RomInv, FileOf
  <2>8. \A m \in DOMAIN saved : saved[m].name = saved[n].name => m = n
    <3> SUFFICES ASSUME NEW m \in DOMAIN saved,
                        FileName(roms, m) = FileName(roms, n), m # n
                 PROVE  FALSE
      BY <2>5, <2>6, <2>7
    <3>1. m \in Nat /\ n \in Nat
      BY <2>2, <2>6
    <3>2. m < n \/ n < m
      BY <3>1
    <3> QED
      BY <2>2, <2>6, <3>2, NamesDiffer
  <2>9. LastWrite(saved[n].name) = saved[n].data
    <3> DEFINE Final(m) == /\ saved[m].name = saved[n].name
                          /\ \A x \in DOMAIN saved :
                               saved[x].name = saved[n].name => x <= m
    <3>1. n \in DOMAIN saved /\ n <= n
      BY <2>2, <2>5, <2>6
    <3>2. Final(n)
      BY <2>8, <3>1
    <3>3. \A m \in DOMAIN saved : Final(m) => m = n
      BY <2>8
    <3>4. (CHOOSE m \in DOMAIN saved : Final(m)) = n
      <4> HIDE DEF Final
      <4> QED
        BY <3>1, <3>2, <3>3
    <3> QED
      BY <3>4 DEF LastWrite
  <2>10. /\ saved[n].data = roms[n].data
         /\ saved[n].name.stem = roms[n].stem
    <3>1. saved[n] = FileOf(n)
      BY <2>5, <2>6 DEF RomInv
    <3>2. FileOf(n).data = roms[n].data /\ FileOf(n).name = FileName(roms, n)
      BY DEF FileOf
    <3>3. FileName(roms, n).stem = roms[n].stem
      BY DEF FileName
    <3> QED
      BY <3>1, <3>2, <3>3
  <2> QED
    BY <2>5, <2>6, <2>9, <2>10
<1> QED
  BY <1>1, <1>2, <1>3, PTL DEF Spec
=============================================================================
