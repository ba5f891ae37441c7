------------------------- MODULE ModulesGen2Proofs --------------------------
(***************************************************************************)
(* The generation 2 module pass and its relocation for every image, FTPR   *)
(* partition and LLUT.                                                     *)
(*                                                                         *)
(* The pass has two loops and the relocation a third.  What the first has  *)
(* done up to the module it is at is the invariant in Found, Marked,       *)
(* Covered and Gone; what the second has done up to the chunk, in Gone.    *)
(* That no chunk that stays is erased rests on the chunks being disjoint:  *)
(* what overlaps a chunk that stays is that chunk (ChunksApart).  When the *)
(* pass ends, Left keeps what is true of the bytes it leaves, and Moving   *)
(* relates the bytes of the relocation to those.                           *)
(***************************************************************************)
EXTENDS ModulesGen2, SequenceTheorems, WellFoundedInduction, TLAPS

NoMove == [from |-> 0, to |-> 0, size |-> 0, i |-> 0]

\* The bytes the pass works on, or has left.
PassBuf == IF result = None THEN buf ELSE result.buf

Stripped == result # None /\ result.status = "done"
Relocated == pc = "move" \/ (pc \in {"done", "panic"} /\ relocate /\ Stripped)
Working == pc \in {"modules", "chunks"}

Phase ==
  /\ result = None <=> pc \in {"start", "modules", "chunks"}
  /\ pc = "start" => /\ buf = Image /\ chunks = <<>> /\ unremovable = {}
                     /\ endAddr = 0 /\ i = 1
  /\ Working => ~keepModules
  /\ Working \/ Stripped => HeadersInRegion
  /\ pc \in {"relocate", "move", "done"} => Stripped
  /\ pc = "move" => relocate
  /\ ~Relocated => move = NoMove /\ buf = PassBuf
  /\ Stripped => result.end \in Int
  /\ pc \in {"relocate", "move"} => endAddr = result.end
  /\ pc = "done" => endAddr = result.end + (move.to - move.from)

Loaded ==
  /\ llut.corr = Original.corr
  /\ ~Relocated /\ pc # "err" => llut = Original
  /\ Relocated => llut = IF Huffman # {} THEN Shifted(Original) ELSE Original

\* Nothing is moved by the pass, and nothing outside FTPR erased.
Framed ==
  \A a \in Addr :
    \/ PassBuf[a] = a
    \/ /\ PassBuf[a] = FF
       /\ ChunksInFtpr =>
            a < ME.end /\ Within(ME, a, fw.offset, fw.offset + Extent)

Intact == Sound => \A d \in Vital : PassBuf[d] = d

\* The chunks of the LLUT, those that module m covers, and the modules that
\* the first loop has passed.
Ranges == GetChunksOffsets(Original)
CoveredBy(m) ==
  {c \in DOMAIN Original.chunks :
     c - 1 \in First(m) .. Last(m) /\ HoldsData(c)}
Scanned == IF pc = "modules" THEN 1 .. i - 1 ELSE DOMAIN Modules

Found ==
  Working =>
    /\ \/ chunks = <<>>
       \/ /\ chunks = Ranges
          /\ ~NoSuccessor(Original) /\ Original.chunkSize # 0
    /\ \A m \in Scanned : m \in Huffman => chunks = Ranges

Marked ==
  Working =>
    /\ \A m \in Scanned : (m \in Huffman /\ Modules[m].stays) =>
         \A c \in CoveredBy(m) : Ranges[c] \in unremovable
    /\ \A u \in unremovable :
         chunks = Ranges /\ \E m \in Huffman :
           Modules[m].stays /\ \E c \in CoveredBy(m) : u = Ranges[c]

Covered ==
  Working =>
    /\ endAddr = 0 \/ endAddr \in fw.offset .. fw.offset + Extent
    /\ \A m \in Scanned :
         Modules[m].comp = "plain" /\ Modules[m].stays => End(m) <= endAddr

Gone ==
  Working =>
    /\ \A m \in Scanned : ~Modules[m].stays =>
         \A a \in Addr : InPlain(a, m) /\ a < ME.end => buf[a] = FF
    /\ pc = "chunks" => \A c \in 1 .. i - 1 : ~Overlaps(chunks[c]) =>
         \A a \in Addr :
           Within(ME, a, chunks[c].start, chunks[c].end) /\ a < ME.end
             => buf[a] = FF

Left ==
  Stripped /\ Sound =>
    /\ \A d \in Vital : d < ME.start + result.end
    /\ ~keepModules =>
         \A a \in Addr : result.buf[a] = a /\ a < ME.end => ~Unneeded(a)

Moving ==
  Relocated =>
    /\ MoveFits
    /\ move.from = fw.offset /\ move.to = NewOffset /\ move.size = MoveSize
    /\ move.i <= move.size /\ (pc # "move" => move.i = move.size)
    /\ move.size <= BLOCK => move.i \in {0, move.size}
    /\ MoveIsSafe => Moved(ME, result.buf, buf, fw.offset, move.i, NewOffset)
    /\ \A a \in Addr : buf[a] = FF \/ \E b \in Addr : buf[a] = result.buf[b]
    /\ Huffman # {} =>
         /\ ME.start + LlutStart \in Addr
         /\ result.buf[ME.start + LlutStart] = ME.start + LlutStart

IInv ==
  /\ TypeOK /\ Phase /\ Loaded
  /\ Framed /\ Intact /\ Found /\ Marked /\ Covered /\ Gone
  /\ Left /\ Moving
-----------------------------------------------------------------------------
Less == {p \in Nat \X Nat : p[1] < p[2]}

\* The least-number principle for sets.
LEMMA LeastNumber ==
  ASSUME NEW S \in SUBSET Nat, S # {}
  PROVE  \E x \in S : \A y \in S : x <= y
<1>1. IsWellFoundedOn(Less, Nat)
  BY NatLessThanWellFounded, Zenon DEF OpToRel, Less
<1>2. \E x \in S : \A y \in S : <<y, x>> \notin Less
  <2> HIDE DEF Less
  <2> QED
    BY <1>1, WFMin
<1>3. PICK x \in S : \A y \in S : <<y, x>> \notin Less
  BY <1>2
<1>4. \A y \in S : ~(y < x)
  BY <1>3 DEF Less
<1> QED
  BY <1>3, <1>4

\* The largest number of a bounded set, and the least of a set of naturals.
LEMMA Largest ==
  ASSUME NEW S \in SUBSET Int, S # {}, NEW B \in Int, \A x \in S : x <= B
  PROVE  Max(S) \in S /\ \A x \in S : x <= Max(S)
<1> DEFINE Slack == {n \in Nat : B - n \in S}
<1>1. \A x \in S : B - x \in Slack
  OBVIOUS
<1>2. Slack \in SUBSET Nat /\ Slack # {}
  BY <1>1
<1>3. PICK n \in Slack : \A k \in Slack : n <= k
  BY <1>2, LeastNumber
<1>4. \A x \in S : B - n >= x
  <2> TAKE x \in S
  <2>1. n \in Int /\ x \in Int
    OBVIOUS
  <2>2. n <= B - x
    <3> HIDE DEF Slack
    <3> QED
      BY <1>1, <1>3
  <2> QED
    BY <2>1, <2>2
<1>5. \E m \in S : \A x \in S : m >= x
  <2>1. B - n \in S
    OBVIOUS
  <2> QED
    BY <1>4, <2>1
<1>6. Max(S) \in S /\ \A x \in S : Max(S) >= x
  BY <1>5 DEF Max
<1> QED
  BY <1>6

LEMMA Least ==
  ASSUME NEW S \in SUBSET Nat, S # {}
  PROVE  Min(S) \in S /\ \A x \in S : Min(S) <= x
<1>1. \E m \in S : \A x \in S : m <= x
  BY LeastNumber
<1> QED
  BY <1>1 DEF Min

LEMMA LargerOfTwo ==
  ASSUME NEW m \in Int, NEW n \in Int
  PROVE  Max({m, n}) = IF m < n THEN n ELSE m
<1>1. \E x \in {m, n} : \A y \in {m, n} : x >= y
  OBVIOUS
<1>2. Max({m, n}) \in {m, n} /\ \A y \in {m, n} : Max({m, n}) >= y
  BY <1>1 DEF Max
<1> QED
  BY <1>2

LEMMA LesserOfTwo ==
  ASSUME NEW m \in Int, NEW n \in Int
  PROVE  Min({m, n}) = IF m < n THEN m ELSE n
<1>1. \E x \in {m, n} : \A y \in {m, n} : x <= y
  OBVIOUS
<1>2. Min({m, n}) \in {m, n} /\ \A y \in {m, n} : Min({m, n}) <= y
  BY <1>1 DEF Min
<1> QED
  BY <1>2

\* Some element of a list of numbers is the largest.
LEMMA LargestOfList ==
  ASSUME NEW n \in Nat, NEW f, \A k \in 1 .. n : f[k] \in Int
  PROVE  \E B \in Int : \A k \in 1 .. n : f[k] <= B
<1> DEFINE Bounded(j) == \E B \in Int : \A k \in 1 .. j : f[k] <= B
           Bad == {j \in 0 .. n : ~Bounded(j)}
<1> SUFFICES ASSUME Bad # {} PROVE FALSE
  <2>1. n \in Bad \/ Bounded(n)
    OBVIOUS
  <2> QED
    BY <2>1
<1>1. PICK j \in Bad : \A k \in Bad : j <= k
  <2>1. Bad \in SUBSET Nat
    OBVIOUS
  <2> HIDE DEF Bad
  <2> QED
    BY <2>1, LeastNumber
<1>2. j # 0
  <2>1. Bounded(0)
    OBVIOUS
  <2> QED
    BY <2>1
<1>3. j - 1 \in 0 .. n /\ j \in 1 .. n /\ ~(j - 1 \in Bad)
  <2>1. j \in 0 .. n
    OBVIOUS
  <2>2. j - 1 \in 0 .. n /\ j \in 1 .. n
    BY <1>2, <2>1
  <2>3. j - 1 \in Bad => j <= j - 1
    BY <1>1
  <2> QED
    BY <2>2, <2>3
<1>4. PICK B \in Int : \A k \in 1 .. j - 1 : f[k] <= B
  BY <1>3
<1>5. Bounded(j)
  <2>1. f[j] \in Int
    BY <1>3
  <2>2. PICK C \in Int : C >= B /\ C >= f[j]
    <3> DEFINE C == IF B < f[j] THEN f[j] ELSE B
    <3>1. C \in Int /\ C >= B /\ C >= f[j]
      BY <2>1
    <3> QED
      BY <3>1
  <2>3. \A k \in 1 .. j : f[k] <= C
    <3> TAKE k \in 1 .. j
    <3>1. CASE k = j
      BY <2>2, <3>1
    <3>2. CASE k # j
      <4>1. k \in 1 .. j - 1 /\ k \in 1 .. n
        BY <1>3, <3>2
      <4>2. f[k] <= B /\ f[k] \in Int
        BY <1>4, <4>1
      <4> QED
        BY <2>2, <4>2
    <3> QED
      BY <3>1, <3>2
  <2> QED
    BY <2>3
<1> QED
  BY <1>5

\* Products grow with their factors, and division leaves a remainder.
LEMMA Product ==
  ASSUME NEW m \in Int, NEW n \in Int, m <= n, NEW s \in Nat
  PROVE  m * s <= n * s /\ m * s \in Int /\ n * s \in Int
<1>1. (n - m) * s \in Nat
  OBVIOUS
<1>2. n * s = m * s + (n - m) * s
  OBVIOUS
<1>3. m * s \in Int /\ n * s \in Int
  OBVIOUS
<1> QED
  BY <1>1, <1>2, <1>3

LEMMA Quotient ==
  ASSUME NEW n \in Nat, NEW s \in Nat \ {0}
  PROVE  \E q \in Nat, r \in 0 .. s - 1 :
           n \div s = q /\ n % s = r /\ n = q * s + r
<1> DEFINE q == n \div s
           r == n % s
<1>1. q \in Nat /\ r \in 0 .. s - 1
  OBVIOUS
<1>2. r = n - q * s
  OBVIOUS
<1>3. n \div s = q /\ n % s = r
  OBVIOUS
<1> HIDE DEF q, r
<1>4. n = q * s + r
  BY <1>1, <1>2
<1> QED
  BY <1>1, <1>3, <1>4

LEMMA RoundedUp ==
  ASSUME NEW n \in Nat
  PROVE  RoundUp(n) \in Nat /\ n <= RoundUp(n)
<1>1. ROUND \in Nat \ {0} /\ n + ROUND - 1 \in Nat
  BY SizeAssumption
<1>2. PICK q \in Nat, r \in 0 .. ROUND - 1 :
        /\ (n + ROUND - 1) \div ROUND = q
        /\ n + ROUND - 1 = q * ROUND + r
  BY <1>1, Quotient
<1>3. q * ROUND \in Nat
  BY <1>1
<1>4. n <= q * ROUND
  BY <1>1, <1>2, <1>3
<1> QED
  BY <1>2, <1>3, <1>4 DEF RoundUp

\* The chunks, s addresses each, that a module of n addresses from b covers.
LEMMA ChunksOfModule ==
  ASSUME NEW s \in Nat \ {0}, NEW b \in Nat, b % s = 0, NEW n \in Nat,
         NEW c \in Nat \ {0}
  PROVE  /\ b \div s \in Nat /\ n \div s \in Nat
         /\ (c - 1) * s < b + n /\ c * s > b
              => c - 1 \in b \div s .. b \div s + n \div s
         /\ c - 1 \in b \div s .. b \div s + n \div s
              => (c - 1) * s <= b + n /\ c * s > b
<1>1. PICK f \in Nat : b \div s = f /\ b = f * s
  <2>1. PICK q \in Nat, r \in 0 .. s - 1 :
          b \div s = q /\ b % s = r /\ b = q * s + r
    BY Quotient
  <2>2. r = 0 /\ q * s \in Int
    BY <2>1
  <2> QED
    BY <2>1, <2>2
<1>2. PICK q \in Nat, r \in 0 .. s - 1 : n \div s = q /\ n = q * s + r
  BY Quotient
<1>3. ASSUME (c - 1) * s < b + n, c * s > b
      PROVE  c - 1 \in f .. f + q
  <2>1. f <= c - 1
    <3>1. c <= f => c * s <= f * s
      BY <1>1, Product
    <3>2. c * s \in Int /\ f * s \in Int
      BY <1>1
    <3> QED
      BY <1>1, <1>3, <3>1, <3>2
  <2>2. c - 1 <= f + q
    <3>1. f + q + 1 <= c - 1 => (f + q + 1) * s <= (c - 1) * s
      BY <1>1, <1>2, Product
    <3>2. (f + q + 1) * s = f * s + q * s + s
      BY <1>1, <1>2
    <3>3. /\ (f + q + 1) * s \in Int /\ (c - 1) * s \in Int
          /\ f * s \in Int /\ q * s \in Int
      BY <1>1, <1>2
    <3> QED
      BY <1>1, <1>2, <1>3, <3>1, <3>2, <3>3
  <2> QED
    BY <1>1, <1>2, <2>1, <2>2
<1>4. ASSUME c - 1 \in f .. f + q
      PROVE  (c - 1) * s <= b + n /\ c * s > b
  <2>1. (c - 1) * s <= (f + q) * s
    BY <1>1, <1>2, <1>4, Product
  <2>2. (f + 1) * s <= c * s
    BY <1>1, <1>2, <1>4, Product
  <2>3. (f + q) * s = f * s + q * s /\ (f + 1) * s = f * s + s
    BY <1>1, <1>2
  <2>4. /\ (c - 1) * s \in Int /\ (f + q) * s \in Int /\ c * s \in Int
        /\ f * s \in Int /\ q * s \in Int /\ (f + 1) * s \in Int
    BY <1>1, <1>2
  <2> QED
    BY <1>1, <1>2, <2>1, <2>2, <2>3, <2>4
<1> QED
  BY <1>1, <1>2, <1>3, <1>4
-----------------------------------------------------------------------------
\* The constants, and an image of which they are.
LEMMA Constants ==
  /\ MeLen \in Nat /\ ME.start \in Nat /\ ME.end \in Nat /\ FileLen \in Nat
  /\ ME.end = ME.start + MeLen /\ ME.end <= FileLen
  /\ HEADERS \in Nat /\ PROBE \in Nat /\ LLUT_HEAD \in Nat /\ LLUT_HEAD > 0
  /\ MIN_FTPR_OFFSET \in Nat /\ MIN_FTPR_OFFSET > 0
  /\ OffsetValues \in Nat /\ OffsetValues > 0
  /\ WORD \in Nat /\ WORD > OffsetValues
  /\ FF \notin Int /\ FF \notin Addr /\ \A a \in Addr : a \in Nat
<1>1. /\ MeLen \in Nat /\ ME.start \in Nat /\ ME.end \in Nat /\ FileLen \in Nat
      /\ ME.end = ME.start + MeLen /\ ME.end <= FileLen
  BY ImageAssumption DEF MeLen, RegionLen
<1>2. FF \notin Int /\ FF \notin Addr /\ \A a \in Addr : a \in Nat
  BY <1>1, ErasedAssumption DEF Addr
<1> QED
  BY <1>1, <1>2, SizeAssumption

\* The parts of an LLUT and what is derived from them.
LEMMA LlutTypes ==
  ASSUME NEW l \in Llut
  PROVE  /\ DOMAIN l.chunks = 1 .. Len(l.chunks) /\ Len(l.chunks) \in Nat
         /\ l.chunks \in Seq([offset : 0 .. OffsetValues - 1, absent : BOOLEAN])
         /\ l.chunkSize \in Nat /\ l.huffSize \in Nat /\ l.huffStart \in Nat
         /\ l.corr \in Nat
         /\ StreamEnd(l) \in Nat /\ StreamEnd(l) < WORD
         /\ \A c \in DOMAIN l.chunks :
              /\ l.chunks[c] \in [offset : 0 .. OffsetValues - 1, absent : BOOLEAN]
              /\ Offset(l, c) \in Nat /\ Offset(l, c) < OffsetValues
<1>1. /\ l.chunks \in Seq([offset : 0 .. OffsetValues - 1, absent : BOOLEAN])
      /\ l.chunkSize \in Nat /\ l.huffSize \in Nat /\ l.huffStart \in Nat
      /\ l.corr \in Nat
  BY DEF Llut
<1>2. DOMAIN l.chunks = 1 .. Len(l.chunks) /\ Len(l.chunks) \in Nat
  BY <1>1
<1>3. \A c \in DOMAIN l.chunks :
        l.chunks[c] \in [offset : 0 .. OffsetValues - 1, absent : BOOLEAN]
  BY <1>1, <1>2, ElementOfSeq
<1>4. \A c \in DOMAIN l.chunks :
        Offset(l, c) \in Nat /\ Offset(l, c) < OffsetValues
  BY <1>3, Constants DEF Offset
<1>5. StreamEnd(l) \in Nat /\ StreamEnd(l) < WORD
  <2>1. l.huffSize + l.huffStart \in Nat
    BY <1>1
  <2> QED
    BY <2>1, Constants DEF StreamEnd
<1> QED
  BY <1>1, <1>2, <1>3, <1>4, <1>5

\* The parts of FTPR.
LEMMA Types ==
  ASSUME fw \in Firmware
  PROVE  /\ fw.offset \in Nat /\ fw.offset > 0 /\ fw.length \in Nat
         /\ Original \in Llut
         /\ DOMAIN Modules = 1 .. Len(Modules) /\ Len(Modules) \in Nat
         /\ \A m \in DOMAIN Modules :
              /\ Modules[m].place \in Nat /\ Modules[m].size \in Nat
              /\ Modules[m].memory \in Nat /\ Modules[m].base \in Int
              /\ Modules[m].base < WORD /\ Modules[m].base > -WORD
              /\ Modules[m].comp \in {"plain", "huffman", "other"}
              /\ Modules[m].stays \in BOOLEAN
              /\ Start(m) \in Nat /\ End(m) \in Nat
              /\ fw.offset <= Start(m) /\ Start(m) <= End(m)
<1>1. /\ fw.offset \in Nat /\ fw.offset > 0 /\ fw.length \in Nat
      /\ Original \in Llut /\ Modules \in Seq(Module)
  BY DEF Firmware, Original, Modules
<1>2. DOMAIN Modules = 1 .. Len(Modules) /\ Len(Modules) \in Nat
  BY <1>1
<1>3. \A m \in DOMAIN Modules : Modules[m] \in Module
  BY <1>1, ElementOfSeq
<1>4. \A m \in DOMAIN Modules :
         /\ Modules[m].place \in Nat /\ Modules[m].size \in Nat
         /\ Modules[m].memory \in Nat /\ Modules[m].base \in Int
         /\ Modules[m].base < WORD /\ Modules[m].base > -WORD
         /\ Modules[m].comp \in {"plain", "huffman", "other"}
         /\ Modules[m].stays \in BOOLEAN
  BY <1>3, Constants DEF Module
<1>5. \A m \in DOMAIN Modules :
         /\ Start(m) \in Nat /\ End(m) \in Nat
         /\ fw.offset <= Start(m) /\ Start(m) <= End(m)
  BY <1>1, <1>4 DEF Start, End
<1> QED
  BY <1>1, <1>2, <1>4, <1>5

\* The offset 0 is no data, and the end of a range that has data is an offset
\* of the LLUT's, not before the start.
LEMMA RangeTypes ==
  ASSUME NEW l \in Llut, ~NoSuccessor(l)
  PROVE  /\ GetChunksOffsets(l) \in Seq(ChunkRange)
         /\ DOMAIN GetChunksOffsets(l) = DOMAIN l.chunks
         /\ Len(GetChunksOffsets(l)) = Len(l.chunks)
         /\ \A c \in DOMAIN l.chunks :
              LET r == GetChunksOffsets(l)[c] IN
              /\ r \in ChunkRange /\ r.start = Offset(l, c)
              /\ Offset(l, c) = 0 => r.end = 0
              /\ Offset(l, c) # 0 =>
                   /\ r.end >= r.start
                   /\ r.end = StreamEnd(l) \/ \E d \in DOMAIN l.chunks : r.end = Offset(l, d)
                   /\ Twice(l, Offset(l, c)) => r.end = r.start
                   /\ ~Twice(l, Offset(l, c)) =>
                        /\ r.end \in Larger(l, r.start)
                        /\ \A w \in Larger(l, r.start) : r.end <= w
<1>1. /\ DOMAIN l.chunks = 1 .. Len(l.chunks) /\ Len(l.chunks) \in Nat
      /\ \A c \in DOMAIN l.chunks : Offset(l, c) \in Nat
      /\ StreamEnd(l) \in Nat
  BY LlutTypes
<1>2. /\ GetChunksOffsets(l) = [c \in 1 .. Len(l.chunks) |-> GetChunksOffsets(l)[c]]
      /\ DOMAIN GetChunksOffsets(l) = DOMAIN l.chunks
  BY <1>1 DEF GetChunksOffsets
<1>3. ASSUME NEW c \in DOMAIN l.chunks
      PROVE  LET r == GetChunksOffsets(l)[c] IN
              /\ r \in ChunkRange /\ r.start = Offset(l, c)
              /\ Offset(l, c) = 0 => r.end = 0
              /\ Offset(l, c) # 0 =>
                   /\ r.end >= r.start
                   /\ r.end = StreamEnd(l) \/ \E d \in DOMAIN l.chunks : r.end = Offset(l, d)
                   /\ Twice(l, Offset(l, c)) => r.end = r.start
                   /\ ~Twice(l, Offset(l, c)) =>
                        /\ r.end \in Larger(l, r.start)
                        /\ \A w \in Larger(l, r.start) : r.end <= w
  <2> DEFINE v == Offset(l, c)
             r == GetChunksOffsets(l)[c]
  <2>1. /\ r = [start |-> v,
                end |-> IF v = 0 THEN 0 ELSE IF Twice(l, v) THEN v
                        ELSE Min(Larger(l, v))]
    BY DEF GetChunksOffsets
  <2>2. /\ r.start = v
        /\ r.end = IF v = 0 THEN 0 ELSE IF Twice(l, v) THEN v ELSE Min(Larger(l, v))
        /\ r.end \in Nat => r \in ChunkRange
    BY <1>1, <2>1 DEF ChunkRange
  <2>3. v \in Nat
    BY <1>1
  <2>4. ASSUME v # 0, ~Twice(l, v)
        PROVE  /\ Min(Larger(l, v)) \in Larger(l, v)
               /\ \A w \in Larger(l, v) : Min(Larger(l, v)) <= w
               /\ \A w \in Larger(l, v) :
                    /\ w \in Nat /\ w > v
                    /\ w = StreamEnd(l) \/ \E d \in DOMAIN l.chunks : w = Offset(l, d)
    <3>1. Larger(l, v) # {}
      BY <2>4 DEF NoSuccessor
    <3>2. \A w \in Larger(l, v) :
            /\ w \in Nat /\ w > v
            /\ w = StreamEnd(l) \/ \E d \in DOMAIN l.chunks : w = Offset(l, d)
      BY <1>1 DEF Larger
    <3>3. Larger(l, v) \in SUBSET Nat
      BY <3>2
    <3> QED
      BY <3>1, <3>2, <3>3, Least
  <2> HIDE DEF r
  <2>5. CASE v = 0
    <3>1. r.end = 0 /\ r.start = 0 /\ r \in ChunkRange
      BY <2>2, <2>5
    <3> QED
      BY <2>5, <3>1 DEF r
  <2>6. CASE v # 0 /\ Twice(l, v)
    <3>1. r.end = v /\ r.start = v /\ r \in ChunkRange
      BY <2>2, <2>3, <2>6
    <3> QED
      BY <2>3, <2>6, <3>1 DEF r
  <2>7. CASE v # 0 /\ ~Twice(l, v)
    <3>1. r.end = Min(Larger(l, v))
      BY <2>2, <2>7
    <3> DEFINE e == Min(Larger(l, v))
    <3>2. /\ e \in Larger(l, v) /\ e \in Nat /\ e > v
          /\ \A w \in Larger(l, v) : e <= w
          /\ e = StreamEnd(l) \/ \E d \in DOMAIN l.chunks : e = Offset(l, d)
      BY <2>4, <2>7
    <3> HIDE DEF e
    <3>3. r.end = e /\ r.start = v /\ r \in ChunkRange
      BY <2>2, <3>1, <3>2 DEF e
    <3> QED
      BY <2>3, <2>7, <3>2, <3>3 DEF r
  <2> QED
    BY <2>2, <2>3, <2>5, <2>6, <2>7 DEF r
<1>4. \A c \in 1 .. Len(l.chunks) : GetChunksOffsets(l)[c] \in ChunkRange
  BY <1>1, <1>3
<1>5. GetChunksOffsets(l) \in Seq(ChunkRange)
  BY <1>1, <1>2, <1>4
<1>6. Len(GetChunksOffsets(l)) = Len(l.chunks)
  BY <1>1, <1>2, <1>5
<1> QED
  BY <1>2, <1>3, <1>5, <1>6

\* In a sound LLUT a chunk is the range computed for it, and no two overlap.
LEMMA ChunkIsRange ==
  ASSUME fw \in Firmware, Sound, NEW c \in DOMAIN Original.chunks
  PROVE  /\ Ranges[c] \in ChunkRange
         /\ HoldsData(c) => /\ Ranges[c].start = Offset(Original, c)
                            /\ Ranges[c].start < Ranges[c].end
         /\ ~HoldsData(c) => Ranges[c].start = 0 /\ Ranges[c].end = 0
         /\ \A d \in Int : InChunk(d, c)
                           <=> Within(ME, d, Ranges[c].start, Ranges[c].end)
<1> DEFINE v == Offset(Original, c)
           r == Ranges[c]
<1>1. /\ r \in ChunkRange /\ r.start = v
      /\ v = 0 => r.end = 0
      /\ v # 0 => /\ ~Twice(Original, v)
                  /\ r.end \in Larger(Original, v)
                  /\ \A w \in Larger(Original, v) : r.end <= w
  BY Types, RangeTypes DEF Sound, HoldsData, Ranges
<1>2. v \in Nat /\ \A w \in Larger(Original, v) : w \in Nat /\ w > v
  BY Types, LlutTypes DEF Larger
<1>3. ME.start \in Nat /\ r.start \in Nat /\ r.end \in Nat
  BY <1>1, Constants DEF ChunkRange
<1>4. \A d \in Int : InChunk(d, c) <=>
         /\ v # 0 /\ ME.start + v <= d
         /\ \A w \in Larger(Original, v) : d < ME.start + w
         /\ Larger(Original, v) # {}
  BY DEF InChunk, HoldsData
<1>5. HoldsData(c) <=> v # 0
  BY DEF HoldsData
<1> HIDE DEF v, r
<1>6. CASE v = 0
  <2>1. r.start = 0 /\ r.end = 0
    BY <1>1, <1>6
  <2>2. \A d \in Int : ~Within(ME, d, r.start, r.end)
    BY <1>3, <2>1 DEF Within
  <2> QED
    BY <1>1, <1>4, <1>5, <1>6, <2>1, <2>2 DEF r
<1>7. CASE v # 0
  <2>1. r.start < r.end
    BY <1>1, <1>2, <1>7
  <2>2. \A d \in Int : InChunk(d, c) <=> Within(ME, d, r.start, r.end)
    <3> TAKE d \in Int
    <3>1. ASSUME d < ME.start + r.end, NEW w \in Larger(Original, v)
          PROVE  d < ME.start + w
      <4>1. r.end <= w /\ w \in Nat
        BY <1>1, <1>2, <1>7
      <4> QED
        BY <1>3, <3>1, <4>1
    <3> QED
      BY <1>1, <1>3, <1>4, <1>7, <3>1 DEF Within
  <2> QED
    BY <1>1, <1>5, <1>7, <2>1, <2>2 DEF r, v
<1> QED
  BY <1>6, <1>7

LEMMA ChunksApart ==
  ASSUME fw \in Firmware, Sound,
         NEW c \in DOMAIN Original.chunks, NEW e \in DOMAIN Original.chunks,
         HoldsData(c), HoldsData(e), c # e
  PROVE  \/ Ranges[c].end <= Ranges[e].start
         \/ Ranges[e].end <= Ranges[c].start
<1> DEFINE v == Offset(Original, c)
           w == Offset(Original, e)
<1>1. /\ Ranges[c].start = v /\ ~Twice(Original, v)
      /\ \A o \in Larger(Original, v) : Ranges[c].end <= o
      /\ Ranges[e].start = w
      /\ \A o \in Larger(Original, w) : Ranges[e].end <= o
  BY Types, RangeTypes DEF Sound, HoldsData, Ranges
<1>2. v # w
  BY <1>1 DEF Twice
<1>3. v \in Nat /\ w \in Nat
  BY Types, LlutTypes
<1>4. /\ w > v => w \in Larger(Original, v)
      /\ v > w => v \in Larger(Original, w)
  BY DEF Larger
<1> QED
  BY <1>1, <1>2, <1>3, <1>4

\* The chunks the code counts for a module are those the module needs, and
\* the one that starts where it ends.
LEMMA ChunksCounted ==
  ASSUME fw \in Firmware, Sound, llut = Original,
         NEW m \in Huffman, NEW c \in DOMAIN Original.chunks
  PROVE  /\ Needs(m, c) => c - 1 \in First(m) .. Last(m)
         /\ c - 1 \in First(m) .. Last(m) =>
              /\ (c - 1) * Original.chunkSize <= Modules[m].base + Modules[m].memory
              /\ c * Original.chunkSize > Modules[m].base
<1> DEFINE b == Modules[m].base
           n == Modules[m].memory
           s == Original.chunkSize
<1>1. /\ b \in Nat /\ b < WORD /\ n \in Nat /\ b % s = 0
      /\ s \in Nat \ {0} /\ c \in Nat \ {0}
  <2>1. /\ m \in DOMAIN Modules
        /\ Modules[m].base >= 0 /\ Modules[m].base % Original.chunkSize = 0
        /\ Original.chunkSize > 0
    BY DEF Huffman, Sound
  <2>2. Original \in Llut
    BY Types
  <2>3. Original.chunkSize \in Nat /\ c \in 1 .. Len(Original.chunks)
    BY <2>2, LlutTypes
  <2> QED
    BY <2>1, <2>3, Types
<1>2. b % WORD = b
  BY <1>1, Constants
<1>3. First(m) = b \div s /\ Last(m) = b \div s + n \div s
  BY <1>2 DEF First, Last
<1> QED
  BY <1>1, <1>3, ChunksOfModule DEF Needs

\* FTPR's extent is what it is meant to be.
LEMMA ExtentBounds ==
  ASSUME fw \in Firmware
  PROVE  /\ Extent \in Int /\ fw.length <= Extent
         /\ \A m \in DOMAIN Modules : Modules[m].place + Modules[m].size <= Extent
         /\ StreamEnd(Original) - fw.offset <= Extent
         /\ \A c \in DOMAIN Original.chunks :
              Offset(Original, c) - fw.offset <= Extent
<1> DEFINE Ends == [m \in DOMAIN Modules |-> Modules[m].place + Modules[m].size]
           S == {fw.length} \cup {Modules[m].place + Modules[m].size : m \in DOMAIN Modules}
                \cup {StreamEnd(Original) - fw.offset}
                \cup {Offset(Original, c) - fw.offset : c \in DOMAIN Original.chunks}
<1>1. /\ fw.length \in Nat /\ fw.offset \in Nat
      /\ DOMAIN Modules = 1 .. Len(Modules) /\ Len(Modules) \in Nat
      /\ \A m \in DOMAIN Modules :
           Modules[m].place \in Nat /\ Modules[m].size \in Nat
  BY Types
<1>2. /\ StreamEnd(Original) \in Nat /\ StreamEnd(Original) < WORD
      /\ \A c \in DOMAIN Original.chunks :
           Offset(Original, c) \in Nat /\ Offset(Original, c) < OffsetValues
      /\ WORD \in Nat /\ OffsetValues \in Nat
  BY Types, LlutTypes, Constants
<1>3. PICK B \in Int : \A m \in 1 .. Len(Modules) : Ends[m] <= B
  <2>1. \A m \in 1 .. Len(Modules) : Ends[m] \in Int
    BY <1>1
  <2> HIDE DEF Ends
  <2> QED
    BY <1>1, <2>1, LargestOfList
<1>4. \A m \in DOMAIN Modules : Modules[m].place + Modules[m].size <= B
  BY <1>1, <1>3
<1>5. PICK C \in Int : C >= B /\ C >= fw.length /\ C >= WORD /\ C >= OffsetValues
  <2>1. \E C \in Int : C >= B /\ C >= 0
    <3>1. (IF B < 0 THEN 0 ELSE B) \in Int
      OBVIOUS
    <3> QED
      BY <3>1
  <2>2. PICK C \in Int : C >= B /\ C >= 0
    BY <2>1
  <2>3. LET D == C + fw.length + WORD + OffsetValues
        IN  D \in Int /\ D >= B /\ D >= fw.length /\ D >= WORD /\ D >= OffsetValues
    BY SMTT(30), <1>1, <1>2, <2>2
  <2> QED
    BY <2>3
<1>6. S \in SUBSET Int /\ fw.length \in S /\ \A x \in S : x <= C
  BY SMTT(30), <1>1, <1>2, <1>4, <1>5
<1>7. Extent = Max(S)
  BY DEF Extent
<1>8. /\ fw.length \in S /\ StreamEnd(Original) - fw.offset \in S
      /\ \A m \in DOMAIN Modules : Modules[m].place + Modules[m].size \in S
      /\ \A c \in DOMAIN Original.chunks : Offset(Original, c) - fw.offset \in S
  OBVIOUS
<1> HIDE DEF S
<1>9. Max(S) \in S /\ \A x \in S : x <= Max(S)
  BY <1>6, Largest
<1> QED
  BY <1>6, <1>7, <1>8, <1>9

\* Where FTPR is moved to, and how much of it.
LEMMA MoveBounds ==
  ASSUME fw \in Firmware, llut \in Llut, HeadersInRegion
  PROVE  /\ fw.offset <= MeLen
         /\ MoveSize \in Nat /\ MoveSize <= fw.length
         /\ fw.offset + MoveSize <= MeLen
         /\ NewOffset \in Nat /\ NewOffset > 0 /\ Diff \in Int
         /\ Diff = NewOffset - fw.offset
         /\ Huffman # {} =>
              /\ LlutStart \in Nat /\ fw.offset <= LlutStart
              /\ LlutStart + Diff + LLUT_HEAD >= llut.corr
<1>1. fw.offset \in Nat /\ fw.length \in Nat
  BY Types
<1>2. fw.offset <= MeLen
  <2>1. Max({PROBE, Len(Modules)}) \in Nat
    BY Types, Constants, LargerOfTwo
  <2> QED
    BY <1>1, <2>1, Constants DEF HeadersInRegion, Check
<1>3. /\ MoveSize \in Nat /\ MoveSize <= fw.length
      /\ fw.offset + MoveSize <= MeLen
  BY <1>1, <1>2, Constants, LesserOfTwo DEF MoveSize
<1>4. ASSUME Huffman # {}
      PROVE  LlutStart \in Nat /\ fw.offset <= LlutStart
  <2>1. Huffman \in SUBSET Nat
    BY Types DEF Huffman
  <2>2. Min(Huffman) \in Huffman
    BY <1>4, <2>1, Least
  <2> QED
    BY <2>2, Types DEF LlutStart, Huffman
<1>5. /\ NewOffset \in Nat /\ NewOffset > 0
      /\ Huffman # {} => NewOffset >= MinNew /\ MinNew \in Int
  <2>1. CASE Huffman = {}
    BY <2>1, Constants DEF NewOffset
  <2>2. CASE Huffman # {}
    <3>1. MinNew \in Int
      BY SMTT(30), <1>1, <1>4, <2>2, LlutTypes, Constants DEF MinNew
    <3> DEFINE n == Max({MIN_FTPR_OFFSET, MinNew})
    <3>2. n \in Nat /\ n > 0 /\ n >= MinNew
      BY <3>1, Constants, LargerOfTwo
    <3>3. NewOffset = RoundUp(n)
      BY <2>2 DEF NewOffset
    <3> HIDE DEF n
    <3> QED
      BY <3>1, <3>2, <3>3, RoundedUp
  <2> QED
    BY <2>1, <2>2
<1>6. Diff \in Int /\ Diff = NewOffset - fw.offset
  BY <1>1, <1>5 DEF Diff
<1>7. ASSUME Huffman # {}
      PROVE  LlutStart + Diff + LLUT_HEAD >= llut.corr
  <2>1. llut.corr \in Nat /\ LlutStart \in Nat /\ LLUT_HEAD \in Nat
    BY <1>4, <1>7, LlutTypes, Constants
  <2>2. NewOffset >= llut.corr - LlutStart - LLUT_HEAD + fw.offset
    BY <1>5, <1>7 DEF MinNew
  <2> QED
    BY <1>1, <1>5, <1>6, <2>1, <2>2
<1> QED
  BY <1>2, <1>3, <1>4, <1>5, <1>6, <1>7
-----------------------------------------------------------------------------
\* What is derived from FTPR and its LLUT stays as they do.
LEMMA SameFtpr ==
  ASSUME fw' = fw
  PROVE  /\ Modules' = Modules /\ Huffman' = Huffman /\ LlutStart' = LlutStart
         /\ Original' = Original /\ Extent' = Extent /\ MoveSize' = MoveSize
         /\ Ranges' = Ranges /\ Vital' = Vital
         /\ \A m : Start(m)' = Start(m) /\ End(m)' = End(m)
         /\ \A c : HoldsData(c)' <=> HoldsData(c)
         /\ \A d, m : InPlain(d, m)' <=> InPlain(d, m)
         /\ \A d : InFtpr(d)' <=> InFtpr(d)
         /\ \A d : Unneeded(d)' <=> Unneeded(d)
         /\ Sound' <=> Sound
         /\ ChunksInFtpr' <=> ChunksInFtpr
         /\ HeadersInRegion' <=> HeadersInRegion
         /\ llut' = llut => \A m : CoveredBy(m)' = CoveredBy(m)
         /\ llut'.corr = llut.corr => NewOffset' = NewOffset /\ Diff' = Diff
<1>1. /\ Modules' = Modules /\ Huffman' = Huffman /\ Original' = Original
      /\ \A m : Start(m)' = Start(m) /\ End(m)' = End(m)
      /\ LlutStart' = LlutStart
  BY DEF Modules, Huffman, Original, Start, End, LlutStart
<1>2. /\ Extent' = Extent /\ MoveSize' = MoveSize /\ Ranges' = Ranges
      /\ \A c : HoldsData(c)' <=> HoldsData(c)
      /\ \A d, m : InPlain(d, m)' <=> InPlain(d, m)
      /\ \A d : InFtpr(d)' <=> InFtpr(d)
      /\ HeadersInRegion' <=> HeadersInRegion
      /\ ChunksInFtpr' <=> ChunksInFtpr
  BY <1>1 DEF Extent, MoveSize, Ranges, HoldsData, InPlain, InFtpr, Within,
              HeadersInRegion, Check, ChunksInFtpr
<1>3. /\ \A d, c : InChunk(d, c)' <=> InChunk(d, c)
      /\ \A m, c : Needs(m, c)' <=> Needs(m, c)
      /\ \A c : Spared(c)' <=> Spared(c)
      /\ Sound' <=> Sound
  BY <1>1, <1>2 DEF InChunk, Needs, Spared, Sound
<1>4. \A d, m : InHuffman(d, m)' <=> InHuffman(d, m)
  BY <1>1, <1>3 DEF InHuffman
<1>5. Vital' = Vital /\ \A d : Unneeded(d)' <=> Unneeded(d)
  BY <1>1, <1>2, <1>3, <1>4 DEF Vital, Unneeded
<1>6. llut' = llut => \A m : CoveredBy(m)' = CoveredBy(m)
  BY <1>1, <1>2 DEF CoveredBy, First, Last
<1>7. llut'.corr = llut.corr => NewOffset' = NewOffset /\ Diff' = Diff
  BY <1>1 DEF NewOffset, Diff, MinNew
<1> QED
  BY <1>1, <1>2, <1>3, <1>5, <1>6, <1>7

\* Nothing is known of an image that has not been touched but that.
LEMMA InitInv == Init => IInv
<1> SUFFICES ASSUME Init PROVE IInv
  OBVIOUS
<1>1. /\ fw \in Firmware /\ pc = "start" /\ result = None /\ buf = Image
      /\ llut = Original /\ move = NoMove /\ chunks = <<>> /\ unremovable = {}
      /\ i = 1 /\ endAddr = 0 /\ ftprOffset = fw.offset
  BY FirmwareAssumption DEF Init, Original, NoMove
<1>2. i \in 1 .. Max({Len(Modules), Len(llut.chunks)}) + 1
  <2>1. Len(Modules) \in Nat /\ Len(llut.chunks) \in Nat
    BY <1>1, Types, LlutTypes
  <2> QED
    BY <1>1, <2>1, LargerOfTwo
<1>3. TypeOK
  <2>1. Image \in [Addr -> Addr \cup {FF}] /\ NoMove \in [from : Nat, to : Nat, size : Nat, i : Nat]
    BY DEF Image, NoMove
  <2> QED
    BY <1>1, <1>2, <2>1, Types DEF TypeOK
<1>4. Phase /\ Loaded
  BY <1>1 DEF Phase, Loaded, PassBuf, Working, Stripped, Relocated
<1>5. \A a \in Addr : PassBuf[a] = a
  BY <1>1 DEF PassBuf, Image
<1>6. Framed /\ Intact
  BY <1>5 DEF Framed, Intact, Vital
<1>7. Found /\ Marked /\ Covered /\ Gone /\ Left /\ Moving
  BY <1>1 DEF Found, Marked, Covered, Gone, Left, Moving, Working, Stripped, Relocated
<1> QED
  BY <1>3, <1>4, <1>6, <1>7 DEF IInv

\* What the pass leaves is not None.
LEMMA PassedIsResult ==
  ASSUME TypeOK, NEW st \in {"done", "declined", "failed"},
         NEW e \in Int \cup {None}
  PROVE  /\ [status |-> st, buf |-> buf, end |-> e] \in Results
         /\ [status |-> st, buf |-> buf, end |-> e] # None
<1>1. [status |-> st, buf |-> buf, end |-> e] \in Results
  BY DEF TypeOK, Results
<1> QED
  BY <1>1, NoneAssumption

\* Bytes that stay as they are keep what is said of them.
LEMMA SameBytes ==
  ASSUME Framed, Intact, fw' = fw, PassBuf' = PassBuf
  PROVE  Framed' /\ Intact'
<1>1. Framed'
  BY SameFtpr DEF Framed, Within
<1>2. Intact'
  BY SameFtpr DEF Intact
<1> QED
  BY <1>1, <1>2

\* The pass over, its result does not change.
LEMMA Over ==
  ASSUME IInv, result # None, result' = result, UNCHANGED inputs,
         pc' \notin {"start", "modules", "chunks"}
  PROVE  Framed' /\ Intact' /\ Found' /\ Marked' /\ Covered' /\ Gone' /\ Left'
<1> USE DEF IInv, inputs
<1>1. PassBuf' = PassBuf
  BY DEF PassBuf
<1>2. Framed' /\ Intact'
  BY <1>1, SameBytes
<1>3. Found' /\ Marked' /\ Covered' /\ Gone'
  BY DEF Found, Marked, Covered, Gone, Working
<1>4. Left'
  BY SameFtpr DEF Left, Stripped
<1> QED
  BY <1>2, <1>3, <1>4

\* The pass ends without having taken anything out.
LEMMA EndInv ==
  ASSUME IInv, ReadFails \/ Decline \/ KeepModules \/ LlutMissing \/ HuffmanPanics
  PROVE  IInv'
<1> USE DEF IInv
<1>1. /\ fw' = fw /\ keepModules' = keepModules /\ relocate' = relocate
      /\ checks' = checks /\ buf' = buf /\ llut' = llut /\ chunks' = chunks
      /\ unremovable' = unremovable /\ i' = i /\ ftprOffset' = ftprOffset
      /\ move' = move
  BY DEF ReadFails, Decline, KeepModules, LlutMissing, HuffmanPanics, inputs
<1>2. /\ pc \in {"start", "modules"} /\ result = None
      /\ ~Relocated /\ PassBuf = buf /\ move = NoMove /\ llut = Original
      /\ pc = "start" => endAddr = 0
  BY DEF ReadFails, Decline, KeepModules, LlutMissing, HuffmanPanics, At,
         Phase, PassBuf, Relocated, Loaded
<1>3. /\ fw \in Firmware /\ fw.offset \in Nat /\ fw.length \in Nat /\ endAddr \in Int
  BY Types DEF TypeOK
<1>4. \/ /\ pc' \in {"err", "declined", "panic"} /\ endAddr' = endAddr
         /\ \/ result' = [status |-> "failed", buf |-> buf, end |-> None]
            \/ result' = [status |-> "declined", buf |-> buf, end |-> None]
      \/ /\ pc' = "relocate" /\ endAddr' = fw.offset + fw.length
         /\ result' = [status |-> "done", buf |-> buf, end |-> endAddr']
         /\ keepModules /\ HeadersInRegion
  BY DEF ReadFails, Decline, KeepModules, LlutMissing, HuffmanPanics, Passed
<1>5. /\ endAddr' \in Int /\ result' \in Results /\ result' # None /\ result'.buf = buf
      /\ result'.status = "done" =>
           /\ pc' = "relocate" /\ result'.end = endAddr' /\ keepModules
           /\ HeadersInRegion /\ result'.end = fw.offset + fw.length
      /\ pc' = "relocate" => result'.status = "done"
  <2>1. CASE pc' \in {"err", "declined", "panic"}
    BY <1>3, <1>4, <2>1, PassedIsResult
  <2>2. CASE pc' = "relocate"
    <3>1. endAddr' \in Int
      BY <1>3, <1>4, <2>2
    <3>2. result' = [status |-> "done", buf |-> buf, end |-> endAddr']
      BY <1>4, <2>2
    <3> QED
      BY <1>3, <1>4, <2>2, <3>1, <3>2, PassedIsResult
  <2> QED
    BY <1>4, <2>1, <2>2
<1>6. pc' \in {"err", "declined", "panic", "relocate"}
  BY <1>4
<1>7. ~Relocated'
  BY <1>1, <1>5, <1>6 DEF Relocated, Stripped
<1>8. TypeOK'
  <2>1. Modules' = Modules
    BY <1>1, SameFtpr
  <2> QED
    BY <1>1, <1>5, <1>6, <2>1 DEF TypeOK
<1>9. PassBuf' = PassBuf
  BY <1>2, <1>5 DEF PassBuf
<1>10. Phase'
  BY <1>1, <1>2, <1>5, <1>6, <1>7, <1>9, SameFtpr DEF Phase, Stripped, Working, NoMove
<1>11. Loaded'
  BY <1>1, <1>2, <1>7, SameFtpr DEF Loaded
<1>12. Framed' /\ Intact'
  BY <1>1, <1>9, SameBytes
<1>13. Found' /\ Marked' /\ Covered' /\ Gone' /\ Moving'
  BY <1>6, <1>7 DEF Found, Marked, Covered, Gone, Moving, Working
<1>14. Left'
  <2> SUFFICES ASSUME result'.status = "done"
               PROVE  /\ ~keepModules' => FALSE
                      /\ \A d \in Vital' : d < ME.start + result'.end
    BY DEF Left, Stripped
  <2>1. keepModules' /\ Vital' = Vital /\ HeadersInRegion
    BY <1>1, <1>5, SameFtpr
  <2>2. ASSUME NEW d \in Vital
        PROVE  d < ME.start + result'.end
    <3>1. /\ d \in Nat /\ d < ME.start + (fw.offset + MoveSize)
      BY Constants DEF Vital, InFtpr, Within
    <3>2. MoveSize \in Nat /\ MoveSize <= fw.length
      BY <1>3, <2>1, MoveBounds DEF TypeOK
    <3>3. result'.end = fw.offset + fw.length
      BY <1>5
    <3> QED
      BY <1>3, <3>1, <3>2, <3>3, Constants
  <2> QED
    BY <2>1, <2>2
<1> QED
  BY <1>8, <1>10, <1>11, <1>12, <1>13, <1>14
-----------------------------------------------------------------------------
\* The loop counter reaches behind the modules, and behind the chunks.
LEMMA CounterBound ==
  ASSUME fw \in Firmware, NEW l \in Llut
  PROVE  /\ Max({Len(Modules), Len(l.chunks)}) \in Nat
         /\ Len(Modules) <= Max({Len(Modules), Len(l.chunks)})
         /\ Len(l.chunks) <= Max({Len(Modules), Len(l.chunks)})
         /\ Len(Modules) \in Nat /\ Len(l.chunks) \in Nat
<1>1. Len(Modules) \in Nat /\ Len(l.chunks) \in Nat
  BY Types, LlutTypes
<1> QED
  BY <1>1, LargerOfTwo

\* What every turn of the two loops leaves alone.
LEMMA TurnInv ==
  ASSUME IInv, result = None, ~keepModules, HeadersInRegion,
         UNCHANGED <<inputs, llut, ftprOffset, move, result>>,
         pc' \in {"modules", "chunks"},
         buf' \in [Addr -> Addr \cup {FF}],
         chunks' \in Seq(ChunkRange), unremovable' \in SUBSET ChunkRange,
         endAddr' \in Int,
         i' \in Nat, 1 <= i',
         i' <= Len(Modules) + 1 \/ i' <= Len(Original.chunks) + 1
  PROVE  TypeOK' /\ Phase' /\ Loaded' /\ Left' /\ Moving'
<1> USE DEF IInv
<1>1. /\ ~Relocated /\ move = NoMove /\ llut = Original /\ fw \in Firmware
      /\ fw' = fw /\ keepModules' = keepModules /\ relocate' = relocate
      /\ checks' = checks
  BY DEF Phase, Loaded, Relocated, Stripped, TypeOK, inputs
<1>2. ~Relocated' /\ ~Stripped' /\ PassBuf' = buf'
  BY DEF Relocated, Stripped, PassBuf
<1>3. i' \in 1 .. Max({Len(Modules), Len(llut.chunks)}) + 1
  <2> DEFINE M == Max({Len(Modules), Len(llut.chunks)})
  <2>1. /\ M \in Nat /\ Len(Modules) <= M /\ Len(Original.chunks) <= M
        /\ Len(Modules) \in Nat /\ Len(Original.chunks) \in Nat
    BY <1>1, Types, CounterBound
  <2> HIDE DEF M
  <2>3. i' \in 1 .. M + 1
    BY <2>1
  <2> QED
    BY <2>3 DEF M
<1>4. TypeOK'
  BY <1>1, <1>3, SameFtpr DEF TypeOK
<1>5. Phase' /\ Loaded'
  BY <1>1, <1>2, SameFtpr DEF Phase, Loaded, Working
<1>6. Left' /\ Moving'
  BY <1>2 DEF Left, Moving
<1> QED
  BY <1>4, <1>5, <1>6

\* The modules that are to be removed are yet to be read.
LEMMA RemoveInv ==
  ASSUME IInv, RemoveModules
  PROVE  IInv'
<1> USE DEF IInv
<1>1. /\ result = None /\ ~keepModules /\ HeadersInRegion
      /\ UNCHANGED <<inputs, llut, ftprOffset, move, result>>
      /\ pc' = "modules" /\ buf' = buf /\ chunks' = chunks /\ chunks = <<>>
      /\ unremovable' = unremovable /\ unremovable = {} /\ endAddr' = endAddr
      /\ endAddr = 0 /\ i' = i /\ i = 1 /\ fw' = fw
  BY DEF RemoveModules, Phase, inputs
<1>2. fw \in Firmware /\ Len(Modules) \in Nat
  BY Types DEF TypeOK
<1>3. TypeOK' /\ Phase' /\ Loaded' /\ Left' /\ Moving'
  BY <1>1, <1>2, TurnInv DEF TypeOK
<1>4. Framed' /\ Intact'
  BY <1>1, SameBytes DEF PassBuf
<1>5. Found' /\ Marked' /\ Covered' /\ Gone'
  BY <1>1 DEF Found, Marked, Covered, Gone, Scanned
<1> QED
  BY <1>3, <1>4, <1>5

\* What a turn of the first loop finds.
LEMMA AtModule ==
  ASSUME IInv, pc = "modules", i <= Len(Modules)
  PROVE  /\ fw \in Firmware /\ i \in DOMAIN Modules /\ i \in Nat
         /\ i + 1 \in Nat /\ 1 <= i + 1 /\ i + 1 <= Len(Modules) + 1
         /\ result = None /\ ~keepModules /\ HeadersInRegion /\ llut = Original
         /\ PassBuf = buf /\ Working
         /\ Scanned = 1 .. i - 1
         /\ i' = i + 1 /\ pc' = pc => \A m \in Scanned' : m \in Scanned \/ m = i
         /\ \A m \in Scanned : m \in DOMAIN Modules
<1> USE DEF IInv
<1>1. /\ fw \in Firmware /\ result = None /\ Working /\ ~keepModules
      /\ HeadersInRegion /\ PassBuf = buf /\ llut = Original
  BY DEF TypeOK, Phase, Loaded, Working, PassBuf, Relocated, Stripped
<1>2. /\ DOMAIN Modules = 1 .. Len(Modules) /\ Len(Modules) \in Nat /\ i \in Nat
      /\ 1 <= i
  <2>1. Len(llut.chunks) \in Nat /\ Len(Modules) \in Nat
    BY <1>1, Types, LlutTypes
  <2>2. Max({Len(Modules), Len(llut.chunks)}) \in Nat
    BY <2>1, LargerOfTwo
  <2>3. i \in Nat /\ 1 <= i
    BY <2>2 DEF TypeOK
  <2> QED
    BY <1>1, <2>1, <2>3, Types
<1>3. Scanned = 1 .. i - 1
  BY DEF Scanned
<1>4. ASSUME i' = i + 1, pc' = pc
      PROVE  \A m \in Scanned' : m \in Scanned \/ m = i
  BY <1>2, <1>3, <1>4 DEF Scanned
<1> QED
  BY <1>1, <1>2, <1>3, <1>4

\* A plain module that stays raises the end to its own.
LEMMA KeepPlainInv ==
  ASSUME IInv, KeepPlain
  PROVE  IInv'
<1> USE DEF IInv
<1>1. /\ pc = "modules" /\ i <= Len(Modules)
      /\ Modules[i].comp = "plain" /\ Modules[i].stays
      /\ endAddr' = Max({endAddr, End(i)}) /\ i' = i + 1
      /\ UNCHANGED <<inputs, llut, ftprOffset, move, result>>
      /\ buf' = buf /\ chunks' = chunks /\ unremovable' = unremovable /\ pc' = pc
      /\ fw' = fw /\ llut' = llut /\ result' = result
  BY DEF KeepPlain, At, inputs
<1>2. /\ endAddr \in Int /\ End(i) \in Nat
      /\ End(i) >= fw.offset /\ End(i) <= fw.offset + Extent
      /\ Extent \in Int /\ fw.offset \in Nat
  <2>1. i \in DOMAIN Modules /\ fw \in Firmware
    BY <1>1, AtModule
  <2>2. Modules[i].place + Modules[i].size <= Extent /\ Extent \in Int
    BY <2>1, ExtentBounds
  <2>3. /\ Modules[i].place \in Nat /\ Modules[i].size \in Nat /\ fw.offset \in Nat
        /\ End(i) \in Nat /\ fw.offset <= Start(i) /\ Start(i) <= End(i)
        /\ Start(i) \in Nat
    BY <2>1, Types
  <2>4. End(i) = fw.offset + Modules[i].place + Modules[i].size
    BY DEF End, Start
  <2>5. endAddr \in Int
    BY DEF TypeOK
  <2> QED
    BY <2>2, <2>3, <2>4, <2>5
<1>3. /\ endAddr' \in {endAddr, End(i)} /\ endAddr' \in Int
      /\ endAddr <= endAddr' /\ End(i) <= endAddr'
  BY <1>1, <1>2, LargerOfTwo
<1>4. TypeOK' /\ Phase' /\ Loaded' /\ Left' /\ Moving'
  BY <1>1, <1>3, AtModule, TurnInv DEF TypeOK
<1>5. Framed' /\ Intact'
  BY <1>1, SameBytes DEF PassBuf
<1>6. Modules' = Modules /\ \A m \in Scanned' : m \in Scanned \/ m = i
  BY <1>1, AtModule, SameFtpr
<1>7. Found' /\ Marked'
  <2>1. i \notin Huffman
    BY <1>1 DEF Huffman
  <2>2. Found'
    BY <1>1, <1>6, <2>1, SameFtpr DEF Found, Working
  <2>3. Marked'
    BY <1>1, <1>6, <2>1, SameFtpr DEF Marked, Working
  <2> QED
    BY <2>2, <2>3
<1>8. Covered'
  <2>1. endAddr' = 0 \/ endAddr' \in fw.offset .. fw.offset + Extent
    BY <1>1, <1>2, <1>3 DEF Covered, Working
  <2>2. \A m \in Scanned' :
          Modules[m].comp = "plain" /\ Modules[m].stays => End(m) <= endAddr'
    <3> TAKE m \in Scanned'
    <3> HAVE Modules[m].comp = "plain" /\ Modules[m].stays
    <3>1. CASE m = i
      BY <1>3, <3>1
    <3>2. CASE m \in Scanned
      <4>1. End(m) <= endAddr /\ End(m) \in Nat
        BY <1>1, <3>2, AtModule, Types DEF Covered
      <4> QED
        BY <1>2, <1>3, <4>1
    <3> QED
      BY <1>6, <3>1, <3>2
  <2> QED
    BY <1>1, <2>1, <2>2, SameFtpr DEF Covered
<1>9. Gone'
  BY <1>1, <1>6, SameFtpr, AtModule DEF Gone, Working
<1> QED
  BY <1>4, <1>5, <1>7, <1>8, <1>9

\* Modules of other kinds are left alone.
LEMMA SkipOtherInv ==
  ASSUME IInv, SkipOther
  PROVE  IInv'
<1> USE DEF IInv
<1>1. /\ pc = "modules" /\ i <= Len(Modules) /\ Modules[i].comp = "other"
      /\ i' = i + 1
      /\ UNCHANGED <<inputs, llut, ftprOffset, move, result>>
      /\ buf' = buf /\ chunks' = chunks /\ unremovable' = unremovable /\ pc' = pc
      /\ fw' = fw /\ llut' = llut /\ result' = result /\ endAddr' = endAddr
  BY DEF SkipOther, At, inputs
<1>2. TypeOK' /\ Phase' /\ Loaded' /\ Left' /\ Moving'
  BY <1>1, AtModule, TurnInv DEF TypeOK
<1>3. Framed' /\ Intact'
  BY <1>1, SameBytes DEF PassBuf
<1>4. Modules' = Modules /\ \A m \in Scanned' : m \in Scanned \/ m = i
  BY <1>1, AtModule, SameFtpr
<1>5. i \notin Huffman
  BY <1>1 DEF Huffman
<1>6. Found' /\ Marked'
  BY <1>1, <1>4, <1>5, SameFtpr, AtModule DEF Found, Marked, Working
<1>7. Covered'
  BY <1>1, <1>4, SameFtpr, AtModule DEF Covered, Working
<1>8. Gone'
  <2>1. \A a : ~InPlain(a, i)
    BY <1>1 DEF InPlain
  <2> QED
    BY <1>1, <1>4, <2>1, SameFtpr, AtModule DEF Gone, Working
<1> QED
  BY <1>2, <1>3, <1>6, <1>7, <1>8

\* A range is erased as far as the region reaches.
LEMMA Erase ==
  ASSUME IInv, result = None, fw' = fw, result' = result,
         NEW s \in Nat, NEW e \in Nat,
         buf' = Filled(ME, buf, s, Min({e, MeLen})),
         ChunksInFtpr => fw.offset <= s /\ e <= fw.offset + Extent,
         Sound => \A d \in Vital : ~Within(ME, d, s, e)
  PROVE  /\ buf' \in [Addr -> Addr \cup {FF}]
         /\ \A a \in Addr :
              buf'[a] = IF Within(ME, a, s, e) /\ a < ME.end THEN FF ELSE buf[a]
         /\ Framed' /\ Intact'
<1> USE DEF IInv
<1>1. /\ buf \in [Addr -> Addr \cup {FF}] /\ PassBuf = buf /\ PassBuf' = buf'
      /\ fw \in Firmware /\ fw.offset \in Nat /\ Extent \in Int
  BY Types, ExtentBounds DEF TypeOK, PassBuf
<1>2. \A a \in Addr :
        Within(ME, a, s, Min({e, MeLen})) <=> Within(ME, a, s, e) /\ a < ME.end
  <2>1. Min({e, MeLen}) = IF e < MeLen THEN e ELSE MeLen
    BY Constants, LesserOfTwo
  <2> QED
    BY <2>1, Constants DEF Within
<1>3. buf' = [a \in Addr |->
               IF Within(ME, a, s, e) /\ a < ME.end THEN FF ELSE buf[a]]
  BY <1>1, <1>2 DEF Filled
<1>4. /\ buf' \in [Addr -> Addr \cup {FF}]
      /\ \A a \in Addr :
           buf'[a] = IF Within(ME, a, s, e) /\ a < ME.end THEN FF ELSE buf[a]
  BY <1>1, <1>3
<1>5. Framed'
  <2> SUFFICES ASSUME NEW a \in Addr
               PROVE  \/ buf'[a] = a
                      \/ /\ buf'[a] = FF
                         /\ ChunksInFtpr => /\ a < ME.end
                              /\ Within(ME, a, fw.offset, fw.offset + Extent)
    BY <1>1, SameFtpr DEF Framed, Within
  <2>1. CASE Within(ME, a, s, e) /\ a < ME.end
    <3>1. buf'[a] = FF
      BY <1>4, <2>1
    <3>2. ChunksInFtpr => Within(ME, a, fw.offset, fw.offset + Extent)
      BY <1>1, <2>1, Constants DEF Within
    <3> QED
      BY <2>1, <3>1, <3>2
  <2>2. CASE ~(Within(ME, a, s, e) /\ a < ME.end)
    BY <1>1, <1>4, <2>2 DEF Framed
  <2> QED
    BY <2>1, <2>2
<1>6. Intact'
  <2>1. \A d \in Vital : d \in Addr
    BY DEF Vital
  <2> QED
    BY <1>1, <1>4, <2>1, SameFtpr DEF Intact
<1> QED
  BY <1>4, <1>5, <1>6

\* A plain module that need not stay is erased.
LEMMA ErasePlainInv ==
  ASSUME IInv, ErasePlain
  PROVE  IInv'
<1> USE DEF IInv
<1>1. /\ pc = "modules" /\ i <= Len(Modules)
      /\ Modules[i].comp = "plain" /\ ~Modules[i].stays
      /\ buf' = Filled(ME, buf, Start(i), Min({End(i), MeLen})) /\ i' = i + 1
      /\ UNCHANGED <<inputs, llut, ftprOffset, move, result>>
      /\ chunks' = chunks /\ unremovable' = unremovable /\ pc' = pc
      /\ fw' = fw /\ llut' = llut /\ result' = result /\ endAddr' = endAddr
  BY DEF ErasePlain, At, inputs
<1>2. i \in DOMAIN Modules /\ fw \in Firmware /\ result = None
  BY <1>1, AtModule
<1>3. /\ Start(i) \in Nat /\ End(i) \in Nat
      /\ fw.offset <= Start(i) /\ End(i) <= fw.offset + Extent
  <2>1. /\ Modules[i].place \in Nat /\ Modules[i].size \in Nat /\ fw.offset \in Nat
        /\ Start(i) \in Nat /\ End(i) \in Nat /\ fw.offset <= Start(i)
    BY <1>2, Types
  <2>2. Modules[i].place + Modules[i].size <= Extent /\ Extent \in Int
    BY <1>2, ExtentBounds
  <2> QED
    BY <2>1, <2>2 DEF Start, End
<1>4. \A d \in Vital : ~Within(ME, d, Start(i), End(i))
  BY <1>1, <1>2 DEF Vital, InPlain
<1>5. /\ buf' \in [Addr -> Addr \cup {FF}]
      /\ \A a \in Addr :
           buf'[a] = IF Within(ME, a, Start(i), End(i)) /\ a < ME.end
                       THEN FF ELSE buf[a]
      /\ Framed' /\ Intact'
  BY <1>1, <1>2, <1>3, <1>4, Erase
<1>6. TypeOK' /\ Phase' /\ Loaded' /\ Left' /\ Moving'
  BY <1>1, <1>5, AtModule, TurnInv DEF TypeOK
<1>7. Modules' = Modules /\ \A m \in Scanned' : m \in Scanned \/ m = i
  BY <1>1, AtModule, SameFtpr
<1>8. i \notin Huffman
  BY <1>1 DEF Huffman
<1>9. Found'
  BY <1>1, <1>7, <1>8, SameFtpr DEF Found, Working
<1>10. Marked'
  BY <1>1, <1>7, <1>8, SameFtpr DEF Marked, Working
<1>11. Covered'
  BY <1>1, <1>7, SameFtpr DEF Covered, Working
<1>12. Gone'
  <2>1. \A m \in Scanned : ~Modules[m].stays =>
          \A a \in Addr : InPlain(a, m) /\ a < ME.end => buf'[a] = FF
    BY <1>1, <1>5 DEF Gone, Working
  <2>2. \A a \in Addr : InPlain(a, i) /\ a < ME.end => buf'[a] = FF
    BY <1>5 DEF InPlain
  <2> QED
    BY <1>1, <1>7, <2>1, <2>2, SameFtpr DEF Gone
<1> QED
  BY <1>5, <1>6, <1>9, <1>10, <1>11, <1>12

\* A Huffman module that stays marks the chunks it covers.
LEMMA HuffmanInv ==
  ASSUME IInv, HuffmanModule
  PROVE  IInv'
<1> USE DEF IInv
<1>1. /\ pc = "modules" /\ i <= Len(Modules) /\ Modules[i].comp = "huffman"
      /\ ~Panics(i) /\ i' = i + 1
      /\ UNCHANGED <<inputs, llut, ftprOffset, move, result>>
      /\ buf' = buf /\ pc' = pc /\ fw' = fw /\ llut' = llut /\ result' = result
      /\ endAddr' = endAddr
  BY DEF HuffmanModule, At, inputs
<1>2. /\ i \in DOMAIN Modules /\ fw \in Firmware /\ result = None /\ Working
      /\ llut = Original /\ i \in Huffman /\ Original \in Llut
  BY <1>1, AtModule, Types DEF Huffman
<1>3. ~NoSuccessor(Original) /\ Original.chunkSize # 0
  <2>1. chunks = <<>> => ~NoSuccessor(llut)
    BY <1>1 DEF Panics
  <2>2. llut.chunkSize # 0
    BY <1>1 DEF Panics
  <2> QED
    BY <1>2, <2>1, <2>2 DEF Found
<1>4. chunks' = Ranges
  BY <1>2 DEF HuffmanModule, Ranges
<1>5. /\ Ranges \in Seq(ChunkRange) /\ DOMAIN Ranges = DOMAIN Original.chunks
      /\ \A c \in DOMAIN Original.chunks :
           Ranges[c] \in ChunkRange /\ Ranges[c].start = Offset(Original, c)
  BY <1>2, <1>3, RangeTypes DEF Ranges
<1>6. unremovable' =
        IF Modules[i].stays THEN unremovable \cup {Ranges[c] : c \in CoveredBy(i)}
                            ELSE unremovable
  <2>1. {d \in DOMAIN Ranges : d - 1 \in First(i) .. Last(i) /\ Ranges[d].start # 0}
          = CoveredBy(i)
    BY <1>5 DEF CoveredBy, HoldsData
  <2>2. unremovable' =
          IF Modules[i].stays
            THEN unremovable \cup {Ranges[c] : c \in
                   {d \in DOMAIN Ranges : d - 1 \in First(i) .. Last(i)
                                           /\ Ranges[d].start # 0}}
            ELSE unremovable
    BY <1>4 DEF HuffmanModule
  <2> QED
    BY <2>1, <2>2
<1>7. TypeOK' /\ Phase' /\ Loaded' /\ Left' /\ Moving'
  <2>1. unremovable' \in SUBSET ChunkRange
    BY <1>5, <1>6 DEF TypeOK, CoveredBy
  <2> QED
    BY <1>1, <1>4, <1>5, <2>1, AtModule, TurnInv DEF TypeOK
<1>8. Framed' /\ Intact'
  BY <1>1, SameBytes DEF PassBuf
<1>9. Modules' = Modules /\ \A m \in Scanned' : m \in Scanned \/ m = i
  BY <1>1, AtModule, SameFtpr
<1>10. Found'
  BY <1>1, <1>3, <1>4, SameFtpr DEF Found
<1>11. Marked'
  <2>1. \A m \in Scanned' : (m \in Huffman /\ Modules[m].stays) =>
          \A c \in CoveredBy(m) : Ranges[c] \in unremovable'
    BY <1>2, <1>6, <1>9 DEF Marked
  <2>2. \A u \in unremovable' :
          \E m \in Huffman :
             Modules[m].stays /\ \E c \in CoveredBy(m) : u = Ranges[c]
    BY <1>2, <1>6 DEF Marked
  <2> QED
    BY <1>1, <1>4, <2>1, <2>2, SameFtpr DEF Marked
<1>12. Covered'
  BY <1>1, <1>2, <1>9, SameFtpr DEF Covered
<1>13. Gone'
  <2>1. \A a : ~InPlain(a, i)
    BY <1>1 DEF InPlain
  <2> QED
    BY <1>1, <1>2, <1>9, <2>1, SameFtpr DEF Gone
<1> QED
  BY <1>7, <1>8, <1>10, <1>11, <1>12, <1>13

\* Every module has been read when the second loop starts.
LEMMA ModulesReadInv ==
  ASSUME IInv, ModulesRead
  PROVE  IInv'
<1> USE DEF IInv
<1>1. /\ pc = "modules" /\ i > Len(Modules) /\ i' = 1 /\ pc' = "chunks"
      /\ UNCHANGED <<inputs, llut, ftprOffset, move, result>>
      /\ buf' = buf /\ chunks' = chunks /\ unremovable' = unremovable
      /\ fw' = fw /\ llut' = llut /\ result' = result /\ endAddr' = endAddr
  BY DEF ModulesRead, inputs
<1>2. /\ fw \in Firmware /\ Working /\ result = None /\ ~keepModules
      /\ HeadersInRegion /\ llut \in Llut
  BY <1>1 DEF TypeOK, Phase, Working
<1>3. /\ DOMAIN Modules = 1 .. Len(Modules) /\ Len(Modules) \in Nat
      /\ Len(Original.chunks) \in Nat
  BY <1>2, Types, LlutTypes
<1>4. TypeOK' /\ Phase' /\ Loaded' /\ Left' /\ Moving'
  BY <1>1, <1>2, <1>3, TurnInv DEF TypeOK
<1>5. Framed' /\ Intact'
  BY <1>1, SameBytes DEF PassBuf
<1>6. Modules' = Modules /\ \A m \in Scanned' : m \in Scanned
  <2>1. i \in Int
    <3>1. Max({Len(Modules), Len(llut.chunks)}) \in Nat
      BY <1>2, CounterBound
    <3> QED
      BY <3>1 DEF TypeOK
  <2>2. \A m \in DOMAIN Modules : m \in 1 .. i - 1
    BY <1>1, <1>3, <2>1
  <2> QED
    BY <1>1, <2>2, SameFtpr DEF Scanned
<1>7. Found'
  BY <1>1, <1>2, <1>6, SameFtpr DEF Found
<1>8. Marked'
  BY <1>1, <1>2, <1>6, SameFtpr DEF Marked
<1>9. Covered'
  BY <1>1, <1>2, <1>6, SameFtpr DEF Covered
<1>10. Gone'
  BY <1>1, <1>2, <1>6, SameFtpr DEF Gone
<1> QED
  BY <1>4, <1>5, <1>7, <1>8, <1>9, <1>10

\* What a turn of the second loop finds.
LEMMA AtChunk ==
  ASSUME IInv, pc = "chunks"
  PROVE  /\ fw \in Firmware /\ result = None /\ ~keepModules /\ HeadersInRegion
         /\ llut = Original /\ Original \in Llut /\ PassBuf = buf /\ Working
         /\ Scanned = DOMAIN Modules /\ i \in Nat /\ 1 <= i
         /\ Len(chunks) \in Nat
         /\ 1 <= Len(chunks) =>
              /\ chunks = Ranges /\ ~NoSuccessor(Original)
              /\ Len(chunks) = Len(Original.chunks)
              /\ DOMAIN Original.chunks = 1 .. Len(chunks)
              /\ \A c \in 1 .. Len(chunks) :
                   chunks[c].start \in Nat /\ chunks[c].end \in Nat
<1> USE DEF IInv
<1>1. /\ fw \in Firmware /\ result = None /\ Working /\ ~keepModules
      /\ HeadersInRegion /\ PassBuf = buf /\ llut = Original
      /\ Scanned = DOMAIN Modules
  BY DEF TypeOK, Phase, Loaded, Working, PassBuf, Relocated, Stripped, Scanned
<1>2. Original \in Llut
  BY <1>1, Types
<1>3. i \in Nat /\ 1 <= i
  <2>1. Max({Len(Modules), Len(llut.chunks)}) \in Nat
    BY <1>1, <1>2, CounterBound
  <2> QED
    BY <2>1 DEF TypeOK
<1>4. chunks \in Seq(ChunkRange) /\ Len(chunks) \in Nat
  BY DEF TypeOK
<1>5. ASSUME 1 <= Len(chunks)
      PROVE  /\ chunks = Ranges /\ ~NoSuccessor(Original)
             /\ Len(chunks) = Len(Original.chunks)
             /\ DOMAIN Original.chunks = 1 .. Len(chunks)
             /\ \A c \in 1 .. Len(chunks) :
                  chunks[c].start \in Nat /\ chunks[c].end \in Nat
  <2>1. chunks # <<>>
    BY <1>5
  <2>2. chunks = Ranges /\ ~NoSuccessor(Original)
    BY <1>1, <2>1 DEF Found
  <2>3. /\ Len(Ranges) = Len(Original.chunks)
        /\ DOMAIN Original.chunks = 1 .. Len(Original.chunks)
        /\ \A c \in DOMAIN Original.chunks : Ranges[c] \in ChunkRange
    BY <1>2, <2>2, RangeTypes, LlutTypes DEF Ranges
  <2> QED
    BY <2>2, <2>3 DEF ChunkRange
<1> QED
  BY <1>1, <1>2, <1>3, <1>4, <1>5

\* A chunk that a module that stays covers, or that has nothing in it, is
\* passed over.
LEMMA SpareChunkInv ==
  ASSUME IInv, SpareChunk
  PROVE  IInv'
<1> USE DEF IInv
<1>1. /\ pc = "chunks" /\ i <= Len(chunks) /\ i' = i + 1
      /\ Overlaps(chunks[i]) \/ chunks[i].end <= chunks[i].start
      /\ UNCHANGED <<inputs, llut, ftprOffset, move, result>>
      /\ buf' = buf /\ chunks' = chunks /\ unremovable' = unremovable /\ pc' = pc
      /\ fw' = fw /\ llut' = llut /\ result' = result /\ endAddr' = endAddr
  BY DEF SpareChunk, inputs
<1>2. /\ fw \in Firmware /\ result = None /\ Working /\ i \in Nat /\ 1 <= i
      /\ Len(chunks) \in Nat /\ Len(chunks) = Len(Original.chunks)
      /\ chunks[i].start \in Nat /\ chunks[i].end \in Nat
      /\ Scanned = DOMAIN Modules
  BY <1>1, AtChunk
<1>3. TypeOK' /\ Phase' /\ Loaded' /\ Left' /\ Moving'
  BY SMTT(30), <1>1, <1>2, AtChunk, TurnInv DEF TypeOK
<1>4. Framed' /\ Intact'
  BY <1>1, SameBytes DEF PassBuf
<1>5. Modules' = Modules /\ Scanned' = Scanned
  BY <1>1, <1>2, SameFtpr DEF Scanned
<1>6. Found' /\ Marked' /\ Covered'
  BY <1>1, <1>2, <1>5, SameFtpr DEF Found, Marked, Covered
<1>7. Gone'
  <2>1. \A c : Overlaps(c)' <=> Overlaps(c)
    BY <1>1 DEF Overlaps
  <2>2. ASSUME NEW c \in 1 .. i, ~Overlaps(chunks[c]), NEW a \in Addr,
               Within(ME, a, chunks[c].start, chunks[c].end), a < ME.end
        PROVE  buf[a] = FF
    <3>1. CASE c = i
      BY SMTT(30), <1>1, <1>2, <2>2, <3>1, Constants DEF Within
    <3>2. CASE c # i
      BY <1>1, <1>2, <2>2, <3>2 DEF Gone
    <3> QED
      BY <3>1, <3>2
  <2>3. i' - 1 = i
    BY <1>1, <1>2
  <2> QED
    BY <1>1, <1>2, <1>5, <2>1, <2>2, <2>3, SameFtpr DEF Gone
<1> QED
  BY <1>3, <1>4, <1>6, <1>7

\* A chunk that no module that stays covers is erased: if the LLUT is sound,
\* it has no byte of them.
LEMMA EraseChunkInv ==
  ASSUME IInv, EraseChunk
  PROVE  IInv'
<1> USE DEF IInv
<1> DEFINE s == chunks[i].start
           e == chunks[i].end
<1>1. /\ pc = "chunks" /\ i <= Len(chunks) /\ i' = i + 1
      /\ ~Overlaps(chunks[i]) /\ e > s
      /\ buf' = Filled(ME, buf, s, Min({e, MeLen}))
      /\ UNCHANGED <<inputs, llut, ftprOffset, move, result>>
      /\ chunks' = chunks /\ unremovable' = unremovable /\ pc' = pc
      /\ fw' = fw /\ llut' = llut /\ result' = result /\ endAddr' = endAddr
  BY DEF EraseChunk, inputs
<1>2. /\ fw \in Firmware /\ result = None /\ Working /\ i \in Nat /\ 1 <= i
      /\ Len(chunks) \in Nat /\ Len(chunks) = Len(Original.chunks)
      /\ s \in Nat /\ e \in Nat /\ i \in DOMAIN Original.chunks
      /\ Scanned = DOMAIN Modules /\ chunks = Ranges /\ ~NoSuccessor(Original)
      /\ llut = Original /\ Original \in Llut
  BY <1>1, AtChunk
<1>3. HoldsData(i) /\ s = Offset(Original, i)
      /\ \/ e = StreamEnd(Original)
         \/ \E d \in DOMAIN Original.chunks : e = Offset(Original, d)
  <2>1. /\ s = Offset(Original, i)
        /\ Offset(Original, i) = 0 => e = 0
        /\ Offset(Original, i) # 0 =>
             \/ e = StreamEnd(Original)
             \/ \E d \in DOMAIN Original.chunks : e = Offset(Original, d)
    BY <1>2, RangeTypes DEF Ranges
  <2>2. Offset(Original, i) # 0
    BY <1>1, <1>2, <2>1
  <2> QED
    BY <2>1, <2>2 DEF HoldsData
<1>4. ChunksInFtpr => fw.offset <= s /\ e <= fw.offset + Extent
  <2>1. /\ StreamEnd(Original) - fw.offset <= Extent /\ Extent \in Int
        /\ \A c \in DOMAIN Original.chunks :
              Offset(Original, c) - fw.offset <= Extent
        /\ fw.offset \in Nat /\ StreamEnd(Original) \in Nat
    BY <1>2, ExtentBounds, Types, LlutTypes
  <2>2. e - fw.offset <= Extent
    BY <1>3, <2>1
  <2> QED
    BY <1>2, <1>3, <2>1, <2>2 DEF ChunksInFtpr
<1>5. ASSUME Sound, NEW d \in Vital
      PROVE  ~Within(ME, d, s, e)
  <2> SUFFICES ASSUME Within(ME, d, s, e) PROVE FALSE
    OBVIOUS
  <2>1. d \in Int /\ d \in Addr
    BY Constants DEF Vital
  <2>2. InChunk(d, i)
    BY <1>2, <1>5, <2>1, ChunkIsRange
  <2>3. PICK m \in DOMAIN Modules : Modules[m].stays /\ InHuffman(d, m)
    BY <1>2, <2>2 DEF Vital
  <2>4. PICK c \in DOMAIN Original.chunks : Needs(m, c) /\ InChunk(d, c)
    BY <2>3 DEF InHuffman
  <2>5. HoldsData(c) /\ Within(ME, d, Ranges[c].start, Ranges[c].end)
    BY <1>2, <1>5, <2>1, <2>4, ChunkIsRange DEF InChunk
  <2>6. c = i
    <3> SUFFICES ASSUME c # i PROVE FALSE
      OBVIOUS
    <3>1. Ranges[c].end <= s \/ e <= Ranges[c].start
      BY <1>2, <1>3, <1>5, <2>5, ChunksApart
    <3>2. Ranges[c].start \in Nat /\ Ranges[c].end \in Nat
      BY <1>2, <1>5, ChunkIsRange DEF ChunkRange
    <3>3. /\ s \in Nat /\ e \in Nat /\ ME.start \in Nat
          /\ ME.start + s <= d /\ d < ME.start + e
          /\ ME.start + Ranges[c].start <= d /\ d < ME.start + Ranges[c].end
      BY <1>2, <2>5, Constants DEF Within
    <3> HIDE DEF s, e
    <3> QED
      BY <2>1, <3>1, <3>2, <3>3
  <2>7. m \in Huffman /\ i \in CoveredBy(m)
    <3>1. m \in Huffman
      BY <2>3 DEF Huffman, InHuffman
    <3> QED
      BY <1>2, <1>3, <1>5, <2>4, <2>6, <3>1, ChunksCounted DEF CoveredBy
  <2>8. chunks[i] \in unremovable
    BY <1>2, <2>3, <2>7 DEF Marked
  <2> QED
    BY <1>1, <1>2, <2>8 DEF Overlaps
<1> HIDE DEF s, e
<1>6. /\ buf' \in [Addr -> Addr \cup {FF}]
      /\ \A a \in Addr :
           buf'[a] = IF Within(ME, a, s, e) /\ a < ME.end THEN FF ELSE buf[a]
      /\ Framed' /\ Intact'
  BY <1>1, <1>2, <1>4, <1>5, Erase
<1>7. TypeOK' /\ Phase' /\ Loaded' /\ Left' /\ Moving'
  <2>1. /\ i' \in Nat /\ 1 <= i' /\ i' <= Len(Original.chunks) + 1
        /\ ~keepModules /\ HeadersInRegion
    BY <1>1, <1>2, AtChunk
  <2>2. /\ chunks' \in Seq(ChunkRange) /\ unremovable' \in SUBSET ChunkRange
        /\ endAddr' \in Int
    BY <1>1 DEF TypeOK
  <2> QED
    BY <1>1, <1>2, <1>6, <2>1, <2>2, TurnInv
<1>8. Modules' = Modules /\ Scanned' = Scanned
  BY <1>1, <1>2, SameFtpr DEF Scanned
<1>9. Found'
  BY <1>1, <1>2, <1>8, SameFtpr DEF Found
<1>10. Marked'
  BY <1>1, <1>2, <1>8, SameFtpr DEF Marked
<1>11. Covered'
  BY <1>1, <1>2, <1>8, SameFtpr DEF Covered
<1>12. Gone'
  <2>1. \A m \in Scanned : ~Modules[m].stays =>
          \A a \in Addr : InPlain(a, m) /\ a < ME.end => buf'[a] = FF
    BY <1>2, <1>6 DEF Gone
  <2>2. \A c : Overlaps(c)' <=> Overlaps(c)
    BY <1>1 DEF Overlaps
  <2>3. ASSUME NEW c \in 1 .. i, ~Overlaps(chunks[c]), NEW a \in Addr,
               Within(ME, a, chunks[c].start, chunks[c].end), a < ME.end
        PROVE  buf'[a] = FF
    <3>1. CASE c = i
      BY <1>6, <2>3, <3>1 DEF s, e
    <3>2. CASE c # i
      <4>1. buf[a] = FF
        BY <1>1, <1>2, <2>3, <3>2 DEF Gone
      <4> QED
        BY <1>6, <4>1
    <3> QED
      BY <3>1, <3>2
  <2>4. i' - 1 = i
    BY <1>1, <1>2
  <2> QED
    BY <1>1, <1>2, <1>8, <2>1, <2>2, <2>3, <2>4, SameFtpr DEF Gone
<1> QED
  BY <1>6, <1>7, <1>9, <1>10, <1>11, <1>12

\* Where a chunk that stays ends, and where the pass says all that stays does.
LEMMA UnremovableEnds ==
  ASSUME IInv, pc = "chunks", NEW u \in unremovable
  PROVE  /\ u.start \in Nat /\ u.end \in Nat /\ u.end < WORD + OffsetValues
         /\ u.end <= fw.offset + Extent
         /\ ChunksInFtpr => u.end >= fw.offset
<1> USE DEF IInv
<1>1. PICK c :
        /\ chunks = Ranges /\ u = Ranges[c]
        /\ \E m \in Huffman : c \in CoveredBy(m)
  BY AtChunk DEF Marked
<1>2. /\ c \in DOMAIN Original.chunks /\ HoldsData(c)
      /\ fw \in Firmware /\ Original \in Llut
  BY <1>1, AtChunk DEF CoveredBy
<1>3. ~NoSuccessor(Original)
  <2>1. DOMAIN Ranges = DOMAIN Original.chunks
    BY DEF Ranges, GetChunksOffsets
  <2>2. DOMAIN chunks = 1 .. Len(chunks) /\ Len(chunks) \in Nat
    BY DEF TypeOK
  <2>3. 1 <= Len(chunks)
    BY <1>1, <1>2, <2>1, <2>2
  <2> QED
    BY <2>3, AtChunk
<1>4. /\ u \in ChunkRange /\ u.start = Offset(Original, c) /\ u.end >= u.start
      /\ \/ u.end = StreamEnd(Original)
         \/ \E d \in DOMAIN Original.chunks : u.end = Offset(Original, d)
  BY <1>1, <1>2, <1>3, RangeTypes DEF Ranges, HoldsData
<1>5. u.start \in Nat /\ u.end \in Nat
  BY <1>4 DEF ChunkRange
<1>6. /\ StreamEnd(Original) \in Nat /\ StreamEnd(Original) < WORD
      /\ \A d \in DOMAIN Original.chunks :
           Offset(Original, d) \in Nat /\ Offset(Original, d) < OffsetValues
      /\ WORD \in Nat /\ OffsetValues \in Nat
  BY <1>2, LlutTypes, Constants
<1>7. u.end < WORD + OffsetValues
  BY <1>4, <1>5, <1>6
<1>8. u.end <= fw.offset + Extent
  <2>1. /\ StreamEnd(Original) - fw.offset <= Extent /\ Extent \in Int
        /\ \A d \in DOMAIN Original.chunks :
              Offset(Original, d) - fw.offset <= Extent
        /\ fw.offset \in Nat
    BY <1>2, ExtentBounds, Types
  <2>2. u.end - fw.offset <= Extent
    BY <1>4, <2>1
  <2> QED
    BY <1>5, <2>1, <2>2
<1>9. ChunksInFtpr => u.end >= fw.offset
  <2> SUFFICES ASSUME ChunksInFtpr PROVE u.end >= fw.offset
    OBVIOUS
  <2>1. Offset(Original, c) >= fw.offset /\ fw.offset \in Nat
    BY <1>2, Types DEF ChunksInFtpr
  <2> QED
    BY <1>4, <1>5, <2>1
<1> QED
  BY <1>5, <1>7, <1>8, <1>9

LEMMA EndOfUnremovable ==
  ASSUME IInv, pc = "chunks"
  PROVE  LET E == {endAddr} \cup {u.end : u \in unremovable}
         IN  Max(E) \in E /\ Max(E) \in Int /\ \A x \in E : x <= Max(E)
<1> DEFINE E == {endAddr} \cup {u.end : u \in unremovable}
           B == IF endAddr < WORD + OffsetValues THEN WORD + OffsetValues ELSE endAddr
<1>1. endAddr \in Int /\ WORD \in Nat /\ OffsetValues \in Nat
  BY Constants DEF IInv, TypeOK
<1>2. \A u \in unremovable : u.end \in Nat /\ u.end < WORD + OffsetValues
  BY UnremovableEnds
<1>3. B \in Int /\ endAddr <= B /\ WORD + OffsetValues <= B
  BY <1>1
<1> HIDE DEF B
<1>4. E \in SUBSET Int /\ E # {} /\ \A x \in E : x <= B
  BY <1>1, <1>2, <1>3
<1> HIDE DEF E
<1>5. Max(E) \in E /\ \A x \in E : x <= Max(E)
  BY <1>3, <1>4, Largest
<1> QED
  BY <1>4, <1>5 DEF E

\* The pass ends, and what it has kept track of is what it leaves.
LEMMA FinishRemovalInv ==
  ASSUME IInv, FinishRemoval
  PROVE  IInv'
<1> USE DEF IInv
<1>1. /\ pc = "chunks" /\ i > Len(chunks) /\ pc' = "relocate"
      /\ endAddr' = Max({endAddr} \cup {u.end : u \in unremovable})
      /\ result' = [status |-> "done", buf |-> buf, end |-> endAddr']
      /\ buf' = buf /\ llut' = llut /\ chunks' = chunks
      /\ unremovable' = unremovable /\ i' = i /\ ftprOffset' = ftprOffset
      /\ move' = move /\ fw' = fw /\ keepModules' = keepModules
      /\ relocate' = relocate /\ checks' = checks
  BY DEF FinishRemoval, Passed, inputs
<1>2. /\ fw \in Firmware /\ result = None /\ ~keepModules /\ HeadersInRegion
      /\ llut = Original /\ PassBuf = buf /\ Working /\ Scanned = DOMAIN Modules
      /\ i \in Nat /\ Len(chunks) \in Nat
  BY <1>1, AtChunk
<1>3. /\ endAddr' \in Int /\ endAddr <= endAddr'
      /\ \A u \in unremovable : u.end <= endAddr'
  BY <1>1, EndOfUnremovable
<1>4. /\ result' \in Results /\ result' # None /\ result'.buf = buf
      /\ result'.status = "done" /\ result'.end = endAddr'
  BY <1>1, <1>3, PassedIsResult
<1>5. ~Relocated' /\ ~Relocated /\ Stripped' /\ PassBuf' = PassBuf
  BY <1>1, <1>2, <1>4 DEF Relocated, Stripped, PassBuf
<1>6. TypeOK'
  <2>1. Modules' = Modules
    BY <1>1, SameFtpr
  <2> QED
    BY <1>1, <1>3, <1>4, <2>1 DEF TypeOK
<1>7. Phase'
  BY <1>1, <1>2, <1>3, <1>4, <1>5, SameFtpr DEF Phase, Working, NoMove
<1>8. Loaded'
  BY <1>1, <1>2, <1>5, SameFtpr DEF Loaded
<1>9. Framed' /\ Intact'
  BY <1>1, <1>5, SameBytes
<1>10. Found' /\ Marked' /\ Covered' /\ Gone' /\ Moving'
  BY <1>1, <1>5 DEF Found, Marked, Covered, Gone, Moving, Working
<1>11. ASSUME Sound, NEW d \in Vital
       PROVE  d < ME.start + endAddr'
  <2>1. d \in Int /\ ME.start \in Nat /\ endAddr \in Int
    BY Constants DEF Vital, TypeOK
  <2>2. PICK m \in DOMAIN Modules :
          Modules[m].stays /\ (InPlain(d, m) \/ InHuffman(d, m))
    BY DEF Vital
  <2>3. CASE InPlain(d, m)
    <3>1. d < ME.start + End(m) /\ End(m) \in Nat
      BY <1>2, <2>2, <2>3, Types DEF InPlain, Within
    <3>2. End(m) <= endAddr
      BY <1>2, <2>2, <2>3 DEF InPlain, Covered
    <3> QED
      BY <1>3, <2>1, <3>1, <3>2
  <2>4. CASE InHuffman(d, m)
    <3>1. PICK c \in DOMAIN Original.chunks : Needs(m, c) /\ InChunk(d, c)
      BY <2>4 DEF InHuffman
    <3>2. /\ HoldsData(c) /\ d < ME.start + Ranges[c].end
          /\ Ranges[c].end \in Nat
      BY <1>2, <1>11, <2>1, <3>1, ChunkIsRange DEF InChunk, Within, ChunkRange
    <3>3. m \in Huffman
      BY <2>2, <2>4 DEF InHuffman, Huffman
    <3>4. c \in CoveredBy(m)
      BY <1>2, <1>11, <3>1, <3>2, <3>3, ChunksCounted DEF CoveredBy
    <3>5. Ranges[c] \in unremovable
      BY <1>2, <2>2, <3>3, <3>4 DEF Marked
    <3> QED
      BY <1>3, <2>1, <3>2, <3>5
  <2> QED
    BY <2>2, <2>3, <2>4
<1>12. ASSUME Sound, NEW a \in Addr, buf[a] = a, a < ME.end, Unneeded(a)
       PROVE  FALSE
  <2>1. a \in Int /\ a # FF /\ ME.start \in Nat
    BY Constants
  <2>2. CASE \E m \in DOMAIN Modules : InPlain(a, m) /\ ~Modules[m].stays
    BY <1>2, <1>12, <2>1, <2>2 DEF Gone
  <2>3. CASE \E c \in DOMAIN Original.chunks :
               Huffman # {} /\ InChunk(a, c) /\ ~Spared(c)
    <3>1. PICK c \in DOMAIN Original.chunks :
            Huffman # {} /\ InChunk(a, c) /\ ~Spared(c)
      BY <2>3
    <3>2. chunks = Ranges
      BY <1>2, <3>1 DEF Found, Huffman
    <3>3. c \in 1 .. i - 1 /\ c \in 1 .. Len(chunks)
      <4>1. DOMAIN chunks = 1 .. Len(chunks)
        BY DEF TypeOK
      <4>2. c \in 1 .. Len(chunks)
        BY <3>2, <4>1 DEF Ranges, GetChunksOffsets
      <4> QED
        BY <1>1, <1>2, <4>2
    <3>4. HoldsData(c) /\ Within(ME, a, Ranges[c].start, Ranges[c].end)
          /\ Ranges[c].start < Ranges[c].end
          /\ Ranges[c].start \in Nat /\ Ranges[c].end \in Nat
      BY <1>2, <1>12, <2>1, <3>1, ChunkIsRange DEF InChunk, ChunkRange
    <3>5. ~Overlaps(Ranges[c])
      <4> SUFFICES ASSUME NEW u \in unremovable,
                          \/ u.start <= Ranges[c].start /\ Ranges[c].start < u.end
                          \/ u.start < Ranges[c].end /\ Ranges[c].end <= u.end
                   PROVE  FALSE
        BY DEF Overlaps
      <4>1. PICK m \in Huffman :
              Modules[m].stays /\ \E e \in CoveredBy(m) : u = Ranges[e]
        BY <1>2 DEF Marked
      <4>2. PICK e \in CoveredBy(m) : u = Ranges[e]
        BY <4>1
      <4>3. e \in DOMAIN Original.chunks /\ HoldsData(e)
        BY <4>2 DEF CoveredBy
      <4>4. CASE e = c
        <5>1. c - 1 \in First(m) .. Last(m)
          BY <4>2, <4>4 DEF CoveredBy
        <5>2. Spared(c)
          BY <1>2, <1>12, <3>1, <4>1, <5>1, ChunksCounted DEF Spared
        <5> QED
          BY <3>1, <5>2
      <4>5. CASE e # c
        <5>1. Ranges[c].end <= u.start \/ u.end <= Ranges[c].start
          BY <1>2, <1>12, <3>4, <4>2, <4>3, <4>5, ChunksApart
        <5>2. u.start \in Nat /\ u.end \in Nat /\ u.start < u.end
          BY <1>2, <1>12, <4>2, <4>3, ChunkIsRange DEF ChunkRange
        <5> QED
          BY <3>4, <5>1, <5>2
      <4> QED
        BY <4>4, <4>5
    <3>6. buf[a] = FF
      BY <1>1, <1>2, <1>12, <3>2, <3>3, <3>4, <3>5 DEF Gone
    <3> QED
      BY <1>12, <2>1, <3>6
  <2> QED
    BY <1>12, <2>2, <2>3 DEF Unneeded
<1>13. Left'
  BY <1>1, <1>4, <1>11, <1>12, SameFtpr DEF Left
<1> QED
  BY <1>6, <1>7, <1>8, <1>9, <1>10, <1>13
-----------------------------------------------------------------------------
\* The relocation finds what the pass has left.
LEMMA AtRelocation ==
  ASSUME IInv, pc \in {"relocate", "move"}
  PROVE  /\ fw \in Firmware /\ fw.offset \in Nat /\ Original \in Llut
         /\ result # None /\ Stripped /\ HeadersInRegion /\ llut \in Llut
         /\ result.buf \in [Addr -> Addr \cup {FF}]
         /\ buf \in [Addr -> Addr \cup {FF}]
         /\ endAddr \in Int /\ endAddr = result.end /\ llut.corr = Original.corr
         /\ pc = "relocate" => /\ ~Relocated /\ move = NoMove
                               /\ buf = result.buf /\ llut = Original
         /\ pc = "move" => Relocated
<1> USE DEF IInv
<1>1. /\ fw \in Firmware /\ Stripped /\ HeadersInRegion /\ endAddr = result.end
      /\ endAddr \in Int /\ llut \in Llut /\ llut.corr = Original.corr
      /\ buf \in [Addr -> Addr \cup {FF}]
  BY DEF TypeOK, Phase, Loaded
<1>2. result # None
  BY <1>1 DEF Stripped
<1>3. result.buf \in [Addr -> Addr \cup {FF}]
  <2>1. result \in Results
    BY <1>2 DEF TypeOK
  <2> QED
    BY <2>1 DEF Results
<1>4. pc = "relocate" => /\ ~Relocated /\ move = NoMove
                         /\ buf = result.buf /\ llut = Original
  BY <1>2 DEF Relocated, Phase, Loaded, PassBuf
<1>5. pc = "move" => Relocated
  BY DEF Relocated
<1>6. fw.offset \in Nat /\ Original \in Llut
  BY <1>1, Types
<1> QED
  BY <1>1, <1>2, <1>3, <1>4, <1>5, <1>6

LEMMA StayInPlaceInv ==
  ASSUME IInv, StayInPlace
  PROVE  IInv'
<1> USE DEF IInv
<1>1. /\ pc = "relocate" /\ ~relocate /\ pc' = "done"
      /\ UNCHANGED <<inputs, fw, keepModules, relocate, checks, buf, llut, chunks,
                     unremovable, i, endAddr, ftprOffset, move, result>>
  BY DEF StayInPlace, inputs
<1>2. /\ result # None /\ ~Relocated /\ move = NoMove /\ buf = result.buf
      /\ endAddr \in Int /\ endAddr = result.end /\ Stripped /\ llut = Original
  BY <1>1, AtRelocation
<1>3. ~Relocated' /\ Stripped' /\ PassBuf' = PassBuf /\ PassBuf = buf
  BY <1>1, <1>2 DEF Relocated, Stripped, PassBuf
<1>4. Framed' /\ Intact' /\ Found' /\ Marked' /\ Covered' /\ Gone' /\ Left'
  BY <1>1, <1>2, Over
<1>5. TypeOK'
  BY <1>1, SameFtpr DEF TypeOK
<1>6. Phase'
  BY <1>1, <1>2, <1>3, SameFtpr DEF Phase, Working, NoMove
<1>7. Loaded' /\ Moving'
  BY <1>1, <1>2, <1>3, SameFtpr DEF Loaded, Moving
<1> QED
  BY <1>4, <1>5, <1>6, <1>7

\* Every pointer is shifted in the bits that it has.
LEMMA ShiftedTypes ==
  ASSUME fw \in Firmware, HeadersInRegion, llut \in Llut, Huffman # {},
         NEW l \in Llut
  PROVE  /\ Shifted(l) \in Llut
         /\ Shifted(l).corr = l.corr
         /\ Len(Shifted(l).chunks) = Len(l.chunks)
         /\ [Shifted(l) EXCEPT !.chunks = l.chunks] \in Llut
         /\ [Shifted(l) EXCEPT !.chunks = l.chunks].corr = l.corr
         /\ [Shifted(l) EXCEPT !.chunks = l.chunks].chunks = l.chunks
<1> DEFINE Entry == [offset : 0 .. OffsetValues - 1, absent : BOOLEAN]
           shifted == [c \in DOMAIN l.chunks |->
             IF l.chunks[c].absent THEN l.chunks[c]
             ELSE [l.chunks[c] EXCEPT !.offset = (@ + Diff) % OffsetValues]]
<1>1. /\ Diff \in Int /\ LlutStart \in Nat /\ LLUT_HEAD \in Nat
      /\ WORD \in Nat /\ WORD > 0 /\ OffsetValues \in Nat /\ OffsetValues > 0
  BY MoveBounds, Constants
<1>2. /\ DOMAIN l.chunks = 1 .. Len(l.chunks) /\ Len(l.chunks) \in Nat
      /\ l.huffStart \in Nat /\ l.corr \in Nat
      /\ \A c \in DOMAIN l.chunks : l.chunks[c] \in Entry
  BY LlutTypes
<1>3. \A n \in Int : n % WORD \in Nat /\ n % OffsetValues \in 0 .. OffsetValues - 1
  BY <1>1
<1>4. shifted \in Seq(Entry) /\ Len(shifted) = Len(l.chunks)
  <2>1. \A c \in 1 .. Len(l.chunks) : shifted[c] \in Entry
    <3> TAKE c \in 1 .. Len(l.chunks)
    <3>1. l.chunks[c] \in Entry
      BY <1>2
    <3>2. (l.chunks[c].offset + Diff) % OffsetValues \in 0 .. OffsetValues - 1
      BY <1>1, <1>3, <3>1
    <3> QED
      BY <1>2, <3>1, <3>2
  <2>2. shifted = [c \in 1 .. Len(l.chunks) |-> shifted[c]]
    BY <1>2
  <2>3. DOMAIN shifted = 1 .. Len(l.chunks)
    BY <1>2
  <2> HIDE DEF shifted, Entry
  <2>4. shifted \in [1 .. Len(l.chunks) -> Entry]
    BY <2>1, <2>2
  <2>5. Len(l.chunks) \in Nat
    BY <1>2
  <2>6. shifted \in Seq(Entry)
    BY <2>4, <2>5, SeqDef
  <2> QED
    BY <2>3, <2>5, <2>6
<1>5. /\ (LlutStart + Diff + LLUT_HEAD - l.corr) % WORD \in Nat
      /\ (l.huffStart + Diff) % WORD \in Nat
  BY SMTT(30), <1>1, <1>2, <1>3
<1>6. Shifted(l) = [l EXCEPT
        !.lutOffset = (LlutStart + Diff + LLUT_HEAD - l.corr) % WORD,
        !.huffStart = (l.huffStart + Diff) % WORD,
        !.chunks = shifted]
  BY DEF Shifted
<1> HIDE DEF shifted
<1>7. /\ Shifted(l) \in Llut /\ Shifted(l).corr = l.corr
      /\ Shifted(l).chunks = shifted
  BY <1>4, <1>5, <1>6 DEF Llut
<1>8. /\ [Shifted(l) EXCEPT !.chunks = l.chunks] \in Llut
      /\ [Shifted(l) EXCEPT !.chunks = l.chunks].corr = l.corr
      /\ [Shifted(l) EXCEPT !.chunks = l.chunks].chunks = l.chunks
  <2>1. l.chunks \in Seq(Entry)
    BY LlutTypes
  <2> QED
    BY <1>7, <2>1 DEF Llut
<1> QED
  BY <1>4, <1>7, <1>8

\* A relocation that fails may have shifted the pointers: no more is said of
\* them.
LEMMA RelocateFailsInv ==
  ASSUME IInv, RelocateFails
  PROVE  IInv'
<1> USE DEF IInv
<1>1. /\ pc = "relocate" /\ pc' = "err"
      /\ UNCHANGED <<inputs, fw, keepModules, relocate, checks, buf, chunks,
                     unremovable, i, endAddr, ftprOffset, move, result>>
      /\ \/ llut' = llut
         \/ Huffman # {} /\ llut' = Shifted(llut)
         \/ Huffman # {} /\ llut' = [Shifted(llut) EXCEPT !.chunks = llut.chunks]
  BY DEF RelocateFails, inputs
<1>2. /\ result # None /\ ~Relocated /\ move = NoMove /\ buf = result.buf
      /\ endAddr \in Int /\ endAddr = result.end /\ Stripped /\ llut = Original
      /\ fw \in Firmware /\ HeadersInRegion /\ llut \in Llut
  BY <1>1, AtRelocation
<1>3. ~Relocated' /\ Stripped' /\ PassBuf' = PassBuf /\ PassBuf = buf
  BY <1>1, <1>2 DEF Relocated, Stripped, PassBuf
<1>4. Framed' /\ Intact' /\ Found' /\ Marked' /\ Covered' /\ Gone' /\ Left'
  BY <1>1, <1>2, Over
<1>5. /\ llut' \in Llut /\ llut'.corr = llut.corr
      /\ Len(llut'.chunks) = Len(llut.chunks)
  BY <1>1, <1>2, ShiftedTypes
<1>6. TypeOK'
  BY <1>1, <1>5, SameFtpr DEF TypeOK
<1>7. Phase'
  BY <1>1, <1>2, <1>3, SameFtpr DEF Phase, Working, NoMove
<1>8. Loaded' /\ Moving'
  BY <1>1, <1>2, <1>3, <1>5, SameFtpr DEF Loaded, Moving
<1> QED
  BY <1>4, <1>6, <1>7, <1>8

\* The move starts where the pass ended.
LEMMA StartMoveInv ==
  ASSUME IInv, StartMove
  PROVE  IInv'
<1> USE DEF IInv
<1>1. /\ pc = "relocate" /\ pc' = "move" /\ relocate
      /\ LlutReadable /\ MoveFits
      /\ llut' = IF Huffman # {} THEN Shifted(llut) ELSE llut
      /\ move' = [from |-> fw.offset, to |-> NewOffset, size |-> MoveSize, i |-> 0]
      /\ ftprOffset' = NewOffset
      /\ UNCHANGED <<inputs, fw, keepModules, relocate, checks, buf, chunks,
                     unremovable, i, endAddr, result>>
  BY DEF StartMove, inputs
<1>2. /\ result # None /\ ~Relocated /\ buf = result.buf /\ PassBuf = buf
      /\ endAddr \in Int /\ endAddr = result.end /\ Stripped /\ llut = Original
      /\ fw \in Firmware /\ fw.offset \in Nat /\ HeadersInRegion /\ llut \in Llut
      /\ buf \in [Addr -> Addr \cup {FF}]
  BY <1>1, AtRelocation DEF PassBuf
<1>3. Relocated' /\ Stripped' /\ PassBuf' = PassBuf
  BY <1>1, <1>2 DEF Relocated, Stripped, PassBuf
<1>4. Framed' /\ Intact' /\ Found' /\ Marked' /\ Covered' /\ Gone' /\ Left'
  BY <1>1, <1>2, Over
<1>5. /\ llut' \in Llut /\ llut'.corr = llut.corr
      /\ Len(llut'.chunks) = Len(llut.chunks)
  BY <1>1, <1>2, ShiftedTypes
<1>6. MoveSize \in Nat /\ NewOffset \in Nat
  BY <1>2, MoveBounds
<1>7. /\ Diff' = Diff /\ NewOffset' = NewOffset /\ MoveSize' = MoveSize
      /\ Huffman' = Huffman /\ LlutStart' = LlutStart /\ Original' = Original
  BY <1>1, <1>5, SameFtpr
<1>8. TypeOK'
  <2>1. move' \in [from : Nat, to : Nat, size : Nat, i : Nat]
    BY <1>1, <1>2, <1>6
  <2>2. ftprOffset' \in Nat
    BY <1>1, <1>6
  <2> QED
    BY <1>1, <1>5, <2>1, <2>2, SameFtpr DEF TypeOK
<1>9. Phase'
  BY <1>1, <1>2, <1>3, SameFtpr DEF Phase, Working
<1>10. Loaded'
  <2>1. Shifted(Original)' = Shifted(Original)
    BY <1>7 DEF Shifted
  <2> QED
    BY <1>1, <1>2, <1>3, <1>5, <1>7, <2>1 DEF Loaded
<1>11. Moving'
  <2>1. MoveFits'
    BY <1>1, <1>7 DEF MoveFits, Check
  <2>2. Moved(ME, result.buf, buf, fw.offset, 0, NewOffset)
    <3>1. DOMAIN result.buf = Addr
      BY <1>2
    <3>2. ASSUME NEW a \in Addr
          PROVE  /\ ~Within(ME, a, NewOffset, NewOffset + 0)
                 /\ ~Within(ME, a, fw.offset, fw.offset + 0)
      BY <1>2, <1>6, Constants DEF Within
    <3> QED
      BY <1>2, <3>1, <3>2 DEF Moved
  <2>3. Huffman # {} =>
          /\ ME.start + LlutStart \in Addr
          /\ result.buf[ME.start + LlutStart] = ME.start + LlutStart
    <3> SUFFICES ASSUME Huffman # {}
                 PROVE  /\ ME.start + LlutStart \in Addr
                        /\ result.buf[ME.start + LlutStart] = ME.start + LlutStart
      OBVIOUS
    <3>1. LlutTagged /\ LlutStart \in Nat
      BY <1>1, <1>2, MoveBounds DEF LlutReadable
    <3>2. ME.start + LlutStart \in Addr
      BY <3>1, Constants DEF LlutTagged, Check, Addr
    <3> QED
      BY <1>2, <3>1, <3>2 DEF LlutTagged
  <2> QED
    BY <1>1, <1>2, <1>6, <1>7, <2>1, <2>2, <2>3 DEF Moving, MoveIsSafe
<1> QED
  BY <1>4, <1>8, <1>9, <1>10, <1>11

\* Whatever is read and written in the moved ranges lies in the image.
LEMMA MoveInImage ==
  ASSUME fw \in Firmware, llut \in Llut, HeadersInRegion, MoveFits,
         NEW a \in Int
  PROVE  /\ Within(ME, a, NewOffset, NewOffset + MoveSize) =>
              a \in Addr /\ a - Diff \in Addr
                /\ Within(ME, a - Diff, fw.offset, fw.offset + MoveSize)
         /\ Within(ME, a, fw.offset, fw.offset + MoveSize) =>
              a \in Addr /\ a + Diff \in Addr
                /\ Within(ME, a + Diff, NewOffset, NewOffset + MoveSize)
<1>1. /\ fw.offset \in Nat /\ MoveSize \in Nat /\ NewOffset \in Nat
      /\ Diff = NewOffset - fw.offset
      /\ ME.start \in Nat /\ ME.end \in Nat /\ ME.end <= FileLen /\ FileLen \in Nat
  BY Types, MoveBounds, Constants
<1>2. /\ ME.start + fw.offset + MoveSize <= ME.end
      /\ ME.start + NewOffset + MoveSize <= ME.end
  BY DEF MoveFits, Check
<1> QED
  BY <1>1, <1>2 DEF Within, Addr

\* A turn of the loop moves at least one byte and never more than is left.
LEMMA BlockBounds ==
  ASSUME NEW s \in Nat, NEW j \in Nat, j < s
  PROVE  /\ Chunk(s, j) \in Nat /\ Chunk(s, j) > 0 /\ j + Chunk(s, j) <= s
         /\ Chunk(s, j) <= BLOCK /\ (j = 0 /\ s <= BLOCK => Chunk(s, j) = s)
  BY BlockAssumption DEF Chunk

\* A block is copied, and takes nothing else with it.
LEMMA BlockCopied ==
  ASSUME NEW from \in Nat, NEW to \in Nat, NEW size \in Nat,
         Check(ME, from, size), Check(ME, to, size),
         NEW j \in Nat, NEW n \in Nat, j + n <= size,
         NEW b \in [Addr -> Addr \cup {FF}],
         NEW b2, b2 = BlockMoved(ME, b, from + j, to + j, n)
  PROVE  /\ b2 \in [Addr -> Addr \cup {FF}]
         /\ \A a \in Addr : Within(ME, a, to + j, to + j + n) => a - to + from \in Addr
         /\ \A a \in Addr :
              b2[a] = IF Within(ME, a, to + j, to + j + n) THEN b[a - to + from]
                      ELSE IF Within(ME, a, from + j, from + j + n) THEN FF
                      ELSE b[a]
         /\ \A a \in Addr : b2[a] = FF \/ \E c \in Addr : b2[a] = b[c]
<1>1. /\ ME.start \in Nat /\ ME.end \in Nat /\ ME.end <= FileLen /\ FileLen \in Nat
      /\ ME.start + from + size <= ME.end /\ ME.start + to + size <= ME.end
  BY Constants DEF Check
<1>2. \A a \in Addr : Within(ME, a, to + j, to + j + n) => a - to + from \in Addr
  <2> SUFFICES ASSUME NEW a \in Addr, Within(ME, a, to + j, to + j + n)
               PROVE  a - to + from \in Addr
    OBVIOUS
  <2>1. /\ a \in Nat /\ ME.start + to + j <= a /\ a < ME.start + to + j + n
    BY SMTT(30), <1>1 DEF Within, Addr
  <2>2. a - to + from \in Nat /\ a - to + from < FileLen
    BY <1>1, <2>1
  <2> QED
    BY <1>1, <2>2 DEF Addr
<1>3. \A a \in Addr : a - (to + j) + (from + j) = a - to + from
  BY DEF Addr
<1>4. b2 = [a \in Addr |->
              IF Within(ME, a, to + j, to + j + n) THEN b[a - (to + j) + (from + j)]
              ELSE IF Within(ME, a, from + j, from + j + n) THEN FF ELSE b[a]]
  BY DEF BlockMoved
<1>5. \A a \in Addr :
        b2[a] = IF Within(ME, a, to + j, to + j + n) THEN b[a - to + from]
                ELSE IF Within(ME, a, from + j, from + j + n) THEN FF
                ELSE b[a]
  BY <1>3, <1>4
<1>6. \A a \in Addr : b2[a] = FF \/ \E c \in Addr : b2[a] = b[c]
  BY <1>2, <1>5
<1>7. b2 \in [Addr -> Addr \cup {FF}]
  <2>1. \A a \in Addr : b2[a] \in Addr \cup {FF}
    BY <1>6
  <2>2. b2 = [a \in Addr |-> b2[a]]
    BY <1>4
  <2> QED
    BY <2>1, <2>2
<1> QED
  BY <1>2, <1>5, <1>6, <1>7

\* In a safe move, each block read has not been written over.
LEMMA MovedFurther ==
  ASSUME NEW from \in Nat, NEW to \in Nat, NEW size \in Nat,
         Check(ME, from, size), Check(ME, to, size), SafeMove(from, size, to),
         NEW j \in Nat, NEW n \in Nat, j + n <= size,
         size <= BLOCK => j = 0,
         NEW old \in [Addr -> Addr \cup {FF}],
         NEW b \in [Addr -> Addr \cup {FF}], Moved(ME, old, b, from, j, to),
         NEW b2, b2 = BlockMoved(ME, b, from + j, to + j, n)
  PROVE  Moved(ME, old, b2, from, j + n, to)
<1>1. /\ ME.start \in Nat /\ BLOCK \in Nat
      /\ \A a \in Addr : a \in Nat
  BY Constants, BlockAssumption
<1>2. /\ \A a \in Addr : Within(ME, a, to + j, to + j + n) => a - to + from \in Addr
      /\ \A a \in Addr :
           b2[a] = IF Within(ME, a, to + j, to + j + n) THEN b[a - to + from]
                   ELSE IF Within(ME, a, from + j, from + j + n) THEN FF
                   ELSE b[a]
  BY BlockCopied
<1>3. \A a \in Addr :
        b[a] = IF Within(ME, a, to, to + j) THEN old[a - to + from]
               ELSE IF Within(ME, a, from, from + j) THEN FF
               ELSE old[a]
  BY DEF Moved
<1> SUFFICES ASSUME NEW a \in Addr
             PROVE  b2[a] =
               IF Within(ME, a, to, to + (j + n)) THEN old[a - to + from]
               ELSE IF Within(ME, a, from, from + (j + n)) THEN FF ELSE old[a]
  BY DEF Moved
<1>4. CASE Within(ME, a, to + j, to + j + n)
  <2>1. a - to + from \in Addr /\ b2[a] = b[a - to + from]
    BY <1>2, <1>4
  <2>2. /\ ~Within(ME, a - to + from, to, to + j)
        /\ ~Within(ME, a - to + from, from, from + j)
    BY <1>1, <1>4 DEF Within, SafeMove
  <2>3. Within(ME, a, to, to + (j + n))
    BY <1>1, <1>4 DEF Within
  <2> QED
    BY <1>3, <2>1, <2>2, <2>3
<1>5. CASE /\ ~Within(ME, a, to + j, to + j + n)
           /\ Within(ME, a, from + j, from + j + n)
  <2>1. b2[a] = FF
    BY <1>2, <1>5
  <2>2. ~Within(ME, a, to, to + (j + n))
    BY <1>1, <1>5 DEF Within, SafeMove
  <2>3. Within(ME, a, from, from + (j + n))
    BY <1>1, <1>5 DEF Within
  <2> QED
    BY <2>1, <2>2, <2>3
<1>6. CASE /\ ~Within(ME, a, to + j, to + j + n)
           /\ ~Within(ME, a, from + j, from + j + n)
  <2>1. b2[a] = b[a]
    BY <1>2, <1>6
  <2>2. /\ Within(ME, a, to, to + (j + n)) <=> Within(ME, a, to, to + j)
        /\ Within(ME, a, from, from + (j + n)) <=> Within(ME, a, from, from + j)
    BY <1>1, <1>6 DEF Within
  <2> QED
    BY <1>3, <2>1, <2>2
<1> QED
  BY <1>4, <1>5, <1>6

\* After each block, what has been moved so far is what a complete move of
\* that much leaves.
LEMMA MoveBlockInv ==
  ASSUME IInv, MoveBlock
  PROVE  IInv'
<1> USE DEF IInv
<1> DEFINE from == fw.offset
           to == NewOffset
           size == MoveSize
           j == move.i
           n == Chunk(size, j)
           old == result.buf
<1>1. /\ move.from = from /\ move.to = to /\ move.size = size /\ MoveFits
      /\ Relocated /\ (size <= BLOCK => j \in {0, size})
  BY AtRelocation DEF MoveBlock, Moving
<1>2. /\ pc = "move" /\ pc' = pc /\ j < size
      /\ buf' = BlockMoved(ME, buf, from + j, to + j, n)
      /\ move' = [move EXCEPT !.i = j + n]
      /\ UNCHANGED <<inputs, fw, keepModules, relocate, checks, llut, chunks,
                     unremovable, i, endAddr, ftprOffset, result>>
  BY <1>1 DEF MoveBlock, inputs
<1>3. /\ fw \in Firmware /\ llut \in Llut /\ HeadersInRegion
      /\ result # None /\ old \in [Addr -> Addr \cup {FF}]
      /\ buf \in [Addr -> Addr \cup {FF}]
      /\ move \in [from : Nat, to : Nat, size : Nat, i : Nat]
      /\ endAddr \in Int /\ endAddr = result.end /\ Stripped
  BY <1>2, AtRelocation DEF TypeOK
<1>4. /\ from \in Nat /\ to \in Nat /\ size \in Nat /\ j \in Nat
      /\ Check(ME, from, size) /\ Check(ME, to, size)
  BY <1>1, <1>3, Types, MoveBounds DEF MoveFits
<1>5. n \in Nat /\ n > 0 /\ j + n <= size /\ (size <= BLOCK => j = 0 /\ n = size)
  <2>1. size <= BLOCK => j = 0
    BY <1>1, <1>2, <1>4
  <2> QED
    BY <1>2, <1>4, <2>1, BlockBounds
<1> HIDE DEF n
<1>6. /\ buf' \in [Addr -> Addr \cup {FF}]
      /\ \A a \in Addr : buf'[a] = FF \/ \E c \in Addr : buf'[a] = buf[c]
  BY <1>2, <1>3, <1>4, <1>5, BlockCopied
<1>7. MoveIsSafe => Moved(ME, old, buf', from, j + n, to)
  <2>1. ASSUME MoveIsSafe
        PROVE  SafeMove(from, size, to) /\ Moved(ME, old, buf, from, j, to)
    BY <1>1, <2>1 DEF Moving, MoveIsSafe
  <2> HIDE DEF from, to, size, old, j
  <2> QED
    BY <1>2, <1>3, <1>4, <1>5, <2>1, MovedFurther
<1>8. /\ move'.from = from /\ move'.to = to /\ move'.size = size
      /\ move'.i = j + n /\ move' \in [from : Nat, to : Nat, size : Nat, i : Nat]
  BY <1>1, <1>2, <1>3, <1>4, <1>5
<1>9. Relocated' /\ Stripped' /\ PassBuf' = PassBuf
  BY <1>2, <1>3 DEF Relocated, Stripped, PassBuf
<1>10. Framed' /\ Intact' /\ Found' /\ Marked' /\ Covered' /\ Gone' /\ Left'
  BY <1>2, <1>3, Over
<1>11. TypeOK'
  BY <1>2, <1>6, <1>8, SameFtpr DEF TypeOK
<1>12. Phase'
  BY <1>2, <1>3, <1>9, SameFtpr DEF Phase, Working
<1>13. /\ Diff' = Diff /\ NewOffset' = NewOffset /\ MoveSize' = MoveSize
       /\ Huffman' = Huffman /\ LlutStart' = LlutStart /\ Original' = Original
  BY <1>2, SameFtpr
<1>14. Loaded'
  <2>1. Shifted(Original)' = Shifted(Original)
    BY <1>13 DEF Shifted
  <2> QED
    BY <1>1, <1>2, <1>9, <1>13, <2>1 DEF Loaded
<1>15. Moving'
  <2>1. MoveFits' /\ (MoveIsSafe' <=> MoveIsSafe)
    BY <1>1, <1>2, <1>13 DEF MoveFits, MoveIsSafe, Check
  <2>2. \A a \in Addr : buf'[a] = FF \/ \E c \in Addr : buf'[a] = old[c]
    BY <1>1, <1>6 DEF Moving
  <2>3. j + n <= size /\ (size <= BLOCK => j + n \in {0, size})
    BY <1>4, <1>5
  <2>4. Huffman # {} =>
          /\ ME.start + LlutStart \in Addr
          /\ old[ME.start + LlutStart] = ME.start + LlutStart
    BY <1>1 DEF Moving
  <2> QED
    BY <1>2, <1>7, <1>8, <1>13, <2>1, <2>2, <2>3, <2>4 DEF Moving
<1> QED
  BY <1>10, <1>11, <1>12, <1>14, <1>15

\* The move done, the end is shifted with FTPR.
LEMMA FinishMoveInv ==
  ASSUME IInv, FinishMove
  PROVE  IInv'
<1> USE DEF IInv
<1>1. /\ pc = "move" /\ pc' \in {"done", "panic"} /\ move.i >= move.size
      /\ endAddr' = endAddr + move.to - move.from
      /\ UNCHANGED <<inputs, fw, keepModules, relocate, checks, buf, llut, chunks,
                     unremovable, i, ftprOffset, move, result>>
  BY DEF FinishMove, inputs
<1>2. /\ fw \in Firmware /\ result # None /\ Stripped /\ Relocated
      /\ endAddr \in Int /\ endAddr = result.end
      /\ move \in [from : Nat, to : Nat, size : Nat, i : Nat]
  BY <1>1, AtRelocation DEF TypeOK
<1>3. relocate /\ Relocated' /\ Stripped' /\ PassBuf' = PassBuf
  BY <1>1, <1>2 DEF Relocated, Stripped, PassBuf, Phase
<1>4. Framed' /\ Intact' /\ Found' /\ Marked' /\ Covered' /\ Gone' /\ Left'
  BY <1>1, <1>2, Over
<1>5. endAddr' = result.end + (move.to - move.from) /\ endAddr' \in Int
  BY <1>1, <1>2
<1>6. TypeOK'
  BY <1>1, <1>5, SameFtpr DEF TypeOK
<1>7. Phase'
  BY <1>1, <1>2, <1>3, <1>5, SameFtpr DEF Phase, Working
<1>8. /\ Diff' = Diff /\ NewOffset' = NewOffset /\ MoveSize' = MoveSize
      /\ Huffman' = Huffman /\ LlutStart' = LlutStart /\ Original' = Original
  BY <1>1, SameFtpr
<1>9. Loaded'
  <2>1. Shifted(Original)' = Shifted(Original)
    BY <1>8 DEF Shifted
  <2> QED
    BY <1>1, <1>2, <1>3, <1>8, <2>1 DEF Loaded
<1>10. Moving'
  <2>1. MoveFits' <=> MoveFits
    BY <1>1, <1>8 DEF MoveFits, Check
  <2>2. MoveIsSafe' <=> MoveIsSafe
    BY <1>1, <1>8 DEF MoveIsSafe
  <2>3. move.i <= move.size
    BY <1>2 DEF Moving
  <2>4. move.i = move.size
    BY <1>1, <1>2, <2>3
  <2> QED
    BY <1>1, <1>2, <1>8, <2>1, <2>2, <2>4 DEF Moving
<1> QED
  BY <1>4, <1>6, <1>7, <1>9, <1>10

LEMMA NextInv ==
  ASSUME IInv, [Next]_vars
  PROVE  IInv'
<1>1. CASE ReadFails \/ Decline \/ KeepModules \/ LlutMissing \/ HuffmanPanics
  BY <1>1, EndInv
<1>2. CASE RemoveModules
  BY <1>2, RemoveInv
<1>3. CASE KeepPlain
  BY <1>3, KeepPlainInv
<1>4. CASE ErasePlain
  BY <1>4, ErasePlainInv
<1>5. CASE SkipOther
  BY <1>5, SkipOtherInv
<1>6. CASE HuffmanModule
  BY <1>6, HuffmanInv
<1>7. CASE ModulesRead
  BY <1>7, ModulesReadInv
<1>8. CASE SpareChunk
  BY <1>8, SpareChunkInv
<1>9. CASE EraseChunk
  BY <1>9, EraseChunkInv
<1>10. CASE FinishRemoval
  BY <1>10, FinishRemovalInv
<1>11. CASE StayInPlace
  BY <1>11, StayInPlaceInv
<1>12. CASE RelocateFails
  BY <1>12, RelocateFailsInv
<1>13. CASE StartMove
  BY <1>13, StartMoveInv
<1>14. CASE MoveBlock
  BY <1>14, MoveBlockInv
<1>15. CASE FinishMove
  BY <1>15, FinishMoveInv
<1>16. CASE UNCHANGED vars
  <2> USE <1>16 DEF vars, inputs, IInv
  <2>1. TypeOK' /\ Phase' /\ Loaded'
    BY SameFtpr DEF TypeOK, Phase, Loaded, PassBuf, Stripped, Relocated, Working, Shifted
  <2>2. Framed' /\ Intact'
    BY SameBytes DEF PassBuf
  <2>3. Found' /\ Marked' /\ Covered' /\ Gone'
    BY SameFtpr DEF Found, Marked, Covered, Gone, Scanned, Working, Overlaps
  <2>4. Left' /\ Moving'
    BY SameFtpr DEF Left, Moving, Stripped, Relocated, MoveFits, MoveIsSafe, Check
  <2> QED
    BY <2>1, <2>2, <2>3, <2>4
<1> QED
  BY <1>1, <1>2, <1>3, <1>4, <1>5, <1>6, <1>7, <1>8, <1>9, <1>10, <1>11, <1>12,
     <1>13, <1>14, <1>15, <1>16 DEF Next

\* The strengthened invariant holds throughout.
THEOREM Invariant == Spec => []IInv
<1>1. IInv /\ [Next]_vars => IInv'
  BY NextInv
<1> QED
  BY <1>1, InitInv, PTL DEF Spec
-----------------------------------------------------------------------------
\* The states of the model are those of the code: the addresses, offsets and
\* counters of modules.rs stay in their types for every partition and LLUT.
THEOREM TypeCorrect == Spec => []TypeOK
<1>1. IInv => TypeOK
  BY DEF IInv
<1> QED
  BY <1>1, Invariant, PTL

\* Where the relocation has put a datum of FTPR.
LEMMA AfterMove ==
  ASSUME IInv, pc \in {"done", "panic"}, move.size > 0
  PROVE  /\ Relocated /\ Stripped /\ fw \in Firmware /\ llut \in Llut
         /\ HeadersInRegion /\ MoveFits /\ Diff \in Int
         /\ result.buf = PassBuf /\ result.buf \in [Addr -> Addr \cup {FF}]
         /\ pc = "done" => endAddr = result.end + Diff /\ result.end \in Int
         /\ MoveIsSafe => Moved(ME, result.buf, buf, fw.offset, MoveSize, NewOffset)
         /\ MoveIsSafe => \A d \in Addr : InFtpr(d) =>
              d + Diff \in Addr /\ buf[d + Diff] = result.buf[d]
<1> USE DEF IInv
<1>1. Relocated /\ Stripped
  <2>1. move # NoMove
    BY DEF NoMove
  <2> QED
    BY <2>1 DEF Phase, Relocated
<1>2. /\ fw \in Firmware /\ llut \in Llut /\ HeadersInRegion
      /\ result # None /\ result.buf = PassBuf
      /\ result.buf \in [Addr -> Addr \cup {FF}]
      /\ pc = "done" => result.end \in Int
  <2>1. fw \in Firmware /\ llut \in Llut /\ result # None /\ HeadersInRegion
        /\ result \in Results
    BY <1>1 DEF TypeOK, Phase, Stripped
  <2> QED
    BY <1>1, <2>1 DEF Results, PassBuf, Phase
<1>3. /\ MoveFits /\ move.from = fw.offset /\ move.to = NewOffset
      /\ move.i = MoveSize
      /\ MoveIsSafe => Moved(ME, result.buf, buf, fw.offset, MoveSize, NewOffset)
  BY <1>1 DEF Moving
<1>4. /\ Diff \in Int /\ Diff = NewOffset - fw.offset /\ fw.offset \in Nat
      /\ NewOffset \in Nat
  BY <1>2, MoveBounds, Types
<1>5. pc = "done" => endAddr = result.end + Diff
  BY <1>2, <1>3, <1>4 DEF Phase
<1>6. ASSUME MoveIsSafe, NEW d \in Addr, InFtpr(d)
      PROVE  d + Diff \in Addr /\ buf[d + Diff] = result.buf[d]
  <2>1. d \in Int
    BY Constants
  <2>2. d + Diff \in Addr /\ Within(ME, d + Diff, NewOffset, NewOffset + MoveSize)
    BY <1>2, <1>3, <1>6, <2>1, MoveInImage DEF InFtpr
  <2>3. d + Diff - NewOffset + fw.offset = d
    BY <1>4, <2>1
  <2>4. \A a \in Addr : Within(ME, a, NewOffset, NewOffset + MoveSize) =>
          buf[a] = result.buf[a - NewOffset + fw.offset]
    BY <1>2, <1>3, <1>6 DEF Moved
  <2>5. PICK t \in Addr : t = d + Diff
    BY <2>2
  <2>6. buf[t] = result.buf[t - NewOffset + fw.offset]
    BY <2>2, <2>4, <2>5
  <2>7. t - NewOffset + fw.offset = d
    BY <1>4, <2>1, <2>5
  <2> QED
    BY <2>5, <2>6, <2>7
<1> QED
  BY <1>1, <1>2, <1>3, <1>4, <1>5, <1>6

\* If it has not moved anything, the bytes are those of the pass.
LEMMA NothingMoved ==
  ASSUME IInv, pc # "move", ~HasMoved
  PROVE  \/ PassBuf = buf /\ (pc = "done" => Stripped /\ endAddr = result.end)
         \/ Vital = {}
<1> USE DEF IInv
<1>1. CASE ~Relocated
  <2>1. PassBuf = buf /\ move = NoMove
    BY <1>1 DEF Phase
  <2>2. pc = "done" =>
          Stripped /\ result.end \in Int /\ endAddr = result.end + (move.to - move.from)
    BY DEF Phase
  <2> QED
    BY <2>1, <2>2 DEF NoMove
<1>2. CASE Relocated
  <2>1. /\ fw \in Firmware /\ move.size \in Nat /\ move.size = MoveSize
    BY <1>2 DEF TypeOK, Moving
  <2>2. MoveSize = 0 /\ fw.offset \in Nat
    BY <1>2, <2>1, Types DEF HasMoved, Relocated
  <2>3. \A d \in Addr : ~InFtpr(d)
    BY <2>2, Constants DEF InFtpr, Within
  <2> QED
    BY <2>3 DEF Vital
<1> QED
  BY <1>1, <1>2

\* Whatever the pass erases and wherever FTPR is moved, the data of the
\* modules that have to stay is intact, and in front of the end returned.
THEOREM Survives == Spec => []UnremovableSurvives
<1>1. ASSUME IInv PROVE UnremovableSurvives
  <2> USE <1>1 DEF IInv
  <2> SUFFICES ASSUME Sound, pc # "move", HasMoved => MoveIsSafe, NEW d \in Vital
               PROVE  /\ buf[Place(d)] = d
                      /\ pc = "done" => Place(d) < ME.start + endAddr
    BY DEF UnremovableSurvives
  <2>1. /\ d \in Addr /\ d \in Int /\ InFtpr(d) /\ PassBuf[d] = d
        /\ ME.start \in Nat
    BY Constants DEF Vital, Intact
  <2>2. Stripped => d < ME.start + result.end
    BY DEF Left
  <2>3. CASE HasMoved
    <3>1. Place(d) = d + Diff /\ pc \in {"done", "panic"} /\ move.size > 0
      BY <2>3 DEF Place, HasMoved
    <3>2. buf[d + Diff] = d
      BY <2>1, <2>3, <3>1, AfterMove
    <3>3. pc = "done" => endAddr = result.end + Diff /\ result.end \in Int
      BY <3>1, AfterMove
    <3>4. Stripped /\ Diff \in Int
      BY <3>1, AfterMove
    <3> QED
      BY <2>1, <2>2, <3>1, <3>2, <3>3, <3>4
  <2>4. CASE ~HasMoved
    <3>1. Place(d) = d
      BY <2>4 DEF Place
    <3>2. PassBuf = buf /\ (pc = "done" => Stripped /\ endAddr = result.end)
      BY <2>4, NothingMoved
    <3> QED
      BY <2>1, <2>2, <3>1, <3>2
  <2> QED
    BY <2>3, <2>4
<1> QED
  BY <1>1, Invariant, PTL

\* No byte of a module that was to be removed is left, and none that the
\* modules that stay share no chunk with.
THEOREM Removed == Spec => []RemovedModulesGone
<1>1. ASSUME IInv PROVE RemovedModulesGone
  <2> USE <1>1 DEF IInv
  <2> SUFFICES ASSUME Sound, pc = "done", ~keepModules, NEW a \in Addr,
                      buf[a] # FF, buf[a] < ME.end
               PROVE  ~Unneeded(buf[a])
    BY DEF RemovedModulesGone
  <2>1. Stripped /\ result # None /\ PassBuf = result.buf
    BY DEF Phase, Stripped, PassBuf
  <2>2. PICK b \in Addr : buf[a] = result.buf[b]
    <3>1. CASE Relocated
      BY <3>1 DEF Moving
    <3>2. CASE ~Relocated
      BY <2>1, <3>2 DEF Phase
    <3> QED
      BY <3>1, <3>2
  <2>3. result.buf[b] = b
    BY <2>1, <2>2 DEF Framed
  <2> QED
    BY <2>1, <2>2, <2>3 DEF Left
<1> QED
  BY <1>1, Invariant, PTL
-----------------------------------------------------------------------------
\* A number is known by where it lies and what it differs from a multiple in.
LEMMA Residue ==
  ASSUME NEW w \in Nat \ {0}, NEW n \in Int
  PROVE  /\ n % w \in 0 .. w - 1
         /\ \E k \in Int : n = k * w + (n % w)
         /\ \A x \in 0 .. w - 1 : (\E k \in Int : n = k * w + x) => x = n % w
<1> DEFINE r == n % w
           q == n \div w
<1>1. r \in 0 .. w - 1 /\ q \in Int
  OBVIOUS
<1>2. r = n - q * w
  OBVIOUS
<1>3. n % w = r
  OBVIOUS
<1> HIDE DEF r, q
<1>4. n = q * w + r
  BY <1>1, <1>2
<1>5. ASSUME NEW x \in 0 .. w - 1, NEW k \in Int, n = k * w + x
      PROVE  x = r
  <2>1. q = k
    <3>1. q * w \in Int /\ k * w \in Int /\ r \in Int /\ x \in Int
      BY <1>1
    <3>2. q + 1 <= k => (q + 1) * w <= k * w
      BY <1>1, Product
    <3>3. k + 1 <= q => (k + 1) * w <= q * w
      BY <1>1, Product
    <3>4. (q + 1) * w = q * w + w /\ (k + 1) * w = k * w + w
      BY <1>1
    <3>5. ~(q + 1 <= k)
      BY <1>1, <1>4, <1>5, <3>1, <3>2, <3>4
    <3>6. ~(k + 1 <= q)
      BY <1>1, <1>4, <1>5, <3>1, <3>3, <3>4
    <3> QED
      BY <1>1, <3>5, <3>6
  <2>2. q * w \in Int
    BY <1>1
  <2> QED
    BY <1>1, <1>4, <1>5, <2>1, <2>2
<1>6. \E k \in Int : n = k * w + r
  BY <1>1, <1>4
<1>7. \A x \in 0 .. w - 1 : (\E k \in Int : n = k * w + x) => x = r
  BY <1>5
<1> QED
  BY <1>1, <1>6, <1>7, Zenon DEF r

\* In an LLUT that lies in FTPR with all it points to, no pointer wraps.
LEMMA ShiftedOffsets ==
  ASSUME fw \in Firmware, llut \in Llut, llut.corr = Original.corr,
         HeadersInRegion, MoveFits, Huffman # {}, LlutInFtpr
  PROVE  /\ Shifted(Original).lutOffset = LlutStart + Diff + LLUT_HEAD - Original.corr
         /\ StreamEnd(Shifted(Original)) = StreamEnd(Original) + Diff
         /\ DOMAIN Shifted(Original).chunks = DOMAIN Original.chunks
         /\ \A c \in DOMAIN Original.chunks :
              /\ HoldsData(c) => /\ Offset(Shifted(Original), c) = Offset(Original, c) + Diff
                                 /\ Offset(Original, c) + Diff > 0
              /\ ~HoldsData(c) => Offset(Shifted(Original), c) = 0
<1> DEFINE l == Original
           n == Shifted(Original)
<1>1. /\ fw.offset \in Nat /\ MoveSize \in Nat /\ NewOffset \in Nat /\ NewOffset > 0
      /\ Diff \in Int /\ Diff = NewOffset - fw.offset /\ LlutStart \in Nat
      /\ LlutStart + Diff + LLUT_HEAD >= l.corr
      /\ LLUT_HEAD \in Nat /\ WORD \in Nat \ {0} /\ OffsetValues \in Nat \ {0}
      /\ OffsetValues < WORD /\ MeLen \in Nat
  <2>1. /\ fw.offset \in Nat /\ MoveSize \in Nat /\ NewOffset \in Nat
        /\ NewOffset > 0 /\ Diff \in Int /\ Diff = NewOffset - fw.offset
        /\ LlutStart \in Nat /\ LlutStart + Diff + LLUT_HEAD >= llut.corr
    BY Types, MoveBounds
  <2> QED
    BY <2>1, Constants
<1>2. /\ l \in Llut /\ l.huffSize \in Nat /\ l.huffStart \in Nat /\ l.corr \in Nat
      /\ StreamEnd(l) \in Nat
      /\ \A c \in DOMAIN l.chunks :
           /\ l.chunks[c] \in [offset : 0 .. OffsetValues - 1, absent : BOOLEAN]
           /\ Offset(l, c) \in Nat
  BY Types, LlutTypes
<1>3. NewOffset + MoveSize <= OffsetValues
  <2>1. NewOffset + MoveSize <= MeLen
    BY <1>1, Constants DEF MoveFits, Check
  <2>2. MeLen <= OffsetValues
    BY DEF LlutInFtpr
  <2> QED
    BY <1>1, <2>1, <2>2
<1>4. /\ n.lutOffset = (LlutStart + Diff + LLUT_HEAD - l.corr) % WORD
      /\ n.huffStart = (l.huffStart + Diff) % WORD
      /\ n.huffSize = l.huffSize
      /\ n.chunks = [c \in DOMAIN l.chunks |->
            IF l.chunks[c].absent THEN l.chunks[c]
            ELSE [l.chunks[c] EXCEPT !.offset = (@ + Diff) % OffsetValues]]
  BY <1>2 DEF Shifted, Llut
<1> HIDE DEF l, n
<1>5. n.lutOffset = LlutStart + Diff + LLUT_HEAD - l.corr
  <2> DEFINE x == LlutStart + Diff + LLUT_HEAD - l.corr
  <2>1. LlutStart + LLUT_HEAD <= fw.offset + MoveSize
    BY DEF LlutInFtpr
  <2>2. x \in 0 .. WORD - 1
    BY <1>1, <1>2, <1>3, <2>1
  <2>3. \E k \in Int : x = k * WORD + x
    <3>1. x = 0 * WORD + x
      BY <1>1, <2>2
    <3> QED
      BY <3>1
  <2> HIDE DEF x
  <2>4. x = x % WORD
    <3>1. x \in Int /\ WORD \in Nat \ {0}
      BY <1>1, <2>2
    <3>2. \A y \in 0 .. WORD - 1 :
            (\E k \in Int : x = k * WORD + y) => y = x % WORD
      BY <3>1, Residue
    <3> QED
      BY <2>2, <2>3, <3>2
  <2> QED
    BY <1>4, <2>4 DEF x
<1>6. StreamEnd(n) = StreamEnd(l) + Diff
  <2> DEFINE a == l.huffSize
             b == l.huffStart
             x == StreamEnd(l) + Diff
             y == (b + Diff) % WORD
  <2>1. a \in Int /\ b \in Int /\ Diff \in Int
    BY <1>1, <1>2
  <2>2. StreamEnd(n) = (a + y) % WORD
    BY <1>4 DEF StreamEnd
  <2>3. StreamEnd(l) = (a + b) % WORD
    BY DEF StreamEnd
  <2>4. x \in 0 .. WORD - 1
    <3>1. StreamEnd(l) \in fw.offset .. fw.offset + MoveSize
      BY DEF LlutInFtpr, l
    <3> QED
      BY <1>1, <1>2, <1>3, <3>1
  <2>5. y \in Int
    BY <1>1, <2>1
  <2>6. PICK k \in Int : a + b = k * WORD + StreamEnd(l)
    <3>1. a + b \in Int
      BY <2>1
    <3>2. \E k \in Int : a + b = k * WORD + ((a + b) % WORD)
      BY <1>1, <3>1, Residue
    <3> QED
      BY <2>3, <3>2
  <2>7. PICK j \in Int : b + Diff = j * WORD + y
    <3>1. b + Diff \in Int
      BY <2>1
    <3> QED
      BY <1>1, <3>1, Residue
  <2> HIDE DEF y, a, b
  <2>8. a + y = (k - j) * WORD + x
    <3>1. k * WORD \in Int /\ j * WORD \in Int
      BY <1>1
    <3>2. (k - j) * WORD = k * WORD - j * WORD
      BY <1>1
    <3> QED
      BY <1>1, <1>2, <2>1, <2>5, <2>6, <2>7, <3>1, <3>2
  <2> HIDE DEF x
  <2>9. a + y \in Int /\ k - j \in Int
    BY <2>1, <2>5
  <2>10. x = (a + y) % WORD
    BY <1>1, <2>4, <2>8, <2>9, Residue
  <2> QED
    BY <2>2, <2>10 DEF x
<1>7. DOMAIN n.chunks = DOMAIN l.chunks
  BY <1>4
<1>8. ASSUME NEW c \in DOMAIN l.chunks
      PROVE  /\ HoldsData(c) => /\ Offset(n, c) = Offset(l, c) + Diff
                                /\ Offset(l, c) + Diff > 0
             /\ ~HoldsData(c) => Offset(n, c) = 0
  <2>1. n.chunks[c] = IF l.chunks[c].absent THEN l.chunks[c]
            ELSE [l.chunks[c] EXCEPT !.offset = (l.chunks[c].offset + Diff) % OffsetValues]
    BY <1>4
  <2>2. l.chunks[c] \in [offset : 0 .. OffsetValues - 1, absent : BOOLEAN]
    BY <1>2
  <2>3. CASE HoldsData(c)
    <3>1. ~l.chunks[c].absent /\ Offset(l, c) = l.chunks[c].offset
      BY <2>3 DEF HoldsData, Offset, l
    <3>2. Offset(n, c) = (Offset(l, c) + Diff) % OffsetValues
      BY <2>1, <2>2, <3>1 DEF Offset
    <3> DEFINE x == Offset(l, c) + Diff
    <3>3. x \in 0 .. OffsetValues - 1 /\ x > 0
      <4>1. Offset(l, c) \in fw.offset .. fw.offset + MoveSize - 1
        BY <2>3 DEF LlutInFtpr, l
      <4> QED
        BY <1>1, <1>2, <1>3, <4>1
    <3>4. \E k \in Int : x = k * OffsetValues + x
      <4>1. x = 0 * OffsetValues + x
        BY <1>1, <3>3
      <4> QED
        BY <4>1
    <3> HIDE DEF x
    <3>5. x = x % OffsetValues
      <4>1. x \in Int /\ OffsetValues \in Nat \ {0}
        BY <1>1, <3>3
      <4>2. \A y \in 0 .. OffsetValues - 1 :
              (\E k \in Int : x = k * OffsetValues + y) => y = x % OffsetValues
        BY <4>1, Residue
      <4> QED
        BY <3>3, <3>4, <4>2
    <3> QED
      BY <2>3, <3>2, <3>3, <3>5 DEF x
  <2>4. CASE ~HoldsData(c)
    <3>1. l.chunks[c].absent
      BY <2>4 DEF LlutInFtpr, l
    <3> QED
      BY <2>1, <2>4, <3>1 DEF Offset
  <2> QED
    BY <2>3, <2>4
<1> QED
  BY <1>5, <1>6, <1>7, <1>8 DEF l, n

\* And every chunk is as long as before.
LEMMA ShiftedRanges ==
  ASSUME fw \in Firmware, llut \in Llut, llut.corr = Original.corr,
         HeadersInRegion, MoveFits, Huffman # {}, LlutInFtpr, Sound,
         NEW c \in DOMAIN Original.chunks, HoldsData(c)
  PROVE  LET old == GetChunksOffsets(Original)[c]
             new == GetChunksOffsets(Shifted(Original))[c]
         IN  new.start = old.start + Diff /\ new.end = old.end + Diff
<1> DEFINE l == Original
           n == Shifted(Original)
           v == Offset(l, c)
<1>1. /\ StreamEnd(n) = StreamEnd(l) + Diff
      /\ DOMAIN n.chunks = DOMAIN l.chunks
      /\ \A d \in DOMAIN l.chunks :
            /\ HoldsData(d) => /\ Offset(n, d) = Offset(l, d) + Diff
                               /\ Offset(l, d) + Diff > 0
            /\ ~HoldsData(d) => Offset(n, d) = 0
  BY ShiftedOffsets
<1>2. /\ l \in Llut /\ n \in Llut /\ Diff \in Int /\ StreamEnd(l) \in Nat
      /\ \A d \in DOMAIN l.chunks : Offset(l, d) \in Nat
      /\ v \in Nat
  BY Types, LlutTypes, ShiftedTypes, MoveBounds
<1>3. /\ ~NoSuccessor(l)
      /\ \A d \in DOMAIN l.chunks : HoldsData(d) => ~Twice(l, Offset(l, d))
  BY DEF Sound
<1>4. \A d : HoldsData(d) <=> Offset(l, d) # 0
  BY DEF HoldsData
<1> HIDE DEF l, n
<1>5. ASSUME NEW d \in DOMAIN l.chunks, HoldsData(d)
      PROVE  /\ ~Twice(n, Offset(n, d))
             /\ \A w \in Larger(l, Offset(l, d)) : w + Diff \in Larger(n, Offset(n, d))
             /\ \A w \in Larger(n, Offset(n, d)) : w - Diff \in Larger(l, Offset(l, d))
             /\ \A w \in Larger(l, Offset(l, d)) \cup Larger(n, Offset(n, d)) : w \in Int
  <2> DEFINE u == Offset(l, d)
  <2>1. u \in Nat /\ Offset(n, d) = u + Diff /\ u + Diff > 0
    BY <1>1, <1>2, <1>5
  <2>2. /\ u # StreamEnd(l)
        /\ \A e, f \in DOMAIN l.chunks : e # f => ~(Offset(l, e) = u /\ Offset(l, f) = u)
    BY <1>3, <1>5 DEF Twice
  <2> HIDE DEF u
  <2>3. ASSUME NEW e \in DOMAIN l.chunks
        PROVE  /\ Offset(n, e) = u + Diff <=> Offset(l, e) = u
               /\ Offset(n, e) > u + Diff <=> Offset(l, e) > u
               /\ Offset(l, e) > u => Offset(n, e) = Offset(l, e) + Diff
               /\ Offset(n, e) > u + Diff => Offset(n, e) = Offset(l, e) + Diff
               /\ Offset(n, e) \in Int
    <3>1. CASE HoldsData(e)
      BY <1>1, <1>2, <2>1, <3>1
    <3>2. CASE ~HoldsData(e)
      <4>1. Offset(l, e) = 0 /\ Offset(n, e) = 0
        BY <1>1, <1>4, <3>2
      <4>2. u > 0
        BY <1>4, <1>5, <2>1 DEF u
      <4> QED
        BY <1>2, <2>1, <4>1, <4>2
    <3> QED
      BY <3>1, <3>2
  <2>4. ~Twice(n, u + Diff)
    <3>1. u + Diff # StreamEnd(n)
      BY <1>1, <1>2, <2>1, <2>2
    <3> QED
      BY <1>1, <2>2, <2>3, <3>1 DEF Twice
  <2>5. ASSUME NEW w \in Larger(l, u)
        PROVE  w + Diff \in Larger(n, u + Diff) /\ w \in Int
    <3>1. /\ w > u
          /\ w = StreamEnd(l) \/ \E e \in DOMAIN l.chunks : w = Offset(l, e)
      BY DEF Larger
    <3>2. CASE w = StreamEnd(l)
      <4>1. w + Diff = StreamEnd(n) /\ w + Diff > u + Diff /\ w \in Int
        BY <1>1, <1>2, <2>1, <3>1, <3>2
      <4> QED
        BY <4>1 DEF Larger
    <3>3. CASE \E e \in DOMAIN l.chunks : w = Offset(l, e)
      <4>1. PICK e \in DOMAIN l.chunks : w = Offset(l, e)
        BY <3>3
      <4>2. /\ w + Diff = Offset(n, e) /\ w + Diff > u + Diff /\ w \in Int
            /\ e \in DOMAIN n.chunks
        BY <1>1, <1>2, <2>1, <2>3, <3>1, <4>1
      <4> QED
        BY <4>2 DEF Larger
    <3> QED
      BY <3>1, <3>2, <3>3
  <2>6. ASSUME NEW w \in Larger(n, u + Diff)
        PROVE  w - Diff \in Larger(l, u) /\ w \in Int
    <3>1. /\ w > u + Diff
          /\ w = StreamEnd(n) \/ \E e \in DOMAIN l.chunks : w = Offset(n, e)
      BY <1>1 DEF Larger
    <3>2. CASE w = StreamEnd(n)
      <4>1. w - Diff = StreamEnd(l) /\ w - Diff > u /\ w \in Int
        BY <1>1, <1>2, <2>1, <3>1, <3>2
      <4> QED
        BY <4>1 DEF Larger
    <3>3. CASE \E e \in DOMAIN l.chunks : w = Offset(n, e)
      <4>1. PICK e \in DOMAIN l.chunks : w = Offset(n, e)
        BY <3>3
      <4>2. w - Diff = Offset(l, e) /\ w - Diff > u /\ w \in Int
        BY <1>2, <2>1, <2>3, <3>1, <4>1
      <4> QED
        BY <4>2 DEF Larger
    <3> QED
      BY <3>1, <3>2, <3>3
  <2> QED
    BY <2>1, <2>4, <2>5, <2>6 DEF u
<1>6. ~NoSuccessor(n)
  <2> SUFFICES ASSUME NEW d \in DOMAIN l.chunks, Offset(n, d) # 0,
                      Larger(n, Offset(n, d)) = {}
               PROVE  FALSE
    BY <1>1 DEF NoSuccessor
  <2>1. HoldsData(d)
    BY <1>1
  <2>2. Larger(l, Offset(l, d)) # {}
    BY <1>3, <1>4, <2>1 DEF NoSuccessor
  <2> QED
    BY <1>5, <2>1, <2>2
<1> DEFINE old == GetChunksOffsets(l)[c]
           new == GetChunksOffsets(n)[c]
<1>7. /\ old.start = v /\ old.end \in Larger(l, v)
      /\ \A w \in Larger(l, v) : old.end <= w
  <2>1. v # 0 /\ ~Twice(l, v) /\ c \in DOMAIN l.chunks
    BY <1>3, <1>4 DEF l
  <2> QED
    BY <1>2, <1>3, <2>1, RangeTypes
<1>8. /\ new.start = Offset(n, c) /\ Offset(n, c) = v + Diff
      /\ new.end \in Larger(n, Offset(n, c))
      /\ \A w \in Larger(n, Offset(n, c)) : new.end <= w
  <2>1. /\ c \in DOMAIN l.chunks /\ c \in DOMAIN n.chunks
        /\ Offset(n, c) = v + Diff /\ Offset(n, c) # 0
    BY <1>1, <1>2 DEF l
  <2>2. ~Twice(n, Offset(n, c))
    BY <1>5, <2>1
  <2> QED
    BY <1>2, <1>6, <2>1, <2>2, RangeTypes
<1>9. /\ old.end + Diff \in Larger(n, Offset(n, c)) /\ old.end \in Int
      /\ new.end - Diff \in Larger(l, v) /\ new.end \in Int
  <2>1. c \in DOMAIN l.chunks
    BY DEF l
  <2> QED
    BY <1>5, <1>7, <1>8, <2>1
<1> HIDE DEF old, new
<1>10. new.end <= old.end + Diff /\ old.end <= new.end - Diff
  BY <1>7, <1>8, <1>9
<1> HIDE DEF v
<1>11. new.end = old.end + Diff
  BY <1>2, <1>9, <1>10
<1> QED
  BY <1>7, <1>8, <1>11 DEF old, new, l, n

\* After a safe move of an LLUT that lies in FTPR with all it points to, the
\* LLUT is in its new place, its pointer to itself has not wrapped, and each
\* chunk is found where its data has been moved.
THEOREM LlutFollowsFtpr == Spec => []LlutFollows
<1>1. ASSUME IInv PROVE LlutFollows
  <2> USE <1>1 DEF IInv
  <2> SUFFICES ASSUME Sound, pc = "done", HasMoved, MoveIsSafe, Huffman # {},
                      LlutInFtpr
               PROVE  /\ buf[ME.start + LlutStart + Diff] = ME.start + LlutStart
                      /\ llut.lutOffset = LlutStart + Diff + LLUT_HEAD - Original.corr
                      /\ \A c \in DOMAIN Original.chunks : HoldsData(c) =>
                           LET old == GetChunksOffsets(Original)[c]
                               new == GetChunksOffsets(llut)[c]
                           IN  /\ new.start = old.start + Diff
                               /\ new.end = old.end + Diff
                               /\ \A d \in Addr : (InChunk(d, c) /\ InFtpr(d)) =>
                                    buf[d + Diff] \in {d, FF}
    BY DEF LlutFollows
  <2>1. /\ Relocated /\ Stripped /\ fw \in Firmware /\ llut \in Llut
        /\ HeadersInRegion /\ MoveFits /\ Diff \in Int /\ result.buf = PassBuf
        /\ \A d \in Addr : InFtpr(d) =>
             d + Diff \in Addr /\ buf[d + Diff] = result.buf[d]
    BY AfterMove DEF HasMoved
  <2>2. llut = Shifted(Original) /\ llut.corr = Original.corr
    BY <2>1 DEF Loaded
  <2>3. buf[ME.start + LlutStart + Diff] = ME.start + LlutStart
    <3>1. /\ ME.start + LlutStart \in Addr
          /\ result.buf[ME.start + LlutStart] = ME.start + LlutStart
      BY <2>1 DEF Moving
    <3>2. /\ LlutStart \in Nat /\ fw.offset <= LlutStart /\ fw.offset \in Nat
          /\ MoveSize \in Nat
      BY <2>1, MoveBounds, Types
    <3>3. LlutStart + LLUT_HEAD <= fw.offset + MoveSize
      BY DEF LlutInFtpr
    <3>4. InFtpr(ME.start + LlutStart)
      BY <3>2, <3>3, Constants DEF InFtpr, Within
    <3> QED
      BY <2>1, <3>1, <3>4
  <2>4. llut.lutOffset = LlutStart + Diff + LLUT_HEAD - Original.corr
    BY <2>1, <2>2, ShiftedOffsets
  <2>5. ASSUME NEW c \in DOMAIN Original.chunks, HoldsData(c)
        PROVE  LET old == GetChunksOffsets(Original)[c]
                   new == GetChunksOffsets(llut)[c]
               IN  /\ new.start = old.start + Diff
                   /\ new.end = old.end + Diff
                   /\ \A d \in Addr : (InChunk(d, c) /\ InFtpr(d)) =>
                        buf[d + Diff] \in {d, FF}
    <3>1. LET old == GetChunksOffsets(Original)[c]
              new == GetChunksOffsets(Shifted(Original))[c]
          IN  new.start = old.start + Diff /\ new.end = old.end + Diff
      BY <2>1, <2>2, <2>5, ShiftedRanges
    <3>2. ASSUME NEW d \in Addr, InFtpr(d)
          PROVE  buf[d + Diff] \in {d, FF}
      <4>1. buf[d + Diff] = PassBuf[d]
        BY <2>1, <3>2
      <4>2. PassBuf[d] = d \/ PassBuf[d] = FF
        BY DEF Framed
      <4> QED
        BY <4>1, <4>2
    <3> QED
      BY <2>2, <3>1, <3>2
  <2> QED
    BY <2>3, <2>4, <2>5
<1> QED
  BY <1>1, Invariant, PTL
-----------------------------------------------------------------------------
\* What the partition stage sees of a state.
Outcome == IF result = None THEN Image ELSE result.buf
Returned == IF result = None THEN None ELSE result.end
Status == IF result = None THEN "called" ELSE result.status

\* The bytes of a pass that is not over are the image with cells erased, and
\* those lie in FTPR if no chunk is in front of it.
LEMMA ErasedSoFar ==
  ASSUME IInv, result = None
  PROVE  \E cells \in SUBSET Addr :
           /\ buf = Pass!Erased(Image, cells)
           /\ ChunksInFtpr => cells \in SUBSET Pass!FtprCells
<1> USE DEF IInv
<1> DEFINE cells == {a \in Addr : buf[a] = FF}
<1>1. PassBuf = buf /\ Outcome = Image /\ buf \in [Addr -> Addr \cup {FF}]
  BY DEF PassBuf, Outcome, TypeOK
<1>2. ChunksInFtpr => cells \in SUBSET Pass!FtprCells
  <2> SUFFICES ASSUME ChunksInFtpr, NEW a \in Addr, buf[a] = FF
               PROVE  a \in Pass!FtprCells
    OBVIOUS
  <2>1. a < ME.end /\ Within(ME, a, fw.offset, fw.offset + Extent)
    BY <1>1, Constants DEF Framed
  <2>2. DOMAIN Image = Addr
    BY DEF Image
  <2> QED
    BY <2>1, <2>2 DEF Pass!FtprCells, Pass!Within, Within
<1>3. buf = Pass!Erased(Image, cells)
  <2>1. \A a \in Addr : buf[a] = IF a \in cells THEN FF ELSE a
    BY <1>1 DEF Framed
  <2>2. Pass!Erased(Image, cells) = [a \in Addr |-> IF a \in cells THEN FF ELSE a]
    BY DEF Pass!Erased, Image
  <2> HIDE DEF cells
  <2> QED
    BY <1>1, <2>1, <2>2
<1> QED
  BY <1>2, <1>3

LEMMA StepRefines ==
  ASSUME IInv, [Next]_vars
  PROVE  [ChunksInFtpr => Pass!PassNext]_(Pass!mvars)
<1> USE DEF IInv
<1>1. fw' = fw /\ Extent' = Extent
  <2>1. fw' = fw
    BY DEF Next, vars, inputs, ReadFails, Decline, KeepModules, RemoveModules,
           KeepPlain, ErasePlain, SkipOther, LlutMissing, HuffmanPanics,
           HuffmanModule, ModulesRead, SpareChunk, EraseChunk, FinishRemoval,
           StayInPlace, RelocateFails, StartMove, MoveBlock, FinishMove
  <2> QED
    BY <2>1, SameFtpr
<1>2. ASSUME result' = result
      PROVE  UNCHANGED Pass!mvars
  BY <1>1, <1>2 DEF Pass!mvars, Image
<1>3. ASSUME result = None, ChunksInFtpr,
             NEW st, NEW e, result' = [status |-> st, buf |-> buf, end |-> e],
             result' # None,
             \/ st = "failed" /\ e = None
             \/ st = "declined" /\ e = None /\ buf = Image
             \/ st = "done" /\ e \in {0} \cup fw.offset .. fw.offset + Extent
      PROVE  Pass!PassNext
  <2>1. /\ Outcome = Image /\ Outcome' = buf /\ Returned = None /\ Returned' = e
        /\ Status = "called" /\ Status' = st
    BY <1>3 DEF Outcome, Returned, Status
  <2>2. PICK cells \in SUBSET Pass!FtprCells : Outcome' = Pass!Erased(Outcome, cells)
    BY <1>3, <2>1, ErasedSoFar
  <2>3. CASE st = "failed"
    <3>1. Pass!Fail
      BY <1>1, <1>3, <2>1, <2>2, <2>3 DEF Pass!Fail, Outcome, Returned, Status
    <3> QED
      BY <3>1 DEF Pass!PassNext
  <2>4. CASE st = "declined"
    <3>1. Pass!Decline
      BY <1>1, <1>3, <2>1, <2>4 DEF Pass!Decline, Outcome, Returned, Status
    <3> QED
      BY <3>1 DEF Pass!PassNext
  <2>5. CASE st = "done"
    <3>1. Pass!Strip
      BY <1>1, <1>3, <2>1, <2>2, <2>5
         DEF Pass!Strip, Pass!Ends, Outcome, Returned, Status
    <3> QED
      BY <3>1 DEF Pass!PassNext
  <2> QED
    BY <1>3, <2>3, <2>4, <2>5
<1>4. /\ fw \in Firmware /\ fw.offset \in Nat /\ fw.length \in Nat
      /\ Extent \in Int /\ fw.length <= Extent
  BY Types, ExtentBounds DEF TypeOK
<1>5. CASE ReadFails \/ LlutMissing \/ HuffmanPanics
  <2>1. /\ result = None
        /\ result' = [status |-> "failed", buf |-> buf, end |-> None]
    BY <1>5 DEF ReadFails, LlutMissing, HuffmanPanics, At, Passed, Phase
  <2>2. result' # None
    BY <2>1, PassedIsResult
  <2> QED
    BY <1>3, <2>1, <2>2
<1>6. CASE Decline
  <2>1. /\ result = None /\ buf = Image
        /\ result' = [status |-> "declined", buf |-> buf, end |-> None]
    BY <1>6 DEF Decline, Passed, Phase
  <2>2. result' # None
    BY <2>1, PassedIsResult
  <2> QED
    BY <1>3, <2>1, <2>2
<1>7. CASE KeepModules
  <2>1. /\ result = None
        /\ result' = [status |-> "done", buf |-> buf, end |-> fw.offset + fw.length]
    BY <1>7 DEF KeepModules, Passed, Phase
  <2>2. fw.offset + fw.length \in fw.offset .. fw.offset + Extent
    BY <1>4
  <2>3. result' # None
    BY <1>4, <2>1, PassedIsResult
  <2> QED
    BY <1>3, <2>1, <2>2, <2>3
<1>8. CASE FinishRemoval
  <2> DEFINE e == Max({endAddr} \cup {u.end : u \in unremovable})
  <2>1. /\ pc = "chunks" /\ result = None
        /\ result' = [status |-> "done", buf |-> buf, end |-> e]
    BY <1>8 DEF FinishRemoval, Passed, Phase
  <2>2. e \in Int /\ (e = endAddr \/ \E u \in unremovable : e = u.end)
    BY <2>1, EndOfUnremovable
  <2>3. ChunksInFtpr => e \in {0} \cup fw.offset .. fw.offset + Extent
    <3>1. endAddr \in {0} \cup fw.offset .. fw.offset + Extent
      BY <2>1 DEF Covered, Working
    <3>2. ChunksInFtpr => \A u \in unremovable :
            u.end \in Nat /\ fw.offset <= u.end /\ u.end <= fw.offset + Extent
      BY <2>1, UnremovableEnds
    <3> HIDE DEF e
    <3> QED
      BY <1>4, <2>2, <3>1, <3>2
  <2> HIDE DEF e
  <2>4. result' # None
    BY <2>1, <2>2, PassedIsResult
  <2> QED
    BY <1>3, <2>1, <2>3, <2>4
<1>9. CASE \/ RemoveModules \/ KeepPlain \/ ErasePlain \/ SkipOther
           \/ HuffmanModule \/ ModulesRead \/ SpareChunk \/ EraseChunk
           \/ StayInPlace \/ RelocateFails \/ StartMove \/ MoveBlock \/ FinishMove
           \/ UNCHANGED vars
  BY <1>2, <1>9
     DEF RemoveModules, KeepPlain, ErasePlain, SkipOther, HuffmanModule,
         ModulesRead, SpareChunk, EraseChunk, StayInPlace, RelocateFails,
         StartMove, MoveBlock, FinishMove, vars
<1> QED
  BY <1>5, <1>6, <1>7, <1>8, <1>9 DEF Next

\* The pass implements the contract the partition stage relies on, of every
\* LLUT that does not point in front of FTPR.
THEOREM RefinesPass == Spec => ImplementsPass
<1>1. Init => Pass!PassInit
  BY DEF Init, Pass!PassInit
<1>2. IInv /\ [Next]_vars => [ChunksInFtpr => Pass!PassNext]_(Pass!mvars)
  BY StepRefines
<1> QED
  BY <1>1, <1>2, Invariant, PTL DEF Spec, ImplementsPass
=============================================================================
