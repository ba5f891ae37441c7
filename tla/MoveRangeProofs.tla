-------------------------- MODULE MoveRangeProofs ---------------------------
(***************************************************************************)
(* Region::move_range for every image, region, block size and arguments.   *)
(*                                                                         *)
(* MovedIffSafe speaks of finished calls only, so it is not inductive.     *)
(* The strengthening IInv says what the buffer is after i bytes.  If the   *)
(* move is safe, it is what a complete move of the first i bytes leaves.   *)
(* If it is not, the first block is written over a datum that has not been *)
(* read yet, that datum is then nowhere in the buffer, and since later     *)
(* blocks only copy what is in the buffer, it never comes back.            *)
(***************************************************************************)
EXTENDS MoveRange, TLAPS

Accepted == Check(ME, from, size) /\ Check(ME, to, size)

\* The offset in the source of the first datum an unsafe move writes over.
LostOffset == IF to - from > BLOCK THEN to - from ELSE BLOCK

Progress ==
  /\ pc \in {"check", "err"} => i = 0
  /\ i = 0 => buf = Image
  /\ pc \in {"loop", "done"} => Accepted
  /\ pc = "done" => i = size
  /\ size <= BLOCK => i = 0 \/ i = size

MovedSoFar == SafeMove(from, size, to) => Moved(ME, Image, buf, from, i, to)

LostForGood ==
  ~SafeMove(from, size, to) /\ i > 0 =>
    \A a \in Addr : buf[a] # ME.start + from + LostOffset

Framed ==
  \A a \in Addr :
    \/ buf[a] = a
    \/ Within(ME, a, from, from + size)
    \/ Within(ME, a, to, to + size)

IInv == TypeOK /\ Progress /\ MovedSoFar /\ LostForGood /\ Framed
-----------------------------------------------------------------------------
\* A turn of the loop moves at least one byte and never more than is left.
LEMMA ChunkBounds ==
  ASSUME NEW s \in Nat, NEW j \in 0 .. s, j < s
  PROVE  /\ Chunk(s, j) \in 1 .. s - j
         /\ Chunk(s, j) <= BLOCK
         /\ s <= BLOCK => Chunk(s, 0) = s
         /\ s > BLOCK => Chunk(s, 0) = BLOCK
  BY BlockAssumption DEF Chunk

\* An accepted range lies inside the image.
LEMMA AcceptedInImage ==
  ASSUME NEW off \in Nat, NEW len \in Nat, Check(ME, off, len),
         NEW a \in Int, Within(ME, a, off, off + len)
  PROVE  a \in Addr
  BY MEAssumption, FileLenAssumption DEF Check, Within, Addr

\* The call starts in the strengthened invariant.
LEMMA InitInv == Init => IInv
<1> SUFFICES ASSUME Init PROVE IInv
  OBVIOUS
<1> USE DEF Init
<1>1. TypeOK
  BY ArgsAssumption DEF TypeOK, Image, Addr
<1>2. Progress
  BY DEF Progress
<1>3. MovedSoFar
  BY ArgsAssumption, MEAssumption DEF MovedSoFar, Moved, Within, Image, Addr
<1>4. LostForGood
  BY DEF LostForGood
<1>5. Framed
  BY DEF Framed, Image
<1> QED
  BY <1>1, <1>2, <1>3, <1>4, <1>5 DEF IInv

\* One turn of the loop keeps the strengthened invariant.
LEMMA MoveBlockInv == IInv /\ MoveBlock => IInv'
<1> SUFFICES ASSUME IInv, MoveBlock PROVE IInv'
  OBVIOUS
<1> DEFINE n == Chunk(size, i)
<1>1. /\ from \in Nat /\ size \in Nat /\ to \in Nat /\ i \in Nat
      /\ i < size /\ Accepted
      /\ buf \in [Addr -> Addr \cup {FF}]
      /\ ME.start \in Nat /\ ME.end \in Nat /\ ME.end <= FileLen
      /\ FileLen \in Nat /\ BLOCK \in Nat
  BY ArgsAssumption, MEAssumption, FileLenAssumption, BlockAssumption
     DEF IInv, TypeOK, Progress, MoveBlock
<1>2. /\ n \in Nat /\ n > 0 /\ i + n <= size /\ n <= BLOCK
      /\ size <= BLOCK => i = 0 /\ n = size
      /\ size > BLOCK /\ i = 0 => n = BLOCK
  <2>1. i \in 0 .. size
    BY DEF IInv, TypeOK
  <2> QED
    BY <1>1, <2>1, ChunkBounds DEF IInv, Progress
<1>3. /\ from' = from /\ size' = size /\ to' = to /\ pc' = pc
      /\ i' = i + n
      /\ pc = "loop"
      /\ buf' = BlockMoved(ME, buf, from + i, to + i, n)
  BY DEF MoveBlock, args
<1> HIDE DEF n
<1>4. \A a \in Addr : Within(ME, a, to + i, to + i + n)
                        => a - to + from \in Addr
  BY SMTT(30), <1>1, <1>2 DEF Within, Addr, Accepted, Check
<1>5. /\ DOMAIN buf' = Addr
      /\ \A a \in Addr :
           buf'[a] = IF Within(ME, a, to + i, to + i + n)
                       THEN buf[a - to + from]
                     ELSE IF Within(ME, a, from + i, from + i + n) THEN FF
                     ELSE buf[a]
  <2>1. DOMAIN buf = Addr
    BY <1>1
  <2>2. \A a \in Addr : a - (to + i) + (from + i) = a - to + from
    BY <1>1 DEF Addr
  <2> QED
    BY <1>3, <2>1, <2>2 DEF BlockMoved
<1>6. TypeOK'
  <2>1. buf' \in [Addr -> Addr \cup {FF}]
    <3>1. \A a \in Addr : buf'[a] \in Addr \cup {FF}
      BY <1>1, <1>4, <1>5
    <3>2. buf' = [a \in Addr |-> buf'[a]]
      <4>1. DOMAIN buf = Addr
        BY <1>1
      <4> QED
        BY <1>3, <4>1 DEF BlockMoved
    <3> QED
      BY <3>1, <3>2
  <2>2. i' \in 0 .. size'
    BY <1>1, <1>2, <1>3
  <2> QED
    BY <2>1, <2>2, <1>3 DEF TypeOK, IInv
<1>7. Progress'
  BY <1>1, <1>2, <1>3 DEF Progress, IInv, Accepted
<1>8. MovedSoFar'
  <2> SUFFICES ASSUME SafeMove(from, size, to),
                      NEW a \in Addr
               PROVE  buf'[a] =
                        IF Within(ME, a, to, to + (i + n)) THEN a - to + from
                        ELSE IF Within(ME, a, from, from + (i + n)) THEN FF
                        ELSE a
    <3>1. \A a \in Addr : Within(ME, a, to, to + (i + n))
                            => a - to + from \in Addr
      BY SMTT(30), <1>1, <1>2 DEF Within, Addr, Accepted, Check
    <3> QED
      BY <1>3, <3>1 DEF MovedSoFar, Moved, Image
  <2>1. \A b \in Addr :
          buf[b] = IF Within(ME, b, to, to + i) THEN b - to + from
                   ELSE IF Within(ME, b, from, from + i) THEN FF
                   ELSE b
    <3>1. \A b \in Addr : Within(ME, b, to, to + i) => b - to + from \in Addr
      BY <1>1, <1>2 DEF Within, Addr, Accepted, Check
    <3> QED
      BY <3>1 DEF IInv, MovedSoFar, Moved, Image
  <2>2. CASE Within(ME, a, to + i, to + i + n)
    <3>1. buf[a - to + from] = a - to + from
      BY SMTT(30), <1>1, <1>2, <1>4, <2>1, <2>2 DEF Within, SafeMove, Addr
    <3> QED
      BY SMTT(30), <1>1, <1>2, <1>5, <2>2, <3>1 DEF Within, Addr
  <2>3. CASE /\ ~Within(ME, a, to + i, to + i + n)
             /\ Within(ME, a, from + i, from + i + n)
    <3>1. buf'[a] = FF
      BY <1>5, <2>3
    <3>2. ~Within(ME, a, to, to + (i + n))
      BY <1>1, <1>2, <2>3 DEF Within, SafeMove, Addr
    <3>3. Within(ME, a, from, from + (i + n))
      BY <1>1, <1>2, <2>3 DEF Within, Addr
    <3> QED
      BY <3>1, <3>2, <3>3
  <2>4. CASE /\ ~Within(ME, a, to + i, to + i + n)
             /\ ~Within(ME, a, from + i, from + i + n)
    <3>1. buf'[a] = buf[a]
      BY <1>5, <2>4
    <3>2. /\ Within(ME, a, to, to + (i + n)) <=> Within(ME, a, to, to + i)
          /\ Within(ME, a, from, from + (i + n))
               <=> Within(ME, a, from, from + i)
      BY SMTT(30), <1>1, <1>2, <2>4 DEF Within, Addr
    <3> QED
      BY <2>1, <3>1, <3>2
  <2> QED
    BY <2>2, <2>3, <2>4
<1>9. LostForGood'
  <2> DEFINE lost == ME.start + from + LostOffset
  <2> SUFFICES ASSUME ~SafeMove(from, size, to), NEW a \in Addr
               PROVE  buf'[a] # lost
    BY <1>3 DEF LostForGood, LostOffset
  <2>1. lost \in Int /\ lost # FF
    BY <1>1, ErasedAssumption DEF LostOffset
  <2>2. CASE i > 0
    <3>1. \A b \in Addr : buf[b] # lost
      BY <2>2 DEF IInv, LostForGood
    <3> HIDE DEF lost
    <3> QED
      BY <1>4, <1>5, <2>1, <3>1
  <2>3. CASE i = 0
    <3>1. \A b \in Addr : buf[b] = b
      BY <2>3 DEF IInv, Progress, Image
    <3>2. n = BLOCK /\ LostOffset \in Nat
      BY <1>1, <1>2, <2>3 DEF SafeMove, LostOffset
    <3>3. Within(ME, lost, to + i, to + i + n)
      <4>1. to <= from + LostOffset /\ from + LostOffset < to + BLOCK
        BY <1>1, BlockAssumption DEF SafeMove, LostOffset
      <4> QED
        BY <1>1, <2>3, <3>2, <4>1 DEF Within
    <3>4. CASE Within(ME, a, to + i, to + i + n)
      <4>1. buf'[a] = a - to + from
        BY <1>4, <1>5, <3>1, <3>4
      <4> QED
        BY <1>1, <2>3, <3>2, <3>4, <4>1 DEF Within, LostOffset, Addr
    <3>5. CASE ~Within(ME, a, to + i, to + i + n)
      <4>1. a # lost
        BY <3>3, <3>5
      <4> HIDE DEF lost
      <4> QED
        BY <1>5, <2>1, <3>1, <3>5, <4>1
    <3> QED
      BY <3>4, <3>5
  <2> QED
    BY <1>1, <2>2, <2>3
<1>10. Framed'
  <2> SUFFICES ASSUME NEW a \in Addr
               PROVE  \/ buf'[a] = a
                      \/ Within(ME, a, from, from + size)
                      \/ Within(ME, a, to, to + size)
    BY <1>3 DEF Framed
  <2>1. \/ Within(ME, a, to + i, to + i + n)
        \/ Within(ME, a, from + i, from + i + n)
        \/ buf'[a] = buf[a]
    BY <1>5
  <2>2. /\ Within(ME, a, to + i, to + i + n) => Within(ME, a, to, to + size)
        /\ Within(ME, a, from + i, from + i + n)
             => Within(ME, a, from, from + size)
    BY SMTT(30), <1>1, <1>2 DEF Within, Addr
  <2> QED
    BY <2>1, <2>2 DEF IInv, Framed
<1> QED
  BY <1>6, <1>7, <1>8, <1>9, <1>10 DEF IInv
-----------------------------------------------------------------------------
\* Every step keeps the strengthened invariant.
LEMMA NextInv == IInv /\ [Next]_vars => IInv'
<1> SUFFICES ASSUME IInv, [Next]_vars PROVE IInv'
  OBVIOUS
<1> USE DEF IInv, args
<1>1. CASE Accept
  BY <1>1 DEF Accept, Accepted, TypeOK, Progress, MovedSoFar, LostForGood,
              LostOffset, Framed
<1>2. CASE Reject
  BY <1>2 DEF Reject, Accepted, TypeOK, Progress, MovedSoFar, LostForGood,
              LostOffset, Framed
<1>3. CASE MoveBlock
  BY <1>3, MoveBlockInv
<1>4. CASE Finish
  <2>1. i = size
    BY <1>4, ArgsAssumption DEF Finish, TypeOK
  <2> QED
    BY <1>4, <2>1 DEF Finish, Accepted, TypeOK, Progress, MovedSoFar,
                      LostForGood, LostOffset, Framed
<1>5. CASE UNCHANGED vars
  BY <1>5 DEF vars, Accepted, TypeOK, Progress, MovedSoFar, LostForGood,
              LostOffset, Framed
<1> QED
  BY <1>1, <1>2, <1>3, <1>4, <1>5 DEF Next

\* move_range keeps its variables in their types: in particular it indexes
\* the image only where the image is.
THEOREM TypeCorrect == Spec => []TypeOK
<1>1. IInv => TypeOK
  BY DEF IInv
<1> QED
  BY <1>1, InitInv, NextInv, PTL DEF Spec

\* The strengthened invariant holds in every reachable state.
THEOREM Invariance == Spec => []IInv
  BY InitInv, NextInv, PTL DEF Spec

\* A finished call has moved the range if the move is safe, and only then.
THEOREM MovedExactlyIfSafe == Spec => []MovedIffSafe
<1>1. IInv => MovedIffSafe
  <2> SUFFICES ASSUME IInv, pc = "done"
               PROVE  Moved(ME, Image, buf, from, size, to)
                        <=> SafeMove(from, size, to)
    BY DEF MovedIffSafe
  <2>1. /\ i = size /\ Accepted
        /\ from \in Nat /\ size \in Nat /\ to \in Nat
        /\ ME.start \in Nat /\ ME.end \in Nat /\ ME.end <= FileLen
        /\ FileLen \in Nat /\ BLOCK \in Nat
    BY ArgsAssumption, MEAssumption, FileLenAssumption, BlockAssumption
       DEF IInv, Progress, TypeOK
  <2>2. SafeMove(from, size, to) => Moved(ME, Image, buf, from, size, to)
    BY <2>1 DEF IInv, MovedSoFar
  <2>3. ASSUME ~SafeMove(from, size, to)
        PROVE  ~Moved(ME, Image, buf, from, size, to)
    <3> DEFINE a == ME.start + to + LostOffset
    <3>1. a \in Addr /\ Within(ME, a, to, to + size)
      BY <2>1, <2>3 DEF SafeMove, LostOffset, Within, Addr, Accepted, Check
    <3>2. a - to + from \in Addr /\ a - to + from = ME.start + from + LostOffset
      BY <2>1, <2>3 DEF SafeMove, LostOffset, Addr, Accepted, Check
    <3>3. size > 0
      BY <2>1, <2>3 DEF SafeMove
    <3>4. buf[a] # a - to + from
      BY <2>1, <2>3, <3>1, <3>2, <3>3 DEF IInv, LostForGood
    <3> HIDE DEF a
    <3> QED
      BY <3>1, <3>2, <3>4 DEF Moved, Image
  <2> QED
    BY <2>2, <2>3
<1> QED
  BY <1>1, Invariance, PTL

\* Cells outside the two ranges, so all the other flash regions, are never
\* touched, and a call that is refused touches nothing.
THEOREM OthersUntouched == Spec => []OutsideUntouched
<1>1. IInv => OutsideUntouched
  <2> SUFFICES ASSUME IInv, NEW a \in Addr, buf[a] # a
               PROVE  /\ pc \in {"loop", "done"}
                      /\ ME.start <= a /\ a < ME.end
                      /\ \/ Within(ME, a, from, from + size)
                         \/ Within(ME, a, to, to + size)
    BY DEF OutsideUntouched
  <2>1. \/ Within(ME, a, from, from + size)
        \/ Within(ME, a, to, to + size)
    BY DEF IInv, Framed
  <2>2. i # 0
    BY DEF IInv, Progress, Image
  <2>3. pc \in {"loop", "done"} /\ Accepted
    BY <2>2 DEF IInv, Progress, TypeOK
  <2>4. ME.start <= a /\ a < ME.end
    BY <2>1, <2>3, MEAssumption, ArgsAssumption
       DEF IInv, TypeOK, Accepted, Check, Within, Addr
  <2> QED
    BY <2>1, <2>3, <2>4
<1> QED
  BY <1>1, Invariance, PTL
-----------------------------------------------------------------------------
\* The block loop implements the one-step memmove.
THEOREM RefinesMemmove == Spec => ImplementsMemmove
<1> USE DEF Abstract!avars, Abstract!ANext, Abstract!Move, Abstract!Refuse,
            Abstract!Fits
<1>1. Init => Abstract!AInit(Image, Args)
  BY DEF Init, Abstract!AInit
<1>2. IInv /\ IInv' /\ [Next]_vars => [Abstract!ANext]_(Abstract!avars)
  <2> SUFFICES ASSUME IInv, IInv', [Next]_vars
               PROVE  [Abstract!ANext]_(Abstract!avars)
    OBVIOUS
  <2>1. CASE Accept
    BY <2>1 DEF Accept, args
  <2>2. CASE Reject
    BY <2>2 DEF Reject, args, Abstract!Check, Check
  <2>3. CASE MoveBlock
    BY <2>3 DEF MoveBlock, args
  <2>4. CASE Finish
    <3>1. /\ pc = "loop" /\ pc' = "done" /\ buf' = buf
          /\ from' = from /\ size' = size /\ to' = to /\ i' = size
      BY <2>4 DEF Finish, args, IInv, Progress
    <3>2. Accepted /\ DOMAIN buf = Addr /\ DOMAIN Image = Addr
      BY <3>1 DEF IInv, Progress, TypeOK, Image
    <3>3. i = size
      BY <2>4, ArgsAssumption DEF Finish, IInv, TypeOK
    <3>4. SafeMove(from, size, to) => Moved(ME, Image, buf, from, size, to)
      BY <3>3 DEF IInv, MovedSoFar
    <3>5. \A a \in Addr :
             \/ buf[a] = Image[a]
             \/ Within(ME, a, from, from + size)
             \/ Within(ME, a, to, to + size)
      BY DEF IInv, Framed, Image
    <3>6. Abstract!Move
      BY <3>1, <3>2, <3>4, <3>5
         DEF Accepted, Check, SafeMove, Moved, Within, Abstract!Check,
             Abstract!SafeMove, Abstract!Moved, Abstract!Within
    <3> QED
      BY <3>6
  <2>5. CASE UNCHANGED vars
    BY <2>5 DEF vars
  <2> QED
    BY <2>1, <2>2, <2>3, <2>4, <2>5 DEF Next
<1> QED
  BY <1>1, <1>2, Invariance, PTL DEF Spec, ImplementsMemmove
=============================================================================
