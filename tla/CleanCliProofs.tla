--------------------------- MODULE CleanCliProofs ---------------------------
(***************************************************************************)
(* What the command leaves in the file system, for any number of paths and *)
(* of runs, any arguments and any failure or crash.                        *)
(*                                                                         *)
(* SuccessIsWhole speaks of the end of a run, ExtractsSavedFirst of its    *)
(* middle.  The invariant that gives both says what an output that has     *)
(* been passed holds (Saved), what the buffer in memory is (Buffer), and   *)
(* that a file changes when its output is reached and not before (Frame,   *)
(* Pristine).                                                              *)
(***************************************************************************)
EXTENDS CleanCli, TLAPS

Untouched == {"absent", "original", "other"}
Extracts == {"descriptor", "me"}

Type ==
  /\ args.file \in Paths /\ args.output \in Paths \cup {None}
  /\ args.descriptor \in Paths \cup {None} /\ args.me \in Paths \cup {None}
  /\ DOMAIN fs = Paths /\ before \in [Paths -> Untouched]
  /\ report.extracts \subseteq Extracts /\ report.extracts \subseteq Given
  /\ output \in Outputs \cup {"none"}
  /\ pc \in {"read", "clean", "open", "fill", "ok", "err", "crashed"}
  /\ pc \in {"open", "fill"} => output \in Outputs
  /\ pc = "fill" => Written(output)
  /\ pc = "ok" => output = "none"
  /\ runs \in Nat \ {0}

Frame == \A p \in Paths : (\A o \in Given : PathOf(o) # p) => fs[p] = before[p]

\* The run at hand reads the original.
ReadsOriginal ==
  before[args.file] = "original"
    /\ \A o \in Given : runs = 1 \/ PathOf(o) # args.file

Buffer ==
  ReadsOriginal =>
    /\ pc = "clean" => report.buf = "original"
    /\ pc \in {"open", "fill", "ok"} => report.buf = "image"

Passed(o) ==
  CASE o = "descriptor" -> output \in {"me", "image", "none"}
    [] o = "me" -> output \in {"image", "none"}
    [] OTHER -> output = "none"

Saved ==
  (ReadsOriginal /\ Separate /\ pc \in {"open", "fill", "ok"}) =>
    \A o \in report.extracts \cup {"image"} : Passed(o) => fs[PathOf(o)] = o

Pristine ==
  runs = 1 =>
    /\ pc \in {"read", "clean"} => fs = before /\ report.extracts = {}
    /\ (Separate /\ output \in Extracts) => fs[Out] = before[Out]

IInv ==
  /\ Type /\ Frame /\ Buffer /\ Saved /\ Pristine /\ ExtractsSavedFirst
-----------------------------------------------------------------------------
LEMMA Outs ==
  ASSUME Type
  PROVE  /\ Out \in Paths /\ PathOf("image") = Out /\ "image" \in Given
         /\ PathOf("descriptor") = args.descriptor /\ PathOf("me") = args.me
         /\ \A o \in Given : o \in Outputs /\ PathOf(o) \in Paths
<1>1. Out \in Paths
  BY DEF Type, Out, InPlace
<1>2. /\ PathOf("image") = Out /\ PathOf("descriptor") = args.descriptor
      /\ PathOf("me") = args.me
  BY DEF PathOf
<1>3. \A o \in Given : o \in Outputs /\ PathOf(o) \in Paths
  BY <1>1, <1>2 DEF Given, Outputs, Type
<1> QED
  BY <1>1, <1>2, <1>3, PathsAssumption DEF Given, Outputs

\* The arguments fix where everything goes.
LEMMA ArgsFix ==
  ASSUME args' = args
  PROVE  /\ Out' = Out /\ Given' = Given /\ Separate' = Separate
         /\ \A o : PathOf(o)' = PathOf(o)
<1>1. Out' = Out
  BY DEF Out, InPlace
<1>2. \A o : PathOf(o)' = PathOf(o)
  BY <1>1 DEF PathOf
<1>3. Given' = Given
  BY <1>2 DEF Given
<1> QED
  BY <1>1, <1>2, <1>3 DEF Separate

\* A step that changes neither a file nor the report nor the run.
LEMMA Quiet ==
  ASSUME IInv, UNCHANGED <<args, before, fs, report, output, runs>>,
         pc' \in {"err", "crashed"}
  PROVE  IInv'
<1>1. /\ Out' = Out /\ Given' = Given /\ Separate' = Separate
      /\ \A o : PathOf(o)' = PathOf(o)
  BY ArgsFix
<1>2. Type'
  BY <1>1 DEF IInv, Type
<1>3. Frame' /\ Buffer'
  BY <1>1 DEF IInv, Frame, Buffer
<1>4. Saved' /\ Pristine'
  BY <1>1 DEF IInv, Saved, Pristine
<1>5. ExtractsSavedFirst'
  BY <1>1 DEF IInv, ExtractsSavedFirst
<1> QED
  BY <1>2, <1>3, <1>4, <1>5 DEF IInv
LEMMA InputUntouched ==
  ASSUME IInv, ReadsOriginal, pc = "read"
  PROVE  fs[args.file] = "original"
<1>1. CASE runs = 1
  BY <1>1 DEF IInv, Pristine, ReadsOriginal
<1>2. CASE runs # 1
  BY <1>2 DEF IInv, Frame, ReadsOriginal, Type
<1> QED
  BY <1>1, <1>2

LEMMA WrittenGiven ==
  ASSUME Type, output \in Outputs, Written(output)
  PROVE  output \in Given /\ PathOf(output) \in Paths
BY Outs DEF Type, Written

\* Either half of a write changes the file of the output alone.
LEMMA OneFile ==
  ASSUME IInv, output \in Outputs, Written(output),
         UNCHANGED <<args, before, report, runs>>,
         NEW contents, fs' = [fs EXCEPT ![PathOf(output)] = contents]
  PROVE  /\ DOMAIN fs' = Paths /\ Frame'
         /\ fs'[PathOf(output)] = contents
         /\ \A p \in Paths : p # PathOf(output) => fs'[p] = fs[p]
         /\ Separate => \A o \in Given :
              o # output => fs'[PathOf(o)] = fs[PathOf(o)]
<1>1. output \in Given /\ PathOf(output) \in Paths
  BY WrittenGiven DEF IInv
<1>2. /\ DOMAIN fs' = Paths /\ fs'[PathOf(output)] = contents
      /\ \A p \in Paths : p # PathOf(output) => fs'[p] = fs[p]
  BY <1>1 DEF IInv, Type
<1>3. Frame'
  BY <1>1, <1>2, ArgsFix DEF IInv, Frame
<1>4. Separate => \A o \in Given :
        o # output => fs'[PathOf(o)] = fs[PathOf(o)]
  BY <1>1, <1>2, Outs DEF Separate, IInv
<1> QED
  BY <1>2, <1>3, <1>4

\* When the image is written, every part that was extracted has been passed.
LEMMA ImageLast ==
  ASSUME IInv, ReadsOriginal, Separate, pc \in {"open", "fill", "ok"},
         output \in {"image", "none"}
  PROVE  \A o \in report.extracts : fs[PathOf(o)] = o
<1>1. \A o \in report.extracts : Passed(o)
  BY DEF IInv, Type, Extracts, Passed
<1> QED
  BY <1>1 DEF IInv, Saved

\* The next output: what has been passed by then is saved.
LEMMA NextSaved ==
  ASSUME IInv, output \in Outputs, UNCHANGED <<args, before, report, runs>>,
         NextOutput, DOMAIN fs' = Paths, Frame', pc \in {"open", "fill"},
         ReadsOriginal /\ Separate =>
           \A o \in report.extracts \cup {"image"} :
             Passed(o) \/ o = output => fs'[PathOf(o)] = o,
         (Separate /\ runs = 1 /\ output = "descriptor") => fs'[Out] = fs[Out],
         ExtractsSavedFirst'
  PROVE  IInv'
<1>1. /\ Out' = Out /\ Given' = Given /\ Separate' = Separate
      /\ \A o : PathOf(o)' = PathOf(o)
  BY ArgsFix
<1>2. /\ output' = After(output) /\ output' \in {"me", "image", "none"}
      /\ pc' \in {"ok", "open"} /\ (pc' = "ok" <=> output' = "none")
  BY DEF NextOutput, After, Outputs
<1>3. Type'
  BY <1>1, <1>2 DEF IInv, Type, Outputs
<1>4. ReadsOriginal' = ReadsOriginal
  BY <1>1 DEF ReadsOriginal
<1>5. Buffer'
  BY <1>2, <1>4 DEF IInv, Buffer
<1>6. \A o \in report.extracts \cup {"image"} : Passed(o)' => Passed(o) \/ o = output
  BY DEF IInv, Type, Extracts, Passed, NextOutput, After, Outputs
<1>7. Saved'
  BY <1>1, <1>4, <1>6 DEF Saved
<1>8. Pristine'
  <2>1. output' \in Extracts => output = "descriptor"
    BY DEF NextOutput, After, Outputs, Extracts
  <2> QED
    BY <1>1, <1>2, <2>1 DEF IInv, Pristine, Extracts
<1> QED
  BY <1>3, <1>5, <1>7, <1>8 DEF IInv
-----------------------------------------------------------------------------
\* For any paths, any number of runs and any failures, the invariant above is
\* kept by each step of the command, by crashes and by new runs.
THEOREM Invariance == Spec => []IInv
<1>1. Init => IInv
  <2> SUFFICES ASSUME Init PROVE IInv
    OBVIOUS
  <2>1. Type
    BY DEF Init, Type, Outputs, Untouched, Extracts
  <2>2. Frame /\ Buffer /\ Saved
    BY DEF Init, Frame, Buffer, Saved
  <2>3. Pristine /\ ExtractsSavedFirst
    BY DEF Init, Pristine, ExtractsSavedFirst
  <2> QED
    BY <2>1, <2>2, <2>3 DEF IInv
<1>2. IInv /\ [Next]_vars => IInv'
  <2> SUFFICES ASSUME IInv, [Next]_vars PROVE IInv'
    OBVIOUS
  <2>0. Type /\ Frame /\ Buffer /\ Saved /\ Pristine /\ ExtractsSavedFirst
    BY DEF IInv
  <2>1. CASE Read
    <3>1. UNCHANGED <<args, before, fs, output, runs>> /\ pc = "read" /\ pc' = "clean"
          /\ report' = [buf |-> fs[args.file], extracts |-> {}]
      BY <2>1 DEF Read
    <3>2. /\ Out' = Out /\ Given' = Given /\ Separate' = Separate
          /\ \A o : PathOf(o)' = PathOf(o)
      BY <3>1, ArgsFix
    <3>3. Type' /\ Frame'
      BY <2>0, <3>1, <3>2 DEF Type, Frame
    <3>4. ReadsOriginal' => report'.buf = "original"
      BY <3>1, <3>2, InputUntouched DEF ReadsOriginal
    <3>5. Buffer' /\ Saved' /\ Pristine'
      BY <2>0, <3>1, <3>2, <3>4 DEF Buffer, Saved, Pristine
    <3>6. ExtractsSavedFirst'
      BY <3>1 DEF ExtractsSavedFirst
    <3> QED
      BY <3>3, <3>5, <3>6 DEF IInv
  <2>2. CASE ReadFails \/ CleanFails \/ WriteFails \/ Crash
    BY <2>2, Quiet DEF ReadFails, CleanFails, WriteFails, Crash
  <2>3. CASE Cleaned
    <3>1. /\ UNCHANGED <<args, before, fs, runs>> /\ pc = "clean" /\ pc' = "open"
          /\ output' = "descriptor"
          /\ report.buf = "original" => report'.buf = "image"
          /\ report'.extracts \subseteq {o \in Extracts : PathOf(o) # None}
      BY <2>3 DEF Cleaned, Extracts
    <3>2. /\ Out' = Out /\ Given' = Given /\ Separate' = Separate
          /\ \A o : PathOf(o)' = PathOf(o)
      BY <3>1, ArgsFix
    <3>3. report'.extracts \subseteq Given /\ report'.extracts \subseteq Extracts
      BY <3>1 DEF Given, Extracts, Outputs
    <3>4. Type' /\ Frame'
      BY <2>0, <3>1, <3>2, <3>3 DEF Type, Frame, Outputs
    <3>5. ReadsOriginal' = ReadsOriginal
      BY <3>1, <3>2 DEF ReadsOriginal
    <3>6. Buffer'
      BY <2>0, <3>1, <3>5 DEF Buffer
    <3>7. \A o \in report'.extracts \cup {"image"} : ~Passed(o)'
      BY <3>1, <3>3 DEF Passed, Extracts
    <3>8. Saved'
      BY <3>7 DEF Saved
    <3>9. runs = 1 => fs = before /\ fs[Out] \in Untouched
      BY <2>0, <3>1, Outs DEF Pristine, Type
    <3>10. Pristine' /\ ExtractsSavedFirst'
      BY <3>1, <3>2, <3>9 DEF Pristine, ExtractsSavedFirst, Untouched
    <3> QED
      BY <3>4, <3>6, <3>8, <3>10 DEF IInv
  <2>4. CASE SkipOutput
    <3>1. /\ UNCHANGED <<args, before, fs, report, runs>> /\ pc = "open"
          /\ NextOutput /\ ~Written(output) /\ output \in Outputs
      BY <2>0, <2>4 DEF SkipOutput, Type
    <3>2. Frame' /\ DOMAIN fs' = Paths /\ ExtractsSavedFirst'
      BY <2>0, <3>1, ArgsFix DEF Frame, Type, ExtractsSavedFirst
    <3>3. ReadsOriginal /\ Separate =>
            \A o \in report.extracts \cup {"image"} :
              Passed(o) \/ o = output => fs'[PathOf(o)] = o
      BY <2>0, <3>1 DEF Saved, Written
    <3> QED
      BY <3>1, <3>2, <3>3, NextSaved
  <2>5. CASE Open
    <3>1. /\ UNCHANGED <<args, before, report, output, runs>>
          /\ pc = "open" /\ pc' = "fill" /\ Written(output) /\ output \in Outputs
          /\ fs' = [fs EXCEPT ![PathOf(output)] = "torn"]
      BY <2>0, <2>5 DEF Open, Type
    <3>2. /\ Out' = Out /\ Given' = Given /\ Separate' = Separate
          /\ \A o : PathOf(o)' = PathOf(o)
      BY <3>1, ArgsFix
    <3>3. /\ DOMAIN fs' = Paths /\ Frame'
          /\ Separate => \A o \in Given :
               o # output => fs'[PathOf(o)] = fs[PathOf(o)]
      BY <3>1, OneFile
    <3>4. Type'
      BY <2>0, <3>1, <3>2, <3>3 DEF Type, Written
    <3>5. ReadsOriginal' = ReadsOriginal
      BY <3>1, <3>2 DEF ReadsOriginal
    <3>6. Buffer'
      BY <2>0, <3>1, <3>5 DEF Buffer
    <3>7. \A o \in report.extracts \cup {"image"} :
            o \in Given /\ (Passed(o) => o # output) /\ Passed(o)' = Passed(o)
      BY <2>0, <3>1, Outs DEF Type, Passed, Outputs, Extracts
    <3>8. Saved'
      BY <2>0, <3>1, <3>2, <3>3, <3>5, <3>7 DEF Saved
    <3>9. Separate /\ output \in Extracts => fs'[Out] = fs[Out]
      BY <2>0, <3>3, Outs DEF Extracts
    <3>10. Pristine'
      BY <2>0, <3>1, <3>2, <3>9 DEF Pristine
    <3>11. ExtractsSavedFirst'
      <4> SUFFICES ASSUME Separate, before[args.file] = "original", runs = 1,
                          NEW o \in report.extracts, fs'[Out] \in {"torn", "image"}
                   PROVE  fs'[PathOf(o)] = o
        BY <3>1, <3>2 DEF ExtractsSavedFirst
      <4>1. CASE output \in Extracts
        <5>1. fs'[Out] = before[Out] /\ before[Out] \in Untouched
          BY <2>0, <3>9, <4>1, Outs DEF Pristine, Type
        <5> QED
          BY <5>1 DEF Untouched
      <4>2. CASE output = "image"
        <5>1. ReadsOriginal
          BY DEF ReadsOriginal
        <5>2. fs[PathOf(o)] = o
          BY <3>1, <4>2, <5>1, ImageLast
        <5>3. o \in Given /\ o # output
          BY <2>0, <4>2 DEF Type, Extracts
        <5> QED
          BY <3>3, <5>2, <5>3
      <4> QED
        BY <3>1, <4>1, <4>2 DEF Outputs, Extracts
    <3> QED
      BY <3>3, <3>4, <3>6, <3>8, <3>10, <3>11 DEF IInv
  <2>6. CASE Fill
    <3> DEFINE filled == IF output # "image" /\ report.buf = "image" THEN output
                                                                ELSE report.buf
    <3>1. /\ UNCHANGED <<args, before, report, runs>>
          /\ pc = "fill" /\ NextOutput /\ Written(output) /\ output \in Outputs
          /\ fs' = [fs EXCEPT ![PathOf(output)] = filled]
      BY <2>0, <2>6 DEF Fill, Type
    <3>2. /\ Out' = Out /\ Given' = Given /\ Separate' = Separate
          /\ \A o : PathOf(o)' = PathOf(o)
      BY <3>1, ArgsFix
    <3>3. ReadsOriginal => filled = output
      BY <2>0, <3>1 DEF Buffer
    <3> HIDE DEF filled
    <3>4. /\ DOMAIN fs' = Paths /\ Frame' /\ fs'[PathOf(output)] = filled
          /\ Separate => \A o \in Given :
               o # output => fs'[PathOf(o)] = fs[PathOf(o)]
      BY <3>1, OneFile
    <3>5. \A o \in report.extracts \cup {"image"} : o \in Given
      BY <2>0, Outs DEF Type
    <3>6. ReadsOriginal /\ Separate =>
            \A o \in report.extracts \cup {"image"} :
              Passed(o) \/ o = output => fs'[PathOf(o)] = o
      BY <2>0, <3>1, <3>3, <3>4, <3>5 DEF Saved
    <3>7. Separate /\ output \in Extracts => fs'[Out] = fs[Out]
      BY <2>0, <3>4, Outs DEF Extracts
    <3>8. ExtractsSavedFirst'
      <4> SUFFICES ASSUME Separate, before[args.file] = "original", runs = 1,
                          NEW o \in report.extracts, fs'[Out] \in {"torn", "image"}
                   PROVE  fs'[PathOf(o)] = o
        BY <3>1, <3>2 DEF ExtractsSavedFirst
      <4>1. CASE output \in Extracts
        <5>1. fs'[Out] = before[Out] /\ before[Out] \in Untouched
          BY <2>0, <3>7, <4>1, Outs DEF Pristine, Type
        <5> QED
          BY <5>1 DEF Untouched
      <4>2. CASE output = "image"
        <5>1. ReadsOriginal
          BY DEF ReadsOriginal
        <5>2. fs[PathOf(o)] = o
          BY <3>1, <4>2, <5>1, ImageLast
        <5>3. o \in Given /\ o # output
          BY <2>0, <4>2 DEF Type, Extracts
        <5> QED
          BY <3>4, <5>2, <5>3
      <4> QED
        BY <3>1, <4>1, <4>2 DEF Outputs, Extracts
    <3> QED
      BY <3>1, <3>4, <3>6, <3>7, <3>8, NextSaved DEF Extracts
  <2>7. CASE Rerun
    <3>1. /\ UNCHANGED <<args, before, fs, report, output>>
          /\ runs' \in Nat \ {0, 1} /\ pc' = "read"
      BY <2>0, <2>7 DEF Rerun, Type
    <3>2. /\ Out' = Out /\ Given' = Given /\ \A o : PathOf(o)' = PathOf(o)
      BY <3>1, ArgsFix
    <3>3. Type' /\ Frame'
      BY <2>0, <3>1, <3>2 DEF Type, Frame
    <3>4. Buffer' /\ Saved' /\ Pristine' /\ ExtractsSavedFirst'
      BY <3>1 DEF Buffer, Saved, Pristine, ExtractsSavedFirst
    <3> QED
      BY <3>3, <3>4 DEF IInv
  <2>8. CASE UNCHANGED vars
    <3>1. /\ UNCHANGED <<args, before, fs, report, output, runs, pc>>
          /\ Out' = Out /\ Given' = Given /\ Separate' = Separate
          /\ \A o : PathOf(o)' = PathOf(o)
      BY <2>8, ArgsFix DEF vars
    <3>2. Type' /\ Frame' /\ Pristine' /\ ExtractsSavedFirst'
      BY <2>0, <3>1 DEF Type, Frame, Pristine, ExtractsSavedFirst, Written
    <3>3. ReadsOriginal' = ReadsOriginal
      BY <3>1 DEF ReadsOriginal
    <3>4. Buffer' /\ Saved'
      BY <2>0, <3>1, <3>3 DEF Buffer, Saved, Passed
    <3> QED
      BY <3>2, <3>4 DEF IInv
  <2> QED
    BY <2>1, <2>2, <2>3, <2>4, <2>5, <2>6, <2>7, <2>8 DEF Next
<1> QED
  BY <1>1, <1>2, PTL DEF Spec

\* With the result and the extracted parts in other files, no failure, crash
\* or further run of the command ever changes the image that is read.
THEOREM InputIsKept == Spec => []InputKept
<1>1. IInv => InputKept
  BY DEF IInv, Type, Frame, InputKept
<1> QED
  BY <1>1, Invariance, PTL

\* At no point of a first run is the image overwritten while a part that was
\* extracted from it is not saved.
THEOREM ExtractsFirst == Spec => []ExtractsSavedFirst
<1>1. IInv => ExtractsSavedFirst
  BY DEF IInv
<1> QED
  BY <1>1, Invariance, PTL

\* Every run that ends with success, the first or a later one, has left all
\* of its outputs whole and everything else alone.
THEOREM WholeOnSuccess == Spec => []SuccessIsWhole
<1>1. IInv => SuccessIsWhole
  <2> SUFFICES ASSUME IInv, pc = "ok", Separate, ReadsOriginal
               PROVE  /\ fs[Out] = "image"
                      /\ \A o \in report.extracts : fs[PathOf(o)] = o
                      /\ \A p \in Paths :
                           (\A o \in Given : PathOf(o) # p) => fs[p] = before[p]
    BY DEF SuccessIsWhole, ReadsOriginal
  <2>1. output = "none"
    BY DEF IInv, Type
  <2>2. fs[Out] = "image"
    BY <2>1, Outs DEF IInv, Saved, Passed
  <2>3. \A o \in report.extracts : fs[PathOf(o)] = o
    BY <2>1, ImageLast
  <2> QED
    BY <2>2, <2>3 DEF IInv, Frame
<1> QED
  BY <1>1, Invariance, PTL

\* The exit status tells what has happened: what success means is the theorem
\* above, and as long as clean has not succeeded no file changes.
THEOREM Told == Spec => OutcomeTold
<1>1. SuccessIsWhole' /\ [Next]_vars =>
        [ /\ pc' = "ok" => SuccessIsWhole'
          /\ (pc = "clean" /\ pc' = "err") \/ pc = "read" => fs' = fs]_vars
  <2> SUFFICES ASSUME SuccessIsWhole', Next,
                      (pc = "clean" /\ pc' = "err") \/ pc = "read"
               PROVE  fs' = fs
    OBVIOUS
  <2> QED
    BY DEF Next, Read, ReadFails, Cleaned, CleanFails, SkipOutput, Open, Fill,
           WriteFails, Crash, Rerun
<1> QED
  BY <1>1, WholeOnSuccess, PTL DEF Spec, OutcomeTold
=============================================================================
