---------------------------- MODULE CleanProofs -----------------------------
(***************************************************************************)
(* What `clean` promises, for every image, every combination of options    *)
(* and every end the stage may return.                                     *)
(*                                                                         *)
(* The pipeline is a line of steps with two early ends, so the invariant   *)
(* says for each property what is already true at which step: what has     *)
(* been edited so far (Edited), what the report holds (Reported) and how   *)
(* the straps stand (Straps).  The analysis never changes once it is made, *)
(* and depends on the image alone (Known).                                 *)
(***************************************************************************)
EXTENDS Clean, TLAPS

Flash ==
  [straps |-> flash.straps, flmstr |-> flash.flmstr, meReg |-> flash.meReg,
   me |-> flash.me, len |-> flash.len]
ReportShape ==
  [endAddr |-> report.endAddr, retained |-> report.retained,
   truncatedTo |-> report.truncatedTo, desc |-> report.desc,
   meImage |-> report.meImage, signature |-> report.signature]

Steps == {"analyze", "validate", "straps", "wipe", "version", "ignition", "strip",
          "truncate", "disable", "harden", "extract descriptor", "extract ME",
          "signature"}
Known ==
  /\ img \in Images /\ opts \in Options
  /\ pc \in Steps \ {"analyze"} => a = Analysis
  /\ pc = "analyze" => a = None
  /\ outcome = "ok" => a = Analysis
  /\ a = None \/ a = Analysis
  /\ pc \in Steps => outcome = None
  /\ pc \notin Steps =>
       pc = "stop" /\ outcome \in Results

\* What has been edited, and what of the analysis is known where.
Edited ==
  /\ flash = Flash
  /\ flash.me \in {"original", "stripped", FF}
  /\ flash.len \in Nat /\ flash.meReg \in {img.me, DisabledMe}
  /\ pc \in {"analyze", "validate", "straps"} => flash = Original
  /\ pc \in {"wipe", "version", "ignition", "strip"} =>
       flash.me = "original" \/ (flash.me = FF /\ Generation1)
  /\ pc = "truncate" => Strips
  /\ pc \in {"ignition", "strip", "truncate", "disable", "harden",
             "extract descriptor", "extract ME", "signature"} =>
       a.ftpr
  /\ flash.me = "stripped" => ~Generation1
  /\ flash.meReg = img.me \/ Generation1
  /\ flash.me = FF => Generation1 \/ a.version = 6

Reported ==
  /\ report = ReportShape
  /\ pc \in {"analyze", "validate", "straps", "wipe", "version", "ignition",
             "strip"} => report = NoReport
  /\ pc \in Steps => report.signature = None
  /\ report.endAddr \in Nat \cup {None}
  /\ report.desc # None => {report.desc.bios, report.desc.me} \subseteq Flreg

\* The disable straps of generation 1, set first, and that of the others.
Straps ==
  /\ ((pc \in {"wipe", "version", "ignition", "strip", "truncate", "disable",
               "harden", "extract descriptor", "extract ME", "signature"}
         \/ outcome = "ok")
       /\ Generation1 /\ FullImage) =>
       flash.straps = img.straps \cup Generation1Straps
  /\ ((pc \in {"version", "ignition", "strip", "truncate", "disable", "harden",
               "extract descriptor", "extract ME", "signature"}
         \/ outcome = "ok")
       /\ Generation1 /\ FullImage /\ ~IsEmpty(MeRegion)) =>
       flash.me = FF /\ flash.meReg = DisabledMe
  /\ (pc \in {"wipe", "version", "ignition", "strip", "truncate", "disable"}
       /\ ~Generation1) => flash.straps = img.straps
  /\ ((pc \in {"harden", "extract descriptor", "extract ME", "signature"}
         \/ outcome = "ok")
       /\ ~Generation1 /\ a.generation # None /\ FullImage) =>
       flash.straps = IF (opts.softDisable \/ opts.softDisableOnly) /\ a.ftpr
                        THEN img.straps \cup {DisableStrap(a.generation)}
                        ELSE img.straps

IInv ==
  /\ Known /\ Edited /\ Reported /\ Straps /\ SparedUntouched
  /\ StrippedMeansSigned
-----------------------------------------------------------------------------
\* What an input determines does not change with the rest.
LEMMA InputsFix ==
  ASSUME UNCHANGED inputs
  PROVE  /\ img' = img /\ opts' = opts
         /\ FullImage' = FullImage /\ MeRegion' = MeRegion
         /\ Analysis' = Analysis /\ Original' = Original
<1>1. img' = img /\ opts' = opts
  BY DEF inputs
<1>2. FullImage' = FullImage /\ HasFtpr' = HasFtpr /\ Original' = Original
  BY <1>1 DEF FullImage, HasFtpr, Original
<1>3. MeRegion' = MeRegion /\ BaseGeneration' = BaseGeneration
      /\ Resolved' = Resolved
  BY <1>1, <1>2 DEF MeRegion, BaseGeneration, Resolved
<1>4. ByVersion' = ByVersion /\ ByManifest' = ByManifest
  BY <1>1, <1>3 DEF ByVersion, ByManifest
<1> QED
  BY <1>1, <1>2, <1>3, <1>4 DEF Analysis

LEMMA Decoded ==
  ASSUME NEW reg \in Flreg
  PROVE  Decode(reg).start \in Nat /\ Decode(reg).end \in Nat
BY BlockAssumption, FieldAssumption DEF Flreg, Decode

LEMMA Encoded ==
  ASSUME NEW start \in Int, NEW end \in Int
  PROVE  Encode(start, end) \in Flreg
<1>1. start \div BLOCK \in Int /\ (end - 1) \div BLOCK \in Int
  BY BlockAssumption
<1>2. \A x \in Int : x % FieldValues \in 0 .. FieldValues - 1
  BY FieldAssumption
<1> QED
  BY <1>1, <1>2 DEF Encode, Flreg

LEMMA RoundedType ==
  ASSUME NEW e \in Nat
  PROVE  Rounded(e) \in Nat
<1>1. e \div BLOCK \in Nat
  BY BlockAssumption
<1> QED
  BY <1>1, BlockAssumption DEF Rounded, SPARED_BLOCKS

LEMMA GenerationType ==
  ASSUME img \in Images
  PROVE  /\ Analysis.generation \in 1 .. 7 \cup {None}
         /\ Analysis.me = MeRegion
         /\ MeRegion.start \in Nat /\ MeRegion.end \in Nat
<1>1. img \in Image
  BY ImagesAssumption
<1>2. BaseGeneration \in {1, None}
  BY DEF BaseGeneration
<1>3. ByManifest \in 1 .. 7 \cup {None}
  BY <1>2 DEF ByManifest
<1>4. ByVersion \in 1 .. 7 \cup {None}
  BY <1>3 DEF ByVersion
<1>5. Analysis.generation \in 1 .. 7 \cup {None}
  BY <1>2, <1>3, <1>4 DEF Analysis
<1>6. MeRegion.start \in Nat /\ MeRegion.end \in Nat
  BY <1>1, Decoded DEF Image, MeRegion
<1> QED
  BY <1>5, <1>6 DEF Analysis
\* The extracted descriptor has registers in it, whatever was masked off.
LEMMA DescType ==
  ASSUME img \in Images, a = Analysis, flash.meReg \in {img.me, DisabledMe},
         report.endAddr \in Nat \cup {None}
  PROVE  {Desc.bios, Desc.me} \subseteq Flreg
<1>1. img.me \in Flreg /\ img.bios \in Flreg
  BY ImagesAssumption DEF Image
<1>2. DisabledMe \in Flreg
  BY FieldAssumption DEF DisabledMe, Flreg
<1>3. Bios.end \in Int /\ a.me.start \in Int
  BY <1>1, Decoded, GenerationType DEF Bios
<1>4. ASSUME report.endAddr # None
      PROVE  /\ Encode(NewEnd, Bios.end) \in Flreg
             /\ Encode(a.me.start, NewEnd) \in Flreg
  BY <1>3, <1>4, Encoded DEF NewEnd
<1> QED
  BY <1>1, <1>2, <1>4 DEF Desc

\* What no step but a few disturbs.
LEMMA StillSpared ==
  ASSUME SparedUntouched, UNCHANGED inputs, a' = a, outcome' \notin Refusals,
         flash'.me = flash.me, flash'.meReg = flash.meReg, flash'.len = flash.len
  PROVE  SparedUntouched'
BY InputsFix DEF SparedUntouched, Refusals, Analyzed, Generation1

LEMMA NotSpared ==
  ASSUME outcome' \notin Refusals, UNCHANGED opts, a' = a,
         ~opts.softDisableOnly, a.generation \notin {4, 5, 6, 7}
  PROVE  SparedUntouched'
<1>1. a.generation \notin 4 .. 7
  OBVIOUS
<1> QED
  BY <1>1 DEF SparedUntouched

LEMMA SecondIsNotIfwi ==
  \A generation : generation = 2 => generation \notin {4, 5, 6, 7}
OBVIOUS

LEMMA NotYetDone ==
  ASSUME outcome' # "ok"
  PROVE  StrippedMeansSigned'
BY DEF StrippedMeansSigned, Done

\* Every image, every set of options and every end of the stage keep the
\* invariant above, through each of the fifteen steps of `clean`.
THEOREM Invariance == Spec => []IInv
<1>1. Init => IInv
  <2> SUFFICES ASSUME Init PROVE IInv
    OBVIOUS
  <2>1. Known
    BY NoneAssumption DEF Init, Known, Steps, Results
  <2>2. Edited
    BY NoneAssumption, ImagesAssumption, WipedAssumption
    DEF Init, Edited, Flash, Original, Image
  <2>3. Reported
    BY DEF Init, Reported, ReportShape, NoReport, Steps
  <2>4. Straps
    BY NoneAssumption DEF Init, Straps, Results
  <2>5. SparedUntouched /\ StrippedMeansSigned
    BY NoneAssumption
    DEF Init, SparedUntouched, StrippedMeansSigned, Analyzed, Done, Results
  <2> QED
    BY <2>1, <2>2, <2>3, <2>4, <2>5 DEF IInv
<1>2. IInv /\ [Next]_vars => IInv'
  <2> SUFFICES ASSUME IInv, [Next]_vars PROVE IInv'
    OBVIOUS
  <2> USE NoneAssumption, WipedAssumption DEF Steps, Results, Refusals, Failures
  <2>0. img \in Image /\ Known /\ Edited /\ Reported /\ Straps
        /\ SparedUntouched /\ StrippedMeansSigned
    BY ImagesAssumption DEF IInv, Known
  <2>1. CASE Analyze
    <3>0. UNCHANGED inputs /\ img' = img /\ opts' = opts
          /\ FullImage' = FullImage /\ MeRegion' = MeRegion
          /\ Analysis' = Analysis /\ Original' = Original
      BY <2>1, InputsFix DEF Analyze
    <3>1. /\ pc = "analyze" /\ outcome = None /\ a = None
          /\ flash' = flash /\ report' = report /\ flash = Original
          /\ report = NoReport
          /\ \/ pc' = "stop" /\ a' = a
                /\ outcome' \in {"UnknownImage", "panic: short dump"}
             \/ pc' = "validate" /\ a' = Analysis /\ outcome' = None
      BY <2>0, <2>1, GenerationType DEF Known, Analyze, Stop, Continue, Edited, Reported
    <3>2. Known'
      BY <2>0, <3>0, <3>1 DEF Known
    <3>3. Edited'
      BY <2>0, <3>0, <3>1
      DEF Known, Edited, Flash, Generation1, Strips, Original
    <3>4. Reported'
      BY <2>0, <3>0, <3>1 DEF Known, Reported, ReportShape
    <3>5. Straps'
      BY <2>0, <3>0, <3>1 DEF Known, Straps, Generation1, Flash
    <3>6. SparedUntouched'
      BY <3>0, <3>1 DEF SparedUntouched, Original
    <3>7. StrippedMeansSigned'
      BY <3>1, NotYetDone
    <3> QED
      BY <3>1, <3>2, <3>3, <3>4, <3>5, <3>6, <3>7 DEF IInv
  <2>2. CASE Validate
    <3>0. UNCHANGED inputs /\ img' = img /\ opts' = opts
          /\ FullImage' = FullImage /\ MeRegion' = MeRegion
          /\ Analysis' = Analysis /\ Original' = Original
      BY <2>2, InputsFix DEF Validate
    <3>1. /\ pc = "validate" /\ a = Analysis /\ a' = a
          /\ flash' = flash /\ report' = report /\ flash = Original
          /\ report = NoReport
          /\ \/ pc' = "stop"
                /\ outcome' \in {"MultipleFpt", "RequiresFullDump", "BadOptions"}
             \/ pc' = "straps" /\ outcome' = None
      BY <2>0, <2>2, GenerationType DEF Known, Validate, Refusal, Stop, Continue, Edited, Reported
    <3>2. Known'
      BY <2>0, <3>0, <3>1 DEF Known
    <3>3. Edited'
      BY <2>0, <3>0, <3>1
      DEF Known, Edited, Flash, Generation1, Strips, Original
    <3>4. Reported'
      BY <2>0, <3>0, <3>1 DEF Known, Reported, ReportShape
    <3>5. Straps'
      BY <2>0, <3>0, <3>1 DEF Known, Straps, Generation1, Flash
    <3>6. SparedUntouched'
      BY <2>0, <3>0, <3>1 DEF SparedUntouched, Original, Analyzed, Generation1
    <3>7. StrippedMeansSigned'
      BY <3>1, NotYetDone
    <3> QED
      BY <3>1, <3>2, <3>3, <3>4, <3>5, <3>6, <3>7 DEF IInv
  <2>3. CASE SetStraps
    <3>0. UNCHANGED inputs /\ img' = img /\ opts' = opts
          /\ FullImage' = FullImage /\ MeRegion' = MeRegion
          /\ Analysis' = Analysis /\ Original' = Original
      BY <2>3, InputsFix DEF SetStraps
    <3>1. /\ pc = "straps" /\ pc' = "wipe" /\ outcome' = None
          /\ a = Analysis /\ a' = a /\ report' = report
          /\ flash = Original
          /\ \/ /\ Generation1 /\ FullImage
                /\ flash' = [Original EXCEPT !.straps = @ \cup Generation1Straps]
             \/ ~(Generation1 /\ FullImage) /\ flash' = Original
      BY <2>0, <2>3, GenerationType DEF Known, SetStraps, Continue, Edited
    <3>2. Known'
      BY <2>0, <3>0, <3>1 DEF Known
    <3>3. Edited'
      BY <2>0, <3>0, <3>1 DEF Known, Edited, Flash, Generation1, Original
    <3>4. Reported'
      BY <2>0, <3>0, <3>1 DEF Known, Reported, ReportShape
    <3>5. Straps'
      <4>1. /\ Generation1 /\ FullImage =>
                 flash'.straps = img.straps \cup Generation1Straps
            /\ ~Generation1 => flash'.straps = img.straps
        <5>1. CASE Generation1 /\ FullImage
          <6>1. flash' = [Original EXCEPT !.straps = @ \cup Generation1Straps]
            BY <3>1, <5>1
          <6> QED
            BY <5>1, <6>1 DEF Original
        <5>2. CASE ~(Generation1 /\ FullImage)
          <6>1. flash' = Original
            BY <3>1, <5>2
          <6> QED
            BY <5>2, <6>1 DEF Original
        <5> QED
          BY <5>1, <5>2
      <4>2. pc' = "wipe" /\ outcome' # "ok"
        BY <3>1
      <4>3. Generation1' = Generation1
        BY <3>1 DEF Generation1
      <4> QED
        BY <3>0, <4>1, <4>2, <4>3 DEF Straps
    <3>6. SparedUntouched'
      BY <2>0, <3>0, <3>1, StillSpared DEF Original
    <3>7. StrippedMeansSigned'
      BY <3>1, NotYetDone
    <3> QED
      BY <3>1, <3>2, <3>3, <3>4, <3>5, <3>6, <3>7 DEF IInv
  <2>4. CASE WipeGeneration1
    <3>0. UNCHANGED inputs /\ img' = img /\ opts' = opts
          /\ FullImage' = FullImage /\ MeRegion' = MeRegion
          /\ Analysis' = Analysis /\ Original' = Original
      BY <2>4, InputsFix DEF WipeGeneration1
    <3>1. /\ pc = "wipe" /\ pc' = "version" /\ outcome' = None
          /\ a = Analysis /\ a.me = MeRegion /\ a' = a /\ report' = report
          /\ \/ /\ Generation1 /\ FullImage /\ ~IsEmpty(MeRegion)
                /\ flash' = [Flash EXCEPT !.meReg = DisabledMe, !.me = FF]
             \/ /\ ~(Generation1 /\ FullImage /\ ~IsEmpty(MeRegion))
                /\ flash' = flash
      BY <2>0, <2>4, GenerationType DEF Known, WipeGeneration1, Continue, Edited
    <3>2. Known'
      BY <2>0, <3>0, <3>1 DEF Known
    <3>3. Edited'
      BY <2>0, <3>0, <3>1
      DEF Known, Edited, Flash, Generation1, Strips, Original
    <3>4. Reported'
      BY <2>0, <3>0, <3>1 DEF Known, Reported, ReportShape
    <3>5. Straps'
      BY <2>0, <3>0, <3>1 DEF Known, Straps, Generation1, Flash
    <3>6. SparedUntouched'
      BY <2>0, <3>0, <3>1
      DEF SparedUntouched, Analyzed, Generation1, Flash
    <3>7. StrippedMeansSigned'
      BY <3>1, NotYetDone
    <3> QED
      BY <3>1, <3>2, <3>3, <3>4, <3>5, <3>6, <3>7 DEF IInv
  <2>5. CASE CheckVersion
    <3>0. UNCHANGED inputs /\ img' = img /\ opts' = opts
          /\ FullImage' = FullImage /\ MeRegion' = MeRegion
          /\ Analysis' = Analysis /\ Original' = Original
      BY <2>5, InputsFix DEF CheckVersion
    <3>1. /\ pc = "version" /\ a = Analysis /\ a' = a
          /\ flash' = flash /\ report' = report /\ report = NoReport
          /\ \/ pc' = "stop" /\ outcome' = "ok" /\ ~a.ftpr
             \/ pc' = "stop" /\ outcome' = "panic: version present"
             \/ pc' = "ignition" /\ outcome' = None /\ a.ftpr
      BY <2>0, <2>5, GenerationType DEF Known, CheckVersion, Stop, Continue, Reported
    <3>2. Known'
      BY <2>0, <3>0, <3>1 DEF Known
    <3>3. Edited'
      BY <2>0, <3>0, <3>1
      DEF Known, Edited, Flash, Generation1, Strips, Original
    <3>4. Reported'
      BY <2>0, <3>0, <3>1 DEF Known, Reported, ReportShape
    <3>5. Straps'
      BY <2>0, <3>0, <3>1 DEF Known, Straps, Generation1, Flash
    <3>6. SparedUntouched'
      BY <2>0, <3>0, <3>1, StillSpared DEF Known
    <3>7. StrippedMeansSigned'
      BY <2>0, <3>0, <3>1
      DEF StrippedMeansSigned, Done, Edited, NoReport, Generation1
    <3> QED
      BY <3>1, <3>2, <3>3, <3>4, <3>5, <3>6, <3>7 DEF IInv
  <2>6. CASE Ignition
    <3>0. UNCHANGED inputs /\ img' = img /\ opts' = opts
          /\ FullImage' = FullImage /\ MeRegion' = MeRegion
          /\ Analysis' = Analysis /\ Original' = Original
      BY <2>6, InputsFix DEF Ignition
    <3>1. /\ pc = "ignition" /\ a = Analysis /\ a' = a /\ report' = report
          /\ \/ pc' = "stop" /\ outcome' = "OutOfRegion" /\ flash' = flash
             \/ /\ pc' = "disable" /\ outcome' = None
                /\ a.generation = 2 /\ ~opts.softDisableOnly /\ a.version = 6
                /\ flash' = [Flash EXCEPT !.me = FF]
             \/ pc' = "strip" /\ outcome' = None /\ flash' = flash
      BY <2>0, <2>6, GenerationType DEF Known, Ignition, MayBeIgnition, Stop, Continue, Edited
    <3>2. Known'
      BY <2>0, <3>0, <3>1 DEF Known
    <3>3. Edited'
      BY <2>0, <3>0, <3>1
      DEF Known, Edited, Flash, Generation1, Strips, Original
    <3>4. Reported'
      BY <2>0, <3>0, <3>1 DEF Known, Reported, ReportShape
    <3>5. Straps'
      BY <2>0, <3>0, <3>1 DEF Known, Straps, Generation1, Flash
    <3>6. SparedUntouched'
      <4>0. outcome' \notin Refusals
        BY <3>1
      <4>1. CASE flash' = flash
        BY <2>0, <3>0, <3>1, <4>0, <4>1, StillSpared
      <4>2. CASE a.generation = 2 /\ ~opts.softDisableOnly
        <5>1. a.generation \notin {4, 5, 6, 7}
          BY <4>2, SecondIsNotIfwi
        <5> QED
          BY <3>0, <3>1, <4>0, <4>2, <5>1, NotSpared
      <4> QED
        BY <3>1, <4>1, <4>2
    <3>7. StrippedMeansSigned'
      BY <3>1, NotYetDone
    <3> QED
      BY <3>1, <3>2, <3>3, <3>4, <3>5, <3>6, <3>7 DEF IInv
  <2>7. CASE SkipStrip
    <3>0. UNCHANGED inputs /\ img' = img /\ opts' = opts
          /\ FullImage' = FullImage /\ MeRegion' = MeRegion
          /\ Analysis' = Analysis /\ Original' = Original
      BY <2>7, InputsFix DEF SkipStrip
    <3>1. /\ pc = "strip" /\ pc' = "disable" /\ outcome' = None
          /\ a = Analysis /\ a' = a /\ flash' = flash /\ report' = report
      BY <2>0, <2>7, GenerationType DEF Known, SkipStrip, Continue
    <3>2. Known'
      BY <2>0, <3>0, <3>1 DEF Known
    <3>3. Edited'
      BY <2>0, <3>0, <3>1
      DEF Known, Edited, Flash, Generation1, Strips, Original
    <3>4. Reported'
      BY <2>0, <3>0, <3>1 DEF Known, Reported, ReportShape
    <3>5. Straps'
      BY <2>0, <3>0, <3>1 DEF Known, Straps, Generation1, Flash
    <3>6. SparedUntouched'
      BY <2>0, <3>0, <3>1, StillSpared DEF Known
    <3>7. StrippedMeansSigned'
      BY <3>1, NotYetDone
    <3> QED
      BY <3>1, <3>2, <3>3, <3>4, <3>5, <3>6, <3>7 DEF IInv
  <2>8. CASE StripFails
    <3>0. UNCHANGED inputs /\ img' = img /\ opts' = opts
          /\ FullImage' = FullImage /\ MeRegion' = MeRegion
          /\ Analysis' = Analysis /\ Original' = Original
      BY <2>8, InputsFix DEF StripFails
    <3>1. /\ pc = "strip" /\ pc' = "stop"
          /\ outcome' \in {"stage failed", "panic: stage"}
          /\ a = Analysis /\ a' = a /\ report' = report /\ Strips
          /\ flash' = [Flash EXCEPT !.me = "stripped"]
      BY <2>0, <2>8, GenerationType DEF Known, StripFails, Stop, Edited
    <3>2. Known'
      BY <2>0, <3>0, <3>1 DEF Known
    <3>3. Edited'
      BY <2>0, <3>0, <3>1
      DEF Known, Edited, Flash, Generation1, Strips, Original
    <3>4. Reported'
      BY <2>0, <3>0, <3>1 DEF Known, Reported, ReportShape
    <3>5. Straps'
      BY <2>0, <3>0, <3>1 DEF Known, Straps, Generation1, Flash
    <3>6. SparedUntouched'
      BY <3>0, <3>1, NotSpared DEF Strips
    <3>7. StrippedMeansSigned'
      BY <3>1, NotYetDone
    <3> QED
      BY <3>1, <3>2, <3>3, <3>4, <3>5, <3>6, <3>7 DEF IInv
  <2>9. CASE Strip
    <3>0. UNCHANGED inputs /\ img' = img /\ opts' = opts
          /\ FullImage' = FullImage /\ MeRegion' = MeRegion
          /\ Analysis' = Analysis /\ Original' = Original
      BY <2>9, InputsFix DEF Strip
    <3>1. /\ pc = "strip" /\ pc' = "truncate" /\ outcome' = None
          /\ a = Analysis /\ a' = a /\ Strips
          /\ flash' = [Flash EXCEPT !.me = "stripped"]
          /\ \E e \in Ends \cup {None} :
               report' = [NoReport EXCEPT !.endAddr = e, !.retained = e]
      BY <2>0, <2>9, GenerationType DEF Known, Strip, Continue, Edited, Reported
    <3>2. Known'
      BY <2>0, <3>0, <3>1 DEF Known
    <3>3. Edited'
      BY <2>0, <3>0, <3>1
      DEF Known, Edited, Flash, Generation1, Strips, Original
    <3>4. Reported'
      BY <3>1, EndsAssumption DEF Reported, ReportShape, NoReport
    <3>5. Straps'
      <4>1. /\ flash'.straps = flash.straps /\ ~Generation1
            /\ pc \in {"strip", "truncate"} /\ a' = a /\ outcome' = None
            /\ pc' \in {"truncate", "disable"}
        BY <3>1 DEF Flash, Strips
      <4> QED
        BY <2>0, <3>0, <4>1 DEF Straps, Generation1
    <3>6. SparedUntouched'
      BY <3>0, <3>1, NotSpared DEF Strips
    <3>7. StrippedMeansSigned'
      BY <3>1, NotYetDone
    <3> QED
      BY <3>1, <3>2, <3>3, <3>4, <3>5, <3>6, <3>7 DEF IInv
  <2>10. CASE Truncate
    <3>0. UNCHANGED inputs /\ img' = img /\ opts' = opts
          /\ FullImage' = FullImage /\ MeRegion' = MeRegion
          /\ Analysis' = Analysis /\ Original' = Original
      BY <2>10, InputsFix DEF Truncate
    <3>1. /\ pc = "truncate" /\ pc' = "disable" /\ outcome' = None
          /\ a = Analysis /\ a' = a /\ Strips
      BY <2>0, <2>10 DEF Known, Truncate, Continue, Edited
    <3>2. \/ report' = report /\ flash' = flash
          \/ \E e, n \in Nat, t \in Nat \cup {None} :
               /\ report' = [ReportShape EXCEPT !.endAddr = e, !.truncatedTo = t]
               /\ flash' = [Flash EXCEPT !.len = n]
      <4>1. CASE report.endAddr # None /\ report.endAddr > 0
        <5> DEFINE e == Rounded(report.endAddr)
                   cut == a.me.start = 0 /\ opts.truncate
        <5>1. e \in Nat
          BY <2>0, <4>1, RoundedType DEF Reported
        <5>2. /\ report' = [ReportShape EXCEPT !.endAddr = e,
                              !.truncatedTo = IF cut THEN e ELSE None]
              /\ flash' = IF cut /\ e < flash.len
                            THEN [Flash EXCEPT !.len = e] ELSE flash
          BY <2>0, <2>10, <4>1 DEF Truncate, Reported, Edited
        <5>3. flash = [Flash EXCEPT !.len = flash.len] /\ flash.len \in Nat
          BY <2>0 DEF Edited, Flash
        <5> HIDE DEF e, cut
        <5> QED
          BY <5>1, <5>2, <5>3
      <4> QED
        BY <2>10, <4>1 DEF Truncate
    <3>3. Known'
      BY <2>0, <3>0, <3>1 DEF Known
    <3>4. Edited'
      BY <2>0, <3>0, <3>1, <3>2 DEF Known, Edited, Flash, Generation1
    <3>5. Reported'
      <4>1. CASE report' = report
        BY <2>0, <3>1, <4>1 DEF Known, Reported, ReportShape
      <4>2. CASE \E e, n \in Nat, t \in Nat \cup {None} :
                   report' = [ReportShape EXCEPT !.endAddr = e,
                                                 !.truncatedTo = t]
        BY ZenonT(30), <2>0, <3>1, <4>2 DEF Known, Reported, ReportShape
      <4> QED
        BY <3>2, <4>1, <4>2
    <3>6. Straps'
      <4>1. /\ flash'.straps = flash.straps /\ ~Generation1
            /\ pc \in {"strip", "truncate"} /\ a' = a /\ outcome' = None
            /\ pc' \in {"truncate", "disable"}
        BY <3>1, <3>2 DEF Flash, Strips
      <4> QED
        BY <2>0, <3>0, <4>1 DEF Straps, Generation1
    <3>7. SparedUntouched'
      BY <3>0, <3>1, NotSpared DEF Strips
    <3>8. StrippedMeansSigned'
      BY <3>1, NotYetDone
    <3> QED
      BY <3>1, <3>2, <3>3, <3>4, <3>5, <3>6, <3>7, <3>8 DEF IInv
  <2>11. CASE SoftDisable
    <3>0. UNCHANGED inputs /\ img' = img /\ opts' = opts
          /\ FullImage' = FullImage /\ MeRegion' = MeRegion
          /\ Analysis' = Analysis /\ Original' = Original
      BY <2>11, InputsFix DEF SoftDisable
    <3>1. /\ pc = "disable" /\ pc' = "harden" /\ outcome' = None
          /\ a = Analysis /\ a' = a /\ report' = report
          /\ flash' = [Flash EXCEPT !.straps =
               IF /\ ~Generation1 /\ a.generation # None /\ FullImage
                  /\ opts.softDisable \/ opts.softDisableOnly
                 THEN @ \cup {DisableStrap(a.generation)} ELSE @]
      BY <2>0, <2>11, GenerationType DEF Known, SoftDisable, Continue, Edited, Flash
    <3>2. Known'
      BY <2>0, <3>0, <3>1 DEF Known
    <3>3. Edited'
      BY <2>0, <3>0, <3>1
      DEF Known, Edited, Flash, Generation1, Strips, Original
    <3>4. Reported'
      BY <2>0, <3>0, <3>1 DEF Known, Reported, ReportShape
    <3>5. Straps'
      BY <2>0, <3>0, <3>1 DEF Straps, Edited, Flash, Generation1
    <3>6. SparedUntouched'
      BY <2>0, <3>0, <3>1, StillSpared DEF Flash
    <3>7. StrippedMeansSigned'
      BY <3>1, NotYetDone
    <3> QED
      BY <3>1, <3>2, <3>3, <3>4, <3>5, <3>6, <3>7 DEF IInv
  <2>12. CASE Harden
    <3>0. UNCHANGED inputs /\ img' = img /\ opts' = opts
          /\ FullImage' = FullImage /\ MeRegion' = MeRegion
          /\ Analysis' = Analysis /\ Original' = Original
      BY <2>12, InputsFix DEF Harden
    <3>1. /\ pc = "harden" /\ pc' = "extract descriptor" /\ outcome' = None
          /\ a = Analysis /\ a' = a /\ report' = report
          /\ \E bits : flash' = [Flash EXCEPT !.flmstr = bits]
      BY ZenonT(30), <2>0, <2>12, GenerationType
      DEF Known, Harden, Continue, Edited, Flash
    <3>2. Known'
      BY <2>0, <3>0, <3>1 DEF Known
    <3>3. Edited'
      BY <2>0, <3>0, <3>1
      DEF Known, Edited, Flash, Generation1, Strips, Original
    <3>4. Reported'
      BY <2>0, <3>0, <3>1 DEF Known, Reported, ReportShape
    <3>5. Straps'
      BY <2>0, <3>0, <3>1 DEF Straps, Flash, Generation1
    <3>6. SparedUntouched'
      BY <2>0, <3>0, <3>1, StillSpared DEF Flash
    <3>7. StrippedMeansSigned'
      BY <3>1, NotYetDone
    <3> QED
      BY <3>1, <3>2, <3>3, <3>4, <3>5, <3>6, <3>7 DEF IInv
  <2>13. CASE ExtractDescriptor
    <3>0. UNCHANGED inputs /\ img' = img /\ opts' = opts
          /\ FullImage' = FullImage /\ MeRegion' = MeRegion
          /\ Analysis' = Analysis /\ Original' = Original
      BY <2>13, InputsFix DEF ExtractDescriptor
    <3>1. /\ pc = "extract descriptor" /\ pc' = "extract ME" /\ outcome' = None
          /\ a = Analysis /\ a' = a /\ flash' = flash
          /\ report' \in {report, [ReportShape EXCEPT !.desc = Desc]}
      BY <2>0, <2>13, GenerationType DEF Known, ExtractDescriptor, Continue, Reported
    <3>2. Known'
      BY <2>0, <3>0, <3>1 DEF Known
    <3>3. Edited'
      BY <2>0, <3>0, <3>1
      DEF Known, Edited, Flash, Generation1, Strips, Original
    <3>4. Reported'
      BY ZenonT(30), <2>0, <3>0, <3>1, DescType
      DEF Known, Edited, Reported, ReportShape
    <3>5. Straps'
      BY <2>0, <3>0, <3>1 DEF Known, Straps, Generation1, Flash
    <3>6. SparedUntouched'
      BY <2>0, <3>0, <3>1, StillSpared DEF Known
    <3>7. StrippedMeansSigned'
      BY <3>1, NotYetDone
    <3> QED
      BY <3>1, <3>2, <3>3, <3>4, <3>5, <3>6, <3>7 DEF IInv
  <2>14. CASE ExtractMe
    <3>0. UNCHANGED inputs /\ img' = img /\ opts' = opts
          /\ FullImage' = FullImage /\ MeRegion' = MeRegion
          /\ Analysis' = Analysis /\ Original' = Original
      BY <2>14, InputsFix DEF ExtractMe
    <3>1. /\ pc = "extract ME" /\ a = Analysis /\ a' = a /\ flash' = flash
          /\ \E image : report' \in {report, [ReportShape EXCEPT !.meImage = image]}
          /\ \/ pc' = "stop" /\ outcome' = "OutOfRegion"
             \/ pc' = "signature" /\ outcome' = None
      BY <2>0, <2>14, GenerationType DEF Known, ExtractMe, Stop, Continue, Reported
    <3>2. Known'
      BY <2>0, <3>0, <3>1 DEF Known
    <3>3. Edited'
      BY <2>0, <3>0, <3>1
      DEF Known, Edited, Flash, Generation1, Strips, Original
    <3>4. Reported'
      BY <2>0, <3>0, <3>1 DEF Known, Reported, ReportShape
    <3>5. Straps'
      BY <2>0, <3>0, <3>1 DEF Known, Straps, Generation1, Flash
    <3>6. SparedUntouched'
      BY <2>0, <3>0, <3>1, StillSpared DEF Known
    <3>7. StrippedMeansSigned'
      BY <3>1, NotYetDone
    <3> QED
      BY <3>1, <3>2, <3>3, <3>4, <3>5, <3>6, <3>7 DEF IInv
  <2>15. CASE VerifySignature
    <3>0. UNCHANGED inputs /\ img' = img /\ opts' = opts
          /\ FullImage' = FullImage /\ MeRegion' = MeRegion
          /\ Analysis' = Analysis /\ Original' = Original
      BY <2>15, InputsFix DEF VerifySignature
    <3>1. /\ pc = "signature" /\ pc' = "stop" /\ a = Analysis /\ a' = a
          /\ flash' = flash /\ report.signature = None
          /\ \/ /\ Generation1 \/ flash.me = FF
                /\ outcome' = "ok" /\ report' = report
             \/ /\ report' = [ReportShape EXCEPT !.signature = TRUE]
                /\ outcome' = "ok"
             \/ /\ report' = [ReportShape EXCEPT !.signature = FALSE]
                /\ outcome' = "InvalidSignature"
             \/ report' = report /\ outcome' = "OutOfRegion"
      <4>1. /\ pc = "signature" /\ pc' = "stop" /\ a = Analysis /\ a' = a
            /\ flash' = flash /\ report.signature = None /\ report = ReportShape
        BY <2>0, <2>15, GenerationType DEF Known, VerifySignature, Verified, Stop, Reported
      <4>2. CASE Generation1 \/ flash.me = FF
        BY <2>15, <4>1, <4>2 DEF VerifySignature, Stop
      <4>3. CASE ~(Generation1 \/ flash.me = FF)
        <5>1. Verified
          BY <2>15, <4>3 DEF VerifySignature
        <5>2. CASE img.signature = "valid"
          BY <4>1, <5>1, <5>2 DEF Verified, Verdict, Stop
        <5>3. CASE img.signature = "invalid"
          BY <4>1, <5>1, <5>3 DEF Verified, Verdict, Stop
        <5>4. CASE img.signature = "outside"
          BY <4>1, <5>1, <5>4 DEF Verified, Verdict, Stop
        <5> QED
          BY <2>0, <5>2, <5>3, <5>4 DEF Image
      <4> QED
        BY <4>1, <4>2, <4>3
    <3>2. Known'
      BY <2>0, <3>0, <3>1 DEF Known
    <3>3. Edited'
      BY <2>0, <3>0, <3>1
      DEF Known, Edited, Flash, Generation1, Strips, Original
    <3>4. Reported'
      BY <2>0, <3>0, <3>1 DEF Known, Reported, ReportShape
    <3>5. Straps'
      BY <2>0, <3>0, <3>1 DEF Known, Straps, Generation1, Flash
    <3>6. SparedUntouched'
      BY <2>0, <3>0, <3>1, StillSpared DEF Known
    <3>7. StrippedMeansSigned'
      BY <2>0, <3>0, <3>1
      DEF StrippedMeansSigned, Done, Edited, ReportShape, Generation1
    <3> QED
      BY <3>1, <3>2, <3>3, <3>4, <3>5, <3>6, <3>7 DEF IInv
  <2>16. CASE UNCHANGED vars
    <3>1. UNCHANGED <<inputs, a, flash, report, outcome, pc>>
      BY <2>16 DEF vars
    <3>2. img' = img /\ opts' = opts /\ FullImage' = FullImage
          /\ MeRegion' = MeRegion /\ Analysis' = Analysis /\ Original' = Original
      BY <3>1, InputsFix
    <3>3. Known' /\ Reported'
      BY <2>0, <3>1, <3>2 DEF Known, Reported, ReportShape
    <3>4. Edited' /\ Straps'
      BY ZenonT(30), <2>0, <3>1, <3>2
      DEF Edited, Straps, Flash, Strips, Generation1
    <3>5. SparedUntouched' /\ StrippedMeansSigned'
      BY <2>0, <3>1, <3>2
      DEF SparedUntouched, StrippedMeansSigned, Analyzed, Done, Generation1
    <3> QED
      BY <3>3, <3>4, <3>5 DEF IInv
  <2> QED
    BY <2>1, <2>2, <2>3, <2>4, <2>5, <2>6, <2>7, <2>8,
       <2>9, <2>10, <2>11, <2>12, <2>13, <2>14, <2>15, <2>16 DEF Next
<1> QED
  BY <1>1, <1>2, PTL DEF Spec
-----------------------------------------------------------------------------
\* An image, its registers, the report and the outcome keep their shape: the
\* registers written to the extracted descriptor fit their fields, and every
\* call ends with one of the results listed, just when it stops.
THEOREM TypeCorrect == Spec => []TypeOK
<1>1. IInv => TypeOK
  <2> SUFFICES ASSUME IInv PROVE TypeOK
    OBVIOUS
  <2> USE NoneAssumption DEF Steps, Results, Refusals, Failures
  <2>1. Known /\ Edited /\ Reported
    BY DEF IInv
  <2>2. Analyzed => a.generation \in 1 .. 7 \cup {None}
    BY <2>1, GenerationType DEF Known, Analyzed
  <2>3. outcome \in Results \cup {None} /\ (pc = "stop" <=> outcome # None)
    BY <2>1 DEF Known
  <2> QED
    BY <2>1, <2>2, <2>3 DEF Known, Edited, Reported, TypeOK
<1> QED
  BY <1>1, Invariance, PTL

\* Refused images and options leave the caller's buffer as it was, and -s and
\* the IFWI generations leave the ME region as it was, for every image.
THEOREM Spared == Spec => []SparedUntouched
<1>1. IInv => SparedUntouched
  BY DEF IInv
<1> QED
  BY <1>1, Invariance, PTL

\* No image and no options make `clean` report success on a stripped region
\* whose FTPR has not been checked and found valid.
THEOREM Signed == Spec => []StrippedMeansSigned
<1>1. IInv => StrippedMeansSigned
  BY DEF IInv
<1> QED
  BY <1>1, Invariance, PTL

\* What is known where the pipeline can end early: with an FTPR it goes on
\* with a version only, and so with a generation; without one it ends before
\* anything but a generation 1 image has been edited.
AfterVersion ==
  {"ignition", "strip", "truncate", "disable", "harden", "extract descriptor",
   "extract ME", "signature"}
Early ==
  /\ (pc \in {"wipe", "version"} /\ ~Generation1) => flash = Original
  /\ (pc \in AfterVersion \/ (outcome = "ok" /\ a.ftpr)) => a.version # None
  /\ (outcome = "ok" /\ ~a.ftpr /\ ~Generation1) =>
       flash = Original /\ report = NoReport

LEMMA EarlyNext ==
  ASSUME IInv, Early, [Next]_vars
  PROVE  Early'
<1> USE NoneAssumption DEF Results, Refusals, Failures
<1>0. Known /\ Edited /\ Reported /\ None # "ok"
  BY DEF IInv
<1>1. CASE Analyze \/ Validate
  <2>1. pc' \in {"validate", "straps", "stop"} /\ outcome' # "ok"
    BY <1>0, <1>1 DEF Analyze, Validate, Refusal, Stop, Continue, Known, Steps
  <2> QED
    BY <2>1 DEF Early, AfterVersion
<1>2. CASE SetStraps \/ WipeGeneration1
  <2>1. /\ pc' \in {"wipe", "version"} /\ outcome' = None
        /\ a' = a /\ UNCHANGED inputs
        /\ ~Generation1 => flash = Original /\ flash' = flash
    BY <1>0, <1>2
    DEF SetStraps, WipeGeneration1, Continue, Known, Edited, Steps, Early
  <2>2. Generation1' = Generation1 /\ Original' = Original
    BY <2>1, InputsFix DEF Generation1
  <2> QED
    BY <1>0, <2>1, <2>2 DEF Early, AfterVersion
<1>3. CASE CheckVersion
  <2>1. /\ pc = "version" /\ a' = a /\ flash' = flash /\ report' = report
        /\ UNCHANGED inputs /\ report = NoReport
        /\ \/ pc' = "stop" /\ outcome' = "ok" /\ ~a.ftpr
           \/ pc' = "stop" /\ outcome' # "ok"
           \/ pc' = "ignition" /\ outcome' = None /\ a.version # None
    BY <1>0, <1>3 DEF CheckVersion, Stop, Continue, Known, Reported, Steps
  <2>2. /\ Generation1' = Generation1 /\ Original' = Original
        /\ NoReport' = NoReport
    BY <2>1, InputsFix DEF Generation1, NoReport
  <2> QED
    BY <1>0, <2>1, <2>2 DEF Early, AfterVersion
<1>4. ASSUME pc \in AfterVersion, pc' \in AfterVersion \cup {"stop"}, a' = a
      PROVE  Early'
  <2>1. a.ftpr /\ a.version # None
    BY <1>0, <1>4 DEF Edited, Early, AfterVersion
  <2> QED
    BY <1>4, <2>1 DEF Early, AfterVersion
<1>5. CASE Ignition \/ SkipStrip \/ StripFails \/ Strip
  BY <1>4, <1>5
  DEF Ignition, SkipStrip, StripFails, Strip, Stop, Continue, AfterVersion
<1>6. CASE Truncate \/ SoftDisable \/ Harden
  BY <1>4, <1>6 DEF Truncate, SoftDisable, Harden, Continue, AfterVersion
<1>7. CASE ExtractDescriptor \/ ExtractMe
  BY <1>4, <1>7 DEF ExtractDescriptor, ExtractMe, Stop, Continue, AfterVersion
<1>8. CASE VerifySignature
  BY <1>4, <1>8 DEF VerifySignature, Verified, Stop, AfterVersion
<1>9. CASE UNCHANGED vars
  <2>1. UNCHANGED <<inputs, a, flash, report, outcome, pc>>
    BY <1>9 DEF vars
  <2>2. /\ Generation1' = Generation1 /\ Original' = Original
        /\ NoReport' = NoReport
    BY <2>1, InputsFix DEF Generation1, NoReport
  <2> QED
    BY <2>1, <2>2 DEF Early
<1> QED
  BY <1>1, <1>2, <1>3, <1>5, <1>6, <1>7, <1>8, <1>9 DEF Next

LEMMA VersionTellsGeneration ==
  ASSUME img \in Images, Analysis.ftpr, Analysis.version # None
  PROVE  Analysis.generation \in 1 .. 7
<1>1. ~IsEmpty(MeRegion) /\ Resolved
  BY DEF Analysis
<1>2. BaseGeneration \in {1, None} /\ img.manifest # "bad"
  BY <1>1 DEF BaseGeneration, Resolved
<1>3. ByManifest \in 1 .. 7
  BY <1>2 DEF ByManifest
<1>4. ByVersion \in 1 .. 7
  BY <1>3 DEF ByVersion
<1>5. Analysis.generation = ByVersion
  BY <1>1 DEF Analysis
<1> QED
  BY <1>4, <1>5

\* Success on a full image leaves the straps as the generation and the options
\* ask for and no other bit of them changed, and a generation 1 region erased
\* and out of the descriptor.  Where an FTPR was found the generation is known;
\* where none was, success is reported of an image that is what it was.
THEOREM Disabled == Spec => []DisabledExactly
<1>1. Init => Early
  <2> SUFFICES ASSUME Init PROVE Early
    OBVIOUS
  <2>1. pc = "analyze" /\ outcome # "ok"
    BY NoneAssumption DEF Init, Results
  <2> QED
    BY <2>1 DEF Early, AfterVersion
<1>2. IInv /\ Early => DisabledExactly
  <2> SUFFICES ASSUME IInv, Early, Done, FullImage PROVE DisabledExactly
    BY DEF DisabledExactly
  <2>1. /\ outcome = "ok" /\ img \in Images /\ a = Analysis /\ Straps
        /\ pc \notin Steps
    BY NoneAssumption DEF IInv, Done, Known, Results
  <2>2. CASE Generation1
    <3>1. IsEmpty(Decode(DisabledMe))
      BY BlockAssumption DEF IsEmpty, Decode, DisabledMe
    <3>2. /\ flash.straps = img.straps \cup Generation1Straps
          /\ ~IsEmpty(MeRegion) => flash.me = FF /\ flash.meReg = DisabledMe
      BY <2>1, <2>2 DEF Straps
    <3> QED
      BY <2>2, <3>1, <3>2 DEF DisabledExactly
  <2>3. CASE ~Generation1 /\ a.ftpr
    <3>1. a.version # None
      BY <2>1, <2>3 DEF Early
    <3>2. a.generation \in 1 .. 7
      BY <2>1, <2>3, <3>1, VersionTellsGeneration
    <3>3. a.generation \in 2 .. 7 /\ a.generation # None
      BY <2>3, <3>2, NoneAssumption DEF Generation1
    <3>4. flash.straps = IF opts.softDisable \/ opts.softDisableOnly
                           THEN img.straps \cup {DisableStrap(a.generation)}
                           ELSE img.straps
      BY <2>1, <2>3, <3>3 DEF Straps
    <3> QED
      BY <2>3, <3>3, <3>4 DEF DisabledExactly
  <2>4. CASE ~Generation1 /\ ~a.ftpr
    <3>1. flash = Original /\ report = NoReport
      BY <2>1, <2>4 DEF Early
    <3> QED
      BY <2>4, <3>1 DEF DisabledExactly
  <2> QED
    BY <2>2, <2>3, <2>4
<1> QED
  BY <1>1, <1>2, EarlyNext, Invariance, PTL DEF Spec
-----------------------------------------------------------------------------
(***************************************************************************)
(* The lengths and the copies.  A second invariant on top of IInv: Lengths *)
(* follows the end that the stage returns through rounding and truncation, *)
(* and Copies says that what has been extracted is still what would be     *)
(* extracted now, since nothing it is made of is edited afterwards.        *)
(***************************************************************************)
Lengths ==
  /\ (/\ pc \in Steps \ {"analyze"} \/ report.endAddr # None
      /\ ~IsEmpty(MeRegion)) => MeRegion.end <= img.len
  /\ flash.len = img.len
       \/ (/\ a.me.start = 0 /\ report.endAddr # None
           /\ pc # "truncate" /\ flash.len = report.endAddr)
  /\ report.retained # None <=> report.endAddr # None
  /\ report.endAddr # None =>
       /\ report.retained \in Nat /\ report.retained <= report.endAddr
       /\ a = Analysis /\ a.ftpr /\ ~Generation1
       /\ pc = "truncate" \/ report.endAddr % BLOCK = 0

Copies ==
  /\ report.desc # None =>
       /\ report.desc = Desc /\ FullImage /\ a = Analysis
       /\ pc \in {"extract ME", "signature", "stop"}
  /\ report.meImage # None =>
       /\ report.meImage = [me |-> flash.me, len |-> ExtractSize]
       /\ a = Analysis /\ ~Generation1 /\ pc \in {"signature", "stop"}

XInv == Lengths /\ Copies
-----------------------------------------------------------------------------
\* Blocks, as the registers count them.
LEMMA Blocks ==
  ASSUME NEW m \in Int
  PROVE  /\ m * BLOCK \in Int
         /\ (m * BLOCK) \div BLOCK = m /\ (m * BLOCK) % BLOCK = 0
         /\ (m * BLOCK - 1) \div BLOCK = m - 1
<1>1. PICK b \in Nat \ {0} : b = BLOCK
  BY BlockAssumption
<1>2. \A x \in Int : x = (x \div b) * b + (x % b) /\ x % b \in 0 .. b - 1
                     /\ x \div b \in Int
  BY <1>1
<1>3. \A p, q \in Int : p < q => p * b + b <= q * b
  <2> SUFFICES ASSUME NEW p \in Int, NEW q \in Int, p < q
               PROVE  p * b + b <= q * b
    OBVIOUS
  <2>1. q - p - 1 \in Nat
    OBVIOUS
  <2>2. (q - p - 1) * b >= 0
    BY <2>1
  <2>3. (q - p - 1) * b = q * b - p * b - b
    OBVIOUS
  <2> QED
    BY <2>2, <2>3
<1>4. \A x, q \in Int : q * b <= x /\ x < q * b + b => x \div b = q
  <2> SUFFICES ASSUME NEW x \in Int, NEW q \in Int, q * b <= x, x < q * b + b
               PROVE  x \div b = q
    OBVIOUS
  <2>1. PICK d \in Int, r \in 0 .. b - 1 : x \div b = d /\ x = d * b + r
    BY <1>2
  <2>2. d * b \in Int /\ q * b \in Int
    OBVIOUS
  <2>3. ~(d < q)
    BY <1>3, <2>1, <2>2
  <2>4. ~(q < d)
    BY <1>3, <2>1, <2>2
  <2> QED
    BY <2>1, <2>3, <2>4
<1>5. m * b \in Int
  OBVIOUS
<1>6. (m * b) \div b = m
  BY <1>4, <1>5
<1>7. (m * b) % b = 0
  <2>1. m * b = ((m * b) \div b) * b + ((m * b) % b)
    BY <1>2, <1>5
  <2> QED
    BY <1>2, <1>5, <1>6, <2>1
<1>8. (m * b - 1) \div b = m - 1
  <2>1. (m - 1) * b = m * b - b
    OBVIOUS
  <2> QED
    BY <1>4, <1>5, <2>1
<1> QED
  BY <1>1, <1>5, <1>6, <1>7, <1>8

\* Rounding up leaves nothing off, and gives whole blocks.
LEMMA RoundedUp ==
  ASSUME NEW e \in Nat
  PROVE  Rounded(e) \in Nat /\ e <= Rounded(e) /\ Rounded(e) % BLOCK = 0
<1>1. PICK b \in Nat \ {0} : b = BLOCK
  BY BlockAssumption
<1>2. PICK d \in Nat, r \in 0 .. b - 1 : e \div b = d /\ e = d * b + r
  BY <1>1
<1>3. Rounded(e) = (d + 1) * b + 4 * b
  BY <1>1, <1>2 DEF Rounded, SPARED_BLOCKS
<1>4. (d + 1) * b + 4 * b = (d + 5) * b /\ (d + 1) * b = d * b + b
      /\ d * b \in Nat
  OBVIOUS
<1>5. Rounded(e) % BLOCK = 0
  <2>1. d + 5 \in Int
    OBVIOUS
  <2>2. ((d + 5) * BLOCK) % BLOCK = 0
    BY <2>1, Blocks
  <2> QED
    BY <1>1, <1>3, <1>4, <2>2
<1> QED
  BY <1>2, <1>3, <1>4, <1>5

\* What is written to a register is what is read from it, of ends that fit.
LEMMA EncodeDecode ==
  ASSUME NEW s \in 0 .. FieldValues - 1, NEW n \in 1 .. FieldValues
  PROVE  Decode(Encode(s * BLOCK, n * BLOCK))
           = [start |-> s * BLOCK, end |-> n * BLOCK]
<1>1. (s * BLOCK) \div BLOCK = s /\ (n * BLOCK - 1) \div BLOCK = n - 1
  BY Blocks, FieldAssumption
<1>2. s % FieldValues = s /\ (n - 1) % FieldValues = n - 1
  BY FieldAssumption
<1>3. Encode(s * BLOCK, n * BLOCK) = [base |-> s, limit |-> n - 1]
  BY <1>1, <1>2 DEF Encode
<1>4. (n - 1) + 1 = n
  BY FieldAssumption
<1> QED
  BY <1>3, <1>4 DEF Decode
-----------------------------------------------------------------------------
LEMMA XInit == Init => XInv
<1> SUFFICES ASSUME Init PROVE XInv
  OBVIOUS
<1>1. /\ pc = "analyze" /\ report = NoReport /\ flash.len = img.len
  BY DEF Init, Original
<1>2. /\ report.retained = None /\ report.endAddr = None /\ report.desc = None
      /\ report.meImage = None
  BY <1>1 DEF NoReport
<1> QED
  BY <1>1, <1>2 DEF XInv, Lengths, Copies

\* Steps that leave the file as long as it is and the end where it is, and
\* steps that leave everything the copies are made of alone.
LEMMA LengthsSame ==
  ASSUME Lengths, UNCHANGED inputs, a' = a, flash'.len = flash.len,
         report'.endAddr = report.endAddr, report'.retained = report.retained,
         pc \in Steps \ {"analyze", "truncate"}, pc' # "truncate"
  PROVE  Lengths'
BY InputsFix DEF Lengths, MeLen, Generation1

LEMMA DescSame ==
  ASSUME UNCHANGED inputs, a' = a, flash' = flash,
         report'.endAddr = report.endAddr
  PROVE  Desc' = Desc /\ ExtractSize' = ExtractSize /\ Generation1' = Generation1
<1>1. img' = img /\ opts' = opts
  BY InputsFix
<1>2. Bios' = Bios /\ NewEnd' = NewEnd /\ Generation1' = Generation1
      /\ MeLen' = MeLen
  BY <1>1 DEF Bios, NewEnd, Generation1, MeLen
<1> QED
  BY <1>1, <1>2 DEF Desc, ExtractSize

LEMMA NoCopies ==
  ASSUME report'.desc = None, report'.meImage = None
  PROVE  Copies'
BY DEF Copies

\* The steps before the extraction have no copies, and those that are not the
\* strip or the truncation leave the lengths.
LEMMA EarlyX ==
  ASSUME XInv, UNCHANGED inputs, a' = a, flash'.len = flash.len,
         report' = report, pc' # "truncate",
         pc \in Steps \ {"analyze", "truncate", "extract ME", "signature"}
  PROVE  XInv'
<1>1. Lengths'
  BY LengthsSame DEF XInv
<1>2. report.desc = None /\ report.meImage = None
  BY DEF XInv, Copies, Steps
<1>3. Copies'
  BY <1>2, NoCopies
<1> QED
  BY <1>1, <1>3 DEF XInv

LEMMA AnalyzeX ==
  ASSUME IInv, XInv, Analyze
  PROVE  XInv'
<1>0. UNCHANGED inputs /\ img' = img /\ MeRegion' = MeRegion
  BY InputsFix DEF Analyze
<1>1. /\ a = None /\ report' = report /\ flash' = flash /\ pc' # "truncate"
      /\ report = NoReport /\ flash.len = img.len
  <2>1. pc = "analyze" /\ report' = report /\ flash' = flash
    BY DEF Analyze
  <2>2. pc' # "truncate"
    BY DEF Analyze, Stop, Continue
  <2>3. a = None /\ report = NoReport /\ flash = Original
    BY <2>1 DEF IInv, Known, Reported, Edited
  <2> QED
    BY <2>1, <2>2, <2>3 DEF Original
<1>2. pc' \in Steps /\ ~IsEmpty(MeRegion) => MeRegion.end <= img.len
  <2> SUFFICES ASSUME ~IsEmpty(MeRegion), ~(MeRegion.end <= img.len)
               PROVE  pc' \notin Steps
    OBVIOUS
  <2>1. MeRegion.end > img.len
    <3>1. img \in Images
      BY DEF IInv, Known
    <3>2. MeRegion.end \in Nat /\ img.len \in Nat
      BY <3>1, GenerationType, ImagesAssumption DEF Image
    <3> QED
      BY <3>2
  <2> QED
    BY <2>1 DEF Analyze, Stop, Steps
<1>3. report.retained = None /\ report.endAddr = None /\ report.desc = None
      /\ report.meImage = None
  BY <1>1 DEF NoReport
<1>4. Lengths'
  BY <1>0, <1>1, <1>2, <1>3 DEF Lengths
<1> QED
  BY <1>1, <1>3, <1>4, NoCopies DEF XInv

LEMMA StripX ==
  ASSUME IInv, XInv, Strip
  PROVE  XInv'
<1>0. UNCHANGED inputs /\ img' = img /\ MeRegion' = MeRegion
      /\ Analysis' = Analysis
  BY InputsFix DEF Strip
<1>1. /\ pc = "strip" /\ pc' = "truncate" /\ a' = a /\ a = Analysis /\ a.ftpr
      /\ ~Generation1 /\ flash'.len = flash.len /\ report = NoReport
  <2>1. /\ pc = "strip" /\ pc' = "truncate" /\ a' = a /\ ~Generation1
        /\ flash' = [flash EXCEPT !.me = "stripped"]
    BY DEF Strip, Strips, Continue
  <2>2. a = Analysis /\ a.ftpr /\ report = NoReport /\ flash = Flash
    BY <2>1 DEF IInv, Known, Edited, Reported, Steps
  <2>3. flash'.len = flash.len
    BY <2>1, <2>2 DEF Flash
  <2> QED
    BY <2>1, <2>2, <2>3
<1>2. PICK e \in Ends \cup {None} :
        report' = [report EXCEPT !.endAddr = e, !.retained = e]
  BY DEF Strip
<1>3. /\ report'.endAddr = e /\ report'.retained = e /\ report'.desc = None
      /\ report'.meImage = None /\ report.endAddr = None
  BY <1>1, <1>2 DEF NoReport
<1>4. flash.len = img.len /\ (~IsEmpty(MeRegion) => MeRegion.end <= img.len)
  BY <1>1, <1>3 DEF XInv, Lengths, Steps
<1>5. e # None => e \in Nat
  BY EndsAssumption
<1>6. Lengths'
  <2>1. MeLen' = MeLen /\ Generation1' = Generation1
    BY <1>1 DEF MeLen, Generation1
  <2>2. e # None => e <= e
    BY <1>5
  <2> QED
    BY <1>0, <1>1, <1>2, <1>3, <1>4, <1>5, <2>1, <2>2 DEF Lengths
<1> QED
  BY <1>3, <1>6, NoCopies DEF XInv

LEMMA TruncateX ==
  ASSUME IInv, XInv, Truncate
  PROVE  XInv'
<1>0. UNCHANGED inputs /\ img' = img /\ MeRegion' = MeRegion
      /\ Analysis' = Analysis
  BY InputsFix DEF Truncate
<1>1. /\ pc = "truncate" /\ pc' = "disable" /\ a' = a /\ flash = Flash
      /\ report = ReportShape /\ Lengths /\ flash.len = img.len
      /\ report.desc = None /\ report.meImage = None
  BY DEF Truncate, Continue, IInv, Edited, Reported, XInv, Lengths, Copies
<1>2. MeLen' = MeLen /\ Generation1' = Generation1
  BY <1>1 DEF MeLen, Generation1
<1>3. CASE report.endAddr # None /\ report.endAddr > 0
  <2>1. PICK e : e = Rounded(report.endAddr)
    OBVIOUS
  <2>2. report.endAddr \in Nat
    BY <1>3 DEF IInv, Reported
  <2>3. e \in Nat /\ report.endAddr <= e /\ e % BLOCK = 0
    BY <2>1, <2>2, RoundedUp
  <2>4. e # None
    BY <2>3, NoneAssumption
  <2>5. PICK cut \in BOOLEAN : cut = (a.me.start = 0 /\ opts.truncate)
    OBVIOUS
  <2>6. /\ report' = [ReportShape EXCEPT !.endAddr = e,
                        !.truncatedTo = IF cut THEN e ELSE None]
        /\ flash' = IF cut /\ e < flash.len THEN [Flash EXCEPT !.len = e]
                    ELSE flash
    BY <1>1, <1>3, <2>1, <2>5 DEF Truncate
  <2>7. /\ report'.endAddr = e /\ report'.retained = report.retained
        /\ report'.desc = None /\ report'.meImage = None
    BY <1>1, <2>6 DEF ReportShape
  <2>8. flash'.len = img.len \/ (a.me.start = 0 /\ flash'.len = e)
    BY <1>1, <2>5, <2>6 DEF Flash
  <2>9. report.retained \in Nat /\ report.retained <= e
    BY <1>1, <1>3, <2>2, <2>3 DEF Lengths
  <2>10. Lengths'
    BY <1>0, <1>1, <1>2, <1>3, <2>3, <2>4, <2>7, <2>8, <2>9 DEF Lengths
  <2> QED
    BY <2>7, <2>10, NoCopies DEF XInv
<1>4. CASE ~(report.endAddr # None /\ report.endAddr > 0)
  <2>1. report' = report /\ flash' = flash
    BY <1>4 DEF Truncate
  <2>2. report.endAddr # None => report.endAddr % BLOCK = 0
    <3> SUFFICES ASSUME report.endAddr # None PROVE report.endAddr % BLOCK = 0
      OBVIOUS
    <3>1. report.endAddr = 0
      BY <1>4 DEF IInv, Reported
    <3> QED
      BY <3>1, BlockAssumption
  <2>3. Lengths'
    BY <1>0, <1>1, <1>2, <2>1, <2>2 DEF Lengths, Steps
  <2> QED
    BY <1>1, <2>1, <2>3, NoCopies DEF XInv
<1> QED
  BY <1>3, <1>4

\* Nothing is edited from the extraction on.
LEMMA ExtractX ==
  ASSUME IInv, XInv, ExtractDescriptor \/ ExtractMe \/ VerifySignature
  PROVE  XInv'
<1>1. /\ UNCHANGED inputs /\ a' = a /\ flash' = flash /\ pc' # "truncate"
      /\ pc \in Steps \ {"analyze", "truncate"}
      /\ report = ReportShape /\ a = Analysis
  BY DEF ExtractDescriptor, ExtractMe, VerifySignature, Verified, Stop, Continue,
         IInv, Reported, Known, Steps
<1>2. FullImage' = FullImage /\ Analysis' = Analysis
  BY <1>1, InputsFix
<1>3. CASE ExtractDescriptor
  <2>1. /\ pc' = "extract ME" /\ report.meImage = None /\ report.desc = None
    BY <1>3 DEF ExtractDescriptor, Continue, XInv, Copies
  <2>2. \/ report' = [ReportShape EXCEPT !.desc = Desc] /\ FullImage
        \/ report' = report
    BY <1>1, <1>3 DEF ExtractDescriptor
  <2>3. /\ report'.endAddr = report.endAddr /\ report'.retained = report.retained
        /\ report'.meImage = None
        /\ report'.desc = None \/ (report'.desc = Desc /\ FullImage)
    BY <1>1, <2>1, <2>2 DEF ReportShape
  <2>4. Lengths'
    BY <1>1, <2>3, LengthsSame DEF XInv
  <2>5. Copies'
    BY <1>1, <1>2, <2>1, <2>3, DescSame DEF Copies
  <2> QED
    BY <2>4, <2>5 DEF XInv
<1>4. CASE ExtractMe
  <2>1. /\ pc = "extract ME" /\ pc' \in {"signature", "stop"}
        /\ report.meImage = None
    BY <1>4 DEF ExtractMe, Continue, Stop, XInv, Copies
  <2>2. \/ /\ ~Generation1
           /\ report' = [ReportShape EXCEPT
                !.meImage = [me |-> flash.me, len |-> ExtractSize]]
        \/ report' = report
    BY <1>1, <1>4 DEF ExtractMe
  <2>3. /\ report'.endAddr = report.endAddr /\ report'.retained = report.retained
        /\ report'.desc = report.desc
        /\ \/ report'.meImage = None
           \/ /\ report'.meImage = [me |-> flash.me, len |-> ExtractSize]
              /\ ~Generation1
    BY <1>1, <2>1, <2>2 DEF ReportShape
  <2>4. Lengths'
    BY <1>1, <2>3, LengthsSame DEF XInv
  <2>5. Desc' = Desc /\ ExtractSize' = ExtractSize /\ Generation1' = Generation1
    BY <1>1, <2>3, DescSame
  <2>6. report.desc # None => report.desc = Desc /\ FullImage
    BY DEF XInv, Copies
  <2>7. Copies'
    BY <1>1, <1>2, <2>1, <2>3, <2>5, <2>6 DEF Copies
  <2> QED
    BY <2>4, <2>7 DEF XInv
<1>5. CASE VerifySignature
  <2>1. pc = "signature" /\ pc' = "stop"
    BY <1>5 DEF VerifySignature, Verified, Stop
  <2>2. \/ \E v : report' = [ReportShape EXCEPT !.signature = v]
        \/ report' = report
    BY <1>1, <1>5 DEF VerifySignature, Verified
  <2>3. /\ report'.endAddr = report.endAddr /\ report'.retained = report.retained
        /\ report'.desc = report.desc /\ report'.meImage = report.meImage
    BY <1>1, <2>2 DEF ReportShape
  <2>4. Lengths'
    BY <1>1, <2>3, LengthsSame DEF XInv
  <2>5. Copies'
    BY <1>1, <1>2, <2>1, <2>3, DescSame DEF XInv, Copies
  <2> QED
    BY <2>4, <2>5 DEF XInv
<1> QED
  BY <1>3, <1>4, <1>5

LEMMA XNext ==
  ASSUME IInv, XInv, [Next]_vars
  PROVE  XInv'
<1> USE DEF Steps
<1>1. CASE Analyze
  BY <1>1, AnalyzeX
<1>2. CASE Validate \/ CheckVersion \/ SkipStrip
  BY <1>2, EarlyX DEF Validate, CheckVersion, SkipStrip, Stop, Continue
<1>3. CASE SetStraps
  <2>1. flash'.len = flash.len
    BY <1>3 DEF SetStraps, IInv, Edited, Flash
  <2> QED
    BY <1>3, <2>1, EarlyX DEF SetStraps, Continue
<1>4. CASE WipeGeneration1
  <2>1. flash'.len = flash.len
    BY <1>4 DEF WipeGeneration1, IInv, Edited, Flash
  <2> QED
    BY <1>4, <2>1, EarlyX DEF WipeGeneration1, Continue
<1>5. CASE Ignition
  <2>1. flash'.len = flash.len
    BY <1>5 DEF Ignition, IInv, Edited, Flash
  <2> QED
    BY <1>5, <2>1, EarlyX DEF Ignition, Stop, Continue
<1>6. CASE StripFails
  <2>1. flash'.len = flash.len
    BY <1>6 DEF StripFails, IInv, Edited, Flash
  <2> QED
    BY <1>6, <2>1, EarlyX DEF StripFails, Stop
<1>7. CASE Strip
  BY <1>7, StripX
<1>8. CASE Truncate
  BY <1>8, TruncateX
<1>9. CASE SoftDisable
  <2>1. flash'.len = flash.len
    BY <1>9 DEF SoftDisable, IInv, Edited, Flash
  <2> QED
    BY <1>9, <2>1, EarlyX DEF SoftDisable, Continue
<1>10. CASE Harden
  <2>1. flash'.len = flash.len
    BY <1>10 DEF Harden, IInv, Edited, Flash
  <2> QED
    BY <1>10, <2>1, EarlyX DEF Harden, Continue
<1>11. CASE ExtractDescriptor \/ ExtractMe \/ VerifySignature
  BY <1>11, ExtractX
<1>12. CASE UNCHANGED vars
  <2>1. UNCHANGED <<inputs, a, flash, report, pc>>
    BY <1>12 DEF vars
  <2>2. /\ MeRegion' = MeRegion /\ img' = img /\ Analysis' = Analysis
        /\ FullImage' = FullImage
    BY <2>1, InputsFix
  <2>3. Lengths'
    BY <2>1, <2>2 DEF XInv, Lengths, MeLen, Generation1
  <2>4. Desc' = Desc /\ ExtractSize' = ExtractSize /\ Generation1' = Generation1
    BY <2>1, DescSame
  <2>5. Copies'
    BY <2>1, <2>2, <2>4 DEF XInv, Copies
  <2> QED
    BY <2>3, <2>5 DEF XInv
<1> QED
  BY <1>1, <1>2, <1>3, <1>4, <1>5, <1>6, <1>7, <1>8, <1>9, <1>10, <1>11,
     <1>12 DEF Next

THEOREM CopiesInvariance == Spec => []XInv
BY XInit, XNext, Invariance, PTL DEF Spec
-----------------------------------------------------------------------------
\* The extracted descriptor, decoded: its regions as they are, or with the end
\* that -t has given the ME region.
LEMMA DescRegions ==
  ASSUME IInv, XInv, pc # "truncate", report.desc # None, ~Generation1, EndFits
  PROVE  \/ /\ ~(opts.truncate /\ report.endAddr # None
                 /\ Bios.start = MeRegion.end)
            /\ Decode(report.desc.me) = MeRegion
            /\ Decode(report.desc.bios) = Bios
         \/ /\ opts.truncate /\ report.endAddr # None
            /\ Bios.start = MeRegion.end
            /\ Decode(report.desc.me)
                 = [start |-> MeRegion.start, end |-> MeRegion.start + report.endAddr]
            /\ Decode(report.desc.bios)
                 = [start |-> MeRegion.start + report.endAddr, end |-> Bios.end]
<1>1. /\ img \in Image /\ a = Analysis /\ a.me = MeRegion
      /\ MeRegion = Decode(img.me) /\ report.desc = Desc
  BY ImagesAssumption, GenerationType DEF IInv, Known, XInv, Copies, MeRegion
<1>2. flash.meReg = img.me
  BY DEF IInv, Edited
<1>3. CASE ~(opts.truncate /\ report.endAddr # None /\ Bios.start = MeRegion.end)
  <2>1. report.desc.bios = img.bios /\ report.desc.me = img.me
    BY <1>1, <1>2, <1>3 DEF Desc
  <2> QED
    BY <1>1, <1>3, <2>1 DEF Bios
<1>4. CASE opts.truncate /\ report.endAddr # None /\ Bios.start = MeRegion.end
  <2>1. /\ report.desc.bios = Encode(NewEnd, Bios.end)
        /\ report.desc.me = Encode(MeRegion.start, NewEnd)
    BY <1>1, <1>4 DEF Desc
  <2>2. PICK base \in 0 .. FieldValues - 1, limit \in 0 .. FieldValues - 1 :
          MeRegion.start = base * BLOCK /\ Bios.end = (limit + 1) * BLOCK
    BY <1>1 DEF Image, Flreg, Decode, Bios
  <2>3. PICK n \in 1 .. FieldValues - 1 : NewEnd = n * BLOCK
    <3>1. report.endAddr \in Nat /\ report.endAddr % BLOCK = 0
      BY <1>4 DEF IInv, Reported, XInv, Lengths
    <3>2. PICK b \in Nat \ {0} : b = BLOCK
      BY BlockAssumption
    <3>3. PICK q \in Nat : report.endAddr = q * b
      <4>1. PICK x \in Nat : x = report.endAddr /\ x % b = 0
        BY <3>1, <3>2
      <4>2. PICK d \in Nat, r \in 0 .. b - 1 :
              x \div b = d /\ x % b = r /\ x = d * b + r
        OBVIOUS
      <4> QED
        BY <4>1, <4>2
    <3>4. PICK n \in Nat : n = base + q
      BY <2>2, <3>3
    <3>5. NewEnd = n * b
      BY <1>1, <2>2, <3>2, <3>3, <3>4 DEF NewEnd
    <3>6. PICK f \in Nat : f = FieldValues - 1
      BY FieldAssumption
    <3>7. n * b >= 1 /\ n * b <= f * b
      BY <1>4, <3>2, <3>5, <3>6 DEF EndFits
    <3>8. n # 0
      BY <3>7
    <3>9. ~(n > f)
      <4> SUFFICES ASSUME n > f PROVE FALSE
        OBVIOUS
      <4>1. n - f - 1 \in Nat
        OBVIOUS
      <4>2. (n - f - 1) * b >= 0
        BY <4>1
      <4>3. (n - f - 1) * b = n * b - f * b - b
        OBVIOUS
      <4> QED
        BY <3>7, <4>2, <4>3
    <3> QED
      BY <3>2, <3>4, <3>5, <3>6, <3>8, <3>9, FieldAssumption
  <2>4. limit + 1 \in 1 .. FieldValues /\ n \in 0 .. FieldValues - 1
        /\ n \in 1 .. FieldValues
    BY <2>2, <2>3, FieldAssumption
  <2>5. /\ Decode(Encode(base * BLOCK, n * BLOCK))
             = [start |-> base * BLOCK, end |-> n * BLOCK]
        /\ Decode(Encode(n * BLOCK, (limit + 1) * BLOCK))
             = [start |-> n * BLOCK, end |-> (limit + 1) * BLOCK]
    BY <2>2, <2>4, EncodeDecode
  <2>6. NewEnd = MeRegion.start + report.endAddr
    BY <1>1 DEF NewEnd
  <2> QED
    BY <1>4, <2>1, <2>2, <2>3, <2>5, <2>6
<1> QED
  BY <1>3, <1>4

\* Nothing that -t cuts, neither the file nor what is extracted, ends before
\* the retained data, whatever the image and the end the stage returns.
THEOREM RetainedKept == Spec => []TruncationKeepsRetained
<1>1. ASSUME IInv, XInv PROVE TruncationKeepsRetained
  <2> SUFFICES ASSUME Done, report.retained # None,
                      NEW kept \in {report.retained, MeLen},
                      kept <= report.retained, kept <= MeLen
               PROVE  /\ flash.len >= a.me.start + kept
                      /\ report.meImage # None => report.meImage.len >= kept
                      /\ report.desc # None /\ EndFits =>
                           RegionLen(Decode(report.desc.me)) >= kept
    BY DEF TruncationKeepsRetained
  <2>1. /\ report.endAddr # None /\ report.retained \in Nat
        /\ report.retained <= report.endAddr
        /\ a = Analysis /\ a.ftpr /\ ~Generation1
    BY <1>1 DEF XInv, Lengths
  <2>2. /\ a.me = MeRegion /\ ~IsEmpty(MeRegion) /\ MeRegion.end <= img.len
        /\ MeRegion.start \in Nat /\ MeRegion.end \in Nat
    <3>1. ~IsEmpty(MeRegion)
      BY <2>1 DEF Analysis
    <3> QED
      BY <1>1, <2>1, <3>1, GenerationType DEF IInv, Known, XInv, Lengths
  <2>3. /\ img.len \in Nat /\ report.endAddr \in Nat
        /\ MeLen = MeRegion.end - MeRegion.start
        /\ kept \in Int /\ kept <= report.endAddr
    BY <1>1, <2>1, <2>2, ImagesAssumption
       DEF IInv, Known, Reported, Image, MeLen, RegionLen
  <2>4. flash.len >= a.me.start + kept
    <3>1. CASE flash.len = img.len
      BY <2>1, <2>2, <2>3, <3>1
    <3>2. CASE a.me.start = 0 /\ flash.len = report.endAddr
      BY <2>1, <2>3, <3>2
    <3> QED
      BY <1>1, <3>1, <3>2 DEF XInv, Lengths
  <2>5. ASSUME report.meImage # None
        PROVE  report.meImage.len >= kept
    <3>1. report.meImage.len = ExtractSize
      <4>1. report.meImage = [me |-> flash.me, len |-> ExtractSize]
        BY <1>1, <2>5 DEF XInv, Copies
      <4> QED
        BY <4>1
    <3> QED
      BY <2>1, <2>2, <2>3, <3>1 DEF ExtractSize
  <2>6. ASSUME report.desc # None, EndFits
        PROVE  RegionLen(Decode(report.desc.me)) >= kept
    <3>1. pc # "truncate"
      BY <1>1, <2>6 DEF XInv, Copies
    <3>2. \/ Decode(report.desc.me) = MeRegion
          \/ Decode(report.desc.me)
               = [start |-> MeRegion.start, end |-> MeRegion.start + report.endAddr]
      BY <1>1, <2>1, <2>6, <3>1, DescRegions
    <3>3. \/ RegionLen(Decode(report.desc.me)) = MeLen
          \/ RegionLen(Decode(report.desc.me)) = report.endAddr
      BY <2>2, <2>3, <3>2 DEF RegionLen
    <3> QED
      BY <2>1, <2>2, <2>3, <3>3
  <2> QED
    BY <2>4, <2>5, <2>6
<1> QED
  BY <1>1, Invariance, CopiesInvariance, PTL

\* What is extracted agrees with the image that clean leaves, and the two
\* extracts with each other: the descriptor describes the ME region that is
\* extracted, and the BIOS region adjoins it and ends where it did.
THEOREM Agree == Spec => []ExtractsAgree
<1>1. ASSUME IInv, XInv PROVE ExtractsAgree
  <2> SUFFICES ASSUME Done PROVE ExtractsAgree
    BY DEF ExtractsAgree
  <2>1. report.meImage # None =>
          report.meImage.me = flash.me /\ report.meImage.len = ExtractSize
    <3>1. report.meImage # None =>
            report.meImage = [me |-> flash.me, len |-> ExtractSize]
      BY <1>1 DEF XInv, Copies
    <3> QED
      BY <3>1
  <2> DEFINE me == Decode(report.desc.me)
             bios == Decode(report.desc.bios)
  <2>2. ASSUME report.desc # None
        PROVE  /\ report.desc.straps = flash.straps
               /\ report.desc.flmstr = flash.flmstr
               /\ Generation1 => report.desc.me = flash.meReg
    <3>1. report.desc = Desc
      BY <1>1, <2>2 DEF XInv, Copies
    <3> QED
      BY <3>1 DEF Desc
  <2>3. ASSUME report.desc # None, ~Generation1, EndFits,
               Bios.start = MeRegion.end
        PROVE  /\ me.start = MeRegion.start /\ bios.end = Bios.end
               /\ bios.start = me.end
               /\ report.meImage # None => report.meImage.len = RegionLen(me)
    <3>1. pc # "truncate" /\ a = Analysis
      BY <1>1, <2>3 DEF XInv, Copies
    <3>2. /\ MeRegion.start \in Nat /\ MeRegion.end \in Nat /\ a.me = MeRegion
          /\ report.endAddr \in Nat \cup {None}
      BY <1>1, <3>1, GenerationType DEF IInv, Known, Reported
    <3>3. report.meImage # None => report.meImage.len = ExtractSize
      BY <2>1
    <3>4. CASE /\ ~(opts.truncate /\ report.endAddr # None)
               /\ me = MeRegion /\ bios = Bios
      <4>1. ExtractSize = RegionLen(me)
        BY <3>2, <3>4 DEF ExtractSize, MeLen
      <4> QED
        BY <2>3, <3>3, <3>4, <4>1
    <3>5. CASE /\ opts.truncate /\ report.endAddr # None
               /\ me = [start |-> MeRegion.start,
                        end |-> MeRegion.start + report.endAddr]
               /\ bios = [start |-> MeRegion.start + report.endAddr,
                          end |-> Bios.end]
      <4>1. ExtractSize = report.endAddr
        BY <3>5 DEF ExtractSize
      <4>2. RegionLen(me) = report.endAddr
        BY <3>2, <3>5 DEF RegionLen
      <4> QED
        BY <3>3, <3>5, <4>1, <4>2
    <3> QED
      BY <1>1, <2>3, <3>1, <3>4, <3>5, DescRegions
  <2> QED
    BY <2>1, <2>2, <2>3 DEF ExtractsAgree
<1> QED
  BY <1>1, Invariance, CopiesInvariance, PTL
=============================================================================
