------------------------------ MODULE CleanCli ------------------------------
(***************************************************************************)
(* The command `intel_ma clean` (run_clean in main.rs) over a file system: *)
(* it reads the image, has it cleaned in memory (Clean.tla), writes the    *)
(* extracted descriptor and ME image, and the cleaned image last.  A write *)
(* empties the file and fills it; each half can fail, and the program or   *)
(* the machine can stop at any point.  The user may then run it again.     *)
(*                                                                         *)
(* A file is one of: absent, the original image, other contents of before, *)
(* torn (emptied, partly written), what an output is when it is whole, or  *)
(* garbage: what cleaning anything but an image has left.                  *)
(***************************************************************************)
EXTENDS Naturals, FiniteSets

CONSTANTS
  Paths, None,
  MaxRuns        \* bound on the runs of the command

ASSUME PathsAssumption == None \notin Paths
ASSUME RunsAssumption == MaxRuns \in Nat \ {0}

Outputs == {"descriptor", "me", "image"}
Contents == {"absent", "original", "other", "torn", "garbage"} \cup Outputs

VARIABLES
  args,     \* CleanArgs: [file, output, descriptor, me]
  before,   \* the files before the first run
  fs,       \* the files
  report,   \* what clean left: [buf, extracts]
  output,   \* the output being written
  runs,     \* how often the command was started
  pc

vars == <<args, before, fs, report, output, runs, pc>>
-----------------------------------------------------------------------------
InPlace == args.output = None
Out == IF InPlace THEN args.file ELSE args.output

\* Where an output goes, if it is written at all.
PathOf(o) ==
  CASE o = "image" -> Out
    [] o = "descriptor" -> args.descriptor
    [] o = "me" -> args.me
Written(o) == o = "image" \/ o \in report.extracts

Init ==
  /\ args \in [file : Paths, output : Paths \cup {None},
               descriptor : Paths \cup {None}, me : Paths \cup {None}]
  /\ fs \in [Paths -> {"absent", "original", "other"}]
  /\ \A p \in Paths : fs[p] = "original" => p = args.file
  /\ before = fs
  /\ report = [buf |-> "garbage", extracts |-> {}]
  /\ output = "descriptor"
  /\ runs = 1
  /\ pc = "read"

Read ==
  /\ pc = "read" /\ fs[args.file] # "absent"
  /\ pc' = "clean"
  /\ report' = [buf |-> fs[args.file], extracts |-> {}]
  /\ UNCHANGED <<args, before, fs, output, runs>>

ReadFails ==
  /\ pc = "read" /\ pc' = "err"
  /\ UNCHANGED <<args, before, fs, report, output, runs>>

\* clean succeeds; what was asked to be extracted may be missing, as clean
\* returns early when it finds no table or no FTPR.
Cleaned ==
  /\ pc = "clean"
  /\ \E missing \in SUBSET {"descriptor", "me"} :
       report' =
         [buf |-> IF report.buf \in {"original", "image"} THEN "image"
                                                          ELSE "garbage",
          extracts |-> {o \in {"descriptor", "me"} : PathOf(o) # None} \ missing]
  /\ output' = "descriptor" /\ pc' = "open"
  /\ UNCHANGED <<args, before, fs, runs>>

\* Any error of clean, or a panic.
CleanFails ==
  /\ pc = "clean" /\ pc' = "err"
  /\ UNCHANGED <<args, before, fs, report, output, runs>>

\* The order of the outputs.
After_ImageFirst(o) ==
  CASE o = "descriptor" -> "image" [] o = "image" -> "me" [] o = "me" -> "none"
After(o) ==
  CASE o = "descriptor" -> "me" [] o = "me" -> "image" [] o = "image" -> "none"
NextOutput ==
  /\ output' = After(output)
  /\ pc' = IF After(output) = "none" THEN "ok" ELSE "open"

\* write_extract without data or path.
SkipOutput ==
  /\ pc = "open" /\ ~Written(output)
  /\ NextOutput
  /\ UNCHANGED <<args, before, fs, report, runs>>

\* std::fs::write creates or empties the file, then fills it.
Open_Input ==
  /\ pc = "open" /\ Written(output)
  /\ fs' = [fs EXCEPT ![args.file] = "torn", ![PathOf(output)] = "torn"]
  /\ pc' = "fill"
  /\ UNCHANGED <<args, before, report, output, runs>>

Open ==
  /\ pc = "open" /\ Written(output)
  /\ fs' = [fs EXCEPT ![PathOf(output)] = "torn"]
  /\ pc' = "fill"
  /\ UNCHANGED <<args, before, report, output, runs>>

Fill ==
  /\ pc = "fill"
  /\ fs' = [fs EXCEPT ![PathOf(output)] =
              IF output # "image" /\ report.buf = "image" THEN output
                                                          ELSE report.buf]
  /\ NextOutput
  /\ UNCHANGED <<args, before, report, runs>>

\* An error of either half ends the command.
WriteFails_Ignored ==
  /\ \/ pc = "open" /\ Written(output)
     \/ pc = "fill"
  /\ NextOutput
  /\ UNCHANGED <<args, before, fs, report, runs>>

WriteFails ==
  /\ \/ pc = "open" /\ Written(output)
     \/ pc = "fill"
  /\ pc' = "err"
  /\ UNCHANGED <<args, before, fs, report, output, runs>>

\* The program or the machine stops.
Crash ==
  /\ pc \notin {"ok", "err", "crashed"}
  /\ pc' = "crashed"
  /\ UNCHANGED <<args, before, fs, report, output, runs>>

\* The user runs the command again.
Rerun ==
  /\ pc \in {"ok", "err", "crashed"} /\ runs < MaxRuns
  /\ runs' = runs + 1 /\ pc' = "read"
  /\ UNCHANGED <<args, before, fs, report, output>>

Next ==
  \/ Read \/ ReadFails \/ Cleaned \/ CleanFails
  \/ SkipOutput \/ Open \/ Fill \/ WriteFails \/ Crash \/ Rerun

Spec == Init /\ [][Next]_vars
-----------------------------------------------------------------------------
\* The outputs go to files of their own.
Given == {o \in Outputs : PathOf(o) # None}
Separate == \A o, p \in Given : o # p => PathOf(o) # PathOf(p)

\* With -O and the extracted parts elsewhere too, the image that is read is
\* never touched: "write result to a separate file (don't edit in place)".
InputKept ==
  (\A o \in Given : PathOf(o) # args.file) =>
    fs[args.file] = before[args.file]

\* By the time the image is written, and in place the original is lost, the
\* parts that were extracted are saved: what a crash from then on costs is
\* the image alone, if the image could be read.
ExtractsSavedFirst ==
  (Separate /\ before[args.file] = "original" /\ runs = 1) =>
    \A o \in report.extracts :
      fs[Out] \in {"torn", "image"} => fs[PathOf(o)] = o

\* A success: every output is whole and no other file has changed - after a
\* later run too, whatever an earlier one has left, unless that one wrote
\* to the file that is read: cleaning a torn image may well succeed.
SuccessIsWhole ==
  (/\ pc = "ok" /\ Separate /\ before[args.file] = "original"
   /\ \A o \in Given : runs = 1 \/ PathOf(o) # args.file)
    => /\ fs[Out] = "image"
       /\ \A o \in report.extracts : fs[PathOf(o)] = o
       /\ \A p \in Paths :
            (\A o \in Given : PathOf(o) # p) => fs[p] = before[p]

\* The exit status tells what has happened to the files: a run ends with
\* success only if it is whole as above, and as long as clean has not
\* succeeded no file changes.  An image that clean refuses or fails on is not
\* saved, however much of the buffer was edited.
OutcomeTold ==
  [][/\ pc' = "ok" => SuccessIsWhole'
     /\ (pc = "clean" /\ pc' = "err") \/ pc = "read" => fs' = fs]_vars
=============================================================================
