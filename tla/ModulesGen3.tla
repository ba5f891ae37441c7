---------------------------- MODULE ModulesGen3 -----------------------------
(***************************************************************************)
(* The generation 3 module pass (check_and_remove_modules_gen3): it reads  *)
(* the $CPD directory of FTPR, sorts the modules by their offset, and      *)
(* erases each that need not stay up to where the next one starts.  The    *)
(* length of the partition takes part in the sort as an entry of its own,  *)
(* number 0, so that the last module has an end.                           *)
(*                                                                         *)
(* A module's name is what it decides: whether the module stays.  Its size *)
(* is what the data really takes; the code does not read it, and the       *)
(* properties are about it.  The relocation that may follow moves FTPR as  *)
(* a whole and is in Partitions.tla.                                       *)
(***************************************************************************)
EXTENDS Region, Sequences

CONSTANTS
  FileLen, ME,   \* length of the image, the ME region in it
  Directories,   \* FTPR partitions: Directory records
  HEAD, ENTRY,   \* size of the directory's header, and of an entry
  COUNT_END,     \* where in the header the number of modules ends
  OffsetValues,  \* an entry's offset has 25 bits
  None

Module == [offset : 0 .. OffsetValues - 1, size : Nat, stays : BOOLEAN]
Directory == [offset : Nat, length : Nat, modules : Seq(Module)]

ASSUME ImageAssumption ==
  /\ FileLen \in Nat
  /\ ME \in [start : Nat, end : Nat]
  /\ ME.start <= ME.end /\ ME.end <= FileLen
ASSUME DirectoriesAssumption == \A d \in Directories : d \in Directory
ASSUME SizesAssumption ==
  /\ HEAD \in Nat /\ ENTRY \in Nat /\ OffsetValues \in Nat
  /\ COUNT_END \in 0 .. HEAD
ASSUME NoneAssumption == None \notin Int

Addr == 0 .. FileLen - 1
Image == [a \in Addr |-> a]
MeLen == RegionLen(ME)

VARIABLES
  dir,          \* FTPR: its place, its length and its modules
  keepModules,
  buf,          \* the image being edited
  order,        \* the entries in the order of their offsets
  i,            \* loop counter over order
  endData,      \* end_data, relative to the region
  pc

inputs == <<dir, keepModules>>
vars == <<inputs, buf, order, i, endData, pc>>
-----------------------------------------------------------------------------
Count == Len(dir.modules)
OffsetOf(m) == IF m = 0 THEN dir.length ELSE dir.modules[m].offset
Stays(m) == m # 0 /\ dir.modules[m].stays

\* The entry that is read for a module lies in the region.
EntryInRegion(m) == Check(ME, dir.offset + HEAD + (m - 1) * ENTRY, ENTRY)

\* The sort is stable and the length is pushed first.
Before_AsListed(m, n) == m # 0 /\ (n = 0 \/ m < n)
Before(m, n) ==
  \/ OffsetOf(m) < OffsetOf(n)
  \/ OffsetOf(m) = OffsetOf(n) /\ m < n

Sorted(o) ==
  \A g, h \in 1 .. Count + 1 : g < h => Before(o[g], o[h])

Init ==
  /\ dir \in Directories /\ keepModules \in BOOLEAN
  /\ buf = Image
  /\ order = <<>> /\ i = 1
  /\ endData = None
  /\ pc = "start"

KeepModules ==
  /\ pc = "start" /\ keepModules
  /\ endData' = dir.offset + dir.length
  /\ pc' = "done"
  /\ UNCHANGED <<inputs, buf, order, i>>

\* The directory is read as a whole, before anything is erased.
ReadFails ==
  /\ pc = "start" /\ ~keepModules
  /\ \/ ~Check(ME, dir.offset, COUNT_END)
     \/ \E m \in 1 .. Count : ~EntryInRegion(m)
  /\ pc' = "err"
  /\ UNCHANGED <<inputs, buf, order, i, endData>>

ReadDirectory ==
  /\ pc = "start" /\ ~keepModules
  /\ Check(ME, dir.offset, COUNT_END)
  /\ \A m \in 1 .. Count : EntryInRegion(m)
  /\ \E o \in [1 .. Count + 1 -> 0 .. Count] : Sorted(o) /\ order' = o
  /\ endData' = 0
  /\ pc' = "sweep"
  /\ UNCHANGED <<inputs, buf, i>>

Start == dir.offset + OffsetOf(order[i])
End == dir.offset + OffsetOf(order[i + 1])

KeepModule_StartCovered ==
  /\ pc = "sweep" /\ i <= Count
  /\ Stays(order[i])
  /\ endData' = IF Start > endData THEN Start ELSE endData
  /\ i' = i + 1
  /\ UNCHANGED <<inputs, buf, order, pc>>

KeepModule ==
  /\ pc = "sweep" /\ i <= Count
  /\ Stays(order[i])
  /\ endData' = IF End > endData THEN End ELSE endData
  /\ i' = i + 1
  /\ UNCHANGED <<inputs, buf, order, pc>>

EraseModule_SkipsNext ==
  /\ pc = "sweep" /\ i <= Count
  /\ ~Stays(order[i])
  /\ buf' = Filled(ME, buf, Start, IF End < MeLen THEN End ELSE MeLen)
  /\ i' = i + 2
  /\ UNCHANGED <<inputs, order, endData, pc>>

EraseModule_Unclamped ==
  /\ pc = "sweep" /\ i <= Count
  /\ ~Stays(order[i])
  /\ buf' = Filled(ME, buf, Start, End)
  /\ i' = i + 1
  /\ UNCHANGED <<inputs, order, endData, pc>>

EraseModule ==
  /\ pc = "sweep" /\ i <= Count
  /\ ~Stays(order[i])
  /\ buf' = Filled(ME, buf, Start, IF End < MeLen THEN End ELSE MeLen)
  /\ i' = i + 1
  /\ UNCHANGED <<inputs, order, endData, pc>>

Finish_LastForgotten ==
  /\ pc = "sweep" /\ i >= Count
  /\ pc' = "done"
  /\ UNCHANGED <<inputs, buf, order, i, endData>>

Finish ==
  /\ pc = "sweep" /\ i > Count
  /\ pc' = "done"
  /\ UNCHANGED <<inputs, buf, order, i, endData>>

Next ==
  \/ KeepModules \/ ReadFails \/ ReadDirectory
  \/ KeepModule \/ EraseModule \/ Finish

Spec == Init /\ [][Next]_vars
-----------------------------------------------------------------------------
TypeOK ==
  /\ dir \in Directory /\ keepModules \in BOOLEAN
  /\ buf \in [Addr -> Addr \cup {FF}]
  /\ order \in [1 .. Count + 1 -> 0 .. Count] \cup {<<>>}
  /\ i \in 1 .. Count + 1
  /\ endData \in Nat \cup {None}
  /\ pc \in {"start", "sweep", "done", "err"}

DataEnd(m) == dir.modules[m].offset + dir.modules[m].size
InModule(a, m) ==
  Within(ME, a, dir.offset + dir.modules[m].offset, dir.offset + DataEnd(m))

\* No other entry starts inside module m.
Apart(m) ==
  \A n \in 0 .. Count \ {m} :
    OffsetOf(n) < dir.modules[m].offset \/ OffsetOf(n) >= DataEnd(m)

InDirectory(a) ==
  Within(ME, a, dir.offset, dir.offset + HEAD + Count * ENTRY)

\* A module that has to stay is intact at every moment, wherever it is listed
\* in the directory, unless another one, or the end of the partition, starts
\* inside it.  So is the directory, provided that neither a module nor the end
\* of the partition lies in it - as the length 0 of an FTPR that was found by
\* the IFWI scan does.
KeptSurvives ==
  /\ \A m \in 1 .. Count : (Stays(m) /\ Apart(m)) =>
       \A a \in Addr : InModule(a, m) => buf[a] = a
  /\ (\A n \in 0 .. Count : OffsetOf(n) >= HEAD + Count * ENTRY) =>
       \A a \in Addr : InDirectory(a) => buf[a] = a

\* After the pass nothing is left of a module that need not stay, if every
\* module lies inside the partition: the sweep reaches the last one.
Inside == \A m \in 1 .. Count : dir.modules[m].offset < dir.length
StrippedModulesGone ==
  (pc = "done" /\ ~keepModules /\ Inside) =>
    \A m \in 1 .. Count : (~Stays(m) /\ Apart(m) /\ DataEnd(m) <= dir.length) =>
      \A a \in Addr : InModule(a, m) /\ a < ME.end => buf[a] = FF

\* What the end that is returned leaves out of the partition is erased: no
\* module that stays lies behind the end the image is truncated at, however
\* the modules lie in the partition or past it.
NothingBehindEnd ==
  pc = "done" =>
    \A a \in Addr :
      (/\ a < ME.end /\ Within(ME, a, endData, dir.offset + dir.length)
       /\ \E m \in 1 .. Count : InModule(a, m)) => buf[a] = FF

\* The cells that the pass may erase, of an image of any form.
Extent ==
  CHOOSE e \in {OffsetOf(m) : m \in 0 .. Count} :
    \A m \in 0 .. Count : OffsetOf(m) <= e

\* The pass is a module pass as the partition stage expects it.
Pass == INSTANCE ModulePass WITH
  mbuf <- IF pc \in {"done", "err"} THEN buf ELSE Image,
  moffset <- dir.offset, mextent <- Extent,
  mend <- IF pc = "done" THEN endData ELSE None,
  status <- CASE pc = "done" -> "done"
              [] pc = "err" -> "failed"
              [] OTHER -> "called"

ImplementsPass == Pass!PassInit /\ [][Pass!PassNext]_(Pass!mvars)
=============================================================================
