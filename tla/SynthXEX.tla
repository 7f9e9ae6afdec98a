------------------------------ MODULE SynthXEX ------------------------------
(***************************************************************************)
(* main.c: the options, then one stage after another, and from every point *)
(* at which a stage can fail an exit of its own that has to release        *)
(* exactly what exists by then.  Every stage appears here as what it does  *)
(* to memory and to the open files: what it needs, what it allocates, and  *)
(* what it leaves behind when it fails part of the way.                    *)
(***************************************************************************)
EXTENDS MainStructs

CONSTANT MaxOptions      \* bound: options on the command line

ASSUME SynthXEXAssumption == MaxOptions \in Nat

VARIABLES
  stage,                 \* the next stage of main
  options,               \* options parsed so far
  gotInput, gotOutput,
  repeated,              \* an -i or -o was given more than once
  files,                 \* pe, xex and basefile
  tableCount,            \* peImportInfo->tableCount, then importLibraries.tableCount
  exit                   \* what main returned

vars == <<heap, stage, options, gotInput, gotOutput, repeated, files, tableCount, exit>>

optionVars == <<options, gotInput, gotOutput, repeated>>

PePath       == Ptr("pePath")
XexfilePath  == Ptr("xexfilePath")
BasefilePath == Ptr("basefilePath")

(* Buffers of the stages, which only matter once they are lost.            *)
IDTs == {"currentIDT", "blankIDT"}

Init ==
  /\ heap = NullHeap
  /\ stage = "calloc"
  /\ options = 0 /\ gotInput = FALSE /\ gotOutput = FALSE /\ repeated = FALSE
  /\ files = [f \in {"pe", "xex", "basefile"} |-> "unopened"]
  /\ tableCount = 0
  /\ exit = "none"

(* Using or closing what is not open would be a use after free.            *)
Became(F, what) == [f \in DOMAIN files |-> IF f \notin F THEN files[f]
                                           ELSE IF files[f] = "open" THEN what ELSE "fault"]

Closed(F) == Became(F, "closed")

At(s) == stage = s /\ UNCHANGED exit

(* The stage comes back with SUCCESS, leaving h.                           *)
Goto(s, h) == stage' = s /\ heap' = h

(* main gives up: free the strings of S and the structures, close F.       *)
Abort(h, S, F) ==
  /\ heap' = freeAllMainStructs(nullAndFree(h, S))
  /\ files' = Closed(F)
  /\ stage' = "exited" /\ exit' = "failure"
  /\ UNCHANGED <<optionVars, tableCount>>

Lose(h, blocks) == [h EXCEPT !.lost = @ \cup {Ptr(b) : b \in blocks}]

-----------------------------------------------------------------------------
(* Six callocs, tested together.                                           *)
CallocStructs ==
  /\ At("calloc")
  /\ Goto("options", Alloc(heap, Structs))
  /\ UNCHANGED <<optionVars, files, tableCount>>

CallocStructsFails ==
  /\ stage = "calloc"
  /\ \E S \in SUBSET Structs : S # Structs /\ Abort(Alloc(heap, S), {}, {})

NextOption == stage = "options" /\ options < MaxOptions

(* -i and -o copy their argument, over an earlier copy if there is one.    *)
PathOption(path, got) ==
  /\ NextOption
  /\ options' = options + 1
  /\ repeated' = (repeated \/ got)
  /\ heap' = Alloc(heap, {path})
  /\ UNCHANGED <<stage, files, tableCount, exit>>

InputOption  == PathOption(PePath, gotInput) /\ gotInput' = TRUE /\ UNCHANGED gotOutput
OutputOption == PathOption(XexfilePath, gotOutput) /\ gotOutput' = TRUE /\ UNCHANGED gotInput

PathOptionFails(path, other) ==
  /\ NextOption
  /\ Abort([Alloc(heap, {path}) EXCEPT !.ptr[path] = "null"], {other}, {})

InputOptionFails  == PathOptionFails(PePath, XexfilePath)
OutputOptionFails == PathOptionFails(XexfilePath, PePath)

(* -s, or -t with a type it knows.                                         *)
PlainOption ==
  /\ NextOption
  /\ options' = options + 1
  /\ UNCHANGED <<heap, stage, gotInput, gotOutput, repeated, files, tableCount, exit>>

InvalidType == NextOption /\ Abort(heap, {PePath, XexfilePath}, {})

(* Mutated form of InformationOption: goes on with the next option.        *)
InformationGoesOn ==
  /\ NextOption
  /\ options' = options + 1
  /\ heap' = freeAllMainStructs(heap)
  /\ exit' = "information"
  /\ UNCHANGED <<stage, gotInput, gotOutput, repeated, files, tableCount>>

(* -h, -v, -l and anything unknown: the paths are left as they are.        *)
InformationOption ==
  /\ NextOption
  /\ heap' = freeAllMainStructs(heap)
  /\ stage' = "exited" /\ exit' = "information"
  /\ UNCHANGED <<optionVars, files, tableCount>>

MissingPath ==
  /\ stage = "options"
  /\ \/ ~gotInput /\ gotOutput /\ Abort(heap, {XexfilePath}, {})
     \/ ~gotInput /\ ~gotOutput /\ Abort(heap, {}, {})
     \/ gotInput /\ ~gotOutput /\ Abort(heap, {PePath}, {})

-----------------------------------------------------------------------------
OpenPE ==
  /\ At("options")
  /\ gotInput /\ gotOutput
  /\ files' = [files EXCEPT !["pe"] = "open"]
  /\ Goto("openXEX", nullAndFree(Use(heap, {PePath}), {PePath}))
  /\ UNCHANGED <<optionVars, tableCount>>

OpenPEFails ==
  /\ stage = "options"
  /\ gotInput /\ gotOutput
  /\ Abort(Use(heap, {PePath}), {PePath, XexfilePath}, {})

(* "wb+": whatever was at the output path is gone, before the PE is read.  *)
OpenXEX ==
  /\ At("openXEX")
  /\ files' = [files EXCEPT !["xex"] = "open"]
  /\ Goto("validatePE", Use(heap, {XexfilePath}))
  /\ UNCHANGED <<optionVars, tableCount>>

OpenXEXFails ==
  /\ stage = "openXEX"
  /\ Abort(Use(heap, {XexfilePath}), {XexfilePath}, {"pe"})

(* A stage that reads or writes the files of F.                            *)
Stage(s, F) == At(s) /\ files' = Became(F, "open") /\ UNCHANGED optionVars

ValidatePE ==
  /\ Stage("validatePE", {"pe"})
  /\ Goto("getHdrData", heap)
  /\ UNCHANGED tableCount

(* Mutated form of ValidatePEFails: the output path is forgotten.          *)
ValidatePEFailsKeepingPath == stage = "validatePE" /\ Abort(heap, {}, {"pe", "xex"})

ValidatePEFails == stage = "validatePE" /\ Abort(heap, {XexfilePath}, {"pe", "xex"})

GetHdrData ==
  /\ Stage("getHdrData", {"pe"})
  /\ Goto("getImports", Alloc(heap, {Sections}))
  /\ UNCHANGED tableCount

(* Before, in, or after the allocation of the section table.               *)
GetHdrDataFails ==
  /\ stage = "getHdrData"
  /\ \E S \in {{}, {Sections}} : Abort(Alloc(heap, S), {XexfilePath}, {"pe", "xex"})

(* n tables read whole, those of withImports with anything to import.      *)
WithTables(h, n, withImports) ==
  Alloc(Use(h, {Sections}), (IF n > 0 THEN {PeTables} ELSE {})
                            \cup {Name(k) : k \in 1 .. n}
                            \cup {Imports(k) : k \in withImports})

GetImports ==
  /\ Stage("getImports", {"pe"})
  /\ \E n \in 0 .. MaxTables : \E withImports \in SUBSET (1 .. n) :
       /\ Goto("basefile", WithTables(heap, n, withImports))
       /\ tableCount' = n

GetImportsAborts(h) == Abort(h, {XexfilePath}, {"pe", "xex"})

(* In table n, with its name and imports as far as they are; or reading    *)
(* the entry after it, which forgets the two buffers.                      *)
GetImportsFails ==
  /\ stage = "getImports"
  /\ \E n \in Tables : \E withImports \in SUBSET (1 .. n - 1) :
       LET before == WithTables(heap, n - 1, withImports)
       IN  \/ \E S \in {{}, {PeTables}, {PeTables, Name(n)}, {PeTables, Name(n), Imports(n)}} :
                GetImportsAborts(Alloc(before, S \ (IF n > 1 THEN {PeTables} ELSE {})))
           \/ \E T \in SUBSET {n} :
                GetImportsAborts(Lose(WithTables(heap, n, withImports \cup T), IDTs))

(* realloc fails: the old block stays, with no pointer to it.              *)
GetImportsReallocFails ==
  /\ stage = "getImports"
  /\ \E n \in Tables : \E withImports \in SUBSET (1 .. n - 1) :
       \/ LET before == WithTables(heap, n - 1, withImports)
              S      == IF n > 1 THEN {PeTables} \cup {Name(k) : k \in 1 .. n - 1}
                                      \cup {Imports(k) : k \in withImports}
                        ELSE {}
          IN  GetImportsAborts([before EXCEPT !.lost = @ \cup S,
                                              !.ptr = [p \in Pointers |->
                                                         IF p \in S THEN "null" ELSE @[p]]])
       \/ LET named == WithTables(heap, n, withImports)
          IN  GetImportsAborts([named EXCEPT !.lost = @ \cup {Name(n)}, !.ptr[Name(n)] = "null"])

(* The realloc that is not looked at: the next import is stored through it.*)
ImportsReallocFails ==
  /\ Stage("getImports", {"pe"})
  /\ \E n \in Tables :
       Goto("crashed", Use(WithTables(heap, n, {}), {Imports(n)}))
  /\ UNCHANGED tableCount

-----------------------------------------------------------------------------
(* The name of the basefile, and the basefile.                             *)
OpenBasefile ==
  /\ At("basefile")
  /\ files' = [files EXCEPT !["basefile"] = "open"]
  /\ Goto("mapPE", nullAndFree(Use(Alloc(heap, {BasefilePath}), {XexfilePath, BasefilePath}),
                               {XexfilePath, BasefilePath}))
  /\ UNCHANGED <<optionVars, tableCount>>

OpenBasefileFails ==
  /\ stage = "basefile"
  /\ \/ Abort(heap, {XexfilePath}, {"pe", "xex"})
     \/ Abort(Alloc(heap, {BasefilePath}), {XexfilePath, BasefilePath}, {"pe", "xex"})

PeImports == {PeTables : k \in 1 .. tableCount}

MapPEToBasefile ==
  /\ At("mapPE")
  /\ files' = [Became({"basefile"}, "open") EXCEPT !["pe"] = Closed({"pe"})["pe"]]
  /\ Goto("setSecInfo", Use(heap, {PeData} \cup PeImports))
  /\ UNCHANGED <<optionVars, tableCount>>

(* Only once the sections are mapped does it free its buffers.             *)
MapPEToBasefileFails ==
  /\ stage = "mapPE"
  /\ \E lost \in {{}, {"sectionInfo"}, {"sectionInfo", "buffer"}} :
       Abort(Lose(heap, lost), {}, {"pe", "basefile", "xex"})

(* Mutated form of SetSecInfoHeader: "done with" the sections too early.   *)
DoneWithSectionsTooEarly ==
  /\ Stage("setSecInfo", {})
  /\ Goto("pageDescriptors", freeSectionsStruct(Use(heap, {SecInfoHeader, PeData})))
  /\ UNCHANGED tableCount

(* setSecInfoHeader cannot fail.                                           *)
SetSecInfoHeader ==
  /\ Stage("setSecInfo", {})
  /\ Goto("pageDescriptors", Use(heap, {SecInfoHeader, PeData}))
  /\ UNCHANGED tableCount

(* "Done with this now": the section table goes.                           *)
SetPageDescriptors ==
  /\ Stage("pageDescriptors", {"basefile"})
  /\ Goto("optHeaders",
          freeSectionsStruct(Alloc(Use(heap, {SecInfoHeader, Sections}), {Descriptors})))
  /\ UNCHANGED tableCount

(* Mutated form of AbortBuild: closes the PE again.                        *)
AbortBuildClosingPE(h) == Abort(h, {}, {"pe", "basefile", "xex"})

AbortBuild(h) == Abort(h, {}, {"basefile", "xex"})

SetPageDescriptorsFails ==
  /\ stage = "pageDescriptors"
  /\ \E S \in {{}, {Descriptors}} : AbortBuild(Alloc(heap, S))

importsPresent == \E k \in Tables : heap.ptr[Imports(k)] = "live"

(* A library that has a name but no imports gets an empty address array.   *)
Libraries(h) ==
  Alloc(Use(h, {Name(k) : k \in 1 .. tableCount}),
        {ImportTables, NameTable} \cup {Addresses(k) : k \in 1 .. tableCount})

SetOptHeaders ==
  /\ Stage("optHeaders", {})
  /\ LET h == Alloc(Use(heap, {SecInfoHeader, PeData}), {OptEntry})
     IN  Goto("xexHeader", IF importsPresent THEN Libraries(h) ELSE h)
  /\ UNCHANGED tableCount

(* Tables are built from the last down.  A bad one at position k forgets   *)
(* the addresses of those after it, and perhaps its own; the import tables *)
(* go in every case but that of too many tables.                           *)
SetOptHeadersFails ==
  /\ stage = "optHeaders"
  /\ \/ AbortBuild(heap)
     \/ /\ importsPresent
        /\ LET h == Alloc(heap, {OptEntry})
           IN  \/ \E S \in {{}, {ImportTables}} : AbortBuild(Alloc(h, S))
               \/ \E k \in 1 .. tableCount + 1 :
                    AbortBuild([h EXCEPT !.lost = @ \cup {Addresses(m) : m \in k .. tableCount}])

(* setXEXHeader cannot fail.  "Done with this now": the import data goes.  *)
SetXEXHeader ==
  /\ Stage("xexHeader", {})
  /\ Goto("placeStructs",
          freePeImportInfoStruct(Use(heap, {XexHeader, OptEntries, PeData})))
  /\ UNCHANGED tableCount

(* "We're done with this now": the rest of the PE data goes.               *)
PlaceStructs ==
  /\ Stage("placeStructs", {})
  /\ Goto("writeXEX", freePeDataStruct(
            Alloc(Use(heap, {Offsets, XexHeader, OptEntry, SecInfoHeader, OptHeaders}),
                  {OptOffsets})))
  /\ UNCHANGED tableCount

PlaceStructsFails == stage = "placeStructs" /\ AbortBuild(heap)

hasLibraries == heap.ptr[ImportTables] # "null"

WriteXEX ==
  /\ Stage("writeXEX", {"basefile", "xex"})
  /\ Goto("headerSha1",
          Use(heap, {XexHeader, OptEntry, Descriptors, OptOffsets, OptHeaders}
                    \cup (IF hasLibraries
                          THEN {NameTable} \cup {Addresses(k) : k \in 1 .. tableCount}
                          ELSE {})))
  /\ UNCHANGED tableCount

WriteXEXFails == stage = "writeXEX" /\ AbortBuild(heap)

(* setHeaderSha1, and the way out.                                         *)
SetHeaderSha1 ==
  /\ stage = "headerSha1"
  /\ heap' = freeAllMainStructs(heap)
  /\ files' = Closed({"xex", "basefile"})
  /\ stage' = "exited" /\ exit' = "built"
  /\ UNCHANGED <<optionVars, tableCount>>

SetHeaderSha1Fails == stage = "headerSha1" /\ AbortBuild(heap)

-----------------------------------------------------------------------------
Next ==
  \/ CallocStructs \/ CallocStructsFails
  \/ InputOption \/ InputOptionFails \/ OutputOption \/ OutputOptionFails
  \/ PlainOption \/ InvalidType \/ InformationOption \/ MissingPath
  \/ OpenPE \/ OpenPEFails \/ OpenXEX \/ OpenXEXFails
  \/ ValidatePE \/ ValidatePEFails \/ GetHdrData \/ GetHdrDataFails
  \/ GetImports \/ GetImportsFails \/ GetImportsReallocFails
  \/ OpenBasefile \/ OpenBasefileFails \/ MapPEToBasefile \/ MapPEToBasefileFails
  \/ SetSecInfoHeader \/ SetPageDescriptors \/ SetPageDescriptorsFails
  \/ SetOptHeaders \/ SetOptHeadersFails \/ SetXEXHeader
  \/ PlaceStructs \/ PlaceStructsFails \/ WriteXEX \/ WriteXEXFails
  \/ SetHeaderSha1 \/ SetHeaderSha1Fails
  \/ stage = "exited" /\ UNCHANGED vars

Spec == Init /\ [][Next]_vars

(* Memory may also run out where getImports does not look.                 *)
UncheckedSpec == Init /\ [][Next \/ ImportsReallocFails]_vars

-----------------------------------------------------------------------------
(***************************************************************************)
(* Types of main's state.                                                  *)
(***************************************************************************)
MainTypeOK ==
  /\ HeapTypeOK
  /\ options \in 0 .. MaxOptions
  /\ {gotInput, gotOutput, repeated} \subseteq BOOLEAN
  /\ files \in [{"pe", "xex", "basefile"} -> {"unopened", "open", "closed", "fault"}]
  /\ tableCount \in 0 .. MaxTables
  /\ exit \in {"none", "failure", "information", "built"}
  /\ exit = "none" <=> stage # "exited"

(***************************************************************************)
(* Whichever of main's exits is taken, every file that was opened has been *)
(* closed, once, and none was used when it was not open: each exit carries *)
(* its own list of files to close.                                         *)
(***************************************************************************)
FilesClosedOnce ==
  /\ \A f \in DOMAIN files : files[f] # "fault"
  /\ stage = "exited" => \A f \in DOMAIN files : files[f] # "open"

(***************************************************************************)
(* Whichever exit is taken, no structure main can still reach, nor any     *)
(* array inside one, is left allocated, and no string either: only asking  *)
(* for help or the version after -i or -o leaves the path behind.          *)
(***************************************************************************)
NothingHeldAtExit ==
  stage = "exited" =>
    \A p \in Pointers : heap.ptr[p] # "null" => p \in Strings /\ exit = "information"

(***************************************************************************)
(* A build that succeeds leaks nothing, although the section table, the    *)
(* import data and the PE data are each freed early and again at the end,  *)
(* unless a path was given twice.  A failing build may forget buffers of   *)
(* the failing stage and the import data it was working on, but never one  *)
(* of the six structures, nor an array that an earlier stage finished.     *)
(***************************************************************************)
BuildLeaksNothing ==
  /\ exit = "built" /\ ~repeated => heap.lost = {}
  /\ heap.lost \cap (Structs \cup {OptOffsets, Descriptors, Sections, OptEntry}) = {}

(***************************************************************************)
(* main.c:134 has a message for every allocation that fails, "Out of       *)
(* memory. Aborting.", and getImports an error return for it: no failed    *)
(* allocation is used.                                                     *)
(***************************************************************************)
FailedAllocationNotUsed == ~heap.fault
=============================================================================
