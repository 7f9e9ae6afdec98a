---------------------------- MODULE MainStructs ----------------------------
(***************************************************************************)
(* Who owns what in memory, and the functions of common/datastorage.c that *)
(* free it: six structures that main allocates, the arrays the stages hang *)
(* from them, and the strings main keeps.  A pointer is named by the field *)
(* it is stored in; what it points to is there (live), was freed behind    *)
(* its back (dangling), or the pointer is NULL.                            *)
(***************************************************************************)
EXTENDS Integers, FiniteSets

CONSTANT MaxTables       \* bound: import tables of the PE

ASSUME MainStructsAssumption == MaxTables \in Nat

Tables == 1 .. MaxTables

Ptr(name) == <<name, 0>>

Offsets       == Ptr("offsets")
XexHeader     == Ptr("xexHeader")
SecInfoHeader == Ptr("secInfoHeader")
PeData        == Ptr("peData")
OptEntries    == Ptr("optHeaderEntries")
OptHeaders    == Ptr("optHeaders")

Structs == {Offsets, XexHeader, SecInfoHeader, PeData, OptEntries, OptHeaders}

OptOffsets    == Ptr("offsets->optHeaders")
Descriptors   == Ptr("secInfoHeader->descriptors")
Sections      == Ptr("peData->sections.section")
PeTables      == Ptr("peData->peImportInfo.tables")
Name(k)       == <<"tables.name", k>>
Imports(k)    == <<"tables.imports", k>>
OptEntry      == Ptr("optHeaderEntries->optHeaderEntry")
ImportTables  == Ptr("optHeaders->importLibraries.importTables")
NameTable     == Ptr("optHeaders->importLibraries.nameTable")
Addresses(k)  == <<"importTables.addresses", k>>

Names == {Name(k) : k \in Tables}
AllImports == {Imports(k) : k \in Tables}
AllAddresses == {Addresses(k) : k \in Tables}

Strings == {Ptr("pePath"), Ptr("xexfilePath"), Ptr("basefilePath")}

Pointers == Structs \cup Strings \cup Names \cup AllImports \cup AllAddresses
            \cup {OptOffsets, Descriptors, Sections, PeTables, OptEntry, ImportTables,
                  NameTable}

(* The memory each field lies in; main's own variables lie in none.        *)
Inside(p) ==
  CASE p = OptOffsets                   -> {Offsets}
    [] p = Descriptors                  -> {SecInfoHeader}
    [] p \in {Sections, PeTables}       -> {PeData}
    [] p \in Names \cup AllImports      -> {PeTables, PeData}
    [] p = OptEntry                     -> {OptEntries}
    [] p \in {ImportTables, NameTable}  -> {OptHeaders}
    [] p \in AllAddresses               -> {ImportTables, OptHeaders}
    [] OTHER                            -> {}

(***************************************************************************)
(* The heap: the pointers, the blocks no pointer leads to any more, and    *)
(* whether something was freed twice or reached through a pointer that     *)
(* leads nowhere.                                                          *)
(***************************************************************************)
VARIABLE heap

NullHeap == [ptr |-> [p \in Pointers |-> "null"], lost |-> {}, fault |-> FALSE]

Reachable(h, p) == \A q \in Inside(p) : h.ptr[q] = "live"

(* Allocate for every pointer of S; a block it still led to is lost.       *)
Alloc(h, S) ==
  [ptr   |-> [p \in Pointers |-> IF p \in S THEN "live" ELSE h.ptr[p]],
   lost  |-> h.lost \cup {p \in S : h.ptr[p] = "live"},
   fault |-> h.fault \/ \E p \in S : \E q \in Inside(p) \ S : h.ptr[q] # "live"]

(* Read or write what the pointers of S lead to.                           *)
Use(h, S) ==
  [h EXCEPT !.fault = @ \/ \E p \in S : h.ptr[p] # "live" \/ ~Reachable(h, p)]

(* Free what S leads to and leave the pointers as given; blocks inside     *)
(* what is freed are lost unless they were freed first.                    *)
FreeAndLeave(h, S, left) ==
  LET freed  == {p \in S : h.ptr[p] # "null"}
      inside == {p \in Pointers : Inside(p) \cap freed # {}}
  IN  [ptr   |-> [p \in Pointers |-> IF p \in inside THEN "null"
                                     ELSE IF p \in freed THEN left ELSE h.ptr[p]],
       lost  |-> h.lost \cup {p \in inside : h.ptr[p] = "live"},
       fault |-> h.fault \/ \E p \in S : h.ptr[p] = "dangling" \/ ~Reachable(h, p)]

nullAndFree(h, S) == FreeAndLeave(h, S, "null")

(* nullAndFree on a local copy of the pointer: the field keeps its value.  *)
FreeCopy(h, S) == FreeAndLeave(h, S, "dangling")

-----------------------------------------------------------------------------
(* Mutated form of freeOffsetsStruct: the array inside is forgotten.       *)
freeOffsetsOnly(h) == nullAndFree(h, {Offsets})

freeOffsetsStruct(h) ==
  IF h.ptr[Offsets] = "null" THEN h
  ELSE nullAndFree(nullAndFree(h, {OptOffsets}), {Offsets})

freeXexHeaderStruct(h) == nullAndFree(h, {XexHeader})

freeSecInfoHeaderStruct(h) ==
  IF h.ptr[SecInfoHeader] = "null" THEN h
  ELSE nullAndFree(FreeCopy(h, {Descriptors}), {SecInfoHeader})

freeSectionsStruct(h) == nullAndFree(h, {Sections})

(* Mutated form of freePeImportInfoStruct: the tables go first.            *)
freeTablesFirst(h) ==
  IF h.ptr[PeTables] = "null" THEN Use(h, {PeData})
  ELSE nullAndFree(nullAndFree(h, {PeTables}), Names \cup AllImports)

freePeImportInfoStruct(h) ==
  IF h.ptr[PeTables] = "null" THEN Use(h, {PeData})
  ELSE nullAndFree(nullAndFree(h, Names \cup AllImports), {PeTables})

freePeDataStruct(h) ==
  IF h.ptr[PeData] = "null" THEN h
  ELSE nullAndFree(freePeImportInfoStruct(freeSectionsStruct(h)), {PeData})

freeOptHeaderEntriesStruct(h) ==
  IF h.ptr[OptEntries] = "null" THEN h
  ELSE nullAndFree(nullAndFree(h, {OptEntry}), {OptEntries})

(* nameTable is freed through a copy that is never stored back.            *)
freeImportLibrariesStruct(h) ==
  LET named == FreeCopy(h, {NameTable})
  IN  IF h.ptr[ImportTables] = "null" THEN named
      ELSE nullAndFree(nullAndFree(named, AllAddresses), {ImportTables})

freeOptHeadersStruct(h) ==
  IF h.ptr[OptHeaders] = "null" THEN h
  ELSE nullAndFree(freeImportLibrariesStruct(h), {OptHeaders})

freeAllMainStructs(h) ==
  freeOptHeadersStruct(freeOptHeaderEntriesStruct(freePeDataStruct(
    freeSecInfoHeaderStruct(freeXexHeaderStruct(freeOffsetsStruct(h))))))

(***************************************************************************)
(* The functions by name, called with what main's structures hold.  Three  *)
(* are given the address of a part of peData or of optHeaders and never    *)
(* look whether the structure around it is there; one of these leaves      *)
(* nameTable as it was, to be freed again by the next call.                *)
(***************************************************************************)
FreeFunctions == {"offsets", "xexHeader", "secInfoHeader", "sections", "peImportInfo",
                  "peData", "optHeaderEntries", "importLibraries", "optHeaders", "all"}

Freed(f, h) ==
  CASE f = "offsets"          -> freeOffsetsStruct(h)
    [] f = "xexHeader"        -> freeXexHeaderStruct(h)
    [] f = "secInfoHeader"    -> freeSecInfoHeaderStruct(h)
    [] f = "sections"         -> freeSectionsStruct(h)
    [] f = "peImportInfo"     -> freePeImportInfoStruct(h)
    [] f = "peData"           -> freePeDataStruct(h)
    [] f = "optHeaderEntries" -> freeOptHeaderEntriesStruct(h)
    [] f = "importLibraries"  -> freeImportLibrariesStruct(h)
    [] f = "optHeaders"       -> freeOptHeadersStruct(h)
    [] f = "all"              -> freeAllMainStructs(h)

(* What their caller has to look for, as they do not.                      *)
MayCall(f, h) ==
  /\ f \in {"sections", "peImportInfo"} => h.ptr[PeData] # "null"
  /\ f = "importLibraries" => h.ptr[OptHeaders] # "null" /\ h.ptr[NameTable] = "null"

Called(f, h) == IF MayCall(f, h) THEN Freed(f, h) ELSE h

-----------------------------------------------------------------------------
(***************************************************************************)
(* Types of the heap.                                                      *)
(***************************************************************************)
HeapTypeOK ==
  /\ DOMAIN heap = {"ptr", "lost", "fault"}
  /\ heap.ptr \in [Pointers -> {"null", "live", "dangling"}]
  /\ heap.fault \in BOOLEAN

(***************************************************************************)
(* Nothing is freed twice, and nothing is reached through a pointer that   *)
(* leads nowhere, although parts of the structures are freed early, all    *)
(* are freed again at every exit, and several functions free a copy of the *)
(* pointer they were given.                                                *)
(***************************************************************************)
NoMemoryFault == ~heap.fault

(***************************************************************************)
(* With a caller that looks first (MayCall) any two of the functions may   *)
(* be called wherever main stands, the first one twice, and                *)
(* freeAllMainStructs still finishes the job: every array goes before the  *)
(* structure that leads to it, nothing is freed twice and nothing is left. *)
(***************************************************************************)
FreesInAnyOrder ==
  \A f, g \in FreeFunctions :
    LET h == freeAllMainStructs(Called(g, Called(f, Called(f, heap))))
    IN  /\ ~h.fault
        /\ h.lost = heap.lost
        /\ \A p \in Pointers \ Strings : h.ptr[p] = "null"

(***************************************************************************)
(* What the comment above the functions says instead (datastorage.c:37):   *)
(* "They can also be called individually, and it doesn't matter if you     *)
(* call them twice.  Each function checks if the struct going to be        *)
(* accessed is NULL".  So once main has its six structures, any two may be *)
(* called, the first one twice, and nothing is accessed that was freed.    *)
(* It is violated: freeSectionsStruct and freePeImportInfoStruct do not    *)
(* look whether peData is there, and freeImportLibrariesStruct frees       *)
(* nameTable a second time.                                                *)
(***************************************************************************)
CalledIndividually ==
  (\A s \in Structs : heap.ptr[s] = "live") =>
    \A f, g \in FreeFunctions : ~Freed(g, Freed(f, Freed(f, heap))).fault
=============================================================================
