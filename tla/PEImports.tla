----------------------------- MODULE PEImports -----------------------------
(***************************************************************************)
(* getdata/getimports.c: walking the import directory of a PE.  One file   *)
(* position serves three nested walks (directory entries, the chunks of a  *)
(* name, the entries of an IAT); RVAs become file offsets to get there,    *)
(* and file offsets become RVAs again for what is recorded.                *)
(*                                                                         *)
(* A file is a sequence of cells, and a cell is what one fread takes: an   *)
(* import directory entry, 16 bytes of a name, an IAT entry.               *)
(***************************************************************************)
EXTENDS DataStorage, Sequences

CONSTANTS
  PEs,                 \* the PE files considered
  baseAddr             \* peData->baseAddr

Blank           == <<"blank">>                  \* zeroes
IDT(name, iat)  == <<"idt", name, iat>>         \* RVAs of the name and of the IAT
NameChunk(ends) == <<"name", ends>>             \* does it hold the terminator?
ImportEntry(n)  == <<"import", n>>

IDTs == {"idt"} \X Nat \X Nat

SectionRecords == [rva : Nat, virtualSize : Nat, offset : Nat, rawSize : Nat]

(* The positions read from o on until a blank cell, which is the last.     *)
Walk(cells, o) ==
  {n \in o .. Len(cells) - 1 : \A m \in o .. n - 1 : cells[m + 1] # Blank}

(***************************************************************************)
(* A PE: its cells, its section table, and the RVA of its directory, 0 for *)
(* none.  validatePE has seen to it that raw data lies within the file.  A *)
(* cell has the kind it is read as: up to the blank one, the directory is  *)
(* made of entries.                                                        *)
(***************************************************************************)
ASSUME PEImportsAssumption ==
  /\ baseAddr \in Nat
  /\ \A pe \in PEs :
       /\ pe.idtRVA \in Nat
       /\ Len(pe.cells) \in Nat
       /\ pe.sections \in Seq(SectionRecords)
       /\ \A s \in DOMAIN pe.sections :
            pe.sections[s].offset + pe.sections[s].rawSize <= Len(pe.cells)
       /\ LET idt == rvaToOffset(pe.idtRVA, pe.sections)
          IN  idt > 0 => \A n \in Walk(pe.cells, idt) : pe.cells[n + 1] \in IDTs \cup {Blank}

VARIABLES
  step,                \* where getImports stands
  pe,
  pos,                 \* the position in the PE
  currentIDT,          \* the directory entry in hand
  savedOffset,         \* where the one after it is
  currentImport,       \* the IAT entry in hand
  tables,              \* peImportInfo->tables
  totalImportCount,
  ret

vars == <<step, pe, pos, currentIDT, savedOffset, currentImport, tables,
          totalImportCount, ret>>

Init ==
  /\ step = "start"
  /\ pe \in PEs
  /\ pos = 0 /\ savedOffset = 0
  /\ currentIDT = Blank /\ currentImport = Blank
  /\ tables = <<>> /\ totalImportCount = 0
  /\ ret = "none"

Return(r) == step' = "returned" /\ ret' = r

At(s) == step = s /\ UNCHANGED pe

(* Seek to an RVA and go on at s, or give up when no section has it.       *)
SeekRVA(rva, s) ==
  LET offset == rvaToOffset(rva, pe.sections)
  IN  \/ offset = 0 /\ Return("invalidRVA") /\ UNCHANGED pos
      \/ offset # 0 /\ pos' = offset /\ step' = s /\ UNCHANGED ret

AtCell == pos < Len(pe.cells)

Cell == pe.cells[pos + 1]

NoImports ==
  /\ At("start")
  /\ pe.idtRVA = 0
  /\ Return("success")
  /\ UNCHANGED <<pos, currentIDT, savedOffset, currentImport, tables, totalImportCount>>

SeekIDT ==
  /\ At("start")
  /\ pe.idtRVA # 0
  /\ SeekRVA(pe.idtRVA, "readIDT")
  /\ UNCHANGED <<currentIDT, savedOffset, currentImport, tables, totalImportCount>>

(* A blank entry ends the directory; any other begins a table.             *)
ReadIDT ==
  /\ At("readIDT")
  /\ AtCell
  /\ currentIDT' = Cell
  /\ pos' = pos + 1
  /\ savedOffset' = pos + 1
  /\ IF Cell = Blank
     THEN Return("success") /\ UNCHANGED tables
     ELSE /\ tables' = Append(tables, [rva |-> 0, imports |-> <<>>])
          /\ step' = "seekName" /\ UNCHANGED ret
  /\ UNCHANGED <<currentImport, totalImportCount>>

SeekName ==
  /\ At("seekName")
  /\ SeekRVA(currentIDT[2], "readName")
  /\ UNCHANGED <<currentIDT, savedOffset, currentImport, tables, totalImportCount>>

(* Mutated form of ReadNameChunk: the same chunk over and over.            *)
RereadNameChunk ==
  /\ At("readName")
  /\ AtCell
  /\ pos' = IF Cell[2] THEN pos + 1 ELSE pos
  /\ step' = IF Cell[2] THEN "seekIAT" ELSE "readName"
  /\ UNCHANGED <<currentIDT, savedOffset, currentImport, tables, totalImportCount, ret>>

(* 16 bytes at a time, until the terminator is among them.                 *)
ReadNameChunk ==
  /\ At("readName")
  /\ AtCell
  /\ pos' = pos + 1
  /\ step' = IF Cell[2] THEN "seekIAT" ELSE "readName"
  /\ UNCHANGED <<currentIDT, savedOffset, currentImport, tables, totalImportCount, ret>>

SeekIAT ==
  /\ At("seekIAT")
  /\ tables' = [tables EXCEPT ![Len(tables)].rva = currentIDT[3]]
  /\ SeekRVA(currentIDT[3], "readImport")
  /\ UNCHANGED <<currentIDT, savedOffset, currentImport, totalImportCount>>

ReadImport ==
  /\ At("readImport")
  /\ AtCell
  /\ currentImport' = Cell
  /\ pos' = pos + 1
  /\ step' = IF Cell = Blank THEN "endTable" ELSE "storeImport"
  /\ UNCHANGED <<currentIDT, savedOffset, tables, totalImportCount, ret>>

(* Mutated form of storedAt: the address of the entry after it.            *)
readUpTo == pos

(* Where the entry just read is in the file.                               *)
storedAt == pos - 1

StoreImport ==
  /\ At("storeImport")
  /\ LET rva == offsetToRVA(storedAt, pe.sections)
     IN  \/ rva = 0 /\ Return("invalidRVA") /\ UNCHANGED tables
         \/ /\ rva # 0
            /\ tables' = [tables EXCEPT ![Len(tables)].imports = Append(@, U32(baseAddr + rva))]
            /\ step' = "readImport" /\ UNCHANGED ret
  /\ UNCHANGED <<pos, currentIDT, savedOffset, currentImport, totalImportCount>>

(* Mutated form of EndTable: one directory entry too far.                  *)
EndTableTooFar ==
  /\ At("endTable")
  /\ totalImportCount' = totalImportCount + Len(tables[Len(tables)].imports)
  /\ pos' = savedOffset + 1
  /\ step' = "readIDT"
  /\ UNCHANGED <<currentIDT, savedOffset, currentImport, tables, ret>>

(* Back to the directory.                                                  *)
EndTable ==
  /\ At("endTable")
  /\ totalImportCount' = totalImportCount + Len(tables[Len(tables)].imports)
  /\ pos' = savedOffset
  /\ step' = "readIDT"
  /\ UNCHANGED <<currentIDT, savedOffset, currentImport, tables, ret>>

(* The end of the file where more was expected.                            *)
ReadFails ==
  /\ step \in {"readIDT", "readName", "readImport"}
  /\ ~AtCell
  /\ Return("fileRead")
  /\ UNCHANGED <<pe, pos, currentIDT, savedOffset, currentImport, tables, totalImportCount>>

(* malloc and realloc.                                                     *)
OutOfMemory ==
  /\ step \in {"start", "seekName", "readName"}
  /\ pe.idtRVA # 0
  /\ Return("outOfMem")
  /\ UNCHANGED <<pe, pos, currentIDT, savedOffset, currentImport, tables, totalImportCount>>

Step ==
  \/ NoImports \/ SeekIDT \/ ReadIDT \/ SeekName \/ ReadNameChunk \/ SeekIAT
  \/ ReadImport \/ StoreImport \/ EndTable \/ ReadFails

Next == Step \/ OutOfMemory \/ (step = "returned" /\ UNCHANGED vars)

(* One thread, which runs as long as it has a next step; no loop may rely  *)
(* on memory running out in the end.                                       *)
Spec == Init /\ [][Next]_vars /\ WF_vars(Step)

-----------------------------------------------------------------------------
(***************************************************************************)
(* Types of getImports' state.                                             *)
(***************************************************************************)
ImportsTypeOK ==
  /\ step \in {"start", "readIDT", "seekName", "readName", "seekIAT", "readImport",
               "storeImport", "endTable", "returned"}
  /\ pe \in PEs
  /\ pos \in Nat /\ savedOffset \in Nat /\ totalImportCount \in Nat
  /\ tables \in Seq([rva : Nat, imports : Seq(Nat)])
  /\ ret \in {"none", "success", "invalidRVA", "fileRead", "outOfMem"}

(***************************************************************************)
(* getimports.c:167, "Store the address of the current import entry in     *)
(* iatAddr": what is recorded for the n-th import of a table is the loaded *)
(* address of the n-th entry of its IAT, which is also the entry that      *)
(* xenonifyIAT rewrites, although it was found by translating the file     *)
(* position back to an RVA.                                                *)
(***************************************************************************)
AddressesRight ==
  \A t \in DOMAIN tables : \A n \in DOMAIN tables[t].imports :
    tables[t].imports[n] = baseAddr + tables[t].rva + n - 1

(***************************************************************************)
(* A reference reading of the file: the section that holds an RVA, and the *)
(* run of cells from there to the first blank one.                         *)
(***************************************************************************)
Holding(rva) == CHOOSE s \in DOMAIN pe.sections :
                  /\ pe.sections[s].rva <= rva
                  /\ rva < pe.sections[s].rva + pe.sections[s].rawSize

CellAt(rva) == LET s == pe.sections[Holding(rva)] IN pe.cells[s.offset + (rva - s.rva) + 1]

RunLength(rva) == CHOOSE n \in 0 .. Len(pe.cells) :
                    /\ CellAt(rva + n) = Blank
                    /\ \A m \in 0 .. n - 1 : CellAt(rva + m) # Blank

(***************************************************************************)
(* When getImports succeeds, no directory entry and no import was skipped  *)
(* or read twice, whichever section each part lies in: the tables are      *)
(* those of the directory, in order, each with its whole IAT, and the      *)
(* total that decides whether the XEX gets an import header is theirs.     *)
(***************************************************************************)
ImportsComplete ==
  ret = "success" =>
    IF pe.idtRVA = 0 THEN tables = <<>>
    ELSE /\ Len(tables) = RunLength(pe.idtRVA)
         /\ \A t \in DOMAIN tables :
              /\ tables[t].rva = CellAt(pe.idtRVA + t - 1)[3]
              /\ Len(tables[t].imports) = RunLength(tables[t].rva)
         /\ (totalImportCount > 0) =
              (\E t \in DOMAIN tables : RunLength(tables[t].rva) > 0)

(***************************************************************************)
(* Every walk through the directory comes to an end, by way of the blank   *)
(* entries or of the end of the file.                                      *)
(***************************************************************************)
Terminates == <>(step = "returned")
=============================================================================
