----------------------------- MODULE OptHeaders -----------------------------
(***************************************************************************)
(* setdata/optheaders.c, and setXEXHeader of setdata/populateheaders.c.    *)
(* setOptHeaders makes the entries of the optional headers, and in their   *)
(* midst setImportLibsInfo the import libraries, whose tables it fills     *)
(* from the last to the first.  Each is swapped to big endian in place,    *)
(* hashed as it will be in the file, swapped back, and its hash goes into  *)
(* the table before it, which is hashed later; the first table's goes into *)
(* the security header.  Then the names of the libraries are laid out one  *)
(* after another.                                                          *)
(***************************************************************************)
EXTENDS DataStorage, ImportNames

CONSTANTS
  Executables,           \* what getHdrData found, and the option -t
  PEImportTables         \* the values of peImportInfo->tables considered

(* A table of a PE: the library's name and the addresses of its imports.   *)
(* As many names as there may be tables, 16 bytes each, stay in 32 bits.   *)
ASSUME OptHeadersAssumption ==
  /\ \A exe \in Executables :
       /\ exe.dll \in BOOLEAN /\ exe.exportCount \in Nat
       /\ exe.baseAddr \in 0 .. Word - 1 /\ exe.entryPoint \in 0 .. Word - 1
       /\ exe.override \subseteq {"TITLE", "EXPORTS", "DLL"}
  /\ \A pe \in PEImportTables :
       /\ Len(pe) \in Nat /\ DOMAIN pe = 1 .. Len(pe)
       /\ \A t \in DOMAIN pe : pe[t].name \in Seq(STRING) /\ pe[t].imports \in Seq(Nat)
  /\ 16 * Short <= Word

VARIABLES
  step,                  \* where the functions stand
  littleEndian,          \* the host's byte order (LITTLE_ENDIAN_SYSTEM)
  exe,
  peTables,              \* peImportInfo->tables
  entries,               \* optHeaderEntries
  currentHeader,         \* setOptHeaders' index into them, from 1
  moduleFlags, optHeaderCount,   \* of the XEX header
  i,                     \* the table or the name in hand, from 1
  importTables,
  size, nameTableSize,   \* of importLibraries
  nameOffsets,
  nameTable,             \* the names that are whole in it
  importTableSha1,       \* of the security header
  context,               \* what the SHA-1 in hand has taken in
  swapped,               \* parts of tables that have been byte-swapped
  ret

inputs    == <<littleEndian, exe, peTables>>
xexHeader == <<moduleFlags, optHeaderCount>>
header    == <<size, nameTableSize, nameOffsets, nameTable>>
hashes    == <<importTableSha1, context, swapped>>
libraries == <<i, importTables, header, hashes>>

vars == <<step, inputs, entries, currentHeader, xexHeader, libraries, ret>>

Zeroes == <<>>                              \* a hash field as calloc leaves it

BlankTable == [tableIndex |-> 0, targetVer |-> Zeroes, minimumVer |-> Zeroes, unknown |-> Zeroes,
               addressCount |-> 0, addresses |-> <<>>, size |-> 0, sha1 |-> Zeroes]

BlankEntry == [id |-> 0, dataOrOffset |-> 0]

Init ==
  /\ step = "entries"
  /\ littleEndian \in BOOLEAN /\ exe \in Executables /\ peTables \in PEImportTables
  /\ entries = <<>> /\ currentHeader = 1
  /\ moduleFlags = exe.override /\ optHeaderCount = 0
  /\ i = Len(peTables) /\ importTables = <<>>
  /\ size = 0 /\ nameTableSize = 0 /\ nameOffsets = <<>> /\ nameTable = {}
  /\ importTableSha1 = Zeroes /\ context = Zeroes /\ swapped = {}
  /\ ret = "none"

At(s) == step = s /\ UNCHANGED <<inputs, xexHeader>>

(* Where setImportLibsInfo stands.                                         *)
InLibs(s) == At(s) /\ UNCHANGED <<entries, currentHeader>>

Goto(s) == step' = s /\ UNCHANGED ret

Return(r) == step' = "returned" /\ ret' = r

(* ret is set once, before anything is allocated: a failing calloc gives   *)
(* the same error as a bad name.                                           *)
Cleanup == Return("invalidImportName")

-----------------------------------------------------------------------------
(* setOptHeaders, up to the import libraries.                              *)
importsPresent == \E t \in DOMAIN peTables : peTables[t].imports # <<>>

SystemFlags == 1                            \* the same for every XEX

Entry(id, dataOrOffset) == [id |-> id, dataOrOffset |-> dataOrOffset]

BeginEntries ==
  LET count == IF importsPresent THEN 5 ELSE 4
  IN  /\ At("entries")
      /\ \/ /\ entries' = [[k \in 1 .. count |-> BlankEntry]
                              EXCEPT ![1] = Entry(XEX_OPT_ID_BASEFILE_FORMAT, 0),
                                     ![2] = Entry(XEX_OPT_ID_ENTRYPOINT,
                                                  U32(exe.baseAddr + exe.entryPoint))]
            /\ currentHeader' = 3
            /\ Goto(IF importsPresent THEN "importEntry" ELSE "lastEntries")
         \/ Return("outOfMem") /\ UNCHANGED <<entries, currentHeader>>
      /\ UNCHANGED libraries

SetImportEntry ==
  /\ At("importEntry")
  /\ entries' = [entries EXCEPT ![currentHeader].id = XEX_OPT_ID_IMPORT_LIBS]
  /\ Goto("allocTables")
  /\ UNCHANGED <<currentHeader, libraries>>

-----------------------------------------------------------------------------
(* setImportLibsInfo.                                                      *)
(* Mutated form of MostTables: one table too many.                         *)
ShortOfTables == Short

MostTables == Short - 1

(* The count is checked after the allocation.                              *)
AllocTables ==
  /\ InLibs("allocTables")
  /\ \/ /\ importTables' = [t \in DOMAIN peTables |-> BlankTable]
        /\ IF Len(peTables) > MostTables THEN Return("outOfMem") ELSE Goto("allocNames")
     \/ Return("outOfMem") /\ UNCHANGED importTables
  /\ UNCHANGED <<i, header, hashes>>

AllocNames ==
  /\ InLibs("allocNames")
  /\ size' = SizeofImportLibraries + nameTableSize
  /\ Goto("table") \/ Cleanup
  /\ UNCHANGED <<i, importTables, nameTableSize, nameOffsets, nameTable, hashes>>

FileName(t) == Tokens(peTables[t].name)[1]

(* The index, and the name read into versions.  The name is gone in memory *)
(* from here on, but for the library's, which is at its start.             *)
BeginTable ==
  LET name == peTables[i].name
  IN  /\ InLibs("table")
      /\ i > 0
      /\ importTables' = [importTables EXCEPT
           ![i].tableIndex = (i - 1) % Byte,
           ![i].targetVer  = IF Accepted(name) THEN TargetVersion(name) ELSE @,
           ![i].minimumVer = IF Accepted(name) THEN MinimumVersion(name) ELSE @,
           ![i].unknown    = IF Accepted(name) THEN FileName(i) ELSE @]
      /\ IF Accepted(name) THEN Goto("addresses") ELSE Cleanup
  /\ UNCHANGED <<i, header, hashes>>

(* What 16 bits keep of the number of imports.                             *)
importsCounted == Len(peTables[i].imports) % Short

FillTable ==
  LET tableSize == SizeofImportTable + 4 * importsCounted
  IN  /\ importTables' = [importTables EXCEPT
            ![i].addressCount = importsCounted,
            ![i].addresses = SubSeq(peTables[i].imports, 1, importsCounted),
            ![i].size = tableSize]
      /\ size' = U32(size + tableSize)
      /\ Goto("hash")

(* Mutated form of AllFit: the loop stops where the count does.            *)
AnyFit == TRUE

(* The loop over the imports notices when it runs past addressCount.       *)
AllFit == importsCounted = Len(peTables[i].imports)

(* A calloc of no addresses may give NULL, as any may.                     *)
SetAddresses ==
  /\ InLibs("addresses")
  /\ \/ AllFit /\ FillTable
     \/ /\ importTables' = [importTables EXCEPT ![i].addressCount = importsCounted]
        /\ UNCHANGED size /\ Cleanup
  /\ UNCHANGED <<i, nameTableSize, nameOffsets, nameTable, hashes>>

Parts(t) == {<<t, "fields">>, <<t, "addresses">>}

(* Swapping twice gives the native order back.                             *)
Swapped(parts) ==
  IF littleEndian THEN (swapped \ parts) \cup (parts \ swapped) ELSE swapped

(* A table but for its size, as bytes: its contents and their byte order.  *)
Bytes(t, swappedParts) ==
  [contents  |-> [importTables[t] EXCEPT !.size = 0],
   bigEndian |-> [part \in {"fields", "addresses"} |->
                    (<<t, part>> \in swappedParts) = littleEndian]]

HashTable ==
  /\ InLibs("hash")
  /\ swapped' = Swapped(Parts(i))
  /\ context' = Bytes(i, swapped')
  /\ Goto("digest")
  /\ UNCHANGED <<i, importTables, header, importTableSha1>>

StoreDigest(parts) ==
  /\ InLibs("digest")
  /\ swapped' = Swapped(parts)
  /\ IF i > 1
     THEN /\ importTables' = [importTables EXCEPT ![i - 1].sha1 = <<context>>]
          /\ UNCHANGED importTableSha1
     ELSE importTableSha1' = <<context>> /\ UNCHANGED importTables
  /\ i' = i - 1
  /\ Goto("table")
  /\ UNCHANGED <<header, context>>

(* Mutated form of DigestTable: the addresses are not swapped back.        *)
DigestWithoutAddresses == StoreDigest({<<i, "fields">>})

(* Back to native order, and the hash into the table before.               *)
DigestTable == StoreDigest(Parts(i))

-----------------------------------------------------------------------------
AllocOffsets ==
  /\ InLibs("table")
  /\ i = 0
  /\ \/ Goto("placeNames") /\ i' = 1
     \/ Cleanup /\ UNCHANGED i
  /\ UNCHANGED <<importTables, header, hashes>>

(* Mutated form of bytesOfName: the terminator is not counted.              *)
bytesWithoutEnd(t) == strlen(FileName(t))

bytesOfName(t) == strlen(FileName(t)) + 1

PlaceName ==
  /\ InLibs("placeNames")
  /\ i <= Len(peTables)
  /\ nameOffsets' = Append(nameOffsets, nameTableSize)
  /\ nameTableSize' = U32(nameTableSize + getNextAligned(bytesOfName(i), 4))
  /\ i' = i + 1
  /\ UNCHANGED <<step, importTables, size, nameTable, hashes, ret>>

(* Mutated form of AllocNameTable: the names are not added to the size.    *)
AllocNameTableOnly ==
  /\ InLibs("placeNames")
  /\ i > Len(peTables)
  /\ Goto("copyNames") /\ i' = 1
  /\ UNCHANGED <<importTables, header, hashes>>

AllocNameTable ==
  /\ InLibs("placeNames")
  /\ i > Len(peTables)
  /\ size' = U32(size + nameTableSize)
  /\ \/ Goto("copyNames") /\ i' = 1
     \/ Cleanup /\ UNCHANGED i
  /\ UNCHANGED <<importTables, nameTableSize, nameOffsets, nameTable, hashes>>

(* strcpy, terminator and all, which destroys what it overlaps.            *)
CopyName ==
  /\ InLibs("copyNames")
  /\ i <= Len(peTables)
  /\ LET new == [name |-> i, at |-> nameOffsets[i], len |-> strlen(FileName(i)) + 1]
     IN  nameTable' = {old \in nameTable : \/ old.at + old.len <= new.at
                                           \/ new.at + new.len <= old.at} \cup {new}
  /\ i' = i + 1
  /\ UNCHANGED <<step, importTables, size, nameTableSize, nameOffsets, hashes, ret>>

(* Mutated form of FinishLibraries: the entry is not counted.              *)
FinishWithoutCounting ==
  /\ At("copyNames")
  /\ i > Len(peTables)
  /\ Goto("lastEntries")
  /\ UNCHANGED <<entries, currentHeader, libraries>>

(* Success, and back in setOptHeaders.                                     *)
FinishLibraries ==
  /\ At("copyNames")
  /\ i > Len(peTables)
  /\ currentHeader' = currentHeader + 1
  /\ Goto("lastEntries")
  /\ UNCHANGED <<entries, libraries>>

-----------------------------------------------------------------------------
(* The rest of setOptHeaders, and setXEXHeader, which keeps the type of    *)
(* module that was asked for.                                              *)
SetLastEntries ==
  /\ At("lastEntries")
  /\ entries' = [entries EXCEPT ![currentHeader].id = XEX_OPT_ID_TLS_INFO,
                                ![currentHeader + 1] = Entry(XEX_OPT_ID_SYS_FLAGS, SystemFlags)]
  /\ currentHeader' = currentHeader + 1
  /\ Goto("xexHeader")
  /\ UNCHANGED libraries

SetXEXHeader ==
  /\ step = "xexHeader"
  /\ moduleFlags' = IF moduleFlags # {} THEN moduleFlags
                    ELSE {IF exe.dll THEN "DLL" ELSE "TITLE"}
                         \cup {f \in {"EXPORTS"} : exe.exportCount > 0}
  /\ optHeaderCount' = Len(entries)
  /\ Return("success")
  /\ UNCHANGED <<inputs, entries, currentHeader, libraries>>

Next ==
  \/ BeginEntries \/ SetImportEntry
  \/ AllocTables \/ AllocNames \/ BeginTable \/ SetAddresses \/ HashTable \/ DigestTable
  \/ AllocOffsets \/ PlaceName \/ AllocNameTable \/ CopyName \/ FinishLibraries
  \/ SetLastEntries \/ SetXEXHeader
  \/ step = "returned" /\ UNCHANGED vars

Spec == Init /\ [][Next]_vars

-----------------------------------------------------------------------------
(***************************************************************************)
(* Types of the state of setOptHeaders and setImportLibsInfo.              *)
(***************************************************************************)
OptHeadersTypeOK ==
  /\ step \in {"entries", "importEntry", "allocTables", "allocNames", "table", "addresses",
               "hash", "digest", "placeNames", "copyNames", "lastEntries", "xexHeader",
               "returned"}
  /\ littleEndian \in BOOLEAN /\ exe \in Executables /\ peTables \in PEImportTables
  /\ step # "returned" => Len(entries) = IF step = "entries" THEN 0
                                         ELSE IF importsPresent THEN 5 ELSE 4
  /\ currentHeader \in 1 .. 5
  /\ moduleFlags \subseteq {"TITLE", "EXPORTS", "DLL"} /\ optHeaderCount \in 0 .. 5
  /\ i \in 0 .. Len(peTables) + 1
  /\ step \in {"allocNames", "table", "addresses", "hash", "digest", "placeNames",
               "copyNames"} => Len(importTables) \in 1 .. Short - 1
  /\ \A t \in DOMAIN importTables :
       /\ importTables[t].tableIndex \in 0 .. Byte - 1
       /\ importTables[t].addressCount \in 0 .. Short - 1
       /\ importTables[t].addresses \in Seq(Nat)
  /\ size \in 0 .. Word - 1 /\ nameTableSize \in 0 .. Word - 1
  /\ nameOffsets \in Seq(Nat)
  /\ ret \in {"none", "success", "outOfMem", "invalidImportName"}

Succeeded == ret = "success"

(* What holds of the import libraries once there are any.                  *)
LibrariesBuilt == Succeeded /\ importsPresent

(* A table as writeXEX puts it into the file, after a swap of its own.     *)
InFile(t) == Bytes(t, Swapped(UNION {Parts(u) : u \in DOMAIN importTables}))

(***************************************************************************)
(* A loader that walks the tables of the file forwards finds each with the *)
(* hash that the table before it (for the first, the security header)      *)
(* gives, on either kind of host, although the hashes were taken backwards,*)
(* before the tables went into the file, and of memory swapped in place.   *)
(***************************************************************************)
TableHashesVerify ==
  LibrariesBuilt =>
    /\ importTableSha1 = <<InFile(1)>>
    /\ \A t \in DOMAIN importTables \ {1} : importTables[t - 1].sha1 = <<InFile(t)>>
    /\ \A t \in DOMAIN importTables : \A p \in {"fields", "addresses"} : InFile(t).bigEndian[p]

(***************************************************************************)
(* The size of the header, from which the placer computes where it starts, *)
(* is the number of bytes the writer then writes: its own fields, the      *)
(* names, and each table with its addresses; and by the size, as the       *)
(* writer does, one can tell whether there are any.  This is all that the  *)
(* model of the writer assumes of the libraries.                           *)
(***************************************************************************)
SizeIsWhatIsWritten ==
  Succeeded =>
    /\ LibrariesAsBuilt([size          |-> size,
                         tableCount    |-> Len(importTables),
                         nameTableSize |-> nameTableSize,
                         addressCounts |-> [t \in DOMAIN importTables |->
                                              importTables[t].addressCount]])
    /\ importsPresent <=> size > 0

(***************************************************************************)
(* No import is dropped: a PE with more imports in a table than 16 bits    *)
(* can count is refused, by a loop that compares a 16-bit counter with a   *)
(* 32-bit count.  And the 8-bit index of each table is the one xenonifyIAT *)
(* writes into that table's entries of the IAT (ModuleIndex, IATXenonified *)
(* of PEMapper), by which the loader goes from an entry to its library.    *)
(***************************************************************************)
EveryImportListed ==
  LibrariesBuilt =>
    \A t \in DOMAIN peTables : /\ importTables[t].tableIndex = ModuleIndex(t, Byte)
                               /\ importTables[t].addresses = peTables[t].imports
                               /\ importTables[t].addressCount = Len(peTables[t].imports)

(***************************************************************************)
(* Walking the name table from its start, each name ending in its null and *)
(* the next on the next multiple of 4, gives the names of the libraries in *)
(* the order of their tables, whole, and ends where the name table does.   *)
(***************************************************************************)
NameAt[t \in 1 .. Len(peTables) + 1] ==
  IF t = 1 THEN 0
  ELSE NameAt[t - 1] + getNextAligned(strlen(FileName(t - 1)) + 1, 4)

NamesFound ==
  LibrariesBuilt =>
    /\ nameTable = {[name |-> t, at |-> NameAt[t], len |-> strlen(FileName(t)) + 1] :
                      t \in DOMAIN peTables}
    /\ nameTableSize = NameAt[Len(peTables) + 1]

(***************************************************************************)
(* The versions in a table are the numbers that stand in its name, cut to  *)
(* 16 and 8 bits, although strtok and strtoul let more pass than a name is *)
(* supposed to be (extra delimiters, signs); and no name of the right form *)
(* is refused.  A minus is taken for one, and makes another number.        *)
(***************************************************************************)
VersionsAsNamed ==
  /\ \A t \in DOMAIN peTables : WellFormed(peTables[t].name) => Accepted(peTables[t].name)
  /\ LibrariesBuilt =>
       \A t \in DOMAIN peTables :
         LET runs  == RunsOfDigits(peTables[t].name)
             table == importTables[t]
         IN  ~Contains(peTables[t].name, "-") =>
               <<table.targetVer.build, table.targetVer.hotfix,
                 table.minimumVer.build, table.minimumVer.hotfix>>
                 = <<ValueOf(runs[1]) % Short, ValueOf(runs[2]) % Byte,
                     ValueOf(runs[3]) % Short, ValueOf(runs[4]) % Byte>>

(***************************************************************************)
(* optheaders.c:315: "Make sure that these headers are handled IN ORDER OF *)
(* ID.  The loader will reject the XEX if they are not."  Every entry that *)
(* is counted is filled in and they ascend; they are those that the models *)
(* of the placer and the writer start from; and the tables, by which these *)
(* tell whether there are any libraries, agree with the total by which     *)
(* setOptHeaders does.                                                     *)
(***************************************************************************)
EntriesAscend ==
  Succeeded =>
    LET ids == [k \in 1 .. optHeaderCount |-> entries[k].id]
    IN  /\ optHeaderCount > 0 /\ ids[1] # 0
        /\ \A k \in 2 .. optHeaderCount : ids[k - 1] < ids[k]
        /\ ids = OptHeaderIds([tableCount |-> Len(importTables)])
        /\ importsPresent <=> importTables # <<>>
=============================================================================
