------------------------------ MODULE PEMapper ------------------------------
(***************************************************************************)
(* pemapper/pemapper.c, with setSecInfoHeader (setdata/populateheaders.c)  *)
(* and setdata/pagedescriptors.c: mapPEToBasefile lays the sections of the *)
(* PE out at their RVAs in the basefile, xenonifyIAT rewrites the import   *)
(* addresses in place, and setPageDescriptors chains the hashes of the     *)
(* pages together from the last to the first.                              *)
(*                                                                         *)
(* A file is a function from positions to cells.  A cell is a byte that    *)
(* nothing looks into, or a whole 32-bit IAT entry, or the 16-bit hint in  *)
(* front of an import name.                                                *)
(***************************************************************************)
EXTENDS DataStorage, Sequences, SequencesExt

CONSTANTS
  SmallPage, LargePage,  \* 4 KiB and 64 KiB in the program, in cells
  Byte,                  \* 2^8
  Numbers,               \* what bytes that are not an entry or a hint may read as
  PEs                    \* the PE files considered

-----------------------------------------------------------------------------
Zero == <<"zero", 0>>
Data(s, o)          == <<"byte", s, o>>
Ordinal(n)          == <<"ordinal", n>>        \* the top bit is PE_IMPORT_ORDINAL_FLAG
NameRVA(rva)        == <<"nameRVA", rva>>
Hint(n)             == <<"hint", n>>
Xenonified(t, n)    == <<"xenonified", t, n>>  \* n | t << 16, in big endian

Cell == ({"zero", "ordinal", "nameRVA", "hint"} \X Nat) \cup ({"byte"} \X Nat \X Nat)

Section == [rva : Nat, virtualSize : Nat, rawSize : Nat, offset : Nat, permFlag : STRING]

ImportTable == [rva : Nat, importCount : Nat]

SectionEnd(s) == s.rva + IF s.virtualSize > s.rawSize THEN s.virtualSize ELSE s.rawSize

Raw(s) == s.rva .. s.rva + s.rawSize - 1

(* Where the data of a PE's image ends, and the IAT entries of its tables. *)
DataEndOf(p) == Last(p.sections).rva + Last(p.sections).rawSize

IATOf(p) == UNION {p.tables[t].rva .. p.tables[t].rva + p.tables[t].importCount - 1 :
                     t \in DOMAIN p.tables}

(***************************************************************************)
(* A PE, as validatePE, getHdrData and getImports have read it: pageSize,  *)
(* headerLen (headerSize + sectionTableSize), sections (rva, virtualSize,  *)
(* rawSize, offset and permFlag), the import tables (rva of the IAT and    *)
(* importCount), and the cells of the file.  Sections start on page        *)
(* boundaries past the header and do not overlap, the last of the table is *)
(* the highest, and the image fits in 32 bits.  An IAT is not in front of  *)
(* the sections (getImports finds no RVA there); otherwise it may be       *)
(* anywhere, in one with another or over what is not an IAT at all.        *)
(***************************************************************************)
ASSUME PEMapperAssumption ==
  /\ SmallPage \in Nat \ {0, 1} /\ LargePage \in Nat \ {0, 1, SmallPage}
  /\ Byte \in Nat \ {0} /\ Numbers \subseteq Nat
  /\ \A pe \in PEs :
       /\ pe.pageSize \in {SmallPage, LargePage}
       /\ pe.cells \in Seq(Cell)
       /\ pe.headerLen \in 1 .. pe.pageSize /\ pe.headerLen <= Len(pe.cells)
       /\ pe.sections \in Seq(Section) /\ pe.sections # <<>>
       /\ pe.tables \in Seq(ImportTable)
       /\ \A s \in DOMAIN pe.sections :
            LET section == pe.sections[s]
            IN  /\ section.rva % pe.pageSize = 0 /\ section.rva >= pe.pageSize
                /\ section.offset + section.rawSize <= Len(pe.cells)
                /\ \A r \in DOMAIN pe.sections \ {s} :
                     \/ SectionEnd(pe.sections[r]) <= section.rva
                     \/ SectionEnd(section) <= pe.sections[r].rva
                /\ SectionEnd(section) <= SectionEnd(Last(pe.sections))
                /\ SectionEnd(section) + pe.pageSize <= Word
       /\ \A a \in IATOf(pe) : a >= pe.pageSize

VARIABLES
  step,                \* where the three functions stand
  littleEndian,        \* the host's byte order (LITTLE_ENDIAN_SYSTEM)
  pe,                  \* the PE file
  basefile,            \* the basefile
  pos, lastOp,         \* its file position, and the last kind of call on it
  disciplined,         \* no read ever followed a write without a seek, or the reverse
  i, j,                \* section or table, and import, in hand
  entry, savedPos,     \* xenonifyIAT: the entry in hand, and where it came from
  size,                \* peData->size, then secInfoHeader->peSize
  imageFlags, pageDescCount, headerSize, descriptors, imageSha1,   \* secInfoHeader
  swapped,             \* the descriptors whose sizeAndInfo has been byte-swapped
  context,             \* what the SHA-1 in hand has taken in
  ret

vars == <<step, littleEndian, pe, basefile, pos, lastOp, disciplined, i, j, entry, savedPos,
          size, imageFlags, pageDescCount, headerSize, descriptors, imageSha1, swapped, context,
          ret>>

inputs      == <<littleEndian, pe>>
files       == <<basefile, pos, lastOp, disciplined>>
iatVars     == <<entry, savedPos>>
hashVars    == <<descriptors, imageSha1, swapped, context>>
secInfoVars == <<imageFlags, pageDescCount, headerSize, hashVars>>

-----------------------------------------------------------------------------
RoData == "rodata"     \* permissions of the PE header

FileSize(f) == Cardinality(DOMAIN f)

(* Writing past the end fills the gap with zeroes.                         *)
Put(f, at, cells) ==
  LET end == at + Len(cells)
  IN  IF cells = <<>> THEN f
      ELSE [p \in DOMAIN f \cup 0 .. end - 1 |->
              IF p >= at /\ p < end THEN cells[p - at + 1]
              ELSE IF p \in DOMAIN f THEN f[p] ELSE Zero]

(***************************************************************************)
(* Calls on the basefile.  C lets a read follow a write, or a write a      *)
(* read, only with a positioning call in between.                          *)
(***************************************************************************)
Read  == disciplined' = (disciplined /\ lastOp # "write")
Write(at, cells) ==
  /\ disciplined' = (disciplined /\ lastOp # "read")
  /\ basefile' = Put(basefile, at, cells)

Init ==
  /\ step = "sectionInfo"
  /\ littleEndian \in BOOLEAN /\ pe \in PEs
  /\ basefile = <<>> /\ pos = 0 /\ lastOp = "seek" /\ disciplined = TRUE
  /\ i = 1 /\ j = 1
  /\ entry = 0 /\ savedPos = 0
  /\ size = Len(pe.cells)
  /\ imageFlags = {} /\ pageDescCount = 0 /\ headerSize = 0
  /\ descriptors = <<>> /\ imageSha1 = <<>> /\ swapped = {} /\ context = <<>>
  /\ ret = "none"

At(s) == step = s /\ UNCHANGED <<inputs, ret>>

-----------------------------------------------------------------------------
(* mapPEToBasefile.                                                        *)
ReadSectionInfo ==
  /\ At("sectionInfo")
  /\ step' = "header"
  /\ UNCHANGED <<files, i, j, iatVars, size, secInfoVars>>

CopyHeader ==
  /\ At("header")
  /\ Write(0, SubSeq(pe.cells, 1, pe.headerLen))
  /\ pos' = pe.headerLen /\ lastOp' = "write"
  /\ step' = "sections"
  /\ UNCHANGED <<i, j, iatVars, size, secInfoVars>>

MapSection ==
  /\ At("sections")
  /\ i <= Len(pe.sections)
  /\ LET s == pe.sections[i]
     IN  /\ basefile' = Put(basefile, s.rva,
                            SubSeq(pe.cells, s.offset + 1, s.offset + s.rawSize))
         /\ pos' = s.rva + s.rawSize
  /\ lastOp' = "write"
  /\ i' = i + 1
  /\ UNCHANGED <<step, disciplined, j, iatVars, size, secInfoVars>>

(* A single zero at the end of the final page, and the basefile's size.    *)
PadFinalPage ==
  /\ At("sections")
  /\ i > Len(pe.sections)
  /\ LET nextAligned == getNextAligned(pos, pe.pageSize) - 1
     IN  IF nextAligned # pos
         THEN /\ basefile' = Put(basefile, nextAligned, <<Zero>>)
              /\ pos' = nextAligned + 1
              /\ size' = nextAligned + 1
         ELSE /\ size' = pos
              /\ UNCHANGED <<basefile, pos>>
  /\ i' = 1
  /\ step' = "seekTable"
  /\ UNCHANGED <<lastOp, disciplined, j, iatVars, secInfoVars>>

-----------------------------------------------------------------------------
(* xenonifyIAT.                                                            *)
SeekTable ==
  /\ At("seekTable")
  /\ i <= Len(pe.tables)
  /\ pos' = pe.tables[i].rva /\ lastOp' = "seek"
  /\ j' = 1
  /\ step' = "readEntry"
  /\ UNCHANGED <<basefile, disciplined, i, iatVars, size, secInfoVars>>

(***************************************************************************)
(* What get32BitFromPE makes of four bytes: the entry they are, or, when   *)
(* they are anything else (an entry that another table has had rewritten,  *)
(* data, a gap), any entry.  A name RVA past the end is one at the end,    *)
(* where nothing can be read.                                              *)
(***************************************************************************)
EntriesAt(f, p) ==
  IF f[p][1] \in {"ordinal", "nameRVA"} THEN {f[p]}
  ELSE {Ordinal(n) : n \in Numbers} \cup {NameRVA(rva) : rva \in 0 .. FileSize(f)}

(* And get16BitFromPE of two.                                              *)
HintsAt(f, p) == IF f[p][1] = "hint" THEN {f[p][2]} ELSE Numbers

ReadEntry ==
  /\ At("readEntry")
  /\ j <= pe.tables[i].importCount
  /\ pos \in DOMAIN basefile
  /\ Read
  /\ lastOp' = "seek"
  /\ UNCHANGED <<basefile, i, j, size, secInfoVars>>

(* By ordinal: back to the entry, and strip the flag.                      *)
ReadOrdinal ==
  /\ ReadEntry
  /\ \E e \in EntriesAt(basefile, pos) : e[1] = "ordinal" /\ entry' = e[2]
  /\ step' = "writeEntry"
  /\ UNCHANGED <<pos, savedPos>>

(* By name: off to the name.                                               *)
ReadNameRVA ==
  /\ ReadEntry
  /\ savedPos' = pos
  /\ \E e \in EntriesAt(basefile, pos) : e[1] = "nameRVA" /\ pos' = e[2]
  /\ step' = "readHint"
  /\ UNCHANGED entry

(* Mutated form of ReadHint: stays at the name.                            *)
ReadHintAndStay ==
  /\ At("readHint")
  /\ pos \in DOMAIN basefile
  /\ Read
  /\ entry' \in HintsAt(basefile, pos)
  /\ lastOp' = "seek"
  /\ step' = "writeEntry"
  /\ UNCHANGED <<basefile, pos, i, j, savedPos, size, secInfoVars>>

(* The hint in front of the name is the ordinal; back to the entry.        *)
ReadHint ==
  /\ At("readHint")
  /\ pos \in DOMAIN basefile
  /\ Read
  /\ entry' \in HintsAt(basefile, pos)
  /\ pos' = savedPos /\ lastOp' = "seek"
  /\ step' = "writeEntry"
  /\ UNCHANGED <<basefile, i, j, savedPos, size, secInfoVars>>

(* Mutated form of WriteEntry: without the trailing seek.                  *)
WriteEntryOnly ==
  /\ At("writeEntry")
  /\ Write(pos, <<Xenonified((i - 1) % Byte, entry)>>)
  /\ pos' = pos + 1 /\ lastOp' = "write"
  /\ j' = j + 1
  /\ step' = "readEntry"
  /\ UNCHANGED <<i, iatVars, size, secInfoVars>>

(* The trailing seek goes nowhere, but lets the next read follow.          *)
WriteEntry ==
  /\ At("writeEntry")
  /\ Write(pos, <<Xenonified((i - 1) % Byte, entry)>>)
  /\ pos' = pos + 1 /\ lastOp' = "seek"
  /\ j' = j + 1
  /\ step' = "readEntry"
  /\ UNCHANGED <<i, iatVars, size, secInfoVars>>

NextTable ==
  /\ At("readEntry")
  /\ j > pe.tables[i].importCount
  /\ i' = i + 1
  /\ step' = "seekTable"
  /\ UNCHANGED <<files, j, iatVars, size, secInfoVars>>

(* The last table is done; setSecInfoHeader follows in main.               *)
SetSecInfoHeader ==
  /\ At("seekTable")
  /\ i > Len(pe.tables)
  /\ imageFlags' = {f \in {"4KIB_PAGES"} : pe.pageSize = SmallPage}
  /\ pageDescCount' = size \div pe.pageSize
  /\ headerSize' = pageDescCount' * SizeofPageDescriptor + SizeofSecInfoHeader
  /\ step' = "calloc"
  /\ UNCHANGED <<files, i, j, iatVars, size, hashVars>>

-----------------------------------------------------------------------------
(* setPageDescriptors.  The page size is recovered from the page count.    *)
pageSize == size \div pageDescCount

(* calloc for descriptors 0 to last, and the loop starts down from the end.*)
Describe(last) ==
  /\ At("calloc")
  /\ descriptors' = [d \in 0 .. last |-> [info |-> "none", sha1 |-> <<>>]]
  /\ i' = pageDescCount - 1
  /\ step' = "descriptors"
  /\ UNCHANGED <<files, j, iatVars, size, imageFlags, pageDescCount, headerSize, imageSha1,
                 swapped, context>>

(* Mutated form of AllocDescriptors: one descriptor too many.              *)
AllocOneMore == Describe(pageDescCount)

AllocDescriptors == Describe(pageDescCount - 1)

(* Mutated form of getRwx: a section does not own its first page.          *)
RwxAfter(page) ==
  LET below == {s \in DOMAIN pe.sections : pe.sections[s].rva < page * pageSize}
  IN  IF below = {} THEN RoData
      ELSE pe.sections[CHOOSE s \in below : \A r \in below : r <= s].permFlag

(* The last section that starts at or before the page, or the PE header.   *)
getRwx(page) ==
  LET below == {s \in DOMAIN pe.sections : pe.sections[s].rva <= page * pageSize}
  IN  IF below = {} THEN RoData
      ELSE pe.sections[CHOOSE s \in below : \A r \in below : r <= s].permFlag

PageCells(f, page, len) == [o \in 1 .. len |-> f[page * len + o - 1]]

(* Swapping twice gives the native order back.                             *)
Swapped(which) ==
  IF littleEndian THEN (swapped \ which) \cup (which \ swapped) ELSE swapped

BigEndian(d, swappedDescriptors) == (d \in swappedDescriptors) = littleEndian

(* SHA-1 over a page and its descriptor, taken to be injective: sizeAndInfo*)
(* goes in with the byte order it has in memory.                           *)
Digest(cells, descriptor, bigEndian) ==
  <<cells, descriptor.info, bigEndian, descriptor.sha1>>

(* The permissions, the swap to big endian, and the hash.                  *)
HashPage ==
  /\ At("descriptors")
  /\ i >= 0
  /\ (i + 1) * pageSize <= FileSize(basefile)
  /\ descriptors' = [descriptors EXCEPT ![i].info = getRwx(i)]
  /\ swapped' = Swapped({i})
  /\ context' = Digest(PageCells(basefile, i, pageSize), descriptors'[i], BigEndian(i, swapped'))
  /\ pos' = (i + 1) * pageSize /\ lastOp' = "read"
  /\ step' = "digest"
  /\ UNCHANGED <<basefile, disciplined, i, j, iatVars, size, imageFlags, pageDescCount,
                 headerSize, imageSha1>>

StoreDigest(which) ==
  /\ At("digest")
  /\ swapped' = Swapped(which)
  /\ IF i # 0
     THEN descriptors' = [descriptors EXCEPT ![i - 1].sha1 = context] /\ UNCHANGED imageSha1
     ELSE imageSha1' = context /\ UNCHANGED descriptors
  /\ i' = i - 1
  /\ step' = "descriptors"
  /\ UNCHANGED <<files, j, iatVars, size, imageFlags, pageDescCount, headerSize, context>>

(* Mutated form of DigestPage: the descriptor is not swapped back.         *)
DigestOnly == StoreDigest({})

(* Back to native order, and the hash into the descriptor before.          *)
DigestPage == StoreDigest({i})

Succeed ==
  /\ step = "descriptors"
  /\ i < 0
  /\ step' = "done" /\ ret' = "success"
  /\ UNCHANGED <<inputs, files, i, j, iatVars, size, secInfoVars>>

(* An allocation, a read, a seek or a write fails, and the function that   *)
(* made the call returns at once.  A realloc to the raw size of an empty   *)
(* section may give NULL without failing, which counts as failing.         *)
Fail ==
  /\ step \notin {"digest", "done"}
  /\ step = "seekTable" => i <= Len(pe.tables)
  /\ step = "readEntry" => j <= pe.tables[i].importCount
  /\ step = "descriptors" => i >= 0
  /\ step' = "done" /\ ret' = "error"
  /\ UNCHANGED <<inputs, files, i, j, iatVars, size, secInfoVars>>

Next ==
  \/ ReadSectionInfo \/ CopyHeader \/ MapSection \/ PadFinalPage
  \/ SeekTable \/ ReadOrdinal \/ ReadNameRVA \/ ReadHint \/ WriteEntry \/ NextTable
  \/ SetSecInfoHeader \/ AllocDescriptors \/ HashPage \/ DigestPage \/ Succeed
  \/ Fail
  \/ step = "done" /\ UNCHANGED vars

Spec == Init /\ [][Next]_vars

-----------------------------------------------------------------------------
(***************************************************************************)
(* Types.                                                                  *)
(***************************************************************************)
MapperTypeOK ==
  /\ step \in {"sectionInfo", "header", "sections", "seekTable", "readEntry", "readHint",
               "writeEntry", "calloc", "descriptors", "digest", "done"}
  /\ littleEndian \in BOOLEAN /\ pe \in PEs
  /\ DOMAIN basefile = 0 .. FileSize(basefile) - 1
  /\ pos \in Nat /\ lastOp \in {"seek", "read", "write"} /\ disciplined \in BOOLEAN
  /\ step = "sections" => i \in 1 .. Len(pe.sections) + 1
  /\ step = "seekTable" => i \in 1 .. Len(pe.tables) + 1
  /\ step \in {"readEntry", "readHint", "writeEntry"} =>
       i \in 1 .. Len(pe.tables) /\ j \in 1 .. pe.tables[i].importCount + 1
  /\ step = "descriptors" => i \in -1 .. pageDescCount - 1
  /\ step = "digest" => i \in 0 .. pageDescCount - 1
  /\ size \in Nat /\ pageDescCount \in Nat /\ headerSize \in Nat
  /\ imageFlags \subseteq {"4KIB_PAGES"}
  /\ DOMAIN descriptors \in {{}, 0 .. pageDescCount - 1}
  /\ swapped \subseteq DOMAIN descriptors
  /\ ret \in {"none", "error", "success"}

Built == ret = "success"

DataEnd  == DataEndOf(pe)
IATCells == IATOf(pe)            \* the cells the import rewriting is meant to touch

SectionCell(s, o) == pe.cells[pe.sections[s].offset + o + 1]

(***************************************************************************)
(* Mapping, padding and import rewriting all write to the same file.  Once *)
(* the basefile is built, the header and every byte of every section are   *)
(* at their RVAs, but for the IAT entries and, when the data ends exactly  *)
(* on a page boundary, the image's last byte (which is the header's when   *)
(* the only section has no data); and whatever is not data, and in no IAT, *)
(* is zero, as what follows the raw data of a section has to be.           *)
(***************************************************************************)
PaddedOver(p) == DataEnd % pe.pageSize = 0 /\ p = DataEnd - 1

SectionsIntact ==
  Built =>
    /\ \A p \in 0 .. pe.headerLen - 1 : basefile[p] = pe.cells[p + 1] \/ PaddedOver(p)
    /\ \A s \in DOMAIN pe.sections : \A o \in 0 .. pe.sections[s].rawSize - 1 :
         LET p == pe.sections[s].rva + o
         IN  basefile[p] = SectionCell(s, o) \/ p \in IATCells \/ PaddedOver(p)
    /\ \A p \in DOMAIN basefile \ 0 .. pe.headerLen - 1 :
         basefile[p] # Zero =>
           p \in IATCells \/ \E s \in DOMAIN pe.sections : p \in Raw(pe.sections[s])

(***************************************************************************)
(* Every IAT entry, of every table, by ordinal or by name, ends up with    *)
(* its ordinal and the module index that the headers give its library,     *)
(* although finding the ordinal of a named import takes the file position  *)
(* elsewhere and back, in a file of which other entries have already been  *)
(* rewritten.  Only an entry that two tables share is not spoken of, which *)
(* is read again as what the first has made of it and may be anything, and *)
(* one that the padding has overwritten.                                   *)
(***************************************************************************)
TablesWith(p) == {t \in DOMAIN pe.tables :
                    p \in pe.tables[t].rva .. pe.tables[t].rva + pe.tables[t].importCount - 1}

(* The place of a hint that neither the imports nor the padding overwrite. *)
HoldsHint(p) ==
  /\ p \notin IATCells /\ ~PaddedOver(p)
  /\ \E s \in DOMAIN pe.sections : /\ p \in Raw(pe.sections[s])
                                  /\ SectionCell(s, p - pe.sections[s].rva)[1] = "hint"

IsImport(cell) == cell[1] = "ordinal" \/ (cell[1] = "nameRVA" /\ HoldsHint(cell[2]))

OrdinalOf(cell) == IF cell[1] = "nameRVA"
                   THEN LET s == CHOOSE s \in DOMAIN pe.sections :
                                   cell[2] \in Raw(pe.sections[s])
                        IN  SectionCell(s, cell[2] - pe.sections[s].rva)[2]
                   ELSE cell[2]

IATXenonified ==
  Built =>
    \A s \in DOMAIN pe.sections : \A o \in 0 .. pe.sections[s].rawSize - 1 :
      \A t \in DOMAIN pe.tables :
        LET p    == pe.sections[s].rva + o
            cell == SectionCell(s, o)
        IN  TablesWith(p) = {t} /\ ~PaddedOver(p) /\ IsImport(cell)
              => basefile[p] = Xenonified(ModuleIndex(t, Byte), OrdinalOf(cell))

(***************************************************************************)
(* "Call file positioning function between reads and writes to the same    *)
(* file.  This is mandated by the C standard."                             *)
(***************************************************************************)
PositioningBetweenReadsAndWrites == disciplined

(* The page size as a loader knows it.                                     *)
LoaderPage == IF "4KIB_PAGES" \in imageFlags THEN SmallPage ELSE LargePage

WholePages == size = pageDescCount * LoaderPage

(***************************************************************************)
(* The hash chain a loader follows, from imageSha1 through the descriptor  *)
(* of each page, of the size that the image's flags say, to the hash of    *)
(* the next, verifies against the basefile as it is finally written,       *)
(* imports rewritten and all, and the descriptors as writeXEX writes them, *)
(* after a swap of its own, on either kind of host; although the builder   *)
(* works the page size out from the sizes it has at hand, and hashes the   *)
(* descriptors while they are swapped in place.                            *)
(***************************************************************************)
InFileBigEndian(d) == BigEndian(d, Swapped(DOMAIN descriptors))

PageHash(d) == Digest(PageCells(basefile, d, LoaderPage), descriptors[d], InFileBigEndian(d))

HashChainVerifies ==
  Built /\ WholePages =>
    /\ imageSha1 = PageHash(0)
    /\ \A d \in 0 .. pageDescCount - 2 : descriptors[d].sha1 = PageHash(d + 1)
    /\ \A d \in 0 .. pageDescCount - 1 : InFileBigEndian(d)

(***************************************************************************)
(* A page that holds data of a section has that section's permissions, and *)
(* the pages of the PE header are read-only, when the section table is in  *)
(* order: getRwx takes the last of the table, not the highest, and of two  *)
(* that start at the same page the empty one when that is behind.          *)
(***************************************************************************)
InOrder == \A r, s \in DOMAIN pe.sections : r < s => pe.sections[r].rva < pe.sections[s].rva

PermissionsMatch ==
  Built /\ WholePages /\ InOrder =>
    \A d \in 0 .. pageDescCount - 1 :
      LET page == d * LoaderPage .. (d + 1) * LoaderPage - 1
      IN  /\ \A s \in DOMAIN pe.sections :
               Raw(pe.sections[s]) \cap page # {} =>
                 descriptors[d].info = pe.sections[s].permFlag
          /\ d = 0 => descriptors[d].info = RoData

(***************************************************************************)
(* pemapper.c:173-174 says of the padding: "Pad the rest of the final page *)
(* with zeroes [...] (unless the data runs all the way up to the end!)":   *)
(* the basefile is a whole number of pages, and no zero is placed over the *)
(* last byte of the data.                                                  *)
(***************************************************************************)
FinalPagePadded ==
  Built =>
    /\ size % pe.pageSize = 0
    /\ LET last == Len(pe.sections)
           p    == DataEnd - 1
       IN  pe.sections[last].rawSize > 0 =>
             \/ p \in IATCells
             \/ basefile[p] = SectionCell(last, pe.sections[last].rawSize - 1)
=============================================================================
