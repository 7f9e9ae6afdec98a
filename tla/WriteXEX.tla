------------------------------ MODULE WriteXEX ------------------------------
(***************************************************************************)
(* write/writexex.c and write/headerhash.c, run on the layout that Placer  *)
(* computed: writeXEX seeks to each offset and writes, converting every    *)
(* structure to big endian IN PLACE just before it goes out, and           *)
(* setHeaderSha1 reads the headers back and puts their hash in.            *)
(*                                                                         *)
(* The file is the set of extents that are whole in it.  A write that      *)
(* overlaps an older extent destroys it, so overlaps are visible.  What a  *)
(* structure contains is abstracted to its name and its byte order.        *)
(***************************************************************************)
EXTENDS Placer, SequencesExt

CONSTANT Cases         \* the images and hosts considered

VARIABLES
  littleEndian,        \* the host's byte order (LITTLE_ENDIAN_SYSTEM)
  reliable,            \* no write, and no read of the basefile, comes up short
  step,                \* where writeXEX / setHeaderSha1 stands
  peSize,              \* secInfoHeader->peSize
  file,                \* the XEX: a set of extents
  pos,                 \* its file position
  swapped,             \* fields in memory that have been byte-swapped
  j,                   \* the loop counter of the current loop
  currentHeader,       \* writeXEX's index into offsets->optHeaders
  hashed,              \* what the header SHA-1 was computed over, in order
  ret                  \* the return value

inputs == <<littleEndian, reliable, peSize>>

writeVars == <<inputs, step, file, pos, swapped, j, currentHeader, hashed, ret>>
vars == <<placerVars, writeVars>>

(* A case: how many whole pages the basefile has, of which size, how many  *)
(* bytes past the last of them, and what the host is like.                 *)
ASSUME WriteXEXAssumption ==
  /\ \A c \in Cases :
       /\ c.pages \in PageCounts \ {0} /\ c.pageSize \in {4096, 65536}
       /\ c.tail \in 0 .. c.pageSize - 1
       /\ c.littleEndian \in BOOLEAN /\ c.reliable \in BOOLEAN
  /\ \A l \in ImportLibraries : LibrariesAsBuilt(l)

-----------------------------------------------------------------------------
(* A field is named <<structure, part>>.                                   *)
XexHeader      == <<"xexHeader", 0>>
Entries        == <<"optHeaderEntries", 0>>
Descriptor(k)  == <<"pageDescriptor", k>>
Basefile(k)    == <<"basefile", k>>
SecInfo        == <<"secInfoHeader", 0>>
BasefileFormat == <<"basefileFormat", 0>>
ImportLibs     == <<"importLibraries", 0>>     \* size and nameTableSize
TableCount     == <<"importLibraries", 1>>     \* tableCount
ImportTable(k) == <<"importTable", k>>
Tls            == <<"tlsInfo", 0>>
HashSlot       == <<"headersHash", 0>>         \* as writeXEX leaves it
Digest         == <<"headersHash", 1>>         \* as setHeaderSha1 leaves it

(* __builtin_bswap32, in Word (which is 2^32, and less in TLC).            *)
ByteSwapped(v) ==
  (v % (Word \div 16777216)) * 16777216 + ((v \div 256) % 256) * 65536
    + ((v \div 65536) % 256) * 256 + v \div 16777216

(* A header field as the code finds it when it uses it to steer a loop.    *)
InMemory(field, v) == IF field \in swapped THEN ByteSwapped(v) ELSE v

Overwrite(f, new) ==
  {x \in f : \A e \in new : x.at + x.len <= e.at \/ e.at + e.len <= x.at} \cup new

FileEnd == LET ends == {x.at + x.len : x \in file} \cup {0}
           IN  CHOOSE e \in ends : \A d \in ends : d <= e

(* What reading [from, to) of a file sees.                                 *)
Within(f, from, to) == {x \in f : x.at < to /\ from < x.at + x.len}

(* Bytes with no order of their own, and fields in the order memory has.   *)
Raw(what, at, len) == [what |-> what, at |-> at, len |-> len, bigEndian |-> TRUE]

Field(what, at, len, source) ==
  [what |-> what, at |-> at, len |-> len,
   bigEndian |-> (source \in swapped') = littleEndian]

(* The security header, cut where the header hash cuts it.                 *)
SecInfoFields(at) ==
  {Field(<<"secInfoHeader", 0>>, at, 8, SecInfo),            \* headerSize, peSize
   Field(<<"secInfoHeader", 1>>, at + 8, 348, SecInfo),      \* image info, first part
   Raw(HashSlot, at + 356, 20),                              \* headersHash, 0x164
   Field(<<"secInfoHeader", 2>>, at + 376, 4, SecInfo),      \* gameRegion
   Field(<<"secInfoHeader", 3>>, at + 380, 8, SecInfo)}      \* mediaTypes, pageDescCount

(***************************************************************************)
(* One fwrite (or a run of them) at a position.  writeXEX looks at none of *)
(* its return values, except in the basefile loop.  Bound: a write that    *)
(* comes up short leaves nothing in the file and does not move it.         *)
(***************************************************************************)
Fwrite(at, extents, len) ==
  \/ file' = Overwrite(file, extents) /\ pos' = at + len
  \/ ~reliable /\ file' = file /\ pos' = at

(* Mutated form of Swap: swaps on a big endian host too.                   *)
SwapAlways(fields) == swapped' = SymDiff(swapped, fields)

(* Swapping twice gives the native order back.                             *)
Swap(fields) == swapped' = IF littleEndian THEN SymDiff(swapped, fields) ELSE swapped

At(s) == pc = "placed" /\ step = s /\ UNCHANGED <<placerVars, inputs>>

Goto(s) == step' = s /\ j' = 1 /\ UNCHANGED <<hashed, ret>>

Return(r) == step' = "returned" /\ ret' = r /\ UNCHANGED <<j, hashed>>

WriteInit ==
  /\ PlacerInit
  /\ step = "xexHeader"
  /\ \E c \in Cases :
       /\ pageDescCount = c.pages
       /\ peSize = c.pages * c.pageSize + c.tail
       /\ littleEndian = c.littleEndian /\ reliable = c.reliable
  /\ file = {} /\ pos = 0 /\ swapped = {} /\ j = 1 /\ currentHeader = 1
  /\ hashed = <<>> /\ ret = "none"

-----------------------------------------------------------------------------
WriteXexHeader ==
  /\ At("xexHeader")
  /\ Swap({XexHeader})
  /\ Fwrite(offsets.xexHeader,
            {Field(XexHeader, offsets.xexHeader, SizeofXexHeader, XexHeader)},
            SizeofXexHeader)
  /\ Goto("swapEntries")
  /\ UNCHANGED currentHeader

(* Mutated form of SwapEntries: the security header goes along.            *)
SwapEntriesAndSecInfo ==
  /\ At("swapEntries")
  /\ Swap({Entries, SecInfo})
  /\ pos' = offsets.optHeaderEntries
  /\ Goto("entries")
  /\ UNCHANGED <<file, currentHeader>>

(* All entries are swapped first, then written where the seek left off.    *)
SwapEntries ==
  /\ At("swapEntries")
  /\ Swap({Entries})
  /\ pos' = offsets.optHeaderEntries
  /\ Goto("entries")
  /\ UNCHANGED <<file, currentHeader>>

WriteEntry ==
  /\ At("entries")
  /\ j <= Len(entries)
  /\ UNCHANGED <<step, swapped, currentHeader, hashed, ret>>
  /\ Fwrite(pos, {Field(<<"optHeaderEntries", j>>, pos, SizeofOptHeaderEntry, Entries)},
            SizeofOptHeaderEntry)
  /\ j' = j + 1

SeekDescriptors ==
  /\ At("entries")
  /\ j > Len(entries)
  /\ pos' = offsets.secInfoHeader + SizeofSecInfoHeader
  /\ Goto("descriptors")
  /\ UNCHANGED <<file, swapped, currentHeader>>

(* Nothing but the count in memory keeps the loop inside the array.        *)
WriteDescriptor ==
  /\ At("descriptors")
  /\ j <= InMemory(SecInfo, pageDescCount)
  /\ Swap({Descriptor(j)})
  /\ Fwrite(pos, {Field(Descriptor(j), pos, SizeofPageDescriptor, Descriptor(j))},
            SizeofPageDescriptor)
  /\ j' = j + 1
  /\ UNCHANGED <<step, currentHeader, hashed, ret>>

(* Seek, and the 4 KiB buffer, which may not be had.                       *)
SeekBasefile ==
  /\ At("descriptors")
  /\ j > InMemory(SecInfo, pageDescCount)
  /\ pos' = offsets.basefile
  /\ Goto("basefile") \/ Return("outOfMem")
  /\ UNCHANGED <<file, swapped, currentHeader>>

readBufSize == 4096

BlockStart == (j - 1) * readBufSize

BytesToRead == LET left == InMemory(SecInfo, peSize) - BlockStart
               IN  IF left < readBufSize THEN left ELSE readBufSize

(* Mutated form of MoreToCopy: one turn too many.                          *)
MoreOrNothingToCopy == BlockStart <= InMemory(SecInfo, peSize)

MoreToCopy == BlockStart < InMemory(SecInfo, peSize)

(* The PE file is peSize bytes long and no more.                           *)
BlockReadable == BlockStart + BytesToRead <= peSize

(* fread and fwrite both come back whole.                                  *)
CopyBlock ==
  /\ At("basefile")
  /\ MoreToCopy /\ BlockReadable
  /\ file' = Overwrite(file, {Raw(Basefile(j), pos, BytesToRead)})
  /\ pos' = pos + BytesToRead
  /\ j' = j + 1
  /\ UNCHANGED <<step, swapped, currentHeader, hashed, ret>>

(* The loop is over: nothing is left, or either call came up short, which  *)
(* breaks out of it in the same way.                                       *)
EndBasefile ==
  /\ At("basefile")
  /\ MoreToCopy /\ BlockReadable => ~reliable
  /\ Goto("secInfo")
  /\ UNCHANGED <<file, pos, swapped, currentHeader>>

WriteSecInfo ==
  /\ At("secInfo")
  /\ Swap({SecInfo})
  /\ Fwrite(offsets.secInfoHeader, SecInfoFields(offsets.secInfoHeader),
            SizeofSecInfoHeader)
  /\ Goto("basefileFormat")
  /\ UNCHANGED currentHeader

(* An optional header of its own: the next offset placer.c recorded.       *)
OptHeaderAt == offsets.optHeaders[currentHeader]

WriteOptHeader(extents, fields, len) ==
  Swap(fields) /\ Fwrite(OptHeaderAt, extents, len)

(* Mutated form of WriteBasefileFormat: currentHeader does not move.       *)
WriteFormatWithoutCounting ==
  /\ At("basefileFormat")
  /\ WriteOptHeader({Field(BasefileFormat, OptHeaderAt, SizeofBasefileFormat, BasefileFormat)},
                    {BasefileFormat}, SizeofBasefileFormat)
  /\ UNCHANGED currentHeader
  /\ Goto("imports")

WriteBasefileFormat ==
  /\ At("basefileFormat")
  /\ WriteOptHeader({Field(BasefileFormat, OptHeaderAt, SizeofBasefileFormat, BasefileFormat)},
                    {BasefileFormat}, SizeofBasefileFormat)
  /\ currentHeader' = currentHeader + 1
  /\ Goto("imports")

(* Mutated form of SkipImports: whether there are any is not asked.        *)
SkipAnyImports ==
  /\ At("imports")
  /\ Goto("tlsInfo")
  /\ UNCHANGED <<file, pos, swapped, currentHeader>>

(* importLibraries.size decides, where placer.c asked tableCount.          *)
SkipImports ==
  /\ At("imports")
  /\ lib.size = 0
  /\ Goto("tlsInfo")
  /\ UNCHANGED <<file, pos, swapped, currentHeader>>

ImportLibsFields(at) ==
  {Field(ImportLibs, at, 8, ImportLibs), Field(TableCount, at + 8, 4, TableCount),
   Raw(<<"nameTable", 0>>, at + SizeofImportLibraries, lib.nameTableSize)}

WriteImportLibs ==
  /\ At("imports")
  /\ lib.size # 0
  /\ WriteOptHeader(ImportLibsFields(OptHeaderAt), {ImportLibs, TableCount},
                    SizeofImportLibraries + lib.nameTableSize)
  /\ Goto("restore")
  /\ UNCHANGED currentHeader

(* Mutated form of RestoreTableCount: the count stays swapped.             *)
ForgetTableCount ==
  /\ At("restore")
  /\ Goto("importTables")
  /\ UNCHANGED <<file, pos, swapped, currentHeader>>

(* "we require it to free the import libraries struct later".              *)
RestoreTableCount ==
  /\ At("restore")
  /\ swapped' = swapped \ {TableCount}
  /\ Goto("importTables")
  /\ UNCHANGED <<file, pos, currentHeader>>

(* tableCount and addressCount were saved before the swap.                 *)
WriteImportTable ==
  /\ At("importTables")
  /\ j <= lib.tableCount
  /\ Swap({ImportTable(j)})
  /\ LET len == SizeofImportTable + 4 * lib.addressCounts[j]
     IN  Fwrite(pos, {Field(ImportTable(j), pos, len, ImportTable(j))}, len)
  /\ j' = j + 1
  /\ UNCHANGED <<step, currentHeader, hashed, ret>>

EndImports ==
  /\ At("importTables")
  /\ j > lib.tableCount
  /\ currentHeader' = currentHeader + 1
  /\ Goto("tlsInfo")
  /\ UNCHANGED <<file, pos, swapped>>

WriteTls ==
  /\ At("tlsInfo")
  /\ WriteOptHeader({Field(Tls, OptHeaderAt, SizeofTlsInfo, Tls)}, {Tls}, SizeofTlsInfo)
  /\ Goto("readOffsets")
  /\ UNCHANGED currentHeader

-----------------------------------------------------------------------------
(* setHeaderSha1.                                                          *)
Reading(s) == At(s) /\ UNCHANGED <<file, swapped, currentHeader>>

HeaderInFile == \E x \in file : x.what = XexHeader

(* The basefile and security header offsets, as the XEX header gives them. *)
ReadOffsets ==
  /\ Reading("readOffsets")
  /\ HeaderInFile
  /\ pos' = 20
  /\ Goto("hashRemainder")

(* Mutated form of ReadOffsetsFails: the later part is written again.      *)
ReadOffsetsRetries ==
  /\ At("readOffsets")
  /\ ~HeaderInFile
  /\ currentHeader' = 1
  /\ Goto("secInfo")
  /\ UNCHANGED <<file, pos, swapped>>

(* An empty file ends the read.  A hole instead of the header reads as two *)
(* zeros: remainingSize wraps to nearly 4 GiB, which malloc or fread       *)
(* refuses.                                                                *)
ReadOffsetsFails ==
  /\ Reading("readOffsets")
  /\ ~HeaderInFile
  /\ \/ Return("fileRead")
     \/ FileEnd > 0 /\ Return("outOfMem")
  /\ UNCHANGED pos

(* Mutated form of endOfImageInfo: the image info is not at 0.             *)
ImageInfoLength == xexHeader.secInfoOffset + 372

endOfImageInfo == xexHeader.secInfoOffset + 8 + 372        \* 0x8 + 0x174

(* A buffer, a read that must come back whole, and sha1_update.            *)
HashRange(from, to, next) ==
  \/ FileEnd >= to /\ hashed' = Append(hashed, Within(file, from, to))
       /\ step' = next /\ pos' = to /\ UNCHANGED <<j, ret>>
  \/ FileEnd < to /\ Return("fileRead") /\ pos' = FileEnd
  \/ Return("outOfMem") /\ UNCHANGED pos

HashRemainder ==
  /\ Reading("hashRemainder")
  /\ HashRange(endOfImageInfo, xexHeader.peOffset, "hashStart")

HashStart ==
  /\ Reading("hashStart")
  /\ HashRange(0, xexHeader.secInfoOffset + 8, "digest")

(* This fwrite is checked.                                                 *)
WriteDigest ==
  LET at == xexHeader.secInfoOffset + 356
  IN  /\ At("digest")
      /\ \/ file' = Overwrite(file, {Raw(Digest, at, 20)}) /\ Return("success")
         \/ ~reliable /\ file' = file /\ Return("fileRead")
      /\ UNCHANGED <<pos, swapped, currentHeader>>

-----------------------------------------------------------------------------
WriterStep ==
  \/ WriteXexHeader \/ SwapEntries \/ WriteEntry \/ SeekDescriptors
  \/ WriteDescriptor \/ SeekBasefile \/ CopyBlock \/ EndBasefile
  \/ WriteSecInfo \/ WriteBasefileFormat \/ SkipImports \/ WriteImportLibs
  \/ RestoreTableCount \/ WriteImportTable \/ EndImports \/ WriteTls
  \/ ReadOffsets \/ ReadOffsetsFails \/ HashRemainder \/ HashStart \/ WriteDigest

Finished == step = "returned" \/ pc = "outOfMem"

Step == (PlacerStep /\ UNCHANGED writeVars) \/ WriterStep

Next == Step \/ (Finished /\ UNCHANGED vars)

(* One thread, which runs as long as it has a next step.                   *)
Spec == WriteInit /\ [][Next]_vars /\ WF_vars(Step)

-----------------------------------------------------------------------------
(***************************************************************************)
(* Types of the writer's own state.                                        *)
(***************************************************************************)
WriterTypeOK ==
  /\ step \in {"xexHeader", "swapEntries", "entries", "descriptors", "basefile",
               "secInfo", "basefileFormat", "imports", "restore", "importTables",
               "tlsInfo", "readOffsets", "hashRemainder", "hashStart", "digest",
               "returned"}
  /\ littleEndian \in BOOLEAN /\ reliable \in BOOLEAN
  /\ peSize \in Nat /\ pos \in Nat /\ j \in Nat \ {0}
  /\ \A x \in file : x.at \in Nat /\ x.len \in Nat \ {0} /\ x.bigEndian \in BOOLEAN
  /\ currentHeader \in 1 .. 3
  /\ Len(hashed) <= 2
  /\ ret \in {"none", "success", "outOfMem", "fileRead"}

(***************************************************************************)
(* freeImportLibrariesStruct counts the import tables by tableCount, a     *)
(* field the writer swaps: whenever control is back in main, which then    *)
(* frees everything, the count is native again.                            *)
(***************************************************************************)
FreeSeesTableCount == step = "returned" => TableCount \notin swapped

(***************************************************************************)
(* The file is big endian throughout on either kind of host: nothing is    *)
(* written before its swap, and nothing is swapped twice.                  *)
(***************************************************************************)
BigEndianFile == \A x \in file : x.bigEndian

(* Everything a complete image holds, from the inputs alone.               *)
Wanted ==
  {XexHeader, BasefileFormat, Tls}
  \cup {<<"optHeaderEntries", k>> : k \in DOMAIN entries}
  \cup {Descriptor(k) : k \in 1 .. pageDescCount}
  \cup {Basefile(k) : k \in 1 .. (peSize + readBufSize - 1) \div readBufSize}
  \cup {<<"secInfoHeader", k>> : k \in 0 .. 3}
  \cup (IF lib.tableCount > 0
        THEN {ImportLibs, TableCount, <<"nameTable", 0>>}
             \cup {ImportTable(k) : k \in 1 .. lib.tableCount}
        ELSE {})

InFile == {x.what : x \in file}

(***************************************************************************)
(* The writer swaps structures in place and goes on reading pageDescCount, *)
(* peSize and the table count: no loop is steered by a swapped field, so   *)
(* none runs past its array and nothing but the image is written.          *)
(***************************************************************************)
NothingButTheImage == InFile \subseteq Wanted \cup {HashSlot, Digest}

Complete == Wanted \cup {Digest} \subseteq InFile

(***************************************************************************)
(* main prints "XEX built." after setHeaderSha1 returns SUCCESS: by then   *)
(* the file is complete, whatever happened on the way.                     *)
(***************************************************************************)
SuccessMeansComplete == ret = "success" => Complete

(***************************************************************************)
(* A loader finds each structure where the file says it is: the entries    *)
(* (written early) point at the optional headers the writer put down by    *)
(* its own count of offsets->optHeaders, and the imports' own size reaches *)
(* from their first byte to the basefile.                                  *)
(***************************************************************************)
Found(what, at) == \E x \in file : x.what = what /\ x.at = at

HeaderName(id) ==
  CASE id = XEX_OPT_ID_BASEFILE_FORMAT -> BasefileFormat
    [] id = XEX_OPT_ID_TLS_INFO        -> Tls
    [] id = XEX_OPT_ID_IMPORT_LIBS     -> ImportLibs

EntriesFindHeaders ==
  ret = "success" /\ reliable =>
    /\ \A id \in DataIds : Found(HeaderName(id), DataStart(id))
    /\ Found(SecInfo, xexHeader.secInfoOffset)
    /\ Found(Basefile(1), xexHeader.peOffset)
    /\ lib.tableCount > 0 =>
         \E x \in file : /\ x.what = ImportTable(lib.tableCount)
                         /\ x.at + x.len = xexHeader.peOffset

(***************************************************************************)
(* The stored header hash is the one a loader computes: the bytes from the *)
(* end of the image info to the basefile, then those from the start of the *)
(* file to the image info.  Nothing written after the hash was taken, the  *)
(* digest included, may fall in either range; and a file whose building    *)
(* succeeded, with no write that came up short, has its hash.              *)
(***************************************************************************)
HeaderHashValid ==
  Digest \in InFile \/ (ret = "success" /\ reliable) =>
    /\ hashed = <<Within(file, xexHeader.secInfoOffset + 380, xexHeader.peOffset),
                  Within(file, 0, xexHeader.secInfoOffset + 8)>>
    /\ Found(Digest, xexHeader.secInfoOffset + 356)

(***************************************************************************)
(* Writing always comes to an end.                                         *)
(***************************************************************************)
Terminates == <>(step = "returned" \/ pc = "outOfMem")

(***************************************************************************)
(* Writing a XEX, step by step and back and forth, implements XexImage.    *)
(***************************************************************************)
StructureNames ==
  {XexHeader[1], "optHeaderEntries", "pageDescriptor", "basefile", "secInfoHeader",
   "basefileFormat", "importLibraries", "importTable", "nameTable", "tlsInfo"}

Image == INSTANCE XexImage
           WITH Structure <- StructureNames \X Nat,
                wanted    <- Wanted,
                written   <- InFile \cap Wanted,
                sealed    <- Digest \in InFile

ImplementsImage == Image!Spec
=============================================================================
