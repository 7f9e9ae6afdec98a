--------------------------- MODULE WriteXEXProofs ---------------------------
(***************************************************************************)
(* The invariants of the writer, for every image, on either kind of host,  *)
(* whether its writes come up short or not; and that it implements         *)
(* XexImage.  They rest on the layout, proved in PlacerProofs.             *)
(***************************************************************************)
EXTENDS WriteXEX, PlacerProofs, DataStorageProofs

-----------------------------------------------------------------------------
(***************************************************************************)
(* The inductive invariant.  The writer goes through its steps in one      *)
(* order, and each kind of structure is swapped, and put in the file, from *)
(* one of them on.                                                         *)
(***************************************************************************)
FromReadOffsets == {"readOffsets", "hashRemainder", "hashStart", "digest"}
FromTls         == {"tlsInfo"} \cup FromReadOffsets
FromTables      == {"importTables"} \cup FromTls
FromRestore     == {"restore"} \cup FromTables
FromImports     == {"imports"} \cup FromRestore
FromFormat      == {"basefileFormat"} \cup FromImports
FromSecInfo     == {"secInfo"} \cup FromFormat
FromBasefile    == {"basefile"} \cup FromSecInfo
FromDescriptors == {"descriptors"} \cup FromBasefile
FromEntries     == {"entries"} \cup FromDescriptors
FromSwapEntries == {"swapEntries"} \cup FromEntries

Kinds == {"xexHeader", "optHeaderEntries", "pageDescriptor", "basefile", "secInfoHeader",
          "headersHash", "basefileFormat", "importLibraries", "nameTable", "importTable",
          "tlsInfo"}

ImportKinds == {"importLibraries", "nameTable", "importTable"}

(* Whether structures of a kind may be swapped or in the file.             *)
Begun(kind) ==
  \/ step = "returned"
  \/ kind = "xexHeader" /\ step \in FromSwapEntries
  \/ kind = "optHeaderEntries" /\ step \in FromEntries
  \/ kind = "pageDescriptor" /\ step \in FromDescriptors
  \/ kind = "basefile" /\ step \in FromBasefile
  \/ kind \in {"secInfoHeader", "headersHash"} /\ step \in FromFormat
  \/ kind = "basefileFormat" /\ step \in FromImports
  \/ kind \in {"importLibraries", "nameTable"} /\ step \in FromRestore
  \/ kind = "importTable" /\ step \in FromTables
  \/ kind = "tlsInfo" /\ step \in FromReadOffsets

(* Where the layout has things.                                            *)
secAt  == offsets.secInfoHeader
fmtAt  == offsets.optHeaders[1]
tlsAt  == offsets.optHeaders[IF lib.tableCount > 0 THEN 3 ELSE 2]
impAt  == offsets.basefile - lib.size
baseAt == offsets.basefile
TableAt(k) == ImportTableAt(lib.nameTableSize, lib.addressCounts)[k]

(* The regions of the file follow one another.                             *)
Regions ==
  /\ offsets.xexHeader = 0 /\ offsets.optHeaderEntries = 24
  /\ Len(entries) \in Nat /\ DOMAIN entries = 1 .. Len(entries)
  /\ secAt \in Nat /\ fmtAt \in Nat /\ tlsAt \in Nat /\ impAt \in Nat /\ baseAt \in Nat
  /\ pageDescCount \in Nat /\ lib.size \in Nat
  /\ xexHeader.secInfoOffset = secAt /\ xexHeader.peOffset = baseAt
  /\ 24 + 8 * Len(entries) <= secAt
  /\ secAt + 388 + 24 * pageDescCount <= fmtAt
  /\ fmtAt + 16 <= tlsAt
  /\ tlsAt + 16 <= impAt
  /\ impAt + lib.size = baseAt
  /\ lib.tableCount > 0 => offsets.optHeaders[2] = impAt

InRegion(x) ==
  LET kind == x.what[1]
      end  == x.at + x.len
  IN  /\ kind = "xexHeader" => end <= 24
      /\ kind = "optHeaderEntries" => 24 <= x.at /\ end <= 24 + 8 * Len(entries)
      /\ kind = "secInfoHeader" =>
           /\ secAt <= x.at /\ end <= secAt + 388
           /\ end <= secAt + 356 \/ secAt + 376 <= x.at
      /\ kind = "headersHash" => x.at = secAt + 356 /\ x.len = 20
      /\ kind = "pageDescriptor" =>
           secAt + 388 <= x.at /\ end <= secAt + 388 + 24 * pageDescCount
      /\ kind = "basefileFormat" => fmtAt <= x.at /\ end <= fmtAt + 16
      /\ kind = "tlsInfo" => tlsAt <= x.at /\ end <= tlsAt + 16
      /\ kind \in ImportKinds => impAt <= x.at /\ end <= baseAt
      /\ kind = "basefile" => baseAt <= x.at

Extent(x) ==
  /\ x.at \in Nat /\ x.len \in Nat \ {0} /\ x.bigEndian = TRUE
  /\ x.what[1] \in Kinds
  /\ x.what \in Wanted \cup {HashSlot, Digest}
  /\ InRegion(x)

(***************************************************************************)
(* CoreInv: control, and what is swapped.                                  *)
(***************************************************************************)
NotStarted ==
  /\ step = "xexHeader" /\ file = {} /\ pos = 0 /\ swapped = {} /\ j = 1
  /\ currentHeader = 1 /\ hashed = <<>> /\ ret = "none"

Blocks == (peSize + 4095) \div 4096

InputsOK ==
  /\ littleEndian \in BOOLEAN /\ reliable \in BOOLEAN
  /\ peSize \in Nat \ {0} /\ pageDescCount \in PageCounts /\ pageDescCount \in Nat
  /\ lib \in ImportLibraries

ControlOK ==
  /\ step \in {"xexHeader", "returned"} \cup FromSwapEntries
  /\ step # "returned" => ret = "none"
  /\ ret \in {"none", "success", "outOfMem", "fileRead"}
  /\ j \in Nat \ {0}
  /\ step = "entries" => j <= Len(entries) + 1
  /\ step = "descriptors" => j <= pageDescCount + 1
  /\ step \in {"restore", "importTables"} => lib.tableCount > 0 /\ j <= lib.tableCount + 1
  /\ step = "restore" => j = 1
  /\ currentHeader \in 1 .. 3
  /\ step \in {"xexHeader"} \cup (FromSwapEntries \ FromImports) => currentHeader = 1
  /\ step \in FromImports \ FromTls => currentHeader = 2
  /\ step \in FromTls => currentHeader = IF lib.tableCount > 0 THEN 3 ELSE 2

SwapsOK ==
  /\ ~littleEndian => swapped = {}
  /\ \A s \in swapped : Begun(s[1])
  /\ step = "entries" /\ littleEndian => Entries \in swapped
  /\ step = "descriptors" => \A k \in Nat : k >= j => Descriptor(k) \notin swapped
  /\ step = "importTables" => \A k \in Nat : k >= j => ImportTable(k) \notin swapped
  /\ TableCount \in swapped => step = "restore"

CoreInv ==
  /\ LayoutInv /\ TablesInv
  /\ pc # "placed" => NotStarted
  /\ InputsOK /\ ControlOK /\ SwapsOK

(***************************************************************************)
(* FileInv: every extent lies in the region of its kind, and within a loop *)
(* behind none but those written before it.                                *)
(***************************************************************************)
EndsBy(kinds, at) == \A x \in file : x.what[1] \in kinds => x.at + x.len <= at

Frontier ==
  /\ step = "entries" =>
       24 <= pos /\ pos <= 24 + 8 * (j - 1) /\ EndsBy({"optHeaderEntries"}, pos)
  /\ step = "descriptors" =>
       /\ secAt + 388 <= pos /\ pos <= secAt + 388 + 24 * (j - 1)
       /\ EndsBy({"pageDescriptor"}, pos)
  /\ step = "basefile" => baseAt <= pos /\ EndsBy({"basefile"}, pos)
  /\ step \in {"restore", "importTables"} =>
       impAt <= pos /\ pos <= impAt + TableAt(j) /\ EndsBy(ImportKinds, pos)

FileOK == \A x \in file : Extent(x) /\ Begun(x.what[1])

Bounded == \E top \in Nat : \A x \in file : x.at + x.len <= top

FileInv ==
  /\ pos \in Nat
  /\ FileOK /\ Bounded
  /\ Digest \in InFile => step = "returned" /\ ret = "success"
  /\ Frontier

(***************************************************************************)
(* HashInv: what the hash has been taken of.                               *)
(***************************************************************************)
Remainder == Within(file, secAt + 380, baseAt)
Start     == Within(file, 0, secAt + 8)

HashInv ==
  /\ Len(hashed) <= 2
  /\ step \notin {"hashStart", "digest", "returned"} => hashed = <<>>
  /\ step = "hashStart" => hashed = <<Remainder>>
  /\ step = "digest" => hashed = <<Remainder, Start>>
  /\ ret = "success" => Digest \in InFile
  /\ step = "returned" /\ Digest \in InFile =>
       hashed = <<Remainder, Start>> /\ Found(Digest, secAt + 356)

(***************************************************************************)
(* DueInv: what must be in the file if no write comes up short.            *)
(***************************************************************************)
Reached(steps)  == step \in steps \/ (step = "returned" /\ ret = "success")
InLoop(loop, k) == step = loop /\ k < j

LastTableEndsAtBasefile ==
  \E x \in file : x.what = ImportTable(lib.tableCount) /\ x.at + x.len = baseAt

DueHeaders ==
  /\ Reached(FromSwapEntries) => Found(XexHeader, 0)
  /\ \A k \in 1 .. Len(entries) :
       Reached(FromDescriptors) \/ InLoop("entries", k) => <<"optHeaderEntries", k>> \in InFile
  /\ \A k \in 1 .. pageDescCount :
       Reached(FromBasefile) \/ InLoop("descriptors", k) => Descriptor(k) \in InFile
  /\ Reached(FromFormat) => /\ \A k \in 0 .. 3 : <<"secInfoHeader", k>> \in InFile
                            /\ Found(SecInfo, secAt)
  /\ Reached(FromImports) => Found(BasefileFormat, fmtAt)
  /\ Reached(FromReadOffsets) => Found(Tls, tlsAt)

DueBasefile ==
  /\ step = "basefile" /\ j = 1 => pos = baseAt
  /\ \A k \in 1 .. Blocks :
       Reached(FromSecInfo) \/ InLoop("basefile", k) => Basefile(k) \in InFile
  /\ Reached(FromSecInfo) \/ InLoop("basefile", 1) => Found(Basefile(1), baseAt)

DueImports ==
  lib.tableCount > 0 =>
    /\ step \in {"restore", "importTables"} => pos = impAt + TableAt(j)
    /\ Reached(FromRestore) => /\ Found(ImportLibs, impAt)
                               /\ TableCount \in InFile /\ <<"nameTable", 0>> \in InFile
    /\ \A k \in 1 .. lib.tableCount :
         Reached(FromTls) \/ InLoop("importTables", k) => ImportTable(k) \in InFile
    /\ Reached(FromTls) \/ InLoop("importTables", lib.tableCount) => LastTableEndsAtBasefile

DueInv == pc = "placed" /\ reliable => DueHeaders /\ DueBasefile /\ DueImports

-----------------------------------------------------------------------------
(* The layout, as the writer uses it.                                      *)

(* Which place each separate header has in offsets->optHeaders.            *)
LEMMA Ranks ==
  ASSUME NEW l \in ImportLibraries
  PROVE  /\ HasData(OptHeaderIds(l)[1]) /\ Rank(l, 1) = 1 /\ Rank(l, 3) = 2
         /\ IsSeparate(OptHeaderIds(l)[1])
         /\ OptHeaderIds(l)[1] = XEX_OPT_ID_BASEFILE_FORMAT
         /\ l.tableCount > 0 => /\ OptHeaderIds(l)[4] = XEX_OPT_ID_TLS_INFO
                                /\ IsSeparate(OptHeaderIds(l)[4]) /\ Rank(l, 4) = 3
         /\ ~(l.tableCount > 0) => /\ OptHeaderIds(l)[3] = XEX_OPT_ID_TLS_INFO
                                   /\ IsSeparate(OptHeaderIds(l)[3])
         /\ \A k \in DOMAIN OptHeaderIds(l) :
              HasData(OptHeaderIds(l)[k]) =>
                OptHeaderIds(l)[k] \in {XEX_OPT_ID_BASEFILE_FORMAT, XEX_OPT_ID_TLS_INFO,
                                        XEX_OPT_ID_IMPORT_LIBS}
<1> DEFINE ids == OptHeaderIds(l)
<1> USE DEF XEX_OPT_ID_BASEFILE_FORMAT, XEX_OPT_ID_ENTRYPOINT,
            XEX_OPT_ID_IMPORT_LIBS, XEX_OPT_ID_TLS_INFO, XEX_OPT_ID_SYS_FLAGS
<1>1. /\ ids[1] = 1023 /\ ids[2] = 65792
      /\ l.tableCount > 0 => ids[3] = 66559 /\ ids[4] = 131332
      /\ ~(l.tableCount > 0) => ids[3] = 131332
  BY DEF OptHeaderIds
<1>2. /\ IsSeparate(1023) /\ IsSeparate(131332)
      /\ HasData(1023) /\ HasData(131332) /\ HasData(66559) /\ ~HasData(65792)
      /\ ~HasData(196608)
  BY DEF HasData, IsSeparate, SeparateSize, SizeofBasefileFormat, SizeofTlsInfo
<1>3. HasData(ids[3])
  BY <1>1, <1>2
<1>4. \A n \in Nat : /\ Rank(l, 0) = 0
                     /\ HasData(ids[n + 1]) => Rank(l, n + 1) = Rank(l, n) + 1
                     /\ ~HasData(ids[n + 1]) => Rank(l, n + 1) = Rank(l, n)
  BY RankStep
<1>5. \A k \in DOMAIN ids : ids[k] \in OptHeaderIdSet
  BY IdPlaces
<1> HIDE DEF ids
<1>6. Rank(l, 0 + 1) = Rank(l, 0) + 1 /\ Rank(l, 0) = 0
  BY <1>1, <1>2, <1>4
<1>7. Rank(l, 1) = 1
  BY <1>6
<1>8. Rank(l, 1 + 1) = Rank(l, 1)
  BY <1>1, <1>2, <1>4
<1>9. Rank(l, 2 + 1) = Rank(l, 2) + 1
  BY <1>3, <1>4
<1>10. Rank(l, 3) = 2
  BY <1>7, <1>8, <1>9
<1>11. ASSUME l.tableCount > 0 PROVE Rank(l, 4) = 3
  <2>1. Rank(l, 3 + 1) = Rank(l, 3) + 1
    BY <1>1, <1>2, <1>4, <1>11
  <2> QED
    BY <1>10, <2>1
<1>12. \A k \in DOMAIN ids : HasData(ids[k]) => ids[k] \in {1023, 131332, 66559}
  BY <1>2, <1>5 DEF OptHeaderIdSet
<1> QED
  BY <1>1, <1>2, <1>7, <1>10, <1>11, <1>12 DEF ids

(* Where the separate headers lie, between the descriptors and the imports.*)
LEMMA PlacedRegions ==
  ASSUME LayoutInv, TablesInv, Placed
  PROVE  /\ Regions
         /\ entries[1].id = XEX_OPT_ID_BASEFILE_FORMAT /\ SepStart(1) = fmtAt
         /\ entries[IF lib.tableCount > 0 THEN 4 ELSE 3].id = XEX_OPT_ID_TLS_INFO
         /\ SepStart(IF lib.tableCount > 0 THEN 4 ELSE 3) = tlsAt
         /\ lib.tableCount > 0 => SepStart(3) = impAt
<1> DEFINE t == IF lib.tableCount > 0 THEN 4 ELSE 3
<1>1. /\ PlacerTypeOK /\ HeadersPlaced /\ BasefilePlaced /\ StoredByRank
      /\ FixedEnd \in Nat /\ offsets.basefile \in Nat /\ lib.size \in Nat
      /\ \A k \in Separates : /\ k < i /\ k \in Nat
                              /\ SepStart(k) \in Nat /\ SepEnd(k) \in Nat
                              /\ FixedEnd <= SepStart(k)
                              /\ SepEnd(k) <= offsets.basefile - lib.size
      /\ lib.tableCount > 0 => SepStart(3) = offsets.basefile - lib.size
  BY PlacedFacts DEF TablesInv, Placed
<1>2. /\ lib \in ImportLibraries
      /\ \A k \in DOMAIN entries : entries[k].id = OptHeaderIds(lib)[k]
      /\ DOMAIN entries = 1 .. Len(entries) /\ Len(entries) \in Nat /\ 4 <= Len(entries)
      /\ offsets.xexHeader = 0 /\ offsets.secInfoHeader \in Nat
  BY <1>1, EntryFacts DEF PlacerTypeOK
<1>3. 1 \in DOMAIN entries /\ 3 \in DOMAIN entries /\ 4 \in DOMAIN entries /\ t \in DOMAIN entries
  BY <1>2
<1>4. /\ 1 \in Separates /\ t \in Separates /\ 1 < t /\ t < i
      /\ entries[1].id = XEX_OPT_ID_BASEFILE_FORMAT /\ entries[t].id = XEX_OPT_ID_TLS_INFO
      /\ Rank(lib, 1) = 1 /\ Rank(lib, t) = (IF lib.tableCount > 0 THEN 3 ELSE 2)
      /\ Rank(lib, 3) = 2
  <2>1. 1 \in Separates /\ entries[1].id = XEX_OPT_ID_BASEFILE_FORMAT
    BY <1>2, <1>3, Ranks DEF Separates
  <2>2. t \in Separates /\ entries[t].id = XEX_OPT_ID_TLS_INFO
    BY <1>2, <1>3, Ranks DEF Separates
  <2>3. t < i
    BY <1>1, <2>2
  <2> QED
    BY <1>2, <2>1, <2>2, <2>3, Ranks
<1>5. 1 < i
  BY <1>1, <1>4
<1>6. fmtAt = SepStart(1) /\ tlsAt = SepStart(t)
  BY <1>1, <1>4, <1>5 DEF StoredByRank, fmtAt, tlsAt
<1>7. SepEnd(1) = SepStart(1) + 16 /\ SepEnd(t) = SepStart(t) + 16
  BY <1>4 DEF SepEnd, SeparateSize, SizeofBasefileFormat, SizeofTlsInfo,
              XEX_OPT_ID_BASEFILE_FORMAT, XEX_OPT_ID_TLS_INFO
<1>8. SepEnd(1) <= SepStart(t)
  BY <1>1, <1>4 DEF BasefilePlaced, InOrder
<1>9. FixedEnd = secAt + 388 + 24 * pageDescCount /\ pageDescCount \in Nat
  BY <1>1, <1>2, Bounds
     DEF FixedEnd, secAt, SizeofSecInfoHeader, SizeofPageDescriptor, PlacerTypeOK
<1>10. /\ FixedEnd <= fmtAt /\ fmtAt \in Nat /\ tlsAt \in Nat
       /\ fmtAt + 16 <= tlsAt /\ tlsAt + 16 <= impAt
  BY <1>1, <1>4, <1>6, <1>7, <1>8 DEF impAt
<1>11. impAt \in Nat /\ baseAt \in Nat /\ impAt + lib.size = baseAt
  <2>1. impAt + lib.size = baseAt /\ baseAt \in Nat /\ impAt \in Int
    BY <1>1 DEF impAt, baseAt
  <2> QED
    BY <1>10, <2>1
<1>12. /\ secAt \in Nat /\ 24 + 8 * Len(entries) <= secAt
       /\ offsets.optHeaderEntries = 24
       /\ xexHeader.secInfoOffset = secAt /\ xexHeader.peOffset = baseAt
  BY <1>1, <1>2 DEF HeadersPlaced, BasefilePlaced, secAt, baseAt
<1>13. lib.tableCount > 0 => offsets.optHeaders[2] = impAt /\ SepStart(3) = impAt
  BY <1>1, <1>4 DEF TablesInv, Placed, impAt
<1>14. Regions
  BY <1>1, <1>2, <1>9, <1>10, <1>11, <1>12, <1>13 DEF Regions
<1> QED
  BY <1>4, <1>6, <1>13, <1>14
-----------------------------------------------------------------------------
(* Control, and what is swapped.                                           *)

(* The steps follow one another.                                           *)
Advances ==
  \/ step' = step
  \/ step' = "returned"
  \/ step = "xexHeader" /\ step' = "swapEntries"
  \/ step = "swapEntries" /\ step' = "entries"
  \/ step = "entries" /\ step' = "descriptors"
  \/ step = "descriptors" /\ step' = "basefile"
  \/ step = "basefile" /\ step' = "secInfo"
  \/ step = "secInfo" /\ step' = "basefileFormat"
  \/ step = "basefileFormat" /\ step' = "imports"
  \/ step = "imports" /\ step' \in {"restore", "tlsInfo"}
  \/ step = "restore" /\ step' = "importTables"
  \/ step = "importTables" /\ step' = "tlsInfo"
  \/ step = "tlsInfo" /\ step' = "readOffsets"
  \/ step = "readOffsets" /\ step' = "hashRemainder"
  \/ step = "hashRemainder" /\ step' = "hashStart"
  \/ step = "hashStart" /\ step' = "digest"

Frame ==
  /\ UNCHANGED <<pc, pageDescCount, lib, entries, offsets, xexHeader>>
  /\ UNCHANGED <<littleEndian, reliable, peSize>>

(* The writer works on a finished layout and leaves it alone.              *)
LEMMA WriterFrame ==
  ASSUME WriterStep
  PROVE  pc = "placed" /\ UNCHANGED placerVars /\ UNCHANGED inputs /\ Frame
<1>1. \E s : At(s)
  BY DEF WriterStep, WriteXexHeader, SwapEntries, WriteEntry, SeekDescriptors, WriteDescriptor,
         SeekBasefile, CopyBlock, EndBasefile, WriteSecInfo, WriteBasefileFormat, SkipImports,
         WriteImportLibs, RestoreTableCount, WriteImportTable, EndImports, WriteTls, ReadOffsets,
         ReadOffsetsFails, HashRemainder, HashStart, WriteDigest, Reading
<1>2. pc = "placed" /\ UNCHANGED placerVars /\ UNCHANGED inputs
  BY <1>1 DEF At
<1> QED
  BY <1>2 DEF Frame, placerVars, inputs

(* What has begun stays begun.                                             *)
LEMMA BegunGrows ==
  ASSUME Advances, NEW kind, Begun(kind)
  PROVE  Begun(kind)'
BY DEF Advances, Begun, FromReadOffsets, FromTls, FromTables, FromRestore, FromImports,
       FromFormat, FromSecInfo, FromBasefile, FromDescriptors, FromEntries, FromSwapEntries

(* The libraries have a size just if there are any.                        *)
LEMMA LibFacts ==
  ASSUME NEW l \in ImportLibraries
  PROVE  /\ l.size \in Nat /\ l.tableCount \in Nat /\ l.addressCounts \in Seq(Nat)
         /\ l.tableCount = Len(l.addressCounts)
         /\ l.size # 0 <=> l.tableCount > 0
         /\ l.tableCount > 0 =>
              /\ l.nameTableSize \in Nat \ {0}
              /\ l.size = ImportTableAt(l.nameTableSize, l.addressCounts)[l.tableCount + 1]
<1>1. /\ l.size \in Nat /\ l.tableCount \in Nat /\ (l.tableCount = 0 => l.size = 0)
      /\ l.addressCounts \in Seq(Nat) /\ l.tableCount = Len(l.addressCounts)
      /\ l.tableCount > 0 =>
           /\ l.nameTableSize \in Nat \ {0}
           /\ l.size = ImportLibrariesSize(l.nameTableSize, l.addressCounts)
  BY PlacerAssumption, WriteXEXAssumption DEF LibrariesAsBuilt
<1>2. ASSUME l.tableCount > 0
      PROVE  /\ l.size = ImportTableAt(l.nameTableSize, l.addressCounts)[l.tableCount + 1]
             /\ l.size # 0
  <2>1. l.size = ImportTableAt(l.nameTableSize, l.addressCounts)[l.tableCount + 1]
    BY <1>1, <1>2 DEF ImportLibrariesSize
  <2>2. l.nameTableSize \in Nat /\ l.tableCount + 1 \in 1 .. Len(l.addressCounts) + 1
    BY <1>1, <1>2
  <2>3. 12 + l.nameTableSize <= l.size
    BY <1>1, <2>1, <2>2, TableAtAscends
  <2> QED
    BY <2>1, <2>2, <2>3
<1> QED
  BY <1>1, <1>2

(* No loop is steered by a swapped field: the security header is swapped   *)
(* behind both of those that look at it.                                   *)
LEMMA Native ==
  ASSUME SwapsOK, step \in {"descriptors", "basefile"}
  PROVE  \A v : InMemory(SecInfo, v) = v
<1>1. SecInfo[1] = "secInfoHeader"
  BY DEF SecInfo
<1>2. ~Begun("secInfoHeader")
  BY DEF Begun, FromReadOffsets, FromTls, FromTables, FromRestore, FromImports, FromFormat
<1>3. SecInfo \notin swapped
  BY <1>1, <1>2 DEF SwapsOK
<1> QED
  BY <1>3 DEF InMemory
(* Every action goes on to a step that may follow, and keeps its counters  *)
(* within the arrays they run over.                                        *)
LEMMA ControlKept ==
  ASSUME InputsOK, ControlOK, SwapsOK, Len(entries) \in Nat, WriterStep
  PROVE  ControlOK' /\ Advances
<1> USE DEF FromReadOffsets, FromTls, FromTables, FromRestore, FromImports, FromFormat,
            FromSecInfo, FromBasefile, FromDescriptors, FromEntries, FromSwapEntries,
            At, Goto, ControlOK, Advances
<1>1. Frame
  BY WriterFrame
<1>2. entries' = entries /\ lib' = lib /\ pageDescCount' = pageDescCount
  BY <1>1 DEF Frame
<1>3. pageDescCount \in Nat /\ lib \in ImportLibraries
  BY DEF InputsOK
<1>4. lib.tableCount \in Nat /\ (lib.size # 0 <=> lib.tableCount > 0)
  BY <1>3, LibFacts
<1>5. CASE WriteXexHeader
  BY <1>2, <1>5 DEF WriteXexHeader
<1>6. CASE SwapEntries
  BY <1>2, <1>6 DEF SwapEntries
<1>7. CASE WriteEntry
  BY <1>2, <1>7 DEF WriteEntry
<1>8. CASE SeekDescriptors
  BY <1>2, <1>3, <1>8 DEF SeekDescriptors
<1>9. CASE WriteDescriptor
  <2>1. step = "descriptors" /\ j <= InMemory(SecInfo, pageDescCount)
    BY <1>9 DEF WriteDescriptor
  <2>2. j <= pageDescCount
    BY <2>1, Native
  <2> QED
    BY <1>2, <1>3, <1>9, <2>2 DEF WriteDescriptor
<1>10. CASE SeekBasefile
  BY <1>2, <1>10 DEF SeekBasefile, Return
<1>11. CASE CopyBlock
  BY <1>2, <1>11 DEF CopyBlock
<1>12. CASE EndBasefile
  BY <1>2, <1>12 DEF EndBasefile
<1>13. CASE WriteSecInfo
  BY <1>2, <1>13 DEF WriteSecInfo
<1>14. CASE WriteBasefileFormat
  BY <1>2, <1>14 DEF WriteBasefileFormat
<1>15. CASE SkipImports
  BY <1>2, <1>4, <1>15 DEF SkipImports
<1>16. CASE WriteImportLibs
  BY <1>2, <1>4, <1>16 DEF WriteImportLibs
<1>17. CASE RestoreTableCount
  BY <1>2, <1>4, <1>17 DEF RestoreTableCount
<1>18. CASE WriteImportTable
  BY <1>2, <1>4, <1>18 DEF WriteImportTable
<1>19. CASE EndImports
  BY <1>2, <1>4, <1>19 DEF EndImports
<1>20. CASE WriteTls
  BY <1>2, <1>20 DEF WriteTls
<1>21. CASE ReadOffsets
  BY <1>2, <1>21 DEF ReadOffsets, Reading
<1>22. CASE ReadOffsetsFails
  BY <1>2, <1>22 DEF ReadOffsetsFails, Reading, Return
<1>23. CASE HashRemainder
  BY <1>2, <1>23 DEF HashRemainder, HashRange, Reading, Return
<1>24. CASE HashStart
  BY <1>2, <1>24 DEF HashStart, HashRange, Reading, Return
<1>25. CASE WriteDigest
  BY <1>2, <1>25 DEF WriteDigest, Return
<1> QED
  BY <1>5, <1>6, <1>7, <1>8, <1>9, <1>10, <1>11, <1>12, <1>13, <1>14, <1>15, <1>16, <1>17,
     <1>18, <1>19, <1>20, <1>21, <1>22, <1>23, <1>24, <1>25 DEF WriterStep
(* What an action swaps is of a kind that has begun by then.               *)
LEMMA SwapsBegun ==
  ASSUME SwapsOK, Advances, littleEndian' = littleEndian, NEW fields,
         Swap(fields) \/ swapped' \in SUBSET swapped, \A f \in fields : Begun(f[1])'
  PROVE  /\ ~littleEndian' => swapped' = {}
         /\ \A s \in swapped' : Begun(s[1])'
         /\ swapped' \in SUBSET (swapped \cup fields)
<1>1. swapped' \in SUBSET (swapped \cup fields)
  BY DEF Swap, SymDiff
<1>2. \A s \in swapped : Begun(s[1])'
  BY BegunGrows DEF SwapsOK
<1>3. \A s \in swapped' : Begun(s[1])'
  BY <1>1, <1>2
<1>4. ~littleEndian' => swapped' = {}
  BY DEF Swap, SwapsOK
<1> QED
  BY <1>1, <1>3, <1>4

(* A field that is swapped for the first time ends up big endian.          *)
LEMMA SwappedOnce ==
  ASSUME SwapsOK, littleEndian \in BOOLEAN, NEW fields, Swap(fields),
         NEW f \in fields, f \notin swapped
  PROVE  ((f \in swapped') = littleEndian) = TRUE
<1>1. CASE littleEndian
  <2>1. f \in swapped'
    BY <1>1 DEF Swap, SymDiff
  <2> QED
    BY <1>1, <2>1
<1>2. CASE ~littleEndian
  <2>1. f \notin swapped'
    BY <1>2 DEF Swap, SwapsOK
  <2> QED
    BY <1>2, <2>1
<1> QED
  BY <1>1, <1>2

LEMMA SwapsKept ==
  ASSUME InputsOK, ControlOK, SwapsOK, Advances, WriterStep
  PROVE  SwapsOK'
<1> USE DEF FromReadOffsets, FromTls, FromTables, FromRestore, FromImports, FromFormat,
            FromSecInfo, FromBasefile, FromDescriptors, FromEntries, FromSwapEntries
<1> DEFINE Rest == /\ step' = "entries" /\ littleEndian' => Entries \in swapped'
                   /\ step' = "descriptors" =>
                        \A k \in Nat : k >= j' => Descriptor(k) \notin swapped'
                   /\ step' = "importTables" =>
                        \A k \in Nat : k >= j' => ImportTable(k) \notin swapped'
                   /\ TableCount \in swapped' => step' = "restore"
<1>0. Frame
  BY WriterFrame
<1>1. littleEndian' = littleEndian /\ littleEndian \in BOOLEAN /\ j \in Nat
  BY <1>0 DEF Frame, InputsOK, ControlOK
<1>2. ASSUME NEW fields, Swap(fields) \/ swapped' \in SUBSET swapped,
             \A f \in fields : Begun(f[1])',
             swapped' \in SUBSET (swapped \cup fields) => Rest
      PROVE  SwapsOK'
  <2>1. /\ ~littleEndian' => swapped' = {}
        /\ \A s \in swapped' : Begun(s[1])'
        /\ swapped' \in SUBSET (swapped \cup fields)
    BY <1>1, <1>2, SwapsBegun
  <2>2. Rest
    BY <1>2, <2>1
  <2> QED
    BY <2>1, <2>2 DEF SwapsOK
<1>3. ASSUME swapped' \in SUBSET swapped, Rest PROVE SwapsOK'
  <2>1. \A s \in swapped : Begun(s[1])'
    BY BegunGrows DEF SwapsOK
  <2>2. ~littleEndian' => swapped' = {}
    BY <1>1, <1>3 DEF SwapsOK
  <2> QED
    BY <1>3, <2>1, <2>2 DEF SwapsOK
<1> USE DEF At, Goto, XexHeader, Entries, Descriptor, SecInfo, BasefileFormat, ImportLibs,
            TableCount, ImportTable, Tls
<1>5. CASE WriteXexHeader
  <2>1. /\ step = "xexHeader" /\ step' = "swapEntries" /\ Swap({XexHeader})
    BY <1>5 DEF WriteXexHeader
  <2>2. \A f \in {XexHeader} : Begun(f[1])'
    BY <2>1 DEF Begun
  <2>3. swapped' \in SUBSET (swapped \cup {XexHeader}) => Rest
    BY <2>1 DEF SwapsOK
  <2> QED
    BY <1>2, <2>1, <2>2, <2>3
<1>6. CASE SwapEntries
  <2>1. step = "swapEntries" /\ step' = "entries" /\ Swap({Entries})
    BY <1>6 DEF SwapEntries
  <2>2. \A f \in {Entries} : Begun(f[1])'
    BY <2>1 DEF Begun
  <2>3. Entries \notin swapped
    BY <2>1 DEF SwapsOK, Begun
  <2>4. littleEndian => Entries \in swapped'
    BY <2>1, <2>3 DEF Swap, SymDiff
  <2>5. swapped' \in SUBSET (swapped \cup {Entries}) => Rest
    BY <1>1, <2>1, <2>4 DEF SwapsOK
  <2> QED
    BY <1>2, <2>1, <2>2, <2>5
<1>7. CASE WriteEntry
  <2>1. step = "entries" /\ step' = "entries" /\ swapped' = swapped
    BY <1>7 DEF WriteEntry
  <2>3. Rest /\ swapped' \in SUBSET swapped
    BY <1>1, <2>1 DEF SwapsOK
  <2> QED
    BY <2>3, <1>3
<1>8. CASE SeekDescriptors
  <2>1. step = "entries" /\ step' = "descriptors" /\ swapped' = swapped
    BY <1>8 DEF SeekDescriptors
  <2>2. \A k \in Nat : Descriptor(k) \notin swapped
    BY <2>1 DEF SwapsOK, Begun
  <2>3. Rest /\ swapped' \in SUBSET swapped
    BY <2>1, <2>2 DEF SwapsOK
  <2> QED
    BY <2>3, <1>3
<1>9. CASE WriteDescriptor
  <2>1. step = "descriptors" /\ step' = "descriptors" /\ Swap({Descriptor(j)}) /\ j' = j + 1
    BY <1>9 DEF WriteDescriptor
  <2>2. \A f \in {Descriptor(j)} : Begun(f[1])'
    BY <2>1 DEF Begun
  <2>3. \A k \in Nat : k >= j + 1 => Descriptor(k) \notin swapped /\ Descriptor(k) # Descriptor(j)
    BY <1>1, <2>1 DEF SwapsOK
  <2>4. swapped' \in SUBSET (swapped \cup {Descriptor(j)}) => Rest
    BY <2>1, <2>3 DEF SwapsOK
  <2> QED
    BY <1>2, <2>1, <2>2, <2>4
<1>10. CASE SeekBasefile
  <2>1. step = "descriptors" /\ step' \in {"basefile", "returned"} /\ swapped' = swapped
    BY <1>10 DEF SeekBasefile, Return
  <2>3. Rest /\ swapped' \in SUBSET swapped
    BY <2>1 DEF SwapsOK
  <2> QED
    BY <2>3, <1>3
<1>11. CASE CopyBlock
  <2>1. step = "basefile" /\ step' = "basefile" /\ swapped' = swapped
    BY <1>11 DEF CopyBlock
  <2>3. Rest /\ swapped' \in SUBSET swapped
    BY <2>1 DEF SwapsOK
  <2> QED
    BY <2>3, <1>3
<1>12. CASE EndBasefile
  <2>1. step = "basefile" /\ step' = "secInfo" /\ swapped' = swapped
    BY <1>12 DEF EndBasefile
  <2>3. Rest /\ swapped' \in SUBSET swapped
    BY <2>1 DEF SwapsOK
  <2> QED
    BY <2>3, <1>3
<1>13. CASE WriteSecInfo
  <2>1. /\ step = "secInfo" /\ step' = "basefileFormat" /\ Swap({SecInfo})
    BY <1>13 DEF WriteSecInfo
  <2>2. \A f \in {SecInfo} : Begun(f[1])'
    BY <2>1 DEF Begun
  <2>3. swapped' \in SUBSET (swapped \cup {SecInfo}) => Rest
    BY <2>1 DEF SwapsOK
  <2> QED
    BY <1>2, <2>1, <2>2, <2>3
<1>14. CASE WriteBasefileFormat
  <2>1. /\ step = "basefileFormat" /\ step' = "imports" /\ Swap({BasefileFormat})
    BY <1>14 DEF WriteBasefileFormat, WriteOptHeader
  <2>2. \A f \in {BasefileFormat} : Begun(f[1])'
    BY <2>1 DEF Begun
  <2>3. swapped' \in SUBSET (swapped \cup {BasefileFormat}) => Rest
    BY <2>1 DEF SwapsOK
  <2> QED
    BY <1>2, <2>1, <2>2, <2>3
<1>15. CASE SkipImports
  <2>1. step = "imports" /\ step' = "tlsInfo" /\ swapped' = swapped
    BY <1>15 DEF SkipImports
  <2>3. Rest /\ swapped' \in SUBSET swapped
    BY <2>1 DEF SwapsOK
  <2> QED
    BY <2>3, <1>3
<1>16. CASE WriteImportLibs
  <2>1. step = "imports" /\ step' = "restore" /\ Swap({ImportLibs, TableCount})
    BY <1>16 DEF WriteImportLibs, WriteOptHeader
  <2>2. \A f \in {ImportLibs, TableCount} : Begun(f[1])'
    BY <2>1 DEF Begun
  <2>3. swapped' \in SUBSET (swapped \cup {ImportLibs, TableCount}) => Rest
    BY <2>1
  <2> QED
    BY <1>2, <2>1, <2>2, <2>3
<1>17. CASE RestoreTableCount
  <2>1. step = "restore" /\ step' = "importTables" /\ swapped' = swapped \ {TableCount}
    BY <1>17 DEF RestoreTableCount
  <2>2. \A k \in Nat : ImportTable(k) \notin swapped
    BY <2>1 DEF SwapsOK, Begun
  <2>3. Rest /\ swapped' \in SUBSET swapped
    BY <2>1, <2>2 DEF SwapsOK
  <2> QED
    BY <2>3, <1>3
<1>18. CASE WriteImportTable
  <2>1. /\ step = "importTables" /\ step' = "importTables" /\ Swap({ImportTable(j)})
        /\ j' = j + 1
    BY <1>18 DEF WriteImportTable
  <2>2. \A f \in {ImportTable(j)} : Begun(f[1])'
    BY <2>1 DEF Begun
  <2>3. \A k \in Nat : k >= j + 1 => ImportTable(k) \notin swapped /\ ImportTable(k) # ImportTable(j)
    BY <1>1, <2>1 DEF SwapsOK
  <2>4. swapped' \in SUBSET (swapped \cup {ImportTable(j)}) => Rest
    BY <2>1, <2>3 DEF SwapsOK
  <2> QED
    BY <1>2, <2>1, <2>2, <2>4
<1>19. CASE EndImports
  <2>1. step = "importTables" /\ step' = "tlsInfo" /\ swapped' = swapped
    BY <1>19 DEF EndImports
  <2>3. Rest /\ swapped' \in SUBSET swapped
    BY <2>1 DEF SwapsOK
  <2> QED
    BY <2>3, <1>3
<1>20. CASE WriteTls
  <2>1. /\ step = "tlsInfo" /\ step' = "readOffsets" /\ Swap({Tls})
    BY <1>20 DEF WriteTls, WriteOptHeader
  <2>2. \A f \in {Tls} : Begun(f[1])'
    BY <2>1 DEF Begun
  <2>3. swapped' \in SUBSET (swapped \cup {Tls}) => Rest
    BY <2>1 DEF SwapsOK
  <2> QED
    BY <1>2, <2>1, <2>2, <2>3
<1>21. CASE ReadOffsets \/ ReadOffsetsFails \/ HashRemainder \/ HashStart \/ WriteDigest
  <2>1. /\ step \in FromReadOffsets /\ step' \in FromReadOffsets \cup {"returned"}
        /\ swapped' = swapped
    BY <1>21 DEF ReadOffsets, ReadOffsetsFails, HashRemainder, HashStart, WriteDigest,
                 HashRange, Reading, Return
  <2>3. Rest /\ swapped' \in SUBSET swapped
    BY <2>1 DEF SwapsOK
  <2> QED
    BY <2>3, <1>3
<1> QED
  BY <1>5, <1>6, <1>7, <1>8, <1>9, <1>10, <1>11, <1>12, <1>13, <1>14, <1>15, <1>16, <1>17,
     <1>18, <1>19, <1>20, <1>21 DEF WriterStep
-----------------------------------------------------------------------------
(* CoreInv is an invariant.                                                *)

(* A case is a host and an image of at least one page.                     *)
LEMMA CaseFacts ==
  ASSUME NEW c \in Cases
  PROVE  /\ c.pages \in PageCounts /\ c.pages \in Nat
         /\ c.pages * c.pageSize + c.tail \in Nat \ {0}
         /\ c.littleEndian \in BOOLEAN /\ c.reliable \in BOOLEAN
<1>1. \A n \in Nat \ {0}, t \in Nat, z \in {4096, 65536} : n * z + t \in Nat \ {0}
  <2>1. \A n \in Nat \ {0}, t \in Nat : n * 4096 + t \in Nat \ {0}
    OBVIOUS
  <2>2. \A n \in Nat \ {0}, t \in Nat : n * 65536 + t \in Nat \ {0}
    OBVIOUS
  <2> QED
    BY <2>1, <2>2
<1>2. PageCounts \subseteq Nat
  BY PlacerAssumption
<1>3. /\ c.pages \in PageCounts /\ c.pages # 0
      /\ c.littleEndian \in BOOLEAN /\ c.reliable \in BOOLEAN
  BY WriteXEXAssumption
<1>4. c.pages \in Nat \ {0}
  BY <1>2, <1>3
<1>5. c.pageSize \in {4096, 65536} /\ c.tail \in 0 .. c.pageSize - 1
  BY WriteXEXAssumption
<1>6. c.tail \in Nat
  BY SMT, <1>5
<1> QED
  BY <1>1, <1>3, <1>4, <1>5, <1>6

LEMMA CoreInit == WriteInit => CoreInv
<1> SUFFICES ASSUME WriteInit PROVE CoreInv
  OBVIOUS
<1>1. LayoutInv /\ TablesInv
  BY InitLayout DEF WriteInit, PlacerInit, TablesInv
<1>2. NotStarted
  BY DEF WriteInit, NotStarted
<1>3. InputsOK
  <2>1. \E c \in Cases : /\ pageDescCount = c.pages
                         /\ peSize = c.pages * c.pageSize + c.tail
                         /\ littleEndian = c.littleEndian /\ reliable = c.reliable
    BY DEF WriteInit
  <2>2. lib \in ImportLibraries
    BY DEF WriteInit, PlacerInit
  <2> QED
    BY <2>1, <2>2, CaseFacts DEF InputsOK
<1>4. ControlOK /\ SwapsOK
  BY <1>2 DEF NotStarted, ControlOK, SwapsOK, FromReadOffsets, FromTls, FromTables, FromRestore,
              FromImports, FromFormat, FromSecInfo, FromBasefile, FromDescriptors, FromEntries,
              FromSwapEntries
<1> QED
  BY <1>1, <1>2, <1>3, <1>4 DEF CoreInv

(* A step of the placer, before the writer starts.                         *)
LEMMA PlacerLeaves ==
  ASSUME PlacerStep
  PROVE  pc # "placed" /\ UNCHANGED placerInputs
BY DEF PlacerStep, PlaceHeaders, AllocOptHeaders, PlaceSeparateHeader, ReserveImportHeader,
       SkipInlineHeader, NextEntry, PlaceBasefile, PlaceImports

LEMMA NextCases ==
  ASSUME [Next]_vars
  PROVE  \/ PlacerStep /\ UNCHANGED writeVars
         \/ WriterStep
         \/ UNCHANGED vars
BY DEF Next, Step

LEMMA CoreNext == CoreInv /\ [Next]_vars => CoreInv'
<1> SUFFICES ASSUME CoreInv, [Next]_vars PROVE CoreInv'
  OBVIOUS
<1>1. LayoutInv /\ TablesInv /\ InputsOK /\ ControlOK /\ SwapsOK
  BY DEF CoreInv
<1>2. [PlacerNext]_placerVars
  <2>1. CASE PlacerStep
    BY <2>1 DEF PlacerNext
  <2>2. CASE WriterStep
    BY <2>2, WriterFrame
  <2>3. CASE UNCHANGED vars
    BY <2>3 DEF vars
  <2> QED
    BY <2>1, <2>2, <2>3, NextCases
<1>3. LayoutInv' /\ TablesInv'
  BY <1>1, <1>2, NextLayout, NextTables
<1>4. CASE PlacerStep /\ UNCHANGED writeVars
  <2>1. NotStarted
    BY <1>4, PlacerLeaves DEF CoreInv
  <2>2. NotStarted'
    BY <1>4, <2>1 DEF NotStarted, writeVars, inputs
  <2>3. InputsOK'
    BY <1>1, <1>4, PlacerLeaves DEF InputsOK, writeVars, inputs, placerInputs
  <2>4. ControlOK' /\ SwapsOK'
    BY <2>2 DEF NotStarted, ControlOK, SwapsOK, FromReadOffsets, FromTls, FromTables,
                FromRestore, FromImports, FromFormat, FromSecInfo, FromBasefile,
                FromDescriptors, FromEntries, FromSwapEntries
  <2> QED
    BY <1>3, <2>2, <2>3, <2>4 DEF CoreInv
<1>5. CASE WriterStep
  <2>1. pc' = "placed" /\ Frame
    BY <1>5, WriterFrame DEF Frame
  <2>2. InputsOK'
    BY <1>1, <2>1 DEF InputsOK, Frame
  <2>3. Len(entries) \in Nat
    BY <1>1, EntryFacts DEF LayoutInv
  <2>4. ControlOK' /\ Advances
    BY <1>1, <1>5, <2>3, ControlKept
  <2>5. SwapsOK'
    BY <1>1, <1>5, <2>4, SwapsKept
  <2> QED
    BY <1>3, <2>1, <2>2, <2>4, <2>5 DEF CoreInv
<1>6. CASE UNCHANGED vars
  <2>1. UNCHANGED vars
    BY <1>6
  <2>2. NotStarted' = NotStarted /\ pc' = pc
    BY <2>1 DEF NotStarted, vars, placerVars, writeVars, inputs
  <2>3. InputsOK'
    BY <1>1, <2>1 DEF InputsOK, vars, placerVars, writeVars, inputs
  <2>4. ControlOK'
    BY <1>1, <2>1 DEF ControlOK, vars, placerVars, writeVars, inputs
  <2>5. SwapsOK'
    BY <1>1, <2>1 DEF SwapsOK, Begun, vars, placerVars, writeVars, inputs
  <2> QED
    BY <1>3, <2>2, <2>3, <2>4, <2>5 DEF CoreInv
<1> QED
  BY <1>4, <1>5, <1>6, NextCases

LEMMA CoreInvariant == Spec => []CoreInv
BY CoreInit, CoreNext, PTL DEF Spec

(***************************************************************************)
(* Whenever control is back in main, the count by which main frees the     *)
(* import tables is in the order of the host.                              *)
(***************************************************************************)
THEOREM TableCountForFree == Spec => []FreeSeesTableCount
<1>1. CoreInv => FreeSeesTableCount
  BY DEF CoreInv, SwapsOK, FreeSeesTableCount
<1> QED
  BY <1>1, CoreInvariant, PTL
-----------------------------------------------------------------------------
(* What a write does to the file.                                          *)

(* Two extents that may not share a byte do not: their regions differ, or  *)
(* one was written behind the other.                                       *)
SameRegion(x, e) ==
  \/ x.what[1] = e.what[1]
  \/ x.what[1] \in ImportKinds /\ e.what[1] \in ImportKinds

Apart(x, e) == x.at + x.len <= e.at \/ e.at + e.len <= x.at

(* An extent lies between two bounds that depend on its kind alone.        *)
LEMMA Zones ==
  ASSUME Regions, NEW x, Extent(x)
  PROVE  LET kind == x.what[1]
             end  == x.at + x.len
         IN  /\ x.at \in Nat /\ end \in Nat /\ x.at <= end
             /\ kind = "xexHeader" => end <= 24
             /\ kind = "optHeaderEntries" => 24 <= x.at /\ end <= secAt
             /\ kind \in {"secInfoHeader", "headersHash"} => secAt <= x.at /\ end <= secAt + 388
             /\ kind = "pageDescriptor" => secAt + 388 <= x.at /\ end <= fmtAt
             /\ kind = "basefileFormat" => fmtAt <= x.at /\ end <= tlsAt
             /\ kind = "tlsInfo" => tlsAt <= x.at /\ end <= impAt
             /\ kind \in ImportKinds => impAt <= x.at /\ end <= baseAt
             /\ kind = "basefile" => baseAt <= x.at
             /\ kind \in {"xexHeader", "optHeaderEntries", "secInfoHeader", "headersHash",
                          "pageDescriptor", "basefileFormat", "tlsInfo", "basefile"}
                  \cup ImportKinds
<1> DEFINE kind == x.what[1]
           end  == x.at + x.len
<1>1. x.at \in Nat /\ x.len \in Nat /\ end \in Nat /\ x.at <= end /\ kind \in Kinds
  BY DEF Extent
<1>2. InRegion(x)
  BY DEF Extent
<1>3. kind = "xexHeader" => end <= 24
  BY <1>2 DEF InRegion
<1>4. kind = "optHeaderEntries" => 24 <= x.at /\ end <= secAt
  BY <1>1, <1>2 DEF InRegion, Regions
<1>5. kind = "secInfoHeader" => secAt <= x.at /\ end <= secAt + 388
  BY <1>1, <1>2 DEF InRegion
<1>6. kind = "headersHash" => secAt <= x.at /\ end <= secAt + 388
  BY <1>1, <1>2 DEF InRegion, Regions
<1>7. kind = "pageDescriptor" => secAt + 388 <= x.at /\ end <= fmtAt
  BY <1>1, <1>2 DEF InRegion, Regions
<1>8. kind = "basefileFormat" => fmtAt <= x.at /\ end <= tlsAt
  BY <1>1, <1>2 DEF InRegion, Regions
<1>9. kind = "tlsInfo" => tlsAt <= x.at /\ end <= impAt
  BY <1>1, <1>2 DEF InRegion, Regions
<1>10. kind \in ImportKinds => impAt <= x.at /\ end <= baseAt
  BY <1>2 DEF InRegion
<1>11. kind = "basefile" => baseAt <= x.at
  BY <1>2 DEF InRegion
<1> QED
  BY <1>1, <1>3, <1>4, <1>5, <1>6, <1>7, <1>8, <1>9, <1>10, <1>11 DEF Kinds, ImportKinds

(* The bounds, in the order of the file.                                   *)
LEMMA Bounds1 ==
  ASSUME Regions
  PROVE  /\ secAt \in Nat /\ fmtAt \in Nat /\ tlsAt \in Nat /\ impAt \in Nat /\ baseAt \in Nat
         /\ 24 <= secAt /\ secAt + 388 <= fmtAt /\ fmtAt <= tlsAt /\ tlsAt <= impAt
         /\ impAt <= baseAt
BY DEF Regions

LEMMA RegionsApart ==
  ASSUME Regions, NEW x, NEW e, Extent(x), Extent(e), ~SameRegion(x, e)
  PROVE  Apart(x, e)
<1> DEFINE k == x.what[1]
           m == e.what[1]
           xs == x.at
           xe == x.at + x.len
           es == e.at
           ee == e.at + e.len
           sec == {"secInfoHeader", "headersHash"}
<1>1. CASE k \in sec /\ m \in sec
  <2>1. \A y \in {x, e} :
          /\ y.at \in Nat /\ y.len \in Nat
          /\ y.what[1] = "secInfoHeader" => y.at + y.len <= secAt + 356 \/ secAt + 376 <= y.at
          /\ y.what[1] = "headersHash" => y.at = secAt + 356 /\ y.len = 20
    BY DEF Extent, InRegion
  <2>2. k # m
    BY DEF SameRegion
  <2>3. CASE k = "secInfoHeader" /\ m = "headersHash"
    BY <2>1, <2>3, Bounds1 DEF Apart
  <2>4. CASE k = "headersHash" /\ m = "secInfoHeader"
    BY <2>1, <2>4, Bounds1 DEF Apart
  <2> QED
    BY <1>1, <2>2, <2>3, <2>4
<1>2. CASE ~(k \in sec /\ m \in sec)
  <2>1. /\ xs \in Nat /\ xe \in Nat /\ xs <= xe
        /\ k = "xexHeader" => xe <= 24
        /\ k = "optHeaderEntries" => 24 <= xs /\ xe <= secAt
        /\ k \in sec => secAt <= xs /\ xe <= secAt + 388
        /\ k = "pageDescriptor" => secAt + 388 <= xs /\ xe <= fmtAt
        /\ k = "basefileFormat" => fmtAt <= xs /\ xe <= tlsAt
        /\ k = "tlsInfo" => tlsAt <= xs /\ xe <= impAt
        /\ k \in ImportKinds => impAt <= xs /\ xe <= baseAt
        /\ k = "basefile" => baseAt <= xs
        /\ k \in {"xexHeader", "optHeaderEntries", "pageDescriptor", "basefileFormat",
                   "tlsInfo", "basefile"} \cup sec \cup ImportKinds
    BY Zones
  <2>2. /\ es \in Nat /\ ee \in Nat /\ es <= ee
        /\ m = "xexHeader" => ee <= 24
        /\ m = "optHeaderEntries" => 24 <= es /\ ee <= secAt
        /\ m \in sec => secAt <= es /\ ee <= secAt + 388
        /\ m = "pageDescriptor" => secAt + 388 <= es /\ ee <= fmtAt
        /\ m = "basefileFormat" => fmtAt <= es /\ ee <= tlsAt
        /\ m = "tlsInfo" => tlsAt <= es /\ ee <= impAt
        /\ m \in ImportKinds => impAt <= es /\ ee <= baseAt
        /\ m = "basefile" => baseAt <= es
        /\ m \in {"xexHeader", "optHeaderEntries", "pageDescriptor", "basefileFormat",
                   "tlsInfo", "basefile"} \cup sec \cup ImportKinds
    BY Zones
  <2>3. k # m /\ ~(k \in ImportKinds /\ m \in ImportKinds) /\ ~(k \in sec /\ m \in sec)
    BY <1>2 DEF SameRegion
  <2> HIDE DEF k, m, xs, xe, es, ee
  <2>4. ASSUME k = "xexHeader" PROVE xe <= es \/ ee <= xs
    BY <2>1, <2>2, <2>3, <2>4, Bounds1 DEF ImportKinds
  <2>5. ASSUME k = "optHeaderEntries" PROVE xe <= es \/ ee <= xs
    BY <2>1, <2>2, <2>3, <2>5, Bounds1 DEF ImportKinds
  <2>6. ASSUME k \in sec PROVE xe <= es \/ ee <= xs
    BY <2>1, <2>2, <2>3, <2>6, Bounds1 DEF ImportKinds
  <2>7. ASSUME k = "pageDescriptor" PROVE xe <= es \/ ee <= xs
    BY <2>1, <2>2, <2>3, <2>7, Bounds1 DEF ImportKinds
  <2>8. ASSUME k = "basefileFormat" PROVE xe <= es \/ ee <= xs
    BY <2>1, <2>2, <2>3, <2>8, Bounds1 DEF ImportKinds
  <2>9. ASSUME k = "tlsInfo" PROVE xe <= es \/ ee <= xs
    BY <2>1, <2>2, <2>3, <2>9, Bounds1 DEF ImportKinds
  <2>10. ASSUME k \in ImportKinds PROVE xe <= es \/ ee <= xs
    BY <2>1, <2>2, <2>3, <2>10, Bounds1 DEF ImportKinds
  <2>11. ASSUME k = "basefile" PROVE xe <= es \/ ee <= xs
    BY <2>1, <2>2, <2>3, <2>11, Bounds1 DEF ImportKinds
  <2>12. xe <= es \/ ee <= xs
    BY <2>1, <2>4, <2>5, <2>6, <2>7, <2>8, <2>9, <2>10, <2>11
  <2> QED
    BY <2>12 DEF Apart, xs, xe, es, ee
<1> QED
  BY <1>1, <1>2
(* What a write that destroys nothing adds to the file.                    *)
Addable(e) == Extent(e) /\ Begun(e.what[1])' /\ e.what # Digest

Adds(new) ==
  /\ \A e \in new : Addable(e)
  /\ \E top \in Nat : \A e \in new : e.at + e.len <= top
  /\ file' = file \cup new \/ (~reliable /\ file' = file)

LEMMA Added ==
  ASSUME Regions, FileOK, NEW new, NEW top \in Nat,
         \A e \in new : Addable(e) /\ e.at + e.len <= top,
         \A e \in new, x \in file : SameRegion(x, e) => x.at + x.len <= e.at,
         file' = Overwrite(file, new) \/ (~reliable /\ file' = file)
  PROVE  Adds(new)
<1>1. \A e \in new, x \in file : Apart(x, e)
  <2> SUFFICES ASSUME NEW e \in new, NEW x \in file PROVE Apart(x, e)
    OBVIOUS
  <2>1. Extent(x) /\ Extent(e)
    BY DEF FileOK, Addable
  <2>2. CASE SameRegion(x, e)
    BY <2>2 DEF Apart
  <2>3. CASE ~SameRegion(x, e)
    BY <2>1, <2>3, RegionsApart
  <2> QED
    BY <2>2, <2>3
<1>2. Overwrite(file, new) = file \cup new
  BY <1>1, Zenon DEF Overwrite, Apart
<1> QED
  BY <1>2 DEF Adds

(* A write that came up short left the file and the position alone.        *)
Wrote(new, at, len) ==
  \/ file' = file \cup new /\ pos' = at + len
  \/ ~reliable /\ file' = file /\ pos' = at

LEMMA Written ==
  ASSUME NEW new, NEW at, NEW len, Fwrite(at, new, len), Adds(new)
  PROVE  Wrote(new, at, len)
<1>1. CASE file' = Overwrite(file, new) /\ pos' = at + len
  <2>1. new \subseteq file'
    BY <1>1 DEF Overwrite
  <2>2. file' = file \cup new
    BY <2>1 DEF Adds
  <2> QED
    BY <1>1, <2>2 DEF Wrote
<1> QED
  BY <1>1 DEF Fwrite, Wrote

LEMMA AddedNone ==
  ASSUME file' = file
  PROVE  Adds({})
BY DEF Adds

(* An extent stays one while the layout and the inputs stay what they are. *)
LEMMA ExtentKept ==
  ASSUME Frame, NEW x, Extent(x)
  PROVE  Extent(x)'
BY DEF Frame, Extent, InRegion, Wanted, secAt, fmtAt, tlsAt, impAt, baseAt

LEMMA FileGrows ==
  ASSUME FileOK, Bounded, Frame, Advances, NEW new, Adds(new)
  PROVE  /\ FileOK' /\ Bounded'
         /\ Digest \notin InFile => Digest \notin InFile'
         /\ \A kinds, at : EndsBy(kinds, at) /\ (\A e \in new : e.what[1] \in kinds => e.at + e.len <= at)
              => \A x \in file' : x.what[1] \in kinds => x.at + x.len <= at
<1>1. file' \in SUBSET (file \cup new)
  BY DEF Adds
<1>2. FileOK'
  <2> SUFFICES ASSUME NEW x \in file' PROVE Extent(x)' /\ Begun(x.what[1])'
    BY DEF FileOK
  <2>1. Extent(x) /\ Begun(x.what[1])'
    BY <1>1, BegunGrows DEF FileOK, Adds, Addable
  <2> QED
    BY <2>1, ExtentKept
<1>3. Bounded'
  <2>1. PICK a \in Nat : \A x \in file : x.at + x.len <= a
    BY DEF Bounded
  <2>2. PICK b \in Nat : \A x \in new : x.at + x.len <= b
    BY DEF Adds
  <2>3. \A x \in file \cup new : x.at \in Nat /\ x.len \in Nat
    BY DEF FileOK, Adds, Addable, Extent
  <2>4. a + b \in Nat
    OBVIOUS
  <2>5. \A x \in file' : x.at + x.len <= a + b
    BY <1>1, <2>1, <2>2, <2>3
  <2> QED
    BY <2>4, <2>5 DEF Bounded
<1>4. Digest \notin InFile => Digest \notin InFile'
  BY <1>1 DEF InFile, Adds, Addable
<1>5. ASSUME NEW kinds, NEW at, EndsBy(kinds, at),
             \A e \in new : e.what[1] \in kinds => e.at + e.len <= at
      PROVE  \A x \in file' : x.what[1] \in kinds => x.at + x.len <= at
  BY <1>1, <1>5 DEF EndsBy
<1> QED
  BY <1>2, <1>3, <1>4, <1>5

(* Where the tables go: each behind the one before, the last up to the     *)
(* basefile.                                                               *)
LEMMA TableFacts ==
  ASSUME lib \in ImportLibraries, lib.tableCount > 0
  PROVE  /\ lib.tableCount \in Nat /\ lib.size \in Nat /\ lib.nameTableSize \in Nat \ {0}
         /\ TableAt(1) = 12 + lib.nameTableSize
         /\ \A k \in 1 .. lib.tableCount :
              /\ lib.addressCounts[k] \in Nat /\ TableAt(k) \in Nat /\ TableAt(k + 1) \in Nat
              /\ TableAt(k + 1) = TableAt(k) + 40 + 4 * lib.addressCounts[k]
              /\ TableAt(k + 1) <= lib.size
         /\ TableAt(lib.tableCount + 1) = lib.size
         /\ 12 + lib.nameTableSize <= lib.size
<1> DEFINE n == lib.nameTableSize
           c == lib.addressCounts
           m == lib.tableCount
<1>1. /\ lib.size \in Nat /\ m \in Nat /\ c \in Seq(Nat) /\ m = Len(c) /\ n \in Nat \ {0}
      /\ lib.size = ImportTableAt(n, c)[m + 1] /\ m > 0
  BY LibFacts
<1>2. /\ ImportTableAt(n, c)[1] = 12 + n
      /\ \A k \in 1 .. Len(c) : ImportTableAt(n, c)[k + 1] = ImportTableAt(n, c)[k] + 40 + 4 * c[k]
  BY <1>1, TableAtStep
<1>3. /\ \A k \in 1 .. Len(c) + 1 : ImportTableAt(n, c)[k] \in Nat
      /\ \A k \in 1 .. Len(c) + 1 : /\ 12 + n <= ImportTableAt(n, c)[k]
                                    /\ ImportTableAt(n, c)[k] <= ImportLibrariesSize(n, c)
  BY <1>1, TableAtAscends
<1>4. ImportLibrariesSize(n, c) = lib.size
  BY <1>1 DEF ImportLibrariesSize
<1>5. \A k \in 1 .. m : c[k] \in Nat
  BY <1>1
<1> DEFINE at == ImportTableAt(n, c)
           size == lib.size
<1>6. /\ size \in Nat /\ m \in Nat /\ m > 0 /\ n \in Nat \ {0} /\ size = at[m + 1] /\ at[1] = 12 + n
      /\ \A k \in 1 .. m : at[k + 1] = at[k] + 40 + 4 * c[k]
      /\ \A k \in 1 .. m + 1 : at[k] \in Nat /\ 12 + n <= at[k] /\ at[k] <= size
  BY <1>1, <1>2, <1>3, <1>4
<1>7. \A k : TableAt(k) = at[k]
  BY DEF TableAt
<1> HIDE DEF n, c, m, at, size
<1>8. \A k \in 1 .. m : k \in 1 .. m + 1 /\ k + 1 \in 1 .. m + 1
  BY <1>6
<1>9. 1 \in 1 .. m + 1
  BY <1>6
<1>10. /\ at[1] = 12 + n /\ 12 + n <= size
       /\ \A k \in 1 .. m : /\ c[k] \in Nat /\ at[k] \in Nat /\ at[k + 1] \in Nat
                            /\ at[k + 1] = at[k] + 40 + 4 * c[k]
                            /\ at[k + 1] <= size
  BY <1>5, <1>6, <1>8, <1>9
<1> QED
  BY <1>6, <1>7, <1>10 DEF n, c, m, size

LEMMA WriterRegions ==
  ASSUME CoreInv, WriterStep
  PROVE  Regions
BY WriterFrame, PlacedRegions DEF CoreInv, Placed
-----------------------------------------------------------------------------
(* What each action adds.                                                  *)

(* A kind that has not begun is not in the file.                           *)
LEMMA NoneYet ==
  ASSUME FileOK, NEW kind, ~Begun(kind)
  PROVE  \A x \in file : x.what[1] # kind
BY DEF FileOK

(* One field, where nothing of its region lies behind it.                  *)
FieldFits(what, kind, at, len, source) ==
  /\ what[1] = kind /\ kind \in Kinds /\ Begun(kind)' /\ what \in Wanted /\ what # Digest
  /\ at \in Nat /\ len \in Nat \ {0} /\ InRegion(Raw(what, at, len))
  /\ ((source \in swapped') = littleEndian) = TRUE
  /\ \A x \in file : (x.what[1] = kind \/ (x.what[1] \in ImportKinds /\ kind \in ImportKinds))
                       => x.at + x.len <= at
  /\ Fwrite(at, {Field(what, at, len, source)}, len)

LEMMA OneField ==
  ASSUME Regions, FileOK, NEW what, NEW kind, NEW at, NEW len, NEW source,
         FieldFits(what, kind, at, len, source)
  PROVE  Adds({Raw(what, at, len)}) /\ Wrote({Raw(what, at, len)}, at, len)
<1> USE DEF FieldFits
<1> DEFINE e == Raw(what, at, len)
<1>1. Field(what, at, len, source) = e
  BY DEF Field, Raw
<1>2. /\ e.what = what /\ e.at = at /\ e.len = len /\ e.bigEndian = TRUE
  BY DEF Raw
<1>3. file' = Overwrite(file, {e}) \/ (~reliable /\ file' = file)
  BY <1>1 DEF Fwrite
<1>4. Fwrite(at, {e}, len)
  BY <1>1
<1>5. InRegion(e)
  OBVIOUS
<1> HIDE DEF e, FieldFits
<1>6. Addable(e)
  BY <1>2, <1>5 DEF Addable, Extent, FieldFits
<1>7. \A x \in file : SameRegion(x, e) => x.at + x.len <= e.at
  BY <1>2 DEF SameRegion, FieldFits
<1>8. at + len \in Nat /\ e.at + e.len <= at + len
  BY <1>2 DEF FieldFits
<1>9. Adds({e})
  BY <1>3, <1>6, <1>7, <1>8, Added
<1> QED
  BY <1>4, <1>9, Written DEF e

(* The only structure of its kind.                                         *)
OnlyOne(what, kind, at, len) ==
  /\ what[1] = kind /\ kind \in Kinds \ ImportKinds /\ ~Begun(kind) /\ Begun(kind)'
  /\ what \in Wanted /\ what # Digest
  /\ at \in Nat /\ len \in Nat \ {0} /\ InRegion(Raw(what, at, len))
  /\ Swap({what}) /\ Fwrite(at, {Field(what, at, len, what)}, len)

LEMMA OnlyField ==
  ASSUME CoreInv, Regions, FileOK, NEW what, NEW kind, NEW at, NEW len,
         OnlyOne(what, kind, at, len)
  PROVE  Adds({Raw(what, at, len)}) /\ Wrote({Raw(what, at, len)}, at, len)
<1>1. SwapsOK /\ InputsOK
  BY DEF CoreInv
<1>2. what \notin swapped
  BY <1>1 DEF SwapsOK, OnlyOne
<1>3. ((what \in swapped') = littleEndian) = TRUE
  BY <1>1, <1>2, SwappedOnce DEF InputsOK, OnlyOne
<1>4. \A x \in file : x.what[1] # kind
  BY NoneYet DEF OnlyOne
<1>5. FieldFits(what, kind, at, len, what)
  BY <1>3, <1>4 DEF FieldFits, OnlyOne
<1> QED
  BY <1>5, OneField

(* What begins with which step.                                            *)
LEMMA Begins ==
  /\ step = "xexHeader" => ~Begun("xexHeader")
  /\ step = "swapEntries" => ~Begun("optHeaderEntries")
  /\ step \in {"entries"} => ~Begun("pageDescriptor") /\ Begun("optHeaderEntries")
  /\ step \in {"descriptors"} => ~Begun("basefile") /\ Begun("pageDescriptor")
  /\ step \in {"basefile"} => Begun("basefile")
  /\ step = "secInfo" => ~Begun("secInfoHeader") /\ ~Begun("headersHash")
  /\ step = "basefileFormat" => ~Begun("basefileFormat")
  /\ step = "imports" => \A k \in ImportKinds : ~Begun(k)
  /\ step = "tlsInfo" => ~Begun("tlsInfo")
BY DEF Begun, FromReadOffsets, FromTls, FromTables, FromRestore, FromImports, FromFormat,
       FromSecInfo, FromBasefile, FromDescriptors, FromEntries, FromSwapEntries, ImportKinds

LEMMA BeginsNext ==
  /\ step' = "swapEntries" => Begun("xexHeader")'
  /\ step' = "entries" => Begun("optHeaderEntries")'
  /\ step' = "descriptors" => Begun("pageDescriptor")'
  /\ step' = "basefile" => Begun("basefile")'
  /\ step' = "basefileFormat" => Begun("secInfoHeader")' /\ Begun("headersHash")'
  /\ step' = "imports" => Begun("basefileFormat")'
  /\ step' = "restore" => Begun("importLibraries")' /\ Begun("nameTable")'
  /\ step' = "importTables" => Begun("importTable")'
  /\ step' = "readOffsets" => Begun("tlsInfo")'
BY DEF Begun, FromReadOffsets, FromTls, FromTables, FromRestore, FromImports, FromFormat,
       FromSecInfo, FromBasefile, FromDescriptors, FromEntries, FromSwapEntries

(* The XEX header.                                                         *)
XexHeaderNew == {Raw(XexHeader, 0, 24)}

LEMMA XexHeaderAdded ==
  ASSUME CoreInv, FileInv, WriteXexHeader
  PROVE  Adds(XexHeaderNew) /\ Wrote(XexHeaderNew, 0, 24)
<1>1. Regions /\ FileOK
  BY WriterRegions DEF FileInv, WriterStep
<1>2. /\ step = "xexHeader" /\ step' = "swapEntries" /\ Swap({XexHeader})
      /\ Fwrite(0, {Field(XexHeader, 0, 24, XexHeader)}, 24)
  BY <1>1 DEF WriteXexHeader, At, Goto, SizeofXexHeader, Regions
<1>3. ~Begun("xexHeader") /\ Begun("xexHeader")'
  BY <1>2, Begins, BeginsNext
<1>4. InRegion(Raw(XexHeader, 0, 24))
  BY DEF InRegion, Raw, XexHeader, ImportKinds
<1>5. OnlyOne(XexHeader, "xexHeader", 0, 24)
  BY <1>2, <1>3, <1>4 DEF OnlyOne, XexHeader, Digest, Wanted, Kinds, ImportKinds
<1> QED
  BY <1>1, <1>5, OnlyField DEF XexHeaderNew

(* One entry, behind the last.                                             *)
EntryNew == {Raw(<<"optHeaderEntries", j>>, pos, 8)}

LEMMA EntryAdded ==
  ASSUME CoreInv, FileInv, WriteEntry
  PROVE  Adds(EntryNew) /\ Wrote(EntryNew, pos, 8)
<1> DEFINE what == <<"optHeaderEntries", j>>
<1>1. Regions /\ SwapsOK /\ InputsOK /\ FileOK /\ ControlOK /\ Frontier /\ pos \in Nat
  BY WriterRegions DEF CoreInv, FileInv, WriterStep
<1>2. /\ step = "entries" /\ step' = "entries" /\ swapped' = swapped
      /\ littleEndian' = littleEndian /\ j <= Len(entries)
      /\ Fwrite(pos, {Field(what, pos, 8, Entries)}, 8)
  BY DEF WriteEntry, At, SizeofOptHeaderEntry, inputs
<1>3. Begun("optHeaderEntries")'
  BY <1>2, BeginsNext
<1>4. ((Entries \in swapped') = littleEndian) = TRUE
  <2>1. CASE littleEndian
    <3>1. Entries \in swapped'
      BY <1>1, <1>2, <2>1 DEF SwapsOK
    <3> QED
      BY <1>1, <2>1, <3>1 DEF InputsOK
  <2>2. CASE ~littleEndian
    <3>1. Entries \notin swapped'
      BY <1>1, <1>2, <2>2 DEF SwapsOK
    <3> QED
      BY <1>1, <2>2, <3>1 DEF InputsOK
  <2> QED
    BY <2>1, <2>2
<1>5. /\ 24 <= pos /\ pos <= 24 + 8 * (j - 1) /\ EndsBy({"optHeaderEntries"}, pos)
      /\ j \in Nat \ {0} /\ Len(entries) \in Nat
  BY <1>1, <1>2 DEF Frontier, ControlOK, Regions
<1>6. pos + 8 <= 24 + 8 * Len(entries)
  BY <1>1, <1>2, <1>5
<1>7. InRegion(Raw(what, pos, 8))
  BY <1>1, <1>5, <1>6 DEF InRegion, Raw, ImportKinds
<1>8. what \in Wanted
  BY <1>1, <1>2, <1>5 DEF Wanted, Regions
<1>9. FieldFits(what, "optHeaderEntries", pos, 8, Entries)
  BY <1>1, <1>2, <1>3, <1>4, <1>5, <1>7, <1>8
     DEF FieldFits, EndsBy, Kinds, ImportKinds, Digest
<1> QED
  BY <1>1, <1>9, OneField DEF EntryNew

(* One page descriptor, behind the last.                                   *)
DescriptorNew == {Raw(Descriptor(j), pos, 24)}

LEMMA DescriptorAdded ==
  ASSUME CoreInv, FileInv, WriteDescriptor
  PROVE  Adds(DescriptorNew) /\ Wrote(DescriptorNew, pos, 24) /\ j <= pageDescCount
<1> DEFINE what == Descriptor(j)
<1>1. Regions /\ SwapsOK /\ InputsOK /\ FileOK /\ ControlOK /\ Frontier /\ pos \in Nat
  BY WriterRegions DEF CoreInv, FileInv, WriterStep
<1>2. /\ step = "descriptors" /\ step' = "descriptors" /\ Swap({what})
      /\ j <= InMemory(SecInfo, pageDescCount)
      /\ Fwrite(pos, {Field(what, pos, 24, what)}, 24)
  BY DEF WriteDescriptor, At, SizeofPageDescriptor
<1>3. Begun("pageDescriptor")'
  BY <1>2, BeginsNext
<1>4. j <= pageDescCount /\ pageDescCount \in Nat
  BY <1>1, <1>2, Native DEF InputsOK
<1>5. /\ secAt + 388 <= pos /\ pos <= secAt + 388 + 24 * (j - 1)
      /\ EndsBy({"pageDescriptor"}, pos)
      /\ j \in Nat \ {0} /\ secAt \in Nat
  BY <1>1, <1>2 DEF Frontier, ControlOK, Regions
<1>6. pos + 24 <= secAt + 388 + 24 * pageDescCount
  BY <1>1, <1>4, <1>5
<1>7. ((what \in swapped') = littleEndian) = TRUE
  <2>1. what \notin swapped
    BY <1>1, <1>2, <1>5 DEF SwapsOK
  <2> QED
    BY <1>1, <1>2, <2>1, SwappedOnce DEF InputsOK
<1>8. what[1] = "pageDescriptor" /\ what # Digest /\ what \in Wanted
  BY <1>4, <1>5 DEF Descriptor, Digest, Wanted
<1>9. InRegion(Raw(what, pos, 24))
  BY <1>1, <1>5, <1>6 DEF InRegion, Raw, Descriptor, ImportKinds
<1>10. FieldFits(what, "pageDescriptor", pos, 24, what)
  BY <1>1, <1>2, <1>3, <1>5, <1>7, <1>8, <1>9 DEF FieldFits, EndsBy, Kinds, ImportKinds
<1> QED
  BY <1>1, <1>4, <1>10, OneField DEF DescriptorNew
(* One block of the basefile, behind the last.                             *)
BlockNew == {Raw(Basefile(j), pos, BytesToRead)}

(* A turn of the loop copies at least one byte and at most a block, and    *)
(* there are as many turns as blocks.                                      *)
LEMMA BlockFacts ==
  ASSUME InputsOK, SwapsOK, j \in Nat \ {0}, step = "basefile"
  PROVE  /\ MoreToCopy <=> j <= Blocks
         /\ MoreToCopy => BytesToRead \in 1 .. 4096 /\ BlockReadable
         /\ Blocks \in Nat \ {0}
<1>1. peSize \in Nat \ {0} /\ InMemory(SecInfo, peSize) = peSize
  BY Native DEF InputsOK
<1>2. Blocks \in Nat \ {0}
  BY <1>1 DEF Blocks
<1>3. MoreToCopy <=> (j - 1) * 4096 < peSize
  BY <1>1 DEF MoreToCopy, BlockStart, readBufSize
<1>4. (j - 1) * 4096 < peSize <=> j <= (peSize + 4095) \div 4096
  BY <1>1
<1>5. BytesToRead = IF peSize - (j - 1) * 4096 < 4096 THEN peSize - (j - 1) * 4096 ELSE 4096
  BY <1>1 DEF BytesToRead, BlockStart, readBufSize
<1>6. ASSUME (j - 1) * 4096 < peSize
      PROVE  BytesToRead \in 1 .. 4096 /\ (j - 1) * 4096 + BytesToRead <= peSize
  BY <1>1, <1>5, <1>6
<1> QED
  BY <1>2, <1>3, <1>4, <1>6 DEF Blocks, BlockReadable, BlockStart, readBufSize

LEMMA BlockAdded ==
  ASSUME CoreInv, FileInv, CopyBlock
  PROVE  /\ Adds(BlockNew) /\ file' = file \cup BlockNew /\ pos' = pos + BytesToRead
         /\ BytesToRead \in Nat \ {0} /\ j <= Blocks
<1> DEFINE e == Raw(Basefile(j), pos, BytesToRead)
<1>1. Regions /\ SwapsOK /\ InputsOK /\ FileOK /\ ControlOK /\ Frontier /\ pos \in Nat
  BY WriterRegions DEF CoreInv, FileInv, WriterStep
<1>2. /\ step = "basefile" /\ step' = "basefile" /\ MoreToCopy
      /\ file' = Overwrite(file, {e}) /\ pos' = pos + BytesToRead
  BY DEF CopyBlock, At
<1>3. j \in Nat \ {0} /\ baseAt <= pos /\ EndsBy({"basefile"}, pos)
  BY <1>1, <1>2 DEF ControlOK, Frontier
<1>4. j <= Blocks /\ BytesToRead \in Nat \ {0} /\ Blocks \in Nat
  <2>1. j <= Blocks /\ BytesToRead \in 1 .. 4096 /\ Blocks \in Nat \ {0}
    BY <1>1, <1>2, <1>3, BlockFacts
  <2> HIDE DEF e
  <2>2. \A n \in 1 .. 4096 : n \in Nat \ {0}
    OBVIOUS
  <2> QED
    BY <2>1, <2>2, SMT
<1>5. Begun("basefile")'
  BY <1>2, BeginsNext
<1>6. /\ e.what = Basefile(j) /\ e.what[1] = "basefile" /\ e.what # Digest /\ e.at = pos
      /\ e.len = BytesToRead /\ e.bigEndian = TRUE
  BY DEF Raw, Basefile, Digest
<1>7. Basefile(j) \in Wanted
  BY <1>3, <1>4 DEF Wanted, Blocks, readBufSize
<1>8. ASSUME NEW y \in {e}
      PROVE  /\ Addable(y) /\ y.at + y.len <= pos + BytesToRead
             /\ \A x \in file : SameRegion(x, y) => x.at + x.len <= y.at
  <2>1. /\ y.what = Basefile(j) /\ y.what[1] = "basefile" /\ y.what # Digest /\ y.at = pos
        /\ y.len = BytesToRead /\ y.bigEndian = TRUE
    BY <1>6
  <2> HIDE DEF e
  <2>2. InRegion(y)
    BY <1>1, <1>3, <2>1 DEF InRegion, ImportKinds
  <2>3. Begun(y.what[1])'
    BY <1>5, <2>1
  <2>4. Addable(y)
    BY <1>1, <1>4, <1>7, <2>1, <2>2, <2>3 DEF Addable, Extent, Kinds
  <2>5. \A x \in file : SameRegion(x, y) => x.at + x.len <= y.at
    BY <1>3, <2>1 DEF SameRegion, EndsBy, ImportKinds
  <2>6. y.at + y.len <= pos + BytesToRead
    BY <1>1, <1>4, <2>1
  <2> QED
    BY <2>4, <2>5, <2>6
<1> HIDE DEF e
<1>11. pos + BytesToRead \in Nat
  BY <1>1, <1>4
<1>12. Adds({e})
  BY <1>1, <1>2, <1>8, <1>11, Added
<1>13. file' = file \cup {e}
  <2>1. \A x \in file : Apart(x, e)
    <3> SUFFICES ASSUME NEW x \in file PROVE Apart(x, e)
      OBVIOUS
    <3>1. Extent(x) /\ Extent(e)
      BY <1>1, <1>8 DEF FileOK, Addable
    <3>2. CASE SameRegion(x, e)
      BY <1>8, <3>2 DEF Apart
    <3> QED
      BY <1>1, <3>1, <3>2, RegionsApart
  <2> QED
    BY <1>2, <2>1, Zenon DEF Overwrite, Apart
<1> QED
  BY <1>2, <1>4, <1>12, <1>13 DEF BlockNew, e

(* The security header, in its pieces.                                     *)
SecInfoNew ==
  {Raw(<<"secInfoHeader", 0>>, secAt, 8), Raw(<<"secInfoHeader", 1>>, secAt + 8, 348),
   Raw(HashSlot, secAt + 356, 20), Raw(<<"secInfoHeader", 2>>, secAt + 376, 4),
   Raw(<<"secInfoHeader", 3>>, secAt + 380, 8)}

LEMMA SecInfoAdded ==
  ASSUME CoreInv, FileInv, WriteSecInfo
  PROVE  Adds(SecInfoNew) /\ Wrote(SecInfoNew, secAt, 388)
<1>1. Regions /\ SwapsOK /\ InputsOK /\ FileOK
  BY WriterRegions DEF CoreInv, FileInv, WriterStep
<1>2. /\ step = "secInfo" /\ step' = "basefileFormat" /\ Swap({SecInfo})
      /\ Fwrite(secAt, SecInfoFields(secAt), 388)
  BY DEF WriteSecInfo, At, Goto, SizeofSecInfoHeader, secAt
<1>3. /\ ~Begun("secInfoHeader") /\ Begun("secInfoHeader")'
      /\ ~Begun("headersHash") /\ Begun("headersHash")'
  BY <1>2, Begins, BeginsNext
<1>4. ((SecInfo \in swapped') = littleEndian) = TRUE
  <2>1. SecInfo \notin swapped
    BY <1>1, <1>3 DEF SwapsOK, SecInfo
  <2> QED
    BY <1>1, <1>2, <2>1, SwappedOnce DEF InputsOK
<1>5. SecInfoFields(secAt) = SecInfoNew
  BY <1>4 DEF SecInfoFields, SecInfoNew, Field, Raw
<1>6. secAt \in Nat /\ secAt + 388 \in Nat
  BY <1>1 DEF Regions
<1>7. ASSUME NEW e \in SecInfoNew
      PROVE  /\ Addable(e) /\ e.at + e.len <= secAt + 388
             /\ e.what[1] \in {"secInfoHeader", "headersHash"}
  <2>1. ASSUME e.what \in {<<"secInfoHeader", k>> : k \in 0 .. 3}, e.bigEndian = TRUE,
               e.at \in Nat, e.len \in Nat \ {0}, secAt <= e.at, e.at + e.len <= secAt + 388,
               e.at + e.len <= secAt + 356 \/ secAt + 376 <= e.at
        PROVE  Addable(e) /\ e.what[1] = "secInfoHeader"
    <3>1. e.what \in Wanted /\ e.what # Digest /\ e.what[1] = "secInfoHeader"
      BY <2>1 DEF Wanted, Digest
    <3>2. InRegion(e)
      BY <2>1, <3>1 DEF InRegion, ImportKinds
    <3>3. Begun(e.what[1])'
      BY <1>3, <3>1
    <3> QED
      BY <2>1, <3>1, <3>2, <3>3 DEF Addable, Extent, Kinds
  <2>2. CASE e = Raw(<<"secInfoHeader", 0>>, secAt, 8)
    <3>1. e.what = <<"secInfoHeader", 0>> /\ e.at = secAt /\ e.len = 8 /\ e.bigEndian = TRUE
      BY <2>2 DEF Raw
    <3>2. e.what \in {<<"secInfoHeader", k>> : k \in 0 .. 3}
      BY <3>1
    <3>3. /\ e.at \in Nat /\ e.len \in Nat \ {0}
          /\ secAt <= e.at /\ e.at + e.len <= secAt + 388
          /\ e.at + e.len <= secAt + 356 \/ secAt + 376 <= e.at
      BY <1>6, <3>1
    <3> QED
      BY <2>1, <3>1, <3>2, <3>3
  <2>3. CASE e = Raw(<<"secInfoHeader", 1>>, secAt + 8, 348)
    <3>1. e.what = <<"secInfoHeader", 1>> /\ e.at = secAt + 8 /\ e.len = 348 /\ e.bigEndian = TRUE
      BY <2>3 DEF Raw
    <3>2. e.what \in {<<"secInfoHeader", k>> : k \in 0 .. 3}
      BY <3>1
    <3>3. /\ e.at \in Nat /\ e.len \in Nat \ {0}
          /\ secAt <= e.at /\ e.at + e.len <= secAt + 388
          /\ e.at + e.len <= secAt + 356 \/ secAt + 376 <= e.at
      BY <1>6, <3>1
    <3> QED
      BY <2>1, <3>1, <3>2, <3>3
  <2>4. CASE e = Raw(HashSlot, secAt + 356, 20)
    <3>1. /\ e.what = HashSlot /\ e.what[1] = "headersHash" /\ e.what # Digest
          /\ e.at = secAt + 356 /\ e.len = 20 /\ e.bigEndian = TRUE
      BY <2>4 DEF Raw, HashSlot, Digest
    <3>2. InRegion(e)
      BY <3>1 DEF InRegion, ImportKinds
    <3>3. Begun(e.what[1])'
      BY <1>3, <3>1
    <3> QED
      BY <1>6, <3>1, <3>2, <3>3 DEF Addable, Extent, Kinds
  <2>5. CASE e = Raw(<<"secInfoHeader", 2>>, secAt + 376, 4)
    <3>1. e.what = <<"secInfoHeader", 2>> /\ e.at = secAt + 376 /\ e.len = 4 /\ e.bigEndian = TRUE
      BY <2>5 DEF Raw
    <3>2. e.what \in {<<"secInfoHeader", k>> : k \in 0 .. 3}
      BY <3>1
    <3>3. /\ e.at \in Nat /\ e.len \in Nat \ {0}
          /\ secAt <= e.at /\ e.at + e.len <= secAt + 388
          /\ e.at + e.len <= secAt + 356 \/ secAt + 376 <= e.at
      BY <1>6, <3>1
    <3> QED
      BY <2>1, <3>1, <3>2, <3>3
  <2>6. CASE e = Raw(<<"secInfoHeader", 3>>, secAt + 380, 8)
    <3>1. e.what = <<"secInfoHeader", 3>> /\ e.at = secAt + 380 /\ e.len = 8 /\ e.bigEndian = TRUE
      BY <2>6 DEF Raw
    <3>2. e.what \in {<<"secInfoHeader", k>> : k \in 0 .. 3}
      BY <3>1
    <3>3. /\ e.at \in Nat /\ e.len \in Nat \ {0}
          /\ secAt <= e.at /\ e.at + e.len <= secAt + 388
          /\ e.at + e.len <= secAt + 356 \/ secAt + 376 <= e.at
      BY <1>6, <3>1
    <3> QED
      BY <2>1, <3>1, <3>2, <3>3
  <2> QED
    BY <2>2, <2>3, <2>4, <2>5, <2>6 DEF SecInfoNew
<1>8. \A x \in file : x.what[1] \notin {"secInfoHeader", "headersHash"}
  BY <1>1, <1>3, NoneYet
<1>9. \A e \in SecInfoNew, x \in file : SameRegion(x, e) => x.at + x.len <= e.at
  BY <1>7, <1>8 DEF SameRegion, ImportKinds
<1>10. Fwrite(secAt, SecInfoNew, 388)
  BY <1>2, <1>5
<1>11. file' = Overwrite(file, SecInfoNew) \/ (~reliable /\ file' = file)
  BY <1>10 DEF Fwrite
<1>12. Adds(SecInfoNew)
  BY <1>1, <1>6, <1>7, <1>9, <1>11, Added
<1> QED
  BY <1>10, <1>12, Written
(* The basefile format and the TLS info, each at the offset of its turn.   *)
FormatNew == {Raw(BasefileFormat, fmtAt, 16)}
TlsNew    == {Raw(Tls, tlsAt, 16)}

LEMMA FormatAdded ==
  ASSUME CoreInv, FileInv, WriteBasefileFormat
  PROVE  Adds(FormatNew) /\ Wrote(FormatNew, fmtAt, 16)
<1>1. Regions /\ FileOK /\ ControlOK
  BY WriterRegions DEF FileInv, WriterStep, CoreInv
<1>2. step = "basefileFormat" /\ step' = "imports" /\ Swap({BasefileFormat}) /\ OptHeaderAt = fmtAt
  BY <1>1 DEF WriteBasefileFormat, WriteOptHeader, At, Goto, OptHeaderAt, fmtAt, ControlOK,
              FromSwapEntries, FromEntries, FromDescriptors, FromBasefile, FromSecInfo,
              FromFormat, FromImports, FromRestore, FromTables, FromTls, FromReadOffsets
<1>3. Fwrite(fmtAt, {Field(BasefileFormat, fmtAt, 16, BasefileFormat)}, 16)
  BY <1>2 DEF WriteBasefileFormat, WriteOptHeader, SizeofBasefileFormat
<1>4. ~Begun("basefileFormat") /\ Begun("basefileFormat")' /\ fmtAt \in Nat
  BY <1>1, <1>2, Begins, BeginsNext DEF Regions
<1>5. InRegion(Raw(BasefileFormat, fmtAt, 16))
  BY <1>4 DEF InRegion, Raw, BasefileFormat, ImportKinds
<1>6. OnlyOne(BasefileFormat, "basefileFormat", fmtAt, 16)
  BY <1>2, <1>3, <1>4, <1>5 DEF OnlyOne, BasefileFormat, Digest, Wanted, Kinds, ImportKinds
<1> QED
  BY <1>1, <1>6, OnlyField DEF FormatNew

LEMMA TlsAdded ==
  ASSUME CoreInv, FileInv, WriteTls
  PROVE  Adds(TlsNew) /\ Wrote(TlsNew, tlsAt, 16)
<1>1. Regions /\ FileOK /\ ControlOK
  BY WriterRegions DEF FileInv, WriterStep, CoreInv
<1>2. step = "tlsInfo" /\ step' = "readOffsets" /\ Swap({Tls}) /\ OptHeaderAt = tlsAt
  BY <1>1 DEF WriteTls, WriteOptHeader, At, Goto, OptHeaderAt, tlsAt, ControlOK, FromTls
<1>3. Fwrite(tlsAt, {Field(Tls, tlsAt, 16, Tls)}, 16)
  BY <1>2 DEF WriteTls, WriteOptHeader, SizeofTlsInfo
<1>4. ~Begun("tlsInfo") /\ Begun("tlsInfo")' /\ tlsAt \in Nat
  BY <1>1, <1>2, Begins, BeginsNext DEF Regions
<1>5. InRegion(Raw(Tls, tlsAt, 16))
  BY <1>4 DEF InRegion, Raw, Tls, ImportKinds
<1>6. OnlyOne(Tls, "tlsInfo", tlsAt, 16)
  BY <1>2, <1>3, <1>4, <1>5 DEF OnlyOne, Tls, Digest, Wanted, Kinds, ImportKinds
<1> QED
  BY <1>1, <1>6, OnlyField DEF TlsNew

(* The import libraries' own fields and their names.                       *)
ImportLibsNew ==
  {Raw(ImportLibs, impAt, 8), Raw(TableCount, impAt + 8, 4),
   Raw(<<"nameTable", 0>>, impAt + 12, lib.nameTableSize)}

LEMMA ImportLibsAdded ==
  ASSUME CoreInv, FileInv, WriteImportLibs
  PROVE  /\ Adds(ImportLibsNew) /\ lib.tableCount > 0
         /\ Wrote(ImportLibsNew, impAt, 12 + lib.nameTableSize)
<1>1. Regions /\ SwapsOK /\ InputsOK /\ FileOK /\ ControlOK
  BY WriterRegions DEF CoreInv, FileInv, WriterStep
<1>2. /\ step = "imports" /\ step' = "restore" /\ Swap({ImportLibs, TableCount})
      /\ lib.size # 0 /\ Fwrite(OptHeaderAt, ImportLibsFields(OptHeaderAt), 12 + lib.nameTableSize)
  BY DEF WriteImportLibs, WriteOptHeader, At, Goto, SizeofImportLibraries
<1>3. lib.tableCount > 0
  BY <1>1, <1>2, LibFacts DEF InputsOK
<1>4. OptHeaderAt = impAt
  BY <1>1, <1>2, <1>3 DEF OptHeaderAt, Regions, ControlOK, FromImports, FromRestore, FromTables,
                          FromTls, FromReadOffsets
<1>5. /\ lib.nameTableSize \in Nat \ {0} /\ 12 + lib.nameTableSize <= lib.size
      /\ impAt \in Nat /\ lib.size \in Nat /\ impAt + lib.size = baseAt
  BY <1>1, <1>3, TableFacts DEF Regions, InputsOK
<1>6. /\ \A k \in ImportKinds : ~Begun(k)
      /\ Begun("importLibraries")' /\ Begun("nameTable")'
  BY <1>2, Begins, BeginsNext
<1>7. /\ ((ImportLibs \in swapped') = littleEndian) = TRUE
      /\ ((TableCount \in swapped') = littleEndian) = TRUE
  <2>1. ImportLibs \notin swapped /\ TableCount \notin swapped
    BY <1>1, <1>6 DEF SwapsOK, ImportLibs, TableCount, ImportKinds
  <2>2. ImportLibs \in {ImportLibs, TableCount} /\ TableCount \in {ImportLibs, TableCount}
    OBVIOUS
  <2> QED
    BY <1>1, <1>2, <2>1, <2>2, SwappedOnce DEF InputsOK
<1>8. ImportLibsFields(impAt) = ImportLibsNew
  BY <1>7 DEF ImportLibsFields, ImportLibsNew, Field, Raw, SizeofImportLibraries
<1>9. ASSUME NEW e \in ImportLibsNew
      PROVE  Addable(e) /\ e.at + e.len <= baseAt /\ e.what[1] \in ImportKinds
  <2>1. /\ e.bigEndian = TRUE
        /\ \/ e.what = ImportLibs /\ e.at = impAt /\ e.len = 8
           \/ e.what = TableCount /\ e.at = impAt + 8 /\ e.len = 4
           \/ e.what = <<"nameTable", 0>> /\ e.at = impAt + 12 /\ e.len = lib.nameTableSize
    BY DEF ImportLibsNew, Raw
  <2> DEFINE libs == {ImportLibs, TableCount, <<"nameTable", 0>>}
  <2>6. libs \subseteq Wanted
    BY <1>3 DEF Wanted
  <2>7. \A w \in libs : w[1] \in {"importLibraries", "nameTable"} /\ w # Digest
    BY DEF ImportLibs, TableCount, Digest
  <2>8. e.what \in libs
    BY <2>1
  <2> HIDE DEF libs
  <2>2. /\ e.what[1] \in {"importLibraries", "nameTable"} /\ e.what # Digest
        /\ e.what \in Wanted
    BY <2>6, <2>7, <2>8
  <2>3. /\ e.at \in Nat /\ e.len \in Nat \ {0} /\ impAt <= e.at /\ e.at + e.len <= baseAt
    BY <1>5, <2>1
  <2>4. InRegion(e)
    BY <2>2, <2>3 DEF InRegion, ImportKinds
  <2>5. Begun(e.what[1])'
    BY <1>6, <2>2
  <2> QED
    BY <2>1, <2>2, <2>3, <2>4, <2>5 DEF Addable, Extent, Kinds, ImportKinds
<1>10. \A x \in file : x.what[1] \notin ImportKinds
  BY <1>1, <1>6 DEF FileOK
<1>11. \A e \in ImportLibsNew, x \in file : SameRegion(x, e) => x.at + x.len <= e.at
  BY <1>9, <1>10 DEF SameRegion
<1>12. Fwrite(impAt, ImportLibsNew, 12 + lib.nameTableSize)
  BY <1>2, <1>4, <1>8
<1>13. file' = Overwrite(file, ImportLibsNew) \/ (~reliable /\ file' = file)
  BY <1>12 DEF Fwrite
<1>14. Adds(ImportLibsNew)
  BY <1>1, <1>5, <1>9, <1>11, <1>13, Added DEF Regions
<1> QED
  BY <1>3, <1>12, <1>14, Written

(* One import table, behind the last.                                      *)
TableLen == 40 + 4 * lib.addressCounts[j]
TableNew == {Raw(ImportTable(j), pos, TableLen)}

LEMMA TableAdded ==
  ASSUME CoreInv, FileInv, WriteImportTable
  PROVE  /\ Adds(TableNew) /\ Wrote(TableNew, pos, TableLen)
         /\ j \in 1 .. lib.tableCount /\ TableLen \in Nat
         /\ TableAt(j) \in Nat /\ TableAt(j + 1) \in Nat /\ TableAt(j + 1) = TableAt(j) + TableLen
<1> DEFINE what == ImportTable(j)
<1>1. Regions /\ SwapsOK /\ InputsOK /\ FileOK /\ ControlOK /\ Frontier /\ pos \in Nat
  BY WriterRegions DEF CoreInv, FileInv, WriterStep
<1>2. /\ step = "importTables" /\ step' = "importTables" /\ Swap({what}) /\ j <= lib.tableCount
      /\ Fwrite(pos, {Field(what, pos, TableLen, what)}, TableLen)
  BY DEF WriteImportTable, At, SizeofImportTable, TableLen
<1>3. Begun("importTable")' /\ lib \in ImportLibraries
  BY <1>1, <1>2, BeginsNext DEF InputsOK
<1>4. lib.tableCount > 0 /\ j \in Nat \ {0} /\ lib.tableCount \in Nat
  BY <1>1, <1>2, <1>3, LibFacts DEF ControlOK
<1>5. j \in 1 .. lib.tableCount
  BY <1>2, <1>4
<1>6. /\ lib.addressCounts[j] \in Nat /\ TableAt(j) \in Nat /\ TableAt(j + 1) \in Nat
      /\ TableAt(j + 1) = TableAt(j) + 40 + 4 * lib.addressCounts[j]
      /\ TableAt(j + 1) <= lib.size
  BY <1>3, <1>4, <1>5, TableFacts
<1>7. /\ TableLen \in Nat \ {0} /\ TableAt(j + 1) = TableAt(j) + TableLen
  BY <1>6 DEF TableLen
<1>8. impAt <= pos /\ pos <= impAt + TableAt(j) /\ EndsBy(ImportKinds, pos)
  BY <1>1, <1>2 DEF Frontier
<1>9. pos + TableLen <= baseAt
  BY <1>1, <1>6, <1>7, <1>8 DEF Regions
<1>10. ((what \in swapped') = littleEndian) = TRUE
  <2>1. what \notin swapped
    BY <1>1, <1>2, <1>4 DEF SwapsOK
  <2> QED
    BY <1>1, <1>2, <2>1, SwappedOnce DEF InputsOK
<1>11. what[1] = "importTable" /\ what # Digest /\ what \in Wanted
  BY <1>4, <1>5 DEF ImportTable, Digest, Wanted
<1>12. InRegion(Raw(what, pos, TableLen))
  BY <1>8, <1>9 DEF InRegion, Raw, ImportTable, ImportKinds
<1>13. FieldFits(what, "importTable", pos, TableLen, what)
  BY <1>1, <1>2, <1>3, <1>7, <1>8, <1>10, <1>11, <1>12 DEF FieldFits, EndsBy, Kinds, ImportKinds
<1>14. Adds({Raw(what, pos, TableLen)}) /\ Wrote({Raw(what, pos, TableLen)}, pos, TableLen)
  BY <1>1, <1>13, OneField
<1>15. TableLen \in Nat
  BY <1>7
<1> QED
  BY <1>5, <1>6, <1>7, <1>14, <1>15 DEF TableNew
(* The digest takes the place of what was in its slot, and of nothing else.*)
DigestNew == Raw(Digest, secAt + 356, 20)

LEMMA DigestWritten ==
  ASSUME CoreInv, FileInv, WriteDigest
  PROVE  /\ file' \in SUBSET (file \cup {DigestNew})
         /\ \A x \in file : x.what[1] # "headersHash" => x \in file'
         /\ \/ DigestNew \in file' /\ step' = "returned" /\ ret' = "success"
            \/ ~reliable /\ file' = file /\ step' = "returned" /\ ret' = "fileRead"
         /\ Extent(DigestNew)
<1>1. Regions /\ FileOK
  BY WriterRegions DEF FileInv, WriterStep
<1>2. \/ file' = Overwrite(file, {DigestNew}) /\ step' = "returned" /\ ret' = "success"
      \/ ~reliable /\ file' = file /\ step' = "returned" /\ ret' = "fileRead"
  BY <1>1 DEF WriteDigest, Return, DigestNew, Regions
<1>3. Extent(DigestNew) /\ DigestNew.what[1] = "headersHash"
  BY <1>1 DEF Extent, InRegion, DigestNew, Digest, Raw, Regions, Kinds, ImportKinds
<1>4. \A x \in file : x.what[1] # "headersHash" => Apart(x, DigestNew)
  <2> SUFFICES ASSUME NEW x \in file, x.what[1] # "headersHash" PROVE Apart(x, DigestNew)
    OBVIOUS
  <2>1. Extent(x)
    BY <1>1 DEF FileOK
  <2>2. ~SameRegion(x, DigestNew)
    BY <1>3 DEF SameRegion, ImportKinds
  <2> QED
    BY <1>1, <1>3, <2>1, <2>2, RegionsApart
<1>5. \A x \in file : x.what[1] # "headersHash" => x \in Overwrite(file, {DigestNew})
  BY <1>4, Zenon DEF Overwrite, Apart
<1>6. /\ Overwrite(file, {DigestNew}) \in SUBSET (file \cup {DigestNew})
      /\ DigestNew \in Overwrite(file, {DigestNew})
  BY DEF Overwrite
<1> QED
  BY <1>2, <1>3, <1>5, <1>6

(* The steps that write nothing.                                           *)
Quiet ==
  \/ SwapEntries \/ SeekDescriptors \/ SeekBasefile \/ EndBasefile \/ SkipImports
  \/ RestoreTableCount \/ EndImports \/ ReadOffsets \/ ReadOffsetsFails
  \/ HashRemainder \/ HashStart

LEMMA QuietFile ==
  ASSUME Quiet
  PROVE  file' = file
BY DEF Quiet, SwapEntries, SeekDescriptors, SeekBasefile, EndBasefile, SkipImports,
       RestoreTableCount, EndImports, ReadOffsets, ReadOffsetsFails, HashRemainder,
       HashStart, Reading

(* The end of a bounded file is a position.                                *)
LEMMA FileEndNat ==
  ASSUME FileOK, Bounded
  PROVE  FileEnd \in Nat /\ \A x \in file : x.at + x.len <= FileEnd
<1> DEFINE ends == {x.at + x.len : x \in file} \cup {0}
<1>1. PICK top \in Nat : \A x \in file : x.at + x.len <= top
  BY DEF Bounded
<1>2. \A x \in file : x.at \in Nat /\ x.len \in Nat
  BY DEF FileOK, Extent
<1>3. \A e \in ends : e \in Nat /\ e <= top
  BY <1>1, <1>2
<1>4. 0 \in ends /\ \A x \in file : x.at + x.len \in ends
  OBVIOUS
<1>5. FileEnd = CHOOSE e \in ends : \A d \in ends : d <= e
  BY DEF FileEnd
<1> HIDE DEF ends
<1> DEFINE gaps == {top - e : e \in ends}
<1>6. gaps \subseteq Nat /\ gaps # {}
  BY <1>3, <1>4
<1>7. PICK g \in gaps : \A h \in gaps : g <= h
  BY <1>6, LeastNat, Zenon
<1>8. PICK e \in ends : g = top - e
  BY <1>7
<1>9. \A d \in ends : d <= e
  <2> SUFFICES ASSUME NEW d \in ends PROVE d <= e
    OBVIOUS
  <2>1. top - d \in gaps
    OBVIOUS
  <2>2. top - e <= top - d
    BY <1>7, <1>8, <2>1
  <2> QED
    BY <1>3, <2>2
<1>10. FileEnd \in ends /\ \A d \in ends : d <= FileEnd
  BY <1>5, <1>8, <1>9
<1> QED
  BY <1>3, <1>4, <1>10
-----------------------------------------------------------------------------
(* FileInv is an invariant.                                                *)

(* Behind a structure written in a loop lies none of its kind.             *)
LEMMA LoopGrows ==
  ASSUME FileOK, pos \in Nat, NEW kinds, EndsBy(kinds, pos), NEW what, NEW len \in Nat,
         Wrote({Raw(what, pos, len)}, pos, len)
  PROVE  /\ pos' \in Nat /\ pos <= pos' /\ pos' <= pos + len
         /\ EndsBy(kinds, pos)'
<1>1. \A x \in file : x.at \in Nat /\ x.len \in Nat
  BY DEF FileOK, Extent
<1>2. pos' \in Nat /\ pos <= pos' /\ pos' <= pos + len
  BY DEF Wrote
<1>3. \A x \in file' : x.what[1] \in kinds => x.at + x.len <= pos'
  <2>1. CASE file' = file
    BY <1>1, <1>2, <2>1 DEF EndsBy
  <2>2. CASE file' = file \cup {Raw(what, pos, len)} /\ pos' = pos + len
    <3> SUFFICES ASSUME NEW x \in file', x.what[1] \in kinds PROVE x.at + x.len <= pos + len
      BY <2>2
    <3>1. CASE x \in file
      <4>1. x.at + x.len <= pos
        BY <3>1 DEF EndsBy
      <4> QED
        BY <1>1, <3>1, <4>1
    <3>2. CASE x = Raw(what, pos, len)
      BY <3>2 DEF Raw
    <3> QED
      BY <2>2, <3>1, <3>2
  <2> QED
    BY <2>1, <2>2 DEF Wrote
<1> QED
  BY <1>2, <1>3 DEF EndsBy

(* Where a loop begins there is nothing of its kind yet.                   *)
LEMMA LoopBegins ==
  ASSUME FileOK, file' = file, NEW kinds, \A k \in kinds : ~Begun(k)
  PROVE  EndsBy(kinds, pos)'
BY DEF FileOK, EndsBy

LEMMA FrontierInLoops ==
  ASSUME CoreInv, FileInv, WriterStep,
         step' \in {"entries", "descriptors", "basefile", "restore", "importTables"}
  PROVE  pos' \in Nat /\ Frontier'
<1>1. Regions /\ SwapsOK /\ InputsOK /\ FileOK /\ ControlOK /\ Frontier /\ pos \in Nat /\ Frame
  BY WriterRegions, WriterFrame DEF CoreInv, FileInv
<1>2. /\ secAt' = secAt /\ impAt' = impAt /\ baseAt' = baseAt /\ \A k : TableAt(k)' = TableAt(k)
      /\ secAt \in Nat /\ impAt \in Nat /\ baseAt \in Nat /\ j \in Nat \ {0}
  BY <1>1 DEF Frame, secAt, impAt, baseAt, TableAt, Regions, ControlOK
<1>3. CASE SwapEntries
  <2>1. step = "swapEntries" /\ step' = "entries" /\ j' = 1 /\ pos' = 24 /\ file' = file
    BY <1>1, <1>3 DEF SwapEntries, At, Goto, Regions
  <2>2. EndsBy({"optHeaderEntries"}, pos)'
    BY <1>1, <2>1, Begins, LoopBegins
  <2> QED
    BY <2>1, <2>2 DEF Frontier
<1>4. CASE WriteEntry
  <2>1. step = "entries" /\ step' = "entries" /\ j' = j + 1
    BY <1>4 DEF WriteEntry, At
  <2>2. 24 <= pos /\ pos <= 24 + 8 * (j - 1) /\ EndsBy({"optHeaderEntries"}, pos)
    BY <1>1, <2>1 DEF Frontier
  <2>3. Wrote({Raw(<<"optHeaderEntries", j>>, pos, 8)}, pos, 8)
    BY <1>4, EntryAdded DEF EntryNew
  <2>4. /\ pos' \in Nat /\ pos <= pos' /\ pos' <= pos + 8
        /\ EndsBy({"optHeaderEntries"}, pos)'
    BY <1>1, <2>2, <2>3, LoopGrows
  <2>5. 24 <= pos' /\ pos' <= 24 + 8 * (j' - 1)
    BY <1>1, <1>2, <2>1, <2>2, <2>4
  <2> QED
    BY <2>1, <2>4, <2>5 DEF Frontier
<1>5. CASE SeekDescriptors
  <2>1. /\ step = "entries" /\ step' = "descriptors" /\ j' = 1 /\ pos' = secAt + 388
        /\ file' = file
    BY <1>5 DEF SeekDescriptors, At, Goto, SizeofSecInfoHeader, secAt
  <2>2. EndsBy({"pageDescriptor"}, pos)'
    BY <1>1, <2>1, Begins, LoopBegins
  <2> QED
    BY <1>2, <2>1, <2>2 DEF Frontier
<1>6. CASE WriteDescriptor
  <2>1. step = "descriptors" /\ step' = "descriptors" /\ j' = j + 1
    BY <1>6 DEF WriteDescriptor, At
  <2>2. /\ secAt + 388 <= pos /\ pos <= secAt + 388 + 24 * (j - 1)
        /\ EndsBy({"pageDescriptor"}, pos)
    BY <1>1, <2>1 DEF Frontier
  <2>3. Wrote({Raw(Descriptor(j), pos, 24)}, pos, 24)
    BY <1>6, DescriptorAdded DEF DescriptorNew
  <2>4. /\ pos' \in Nat /\ pos <= pos' /\ pos' <= pos + 24
        /\ EndsBy({"pageDescriptor"}, pos)'
    BY <1>1, <2>2, <2>3, LoopGrows
  <2>5. secAt + 388 <= pos' /\ pos' <= secAt + 388 + 24 * (j' - 1)
    BY <1>1, <1>2, <2>1, <2>2, <2>4
  <2> QED
    BY <1>2, <2>1, <2>4, <2>5 DEF Frontier
<1>7. CASE SeekBasefile
  <2>1. /\ step = "descriptors" /\ step' = "basefile" /\ pos' = baseAt /\ file' = file
    BY <1>7 DEF SeekBasefile, At, Goto, Return, baseAt
  <2>2. EndsBy({"basefile"}, pos)'
    BY <1>1, <2>1, Begins, LoopBegins
  <2> QED
    BY <1>2, <2>1, <2>2 DEF Frontier
<1>8. CASE CopyBlock
  <2>1. step = "basefile" /\ step' = "basefile"
    BY <1>8 DEF CopyBlock, At
  <2>2. baseAt <= pos /\ EndsBy({"basefile"}, pos)
    BY <1>1, <2>1 DEF Frontier
  <2>3. /\ BytesToRead \in Nat
        /\ Wrote({Raw(Basefile(j), pos, BytesToRead)}, pos, BytesToRead)
    BY <1>8, BlockAdded DEF BlockNew, Wrote
  <2>4. pos' \in Nat /\ pos <= pos' /\ EndsBy({"basefile"}, pos)'
    BY <1>1, <2>2, <2>3, LoopGrows
  <2>5. baseAt <= pos'
    BY <1>1, <1>2, <2>2, <2>4
  <2> QED
    BY <1>2, <2>1, <2>4, <2>5 DEF Frontier
<1>9. CASE WriteImportLibs
  <2>1. step = "imports" /\ step' = "restore" /\ j' = 1
    BY <1>9 DEF WriteImportLibs, At, Goto
  <2>2. Wrote(ImportLibsNew, impAt, 12 + lib.nameTableSize) /\ lib.tableCount > 0
    BY <1>9, ImportLibsAdded
  <2>3. lib.nameTableSize \in Nat \ {0} /\ TableAt(1) = 12 + lib.nameTableSize
    BY <1>1, <2>2, TableFacts DEF InputsOK
  <2>4. pos' \in Nat /\ impAt <= pos' /\ pos' <= impAt + TableAt(j')
    BY <1>2, <2>1, <2>2, <2>3 DEF Wrote
  <2>5. \A x \in file : x.what[1] \notin ImportKinds
    BY <1>1, <2>1, Begins DEF FileOK
  <2>6. EndsBy(ImportKinds, pos)'
    <3>1. CASE file' = file
      BY <2>5, <3>1 DEF EndsBy
    <3>2. CASE file' = file \cup ImportLibsNew /\ pos' = impAt + (12 + lib.nameTableSize)
      <4>1. \A x \in ImportLibsNew : x.at + x.len <= impAt + (12 + lib.nameTableSize)
        BY <1>2, <2>3 DEF ImportLibsNew, Raw
      <4> QED
        BY <2>5, <3>2, <4>1 DEF EndsBy
    <3> QED
      BY <2>2, <3>1, <3>2 DEF Wrote
  <2>7. TableAt(j)' = TableAt(j')
    BY <1>1 DEF TableAt, Frame
  <2> QED
    BY <1>2, <2>1, <2>4, <2>6, <2>7 DEF Frontier
<1>10. CASE RestoreTableCount
  <2>1. /\ step = "restore" /\ step' = "importTables" /\ j' = 1 /\ j = 1 /\ pos' = pos
        /\ file' = file
    BY <1>1, <1>10 DEF RestoreTableCount, At, Goto, ControlOK
  <2>2. impAt <= pos /\ pos <= impAt + TableAt(j) /\ EndsBy(ImportKinds, pos)
    BY <1>1, <2>1 DEF Frontier
  <2>3. EndsBy(ImportKinds, pos)' /\ TableAt(j)' = TableAt(j)
    BY <1>1, <2>1, <2>2 DEF EndsBy, TableAt, Frame
  <2> QED
    BY <1>1, <1>2, <2>1, <2>2, <2>3 DEF Frontier
<1>11. CASE WriteImportTable
  <2>1. step = "importTables" /\ step' = "importTables" /\ j' = j + 1
    BY <1>11 DEF WriteImportTable, At
  <2>2. impAt <= pos /\ pos <= impAt + TableAt(j) /\ EndsBy(ImportKinds, pos)
    BY <1>1, <2>1 DEF Frontier
  <2>3. /\ Wrote({Raw(ImportTable(j), pos, TableLen)}, pos, TableLen) /\ TableLen \in Nat
        /\ TableAt(j) \in Nat /\ TableAt(j + 1) = TableAt(j) + TableLen
    BY <1>11, TableAdded DEF TableNew
  <2>4. /\ pos' \in Nat /\ pos <= pos' /\ pos' <= pos + TableLen
        /\ EndsBy(ImportKinds, pos)'
    BY <1>1, <2>2, <2>3, LoopGrows
  <2>5. TableAt(j)' = TableAt(j + 1)
    BY <1>1, <2>1 DEF TableAt, Frame
  <2>6. impAt <= pos' /\ pos' <= impAt + TableAt(j + 1)
    BY <1>1, <1>2, <2>2, <2>3, <2>4
  <2> QED
    BY <1>2, <2>1, <2>4, <2>5, <2>6 DEF Frontier
<1>12. CASE \/ WriteXexHeader \/ EndBasefile \/ WriteSecInfo \/ WriteBasefileFormat
            \/ SkipImports \/ EndImports \/ WriteTls \/ ReadOffsets \/ ReadOffsetsFails
            \/ HashRemainder \/ HashStart \/ WriteDigest
  BY <1>12 DEF WriteXexHeader, EndBasefile, WriteSecInfo, WriteBasefileFormat, SkipImports,
               EndImports, WriteTls, ReadOffsets, ReadOffsetsFails, HashRemainder, HashStart,
               WriteDigest, HashRange, Reading, At, Goto, Return
<1> QED
  BY <1>3, <1>4, <1>5, <1>6, <1>7, <1>8, <1>9, <1>10, <1>11, <1>12 DEF WriterStep
(* Outside the loops only the position matters.                            *)
LEMMA PositionOutsideLoops ==
  ASSUME CoreInv, FileInv, WriterStep
  PROVE  pos' \in Nat
<1>1. Regions /\ FileOK /\ Bounded /\ pos \in Nat /\ FileEnd \in Nat
  BY WriterRegions, FileEndNat DEF FileInv
<1>3. secAt \in Nat /\ fmtAt \in Nat /\ tlsAt \in Nat /\ baseAt \in Nat
  BY <1>1 DEF Regions
<1>4. CASE step' \in {"entries", "descriptors", "basefile", "restore", "importTables"}
  BY <1>4, FrontierInLoops
<1>5. CASE WriteXexHeader
  BY <1>5, XexHeaderAdded DEF Wrote
<1>6. CASE WriteSecInfo
  BY <1>3, <1>6, SecInfoAdded DEF Wrote
<1>7. CASE WriteBasefileFormat
  BY <1>3, <1>7, FormatAdded DEF Wrote
<1>8. CASE WriteTls
  BY <1>3, <1>8, TlsAdded DEF Wrote
<1>9. CASE HashRemainder
  BY <1>1, <1>9 DEF HashRemainder, HashRange, Reading, Regions, baseAt
<1>10. CASE HashStart
  BY <1>1, <1>10 DEF HashStart, HashRange, Reading, Regions, secAt
<1>11. CASE SeekBasefile
  BY <1>3, <1>11 DEF SeekBasefile, baseAt
<1>12. CASE EndBasefile \/ SkipImports \/ EndImports \/ ReadOffsets \/ ReadOffsetsFails \/ WriteDigest
  BY <1>1, <1>12 DEF EndBasefile, SkipImports, EndImports, ReadOffsets, ReadOffsetsFails, WriteDigest
<1>13. CASE \/ SwapEntries \/ WriteEntry \/ SeekDescriptors \/ WriteDescriptor \/ CopyBlock
            \/ WriteImportLibs \/ RestoreTableCount \/ WriteImportTable
  BY <1>4, <1>13 DEF SwapEntries, WriteEntry, SeekDescriptors, WriteDescriptor, CopyBlock,
                     WriteImportLibs, RestoreTableCount, WriteImportTable, At, Goto
<1> QED
  BY <1>5, <1>6, <1>7, <1>8, <1>9, <1>10, <1>11, <1>12, <1>13 DEF WriterStep

(* What a step adds to the file, if it is not the digest.                  *)
LEMMA StepAdds ==
  ASSUME CoreInv, FileInv, WriterStep, ~WriteDigest
  PROVE  \E new : Adds(new)
<1>1. CASE Quiet
  BY <1>1, QuietFile, AddedNone
<1>2. CASE ~Quiet
  BY <1>2, XexHeaderAdded, EntryAdded, DescriptorAdded, BlockAdded, SecInfoAdded, FormatAdded,
     TlsAdded, ImportLibsAdded, TableAdded DEF WriterStep, Quiet
<1> QED
  BY <1>1, <1>2

LEMMA FileInit == WriteInit => FileInv
BY DEF WriteInit, FileInv, FileOK, Bounded, InFile, Frontier

LEMMA FileNext == CoreInv /\ FileInv /\ [Next]_vars => FileInv'
<1> SUFFICES ASSUME CoreInv, FileInv, [Next]_vars PROVE FileInv'
  OBVIOUS
<1>1. FileOK /\ Bounded /\ pos \in Nat /\ Frontier /\ (Digest \in InFile => step = "returned")
  BY DEF FileInv
<1>2. CASE PlacerStep /\ UNCHANGED writeVars
  <2>1. NotStarted
    BY <1>2, PlacerLeaves DEF CoreInv
  <2>2. NotStarted'
    BY <1>2, <2>1 DEF NotStarted, writeVars, inputs
  <2>3. 0 \in Nat
    OBVIOUS
  <2> QED
    BY <2>2, <2>3 DEF NotStarted, FileInv, FileOK, Bounded, InFile, Frontier
<1>3. CASE WriterStep
  <2>1. Frame /\ Advances /\ step # "returned"
    <3>1. Frame
      BY <1>3, WriterFrame
    <3>2. Len(entries) \in Nat
      BY <1>3, WriterRegions DEF Regions
    <3>3. Advances
      BY <1>3, <3>2, ControlKept DEF CoreInv
    <3>4. step # "returned"
      BY <1>3 DEF WriterStep, WriteXexHeader, SwapEntries, WriteEntry, SeekDescriptors,
           WriteDescriptor, SeekBasefile, CopyBlock, EndBasefile, WriteSecInfo,
           WriteBasefileFormat, SkipImports, WriteImportLibs, RestoreTableCount,
           WriteImportTable, EndImports, WriteTls, ReadOffsets, ReadOffsetsFails,
           HashRemainder, HashStart, WriteDigest, Reading, At
    <3> QED
      BY <3>1, <3>3, <3>4
  <2>2. Digest \notin InFile
    BY <1>1, <2>1
  <2>3. pos' \in Nat
    BY <1>3, PositionOutsideLoops
  <2>4. CASE ~WriteDigest
    <3>1. PICK new : Adds(new)
      BY <1>3, <2>4, StepAdds
    <3>2. FileOK' /\ Bounded' /\ Digest \notin InFile'
      BY <1>1, <2>1, <2>2, <3>1, FileGrows
    <3>3. Frontier'
      <4>1. CASE step' \in {"entries", "descriptors", "basefile", "restore", "importTables"}
        BY <1>3, <4>1, FrontierInLoops
      <4>2. CASE step' \notin {"entries", "descriptors", "basefile", "restore", "importTables"}
        BY <4>2 DEF Frontier
      <4> QED
        BY <4>1, <4>2
    <3> QED
      BY <2>3, <3>2, <3>3 DEF FileInv
  <2>5. CASE WriteDigest
    <3>1. /\ file' \in SUBSET (file \cup {DigestNew}) /\ step' = "returned"
          /\ (DigestNew \in file' /\ ret' = "success") \/ file' = file
          /\ Extent(DigestNew)
      BY <2>5, DigestWritten
    <3>2. FileOK'
      <4> SUFFICES ASSUME NEW x \in file' PROVE Extent(x)' /\ Begun(x.what[1])'
        BY DEF FileOK
      <4>1. Extent(x)
        BY <1>1, <3>1 DEF FileOK
      <4>2. Extent(x)'
        BY <2>1, <4>1, ExtentKept
      <4> QED
        BY <3>1, <4>2 DEF Begun
    <3>3. Bounded'
      <4>1. PICK top \in Nat : \A x \in file : x.at + x.len <= top
        BY <1>1 DEF Bounded
      <4>2. DigestNew.at + DigestNew.len \in Nat
        BY <3>1 DEF Extent
      <4> DEFINE d == DigestNew.at + DigestNew.len
      <4>3. \A x \in file : x.at + x.len \in Nat
        BY <1>1 DEF FileOK, Extent
      <4>4. ASSUME NEW x \in file' PROVE x.at + x.len <= top + d
        <5>1. CASE x \in file
          <6>1. x.at + x.len \in Nat /\ x.at + x.len <= top /\ d \in Nat
            BY <4>1, <4>2, <4>3, <5>1
          <6> QED
            BY <6>1
        <5>2. CASE x = DigestNew
          BY <4>2, <5>2
        <5> QED
          BY <3>1, <5>1, <5>2
      <4>5. top + d \in Nat
        BY <4>2
      <4> HIDE DEF d
      <4> QED
        BY <4>4, <4>5 DEF Bounded
    <3>4. Digest \in InFile' => ret' = "success"
      BY <2>2, <3>1 DEF InFile
    <3>5. Frontier'
      BY <3>1 DEF Frontier
    <3> QED
      BY <2>3, <3>1, <3>2, <3>3, <3>4, <3>5 DEF FileInv
  <2> QED
    BY <2>4, <2>5
<1>4. CASE UNCHANGED vars
  <2>1. /\ UNCHANGED <<pos, file, step, ret, j, Remainder>> /\ Frame
        /\ TableAt(j)' = TableAt(j)
    BY <1>4 DEF vars, placerVars, writeVars, inputs, Frame, Remainder, TableAt, baseAt, secAt
  <2>2. FileOK'
    <3> SUFFICES ASSUME NEW x \in file' PROVE Extent(x)' /\ Begun(x.what[1])'
      BY DEF FileOK
    <3>1. Extent(x) /\ Begun(x.what[1])
      BY <1>1, <2>1 DEF FileOK
    <3> QED
      BY <2>1, <3>1, ExtentKept DEF Begun
  <2>3. Bounded' /\ (Digest \in InFile' => step' = "returned" /\ ret' = "success")
    BY <1>1, <2>1 DEF Bounded, InFile, FileInv
  <2>4. Frontier'
    BY <1>1, <2>1 DEF Frontier, EndsBy, Frame, secAt, impAt, baseAt
  <2> QED
    BY <1>1, <2>1, <2>2, <2>3, <2>4 DEF FileInv
<1> QED
  BY <1>2, <1>3, <1>4, NextCases

LEMMA FileInvariant == Spec => []FileInv
BY CoreInvariant, FileInit, FileNext, PTL DEF Spec
(***************************************************************************)
(* Everything in the file is big endian, whatever the host.                *)
(***************************************************************************)
THEOREM FileIsBigEndian == Spec => []BigEndianFile
<1>1. FileInv => BigEndianFile
  BY DEF FileInv, FileOK, Extent, BigEndianFile
<1> QED
  BY <1>1, FileInvariant, PTL

(***************************************************************************)
(* No loop runs past its array: nothing but the image is written.          *)
(***************************************************************************)
THEOREM OnlyTheImage == Spec => []NothingButTheImage
<1>1. FileInv => NothingButTheImage
  BY DEF FileInv, FileOK, Extent, NothingButTheImage, InFile
<1> QED
  BY <1>1, FileInvariant, PTL

-----------------------------------------------------------------------------
(* HashInv is an invariant.                                                *)

(* Writing the digest changes nothing of what was hashed.                  *)
LEMMA DigestOutside ==
  ASSUME CoreInv, FileInv, WriteDigest
  PROVE  UNCHANGED <<Remainder, Start>>
<1>1. Regions /\ FileOK /\ Frame
  BY WriterRegions, WriterFrame DEF FileInv, WriterStep
<1>2. secAt' = secAt /\ baseAt' = baseAt /\ secAt \in Nat
  BY <1>1 DEF Frame, secAt, baseAt, Regions
<1>3. /\ file' \in SUBSET (file \cup {DigestNew})
      /\ \A x \in file : x.what[1] # "headersHash" => x \in file'
  BY DigestWritten
<1>4. \A x \in file \cup {DigestNew} :
        x.what[1] = "headersHash" => x.at = secAt + 356 /\ x.len = 20
  BY <1>1, DigestWritten DEF FileOK, Extent, InRegion
<1>5. DigestNew.what[1] = "headersHash"
  BY DEF DigestNew, Raw, Digest
<1>6. ASSUME NEW from, NEW to,
             \A x \in file \cup {DigestNew} :
               x.what[1] = "headersHash" => ~(x.at < to /\ from < x.at + x.len)
      PROVE  Within(file', from, to) = Within(file, from, to)
  BY <1>3, <1>5, <1>6 DEF Within
<1>7. Within(file', secAt + 380, baseAt) = Within(file, secAt + 380, baseAt)
  <2>1. \A x \in file \cup {DigestNew} :
          x.what[1] = "headersHash" => ~(x.at < baseAt /\ secAt + 380 < x.at + x.len)
    BY <1>2, <1>4
  <2> QED
    BY <1>6, <2>1
<1>8. Within(file', 0, secAt + 8) = Within(file, 0, secAt + 8)
  <2>1. \A x \in file \cup {DigestNew} :
          x.what[1] = "headersHash" => ~(x.at < secAt + 8 /\ 0 < x.at + x.len)
    BY <1>2, <1>4
  <2> QED
    BY <1>6, <2>1
<1>9. /\ Remainder' = Within(file', secAt + 380, baseAt)
      /\ Start' = Within(file', 0, secAt + 8)
  BY <1>2 DEF Remainder, Start, Within
<1> QED
  BY <1>7, <1>8, <1>9 DEF Remainder, Start

LEMMA AppendToOne == \A a, b : Append(<<a>>, b) = <<a, b>>
<1> TAKE a, b
<1> DEFINE Two   == {a, b}
           left  == Append(<<a>>, b)
           right == <<a, b>>
<1>1. <<a>> \in Seq(Two) /\ b \in Two
  OBVIOUS
<1>2. /\ left \in Seq(Two) /\ right \in Seq(Two) /\ Len(left) = Len(right)
      /\ \A n \in 1 .. Len(left) : left[n] = right[n]
  BY <1>1
<1> HIDE DEF Two, left, right
<1>3. left = right
  BY <1>2, SeqEqual
<1> QED
  BY <1>3 DEF left, right

LEMMA HashInit == WriteInit => HashInv
BY DEF WriteInit, HashInv, InFile

LEMMA HashNext == CoreInv /\ FileInv /\ HashInv /\ FileInv' /\ [Next]_vars => HashInv'
<1> SUFFICES ASSUME CoreInv, FileInv, HashInv, FileInv', [Next]_vars PROVE HashInv'
  OBVIOUS
<1>1. Digest \in InFile' => ret' = "success"
  BY DEF FileInv
<1>2. CASE PlacerStep /\ UNCHANGED writeVars
  <2>1. NotStarted
    BY <1>2, PlacerLeaves DEF CoreInv
  <2>2. NotStarted'
    BY <1>2, <2>1 DEF NotStarted, writeVars, inputs
  <2> QED
    BY <2>2 DEF NotStarted, HashInv, InFile
<1>3. CASE WriterStep
  <2>1. Regions /\ Frame
    BY <1>3, WriterRegions, WriterFrame
  <2>2. secAt' = secAt /\ baseAt' = baseAt
    BY <2>1 DEF Frame, secAt, baseAt
  <2>3. CASE \/ WriteXexHeader \/ SwapEntries \/ WriteEntry \/ SeekDescriptors
             \/ WriteDescriptor \/ SeekBasefile \/ CopyBlock \/ EndBasefile
             \/ WriteSecInfo \/ WriteBasefileFormat \/ SkipImports \/ WriteImportLibs
             \/ RestoreTableCount \/ WriteImportTable \/ EndImports \/ WriteTls
             \/ ReadOffsets \/ ReadOffsetsFails
    <3>1. /\ step \notin {"hashStart", "digest", "returned"}
          /\ step' \notin {"hashStart", "digest"} /\ hashed' = hashed
          /\ (step' = "returned" => ret' \in {"outOfMem", "fileRead"})
          /\ (step' # "returned" => ret' = ret)
      BY <2>3 DEF WriteXexHeader, SwapEntries, WriteEntry, SeekDescriptors, WriteDescriptor,
           SeekBasefile, CopyBlock, EndBasefile, WriteSecInfo, WriteBasefileFormat, SkipImports,
           WriteImportLibs, RestoreTableCount, WriteImportTable, EndImports, WriteTls,
           ReadOffsets, ReadOffsetsFails, Reading, At, Goto, Return
    <3>2. hashed' = <<>> /\ ret = "none"
      BY <3>1 DEF HashInv, CoreInv, ControlOK
    <3>3. ret' # "success"
      BY <3>1, <3>2
    <3> QED
      BY <1>1, <3>1, <3>2, <3>3 DEF HashInv
  <2>4. CASE HashRemainder
    <3>1. /\ step = "hashRemainder" /\ file' = file
          /\ \/ /\ hashed' = Append(hashed, Within(file, secAt + 380, baseAt))
                /\ step' = "hashStart" /\ ret' = ret
             \/ step' = "returned" /\ ret' \in {"outOfMem", "fileRead"} /\ hashed' = hashed
      <4>1. endOfImageInfo = secAt + 380 /\ xexHeader.peOffset = baseAt
        BY <2>1 DEF endOfImageInfo, Regions
      <4> QED
        BY <2>4, <4>1 DEF HashRemainder, HashRange, Reading, At, Return
    <3>2. hashed = <<>> /\ ret = "none"
      BY <3>1 DEF HashInv, CoreInv, ControlOK
    <3>3. Remainder' = Within(file, secAt + 380, baseAt)
      BY <2>2, <3>1 DEF Remainder, Within
    <3>4. Append(<<>>, Within(file, secAt + 380, baseAt)) = <<Within(file, secAt + 380, baseAt)>>
      OBVIOUS
    <3>5. ret' # "success"
      BY <3>1, <3>2
    <3> QED
      BY <1>1, <3>1, <3>2, <3>3, <3>4, <3>5 DEF HashInv
  <2>5. CASE HashStart
    <3>1. /\ step = "hashStart" /\ file' = file
          /\ \/ /\ hashed' = Append(hashed, Within(file, 0, secAt + 8))
                /\ step' = "digest" /\ ret' = ret
             \/ step' = "returned" /\ ret' \in {"outOfMem", "fileRead"} /\ hashed' = hashed
      <4>1. xexHeader.secInfoOffset = secAt
        BY <2>1 DEF Regions
      <4> QED
        BY <2>5, <4>1 DEF HashStart, HashRange, Reading, At, Return
    <3>2. hashed = <<Remainder>> /\ ret = "none"
      BY <3>1 DEF HashInv, CoreInv, ControlOK
    <3>3. Remainder' = Remainder /\ Start' = Within(file, 0, secAt + 8)
      BY <2>2, <3>1 DEF Remainder, Start, Within
    <3>4. Append(<<Remainder>>, Within(file, 0, secAt + 8)) =
            <<Remainder, Within(file, 0, secAt + 8)>>
      BY AppendToOne
    <3>5. ret' # "success"
      BY <3>1, <3>2
    <3>6. CASE step' = "returned"
      BY <1>1, <3>1, <3>2, <3>5, <3>6 DEF HashInv
    <3>7. CASE step' = "digest" /\ hashed' = <<Remainder', Start'>>
      <4>1. Len(hashed') <= 2
        <5>1. \A a, b : Len(<<a, b>>) = 2
          OBVIOUS
        <5>2. Len(hashed') = 2
          BY <3>7, <5>1
        <5> QED
          BY <5>2
      <4>2. Digest \notin InFile'
        BY <1>1, <3>5
      <4>3. step' = "digest" /\ ret' # "success"
        BY <3>5, <3>7
      <4> QED
        BY <3>7, <4>1, <4>2, <4>3 DEF HashInv
    <3> QED
      BY <3>1, <3>2, <3>3, <3>4, <3>6, <3>7
  <2>6. CASE WriteDigest
    <3>1. step = "digest" /\ step' = "returned" /\ hashed' = hashed
      BY <2>6 DEF WriteDigest, At, Return
    <3>2. hashed = <<Remainder, Start>>
      BY <3>1 DEF HashInv
    <3>3. Remainder' = Remainder /\ Start' = Start
      BY <2>6, DigestOutside
    <3>4. \/ DigestNew \in file' /\ ret' = "success"
          \/ ret' = "fileRead"
      BY <2>6, DigestWritten
    <3>5. DigestNew \in file' => Found(Digest, secAt + 356)' /\ Digest \in InFile'
      BY <2>2 DEF DigestNew, Raw, Found, InFile
    <3> QED
      BY <1>1, <3>1, <3>2, <3>3, <3>4, <3>5 DEF HashInv
  <2> QED
    BY <1>3, <2>3, <2>4, <2>5, <2>6 DEF WriterStep
<1>4. CASE UNCHANGED vars
  BY <1>4 DEF vars, placerVars, writeVars, inputs, HashInv, Remainder, Start, Within, secAt,
              baseAt, Found, InFile
<1> QED
  BY <1>2, <1>3, <1>4, NextCases

LEMMA HashInvariant == Spec => []HashInv
BY CoreInvariant, FileInvariant, HashInit, HashNext, PTL DEF Spec

(***************************************************************************)
(* Types of the writer's state: its loop counters, its position and its    *)
(* index into offsets->optHeaders stay in range.                           *)
(***************************************************************************)
THEOREM WriterTypeCorrect == Spec => []WriterTypeOK
<1>1. CoreInv /\ FileInv /\ HashInv => WriterTypeOK
  BY DEF CoreInv, InputsOK, ControlOK, FileInv, FileOK, Extent, HashInv, WriterTypeOK,
         FromReadOffsets, FromTls, FromTables, FromRestore, FromImports, FromFormat,
         FromSecInfo, FromBasefile, FromDescriptors, FromEntries, FromSwapEntries
<1> QED
  BY <1>1, CoreInvariant, FileInvariant, HashInvariant, PTL

(***************************************************************************)
(* A file that holds the digest holds the digest of what is in it.         *)
(***************************************************************************)
THEOREM HashOfTheHeaders == Spec => []HeaderHashValid
<1>1. CoreInv /\ FileInv /\ HashInv => HeaderHashValid
  <2> SUFFICES ASSUME CoreInv, FileInv, HashInv,
                      Digest \in InFile \/ (ret = "success" /\ reliable)
               PROVE  /\ hashed = <<Within(file, xexHeader.secInfoOffset + 380,
                                           xexHeader.peOffset),
                                    Within(file, 0, xexHeader.secInfoOffset + 8)>>
                      /\ Found(Digest, xexHeader.secInfoOffset + 356)
    BY DEF HeaderHashValid
  <2>1. Digest \in InFile
    BY DEF HashInv
  <2>2. step = "returned"
    BY <2>1 DEF FileInv
  <2>3. hashed = <<Remainder, Start>> /\ Found(Digest, secAt + 356)
    BY <2>1, <2>2 DEF HashInv
  <2>4. pc = "placed"
    BY <2>2 DEF CoreInv, NotStarted
  <2>5. xexHeader.secInfoOffset = secAt /\ xexHeader.peOffset = baseAt
    BY <2>4, PlacedRegions DEF CoreInv, Placed, Regions
  <2> QED
    BY <2>3, <2>5 DEF Remainder, Start
<1> QED
  BY <1>1, CoreInvariant, FileInvariant, HashInvariant, PTL
-----------------------------------------------------------------------------
(* DueInv is an invariant.                                                 *)

(* Where each action starts and where it goes on, and the loops it counts. *)
LEMMA Moves ==
  ASSUME WriterStep
  PROVE  \/ WriteXexHeader /\ step = "xexHeader" /\ step' = "swapEntries"
         \/ SwapEntries /\ step = "swapEntries" /\ step' = "entries" /\ j' = 1
         \/ WriteEntry /\ step = "entries" /\ step' = "entries" /\ j' = j + 1
         \/ SeekDescriptors /\ step = "entries" /\ step' = "descriptors" /\ j' = 1
         \/ WriteDescriptor /\ step = "descriptors" /\ step' = "descriptors" /\ j' = j + 1
         \/ SeekBasefile /\ step = "descriptors" /\ step' = "basefile" /\ j' = 1
         \/ CopyBlock /\ step = "basefile" /\ step' = "basefile" /\ j' = j + 1
         \/ EndBasefile /\ step = "basefile" /\ step' = "secInfo"
         \/ WriteSecInfo /\ step = "secInfo" /\ step' = "basefileFormat"
         \/ WriteBasefileFormat /\ step = "basefileFormat" /\ step' = "imports"
         \/ SkipImports /\ step = "imports" /\ step' = "tlsInfo"
         \/ WriteImportLibs /\ step = "imports" /\ step' = "restore" /\ j' = 1
         \/ RestoreTableCount /\ step = "restore" /\ step' = "importTables" /\ j' = 1
         \/ WriteImportTable /\ step = "importTables" /\ step' = "importTables" /\ j' = j + 1
         \/ EndImports /\ step = "importTables" /\ step' = "tlsInfo"
         \/ WriteTls /\ step = "tlsInfo" /\ step' = "readOffsets"
         \/ step \in FromReadOffsets /\ step' \in FromReadOffsets
         \/ WriteDigest /\ step = "digest" /\ step' = "returned"
         \/ step' = "returned" /\ ret' # "success"
<1> USE DEF At, Goto, Return, FromReadOffsets
<1>1. CASE WriteXexHeader \/ SwapEntries \/ WriteEntry \/ SeekDescriptors
  BY <1>1 DEF WriteXexHeader, SwapEntries, WriteEntry, SeekDescriptors
<1>2. CASE WriteDescriptor \/ SeekBasefile \/ CopyBlock \/ EndBasefile
  BY <1>2 DEF WriteDescriptor, SeekBasefile, CopyBlock, EndBasefile
<1>3. CASE WriteSecInfo \/ WriteBasefileFormat \/ SkipImports \/ WriteImportLibs
  BY <1>3 DEF WriteSecInfo, WriteBasefileFormat, SkipImports, WriteImportLibs
<1>4. CASE RestoreTableCount \/ WriteImportTable \/ EndImports \/ WriteTls
  BY <1>4 DEF RestoreTableCount, WriteImportTable, EndImports, WriteTls
<1>5. CASE ReadOffsets \/ ReadOffsetsFails
  BY <1>5 DEF ReadOffsets, ReadOffsetsFails, Reading
<1>6. CASE HashRemainder \/ HashStart \/ WriteDigest
  BY <1>6 DEF HashRemainder, HashStart, HashRange, Reading, WriteDigest
<1> QED
  BY <1>1, <1>2, <1>3, <1>4, <1>5, <1>6 DEF WriterStep

(* What was not yet due and is: whose action that is.                      *)
LEMMA BecomesDue ==
  ASSUME WriterStep, j \in Nat \ {0}
  PROVE  /\ Reached(FromSwapEntries)' => Reached(FromSwapEntries) \/ WriteXexHeader
         /\ Reached(FromDescriptors)' => Reached(FromDescriptors) \/ SeekDescriptors
         /\ Reached(FromBasefile)' => Reached(FromBasefile) \/ SeekBasefile
         /\ Reached(FromSecInfo)' => Reached(FromSecInfo) \/ EndBasefile
         /\ Reached(FromFormat)' => Reached(FromFormat) \/ WriteSecInfo
         /\ Reached(FromImports)' => Reached(FromImports) \/ WriteBasefileFormat
         /\ Reached(FromRestore)' => Reached(FromRestore) \/ SkipImports \/ WriteImportLibs
         /\ Reached(FromTls)' => Reached(FromTls) \/ SkipImports \/ EndImports
         /\ Reached(FromReadOffsets)' => Reached(FromReadOffsets) \/ WriteTls
         /\ \A k \in Nat \ {0} :
              /\ InLoop("entries", k)' => InLoop("entries", k) \/ (WriteEntry /\ k = j)
              /\ InLoop("descriptors", k)' =>
                   InLoop("descriptors", k) \/ (WriteDescriptor /\ k = j)
              /\ InLoop("basefile", k)' => InLoop("basefile", k) \/ (CopyBlock /\ k = j)
              /\ InLoop("importTables", k)' =>
                   InLoop("importTables", k) \/ (WriteImportTable /\ k = j)
<1>1. /\ Reached(FromSwapEntries)' => Reached(FromSwapEntries) \/ WriteXexHeader
      /\ Reached(FromDescriptors)' => Reached(FromDescriptors) \/ SeekDescriptors
      /\ Reached(FromBasefile)' => Reached(FromBasefile) \/ SeekBasefile
      /\ Reached(FromSecInfo)' => Reached(FromSecInfo) \/ EndBasefile
  BY Moves DEF Reached, FromReadOffsets, FromTls, FromTables, FromRestore, FromImports,
     FromFormat, FromSecInfo, FromBasefile, FromDescriptors, FromEntries, FromSwapEntries
<1>2. /\ Reached(FromFormat)' => Reached(FromFormat) \/ WriteSecInfo
      /\ Reached(FromImports)' => Reached(FromImports) \/ WriteBasefileFormat
      /\ Reached(FromRestore)' => Reached(FromRestore) \/ SkipImports \/ WriteImportLibs
      /\ Reached(FromTls)' => Reached(FromTls) \/ SkipImports \/ EndImports
      /\ Reached(FromReadOffsets)' => Reached(FromReadOffsets) \/ WriteTls
  BY Moves DEF Reached, FromReadOffsets, FromTls, FromTables, FromRestore, FromImports,
     FromFormat
<1>3. ASSUME NEW k \in Nat \ {0}
      PROVE  /\ InLoop("entries", k)' => InLoop("entries", k) \/ (WriteEntry /\ k = j)
             /\ InLoop("descriptors", k)' => InLoop("descriptors", k) \/ (WriteDescriptor /\ k = j)
             /\ InLoop("basefile", k)' => InLoop("basefile", k) \/ (CopyBlock /\ k = j)
             /\ InLoop("importTables", k)' =>
                  InLoop("importTables", k) \/ (WriteImportTable /\ k = j)
  BY Moves DEF InLoop, FromReadOffsets
<1> QED
  BY <1>1, <1>2, <1>3

(* No write destroys a structure.                                          *)
LEMMA StaysInFile ==
  ASSUME CoreInv, FileInv, WriterStep
  PROVE  /\ \A x \in file : x.what[1] # "headersHash" => x \in file'
         /\ \A w : w[1] # "headersHash" /\ w \in InFile => w \in InFile'
         /\ \A w, at : w[1] # "headersHash" /\ Found(w, at) => Found(w, at)'
<1>1. \A x \in file : x.what[1] # "headersHash" => x \in file'
  <2>1. CASE WriteDigest
    BY <2>1, DigestWritten
  <2>2. CASE ~WriteDigest
    BY <2>2, StepAdds DEF Adds
  <2> QED
    BY <2>1, <2>2
<1>2. ASSUME NEW w, w[1] # "headersHash", w \in InFile PROVE w \in InFile'
  BY <1>1, <1>2 DEF InFile
<1>3. ASSUME NEW w, NEW at, w[1] # "headersHash", Found(w, at) PROVE Found(w, at)'
  BY <1>1, <1>3 DEF Found
<1> QED
  BY <1>1, <1>2, <1>3

(* A write that may not come up short puts there what it was given.        *)
LEMMA PutInFile ==
  ASSUME reliable, NEW new, NEW start, NEW size, Wrote(new, start, size)
  PROVE  /\ new \subseteq file' /\ pos' = start + size
         /\ \A w, at, len : Raw(w, at, len) \in new => Found(w, at)' /\ w \in InFile'
<1>1. new \subseteq file' /\ pos' = start + size
  BY DEF Wrote
<1>2. ASSUME NEW w, NEW at, NEW len, Raw(w, at, len) \in new
      PROVE  Found(w, at)' /\ w \in InFile'
  <2>1. Raw(w, at, len) \in file' /\ Raw(w, at, len).what = w /\ Raw(w, at, len).at = at
    BY <1>1, <1>2 DEF Raw
  <2> QED
    BY <2>1 DEF Found, InFile
<1> QED
  BY <1>1, <1>2
LEMMA HeadersStayDue ==
  ASSUME CoreInv, FileInv, DueHeaders, WriterStep, reliable
  PROVE  DueHeaders'
<1>1. /\ \A w : w[1] # "headersHash" /\ w \in InFile => w \in InFile'
      /\ \A w, at : w[1] # "headersHash" /\ Found(w, at) => Found(w, at)'
  BY StaysInFile
<1>2. j \in Nat \ {0} /\ Regions /\ Frame
  BY WriterRegions, WriterFrame DEF CoreInv, ControlOK
<1>3. Reached(FromSwapEntries)' => Found(XexHeader, 0)'
  <2>1. CASE WriteXexHeader
    <3>1. Wrote(XexHeaderNew, 0, 24)
      BY <2>1, XexHeaderAdded
    <3>2. Raw(XexHeader, 0, 24) \in XexHeaderNew
      BY DEF XexHeaderNew
    <3> QED
      BY <3>1, <3>2, PutInFile
  <2>2. CASE Reached(FromSwapEntries)
    BY <1>1, <2>2 DEF DueHeaders, XexHeader
  <2> QED
    BY <1>2, <2>1, <2>2, BecomesDue
<1>4. ASSUME NEW k \in 1 .. Len(entries)
      PROVE  Reached(FromDescriptors)' \/ InLoop("entries", k)'
               => <<"optHeaderEntries", k>> \in InFile'
  <2>1. CASE WriteEntry /\ k = j
    <3>1. Wrote(EntryNew, pos, 8)
      BY <2>1, EntryAdded
    <3>2. Raw(<<"optHeaderEntries", k>>, pos, 8) \in EntryNew
      BY <2>1 DEF EntryNew
    <3> QED
      BY <3>1, <3>2, PutInFile
  <2>2. CASE Reached(FromDescriptors) \/ InLoop("entries", k)
    <3>1. <<"optHeaderEntries", k>> \in InFile
      BY <2>2 DEF DueHeaders
    <3> QED
      BY <1>1, <3>1
  <2>3. CASE SeekDescriptors
    <3>1. InLoop("entries", k)
      BY <1>2, <2>3 DEF SeekDescriptors, At, InLoop, Regions
    <3> QED
      BY <2>2, <3>1
  <2>4. k \in Nat \ {0}
    BY <1>2 DEF Regions
  <2> QED
    BY <1>2, <2>1, <2>2, <2>3, <2>4, BecomesDue
<1>5. ASSUME NEW k \in 1 .. pageDescCount
      PROVE  Reached(FromBasefile)' \/ InLoop("descriptors", k)' => Descriptor(k) \in InFile'
  <2>1. CASE WriteDescriptor /\ k = j
    <3>1. Wrote(DescriptorNew, pos, 24)
      BY <2>1, DescriptorAdded
    <3>2. Raw(Descriptor(k), pos, 24) \in DescriptorNew
      BY <2>1 DEF DescriptorNew
    <3> QED
      BY <3>1, <3>2, PutInFile
  <2>2. CASE Reached(FromBasefile) \/ InLoop("descriptors", k)
    <3>1. Descriptor(k) \in InFile
      BY <2>2 DEF DueHeaders
    <3> QED
      BY <1>1, <3>1 DEF Descriptor
  <2>3. CASE SeekBasefile
    <3>1. step = "descriptors" /\ j > InMemory(SecInfo, pageDescCount)
      BY <2>3 DEF SeekBasefile, At
    <3>2. InMemory(SecInfo, pageDescCount) = pageDescCount
      BY <3>1, Native DEF CoreInv
    <3>3. InLoop("descriptors", k)
      BY <1>2, <3>1, <3>2 DEF InLoop, Regions
    <3> QED
      BY <2>2, <3>3
  <2>4. k \in Nat \ {0}
    BY <1>2 DEF Regions
  <2> QED
    BY <1>2, <2>1, <2>2, <2>3, <2>4, BecomesDue
<1>6. Reached(FromFormat)' => /\ \A k \in 0 .. 3 : <<"secInfoHeader", k>> \in InFile'
                              /\ Found(SecInfo, secAt)'
  <2> DEFINE sec == secAt
  <2>1. sec' = sec
    BY <1>2 DEF Frame, secAt
  <2>2. CASE WriteSecInfo
    <3>1. Wrote(SecInfoNew, sec, 388)
      BY <2>2, SecInfoAdded
    <3>2. /\ Raw(<<"secInfoHeader", 0>>, sec, 8) \in SecInfoNew
          /\ Raw(<<"secInfoHeader", 1>>, sec + 8, 348) \in SecInfoNew
          /\ Raw(<<"secInfoHeader", 2>>, sec + 376, 4) \in SecInfoNew
          /\ Raw(<<"secInfoHeader", 3>>, sec + 380, 8) \in SecInfoNew
      BY DEF SecInfoNew
    <3> HIDE DEF sec
    <3>3. /\ \A w, at, len : Raw(w, at, len) \in SecInfoNew => Found(w, at)' /\ w \in InFile'
      BY <3>1, PutInFile
    <3>4. /\ <<"secInfoHeader", 0>> \in InFile' /\ <<"secInfoHeader", 1>> \in InFile'
          /\ <<"secInfoHeader", 2>> \in InFile' /\ <<"secInfoHeader", 3>> \in InFile'
      BY <3>2, <3>3
    <3>5. \A k \in 0 .. 3 : k = 0 \/ k = 1 \/ k = 2 \/ k = 3
      OBVIOUS
    <3>6. \A k \in 0 .. 3 : <<"secInfoHeader", k>> \in InFile'
      BY <3>4, <3>5
    <3>7. \E x \in file' : x.what = SecInfo /\ x.at = sec
      BY <3>2, <3>3 DEF SecInfo, Found
    <3> QED
      BY <2>1, <3>6, <3>7 DEF Found, sec
  <2>3. CASE Reached(FromFormat)
    <3>1. (\A k \in 0 .. 3 : <<"secInfoHeader", k>> \in InFile) /\ Found(SecInfo, sec)
      BY <2>3 DEF DueHeaders
    <3> HIDE DEF sec
    <3>2. \A k \in 0 .. 3 : <<"secInfoHeader", k>> \in InFile'
      BY <1>1, <3>1
    <3>3. \E x \in file' : x.what = SecInfo /\ x.at = sec
      BY <1>1, <3>1 DEF SecInfo, Found
    <3> QED
      BY <2>1, <3>2, <3>3 DEF Found, sec
  <2> QED
    BY <1>2, <2>2, <2>3, BecomesDue
<1>7. Reached(FromImports)' => Found(BasefileFormat, fmtAt)'
  <2> DEFINE fmt == fmtAt
  <2>1. fmt' = fmt
    BY <1>2 DEF Frame, fmtAt
  <2>2. CASE WriteBasefileFormat
    <3>1. Wrote(FormatNew, fmt, 16) /\ Raw(BasefileFormat, fmt, 16) \in FormatNew
      BY <2>2, FormatAdded DEF FormatNew
    <3> HIDE DEF fmt
    <3>2. \E x \in file' : x.what = BasefileFormat /\ x.at = fmt
      BY <3>1, PutInFile DEF Found
    <3> QED
      BY <2>1, <3>2 DEF Found, fmt
  <2>3. CASE Reached(FromImports)
    <3>1. Found(BasefileFormat, fmt)
      BY <2>3 DEF DueHeaders
    <3> HIDE DEF fmt
    <3>2. \E x \in file' : x.what = BasefileFormat /\ x.at = fmt
      BY <1>1, <3>1 DEF BasefileFormat, Found
    <3> QED
      BY <2>1, <3>2 DEF Found, fmt
  <2> QED
    BY <1>2, <2>2, <2>3, BecomesDue
<1>8. Reached(FromReadOffsets)' => Found(Tls, tlsAt)'
  <2> DEFINE tls == tlsAt
  <2>1. tls' = tls
    BY <1>2 DEF Frame, tlsAt
  <2>2. CASE WriteTls
    <3>1. Wrote(TlsNew, tls, 16) /\ Raw(Tls, tls, 16) \in TlsNew
      BY <2>2, TlsAdded DEF TlsNew
    <3> HIDE DEF tls
    <3>2. \E x \in file' : x.what = Tls /\ x.at = tls
      BY <3>1, PutInFile DEF Found
    <3> QED
      BY <2>1, <3>2 DEF Found, tls
  <2>3. CASE Reached(FromReadOffsets)
    <3>1. Found(Tls, tls)
      BY <2>3 DEF DueHeaders
    <3> HIDE DEF tls
    <3>2. \E x \in file' : x.what = Tls /\ x.at = tls
      BY <1>1, <3>1 DEF Tls, Found
    <3> QED
      BY <2>1, <3>2 DEF Found, tls
  <2> QED
    BY <1>2, <2>2, <2>3, BecomesDue
<1>9. entries' = entries /\ pageDescCount' = pageDescCount
  BY <1>2 DEF Frame
<1> QED
  BY <1>3, <1>4, <1>5, <1>6, <1>7, <1>8, <1>9 DEF DueHeaders, Descriptor
LEMMA BasefileStaysDue ==
  ASSUME CoreInv, FileInv, DueBasefile, WriterStep, reliable
  PROVE  DueBasefile'
<1>1. /\ \A w : w[1] # "headersHash" /\ w \in InFile => w \in InFile'
      /\ \A w, at : w[1] # "headersHash" /\ Found(w, at) => Found(w, at)'
  BY StaysInFile
<1>2. j \in Nat \ {0} /\ Regions /\ Frame
  BY WriterRegions, WriterFrame DEF CoreInv, ControlOK
<1>3. baseAt' = baseAt /\ Blocks' = Blocks
  BY <1>2 DEF Frame, baseAt, Blocks
<1>4. step' = "basefile" /\ j' = 1 => pos' = baseAt
  <2>1. CASE SeekBasefile
    BY <2>1 DEF SeekBasefile, baseAt
  <2>2. CASE CopyBlock
    <3>1. j' # 1
      BY <1>2, <2>2 DEF CopyBlock
    <3> QED
      BY <3>1
  <2> QED
    BY <2>1, <2>2, Moves DEF FromReadOffsets
<1>5. CopyBlock => /\ Basefile(j) \in InFile' /\ step = "basefile"
                   /\ j = 1 => Found(Basefile(1), baseAt)'
  <2> SUFFICES ASSUME CopyBlock
               PROVE  /\ Basefile(j) \in InFile' /\ step = "basefile"
                      /\ j = 1 => Found(Basefile(1), baseAt)'
    OBVIOUS
  <2>1. step = "basefile"
    BY DEF CopyBlock, At
  <2>2. Raw(Basefile(j), pos, BytesToRead) \in file'
    BY BlockAdded DEF BlockNew
  <2>3. Basefile(j) \in InFile'
    BY <2>2 DEF InFile, Raw
  <2>4. ASSUME j = 1 PROVE Found(Basefile(1), baseAt)'
    <3>1. pos = baseAt
      BY <2>1, <2>4 DEF DueBasefile
    <3>2. Raw(Basefile(1), pos, BytesToRead).what = Basefile(1)
          /\ Raw(Basefile(1), pos, BytesToRead).at = baseAt
      BY <3>1 DEF Raw
    <3> QED
      BY <1>3, <2>2, <2>4, <3>2 DEF Found
  <2> QED
    BY <2>1, <2>3, <2>4
<1>6. EndBasefile => step = "basefile" /\ j > Blocks /\ Blocks \in Nat \ {0}
  <2> SUFFICES ASSUME EndBasefile PROVE step = "basefile" /\ j > Blocks /\ Blocks \in Nat \ {0}
    OBVIOUS
  <2>1. step = "basefile" /\ ~(MoreToCopy /\ BlockReadable)
    BY DEF EndBasefile, At
  <2>2. /\ MoreToCopy <=> j <= Blocks
        /\ MoreToCopy => BlockReadable
        /\ Blocks \in Nat \ {0}
    BY <1>2, <2>1, BlockFacts DEF CoreInv
  <2> QED
    BY <1>2, <2>1, <2>2
<1>7. ASSUME NEW k \in 1 .. Blocks
      PROVE  Reached(FromSecInfo)' \/ InLoop("basefile", k)' => Basefile(k) \in InFile'
  <2>1. CASE CopyBlock /\ k = j
    BY <1>5, <2>1
  <2>2. CASE Reached(FromSecInfo) \/ InLoop("basefile", k)
    <3>1. Basefile(k) \in InFile
      BY <2>2 DEF DueBasefile
    <3> QED
      BY <1>1, <3>1 DEF Basefile
  <2>3. CASE EndBasefile
    <3>1. InLoop("basefile", k)
      BY <1>2, <1>6, <2>3 DEF InLoop
    <3> QED
      BY <2>2, <3>1
  <2>4. k \in Nat \ {0}
    OBVIOUS
  <2> QED
    BY <1>2, <2>1, <2>2, <2>3, <2>4, BecomesDue
<1>8. Reached(FromSecInfo)' \/ InLoop("basefile", 1)' => Found(Basefile(1), baseAt)'
  <2>1. CASE CopyBlock /\ 1 = j
    BY <1>5, <2>1
  <2>2. CASE Reached(FromSecInfo) \/ InLoop("basefile", 1)
    <3> DEFINE base == baseAt
    <3>1. Found(Basefile(1), base)
      BY <2>2 DEF DueBasefile
    <3>2. base' = base
      BY <1>3
    <3> HIDE DEF base
    <3>3. \E x \in file' : x.what = Basefile(1) /\ x.at = base
      BY <1>1, <3>1 DEF Basefile, Found
    <3> QED
      BY <3>2, <3>3 DEF Found, base
  <2>3. CASE EndBasefile
    <3>1. InLoop("basefile", 1)
      BY <1>2, <1>6, <2>3 DEF InLoop
    <3> QED
      BY <2>2, <3>1
  <2>4. 1 \in Nat \ {0}
    OBVIOUS
  <2> QED
    BY <1>2, <2>1, <2>2, <2>3, <2>4, BecomesDue
<1> QED
  BY <1>3, <1>4, <1>7, <1>8 DEF DueBasefile, Basefile

LEMMA ImportsStayDue ==
  ASSUME CoreInv, FileInv, DueImports, WriterStep, reliable
  PROVE  DueImports'
<1> SUFFICES ASSUME lib.tableCount > 0
             PROVE  DueImports'
  <2>1. lib' = lib
    BY WriterFrame DEF Frame
  <2> QED
    BY <2>1 DEF DueImports
<1>1. /\ \A x \in file : x.what[1] # "headersHash" => x \in file'
      /\ \A w : w[1] # "headersHash" /\ w \in InFile => w \in InFile'
      /\ \A w, at : w[1] # "headersHash" /\ Found(w, at) => Found(w, at)'
  BY StaysInFile
<1>2. j \in Nat \ {0} /\ Regions /\ Frame /\ lib \in ImportLibraries
  BY WriterRegions, WriterFrame DEF CoreInv, ControlOK, InputsOK
<1>3. impAt' = impAt /\ baseAt' = baseAt /\ lib' = lib
  BY <1>2 DEF Frame, impAt, baseAt
<1>4. \A k : TableAt(k)' = TableAt(k)
  BY <1>3 DEF TableAt
<1>5. /\ lib.tableCount \in Nat /\ lib.size \in Nat /\ lib.nameTableSize \in Nat
      /\ TableAt(1) = 12 + lib.nameTableSize
      /\ TableAt(lib.tableCount + 1) = lib.size
  BY <1>2, TableFacts
<1>6. impAt \in Nat /\ baseAt \in Nat /\ impAt + lib.size = baseAt
  BY <1>2 DEF Regions
<1>7. ~SkipImports
  BY <1>2, LibFacts DEF SkipImports
<1>8. WriteImportLibs => /\ pos' = impAt + TableAt(1)
                         /\ Found(ImportLibs, impAt)'
                         /\ TableCount \in InFile' /\ <<"nameTable", 0>> \in InFile'
  <2> SUFFICES ASSUME WriteImportLibs
               PROVE  /\ pos' = impAt + TableAt(1)
                      /\ Found(ImportLibs, impAt)'
                      /\ TableCount \in InFile' /\ <<"nameTable", 0>> \in InFile'
    OBVIOUS
  <2> DEFINE imp == impAt
  <2>1. /\ Wrote(ImportLibsNew, imp, 12 + lib.nameTableSize)
        /\ Raw(ImportLibs, imp, 8) \in ImportLibsNew
        /\ Raw(TableCount, imp + 8, 4) \in ImportLibsNew
        /\ Raw(<<"nameTable", 0>>, imp + 12, lib.nameTableSize) \in ImportLibsNew
    BY ImportLibsAdded DEF ImportLibsNew
  <2>2. imp' = imp
    BY <1>3
  <2> HIDE DEF imp
  <2>3. /\ TableCount \in InFile' /\ <<"nameTable", 0>> \in InFile'
        /\ \E x \in file' : x.what = ImportLibs /\ x.at = imp
        /\ pos' = imp + (12 + lib.nameTableSize)
    BY <2>1, PutInFile DEF Found
  <2> QED
    BY <1>5, <2>2, <2>3 DEF Found, imp
<1>9. WriteImportTable => /\ ImportTable(j) \in InFile' /\ pos' = pos + TableLen
                          /\ pos = impAt + TableAt(j) /\ TableLen \in Nat /\ TableAt(j) \in Nat
                          /\ TableAt(j + 1) = TableAt(j) + TableLen
                          /\ j = lib.tableCount => LastTableEndsAtBasefile'
  <2> SUFFICES ASSUME WriteImportTable
               PROVE  /\ ImportTable(j) \in InFile' /\ pos' = pos + TableLen
                      /\ pos = impAt + TableAt(j) /\ TableLen \in Nat /\ TableAt(j) \in Nat
                      /\ TableAt(j + 1) = TableAt(j) + TableLen
                      /\ j = lib.tableCount => LastTableEndsAtBasefile'
    OBVIOUS
  <2> DEFINE e == Raw(ImportTable(j), pos, TableLen)
  <2>1. /\ Wrote(TableNew, pos, TableLen) /\ e \in TableNew
        /\ TableLen \in Nat /\ TableAt(j) \in Nat /\ TableAt(j + 1) = TableAt(j) + TableLen
    BY TableAdded DEF TableNew
  <2>2. /\ ImportTable(j) \in InFile' /\ pos' = pos + TableLen /\ e \in file'
    BY <2>1, PutInFile
  <2>3. pos = impAt + TableAt(j)
    BY DEF WriteImportTable, At, DueImports
  <2>4. ASSUME j = lib.tableCount PROVE LastTableEndsAtBasefile'
    <3>1. e.what = ImportTable(lib.tableCount) /\ e.at = pos /\ e.len = TableLen
      BY <2>4 DEF Raw
    <3> HIDE DEF e
    <3>2. TableAt(j + 1) = lib.size
      BY <1>5, <2>4
    <3>3. e.at + e.len = baseAt
      BY <1>6, <2>1, <2>3, <3>1, <3>2
    <3>4. \E x \in file' : x.what = ImportTable(lib.tableCount) /\ x.at + x.len = baseAt
      BY <2>2, <3>1, <3>3
    <3> QED
      BY <1>3, <3>4 DEF LastTableEndsAtBasefile, ImportTable
  <2> QED
    BY <2>1, <2>2, <2>3, <2>4
<1>10. step' \in {"restore", "importTables"} => pos' = impAt + TableAt(j')
  <2>1. CASE WriteImportLibs /\ j' = 1
    BY <1>8, <2>1
  <2>2. CASE RestoreTableCount /\ j' = 1
    <3>1. step = "restore" /\ pos' = pos
      BY <2>2 DEF RestoreTableCount, At
    <3>2. j = 1 /\ pos = impAt + TableAt(j)
      BY <3>1 DEF CoreInv, ControlOK, DueImports
    <3> QED
      BY <2>2, <3>1, <3>2
  <2>3. CASE WriteImportTable /\ j' = j + 1
    BY <1>6, <1>9, <2>3
  <2> QED
    BY <2>1, <2>2, <2>3, Moves DEF FromReadOffsets
<1>11. Reached(FromRestore)' => /\ Found(ImportLibs, impAt)'
                                /\ TableCount \in InFile' /\ <<"nameTable", 0>> \in InFile'
  <2>1. CASE Reached(FromRestore)
    <3> DEFINE imp == impAt
    <3>1. Found(ImportLibs, imp) /\ TableCount \in InFile /\ <<"nameTable", 0>> \in InFile
      BY <2>1 DEF DueImports
    <3>2. imp' = imp
      BY <1>3
    <3> HIDE DEF imp
    <3>3. \E x \in file' : x.what = ImportLibs /\ x.at = imp
      BY <1>1, <3>1 DEF ImportLibs, Found
    <3> QED
      BY <1>1, <3>1, <3>2, <3>3 DEF Found, imp, TableCount
  <2> QED
    BY <1>2, <1>7, <1>8, <2>1, BecomesDue
<1>12. EndImports => step = "importTables" /\ j > lib.tableCount
  BY DEF EndImports, At
<1>13. ASSUME NEW k \in 1 .. lib.tableCount
       PROVE  Reached(FromTls)' \/ InLoop("importTables", k)' => ImportTable(k) \in InFile'
  <2>1. CASE WriteImportTable /\ k = j
    BY <1>9, <2>1
  <2>2. CASE Reached(FromTls) \/ InLoop("importTables", k)
    <3>1. ImportTable(k) \in InFile
      BY <2>2 DEF DueImports
    <3> QED
      BY <1>1, <3>1 DEF ImportTable
  <2>3. CASE EndImports
    <3>1. InLoop("importTables", k)
      BY <1>2, <1>5, <1>12, <2>3 DEF InLoop
    <3> QED
      BY <2>2, <3>1
  <2>4. k \in Nat \ {0}
    BY <1>5
  <2> QED
    BY <1>2, <1>7, <2>1, <2>2, <2>3, <2>4, BecomesDue
<1>14. Reached(FromTls)' \/ InLoop("importTables", lib.tableCount)' => LastTableEndsAtBasefile'
  <2>1. CASE WriteImportTable /\ lib.tableCount = j
    BY <1>9, <2>1
  <2>2. CASE Reached(FromTls) \/ InLoop("importTables", lib.tableCount)
    <3>1. LastTableEndsAtBasefile
      BY <2>2 DEF DueImports
    <3>2. \E x \in file' : x.what = ImportTable(lib.tableCount) /\ x.at + x.len = baseAt
      BY <1>1, <3>1 DEF LastTableEndsAtBasefile, ImportTable
    <3> QED
      BY <1>3, <3>2 DEF LastTableEndsAtBasefile, ImportTable
  <2>3. CASE EndImports
    <3>1. InLoop("importTables", lib.tableCount)
      BY <1>12, <2>3 DEF InLoop
    <3> QED
      BY <2>2, <3>1
  <2>4. lib.tableCount \in Nat \ {0} /\ lib'.tableCount = lib.tableCount
    BY <1>3, <1>5
  <2>5. ASSUME NEW n \in {lib.tableCount}
        PROVE  InLoop("importTables", n)' => InLoop("importTables", n) \/ (WriteImportTable /\ n = j)
    BY <1>2, <2>4, BecomesDue
  <2>6. InLoop("importTables", lib.tableCount)' =>
          InLoop("importTables", lib.tableCount) \/ (WriteImportTable /\ lib.tableCount = j)
    BY <2>4, <2>5 DEF InLoop
  <2> QED
    BY <1>2, <1>7, <2>1, <2>2, <2>3, <2>6, BecomesDue
<1> QED
  BY <1>3, <1>4, <1>10, <1>11, <1>13, <1>14 DEF DueImports, ImportTable, InLoop
LEMMA DueInit == WriteInit => DueInv
BY DEF WriteInit, DueInv, DueHeaders, DueBasefile, DueImports, Reached, InLoop,
       FromReadOffsets, FromTls, FromTables, FromRestore, FromImports, FromFormat,
       FromSecInfo, FromBasefile, FromDescriptors, FromEntries, FromSwapEntries

LEMMA DueNext == CoreInv /\ FileInv /\ DueInv /\ [Next]_vars => DueInv'
<1> SUFFICES ASSUME CoreInv, FileInv, DueInv, [Next]_vars PROVE DueInv'
  OBVIOUS
<1>1. CASE PlacerStep /\ UNCHANGED writeVars
  <2>1. NotStarted
    BY <1>1, PlacerLeaves DEF CoreInv
  <2>2. step' = "xexHeader"
    BY <1>1, <2>1 DEF NotStarted, writeVars
  <2> QED
    BY <2>2 DEF DueInv, DueHeaders, DueBasefile, DueImports, Reached, InLoop,
       FromReadOffsets, FromTls, FromTables, FromRestore, FromImports, FromFormat,
       FromSecInfo, FromBasefile, FromDescriptors, FromEntries, FromSwapEntries
<1>2. CASE WriterStep
  <2>1. pc = "placed" /\ pc' = pc /\ reliable' = reliable
    BY <1>2, WriterFrame DEF Frame
  <2>2. CASE reliable
    <3>1. DueHeaders /\ DueBasefile /\ DueImports
      BY <2>1, <2>2 DEF DueInv
    <3>2. DueHeaders' /\ DueBasefile' /\ DueImports'
      BY <1>2, <2>2, <3>1, HeadersStayDue, BasefileStaysDue, ImportsStayDue
    <3> QED
      BY <3>2 DEF DueInv
  <2>3. CASE ~reliable
    BY <2>1, <2>3 DEF DueInv
  <2> QED
    BY <2>2, <2>3
<1>3. CASE UNCHANGED vars
  <2>1. /\ pc' = pc /\ reliable' = reliable /\ step' = step /\ ret' = ret /\ j' = j /\ pos' = pos
        /\ file' = file /\ entries' = entries /\ pageDescCount' = pageDescCount
        /\ offsets' = offsets /\ lib' = lib /\ peSize' = peSize
    BY <1>3 DEF vars, placerVars, placerInputs, writeVars, inputs
  <2>2. DueHeaders => DueHeaders'
    BY <2>1 DEF DueHeaders, Reached, InLoop, Found, InFile, secAt, fmtAt, tlsAt
  <2>3. DueBasefile => DueBasefile'
    BY <2>1 DEF DueBasefile, Reached, InLoop, Found, InFile, baseAt, Blocks
  <2>4. DueImports => DueImports'
    BY <2>1 DEF DueImports, Reached, InLoop, Found, InFile, impAt, baseAt, TableAt,
                LastTableEndsAtBasefile
  <2> QED
    BY <2>1, <2>2, <2>3, <2>4 DEF DueInv
<1> QED
  BY <1>1, <1>2, <1>3, NextCases

LEMMA DueInvariant == Spec => []DueInv
BY CoreInvariant, FileInvariant, DueInit, DueNext, PTL DEF Spec

(* Where a loader that follows the entries looks for each header.          *)
LEMMA WhereEntriesPoint ==
  ASSUME LayoutInv, TablesInv, Placed, NEW id \in DataIds
  PROVE  \/ HeaderName(id) = BasefileFormat /\ DataStart(id) = fmtAt
         \/ HeaderName(id) = Tls /\ DataStart(id) = tlsAt
         \/ HeaderName(id) = ImportLibs /\ DataStart(id) = impAt /\ lib.tableCount > 0
<1> DEFINE t == IF lib.tableCount > 0 THEN 4 ELSE 3
<1>1. PlacerTypeOK
  BY DEF LayoutInv
<1>2. /\ lib \in ImportLibraries
      /\ \A k \in DOMAIN entries : entries[k].id = OptHeaderIds(lib)[k]
      /\ DOMAIN OptHeaderIds(lib) = DOMAIN entries
      /\ DOMAIN entries = 1 .. Len(entries) /\ Len(entries) \in Nat /\ 4 <= Len(entries)
      /\ \A a, b \in DOMAIN entries : entries[a].id = entries[b].id => a = b
  BY <1>1, EntryFacts, IdPlaces DEF PlacerTypeOK
<1>3. 1 \in DOMAIN entries /\ t \in DOMAIN entries
  BY <1>2
<1>4. /\ entries[1].id = XEX_OPT_ID_BASEFILE_FORMAT /\ SepStart(1) = fmtAt
      /\ entries[t].id = XEX_OPT_ID_TLS_INFO /\ SepStart(t) = tlsAt
      /\ lib.tableCount > 0 => SepStart(3) = impAt
  BY PlacedRegions
<1>5. /\ EntryOf(id) \in DOMAIN entries /\ entries[EntryOf(id)].id = id
      /\ DataStart(id) = SepStart(EntryOf(id))
      /\ id = XEX_OPT_ID_IMPORT_LIBS => lib.tableCount > 0 /\ EntryOf(id) = 3
  BY <1>1, EntryFound
<1>6. id \in {XEX_OPT_ID_BASEFILE_FORMAT, XEX_OPT_ID_TLS_INFO, XEX_OPT_ID_IMPORT_LIBS}
  <2>1. PICK k \in DOMAIN entries : HasData(entries[k].id) /\ entries[k].id = id
    BY DEF DataIds
  <2> QED
    BY <1>2, <2>1, Ranks
<1>7. /\ HeaderName(XEX_OPT_ID_BASEFILE_FORMAT) = BasefileFormat
      /\ HeaderName(XEX_OPT_ID_TLS_INFO) = Tls
      /\ HeaderName(XEX_OPT_ID_IMPORT_LIBS) = ImportLibs
  BY SMT DEF HeaderName, XEX_OPT_ID_BASEFILE_FORMAT, XEX_OPT_ID_TLS_INFO, XEX_OPT_ID_IMPORT_LIBS
<1>8. id = XEX_OPT_ID_BASEFILE_FORMAT => EntryOf(id) = 1
  BY <1>2, <1>3, <1>4, <1>5
<1>9. id = XEX_OPT_ID_TLS_INFO => EntryOf(id) = t
  BY <1>2, <1>3, <1>4, <1>5
<1> HIDE DEF t
<1> QED
  BY <1>4, <1>5, <1>6, <1>7, <1>8, <1>9

(***************************************************************************)
(* A loader finds every structure of a finished XEX where its headers say  *)
(* it is, and the imports reach up to the basefile.                        *)
(***************************************************************************)
THEOREM LoaderFindsHeaders == Spec => []EntriesFindHeaders
<1>1. CoreInv /\ FileInv /\ HashInv /\ DueInv => EntriesFindHeaders
  <2> SUFFICES ASSUME CoreInv, FileInv, HashInv, DueInv, ret = "success", reliable
               PROVE  /\ \A id \in DataIds : Found(HeaderName(id), DataStart(id))
                      /\ Found(SecInfo, xexHeader.secInfoOffset)
                      /\ Found(Basefile(1), xexHeader.peOffset)
                      /\ lib.tableCount > 0 =>
                           \E x \in file : /\ x.what = ImportTable(lib.tableCount)
                                           /\ x.at + x.len = xexHeader.peOffset
    BY DEF EntriesFindHeaders
  <2>1. step = "returned"
    BY DEF HashInv, FileInv
  <2>2. pc = "placed"
    BY <2>1 DEF CoreInv, NotStarted
  <2>3. LayoutInv /\ TablesInv /\ Placed
    BY <2>2 DEF CoreInv, Placed
  <2>4. xexHeader.secInfoOffset = secAt /\ xexHeader.peOffset = baseAt
    BY <2>3, PlacedRegions DEF Regions
  <2>5. \A steps : Reached(steps)
    BY <2>1 DEF Reached
  <2>6. /\ Found(SecInfo, secAt) /\ Found(BasefileFormat, fmtAt) /\ Found(Tls, tlsAt)
        /\ Found(Basefile(1), baseAt)
        /\ lib.tableCount > 0 => Found(ImportLibs, impAt) /\ LastTableEndsAtBasefile
    BY <2>2, <2>5 DEF DueInv, DueHeaders, DueBasefile, DueImports
  <2>7. ASSUME NEW id \in DataIds PROVE Found(HeaderName(id), DataStart(id))
    BY <2>3, <2>6, WhereEntriesPoint
  <2> QED
    BY <2>4, <2>6, <2>7 DEF LastTableEndsAtBasefile
<1> QED
  BY <1>1, CoreInvariant, FileInvariant, HashInvariant, DueInvariant, PTL
-----------------------------------------------------------------------------
(* The writer implements XexImage.                                         *)

(* The structures of an image are known by name, and the hash is not one.  *)
LEMMA WantedNames ==
  ASSUME LayoutInv, InputsOK
  PROVE  /\ Wanted \subseteq StructureNames \X Nat
         /\ \A w \in Wanted : w[1] # "headersHash"
         /\ Digest \notin Wanted
<1>1. /\ DOMAIN entries \subseteq Nat /\ 1 .. pageDescCount \subseteq Nat /\ 0 .. 3 \subseteq Nat
      /\ 1 .. (peSize + readBufSize - 1) \div readBufSize \subseteq Nat
  BY EntryFacts DEF LayoutInv, InputsOK, readBufSize
<1>2. 1 .. lib.tableCount \subseteq Nat
  BY LibFacts DEF InputsOK
<1>3. /\ {XexHeader, BasefileFormat, Tls} \subseteq StructureNames \X Nat
      /\ {ImportLibs, TableCount, <<"nameTable", 0>>} \subseteq StructureNames \X Nat
      /\ \A k \in Nat : /\ <<"optHeaderEntries", k>> \in StructureNames \X Nat
                        /\ Descriptor(k) \in StructureNames \X Nat
                        /\ Basefile(k) \in StructureNames \X Nat
                        /\ <<"secInfoHeader", k>> \in StructureNames \X Nat
                        /\ ImportTable(k) \in StructureNames \X Nat
  BY DEF StructureNames, XexHeader, BasefileFormat, Tls, ImportLibs, TableCount, Descriptor,
         Basefile, ImportTable
<1>4. Wanted \subseteq StructureNames \X Nat
  <2> SUFFICES ASSUME NEW w \in Wanted PROVE w \in StructureNames \X Nat
    OBVIOUS
  <2>1. CASE w \in {XexHeader, BasefileFormat, Tls}
    BY <1>3, <2>1
  <2>2. CASE \E k \in Nat : w \in {<<"optHeaderEntries", k>>, Descriptor(k), Basefile(k),
                                   <<"secInfoHeader", k>>, ImportTable(k)}
    BY <1>3, <2>2
  <2>3. CASE w \in {ImportLibs, TableCount, <<"nameTable", 0>>}
    BY <1>3, <2>3
  <2> QED
    BY <1>1, <1>2, <2>1, <2>2, <2>3, Zenon DEF Wanted
<1>5. \A w \in StructureNames \X Nat : w[1] # "headersHash"
  BY DEF StructureNames, XexHeader
<1> QED
  BY <1>4, <1>5 DEF Digest

(* What is wanted does not change while the image is laid out and written. *)
LEMMA WantedKept ==
  ASSUME CoreInv, CoreInv', [Next]_vars
  PROVE  Wanted' = Wanted
<1>1. lib' = lib /\ pageDescCount' = pageDescCount /\ peSize' = peSize
  <2>1. CASE PlacerStep /\ UNCHANGED writeVars
    BY <2>1, PlacerLeaves DEF placerInputs, writeVars, inputs
  <2>2. CASE WriterStep
    BY <2>2, WriterFrame DEF Frame
  <2>3. CASE UNCHANGED vars
    BY <2>3 DEF vars, placerVars, placerInputs, writeVars, inputs
  <2> QED
    BY <2>1, <2>2, <2>3, NextCases
<1>2. DOMAIN entries = 1 .. Len(OptHeaderIds(lib))
  <2>1. PlacerTypeOK
    BY DEF CoreInv, LayoutInv
  <2> QED
    BY <2>1, EntryFacts DEF PlacerTypeOK
<1>3. (DOMAIN entries)' = 1 .. Len(OptHeaderIds(lib'))
  BY DEF CoreInv, LayoutInv, PlacerTypeOK
<1> QED
  BY <1>1, <1>2, <1>3 DEF Wanted

(* With every write made, nothing is missing when the digest is written.   *)
LEMMA CompleteAtDigest ==
  ASSUME CoreInv, DueInv, pc = "placed", reliable, step = "digest"
  PROVE  Wanted \subseteq InFile
<1>1. /\ Reached(FromSwapEntries) /\ Reached(FromDescriptors) /\ Reached(FromBasefile)
      /\ Reached(FromSecInfo) /\ Reached(FromFormat) /\ Reached(FromImports)
      /\ Reached(FromRestore) /\ Reached(FromTls) /\ Reached(FromReadOffsets)
  BY DEF Reached, FromReadOffsets, FromTls, FromTables, FromRestore, FromImports, FromFormat,
         FromSecInfo, FromBasefile, FromDescriptors, FromEntries, FromSwapEntries
<1>2. \A w, at : Found(w, at) => w \in InFile
  BY DEF Found, InFile
<1>3. DueHeaders /\ DueBasefile /\ DueImports
  BY DEF DueInv
<1>4. {XexHeader, BasefileFormat, Tls} \subseteq InFile
  BY <1>1, <1>2, <1>3 DEF DueHeaders
<1>5. \A k \in DOMAIN entries : <<"optHeaderEntries", k>> \in InFile
  <2>1. DOMAIN entries = 1 .. Len(entries)
    BY EntryFacts DEF CoreInv, LayoutInv
  <2> QED
    BY <1>1, <1>3, <2>1 DEF DueHeaders
<1>6. \A k \in 1 .. pageDescCount : Descriptor(k) \in InFile
  BY <1>1, <1>3 DEF DueHeaders
<1>7. \A k \in 0 .. 3 : <<"secInfoHeader", k>> \in InFile
  BY <1>1, <1>3 DEF DueHeaders
<1>8. \A k \in 1 .. (peSize + readBufSize - 1) \div readBufSize : Basefile(k) \in InFile
  <2>1. (peSize + readBufSize - 1) \div readBufSize = Blocks
    BY DEF CoreInv, InputsOK, Blocks, readBufSize
  <2> QED
    BY <1>1, <1>3, <2>1 DEF DueBasefile
<1>9. lib.tableCount > 0 =>
        /\ ImportLibs \in InFile /\ TableCount \in InFile /\ <<"nameTable", 0>> \in InFile
        /\ \A k \in 1 .. lib.tableCount : ImportTable(k) \in InFile
  BY <1>1, <1>2, <1>3 DEF DueImports
<1> QED
  BY <1>4, <1>5, <1>6, <1>7, <1>8, <1>9 DEF Wanted

LEMMA ImageInit == WriteInit /\ CoreInv => Image!Init
<1> SUFFICES ASSUME WriteInit, CoreInv PROVE Image!Init
  OBVIOUS
<1>1. Wanted \subseteq StructureNames \X Nat
  BY WantedNames DEF CoreInv
<1>2. file = {} /\ reliable \in BOOLEAN
  BY DEF WriteInit, CoreInv, InputsOK
<1>3. InFile = {}
  BY <1>2 DEF InFile
<1> QED
  BY <1>1, <1>2, <1>3 DEF Image!Init

LEMMA ImageNext ==
  CoreInv /\ FileInv /\ DueInv /\ CoreInv' /\ [Next]_vars => [Image!Next]_(Image!imageVars)
<1> SUFFICES ASSUME CoreInv, FileInv, DueInv, CoreInv', [Next]_vars
             PROVE  [Image!Next]_(Image!imageVars)
  OBVIOUS
<1>1. Wanted' = Wanted
  BY WantedKept
<1>2. \A w \in Wanted : w[1] # "headersHash" /\ w # Digest
  BY WantedNames DEF CoreInv
<1>3. CASE file' = file /\ reliable' = reliable
  BY <1>1, <1>3 DEF Image!imageVars, InFile
<1>4. CASE WriterStep
  <2>1. reliable' = reliable /\ pc = "placed" /\ Regions /\ FileOK /\ Bounded
    BY <1>4, WriterFrame, WriterRegions DEF Frame, FileInv
  <2>2. step # "returned"
    BY <1>4, Moves, WriterRegions DEF FromReadOffsets, WriterStep, WriteXexHeader, SwapEntries,
         WriteEntry, SeekDescriptors, WriteDescriptor, SeekBasefile, CopyBlock, EndBasefile,
         WriteSecInfo, WriteBasefileFormat, SkipImports, WriteImportLibs, RestoreTableCount,
         WriteImportTable, EndImports, WriteTls, ReadOffsets, ReadOffsetsFails, HashRemainder,
         HashStart, WriteDigest, Reading, At
  <2>3. Digest \notin InFile
    BY <2>2 DEF FileInv
  <2>4. InFile \cap Wanted \subseteq InFile' \cap Wanted
    BY <1>2, <1>4, StaysInFile
  <2>5. CASE WriteDigest
    <3>1. file' \in SUBSET (file \cup {DigestNew}) /\ DigestNew.what = Digest
      BY <2>5, DigestWritten DEF DigestNew, Raw
    <3>2. InFile' \cap Wanted \subseteq InFile \cap Wanted
      BY <1>2, <3>1 DEF InFile
    <3>3. CASE DigestNew \in file'
      <4>1. Digest \in InFile'
        BY <3>1, <3>3 DEF InFile
      <4>2. step = "digest"
        BY <2>5 DEF WriteDigest, At
      <4>3. reliable => InFile \cap Wanted = Wanted
        BY <2>1, <4>2, CompleteAtDigest
      <4> QED
        BY <1>1, <2>1, <2>3, <2>4, <3>2, <4>1, <4>3 DEF Image!Next, Image!Seal
    <3>4. CASE file' = file
      BY <1>3, <2>1, <3>4
    <3> QED
      BY <2>5, <3>3, <3>4, DigestWritten
  <2>6. CASE ~WriteDigest
    <3>1. PICK new : Adds(new)
      BY <1>4, <2>6, StepAdds
    <3>2. Digest \notin InFile'
      BY <2>3, <3>1 DEF Adds, Addable, InFile
    <3>3. CASE InFile' \cap Wanted = InFile \cap Wanted
      BY <1>1, <2>1, <2>3, <3>2, <3>3 DEF Image!imageVars
    <3>4. CASE InFile' \cap Wanted # InFile \cap Wanted
      BY <1>1, <2>1, <2>3, <2>4, <3>2, <3>4 DEF Image!Next, Image!Write
    <3> QED
      BY <3>3, <3>4
  <2> QED
    BY <2>5, <2>6
<1>5. CASE PlacerStep /\ UNCHANGED writeVars
  BY <1>3, <1>5 DEF writeVars, inputs
<1>6. CASE UNCHANGED vars
  BY <1>3, <1>6 DEF vars, writeVars, inputs
<1> QED
  BY <1>4, <1>5, <1>6, NextCases

(***************************************************************************)
(* Whatever the layout and the host: the file only gains structures, none  *)
(* written is damaged by a later write, and the hash is put on once and    *)
(* last, over an image that lacks nothing unless a write came up short.    *)
(***************************************************************************)
THEOREM WriterImplementsImage == Spec => ImplementsImage
<1>1. WriteInit => Image!Init
  BY CoreInit, ImageInit
<1> QED
  BY <1>1, CoreInvariant, FileInvariant, DueInvariant, ImageNext, PTL
     DEF Spec, ImplementsImage, Image!Spec

-----------------------------------------------------------------------------
(***************************************************************************)
(* How far the writer is from its end: the steps behind the one it is at,  *)
(* and of each loop a turn for each entry, page, block and table; before   *)
(* it starts, what placeStructs has left to do as well.                    *)
(***************************************************************************)
entryCount == Len(entries)
tableCount == lib.tableCount

TurnsLeft(k, n) == IF k <= n THEN n + 1 - k ELSE 0

AfterBasefile    == 12 + tableCount
AfterDescriptors == AfterBasefile + 1 + Blocks
AfterEntries     == AfterDescriptors + 1 + pageDescCount

WriterLeft ==
  CASE step = "xexHeader"      -> AfterEntries + 3 + entryCount
    [] step = "swapEntries"    -> AfterEntries + 2 + entryCount
    [] step = "entries"        -> AfterEntries + 1 + TurnsLeft(j, entryCount)
    [] step = "descriptors"    -> AfterDescriptors + 1 + TurnsLeft(j, pageDescCount)
    [] step = "basefile"       -> AfterBasefile + 1 + TurnsLeft(j, Blocks)
    [] step = "secInfo"        -> 11 + tableCount
    [] step = "basefileFormat" -> 10 + tableCount
    [] step = "imports"        -> 9 + tableCount
    [] step = "restore"        -> 8 + tableCount
    [] step = "importTables"   -> 6 + TurnsLeft(j, tableCount)
    [] step = "tlsInfo"        -> 5
    [] step = "readOffsets"    -> 4
    [] step = "hashRemainder"  -> 3
    [] step = "hashStart"      -> 2
    [] step = "digest"         -> 1
    [] step = "returned"       -> 0

PlacerLeft ==
  CASE pc = "placeStructs" -> 4 + entryCount
    [] pc = "calloc"       -> 3 + entryCount
    [] pc = "loop"         -> 2 + (entryCount + 1 - i)
    [] pc = "imports"      -> 1
    [] OTHER               -> 0

StepsLeft ==
  CASE pc = "outOfMem" -> 0
    [] pc = "placed"   -> WriterLeft
    [] OTHER           -> PlacerLeft + WriterLeft

LEMMA Turns ==
  ASSUME NEW k \in Nat \ {0}, NEW n \in Nat
  PROVE  /\ TurnsLeft(k, n) \in 0 .. n
         /\ TurnsLeft(1, n) = n
         /\ k <= n => TurnsLeft(k + 1, n) < TurnsLeft(k, n)
  BY DEF TurnsLeft

LEMMA CountsNat ==
  ASSUME CoreInv
  PROVE  /\ entryCount \in Nat /\ pageDescCount \in Nat /\ Blocks \in Nat
         /\ tableCount \in Nat /\ j \in Nat \ {0}
         /\ AfterBasefile \in Nat /\ AfterDescriptors \in Nat /\ AfterEntries \in Nat
<1>1. entryCount \in Nat
  BY EntryFacts DEF CoreInv, LayoutInv, entryCount
<1>2. pageDescCount \in Nat /\ Blocks \in Nat /\ tableCount \in Nat
  <2>1. pageDescCount \in Nat /\ peSize \in Nat \ {0} /\ lib \in ImportLibraries
    BY DEF CoreInv, InputsOK
  <2> QED
    BY <2>1, LibFacts DEF Blocks, tableCount
<1>3. j \in Nat \ {0}
  BY DEF CoreInv, ControlOK
<1> QED
  BY <1>1, <1>2, <1>3 DEF AfterBasefile, AfterDescriptors, AfterEntries

LEMMA WriterLeftNat ==
  ASSUME CoreInv
  PROVE  WriterLeft \in Nat /\ (step # "returned" => WriterLeft > 0)
<1>1. /\ entryCount \in Nat /\ pageDescCount \in Nat /\ Blocks \in Nat
      /\ tableCount \in Nat
      /\ AfterBasefile \in Nat /\ AfterDescriptors \in Nat /\ AfterEntries \in Nat
  BY CountsNat
<1>2. /\ TurnsLeft(j, entryCount) \in Nat /\ TurnsLeft(j, pageDescCount) \in Nat
      /\ TurnsLeft(j, Blocks) \in Nat /\ TurnsLeft(j, tableCount) \in Nat
  BY CountsNat, Turns
<1>3. \A a, b \in Nat : a + 1 + b \in Nat \ {0} /\ a + 2 + b \in Nat \ {0}
                       /\ a + 3 + b \in Nat \ {0}
  OBVIOUS
<1>4. CASE step = "xexHeader"
  <2>1. WriterLeft = AfterEntries + 3 + entryCount
    BY <1>4 DEF WriterLeft
  <2>2. WriterLeft \in Nat \ {0}
    BY <1>1, <1>2, <1>3, <2>1
  <2> QED
    BY <2>2
<1>5. CASE step = "swapEntries"
  <2>1. WriterLeft = AfterEntries + 2 + entryCount
    BY <1>5 DEF WriterLeft
  <2>2. WriterLeft \in Nat \ {0}
    BY <1>1, <1>2, <1>3, <2>1
  <2> QED
    BY <2>2
<1>6. CASE step = "entries"
  <2>1. WriterLeft = AfterEntries + 1 + TurnsLeft(j, entryCount)
    BY <1>6 DEF WriterLeft
  <2>2. WriterLeft \in Nat \ {0}
    BY <1>1, <1>2, <1>3, <2>1
  <2> QED
    BY <2>2
<1>7. CASE step = "descriptors"
  <2>1. WriterLeft = AfterDescriptors + 1 + TurnsLeft(j, pageDescCount)
    BY <1>7 DEF WriterLeft
  <2>2. WriterLeft \in Nat \ {0}
    BY <1>1, <1>2, <1>3, <2>1
  <2> QED
    BY <2>2
<1>8. CASE step = "basefile"
  <2>1. WriterLeft = AfterBasefile + 1 + TurnsLeft(j, Blocks)
    BY <1>8 DEF WriterLeft
  <2>2. WriterLeft \in Nat \ {0}
    BY <1>1, <1>2, <1>3, <2>1
  <2> QED
    BY <2>2
<1>9. CASE step \in {"secInfo", "basefileFormat", "imports", "restore", "importTables"}
  <2>1. WriterLeft \in {11 + tableCount, 10 + tableCount, 9 + tableCount,
                       8 + tableCount, 6 + TurnsLeft(j, tableCount)}
    BY <1>9 DEF WriterLeft
  <2>2. \A a \in Nat, k \in {6, 8, 9, 10, 11} : k + a \in Nat \ {0}
    OBVIOUS
  <2>3. WriterLeft \in Nat \ {0}
    BY <1>1, <1>2, <2>1, <2>2
  <2> QED
    BY <2>3
<1>10. CASE step \in FromTls \cup {"returned"}
  BY <1>10 DEF WriterLeft, FromTls, FromReadOffsets
<1> QED
  BY <1>4, <1>5, <1>6, <1>7, <1>8, <1>9, <1>10 DEF CoreInv, ControlOK, FromTables, FromRestore,
     FromImports, FromFormat, FromSecInfo, FromBasefile, FromDescriptors, FromEntries,
     FromSwapEntries

LEMMA StepsLeftNat == CoreInv => StepsLeft \in Nat
<1> SUFFICES ASSUME CoreInv PROVE StepsLeft \in Nat
  OBVIOUS
<1>1. entryCount \in Nat /\ i \in 1 .. entryCount + 1
  BY EntryFacts DEF CoreInv, LayoutInv, PlacerTypeOK, entryCount
<1>2. PlacerLeft \in Nat
  BY <1>1 DEF PlacerLeft
<1> QED
  BY <1>2, WriterLeftNat DEF StepsLeft

LEMMA PlacerNears ==
  ASSUME CoreInv, CoreInv', PlacerStep, UNCHANGED writeVars
  PROVE  StepsLeft' < StepsLeft
<1>1. pc # "placed" /\ UNCHANGED placerInputs
  BY PlacerLeaves
<1>2. Len(entries) = Len(OptHeaderIds(lib)) /\ Len(entries') = Len(OptHeaderIds(lib'))
  BY DEF CoreInv, LayoutInv, PlacerTypeOK
<1>3. entryCount' = entryCount /\ entryCount \in Nat
  BY <1>1, <1>2, CountsNat DEF placerInputs, entryCount
<1>4. WriterLeft' = WriterLeft /\ WriterLeft \in Nat /\ WriterLeft > 0
  <2>1. step' = step /\ step = "xexHeader"
    BY <1>1 DEF CoreInv, NotStarted, writeVars
  <2>2. Blocks' = Blocks /\ lib' = lib /\ pageDescCount' = pageDescCount
    BY <1>1 DEF writeVars, inputs, Blocks, placerInputs
  <2>3. WriterLeft = AfterEntries + 3 + entryCount
    BY <2>1 DEF WriterLeft
  <2>4. WriterLeft' = AfterEntries' + 3 + entryCount'
    BY <2>1 DEF WriterLeft
  <2>5. AfterEntries' = AfterEntries
    BY <2>2 DEF AfterEntries, AfterDescriptors, AfterBasefile, tableCount
  <2> QED
    BY <1>3, <2>1, <2>3, <2>4, <2>5, WriterLeftNat
<1>5. i \in Nat /\ i <= entryCount + 1 /\ (pc = "calloc" => i = 1)
  BY <1>3 DEF CoreInv, LayoutInv, PlacerTypeOK, entryCount
<1>6. pc # "outOfMem" /\ PlacerLeft \in Nat /\ (pc' = "outOfMem" \/ PlacerLeft' < PlacerLeft)
  <2> USE DEF PlacerLeft
  <2>1. CASE PlaceHeaders
    <3>1. pc = "placeStructs" /\ pc' = "calloc"
      BY <2>1 DEF PlaceHeaders
    <3> QED
      BY <1>3, <3>1
  <2>2. CASE AllocOptHeaders
    <3>1. pc = "calloc" /\ pc' \in {"loop", "outOfMem"} /\ i' = i /\ i = 1
      BY <1>5, <2>2 DEF AllocOptHeaders
    <3> QED
      BY <1>3, <3>1
  <2>3. CASE \E id \in OptHeaderIdSet : \/ PlaceSeparateHeader(id)
                                        \/ ReserveImportHeader(id)
                                        \/ SkipInlineHeader(id)
    <3>1. pc = "loop" /\ pc' = "loop" /\ i <= entryCount /\ i' = i + 1
      BY <2>3 DEF PlaceSeparateHeader, ReserveImportHeader, SkipInlineHeader, NextEntry,
         entryCount
    <3> QED
      BY <1>3, <1>5, <3>1
  <2>4. CASE PlaceBasefile
    <3>1. pc = "loop" /\ pc' = "imports"
      BY <2>4 DEF PlaceBasefile
    <3> QED
      BY <1>3, <1>5, <3>1
  <2>5. CASE PlaceImports
    <3>1. pc = "imports" /\ pc' = "placed"
      BY <2>5 DEF PlaceImports
    <3> QED
      BY <1>3, <3>1
  <2> QED
    BY <2>1, <2>2, <2>3, <2>4, <2>5 DEF PlacerStep
<1>7. PlacerLeft' \in Nat
  <2>1. i' \in 1 .. entryCount' + 1
    BY DEF CoreInv, LayoutInv, PlacerTypeOK, entryCount
  <2> QED
    BY <1>3, <2>1 DEF PlacerLeft
<1>8. StepsLeft = PlacerLeft + WriterLeft
  BY <1>1, <1>6 DEF StepsLeft
<1>9. CASE pc' = "outOfMem"
  <2>1. StepsLeft' = 0
    BY <1>9 DEF StepsLeft
  <2> QED
    BY <1>4, <1>6, <1>8, <2>1
<1>10. CASE pc' # "outOfMem"
  <2>1. StepsLeft' = PlacerLeft' + WriterLeft'
    <3>1. CASE pc' = "placed"
      <4>1. StepsLeft' = WriterLeft' /\ PlacerLeft' = 0
        BY <3>1 DEF StepsLeft, PlacerLeft
      <4> QED
        BY <1>4, <4>1
    <3>2. CASE pc' # "placed"
      BY <1>10, <3>2 DEF StepsLeft
    <3> QED
      BY <3>1, <3>2
  <2>2. PlacerLeft' < PlacerLeft /\ PlacerLeft \in Nat
    BY <1>6, <1>10
  <2>3. \A a, b, w \in Nat : a < b => a + w < b + w
    OBVIOUS
  <2> QED
    BY <1>4, <1>7, <1>8, <2>1, <2>2, <2>3
<1> QED
  BY <1>9, <1>10

LEMMA WriterNears ==
  ASSUME CoreInv, WriterStep
  PROVE  StepsLeft' < StepsLeft
<1>1. pc = "placed" /\ pc' = "placed" /\ Frame
  BY WriterFrame DEF Frame
<1>2. /\ entryCount \in Nat /\ pageDescCount \in Nat /\ Blocks \in Nat /\ tableCount \in Nat /\ j \in Nat \ {0}
      /\ AfterBasefile = 12 + tableCount
      /\ AfterDescriptors = AfterBasefile + 1 + Blocks
      /\ AfterEntries = AfterDescriptors + 1 + pageDescCount
  BY CountsNat DEF AfterBasefile, AfterDescriptors, AfterEntries
<1>3. /\ entryCount' = entryCount /\ pageDescCount' = pageDescCount /\ Blocks' = Blocks /\ tableCount' = tableCount
      /\ AfterBasefile' = AfterBasefile /\ AfterDescriptors' = AfterDescriptors
      /\ AfterEntries' = AfterEntries
  BY <1>1 DEF Frame, Blocks, AfterBasefile, AfterDescriptors, AfterEntries, entryCount,
     tableCount
<1>4. /\ TurnsLeft(j, entryCount) \in 0 .. entryCount /\ TurnsLeft(1, entryCount) = entryCount
      /\ TurnsLeft(j, pageDescCount) \in 0 .. pageDescCount /\ TurnsLeft(1, pageDescCount) = pageDescCount
      /\ TurnsLeft(j, tableCount) \in 0 .. tableCount /\ TurnsLeft(1, tableCount) = tableCount
      /\ TurnsLeft(j, Blocks) \in 0 .. Blocks /\ TurnsLeft(1, Blocks) = Blocks
  BY <1>2, Turns
<1>5. WriterLeft' < WriterLeft
  <2> USE DEF At, Goto
  <2>1. CASE step' = "returned"
    <3>1. step # "returned"
      BY DEF WriterStep, WriteXexHeader, SwapEntries, WriteEntry, SeekDescriptors,
         WriteDescriptor, SeekBasefile, CopyBlock, EndBasefile, WriteSecInfo,
         WriteBasefileFormat, SkipImports, WriteImportLibs, RestoreTableCount, WriteImportTable,
         EndImports, WriteTls, ReadOffsets, ReadOffsetsFails, HashRemainder, HashStart,
         WriteDigest, Reading
    <3>2. WriterLeft' = 0
      BY <2>1 DEF WriterLeft
    <3> QED
      BY <3>1, <3>2, WriterLeftNat
  <2>2. WriterLeft \in Nat
    BY WriterLeftNat
  <2>3. \A a, b, c \in Nat : b < c => /\ a + 1 + b < a + 1 + c
                                     /\ 6 + b < 6 + c
    OBVIOUS
  <2>4. CASE step' # "returned"
    <3>1. CASE step' = step
      <4>1. j' = j + 1 /\ \/ step = "entries" /\ j <= entryCount
                          \/ step = "descriptors" /\ j <= InMemory(SecInfo, pageDescCount)
                          \/ step = "basefile" /\ MoreToCopy
                          \/ step = "importTables" /\ j <= tableCount
        BY <3>1 DEF WriterStep, WriteXexHeader, SwapEntries, WriteEntry, SeekDescriptors,
           WriteDescriptor, SeekBasefile, CopyBlock, EndBasefile, WriteSecInfo,
           WriteBasefileFormat, SkipImports, WriteImportLibs, RestoreTableCount,
           WriteImportTable, EndImports, WriteTls, ReadOffsets, ReadOffsetsFails, HashRemainder,
           HashStart, WriteDigest, Reading, Return, HashRange, entryCount, tableCount
      <4>2. step = "descriptors" => InMemory(SecInfo, pageDescCount) = pageDescCount
        BY Native DEF CoreInv
      <4>3. step = "basefile" /\ MoreToCopy => j <= Blocks
        BY <1>2, BlockFacts DEF CoreInv
      <4>4. CASE step = "entries"
        <5>1. /\ WriterLeft = AfterEntries + 1 + TurnsLeft(j, entryCount)
              /\ WriterLeft' = AfterEntries' + 1 + TurnsLeft(j', entryCount')
          BY <3>1, <4>4 DEF WriterLeft
        <5>2. TurnsLeft(j + 1, entryCount) < TurnsLeft(j, entryCount)
          BY <1>2, <4>1, <4>4, Turns
        <5>3. TurnsLeft(j + 1, entryCount) \in Nat
          BY <1>2, Turns
        <5> QED
          BY <1>2, <1>3, <1>4, <2>3, <4>1, <4>4, <5>1, <5>2, <5>3
      <4>5. CASE step = "descriptors"
        <5>1. /\ WriterLeft = AfterDescriptors + 1 + TurnsLeft(j, pageDescCount)
              /\ WriterLeft' = AfterDescriptors' + 1 + TurnsLeft(j', pageDescCount')
          BY <3>1, <4>5 DEF WriterLeft
        <5>2. TurnsLeft(j + 1, pageDescCount) < TurnsLeft(j, pageDescCount)
          BY <1>2, <4>1, <4>2, <4>5, Turns
        <5>3. TurnsLeft(j + 1, pageDescCount) \in Nat
          BY <1>2, Turns
        <5> QED
          BY <1>2, <1>3, <1>4, <2>3, <4>1, <4>5, <5>1, <5>2, <5>3
      <4>6. CASE step = "basefile"
        <5>1. /\ WriterLeft = AfterBasefile + 1 + TurnsLeft(j, Blocks)
              /\ WriterLeft' = AfterBasefile' + 1 + TurnsLeft(j', Blocks')
          BY <3>1, <4>6 DEF WriterLeft
        <5>2. TurnsLeft(j + 1, Blocks) < TurnsLeft(j, Blocks)
          BY <1>2, <4>1, <4>3, <4>6, Turns
        <5>3. TurnsLeft(j + 1, Blocks) \in Nat
          BY <1>2, Turns
        <5> QED
          BY <1>2, <1>3, <1>4, <2>3, <4>1, <4>6, <5>1, <5>2, <5>3
      <4>7. CASE step = "importTables"
        <5>1. /\ WriterLeft = 6 + TurnsLeft(j, tableCount)
              /\ WriterLeft' = 6 + TurnsLeft(j', tableCount')
          BY <3>1, <4>7 DEF WriterLeft
        <5>2. TurnsLeft(j + 1, tableCount) < TurnsLeft(j, tableCount)
          BY <1>2, <4>1, <4>7, Turns
        <5>3. TurnsLeft(j + 1, tableCount) \in Nat
          BY <1>2, Turns
        <5> QED
          BY <1>2, <1>3, <1>4, <2>3, <4>1, <4>7, <5>1, <5>2, <5>3
      <4> QED
        BY <4>1, <4>4, <4>5, <4>6, <4>7
    <3>2. CASE step' # step
      <4>1. /\ Advances
            /\ step' \in {"entries", "descriptors", "basefile", "importTables"} => j' = 1
        <5>1. Advances
          BY <1>2, ControlKept DEF CoreInv, entryCount
        <5>2. step' \in {"entries", "descriptors", "basefile", "importTables"} => j' = 1
          BY <2>4, <3>2 DEF WriterStep, WriteXexHeader, SwapEntries, WriteEntry, SeekDescriptors,
             WriteDescriptor, SeekBasefile, CopyBlock, EndBasefile, WriteSecInfo,
             WriteBasefileFormat, SkipImports, WriteImportLibs, RestoreTableCount,
             WriteImportTable, EndImports, WriteTls, ReadOffsets, ReadOffsetsFails, HashRemainder,
             HashStart, WriteDigest, Reading, Return, HashRange
        <5> QED
          BY <5>1, <5>2
      <4>2. CASE step = "xexHeader" /\ step' = "swapEntries"
        <5>1. /\ WriterLeft = AfterEntries + 3 + entryCount
              /\ WriterLeft' = AfterEntries + 2 + entryCount
          BY <1>3, <1>4, <4>1, <4>2 DEF WriterLeft
        <5> QED
          BY <1>2, <1>4, <5>1
      <4>3. CASE step = "swapEntries" /\ step' = "entries"
        <5>1. /\ WriterLeft = AfterEntries + 2 + entryCount
              /\ WriterLeft' = AfterEntries + 1 + entryCount
          BY <1>3, <1>4, <4>1, <4>3 DEF WriterLeft
        <5> QED
          BY <1>2, <1>4, <5>1
      <4>4. CASE step = "entries" /\ step' = "descriptors"
        <5>1. /\ WriterLeft = AfterEntries + 1 + TurnsLeft(j, entryCount)
              /\ WriterLeft' = AfterDescriptors + 1 + pageDescCount
          BY <1>3, <1>4, <4>1, <4>4 DEF WriterLeft
        <5> QED
          BY <1>2, <1>4, <5>1
      <4>5. CASE step = "descriptors" /\ step' = "basefile"
        <5>1. /\ WriterLeft = AfterDescriptors + 1 + TurnsLeft(j, pageDescCount)
              /\ WriterLeft' = AfterBasefile + 1 + Blocks
          BY <1>3, <1>4, <4>1, <4>5 DEF WriterLeft
        <5> QED
          BY <1>2, <1>4, <5>1
      <4>6. CASE step = "basefile" /\ step' = "secInfo"
        <5>1. /\ WriterLeft = AfterBasefile + 1 + TurnsLeft(j, Blocks)
              /\ WriterLeft' = 11 + tableCount
          BY <1>3, <1>4, <4>1, <4>6 DEF WriterLeft
        <5> QED
          BY <1>2, <1>4, <5>1
      <4>7. CASE step = "secInfo" /\ step' = "basefileFormat"
        <5>1. /\ WriterLeft = 11 + tableCount
              /\ WriterLeft' = 10 + tableCount
          BY <1>3, <1>4, <4>1, <4>7 DEF WriterLeft
        <5> QED
          BY <1>2, <1>4, <5>1
      <4>8. CASE step = "basefileFormat" /\ step' = "imports"
        <5>1. /\ WriterLeft = 10 + tableCount
              /\ WriterLeft' = 9 + tableCount
          BY <1>3, <1>4, <4>1, <4>8 DEF WriterLeft
        <5> QED
          BY <1>2, <1>4, <5>1
      <4>9. CASE step = "restore" /\ step' = "importTables"
        <5>1. /\ WriterLeft = 8 + tableCount
              /\ WriterLeft' = 6 + tableCount
          BY <1>3, <1>4, <4>1, <4>9 DEF WriterLeft
        <5> QED
          BY <1>2, <1>4, <5>1
      <4>10. CASE step = "importTables" /\ step' = "tlsInfo"
        <5>1. /\ WriterLeft = 6 + TurnsLeft(j, tableCount)
              /\ WriterLeft' = 5
          BY <1>3, <1>4, <4>1, <4>10 DEF WriterLeft
        <5> QED
          BY <1>2, <1>4, <5>1
      <4>11. CASE step = "imports" /\ step' \in {"restore", "tlsInfo"}
        <5>1. WriterLeft = 9 + tableCount /\ WriterLeft' \in {8 + tableCount, 5}
          BY <1>3, <4>11 DEF WriterLeft
        <5> QED
          BY <1>2, <5>1
      <4>12. CASE step \in FromTls
        BY <2>4, <3>2, <4>1, <4>12 DEF Advances, WriterLeft, FromTls, FromReadOffsets
      <4> QED
        BY <2>4, <3>2, <4>1, <4>2, <4>3, <4>4, <4>5, <4>6, <4>7, <4>8, <4>9, <4>10, <4>11, <4>12
           DEF Advances, FromTls, FromReadOffsets
    <3> QED
      BY <3>1, <3>2
  <2> QED
    BY <2>1, <2>4
<1>6. StepsLeft = WriterLeft /\ StepsLeft' = WriterLeft'
  BY <1>1 DEF StepsLeft
<1> QED
  BY <1>5, <1>6

(***************************************************************************)
(* Every step of placing and writing comes nearer to the end: a XEX is     *)
(* built, or given up, within a turn for each entry, page, block and       *)
(* import table and some twenty steps more.  The fields that the loops run *)
(* to are swapped in place, but never before the loop is over, and none of *)
(* the seeks back takes the writer to an earlier stage.                    *)
(***************************************************************************)
THEOREM WriterNearsItsEnd == Spec => [](StepsLeft \in Nat) /\ [][StepsLeft' < StepsLeft]_vars
<1>1. CoreInv /\ CoreInv' /\ [Next]_vars => [StepsLeft' < StepsLeft]_vars
  BY NextCases, PlacerNears, WriterNears
<1> QED
  BY <1>1, CoreInvariant, StepsLeftNat, PTL DEF Spec
=============================================================================
