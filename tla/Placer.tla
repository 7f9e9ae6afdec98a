------------------------------- MODULE Placer -------------------------------
(***************************************************************************)
(* placer/placer.c: choosing the file offset of every structure of the XEX *)
(* before anything is written.  placeStructs lays the headers out in order *)
(* of appearance, setOptHeaderOffsets walks the optional header entries,   *)
(* and the import libraries are placed last, so that they END where the    *)
(* basefile begins.                                                        *)
(*                                                                         *)
(* The inputs are what the earlier stages leave behind: the number of page *)
(* descriptors in secInfoHeader, and the import libraries in optHeaders    *)
(* (total size and number of tables).  C arrays are sequences here, so an  *)
(* index is one more than in the source.                                   *)
(***************************************************************************)
EXTENDS DataStorage, Sequences

CONSTANTS
  PageCounts,          \* the values of secInfoHeader->pageDescCount considered
  ImportLibraries      \* the values of optHeaders->importLibraries considered

VARIABLES
  pc,                  \* where placeStructs stands
  pageDescCount,       \* secInfoHeader->pageDescCount
  lib,                 \* optHeaders->importLibraries
  entries,             \* optHeaderEntries->optHeaderEntry
  offsets,             \* struct offsets
  xexHeader,           \* the two offsets the XEX header advertises
  currentOffset, i, sepHeader, importLibIdcs    \* the locals of placer.c

placerVars == <<pc, pageDescCount, lib, entries, offsets, xexHeader,
                currentOffset, i, sepHeader, importLibIdcs>>

(***************************************************************************)
(* The layout arithmetic is meant for headers that fit in 32 bits: the     *)
(* page count is at most 2^32 / 4096, and the import addresses come from a *)
(* PE file whose own size is 32-bit.  Footprint bounds what is laid out.   *)
(***************************************************************************)
Footprint(n, l) == 5000 + n * SizeofPageDescriptor + l.size

ASSUME PlacerAssumption ==
  /\ PageCounts \subseteq Nat
  /\ \A l \in ImportLibraries :
       l.size \in Nat /\ l.tableCount \in Nat /\ (l.tableCount = 0 => l.size = 0)
  /\ \A n \in PageCounts, l \in ImportLibraries : Footprint(n, l) < Word

(* Headers with data of their own outside the entry, placed in the loop.   *)
SeparateSize(id) ==
  CASE id = XEX_OPT_ID_BASEFILE_FORMAT -> SizeofBasefileFormat
    [] id = XEX_OPT_ID_TLS_INFO        -> SizeofTlsInfo
    [] OTHER                           -> 0

IsSeparate(id) == SeparateSize(id) # 0

(* struct importLibIdcs is on the stack and nothing initialises it.        *)
Uninitialised == [header |-> 0, entry |-> 0]

PlacerInit ==
  /\ pc = "placeStructs"
  /\ pageDescCount \in PageCounts
  /\ lib \in ImportLibraries
  /\ entries = [k \in DOMAIN OptHeaderIds(lib) |->
                  [id |-> OptHeaderIds(lib)[k], dataOrOffset |-> 0]]
  /\ offsets = [xexHeader |-> 0, optHeaderEntries |-> 0, secInfoHeader |-> 0,
                optHeaders |-> <<>>, basefile |-> 0]
  /\ xexHeader = [secInfoOffset |-> 0, peOffset |-> 0]
  /\ currentOffset = 0 /\ i = 1 /\ sepHeader = 1
  /\ importLibIdcs = Uninitialised

placerInputs == <<pageDescCount, lib>>

-----------------------------------------------------------------------------
(* XEX header, optional header entries, security header.                   *)
PlaceHeaders ==
  /\ pc = "placeStructs"
  /\ LET entriesAt == SizeofXexHeader
         secInfoAt == getNextAligned(
                        U32(entriesAt + Len(entries) * SizeofOptHeaderEntry), 8)
     IN  /\ offsets' = [offsets EXCEPT !.xexHeader = 0,
                                       !.optHeaderEntries = entriesAt,
                                       !.secInfoHeader = secInfoAt]
         /\ xexHeader' = [xexHeader EXCEPT !.secInfoOffset = secInfoAt]
         /\ currentOffset' = U32(secInfoAt + SizeofSecInfoHeader
                                 + pageDescCount * SizeofPageDescriptor)
  /\ pc' = "calloc"
  /\ UNCHANGED <<placerInputs, entries, i, sepHeader, importLibIdcs>>

(* Mutated form of AllocOptHeaders: an element for each separate header    *)
(* but not for each entry.                                                 *)
AllocSeparateOnly ==
  /\ pc = "calloc"
  /\ offsets' = [offsets EXCEPT !.optHeaders = [k \in 1 .. Len(entries) - 2 |-> 0]]
  /\ pc' = "loop"
  /\ UNCHANGED <<placerInputs, entries, xexHeader, currentOffset, i, sepHeader,
                 importLibIdcs>>

(* offsets->optHeaders = calloc(count): zeroed, or ERR_OUT_OF_MEM.         *)
AllocOptHeaders ==
  /\ pc = "calloc"
  /\ \/ /\ offsets' = [offsets EXCEPT !.optHeaders = [k \in DOMAIN entries |-> 0]]
        /\ pc' = "loop"
     \/ pc' = "outOfMem" /\ UNCHANGED offsets
  /\ UNCHANGED <<placerInputs, entries, xexHeader, currentOffset, i, sepHeader,
                 importLibIdcs>>

(* Every turn of the loop aligns the offset first, whatever the entry is.  *)
NextEntry(id) ==
  /\ pc = "loop"
  /\ i <= Len(entries)
  /\ entries[i].id = id
  /\ i' = i + 1
  /\ UNCHANGED <<placerInputs, pc, xexHeader>>

PlaceSeparateHeader(id) ==
  /\ NextEntry(id)
  /\ IsSeparate(id)
  /\ LET at == getNextAligned(currentOffset, 8)
     IN  /\ entries' = [entries EXCEPT ![i].dataOrOffset = at]
         /\ offsets' = [offsets EXCEPT !.optHeaders[sepHeader] = at]
         /\ currentOffset' = U32(at + SeparateSize(id))
  /\ sepHeader' = sepHeader + 1
  /\ UNCHANGED importLibIdcs

(* Mutated form of ReserveImportHeader: the counter does not move.         *)
ReserveWithoutCounting(id) ==
  /\ NextEntry(id)
  /\ id = XEX_OPT_ID_IMPORT_LIBS
  /\ currentOffset' = getNextAligned(currentOffset, 8)
  /\ importLibIdcs' = [header |-> sepHeader, entry |-> i]
  /\ UNCHANGED <<entries, offsets, sepHeader>>

(* The imports only take their place among the separate headers for now.   *)
ReserveImportHeader(id) ==
  /\ NextEntry(id)
  /\ id = XEX_OPT_ID_IMPORT_LIBS
  /\ currentOffset' = getNextAligned(currentOffset, 8)
  /\ importLibIdcs' = [header |-> sepHeader, entry |-> i]
  /\ sepHeader' = sepHeader + 1
  /\ UNCHANGED <<entries, offsets>>

(* Entry point and system flags: the entry itself is the data.             *)
SkipInlineHeader(id) ==
  /\ NextEntry(id)
  /\ ~IsSeparate(id) /\ id # XEX_OPT_ID_IMPORT_LIBS
  /\ currentOffset' = getNextAligned(currentOffset, 8)
  /\ UNCHANGED <<entries, offsets, sepHeader, importLibIdcs>>

(* Mutated form of PlaceBasefile: no room is left for the imports.         *)
PlaceBasefileTooLow ==
  /\ pc = "loop" /\ i > Len(entries)
  /\ LET at == getNextAligned(currentOffset, 4096)
     IN  /\ currentOffset' = at
         /\ offsets' = [offsets EXCEPT !.basefile = at]
         /\ xexHeader' = [xexHeader EXCEPT !.peOffset = at]
  /\ pc' = "imports"
  /\ UNCHANGED <<placerInputs, entries, i, sepHeader, importLibIdcs>>

(* Room for the imports, then the basefile on the next 4 KiB boundary.     *)
PlaceBasefile ==
  /\ pc = "loop" /\ i > Len(entries)
  /\ LET at == getNextAligned(U32(currentOffset + lib.size), 4096)
     IN  /\ currentOffset' = at
         /\ offsets' = [offsets EXCEPT !.basefile = at]
         /\ xexHeader' = [xexHeader EXCEPT !.peOffset = at]
  /\ pc' = "imports"
  /\ UNCHANGED <<placerInputs, entries, i, sepHeader, importLibIdcs>>

(* The imports end where the basefile starts.                              *)
PlaceImports ==
  /\ pc = "imports"
  /\ IF lib.tableCount > 0
     THEN LET at == U32(offsets.basefile - lib.size)
          IN  /\ offsets' = [offsets EXCEPT !.optHeaders[importLibIdcs.header] = at]
              /\ entries' = [entries EXCEPT ![importLibIdcs.entry].dataOrOffset = at]
     ELSE UNCHANGED <<offsets, entries>>
  /\ pc' = "placed"
  /\ UNCHANGED <<placerInputs, xexHeader, currentOffset, i, sepHeader, importLibIdcs>>

OptHeaderIdSet == {XEX_OPT_ID_BASEFILE_FORMAT, XEX_OPT_ID_ENTRYPOINT,
                   XEX_OPT_ID_IMPORT_LIBS, XEX_OPT_ID_TLS_INFO, XEX_OPT_ID_SYS_FLAGS}

(* placeStructs has returned.                                              *)
PlacerDone == pc \in {"placed", "outOfMem"} /\ UNCHANGED placerVars

PlacerStep ==
  \/ PlaceHeaders
  \/ AllocOptHeaders
  \/ \E id \in OptHeaderIdSet : \/ PlaceSeparateHeader(id)
                                \/ ReserveImportHeader(id)
                                \/ SkipInlineHeader(id)
  \/ PlaceBasefile
  \/ PlaceImports

PlacerNext == PlacerStep \/ PlacerDone

PlacerSpec == PlacerInit /\ [][PlacerNext]_placerVars

-----------------------------------------------------------------------------
(* What the finished layout says.  A loader finds the optional headers     *)
(* through the entries, so their places are read from there.               *)
Placed == pc = "placed"

EntryOf(id) == CHOOSE k \in DOMAIN entries : entries[k].id = id

HasData(id) == IsSeparate(id) \/ id = XEX_OPT_ID_IMPORT_LIBS

DataIds == {entries[k].id : k \in {j \in DOMAIN entries : HasData(entries[j].id)}}

DataStart(id) == entries[EntryOf(id)].dataOrOffset

DataEnd(id) ==
  DataStart(id) + (IF id = XEX_OPT_ID_IMPORT_LIBS THEN lib.size ELSE SeparateSize(id))

FixedEnd ==            \* where the security header and its descriptors end
  offsets.secInfoHeader + SizeofSecInfoHeader + pageDescCount * SizeofPageDescriptor

(***************************************************************************)
(* Types of everything placeStructs touches.                               *)
(***************************************************************************)
PlacerTypeOK ==
  /\ pc \in {"placeStructs", "calloc", "loop", "imports", "placed", "outOfMem"}
  /\ pageDescCount \in PageCounts
  /\ lib \in ImportLibraries
  /\ entries \in Seq([id : OptHeaderIdSet, dataOrOffset : Nat])
  /\ Len(entries) = Len(OptHeaderIds(lib))
  /\ \A k \in DOMAIN entries : entries[k].id = OptHeaderIds(lib)[k]
  /\ offsets \in [xexHeader : {0}, optHeaderEntries : Nat, secInfoHeader : Nat,
                  optHeaders : Seq(Nat), basefile : Nat]
  /\ Len(offsets.optHeaders) \in {0, Len(entries)}
  /\ xexHeader \in [secInfoOffset : Nat, peOffset : Nat]
  /\ currentOffset \in Nat /\ i \in 1 .. Len(entries) + 1 /\ sepHeader \in 1 .. i
  /\ importLibIdcs \in [header : Nat, entry : Nat]

(***************************************************************************)
(* No two structures of the finished layout share a byte: the fixed        *)
(* headers follow one another, and every optional header with data of its  *)
(* own lies above them and apart from every other.  Two independent        *)
(* mechanisms place them (the forward loop, and the backward placement of  *)
(* the imports from the basefile), and nothing in the code compares them.  *)
(***************************************************************************)
HeadersDisjoint ==
  Placed =>
    /\ offsets.xexHeader + SizeofXexHeader <= offsets.optHeaderEntries
    /\ offsets.optHeaderEntries + Len(entries) * SizeofOptHeaderEntry
         <= xexHeader.secInfoOffset
    /\ xexHeader.secInfoOffset = offsets.secInfoHeader
    /\ \A a \in DataIds : FixedEnd <= DataStart(a)
    /\ \A a, b \in DataIds : a # b => DataEnd(a) <= DataStart(b) \/ DataEnd(b) <= DataStart(a)

(***************************************************************************)
(* The basefile starts on a 4 KiB boundary above every header, and the     *)
(* import libraries end exactly there ("the end of this header is aligned  *)
(* to the start of the basefile").                                         *)
(***************************************************************************)
BasefileAboveHeaders ==
  Placed =>
    /\ xexHeader.peOffset = offsets.basefile
    /\ offsets.basefile % 4096 = 0
    /\ FixedEnd <= offsets.basefile
    /\ \A a \in DataIds : DataEnd(a) <= offsets.basefile
    /\ lib.tableCount > 0 => DataEnd(XEX_OPT_ID_IMPORT_LIBS) = offsets.basefile

(***************************************************************************)
(* placer.c records every separate header twice: in its entry, which the   *)
(* console's loader follows, and in offsets->optHeaders, which writexex.c  *)
(* follows with a counter of its own.  The n-th header with data must be   *)
(* the n-th element of offsets->optHeaders.                                *)
(***************************************************************************)
OffsetTablesAgree ==
  Placed =>
    \A k \in DOMAIN entries :
      HasData(entries[k].id) =>
        LET ordinal == Cardinality({j \in 1 .. k : HasData(entries[j].id)})
        IN  offsets.optHeaders[ordinal] = entries[k].dataOrOffset
=============================================================================
