---------------------------- MODULE DataStorage ----------------------------
(***************************************************************************)
(* The address arithmetic and the data layout of common/datastorage.[ch]:  *)
(* 32-bit offsets, the alignment helper, the two translations between the  *)
(* PE's relative virtual addresses and its file offsets, and the on-disk   *)
(* sizes of the packed XEX structures (what sizeof gives once the trailing *)
(* in-memory pointers are subtracted, as the code does everywhere).        *)
(***************************************************************************)
EXTENDS Integers, FiniteSets, Sequences

CONSTANT Word          \* 2^32 in the program: uint32_t arithmetic is modulo Word

ASSUME WordAssumption == Word \in Nat \ {0}

U32(x) == x % Word

(* Mutated form of getNextAligned: rounds down.                            *)
PreviousAligned(offset, alignment) == offset - (offset % alignment)

(***************************************************************************)
(* getNextAligned: the first multiple of alignment at or after offset.     *)
(***************************************************************************)
getNextAligned(offset, alignment) ==
  IF offset % alignment # 0
  THEN U32(offset + (alignment - (offset % alignment)))
  ELSE offset

(***************************************************************************)
(* rvaToOffset and offsetToRVA.  sections is a function from 1..n to       *)
(* records with fields rva, virtualSize, offset, rawSize.  Both walk the   *)
(* table backwards and take the LAST section that starts at or before the  *)
(* address; 0 stands for "not found".                                      *)
(***************************************************************************)
Column(sections, field) == [i \in DOMAIN sections |-> sections[i][field]]

(* Mutated form of LastStartingBy: an address that a section starts at is  *)
(* still in the one before.                                                *)
LastStartingBelow(x, starts) ==
  CHOOSE i \in DOMAIN starts :
    /\ starts[i] <= x
    /\ \A j \in DOMAIN starts : starts[j] < x => j <= i

LastStartingBy(x, starts) ==
  CHOOSE i \in DOMAIN starts :
    /\ starts[i] <= x
    /\ \A j \in DOMAIN starts : starts[j] <= x => j <= i

Translate(x, from, size, to) ==
  LET n == Cardinality(DOMAIN from)
  IN  IF \/ n > 0 /\ x >= U32(from[n] + size[n])
         \/ \A i \in DOMAIN from : from[i] > x
      THEN 0
      ELSE LET i == LastStartingBy(x, from)
           IN  U32((x - from[i]) + to[i])

RVAtoOffset(rva, sections) ==
  Translate(rva, Column(sections, "rva"), Column(sections, "virtualSize"),
            Column(sections, "offset"))

(* Mutated form of rvaToOffset: another value for "not found".             *)
rvaToOffsetOrMinusOne(rva, sections) ==
  IF RVAtoOffset(rva, sections) = 0 THEN -1 ELSE RVAtoOffset(rva, sections)

rvaToOffset(rva, sections) == RVAtoOffset(rva, sections)

offsetToRVA(offset, sections) ==
  Translate(offset, Column(sections, "offset"), Column(sections, "rawSize"),
            Column(sections, "rva"))

-----------------------------------------------------------------------------
(* Optional header IDs (datastorage.h).                                    *)
XEX_OPT_ID_BASEFILE_FORMAT == 1023      \* 0x003FF
XEX_OPT_ID_ENTRYPOINT      == 65792     \* 0x10100
XEX_OPT_ID_IMPORT_LIBS     == 66559     \* 0x103FF
XEX_OPT_ID_TLS_INFO        == 131332    \* 0x20104
XEX_OPT_ID_SYS_FLAGS       == 196608    \* 0x30000

(***************************************************************************)
(* What the placer and the writer may take as given of setOptHeaders: the  *)
(* entries in the order of their IDs, that of the import libraries l where *)
(* there are any.  OptHeaders shows that this is what it makes.            *)
(***************************************************************************)
OptHeaderIds(l) ==
  IF l.tableCount > 0
  THEN <<XEX_OPT_ID_BASEFILE_FORMAT, XEX_OPT_ID_ENTRYPOINT, XEX_OPT_ID_IMPORT_LIBS,
         XEX_OPT_ID_TLS_INFO, XEX_OPT_ID_SYS_FLAGS>>
  ELSE <<XEX_OPT_ID_BASEFILE_FORMAT, XEX_OPT_ID_ENTRYPOINT, XEX_OPT_ID_TLS_INFO,
         XEX_OPT_ID_SYS_FLAGS>>

(* On-disk sizes, in bytes, of the packed structures.                      *)
SizeofXexHeader       == 24
SizeofOptHeaderEntry  == 8
SizeofSecInfoHeader   == 388            \* 0x184, descriptor pointer excluded
SizeofPageDescriptor  == 24
SizeofBasefileFormat  == 16
SizeofTlsInfo         == 16
SizeofImportLibraries == 12             \* the two in-memory pointers excluded
SizeofImportTable     == 40             \* the address pointer excluded

(***************************************************************************)
(* The 8 bits that stand for the t-th library in its import table, where   *)
(* setImportLibsInfo puts them, and in its IAT entries, where xenonifyIAT  *)
(* does: a loader goes from one to the other.  byte is 2^8.                *)
(***************************************************************************)
ModuleIndex(t, byte) == (t - 1) % byte

(***************************************************************************)
(* setImportLibsInfo sums up the size of the import libraries: their own   *)
(* fields, the names, and the tables one after another.  What the sum is   *)
(* in front of each table, and behind the last.                            *)
(***************************************************************************)
ImportTableAt(nameTableSize, addressCounts) ==
  LET at[k \in 1 .. Len(addressCounts) + 1] ==
        IF k = 1 THEN SizeofImportLibraries + nameTableSize
        ELSE at[k - 1] + SizeofImportTable + 4 * addressCounts[k - 1]
  IN  at

ImportLibrariesSize(nameTableSize, addressCounts) ==
  ImportTableAt(nameTableSize, addressCounts)[Len(addressCounts) + 1]

(* What the writer may take as given of the libraries l, if there are any: *)
(* OptHeaders shows it of those that setImportLibsInfo makes.              *)
LibrariesAsBuilt(l) ==
  /\ l.addressCounts \in Seq(Nat) /\ l.tableCount = Len(l.addressCounts)
  /\ IF l.tableCount = 0 THEN l.size = 0
     ELSE /\ l.nameTableSize \in Nat \ {0}
          /\ l.size = ImportLibrariesSize(l.nameTableSize, l.addressCounts)
=============================================================================
