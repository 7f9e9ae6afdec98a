------------------------------ MODULE PEHeader ------------------------------
(***************************************************************************)
(* The three readers of a PE's headers, in the order main calls them:      *)
(* validatePE, getHdrData with getSectionInfo (getdata/gethdrdata.c), and  *)
(* the first half of mapPEToBasefile (pemapper/pemapper.c), which reads    *)
(* the section table once more and the headers in one piece.  Each finds   *)
(* its own way through the file; none hands its findings to the next.      *)
(*                                                                         *)
(* A file has a length, the values of the fields in it by position, and    *)
(* the flags that are set in its fields of flags; every other byte is 0.   *)
(***************************************************************************)
EXTENDS DataStorage, Sequences

CONSTANT PEs             \* the files considered

(* Bound: a file is shorter than 4 GiB.                                    *)
ASSUME PEHeaderAssumption ==
  \A f \in PEs : /\ f.len \in 0 .. Word - 1
                 /\ DOMAIN f.word \subseteq Nat /\ DOMAIN f.flags \subseteq Nat
                 /\ \A p \in DOMAIN f.word : f.word[p] \in 0 .. Word - 1

VARIABLES
  step,                  \* where the readers stand
  pe,                    \* the file
  skipMachineCheck,      \* option -s
  found,                 \* validatePE: its three locals
  i,                     \* the section in hand, from 1
  peData,                \* the fields getHdrData fills in
  sections,              \* peData->sections
  sectionInfo,           \* mapPEToBasefile: the section table read again
  trouble,               \* the last read that failed: at the end of the file, or otherwise
  ret

vars == <<step, pe, skipMachineCheck, found, i, peData, sections, sectionInfo, trouble, ret>>

(* Positions from the start of the file, of the PE header, of an entry.    *)
LfaNew == 60
Machine == 4
SectionCount == 6
SizeOfOptHdr == 20
SubSystem == 92
PageAlignment == 56
Tls == 192
SizeofCoff == 24         \* signature included
SizeofEntry == 40

StandardOptHdr == 224    \* what the fixed positions of getHdrData imply

Val(pos) == IF pos \in DOMAIN pe.word THEN pe.word[pos] ELSE 0
FlagsAt(pos) == IF pos \in DOMAIN pe.flags THEN pe.flags[pos] ELSE {}

(***************************************************************************)
(* get16BitFromPE, get32BitFromPE: a read of size bytes fails at the end   *)
(* of the file and may fail anywhere, and then gives 0 and sets errno.     *)
(***************************************************************************)
Outcomes(pos, bytes) == {IF pos + bytes <= pe.len THEN "none" ELSE "eof", "io"}

Got(errno, pos) == IF errno = "none" THEN Val(pos) ELSE 0

Blank == [peHeaderOffset |-> 0, numberOfSections |-> 0, sectionTableSize |-> 0,
          headerSize |-> 0, characteristics |-> 0, entryPoint |-> 0, baseAddr |-> 0,
          pageSize |-> 0, exportCount |-> 0, idtRVA |-> 0, tlsAddr |-> 0, tlsSize |-> 0]

Init ==
  /\ step = "size"
  /\ pe \in PEs /\ skipMachineCheck \in BOOLEAN
  /\ found = [peHeaderOffset |-> 0, sectionCount |-> 0, sizeOfOptHdr |-> 0]
  /\ i = 1
  /\ peData = Blank /\ sections = <<>> /\ sectionInfo = <<>>
  /\ trouble = "none" /\ ret = "none"

At(s) == step = s /\ UNCHANGED <<pe, skipMachineCheck>>

Goto(s) == step' = s /\ UNCHANGED ret

Return(r) == step' = "returned" /\ ret' = r

Note(errno) == trouble' = IF errno = "none" THEN trouble ELSE errno

(* "if(<bad> || errno != SUCCESS) return false"                            *)
Require(errno, good, next) ==
  /\ Note(errno)
  /\ IF good /\ errno = "none" THEN Goto(next) ELSE Return("invalid")

(* "if(errno != SUCCESS) return errno"                                     *)
Proceed(errno, next) ==
  /\ Note(errno)
  /\ IF errno = "none" THEN Goto(next) ELSE Return("fileRead")

laterVars == <<peData, sections, sectionInfo>>

-----------------------------------------------------------------------------
(* validatePE.                                                             *)
finalOffset == pe.len

CheckSize ==
  /\ At("size")
  /\ IF finalOffset < 64 THEN Return("invalid") ELSE Goto("magic")
  /\ UNCHANGED <<found, i, laterVars, trouble>>

CheckMagic ==
  /\ At("magic")
  /\ \E errno \in Outcomes(0, 2) : Require(errno, Got(errno, 0) = 23117, "pointer")
  /\ UNCHANGED <<found, i, laterVars>>

CheckPointer ==
  /\ At("pointer")
  /\ \E errno \in Outcomes(LfaNew, 4) :
       /\ found' = [found EXCEPT !.peHeaderOffset = Got(errno, LfaNew)]
       /\ Require(errno, finalOffset >= Got(errno, LfaNew), "sectionCount")
  /\ UNCHANGED <<i, laterVars>>

(* The comparison in front of this read leaves peHeaderOffset out, and so  *)
(* always passes.                                                          *)
CheckSectionCount ==
  LET pos == found.peHeaderOffset + SectionCount
  IN  /\ At("sectionCount")
      /\ finalOffset >= 22
      /\ \E errno \in Outcomes(pos, 2) :
           /\ found' = [found EXCEPT !.sectionCount = Got(errno, pos)]
           /\ Require(errno, Got(errno, pos) # 0, "headers")
      /\ UNCHANGED <<i, laterVars>>

(* Mutated form of EndOfTable: the table is taken for empty.               *)
StartOfTable(optHdr) == found.peHeaderOffset + SizeofCoff + optHdr

EndOfTable(optHdr) ==
  found.peHeaderOffset + SizeofCoff + optHdr + found.sectionCount * SizeofEntry

CheckHeaders ==
  LET pos == found.peHeaderOffset + SizeOfOptHdr
  IN  /\ At("headers")
      /\ \E errno \in Outcomes(pos, 2) :
           /\ found' = [found EXCEPT !.sizeOfOptHdr = Got(errno, pos)]
           /\ Require(errno, finalOffset >= EndOfTable(Got(errno, pos)), "machine")
      /\ UNCHANGED <<i, laterVars>>

CheckField(here, at, bytes, allowed, next) ==
  LET pos == found.peHeaderOffset + at
  IN  /\ At(here)
      /\ \E errno \in Outcomes(pos, bytes) : Require(errno, Got(errno, pos) \in allowed, next)
      /\ UNCHANGED <<found, i, laterVars>>

(* 0x1F2 is POWERPCBE, 0xE is XBOX, pages are of 4 KiB or 64 KiB.          *)
CheckMachine ==
  CheckField("machine", Machine, 2, IF skipMachineCheck THEN Nat ELSE {498}, "subsystem")
CheckSubsystem == CheckField("subsystem", SubSystem, 2, {14}, "pageAlignment")
CheckPageSize  == CheckField("pageAlignment", PageAlignment, 4, {4096, 65536}, "rawData")

(* Entry k of the section table, where validatePE looks for it.            *)
Entry(k) == found.peHeaderOffset + SizeofCoff + found.sizeOfOptHdr + (k - 1) * SizeofEntry

RawSize(k) == Val(Entry(k) + 16)
RawOffset(k) == Val(Entry(k) + 20)

(* Mutated form of EndOfRawData: the size is left out.                     *)
StartOfRawData(k) == RawOffset(k)

(* The sum wraps.                                                          *)
EndOfRawData(k) == U32(RawSize(k) + RawOffset(k))

CheckRawData ==
  /\ At("rawData")
  /\ i <= found.sectionCount
  /\ \E errno \in Outcomes(Entry(i) + 16, 8) :
       Require(errno, finalOffset >= EndOfRawData(i), "rawData")
  /\ i' = i + 1
  /\ UNCHANGED <<found, laterVars>>

(* validatePE returns true, and main calls getHdrData, without flags.      *)
Accept ==
  /\ At("rawData")
  /\ i > found.sectionCount
  /\ Goto("hdrData")
  /\ i' = 1
  /\ UNCHANGED <<found, laterVars, trouble>>

-----------------------------------------------------------------------------
(* getHdrData.  Positions are computed in 32 bits.                         *)
ReadPEHeaderOffset ==
  /\ At("hdrData")
  /\ \E errno \in Outcomes(LfaNew, 4) :
       /\ peData' = [peData EXCEPT !.peHeaderOffset = Got(errno, LfaNew)]
       /\ Proceed(errno, "numberOfSections")
  /\ UNCHANGED <<found, i, sections, sectionInfo>>

HdrPos(at) == U32(peData.peHeaderOffset + at)

ReadNumberOfSections ==
  /\ At("numberOfSections")
  /\ \E errno \in Outcomes(HdrPos(SectionCount), 2) :
       LET count == Got(errno, HdrPos(SectionCount))
       IN  /\ peData' = [peData EXCEPT !.numberOfSections = count,
                                       !.sectionTableSize = count * SizeofEntry]
           /\ Proceed(errno, "headerSize")
  /\ UNCHANGED <<found, i, sections, sectionInfo>>

(* One byte too many.                                                      *)
ReadHeaderSize ==
  /\ At("headerSize")
  /\ \E errno \in Outcomes(HdrPos(SizeOfOptHdr), 2) :
       /\ peData' = [peData EXCEPT !.headerSize =
            U32((peData.peHeaderOffset + 1) + SizeofCoff + Got(errno, HdrPos(SizeOfOptHdr)))]
       /\ Proceed(errno, "characteristics")
  /\ UNCHANGED <<found, i, sections, sectionInfo>>

ReadField(field, at, bytes, next) ==
  /\ At(field)
  /\ \E errno \in Outcomes(HdrPos(at), bytes) :
       /\ peData' = [peData EXCEPT ![field] = Got(errno, HdrPos(at))]
       /\ Proceed(errno, next)
  /\ UNCHANGED <<found, i, sections, sectionInfo>>

ReadCharacteristics == ReadField("characteristics", 22, 2, "entryPoint")
ReadEntryPoint      == ReadField("entryPoint", 40, 4, "baseAddr")
ReadBaseAddr        == ReadField("baseAddr", 52, 4, "pageSize")
ReadPageSize        == ReadField("pageSize", PageAlignment, 4, "exportCount")
ReadIdtRVA          == ReadField("idtRVA", 128, 4, "tlsAddr")
ReadTlsAddr         == ReadField("tlsAddr", Tls, 4, "tlsSize")

ReadExports ==
  /\ At("exportCount")
  /\ \E errno \in Outcomes(HdrPos(120), 4) :
       /\ peData' = [peData EXCEPT !.exportCount = IF Got(errno, HdrPos(120)) = 0 THEN 0 ELSE 1]
       /\ Proceed(errno, "idtRVA")
  /\ UNCHANGED <<found, i, sections, sectionInfo>>

(* Mutated form of ReadTlsSize: nobody looks at errno.                     *)
ReadTlsSizeUnchecked ==
  /\ At("tlsSize")
  /\ \E errno \in Outcomes(HdrPos(Tls) + 4, 4) :
       /\ peData' = [peData EXCEPT !.tlsSize = Got(errno, HdrPos(Tls) + 4)]
       /\ Note(errno)
       /\ IF peData.tlsAddr # 0 \/ peData'.tlsSize # 0
          THEN Return("unsupportedStructure")
          ELSE Goto("sections")
  /\ UNCHANGED <<found, i, sections, sectionInfo>>

(* TLS is not supported.                                                   *)
ReadTlsSize ==
  /\ At("tlsSize")
  /\ \E errno \in Outcomes(HdrPos(Tls) + 4, 4) :
       /\ peData' = [peData EXCEPT !.tlsSize = Got(errno, HdrPos(Tls) + 4)]
       /\ Note(errno)
       /\ IF errno # "none" THEN Return("fileRead")
          ELSE IF peData.tlsAddr # 0 \/ peData'.tlsSize # 0
          THEN Return("unsupportedStructure")
          ELSE Goto("sections")
  /\ UNCHANGED <<found, i, sections, sectionInfo>>

-----------------------------------------------------------------------------
(* getSectionInfo: offset and count again, and the array.                  *)
BeginSections ==
  /\ At("sections")
  /\ \/ \E errno \in Outcomes(LfaNew, 4) \cup Outcomes(HdrPos(SectionCount), 2) :
          Proceed(errno, "section")
     \/ Return("outOfMem") /\ UNCHANGED trouble
  /\ UNCHANGED <<found, i, laterVars>>

(* The first of the three that the section's flags ask for.                *)
Permission(flags) ==
  IF "EXECUTE" \in flags THEN "code"
  ELSE IF flags \cap {"WRITE", "DISCARDABLE"} # {} THEN "rwdata"
  ELSE IF "READ" \in flags THEN "rodata"
  ELSE "none"

(* "0xF8 == beginning of section table"                                    *)
FixedTable == HdrPos(248)

SectionAt(pos) ==
  [permFlag |-> Permission(FlagsAt(pos + 36)), virtualSize |-> Val(pos + 8),
   rva |-> Val(pos + 12), rawSize |-> Val(pos + 16), offset |-> Val(pos + 20)]

(* Mutated form of ReadSection: flags that ask for nothing go unnoticed.   *)
ReadSectionAnyFlags ==
  /\ At("section")
  /\ i <= peData.numberOfSections
  /\ \E errno \in Outcomes(FixedTable + (i - 1) * SizeofEntry + 8, 32) :
       /\ Note(errno)
       /\ IF errno # "none" THEN Return("fileRead") /\ UNCHANGED sections
          ELSE /\ sections' = Append(sections, SectionAt(FixedTable + (i - 1) * SizeofEntry))
               /\ Goto("section")
  /\ i' = i + 1
  /\ UNCHANGED <<found, peData, sectionInfo>>

ReadSection ==
  LET section == SectionAt(FixedTable + (i - 1) * SizeofEntry)
  IN  /\ At("section")
      /\ i <= peData.numberOfSections
      /\ \E errno \in Outcomes(FixedTable + (i - 1) * SizeofEntry + 8, 32) :
           /\ Note(errno)
           /\ \/ errno # "none" /\ Return("fileRead") /\ UNCHANGED sections
              \/ /\ errno = "none" /\ section.permFlag = "none"
                 /\ Return("missingSectionFlag") /\ UNCHANGED sections
              \/ /\ errno = "none" /\ section.permFlag # "none"
                 /\ sections' = Append(sections, section) /\ Goto("section")
      /\ i' = i + 1
      /\ UNCHANGED <<found, peData, sectionInfo>>

(* getHdrData returns; getImports comes between, and mapPEToBasefile       *)
(* allocates an array of its own.                                          *)
BeginMapping ==
  /\ At("section")
  /\ i > peData.numberOfSections
  /\ Goto("sectionInfo") \/ Return("outOfMem")
  /\ i' = 1
  /\ UNCHANGED <<found, laterVars, trouble>>

-----------------------------------------------------------------------------
(* mapPEToBasefile, up to the copy of the headers.  It has no use for the  *)
(* permission, which is here to make its records those of getSectionInfo.  *)
ReadSectionInfo ==
  LET pos == (peData.headerSize - 1) + (i - 1) * SizeofEntry
  IN  /\ At("sectionInfo")
      /\ i <= peData.numberOfSections
      /\ \E errno \in Outcomes(pos + 8, 16) :
           /\ sectionInfo' = IF errno = "none" THEN Append(sectionInfo, SectionAt(pos))
                                               ELSE sectionInfo
           /\ Proceed(errno, "sectionInfo")
      /\ i' = i + 1
      /\ UNCHANGED <<found, peData, sections>>

totalHeader == U32(peData.headerSize + peData.sectionTableSize)

(* From the start of the file, the headers, the table and one byte more.   *)
ReadHeaders ==
  /\ At("sectionInfo")
  /\ i > peData.numberOfSections
  /\ \/ \E errno \in Outcomes(0, totalHeader) :
          /\ Note(errno)
          /\ Return(IF errno = "none" THEN "success" ELSE "fileRead")
     \/ Return("outOfMem") /\ UNCHANGED trouble
  /\ UNCHANGED <<found, i, laterVars>>

Next ==
  \/ CheckSize \/ CheckMagic \/ CheckPointer \/ CheckSectionCount \/ CheckHeaders
  \/ CheckMachine \/ CheckSubsystem \/ CheckPageSize \/ CheckRawData \/ Accept
  \/ ReadPEHeaderOffset \/ ReadNumberOfSections \/ ReadHeaderSize \/ ReadCharacteristics
  \/ ReadEntryPoint \/ ReadBaseAddr \/ ReadPageSize \/ ReadExports \/ ReadIdtRVA
  \/ ReadTlsAddr \/ ReadTlsSize \/ BeginSections \/ ReadSection \/ BeginMapping
  \/ ReadSectionInfo \/ ReadHeaders
  \/ step = "returned" /\ UNCHANGED vars

Spec == Init /\ [][Next]_vars

-----------------------------------------------------------------------------
ValidationSteps == {"size", "magic", "pointer", "sectionCount", "headers", "machine",
                    "subsystem", "pageAlignment", "rawData"}
HdrSteps == {"hdrData", "numberOfSections", "headerSize", "characteristics", "entryPoint",
             "baseAddr", "pageSize", "exportCount", "idtRVA", "tlsAddr", "tlsSize",
             "sections", "section", "sectionInfo"}

SectionRecords == [permFlag : {"code", "rwdata", "rodata", "none"},
                   virtualSize : 0 .. Word - 1, rva : 0 .. Word - 1,
                   rawSize : 0 .. Word - 1, offset : 0 .. Word - 1]

Steps   == ValidationSteps \cup HdrSteps \cup {"returned"}
Results == {"none", "invalid", "fileRead", "outOfMem", "unsupportedStructure",
            "missingSectionFlag", "success"}

EndType == step \in Steps /\ ret \in Results /\ trouble \in {"none", "eof", "io"}

InputType == pe \in PEs /\ skipMachineCheck \in BOOLEAN

FoundType ==
  found \in [{"peHeaderOffset", "sectionCount", "sizeOfOptHdr"} -> 0 .. Word - 1]

HdrFields == DOMAIN Blank

HdrType(d) == DOMAIN d = HdrFields /\ \A f \in HdrFields : d[f] \in Nat

TablesType ==
  /\ sections \in Seq(SectionRecords) /\ sectionInfo \in Seq(SectionRecords)
  /\ \A s \in DOMAIN sections : sections[s].permFlag # "none"

(***************************************************************************)
(* Types of the readers' state; no section without a permission.           *)
(***************************************************************************)
PEHeaderTypeOK ==
  EndType /\ InputType /\ FoundType /\ i \in Nat \ {0} /\ HdrType(peData) /\ TablesType

Accepted == step \notin ValidationSteps /\ ret # "invalid"

(***************************************************************************)
(* A read that fails gives 0, and 0 means something in most of the fields: *)
(* no TLS, no exports, no imports.  No such 0 is ever taken for the file's.*)
(***************************************************************************)
NoFailureTakenForData == trouble # "none" => ret \in {"invalid", "fileRead"}

(***************************************************************************)
(* What validatePE accepts is long enough for all the reads that follow,   *)
(* with the optional header it expects and anything behind the section     *)
(* table: the headers are read with one byte too many.                     *)
(***************************************************************************)
Standard == found.sizeOfOptHdr = StandardOptHdr

AcceptedCanBeRead ==
  Accepted /\ Standard /\ EndOfTable(StandardOptHdr) < pe.len => trouble # "eof"

(***************************************************************************)
(* The section table is read three times, at positions computed in three   *)
(* ways.  With the optional header the fixed position implies, the table   *)
(* whose addresses are translated and the one that is copied by are the    *)
(* one validatePE has looked at, and their raw data lies in the file       *)
(* wherever the sum of its size and position does not wrap.                *)
(***************************************************************************)
OneSectionTable ==
  ret = "success" /\ Standard =>
    /\ sections = sectionInfo
    /\ Len(sections) = found.sectionCount
    /\ \A s \in DOMAIN sections :
         /\ sections[s] = SectionAt(Entry(s))
         /\ \/ sections[s].rawSize + sections[s].offset <= pe.len
            \/ sections[s].rawSize + sections[s].offset >= Word

(***************************************************************************)
(* In a table as linkers write it, in order of addresses and of positions, *)
(* without gaps in the file's order and without sections that have no raw  *)
(* data, rvaToOffset takes the address of every byte of raw data to where  *)
(* it is in the file, and offsetToRVA takes it back.                       *)
(***************************************************************************)
EndOf(s) == IF s.virtualSize > s.rawSize THEN s.rva + s.virtualSize ELSE s.rva + s.rawSize

LinkedTable ==
  /\ \A s \in DOMAIN sections :
       /\ sections[s].rawSize > 0 /\ sections[s].offset > 0
       /\ EndOf(sections[s]) < Word
       /\ sections[s].offset + sections[s].rawSize < Word
  /\ \A s, t \in DOMAIN sections :
       s < t => /\ EndOf(sections[s]) <= sections[t].rva
                /\ sections[s].offset + sections[s].rawSize <= sections[t].offset

TranslationsInverse ==
  ret = "success" /\ LinkedTable =>
    \A s \in DOMAIN sections : \A o \in 0 .. sections[s].rawSize - 1 :
      LET rva == sections[s].rva + o
          pos == sections[s].offset + o
      IN  /\ o < sections[s].virtualSize => rvaToOffset(rva, sections) = pos
          /\ offsetToRVA(pos, sections) = rva

(***************************************************************************)
(* gethdrdata.c:98: "If raw size + raw offset exceeds file size, PE is     *)
(* invalid".                                                               *)
(***************************************************************************)
RawDataInFile ==
  Accepted => \A k \in 1 .. found.sectionCount : RawSize(k) + RawOffset(k) <= pe.len
=============================================================================
