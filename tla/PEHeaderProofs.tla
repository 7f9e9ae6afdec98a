--------------------------- MODULE PEHeaderProofs ---------------------------
(***************************************************************************)
(* What the readers of the PE's headers guarantee one another, for every   *)
(* file: the invariants of PEHeader, and the two address translations as   *)
(* inverses of each other.                                                 *)
(***************************************************************************)
EXTENDS PEHeader, DataStorageProofs, SequenceTheorems

-----------------------------------------------------------------------------
(* Values.                                                                 *)

(* Every field of the file is a 32-bit number, and so is what a read gives.*)
LEMMA ValType ==
  ASSUME pe \in PEs, NEW pos, NEW errno
  PROVE  Val(pos) \in 0 .. Word - 1 /\ Got(errno, pos) \in 0 .. Word - 1
<1>1. 0 \in 0 .. Word - 1
  BY WordAssumption
<1>2. CASE pos \in DOMAIN pe.word
  BY <1>1, <1>2, PEHeaderAssumption DEF Val, Got
<1>3. CASE pos \notin DOMAIN pe.word
  BY <1>1, <1>3 DEF Val, Got
<1> QED
  BY <1>2, <1>3

LEMMA RawDataType ==
  ASSUME pe \in PEs, NEW k
  PROVE  /\ RawSize(k) \in 0 .. Word - 1 /\ RawOffset(k) \in 0 .. Word - 1
         /\ EndOfRawData(k) \in 0 .. Word - 1
<1>1. RawSize(k) \in 0 .. Word - 1 /\ RawOffset(k) \in 0 .. Word - 1
  BY ValType DEF RawSize, RawOffset
<1>2. RawSize(k) + RawOffset(k) \in Int
  BY <1>1, WordAssumption
<1> QED
  BY <1>1, <1>2, U32Range DEF EndOfRawData

(* An entry of the section table, wherever it is read.                     *)
LEMMA SectionType ==
  ASSUME pe \in PEs, NEW pos
  PROVE  SectionAt(pos) \in SectionRecords
<1>1. Permission(FlagsAt(pos + 36)) \in {"code", "rwdata", "rodata", "none"}
  BY DEF Permission
<1> QED
  BY <1>1, ValType DEF SectionAt, SectionRecords

-----------------------------------------------------------------------------
(* Types.                                                                  *)

LEMMA FieldNames ==
  /\ HdrFields = {"peHeaderOffset", "numberOfSections", "sectionTableSize", "headerSize",
                  "characteristics", "entryPoint", "baseAddr", "pageSize", "exportCount",
                  "idtRVA", "tlsAddr", "tlsSize"}
  /\ HdrType(Blank)
BY DEF HdrFields, HdrType, Blank

LEMMA SetOneField ==
  ASSUME NEW d, HdrType(d), NEW f \in HdrFields, NEW v \in Nat
  PROVE  HdrType([d EXCEPT ![f] = v])
BY DEF HdrType

(* The end of a step: where it goes, what it returns and what it notes.    *)
LEMMA EndTypes ==
  ASSUME EndType, NEW errno \in {"none", "eof", "io"}, NEW good \in BOOLEAN, NEW s \in Steps,
         \/ Require(errno, good, s) \/ Proceed(errno, s)
         \/ UNCHANGED trouble /\ Goto(s)
         \/ UNCHANGED trouble /\ \E r \in Results : Return(r)
         \/ Note(errno) /\ Goto(s)
         \/ Note(errno) /\ \E r \in Results : Return(r)
  PROVE  EndType'
<1>1. "invalid" \in Results /\ "fileRead" \in Results /\ "returned" \in Steps
  BY DEF Results, Steps
<1> QED
  BY <1>1 DEF EndType, Require, Proceed, Note, Goto, Return

LEMMA OutcomeTypes ==
  ASSUME NEW pos, NEW bytes, NEW errno \in Outcomes(pos, bytes)
  PROVE  errno \in {"none", "eof", "io"}
BY DEF Outcomes

(* A step of getHdrData that sets one field.                               *)
LEMMA FieldStepType ==
  ASSUME PEHeaderTypeOK, NEW field \in HdrFields, NEW at, NEW bytes,
         NEW next \in HdrSteps, ReadField(field, at, bytes, next)
  PROVE  PEHeaderTypeOK'
<1>1. PICK errno \in Outcomes(HdrPos(at), bytes) :
        /\ peData' = [peData EXCEPT ![field] = Got(errno, HdrPos(at))]
        /\ Proceed(errno, next)
  BY DEF ReadField
<1>2. EndType'
  BY <1>1, OutcomeTypes, EndTypes DEF PEHeaderTypeOK, Steps
<1>3. HdrType(peData)'
  <2>1. Got(errno, HdrPos(at)) \in Nat
    BY ValType, WordAssumption DEF PEHeaderTypeOK, InputType
  <2>2. HdrType([peData EXCEPT ![field] = Got(errno, HdrPos(at))])
    BY <2>1, SetOneField DEF PEHeaderTypeOK
  <2> QED
    BY <1>1, <2>2
<1> QED
  BY <1>2, <1>3 DEF PEHeaderTypeOK, ReadField, At, InputType, FoundType, TablesType

(* A step of validatePE that looks at one field.                           *)
LEMMA CheckStepType ==
  ASSUME PEHeaderTypeOK, NEW here, NEW at, NEW bytes, NEW allowed,
         NEW next \in ValidationSteps, CheckField(here, at, bytes, allowed, next)
  PROVE  PEHeaderTypeOK'
<1> DEFINE pos == found.peHeaderOffset + at
<1>1. PICK errno \in Outcomes(pos, bytes) : Require(errno, Got(errno, pos) \in allowed, next)
  BY DEF CheckField
<1>2. EndType'
  <2>1. (Got(errno, pos) \in allowed) \in BOOLEAN
    OBVIOUS
  <2> QED
    BY <1>1, <2>1, OutcomeTypes, EndTypes DEF PEHeaderTypeOK, Steps
<1> QED
  BY <1>2 DEF PEHeaderTypeOK, CheckField, laterVars, At, InputType, FoundType, TablesType

LEMMA InitType == Init => PEHeaderTypeOK
<1> SUFFICES ASSUME Init PROVE PEHeaderTypeOK
  OBVIOUS
<1>1. EndType /\ InputType /\ i \in Nat \ {0}
  BY DEF Init, EndType, InputType, Steps, Results, ValidationSteps
<1>2. FoundType
  BY WordAssumption DEF Init, FoundType
<1>3. HdrType(peData)
  BY FieldNames DEF Init
<1>4. TablesType
  BY EmptySeq DEF Init, TablesType
<1> QED
  BY <1>1, <1>2, <1>3, <1>4 DEF PEHeaderTypeOK

LEMMA NextType ==
  ASSUME PEHeaderTypeOK, [Next]_vars
  PROVE  PEHeaderTypeOK'
<1> USE DEF PEHeaderTypeOK
<1>0. /\ "returned" \in Steps /\ {"invalid", "outOfMem", "success"} \subseteq Results
      /\ ValidationSteps \subseteq Steps /\ HdrSteps \subseteq Steps
      /\ trouble \in {"none", "eof", "io"}
      /\ HdrSteps = {"hdrData", "numberOfSections", "headerSize", "characteristics",
                     "entryPoint", "baseAddr", "pageSize", "exportCount", "idtRVA", "tlsAddr",
                     "tlsSize", "sections", "section", "sectionInfo"}
      /\ ValidationSteps = {"size", "magic", "pointer", "sectionCount", "headers", "machine",
                            "subsystem", "pageAlignment", "rawData"}
  BY DEF EndType, Steps, Results, ValidationSteps, HdrSteps
<1>1. CASE CheckSize
  <2>1. EndType'
    BY <1>0, <1>1, EndTypes DEF CheckSize
  <2> QED
    BY <1>1, <2>1 DEF CheckSize, laterVars, At, InputType, FoundType, TablesType
<1>2. CASE CheckMagic
  <2>1. EndType'
    <3>1. PICK errno \in Outcomes(0, 2) : Require(errno, Got(errno, 0) = 23117, "pointer")
      BY <1>2 DEF CheckMagic
    <3>2. errno \in {"none", "eof", "io"}
      BY OutcomeTypes
    <3> QED
      BY <1>0, <3>1, <3>2 DEF EndType, Require, Note, Goto, Return
  <2> QED
    BY <1>2, <2>1 DEF CheckMagic, laterVars, At, InputType, FoundType, TablesType
<1>3. CASE CheckPointer
  <2>1. PICK errno \in Outcomes(LfaNew, 4) :
          /\ found' = [found EXCEPT !.peHeaderOffset = Got(errno, LfaNew)]
          /\ Require(errno, finalOffset >= Got(errno, LfaNew), "sectionCount")
    BY <1>3 DEF CheckPointer
  <2>2. EndType'
    <3>1. (finalOffset >= Got(errno, LfaNew)) \in BOOLEAN
      OBVIOUS
    <3> QED
      BY <1>0, <2>1, <3>1, OutcomeTypes, EndTypes
  <2>3. FoundType'
    BY <2>1, ValType DEF FoundType, InputType
  <2> QED
    BY <1>3, <2>2, <2>3 DEF CheckPointer, laterVars, At, InputType, TablesType
<1>4. CASE CheckSectionCount
  <2> DEFINE pos == found.peHeaderOffset + SectionCount
  <2>1. PICK errno \in Outcomes(pos, 2) :
          /\ found' = [found EXCEPT !.sectionCount = Got(errno, pos)]
          /\ Require(errno, Got(errno, pos) # 0, "headers")
    BY <1>4 DEF CheckSectionCount
  <2>2. EndType'
    <3>1. (Got(errno, pos) # 0) \in BOOLEAN
      OBVIOUS
    <3> QED
      BY <1>0, <2>1, <3>1, OutcomeTypes, EndTypes
  <2>3. FoundType'
    BY <2>1, ValType DEF FoundType, InputType
  <2> QED
    BY <1>4, <2>2, <2>3 DEF CheckSectionCount, laterVars, At, InputType, TablesType
<1>5. CASE CheckHeaders
  <2> DEFINE pos == found.peHeaderOffset + SizeOfOptHdr
  <2>1. PICK errno \in Outcomes(pos, 2) :
          /\ found' = [found EXCEPT !.sizeOfOptHdr = Got(errno, pos)]
          /\ Require(errno, finalOffset >= EndOfTable(Got(errno, pos)), "machine")
    BY <1>5 DEF CheckHeaders
  <2>2. EndType'
    <3>1. (finalOffset >= EndOfTable(Got(errno, pos))) \in BOOLEAN
      OBVIOUS
    <3> QED
      BY <1>0, <2>1, <3>1, OutcomeTypes, EndTypes
  <2>3. FoundType'
    BY <2>1, ValType DEF FoundType, InputType
  <2> QED
    BY <1>5, <2>2, <2>3 DEF CheckHeaders, laterVars, At, InputType, TablesType
<1>6. CASE CheckMachine \/ CheckSubsystem \/ CheckPageSize
  BY <1>0, <1>6, CheckStepType DEF CheckMachine, CheckSubsystem, CheckPageSize
<1>7. CASE CheckRawData
  <2>1. EndType'
    <3>1. PICK errno \in Outcomes(Entry(i) + 16, 8) :
            Require(errno, finalOffset >= EndOfRawData(i), "rawData")
      BY <1>7 DEF CheckRawData
    <3>2. (finalOffset >= EndOfRawData(i)) \in BOOLEAN
      OBVIOUS
    <3> QED
      BY <1>0, <3>1, <3>2, OutcomeTypes, EndTypes
  <2> QED
    BY <1>7, <2>1 DEF CheckRawData, laterVars, At, InputType, FoundType, TablesType
<1>8. CASE Accept
  <2>1. EndType'
    BY <1>0, <1>8, EndTypes DEF Accept
  <2> QED
    BY <1>8, <2>1 DEF Accept, laterVars, At, InputType, FoundType, TablesType
<1>9. CASE ReadPEHeaderOffset
  <2>1. PICK errno \in Outcomes(LfaNew, 4) :
          /\ peData' = [peData EXCEPT !.peHeaderOffset = Got(errno, LfaNew)]
          /\ Proceed(errno, "numberOfSections")
    BY <1>9 DEF ReadPEHeaderOffset
  <2>2. EndType'
    BY <1>0, <2>1, OutcomeTypes, EndTypes
  <2>3. HdrType(peData')
    BY <2>1, ValType, SetOneField, FieldNames, WordAssumption DEF InputType
  <2> QED
    BY <1>9, <2>2, <2>3 DEF ReadPEHeaderOffset, At, InputType, FoundType, TablesType
<1>10. CASE ReadNumberOfSections
  <2>1. PICK errno \in Outcomes(HdrPos(SectionCount), 2) :
          /\ peData' = [peData EXCEPT
               !.numberOfSections = Got(errno, HdrPos(SectionCount)),
               !.sectionTableSize = Got(errno, HdrPos(SectionCount)) * SizeofEntry]
          /\ Proceed(errno, "headerSize")
    BY <1>10 DEF ReadNumberOfSections
  <2>2. EndType'
    BY <1>0, <2>1, OutcomeTypes, EndTypes
  <2>3. HdrType(peData')
    <3> DEFINE count == Got(errno, HdrPos(SectionCount))
    <3>1. count \in Nat
      BY ValType, WordAssumption DEF InputType
    <3>2. count * SizeofEntry \in Nat
      BY <3>1 DEF SizeofEntry
    <3>3. peData' = [[peData EXCEPT !.numberOfSections = count]
                        EXCEPT !.sectionTableSize = count * SizeofEntry]
      BY <2>1
    <3> HIDE DEF count
    <3>4. HdrType([peData EXCEPT !.numberOfSections = count])
      BY <3>1, SetOneField, FieldNames
    <3> QED
      BY <3>2, <3>3, <3>4, SetOneField, FieldNames
  <2> QED
    BY <1>10, <2>2, <2>3 DEF ReadNumberOfSections, At, InputType, FoundType, TablesType
<1>11. CASE ReadHeaderSize
  <2> DEFINE size(errno) ==
        U32((peData.peHeaderOffset + 1) + SizeofCoff + Got(errno, HdrPos(SizeOfOptHdr)))
  <2>1. PICK errno \in Outcomes(HdrPos(SizeOfOptHdr), 2) :
          /\ peData' = [peData EXCEPT !.headerSize = size(errno)]
          /\ Proceed(errno, "characteristics")
    BY <1>11 DEF ReadHeaderSize
  <2>2. EndType'
    BY <1>0, <2>1, OutcomeTypes, EndTypes
  <2>3. HdrType(peData')
    <3>1. /\ peData.peHeaderOffset \in Nat
          /\ Got(errno, HdrPos(SizeOfOptHdr)) \in Nat
      BY ValType, FieldNames, WordAssumption DEF InputType, HdrType
    <3>2. size(errno) \in Nat
      BY <3>1, U32Range, WordAssumption DEF SizeofCoff
    <3> QED
      BY <2>1, <3>2, SetOneField, FieldNames
  <2> QED
    BY <1>11, <2>2, <2>3 DEF ReadHeaderSize, At, InputType, FoundType, TablesType
<1>12. CASE \/ ReadCharacteristics \/ ReadEntryPoint \/ ReadBaseAddr \/ ReadPageSize
            \/ ReadIdtRVA \/ ReadTlsAddr
  BY <1>0, <1>12, FieldStepType, FieldNames
     DEF ReadCharacteristics, ReadEntryPoint, ReadBaseAddr, ReadPageSize, ReadIdtRVA,
         ReadTlsAddr
<1>13. CASE ReadExports
  <2>1. PICK errno \in Outcomes(HdrPos(120), 4) :
          /\ peData' = [peData EXCEPT !.exportCount =
                          IF Got(errno, HdrPos(120)) = 0 THEN 0 ELSE 1]
          /\ Proceed(errno, "idtRVA")
    BY <1>13 DEF ReadExports
  <2>2. EndType'
    BY <1>0, <2>1, OutcomeTypes, EndTypes
  <2>3. HdrType(peData')
    BY <2>1, SetOneField, FieldNames
  <2> QED
    BY <1>13, <2>2, <2>3 DEF ReadExports, At, InputType, FoundType, TablesType
<1>14. CASE ReadTlsSize
  <2>1. PICK errno \in Outcomes(HdrPos(Tls) + 4, 4) :
          /\ peData' = [peData EXCEPT !.tlsSize = Got(errno, HdrPos(Tls) + 4)]
          /\ Note(errno)
          /\ \/ \E r \in {"fileRead", "unsupportedStructure"} : Return(r)
             \/ Goto("sections")
    BY <1>14 DEF ReadTlsSize
  <2>2. EndType'
    BY <1>0, <2>1, OutcomeTypes, EndTypes DEF Results
  <2>3. HdrType(peData')
    BY <2>1, ValType, SetOneField, FieldNames, WordAssumption DEF InputType
  <2> QED
    BY <1>14, <2>2, <2>3 DEF ReadTlsSize, At, InputType, FoundType, TablesType
<1>15. CASE BeginSections
  <2>1. EndType'
    BY <1>0, <1>15, OutcomeTypes, EndTypes DEF BeginSections
  <2> QED
    BY <1>15, <2>1 DEF BeginSections, laterVars, At, InputType, FoundType, TablesType
<1>16. CASE ReadSection
  <2> DEFINE section == SectionAt(FixedTable + (i - 1) * SizeofEntry)
  <2>1. PICK errno \in Outcomes(FixedTable + (i - 1) * SizeofEntry + 8, 32) :
          /\ Note(errno)
          /\ \/ /\ \E r \in {"fileRead", "missingSectionFlag"} : Return(r)
                /\ UNCHANGED sections
             \/ /\ section.permFlag # "none"
                /\ sections' = Append(sections, section) /\ Goto("section")
    BY <1>16 DEF ReadSection
  <2>2. EndType'
    BY <1>0, <2>1, OutcomeTypes, EndTypes DEF Results
  <2>3. TablesType'
    <3>1. section \in SectionRecords
      BY SectionType DEF InputType
    <3> HIDE DEF section
    <3>2. CASE UNCHANGED sections
      BY <1>16, <3>2 DEF ReadSection, TablesType
    <3>3. CASE section.permFlag # "none" /\ sections' = Append(sections, section)
      BY <1>16, <3>1, <3>3 DEF ReadSection, TablesType
    <3> QED
      BY <2>1, <3>2, <3>3
  <2> QED
    BY <1>16, <2>2, <2>3 DEF ReadSection, At, InputType, FoundType
<1>17. CASE BeginMapping
  <2>1. EndType'
    BY <1>0, <1>17, EndTypes DEF BeginMapping
  <2> QED
    BY <1>17, <2>1 DEF BeginMapping, laterVars, At, InputType, FoundType, TablesType
<1>18. CASE ReadSectionInfo
  <2> DEFINE section == SectionAt((peData.headerSize - 1) + (i - 1) * SizeofEntry)
  <2>1. PICK errno \in Outcomes((peData.headerSize - 1) + (i - 1) * SizeofEntry + 8, 16) :
          /\ sectionInfo' = IF errno = "none" THEN Append(sectionInfo, section)
                                              ELSE sectionInfo
          /\ Proceed(errno, "sectionInfo")
    BY <1>18 DEF ReadSectionInfo
  <2>2. EndType'
    BY <1>0, <2>1, OutcomeTypes, EndTypes
  <2>3. TablesType'
    <3>1. section \in SectionRecords
      BY SectionType DEF InputType
    <3> HIDE DEF section
    <3> QED
      BY <1>18, <2>1, <3>1 DEF ReadSectionInfo, TablesType
  <2> QED
    BY <1>18, <2>2, <2>3 DEF ReadSectionInfo, At, InputType, FoundType
<1>19. CASE ReadHeaders
  <2>1. EndType'
    <3>1. \/ \E errno \in Outcomes(0, totalHeader) :
               Note(errno) /\ \E r \in {"success", "fileRead"} : Return(r)
          \/ Return("outOfMem") /\ UNCHANGED trouble
      BY <1>19 DEF ReadHeaders
    <3> QED
      BY <1>0, <3>1, OutcomeTypes, EndTypes DEF Results
  <2> QED
    BY <1>19, <2>1 DEF ReadHeaders, laterVars, At, InputType, FoundType, TablesType
<1>20. CASE UNCHANGED vars
  BY <1>20 DEF vars, EndType, InputType, FoundType, TablesType
<1> QED
  BY <1>1, <1>2, <1>3, <1>4, <1>5, <1>6, <1>7, <1>8, <1>9, <1>10, <1>11, <1>12, <1>13,
     <1>14, <1>15, <1>16, <1>17, <1>18, <1>19, <1>20 DEF Next

(***************************************************************************)
(* The readers keep their types, and no section without a permission gets  *)
(* into the table (getSectionInfo's ERR_MISSING_SECTION_FLAG).             *)
(***************************************************************************)
THEOREM HeaderTypeCorrect == Spec => []PEHeaderTypeOK
BY InitType, NextType, PTL DEF Spec

-----------------------------------------------------------------------------
(***************************************************************************)
(* Failures.  The invariant says where a step that has noted one must have *)
(* gone, and that nothing is returned before.                              *)
(***************************************************************************)
Quiet ==
  /\ trouble # "none" => step = "returned" /\ ret \in {"invalid", "fileRead"}
  /\ step # "returned" => ret = "none"

ValidationNext ==
  \/ CheckSize \/ CheckMagic \/ CheckPointer \/ CheckSectionCount \/ CheckHeaders
  \/ CheckMachine \/ CheckSubsystem \/ CheckPageSize \/ CheckRawData

HdrNext ==
  \/ ReadPEHeaderOffset \/ ReadNumberOfSections \/ ReadHeaderSize \/ ReadCharacteristics
  \/ ReadEntryPoint \/ ReadBaseAddr \/ ReadPageSize \/ ReadExports \/ ReadIdtRVA
  \/ ReadTlsAddr \/ ReadTlsSize \/ BeginSections \/ ReadSection \/ BeginMapping
  \/ ReadSectionInfo \/ ReadHeaders

LEMMA NextSplit ==
  [Next]_vars <=> ValidationNext \/ Accept \/ HdrNext \/ UNCHANGED vars
                  \/ (step = "returned" /\ UNCHANGED vars)
BY DEF Next, ValidationNext, HdrNext

(* validatePE goes on to the next check, or is through with the file.      *)
LEMMA ValidationFrame ==
  ASSUME ValidationNext
  PROVE  /\ step \in ValidationSteps
         /\ UNCHANGED <<pe, skipMachineCheck, peData, sections, sectionInfo>>
         /\ \/ step' \in ValidationSteps /\ UNCHANGED <<trouble, ret>>
            \/ step' = "returned" /\ ret' = "invalid"
<1> USE DEF At, Goto, Return, Note, laterVars, ValidationSteps
<1>1. CASE CheckSize
  BY <1>1 DEF CheckSize
<1>2. CASE CheckMagic
  BY <1>2 DEF CheckMagic, Require
<1>3. CASE CheckPointer
  BY <1>3 DEF CheckPointer, Require
<1>4. CASE CheckSectionCount
  BY <1>4 DEF CheckSectionCount, Require
<1>5. CASE CheckHeaders
  BY <1>5 DEF CheckHeaders, Require
<1>6. CASE CheckMachine
  BY <1>6 DEF CheckMachine, CheckField, Require
<1>7. CASE CheckSubsystem
  BY <1>7 DEF CheckSubsystem, CheckField, Require
<1>8. CASE CheckPageSize
  BY <1>8 DEF CheckPageSize, CheckField, Require
<1>9. CASE CheckRawData
  BY <1>9 DEF CheckRawData, Require
<1> QED
  BY <1>1, <1>2, <1>3, <1>4, <1>5, <1>6, <1>7, <1>8, <1>9 DEF ValidationNext

(* The readers that follow leave what validatePE has found alone, and give *)
(* up with an error of their own, a failed read with that of failed reads. *)
LEMMA HdrFrame ==
  ASSUME HdrNext
  PROVE  /\ step \in HdrSteps
         /\ UNCHANGED <<pe, skipMachineCheck, found>>
         /\ \/ step' \in HdrSteps /\ UNCHANGED <<trouble, ret>>
            \/ step' = "returned" /\ ret' = "fileRead"
            \/ step' = "returned" /\ ret' \notin {"none", "invalid"} /\ UNCHANGED trouble
<1> USE DEF At, Goto, Return, Note, laterVars, HdrSteps
<1>1. CASE ReadPEHeaderOffset
  BY <1>1 DEF ReadPEHeaderOffset, Proceed
<1>2. CASE ReadNumberOfSections
  BY <1>2 DEF ReadNumberOfSections, Proceed
<1>3. CASE ReadHeaderSize
  BY <1>3 DEF ReadHeaderSize, Proceed
<1>4. CASE ReadCharacteristics
  BY <1>4 DEF ReadCharacteristics, ReadField, Proceed
<1>5. CASE ReadEntryPoint
  BY <1>5 DEF ReadEntryPoint, ReadField, Proceed
<1>6. CASE ReadBaseAddr
  BY <1>6 DEF ReadBaseAddr, ReadField, Proceed
<1>7. CASE ReadPageSize
  BY <1>7 DEF ReadPageSize, ReadField, Proceed
<1>8. CASE ReadExports
  BY <1>8 DEF ReadExports, Proceed
<1>9. CASE ReadIdtRVA
  BY <1>9 DEF ReadIdtRVA, ReadField, Proceed
<1>10. CASE ReadTlsAddr
  BY <1>10 DEF ReadTlsAddr, ReadField, Proceed
<1>11. CASE ReadTlsSize
  BY <1>11 DEF ReadTlsSize
<1>12. CASE BeginSections
  BY <1>12 DEF BeginSections, Proceed
<1>13. CASE ReadSection
  BY <1>13 DEF ReadSection
<1>14. CASE BeginMapping
  BY <1>14 DEF BeginMapping
<1>15. CASE ReadSectionInfo
  BY <1>15 DEF ReadSectionInfo, Proceed
<1>16. CASE ReadHeaders
  BY <1>16 DEF ReadHeaders
<1> QED
  BY <1>1, <1>2, <1>3, <1>4, <1>5, <1>6, <1>7, <1>8, <1>9, <1>10, <1>11, <1>12, <1>13,
     <1>14, <1>15, <1>16 DEF HdrNext

LEMMA AcceptFrame ==
  ASSUME Accept
  PROVE  /\ step = "rawData" /\ step' = "hdrData" /\ i' = 1
         /\ UNCHANGED <<pe, skipMachineCheck, found, laterVars, trouble, ret>>
BY DEF Accept, At, Goto

LEMMA StepNames ==
  /\ "returned" \notin ValidationSteps \cup HdrSteps
  /\ ValidationSteps \cap HdrSteps = {}
  /\ "rawData" \in ValidationSteps /\ "hdrData" \in HdrSteps
BY DEF ValidationSteps, HdrSteps

LEMMA NextQuiet ==
  ASSUME Quiet, [Next]_vars
  PROVE  Quiet'
<1>1. CASE ValidationNext
  BY <1>1, ValidationFrame, StepNames DEF Quiet
<1>2. CASE Accept
  BY <1>2, AcceptFrame DEF Quiet
<1>3. CASE HdrNext
  BY <1>3, HdrFrame, StepNames DEF Quiet
<1>4. CASE UNCHANGED vars
  BY <1>4 DEF Quiet, vars
<1> QED
  BY <1>1, <1>2, <1>3, <1>4, NextSplit

LEMMA InitQuiet == Init => Quiet
BY DEF Init, Quiet

(***************************************************************************)
(* A read that fails is never taken for the 0 it gives: get16BitFromPE's   *)
(* errno is looked at after every one.                                     *)
(***************************************************************************)
THEOREM FailuresNoticed == Spec => []NoFailureTakenForData
<1>1. Spec => []Quiet
  BY InitQuiet, NextQuiet, PTL DEF Spec
<1>2. Quiet => NoFailureTakenForData
  BY DEF Quiet, NoFailureTakenForData
<1> QED
  BY <1>1, <1>2, PTL

-----------------------------------------------------------------------------
(***************************************************************************)
(* What validatePE knows of the file when it accepts it, check by check.   *)
(***************************************************************************)
Beyond(checks) == step \in checks \/ Accepted

PointerKept == found.peHeaderOffset = Val(LfaNew)

CountKept == found.sectionCount = Val(found.peHeaderOffset + SectionCount)
             /\ found.sectionCount # 0

TableInFile == found.sizeOfOptHdr = Val(found.peHeaderOffset + SizeOfOptHdr)
               /\ EndOfTable(found.sizeOfOptHdr) <= pe.len

DataInFile(k) == EndOfRawData(k) <= pe.len

Checked ==
  /\ Beyond({"sectionCount", "headers", "machine", "subsystem", "pageAlignment", "rawData"})
       => PointerKept
  /\ Beyond({"headers", "machine", "subsystem", "pageAlignment", "rawData"}) => CountKept
  /\ Beyond({"machine", "subsystem", "pageAlignment", "rawData"}) => TableInFile
  /\ step \in ValidationSteps \ {"rawData"} => i = 1
  /\ step = "rawData" => \A k \in 1 .. found.sectionCount : k < i => DataInFile(k)
  /\ Accepted => \A k \in 1 .. found.sectionCount : DataInFile(k)

LEMMA InitChecked == Init => Checked
BY DEF Init, Checked, Beyond, Accepted, ValidationSteps

(* Once the file is accepted nothing of this changes.                      *)
LEMMA CheckedStays ==
  ASSUME Checked, Accepted \/ ~Accepted', step' \notin ValidationSteps,
         UNCHANGED <<pe, found>>
  PROVE  Checked'
<1>1. /\ PointerKept' <=> PointerKept
      /\ CountKept' <=> CountKept
      /\ TableInFile' <=> TableInFile
      /\ (\A k \in 1 .. found.sectionCount : DataInFile(k))'
           <=> \A k \in 1 .. found.sectionCount : DataInFile(k)
  BY DEF PointerKept, CountKept, TableInFile, EndOfTable, DataInFile, EndOfRawData, RawSize,
         RawOffset, Entry, Val
<1>2. /\ ~(step' \in {"sectionCount", "headers", "machine", "subsystem", "pageAlignment",
                      "rawData"})
      /\ step' # "rawData"
  BY DEF ValidationSteps
<1>3. CASE ~Accepted'
  BY <1>2, <1>3 DEF Checked, Beyond
<1>4. CASE Accepted
  BY <1>1, <1>2, <1>4 DEF Checked, Beyond
<1> QED
  BY <1>3, <1>4

LEMMA NextChecked ==
  ASSUME PEHeaderTypeOK, Quiet, Checked, [Next]_vars
  PROVE  Checked'
<1> USE DEF Beyond
<1>0. /\ step \in ValidationSteps => ~Accepted
      /\ ValidationSteps = {"size", "magic", "pointer", "sectionCount", "headers", "machine",
                            "subsystem", "pageAlignment", "rawData"}
      /\ i \in Nat /\ pe \in PEs /\ pe.len \in Nat /\ FoundType
  BY PEHeaderAssumption, WordAssumption
     DEF Accepted, ValidationSteps, PEHeaderTypeOK, InputType
<1>1. CASE ValidationNext /\ step' = "returned"
  <2>1. ~Accepted'
    BY <1>1, ValidationFrame, StepNames DEF Accepted
  <2> QED
    BY <1>0, <1>1, <2>1 DEF Checked
<1>2. CASE ValidationNext /\ step' # "returned"
  <2>1. /\ step' \in ValidationSteps /\ ~Accepted' /\ pe' = pe
        /\ UNCHANGED <<trouble, ret>>
    BY <1>2, ValidationFrame, StepNames DEF Accepted
  <2>2. trouble = "none" /\ ret = "none" /\ step # "returned"
    BY <1>2, ValidationFrame, StepNames DEF Quiet
  <2>3. CASE CheckSize
    BY <1>0, <2>1, <2>3 DEF CheckSize, At, Goto, Return, Checked
  <2>4. CASE CheckMagic
    BY <1>0, <2>1, <2>4 DEF CheckMagic, At, Require, Goto, Return, Checked
  <2>5. CASE CheckPointer
    <3>1. PointerKept' /\ step = "pointer" /\ step' = "sectionCount" /\ i' = i
      BY <1>0, <2>1, <2>2, <2>5
         DEF CheckPointer, At, Require, Goto, Return, Note, Got, PointerKept, Val, FoundType
    <3> QED
      BY <1>0, <2>1, <3>1 DEF Checked
  <2>6. CASE CheckSectionCount
    <3>1. /\ found' = [found EXCEPT !.sectionCount = Val(found.peHeaderOffset + SectionCount)]
          /\ Val(found.peHeaderOffset + SectionCount) # 0
          /\ step = "sectionCount" /\ step' = "headers" /\ i' = i
      BY <2>1, <2>2, <2>6 DEF CheckSectionCount, At, Require, Goto, Return, Note, Got
    <3>2. CountKept' /\ (PointerKept' <=> PointerKept)
      BY <1>0, <2>1, <3>1 DEF CountKept, PointerKept, Val, FoundType
    <3> QED
      BY <1>0, <2>1, <3>1, <3>2 DEF Checked
  <2>7. CASE CheckHeaders
    <3>1. /\ found' = [found EXCEPT !.sizeOfOptHdr = Val(found.peHeaderOffset + SizeOfOptHdr)]
          /\ finalOffset >= EndOfTable(Val(found.peHeaderOffset + SizeOfOptHdr))
          /\ step = "headers" /\ step' = "machine" /\ i' = i
      BY <2>1, <2>2, <2>7 DEF CheckHeaders, At, Require, Goto, Return, Note, Got
    <3>2. /\ found'.peHeaderOffset = found.peHeaderOffset
          /\ found'.sectionCount = found.sectionCount
          /\ found'.sizeOfOptHdr = Val(found.peHeaderOffset + SizeOfOptHdr)
      BY <1>0, <3>1 DEF FoundType
    <3>3. EndOfTable(Val(found.peHeaderOffset + SizeOfOptHdr)) \in Int
      BY <1>0, ValType DEF EndOfTable, SizeofCoff, SizeofEntry, FoundType
    <3>4. TableInFile'
      BY <1>0, <2>1, <3>1, <3>2, <3>3 DEF TableInFile, EndOfTable, finalOffset, Val
    <3>5. (CountKept' <=> CountKept) /\ (PointerKept' <=> PointerKept)
      BY <2>1, <3>2 DEF CountKept, PointerKept, Val
    <3> QED
      BY <1>0, <2>1, <3>1, <3>4, <3>5 DEF Checked
  <2>8. ASSUME found' = found
        PROVE  /\ PointerKept' <=> PointerKept
               /\ CountKept' <=> CountKept
               /\ TableInFile' <=> TableInFile
               /\ \A k : DataInFile(k)' <=> DataInFile(k)
    BY <2>1, <2>8 DEF PointerKept, CountKept, TableInFile, EndOfTable, DataInFile,
                      EndOfRawData, RawSize, RawOffset, Entry, Val
  <2>9. CASE CheckMachine \/ CheckSubsystem
    <3>1. /\ found' = found /\ i' = i
          /\ \/ step = "machine" /\ step' = "subsystem"
             \/ step = "subsystem" /\ step' = "pageAlignment"
      BY <2>1, <2>9, StepNames
         DEF CheckMachine, CheckSubsystem, CheckField, At, Require, Goto, Return
    <3> QED
      BY <1>0, <2>1, <2>8, <3>1 DEF Checked
  <2>10. CASE CheckPageSize
    <3>1. found' = found /\ i' = i /\ step = "pageAlignment" /\ step' = "rawData"
      BY <2>1, <2>10, StepNames DEF CheckPageSize, CheckField, At, Require, Goto, Return
    <3>2. i = 1
      BY <1>0, <3>1 DEF Checked
    <3> QED
      BY <1>0, <2>1, <2>8, <3>1, <3>2 DEF Checked
  <2>11. CASE CheckRawData
    <3>1. /\ found' = found /\ i' = i + 1 /\ step = "rawData" /\ step' = "rawData"
          /\ finalOffset >= EndOfRawData(i)
      BY <2>1, <2>11, StepNames DEF CheckRawData, At, Require, Goto, Return
    <3>2. EndOfRawData(i) \in Int
      BY <1>0, RawDataType, WordAssumption
    <3>3. DataInFile(i)
      BY <1>0, <3>1, <3>2 DEF DataInFile, finalOffset
    <3>4. \A k \in 1 .. found.sectionCount : k < i + 1 => k < i \/ k = i
      BY <1>0 DEF FoundType
    <3> QED
      BY <1>0, <2>1, <2>8, <3>1, <3>3, <3>4 DEF Checked
  <2> QED
    BY <1>2, <2>3, <2>4, <2>5, <2>6, <2>7, <2>9, <2>10, <2>11 DEF ValidationNext
<1>3. CASE Accept
  <2>1. /\ step = "rawData" /\ step' = "hdrData" /\ UNCHANGED <<pe, found>>
        /\ i > found.sectionCount
    BY <1>3, AcceptFrame DEF Accept
  <2>2. /\ PointerKept' <=> PointerKept
        /\ CountKept' <=> CountKept
        /\ TableInFile' <=> TableInFile
        /\ \A k : DataInFile(k)' <=> DataInFile(k)
    BY <2>1 DEF PointerKept, CountKept, TableInFile, EndOfTable, DataInFile, EndOfRawData,
                RawSize, RawOffset, Entry, Val
  <2>3. \A k \in 1 .. found.sectionCount : k < i
    BY <1>0, <2>1 DEF FoundType
  <2> QED
    BY <1>0, <2>1, <2>2, <2>3 DEF Checked
<1>4. CASE HdrNext
  <2>1. Accepted /\ step' \notin ValidationSteps /\ UNCHANGED <<pe, found>>
    BY <1>4, HdrFrame, StepNames DEF Accepted, Quiet
  <2> QED
    BY <2>1, CheckedStays
<1>5. CASE UNCHANGED vars
  <2>1. /\ PointerKept' <=> PointerKept
        /\ CountKept' <=> CountKept
        /\ TableInFile' <=> TableInFile
        /\ \A k : DataInFile(k)' <=> DataInFile(k)
    BY <1>5 DEF vars, PointerKept, CountKept, TableInFile, EndOfTable, DataInFile,
                EndOfRawData, RawSize, RawOffset, Entry, Val
  <2> QED
    BY <1>5, <2>1 DEF vars, Checked, Accepted
<1> QED
  BY <1>1, <1>2, <1>3, <1>4, <1>5, NextSplit

-----------------------------------------------------------------------------
(***************************************************************************)
(* What getHdrData knows, read by read, is what validatePE has looked at.  *)
(***************************************************************************)
Read(steps) == step \in HdrSteps \ steps \/ ret = "success"

OffsetRead == peData.peHeaderOffset = found.peHeaderOffset

CountRead == /\ peData.numberOfSections = found.sectionCount
             /\ peData.sectionTableSize = found.sectionCount * SizeofEntry

SizeRead ==
  peData.headerSize = found.peHeaderOffset + 1 + SizeofCoff + found.sizeOfOptHdr

HdrKept ==
  /\ Read({"hdrData"}) => OffsetRead
  /\ Read({"hdrData", "numberOfSections"}) => CountRead
  /\ Read({"hdrData", "numberOfSections", "headerSize"}) => SizeRead

(* The file holds the whole section table, and 32 bits its end.            *)
LEMMA TableFits ==
  ASSUME PEHeaderTypeOK, Checked, Accepted
  PROVE  /\ found.peHeaderOffset \in Nat /\ found.sectionCount \in Nat \ {0}
         /\ found.sizeOfOptHdr \in Nat
         /\ pe.len \in Nat /\ pe.len < Word
         /\ found.peHeaderOffset + 24 + found.sizeOfOptHdr + found.sectionCount * 40 <= pe.len
<1>1. FoundType /\ pe \in PEs /\ CountKept /\ TableInFile
  BY DEF PEHeaderTypeOK, InputType, Checked, Beyond
<1>2. pe.len \in 0 .. Word - 1
  BY <1>1, PEHeaderAssumption
<1> QED
  BY <1>1, <1>2, WordAssumption
     DEF FoundType, CountKept, TableInFile, EndOfTable, SizeofCoff, SizeofEntry

(* So the positions of getHdrData do not wrap.                             *)
LEMMA HdrPlaces ==
  ASSUME PEHeaderTypeOK, Checked, Accepted, OffsetRead
  PROVE  /\ \A at \in 0 .. 63 : HdrPos(at) = found.peHeaderOffset + at
         /\ Standard => \A at \in 0 .. 287 : HdrPos(at) = found.peHeaderOffset + at
<1> DEFINE pho == found.peHeaderOffset
           opt == found.sizeOfOptHdr
           count == found.sectionCount
<1>1. /\ pho \in Nat /\ count \in Nat \ {0} /\ opt \in Nat /\ pe.len \in Nat /\ pe.len < Word
      /\ pho + 24 + opt + count * 40 <= pe.len
  BY TableFits
<1>2. \A at : HdrPos(at) = U32(pho + at)
  BY DEF HdrPos, OffsetRead
<1>3. Standard => opt = 224
  BY DEF Standard, StandardOptHdr
<1> HIDE DEF pho, opt, count
<1>4. count * 40 >= 40
  BY <1>1
<1>5. ASSUME NEW at \in 0 .. 287, at <= 63 \/ opt = 224
      PROVE  HdrPos(at) = pho + at
  <2>1. pho + at \in Nat /\ pho + at < Word
    BY <1>1, <1>4, <1>5, WordAssumption
  <2> QED
    BY <2>1, <1>2, U32Plain
<1>6. \A at \in 0 .. 63 : at \in 0 .. 287 /\ at <= 63
  OBVIOUS
<1> QED
  BY <1>3, <1>5, <1>6 DEF pho

LEMMA InitHdrKept == Init => HdrKept
BY DEF Init, HdrKept, Read, HdrSteps

(* Steps that leave the three facts alone, or give up.                     *)
LEMMA HdrKeptStays ==
  ASSUME HdrKept, UNCHANGED found,
         \/ /\ peData'.peHeaderOffset = peData.peHeaderOffset
            /\ peData'.numberOfSections = peData.numberOfSections
            /\ peData'.sectionTableSize = peData.sectionTableSize
            /\ peData'.headerSize = peData.headerSize
            /\ \A steps \in {{"hdrData"}, {"hdrData", "numberOfSections"},
                             {"hdrData", "numberOfSections", "headerSize"}} :
                 Read(steps)' => Read(steps)
         \/ step' \notin HdrSteps /\ ret' # "success"
  PROVE  HdrKept'
BY DEF HdrKept, Read, OffsetRead, CountRead, SizeRead

LEMMA NextHdrKept ==
  ASSUME PEHeaderTypeOK, Quiet, Checked, HdrKept, [Next]_vars
  PROVE  HdrKept'
<1>0. /\ HdrSteps = {"hdrData", "numberOfSections", "headerSize", "characteristics",
                     "entryPoint", "baseAddr", "pageSize", "exportCount", "idtRVA", "tlsAddr",
                     "tlsSize", "sections", "section", "sectionInfo"}
      /\ DOMAIN peData = HdrFields
  BY DEF HdrSteps, PEHeaderTypeOK, HdrType
<1>1. CASE ValidationNext
  BY <1>1, ValidationFrame, StepNames DEF HdrKept, Read, Quiet
<1>2. CASE Accept
  BY <1>2, AcceptFrame, StepNames DEF HdrKept, Read, Quiet
<1>3. CASE UNCHANGED vars
  BY <1>3 DEF vars, HdrKept, Read, OffsetRead, CountRead, SizeRead
<1>4. CASE HdrNext /\ step' = "returned" /\ ret' # "success"
  BY <1>4, HdrFrame, StepNames, HdrKeptStays
<1>5. CASE HdrNext /\ ~(step' = "returned" /\ ret' # "success")
  <2>1. Accepted /\ UNCHANGED <<pe, found>> /\ step \in HdrSteps /\ ret = "none"
    BY <1>5, HdrFrame, StepNames DEF Accepted, Quiet
  <2>2. /\ found.peHeaderOffset = Val(LfaNew)
        /\ found.sectionCount = Val(found.peHeaderOffset + SectionCount)
        /\ found.sizeOfOptHdr = Val(found.peHeaderOffset + SizeOfOptHdr)
    BY <2>1 DEF Checked, Beyond, PointerKept, CountKept, TableInFile
  <2>3. CASE ReadPEHeaderOffset
    <3>1. /\ step' = "numberOfSections" /\ ret' = ret
          /\ peData' = [peData EXCEPT !.peHeaderOffset = Val(LfaNew)]
      BY <1>5, <2>3 DEF ReadPEHeaderOffset, At, Proceed, Note, Goto, Return, Got
    <3>2. OffsetRead'
      BY <1>0, <2>1, <2>2, <3>1, FieldNames DEF OffsetRead
    <3> QED
      BY <1>0, <2>1, <3>1, <3>2 DEF HdrKept, Read
  <2>4. CASE ReadNumberOfSections
    <3>1. OffsetRead
      BY <1>0, <2>4 DEF HdrKept, Read, ReadNumberOfSections, At
    <3>2. HdrPos(SectionCount) = found.peHeaderOffset + SectionCount
      BY <2>1, <3>1, HdrPlaces DEF SectionCount
    <3>3. /\ step' = "headerSize" /\ ret' = ret
          /\ peData' = [peData EXCEPT !.numberOfSections = found.sectionCount,
                                      !.sectionTableSize = found.sectionCount * SizeofEntry]
      BY <1>5, <2>2, <2>4, <3>2
         DEF ReadNumberOfSections, At, Proceed, Note, Goto, Return, Got
    <3>4. OffsetRead' /\ CountRead'
      BY <1>0, <2>1, <3>1, <3>3, FieldNames DEF OffsetRead, CountRead
    <3> QED
      BY <1>0, <2>1, <3>3, <3>4 DEF HdrKept, Read
  <2>5. CASE ReadHeaderSize
    <3>1. OffsetRead /\ CountRead
      BY <1>0, <2>5 DEF HdrKept, Read, ReadHeaderSize, At
    <3>2. HdrPos(SizeOfOptHdr) = found.peHeaderOffset + SizeOfOptHdr
      BY <2>1, <3>1, HdrPlaces DEF SizeOfOptHdr
    <3>3. /\ step' = "characteristics" /\ ret' = ret
          /\ peData' = [peData EXCEPT !.headerSize =
               U32((peData.peHeaderOffset + 1) + SizeofCoff + found.sizeOfOptHdr)]
      BY <1>5, <2>2, <2>5, <3>2 DEF ReadHeaderSize, At, Proceed, Note, Goto, Return, Got
    <3>4. U32((peData.peHeaderOffset + 1) + SizeofCoff + found.sizeOfOptHdr)
            = found.peHeaderOffset + 1 + SizeofCoff + found.sizeOfOptHdr
      <4> DEFINE pho == found.peHeaderOffset
                 opt == found.sizeOfOptHdr
                 count == found.sectionCount
      <4>1. /\ pho \in Nat /\ count \in Nat \ {0} /\ opt \in Nat
            /\ pe.len \in Nat /\ pe.len < Word /\ pho + 24 + opt + count * 40 <= pe.len
        BY <2>1, TableFits
      <4> HIDE DEF pho, opt, count
      <4>2. pho + 1 + 24 + opt \in Nat /\ pho + 1 + 24 + opt < Word
        BY <4>1, WordAssumption
      <4>3. U32(pho + 1 + 24 + opt) = pho + 1 + 24 + opt
        BY <4>2, U32Plain
      <4> QED
        BY <3>1, <4>3 DEF OffsetRead, pho, opt, SizeofCoff
    <3>5. OffsetRead' /\ CountRead' /\ SizeRead'
      BY <1>0, <2>1, <3>1, <3>3, <3>4, FieldNames DEF OffsetRead, CountRead, SizeRead
    <3> QED
      BY <3>5 DEF HdrKept
  <2>6. CASE \/ ReadCharacteristics \/ ReadEntryPoint \/ ReadBaseAddr \/ ReadPageSize
             \/ ReadExports \/ ReadIdtRVA \/ ReadTlsAddr \/ ReadTlsSize
    <3>1. /\ \E f \in HdrFields \ {"peHeaderOffset", "numberOfSections", "sectionTableSize",
                                   "headerSize"} : \E v : peData' = [peData EXCEPT ![f] = v]
          /\ step \notin {"hdrData", "numberOfSections", "headerSize"}
      BY <2>6, FieldNames
         DEF ReadCharacteristics, ReadEntryPoint, ReadBaseAddr, ReadPageSize, ReadExports,
             ReadIdtRVA, ReadTlsAddr, ReadTlsSize, ReadField, At
    <3>2. /\ peData'.peHeaderOffset = peData.peHeaderOffset
          /\ peData'.numberOfSections = peData.numberOfSections
          /\ peData'.sectionTableSize = peData.sectionTableSize
          /\ peData'.headerSize = peData.headerSize
      BY <1>0, <3>1, FieldNames
    <3>3. OffsetRead /\ CountRead /\ SizeRead
      BY <2>1, <3>1 DEF HdrKept, Read
    <3> QED
      BY <2>1, <3>2, <3>3 DEF HdrKept, OffsetRead, CountRead, SizeRead
  <2>7. CASE \/ BeginSections \/ ReadSection \/ BeginMapping \/ ReadSectionInfo
             \/ ReadHeaders
    <3>1. /\ UNCHANGED peData
          /\ step \notin {"hdrData", "numberOfSections", "headerSize"}
      BY <2>7 DEF BeginSections, ReadSection, BeginMapping, ReadSectionInfo, ReadHeaders,
                  laterVars, At
    <3>2. OffsetRead /\ CountRead /\ SizeRead
      BY <2>1, <3>1 DEF HdrKept, Read
    <3> QED
      BY <2>1, <3>1, <3>2 DEF HdrKept, OffsetRead, CountRead, SizeRead
  <2> QED
    BY <1>5, <2>3, <2>4, <2>5, <2>6, <2>7 DEF HdrNext
<1> QED
  BY <1>1, <1>2, <1>3, <1>4, <1>5, NextSplit

-----------------------------------------------------------------------------
(***************************************************************************)
(* The two tables, as far as they have been read.  The one of getHdrData   *)
(* is where validatePE looked only behind the optional header it expects,  *)
(* the one of mapPEToBasefile always.                                      *)
(***************************************************************************)
Same(table) == \A s \in DOMAIN table : table[s] = SectionAt(Entry(s))

Begun(table) == i = Len(table) + 1 /\ Len(table) <= found.sectionCount

Whole(table) == Len(table) = found.sectionCount

TablesKept ==
  /\ step \in ValidationSteps \cup (HdrSteps \ {"section", "sectionInfo"}) => sections = <<>>
  /\ step \in HdrSteps \ {"section", "sectionInfo"} => i = 1
  /\ step \in ValidationSteps \cup (HdrSteps \ {"sectionInfo"}) => sectionInfo = <<>>
  /\ step = "section" => Begun(sections)
  /\ step = "sectionInfo" => Begun(sectionInfo)
  /\ step = "sectionInfo" \/ ret = "success" => Whole(sections)
  /\ ret = "success" => Whole(sectionInfo)
  /\ Accepted /\ Standard => Same(sections)
  /\ Accepted => Same(sectionInfo)

LEMMA InitTablesKept == Init => TablesKept
BY StepNames DEF Init, TablesKept, Accepted, ValidationSteps

(* One entry more.                                                         *)
LEMMA AppendEntry ==
  ASSUME NEW t \in Seq(SectionRecords), Begun(t), i <= found.sectionCount, FoundType,
         Same(t), NEW e \in SectionRecords, e = SectionAt(Entry(i)),
         UNCHANGED <<found, pe>>, i' = i + 1,
         NEW u, u = Append(t, e)
  PROVE  /\ u \in Seq(SectionRecords) /\ i' = Len(u) + 1 /\ Len(u) <= found.sectionCount
         /\ \A s \in DOMAIN u : u[s] = SectionAt(Entry(s))
<1>1. /\ u \in Seq(SectionRecords) /\ Len(u) = Len(t) + 1
      /\ Len(t) \in Nat /\ DOMAIN t = 1 .. Len(t) /\ DOMAIN u = 1 .. Len(t) + 1
      /\ \A s \in 1 .. Len(t) : u[s] = t[s]
      /\ u[Len(t) + 1] = e
  BY LenProperties
<1>2. \A s \in 1 .. Len(t) + 1 : s \in 1 .. Len(t) \/ s = Len(t) + 1
  BY <1>1
<1>3. \A s \in DOMAIN u : u[s] = SectionAt(Entry(s))
  BY <1>1, <1>2 DEF Same, Begun
<1> QED
  BY <1>1, <1>3, WordAssumption DEF Begun, FoundType

LEMMA NextTablesKept ==
  ASSUME PEHeaderTypeOK, Quiet, Checked, HdrKept, TablesKept, [Next]_vars
  PROVE  TablesKept'
<1>0. /\ HdrSteps = {"hdrData", "numberOfSections", "headerSize", "characteristics",
                     "entryPoint", "baseAddr", "pageSize", "exportCount", "idtRVA", "tlsAddr",
                     "tlsSize", "sections", "section", "sectionInfo"}
      /\ sections \in Seq(SectionRecords) /\ sectionInfo \in Seq(SectionRecords)
      /\ pe \in PEs /\ FoundType /\ i \in Nat
  BY DEF HdrSteps, PEHeaderTypeOK, TablesType, InputType
<1>1. Same(<<>>)
  BY DEF Same
<1>2. ASSUME UNCHANGED <<pe, found>>
      PROVE  \A t : Same(t)' <=> \A s \in DOMAIN t' : t'[s] = SectionAt(Entry(s))
  BY <1>2 DEF Same, SectionAt, Entry, Val, FlagsAt
<1>3. CASE ValidationNext
  <2>1. /\ sections = <<>> /\ sectionInfo = <<>> /\ UNCHANGED <<sections, sectionInfo>>
        /\ step' \notin HdrSteps /\ ret' # "success" /\ ~Accepted'
    BY <1>3, ValidationFrame, StepNames DEF TablesKept, Quiet, Accepted
  <2> QED
    BY <1>0, <2>1 DEF TablesKept
<1>4. CASE Accept
  <2>1. /\ sections' = <<>> /\ sectionInfo' = <<>> /\ UNCHANGED <<pe, found>>
        /\ step' = "hdrData" /\ i' = 1 /\ ret' # "success"
    BY <1>4, AcceptFrame, StepNames DEF laterVars, TablesKept, Quiet
  <2> QED
    BY <2>1 DEF TablesKept, Same
<1>5. CASE UNCHANGED vars
  BY <1>5, <1>2 DEF vars, TablesKept, Same, Begun, Whole, Accepted, Standard
<1>6. CASE HdrNext
  <2>1. /\ Accepted /\ UNCHANGED <<pe, found>> /\ step \in HdrSteps /\ ret = "none"
        /\ step' \in HdrSteps \cup {"returned"} /\ step' \notin ValidationSteps
    BY <1>6, HdrFrame, StepNames DEF Accepted, Quiet
  <2>2. /\ Same(sectionInfo)' <=>
             \A s \in DOMAIN sectionInfo' : sectionInfo'[s] = SectionAt(Entry(s))
        /\ Same(sections)' <=> \A s \in DOMAIN sections' : sections'[s] = SectionAt(Entry(s))
        /\ Standard' <=> Standard
        /\ Whole(sections)' <=> Len(sections') = found.sectionCount
        /\ Whole(sectionInfo)' <=> Len(sectionInfo') = found.sectionCount
    BY <2>1 DEF Same, SectionAt, Entry, Val, FlagsAt, Standard, Whole
  <2>3. CASE UNCHANGED <<sections, sectionInfo>>
             /\ \/ step' = "returned" /\ ret' # "success"
                \/ step \notin {"section", "sectionInfo"} /\ ret' # "success"
                   /\ step' \in HdrSteps \ {"section", "sectionInfo"} /\ i' = i
    BY <1>0, <2>1, <2>2, <2>3, StepNames DEF TablesKept, Same
  <2>4. CASE \/ ReadPEHeaderOffset \/ ReadNumberOfSections \/ ReadHeaderSize
             \/ ReadCharacteristics \/ ReadEntryPoint \/ ReadBaseAddr \/ ReadPageSize
             \/ ReadExports \/ ReadIdtRVA \/ ReadTlsAddr \/ ReadTlsSize
    <3>1. /\ UNCHANGED <<sections, sectionInfo, i>>
          /\ step \notin {"section", "sectionInfo"} /\ step' \notin {"section", "sectionInfo"}
          /\ ret' # "success"
      BY <2>1, <2>4
         DEF ReadPEHeaderOffset, ReadNumberOfSections, ReadHeaderSize, ReadCharacteristics,
             ReadEntryPoint, ReadBaseAddr, ReadPageSize, ReadExports, ReadIdtRVA, ReadTlsAddr,
             ReadTlsSize, ReadField, At, Proceed, Goto, Return
    <3> QED
      BY <2>1, <2>3, <3>1
  <2>5. CASE BeginSections
    <3>1. /\ UNCHANGED <<sections, sectionInfo, i>> /\ step = "sections" /\ ret' # "success"
          /\ step' \in {"section", "returned"}
      BY <2>1, <2>5 DEF BeginSections, laterVars, At, Proceed, Goto, Return
    <3>2. sections = <<>> /\ sectionInfo = <<>> /\ i = 1
      BY <1>0, <3>1 DEF TablesKept
    <3>3. 0 <= found.sectionCount /\ Len(<<>>) = 0
      BY <2>1, TableFits
    <3>4. Begun(sections)' /\ Same(sections)' /\ Same(sectionInfo)'
      BY <2>1, <3>1, <3>2, <3>3 DEF Begun, Same
    <3> QED
      BY <1>0, <2>1, <3>1, <3>2, <3>4, StepNames DEF TablesKept
  <2>6. CASE ReadSection /\ step' = "returned"
    BY <2>1, <2>3, <2>6 DEF ReadSection, At, Goto, Return
  <2>7. CASE ReadSection /\ step' # "returned"
    <3> DEFINE section == SectionAt(FixedTable + (i - 1) * SizeofEntry)
    <3>1. /\ step = "section" /\ step' = "section" /\ i <= peData.numberOfSections
          /\ sections' = Append(sections, section) /\ i' = i + 1
          /\ UNCHANGED <<sectionInfo, ret>>
      BY <2>7 DEF ReadSection, At, Goto, Return
    <3>2. OffsetRead /\ CountRead /\ Begun(sections)
      BY <1>0, <3>1 DEF HdrKept, Read, TablesKept
    <3>3. section \in SectionRecords
      BY <1>0, SectionType
    <3>4. /\ sections' \in Seq(SectionRecords)
          /\ Len(sections') = Len(sections) + 1
      BY <1>0, <3>1, <3>3
    <3>5. i' = Len(sections') + 1 /\ Len(sections') <= found.sectionCount
      BY <1>0, <3>1, <3>2, <3>4, LenProperties, WordAssumption DEF Begun, CountRead, FoundType
    <3>6. ASSUME Standard PROVE \A s \in DOMAIN sections' : sections'[s] = SectionAt(Entry(s))
      <4>1. FixedTable = found.peHeaderOffset + 248
        BY <2>1, <3>2, <3>6, HdrPlaces DEF FixedTable
      <4>2. section = SectionAt(Entry(i))
        <5> DEFINE pho == found.peHeaderOffset
        <5>1. pho \in Nat
          BY <2>1, TableFits
        <5> HIDE DEF pho
        <5>2. pho + 248 = pho + 24 + 224
          BY <5>1
        <5>3. FixedTable = found.peHeaderOffset + SizeofCoff + found.sizeOfOptHdr
          BY <4>1, <5>2, <3>6 DEF pho, Standard, StandardOptHdr, SizeofCoff
        <5> QED
          BY <5>3 DEF Entry
      <4>3. Same(sections)
        BY <2>1, <3>6 DEF TablesKept
      <4> HIDE DEF section
      <4> QED
        BY <1>0, <2>1, <3>1, <3>2, <3>3, <4>2, <4>3, AppendEntry DEF CountRead
    <3>7. sectionInfo = <<>>
      BY <1>0, <3>1 DEF TablesKept
    <3> HIDE DEF section
    <3> QED
      BY <1>0, <2>1, <2>2, <3>1, <3>5, <3>6, <3>7, StepNames DEF TablesKept, Begun
  <2>8. CASE BeginMapping
    <3>1. /\ UNCHANGED <<sections, sectionInfo>> /\ step = "section" /\ ret' # "success"
          /\ i > peData.numberOfSections
          /\ \/ step' = "sectionInfo" /\ i' = 1
             \/ step' = "returned"
      BY <2>1, <2>8 DEF BeginMapping, laterVars, At, Goto, Return
    <3>2. CountRead /\ Begun(sections) /\ sectionInfo = <<>>
      BY <1>0, <3>1 DEF HdrKept, Read, TablesKept
    <3>3. Len(sections) = found.sectionCount /\ 0 <= found.sectionCount /\ Len(<<>>) = 0
      BY <1>0, <3>1, <3>2, LenProperties, WordAssumption DEF Begun, CountRead, FoundType
    <3>4. Standard => \A s \in DOMAIN sections' : sections'[s] = SectionAt(Entry(s))
      BY <2>1, <3>1 DEF TablesKept, Same
    <3> QED
      BY <1>0, <2>1, <2>2, <3>1, <3>2, <3>3, <3>4, StepNames DEF TablesKept, Begun
  <2>9. CASE ReadSectionInfo /\ step' = "returned"
    <3>1. UNCHANGED <<sections, sectionInfo>> /\ ret' # "success"
      BY <2>9 DEF ReadSectionInfo, At, Proceed, Goto, Return
    <3> QED
      BY <2>3, <2>9, <3>1
  <2>10. CASE ReadSectionInfo /\ step' # "returned"
    <3> DEFINE section == SectionAt((peData.headerSize - 1) + (i - 1) * SizeofEntry)
    <3>1. /\ step = "sectionInfo" /\ step' = "sectionInfo" /\ i <= peData.numberOfSections
          /\ sectionInfo' = Append(sectionInfo, section) /\ i' = i + 1
          /\ UNCHANGED <<sections, ret>>
      BY <2>10 DEF ReadSectionInfo, At, Proceed, Goto, Return
    <3>2. SizeRead /\ CountRead /\ Begun(sectionInfo) /\ Whole(sections)
      BY <1>0, <3>1 DEF HdrKept, Read, TablesKept
    <3>3. section = SectionAt(Entry(i))
      <4> DEFINE pho == found.peHeaderOffset
                 opt == found.sizeOfOptHdr
      <4>1. pho \in Nat /\ opt \in Nat /\ peData.headerSize = pho + 1 + 24 + opt
        BY <2>1, <3>2, TableFits DEF SizeRead, SizeofCoff
      <4> HIDE DEF pho, opt
      <4>2. peData.headerSize - 1 = pho + 24 + opt
        BY <4>1
      <4> QED
        BY <4>2 DEF pho, opt, Entry, SizeofCoff
    <3>4. section \in SectionRecords
      BY <1>0, SectionType
    <3>5. Same(sectionInfo)
      BY <2>1 DEF TablesKept
    <3> HIDE DEF section
    <3>6. /\ i' = Len(sectionInfo') + 1 /\ Len(sectionInfo') <= found.sectionCount
          /\ \A s \in DOMAIN sectionInfo' : sectionInfo'[s] = SectionAt(Entry(s))
      BY <1>0, <2>1, <3>1, <3>2, <3>3, <3>4, <3>5, AppendEntry DEF CountRead
    <3>7. Standard => \A s \in DOMAIN sections' : sections'[s] = SectionAt(Entry(s))
      BY <2>1, <3>1 DEF TablesKept, Same
    <3> QED
      BY <1>0, <2>1, <2>2, <3>1, <3>2, <3>6, <3>7, StepNames DEF TablesKept, Begun, Whole
  <2>11. CASE ReadHeaders
    <3>1. /\ UNCHANGED <<sections, sectionInfo>> /\ step = "sectionInfo"
          /\ step' = "returned" /\ i > peData.numberOfSections
      BY <2>11 DEF ReadHeaders, laterVars, At, Return
    <3>2. CountRead /\ Begun(sectionInfo) /\ Whole(sections)
      BY <1>0, <3>1 DEF HdrKept, Read, TablesKept
    <3>3. Len(sectionInfo) = found.sectionCount
      BY <1>0, <3>1, <3>2, LenProperties, WordAssumption DEF Begun, CountRead, FoundType
    <3>4. /\ Standard => \A s \in DOMAIN sections' : sections'[s] = SectionAt(Entry(s))
          /\ \A s \in DOMAIN sectionInfo' : sectionInfo'[s] = SectionAt(Entry(s))
      BY <2>1, <3>1 DEF TablesKept, Same
    <3> QED
      BY <1>0, <2>1, <2>2, <3>1, <3>2, <3>3, <3>4, StepNames DEF TablesKept, Whole
  <2> QED
    BY <1>6, <2>4, <2>5, <2>6, <2>7, <2>8, <2>9, <2>10, <2>11 DEF HdrNext
<1> QED
  BY <1>3, <1>4, <1>5, <1>6, NextSplit

-----------------------------------------------------------------------------
HeaderInv == PEHeaderTypeOK /\ Quiet /\ Checked /\ HdrKept /\ TablesKept

(* All of the above holds of every reachable state.                        *)
THEOREM HeaderInvariant == Spec => []HeaderInv
<1>1. Init => HeaderInv
  BY InitType, InitQuiet, InitChecked, InitHdrKept, InitTablesKept DEF HeaderInv
<1>2. HeaderInv /\ [Next]_vars => HeaderInv'
  BY NextType, NextQuiet, NextChecked, NextHdrKept, NextTablesKept DEF HeaderInv
<1> QED
  BY <1>1, <1>2, PTL DEF Spec

(***************************************************************************)
(* The section table that is checked by validatePE, the one that getHdrData*)
(* gives to the address translations and the one that mapPEToBasefile      *)
(* copies by are the same, however their positions are computed, behind an *)
(* optional header of the size that getSectionInfo's 0xF8 implies.         *)
(***************************************************************************)
THEOREM TablesAgree == Spec => []OneSectionTable
<1>1. HeaderInv => OneSectionTable
  <2> SUFFICES ASSUME HeaderInv, ret = "success", Standard
               PROVE  /\ sections = sectionInfo
                      /\ Len(sections) = found.sectionCount
                      /\ \A s \in DOMAIN sections :
                           /\ sections[s] = SectionAt(Entry(s))
                           /\ \/ sections[s].rawSize + sections[s].offset <= pe.len
                              \/ sections[s].rawSize + sections[s].offset >= Word
    BY DEF OneSectionTable
  <2>1. Accepted
    BY StepNames DEF HeaderInv, Quiet, Accepted
  <2>2. /\ Same(sections) /\ Same(sectionInfo) /\ Whole(sections) /\ Whole(sectionInfo)
        /\ sections \in Seq(SectionRecords) /\ sectionInfo \in Seq(SectionRecords)
        /\ pe \in PEs
    BY <2>1 DEF HeaderInv, TablesKept, PEHeaderTypeOK, TablesType, InputType
  <2>3. /\ DOMAIN sections = 1 .. found.sectionCount
        /\ DOMAIN sectionInfo = 1 .. found.sectionCount
        /\ Len(sections) = Len(sectionInfo)
    BY <2>2, LenProperties DEF Whole
  <2>4. sections = sectionInfo
    BY <2>2, <2>3, SeqEqual, LenProperties DEF Same
  <2>5. ASSUME NEW s \in DOMAIN sections
        PROVE  \/ sections[s].rawSize + sections[s].offset <= pe.len
               \/ sections[s].rawSize + sections[s].offset >= Word
    <3>1. sections[s].rawSize = RawSize(s) /\ sections[s].offset = RawOffset(s)
      BY <2>2, <2>5 DEF Same, SectionAt, RawSize, RawOffset
    <3>2. U32(RawSize(s) + RawOffset(s)) <= pe.len
      BY <2>1, <2>3 DEF HeaderInv, Checked, DataInFile, EndOfRawData
    <3>3. RawSize(s) \in Nat /\ RawOffset(s) \in Nat
      BY <2>2, RawDataType, WordAssumption
    <3>4. RawSize(s) + RawOffset(s) < Word =>
            U32(RawSize(s) + RawOffset(s)) = RawSize(s) + RawOffset(s)
      BY <3>3, U32Plain
    <3> QED
      BY <3>1, <3>2, <3>3, <3>4, WordAssumption
  <2> QED
    BY <2>2, <2>4, <2>5 DEF Same, Whole
<1> QED
  BY <1>1, HeaderInvariant, PTL

(* A read within the file does not meet its end.                           *)
LEMMA NotAtEnd ==
  ASSUME NEW pos, NEW bytes, pos + bytes <= pe.len, NEW errno \in Outcomes(pos, bytes)
  PROVE  errno # "eof"
BY DEF Outcomes

(* The files that AcceptedCanBeRead is about.                              *)
LongEnough == Accepted /\ Standard /\ EndOfTable(StandardOptHdr) < pe.len

LEMMA NextCanBeRead ==
  ASSUME HeaderInv, AcceptedCanBeRead, [Next]_vars
  PROVE  AcceptedCanBeRead'
<1> SUFFICES ASSUME LongEnough' PROVE trouble' # "eof"
  BY DEF AcceptedCanBeRead, LongEnough
<1> USE DEF HeaderInv
<1>1. CASE ValidationNext
  BY <1>1, ValidationFrame, StepNames DEF LongEnough, Accepted, Quiet
<1>2. CASE Accept
  BY <1>2, AcceptFrame, StepNames DEF Quiet
<1>3. CASE UNCHANGED vars
  <2>1. LongEnough /\ trouble' = trouble
    BY <1>3 DEF vars, LongEnough, Accepted, Standard, EndOfTable
  <2> QED
    BY <2>1 DEF LongEnough, AcceptedCanBeRead
<1>4. CASE HdrNext
  <2> DEFINE pho == found.peHeaderOffset
             count == found.sectionCount
  <2>1. /\ Accepted /\ UNCHANGED <<pe, found>> /\ step \in HdrSteps /\ trouble = "none"
        /\ (trouble' = trouble \/ step' = "returned")
    BY <1>4, HdrFrame, StepNames DEF Accepted, Quiet
  <2>2. /\ Standard /\ pho \in Nat /\ count \in Nat \ {0} /\ pe.len \in Nat /\ pe.len < Word
        /\ pho + 248 + count * 40 < pe.len
    <3>1. /\ Standard /\ pho \in Nat /\ count \in Nat \ {0} /\ pe.len \in Nat /\ pe.len < Word
      BY <2>1, TableFits DEF LongEnough, Standard
    <3>2. pho + 24 + 224 + count * 40 < pe.len
      BY <2>1 DEF LongEnough, EndOfTable, StandardOptHdr, SizeofCoff, SizeofEntry
    <3> HIDE DEF pho, count
    <3> QED
      BY <3>1, <3>2
  <2>3. OffsetRead => \A at \in 0 .. 287 : HdrPos(at) = pho + at
    BY <2>1, <2>2, HdrPlaces
  <2>4. \A at \in 0 .. 280 : at \in 0 .. 287
    OBVIOUS
  <2>5. ASSUME OffsetRead, NEW at \in 0 .. 280, NEW bytes \in 0 .. 8,
               NEW errno \in Outcomes(HdrPos(at), bytes)
        PROVE  errno # "eof"
    <3>1. HdrPos(at) = pho + at
      BY <2>3, <2>4, <2>5
    <3> HIDE DEF pho, count
    <3>2. pho + at + bytes <= pe.len
      BY <2>2, <2>5
    <3> QED
      BY <2>5, <3>1, <3>2, NotAtEnd
  <2>6. \A errno \in Outcomes(LfaNew, 4) : errno # "eof"
    <3> HIDE DEF pho, count
    <3>1. LfaNew + 4 <= pe.len
      BY <2>2 DEF LfaNew
    <3> QED
      BY <3>1, NotAtEnd
  <2>7. step # "hdrData" => OffsetRead
    BY <2>1 DEF HdrKept, Read
  <2>8. CASE ReadPEHeaderOffset
    BY <2>1, <2>6, <2>8 DEF ReadPEHeaderOffset, Proceed, Note
  <2>9. CASE ReadNumberOfSections
    BY <2>1, <2>5, <2>7, <2>9 DEF ReadNumberOfSections, At, Proceed, Note, SectionCount
  <2>10. CASE ReadHeaderSize
    BY <2>1, <2>5, <2>7, <2>10 DEF ReadHeaderSize, At, Proceed, Note, SizeOfOptHdr
  <2>11. CASE \/ ReadCharacteristics \/ ReadEntryPoint \/ ReadBaseAddr \/ ReadPageSize
              \/ ReadIdtRVA \/ ReadTlsAddr
    <3>1. \E at \in {22, 40, 52, 56, 128, 192} : \E bytes \in {2, 4} :
            \E errno \in Outcomes(HdrPos(at), bytes) : Note(errno)
      BY <2>11
         DEF ReadCharacteristics, ReadEntryPoint, ReadBaseAddr, ReadPageSize, ReadIdtRVA,
             ReadTlsAddr, ReadField, Proceed, PageAlignment, Tls
    <3>2. step # "hdrData"
      BY <2>11
         DEF ReadCharacteristics, ReadEntryPoint, ReadBaseAddr, ReadPageSize, ReadIdtRVA,
             ReadTlsAddr, ReadField, At
    <3>3. {22, 40, 52, 56, 128, 192} \subseteq 0 .. 280 /\ {2, 4} \subseteq 0 .. 8
      OBVIOUS
    <3> QED
      BY <2>1, <2>5, <2>7, <3>1, <3>2, <3>3 DEF Note
  <2>12. CASE ReadExports
    BY <2>1, <2>5, <2>7, <2>12 DEF ReadExports, At, Proceed, Note
  <2>13. CASE ReadTlsSize
    <3>1. OffsetRead
      BY <2>7, <2>13 DEF ReadTlsSize, At
    <3>2. HdrPos(Tls) = pho + 192
      BY <2>3, <3>1 DEF Tls
    <3>3. pho + 192 + 4 + 4 <= pe.len
      <4> HIDE DEF pho, count
      <4> QED
        BY <2>2
    <3>4. \A errno \in Outcomes(HdrPos(Tls) + 4, 4) : errno # "eof"
      BY <3>2, <3>3, NotAtEnd
    <3> QED
      BY <2>1, <2>13, <3>4 DEF ReadTlsSize, Note
  <2>14. CASE BeginSections
    BY <2>1, <2>5, <2>6, <2>7, <2>14 DEF BeginSections, At, Proceed, Note, SectionCount
  <2>15. CASE ReadSection
    <3>1. step = "section" /\ i <= peData.numberOfSections
      BY <2>15 DEF ReadSection, At
    <3>2. OffsetRead /\ CountRead /\ i \in Nat \ {0}
      BY <2>1, <3>1 DEF HdrKept, Read, PEHeaderTypeOK
    <3>3. FixedTable = pho + 248
      BY <2>3, <3>2 DEF FixedTable
    <3>4. FixedTable + (i - 1) * SizeofEntry + 8 + 32 <= pe.len
      <4>1. i <= count
        BY <3>1, <3>2 DEF CountRead
      <4> HIDE DEF pho, count
      <4> QED
        BY <2>2, <3>2, <3>3, <4>1 DEF SizeofEntry
    <3>5. \A errno \in Outcomes(FixedTable + (i - 1) * SizeofEntry + 8, 32) : errno # "eof"
      BY <3>4, NotAtEnd
    <3> QED
      BY <2>1, <2>15, <3>5 DEF ReadSection, Note
  <2>16. CASE BeginMapping
    BY <2>1, <2>16 DEF BeginMapping
  <2>17. CASE ReadSectionInfo
    <3>1. step = "sectionInfo" /\ i <= peData.numberOfSections
      BY <2>17 DEF ReadSectionInfo, At
    <3>2. SizeRead /\ CountRead /\ i \in Nat \ {0}
      BY <2>1, <3>1 DEF HdrKept, Read, PEHeaderTypeOK
    <3>3. peData.headerSize = pho + 1 + 24 + 224
      BY <2>2, <3>2 DEF SizeRead, SizeofCoff, Standard, StandardOptHdr
    <3>4. (peData.headerSize - 1) + (i - 1) * SizeofEntry + 8 + 16 <= pe.len
      <4>1. i <= count
        BY <3>1, <3>2 DEF CountRead
      <4> HIDE DEF pho, count
      <4> QED
        BY <2>2, <3>2, <3>3, <4>1 DEF SizeofEntry
    <3>5. \A errno \in Outcomes((peData.headerSize - 1) + (i - 1) * SizeofEntry + 8, 16) :
            errno # "eof"
      BY <3>4, NotAtEnd
    <3> QED
      BY <2>1, <2>17, <3>5 DEF ReadSectionInfo, Proceed, Note
  <2>18. CASE ReadHeaders
    <3>1. SizeRead /\ CountRead
      BY <2>1, <2>18 DEF ReadHeaders, At, HdrKept, Read
    <3>2. /\ peData.headerSize = pho + 1 + 24 + 224
          /\ peData.sectionTableSize = count * 40
      BY <2>2, <3>1 DEF SizeRead, CountRead, SizeofCoff, SizeofEntry, Standard, StandardOptHdr
    <3>3. 0 + totalHeader <= pe.len
      <4> HIDE DEF pho, count
      <4>1. /\ peData.headerSize + peData.sectionTableSize \in Nat
            /\ peData.headerSize + peData.sectionTableSize < Word
            /\ peData.headerSize + peData.sectionTableSize <= pe.len
        BY <2>2, <3>2, WordAssumption
      <4>2. totalHeader = peData.headerSize + peData.sectionTableSize
        BY <4>1, U32Plain DEF totalHeader
      <4> QED
        BY <4>1, <4>2
    <3>4. \A errno \in Outcomes(0, totalHeader) : errno # "eof"
      BY <3>3, NotAtEnd
    <3> QED
      BY <2>1, <2>18, <3>4 DEF ReadHeaders, Note
  <2> QED
    BY <1>4, <2>8, <2>9, <2>10, <2>11, <2>12, <2>13, <2>14, <2>15, <2>16, <2>17, <2>18
       DEF HdrNext
<1> QED
  BY <1>1, <1>2, <1>3, <1>4, NextSplit

(***************************************************************************)
(* No file that validatePE accepts ends before a read of getHdrData or     *)
(* mapPEToBasefile is through, if its optional header has the size they    *)
(* take it to have and a byte follows the section table.                   *)
(***************************************************************************)
THEOREM AcceptedIsReadable == Spec => []AcceptedCanBeRead
<1>1. Init => AcceptedCanBeRead
  BY DEF Init, AcceptedCanBeRead
<1>2. HeaderInv /\ AcceptedCanBeRead /\ [Next]_vars => AcceptedCanBeRead'
  BY NextCanBeRead
<1> QED
  BY <1>1, <1>2, HeaderInvariant, PTL DEF Spec

-----------------------------------------------------------------------------
(***************************************************************************)
(* The address translations.                                               *)
(***************************************************************************)

(***************************************************************************)
(* rvaToOffset finds every byte of raw data of a table in order, and       *)
(* offsetToRVA the address of every position in it.                        *)
(***************************************************************************)
THEOREM InverseTranslations == Spec => []TranslationsInverse
<1>1. PEHeaderTypeOK => TranslationsInverse
  <2> SUFFICES ASSUME PEHeaderTypeOK, LinkedTable, NEW s \in DOMAIN sections,
                      NEW o \in 0 .. sections[s].rawSize - 1
               PROVE  /\ o < sections[s].virtualSize =>
                           rvaToOffset(sections[s].rva + o, sections) = sections[s].offset + o
                      /\ offsetToRVA(sections[s].offset + o, sections) = sections[s].rva + o
    BY DEF TranslationsInverse
  <2>1. Len(sections) \in Nat /\ DOMAIN sections = 1 .. Len(sections)
    BY LenProperties DEF PEHeaderTypeOK, TablesType
  <2>2. ASSUME NEW t \in DOMAIN sections
        PROVE  /\ sections[t].rva \in Nat /\ sections[t].virtualSize \in Nat
               /\ sections[t].offset \in Nat /\ sections[t].rawSize \in Nat
    <3>1. sections[t] \in SectionRecords
      BY <2>1, ElementOfSeq DEF PEHeaderTypeOK, TablesType
    <3> QED
      BY <3>1, WordAssumption DEF SectionRecords
  <2>3. ASSUME NEW t \in DOMAIN sections
        PROVE  /\ sections[t].rva + sections[t].virtualSize <= EndOf(sections[t])
               /\ sections[t].rva + sections[t].rawSize <= EndOf(sections[t])
               /\ EndOf(sections[t]) \in Nat /\ EndOf(sections[t]) < Word
               /\ sections[t].offset + sections[t].rawSize < Word
    <3> DEFINE rva  == sections[t].rva
               virt == sections[t].virtualSize
               raw  == sections[t].rawSize
    <3>1. rva \in Nat /\ virt \in Nat /\ raw \in Nat
      BY <2>2
    <3>2. /\ EndOf(sections[t]) = IF virt > raw THEN rva + virt ELSE rva + raw
          /\ EndOf(sections[t]) < Word /\ sections[t].offset + sections[t].rawSize < Word
      BY DEF EndOf, LinkedTable
    <3> HIDE DEF rva, virt, raw
    <3>3. /\ rva + virt <= EndOf(sections[t]) /\ rva + raw <= EndOf(sections[t])
          /\ EndOf(sections[t]) \in Nat
      BY <3>1, <3>2
    <3> QED
      BY <3>2, <3>3 DEF rva, virt, raw
  <2>4. ASSUME NEW t \in DOMAIN sections, NEW u \in DOMAIN sections, t < u
        PROVE  /\ sections[t].rva + sections[t].rawSize <= sections[u].rva
               /\ sections[t].offset + sections[t].rawSize <= sections[u].offset
    <3> DEFINE end   == sections[t].rva + sections[t].rawSize
               start == sections[u].rva
    <3>1. /\ end <= EndOf(sections[t]) /\ EndOf(sections[t]) <= start
          /\ sections[t].offset + sections[t].rawSize <= sections[u].offset
      BY <2>3, <2>4 DEF LinkedTable
    <3>2. end \in Nat /\ start \in Nat /\ EndOf(sections[t]) \in Nat
      BY <2>2, <2>3
    <3> HIDE DEF end, start
    <3>3. end <= start
      BY <3>1, <3>2
    <3> QED
      BY <3>1, <3>3 DEF end, start
  <2>5. ASSUME NEW t \in DOMAIN sections
        PROVE  /\ sections[t].rva + sections[t].virtualSize < Word
               /\ sections[t].rva + sections[t].rawSize < Word
    <3> DEFINE inImage == sections[t].rva + sections[t].virtualSize
               inFile  == sections[t].rva + sections[t].rawSize
    <3>1. inImage \in Nat /\ inFile \in Nat
      BY <2>2
    <3>2. /\ inImage <= EndOf(sections[t]) /\ inFile <= EndOf(sections[t])
          /\ EndOf(sections[t]) \in Nat /\ EndOf(sections[t]) < Word
      BY <2>3
    <3> HIDE DEF inImage, inFile
    <3>3. inImage < Word /\ inFile < Word
      BY <3>1, <3>2, WordAssumption
    <3> QED
      BY <3>3 DEF inImage, inFile
  <2>6. Ascending(sections)
    BY <2>1, <2>2, <2>3, <2>4, <2>5 DEF Ascending
  <2> QED
    BY <2>6, RawDataTranslated
<1> QED
  BY <1>1, HeaderTypeCorrect, PTL
=============================================================================
