--------------------------- MODULE SynthXEXProofs ---------------------------
(***************************************************************************)
(* The heap and the open files, for any number of import tables and of     *)
(* options: freeing in any order, and every exit of main.                  *)
(***************************************************************************)
EXTENDS SynthXEX, TLAPS

-----------------------------------------------------------------------------
(***************************************************************************)
(* Pointers: all different, and what each lies in.                         *)
(***************************************************************************)
Field(p) == p[1]

LEMMA Fields ==
  /\ Field(Offsets) = "offsets" /\ Field(XexHeader) = "xexHeader"
  /\ Field(SecInfoHeader) = "secInfoHeader" /\ Field(PeData) = "peData"
  /\ Field(OptEntries) = "optHeaderEntries" /\ Field(OptHeaders) = "optHeaders"
  /\ Field(OptOffsets) = "offsets->optHeaders"
  /\ Field(Descriptors) = "secInfoHeader->descriptors"
  /\ Field(Sections) = "peData->sections.section"
  /\ Field(PeTables) = "peData->peImportInfo.tables"
  /\ Field(OptEntry) = "optHeaderEntries->optHeaderEntry"
  /\ Field(ImportTables) = "optHeaders->importLibraries.importTables"
  /\ Field(NameTable) = "optHeaders->importLibraries.nameTable"
  /\ Field(PePath) = "pePath" /\ Field(XexfilePath) = "xexfilePath"
  /\ Field(BasefilePath) = "basefilePath"
BY DEF Field, Ptr, Offsets, XexHeader, SecInfoHeader, PeData, OptEntries, OptHeaders, OptOffsets,
       Descriptors, Sections, PeTables, OptEntry, ImportTables, NameTable, PePath, XexfilePath,
       BasefilePath

LEMMA IndexedFields ==
  /\ \A p \in Names : Field(p) = "tables.name"
  /\ \A p \in AllImports : Field(p) = "tables.imports"
  /\ \A p \in AllAddresses : Field(p) = "importTables.addresses"
  /\ \A k : Field(Name(k)) = "tables.name" /\ Field(Imports(k)) = "tables.imports"
            /\ Field(Addresses(k)) = "importTables.addresses"
BY DEF Field, Names, AllImports, AllAddresses, Name, Imports, Addresses

LEMMA Indexed ==
  /\ \A k, m : /\ Name(k) = Name(m) => k = m
               /\ Imports(k) = Imports(m) => k = m
               /\ Addresses(k) = Addresses(m) => k = m
  /\ \A k \in Tables : /\ Name(k) \in Names
                        /\ Imports(k) \in AllImports
                        /\ Addresses(k) \in AllAddresses
  /\ \A p \in Names : \E k \in Tables : p = Name(k)
  /\ \A p \in AllImports : \E k \in Tables : p = Imports(k)
  /\ \A p \in AllAddresses : \E k \in Tables : p = Addresses(k)
BY DEF Names, AllImports, AllAddresses, Name, Imports, Addresses

LEMMA StringsAre == Strings = {PePath, XexfilePath, BasefilePath}
BY DEF Strings, PePath, XexfilePath, BasefilePath

LEMMA InsideOf ==
  /\ Inside(OptOffsets) = {Offsets}
  /\ Inside(Descriptors) = {SecInfoHeader}
  /\ Inside(Sections) = {PeData} /\ Inside(PeTables) = {PeData}
  /\ \A p \in Names \cup AllImports : Inside(p) = {PeTables, PeData}
  /\ Inside(OptEntry) = {OptEntries}
  /\ Inside(ImportTables) = {OptHeaders} /\ Inside(NameTable) = {OptHeaders}
  /\ \A p \in AllAddresses : Inside(p) = {ImportTables, OptHeaders}
  /\ \A p \in Structs \cup Strings : Inside(p) = {}
<1>1. Inside(OptOffsets) = {Offsets}
  BY Fields, IndexedFields DEF Inside
<1>2. Inside(Descriptors) = {SecInfoHeader}
  BY Fields, IndexedFields DEF Inside
<1>3. Inside(Sections) = {PeData} /\ Inside(PeTables) = {PeData}
  BY Fields, IndexedFields DEF Inside
<1>4. \A p \in Names \cup AllImports : Inside(p) = {PeTables, PeData}
  BY Fields, IndexedFields DEF Inside
<1>5. Inside(OptEntry) = {OptEntries}
  BY Fields, IndexedFields DEF Inside
<1>6. Inside(ImportTables) = {OptHeaders} /\ Inside(NameTable) = {OptHeaders}
  BY Fields, IndexedFields DEF Inside
<1>7. \A p \in AllAddresses : Inside(p) = {ImportTables, OptHeaders}
  BY Fields, IndexedFields DEF Inside
<1>8. \A p \in Structs \cup Strings : Inside(p) = {}
  BY Fields, IndexedFields, StringsAre DEF Inside, Structs
<1> QED
  BY <1>1, <1>2, <1>3, <1>4, <1>5, <1>6, <1>7, <1>8

LEMMA PointersAre ==
  /\ Structs \subseteq Pointers /\ Strings \subseteq Pointers
  /\ Names \subseteq Pointers /\ AllImports \subseteq Pointers /\ AllAddresses \subseteq Pointers
  /\ {OptOffsets, Descriptors, Sections, PeTables, OptEntry, ImportTables, NameTable}
       \subseteq Pointers
  /\ \A p \in Pointers : Inside(p) \subseteq Pointers
<1>1. \A p \in Pointers : Inside(p) \subseteq Pointers
  <2>1. SUFFICES ASSUME NEW p \in Pointers PROVE Inside(p) \subseteq Pointers
    OBVIOUS
  <2>2. {Offsets, SecInfoHeader, PeData, OptEntries, OptHeaders, PeTables, ImportTables}
          \subseteq Pointers
    BY DEF Pointers, Structs
  <2> QED
    BY <2>2, InsideOf DEF Pointers
<1> QED
  BY <1>1 DEF Pointers

-----------------------------------------------------------------------------
(***************************************************************************)
(* A heap in which nothing dangles: what a live pointer lies in is live.   *)
(***************************************************************************)
Live(h, p) == h.ptr[p] = "live"

Sound(h) ==
  /\ h = [ptr |-> h.ptr, lost |-> h.lost, fault |-> FALSE]
  /\ h.ptr \in [Pointers -> {"null", "live"}]
  /\ \A p \in Pointers : Live(h, p) => \A q \in Inside(p) : Live(h, q)

(* h without the pointers of S.                                            *)
Nulled(h, S) ==
  [ptr   |-> [p \in Pointers |-> IF p \in S THEN "null" ELSE h.ptr[p]],
   lost  |-> h.lost,
   fault |-> FALSE]

LEMMA AllocSound ==
  ASSUME NEW h, Sound(h), NEW S, S \subseteq Pointers,
         \A p \in S : \A q \in Inside(p) \ S : Live(h, q)
  PROVE  /\ Sound(Alloc(h, S))
         /\ \A p \in Pointers : Live(Alloc(h, S), p) <=> p \in S \/ Live(h, p)
         /\ Alloc(h, S).lost = h.lost \cup {p \in S : Live(h, p)}
<1> DEFINE g == Alloc(h, S)
<1>1. g = [ptr   |-> [p \in Pointers |-> IF p \in S THEN "live" ELSE h.ptr[p]],
           lost  |-> h.lost \cup {p \in S : h.ptr[p] = "live"},
           fault |-> h.fault \/ \E p \in S : \E q \in Inside(p) \ S : h.ptr[q] # "live"]
  BY DEF Alloc
<1>2. h.fault = FALSE
  BY DEF Sound
<1>3. (h.fault \/ \E p \in S : \E q \in Inside(p) \ S : h.ptr[q] # "live") = FALSE
  BY <1>2 DEF Live
<1>4. /\ g.ptr = [p \in Pointers |-> IF p \in S THEN "live" ELSE h.ptr[p]]
      /\ g.lost = h.lost \cup {p \in S : Live(h, p)}
      /\ g = [ptr |-> g.ptr, lost |-> g.lost, fault |-> FALSE]
  <2> DEFINE ptr  == [p \in Pointers |-> IF p \in S THEN "live" ELSE h.ptr[p]]
             lost == h.lost \cup {p \in S : h.ptr[p] = "live"}
  <2>1. g = [ptr |-> ptr, lost |-> lost, fault |-> FALSE]
    BY <1>1, <1>3, Zenon
  <2>2. lost = h.lost \cup {p \in S : Live(h, p)}
    BY DEF Live
  <2> HIDE DEF g, ptr, lost
  <2>3. g.ptr = ptr /\ g.lost = lost /\ g = [ptr |-> g.ptr, lost |-> g.lost, fault |-> FALSE]
    BY <2>1
  <2> QED
    BY <2>2, <2>3 DEF ptr
<1> HIDE DEF g
<1>5. \A p \in Pointers : Live(g, p) <=> p \in S \/ Live(h, p)
  BY <1>4 DEF Live
<1>6. g.ptr \in [Pointers -> {"null", "live"}]
  BY <1>4 DEF Sound
<1>7. ASSUME NEW p \in Pointers, Live(g, p), NEW q \in Inside(p) PROVE Live(g, q)
  <2>1. q \in Pointers
    BY PointersAre
  <2> QED
    BY <1>5, <1>7, <2>1 DEF Sound
<1>8. Sound(g)
  BY <1>4, <1>6, <1>7 DEF Sound
<1> QED
  BY <1>4, <1>5, <1>8 DEF g

LEMMA UseSound ==
  ASSUME NEW h, Sound(h), NEW S, S \subseteq Pointers, \A p \in S : Live(h, p)
  PROVE  Use(h, S) = h
<1>1. h.fault = FALSE
  BY DEF Sound
<1>2. ~\E p \in S : h.ptr[p] # "live" \/ ~Reachable(h, p)
  BY DEF Sound, Live, Reachable
<1>3. (h.fault \/ \E p \in S : h.ptr[p] # "live" \/ ~Reachable(h, p)) = FALSE
  BY <1>1, <1>2
<1>4. Use(h, S) = [h EXCEPT !.fault = FALSE]
  BY <1>3, Zenon DEF Use
<1>5. h = [ptr |-> h.ptr, lost |-> h.lost, fault |-> FALSE]
  BY DEF Sound
<1> QED
  BY <1>4, <1>5

LEMMA NullAndFreeSound ==
  ASSUME NEW h, Sound(h), NEW S, S \subseteq Pointers,
         \A p \in S : \A q \in Inside(p) : Live(h, q),
         \A p \in Pointers : Live(h, p) => Inside(p) \cap S = {}
  PROVE  nullAndFree(h, S) = Nulled(h, S) /\ Sound(Nulled(h, S))
<1> DEFINE freed  == {p \in S : h.ptr[p] # "null"}
           inside == {p \in Pointers : Inside(p) \cap freed # {}}
<1>1. nullAndFree(h, S) =
        [ptr   |-> [p \in Pointers |-> IF p \in inside THEN "null"
                                       ELSE IF p \in freed THEN "null" ELSE h.ptr[p]],
         lost  |-> h.lost \cup {p \in inside : h.ptr[p] = "live"},
         fault |-> h.fault \/ \E p \in S : h.ptr[p] = "dangling" \/ ~Reachable(h, p)]
  BY DEF nullAndFree, FreeAndLeave
<1>2. \A p \in Pointers : h.ptr[p] \in {"null", "live"}
  BY DEF Sound
<1>3. \A p \in inside : h.ptr[p] = "null"
  BY <1>2 DEF Live
<1>4. h.lost \cup {p \in inside : h.ptr[p] = "live"} = h.lost
  BY <1>3
<1>5. (h.fault \/ \E p \in S : h.ptr[p] = "dangling" \/ ~Reachable(h, p)) = FALSE
  BY <1>2 DEF Sound, Live, Reachable
<1>6. [p \in Pointers |-> IF p \in inside THEN "null"
                          ELSE IF p \in freed THEN "null" ELSE h.ptr[p]]
      = [p \in Pointers |-> IF p \in S THEN "null" ELSE h.ptr[p]]
  BY <1>3
<1>7. nullAndFree(h, S) = Nulled(h, S)
  <2> HIDE DEF inside, freed
  <2> QED
    BY <1>1, <1>4, <1>5, <1>6, Zenon DEF Nulled
<1> DEFINE g == Nulled(h, S)
<1>8. /\ g.ptr = [p \in Pointers |-> IF p \in S THEN "null" ELSE h.ptr[p]]
      /\ g = [ptr |-> g.ptr, lost |-> g.lost, fault |-> FALSE]
  BY DEF Nulled
<1> HIDE DEF g
<1>9. g.ptr \in [Pointers -> {"null", "live"}]
  BY <1>2, <1>8
<1>10. \A p \in Pointers : Live(g, p) <=> p \notin S /\ Live(h, p)
  BY <1>8 DEF Live
<1>11. ASSUME NEW p \in Pointers, Live(g, p), NEW q \in Inside(p) PROVE Live(g, q)
  <2>1. q \in Pointers /\ q \notin S /\ Live(h, q)
    BY <1>10, <1>11, PointersAre DEF Sound
  <2> QED
    BY <1>10, <2>1
<1>12. Sound(g)
  BY <1>8, <1>9, <1>11 DEF Sound
<1> QED
  BY <1>7, <1>12 DEF g

LEMMA NulledIs ==
  ASSUME NEW h, NEW S
  PROVE  /\ Nulled(h, S).lost = h.lost /\ Nulled(h, S).fault = FALSE
         /\ \A p \in Pointers : Nulled(h, S).ptr[p] = IF p \in S THEN "null" ELSE h.ptr[p]
         /\ \A p \in Pointers : Live(Nulled(h, S), p) <=> p \notin S /\ Live(h, p)
BY DEF Nulled, Live

LEMMA NulledTwice ==
  ASSUME NEW h, NEW S, NEW T
  PROVE  Nulled(Nulled(h, S), T) = Nulled(h, S \cup T)
<1>1. \A p \in Pointers : (IF p \in T THEN "null" ELSE Nulled(h, S).ptr[p])
                          = (IF p \in S \cup T THEN "null" ELSE h.ptr[p])
  <2>1. TAKE p \in Pointers
  <2>2. Nulled(h, S).ptr[p] = IF p \in S THEN "null" ELSE h.ptr[p]
    BY DEF Nulled
  <2> QED
    BY <2>2
<1>2. [p \in Pointers |-> IF p \in T THEN "null" ELSE Nulled(h, S).ptr[p]]
      = [p \in Pointers |-> IF p \in S \cup T THEN "null" ELSE h.ptr[p]]
  BY <1>1
<1> QED
  BY <1>2, NulledIs DEF Nulled

LEMMA NulledNothing ==
  ASSUME NEW h, Sound(h), NEW S, \A p \in S : ~Live(h, p)
  PROVE  Nulled(h, S) = h
<1>1. h.ptr = [p \in Pointers |-> IF p \in S THEN "null" ELSE h.ptr[p]]
  BY DEF Sound, Live
<1>2. h = [ptr |-> h.ptr, lost |-> h.lost, fault |-> FALSE]
  BY DEF Sound
<1> QED
  BY <1>1, <1>2 DEF Nulled

-----------------------------------------------------------------------------
(***************************************************************************)
(* Each function frees its structure and every array that hangs from it,   *)
(* and nothing else, whatever is there of them.                            *)
(***************************************************************************)
Frees(g, h, S) == g = Nulled(h, S) /\ Sound(g)

(* What is live in a sound heap, from the pointer to what it lies in.      *)
LEMMA SoundFacts ==
  ASSUME NEW h, Sound(h)
  PROVE  /\ Live(h, OptOffsets) => Live(h, Offsets)
         /\ Live(h, Descriptors) => Live(h, SecInfoHeader)
         /\ Live(h, Sections) => Live(h, PeData)
         /\ Live(h, PeTables) => Live(h, PeData)
         /\ \A p \in Names \cup AllImports : Live(h, p) => Live(h, PeTables) /\ Live(h, PeData)
         /\ Live(h, OptEntry) => Live(h, OptEntries)
         /\ Live(h, ImportTables) => Live(h, OptHeaders)
         /\ Live(h, NameTable) => Live(h, OptHeaders)
         /\ \A p \in AllAddresses : Live(h, p) => Live(h, ImportTables) /\ Live(h, OptHeaders)
         /\ \A p \in Pointers : h.ptr[p] = "null" <=> ~Live(h, p)
<1>1. \A p \in Pointers : h.ptr[p] = "null" <=> ~Live(h, p)
  BY DEF Sound, Live
<1> QED
  BY <1>1, InsideOf, PointersAre DEF Sound

(* What lies in what, for every pointer: nothing else lies in these.       *)
LEMMA LiesIn ==
  ASSUME NEW p \in Pointers
  PROVE  /\ Offsets \in Inside(p) => p = OptOffsets
         /\ SecInfoHeader \in Inside(p) => p = Descriptors
         /\ PeData \in Inside(p) => p \in {Sections, PeTables} \cup Names \cup AllImports
         /\ OptEntries \in Inside(p) => p = OptEntry
         /\ OptHeaders \in Inside(p) => p \in {ImportTables, NameTable} \cup AllAddresses
         /\ PeTables \in Inside(p) => p \in Names \cup AllImports
         /\ ImportTables \in Inside(p) => p \in AllAddresses
         /\ \A q \in Inside(p) : q \in {Offsets, SecInfoHeader, PeData, OptEntries, OptHeaders,
                                        PeTables, ImportTables}
BY InsideOf, Fields DEF Pointers

LEMMA FreeOne ==
  ASSUME NEW h, Sound(h), NEW p \in Pointers, \A q \in Inside(p) : Live(h, q),
         \A q \in Pointers : Live(h, q) => p \notin Inside(q)
  PROVE  Frees(nullAndFree(h, {p}), h, {p})
BY NullAndFreeSound DEF Frees

LEMMA FreesThen ==
  ASSUME NEW h, NEW S, NEW T, NEW g, NEW f, Frees(g, h, S), Frees(f, g, T)
  PROVE  Frees(f, h, S \cup T)
BY NulledTwice DEF Frees

LEMMA FreesNothing ==
  ASSUME NEW h, Sound(h), NEW S, \A p \in S : ~Live(h, p)
  PROVE  Frees(h, h, S)
BY NulledNothing DEF Frees

LEMMA FreesIs ==
  ASSUME NEW g, NEW h, NEW S, Frees(g, h, S)
  PROVE  /\ Sound(g) /\ g.lost = h.lost
         /\ \A p \in Pointers : Live(g, p) <=> p \notin S /\ Live(h, p)
BY NulledIs DEF Frees

LEMMA OffsetsFreed ==
  ASSUME NEW h, Sound(h)
  PROVE  Frees(freeOffsetsStruct(h), h, {Offsets, OptOffsets})
<1>1. CASE ~Live(h, Offsets)
  <2>1. h.ptr[Offsets] = "null" /\ ~Live(h, OptOffsets)
    BY <1>1, SoundFacts, PointersAre DEF Structs
  <2> QED
    BY <1>1, <2>1, FreesNothing DEF freeOffsetsStruct
<1>2. CASE Live(h, Offsets)
  <2> DEFINE g == nullAndFree(h, {OptOffsets})
  <2>1. Frees(g, h, {OptOffsets})
    BY <1>2, FreeOne, InsideOf, LiesIn, PointersAre, Fields
  <2> HIDE DEF g
  <2>2. Frees(nullAndFree(g, {Offsets}), g, {Offsets})
    BY <2>1, FreesIs, FreeOne, InsideOf, LiesIn, PointersAre DEF Structs
  <2>3. h.ptr[Offsets] # "null"
    BY <1>2 DEF Live
  <2>4. freeOffsetsStruct(h) = nullAndFree(g, {Offsets})
    BY <2>3 DEF freeOffsetsStruct, g
  <2>5. {OptOffsets} \cup {Offsets} = {Offsets, OptOffsets}
    OBVIOUS
  <2> QED
    BY <2>1, <2>2, <2>4, <2>5, FreesThen
<1> QED
  BY <1>1, <1>2

LEMMA XexHeaderFreed ==
  ASSUME NEW h, Sound(h)
  PROVE  Frees(freeXexHeaderStruct(h), h, {XexHeader})
BY FreeOne, InsideOf, LiesIn, PointersAre, Fields DEF Structs, freeXexHeaderStruct

LEMMA SectionsFreed ==
  ASSUME NEW h, Sound(h), Live(h, PeData)
  PROVE  Frees(freeSectionsStruct(h), h, {Sections})
BY FreeOne, InsideOf, LiesIn, PointersAre, Fields DEF freeSectionsStruct

LEMMA OptHeaderEntriesFreed ==
  ASSUME NEW h, Sound(h)
  PROVE  Frees(freeOptHeaderEntriesStruct(h), h, {OptEntries, OptEntry})
<1>1. CASE ~Live(h, OptEntries)
  <2>1. h.ptr[OptEntries] = "null" /\ ~Live(h, OptEntry)
    BY <1>1, SoundFacts, PointersAre DEF Structs
  <2> QED
    BY <1>1, <2>1, FreesNothing DEF freeOptHeaderEntriesStruct
<1>2. CASE Live(h, OptEntries)
  <2> DEFINE g == nullAndFree(h, {OptEntry})
  <2>1. Frees(g, h, {OptEntry})
    BY <1>2, FreeOne, InsideOf, LiesIn, PointersAre, Fields
  <2> HIDE DEF g
  <2>2. Frees(nullAndFree(g, {OptEntries}), g, {OptEntries})
    BY <2>1, FreesIs, FreeOne, InsideOf, LiesIn, PointersAre DEF Structs
  <2>3. h.ptr[OptEntries] # "null"
    BY <1>2 DEF Live
  <2>4. freeOptHeaderEntriesStruct(h) = nullAndFree(g, {OptEntries})
    BY <2>3 DEF freeOptHeaderEntriesStruct, g
  <2>5. {OptEntry} \cup {OptEntries} = {OptEntries, OptEntry}
    OBVIOUS
  <2> QED
    BY <2>1, <2>2, <2>4, <2>5, FreesThen
<1> QED
  BY <1>1, <1>2

(***************************************************************************)
(* A copy of a pointer is freed: the pointer itself dangles, until the     *)
(* structure it lies in goes as well.                                      *)
(***************************************************************************)
Dangles(g, h, p, S) ==
  /\ g = [ptr |-> g.ptr, lost |-> h.lost, fault |-> FALSE]
  /\ g.ptr = [q \in Pointers |-> IF q = p THEN g.ptr[p]
                                 ELSE IF q \in S THEN "null" ELSE h.ptr[q]]
  /\ g.ptr[p] \in {"null", "dangling"}

LEMMA NulledSound ==
  ASSUME NEW h, Sound(h), NEW S,
         \A q \in Pointers : Live(h, q) /\ q \notin S => Inside(q) \cap S = {}
  PROVE  Sound(Nulled(h, S))
<1> DEFINE g == Nulled(h, S)
<1>1. /\ g.ptr = [p \in Pointers |-> IF p \in S THEN "null" ELSE h.ptr[p]]
      /\ g = [ptr |-> g.ptr, lost |-> g.lost, fault |-> FALSE]
  BY DEF Nulled
<1> HIDE DEF g
<1>2. g.ptr \in [Pointers -> {"null", "live"}]
  BY <1>1 DEF Sound
<1>3. \A p \in Pointers : Live(g, p) <=> p \notin S /\ Live(h, p)
  BY <1>1 DEF Live
<1>4. ASSUME NEW p \in Pointers, Live(g, p), NEW q \in Inside(p) PROVE Live(g, q)
  <2>1. q \in Pointers /\ q \notin S /\ Live(h, q)
    BY <1>3, <1>4, PointersAre DEF Sound
  <2> QED
    BY <1>3, <2>1
<1>5. Sound(g)
  BY <1>1, <1>2, <1>4 DEF Sound
<1> QED
  BY <1>5 DEF g

LEMMA FreeGives ==
  ASSUME NEW h, h = [ptr |-> h.ptr, lost |-> h.lost, fault |-> FALSE],
         NEW S, S \subseteq Pointers, NEW left,
         \A p \in S : h.ptr[p] # "dangling" /\ Reachable(h, p),
         \A p \in Pointers : h.ptr[p] = "live" => Inside(p) \cap S = {}
  PROVE  LET g      == FreeAndLeave(h, S, left)
             freed  == {p \in S : h.ptr[p] # "null"}
             inside == {p \in Pointers : Inside(p) \cap freed # {}}
         IN  /\ g.ptr = [p \in Pointers |-> IF p \in inside THEN "null"
                                            ELSE IF p \in freed THEN left ELSE h.ptr[p]]
             /\ g = [ptr |-> g.ptr, lost |-> h.lost, fault |-> FALSE]
<1> DEFINE g      == FreeAndLeave(h, S, left)
           freed  == {p \in S : h.ptr[p] # "null"}
           inside == {p \in Pointers : Inside(p) \cap freed # {}}
           ptr    == [p \in Pointers |-> IF p \in inside THEN "null"
                                         ELSE IF p \in freed THEN left ELSE h.ptr[p]]
<1>1. g = [ptr   |-> ptr,
           lost  |-> h.lost \cup {p \in inside : h.ptr[p] = "live"},
           fault |-> h.fault \/ \E p \in S : h.ptr[p] = "dangling" \/ ~Reachable(h, p)]
  BY DEF FreeAndLeave
<1>2. h.lost \cup {p \in inside : h.ptr[p] = "live"} = h.lost
  OBVIOUS
<1>3. h.fault = FALSE
  OBVIOUS
<1>4. (h.fault \/ \E p \in S : h.ptr[p] = "dangling" \/ ~Reachable(h, p)) = FALSE
  BY <1>3
<1> HIDE DEF ptr, inside, freed, g
<1>5. g = [ptr |-> ptr, lost |-> h.lost, fault |-> FALSE]
  BY <1>1, <1>2, <1>4, Zenon
<1>6. g.ptr = ptr
  BY <1>5
<1> QED
  BY <1>5, <1>6 DEF g, ptr, inside, freed

LEMMA CopyFreed ==
  ASSUME NEW h, Sound(h), NEW p \in Pointers, \A q \in Inside(p) : Live(h, q),
         \A q \in Pointers : p \notin Inside(q)
  PROVE  Dangles(FreeCopy(h, {p}), h, p, {})
<1> DEFINE g      == FreeCopy(h, {p})
           freed  == {q \in {p} : h.ptr[q] # "null"}
           inside == {q \in Pointers : Inside(q) \cap freed # {}}
<1>1. h = [ptr |-> h.ptr, lost |-> h.lost, fault |-> FALSE] /\ h.ptr[p] \in {"null", "live"}
  BY DEF Sound
<1>2. h.ptr[p] # "dangling" /\ Reachable(h, p)
  BY <1>1 DEF Reachable, Live
<1>3. /\ g.ptr = [q \in Pointers |-> IF q \in inside THEN "null"
                                     ELSE IF q \in freed THEN "dangling" ELSE h.ptr[q]]
      /\ g = [ptr |-> g.ptr, lost |-> h.lost, fault |-> FALSE]
  <2> DEFINE S == {p}
  <2>1. /\ S \subseteq Pointers
        /\ \A q \in S : h.ptr[q] # "dangling" /\ Reachable(h, q)
        /\ \A q \in Pointers : h.ptr[q] = "live" => Inside(q) \cap S = {}
    BY <1>2
  <2>2. g = FreeAndLeave(h, S, "dangling") /\ freed = {q \in S : h.ptr[q] # "null"}
    BY DEF FreeCopy
  <2> HIDE DEF S, g
  <2>3. LET frees   == {q \in S : h.ptr[q] # "null"}
            insides == {q \in Pointers : Inside(q) \cap frees # {}}
            f       == FreeAndLeave(h, S, "dangling")
        IN  /\ f.ptr = [q \in Pointers |-> IF q \in insides THEN "null"
                                           ELSE IF q \in frees THEN "dangling" ELSE h.ptr[q]]
            /\ f = [ptr |-> f.ptr, lost |-> h.lost, fault |-> FALSE]
    BY <1>1, <2>1, FreeGives
  <2> QED
    BY <2>2, <2>3 DEF S
<1>4. inside = {} /\ \A q : q \in freed <=> q = p /\ h.ptr[p] # "null"
  OBVIOUS
<1> HIDE DEF g, inside, freed
<1>5. g.ptr = [q \in Pointers |-> IF q = p /\ h.ptr[p] # "null" THEN "dangling" ELSE h.ptr[q]]
  BY <1>3, <1>4
<1>6. g.ptr[p] \in {"null", "dangling"}
  BY <1>1, <1>5
<1>7. g.ptr = [q \in Pointers |-> IF q = p THEN g.ptr[p]
                                 ELSE IF q \in {} THEN "null" ELSE h.ptr[q]]
  BY <1>5
<1> QED
  BY <1>3, <1>6, <1>7 DEF Dangles, g

LEMMA DanglingFree ==
  ASSUME NEW h, Sound(h), NEW p \in Pointers, NEW g, NEW S, Dangles(g, h, p, S),
         NEW T, T \subseteq Pointers, p \notin T,
         \A q \in T : \A r \in Inside(q) : Live(h, r) /\ r \notin S /\ r # p,
         \A q \in Pointers : Live(h, q) /\ q \notin S /\ q # p => Inside(q) \cap T = {}
  PROVE  Dangles(nullAndFree(g, T), h, p, S \cup T)
<1> DEFINE f      == nullAndFree(g, T)
           freed  == {q \in T : g.ptr[q] # "null"}
           inside == {q \in Pointers : Inside(q) \cap freed # {}}
<1>1. \A q \in Pointers : h.ptr[q] \in {"null", "live"}
  BY DEF Sound
<1>2. g.ptr = [q \in Pointers |-> IF q = p THEN g.ptr[p]
                                  ELSE IF q \in S THEN "null" ELSE h.ptr[q]]
  BY DEF Dangles
<1>3. /\ \A q \in Pointers : q # p => g.ptr[q] = IF q \in S THEN "null" ELSE h.ptr[q]
      /\ g.ptr[p] \in {"null", "dangling"}
  BY <1>2 DEF Dangles
<1>4. g = [ptr |-> g.ptr, lost |-> g.lost, fault |-> FALSE] /\ g.lost = h.lost
  BY DEF Dangles
<1>5. \A q \in T : g.ptr[q] # "dangling" /\ Reachable(g, q)
  <2>1. TAKE q \in T
  <2>2. g.ptr[q] # "dangling"
    BY <1>1, <1>3
  <2>3. \A r \in Inside(q) : g.ptr[r] = "live"
    BY <1>3, PointersAre DEF Live
  <2> QED
    BY <2>2, <2>3 DEF Reachable
<1>6. \A q \in Pointers : g.ptr[q] = "live" => Inside(q) \cap T = {}
  BY <1>3 DEF Live
<1>7. /\ f.ptr = [q \in Pointers |-> IF q \in inside THEN "null"
                                     ELSE IF q \in freed THEN "null" ELSE g.ptr[q]]
      /\ f = [ptr |-> f.ptr, lost |-> g.lost, fault |-> FALSE]
  BY <1>4, <1>5, <1>6, FreeGives DEF nullAndFree
<1>8. \A q \in Pointers : q # p =>
        f.ptr[q] = IF q \in S \cup T THEN "null" ELSE h.ptr[q]
  <2>1. TAKE q \in Pointers
  <2>2. SUFFICES ASSUME q # p PROVE f.ptr[q] = IF q \in S \cup T THEN "null" ELSE h.ptr[q]
    OBVIOUS
  <2>3. f.ptr[q] = IF q \in inside \/ q \in freed THEN "null" ELSE g.ptr[q]
    <3> HIDE DEF f, inside, freed
    <3> QED
      BY <1>7
  <2>4. CASE q \in inside
    <3>1. ~Live(h, q) \/ q \in S
      BY <2>2, <2>4
    <3> QED
      BY <1>1, <2>3, <2>4, <3>1 DEF Live
  <2>5. CASE q \notin inside
    BY <1>3, <2>2, <2>3, <2>5
  <2> QED
    BY <2>4, <2>5
<1>9. f.ptr[p] \in {"null", "dangling"}
  <2> HIDE DEF f, inside, freed
  <2> QED
    BY <1>3, <1>7
<1>10. DOMAIN f.ptr = Pointers /\ f.ptr = [q \in Pointers |-> f.ptr[q]]
  <2> HIDE DEF f, inside, freed
  <2> QED
    BY <1>7
<1>11. f.ptr = [q \in Pointers |-> IF q = p THEN f.ptr[p]
                                   ELSE IF q \in S \cup T THEN "null" ELSE h.ptr[q]]
  <2> HIDE DEF f, inside, freed
  <2> QED
    BY <1>8, <1>10
<1> QED
  BY <1>4, <1>7, <1>9, <1>11 DEF Dangles

(* The structure s goes, with the pointer that dangles in it.              *)
LEMMA DanglingGone ==
  ASSUME NEW h, Sound(h), NEW p \in Pointers, NEW g, NEW S, Dangles(g, h, p, S),
         NEW s \in Pointers, s # p, s \notin S, Live(h, s), Inside(s) = {}, s \in Inside(p),
         \A q \in Pointers : Live(h, q) /\ q \notin S /\ q # p => s \notin Inside(q),
         \A q \in Pointers : Live(h, q) /\ q \notin S \cup {s, p} =>
           Inside(q) \cap (S \cup {s, p}) = {}
  PROVE  Frees(nullAndFree(g, {s}), h, S \cup {s, p})
<1> DEFINE f      == nullAndFree(g, {s})
           freed  == {q \in {s} : g.ptr[q] # "null"}
           inside == {q \in Pointers : Inside(q) \cap freed # {}}
           X      == S \cup {s, p}
<1>1. Dangles(f, h, p, S \cup {s})
  BY DanglingFree
<1>2. g.ptr[s] = "live"
  BY DEF Dangles, Live
<1>3. f.ptr[p] = "null"
  <2>1. f.ptr = [q \in Pointers |-> IF q \in inside THEN "null"
                                    ELSE IF q \in freed THEN "null" ELSE g.ptr[q]]
    BY DEF nullAndFree, FreeAndLeave
  <2>2. p \in inside
    BY <1>2
  <2> HIDE DEF f, inside, freed
  <2> QED
    BY <2>1, <2>2
<1> HIDE DEF f
<1>4. f.ptr = [q \in Pointers |-> IF q \in X THEN "null" ELSE h.ptr[q]]
  BY <1>1, <1>3 DEF Dangles
<1>5. f = [ptr |-> f.ptr, lost |-> h.lost, fault |-> FALSE]
  BY <1>1 DEF Dangles
<1>6. f = Nulled(h, X)
  BY <1>4, <1>5 DEF Nulled
<1>7. Sound(Nulled(h, X))
  BY NulledSound
<1> QED
  BY <1>6, <1>7 DEF Frees, f

LEMMA FreesMore ==
  ASSUME NEW h, Sound(h), NEW g, NEW S, Frees(g, h, S), NEW T, \A p \in T : ~Live(h, p)
  PROVE  Frees(g, h, S \cup T)
<1>1. [p \in Pointers |-> IF p \in S \cup T THEN "null" ELSE h.ptr[p]]
      = [p \in Pointers |-> IF p \in S THEN "null" ELSE h.ptr[p]]
  BY DEF Sound, Live
<1>2. Nulled(h, S \cup T) = Nulled(h, S)
  BY <1>1 DEF Nulled
<1> QED
  BY <1>2 DEF Frees

LEMMA SecInfoHeaderFreed ==
  ASSUME NEW h, Sound(h)
  PROVE  Frees(freeSecInfoHeaderStruct(h), h, {SecInfoHeader, Descriptors})
<1>1. CASE ~Live(h, SecInfoHeader)
  <2>1. h.ptr[SecInfoHeader] = "null" /\ ~Live(h, Descriptors)
    BY <1>1, SoundFacts, PointersAre DEF Structs
  <2> QED
    BY <1>1, <2>1, FreesNothing DEF freeSecInfoHeaderStruct
<1>2. CASE Live(h, SecInfoHeader)
  <2> DEFINE g == FreeCopy(h, {Descriptors})
  <2>1. Descriptors \in Pointers /\ SecInfoHeader \in Pointers /\ SecInfoHeader # Descriptors
    BY PointersAre, Fields DEF Structs
  <2>2. Inside(SecInfoHeader) = {} /\ SecInfoHeader \in Inside(Descriptors)
    BY InsideOf DEF Structs
  <2>3. \A q \in Pointers : /\ Descriptors \notin Inside(q)
                            /\ SecInfoHeader \in Inside(q) => q = Descriptors
    BY LiesIn, Fields
  <2>4. Dangles(g, h, Descriptors, {})
    BY <1>2, <2>1, <2>3, CopyFreed, InsideOf
  <2> HIDE DEF g
  <2>5. Frees(nullAndFree(g, {SecInfoHeader}), h, {} \cup {SecInfoHeader, Descriptors})
    BY <1>2, <2>1, <2>2, <2>3, <2>4, DanglingGone
  <2>6. h.ptr[SecInfoHeader] # "null"
    BY <1>2 DEF Live
  <2>7. freeSecInfoHeaderStruct(h) = nullAndFree(g, {SecInfoHeader})
    BY <2>6 DEF freeSecInfoHeaderStruct, g
  <2>8. {} \cup {SecInfoHeader, Descriptors} = {SecInfoHeader, Descriptors}
    OBVIOUS
  <2> QED
    BY <2>5, <2>7, <2>8
<1> QED
  BY <1>1, <1>2

LEMMA PeImportInfoFreed ==
  ASSUME NEW h, Sound(h), Live(h, PeData)
  PROVE  Frees(freePeImportInfoStruct(h), h, {PeTables} \cup Names \cup AllImports)
<1> DEFINE N == Names \cup AllImports
<1>1. /\ N \subseteq Pointers /\ PeTables \in Pointers /\ PeData \in Pointers
      /\ \A p \in N : Inside(p) = {PeTables, PeData}
      /\ Inside(PeTables) = {PeData}
  BY PointersAre, InsideOf DEF Structs
<1>2. \A q \in Pointers : /\ Inside(q) \cap N = {}
                          /\ PeTables \in Inside(q) => q \in N
  BY LiesIn, Fields, IndexedFields
<1>3. h.ptr[PeTables] = "null" <=> ~Live(h, PeTables)
  BY <1>1, SoundFacts
<1>4. CASE ~Live(h, PeTables)
  <2>1. \A p \in N : ~Live(h, p)
    BY <1>4, SoundFacts
  <2>2. freePeImportInfoStruct(h) = Use(h, {PeData})
    BY <1>3, <1>4 DEF freePeImportInfoStruct
  <2>3. Use(h, {PeData}) = h
    BY <1>1, UseSound
  <2>4. \A p \in {PeTables} \cup Names \cup AllImports : ~Live(h, p)
    BY <1>4, <2>1
  <2> QED
    BY <2>2, <2>3, <2>4, FreesNothing
<1>5. CASE Live(h, PeTables)
  <2> DEFINE g == nullAndFree(h, N)
  <2>1. /\ \A p \in N : \A q \in Inside(p) : Live(h, q)
        /\ \A p \in Pointers : Live(h, p) => Inside(p) \cap N = {}
    BY <1>1, <1>2, <1>5
  <2>2. Frees(g, h, N)
    <3> HIDE DEF N
    <3> QED
      BY <1>1, <2>1, NullAndFreeSound DEF Frees
  <2>3. freePeImportInfoStruct(h) = nullAndFree(g, {PeTables})
    BY <1>3, <1>5 DEF freePeImportInfoStruct
  <2>4. PeTables \notin N /\ PeData \notin N
    BY Fields, IndexedFields
  <2> HIDE DEF g, N
  <2>5. /\ Sound(g) /\ \A q \in Inside(PeTables) : Live(g, q)
        /\ \A q \in Pointers : Live(g, q) => PeTables \notin Inside(q)
    BY <1>1, <1>2, <2>2, <2>4, FreesIs
  <2>6. Frees(nullAndFree(g, {PeTables}), g, {PeTables})
    BY <1>1, <2>5, FreeOne
  <2>7. Frees(nullAndFree(g, {PeTables}), h, N \cup {PeTables})
    BY <2>2, <2>6, FreesThen
  <2>8. N \cup {PeTables} = {PeTables} \cup Names \cup AllImports
    BY DEF N
  <2> QED
    BY <2>3, <2>7, <2>8
<1> QED
  BY <1>4, <1>5

PeBlocks == {PeData, Sections, PeTables} \cup Names \cup AllImports

LEMMA PeDataFreed ==
  ASSUME NEW h, Sound(h)
  PROVE  Frees(freePeDataStruct(h), h, PeBlocks)
<1>1. PeData \in Pointers /\ Inside(PeData) = {}
  BY PointersAre, InsideOf DEF Structs
<1>2. h.ptr[PeData] = "null" <=> ~Live(h, PeData)
  BY <1>1, SoundFacts
<1>3. CASE ~Live(h, PeData)
  <2>1. \A p \in PeBlocks : ~Live(h, p)
    BY <1>3, SoundFacts DEF PeBlocks
  <2> QED
    BY <1>2, <1>3, <2>1, FreesNothing DEF freePeDataStruct
<1>4. CASE Live(h, PeData)
  <2> DEFINE g == freeSectionsStruct(h)
             f == freePeImportInfoStruct(g)
             N == {PeTables} \cup Names \cup AllImports
  <2>1. Frees(g, h, {Sections})
    BY <1>4, SectionsFreed
  <2>2. freePeDataStruct(h) = nullAndFree(f, {PeData})
    BY <1>2, <1>4 DEF freePeDataStruct
  <2> HIDE DEF g
  <2>3. Sound(g) /\ Live(g, PeData)
    BY <1>1, <1>4, <2>1, FreesIs, Fields
  <2>4. Frees(f, g, N)
    BY <2>3, PeImportInfoFreed
  <2> HIDE DEF f
  <2>5. /\ Sound(f)
        /\ \A q \in Pointers : Live(f, q) => PeData \notin Inside(q)
    <3>1. \A q \in Pointers : PeData \in Inside(q) => q = Sections \/ q \in N
      BY LiesIn
    <3> HIDE DEF N
    <3> QED
      BY <2>1, <2>4, <3>1, FreesIs
  <2>6. Frees(nullAndFree(f, {PeData}), f, {PeData})
    BY <1>1, <2>5, FreeOne
  <2>7. Frees(nullAndFree(f, {PeData}), h, ({Sections} \cup N) \cup {PeData})
    <3> HIDE DEF N
    <3> QED
      BY <2>1, <2>4, <2>6, FreesThen
  <2>8. ({Sections} \cup N) \cup {PeData} = PeBlocks
    BY DEF PeBlocks
  <2> QED
    BY <2>2, <2>7, <2>8
<1> QED
  BY <1>3, <1>4

LibraryBlocks == {OptHeaders, ImportTables, NameTable} \cup AllAddresses

LEMMA OptHeadersFreed ==
  ASSUME NEW h, Sound(h)
  PROVE  Frees(freeOptHeadersStruct(h), h, LibraryBlocks)
<1>1. /\ OptHeaders \in Pointers /\ ImportTables \in Pointers /\ NameTable \in Pointers
      /\ AllAddresses \subseteq Pointers
      /\ Inside(OptHeaders) = {} /\ OptHeaders \in Inside(NameTable)
      /\ Inside(ImportTables) = {OptHeaders} /\ Inside(NameTable) = {OptHeaders}
      /\ \A p \in AllAddresses : Inside(p) = {ImportTables, OptHeaders}
  BY PointersAre, InsideOf DEF Structs
<1>2. /\ OptHeaders # NameTable /\ ImportTables # NameTable /\ NameTable \notin AllAddresses
      /\ OptHeaders # ImportTables /\ OptHeaders \notin AllAddresses
      /\ ImportTables \notin AllAddresses
  BY Fields, IndexedFields
<1>3. \A q \in Pointers : /\ OptHeaders \in Inside(q) =>
                               q \in {ImportTables, NameTable} \cup AllAddresses
                          /\ ImportTables \in Inside(q) => q \in AllAddresses
                          /\ NameTable \notin Inside(q)
                          /\ Inside(q) \cap AllAddresses = {}
  BY LiesIn, Fields, IndexedFields
<1>4. /\ h.ptr[OptHeaders] = "null" <=> ~Live(h, OptHeaders)
      /\ h.ptr[ImportTables] = "null" <=> ~Live(h, ImportTables)
  BY <1>1, SoundFacts
<1>5. CASE ~Live(h, OptHeaders)
  <2>1. \A p \in LibraryBlocks : ~Live(h, p)
    BY <1>5, SoundFacts DEF LibraryBlocks
  <2> QED
    BY <1>4, <1>5, <2>1, FreesNothing DEF freeOptHeadersStruct
<1>6. CASE Live(h, OptHeaders)
  <2> DEFINE named == FreeCopy(h, {NameTable})
             g     == freeImportLibrariesStruct(h)
  <2>1. freeOptHeadersStruct(h) = nullAndFree(g, {OptHeaders})
    BY <1>4, <1>6 DEF freeOptHeadersStruct
  <2>2. Dangles(named, h, NameTable, {})
    BY <1>1, <1>3, <1>6, CopyFreed
  <2> DEFINE f == nullAndFree(named, AllAddresses)
  <2>3. g = IF h.ptr[ImportTables] = "null" THEN named ELSE nullAndFree(f, {ImportTables})
    BY DEF freeImportLibrariesStruct
  <2> HIDE DEF named, g, f
  <2>4. CASE ~Live(h, ImportTables)
    <3>1. \A p \in {ImportTables} \cup AllAddresses : ~Live(h, p)
      BY <2>4, SoundFacts
    <3>3. g = named
      BY <1>4, <2>3, <2>4
    <3>4. \A q \in Pointers : Live(h, q) /\ q # NameTable => OptHeaders \notin Inside(q)
      BY <1>3, <3>1
    <3>5. \A q \in Pointers : Live(h, q) =>
            NameTable \notin Inside(q) /\ (q # NameTable => OptHeaders \notin Inside(q))
      BY <1>3, <3>4
    <3>6. Frees(nullAndFree(named, {OptHeaders}), h, {} \cup {OptHeaders, NameTable})
      BY <1>1, <1>2, <1>6, <2>2, <3>4, <3>5, DanglingGone
    <3>7. Frees(nullAndFree(named, {OptHeaders}), h,
                ({} \cup {OptHeaders, NameTable}) \cup ({ImportTables} \cup AllAddresses))
      BY <3>1, <3>6, FreesMore
    <3>8. ({} \cup {OptHeaders, NameTable}) \cup ({ImportTables} \cup AllAddresses) = LibraryBlocks
      BY DEF LibraryBlocks
    <3> QED
      BY <2>1, <3>3, <3>7, <3>8
  <2>5. CASE Live(h, ImportTables)
    <3> DEFINE X == ({} \cup AllAddresses) \cup {ImportTables}
    <3>2. g = nullAndFree(f, {ImportTables})
      BY <1>4, <2>3, <2>5
    <3>3. Dangles(f, h, NameTable, {} \cup AllAddresses)
      <4>1. \A q \in AllAddresses : \A r \in Inside(q) : Live(h, r) /\ r \notin {} /\ r # NameTable
        BY <1>1, <1>2, <1>6, <2>5
      <4>2. \A q \in Pointers : Live(h, q) /\ q \notin {} /\ q # NameTable =>
              Inside(q) \cap AllAddresses = {}
        BY <1>3
      <4> QED
        BY <1>1, <1>2, <2>2, <4>1, <4>2, DanglingFree DEF f
    <3>4. Dangles(nullAndFree(f, {ImportTables}), h, NameTable, X)
      <4>1. \A q \in {ImportTables} : \A r \in Inside(q) :
              Live(h, r) /\ r \notin {} \cup AllAddresses /\ r # NameTable
        BY <1>1, <1>2, <1>6
      <4>2. \A q \in Pointers : Live(h, q) /\ q \notin {} \cup AllAddresses /\ q # NameTable =>
              Inside(q) \cap {ImportTables} = {}
        BY <1>3
      <4>3. {ImportTables} \subseteq Pointers /\ NameTable \notin {ImportTables}
        BY <1>1, <1>2
      <4> QED
        BY <1>1, <3>3, <4>1, <4>2, <4>3, DanglingFree
    <3>5. /\ OptHeaders \notin X
          /\ \A q \in Pointers : Live(h, q) /\ q \notin X /\ q # NameTable =>
               OptHeaders \notin Inside(q)
          /\ \A q \in Pointers : Live(h, q) /\ q \notin X \cup {OptHeaders, NameTable} =>
               Inside(q) \cap (X \cup {OptHeaders, NameTable}) = {}
      BY <1>2, <1>3
    <3>6. X \cup {OptHeaders, NameTable} = LibraryBlocks
      BY DEF LibraryBlocks
    <3> HIDE DEF X
    <3>7. Frees(nullAndFree(g, {OptHeaders}), h, X \cup {OptHeaders, NameTable})
      BY <1>1, <1>2, <1>6, <3>2, <3>4, <3>5, DanglingGone
    <3> QED
      BY <2>1, <3>6, <3>7
  <2> QED
    BY <2>4, <2>5
<1> QED
  BY <1>5, <1>6

(* freeAllMainStructs frees all but the strings, whatever is there.        *)
LEMMA AllFreed ==
  ASSUME NEW h, Sound(h)
  PROVE  Frees(freeAllMainStructs(h), h, Pointers \ Strings)
<1> DEFINE a == freeOffsetsStruct(h)
           b == freeXexHeaderStruct(a)
           c == freeSecInfoHeaderStruct(b)
           d == freePeDataStruct(c)
           e == freeOptHeaderEntriesStruct(d)
           f == freeOptHeadersStruct(e)
           A == {Offsets, OptOffsets}
           B == A \cup {XexHeader}
           C == B \cup {SecInfoHeader, Descriptors}
           D == C \cup PeBlocks
           E == D \cup {OptEntries, OptEntry}
           F == E \cup LibraryBlocks
<1>1. freeAllMainStructs(h) = f
  BY DEF freeAllMainStructs
<1>2. F = Pointers \ Strings
  BY StringsAre, Fields, IndexedFields DEF Pointers, Structs, PeBlocks, LibraryBlocks
<1> HIDE DEF F
<1>3. Frees(a, h, A)
  BY OffsetsFreed
<1> HIDE DEF a
<1>4. Frees(b, a, {XexHeader})
  BY <1>3, XexHeaderFreed DEF Frees
<1> HIDE DEF b
<1>5. Frees(c, b, {SecInfoHeader, Descriptors})
  BY <1>4, SecInfoHeaderFreed DEF Frees
<1> HIDE DEF c
<1>6. Frees(d, c, PeBlocks)
  BY <1>5, PeDataFreed DEF Frees
<1> HIDE DEF d
<1>7. Frees(e, d, {OptEntries, OptEntry})
  BY <1>6, OptHeaderEntriesFreed DEF Frees
<1> HIDE DEF e
<1>8. Frees(f, e, LibraryBlocks)
  BY <1>7, OptHeadersFreed DEF Frees
<1> HIDE DEF f
<1>9. Frees(b, h, B)
  BY <1>3, <1>4, FreesThen
<1>10. Frees(c, h, C)
  BY <1>5, <1>9, FreesThen
<1>11. Frees(d, h, D)
  BY <1>6, <1>10, FreesThen
<1>12. Frees(e, h, E)
  BY <1>7, <1>11, FreesThen
<1>13. Frees(f, h, F)
  <2>1. Frees(f, h, E \cup LibraryBlocks)
    BY <1>8, <1>12, FreesThen
  <2> QED
    BY <2>1 DEF F
<1> QED
  BY <1>1, <1>2, <1>13

(* Alone it may free what optHeaders leads to only without a name table:   *)
(* then the copy it frees is NULL.                                         *)
LEMMA ImportLibrariesFreed ==
  ASSUME NEW h, Sound(h), Live(h, OptHeaders), ~Live(h, NameTable)
  PROVE  Frees(freeImportLibrariesStruct(h), h, {ImportTables, NameTable} \cup AllAddresses)
<1>1. /\ OptHeaders \in Pointers /\ ImportTables \in Pointers /\ NameTable \in Pointers
      /\ AllAddresses \subseteq Pointers
      /\ Inside(ImportTables) = {OptHeaders} /\ Inside(NameTable) = {OptHeaders}
      /\ \A p \in AllAddresses : Inside(p) = {ImportTables, OptHeaders}
  BY PointersAre, InsideOf DEF Structs
<1>2. OptHeaders \notin AllAddresses /\ ImportTables \notin AllAddresses
  BY Fields, IndexedFields
<1>3. \A q \in Pointers : /\ ImportTables \in Inside(q) => q \in AllAddresses
                          /\ Inside(q) \cap AllAddresses = {}
  BY LiesIn, Fields, IndexedFields
<1>4. /\ h.ptr[ImportTables] = "null" <=> ~Live(h, ImportTables)
      /\ h.ptr[NameTable] = "null"
  BY <1>1, SoundFacts
<1>5. FreeCopy(h, {NameTable}) = h
  <2>1. {p \in {NameTable} : h.ptr[p] # "null"} = {}
    BY <1>4
  <2>2. /\ h.ptr \in [Pointers -> {"null", "live"}]
        /\ h = [ptr |-> h.ptr, lost |-> h.lost, fault |-> FALSE]
    BY DEF Sound
  <2>3. Reachable(h, NameTable)
    BY <1>1 DEF Reachable, Live
  <2>4. FreeCopy(h, {NameTable}) =
          [ptr |-> [p \in Pointers |-> h.ptr[p]], lost |-> h.lost \cup {}, fault |-> FALSE]
    BY <1>4, <2>1, <2>2, <2>3 DEF FreeCopy, FreeAndLeave
  <2> QED
    BY <2>2, <2>4
<1>6. CASE ~Live(h, ImportTables)
  <2>1. \A p \in {ImportTables, NameTable} \cup AllAddresses : ~Live(h, p)
    BY <1>1, <1>6, SoundFacts
  <2> QED
    BY <1>4, <1>5, <1>6, <2>1, FreesNothing DEF freeImportLibrariesStruct
<1>7. CASE Live(h, ImportTables)
  <2> DEFINE g == nullAndFree(h, AllAddresses)
  <2>1. Frees(g, h, AllAddresses)
    BY <1>1, <1>3, <1>7, NullAndFreeSound DEF Frees
  <2>2. freeImportLibrariesStruct(h) = nullAndFree(g, {ImportTables})
    BY <1>4, <1>5, <1>7 DEF freeImportLibrariesStruct
  <2> HIDE DEF g
  <2>3. Frees(nullAndFree(g, {ImportTables}), g, {ImportTables})
    BY <1>1, <1>2, <1>3, <2>1, FreesIs, FreeOne
  <2>4. Frees(nullAndFree(g, {ImportTables}), h, AllAddresses \cup {ImportTables})
    BY <2>1, <2>3, FreesThen
  <2>5. \A p \in {NameTable} : ~Live(h, p)
    OBVIOUS
  <2>6. Frees(nullAndFree(g, {ImportTables}), h,
              (AllAddresses \cup {ImportTables}) \cup {NameTable})
    BY <2>4, <2>5, FreesMore
  <2>7. (AllAddresses \cup {ImportTables}) \cup {NameTable}
          = {ImportTables, NameTable} \cup AllAddresses
    OBVIOUS
  <2> QED
    BY <2>2, <2>6, <2>7
<1> QED
  BY <1>6, <1>7

(* The functions by name, and any two of them.                             *)
LEMMA FreedSound ==
  ASSUME NEW h, Sound(h), NEW f \in FreeFunctions
  PROVE  Sound(Called(f, h)) /\ Called(f, h).lost = h.lost
<1>1. /\ h.ptr[PeData] = "null" <=> ~Live(h, PeData)
      /\ h.ptr[OptHeaders] = "null" <=> ~Live(h, OptHeaders)
      /\ h.ptr[NameTable] = "null" <=> ~Live(h, NameTable)
  BY SoundFacts, PointersAre DEF Structs
<1> SUFFICES ASSUME MayCall(f, h)
             PROVE  Sound(Freed(f, h)) /\ Freed(f, h).lost = h.lost
  BY DEF Called
<1>2. \E S : Frees(Freed(f, h), h, S)
  <2>1. CASE f = "offsets"
    BY <2>1, OffsetsFreed DEF Freed
  <2>2. CASE f = "xexHeader"
    BY <2>2, XexHeaderFreed DEF Freed
  <2>3. CASE f = "secInfoHeader"
    BY <2>3, SecInfoHeaderFreed DEF Freed
  <2>4. CASE f = "sections"
    BY <1>1, <2>4, SectionsFreed DEF Freed, MayCall
  <2>5. CASE f = "peImportInfo"
    BY <1>1, <2>5, PeImportInfoFreed DEF Freed, MayCall
  <2>6. CASE f = "peData"
    BY <2>6, PeDataFreed DEF Freed
  <2>7. CASE f = "optHeaderEntries"
    BY <2>7, OptHeaderEntriesFreed DEF Freed
  <2>8. CASE f = "optHeaders"
    BY <2>8, OptHeadersFreed DEF Freed
  <2>9. CASE f = "all"
    BY <2>9, AllFreed DEF Freed
  <2>10. CASE f = "importLibraries"
    BY <1>1, <2>10, ImportLibrariesFreed DEF Freed, MayCall
  <2> QED
    BY <2>1, <2>2, <2>3, <2>4, <2>5, <2>6, <2>7, <2>8, <2>9, <2>10 DEF FreeFunctions
<1> QED
  BY <1>2, FreesIs

LEMMA AnyOrder ==
  ASSUME Sound(heap)
  PROVE  FreesInAnyOrder
<1> SUFFICES ASSUME NEW f \in FreeFunctions, NEW g \in FreeFunctions
             PROVE  LET h == freeAllMainStructs(Called(g, Called(f, Called(f, heap))))
                    IN  /\ ~h.fault
                        /\ h.lost = heap.lost
                        /\ \A p \in Pointers \ Strings : h.ptr[p] = "null"
  BY DEF FreesInAnyOrder
<1> DEFINE a == Called(f, heap)
           b == Called(f, a)
           c == Called(g, b)
           h == freeAllMainStructs(c)
<1>1. Sound(a) /\ a.lost = heap.lost
  BY FreedSound
<1> HIDE DEF a
<1>2. Sound(b) /\ b.lost = heap.lost
  BY <1>1, FreedSound
<1> HIDE DEF b
<1>3. Sound(c) /\ c.lost = heap.lost
  BY <1>2, FreedSound
<1> HIDE DEF c
<1>4. Frees(h, c, Pointers \ Strings)
  BY <1>3, AllFreed
<1> HIDE DEF h
<1>5. ~h.fault /\ h.lost = heap.lost
  <2>1. h.fault = FALSE
    BY <1>4 DEF Frees, Sound
  <2> QED
    BY <1>3, <1>4, <2>1, FreesIs
<1>6. \A p \in Pointers \ Strings : h.ptr[p] = "null"
  BY <1>4, FreesIs, SoundFacts
<1> QED
  BY <1>5, <1>6 DEF a, b, c, h

-----------------------------------------------------------------------------
(***************************************************************************)
(* The inductive invariant: at each stage, what is allocated by then and   *)
(* not yet freed.                                                          *)
(***************************************************************************)
HasXexPath  == {"openXEX", "validatePE", "getHdrData", "getImports", "basefile"}
HasSections == {"getImports", "basefile", "mapPE", "setSecInfo", "pageDescriptors"}
HasImports  == {"basefile", "mapPE", "setSecInfo", "pageDescriptors", "optHeaders", "xexHeader"}
HasOffsets  == {"writeXEX", "headerSha1"}
HasEntries  == {"xexHeader", "placeStructs"} \cup HasOffsets
Described   == {"optHeaders"} \cup HasEntries
Stages      == {"calloc", "options", "exited"} \cup HasXexPath \cup HasSections \cup Described

MainTypes ==
  /\ stage \in Stages
  /\ options \in 0 .. MaxOptions
  /\ gotInput \in BOOLEAN /\ gotOutput \in BOOLEAN /\ repeated \in BOOLEAN
  /\ files \in [{"pe", "xex", "basefile"} -> {"unopened", "open", "closed"}]
  /\ tableCount \in 0 .. MaxTables
  /\ exit \in {"none", "failure", "information", "built"}
  /\ exit = "none" <=> stage # "exited"

OpenFiles ==
  (IF stage \in {"openXEX", "mapPE"} \cup HasXexPath THEN {"pe"} ELSE {})
  \cup (IF stage \in (HasXexPath \ {"openXEX"}) \cup HasSections \cup Described
        THEN {"xex"} ELSE {})
  \cup (IF stage \in (HasSections \ HasXexPath) \cup Described THEN {"basefile"} ELSE {})

FilesOpen == \A f \in {"pe", "xex", "basefile"} : files[f] = "open" <=> f \in OpenFiles

Held(p) == Live(heap, p)

MainsHeld ==
  /\ Structs \ {PeData} \subseteq {p \in Pointers : Held(p)}
  /\ Held(PeData) <=> stage \notin HasOffsets
  /\ Held(PePath) <=> stage = "options" /\ gotInput
  /\ Held(XexfilePath) <=> (stage = "options" /\ gotOutput) \/ stage \in HasXexPath
  /\ ~Held(BasefilePath)

ArraysHeld ==
  /\ Held(Sections) <=> stage \in HasSections
  /\ Held(PeTables) <=> stage \in HasImports /\ tableCount > 0
  /\ \A k \in Tables : Held(Name(k)) <=> stage \in HasImports /\ k <= tableCount
  /\ \A k \in Tables : Held(Imports(k)) => stage \in HasImports /\ k <= tableCount
  /\ Held(Descriptors) <=> stage \in Described
  /\ Held(OptEntry) <=> stage \in HasEntries
  /\ Held(OptOffsets) <=> stage \in HasOffsets
  /\ Held(ImportTables) => stage \in HasEntries
  /\ Held(NameTable) <=> Held(ImportTables)
  /\ \A k \in Tables : Held(Addresses(k)) <=> Held(ImportTables) /\ k <= tableCount

Finished == Structs \cup {OptOffsets, Descriptors, Sections, OptEntry}

Lost ==
  /\ heap.lost \cap Finished = {}
  /\ stage # "exited" \/ exit = "built" =>
       heap.lost \subseteq {PePath, XexfilePath} /\ (~repeated => heap.lost = {})

MainInv ==
  /\ MainTypes
  /\ FilesOpen
  /\ Sound(heap)
  /\ Lost
  /\ stage = "calloc" => heap = NullHeap /\ ~repeated /\ ~gotInput /\ ~gotOutput
  /\ stage \notin {"calloc", "exited"} => MainsHeld /\ ArraysHeld
  /\ stage = "exited" => \A p \in Pointers : Held(p) => p \in Strings /\ exit = "information"

-----------------------------------------------------------------------------
(***************************************************************************)
(* Files, exits, and the larger allocations.                               *)
(***************************************************************************)
LEMMA StillOpen ==
  ASSUME MainTypes, FilesOpen, NEW F, F \subseteq OpenFiles
  PROVE  Became(F, "open") = files
<1>1. DOMAIN files = {"pe", "xex", "basefile"} /\ files = [f \in DOMAIN files |-> files[f]]
  BY DEF MainTypes
<1>2. \A f \in DOMAIN files : f \in F => files[f] = "open"
  BY <1>1 DEF FilesOpen
<1> QED
  BY <1>1, <1>2 DEF Became

LEMMA AllClosed ==
  ASSUME MainTypes, FilesOpen, NEW F, F = OpenFiles
  PROVE  /\ Closed(F) \in [{"pe", "xex", "basefile"} -> {"unopened", "open", "closed"}]
         /\ \A f \in {"pe", "xex", "basefile"} : Closed(F)[f] # "open"
<1>1. DOMAIN files = {"pe", "xex", "basefile"}
      /\ \A f \in DOMAIN files : files[f] \in {"unopened", "open", "closed"}
  BY DEF MainTypes
<1>2. \A f \in DOMAIN files : f \in F <=> files[f] = "open"
  BY <1>1 DEF FilesOpen
<1> QED
  BY <1>1, <1>2 DEF Became, Closed

LEMMA NullSound == Sound(NullHeap) /\ NullHeap.lost = {} /\ \A p \in Pointers : ~Live(NullHeap, p)
BY DEF NullHeap, Sound, Live

LEMMA StringsFreed ==
  ASSUME NEW h, Sound(h), NEW S, S \subseteq Strings
  PROVE  Frees(nullAndFree(h, S), h, S)
<1>1. S \subseteq Pointers /\ \A p \in S : Inside(p) = {}
  BY PointersAre, InsideOf
<1>2. \A p \in Pointers : Inside(p) \cap S = {}
  BY LiesIn, StringsAre, Fields
<1> QED
  BY <1>1, <1>2, NullAndFreeSound DEF Frees

(* What an exit of main leaves.                                            *)
LEMMA Leaves ==
  ASSUME NEW h, Sound(h), NEW S, S \subseteq Strings
  PROVE  LET g == freeAllMainStructs(nullAndFree(h, S))
         IN  /\ Sound(g) /\ g.lost = h.lost
             /\ \A p \in Pointers : Live(g, p) <=> Live(h, p) /\ p \in Strings /\ p \notin S
<1> DEFINE f == nullAndFree(h, S)
           g == freeAllMainStructs(f)
<1>1. Frees(f, h, S)
  BY StringsFreed
<1> HIDE DEF f
<1>2. Frees(g, f, Pointers \ Strings)
  BY <1>1, AllFreed DEF Frees
<1> HIDE DEF g
<1>3. Sound(g) /\ g.lost = h.lost
      /\ \A p \in Pointers : Live(g, p) <=> Live(h, p) /\ p \in Strings /\ p \notin S
  BY <1>1, <1>2, FreesIs
<1> QED
  BY <1>3 DEF g, f

LEMMA Aborts ==
  ASSUME MainTypes, FilesOpen, NEW h, Sound(h), h.lost \cap Finished = {},
         NEW S, S \subseteq Strings, \A p \in Strings : Live(h, p) => p \in S,
         NEW F, F = OpenFiles, Abort(h, S, F)
  PROVE  MainInv'
<1>1. /\ heap' = freeAllMainStructs(nullAndFree(h, S)) /\ files' = Closed(F)
      /\ stage' = "exited" /\ exit' = "failure"
      /\ UNCHANGED <<options, gotInput, gotOutput, repeated, tableCount>>
  BY DEF Abort, optionVars
<1>2. /\ Sound(heap') /\ heap'.lost = h.lost /\ \A p \in Pointers : ~Live(heap', p)
  BY <1>1, Leaves
<1>3. MainTypes'
  BY <1>1, AllClosed DEF MainTypes, Stages
<1>4. FilesOpen'
  <2>1. OpenFiles' = {}
    BY <1>1 DEF OpenFiles, HasXexPath, HasSections, Described, HasEntries, HasOffsets
  <2> QED
    BY <1>1, <2>1, AllClosed DEF FilesOpen
<1> QED
  BY <1>1, <1>2, <1>3, <1>4 DEF MainInv, Lost, Held

LEMMA TablesSound ==
  ASSUME NEW h, Sound(h), Live(h, Sections), NEW n \in 0 .. MaxTables, NEW W, W \subseteq 1 .. n,
         ~Live(h, PeTables)
  PROVE  LET g == WithTables(h, n, W)
         IN  /\ Sound(g) /\ g.lost = h.lost
             /\ \A p \in Pointers : Live(g, p) <=> \/ Live(h, p)
                                                   \/ n > 0 /\ p = PeTables
                                                   \/ \E k \in 1 .. n : p = Name(k)
                                                   \/ \E k \in W : p = Imports(k)
<1> DEFINE S == (IF n > 0 THEN {PeTables} ELSE {})
                \cup {Name(k) : k \in 1 .. n} \cup {Imports(k) : k \in W}
           g == WithTables(h, n, W)
<1>1. 1 .. n \subseteq Tables /\ MaxTables \in Nat
  BY MainStructsAssumption DEF Tables
<1>2. S \subseteq {PeTables} \cup Names \cup AllImports
  BY <1>1, Indexed
<1>3. S \subseteq Pointers /\ Sections \in Pointers /\ PeTables \in Pointers
  BY <1>2, PointersAre
<1>4. Use(h, {Sections}) = h
  BY <1>3, UseSound
<1>5. g = Alloc(h, S)
  BY <1>4 DEF WithTables
<1>6. \A p \in S : ~Live(h, p)
  BY <1>2, SoundFacts
<1>7. Live(h, PeData)
  BY SoundFacts
<1>8. (\E p \in S : TRUE) => PeTables \in S
  BY <1>1
<1>9. \A p : p \in S <=> \/ n > 0 /\ p = PeTables
                         \/ \E k \in 1 .. n : p = Name(k)
                         \/ \E k \in W : p = Imports(k)
  OBVIOUS
<1> HIDE DEF S, g
<1>10. \A p \in S : \A q \in Inside(p) \ S : Live(h, q)
  BY <1>2, <1>7, <1>8, InsideOf
<1>11. /\ Sound(g)
       /\ \A p \in Pointers : Live(g, p) <=> p \in S \/ Live(h, p)
       /\ g.lost = h.lost \cup {p \in S : Live(h, p)}
  BY <1>3, <1>5, <1>10, AllocSound
<1> QED
  BY <1>6, <1>9, <1>11 DEF g

-----------------------------------------------------------------------------
(***************************************************************************)
(* The options.                                                            *)
(***************************************************************************)
LEMMA StructsFacts ==
  /\ Structs \subseteq Pointers /\ Strings \subseteq Pointers
  /\ PePath \in Strings /\ XexfilePath \in Strings /\ BasefilePath \in Strings
  /\ \A p \in Structs \cup Strings : Inside(p) = {}
  /\ \A p \in Structs \cup {PePath, XexfilePath, BasefilePath, OptOffsets, Descriptors, Sections,
                            PeTables, OptEntry, ImportTables, NameTable} : p \in Pointers
  /\ \A k \in Tables : Name(k) \in Pointers /\ Imports(k) \in Pointers /\ Addresses(k) \in Pointers
BY PointersAre, InsideOf, StringsAre, Indexed DEF Strings, PePath, XexfilePath, BasefilePath

(* What the arrays need of a step that touches none of them.               *)
LEMMA NoArrays ==
  ASSUME stage' = "options",
         \A p \in Pointers : Held(p)' => p \in Structs \cup Strings
  PROVE  ArraysHeld'
BY StructsFacts, Fields, IndexedFields, StringsAre
   DEF ArraysHeld, Structs, HasSections, HasImports, HasOffsets, HasEntries, Described, HasXexPath

LEMMA NotOpenYet ==
  /\ stage \in {"calloc", "options", "exited"} => OpenFiles = {}
  /\ stage = "openXEX" => OpenFiles = {"pe"}
  /\ stage \in {"validatePE", "getHdrData", "getImports", "basefile"} => OpenFiles = {"pe", "xex"}
  /\ stage = "mapPE" => OpenFiles = {"pe", "xex", "basefile"}
  /\ stage \in {"setSecInfo", "pageDescriptors"} \cup Described => OpenFiles = {"xex", "basefile"}
BY DEF OpenFiles, HasXexPath, HasSections, HasOffsets, HasEntries, Described

LEMMA OptionsStage ==
  ASSUME MainInv, stage = "options"
  PROVE  /\ Sound(heap) /\ MainsHeld /\ ArraysHeld
         /\ heap.lost \cap Finished = {} /\ heap.lost \subseteq {PePath, XexfilePath}
         /\ ~repeated => heap.lost = {}
         /\ \A p \in Structs : Held(p)
         /\ Held(PePath) <=> gotInput
         /\ Held(XexfilePath) <=> gotOutput
         /\ ~Held(BasefilePath)
         /\ \A p \in Pointers : Held(p) => p \in Structs \cup Strings
<1>1. Sound(heap) /\ MainsHeld /\ ArraysHeld /\ Lost
  BY DEF MainInv
<1>2. \A p \in Structs : Held(p)
  <2>1. Held(PeData)
    BY <1>1 DEF MainsHeld, HasOffsets
  <2> QED
    BY <1>1, <2>1 DEF MainsHeld
<1>3. \A p \in Pointers : Held(p) => p \in Structs \cup Strings
  BY <1>1, Indexed DEF ArraysHeld, Pointers, HasSections, HasImports, HasOffsets, HasEntries,
     Described
<1> QED
  BY <1>1, <1>2, <1>3 DEF MainsHeld, Lost, HasXexPath

LEMMA CallocKeeps == MainInv /\ (CallocStructs \/ CallocStructsFails) => MainInv'
<1> SUFFICES ASSUME MainInv, CallocStructs \/ CallocStructsFails PROVE MainInv'
  OBVIOUS
<1>1. /\ stage = "calloc" /\ heap = NullHeap /\ ~repeated /\ ~gotInput /\ ~gotOutput
      /\ MainTypes /\ FilesOpen
  BY DEF MainInv, CallocStructs, CallocStructsFails, At
<1>2. ASSUME NEW S, S \subseteq Structs
      PROVE  /\ Sound(Alloc(heap, S)) /\ Alloc(heap, S).lost = {}
             /\ \A p \in Pointers : Live(Alloc(heap, S), p) <=> p \in S
  <2>1. S \subseteq Pointers /\ \A p \in S : \A q \in Inside(p) \ S : Live(heap, q)
    BY <1>2, StructsFacts
  <2> QED
    BY <1>1, <2>1, NullSound, AllocSound
<1>3. CASE CallocStructs
  <2>1. /\ heap' = Alloc(heap, Structs) /\ stage' = "options" /\ exit' = exit
        /\ UNCHANGED <<options, gotInput, gotOutput, repeated, files, tableCount>>
    BY <1>3 DEF CallocStructs, At, Goto, optionVars
  <2>2. Sound(heap') /\ heap'.lost = {} /\ \A p \in Pointers : Held(p)' <=> p \in Structs
    BY <1>2, <2>1 DEF Held
  <2>3. MainTypes'
    BY <1>1, <2>1 DEF MainTypes, Stages
  <2>4. FilesOpen'
    <3>1. OpenFiles = {} /\ OpenFiles' = {}
      BY <1>1, <2>1 DEF OpenFiles, HasXexPath, HasSections, Described, HasEntries, HasOffsets
    <3> QED
      BY <1>1, <2>1, <3>1 DEF FilesOpen
  <2>5. Lost'
    BY <2>2 DEF Lost
  <2>6. ArraysHeld'
    BY <2>1, <2>2, NoArrays
  <2>7. MainsHeld'
    <3>1. ~Held(PePath)' /\ ~Held(XexfilePath)' /\ ~Held(BasefilePath)'
      BY <2>2, StructsFacts, Fields DEF Structs
    <3>2. Structs \ {PeData} \subseteq {p \in Pointers : Held(p)'} /\ Held(PeData)'
      BY <2>2, StructsFacts DEF Structs
    <3> QED
      BY <1>1, <2>1, <3>1, <3>2 DEF MainsHeld, HasOffsets, HasXexPath
  <2> QED
    BY <2>1, <2>2, <2>3, <2>4, <2>5, <2>6, <2>7 DEF MainInv
<1>4. CASE CallocStructsFails
  <2>1. PICK S \in SUBSET Structs : Abort(Alloc(heap, S), {}, {})
    BY <1>4 DEF CallocStructsFails
  <2>2. \A p \in Strings : ~Live(Alloc(heap, S), p)
    BY <1>2, StructsFacts, StringsAre, Fields DEF Structs
  <2>3. Sound(Alloc(heap, S)) /\ Alloc(heap, S).lost \cap Finished = {}
    BY <1>2
  <2> QED
    BY <1>1, <2>1, <2>2, <2>3, NotOpenYet, Aborts
<1> QED
  BY <1>3, <1>4

LEMMA PathOptionKeeps ==
  ASSUME MainInv, NEW path \in {PePath, XexfilePath}, NEW got \in BOOLEAN,
         stage = "options", Held(path) <=> got
  PROVE  LET g == Alloc(heap, {path})
             h == [g EXCEPT !.ptr[path] = "null"]
         IN  /\ Sound(g) /\ Sound(h)
             /\ \A p \in Pointers : Live(g, p) <=> p = path \/ Held(p)
             /\ \A p \in Pointers : Live(h, p) <=> p # path /\ Held(p)
             /\ g.lost = h.lost /\ g.lost \cap Finished = {}
             /\ g.lost \subseteq {PePath, XexfilePath}
             /\ ~repeated /\ ~got => g.lost = {}
<1> DEFINE g == Alloc(heap, {path})
           h == [g EXCEPT !.ptr[path] = "null"]
<1>1. path \in Pointers /\ Inside(path) = {}
  BY StructsFacts
<1>2. /\ Sound(g) /\ \A p \in Pointers : Live(g, p) <=> p = path \/ Held(p)
      /\ g.lost = heap.lost \cup {p \in {path} : Held(p)}
  BY <1>1, OptionsStage, AllocSound DEF Held
<1> HIDE DEF g
<1>3. path \notin Finished
  BY Fields DEF Finished, Structs
<1>4. /\ g = [ptr |-> g.ptr, lost |-> g.lost, fault |-> FALSE]
      /\ g.ptr \in [Pointers -> {"null", "live"}]
  BY <1>2 DEF Sound
<1>5. h = [ptr |-> [g.ptr EXCEPT ![path] = "null"], lost |-> g.lost, fault |-> FALSE]
  <2> DEFINE r    == g.ptr
             lost == g.lost
             new  == [r EXCEPT ![path] = "null"]
  <2>1. g = [ptr |-> r, lost |-> lost, fault |-> FALSE]
    BY <1>4
  <2>2. h = [g EXCEPT !.ptr = new]
    BY Zenon DEF h
  <2> HIDE DEF r, lost, new, h
  <2>3. h = [ptr |-> new, lost |-> lost, fault |-> FALSE]
    BY <2>1, <2>2
  <2> QED
    BY <2>3 DEF r, lost, new
<1> HIDE DEF h
<1>6. h.ptr = [g.ptr EXCEPT ![path] = "null"] /\ h.lost = g.lost
      /\ h = [ptr |-> h.ptr, lost |-> h.lost, fault |-> FALSE]
  BY <1>5
<1>7. h.ptr \in [Pointers -> {"null", "live"}]
      /\ \A p \in Pointers : Live(h, p) <=> p # path /\ Live(g, p)
  BY <1>1, <1>4, <1>6 DEF Live
<1>8. \A p \in Pointers : path \notin Inside(p) /\ Inside(p) \subseteq Pointers
  BY LiesIn, Fields, PointersAre
<1>9. Sound(h)
  BY <1>2, <1>6, <1>7, <1>8 DEF Sound
<1>10. \A p \in Pointers : Live(h, p) <=> p # path /\ Held(p)
  BY <1>2, <1>7
<1>11. g.lost \cap Finished = {} /\ g.lost \subseteq {PePath, XexfilePath}
       /\ (~repeated /\ ~got => g.lost = {})
  BY <1>2, <1>3, OptionsStage
<1> QED
  BY <1>2, <1>6, <1>9, <1>10, <1>11 DEF g, h

LEMMA OptionKeeps ==
  MainInv /\ (InputOption \/ OutputOption \/ InputOptionFails \/ OutputOptionFails) => MainInv'
<1> SUFFICES ASSUME MainInv,
                    InputOption \/ OutputOption \/ InputOptionFails \/ OutputOptionFails
             PROVE  MainInv'
  OBVIOUS
<1>1. /\ stage = "options" /\ options < MaxOptions /\ MainTypes /\ FilesOpen
  BY DEF MainInv, InputOption, OutputOption, InputOptionFails, OutputOptionFails, PathOption,
     PathOptionFails, NextOption
<1>2. OpenFiles = {}
  BY <1>1, NotOpenYet
<1>3. ASSUME NEW path \in {PePath, XexfilePath}, NEW got \in BOOLEAN, Held(path) <=> got,
             PathOption(path, got),
             gotInput' = (gotInput \/ path = PePath), gotOutput' = (gotOutput \/ path = XexfilePath)
      PROVE  MainInv'
  <2>1. /\ options' = options + 1 /\ repeated' = (repeated \/ got) /\ heap' = Alloc(heap, {path})
        /\ UNCHANGED <<stage, files, tableCount, exit>>
    BY <1>3 DEF PathOption
  <2>2. /\ Sound(heap') /\ \A p \in Pointers : Held(p)' <=> p = path \/ Held(p)
        /\ heap'.lost \cap Finished = {} /\ heap'.lost \subseteq {PePath, XexfilePath}
        /\ ~repeated /\ ~got => heap'.lost = {}
    BY <1>1, <1>3, <2>1, PathOptionKeeps DEF Held
  <2>3. MainTypes'
    BY <1>1, <1>3, <2>1, SynthXEXAssumption DEF MainTypes
  <2>4. FilesOpen'
    <3>1. OpenFiles' = OpenFiles
      BY <2>1 DEF OpenFiles
    <3> QED
      BY <1>1, <2>1, <3>1 DEF FilesOpen
  <2>5. Lost'
    BY <2>1, <2>2 DEF Lost
  <2>6. \A p \in Pointers : Held(p)' => p \in Structs \cup Strings
    BY <1>1, <2>2, OptionsStage, StructsFacts
  <2>7. ArraysHeld'
    BY <1>1, <2>1, <2>6, NoArrays
  <2>8. MainsHeld'
    <3>1. /\ Held(PePath)' <=> gotInput'
          /\ Held(XexfilePath)' <=> gotOutput'
          /\ ~Held(BasefilePath)'
      BY <1>1, <1>3, <2>2, OptionsStage, StructsFacts, Fields
    <3>2. Structs \ {PeData} \subseteq {p \in Pointers : Held(p)'} /\ Held(PeData)'
      BY <1>1, <2>2, OptionsStage, StructsFacts DEF Structs
    <3> QED
      BY <1>1, <2>1, <3>1, <3>2 DEF MainsHeld, HasOffsets, HasXexPath
  <2> QED
    BY <1>1, <2>1, <2>2, <2>3, <2>4, <2>5, <2>7, <2>8 DEF MainInv
<1>4. ASSUME NEW path \in {PePath, XexfilePath}, NEW other \in {PePath, XexfilePath},
             NEW got \in BOOLEAN, Held(path) <=> got, other # path, PathOptionFails(path, other)
      PROVE  MainInv'
  <2> DEFINE h == [Alloc(heap, {path}) EXCEPT !.ptr[path] = "null"]
  <2>1. Abort(h, {other}, {})
    BY <1>4 DEF PathOptionFails
  <2>2. /\ Sound(h) /\ \A p \in Pointers : Live(h, p) <=> p # path /\ Held(p)
        /\ h.lost \cap Finished = {}
    BY <1>1, <1>4, PathOptionKeeps
  <2> HIDE DEF h
  <2>3. {other} \subseteq Strings /\ \A p \in Strings : Live(h, p) => p \in {other}
    BY <1>1, <1>4, <2>2, OptionsStage, StructsFacts, StringsAre
  <2> QED
    BY <1>1, <1>2, <2>1, <2>2, <2>3, Aborts
<1>5. gotInput \in BOOLEAN /\ gotOutput \in BOOLEAN /\ PePath # XexfilePath
  BY <1>1, Fields DEF MainTypes
<1>6. (Held(PePath) <=> gotInput) /\ (Held(XexfilePath) <=> gotOutput)
  BY <1>1, OptionsStage
<1>7. CASE InputOption
  <2>1. PathOption(PePath, gotInput) /\ gotInput' = TRUE /\ gotOutput' = gotOutput
    BY <1>7 DEF InputOption
  <2>2. /\ gotInput' = (gotInput \/ PePath = PePath)
        /\ gotOutput' = (gotOutput \/ PePath = XexfilePath)
    BY <1>5, <2>1
  <2> QED
    BY <1>3, <1>5, <1>6, <2>1, <2>2
<1>8. CASE OutputOption
  <2>1. PathOption(XexfilePath, gotOutput) /\ gotOutput' = TRUE /\ gotInput' = gotInput
    BY <1>8 DEF OutputOption
  <2>2. /\ gotInput' = (gotInput \/ XexfilePath = PePath)
        /\ gotOutput' = (gotOutput \/ XexfilePath = XexfilePath)
    BY <1>5, <2>1
  <2> QED
    BY <1>3, <1>5, <1>6, <2>1, <2>2
<1>9. CASE InputOptionFails
  BY <1>4, <1>5, <1>6, <1>9 DEF InputOptionFails
<1>10. CASE OutputOptionFails
  BY <1>4, <1>5, <1>6, <1>10 DEF OutputOptionFails
<1> QED
  BY <1>7, <1>8, <1>9, <1>10
LEMMA PlainOptionKeeps == MainInv /\ PlainOption => MainInv'
<1> SUFFICES ASSUME MainInv, PlainOption PROVE MainInv'
  OBVIOUS
<1>1. /\ stage = "options" /\ options < MaxOptions /\ options' = options + 1
      /\ UNCHANGED <<heap, stage, gotInput, gotOutput, repeated, files, tableCount, exit>>
  BY DEF PlainOption, NextOption
<1>2. MainTypes'
  BY <1>1, SynthXEXAssumption DEF MainInv, MainTypes
<1>3. OpenFiles' = OpenFiles
  BY <1>1 DEF OpenFiles
<1> QED
  BY <1>1, <1>2, <1>3 DEF MainInv, FilesOpen, Lost, MainsHeld, ArraysHeld, Held

LEMMA OptionsGiveUp ==
  MainInv /\ (InvalidType \/ MissingPath \/ OpenPEFails) => MainInv'
<1> SUFFICES ASSUME MainInv, InvalidType \/ MissingPath \/ OpenPEFails PROVE MainInv'
  OBVIOUS
<1>1. stage = "options" /\ MainTypes /\ FilesOpen
  BY DEF MainInv, InvalidType, MissingPath, OpenPEFails, NextOption
<1>2. OpenFiles = {}
  BY <1>1, NotOpenYet
<1>3. /\ Sound(heap) /\ heap.lost \cap Finished = {}
      /\ \A p \in Strings : Live(heap, p) => \/ p = PePath /\ gotInput
                                             \/ p = XexfilePath /\ gotOutput
  BY <1>1, OptionsStage, StringsAre DEF Held
<1>4. ASSUME NEW S, S \subseteq Strings, gotInput => PePath \in S, gotOutput => XexfilePath \in S,
             Abort(heap, S, {})
      PROVE  MainInv'
  BY <1>1, <1>2, <1>3, <1>4, Aborts
<1>5. CASE InvalidType
  BY <1>4, <1>5, StructsFacts DEF InvalidType
<1>6. CASE MissingPath
  <2>1. CASE ~gotInput /\ gotOutput /\ Abort(heap, {XexfilePath}, {})
    BY <1>4, <2>1, StructsFacts
  <2>2. CASE ~gotInput /\ ~gotOutput /\ Abort(heap, {}, {})
    BY <1>4, <2>2, StructsFacts
  <2>3. CASE gotInput /\ ~gotOutput /\ Abort(heap, {PePath}, {})
    BY <1>4, <2>3, StructsFacts
  <2> QED
    BY <1>6, <2>1, <2>2, <2>3 DEF MissingPath
<1>7. CASE OpenPEFails
  <2>1. gotInput /\ Abort(Use(heap, {PePath}), {PePath, XexfilePath}, {})
    BY <1>7 DEF OpenPEFails
  <2>2. Use(heap, {PePath}) = heap
    BY <1>1, <2>1, OptionsStage, StructsFacts, UseSound DEF Held
  <2> QED
    BY <1>4, <2>1, <2>2, StructsFacts
<1> QED
  BY <1>5, <1>6, <1>7

(* Asking for help leaves the paths given so far behind.                   *)
LEMMA InformationKeeps == MainInv /\ InformationOption => MainInv'
<1> SUFFICES ASSUME MainInv, InformationOption PROVE MainInv'
  OBVIOUS
<1>1. /\ stage = "options" /\ heap' = freeAllMainStructs(heap)
      /\ stage' = "exited" /\ exit' = "information"
      /\ UNCHANGED <<options, gotInput, gotOutput, repeated, files, tableCount>>
      /\ MainTypes /\ FilesOpen /\ Sound(heap)
  BY DEF MainInv, InformationOption, NextOption, optionVars
<1>2. Frees(heap', heap, Pointers \ Strings)
  BY <1>1, AllFreed
<1>3. /\ Sound(heap') /\ heap'.lost = heap.lost
      /\ \A p \in Pointers : Held(p)' => p \in Strings
  BY <1>2, FreesIs DEF Held
<1>4. MainTypes'
  BY <1>1 DEF MainTypes, Stages
<1>5. FilesOpen'
  <2>1. OpenFiles = {} /\ OpenFiles' = {}
    BY <1>1 DEF OpenFiles, HasXexPath, HasSections, Described, HasEntries, HasOffsets
  <2> QED
    BY <1>1, <2>1 DEF FilesOpen
<1>6. Lost'
  BY <1>1, <1>3, OptionsStage DEF Lost
<1> QED
  BY <1>1, <1>3, <1>4, <1>5, <1>6 DEF MainInv

-----------------------------------------------------------------------------
(***************************************************************************)
(* The stages: what is there before one, and what it has to leave.         *)
(***************************************************************************)
LEMMA StageFacts ==
  ASSUME MainInv, stage \notin {"calloc", "exited"}
  PROVE  /\ MainTypes /\ FilesOpen /\ Sound(heap) /\ MainsHeld /\ ArraysHeld
         /\ heap.lost \cap Finished = {} /\ heap.lost \subseteq {PePath, XexfilePath}
         /\ ~repeated => heap.lost = {}
         /\ \A p \in Structs : p # PeData => Held(p)
BY DEF MainInv, Lost, MainsHeld

LEMMA StageKeeps ==
  ASSUME MainInv, stage \notin {"calloc", "exited"},
         stage' \in Stages \ {"calloc", "exited"}, exit' = exit,
         UNCHANGED <<options, gotInput, gotOutput, repeated>>, tableCount' \in 0 .. MaxTables,
         files' \in [{"pe", "xex", "basefile"} -> {"unopened", "open", "closed"}], FilesOpen',
         Sound(heap'), heap'.lost = heap.lost, MainsHeld', ArraysHeld'
  PROVE  MainInv'
<1>1. MainTypes /\ Lost
  BY DEF MainInv
<1>2. MainTypes'
  BY <1>1 DEF MainTypes
<1>3. Lost'
  BY <1>1 DEF Lost
<1> QED
  BY <1>2, <1>3 DEF MainInv

(* Structures are live throughout; only the PE data goes before the end.   *)
LEMMA MainsStay ==
  ASSUME MainInv, stage \notin {"calloc", "options", "exited"},
         stage' \notin {"calloc", "options", "exited"},
         \A p \in Structs \ {PeData} : Held(p) => Held(p)',
         Held(PeData)' <=> stage' \notin HasOffsets,
         Held(XexfilePath)' <=> stage' \in HasXexPath,
         ~Held(PePath)', ~Held(BasefilePath)'
  PROVE  MainsHeld'
<1>1. \A p \in Structs \ {PeData} : Held(p)' /\ p \in Pointers
  BY StageFacts, StructsFacts
<1> QED
  BY <1>1 DEF MainsHeld

(* A stage that opens and closes no file.                                  *)
LEMMA FilesStay ==
  ASSUME MainTypes, FilesOpen, NEW F, F \subseteq OpenFiles, files' = Became(F, "open"),
         OpenFiles' = OpenFiles
  PROVE  /\ FilesOpen'
         /\ files' \in [{"pe", "xex", "basefile"} -> {"unopened", "open", "closed"}]
<1>1. files' = files
  BY StillOpen
<1> QED
  BY <1>1 DEF MainTypes, FilesOpen

(* A failure that may forget blocks of the stage, but nothing finished.    *)
LEMMA GivesUp ==
  ASSUME MainInv, stage \notin {"calloc", "options", "exited"},
         NEW h, Sound(h), h.lost \cap Finished = {},
         \A p \in Strings : Live(h, p) => Held(p) \/ p = BasefilePath,
         NEW S, S \subseteq Strings, stage \in HasXexPath => XexfilePath \in S,
         Live(h, BasefilePath) => BasefilePath \in S,
         NEW F, F = OpenFiles, Abort(h, S, F)
  PROVE  MainInv'
<1>1. \A p \in Strings : Live(h, p) => p \in S
  BY StageFacts, StringsAre DEF MainsHeld
<1> QED
  BY <1>1, StageFacts, Aborts
(* The stages before the import tables are read, and those that only look  *)
(* at the structures: which stage sets a stage is in.                      *)
LEMMA OpenPEKeeps == MainInv /\ OpenPE => MainInv'
<1> SUFFICES ASSUME MainInv, OpenPE PROVE MainInv'
  OBVIOUS
<1>1. /\ stage = "options" /\ stage' = "openXEX" /\ gotInput /\ gotOutput /\ exit' = exit
      /\ files' = [files EXCEPT !["pe"] = "open"]
      /\ heap' = nullAndFree(Use(heap, {PePath}), {PePath})
      /\ UNCHANGED <<options, gotInput, gotOutput, repeated, tableCount>>
  BY DEF OpenPE, At, Goto, optionVars
<1>2. Use(heap, {PePath}) = heap
  BY <1>1, OptionsStage, StructsFacts, UseSound DEF Held
<1>3. Frees(heap', heap, {PePath})
  BY <1>1, <1>2, OptionsStage, StructsFacts, StringsFreed
<1>4. /\ Sound(heap') /\ heap'.lost = heap.lost
      /\ \A p \in Pointers : Held(p)' <=> p # PePath /\ Held(p)
  BY <1>3, FreesIs DEF Held
<1>5. MainTypes /\ FilesOpen
  BY <1>1, StageFacts
<1>6. FilesOpen' /\ files' \in [{"pe", "xex", "basefile"} -> {"unopened", "open", "closed"}]
  <2>1. OpenFiles = {} /\ OpenFiles' = {"pe"}
    BY <1>1 DEF OpenFiles, HasXexPath, HasSections, Described, HasEntries, HasOffsets
  <2> QED
    BY <1>1, <1>5, <2>1 DEF MainTypes, FilesOpen
<1>7. MainsHeld'
  <2>1. \A p \in Structs : Held(p)' /\ p \in Pointers
    BY <1>1, <1>4, OptionsStage, StructsFacts, StringsAre, Fields DEF Structs
  <2>2. /\ Held(PePath)' <=> FALSE
        /\ Held(XexfilePath)' <=> TRUE
        /\ Held(BasefilePath)' <=> FALSE
    BY <1>1, <1>4, OptionsStage, StructsFacts, Fields
  <2>3. PeData \in Structs
    BY DEF Structs
  <2> QED
    BY <1>1, <2>1, <2>2, <2>3 DEF MainsHeld, HasXexPath, HasOffsets
<1>8. ArraysHeld'
  <2>1. \A p \in Pointers : p \notin Structs \cup Strings => ~Held(p)'
    BY <1>1, <1>4, OptionsStage
  <2>2. {OptOffsets, Descriptors, Sections, PeTables, OptEntry, ImportTables, NameTable}
          \cap (Structs \cup Strings) = {}
    BY StringsAre, Fields DEF Structs
  <2>3. \A k \in Tables : /\ Name(k) \notin Structs \cup Strings
                          /\ Imports(k) \notin Structs \cup Strings
                          /\ Addresses(k) \notin Structs \cup Strings
    BY StringsAre, Fields, IndexedFields DEF Structs
  <2> QED
    BY <1>1, <2>1, <2>2, <2>3, StructsFacts
    DEF ArraysHeld, HasSections, HasImports, HasOffsets, HasEntries, Described
<1> QED
  BY <1>1, <1>4, <1>5, <1>6, <1>7, <1>8, StageKeeps
  DEF Stages, HasXexPath, MainTypes

(* Only the stage moves on: nothing is allocated, freed, opened or closed. *)
LEMMA LooksOnly ==
  ASSUME MainInv, stage \notin {"calloc", "options", "exited"},
         NEW F, F \subseteq OpenFiles, files' = Became(F, "open"),
         UNCHANGED <<options, gotInput, gotOutput, repeated, tableCount, exit, heap>>,
         stage' \in Stages \ {"calloc", "options", "exited"},
         OpenFiles' = OpenFiles,
         stage \in HasXexPath <=> stage' \in HasXexPath,
         stage \in HasSections <=> stage' \in HasSections,
         stage \in HasImports <=> stage' \in HasImports,
         stage \in HasOffsets <=> stage' \in HasOffsets,
         stage \in HasEntries <=> stage' \in HasEntries,
         stage \in Described <=> stage' \in Described
  PROVE  MainInv'
<1>1. MainTypes /\ FilesOpen /\ Sound(heap) /\ MainsHeld /\ ArraysHeld
  BY StageFacts
<1>2. FilesOpen' /\ files' \in [{"pe", "xex", "basefile"} -> {"unopened", "open", "closed"}]
  BY <1>1, FilesStay
<1>3. \A p : Held(p)' <=> Held(p)
  BY DEF Held
<1>4. MainsHeld'
  BY <1>1, <1>3, Zenon DEF MainsHeld
<1>5. ArraysHeld'
  BY <1>1, <1>3, Zenon DEF ArraysHeld
<1> QED
  BY <1>1, <1>2, <1>4, <1>5, StageKeeps DEF MainTypes

LEMMA OpenXEXKeeps == MainInv /\ (OpenXEX \/ OpenXEXFails) => MainInv'
<1> SUFFICES ASSUME MainInv, OpenXEX \/ OpenXEXFails PROVE MainInv'
  OBVIOUS
<1>1. stage = "openXEX"
  BY DEF OpenXEX, OpenXEXFails, At
<1>2. MainTypes /\ FilesOpen /\ Sound(heap) /\ MainsHeld /\ ArraysHeld
  BY <1>1, StageFacts
<1>3. Use(heap, {XexfilePath}) = heap
  BY <1>1, <1>2, StructsFacts, UseSound DEF Held, MainsHeld, HasXexPath
<1>4. CASE OpenXEX
  <2>1. /\ stage' = "validatePE" /\ exit' = exit /\ heap' = heap
        /\ files' = [files EXCEPT !["xex"] = "open"]
        /\ UNCHANGED <<options, gotInput, gotOutput, repeated, tableCount>>
    BY <1>3, <1>4 DEF OpenXEX, At, Goto, optionVars
  <2>2. FilesOpen' /\ files' \in [{"pe", "xex", "basefile"} -> {"unopened", "open", "closed"}]
    <3>1. OpenFiles = {"pe"} /\ OpenFiles' = {"pe", "xex"}
      BY <1>1, <2>1 DEF OpenFiles, HasXexPath, HasSections, Described, HasEntries, HasOffsets
    <3> QED
      BY <1>2, <2>1, <3>1 DEF MainTypes, FilesOpen
  <2>3. \A p : Held(p)' <=> Held(p)
    BY <2>1 DEF Held
  <2>4. MainsHeld'
    BY <1>1, <1>2, <2>1, <2>3 DEF MainsHeld, HasXexPath, HasOffsets
  <2>5. ArraysHeld'
    BY <1>1, <1>2, <2>1, <2>3
    DEF ArraysHeld, HasSections, HasImports, HasOffsets, HasEntries, Described
  <2> QED
    BY <1>1, <1>2, <2>1, <2>2, <2>4, <2>5, StageKeeps DEF Stages, HasXexPath, MainTypes
<1>5. CASE OpenXEXFails
  <2>1. Abort(heap, {XexfilePath}, {"pe"})
    BY <1>3, <1>5 DEF OpenXEXFails
  <2> DEFINE S == {XexfilePath}
             F == {"pe"}
  <2>2. S \subseteq Strings /\ F = OpenFiles /\ XexfilePath \in S
    BY <1>1, NotOpenYet, StructsFacts
  <2>3. Abort(heap, S, F)
    BY <2>1
  <2>4. heap.lost \cap Finished = {} /\ ~Held(BasefilePath)
    BY <1>1, StageFacts DEF MainsHeld
  <2> HIDE DEF S, F
  <2> QED
    BY <1>1, <1>2, <2>2, <2>3, <2>4, GivesUp DEF Held
<1> QED
  BY <1>4, <1>5

(* From here to the basefile, a failure closes both files.                 *)
LEMMA GivesUpEarly ==
  ASSUME MainInv, stage \in {"validatePE", "getHdrData", "getImports", "basefile"},
         NEW h, Sound(h), h.lost \cap Finished = {},
         \A p \in Strings : Live(h, p) => Held(p), Abort(h, {XexfilePath}, {"pe", "xex"})
  PROVE  MainInv'
<1> DEFINE S == {XexfilePath}
           F == {"pe", "xex"}
<1>1. S \subseteq Strings /\ F = OpenFiles /\ XexfilePath \in S
  BY NotOpenYet, StructsFacts
<1>2. Abort(h, S, F)
  OBVIOUS
<1>3. ~Live(h, BasefilePath)
  BY StageFacts, StructsFacts DEF MainsHeld
<1> HIDE DEF S, F
<1> QED
  BY <1>1, <1>2, <1>3, GivesUp

LEMMA ValidatePEKeeps == MainInv /\ (ValidatePE \/ ValidatePEFails) => MainInv'
<1> SUFFICES ASSUME MainInv, ValidatePE \/ ValidatePEFails PROVE MainInv'
  OBVIOUS
<1>1. stage = "validatePE"
  BY DEF ValidatePE, ValidatePEFails, Stage, At
<1>2. CASE ValidatePE
  <2> DEFINE F == {"pe"}
  <2>1. /\ stage' = "getHdrData" /\ files' = Became(F, "open")
        /\ UNCHANGED <<options, gotInput, gotOutput, repeated, tableCount, exit, heap>>
    BY <1>2 DEF ValidatePE, Stage, At, Goto, optionVars
  <2>2. F \subseteq OpenFiles
    BY <1>1, NotOpenYet
  <2>3. OpenFiles' = OpenFiles
    BY <1>1, <2>1 DEF OpenFiles, HasXexPath, HasSections, Described, HasEntries, HasOffsets
  <2> HIDE DEF F
  <2> QED
    BY <1>1, <2>1, <2>2, <2>3, LooksOnly
    DEF Stages, HasXexPath, HasSections, HasImports, Described, HasEntries, HasOffsets
<1>3. CASE ValidatePEFails
  <2>1. Abort(heap, {XexfilePath}, {"pe", "xex"})
    BY <1>3 DEF ValidatePEFails
  <2> QED
    BY <1>1, <2>1, StageFacts, GivesUpEarly DEF Held
<1> QED
  BY <1>2, <1>3

LEMMA GetHdrDataKeeps == MainInv /\ (GetHdrData \/ GetHdrDataFails) => MainInv'
<1> SUFFICES ASSUME MainInv, GetHdrData \/ GetHdrDataFails PROVE MainInv'
  OBVIOUS
<1>1. stage = "getHdrData"
  BY DEF GetHdrData, GetHdrDataFails, Stage, At
<1>2. MainTypes /\ FilesOpen /\ Sound(heap) /\ MainsHeld /\ ArraysHeld
  BY <1>1, StageFacts
<1>3. Live(heap, PeData) /\ ~Live(heap, Sections)
  BY <1>1, <1>2 DEF MainsHeld, ArraysHeld, Held, HasOffsets, HasSections
<1>4. ASSUME NEW S \in {{}, {Sections}}
      PROVE  /\ Sound(Alloc(heap, S)) /\ Alloc(heap, S).lost = heap.lost
             /\ \A p \in Pointers : Live(Alloc(heap, S), p) <=> p \in S \/ Held(p)
  <2>1. S \subseteq Pointers /\ \A p \in S : \A q \in Inside(p) \ S : Live(heap, q)
    BY <1>3, <1>4, StructsFacts, InsideOf
  <2>2. {p \in S : Live(heap, p)} = {}
    BY <1>3, <1>4
  <2>3. /\ Sound(Alloc(heap, S))
        /\ \A p \in Pointers : Live(Alloc(heap, S), p) <=> p \in S \/ Live(heap, p)
        /\ Alloc(heap, S).lost = heap.lost \cup {p \in S : Live(heap, p)}
    BY <1>2, <2>1, AllocSound
  <2> QED
    BY <2>2, <2>3 DEF Held
<1>5. CASE GetHdrData
  <2> DEFINE F == {"pe"}
  <2>1. /\ stage' = "getImports" /\ files' = Became(F, "open") /\ heap' = Alloc(heap, {Sections})
        /\ UNCHANGED <<options, gotInput, gotOutput, repeated, tableCount, exit>>
    BY <1>5 DEF GetHdrData, Stage, At, Goto, optionVars
  <2>2. F \subseteq OpenFiles
    BY <1>1, NotOpenYet
  <2>3. OpenFiles' = OpenFiles
    BY <1>1, <2>1 DEF OpenFiles, HasXexPath, HasSections, Described, HasEntries, HasOffsets
  <2> HIDE DEF F
  <2>4. FilesOpen' /\ files' \in [{"pe", "xex", "basefile"} -> {"unopened", "open", "closed"}]
    BY <1>2, <2>1, <2>2, <2>3, FilesStay
  <2>5. /\ Sound(heap') /\ heap'.lost = heap.lost
        /\ \A p \in Pointers : Held(p)' <=> p = Sections \/ Held(p)
    BY <1>4, <2>1 DEF Held
  <2>6. MainsHeld'
    BY <1>1, <1>2, <2>1, <2>5, MainsStay, StructsFacts, Fields
    DEF MainsHeld, HasXexPath, HasOffsets, Structs
  <2>7. ArraysHeld'
    BY <1>1, <1>2, <2>1, <2>5, StructsFacts, Fields, IndexedFields
    DEF ArraysHeld, HasSections, HasImports, HasOffsets, HasEntries, Described
  <2> QED
    BY <1>1, <1>2, <2>1, <2>4, <2>5, <2>6, <2>7, StageKeeps DEF Stages, HasXexPath, MainTypes
<1>6. CASE GetHdrDataFails
  <2>1. PICK S \in {{}, {Sections}} : Abort(Alloc(heap, S), {XexfilePath}, {"pe", "xex"})
    BY <1>6 DEF GetHdrDataFails
  <2> DEFINE h == Alloc(heap, S)
  <2>2. Sound(h) /\ h.lost \cap Finished = {}
    BY <1>1, <1>4, StageFacts
  <2>3. \A p \in Strings : Live(h, p) => Held(p)
    BY <1>4, StructsFacts, StringsAre, Fields
  <2> HIDE DEF h
  <2> QED
    BY <1>1, <2>1, <2>2, <2>3, GivesUpEarly DEF h
<1> QED
  BY <1>5, <1>6
-----------------------------------------------------------------------------
(***************************************************************************)
(* The import tables, and what a failure in them forgets.                  *)
(***************************************************************************)
LEMMA NothingFinished ==
  /\ \A p \in {PeTables} \cup Names \cup AllImports \cup AllAddresses
              \cup {ImportTables, NameTable} : p \notin Finished
  /\ \A b \in {"currentIDT", "blankIDT", "sectionInfo", "buffer"} : Ptr(b) \notin Finished
<1>1. \A p \in Finished : Field(p) \in {"offsets", "xexHeader", "secInfoHeader", "peData",
        "optHeaderEntries", "optHeaders", "offsets->optHeaders", "secInfoHeader->descriptors",
        "peData->sections.section", "optHeaderEntries->optHeaderEntry"}
  BY Fields DEF Finished, Structs
<1>2. \A b : Field(Ptr(b)) = b
  BY DEF Field, Ptr
<1> QED
  BY <1>1, <1>2, Fields, IndexedFields

(* Blocks of S are lost with the pointers that led to them.                *)
LEMMA Forgets ==
  ASSUME NEW h, Sound(h), NEW S, S \cap Finished = {}, h.lost \cap Finished = {},
         \A q \in Pointers : Live(h, q) /\ q \notin S => Inside(q) \cap S = {},
         NEW g, g = [ptr   |-> [p \in Pointers |-> IF p \in S THEN "null" ELSE h.ptr[p]],
                     lost  |-> h.lost \cup S,
                     fault |-> FALSE]
  PROVE  /\ Sound(g) /\ g.lost \cap Finished = {}
         /\ \A p \in Pointers : Live(g, p) => Live(h, p)
<1> DEFINE f == Nulled(h, S)
<1>1. Sound(f) /\ \A p \in Pointers : Live(f, p) <=> p \notin S /\ Live(h, p)
  BY NulledSound, NulledIs
<1>2. f.ptr = [p \in Pointers |-> IF p \in S THEN "null" ELSE h.ptr[p]]
  BY DEF Nulled
<1> HIDE DEF f
<1>3. g = [ptr |-> f.ptr, lost |-> h.lost \cup S, fault |-> FALSE]
  BY <1>2
<1>4. /\ g.ptr = f.ptr /\ g.lost = h.lost \cup S
      /\ g = [ptr |-> g.ptr, lost |-> g.lost, fault |-> FALSE]
  BY <1>3
<1>5. \A p : Live(g, p) <=> Live(f, p)
  BY <1>4 DEF Live
<1> QED
  BY <1>1, <1>4, <1>5 DEF Sound

LEMMA LosesMore ==
  ASSUME NEW h, Sound(h), h.lost \cap Finished = {}, NEW B, B \cap Finished = {}
  PROVE  LET g == [h EXCEPT !.lost = @ \cup B]
         IN  /\ Sound(g) /\ g.lost \cap Finished = {}
             /\ \A p : Live(g, p) <=> Live(h, p)
<1> DEFINE r == h.ptr
           l == h.lost
           new == l \cup B
           g == [h EXCEPT !.lost = @ \cup B]
<1>1. h = [ptr |-> r, lost |-> l, fault |-> FALSE]
  BY DEF Sound
<1>2. g = [h EXCEPT !.lost = new]
  BY Zenon
<1>3. new \cap Finished = {}
  OBVIOUS
<1> HIDE DEF r, l, new, g
<1>4. g = [ptr |-> r, lost |-> new, fault |-> FALSE]
  BY <1>1, <1>2
<1>5. g.ptr = r /\ g.lost = new /\ g = [ptr |-> g.ptr, lost |-> g.lost, fault |-> FALSE]
  BY <1>4
<1>6. g.ptr = h.ptr
  BY <1>5 DEF r
<1>7. \A p : Live(g, p) <=> Live(h, p)
  BY <1>6 DEF Live
<1> QED
  BY <1>3, <1>5, <1>6, <1>7 DEF Sound, g

LEMMA Loses ==
  ASSUME NEW h, Sound(h), h.lost \cap Finished = {},
         NEW B, B \subseteq {"currentIDT", "blankIDT", "sectionInfo", "buffer"}
  PROVE  /\ Sound(Lose(h, B)) /\ Lose(h, B).lost \cap Finished = {}
         /\ \A p : Live(Lose(h, B), p) <=> Live(h, p)
<1> DEFINE C == {Ptr(b) : b \in B}
<1>1. Lose(h, B) = [h EXCEPT !.lost = @ \cup C]
  BY Zenon DEF Lose
<1>2. C \cap Finished = {}
  BY NothingFinished
<1> HIDE DEF C
<1> QED
  BY <1>1, <1>2, LosesMore

LEMMA ImportsStage ==
  ASSUME MainInv, stage = "getImports", NEW n \in 0 .. MaxTables, NEW W, W \subseteq 1 .. n
  PROVE  LET g == WithTables(heap, n, W)
         IN  /\ Sound(g) /\ g.lost = heap.lost /\ g.lost \cap Finished = {}
             /\ \A p \in Pointers : Live(g, p) <=> \/ Held(p)
                                                   \/ n > 0 /\ p = PeTables
                                                   \/ \E k \in 1 .. n : p = Name(k)
                                                   \/ \E k \in W : p = Imports(k)
             /\ Live(g, PeData)
             /\ \A p \in Strings : Live(g, p) => Held(p)
             /\ Live(g, PeTables) <=> n > 0
             /\ \A k \in Tables : Live(g, Name(k)) <=> k \in 1 .. n
             /\ \A k \in Tables : Live(g, Imports(k)) <=> k \in W
<1> DEFINE g == WithTables(heap, n, W)
<1>1. MainTypes /\ Sound(heap) /\ MainsHeld /\ ArraysHeld /\ heap.lost \cap Finished = {}
  BY StageFacts
<1>2. /\ Held(PeData) /\ Held(Sections) /\ ~Held(PeTables)
      /\ \A k \in Tables : ~Held(Name(k)) /\ ~Held(Imports(k))
  BY <1>1 DEF MainsHeld, ArraysHeld, HasOffsets, HasSections, HasImports
<1>3. /\ Sound(g) /\ g.lost = heap.lost
      /\ \A p \in Pointers : Live(g, p) <=> \/ Held(p)
                                            \/ n > 0 /\ p = PeTables
                                            \/ \E k \in 1 .. n : p = Name(k)
                                            \/ \E k \in W : p = Imports(k)
  BY <1>1, <1>2, TablesSound DEF Held
<1> HIDE DEF g
<1>4. Live(g, PeData) /\ (Live(g, PeTables) <=> n > 0)
  BY <1>2, <1>3, StructsFacts, Fields, IndexedFields DEF Structs
<1>5. \A p \in Strings : Live(g, p) => Held(p)
  BY <1>3, StructsFacts, StringsAre, Fields, IndexedFields
<1>6. \A k \in Tables : Live(g, Name(k)) <=> k \in 1 .. n
  BY <1>2, <1>3, StructsFacts, Fields, IndexedFields, Indexed
<1>7. \A k \in Tables : Live(g, Imports(k)) <=> k \in W
  <2>1. TAKE k \in Tables
  <2>2. /\ Imports(k) \in Pointers /\ ~Held(Imports(k)) /\ Imports(k) # PeTables
        /\ \A m : Imports(k) # Name(m)
    BY <1>2, StructsFacts, Fields, IndexedFields
  <2>3. (\E m \in W : Imports(k) = Imports(m)) <=> k \in W
    BY Indexed
  <2> QED
    BY <1>3, <2>2, <2>3
<1> QED
  BY <1>1, <1>3, <1>4, <1>5, <1>6, <1>7 DEF g

LEMMA GetImportsKeeps == MainInv /\ GetImports => MainInv'
<1> SUFFICES ASSUME MainInv, GetImports PROVE MainInv'
  OBVIOUS
<1>1. PICK n \in 0 .. MaxTables : \E W \in SUBSET (1 .. n) :
        Goto("basefile", WithTables(heap, n, W)) /\ tableCount' = n
  BY DEF GetImports
<1>2. PICK W \in SUBSET (1 .. n) : Goto("basefile", WithTables(heap, n, W)) /\ tableCount' = n
  BY <1>1
<1> DEFINE F == {"pe"}
<1>3. /\ stage = "getImports" /\ stage' = "basefile" /\ files' = Became(F, "open")
      /\ heap' = WithTables(heap, n, W) /\ tableCount' = n
      /\ UNCHANGED <<options, gotInput, gotOutput, repeated, exit>>
  BY <1>2 DEF GetImports, Stage, At, Goto, optionVars
<1>4. MainTypes /\ FilesOpen /\ MainsHeld /\ ArraysHeld
  BY <1>3, StageFacts
<1>5. F \subseteq OpenFiles
  BY <1>3, NotOpenYet
<1>6. OpenFiles' = OpenFiles
  BY <1>3 DEF OpenFiles, HasXexPath, HasSections, Described, HasEntries, HasOffsets
<1> HIDE DEF F
<1>7. FilesOpen' /\ files' \in [{"pe", "xex", "basefile"} -> {"unopened", "open", "closed"}]
  BY <1>3, <1>4, <1>5, <1>6, FilesStay
<1>8. /\ Sound(heap') /\ heap'.lost = heap.lost
      /\ \A p \in Pointers : Held(p)' <=> \/ Held(p)
                                          \/ n > 0 /\ p = PeTables
                                          \/ \E k \in 1 .. n : p = Name(k)
                                          \/ \E k \in W : p = Imports(k)
      /\ Held(PeData)'
      /\ \A p \in Strings : Held(p)' => Held(p)
      /\ Held(PeTables)' <=> n > 0
      /\ \A k \in Tables : Held(Name(k))' <=> k \in 1 .. n
      /\ \A k \in Tables : Held(Imports(k))' <=> k \in W
  BY <1>3, ImportsStage DEF Held
<1>9. MainsHeld'
  BY <1>3, <1>4, <1>8, MainsStay, StructsFacts DEF MainsHeld, HasXexPath, HasOffsets
<1>10. ArraysHeld'
  <2>1. ASSUME NEW p \in {OptOffsets, Descriptors, Sections, OptEntry, ImportTables, NameTable}
               \cup AllAddresses
        PROVE  Held(p)' <=> Held(p)
    BY <1>8, <2>1, PointersAre, Fields, IndexedFields
  <2>2. \A k \in Tables : k \in 1 .. n <=> k <= n
    BY MainStructsAssumption DEF Tables
  <2> QED
    BY <1>3, <1>4, <1>8, <2>1, <2>2, Indexed
    DEF ArraysHeld, HasSections, HasImports, HasOffsets, HasEntries, Described
<1> QED
  BY <1>3, <1>4, <1>7, <1>8, <1>9, <1>10, StageKeeps DEF Stages, HasXexPath, MainTypes
LEMMA ImportsGiveUp ==
  ASSUME MainInv, stage = "getImports", NEW h, Sound(h), h.lost \cap Finished = {},
         \A p \in Strings : Live(h, p) => Held(p), GetImportsAborts(h)
  PROVE  MainInv'
<1>1. Abort(h, {XexfilePath}, {"pe", "xex"})
  BY DEF GetImportsAborts
<1> QED
  BY <1>1, GivesUpEarly

LEMMA GetImportsFailsKeeps == MainInv /\ GetImportsFails => MainInv'
<1> SUFFICES ASSUME MainInv, GetImportsFails PROVE MainInv'
  OBVIOUS
<1>1. stage = "getImports"
  BY DEF GetImportsFails
<1> DEFINE Parts(n) == {{}, {PeTables}, {PeTables, Name(n)}, {PeTables, Name(n), Imports(n)}}
           New(S, n) == S \ (IF n > 1 THEN {PeTables} ELSE {})
<1>2. PICK n, W :
        /\ n \in Tables /\ W \subseteq 1 .. (n - 1)
        /\ \/ \E S \in Parts(n) :
                GetImportsAborts(Alloc(WithTables(heap, n - 1, W), New(S, n)))
           \/ \E T \in SUBSET {n} :
                GetImportsAborts(Lose(WithTables(heap, n, W \cup T), IDTs))
  BY DEF GetImportsFails
<1>3. /\ n \in Tables /\ n \in 1 .. MaxTables /\ n - 1 \in 0 .. MaxTables
      /\ W \subseteq 1 .. (n - 1)
      /\ \A T \in SUBSET {n} : W \cup T \subseteq 1 .. n
  <2>1. n \in Tables /\ W \subseteq 1 .. (n - 1)
    BY <1>2
  <2> QED
    BY <2>1, MainStructsAssumption DEF Tables
<1>4. ASSUME NEW S \in Parts(n), GetImportsAborts(Alloc(WithTables(heap, n - 1, W), New(S, n)))
      PROVE  MainInv'
  <2> DEFINE b == WithTables(heap, n - 1, W)
             A == New(S, n)
             h == Alloc(b, A)
  <2>1. /\ Sound(b) /\ b.lost \cap Finished = {} /\ Live(b, PeData)
        /\ \A p \in Strings : Live(b, p) => Held(p)
        /\ Live(b, PeTables) <=> n - 1 > 0
    BY <1>1, <1>3, ImportsStage
  <2>2. A \subseteq {PeTables} \cup Names \cup AllImports
    BY <1>3, <1>4, Indexed
  <2>3. A = {} \/ PeTables \in A \/ n > 1
    BY <1>4
  <2> HIDE DEF A, b
  <2>4. A \subseteq Pointers
    BY <2>2, PointersAre
  <2>5. A = {} \/ PeTables \in A \/ Live(b, PeTables)
    BY <1>3, <2>1, <2>3
  <2>6. \A p \in A : \A q \in Inside(p) \ A : Live(b, q)
    BY <2>1, <2>2, <2>5, InsideOf
  <2>7. /\ Sound(h) /\ \A p \in Pointers : Live(h, p) <=> p \in A \/ Live(b, p)
        /\ h.lost = b.lost \cup {p \in A : Live(b, p)}
    BY <2>1, <2>4, <2>6, AllocSound
  <2> HIDE DEF h
  <2>8. h.lost \cap Finished = {}
    BY <2>1, <2>2, <2>7, NothingFinished
  <2>9. \A p \in Strings : Live(h, p) => Held(p)
    BY <2>1, <2>2, <2>7, StructsFacts, StringsAre, Fields, IndexedFields
  <2> QED
    BY <1>1, <1>4, <2>7, <2>8, <2>9, ImportsGiveUp DEF h, A, b
<1>5. ASSUME NEW T \in SUBSET {n}, GetImportsAborts(Lose(WithTables(heap, n, W \cup T), IDTs))
      PROVE  MainInv'
  <2> DEFINE V == W \cup T
             g == WithTables(heap, n, V)
             h == Lose(g, IDTs)
  <2>1. V \subseteq 1 .. n /\ n \in 0 .. MaxTables
    BY <1>3
  <2> HIDE DEF V
  <2>2. /\ Sound(g) /\ g.lost \cap Finished = {}
        /\ \A p \in Strings : Live(g, p) => Held(p)
    BY <1>1, <2>1, ImportsStage
  <2> HIDE DEF g
  <2>3. /\ Sound(h) /\ h.lost \cap Finished = {}
        /\ \A p : Live(h, p) <=> Live(g, p)
    BY <2>2, Loses DEF IDTs
  <2> HIDE DEF h
  <2> QED
    BY <1>1, <1>5, <2>2, <2>3, ImportsGiveUp DEF h, g, V
<1> HIDE DEF Parts, New
<1> QED
  BY <1>2, <1>4, <1>5

(* A failed realloc leaves no pointer to the old block.                    *)
LEMMA GetImportsReallocFailsKeeps == MainInv /\ GetImportsReallocFails => MainInv'
<1> SUFFICES ASSUME MainInv, GetImportsReallocFails PROVE MainInv'
  OBVIOUS
<1>1. stage = "getImports"
  BY DEF GetImportsReallocFails
<1> DEFINE S(n, W) == IF n > 1 THEN {PeTables} \cup {Name(k) : k \in 1 .. n - 1}
                                    \cup {Imports(k) : k \in W}
                      ELSE {}
<1>2. PICK n, W :
        /\ n \in Tables /\ W \subseteq 1 .. (n - 1)
        /\ \/ GetImportsAborts([WithTables(heap, n - 1, W) EXCEPT
                                  !.lost = @ \cup S(n, W),
                                  !.ptr  = [p \in Pointers |->
                                              IF p \in S(n, W) THEN "null" ELSE @[p]]])
           \/ GetImportsAborts([WithTables(heap, n, W) EXCEPT !.lost = @ \cup {Name(n)},
                                                              !.ptr[Name(n)] = "null"])
  BY DEF GetImportsReallocFails
<1>3. /\ n \in Tables /\ n \in 1 .. MaxTables /\ n - 1 \in 0 .. MaxTables
      /\ W \subseteq 1 .. (n - 1) /\ W \subseteq 1 .. n /\ n \in 0 .. MaxTables
      /\ 1 .. n \subseteq Tables
  <2>1. n \in Tables /\ W \subseteq 1 .. (n - 1)
    BY <1>2
  <2> QED
    BY <2>1, MainStructsAssumption DEF Tables
<1>4. ASSUME NEW b, Sound(b), b.lost \cap Finished = {},
             \A p \in Strings : Live(b, p) => Held(p),
             NEW X, X \cap Finished = {},
             \A q \in Pointers : Live(b, q) /\ q \notin X => Inside(q) \cap X = {},
             NEW h, h = [ptr   |-> [p \in Pointers |-> IF p \in X THEN "null" ELSE b.ptr[p]],
                         lost  |-> b.lost \cup X,
                         fault |-> FALSE],
             GetImportsAborts(h)
      PROVE  MainInv'
  <2>1. /\ Sound(h) /\ h.lost \cap Finished = {}
        /\ \A p \in Pointers : Live(h, p) => Live(b, p)
    BY <1>4, Forgets
  <2> QED
    BY <1>1, <1>4, <2>1, StructsFacts, ImportsGiveUp
<1>5. CASE GetImportsAborts([WithTables(heap, n - 1, W) EXCEPT
                               !.lost = @ \cup S(n, W),
                               !.ptr  = [p \in Pointers |->
                                           IF p \in S(n, W) THEN "null" ELSE @[p]]])
  <2> DEFINE b == WithTables(heap, n - 1, W)
             X == S(n, W)
             ptr == [p \in Pointers |-> IF p \in X THEN "null" ELSE b.ptr[p]]
             lost == b.lost \cup X
             h == [b EXCEPT !.lost = @ \cup X,
                            !.ptr = [p \in Pointers |-> IF p \in X THEN "null" ELSE @[p]]]
  <2>1. /\ Sound(b) /\ b.lost \cap Finished = {}
        /\ \A p \in Strings : Live(b, p) => Held(p)
        /\ Live(b, PeTables) <=> n - 1 > 0
        /\ \A k \in Tables : Live(b, Name(k)) <=> k \in 1 .. (n - 1)
        /\ \A k \in Tables : Live(b, Imports(k)) <=> k \in W
    BY <1>1, <1>3, ImportsStage
  <2> HIDE DEF b
  <2>2. X \subseteq {PeTables} \cup Names \cup AllImports
    BY <1>3, Indexed
  <2>3. X \cap Finished = {}
    BY <2>2, NothingFinished
  <2>4. \A q \in Pointers : Live(b, q) /\ q \notin X => Inside(q) \cap X = {}
    <3>1. SUFFICES ASSUME NEW q \in Pointers, Live(b, q), q \notin X PROVE Inside(q) \cap X = {}
      OBVIOUS
    <3>2. CASE n > 1
      <4>1. q \notin Names
        <5>1. SUFFICES ASSUME NEW k \in Tables, q = Name(k) PROVE FALSE
          BY Indexed
        <5>2. k \in 1 .. (n - 1)
          BY <2>1, <3>1, <5>1
        <5> QED
          BY <3>1, <3>2, <5>1, <5>2
      <4>2. q \notin AllImports
        <5>1. SUFFICES ASSUME NEW k \in Tables, q = Imports(k) PROVE FALSE
          BY Indexed
        <5>2. k \in W
          BY <2>1, <3>1, <5>1
        <5> QED
          BY <3>1, <3>2, <5>1, <5>2
      <4> QED
        BY <2>2, <4>1, <4>2, LiesIn, Fields, IndexedFields
    <3>3. CASE ~(n > 1)
      BY <3>3
    <3> QED
      BY <3>2, <3>3
  <2>5. h = [ptr |-> ptr, lost |-> lost, fault |-> FALSE]
    <3> DEFINE r == b.ptr
               l == b.lost
    <3>1. b = [ptr |-> r, lost |-> l, fault |-> FALSE]
      BY <2>1 DEF Sound
    <3>2. h = [b EXCEPT !.lost = lost, !.ptr = ptr]
      BY Zenon DEF h, lost, ptr
    <3> HIDE DEF r, l, h, lost, ptr
    <3> QED
      BY <3>1, <3>2
  <2>6. GetImportsAborts(h)
    BY <1>5 DEF b
  <2> HIDE DEF X, h
  <2> QED
    BY <1>4, <2>1, <2>3, <2>4, <2>5, <2>6
<1>6. CASE GetImportsAborts([WithTables(heap, n, W) EXCEPT !.lost = @ \cup {Name(n)},
                                                           !.ptr[Name(n)] = "null"])
  <2> DEFINE b == WithTables(heap, n, W)
             X == {Name(n)}
             ptr == [p \in Pointers |-> IF p \in X THEN "null" ELSE b.ptr[p]]
             lost == b.lost \cup X
             h == [b EXCEPT !.lost = @ \cup {Name(n)}, !.ptr[Name(n)] = "null"]
  <2>1. /\ Sound(b) /\ b.lost \cap Finished = {}
        /\ \A p \in Strings : Live(b, p) => Held(p)
    BY <1>1, <1>3, ImportsStage
  <2>2. GetImportsAborts(h)
    BY <1>6
  <2> HIDE DEF b
  <2>3. X \cap Finished = {}
    BY <1>3, Indexed, NothingFinished
  <2>4. \A q \in Pointers : Live(b, q) /\ q \notin X => Inside(q) \cap X = {}
    BY LiesIn, Fields, IndexedFields
  <2>5. h = [ptr |-> ptr, lost |-> lost, fault |-> FALSE]
    <3> DEFINE r == b.ptr
               l == b.lost
               s == [r EXCEPT ![Name(n)] = "null"]
    <3>1. b = [ptr |-> r, lost |-> l, fault |-> FALSE] /\ r \in [Pointers -> {"null", "live"}]
      BY <2>1 DEF Sound
    <3>2. h = [b EXCEPT !.lost = lost, !.ptr = s]
      BY Zenon DEF h, lost, s
    <3>3. s = ptr
      BY <3>1
    <3> HIDE DEF r, l, h, lost, s, ptr
    <3> QED
      BY <3>1, <3>2, <3>3
  <2> HIDE DEF X, h
  <2> QED
    BY <1>4, <2>1, <2>2, <2>3, <2>4, <2>5
<1> HIDE DEF S
<1> QED
  BY <1>2, <1>5, <1>6
-----------------------------------------------------------------------------
(***************************************************************************)
(* The basefile, the page descriptors and the optional headers.            *)
(***************************************************************************)
LEMMA OpenBasefileKeeps == MainInv /\ (OpenBasefile \/ OpenBasefileFails) => MainInv'
<1> SUFFICES ASSUME MainInv, OpenBasefile \/ OpenBasefileFails PROVE MainInv'
  OBVIOUS
<1>1. stage = "basefile"
  BY DEF OpenBasefile, OpenBasefileFails, At
<1>2. /\ MainTypes /\ FilesOpen /\ Sound(heap) /\ MainsHeld /\ ArraysHeld
      /\ heap.lost \cap Finished = {}
  BY <1>1, StageFacts
<1>3. Held(XexfilePath) /\ ~Held(BasefilePath)
  BY <1>1, <1>2 DEF MainsHeld, HasXexPath
<1> DEFINE B == {BasefilePath}
           g == Alloc(heap, B)
<1>4. B \subseteq Pointers /\ \A p \in B : \A q \in Inside(p) \ B : Live(heap, q)
  BY StructsFacts
<1>5. {p \in B : Live(heap, p)} = {}
  BY <1>3 DEF Held
<1> HIDE DEF B
<1>6. /\ Sound(g) /\ g.lost = heap.lost
      /\ \A p \in Pointers : Live(g, p) <=> p \in B \/ Held(p)
  <2>1. /\ Sound(g) /\ g.lost = heap.lost \cup {p \in B : Live(heap, p)}
        /\ \A p \in Pointers : Live(g, p) <=> p \in B \/ Live(heap, p)
    BY <1>2, <1>4, AllocSound
  <2> QED
    BY <1>5, <2>1 DEF Held
<1> HIDE DEF g
<1>7. CASE OpenBasefile
  <2> DEFINE S == {XexfilePath, BasefilePath}
  <2>1. /\ stage' = "mapPE" /\ exit' = exit /\ heap' = nullAndFree(Use(g, S), S)
        /\ files' = [files EXCEPT !["basefile"] = "open"]
        /\ UNCHANGED <<options, gotInput, gotOutput, repeated, tableCount>>
    BY <1>7 DEF OpenBasefile, At, Goto, optionVars, g, B
  <2>2. S \subseteq Strings /\ S \subseteq Pointers /\ \A p \in S : Live(g, p)
    BY <1>3, <1>6, StructsFacts DEF B
  <2>3. \A p : p \in S <=> p = XexfilePath \/ p = BasefilePath
    OBVIOUS
  <2> HIDE DEF S
  <2>4. Frees(heap', g, S)
    BY <1>6, <2>1, <2>2, UseSound, StringsFreed
  <2>5. /\ Sound(heap') /\ heap'.lost = heap.lost
        /\ \A p \in Pointers : Held(p)' <=> p # XexfilePath /\ p # BasefilePath /\ Held(p)
    BY <1>6, <2>3, <2>4, FreesIs DEF Held, B
  <2>6. FilesOpen' /\ files' \in [{"pe", "xex", "basefile"} -> {"unopened", "open", "closed"}]
    <3>1. OpenFiles = {"pe", "xex"} /\ OpenFiles' = {"pe", "xex", "basefile"}
      BY <1>1, <2>1 DEF OpenFiles, HasXexPath, HasSections, Described, HasEntries, HasOffsets
    <3> QED
      BY <1>2, <2>1, <3>1 DEF MainTypes, FilesOpen
  <2>7. \A p \in Structs : Held(p) => Held(p)'
    BY <2>5, StructsFacts, Fields DEF Structs
  <2>8. MainsHeld'
    <3>1. Held(PeData) /\ ~Held(PePath) /\ PeData \in Structs /\ PeData \in Pointers
      BY <1>1, <1>2, StructsFacts DEF MainsHeld, HasOffsets, Structs
    <3>2. ~Held(PePath)' /\ ~Held(XexfilePath)' /\ ~Held(BasefilePath)' /\ Held(PeData)'
      BY <2>5, <2>7, <3>1, StructsFacts
    <3> QED
      BY <1>1, <2>1, <2>7, <3>2, MainsStay DEF HasXexPath, HasOffsets
  <2>9. ArraysHeld'
    <3>1. ASSUME NEW p \in {OptOffsets, Descriptors, Sections, PeTables, OptEntry, ImportTables,
                            NameTable} \cup Names \cup AllImports \cup AllAddresses
          PROVE  Held(p)' <=> Held(p)
      BY <2>5, <3>1, PointersAre, Fields, IndexedFields
    <3> QED
      BY <1>1, <1>2, <2>1, <3>1, Indexed
      DEF ArraysHeld, HasSections, HasImports, HasOffsets, HasEntries, Described
  <2> QED
    BY <1>1, <1>2, <2>1, <2>5, <2>6, <2>8, <2>9, StageKeeps DEF Stages, HasSections, MainTypes
<1>8. CASE OpenBasefileFails
  <2>1. CASE Abort(heap, {XexfilePath}, {"pe", "xex"})
    BY <1>1, <1>2, <2>1, GivesUpEarly DEF Held
  <2>2. CASE Abort(g, {XexfilePath, BasefilePath}, {"pe", "xex"})
    <3> DEFINE S == {XexfilePath, BasefilePath}
               F == {"pe", "xex"}
    <3>1. S \subseteq Strings /\ F = OpenFiles /\ XexfilePath \in S /\ BasefilePath \in S
      BY <1>1, NotOpenYet, StructsFacts
    <3>2. Abort(g, S, F)
      BY <2>2
    <3>3. g.lost \cap Finished = {} /\ \A p \in Strings : Live(g, p) => Held(p) \/ p = BasefilePath
      BY <1>2, <1>6, StructsFacts DEF B
    <3> HIDE DEF S, F
    <3> QED
      BY <1>1, <1>6, <3>1, <3>2, <3>3, GivesUp
  <2> QED
    BY <1>8, <2>1, <2>2 DEF OpenBasefileFails, g, B
<1> QED
  BY <1>7, <1>8

LEMMA MapPEToBasefileKeeps ==
  MainInv /\ (MapPEToBasefile \/ MapPEToBasefileFails) => MainInv'
<1> SUFFICES ASSUME MainInv, MapPEToBasefile \/ MapPEToBasefileFails PROVE MainInv'
  OBVIOUS
<1>1. stage = "mapPE"
  BY DEF MapPEToBasefile, MapPEToBasefileFails, At
<1>2. /\ MainTypes /\ FilesOpen /\ Sound(heap) /\ MainsHeld /\ ArraysHeld
      /\ heap.lost \cap Finished = {}
  BY <1>1, StageFacts
<1>3. OpenFiles = {"pe", "xex", "basefile"}
  BY <1>1, NotOpenYet
<1>4. CASE MapPEToBasefile
  <2> DEFINE S == {PeData} \cup PeImports
  <2>1. /\ stage' = "setSecInfo" /\ exit' = exit /\ heap' = Use(heap, S)
        /\ files' = [Became({"basefile"}, "open") EXCEPT !["pe"] = Closed({"pe"})["pe"]]
        /\ UNCHANGED <<options, gotInput, gotOutput, repeated, tableCount>>
    BY <1>4 DEF MapPEToBasefile, At, Goto, optionVars
  <2>2. S \subseteq Pointers /\ \A p \in S : Live(heap, p)
    <3>1. Held(PeData) /\ (tableCount > 0 => Held(PeTables))
      BY <1>1, <1>2 DEF MainsHeld, ArraysHeld, HasOffsets, HasImports
    <3>2. \A p \in PeImports : p = PeTables /\ tableCount > 0
      BY <1>2 DEF PeImports, MainTypes
    <3>3. PeData \in Pointers /\ PeTables \in Pointers
      BY PointersAre DEF Structs
    <3>4. \A p \in S : p = PeData \/ (p = PeTables /\ tableCount > 0)
      BY <3>2
    <3> QED
      BY <3>1, <3>3, <3>4 DEF Held
  <2> HIDE DEF S
  <2>3. heap' = heap
    BY <1>2, <2>1, <2>2, UseSound
  <2>4. FilesOpen' /\ files' \in [{"pe", "xex", "basefile"} -> {"unopened", "open", "closed"}]
    <3>1. OpenFiles' = {"xex", "basefile"}
      BY <2>1 DEF OpenFiles, HasXexPath, HasSections, Described, HasEntries, HasOffsets
    <3>2. DOMAIN files = {"pe", "xex", "basefile"} /\ files["pe"] = "open"
      BY <1>2, <1>3 DEF MainTypes, FilesOpen
    <3> DEFINE B == {"basefile"}
    <3>3. Became(B, "open") = files
      <4>1. B \subseteq OpenFiles
        BY <1>3
      <4> HIDE DEF B
      <4> QED
        BY <1>2, <4>1, StillOpen
    <3>4. Closed({"pe"})["pe"] = "closed"
      BY <3>2 DEF Closed, Became
    <3>5. files' = [files EXCEPT !["pe"] = "closed"]
      BY <2>1, <3>3, <3>4
    <3> QED
      BY <1>2, <1>3, <3>1, <3>5 DEF MainTypes, FilesOpen
  <2>5. \A p : Held(p)' <=> Held(p)
    BY <2>3 DEF Held
  <2>6. MainsHeld'
    BY <1>1, <1>2, <2>1, <2>5 DEF MainsHeld, HasXexPath, HasOffsets
  <2>7. ArraysHeld'
    BY <1>1, <1>2, <2>1, <2>5
    DEF ArraysHeld, HasSections, HasImports, HasOffsets, HasEntries, Described
  <2> QED
    BY <1>1, <1>2, <2>1, <2>3, <2>4, <2>6, <2>7, StageKeeps DEF Stages, HasSections, MainTypes
<1>5. CASE MapPEToBasefileFails
  <2>1. PICK L \in {{}, {"sectionInfo"}, {"sectionInfo", "buffer"}} :
          Abort(Lose(heap, L), {}, {"pe", "basefile", "xex"})
    BY <1>5 DEF MapPEToBasefileFails
  <2> DEFINE h == Lose(heap, L)
             S == {}
             F == {"pe", "basefile", "xex"}
  <2>2. L \subseteq {"currentIDT", "blankIDT", "sectionInfo", "buffer"}
    OBVIOUS
  <2>3. /\ Sound(h) /\ h.lost \cap Finished = {}
        /\ \A p : Live(h, p) <=> Live(heap, p)
    BY <1>2, <2>2, Loses
  <2>4. S \subseteq Strings /\ F = OpenFiles /\ Abort(h, S, F)
    BY <1>3, <2>1
  <2>5. ~Live(h, BasefilePath) /\ stage \notin HasXexPath
    BY <1>1, <1>2, <2>3 DEF MainsHeld, Held, HasXexPath
  <2> HIDE DEF h, S, F
  <2> QED
    BY <1>1, <2>3, <2>4, <2>5, GivesUp DEF Held
<1> QED
  BY <1>4, <1>5

LEMMA SetSecInfoHeaderKeeps == MainInv /\ SetSecInfoHeader => MainInv'
<1> SUFFICES ASSUME MainInv, SetSecInfoHeader PROVE MainInv'
  OBVIOUS
<1> DEFINE F == {}
           S == {SecInfoHeader, PeData}
<1>1. /\ stage = "setSecInfo" /\ stage' = "pageDescriptors" /\ files' = Became(F, "open")
      /\ heap' = Use(heap, S)
      /\ UNCHANGED <<options, gotInput, gotOutput, repeated, tableCount, exit>>
  BY DEF SetSecInfoHeader, Stage, At, Goto, optionVars
<1>2. Sound(heap) /\ MainsHeld
  BY <1>1, StageFacts
<1>3. S \subseteq Pointers /\ \A p \in S : Live(heap, p)
  BY <1>1, <1>2, StructsFacts DEF MainsHeld, Held, HasOffsets, Structs
<1>4. F \subseteq OpenFiles
  OBVIOUS
<1>5. OpenFiles' = OpenFiles
  BY <1>1 DEF OpenFiles, HasXexPath, HasSections, Described, HasEntries, HasOffsets
<1> HIDE DEF F, S
<1>6. heap' = heap
  BY <1>1, <1>2, <1>3, UseSound
<1> QED
  BY <1>1, <1>4, <1>5, <1>6, LooksOnly
  DEF Stages, HasXexPath, HasSections, HasImports, Described, HasEntries, HasOffsets

(* From here on, a failure of the build has two files to close.            *)
LEMMA GivesUpLate ==
  ASSUME MainInv, stage \in {"setSecInfo", "pageDescriptors"} \cup Described,
         NEW h, Sound(h), h.lost \cap Finished = {},
         \A p \in Strings : Live(h, p) => Held(p), AbortBuild(h)
  PROVE  MainInv'
<1> DEFINE S == {}
           F == {"basefile", "xex"}
<1>1. S \subseteq Strings /\ F = OpenFiles
  BY NotOpenYet
<1>2. Abort(h, S, F)
  BY DEF AbortBuild
<1>3. stage \notin {"calloc", "options", "exited"} /\ stage \notin HasXexPath
  BY DEF Described, HasEntries, HasOffsets, HasXexPath
<1>4. ~Live(h, BasefilePath)
  BY <1>3, StageFacts, StructsFacts DEF MainsHeld
<1> HIDE DEF S, F
<1> QED
  BY <1>1, <1>2, <1>3, <1>4, GivesUp

LEMMA SetPageDescriptorsKeeps ==
  MainInv /\ (SetPageDescriptors \/ SetPageDescriptorsFails) => MainInv'
<1> SUFFICES ASSUME MainInv, SetPageDescriptors \/ SetPageDescriptorsFails PROVE MainInv'
  OBVIOUS
<1>1. stage = "pageDescriptors"
  BY DEF SetPageDescriptors, SetPageDescriptorsFails, Stage, At
<1>2. /\ MainTypes /\ FilesOpen /\ Sound(heap) /\ MainsHeld /\ ArraysHeld
      /\ heap.lost \cap Finished = {}
  BY <1>1, StageFacts
<1>3. Held(SecInfoHeader) /\ Held(PeData) /\ Held(Sections) /\ ~Held(Descriptors)
  BY <1>1, <1>2, StageFacts, Fields
  DEF MainsHeld, ArraysHeld, HasOffsets, HasSections, Described, HasEntries, Structs
<1>4. ASSUME NEW S \in {{}, {Descriptors}}
      PROVE  /\ Sound(Alloc(heap, S)) /\ Alloc(heap, S).lost = heap.lost
             /\ \A p \in Pointers : Live(Alloc(heap, S), p) <=> p \in S \/ Held(p)
  <2>1. S \subseteq Pointers /\ \A p \in S : \A q \in Inside(p) \ S : Live(heap, q)
    BY <1>3, <1>4, StructsFacts, InsideOf DEF Held
  <2>2. {p \in S : Live(heap, p)} = {}
    BY <1>3, <1>4 DEF Held
  <2>3. /\ Sound(Alloc(heap, S))
        /\ \A p \in Pointers : Live(Alloc(heap, S), p) <=> p \in S \/ Live(heap, p)
        /\ Alloc(heap, S).lost = heap.lost \cup {p \in S : Live(heap, p)}
    BY <1>2, <2>1, AllocSound
  <2> QED
    BY <2>2, <2>3 DEF Held
<1>5. CASE SetPageDescriptors
  <2> DEFINE F == {"basefile"}
             S == {SecInfoHeader, Sections}
             g == Alloc(heap, {Descriptors})
  <2>1. /\ stage' = "optHeaders" /\ files' = Became(F, "open")
        /\ heap' = freeSectionsStruct(Alloc(Use(heap, S), {Descriptors}))
        /\ UNCHANGED <<options, gotInput, gotOutput, repeated, tableCount, exit>>
    BY <1>5 DEF SetPageDescriptors, Stage, At, Goto, optionVars
  <2>2. S \subseteq Pointers /\ \A p \in S : Live(heap, p)
    BY <1>3, StructsFacts DEF Held, Structs
  <2>3. F \subseteq OpenFiles
    BY <1>1, NotOpenYet
  <2>4. OpenFiles' = OpenFiles
    BY <1>1, <2>1 DEF OpenFiles, HasXexPath, HasSections, Described, HasEntries, HasOffsets
  <2> HIDE DEF F, S
  <2>5. FilesOpen' /\ files' \in [{"pe", "xex", "basefile"} -> {"unopened", "open", "closed"}]
    BY <1>2, <2>1, <2>3, <2>4, FilesStay
  <2>6. heap' = freeSectionsStruct(g)
    BY <1>2, <2>1, <2>2, UseSound
  <2>7. /\ Sound(g) /\ g.lost = heap.lost
        /\ \A p \in Pointers : Live(g, p) <=> p = Descriptors \/ Held(p)
    BY <1>4
  <2> HIDE DEF g
  <2>8. Live(g, PeData)
    BY <1>3, <2>7, StructsFacts DEF Structs
  <2>9. Frees(heap', g, {Sections})
    BY <2>6, <2>7, <2>8, SectionsFreed
  <2>10. /\ Sound(heap') /\ heap'.lost = heap.lost
         /\ \A p \in Pointers : Held(p)' <=> p # Sections /\ (p = Descriptors \/ Held(p))
    BY <2>7, <2>9, FreesIs DEF Held
  <2>11. \A p \in Structs : Held(p) => Held(p)'
    BY <2>10, StructsFacts, Fields DEF Structs
  <2>12. MainsHeld'
    <3>1. ~Held(XexfilePath) /\ ~Held(PePath) /\ ~Held(BasefilePath) /\ PeData \in Structs
      BY <1>1, <1>2 DEF MainsHeld, HasXexPath, Structs
    <3>2. ~Held(PePath)' /\ ~Held(XexfilePath)' /\ ~Held(BasefilePath)' /\ Held(PeData)'
      BY <1>3, <2>10, <2>11, <3>1, StructsFacts, Fields
    <3> QED
      BY <1>1, <2>1, <2>11, <3>2, MainsStay DEF HasXexPath, HasOffsets
  <2>13. ArraysHeld'
    <3>1. ASSUME NEW p \in {OptOffsets, PeTables, OptEntry, ImportTables, NameTable}
                           \cup Names \cup AllImports \cup AllAddresses
          PROVE  Held(p)' <=> Held(p)
      BY <2>10, <3>1, PointersAre, Fields, IndexedFields
    <3>2. Held(Descriptors)' /\ ~Held(Sections)'
      BY <2>10, StructsFacts, Fields
    <3> QED
      BY <1>1, <1>2, <2>1, <3>1, <3>2, Indexed
      DEF ArraysHeld, HasSections, HasImports, HasOffsets, HasEntries, Described
  <2> QED
    BY <1>1, <1>2, <2>1, <2>5, <2>10, <2>12, <2>13, StageKeeps DEF Stages, Described, MainTypes
<1>6. CASE SetPageDescriptorsFails
  <2>1. PICK S \in {{}, {Descriptors}} : AbortBuild(Alloc(heap, S))
    BY <1>6 DEF SetPageDescriptorsFails
  <2> DEFINE h == Alloc(heap, S)
  <2>2. Sound(h) /\ h.lost \cap Finished = {}
    BY <1>2, <1>4
  <2>3. \A p \in Strings : Live(h, p) => Held(p)
    BY <1>4, StructsFacts, StringsAre, Fields
  <2> HIDE DEF h
  <2> QED
    BY <1>1, <2>1, <2>2, <2>3, GivesUpLate DEF h
<1> QED
  BY <1>5, <1>6
LEMMA OptHeadersStage ==
  ASSUME MainInv, stage = "optHeaders"
  PROVE  /\ MainTypes /\ FilesOpen /\ Sound(heap) /\ MainsHeld /\ ArraysHeld
         /\ heap.lost \cap Finished = {} /\ 1 .. tableCount \subseteq Tables
         /\ Sound(Alloc(heap, {OptEntry})) /\ Alloc(heap, {OptEntry}).lost = heap.lost
         /\ \A p \in Pointers : Live(Alloc(heap, {OptEntry}), p) <=> p = OptEntry \/ Held(p)
<1>1. /\ MainTypes /\ FilesOpen /\ Sound(heap) /\ MainsHeld /\ ArraysHeld
      /\ heap.lost \cap Finished = {} /\ Held(OptEntries)
  BY StageFacts, Fields DEF Structs
<1>2. 1 .. tableCount \subseteq Tables
  BY <1>1, MainStructsAssumption DEF MainTypes, Tables
<1>3. ~Held(OptEntry)
  BY <1>1 DEF ArraysHeld, HasEntries, HasOffsets
<1> DEFINE S == {OptEntry}
<1>4. S \subseteq Pointers /\ \A p \in S : \A q \in Inside(p) \ S : Live(heap, q)
  BY <1>1, StructsFacts, InsideOf DEF Held
<1>5. {p \in S : Live(heap, p)} = {}
  BY <1>3 DEF Held
<1>6. \A p : p \in S <=> p = OptEntry
  OBVIOUS
<1> HIDE DEF S
<1>7. /\ Sound(Alloc(heap, S)) /\ Alloc(heap, S).lost = heap.lost \cup {p \in S : Live(heap, p)}
      /\ \A p \in Pointers : Live(Alloc(heap, S), p) <=> p \in S \/ Live(heap, p)
  BY <1>1, <1>4, AllocSound
<1>8. /\ Sound(Alloc(heap, S)) /\ Alloc(heap, S).lost = heap.lost
      /\ \A p \in Pointers : Live(Alloc(heap, S), p) <=> p = OptEntry \/ Held(p)
  BY <1>5, <1>6, <1>7 DEF Held
<1> QED
  BY <1>1, <1>2, <1>8 DEF S

LEMMA SetOptHeadersKeeps == MainInv /\ SetOptHeaders => MainInv'
<1> SUFFICES ASSUME MainInv, SetOptHeaders PROVE MainInv'
  OBVIOUS
<1> DEFINE F == {}
           S == {SecInfoHeader, PeData}
           g == Alloc(heap, {OptEntry})
<1>1. /\ stage = "optHeaders" /\ stage' = "xexHeader" /\ files' = Became(F, "open")
      /\ heap' = IF importsPresent THEN Libraries(Alloc(Use(heap, S), {OptEntry}))
                 ELSE Alloc(Use(heap, S), {OptEntry})
      /\ UNCHANGED <<options, gotInput, gotOutput, repeated, tableCount, exit>>
  BY DEF SetOptHeaders, Stage, At, Goto, optionVars
<1>2. /\ MainTypes /\ FilesOpen /\ Sound(heap) /\ MainsHeld /\ ArraysHeld
      /\ Sound(g) /\ g.lost = heap.lost /\ 1 .. tableCount \subseteq Tables
      /\ \A p \in Pointers : Live(g, p) <=> p = OptEntry \/ Held(p)
  BY <1>1, OptHeadersStage
<1>3. S \subseteq Pointers /\ \A p \in S : Live(heap, p)
  BY <1>1, <1>2, StructsFacts DEF MainsHeld, Held, HasOffsets, Structs
<1>4. F \subseteq OpenFiles
  OBVIOUS
<1>5. OpenFiles' = OpenFiles
  BY <1>1 DEF OpenFiles, HasXexPath, HasSections, Described, HasEntries, HasOffsets
<1> HIDE DEF F, S
<1>6. FilesOpen' /\ files' \in [{"pe", "xex", "basefile"} -> {"unopened", "open", "closed"}]
  BY <1>1, <1>2, <1>4, <1>5, FilesStay
<1>7. heap' = IF importsPresent THEN Libraries(g) ELSE g
  BY <1>1, <1>2, <1>3, UseSound
<1> HIDE DEF g
<1>8. /\ ~Held(OptEntry) /\ ~Held(ImportTables) /\ ~Held(NameTable)
      /\ \A k \in Tables : ~Held(Addresses(k)) /\ (k \in 1 .. tableCount <=> Held(Name(k)))
  <2>1. \A k \in Tables : k \in 1 .. tableCount <=> k <= tableCount
    BY <1>2 DEF Tables, MainTypes
  <2> QED
    BY <1>1, <1>2, <2>1 DEF ArraysHeld, HasEntries, HasOffsets, HasImports
<1>9. ASSUME NEW present \in BOOLEAN, Sound(heap'), heap'.lost = heap.lost,
             \A p \in Pointers : Held(p)' <=>
               \/ Held(p) \/ p = OptEntry
               \/ present /\ (p \in {ImportTables, NameTable}
                              \/ \E k \in 1 .. tableCount : p = Addresses(k))
      PROVE  MainInv'
  <2>1. \A p \in Structs : Held(p) => Held(p)'
    BY <1>9, StructsFacts
  <2>2. MainsHeld'
    <3>1. ~Held(XexfilePath) /\ ~Held(PePath) /\ ~Held(BasefilePath) /\ Held(PeData)
      BY <1>1, <1>2 DEF MainsHeld, HasXexPath, HasOffsets
    <3>2. ~Held(PePath)' /\ ~Held(XexfilePath)' /\ ~Held(BasefilePath)' /\ Held(PeData)'
      BY <1>9, <3>1, StructsFacts, Fields, IndexedFields DEF Structs
    <3> QED
      BY <1>1, <2>1, <3>2, MainsStay DEF HasXexPath, HasOffsets
  <2>3. ArraysHeld'
    <3>1. ASSUME NEW p \in {OptOffsets, PeTables, Descriptors, Sections} \cup Names \cup AllImports
          PROVE  Held(p)' <=> Held(p)
      BY <1>9, <3>1, PointersAre, Fields, IndexedFields
    <3>2. Held(OptEntry)' /\ (Held(ImportTables)' <=> present) /\ (Held(NameTable)' <=> present)
      BY <1>8, <1>9, StructsFacts, Fields, IndexedFields
    <3>3. \A k \in Tables : Held(Addresses(k))' <=> present /\ k <= tableCount
      <4>1. TAKE k \in Tables
      <4>2. /\ Addresses(k) \in Pointers /\ ~Held(Addresses(k))
            /\ Addresses(k) \notin {OptEntry, ImportTables, NameTable}
        BY <1>8, StructsFacts, Fields, IndexedFields
      <4>3. (\E m \in 1 .. tableCount : Addresses(k) = Addresses(m)) <=> k <= tableCount
        BY <1>2, Indexed DEF Tables, MainTypes
      <4> QED
        BY <1>9, <4>2, <4>3
    <3> QED
      BY <1>1, <1>2, <3>1, <3>2, <3>3, Indexed
      DEF ArraysHeld, HasSections, HasImports, HasOffsets, HasEntries, Described
  <2> QED
    BY <1>1, <1>2, <1>6, <1>9, <2>2, <2>3, StageKeeps DEF Stages, Described, HasEntries, MainTypes
<1>10. CASE ~importsPresent
  <2>1. heap' = g
    BY <1>7, <1>10
  <2>2. \A p \in Pointers : Held(p)' <=> Held(p) \/ p = OptEntry
    BY <1>2, <2>1 DEF Held
  <2> QED
    BY <1>2, <1>9, <2>1, <2>2
<1>11. CASE importsPresent
  <2> DEFINE N == {Name(k) : k \in 1 .. tableCount}
             A == {ImportTables, NameTable} \cup {Addresses(k) : k \in 1 .. tableCount}
             f == Alloc(g, A)
  <2>1. heap' = Alloc(Use(g, N), A)
    BY <1>7, <1>11 DEF Libraries
  <2>2. N \subseteq Pointers /\ \A p \in N : Live(g, p)
    BY <1>2, <1>8, StructsFacts
  <2>3. \A p : p \in A <=> \/ p \in {ImportTables, NameTable}
                           \/ \E k \in 1 .. tableCount : p = Addresses(k)
    OBVIOUS
  <2>4. A \subseteq {ImportTables, NameTable} \cup AllAddresses /\ ImportTables \in A
    BY <1>2, Indexed
  <2> HIDE DEF N, A
  <2>5. heap' = f
    BY <1>2, <2>1, <2>2, UseSound
  <2>6. Live(g, OptHeaders)
    BY <1>1, <1>2, StageFacts, StructsFacts, Fields DEF Structs
  <2>7. A \subseteq Pointers /\ \A p \in A : \A q \in Inside(p) \ A : Live(g, q)
    BY <2>4, <2>6, PointersAre, InsideOf
  <2>8. {p \in A : Live(g, p)} = {}
    BY <1>2, <1>8, <2>4, <2>7, Fields, IndexedFields, Indexed
  <2>9. /\ Sound(f) /\ f.lost = g.lost \cup {p \in A : Live(g, p)}
        /\ \A p \in Pointers : Live(f, p) <=> p \in A \/ Live(g, p)
    BY <1>2, <2>7, AllocSound
  <2>10. /\ Sound(heap') /\ heap'.lost = heap.lost
         /\ \A p \in Pointers : Held(p)' <=>
              \/ Held(p) \/ p = OptEntry
              \/ p \in {ImportTables, NameTable}
              \/ \E k \in 1 .. tableCount : p = Addresses(k)
    BY <1>2, <2>3, <2>5, <2>8, <2>9 DEF Held
  <2> QED
    BY <1>9, <2>10
<1> QED
  BY <1>10, <1>11
LEMMA SetOptHeadersFailsKeeps == MainInv /\ SetOptHeadersFails => MainInv'
<1> SUFFICES ASSUME MainInv, SetOptHeadersFails PROVE MainInv'
  OBVIOUS
<1> DEFINE g == Alloc(heap, {OptEntry})
<1>1. stage = "optHeaders"
  BY DEF SetOptHeadersFails
<1>2. /\ MainTypes /\ Sound(heap) /\ MainsHeld /\ heap.lost \cap Finished = {}
      /\ Sound(g) /\ g.lost = heap.lost /\ 1 .. tableCount \subseteq Tables
      /\ \A p \in Pointers : Live(g, p) <=> p = OptEntry \/ Held(p)
  BY <1>1, OptHeadersStage
<1>3. ASSUME NEW h, Sound(h), h.lost \cap Finished = {},
             \A p \in Strings : Live(h, p) => Held(p), AbortBuild(h)
      PROVE  MainInv'
  BY <1>1, <1>3, GivesUpLate DEF Described
<1>4. \A p \in Strings : Live(g, p) => Held(p)
  BY <1>2, StructsFacts, StringsAre, Fields
<1>5. Live(g, OptHeaders)
  BY <1>1, <1>2, StageFacts, StructsFacts, Fields DEF Structs
<1>6. CASE AbortBuild(heap)
  BY <1>2, <1>3, <1>6 DEF Held
<1>7. CASE \E S \in {{}, {ImportTables}} : AbortBuild(Alloc(g, S))
  <2>1. PICK S \in {{}, {ImportTables}} : AbortBuild(Alloc(g, S))
    BY <1>7
  <2> DEFINE h == Alloc(g, S)
  <2> HIDE DEF g
  <2>2. S \subseteq Pointers /\ \A p \in S : \A q \in Inside(p) \ S : Live(g, q)
    BY <1>5, StructsFacts, InsideOf
  <2>3. /\ Sound(h) /\ h.lost = g.lost \cup {p \in S : Live(g, p)}
        /\ \A p \in Pointers : Live(h, p) <=> p \in S \/ Live(g, p)
    BY <1>2, <2>2, AllocSound
  <2>4. S \cap Finished = {}
    BY NothingFinished
  <2> HIDE DEF h
  <2>5. h.lost \cap Finished = {}
    BY <1>2, <2>3, <2>4
  <2>6. \A p \in Strings : Live(h, p) => Held(p)
    BY <1>4, <2>3, StructsFacts, StringsAre, Fields
  <2> QED
    BY <1>3, <2>1, <2>3, <2>5, <2>6 DEF h
<1>8. CASE \E k \in 1 .. tableCount + 1 :
             AbortBuild([g EXCEPT !.lost = @ \cup {Addresses(m) : m \in k .. tableCount}])
  <2>1. PICK k \in 1 .. tableCount + 1 :
          AbortBuild([g EXCEPT !.lost = @ \cup {Addresses(m) : m \in k .. tableCount}])
    BY <1>8
  <2> DEFINE B == {Addresses(m) : m \in k .. tableCount}
             h == [g EXCEPT !.lost = @ \cup B]
  <2>2. AbortBuild(h)
    BY <2>1
  <2> HIDE DEF g
  <2>3. B \subseteq AllAddresses
    <3>1. k .. tableCount \subseteq Tables
      BY <1>2 DEF MainTypes
    <3> QED
      BY <3>1, Indexed
  <2>4. B \cap Finished = {}
    BY <2>3, NothingFinished
  <2> HIDE DEF B
  <2>5. Sound(h) /\ h.lost \cap Finished = {} /\ \A p : Live(h, p) <=> Live(g, p)
    BY <1>2, <2>4, LosesMore
  <2> HIDE DEF h
  <2> QED
    BY <1>3, <1>4, <2>2, <2>5
<1> QED
  BY <1>6, <1>7, <1>8 DEF SetOptHeadersFails

-----------------------------------------------------------------------------
(***************************************************************************)
(* The XEX header, the layout, the writing and the end.                    *)
(***************************************************************************)
LEMMA SetXEXHeaderKeeps == MainInv /\ SetXEXHeader => MainInv'
<1> SUFFICES ASSUME MainInv, SetXEXHeader PROVE MainInv'
  OBVIOUS
<1> DEFINE F == {}
           S == {XexHeader, OptEntries, PeData}
           T == {PeTables} \cup Names \cup AllImports
<1>1. /\ stage = "xexHeader" /\ stage' = "placeStructs" /\ files' = Became(F, "open")
      /\ heap' = freePeImportInfoStruct(Use(heap, S))
      /\ UNCHANGED <<options, gotInput, gotOutput, repeated, tableCount, exit>>
  BY DEF SetXEXHeader, Stage, At, Goto, optionVars
<1>2. MainTypes /\ FilesOpen /\ Sound(heap) /\ MainsHeld /\ ArraysHeld
  BY <1>1, StageFacts
<1>3. S \subseteq Pointers /\ (\A p \in S : Live(heap, p)) /\ Live(heap, PeData)
  BY <1>1, <1>2, StageFacts, StructsFacts, Fields DEF MainsHeld, Held, HasOffsets, Structs
<1>4. F \subseteq OpenFiles
  OBVIOUS
<1>5. OpenFiles' = OpenFiles
  BY <1>1 DEF OpenFiles, HasXexPath, HasSections, Described, HasEntries, HasOffsets
<1> HIDE DEF F, S
<1>6. FilesOpen' /\ files' \in [{"pe", "xex", "basefile"} -> {"unopened", "open", "closed"}]
  BY <1>1, <1>2, <1>4, <1>5, FilesStay
<1>7. Frees(heap', heap, T)
  BY <1>1, <1>2, <1>3, UseSound, PeImportInfoFreed
<1>8. /\ Sound(heap') /\ heap'.lost = heap.lost
      /\ \A p \in Pointers : Held(p)' <=> p \notin T /\ Held(p)
  BY <1>7, FreesIs DEF Held
<1>9. \A p \in Structs : Held(p) => Held(p)'
  BY <1>8, StructsFacts, Fields, IndexedFields DEF Structs
<1>10. MainsHeld'
  <2>1. ~Held(XexfilePath) /\ ~Held(PePath) /\ ~Held(BasefilePath) /\ Held(PeData)
    BY <1>1, <1>2 DEF MainsHeld, HasXexPath, HasOffsets
  <2>2. ~Held(PePath)' /\ ~Held(XexfilePath)' /\ ~Held(BasefilePath)' /\ Held(PeData)'
    BY <1>8, <1>9, <2>1, StructsFacts DEF Structs
  <2> QED
    BY <1>1, <1>9, <2>2, MainsStay DEF HasXexPath, HasOffsets
<1>11. ArraysHeld'
  <2>1. ASSUME NEW p \in {OptOffsets, Descriptors, Sections, OptEntry, ImportTables, NameTable}
                         \cup AllAddresses
        PROVE  Held(p)' <=> Held(p)
    BY <1>8, <2>1, PointersAre, Fields, IndexedFields
  <2>2. ~Held(PeTables)' /\ \A k \in Tables : ~Held(Name(k))' /\ ~Held(Imports(k))'
    BY <1>8, Indexed, StructsFacts
  <2> QED
    BY <1>1, <1>2, <2>1, <2>2, Indexed
    DEF ArraysHeld, HasSections, HasImports, HasOffsets, HasEntries, Described
<1> QED
  BY <1>1, <1>2, <1>6, <1>8, <1>10, <1>11, StageKeeps
  DEF Stages, Described, HasEntries, MainTypes

LEMMA PlaceStructsKeeps == MainInv /\ (PlaceStructs \/ PlaceStructsFails) => MainInv'
<1> SUFFICES ASSUME MainInv, PlaceStructs \/ PlaceStructsFails PROVE MainInv'
  OBVIOUS
<1>1. stage = "placeStructs"
  BY DEF PlaceStructs, PlaceStructsFails, Stage, At
<1>2. /\ MainTypes /\ FilesOpen /\ Sound(heap) /\ MainsHeld /\ ArraysHeld
      /\ heap.lost \cap Finished = {} /\ \A p \in Structs : Held(p)
  BY <1>1, StageFacts DEF MainsHeld, HasOffsets
<1>3. Held(OptEntry) /\ ~Held(OptOffsets)
  BY <1>1, <1>2 DEF ArraysHeld, HasEntries, HasOffsets
<1>4. CASE PlaceStructs
  <2> DEFINE F == {}
             S == {Offsets, XexHeader, OptEntry, SecInfoHeader, OptHeaders}
             A == {OptOffsets}
             g == Alloc(heap, A)
  <2>1. /\ stage' = "writeXEX" /\ files' = Became(F, "open")
        /\ heap' = freePeDataStruct(Alloc(Use(heap, S), A))
        /\ UNCHANGED <<options, gotInput, gotOutput, repeated, tableCount, exit>>
    BY <1>4 DEF PlaceStructs, Stage, At, Goto, optionVars
  <2>2. S \subseteq Pointers /\ \A p \in S : Live(heap, p)
    BY <1>2, <1>3, StructsFacts DEF Held, Structs
  <2>3. A \subseteq Pointers /\ \A p \in A : \A q \in Inside(p) \ A : Live(heap, q)
    BY <1>2, StructsFacts, InsideOf DEF Held, Structs
  <2>4. {p \in A : Live(heap, p)} = {} /\ \A p : p \in A <=> p = OptOffsets
    BY <1>3 DEF Held
  <2>5. F \subseteq OpenFiles
    OBVIOUS
  <2>6. OpenFiles' = OpenFiles
    BY <1>1, <2>1 DEF OpenFiles, HasXexPath, HasSections, Described, HasEntries, HasOffsets
  <2> HIDE DEF F, S, A
  <2>7. FilesOpen' /\ files' \in [{"pe", "xex", "basefile"} -> {"unopened", "open", "closed"}]
    BY <1>2, <2>1, <2>5, <2>6, FilesStay
  <2>8. /\ Sound(g) /\ g.lost = heap.lost \cup {p \in A : Live(heap, p)}
        /\ \A p \in Pointers : Live(g, p) <=> p \in A \/ Live(heap, p)
    BY <1>2, <2>3, AllocSound
  <2>9. heap' = freePeDataStruct(g)
    BY <1>2, <2>1, <2>2, UseSound
  <2> HIDE DEF g
  <2>10. Frees(heap', g, PeBlocks)
    BY <2>8, <2>9, PeDataFreed
  <2>11. /\ Sound(heap') /\ heap'.lost = heap.lost
         /\ \A p \in Pointers : Held(p)' <=> p \notin PeBlocks /\ (p = OptOffsets \/ Held(p))
    BY <2>4, <2>8, <2>10, FreesIs DEF Held
  <2>12. \A p \in Structs \ {PeData} : Held(p)'
    BY <1>2, <2>11, StructsFacts, Fields, IndexedFields DEF Structs, PeBlocks
  <2>13. MainsHeld'
    <3>1. ~Held(XexfilePath) /\ ~Held(PePath) /\ ~Held(BasefilePath)
      BY <1>1, <1>2 DEF MainsHeld, HasXexPath
    <3>2. ~Held(PePath)' /\ ~Held(XexfilePath)' /\ ~Held(BasefilePath)' /\ ~Held(PeData)'
      BY <2>11, <3>1, StructsFacts, Fields DEF PeBlocks, Structs
    <3> QED
      BY <1>1, <2>1, <2>12, <3>2, MainsStay DEF HasXexPath, HasOffsets
  <2>14. ArraysHeld'
    <3>1. ASSUME NEW p \in {Descriptors, OptEntry, ImportTables, NameTable} \cup AllAddresses
          PROVE  Held(p)' <=> Held(p)
      BY <2>11, <3>1, PointersAre, Fields, IndexedFields DEF PeBlocks
    <3>2. /\ ~Held(PeTables)' /\ ~Held(Sections)' /\ Held(OptOffsets)'
          /\ \A k \in Tables : ~Held(Name(k))' /\ ~Held(Imports(k))'
      BY <2>11, Indexed, StructsFacts, Fields, IndexedFields DEF PeBlocks
    <3> QED
      BY <1>1, <1>2, <2>1, <3>1, <3>2, Indexed
      DEF ArraysHeld, HasSections, HasImports, HasOffsets, HasEntries, Described
  <2> QED
    BY <1>1, <1>2, <2>1, <2>7, <2>11, <2>13, <2>14, StageKeeps
    DEF Stages, Described, HasEntries, HasOffsets, MainTypes
<1>5. CASE PlaceStructsFails
  BY <1>1, <1>2, <1>5, GivesUpLate DEF PlaceStructsFails, Described, HasEntries, Held
<1> QED
  BY <1>4, <1>5

LEMMA WriteXEXKeeps == MainInv /\ (WriteXEX \/ WriteXEXFails) => MainInv'
<1> SUFFICES ASSUME MainInv, WriteXEX \/ WriteXEXFails PROVE MainInv'
  OBVIOUS
<1>1. stage = "writeXEX"
  BY DEF WriteXEX, WriteXEXFails, Stage, At
<1>2. /\ MainTypes /\ FilesOpen /\ Sound(heap) /\ MainsHeld /\ ArraysHeld
      /\ heap.lost \cap Finished = {}
  BY <1>1, StageFacts
<1>3. CASE WriteXEX
  <2> DEFINE F == {"basefile", "xex"}
             N == IF hasLibraries
                  THEN {NameTable} \cup {Addresses(k) : k \in 1 .. tableCount}
                  ELSE {}
             S == {XexHeader, OptEntry, Descriptors, OptOffsets, OptHeaders} \cup N
  <2>1. /\ stage' = "headerSha1" /\ files' = Became(F, "open") /\ heap' = Use(heap, S)
        /\ UNCHANGED <<options, gotInput, gotOutput, repeated, tableCount, exit>>
    BY <1>3 DEF WriteXEX, Stage, At, Goto, optionVars
  <2>2. F \subseteq OpenFiles
    BY <1>1, NotOpenYet DEF Described, HasEntries, HasOffsets
  <2>3. OpenFiles' = OpenFiles
    BY <1>1, <2>1 DEF OpenFiles, HasXexPath, HasSections, Described, HasEntries, HasOffsets
  <2>4. N \subseteq Pointers /\ \A p \in N : Live(heap, p)
    <3>1. CASE hasLibraries
      <4>1. Held(ImportTables)
        BY <1>2, <3>1, SoundFacts, StructsFacts DEF hasLibraries, Held
      <4>2. Held(NameTable) /\ NameTable \in Pointers
        BY <1>2, <4>1, StructsFacts DEF ArraysHeld
      <4>3. ASSUME NEW k \in 1 .. tableCount PROVE Held(Addresses(k)) /\ Addresses(k) \in Pointers
        <5>1. k \in Tables /\ k <= tableCount
          BY <1>2, MainStructsAssumption DEF MainTypes, Tables
        <5> QED
          BY <1>2, <4>1, <5>1, StructsFacts DEF ArraysHeld
      <4>4. \A p \in N : p = NameTable \/ \E k \in 1 .. tableCount : p = Addresses(k)
        BY <3>1
      <4> HIDE DEF N
      <4> QED
        BY <4>2, <4>3, <4>4 DEF Held
    <3>2. CASE ~hasLibraries
      BY <3>2
    <3> QED
      BY <3>1, <3>2
  <2>5. /\ {XexHeader, OptEntry, Descriptors, OptOffsets, OptHeaders} \subseteq Pointers
        /\ \A p \in {XexHeader, OptEntry, Descriptors, OptOffsets, OptHeaders} : Live(heap, p)
    BY <1>1, <1>2, StageFacts, StructsFacts, Fields
    DEF ArraysHeld, Described, HasEntries, HasOffsets, Structs, Held
  <2> HIDE DEF F, N
  <2>6. S \subseteq Pointers /\ \A p \in S : Live(heap, p)
    BY <2>4, <2>5
  <2> HIDE DEF S
  <2>7. heap' = heap
    BY <1>2, <2>1, <2>6, UseSound
  <2> QED
    BY <1>1, <2>1, <2>2, <2>3, <2>7, LooksOnly
    DEF Stages, HasXexPath, HasSections, HasImports, Described, HasEntries, HasOffsets
<1>4. CASE WriteXEXFails
  BY <1>1, <1>2, <1>4, GivesUpLate DEF WriteXEXFails, Described, HasEntries, HasOffsets, Held
<1> QED
  BY <1>3, <1>4

LEMMA SetHeaderSha1Keeps == MainInv /\ (SetHeaderSha1 \/ SetHeaderSha1Fails) => MainInv'
<1> SUFFICES ASSUME MainInv, SetHeaderSha1 \/ SetHeaderSha1Fails PROVE MainInv'
  OBVIOUS
<1>1. stage = "headerSha1"
  BY DEF SetHeaderSha1, SetHeaderSha1Fails
<1>2. /\ MainTypes /\ FilesOpen /\ Sound(heap) /\ MainsHeld /\ Lost
      /\ heap.lost \cap Finished = {}
  BY <1>1, StageFacts DEF MainInv
<1>3. CASE SetHeaderSha1
  <2> DEFINE F == {"xex", "basefile"}
  <2>1. /\ heap' = freeAllMainStructs(heap) /\ files' = Closed(F)
        /\ stage' = "exited" /\ exit' = "built"
        /\ UNCHANGED <<options, gotInput, gotOutput, repeated, tableCount>>
    BY <1>3 DEF SetHeaderSha1, optionVars
  <2>2. F = OpenFiles
    BY <1>1, NotOpenYet DEF Described, HasEntries, HasOffsets
  <2> HIDE DEF F
  <2>3. /\ files' \in [{"pe", "xex", "basefile"} -> {"unopened", "open", "closed"}]
        /\ \A f \in {"pe", "xex", "basefile"} : files'[f] # "open"
    BY <1>2, <2>1, <2>2, AllClosed
  <2>4. Frees(heap', heap, Pointers \ Strings)
    BY <1>2, <2>1, AllFreed
  <2>5. /\ Sound(heap') /\ heap'.lost = heap.lost
        /\ \A p \in Pointers : Held(p)' <=> p \in Strings /\ Held(p)
    BY <2>4, FreesIs DEF Held
  <2>6. \A p \in Pointers : ~Held(p)'
    BY <1>1, <1>2, <2>5, StringsAre DEF MainsHeld, HasXexPath
  <2>7. MainTypes'
    BY <1>2, <2>1, <2>3 DEF MainTypes, Stages
  <2>8. FilesOpen'
    <3>1. OpenFiles' = {}
      BY <2>1 DEF OpenFiles, HasXexPath, HasSections, Described, HasEntries, HasOffsets
    <3> QED
      BY <2>3, <3>1 DEF FilesOpen
  <2>9. Lost'
    BY <1>1, <1>2, <2>1, <2>5 DEF Lost
  <2> QED
    BY <2>1, <2>5, <2>6, <2>7, <2>8, <2>9 DEF MainInv
<1>4. CASE SetHeaderSha1Fails
  BY <1>1, <1>2, <1>4, GivesUpLate DEF SetHeaderSha1Fails, Described, HasEntries, HasOffsets, Held
<1> QED
  BY <1>3, <1>4
-----------------------------------------------------------------------------
(***************************************************************************)
(* The invariant, and what the runs check.                                 *)
(***************************************************************************)
LEMMA MainInit == Init => MainInv
<1> SUFFICES ASSUME Init PROVE MainInv
  OBVIOUS
<1>1. /\ heap = NullHeap /\ stage = "calloc" /\ options = 0
      /\ gotInput = FALSE /\ gotOutput = FALSE /\ repeated = FALSE
      /\ files = [f \in {"pe", "xex", "basefile"} |-> "unopened"]
      /\ tableCount = 0 /\ exit = "none"
  BY DEF Init
<1>2. MainTypes
  <2>1. stage \in Stages /\ (exit = "none" <=> stage # "exited")
        /\ exit \in {"none", "failure", "information", "built"}
    BY <1>1 DEF Stages
  <2>2. options \in 0 .. MaxOptions /\ tableCount \in 0 .. MaxTables
    BY <1>1, SynthXEXAssumption, MainStructsAssumption
  <2>3. files \in [{"pe", "xex", "basefile"} -> {"unopened", "open", "closed"}]
    BY <1>1
  <2>4. gotInput \in BOOLEAN /\ gotOutput \in BOOLEAN /\ repeated \in BOOLEAN
    BY <1>1
  <2> QED
    BY <2>1, <2>2, <2>3, <2>4 DEF MainTypes
<1>3. FilesOpen
  BY <1>1, NotOpenYet DEF FilesOpen
<1>4. Sound(heap) /\ Lost
  BY <1>1, NullSound DEF Lost
<1> QED
  BY <1>1, <1>2, <1>3, <1>4 DEF MainInv

LEMMA MainStep == MainInv /\ [Next]_vars => MainInv'
<1> SUFFICES ASSUME MainInv, [Next]_vars PROVE MainInv'
  OBVIOUS
<1>1. CASE CallocStructs \/ CallocStructsFails
  BY <1>1, CallocKeeps
<1>2. CASE InputOption \/ OutputOption \/ InputOptionFails \/ OutputOptionFails
  BY <1>2, OptionKeeps
<1>3. CASE PlainOption \/ InformationOption
  BY <1>3, PlainOptionKeeps, InformationKeeps
<1>4. CASE InvalidType \/ MissingPath \/ OpenPEFails
  BY <1>4, OptionsGiveUp
<1>5. CASE OpenPE \/ OpenXEX \/ OpenXEXFails
  BY <1>5, OpenPEKeeps, OpenXEXKeeps
<1>6. CASE ValidatePE \/ ValidatePEFails \/ GetHdrData \/ GetHdrDataFails
  BY <1>6, ValidatePEKeeps, GetHdrDataKeeps
<1>7. CASE GetImports \/ GetImportsFails \/ GetImportsReallocFails
  BY <1>7, GetImportsKeeps, GetImportsFailsKeeps, GetImportsReallocFailsKeeps
<1>8. CASE OpenBasefile \/ OpenBasefileFails \/ MapPEToBasefile \/ MapPEToBasefileFails
  BY <1>8, OpenBasefileKeeps, MapPEToBasefileKeeps
<1>9. CASE SetSecInfoHeader \/ SetPageDescriptors \/ SetPageDescriptorsFails
  BY <1>9, SetSecInfoHeaderKeeps, SetPageDescriptorsKeeps
<1>10. CASE SetOptHeaders \/ SetOptHeadersFails \/ SetXEXHeader
  BY <1>10, SetOptHeadersKeeps, SetOptHeadersFailsKeeps, SetXEXHeaderKeeps
<1>11. CASE PlaceStructs \/ PlaceStructsFails \/ WriteXEX \/ WriteXEXFails
  BY <1>11, PlaceStructsKeeps, WriteXEXKeeps
<1>12. CASE SetHeaderSha1 \/ SetHeaderSha1Fails
  BY <1>12, SetHeaderSha1Keeps
<1>13. CASE UNCHANGED vars
  <2>1. UNCHANGED <<heap, stage, options, gotInput, gotOutput, repeated, files, tableCount, exit>>
    BY <1>13 DEF vars
  <2>2. OpenFiles' = OpenFiles
    BY <2>1 DEF OpenFiles
  <2> QED
    BY <2>1, <2>2
    DEF MainInv, MainTypes, FilesOpen, Lost, MainsHeld, ArraysHeld, Held
<1> QED
  BY <1>1, <1>2, <1>3, <1>4, <1>5, <1>6, <1>7, <1>8, <1>9, <1>10, <1>11, <1>12, <1>13
  DEF Next

(***************************************************************************)
(* Wherever main stands, nothing dangles, what each stage is to find is    *)
(* there, and nothing has been forgotten but the paths given twice and     *)
(* what a failed stage was working on.                                     *)
(***************************************************************************)
THEOREM MainInvariant == Spec => []MainInv
<1>1. Init => MainInv
  BY MainInit
<1>2. MainInv /\ [Next]_vars => MainInv'
  BY MainStep
<1> QED
  BY <1>1, <1>2, PTL DEF Spec

(***************************************************************************)
(* Every field of main's state has its type at every point of main.        *)
(***************************************************************************)
THEOREM MainTypesHold == Spec => []MainTypeOK
<1>1. MainInv => MainTypeOK
  <2> SUFFICES ASSUME MainInv PROVE MainTypeOK
    OBVIOUS
  <2>1. MainTypes /\ Sound(heap)
    BY DEF MainInv
  <2>2. HeapTypeOK
    <3> DEFINE r == heap.ptr
               l == heap.lost
    <3>1. heap = [ptr |-> r, lost |-> l, fault |-> FALSE] /\ r \in [Pointers -> {"null", "live"}]
      BY <2>1 DEF Sound
    <3> HIDE DEF r, l
    <3>2. /\ DOMAIN heap = {"ptr", "lost", "fault"} /\ heap.fault = FALSE
          /\ heap.ptr = r
      BY <3>1
    <3>3. heap.ptr \in [Pointers -> {"null", "live", "dangling"}]
      BY <3>1, <3>2
    <3> QED
      BY <3>2, <3>3 DEF HeapTypeOK
  <2> QED
    BY <2>1, <2>2 DEF MainTypes, MainTypeOK
<1> QED
  BY <1>1, MainInvariant, PTL

(***************************************************************************)
(* Whichever exit main takes, and however many import tables and options   *)
(* there are, every file it opened has been closed, once.                  *)
(***************************************************************************)
THEOREM EveryFileClosedOnce == Spec => []FilesClosedOnce
<1>1. MainInv => FilesClosedOnce
  BY NotOpenYet DEF MainInv, MainTypes, FilesOpen, FilesClosedOnce
<1> QED
  BY <1>1, MainInvariant, PTL

(***************************************************************************)
(* Whichever exit main takes, no structure and no array is left that main  *)
(* can still reach, and no path unless help was asked for.                 *)
(***************************************************************************)
THEOREM EverythingReleased == Spec => []NothingHeldAtExit
<1>1. MainInv => NothingHeldAtExit
  BY SoundFacts DEF MainInv, NothingHeldAtExit, Held
<1> QED
  BY <1>1, MainInvariant, PTL

(***************************************************************************)
(* A build that succeeds with each path given once leaks nothing, and no   *)
(* failure loses a structure or an array an earlier stage finished.        *)
(***************************************************************************)
THEOREM NothingLeaks == Spec => []BuildLeaksNothing
<1>1. MainInv => BuildLeaksNothing
  BY DEF MainInv, MainTypes, Lost, Finished, BuildLeaksNothing
<1> QED
  BY <1>1, MainInvariant, PTL

(***************************************************************************)
(* Nothing is freed twice, used after it was freed, or reached through a   *)
(* pointer that leads nowhere.                                             *)
(***************************************************************************)
THEOREM NoFault == Spec => []NoMemoryFault
<1>1. MainInv => NoMemoryFault
  <2> SUFFICES ASSUME MainInv PROVE NoMemoryFault
    OBVIOUS
  <2> DEFINE r == heap.ptr
             l == heap.lost
  <2>1. heap = [ptr |-> r, lost |-> l, fault |-> FALSE]
    BY DEF MainInv, Sound
  <2> HIDE DEF r, l
  <2> QED
    BY <2>1 DEF NoMemoryFault
<1> QED
  BY <1>1, MainInvariant, PTL

(***************************************************************************)
(* At any point of main, any two of the functions that free may be called, *)
(* the first of them twice, by a caller that looks at peData, optHeaders   *)
(* and nameTable where the functions do not, and freeAllMainStructs then   *)
(* still frees what is left and touches nothing that is gone.              *)
(***************************************************************************)
THEOREM FreeingCommutes == Spec => []FreesInAnyOrder
<1>1. MainInv => FreesInAnyOrder
  BY AnyOrder DEF MainInv
<1> QED
  BY <1>1, MainInvariant, PTL
=============================================================================
