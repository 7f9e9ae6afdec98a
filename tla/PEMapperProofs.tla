---------------------------- MODULE PEMapperProofs ----------------------------
(***************************************************************************)
(* The invariants of mapPEToBasefile, xenonifyIAT and setPageDescriptors,  *)
(* for every PE file.                                                      *)
(***************************************************************************)
EXTENDS PEMapper, FiniteSetTheorems, TLAPS

-----------------------------------------------------------------------------
(***************************************************************************)
(* The inductive invariant.                                                *)
(***************************************************************************)
Mapping   == {"sectionInfo", "header", "sections"}
Rewriting == {"readEntry", "readHint", "writeEntry"}
Hashing   == {"calloc", "descriptors", "digest"}

(* Nothing is said of a basefile that was given up.                        *)
Live == step # "done" \/ Built

(* A file has no gaps.                                                     *)
IsFile(f) == \E n \in Nat : DOMAIN f = 0 .. n - 1

(* Whatever reads as a name RVA names a place.                             *)
NamesPlaces(f) == \A p \in DOMAIN f : f[p][1] = "nameRVA" => f[p][2] \in Nat

MapTypes ==
  /\ step \in Mapping \cup {"seekTable"} \cup Rewriting \cup Hashing \cup {"done"}
  /\ littleEndian \in BOOLEAN /\ pe \in PEs
  /\ IsFile(basefile) /\ NamesPlaces(basefile)
  /\ pos \in Nat /\ lastOp \in {"seek", "read", "write"} /\ disciplined \in BOOLEAN
  /\ i \in Int /\ j \in Nat \ {0}
  /\ step \in {"sectionInfo", "header"} => i = 1
  /\ step = "sections" => i \in 1 .. Len(pe.sections) + 1
  /\ step = "seekTable" => i \in 1 .. Len(pe.tables) + 1
  /\ step \in Rewriting => i \in 1 .. Len(pe.tables) /\ j \in 1 .. pe.tables[i].importCount + 1
  /\ step = "descriptors" => i \in -1 .. pageDescCount - 1
  /\ step = "digest" => i \in 0 .. pageDescCount - 1
  /\ size \in Nat /\ pageDescCount \in Nat /\ headerSize \in Nat
  /\ imageFlags \subseteq {"4KIB_PAGES"}
  /\ descriptors = <<>> \/ DOMAIN descriptors = 0 .. pageDescCount - 1
  /\ step \notin {"descriptors", "digest", "done"} => descriptors = <<>>
  /\ swapped = IF step = "digest" /\ littleEndian THEN {i} ELSE {}
  /\ ret \in {"none", "error", "success"}
  /\ step # "done" => ret = "none"

Positioned ==
  /\ disciplined
  /\ step \in {"sectionInfo", "header"} \cup Rewriting => lastOp = "seek"

(* The entry at EntryAt(t, k) has been rewritten.                          *)
EntryAt(t, k) == pe.tables[t].rva + k - 1

Rewritten(t, k) ==
  /\ step \notin Mapping
  /\ step = "seekTable" => t < i
  /\ step \in Rewriting => t < i \/ (t = i /\ k < j)

MappedSections ==
  IF step \in {"sectionInfo", "header"} THEN {}
  ELSE IF step = "sections" THEN 1 .. i - 1 ELSE 1 .. Len(pe.sections)

(* An import that one table alone names, and that nothing else overwrites. *)
Unshared(t, p, cell) == TablesWith(p) = {t} /\ ~PaddedOver(p) /\ IsImport(cell)

(* A cell of a section is in the basefile: as it was, rewritten as an      *)
(* entry, or lost to the padding.                                          *)
Placed(s, o) ==
  LET p == pe.sections[s].rva + o
  IN  /\ p \in DOMAIN basefile
      /\ \/ basefile[p] = SectionCell(s, o)
         \/ basefile[p] = Zero /\ PaddedOver(p)
         \/ \E t \in 1 .. Len(pe.tables) : \E k \in 1 .. pe.tables[t].importCount :
              Rewritten(t, k) /\ p = EntryAt(t, k)
      /\ \A t \in 1 .. Len(pe.tables) : \A k \in 1 .. pe.tables[t].importCount :
           Rewritten(t, k) /\ p = EntryAt(t, k) /\ Unshared(t, p, SectionCell(s, o)) =>
             basefile[p] = Xenonified(ModuleIndex(t, Byte), OrdinalOf(SectionCell(s, o)))

HeaderThere ==
  step \notin {"sectionInfo", "header"} =>
    \A p \in 0 .. pe.headerLen - 1 :
      p \in DOMAIN basefile /\ (basefile[p] = pe.cells[p + 1] \/ PaddedOver(p))

SectionsThere ==
  \A s \in MappedSections : \A o \in 0 .. pe.sections[s].rawSize - 1 : Placed(s, o)

NothingElse ==
  \A p \in DOMAIN basefile :
    \/ basefile[p] = Zero
    \/ p < pe.headerLen
    \/ p \in IATCells
    \/ \E s \in MappedSections : p \in Raw(pe.sections[s])

(* Where the basefile stands, and the entry that is being rewritten.       *)
InHand ==
  /\ step \in {"sectionInfo", "header"} => basefile = <<>>
  /\ step = "sections" =>
       pos = IF i = 1 THEN pe.headerLen
             ELSE pe.sections[i - 1].rva + pe.sections[i - 1].rawSize
  /\ step = "readEntry" => pos = EntryAt(i, j)
  /\ step = "readHint" =>
       /\ j <= pe.tables[i].importCount
       /\ savedPos = EntryAt(i, j) /\ savedPos \in DOMAIN basefile
       /\ basefile[savedPos][1] \in {"ordinal", "nameRVA"} =>
            basefile[savedPos][1] = "nameRVA" /\ basefile[savedPos][2] = pos
  /\ step = "writeEntry" =>
       /\ j <= pe.tables[i].importCount
       /\ pos = EntryAt(i, j) /\ pos \in DOMAIN basefile
       /\ \A s \in 1 .. Len(pe.sections) : \A o \in 0 .. pe.sections[s].rawSize - 1 :
            pos = pe.sections[s].rva + o /\ Unshared(i, pos, SectionCell(s, o)) =>
              entry = OrdinalOf(SectionCell(s, o))

Contents == Live => HeaderThere /\ SectionsThere /\ NothingElse /\ InHand

(* The chain of the pages behind the one in hand.                          *)
Sized ==
  /\ step \notin Mapping /\ Live => size > 0
  /\ step \in Hashing \/ Built =>
       LoaderPage = pe.pageSize /\ pageDescCount = size \div pe.pageSize

Hash(d) == Digest(PageCells(basefile, d, pageSize), descriptors[d], TRUE)

Chained(d) ==
  /\ descriptors[d].info = getRwx(d)
  /\ IF d = 0 THEN imageSha1 = Hash(d) ELSE descriptors[d - 1].sha1 = Hash(d)

Chain ==
  /\ Built => i = -1
  /\ step \in {"descriptors", "digest"} \/ Built =>
       /\ DOMAIN descriptors = 0 .. pageDescCount - 1
       /\ \A d \in 0 .. pageDescCount - 1 :
            DOMAIN descriptors[d] = {"info", "sha1"} /\ (d > i => Chained(d))
  /\ step = "digest" => descriptors[i].info = getRwx(i) /\ context = Hash(i)

MapInv == MapTypes /\ Positioned /\ Contents /\ Sized /\ Chain
-----------------------------------------------------------------------------
(***************************************************************************)
(* What is assumed of a PE, taken apart.                                   *)
(***************************************************************************)
LEMMA PagesTyped == SmallPage \in Nat /\ SmallPage > 1 /\ LargePage \in Nat /\ LargePage > 1
                    /\ SmallPage # LargePage /\ Byte \in Nat /\ Byte > 0 /\ Word \in Nat /\ Word > 0
BY PEMapperAssumption, WordAssumption

LEMMA PETyped ==
  ASSUME NEW p \in PEs
  PROVE  /\ p.pageSize \in {SmallPage, LargePage} /\ p.pageSize \in Nat /\ p.pageSize > 1
         /\ p.cells \in Seq(Cell) /\ Len(p.cells) \in Nat
         /\ p.headerLen \in 1 .. p.pageSize /\ p.headerLen <= Len(p.cells)
         /\ Len(p.sections) \in Nat \ {0} /\ DOMAIN p.sections = 1 .. Len(p.sections)
         /\ Len(p.tables) \in Nat /\ DOMAIN p.tables = 1 .. Len(p.tables)
         /\ \A t \in 1 .. Len(p.tables) : p.tables[t].rva \in Nat /\ p.tables[t].importCount \in Nat
<1>1. /\ p.sections \in Seq(Section) /\ p.sections # <<>> /\ p.cells \in Seq(Cell)
      /\ p.tables \in Seq(ImportTable)
      /\ p.pageSize \in {SmallPage, LargePage}
      /\ p.headerLen \in 1 .. p.pageSize /\ p.headerLen <= Len(p.cells)
  BY PEMapperAssumption
<1>2. Len(p.sections) \in Nat \ {0} /\ DOMAIN p.sections = 1 .. Len(p.sections)
  BY <1>1
<1>3. Len(p.tables) \in Nat /\ DOMAIN p.tables = 1 .. Len(p.tables)
  BY <1>1
<1>4. \A t \in 1 .. Len(p.tables) : p.tables[t].rva \in Nat /\ p.tables[t].importCount \in Nat
  <2>1. \A t \in DOMAIN p.tables : p.tables[t] \in ImportTable
    BY <1>1
  <2> QED
    BY <1>3, <2>1 DEF ImportTable
<1>5. Len(p.cells) \in Nat
  BY <1>1
<1> QED
  BY <1>1, <1>2, <1>3, <1>4, <1>5, PagesTyped

LEMMA SectionTyped ==
  ASSUME NEW p \in PEs, NEW s \in 1 .. Len(p.sections)
  PROVE  /\ p.sections[s].rva \in Nat /\ p.sections[s].virtualSize \in Nat
         /\ p.sections[s].rawSize \in Nat /\ p.sections[s].offset \in Nat
         /\ p.sections[s].rva % p.pageSize = 0 /\ p.sections[s].rva >= p.pageSize
         /\ p.sections[s].offset + p.sections[s].rawSize <= Len(p.cells)
         /\ SectionEnd(p.sections[s]) \in Nat
         /\ SectionEnd(p.sections[s]) >= p.sections[s].rva + p.sections[s].rawSize
         /\ SectionEnd(p.sections[s]) <= SectionEnd(p.sections[Len(p.sections)])
         /\ SectionEnd(p.sections[s]) + p.pageSize <= Word
         /\ \A r \in 1 .. Len(p.sections) \ {s} :
              \/ SectionEnd(p.sections[r]) <= p.sections[s].rva
              \/ SectionEnd(p.sections[s]) <= p.sections[r].rva
<1>1. p.sections \in Seq(Section)
  BY PEMapperAssumption
<1>2. /\ p.sections[s] \in Section
      /\ s \in DOMAIN p.sections /\ DOMAIN p.sections = 1 .. Len(p.sections)
  BY <1>1
<1>3. /\ p.sections[s].rva \in Nat /\ p.sections[s].virtualSize \in Nat
      /\ p.sections[s].rawSize \in Nat /\ p.sections[s].offset \in Nat
  BY <1>2 DEF Section
<1>4. /\ SectionEnd(p.sections[s]) \in Nat
      /\ SectionEnd(p.sections[s]) >= p.sections[s].rva + p.sections[s].rawSize
  BY <1>3 DEF SectionEnd
<1>5. Last(p.sections) = p.sections[Len(p.sections)]
  BY DEF Last
<1>6. /\ p.sections[s].rva % p.pageSize = 0 /\ p.sections[s].rva >= p.pageSize
      /\ p.sections[s].offset + p.sections[s].rawSize <= Len(p.cells)
      /\ \A r \in DOMAIN p.sections \ {s} :
           \/ SectionEnd(p.sections[r]) <= p.sections[s].rva
           \/ SectionEnd(p.sections[s]) <= p.sections[r].rva
      /\ SectionEnd(p.sections[s]) <= SectionEnd(Last(p.sections))
      /\ SectionEnd(p.sections[s]) + p.pageSize <= Word
  BY <1>2, PEMapperAssumption
<1> QED
  BY <1>2, <1>3, <1>4, <1>5, <1>6

(* No two sections have data at the same place.                            *)
LEMMA RawDisjoint ==
  ASSUME NEW p \in PEs, NEW r \in 1 .. Len(p.sections), NEW s \in 1 .. Len(p.sections),
         NEW x \in Int, x \in Raw(p.sections[r]), x \in Raw(p.sections[s])
  PROVE  r = s
<1>1. SUFFICES ASSUME r # s PROVE FALSE
  OBVIOUS
<1>2. /\ p.sections[r].rva \in Nat /\ p.sections[r].rawSize \in Nat
      /\ SectionEnd(p.sections[r]) \in Nat
      /\ SectionEnd(p.sections[r]) >= p.sections[r].rva + p.sections[r].rawSize
  BY SectionTyped
<1>3. /\ p.sections[s].rva \in Nat /\ p.sections[s].rawSize \in Nat
      /\ SectionEnd(p.sections[s]) \in Nat
      /\ SectionEnd(p.sections[s]) >= p.sections[s].rva + p.sections[s].rawSize
      /\ \/ SectionEnd(p.sections[r]) <= p.sections[s].rva
         \/ SectionEnd(p.sections[s]) <= p.sections[r].rva
  BY <1>1, SectionTyped
<1>4. x >= p.sections[r].rva /\ x < p.sections[r].rva + p.sections[r].rawSize
  BY <1>2 DEF Raw
<1>5. x >= p.sections[s].rva /\ x < p.sections[s].rva + p.sections[s].rawSize
  BY <1>3 DEF Raw
<1> DEFINE a == p.sections[r].rva
           b == p.sections[r].rawSize
           c == p.sections[s].rva
           d == p.sections[s].rawSize
           e == SectionEnd(p.sections[r])
           f == SectionEnd(p.sections[s])
<1>6. /\ a \in Nat /\ b \in Nat /\ c \in Nat /\ d \in Nat /\ e \in Nat /\ f \in Nat
      /\ e >= a + b /\ f >= c + d /\ (e <= c \/ f <= a)
      /\ x >= a /\ x < a + b /\ x >= c /\ x < c + d
  BY <1>2, <1>3, <1>4, <1>5
<1> HIDE DEF a, b, c, d, e, f
<1> QED
  BY <1>6

(* The data of the image ends with that of the last section.               *)
LEMMA RawBelowEnd ==
  ASSUME NEW p \in PEs, NEW s \in 1 .. Len(p.sections), NEW x \in Raw(p.sections[s])
  PROVE  x < DataEndOf(p)
<1> DEFINE n == Len(p.sections)
<1>1. n \in Nat \ {0} /\ n \in 1 .. Len(p.sections)
  BY PETyped
<1>2. DataEndOf(p) = p.sections[n].rva + p.sections[n].rawSize
  BY DEF DataEndOf, Last
<1>3. /\ p.sections[s].rva \in Nat /\ p.sections[s].rawSize \in Nat
      /\ SectionEnd(p.sections[s]) \in Nat
      /\ SectionEnd(p.sections[s]) >= p.sections[s].rva + p.sections[s].rawSize
      /\ SectionEnd(p.sections[s]) <= SectionEnd(p.sections[n])
  BY SectionTyped
<1>4. /\ p.sections[n].rva \in Nat /\ p.sections[n].rawSize \in Nat
      /\ SectionEnd(p.sections[n]) \in Nat
  BY <1>1, SectionTyped
<1>5. s = n \/ SectionEnd(p.sections[n]) <= p.sections[s].rva
            \/ SectionEnd(p.sections[s]) <= p.sections[n].rva
  BY <1>1, SectionTyped
<1>6. x \in Int /\ x >= p.sections[s].rva /\ x < p.sections[s].rva + p.sections[s].rawSize
  BY <1>3 DEF Raw
<1> DEFINE a == p.sections[s].rva
           b == p.sections[s].rawSize
           c == p.sections[n].rva
           d == p.sections[n].rawSize
           e == SectionEnd(p.sections[s])
           f == SectionEnd(p.sections[n])
<1>7. /\ a \in Nat /\ b \in Nat /\ c \in Nat /\ d \in Nat /\ e \in Nat /\ f \in Nat
      /\ e >= a + b /\ e <= f /\ x \in Int /\ x >= a /\ x < a + b
      /\ (a = c /\ b = d) \/ f <= a \/ e <= c
      /\ DataEndOf(p) = c + d
  BY <1>2, <1>3, <1>4, <1>5, <1>6
<1> HIDE DEF a, b, c, d, e, f
<1> QED
  BY <1>7

LEMMA EndTyped ==
  ASSUME NEW p \in PEs
  PROVE  /\ DataEndOf(p) \in Nat /\ DataEndOf(p) >= p.pageSize /\ DataEndOf(p) + p.pageSize <= Word
         /\ DataEndOf(p) = p.sections[Len(p.sections)].rva + p.sections[Len(p.sections)].rawSize
<1>1. Len(p.sections) \in 1 .. Len(p.sections) /\ p.pageSize \in Nat
  BY PETyped
<1>2. DataEndOf(p) = p.sections[Len(p.sections)].rva + p.sections[Len(p.sections)].rawSize
  BY DEF DataEndOf, Last
<1> DEFINE a == p.sections[Len(p.sections)].rva
           b == p.sections[Len(p.sections)].rawSize
           e == SectionEnd(p.sections[Len(p.sections)])
<1>3. /\ a \in Nat /\ b \in Nat /\ e \in Nat /\ a >= p.pageSize /\ e >= a + b
      /\ e + p.pageSize <= Word
  BY <1>1, SectionTyped
<1>4. Word \in Nat
  BY WordAssumption
<1> HIDE DEF a, b, e
<1>5. a + b \in Nat /\ a + b >= p.pageSize /\ a + b + p.pageSize <= Word
  BY <1>1, <1>3, <1>4
<1> QED
  BY <1>2, <1>5 DEF a, b

(* A section's cells.                                                      *)
LEMMA SectionCells ==
  ASSUME NEW s \in 1 .. Len(pe.sections), pe \in PEs, NEW o \in 0 .. pe.sections[s].rawSize - 1
  PROVE  /\ SectionCell(s, o) \in Cell /\ o \in Nat
         /\ pe.sections[s].rva + o \in Raw(pe.sections[s])
<1>1. /\ pe.sections[s].rva \in Nat /\ pe.sections[s].rawSize \in Nat
      /\ pe.sections[s].offset \in Nat
      /\ pe.sections[s].offset + pe.sections[s].rawSize <= Len(pe.cells)
  BY SectionTyped
<1>2. pe.cells \in Seq(Cell) /\ Len(pe.cells) \in Nat
  BY PETyped
<1>3. pe.sections[s].offset + o + 1 \in 1 .. Len(pe.cells)
  BY <1>1, <1>2
<1>4. SectionCell(s, o) \in Cell
  BY <1>2, <1>3 DEF SectionCell
<1>5. pe.sections[s].rva + o \in Raw(pe.sections[s])
  BY <1>1 DEF Raw
<1> QED
  BY <1>1, <1>4, <1>5

LEMMA CellKinds ==
  ASSUME NEW c \in Cell
  PROVE  c[1] = "nameRVA" => c[2] \in Nat
<1>1. CASE c \in {"zero", "ordinal", "nameRVA", "hint"} \X Nat
  BY <1>1
<1>2. CASE c \in {"byte"} \X Nat \X Nat
  BY <1>2
<1> QED
  BY <1>1, <1>2 DEF Cell

(* The entries of the IATs.                                                *)
LEMMA EntriesInIAT ==
  ASSUME pe \in PEs, NEW t \in 1 .. Len(pe.tables), NEW k \in 1 .. pe.tables[t].importCount
  PROVE  EntryAt(t, k) \in Nat /\ EntryAt(t, k) \in IATCells /\ EntryAt(t, k) >= pe.pageSize
<1>1. /\ pe.tables[t].rva \in Nat /\ pe.tables[t].importCount \in Nat
      /\ t \in DOMAIN pe.tables
  BY PETyped
<1>2. EntryAt(t, k) \in pe.tables[t].rva .. pe.tables[t].rva + pe.tables[t].importCount - 1
  BY <1>1 DEF EntryAt
<1>3. EntryAt(t, k) \in IATCells
  BY <1>1, <1>2 DEF IATCells, IATOf
<1>4. EntryAt(t, k) >= pe.pageSize
  BY <1>3, PEMapperAssumption DEF IATCells
<1>5. EntryAt(t, k) \in Nat
  BY <1>1 DEF EntryAt
<1> QED
  BY <1>3, <1>4, <1>5

LEMMA IATAreEntries ==
  ASSUME pe \in PEs, NEW t \in 1 .. Len(pe.tables),
         NEW x \in pe.tables[t].rva .. pe.tables[t].rva + pe.tables[t].importCount - 1
  PROVE  \E k \in 1 .. pe.tables[t].importCount : x = EntryAt(t, k)
<1>1. pe.tables[t].rva \in Nat /\ pe.tables[t].importCount \in Nat
  BY PETyped
<1>2. x - pe.tables[t].rva + 1 \in 1 .. pe.tables[t].importCount
      /\ x = EntryAt(t, x - pe.tables[t].rva + 1)
  BY <1>1 DEF EntryAt
<1> QED
  BY <1>2

-----------------------------------------------------------------------------
(***************************************************************************)
(* Writing cells into a file.                                              *)
(***************************************************************************)
PutGives(f, g, at, cells) ==
  /\ IsFile(g)
  /\ DOMAIN f \subseteq DOMAIN g
  /\ \A p \in at .. (at + Len(cells)) - 1 : p \in DOMAIN g /\ g[p] = cells[p - at + 1]
  /\ \A p \in DOMAIN f : p \notin at .. (at + Len(cells)) - 1 => g[p] = f[p]
  /\ \A p \in DOMAIN g : p \notin at .. (at + Len(cells)) - 1 /\ p \notin DOMAIN f => g[p] = Zero

LEMMA PutResult ==
  ASSUME NEW f, IsFile(f), NEW at \in Nat, NEW S, NEW cells \in Seq(S)
  PROVE  PutGives(f, Put(f, at, cells), at, cells)
<1>0. PICK n \in Nat : DOMAIN f = 0 .. n - 1
  BY DEF IsFile
<1>1. Len(cells) \in Nat
  OBVIOUS
<1>2. CASE cells = <<>>
  <2>1. Put(f, at, cells) = f /\ Len(cells) = 0
    BY <1>2 DEF Put
  <2>2. at .. at + Len(cells) - 1 = {}
    BY <2>1
  <2> QED
    BY <2>1, <2>2 DEF PutGives
<1>3. CASE cells # <<>>
  <2> DEFINE end == at + Len(cells)
             g == [p \in DOMAIN f \cup 0 .. end - 1 |->
                     IF p >= at /\ p < end THEN cells[p - at + 1]
                     ELSE IF p \in DOMAIN f THEN f[p] ELSE Zero]
  <2>1. Put(f, at, cells) = g
    BY <1>3 DEF Put
  <2>2. DOMAIN g = DOMAIN f \cup 0 .. end - 1
    OBVIOUS
  <2>3. end \in Nat
    BY <1>1
  <2>4. IsFile(g)
    <3>1. CASE n <= end
      <4>1. DOMAIN g = 0 .. end - 1
        BY <1>0, <2>2, <2>3, <3>1
      <4> HIDE DEF g, end
      <4> QED
        BY <2>3, <4>1 DEF IsFile
    <3>2. CASE n > end
      <4>1. DOMAIN g = 0 .. n - 1
        BY <1>0, <2>2, <2>3, <3>2
      <4> HIDE DEF g
      <4> QED
        BY <4>1 DEF IsFile
    <3> QED
      BY <2>3, <3>1, <3>2
  <2>5. \A p \in at .. end - 1 : p \in DOMAIN g /\ g[p] = cells[p - at + 1]
    BY <2>3
  <2>6. \A p \in DOMAIN f : p \notin at .. end - 1 => g[p] = f[p]
    BY <2>3
  <2>7. \A p \in DOMAIN g : p \notin at .. end - 1 /\ p \notin DOMAIN f => g[p] = Zero
    BY <2>3
  <2> HIDE DEF g
  <2>8. DOMAIN f \subseteq DOMAIN g
    BY <2>2
  <2>9. PutGives(f, g, at, cells)
    BY <2>4, <2>5, <2>6, <2>7, <2>8, Zenon DEF PutGives
  <2> QED
    BY <2>1, <2>9
<1> QED
  BY <1>2, <1>3
-----------------------------------------------------------------------------
(* A cell that one table has is the cell of no entry of another.           *)
LEMMA OnlyOneEntry ==
  ASSUME pe \in PEs, NEW t \in 1 .. Len(pe.tables), NEW k \in 1 .. pe.tables[t].importCount,
         NEW u, TablesWith(EntryAt(t, k)) = {u}
  PROVE  t = u
<1>1. pe.tables[t].rva \in Nat /\ pe.tables[t].importCount \in Nat /\ t \in DOMAIN pe.tables
  BY PETyped
<1>2. EntryAt(t, k) \in pe.tables[t].rva .. pe.tables[t].rva + pe.tables[t].importCount - 1
  BY <1>1 DEF EntryAt
<1>3. t \in TablesWith(EntryAt(t, k))
  BY <1>1, <1>2 DEF TablesWith
<1> QED
  BY <1>3

LEMMA FileSizeOf ==
  ASSUME NEW f, IsFile(f)
  PROVE  FileSize(f) \in Nat /\ DOMAIN f = 0 .. FileSize(f) - 1
<1>1. PICK n \in Nat : DOMAIN f = 0 .. n - 1
  BY DEF IsFile
<1>2. Cardinality(0 .. n - 1) = n
  <2>1. 0 \in Int /\ n - 1 \in Int
    OBVIOUS
  <2>2. Cardinality(0 .. n - 1) = IF 0 > n - 1 THEN 0 ELSE ((n - 1) - 0) + 1
    BY <2>1, FS_Interval
  <2> QED
    BY <2>2
<1> QED
  BY <1>1, <1>2 DEF FileSize

(* What is read as a name RVA leads to a place.                            *)
LEMMA EntriesLead ==
  ASSUME NEW f, IsFile(f), NamesPlaces(f), NEW p \in DOMAIN f, NEW e \in EntriesAt(f, p),
         e[1] = "nameRVA"
  PROVE  e[2] \in Nat
<1>1. CASE f[p][1] \in {"ordinal", "nameRVA"}
  <2>1. e = f[p]
    BY <1>1 DEF EntriesAt
  <2> QED
    BY <2>1 DEF NamesPlaces
<1>2. CASE f[p][1] \notin {"ordinal", "nameRVA"}
  <2>1. FileSize(f) \in Nat
    BY FileSizeOf
  <2>2. e \in {Ordinal(n) : n \in Numbers} \cup {NameRVA(rva) : rva \in 0 .. FileSize(f)}
    BY <1>2, Zenon DEF EntriesAt
  <2>3. \A n : Ordinal(n)[1] # "nameRVA"
    BY DEF Ordinal
  <2>4. PICK rva \in 0 .. FileSize(f) : e = NameRVA(rva)
    BY <2>2, <2>3
  <2> QED
    BY <2>1, <2>4 DEF NameRVA
<1> QED
  BY <1>1, <1>2

LEMMA EmptyFile == IsFile(<<>>) /\ DOMAIN <<>> = {}
<1>1. DOMAIN <<>> = {}
  OBVIOUS
<1>2. 0 .. 0 - 1 = {}
  OBVIOUS
<1> QED
  BY <1>1, <1>2 DEF IsFile

LEMMA MapInit == Init => MapInv
<1> SUFFICES ASSUME Init PROVE MapInv
  OBVIOUS
<1>1. step = "sectionInfo" /\ ret = "none" /\ ~Built /\ basefile = <<>>
  BY DEF Init, Built
<1>2. MapTypes
  <2>1. IsFile(basefile) /\ NamesPlaces(basefile)
    BY <1>1, EmptyFile DEF NamesPlaces
  <2>2. size \in Nat
    BY PETyped DEF Init
  <2> QED
    BY <2>1, <2>2 DEF Init, MapTypes, Mapping, Rewriting, Hashing
<1>3. Contents
  <2>1. DOMAIN basefile = {}
    BY <1>1, EmptyFile
  <2> QED
    BY <1>1, <2>1 DEF Contents, HeaderThere, SectionsThere, MappedSections, NothingElse, InHand
<1>4. Positioned /\ Sized /\ Chain
  BY <1>1 DEF Init, Positioned, Sized, Chain, Mapping, Rewriting, Hashing
<1> QED
  BY <1>2, <1>3, <1>4 DEF MapInv

-----------------------------------------------------------------------------
(* The steps that write to the basefile, and where.                        *)
LEMMA EndOfData ==
  ASSUME MapTypes, Contents, step = "sections", i > Len(pe.sections)
  PROVE  pos = DataEnd /\ i = Len(pe.sections) + 1 /\ MappedSections = 1 .. Len(pe.sections)
<1>1. pe \in PEs /\ i \in 1 .. Len(pe.sections) + 1
  BY DEF MapTypes
<1>2. Len(pe.sections) \in Nat \ {0}
  BY <1>1, PETyped
<1>3. i = Len(pe.sections) + 1 /\ i # 1 /\ i - 1 = Len(pe.sections)
  BY <1>1, <1>2
<1>4. pos = pe.sections[i - 1].rva + pe.sections[i - 1].rawSize
  BY <1>3 DEF Contents, InHand, Live
<1> QED
  BY <1>1, <1>3, <1>4, EndTyped DEF DataEnd, MappedSections

(* Where the zero of the padding goes: to the last byte of the data, or    *)
(* behind it.                                                              *)
LEMMA ModBounds ==
  ASSUME NEW a \in Nat, NEW n \in Nat, n > 0
  PROVE  a % n \in Nat /\ a % n < n
OBVIOUS

LEMMA SmallMod ==
  ASSUME NEW a \in Nat, NEW n \in Nat, a < n
  PROVE  a % n = a
OBVIOUS

LEMMA DivNat ==
  ASSUME NEW a \in Nat, NEW n \in Nat, n > 0
  PROVE  a \div n \in Nat
OBVIOUS

LEMMA WhereThePaddingGoes ==
  ASSUME pe \in PEs
  PROVE  LET n == getNextAligned(DataEnd, pe.pageSize) - 1
         IN  /\ n \in Nat /\ n + 1 >= pe.pageSize
             /\ (n = DataEnd - 1 /\ DataEnd % pe.pageSize = 0) \/ n >= DataEnd
<1> DEFINE e == DataEnd
           g == pe.pageSize
           n == getNextAligned(e, g) - 1
<1>1. e \in Nat /\ e >= g /\ e + g <= Word /\ g \in Nat /\ g > 1
  BY EndTyped, PETyped DEF DataEnd
<1> HIDE DEF e, g
<1>2. Word \in Nat
  BY PagesTyped
<1>3. e % g \in Nat /\ e % g < g
  BY <1>1, ModBounds
<1>4. CASE e % g = 0
  <2>1. n = e - 1
    BY <1>4 DEF getNextAligned
  <2> HIDE DEF n
  <2>2. n \in Nat /\ n + 1 >= g /\ n = e - 1
    BY <1>1, <2>1
  <2> QED
    BY <1>4, <2>2 DEF e, g, n
<1>5. CASE e % g # 0
  <2>1. e + (g - (e % g)) \in Nat /\ e + (g - (e % g)) < Word /\ e + (g - (e % g)) > e
    BY <1>1, <1>2, <1>3, <1>5
  <2>2. U32(e + (g - (e % g))) = e + (g - (e % g))
    BY <1>2, <2>1, SmallMod DEF U32
  <2>3. n = (e + (g - (e % g))) - 1
    <3>1. getNextAligned(e, g) = U32(e + (g - (e % g)))
      BY <1>5 DEF getNextAligned
    <3> QED
      BY <2>2, <3>1
  <2>4. n \in Nat /\ n >= e
    BY <1>1, <2>1, <2>3
  <2> HIDE DEF n
  <2>5. n \in Nat /\ n >= e /\ n + 1 >= g
    BY <1>1, <2>4
  <2> QED
    BY <2>5 DEF e, g, n
<1> QED
  BY <1>4, <1>5

LEMMA SubSeqTyped ==
  ASSUME NEW S, NEW s \in Seq(S), NEW m \in Nat, NEW n \in Nat, m + n <= Len(s)
  PROVE  /\ SubSeq(s, m + 1, m + n) \in Seq(S) /\ Len(SubSeq(s, m + 1, m + n)) = n
         /\ \A k \in 1 .. n : SubSeq(s, m + 1, m + n)[k] = s[m + k]
<1>1. Len(s) \in Nat
  OBVIOUS
<1>2. SubSeq(s, m + 1, m + n) \in Seq(S)
  BY <1>1
<1>3. Len(SubSeq(s, m + 1, m + n)) = n
  BY <1>1
<1>4. \A k \in 1 .. n : SubSeq(s, m + 1, m + n)[k] = s[m + k]
  BY <1>1
<1> QED
  BY <1>2, <1>3, <1>4

LEMMA CopyHeaderDoes ==
  ASSUME MapTypes, CopyHeader
  PROVE  /\ IsFile(basefile')
         /\ \A p \in 0 .. pe.headerLen - 1 :
              p \in DOMAIN basefile' /\ basefile'[p] = pe.cells[p + 1]
         /\ \A p \in DOMAIN basefile' :
              p < pe.headerLen \/ basefile'[p] = Zero
              \/ (p \in DOMAIN basefile /\ basefile'[p] = basefile[p])
<1> DEFINE cells == SubSeq(pe.cells, 1, pe.headerLen)
<1>1. /\ pe \in PEs /\ pe.cells \in Seq(Cell) /\ pe.headerLen \in Nat /\ pe.headerLen >= 1
      /\ pe.headerLen <= Len(pe.cells)
  BY PETyped DEF MapTypes
<1>2. cells = SubSeq(pe.cells, 0 + 1, 0 + pe.headerLen)
  BY <1>1
<1>3. /\ cells \in Seq(Cell) /\ Len(cells) = pe.headerLen
      /\ \A k \in 1 .. pe.headerLen : cells[k] = pe.cells[0 + k]
  BY <1>1, <1>2, SubSeqTyped
<1>4. basefile' = Put(basefile, 0, cells)
  BY DEF CopyHeader, Write
<1> HIDE DEF cells
<1>5. PutGives(basefile, Put(basefile, 0, cells), 0, cells)
  BY <1>3, PutResult DEF MapTypes
<1>6. /\ IsFile(basefile')
      /\ \A p \in 0 .. pe.headerLen - 1 : p \in DOMAIN basefile' /\ basefile'[p] = cells[p - 0 + 1]
      /\ \A p \in DOMAIN basefile : p \notin 0 .. pe.headerLen - 1 => basefile'[p] = basefile[p]
      /\ \A p \in DOMAIN basefile' :
           p \notin 0 .. pe.headerLen - 1 /\ p \notin DOMAIN basefile => basefile'[p] = Zero
  <2>1. (0 + Len(cells)) - 1 = pe.headerLen - 1
    BY <1>1, <1>3
  <2> QED
    BY <1>4, <1>5, <2>1 DEF PutGives
<1>7. \A p \in 0 .. pe.headerLen - 1 :
        p \in DOMAIN basefile' /\ basefile'[p] = pe.cells[p + 1]
  <2>1. TAKE p \in 0 .. pe.headerLen - 1
  <2>2. p - 0 + 1 = p + 1 /\ 0 + (p + 1) = p + 1 /\ p + 1 \in 1 .. pe.headerLen
    BY <1>1
  <2> QED
    BY <1>3, <1>6, <2>2
<1>8. \A p \in DOMAIN basefile' :
        p < pe.headerLen \/ basefile'[p] = Zero
        \/ (p \in DOMAIN basefile /\ basefile'[p] = basefile[p])
  <2>1. TAKE p \in DOMAIN basefile'
  <2>2. p \in Nat
    BY <1>6 DEF IsFile
  <2>3. p < pe.headerLen <=> p \in 0 .. pe.headerLen - 1
    BY <1>1, <2>2
  <2> QED
    BY <1>6, <2>3
<1> QED
  BY <1>6, <1>7, <1>8

LEMMA MapSectionDoes ==
  ASSUME MapTypes, MapSection
  PROVE  /\ i \in 1 .. Len(pe.sections)
         /\ IsFile(basefile')
         /\ DOMAIN basefile \subseteq DOMAIN basefile'
         /\ \A o \in 0 .. pe.sections[i].rawSize - 1 :
              /\ pe.sections[i].rva + o \in DOMAIN basefile'
              /\ basefile'[pe.sections[i].rva + o] = SectionCell(i, o)
         /\ \A p \in DOMAIN basefile : p \notin Raw(pe.sections[i]) => basefile'[p] = basefile[p]
         /\ \A p \in DOMAIN basefile' :
              p \in Raw(pe.sections[i]) \/ basefile'[p] = Zero
              \/ (p \in DOMAIN basefile /\ basefile'[p] = basefile[p])
<1>1. pe \in PEs /\ i \in 1 .. Len(pe.sections) /\ pe.cells \in Seq(Cell) /\ Len(pe.cells) \in Nat
  <2>1. pe \in PEs /\ i \in 1 .. Len(pe.sections) + 1 /\ i <= Len(pe.sections)
    BY DEF MapTypes, MapSection, At, inputs
  <2>2. pe.cells \in Seq(Cell) /\ Len(pe.cells) \in Nat /\ Len(pe.sections) \in Nat
    BY <2>1, PETyped
  <2> QED
    BY <2>1, <2>2
<1> DEFINE at  == pe.sections[i].rva
           raw == pe.sections[i].rawSize
           off == pe.sections[i].offset
           cells == SubSeq(pe.cells, off + 1, off + raw)
<1>2. at \in Nat /\ raw \in Nat /\ off \in Nat /\ off + raw <= Len(pe.cells)
  BY <1>1, SectionTyped
<1>3. basefile' = Put(basefile, at, cells)
  BY DEF MapSection
<1>4. \A o \in 0 .. raw - 1 : SectionCell(i, o) = pe.cells[off + o + 1]
  BY DEF SectionCell
<1>5. Raw(pe.sections[i]) = at .. at + raw - 1
  BY DEF Raw
<1> HIDE DEF at, raw, off
<1>6. /\ cells \in Seq(Cell) /\ Len(cells) = raw
      /\ \A k \in 1 .. raw : cells[k] = pe.cells[off + k]
  BY <1>1, <1>2, SubSeqTyped
<1> HIDE DEF cells
<1>7. PutGives(basefile, Put(basefile, at, cells), at, cells)
  BY <1>2, <1>6, PutResult DEF MapTypes
<1>8. /\ IsFile(basefile')
      /\ DOMAIN basefile \subseteq DOMAIN basefile'
      /\ \A p \in at .. at + raw - 1 :
           p \in DOMAIN basefile' /\ basefile'[p] = cells[p - at + 1]
      /\ \A p \in DOMAIN basefile : p \notin at .. at + raw - 1 => basefile'[p] = basefile[p]
      /\ \A p \in DOMAIN basefile' :
           p \notin at .. at + raw - 1 /\ p \notin DOMAIN basefile => basefile'[p] = Zero
  <2>1. (at + Len(cells)) - 1 = at + raw - 1
    BY <1>2, <1>6
  <2> QED
    BY <1>3, <1>7, <2>1 DEF PutGives
<1>9. \A o \in 0 .. raw - 1 : at + o \in DOMAIN basefile' /\ basefile'[at + o] = SectionCell(i, o)
  <2>1. TAKE o \in 0 .. raw - 1
  <2>2. at + o \in at .. at + raw - 1 /\ (at + o) - at + 1 = o + 1 /\ o + 1 \in 1 .. raw
    BY <1>2, <1>6
  <2>3. basefile'[at + o] = cells[o + 1] /\ at + o \in DOMAIN basefile'
    BY <1>2, <1>8, <2>2
  <2>4. cells[o + 1] = pe.cells[off + (o + 1)] /\ off + (o + 1) = off + o + 1
    BY <1>2, <1>6, <2>2
  <2> QED
    BY <1>4, <2>3, <2>4
<1>10. \A p \in DOMAIN basefile' :
         p \in at .. at + raw - 1 \/ basefile'[p] = Zero
         \/ (p \in DOMAIN basefile /\ basefile'[p] = basefile[p])
  BY <1>6, <1>8
<1>11. \A p \in DOMAIN basefile : p \notin at .. at + raw - 1 => basefile'[p] = basefile[p]
  BY <1>6, <1>8
<1> QED
  BY <1>1, <1>5, <1>8, <1>9, <1>10, <1>11 DEF at, raw, off

(* One cell.                                                               *)
PutOne(f, g, at, c) ==
  /\ IsFile(g)
  /\ DOMAIN f \subseteq DOMAIN g
  /\ at \in DOMAIN g /\ g[at] = c
  /\ \A p \in DOMAIN f : p # at => g[p] = f[p]
  /\ \A p \in DOMAIN g : p = at \/ p \in DOMAIN f \/ g[p] = Zero

LEMMA OneCell ==
  ASSUME NEW f, IsFile(f), NEW at \in Nat, NEW c
  PROVE  PutOne(f, Put(f, at, <<c>>), at, c)
<1> DEFINE g == Put(f, at, <<c>>)
<1>1. <<c>> \in Seq({c}) /\ Len(<<c>>) = 1 /\ <<c>>[1] = c
  OBVIOUS
<1>2. PutGives(f, g, at, <<c>>)
  BY <1>1, PutResult
<1> HIDE DEF g
<1>3. \A p : p \in at .. (at + Len(<<c>>)) - 1 <=> p = at
  BY <1>1
<1>4. at - at + 1 = 1
  OBVIOUS
<1> QED
  BY <1>1, <1>2, <1>3, <1>4 DEF PutGives, PutOne, g

LEMMA PadFinalPageDoes ==
  ASSUME MapTypes, Contents, PadFinalPage
  PROVE  /\ size' \in Nat /\ size' > 0 /\ pos' \in Nat
         /\ MappedSections = 1 .. Len(pe.sections)
         /\ IsFile(basefile')
         /\ DOMAIN basefile \subseteq DOMAIN basefile'
         /\ \A p \in DOMAIN basefile :
              \/ basefile'[p] = basefile[p]
              \/ basefile'[p] = Zero /\ (p >= DataEnd \/ PaddedOver(p))
         /\ \A p \in DOMAIN basefile' :
              basefile'[p] = Zero \/ (p \in DOMAIN basefile /\ basefile'[p] = basefile[p])
<1>1. pe \in PEs /\ step = "sections" /\ i > Len(pe.sections)
  BY DEF MapTypes, PadFinalPage, At, inputs
<1>2. pos = DataEnd /\ MappedSections = 1 .. Len(pe.sections)
  BY <1>1, EndOfData
<1>3. DataEnd \in Nat /\ DataEnd >= pe.pageSize /\ pe.pageSize \in Nat /\ pe.pageSize > 1
  BY <1>1, EndTyped, PETyped DEF DataEnd
<1> DEFINE n == getNextAligned(pos, pe.pageSize) - 1
<1>4. /\ n \in Nat /\ n + 1 >= pe.pageSize
      /\ (n = DataEnd - 1 /\ DataEnd % pe.pageSize = 0) \/ n >= DataEnd
  BY <1>1, <1>2, WhereThePaddingGoes
<1>5. PaddedOver(n) \/ n >= DataEnd
  BY <1>4 DEF PaddedOver
<1>6. CASE n = pos
  <2>1. size' = pos /\ UNCHANGED <<basefile, pos>>
    BY <1>6 DEF PadFinalPage
  <2> QED
    BY <1>2, <1>3, <2>1 DEF MapTypes
<1>7. CASE n # pos
  <2>1. basefile' = Put(basefile, n, <<Zero>>) /\ pos' = n + 1 /\ size' = n + 1
    BY <1>7 DEF PadFinalPage
  <2> HIDE DEF n
  <2>2. PutOne(basefile, basefile', n, Zero)
    BY <1>4, <2>1, OneCell DEF MapTypes
  <2>3. size' \in Nat /\ size' > 0 /\ pos' \in Nat
    BY <1>3, <1>4, <2>1
  <2>4. \A p \in DOMAIN basefile :
          \/ basefile'[p] = basefile[p]
          \/ basefile'[p] = Zero /\ (p >= DataEnd \/ PaddedOver(p))
    BY <1>5, <2>2 DEF PutOne
  <2>5. \A p \in DOMAIN basefile' :
          basefile'[p] = Zero \/ (p \in DOMAIN basefile /\ basefile'[p] = basefile[p])
    BY <2>2 DEF PutOne
  <2> QED
    BY <1>2, <2>2, <2>3, <2>4, <2>5 DEF PutOne
<1> QED
  BY <1>6, <1>7

(* Rewriting an entry changes that cell and nothing else.                  *)
LEMMA WriteEntryDoes ==
  ASSUME MapTypes, Contents, WriteEntry
  PROVE  /\ i \in 1 .. Len(pe.tables) /\ j \in 1 .. pe.tables[i].importCount
         /\ pos = EntryAt(i, j) /\ pos \in DOMAIN basefile
         /\ DOMAIN basefile' = DOMAIN basefile
         /\ basefile'[pos] = Xenonified((i - 1) % Byte, entry)
         /\ \A p \in DOMAIN basefile : p # pos => basefile'[p] = basefile[p]
<1>1. pe \in PEs /\ step = "writeEntry" /\ Live
  BY DEF MapTypes, WriteEntry, At, inputs, Live
<1>2. i \in 1 .. Len(pe.tables) /\ j \in Nat \ {0} /\ j <= pe.tables[i].importCount
  BY <1>1 DEF MapTypes, Rewriting, Contents, InHand
<1>3. j \in 1 .. pe.tables[i].importCount
  BY <1>1, <1>2, PETyped
<1>4. pos = EntryAt(i, j) /\ pos \in DOMAIN basefile
  BY <1>1 DEF Contents, InHand
<1>5. pos \in Nat
  BY DEF MapTypes
<1> DEFINE x == Xenonified((i - 1) % Byte, entry)
<1>6. basefile' = Put(basefile, pos, <<x>>)
  BY DEF WriteEntry, Write
<1> HIDE DEF x
<1>7. PutOne(basefile, basefile', pos, x)
  BY <1>5, <1>6, OneCell DEF MapTypes
<1>8. DOMAIN basefile' = DOMAIN basefile
  <2>1. PICK n \in Nat : DOMAIN basefile = 0 .. n - 1
    BY DEF MapTypes, IsFile
  <2>2. Len(<<x>>) = 1 /\ <<x>> # <<>>
    OBVIOUS
  <2>3. DOMAIN basefile' = DOMAIN basefile \cup 0 .. (pos + 1) - 1
    BY <1>6, <2>2 DEF Put
  <2> QED
    BY <1>4, <1>5, <2>1, <2>3
<1> QED
  BY <1>2, <1>3, <1>4, <1>7, <1>8 DEF PutOne, x
-----------------------------------------------------------------------------
(***************************************************************************)
(* Each part of the invariant is kept by every step.                       *)
(***************************************************************************)
LEMMA NamesPlacesNext == MapInv /\ [Next]_vars => NamesPlaces(basefile)'
<1> SUFFICES ASSUME MapInv, [Next]_vars PROVE NamesPlaces(basefile)'
  OBVIOUS
<1>1. MapTypes /\ Contents /\ NamesPlaces(basefile) /\ pe \in PEs
  BY DEF MapInv, MapTypes
<1>2. Zero[1] # "nameRVA"
  BY DEF Zero
<1>3. pe.cells \in Seq(Cell) /\ pe.headerLen \in Nat /\ pe.headerLen <= Len(pe.cells)
  BY <1>1, PETyped
<1>4. CASE CopyHeader
  <2>1. /\ IsFile(basefile')
        /\ \A p \in 0 .. pe.headerLen - 1 : basefile'[p] = pe.cells[p + 1]
        /\ \A p \in DOMAIN basefile' :
             p < pe.headerLen \/ basefile'[p] = Zero
             \/ (p \in DOMAIN basefile /\ basefile'[p] = basefile[p])
    BY <1>1, <1>4, CopyHeaderDoes
  <2>2. SUFFICES ASSUME NEW p \in DOMAIN basefile', basefile'[p][1] = "nameRVA"
                 PROVE  basefile'[p][2] \in Nat
    BY DEF NamesPlaces
  <2>3. CASE p < pe.headerLen
    <3>1. p \in 0 .. pe.headerLen - 1 /\ p + 1 \in 1 .. Len(pe.cells)
      BY <1>3, <2>1, <2>3 DEF IsFile
    <3>2. basefile'[p] \in Cell
      BY <1>3, <2>1, <3>1
    <3> QED
      BY <2>2, <3>2, CellKinds
  <2> QED
    BY <1>1, <1>2, <2>1, <2>2, <2>3 DEF NamesPlaces
<1>5. CASE MapSection
  <2>1. /\ i \in 1 .. Len(pe.sections)
        /\ \A o \in 0 .. pe.sections[i].rawSize - 1 :
             basefile'[pe.sections[i].rva + o] = SectionCell(i, o)
        /\ \A p \in DOMAIN basefile' :
             p \in Raw(pe.sections[i]) \/ basefile'[p] = Zero
             \/ (p \in DOMAIN basefile /\ basefile'[p] = basefile[p])
    BY <1>1, <1>5, MapSectionDoes
  <2>2. SUFFICES ASSUME NEW p \in DOMAIN basefile', basefile'[p][1] = "nameRVA"
                 PROVE  basefile'[p][2] \in Nat
    BY DEF NamesPlaces
  <2>3. CASE p \in Raw(pe.sections[i])
    <3>1. pe.sections[i].rva \in Nat /\ pe.sections[i].rawSize \in Nat
      BY <1>1, <2>1, SectionTyped
    <3> DEFINE o == p - pe.sections[i].rva
    <3>2. o \in 0 .. pe.sections[i].rawSize - 1 /\ pe.sections[i].rva + o = p
      BY <2>3, <3>1 DEF Raw
    <3>3. basefile'[p] \in Cell
      BY <1>1, <2>1, <3>2, SectionCells
    <3> QED
      BY <2>2, <3>3, CellKinds
  <2> QED
    BY <1>1, <1>2, <2>1, <2>2, <2>3 DEF NamesPlaces
<1>6. CASE PadFinalPage
  <2>1. \A p \in DOMAIN basefile' :
          basefile'[p] = Zero \/ (p \in DOMAIN basefile /\ basefile'[p] = basefile[p])
    BY <1>1, <1>6, PadFinalPageDoes
  <2> QED
    BY <1>1, <1>2, <2>1 DEF NamesPlaces
<1>7. CASE WriteEntry
  <2>1. /\ DOMAIN basefile' = DOMAIN basefile
        /\ basefile'[pos] = Xenonified((i - 1) % Byte, entry)
        /\ \A p \in DOMAIN basefile : p # pos => basefile'[p] = basefile[p]
    BY <1>1, <1>7, WriteEntryDoes
  <2>2. basefile'[pos][1] # "nameRVA"
    BY <2>1 DEF Xenonified
  <2> QED
    BY <1>1, <2>1, <2>2 DEF NamesPlaces
<1>8. CASE \/ ReadSectionInfo \/ SeekTable \/ ReadOrdinal \/ ReadNameRVA \/ ReadHint \/ NextTable
           \/ SetSecInfoHeader \/ AllocDescriptors \/ HashPage \/ DigestPage \/ Succeed \/ Fail
           \/ UNCHANGED vars
  <2>1. UNCHANGED basefile
    BY <1>8 DEF ReadSectionInfo, SeekTable, ReadOrdinal, ReadNameRVA, ReadEntry, ReadHint,
       NextTable, SetSecInfoHeader, AllocDescriptors, Describe, HashPage, DigestPage, StoreDigest,
       Succeed, Fail, files, vars
  <2> QED
    BY <1>1, <2>1 DEF NamesPlaces
<1> QED
  BY <1>4, <1>5, <1>6, <1>7, <1>8 DEF Next

LEMMA MapTypesNext == MapInv /\ [Next]_vars => MapTypes'
<1> SUFFICES ASSUME MapInv, [Next]_vars PROVE MapTypes'
  OBVIOUS
<1> USE DEF Mapping, Rewriting, Hashing, At, inputs, hashVars
<1>0. NamesPlaces(basefile)'
  BY NamesPlacesNext
<1>1. MapTypes /\ Contents /\ Positioned
  BY DEF MapInv
<1>2. /\ pe \in PEs /\ Len(pe.sections) \in Nat \ {0} /\ Len(pe.tables) \in Nat
      /\ pe.headerLen \in Nat /\ pe.pageSize \in Nat /\ pe.pageSize > 1
      /\ \A t \in 1 .. Len(pe.tables) : pe.tables[t].rva \in Nat /\ pe.tables[t].importCount \in Nat
  BY <1>1, PETyped DEF MapTypes
<1>3. CASE ReadSectionInfo
  BY <1>0, <1>1, <1>2, <1>3 DEF ReadSectionInfo, MapTypes, files, iatVars, secInfoVars
<1>4. CASE CopyHeader
  <2>1. IsFile(basefile')
    BY <1>1, <1>4, CopyHeaderDoes
  <2>2. /\ step = "header" /\ step' = "sections" /\ pos' \in Nat /\ lastOp' = "write"
        /\ disciplined' \in BOOLEAN
        /\ UNCHANGED <<littleEndian, pe, ret, i, j, size, secInfoVars>>
    BY <1>1, <1>2, <1>4 DEF CopyHeader, Write
  <2> QED
    BY <1>0, <1>1, <1>2, <2>1, <2>2 DEF MapTypes, secInfoVars
<1>5. CASE MapSection
  <2>1. IsFile(basefile') /\ i \in 1 .. Len(pe.sections)
    BY <1>1, <1>5, MapSectionDoes
  <2>2. pe.sections[i].rva + pe.sections[i].rawSize \in Nat
    BY <1>2, <2>1, SectionTyped
  <2>3. /\ step = "sections" /\ step' = "sections" /\ pos' \in Nat /\ lastOp' = "write"
        /\ i' = i + 1 /\ i' \in 1 .. Len(pe.sections) + 1
        /\ UNCHANGED <<littleEndian, pe, ret, disciplined, j, size, secInfoVars>>
    BY <1>2, <1>5, <2>1, <2>2 DEF MapSection
  <2> QED
    BY <1>0, <1>1, <1>2, <2>1, <2>3 DEF MapTypes, secInfoVars
<1>6. CASE PadFinalPage
  <2>1. IsFile(basefile') /\ size' \in Nat /\ pos' \in Nat
    BY <1>1, <1>6, PadFinalPageDoes
  <2>2. /\ step = "sections" /\ step' = "seekTable" /\ i' = 1
        /\ UNCHANGED <<littleEndian, pe, ret, lastOp, disciplined, j, secInfoVars>>
    BY <1>6 DEF PadFinalPage, iatVars
  <2> QED
    BY <1>0, <1>1, <1>2, <2>1, <2>2 DEF MapTypes, secInfoVars
<1>7. CASE SeekTable
  <2>1. /\ step' = "readEntry" /\ i \in 1 .. Len(pe.tables) /\ j' = 1 /\ pos' \in Nat
        /\ lastOp' = "seek" /\ UNCHANGED <<littleEndian, pe, ret, basefile, disciplined, i, size, secInfoVars>>
        /\ step = "seekTable"
    BY <1>1, <1>2, <1>7 DEF SeekTable, MapTypes
  <2>2. 1 \in 1 .. pe.tables[i].importCount + 1
    BY <1>2, <2>1
  <2> QED
    BY <1>0, <1>1, <2>1, <2>2 DEF MapTypes, secInfoVars
<1>8. CASE ReadOrdinal
  BY <1>0, <1>1, <1>2, <1>8 DEF ReadOrdinal, ReadEntry, Read, MapTypes, secInfoVars
<1>9. CASE ReadNameRVA
  <2>1. /\ step = "readEntry" /\ pos \in DOMAIN basefile
        /\ \E e \in EntriesAt(basefile, pos) : e[1] = "nameRVA" /\ pos' = e[2]
        /\ j <= pe.tables[i].importCount
        /\ step' = "readHint" /\ lastOp' = "seek" /\ disciplined' \in BOOLEAN
        /\ UNCHANGED <<littleEndian, pe, ret, basefile, i, j, size, secInfoVars>>
    BY <1>1, <1>9 DEF ReadNameRVA, ReadEntry, Read
  <2>2. pos' \in Nat
    BY <1>1, <2>1, EntriesLead DEF MapTypes
  <2> QED
    BY <1>0, <1>1, <2>1, <2>2 DEF MapTypes, secInfoVars
<1>10. CASE ReadHint
  <2>1. savedPos \in Nat
    <3>1. /\ j \in 1 .. pe.tables[i].importCount /\ i \in 1 .. Len(pe.tables)
          /\ savedPos = EntryAt(i, j)
      BY <1>1, <1>2, <1>10 DEF ReadHint, Contents, InHand, Live, MapTypes
    <3> QED
      BY <1>2, <3>1, EntriesInIAT
  <2> QED
    BY <1>0, <1>1, <1>10, <2>1 DEF ReadHint, Read, MapTypes, secInfoVars
<1>11. CASE WriteEntry
  <2>1. DOMAIN basefile' = DOMAIN basefile /\ i \in 1 .. Len(pe.tables)
        /\ j \in 1 .. pe.tables[i].importCount
    BY <1>1, <1>11, WriteEntryDoes
  <2>2. IsFile(basefile')
    BY <1>1, <2>1 DEF MapTypes, IsFile
  <2>3. j + 1 \in 1 .. pe.tables[i].importCount + 1
    BY <1>2, <2>1
  <2>4. /\ step' = "readEntry" /\ pos' = pos + 1 /\ lastOp' = "seek" /\ disciplined' \in BOOLEAN
        /\ j' = j + 1 /\ UNCHANGED <<littleEndian, pe, ret, i, size, secInfoVars>> /\ step = "writeEntry"
    BY <1>11 DEF WriteEntry, Write
  <2>5. pos' \in Nat /\ j' \in Nat \ {0}
    BY <1>1, <2>3, <2>4 DEF MapTypes
  <2> QED
    BY <1>0, <1>1, <2>1, <2>2, <2>3, <2>4, <2>5 DEF MapTypes, secInfoVars
<1>12. CASE NextTable
  BY <1>0, <1>1, <1>2, <1>12 DEF NextTable, MapTypes, files, secInfoVars
<1>13. CASE SetSecInfoHeader
  <2>1. size \div pe.pageSize \in Nat
    <3>1. size \in Nat
      BY <1>1 DEF MapTypes
    <3>2. pe.pageSize \in Nat /\ pe.pageSize > 0
      BY <1>2
    <3> QED
      BY <3>1, <3>2, DivNat
  <2>2. pageDescCount' \in Nat /\ headerSize' \in Nat
    BY <1>13, <2>1 DEF SetSecInfoHeader, SizeofPageDescriptor, SizeofSecInfoHeader
  <2>3. /\ imageFlags' \subseteq {"4KIB_PAGES"} /\ step = "seekTable" /\ step' = "calloc"
        /\ UNCHANGED <<littleEndian, pe, ret, files, i, j, size, descriptors, swapped>>
    BY <1>13 DEF SetSecInfoHeader
  <2> QED
    BY <1>0, <1>1, <2>2, <2>3 DEF MapTypes, files
<1>14. CASE AllocDescriptors
  <2>1. /\ step = "calloc" /\ step' = "descriptors" /\ i' = pageDescCount - 1
        /\ descriptors' = [d \in 0 .. pageDescCount - 1 |-> [info |-> "none", sha1 |-> <<>>]]
        /\ UNCHANGED <<littleEndian, pe, ret, files, j, size, imageFlags, pageDescCount, headerSize,
                       swapped>>
    BY <1>14 DEF AllocDescriptors, Describe
  <2>2. DOMAIN descriptors' = 0 .. pageDescCount - 1
    BY <2>1
  <2>3. i' \in Int /\ i' \in -1 .. pageDescCount - 1
    BY <1>1, <2>1 DEF MapTypes
  <2> QED
    BY <1>0, <1>1, <2>1, <2>2, <2>3 DEF MapTypes, files
<1>15. CASE HashPage
  <2>1. /\ step = "descriptors" /\ step' = "digest" /\ i \in 0 .. pageDescCount - 1
        /\ lastOp' = "read" /\ pos' = (i + 1) * pageSize /\ swapped' = Swapped({i})
        /\ UNCHANGED <<littleEndian, pe, ret, basefile, disciplined, i, j, size, imageFlags,
                       pageDescCount, headerSize>>
    BY <1>1, <1>15 DEF HashPage, MapTypes
  <2>2. pageSize \in Nat
    BY <1>1, <2>1 DEF pageSize, MapTypes
  <2>3. pos' \in Nat
    BY <2>1, <2>2
  <2>4. descriptors = <<>> \/ DOMAIN descriptors' = DOMAIN descriptors
    BY <1>15 DEF HashPage
  <2>5. descriptors = <<>> => descriptors' = <<>>
    BY <1>15, EmptyFile DEF HashPage
  <2>6. swapped' = IF littleEndian THEN {i} ELSE {}
    BY <1>1, <2>1 DEF MapTypes, Swapped
  <2> QED
    BY <1>0, <1>1, <2>1, <2>3, <2>4, <2>5, <2>6 DEF MapTypes
<1>16. CASE DigestPage
  <2>1. /\ step = "digest" /\ step' = "descriptors" /\ i' = i - 1 /\ swapped' = Swapped({i})
        /\ UNCHANGED <<littleEndian, pe, ret, files, j, size, imageFlags, pageDescCount,
                       headerSize>>
    BY <1>16 DEF DigestPage, StoreDigest
  <2>2. i' \in -1 .. pageDescCount' - 1 /\ i' \in Int
    BY <1>1, <2>1 DEF MapTypes
  <2>3. descriptors = <<>> \/ DOMAIN descriptors' = DOMAIN descriptors
    BY <1>16 DEF DigestPage, StoreDigest
  <2>4. descriptors = <<>> => descriptors' = <<>>
    BY <1>16, EmptyFile DEF DigestPage, StoreDigest
  <2>5. swapped' = {}
    BY <1>1, <2>1 DEF MapTypes, Swapped
  <2> QED
    BY <1>0, <1>1, <2>1, <2>2, <2>3, <2>4, <2>5 DEF MapTypes, files
<1>17. CASE Succeed
  BY <1>0, <1>1, <1>17 DEF Succeed, MapTypes, files, secInfoVars
<1>18. CASE Fail
  BY <1>0, <1>1, <1>18 DEF Fail, MapTypes, files, secInfoVars
<1>19. CASE UNCHANGED vars
  BY <1>0, <1>1, <1>19 DEF vars, MapTypes
<1> QED
  BY <1>3, <1>4, <1>5, <1>6, <1>7, <1>8, <1>9, <1>10, <1>11, <1>12, <1>13, <1>14, <1>15,
     <1>16, <1>17, <1>18, <1>19 DEF Next

LEMMA PositionedNext == MapInv /\ [Next]_vars => Positioned'
<1> SUFFICES ASSUME MapInv, [Next]_vars PROVE Positioned'
  OBVIOUS
<1>1. Positioned
  BY DEF MapInv
<1> USE DEF Positioned, Rewriting, At, inputs, hashVars
<1>2. CASE \/ ReadSectionInfo \/ CopyHeader \/ MapSection \/ PadFinalPage \/ SeekTable
           \/ WriteEntry \/ NextTable \/ SetSecInfoHeader \/ AllocDescriptors
  BY <1>1, <1>2 DEF ReadSectionInfo, CopyHeader, MapSection, PadFinalPage, SeekTable,
     WriteEntry, NextTable, SetSecInfoHeader, AllocDescriptors, Describe, Write, files
<1>3. CASE ReadOrdinal \/ ReadNameRVA \/ ReadHint \/ HashPage \/ DigestPage \/ Succeed \/ Fail
           \/ UNCHANGED vars
  BY <1>1, <1>3 DEF ReadOrdinal, ReadNameRVA, ReadEntry, ReadHint, HashPage, DigestPage,
     StoreDigest, Succeed, Fail, Read, files, vars
<1> QED
  BY <1>2, <1>3 DEF Next

(* What depends on the PE alone stays.                                     *)
LEMMA SectionCellsKept ==
  ASSUME UNCHANGED pe
  PROVE  /\ \A s, o : SectionCell(s, o)' = SectionCell(s, o)
         /\ \A p : PaddedOver(p)' <=> PaddedOver(p)
         /\ \A t, k : EntryAt(t, k)' = EntryAt(t, k)
         /\ \A c : OrdinalOf(c)' = OrdinalOf(c)
         /\ \A t, p, c : Unshared(t, p, c)' <=> Unshared(t, p, c)
         /\ IATCells' = IATCells
<1> USE DEF SectionCell, PaddedOver, DataEnd, DataEndOf, IATCells, IATOf
<1>1. /\ \A s, o : SectionCell(s, o)' = SectionCell(s, o)
      /\ \A p : PaddedOver(p)' <=> PaddedOver(p)
      /\ IATCells' = IATCells
  OBVIOUS
<1>2. /\ \A t, k : EntryAt(t, k)' = EntryAt(t, k)
      /\ \A c : OrdinalOf(c)' = OrdinalOf(c)
  BY DEF EntryAt, OrdinalOf
<1>3. /\ \A p : TablesWith(p)' = TablesWith(p)
      /\ \A p : HoldsHint(p)' <=> HoldsHint(p)
  BY DEF TablesWith, HoldsHint
<1>4. \A c : IsImport(c)' <=> IsImport(c)
  BY <1>3 DEF IsImport
<1>5. \A t, p, c : Unshared(t, p, c)' <=> Unshared(t, p, c)
  BY <1>1, <1>3, <1>4 DEF Unshared
<1> QED
  BY <1>1, <1>2, <1>5

(* What a step that writes nothing keeps.                                  *)
LEMMA PlacedKept ==
  ASSUME UNCHANGED <<pe, basefile>>,
         \A t \in 1 .. Len(pe.tables) : \A k \in 1 .. pe.tables[t].importCount :
           Rewritten(t, k)' <=> Rewritten(t, k),
         NEW s, NEW o
  PROVE  Placed(s, o)' <=> Placed(s, o)
<1>1. /\ SectionCell(s, o)' = SectionCell(s, o)
      /\ \A p : PaddedOver(p)' <=> PaddedOver(p)
      /\ \A t, k : EntryAt(t, k)' = EntryAt(t, k)
      /\ \A c : OrdinalOf(c)' = OrdinalOf(c)
      /\ \A t, p, c : Unshared(t, p, c)' <=> Unshared(t, p, c)
  BY SectionCellsKept
<1> QED
  BY <1>1 DEF Placed

LEMMA ThereKept ==
  ASSUME HeaderThere, SectionsThere, NothingElse,
         UNCHANGED <<pe, basefile>>, MappedSections' = MappedSections,
         step \in {"sectionInfo", "header"} => step' \in {"sectionInfo", "header"},
         \A t \in 1 .. Len(pe.tables) : \A k \in 1 .. pe.tables[t].importCount :
           Rewritten(t, k)' <=> Rewritten(t, k)
  PROVE  HeaderThere' /\ SectionsThere' /\ NothingElse'
<1>1. \A p : PaddedOver(p)' <=> PaddedOver(p)
  BY DEF PaddedOver, DataEnd, DataEndOf
<1>2. HeaderThere'
  BY <1>1 DEF HeaderThere
<1>3. SectionsThere'
  BY PlacedKept DEF SectionsThere
<1>4. NothingElse'
  BY SectionCellsKept DEF NothingElse
<1> QED
  BY <1>2, <1>3, <1>4

LEMMA ContentsCopyHeader == MapInv /\ CopyHeader => Contents'
<1> SUFFICES ASSUME MapInv, CopyHeader PROVE Contents'
  OBVIOUS
<1>1. MapTypes /\ Contents /\ step = "header" /\ step' = "sections" /\ UNCHANGED <<pe, i>>
  BY DEF MapInv, CopyHeader, At, inputs
<1>2. /\ i = 1 /\ basefile = <<>> /\ pos' = pe.headerLen
  BY <1>1 DEF MapTypes, Contents, InHand, Live, CopyHeader
<1>3. /\ \A p \in 0 .. pe.headerLen - 1 :
           p \in DOMAIN basefile' /\ basefile'[p] = pe.cells[p + 1]
      /\ \A p \in DOMAIN basefile' :
           p < pe.headerLen \/ basefile'[p] = Zero
           \/ (p \in DOMAIN basefile /\ basefile'[p] = basefile[p])
  BY <1>1, CopyHeaderDoes
<1>4. HeaderThere' /\ NothingElse'
  BY <1>1, <1>2, <1>3, EmptyFile DEF HeaderThere, NothingElse
<1>5. MappedSections' = {}
  BY <1>1, <1>2 DEF MappedSections
<1>6. SectionsThere' /\ InHand'
  BY <1>1, <1>2, <1>5 DEF SectionsThere, InHand
<1> QED
  BY <1>4, <1>6 DEF Contents

LEMMA ContentsMapSection == MapInv /\ MapSection => Contents'
<1> SUFFICES ASSUME MapInv, MapSection PROVE Contents'
  OBVIOUS
<1>1. /\ MapTypes /\ Contents /\ Live /\ step = "sections" /\ step' = "sections"
      /\ UNCHANGED <<pe, ret>> /\ i' = i + 1 /\ pe \in PEs
  BY DEF MapInv, MapSection, At, inputs, Live, MapTypes
<1>2. /\ i \in 1 .. Len(pe.sections)
      /\ DOMAIN basefile \subseteq DOMAIN basefile'
      /\ \A o \in 0 .. pe.sections[i].rawSize - 1 :
           /\ pe.sections[i].rva + o \in DOMAIN basefile'
           /\ basefile'[pe.sections[i].rva + o] = SectionCell(i, o)
      /\ \A p \in DOMAIN basefile : p \notin Raw(pe.sections[i]) => basefile'[p] = basefile[p]
      /\ \A p \in DOMAIN basefile' :
           p \in Raw(pe.sections[i]) \/ basefile'[p] = Zero
           \/ (p \in DOMAIN basefile /\ basefile'[p] = basefile[p])
  BY <1>1, MapSectionDoes
<1>3. HeaderThere /\ SectionsThere /\ NothingElse /\ InHand
  BY <1>1 DEF Contents
<1>4. /\ Len(pe.sections) \in Nat /\ i \in Nat /\ i - 1 \in Nat
      /\ pe.headerLen \in Nat /\ pe.headerLen <= pe.pageSize /\ pe.pageSize \in Nat
      /\ pe.sections[i].rva \in Nat /\ pe.sections[i].rva >= pe.pageSize
  BY <1>1, <1>2, PETyped, SectionTyped
<1>5. MappedSections = 1 .. i - 1 /\ MappedSections' = 1 .. i
  BY <1>1, <1>4 DEF MappedSections
<1>6. \A s, o : SectionCell(s, o)' = SectionCell(s, o)
      /\ \A p : PaddedOver(p)' <=> PaddedOver(p)
  BY <1>1, SectionCellsKept
<1>7. \A t, k : ~Rewritten(t, k)'
  BY <1>1 DEF Rewritten, Mapping
<1>8. HeaderThere'
  <2>1. SUFFICES ASSUME NEW p \in 0 .. pe.headerLen - 1
                 PROVE  p \in DOMAIN basefile' /\ (basefile'[p] = pe.cells[p + 1] \/ PaddedOver(p))
    BY <1>1, <1>6 DEF HeaderThere
  <2>2. p \notin Raw(pe.sections[i])
    BY <1>4 DEF Raw
  <2>3. p \in DOMAIN basefile /\ (basefile[p] = pe.cells[p + 1] \/ PaddedOver(p))
    BY <1>1, <1>3 DEF HeaderThere
  <2> QED
    BY <1>2, <2>2, <2>3
<1>9. SectionsThere'
  <2>1. SUFFICES ASSUME NEW s \in 1 .. i, NEW o \in 0 .. pe.sections[s].rawSize - 1
                 PROVE  Placed(s, o)'
    BY <1>1, <1>5 DEF SectionsThere
  <2> DEFINE p == pe.sections[s].rva + o
  <2>2. s \in 1 .. Len(pe.sections)
    BY <1>2, <1>4
  <2>3. p \in Raw(pe.sections[s]) /\ p \in Int
    <3>1. pe.sections[s].rva \in Nat
      BY <1>1, <2>2, SectionTyped
    <3>2. o \in Nat /\ p \in Raw(pe.sections[s])
      BY <1>1, <2>2, SectionCells
    <3> QED
      BY <3>1, <3>2
  <2>4. SUFFICES /\ p \in DOMAIN basefile'
                 /\ basefile'[p] = SectionCell(s, o) \/ (basefile'[p] = Zero /\ PaddedOver(p))
    <3>1. p' = p
      BY <1>1
    <3> QED
      BY <1>1, <1>6, <1>7, <3>1, Zenon DEF Placed
  <2>5. CASE s = i
    BY <1>2, <2>5
  <2>6. CASE s # i
    <3>1. s \in MappedSections
      BY <1>4, <1>5, <2>6
    <3>2. Placed(s, o)
      BY <1>3, <3>1 DEF SectionsThere
    <3>3. \A t, k : ~Rewritten(t, k)
      BY <1>1 DEF Rewritten, Mapping
    <3>4. /\ p \in DOMAIN basefile
          /\ basefile[p] = SectionCell(s, o) \/ (basefile[p] = Zero /\ PaddedOver(p))
      BY <3>2, <3>3 DEF Placed
    <3>5. p \notin Raw(pe.sections[i])
      BY <1>1, <1>2, <2>2, <2>3, <2>6, RawDisjoint
    <3> HIDE DEF p
    <3> QED
      BY <1>2, <3>4, <3>5
  <2> QED
    BY <2>5, <2>6
<1>10. NothingElse'
  <2>1. SUFFICES ASSUME NEW p \in DOMAIN basefile', basefile'[p] # Zero, ~(p < pe.headerLen),
                        p \notin IATCells
                 PROVE  \E s \in 1 .. i : p \in Raw(pe.sections[s])
    BY <1>1, <1>5, SectionCellsKept DEF NothingElse
  <2>2. CASE p \in Raw(pe.sections[i])
    BY <1>4, <2>2
  <2>3. CASE p \in DOMAIN basefile /\ basefile'[p] = basefile[p]
    <3>1. \E s \in 1 .. i - 1 : p \in Raw(pe.sections[s])
      BY <1>3, <1>5, <2>1, <2>3 DEF NothingElse
    <3> QED
      BY <1>4, <3>1
  <2> QED
    BY <1>2, <2>1, <2>2, <2>3
<1>11. InHand'
  <2>1. pos' = pe.sections[i].rva + pe.sections[i].rawSize
    BY DEF MapSection
  <2>2. i' # 1 /\ i' - 1 = i
    BY <1>1, <1>4
  <2> QED
    BY <1>1, <2>1, <2>2 DEF InHand
<1> QED
  BY <1>8, <1>9, <1>10, <1>11 DEF Contents
-----------------------------------------------------------------------------
(* The entry in hand, if no other table has it, is still what the PE has   *)
(* there; and so is a named import's hint.                                 *)
LEMMA InHandCell ==
  ASSUME MapTypes, SectionsThere, MappedSections = 1 .. Len(pe.sections),
         step \in {"readEntry", "readHint"},
         NEW s \in 1 .. Len(pe.sections), NEW o \in 0 .. pe.sections[s].rawSize - 1,
         NEW x \in DOMAIN basefile, x = pe.sections[s].rva + o, x = EntryAt(i, j),
         Unshared(i, x, SectionCell(s, o))
  PROVE  basefile[x] = SectionCell(s, o)
<1>1. /\ pe \in PEs /\ i \in 1 .. Len(pe.tables) /\ j \in Nat \ {0} /\ pe.tables[i].rva \in Nat
  BY PETyped DEF MapTypes, Rewriting
<1>2. Placed(s, o) /\ ~PaddedOver(x) /\ TablesWith(x) = {i}
  BY DEF SectionsThere, Unshared
<1>3. ASSUME NEW t \in 1 .. Len(pe.tables), NEW k \in 1 .. pe.tables[t].importCount,
             Rewritten(t, k), x = EntryAt(t, k)
      PROVE  FALSE
  <2>1. t = i
    BY <1>1, <1>2, <1>3, OnlyOneEntry
  <2>2. k = j
    BY <1>1, <1>3, <2>1 DEF EntryAt
  <2> QED
    BY <1>1, <1>3, <2>1, <2>2 DEF Rewritten, Rewriting
<1> QED
  BY <1>2, <1>3 DEF Placed

LEMMA HintOfName ==
  ASSUME pe \in PEs, SectionsThere, MappedSections = 1 .. Len(pe.sections),
         NEW cell, cell[1] = "nameRVA", cell[2] = pos, HoldsHint(pos)
  PROVE  basefile[pos][1] = "hint" /\ basefile[pos][2] = OrdinalOf(cell)
<1>1. pos \notin IATCells /\ ~PaddedOver(pos)
  BY DEF HoldsHint
<1>2. DOMAIN pe.sections = 1 .. Len(pe.sections)
  BY PETyped
<1>3. PICK r \in 1 .. Len(pe.sections) :
        pos \in Raw(pe.sections[r]) /\ SectionCell(r, pos - pe.sections[r].rva)[1] = "hint"
  BY <1>2 DEF HoldsHint
<1>4. pe.sections[r].rva \in Nat /\ pe.sections[r].rawSize \in Nat
  BY SectionTyped
<1> DEFINE h == pos - pe.sections[r].rva
<1>5. h \in 0 .. pe.sections[r].rawSize - 1 /\ pe.sections[r].rva + h = pos /\ pos \in Int
  <2> DEFINE b == pe.sections[r].rva
             n == pe.sections[r].rawSize
  <2>1. pos \in b .. b + n - 1
    BY <1>3 DEF Raw
  <2>2. b \in Nat /\ n \in Nat
    BY <1>4
  <2> HIDE DEF b, n
  <2>3. pos \in Int /\ pos - b \in 0 .. n - 1 /\ b + (pos - b) = pos
    BY <2>1, <2>2
  <2> QED
    BY <2>3 DEF b, n
<1>6. basefile[pos] = SectionCell(r, h)
  <2>1. Placed(r, h)
    BY <1>5 DEF SectionsThere
  <2>2. \A t \in 1 .. Len(pe.tables) : \A k \in 1 .. pe.tables[t].importCount : pos # EntryAt(t, k)
    BY <1>1, EntriesInIAT
  <2> QED
    BY <1>1, <1>5, <2>1, <2>2 DEF Placed
<1>7. OrdinalOf(cell) = SectionCell(r, h)[2]
  <2> DEFINE P(q) == pos \in Raw(pe.sections[q])
  <2>1. \A q \in DOMAIN pe.sections : P(q) <=> q = r
    BY <1>2, <1>3, <1>5, RawDisjoint
  <2>2. (CHOOSE q \in DOMAIN pe.sections : P(q)) = r
    <3> HIDE DEF P
    <3>1. r \in DOMAIN pe.sections
      BY <1>2
    <3> QED
      BY <2>1, <3>1
  <2>3. OrdinalOf(cell) =
          LET q == CHOOSE q \in DOMAIN pe.sections : P(q)
          IN  SectionCell(q, pos - pe.sections[q].rva)[2]
    BY DEF OrdinalOf
  <2> HIDE DEF P
  <2> QED
    BY <2>2, <2>3
<1>8. SectionCell(r, h)[1] = "hint"
  BY <1>3
<1> QED
  BY <1>6, <1>7, <1>8

LEMMA ContentsPadFinalPage == MapInv /\ PadFinalPage => Contents'
<1> SUFFICES ASSUME MapInv, PadFinalPage PROVE Contents'
  OBVIOUS
<1>1. /\ MapTypes /\ Contents /\ Live /\ step = "sections" /\ step' = "seekTable"
      /\ UNCHANGED <<pe, ret>> /\ i' = 1 /\ pe \in PEs
  BY DEF MapInv, PadFinalPage, At, inputs, Live, MapTypes
<1>2. /\ MappedSections = 1 .. Len(pe.sections)
      /\ DOMAIN basefile \subseteq DOMAIN basefile'
      /\ \A p \in DOMAIN basefile :
           \/ basefile'[p] = basefile[p]
           \/ basefile'[p] = Zero /\ (p >= DataEnd \/ PaddedOver(p))
      /\ \A p \in DOMAIN basefile' :
           basefile'[p] = Zero \/ (p \in DOMAIN basefile /\ basefile'[p] = basefile[p])
  BY <1>1, PadFinalPageDoes
<1>3. HeaderThere /\ SectionsThere /\ NothingElse
  BY <1>1 DEF Contents
<1>4. MappedSections' = MappedSections
  BY <1>1, <1>2 DEF MappedSections
<1>5. \A s, o : SectionCell(s, o)' = SectionCell(s, o)
      /\ \A p : PaddedOver(p)' <=> PaddedOver(p)
  BY <1>1, SectionCellsKept
<1>6. /\ \A t \in 1 .. Len(pe.tables) : \A k : ~Rewritten(t, k)'
      /\ \A t, k : ~Rewritten(t, k)
  BY <1>1 DEF Rewritten, Mapping
<1>7. HeaderThere'
  <2>1. SUFFICES ASSUME NEW p \in 0 .. pe.headerLen - 1
                 PROVE  p \in DOMAIN basefile' /\ (basefile'[p] = pe.cells[p + 1] \/ PaddedOver(p))
    BY <1>1, <1>5 DEF HeaderThere
  <2>2. p \in DOMAIN basefile /\ (basefile[p] = pe.cells[p + 1] \/ PaddedOver(p))
    BY <1>1, <1>3 DEF HeaderThere
  <2>3. ~(p >= DataEnd)
    <3>1. DataEnd \in Nat /\ DataEnd >= pe.pageSize /\ pe.headerLen \in Nat
          /\ pe.headerLen <= pe.pageSize /\ pe.pageSize \in Nat
      BY <1>1, EndTyped, PETyped DEF DataEnd
    <3> QED
      BY <3>1
  <2> QED
    BY <1>2, <2>2, <2>3
<1>8. SectionsThere'
  <2>1. SUFFICES ASSUME NEW s \in 1 .. Len(pe.sections), NEW o \in 0 .. pe.sections[s].rawSize - 1
                 PROVE  Placed(s, o)'
    BY <1>1, <1>2, <1>4 DEF SectionsThere
  <2> DEFINE p == pe.sections[s].rva + o
  <2>2. p \in Raw(pe.sections[s])
    BY <1>1, SectionCells
  <2>3. p < DataEnd /\ p \in Int /\ DataEnd \in Int
    <3>1. p < DataEnd
      BY <1>1, <2>2, RawBelowEnd DEF DataEnd
    <3>2. p \in Int /\ DataEnd \in Int
      BY <1>1, SectionTyped, SectionCells, EndTyped DEF DataEnd
    <3> QED
      BY <3>1, <3>2
  <2>4. SUFFICES /\ p \in DOMAIN basefile'
                 /\ basefile'[p] = SectionCell(s, o) \/ (basefile'[p] = Zero /\ PaddedOver(p))
    <3>1. p' = p
      BY <1>1
    <3>2. \A t \in 1 .. Len(pe.tables') : \A k \in 1 .. pe'.tables[t].importCount :
            ~Rewritten(t, k)'
      BY <1>1, <1>6
    <3> QED
      BY <1>1, <1>5, <3>1, <3>2, Zenon DEF Placed
  <2>5. Placed(s, o)
    BY <1>2, <1>3 DEF SectionsThere
  <2>6. /\ p \in DOMAIN basefile
        /\ basefile[p] = SectionCell(s, o) \/ (basefile[p] = Zero /\ PaddedOver(p))
    BY <1>6, <2>5 DEF Placed
  <2> HIDE DEF p
  <2>7. ~(p >= DataEnd)
    BY <2>3
  <2> QED
    BY <1>2, <2>6, <2>7
<1>9. NothingElse'
  <2>1. SUFFICES ASSUME NEW p \in DOMAIN basefile', basefile'[p] # Zero, ~(p < pe.headerLen),
                        p \notin IATCells
                 PROVE  \E s \in MappedSections : p \in Raw(pe.sections[s])
    BY <1>1, <1>4, SectionCellsKept DEF NothingElse
  <2>2. p \in DOMAIN basefile /\ basefile'[p] = basefile[p]
    BY <1>2, <2>1
  <2> QED
    BY <1>3, <2>1, <2>2 DEF NothingElse
<1>10. InHand'
  BY <1>1 DEF InHand
<1> QED
  BY <1>7, <1>8, <1>9, <1>10 DEF Contents

(* The steps of xenonifyIAT that write nothing.                            *)
LEMMA ContentsReading ==
  MapInv /\ (SeekTable \/ ReadOrdinal \/ ReadNameRVA \/ ReadHint \/ NextTable) => Contents'
<1> SUFFICES ASSUME MapInv, SeekTable \/ ReadOrdinal \/ ReadNameRVA \/ ReadHint \/ NextTable
             PROVE  Contents'
  OBVIOUS
<1> USE DEF Rewriting, inputs
<1>1. MapTypes /\ Contents /\ pe \in PEs
  BY DEF MapInv, MapTypes
<1>2. /\ step \in {"seekTable", "readEntry", "readHint"} /\ Live
      /\ step' \in {"seekTable", "readEntry", "readHint", "writeEntry"}
      /\ UNCHANGED <<pe, ret, basefile>>
  BY DEF SeekTable, ReadOrdinal, ReadNameRVA, ReadEntry, ReadHint, NextTable, At, Live, files
<1>3. HeaderThere /\ SectionsThere /\ NothingElse /\ InHand
  BY <1>1, <1>2 DEF Contents
<1>4. MappedSections' = MappedSections /\ MappedSections = 1 .. Len(pe.sections)
  BY <1>2 DEF MappedSections
<1>5. i \in Int /\ j \in Nat /\ Len(pe.tables) \in Nat
      /\ \A t \in 1 .. Len(pe.tables) : pe.tables[t].importCount \in Nat
  BY <1>1, PETyped DEF MapTypes
<1>6. ASSUME NEW t \in 1 .. Len(pe.tables), NEW k \in 1 .. pe.tables[t].importCount
      PROVE  Rewritten(t, k)' <=> Rewritten(t, k)
  <2>1. CASE SeekTable
    <3>1. step = "seekTable" /\ step' = "readEntry" /\ i' = i /\ j' = 1
      BY <2>1 DEF SeekTable, At
    <3> QED
      BY <1>5, <3>1 DEF Rewritten, Mapping
  <2>2. CASE ReadOrdinal \/ ReadNameRVA \/ ReadHint
    <3>1. step \in Rewriting /\ step' \in Rewriting /\ i' = i /\ j' = j
      BY <2>2 DEF ReadOrdinal, ReadNameRVA, ReadEntry, ReadHint, At
    <3> QED
      BY <3>1 DEF Rewritten, Mapping
  <2>3. CASE NextTable
    <3>1. step = "readEntry" /\ step' = "seekTable" /\ i' = i + 1 /\ j > pe.tables[i].importCount
      BY <2>3 DEF NextTable, At
    <3>2. t = i => k < j
      BY <1>5, <3>1
    <3> QED
      BY <1>5, <3>1, <3>2 DEF Rewritten, Mapping
  <2> QED
    BY <2>1, <2>2, <2>3
<1>7. HeaderThere' /\ SectionsThere' /\ NothingElse'
  BY <1>2, <1>3, <1>4, <1>6, ThereKept
<1>8. \A t, k : EntryAt(t, k)' = EntryAt(t, k)
  BY <1>2, SectionCellsKept
<1>9. InHand'
  <2>1. CASE SeekTable
    <3>1. step' = "readEntry" /\ i' = i /\ j' = 1 /\ pos' = pe.tables[i].rva
          /\ i \in 1 .. Len(pe.tables)
      BY <1>1, <1>5, <2>1 DEF SeekTable, At, MapTypes
    <3>2. pos' = EntryAt(i, 1)
      BY <1>1, <3>1, PETyped DEF EntryAt
    <3>3. EntryAt(i, j)' = EntryAt(i, 1)
      BY <1>2, <3>1 DEF EntryAt
    <3> QED
      BY <3>1, <3>2, <3>3 DEF InHand
  <2>2. CASE ReadOrdinal
    <3>1. /\ step = "readEntry" /\ step' = "writeEntry" /\ UNCHANGED <<i, j, pos>>
          /\ j <= pe.tables[i].importCount /\ pos \in DOMAIN basefile
          /\ \E e \in EntriesAt(basefile, pos) : e[1] = "ordinal" /\ entry' = e[2]
      BY <2>2 DEF ReadOrdinal, ReadEntry, At
    <3>2. pos = EntryAt(i, j)
      BY <1>3, <3>1 DEF InHand
    <3>3. ASSUME NEW s \in 1 .. Len(pe.sections), NEW o \in 0 .. pe.sections[s].rawSize - 1,
                 pos = pe.sections[s].rva + o, Unshared(i, pos, SectionCell(s, o))
          PROVE  entry' = OrdinalOf(SectionCell(s, o))
      <4>1. basefile[pos] = SectionCell(s, o)
        BY <1>1, <1>3, <1>4, <3>1, <3>2, <3>3, InHandCell
      <4>2. basefile[pos][1] \in {"ordinal", "nameRVA"}
        BY <3>3, <4>1 DEF Unshared, IsImport
      <4>3. EntriesAt(basefile, pos) = {basefile[pos]}
        BY <4>2 DEF EntriesAt
      <4> QED
        BY <3>1, <4>1, <4>3 DEF OrdinalOf
    <3> QED
      BY <1>2, <1>8, <3>1, <3>2, <3>3, SectionCellsKept DEF InHand
  <2>3. CASE ReadNameRVA
    <3>1. /\ step = "readEntry" /\ step' = "readHint" /\ UNCHANGED <<i, j>>
          /\ j <= pe.tables[i].importCount /\ pos \in DOMAIN basefile
          /\ savedPos' = pos
          /\ \E e \in EntriesAt(basefile, pos) : e[1] = "nameRVA" /\ pos' = e[2]
      BY <2>3 DEF ReadNameRVA, ReadEntry, At
    <3>2. pos = EntryAt(i, j)
      BY <1>3, <3>1 DEF InHand
    <3>3. EntryAt(i, j)' = EntryAt(i, j)
      BY <1>2, <3>1 DEF EntryAt
    <3>4. basefile[pos][1] \in {"ordinal", "nameRVA"} =>
            basefile[pos][1] = "nameRVA" /\ basefile[pos][2] = pos'
      BY <3>1 DEF EntriesAt
    <3> QED
      BY <1>2, <3>1, <3>2, <3>3, <3>4 DEF InHand
  <2>4. CASE ReadHint
    <3>1. /\ step = "readHint" /\ step' = "writeEntry" /\ UNCHANGED <<i, j>>
          /\ pos \in DOMAIN basefile /\ entry' \in HintsAt(basefile, pos) /\ pos' = savedPos
      BY <2>4 DEF ReadHint, At
    <3>2. /\ savedPos = EntryAt(i, j) /\ savedPos \in DOMAIN basefile
          /\ j <= pe.tables[i].importCount
          /\ basefile[savedPos][1] \in {"ordinal", "nameRVA"} =>
               basefile[savedPos][1] = "nameRVA" /\ basefile[savedPos][2] = pos
      BY <1>3, <3>1 DEF InHand
    <3>3. ASSUME NEW s \in 1 .. Len(pe.sections), NEW o \in 0 .. pe.sections[s].rawSize - 1,
                 savedPos = pe.sections[s].rva + o, Unshared(i, savedPos, SectionCell(s, o))
          PROVE  entry' = OrdinalOf(SectionCell(s, o))
      <4>1. basefile[savedPos] = SectionCell(s, o)
        BY <1>1, <1>3, <1>4, <3>1, <3>2, <3>3, InHandCell
      <4>2. IsImport(SectionCell(s, o))
        BY <3>3 DEF Unshared
      <4>3. SectionCell(s, o)[1] = "nameRVA" /\ SectionCell(s, o)[2] = pos
        BY <3>2, <4>1, <4>2 DEF IsImport
      <4>4. HoldsHint(pos)
        BY <4>2, <4>3 DEF IsImport
      <4>5. basefile[pos][1] = "hint" /\ basefile[pos][2] = OrdinalOf(SectionCell(s, o))
        BY <1>1, <1>3, <1>4, <4>3, <4>4, HintOfName
      <4> QED
        BY <3>1, <4>5 DEF HintsAt
    <3>4. EntryAt(i, j)' = EntryAt(i, j)
      BY <1>2, <3>1 DEF EntryAt
    <3> QED
      BY <1>2, <3>1, <3>2, <3>3, <3>4, SectionCellsKept DEF InHand
  <2>5. CASE NextTable
    BY <2>5 DEF NextTable, InHand
  <2> QED
    BY <2>1, <2>2, <2>3, <2>4, <2>5
<1> QED
  BY <1>7, <1>9 DEF Contents

LEMMA ContentsWriteEntry == MapInv /\ WriteEntry => Contents'
<1> SUFFICES ASSUME MapInv, WriteEntry PROVE Contents'
  OBVIOUS
<1> USE DEF Rewriting, inputs
<1>1. /\ MapTypes /\ Contents /\ Live /\ step = "writeEntry" /\ step' = "readEntry"
      /\ UNCHANGED <<pe, ret, i>> /\ j' = j + 1 /\ pos' = pos + 1 /\ pe \in PEs
  BY DEF MapInv, WriteEntry, At, Live, MapTypes
<1>2. /\ i \in 1 .. Len(pe.tables) /\ j \in 1 .. pe.tables[i].importCount
      /\ pos = EntryAt(i, j) /\ pos \in DOMAIN basefile
      /\ DOMAIN basefile' = DOMAIN basefile
      /\ basefile'[pos] = Xenonified((i - 1) % Byte, entry)
      /\ \A p \in DOMAIN basefile : p # pos => basefile'[p] = basefile[p]
  BY <1>1, WriteEntryDoes
<1>3. HeaderThere /\ SectionsThere /\ NothingElse /\ InHand
  BY <1>1 DEF Contents
<1>4. MappedSections' = MappedSections /\ MappedSections = 1 .. Len(pe.sections)
  BY <1>1 DEF MappedSections
<1>5. /\ i \in Int /\ j \in Int /\ Len(pe.tables) \in Nat
      /\ \A t \in 1 .. Len(pe.tables) : pe.tables[t].rva \in Nat /\ pe.tables[t].importCount \in Nat
  BY <1>1, PETyped DEF MapTypes
<1>6. /\ \A s, o : SectionCell(s, o)' = SectionCell(s, o)
      /\ \A p : PaddedOver(p)' <=> PaddedOver(p)
      /\ \A t, k : EntryAt(t, k)' = EntryAt(t, k)
      /\ \A c : OrdinalOf(c)' = OrdinalOf(c)
      /\ \A t, p, c : Unshared(t, p, c)' <=> Unshared(t, p, c)
      /\ IATCells' = IATCells
  BY <1>1, SectionCellsKept
<1>7. pos \in IATCells
  BY <1>1, <1>2, EntriesInIAT
<1>8. pos >= pe.pageSize /\ pos \in Nat /\ pe.headerLen \in Nat /\ pe.headerLen <= pe.pageSize
      /\ pe.pageSize \in Nat
  BY <1>1, <1>2, EntriesInIAT, PETyped
<1>9. ASSUME NEW t \in 1 .. Len(pe.tables), NEW k \in 1 .. pe.tables[t].importCount
       PROVE  Rewritten(t, k)' <=> Rewritten(t, k) \/ (t = i /\ k = j)
  BY <1>1, <1>5 DEF Rewritten, Mapping
<1>10. HeaderThere'
  <2>1. SUFFICES ASSUME NEW p \in 0 .. pe.headerLen - 1
                 PROVE  p \in DOMAIN basefile' /\ (basefile'[p] = pe.cells[p + 1] \/ PaddedOver(p))
    BY <1>1, <1>6 DEF HeaderThere
  <2>2. p # pos
    BY <1>8
  <2>3. p \in DOMAIN basefile /\ (basefile[p] = pe.cells[p + 1] \/ PaddedOver(p))
    BY <1>1, <1>3 DEF HeaderThere
  <2> QED
    BY <1>2, <2>2, <2>3
<1>11. SectionsThere'
  <2>1. SUFFICES ASSUME NEW s \in 1 .. Len(pe.sections), NEW o \in 0 .. pe.sections[s].rawSize - 1
                 PROVE  Placed(s, o)'
    BY <1>1, <1>4 DEF SectionsThere
  <2> DEFINE p == pe.sections[s].rva + o
  <2>2. Placed(s, o)
    BY <1>3, <1>4 DEF SectionsThere
  <2>3. /\ p \in DOMAIN basefile
        /\ \/ basefile[p] = SectionCell(s, o)
           \/ basefile[p] = Zero /\ PaddedOver(p)
           \/ \E t \in 1 .. Len(pe.tables) : \E k \in 1 .. pe.tables[t].importCount :
                Rewritten(t, k) /\ p = EntryAt(t, k)
        /\ \A t \in 1 .. Len(pe.tables) : \A k \in 1 .. pe.tables[t].importCount :
             Rewritten(t, k) /\ p = EntryAt(t, k) /\ Unshared(t, p, SectionCell(s, o)) =>
               basefile[p] = Xenonified(ModuleIndex(t, Byte), OrdinalOf(SectionCell(s, o)))
    BY <2>2 DEF Placed
  <2>4. SUFFICES
        /\ p \in DOMAIN basefile'
        /\ \/ basefile'[p] = SectionCell(s, o)
           \/ basefile'[p] = Zero /\ PaddedOver(p)
           \/ \E t \in 1 .. Len(pe.tables) : \E k \in 1 .. pe.tables[t].importCount :
                Rewritten(t, k)' /\ p = EntryAt(t, k)
        /\ \A t \in 1 .. Len(pe.tables) : \A k \in 1 .. pe.tables[t].importCount :
             Rewritten(t, k)' /\ p = EntryAt(t, k) /\ Unshared(t, p, SectionCell(s, o)) =>
               basefile'[p] = Xenonified(ModuleIndex(t, Byte), OrdinalOf(SectionCell(s, o)))
    <3>1. p' = p
      BY <1>1
    <3> QED
      BY <1>1, <1>6, <3>1, Zenon DEF Placed
  <2> HIDE DEF p
  <2>5. CASE p # pos
    <3>1. \A t \in 1 .. Len(pe.tables) : \A k \in 1 .. pe.tables[t].importCount :
            p = EntryAt(t, k) => (Rewritten(t, k)' <=> Rewritten(t, k))
      BY <1>2, <1>9, <2>5
    <3>2. basefile'[p] = basefile[p]
      BY <1>2, <2>3, <2>5
    <3> QED
      BY <1>2, <2>3, <3>1, <3>2
  <2>6. CASE p = pos
    <3>1. \E t \in 1 .. Len(pe.tables) : \E k \in 1 .. pe.tables[t].importCount :
            Rewritten(t, k)' /\ p = EntryAt(t, k)
      <4>1. PICK t \in 1 .. Len(pe.tables), k \in 1 .. pe.tables[i].importCount : t = i /\ k = j
        BY <1>2
      <4>2. k \in 1 .. pe.tables[t].importCount
        BY <4>1
      <4>3. Rewritten(t, k)' /\ p = EntryAt(t, k)
        BY <1>2, <1>9, <2>6, <4>1, <4>2
      <4> QED
        BY <4>2, <4>3
    <3>2. ASSUME NEW t \in 1 .. Len(pe.tables), NEW k \in 1 .. pe.tables[t].importCount,
                 p = EntryAt(t, k), Unshared(t, p, SectionCell(s, o))
          PROVE  basefile'[p] = Xenonified(ModuleIndex(t, Byte), OrdinalOf(SectionCell(s, o)))
      <4>1. t = i
        BY <1>1, <1>2, <2>6, <3>2, OnlyOneEntry DEF Unshared
      <4>2. entry = OrdinalOf(SectionCell(s, o))
        BY <1>1, <1>3, <2>6, <3>2, <4>1 DEF InHand, p
      <4> QED
        BY <1>2, <2>6, <4>1, <4>2 DEF ModuleIndex
    <3> QED
      BY <1>2, <2>6, <3>1, <3>2
  <2> QED
    BY <2>5, <2>6
<1>12. NothingElse'
  <2>1. SUFFICES ASSUME NEW p \in DOMAIN basefile', basefile'[p] # Zero, ~(p < pe.headerLen),
                        p \notin IATCells
                 PROVE  \E s \in MappedSections : p \in Raw(pe.sections[s])
    BY <1>1, <1>4, SectionCellsKept DEF NothingElse
  <2>2. basefile[p] # Zero
    BY <1>2, <1>7, <2>1
  <2> QED
    BY <1>2, <1>3, <2>1, <2>2 DEF NothingElse
<1>13. InHand'
  <2>1. EntryAt(i, j)' = pos + 1
    <3>1. pe.tables[i].rva \in Nat
      BY <1>2, <1>5
    <3> QED
      BY <1>1, <1>2, <1>5, <3>1 DEF EntryAt
  <2> QED
    BY <1>1, <2>1 DEF InHand
<1> QED
  BY <1>10, <1>11, <1>12, <1>13 DEF Contents

(* The steps before the first write, and after the last.                   *)
LEMMA ContentsRest ==
  MapInv /\ (\/ ReadSectionInfo \/ SetSecInfoHeader \/ AllocDescriptors \/ HashPage
             \/ DigestPage \/ Succeed \/ Fail \/ UNCHANGED vars) => Contents'
<1> SUFFICES ASSUME MapInv, \/ ReadSectionInfo \/ SetSecInfoHeader \/ AllocDescriptors
                            \/ HashPage \/ DigestPage \/ Succeed \/ Fail \/ UNCHANGED vars
             PROVE  Contents'
  OBVIOUS
<1> USE DEF Mapping, Rewriting, inputs
<1>1. MapTypes /\ Contents /\ pe \in PEs
  BY DEF MapInv, MapTypes
<1>2. UNCHANGED <<pe, basefile>>
  BY DEF ReadSectionInfo, SetSecInfoHeader, AllocDescriptors, Describe, HashPage, DigestPage,
     StoreDigest, Succeed, Fail, At, files, vars
<1>3. CASE ReadSectionInfo
  <2>1. step = "sectionInfo" /\ step' = "header" /\ Live
    BY <1>3 DEF ReadSectionInfo, At, Live
  <2>2. HeaderThere /\ SectionsThere /\ NothingElse /\ InHand
    BY <1>1, <2>1 DEF Contents
  <2>3. MappedSections' = MappedSections
    BY <2>1 DEF MappedSections
  <2>4. \A t, k : ~Rewritten(t, k)' /\ ~Rewritten(t, k)
    BY <2>1 DEF Rewritten
  <2>5. HeaderThere' /\ SectionsThere' /\ NothingElse'
    BY <1>2, <2>1, <2>2, <2>3, <2>4, ThereKept
  <2>6. InHand'
    BY <1>2, <2>1, <2>2 DEF InHand
  <2> QED
    BY <2>5, <2>6 DEF Contents
<1>4. CASE SetSecInfoHeader \/ AllocDescriptors \/ HashPage \/ DigestPage \/ Succeed
  <2>1. /\ step \in {"seekTable", "calloc", "descriptors", "digest"}
        /\ step' \in {"calloc", "descriptors", "digest", "done"} /\ Live
        /\ step = "seekTable" => i > Len(pe.tables)
    BY <1>4 DEF SetSecInfoHeader, AllocDescriptors, Describe, HashPage, DigestPage,
       StoreDigest, Succeed, At, Live
  <2>2. HeaderThere /\ SectionsThere /\ NothingElse
    BY <1>1, <2>1 DEF Contents
  <2>3. MappedSections' = MappedSections
    BY <1>2, <2>1 DEF MappedSections
  <2>4. Len(pe.tables) \in Nat /\ i \in Int
    BY <1>1, PETyped DEF MapTypes
  <2>5. \A t \in 1 .. Len(pe.tables) : step = "seekTable" => t < i
    BY <2>1, <2>4
  <2>6. \A t \in 1 .. Len(pe.tables) : \A k \in 1 .. pe.tables[t].importCount :
          Rewritten(t, k)' /\ Rewritten(t, k)
    BY <2>1, <2>5 DEF Rewritten
  <2>7. HeaderThere' /\ SectionsThere' /\ NothingElse'
    BY <1>2, <2>1, <2>2, <2>3, <2>6, ThereKept
  <2>8. InHand'
    BY <2>1 DEF InHand
  <2> QED
    BY <2>7, <2>8 DEF Contents
<1>5. CASE Fail
  <2>1. step' = "done" /\ ret' = "error"
    BY <1>5 DEF Fail
  <2> QED
    BY <2>1 DEF Contents, Live, Built
<1>6. CASE UNCHANGED vars
  <2>1. UNCHANGED <<step, ret, pe, basefile, i, j, pos, savedPos, entry>>
    BY <1>6 DEF vars
  <2>2. /\ \A t, k : Rewritten(t, k)' <=> Rewritten(t, k)
        /\ MappedSections' = MappedSections /\ (Live' <=> Live)
    BY <2>1 DEF Rewritten, MappedSections, Live, Built
  <2>3. Live => HeaderThere' /\ SectionsThere' /\ NothingElse'
    BY <1>1, <2>1, <2>2, ThereKept DEF Contents
  <2>4. /\ EntryAt(i, j)' = EntryAt(i, j)
        /\ \A s, o : OrdinalOf(SectionCell(s, o))' = OrdinalOf(SectionCell(s, o))
        /\ \A s, o : Unshared(i, pos, SectionCell(s, o))' <=> Unshared(i, pos, SectionCell(s, o))
    <3>1. UNCHANGED pe
      BY <2>1
    <3>2. /\ \A s, o : SectionCell(s, o)' = SectionCell(s, o)
          /\ \A c : OrdinalOf(c)' = OrdinalOf(c)
          /\ \A t, p, c : Unshared(t, p, c)' <=> Unshared(t, p, c)
      BY <3>1, SectionCellsKept
    <3> QED
      BY <2>1, <3>2 DEF EntryAt
  <2>5. InHand => InHand'
    BY <2>1, <2>4 DEF InHand
  <2> QED
    BY <1>1, <2>2, <2>3, <2>5 DEF Contents
<1> QED
  BY <1>3, <1>4, <1>5, <1>6

LEMMA ContentsNext == MapInv /\ [Next]_vars => Contents'
BY ContentsCopyHeader, ContentsMapSection, ContentsPadFinalPage, ContentsReading,
   ContentsWriteEntry, ContentsRest DEF Next

LEMMA SizedNext == MapInv /\ [Next]_vars => Sized'
<1> SUFFICES ASSUME MapInv, [Next]_vars PROVE Sized'
  OBVIOUS
<1>1. MapTypes /\ Contents /\ Sized /\ pe \in PEs
  BY DEF MapInv, MapTypes
<1> USE DEF Mapping, Rewriting, Hashing, inputs, hashVars
<1>2. CASE ReadSectionInfo \/ CopyHeader \/ MapSection
  <2>1. step' \in Mapping /\ ret' = "none"
    BY <1>1, <1>2 DEF ReadSectionInfo, CopyHeader, MapSection, At, MapTypes
  <2> QED
    BY <2>1 DEF Sized, Built
<1>3. CASE PadFinalPage
  <2>1. size' > 0
    BY <1>1, <1>3, PadFinalPageDoes
  <2>2. step' = "seekTable" /\ ret' = "none"
    BY <1>1, <1>3 DEF PadFinalPage, At, MapTypes
  <2> QED
    BY <2>1, <2>2 DEF Sized, Built
<1>4. CASE \/ SeekTable \/ ReadOrdinal \/ ReadNameRVA \/ ReadHint \/ WriteEntry \/ NextTable
  <2>1. /\ step \in {"seekTable"} \cup Rewriting /\ step' \in {"seekTable"} \cup Rewriting
        /\ size' = size /\ ret' = ret /\ ret = "none"
    BY <1>1, <1>4 DEF SeekTable, ReadOrdinal, ReadNameRVA, ReadEntry, ReadHint, WriteEntry,
       NextTable, At, MapTypes
  <2> QED
    BY <1>1, <2>1 DEF Sized, Built, Live
<1>5. CASE SetSecInfoHeader
  <2>1. /\ step = "seekTable" /\ step' = "calloc" /\ size' = size /\ pe' = pe
        /\ imageFlags' = {f \in {"4KIB_PAGES"} : pe.pageSize = SmallPage}
        /\ pageDescCount' = size \div pe.pageSize
    BY <1>5 DEF SetSecInfoHeader, At
  <2>2. LoaderPage' = pe.pageSize
    <3>1. pe.pageSize \in {SmallPage, LargePage}
      BY <1>1, PETyped
    <3>2. "4KIB_PAGES" \in imageFlags' <=> pe.pageSize = SmallPage
      BY <2>1
    <3> QED
      BY <3>1, <3>2 DEF LoaderPage
  <2> QED
    BY <1>1, <2>1, <2>2 DEF Sized, Live
<1>6. CASE AllocDescriptors \/ HashPage \/ DigestPage \/ Succeed
  <2>1. /\ step \in Hashing /\ step' \in Hashing \cup {"done"}
        /\ UNCHANGED <<pe, size, imageFlags, pageDescCount>>
    BY <1>6 DEF AllocDescriptors, Describe, HashPage, DigestPage, StoreDigest,
       Succeed, At, secInfoVars
  <2> QED
    BY <1>1, <2>1 DEF Sized, Live, LoaderPage
<1>7. CASE Fail
  <2>1. step' = "done" /\ ret' = "error"
    BY <1>7 DEF Fail
  <2> QED
    BY <2>1 DEF Sized, Live, Built
<1>8. CASE UNCHANGED vars
  BY <1>1, <1>8 DEF Sized, Live, Built, LoaderPage, vars
<1> QED
  BY <1>2, <1>3, <1>4, <1>5, <1>6, <1>7, <1>8 DEF Next

(* The permissions of a page are set and its descriptor hashed, in big     *)
(* endian; the pages behind it stay chained.                               *)
LEMMA ChainHashPage == MapInv /\ HashPage => Chain'
<1> SUFFICES ASSUME MapInv, HashPage PROVE Chain'
  OBVIOUS
<1>1. /\ MapTypes /\ Chain /\ step = "descriptors" /\ step' = "digest" /\ i >= 0
      /\ UNCHANGED <<littleEndian, pe, ret, basefile, i, size, pageDescCount, imageSha1>>
  BY DEF MapInv, HashPage, At, inputs
<1>2. ret = "none" /\ i \in 0 .. pageDescCount - 1 /\ pageDescCount \in Nat
  BY <1>1 DEF MapTypes
<1>3. DOMAIN descriptors = 0 .. pageDescCount - 1
      /\ \A d \in 0 .. pageDescCount - 1 :
           DOMAIN descriptors[d] = {"info", "sha1"} /\ (d > i => Chained(d))
  BY <1>1 DEF Chain
<1>4. /\ descriptors' = [descriptors EXCEPT ![i].info = getRwx(i)]
      /\ swapped' = Swapped({i})
      /\ context' = Digest(PageCells(basefile, i, pageSize), descriptors'[i], BigEndian(i, swapped'))
  BY DEF HashPage
<1>5. /\ DOMAIN descriptors' = 0 .. pageDescCount - 1
      /\ descriptors'[i].info = getRwx(i)
      /\ \A d \in 0 .. pageDescCount - 1 : DOMAIN descriptors'[d] = {"info", "sha1"}
      /\ \A d \in 0 .. pageDescCount - 1 : d # i => descriptors'[d] = descriptors[d]
      /\ \A d \in 0 .. pageDescCount - 1 : descriptors'[d].sha1 = descriptors[d].sha1
  BY <1>2, <1>3, <1>4
<1>6. /\ pageSize' = pageSize
      /\ \A d : getRwx(d)' = getRwx(d)
      /\ \A d : PageCells(basefile, d, pageSize)' = PageCells(basefile, d, pageSize)
  BY <1>1 DEF pageSize, getRwx, PageCells
<1>7. BigEndian(i, swapped')
  <2>1. CASE littleEndian
    BY <1>1, <1>4, <2>1 DEF MapTypes, Swapped, BigEndian
  <2>2. CASE ~littleEndian
    <3>1. littleEndian = FALSE
      BY <1>1, <2>2 DEF MapTypes
    <3> QED
      BY <1>1, <1>4, <3>1 DEF MapTypes, Swapped, BigEndian
  <2> QED
    BY <2>1, <2>2
<1>8. context' = Hash(i)'
  <2>1. BigEndian(i, swapped') = TRUE
    BY <1>7 DEF BigEndian
  <2>2. context' = Digest(PageCells(basefile, i, pageSize), descriptors'[i], TRUE)
    BY <1>4, <2>1
  <2> QED
    BY <1>1, <1>6, <2>2 DEF Hash, Digest
<1>9. ASSUME NEW d \in 0 .. pageDescCount - 1, d > i
      PROVE  Chained(d)'
  <2>1. d # i /\ d # 0 /\ d - 1 \in 0 .. pageDescCount - 1
    BY <1>2, <1>9
  <2>2. descriptors'[d] = descriptors[d] /\ descriptors'[d - 1].sha1 = descriptors[d - 1].sha1
    BY <1>5, <2>1
  <2>3. Hash(d)' = Hash(d)
    BY <1>6, <2>2 DEF Hash, Digest
  <2> QED
    BY <1>3, <1>6, <1>9, <2>1, <2>2, <2>3 DEF Chained
<1>10. descriptors'[i].info = getRwx(i)'
  BY <1>1, <1>5, <1>6
<1> QED
  BY <1>1, <1>2, <1>5, <1>8, <1>9, <1>10 DEF Chain, Built

(* A page is chained when its hash is stored, and stays so: the page below *)
(* changes nothing in its descriptor but the permissions of its own.       *)
LEMMA ChainDigestPage == MapInv /\ DigestPage => Chain'
<1> SUFFICES ASSUME MapInv, DigestPage PROVE Chain'
  OBVIOUS
<1>1. /\ MapTypes /\ Chain /\ step = "digest" /\ step' = "descriptors"
      /\ i' = i - 1 /\ UNCHANGED <<pe, ret, basefile, size, pageDescCount>>
  BY DEF MapInv, DigestPage, StoreDigest, At, inputs, files
<1>2. ret = "none" /\ i \in 0 .. pageDescCount - 1 /\ pageDescCount \in Nat
  BY <1>1 DEF MapTypes
<1>3. /\ DOMAIN descriptors = 0 .. pageDescCount - 1
      /\ \A d \in 0 .. pageDescCount - 1 :
           DOMAIN descriptors[d] = {"info", "sha1"} /\ (d > i => Chained(d))
      /\ descriptors[i].info = getRwx(i) /\ context = Hash(i)
  BY <1>1 DEF Chain
<1>4. /\ i # 0 => /\ descriptors' = [descriptors EXCEPT ![i - 1].sha1 = context]
                  /\ imageSha1' = imageSha1
      /\ i = 0 => descriptors' = descriptors /\ imageSha1' = context
  BY DEF DigestPage, StoreDigest
<1>5. /\ DOMAIN descriptors' = 0 .. pageDescCount - 1
      /\ \A d \in 0 .. pageDescCount - 1 : d >= i => descriptors'[d] = descriptors[d]
      /\ \A d \in 0 .. pageDescCount - 1 : DOMAIN descriptors'[d] = {"info", "sha1"}
      /\ i # 0 => descriptors'[i - 1].sha1 = context
  <2>1. CASE i = 0
    BY <1>2, <1>3, <1>4, <2>1
  <2>2. CASE i # 0
    <3>1. i - 1 \in 0 .. pageDescCount - 1 /\ i - 1 < i
      BY <1>2, <2>2
    <3>2. \A d \in 0 .. pageDescCount - 1 : d >= i => d # i - 1
      BY <1>2, <3>1
    <3> QED
      BY <1>3, <1>4, <2>2, <3>1, <3>2
  <2> QED
    BY <2>1, <2>2
<1>6. /\ pageSize' = pageSize
      /\ \A d : getRwx(d)' = getRwx(d)
      /\ \A d : PageCells(basefile, d, pageSize)' = PageCells(basefile, d, pageSize)
  BY <1>1 DEF pageSize, getRwx, PageCells
<1>7. ASSUME NEW d \in 0 .. pageDescCount - 1, d > i - 1
      PROVE  Chained(d)'
  <2>1. descriptors'[d] = descriptors[d] /\ (d = i \/ d > i)
    BY <1>2, <1>5, <1>7
  <2>2. Hash(d)' = Hash(d)
    BY <1>6, <2>1 DEF Hash, Digest
  <2>3. CASE d = i
    BY <1>3, <1>4, <1>5, <1>6, <2>1, <2>2, <2>3 DEF Chained
  <2>4. CASE d > i
    <3>1. d # 0 /\ d - 1 \in 0 .. pageDescCount - 1 /\ d - 1 >= i
      BY <1>2, <2>4
    <3>2. descriptors'[d - 1] = descriptors[d - 1]
      BY <1>5, <3>1
    <3> QED
      BY <1>3, <1>6, <2>1, <2>2, <2>4, <3>1, <3>2 DEF Chained
  <2> QED
    BY <2>1, <2>3, <2>4
<1>8. \A d \in 0 .. pageDescCount' - 1 :
        DOMAIN descriptors'[d] = {"info", "sha1"} /\ (d > i' => Chained(d)')
  BY <1>1, <1>5, <1>7
<1> QED
  BY <1>1, <1>2, <1>5, <1>8 DEF Chain, Built

LEMMA ChainNext == MapInv /\ [Next]_vars => Chain'
<1> SUFFICES ASSUME MapInv, [Next]_vars PROVE Chain'
  OBVIOUS
<1>1. MapTypes /\ Chain
  BY DEF MapInv
<1> USE DEF Mapping, Rewriting, Hashing, inputs, hashVars
<1>2. CASE \/ ReadSectionInfo \/ CopyHeader \/ MapSection \/ PadFinalPage \/ SeekTable
           \/ ReadOrdinal \/ ReadNameRVA \/ ReadHint \/ WriteEntry \/ NextTable
           \/ SetSecInfoHeader
  <2>1. step' \notin {"descriptors", "digest", "done"} /\ ret' = "none"
    BY <1>1, <1>2 DEF ReadSectionInfo, CopyHeader, MapSection, PadFinalPage, SeekTable,
       ReadOrdinal, ReadNameRVA, ReadEntry, ReadHint, WriteEntry, NextTable,
       SetSecInfoHeader, At, MapTypes
  <2> QED
    BY <2>1 DEF Chain, Built
<1>3. CASE AllocDescriptors
  <2>1. /\ descriptors' = [d \in 0 .. pageDescCount - 1 |-> [info |-> "none", sha1 |-> <<>>]]
        /\ i' = pageDescCount - 1 /\ pageDescCount' = pageDescCount /\ ret' = ret
        /\ step = "calloc" /\ step' = "descriptors"
    BY <1>3 DEF AllocDescriptors, Describe, At
  <2>2. ret' = "none" /\ pageDescCount \in Nat
    BY <1>1, <2>1 DEF MapTypes
  <2>3. DOMAIN descriptors' = 0 .. pageDescCount - 1
        /\ \A d \in 0 .. pageDescCount - 1 : DOMAIN descriptors'[d] = {"info", "sha1"} /\ ~(d > i')
    BY <2>1, <2>2
  <2> QED
    BY <2>1, <2>2, <2>3 DEF Chain, Built
<1>4. CASE HashPage \/ DigestPage
  BY <1>4, ChainHashPage, ChainDigestPage
<1>5. CASE Succeed \/ UNCHANGED vars
  <2>1. /\ UNCHANGED <<pe, basefile, i, size, pageDescCount, descriptors, imageSha1, context>>
        /\ step' \in {"descriptors", "digest"} \/ Built' =>
             step \in {"descriptors", "digest"} \/ Built
        /\ step' = "digest" => step = "digest"
        /\ Built' => i = -1
    <3>1. CASE Succeed
      <4>1. step = "descriptors" /\ i < 0 /\ i \in -1 .. pageDescCount - 1 /\ pageDescCount \in Nat
        BY <1>1, <3>1 DEF Succeed, MapTypes
      <4>2. i = -1
        BY <4>1
      <4> QED
        BY <3>1, <4>1, <4>2 DEF Succeed, files, secInfoVars
    <3>2. CASE UNCHANGED vars
      BY <1>1, <3>2 DEF vars, Chain, Built
    <3> QED
      BY <1>5, <3>1, <3>2
  <2>2. /\ \A d : Chained(d)' <=> Chained(d)
        /\ getRwx(i)' = getRwx(i) /\ Hash(i)' = Hash(i)
    BY <2>1 DEF Chained, Hash, Digest, PageCells, pageSize, getRwx
  <2> QED
    BY <1>1, <2>1, <2>2 DEF Chain
<1>6. CASE Fail
  <2>1. step' = "done" /\ ret' = "error"
    BY <1>6 DEF Fail
  <2> QED
    BY <2>1 DEF Chain, Built
<1> QED
  BY <1>2, <1>3, <1>4, <1>5, <1>6 DEF Next

(* The inductive invariant: the loops and the file position, what is in    *)
(* the basefile of the sections that are mapped and of the entries that    *)
(* are rewritten, the page size, and the chain behind the page in hand.    *)
THEOREM MapInvariant == Spec => []MapInv
<1>1. Init => MapInv
  BY MapInit
<1>2. MapInv /\ [Next]_vars => MapInv'
  BY MapTypesNext, PositionedNext, ContentsNext, SizedNext, ChainNext DEF MapInv
<1> QED
  BY <1>1, <1>2, PTL DEF Spec

-----------------------------------------------------------------------------
(***************************************************************************)
(* What follows.                                                           *)
(***************************************************************************)

(* "Call file positioning function between reads and writes to the same    *)
(* file" (pemapper.c): no read follows a write, and no write a read,       *)
(* without a seek in between, whatever the imports are.                    *)
THEOREM PositionedAlways == Spec => []PositioningBetweenReadsAndWrites
<1>1. MapInv => PositioningBetweenReadsAndWrites
  BY DEF MapInv, Positioned, PositioningBetweenReadsAndWrites
<1> QED
  BY <1>1, MapInvariant, PTL

(* The types: the basefile has no gaps, and the loops of mapPEToBasefile,  *)
(* xenonifyIAT and setPageDescriptors stay inside the section table, the   *)
(* import tables and the page descriptors.                                 *)
THEOREM MapperTypesHold == Spec => []MapperTypeOK
<1>1. MapInv => MapperTypeOK
  <2> SUFFICES ASSUME MapInv PROVE MapperTypeOK
    OBVIOUS
  <2>1. MapTypes
    BY DEF MapInv
  <2>2. DOMAIN basefile = 0 .. FileSize(basefile) - 1
    BY <2>1, FileSizeOf DEF MapTypes
  <2>3. DOMAIN descriptors \in {{}, 0 .. pageDescCount - 1}
    BY <2>1, EmptyFile DEF MapTypes
  <2>4. swapped \subseteq DOMAIN descriptors
    BY <2>1 DEF MapInv, MapTypes, Chain
  <2> QED
    BY <2>1, <2>2, <2>3, <2>4 DEF MapTypes, MapperTypeOK, Mapping, Rewriting, Hashing
<1> QED
  BY <1>1, MapInvariant, PTL

(* What the invariant says of a basefile that is built.                    *)
LEMMA WhenBuilt ==
  ASSUME MapInv, Built
  PROVE  /\ step = "done" /\ pe \in PEs /\ IsFile(basefile)
         /\ MappedSections = 1 .. Len(pe.sections)
         /\ HeaderThere /\ SectionsThere /\ NothingElse
         /\ \A t, k : Rewritten(t, k)
<1>1. step = "done" /\ pe \in PEs /\ IsFile(basefile) /\ Live
  BY DEF MapInv, MapTypes, Built, Live
<1> QED
  BY <1>1 DEF MapInv, Contents, MappedSections, Rewritten, Mapping, Rewriting

(* A basefile that is built holds the header and every byte of every       *)
(* section where the PE wants them, but for what xenonifyIAT rewrites and  *)
(* the zero of the padding, and nothing else: no write of mapPEToBasefile  *)
(* or xenonifyIAT lands on another's data.                                 *)
THEOREM SectionsStayIntact == Spec => []SectionsIntact
<1>1. MapInv => SectionsIntact
  <2> SUFFICES ASSUME MapInv, Built
               PROVE  /\ \A p \in 0 .. pe.headerLen - 1 :
                           basefile[p] = pe.cells[p + 1] \/ PaddedOver(p)
                      /\ \A s \in DOMAIN pe.sections : \A o \in 0 .. pe.sections[s].rawSize - 1 :
                           LET p == pe.sections[s].rva + o
                           IN  basefile[p] = SectionCell(s, o) \/ p \in IATCells \/ PaddedOver(p)
                      /\ \A p \in DOMAIN basefile \ 0 .. pe.headerLen - 1 :
                           basefile[p] # Zero =>
                             \/ p \in IATCells
                             \/ \E s \in DOMAIN pe.sections : p \in Raw(pe.sections[s])
    BY DEF SectionsIntact
  <2>1. /\ step = "done" /\ pe \in PEs /\ IsFile(basefile)
        /\ MappedSections = 1 .. Len(pe.sections)
        /\ HeaderThere /\ SectionsThere /\ NothingElse
    BY WhenBuilt
  <2>2. DOMAIN pe.sections = 1 .. Len(pe.sections) /\ pe.headerLen \in Nat
    BY <2>1, PETyped
  <2>3. \A p \in 0 .. pe.headerLen - 1 : basefile[p] = pe.cells[p + 1] \/ PaddedOver(p)
    BY <2>1 DEF HeaderThere
  <2>4. ASSUME NEW s \in DOMAIN pe.sections, NEW o \in 0 .. pe.sections[s].rawSize - 1
        PROVE  LET p == pe.sections[s].rva + o
               IN  basefile[p] = SectionCell(s, o) \/ p \in IATCells \/ PaddedOver(p)
    <3>1. Placed(s, o)
      BY <2>1, <2>2 DEF SectionsThere
    <3> QED
      BY <2>1, <3>1, EntriesInIAT DEF Placed
  <2>5. ASSUME NEW p \in DOMAIN basefile \ 0 .. pe.headerLen - 1, basefile[p] # Zero
        PROVE  p \in IATCells \/ \E s \in DOMAIN pe.sections : p \in Raw(pe.sections[s])
    <3>1. p \in Nat
      BY <2>1 DEF IsFile
    <3>2. ~(p < pe.headerLen)
      BY <2>2, <2>5, <3>1
    <3> QED
      BY <2>1, <2>2, <2>5, <3>2 DEF NothingElse
  <2> QED
    BY <2>3, <2>4, <2>5
<1> QED
  BY <1>1, MapInvariant, PTL

(* xenonifyIAT gives every import of every table its ordinal, or that of   *)
(* the hint in front of its name, and its library's module index; it reads *)
(* each entry that only one table has, and each hint, as the PE has them,  *)
(* although it rewrites the file that it reads.                            *)
THEOREM EveryEntryXenonified == Spec => []IATXenonified
<1>1. MapInv => IATXenonified
  <2> SUFFICES ASSUME MapInv, Built,
                      NEW s \in DOMAIN pe.sections, NEW o \in 0 .. pe.sections[s].rawSize - 1,
                      NEW t \in DOMAIN pe.tables,
                      Unshared(t, pe.sections[s].rva + o, SectionCell(s, o))
               PROVE  basefile[pe.sections[s].rva + o] =
                        Xenonified(ModuleIndex(t, Byte), OrdinalOf(SectionCell(s, o)))
    BY DEF IATXenonified, Unshared
  <2>1. /\ pe \in PEs /\ MappedSections = 1 .. Len(pe.sections) /\ SectionsThere
        /\ \A u, k : Rewritten(u, k)
    BY WhenBuilt
  <2>2. s \in 1 .. Len(pe.sections) /\ t \in 1 .. Len(pe.tables)
    BY <2>1, PETyped
  <2>3. Placed(s, o)
    BY <2>1, <2>2 DEF SectionsThere
  <2>4. pe.sections[s].rva + o \in
          pe.tables[t].rva .. pe.tables[t].rva + pe.tables[t].importCount - 1
    BY DEF Unshared, TablesWith
  <2>5. PICK k \in 1 .. pe.tables[t].importCount : pe.sections[s].rva + o = EntryAt(t, k)
    BY <2>1, <2>2, <2>4, IATAreEntries
  <2> QED
    BY <2>1, <2>2, <2>3, <2>5 DEF Placed
<1> QED
  BY <1>1, MapInvariant, PTL

(* The page size that setPageDescriptors works out is the loader's when    *)
(* the basefile is a whole number of its pages.                            *)
LEMMA DivExact ==
  ASSUME NEW n \in Nat, NEW m \in Nat, n * m > 0
  PROVE  n > 0 /\ (n * m) \div n = m
<1>1. n > 0
  OBVIOUS
<1> QED
  BY <1>1

LEMMA PageSizeFound ==
  ASSUME MapInv, Built, WholePages
  PROVE  pageSize = LoaderPage /\ LoaderPage = pe.pageSize /\ pageDescCount > 0
<1>1. /\ MapTypes /\ Sized /\ step = "done" /\ pe \in PEs
  BY WhenBuilt DEF MapInv
<1>2. size > 0 /\ LoaderPage = pe.pageSize /\ pageDescCount \in Nat
  BY <1>1 DEF Sized, Live, Mapping, MapTypes
<1>3. LoaderPage \in Nat /\ size = pageDescCount * LoaderPage
  BY <1>1, <1>2, PETyped DEF WholePages
<1>4. pageDescCount > 0 /\ (pageDescCount * LoaderPage) \div pageDescCount = LoaderPage
  <2> HIDE DEF LoaderPage
  <2> QED
    BY <1>2, <1>3, DivExact
<1> QED
  BY <1>2, <1>3, <1>4 DEF pageSize

(* The hash chain that a loader follows through the page descriptors       *)
(* verifies against the basefile as it is written, on a host of either     *)
(* byte order: setPageDescriptors goes from the last page to the first, so *)
(* that the hash of a page covers the final descriptor of its own, in the  *)
(* byte order that writeXEX gives it in the file, and leaves every         *)
(* descriptor as the host has it for writeXEX to swap.                     *)
THEOREM ChainVerifies == Spec => []HashChainVerifies
<1>1. MapInv => HashChainVerifies
  <2> SUFFICES ASSUME MapInv, Built, WholePages
               PROVE  /\ imageSha1 = PageHash(0)
                      /\ \A d \in 0 .. pageDescCount - 2 : descriptors[d].sha1 = PageHash(d + 1)
                      /\ \A d \in 0 .. pageDescCount - 1 : InFileBigEndian(d)
    BY DEF HashChainVerifies
  <2>1. pageSize = LoaderPage /\ pageDescCount > 0 /\ pageDescCount \in Nat
    BY PageSizeFound DEF MapInv, MapTypes
  <2>2. \A d \in 0 .. pageDescCount - 1 : Chained(d)
    <3>1. i = -1 /\ \A d \in 0 .. pageDescCount - 1 : d > i => Chained(d)
      BY DEF MapInv, Chain
    <3> QED
      BY <2>1, <3>1
  <2>3. ASSUME NEW d \in 0 .. pageDescCount - 1
        PROVE  InFileBigEndian(d)
    <3>1. swapped = {} /\ DOMAIN descriptors = 0 .. pageDescCount - 1
      BY WhenBuilt DEF MapInv, MapTypes, Chain
    <3>2. CASE littleEndian
      BY <3>1, <3>2 DEF InFileBigEndian, BigEndian, Swapped, MapInv, MapTypes
    <3>3. CASE ~littleEndian
      <4>1. littleEndian = FALSE
        BY <3>3 DEF MapInv, MapTypes
      <4>2. Swapped(DOMAIN descriptors) = {}
        BY <3>1, <4>1 DEF Swapped
      <4>3. (d \in {}) = FALSE
        OBVIOUS
      <4> QED
        BY <4>1, <4>2, <4>3 DEF InFileBigEndian, BigEndian
    <3> QED
      BY <3>2, <3>3
  <2>4. \A d \in 0 .. pageDescCount - 1 : PageHash(d) = Hash(d)
    <3>1. TAKE d \in 0 .. pageDescCount - 1
    <3>2. InFileBigEndian(d) = TRUE
      BY <2>3 DEF InFileBigEndian, BigEndian
    <3> QED
      BY <2>1, <3>2 DEF PageHash, Hash
  <2>5. imageSha1 = PageHash(0)
    <3>1. 0 \in 0 .. pageDescCount - 1
      BY <2>1
    <3> QED
      BY <2>2, <2>4, <3>1 DEF Chained
  <2>6. ASSUME NEW d \in 0 .. pageDescCount - 2
        PROVE  descriptors[d].sha1 = PageHash(d + 1)
    <3>1. d + 1 \in 0 .. pageDescCount - 1 /\ d + 1 # 0 /\ (d + 1) - 1 = d
      BY <2>1
    <3>2. Chained(d + 1)
      BY <2>2, <3>1
    <3> QED
      BY <2>4, <3>1, <3>2 DEF Chained
  <2> QED
    BY <2>3, <2>5, <2>6
<1> QED
  BY <1>1, MapInvariant, PTL

LEMMA AlignedBelow ==
  ASSUME NEW a \in Nat, NEW d \in Nat, NEW n \in Nat, n > 0, a % n = 0, a < (d + 1) * n
  PROVE  a <= d * n
<1> DEFINE q == a \div n
<1>1. q \in Nat /\ a = n * q + (a % n)
  OBVIOUS
<1> HIDE DEF q
<1>2. a = n * q
  BY <1>1
<1>3. q <= d
  <2>1. SUFFICES ASSUME q >= d + 1 PROVE FALSE
    BY <1>1
  <2>2. n * q >= n * (d + 1)
    BY <1>1, <2>1
  <2> QED
    BY <1>1, <1>2, <2>2
<1> QED
  BY <1>1, <1>2, <1>3

(* getRwx gives every page that holds data of a section the permissions of *)
(* that section, and the first page those of the PE header.                *)
THEOREM PermissionsHold == Spec => []PermissionsMatch
<1>1. MapInv => PermissionsMatch
  <2> SUFFICES ASSUME MapInv, Built, WholePages, InOrder, NEW d \in 0 .. pageDescCount - 1
               PROVE  LET page == d * LoaderPage .. (d + 1) * LoaderPage - 1
                      IN  /\ \A s \in DOMAIN pe.sections :
                               Raw(pe.sections[s]) \cap page # {} =>
                                 descriptors[d].info = pe.sections[s].permFlag
                          /\ d = 0 => descriptors[d].info = RoData
    BY DEF PermissionsMatch
  <2>1. pe \in PEs /\ pageSize = LoaderPage /\ LoaderPage = pe.pageSize /\ d \in Nat
    BY WhenBuilt, PageSizeFound DEF MapInv, MapTypes
  <2> DEFINE L == LoaderPage
             rva(s) == pe.sections[s].rva
             raw(s) == pe.sections[s].rawSize
             end(s) == SectionEnd(pe.sections[s])
             below == {s \in DOMAIN pe.sections : rva(s) <= d * L}
  <2>2. L \in Nat /\ L > 0 /\ d * L \in Nat
    <3>1. L \in Nat /\ L > 0
      BY <2>1, PETyped
    <3> HIDE DEF L
    <3> QED
      BY <2>1, <3>1
  <2>3. DOMAIN pe.sections = 1 .. Len(pe.sections)
    BY <2>1, PETyped
  <2>4. \A s \in DOMAIN pe.sections :
          /\ rva(s) \in Nat /\ raw(s) \in Nat /\ end(s) \in Nat
          /\ rva(s) % L = 0 /\ rva(s) >= L /\ end(s) >= rva(s) + raw(s)
          /\ \A r \in DOMAIN pe.sections : r # s => end(r) <= rva(s) \/ end(s) <= rva(r)
    BY <2>1, <2>3, SectionTyped
  <2>5. \A r, s \in DOMAIN pe.sections : r < s => rva(r) < rva(s)
    BY DEF InOrder
  <2>6. /\ below = {} => descriptors[d].info = RoData
        /\ below # {} =>
             descriptors[d].info =
               pe.sections[CHOOSE s \in below : \A r \in below : r <= s].permFlag
    <3>1. descriptors[d].info = getRwx(d)
      <4>1. i = -1 /\ (d > i => Chained(d))
        BY DEF MapInv, Chain
      <4> QED
        BY <2>1, <4>1 DEF Chained
    <3> QED
      BY <2>1, <3>1 DEF getRwx
  <2>7. ASSUME NEW s \in DOMAIN pe.sections,
               NEW x \in Raw(pe.sections[s]), x \in d * L .. (d + 1) * L - 1
        PROVE  descriptors[d].info = pe.sections[s].permFlag
    <3>1. x \in rva(s) .. rva(s) + raw(s) - 1
      BY DEF Raw
    <3> HIDE DEF L, rva, raw, end
    <3>2. (d + 1) * L \in Nat
      BY <2>1, <2>2
    <3>3. x \in Int /\ x >= rva(s) /\ x < rva(s) + raw(s) /\ x >= d * L /\ x < (d + 1) * L
      BY <2>2, <2>4, <2>7, <3>1, <3>2
    <3>4. rva(s) <= d * L
      <4>1. rva(s) < (d + 1) * L
        BY <2>4, <3>2, <3>3
      <4> QED
        BY <2>1, <2>2, <2>4, <4>1, AlignedBelow
    <3>5. \A r \in below : r <= s
      <4>1. SUFFICES ASSUME NEW r \in DOMAIN pe.sections, rva(r) <= d * L, r > s PROVE FALSE
        BY <2>3
      <4>2. rva(s) < rva(r) /\ (end(r) <= rva(s) \/ end(s) <= rva(r))
        BY <2>3, <2>4, <2>5, <4>1
      <4> QED
        BY <2>2, <2>4, <3>3, <4>1, <4>2
    <3>6. s \in below /\ below \subseteq Int
      BY <2>3, <3>4
    <3> HIDE DEF below
    <3>7. (CHOOSE z \in below : \A r \in below : r <= z) = s
      <4>1. \A z \in below : (\A r \in below : r <= z) => z = s
        BY <3>5, <3>6
      <4> QED
        BY <3>5, <3>6, <4>1
    <3> QED
      BY <2>6, <3>6, <3>7
  <2>8. d = 0 => below = {}
    <3> HIDE DEF L, rva
    <3> QED
      BY <2>2, <2>4
  <2> QED
    BY <2>6, <2>7, <2>8
<1> QED
  BY <1>1, MapInvariant, PTL
=============================================================================
