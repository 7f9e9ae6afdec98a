-------------------------- MODULE PEImportsProofs --------------------------
(***************************************************************************)
(* The invariants of getImports, for every set of PEs whose directories    *)
(* are made of entries, and, where the addresses are concerned, for those  *)
(* whose section tables are as linkers make them.                          *)
(***************************************************************************)
EXTENDS PEImports, DataStorageProofs, SequenceTheorems

-----------------------------------------------------------------------------
(***************************************************************************)
(* Runs of cells, by the RVA they start at: how much of one has been read  *)
(* without meeting a blank cell, and the whole of one.                     *)
(***************************************************************************)
Place(p, rva) == rvaToOffset(rva, p.sections)

Begun(p, rva, n) ==
  /\ Place(p, rva) # 0
  /\ \A m \in 0 .. n - 1 : p.cells[Place(p, rva) + m + 1] # Blank

Ended(p, rva, n) ==
  /\ Begun(p, rva, n)
  /\ Place(p, rva) + n < Len(p.cells)
  /\ p.cells[Place(p, rva) + n + 1] = Blank

Directory(p) == Place(p, p.idtRVA)

-----------------------------------------------------------------------------
(***************************************************************************)
(* The inductive invariant.                                                *)
(***************************************************************************)
Tables   == [rva : Nat, imports : Seq(Nat)]
NameSteps == {"seekName", "readName", "seekIAT"}
IATSteps  == {"readImport", "storeImport", "endTable"}
Inner     == NameSteps \cup IATSteps

TypesHold ==
  /\ step \in {"start", "readIDT", "returned"} \cup Inner
  /\ pe \in PEs
  /\ pos \in Nat /\ savedOffset \in Nat /\ totalImportCount \in Nat
  /\ tables \in Seq(Tables)
  /\ ret \in {"none", "success", "invalidRVA", "fileRead", "outOfMem"}
  /\ ret = "none" <=> step # "returned"
  /\ step = "start" => tables = <<>> /\ totalImportCount = 0

(* As many entries of the directory have been read as there are tables.    *)
DirectoryRead ==
  /\ step \in {"readIDT"} \cup Inner =>
       pe.idtRVA # 0 /\ Begun(pe, pe.idtRVA, Len(tables))
  /\ step = "readIDT" => pos = Directory(pe) + Len(tables)
  /\ step \in Inner => /\ Len(tables) > 0
                       /\ savedOffset = Directory(pe) + Len(tables)
                       /\ savedOffset <= Len(pe.cells)
                       /\ currentIDT = pe.cells[savedOffset] /\ currentIDT \in IDTs
  /\ ret = "success" => IF pe.idtRVA = 0 THEN tables = <<>>
                        ELSE Ended(pe, pe.idtRVA, Len(tables))

(* Each table but the one in hand is one the directory has, with its IAT.  *)
Whole(p, t, table) ==
  /\ table.rva = p.cells[Directory(p) + t][3]
  /\ Ended(p, table.rva, Len(table.imports))

Read(t) == t < Len(tables) \/ step = "readIDT" \/ ret = "success"

TablesRead ==
  /\ \A t \in 1 .. Len(tables) : Read(t) => Whole(pe, t, tables[t])
  /\ step # "returned" \/ ret = "success" =>
       (totalImportCount > 0 <=>
          \E t \in 1 .. Len(tables) : Read(t) /\ Len(tables[t].imports) > 0)

(* How far the table in hand has been read.                                *)
TableInHand ==
  LET table == tables[Len(tables)]
      end   == Place(pe, table.rva) + Len(table.imports)
  IN  /\ step \in NameSteps => table.imports = <<>>
      /\ step \in IATSteps =>
           /\ table.rva = currentIDT[3]
           /\ Begun(pe, table.rva, Len(table.imports))
           /\ pos = IF step = "readImport" THEN end ELSE end + 1
      /\ step \in {"storeImport", "endTable"} =>
           /\ pos <= Len(pe.cells)
           /\ pe.cells[pos] = Blank <=> step = "endTable"

(***************************************************************************)
(* A PE as linkers make it: its sections ascend, in the file too, and are  *)
(* loaded within 32 bits; the directory and the IATs each lie in the raw   *)
(* data of one section up to and including the blank cell.                 *)
(***************************************************************************)
Contained(p, rva) ==
  Place(p, rva) # 0 =>
    \E s \in DOMAIN p.sections :
      LET section == p.sections[s]
      IN  /\ section.rva <= rva /\ rva < section.rva + section.rawSize
          /\ \A n \in Walk(p.cells, Place(p, rva)) : n < section.offset + section.rawSize

Linked(p) ==
  /\ Ascending(p.sections)
  /\ \A s \in DOMAIN p.sections : baseAddr + p.sections[s].rva + p.sections[s].rawSize < Word
  /\ Contained(p, p.idtRVA)
  /\ Directory(p) # 0 =>
       \A n \in Walk(p.cells, Directory(p)) :
         p.cells[n + 1] # Blank => Contained(p, p.cells[n + 1][3])

Right(table) == \A n \in 1 .. Len(table.imports) : table.imports[n] = baseAddr + table.rva + n - 1

ImportsInv ==
  /\ TypesHold /\ DirectoryRead /\ TablesRead /\ TableInHand
  /\ Linked(pe) => \A t \in 1 .. Len(tables) : Right(tables[t])

-----------------------------------------------------------------------------
(***************************************************************************)
(* What is assumed of a PE, and where a translation can lead.              *)
(***************************************************************************)
LEMMA PEFacts ==
  ASSUME NEW p \in PEs
  PROVE  /\ baseAddr \in Nat /\ p.idtRVA \in Nat /\ Len(p.cells) \in Nat
         /\ p.sections \in Seq(SectionRecords)
         /\ \A s \in DOMAIN p.sections :
              p.sections[s].offset + p.sections[s].rawSize <= Len(p.cells)
BY PEImportsAssumption

LEMMA PlaceRange ==
  ASSUME NEW p \in PEs, NEW x \in Nat
  PROVE  Place(p, x) \in Nat /\ offsetToRVA(x, p.sections) \in Nat
<1> DEFINE sections == p.sections
           n        == Len(sections)
           rva      == Column(sections, "rva")
           virt     == Column(sections, "virtualSize")
           off      == Column(sections, "offset")
           raw      == Column(sections, "rawSize")
<1>1. sections \in Seq(SectionRecords)
  BY PEFacts
<1> HIDE DEF sections
<1>2. n \in Nat /\ DOMAIN sections = 1 .. n /\ \A s \in 1 .. n : sections[s] \in SectionRecords
  BY <1>1
<1>3. \A s \in 1 .. n : sections[s].rva \in Nat /\ sections[s].offset \in Nat
  BY <1>2 DEF SectionRecords
<1>4. rva \in [1 .. n -> Nat] /\ off \in [1 .. n -> Nat]
  BY <1>2, <1>3 DEF Column
<1> HIDE DEF n, rva, virt, off, raw
<1>5. /\ Translate(x, rva, virt, off) \in 0 .. Word - 1
      /\ Translate(x, off, raw, rva) \in 0 .. Word - 1
  BY <1>2, <1>4, TranslateRange
<1>6. 0 .. Word - 1 \subseteq Nat
  BY WordAssumption
<1>7. rvaToOffset(x, sections) \in Nat /\ offsetToRVA(x, sections) \in Nat
  BY <1>5, <1>6 DEF rvaToOffset, RVAtoOffset, offsetToRVA, rva, virt, off, raw
<1> QED
  BY <1>7 DEF Place, sections

(***************************************************************************)
(* Runs of cells.                                                          *)
(***************************************************************************)
LEMMA BegunNone ==
  ASSUME NEW p, NEW rva, Place(p, rva) # 0
  PROVE  Begun(p, rva, 0)
BY DEF Begun

LEMMA BegunMore ==
  ASSUME NEW p \in PEs, NEW rva \in Nat, NEW n \in Nat, Begun(p, rva, n),
         p.cells[Place(p, rva) + n + 1] # Blank
  PROVE  Begun(p, rva, n + 1)
<1>1. \A m \in 0 .. (n + 1) - 1 : m \in 0 .. n - 1 \/ m = n
  OBVIOUS
<1> QED
  BY <1>1 DEF Begun

(* What is read of a run lies in its walk.                                 *)
LEMMA BegunWalk ==
  ASSUME NEW p \in PEs, NEW rva \in Nat, NEW n \in Nat, Begun(p, rva, n),
         Place(p, rva) + n < Len(p.cells)
  PROVE  \A m \in 0 .. n : Place(p, rva) + m \in Walk(p.cells, Place(p, rva))
<1> DEFINE o == Place(p, rva)
<1>1. o \in Nat /\ Len(p.cells) \in Nat
  BY PlaceRange, PEFacts
<1> SUFFICES ASSUME NEW m \in 0 .. n PROVE o + m \in Walk(p.cells, o)
  OBVIOUS
<1>2. o + m \in o .. Len(p.cells) - 1
  BY <1>1
<1>3. ASSUME NEW k \in o .. (o + m) - 1 PROVE p.cells[k + 1] # Blank
  <2> HIDE DEF o
  <2>1. k - o \in 0 .. n - 1 /\ o + (k - o) + 1 = k + 1
    BY <1>1
  <2>2. p.cells[o + (k - o) + 1] # Blank
    BY <2>1 DEF Begun, o
  <2> QED
    BY <2>1, <2>2
<1> HIDE DEF o
<1> QED
  BY <1>2, <1>3 DEF Walk

(* Behind the entries read of a directory is another, or the blank one.    *)
LEMMA DirectoryEntry ==
  ASSUME NEW p \in PEs, NEW n \in Nat, Begun(p, p.idtRVA, n), Directory(p) + n < Len(p.cells)
  PROVE  p.cells[Directory(p) + n + 1] \in IDTs \cup {Blank}
<1>1. Directory(p) + n \in Walk(p.cells, Directory(p))
  <2>1. n \in 0 .. n
    OBVIOUS
  <2> QED
    BY <2>1, PEFacts, BegunWalk DEF Directory
<1>2. rvaToOffset(p.idtRVA, p.sections) > 0
  <2>1. Place(p, p.idtRVA) \in Nat
    BY PEFacts, PlaceRange
  <2>2. Place(p, p.idtRVA) # 0
    BY DEF Begun
  <2> QED
    BY <2>1, <2>2 DEF Place
<1>3. \A k \in Walk(p.cells, rvaToOffset(p.idtRVA, p.sections)) :
        p.cells[k + 1] \in IDTs \cup {Blank}
  BY <1>2, PEImportsAssumption
<1> QED
  BY <1>1, <1>3 DEF Directory, Place

LEMMA EntryFields ==
  ASSUME NEW e \in IDTs
  PROVE  e # Blank /\ e[2] \in Nat /\ e[3] \in Nat
BY DEF IDTs, Blank

(***************************************************************************)
(* The tables but for the last stay as they are.                           *)
(***************************************************************************)
LEMMA WithTable ==
  ASSUME NEW ts \in Seq(Tables), NEW table \in Tables, NEW new, new = Append(ts, table)
  PROVE  /\ new \in Seq(Tables) /\ Len(new) = Len(ts) + 1 /\ new[Len(new)] = table
         /\ \A t \in 1 .. Len(ts) : new[t] = ts[t]
OBVIOUS

LEMMA FieldSet ==
  ASSUME NEW rva, NEW imports, NEW table, table = [rva |-> rva, imports |-> imports], NEW new
  PROVE  /\ [table EXCEPT !.rva = new] = [rva |-> new, imports |-> imports]
         /\ [table EXCEPT !.imports = new] = [rva |-> rva, imports |-> new]
OBVIOUS

LEMMA LastSet ==
  ASSUME NEW S, NEW ts \in Seq(S), Len(ts) > 0, NEW v \in S,
         NEW new, new = [ts EXCEPT ![Len(ts)] = v]
  PROVE  /\ new \in Seq(S) /\ Len(new) = Len(ts) /\ new[Len(new)] = v
         /\ \A t \in 1 .. Len(ts) - 1 : new[t] = ts[t]
OBVIOUS

LEMMA WithRva ==
  ASSUME NEW ts \in Seq(Tables), Len(ts) > 0, NEW rva \in Nat,
         NEW new, new = [ts EXCEPT ![Len(ts)].rva = rva]
  PROVE  /\ new \in Seq(Tables) /\ Len(new) = Len(ts)
         /\ new[Len(new)] = [rva |-> rva, imports |-> ts[Len(ts)].imports]
         /\ \A t \in 1 .. Len(ts) - 1 : new[t] = ts[t]
<1> DEFINE n == Len(ts)
           old == ts[n]
<1>1. old \in Tables
  OBVIOUS
<1>2. old = [rva |-> old.rva, imports |-> old.imports] /\ old.imports \in Seq(Nat)
  BY <1>1 DEF Tables
<1>3. new = [ts EXCEPT ![n] = [old EXCEPT !.rva = rva]]
  OBVIOUS
<1>4. [old EXCEPT !.rva = rva] = [rva |-> rva, imports |-> old.imports]
  BY <1>2, FieldSet
<1> HIDE DEF old, n
<1>5. new = [ts EXCEPT ![n] = [rva |-> rva, imports |-> old.imports]]
  BY <1>3, <1>4
<1>6. [rva |-> rva, imports |-> old.imports] \in Tables
  BY <1>2 DEF Tables
<1> QED
  BY <1>5, <1>6, LastSet DEF old, n

SetImports(ts, imports) == [ts EXCEPT ![Len(ts)].imports = imports]

LEMMA WithImports ==
  ASSUME NEW ts \in Seq(Tables), Len(ts) > 0, NEW imports \in Seq(Nat),
         NEW new, new = SetImports(ts, imports)
  PROVE  /\ new \in Seq(Tables) /\ Len(new) = Len(ts)
         /\ new[Len(new)] = [rva |-> ts[Len(ts)].rva, imports |-> imports]
         /\ \A t \in 1 .. Len(ts) - 1 : new[t] = ts[t]
<1> DEFINE n == Len(ts)
           old == ts[n]
<1>1. old \in Tables
  OBVIOUS
<1>2. old = [rva |-> old.rva, imports |-> old.imports] /\ old.rva \in Nat
  BY <1>1 DEF Tables
<1>3. new = [ts EXCEPT ![n] = [old EXCEPT !.imports = imports]]
  BY Zenon DEF SetImports
<1> HIDE DEF old, n
<1>4. [old EXCEPT !.imports = imports] = [rva |-> old.rva, imports |-> imports]
  BY <1>2, FieldSet
<1>5. new = [ts EXCEPT ![n] = [rva |-> old.rva, imports |-> imports]]
  BY <1>3, <1>4
<1>6. [rva |-> old.rva, imports |-> imports] \in Tables
  BY <1>2 DEF Tables
<1> QED
  BY <1>5, <1>6, LastSet DEF old, n

-----------------------------------------------------------------------------
(***************************************************************************)
(* A run that is contained lies in one section, in the image and the file. *)
(***************************************************************************)
LEMMA RunInSection ==
  ASSUME NEW p \in PEs, Linked(p), NEW rva \in Nat, Contained(p, rva), Place(p, rva) # 0
  PROVE  \E s \in DOMAIN p.sections :
           /\ p.sections[s].rva \in Nat /\ p.sections[s].offset \in Nat
           /\ p.sections[s].rawSize \in Nat /\ p.sections[s].rva <= rva
           /\ \A m \in Nat : Place(p, rva) + m \in Walk(p.cells, Place(p, rva)) =>
                /\ (rva - p.sections[s].rva) + m \in 0 .. p.sections[s].rawSize - 1
                /\ Place(p, rva) + m = p.sections[s].offset + ((rva - p.sections[s].rva) + m)
<1>1. PICK s \in DOMAIN p.sections :
        /\ p.sections[s].rva <= rva /\ rva < p.sections[s].rva + p.sections[s].rawSize
        /\ \A n \in Walk(p.cells, Place(p, rva)) :
             n < p.sections[s].offset + p.sections[s].rawSize
  BY DEF Contained
<1> DEFINE start == p.sections[s].rva
           size  == p.sections[s].rawSize
           off   == p.sections[s].offset
           o     == rva - start
<1>2. Ascending(p.sections)
  BY DEF Linked
<1>3. start \in Nat /\ size \in Nat /\ off \in Nat
  BY <1>2 DEF Ascending
<1>4. /\ start <= rva /\ rva < start + size
      /\ \A n \in Walk(p.cells, Place(p, rva)) : n < off + size
  BY <1>1
<1> HIDE DEF start, size, off
<1>5. o \in 0 .. size - 1 /\ start + o = rva
  BY <1>3, <1>4
<1> HIDE DEF o
<1>6. rvaToOffset(start + o, p.sections) \in {0, off + o}
  BY <1>2, <1>5, RawDataTranslated DEF start, size, off
<1>7. Place(p, rva) = off + o
  BY <1>5, <1>6 DEF Place
<1>8. ASSUME NEW m \in Nat, Place(p, rva) + m \in Walk(p.cells, Place(p, rva))
      PROVE  o + m \in 0 .. size - 1 /\ Place(p, rva) + m = off + (o + m)
  <2>1. Place(p, rva) + m < off + size
    BY <1>4, <1>8
  <2>2. o \in Nat /\ size \in Nat
    BY <1>3, <1>5
  <2> QED
    BY <1>3, <1>7, <2>1, <2>2
<1> QED
  BY <1>3, <1>4, <1>8 DEF start, size, off, o

(* There, positions are translated back to what they came from.            *)
LEMMA AddressFound ==
  ASSUME NEW p \in PEs, Linked(p), NEW rva \in Nat, Contained(p, rva), Place(p, rva) # 0,
         NEW m \in Nat, Place(p, rva) + m \in Walk(p.cells, Place(p, rva))
  PROVE  /\ offsetToRVA(Place(p, rva) + m, p.sections) = rva + m
         /\ U32(baseAddr + (rva + m)) = baseAddr + rva + m
<1>1. PICK s \in DOMAIN p.sections :
        /\ p.sections[s].rva \in Nat /\ p.sections[s].offset \in Nat
        /\ p.sections[s].rawSize \in Nat /\ p.sections[s].rva <= rva
        /\ (rva - p.sections[s].rva) + m \in 0 .. p.sections[s].rawSize - 1
        /\ Place(p, rva) + m = p.sections[s].offset + ((rva - p.sections[s].rva) + m)
  BY RunInSection
<1> DEFINE start == p.sections[s].rva
           size  == p.sections[s].rawSize
           off   == p.sections[s].offset
           o     == (rva - start) + m
<1>2. Ascending(p.sections) /\ baseAddr + start + size < Word
  BY DEF Linked
<1>3. /\ start \in Nat /\ size \in Nat /\ off \in Nat /\ start <= rva
      /\ o \in 0 .. size - 1 /\ Place(p, rva) + m = off + o
  BY <1>1
<1>4. offsetToRVA(off + o, p.sections) = start + o
  BY <1>2, <1>3, RawDataTranslated
<1> HIDE DEF start, size, off
<1>5. start + o = rva + m /\ o < size
  BY <1>3
<1>6. baseAddr \in Nat /\ baseAddr + rva + m = baseAddr + (rva + m)
  BY PEFacts
<1> HIDE DEF o
<1>7. baseAddr + (rva + m) < Word
  BY <1>2, <1>3, <1>5, <1>6, WordAssumption
<1>8. baseAddr + (rva + m) \in Nat
  BY <1>6
<1>9. U32(baseAddr + (rva + m)) = baseAddr + (rva + m)
  BY <1>7, <1>8, U32Plain
<1> QED
  BY <1>3, <1>4, <1>5, <1>6, <1>9

(* And the reference reading finds the same cells.                         *)
LEMMA CellFound ==
  ASSUME pe \in PEs, Linked(pe), NEW rva \in Nat, Contained(pe, rva), Place(pe, rva) # 0,
         NEW m \in Nat, Place(pe, rva) + m \in Walk(pe.cells, Place(pe, rva))
  PROVE  CellAt(rva + m) = pe.cells[Place(pe, rva) + m + 1]
<1>1. PICK s \in DOMAIN pe.sections :
        /\ pe.sections[s].rva \in Nat /\ pe.sections[s].offset \in Nat
        /\ pe.sections[s].rawSize \in Nat /\ pe.sections[s].rva <= rva
        /\ (rva - pe.sections[s].rva) + m \in 0 .. pe.sections[s].rawSize - 1
        /\ Place(pe, rva) + m = pe.sections[s].offset + ((rva - pe.sections[s].rva) + m)
  BY RunInSection
<1> DEFINE Holds(t) == /\ pe.sections[t].rva <= rva + m
                       /\ rva + m < pe.sections[t].rva + pe.sections[t].rawSize
<1>2. Holds(s)
  BY <1>1
<1>3. ASSUME NEW t \in DOMAIN pe.sections, Holds(t) PROVE t = s
  <2>1. /\ pe.sections[t].rva \in Nat /\ pe.sections[t].rawSize \in Nat
        /\ t < s => pe.sections[t].rva + pe.sections[t].rawSize <= pe.sections[s].rva
        /\ s < t => pe.sections[s].rva + pe.sections[s].rawSize <= pe.sections[t].rva
        /\ s \in Nat /\ t \in Nat
    BY DEF Linked, Ascending
  <2> DEFINE startS == pe.sections[s].rva
             sizeS  == pe.sections[s].rawSize
             startT == pe.sections[t].rva
             sizeT  == pe.sections[t].rawSize
  <2>2. /\ startS \in Nat /\ sizeS \in Nat /\ startT \in Nat /\ sizeT \in Nat
        /\ t < s => startT + sizeT <= startS
        /\ s < t => startS + sizeS <= startT
        /\ startS <= rva + m /\ rva + m < startS + sizeS
        /\ startT <= rva + m /\ rva + m < startT + sizeT
        /\ s \in Nat /\ t \in Nat
    BY <1>1, <1>2, <1>3, <2>1
  <2> HIDE DEF startS, sizeS, startT, sizeT
  <2> QED
    BY <2>2
<1> HIDE DEF Holds
<1>4. (CHOOSE t \in DOMAIN pe.sections : Holds(t)) = s
  BY <1>2, <1>3
<1>5. Holding(rva + m) = s
  BY <1>4 DEF Holding, Holds
<1>6. CellAt(rva + m)
        = pe.cells[pe.sections[s].offset + ((rva + m) - pe.sections[s].rva) + 1]
  BY <1>5 DEF CellAt
<1>7. pe.sections[s].offset + ((rva + m) - pe.sections[s].rva) + 1 = Place(pe, rva) + m + 1
  <2> DEFINE start == pe.sections[s].rva
             off   == pe.sections[s].offset
  <2>1. start \in Nat /\ off \in Nat /\ Place(pe, rva) + m = off + ((rva - start) + m)
    BY <1>1
  <2> HIDE DEF start, off
  <2>2. off + ((rva + m) - start) + 1 = off + ((rva - start) + m) + 1
    BY <2>1
  <2>3. off + ((rva + m) - start) + 1 = Place(pe, rva) + m + 1
    BY <2>1, <2>2
  <2> QED
    BY <2>3 DEF start, off
<1> QED
  BY <1>6, <1>7

(* The run read is the whole run.                                          *)
LEMMA RunIs ==
  ASSUME pe \in PEs, Linked(pe), NEW rva \in Nat, Contained(pe, rva), NEW n \in Nat,
         Ended(pe, rva, n)
  PROVE  /\ RunLength(rva) = n
         /\ \A m \in 0 .. n : CellAt(rva + m) = pe.cells[Place(pe, rva) + m + 1]
<1>1. Begun(pe, rva, n) /\ Place(pe, rva) # 0 /\ Place(pe, rva) + n < Len(pe.cells)
  BY DEF Ended, Begun
<1>2. \A m \in 0 .. n : CellAt(rva + m) = pe.cells[Place(pe, rva) + m + 1]
  <2> SUFFICES ASSUME NEW m \in 0 .. n
               PROVE  CellAt(rva + m) = pe.cells[Place(pe, rva) + m + 1]
    OBVIOUS
  <2>1. m \in Nat /\ Place(pe, rva) + m \in Walk(pe.cells, Place(pe, rva))
    BY <1>1, BegunWalk
  <2> QED
    BY <1>1, <2>1, CellFound
<1> DEFINE P(k) == /\ CellAt(rva + k) = Blank
                   /\ \A m \in 0 .. k - 1 : CellAt(rva + m) # Blank
<1>3. P(n)
  <2>1. CellAt(rva + n) = Blank
    BY <1>2 DEF Ended
  <2>2. ASSUME NEW m \in 0 .. n - 1 PROVE CellAt(rva + m) # Blank
    <3>1. m \in 0 .. n
      OBVIOUS
    <3> QED
      BY <1>1, <1>2, <3>1 DEF Begun
  <2> QED
    BY <2>1, <2>2
<1>4. ASSUME NEW k \in 0 .. Len(pe.cells), P(k) PROVE k = n
  <2>1. k \in Nat /\ Len(pe.cells) \in Nat
    BY PEFacts
  <2>2. ~(k < n)
    <3>1. k < n => k \in 0 .. n - 1
      BY <2>1
    <3> QED
      BY <1>3, <1>4, <3>1
  <2>3. ~(n < k)
    <3>1. n < k => n \in 0 .. k - 1
      BY <2>1
    <3> QED
      BY <1>3, <1>4, <3>1
  <2> QED
    BY <2>1, <2>2, <2>3
<1>5. n \in 0 .. Len(pe.cells)
  <2>1. Place(pe, rva) \in Nat /\ Len(pe.cells) \in Nat
    BY PEFacts, PlaceRange
  <2> QED
    BY <1>1, <2>1
<1> HIDE DEF P
<1>6. (CHOOSE k \in 0 .. Len(pe.cells) : P(k)) = n
  BY <1>3, <1>4, <1>5
<1> QED
  BY <1>2, <1>6 DEF RunLength, P

-----------------------------------------------------------------------------
(***************************************************************************)
(* The steps.                                                              *)
(***************************************************************************)
AllRight == Linked(pe) => \A t \in 1 .. Len(tables) : Right(tables[t])

LEMMA ImportsInit == Init => ImportsInv
<1> SUFFICES ASSUME Init PROVE ImportsInv
  OBVIOUS
<1>1. step = "start" /\ ret = "none" /\ tables = <<>> /\ Len(tables) = 0
  BY DEF Init
<1>2. TypesHold
  BY <1>1 DEF Init, TypesHold
<1>3. DirectoryRead /\ TablesRead /\ TableInHand
  BY <1>1 DEF Init, DirectoryRead, TablesRead, TableInHand, Inner, NameSteps, IATSteps
<1>4. \A t \in 1 .. Len(tables) : Right(tables[t])
  BY <1>1
<1> QED
  BY <1>2, <1>3, <1>4 DEF ImportsInv

(* Whatever fails, the tables before the one in hand are whole.            *)
LEMMA Failing ==
  ASSUME ImportsInv, pe' = pe, step' = "returned",
         ret' \in {"invalidRVA", "fileRead", "outOfMem"},
         pos' \in Nat, savedOffset' \in Nat, totalImportCount' \in Nat,
         tables' \in Seq(Tables), Len(tables') = Len(tables),
         \A t \in 1 .. Len(tables) - 1 : tables'[t] = tables[t],
         Linked(pe) /\ Len(tables) > 0 => Right(tables[Len(tables)]')
  PROVE  ImportsInv'
<1>1. TypesHold /\ TablesRead /\ Len(tables) \in Nat
  BY DEF ImportsInv, TypesHold
<1>2. TypesHold'
  BY <1>1 DEF TypesHold
<1>3. DirectoryRead' /\ TableInHand'
  BY DEF DirectoryRead, TableInHand, Inner, NameSteps, IATSteps
<1>4. TablesRead'
  <2>1. ASSUME NEW t \in 1 .. Len(tables'), Read(t)' PROVE Whole(pe', t, tables'[t])
    <3>1. t \in 1 .. Len(tables) - 1
      BY <1>1, <2>1 DEF Read
    <3>2. Whole(pe, t, tables[t])
      BY <1>1, <3>1 DEF TablesRead, Read
    <3> QED
      BY <3>1, <3>2
  <2> QED
    BY <2>1 DEF TablesRead
<1>5. ASSUME Linked(pe'), NEW t \in 1 .. Len(tables') PROVE Right(tables'[t])
  <2>1. Linked(pe)
    BY <1>5
  <2>2. CASE t = Len(tables)
    BY <1>1, <2>1, <2>2
  <2>3. CASE t # Len(tables)
    <3>1. t \in 1 .. Len(tables) - 1 /\ t \in 1 .. Len(tables)
      BY <1>1, <2>3
    <3>2. Right(tables[t])
      BY <2>1, <3>1 DEF ImportsInv
    <3> QED
      BY <3>1, <3>2
  <2> QED
    BY <2>2, <2>3
<1> QED
  BY <1>2, <1>3, <1>4, <1>5 DEF ImportsInv

(* The same, where the tables stay as they are.                            *)
LEMMA FailingHere ==
  ASSUME ImportsInv, pe' = pe, step' = "returned",
         ret' \in {"invalidRVA", "fileRead", "outOfMem"},
         UNCHANGED <<pos, savedOffset, totalImportCount, tables>>
  PROVE  ImportsInv'
<1>1. /\ pos' \in Nat /\ savedOffset' \in Nat /\ totalImportCount' \in Nat
      /\ tables' \in Seq(Tables) /\ Len(tables) \in Nat
  BY DEF ImportsInv, TypesHold
<1>2. Linked(pe) /\ Len(tables) > 0 => Right(tables[Len(tables)]')
  <2>1. Len(tables) > 0 => Len(tables) \in 1 .. Len(tables)
    BY <1>1
  <2>2. tables[Len(tables)]' = tables[Len(tables)]
    OBVIOUS
  <2> QED
    BY <2>1, <2>2 DEF ImportsInv
<1> QED
  BY <1>1, <1>2, Failing

(* A step that leaves the tables as they are leaves them right.            *)
LEMMA RightKept ==
  ASSUME ImportsInv, pe' = pe, tables' = tables
  PROVE  Linked(pe') => \A t \in 1 .. Len(tables') : Right(tables'[t])
BY DEF ImportsInv

LEMMA NoImportsStep == ImportsInv /\ NoImports => ImportsInv'
<1> SUFFICES ASSUME ImportsInv, NoImports PROVE ImportsInv'
  OBVIOUS
<1>1. /\ step = "start" /\ step' = "returned" /\ ret' = "success" /\ pe' = pe /\ pe.idtRVA = 0
      /\ UNCHANGED <<pos, savedOffset, totalImportCount, tables>>
  BY DEF NoImports, At, Return
<1>2. TypesHold /\ tables = <<>> /\ totalImportCount = 0
  BY <1>1 DEF ImportsInv, TypesHold
<1>3. TypesHold'
  BY <1>1, <1>2 DEF TypesHold
<1>4. DirectoryRead' /\ TableInHand'
  BY <1>1, <1>2 DEF DirectoryRead, TableInHand, Inner, NameSteps, IATSteps
<1>5. TablesRead'
  BY <1>1, <1>2 DEF TablesRead
<1> QED
  BY <1>1, <1>3, <1>4, <1>5, RightKept DEF ImportsInv

LEMMA SeekIDTStep == ImportsInv /\ SeekIDT => ImportsInv'
<1> SUFFICES ASSUME ImportsInv, SeekIDT PROVE ImportsInv'
  OBVIOUS
<1>1. /\ step = "start" /\ pe' = pe /\ pe.idtRVA # 0
      /\ UNCHANGED <<savedOffset, totalImportCount, tables>>
  BY DEF SeekIDT, At
<1>2. TypesHold /\ pe \in PEs /\ tables = <<>> /\ totalImportCount = 0 /\ Len(tables) = 0
  BY <1>1 DEF ImportsInv, TypesHold
<1>3. CASE step' = "returned" /\ ret' = "invalidRVA" /\ UNCHANGED pos
  BY <1>1, <1>3, FailingHere
<1>4. CASE /\ Directory(pe) # 0 /\ pos' = Directory(pe)
           /\ step' = "readIDT" /\ UNCHANGED ret
  <2>1. Directory(pe) \in Nat
    BY <1>2, PEFacts, PlaceRange DEF Directory
  <2>2. TypesHold'
    BY <1>1, <1>2, <1>4, <2>1 DEF TypesHold
  <2>3. Begun(pe, pe.idtRVA, 0)
    BY <1>4, BegunNone DEF Directory
  <2>4. Len(tables') = 0 /\ Directory(pe') = Directory(pe) /\ ret' # "success"
    BY <1>1, <1>2, <1>4 DEF TypesHold
  <2>5. DirectoryRead' /\ TableInHand'
    BY <1>1, <1>2, <1>4, <2>1, <2>3, <2>4
    DEF DirectoryRead, TableInHand, Inner, NameSteps, IATSteps
  <2>6. TablesRead'
    BY <1>1, <1>2, <2>4 DEF TablesRead
  <2> QED
    BY <1>1, <2>2, <2>5, <2>6, RightKept DEF ImportsInv
<1> QED
  BY <1>3, <1>4 DEF SeekIDT, SeekRVA, Return, Directory, Place

LEMMA ReadIDTStep == ImportsInv /\ ReadIDT => ImportsInv'
<1> SUFFICES ASSUME ImportsInv, ReadIDT PROVE ImportsInv'
  OBVIOUS
<1>1. /\ step = "readIDT" /\ pe' = pe /\ pos < Len(pe.cells)
      /\ currentIDT' = pe.cells[pos + 1] /\ pos' = pos + 1 /\ savedOffset' = pos + 1
      /\ totalImportCount' = totalImportCount
  BY DEF ReadIDT, At, AtCell, Cell
<1> DEFINE n == Len(tables)
<1>2. TypesHold /\ DirectoryRead /\ TablesRead /\ ret # "success"
  BY <1>1 DEF ImportsInv, TypesHold
<1>3. pe \in PEs /\ tables \in Seq(Tables) /\ n \in Nat /\ pos \in Nat
  BY <1>2 DEF TypesHold
<1>4. pe.idtRVA # 0 /\ Begun(pe, pe.idtRVA, n) /\ pos = Directory(pe) + n
  BY <1>1, <1>2 DEF DirectoryRead
<1>5. pe.idtRVA \in Nat /\ Directory(pe) \in Nat /\ Len(pe.cells) \in Nat
  BY <1>3, PEFacts, PlaceRange DEF Directory
<1>6. pe.cells[pos + 1] \in IDTs \cup {Blank}
  BY <1>1, <1>3, <1>4, DirectoryEntry
<1>7. /\ \A t \in 1 .. n : Whole(pe, t, tables[t])
      /\ totalImportCount > 0 <=> \E t \in 1 .. n : Len(tables[t].imports) > 0
  BY <1>1, <1>2 DEF TablesRead, Read
<1>8. CASE pe.cells[pos + 1] = Blank
  <2>1. step' = "returned" /\ ret' = "success" /\ tables' = tables
    BY <1>8 DEF ReadIDT, Cell, Return
  <2>2. TypesHold'
    BY <1>1, <1>2, <1>3, <2>1 DEF TypesHold
  <2>3. Ended(pe, pe.idtRVA, n)
    BY <1>1, <1>4, <1>8 DEF Ended, Directory
  <2>4. DirectoryRead' /\ TableInHand'
    BY <1>1, <1>4, <2>1, <2>3 DEF DirectoryRead, TableInHand, Inner, NameSteps, IATSteps
  <2>5. TablesRead'
    BY <1>1, <1>7, <2>1 DEF TablesRead, Read
  <2> QED
    BY <1>1, <2>1, <2>2, <2>4, <2>5, RightKept DEF ImportsInv
<1>9. CASE pe.cells[pos + 1] # Blank
  <2> DEFINE blank == [rva |-> 0, imports |-> <<>>]
  <2>1. step' = "seekName" /\ ret' = ret /\ tables' = Append(tables, blank)
    BY <1>9 DEF ReadIDT, Cell
  <2>2. blank \in Tables /\ Right(blank) /\ blank.imports = <<>>
    BY DEF Tables, Right
  <2> HIDE DEF blank
  <2>3. /\ tables' \in Seq(Tables) /\ Len(tables') = n + 1 /\ tables'[n + 1] = blank
        /\ \A t \in 1 .. n : tables'[t] = tables[t]
    BY <1>3, <2>1, <2>2, WithTable
  <2>4. TypesHold'
    BY <1>1, <1>2, <1>3, <2>1, <2>3 DEF TypesHold, Inner, NameSteps
  <2>5. Begun(pe, pe.idtRVA, n + 1)
    BY <1>3, <1>4, <1>5, <1>9, BegunMore DEF Directory
  <2>6. pos + 1 = Directory(pe) + (n + 1) /\ pos + 1 <= Len(pe.cells) /\ n + 1 > 0
    BY <1>1, <1>3, <1>4, <1>5
  <2>7. ret' # "success"
    BY <1>2, <2>1
  <2>8. currentIDT' = pe'.cells[savedOffset'] /\ currentIDT' \in IDTs
    BY <1>1, <1>6, <1>9
  <2> HIDE DEF n
  <2>9. DirectoryRead'
    BY <1>1, <1>4, <2>1, <2>3, <2>5, <2>6, <2>7, <2>8 DEF DirectoryRead
  <2>10. TableInHand'
    BY <2>1, <2>2, <2>3 DEF TableInHand, NameSteps, IATSteps
  <2>11. TablesRead'
    <3>1. \A t \in 1 .. n + 1 : Read(t)' <=> t \in 1 .. n
      BY <1>3, <2>1, <2>3, <2>7 DEF Read, n
    <3>2. \A t \in 1 .. n : t \in 1 .. n + 1
      BY <1>3
    <3> QED
      BY <1>1, <1>7, <2>1, <2>3, <3>1, <3>2 DEF TablesRead
  <2>12. ASSUME Linked(pe'), NEW t \in 1 .. Len(tables') PROVE Right(tables'[t])
    <3>1. t \in 1 .. n \/ t = n + 1
      BY <1>3, <2>3
    <3> QED
      BY <1>1, <2>2, <2>3, <2>12, <3>1 DEF ImportsInv, n
  <2> QED
    BY <2>4, <2>9, <2>10, <2>11, <2>12 DEF ImportsInv
<1> QED
  BY <1>8, <1>9

(* What is known while a table is in hand.                                 *)
LEMMA InHand ==
  ASSUME ImportsInv, step \in Inner
  PROVE  /\ pe \in PEs /\ tables \in Seq(Tables) /\ Len(tables) \in Nat /\ Len(tables) > 0
         /\ tables[Len(tables)] \in Tables /\ ret = "none" /\ step # "returned"
         /\ pos \in Nat /\ Len(pe.cells) \in Nat
         /\ currentIDT \in IDTs /\ currentIDT[2] \in Nat /\ currentIDT[3] \in Nat
<1>1. TypesHold /\ DirectoryRead
  BY DEF ImportsInv
<1>2. pe \in PEs /\ tables \in Seq(Tables) /\ Len(tables) \in Nat /\ ret = "none" /\ pos \in Nat
  BY <1>1 DEF TypesHold, Inner, NameSteps, IATSteps
<1>3. Len(tables) > 0 /\ currentIDT \in IDTs
  BY <1>1 DEF DirectoryRead
<1>4. tables[Len(tables)] \in Tables
  BY <1>2, <1>3
<1> QED
  BY <1>2, <1>3, <1>4, PEFacts, EntryFields DEF Inner, NameSteps, IATSteps

(* A step within a table that leaves the tables as they are.               *)
LEMMA Within ==
  ASSUME ImportsInv, step \in Inner, step' \in Inner, pos' \in Nat, TableInHand',
         UNCHANGED <<pe, currentIDT, savedOffset, totalImportCount, tables, ret>>
  PROVE  ImportsInv'
<1>1. TypesHold /\ DirectoryRead /\ TablesRead /\ ret # "success"
  BY InHand DEF ImportsInv
<1>2. step' # "readIDT" /\ step # "readIDT" /\ step # "returned" /\ step' # "returned"
      /\ step # "start" /\ step' # "start"
  BY DEF Inner, NameSteps, IATSteps
<1>3. TypesHold'
  BY <1>1, <1>2 DEF TypesHold
<1>4. DirectoryRead'
  BY <1>1, <1>2 DEF DirectoryRead
<1>5. TablesRead'
  <2>1. \A t \in 1 .. Len(tables) : Read(t)' <=> Read(t)
    BY <1>1, <1>2 DEF Read
  <2> QED
    BY <1>1, <1>2, <2>1 DEF TablesRead
<1> QED
  BY <1>3, <1>4, <1>5, RightKept DEF ImportsInv

LEMMA SeekNameStep == ImportsInv /\ SeekName => ImportsInv'
<1> SUFFICES ASSUME ImportsInv, SeekName PROVE ImportsInv'
  OBVIOUS
<1>1. /\ step = "seekName" /\ pe' = pe
      /\ UNCHANGED <<currentIDT, savedOffset, tables, totalImportCount>>
  BY DEF SeekName, At
<1>2. step \in Inner
  BY <1>1 DEF Inner, NameSteps
<1> DEFINE place == Place(pe, currentIDT[2])
<1>3. place \in Nat
  BY <1>2, InHand, PlaceRange
<1>4. CASE step' = "returned" /\ ret' = "invalidRVA" /\ UNCHANGED pos
  BY <1>1, <1>4, FailingHere
<1>5. CASE pos' = place /\ step' = "readName" /\ UNCHANGED ret
  <2>1. TableInHand'
    BY <1>1, <1>5 DEF ImportsInv, TableInHand, NameSteps, IATSteps
  <2>2. step' \in Inner
    BY <1>5 DEF Inner, NameSteps
  <2> QED
    BY <1>1, <1>2, <1>3, <1>5, <2>1, <2>2, Within
<1> QED
  BY <1>4, <1>5 DEF SeekName, SeekRVA, Return, Place

LEMMA ReadNameStep == ImportsInv /\ ReadNameChunk => ImportsInv'
<1> SUFFICES ASSUME ImportsInv, ReadNameChunk PROVE ImportsInv'
  OBVIOUS
<1>1. /\ step = "readName" /\ pe' = pe /\ step' \in {"seekIAT", "readName"} /\ pos' = pos + 1
      /\ UNCHANGED <<currentIDT, savedOffset, tables, totalImportCount, ret>>
  BY DEF ReadNameChunk, At
<1>2. step \in Inner /\ step' \in Inner
  BY <1>1 DEF Inner, NameSteps
<1>3. pos' \in Nat
  BY <1>1, <1>2, InHand
<1>4. TableInHand'
  BY <1>1 DEF ImportsInv, TableInHand, NameSteps, IATSteps
<1> QED
  BY <1>1, <1>2, <1>3, <1>4, Within

(* Without imports, a table is right.                                      *)
LEMMA SeekIATStep == ImportsInv /\ SeekIAT => ImportsInv'
<1> SUFFICES ASSUME ImportsInv, SeekIAT PROVE ImportsInv'
  OBVIOUS
<1> DEFINE n     == Len(tables)
           rva   == currentIDT[3]
           place == Place(pe, rva)
           new   == [rva |-> rva, imports |-> <<>>]
<1>1. /\ step = "seekIAT" /\ pe' = pe /\ tables' = [tables EXCEPT ![n].rva = rva]
      /\ UNCHANGED <<currentIDT, savedOffset, totalImportCount>>
  BY DEF SeekIAT, At
<1>2. step \in Inner /\ step \in NameSteps
  BY <1>1 DEF Inner, NameSteps
<1>3. /\ pe \in PEs /\ tables \in Seq(Tables) /\ n \in Nat /\ n > 0
      /\ ret = "none" /\ pos \in Nat /\ rva \in Nat
  BY <1>2, InHand
<1>4. tables[n].imports = <<>>
  BY <1>2 DEF ImportsInv, TableInHand
<1>5. /\ tables' \in Seq(Tables) /\ Len(tables') = n /\ tables'[n] = new
      /\ \A t \in 1 .. n - 1 : tables'[t] = tables[t]
  <2> HIDE DEF rva
  <2>1. /\ tables' \in Seq(Tables) /\ Len(tables') = Len(tables)
        /\ tables'[Len(tables')] = [rva |-> rva, imports |-> tables[Len(tables)].imports]
        /\ \A t \in 1 .. Len(tables) - 1 : tables'[t] = tables[t]
    BY <1>1, <1>3, WithRva
  <2> QED
    BY <1>4, <2>1
<1>6. Right(new) /\ new.imports = <<>> /\ new.rva = rva /\ Len(new.imports) = 0
  BY DEF Right
<1>7. place \in Nat
  BY <1>3, PlaceRange
<1>8. TypesHold /\ DirectoryRead /\ TablesRead
  BY DEF ImportsInv
<1>9. \A t \in 1 .. n : t \in 1 .. n - 1 \/ t = n
  BY <1>3
<1> HIDE DEF n, rva, place, new
<1>10. CASE step' = "returned" /\ ret' = "invalidRVA" /\ UNCHANGED pos
  <2>1. /\ pos' \in Nat /\ savedOffset' \in Nat /\ totalImportCount' \in Nat
    BY <1>1, <1>8, <1>10 DEF TypesHold
  <2>2. tables[Len(tables)]' = new
    BY <1>5 DEF n
  <2>3. Len(tables') = Len(tables) /\ \A t \in 1 .. Len(tables) - 1 : tables'[t] = tables[t]
    BY <1>5 DEF n
  <2> QED
    BY <1>1, <1>5, <1>6, <1>10, <2>1, <2>2, <2>3, Failing
<1>11. CASE place # 0 /\ pos' = place /\ step' = "readImport" /\ UNCHANGED ret
  <2>1. TypesHold'
    BY <1>1, <1>3, <1>5, <1>7, <1>8, <1>11 DEF TypesHold, Inner, IATSteps
  <2>2. DirectoryRead'
    BY <1>1, <1>2, <1>3, <1>5, <1>8, <1>11 DEF DirectoryRead, n
  <2>3. TablesRead'
    <3>1. \A t \in 1 .. n : (Read(t)' <=> Read(t)) /\ (Read(t) <=> t \in 1 .. n - 1)
      BY <1>1, <1>3, <1>5, <1>11 DEF Read, n
    <3>2. \A t \in 1 .. n - 1 : t \in 1 .. n
      BY <1>3
    <3>3. \A t \in 1 .. n - 1 : Whole(pe, t, tables[t])
      BY <1>8, <3>1, <3>2 DEF TablesRead, n
    <3>4. totalImportCount > 0 <=> \E t \in 1 .. n - 1 : Len(tables[t].imports) > 0
      BY <1>1, <1>8, <3>1, <3>2 DEF TablesRead, n
    <3> QED
      BY <1>1, <1>5, <1>11, <3>1, <3>2, <3>3, <3>4 DEF TablesRead
  <2>4. TableInHand'
    <3>1. tables[Len(tables)]' = new
      BY <1>5
    <3>2. Begun(pe, rva, 0)
      BY <1>11, BegunNone DEF place
    <3>3. new.rva = currentIDT'[3] /\ Place(pe', new.rva) + Len(new.imports) = pos'
      BY <1>1, <1>6, <1>7, <1>11 DEF place, rva
    <3> QED
      BY <1>1, <1>6, <1>11, <3>1, <3>2, <3>3 DEF TableInHand, NameSteps, IATSteps
  <2>5. ASSUME Linked(pe'), NEW t \in 1 .. Len(tables') PROVE Right(tables'[t])
    BY <1>1, <1>5, <1>6, <1>9, <2>5 DEF ImportsInv, n
  <2> QED
    BY <2>1, <2>2, <2>3, <2>4, <2>5 DEF ImportsInv
<1> QED
  BY <1>10, <1>11 DEF SeekIAT, SeekRVA, Return, place, rva, Place

LEMMA ReadImportStep == ImportsInv /\ ReadImport => ImportsInv'
<1> SUFFICES ASSUME ImportsInv, ReadImport PROVE ImportsInv'
  OBVIOUS
<1>1. /\ step = "readImport" /\ pe' = pe /\ pos < Len(pe.cells) /\ pos' = pos + 1
      /\ step' = (IF pe.cells[pos + 1] = Blank THEN "endTable" ELSE "storeImport")
      /\ UNCHANGED <<currentIDT, savedOffset, tables, totalImportCount, ret>>
  BY DEF ReadImport, At, AtCell, Cell
<1>2. step \in Inner /\ step' \in Inner
  BY <1>1 DEF Inner, IATSteps
<1>3. pos \in Nat /\ Len(pe.cells) \in Nat
  BY <1>2, InHand
<1>4. TableInHand'
  BY <1>1, <1>3 DEF ImportsInv, TableInHand, NameSteps, IATSteps
<1> QED
  BY <1>1, <1>2, <1>3, <1>4, Within

(* The IAT of the table in hand is one that the directory names.           *)
LEMMA InHandContained ==
  ASSUME ImportsInv, step \in Inner, Linked(pe)
  PROVE  Contained(pe, currentIDT[3])
<1> DEFINE n == Len(tables)
           k == Directory(pe) + (n - 1)
<1>1. DirectoryRead /\ pe \in PEs /\ n \in Nat /\ n > 0
  BY InHand DEF ImportsInv
<1>2. /\ Begun(pe, pe.idtRVA, n) /\ savedOffset = Directory(pe) + n
      /\ savedOffset <= Len(pe.cells)
      /\ currentIDT = pe.cells[savedOffset] /\ currentIDT \in IDTs
  BY <1>1 DEF DirectoryRead
<1>3. pe.idtRVA \in Nat /\ Directory(pe) \in Nat /\ Len(pe.cells) \in Nat
  BY <1>1, PEFacts, PlaceRange DEF Directory
<1>4. n - 1 \in Nat /\ k < Len(pe.cells) /\ k + 1 = savedOffset
  BY <1>1, <1>2, <1>3
<1>5. Directory(pe) # 0 /\ Begun(pe, pe.idtRVA, n - 1)
  BY <1>1, <1>2 DEF Begun, Directory
<1> HIDE DEF n
<1>6. k \in Walk(pe.cells, Directory(pe))
  <2>1. n - 1 \in 0 .. n - 1
    BY <1>4
  <2> QED
    BY <1>1, <1>3, <1>4, <1>5, <2>1, BegunWalk DEF Directory
<1>7. pe.cells[k + 1] # Blank
  BY <1>2, <1>4, EntryFields
<1> QED
  BY <1>2, <1>4, <1>5, <1>6, <1>7 DEF Linked

LEMMA StoreImportStep == ImportsInv /\ StoreImport => ImportsInv'
<1> SUFFICES ASSUME ImportsInv, StoreImport PROVE ImportsInv'
  OBVIOUS
<1> DEFINE n       == Len(tables)
           table   == tables[n]
           length  == Len(table.imports)
           place   == Place(pe, table.rva)
           found   == offsetToRVA(pos - 1, pe.sections)
           address == U32(baseAddr + found)
                      more    == Append(table.imports, address)
           new     == [rva |-> table.rva, imports |-> more]
<1>1. /\ step = "storeImport" /\ pe' = pe
      /\ UNCHANGED <<pos, currentIDT, savedOffset, totalImportCount>>
  BY DEF StoreImport, At
<1>2. step \in Inner /\ step \in IATSteps
  BY <1>1 DEF Inner, IATSteps
<1>3. /\ pe \in PEs /\ tables \in Seq(Tables) /\ n \in Nat /\ n > 0 /\ table \in Tables
      /\ ret = "none" /\ pos \in Nat /\ Len(pe.cells) \in Nat
  BY <1>2, InHand
<1>4. /\ table.rva = currentIDT[3] /\ Begun(pe, table.rva, length)
      /\ pos = place + length + 1 /\ pos <= Len(pe.cells) /\ pe.cells[pos] # Blank
  BY <1>1, <1>2 DEF ImportsInv, TableInHand
<1>5. table.rva \in Nat /\ table.imports \in Seq(Nat) /\ length \in Nat
  BY <1>3 DEF Tables
<1>6. place \in Nat
  BY <1>3, <1>5, PlaceRange
<1>7. TypesHold /\ DirectoryRead /\ TablesRead
  BY DEF ImportsInv
<1>8. \A t \in 1 .. n : t \in 1 .. n - 1 \/ t = n
  BY <1>3
<1>9. pos - 1 = place + length /\ place + length \in Nat /\ place + length < Len(pe.cells)
  BY <1>3, <1>4, <1>5, <1>6
<1>10. address \in Nat
  <2> HIDE DEF place, length
  <2>1. found \in Nat
    BY <1>3, <1>9, PlaceRange
  <2>2. baseAddr + found \in Int
    BY <1>3, <2>1, PEFacts
  <2> HIDE DEF found
  <2>3. address \in 0 .. Word - 1
    BY <2>2, U32Range
  <2> QED
    BY <2>3, WordAssumption
<1>11. CASE step' = "returned" /\ ret' = "invalidRVA" /\ UNCHANGED tables
  BY <1>1, <1>11, FailingHere
<1>12. CASE /\ tables' = [tables EXCEPT ![Len(tables)].imports = more]
            /\ step' = "readImport" /\ UNCHANGED ret
  <2>1. /\ tables' \in Seq(Tables) /\ Len(tables') = n /\ tables'[n] = new
        /\ \A t \in 1 .. n - 1 : tables'[t] = tables[t]
    <3>1. more \in Seq(Nat)
      BY <1>5, <1>10
    <3> HIDE DEF more
    <3>2. tables' = SetImports(tables, more)
      BY <1>12, Zenon DEF more, SetImports
    <3>3. /\ tables' \in Seq(Tables) /\ Len(tables') = Len(tables)
          /\ tables'[Len(tables')] = [rva |-> tables[Len(tables)].rva, imports |-> more]
          /\ \A t \in 1 .. Len(tables) - 1 : tables'[t] = tables[t]
      BY <1>3, <3>1, <3>2, WithImports
    <3> QED
      BY <3>3
  <2> HIDE DEF address
  <2>2. /\ new.rva = table.rva /\ Len(new.imports) = length + 1
        /\ \A m \in 1 .. length : new.imports[m] = table.imports[m]
        /\ new.imports[length + 1] = address
    BY <1>5, <1>10
  <2>3. Begun(pe, table.rva, length + 1)
    BY <1>3, <1>4, <1>5, BegunMore
  <2>4. Linked(pe) => Right(new)
    <3> SUFFICES ASSUME Linked(pe) PROVE Right(new)
      OBVIOUS
    <3>1. Contained(pe, table.rva)
      BY <1>2, <1>4, InHandContained
    <3>2. place # 0
      BY <1>4 DEF Begun
    <3>3. place + length \in Walk(pe.cells, place)
      <4>1. length \in 0 .. length
        BY <1>5
      <4> QED
        BY <1>3, <1>4, <1>5, <1>9, <4>1, BegunWalk
    <3>4. /\ offsetToRVA(place + length, pe.sections) = table.rva + length
          /\ U32(baseAddr + (table.rva + length)) = baseAddr + table.rva + length
      BY <1>3, <1>5, <3>1, <3>2, <3>3, AddressFound
    <3>5. address = baseAddr + table.rva + length
      BY <1>9, <3>4 DEF address
    <3>6. Right(table)
      BY <1>3 DEF ImportsInv
    <3> HIDE DEF new, table, length
    <3>7. baseAddr \in Nat
      BY <1>3, PEFacts
    <3>8. ASSUME NEW m \in 1 .. Len(new.imports)
          PROVE  new.imports[m] = baseAddr + new.rva + m - 1
      <4>1. CASE m = length + 1
        BY <1>5, <2>2, <3>5, <3>7, <4>1
      <4>2. CASE m # length + 1
        <5>1. m \in 1 .. length
          BY <1>5, <2>2, <4>2
        <5>2. table.imports[m] = baseAddr + table.rva + m - 1
          BY <3>6, <5>1 DEF Right, length
        <5> QED
          BY <2>2, <5>1, <5>2
      <4> QED
        BY <4>1, <4>2
    <3> QED
      BY <3>8 DEF Right
  <2> HIDE DEF n, table, length, place, new
  <2>5. TypesHold'
    BY <1>1, <1>3, <1>7, <1>12, <2>1 DEF TypesHold, Inner, IATSteps
  <2>6. DirectoryRead'
    BY <1>1, <1>2, <1>3, <1>7, <1>12, <2>1 DEF DirectoryRead, n
  <2>7. TablesRead'
    <3>1. \A t \in 1 .. n : (Read(t)' <=> Read(t)) /\ (Read(t) <=> t \in 1 .. n - 1)
      BY <1>1, <1>3, <1>12, <2>1 DEF Read, n
    <3>2. \A t \in 1 .. n - 1 : t \in 1 .. n
      BY <1>3
    <3>3. \A t \in 1 .. n - 1 : Whole(pe, t, tables[t])
      BY <1>7, <3>1, <3>2 DEF TablesRead, n
    <3>4. totalImportCount > 0 <=> \E t \in 1 .. n - 1 : Len(tables[t].imports) > 0
      BY <1>1, <1>7, <3>1, <3>2 DEF TablesRead, n
    <3> QED
      BY <1>1, <1>12, <2>1, <3>1, <3>2, <3>3, <3>4 DEF TablesRead
  <2>8. TableInHand'
    <3>1. tables[Len(tables)]' = new
      BY <2>1
    <3>2. Place(pe', new.rva) + Len(new.imports) = pos'
      BY <1>1, <1>4, <1>5, <1>6, <2>2 DEF place
    <3> QED
      BY <1>1, <1>4, <1>12, <2>2, <2>3, <3>1, <3>2 DEF TableInHand, NameSteps, IATSteps
  <2>9. ASSUME Linked(pe'), NEW t \in 1 .. Len(tables') PROVE Right(tables'[t])
    <3>1. Linked(pe) /\ (t \in 1 .. n - 1 \/ t = n)
      BY <1>1, <1>8, <2>1, <2>9
    <3>2. CASE t = n
      BY <2>1, <2>4, <3>1, <3>2
    <3>3. CASE t \in 1 .. n - 1
      <4>1. t \in 1 .. Len(tables) /\ tables'[t] = tables[t]
        BY <2>1, <2>9, <3>3 DEF n
      <4> QED
        BY <3>1, <4>1 DEF ImportsInv
    <3> QED
      BY <3>1, <3>2, <3>3
  <2> QED
    BY <2>5, <2>6, <2>7, <2>8, <2>9 DEF ImportsInv
<1> QED
  BY <1>11, <1>12 DEF StoreImport, storedAt, Return

LEMMA EndTableStep == ImportsInv /\ EndTable => ImportsInv'
<1> SUFFICES ASSUME ImportsInv, EndTable PROVE ImportsInv'
  OBVIOUS
<1> DEFINE n      == Len(tables)
           table  == tables[n]
           length == Len(table.imports)
           place  == Place(pe, table.rva)
<1>1. /\ step = "endTable" /\ pe' = pe /\ pos' = savedOffset /\ step' = "readIDT"
      /\ totalImportCount' = totalImportCount + length
      /\ UNCHANGED <<currentIDT, savedOffset, tables, ret>>
  BY DEF EndTable, At
<1>2. step \in Inner /\ step \in IATSteps
  BY <1>1 DEF Inner, IATSteps
<1>3. /\ pe \in PEs /\ tables \in Seq(Tables) /\ n \in Nat /\ n > 0 /\ table \in Tables
      /\ ret = "none" /\ Len(pe.cells) \in Nat
  BY <1>2, InHand
<1>4. /\ table.rva = currentIDT[3] /\ Begun(pe, table.rva, length)
      /\ pos = place + length + 1 /\ pos <= Len(pe.cells) /\ pe.cells[pos] = Blank
  BY <1>1, <1>2 DEF ImportsInv, TableInHand
<1>5. /\ pe.idtRVA # 0 /\ Begun(pe, pe.idtRVA, n)
      /\ savedOffset = Directory(pe) + n /\ currentIDT = pe.cells[savedOffset]
  BY <1>2 DEF ImportsInv, DirectoryRead
<1>6. table.rva \in Nat /\ length \in Nat
  BY <1>3 DEF Tables
<1>7. place \in Nat
  BY <1>3, <1>6, PlaceRange
<1>8. TypesHold /\ TablesRead /\ totalImportCount \in Nat /\ savedOffset \in Nat
  BY DEF ImportsInv, TypesHold
<1>9. Whole(pe, n, table)
  <2> HIDE DEF length
  <2>1. place + length < Len(pe.cells) /\ pe.cells[place + length + 1] = Blank
    BY <1>3, <1>4, <1>6, <1>7
  <2> QED
    BY <1>4, <1>5, <2>1 DEF Whole, Ended, length
<1> HIDE DEF length, place
<1>10. TypesHold'
  BY <1>1, <1>3, <1>6, <1>8 DEF TypesHold
<1>11. DirectoryRead' /\ TableInHand'
  BY <1>1, <1>3, <1>5 DEF DirectoryRead, TableInHand, Inner, NameSteps, IATSteps
<1>12. TablesRead'
  <2>1. \A t \in 1 .. n : Read(t)' /\ (Read(t) <=> t # n)
    BY <1>1, <1>3 DEF Read
  <2>2. \A t \in 1 .. n : Whole(pe, t, tables[t])
    BY <1>8, <1>9, <2>1 DEF TablesRead
  <2>3. totalImportCount > 0 <=> \E t \in 1 .. n : t # n /\ Len(tables[t].imports) > 0
    BY <1>1, <1>8, <2>1 DEF TablesRead
  <2>4. totalImportCount' > 0 <=> totalImportCount > 0 \/ length > 0
    BY <1>1, <1>6, <1>8
  <2>5. n \in 1 .. n
    BY <1>3
  <2>6. totalImportCount' > 0 <=> \E t \in 1 .. n : Len(tables[t].imports) > 0
    BY <2>3, <2>4, <2>5 DEF length
  <2> QED
    BY <1>1, <2>1, <2>2, <2>6 DEF TablesRead
<1> QED
  BY <1>1, <1>10, <1>11, <1>12, RightKept DEF ImportsInv

LEMMA ImportsNext == ImportsInv /\ [Next]_vars => ImportsInv'
<1> SUFFICES ASSUME ImportsInv, [Next]_vars PROVE ImportsInv'
  OBVIOUS
<1>1. CASE NoImports \/ SeekIDT \/ ReadIDT
  BY <1>1, NoImportsStep, SeekIDTStep, ReadIDTStep
<1>2. CASE SeekName \/ ReadNameChunk \/ SeekIAT
  BY <1>2, SeekNameStep, ReadNameStep, SeekIATStep
<1>3. CASE ReadImport \/ StoreImport \/ EndTable
  BY <1>3, ReadImportStep, StoreImportStep, EndTableStep
<1>4. CASE ReadFails
  BY <1>4, FailingHere DEF ReadFails, Return
<1>5. CASE OutOfMemory
  BY <1>5, FailingHere DEF OutOfMemory, Return
<1>6. CASE UNCHANGED vars
  <2>1. UNCHANGED <<step, pe, pos, currentIDT, savedOffset, tables, totalImportCount, ret>>
    BY <1>6 DEF vars
  <2>2. TypesHold' /\ DirectoryRead' /\ TablesRead' /\ TableInHand'
    BY <2>1 DEF ImportsInv, TypesHold, DirectoryRead, TablesRead, Read, TableInHand
  <2> QED
    BY <2>1, <2>2, RightKept DEF ImportsInv
<1> QED
  BY <1>1, <1>2, <1>3, <1>4, <1>5, <1>6 DEF Next, Step

-----------------------------------------------------------------------------
(***************************************************************************)
(* At every step of getImports as many entries of the directory have been  *)
(* read as there are tables, each but the one in hand with its whole IAT.  *)
(***************************************************************************)
THEOREM ImportsInvariant == Spec => []ImportsInv
<1> QED
  BY ImportsInit, ImportsNext, PTL DEF Spec

(***************************************************************************)
(* The state of getImports has its types, whatever the PE: the translated  *)
(* positions and the recorded addresses are numbers even where sections    *)
(* overlap or RVAs lie nowhere.                                            *)
(***************************************************************************)
THEOREM ImportsTyped == Spec => []ImportsTypeOK
<1>1. ImportsInv => ImportsTypeOK
  BY DEF ImportsInv, TypesHold, ImportsTypeOK, Tables, Inner, NameSteps, IATSteps
<1> QED
  BY <1>1, ImportsInvariant, PTL

(***************************************************************************)
(* In a PE as linkers make it, the address recorded for an import is that  *)
(* of its entry in the IAT.                                                *)
(***************************************************************************)
THEOREM AddressesFound == Spec => [](Linked(pe) => AddressesRight)
<1>1. ImportsInv => (Linked(pe) => AddressesRight)
  <2> SUFFICES ASSUME ImportsInv, Linked(pe) PROVE AddressesRight
    OBVIOUS
  <2>1. DOMAIN tables = 1 .. Len(tables)
    BY DEF ImportsInv, TypesHold
  <2>2. \A t \in 1 .. Len(tables) : DOMAIN tables[t].imports = 1 .. Len(tables[t].imports)
    <3> SUFFICES ASSUME NEW t \in 1 .. Len(tables)
                 PROVE  DOMAIN tables[t].imports = 1 .. Len(tables[t].imports)
      OBVIOUS
    <3>1. tables[t] \in Tables
      BY DEF ImportsInv, TypesHold
    <3> QED
      BY <3>1 DEF Tables
  <2> QED
    BY <2>1, <2>2 DEF ImportsInv, AddressesRight, Right
<1> QED
  BY <1>1, ImportsInvariant, PTL

(***************************************************************************)
(* And when getImports succeeds on one, the tables are those of the        *)
(* directory, each with its whole IAT, and the total says whether any has  *)
(* imports.                                                                *)
(***************************************************************************)
THEOREM NoImportMissed == Spec => [](Linked(pe) => ImportsComplete)
<1>1. ImportsInv => (Linked(pe) => ImportsComplete)
  <2> SUFFICES ASSUME ImportsInv, Linked(pe), ret = "success", pe.idtRVA # 0
               PROVE  /\ Len(tables) = RunLength(pe.idtRVA)
                      /\ \A t \in DOMAIN tables :
                           /\ tables[t].rva = CellAt(pe.idtRVA + t - 1)[3]
                           /\ Len(tables[t].imports) = RunLength(tables[t].rva)
                      /\ (totalImportCount > 0) =
                           (\E t \in DOMAIN tables : RunLength(tables[t].rva) > 0)
    BY DEF ImportsComplete, ImportsInv, DirectoryRead
  <2> DEFINE n == Len(tables)
  <2>1. /\ pe \in PEs /\ tables \in Seq(Tables) /\ n \in Nat /\ DOMAIN tables = 1 .. n
        /\ Ended(pe, pe.idtRVA, n) /\ Contained(pe, pe.idtRVA) /\ pe.idtRVA \in Nat
    BY PEFacts DEF ImportsInv, TypesHold, DirectoryRead, Linked
  <2>2. /\ RunLength(pe.idtRVA) = n
        /\ \A m \in 0 .. n : CellAt(pe.idtRVA + m) = pe.cells[Directory(pe) + m + 1]
    BY <2>1, RunIs DEF Directory
  <2>3. /\ \A t \in 1 .. n : Whole(pe, t, tables[t])
        /\ totalImportCount > 0 <=> \E t \in 1 .. n : Len(tables[t].imports) > 0
    BY DEF ImportsInv, TablesRead, Read
  <2>4. Directory(pe) \in Nat /\ Directory(pe) # 0
    BY <2>1, PlaceRange DEF Directory, Ended, Begun
  <2>5. ASSUME NEW t \in 1 .. n
        PROVE  /\ tables[t].rva = CellAt(pe.idtRVA + t - 1)[3]
               /\ Len(tables[t].imports) = RunLength(tables[t].rva)
    <3>1. t - 1 \in 0 .. n /\ t - 1 \in 0 .. n - 1 /\ t - 1 \in Nat
      BY <2>1
    <3>2. CellAt(pe.idtRVA + (t - 1)) = pe.cells[Directory(pe) + (t - 1) + 1]
      BY <2>2, <3>1
    <3>3. /\ pe.idtRVA + (t - 1) = pe.idtRVA + t - 1
          /\ Directory(pe) + (t - 1) + 1 = Directory(pe) + t
      BY <2>1, <2>4
    <3>4. CellAt(pe.idtRVA + t - 1) = pe.cells[Directory(pe) + t]
      BY <3>2, <3>3
    <3>5. tables[t].rva \in Nat /\ Len(tables[t].imports) \in Nat
      <4>1. tables[t] \in Tables
        BY <2>1
      <4> QED
        BY <4>1 DEF Tables
    <3>6. Contained(pe, tables[t].rva)
      <4>1. Directory(pe) + (t - 1) \in Walk(pe.cells, Directory(pe))
        BY <2>1, <3>1, BegunWalk DEF Ended, Directory
      <4>2. pe.cells[Directory(pe) + (t - 1) + 1] # Blank
        BY <2>1, <3>1 DEF Ended, Begun, Directory
      <4> QED
        BY <2>3, <2>4, <3>3, <4>1, <4>2 DEF Linked, Whole
    <3>7. Ended(pe, tables[t].rva, Len(tables[t].imports))
      BY <2>3 DEF Whole
    <3>8. RunLength(tables[t].rva) = Len(tables[t].imports)
      BY <2>1, <3>5, <3>6, <3>7, RunIs
    <3> QED
      BY <2>3, <3>4, <3>8 DEF Whole
  <2>6. totalImportCount > 0 <=> \E t \in 1 .. n : RunLength(tables[t].rva) > 0
    BY <2>3, <2>5
  <2>7. (totalImportCount > 0) = (\E t \in 1 .. n : RunLength(tables[t].rva) > 0)
    <3> DEFINE any  == totalImportCount > 0
               some == \E t \in 1 .. n : RunLength(tables[t].rva) > 0
    <3>1. any \in BOOLEAN /\ some \in BOOLEAN /\ (any <=> some)
      BY <2>6
    <3> HIDE DEF any, some
    <3>2. any = some
      BY <3>1
    <3> QED
      BY <3>2 DEF any, some
  <2> QED
    BY <2>1, <2>2, <2>5, <2>7
<1> QED
  BY <1>1, ImportsInvariant, PTL

-----------------------------------------------------------------------------
(***************************************************************************)
(* How far getImports is from its end: for each entry the directory may    *)
(* still hold a whole turn (the chunks of a name and an IAT, each no       *)
(* longer than the file), and in a turn what is left of the part in hand.  *)
(***************************************************************************)
Size == Len(pe.cells)

CellsFrom(p) == IF p < Size THEN Size - p ELSE 0

Turn == 5 + 3 * Size

LeftOfTurn ==
  CASE step = "seekName"    -> Turn
    [] step = "readName"    -> 4 + 2 * Size + CellsFrom(pos)
    [] step = "seekIAT"     -> 4 + 2 * Size
    [] step = "storeImport" -> 4 + 2 * CellsFrom(pos)
    [] step = "readImport"  -> 3 + 2 * CellsFrom(pos)
    [] step = "endTable"    -> 2
    [] step = "readIDT"     -> 1

EntriesLeft == CellsFrom(IF step = "readIDT" THEN pos ELSE savedOffset)

StepsLeft ==
  CASE step = "start"    -> Size * Turn + 2
    [] step = "returned" -> 0
    [] OTHER             -> EntriesLeft * Turn + LeftOfTurn

(* A position that is read leaves one cell fewer behind it.                *)
LEMMA FewerCells ==
  ASSUME Size \in Nat, NEW p \in Nat
  PROVE  /\ CellsFrom(p) \in 0 .. Size
         /\ p < Size => CellsFrom(p + 1) = CellsFrom(p) - 1 /\ CellsFrom(p) > 0
  BY DEF CellsFrom

LEMMA Products ==
  ASSUME NEW a \in Nat, NEW b \in Nat, NEW t \in Nat
  PROVE  /\ a <= b => a * t <= b * t
         /\ a > 0 => (a - 1) * t + t = a * t
  OBVIOUS

LEMMA StepsNat == TypesHold => StepsLeft \in Nat /\ (step # "returned" => StepsLeft > 0)
<1> SUFFICES ASSUME TypesHold
             PROVE  StepsLeft \in Nat /\ (step # "returned" => StepsLeft > 0)
  OBVIOUS
<1>1. Size \in Nat /\ Turn \in Nat /\ pos \in Nat /\ savedOffset \in Nat
  BY PEImportsAssumption DEF TypesHold, Size, Turn
<1>2. CellsFrom(pos) \in Nat /\ EntriesLeft \in Nat
  BY <1>1, FewerCells DEF EntriesLeft
<1>3. Size * Turn \in Nat /\ EntriesLeft * Turn \in Nat
  BY <1>1, <1>2
<1>4. step \in {"readIDT"} \cup Inner => LeftOfTurn \in Nat \ {0}
  BY <1>1, <1>2 DEF LeftOfTurn, Inner, NameSteps, IATSteps, Turn
<1>5. CASE step = "start"
  <2>1. StepsLeft = Size * Turn + 2
    BY <1>5 DEF StepsLeft
  <2> QED
    BY <1>3, <2>1
<1>6. CASE step = "returned"
  BY <1>6 DEF StepsLeft
<1>7. CASE step \in {"readIDT"} \cup Inner
  <2>1. StepsLeft = EntriesLeft * Turn + LeftOfTurn
    BY <1>7 DEF StepsLeft, Inner, NameSteps, IATSteps
  <2> QED
    BY <1>3, <1>4, <1>7, <2>1
<1> QED
  BY <1>5, <1>6, <1>7 DEF TypesHold

(***************************************************************************)
(* Every step of getImports comes nearer to its end, whatever the PE: from *)
(* its start it returns within StepsLeft steps.  Neither the directory nor *)
(* a name nor an IAT can keep it, although blank cells alone end them and  *)
(* it seeks back and forth between them.                                   *)
(***************************************************************************)
THEOREM NearsItsEnd == Spec => [](StepsLeft \in Nat) /\ [][StepsLeft' < StepsLeft]_vars
<1>1. ImportsInv => StepsLeft \in Nat
  BY StepsNat DEF ImportsInv
<1>2. ImportsInv /\ [Next]_vars => [StepsLeft' < StepsLeft]_vars
  <2> SUFFICES ASSUME ImportsInv, Next, vars' # vars PROVE StepsLeft' < StepsLeft
    OBVIOUS
  <2>1. TypesHold /\ TypesHold'
    BY ImportsNext DEF ImportsInv
  <2>3. Step \/ OutOfMemory
    BY DEF Next
  <2>4. step # "returned" /\ pe' = pe
    BY <2>3 DEF Step, OutOfMemory, NoImports, SeekIDT, ReadIDT, SeekName,
       ReadNameChunk, SeekIAT, ReadImport, StoreImport, EndTable, ReadFails, At
  <2>5. CASE step' = "returned"
    <3>1. StepsLeft \in Nat /\ StepsLeft > 0 /\ StepsLeft' = 0
      BY <2>1, <2>4, <2>5, StepsNat DEF StepsLeft
    <3> QED
      BY <3>1
  <2>6. CASE step' # "returned"
    <3>1. Size' = Size /\ Turn' = Turn /\ Size \in Nat /\ Turn = 5 + 3 * Size
      BY <2>1, <2>4, PEImportsAssumption DEF TypesHold, Size, Turn
    <3>2. pos \in Nat /\ savedOffset \in Nat /\ pos' \in Nat /\ savedOffset' \in Nat
      BY <2>1 DEF TypesHold
    <3> DEFINE here   == CellsFrom(pos)
               there  == CellsFrom(pos')
               behind == CellsFrom(savedOffset)
    <3>3. /\ here \in 0 .. Size /\ there \in 0 .. Size /\ behind \in 0 .. Size
          /\ pos < Size => CellsFrom(pos + 1) = here - 1 /\ here > 0
      BY <3>1, <3>2, FewerCells
    <3>4. here' = there /\ behind' = CellsFrom(savedOffset')
      BY <3>1 DEF CellsFrom
    <3>5. CASE SeekIDT
      <4>1. StepsLeft = Size * Turn + 2 /\ StepsLeft' = there * Turn + 1
        BY <2>6, <3>1, <3>4, <3>5 DEF SeekIDT, At, SeekRVA, Return, StepsLeft, EntriesLeft,
           LeftOfTurn
      <4> QED
        BY <3>1, <3>3, <4>1, Products
    <3>6. CASE ReadIDT
      <4>1. StepsLeft = here * Turn + 1 /\ StepsLeft' = CellsFrom(pos + 1) * Turn + Turn
        BY <2>6, <3>1, <3>4, <3>6 DEF ReadIDT, At, Return, StepsLeft, EntriesLeft, LeftOfTurn
      <4>2. CellsFrom(pos + 1) = here - 1 /\ here > 0
        BY <3>3, <3>6 DEF ReadIDT, AtCell, Size
      <4> QED
        BY <3>1, <3>3, <4>1, <4>2, Products
    <3>7. CASE EndTable
      <4>1. /\ StepsLeft = behind * Turn + 2
            /\ StepsLeft' = behind * Turn + 1
        BY <3>1, <3>4, <3>7 DEF EndTable, At, StepsLeft, EntriesLeft, LeftOfTurn
      <4> QED
        BY <3>1, <3>3, <4>1
    <3>8. CASE SeekName \/ ReadNameChunk \/ SeekIAT \/ ReadImport \/ StoreImport
      <4>1. step \in Inner /\ step' \in Inner /\ savedOffset' = savedOffset
        BY <2>6, <3>8 DEF SeekName, ReadNameChunk, SeekIAT, ReadImport, StoreImport, At, SeekRVA,
           Return, Inner, NameSteps, IATSteps
      <4>2. LeftOfTurn \in Nat /\ LeftOfTurn' \in Nat /\ LeftOfTurn' < LeftOfTurn
        <5>1. CASE SeekName
          <6>1. LeftOfTurn = Turn /\ LeftOfTurn' = 4 + 2 * Size + there
            BY <2>6, <3>1, <3>4, <5>1 DEF SeekName, At, SeekRVA, Return, LeftOfTurn
          <6> QED
            BY <3>1, <3>3, <6>1
        <5>2. CASE ReadNameChunk
          <6>1. /\ LeftOfTurn = 4 + 2 * Size + here /\ there = here - 1
                /\ LeftOfTurn' = 4 + 2 * Size + there \/ LeftOfTurn' = 4 + 2 * Size
            BY <3>1, <3>3, <3>4, <5>2 DEF ReadNameChunk, At, AtCell, Size, LeftOfTurn
          <6> QED
            BY <3>1, <3>3, <6>1
        <5>3. CASE SeekIAT
          <6>1. LeftOfTurn = 4 + 2 * Size /\ LeftOfTurn' = 3 + 2 * there
            BY <2>6, <3>1, <3>4, <5>3 DEF SeekIAT, At, SeekRVA, Return, LeftOfTurn
          <6> QED
            BY <3>1, <3>3, <6>1
        <5>4. CASE ReadImport
          <6>1. /\ LeftOfTurn = 3 + 2 * here /\ there = here - 1
                /\ LeftOfTurn' = 4 + 2 * there \/ LeftOfTurn' = 2
            BY <3>1, <3>3, <3>4, <5>4 DEF ReadImport, At, AtCell, Size, LeftOfTurn
          <6> QED
            BY <3>1, <3>3, <6>1
        <5>5. CASE StoreImport
          <6>1. LeftOfTurn = 4 + 2 * here /\ LeftOfTurn' = 3 + 2 * here
            BY <2>6, <3>1, <3>4, <5>5 DEF StoreImport, At, Return, LeftOfTurn
          <6> QED
            BY <3>1, <3>3, <6>1
        <5> QED
          BY <3>8, <5>1, <5>2, <5>3, <5>4, <5>5
      <4>3. /\ StepsLeft = behind * Turn + LeftOfTurn
            /\ StepsLeft' = behind * Turn + LeftOfTurn'
        BY <3>1, <3>4, <4>1 DEF StepsLeft, EntriesLeft, Inner, NameSteps, IATSteps
      <4> QED
        BY <3>1, <3>3, <4>2, <4>3
    <3> QED
      BY <2>3, <2>6, <3>5, <3>6, <3>7, <3>8 DEF Step, NoImports, ReadFails, OutOfMemory, Return
  <2> QED
    BY <2>5, <2>6
<1> QED
  BY <1>1, <1>2, ImportsInvariant, PTL DEF Spec
=============================================================================
