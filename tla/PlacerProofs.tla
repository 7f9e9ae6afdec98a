---------------------------- MODULE PlacerProofs ----------------------------
(***************************************************************************)
(* The layout invariants of Placer, for every page count and every size    *)
(* of the import libraries whose headers fit in 32 bits.                   *)
(***************************************************************************)
EXTENDS Placer, SequenceTheorems, FiniteSetTheorems, TLAPS

-----------------------------------------------------------------------------
(* Alignment.                                                              *)

(* Arithmetic that does not wrap is plain arithmetic.                      *)
LEMMA U32Exact ==
  ASSUME NEW v \in Nat, v < Word
  PROVE  U32(v) = v
BY WordAssumption, SMT DEF U32

(* getNextAligned to 8 moves an offset up by less than 8 and never wraps.  *)
LEMMA Aligned8 ==
  ASSUME NEW x \in Nat, x + 8 < Word
  PROVE  /\ getNextAligned(x, 8) \in Nat
         /\ x <= getNextAligned(x, 8)
         /\ getNextAligned(x, 8) <= x + 7
<1>1. x % 8 \in 0 .. 7
  OBVIOUS
<1>2. CASE x % 8 = 0
  BY <1>2 DEF getNextAligned
<1>3. CASE x % 8 # 0
  <2>1. x + (8 - (x % 8)) \in Nat /\ x + (8 - (x % 8)) < Word
    BY <1>1, WordAssumption
  <2>2. getNextAligned(x, 8) = x + (8 - (x % 8))
    BY <1>3, <2>1, U32Exact DEF getNextAligned
  <2> QED
    BY <1>1, <1>3, <2>2
<1> QED
  BY <1>2, <1>3

(* getNextAligned to a page moves an offset up to the next page boundary.  *)
LEMMA Aligned4096 ==
  ASSUME NEW x \in Nat, x + 4096 < Word
  PROVE  /\ getNextAligned(x, 4096) \in Nat
         /\ x <= getNextAligned(x, 4096)
         /\ getNextAligned(x, 4096) <= x + 4095
         /\ getNextAligned(x, 4096) % 4096 = 0
<1>1. x % 4096 \in 0 .. 4095
  OBVIOUS
<1>2. CASE x % 4096 = 0
  BY <1>2 DEF getNextAligned
<1>3. CASE x % 4096 # 0
  <2>1. x + (4096 - (x % 4096)) \in Nat /\ x + (4096 - (x % 4096)) < Word
    BY <1>1, WordAssumption
  <2>2. getNextAligned(x, 4096) = x + (4096 - (x % 4096))
    BY <1>3, <2>1, U32Exact DEF getNextAligned
  <2>3. (x + (4096 - (x % 4096))) % 4096 = 0
    OBVIOUS
  <2> QED
    BY <1>1, <1>3, <2>2, <2>3
<1> QED
  BY <1>2, <1>3

-----------------------------------------------------------------------------
(* The entries.                                                            *)

(* Where each id sits, and that none sits twice.                           *)
LEMMA IdPlaces ==
  ASSUME NEW l \in ImportLibraries
  PROVE  /\ l.tableCount > 0 => Len(OptHeaderIds(l)) = 5
         /\ ~(l.tableCount > 0) => Len(OptHeaderIds(l)) = 4
         /\ DOMAIN OptHeaderIds(l) = 1 .. Len(OptHeaderIds(l))
         /\ \A a \in DOMAIN OptHeaderIds(l) : OptHeaderIds(l)[a] \in OptHeaderIdSet
         /\ \A a, b \in DOMAIN OptHeaderIds(l) :
              OptHeaderIds(l)[a] = OptHeaderIds(l)[b] => a = b
         /\ l.tableCount > 0 => OptHeaderIds(l)[3] = XEX_OPT_ID_IMPORT_LIBS
         /\ \A a \in DOMAIN OptHeaderIds(l) :
              OptHeaderIds(l)[a] = XEX_OPT_ID_IMPORT_LIBS => l.tableCount > 0 /\ a = 3
<1> DEFINE ids == OptHeaderIds(l)
<1> USE DEF XEX_OPT_ID_BASEFILE_FORMAT, XEX_OPT_ID_ENTRYPOINT,
            XEX_OPT_ID_IMPORT_LIBS, XEX_OPT_ID_TLS_INFO, XEX_OPT_ID_SYS_FLAGS
<1>1. CASE l.tableCount > 0
  <2>1. ids = <<1023, 65792, 66559, 131332, 196608>>
    BY <1>1 DEF OptHeaderIds
  <2>2. /\ Len(ids) = 5 /\ DOMAIN ids = 1 .. 5
        /\ ids[1] = 1023 /\ ids[2] = 65792 /\ ids[3] = 66559
        /\ ids[4] = 131332 /\ ids[5] = 196608
    BY <2>1
  <2> HIDE DEF ids
  <2>3. \A a \in 1 .. 5 : a = 1 \/ a = 2 \/ a = 3 \/ a = 4 \/ a = 5
    OBVIOUS
  <2> QED
    BY <1>1, <2>2, <2>3 DEF OptHeaderIdSet, ids
<1>2. CASE ~(l.tableCount > 0)
  <2>1. ids = <<1023, 65792, 131332, 196608>>
    BY <1>2 DEF OptHeaderIds
  <2>2. /\ Len(ids) = 4 /\ DOMAIN ids = 1 .. 4
        /\ ids[1] = 1023 /\ ids[2] = 65792 /\ ids[3] = 131332 /\ ids[4] = 196608
    BY <2>1
  <2> HIDE DEF ids
  <2>3. \A a \in 1 .. 4 : a = 1 \/ a = 2 \/ a = 3 \/ a = 4
    OBVIOUS
  <2> QED
    BY <1>2, <2>2, <2>3 DEF OptHeaderIdSet, ids
<1> QED
  BY <1>1, <1>2

(* How much the separate headers take, whatever the libraries.             *)
LEMMA SeparateSizes ==
  /\ \A id \in OptHeaderIdSet : SeparateSize(id) \in {0, 16}
  /\ ~IsSeparate(XEX_OPT_ID_IMPORT_LIBS)
BY DEF OptHeaderIdSet, SeparateSize, IsSeparate, SizeofBasefileFormat, SizeofTlsInfo,
       XEX_OPT_ID_BASEFILE_FORMAT, XEX_OPT_ID_ENTRYPOINT,
       XEX_OPT_ID_IMPORT_LIBS, XEX_OPT_ID_TLS_INFO, XEX_OPT_ID_SYS_FLAGS

-----------------------------------------------------------------------------
(***************************************************************************)
(* The inductive invariant.  HeadersPlaced bounds where the loop starts;   *)
(* LoopInv says that the headers placed so far lie in order between there  *)
(* and currentOffset, which has moved at most 24 bytes per entry (so it    *)
(* never wraps); BasefilePlaced says the imports still fit above them all. *)
(***************************************************************************)
SepStart(k) == entries[k].dataOrOffset
SepEnd(k)   == SepStart(k) + SeparateSize(entries[k].id)
Separates   == {k \in DOMAIN entries : IsSeparate(entries[k].id)}

HeadersPlaced ==
  /\ offsets.optHeaderEntries = 24
  /\ xexHeader.secInfoOffset = offsets.secInfoHeader
  /\ 24 + 8 * Len(entries) <= offsets.secInfoHeader
  /\ offsets.secInfoHeader <= 24 + 8 * Len(entries) + 7

InOrder(top) ==
  /\ \A k \in Separates : k < i => FixedEnd <= SepStart(k) /\ SepEnd(k) <= top
  /\ \A k, m \in Separates : k < m /\ m < i => SepEnd(k) <= SepStart(m)

ImportsRemembered ==
  lib.tableCount > 0 /\ i > 3 =>
    importLibIdcs.entry = 3 /\ importLibIdcs.header \in 1 .. Len(entries)

LoopInv ==
  /\ FixedEnd <= currentOffset
  /\ currentOffset <= FixedEnd + 24 * (i - 1)
  /\ InOrder(currentOffset)
  /\ ImportsRemembered

BasefilePlaced ==
  /\ i = Len(entries) + 1
  /\ xexHeader.peOffset = offsets.basefile
  /\ offsets.basefile % 4096 = 0 /\ offsets.basefile < Word
  /\ FixedEnd + lib.size <= offsets.basefile
  /\ InOrder(offsets.basefile - lib.size)
  /\ ImportsRemembered

LayoutInv ==
  /\ PlacerTypeOK
  /\ pc = "placeStructs" => i = 1 /\ sepHeader = 1
  /\ pc \in {"calloc", "loop", "imports", "placed"} => HeadersPlaced
  /\ pc = "calloc" => i = 1 /\ currentOffset = FixedEnd
  /\ pc \in {"calloc", "loop"} => LoopInv
  /\ pc \in {"loop", "imports", "placed"} => Len(offsets.optHeaders) = Len(entries)
  /\ pc \in {"imports", "placed"} => BasefilePlaced
  /\ pc = "placed" /\ lib.tableCount > 0 => SepStart(3) = offsets.basefile - lib.size

-----------------------------------------------------------------------------
(* What type correctness gives every step: the shape of the entries.       *)
LEMMA EntryFacts ==
  ASSUME PlacerTypeOK
  PROVE  /\ DOMAIN entries = 1 .. Len(entries)
         /\ Len(entries) \in Nat /\ 4 <= Len(entries) /\ Len(entries) <= 5
         /\ lib.tableCount > 0 => Len(entries) = 5
         /\ \A k \in DOMAIN entries : /\ entries[k].id \in OptHeaderIdSet
                                      /\ SepStart(k) \in Nat
                                      /\ SeparateSize(entries[k].id) \in {0, 16}
         /\ \A a, b \in DOMAIN entries : entries[a].id = entries[b].id => a = b
         /\ lib.tableCount > 0 => entries[3].id = XEX_OPT_ID_IMPORT_LIBS
         /\ \A k \in DOMAIN entries :
              entries[k].id = XEX_OPT_ID_IMPORT_LIBS => lib.tableCount > 0 /\ k = 3
<1>1. /\ lib \in ImportLibraries
      /\ entries \in Seq([id : OptHeaderIdSet, dataOrOffset : Nat])
      /\ Len(entries) = Len(OptHeaderIds(lib))
      /\ \A k \in DOMAIN entries : entries[k].id = OptHeaderIds(lib)[k]
  BY DEF PlacerTypeOK
<1>2. DOMAIN entries = 1 .. Len(entries)
  BY <1>1
<1>3. DOMAIN OptHeaderIds(lib) = DOMAIN entries
  BY <1>1, <1>2, IdPlaces
<1>4. \A k \in DOMAIN entries : entries[k] \in [id : OptHeaderIdSet, dataOrOffset : Nat]
  BY <1>1, <1>2, ElementOfSeq
<1>5. /\ Len(entries) \in Nat /\ 4 <= Len(entries) /\ Len(entries) <= 5
      /\ lib.tableCount > 0 => Len(entries) = 5
  <2>1. lib.tableCount > 0 => Len(entries) = 5
    BY <1>1, IdPlaces
  <2>2. ~(lib.tableCount > 0) => Len(entries) = 4
    BY <1>1, IdPlaces
  <2>3. Len(entries) = 4 \/ Len(entries) = 5
    BY <2>1, <2>2, Zenon
  <2>4. Len(entries) \in Nat /\ 4 <= Len(entries) /\ Len(entries) <= 5
    <3>1. \A n : n = 4 \/ n = 5 => n \in Nat /\ 4 <= n /\ n <= 5
      OBVIOUS
    <3> QED
      BY <2>3, <3>1, Zenon
  <2> QED
    BY <2>1, <2>4, Zenon
<1>6. \A k \in DOMAIN entries : /\ entries[k].id \in OptHeaderIdSet
                                /\ SepStart(k) \in Nat
  BY <1>4 DEF SepStart
<1>7. \A k \in DOMAIN entries : SeparateSize(entries[k].id) \in {0, 16}
  BY <1>6, SeparateSizes
<1>8. \A a, b \in DOMAIN entries : entries[a].id = entries[b].id => a = b
  <2>1. \A a, b \in DOMAIN entries : OptHeaderIds(lib)[a] = OptHeaderIds(lib)[b] => a = b
    BY <1>1, <1>3, IdPlaces, Zenon
  <2> QED
    BY <1>1, <2>1, Zenon
<1>9. lib.tableCount > 0 => entries[3].id = XEX_OPT_ID_IMPORT_LIBS
  BY <1>1, <1>2, <1>5, IdPlaces
<1>10. \A k \in DOMAIN entries :
         entries[k].id = XEX_OPT_ID_IMPORT_LIBS => lib.tableCount > 0 /\ k = 3
  BY <1>1, <1>3, IdPlaces
<1> QED
  BY <1>2, <1>5, <1>6, <1>7, <1>8, <1>9, <1>10

(* The bounds that keep the arithmetic of a layout from wrapping.          *)
LEMMA Bounds ==
  ASSUME PlacerTypeOK
  PROVE  /\ pageDescCount \in Nat /\ lib.size \in Nat /\ lib.tableCount \in Nat
         /\ lib.tableCount = 0 => lib.size = 0
         /\ 5000 + pageDescCount * 24 + lib.size < Word
         /\ Word \in Nat
BY PlacerAssumption, WordAssumption DEF PlacerTypeOK, Footprint, SizeofPageDescriptor

(* The placer starts in the invariant.                                     *)
THEOREM InitLayout == PlacerInit => LayoutInv
<1> SUFFICES ASSUME PlacerInit PROVE LayoutInv
  OBVIOUS
<1> USE DEF PlacerInit
<1>1. /\ Len(OptHeaderIds(lib)) \in Nat
      /\ DOMAIN OptHeaderIds(lib) = 1 .. Len(OptHeaderIds(lib))
      /\ \A k \in DOMAIN OptHeaderIds(lib) : OptHeaderIds(lib)[k] \in OptHeaderIdSet
  BY IdPlaces
<1>2. /\ entries \in Seq([id : OptHeaderIdSet, dataOrOffset : Nat])
      /\ Len(entries) = Len(OptHeaderIds(lib))
  BY <1>1
<1>3. \A k \in DOMAIN entries : entries[k].id = OptHeaderIds(lib)[k]
  OBVIOUS
<1>4. offsets \in [xexHeader : {0}, optHeaderEntries : Nat, secInfoHeader : Nat,
                  optHeaders : Seq(Nat), basefile : Nat]
      /\ Len(offsets.optHeaders) = 0
  OBVIOUS
<1>5. PlacerTypeOK
  BY <1>1, <1>2, <1>3, <1>4 DEF PlacerTypeOK, Uninitialised
<1> QED
  BY <1>5 DEF LayoutInv

(* The headers of fixed place end well below the bound on the footprint.   *)
LEMMA FixedEndBound ==
  ASSUME PlacerTypeOK, HeadersPlaced
  PROVE  FixedEnd \in Nat /\ FixedEnd <= 459 + pageDescCount * 24
<1>1. offsets.secInfoHeader \in Nat
  BY DEF PlacerTypeOK
<1>2. offsets.secInfoHeader <= 71
  BY <1>1, EntryFacts DEF HeadersPlaced
<1> QED
  BY <1>1, <1>2, Bounds DEF FixedEnd, SizeofSecInfoHeader, SizeofPageDescriptor

(* Storing an offset in one entry leaves the rest of the table alone.      *)
LEMMA EntryStored ==
  ASSUME PlacerTypeOK, NEW n \in DOMAIN entries, NEW at \in Nat,
         entries' = [entries EXCEPT ![n].dataOrOffset = at], UNCHANGED lib
  PROVE  /\ entries' \in Seq([id : OptHeaderIdSet, dataOrOffset : Nat])
         /\ Len(entries') = Len(entries) /\ DOMAIN entries' = DOMAIN entries
         /\ \A k \in DOMAIN entries : /\ entries'[k].id = entries[k].id
                                      /\ k # n => entries'[k] = entries[k]
         /\ entries'[n].dataOrOffset = at
<1>1. entries \in Seq([id : OptHeaderIdSet, dataOrOffset : Nat])
  BY DEF PlacerTypeOK
<1>2. \A k \in DOMAIN entries : entries[k] \in [id : OptHeaderIdSet, dataOrOffset : Nat]
  BY <1>1, EntryFacts, ElementOfSeq
<1>3. [entries[n] EXCEPT !.dataOrOffset = at] \in [id : OptHeaderIdSet, dataOrOffset : Nat]
  BY <1>2
<1> QED
  BY <1>1, <1>2, <1>3, EntryFacts

(* Every action of the placer keeps the invariant.                         *)
THEOREM NextLayout == LayoutInv /\ [PlacerNext]_placerVars => LayoutInv'
<1> SUFFICES ASSUME LayoutInv, [PlacerNext]_placerVars
             PROVE  LayoutInv'
  OBVIOUS
<1>0. PlacerTypeOK
  BY DEF LayoutInv
<1>a. /\ pageDescCount \in Nat /\ lib.size \in Nat /\ lib.tableCount \in Nat
      /\ lib.tableCount = 0 => lib.size = 0
      /\ 5000 + pageDescCount * 24 + lib.size < Word
      /\ Word \in Nat
  BY <1>0, Bounds
<1>b. /\ Len(entries) \in Nat /\ 4 <= Len(entries) /\ Len(entries) <= 5
      /\ DOMAIN entries = 1 .. Len(entries)
  BY <1>0, EntryFacts
<1>1. CASE PlaceHeaders
  <2> DEFINE secInfoAt == getNextAligned(24 + 8 * Len(entries), 8)
             end       == secInfoAt + 388 + pageDescCount * 24
  <2>1. i = 1 /\ sepHeader = 1
    BY <1>1 DEF LayoutInv, PlaceHeaders
  <2>2. U32(24 + Len(entries) * 8) = 24 + 8 * Len(entries)
    <3>1. 24 + Len(entries) * 8 \in Nat /\ 24 + Len(entries) * 8 < Word
      BY <1>a, <1>b
    <3> QED
      BY <1>b, <3>1, U32Exact
  <2>3. secInfoAt \in Nat /\ 24 + 8 * Len(entries) <= secInfoAt
        /\ secInfoAt <= 24 + 8 * Len(entries) + 7
    <3>1. 24 + 8 * Len(entries) \in Nat /\ 24 + 8 * Len(entries) + 8 < Word
      BY <1>a, <1>b
    <3> QED
      BY <3>1, Aligned8
  <2>4. end \in Nat /\ U32(end) = end
    <3> HIDE DEF secInfoAt
    <3>1. end \in Nat /\ end < Word
      BY <1>a, <1>b, <2>3
    <3> QED
      BY <3>1, U32Exact
  <2> HIDE DEF secInfoAt
  <2>5. /\ offsets' = [offsets EXCEPT !.xexHeader = 0, !.optHeaderEntries = 24,
                                      !.secInfoHeader = secInfoAt]
        /\ xexHeader' = [xexHeader EXCEPT !.secInfoOffset = secInfoAt]
        /\ currentOffset' = end
        /\ pc' = "calloc"
        /\ UNCHANGED <<placerInputs, entries, i, sepHeader, importLibIdcs>>
    BY <1>1, <2>2, <2>4 DEF PlaceHeaders, SizeofXexHeader, SizeofOptHeaderEntry,
       SizeofSecInfoHeader, SizeofPageDescriptor, secInfoAt
  <2> HIDE DEF end
  <2>7. PlacerTypeOK'
    BY <1>0, <2>1, <2>3, <2>4, <2>5 DEF PlacerTypeOK, placerInputs
  <2>8. HeadersPlaced'
    BY <1>0, <2>3, <2>5 DEF HeadersPlaced, PlacerTypeOK, placerInputs
  <2>9. currentOffset' = FixedEnd'
    BY <1>0, <2>5 DEF FixedEnd, SizeofSecInfoHeader, SizeofPageDescriptor, PlacerTypeOK,
       placerInputs, end
  <2>10. FixedEnd' \in Nat
    BY <2>4, <2>5, <2>9
  <2>11. LoopInv'
    BY <1>b, <2>1, <2>5, <2>9, <2>10
       DEF LoopInv, InOrder, ImportsRemembered, Separates
  <2> QED
    BY <2>1, <2>5, <2>7, <2>8, <2>9, <2>11 DEF LayoutInv
<1>2. CASE AllocOptHeaders
  <2>1. /\ pc = "calloc"
        /\ UNCHANGED <<placerInputs, entries, xexHeader, currentOffset, i, sepHeader,
                       importLibIdcs>>
    BY <1>2 DEF AllocOptHeaders
  <2>2. CASE pc' = "outOfMem" /\ UNCHANGED offsets
    BY <1>0, <2>1, <2>2 DEF LayoutInv, PlacerTypeOK, placerInputs
  <2>3. CASE /\ pc' = "loop"
             /\ offsets' = [offsets EXCEPT !.optHeaders = [k \in DOMAIN entries |-> 0]]
    <3>1. /\ [k \in DOMAIN entries |-> 0] \in Seq(Nat)
          /\ Len([k \in DOMAIN entries |-> 0]) = Len(entries)
      BY <1>b
    <3>2. PlacerTypeOK'
      BY <1>0, <2>1, <2>3, <3>1 DEF PlacerTypeOK, placerInputs
    <3>3. HeadersPlaced'
      BY <1>0, <2>1, <2>3 DEF LayoutInv, HeadersPlaced, PlacerTypeOK, placerInputs
    <3>4. LoopInv'
      BY <1>0, <2>1, <2>3 DEF LayoutInv, LoopInv, InOrder, ImportsRemembered, Separates,
         SepStart, SepEnd, FixedEnd, PlacerTypeOK, placerInputs
    <3>5. Len(offsets'.optHeaders) = Len(entries')
      BY <1>0, <2>1, <2>3, <3>1 DEF PlacerTypeOK
    <3> QED
      BY <2>3, <3>2, <3>3, <3>4, <3>5 DEF LayoutInv
  <2> QED
    BY <1>2, <2>2, <2>3 DEF AllocOptHeaders
(* What the loop knows at the top of a turn.                               *)
<1>c. ASSUME pc = "loop", i <= Len(entries)
      PROVE  /\ i \in DOMAIN entries /\ sepHeader \in 1 .. i
             /\ FixedEnd \in Nat /\ FixedEnd <= currentOffset
             /\ getNextAligned(currentOffset, 8) \in Nat
             /\ currentOffset <= getNextAligned(currentOffset, 8)
             /\ getNextAligned(currentOffset, 8) <= FixedEnd + 24 * (i - 1) + 7
             /\ getNextAligned(currentOffset, 8) + 16 < Word
  <2> DEFINE at == getNextAligned(currentOffset, 8)
  <2>1. /\ HeadersPlaced /\ LoopInv
        /\ currentOffset \in Nat /\ i \in 1 .. Len(entries) /\ sepHeader \in 1 .. i
    BY <1>0, <1>b, <1>c DEF LayoutInv, PlacerTypeOK
  <2>2. FixedEnd \in Nat /\ FixedEnd <= 459 + pageDescCount * 24
    BY <1>0, <2>1, FixedEndBound
  <2>3. currentOffset + 40 < Word
    BY <1>a, <1>b, <2>1, <2>2 DEF LoopInv
  <2>4. /\ at \in Nat /\ currentOffset <= at /\ at <= currentOffset + 7
    <3>1. currentOffset \in Nat /\ currentOffset + 8 < Word
      BY <1>a, <2>1, <2>3
    <3> QED
      BY <3>1, Aligned8
  <2> HIDE DEF at
  <2>5. at <= FixedEnd + 24 * (i - 1) + 7 /\ at + 16 < Word
    BY <1>a, <1>b, <2>1, <2>2, <2>3, <2>4 DEF LoopInv
  <2> QED
    BY <1>b, <2>1, <2>2, <2>4, <2>5 DEF LoopInv, at
<1>3. ASSUME NEW id \in OptHeaderIdSet, PlaceSeparateHeader(id)
      PROVE  LayoutInv'
  <2> DEFINE at == getNextAligned(currentOffset, 8)
  <2>1. /\ pc = "loop" /\ i <= Len(entries) /\ entries[i].id = id
        /\ SeparateSize(id) = 16 /\ id # XEX_OPT_ID_IMPORT_LIBS
    BY <1>3, SeparateSizes DEF PlaceSeparateHeader, NextEntry, IsSeparate
  <2>2. /\ i \in DOMAIN entries /\ sepHeader \in 1 .. i
        /\ FixedEnd \in Nat /\ FixedEnd <= currentOffset
        /\ at \in Nat /\ currentOffset <= at /\ at <= FixedEnd + 24 * (i - 1) + 7
        /\ U32(at + 16) = at + 16
    BY <1>c, <2>1, U32Exact
  <2> HIDE DEF at
  <2>3. /\ entries' = [entries EXCEPT ![i].dataOrOffset = at]
        /\ offsets' = [offsets EXCEPT !.optHeaders[sepHeader] = at]
        /\ currentOffset' = at + 16
        /\ i' = i + 1 /\ sepHeader' = sepHeader + 1
        /\ UNCHANGED <<placerInputs, pc, xexHeader, importLibIdcs>>
    BY <1>3, <2>1, <2>2 DEF PlaceSeparateHeader, NextEntry, at
  <2>4. /\ entries' \in Seq([id : OptHeaderIdSet, dataOrOffset : Nat])
        /\ Len(entries') = Len(entries) /\ DOMAIN entries' = DOMAIN entries
        /\ \A k \in DOMAIN entries : /\ entries'[k].id = entries[k].id
                                     /\ k # i => entries'[k] = entries[k]
        /\ entries'[i].dataOrOffset = at
    BY <1>0, <2>2, <2>3, EntryStored DEF placerInputs
  <2>5. /\ offsets.optHeaders \in Seq(Nat) /\ i \in Nat
        /\ offsets'.optHeaders = [offsets.optHeaders EXCEPT ![sepHeader] = at]
        /\ offsets'.optHeaders \in Seq(Nat)
        /\ Len(offsets'.optHeaders) = Len(entries)
    <3>1. /\ offsets.optHeaders \in Seq(Nat) /\ i \in Nat
          /\ Len(offsets.optHeaders) = Len(entries)
          /\ offsets'.optHeaders = [offsets.optHeaders EXCEPT ![sepHeader] = at]
      BY <1>0, <2>1, <2>3 DEF LayoutInv, PlacerTypeOK
    <3>2. sepHeader \in 1 .. Len(offsets.optHeaders)
      BY <1>b, <2>2, <3>1
    <3> QED
      BY <2>2, <3>1, <3>2, ExceptSeq
  <2>6. PlacerTypeOK'
    <3>1. /\ offsets' \in [xexHeader : {0}, optHeaderEntries : Nat, secInfoHeader : Nat,
                           optHeaders : Seq(Nat), basefile : Nat]
          /\ Len(offsets'.optHeaders) \in {0, Len(entries')}
      BY <1>0, <2>3, <2>4, <2>5 DEF PlacerTypeOK
    <3>2. \A k \in DOMAIN entries' : entries'[k].id = OptHeaderIds(lib')[k]
      BY <1>0, <2>3, <2>4 DEF PlacerTypeOK, placerInputs
    <3>3. currentOffset' \in Nat
      BY <2>2, <2>3
    <3>4. i' \in 1 .. Len(entries') + 1 /\ sepHeader' \in 1 .. i'
      <4>1. i \in 1 .. Len(entries) /\ Len(entries) \in Nat /\ sepHeader \in 1 .. i
        BY <1>b, <2>2
      <4>2. i' = i + 1 /\ sepHeader' = sepHeader + 1 /\ Len(entries') = Len(entries)
        BY <2>3, <2>4
      <4> QED
        BY <4>1, <4>2
    <3> QED
      BY <1>0, <2>3, <2>4, <3>1, <3>2, <3>3, <3>4 DEF PlacerTypeOK, placerInputs
  <2>7. HeadersPlaced' /\ UNCHANGED FixedEnd
    BY <1>0, <2>1, <2>3, <2>4 DEF LayoutInv, HeadersPlaced, FixedEnd, PlacerTypeOK, placerInputs
  <2>8. LoopInv'
    <3>1. /\ InOrder(currentOffset) /\ currentOffset \in Nat
          /\ ImportsRemembered
          /\ i # 3 \/ ~(lib.tableCount > 0)
      BY <1>0, <2>1, EntryFacts DEF LayoutInv, LoopInv, PlacerTypeOK
    <3>2. FixedEnd' <= currentOffset' /\ currentOffset' <= FixedEnd' + 24 * (i' - 1)
      <4>1. /\ FixedEnd' = FixedEnd /\ currentOffset' = at + 16 /\ i' = i + 1
            /\ FixedEnd \in Nat /\ at \in Nat /\ i \in Nat /\ currentOffset \in Nat
            /\ FixedEnd <= currentOffset /\ currentOffset <= at
            /\ at <= FixedEnd + 24 * (i - 1) + 7
        BY <2>2, <2>3, <2>5, <2>7, <3>1
      <4> QED
        BY <4>1
    <3>3. /\ Separates' = Separates /\ Separates \subseteq DOMAIN entries
          /\ \A k \in DOMAIN entries :
                k = i => SepStart(k)' = at /\ SepEnd(k)' = at + 16
          /\ \A k \in DOMAIN entries :
                k # i => SepStart(k)' = SepStart(k) /\ SepEnd(k)' = SepEnd(k)
      <4>1. Separates' = Separates /\ Separates \subseteq DOMAIN entries
        BY <2>4 DEF Separates
      <4>2. \A k \in DOMAIN entries :
              k = i => SepStart(k)' = at /\ SepEnd(k)' = at + 16
        BY <2>1, <2>2, <2>4 DEF SepStart, SepEnd
      <4>3. \A k \in DOMAIN entries :
              k # i => SepStart(k)' = SepStart(k) /\ SepEnd(k)' = SepEnd(k)
        BY <2>4 DEF SepStart, SepEnd
      <4> QED
        BY <4>1, <4>2, <4>3
    <3>4. /\ \A k \in Separates : k \in Nat /\ SepEnd(k) \in Nat
          /\ \A k \in Separates : k < i => SepEnd(k) <= currentOffset
      <4>1. \A k \in Separates : k \in Nat /\ SepEnd(k) \in Nat
        BY <1>0, <1>b, EntryFacts DEF Separates, SepEnd
      <4>2. \A k \in Separates : k < i => SepEnd(k) <= currentOffset
        BY <3>1 DEF InOrder
      <4> QED
        BY <4>1, <4>2
    <3>5. InOrder(currentOffset)'
      <4>0. i' = i + 1 /\ i \in Nat
        BY <2>3, <2>5
      <4>1. ASSUME NEW k \in Separates, k < i'
            PROVE  FixedEnd' <= SepStart(k)' /\ SepEnd(k)' <= currentOffset'
        <5>1. CASE k = i
          BY <2>2, <2>3, <2>7, <3>1, <3>3, <5>1
        <5>2. CASE k # i
          <6>1. k \in Nat /\ i \in Nat /\ k < i + 1
            BY <3>4, <4>0, <4>1
          <6>2. k < i
            BY <5>2, <6>1
          <6>3. SepEnd(k) \in Nat /\ SepEnd(k) <= currentOffset
            BY <3>4, <6>2
          <6>4. FixedEnd <= SepStart(k)
            BY <3>1, <6>2 DEF InOrder
          <6> QED
            BY <2>2, <2>3, <2>7, <3>1, <3>3, <5>2, <6>3, <6>4
        <5> QED
          BY <5>1, <5>2
      <4>2. ASSUME NEW k \in Separates, NEW m \in Separates, k < m, m < i'
            PROVE  SepEnd(k)' <= SepStart(m)'
        <5>a. k \in Nat /\ m \in Nat /\ i \in Nat /\ k < m /\ m < i + 1
          BY <3>4, <4>0, <4>2
        <5>b. k < i /\ k # i /\ (m # i => m < i)
          BY <5>a
        <5>1. k < i /\ k # i /\ SepEnd(k) \in Nat /\ SepEnd(k) <= currentOffset
          BY <3>4, <5>b
        <5>2. CASE m = i
          BY <2>2, <2>3, <3>1, <3>3, <5>1, <5>2
        <5>3. CASE m # i
          BY <3>1, <3>3, <4>2, <5>1, <5>3, <5>b DEF InOrder
        <5> QED
          BY <5>2, <5>3
      <4> QED
        BY <3>3, <4>1, <4>2 DEF InOrder
    <3>6. ImportsRemembered'
      <4>1. i' > 3 /\ lib.tableCount > 0 => i > 3
        BY <2>3, <2>5, <3>1
      <4>2. UNCHANGED <<lib, importLibIdcs>> /\ Len(entries') = Len(entries)
        BY <2>3, <2>4 DEF placerInputs
      <4> QED
        BY <3>1, <4>1, <4>2 DEF ImportsRemembered
    <3> QED
      BY <3>2, <3>5, <3>6 DEF LoopInv
  <2> QED
    BY <2>1, <2>3, <2>4, <2>5, <2>6, <2>7, <2>8 DEF LayoutInv
(* A turn that places nothing: only the offset is aligned.                 *)
<1>d. ASSUME pc = "loop", i <= Len(entries), ~IsSeparate(entries[i].id),
             i' = i + 1, sepHeader' \in 1 .. i', importLibIdcs' \in [header : Nat, entry : Nat],
             currentOffset' = getNextAligned(currentOffset, 8),
             UNCHANGED <<placerInputs, pc, xexHeader, entries, offsets>>,
             ImportsRemembered'
      PROVE  LayoutInv'
  <2>1. /\ i \in 1 .. Len(entries) /\ i \in Nat /\ currentOffset \in Nat
        /\ FixedEnd \in Nat /\ FixedEnd <= currentOffset
        /\ currentOffset' \in Nat /\ currentOffset <= currentOffset'
        /\ currentOffset' <= FixedEnd + 24 * (i - 1) + 7
    BY <1>0, <1>b, <1>c, <1>d DEF PlacerTypeOK
  <2>2. PlacerTypeOK'
    <3>1. i' \in 1 .. Len(entries) + 1
      BY <1>b, <1>d, <2>1
    <3> QED
      BY <1>0, <1>d, <2>1, <3>1 DEF PlacerTypeOK, placerInputs
  <2>3. HeadersPlaced' /\ UNCHANGED FixedEnd
    BY <1>d DEF LayoutInv, HeadersPlaced, FixedEnd, placerInputs
  <2>4. InOrder(currentOffset)'
    <3>1. /\ Separates' = Separates /\ i \notin Separates
          /\ \A k \in Separates : k \in Nat /\ SepEnd(k) \in Nat
          /\ \A k \in Separates : SepStart(k)' = SepStart(k) /\ SepEnd(k)' = SepEnd(k)
      BY <1>0, <1>b, <1>d, EntryFacts DEF Separates, SepStart, SepEnd
    <3>2. InOrder(currentOffset)
      BY <1>d DEF LayoutInv, LoopInv
    <3>3. \A k \in Separates : k < i' => k < i
      <4>1. TAKE k \in Separates
      <4>2. k \in Nat /\ i \in Nat /\ k # i /\ i' = i + 1
        BY <1>d, <2>1, <3>1
      <4> QED
        BY <4>2
    <3>4. \A k \in Separates : k < i' => SepEnd(k) <= currentOffset'
      <4>1. TAKE k \in Separates
      <4>2. HAVE k < i'
      <4>3. SepEnd(k) \in Nat /\ SepEnd(k) <= currentOffset
        BY <3>1, <3>2, <3>3, <4>2 DEF InOrder
      <4> QED
        BY <2>1, <4>3
    <3> QED
      BY <2>3, <3>1, <3>2, <3>3, <3>4 DEF InOrder
  <2>5. FixedEnd' <= currentOffset' /\ currentOffset' <= FixedEnd' + 24 * (i' - 1)
    <3>1. FixedEnd' = FixedEnd /\ i' = i + 1
      BY <1>d, <2>3
    <3> QED
      BY <2>1, <3>1
  <2>6. LoopInv'
    BY <1>d, <2>4, <2>5 DEF LoopInv
  <2> QED
    BY <1>d, <2>2, <2>3, <2>6 DEF LayoutInv
<1>4. ASSUME NEW id \in OptHeaderIdSet, ReserveImportHeader(id)
      PROVE  LayoutInv'
  <2>1. /\ pc = "loop" /\ i <= Len(entries) /\ entries[i].id = XEX_OPT_ID_IMPORT_LIBS
        /\ i' = i + 1 /\ sepHeader' = sepHeader + 1
        /\ importLibIdcs' = [header |-> sepHeader, entry |-> i]
        /\ currentOffset' = getNextAligned(currentOffset, 8)
        /\ UNCHANGED <<placerInputs, pc, xexHeader, entries, offsets>>
    BY <1>4 DEF ReserveImportHeader, NextEntry
  <2>2. i \in 1 .. Len(entries) /\ sepHeader \in 1 .. i /\ i = 3
    BY <1>0, <1>b, <1>c, <2>1, EntryFacts
  <2>3. sepHeader' \in 1 .. i' /\ importLibIdcs' \in [header : Nat, entry : Nat]
    BY <2>1, <2>2
  <2>4. sepHeader \in 1 .. Len(entries)
    BY <1>b, <2>2
  <2>5. ImportsRemembered'
    BY <2>1, <2>2, <2>4 DEF ImportsRemembered
  <2> QED
    BY <1>d, <2>1, <2>3, <2>5, SeparateSizes
<1>5. ASSUME NEW id \in OptHeaderIdSet, SkipInlineHeader(id)
      PROVE  LayoutInv'
  <2>1. /\ pc = "loop" /\ i <= Len(entries) /\ ~IsSeparate(entries[i].id)
        /\ entries[i].id # XEX_OPT_ID_IMPORT_LIBS
        /\ i' = i + 1 /\ currentOffset' = getNextAligned(currentOffset, 8)
        /\ UNCHANGED <<placerInputs, pc, xexHeader, entries, offsets, sepHeader,
                       importLibIdcs>>
    BY <1>5 DEF SkipInlineHeader, NextEntry
  <2>2. /\ i \in 1 .. Len(entries) /\ i \in Nat /\ sepHeader \in 1 .. i
        /\ lib.tableCount > 0 => i # 3
    <3>1. i \in 1 .. Len(entries) /\ i \in Nat /\ sepHeader \in 1 .. i
      BY <1>b, <1>c, <2>1
    <3>2. lib.tableCount > 0 => i # 3
      BY <1>0, <2>1, EntryFacts
    <3> QED
      BY <3>1, <3>2
  <2>3. sepHeader' \in 1 .. i' /\ importLibIdcs' \in [header : Nat, entry : Nat]
    BY <1>0, <2>1, <2>2 DEF PlacerTypeOK
  <2>4. ImportsRemembered'
    <3>1. i' > 3 /\ i # 3 => i > 3
      BY <2>1, <2>2
    <3>2. ImportsRemembered
      BY <2>1 DEF LayoutInv, LoopInv
    <3> QED
      BY <2>1, <2>2, <3>1, <3>2 DEF ImportsRemembered, placerInputs
  <2> QED
    BY <1>d, <2>1, <2>3, <2>4
<1>6. CASE PlaceBasefile
  <2> DEFINE end == currentOffset + lib.size
             at  == getNextAligned(end, 4096)
  <2>1. /\ pc = "loop" /\ i = Len(entries) + 1
        /\ HeadersPlaced /\ LoopInv /\ currentOffset \in Nat
    BY <1>0, <1>6, <1>b DEF PlaceBasefile, LayoutInv, PlacerTypeOK
  <2>2. FixedEnd \in Nat /\ FixedEnd <= 459 + pageDescCount * 24 /\ FixedEnd <= currentOffset
    BY <1>0, <2>1, FixedEndBound DEF LoopInv
  <2>3. currentOffset <= FixedEnd + 24 * 5
    BY <1>b, <2>1, <2>2 DEF LoopInv
  <2>4. end \in Nat /\ end + 4096 < Word
    BY <1>a, <2>1, <2>2, <2>3
  <2>5. U32(end) = end
    BY <1>a, <2>4, U32Exact
  <2>6. at \in Nat /\ end <= at /\ at % 4096 = 0 /\ at < Word
    <3>1. at \in Nat /\ end <= at /\ at % 4096 = 0 /\ at <= end + 4095
      BY <2>4, Aligned4096
    <3> HIDE DEF at, end
    <3> QED
      BY <1>a, <2>4, <3>1
  <2>7. /\ currentOffset' = at /\ offsets' = [offsets EXCEPT !.basefile = at]
        /\ xexHeader' = [xexHeader EXCEPT !.peOffset = at]
        /\ pc' = "imports"
        /\ UNCHANGED <<placerInputs, entries, i, sepHeader, importLibIdcs>>
    BY <1>6, <2>5 DEF PlaceBasefile
  <2> HIDE DEF at
  <2>8. PlacerTypeOK'
    <3>0. at \in Nat
      BY <2>6
    <3>1. /\ offsets' \in [xexHeader : {0}, optHeaderEntries : Nat, secInfoHeader : Nat,
                           optHeaders : Seq(Nat), basefile : Nat]
          /\ Len(offsets'.optHeaders) \in {0, Len(entries')}
      BY <1>0, <2>7, <3>0 DEF PlacerTypeOK
    <3>2. xexHeader' \in [secInfoOffset : Nat, peOffset : Nat] /\ currentOffset' \in Nat
      BY <1>0, <2>7, <3>0 DEF PlacerTypeOK
    <3> QED
      BY <1>0, <2>7, <3>1, <3>2 DEF PlacerTypeOK, placerInputs
  <2>9. /\ HeadersPlaced' /\ UNCHANGED FixedEnd
        /\ Len(offsets'.optHeaders) = Len(entries')
    BY <1>0, <2>1, <2>7 DEF LayoutInv, HeadersPlaced, FixedEnd, PlacerTypeOK, placerInputs
  <2>10. /\ offsets'.basefile = at /\ xexHeader'.peOffset = at
         /\ lib.size \in Nat /\ lib' = lib
         /\ currentOffset <= at - lib.size
    <3>1. offsets'.basefile = at /\ xexHeader'.peOffset = at /\ lib' = lib
      BY <1>0, <2>7 DEF PlacerTypeOK, placerInputs
    <3>2. currentOffset <= at - lib.size
      BY <1>a, <2>1, <2>6
    <3> QED
      BY <1>a, <3>1, <3>2
  <2>11. InOrder(offsets.basefile - lib.size)'
    <3>1. /\ Separates' = Separates /\ \A k \in Separates : SepEnd(k) \in Nat
          /\ \A k \in Separates : SepStart(k)' = SepStart(k) /\ SepEnd(k)' = SepEnd(k)
      BY <1>0, <2>7, EntryFacts DEF Separates, SepStart, SepEnd
    <3>2. \A k \in Separates : k < i => SepEnd(k) <= at - lib.size
      <4>1. TAKE k \in Separates
      <4>2. HAVE k < i
      <4>3. SepEnd(k) \in Nat /\ SepEnd(k) <= currentOffset
        BY <2>1, <3>1, <4>2 DEF LoopInv, InOrder
      <4> QED
        BY <2>1, <2>6, <2>10, <4>3
    <3> QED
      BY <2>1, <2>7, <2>9, <2>10, <3>1, <3>2 DEF LoopInv, InOrder
  <2>12. FixedEnd' + lib'.size <= offsets'.basefile
    BY <2>1, <2>2, <2>6, <2>9, <2>10
  <2>13. ImportsRemembered'
    BY <2>1, <2>7 DEF LoopInv, ImportsRemembered, placerInputs
  <2>14. i' = Len(entries') + 1
    BY <2>1, <2>7
  <2>15. BasefilePlaced'
    BY <2>6, <2>10, <2>11, <2>12, <2>13, <2>14 DEF BasefilePlaced
  <2> QED
    BY <2>7, <2>8, <2>9, <2>15 DEF LayoutInv
<1>7. CASE PlaceImports
  <2> DEFINE at == offsets.basefile - lib.size
  <2>1. /\ pc = "imports" /\ pc' = "placed"
        /\ HeadersPlaced /\ BasefilePlaced /\ offsets.basefile \in Nat
        /\ Len(offsets.optHeaders) = Len(entries)
        /\ UNCHANGED <<placerInputs, xexHeader, currentOffset, i, sepHeader, importLibIdcs>>
    BY <1>0, <1>7 DEF PlaceImports, LayoutInv, PlacerTypeOK
  <2>2. CASE ~(lib.tableCount > 0)
    <3>1. UNCHANGED <<offsets, entries>>
      BY <1>7, <2>2 DEF PlaceImports
    <3>2. PlacerTypeOK'
      BY <1>0, <2>1, <3>1 DEF PlacerTypeOK, placerInputs
    <3>3. HeadersPlaced' /\ BasefilePlaced'
      BY <2>1, <3>1 DEF HeadersPlaced, BasefilePlaced, InOrder, ImportsRemembered, Separates,
         SepStart, SepEnd, FixedEnd, placerInputs
    <3> QED
      BY <2>1, <2>2, <3>1, <3>2, <3>3 DEF LayoutInv, placerInputs
  <2>3. CASE lib.tableCount > 0
    <3>1. /\ importLibIdcs.entry = 3 /\ importLibIdcs.header \in 1 .. Len(entries)
          /\ 3 \in DOMAIN entries /\ Len(entries) = 5 /\ i = 6
          /\ entries[3].id = XEX_OPT_ID_IMPORT_LIBS
      <4>1. Len(entries) = 5 /\ entries[3].id = XEX_OPT_ID_IMPORT_LIBS
        BY <1>0, <2>3, EntryFacts
      <4>2. 3 \in DOMAIN entries /\ i = 6
        BY <1>b, <2>1, <4>1 DEF BasefilePlaced
      <4>3. i > 3
        BY <4>2
      <4> QED
        BY <2>1, <2>3, <4>1, <4>2, <4>3 DEF BasefilePlaced, ImportsRemembered
    <3>2. at \in Nat /\ U32(at) = at
      <4>1. FixedEnd \in Nat /\ FixedEnd + lib.size <= offsets.basefile
            /\ offsets.basefile < Word
        BY <1>0, <2>1, FixedEndBound DEF BasefilePlaced
      <4>2. at \in Nat /\ at < Word
        BY <1>a, <2>1, <4>1
      <4> QED
        BY <4>2, U32Exact
    <3>3. /\ entries' = [entries EXCEPT ![3].dataOrOffset = at]
          /\ offsets' = [offsets EXCEPT !.optHeaders[importLibIdcs.header] = at]
      BY <1>7, <2>3, <3>1, <3>2 DEF PlaceImports
    <3> HIDE DEF at
    <3>4. /\ entries' \in Seq([id : OptHeaderIdSet, dataOrOffset : Nat])
          /\ Len(entries') = Len(entries) /\ DOMAIN entries' = DOMAIN entries
          /\ \A k \in DOMAIN entries : /\ entries'[k].id = entries[k].id
                                       /\ k # 3 => entries'[k] = entries[k]
          /\ entries'[3].dataOrOffset = at
      BY <1>0, <2>1, <3>1, <3>2, <3>3, EntryStored DEF placerInputs
    <3>5. /\ offsets'.optHeaders \in Seq(Nat)
          /\ Len(offsets'.optHeaders) = Len(entries)
      <4>1. /\ offsets.optHeaders \in Seq(Nat)
            /\ offsets'.optHeaders = [offsets.optHeaders EXCEPT ![importLibIdcs.header] = at]
        BY <1>0, <3>3 DEF PlacerTypeOK
      <4>2. importLibIdcs.header \in 1 .. Len(offsets.optHeaders)
        BY <2>1, <3>1
      <4> QED
        BY <2>1, <3>2, <4>1, <4>2, ExceptSeq
    <3>6. PlacerTypeOK'
      <4>1. /\ offsets' \in [xexHeader : {0}, optHeaderEntries : Nat, secInfoHeader : Nat,
                             optHeaders : Seq(Nat), basefile : Nat]
            /\ Len(offsets'.optHeaders) \in {0, Len(entries')}
        BY <1>0, <3>3, <3>4, <3>5 DEF PlacerTypeOK
      <4>2. \A k \in DOMAIN entries' : entries'[k].id = OptHeaderIds(lib')[k]
        BY <1>0, <2>1, <3>4 DEF PlacerTypeOK, placerInputs
      <4> QED
        BY <1>0, <2>1, <3>4, <4>1, <4>2 DEF PlacerTypeOK, placerInputs
    <3>7. /\ UNCHANGED FixedEnd /\ HeadersPlaced'
          /\ offsets'.basefile = offsets.basefile
      BY <1>0, <2>1, <3>3, <3>4 DEF HeadersPlaced, FixedEnd, PlacerTypeOK, placerInputs
    <3>8. /\ Separates' = Separates /\ 3 \notin Separates
          /\ \A k \in Separates : SepStart(k)' = SepStart(k) /\ SepEnd(k)' = SepEnd(k)
      <4>1. Separates' = Separates /\ 3 \notin Separates /\ Separates \subseteq DOMAIN entries
        BY <3>1, <3>4, SeparateSizes DEF Separates
      <4> QED
        BY <3>4, <4>1 DEF SepStart, SepEnd
    <3>9. BasefilePlaced'
      BY <2>1, <3>4, <3>7, <3>8 DEF BasefilePlaced, InOrder, ImportsRemembered, placerInputs
    <3>10. SepStart(3)' = offsets'.basefile - lib'.size
      BY <2>1, <3>4, <3>7 DEF SepStart, placerInputs, at
    <3> QED
      BY <2>1, <3>4, <3>5, <3>6, <3>7, <3>9, <3>10 DEF LayoutInv
  <2> QED
    BY <2>2, <2>3
<1>8. CASE UNCHANGED placerVars
  <2>1. PlacerTypeOK'
    BY <1>0, <1>8 DEF placerVars, PlacerTypeOK
  <2>2. /\ HeadersPlaced' <=> HeadersPlaced
        /\ LoopInv' <=> LoopInv
        /\ BasefilePlaced' <=> BasefilePlaced
        /\ FixedEnd' = FixedEnd /\ SepStart(3)' = SepStart(3)
    BY <1>8 DEF placerVars, HeadersPlaced, LoopInv, BasefilePlaced,
       InOrder, ImportsRemembered, Separates, SepStart, SepEnd, FixedEnd
  <2> QED
    BY <1>8, <2>1, <2>2 DEF placerVars, LayoutInv
<1> QED
  BY <1>1, <1>2, <1>3, <1>4, <1>5, <1>6, <1>7, <1>8 DEF PlacerNext, PlacerStep, PlacerDone

(***************************************************************************)
(* Every reachable state of the placer satisfies the invariant.            *)
(***************************************************************************)
THEOREM LayoutInvariant == PlacerSpec => []LayoutInv
BY InitLayout, NextLayout, PTL DEF PlacerSpec

(***************************************************************************)
(* Type correctness: no offset the placer computes leaves the naturals,    *)
(* and no index it uses leaves its array, for headers that fit in 32 bits. *)
(***************************************************************************)
THEOREM PlacerTypeCorrect == PlacerSpec => []PlacerTypeOK
<1>1. LayoutInv => PlacerTypeOK
  BY DEF LayoutInv
<1> QED
  BY <1>1, LayoutInvariant, PTL

-----------------------------------------------------------------------------
(* The finished layout, as a loader sees it.                               *)

(* A header is found through its entry, and there is one entry per id.     *)
LEMMA EntryFound ==
  ASSUME PlacerTypeOK, NEW id \in DataIds
  PROVE  /\ EntryOf(id) \in DOMAIN entries /\ entries[EntryOf(id)].id = id
         /\ DataStart(id) = SepStart(EntryOf(id))
         /\ id # XEX_OPT_ID_IMPORT_LIBS =>
              EntryOf(id) \in Separates /\ DataEnd(id) = SepEnd(EntryOf(id))
         /\ id = XEX_OPT_ID_IMPORT_LIBS =>
              /\ lib.tableCount > 0 /\ EntryOf(id) = 3
              /\ DataEnd(id) = SepStart(3) + lib.size
<1>1. PICK k \in DOMAIN entries : entries[k].id = id /\ HasData(id)
  BY DEF DataIds
<1>2. EntryOf(id) \in DOMAIN entries /\ entries[EntryOf(id)].id = id
  BY <1>1 DEF EntryOf
<1>3. DataStart(id) = SepStart(EntryOf(id))
  BY DEF DataStart, SepStart
<1>4. CASE id # XEX_OPT_ID_IMPORT_LIBS
  BY <1>1, <1>2, <1>3, <1>4 DEF HasData, Separates, SepEnd, DataEnd
<1>5. CASE id = XEX_OPT_ID_IMPORT_LIBS
  <2>1. EntryOf(id) = 3 /\ lib.tableCount > 0
    BY <1>2, <1>5, EntryFacts
  <2> QED
    BY <1>2, <1>3, <1>5, <2>1 DEF DataEnd
<1> QED
  BY <1>2, <1>3, <1>4, <1>5

(* What the invariant says once everything is placed.                      *)
LEMMA PlacedFacts ==
  ASSUME LayoutInv, Placed
  PROVE  /\ PlacerTypeOK /\ HeadersPlaced /\ BasefilePlaced
         /\ FixedEnd \in Nat /\ offsets.basefile \in Nat /\ lib.size \in Nat
         /\ \A k \in Separates : /\ k < i /\ k \in Nat
                                 /\ SepStart(k) \in Nat /\ SepEnd(k) \in Nat
                                 /\ FixedEnd <= SepStart(k)
                                 /\ SepEnd(k) <= offsets.basefile - lib.size
         /\ lib.tableCount > 0 => SepStart(3) = offsets.basefile - lib.size
<1>1. PlacerTypeOK /\ HeadersPlaced /\ BasefilePlaced
      /\ (lib.tableCount > 0 => SepStart(3) = offsets.basefile - lib.size)
  BY DEF LayoutInv, Placed
<1>2. FixedEnd \in Nat /\ offsets.basefile \in Nat /\ lib.size \in Nat
  BY <1>1, FixedEndBound, Bounds DEF PlacerTypeOK
<1>3. Separates \subseteq DOMAIN entries
  BY DEF Separates
<1>4. \A k \in Separates : k \in Nat /\ k < i
  BY <1>1, <1>3, EntryFacts DEF BasefilePlaced
<1>5. \A k \in Separates : SepStart(k) \in Nat /\ SepEnd(k) \in Nat
  BY <1>1, <1>3, EntryFacts DEF SepEnd
<1>6. \A k \in Separates : /\ FixedEnd <= SepStart(k)
                           /\ SepEnd(k) <= offsets.basefile - lib.size
  BY <1>1, <1>4 DEF BasefilePlaced, InOrder
<1> QED
  BY <1>1, <1>2, <1>4, <1>5, <1>6

(***************************************************************************)
(* No two structures of any finished layout overlap.                       *)
(***************************************************************************)
THEOREM DisjointHeaders == PlacerSpec => []HeadersDisjoint
<1>1. ASSUME LayoutInv, Placed PROVE HeadersDisjoint
  <2>1. /\ PlacerTypeOK /\ HeadersPlaced /\ BasefilePlaced
        /\ FixedEnd \in Nat /\ offsets.basefile \in Nat /\ lib.size \in Nat
        /\ FixedEnd + lib.size <= offsets.basefile
    BY <1>1, PlacedFacts DEF BasefilePlaced
  <2>2. /\ offsets.xexHeader + SizeofXexHeader <= offsets.optHeaderEntries
        /\ offsets.optHeaderEntries + Len(entries) * SizeofOptHeaderEntry
             <= xexHeader.secInfoOffset
        /\ xexHeader.secInfoOffset = offsets.secInfoHeader
    BY <2>1, EntryFacts DEF HeadersPlaced, PlacerTypeOK, SizeofXexHeader, SizeofOptHeaderEntry
  <2>3. ASSUME NEW a \in DataIds PROVE FixedEnd <= DataStart(a)
    <3>1. CASE a # XEX_OPT_ID_IMPORT_LIBS
      BY <1>1, <2>1, <3>1, EntryFound, PlacedFacts
    <3>2. CASE a = XEX_OPT_ID_IMPORT_LIBS
      <4>1. DataStart(a) = offsets.basefile - lib.size
        BY <1>1, <2>1, <3>2, EntryFound, PlacedFacts
      <4> QED
        BY <2>1, <4>1
    <3> QED
      BY <3>1, <3>2
  <2>4. ASSUME NEW a \in DataIds, NEW b \in DataIds, a # b
        PROVE  DataEnd(a) <= DataStart(b) \/ DataEnd(b) <= DataStart(a)
    <3>1. CASE a # XEX_OPT_ID_IMPORT_LIBS /\ b # XEX_OPT_ID_IMPORT_LIBS
      <4> DEFINE k == EntryOf(a)
                 m == EntryOf(b)
      <4>1. /\ k \in Separates /\ m \in Separates /\ k # m
            /\ DataStart(a) = SepStart(k) /\ DataEnd(a) = SepEnd(k)
            /\ DataStart(b) = SepStart(m) /\ DataEnd(b) = SepEnd(m)
        BY <2>1, <2>4, <3>1, EntryFound
      <4> HIDE DEF k, m
      <4>2. k \in Nat /\ m \in Nat /\ k < i /\ m < i
        BY <1>1, <4>1, PlacedFacts
      <4>3. k < m \/ m < k
        BY <4>1, <4>2
      <4> QED
        BY <2>1, <4>1, <4>2, <4>3 DEF BasefilePlaced, InOrder
    <3>2. ASSUME NEW x \in DataIds, x # XEX_OPT_ID_IMPORT_LIBS,
                 NEW y \in DataIds, y = XEX_OPT_ID_IMPORT_LIBS
          PROVE  DataEnd(x) <= DataStart(y)
      <4>1. DataEnd(x) <= offsets.basefile - lib.size
        BY <1>1, <2>1, <3>2, EntryFound, PlacedFacts
      <4>2. DataStart(y) = offsets.basefile - lib.size
        BY <1>1, <2>1, <3>2, EntryFound, PlacedFacts
      <4> QED
        BY <4>1, <4>2
    <3> QED
      BY <2>4, <3>1, <3>2
  <2> QED
    BY <2>2, <2>3, <2>4 DEF HeadersDisjoint
<1>2. LayoutInv => HeadersDisjoint
  BY <1>1 DEF HeadersDisjoint
<1> QED
  BY <1>2, LayoutInvariant, PTL

(***************************************************************************)
(* In every finished layout the basefile is page-aligned above all the     *)
(* headers, and the import libraries end where it starts.                  *)
(***************************************************************************)
THEOREM BasefileAbove == PlacerSpec => []BasefileAboveHeaders
<1>1. ASSUME LayoutInv, Placed PROVE BasefileAboveHeaders
  <2>1. /\ PlacerTypeOK /\ BasefilePlaced
        /\ FixedEnd \in Nat /\ offsets.basefile \in Nat /\ lib.size \in Nat
        /\ FixedEnd + lib.size <= offsets.basefile
    BY <1>1, PlacedFacts DEF BasefilePlaced
  <2>2. FixedEnd <= offsets.basefile
    BY <2>1
  <2>3. ASSUME NEW a \in DataIds PROVE DataEnd(a) <= offsets.basefile
    <3>1. CASE a # XEX_OPT_ID_IMPORT_LIBS
      <4>1. DataEnd(a) \in Nat /\ DataEnd(a) <= offsets.basefile - lib.size
        BY <1>1, <2>1, <3>1, EntryFound, PlacedFacts
      <4> QED
        BY <2>1, <4>1
    <3>2. CASE a = XEX_OPT_ID_IMPORT_LIBS
      <4>1. DataEnd(a) = (offsets.basefile - lib.size) + lib.size
        BY <1>1, <2>1, <3>2, EntryFound, PlacedFacts
      <4> QED
        BY <2>1, <4>1
    <3> QED
      BY <3>1, <3>2
  <2>4. ASSUME lib.tableCount > 0
        PROVE  DataEnd(XEX_OPT_ID_IMPORT_LIBS) = offsets.basefile
    <3>1. XEX_OPT_ID_IMPORT_LIBS \in DataIds
      BY <2>1, <2>4, EntryFacts DEF DataIds, HasData
    <3>2. DataEnd(XEX_OPT_ID_IMPORT_LIBS) = (offsets.basefile - lib.size) + lib.size
      BY <1>1, <2>1, <2>4, <3>1, EntryFound, PlacedFacts
    <3> QED
      BY <2>1, <3>2
  <2> QED
    BY <2>1, <2>2, <2>3, <2>4 DEF BasefileAboveHeaders, BasefilePlaced
<1>2. LayoutInv => BasefileAboveHeaders
  BY <1>1 DEF BasefileAboveHeaders
<1> QED
  BY <1>2, LayoutInvariant, PTL

-----------------------------------------------------------------------------
(***************************************************************************)
(* The two tables of offsets.  Rank(l, n) is how many of the first n       *)
(* entries have data of their own: what sepHeader counts in the loop, and  *)
(* what the writer counts again.  TablesInv says that each header placed   *)
(* so far is in offsets->optHeaders under its rank, and that the place     *)
(* kept for the imports is the one that is theirs.                         *)
(***************************************************************************)
WithData(l, n) == {j \in 1 .. n : HasData(OptHeaderIds(l)[j])}
Rank(l, n)     == Cardinality(WithData(l, n))

StoredByRank ==
  /\ sepHeader = Rank(lib, i - 1) + 1
  /\ \A k \in Separates : k < i => offsets.optHeaders[Rank(lib, k)] = SepStart(k)
  /\ lib.tableCount > 0 /\ i > 3 => importLibIdcs.header = Rank(lib, 3)

TablesInv ==
  /\ pc = "calloc" => i = 1 /\ sepHeader = 1
  /\ pc \in {"loop", "imports", "placed"} => StoredByRank
  /\ pc = "placed" /\ lib.tableCount > 0 =>
       offsets.optHeaders[Rank(lib, 3)] = SepStart(3)

(* The rank is a number, and one entry adds one to it or nothing.          *)
LEMMA RankStep ==
  ASSUME NEW l, NEW n \in Nat
  PROVE  /\ Rank(l, 0) = 0
         /\ IsFiniteSet(WithData(l, n)) /\ Rank(l, n) \in Nat
         /\ HasData(OptHeaderIds(l)[n + 1]) => Rank(l, n + 1) = Rank(l, n) + 1
         /\ ~HasData(OptHeaderIds(l)[n + 1]) => Rank(l, n + 1) = Rank(l, n)
<1>1. WithData(l, 0) = {}
  BY DEF WithData
<1>2. Rank(l, 0) = 0
  BY <1>1, FS_EmptySet DEF Rank
<1>3. IsFiniteSet(1 .. n)
  BY FS_Interval
<1>4. WithData(l, n) \in SUBSET (1 .. n)
  BY DEF WithData
<1>5. IsFiniteSet(WithData(l, n))
  BY <1>3, <1>4, FS_Subset
<1>6. Rank(l, n) \in Nat
  BY <1>5, FS_CardinalityType DEF Rank
<1>7. n + 1 \notin WithData(l, n)
  BY DEF WithData
<1>8. ASSUME HasData(OptHeaderIds(l)[n + 1])
      PROVE  Rank(l, n + 1) = Rank(l, n) + 1
  <2>1. WithData(l, n + 1) = WithData(l, n) \cup {n + 1}
    BY <1>8 DEF WithData
  <2> QED
    BY <1>5, <1>7, <2>1, FS_AddElement DEF Rank
<1>9. ASSUME ~HasData(OptHeaderIds(l)[n + 1])
      PROVE  Rank(l, n + 1) = Rank(l, n)
  <2>1. WithData(l, n + 1) = WithData(l, n)
    BY <1>9 DEF WithData
  <2> QED
    BY <2>1 DEF Rank
<1> QED
  BY <1>2, <1>5, <1>6, <1>8, <1>9

(* A header with data has a rank above that of every entry before it.      *)
LEMMA RankAbove ==
  ASSUME NEW l, NEW a \in Nat, NEW b \in Nat, a < b, HasData(OptHeaderIds(l)[b])
  PROVE  Rank(l, a) < Rank(l, b)
<1>1. IsFiniteSet(WithData(l, b)) /\ Rank(l, a) \in Nat /\ Rank(l, b) \in Nat
  BY RankStep
<1>2. WithData(l, a) \in SUBSET WithData(l, b)
  BY DEF WithData
<1>3. b \in WithData(l, b) /\ b \notin WithData(l, a)
  BY DEF WithData
<1>4. /\ Cardinality(WithData(l, a)) <= Cardinality(WithData(l, b))
      /\ Cardinality(WithData(l, b)) = Cardinality(WithData(l, a))
           => WithData(l, b) = WithData(l, a)
  BY <1>1, <1>2, FS_Subset
<1>5. Rank(l, a) <= Rank(l, b) /\ Rank(l, b) # Rank(l, a)
  BY <1>3, <1>4 DEF Rank
<1> QED
  BY <1>1, <1>5

(* Separate headers have data, and so have the imports when there are any: *)
(* their ranks all differ.                                                 *)
LEMMA RanksDiffer ==
  ASSUME PlacerTypeOK, NEW k \in Separates
  PROVE  /\ k \in Nat /\ k \in DOMAIN entries
         /\ Rank(lib, k) \in Nat
         /\ \A m \in DOMAIN entries :
              HasData(entries[m].id) /\ m # k => Rank(lib, m) # Rank(lib, k)
<1>1. k \in DOMAIN entries /\ DOMAIN entries = 1 .. Len(entries) /\ Len(entries) \in Nat
  BY EntryFacts DEF Separates
<1>2. \A m \in DOMAIN entries : m \in Nat /\ entries[m].id = OptHeaderIds(lib)[m]
  BY <1>1 DEF PlacerTypeOK
<1>3. HasData(OptHeaderIds(lib)[k])
  BY <1>1, <1>2 DEF Separates, HasData
<1>4. ASSUME NEW m \in DOMAIN entries, HasData(entries[m].id), m # k
      PROVE  Rank(lib, m) # Rank(lib, k)
  <2>1. m \in Nat /\ k \in Nat /\ HasData(OptHeaderIds(lib)[m])
    BY <1>1, <1>2, <1>4
  <2>2. Rank(lib, m) \in Nat /\ Rank(lib, k) \in Nat
    BY <2>1, RankStep
  <2>3. CASE m < k
    BY <1>3, <2>1, <2>2, <2>3, RankAbove
  <2>4. CASE k < m
    BY <2>1, <2>2, <2>4, RankAbove
  <2> QED
    BY <1>4, <2>1, <2>3, <2>4
<1> QED
  BY <1>1, <1>2, <1>4, RankStep

(* The placer keeps both tables in step.                                   *)
LEMMA NextTables == LayoutInv /\ TablesInv /\ [PlacerNext]_placerVars => TablesInv'
<1> SUFFICES ASSUME LayoutInv, TablesInv, [PlacerNext]_placerVars
             PROVE  TablesInv'
  OBVIOUS
<1>0. PlacerTypeOK
  BY DEF LayoutInv
<1>a. /\ Len(entries) \in Nat /\ DOMAIN entries = 1 .. Len(entries)
      /\ i \in 1 .. Len(entries) + 1 /\ sepHeader \in 1 .. i
      /\ offsets.optHeaders \in Seq(Nat)
      /\ \A k \in DOMAIN entries : entries[k].id = OptHeaderIds(lib)[k]
  BY <1>0, EntryFacts DEF PlacerTypeOK
<1>b. pc \in {"loop", "imports", "placed"} =>
        DOMAIN offsets.optHeaders = 1 .. Len(entries)
  BY <1>a DEF LayoutInv
<1>c. i - 1 \in Nat /\ i \in Nat /\ (i - 1) + 1 = i
  BY <1>a
<1>1. CASE PlaceHeaders
  BY <1>1 DEF LayoutInv, TablesInv, PlaceHeaders, placerInputs
<1>2. CASE AllocOptHeaders
  <2>1. i = 1 /\ sepHeader = 1 /\ pc' \in {"loop", "outOfMem"}
    BY <1>2 DEF TablesInv, AllocOptHeaders
  <2>2. UNCHANGED <<lib, entries, i, sepHeader, importLibIdcs>>
    BY <1>2 DEF AllocOptHeaders, placerInputs
  <2>3. Rank(lib, i - 1) = 0
    <3>1. i - 1 = 0
      BY <2>1
    <3> QED
      BY <3>1, RankStep
  <2>4. Separates' = Separates /\ \A k \in Separates : ~(k < i)
    BY <1>a, <2>1, <2>2 DEF Separates
  <2> QED
    BY <2>1, <2>2, <2>3, <2>4 DEF TablesInv, StoredByRank
<1>3. ASSUME NEW id \in OptHeaderIdSet, PlaceSeparateHeader(id) PROVE TablesInv'
  <2> DEFINE at == getNextAligned(currentOffset, 8)
  <2>1. /\ pc = "loop" /\ pc' = "loop" /\ i \in DOMAIN entries
        /\ entries[i].id = id /\ IsSeparate(id)
        /\ i' = i + 1 /\ sepHeader' = sepHeader + 1
        /\ lib' = lib /\ importLibIdcs' = importLibIdcs
        /\ entries' = [entries EXCEPT ![i].dataOrOffset = at]
        /\ offsets' = [offsets EXCEPT !.optHeaders[sepHeader] = at]
    BY <1>3, <1>a DEF PlaceSeparateHeader, NextEntry, placerInputs
  <2> HIDE DEF at
  <2>2. StoredByRank
    BY <2>1 DEF TablesInv
  <2>3. HasData(OptHeaderIds(lib)[i])
    BY <1>a, <2>1 DEF HasData
  <2>4. Rank(lib, i - 1) \in Nat /\ Rank(lib, i) = Rank(lib, i - 1) + 1
    BY <1>c, <2>3, RankStep
  <2>5. sepHeader = Rank(lib, i)
    BY <2>2, <2>4 DEF StoredByRank
  <2>6. lib.tableCount > 0 => i # 3
    BY <1>0, <2>1, EntryFacts, SeparateSizes
  <2>7. i \in Separates
    BY <2>1 DEF Separates
  <2>8. /\ DOMAIN entries' = DOMAIN entries
        /\ \A k \in DOMAIN entries : entries'[k].id = entries[k].id
        /\ entries'[i].dataOrOffset = at
        /\ \A k \in DOMAIN entries : k # i => entries'[k] = entries[k]
    <3>1. \A k \in DOMAIN entries : entries[k] \in [id : OptHeaderIdSet, dataOrOffset : Nat]
      BY <1>0, <1>a, ElementOfSeq DEF PlacerTypeOK
    <3> QED
      BY <2>1, <3>1
  <2>9. Separates' = Separates
    BY <2>8 DEF Separates
  <2>10. /\ offsets'.optHeaders[sepHeader] = at
         /\ \A n \in 1 .. Len(entries) : n # sepHeader =>
              offsets'.optHeaders[n] = offsets.optHeaders[n]
         /\ \A n : n # sepHeader => offsets'.optHeaders[n] = offsets.optHeaders[n]
    <3>1. sepHeader \in 1 .. Len(entries)
      BY <1>a, <2>1
    <3>2. offsets \in [xexHeader : {0}, optHeaderEntries : Nat, secInfoHeader : Nat,
                       optHeaders : Seq(Nat), basefile : Nat]
      BY <1>0 DEF PlacerTypeOK
    <3>3. offsets'.optHeaders = [offsets.optHeaders EXCEPT ![sepHeader] = at]
      BY <2>1, <3>2
    <3>4. DOMAIN offsets.optHeaders = 1 .. Len(entries)
      BY <1>b, <2>1
    <3> QED
      BY <3>1, <3>3, <3>4
  <2>11. sepHeader' = Rank(lib, i' - 1) + 1
    <3>1. i' - 1 = i
      BY <1>a, <2>1
    <3> QED
      BY <2>1, <2>5, <3>1
  <2>12. ASSUME NEW k \in Separates, k < i'
         PROVE  offsets'.optHeaders[Rank(lib, k)] = entries'[k].dataOrOffset
    <3>1. k \in DOMAIN entries /\ k \in Nat
      BY <1>0, RanksDiffer
    <3>2. CASE k = i
      BY <2>5, <2>8, <2>10, <3>2
    <3>3. CASE k # i
      <4>1. k < i
        BY <1>c, <2>1, <2>12, <3>1, <3>3
      <4>2. offsets.optHeaders[Rank(lib, k)] = entries[k].dataOrOffset
        BY <2>2, <4>1 DEF StoredByRank, SepStart
      <4>3. Rank(lib, k) # sepHeader
        <5>1. HasData(entries[k].id)
          BY DEF Separates, HasData
        <5> QED
          BY <1>0, <2>5, <2>7, <3>1, <3>3, <5>1, RanksDiffer
      <4> QED
        BY <2>8, <2>10, <3>1, <3>3, <4>2, <4>3
    <3> QED
      BY <3>2, <3>3
  <2>13. lib.tableCount > 0 /\ i' > 3 => importLibIdcs.header = Rank(lib, 3)
    BY <1>c, <2>1, <2>2, <2>6 DEF StoredByRank
  <2> QED
    BY <2>1, <2>9, <2>11, <2>12, <2>13 DEF TablesInv, StoredByRank, SepStart
<1>4. ASSUME NEW id \in OptHeaderIdSet,
             ReserveImportHeader(id) \/ SkipInlineHeader(id)
      PROVE  TablesInv'
  <2>1. /\ pc = "loop" /\ pc' = "loop" /\ i \in DOMAIN entries
        /\ entries[i].id = id /\ i' = i + 1
        /\ UNCHANGED <<lib, entries, offsets>>
    BY <1>4, <1>a DEF ReserveImportHeader, SkipInlineHeader, NextEntry, placerInputs
  <2>2. StoredByRank
    BY <2>1 DEF TablesInv
  <2>3. Rank(lib, i - 1) \in Nat
        /\ (HasData(OptHeaderIds(lib)[i]) => Rank(lib, i) = Rank(lib, i - 1) + 1)
        /\ (~HasData(OptHeaderIds(lib)[i]) => Rank(lib, i) = Rank(lib, i - 1))
    BY <1>c, RankStep
  <2>4. ~IsSeparate(id)
    BY <1>4, SeparateSizes DEF ReserveImportHeader, SkipInlineHeader
  <2>5. HasData(id) <=> id = XEX_OPT_ID_IMPORT_LIBS
    BY <2>4 DEF HasData
  <2>6. OptHeaderIds(lib)[i] = id
    BY <1>a, <2>1
  <2>7. sepHeader' = Rank(lib, i) + 1
    <3>1. CASE id = XEX_OPT_ID_IMPORT_LIBS
      BY <1>4, <2>2, <2>3, <2>5, <2>6, <3>1
         DEF ReserveImportHeader, SkipInlineHeader, StoredByRank
    <3>2. CASE id # XEX_OPT_ID_IMPORT_LIBS
      BY <1>4, <2>2, <2>3, <2>5, <2>6, <3>2
         DEF ReserveImportHeader, SkipInlineHeader, StoredByRank
    <3> QED
      BY <3>1, <3>2
  <2>8. i' - 1 = i
    BY <1>a, <2>1
  <2>9. Separates' = Separates /\ \A k \in Separates : k < i' => k < i
    <3>1. i \notin Separates
      BY <2>1, <2>4 DEF Separates
    <3>2. \A k \in Separates : k \in Nat /\ k # i
      BY <1>0, <3>1, RanksDiffer
    <3> QED
      BY <1>c, <2>1, <3>2 DEF Separates
  <2>10. lib.tableCount > 0 /\ i' > 3 => importLibIdcs'.header = Rank(lib, 3)
    <3>1. CASE id = XEX_OPT_ID_IMPORT_LIBS
      <4>1. i = 3 /\ importLibIdcs'.header = sepHeader
        BY <1>0, <1>4, <2>1, <3>1, EntryFacts DEF ReserveImportHeader, SkipInlineHeader
      <4>2. sepHeader = Rank(lib, i)
        BY <2>2, <2>3, <2>5, <2>6, <3>1 DEF StoredByRank
      <4> QED
        BY <4>1, <4>2
    <3>2. CASE id # XEX_OPT_ID_IMPORT_LIBS
      <4>1. importLibIdcs' = importLibIdcs
        BY <1>4, <3>2 DEF ReserveImportHeader, SkipInlineHeader
      <4>2. lib.tableCount > 0 => i # 3
        BY <1>0, <2>1, <3>2, EntryFacts
      <4> QED
        BY <1>c, <2>1, <2>2, <4>1, <4>2 DEF StoredByRank
    <3> QED
      BY <3>1, <3>2
  <2> QED
    BY <2>1, <2>2, <2>7, <2>8, <2>9, <2>10 DEF TablesInv, StoredByRank, SepStart
<1>5. CASE PlaceBasefile
  <2>1. /\ pc = "loop" /\ pc' = "imports"
        /\ UNCHANGED <<lib, entries, i, sepHeader, importLibIdcs>>
        /\ offsets'.optHeaders = offsets.optHeaders
    BY <1>0, <1>5 DEF PlaceBasefile, placerInputs, PlacerTypeOK
  <2>2. StoredByRank /\ Separates' = Separates
    BY <2>1 DEF TablesInv, Separates
  <2> QED
    BY <2>1, <2>2 DEF TablesInv, StoredByRank, SepStart
<1>6. CASE PlaceImports
  <2>1. /\ pc = "imports" /\ pc' = "placed"
        /\ UNCHANGED <<lib, i, sepHeader, importLibIdcs>>
    BY <1>6 DEF PlaceImports, placerInputs
  <2>2. StoredByRank /\ BasefilePlaced
    BY <2>1 DEF TablesInv, LayoutInv
  <2>3. CASE ~(lib.tableCount > 0)
    <3>1. UNCHANGED <<entries, offsets>>
      BY <1>6, <2>3 DEF PlaceImports
    <3> QED
      BY <2>1, <2>2, <2>3, <3>1 DEF TablesInv, StoredByRank, SepStart, Separates
  <2>4. CASE lib.tableCount > 0
    <3> DEFINE at == U32(offsets.basefile - lib.size)
    <3>1. /\ offsets' = [offsets EXCEPT !.optHeaders[importLibIdcs.header] = at]
          /\ entries' = [entries EXCEPT ![importLibIdcs.entry].dataOrOffset = at]
      BY <1>6, <2>4 DEF PlaceImports
    <3> HIDE DEF at
    <3>2. i > 3 /\ importLibIdcs.entry = 3 /\ importLibIdcs.header \in 1 .. Len(entries)
      <4>1. Len(entries) = 5 /\ i = Len(entries) + 1
        BY <1>0, <2>2, <2>4, EntryFacts DEF BasefilePlaced
      <4>2. i > 3
        BY <4>1
      <4> QED
        BY <2>2, <2>4, <4>2 DEF BasefilePlaced, ImportsRemembered
    <3>3. importLibIdcs.header = Rank(lib, 3)
      BY <2>2, <2>4, <3>2 DEF StoredByRank
    <3>4. 3 \in DOMAIN entries /\ entries[3].id = XEX_OPT_ID_IMPORT_LIBS
      BY <1>0, <2>4, EntryFacts
    <3>5. 3 \notin Separates /\ HasData(entries[3].id)
      BY <3>4, SeparateSizes DEF Separates, HasData
    <3>6. /\ DOMAIN entries' = DOMAIN entries
          /\ \A k \in DOMAIN entries : entries'[k].id = entries[k].id
          /\ entries'[3].dataOrOffset = at
          /\ \A k \in DOMAIN entries : k # 3 => entries'[k] = entries[k]
      <4>1. \A k \in DOMAIN entries : entries[k] \in [id : OptHeaderIdSet, dataOrOffset : Nat]
        BY <1>0, <1>a, ElementOfSeq DEF PlacerTypeOK
      <4> QED
        BY <3>1, <3>2, <3>4, <4>1
    <3>7. /\ offsets'.optHeaders[Rank(lib, 3)] = at
          /\ \A n : n # Rank(lib, 3) => offsets'.optHeaders[n] = offsets.optHeaders[n]
      <4>1. offsets \in [xexHeader : {0}, optHeaderEntries : Nat, secInfoHeader : Nat,
                         optHeaders : Seq(Nat), basefile : Nat]
        BY <1>0 DEF PlacerTypeOK
      <4>2. offsets'.optHeaders = [offsets.optHeaders EXCEPT ![importLibIdcs.header] = at]
        BY <3>1, <4>1
      <4>3. DOMAIN offsets.optHeaders = 1 .. Len(entries)
        BY <1>b, <2>1
      <4> QED
        BY <3>2, <3>3, <4>2, <4>3
    <3>8. Separates' = Separates
      BY <3>6 DEF Separates
    <3>9. ASSUME NEW k \in Separates, k < i
          PROVE  offsets'.optHeaders[Rank(lib, k)] = entries'[k].dataOrOffset
      <4>1. k \in DOMAIN entries /\ k # 3
        BY <3>5 DEF Separates
      <4>2. Rank(lib, 3) # Rank(lib, k)
        BY <1>0, <3>4, <3>5, <4>1, RanksDiffer
      <4>3. offsets.optHeaders[Rank(lib, k)] = entries[k].dataOrOffset
        BY <2>2, <3>9 DEF StoredByRank, SepStart
      <4> QED
        BY <3>6, <3>7, <4>1, <4>2, <4>3
    <3> QED
      BY <2>1, <2>2, <3>6, <3>7, <3>8, <3>9 DEF TablesInv, StoredByRank, SepStart
  <2> QED
    BY <2>3, <2>4
<1>7. CASE UNCHANGED placerVars
  BY <1>7 DEF placerVars, TablesInv, StoredByRank, SepStart, Separates
<1> QED
  BY <1>1, <1>2, <1>3, <1>4, <1>5, <1>6, <1>7 DEF PlacerNext, PlacerStep, PlacerDone

(***************************************************************************)
(* The table the writer follows and the entries the loader follows give    *)
(* every header with data the same place, the uninitialised importLibIdcs  *)
(* of placer.c:88 included: it is never used before it has been set.       *)
(***************************************************************************)
THEOREM TablesOfOffsetsAgree == PlacerSpec => []OffsetTablesAgree
<1>1. PlacerInit => TablesInv
  BY DEF PlacerInit, TablesInv
<1>2. PlacerSpec => []TablesInv
  BY <1>1, LayoutInvariant, NextTables, PTL DEF PlacerSpec
<1>3. ASSUME LayoutInv, TablesInv, Placed,
             NEW k \in DOMAIN entries, HasData(entries[k].id)
      PROVE  offsets.optHeaders[Cardinality({j \in 1 .. k : HasData(entries[j].id)})]
               = entries[k].dataOrOffset
  <2>1. PlacerTypeOK /\ BasefilePlaced /\ StoredByRank
    BY <1>3 DEF LayoutInv, TablesInv, Placed
  <2>2. /\ DOMAIN entries = 1 .. Len(entries) /\ Len(entries) \in Nat
        /\ \A j \in DOMAIN entries : entries[j].id = OptHeaderIds(lib)[j]
    BY <2>1, EntryFacts DEF PlacerTypeOK
  <2>3. \A j \in 1 .. k : j \in DOMAIN entries
    BY <2>2
  <2>4. {j \in 1 .. k : HasData(entries[j].id)} = WithData(lib, k)
    BY <2>2, <2>3 DEF WithData
  <2>5. CASE k \in Separates
    <3>1. k < i
      BY <2>1, <2>2 DEF BasefilePlaced
    <3> QED
      BY <2>1, <2>4, <2>5, <3>1 DEF StoredByRank, SepStart, Rank
  <2>6. CASE k \notin Separates
    <3>1. entries[k].id = XEX_OPT_ID_IMPORT_LIBS
      BY <1>3, <2>6 DEF Separates, HasData
    <3>2. k = 3 /\ lib.tableCount > 0
      BY <2>1, <3>1, EntryFacts
    <3> QED
      BY <1>3, <2>4, <3>2 DEF TablesInv, SepStart, Rank, Placed
  <2> QED
    BY <2>5, <2>6
<1>4. LayoutInv /\ TablesInv => OffsetTablesAgree
  BY <1>3 DEF OffsetTablesAgree
<1> QED
  BY <1>2, <1>4, LayoutInvariant, PTL
=============================================================================
