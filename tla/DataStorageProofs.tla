------------------------- MODULE DataStorageProofs -------------------------
(***************************************************************************)
(* Lemmas about 32-bit arithmetic and the two address translations of      *)
(* common/datastorage.c, for the proofs about the modules that use them.   *)
(***************************************************************************)
EXTENDS DataStorage, Sequences, FiniteSetTheorems, WellFoundedInduction, TLAPS

(* Arithmetic that does not wrap is plain arithmetic.                      *)
LEMMA U32Plain ==
  ASSUME NEW v \in Nat, v < Word
  PROVE  U32(v) = v
BY WordAssumption, SMT DEF U32

(* Arithmetic that may wrap stays in 32 bits.                              *)
LEMMA U32Range ==
  ASSUME NEW v \in Int
  PROVE  U32(v) \in 0 .. Word - 1
BY WordAssumption, SMT DEF U32

-----------------------------------------------------------------------------
(* The address at o in section s: the later sections start behind it, and  *)
(* it is in front of where the last one ends, and not too far to be added. *)
InReach(n, from, size, to, s, o) ==
  /\ n \in Nat \ {0} /\ s \in 1 .. n /\ o \in Nat
  /\ from \in [1 .. n -> Nat] /\ size \in [1 .. n -> Nat] /\ to \in [1 .. n -> Nat]
  /\ \A t \in 1 .. n : s < t => from[s] + o < from[t]
  /\ from[s] + o < from[n] + size[n]
  /\ from[n] + size[n] < Word /\ to[s] + o < Word

(* Such an address is translated by its own section.                       *)
LEMMA TranslateBy ==
  ASSUME NEW n, NEW from, NEW size, NEW to, NEW s, NEW o, InReach(n, from, size, to, s, o)
  PROVE  Translate(from[s] + o, from, size, to) = to[s] + o
<1> DEFINE x == from[s] + o
<1>0. /\ n \in Nat \ {0} /\ s \in 1 .. n /\ o \in Nat
      /\ from \in [1 .. n -> Nat] /\ size \in [1 .. n -> Nat] /\ to \in [1 .. n -> Nat]
      /\ \A t \in 1 .. n : s < t => from[s] + o < from[t]
      /\ from[s] + o < from[n] + size[n]
      /\ from[n] + size[n] < Word /\ to[s] + o < Word
  BY DEF InReach
<1>1. DOMAIN from = 1 .. n /\ Cardinality(DOMAIN from) = n
  BY <1>0, FS_Interval
<1>2. /\ x \in Nat /\ from[s] <= x /\ from[n] + size[n] \in Nat
      /\ \A t \in 1 .. n : from[t] \in Nat
  <2>1. \A t \in 1 .. n : from[t] \in Nat /\ size[t] \in Nat
    BY <1>0
  <2>2. n \in 1 .. n
    BY <1>0
  <2>3. from[s] \in Nat /\ from[n] \in Nat /\ size[n] \in Nat
    BY <1>0, <2>1, <2>2
  <2> QED
    BY <1>0, <2>1, <2>3
<1>3. U32(from[n] + size[n]) = from[n] + size[n]
  BY <1>0, <1>2, U32Plain
<1>4. LastStartingBy(x, from) = s
  <2> DEFINE P(k) == from[k] <= x /\ \A j \in DOMAIN from : from[j] <= x => j <= k
  <2>1. P(s)
    <3>1. ASSUME NEW j \in 1 .. n, from[j] <= x PROVE j <= s
      <4>1. from[j] \in Nat /\ ~(s < j)
        BY <1>0, <1>2, <3>1
      <4> QED
        BY <1>0, <4>1
    <3> QED
      BY <1>1, <1>2, <3>1
  <2>2. \A k \in DOMAIN from : P(k) => k = s
    <3> SUFFICES ASSUME NEW k \in 1 .. n, P(k) PROVE k = s
      BY <1>1
    <3>1. s <= k
      BY <1>0, <1>1, <1>2
    <3>2. from[k] <= x /\ from[k] \in Nat
      BY <1>2
    <3>3. ~(s < k)
      BY <1>0, <1>2, <3>2
    <3> QED
      BY <1>0, <3>1, <3>3
  <2>3. s \in DOMAIN from
    BY <1>0, <1>1
  <2> HIDE DEF P
  <2>4. (CHOOSE k \in DOMAIN from : P(k)) = s
    BY <2>1, <2>2, <2>3
  <2> QED
    BY <2>4 DEF LastStartingBy, P
<1>5. to[s] \in Nat /\ (x - from[s]) + to[s] = to[s] + o
  BY <1>0, <1>2
<1>6. U32(to[s] + o) = to[s] + o
  BY <1>0, <1>5, U32Plain
<1>7. ~ \/ n > 0 /\ x >= U32(from[n] + size[n])
        \/ \A t \in DOMAIN from : from[t] > x
  BY <1>0, <1>1, <1>2, <1>3
<1>8. Translate(x, from, size, to)
        = U32((x - from[LastStartingBy(x, from)]) + to[LastStartingBy(x, from)])
  BY <1>1, <1>7 DEF Translate
<1> QED
  BY <1>4, <1>5, <1>6, <1>8

(* A set of indices has a last one.                                        *)
LEMMA LastIndex ==
  ASSUME NEW n \in Nat, NEW S, S \subseteq 1 .. n, S # {}
  PROVE  \E i \in S : \A j \in S : j <= i
<1> DEFINE T == {n - i : i \in S}
<1>1. T \subseteq Nat /\ T # {}
  OBVIOUS
<1>2. PICK x \in T : \A y \in T : ~(<<y, x>> \in OpToRel(<, Nat))
  BY <1>1, NatLessThanWellFounded, WFMin, Zenon
<1>3. ASSUME NEW y \in T PROVE x <= y
  <2>1. <<y, x>> \in Nat \X Nat
    BY <1>1
  <2>2. ~(y < x)
    BY <1>2, <2>1 DEF OpToRel
  <2> QED
    BY <1>1, <2>2
<1>4. PICK i \in S : x = n - i
  OBVIOUS
<1>5. ASSUME NEW j \in S PROVE j <= i
  <2>1. n - j \in T /\ x <= n - j
    BY <1>3
  <2> QED
    BY <1>4, <2>1
<1> QED
  BY <1>5

(* Whatever the table, a translation gives a 32-bit number.                *)
LEMMA TranslateRange ==
  ASSUME NEW n \in Nat, NEW from \in [1 .. n -> Nat], NEW size, NEW to \in [1 .. n -> Nat],
         NEW x \in Nat
  PROVE  Translate(x, from, size, to) \in 0 .. Word - 1
<1> DEFINE i    == LastStartingBy(x, from)
           none == \A k \in 1 .. n : from[k] > x
           past == n > 0 /\ x >= U32(from[n] + size[n])
<1>1. Cardinality(1 .. n) = n /\ DOMAIN from = 1 .. n
  BY FS_Interval
<1>2. Translate(x, from, size, to) = IF past \/ none THEN 0 ELSE U32((x - from[i]) + to[i])
  BY <1>1 DEF Translate
<1>3. ASSUME ~none PROVE i \in 1 .. n
  <2> DEFINE S    == {k \in 1 .. n : from[k] <= x}
             P(k) == from[k] <= x /\ \A j \in DOMAIN from : from[j] <= x => j <= k
  <2>1. S # {}
    <3>1. PICK k \in 1 .. n : ~(from[k] > x)
      BY <1>3
    <3>2. from[k] \in Nat
      OBVIOUS
    <3>3. from[k] <= x
      BY <3>1, <3>2
    <3>4. k \in S
      BY <3>3
    <3> QED
      BY <3>4
  <2>2. PICK k \in S : \A j \in S : j <= k
    BY <2>1, LastIndex
  <2>3. k \in 1 .. n /\ P(k)
    BY <1>1, <2>2
  <2> HIDE DEF P
  <2>4. (CHOOSE m \in DOMAIN from : P(m)) \in DOMAIN from
    BY <1>1, <2>3
  <2> QED
    BY <1>1, <2>4 DEF LastStartingBy, P
<1>4. 0 \in 0 .. Word - 1
  BY WordAssumption
<1> HIDE DEF i
<1>5. ASSUME ~none PROVE U32((x - from[i]) + to[i]) \in 0 .. Word - 1
  <2>1. from[i] \in Nat /\ to[i] \in Nat
    BY <1>3, <1>5
  <2>2. (x - from[i]) + to[i] \in Int
    BY <2>1
  <2> QED
    BY <2>2, U32Range
<1> HIDE DEF none, past
<1> QED
  BY <1>2, <1>4, <1>5

(***************************************************************************)
(* A section table in order: no section reaches into a later one, in the   *)
(* image or in the file, or beyond 32 bits.                                *)
(***************************************************************************)
Ascending(sections) ==
  /\ Len(sections) \in Nat /\ DOMAIN sections = 1 .. Len(sections)
  /\ \A s \in DOMAIN sections :
       /\ sections[s].rva \in Nat /\ sections[s].virtualSize \in Nat
       /\ sections[s].offset \in Nat /\ sections[s].rawSize \in Nat
       /\ sections[s].rva + sections[s].virtualSize < Word
       /\ sections[s].rva + sections[s].rawSize < Word
       /\ sections[s].offset + sections[s].rawSize < Word
  /\ \A s, t \in DOMAIN sections :
       s < t => /\ sections[s].rva + sections[s].rawSize <= sections[t].rva
                /\ sections[s].offset + sections[s].rawSize <= sections[t].offset

(***************************************************************************)
(* Between the two addresses of a byte of raw data, rvaToOffset and        *)
(* offsetToRVA lead back and forth, unless the last section is too small   *)
(* in the image for it to be found.                                        *)
(***************************************************************************)
THEOREM RawDataTranslated ==
  ASSUME NEW sections, Ascending(sections), NEW s \in DOMAIN sections,
         NEW o \in 0 .. sections[s].rawSize - 1
  PROVE  /\ rvaToOffset(sections[s].rva + o, sections) \in {0, sections[s].offset + o}
         /\ o < sections[s].virtualSize =>
              rvaToOffset(sections[s].rva + o, sections) = sections[s].offset + o
         /\ offsetToRVA(sections[s].offset + o, sections) = sections[s].rva + o
<1> DEFINE n    == Len(sections)
           rva  == Column(sections, "rva")
           virt == Column(sections, "virtualSize")
           off  == Column(sections, "offset")
           raw  == Column(sections, "rawSize")
<1>1. n \in Nat /\ DOMAIN sections = 1 .. n
  BY DEF Ascending
<1>2. /\ rva \in [1 .. n -> Nat] /\ virt \in [1 .. n -> Nat]
      /\ off \in [1 .. n -> Nat] /\ raw \in [1 .. n -> Nat]
      /\ \A t \in 1 .. n : /\ sections[t].rva = rva[t] /\ sections[t].virtualSize = virt[t]
                           /\ sections[t].offset = off[t] /\ sections[t].rawSize = raw[t]
  BY DEF Ascending, Column
<1>3. /\ \A t \in 1 .. n : /\ rva[t] + virt[t] < Word /\ rva[t] + raw[t] < Word
                           /\ off[t] + raw[t] < Word
      /\ \A t \in 1 .. n : s < t => /\ rva[s] + raw[s] <= rva[t]
                                    /\ off[s] + raw[s] <= off[t]
  BY <1>1, <1>2 DEF Ascending
<1>4. s \in 1 .. n /\ n \in 1 .. n /\ n \in Nat \ {0} /\ o \in 0 .. raw[s] - 1
  BY <1>1, <1>2
<1> HIDE DEF n, rva, virt, off, raw
<1>5. /\ rva[s] \in Nat /\ off[s] \in Nat /\ raw[s] \in Nat /\ virt[s] \in Nat
      /\ rva[n] \in Nat /\ off[n] \in Nat /\ raw[n] \in Nat /\ virt[n] \in Nat
      /\ o \in Nat /\ o < raw[s] /\ (s = n \/ s < n)
  BY <1>2, <1>4
<1>6. rva[s] + o < Word /\ off[s] + o < Word /\ off[s] + o < off[s] + raw[s]
  BY <1>3, <1>4, <1>5, WordAssumption
<1>7. /\ \A t \in 1 .. n : s < t => rva[s] + o < rva[t]
      /\ \A t \in 1 .. n : s < t => off[s] + o < off[t]
  <2> SUFFICES ASSUME NEW t \in 1 .. n, s < t
               PROVE  rva[s] + o < rva[t] /\ off[s] + o < off[t]
    OBVIOUS
  <2>1. /\ rva[s] + raw[s] <= rva[t] /\ off[s] + raw[s] <= off[t]
        /\ rva[t] \in Nat /\ off[t] \in Nat
    BY <1>2, <1>3
  <2> QED
    BY <1>5, <2>1
<1>8. ASSUME rva[s] + o < rva[n] + virt[n]
      PROVE  Translate(rva[s] + o, rva, virt, off) = off[s] + o
  <2>1. rva[n] + virt[n] < Word
    BY <1>3, <1>4
  <2>2. InReach(n, rva, virt, off, s, o)
    BY <1>2, <1>4, <1>5, <1>6, <1>7, <1>8, <2>1 DEF InReach
  <2> QED
    BY <2>2, TranslateBy
<1>9. ASSUME ~(rva[s] + o < rva[n] + virt[n])
      PROVE  Translate(rva[s] + o, rva, virt, off) = 0
  <2>1. rva[n] + virt[n] < Word /\ rva[n] + virt[n] \in Nat
    BY <1>3, <1>4, <1>5
  <2>2. U32(rva[n] + virt[n]) = rva[n] + virt[n]
    BY <2>1, U32Plain
  <2>3. n > 0 /\ rva[s] + o >= U32(rva[n] + virt[n])
    BY <1>4, <1>5, <1>9, <2>1, <2>2
  <2>4. DOMAIN rva = 1 .. n /\ n \in Nat
    BY <1>2, <1>4
  <2>5. Cardinality(1 .. n) = n
    BY <2>4, FS_Interval
  <2> QED
    BY <2>3, <2>4, <2>5 DEF Translate
<1>10. o < virt[s] => rva[s] + o < rva[n] + virt[n]
  <2>1. s < n => rva[s] + o < rva[n]
    BY <1>4, <1>7
  <2> QED
    BY <1>5, <2>1
<1>11. Translate(off[s] + o, off, raw, rva) = rva[s] + o
  <2>1. off[s] + o < off[n] + raw[n]
    <3>1. s < n => off[s] + o < off[n]
      BY <1>4, <1>7
    <3> QED
      BY <1>5, <3>1
  <2>2. off[n] + raw[n] < Word
    BY <1>3, <1>4
  <2>3. InReach(n, off, raw, rva, s, o)
    BY <1>2, <1>4, <1>5, <1>6, <1>7, <2>1, <2>2 DEF InReach
  <2> QED
    BY <2>3, TranslateBy
<1>12. /\ sections[s].rva = rva[s] /\ sections[s].offset = off[s]
       /\ sections[s].virtualSize = virt[s]
  BY <1>2, <1>4
<1>13. /\ rvaToOffset(rva[s] + o, sections) = Translate(rva[s] + o, rva, virt, off)
       /\ offsetToRVA(off[s] + o, sections) = Translate(off[s] + o, off, raw, rva)
  BY DEF rvaToOffset, RVAtoOffset, offsetToRVA, rva, virt, off, raw
<1> QED
  BY <1>8, <1>9, <1>10, <1>11, <1>12, <1>13
-----------------------------------------------------------------------------
(* Induction, and what it says of the sum that is the libraries' size.     *)

(* A set of naturals has a least element.                                  *)
LEMMA LeastNat ==
  ASSUME NEW T, T \subseteq Nat, T # {}
  PROVE  \E x \in T : \A y \in T : x <= y
<1>1. PICK x \in T : \A y \in T : ~(<<y, x>> \in OpToRel(<, Nat))
  BY NatLessThanWellFounded, WFMin, Zenon
<1>2. ASSUME NEW y \in T PROVE x <= y
  <2>1. <<y, x>> \in Nat \X Nat
    OBVIOUS
  <2>2. ~(y < x)
    BY <1>1, <2>1 DEF OpToRel
  <2> QED
    BY <2>2
<1> QED
  BY <1>2

LEMMA Induction ==
  ASSUME NEW S, 0 \in S, \A n \in Nat : n \in S => n + 1 \in S
  PROVE  Nat \subseteq S
<1> SUFFICES ASSUME Nat \ S # {} PROVE FALSE
  OBVIOUS
<1>1. PICK x \in Nat \ S : \A y \in Nat \ S : x <= y
  BY LeastNat
<1>2. x - 1 \in Nat /\ x - 1 \in S /\ (x - 1) + 1 = x
  BY <1>1
<1> QED
  BY <1>1, <1>2

LEMMA SameFunction ==
  ASSUME NEW S, NEW f, NEW g, f = [x \in S |-> f[x]], g = [x \in S |-> g[x]],
         \A x \in S : f[x] = g[x]
  PROVE  f = g
<1>1. [x \in S |-> f[x]] = [x \in S |-> g[x]]
  OBVIOUS
<1> QED
  BY <1>1, Zenon

(* There is such a sum: of one table more than of those before it.         *)
LEMMA SumExists ==
  ASSUME NEW a \in Nat, NEW b \in Nat, NEW c \in Seq(Nat)
  PROVE  \E f : f = [k \in 1 .. Len(c) + 1 |->
                      IF k = 1 THEN a ELSE f[k - 1] + b + 4 * c[k - 1]]
<1> DEFINE Sum(f, m) == f = [k \in 1 .. m + 1 |->
                               IF k = 1 THEN a ELSE f[k - 1] + b + 4 * c[k - 1]]
           Have == {m \in Nat : \E f : Sum(f, m)}
<1>1. 0 \in Have
  <2> DEFINE f == [k \in 1 .. 0 + 1 |-> a]
  <2>1. Sum(f, 0)
    OBVIOUS
  <2> QED
    BY <2>1
<1>2. ASSUME NEW m \in Nat, m \in Have PROVE m + 1 \in Have
  <2>1. PICK f : Sum(f, m)
    BY <1>2
  <2> DEFINE g == [k \in 1 .. (m + 1) + 1 |->
                     IF k = (m + 1) + 1 THEN f[m + 1] + b + 4 * c[m + 1] ELSE f[k]]
             h == [k \in 1 .. (m + 1) + 1 |->
                     IF k = 1 THEN a ELSE g[k - 1] + b + 4 * c[k - 1]]
  <2>2. ASSUME NEW k \in 1 .. (m + 1) + 1 PROVE g[k] = h[k]
    <3>1. CASE k = 1
      <4>1. 1 \in 1 .. m + 1 /\ 1 # (m + 1) + 1
        OBVIOUS
      <4>2. f[1] = a
        BY <2>1, <4>1
      <4> QED
        BY <3>1, <4>1, <4>2
    <3>2. CASE k = (m + 1) + 1
      <4>1. k # 1 /\ k - 1 = m + 1 /\ m + 1 # (m + 1) + 1 /\ m + 1 \in 1 .. (m + 1) + 1
        BY <3>2
      <4>2. g[m + 1] = f[m + 1]
        BY <4>1
      <4>3. g[k] = f[m + 1] + b + 4 * c[m + 1]
        BY <3>2
      <4>4. h[k] = g[m + 1] + b + 4 * c[m + 1]
        BY <4>1
      <4> QED
        BY <4>2, <4>3, <4>4
    <3>3. CASE k # 1 /\ k # (m + 1) + 1
      <4>1. k \in 1 .. m + 1 /\ k - 1 \in 1 .. (m + 1) + 1 /\ k - 1 # (m + 1) + 1
        BY <3>3
      <4>2. f[k] = f[k - 1] + b + 4 * c[k - 1]
        BY <2>1, <3>3, <4>1
      <4>3. g[k] = f[k] /\ g[k - 1] = f[k - 1]
        BY <3>3, <4>1
      <4>4. h[k] = g[k - 1] + b + 4 * c[k - 1]
        BY <3>3
      <4> QED
        BY <4>2, <4>3, <4>4
    <3> QED
      BY <3>1, <3>2, <3>3
  <2>3. g = h
    <3> HIDE DEF Have
    <3>1. g = [k \in 1 .. (m + 1) + 1 |-> g[k]] /\ h = [k \in 1 .. (m + 1) + 1 |-> h[k]]
      OBVIOUS
    <3>2. \A k \in 1 .. (m + 1) + 1 : g[k] = h[k]
      BY <2>2
    <3> HIDE DEF g, h
    <3> QED
      BY <3>1, <3>2, SameFunction, Zenon
  <2>4. Sum(g, m + 1)
    BY <2>3
  <2> HIDE DEF g, Sum
  <2>5. \E e : Sum(e, m + 1)
    BY <2>4
  <2> QED
    BY <2>5
<1>3. Nat \subseteq Have
  <2> HIDE DEF Have
  <2> QED
    BY <1>1, <1>2, Induction
<1>4. Len(c) \in Have
  BY <1>3
<1> QED
  BY <1>4

(* The sum, step by step.                                                  *)
LEMMA TableAtStep ==
  ASSUME NEW n \in Nat, NEW c \in Seq(Nat)
  PROVE  /\ ImportTableAt(n, c)[1] = 12 + n
         /\ \A k \in 1 .. Len(c) :
              ImportTableAt(n, c)[k + 1] = ImportTableAt(n, c)[k] + 40 + 4 * c[k]
<1>1. Len(c) \in Nat
  OBVIOUS
<1>2. ImportTableAt(n, c) =
        [k \in 1 .. Len(c) + 1 |->
           IF k = 1 THEN SizeofImportLibraries + n
           ELSE ImportTableAt(n, c)[k - 1] + SizeofImportTable + 4 * c[k - 1]]
  <2> DEFINE Sum(f) == f = [k \in 1 .. Len(c) + 1 |->
                              IF k = 1 THEN SizeofImportLibraries + n
                              ELSE f[k - 1] + SizeofImportTable + 4 * c[k - 1]]
  <2>1. SizeofImportLibraries + n \in Nat /\ SizeofImportTable \in Nat
    BY DEF SizeofImportLibraries, SizeofImportTable
  <2>2. \E f : Sum(f)
    <3>1. \A a \in Nat, b \in Nat :
            \E f : f = [k \in 1 .. Len(c) + 1 |->
                        IF k = 1 THEN a ELSE f[k - 1] + b + 4 * c[k - 1]]
      BY SumExists
    <3> QED
      BY <2>1, <3>1, Zenon
  <2>3. ImportTableAt(n, c) = CHOOSE f : Sum(f)
    BY Zenon DEF ImportTableAt
  <2> HIDE DEF Sum
  <2>4. Sum(ImportTableAt(n, c))
    BY <2>2, <2>3, Zenon
  <2> QED
    BY <2>4 DEF Sum
<1> DEFINE at == ImportTableAt(n, c)
<1> HIDE DEF at
<1>3. at[1] = 12 + n
  BY <1>1, <1>2 DEF at, SizeofImportLibraries
<1>4. ASSUME NEW k \in 1 .. Len(c) PROVE at[k + 1] = at[k] + 40 + 4 * c[k]
  <2>1. k + 1 \in 1 .. Len(c) + 1 /\ k + 1 # 1 /\ (k + 1) - 1 = k
    BY <1>1
  <2> QED
    BY <1>2, <2>1 DEF at, SizeofImportTable
<1> QED
  BY <1>3, <1>4 DEF at

(* It ascends, from behind the names.                                      *)
LEMMA TableAtAscends ==
  ASSUME NEW n \in Nat, NEW c \in Seq(Nat)
  PROVE  /\ \A k \in 1 .. Len(c) + 1 : ImportTableAt(n, c)[k] \in Nat
         /\ \A k \in 1 .. Len(c) + 1 : /\ 12 + n <= ImportTableAt(n, c)[k]
                                       /\ ImportTableAt(n, c)[k] <= ImportLibrariesSize(n, c)
<1> DEFINE at == ImportTableAt(n, c)
           m  == Len(c)
<1>1. m \in Nat /\ \A k \in 1 .. m : c[k] \in Nat
  OBVIOUS
<1>2. at[1] = 12 + n /\ \A k \in 1 .. m : at[k + 1] = at[k] + 40 + 4 * c[k]
  BY TableAtStep
<1> HIDE DEF at, m
<1> DEFINE Up == {k \in Nat : k + 1 \in 1 .. m + 1 => at[k + 1] \in Nat /\ 12 + n <= at[k + 1]}
<1>3. Nat \subseteq Up
  <2>1. 0 \in Up
    BY <1>2
  <2>2. ASSUME NEW k \in Nat, k \in Up PROVE k + 1 \in Up
    <3>1. CASE (k + 1) + 1 \in 1 .. m + 1
      <4>1. k + 1 \in 1 .. m /\ k + 1 \in 1 .. m + 1
        BY <1>1, <3>1
      <4>2. at[k + 1] \in Nat /\ 12 + n <= at[k + 1] /\ c[k + 1] \in Nat
        BY <1>1, <2>2, <4>1
      <4>3. at[(k + 1) + 1] = at[k + 1] + 40 + 4 * c[k + 1]
        BY <1>2, <4>1
      <4> QED
        BY <4>2, <4>3
    <3>2. CASE (k + 1) + 1 \notin 1 .. m + 1
      BY <3>2
    <3> QED
      BY <3>1, <3>2
  <2> HIDE DEF Up
  <2> QED
    BY <2>1, <2>2, Induction
<1>4. \A k \in 1 .. m + 1 : at[k] \in Nat /\ 12 + n <= at[k]
  <2> TAKE k \in 1 .. m + 1
  <2>1. k - 1 \in Nat /\ (k - 1) + 1 = k
    BY <1>1
  <2> QED
    BY <1>3, <2>1
<1> DEFINE Down == {d \in Nat : d <= m => at[(m + 1) - d] <= at[m + 1]}
<1>5. Nat \subseteq Down
  <2>1. 0 \in Down
    BY <1>1, <1>4
  <2>2. ASSUME NEW d \in Nat, d \in Down PROVE d + 1 \in Down
    <3>1. CASE d + 1 <= m
      <4>1. /\ (m + 1) - d = ((m + 1) - (d + 1)) + 1 /\ (m + 1) - (d + 1) \in 1 .. m
            /\ (m + 1) - d \in 1 .. m + 1 /\ (m + 1) - (d + 1) \in 1 .. m + 1
            /\ m + 1 \in 1 .. m + 1 /\ d <= m
        BY <1>1, <3>1
      <4>2. at[(m + 1) - d] <= at[m + 1]
        BY <2>2, <4>1
      <4>3. at[(m + 1) - d] = at[(m + 1) - (d + 1)] + 40 + 4 * c[(m + 1) - (d + 1)]
        BY <1>2, <4>1
      <4>4. /\ at[(m + 1) - d] \in Nat /\ at[(m + 1) - (d + 1)] \in Nat /\ at[m + 1] \in Nat
            /\ c[(m + 1) - (d + 1)] \in Nat
        BY <1>1, <1>4, <4>1
      <4>5. at[(m + 1) - (d + 1)] <= at[m + 1]
        BY <4>2, <4>3, <4>4
      <4> QED
        BY <4>5
    <3>2. CASE ~(d + 1 <= m)
      BY <3>2
    <3> QED
      BY <3>1, <3>2
  <2> HIDE DEF Down
  <2> QED
    BY <2>1, <2>2, Induction
<1>6. \A k \in 1 .. m + 1 : at[k] <= at[m + 1]
  <2> TAKE k \in 1 .. m + 1
  <2>1. (m + 1) - k \in Nat /\ (m + 1) - k <= m /\ (m + 1) - ((m + 1) - k) = k
    BY <1>1
  <2>2. (m + 1) - k \in Down
    BY <1>5, <2>1
  <2> QED
    BY <2>1, <2>2
<1> QED
  BY <1>4, <1>6 DEF at, m, ImportLibrariesSize
=============================================================================
