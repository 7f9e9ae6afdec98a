-------------------------- MODULE OptHeadersProofs --------------------------
(***************************************************************************)
(* The invariants of setOptHeaders and setImportLibsInfo, for every set of *)
(* import tables and on either kind of host.  First come the lengths of    *)
(* texts, and how a name is cut, by positions in it; then what holds of    *)
(* entries, tables and hashes; then what does of names, versions and sizes.*)
(***************************************************************************)
EXTENDS OptHeaders, DataStorageProofs, SequenceTheorems

(* The length of one element of a text.                                    *)
LengthOf(c) == IF c \in DOMAIN FileNames THEN FileNames[c] ELSE 1

LEMMA Lengths ==
  /\ \A c : LengthOf(c) \in Nat \ {0}
  /\ LengthOf("xboxkrnl") = 12 /\ LengthOf("xam") = 7 /\ LengthOf("xbdm") = 8
<1>1. DOMAIN FileNames = {"xboxkrnl", "xam", "xbdm", "other"}
  BY DEF FileNames
<1>2. /\ FileNames["xboxkrnl"] = 12 /\ FileNames["xam"] = 7 /\ FileNames["xbdm"] = 8
      /\ FileNames["other"] = 9
  BY DEF FileNames
<1>3. ASSUME NEW c PROVE LengthOf(c) \in Nat \ {0}
  BY <1>1, <1>2 DEF LengthOf
<1> QED
  BY <1>1, <1>2, <1>3 DEF LengthOf

(* A fold over positions: there is one, for any way to choose the next.    *)
IsFold(f, n, next, w) ==
  f = [S \in SUBSET (1 .. n) |-> IF S = {} THEN 0 ELSE f[S \ {next[S]}] + w[next[S]]]

LEMMA FoldExists ==
  ASSUME NEW n \in Nat, NEW next, \A S \in SUBSET (1 .. n) : S # {} => next[S] \in S,
         NEW w
  PROVE  \E f : IsFold(f, n, next, w)
<1> DEFINE Sets     == SUBSET (1 .. n)
           Step(f, S) == IF S = {} THEN 0 ELSE f[S \ {next[S]}] + w[next[S]]
           Upto(f, m) == \A S \in Sets : Cardinality(S) <= m => f[S] = Step(f, S)
           Have == {m \in Nat : \E f : f = [S \in Sets |-> f[S]] /\ Upto(f, m)}
<1>1. \A S \in Sets : IsFiniteSet(S) /\ Cardinality(S) \in Nat /\ Cardinality(S) <= n
  <2>1. IsFiniteSet(1 .. n) /\ Cardinality(1 .. n) = n
    BY FS_Interval
  <2> SUFFICES ASSUME NEW S \in Sets
               PROVE  IsFiniteSet(S) /\ Cardinality(S) \in Nat /\ Cardinality(S) <= n
    OBVIOUS
  <2>2. IsFiniteSet(S) /\ Cardinality(S) <= n
    <3>1. S \in SUBSET (1 .. n)
      OBVIOUS
    <3>2. IsFiniteSet(S) /\ Cardinality(S) <= Cardinality(1 .. n)
      BY <2>1, <3>1, FS_Subset, Zenon
    <3> QED
      BY <2>1, <3>2
  <2> QED
    BY <2>2, FS_CardinalityType
<1>2. \A S \in Sets : S # {} => /\ S \ {next[S]} \in Sets
                                /\ Cardinality(S \ {next[S]}) = Cardinality(S) - 1
  BY <1>1, FS_RemoveElement
<1>3. 0 \in Have
  <2> DEFINE f == [S \in Sets |-> 0]
  <2>1. \A S \in Sets : Cardinality(S) <= 0 => S = {}
    BY <1>1, FS_EmptySet
  <2>2. Upto(f, 0)
    BY <2>1
  <2>3. f = [S \in Sets |-> f[S]]
    OBVIOUS
  <2> HIDE DEF f, Upto, Sets
  <2> QED
    BY <2>2, <2>3
<1>4. ASSUME NEW m \in Nat, m \in Have PROVE m + 1 \in Have
  <2>1. PICK f : f = [S \in Sets |-> f[S]] /\ Upto(f, m)
    BY <1>4
  <2> DEFINE g == [S \in Sets |-> Step(f, S)]
  <2>2. ASSUME NEW S \in Sets, Cardinality(S) <= m + 1 PROVE g[S] = Step(g, S)
    <3>1. CASE S = {}
      BY <3>1
    <3>2. CASE S # {}
      <4> DEFINE R == S \ {next[S]}
      <4>1. R \in Sets /\ Cardinality(R) <= m
        BY <1>1, <1>2, <2>2, <3>2
      <4>2. f[R] = Step(f, R)
        BY <2>1, <4>1
      <4>3. g[R] = Step(f, R)
        BY <4>1
      <4>4. g[R] = f[R]
        BY <4>2, <4>3
      <4>5. g[S] = f[R] + w[next[S]]
        BY <3>2
      <4>6. Step(g, S) = g[R] + w[next[S]]
        BY <3>2
      <4> QED
        BY <4>4, <4>5, <4>6
    <3> QED
      BY <3>1, <3>2
  <2>3. g = [S \in Sets |-> g[S]]
    OBVIOUS
  <2>4. Upto(g, m + 1)
    BY <2>2
  <2> HIDE DEF g, Upto, Sets
  <2> QED
    BY <2>3, <2>4
<1>5. n \in Have
  <2> HIDE DEF Have
  <2>1. Nat \subseteq Have
    BY <1>3, <1>4, Induction
  <2> QED
    BY <2>1
<1>6. PICK f : f = [S \in Sets |-> f[S]] /\ Upto(f, n)
  BY <1>5
<1>7. \A S \in Sets : f[S] = Step(f, S)
  BY <1>1, <1>6
<1>8. [S \in Sets |-> f[S]] = [S \in Sets |-> Step(f, S)]
  BY <1>7
<1>9. IsFold(f, n, next, w)
  BY <1>6, <1>8 DEF IsFold
<1> QED
  BY <1>9

(* strlen adds them up from the first.                                     *)
LEMMA StrlenSum ==
  ASSUME NEW Chars, NEW s \in Seq(Chars)
  PROVE  \E len : /\ len[0] = 0
                  /\ \A k \in 1 .. Len(s) : len[k] = len[k - 1] + LengthOf(s[k])
                  /\ strlen(s) = len[Len(s)]
<1> DEFINE n    == Len(s)
           next == [S \in SUBSET (1 .. n) |-> Max(S)]
           w    == [k \in 1 .. n |-> LengthOf(s[k])]
           Fold(f) == IsFold(f, n, next, w)
           Iter(f) == f = [S \in SUBSET DOMAIN s |->
                             IF S = {} THEN 0
                             ELSE f[S \ {Max(S)}] + IF s[Max(S)] \in DOMAIN FileNames
                                                    THEN FileNames[s[Max(S)]] ELSE 1]
<1>1. n \in Nat /\ DOMAIN s = 1 .. n
  OBVIOUS
<1>2. \A S \in SUBSET (1 .. n) : S # {} => Max(S) \in S /\ \A x \in S : x <= Max(S)
  <2> SUFFICES ASSUME NEW S \in SUBSET (1 .. n), S # {}
               PROVE  \E x \in S : \A y \in S : x >= y
    BY DEF Max
  <2>1. S \subseteq Nat /\ \A x \in S : n - x \in Nat
    BY <1>1
  <2> DEFINE T == {n - x : x \in S}
  <2>2. PICK t \in T : \A u \in T : t <= u
    <3>1. T \subseteq Nat /\ T # {}
      BY <2>1
    <3> HIDE DEF T
    <3> QED
      BY <3>1, LeastNat, Zenon
  <2>3. PICK x \in S : t = n - x
    OBVIOUS
  <2>4. ASSUME NEW y \in S PROVE x >= y
    <3>1. n - y \in T /\ x \in Nat /\ y \in Nat
      BY <2>1
    <3>2. n - x <= n - y
      BY <2>2, <2>3, <3>1
    <3> QED
      BY <1>1, <3>1, <3>2
  <2> QED
    BY <2>4
<1>3. \A S \in SUBSET (1 .. n) : S # {} => next[S] \in S
  BY <1>2
<1>4. \E f : Fold(f)
  <2> HIDE DEF next, w, n
  <2>1. n \in Nat
    BY <1>1
  <2>2. \E f : IsFold(f, n, next, w)
    BY <1>3, <2>1, FoldExists, Zenon
  <2> QED
    BY <2>2
<1>5. \A f : Fold(f) => Iter(f)
  <2> TAKE f
  <2> HAVE Fold(f)
  <2>1. ASSUME NEW S \in SUBSET (1 .. n), S # {}
        PROVE  f[S \ {next[S]}] + w[next[S]]
               = f[S \ {Max(S)}] + IF s[Max(S)] \in DOMAIN FileNames
                                   THEN FileNames[s[Max(S)]] ELSE 1
    BY <1>2, <2>1 DEF LengthOf
  <2>2. [S \in SUBSET (1 .. n) |-> IF S = {} THEN 0 ELSE f[S \ {next[S]}] + w[next[S]]]
        = [S \in SUBSET DOMAIN s |->
             IF S = {} THEN 0
             ELSE f[S \ {Max(S)}] + IF s[Max(S)] \in DOMAIN FileNames
                                    THEN FileNames[s[Max(S)]] ELSE 1]
    <3> HIDE DEF next, w, n
    <3> QED
      BY <1>1, <2>1
  <2> QED
    BY <2>2, Zenon DEF IsFold
<1>6. strlen(s) = (CHOOSE f : Iter(f))[DOMAIN s]
  BY Zenon DEF strlen, FoldLeft, MapThenFoldSet
<1> DEFINE f == CHOOSE g : Iter(g)
<1>7. Iter(f)
  <2> HIDE DEF Iter, Fold
  <2> QED
    BY <1>4, <1>5
<1> HIDE DEF f
<1> DEFINE len == [k \in 0 .. n |-> f[1 .. k]]
<1>8. len[0] = 0
  <2>1. 1 .. 0 = {} /\ 1 .. 0 \in SUBSET DOMAIN s
    OBVIOUS
  <2>2. f[{}] = 0
    BY <1>7
  <2> QED
    BY <1>1, <2>1, <2>2
<1>9. ASSUME NEW k \in 1 .. n PROVE len[k] = len[k - 1] + LengthOf(s[k])
  <2>1. 1 .. k \in SUBSET DOMAIN s /\ 1 .. k # {} /\ k \in 1 .. k
    <3>1. 1 .. k \subseteq 1 .. n /\ k \in 1 .. k
      BY <1>1
    <3> HIDE DEF n
    <3> QED
      BY <1>1, <3>1
  <2>2. Max(1 .. k) = k
    <3>1. Max(1 .. k) \in 1 .. k /\ k <= Max(1 .. k)
      BY <1>1, <1>2, <2>1
    <3> QED
      BY <1>1, <3>1
  <2>3. (1 .. k) \ {k} = 1 .. k - 1
    BY <1>1
  <2>4. f[1 .. k] = f[(1 .. k) \ {Max(1 .. k)}] + IF s[Max(1 .. k)] \in DOMAIN FileNames
                                                  THEN FileNames[s[Max(1 .. k)]] ELSE 1
    <3> DEFINE S == 1 .. k
    <3>1. S \in SUBSET DOMAIN s /\ S # {}
      BY <2>1
    <3> HIDE DEF S
    <3>2. f[S] = f[S \ {Max(S)}] + IF s[Max(S)] \in DOMAIN FileNames
                                   THEN FileNames[s[Max(S)]] ELSE 1
      BY <1>7, <3>1
    <3> QED
      BY <3>2 DEF S
  <2>5. f[1 .. k] = f[1 .. k - 1] + LengthOf(s[k])
    BY <2>2, <2>3, <2>4 DEF LengthOf
  <2>6. k \in 0 .. n /\ k - 1 \in 0 .. n
    BY <1>1
  <2> QED
    BY <2>5, <2>6
<1>10. strlen(s) = len[Len(s)]
  <2>1. strlen(s) = f[DOMAIN s]
    BY <1>6 DEF f
  <2> QED
    BY <1>1, <2>1
<1> HIDE DEF len
<1> QED
  BY <1>8, <1>9, <1>10

LEMMA StrlenNat ==
  ASSUME NEW Chars, NEW s \in Seq(Chars)
  PROVE  strlen(s) \in Nat /\ (s # <<>> => strlen(s) > 0)
<1>1. PICK len : /\ len[0] = 0
                 /\ \A k \in 1 .. Len(s) : len[k] = len[k - 1] + LengthOf(s[k])
                 /\ strlen(s) = len[Len(s)]
  BY StrlenSum
<1>2. Len(s) \in Nat
  OBVIOUS
<1> DEFINE Up == {k \in Nat : k <= Len(s) => len[k] \in Nat /\ (k > 0 => len[k] > 0)}
<1>3. 0 \in Up
  BY <1>1
<1>4. ASSUME NEW k \in Nat, k \in Up PROVE k + 1 \in Up
  <2>1. CASE k + 1 <= Len(s)
    <3>1. k + 1 \in 1 .. Len(s) /\ (k + 1) - 1 = k /\ len[k] \in Nat
      BY <1>2, <1>4, <2>1
    <3>2. len[k + 1] = len[k] + LengthOf(s[k + 1])
      BY <1>1, <3>1
    <3> QED
      BY <3>1, <3>2, Lengths
  <2> QED
    BY <2>1
<1>5. Len(s) \in Up
  <2> HIDE DEF Up
  <2>1. Nat \subseteq Up
    BY <1>3, <1>4, Induction
  <2> QED
    BY <1>2, <2>1
<1>6. s # <<>> => Len(s) > 0
  OBVIOUS
<1> QED
  BY <1>1, <1>2, <1>5, <1>6

LEMMA StrlenConcat ==
  ASSUME NEW Chars, NEW s \in Seq(Chars), NEW t \in Seq(Chars)
  PROVE  strlen(s \o t) = strlen(s) + strlen(t)
<1> DEFINE m == Len(s)
           n == Len(t)
           u == s \o t
<1>1. /\ m \in Nat /\ n \in Nat /\ u \in Seq(Chars) /\ Len(u) = m + n
      /\ \A k \in 1 .. m : u[k] = s[k]
      /\ \A k \in 1 .. n : u[m + k] = t[k]
  OBVIOUS
<1> HIDE DEF m, n, u
<1>2. PICK a : /\ a[0] = 0
               /\ \A k \in 1 .. m : a[k] = a[k - 1] + LengthOf(s[k])
               /\ strlen(s) = a[m]
  BY StrlenSum DEF m
<1>3. PICK b : /\ b[0] = 0
               /\ \A k \in 1 .. n : b[k] = b[k - 1] + LengthOf(t[k])
               /\ strlen(t) = b[n]
  BY StrlenSum DEF n
<1>4. PICK c : /\ c[0] = 0
               /\ \A k \in 1 .. m + n : c[k] = c[k - 1] + LengthOf(u[k])
               /\ strlen(u) = c[m + n]
  BY <1>1, StrlenSum
<1> DEFINE First == {k \in Nat : k <= m => c[k] = a[k] /\ a[k] \in Nat}
<1>5. m \in First
  <2>1. 0 \in First
    BY <1>2, <1>4
  <2>2. ASSUME NEW k \in Nat, k \in First PROVE k + 1 \in First
    <3>1. CASE k + 1 <= m
      <4>1. /\ k + 1 \in 1 .. m /\ k + 1 \in 1 .. m + n /\ (k + 1) - 1 = k
            /\ c[k] = a[k] /\ a[k] \in Nat
        BY <1>1, <2>2, <3>1
      <4>2. /\ a[k + 1] = a[k] + LengthOf(s[k + 1])
            /\ c[k + 1] = c[k] + LengthOf(u[k + 1])
            /\ u[k + 1] = s[k + 1]
        BY <1>1, <1>2, <1>4, <4>1
      <4>3. LengthOf(s[k + 1]) \in Nat
        BY Lengths
      <4> QED
        BY <4>1, <4>2, <4>3
    <3> QED
      BY <3>1
  <2> HIDE DEF First
  <2>3. Nat \subseteq First
    BY <2>1, <2>2, Induction
  <2> QED
    BY <1>1, <2>3
<1> DEFINE Then == {k \in Nat : k <= n => c[m + k] = a[m] + b[k] /\ b[k] \in Nat}
<1>6. n \in Then
  <2>0. c[m] = a[m] /\ a[m] \in Nat
    BY <1>1, <1>5
  <2>1. 0 \in Then
    BY <1>1, <1>3, <2>0
  <2>2. ASSUME NEW k \in Nat, k \in Then PROVE k + 1 \in Then
    <3>1. CASE k + 1 <= n
      <4>1. /\ k + 1 \in 1 .. n /\ m + (k + 1) \in 1 .. m + n /\ (k + 1) - 1 = k
            /\ (m + (k + 1)) - 1 = m + k
            /\ c[m + k] = a[m] + b[k] /\ b[k] \in Nat
        <5>1. /\ m \in Nat /\ n \in Nat /\ k + 1 <= n
              /\ k <= n => c[m + k] = a[m] + b[k] /\ b[k] \in Nat
          BY <1>1, <2>2, <3>1
        <5> HIDE DEF Then, m, n, u
        <5> QED
          BY <5>1
      <4>2. /\ b[k + 1] = b[k] + LengthOf(t[k + 1])
            /\ c[m + (k + 1)] = c[m + k] + LengthOf(u[m + (k + 1)])
            /\ u[m + (k + 1)] = t[k + 1]
        BY <1>1, <1>3, <1>4, <4>1
      <4>3. LengthOf(t[k + 1]) \in Nat
        BY Lengths
      <4> QED
        BY <2>0, <4>1, <4>2, <4>3
    <3> QED
      BY <3>1
  <2> HIDE DEF Then
  <2>3. Nat \subseteq Then
    BY <2>1, <2>2, Induction
  <2> QED
    BY <1>1, <2>3
<1> QED
  BY <1>1, <1>2, <1>3, <1>4, <1>6 DEF u

LEMMA StrlenOne ==
  ASSUME NEW Chars, NEW c \in Chars
  PROVE  strlen(<<c>>) = LengthOf(c)
<1> DEFINE s == <<c>>
<1>1. s \in Seq(Chars) /\ Len(s) = 1 /\ s[1] = c
  OBVIOUS
<1> HIDE DEF s
<1>2. PICK len : /\ len[0] = 0
                 /\ \A k \in 1 .. Len(s) : len[k] = len[k - 1] + LengthOf(s[k])
                 /\ strlen(s) = len[Len(s)]
  BY <1>1, StrlenSum
<1>3. strlen(s) = len[1] /\ len[1] = 0 + LengthOf(c)
  BY <1>1, <1>2
<1> QED
  BY <1>3, Lengths DEF s

-----------------------------------------------------------------------------
(* What is left of a text from a position on.                              *)
From(s, p) == SubSeq(s, p, Len(s))

(* A part of a text.                                                       *)
LEMMA PartOf ==
  ASSUME NEW Chars, NEW s \in Seq(Chars), NEW a \in 1 .. Len(s) + 1, NEW b \in a - 1 .. Len(s)
  PROVE  /\ SubSeq(s, a, b) \in Seq(Chars) /\ Len(SubSeq(s, a, b)) = b - a + 1
         /\ DOMAIN SubSeq(s, a, b) = 1 .. b - a + 1
         /\ \A k \in 1 .. b - a + 1 : SubSeq(s, a, b)[k] = s[a + k - 1]
         /\ SubSeq(s, a, b) = <<>> <=> b = a - 1
<1>1. Len(s) \in Nat /\ a \in Int /\ b \in Int /\ b - a + 1 \in Nat
  OBVIOUS
<1>2. \A k \in a .. b : s[k] \in Chars
  BY <1>1
<1>3. /\ SubSeq(s, a, b) \in Seq(Chars)
      /\ Len(SubSeq(s, a, b)) = IF a <= b THEN b - a + 1 ELSE 0
      /\ \A k \in 1 .. b - a + 1 : SubSeq(s, a, b)[k] = s[a + k - 1]
  BY <1>1, <1>2, SubSeqProperties
<1> DEFINE t == SubSeq(s, a, b)
<1>4. Len(t) = b - a + 1
  BY <1>1, <1>3
<1> HIDE DEF t
<1>5. t \in Seq(Chars)
  BY <1>3 DEF t
<1>6. DOMAIN t = 1 .. b - a + 1 /\ (t = <<>> <=> b = a - 1)
  <2>1. DOMAIN t = 1 .. Len(t) /\ (t = <<>> <=> Len(t) = 0)
    BY <1>5
  <2> QED
    BY <1>1, <1>4, <2>1
<1> QED
  BY <1>3, <1>4, <1>6 DEF t

(* A part of what is left is a part of the whole.                          *)
LEMMA PartOfPart ==
  ASSUME NEW Chars, NEW s \in Seq(Chars), NEW p \in 1 .. Len(s) + 1,
         NEW a \in p .. Len(s) + 1, NEW b \in a - 1 .. Len(s)
  PROVE  SubSeq(From(s, p), a - p + 1, b - p + 1) = SubSeq(s, a, b)
<1> DEFINE t == From(s, p)
           u == SubSeq(t, a - p + 1, b - p + 1)
           v == SubSeq(s, a, b)
<1>1. Len(s) \in Nat /\ Len(s) \in p - 1 .. Len(s)
  OBVIOUS
<1>2. /\ t \in Seq(Chars) /\ Len(t) = Len(s) - p + 1
      /\ \A k \in 1 .. Len(s) - p + 1 : t[k] = s[p + k - 1]
  <2>1. /\ SubSeq(s, p, Len(s)) \in Seq(Chars) /\ Len(SubSeq(s, p, Len(s))) = Len(s) - p + 1
        /\ \A k \in 1 .. Len(s) - p + 1 : SubSeq(s, p, Len(s))[k] = s[p + k - 1]
    BY <1>1, PartOf
  <2> QED
    BY <2>1, Zenon DEF From
<1> HIDE DEF t
<1>3. a - p + 1 \in 1 .. Len(t) + 1 /\ b - p + 1 \in (a - p + 1) - 1 .. Len(t)
  BY <1>1, <1>2
<1>4. /\ u \in Seq(Chars) /\ Len(u) = (b - p + 1) - (a - p + 1) + 1
      /\ \A k \in 1 .. (b - p + 1) - (a - p + 1) + 1 : u[k] = t[(a - p + 1) + k - 1]
  <2> DEFINE x == a - p + 1
             y == b - p + 1
  <2>1. t \in Seq(Chars) /\ x \in 1 .. Len(t) + 1 /\ y \in x - 1 .. Len(t)
    BY <1>2, <1>3
  <2> HIDE DEF x, y
  <2>2. /\ SubSeq(t, x, y) \in Seq(Chars) /\ Len(SubSeq(t, x, y)) = y - x + 1
        /\ \A k \in 1 .. y - x + 1 : SubSeq(t, x, y)[k] = t[x + k - 1]
    BY <2>1, PartOf
  <2> QED
    BY <2>2, Zenon DEF x, y
<1>5. /\ v \in Seq(Chars) /\ Len(v) = b - a + 1
      /\ \A k \in 1 .. b - a + 1 : v[k] = s[a + k - 1]
  BY PartOf
<1> HIDE DEF u, v
<1>6. (b - p + 1) - (a - p + 1) + 1 = b - a + 1
  BY <1>1
<1>7. \A k \in 1 .. b - a + 1 : u[k] = v[k]
  <2> TAKE k \in 1 .. b - a + 1
  <2>1. (a - p + 1) + k - 1 \in 1 .. Len(s) - p + 1 /\ p + ((a - p + 1) + k - 1) - 1 = a + k - 1
    BY <1>1
  <2>2. u[k] = t[(a - p + 1) + k - 1]
    BY <1>4, <1>6
  <2>3. t[(a - p + 1) + k - 1] = s[p + ((a - p + 1) + k - 1) - 1]
    BY <1>2, <2>1
  <2> QED
    BY <1>5, <2>1, <2>2, <2>3
<1>8. Len(u) = Len(v)
  BY <1>4, <1>5, <1>6
<1>9. u = v
  BY <1>4, <1>5, <1>7, <1>8, SeqEqual
<1> QED
  BY <1>9 DEF u, v, t

(* Where the first of some characters is, or would be, from p on.          *)
IsFirst(s, p, chars, f) ==
  /\ f \in p .. Len(s) + 1
  /\ \A k \in p .. f - 1 : s[k] \notin chars
  /\ f <= Len(s) => s[f] \in chars

(* FirstIn gives it.                                                       *)
LEMMA FirstIs ==
  ASSUME NEW Chars, NEW s \in Seq(Chars), NEW chars, NEW f, IsFirst(s, 1, chars, f)
  PROVE  FirstIn(s, chars) = f
<1> DEFINE at == {k \in DOMAIN s : s[k] \in chars}
<1>1. /\ Len(s) \in Nat /\ DOMAIN s = 1 .. Len(s) /\ f \in 1 .. Len(s) + 1
      /\ \A k \in 1 .. f - 1 : s[k] \notin chars
      /\ f <= Len(s) => s[f] \in chars
  BY DEF IsFirst
<1>2. CASE f = Len(s) + 1
  <2>1. at = {}
    BY <1>1, <1>2
  <2> QED
    BY <1>2, <2>1 DEF FirstIn
<1>3. CASE f # Len(s) + 1
  <2>1. f \in at /\ \A k \in at : f <= k
    BY <1>1, <1>3
  <2>2. at \subseteq Nat
    BY <1>1
  <2>3. FirstIn(s, chars) = Min(at)
    BY <2>1 DEF FirstIn
  <2> HIDE DEF at
  <2>4. Min(at) = f
    <3>1. \A x \in at : (\A y \in at : x <= y) => x = f
      BY <2>1, <2>2
    <3> QED
      BY <2>1, <3>1 DEF Min
  <2> QED
    BY <2>3, <2>4
<1> QED
  BY <1>2, <1>3

LEMMA FirstExists ==
  ASSUME NEW Chars, NEW s \in Seq(Chars), NEW p \in 1 .. Len(s) + 1, NEW chars
  PROVE  \E f : IsFirst(s, p, chars, f)
<1> DEFINE at == {k \in p .. Len(s) : s[k] \in chars}
<1>1. Len(s) \in Nat
  OBVIOUS
<1>2. CASE at = {}
  <2>1. IsFirst(s, p, chars, Len(s) + 1)
    BY <1>1, <1>2 DEF IsFirst
  <2> QED
    BY <2>1
<1>3. CASE at # {}
  <2>1. at \subseteq Nat /\ at # {}
    BY <1>1, <1>3
  <2>2. PICK f \in at : \A k \in at : f <= k
    <3> HIDE DEF at
    <3> QED
      BY <2>1, LeastNat, Zenon
  <2>3. \A k \in p .. f - 1 : s[k] \notin chars
    BY <1>1, <2>2
  <2>4. IsFirst(s, p, chars, f)
    BY <1>1, <2>2, <2>3 DEF IsFirst
  <2> QED
    BY <2>4
<1> QED
  BY <1>2, <1>3

(* The same in what is left.                                               *)
LEMMA FirstInFrom ==
  ASSUME NEW Chars, NEW s \in Seq(Chars), NEW p \in 1 .. Len(s) + 1, NEW chars, NEW f,
         IsFirst(s, p, chars, f)
  PROVE  FirstIn(From(s, p), chars) = f - p + 1
<1> DEFINE t == From(s, p)
<1>1. Len(s) \in Nat /\ Len(s) \in p - 1 .. Len(s)
  OBVIOUS
<1>2. /\ t \in Seq(Chars) /\ Len(t) = Len(s) - p + 1
      /\ \A k \in 1 .. Len(s) - p + 1 : t[k] = s[p + k - 1]
  BY <1>1, PartOf DEF From
<1> HIDE DEF t
<1>3. /\ f \in p .. Len(s) + 1
      /\ \A k \in p .. f - 1 : s[k] \notin chars
      /\ f <= Len(s) => s[f] \in chars
  BY DEF IsFirst
<1>4. \A k \in 1 .. (f - p + 1) - 1 : t[k] \notin chars
  <2> TAKE k \in 1 .. (f - p + 1) - 1
  <2>1. k \in 1 .. Len(s) - p + 1 /\ p + k - 1 \in p .. f - 1
    BY <1>1, <1>3
  <2> QED
    BY <1>2, <1>3, <2>1
<1>5. f - p + 1 <= Len(t) => t[f - p + 1] \in chars
  <2> SUFFICES ASSUME f - p + 1 <= Len(t) PROVE t[f - p + 1] \in chars
    OBVIOUS
  <2>1. f - p + 1 \in 1 .. Len(s) - p + 1 /\ p + (f - p + 1) - 1 = f /\ f <= Len(s)
    BY <1>1, <1>2, <1>3
  <2> QED
    BY <1>2, <1>3, <2>1
<1>6. f - p + 1 \in 1 .. Len(t) + 1
  BY <1>1, <1>2, <1>3
<1>7. IsFirst(t, 1, chars, f - p + 1)
  BY <1>4, <1>5, <1>6 DEF IsFirst
<1>8. FirstIn(t, chars) = f - p + 1
  <2> DEFINE g == f - p + 1
  <2>1. IsFirst(t, 1, chars, g)
    BY <1>7
  <2> HIDE DEF g
  <2>2. FirstIn(t, chars) = g
    BY <1>2, <2>1, FirstIs, Zenon
  <2> QED
    BY <2>2 DEF g
<1> QED
  BY <1>8 DEF t

(* strtok, from p on, skips to f and cuts at t.                            *)
Cut(s, p, delim, f, t) ==
  /\ f \in p .. Len(s) + 1
  /\ \A k \in p .. f - 1 : s[k] = delim
  /\ f <= Len(s) => s[f] # delim
  /\ IsFirst(s, f, {delim}, t)

(* Where it goes on, behind the delimiter at t.                            *)
Behind(s, t) == IF t <= Len(s) THEN t + 1 ELSE t

(* What strtok then returns, and leaves.                                   *)
LEMMA StrtokCuts ==
  ASSUME NEW Chars, NEW s \in Seq(Chars), NEW p \in 1 .. Len(s) + 1, NEW delim, NEW f, NEW t,
         Cut(s, p, delim, f, t)
  PROVE  strtok(From(s, p), delim)
           = [token |-> SubSeq(s, f, t - 1), rest |-> From(s, Behind(s, t))]
<1> DEFINE n == Len(s)
           all == From(s, p)
           begun == From(s, f)
<1>1. /\ n \in Nat /\ f \in p .. n + 1 /\ t \in f .. n + 1 /\ n \in p - 1 .. n
      /\ f \in 1 .. n + 1 /\ n \in f - 1 .. n /\ t - 1 \in f - 1 .. n
      /\ \A k \in p .. f - 1 : s[k] = delim
      /\ f <= n => s[f] # delim
      /\ IsFirst(s, f, {delim}, t)
  BY DEF Cut, IsFirst
<1>2. /\ all \in Seq(Chars) /\ Len(all) = n - p + 1 /\ DOMAIN all = 1 .. n - p + 1
      /\ \A k \in 1 .. n - p + 1 : all[k] = s[p + k - 1]
  BY <1>1, PartOf DEF From
<1>3. FirstIn(all, ToSet(all) \ {delim}) = f - p + 1
  <2>1. f <= n => s[f] \in ToSet(all)
    <3> SUFFICES ASSUME f <= n PROVE s[f] \in ToSet(all)
      OBVIOUS
    <3>1. f - p + 1 \in 1 .. n - p + 1 /\ p + (f - p + 1) - 1 = f
      BY <1>1
    <3>2. f - p + 1 \in DOMAIN all /\ all[f - p + 1] = s[f]
      BY <1>2, <3>1
    <3> QED
      BY <3>2 DEF ToSet
  <2> HIDE DEF all
  <2> DEFINE chars == ToSet(all) \ {delim}
  <2>2. IsFirst(s, p, chars, f)
    BY <1>1, <2>1 DEF IsFirst
  <2> HIDE DEF chars
  <2> QED
    BY <2>2, FirstInFrom DEF all, chars
<1>4. SubSeq(all, f - p + 1, Len(all)) = begun
  <2>1. SubSeq(From(s, p), f - p + 1, n - p + 1) = SubSeq(s, f, n)
    BY <1>1, PartOfPart
  <2> QED
    BY <1>2, <2>1 DEF From
<1>5. FirstIn(begun, {delim}) = t - f + 1
  BY <1>1, FirstInFrom
<1>6. SubSeq(begun, 1, (t - f + 1) - 1) = SubSeq(s, f, t - 1)
  <2>1. f \in f .. n + 1 /\ f - f + 1 = 1 /\ (t - 1) - f + 1 = (t - f + 1) - 1
    BY <1>1
  <2>2. SubSeq(From(s, f), f - f + 1, (t - 1) - f + 1) = SubSeq(s, f, t - 1)
    BY <1>1, <2>1, PartOfPart
  <2> QED
    BY <2>1, <2>2
<1>7. Len(begun) = n - f + 1
  BY <1>1, PartOf DEF From
<1>8. SubSeq(begun, (t - f + 1) + 1, Len(begun)) = From(s, Behind(s, t))
  <2>1. CASE t <= n
    <3>1. t + 1 \in f .. n + 1 /\ n \in (t + 1) - 1 .. n
      BY <1>1, <2>1
    <3>2. SubSeq(From(s, f), (t + 1) - f + 1, n - f + 1) = SubSeq(s, t + 1, n)
      BY <1>1, <3>1, PartOfPart
    <3>3. (t + 1) - f + 1 = (t - f + 1) + 1
      BY <1>1
    <3> QED
      BY <1>7, <2>1, <3>2, <3>3 DEF From, Behind
  <2>2. CASE ~(t <= n)
    <3>1. (t - f + 1) + 1 \in Int /\ n - f + 1 \in Int /\ n - f + 1 < (t - f + 1) + 1
      BY <1>1, <2>2
    <3>2. SubSeq(begun, (t - f + 1) + 1, n - f + 1) = <<>>
      BY <3>1, SubSeqEmpty
    <3>3. t \in Int /\ n \in Int /\ n < t
      BY <1>1, <2>2
    <3>4. SubSeq(s, t, n) = <<>>
      BY <3>3, SubSeqEmpty
    <3> QED
      BY <1>7, <2>2, <3>2, <3>4 DEF From, Behind
  <2> QED
    BY <2>1, <2>2
<1> HIDE DEF all, begun, n
<1> QED
  BY <1>3, <1>4, <1>5, <1>6, <1>8, ZenonT(60) DEF strtok, all

(* strtok always cuts somewhere, if only at the end.                       *)
LEMMA CutExists ==
  ASSUME NEW Chars, NEW s \in Seq(Chars), NEW p \in 1 .. Len(s) + 1, NEW delim
  PROVE  \E f, t : Cut(s, p, delim, f, t)
<1> DEFINE chars == ToSet(s) \ {delim}
<1>1. Len(s) \in Nat /\ DOMAIN s = 1 .. Len(s)
  OBVIOUS
<1>2. PICK f : IsFirst(s, p, chars, f)
  <2> HIDE DEF chars
  <2> QED
    BY FirstExists
<1>3. \A k \in 1 .. Len(s) : s[k] \in ToSet(s)
  BY <1>1 DEF ToSet
<1>4. /\ f \in p .. Len(s) + 1 /\ f \in 1 .. Len(s) + 1
      /\ \A k \in p .. f - 1 : s[k] = delim
      /\ f <= Len(s) => s[f] # delim
  BY <1>1, <1>2, <1>3 DEF IsFirst
<1>5. PICK t : IsFirst(s, f, {delim}, t)
  BY <1>4, FirstExists
<1>6. Cut(s, p, delim, f, t)
  BY <1>4, <1>5 DEF Cut
<1> QED
  BY <1>6

(* A reader goes from p to the first digit, f, and as far as they go.      *)
LEMMA RunFrom ==
  ASSUME NEW Chars, NEW s \in Seq(Chars), NEW p \in 1 .. Len(s) + 1, NEW f, NEW t,
         IsFirst(s, p, ToSet(Digits), f),
         t \in f .. Len(s) + 1, \A k \in f .. t - 1 : s[k] \in ToSet(Digits),
         t <= Len(s) => s[t] \notin ToSet(Digits)
  PROVE  FirstRun(From(s, p)) = [digits |-> SubSeq(s, f, t - 1), rest |-> From(s, t)]
<1> DEFINE n == Len(s)
           all == From(s, p)
           begun == From(s, f)
           digits == ToSet(Digits)
<1>1. /\ n \in Nat /\ f \in p .. n + 1 /\ n \in p - 1 .. n
      /\ f \in 1 .. n + 1 /\ n \in f - 1 .. n /\ t - 1 \in f - 1 .. n /\ t \in f .. n + 1
      /\ t \in 1 .. n + 1 /\ n \in t - 1 .. n
  BY DEF IsFirst
<1> HIDE DEF digits
<1>2. FirstIn(all, digits) = f - p + 1
  BY FirstInFrom DEF digits
<1>3. Len(all) = n - p + 1
  BY <1>1, PartOf DEF From
<1>4. SubSeq(all, f - p + 1, Len(all)) = begun
  <2>1. SubSeq(From(s, p), f - p + 1, n - p + 1) = SubSeq(s, f, n)
    BY <1>1, PartOfPart
  <2> QED
    BY <1>3, <2>1 DEF From
<1>5. /\ begun \in Seq(Chars) /\ Len(begun) = n - f + 1 /\ DOMAIN begun = 1 .. n - f + 1
      /\ \A k \in 1 .. n - f + 1 : begun[k] = s[f + k - 1]
  BY <1>1, PartOf DEF From
<1>6. FirstIn(begun, ToSet(begun) \ digits) = t - f + 1
  <2>1. t <= n => s[t] \in ToSet(begun)
    <3> SUFFICES ASSUME t <= n PROVE s[t] \in ToSet(begun)
      OBVIOUS
    <3>1. t - f + 1 \in 1 .. n - f + 1 /\ f + (t - f + 1) - 1 = t
      BY <1>1
    <3>2. t - f + 1 \in DOMAIN begun /\ begun[t - f + 1] = s[t]
      BY <1>5, <3>1
    <3> QED
      BY <3>2 DEF ToSet
  <2> HIDE DEF begun
  <2> DEFINE chars == ToSet(begun) \ digits
  <2>2. IsFirst(s, f, chars, t)
    BY <1>1, <2>1 DEF IsFirst, digits
  <2> HIDE DEF chars
  <2> QED
    BY <1>1, <2>2, FirstInFrom DEF begun, chars
<1>7. SubSeq(begun, 1, (t - f + 1) - 1) = SubSeq(s, f, t - 1)
  <2>1. f \in f .. n + 1 /\ f - f + 1 = 1 /\ (t - 1) - f + 1 = (t - f + 1) - 1
    BY <1>1
  <2>2. SubSeq(From(s, f), f - f + 1, (t - 1) - f + 1) = SubSeq(s, f, t - 1)
    BY <1>1, <2>1, PartOfPart
  <2> QED
    BY <2>1, <2>2
<1>8. SubSeq(begun, t - f + 1, Len(begun)) = From(s, t)
  <2>1. SubSeq(From(s, f), t - f + 1, n - f + 1) = SubSeq(s, t, n)
    BY <1>1, PartOfPart
  <2> QED
    BY <1>5, <2>1 DEF From
<1> HIDE DEF all, begun, n
<1> QED
  BY <1>2, <1>4, <1>6, <1>7, <1>8, Zenon DEF FirstRun, all, digits

(* What is a digit, and what in a name is not.                             *)
LEMMA DigitSet ==
  /\ ToSet(Digits) = {"0", "1", "2", "3", "4", "5", "6", "7", "8", "9"}
  /\ \A c \in {"@", ".", "+", "-"} \cup KnownLibraries : c \notin ToSet(Digits)
<1>1. ToSet(Digits) = {"0", "1", "2", "3", "4", "5", "6", "7", "8", "9"}
  BY DEF ToSet, Digits
<1> QED
  BY <1>1 DEF KnownLibraries

(* Where strtok leaves off and cuts is in the text, or just behind it.     *)
LEMMA BehindIn ==
  ASSUME NEW Chars, NEW s \in Seq(Chars), NEW t \in 1 .. Len(s) + 1
  PROVE  Behind(s, t) \in 1 .. Len(s) + 1
<1>1. Len(s) \in Nat
  OBVIOUS
<1> QED
  BY <1>1 DEF Behind

LEMMA CutIn ==
  ASSUME NEW Chars, NEW s \in Seq(Chars), NEW p \in 1 .. Len(s) + 1, NEW delim, NEW f, NEW t,
         Cut(s, p, delim, f, t)
  PROVE  /\ f \in 1 .. Len(s) + 1 /\ t \in 1 .. Len(s) + 1 /\ f >= p /\ t >= f
         /\ t - 1 \in f - 1 .. Len(s)
         /\ \A k \in p .. f - 1 : s[k] = delim
         /\ \A k \in f .. t - 1 : s[k] # delim
         /\ t <= Len(s) => s[t] = delim
<1>1. Len(s) \in Nat
  OBVIOUS
<1>2. /\ f \in p .. Len(s) + 1 /\ t \in f .. Len(s) + 1
      /\ \A k \in p .. f - 1 : s[k] = delim
      /\ \A k \in f .. t - 1 : s[k] # delim
      /\ t <= Len(s) => s[t] = delim
  BY DEF Cut, IsFirst
<1> QED
  BY <1>1, <1>2

(* The pieces that strtok cuts a name into.                                *)
LEMMA TokensCut ==
  ASSUME NEW Chars, NEW s \in Seq(Chars), NEW f1, NEW t1, NEW f2, NEW t2, NEW f3, NEW t3,
         NEW f4, NEW t4, Cut(s, 1, "@", f1, t1), Cut(s, Behind(s, t1), ".", f2, t2),
         Cut(s, Behind(s, t2), "+", f3, t3), Cut(s, Behind(s, t3), ".", f4, t4)
  PROVE  /\ Tokens(s) = <<SubSeq(s, f1, t1 - 1), SubSeq(s, f2, t2 - 1), SubSeq(s, f3, t3 - 1),
                          SubSeq(s, f4, t4 - 1), From(s, Behind(s, t4))>>
         /\ t1 \in 1 .. Len(s) + 1 /\ t2 \in 1 .. Len(s) + 1 /\ t3 \in 1 .. Len(s) + 1
         /\ t4 \in 1 .. Len(s) + 1
<1>0. 1 \in 1 .. Len(s) + 1 /\ From(s, 1) = s
  BY SubSeqFull DEF From
<1>1. t1 \in 1 .. Len(s) + 1
  BY <1>0, CutIn
<1>2. t2 \in 1 .. Len(s) + 1
  BY <1>1, BehindIn, CutIn
<1>3. t3 \in 1 .. Len(s) + 1
  BY <1>2, BehindIn, CutIn
<1>4. t4 \in 1 .. Len(s) + 1
  BY <1>3, BehindIn, CutIn
<1>5. strtok(s, "@") = [token |-> SubSeq(s, f1, t1 - 1), rest |-> From(s, Behind(s, t1))]
  <2>1. strtok(From(s, 1), "@") = [token |-> SubSeq(s, f1, t1 - 1), rest |-> From(s, Behind(s, t1))]
    BY <1>0, StrtokCuts
  <2> QED
    BY <1>0, <2>1, Zenon
<1>6. strtok(From(s, Behind(s, t1)), ".")
        = [token |-> SubSeq(s, f2, t2 - 1), rest |-> From(s, Behind(s, t2))]
  BY <1>1, BehindIn, StrtokCuts
<1>7. strtok(From(s, Behind(s, t2)), "+")
        = [token |-> SubSeq(s, f3, t3 - 1), rest |-> From(s, Behind(s, t3))]
  BY <1>2, BehindIn, StrtokCuts
<1>8. strtok(From(s, Behind(s, t3)), ".")
        = [token |-> SubSeq(s, f4, t4 - 1), rest |-> From(s, Behind(s, t4))]
  BY <1>3, BehindIn, StrtokCuts
<1>9. Tokens(s) = <<SubSeq(s, f1, t1 - 1), SubSeq(s, f2, t2 - 1), SubSeq(s, f3, t3 - 1),
                    SubSeq(s, f4, t4 - 1), From(s, Behind(s, t4))>>
  <2> DEFINE r1 == From(s, Behind(s, t1))
             r2 == From(s, Behind(s, t2))
             r3 == From(s, Behind(s, t3))
             r4 == From(s, Behind(s, t4))
             a == SubSeq(s, f1, t1 - 1)
             b == SubSeq(s, f2, t2 - 1)
             c == SubSeq(s, f3, t3 - 1)
             d == SubSeq(s, f4, t4 - 1)
  <2>1. /\ strtok(s, "@") = [token |-> a, rest |-> r1]
        /\ strtok(r1, ".") = [token |-> b, rest |-> r2]
        /\ strtok(r2, "+") = [token |-> c, rest |-> r3]
        /\ strtok(r3, ".") = [token |-> d, rest |-> r4]
    BY <1>5, <1>6, <1>7, <1>8
  <2> HIDE DEF r1, r2, r3, r4, a, b, c, d
  <2>2. /\ strtok(s, "@").token = a /\ strtok(s, "@").rest = r1
        /\ strtok(r1, ".").token = b /\ strtok(r1, ".").rest = r2
        /\ strtok(r2, "+").token = c /\ strtok(r2, "+").rest = r3
        /\ strtok(r3, ".").token = d /\ strtok(r3, ".").rest = r4
    BY <2>1
  <2>3. Tokens(s) = <<a, b, c, d, r4>>
    BY <2>2, Zenon DEF Tokens
  <2> QED
    BY <2>3 DEF a, b, c, d, r4
<1> QED
  BY <1>1, <1>2, <1>3, <1>4, <1>9

(* A piece that is not empty: what is in front of it was cut off in it.    *)
LEMMA CutBehind ==
  ASSUME NEW Chars, NEW s \in Seq(Chars), NEW p \in 1 .. Len(s) + 1, NEW delim, NEW f, NEW t,
         Cut(s, Behind(s, p), delim, f, t), SubSeq(s, f, t - 1) # <<>>
  PROVE  /\ p <= Len(s) /\ f \in p + 1 .. Len(s) /\ t \in f + 1 .. Len(s) + 1
         /\ \A k \in p + 1 .. f - 1 : s[k] = delim
         /\ \A k \in f .. t - 1 : s[k] # delim
         /\ t <= Len(s) => s[t] = delim
<1>1. Len(s) \in Nat
  OBVIOUS
<1>2. Behind(s, p) \in 1 .. Len(s) + 1
  BY BehindIn
<1>3. /\ f \in 1 .. Len(s) + 1 /\ t \in 1 .. Len(s) + 1 /\ f >= Behind(s, p) /\ t >= f
      /\ t - 1 \in f - 1 .. Len(s)
      /\ \A k \in Behind(s, p) .. f - 1 : s[k] = delim
      /\ \A k \in f .. t - 1 : s[k] # delim
      /\ t <= Len(s) => s[t] = delim
  BY <1>2, CutIn
<1>4. t - 1 # f - 1
  BY <1>3, PartOf
<1>5. p <= Len(s)
  BY <1>1, <1>3, <1>4 DEF Behind
<1>6. Behind(s, p) = p + 1
  BY <1>5 DEF Behind
<1> QED
  BY <1>1, <1>3, <1>4, <1>5, <1>6

(* A piece that strtoul takes for a number, if it has no minus, is digits  *)
(* behind a plus or nothing.                                               *)
LEMMA NumberFrom ==
  ASSUME NEW Chars, NEW s \in Seq(Chars), NEW f \in 1 .. Len(s), NEW t \in f + 1 .. Len(s) + 1,
         IsNumber(SubSeq(s, f, t - 1)), s[f] # "-"
  PROVE  \E g \in f .. t - 1 :
           /\ \A k \in f .. g - 1 : s[k] = "+"
           /\ \A k \in g .. t - 1 : s[k] \in ToSet(Digits)
           /\ strtoul(SubSeq(s, f, t - 1)) = ValueOf(SubSeq(s, g, t - 1))
<1> DEFINE token == SubSeq(s, f, t - 1)
           g == IF s[f] = "+" THEN f + 1 ELSE f
<1>1. Len(s) \in Nat /\ f \in 1 .. Len(s) + 1 /\ t - 1 \in f - 1 .. Len(s) /\ t - 1 \in f .. Len(s)
  OBVIOUS
<1>2. token # <<>> /\ token[1] = s[f]
  <2>1. 1 \in 1 .. (t - 1) - f + 1 /\ f + 1 - 1 = f /\ t - 1 # f - 1
    BY <1>1
  <2>2. /\ \A k \in 1 .. (t - 1) - f + 1 : token[k] = s[f + k - 1]
        /\ Len(token) = (t - 1) - f + 1
    BY <1>1, PartOf
  <2> HIDE DEF token
  <2>3. token[1] = s[f + 1 - 1]
    BY <2>1, <2>2, Zenon
  <2>4. Len(token) # 0
    BY <1>1, <2>2
  <2> QED
    BY <2>1, <2>3, <2>4
<1>3. Tail(token) = SubSeq(s, f + 1, t - 1)
  BY <1>1, HeadTailOfSubSeq
<1>4. Unsigned(token) = SubSeq(s, g, t - 1)
  <2> HIDE DEF token
  <2>1. CASE s[f] = "+"
    BY <1>2, <1>3, <2>1 DEF Unsigned
  <2>2. CASE s[f] # "+"
    BY <1>2, <2>2 DEF Unsigned, token
  <2> QED
    BY <2>1, <2>2
<1>5. SubSeq(s, g, t - 1) # <<>> /\ ToSet(SubSeq(s, g, t - 1)) \subseteq ToSet(Digits)
  <2>1. AllDigits(Unsigned(token))
    BY Zenon DEF IsNumber, token
  <2> HIDE DEF token, g
  <2> QED
    BY <1>4, <2>1, Zenon DEF AllDigits
<1>6. g \in 1 .. Len(s) + 1 /\ t - 1 \in g - 1 .. Len(s)
  BY <1>1
<1>7. g \in f .. t - 1 /\ \A k \in f .. g - 1 : s[k] = "+"
  <2>1. t - 1 # g - 1
    <3> HIDE DEF g
    <3> DEFINE u == SubSeq(s, g, t - 1)
    <3>1. Len(u) = (t - 1) - g + 1 /\ u \in Seq(Chars)
      BY <1>6, PartOf
    <3> HIDE DEF u
    <3>2. u # <<>>
      BY <1>5 DEF u
    <3> QED
      BY <1>1, <1>6, <3>1, <3>2
  <2> QED
    BY <1>1, <1>6, <2>1
<1> HIDE DEF g
<1>8. ASSUME NEW k \in g .. t - 1 PROVE s[k] \in ToSet(Digits)
  <2> DEFINE u == SubSeq(s, g, t - 1)
  <2>1. DOMAIN u = 1 .. (t - 1) - g + 1 /\ \A j \in 1 .. (t - 1) - g + 1 : u[j] = s[g + j - 1]
    <3> DEFINE w == t - 1
    <3>1. w \in g - 1 .. Len(s) /\ g \in 1 .. Len(s) + 1
      BY <1>6
    <3> HIDE DEF w
    <3>2. /\ DOMAIN SubSeq(s, g, w) = 1 .. w - g + 1
          /\ \A j \in 1 .. w - g + 1 : SubSeq(s, g, w)[j] = s[g + j - 1]
      BY <3>1, PartOf
    <3> QED
      BY <3>2, Zenon DEF w
  <2>2. k - g + 1 \in 1 .. (t - 1) - g + 1 /\ g + (k - g + 1) - 1 = k
    BY <1>1, <1>6
  <2>3. ToSet(u) \subseteq ToSet(Digits)
    BY <1>5
  <2> HIDE DEF u
  <2>4. u[k - g + 1] \in ToSet(u) /\ u[k - g + 1] = s[k]
    BY <2>1, <2>2 DEF ToSet
  <2> QED
    BY <2>3, <2>4
<1>9. strtoul(token) = ValueOf(SubSeq(s, g, t - 1))
  <2> HIDE DEF token
  <2>1. token[1] # "-"
    BY <1>2
  <2> QED
    BY <1>4, <2>1, Zenon DEF strtoul
<1> QED
  BY <1>7, <1>8, <1>9

(* From p on a reader comes past no digit to a number, and reads it.       *)
LEMMA RunOfNumber ==
  ASSUME NEW Chars, NEW s \in Seq(Chars), NEW p \in 1 .. Len(s), NEW f \in p .. Len(s),
         NEW t \in f + 1 .. Len(s) + 1,
         \A k \in p .. f - 1 : s[k] \notin ToSet(Digits),
         t <= Len(s) => s[t] \notin ToSet(Digits),
         IsNumber(SubSeq(s, f, t - 1)), s[f] # "-"
  PROVE  /\ ValueOf(FirstRun(From(s, p)).digits) = strtoul(SubSeq(s, f, t - 1))
         /\ FirstRun(From(s, p)).rest = From(s, t)
<1>1. Len(s) \in Nat /\ f \in 1 .. Len(s) /\ p \in 1 .. Len(s) + 1
  OBVIOUS
<1>2. PICK g \in f .. t - 1 :
           /\ \A k \in f .. g - 1 : s[k] = "+"
           /\ \A k \in g .. t - 1 : s[k] \in ToSet(Digits)
           /\ strtoul(SubSeq(s, f, t - 1)) = ValueOf(SubSeq(s, g, t - 1))
  BY <1>1, NumberFrom, ZenonT(60)
<1>3. "+" \notin ToSet(Digits)
  BY DigitSet
<1> DEFINE digits == ToSet(Digits)
<1> HIDE DEF digits
<1>4. /\ \A k \in f .. g - 1 : s[k] \notin digits
      /\ \A k \in g .. t - 1 : s[k] \in digits
      /\ \A k \in p .. f - 1 : s[k] \notin digits
      /\ t <= Len(s) => s[t] \notin digits
  BY <1>2, <1>3 DEF digits
<1>5. g \in p .. Len(s) + 1 /\ t \in g .. Len(s) + 1 /\ g \in g .. t - 1
  BY <1>1, <1>2
<1>6. \A k \in p .. g - 1 : s[k] \notin digits
  BY <1>1, <1>4, <1>5
<1>7. IsFirst(s, p, digits, g)
  BY <1>4, <1>5, <1>6 DEF IsFirst
<1>8. FirstRun(From(s, p)) = [digits |-> SubSeq(s, g, t - 1), rest |-> From(s, t)]
  BY <1>1, <1>4, <1>5, <1>7, RunFrom DEF digits
<1> QED
  BY <1>2, <1>8

(* Where a name that is accepted is cut: into pieces that are not empty,   *)
(* whose delimiters, one or more of a kind, are between them.              *)
CutAt(s, f1, t1, f2, t2, f3, t3, f4, t4) ==
  /\ Tokens(s) = <<SubSeq(s, f1, t1 - 1), SubSeq(s, f2, t2 - 1), SubSeq(s, f3, t3 - 1),
                   SubSeq(s, f4, t4 - 1), SubSeq(s, t4 + 1, (Len(s) + 1) - 1)>>
  /\ f1 \in 1 .. Len(s) /\ t1 = f1 + 1 /\ s[f1] \in KnownLibraries
  /\ \A k \in 1 .. f1 - 1 : s[k] = "@"
  /\ t1 \in 1 .. Len(s) /\ f2 \in t1 + 1 .. Len(s) /\ t2 \in f2 + 1 .. Len(s)
  /\ f3 \in t2 + 1 .. Len(s) /\ t3 \in f3 + 1 .. Len(s)
  /\ f4 \in t3 + 1 .. Len(s) /\ t4 \in f4 + 1 .. Len(s) - 1
  /\ s[t1] = "@" /\ s[t2] = "." /\ s[t3] = "+" /\ s[t4] = "."
  /\ \A k \in t1 + 1 .. f2 - 1 : s[k] = "."
  /\ \A k \in t2 + 1 .. f3 - 1 : s[k] = "+"
  /\ \A k \in t3 + 1 .. f4 - 1 : s[k] = "."

LEMMA AcceptedCut ==
  ASSUME NEW Chars, NEW s \in Seq(Chars), Accepted(s)
  PROVE  \E f1, t1, f2, t2, f3, t3, f4, t4 :
           CutAt(s, f1, t1, f2, t2, f3, t3, f4, t4)
<1> DEFINE n == Len(s)
<1>1. n \in Nat /\ 1 \in 1 .. n + 1
  OBVIOUS
<1>2. PICK f1, t1 : Cut(s, 1, "@", f1, t1)
  BY <1>1, CutExists
<1>3. t1 \in 1 .. n + 1
  BY <1>1, <1>2, CutIn
<1>4. PICK f2, t2 : Cut(s, Behind(s, t1), ".", f2, t2)
  BY <1>3, BehindIn, CutExists
<1>5. t2 \in 1 .. n + 1
  BY <1>3, <1>4, BehindIn, CutIn
<1>6. PICK f3, t3 : Cut(s, Behind(s, t2), "+", f3, t3)
  BY <1>5, BehindIn, CutExists
<1>7. t3 \in 1 .. n + 1
  BY <1>5, <1>6, BehindIn, CutIn
<1>8. PICK f4, t4 : Cut(s, Behind(s, t3), ".", f4, t4)
  BY <1>7, BehindIn, CutExists
<1>9. t4 \in 1 .. n + 1
  BY <1>7, <1>8, BehindIn, CutIn
<1> DEFINE a == SubSeq(s, f1, t1 - 1)
           b == SubSeq(s, f2, t2 - 1)
           c == SubSeq(s, f3, t3 - 1)
           d == SubSeq(s, f4, t4 - 1)
           e == From(s, Behind(s, t4))
<1>10. Tokens(s) = <<a, b, c, d, e>>
  BY <1>2, <1>4, <1>6, <1>8, TokensCut
<1>11. b # <<>> /\ c # <<>> /\ d # <<>> /\ e # <<>> /\ \E l \in KnownLibraries : a = <<l>>
  <2> HIDE DEF a, b, c, d, e
  <2> DEFINE tokens == <<a, b, c, d, e>>
  <2>1. /\ \A k \in 2 .. 5 : tokens[k] # <<>>
        /\ tokens[1] \in {<<l>> : l \in KnownLibraries}
    <3> HIDE DEF tokens
    <3>1. tokens = Tokens(s)
      BY <1>10 DEF tokens
    <3> QED
      BY <3>1, Zenon DEF Accepted
  <2> QED
    BY <2>1
<1>12. /\ t1 <= n /\ f2 \in t1 + 1 .. n /\ t2 \in f2 + 1 .. n + 1
       /\ \A k \in t1 + 1 .. f2 - 1 : s[k] = "."
       /\ t2 <= n => s[t2] = "."
  <2> HIDE DEF a, c, d, e
  <2> QED
    BY <1>3, <1>4, <1>11, CutBehind
<1>13. /\ t2 <= n /\ f3 \in t2 + 1 .. n /\ t3 \in f3 + 1 .. n + 1
       /\ \A k \in t2 + 1 .. f3 - 1 : s[k] = "+"
       /\ t3 <= n => s[t3] = "+"
  <2> HIDE DEF a, b, d, e
  <2> QED
    BY <1>5, <1>6, <1>11, CutBehind
<1>14. /\ t3 <= n /\ f4 \in t3 + 1 .. n /\ t4 \in f4 + 1 .. n + 1
       /\ \A k \in t3 + 1 .. f4 - 1 : s[k] = "."
       /\ t4 <= n => s[t4] = "."
  <2> HIDE DEF a, b, c, e
  <2> QED
    BY <1>7, <1>8, <1>11, CutBehind
<1>15. t4 <= n - 1
  <2> SUFFICES ASSUME ~(t4 <= n - 1) PROVE FALSE
    OBVIOUS
  <2>1. Behind(s, t4) = n + 1
    BY <1>1, <1>9 DEF Behind
  <2>2. e = SubSeq(s, n + 1, n)
    BY <2>1 DEF From
  <2>3. n + 1 \in Int /\ n \in Int /\ n < n + 1
    BY <1>1
  <2>4. e = <<>>
    BY <2>2, <2>3, SubSeqEmpty
  <2> QED
    BY <1>11, <2>4
<1>16. e = SubSeq(s, t4 + 1, (n + 1) - 1)
  <2>1. Behind(s, t4) = t4 + 1 /\ (n + 1) - 1 = n
    BY <1>1, <1>9, <1>15 DEF Behind
  <2> QED
    BY <2>1 DEF From
<1>17. /\ f1 \in 1 .. n + 1 /\ t1 - 1 \in f1 - 1 .. n
       /\ \A k \in 1 .. f1 - 1 : s[k] = "@"
       /\ t1 <= n => s[t1] = "@"
  BY <1>1, <1>2, CutIn
<1>18. t1 = f1 + 1 /\ s[f1] \in KnownLibraries
  <2>1. PICK l \in KnownLibraries : a = <<l>>
    BY <1>11
  <2>2. Len(a) = (t1 - 1) - f1 + 1 /\ \A k \in 1 .. (t1 - 1) - f1 + 1 : a[k] = s[f1 + k - 1]
    BY <1>17, PartOf
  <2> HIDE DEF a
  <2>3. (t1 - 1) - f1 + 1 = 1
    BY <2>1, <2>2
  <2>4. a[1] = s[f1 + 1 - 1] /\ a[1] = l
    BY <2>1, <2>2, <2>3
  <2>5. t1 = f1 + 1 /\ f1 + 1 - 1 = f1
    BY <1>3, <1>17, <2>3
  <2> QED
    BY <2>1, <2>4, <2>5
<1>19. Tokens(s) = <<SubSeq(s, f1, t1 - 1), SubSeq(s, f2, t2 - 1), SubSeq(s, f3, t3 - 1),
                     SubSeq(s, f4, t4 - 1), SubSeq(s, t4 + 1, (Len(s) + 1) - 1)>>
  BY <1>10, <1>16
<1> HIDE DEF a, b, c, d, e
<1>20. /\ f1 \in 1 .. n /\ t1 \in 1 .. n
       /\ t2 \in f2 + 1 .. n /\ t3 \in f3 + 1 .. n /\ t4 \in f4 + 1 .. n - 1
       /\ s[t1] = "@" /\ s[t2] = "." /\ s[t3] = "+" /\ s[t4] = "."
  BY <1>1, <1>3, <1>12, <1>13, <1>14, <1>15, <1>17, <1>18
<1> QED
  <2>1. CutAt(s, f1, t1, f2, t2, f3, t3, f4, t4)
    BY <1>12, <1>13, <1>14, <1>17, <1>18, <1>19, <1>20 DEF CutAt
  <2> QED
    BY <2>1, Zenon

(* The numbers that strtoul makes of an accepted name without a minus are  *)
(* those that a reader sees.                                               *)
LEMMA RunsAreNumbers ==
  ASSUME NEW Chars, NEW s \in Seq(Chars), Accepted(s), ~Contains(s, "-")
  PROVE  \A k \in 1 .. 4 : ValueOf(RunsOfDigits(s)[k]) = strtoul(Tokens(s)[k + 1])
<1> DEFINE n == Len(s)
           digits == ToSet(Digits)
<1>0. PICK f1, t1, f2, t2, f3, t3, f4, t4 : CutAt(s, f1, t1, f2, t2, f3, t3, f4, t4)
  BY AcceptedCut, Zenon
<1>1. /\ Tokens(s) = <<SubSeq(s, f1, t1 - 1), SubSeq(s, f2, t2 - 1), SubSeq(s, f3, t3 - 1),
                       SubSeq(s, f4, t4 - 1), SubSeq(s, t4 + 1, (Len(s) + 1) - 1)>>
      /\ f1 \in 1 .. Len(s) /\ t1 = f1 + 1 /\ s[f1] \in KnownLibraries
      /\ \A k \in 1 .. f1 - 1 : s[k] = "@"
      /\ t1 \in 1 .. Len(s) /\ f2 \in t1 + 1 .. Len(s) /\ t2 \in f2 + 1 .. Len(s)
      /\ f3 \in t2 + 1 .. Len(s) /\ t3 \in f3 + 1 .. Len(s)
      /\ f4 \in t3 + 1 .. Len(s) /\ t4 \in f4 + 1 .. Len(s) - 1
      /\ s[t1] = "@" /\ s[t2] = "." /\ s[t3] = "+" /\ s[t4] = "."
      /\ \A k \in t1 + 1 .. f2 - 1 : s[k] = "."
      /\ \A k \in t2 + 1 .. f3 - 1 : s[k] = "+"
      /\ \A k \in t3 + 1 .. f4 - 1 : s[k] = "."
  BY <1>0 DEF CutAt
<1>2. n \in Nat /\ \A k \in 1 .. n : s[k] # "-"
  BY DEF Contains
<1> DEFINE a == SubSeq(s, f1, t1 - 1)
           b == SubSeq(s, f2, t2 - 1)
           c == SubSeq(s, f3, t3 - 1)
           d == SubSeq(s, f4, t4 - 1)
           e == SubSeq(s, t4 + 1, (n + 1) - 1)
<1>3. IsNumber(b) /\ IsNumber(c) /\ IsNumber(d) /\ IsNumber(e)
  <2> DEFINE tokens == <<a, b, c, d, e>>
  <2>0. Tokens(s) = tokens
    BY <1>1
  <2> HIDE DEF a, b, c, d, e
  <2>1. \A k \in 2 .. 5 : IsNumber(tokens[k])
    <3> HIDE DEF tokens
    <3> QED
      BY <2>0, Zenon DEF Accepted
  <2>2. tokens[2] = b /\ tokens[3] = c /\ tokens[4] = d /\ tokens[5] = e
    OBVIOUS
  <2>3. 2 \in 2 .. 5 /\ 3 \in 2 .. 5 /\ 4 \in 2 .. 5 /\ 5 \in 2 .. 5
    OBVIOUS
  <2> QED
    BY <2>1, <2>2, <2>3, Zenon
<1>4. /\ "@" \notin digits /\ "." \notin digits /\ "+" \notin digits
      /\ \A l \in KnownLibraries : l \notin digits
  BY DigitSet
<1> HIDE DEF digits
<1>5. /\ \A k \in 1 .. f2 - 1 : s[k] \notin digits
      /\ \A k \in t2 .. f3 - 1 : s[k] \notin digits
      /\ \A k \in t3 .. f4 - 1 : s[k] \notin digits
      /\ \A k \in t4 .. (t4 + 1) - 1 : s[k] \notin digits
  <2>1. ASSUME NEW k \in 1 .. f2 - 1 PROVE s[k] \notin digits
    <3>1. \/ k \in 1 .. f1 - 1 \/ k = f1 \/ k = t1 \/ k \in t1 + 1 .. f2 - 1
      BY <1>1, <1>2
    <3> QED
      BY <1>1, <1>4, <3>1
  <2>2. ASSUME NEW k \in t2 .. f3 - 1 PROVE s[k] \notin digits
    <3>1. k = t2 \/ k \in t2 + 1 .. f3 - 1
      BY <1>1, <1>2
    <3> QED
      BY <1>1, <1>4, <3>1
  <2>3. ASSUME NEW k \in t3 .. f4 - 1 PROVE s[k] \notin digits
    <3>1. k = t3 \/ k \in t3 + 1 .. f4 - 1
      BY <1>1, <1>2
    <3> QED
      BY <1>1, <1>4, <3>1
  <2>4. ASSUME NEW k \in t4 .. (t4 + 1) - 1 PROVE s[k] \notin digits
    <3>1. k = t4
      BY <1>1, <1>2
    <3> QED
      BY <1>1, <1>4, <3>1
  <2> QED
    BY <2>1, <2>2, <2>3, <2>4
<1>6. s[t2] \notin digits /\ s[t3] \notin digits /\ s[t4] \notin digits
  BY <1>1, <1>4
<1>7. /\ 1 \in 1 .. n /\ f2 \in 1 .. n /\ t2 \in f2 + 1 .. n + 1
      /\ t2 \in 1 .. n /\ f3 \in t2 .. n /\ t3 \in f3 + 1 .. n + 1
      /\ t3 \in 1 .. n /\ f4 \in t3 .. n /\ t4 \in f4 + 1 .. n + 1
      /\ t4 \in 1 .. n /\ t4 + 1 \in t4 .. n /\ n + 1 \in (t4 + 1) + 1 .. n + 1
      /\ f3 \in 1 .. n /\ f4 \in 1 .. n /\ t4 + 1 \in 1 .. n /\ ~(n + 1 <= n)
  <2>1. /\ n \in Nat /\ t1 \in 1 .. n /\ f2 \in t1 + 1 .. n /\ t2 \in f2 + 1 .. n
        /\ f3 \in t2 + 1 .. n /\ t3 \in f3 + 1 .. n
        /\ f4 \in t3 + 1 .. n /\ t4 \in f4 + 1 .. n - 1
    BY <1>1, <1>2
  <2> HIDE DEF n
  <2> QED
    BY <2>1
<1>8. s[f2] # "-" /\ s[f3] # "-" /\ s[f4] # "-" /\ s[t4 + 1] # "-"
  BY <1>2, <1>7
<1>9. ValueOf(FirstRun(From(s, 1)).digits) = strtoul(b) /\ FirstRun(From(s, 1)).rest = From(s, t2)
  BY <1>3, <1>5, <1>6, <1>7, <1>8, RunOfNumber DEF digits
<1>10. /\ ValueOf(FirstRun(From(s, t2)).digits) = strtoul(c)
       /\ FirstRun(From(s, t2)).rest = From(s, t3)
  BY <1>3, <1>5, <1>6, <1>7, <1>8, RunOfNumber DEF digits
<1>11. /\ ValueOf(FirstRun(From(s, t3)).digits) = strtoul(d)
       /\ FirstRun(From(s, t3)).rest = From(s, t4)
  BY <1>3, <1>5, <1>6, <1>7, <1>8, RunOfNumber DEF digits
<1>12. ValueOf(FirstRun(From(s, t4)).digits) = strtoul(e)
  <2> DEFINE f == t4 + 1
             t == n + 1
  <2>1. /\ t4 \in 1 .. Len(s) /\ f \in t4 .. Len(s) /\ t \in f + 1 .. Len(s) + 1
        /\ t <= Len(s) => s[t] \notin ToSet(Digits)
    BY <1>7
  <2>2. /\ \A k \in t4 .. f - 1 : s[k] \notin ToSet(Digits)
        /\ IsNumber(SubSeq(s, f, t - 1)) /\ s[f] # "-" /\ e = SubSeq(s, f, t - 1)
    BY <1>3, <1>5, <1>8 DEF digits
  <2> HIDE DEF e, f, t
  <2> QED
    BY <2>1, <2>2, RunOfNumber
<1>13. From(s, 1) = s
  BY SubSeqFull DEF From
<1>14. Tokens(s) = <<a, b, c, d, e>>
  BY <1>1
<1> HIDE DEF a, b, c, d, e
<1>15. RunsOfDigits(s) = <<FirstRun(From(s, 1)).digits, FirstRun(From(s, t2)).digits,
                           FirstRun(From(s, t3)).digits, FirstRun(From(s, t4)).digits>>
  BY <1>9, <1>10, <1>11, <1>13, Zenon DEF RunsOfDigits
<1> DEFINE u == FirstRun(From(s, 1)).digits
           v == FirstRun(From(s, t2)).digits
           w == FirstRun(From(s, t3)).digits
           x == FirstRun(From(s, t4)).digits
<1>16. /\ ValueOf(u) = strtoul(b) /\ ValueOf(v) = strtoul(c)
       /\ ValueOf(w) = strtoul(d) /\ ValueOf(x) = strtoul(e)
  BY <1>9, <1>10, <1>11, <1>12
<1>17. RunsOfDigits(s) = <<u, v, w, x>>
  BY <1>15
<1> HIDE DEF u, v, w, x
<1>18. /\ RunsOfDigits(s)[1] = u /\ RunsOfDigits(s)[2] = v
       /\ RunsOfDigits(s)[3] = w /\ RunsOfDigits(s)[4] = x
       /\ Tokens(s)[2] = b /\ Tokens(s)[3] = c /\ Tokens(s)[4] = d /\ Tokens(s)[5] = e
  BY <1>14, <1>17
<1> TAKE k \in 1 .. 4
<1>19. k = 1 \/ k = 2 \/ k = 3 \/ k = 4
  OBVIOUS
<1>20. 1 + 1 = 2 /\ 2 + 1 = 3 /\ 3 + 1 = 4 /\ 4 + 1 = 5
  OBVIOUS
<1> QED
  BY <1>16, <1>18, <1>19, <1>20, Zenon

(* The first pieces of a text, put together again.                         *)
LEMMA FlattenFirst ==
  ASSUME NEW seqs
  PROVE  /\ Len(seqs) = 2 => FlattenSeq(seqs) = seqs[1] \o seqs[2]
         /\ Len(seqs) = 3 => FlattenSeq(seqs) = (seqs[1] \o seqs[2]) \o seqs[3]
         /\ Len(seqs) = 4 => FlattenSeq(seqs) = ((seqs[1] \o seqs[2]) \o seqs[3]) \o seqs[4]
<1> SUFFICES ASSUME Len(seqs) \in 2 .. 4
             PROVE  /\ Len(seqs) = 2 => FlattenSeq(seqs) = seqs[1] \o seqs[2]
                    /\ Len(seqs) = 3 => FlattenSeq(seqs) = (seqs[1] \o seqs[2]) \o seqs[3]
                    /\ Len(seqs) = 4 =>
                         FlattenSeq(seqs) = ((seqs[1] \o seqs[2]) \o seqs[3]) \o seqs[4]
  <2>1. Len(seqs) \notin 2 .. 4 => Len(seqs) # 2 /\ Len(seqs) # 3 /\ Len(seqs) # 4
    OBVIOUS
  <2> QED
    BY <2>1, Zenon
<1> DEFINE n == Len(seqs)
<1>0. n \in 2 .. 4
  OBVIOUS
<1> DEFINE Joins(f) == f = [k \in 1 .. Len(seqs) |->
                              IF k = 1 THEN seqs[k] ELSE f[k - 1] \o seqs[k]]
           two == seqs[1] \o seqs[2]
           three == two \o seqs[3]
           four == three \o seqs[4]
           g == [k \in 1 .. n |-> IF k = 1 THEN seqs[1] ELSE IF k = 2 THEN two
                                  ELSE IF k = 3 THEN three ELSE four]
           f == CHOOSE h : Joins(h)
<1>1. Joins(g)
  <2>1. ASSUME NEW k \in 1 .. n
        PROVE  g[k] = IF k = 1 THEN seqs[k] ELSE g[k - 1] \o seqs[k]
    <3> HIDE DEF n
    <3>1. k = 1 \/ k = 2 \/ k = 3 \/ k = 4
      BY <1>0
    <3>2. k # 1 => k - 1 \in 1 .. n
      BY <1>0
    <3>3. k # 1 => g[k - 1] = IF k - 1 = 1 THEN seqs[1] ELSE IF k - 1 = 2 THEN two
                              ELSE IF k - 1 = 3 THEN three ELSE four
      BY <3>2
    <3>4. g[k] = IF k = 1 THEN seqs[1] ELSE IF k = 2 THEN two ELSE IF k = 3 THEN three ELSE four
      OBVIOUS
    <3> HIDE DEF g
    <3> QED
      BY <3>1, <3>3, <3>4
  <2> DEFINE h == [k \in 1 .. n |-> IF k = 1 THEN seqs[k] ELSE g[k - 1] \o seqs[k]]
  <2>2. g = [k \in 1 .. n |-> g[k]] /\ \A k \in 1 .. n : g[k] = h[k]
    BY <2>1
  <2>3. h = [k \in 1 .. n |-> h[k]]
    OBVIOUS
  <2>4. g = h
    <3> HIDE DEF g, h
    <3> QED
      BY <2>2, <2>3, SameFunction, Zenon
  <2> QED
    BY <2>4
<1>2. Joins(f)
  <2> HIDE DEF Joins, g
  <2> QED
    BY <1>1, Zenon
<1>3. FlattenSeq(seqs) = f[n]
  <2>1. Len(seqs) # 0
    OBVIOUS
  <2>2. FlattenSeq(seqs) = f[Len(seqs)]
    BY <2>1, Zenon DEF FlattenSeq
  <2> QED
    BY <2>2
<1>4. f = [k \in 1 .. n |-> IF k = 1 THEN seqs[k] ELSE f[k - 1] \o seqs[k]]
  BY <1>2, Zenon
<1> HIDE DEF f, n
<1>5. f[1] = seqs[1] /\ f[2] = f[1] \o seqs[2]
  <2>1. 1 \in 1 .. n /\ 2 \in 1 .. n /\ 2 # 1 /\ 2 - 1 = 1
    BY <1>0
  <2> QED
    BY <1>4, <2>1
<1>6. n # 2 => f[3] = f[2] \o seqs[3]
  <2>1. n # 2 => 3 \in 1 .. n /\ 3 # 1 /\ 3 - 1 = 2
    BY <1>0
  <2> QED
    BY <1>4, <2>1
<1>7. n # 2 /\ n # 3 => f[4] = f[3] \o seqs[4]
  <2>1. n # 2 /\ n # 3 => 4 \in 1 .. n /\ 4 # 1 /\ 4 - 1 = 3
    BY <1>0
  <2> QED
    BY <1>4, <2>1
<1>9. /\ n = 2 => f[n] = seqs[1] \o seqs[2]
      /\ n = 3 => f[n] = (seqs[1] \o seqs[2]) \o seqs[3]
      /\ n = 4 => f[n] = ((seqs[1] \o seqs[2]) \o seqs[3]) \o seqs[4]
  <2>1. f[2] = seqs[1] \o seqs[2]
    BY <1>5, Zenon
  <2>2. (n = 3 => n # 2) /\ (n = 4 => n # 2 /\ n # 3)
    OBVIOUS
  <2>3. n = 3 => f[3] = (seqs[1] \o seqs[2]) \o seqs[3]
    BY <1>6, <2>1, <2>2, Zenon
  <2>4. n = 4 => f[3] = (seqs[1] \o seqs[2]) \o seqs[3]
    BY <1>6, <2>1, <2>2, Zenon
  <2>5. n = 4 => f[4] = ((seqs[1] \o seqs[2]) \o seqs[3]) \o seqs[4]
    BY <1>7, <2>2, <2>4, Zenon
  <2> QED
    BY <2>1, <2>3, <2>5, Zenon
<1> QED
  BY <1>3, <1>9, Zenon DEF n

(* The lengths of the first pieces.                                        *)
LEMMA PiecesLength ==
  ASSUME NEW Chars, NEW a \in Seq(Chars), NEW b \in Seq(Chars), NEW c \in Seq(Chars),
         NEW d \in Seq(Chars), NEW e
  PROVE  LET tokens == <<a, b, c, d, e>>
         IN  /\ strlen(FlattenSeq(SubSeq(tokens, 1, 2))) = strlen(a) + strlen(b)
             /\ strlen(FlattenSeq(SubSeq(tokens, 1, 3))) = strlen(a) + strlen(b) + strlen(c)
             /\ strlen(FlattenSeq(SubSeq(tokens, 1, 4)))
                  = strlen(a) + strlen(b) + strlen(c) + strlen(d)
<1> DEFINE tokens == <<a, b, c, d, e>>
<1>1. \A n \in 2 .. 4 : /\ Len(SubSeq(tokens, 1, n)) = n
                        /\ \A k \in 1 .. n : SubSeq(tokens, 1, n)[k] = tokens[k]
  <2> TAKE n \in 2 .. 4
  <2> DEFINE All == {a, b, c, d, e}
  <2>1. \A k \in 1 .. n : tokens[k] \in All
    OBVIOUS
  <2>2. 1 \in Int /\ n \in Int /\ 1 <= n /\ n - 1 + 1 = n /\ \A k \in 1 .. n : 1 + k - 1 = k
    OBVIOUS
  <2> HIDE DEF tokens, All
  <2>3. /\ Len(SubSeq(tokens, 1, n)) = IF 1 <= n THEN n - 1 + 1 ELSE 0
        /\ \A k \in 1 .. n - 1 + 1 : SubSeq(tokens, 1, n)[k] = tokens[1 + k - 1]
    BY <2>1, <2>2, SubSeqProperties
  <2> QED
    BY <2>2, <2>3
<1>2. tokens[1] = a /\ tokens[2] = b /\ tokens[3] = c /\ tokens[4] = d
  OBVIOUS
<1> HIDE DEF tokens
<1>3. /\ FlattenSeq(SubSeq(tokens, 1, 2)) = a \o b
      /\ FlattenSeq(SubSeq(tokens, 1, 3)) = (a \o b) \o c
      /\ FlattenSeq(SubSeq(tokens, 1, 4)) = ((a \o b) \o c) \o d
  <2>1. /\ Len(SubSeq(tokens, 1, 2)) = 2 /\ SubSeq(tokens, 1, 2)[1] = a
        /\ SubSeq(tokens, 1, 2)[2] = b
    BY <1>1, <1>2
  <2>2. /\ Len(SubSeq(tokens, 1, 3)) = 3 /\ SubSeq(tokens, 1, 3)[1] = a
        /\ SubSeq(tokens, 1, 3)[2] = b /\ SubSeq(tokens, 1, 3)[3] = c
    BY <1>1, <1>2
  <2>3. /\ Len(SubSeq(tokens, 1, 4)) = 4 /\ SubSeq(tokens, 1, 4)[1] = a
        /\ SubSeq(tokens, 1, 4)[2] = b /\ SubSeq(tokens, 1, 4)[3] = c
        /\ SubSeq(tokens, 1, 4)[4] = d
    BY <1>1, <1>2
  <2> DEFINE p == SubSeq(tokens, 1, 2)
             q == SubSeq(tokens, 1, 3)
             r == SubSeq(tokens, 1, 4)
  <2>4. FlattenSeq(p) = a \o b
    <3>1. FlattenSeq(p) = p[1] \o p[2]
      BY <2>1, FlattenFirst, Zenon
    <3> QED
      BY <2>1, <3>1, Zenon
  <2>5. FlattenSeq(q) = (a \o b) \o c
    <3>1. FlattenSeq(q) = (q[1] \o q[2]) \o q[3]
      BY <2>2, FlattenFirst, Zenon
    <3> QED
      BY <2>2, <3>1, Zenon
  <2>6. FlattenSeq(r) = ((a \o b) \o c) \o d
    <3>1. FlattenSeq(r) = ((r[1] \o r[2]) \o r[3]) \o r[4]
      BY <2>3, FlattenFirst, Zenon
    <3> QED
      BY <2>3, <3>1, Zenon
  <2> QED
    BY <2>4, <2>5, <2>6
<1>4. strlen(a \o b) = strlen(a) + strlen(b) /\ a \o b \in Seq(Chars)
  BY StrlenConcat
<1> DEFINE ab == a \o b
<1>5. ab \in Seq(Chars)
  BY <1>4
<1> HIDE DEF ab
<1>6. strlen(ab \o c) = strlen(ab) + strlen(c) /\ ab \o c \in Seq(Chars)
  BY <1>5, StrlenConcat
<1> DEFINE abc == ab \o c
<1>7. abc \in Seq(Chars)
  BY <1>6
<1> HIDE DEF abc
<1>8. strlen(abc \o d) = strlen(abc) + strlen(d)
  BY <1>7, StrlenConcat
<1> QED
  BY <1>3, <1>4, <1>6, <1>8 DEF tokens, ab, abc

(* Digits between two positions.                                           *)
LEMMA DigitsBetween ==
  ASSUME NEW Chars, NEW s \in Seq(Chars), NEW a \in 1 .. Len(s) + 1, NEW b \in 0 .. Len(s),
         AllDigits(SubSeq(s, a, b))
  PROVE  /\ a \in 1 .. b /\ b \in a .. Len(s)
         /\ \A k \in a .. b : s[k] \in ToSet(Digits)
         /\ SubSeq(s, a, b) # <<>> /\ IsNumber(SubSeq(s, a, b))
<1> DEFINE t == SubSeq(s, a, b)
<1>1. Len(s) \in Nat /\ a \in Int /\ b \in Int
  OBVIOUS
<1>2. t # <<>> /\ ToSet(t) \subseteq ToSet(Digits)
  BY Zenon DEF AllDigits
<1>3. a <= b
  <2> SUFFICES ASSUME ~(a <= b) PROVE FALSE
    OBVIOUS
  <2>1. b < a
    BY <1>1
  <2>2. t = <<>>
    BY <1>1, <2>1, SubSeqEmpty
  <2> QED
    BY <1>2, <2>2
<1>4. b \in a - 1 .. Len(s)
  BY <1>1, <1>3
<1>5. DOMAIN t = 1 .. b - a + 1 /\ \A k \in 1 .. b - a + 1 : t[k] = s[a + k - 1]
  BY <1>4, PartOf
<1> HIDE DEF t
<1>6. \A k \in 1 .. b - a + 1 : t[k] \in ToSet(Digits)
  BY <1>2, <1>5 DEF ToSet
<1>7. ASSUME NEW k \in a .. b PROVE s[k] \in ToSet(Digits)
  <2>1. k - a + 1 \in 1 .. b - a + 1 /\ a + (k - a + 1) - 1 = k
    BY <1>1
  <2> QED
    BY <1>5, <1>6, <2>1
<1>8. IsNumber(t)
  <2>1. 1 \in 1 .. b - a + 1
    BY <1>1, <1>3
  <2>2. t[1] \notin {"+", "-"}
    BY <1>6, <2>1, DigitSet
  <2>3. Unsigned(t) = t
    BY <2>2, Zenon DEF Unsigned
  <2> QED
    BY <2>3 DEF IsNumber, t
<1> QED
  BY <1>1, <1>2, <1>3, <1>7, <1>8 DEF t

(* Where digits stand, strtok cuts behind them.                            *)
LEMMA DigitsCut ==
  ASSUME NEW Chars, NEW s \in Seq(Chars), NEW f \in 1 .. Len(s), NEW t \in f + 1 .. Len(s),
         \A k \in f .. t - 1 : s[k] \in ToSet(Digits), s[t] \in {".", "+"}
  PROVE  Cut(s, f, s[t], f, t)
<1>1. Len(s) \in Nat /\ s[t] \notin ToSet(Digits)
  BY DigitSet
<1> DEFINE digits == ToSet(Digits)
<1> HIDE DEF digits
<1>2. /\ f \in f .. Len(s) + 1 /\ t \in f .. Len(s) + 1 /\ f \in f .. t - 1
      /\ ~ \E k \in f .. f - 1 : TRUE
  BY <1>1
<1>3. \A k \in f .. t - 1 : s[k] # s[t]
  BY <1>1
<1> QED
  BY <1>2, <1>3 DEF Cut, IsFirst

(* The length of a text from p on: up to t, at t, and behind it.           *)
LEMMA StrlenFrom ==
  ASSUME NEW Chars, NEW s \in Seq(Chars), NEW p \in 1 .. Len(s), NEW t \in p .. Len(s)
  PROVE  strlen(From(s, p)) = strlen(SubSeq(s, p, t - 1)) + LengthOf(s[t]) + strlen(From(s, t + 1))
<1> DEFINE n == Len(s)
           before == SubSeq(s, p, t - 1)
           behind == From(s, t + 1)
           rest == SubSeq(s, t, n)
<1>1. /\ n \in Nat /\ p \in 1 .. n + 1 /\ t - 1 \in p - 1 .. n /\ n \in t - 1 .. n
      /\ t \in 1 .. n /\ n \in t .. n /\ t \in 1 .. n + 1 /\ (t - 1) + 1 = t
      /\ t + 1 \in 1 .. n + 1 /\ n \in (t + 1) - 1 .. n
  OBVIOUS
<1>2. before \in Seq(Chars) /\ rest \in Seq(Chars)
  BY <1>1, PartOf
<1>3. behind \in Seq(Chars)
  BY <1>1, PartOf DEF From
<1>4. before \o rest = From(s, p)
  <2>1. SubSeq(s, p, t - 1) \o SubSeq(s, (t - 1) + 1, n) = SubSeq(s, p, n)
    BY <1>1, ConcatAdjacentSubSeq
  <2> QED
    BY <1>1, <2>1 DEF From
<1>5. rest = <<s[t]>> \o behind
  BY <1>1, SubSeqRecursiveFirst DEF From
<1>6. s[t] \in Chars
  BY <1>1
<1> DEFINE one == <<s[t]>>
<1>7. one \in Seq(Chars) /\ strlen(one) = LengthOf(s[t])
  BY <1>6, StrlenOne
<1>8. rest = one \o behind
  BY <1>5
<1> DEFINE c == s[t]
<1>9. strlen(one) = LengthOf(c)
  BY <1>7
<1>10. /\ strlen(before) \in Nat /\ strlen(behind) \in Nat
  BY <1>2, <1>3, StrlenNat
<1>11. LengthOf(c) \in Nat
  BY Lengths
<1> HIDE DEF before, behind, rest, one, c
<1>12. strlen(before \o rest) = strlen(before) + strlen(rest)
  BY <1>2, StrlenConcat
<1>13. strlen(one \o behind) = strlen(one) + strlen(behind)
  BY <1>3, <1>7, StrlenConcat
<1>14. strlen(From(s, p)) = strlen(before) + (LengthOf(c) + strlen(behind))
  BY <1>4, <1>8, <1>9, <1>12, <1>13
<1>15. strlen(From(s, p)) = strlen(before) + LengthOf(c) + strlen(behind)
  BY <1>10, <1>11, <1>14
<1> QED
  BY <1>15 DEF before, behind, c

(* The order of the delimiters, when there is something between them.      *)
LEMMA CutOrder ==
  ASSUME NEW n \in Nat, NEW point \in 1 .. n, NEW plus \in 1 .. n, NEW point2 \in 1 .. n,
         point - 1 \in 3 .. n, plus - 1 \in point + 1 .. n, point2 - 1 \in plus + 1 .. n,
         n \in point2 + 1 .. n
  PROVE  /\ point \in 4 .. n /\ plus \in point + 2 .. n /\ point2 \in plus + 2 .. n - 1
         /\ 3 \in 1 .. n /\ point \in 3 + 1 .. n /\ point + 1 \in 1 .. n
         /\ plus \in (point + 1) + 1 .. n /\ plus + 1 \in 1 .. n
         /\ point2 \in (plus + 1) + 1 .. n
<1>1. point \in 4 .. n /\ plus \in point + 2 .. n /\ point2 \in plus + 2 .. n - 1
  OBVIOUS
<1> QED
  BY <1>1

(* A name of the right form, and where it is cut.                          *)
LEMMA FormCut ==
  ASSUME NEW Chars, NEW s \in Seq(Chars), WellFormed(s)
  PROVE  \E point, plus, point2 :
           /\ point \in 4 .. Len(s) /\ plus \in point + 2 .. Len(s)
           /\ point2 \in plus + 2 .. Len(s) - 1 /\ s[1] \in KnownLibraries
           /\ Tokens(s) = <<SubSeq(s, 1, 2 - 1), SubSeq(s, 3, point - 1),
                            SubSeq(s, point + 1, plus - 1), SubSeq(s, plus + 1, point2 - 1),
                            From(s, point2 + 1)>>
           /\ \A k \in 2 .. 5 : Tokens(s)[k] # <<>> /\ IsNumber(Tokens(s)[k])
<1> DEFINE n == Len(s)
<1>1. PICK at \in DOMAIN s, point \in DOMAIN s, plus \in DOMAIN s, point2 \in DOMAIN s :
           /\ at = 2 /\ s[1] \in KnownLibraries
           /\ <<s[at], s[point], s[plus], s[point2]>> = <<"@", ".", "+", ".">>
           /\ AllDigits(SubSeq(s, at + 1, point - 1))
           /\ AllDigits(SubSeq(s, point + 1, plus - 1))
           /\ AllDigits(SubSeq(s, plus + 1, point2 - 1))
           /\ AllDigits(SubSeq(s, point2 + 1, Len(s)))
  BY Zenon DEF WellFormed
<1>2. n \in Nat /\ DOMAIN s = 1 .. n /\ 2 + 1 = 3
  OBVIOUS
<1>3. s[2] = "@" /\ s[point] = "." /\ s[plus] = "+" /\ s[point2] = "."
  BY <1>1
<1>4. /\ 2 \in 1 .. n /\ point \in 1 .. n /\ plus \in 1 .. n /\ point2 \in 1 .. n
      /\ 3 \in 1 .. n + 1 /\ point - 1 \in 0 .. n /\ point + 1 \in 1 .. n + 1
      /\ plus - 1 \in 0 .. n /\ plus + 1 \in 1 .. n + 1 /\ point2 - 1 \in 0 .. n
      /\ point2 + 1 \in 1 .. n + 1 /\ n \in 0 .. n
  BY <1>1, <1>2, SMTT(30)
<1>5. AllDigits(SubSeq(s, 3, point - 1))
  BY <1>1, <1>2
<1>6. /\ point - 1 \in 3 .. n /\ \A k \in 3 .. point - 1 : s[k] \in ToSet(Digits)
      /\ SubSeq(s, 3, point - 1) # <<>> /\ IsNumber(SubSeq(s, 3, point - 1))
  BY <1>4, <1>5, DigitsBetween
<1>7. /\ plus - 1 \in point + 1 .. n /\ \A k \in point + 1 .. plus - 1 : s[k] \in ToSet(Digits)
      /\ SubSeq(s, point + 1, plus - 1) # <<>> /\ IsNumber(SubSeq(s, point + 1, plus - 1))
  BY <1>1, <1>4, DigitsBetween
<1>8. /\ point2 - 1 \in plus + 1 .. n /\ \A k \in plus + 1 .. point2 - 1 : s[k] \in ToSet(Digits)
      /\ SubSeq(s, plus + 1, point2 - 1) # <<>> /\ IsNumber(SubSeq(s, plus + 1, point2 - 1))
  BY <1>1, <1>4, DigitsBetween
<1>9. /\ n \in point2 + 1 .. n
      /\ SubSeq(s, point2 + 1, n) # <<>> /\ IsNumber(SubSeq(s, point2 + 1, n))
  BY <1>1, <1>4, DigitsBetween
<1>10. /\ point \in 4 .. n /\ plus \in point + 2 .. n /\ point2 \in plus + 2 .. n - 1
       /\ 3 \in 1 .. n /\ point \in 3 + 1 .. n /\ point + 1 \in 1 .. n
       /\ plus \in (point + 1) + 1 .. n
       /\ plus + 1 \in 1 .. n /\ point2 \in (plus + 1) + 1 .. n
  <2>1. /\ n \in Nat /\ point \in 1 .. n /\ plus \in 1 .. n /\ point2 \in 1 .. n
        /\ point - 1 \in 3 .. n /\ plus - 1 \in point + 1 .. n /\ point2 - 1 \in plus + 1 .. n
        /\ n \in point2 + 1 .. n
    BY <1>2, <1>4, <1>6, <1>7, <1>8, <1>9
  <2> HIDE DEF n
  <2> QED
    BY <2>1, CutOrder, Zenon
<1>11. /\ Behind(s, 2) = 3 /\ Behind(s, point) = point + 1 /\ Behind(s, plus) = plus + 1
       /\ Behind(s, point2) = point2 + 1
  BY <1>2, <1>4 DEF Behind
<1>12. Cut(s, 1, "@", 1, 2)
  <2>1. s[1] # "@"
    BY <1>1 DEF KnownLibraries
  <2> HIDE DEF n
  <2>2. /\ 1 \in 1 .. n + 1 /\ 2 \in 1 .. n + 1 /\ \A k \in 1 .. 2 - 1 : k = 1
        /\ \A k \in 1 .. 1 - 1 : FALSE
    BY <1>2, <1>4
  <2> QED
    BY <1>3, <2>1, <2>2 DEF Cut, IsFirst, n
<1>13. Cut(s, 3, ".", 3, point)
  BY <1>3, <1>6, <1>10, DigitsCut
<1>14. Cut(s, point + 1, "+", point + 1, plus)
  BY <1>3, <1>7, <1>10, DigitsCut
<1>15. Cut(s, plus + 1, ".", plus + 1, point2)
  BY <1>3, <1>8, <1>10, DigitsCut
<1> DEFINE a == SubSeq(s, 1, 2 - 1)
           b == SubSeq(s, 3, point - 1)
           c == SubSeq(s, point + 1, plus - 1)
           d == SubSeq(s, plus + 1, point2 - 1)
           e == From(s, point2 + 1)
<1>16. Tokens(s) = <<a, b, c, d, e>>
  <2>1. /\ Cut(s, Behind(s, 2), ".", 3, point) /\ Cut(s, Behind(s, point), "+", point + 1, plus)
        /\ Cut(s, Behind(s, plus), ".", plus + 1, point2)
    BY <1>11, <1>13, <1>14, <1>15
  <2>2. Tokens(s) = <<a, b, c, d, From(s, Behind(s, point2))>>
    BY <1>12, <2>1, TokensCut
  <2> QED
    BY <1>11, <2>2
<1>17. \A k \in 2 .. 5 : Tokens(s)[k] # <<>> /\ IsNumber(Tokens(s)[k])
  <2>1. /\ b # <<>> /\ IsNumber(b) /\ c # <<>> /\ IsNumber(c) /\ d # <<>> /\ IsNumber(d)
        /\ e # <<>> /\ IsNumber(e)
    BY <1>6, <1>7, <1>8, <1>9 DEF From
  <2> HIDE DEF a, b, c, d, e
  <2>2. Tokens(s)[2] = b /\ Tokens(s)[3] = c /\ Tokens(s)[4] = d /\ Tokens(s)[5] = e
    BY <1>16
  <2>3. \A k \in 2 .. 5 : k = 2 \/ k = 3 \/ k = 4 \/ k = 5
    OBVIOUS
  <2> QED
    BY <2>1, <2>2, <2>3, Zenon
<1>18. /\ point \in 4 .. Len(s) /\ plus \in point + 2 .. Len(s)
       /\ point2 \in plus + 2 .. Len(s) - 1 /\ s[1] \in KnownLibraries
  BY <1>1, <1>10
<1> QED
  BY <1>16, <1>17, <1>18, Zenon

(* No name of the right form is refused: until the last point is passed,   *)
(* what was cut does not make up the whole of it.                          *)
LEMMA WellFormedAccepted ==
  ASSUME NEW Chars, NEW s \in Seq(Chars), WellFormed(s)
  PROVE  Accepted(s)
<1> DEFINE n == Len(s)
<1>1. PICK point, plus, point2 :
           /\ point \in 4 .. Len(s) /\ plus \in point + 2 .. Len(s)
           /\ point2 \in plus + 2 .. Len(s) - 1 /\ s[1] \in KnownLibraries
           /\ Tokens(s) = <<SubSeq(s, 1, 2 - 1), SubSeq(s, 3, point - 1),
                            SubSeq(s, point + 1, plus - 1), SubSeq(s, plus + 1, point2 - 1),
                            From(s, point2 + 1)>>
           /\ \A k \in 2 .. 5 : Tokens(s)[k] # <<>> /\ IsNumber(Tokens(s)[k])
  BY FormCut, Zenon
<1>2. n \in Nat
  OBVIOUS
<1>3. /\ point \in 4 .. n /\ plus \in point + 2 .. n /\ point2 \in plus + 2 .. n - 1
  BY <1>1
<1>4. /\ 1 \in 1 .. n /\ 2 \in 1 .. n /\ 3 \in 1 .. n /\ point \in 3 .. n /\ point + 1 \in 1 .. n
      /\ plus \in point + 1 .. n /\ plus + 1 \in 1 .. n /\ point2 \in plus + 1 .. n
      /\ 1 \in 1 .. n + 1 /\ 2 - 1 \in 1 - 1 .. n
      /\ 3 \in 1 .. n + 1 /\ point - 1 \in 3 - 1 .. n
      /\ point + 1 \in 1 .. n + 1 /\ plus - 1 \in (point + 1) - 1 .. n
      /\ plus + 1 \in 1 .. n + 1 /\ point2 - 1 \in (plus + 1) - 1 .. n
      /\ point2 + 1 \in 1 .. n + 1 /\ n \in (point2 + 1) - 1 .. n
      /\ 2 \in 1 .. n
  <2> HIDE DEF n
  <2> QED
    BY <1>2, <1>3
<1> DEFINE a == SubSeq(s, 1, 2 - 1)
           b == SubSeq(s, 3, point - 1)
           c == SubSeq(s, point + 1, plus - 1)
           d == SubSeq(s, plus + 1, point2 - 1)
           e == From(s, point2 + 1)
<1>5. Tokens(s) = <<a, b, c, d, e>>
  BY <1>1
<1>6. a \in Seq(Chars) /\ b \in Seq(Chars) /\ c \in Seq(Chars) /\ d \in Seq(Chars)
  BY <1>4, PartOf
<1>7. e \in Seq(Chars)
  BY <1>4, PartOf DEF From
<1>8. strlen(From(s, 1)) = strlen(a) + LengthOf(s[2]) + strlen(From(s, 3))
  <2>1. strlen(From(s, 1)) = strlen(a) + LengthOf(s[2]) + strlen(From(s, 2 + 1))
    BY <1>4, StrlenFrom
  <2> QED
    BY <2>1
<1>9. strlen(From(s, 3)) = strlen(b) + LengthOf(s[point]) + strlen(From(s, point + 1))
  BY <1>4, StrlenFrom
<1>10. strlen(From(s, point + 1)) = strlen(c) + LengthOf(s[plus]) + strlen(From(s, plus + 1))
  BY <1>4, StrlenFrom
<1>11. strlen(From(s, plus + 1)) = strlen(d) + LengthOf(s[point2]) + strlen(e)
  BY <1>4, StrlenFrom
<1>12. From(s, 1) = s
  BY SubSeqFull DEF From
<1>13. /\ strlen(FlattenSeq(SubSeq(Tokens(s), 1, 2))) = strlen(a) + strlen(b)
       /\ strlen(FlattenSeq(SubSeq(Tokens(s), 1, 3))) = strlen(a) + strlen(b) + strlen(c)
       /\ strlen(FlattenSeq(SubSeq(Tokens(s), 1, 4)))
            = strlen(a) + strlen(b) + strlen(c) + strlen(d)
  <2> HIDE DEF a, b, c, d, e
  <2>1. /\ strlen(FlattenSeq(SubSeq(<<a, b, c, d, e>>, 1, 2))) = strlen(a) + strlen(b)
        /\ strlen(FlattenSeq(SubSeq(<<a, b, c, d, e>>, 1, 3))) = strlen(a) + strlen(b) + strlen(c)
        /\ strlen(FlattenSeq(SubSeq(<<a, b, c, d, e>>, 1, 4)))
             = strlen(a) + strlen(b) + strlen(c) + strlen(d)
    BY <1>6, PiecesLength
  <2> QED
    BY <1>5, <2>1, Zenon
<1>14. \A k \in 2 .. 4 : ~EndsAt(s, Tokens(s), k)
  <2> DEFINE A == strlen(a)
             B == strlen(b)
             C == strlen(c)
             D == strlen(d)
             E == strlen(e)
             p == LengthOf(s[2])
             q == LengthOf(s[point])
             r == LengthOf(s[plus])
             t == LengthOf(s[point2])
             x == strlen(From(s, 3))
             y == strlen(From(s, point + 1))
             z == strlen(From(s, plus + 1))
             all == strlen(s)
  <2>1. A \in Nat /\ B \in Nat /\ C \in Nat /\ D \in Nat /\ E \in Nat
    <3> HIDE DEF a, b, c, d, e
    <3> QED
      BY <1>6, <1>7, StrlenNat
  <2>2. p \in Nat \ {0} /\ q \in Nat \ {0} /\ r \in Nat \ {0} /\ t \in Nat \ {0}
    BY Lengths, Zenon
  <2>3. all = A + p + x /\ x = B + q + y /\ y = C + r + z /\ z = D + t + E
    BY <1>8, <1>9, <1>10, <1>11, <1>12, Zenon
  <2> HIDE DEF A, B, C, D, E, p, q, r, t, x, y, z, all
  <2>4. all = A + p + (B + q + (C + r + (D + t + E)))
    BY <2>3
  <2>5. A + B + (2 - 1) # all /\ A + B + C + (3 - 1) # all /\ A + B + C + D + (4 - 1) # all
    BY <2>1, <2>2, <2>4
  <2>6. ~EndsAt(s, Tokens(s), 2)
    BY <1>13, <2>5, Zenon DEF EndsAt, A, B, all
  <2>7. ~EndsAt(s, Tokens(s), 3)
    BY <1>13, <2>5, Zenon DEF EndsAt, A, B, C, all
  <2>8. ~EndsAt(s, Tokens(s), 4)
    BY <1>13, <2>5, Zenon DEF EndsAt, A, B, C, D, all
  <2>9. \A k \in 2 .. 4 : k = 2 \/ k = 3 \/ k = 4
    OBVIOUS
  <2> QED
    BY <2>6, <2>7, <2>8, <2>9, Zenon
<1>15. Tokens(s)[1] \in {<<l>> : l \in KnownLibraries}
  <2>1. Len(a) = (2 - 1) - 1 + 1 /\ \A k \in 1 .. (2 - 1) - 1 + 1 : a[k] = s[1 + k - 1]
    BY <1>4, PartOf
  <2>2. Tokens(s)[1] = a
    BY <1>5
  <2> DEFINE l == s[1]
  <2>3. l \in KnownLibraries
    BY <1>1
  <2> HIDE DEF a, l
  <2>4. Len(a) = 1 /\ a[1] = l
    BY <2>1 DEF l
  <2>5. a = <<l>>
    BY <1>6, <2>4
  <2> QED
    BY <2>2, <2>3, <2>5
<1> QED
  BY <1>1, <1>14, <1>15, Zenon DEF Accepted

-----------------------------------------------------------------------------
(***************************************************************************)
(* The inductive invariant.                                                *)
(***************************************************************************)
FillingTables == {"table", "addresses", "hash", "digest"}
PlacingNames  == {"placeNames", "copyNames"}
WithTables    == {"allocNames"} \cup FillingTables \cup PlacingNames
InLibraries   == {"allocTables"} \cup WithTables

count == IF importsPresent THEN 5 ELSE 4

Control ==
  /\ step \in {"entries", "importEntry", "lastEntries", "xexHeader", "returned"}
              \cup InLibraries
  /\ ret \in {"none", "success", "outOfMem", "invalidImportName"}
  /\ step # "returned" => ret = "none"
  /\ littleEndian \in BOOLEAN /\ exe \in Executables /\ peTables \in PEImportTables
  /\ step \in {"importEntry"} \cup InLibraries => importsPresent
  /\ i \in 0 .. Len(peTables) + 1
  /\ step \in {"entries", "importEntry", "allocTables", "allocNames"} => i = Len(peTables)
  /\ step = "table" => i \in 0 .. Len(peTables)
  /\ step \in FillingTables \ {"table"} => i \in 1 .. Len(peTables)
  /\ step \in PlacingNames => i \in 1 .. Len(peTables) + 1

(* The entries: filled in from the first to the last.                      *)
Listed ==
  /\ step = "entries" => entries = <<>> /\ currentHeader = 1
  /\ step \notin {"entries", "returned"} \/ Succeeded =>
       /\ Len(entries) = count /\ DOMAIN entries = 1 .. count
       /\ \A k \in 1 .. count : DOMAIN entries[k] = {"id", "dataOrOffset"}
       /\ entries[1].id = XEX_OPT_ID_BASEFILE_FORMAT /\ entries[2].id = XEX_OPT_ID_ENTRYPOINT
  /\ step \in {"importEntry"} \cup InLibraries => currentHeader = 3
  /\ step = "lastEntries" => currentHeader = count - 1
  /\ importsPresent /\ (step \in InLibraries \cup {"lastEntries", "xexHeader"} \/ Succeeded)
       => entries[3].id = XEX_OPT_ID_IMPORT_LIBS
  /\ step = "xexHeader" \/ Succeeded =>
       /\ entries[count - 1].id = XEX_OPT_ID_TLS_INFO
       /\ entries[count].id = XEX_OPT_ID_SYS_FLAGS
  /\ currentHeader \in 1 .. 5 /\ optHeaderCount \in 0 .. 5
  /\ Succeeded => optHeaderCount = count

(* The tables: as many as the PE has, and all there once there are any.    *)
TablesMade ==
  step \in WithTables \/ (importsPresent /\ (step \in {"lastEntries", "xexHeader"} \/ Succeeded))

TablesDone ==
  \/ step \in PlacingNames
  \/ importsPresent /\ (step \in {"lastEntries", "xexHeader"} \/ Succeeded)

Allocated ==
  /\ TablesMade =>
       /\ DOMAIN importTables = 1 .. Len(peTables) /\ Len(importTables) = Len(peTables)
       /\ Len(peTables) \in 1 .. Short - 1
       /\ \A t \in 1 .. Len(peTables) : DOMAIN importTables[t] = DOMAIN BlankTable
  /\ ~importsPresent \/ step \in {"entries", "importEntry", "allocTables"} => importTables = <<>>

(* From the last to the first each has its index and all its imports, and  *)
(* its hash is in the one before.                                          *)
Indexed(t) == importTables[t].tableIndex = ModuleIndex(t, Byte)

Filled(t) ==
  /\ Indexed(t)
  /\ importTables[t].addresses = peTables[t].imports
  /\ importTables[t].addressCount = Len(peTables[t].imports)

FilledBy(t) == \/ TablesDone
               \/ step \in FillingTables /\ t > i
               \/ step \in {"hash", "digest"} /\ t = i

(* A table in the byte order of the file.                                  *)
BigEndian(t) ==
  [contents  |-> [importTables[t] EXCEPT !.size = 0],
   bigEndian |-> [part \in {"fields", "addresses"} |-> TRUE]]

Hashed(t) == IF t = 1 THEN importTableSha1 = <<BigEndian(t)>>
             ELSE importTables[t - 1].sha1 = <<BigEndian(t)>>

HashedBy(t) == TablesDone \/ (step \in FillingTables /\ t > i)

Accounted ==
  \A t \in 1 .. Len(peTables) : /\ FilledBy(t) => Filled(t)
                                /\ HashedBy(t) => Hashed(t)

Contents ==
  /\ step # "digest" => swapped = {}
  /\ step = "digest" => /\ swapped = (IF littleEndian THEN Parts(i) ELSE {})
                        /\ context = BigEndian(i)
  /\ step = "addresses" => Indexed(i)
  /\ Accounted

OptInv == Control /\ Listed /\ Allocated /\ Contents

-----------------------------------------------------------------------------
LEMMA PETables ==
  ASSUME NEW pe \in PEImportTables
  PROVE  /\ Len(pe) \in Nat /\ DOMAIN pe = 1 .. Len(pe)
         /\ \A t \in 1 .. Len(pe) : pe[t].imports \in Seq(Nat)
BY OptHeadersAssumption

LEMMA OptInit == Init => OptInv
<1> SUFFICES ASSUME Init PROVE OptInv
  OBVIOUS
<1>1. Len(peTables) \in Nat
  BY PETables DEF Init
<1>2. step = "entries" /\ ret = "none" /\ ~Succeeded
  BY DEF Init, Succeeded
<1>3. Control
  BY <1>1 DEF Init, Control, InLibraries, WithTables, FillingTables, PlacingNames
<1>4. Listed
  BY <1>2 DEF Init, Listed, InLibraries, WithTables, FillingTables, PlacingNames
<1>5. Allocated /\ Contents
  BY <1>2 DEF Init, Allocated, Contents, Accounted, TablesMade, TablesDone, FilledBy, HashedBy,
              WithTables, FillingTables, PlacingNames
<1> QED
  BY <1>3, <1>4, <1>5 DEF OptInv

LEMMA ControlNext == OptInv /\ [Next]_vars => Control'
<1> SUFFICES ASSUME OptInv, [Next]_vars PROVE Control'
  OBVIOUS
<1> USE DEF InLibraries, WithTables, FillingTables, PlacingNames, At, InLibs, Goto, Return,
            Cleanup, inputs, importsPresent
<1>1. Control /\ Listed
  BY DEF OptInv
<1>2. Len(peTables) \in Nat /\ DOMAIN peTables = 1 .. Len(peTables)
  BY <1>1, PETables DEF Control
<1>3. importsPresent => Len(peTables) > 0
  BY <1>2
<1> USE DEF Control
<1>4. CASE BeginEntries
  BY <1>1, <1>2, <1>4 DEF BeginEntries, libraries
<1>5. CASE SetImportEntry
  BY <1>1, <1>2, <1>5 DEF SetImportEntry, libraries
<1>6. CASE AllocTables
  BY <1>1, <1>2, <1>6 DEF AllocTables
<1>7. CASE AllocNames
  BY <1>1, <1>2, <1>7 DEF AllocNames
<1>8. CASE BeginTable
  BY <1>1, <1>2, <1>8 DEF BeginTable
<1>9. CASE SetAddresses
  BY <1>1, <1>2, <1>9 DEF SetAddresses, FillTable
<1>10. CASE HashTable
  BY <1>1, <1>2, <1>10 DEF HashTable
<1>11. CASE DigestTable
  BY <1>1, <1>2, <1>11 DEF DigestTable, StoreDigest
<1>12. CASE AllocOffsets
  BY <1>1, <1>2, <1>12 DEF AllocOffsets
<1>13. CASE PlaceName
  BY <1>1, <1>2, <1>13 DEF PlaceName
<1>14. CASE AllocNameTable
  BY <1>1, <1>2, <1>14 DEF AllocNameTable
<1>15. CASE CopyName
  BY <1>1, <1>2, <1>15 DEF CopyName
<1>16. CASE FinishLibraries
  BY <1>1, <1>2, <1>16 DEF FinishLibraries, libraries
<1>17. CASE SetLastEntries
  BY <1>1, <1>2, <1>17 DEF SetLastEntries, libraries
<1>18. CASE SetXEXHeader
  BY <1>1, <1>2, <1>18 DEF SetXEXHeader, libraries
<1>19. CASE UNCHANGED vars
  BY <1>1, <1>19 DEF vars, libraries
<1> QED
  BY <1>4, <1>5, <1>6, <1>7, <1>8, <1>9, <1>10, <1>11, <1>12, <1>13, <1>14, <1>15, <1>16,
     <1>17, <1>18, <1>19 DEF Next
-----------------------------------------------------------------------------
(* What the steps do to the entries, to the tables and to the hashes.      *)
LEMMA ListedNext == OptInv /\ [Next]_vars => Listed'
<1> SUFFICES ASSUME OptInv, [Next]_vars PROVE Listed'
  OBVIOUS
<1> USE DEF InLibraries, WithTables, FillingTables, PlacingNames, At, InLibs, Goto, Return,
            Cleanup, inputs, importsPresent, Succeeded, count
<1>1. Control /\ Listed
  BY DEF OptInv
<1>2. CASE BeginEntries
  <2>1. CASE Return("outOfMem") /\ UNCHANGED <<entries, currentHeader>>
    BY <1>1, <1>2, <2>1 DEF BeginEntries, Control, Listed, xexHeader
  <2>2. CASE ~(Return("outOfMem") /\ UNCHANGED <<entries, currentHeader>>)
    <3>1. /\ step = "entries" /\ ret = "none" /\ UNCHANGED <<inputs, xexHeader, ret>>
          /\ currentHeader' = 3
          /\ step' = IF importsPresent THEN "importEntry" ELSE "lastEntries"
          /\ entries' = [[k \in 1 .. count |-> BlankEntry]
                            EXCEPT ![1] = Entry(XEX_OPT_ID_BASEFILE_FORMAT, 0),
                                   ![2] = Entry(XEX_OPT_ID_ENTRYPOINT,
                                                U32(exe.baseAddr + exe.entryPoint))]
      BY <1>1, <1>2, <2>2 DEF BeginEntries, Control
    <3>2. count \in {4, 5} /\ count' = count
      BY <3>1
    <3>3. entries' \in Seq({BlankEntry, entries'[1], entries'[2]})
      BY <3>1, <3>2
    <3>4. Len(entries') = count /\ DOMAIN entries' = 1 .. count
      BY <3>1, <3>2
    <3>5. /\ entries'[1] = Entry(XEX_OPT_ID_BASEFILE_FORMAT, 0)
          /\ entries'[2] = Entry(XEX_OPT_ID_ENTRYPOINT, U32(exe.baseAddr + exe.entryPoint))
          /\ \A k \in 3 .. count : entries'[k] = BlankEntry
      <4> DEFINE first  == Entry(XEX_OPT_ID_BASEFILE_FORMAT, 0)
                 second == Entry(XEX_OPT_ID_ENTRYPOINT, U32(exe.baseAddr + exe.entryPoint))
                 blank  == [k \in 1 .. count |-> BlankEntry]
      <4>1. entries' = [blank EXCEPT ![1] = first, ![2] = second]
        BY <3>1
      <4>2. DOMAIN blank = 1 .. count /\ \A k \in 3 .. count : blank[k] = BlankEntry
        BY <3>2
      <4> HIDE DEF first, second, blank
      <4>3. /\ entries'[1] = first /\ entries'[2] = second
            /\ \A k \in 3 .. count : entries'[k] = BlankEntry
        BY <3>2, <4>1, <4>2
      <4> QED
        BY <4>3 DEF first, second
    <3>6. \A k \in 1 .. count : DOMAIN (entries'[k]) = {"id", "dataOrOffset"}
      BY <3>2, <3>5 DEF Entry, BlankEntry
    <3> QED
      BY <1>1, <3>1, <3>2, <3>4, <3>5, <3>6 DEF Control, Listed, xexHeader, Entry
  <2> QED
    BY <2>1, <2>2
<1>3. CASE SetImportEntry
  BY <1>1, <1>3 DEF SetImportEntry, Control, Listed, xexHeader
<1>4. CASE SetLastEntries
  <2>1. /\ step = "lastEntries" /\ step' = "xexHeader" /\ UNCHANGED <<inputs, xexHeader, ret>>
        /\ currentHeader' = currentHeader + 1 /\ currentHeader = count - 1
    BY <1>1, <1>4 DEF SetLastEntries, Control, Listed
  <2>2. /\ Len(entries) = count /\ DOMAIN entries = 1 .. count /\ count \in {4, 5}
        /\ \A k \in 1 .. count : DOMAIN entries[k] = {"id", "dataOrOffset"}
    BY <1>1, <2>1 DEF Listed
  <2> DEFINE tls   == [entries[count - 1] EXCEPT !.id = XEX_OPT_ID_TLS_INFO]
             flags == Entry(XEX_OPT_ID_SYS_FLAGS, SystemFlags)
  <2>3. entries' = [entries EXCEPT ![count - 1] = tls, ![count] = flags]
    BY <1>4, <2>1, <2>2 DEF SetLastEntries
  <2>4. /\ DOMAIN tls = {"id", "dataOrOffset"} /\ tls.id = XEX_OPT_ID_TLS_INFO
        /\ DOMAIN flags = {"id", "dataOrOffset"} /\ flags.id = XEX_OPT_ID_SYS_FLAGS
    BY <2>2 DEF Entry
  <2> HIDE DEF tls, flags
  <2>5. /\ Len(entries') = count /\ DOMAIN entries' = 1 .. count
        /\ entries'[count - 1] = tls /\ entries'[count] = flags
        /\ \A k \in 1 .. count - 2 : entries'[k] = entries[k]
    BY <2>2, <2>3
  <2>6. importsPresent => entries'[3].id = XEX_OPT_ID_IMPORT_LIBS
    BY <1>1, <2>1, <2>5 DEF Listed
  <2>7. \A k \in 1 .. count : DOMAIN (entries'[k]) = {"id", "dataOrOffset"}
    BY <2>2, <2>4, <2>5
  <2>8. entries'[1].id = XEX_OPT_ID_BASEFILE_FORMAT /\ entries'[2].id = XEX_OPT_ID_ENTRYPOINT
    BY <1>1, <2>1, <2>2, <2>5 DEF Listed
  <2> QED
    BY <1>1, <2>1, <2>2, <2>4, <2>5, <2>6, <2>7, <2>8 DEF Control, Listed, xexHeader
<1>5. CASE SetXEXHeader
  BY <1>1, <1>5, SMTT(30) DEF SetXEXHeader, Control, Listed, xexHeader
<1>6. CASE FinishLibraries
  BY <1>1, <1>6 DEF FinishLibraries, Control, Listed, xexHeader
<1>7. CASE UNCHANGED vars
  BY <1>1, <1>7 DEF vars, Control, Listed, xexHeader
<1>8. CASE \/ AllocTables \/ AllocNames \/ BeginTable \/ SetAddresses \/ HashTable
           \/ DigestTable \/ AllocOffsets \/ PlaceName \/ AllocNameTable \/ CopyName
  <2>1. /\ step \in InLibraries /\ step' \in InLibraries \cup {"returned"}
        /\ UNCHANGED <<entries, currentHeader, inputs, xexHeader>>
        /\ step' # "returned" => UNCHANGED ret
        /\ step' = "returned" => ret' # "success"
    BY <1>1, <1>8 DEF AllocTables, AllocNames, BeginTable, SetAddresses, FillTable, HashTable,
       DigestTable, StoreDigest, AllocOffsets, PlaceName, AllocNameTable, CopyName, Control
  <2> QED
    BY <1>1, <2>1 DEF Control, Listed, xexHeader
<1> QED
  BY <1>2, <1>3, <1>4, <1>5, <1>6, <1>7, <1>8 DEF Next

(* The steps that make or change no table, and say so.                     *)
LEMMA AllocatedNext == OptInv /\ [Next]_vars => Allocated'
<1> SUFFICES ASSUME OptInv, [Next]_vars PROVE Allocated'
  OBVIOUS
<1> USE DEF InLibraries, WithTables, FillingTables, PlacingNames, At, InLibs, Goto, Return,
            Cleanup, inputs, importsPresent, Succeeded, TablesMade
<1>1. Control /\ Allocated
  BY DEF OptInv
<1>2. Len(peTables) \in Nat /\ DOMAIN peTables = 1 .. Len(peTables)
  BY <1>1, PETables DEF Control
<1>3. CASE AllocTables
  <2>1. importsPresent /\ step = "allocTables" /\ Len(peTables) > 0 /\ UNCHANGED <<peTables>>
    BY <1>1, <1>2, <1>3 DEF AllocTables, Control
  <2>2. CASE importTables' = [t \in DOMAIN peTables |-> BlankTable]
    <3>1. importTables' \in Seq({BlankTable}) /\ Len(importTables') = Len(peTables)
      BY <1>2, <2>2
    <3>2. DOMAIN importTables' = 1 .. Len(peTables)
      BY <1>2, <2>2
    <3>3. \A t \in 1 .. Len(peTables) : DOMAIN (importTables'[t]) = DOMAIN BlankTable
      BY <1>2, <2>2
    <3> QED
      BY <1>1, <1>2, <1>3, <2>1, <3>1, <3>2, <3>3, ImportNamesAssumption
      DEF AllocTables, Control, Allocated, MostTables
  <2>3. CASE Return("outOfMem")
    BY <1>1, <1>3, <2>1, <2>3 DEF AllocTables, Control, Allocated
  <2> QED
    BY <1>3, <2>1, <2>2, <2>3 DEF AllocTables
<1>4. CASE BeginTable \/ SetAddresses \/ DigestTable
  <2>1. /\ TablesMade /\ importsPresent /\ UNCHANGED <<peTables>>
        /\ step \notin {"entries", "importEntry", "allocTables"}
        /\ step' \notin {"entries", "importEntry", "allocTables"}
    BY <1>1, <1>4 DEF BeginTable, SetAddresses, FillTable, DigestTable, StoreDigest, Control
  <2>2. \E t \in 1 .. Len(peTables) : \E r :
          /\ importTables' = [importTables EXCEPT ![t] = r]
             \/ importTables' = importTables
          /\ DOMAIN r = DOMAIN BlankTable
    <3>1. CASE BeginTable
      <4>1. i \in 1 .. Len(peTables)
        BY <1>1, <1>2, <3>1 DEF BeginTable, Control
      <4> DEFINE name == peTables[i].name
                 r == [importTables[i] EXCEPT
                         !.tableIndex = (i - 1) % Byte,
                         !.targetVer  = IF Accepted(name) THEN TargetVersion(name) ELSE @,
                         !.minimumVer = IF Accepted(name) THEN MinimumVersion(name) ELSE @,
                         !.unknown    = IF Accepted(name) THEN FileName(i) ELSE @]
      <4>2. importTables' = [importTables EXCEPT ![i] = r]
        BY <1>1, <2>1, <3>1, <4>1 DEF BeginTable, Allocated
      <4>3. DOMAIN r = DOMAIN BlankTable
        BY <1>1, <2>1, <4>1 DEF Allocated
      <4> QED
        BY <4>1, <4>2, <4>3
    <3>2. CASE SetAddresses
      <4>1. i \in 1 .. Len(peTables)
        BY <1>1, <1>2, <3>2 DEF SetAddresses, Control
      <4>2. CASE AllFit /\ FillTable
        <5> DEFINE r == [importTables[i] EXCEPT
              !.addressCount = importsCounted,
              !.addresses = SubSeq(peTables[i].imports, 1, importsCounted),
              !.size = SizeofImportTable + 4 * importsCounted]
        <5>1. importTables' = [importTables EXCEPT ![i] = r]
          BY <1>1, <2>1, <4>1, <4>2 DEF FillTable, Allocated
        <5>2. DOMAIN r = DOMAIN BlankTable
          BY <1>1, <2>1, <4>1 DEF Allocated
        <5> QED
          BY <4>1, <5>1, <5>2
      <4>3. CASE importTables' = [importTables EXCEPT ![i].addressCount = importsCounted]
        <5> DEFINE r == [importTables[i] EXCEPT !.addressCount = importsCounted]
        <5>1. importTables' = [importTables EXCEPT ![i] = r]
          BY <4>1, <4>3
        <5>2. DOMAIN r = DOMAIN BlankTable
          BY <1>1, <2>1, <4>1 DEF Allocated
        <5> QED
          BY <4>1, <5>1, <5>2
      <4> QED
        BY <3>2, <4>2, <4>3 DEF SetAddresses
    <3>3. CASE DigestTable
      <4>1. i \in 1 .. Len(peTables)
        BY <1>1, <1>2, <3>3 DEF DigestTable, StoreDigest, Control
      <4>2. CASE i > 1
        <5> DEFINE r == [importTables[i - 1] EXCEPT !.sha1 = <<context>>]
        <5>1. i - 1 \in 1 .. Len(peTables)
          BY <1>2, <4>1, <4>2
        <5>2. importTables' = [importTables EXCEPT ![i - 1] = r]
          BY <3>3, <4>2, <5>1 DEF DigestTable, StoreDigest
        <5>3. DOMAIN r = DOMAIN BlankTable
          BY <1>1, <2>1, <5>1 DEF Allocated
        <5> QED
          BY <5>1, <5>2, <5>3
      <4>3. CASE ~(i > 1)
        <5>1. importTables' = importTables
          BY <3>3, <4>3 DEF DigestTable, StoreDigest
        <5> QED
          BY <4>1, <5>1
      <4> QED
        BY <4>2, <4>3
    <3> QED
      BY <1>4, <3>1, <3>2, <3>3
  <2>3. DOMAIN importTables = 1 .. Len(peTables) /\ Len(importTables) = Len(peTables)
        /\ Len(peTables) \in 1 .. Short - 1
        /\ \A t \in 1 .. Len(peTables) : DOMAIN importTables[t] = DOMAIN BlankTable
    BY <1>1, <2>1 DEF Allocated
  <2>4. DOMAIN importTables' = 1 .. Len(peTables)
    BY <2>2, <2>3
  <2>5. Len(importTables') = Len(peTables)
    BY <2>2, <2>3
  <2>6. \A t \in 1 .. Len(peTables) : DOMAIN (importTables'[t]) = DOMAIN BlankTable
    BY <2>2, <2>3
  <2> QED
    BY <2>1, <2>3, <2>4, <2>5, <2>6 DEF Allocated
<1>5. CASE \/ AllocNames \/ HashTable \/ AllocOffsets \/ PlaceName \/ AllocNameTable
           \/ CopyName
  <2>1. /\ TablesMade /\ importsPresent /\ UNCHANGED <<peTables, importTables>>
        /\ step' \notin {"entries", "importEntry", "allocTables"}
    BY <1>1, <1>5 DEF AllocNames, HashTable, AllocOffsets, PlaceName, AllocNameTable, CopyName,
       Control
  <2> QED
    BY <1>1, <2>1 DEF Allocated
<1>6. CASE BeginEntries \/ SetImportEntry \/ FinishLibraries \/ SetLastEntries \/ SetXEXHeader
           \/ UNCHANGED vars
  <2>1. UNCHANGED <<peTables, importTables>>
    BY <1>6 DEF BeginEntries, SetImportEntry, FinishLibraries, SetLastEntries, SetXEXHeader,
       vars, libraries
  <2>2. TablesMade' => TablesMade
    BY <1>1, <1>6, <2>1 DEF BeginEntries, SetImportEntry, FinishLibraries, SetLastEntries,
       SetXEXHeader, vars, Control
  <2>3. step' \in {"entries", "importEntry", "allocTables"} =>
          step \in {"entries", "importEntry", "allocTables"}
    BY <1>1, <1>6 DEF BeginEntries, SetImportEntry, FinishLibraries, SetLastEntries,
       SetXEXHeader, vars, Control
  <2> QED
    BY <1>1, <2>1, <2>2, <2>3 DEF Allocated
<1> QED
  BY <1>3, <1>4, <1>5, <1>6 DEF Next
LEMMA WholeSubSeq ==
  ASSUME NEW s \in Seq(Nat)
  PROVE  SubSeq(s, 1, Len(s)) = s
OBVIOUS

(* A step that changes nothing in the tables and finishes none.            *)
LEMMA AccountedKept ==
  ASSUME Accounted, UNCHANGED <<peTables, importTables, importTableSha1>>,
         \A t \in 1 .. Len(peTables) : /\ FilledBy(t)' => FilledBy(t)
                                       /\ HashedBy(t)' => HashedBy(t)
  PROVE  Accounted'
<1>1. SUFFICES ASSUME NEW t \in 1 .. Len(peTables)
               PROVE  /\ FilledBy(t)' => Filled(t)'
                      /\ HashedBy(t)' => Hashed(t)'
  BY DEF Accounted
<1>2. Filled(t)' <=> Filled(t)
  BY DEF Filled, Indexed
<1>3. Hashed(t)' <=> Hashed(t)
  BY DEF Hashed, BigEndian
<1> QED
  BY <1>1, <1>2, <1>3 DEF Accounted

LEMMA ContentsNext == OptInv /\ [Next]_vars => Contents'
<1> SUFFICES ASSUME OptInv, [Next]_vars PROVE Contents'
  OBVIOUS
<1> USE DEF InLibraries, WithTables, FillingTables, PlacingNames, At, InLibs, Goto, Return,
            Cleanup, inputs, importsPresent, Succeeded
<1>1. Control /\ Allocated /\ Contents /\ Accounted
  BY DEF OptInv, Contents
<1>2. Len(peTables) \in Nat /\ DOMAIN peTables = 1 .. Len(peTables)
  BY <1>1, PETables DEF Control
<1>3. CASE \/ BeginEntries \/ SetImportEntry \/ AllocTables \/ AllocNames \/ PlaceName
           \/ AllocNameTable \/ CopyName \/ FinishLibraries \/ SetLastEntries \/ SetXEXHeader
           \/ UNCHANGED vars
  <2>1. UNCHANGED <<peTables, importTableSha1, swapped, context>>
    BY <1>3 DEF BeginEntries, SetImportEntry, AllocTables, AllocNames, PlaceName, AllocNameTable,
       CopyName, FinishLibraries, SetLastEntries, SetXEXHeader, vars, libraries, hashes
  <2>2. step' # "digest" \/ UNCHANGED <<step, i, importTables, littleEndian>>
    BY <1>3 DEF BeginEntries, SetImportEntry, AllocTables, AllocNames, PlaceName, AllocNameTable,
       CopyName, FinishLibraries, SetLastEntries, SetXEXHeader, vars, libraries
  <2>3. step' # "digest" => step # "digest"
    BY <1>3 DEF BeginEntries, SetImportEntry, AllocTables, AllocNames, PlaceName, AllocNameTable,
       CopyName, FinishLibraries, SetLastEntries, SetXEXHeader, vars, libraries
  <2>4. /\ step' # "digest" => swapped' = {}
        /\ step' = "digest" => /\ swapped' = (IF littleEndian' THEN Parts(i') ELSE {})
                               /\ context' = BigEndian(i)'
    BY <1>1, <2>1, <2>2, <2>3 DEF Contents, BigEndian
  <2>6. step' = "addresses" => Indexed(i)'
    <3>1. step' = "addresses" => UNCHANGED <<step, i, importTables>>
      BY <1>1, <1>3 DEF BeginEntries, SetImportEntry, AllocTables, AllocNames, PlaceName,
         AllocNameTable, CopyName, FinishLibraries, SetLastEntries, SetXEXHeader, vars, libraries,
         Control
    <3> QED
      BY <1>1, <3>1 DEF Contents, Indexed
  <2>5. Accounted'
    <3>1. CASE AllocTables
      BY <1>1, <1>2, <3>1 DEF AllocTables, Control, Accounted, FilledBy, HashedBy, TablesDone
    <3>2. CASE ~AllocTables
      <4>1. UNCHANGED importTables
        BY <1>3, <3>2 DEF BeginEntries, SetImportEntry, AllocNames, PlaceName, AllocNameTable,
           CopyName, FinishLibraries, SetLastEntries, SetXEXHeader, vars, libraries
      <4>2. TablesDone' => TablesDone
        BY <1>1, <1>3, <3>2, <2>1 DEF BeginEntries, SetImportEntry, AllocNames, PlaceName,
           AllocNameTable, CopyName, FinishLibraries, SetLastEntries, SetXEXHeader, vars,
           libraries, TablesDone, Control
      <4>3. \/ step' \notin FillingTables
            \/ step' = "table" /\ i' = Len(peTables)
            \/ UNCHANGED <<step, i>>
        BY <1>1, <1>3, <3>2 DEF BeginEntries, SetImportEntry, AllocNames, PlaceName,
           AllocNameTable, CopyName, FinishLibraries, SetLastEntries, SetXEXHeader, vars,
           libraries, Control
      <4>4. \A t \in 1 .. Len(peTables) : /\ FilledBy(t)' => FilledBy(t)
                                          /\ HashedBy(t)' => HashedBy(t)
        BY <1>2, <4>2, <4>3 DEF FilledBy, HashedBy
      <4> QED
        BY <1>1, <2>1, <4>1, <4>4, AccountedKept
    <3> QED
      BY <3>1, <3>2
  <2> QED
    BY <2>4, <2>5, <2>6 DEF Contents
<1>4. CASE BeginTable \/ SetAddresses
  <2>1. /\ i \in 1 .. Len(peTables) /\ i' = i /\ step \in {"table", "addresses"}
        /\ UNCHANGED <<peTables, importTableSha1, swapped>>
    BY <1>1, <1>2, <1>4 DEF BeginTable, SetAddresses, FillTable, Control, hashes
  <2>2. /\ step' \in {"addresses", "hash", "returned"}
        /\ step' = "hash" => SetAddresses
        /\ ~TablesDone' /\ swapped = {}
    BY <1>1, <1>4, <2>1 DEF BeginTable, SetAddresses, FillTable, TablesDone, Contents, Control
  <2>3. /\ \A t \in 1 .. Len(peTables) : t # i => importTables'[t] = importTables[t]
        /\ importTables'[i].sha1 = importTables[i].sha1
    <3>1. DOMAIN importTables = 1 .. Len(peTables) /\ DOMAIN importTables[i] = DOMAIN BlankTable
      BY <1>1, <1>2, <1>4, <2>1 DEF Allocated, TablesMade
    <3>2. "sha1" \in DOMAIN BlankTable
      BY DEF BlankTable
    <3>3. CASE BeginTable
      BY <2>1, <3>1, <3>2, <3>3 DEF BeginTable
    <3>4. CASE SetAddresses
      BY <2>1, <3>1, <3>2, <3>4 DEF SetAddresses, FillTable
    <3> QED
      BY <1>4, <3>3, <3>4
  <2>4. step' = "hash" => Filled(i)'
    <3>1. SUFFICES ASSUME step' = "hash" PROVE Filled(i)'
      OBVIOUS
    <3>2. AllFit /\ FillTable
      BY <2>2, <3>1 DEF SetAddresses
    <3>3. DOMAIN importTables = 1 .. Len(peTables) /\ DOMAIN importTables[i] = DOMAIN BlankTable
      BY <1>1, <1>2, <1>4, <2>1 DEF Allocated, TablesMade
    <3>4. importsCounted = Len(peTables[i].imports)
      BY <3>2 DEF AllFit
    <3>5. SubSeq(peTables[i].imports, 1, importsCounted) = peTables[i].imports
      BY <1>1, <2>1, <3>4, PETables, WholeSubSeq DEF Control
    <3>6. /\ importTables'[i].addressCount = importsCounted
          /\ importTables'[i].addresses = SubSeq(peTables[i].imports, 1, importsCounted)
      BY <2>1, <3>2, <3>3 DEF FillTable, BlankTable
    <3>7. Indexed(i)'
      <4>1. step = "addresses" /\ Indexed(i)
        BY <1>1, <2>2, <3>1 DEF Contents, SetAddresses
      <4>2. importTables'[i].tableIndex = importTables[i].tableIndex
        BY <2>1, <3>2, <3>3 DEF FillTable, BlankTable
      <4> QED
        BY <2>1, <4>1, <4>2 DEF Indexed
    <3> QED
      BY <2>1, <3>4, <3>5, <3>6, <3>7 DEF Filled
  <2>5. Accounted'
    <3>1. SUFFICES ASSUME NEW t \in 1 .. Len(peTables)
                   PROVE  /\ FilledBy(t)' => Filled(t)'
                          /\ HashedBy(t)' => Hashed(t)'
      BY <2>1 DEF Accounted
    <3>2. CASE t > i
      <4>1. FilledBy(t) /\ HashedBy(t)
        BY <2>1, <3>2 DEF FilledBy, HashedBy
      <4>2. Filled(t) /\ Hashed(t)
        BY <1>1, <4>1 DEF Accounted
      <4>3. t # 1 /\ t - 1 \in 1 .. Len(peTables)
        BY <2>1, <3>2
      <4>4. /\ importTables'[t] = importTables[t]
            /\ importTables'[t - 1].sha1 = importTables[t - 1].sha1
        BY <2>1, <2>3, <3>2, <4>3
      <4> QED
        BY <2>1, <4>2, <4>3, <4>4 DEF Filled, Indexed, Hashed, BigEndian
    <3>3. CASE t = i
      BY <2>1, <2>2, <2>4, <3>3 DEF FilledBy, HashedBy
    <3>4. CASE t < i
      BY <2>1, <2>2, <3>4 DEF FilledBy, HashedBy
    <3> QED
      BY <2>1, <3>2, <3>3, <3>4
  <2>6. step' = "addresses" => Indexed(i)'
    <3>1. DOMAIN importTables = 1 .. Len(peTables) /\ DOMAIN importTables[i] = DOMAIN BlankTable
      BY <1>1, <1>2, <1>4, <2>1 DEF Allocated, TablesMade
    <3>2. CASE BeginTable
      BY <2>1, <3>1, <3>2 DEF BeginTable, BlankTable, Indexed, ModuleIndex
    <3>3. CASE SetAddresses
      BY <3>3 DEF SetAddresses, FillTable
    <3> QED
      BY <1>4, <3>2, <3>3
  <2> QED
    BY <2>1, <2>2, <2>5, <2>6 DEF Contents
<1>5. CASE HashTable
  <2>1. /\ step = "hash" /\ step' = "digest" /\ i \in 1 .. Len(peTables)
        /\ UNCHANGED <<i, peTables, littleEndian, importTables, importTableSha1, ret>>
        /\ swapped = {} /\ littleEndian \in BOOLEAN
    BY <1>1, <1>5 DEF HashTable, Control, Contents
  <2>2. swapped' = IF littleEndian THEN Parts(i) ELSE {}
    BY <1>5, <2>1 DEF HashTable, Swapped
  <2>3. context' = BigEndian(i)
    <3>1. context' = Bytes(i, swapped')
      BY <1>5 DEF HashTable
    <3>2. \A part \in {"fields", "addresses"} : (<<i, part>> \in swapped') = littleEndian
      BY <2>1, <2>2 DEF Parts
    <3> QED
      BY <3>1, <3>2 DEF Bytes, BigEndian
  <2>4. BigEndian(i)' = BigEndian(i)
    BY <2>1 DEF BigEndian
  <2>5. \A t \in 1 .. Len(peTables) : /\ FilledBy(t)' => FilledBy(t)
                                      /\ HashedBy(t)' => HashedBy(t)
    BY <2>1 DEF FilledBy, HashedBy, TablesDone
  <2>6. Accounted'
    BY <1>1, <2>1, <2>5, AccountedKept
  <2> QED
    BY <2>1, <2>2, <2>3, <2>4, <2>6 DEF Contents
<1>6. CASE DigestTable
  <2>1. /\ step = "digest" /\ step' = "table" /\ i \in 1 .. Len(peTables) /\ i' = i - 1
        /\ UNCHANGED <<peTables, littleEndian, ret>> /\ littleEndian \in BOOLEAN
        /\ swapped = (IF littleEndian THEN Parts(i) ELSE {}) /\ context = BigEndian(i)
    BY <1>1, <1>6 DEF DigestTable, StoreDigest, Control, Contents
  <2>2. swapped' = {}
    BY <1>6, <2>1 DEF DigestTable, StoreDigest, Swapped
  <2>3. DOMAIN importTables = 1 .. Len(peTables)
        /\ \A t \in 1 .. Len(peTables) : DOMAIN importTables[t] = DOMAIN BlankTable
    BY <1>1, <1>2, <2>1 DEF Allocated, TablesMade
  <2>4. \A t \in 1 .. Len(peTables) : t # i - 1 => importTables'[t] = importTables[t]
    BY <1>2, <1>6, <2>1, <2>3 DEF DigestTable, StoreDigest
  <2>5. i > 1 => importTables'[i - 1].sha1 = <<BigEndian(i)>> /\ UNCHANGED importTableSha1
    BY <1>2, <1>6, <2>1, <2>3 DEF DigestTable, StoreDigest, BlankTable
  <2>6. i = 1 => importTableSha1' = <<BigEndian(i)>>
    BY <1>6, <2>1 DEF DigestTable, StoreDigest
  <2>7. ~TablesDone'
    BY <1>1, <2>1 DEF TablesDone, Control
  <2>8. Accounted'
    <3>1. SUFFICES ASSUME NEW t \in 1 .. Len(peTables), t > i - 1
                   PROVE  Filled(t)' /\ Hashed(t)'
      BY <2>1, <2>7 DEF Accounted, FilledBy, HashedBy
    <3>2. FilledBy(t) /\ Filled(t)
      BY <1>1, <2>1, <3>1 DEF Accounted, FilledBy
    <3>3. importTables'[t] = importTables[t]
      BY <2>1, <2>4, <3>1
    <3>4. Filled(t)' /\ BigEndian(t)' = BigEndian(t)
      BY <2>1, <3>2, <3>3 DEF Filled, Indexed, BigEndian
    <3>5. CASE t = i
      BY <2>1, <2>5, <2>6, <3>4, <3>5 DEF Hashed
    <3>6. CASE t > i
      <4>1. Hashed(t)
        BY <1>1, <2>1, <3>6 DEF Accounted, HashedBy
      <4>2. t # 1 /\ t - 1 # i - 1 /\ t - 1 \in 1 .. Len(peTables)
        BY <1>2, <2>1, <3>6
      <4>3. importTables'[t - 1] = importTables[t - 1]
        BY <2>4, <4>2
      <4> QED
        BY <3>4, <4>1, <4>2, <4>3 DEF Hashed
    <3> QED
      BY <2>1, <3>1, <3>4, <3>5, <3>6
  <2> QED
    BY <2>1, <2>2, <2>8 DEF Contents
<1>7. CASE AllocOffsets
  <2>1. /\ step = "table" /\ i = 0 /\ step' \in {"placeNames", "returned"}
        /\ UNCHANGED <<peTables, importTables, importTableSha1, swapped>> /\ swapped = {}
    BY <1>1, <1>7 DEF AllocOffsets, Contents, hashes
  <2>2. \A t \in 1 .. Len(peTables) : FilledBy(t) /\ HashedBy(t)
    BY <1>2, <2>1 DEF FilledBy, HashedBy
  <2>3. Accounted'
    BY <1>1, <2>1, <2>2, AccountedKept
  <2> QED
    BY <2>1, <2>3 DEF Contents
<1> QED
  BY <1>3, <1>4, <1>5, <1>6, <1>7 DEF Next

(***************************************************************************)
(* At every step of setOptHeaders the entries made so far, and from the    *)
(* table in hand to the last the imports and hashes, are as they should.   *)
(***************************************************************************)
THEOREM OptInvariant == Spec => []OptInv
<1>1. OptInv /\ [Next]_vars => OptInv'
  BY ControlNext, ListedNext, AllocatedNext, ContentsNext DEF OptInv
<1> QED
  BY OptInit, <1>1, PTL DEF Spec
-----------------------------------------------------------------------------
(***************************************************************************)
(* What a build of the optional headers that succeeded has made.           *)
(***************************************************************************)

(***************************************************************************)
(* The entries ascend by their IDs, every one that is counted is filled    *)
(* in, and they are those the placer and the writer are modelled with,     *)
(* whatever the executable and its imports.                                *)
(***************************************************************************)
THEOREM EntriesInOrder == Spec => []EntriesAscend
<1>1. OptInv => EntriesAscend
  <2> SUFFICES ASSUME OptInv, Succeeded PROVE EntriesAscend
    BY DEF EntriesAscend
  <2> DEFINE ids == [k \in 1 .. optHeaderCount |-> entries[k].id]
  <2>1. /\ optHeaderCount = count /\ count \in {4, 5}
        /\ entries[1].id = XEX_OPT_ID_BASEFILE_FORMAT /\ entries[2].id = XEX_OPT_ID_ENTRYPOINT
        /\ entries[count - 1].id = XEX_OPT_ID_TLS_INFO
        /\ entries[count].id = XEX_OPT_ID_SYS_FLAGS
        /\ importsPresent => entries[3].id = XEX_OPT_ID_IMPORT_LIBS
        /\ count = IF importsPresent THEN 5 ELSE 4
    BY DEF OptInv, Listed, count
  <2>2. ~importsPresent => importTables = <<>>
    BY DEF OptInv, Allocated
  <2>3. importsPresent => Len(importTables) \in Nat /\ Len(importTables) > 0 /\ importTables # <<>>
    <3>1. SUFFICES ASSUME importsPresent
                   PROVE  Len(importTables) \in Nat /\ Len(importTables) > 0
      OBVIOUS
    <3>2. Len(importTables) \in 1 .. Short - 1
      BY <3>1 DEF OptInv, Allocated, TablesMade
    <3> QED
      BY <3>2, ImportNamesAssumption
  <2>4. ids = IF importsPresent
              THEN <<XEX_OPT_ID_BASEFILE_FORMAT, XEX_OPT_ID_ENTRYPOINT, XEX_OPT_ID_IMPORT_LIBS,
                     XEX_OPT_ID_TLS_INFO, XEX_OPT_ID_SYS_FLAGS>>
              ELSE <<XEX_OPT_ID_BASEFILE_FORMAT, XEX_OPT_ID_ENTRYPOINT, XEX_OPT_ID_TLS_INFO,
                     XEX_OPT_ID_SYS_FLAGS>>
    BY <2>1
  <2>5. ids = OptHeaderIds([tableCount |-> Len(importTables)])
    BY <2>2, <2>3, <2>4 DEF OptHeaderIds
  <2>6. optHeaderCount > 0 /\ ids[1] # 0
    <3>1. ids[1] = XEX_OPT_ID_BASEFILE_FORMAT
      BY <2>1
    <3> QED
      BY <2>1, <3>1 DEF XEX_OPT_ID_BASEFILE_FORMAT
  <2>7. \A k \in 2 .. optHeaderCount : ids[k - 1] < ids[k]
    BY <2>1, <2>4 DEF XEX_OPT_ID_BASEFILE_FORMAT, XEX_OPT_ID_ENTRYPOINT, XEX_OPT_ID_IMPORT_LIBS,
       XEX_OPT_ID_TLS_INFO, XEX_OPT_ID_SYS_FLAGS
  <2> QED
    BY <2>2, <2>3, <2>5, <2>6, <2>7, Zenon DEF EntriesAscend
<1> QED
  BY <1>1, OptInvariant, PTL

(* No import is dropped: the table in the XEX lists all that are in the    *)
(* PE's, although 16 bits count them.                                      *)
THEOREM NoImportDropped == Spec => []EveryImportListed
<1>1. OptInv => EveryImportListed
  <2> SUFFICES ASSUME OptInv, LibrariesBuilt, NEW t \in DOMAIN peTables PROVE Filled(t)
    BY DEF EveryImportListed, Filled, Indexed
  <2>1. t \in 1 .. Len(peTables)
    BY PETables DEF OptInv, Control
  <2>2. FilledBy(t)
    BY DEF LibrariesBuilt, FilledBy, TablesDone
  <2> QED
    BY <2>1, <2>2 DEF OptInv, Contents, Accounted
<1> QED
  BY <1>1, OptInvariant, PTL

(* The hashes of the tables, taken backwards of memory that was swapped in *)
(* place, are those of the tables in the file, for any number of tables    *)
(* and on either kind of host.                                             *)
THEOREM TablesHashForwards == Spec => []TableHashesVerify
<1>1. OptInv => TableHashesVerify
  <2> SUFFICES ASSUME OptInv, LibrariesBuilt PROVE TableHashesVerify
    BY SMTT(30) DEF TableHashesVerify
  <2>1. /\ step \notin FillingTables /\ swapped = {} /\ littleEndian \in BOOLEAN
        /\ DOMAIN importTables = 1 .. Len(peTables) /\ Len(peTables) \in 1 .. Short - 1
    <3>1. step = "returned" /\ littleEndian \in BOOLEAN
      BY DEF OptInv, Control, LibrariesBuilt, Succeeded
    <3>2. swapped = {}
      BY <3>1 DEF OptInv, Contents
    <3>3. TablesMade
      BY DEF TablesMade, LibrariesBuilt
    <3> QED
      BY <3>1, <3>2, <3>3 DEF OptInv, Allocated, FillingTables
  <2>2. \A t \in DOMAIN importTables : InFile(t) = BigEndian(t)
    <3>1. TAKE t \in DOMAIN importTables
    <3> DEFINE parts == UNION {Parts(u) : u \in DOMAIN importTables}
    <3>2. Parts(t) \subseteq parts
      OBVIOUS
    <3>3. Swapped(parts) = IF littleEndian THEN parts ELSE {}
      BY <2>1 DEF Swapped
    <3>4. \A part \in {"fields", "addresses"} : (<<t, part>> \in Swapped(parts)) = littleEndian
      <4>1. \A part \in {"fields", "addresses"} : <<t, part>> \in parts
        BY <3>2 DEF Parts
      <4> HIDE DEF parts
      <4> QED
        BY <2>1, <3>3, <4>1
    <3>5. InFile(t) = Bytes(t, Swapped(parts))
      BY DEF InFile
    <3> HIDE DEF parts
    <3> QED
      BY <3>4, <3>5 DEF Bytes, BigEndian
  <2>3. \A t \in 1 .. Len(peTables) : Hashed(t)
    BY DEF OptInv, Contents, Accounted, LibrariesBuilt, HashedBy, TablesDone
  <2>4. 1 \in DOMAIN importTables /\ importTableSha1 = <<InFile(1)>>
    BY <2>1, <2>2, <2>3 DEF Hashed
  <2>5. \A t \in DOMAIN importTables \ {1} : importTables[t - 1].sha1 = <<InFile(t)>>
    BY <2>1, <2>2, <2>3 DEF Hashed
  <2>6. \A t \in DOMAIN importTables : \A p \in {"fields", "addresses"} : InFile(t).bigEndian[p]
    BY <2>2 DEF BigEndian
  <2> QED
    BY <2>4, <2>5, <2>6 DEF TableHashesVerify
<1> QED
  BY <1>1, OptInvariant, PTL
-----------------------------------------------------------------------------
(* What the names and the versions of the tables come to, from the last to *)
(* the first.                                                              *)
Read(t) ==
  /\ Accepted(peTables[t].name)
  /\ importTables[t].targetVer = TargetVersion(peTables[t].name)
  /\ importTables[t].minimumVer = MinimumVersion(peTables[t].name)

ReadBy(t) == \/ TablesDone
             \/ step \in FillingTables /\ t > i
             \/ step \in {"addresses", "hash", "digest"} /\ t = i

NamesRead == \A t \in 1 .. Len(peTables) : ReadBy(t) => Read(t)

(* The names, one behind another: those that have been placed, and those   *)
(* that have been copied.                                                  *)
NamesCopied == TablesDone /\ step \notin PlacingNames

CopiedName(t) == [name |-> t, at |-> NameAt[t], len |-> strlen(FileName(t)) + 1]

NamesLaidOut ==
  /\ step \in {"entries", "importEntry", "allocTables", "allocNames"} \cup FillingTables =>
       nameTableSize = 0 /\ nameOffsets = <<>> /\ nameTable = {}
  /\ step = "placeNames" => /\ nameTableSize = NameAt[i] /\ nameTable = {}
                            /\ nameOffsets = [t \in 1 .. i - 1 |-> NameAt[t]]
  /\ step = "copyNames" \/ NamesCopied => nameTableSize = NameAt[Len(peTables) + 1]
  /\ step = "copyNames" => /\ nameOffsets = [t \in 1 .. Len(peTables) |-> NameAt[t]]
                           /\ nameTable = {CopiedName(t) : t \in 1 .. i - 1}
  /\ NamesCopied => nameTable = {CopiedName(t) : t \in 1 .. Len(peTables)}

(* The size, which the tables add to from the last to the first.           *)
counts == [t \in 1 .. Len(peTables) |-> Len(peTables[t].imports)]

SumTo(t) == ImportTableAt(0, counts)[t]

SumFrom(t) == 12 + (SumTo(Len(peTables) + 1) - SumTo(t))

Sized ==
  /\ step \in {"entries", "importEntry", "allocTables", "allocNames"} \/ ~importsPresent =>
       size = 0
  /\ step \in {"table", "addresses"} => size = U32(SumFrom(i + 1))
  /\ step \in {"hash", "digest"} => size = U32(SumFrom(i))
  /\ step = "placeNames" => size = U32(SumFrom(1))
  /\ step = "copyNames" \/ NamesCopied => size = U32(SumFrom(1) + nameTableSize)

(* What is of its type whether or not the build succeeds.                  *)
TableTyped(table) ==
  /\ DOMAIN table = DOMAIN BlankTable
  /\ table.tableIndex \in 0 .. Byte - 1
  /\ table.addressCount \in 0 .. Short - 1
  /\ table.addresses \in Seq(Nat)

Typed ==
  /\ moduleFlags \subseteq {"TITLE", "EXPORTS", "DLL"}
  /\ \A t \in DOMAIN importTables : TableTyped(importTables[t])
  /\ size \in 0 .. Word - 1 /\ nameTableSize \in 0 .. Word - 1
  /\ nameOffsets \in Seq(Nat)

LibsInv == NamesRead /\ NamesLaidOut /\ Sized /\ Typed

(* A running sum: there is one, of any numbers.                            *)
LEMMA RunningSum ==
  ASSUME NEW n \in Nat, NEW w
  PROVE  \E f : f = [k \in 1 .. n + 1 |-> IF k = 1 THEN 0 ELSE f[k - 1] + w[k - 1]]
<1> DEFINE Sum(f, m) == f = [k \in 1 .. m + 1 |-> IF k = 1 THEN 0 ELSE f[k - 1] + w[k - 1]]
           Have == {m \in Nat : \E f : Sum(f, m)}
<1>1. 0 \in Have
  <2> DEFINE f == [k \in 1 .. 0 + 1 |-> 0]
  <2>1. Sum(f, 0)
    OBVIOUS
  <2> QED
    BY <2>1
<1>2. ASSUME NEW m \in Nat, m \in Have PROVE m + 1 \in Have
  <2>1. PICK f : Sum(f, m)
    BY <1>2
  <2> DEFINE g == [k \in 1 .. (m + 1) + 1 |->
                     IF k = (m + 1) + 1 THEN f[m + 1] + w[m + 1] ELSE f[k]]
             h == [k \in 1 .. (m + 1) + 1 |-> IF k = 1 THEN 0 ELSE g[k - 1] + w[k - 1]]
  <2>2. ASSUME NEW k \in 1 .. (m + 1) + 1 PROVE g[k] = h[k]
    <3>1. CASE k = 1
      <4>1. 1 \in 1 .. m + 1 /\ 1 # (m + 1) + 1
        OBVIOUS
      <4>2. f[1] = 0
        BY <2>1, <4>1
      <4> QED
        BY <3>1, <4>1, <4>2
    <3>2. CASE k = (m + 1) + 1
      <4>1. k # 1 /\ k - 1 = m + 1 /\ m + 1 # (m + 1) + 1 /\ m + 1 \in 1 .. (m + 1) + 1
        BY <3>2
      <4>2. g[m + 1] = f[m + 1]
        BY <4>1
      <4>3. g[k] = f[m + 1] + w[m + 1]
        BY <3>2
      <4>4. h[k] = g[m + 1] + w[m + 1]
        BY <4>1
      <4> QED
        BY <4>2, <4>3, <4>4
    <3>3. CASE k # 1 /\ k # (m + 1) + 1
      <4>1. k \in 1 .. m + 1 /\ k - 1 \in 1 .. (m + 1) + 1 /\ k - 1 # (m + 1) + 1
        BY <3>3
      <4>2. f[k] = f[k - 1] + w[k - 1]
        BY <2>1, <3>3, <4>1
      <4>3. g[k] = f[k] /\ g[k - 1] = f[k - 1]
        BY <3>3, <4>1
      <4>4. h[k] = g[k - 1] + w[k - 1]
        BY <3>3
      <4> QED
        BY <4>2, <4>3, <4>4
    <3> QED
      BY <3>1, <3>2, <3>3
  <2>3. g = h
    <3> HIDE DEF Have
    <3>1. g = [k \in 1 .. (m + 1) + 1 |-> g[k]] /\ h = [k \in 1 .. (m + 1) + 1 |-> h[k]]
      OBVIOUS
    <3>2. \A k \in 1 .. (m + 1) + 1 : g[k] = h[k]
      BY <2>2
    <3> HIDE DEF g, h
    <3> QED
      BY <3>1, <3>2, SameFunction, Zenon
  <2>4. Sum(g, m + 1)
    BY <2>3
  <2> HIDE DEF g, Sum
  <2>5. \E e : Sum(e, m + 1)
    BY <2>4
  <2> QED
    BY <2>5
<1>3. Nat \subseteq Have
  <2> HIDE DEF Have
  <2> QED
    BY <1>1, <1>2, Induction
<1>4. n \in Have
  BY <1>3
<1> QED
  BY <1>4

(* Where the names are, step by step.                                      *)
LEMMA NameAtStep ==
  ASSUME Len(peTables) \in Nat
  PROVE  /\ NameAt[1] = 0
         /\ \A t \in 1 .. Len(peTables) :
              NameAt[t + 1] = NameAt[t] + getNextAligned(strlen(FileName(t)) + 1, 4)
<1> DEFINE n == Len(peTables)
           w == [t \in 1 .. n |-> getNextAligned(strlen(FileName(t)) + 1, 4)]
           Sum(f) == f = [k \in 1 .. n + 1 |-> IF k = 1 THEN 0 ELSE f[k - 1] + w[k - 1]]
           Rec(f) == f = [t \in 1 .. Len(peTables) + 1 |->
                            IF t = 1 THEN 0
                            ELSE f[t - 1] + getNextAligned(strlen(FileName(t - 1)) + 1, 4)]
<1>1. \E f : Sum(f)
  <2> HIDE DEF w
  <2> QED
    BY RunningSum, Zenon
<1>2. \A f : Sum(f) => Rec(f)
  <2> TAKE f
  <2> HAVE Sum(f)
  <2>1. \A t \in 1 .. n + 1 :
          (IF t = 1 THEN 0 ELSE f[t - 1] + w[t - 1])
          = IF t = 1 THEN 0 ELSE f[t - 1] + getNextAligned(strlen(FileName(t - 1)) + 1, 4)
    <3> TAKE t \in 1 .. n + 1
    <3>1. t # 1 => t - 1 \in 1 .. n
      OBVIOUS
    <3> QED
      BY <3>1
  <2> HIDE DEF w
  <2> QED
    BY <2>1
<1>3. NameAt = CHOOSE f : Rec(f)
  BY Zenon DEF NameAt
<1>4. Rec(NameAt)
  <2> HIDE DEF Sum, Rec
  <2> QED
    BY <1>1, <1>2, <1>3, Zenon
<1> DEFINE at == NameAt
<1>5. at = [t \in 1 .. n + 1 |->
              IF t = 1 THEN 0 ELSE at[t - 1] + getNextAligned(strlen(FileName(t - 1)) + 1, 4)]
  BY <1>4, Zenon
<1> HIDE DEF at
<1>6. at[1] = 0
  BY <1>5
<1>7. ASSUME NEW t \in 1 .. n
      PROVE  at[t + 1] = at[t] + getNextAligned(strlen(FileName(t)) + 1, 4)
  <2>1. t + 1 \in 1 .. n + 1 /\ t + 1 # 1 /\ (t + 1) - 1 = t
    OBVIOUS
  <2> QED
    BY <1>5, <2>1
<1> QED
  BY <1>6, <1>7 DEF at

(* The name of a library that is known, and the bytes it takes.            *)
LEMMA KnownName ==
  ASSUME NEW t \in 1 .. Len(peTables), Accepted(peTables[t].name), 32 <= Word
  PROVE  /\ strlen(FileName(t)) \in {7, 8, 12}
         /\ getNextAligned(strlen(FileName(t)) + 1, 4) \in {8, 12, 16}
         /\ strlen(FileName(t)) + 1 <= getNextAligned(strlen(FileName(t)) + 1, 4)
<1>1. PICK l \in KnownLibraries : FileName(t) = <<l>>
  BY DEF Accepted, FileName
<1>2. strlen(<<l>>) = LengthOf(l)
  BY StrlenOne
<1>3. LengthOf(l) \in {7, 8, 12}
  BY Lengths DEF KnownLibraries
<1> DEFINE len == strlen(FileName(t))
<1>4. len \in {7, 8, 12}
  BY <1>1, <1>2, <1>3
<1> HIDE DEF len
<1>5. \A x \in {8, 12, 16} : U32(x) = x
  BY WordAssumption, U32Plain
<1>6. getNextAligned(len + 1, 4) = IF len = 7 THEN 8 ELSE IF len = 8 THEN 12 ELSE 16
  <2>1. CASE len = 7
    BY <2>1 DEF getNextAligned
  <2>2. CASE len = 8
    <3>1. (len + 1) % 4 = 1 /\ (len + 1) + (4 - 1) = 12
      BY <2>2
    <3> QED
      BY <1>5, <2>2, <3>1 DEF getNextAligned
  <2>3. CASE len = 12
    <3>1. (len + 1) % 4 = 1 /\ (len + 1) + (4 - 1) = 16
      BY <2>3
    <3> QED
      BY <1>5, <2>3, <3>1 DEF getNextAligned
  <2> QED
    BY <1>4, <2>1, <2>2, <2>3
<1> QED
  BY <1>4, <1>6 DEF len

LEMMA Kept ==
  ASSUME UNCHANGED peTables
  PROVE  /\ NameAt' = NameAt
         /\ \A t : CopiedName(t)' = CopiedName(t)
         /\ counts' = counts
         /\ \A t : SumFrom(t)' = SumFrom(t)
<1>1. NameAt' = NameAt
  BY Zenon DEF NameAt, FileName
<1>2. counts' = counts
  BY DEF counts
<1>3. ASSUME NEW t PROVE CopiedName(t)' = CopiedName(t)
  BY <1>1, Zenon DEF CopiedName, FileName
<1>4. ASSUME NEW t PROVE SumFrom(t)' = SumFrom(t)
  BY <1>2 DEF SumFrom, SumTo
<1> QED
  BY <1>1, <1>2, <1>3, <1>4

(* The names lie one behind another, and within 32 bits.                   *)
LEMMA NamesInReach ==
  ASSUME Len(peTables) \in 1 .. Short - 1,
         \A t \in 1 .. Len(peTables) : Accepted(peTables[t].name)
  PROVE  /\ NameAt[1] = 0 /\ NameAt[Len(peTables) + 1] > 0
         /\ \A t \in 1 .. Len(peTables) + 1 : NameAt[t] \in 0 .. Word - 1
         /\ \A t \in 1 .. Len(peTables) :
              /\ strlen(FileName(t)) \in Nat
              /\ getNextAligned(strlen(FileName(t)) + 1, 4) \in Nat
              /\ NameAt[t + 1] = NameAt[t] + getNextAligned(strlen(FileName(t)) + 1, 4)
              /\ \A u \in t + 1 .. Len(peTables) + 1 :
                   NameAt[t] + strlen(FileName(t)) + 1 <= NameAt[u]
<1> DEFINE n  == Len(peTables)
           at == NameAt
           w  == [t \in 1 .. n |-> getNextAligned(strlen(FileName(t)) + 1, 4)]
           l  == [t \in 1 .. n |-> strlen(FileName(t))]
<1>1. n \in Nat /\ n >= 1 /\ n < Short /\ Short \in Nat /\ Word \in Nat /\ 16 * Short <= Word
  BY ImportNamesAssumption, WordAssumption, OptHeadersAssumption
<1>2. /\ at[1] = 0
      /\ \A t \in 1 .. n : at[t + 1] = at[t] + w[t]
  <2>1. /\ NameAt[1] = 0
        /\ \A t \in 1 .. n : NameAt[t + 1] = NameAt[t] + getNextAligned(strlen(FileName(t)) + 1, 4)
    BY <1>1, NameAtStep
  <2> QED
    BY <2>1
<1>3. \A t \in 1 .. n : w[t] \in {8, 12, 16} /\ l[t] \in {7, 8, 12} /\ l[t] + 1 <= w[t]
  <2> TAKE t \in 1 .. n
  <2>1. 32 <= Word
    BY <1>1
  <2>2. /\ strlen(FileName(t)) \in {7, 8, 12}
        /\ getNextAligned(strlen(FileName(t)) + 1, 4) \in {8, 12, 16}
        /\ strlen(FileName(t)) + 1 <= getNextAligned(strlen(FileName(t)) + 1, 4)
    BY <2>1, KnownName
  <2> QED
    BY <2>2
<1>4. \A t \in 1 .. n : /\ w[t] = getNextAligned(strlen(FileName(t)) + 1, 4)
                        /\ l[t] = strlen(FileName(t))
  OBVIOUS
<1> HIDE DEF n, at, w, l
<1> DEFINE Up == {k \in Nat : k <= n => at[k + 1] \in Nat /\ at[k + 1] <= 16 * k}
<1>5. Nat \subseteq Up
  <2>1. 0 \in Up
    BY <1>2
  <2>2. ASSUME NEW k \in Nat, k \in Up PROVE k + 1 \in Up
    <3>1. CASE k + 1 <= n
      <4>1. k + 1 \in 1 .. n /\ at[k + 1] \in Nat /\ at[k + 1] <= 16 * k
        BY <1>1, <2>2, <3>1
      <4>2. at[(k + 1) + 1] = at[k + 1] + w[k + 1] /\ w[k + 1] \in {8, 12, 16}
        BY <1>2, <1>3, <4>1
      <4> QED
        BY <4>1, <4>2
    <3> QED
      BY <3>1
  <2> HIDE DEF Up
  <2> QED
    BY <2>1, <2>2, Induction
<1>6. \A t \in 1 .. n + 1 : at[t] \in Nat /\ at[t] <= 16 * (t - 1)
  <2> TAKE t \in 1 .. n + 1
  <2>1. t - 1 \in Nat /\ t - 1 <= n /\ (t - 1) + 1 = t
    BY <1>1
  <2> QED
    BY <1>5, <2>1
<1>7. \A t \in 1 .. n + 1 : at[t] \in 0 .. Word - 1
  BY <1>1, <1>6
<1> DEFINE Past == {d \in Nat : \A t \in 1 .. n : t + 1 + d <= n + 1 => at[t + 1] <= at[t + 1 + d]}
<1>8. Nat \subseteq Past
  <2>1. 0 \in Past
    BY <1>1, <1>6
  <2>2. ASSUME NEW d \in Nat, d \in Past PROVE d + 1 \in Past
    <3>1. ASSUME NEW t \in 1 .. n, t + 1 + (d + 1) <= n + 1
          PROVE  at[t + 1] <= at[t + 1 + (d + 1)]
      <4>1. at[t + 1] <= at[t + 1 + d]
        BY <1>1, <2>2, <3>1
      <4>2. t + 1 + d \in 1 .. n /\ t + 1 + d \in 1 .. n + 1 /\ t + 1 \in 1 .. n + 1
            /\ (t + 1 + d) + 1 = t + 1 + (d + 1)
        BY <1>1, <3>1
      <4>3. at[t + 1 + (d + 1)] = at[t + 1 + d] + w[t + 1 + d] /\ w[t + 1 + d] \in Nat
        BY <1>2, <1>3, <4>2
      <4>4. at[t + 1] \in Nat /\ at[t + 1 + d] \in Nat
        BY <1>6, <4>2
      <4> QED
        BY <4>1, <4>3, <4>4
    <3> QED
      BY <3>1
  <2> HIDE DEF Past
  <2> QED
    BY <2>1, <2>2, Induction
<1>9. ASSUME NEW t \in 1 .. n, NEW u \in t + 1 .. n + 1 PROVE at[t] + l[t] + 1 <= at[u]
  <2>1. u - (t + 1) \in Nat /\ t + 1 + (u - (t + 1)) = u /\ t \in 1 .. n + 1
        /\ u \in 1 .. n + 1 /\ t + 1 \in 1 .. n + 1
    BY <1>1
  <2>2. at[t + 1] <= at[u]
    <3>1. PICK d \in Nat : t + 1 + d = u
      BY <2>1
    <3>2. d \in Past
      BY <1>8
    <3>3. t + 1 + d <= n + 1
      BY <1>1, <3>1
    <3>4. at[t + 1] <= at[t + 1 + d]
      BY <3>2, <3>3
    <3> QED
      BY <3>1, <3>4, Zenon
  <2>3. at[t + 1] = at[t] + w[t] /\ l[t] + 1 <= w[t] /\ w[t] \in Nat /\ l[t] \in Nat
    BY <1>2, <1>3
  <2>4. at[t] \in Nat /\ at[u] \in Nat /\ at[t + 1] \in Nat
    BY <1>6, <2>1
  <2> QED
    BY <2>2, <2>3, <2>4
<1>10. at[n + 1] > 0
  <2>1. n \in 1 .. n /\ n + 1 \in n + 1 .. n + 1 /\ n \in 1 .. n + 1 /\ n + 1 \in 1 .. n + 1
    BY <1>1
  <2>2. at[n] + l[n] + 1 <= at[n + 1] /\ at[n] \in Nat /\ l[n] \in Nat /\ at[n + 1] \in Nat
    BY <1>3, <1>6, <1>9, <2>1, SMTT(30)
  <2> QED
    BY <2>2
<1>11. \A t \in 1 .. n : l[t] \in Nat /\ w[t] \in Nat
  BY <1>3
<1> QED
  BY <1>2, <1>4, <1>7, <1>9, <1>10, <1>11 DEF n, at

(* The sum of the sizes of the tables, step by step.                       *)
LEMMA SumStep ==
  ASSUME NEW pe \in PEImportTables, peTables = pe
  PROVE  /\ counts \in Seq(Nat) /\ Len(counts) = Len(peTables)
         /\ SumTo(1) = 12
         /\ \A t \in 1 .. Len(peTables) + 1 :
              SumTo(t) \in Nat /\ SumTo(t) <= SumTo(Len(peTables) + 1)
         /\ \A t \in 1 .. Len(peTables) :
              /\ counts[t] = Len(peTables[t].imports) /\ counts[t] \in Nat
              /\ SumTo(t + 1) = SumTo(t) + 40 + 4 * counts[t]
<1>1. /\ Len(peTables) \in Nat /\ DOMAIN peTables = 1 .. Len(peTables)
      /\ \A t \in 1 .. Len(peTables) : peTables[t].imports \in Seq(Nat)
  BY PETables
<1>2. counts \in [1 .. Len(peTables) -> Nat]
  BY <1>1 DEF counts
<1>3. counts \in Seq(Nat) /\ Len(counts) = Len(peTables)
  BY <1>1, <1>2
<1>4. /\ SumTo(1) = 12
      /\ \A t \in 1 .. Len(peTables) : SumTo(t + 1) = SumTo(t) + 40 + 4 * counts[t]
  BY <1>3, TableAtStep DEF SumTo
<1>5. \A t \in 1 .. Len(peTables) + 1 : SumTo(t) \in Nat /\ SumTo(t) <= SumTo(Len(peTables) + 1)
  BY <1>3, TableAtAscends DEF SumTo, ImportLibrariesSize
<1>6. \A t \in 1 .. Len(peTables) : counts[t] = Len(peTables[t].imports)
  BY DEF counts
<1> QED
  BY <1>2, <1>3, <1>4, <1>5, <1>6

(* A number that has wrapped wraps no other way for it later.              *)
LEMMA WrapTwice ==
  ASSUME NEW x \in Nat, NEW y \in Nat
  PROVE  U32(U32(x) + y) = U32(x + y)
<1> DEFINE w == Word
           r == x % w
           s == (r + y) % w
<1>1. w \in Nat \ {0}
  BY WordAssumption
<1> HIDE DEF w
<1>2. r \in 0 .. w - 1 /\ \E q \in Nat : x = q * w + r
  <2>1. x \div w \in Nat /\ x = (x \div w) * w + (x % w)
    BY <1>1
  <2>2. r \in 0 .. w - 1
    BY <1>1
  <2> QED
    BY <2>1, <2>2
<1> HIDE DEF r
<1>3. s \in 0 .. w - 1 /\ \E q \in Nat : r + y = q * w + s
  <2> DEFINE z == r + y
  <2>0. z \in Nat
    BY <1>1, <1>2
  <2> HIDE DEF z
  <2>1. z \div w \in Nat /\ z = (z \div w) * w + (z % w)
    BY <1>1, <2>0
  <2>2. z % w \in 0 .. w - 1
    BY <1>1, <2>0
  <2> QED
    BY <2>1, <2>2 DEF z
<1> HIDE DEF s
<1>4. PICK p \in Nat : x = p * w + r
  BY <1>2
<1>5. PICK q \in Nat : r + y = q * w + s
  BY <1>3
<1>6. x + y = (p + q) * w + s
  BY <1>1, <1>2, <1>3, <1>4, <1>5
<1>7. (x + y) % w = s
  <2> DEFINE z == x + y
             k == p + q
  <2>1. z \in Nat /\ k \in Nat /\ z = k * w + s
    BY <1>6
  <2> HIDE DEF z, k
  <2>2. z % w = s
    BY <1>1, <1>3, <2>1
  <2> QED
    BY <2>2 DEF z
<1> QED
  BY <1>7 DEF U32, w, r, s

(* What 16 bits keep of a number.                                          *)
LEMMA ShortOf ==
  ASSUME NEW x \in Nat
  PROVE  x % Short \in 0 .. Short - 1 /\ x % Short <= x
<1> DEFINE w == Short
<1>1. w \in Nat \ {0}
  BY ImportNamesAssumption
<1> HIDE DEF w
<1>2. x % w \in 0 .. w - 1
  BY <1>1
<1>3. x % w <= x
  <2>1. CASE x < w
    <3>1. x % w = x
      BY <1>1, <2>1
    <3> QED
      BY <3>1
  <2>2. CASE ~(x < w)
    BY <1>1, <1>2, <2>2
  <2> QED
    BY <2>1, <2>2
<1> QED
  BY <1>2, <1>3 DEF w

LEMMA LibsInit == Init => LibsInv
<1> SUFFICES ASSUME Init PROVE LibsInv
  OBVIOUS
<1> USE DEF Init, InLibraries, WithTables, FillingTables, PlacingNames, Succeeded
<1>1. NamesRead
  BY DEF NamesRead, ReadBy, TablesDone
<1>2. NamesLaidOut
  BY DEF NamesLaidOut, NamesCopied, TablesDone
<1>3. Sized
  BY DEF Sized, NamesCopied, TablesDone
<1>4. Typed
  BY WordAssumption, OptHeadersAssumption DEF Typed
<1> QED
  BY <1>1, <1>2, <1>3, <1>4 DEF LibsInv

(* What a step does to a table, if anything.                               *)
LEMMA ReadKept ==
  ASSUME NamesRead, UNCHANGED peTables,
         \A t \in 1 .. Len(peTables) : ReadBy(t)' => ReadBy(t),
         \A t \in 1 .. Len(peTables) : ReadBy(t)' =>
           /\ importTables'[t].targetVer = importTables[t].targetVer
           /\ importTables'[t].minimumVer = importTables[t].minimumVer
  PROVE  NamesRead'
<1> SUFFICES ASSUME NEW t \in 1 .. Len(peTables), ReadBy(t)' PROVE Read(t)'
  BY DEF NamesRead
<1> QED
  BY DEF NamesRead, Read

LEMMA NamesReadNext == OptInv /\ LibsInv /\ [Next]_vars => NamesRead'
<1> SUFFICES ASSUME OptInv, LibsInv, [Next]_vars PROVE NamesRead'
  OBVIOUS
<1> USE DEF InLibraries, WithTables, FillingTables, PlacingNames, At, InLibs, Goto, Return,
            Cleanup, inputs, importsPresent, Succeeded
<1>1. Control /\ Allocated /\ NamesRead
  BY DEF OptInv, LibsInv
<1>2. Len(peTables) \in Nat /\ DOMAIN peTables = 1 .. Len(peTables)
  BY <1>1, PETables DEF Control
<1>3. CASE \/ BeginEntries \/ SetImportEntry \/ AllocTables \/ AllocNames
  <2>1. /\ UNCHANGED peTables
        /\ step' \in {"importEntry", "lastEntries", "allocTables", "allocNames", "table",
                      "returned"}
        /\ step' = "table" => i' = Len(peTables)
        /\ step' = "lastEntries" => ~importsPresent
        /\ ret' # "success"
    BY <1>1, <1>3 DEF BeginEntries, SetImportEntry, AllocTables, AllocNames, Control
  <2>2. \A t \in 1 .. Len(peTables) : ~ReadBy(t)'
    <3>1. ~TablesDone'
      BY <2>1 DEF TablesDone
    <3>2. \A t \in 1 .. Len(peTables) : t <= Len(peTables)
      BY <1>2
    <3> QED
      BY <1>2, <2>1, <3>1, <3>2 DEF ReadBy
  <2> QED
    BY <2>1, <2>2 DEF NamesRead
<1>4. CASE \/ HashTable \/ AllocOffsets \/ PlaceName \/ AllocNameTable \/ CopyName
           \/ FinishLibraries \/ SetLastEntries \/ SetXEXHeader \/ UNCHANGED vars
  <2>1. UNCHANGED <<peTables, importTables>>
    BY <1>4 DEF HashTable, AllocOffsets, PlaceName, AllocNameTable, CopyName, FinishLibraries,
       SetLastEntries, SetXEXHeader, vars, libraries
  <2>2. \A t \in 1 .. Len(peTables) : ReadBy(t)' => ReadBy(t)
    BY <1>1, <1>2, <1>4, <2>1 DEF HashTable, AllocOffsets, PlaceName, AllocNameTable, CopyName,
       FinishLibraries, SetLastEntries, SetXEXHeader, vars, libraries, ReadBy, TablesDone, Control
  <2> QED
    BY <1>1, <2>1, <2>2, ReadKept
<1>5. CASE BeginTable
  <2>1. /\ i \in 1 .. Len(peTables) /\ i' = i
        /\ step = "table" /\ step' \in {"addresses", "returned"}
        /\ UNCHANGED <<peTables>>
        /\ ret' # "success"
        /\ step' = "addresses" => Accepted(peTables[i].name)
    BY <1>1, <1>2, <1>5 DEF BeginTable, Control
  <2>2. /\ DOMAIN importTables = 1 .. Len(peTables)
        /\ \A t \in 1 .. Len(peTables) : DOMAIN importTables[t] = DOMAIN BlankTable
    BY <1>1, <1>2, <1>5, <2>1 DEF Allocated, TablesMade
  <2>3. \A t \in 1 .. Len(peTables) : t # i => importTables'[t] = importTables[t]
    BY <1>5, <2>1, <2>2 DEF BeginTable
  <2>4. Accepted(peTables[i].name) =>
          /\ importTables'[i].targetVer = TargetVersion(peTables[i].name)
          /\ importTables'[i].minimumVer = MinimumVersion(peTables[i].name)
    BY <1>5, <2>1, <2>2 DEF BeginTable, BlankTable
  <2> SUFFICES ASSUME NEW t \in 1 .. Len(peTables), ReadBy(t)' PROVE Read(t)'
    BY <2>1 DEF NamesRead
  <2>5. step' = "addresses" /\ t >= i
    BY <1>1, <1>2, <2>1 DEF ReadBy, TablesDone, Control
  <2>6. CASE t = i
    BY <2>1, <2>4, <2>5, <2>6 DEF Read
  <2>7. CASE t > i
    <3>1. Read(t)
      BY <1>1, <2>1, <2>7 DEF NamesRead, ReadBy
    <3> QED
      BY <2>1, <2>3, <2>7, <3>1 DEF Read
  <2> QED
    BY <1>2, <2>1, <2>5, <2>6, <2>7
<1>6. CASE SetAddresses
  <2>1. /\ i \in 1 .. Len(peTables) /\ i' = i
        /\ step = "addresses" /\ step' \in {"hash", "returned"}
        /\ UNCHANGED <<peTables>>
        /\ ret' # "success"
    BY <1>1, <1>2, <1>6 DEF SetAddresses, FillTable, Control
  <2>2. /\ DOMAIN importTables = 1 .. Len(peTables)
        /\ \A t \in 1 .. Len(peTables) : DOMAIN importTables[t] = DOMAIN BlankTable
    BY <1>1, <1>2, <1>6, <2>1 DEF Allocated, TablesMade
  <2>3. \A t \in 1 .. Len(peTables) : /\ importTables'[t].targetVer = importTables[t].targetVer
                                      /\ importTables'[t].minimumVer = importTables[t].minimumVer
    BY <1>6, <2>1, <2>2 DEF SetAddresses, FillTable, BlankTable
  <2>4. \A t \in 1 .. Len(peTables) : ReadBy(t)' => ReadBy(t)
    BY <1>1, <1>2, <2>1 DEF ReadBy, TablesDone, Control
  <2> QED
    BY <1>1, <2>1, <2>3, <2>4, ReadKept
<1>7. CASE DigestTable
  <2>1. /\ i \in 1 .. Len(peTables) /\ i' = i - 1 /\ step = "digest" /\ step' = "table"
        /\ UNCHANGED <<peTables, ret>>
    BY <1>1, <1>2, <1>7 DEF DigestTable, StoreDigest, Control
  <2>2. /\ DOMAIN importTables = 1 .. Len(peTables)
        /\ \A t \in 1 .. Len(peTables) : DOMAIN importTables[t] = DOMAIN BlankTable
    BY <1>1, <1>2, <1>7, <2>1 DEF Allocated, TablesMade
  <2>3. \A t \in 1 .. Len(peTables) : /\ importTables'[t].targetVer = importTables[t].targetVer
                                      /\ importTables'[t].minimumVer = importTables[t].minimumVer
    BY <1>7, <2>1, <2>2 DEF DigestTable, StoreDigest, BlankTable
  <2>4. \A t \in 1 .. Len(peTables) : ReadBy(t)' => ReadBy(t)
    BY <1>1, <1>2, <2>1 DEF ReadBy, TablesDone, Control
  <2> QED
    BY <1>1, <2>1, <2>3, <2>4, ReadKept
<1> QED
  BY <1>3, <1>4, <1>5, <1>6, <1>7 DEF Next

LEMMA SizedNext == OptInv /\ LibsInv /\ [Next]_vars => Sized'
<1> SUFFICES ASSUME OptInv, LibsInv, [Next]_vars PROVE Sized'
  OBVIOUS
<1> USE DEF InLibraries, WithTables, FillingTables, PlacingNames, At, InLibs, Goto, Return,
            Cleanup, inputs, Succeeded
<1>1. Control /\ Allocated /\ Sized /\ NamesLaidOut
  BY DEF OptInv, LibsInv
<1>2. Len(peTables) \in Nat
  BY <1>1, PETables DEF Control
<1>3. UNCHANGED peTables => importsPresent' = importsPresent /\ \A t : SumFrom(t)' = SumFrom(t)
  BY Kept DEF importsPresent
<1>4. \A t \in 1 .. Len(peTables) + 1 : SumFrom(t) \in Nat /\ SumFrom(t) >= 12
  <2>1. peTables \in PEImportTables
    BY <1>1 DEF Control
  <2>2. \A t \in 1 .. Len(peTables) + 1 : SumTo(t) \in Nat /\ SumTo(t) <= SumTo(Len(peTables) + 1)
    BY <2>1, SumStep
  <2>3. Len(peTables) + 1 \in 1 .. Len(peTables) + 1
    BY <1>2
  <2> QED
    BY <2>2, <2>3 DEF SumFrom
<1>5. CASE BeginEntries \/ SetImportEntry \/ SetLastEntries \/ SetXEXHeader \/ UNCHANGED vars
  <2>1. UNCHANGED <<peTables, i, size, nameTableSize>>
    BY <1>5 DEF BeginEntries, SetImportEntry, SetLastEntries, SetXEXHeader, vars, libraries, header
  <2>2. /\ NamesCopied' => NamesCopied
        /\ step' \notin FillingTables \cup PlacingNames \/ UNCHANGED step
        /\ step' \in {"entries", "importEntry", "allocTables", "allocNames"} =>
             step \in {"entries", "importEntry", "allocTables", "allocNames"}
    BY <1>1, <1>3, <1>5, <2>1 DEF BeginEntries, SetImportEntry, SetLastEntries, SetXEXHeader, vars,
       NamesCopied, TablesDone, Control
  <2> QED
    BY <1>1, <1>3, <2>1, <2>2 DEF Sized
<1>6. CASE AllocTables
  <2>1. /\ UNCHANGED <<peTables, size>>
        /\ step' \in {"allocNames", "returned"} /\ step = "allocTables"
        /\ ret' # "success"
    BY <1>1, <1>6 DEF AllocTables, Control, header
  <2> QED
    BY <1>1, <1>3, <2>1 DEF Sized, NamesCopied, TablesDone
<1>7. CASE AllocNames
  <2>1. /\ UNCHANGED <<peTables, i>> /\ step' \in {"table", "returned"} /\ step = "allocNames"
        /\ ret' # "success"
        /\ i = Len(peTables) /\ importsPresent
        /\ size' = 12 + nameTableSize /\ nameTableSize = 0
    BY <1>1, <1>7 DEF AllocNames, Control, NamesLaidOut, SizeofImportLibraries
  <2>2. SumFrom(i + 1) = 12 /\ 12 < Word
    <3>1. SumTo(Len(peTables) + 1) \in Nat
      BY <1>1, <1>2, SumStep DEF Control
    <3>2. 16 <= Word
      <4>1. Len(peTables) \in 1 .. Short - 1
        BY <1>1, <2>1 DEF Allocated, TablesMade
      <4> QED
        BY <1>2, <4>1, ImportNamesAssumption, WordAssumption, OptHeadersAssumption
    <3> QED
      BY <2>1, <3>1, <3>2, WordAssumption DEF SumFrom
  <2>3. size' = U32(SumFrom(i + 1))
    BY <2>1, <2>2, U32Plain
  <2> QED
    BY <1>3, <2>1, <2>3 DEF Sized, NamesCopied, TablesDone
<1>8. CASE BeginTable \/ HashTable
  <2>1. /\ UNCHANGED <<peTables, i, size>> /\ step' \in {"addresses", "digest", "returned"}
        /\ ret' # "success"
        /\ step' = "addresses" => step = "table"
        /\ step' = "digest" => step = "hash"
        /\ importsPresent
    BY <1>1, <1>8 DEF BeginTable, HashTable, Control, header
  <2> QED
    BY <1>1, <1>3, <2>1 DEF Sized, NamesCopied, TablesDone
<1>9. CASE SetAddresses
  <2>1. /\ UNCHANGED <<peTables, i>> /\ step' \in {"hash", "returned"} /\ step = "addresses"
        /\ ret' # "success"
        /\ step' = "hash" => AllFit /\ FillTable
        /\ importsPresent /\ i \in 1 .. Len(peTables) /\ size = U32(SumFrom(i + 1))
    BY <1>1, <1>9 DEF SetAddresses, FillTable, Control, Sized
  <2>2. step' = "hash" => size' = U32(SumFrom(i))
    <3> SUFFICES ASSUME step' = "hash" PROVE size' = U32(SumFrom(i))
      OBVIOUS
    <3>1. /\ importsCounted = counts[i] /\ counts[i] \in Nat
          /\ SumTo(i + 1) = SumTo(i) + 40 + 4 * counts[i]
      <4>1. importsCounted = Len(peTables[i].imports)
        BY <2>1 DEF AllFit
      <4> QED
        BY <1>1, <2>1, <4>1, SumStep DEF Control
    <3>2. size' = U32(size + (40 + 4 * counts[i]))
      BY <2>1, <3>1 DEF FillTable, SizeofImportTable
    <3>3. SumTo(i) \in Nat /\ SumTo(i + 1) \in Nat /\ SumTo(Len(peTables) + 1) \in Nat
      BY <1>1, <1>2, <2>1, SumStep DEF Control
    <3>4. SumFrom(i) = SumFrom(i + 1) + (40 + 4 * counts[i])
      <4> DEFINE a == SumTo(i)
                 b == SumTo(i + 1)
                 c == SumTo(Len(peTables) + 1)
                 d == counts[i]
      <4>1. a \in Nat /\ b \in Nat /\ c \in Nat /\ d \in Nat /\ b = a + 40 + 4 * d
        BY <3>1, <3>3
      <4>2. SumFrom(i) = 12 + (c - a) /\ SumFrom(i + 1) = 12 + (c - b)
        BY DEF SumFrom
      <4> HIDE DEF a, b, c, d
      <4>3. 12 + (c - a) = (12 + (c - b)) + (40 + 4 * d)
        BY <4>1
      <4> QED
        BY <4>2, <4>3 DEF d
    <3>5. SumFrom(i + 1) \in Nat
      BY <1>2, <1>4, <2>1
    <3>6. 40 + 4 * counts[i] \in Nat
      BY <3>1
    <3>7. U32(U32(SumFrom(i + 1)) + (40 + 4 * counts[i]))
            = U32(SumFrom(i + 1) + (40 + 4 * counts[i]))
      BY <3>5, <3>6, WrapTwice
    <3> QED
      BY <2>1, <3>2, <3>4, <3>7, Zenon
  <2> QED
    BY <1>3, <2>1, <2>2 DEF Sized, NamesCopied, TablesDone
<1>10. CASE DigestTable
  <2>1. /\ UNCHANGED <<peTables, size>> /\ step' = "table" /\ step = "digest"
        /\ ret' # "success"
        /\ importsPresent /\ i \in 1 .. Len(peTables) /\ i' = i - 1 /\ i' + 1 = i
    BY <1>1, <1>10 DEF DigestTable, StoreDigest, Control, header
  <2> QED
    BY <1>1, <1>3, <2>1 DEF Sized, NamesCopied, TablesDone
<1>11. CASE AllocOffsets
  <2>1. /\ UNCHANGED <<peTables, size>> /\ step' \in {"placeNames", "returned"} /\ step = "table"
        /\ ret' # "success"
        /\ importsPresent /\ i = 0 /\ i + 1 = 1
    BY <1>1, <1>11 DEF AllocOffsets, Control, header
  <2> QED
    BY <1>1, <1>3, <2>1 DEF Sized, NamesCopied, TablesDone
<1>12. CASE PlaceName
  <2>1. /\ UNCHANGED <<peTables, size>> /\ step' = "placeNames" /\ step = "placeNames"
        /\ importsPresent
    BY <1>1, <1>12 DEF PlaceName, Control
  <2> QED
    BY <1>1, <1>3, <2>1 DEF Sized, NamesCopied, TablesDone
<1>13. CASE AllocNameTable
  <2>1. /\ UNCHANGED <<peTables, nameTableSize>> /\ step' \in {"copyNames", "returned"}
        /\ step = "placeNames"
        /\ ret' # "success"
        /\ importsPresent /\ size' = U32(size + nameTableSize) /\ size = U32(SumFrom(1))
    BY <1>1, <1>13 DEF AllocNameTable, Control, Sized
  <2>2. SumFrom(1) \in Nat /\ nameTableSize \in Nat
    <3>1. nameTableSize \in 0 .. Word - 1
      BY DEF LibsInv, Typed
    <3> QED
      BY <1>2, <1>4, <3>1
  <2>3. size' = U32(SumFrom(1) + nameTableSize)
    BY <2>1, <2>2, WrapTwice
  <2> QED
    BY <1>3, <2>1, <2>3 DEF Sized, NamesCopied, TablesDone
<1>14. CASE CopyName \/ FinishLibraries
  <2>1. /\ UNCHANGED <<peTables, size, nameTableSize>> /\ step' \in {"copyNames", "lastEntries"}
        /\ step = "copyNames" /\ importsPresent
    BY <1>1, <1>14 DEF CopyName, FinishLibraries, Control, libraries, header
  <2> QED
    BY <1>1, <1>3, <2>1 DEF Sized, NamesCopied, TablesDone
<1> QED
  BY <1>5, <1>6, <1>7, <1>8, <1>9, <1>10, <1>11, <1>12, <1>13, <1>14 DEF Next

LEMMA NamesLaidOutNext == OptInv /\ LibsInv /\ [Next]_vars => NamesLaidOut'
<1> SUFFICES ASSUME OptInv, LibsInv, [Next]_vars PROVE NamesLaidOut'
  OBVIOUS
<1> USE DEF InLibraries, WithTables, FillingTables, PlacingNames, At, InLibs, Goto, Return,
            Cleanup, inputs, Succeeded
<1> DEFINE n == Len(peTables)
           names == <<nameTableSize, nameOffsets, nameTable>>
           before == {"entries", "importEntry", "allocTables", "allocNames"} \cup FillingTables
<1>1. Control /\ Allocated /\ NamesRead /\ NamesLaidOut
  BY DEF OptInv, LibsInv
<1>2. n \in Nat
  BY <1>1, PETables DEF Control
<1>3. UNCHANGED peTables =>
        /\ importsPresent' = importsPresent /\ NameAt' = NameAt
        /\ \A t : CopiedName(t)' = CopiedName(t)
  BY Kept DEF importsPresent
<1>4. TablesDone \/ (step = "table" /\ i = 0) =>
        /\ Len(peTables) \in 1 .. Short - 1
        /\ \A t \in 1 .. Len(peTables) : Accepted(peTables[t].name)
  <2> SUFFICES ASSUME TablesDone \/ (step = "table" /\ i = 0)
               PROVE  /\ Len(peTables) \in 1 .. Short - 1
                      /\ \A t \in 1 .. Len(peTables) : Accepted(peTables[t].name)
    OBVIOUS
  <2>1. Len(peTables) \in 1 .. Short - 1
    BY <1>1 DEF Allocated, TablesMade, TablesDone
  <2>2. \A t \in 1 .. Len(peTables) : ReadBy(t)
    BY <1>2 DEF ReadBy
  <2> QED
    BY <1>1, <2>1, <2>2 DEF NamesRead, Read
<1>5. CASE \/ BeginEntries \/ SetImportEntry \/ AllocTables \/ AllocNames \/ BeginTable
           \/ SetAddresses \/ HashTable \/ DigestTable
  <2>1. /\ UNCHANGED <<peTables, names>> /\ step \in before
        /\ step' \in before \cup {"lastEntries", "returned"}
        /\ step' = "lastEntries" => ~importsPresent
        /\ ret' # "success"
    BY <1>1, <1>5 DEF BeginEntries, SetImportEntry, AllocTables, AllocNames, BeginTable,
       SetAddresses, FillTable, HashTable, DigestTable, StoreDigest, Control, libraries, header
  <2>2. ~NamesCopied'
    BY <1>3, <2>1 DEF NamesCopied, TablesDone
  <2> QED
    BY <1>1, <2>1, <2>2 DEF NamesLaidOut
<1>6. CASE AllocOffsets
  <2>1. /\ UNCHANGED <<peTables, names>> /\ step = "table" /\ i = 0
        /\ step' \in {"placeNames", "returned"} /\ ret' # "success"
        /\ step' = "placeNames" => i' = 1
        /\ nameTableSize = 0 /\ nameOffsets = <<>> /\ nameTable = {}
    BY <1>1, <1>6 DEF AllocOffsets, Control, header, NamesLaidOut
  <2>2. NameAt[1] = 0
    BY <1>4, <2>1, NamesInReach
  <2>3. ~NamesCopied'
    BY <2>1 DEF NamesCopied, TablesDone
  <2>4. <<>> = [t \in 1 .. 1 - 1 |-> NameAt[t]]
    OBVIOUS
  <2> QED
    BY <1>3, <2>1, <2>2, <2>3, <2>4 DEF NamesLaidOut
<1>7. CASE PlaceName
  <2>1. /\ UNCHANGED <<peTables, nameTable, step>> /\ step = "placeNames" /\ i \in 1 .. n
        /\ ret' # "success" /\ i' = i + 1
        /\ nameOffsets' = Append(nameOffsets, nameTableSize)
        /\ nameTableSize' = U32(nameTableSize + getNextAligned(strlen(FileName(i)) + 1, 4))
        /\ nameTableSize = NameAt[i] /\ nameOffsets = [t \in 1 .. i - 1 |-> NameAt[t]]
        /\ nameTable = {}
    BY <1>1, <1>2, <1>7 DEF PlaceName, bytesOfName, Control, NamesLaidOut
  <2>2. /\ NameAt[i + 1] = NameAt[i] + getNextAligned(strlen(FileName(i)) + 1, 4)
        /\ NameAt[i + 1] \in 0 .. Word - 1
        /\ \A t \in 1 .. i : NameAt[t] \in Nat
    <3>1. TablesDone
      BY <2>1 DEF TablesDone
    <3>2. i + 1 \in 1 .. n + 1 /\ \A t \in 1 .. i : t \in 1 .. n + 1
      BY <1>2, <2>1
    <3>3. \A t \in 1 .. n + 1 : NameAt[t] \in 0 .. Word - 1
      BY <1>4, <3>1, NamesInReach
    <3>4. NameAt[i + 1] = NameAt[i] + getNextAligned(strlen(FileName(i)) + 1, 4)
      BY <1>4, <2>1, <3>1, NamesInReach
    <3> QED
      BY <3>2, <3>3, <3>4
  <2>3. nameTableSize' = NameAt[i + 1]
    <3>1. NameAt[i + 1] \in Nat /\ NameAt[i + 1] < Word
      BY <2>2, WordAssumption
    <3>2. U32(NameAt[i + 1]) = NameAt[i + 1]
      BY <3>1, U32Plain
    <3>3. nameTableSize' = U32(NameAt[i + 1])
      BY <2>1, <2>2, Zenon
    <3> QED
      BY <3>2, <3>3
  <2>4. nameOffsets' = [t \in 1 .. (i + 1) - 1 |-> NameAt[t]]
    <3> DEFINE at == NameAt
               s == [t \in 1 .. i - 1 |-> at[t]]
    <3>1. s \in Seq(Nat) /\ Len(s) = i - 1 /\ at[i] \in Nat
      <4>1. \A t \in 1 .. i : at[t] \in Nat
        BY <2>2
      <4> HIDE DEF at
      <4>2. i - 1 \in Nat /\ \A t \in 1 .. i - 1 : t \in 1 .. i
        BY <1>2, <2>1
      <4>3. s \in [1 .. i - 1 -> Nat]
        BY <4>1, <4>2
      <4> HIDE DEF s
      <4>4. s \in Seq(Nat) /\ Len(s) = i - 1
        BY <4>2, <4>3
      <4>5. i \in 1 .. i
        BY <2>1
      <4> QED
        BY <4>1, <4>4, <4>5
    <3> HIDE DEF at
    <3>2. Append(s, at[i]) = [t \in 1 .. (i + 1) - 1 |-> at[t]]
      BY <1>2, <2>1, <3>1
    <3> QED
      BY <2>1, <3>2 DEF at
  <2>5. ~NamesCopied'
    BY <2>1 DEF NamesCopied, TablesDone
  <2> QED
    BY <1>3, <2>1, <2>3, <2>4, <2>5 DEF NamesLaidOut
<1>8. CASE AllocNameTable
  <2>1. /\ UNCHANGED <<peTables, names>> /\ step = "placeNames" /\ i = n + 1
        /\ step' \in {"copyNames", "returned"} /\ ret' # "success"
        /\ step' = "copyNames" => i' = 1
        /\ nameTableSize = NameAt[n + 1] /\ nameTable = {}
        /\ nameOffsets = [t \in 1 .. (n + 1) - 1 |-> NameAt[t]]
    BY <1>1, <1>2, <1>8 DEF AllocNameTable, Control, NamesLaidOut
  <2>2. ~NamesCopied'
    BY <2>1 DEF NamesCopied, TablesDone
  <2>3. (n + 1) - 1 = n /\ {CopiedName(t) : t \in 1 .. 1 - 1} = {}
    BY <1>2
  <2> QED
    BY <1>3, <2>1, <2>2, <2>3 DEF NamesLaidOut
<1>9. CASE CopyName
  <2>1. /\ UNCHANGED <<peTables, nameTableSize, nameOffsets, step>> /\ step = "copyNames"
        /\ i \in 1 .. n /\ ret' # "success" /\ i' = i + 1
        /\ nameTableSize = NameAt[n + 1] /\ nameTable = {CopiedName(t) : t \in 1 .. i - 1}
        /\ nameOffsets = [t \in 1 .. n |-> NameAt[t]]
    BY <1>1, <1>2, <1>9 DEF CopyName, Control, NamesLaidOut
  <2>2. nameTable' = {old \in nameTable : \/ old.at + old.len <= CopiedName(i).at
                                          \/ CopiedName(i).at + CopiedName(i).len <= old.at}
                     \cup {CopiedName(i)}
    <3>1. nameOffsets[i] = NameAt[i]
      BY <2>1
    <3> QED
      BY <1>9, <3>1 DEF CopyName, CopiedName
  <2>3. ASSUME NEW old \in nameTable PROVE old.at + old.len <= CopiedName(i).at
    <3>1. PICK t \in 1 .. i - 1 : old = CopiedName(t)
      BY <2>1
    <3>2. t \in 1 .. n /\ i \in t + 1 .. n + 1
      BY <1>2, <2>1, <3>1
    <3>3. /\ NameAt[t] + strlen(FileName(t)) + 1 <= NameAt[i]
          /\ strlen(FileName(t)) \in Nat /\ NameAt[t] \in Nat
      <4>1. TablesDone
        BY <2>1 DEF TablesDone
      <4>2. /\ NameAt[t] + strlen(FileName(t)) + 1 <= NameAt[i]
            /\ strlen(FileName(t)) \in Nat
        BY <1>4, <3>2, <4>1, NamesInReach
      <4>3. t \in 1 .. n + 1
        BY <1>2, <3>2
      <4>4. NameAt[t] \in 0 .. Word - 1
        BY <1>4, <4>1, <4>3, NamesInReach
      <4> QED
        BY <4>2, <4>4
    <3>4. /\ CopiedName(t).at = NameAt[t] /\ CopiedName(t).len = strlen(FileName(t)) + 1
          /\ CopiedName(i).at = NameAt[i]
      BY DEF CopiedName
    <3> QED
      BY <3>1, <3>3, <3>4
  <2>4. nameTable' = nameTable \cup {CopiedName(i)}
    BY <2>2, <2>3
  <2>5. nameTable' = {CopiedName(t) : t \in 1 .. (i + 1) - 1}
    <3>1. 1 .. (i + 1) - 1 = (1 .. i - 1) \cup {i}
      BY <1>2, <2>1
    <3> QED
      BY <2>1, <2>4, <3>1
  <2>6. ~NamesCopied'
    BY <2>1 DEF NamesCopied, TablesDone
  <2> QED
    BY <1>3, <2>1, <2>5, <2>6 DEF NamesLaidOut
<1>10. CASE FinishLibraries
  <2>1. /\ UNCHANGED <<peTables, names>> /\ step = "copyNames" /\ i = n + 1
        /\ step' = "lastEntries"
        /\ nameTableSize = NameAt[n + 1] /\ nameTable = {CopiedName(t) : t \in 1 .. (n + 1) - 1}
    BY <1>1, <1>2, <1>10 DEF FinishLibraries, Control, NamesLaidOut, libraries, header
  <2>2. (n + 1) - 1 = n
    BY <1>2
  <2> QED
    BY <1>3, <2>1, <2>2 DEF NamesLaidOut
<1>11. CASE SetLastEntries \/ SetXEXHeader \/ UNCHANGED vars
  <2>1. /\ UNCHANGED <<peTables, i, names>>
        /\ step' \in {"xexHeader", "returned"} \/ UNCHANGED step
        /\ NamesCopied' => NamesCopied
    BY <1>1, <1>3, <1>11 DEF SetLastEntries, SetXEXHeader, vars, libraries, header, NamesCopied,
       TablesDone, Control
  <2> QED
    BY <1>1, <1>3, <2>1 DEF NamesLaidOut
<1> QED
  BY <1>5, <1>6, <1>7, <1>8, <1>9, <1>10, <1>11 DEF Next

LEMMA TypedNext == OptInv /\ LibsInv /\ [Next]_vars => Typed'
<1> SUFFICES ASSUME OptInv, LibsInv, [Next]_vars PROVE Typed'
  OBVIOUS
<1> USE DEF At, InLibs, Goto, Return, Cleanup, inputs
<1>1. Control /\ Allocated /\ NamesLaidOut /\ NamesRead /\ Typed
  BY DEF OptInv, LibsInv
<1>2. /\ Len(peTables) \in Nat /\ DOMAIN peTables = 1 .. Len(peTables)
      /\ Byte \in Nat \ {0} /\ Short \in Nat \ {0} /\ Word \in Nat \ {0}
  BY <1>1, PETables, ImportNamesAssumption, WordAssumption DEF Control
<1>3. moduleFlags' \subseteq {"TITLE", "EXPORTS", "DLL"}
  <2>1. CASE SetXEXHeader
    <3>1. moduleFlags' = IF moduleFlags # {} THEN moduleFlags
                         ELSE {IF exe.dll THEN "DLL" ELSE "TITLE"}
                              \cup {f \in {"EXPORTS"} : exe.exportCount > 0}
      BY <2>1 DEF SetXEXHeader
    <3> QED
      BY <1>1, <3>1 DEF Typed
  <2>2. CASE ~SetXEXHeader
    <3>1. UNCHANGED moduleFlags
      BY <2>2 DEF Next, BeginEntries, SetImportEntry, AllocTables, AllocNames, BeginTable,
         SetAddresses, HashTable, DigestTable, StoreDigest, AllocOffsets, PlaceName,
         AllocNameTable, CopyName, FinishLibraries, SetLastEntries, vars, xexHeader
    <3> QED
      BY <1>1, <3>1 DEF Typed
  <2> QED
    BY <2>1, <2>2
<1>4. \A t \in DOMAIN importTables' : TableTyped(importTables[t])'
  <2>1. CASE AllocTables
    <3>1. CASE UNCHANGED importTables
      BY <1>1, <3>1 DEF Typed, TableTyped
    <3>2. CASE importTables' = [t \in DOMAIN peTables |-> BlankTable]
      <4>1. TableTyped(BlankTable)
        BY <1>2 DEF TableTyped, BlankTable
      <4> QED
        BY <3>2, <4>1 DEF TableTyped
    <3> QED
      BY <2>1, <3>1, <3>2 DEF AllocTables
  <2>2. CASE BeginTable \/ SetAddresses \/ DigestTable
    <3>1. \E t \in DOMAIN importTables : \E r :
            /\ importTables' = [importTables EXCEPT ![t] = r] \/ importTables' = importTables
            /\ TableTyped(r)
      <4>1. /\ i \in 1 .. Len(peTables) /\ DOMAIN importTables = 1 .. Len(peTables)
            /\ \A t \in 1 .. Len(peTables) : TableTyped(importTables[t])
        BY <1>1, <1>2, <2>2, SMTT(30)
        DEF BeginTable, SetAddresses, DigestTable, StoreDigest, Control,
           Allocated, TablesMade, WithTables, FillingTables, PlacingNames, InLibraries, Typed
      <4>2. peTables[i].imports \in Seq(Nat)
        BY <1>1, <4>1, PETables DEF Control
      <4>3. importsCounted \in 0 .. Short - 1 /\ importsCounted <= Len(peTables[i].imports)
        <5>1. Len(peTables[i].imports) \in Nat
          BY <4>2
        <5> QED
          BY <5>1, ShortOf DEF importsCounted
      <4>4. CASE BeginTable
        <5> DEFINE name == peTables[i].name
                   r == [importTables[i] EXCEPT
                           !.tableIndex = (i - 1) % Byte,
                           !.targetVer  = IF Accepted(name) THEN TargetVersion(name) ELSE @,
                           !.minimumVer = IF Accepted(name) THEN MinimumVersion(name) ELSE @,
                           !.unknown    = IF Accepted(name) THEN FileName(i) ELSE @]
        <5>1. importTables' = [importTables EXCEPT ![i] = r]
          BY <4>1, <4>4 DEF BeginTable
        <5>2. (i - 1) % Byte \in 0 .. Byte - 1
          BY <1>2, <4>1
        <5>3. TableTyped(r)
          BY <4>1, <5>2 DEF TableTyped, BlankTable
        <5> QED
          BY <4>1, <5>1, <5>3
      <4>5. CASE AllFit /\ FillTable
        <5> DEFINE r == [importTables[i] EXCEPT
              !.addressCount = importsCounted,
              !.addresses = SubSeq(peTables[i].imports, 1, importsCounted),
              !.size = SizeofImportTable + 4 * importsCounted]
        <5>1. importTables' = [importTables EXCEPT ![i] = r]
          BY <4>1, <4>5 DEF FillTable
        <5>2. SubSeq(peTables[i].imports, 1, importsCounted) \in Seq(Nat)
          BY <4>2, <4>3
        <5>3. TableTyped(r)
          BY <4>1, <4>3, <5>2 DEF TableTyped, BlankTable
        <5> QED
          BY <4>1, <5>1, <5>3
      <4>6. CASE importTables' = [importTables EXCEPT ![i].addressCount = importsCounted]
        <5> DEFINE r == [importTables[i] EXCEPT !.addressCount = importsCounted]
        <5>1. importTables' = [importTables EXCEPT ![i] = r]
          BY <4>1, <4>6
        <5>2. TableTyped(r)
          BY <4>1, <4>3 DEF TableTyped, BlankTable
        <5> QED
          BY <4>1, <5>1, <5>2
      <4>7. CASE DigestTable /\ i > 1
        <5> DEFINE r == [importTables[i - 1] EXCEPT !.sha1 = <<context>>]
        <5>1. i - 1 \in 1 .. Len(peTables)
          BY <1>2, <4>1, <4>7
        <5>2. importTables' = [importTables EXCEPT ![i - 1] = r]
          BY <4>7, <5>1 DEF DigestTable, StoreDigest
        <5>3. TableTyped(r)
          BY <4>1, <5>1 DEF TableTyped, BlankTable
        <5> QED
          BY <4>1, <5>1, <5>2, <5>3
      <4>8. CASE DigestTable /\ ~(i > 1)
        BY <4>1, <4>8 DEF DigestTable, StoreDigest
      <4> QED
        BY <2>2, <4>4, <4>5, <4>6, <4>7, <4>8 DEF SetAddresses
    <3>2. \A t \in DOMAIN importTables : TableTyped(importTables[t])
      BY <1>1 DEF Typed
    <3>3. DOMAIN importTables' = DOMAIN importTables
          /\ \A t \in DOMAIN importTables : TableTyped(importTables'[t])
      BY <3>1, <3>2
    <3> QED
      BY <3>3 DEF TableTyped
  <2>3. CASE ~(AllocTables \/ BeginTable \/ SetAddresses \/ DigestTable)
    <3>1. UNCHANGED importTables
      BY <2>3 DEF Next, BeginEntries, SetImportEntry, AllocNames, HashTable, AllocOffsets,
         PlaceName, AllocNameTable, CopyName, FinishLibraries, SetLastEntries, SetXEXHeader, vars,
         libraries
    <3> QED
      BY <1>1, <3>1 DEF Typed, TableTyped
  <2> QED
    BY <2>1, <2>2, <2>3
<1>5. size' \in 0 .. Word - 1
  <2>1. CASE AllocNames
    <3>1. size' = 12
      BY <1>1, <2>1 DEF AllocNames, SizeofImportLibraries, NamesLaidOut
    <3>2. Short >= 2
      BY <1>1, <1>2, <2>1 DEF AllocNames, Allocated, TablesMade, WithTables
    <3> QED
      BY <1>2, <3>1, <3>2, OptHeadersAssumption
  <2>2. CASE SetAddresses
    <3>1. UNCHANGED size \/ size' = U32(size + (SizeofImportTable + 4 * importsCounted))
      BY <2>2 DEF SetAddresses, FillTable
    <3>2. size + (SizeofImportTable + 4 * importsCounted) \in Int
      <4>1. size \in Int
        BY <1>1 DEF Typed
      <4>2. i \in 1 .. Len(peTables)
        BY <1>1, <2>2 DEF SetAddresses, Control, FillingTables
      <4>3. Len(peTables[i].imports) \in Nat
        <5>1. peTables[i].imports \in Seq(Nat)
          BY <1>1, <4>2, PETables DEF Control
        <5> QED
          BY <5>1
      <4>4. importsCounted \in Int
        BY <1>2, <4>3 DEF importsCounted
      <4> QED
        BY <4>1, <4>4 DEF SizeofImportTable
    <3> QED
      BY <1>1, <3>1, <3>2, U32Range DEF Typed
  <2>3. CASE AllocNameTable
    <3>1. size' = U32(size + nameTableSize) /\ size + nameTableSize \in Int
      BY <1>1, <2>3 DEF AllocNameTable, Typed
    <3> QED
      BY <3>1, U32Range
  <2>4. CASE ~(AllocNames \/ SetAddresses \/ AllocNameTable)
    <3>1. UNCHANGED size
      BY <2>4 DEF Next, BeginEntries, SetImportEntry, AllocTables, BeginTable, HashTable,
         DigestTable, StoreDigest, AllocOffsets, PlaceName, CopyName, FinishLibraries,
         SetLastEntries, SetXEXHeader, vars, libraries, header
    <3> QED
      BY <1>1, <3>1 DEF Typed
  <2> QED
    BY <2>1, <2>2, <2>3, <2>4
<1>6. nameTableSize' \in 0 .. Word - 1 /\ nameOffsets' \in Seq(Nat)
  <2>1. CASE PlaceName
    <3>1. /\ nameOffsets' = Append(nameOffsets, nameTableSize)
          /\ nameTableSize' = U32(nameTableSize + getNextAligned(strlen(FileName(i)) + 1, 4))
          /\ i \in 1 .. Len(peTables) /\ step = "placeNames"
      BY <1>1, <1>2, <2>1 DEF PlaceName, bytesOfName, Control, PlacingNames
    <3>2. TablesDone
      BY <3>1 DEF TablesDone, PlacingNames
    <3>3. getNextAligned(strlen(FileName(i)) + 1, 4) \in Nat
      <4>1. Len(peTables) \in 1 .. Short - 1
        BY <1>1, <3>1 DEF Allocated, TablesMade, WithTables, PlacingNames
      <4>2. \A t \in 1 .. Len(peTables) : Accepted(peTables[t].name)
        BY <1>1, <3>2 DEF NamesRead, Read, ReadBy
      <4> QED
        BY <3>1, <4>1, <4>2, NamesInReach
    <3>4. nameTableSize \in Nat /\ nameOffsets \in Seq(Nat)
      BY <1>1, <1>2 DEF Typed
    <3>5. nameTableSize + getNextAligned(strlen(FileName(i)) + 1, 4) \in Int
      BY <3>3, <3>4
    <3> QED
      BY <3>1, <3>4, <3>5, U32Range
  <2>2. CASE ~PlaceName
    <3>1. UNCHANGED <<nameTableSize, nameOffsets>>
      BY <2>2 DEF Next, BeginEntries, SetImportEntry, AllocTables, AllocNames, BeginTable,
         SetAddresses, FillTable, HashTable, DigestTable, StoreDigest, AllocOffsets,
         AllocNameTable, CopyName, FinishLibraries, SetLastEntries, SetXEXHeader, vars, libraries,
         header
    <3> QED
      BY <1>1, <3>1 DEF Typed
  <2> QED
    BY <2>1, <2>2
<1> QED
  BY <1>3, <1>4, <1>5, <1>6 DEF Typed

(***************************************************************************)
(* And so are the names: read, counted and laid out as far as the loops of *)
(* setImportLibsInfo have come, and the sum of the sizes with them.        *)
(***************************************************************************)
THEOREM LibsInvariant == Spec => [](OptInv /\ LibsInv)
<1>1. LibsInv /\ OptInv /\ [Next]_vars => LibsInv'
  BY NamesReadNext, NamesLaidOutNext, SizedNext, TypedNext DEF LibsInv
<1> QED
  BY OptInvariant, LibsInit, <1>1, PTL DEF Spec

(* The names add to where every table is.                                  *)
LEMMA NamesAdd ==
  ASSUME NEW n \in Nat, NEW c \in Seq(Nat)
  PROVE  ImportLibrariesSize(n, c) = n + ImportLibrariesSize(0, c)
<1> DEFINE m == Len(c)
           a == ImportTableAt(n, c)
           b == ImportTableAt(0, c)
<1>1. m \in Nat /\ \A k \in 1 .. m : c[k] \in Nat
  OBVIOUS
<1>2. /\ a[1] = 12 + n /\ b[1] = 12
      /\ \A k \in 1 .. m : a[k + 1] = a[k] + 40 + 4 * c[k] /\ b[k + 1] = b[k] + 40 + 4 * c[k]
  <2>1. a[1] = 12 + n /\ \A k \in 1 .. m : a[k + 1] = a[k] + 40 + 4 * c[k]
    BY TableAtStep
  <2>2. b[1] = 12 + 0 /\ \A k \in 1 .. m : b[k + 1] = b[k] + 40 + 4 * c[k]
    BY TableAtStep
  <2> QED
    BY <2>1, <2>2
<1> HIDE DEF m, a, b
<1> DEFINE Have == {k \in Nat : k <= m => a[k + 1] = n + b[k + 1] /\ b[k + 1] \in Nat}
<1>3. 0 \in Have
  BY <1>2
<1>4. ASSUME NEW k \in Nat, k \in Have PROVE k + 1 \in Have
  <2>1. CASE k + 1 <= m
    <3>1. k + 1 \in 1 .. m /\ a[k + 1] = n + b[k + 1] /\ b[k + 1] \in Nat /\ c[k + 1] \in Nat
      <4>1. k + 1 \in 1 .. m /\ k <= m
        BY <1>1, <2>1
      <4>2. a[k + 1] = n + b[k + 1] /\ b[k + 1] \in Nat
        <5>1. k <= m => a[k + 1] = n + b[k + 1] /\ b[k + 1] \in Nat
          BY <1>4, Zenon
        <5> QED
          BY <4>1, <5>1
      <4>3. c[k + 1] \in Nat
        BY <1>1, <4>1
      <4> QED
        BY <4>1, <4>2, <4>3, Zenon
    <3>2. /\ a[(k + 1) + 1] = a[k + 1] + 40 + 4 * c[k + 1]
          /\ b[(k + 1) + 1] = b[k + 1] + 40 + 4 * c[k + 1]
      BY <1>2, <3>1
    <3>3. a[(k + 1) + 1] = n + b[(k + 1) + 1] /\ b[(k + 1) + 1] \in Nat
      <4> DEFINE u == b[k + 1]
                 v == c[k + 1]
                 w == a[k + 1]
                 x == a[(k + 1) + 1]
                 y == b[(k + 1) + 1]
      <4>1. u \in Nat /\ v \in Nat /\ w = n + u /\ x = w + 40 + 4 * v /\ y = u + 40 + 4 * v
        BY <3>1, <3>2
      <4> HIDE DEF u, v, w, x, y
      <4>2. x = n + y /\ y \in Nat
        BY <4>1
      <4> QED
        BY <4>2 DEF x, y
    <3> QED
      BY <3>3
  <2> QED
    BY <2>1
<1>5. m \in Have
  <2> HIDE DEF Have
  <2>1. Nat \subseteq Have
    BY <1>3, <1>4, Induction
  <2> QED
    BY <1>1, <2>1
<1>6. a[m + 1] = n + b[m + 1]
  BY <1>1, <1>5
<1> QED
  BY <1>6 DEF ImportLibrariesSize, a, b, m

(* What it takes to write the libraries, however many bytes that are.      *)
LibrariesTake == ImportLibrariesSize(NameAt[Len(peTables) + 1], counts)

(* Nothing in the code keeps this below 2^32: the tables of a PE may share *)
(* their imports, which are copied for each.                               *)
LibrariesFit == importsPresent => LibrariesTake < Word

LEMMA LibrariesMade ==
  ASSUME OptInv, LibsInv, LibrariesBuilt
  PROVE  /\ Len(importTables) = Len(peTables) /\ DOMAIN importTables = 1 .. Len(peTables)
         /\ Len(peTables) \in 1 .. Short - 1
         /\ \A t \in 1 .. Len(peTables) : importTables[t].addressCount = counts[t]
         /\ counts \in Seq(Nat) /\ Len(counts) = Len(peTables)
         /\ counts = [t \in 1 .. Len(peTables) |-> counts[t]]
         /\ nameTableSize = NameAt[Len(peTables) + 1] /\ nameTableSize \in Nat \ {0}
         /\ LibrariesTake \in Nat \ {0} /\ size = U32(LibrariesTake)
<1>1. Control /\ Allocated /\ Contents /\ NamesRead /\ NamesLaidOut /\ Sized
  BY DEF OptInv, LibsInv
<1>2. TablesDone /\ NamesCopied /\ TablesMade
  BY <1>1 DEF TablesDone, NamesCopied, TablesMade, LibrariesBuilt, Control, Succeeded, PlacingNames
<1>3. /\ Len(importTables) = Len(peTables) /\ DOMAIN importTables = 1 .. Len(peTables)
      /\ Len(peTables) \in 1 .. Short - 1
  BY <1>1, <1>2 DEF Allocated
<1>4. /\ counts \in Seq(Nat) /\ Len(counts) = Len(peTables)
      /\ counts = [t \in 1 .. Len(peTables) |-> counts[t]]
      /\ SumTo(1) = 12 /\ SumTo(Len(peTables) + 1) \in Nat
      /\ 12 <= SumTo(Len(peTables) + 1)
      /\ \A t \in 1 .. Len(peTables) : counts[t] = Len(peTables[t].imports)
  <2>1. peTables \in PEImportTables /\ Len(peTables) \in Nat
    BY <1>1, PETables DEF Control
  <2>2. counts = [t \in 1 .. Len(peTables) |-> counts[t]]
    BY DEF counts
  <2>3. 1 \in 1 .. Len(peTables) + 1 /\ Len(peTables) + 1 \in 1 .. Len(peTables) + 1
    BY <2>1
  <2> QED
    BY <2>1, <2>2, <2>3, SumStep
<1>5. \A t \in 1 .. Len(peTables) : importTables[t].addressCount = counts[t]
  <2> TAKE t \in 1 .. Len(peTables)
  <2>1. FilledBy(t)
    BY <1>2 DEF FilledBy
  <2>2. Filled(t)
    BY <1>1, <2>1 DEF Contents, Accounted
  <2> QED
    BY <1>4, <2>2 DEF Filled
<1>6. nameTableSize = NameAt[Len(peTables) + 1]
  BY <1>1, <1>2 DEF NamesLaidOut
<1>7. nameTableSize \in Nat \ {0}
  <2>1. \A t \in 1 .. Len(peTables) : Accepted(peTables[t].name)
    BY <1>1, <1>2 DEF NamesRead, Read, ReadBy
  <2>2. NameAt[Len(peTables) + 1] > 0
    BY <1>3, <2>1, NamesInReach
  <2>3. nameTableSize \in Nat
    BY DEF LibsInv, Typed
  <2> QED
    BY <1>6, <2>2, <2>3
<1>8. LibrariesTake = nameTableSize + SumTo(Len(peTables) + 1)
  <2>1. LibrariesTake = nameTableSize + ImportLibrariesSize(0, counts)
    BY <1>4, <1>6, <1>7, NamesAdd DEF LibrariesTake
  <2> QED
    BY <1>4, <2>1 DEF ImportLibrariesSize, SumTo
<1>9. SumFrom(1) + nameTableSize = LibrariesTake
  BY <1>4, <1>7, <1>8 DEF SumFrom
<1>10. size = U32(LibrariesTake)
  BY <1>1, <1>2, <1>9 DEF Sized
<1>11. LibrariesTake \in Nat \ {0}
  BY <1>4, <1>7, <1>8
<1> QED
  BY <1>3, <1>4, <1>5, <1>6, <1>7, <1>10, <1>11

(***************************************************************************)
(* Every variable of setOptHeaders and setImportLibsInfo has its type,     *)
(* however the build ends.                                                 *)
(***************************************************************************)
THEOREM OptHeadersTyped == Spec => []OptHeadersTypeOK
<1>1. OptInv /\ LibsInv => OptHeadersTypeOK
  <2> SUFFICES ASSUME OptInv, LibsInv PROVE OptHeadersTypeOK
    OBVIOUS
  <2> USE DEF InLibraries, WithTables, FillingTables, PlacingNames
  <2>1. Control /\ Listed /\ Allocated /\ Typed
    BY DEF OptInv, LibsInv
  <2>2. step # "returned" => Len(entries) = IF step = "entries" THEN 0
                                            ELSE IF importsPresent THEN 5 ELSE 4
    BY <2>1 DEF Control, Listed, count
  <2>3. step \in {"allocNames", "table", "addresses", "hash", "digest", "placeNames",
                  "copyNames"} => Len(importTables) \in 1 .. Short - 1
    BY <2>1 DEF Allocated, TablesMade
  <2>4. \A t \in DOMAIN importTables :
          /\ importTables[t].tableIndex \in 0 .. Byte - 1
          /\ importTables[t].addressCount \in 0 .. Short - 1
          /\ importTables[t].addresses \in Seq(Nat)
    BY <2>1 DEF Typed, TableTyped
  <2>5. /\ step \in {"entries", "importEntry", "allocTables", "allocNames", "table", "addresses",
                     "hash", "digest", "placeNames", "copyNames", "lastEntries", "xexHeader",
                     "returned"}
        /\ littleEndian \in BOOLEAN /\ exe \in Executables /\ peTables \in PEImportTables
        /\ i \in 0 .. Len(peTables) + 1
        /\ ret \in {"none", "success", "outOfMem", "invalidImportName"}
    BY <2>1 DEF Control
  <2>6. /\ currentHeader \in 1 .. 5 /\ optHeaderCount \in 0 .. 5
        /\ moduleFlags \subseteq {"TITLE", "EXPORTS", "DLL"}
        /\ size \in 0 .. Word - 1 /\ nameTableSize \in 0 .. Word - 1 /\ nameOffsets \in Seq(Nat)
    BY <2>1 DEF Listed, Typed
  <2> QED
    BY <2>2, <2>3, <2>4, <2>5, <2>6 DEF OptHeadersTypeOK
<1> QED
  BY <1>1, LibsInvariant, PTL

(***************************************************************************)
(* The names lie in the name table one behind another, in the order of     *)
(* their tables, each whole: no strcpy overwrites a name or its end.       *)
(***************************************************************************)
THEOREM NamesInOrder == Spec => []NamesFound
<1>1. OptInv /\ LibsInv => NamesFound
  <2> SUFFICES ASSUME OptInv, LibsInv, LibrariesBuilt
               PROVE  /\ nameTable = {CopiedName(t) : t \in DOMAIN peTables}
                      /\ nameTableSize = NameAt[Len(peTables) + 1]
    BY DEF NamesFound, CopiedName
  <2>1. NamesCopied
    BY DEF NamesCopied, TablesDone, LibrariesBuilt, OptInv, Control, Succeeded, PlacingNames,
       InLibraries, WithTables, FillingTables
  <2>2. DOMAIN peTables = 1 .. Len(peTables)
    BY PETables DEF OptInv, Control
  <2> QED
    BY <2>1, <2>2 DEF LibsInv, NamesLaidOut
<1> QED
  BY <1>1, LibsInvariant, PTL

(***************************************************************************)
(* The size is that of all that is written, header, tables, addresses and  *)
(* names, as 32 bits keep it, although it is added up table by table, from *)
(* the last to the first, and the names last.                              *)
(***************************************************************************)
THEOREM SizeCounted == Spec => [](LibrariesBuilt => size = U32(LibrariesTake))
<1>1. OptInv /\ LibsInv => (LibrariesBuilt => size = U32(LibrariesTake))
  BY LibrariesMade
<1> QED
  BY <1>1, LibsInvariant, PTL

(***************************************************************************)
(* So it is what is written, where the libraries fit into 32 bits: and     *)
(* that is what the model of the writer assumes of them.                   *)
(***************************************************************************)
THEOREM SizeWritten == Spec => [](LibrariesFit => SizeIsWhatIsWritten)
<1>1. OptInv /\ LibsInv => (LibrariesFit => SizeIsWhatIsWritten)
  <2> SUFFICES ASSUME OptInv, LibsInv, LibrariesFit, Succeeded
               PROVE  /\ LibrariesAsBuilt([size          |-> size,
                                           tableCount    |-> Len(importTables),
                                           nameTableSize |-> nameTableSize,
                                           addressCounts |-> [t \in DOMAIN importTables |->
                                                                importTables[t].addressCount]])
                      /\ importsPresent <=> size > 0
    BY DEF SizeIsWhatIsWritten
  <2> DEFINE built == [t \in DOMAIN importTables |-> importTables[t].addressCount]
             l == [size |-> size, tableCount |-> Len(importTables),
                   nameTableSize |-> nameTableSize, addressCounts |-> built]
  <2>1. CASE importsPresent
    <3>1. /\ Len(importTables) = Len(peTables) /\ DOMAIN importTables = 1 .. Len(peTables)
          /\ Len(peTables) \in 1 .. Short - 1
          /\ \A t \in 1 .. Len(peTables) : importTables[t].addressCount = counts[t]
          /\ counts \in Seq(Nat) /\ Len(counts) = Len(peTables)
          /\ counts = [t \in 1 .. Len(peTables) |-> counts[t]]
          /\ nameTableSize = NameAt[Len(peTables) + 1] /\ nameTableSize \in Nat \ {0}
          /\ LibrariesTake \in Nat \ {0} /\ size = U32(LibrariesTake)
      BY <2>1, LibrariesMade DEF LibrariesBuilt
    <3>2. built = counts
      BY <3>1
    <3>3. size = LibrariesTake /\ size > 0
      <4>1. LibrariesTake \in Nat /\ LibrariesTake < Word /\ LibrariesTake > 0
        BY <2>1, <3>1 DEF LibrariesFit
      <4> QED
        BY <3>1, <4>1, U32Plain
    <3>4. size = ImportLibrariesSize(nameTableSize, counts)
      BY <3>1, <3>3 DEF LibrariesTake
    <3>5. Len(importTables) # 0
      BY <3>1, ImportNamesAssumption
    <3> HIDE DEF built
    <3>6. LibrariesAsBuilt(l)
      BY <3>1, <3>2, <3>4, <3>5 DEF LibrariesAsBuilt
    <3> QED
      BY <2>1, <3>3, <3>6 DEF built
  <2>2. CASE ~importsPresent
    <3>1. importTables = <<>> /\ size = 0
      BY <2>2 DEF OptInv, Allocated, LibsInv, Sized
    <3>2. built = <<>> /\ built \in Seq(Nat) /\ Len(built) = 0 /\ Len(importTables) = 0
      <4>1. built = <<>>
        BY <3>1
      <4> HIDE DEF built
      <4> QED
        BY <3>1, <4>1
    <3> HIDE DEF built
    <3>3. LibrariesAsBuilt(l)
      BY <3>1, <3>2 DEF LibrariesAsBuilt
    <3> QED
      BY <2>2, <3>1, <3>3 DEF built
  <2> QED
    BY <2>1, <2>2
<1> QED
  BY <1>1, LibsInvariant, PTL

(* The names are texts of characters, TLA+'s strings.                      *)
LEMMA NamesAreTexts ==
  ASSUME Control
  PROVE  /\ DOMAIN peTables = 1 .. Len(peTables)
         /\ \A t \in DOMAIN peTables : peTables[t].name \in Seq(STRING)
BY OptHeadersAssumption DEF Control

(* The four numbers of a version and its minimum.                          *)
LEMMA VersionsOf ==
  ASSUME NEW Chars, NEW name \in Seq(Chars), Accepted(name), ~Contains(name, "-")
  PROVE  LET runs == RunsOfDigits(name)
         IN  /\ TargetVersion(name).build = ValueOf(runs[1]) % Short
             /\ TargetVersion(name).hotfix = ValueOf(runs[2]) % Byte
             /\ MinimumVersion(name).build = ValueOf(runs[3]) % Short
             /\ MinimumVersion(name).hotfix = ValueOf(runs[4]) % Byte
<1>1. \A k \in 1 .. 4 : ValueOf(RunsOfDigits(name)[k]) = strtoul(Tokens(name)[k + 1])
  BY RunsAreNumbers
<1> DEFINE Value(k) == ValueOf(RunsOfDigits(name)[k])
           Number(k) == strtoul(Tokens(name)[k])
<1>2. \A k \in 1 .. 4 : Value(k) = Number(k + 1)
  BY <1>1
<1>3. TargetVersion(name) = [build |-> Number(2) % Short, hotfix |-> Number(3) % Byte]
  BY Zenon DEF TargetVersion, Version
<1>4. MinimumVersion(name) = [build |-> Number(4) % Short, hotfix |-> Number(5) % Byte]
  BY Zenon DEF MinimumVersion, Version
<1> HIDE DEF Value, Number
<1>5. Value(1) = Number(2) /\ Value(2) = Number(3) /\ Value(3) = Number(4) /\ Value(4) = Number(5)
  BY <1>2
<1>6. /\ TargetVersion(name).build = Value(1) % Short
      /\ TargetVersion(name).hotfix = Value(2) % Byte
      /\ MinimumVersion(name).build = Value(3) % Short
      /\ MinimumVersion(name).hotfix = Value(4) % Byte
  BY <1>3, <1>4, <1>5
<1> QED
  BY <1>6 DEF Value

(***************************************************************************)
(* No name of the right form is refused, and the versions in a table are   *)
(* the numbers that a reader sees in its name, whatever else strtok and    *)
(* strtoul have let pass.                                                  *)
(***************************************************************************)
THEOREM VersionsRead == Spec => []VersionsAsNamed
<1>1. OptInv /\ LibsInv => VersionsAsNamed
  <2> SUFFICES ASSUME OptInv, LibsInv PROVE VersionsAsNamed
    OBVIOUS
  <2> DEFINE Texts == Seq(STRING)
  <2>1. Control /\ NamesRead /\ DOMAIN peTables = 1 .. Len(peTables)
    BY NamesAreTexts DEF OptInv, LibsInv
  <2>2. \A t \in DOMAIN peTables : peTables[t].name \in Texts
    BY <2>1, NamesAreTexts
  <2>3. \A name \in Texts : WellFormed(name) => Accepted(name)
    BY WellFormedAccepted
  <2>4. \A name \in Texts : Accepted(name) /\ ~Contains(name, "-") =>
          /\ TargetVersion(name).build = ValueOf(RunsOfDigits(name)[1]) % Short
          /\ TargetVersion(name).hotfix = ValueOf(RunsOfDigits(name)[2]) % Byte
          /\ MinimumVersion(name).build = ValueOf(RunsOfDigits(name)[3]) % Short
          /\ MinimumVersion(name).hotfix = ValueOf(RunsOfDigits(name)[4]) % Byte
    BY VersionsOf
  <2> HIDE DEF Texts
  <2>5. \A t \in DOMAIN peTables : WellFormed(peTables[t].name) => Accepted(peTables[t].name)
    BY <2>2, <2>3
  <2>6. ASSUME LibrariesBuilt, NEW t \in DOMAIN peTables, ~Contains(peTables[t].name, "-")
        PROVE  <<importTables[t].targetVer.build, importTables[t].targetVer.hotfix,
                 importTables[t].minimumVer.build, importTables[t].minimumVer.hotfix>>
                 = <<ValueOf(RunsOfDigits(peTables[t].name)[1]) % Short,
                     ValueOf(RunsOfDigits(peTables[t].name)[2]) % Byte,
                     ValueOf(RunsOfDigits(peTables[t].name)[3]) % Short,
                     ValueOf(RunsOfDigits(peTables[t].name)[4]) % Byte>>
    <3>1. ReadBy(t)
      BY <2>1, <2>6 DEF ReadBy, TablesDone, LibrariesBuilt
    <3>2. Read(t)
      BY <2>1, <3>1 DEF NamesRead
    <3> DEFINE name == peTables[t].name
    <3>3. /\ importTables[t].targetVer = TargetVersion(name)
          /\ importTables[t].minimumVer = MinimumVersion(name)
          /\ Accepted(name)
      BY <3>2 DEF Read
    <3>4. name \in Texts
      BY <2>2
    <3> HIDE DEF name
    <3>5. /\ TargetVersion(name).build = ValueOf(RunsOfDigits(name)[1]) % Short
          /\ TargetVersion(name).hotfix = ValueOf(RunsOfDigits(name)[2]) % Byte
          /\ MinimumVersion(name).build = ValueOf(RunsOfDigits(name)[3]) % Short
          /\ MinimumVersion(name).hotfix = ValueOf(RunsOfDigits(name)[4]) % Byte
      BY <2>4, <2>6, <3>3, <3>4, Zenon DEF name
    <3>6. <<importTables[t].targetVer.build, importTables[t].targetVer.hotfix,
            importTables[t].minimumVer.build, importTables[t].minimumVer.hotfix>>
            = <<ValueOf(RunsOfDigits(name)[1]) % Short, ValueOf(RunsOfDigits(name)[2]) % Byte,
                ValueOf(RunsOfDigits(name)[3]) % Short, ValueOf(RunsOfDigits(name)[4]) % Byte>>
      BY <3>3, <3>5, Zenon
    <3> QED
      BY <3>6 DEF name
  <2> QED
    BY <2>5, <2>6, Zenon DEF VersionsAsNamed
<1> QED
  BY <1>1, LibsInvariant, PTL
=============================================================================
