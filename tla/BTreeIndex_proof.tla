-------------------------- MODULE BTreeIndex_proof --------------------------
(***************************************************************************)
(* Theorems about BTreeIndex, for every set of entries, every number of     *)
(* pages and all sizes of a page, an entry and a reference to a child that  *)
(* the hypothesis Roomy allows.                                             *)
(***************************************************************************)
EXTENDS BTreeIndex, Integers, FiniteSetTheorems, FunctionTheorems, SequenceTheorems,
        WellFoundedInduction, NaturalsInduction, TLAPS

-----------------------------------------------------------------------------
(***************************************************************************)
(* Numbers and sequences.                                                   *)
(***************************************************************************)

\* A set of numbers that is not empty has a least one.
LEMMA LeastNumber ==
    ASSUME NEW S \in SUBSET Nat, S # {}
    PROVE  \E x \in S : \A y \in S : x <= y
<1> DEFINE less == {ss \in Nat \X Nat : ss[1] < ss[2]}
<1>1. IsWellFoundedOn(less, Nat)
  BY NatLessThanWellFounded DEF OpToRel
<1> HIDE DEF less
<1>2. PICK x \in S : \A y \in S : <<y, x>> \notin less
  BY <1>1, WFMin
<1>3. \A y \in S : x <= y
  <2> TAKE y \in S
  <2>1. x \in Nat /\ y \in Nat
    OBVIOUS
  <2>2. ~(y < x)
    BY <1>2, <2>1 DEF less
  <2> QED
    BY <2>1, <2>2
<1> QED
  BY <1>3

\* A bounded one has a greatest.
LEMMA GreatestNumber ==
    ASSUME NEW S \in SUBSET Nat, S # {}, NEW n \in Nat, \A y \in S : y <= n
    PROVE  \E x \in S : \A y \in S : y <= x
<1> DEFINE below == {n - y : y \in S}
<1>0. \A y \in S : n - y \in Nat
  OBVIOUS
<1>1. below \in SUBSET Nat /\ below # {}
  BY <1>0
<1>2. PICK b \in below : \A c \in below : b <= c
  BY <1>1, LeastNumber
<1>3. PICK x \in S : b = n - x
  OBVIOUS
<1>4. \A y \in S : n - x <= n - y
  BY <1>2, <1>3
<1> QED
  BY <1>4

\* f with another value at one place.
Put(f, i, x) == [f EXCEPT ![i] = x]

LEMMA RangeOf ==
    ASSUME NEW S, NEW s \in Seq(S)
    PROVE  /\ Range(s) = {s[i] : i \in 1..Len(s)} /\ Range(s) \subseteq S
           /\ Len(s) \in Nat /\ \A i \in 1..Len(s) : s[i] \in S
  BY RangeEquality, ElementOfSeq

LEMMA NoElements ==
    ASSUME NEW S
    PROVE  <<>> \in Seq(S) /\ Len(<<>>) = 0
  BY EmptySeq

LEMMA EmptyIff ==
    ASSUME NEW S, NEW s \in Seq(S)
    PROVE  s = <<>> <=> Len(s) = 0
  BY EmptySeq

\* Elements from..to of a sequence.
LEMMA PartOf ==
    ASSUME NEW S, NEW s \in Seq(S), NEW m \in 1..Len(s) + 1, NEW n \in 0..Len(s), m <= n + 1
    PROVE  /\ SubSeq(s, m, n) \in Seq(S) /\ Len(SubSeq(s, m, n)) = n - m + 1
           /\ \A i \in 1..n - m + 1 : SubSeq(s, m, n)[i] = s[m + i - 1]
<1>1. Len(s) \in Nat /\ \A i \in 1..Len(s) : s[i] \in S
  BY RangeOf
<1>2. m \in Int /\ n \in Int /\ \A i \in m..n : s[i] \in S
  BY <1>1
<1> QED
  BY <1>1, <1>2, SubSeqProperties

LEMMA InsertedAt ==
    ASSUME NEW S, NEW s \in Seq(S), NEW k \in 1..Len(s) + 1, NEW e \in S
    PROVE  /\ InsertAt(s, k, e) \in Seq(S) /\ Len(InsertAt(s, k, e)) = Len(s) + 1
           /\ \A i \in 1..Len(s) + 1 :
                InsertAt(s, k, e)[i] = IF i < k THEN s[i] ELSE IF i = k THEN e ELSE s[i - 1]
<1> DEFINE a == SubSeq(s, 1, k - 1)
           b == SubSeq(s, k, Len(s))
           ae == a \o <<e>>
<1>1. Len(s) \in Nat /\ k \in Nat
  BY RangeOf
<1>2. /\ a \in Seq(S) /\ Len(a) = k - 1
      /\ \A i \in 1..k - 1 : a[i] = s[i]
  <2>1. k - 1 \in 0..Len(s) /\ 1 \in 1..Len(s) + 1 /\ 1 <= (k - 1) + 1
    BY <1>1
  <2>2. /\ a \in Seq(S) /\ Len(a) = (k - 1) - 1 + 1
        /\ \A i \in 1..(k - 1) - 1 + 1 : a[i] = s[1 + i - 1]
    BY <2>1, PartOf
  <2> QED
    BY <2>2, <1>1
<1>3. /\ b \in Seq(S) /\ Len(b) = Len(s) - k + 1
      /\ \A i \in 1..Len(s) - k + 1 : b[i] = s[k + i - 1]
  <2>1. Len(s) \in 0..Len(s) /\ k <= Len(s) + 1
    BY <1>1
  <2> QED
    BY <2>1, PartOf
<1>4. <<e>> \in Seq(S) /\ Len(<<e>>) = 1 /\ <<e>>[1] = e
  OBVIOUS
<1> HIDE DEF a, b
<1>5. /\ ae \in Seq(S) /\ Len(ae) = k
      /\ \A i \in 1..k : ae[i] = IF i < k THEN s[i] ELSE e
  <2>1. /\ ae \in Seq(S) /\ Len(ae) = Len(a) + Len(<<e>>)
        /\ \A i \in 1..Len(a) + Len(<<e>>) : ae[i] = IF i <= Len(a) THEN a[i] ELSE <<e>>[i - Len(a)]
    BY <1>2, <1>4, ConcatProperties
  <2>2. Len(a) + Len(<<e>>) = k /\ \A i \in 1..k : i <= Len(a) <=> i < k
    BY <1>1, <1>2, <1>4
  <2>3. \A i \in 1..k : ae[i] = IF i < k THEN a[i] ELSE <<e>>[i - Len(a)]
    BY <2>1, <2>2
  <2>4. \A i \in 1..k : ~(i < k) => i - Len(a) = 1
    BY <1>1, <1>2
  <2>5. \A i \in 1..k : i < k => i \in 1..k - 1
    BY <1>1
  <2> QED
    BY <2>1, <2>2, <2>3, <2>4, <2>5, <1>2, <1>4
<1> HIDE DEF ae
<1>6. /\ ae \o b \in Seq(S) /\ Len(ae \o b) = Len(ae) + Len(b)
      /\ \A i \in 1..Len(ae) + Len(b) : (ae \o b)[i] = IF i <= Len(ae) THEN ae[i] ELSE b[i - Len(ae)]
  BY <1>3, <1>5, ConcatProperties
<1>7. InsertAt(s, k, e) = ae \o b
  BY DEF InsertAt, ae, a, b
<1>8. Len(ae) + Len(b) = Len(s) + 1
  BY <1>1, <1>3, <1>5
<1>9. ASSUME NEW i \in 1..Len(s) + 1
      PROVE  (ae \o b)[i] = IF i < k THEN s[i] ELSE IF i = k THEN e ELSE s[i - 1]
  <2>1. CASE i <= k
    BY <2>1, <1>1, <1>5, <1>6, <1>8
  <2>2. CASE k < i
    <3>1. i - k \in 1..Len(s) - k + 1 /\ k + (i - k) - 1 = i - 1
      BY <2>2, <1>1
    <3>2. b[i - k] = s[i - 1]
      BY <3>1, <1>3
    <3>3. ~(i <= Len(ae)) /\ Len(ae) = k /\ i \in 1..Len(ae) + Len(b)
      BY <2>2, <1>1, <1>5, <1>8
    <3>4. (ae \o b)[i] = b[i - k]
      BY <3>3, <1>6
    <3> QED
      BY <2>2, <3>2, <3>4, <1>1
  <2>3. i <= k \/ k < i
    BY <1>1
  <2> QED
    BY <2>1, <2>2, <2>3
<1> QED
  BY <1>6, <1>7, <1>8, <1>9

LEMMA RemovedAt ==
    ASSUME NEW S, NEW s \in Seq(S), NEW k \in 1..Len(s)
    PROVE  /\ RemoveAt(s, k) \in Seq(S) /\ Len(RemoveAt(s, k)) = Len(s) - 1
           /\ \A i \in 1..Len(s) - 1 : RemoveAt(s, k)[i] = IF i < k THEN s[i] ELSE s[i + 1]
<1> DEFINE a == SubSeq(s, 1, k - 1)
           b == SubSeq(s, k + 1, Len(s))
<1>1. Len(s) \in Nat /\ k \in Nat
  BY RangeOf
<1>2. /\ a \in Seq(S) /\ Len(a) = k - 1
      /\ \A i \in 1..k - 1 : a[i] = s[i]
  <2>1. k - 1 \in 0..Len(s) /\ 1 \in 1..Len(s) + 1 /\ 1 <= (k - 1) + 1
    BY <1>1
  <2>2. /\ a \in Seq(S) /\ Len(a) = (k - 1) - 1 + 1
        /\ \A i \in 1..(k - 1) - 1 + 1 : a[i] = s[1 + i - 1]
    BY <2>1, PartOf
  <2> QED
    BY <2>2, <1>1
<1>3. /\ b \in Seq(S) /\ Len(b) = Len(s) - k
      /\ \A i \in 1..Len(s) - k : b[i] = s[k + i]
  <2>1. Len(s) \in 0..Len(s) /\ k + 1 \in 1..Len(s) + 1 /\ k + 1 <= Len(s) + 1
    BY <1>1
  <2>2. /\ b \in Seq(S) /\ Len(b) = Len(s) - (k + 1) + 1
        /\ \A i \in 1..Len(s) - (k + 1) + 1 : b[i] = s[(k + 1) + i - 1]
    BY <2>1, PartOf
  <2>3. Len(s) - (k + 1) + 1 = Len(s) - k
    BY <1>1
  <2>4. \A i \in 1..Len(s) - k : (k + 1) + i - 1 = k + i
    BY <1>1
  <2>5. \A i \in 1..Len(s) - k : b[i] = s[(k + 1) + i - 1]
    BY <2>2, <2>3
  <2> QED
    BY <2>2, <2>3, <2>4, <2>5
<1> HIDE DEF a, b
<1>6. /\ a \o b \in Seq(S) /\ Len(a \o b) = Len(a) + Len(b)
      /\ \A i \in 1..Len(a) + Len(b) : (a \o b)[i] = IF i <= Len(a) THEN a[i] ELSE b[i - Len(a)]
  BY <1>2, <1>3, ConcatProperties
<1>7. RemoveAt(s, k) = a \o b
  BY DEF RemoveAt, a, b
<1>8. Len(a) + Len(b) = Len(s) - 1
  BY <1>1, <1>2, <1>3
<1>9. ASSUME NEW i \in 1..Len(s) - 1
      PROVE  (a \o b)[i] = IF i < k THEN s[i] ELSE s[i + 1]
  <2>1. CASE i < k
    BY <2>1, <1>1, <1>2, <1>6, <1>8
  <2>2. CASE k <= i
    <3>1. i - (k - 1) \in 1..Len(s) - k /\ k + (i - (k - 1)) = i + 1
      BY <2>2, <1>1
    <3>2. b[i - (k - 1)] = s[i + 1]
      BY <3>1, <1>3
    <3>3. ~(i <= Len(a)) /\ Len(a) = k - 1 /\ i \in 1..Len(a) + Len(b)
      BY <2>2, <1>1, <1>2, <1>8
    <3>4. (a \o b)[i] = b[i - (k - 1)]
      BY <3>3, <1>6
    <3> QED
      BY <2>2, <3>2, <3>4, <1>1
  <2>3. i < k \/ k <= i
    BY <1>1
  <2> QED
    BY <2>1, <2>2, <2>3
<1> QED
  BY <1>6, <1>7, <1>8, <1>9

LEMMA FrontOf ==
    ASSUME NEW S, NEW s \in Seq(S), Len(s) # 0
    PROVE  /\ Front(s) \in Seq(S) /\ Len(Front(s)) = Len(s) - 1
           /\ \A i \in 1..Len(s) - 1 : Front(s)[i] = s[i]
<1>1. Len(s) \in Nat
  BY RangeOf
<1>2. Len(s) - 1 \in 0..Len(s) /\ 1 \in 1..Len(s) + 1 /\ 1 <= (Len(s) - 1) + 1
  BY <1>1
<1>3. /\ SubSeq(s, 1, Len(s) - 1) \in Seq(S) /\ Len(SubSeq(s, 1, Len(s) - 1)) = (Len(s) - 1) - 1 + 1
      /\ \A i \in 1..(Len(s) - 1) - 1 + 1 : SubSeq(s, 1, Len(s) - 1)[i] = s[1 + i - 1]
  BY <1>2, PartOf
<1> QED
  BY <1>1, <1>3 DEF Front

LEMMA Joining ==
    ASSUME NEW S, NEW a \in Seq(S), NEW e \in S, NEW b \in Seq(S)
    PROVE  /\ a \o <<e>> \o b \in Seq(S) /\ Len(a \o <<e>> \o b) = Len(a) + Len(b) + 1
           /\ \A i \in 1..Len(a) + Len(b) + 1 :
                (a \o <<e>> \o b)[i] = IF i <= Len(a) THEN a[i] ELSE IF i = Len(a) + 1 THEN e
                                       ELSE b[i - (Len(a) + 1)]
<1> DEFINE ae == a \o <<e>>
<1>1. Len(a) \in Nat /\ Len(b) \in Nat
  BY RangeOf
<1>2. <<e>> \in Seq(S) /\ Len(<<e>>) = 1 /\ <<e>>[1] = e
  OBVIOUS
<1>3. /\ ae \in Seq(S) /\ Len(ae) = Len(a) + 1
      /\ \A i \in 1..Len(a) + 1 : ae[i] = IF i <= Len(a) THEN a[i] ELSE e
  <2>1. /\ ae \in Seq(S) /\ Len(ae) = Len(a) + Len(<<e>>)
        /\ \A i \in 1..Len(a) + Len(<<e>>) : ae[i] = IF i <= Len(a) THEN a[i] ELSE <<e>>[i - Len(a)]
    BY <1>2, ConcatProperties
  <2> QED
    BY <2>1, <1>1, <1>2
<1> HIDE DEF ae
<1>4. /\ ae \o b \in Seq(S) /\ Len(ae \o b) = Len(ae) + Len(b)
      /\ \A i \in 1..Len(ae) + Len(b) : (ae \o b)[i] = IF i <= Len(ae) THEN ae[i] ELSE b[i - Len(ae)]
  BY <1>3, ConcatProperties
<1>5. a \o <<e>> \o b = ae \o b
  BY DEF ae
<1> QED
  BY <1>1, <1>3, <1>4, <1>5

LEMMA Preceded ==
    ASSUME NEW S, NEW e \in S, NEW b \in Seq(S)
    PROVE  /\ <<e>> \o b \in Seq(S) /\ Len(<<e>> \o b) = Len(b) + 1
           /\ \A i \in 1..Len(b) + 1 : (<<e>> \o b)[i] = IF i = 1 THEN e ELSE b[i - 1]
<1>1. Len(b) \in Nat
  BY RangeOf
<1>2. <<e>> \in Seq(S) /\ Len(<<e>>) = 1 /\ <<e>>[1] = e
  OBVIOUS
<1>3. /\ <<e>> \o b \in Seq(S) /\ Len(<<e>> \o b) = Len(<<e>>) + Len(b)
      /\ \A i \in 1..Len(<<e>>) + Len(b) :
           (<<e>> \o b)[i] = IF i <= Len(<<e>>) THEN <<e>>[i] ELSE b[i - Len(<<e>>)]
  BY <1>2, ConcatProperties
<1> QED
  BY <1>1, <1>2, <1>3

-----------------------------------------------------------------------------
(***************************************************************************)
(* The operators of the model.                                              *)
(***************************************************************************)
Top == (MaxKey + 1) * Rids

LEMMA EntryBounds ==
    /\ Top \in Nat /\ Top > 0 /\ Entries \subseteq Nat
    /\ \A e \in Entries : 0 < e /\ e < Top
<1>1. MaxKey \in Nat /\ Rids \in Nat /\ Rids > 0 /\ MaxKey > 0
  BY SizeAssumption
<1>2. ASSUME NEW k \in 1..MaxKey, NEW r \in 0..Rids - 1
      PROVE  Entry(k, r) \in Nat /\ 0 < Entry(k, r) /\ Entry(k, r) < Top
  <2>1. k \in Nat /\ r \in Nat /\ k > 0 /\ r < Rids /\ k <= MaxKey
    BY <1>1
  <2>2. k * Rids \in Nat /\ k * Rids > 0
    BY <1>1, <2>1
  <2>3. k * Rids <= MaxKey * Rids /\ MaxKey * Rids \in Nat
    BY <1>1, <2>1
  <2>4. (MaxKey + 1) * Rids = MaxKey * Rids + Rids
    BY <1>1
  <2> QED
    BY <1>1, <2>1, <2>2, <2>3, <2>4 DEF Entry, Top
<1>3. Top \in Nat /\ Top > 0
  BY <1>1 DEF Top
<1> QED
  BY <1>2, <1>3 DEF Entries

\* The entries of a key lie between its least and its greatest one.
LEMMA KeyEntries ==
    ASSUME NEW k \in 1..MaxKey, NEW r \in 0..Rids - 1
    PROVE  /\ Entry(k, r) \in Entries
           /\ Entry(k, 0) \in Entries /\ Entry(k, Rids - 1) \in Entries
           /\ Entry(k, 0) <= Entry(k, r) /\ Entry(k, r) <= Entry(k, Rids - 1)
<1>1. MaxKey \in Nat /\ Rids \in Nat /\ Rids > 0 /\ 0 \in 0..Rids - 1 /\ Rids - 1 \in 0..Rids - 1
  BY SizeAssumption
<1>2. k * Rids \in Nat
  BY <1>1
<1>3. /\ Entry(k, r) \in Entries
      /\ Entry(k, 0) \in Entries /\ Entry(k, Rids - 1) \in Entries
  BY <1>1 DEF Entries
<1>4. Entry(k, 0) <= Entry(k, r) /\ Entry(k, r) <= Entry(k, Rids - 1)
  BY <1>1, <1>2 DEF Entry
<1> QED
  BY <1>3, <1>4

Ascending(s) == \A i, j \in 1..Len(s) : i < j => s[i] < s[j]

\* The place of an entry: what is before it is not above it, what is behind is.
LEMMA PlaceOf ==
    ASSUME NEW s \in Seq(Nat), NEW e \in Nat, Ascending(s)
    PROVE  /\ Place(s, e) \in 0..Len(s)
           /\ \A i \in 1..Place(s, e) : s[i] <= e
           /\ \A i \in 1..Len(s) : Place(s, e) < i => e < s[i]
<1> DEFINE Here(k) == (\A i \in 1..k : s[i] <= e) /\ (k < Len(s) => e < s[k + 1])
           stop == {k \in 0..Len(s) : k < Len(s) => e < s[k + 1]}
<1>1. Len(s) \in Nat /\ \A i \in 1..Len(s) : s[i] \in Nat
  BY RangeOf
<1>2. stop \in SUBSET Nat /\ Len(s) \in stop
  BY <1>1
<1>3. PICK k \in stop : \A j \in stop : k <= j
  BY <1>2, LeastNumber
<1>4. \A i \in 1..k : s[i] <= e
  <2> TAKE i \in 1..k
  <2>1. i - 1 \in 0..Len(s) /\ i - 1 < Len(s) /\ (i - 1) + 1 = i /\ ~(k <= i - 1)
    BY <1>1
  <2>2. i - 1 \notin stop
    BY <1>3, <2>1
  <2>3. ~(e < s[i])
    BY <2>1, <2>2
  <2>4. i \in 1..Len(s)
    BY <1>1
  <2> QED
    BY <2>3, <2>4, <1>1
<1>5. k \in 0..Len(s) /\ Here(k)
  BY <1>4
<1>6. Place(s, e) = CHOOSE j \in 0..Len(s) : Here(j)
  BY DEF Place
<1> HIDE DEF Here, stop
<1>7. Place(s, e) \in 0..Len(s) /\ Here(Place(s, e))
  BY <1>5, <1>6
<1>8. ASSUME NEW i \in 1..Len(s), Place(s, e) < i
      PROVE  e < s[i]
  <2>1. PICK j : j = Place(s, e)
    OBVIOUS
  <2>2. j \in 0..Len(s) /\ j < Len(s) /\ j + 1 \in 1..Len(s) /\ e < s[j + 1] /\ j + 1 <= i
    BY <1>1, <1>7, <1>8, <2>1 DEF Here
  <2>3. s[j + 1] \in Nat /\ s[i] \in Nat /\ (j + 1 < i => s[j + 1] < s[i])
    BY <2>2, <1>1 DEF Ascending
  <2> QED
    BY <2>2, <2>3
<1> QED
  BY <1>7, <1>8 DEF Here

\* Both halves of a split have something in them, an inner node's too.
LEMMA SplitPointOf ==
    ASSUME NEW n \in Nat, n >= 2
    PROVE  SplitPoint(n) \in 1..n - 1 /\ (n >= 3 => SplitPoint(n) <= n - 2)
<1> DEFINE diff(i) == Distance(i, n - i)
           Best(i) == \A j \in 1..n - 1 : diff(i) < diff(j) \/ (diff(i) = diff(j) /\ i <= j)
<1>1. PICK h \in Nat : n = 2 * h \/ n = 2 * h + 1
  <2>1. n \div 2 \in Nat /\ (n = 2 * (n \div 2) \/ n = 2 * (n \div 2) + 1)
    OBVIOUS
  <2> QED
    BY <2>1
<1>2. h \in 1..n - 1
  BY <1>1
<1>3. Best(h)
  <2> TAKE j \in 1..n - 1
  <2>1. CASE n = 2 * h
    BY <2>1, <1>1 DEF Distance
  <2>2. CASE n = 2 * h + 1
    BY <2>2, <1>1 DEF Distance
  <2> QED
    BY <1>1, <2>1, <2>2
<1>4. SplitPoint(n) = CHOOSE i \in 1..n - 1 : Best(i)
  BY DEF SplitPoint
<1> HIDE DEF Best
<1>5. SplitPoint(n) \in 1..n - 1 /\ Best(SplitPoint(n))
  BY <1>2, <1>3, <1>4
<1>6. ASSUME n >= 3
      PROVE  SplitPoint(n) <= n - 2
  <2>1. PICK i \in 1..n - 1 : i = SplitPoint(n) /\ Best(i)
    BY <1>5
  <2>2. diff(i) < diff(h) \/ (diff(i) = diff(h) /\ i <= h)
    BY <2>1, <1>2 DEF Best
  <2>3. CASE n = 2 * h
    BY <2>1, <2>2, <2>3, <1>6, <1>1 DEF Distance
  <2>4. CASE n = 2 * h + 1
    BY <2>1, <2>2, <2>4, <1>6, <1>1 DEF Distance
  <2> QED
    BY <1>1, <2>3, <2>4
<1> QED
  BY <1>5, <1>6

(***************************************************************************)
(* Walks from page to page that lead down, by any measure, to an end.       *)
(***************************************************************************)

\* The references followed from p on, the pages in S, the measure m.
Downward(p, next, S, m) ==
    /\ S \in SUBSET Pages /\ p \in S /\ m \in [Pages -> Nat]
    /\ \A q \in S : next[q] = NoPage \/ (next[q] \in S /\ m[next[q]] < m[q])

WalkStep(f, p, next) ==
    [i \in 1..MaxPage |->
       IF i = 1 THEN p ELSE LET q == f[i - 1] IN IF q = NoPage THEN NoPage ELSE next[q]]

\* The recursive function that Follow defines exists.
LEMMA WalkExists ==
    ASSUME NEW p, NEW next
    PROVE  \E f : f = WalkStep(f, p, next)
<1> DEFINE Value(f, i) == IF i = 1 THEN p
                          ELSE LET q == f[i - 1] IN IF q = NoPage THEN NoPage ELSE next[q]
           Part(f, n) == f = [i \in 1..n |-> Value(f, i)]
           bad == {n \in 0..MaxPage : ~\E f : Part(f, n)}
<1>0. MaxPage \in Nat
  BY SizeAssumption
<1>1. ASSUME bad # {}
      PROVE  FALSE
  <2>1. PICK n \in bad : \A k \in bad : n <= k
    <3>1. bad \in SUBSET Nat
      BY <1>0
    <3> QED
      BY <3>1, <1>1, LeastNumber
  <2>2. n # 0
    <3> SUFFICES ASSUME n = 0
                 PROVE  FALSE
      OBVIOUS
    <3>1. PICK f : f = [i \in 1..0 |-> p]
      OBVIOUS
    <3>2. Part(f, 0)
      BY <3>1
    <3>3. ~\E h : Part(h, n)
      OBVIOUS
    <3> HIDE DEF Part
    <3> QED
      BY <3>2, <3>3
  <2>3. n - 1 \in 0..MaxPage /\ n - 1 \notin bad /\ n \in Nat
    <3>1. n \in 0..MaxPage
      OBVIOUS
    <3> HIDE DEF bad
    <3> QED
      BY <3>1, <2>1, <2>2, <1>0
  <2>4. PICK f : Part(f, n - 1)
    BY <2>3
  <2> DEFINE g == [i \in 1..n |-> IF i <= n - 1 THEN f[i] ELSE Value(f, i)]
  <2>5. ASSUME NEW i \in 1..n
        PROVE  g[i] = Value(g, i)
    <3>1. g[i] = IF i <= n - 1 THEN f[i] ELSE Value(f, i)
      OBVIOUS
    <3>2. i <= n - 1 => i \in 1..n - 1
      BY <2>3
    <3>3. g[i] = Value(f, i)
      BY <3>1, <3>2, <2>4
    <3>4. i # 1 => i - 1 \in 1..n /\ i - 1 <= n - 1
      BY <2>3
    <3>5. i # 1 => g[i - 1] = f[i - 1]
      BY <3>4
    <3> HIDE DEF g
    <3> QED
      BY <3>3, <3>5
  <2>6. g = [i \in 1..n |-> g[i]]
    OBVIOUS
  <2> HIDE DEF g
  <2>7. Part(g, n)
    <3>1. [i \in 1..n |-> g[i]] = [i \in 1..n |-> Value(g, i)]
      BY <2>5
    <3> QED
      BY <3>1, <2>6
  <2> HIDE DEF Part
  <2> QED
    BY <2>7
<1>2. MaxPage \in 0..MaxPage
  BY <1>0
<1>3. PICK f : Part(f, MaxPage)
  BY <1>1, <1>2
<1>4. f = WalkStep(f, p, next)
  BY <1>3 DEF WalkStep
<1> QED
  BY <1>4

LEMMA FollowOf ==
    ASSUME NEW p, NEW next, NEW S, NEW m, Downward(p, next, S, m)
    PROVE  /\ Follow(p, next) \in Seq(S)
           /\ Len(Follow(p, next)) \in 1..MaxPage
           /\ Follow(p, next)[1] = p
           /\ \A i \in 1..Len(Follow(p, next)) - 1 :
                /\ next[Follow(p, next)[i]] # NoPage
                /\ Follow(p, next)[i + 1] = next[Follow(p, next)[i]]
           /\ next[Follow(p, next)[Len(Follow(p, next))]] = NoPage
<1> DEFINE w == CHOOSE f : f = WalkStep(f, p, next)
           K == {i \in 1..MaxPage : w[i] # NoPage}
<1>0. MaxPage \in Nat /\ MaxPage >= 1 /\ NoPage \notin Pages /\ S \in SUBSET Pages /\ p \in S /\ p # NoPage
  BY SizeAssumption DEF Downward, Pages
<1>1. Follow(p, next) = SubSeq(w, 1, Cardinality(K))
  BY DEF Follow, WalkStep
<1>2. w = WalkStep(w, p, next)
  BY WalkExists
<1> HIDE DEF w
<1>3. /\ w[1] = p
      /\ \A i \in 1..MaxPage : i # 1 =>
           w[i] = IF w[i - 1] = NoPage THEN NoPage ELSE next[w[i - 1]]
  BY <1>0, <1>2 DEF WalkStep
<1>4. \A i \in K : w[i] \in S
  <2> DEFINE bad == {i \in K : w[i] \notin S}
  <2>1. ASSUME bad # {}
        PROVE  FALSE
    <3>1. PICK i \in bad : \A j \in bad : i <= j
      <4>1. bad \in SUBSET Nat
        BY <1>0
      <4> QED
        BY <4>1, <2>1, LeastNumber
    <3>2. i # 1 /\ i \in 1..MaxPage /\ w[i] # NoPage
      BY <1>3, <1>0
    <3>3. w[i - 1] # NoPage /\ w[i] = next[w[i - 1]]
      BY <1>3, <3>2
    <3>4. i - 1 \in 1..MaxPage /\ ~(i <= i - 1)
      BY <3>2, <1>0
    <3>5. i - 1 \notin bad
      BY <3>1, <3>4
    <3>6. w[i - 1] \in S
      BY <3>3, <3>4, <3>5
    <3> QED
      BY <3>2, <3>3, <3>6 DEF Downward
  <2> QED
    BY <2>1
<1>5. PICK n \in K : \A k \in K : k <= n
  <2>1. 1 \in K
    BY <1>0, <1>3
  <2>2. K \in SUBSET Nat /\ \A k \in K : k <= MaxPage
    BY <1>0
  <2> QED
    BY <2>1, <2>2, <1>0, GreatestNumber
<1>6. n \in Nat /\ n >= 1 /\ n <= MaxPage
  BY <1>0
<1>7. K = 1..n
  <2> DEFINE bad == {j \in 1..n : j \notin K}
  <2>1. ASSUME bad # {}
        PROVE  FALSE
    <3>1. PICK j \in bad : \A k \in bad : k <= j
      <4>1. bad \in SUBSET Nat /\ \A k \in bad : k <= n
        BY <1>6
      <4> QED
        BY <4>1, <2>1, <1>6, GreatestNumber
    <3>2. j \in 1..n /\ j # n
      BY <1>5, <1>6, <1>0
    <3>3. j + 1 \in 1..n /\ ~(j + 1 <= j) /\ j + 1 \in 1..MaxPage /\ j + 1 # 1 /\ (j + 1) - 1 = j
      BY <3>2, <1>6, <1>0
    <3>4. w[j + 1] # NoPage
      BY <3>1, <3>3
    <3>5. w[j] # NoPage
      BY <1>3, <3>3, <3>4
    <3>6. j \in K
      BY <3>2, <3>5, <1>6, <1>0
    <3> QED
      BY <3>6
  <2>2. \A k \in K : k \in 1..n
    BY <1>5, <1>6
  <2>3. \A k \in 1..n : k \in K
    <3> HIDE DEF K
    <3> QED
      BY <2>1
  <2> HIDE DEF K
  <2> QED
    BY <2>2, <2>3
<1>8. Cardinality(K) = n
  <2>1. Cardinality(1..n) = n
    BY <1>6, FS_Interval
  <2> HIDE DEF K
  <2> QED
    BY <2>1, <1>7
<1>9. /\ Follow(p, next) \in Seq(S) /\ Len(Follow(p, next)) = n
      /\ \A i \in 1..n : Follow(p, next)[i] = w[i]
  <2>1. \A i \in 1..n : w[i] \in S
    BY <1>4, <1>7
  <2>2. /\ SubSeq(w, 1, n) \in Seq(S)
        /\ Len(SubSeq(w, 1, n)) = IF 1 <= n THEN n - 1 + 1 ELSE 0
        /\ \A i \in 1..n - 1 + 1 : SubSeq(w, 1, n)[i] = w[1 + i - 1]
    BY <2>1, <1>6, SubSeqProperties
  <2>3. \A i \in 1..n : 1 + i - 1 = i
    BY <1>6
  <2>4. n - 1 + 1 = n /\ 1 <= n
    BY <1>6
  <2> HIDE DEF K
  <2>5. Follow(p, next) = SubSeq(w, 1, n)
    BY <1>1, <1>8
  <2>6. \A i \in 1..n : SubSeq(w, 1, n)[i] = w[1 + i - 1]
    BY <2>2, <2>4
  <2>7. \A i \in 1..n : SubSeq(w, 1, n)[i] = w[i]
    BY <2>6, <2>3
  <2> QED
    BY <2>2, <2>4, <2>5, <2>7
<1>10. ASSUME NEW i \in 1..n - 1
       PROVE  next[w[i]] # NoPage /\ w[i + 1] = next[w[i]]
  <2>1. i + 1 \in 1..MaxPage /\ i + 1 # 1 /\ (i + 1) - 1 = i /\ i + 1 \in 1..n
    BY <1>6, <1>0
  <2>2. w[i + 1] # NoPage
    BY <2>1, <1>7
  <2>3. w[i + 1] = IF w[i] = NoPage THEN NoPage ELSE next[w[i]]
    BY <2>1, <1>3
  <2> QED
    BY <2>2, <2>3
<1>11. next[w[n]] = NoPage
  <2>1. CASE n < MaxPage
    <3>1. n + 1 \in 1..MaxPage /\ n + 1 # 1 /\ (n + 1) - 1 = n /\ n + 1 \notin 1..n /\ n \in 1..n
      BY <2>1, <1>6, <1>0
    <3>2. w[n + 1] = NoPage /\ w[n] # NoPage
      BY <3>1, <1>7
    <3> QED
      BY <3>1, <3>2, <1>3
  <2>2. CASE n = MaxPage
    <3> SUFFICES ASSUME next[w[n]] # NoPage
                 PROVE  FALSE
      OBVIOUS
    <3>1. n \in K /\ w[n] \in S
      BY <1>4
    <3>2. PICK x : x = next[w[n]] /\ x \in S /\ m[x] < m[w[n]]
      BY <3>1 DEF Downward
    <3> DEFINE bad == {i \in 1..n : ~\A j \in 1..n : i <= j => m[w[j]] <= m[w[i]]}
    <3>3. ASSUME NEW i \in 1..n - 1
          PROVE  m[w[i + 1]] < m[w[i]] /\ m[w[i]] \in Nat /\ m[w[i + 1]] \in Nat
      <4>1. i \in 1..n /\ i + 1 \in 1..n
        BY <1>6
      <4>2. w[i] \in S /\ w[i + 1] \in S
        BY <4>1, <1>4, <1>7
      <4> QED
        BY <4>2, <1>10 DEF Downward
    <3>4. ASSUME bad # {}
          PROVE  FALSE
      <4>1. PICK i \in bad : \A k \in bad : k <= i
        <5>1. bad \in SUBSET Nat /\ \A k \in bad : k <= n
          BY <1>6
        <5> QED
          BY <5>1, <3>4, <1>6, GreatestNumber
      <4>2. PICK j \in 1..n : i <= j /\ ~(m[w[j]] <= m[w[i]])
        OBVIOUS
      <4>3. m[w[i]] \in Nat /\ m[w[j]] \in Nat
        <5>1. i \in K /\ j \in K
          BY <1>7
        <5> QED
          BY <5>1, <1>4 DEF Downward
      <4>4. i # j
        BY <4>2, <4>3
      <4>5. i \in 1..n - 1 /\ i + 1 \in 1..n /\ i + 1 <= j /\ ~(i + 1 <= i)
        BY <4>2, <4>4, <1>6
      <4>6. i + 1 \notin bad
        BY <4>1, <4>5
      <4>7. m[w[j]] <= m[w[i + 1]]
        BY <4>5, <4>6
      <4> QED
        BY <4>2, <4>3, <4>5, <4>7, <3>3
    <3>5. ASSUME NEW i \in 1..n, NEW j \in 1..n, i < j
          PROVE  m[w[j]] < m[w[i]]
      <4>1. i \in 1..n - 1 /\ i + 1 \in 1..n /\ i + 1 <= j
        BY <3>5, <1>6
      <4>2. m[w[j]] <= m[w[i + 1]]
        BY <4>1, <3>4
      <4>3. m[w[j]] \in Nat
        BY <1>4, <1>7 DEF Downward
      <4> QED
        BY <4>1, <4>2, <4>3, <3>3
    <3>6. ASSUME NEW i \in 1..n
          PROVE  w[i] # x
      <4>1. i <= n /\ n \in 1..n
        BY <1>6
      <4>2. m[w[n]] <= m[w[i]]
        BY <4>1, <3>4
      <4>3. m[w[n]] \in Nat /\ m[w[i]] \in Nat
        BY <1>4, <1>7, <4>1 DEF Downward
      <4> QED
        BY <4>2, <4>3, <3>2
    <3>7. IsFiniteSet(Pages) /\ Cardinality(Pages) = n
      BY <2>2, <1>6, FS_Interval DEF Pages
    <3>8. IsFiniteSet(Pages \ {x}) /\ Cardinality(Pages \ {x}) = n - 1
      <4>1. x \in Pages
        BY <3>2, <1>0
      <4> QED
        BY <4>1, <3>7, FS_RemoveElement
    <3>9. IsFiniteSet(1..n) /\ Cardinality(1..n) = n
      BY <1>6, FS_Interval
    <3> DEFINE f == [i \in 1..n |-> w[i]]
    <3>10. f \in [1..n -> Pages \ {x}]
      BY <3>6, <1>4, <1>7, <1>0
    <3>11. n - 1 < n
      BY <1>6
    <3>12. PICK i, j \in 1..n : i # j /\ f[i] = f[j]
      <4> HIDE DEF f
      <4> QED
        BY <3>8, <3>9, <3>10, <3>11, FS_PigeonHole
    <3>13. w[i] = w[j] /\ m[w[i]] \in Nat
      BY <3>12, <1>4, <1>7 DEF Downward
    <3>14. i < j \/ j < i
      BY <3>12, <1>6
    <3>15. m[w[j]] = m[w[i]]
      BY <3>13
    <3>16. m[w[j]] < m[w[i]] \/ m[w[i]] < m[w[j]]
      BY <3>5, <3>14
    <3> QED
      BY <3>13, <3>15, <3>16
  <2> QED
    BY <2>1, <2>2, <1>6, <1>0
<1>12. n \in 1..n /\ 1 \in 1..n /\ \A i \in 1..n - 1 : i \in 1..n /\ i + 1 \in 1..n
  BY <1>6
<1>13. /\ Follow(p, next)[1] = w[1] /\ Follow(p, next)[n] = w[n]
       /\ \A i \in 1..n - 1 : Follow(p, next)[i] = w[i] /\ Follow(p, next)[i + 1] = w[i + 1]
  BY <1>9, <1>12
<1>14. n \in 1..MaxPage
  BY <1>6, <1>0
<1> QED
  BY <1>3, <1>9, <1>10, <1>11, <1>13, <1>14

-----------------------------------------------------------------------------
(***************************************************************************)
(* The inductive invariant.  Every page in use is given what the code never  *)
(* stores: the numbers lo and top between which what is below it lies, where *)
(* its parent takes that to end (reach; it differs from top only for a page  *)
(* that was split and whose parent does not know yet) and its level, 0 for a *)
(* leaf.                                                                    *)
(***************************************************************************)
Nodes == [kind : {"free", "leaf", "internal"}, entries : Seq(Entries),
          children : Seq(Pages), next : Pages \cup {NoPage}]

InUse(nd) == {p \in Pages : nd[p].kind # "free"}

\* What separator i - 1 and separator i leave for child i of n, between a and b.
LowOf(n, a, i) == IF i = 1 THEN a ELSE n.entries[i - 1]
HighOf(n, b, i) == IF i = Len(n.children) THEN b ELSE n.entries[i]

LeafOK(n, a, b) ==
    /\ n.kind = "leaf" /\ n.children = <<>> /\ Ascending(n.entries)
    /\ \A i \in 1..Len(n.entries) : a <= n.entries[i] /\ n.entries[i] < b

InnerOK(n, a, b) ==
    /\ n.kind = "internal" /\ n.next = NoPage /\ Ascending(n.entries)
    /\ Len(n.children) = Len(n.entries) + 1
    /\ \A i \in 1..Len(n.entries) : a < n.entries[i] /\ n.entries[i] < b

ChildrenOK(n, a, b, l, U, lo, reach, lev) ==
    \A i \in 1..Len(n.children) :
        /\ n.children[i] \in U /\ lev[n.children[i]] + 1 = l
        /\ lo[n.children[i]] = LowOf(n, a, i) /\ reach[n.children[i]] = HighOf(n, b, i)

NodeOK(n, a, b, l, U, lo, reach, lev) ==
    /\ (LeafOK(n, a, b) /\ l = 0) \/ InnerOK(n, a, b)
    /\ ChildrenOK(n, a, b, l, U, lo, reach, lev)

Spans(U, lo, top) == \A p \in U : lo[p] < top[p] /\ top[p] <= Top

\* What the pages of one level stand for does not overlap.
Disjoint(U, lo, top, lev) ==
    \A p, q \in U : p # q /\ lev[p] = lev[q] => top[p] <= lo[q] \/ top[q] <= lo[p]

\* The leaf chain leaves nothing out.
Chained(nd, lo, top) ==
    \A p \in InUse(nd) : nd[p].kind = "leaf" =>
        IF nd[p].next = NoPage THEN top[p] = Top
        ELSE /\ nd[p].next \in InUse(nd) /\ nd[nd[p].next].kind = "leaf"
             /\ lo[nd[p].next] = top[p]

Typed(nd, lo, top, reach, lev) ==
    /\ nd \in [Pages -> Nodes]
    /\ lo \in [Pages -> Nat] /\ top \in [Pages -> Nat]
    /\ reach \in [Pages -> Nat] /\ lev \in [Pages -> Nat]

Core(nd, lo, top, reach, lev) ==
    /\ Typed(nd, lo, top, reach, lev)
    /\ Spans(InUse(nd), lo, top)
    /\ Disjoint(InUse(nd), lo, top, lev)
    /\ Chained(nd, lo, top)
    /\ \A p \in InUse(nd) : NodeOK(nd[p], lo[p], top[p], lev[p], InUse(nd), lo, reach, lev)

LEMMA NodeFacts ==
    ASSUME NEW n \in Nodes
    PROVE  /\ n.entries \in Seq(Entries) /\ n.entries \in Seq(Nat) /\ Len(n.entries) \in Nat
           /\ \A i \in 1..Len(n.entries) : n.entries[i] \in Entries /\ n.entries[i] \in Nat
           /\ n.children \in Seq(Pages) /\ Len(n.children) \in Nat
           /\ \A i \in 1..Len(n.children) : n.children[i] \in Pages
           /\ n.next \in Pages \cup {NoPage} /\ n.kind \in {"free", "leaf", "internal"}
<1>1. /\ n.entries \in Seq(Entries) /\ n.children \in Seq(Pages)
      /\ n.next \in Pages \cup {NoPage} /\ n.kind \in {"free", "leaf", "internal"}
  BY DEF Nodes
<1>2. n.entries \in Seq(Nat)
  BY <1>1, EntryBounds, SeqMonotonic
<1>3. /\ Len(n.entries) \in Nat /\ Len(n.children) \in Nat
      /\ \A i \in 1..Len(n.entries) : n.entries[i] \in Entries
      /\ \A i \in 1..Len(n.children) : n.children[i] \in Pages
  BY <1>1, RangeOf
<1> QED
  BY <1>1, <1>2, <1>3, EntryBounds

LEMMA LeafIn ==
    ASSUME NEW s \in Seq(Entries), NEW next \in Pages \cup {NoPage}
    PROVE  /\ Leaf(s, next) \in Nodes /\ Leaf(s, next).kind = "leaf"
           /\ Leaf(s, next).entries = s /\ Leaf(s, next).children = <<>>
           /\ Leaf(s, next).next = next
  BY NoElements DEF Leaf, Nodes

LEMMA InternalIn ==
    ASSUME NEW s \in Seq(Entries), NEW c \in Seq(Pages)
    PROVE  /\ Internal(s, c) \in Nodes /\ Internal(s, c).kind = "internal"
           /\ Internal(s, c).entries = s /\ Internal(s, c).children = c
           /\ Internal(s, c).next = NoPage
  BY DEF Internal, Nodes

LEMMA FreeIn == FreePage \in Nodes /\ FreePage.kind = "free"
  BY NoElements DEF FreePage, Nodes

\* The shares of the children follow one another.
LEMMA Shares ==
    ASSUME NEW n \in Nodes, NEW a \in Nat, NEW b \in Nat, a < b, InnerOK(n, a, b),
           NEW i \in 1..Len(n.children)
    PROVE  /\ LowOf(n, a, i) \in Nat /\ HighOf(n, b, i) \in Nat
           /\ a <= LowOf(n, a, i) /\ LowOf(n, a, i) < HighOf(n, b, i) /\ HighOf(n, b, i) <= b
           /\ \A j \in 1..Len(n.children) : i < j => HighOf(n, b, i) <= LowOf(n, a, j)
<1>1. /\ Len(n.entries) \in Nat /\ Len(n.children) = Len(n.entries) + 1
      /\ \A j \in 1..Len(n.entries) : n.entries[j] \in Nat /\ a < n.entries[j] /\ n.entries[j] < b
  BY NodeFacts DEF InnerOK
<1> DEFINE Share == /\ LowOf(n, a, i) \in Nat /\ HighOf(n, b, i) \in Nat
                    /\ a <= LowOf(n, a, i) /\ LowOf(n, a, i) < HighOf(n, b, i)
                    /\ HighOf(n, b, i) <= b
<1>2. ASSUME i = 1
      PROVE  Share
  <2>1. LowOf(n, a, i) = a
    BY <1>2 DEF LowOf
  <2>2. i # Len(n.children) => i \in 1..Len(n.entries)
    BY <1>1
  <2> QED
    BY <2>1, <2>2, <1>1 DEF HighOf
<1>3. ASSUME i # 1
      PROVE  Share
  <2>1. i - 1 \in 1..Len(n.entries) /\ LowOf(n, a, i) = n.entries[i - 1]
    BY <1>1, <1>3 DEF LowOf
  <2>2. i # Len(n.children) => i \in 1..Len(n.entries) /\ n.entries[i - 1] < n.entries[i]
    BY <1>1, <2>1 DEF InnerOK, Ascending
  <2> QED
    BY <2>1, <2>2, <1>1 DEF HighOf
<1>4. ASSUME NEW j \in 1..Len(n.children), i < j
      PROVE  HighOf(n, b, i) <= LowOf(n, a, j)
  <2>1. i # Len(n.children) /\ j # 1 /\ i \in 1..Len(n.entries) /\ j - 1 \in 1..Len(n.entries) /\ i <= j - 1
    BY <1>1, <1>4
  <2>2. HighOf(n, b, i) = n.entries[i] /\ LowOf(n, a, j) = n.entries[j - 1]
    BY <2>1 DEF HighOf, LowOf
  <2>3. i < j - 1 => n.entries[i] < n.entries[j - 1]
    BY <2>1 DEF InnerOK, Ascending
  <2>4. n.entries[i] \in Nat /\ n.entries[j - 1] \in Nat
    BY <1>1, <2>1
  <2>5. i = j - 1 \/ i < j - 1
    BY <2>1, <1>1
  <2>6. CASE i = j - 1
    BY <2>2, <2>4, <2>6
  <2>7. CASE i < j - 1
    BY <2>2, <2>3, <2>4, <2>7
  <2> QED
    BY <2>5, <2>6, <2>7
<1> QED
  BY <1>2, <1>3, <1>4

\* A node is as good when nothing is said anew of its children.
LEMMA SameChildren ==
    ASSUME NEW n, NEW a, NEW b, NEW l, NEW U, NEW lo, NEW reach, NEW lev,
           NodeOK(n, a, b, l, U, lo, reach, lev),
           NEW U2, NEW lo2, NEW reach2, NEW lev2,
           \A i \in 1..Len(n.children) :
               /\ n.children[i] \in U2 /\ lev2[n.children[i]] = lev[n.children[i]]
               /\ lo2[n.children[i]] = lo[n.children[i]]
               /\ reach2[n.children[i]] = reach[n.children[i]]
    PROVE  NodeOK(n, a, b, l, U2, lo2, reach2, lev2)
  BY DEF NodeOK, ChildrenOK

\* What is known of a page in use.
LEMMA PageFacts ==
    ASSUME NEW nd, NEW lo, NEW top, NEW reach, NEW lev, Core(nd, lo, top, reach, lev),
           NEW p \in InUse(nd)
    PROVE  /\ p \in Pages /\ nd[p] \in Nodes
           /\ lo[p] \in Nat /\ top[p] \in Nat /\ reach[p] \in Nat /\ lev[p] \in Nat
           /\ lo[p] < top[p] /\ top[p] <= Top
           /\ nd[p].kind \in {"leaf", "internal"}
           /\ nd[p].kind = "leaf" => /\ LeafOK(nd[p], lo[p], top[p]) /\ lev[p] = 0
                                     /\ Len(nd[p].children) = 0
           /\ nd[p].kind = "internal" => InnerOK(nd[p], lo[p], top[p]) /\ lev[p] > 0
           /\ ChildrenOK(nd[p], lo[p], top[p], lev[p], InUse(nd), lo, reach, lev)
<1>1. /\ p \in Pages /\ nd[p] \in Nodes
      /\ lo[p] \in Nat /\ top[p] \in Nat /\ reach[p] \in Nat /\ lev[p] \in Nat
      /\ \A q \in Pages : lev[q] \in Nat
  BY DEF Core, Typed, InUse
<1>2. lo[p] < top[p] /\ top[p] <= Top
  BY DEF Core, Spans
<1>3. NodeOK(nd[p], lo[p], top[p], lev[p], InUse(nd), lo, reach, lev)
  BY DEF Core
<1>4. (LeafOK(nd[p], lo[p], top[p]) /\ lev[p] = 0) \/ InnerOK(nd[p], lo[p], top[p])
  BY <1>3 DEF NodeOK
<1>5. nd[p].kind = "leaf" => LeafOK(nd[p], lo[p], top[p]) /\ lev[p] = 0
  BY <1>4 DEF LeafOK, InnerOK
<1>6. nd[p].kind = "internal" => InnerOK(nd[p], lo[p], top[p])
  BY <1>4 DEF LeafOK, InnerOK
<1>7. nd[p].kind \in {"leaf", "internal"}
  BY <1>4 DEF LeafOK, InnerOK
<1>8. ChildrenOK(nd[p], lo[p], top[p], lev[p], InUse(nd), lo, reach, lev)
  BY <1>3 DEF NodeOK
<1>9. ASSUME InnerOK(nd[p], lo[p], top[p])
      PROVE  lev[p] > 0
  <2>1. 1 \in 1..Len(nd[p].children)
    BY <1>9, <1>1, NodeFacts DEF InnerOK
  <2>2. nd[p].children[1] \in Pages /\ lev[nd[p].children[1]] + 1 = lev[p]
    BY <2>1, <1>8 DEF ChildrenOK, InUse
  <2> QED
    BY <2>2, <1>1
<1>10. nd[p].children = <<>> => Len(nd[p].children) = 0
  BY NoElements
<1>11. nd[p].kind = "leaf" => Len(nd[p].children) = 0
  BY <1>5, <1>10 DEF LeafOK
<1> QED
  BY <1>1, <1>2, <1>5, <1>6, <1>7, <1>8, <1>9, <1>11

\* What is known of a child.
LEMMA ChildFacts ==
    ASSUME NEW nd, NEW lo, NEW top, NEW reach, NEW lev, Core(nd, lo, top, reach, lev),
           NEW p \in InUse(nd), NEW i \in 1..Len(nd[p].children)
    PROVE  /\ nd[p].kind = "internal" /\ InnerOK(nd[p], lo[p], top[p])
           /\ nd[p].children[i] \in InUse(nd) /\ lev[nd[p].children[i]] + 1 = lev[p]
           /\ lo[nd[p].children[i]] = LowOf(nd[p], lo[p], i)
           /\ reach[nd[p].children[i]] = HighOf(nd[p], top[p], i)
           /\ lo[p] <= lo[nd[p].children[i]] /\ lo[nd[p].children[i]] < reach[nd[p].children[i]]
           /\ reach[nd[p].children[i]] <= top[p]
<1>1. nd[p].kind = "internal"
  <2>1. ASSUME Len(nd[p].children) = 0
        PROVE  FALSE
    BY <2>1
  <2> QED
    BY <2>1, PageFacts
<1>2. InnerOK(nd[p], lo[p], top[p])
  BY <1>1, PageFacts
<1>3. /\ nd[p].children[i] \in InUse(nd) /\ lev[nd[p].children[i]] + 1 = lev[p]
      /\ lo[nd[p].children[i]] = LowOf(nd[p], lo[p], i)
      /\ reach[nd[p].children[i]] = HighOf(nd[p], top[p], i)
  BY PageFacts DEF ChildrenOK
<1>4. nd[p] \in Nodes /\ lo[p] \in Nat /\ top[p] \in Nat /\ lo[p] < top[p]
  BY PageFacts
<1>5. /\ lo[p] <= LowOf(nd[p], lo[p], i)
      /\ LowOf(nd[p], lo[p], i) < HighOf(nd[p], top[p], i)
      /\ HighOf(nd[p], top[p], i) <= top[p]
  BY <1>2, <1>4, Shares
<1> QED
  BY <1>1, <1>2, <1>3, <1>5

\* Pages of one level that share a number are one page.
LEMMA SamePage ==
    ASSUME NEW nd, NEW lo, NEW top, NEW reach, NEW lev, Core(nd, lo, top, reach, lev),
           NEW p \in InUse(nd), NEW q \in InUse(nd), lev[p] = lev[q],
           NEW x \in Nat, lo[p] <= x, x < top[p], lo[q] <= x, x < top[q]
    PROVE  p = q
<1>1. /\ lo[p] \in Nat /\ top[p] \in Nat /\ lo[q] \in Nat /\ top[q] \in Nat
  BY PageFacts
<1>2. p # q => top[p] <= lo[q] \/ top[q] <= lo[p]
  BY DEF Core, Disjoint
<1> QED
  BY <1>1, <1>2

\* A page has one parent, and one place in it.
LEMMA OneParent ==
    ASSUME NEW nd, NEW lo, NEW top, NEW reach, NEW lev, Core(nd, lo, top, reach, lev),
           NEW p \in InUse(nd), NEW q \in InUse(nd),
           NEW i \in 1..Len(nd[p].children), NEW j \in 1..Len(nd[q].children),
           nd[p].children[i] = nd[q].children[j]
    PROVE  p = q /\ i = j
<1>1. PICK c : c = nd[p].children[i]
  OBVIOUS
<1>2. /\ c \in InUse(nd) /\ lev[c] + 1 = lev[p] /\ lo[p] <= lo[c] /\ lo[c] < reach[c]
      /\ reach[c] <= top[p] /\ lo[c] = LowOf(nd[p], lo[p], i)
      /\ reach[c] = HighOf(nd[p], top[p], i) /\ InnerOK(nd[p], lo[p], top[p])
  BY <1>1, ChildFacts
<1>3. /\ lev[c] + 1 = lev[q] /\ lo[q] <= lo[c]
      /\ reach[c] <= top[q] /\ lo[c] = LowOf(nd[q], lo[q], j)
      /\ reach[c] = HighOf(nd[q], top[q], j)
  BY <1>1, ChildFacts
<1>4. /\ lo[c] \in Nat /\ reach[c] \in Nat
      /\ lo[p] \in Nat /\ top[p] \in Nat /\ lo[q] \in Nat /\ top[q] \in Nat
      /\ nd[p] \in Nodes /\ lo[p] < top[p]
  BY <1>2, PageFacts
<1>5. p = q
  <2>1. lo[c] < top[p] /\ lo[c] < top[q] /\ lev[p] = lev[q]
    BY <1>2, <1>3, <1>4
  <2> QED
    BY <2>1, <1>2, <1>3, <1>4, SamePage
<1>6. i \in Nat /\ j \in Nat
  BY <1>4, NodeFacts
<1>7. ~(i < j)
  <2>1. ASSUME i < j
        PROVE  HighOf(nd[p], top[p], i) <= LowOf(nd[p], lo[p], j)
    BY <2>1, <1>2, <1>4, <1>5, Shares
  <2> QED
    BY <2>1, <1>2, <1>3, <1>4, <1>5
<1>8. ~(j < i)
  <2>1. ASSUME j < i
        PROVE  HighOf(nd[p], top[p], j) <= LowOf(nd[p], lo[p], i)
    BY <2>1, <1>2, <1>4, <1>5, Shares
  <2> QED
    BY <2>1, <1>2, <1>3, <1>4, <1>5
<1> QED
  BY <1>5, <1>6, <1>7, <1>8

-----------------------------------------------------------------------------
(***************************************************************************)
(* The changes the operations are made of.                                  *)
(***************************************************************************)

\* What parents other than p know of their children stays as it is.
Unmoved(nd, p, reach, reach2) ==
    \A q \in InUse(nd) : q # p =>
        \A i \in 1..Len(nd[q].children) : reach2[nd[q].children[i]] = reach[nd[q].children[i]]

\* The entries, or the children, of one page change; what its parent knows of
\* another page changes only for its own children.
LEMMA Replace ==
    ASSUME NEW nd, NEW lo, NEW top, NEW reach, NEW lev, Core(nd, lo, top, reach, lev),
           NEW p \in InUse(nd), NEW reach2 \in [Pages -> Nat], NEW nd2 \in [Pages -> Nodes],
           nd2[p].kind = nd[p].kind, nd2[p].next = nd[p].next,
           NodeOK(nd2[p], lo[p], top[p], lev[p], InUse(nd), lo, reach2, lev),
           Unmoved(nd, p, reach, reach2),
           \A q \in Pages : q # p => nd2[q] = nd[q]
    PROVE  InUse(nd2) = InUse(nd) /\ Core(nd2, lo, top, reach2, lev)
<1>1. \A q \in Pages : nd2[q].kind = nd[q].kind /\ nd2[q].next = nd[q].next
  OBVIOUS
<1>2. InUse(nd2) = InUse(nd)
  BY <1>1 DEF InUse
<1>3. Typed(nd2, lo, top, reach2, lev)
  BY DEF Core, Typed
<1>4. Spans(InUse(nd2), lo, top) /\ Disjoint(InUse(nd2), lo, top, lev)
  BY <1>2 DEF Core
<1>5. Chained(nd2, lo, top)
  <2> SUFFICES ASSUME NEW q \in InUse(nd2), nd2[q].kind = "leaf"
               PROVE  IF nd2[q].next = NoPage THEN top[q] = Top
                      ELSE /\ nd2[q].next \in InUse(nd2) /\ nd2[nd2[q].next].kind = "leaf"
                           /\ lo[nd2[q].next] = top[q]
    BY DEF Chained
  <2>1. q \in InUse(nd) /\ nd[q].kind = "leaf" /\ nd2[q].next = nd[q].next
    BY <1>1, <1>2 DEF InUse
  <2>2. IF nd[q].next = NoPage THEN top[q] = Top
        ELSE /\ nd[q].next \in InUse(nd) /\ nd[nd[q].next].kind = "leaf"
             /\ lo[nd[q].next] = top[q]
    BY <2>1 DEF Core, Chained
  <2>3. nd[q].next \in InUse(nd) => nd2[nd[q].next].kind = nd[nd[q].next].kind
    BY <1>1 DEF InUse
  <2> QED
    BY <1>2, <2>1, <2>2, <2>3
<1>6. ASSUME NEW q \in InUse(nd2)
      PROVE  NodeOK(nd2[q], lo[q], top[q], lev[q], InUse(nd2), lo, reach2, lev)
  <2>1. CASE q = p
    BY <1>2, <2>1
  <2>2. CASE q # p
    <3>1. q \in InUse(nd) /\ nd2[q] = nd[q]
      BY <1>2, <2>2 DEF InUse
    <3>2. NodeOK(nd[q], lo[q], top[q], lev[q], InUse(nd), lo, reach, lev)
      BY <3>1 DEF Core
    <3>3. \A i \in 1..Len(nd[q].children) :
             nd[q].children[i] \in InUse(nd) /\ reach2[nd[q].children[i]] = reach[nd[q].children[i]]
      BY <2>2, <3>1, <3>2 DEF NodeOK, ChildrenOK, Unmoved
    <3>4. NodeOK(nd[q], lo[q], top[q], lev[q], InUse(nd), lo, reach2, lev)
      BY <3>2, <3>3, SameChildren
    <3> QED
      BY <3>1, <3>4, <1>2
  <2> QED
    BY <2>1, <2>2
<1> QED
  BY <1>2, <1>3, <1>4, <1>5, <1>6 DEF Core

HalfOf(nd, lo, top, lev, p, q, n1, n2, s, nd2) ==
    /\ Core(nd, lo, top, top, lev) /\ p \in InUse(nd) /\ q \in Pages /\ q \notin InUse(nd)
    /\ n1 \in Nodes /\ n2 \in Nodes /\ s \in Nat /\ lo[p] < s /\ s < top[p]
    /\ n1.kind = nd[p].kind /\ n2.kind = nd[p].kind
    /\ nd[p].kind = "leaf" => n1.next = q /\ n2.next = nd[p].next
    /\ NodeOK(n1, lo[p], s, lev[p], InUse(nd), lo, top, lev)
    /\ NodeOK(n2, s, top[p], lev[p], InUse(nd), lo, top, lev)
    /\ nd2 \in [Pages -> Nodes] /\ nd2[p] = n1 /\ nd2[q] = n2
    /\ \A r \in Pages : r # p /\ r # q => nd2[r] = nd[r]

\* A page keeps what is below s, a page nobody used gets the rest.
LEMMA Halved ==
    ASSUME NEW nd, NEW lo, NEW top, NEW lev, NEW p, NEW q, NEW n1, NEW n2, NEW s, NEW nd2,
           HalfOf(nd, lo, top, lev, p, q, n1, n2, s, nd2)
    PROVE  /\ InUse(nd2) = InUse(nd) \cup {q}
           /\ Core(nd2, Put(lo, q, s), Put(Put(top, p, s), q, top[p]), Put(top, q, top[p]),
                   Put(lev, q, lev[p]))
<1> USE DEF HalfOf
<1> DEFINE lo2 == Put(lo, q, s)
           top2 == Put(Put(top, p, s), q, top[p])
           reach2 == Put(top, q, top[p])
           lev2 == Put(lev, q, lev[p])
<1>0. /\ p \in Pages /\ p # q /\ nd[p] \in Nodes /\ lo[p] \in Nat /\ top[p] \in Nat /\ lev[p] \in Nat
      /\ nd[p].kind \in {"leaf", "internal"} /\ lo[p] < top[p] /\ top[p] <= Top /\ Top \in Nat
  BY PageFacts, EntryBounds
<1>1. InUse(nd2) = InUse(nd) \cup {q}
  BY <1>0 DEF InUse
<1>2. /\ lo \in [Pages -> Nat] /\ top \in [Pages -> Nat] /\ lev \in [Pages -> Nat]
  BY DEF Core, Typed
<1>3. Typed(nd2, lo2, top2, reach2, lev2)
  BY <1>0, <1>2 DEF Typed, Put
<1>4. /\ lo2[q] = s /\ top2[q] = top[p] /\ reach2[q] = top[p] /\ lev2[q] = lev[p]
      /\ lo2[p] = lo[p] /\ top2[p] = s /\ reach2[p] = top[p] /\ lev2[p] = lev[p]
      /\ \A r \in Pages : r # q => lo2[r] = lo[r] /\ reach2[r] = top[r] /\ lev2[r] = lev[r]
      /\ \A r \in Pages : r # q /\ r # p => top2[r] = top[r]
  BY <1>0, <1>2 DEF Put
<1> HIDE DEF lo2, top2, reach2, lev2
<1>5. \A r \in InUse(nd) : r \in Pages /\ r # q
  BY DEF InUse
<1>6. Spans(InUse(nd2), lo2, top2)
  <2> SUFFICES ASSUME NEW r \in InUse(nd2)
               PROVE  lo2[r] < top2[r] /\ top2[r] <= Top
    BY DEF Spans
  <2>1. CASE r = q
    BY <2>1, <1>0, <1>4
  <2>2. CASE r = p
    BY <2>2, <1>0, <1>4
  <2>3. CASE r # p /\ r # q
    <3>1. r \in InUse(nd) /\ lo2[r] = lo[r] /\ top2[r] = top[r]
      BY <2>3, <1>1, <1>4, <1>5
    <3> QED
      BY <3>1, PageFacts
  <2> QED
    BY <2>1, <2>2, <2>3
<1>7. Disjoint(InUse(nd2), lo2, top2, lev2)
  <2> SUFFICES ASSUME NEW r \in InUse(nd2), NEW t \in InUse(nd2), r # t, lev2[r] = lev2[t]
               PROVE  top2[r] <= lo2[t] \/ top2[t] <= lo2[r]
    BY DEF Disjoint
  <2>1. \A u, v \in InUse(nd) : u # v /\ lev[u] = lev[v] => top[u] <= lo[v] \/ top[v] <= lo[u]
    BY DEF Core, Disjoint
  <2>2. \A u \in InUse(nd) : lo[u] \in Nat /\ top[u] \in Nat /\ lo[u] < top[u]
    BY PageFacts
  <2>3. ASSUME NEW u \in InUse(nd), lev[u] = lev[p], u # p
        PROVE  /\ top2[p] <= lo2[u] \/ top2[u] <= lo2[p]
               /\ top2[q] <= lo2[u] \/ top2[u] <= lo2[q]
    <3>1. top[p] <= lo[u] \/ top[u] <= lo[p]
      BY <2>1, <2>3
    <3>2. lo2[u] = lo[u] /\ top2[u] = top[u] /\ lo[u] \in Nat /\ top[u] \in Nat
      BY <2>2, <2>3, <1>4, <1>5
    <3> QED
      BY <3>1, <3>2, <1>0, <1>4
  <2>4. CASE r \in InUse(nd) /\ t \in InUse(nd)
    <3>1. lev[r] = lev[t]
      BY <2>4, <1>4, <1>5
    <3>2. CASE r = p
      BY <2>3, <2>4, <3>1, <3>2
    <3>3. CASE t = p
      BY <2>3, <2>4, <3>1, <3>3
    <3>4. CASE r # p /\ t # p
      BY <2>1, <2>4, <3>1, <3>4, <1>4, <1>5
    <3> QED
      BY <3>2, <3>3, <3>4
  <2>5. CASE r = q
    <3>1. t \in InUse(nd) /\ lev[t] = lev[p]
      BY <2>5, <1>1, <1>4, <1>5
    <3>2. CASE t = p
      BY <3>2, <2>5, <1>0, <1>4
    <3>3. CASE t # p
      BY <3>1, <3>3, <2>3, <2>5
    <3> QED
      BY <3>2, <3>3
  <2>6. CASE t = q
    <3>1. r \in InUse(nd) /\ lev[r] = lev[p]
      BY <2>6, <1>1, <1>4, <1>5
    <3>2. CASE r = p
      BY <3>2, <2>6, <1>0, <1>4
    <3>3. CASE r # p
      BY <3>1, <3>3, <2>3, <2>6
    <3> QED
      BY <3>2, <3>3
  <2> QED
    BY <2>4, <2>5, <2>6, <1>1
<1>8. Chained(nd2, lo2, top2)
  <2> SUFFICES ASSUME NEW r \in InUse(nd2), nd2[r].kind = "leaf"
               PROVE  IF nd2[r].next = NoPage THEN top2[r] = Top
                      ELSE /\ nd2[r].next \in InUse(nd2) /\ nd2[nd2[r].next].kind = "leaf"
                           /\ lo2[nd2[r].next] = top2[r]
    BY DEF Chained
  <2>1. \A u \in InUse(nd) : nd2[u].kind = nd[u].kind
    BY <1>5
  <2>2. ASSUME NEW u \in InUse(nd), nd[u].kind = "leaf"
        PROVE  IF nd[u].next = NoPage THEN top[u] = Top
               ELSE /\ nd[u].next \in InUse(nd2) /\ nd2[nd[u].next].kind = "leaf"
                    /\ lo2[nd[u].next] = top[u]
    <3>1. IF nd[u].next = NoPage THEN top[u] = Top
          ELSE /\ nd[u].next \in InUse(nd) /\ nd[nd[u].next].kind = "leaf"
               /\ lo[nd[u].next] = top[u]
      BY <2>2 DEF Core, Chained
    <3> QED
      BY <3>1, <2>1, <1>1, <1>4, <1>5
  <2>3. CASE r = q
    <3>1. nd[p].kind = "leaf" /\ nd2[r].next = nd[p].next
      BY <2>3
    <3> QED
      BY <3>1, <2>2, <2>3, <1>4
  <2>4. CASE r = p
    <3>1. nd[p].kind = "leaf" /\ nd2[r].next = q /\ nd2[q].kind = "leaf"
      BY <2>4
    <3>2. q # NoPage /\ q \in InUse(nd2)
      BY <1>1, SizeAssumption
    <3> QED
      BY <3>1, <3>2, <2>4, <1>4
  <2>5. CASE r # q /\ r # p
    <3>1. r \in InUse(nd) /\ nd2[r] = nd[r] /\ top2[r] = top[r]
      BY <2>5, <1>1, <1>4, <1>5
    <3> QED
      BY <3>1, <2>2
  <2> QED
    BY <2>3, <2>4, <2>5
<1>9. ASSUME NEW n, NEW a, NEW b, NEW l, NodeOK(n, a, b, l, InUse(nd), lo, top, lev)
      PROVE  NodeOK(n, a, b, l, InUse(nd2), lo2, reach2, lev2)
  <2>1. \A i \in 1..Len(n.children) : n.children[i] \in InUse(nd)
    BY <1>9 DEF NodeOK, ChildrenOK
  <2>2. \A i \in 1..Len(n.children) :
           /\ n.children[i] \in InUse(nd2) /\ lev2[n.children[i]] = lev[n.children[i]]
           /\ lo2[n.children[i]] = lo[n.children[i]]
           /\ reach2[n.children[i]] = top[n.children[i]]
    BY <2>1, <1>1, <1>4, <1>5
  <2> QED
    BY <2>2, <1>9, SameChildren
<1>10. ASSUME NEW r \in InUse(nd2)
       PROVE  NodeOK(nd2[r], lo2[r], top2[r], lev2[r], InUse(nd2), lo2, reach2, lev2)
  <2>1. CASE r = q
    BY <2>1, <1>4, <1>9
  <2>2. CASE r = p
    BY <2>2, <1>4, <1>9
  <2>3. CASE r # p /\ r # q
    <3>1. r \in InUse(nd) /\ lo2[r] = lo[r] /\ top2[r] = top[r] /\ lev2[r] = lev[r] /\ nd2[r] = nd[r]
      BY <2>3, <1>1, <1>4, <1>5
    <3>2. NodeOK(nd[r], lo[r], top[r], lev[r], InUse(nd), lo, top, lev)
      BY <3>1 DEF Core
    <3> QED
      BY <3>1, <3>2, <1>9
  <2> QED
    BY <2>1, <2>2, <2>3
<1>11. Core(nd2, lo2, top2, reach2, lev2)
  BY <1>3, <1>6, <1>7, <1>8, <1>10 DEF Core
<1> QED
  BY <1>1, <1>11 DEF lo2, top2, reach2, lev2

(***************************************************************************)
(* Separators taken in, replaced and given up.                              *)
(***************************************************************************)

\* A separator within the share of child i, with a new child behind it.
Gains(n3, n, a, b, i, s, x) ==
    /\ InnerOK(n3, a, b) /\ Len(n3.children) = Len(n.children) + 1
    /\ Len(n3.entries) = Len(n.entries) + 1
    /\ \A j \in 1..Len(n.entries) + 1 :
         n3.entries[j] = IF j < i THEN n.entries[j] ELSE IF j = i THEN s ELSE n.entries[j - 1]
    /\ \A j \in 1..Len(n3.children) :
         /\ n3.children[j] = IF j < i + 1 THEN n.children[j] ELSE IF j = i + 1 THEN x
                             ELSE n.children[j - 1]
         /\ LowOf(n3, a, j) = IF j < i + 1 THEN LowOf(n, a, j) ELSE IF j = i + 1 THEN s
                              ELSE LowOf(n, a, j - 1)
         /\ HighOf(n3, b, j) = IF j < i THEN HighOf(n, b, j) ELSE IF j = i THEN s
                               ELSE HighOf(n, b, j - 1)

LEMMA TakenIn ==
    ASSUME NEW n \in Nodes, NEW a \in Nat, NEW b \in Nat, a < b, InnerOK(n, a, b),
           NEW i \in 1..Len(n.children), NEW s \in Entries, NEW x \in Pages,
           LowOf(n, a, i) < s, s < HighOf(n, b, i),
           NEW n3 \in Nodes, n3.kind = "internal", n3.next = NoPage,
           n3.entries = InsertAt(n.entries, i, s), n3.children = InsertAt(n.children, i + 1, x)
    PROVE  Gains(n3, n, a, b, i, s, x)
<1>1. /\ Len(n.entries) \in Nat /\ Len(n.children) = Len(n.entries) + 1
      /\ n.entries \in Seq(Entries) /\ n.children \in Seq(Pages)
      /\ \A j \in 1..Len(n.entries) : n.entries[j] \in Nat /\ a < n.entries[j] /\ n.entries[j] < b
  BY NodeFacts DEF InnerOK
<1>2. i \in 1..Len(n.entries) + 1 /\ i + 1 \in 1..Len(n.children) + 1 /\ s \in Nat
  BY <1>1, EntryBounds
<1>3. /\ Len(n3.entries) = Len(n.entries) + 1
      /\ \A j \in 1..Len(n.entries) + 1 :
           n3.entries[j] = IF j < i THEN n.entries[j] ELSE IF j = i THEN s ELSE n.entries[j - 1]
  <2>1. PICK t \in Seq(Entries) : t = n.entries
    BY <1>1
  <2>2. i \in 1..Len(t) + 1
    BY <2>1, <1>2
  <2>3. /\ Len(InsertAt(t, i, s)) = Len(t) + 1
        /\ \A j \in 1..Len(t) + 1 :
             InsertAt(t, i, s)[j] = IF j < i THEN t[j] ELSE IF j = i THEN s ELSE t[j - 1]
    BY <2>2, InsertedAt
  <2> QED
    BY <2>1, <2>3
<1>4. /\ Len(n3.children) = Len(n.children) + 1
      /\ \A j \in 1..Len(n.children) + 1 :
           n3.children[j] = IF j < i + 1 THEN n.children[j] ELSE IF j = i + 1 THEN x
                            ELSE n.children[j - 1]
  <2>1. PICK t \in Seq(Pages), k \in Nat : t = n.children /\ k = i + 1
    BY <1>1, <1>2
  <2>2. k \in 1..Len(t) + 1
    BY <2>1, <1>2
  <2>3. /\ Len(InsertAt(t, k, x)) = Len(t) + 1
        /\ \A j \in 1..Len(t) + 1 :
             InsertAt(t, k, x)[j] = IF j < k THEN t[j] ELSE IF j = k THEN x ELSE t[j - 1]
    BY <2>2, InsertedAt
  <2> QED
    BY <2>1, <2>3
<1>5. a <= LowOf(n, a, i) /\ HighOf(n, b, i) <= b /\ LowOf(n, a, i) \in Nat /\ HighOf(n, b, i) \in Nat
  BY Shares
<1>6. /\ i > 1 => n.entries[i - 1] < s /\ i - 1 \in 1..Len(n.entries)
      /\ i <= Len(n.entries) => s < n.entries[i] /\ i \in 1..Len(n.entries)
  BY <1>1, <1>2 DEF LowOf, HighOf
<1>7. \A j \in 1..Len(n.entries) : j < i => n.entries[j] < s
  <2> TAKE j \in 1..Len(n.entries)
  <2> HAVE j < i
  <2>1. i > 1 /\ j <= i - 1 /\ (j = i - 1 \/ j < i - 1)
    BY <1>1
  <2>2. j < i - 1 => n.entries[j] < n.entries[i - 1]
    BY <2>1, <1>6 DEF InnerOK, Ascending
  <2>3. n.entries[j] \in Nat /\ n.entries[i - 1] \in Nat
    BY <2>1, <1>1, <1>6
  <2>4. CASE j = i - 1
    BY <2>1, <2>4, <1>6
  <2>5. CASE j < i - 1
    BY <2>1, <2>2, <2>3, <2>5, <1>2, <1>6, SMTT(30)
  <2> QED
    BY <2>1, <2>4, <2>5
<1>8. \A j \in 1..Len(n.entries) : i <= j => s < n.entries[j]
  <2> TAKE j \in 1..Len(n.entries)
  <2> HAVE i <= j
  <2>1. i <= Len(n.entries) /\ (j = i \/ i < j)
    BY <1>1
  <2>2. i < j => n.entries[i] < n.entries[j]
    BY <2>1, <1>6 DEF InnerOK, Ascending
  <2>3. n.entries[j] \in Nat /\ n.entries[i] \in Nat
    BY <2>1, <1>1, <1>6
  <2>4. CASE j = i
    BY <2>1, <2>4, <1>6
  <2>5. CASE i < j
    BY <2>1, <2>2, <2>3, <2>5, <1>2, <1>6
  <2> QED
    BY <2>1, <2>4, <2>5
<1>9. ASSUME NEW j \in 1..Len(n3.entries)
      PROVE  a < n3.entries[j] /\ n3.entries[j] < b
  <2>1. j \in 1..Len(n.entries) + 1 /\ j \in Int /\ i \in Int
    BY <1>3, <1>2, <1>1
  <2>2. CASE j < i
    <3>1. j \in 1..Len(n.entries) /\ n3.entries[j] = n.entries[j]
      BY <2>1, <2>2, <1>1, <1>2, <1>3
    <3> QED
      BY <3>1, <1>1
  <2>3. CASE j = i
    BY <2>1, <2>3, <1>2, <1>3, <1>5
  <2>4. CASE i < j
    <3>1. j - 1 \in 1..Len(n.entries) /\ n3.entries[j] = n.entries[j - 1]
      BY <2>1, <2>4, <1>1, <1>2, <1>3
    <3> QED
      BY <3>1, <1>1
  <2> QED
    BY <2>1, <2>2, <2>3, <2>4
<1>10. ASSUME NEW j \in 1..Len(n3.entries), NEW k \in 1..Len(n3.entries), j < k
       PROVE  n3.entries[j] < n3.entries[k]
  <2>1. j \in 1..Len(n.entries) + 1 /\ k \in 1..Len(n.entries) + 1 /\ j \in Int /\ k \in Int /\ i \in Int
    BY <1>3, <1>2, <1>1
  <2>2. CASE k < i
    <3>1. j \in 1..Len(n.entries) /\ k \in 1..Len(n.entries) /\ j < i
      BY <2>1, <2>2, <1>1, <1>2, <1>10
    <3>2. n3.entries[j] = n.entries[j] /\ n3.entries[k] = n.entries[k]
      BY <2>1, <2>2, <3>1, <1>3
    <3> QED
      BY <3>1, <3>2, <1>10 DEF InnerOK, Ascending
  <2>3. CASE k = i
    <3>1. j \in 1..Len(n.entries) /\ j < i /\ n3.entries[j] = n.entries[j] /\ n3.entries[k] = s
      BY <2>1, <2>3, <1>1, <1>2, <1>10, <1>3
    <3> QED
      BY <3>1, <1>7
  <2>4. CASE i < k
    <3>1. k - 1 \in 1..Len(n.entries) /\ n3.entries[k] = n.entries[k - 1] /\ i <= k - 1
      BY <2>1, <2>4, <1>1, <1>2, <1>3
    <3>2. CASE j < i
      <4>1. j \in 1..Len(n.entries) /\ n3.entries[j] = n.entries[j] /\ j < k - 1
        BY <2>1, <3>1, <3>2, <1>1, <1>2, <1>3
      <4> QED
        BY <4>1, <3>1 DEF InnerOK, Ascending
    <3>3. CASE j = i
      <4>1. n3.entries[j] = s
        BY <2>1, <3>3, <1>3
      <4> QED
        BY <4>1, <3>1, <1>8
    <3>4. CASE i < j
      <4>1. j - 1 \in 1..Len(n.entries) /\ j - 1 < k - 1 /\ ~(j < i) /\ j # i
        BY <2>1, <3>4, <1>1, <1>2, <1>10, SMTT(30)
      <4>2. n3.entries[j] = n.entries[j - 1]
        BY <2>1, <4>1, <1>3
      <4> QED
        BY <4>1, <4>2, <3>1 DEF InnerOK, Ascending
    <3> QED
      BY <2>1, <3>2, <3>3, <3>4
  <2> QED
    BY <2>1, <2>2, <2>3, <2>4
<1>11. Len(n3.children) = Len(n3.entries) + 1
  BY <1>1, <1>3, <1>4
<1>12. InnerOK(n3, a, b)
  BY <1>9, <1>10, <1>11 DEF InnerOK, Ascending
<1>13. ASSUME NEW j \in 1..Len(n3.children)
       PROVE  LowOf(n3, a, j) = IF j < i + 1 THEN LowOf(n, a, j) ELSE IF j = i + 1 THEN s
                                ELSE LowOf(n, a, j - 1)
  <2>1. j \in Int /\ i \in Int /\ i >= 1 /\ (j # 1 => j - 1 \in 1..Len(n.entries) + 1)
    BY <1>1, <1>2, <1>4
  <2>2. CASE j = 1
    BY <2>1, <2>2 DEF LowOf
  <2>3. CASE j # 1 /\ j < i + 1
    <3>1. n3.entries[j - 1] = n.entries[j - 1]
      BY <2>1, <2>3, <1>3
    <3> QED
      BY <2>3, <3>1 DEF LowOf
  <2>4. CASE j = i + 1
    <3>1. j # 1 /\ j - 1 = i /\ n3.entries[i] = s /\ ~(j < i + 1)
      BY <2>1, <2>4, <1>2, <1>3
    <3> QED
      BY <2>4, <3>1 DEF LowOf
  <2>5. CASE i + 1 < j
    <3>1. j # 1 /\ j - 1 # 1 /\ ~(j - 1 < i) /\ j - 1 # i /\ j # i + 1 /\ ~(j < i + 1)
      BY <2>1, <2>5
    <3>2. n3.entries[j - 1] = n.entries[(j - 1) - 1]
      BY <2>1, <3>1, <1>3
    <3> QED
      BY <3>1, <3>2 DEF LowOf
  <2> QED
    BY <2>1, <2>2, <2>3, <2>4, <2>5
<1>14. ASSUME NEW j \in 1..Len(n3.children)
       PROVE  HighOf(n3, b, j) = IF j < i THEN HighOf(n, b, j) ELSE IF j = i THEN s
                                 ELSE HighOf(n, b, j - 1)
  <2>1. j \in Int /\ i \in Int /\ i >= 1 /\ (j # Len(n3.children) => j \in 1..Len(n.entries) + 1)
    BY <1>1, <1>2, <1>4
  <2>2. CASE j < i
    <3>1. j # Len(n3.children) /\ j # Len(n.children) /\ n3.entries[j] = n.entries[j]
      BY <2>1, <2>2, <1>1, <1>2, <1>3, <1>4
    <3> QED
      BY <2>2, <3>1 DEF HighOf
  <2>3. CASE j = i
    <3>1. j # Len(n3.children) /\ n3.entries[j] = s /\ ~(j < i)
      BY <2>1, <2>3, <1>1, <1>2, <1>3, <1>4
    <3> QED
      BY <2>3, <3>1 DEF HighOf
  <2>4. CASE i < j
    <3>0. ~(j < i) /\ j # i
      BY <2>1, <2>4
    <3>1. j = Len(n3.children) <=> j - 1 = Len(n.children)
      <4>1. PICK c : c = Len(n.children)
        OBVIOUS
      <4>2. c \in Nat /\ Len(n3.children) = c + 1
        BY <4>1, <1>1, <1>4
      <4> QED
        BY <4>1, <4>2, <2>1
    <3>2. j # Len(n3.children) => n3.entries[j] = n.entries[j - 1]
      BY <2>1, <3>0, <1>3
    <3> QED
      BY <3>0, <3>1, <3>2 DEF HighOf
  <2> QED
    BY <2>1, <2>2, <2>3, <2>4
<1> QED
  BY <1>3, <1>4, <1>12, <1>13, <1>14 DEF Gains

\* Separator l replaced by one within what its two neighbours share.
LEMMA Moved ==
    ASSUME NEW n \in Nodes, NEW a \in Nat, NEW b \in Nat, a < b, InnerOK(n, a, b),
           NEW l \in 1..Len(n.entries), NEW s \in Entries,
           LowOf(n, a, l) < s, s < HighOf(n, b, l + 1),
           NEW n3 \in Nodes, n3.kind = "internal", n3.next = NoPage,
           n3.entries = Put(n.entries, l, s), n3.children = n.children
    PROVE  /\ InnerOK(n3, a, b)
           /\ \A j \in 1..Len(n3.children) :
                /\ LowOf(n3, a, j) = IF j = l + 1 THEN s ELSE LowOf(n, a, j)
                /\ HighOf(n3, b, j) = IF j = l THEN s ELSE HighOf(n, b, j)
<1>1. /\ Len(n.entries) \in Nat /\ Len(n.children) = Len(n.entries) + 1
      /\ n.entries \in Seq(Entries) /\ l \in Nat /\ s \in Nat
      /\ \A j \in 1..Len(n.entries) : n.entries[j] \in Nat /\ a < n.entries[j] /\ n.entries[j] < b
  BY NodeFacts, EntryBounds DEF InnerOK
<1>2. /\ Len(n3.entries) = Len(n.entries)
      /\ \A j \in 1..Len(n.entries) : n3.entries[j] = IF j = l THEN s ELSE n.entries[j]
  BY <1>1, ExceptSeq DEF Put
<1>3. l \in 1..Len(n.children) /\ l + 1 \in 1..Len(n.children)
  BY <1>1
<1>4. /\ a <= LowOf(n, a, l) /\ LowOf(n, a, l) \in Nat
      /\ HighOf(n, b, l + 1) <= b /\ HighOf(n, b, l + 1) \in Nat
  BY <1>3, Shares
<1>5. ASSUME NEW j \in 1..Len(n.entries), j < l
      PROVE  n.entries[j] < s
  <2>1. l # 1 /\ l - 1 \in 1..Len(n.entries) /\ LowOf(n, a, l) = n.entries[l - 1] /\ j <= l - 1
    BY <1>1, <1>5 DEF LowOf
  <2>2. j < l - 1 => n.entries[j] < n.entries[l - 1]
    BY <2>1 DEF InnerOK, Ascending
  <2>3. n.entries[j] \in Nat /\ n.entries[l - 1] \in Nat
    BY <1>1, <2>1
  <2>4. j = l - 1 \/ j < l - 1
    BY <2>1, <1>1
  <2>5. CASE j = l - 1
    BY <2>1, <2>5
  <2>6. CASE j < l - 1
    BY <2>1, <2>2, <2>3, <2>6, <1>1
  <2> QED
    BY <2>4, <2>5, <2>6
<1>6. ASSUME NEW j \in 1..Len(n.entries), l < j
      PROVE  s < n.entries[j]
  <2>1. l + 1 # Len(n.children) /\ l + 1 \in 1..Len(n.entries) /\ HighOf(n, b, l + 1) = n.entries[l + 1]
        /\ l + 1 <= j
    BY <1>1, <1>6 DEF HighOf
  <2>2. l + 1 < j => n.entries[l + 1] < n.entries[j]
    BY <2>1 DEF InnerOK, Ascending
  <2>3. n.entries[j] \in Nat /\ n.entries[l + 1] \in Nat
    BY <1>1, <2>1
  <2>4. j = l + 1 \/ l + 1 < j
    BY <2>1, <1>1
  <2>5. CASE j = l + 1
    BY <2>1, <2>5
  <2>6. CASE l + 1 < j
    BY <2>1, <2>2, <2>3, <2>6, <1>1
  <2> QED
    BY <2>4, <2>5, <2>6
<1>7. \A j \in 1..Len(n3.entries) : a < n3.entries[j] /\ n3.entries[j] < b
  BY <1>1, <1>2, <1>4
<1>8. ASSUME NEW j \in 1..Len(n3.entries), NEW k \in 1..Len(n3.entries), j < k
      PROVE  n3.entries[j] < n3.entries[k]
  <2>1. CASE j = l
    BY <2>1, <1>2, <1>6, <1>8
  <2>2. CASE k = l
    BY <2>2, <1>2, <1>5, <1>8
  <2>3. CASE j # l /\ k # l
    BY <2>3, <1>2, <1>8 DEF InnerOK, Ascending
  <2> QED
    BY <2>1, <2>2, <2>3
<1>9. InnerOK(n3, a, b)
  BY <1>1, <1>2, <1>7, <1>8 DEF InnerOK, Ascending
<1>10. ASSUME NEW j \in 1..Len(n3.children)
       PROVE  /\ LowOf(n3, a, j) = IF j = l + 1 THEN s ELSE LowOf(n, a, j)
              /\ HighOf(n3, b, j) = IF j = l THEN s ELSE HighOf(n, b, j)
  <2>1. j # 1 => j - 1 \in 1..Len(n.entries) /\ (j - 1 = l <=> j = l + 1)
    BY <1>1
  <2>2. l + 1 # 1 /\ l # Len(n.children)
    BY <1>1
  <2>3. j # Len(n.children) => j \in 1..Len(n.entries)
    BY <1>1
  <2>4. LowOf(n3, a, j) = IF j = l + 1 THEN s ELSE LowOf(n, a, j)
    BY <2>1, <2>2, <1>2 DEF LowOf
  <2>5. HighOf(n3, b, j) = IF j = l THEN s ELSE HighOf(n, b, j)
    BY <2>2, <2>3, <1>2 DEF HighOf
  <2> QED
    BY <2>4, <2>5
<1> QED
  BY <1>9, <1>10

\* Separator l and the child behind it given up.
Lacks(n3, n, a, b, l) ==
    /\ InnerOK(n3, a, b) /\ Len(n3.entries) = Len(n.entries) - 1
    /\ Len(n3.children) = Len(n.children) - 1
    /\ \A j \in 1..Len(n3.children) :
         /\ n3.children[j] = IF j < l + 1 THEN n.children[j] ELSE n.children[j + 1]
         /\ LowOf(n3, a, j) = IF j < l + 1 THEN LowOf(n, a, j) ELSE LowOf(n, a, j + 1)
         /\ HighOf(n3, b, j) = IF j < l THEN HighOf(n, b, j) ELSE HighOf(n, b, j + 1)

LEMMA GivenUp ==
    ASSUME NEW n \in Nodes, NEW a \in Nat, NEW b \in Nat, a < b, InnerOK(n, a, b),
           NEW l \in 1..Len(n.entries),
           NEW n3 \in Nodes, n3.kind = "internal", n3.next = NoPage,
           n3.entries = RemoveAt(n.entries, l), n3.children = RemoveAt(n.children, l + 1)
    PROVE  Lacks(n3, n, a, b, l)
<1>1. /\ Len(n.entries) \in Nat /\ Len(n.children) = Len(n.entries) + 1
      /\ n.entries \in Seq(Entries) /\ n.children \in Seq(Pages) /\ l \in Nat /\ l >= 1
      /\ \A j \in 1..Len(n.entries) : n.entries[j] \in Nat /\ a < n.entries[j] /\ n.entries[j] < b
  BY NodeFacts DEF InnerOK
<1>2. /\ Len(n3.entries) = Len(n.entries) - 1
      /\ \A j \in 1..Len(n.entries) - 1 : n3.entries[j] = IF j < l THEN n.entries[j] ELSE n.entries[j + 1]
  <2>1. PICK t \in Seq(Entries) : t = n.entries
    BY <1>1
  <2>2. l \in 1..Len(t)
    BY <2>1
  <2>3. /\ Len(RemoveAt(t, l)) = Len(t) - 1
        /\ \A i \in 1..Len(t) - 1 : RemoveAt(t, l)[i] = IF i < l THEN t[i] ELSE t[i + 1]
    BY <2>2, RemovedAt
  <2> QED
    BY <2>1, <2>3
<1>3. /\ Len(n3.children) = Len(n.children) - 1
      /\ \A j \in 1..Len(n.children) - 1 :
           n3.children[j] = IF j < l + 1 THEN n.children[j] ELSE n.children[j + 1]
  <2>1. PICK t \in Seq(Pages), k \in Nat : t = n.children /\ k = l + 1
    BY <1>1
  <2>2. k \in 1..Len(t)
    BY <2>1, <1>1
  <2>3. /\ Len(RemoveAt(t, k)) = Len(t) - 1
        /\ \A i \in 1..Len(t) - 1 : RemoveAt(t, k)[i] = IF i < k THEN t[i] ELSE t[i + 1]
    BY <2>2, RemovedAt
  <2> QED
    BY <2>1, <2>3
<1>4. ASSUME NEW j \in 1..Len(n3.entries)
      PROVE  a < n3.entries[j] /\ n3.entries[j] < b
  <2>1. j \in 1..Len(n.entries) - 1 /\ j \in 1..Len(n.entries) /\ j + 1 \in 1..Len(n.entries)
    BY <1>1, <1>2
  <2>2. n3.entries[j] = n.entries[j] \/ n3.entries[j] = n.entries[j + 1]
    BY <2>1, <1>2
  <2> QED
    BY <2>1, <2>2, <1>1
<1>5. ASSUME NEW j \in 1..Len(n3.entries), NEW k \in 1..Len(n3.entries), j < k
      PROVE  n3.entries[j] < n3.entries[k]
  <2>1. PICK g \in 1..Len(n.entries) : n3.entries[j] = n.entries[g] /\ g = IF j < l THEN j ELSE j + 1
    <3>1. j \in 1..Len(n.entries) - 1 /\ j \in 1..Len(n.entries) /\ j + 1 \in 1..Len(n.entries)
      BY <1>1, <1>2
    <3> QED
      BY <3>1, <1>2
  <2>2. PICK h \in 1..Len(n.entries) : n3.entries[k] = n.entries[h] /\ h = IF k < l THEN k ELSE k + 1
    <3>1. k \in 1..Len(n.entries) - 1 /\ k \in 1..Len(n.entries) /\ k + 1 \in 1..Len(n.entries)
      BY <1>1, <1>2
    <3> QED
      BY <3>1, <1>2
  <2>3. g < h
    <3>1. j \in Int /\ k \in Int
      BY <1>2
    <3> QED
      BY <2>1, <2>2, <3>1, <1>5, <1>1
  <2> QED
    BY <2>1, <2>2, <2>3 DEF InnerOK, Ascending
<1>6. Len(n3.children) = Len(n3.entries) + 1
  BY <1>1, <1>2, <1>3
<1>7. InnerOK(n3, a, b)
  BY <1>4, <1>5, <1>6 DEF InnerOK, Ascending
<1>8. ASSUME NEW j \in 1..Len(n3.children)
      PROVE  LowOf(n3, a, j) = IF j < l + 1 THEN LowOf(n, a, j) ELSE LowOf(n, a, j + 1)
  <2>1. j \in Int /\ j >= 1 /\ (j # 1 => j - 1 \in 1..Len(n.entries) - 1)
    BY <1>1, <1>3
  <2>2. CASE j = 1
    BY <2>2, <1>1 DEF LowOf
  <2>3. CASE j # 1 /\ j < l + 1
    <3>1. j - 1 < l
      BY <2>1, <2>3, <1>1
    <3>2. n3.entries[j - 1] = n.entries[j - 1]
      BY <2>1, <2>3, <3>1, <1>2
    <3> QED
      BY <2>3, <3>2 DEF LowOf
  <2>4. CASE ~(j < l + 1)
    <3>1. ~(j - 1 < l) /\ j # 1 /\ j + 1 # 1 /\ (j - 1) + 1 = (j + 1) - 1
      BY <2>1, <2>4, <1>1
    <3>2. n3.entries[j - 1] = n.entries[(j + 1) - 1]
      BY <2>1, <3>1, <1>2
    <3> QED
      BY <2>4, <3>1, <3>2 DEF LowOf
  <2> QED
    BY <2>2, <2>3, <2>4
<1>9. ASSUME NEW j \in 1..Len(n3.children)
      PROVE  HighOf(n3, b, j) = IF j < l THEN HighOf(n, b, j) ELSE HighOf(n, b, j + 1)
  <2>0. PICK c \in Nat : c = Len(n.children) /\ Len(n3.children) = c - 1 /\ Len(n.entries) = c - 1
    <3>1. Len(n.children) \in Nat /\ Len(n.entries) = Len(n.children) - 1
      BY <1>1
    <3> QED
      BY <3>1, <1>3
  <2>1. j \in Int /\ j >= 1 /\ j <= c - 1 /\ l <= c - 1 /\ (j # c - 1 => j \in 1..Len(n.entries) - 1)
    BY <2>0, <1>1
  <2>2. CASE j < l
    <3>1. j # c - 1 /\ j # c
      BY <2>1, <2>2, <2>0, <1>1
    <3>2. n3.entries[j] = n.entries[j]
      BY <2>1, <2>2, <3>1, <1>2
    <3> QED
      BY <2>0, <2>2, <3>1, <3>2 DEF HighOf
  <2>3. CASE ~(j < l)
    <3>1. j + 1 = c <=> j = c - 1
      BY <2>0, <2>1
    <3>2. j # c - 1 => n3.entries[j] = n.entries[j + 1]
      BY <2>1, <2>3, <1>2
    <3> QED
      BY <2>0, <2>3, <3>1, <3>2 DEF HighOf
  <2> QED
    BY <2>2, <2>3
<1> QED
  BY <1>2, <1>3, <1>7, <1>8, <1>9 DEF Lacks

\* Two neighbours below p, with separator l between them.
Neighbours(nd, lo, top, lev, p, l, left, right) ==
    /\ left \in InUse(nd) /\ right \in InUse(nd) /\ left # right /\ p # left /\ p # right
    /\ lev[left] = lev[right] /\ lev[left] + 1 = lev[p]
    /\ top[left] = nd[p].entries[l] /\ lo[right] = nd[p].entries[l]
    /\ lo[left] = LowOf(nd[p], lo[p], l) /\ top[right] = HighOf(nd[p], top[p], l + 1)
    /\ nd[left].kind = nd[right].kind
    /\ nd[left].kind = "leaf" =>
         /\ nd[left].next = right
         /\ \A r \in InUse(nd) : nd[r].kind = "leaf" /\ nd[r].next = right => r = left
    /\ \A q \in InUse(nd) : \A i \in 1..Len(nd[q].children) :
         /\ nd[q].children[i] = left => q = p /\ i = l
         /\ nd[q].children[i] = right => q = p /\ i = l + 1

LEMMA NeighboursOf ==
    ASSUME NEW nd, NEW lo, NEW top, NEW lev, Core(nd, lo, top, top, lev),
           NEW p \in InUse(nd), nd[p].kind = "internal", NEW l \in 1..Len(nd[p].entries),
           NEW left, NEW right, left = nd[p].children[l], right = nd[p].children[l + 1]
    PROVE  Neighbours(nd, lo, top, lev, p, l, left, right)
<1>1. /\ InnerOK(nd[p], lo[p], top[p]) /\ nd[p] \in Nodes /\ p \in Pages
      /\ lo[p] \in Nat /\ top[p] \in Nat /\ lev[p] \in Nat
  BY PageFacts
<1>2. Len(nd[p].children) = Len(nd[p].entries) + 1 /\ Len(nd[p].entries) \in Nat
  BY <1>1, NodeFacts DEF InnerOK
<1>3. /\ l \in 1..Len(nd[p].children) /\ l + 1 \in 1..Len(nd[p].children) /\ l # l + 1
      /\ l # Len(nd[p].children) /\ l + 1 # 1 /\ (l + 1) - 1 = l
  BY <1>2
<1>4. /\ left \in InUse(nd) /\ lev[left] + 1 = lev[p] /\ lo[left] = LowOf(nd[p], lo[p], l)
      /\ top[left] = HighOf(nd[p], top[p], l)
  BY <1>3, ChildFacts
<1>5. /\ right \in InUse(nd) /\ lev[right] + 1 = lev[p] /\ lo[right] = LowOf(nd[p], lo[p], l + 1)
      /\ top[right] = HighOf(nd[p], top[p], l + 1)
  BY <1>3, ChildFacts
<1>6. top[left] = nd[p].entries[l] /\ lo[right] = nd[p].entries[l]
  BY <1>3, <1>4, <1>5 DEF LowOf, HighOf
<1>7. /\ lev[left] \in Nat /\ lev[right] \in Nat /\ lo[left] \in Nat /\ top[left] \in Nat
      /\ lo[right] \in Nat /\ top[right] \in Nat
      /\ lo[left] < top[left] /\ lo[right] < top[right] /\ top[right] <= Top /\ Top \in Nat
  <2>1. lev[left] \in Nat /\ lo[left] \in Nat /\ top[left] \in Nat /\ lo[left] < top[left]
    BY <1>4, PageFacts
  <2>2. /\ lev[right] \in Nat /\ lo[right] \in Nat /\ top[right] \in Nat /\ lo[right] < top[right]
        /\ top[right] <= Top
    BY <1>5, PageFacts
  <2>3. Top \in Nat
    BY EntryBounds
  <2> QED
    BY <2>1, <2>2, <2>3
<1>8. lev[left] = lev[right] /\ left # right /\ p # left /\ p # right
  <2>1. lev[left] = lev[right]
    <3>1. lev[left] + 1 = lev[right] + 1 /\ lev[left] \in Nat /\ lev[right] \in Nat
      BY <1>4, <1>5, <1>7
    <3> QED
      BY <3>1
  <2>2. left # right
    BY <1>6, <1>7
  <2>3. p # left
    BY <1>4, <1>7
  <2>4. p # right
    BY <1>5, <1>7
  <2> QED
    BY <2>1, <2>2, <2>3, <2>4
<1>9. nd[left].kind = nd[right].kind
  <2>1. nd[left].kind \in {"leaf", "internal"} /\ nd[right].kind \in {"leaf", "internal"}
    BY <1>4, <1>5, PageFacts
  <2>2. /\ nd[left].kind = "leaf" => lev[left] = 0
        /\ nd[left].kind = "internal" => lev[left] > 0
    BY <1>4, PageFacts
  <2>3. /\ nd[right].kind = "leaf" => lev[right] = 0
        /\ nd[right].kind = "internal" => lev[right] > 0
    BY <1>5, PageFacts
  <2> QED
    BY <2>1, <2>2, <2>3, <1>7, <1>8
<1>10. ASSUME nd[left].kind = "leaf"
       PROVE  /\ nd[left].next = right
              /\ \A r \in InUse(nd) : nd[r].kind = "leaf" /\ nd[r].next = right => r = left
  <2>1. lev[left] = 0 /\ lev[right] = 0
    BY <1>4, <1>8, <1>10, PageFacts
  <2>2. IF nd[left].next = NoPage THEN top[left] = Top
        ELSE /\ nd[left].next \in InUse(nd) /\ nd[nd[left].next].kind = "leaf"
             /\ lo[nd[left].next] = top[left]
    BY <1>4, <1>10 DEF Core, Chained
  <2>3. nd[left].next # NoPage
    BY <2>2, <1>6, <1>7
  <2>4. PICK t \in InUse(nd) : t = nd[left].next /\ nd[t].kind = "leaf" /\ lo[t] = top[left]
    BY <2>2, <2>3
  <2>5. lev[t] = 0 /\ lo[t] < top[t] /\ lo[t] \in Nat
    BY <2>4, PageFacts
  <2>6. t = right
    BY <2>1, <2>4, <2>5, <1>5, <1>6, <1>7, SamePage
  <2>7. ASSUME NEW r \in InUse(nd), nd[r].kind = "leaf", nd[r].next = right
        PROVE  r = left
    <3>1. right # NoPage
      BY <1>5, SizeAssumption DEF InUse
    <3>2. lo[right] = top[r]
      BY <2>7, <3>1 DEF Core, Chained
    <3>3. lev[r] = 0 /\ lo[r] \in Nat /\ lo[r] < top[r] /\ top[r] \in Nat
      BY <2>7, PageFacts
    <3>4. PICK x \in Nat : x + 1 = top[left]
      <4>1. top[left] - 1 \in Nat /\ (top[left] - 1) + 1 = top[left]
        BY <1>7, SMTT(30)
      <4> QED
        BY <4>1
    <3>5. lo[r] <= x /\ x < top[r] /\ lo[left] <= x /\ x < top[left]
      BY <3>2, <3>3, <3>4, <1>6, <1>7, SMTT(30)
    <3> QED
      BY <3>3, <3>5, <2>1, <1>4, SamePage
  <2> QED
    BY <2>4, <2>6, <2>7
<1>11. ASSUME NEW q \in InUse(nd), NEW i \in 1..Len(nd[q].children)
       PROVE  /\ nd[q].children[i] = left => q = p /\ i = l
              /\ nd[q].children[i] = right => q = p /\ i = l + 1
  BY <1>3, OneParent
<1> QED
  BY <1>4, <1>5, <1>6, <1>8, <1>9, <1>10, <1>11 DEF Neighbours

ShiftOf(nd, lo, top, lev, p, l, left, right, n1, n2, n3, s, nd2) ==
    /\ Core(nd, lo, top, top, lev) /\ p \in InUse(nd) /\ nd[p].kind = "internal"
    /\ l \in 1..Len(nd[p].entries) /\ left = nd[p].children[l] /\ right = nd[p].children[l + 1]
    /\ n1 \in Nodes /\ n2 \in Nodes /\ n3 \in Nodes /\ s \in Entries
    /\ lo[left] < s /\ s < top[right]
    /\ n1.kind = nd[left].kind /\ n1.next = nd[left].next
    /\ n2.kind = nd[right].kind /\ n2.next = nd[right].next
    /\ NodeOK(n1, lo[left], s, lev[left], InUse(nd), lo, top, lev)
    /\ NodeOK(n2, s, top[right], lev[right], InUse(nd), lo, top, lev)
    /\ n3.kind = "internal" /\ n3.next = NoPage
    /\ n3.entries = Put(nd[p].entries, l, s) /\ n3.children = nd[p].children
    /\ nd2 \in [Pages -> Nodes] /\ nd2[left] = n1 /\ nd2[right] = n2 /\ nd2[p] = n3
    /\ \A r \in Pages : r # p /\ r # left /\ r # right => nd2[r] = nd[r]

\* The line between two neighbours moves to s.
LEMMA Shifted ==
    ASSUME NEW nd, NEW lo, NEW top, NEW lev, NEW p, NEW l, NEW left, NEW right,
           NEW n1, NEW n2, NEW n3, NEW s, NEW nd2,
           ShiftOf(nd, lo, top, lev, p, l, left, right, n1, n2, n3, s, nd2)
    PROVE  /\ InUse(nd2) = InUse(nd)
           /\ Core(nd2, Put(lo, right, s), Put(top, left, s), Put(top, left, s), lev)
<1> USE DEF ShiftOf
<1> DEFINE lo2 == Put(lo, right, s)
           top2 == Put(top, left, s)
<1>0. Neighbours(nd, lo, top, lev, p, l, left, right)
  BY NeighboursOf
<1>1. /\ left \in InUse(nd) /\ right \in InUse(nd) /\ left # right /\ p # left /\ p # right
      /\ lev[left] = lev[right] /\ lev[left] + 1 = lev[p]
      /\ top[left] = nd[p].entries[l] /\ lo[right] = nd[p].entries[l]
      /\ lo[left] = LowOf(nd[p], lo[p], l) /\ top[right] = HighOf(nd[p], top[p], l + 1)
      /\ nd[left].kind = nd[right].kind
  BY <1>0 DEF Neighbours
<1>2. /\ lo \in [Pages -> Nat] /\ top \in [Pages -> Nat] /\ lev \in [Pages -> Nat]
      /\ left \in Pages /\ right \in Pages /\ p \in Pages /\ s \in Nat
      /\ lo[left] \in Nat /\ top[left] \in Nat /\ lo[right] \in Nat /\ top[right] \in Nat
      /\ lo[left] < top[left] /\ lo[right] < top[right] /\ top[right] <= Top /\ Top \in Nat
      /\ lev[left] \in Nat /\ lev[p] \in Nat /\ nd[p] \in Nodes
      /\ lo[p] \in Nat /\ top[p] \in Nat /\ lo[p] < top[p] /\ InnerOK(nd[p], lo[p], top[p])
  <2>1. Core(nd, lo, top, top, lev) /\ p \in InUse(nd) /\ nd[p].kind = "internal" /\ s \in Entries
    OBVIOUS
  <2> HIDE DEF ShiftOf
  <2>2. lo \in [Pages -> Nat] /\ top \in [Pages -> Nat] /\ lev \in [Pages -> Nat]
    BY <2>1 DEF Core, Typed
  <2>3. /\ left \in Pages /\ lo[left] \in Nat /\ top[left] \in Nat /\ lo[left] < top[left]
        /\ lev[left] \in Nat
    BY <2>1, <1>1, PageFacts
  <2>4. /\ right \in Pages /\ lo[right] \in Nat /\ top[right] \in Nat /\ lo[right] < top[right]
        /\ top[right] <= Top
    BY <2>1, <1>1, PageFacts
  <2>5. /\ p \in Pages /\ lev[p] \in Nat /\ nd[p] \in Nodes
        /\ lo[p] \in Nat /\ top[p] \in Nat /\ lo[p] < top[p] /\ InnerOK(nd[p], lo[p], top[p])
    BY <2>1, PageFacts
  <2>6. s \in Nat /\ Top \in Nat
    BY <2>1, EntryBounds
  <2> QED
    BY <2>2, <2>3, <2>4, <2>5, <2>6
<1>3. nd[p].kind # "free" /\ \A q \in InUse(nd) : q \in Pages /\ nd[q].kind # "free"
  BY DEF InUse
<1>4. \A q \in Pages : nd2[q].kind = nd[q].kind
  BY <1>2
<1>5. InUse(nd2) = InUse(nd)
  BY <1>4 DEF InUse
<1>6. Typed(nd2, lo2, top2, top2, lev)
  BY <1>2 DEF Typed, Put
<1>7. /\ lo2[right] = s /\ top2[left] = s
      /\ \A r \in Pages : (r # right => lo2[r] = lo[r]) /\ (r # left => top2[r] = top[r])
  BY <1>2 DEF Put
<1> HIDE DEF lo2, top2
<1>8. Spans(InUse(nd2), lo2, top2)
  <2> SUFFICES ASSUME NEW r \in InUse(nd)
               PROVE  lo2[r] < top2[r] /\ top2[r] <= Top
    BY <1>5 DEF Spans
  <2>1. CASE r = left
    BY <2>1, <1>1, <1>2, <1>7, SMTT(30)
  <2>2. CASE r = right
    BY <2>2, <1>1, <1>2, <1>7
  <2>3. CASE r # left /\ r # right
    BY <2>3, <1>3, <1>7, PageFacts, SMTT(30)
  <2> QED
    BY <2>1, <2>2, <2>3
<1>9. Disjoint(InUse(nd2), lo2, top2, lev)
  <2> SUFFICES ASSUME NEW r \in InUse(nd), NEW t \in InUse(nd), r # t, lev[r] = lev[t]
               PROVE  top2[r] <= lo2[t] \/ top2[t] <= lo2[r]
    BY <1>5 DEF Disjoint
  <2>1. \A u, v \in InUse(nd) : u # v /\ lev[u] = lev[v] => top[u] <= lo[v] \/ top[v] <= lo[u]
    BY DEF Core, Disjoint
  <2>2. \A u \in InUse(nd) : lo[u] \in Nat /\ top[u] \in Nat /\ lo[u] < top[u] /\ u \in Pages
    BY PageFacts
  <2>3. ASSUME NEW u \in InUse(nd), lev[u] = lev[left], u # left, u # right
        PROVE  /\ top2[left] <= lo2[u] \/ top2[u] <= lo2[left]
               /\ top2[right] <= lo2[u] \/ top2[u] <= lo2[right]
    <3>1. (top[left] <= lo[u] \/ top[u] <= lo[left]) /\ (top[right] <= lo[u] \/ top[u] <= lo[right])
      BY <2>1, <2>3, <1>1
    <3>2. lo2[u] = lo[u] /\ top2[u] = top[u] /\ lo[u] \in Nat /\ top[u] \in Nat /\ lo[u] < top[u]
      BY <2>2, <2>3, <1>7
    <3>3. top2[left] = s /\ lo2[left] = lo[left] /\ top2[right] = top[right] /\ lo2[right] = s
      BY <1>1, <1>2, <1>7
    <3>4. top[u] <= lo[left] \/ top[right] <= lo[u]
      BY <3>1, <3>2, <1>1, <1>2, SMTT(30)
    <3>5. s \in Nat /\ lo[left] \in Nat /\ top[right] \in Nat
      BY <1>2
    <3>6. CASE top[u] <= lo[left]
      <4>1. top2[u] <= lo2[left] /\ top2[u] <= lo2[right]
        BY <3>2, <3>3, <3>5, <3>6, SMTT(30)
      <4> QED
        BY <4>1
    <3>7. CASE top[right] <= lo[u]
      <4>1. top2[left] <= lo2[u] /\ top2[right] <= lo2[u]
        BY <3>2, <3>3, <3>5, <3>7, SMTT(30)
      <4> QED
        BY <4>1
    <3> QED
      BY <3>4, <3>6, <3>7
  <2>4. top2[left] <= lo2[right]
    BY <1>2, <1>7, SMTT(30)
  <2>5. CASE r \in {left, right} /\ t \in {left, right}
    BY <2>4, <2>5, SMTT(30)
  <2>6. CASE r \in {left, right} /\ t \notin {left, right}
    <3>1. lev[t] = lev[left] /\ t # left /\ t # right
      BY <2>6, <1>1
    <3>2. /\ top2[left] <= lo2[t] \/ top2[t] <= lo2[left]
          /\ top2[right] <= lo2[t] \/ top2[t] <= lo2[right]
      BY <3>1, <2>3
    <3> QED
      BY <2>6, <3>2
  <2>7. CASE r \notin {left, right} /\ t \in {left, right}
    <3>1. lev[r] = lev[left] /\ r # left /\ r # right
      BY <2>7, <1>1
    <3>2. /\ top2[left] <= lo2[r] \/ top2[r] <= lo2[left]
          /\ top2[right] <= lo2[r] \/ top2[r] <= lo2[right]
      BY <3>1, <2>3
    <3> QED
      BY <2>7, <3>2
  <2>8. CASE r \notin {left, right} /\ t \notin {left, right}
    BY <2>1, <2>2, <2>8, <1>7
  <2> QED
    BY <2>5, <2>6, <2>7, <2>8
<1>10. Chained(nd2, lo2, top2)
  <2> SUFFICES ASSUME NEW r \in InUse(nd), nd2[r].kind = "leaf"
               PROVE  IF nd2[r].next = NoPage THEN top2[r] = Top
                      ELSE /\ nd2[r].next \in InUse(nd) /\ nd2[nd2[r].next].kind = "leaf"
                           /\ lo2[nd2[r].next] = top2[r]
    BY <1>5, SMTT(30) DEF Chained
  <2>1. r \in Pages /\ nd[r].kind = "leaf" /\ r # p
    BY <1>3, <1>4
  <2>2. nd2[r].next = nd[r].next
    BY <2>1
  <2>3. IF nd[r].next = NoPage THEN top[r] = Top
        ELSE /\ nd[r].next \in InUse(nd) /\ nd[nd[r].next].kind = "leaf"
             /\ lo[nd[r].next] = top[r]
    BY <2>1 DEF Core, Chained
  <2>4. CASE r = left
    <3>1. nd[left].next = right
      BY <2>1, <2>4, <1>0 DEF Neighbours
    <3>2. right # NoPage /\ nd2[right].kind = "leaf"
      BY <2>1, <2>4, <1>1, <1>2, SizeAssumption
    <3> QED
      BY <2>2, <2>4, <3>1, <3>2, <1>1, <1>7, SMTT(30)
  <2>5. CASE r # left
    <3>1. nd[r].next # right
      <4> SUFFICES ASSUME nd[r].next = right
                   PROVE  FALSE
        OBVIOUS
      <4>1. nd[right].kind = "leaf"
        BY <2>3, <1>2, SizeAssumption
      <4> QED
        BY <4>1, <2>1, <2>5, <1>0, <1>1 DEF Neighbours
    <3>2. top2[r] = top[r]
      BY <2>1, <2>5, <1>7
    <3> QED
      BY <2>2, <2>3, <3>1, <3>2, <1>3, <1>4, <1>7, SMTT(30)
  <2> QED
    BY <2>4, <2>5
<1>11. ASSUME NEW n, NEW a, NEW b, NEW v, NodeOK(n, a, b, v, InUse(nd), lo, top, lev),
              \A i \in 1..Len(n.children) : n.children[i] # left /\ n.children[i] # right
       PROVE  NodeOK(n, a, b, v, InUse(nd2), lo2, top2, lev)
  <2>1. \A i \in 1..Len(n.children) : n.children[i] \in InUse(nd)
    BY <1>11 DEF NodeOK, ChildrenOK
  <2>2. \A i \in 1..Len(n.children) :
           /\ n.children[i] \in InUse(nd2) /\ lev[n.children[i]] = lev[n.children[i]]
           /\ lo2[n.children[i]] = lo[n.children[i]]
           /\ top2[n.children[i]] = top[n.children[i]]
    BY <2>1, <1>3, <1>5, <1>7, <1>11
  <2> QED
    BY <2>2, <1>11, SameChildren, SMTT(30)
<1>12. ASSUME NEW n, NEW a, NEW b, NodeOK(n, a, b, lev[left], InUse(nd), lo, top, lev)
       PROVE  NodeOK(n, a, b, lev[left], InUse(nd2), lo2, top2, lev)
  <2>1. \A i \in 1..Len(n.children) : lev[n.children[i]] + 1 = lev[left]
    BY <1>12 DEF NodeOK, ChildrenOK
  <2>2. lev[left] + 1 # lev[left] /\ lev[right] + 1 # lev[left]
    BY <1>1, <1>2, SMTT(30)
  <2>3. \A i \in 1..Len(n.children) : n.children[i] # left /\ n.children[i] # right
    BY <2>1, <2>2
  <2> QED
    BY <2>3, <1>11, <1>12
<1>13. NodeOK(n3, lo[p], top[p], lev[p], InUse(nd2), lo2, top2, lev)
  <2>1. /\ InnerOK(n3, lo[p], top[p])
        /\ \A j \in 1..Len(n3.children) :
             /\ LowOf(n3, lo[p], j) = IF j = l + 1 THEN s ELSE LowOf(nd[p], lo[p], j)
             /\ HighOf(n3, top[p], j) = IF j = l THEN s ELSE HighOf(nd[p], top[p], j)
    <3>1. LowOf(nd[p], lo[p], l) < s /\ s < HighOf(nd[p], top[p], l + 1)
      BY <1>1
    <3>2. PICK n \in Nodes, a \in Nat, b \in Nat : n = nd[p] /\ a = lo[p] /\ b = top[p]
      BY <1>2
    <3>3. a < b /\ InnerOK(n, a, b) /\ l \in 1..Len(n.entries)
      BY <3>2, <1>2
    <3>4. LowOf(n, a, l) < s /\ s < HighOf(n, b, l + 1)
      BY <3>1, <3>2
    <3>5. n3.entries = Put(n.entries, l, s) /\ n3.children = n.children
      BY <3>2
    <3>6. /\ InnerOK(n3, a, b)
          /\ \A j \in 1..Len(n3.children) :
               /\ LowOf(n3, a, j) = IF j = l + 1 THEN s ELSE LowOf(n, a, j)
               /\ HighOf(n3, b, j) = IF j = l THEN s ELSE HighOf(n, b, j)
      BY <3>3, <3>4, <3>5, Moved
    <3> QED
      BY <3>2, <3>6
  <2>2. ASSUME NEW j \in 1..Len(nd[p].children)
        PROVE  /\ nd[p].children[j] \in InUse(nd2) /\ lev[nd[p].children[j]] + 1 = lev[p]
               /\ lo2[nd[p].children[j]] = LowOf(n3, lo[p], j)
               /\ top2[nd[p].children[j]] = HighOf(n3, top[p], j)
    <3>1. PICK c : c = nd[p].children[j]
      OBVIOUS
    <3>2. /\ c \in InUse(nd) /\ lev[c] + 1 = lev[p] /\ lo[c] = LowOf(nd[p], lo[p], j)
          /\ top[c] = HighOf(nd[p], top[p], j)
      <4>1. ChildrenOK(nd[p], lo[p], top[p], lev[p], InUse(nd), lo, top, lev)
        BY PageFacts
      <4> QED
        BY <3>1, <4>1 DEF ChildrenOK
    <3>3. (c = left => j = l) /\ (c = right => j = l + 1)
      BY <3>1, <1>0 DEF Neighbours
    <3>4. (j = l => c = left) /\ (j = l + 1 => c = right)
      BY <3>1
    <3>5. lo2[c] = IF j = l + 1 THEN s ELSE LowOf(nd[p], lo[p], j)
      BY <3>2, <3>3, <3>4, <1>3, <1>7
    <3>6. top2[c] = IF j = l THEN s ELSE HighOf(nd[p], top[p], j)
      BY <3>2, <3>3, <3>4, <1>3, <1>7
    <3> QED
      BY <3>1, <3>2, <3>5, <3>6, <2>1, <1>5
  <2>3. ChildrenOK(n3, lo[p], top[p], lev[p], InUse(nd2), lo2, top2, lev)
    BY <2>2, SMTT(30) DEF ChildrenOK
  <2> QED
    BY <2>1, <2>3 DEF NodeOK
<1>14. ASSUME NEW r \in InUse(nd)
       PROVE  NodeOK(nd2[r], lo2[r], top2[r], lev[r], InUse(nd2), lo2, top2, lev)
  <2>1. CASE r = left
    BY <2>1, <1>1, <1>2, <1>7, <1>12
  <2>2. CASE r = right
    BY <2>2, <1>1, <1>2, <1>7, <1>12
  <2>3. CASE r = p
    BY <2>3, <1>1, <1>2, <1>7, <1>13
  <2>4. CASE r # left /\ r # right /\ r # p
    <3>1. nd2[r] = nd[r] /\ lo2[r] = lo[r] /\ top2[r] = top[r]
      BY <2>4, <1>3, <1>7
    <3>2. NodeOK(nd[r], lo[r], top[r], lev[r], InUse(nd), lo, top, lev)
      BY DEF Core
    <3>3. \A i \in 1..Len(nd[r].children) : nd[r].children[i] # left /\ nd[r].children[i] # right
      BY <2>4, <1>0 DEF Neighbours
    <3> QED
      BY <3>1, <3>2, <3>3, <1>11
  <2> QED
    BY <2>1, <2>2, <2>3, <2>4
<1>15. Core(nd2, lo2, top2, top2, lev)
  BY <1>5, <1>6, <1>8, <1>9, <1>10, <1>14 DEF Core
<1> QED
  BY <1>5, <1>15 DEF lo2, top2

UniteOf(nd, lo, top, lev, p, l, left, right, n1, n3, nd2) ==
    /\ Core(nd, lo, top, top, lev) /\ p \in InUse(nd) /\ nd[p].kind = "internal"
    /\ l \in 1..Len(nd[p].entries) /\ left = nd[p].children[l] /\ right = nd[p].children[l + 1]
    /\ n1 \in Nodes /\ n3 \in Nodes /\ n1.kind = nd[left].kind
    /\ nd[left].kind = "leaf" => n1.next = nd[right].next
    /\ NodeOK(n1, lo[left], top[right], lev[left], InUse(nd), lo, top, lev)
    /\ n3.kind = "internal" /\ n3.next = NoPage
    /\ n3.entries = RemoveAt(nd[p].entries, l) /\ n3.children = RemoveAt(nd[p].children, l + 1)
    /\ nd2 \in [Pages -> Nodes] /\ nd2[left] = n1 /\ nd2[right] = FreePage /\ nd2[p] = n3
    /\ \A r \in Pages : r # p /\ r # left /\ r # right => nd2[r] = nd[r]

\* A page takes in its right neighbour, which is released.
LEMMA United ==
    ASSUME NEW nd, NEW lo, NEW top, NEW lev, NEW p, NEW l, NEW left, NEW right,
           NEW n1, NEW n3, NEW nd2,
           UniteOf(nd, lo, top, lev, p, l, left, right, n1, n3, nd2)
    PROVE  /\ InUse(nd2) = InUse(nd) \ {right}
           /\ Core(nd2, lo, Put(top, left, top[right]), Put(top, left, top[right]), lev)
<1> USE DEF UniteOf
<1> DEFINE top2 == Put(top, left, top[right])
<1>0. Neighbours(nd, lo, top, lev, p, l, left, right)
  BY NeighboursOf
<1>1. /\ left \in InUse(nd) /\ right \in InUse(nd) /\ left # right /\ p # left /\ p # right
      /\ lev[left] = lev[right] /\ lev[left] + 1 = lev[p]
      /\ top[left] = nd[p].entries[l] /\ lo[right] = nd[p].entries[l]
      /\ lo[left] = LowOf(nd[p], lo[p], l) /\ top[right] = HighOf(nd[p], top[p], l + 1)
      /\ nd[left].kind = nd[right].kind
  BY <1>0 DEF Neighbours
<1>2. /\ lo \in [Pages -> Nat] /\ top \in [Pages -> Nat] /\ lev \in [Pages -> Nat]
      /\ left \in Pages /\ right \in Pages /\ p \in Pages
      /\ lo[left] \in Nat /\ top[left] \in Nat /\ lo[right] \in Nat /\ top[right] \in Nat
      /\ lo[left] < top[left] /\ lo[right] < top[right] /\ top[right] <= Top
      /\ lev[left] \in Nat /\ lev[p] \in Nat /\ nd[p] \in Nodes
      /\ lo[p] \in Nat /\ top[p] \in Nat /\ lo[p] < top[p] /\ InnerOK(nd[p], lo[p], top[p])
  <2>1. Core(nd, lo, top, top, lev) /\ p \in InUse(nd) /\ nd[p].kind = "internal"
    OBVIOUS
  <2> HIDE DEF UniteOf
  <2>2. lo \in [Pages -> Nat] /\ top \in [Pages -> Nat] /\ lev \in [Pages -> Nat]
    BY <2>1 DEF Core, Typed
  <2>3. /\ left \in Pages /\ lo[left] \in Nat /\ top[left] \in Nat /\ lo[left] < top[left]
        /\ lev[left] \in Nat
    BY <2>1, <1>1, PageFacts
  <2>4. /\ right \in Pages /\ lo[right] \in Nat /\ top[right] \in Nat /\ lo[right] < top[right]
        /\ top[right] <= Top
    BY <2>1, <1>1, PageFacts
  <2>5. /\ p \in Pages /\ lev[p] \in Nat /\ nd[p] \in Nodes
        /\ lo[p] \in Nat /\ top[p] \in Nat /\ lo[p] < top[p] /\ InnerOK(nd[p], lo[p], top[p])
    BY <2>1, PageFacts
  <2> QED
    BY <2>2, <2>3, <2>4, <2>5
<1>3. nd[p].kind # "free" /\ \A q \in InUse(nd) : q \in Pages /\ nd[q].kind # "free"
  BY DEF InUse
<1>4. \A q \in Pages : q # right => nd2[q].kind = nd[q].kind
  BY <1>2
<1>5. InUse(nd2) = InUse(nd) \ {right}
  BY <1>1, <1>4, FreeIn DEF InUse
<1>6. Typed(nd2, lo, top2, top2, lev)
  BY <1>2 DEF Typed, Put
<1>7. top2[left] = top[right] /\ \A r \in Pages : r # left => top2[r] = top[r]
  BY <1>2 DEF Put
<1> HIDE DEF top2
<1>8. Spans(InUse(nd2), lo, top2)
  <2> SUFFICES ASSUME NEW r \in InUse(nd)
               PROVE  lo[r] < top2[r] /\ top2[r] <= Top
    BY <1>5 DEF Spans
  <2>1. CASE r = left
    BY <2>1, <1>1, <1>2, <1>7, SMTT(30)
  <2>2. CASE r # left
    BY <2>2, <1>3, <1>7, PageFacts
  <2> QED
    BY <2>1, <2>2
<1>9. Disjoint(InUse(nd2), lo, top2, lev)
  <2> SUFFICES ASSUME NEW r \in InUse(nd), NEW t \in InUse(nd), r # t, lev[r] = lev[t],
                      r # right, t # right
               PROVE  top2[r] <= lo[t] \/ top2[t] <= lo[r]
    BY <1>5 DEF Disjoint
  <2>1. \A u, v \in InUse(nd) : u # v /\ lev[u] = lev[v] => top[u] <= lo[v] \/ top[v] <= lo[u]
    BY DEF Core, Disjoint
  <2>2. \A u \in InUse(nd) : lo[u] \in Nat /\ top[u] \in Nat /\ lo[u] < top[u] /\ u \in Pages
    BY PageFacts
  <2>3. ASSUME NEW u \in InUse(nd), lev[u] = lev[left], u # left, u # right
        PROVE  top2[left] <= lo[u] \/ top2[u] <= lo[left]
    <3>1. (top[left] <= lo[u] \/ top[u] <= lo[left]) /\ (top[right] <= lo[u] \/ top[u] <= lo[right])
      BY <2>1, <2>3, <1>1
    <3>2. top2[u] = top[u] /\ lo[u] \in Nat /\ top[u] \in Nat /\ lo[u] < top[u]
      BY <2>2, <2>3, <1>7
    <3>4. top[u] <= lo[left] \/ top[right] <= lo[u]
      BY <3>1, <3>2, <1>1, <1>2
    <3> QED
      BY <3>2, <3>4, <1>7
  <2>5. CASE r = left
    BY <2>3, <2>5
  <2>6. CASE t = left
    BY <2>3, <2>6
  <2>7. CASE r # left /\ t # left
    BY <2>1, <2>2, <2>7, <1>7
  <2> QED
    BY <2>5, <2>6, <2>7
<1>10. Chained(nd2, lo, top2)
  <2> SUFFICES ASSUME NEW r \in InUse(nd), r # right, nd2[r].kind = "leaf"
               PROVE  IF nd2[r].next = NoPage THEN top2[r] = Top
                      ELSE /\ nd2[r].next \in InUse(nd) \ {right} /\ nd2[nd2[r].next].kind = "leaf"
                           /\ lo[nd2[r].next] = top2[r]
    BY <1>5 DEF Chained
  <2>1. r \in Pages /\ nd[r].kind = "leaf" /\ r # p
    BY <1>3, <1>4
  <2>2. ASSUME NEW u \in InUse(nd), nd[u].kind = "leaf"
        PROVE  /\ nd[u].next = NoPage => top[u] = Top
               /\ nd[u].next # NoPage => /\ nd[u].next \in InUse(nd) /\ nd[nd[u].next].kind = "leaf"
                                         /\ lo[nd[u].next] = top[u]
    BY <2>2 DEF Core, Chained
  <2>3. ASSUME nd[right].kind = "leaf"
        PROVE  \A u \in InUse(nd) : nd[u].kind = "leaf" /\ nd[u].next = right => u = left
    BY <2>3, <1>0, <1>1 DEF Neighbours
  <2>4. CASE r = left
    <3>1. nd2[r].next = nd[right].next /\ nd[right].kind = "leaf"
      BY <2>1, <2>4, <1>1
    <3>2. nd[right].next # right
      BY <2>3, <3>1, <1>1
    <3>3. /\ nd[right].next = NoPage => top[right] = Top
          /\ nd[right].next # NoPage =>
               /\ nd[right].next \in InUse(nd) /\ nd[nd[right].next].kind = "leaf"
               /\ lo[nd[right].next] = top[right]
      BY <2>2, <3>1, <1>1
    <3>4. top2[r] = top[right]
      BY <2>4, <1>7
    <3>5. nd[right].next # NoPage => nd2[nd[right].next].kind = "leaf"
      <4> HAVE nd[right].next # NoPage
      <4>1. PICK u : u = nd[right].next
        OBVIOUS
      <4>2. u \in InUse(nd) /\ u \in Pages /\ nd[u].kind = "leaf" /\ u # right
        BY <4>1, <3>2, <3>3, <1>3
      <4> QED
        BY <4>1, <4>2, <1>4
    <3> QED
      BY <3>1, <3>2, <3>3, <3>4, <3>5
  <2>5. CASE r # left
    <3>0. /\ nd[r].next = NoPage => top[r] = Top
          /\ nd[r].next # NoPage => /\ nd[r].next \in InUse(nd) /\ nd[nd[r].next].kind = "leaf"
                                    /\ lo[nd[r].next] = top[r]
      BY <2>1, <2>2
    <3>1. nd[r].next # right
      <4> SUFFICES ASSUME nd[r].next = right
                   PROVE  FALSE
        OBVIOUS
      <4>1. nd[right].kind = "leaf"
        BY <3>0, <1>2, SizeAssumption
      <4> QED
        BY <4>1, <2>1, <2>3, <2>5
    <3>2. top2[r] = top[r] /\ nd2[r].next = nd[r].next
      BY <2>1, <2>5, <1>7
    <3> QED
      BY <3>0, <3>1, <3>2, <1>3, <1>4
  <2> QED
    BY <2>4, <2>5
<1>11. ASSUME NEW n, NEW a, NEW b, NEW v, NodeOK(n, a, b, v, InUse(nd), lo, top, lev),
              \A i \in 1..Len(n.children) : n.children[i] # left /\ n.children[i] # right
       PROVE  NodeOK(n, a, b, v, InUse(nd2), lo, top2, lev)
  <2>1. \A i \in 1..Len(n.children) : n.children[i] \in InUse(nd)
    BY <1>11 DEF NodeOK, ChildrenOK
  <2>2. \A i \in 1..Len(n.children) :
           /\ n.children[i] \in InUse(nd2) /\ lev[n.children[i]] = lev[n.children[i]]
           /\ lo[n.children[i]] = lo[n.children[i]]
           /\ top2[n.children[i]] = top[n.children[i]]
    BY <2>1, <1>3, <1>5, <1>7, <1>11
  <2> QED
    BY <2>2, <1>11, SameChildren
<1>12. NodeOK(n1, lo[left], top[right], lev[left], InUse(nd2), lo, top2, lev)
  <2>1. \A i \in 1..Len(n1.children) : lev[n1.children[i]] + 1 = lev[left]
    BY DEF NodeOK, ChildrenOK
  <2>2. lev[left] + 1 # lev[left] /\ lev[right] + 1 # lev[left]
    BY <1>1, <1>2, SMTT(30)
  <2>3. \A i \in 1..Len(n1.children) : n1.children[i] # left /\ n1.children[i] # right
    BY <2>1, <2>2
  <2> QED
    BY <2>3, <1>11
<1>13. NodeOK(n3, lo[p], top[p], lev[p], InUse(nd2), lo, top2, lev)
  <2>0. PICK n \in Nodes, a \in Nat, b \in Nat : n = nd[p] /\ a = lo[p] /\ b = top[p]
    BY <1>2
  <2>1. /\ InnerOK(n3, a, b) /\ Len(n3.children) = Len(n.children) - 1
        /\ \A j \in 1..Len(n3.children) :
             /\ n3.children[j] = IF j < l + 1 THEN n.children[j] ELSE n.children[j + 1]
             /\ LowOf(n3, a, j) = IF j < l + 1 THEN LowOf(n, a, j) ELSE LowOf(n, a, j + 1)
             /\ HighOf(n3, b, j) = IF j < l THEN HighOf(n, b, j) ELSE HighOf(n, b, j + 1)
    <3>1. a < b /\ InnerOK(n, a, b) /\ l \in 1..Len(n.entries)
      BY <2>0, <1>2
    <3>2. n3.entries = RemoveAt(n.entries, l) /\ n3.children = RemoveAt(n.children, l + 1)
      BY <2>0
    <3>3. /\ n3.kind = "internal" /\ n3.next = NoPage /\ n3 \in Nodes
          /\ n \in Nodes /\ a \in Nat /\ b \in Nat
      OBVIOUS
    <3>4. Lacks(n3, n, a, b, l)
      BY <3>1, <3>2, <3>3, GivenUp
    <3> QED
      BY <3>4 DEF Lacks
  <2>2. Len(n.children) \in Nat /\ l \in Nat /\ l >= 1
    BY <2>0, NodeFacts
  <2>3. ASSUME NEW j \in 1..Len(n.children)
        PROVE  /\ n.children[j] \in InUse(nd) /\ lev[n.children[j]] + 1 = lev[p]
               /\ lo[n.children[j]] = LowOf(n, a, j) /\ top[n.children[j]] = HighOf(n, b, j)
               /\ n.children[j] = left <=> j = l
               /\ n.children[j] = right <=> j = l + 1
    <3>1. ChildrenOK(nd[p], lo[p], top[p], lev[p], InUse(nd), lo, top, lev)
      BY PageFacts
    <3>2. /\ n.children[j] \in InUse(nd) /\ lev[n.children[j]] + 1 = lev[p]
          /\ lo[n.children[j]] = LowOf(n, a, j) /\ top[n.children[j]] = HighOf(n, b, j)
      BY <3>1, <2>0 DEF ChildrenOK
    <3>3. /\ n.children[j] = left => j = l
          /\ n.children[j] = right => j = l + 1
      BY <2>0, <1>0 DEF Neighbours
    <3>4. (j = l => n.children[j] = left) /\ (j = l + 1 => n.children[j] = right)
      BY <2>0
    <3> QED
      BY <3>2, <3>3, <3>4
  <2>4. ASSUME NEW j \in 1..Len(n3.children)
        PROVE  /\ n3.children[j] \in InUse(nd2) /\ lev[n3.children[j]] + 1 = lev[p]
               /\ lo[n3.children[j]] = LowOf(n3, a, j) /\ top2[n3.children[j]] = HighOf(n3, b, j)
    <3>1. j \in Nat /\ j \in 1..Len(n.children) /\ j + 1 \in 1..Len(n.children) /\ l + 1 # l
      BY <2>1, <2>2
    <3>2. CASE j < l
      <4>1. /\ n3.children[j] = n.children[j] /\ LowOf(n3, a, j) = LowOf(n, a, j)
            /\ HighOf(n3, b, j) = HighOf(n, b, j) /\ j # l /\ j # l + 1
        BY <2>1, <2>2, <3>1, <3>2
      <4> QED
        BY <4>1, <2>3, <3>1, <1>3, <1>5, <1>7
    <3>3. CASE j = l
      <4>1. /\ n3.children[j] = left /\ LowOf(n3, a, j) = LowOf(n, a, l)
            /\ HighOf(n3, b, j) = HighOf(n, b, l + 1)
        BY <2>0, <2>1, <2>2, <3>1, <3>3
      <4>2. top[right] = HighOf(n, b, l + 1) /\ lo[left] = LowOf(n, a, l)
        BY <2>0, <1>1
      <4> QED
        BY <4>1, <4>2, <1>1, <1>5, <1>7
    <3>4. CASE l < j
      <4>0. ~(j < l) /\ ~(j < l + 1) /\ j + 1 # l /\ j + 1 # l + 1
        BY <2>2, <3>1, <3>4
      <4>1. /\ n3.children[j] = n.children[j + 1] /\ LowOf(n3, a, j) = LowOf(n, a, j + 1)
            /\ HighOf(n3, b, j) = HighOf(n, b, j + 1)
        BY <2>1, <4>0
      <4> QED
        BY <4>0, <4>1, <2>3, <3>1, <1>3, <1>5, <1>7, SMTT(30)
    <3> QED
      BY <3>1, <3>2, <3>3, <3>4, <2>2
  <2>5. ChildrenOK(n3, a, b, lev[p], InUse(nd2), lo, top2, lev)
    BY <2>4 DEF ChildrenOK
  <2> QED
    BY <2>0, <2>1, <2>5 DEF NodeOK
<1>14. ASSUME NEW r \in InUse(nd2)
       PROVE  NodeOK(nd2[r], lo[r], top2[r], lev[r], InUse(nd2), lo, top2, lev)
  <2>0. r \in InUse(nd) /\ r # right
    BY <1>5
  <2>1. CASE r = left
    BY <2>1, <1>1, <1>2, <1>7, <1>12
  <2>3. CASE r = p
    BY <2>3, <1>1, <1>2, <1>7, <1>13
  <2>4. CASE r # left /\ r # p
    <3>1. nd2[r] = nd[r] /\ top2[r] = top[r]
      BY <2>0, <2>4, <1>3, <1>7
    <3>2. NodeOK(nd[r], lo[r], top[r], lev[r], InUse(nd), lo, top, lev)
      BY <2>0 DEF Core
    <3>3. \A i \in 1..Len(nd[r].children) : nd[r].children[i] # left /\ nd[r].children[i] # right
      BY <2>0, <2>4, <1>0 DEF Neighbours
    <3> QED
      BY <3>1, <3>2, <3>3, <1>11
  <2> QED
    BY <2>1, <2>3, <2>4
<1>15. Core(nd2, lo, top2, top2, lev)
  BY <1>6, <1>8, <1>9, <1>10, <1>14 DEF Core
<1> QED
  BY <1>5, <1>15 DEF top2

\* Where a number of the node's share leads.
LEMMA ChildFor ==
    ASSUME NEW n \in Nodes, NEW a \in Nat, NEW b \in Nat, a < b, InnerOK(n, a, b),
           NEW e \in Nat, a <= e, e < b
    PROVE  /\ Place(n.entries, e) + 1 \in 1..Len(n.children)
           /\ LowOf(n, a, Place(n.entries, e) + 1) <= e
           /\ e < HighOf(n, b, Place(n.entries, e) + 1)
           /\ \A i \in 1..Len(n.children) :
                LowOf(n, a, i) <= e /\ e < HighOf(n, b, i) => i = Place(n.entries, e) + 1
<1>1. PICK k : k = Place(n.entries, e)
  OBVIOUS
<1>2. /\ Len(n.entries) \in Nat /\ Len(n.children) = Len(n.entries) + 1 /\ n.entries \in Seq(Nat)
      /\ Ascending(n.entries)
  BY NodeFacts DEF InnerOK
<1>3. /\ k \in 0..Len(n.entries)
      /\ \A i \in 1..k : n.entries[i] <= e
      /\ \A i \in 1..Len(n.entries) : k < i => e < n.entries[i]
  BY <1>1, <1>2, PlaceOf
<1>4. k + 1 \in 1..Len(n.children)
  BY <1>2, <1>3
<1>5. LowOf(n, a, k + 1) <= e
  <2>1. CASE k = 0
    BY <2>1 DEF LowOf
  <2>2. CASE k # 0
    <3>1. k + 1 # 1 /\ (k + 1) - 1 = k /\ k \in 1..k
      BY <2>2, <1>3
    <3> QED
      BY <3>1, <1>3 DEF LowOf
  <2> QED
    BY <2>1, <2>2
<1>6. e < HighOf(n, b, k + 1)
  <2>1. k + 1 # Len(n.children) => k + 1 \in 1..Len(n.entries) /\ k < k + 1
    BY <1>2, <1>3
  <2> QED
    BY <2>1, <1>3 DEF HighOf
<1>7. ASSUME NEW i \in 1..Len(n.children), LowOf(n, a, i) <= e, e < HighOf(n, b, i)
      PROVE  i = k + 1
  <2>1. /\ LowOf(n, a, i) \in Nat /\ HighOf(n, b, i) \in Nat
        /\ (i < k + 1 => HighOf(n, b, i) <= LowOf(n, a, k + 1))
    BY <1>4, Shares
  <2>2. /\ LowOf(n, a, k + 1) \in Nat /\ HighOf(n, b, k + 1) \in Nat
        /\ (k + 1 < i => HighOf(n, b, k + 1) <= LowOf(n, a, i))
    BY <1>4, Shares
  <2>3. ~(i < k + 1)
    BY <2>1, <2>2, <1>5, <1>7
  <2>4. ~(k + 1 < i)
    BY <2>1, <2>2, <1>6, <1>7
  <2>5. i \in Nat /\ k \in Nat
    BY <1>2, <1>3
  <2> QED
    BY <2>3, <2>4, <2>5
<1> QED
  BY <1>1, <1>4, <1>5, <1>6, <1>7

\* A page that was split, and what its parent does not know yet: the page ex behind it.
Pending(top, lo, reach, lev, c, sp, ex) ==
    /\ lev[ex] = lev[c] /\ lo[ex] = sp /\ top[c] = sp
    /\ reach = Put(top, c, top[ex])

GrownFrom(nd, lo, top, reach, lev, p, i, c, ex, sp, n3, nd2) ==
    /\ Core(nd, lo, top, reach, lev) /\ p \in InUse(nd)
    /\ i \in 1..Len(nd[p].children) /\ c = nd[p].children[i]
    /\ ex \in InUse(nd) /\ ex # c /\ sp \in Entries /\ Pending(top, lo, reach, lev, c, sp, ex)
    /\ n3 \in Nodes /\ n3.kind = "internal" /\ n3.next = NoPage
    /\ n3.entries = InsertAt(nd[p].entries, i, sp)
    /\ n3.children = InsertAt(nd[p].children, i + 1, ex)
    /\ nd2 \in [Pages -> Nodes] /\ nd2[p] = n3 /\ \A q \in Pages : q # p => nd2[q] = nd[q]

\* The parent takes it in.
LEMMA Grown ==
    ASSUME NEW nd, NEW lo, NEW top, NEW reach, NEW lev, NEW p, NEW i, NEW c, NEW ex, NEW sp,
           NEW n3, NEW nd2, GrownFrom(nd, lo, top, reach, lev, p, i, c, ex, sp, n3, nd2)
    PROVE  /\ InUse(nd2) = InUse(nd) /\ Core(nd2, lo, top, top, lev)
           /\ Gains(n3, nd[p], lo[p], top[p], i, sp, ex)
<1> USE DEF GrownFrom
<1>1. /\ nd[p].kind = "internal" /\ InnerOK(nd[p], lo[p], top[p]) /\ c \in InUse(nd)
      /\ lev[c] + 1 = lev[p]
      /\ lo[c] = LowOf(nd[p], lo[p], i) /\ reach[c] = HighOf(nd[p], top[p], i)
  BY ChildFacts
<1>2. /\ nd[p] \in Nodes /\ lo[p] \in Nat /\ top[p] \in Nat /\ lo[p] < top[p] /\ p \in Pages
      /\ nd[p].next = NoPage
  BY <1>1, PageFacts DEF InnerOK
<1>3. lo[c] < top[c] /\ c \in Pages
  BY <1>1, PageFacts
<1>4. lo[ex] < top[ex] /\ ex \in Pages /\ lev[ex] = lev[c] /\ lo[ex] = sp /\ top[c] = sp
  BY PageFacts DEF Pending
<1>5. top \in [Pages -> Nat] /\ reach = Put(top, c, top[ex])
  BY DEF Core, Typed, Pending
<1>6. reach[c] = top[ex] /\ \A q \in Pages : q # c => reach[q] = top[q]
  BY <1>3, <1>5 DEF Put
<1>7. Gains(n3, nd[p], lo[p], top[p], i, sp, ex)
  <2>0. PICK n \in Nodes, a \in Nat, b \in Nat : n = nd[p] /\ a = lo[p] /\ b = top[p]
    BY <1>2
  <2>1. LowOf(n, a, i) < sp /\ sp < HighOf(n, b, i) /\ i \in 1..Len(n.children)
    BY <2>0, <1>1, <1>3, <1>4, <1>6
  <2>2. a < b /\ InnerOK(n, a, b)
    BY <2>0, <1>1, <1>2
  <2>3. n3.entries = InsertAt(n.entries, i, sp) /\ n3.children = InsertAt(n.children, i + 1, ex)
    BY <2>0
  <2>4. Gains(n3, n, a, b, i, sp, ex)
    BY <2>1, <2>2, <2>3, <1>4, TakenIn
  <2> QED
    BY <2>0, <2>4
<1>8. ASSUME NEW q \in InUse(nd), NEW j \in 1..Len(nd[q].children), nd[q].children[j] = c
      PROVE  q = p /\ j = i
  BY <1>8, OneParent
<1>9. ASSUME NEW j \in 1..Len(nd[p].children)
      PROVE  /\ nd[p].children[j] \in InUse(nd) /\ lev[nd[p].children[j]] + 1 = lev[p]
             /\ lo[nd[p].children[j]] = LowOf(nd[p], lo[p], j)
             /\ j # i => top[nd[p].children[j]] = HighOf(nd[p], top[p], j)
  <2>1. ChildrenOK(nd[p], lo[p], top[p], lev[p], InUse(nd), lo, reach, lev)
    BY PageFacts
  <2>2. /\ nd[p].children[j] \in InUse(nd) /\ lev[nd[p].children[j]] + 1 = lev[p]
        /\ lo[nd[p].children[j]] = LowOf(nd[p], lo[p], j)
        /\ reach[nd[p].children[j]] = HighOf(nd[p], top[p], j)
    BY <2>1 DEF ChildrenOK
  <2>3. j # i => nd[p].children[j] # c
    BY <1>8
  <2> QED
    BY <2>2, <2>3, <1>6 DEF InUse
<1>10. ChildrenOK(n3, lo[p], top[p], lev[p], InUse(nd), lo, top, lev)
  <2>0. PICK n \in Nodes, a \in Nat, b \in Nat : n = nd[p] /\ a = lo[p] /\ b = top[p]
    BY <1>2
  <2>1. /\ Len(n3.children) = Len(n.children) + 1
        /\ \A j \in 1..Len(n3.children) :
             /\ n3.children[j] = IF j < i + 1 THEN n.children[j] ELSE IF j = i + 1 THEN ex
                                 ELSE n.children[j - 1]
             /\ LowOf(n3, a, j) = IF j < i + 1 THEN LowOf(n, a, j) ELSE IF j = i + 1 THEN sp
                                  ELSE LowOf(n, a, j - 1)
             /\ HighOf(n3, b, j) = IF j < i THEN HighOf(n, b, j) ELSE IF j = i THEN sp
                                   ELSE HighOf(n, b, j - 1)
    BY <2>0, <1>7 DEF Gains
  <2>2. Len(n.children) \in Nat /\ i \in Nat /\ i >= 1 /\ i <= Len(n.children)
    BY <2>0, NodeFacts
  <2>3. ASSUME NEW j \in 1..Len(n3.children)
        PROVE  /\ n3.children[j] \in InUse(nd) /\ lev[n3.children[j]] + 1 = lev[p]
               /\ lo[n3.children[j]] = LowOf(n3, a, j) /\ top[n3.children[j]] = HighOf(n3, b, j)
    <3>1. j \in Nat /\ j >= 1 /\ j <= Len(n.children) + 1 /\ i + 1 # i
      BY <2>1, <2>2
    <3>2. CASE j < i
      <4>1. /\ n3.children[j] = n.children[j] /\ LowOf(n3, a, j) = LowOf(n, a, j)
            /\ HighOf(n3, b, j) = HighOf(n, b, j) /\ j # i /\ j \in 1..Len(n.children)
        BY <2>1, <2>2, <3>1, <3>2
      <4> QED
        BY <4>1, <2>0, <1>9
    <3>3. CASE j = i
      <4>1. /\ n3.children[j] = c /\ LowOf(n3, a, j) = LowOf(n, a, i) /\ HighOf(n3, b, j) = sp
        BY <2>0, <2>1, <2>2, <3>1, <3>3
      <4> QED
        BY <4>1, <2>0, <1>1, <1>4
    <3>4. CASE j = i + 1
      <4>1. n3.children[j] = ex /\ LowOf(n3, a, j) = sp /\ HighOf(n3, b, j) = HighOf(n, b, i)
        <5>1. ~(j < i + 1) /\ ~(j < i) /\ j # i /\ j - 1 = i
          BY <2>2, <3>4
        <5> QED
          BY <5>1, <2>1, <3>4
      <4> QED
        BY <4>1, <2>0, <1>1, <1>4, <1>6
    <3>5. CASE i + 1 < j
      <4>0. /\ ~(j < i + 1) /\ ~(j < i) /\ j # i /\ j # i + 1 /\ j - 1 # i
            /\ j - 1 \in 1..Len(n.children)
        BY <2>2, <3>1, <3>5
      <4>1. /\ n3.children[j] = n.children[j - 1] /\ LowOf(n3, a, j) = LowOf(n, a, j - 1)
            /\ HighOf(n3, b, j) = HighOf(n, b, j - 1)
        BY <2>1, <4>0
      <4> QED
        BY <4>0, <4>1, <2>0, <1>9
    <3> QED
      BY <3>1, <3>2, <3>3, <3>4, <3>5, <2>2
  <2> QED
    BY <2>0, <2>3 DEF ChildrenOK
<1>11. NodeOK(nd2[p], lo[p], top[p], lev[p], InUse(nd), lo, top, lev)
  BY <1>7, <1>10 DEF NodeOK, Gains
<1>12. ASSUME NEW q \in InUse(nd), q # p, NEW j \in 1..Len(nd[q].children)
       PROVE  top[nd[q].children[j]] = reach[nd[q].children[j]]
  <2>1. nd[q].children[j] # c /\ nd[q].children[j] \in InUse(nd)
    BY <1>8, <1>12, ChildFacts
  <2> QED
    BY <2>1, <1>6 DEF InUse
<1>13. nd2[p].kind = nd[p].kind /\ nd2[p].next = nd[p].next
  BY <1>1, <1>2
<1>14. InUse(nd2) = InUse(nd) /\ Core(nd2, lo, top, top, lev)
  <2>1. Unmoved(nd, p, reach, top)
    BY <1>12 DEF Unmoved
  <2> QED
    BY <2>1, <1>5, <1>11, <1>13, Replace
<1> QED
  BY <1>7, <1>14

\* The page at the top: everything is below it.
Rules(nd, rt, lo, reach, lev) ==
    /\ rt \in InUse(nd) /\ lo[rt] = 0 /\ reach[rt] = Top
    /\ \A p \in InUse(nd) : lev[p] <= lev[rt]

RootOver(nd, lo, top, reach, lev, rt, ex, sp, r, nd2) ==
    /\ Core(nd, lo, top, reach, lev) /\ Rules(nd, rt, lo, reach, lev)
    /\ ex \in InUse(nd) /\ ex # rt /\ sp \in Entries /\ Pending(top, lo, reach, lev, rt, sp, ex)
    /\ r \in Pages /\ r \notin InUse(nd)
    /\ nd2 \in [Pages -> Nodes] /\ nd2[r] = Internal(<<sp>>, <<rt, ex>>)
    /\ \A q \in Pages : q # r => nd2[q] = nd[q]

\* A new page on top of one that was split.
LEMMA Rooted ==
    ASSUME NEW nd, NEW lo, NEW top, NEW reach, NEW lev, NEW rt, NEW ex, NEW sp, NEW r, NEW nd2,
           RootOver(nd, lo, top, reach, lev, rt, ex, sp, r, nd2)
    PROVE  /\ InUse(nd2) = InUse(nd) \cup {r}
           /\ Core(nd2, Put(lo, r, 0), Put(top, r, Top), Put(top, r, Top), Put(lev, r, lev[rt] + 1))
           /\ Rules(nd2, r, Put(lo, r, 0), Put(top, r, Top), Put(lev, r, lev[rt] + 1))
<1> USE DEF RootOver
<1> DEFINE lo2 == Put(lo, r, 0)
           top2 == Put(top, r, Top)
           lev2 == Put(lev, r, lev[rt] + 1)
           n == Internal(<<sp>>, <<rt, ex>>)
<1>1. /\ lo \in [Pages -> Nat] /\ top \in [Pages -> Nat] /\ lev \in [Pages -> Nat]
      /\ reach = Put(top, rt, top[ex])
  BY DEF Core, Typed, Pending
<1>2. /\ rt \in InUse(nd) /\ lo[rt] = 0 /\ reach[rt] = Top /\ rt \in Pages /\ ex \in Pages
      /\ \A q \in InUse(nd) : lev[q] <= lev[rt]
      /\ lev[ex] = lev[rt] /\ lo[ex] = sp /\ top[rt] = sp
  BY DEF Rules, Pending, InUse
<1>3. reach[rt] = top[ex] /\ \A q \in Pages : q # rt => reach[q] = top[q]
  BY <1>1, <1>2 DEF Put
<1>4. 0 < sp /\ sp < Top /\ sp \in Nat /\ Top \in Nat /\ lev[rt] \in Nat
  BY <1>1, <1>2, EntryBounds
<1>5. n \in Nodes /\ n.kind = "internal" /\ n.entries = <<sp>> /\ n.children = <<rt, ex>> /\ n.next = NoPage
  <2>1. <<sp>> \in Seq(Entries) /\ <<rt, ex>> \in Seq(Pages)
    BY <1>2
  <2>2. PICK u \in Seq(Entries), v \in Seq(Pages) : u = <<sp>> /\ v = <<rt, ex>>
    BY <2>1, Zenon
  <2>3. /\ Internal(u, v) \in Nodes /\ Internal(u, v).kind = "internal"
        /\ Internal(u, v).entries = u /\ Internal(u, v).children = v /\ Internal(u, v).next = NoPage
    BY InternalIn
  <2> QED
    BY <2>2, <2>3
<1> HIDE DEF n
<1>6. Len(n.entries) = 1 /\ n.entries[1] = sp /\ Len(n.children) = 2
      /\ n.children[1] = rt /\ n.children[2] = ex
  BY <1>5
<1>7. InUse(nd2) = InUse(nd) \cup {r}
  BY <1>5 DEF InUse, n
<1>8. /\ lo2[r] = 0 /\ top2[r] = Top /\ lev2[r] = lev[rt] + 1
      /\ \A q \in Pages : q # r => lo2[q] = lo[q] /\ top2[q] = top[q] /\ lev2[q] = lev[q]
  BY <1>1 DEF Put
<1>9. Typed(nd2, lo2, top2, top2, lev2)
  BY <1>1, <1>4 DEF Typed, Put
<1> HIDE DEF lo2, top2, lev2
<1>10. \A q \in InUse(nd) : q \in Pages /\ q # r
  BY DEF InUse
<1>11. Spans(InUse(nd2), lo2, top2)
  <2> SUFFICES ASSUME NEW q \in InUse(nd2)
               PROVE  lo2[q] < top2[q] /\ top2[q] <= Top
    BY DEF Spans
  <2>1. CASE q = r
    BY <2>1, <1>4, <1>8
  <2>2. CASE q # r
    BY <2>2, <1>7, <1>8, <1>10, PageFacts
  <2> QED
    BY <2>1, <2>2
<1>12. Disjoint(InUse(nd2), lo2, top2, lev2)
  <2> SUFFICES ASSUME NEW q \in InUse(nd2), NEW t \in InUse(nd2), q # t, lev2[q] = lev2[t]
               PROVE  top2[q] <= lo2[t] \/ top2[t] <= lo2[q]
    BY DEF Disjoint
  <2>1. \A u \in InUse(nd) : lev2[u] # lev2[r]
    <3> TAKE u \in InUse(nd)
    <3>1. lev[u] <= lev[rt] /\ lev[u] \in Nat /\ lev2[u] = lev[u]
      BY <1>1, <1>2, <1>8, <1>10
    <3> QED
      BY <3>1, <1>4, <1>8
  <2>2. q \in InUse(nd) /\ t \in InUse(nd)
    BY <2>1, <1>7
  <2>3. lev[q] = lev[t]
    BY <2>2, <1>8, <1>10
  <2>4. top[q] <= lo[t] \/ top[t] <= lo[q]
    BY <2>2, <2>3 DEF Core, Disjoint
  <2> QED
    BY <2>2, <2>4, <1>8, <1>10
<1>13. Chained(nd2, lo2, top2)
  <2> SUFFICES ASSUME NEW q \in InUse(nd2), nd2[q].kind = "leaf"
               PROVE  IF nd2[q].next = NoPage THEN top2[q] = Top
                      ELSE /\ nd2[q].next \in InUse(nd2) /\ nd2[nd2[q].next].kind = "leaf"
                           /\ lo2[nd2[q].next] = top2[q]
    BY DEF Chained
  <2>1. q \in InUse(nd) /\ q # r
    BY <1>5, <1>7 DEF n
  <2>2. nd2[q] = nd[q] /\ top2[q] = top[q]
    BY <2>1, <1>8, <1>10
  <2>3. IF nd[q].next = NoPage THEN top[q] = Top
        ELSE /\ nd[q].next \in InUse(nd) /\ nd[nd[q].next].kind = "leaf"
             /\ lo[nd[q].next] = top[q]
    BY <2>1, <2>2 DEF Core, Chained
  <2>4. nd[q].next # NoPage => nd2[nd[q].next] = nd[nd[q].next] /\ lo2[nd[q].next] = lo[nd[q].next]
                               /\ nd[q].next \in InUse(nd2)
    BY <2>3, <1>7, <1>8, <1>10
  <2> QED
    BY <2>2, <2>3, <2>4
<1>14. ASSUME NEW q \in InUse(nd)
       PROVE  NodeOK(nd2[q], lo2[q], top2[q], lev2[q], InUse(nd2), lo2, top2, lev2)
  <2>1. nd2[q] = nd[q] /\ lo2[q] = lo[q] /\ top2[q] = top[q] /\ lev2[q] = lev[q]
    BY <1>8, <1>10
  <2>2. NodeOK(nd[q], lo[q], top[q], lev[q], InUse(nd), lo, reach, lev)
    BY DEF Core
  <2>3. ASSUME NEW i \in 1..Len(nd[q].children)
        PROVE  /\ nd[q].children[i] \in InUse(nd2)
               /\ lev2[nd[q].children[i]] = lev[nd[q].children[i]]
               /\ lo2[nd[q].children[i]] = lo[nd[q].children[i]]
               /\ top2[nd[q].children[i]] = reach[nd[q].children[i]]
    <3>1. PICK c \in InUse(nd) : c = nd[q].children[i] /\ lev[c] + 1 = lev[q]
      BY <2>2 DEF NodeOK, ChildrenOK
    <3>2. lev[q] <= lev[rt] /\ lev[q] \in Nat
      BY <1>1, <1>2, <1>10
    <3>3. c # rt
      BY <3>1, <3>2, <1>4
    <3> QED
      BY <3>1, <3>3, <1>3, <1>7, <1>8, <1>10
  <2>4. NodeOK(nd[q], lo[q], top[q], lev[q], InUse(nd2), lo2, top2, lev2)
    BY <2>2, <2>3, SameChildren
  <2> QED
    BY <2>1, <2>4
<1>15. NodeOK(n, 0, Top, lev[rt] + 1, InUse(nd2), lo2, top2, lev2)
  <2>1. InnerOK(n, 0, Top)
    BY <1>4, <1>5, <1>6 DEF InnerOK, Ascending
  <2>2. /\ lo2[rt] = 0 /\ top2[rt] = sp /\ lev2[rt] = lev[rt] /\ rt \in InUse(nd2)
        /\ lo2[ex] = sp /\ top2[ex] = Top /\ lev2[ex] = lev[rt] /\ ex \in InUse(nd2)
    BY <1>2, <1>3, <1>7, <1>8, <1>10
  <2>3. /\ LowOf(n, 0, 1) = 0 /\ HighOf(n, Top, 1) = sp
        /\ LowOf(n, 0, 2) = sp /\ HighOf(n, Top, 2) = Top
    BY <1>6 DEF LowOf, HighOf
  <2>4. \A i \in 1..Len(n.children) : i = 1 \/ i = 2
    BY <1>6
  <2>5. ChildrenOK(n, 0, Top, lev[rt] + 1, InUse(nd2), lo2, top2, lev2)
    BY <2>2, <2>3, <2>4, <1>6 DEF ChildrenOK
  <2> QED
    BY <2>1, <2>5 DEF NodeOK
<1>16. ASSUME NEW q \in InUse(nd2)
       PROVE  NodeOK(nd2[q], lo2[q], top2[q], lev2[q], InUse(nd2), lo2, top2, lev2)
  <2>1. CASE q = r
    BY <2>1, <1>8, <1>15 DEF n
  <2>2. CASE q # r
    BY <2>2, <1>7, <1>14
  <2> QED
    BY <2>1, <2>2
<1>17. Core(nd2, lo2, top2, top2, lev2)
  BY <1>9, <1>11, <1>12, <1>13, <1>16 DEF Core
<1>18. Rules(nd2, r, lo2, top2, lev2)
  <2>1. ASSUME NEW q \in InUse(nd2)
        PROVE  lev2[q] <= lev2[r]
    <3>1. CASE q = r
      BY <3>1, <1>4, <1>8
    <3>2. CASE q # r
      <4>1. q \in InUse(nd) /\ lev[q] <= lev[rt] /\ lev[q] \in Nat /\ lev2[q] = lev[q]
        BY <3>2, <1>1, <1>2, <1>7, <1>8, <1>10
      <4> QED
        BY <4>1, <1>4, <1>8
    <3> QED
      BY <3>1, <3>2
  <2> QED
    BY <2>1, <1>7, <1>8 DEF Rules
<1> QED
  BY <1>7, <1>17, <1>18 DEF lo2, top2, lev2

CollapseOf(nd, lo, top, lev, rt, nd2) ==
    /\ Core(nd, lo, top, top, lev) /\ Rules(nd, rt, lo, top, lev)
    /\ nd[rt].kind = "internal" /\ nd[rt].entries = <<>>
    /\ nd2 \in [Pages -> Nodes] /\ nd2[rt] = FreePage
    /\ \A q \in Pages : q # rt => nd2[q] = nd[q]

\* A root with one child is released.
LEMMA Collapsed ==
    ASSUME NEW nd, NEW lo, NEW top, NEW lev, NEW rt, NEW nd2,
           CollapseOf(nd, lo, top, lev, rt, nd2)
    PROVE  /\ InUse(nd2) = InUse(nd) \ {rt}
           /\ Core(nd2, lo, top, top, lev)
           /\ Rules(nd2, nd[rt].children[1], lo, top, lev)
<1> USE DEF CollapseOf
<1>1. /\ rt \in InUse(nd) /\ lo[rt] = 0 /\ top[rt] = Top /\ rt \in Pages
      /\ \A q \in InUse(nd) : lev[q] <= lev[rt]
  BY DEF Rules, InUse
<1>2. /\ InnerOK(nd[rt], lo[rt], top[rt]) /\ nd[rt] \in Nodes /\ lev[rt] \in Nat
  BY <1>1, PageFacts
<1>3. Len(nd[rt].children) = 1
  BY <1>2, NoElements DEF InnerOK
<1>4. PICK c : c = nd[rt].children[1]
  OBVIOUS
<1>5. /\ c \in InUse(nd) /\ lev[c] + 1 = lev[rt] /\ lo[c] = 0 /\ top[c] = Top
  <2>1. ChildrenOK(nd[rt], lo[rt], top[rt], lev[rt], InUse(nd), lo, top, lev)
    BY <1>1, PageFacts
  <2>2. 1 \in 1..Len(nd[rt].children)
    BY <1>3
  <2> QED
    BY <2>1, <2>2, <1>1, <1>3, <1>4 DEF ChildrenOK, LowOf, HighOf
<1>6. /\ \A q \in InUse(nd) : q \in Pages /\ lev[q] \in Nat /\ lo[q] \in Nat /\ lo[q] < Top /\ lo[q] < top[q]
      /\ c # rt
  <2>1. ASSUME NEW q \in InUse(nd)
        PROVE  q \in Pages /\ lev[q] \in Nat /\ lo[q] \in Nat /\ lo[q] < Top /\ lo[q] < top[q]
    <3>1. lo[q] < top[q] /\ top[q] <= Top /\ lo[q] \in Nat /\ top[q] \in Nat /\ Top \in Nat
      BY PageFacts, EntryBounds
    <3> QED
      BY <3>1, PageFacts
  <2> QED
    BY <2>1, <1>2, <1>5
<1>7. InUse(nd2) = InUse(nd) \ {rt}
  BY <1>1, FreeIn DEF InUse
<1>8. \A q \in InUse(nd) : q # rt => lev[q] # lev[rt]
  <2> TAKE q \in InUse(nd)
  <2> HAVE q # rt
  <2> SUFFICES ASSUME lev[q] = lev[rt]
               PROVE  FALSE
    OBVIOUS
  <2>1. lo[q] \in Nat /\ lo[rt] <= lo[q] /\ lo[q] < top[rt] /\ lo[q] < top[q] /\ lo[q] <= lo[q]
    BY <1>1, <1>6
  <2> QED
    BY <2>1, <1>1, SamePage
<1>9. Typed(nd2, lo, top, top, lev) /\ Spans(InUse(nd2), lo, top) /\ Disjoint(InUse(nd2), lo, top, lev)
  BY <1>7 DEF Core, Typed, Spans, Disjoint
<1>10. Chained(nd2, lo, top)
  <2> SUFFICES ASSUME NEW q \in InUse(nd), q # rt, nd2[q].kind = "leaf"
               PROVE  IF nd2[q].next = NoPage THEN top[q] = Top
                      ELSE /\ nd2[q].next \in InUse(nd2) /\ nd2[nd2[q].next].kind = "leaf"
                           /\ lo[nd2[q].next] = top[q]
    BY <1>7 DEF Chained
  <2>1. nd2[q] = nd[q]
    BY <1>6
  <2>2. IF nd[q].next = NoPage THEN top[q] = Top
        ELSE /\ nd[q].next \in InUse(nd) /\ nd[nd[q].next].kind = "leaf"
             /\ lo[nd[q].next] = top[q]
    BY <2>1 DEF Core, Chained
  <2>3. nd[q].next # NoPage => nd[q].next # rt /\ nd2[nd[q].next] = nd[nd[q].next]
                               /\ nd[q].next \in InUse(nd2)
    BY <2>2, <1>6, <1>7
  <2> QED
    BY <2>1, <2>2, <2>3
<1>11. ASSUME NEW q \in InUse(nd2)
       PROVE  NodeOK(nd2[q], lo[q], top[q], lev[q], InUse(nd2), lo, top, lev)
  <2>1. q \in InUse(nd) /\ q # rt /\ nd2[q] = nd[q]
    BY <1>6, <1>7
  <2>2. NodeOK(nd[q], lo[q], top[q], lev[q], InUse(nd), lo, top, lev)
    BY <2>1 DEF Core
  <2>3. ASSUME NEW i \in 1..Len(nd[q].children)
        PROVE  nd[q].children[i] \in InUse(nd2)
    <3>1. PICK d \in InUse(nd) : d = nd[q].children[i] /\ lev[d] + 1 = lev[q]
      BY <2>2 DEF NodeOK, ChildrenOK
    <3>2. lev[q] <= lev[rt] /\ lev[q] \in Nat /\ lev[d] \in Nat
      BY <2>1, <1>1, <1>6
    <3>3. d # rt
      BY <3>1, <3>2, <1>2
    <3> QED
      BY <3>1, <3>3, <1>7
  <2>4. NodeOK(nd[q], lo[q], top[q], lev[q], InUse(nd2), lo, top, lev)
    BY <2>2, <2>3, SameChildren
  <2> QED
    BY <2>1, <2>4
<1>12. Core(nd2, lo, top, top, lev)
  BY <1>9, <1>10, <1>11 DEF Core
<1>13. Rules(nd2, c, lo, top, lev)
  <2>1. ASSUME NEW q \in InUse(nd2)
        PROVE  lev[q] <= lev[c]
    <3>1. lev[q] <= lev[rt] /\ lev[q] # lev[rt] /\ lev[q] \in Nat
      BY <1>1, <1>6, <1>7, <1>8
    <3>2. lev[c] \in Nat
      BY <1>5, <1>6
    <3> QED
      BY <3>1, <3>2, <1>2, <1>5
  <2> QED
    BY <2>1, <1>5, <1>6, <1>7 DEF Rules
<1> QED
  BY <1>4, <1>7, <1>12, <1>13

-----------------------------------------------------------------------------
(***************************************************************************)
(* Nodes cut in two and joined.                                             *)
(***************************************************************************)
Held(n) == {n.entries[i] : i \in 1..Len(n.entries)}

\* The first i entries and those behind the next d.
Cut(n, i, d, n1, n2) ==
    /\ Len(n1.entries) = i /\ \A j \in 1..i : n1.entries[j] = n.entries[j]
    /\ Len(n2.entries) = Len(n.entries) - (i + d)
    /\ \A j \in 1..Len(n.entries) - (i + d) : n2.entries[j] = n.entries[i + d + j]

CutBelow(n, i, n1, n2) ==
    /\ Len(n1.children) = i + 1 /\ \A j \in 1..i + 1 : n1.children[j] = n.children[j]
    /\ Len(n2.children) = Len(n.children) - (i + 1)
    /\ \A j \in 1..Len(n.children) - (i + 1) : n2.children[j] = n.children[i + 1 + j]

LEMMA CutEntries ==
    ASSUME NEW n \in Nodes, NEW n1 \in Nodes, NEW n2 \in Nodes, NEW d \in {0, 1},
           Ascending(n.entries), NEW i \in 1..Len(n.entries) - 1, Cut(n, i, d, n1, n2)
    PROVE  /\ Ascending(n1.entries) /\ Ascending(n2.entries)
           /\ n.entries[i + 1] \in Entries
           /\ \A j \in 1..Len(n1.entries) : n1.entries[j] < n.entries[i + 1]
           /\ \A j \in 1..Len(n2.entries) :
                /\ n.entries[i + 1] <= n2.entries[j]
                /\ d = 1 => n.entries[i + 1] < n2.entries[j]
<1>1. /\ Len(n.entries) \in Nat
      /\ \A j \in 1..Len(n.entries) : n.entries[j] \in Nat /\ n.entries[j] \in Entries
  BY NodeFacts
<1>2. i \in Nat /\ d \in Nat /\ i + 1 \in 1..Len(n.entries) /\ \A j \in 1..i : j \in 1..Len(n.entries) /\ j < i + 1
  BY <1>1
<1>3. \A j \in 1..Len(n.entries) - (i + d) :
         i + d + j \in 1..Len(n.entries) /\ i + 1 <= i + d + j /\ (d = 1 => i + 1 < i + d + j)
  BY <1>1, <1>2
<1>4. \A j, k \in 1..Len(n.entries) : j < k => n.entries[j] < n.entries[k]
  BY DEF Ascending
<1>5. Ascending(n1.entries)
  BY <1>2, <1>4 DEF Cut, Ascending
<1>6. Ascending(n2.entries)
  <2> SUFFICES ASSUME NEW j \in 1..Len(n.entries) - (i + d), NEW k \in 1..Len(n.entries) - (i + d), j < k
               PROVE  n2.entries[j] < n2.entries[k]
    BY DEF Cut, Ascending
  <2>1. i + d + j < i + d + k
    BY <1>1, <1>2
  <2>2. n.entries[i + d + j] < n.entries[i + d + k]
    BY <2>1, <1>3, <1>4
  <2> QED
    BY <2>2 DEF Cut
<1>7. \A j \in 1..Len(n1.entries) : n1.entries[j] < n.entries[i + 1]
  BY <1>2, <1>4 DEF Cut
<1>8. ASSUME NEW j \in 1..Len(n2.entries)
      PROVE  n.entries[i + 1] <= n2.entries[j] /\ (d = 1 => n.entries[i + 1] < n2.entries[j])
  <2>1. PICK k : k = i + d + j
    OBVIOUS
  <2>2. /\ k \in 1..Len(n.entries) /\ i + 1 <= k /\ (d = 1 => i + 1 < k)
        /\ n2.entries[j] = n.entries[k]
    BY <2>1, <1>3 DEF Cut
  <2>3. i + 1 < k => n.entries[i + 1] < n.entries[k]
    BY <2>2, <1>2, <1>4
  <2>4. n.entries[i + 1] \in Nat /\ n.entries[k] \in Nat /\ (i + 1 = k \/ i + 1 < k)
    BY <2>2, <1>1, <1>2
  <2> QED
    BY <2>2, <2>3, <2>4
<1> QED
  BY <1>1, <1>2, <1>5, <1>6, <1>7, <1>8

\* A leaf cut in two.
LEMMA LeafCut ==
    ASSUME NEW n \in Nodes, NEW n1 \in Nodes, NEW n2 \in Nodes, NEW a \in Nat, NEW b \in Nat,
           LeafOK(n, a, b), n1.kind = "leaf", n2.kind = "leaf",
           n1.children = <<>>, n2.children = <<>>,
           NEW i \in 1..Len(n.entries) - 1, Cut(n, i, 0, n1, n2)
    PROVE  /\ n.entries[i + 1] \in Entries /\ a < n.entries[i + 1] /\ n.entries[i + 1] < b
           /\ LeafOK(n1, a, n.entries[i + 1]) /\ LeafOK(n2, n.entries[i + 1], b)
           /\ Held(n) = Held(n1) \cup Held(n2)
<1>1. /\ Len(n.entries) \in Nat /\ \A j \in 1..Len(n.entries) : n.entries[j] \in Nat
      /\ Ascending(n.entries)
      /\ \A j \in 1..Len(n.entries) : a <= n.entries[j] /\ n.entries[j] < b
  BY NodeFacts DEF LeafOK
<1>2. i + 1 \in 1..Len(n.entries) /\ 1 \in 1..Len(n.entries) /\ 1 < i + 1
  BY <1>1
<1>3. /\ Ascending(n1.entries) /\ Ascending(n2.entries)
      /\ n.entries[i + 1] \in Entries
      /\ \A j \in 1..Len(n1.entries) : n1.entries[j] < n.entries[i + 1]
      /\ \A j \in 1..Len(n2.entries) : n.entries[i + 1] <= n2.entries[j]
  BY <1>1, CutEntries
<1>4. a < n.entries[i + 1] /\ n.entries[i + 1] < b
  BY <1>1, <1>2 DEF Ascending
<1>5. \A j \in 1..Len(n1.entries) : a <= n1.entries[j]
  <2> TAKE j \in 1..Len(n1.entries)
  <2>1. j \in 1..i /\ j \in 1..Len(n.entries)
    BY <1>1 DEF Cut
  <2> QED
    BY <2>1, <1>1 DEF Cut
<1>6. \A j \in 1..Len(n2.entries) : n2.entries[j] < b
  <2> TAKE j \in 1..Len(n2.entries)
  <2>1. j \in 1..Len(n.entries) - (i + 0) /\ i + 0 + j \in 1..Len(n.entries)
    BY <1>1 DEF Cut
  <2> QED
    BY <2>1, <1>1 DEF Cut
<1>7. LeafOK(n1, a, n.entries[i + 1]) /\ LeafOK(n2, n.entries[i + 1], b)
  BY <1>3, <1>5, <1>6 DEF LeafOK
<1>8. Held(n1) \cup Held(n2) \subseteq Held(n)
  <2>1. \A j \in 1..i : j \in 1..Len(n.entries)
    BY <1>1
  <2>2. \A j \in 1..Len(n.entries) - (i + 0) : i + 0 + j \in 1..Len(n.entries)
    BY <1>1
  <2>3. \A j \in 1..Len(n1.entries) : n1.entries[j] \in Held(n)
    BY <2>1 DEF Held, Cut
  <2>4. ASSUME NEW j \in 1..Len(n2.entries)
        PROVE  n2.entries[j] \in Held(n)
    <3>1. PICK k : k = i + 0 + j
      OBVIOUS
    <3>2. k \in 1..Len(n.entries) /\ n2.entries[j] = n.entries[k]
      BY <2>2, <3>1 DEF Cut
    <3> QED
      BY <3>2 DEF Held
  <2> QED
    BY <2>3, <2>4 DEF Held
<1>9. Held(n) \subseteq Held(n1) \cup Held(n2)
  <2> SUFFICES ASSUME NEW j \in 1..Len(n.entries)
               PROVE  n.entries[j] \in Held(n1) \cup Held(n2)
    BY DEF Held
  <2>1. CASE j <= i
    <3>1. j \in 1..i
      BY <2>1
    <3> QED
      BY <3>1 DEF Held, Cut
  <2>2. CASE i < j
    <3>1. j - i \in 1..Len(n.entries) - (i + 0) /\ i + 0 + (j - i) = j
      BY <2>2, <1>1
    <3>2. n2.entries[j - i] = n.entries[j] /\ j - i \in 1..Len(n2.entries)
      BY <3>1 DEF Cut
    <3> QED
      BY <3>2 DEF Held
  <2> QED
    BY <2>1, <2>2, <1>1
<1> QED
  BY <1>3, <1>4, <1>7, <1>8, <1>9

\* An inner node cut in two; separator i + 1 goes up.
LEMMA InnerCut ==
    ASSUME NEW n \in Nodes, NEW n1 \in Nodes, NEW n2 \in Nodes, NEW a \in Nat, NEW b \in Nat,
           NEW l, NEW U, NEW lo, NEW reach, NEW lev,
           InnerOK(n, a, b), ChildrenOK(n, a, b, l, U, lo, reach, lev),
           n1.kind = "internal", n2.kind = "internal", n1.next = NoPage, n2.next = NoPage,
           NEW i \in 1..Len(n.entries) - 1, Cut(n, i, 1, n1, n2), CutBelow(n, i, n1, n2)
    PROVE  /\ n.entries[i + 1] \in Entries /\ a < n.entries[i + 1] /\ n.entries[i + 1] < b
           /\ InnerOK(n1, a, n.entries[i + 1]) /\ InnerOK(n2, n.entries[i + 1], b)
           /\ ChildrenOK(n1, a, n.entries[i + 1], l, U, lo, reach, lev)
           /\ ChildrenOK(n2, n.entries[i + 1], b, l, U, lo, reach, lev)
<1>1. /\ Len(n.entries) \in Nat /\ \A j \in 1..Len(n.entries) : n.entries[j] \in Nat
      /\ Ascending(n.entries) /\ Len(n.children) = Len(n.entries) + 1
      /\ \A j \in 1..Len(n.entries) : a < n.entries[j] /\ n.entries[j] < b
  BY NodeFacts DEF InnerOK
<1>2. i \in Nat /\ i + 1 \in 1..Len(n.entries)
  BY <1>1
<1>3. /\ Ascending(n1.entries) /\ Ascending(n2.entries)
      /\ n.entries[i + 1] \in Entries
      /\ \A j \in 1..Len(n1.entries) : n1.entries[j] < n.entries[i + 1]
      /\ \A j \in 1..Len(n2.entries) : n.entries[i + 1] < n2.entries[j]
  <2>1. 1 \in {0, 1}
    OBVIOUS
  <2> QED
    BY <2>1, <1>1, CutEntries
<1>4. a < n.entries[i + 1] /\ n.entries[i + 1] < b
  BY <1>1, <1>2
<1>5. /\ Len(n1.entries) = i /\ \A j \in 1..i : n1.entries[j] = n.entries[j] /\ j \in 1..Len(n.entries)
      /\ Len(n2.entries) = Len(n.entries) - (i + 1)
      /\ \A j \in 1..Len(n2.entries) : n2.entries[j] = n.entries[i + 1 + j] /\ i + 1 + j \in 1..Len(n.entries)
  BY <1>1, <1>2 DEF Cut
<1>6. /\ Len(n1.children) = i + 1 /\ Len(n2.children) = Len(n2.entries) + 1
      /\ \A j \in 1..i + 1 : n1.children[j] = n.children[j] /\ j \in 1..Len(n.children)
      /\ \A j \in 1..Len(n2.children) :
           n2.children[j] = n.children[i + 1 + j] /\ i + 1 + j \in 1..Len(n.children)
  BY <1>1, <1>2, <1>5 DEF CutBelow
<1>7. InnerOK(n1, a, n.entries[i + 1])
  <2>1. \A j \in 1..Len(n1.entries) : a < n1.entries[j]
    BY <1>1, <1>5
  <2> QED
    BY <2>1, <1>3, <1>5, <1>6 DEF InnerOK
<1>8. InnerOK(n2, n.entries[i + 1], b)
  <2>1. \A j \in 1..Len(n2.entries) : n2.entries[j] < b
    BY <1>1, <1>5
  <2> QED
    BY <2>1, <1>3, <1>6 DEF InnerOK
<1>9. ChildrenOK(n1, a, n.entries[i + 1], l, U, lo, reach, lev)
  <2> SUFFICES ASSUME NEW j \in 1..Len(n1.children)
               PROVE  /\ n1.children[j] \in U /\ lev[n1.children[j]] + 1 = l
                      /\ lo[n1.children[j]] = LowOf(n1, a, j)
                      /\ reach[n1.children[j]] = HighOf(n1, n.entries[i + 1], j)
    BY DEF ChildrenOK
  <2>1. j \in 1..i + 1 /\ j \in 1..Len(n.children) /\ n1.children[j] = n.children[j]
    BY <1>6
  <2>2. /\ n.children[j] \in U /\ lev[n.children[j]] + 1 = l
        /\ lo[n.children[j]] = LowOf(n, a, j) /\ reach[n.children[j]] = HighOf(n, b, j)
    BY <2>1 DEF ChildrenOK
  <2>3. LowOf(n1, a, j) = LowOf(n, a, j)
    <3>1. j # 1 => j - 1 \in 1..i
      BY <2>1, <1>2
    <3> QED
      BY <3>1, <1>5 DEF LowOf
  <2>4. HighOf(n1, n.entries[i + 1], j) = HighOf(n, b, j)
    <3>1. j # Len(n.children)
      BY <2>1, <1>1, <1>2
    <3>2. j # i + 1 => j \in 1..i
      BY <2>1, <1>2
    <3> QED
      BY <3>1, <3>2, <1>5, <1>6 DEF HighOf
  <2> QED
    BY <2>1, <2>2, <2>3, <2>4
<1>10. ChildrenOK(n2, n.entries[i + 1], b, l, U, lo, reach, lev)
  <2> SUFFICES ASSUME NEW j \in 1..Len(n2.children)
               PROVE  /\ n2.children[j] \in U /\ lev[n2.children[j]] + 1 = l
                      /\ lo[n2.children[j]] = LowOf(n2, n.entries[i + 1], j)
                      /\ reach[n2.children[j]] = HighOf(n2, b, j)
    BY DEF ChildrenOK
  <2>1. PICK k : k = i + 1 + j
    OBVIOUS
  <2>2. k \in 1..Len(n.children) /\ n2.children[j] = n.children[k]
    BY <2>1, <1>6
  <2>3. /\ n.children[k] \in U /\ lev[n.children[k]] + 1 = l
        /\ lo[n.children[k]] = LowOf(n, a, k) /\ reach[n.children[k]] = HighOf(n, b, k)
    BY <2>2 DEF ChildrenOK
  <2>4. LowOf(n2, n.entries[i + 1], j) = LowOf(n, a, k)
    <3>1. k # 1 /\ k - 1 = i + j
      BY <2>1, <1>1, <1>2
    <3>2. CASE j = 1
      <4>1. k - 1 = i + 1
        BY <3>1, <3>2
      <4> QED
        BY <4>1, <3>1, <3>2 DEF LowOf
    <3>3. CASE j # 1
      <4>1. j - 1 \in 1..Len(n2.entries) /\ i + 1 + (j - 1) = k - 1
        BY <3>3, <3>1, <1>2, <1>5, <1>6, <1>1
      <4>2. n2.entries[j - 1] = n.entries[k - 1]
        BY <4>1, <1>5
      <4> QED
        BY <4>2, <3>1, <3>3 DEF LowOf
    <3> QED
      BY <3>2, <3>3
  <2>5. HighOf(n2, b, j) = HighOf(n, b, k)
    <3>1. j = Len(n2.children) <=> k = Len(n.children)
      <4>1. j \in Nat /\ k = i + 1 + j
        BY <2>1, <1>1, <1>2, <1>5, <1>6
      <4>2. Len(n2.children) = Len(n.children) - (i + 1) /\ Len(n.children) \in Nat
        BY <1>1 DEF CutBelow
      <4> QED
        BY <4>1, <4>2, <1>2
    <3>2. j # Len(n2.children) => j \in 1..Len(n2.entries)
      BY <1>1, <1>2, <1>5, <1>6
    <3> QED
      BY <3>1, <3>2, <2>1, <1>5 DEF HighOf
  <2> QED
    BY <2>2, <2>3, <2>4, <2>5
<1> QED
  BY <1>3, <1>4, <1>7, <1>8, <1>9, <1>10

\* One sequence after the other.
AsOne(t, u, v) ==
    /\ Len(t) = Len(u) + Len(v)
    /\ \A i \in 1..Len(u) + Len(v) : t[i] = IF i <= Len(u) THEN u[i] ELSE v[i - Len(u)]

\* Two leaves joined.
LEMMA LeafJoin ==
    ASSUME NEW n1 \in Nodes, NEW n2 \in Nodes, NEW a \in Nat, NEW s \in Nat, NEW b \in Nat,
           a < s, s < b, LeafOK(n1, a, s), LeafOK(n2, s, b),
           NEW n \in Nodes, n.kind = "leaf", n.children = <<>>,
           AsOne(n.entries, n1.entries, n2.entries)
    PROVE  LeafOK(n, a, b) /\ Held(n) = Held(n1) \cup Held(n2)
<1>1. /\ Len(n1.entries) \in Nat /\ Len(n2.entries) \in Nat
      /\ n1.entries \in Seq(Nat) /\ n2.entries \in Seq(Nat)
      /\ \A i \in 1..Len(n1.entries) : n1.entries[i] \in Nat
      /\ \A i \in 1..Len(n2.entries) : n2.entries[i] \in Nat
  BY NodeFacts
<1>0. PICK x \in Nat, y \in Nat : x = Len(n1.entries) /\ y = Len(n2.entries)
  BY <1>1
<1>2. /\ Len(n.entries) = x + y
      /\ \A i \in 1..x + y :
           n.entries[i] = IF i <= x THEN n1.entries[i] ELSE n2.entries[i - x]
  BY <1>0 DEF AsOne
<1>3. /\ Ascending(n1.entries) /\ Ascending(n2.entries)
      /\ \A i \in 1..Len(n1.entries) : a <= n1.entries[i] /\ n1.entries[i] < s
      /\ \A i \in 1..Len(n2.entries) : s <= n2.entries[i] /\ n2.entries[i] < b
  BY DEF LeafOK
<1>4. ASSUME NEW i \in 1..x + y
      PROVE  \/ i \in 1..x /\ n.entries[i] = n1.entries[i]
             \/ i - x \in 1..y /\ x < i /\ n.entries[i] = n2.entries[i - x]
  BY <1>2
<1>5. \A i \in 1..Len(n.entries) : a <= n.entries[i] /\ n.entries[i] < b
  <2> SUFFICES ASSUME NEW i \in 1..x + y
               PROVE  a <= n.entries[i] /\ n.entries[i] < b
    BY <1>2
  <2>1. CASE i \in 1..x /\ n.entries[i] = n1.entries[i]
    BY <2>1, <1>0, <1>1, <1>3
  <2>2. CASE i - x \in 1..y /\ n.entries[i] = n2.entries[i - x]
    BY <2>2, <1>0, <1>1, <1>3
  <2> QED
    BY <2>1, <2>2, <1>4
<1>6. Ascending(n.entries)
  <2> SUFFICES ASSUME NEW i \in 1..x + y, NEW j \in 1..x + y, i < j
               PROVE  n.entries[i] < n.entries[j]
    BY <1>2 DEF Ascending
  <2>2. CASE j \in 1..x /\ n.entries[j] = n1.entries[j]
    <3>1. i \in 1..x /\ n.entries[i] = n1.entries[i]
      BY <2>2, <1>2
    <3> QED
      BY <3>1, <2>2, <1>0, <1>3 DEF Ascending
  <2>3. CASE j - x \in 1..y /\ n.entries[j] = n2.entries[j - x]
    <3>1. CASE i \in 1..x /\ n.entries[i] = n1.entries[i]
      <4>1. n.entries[i] < s /\ s <= n.entries[j] /\ n.entries[i] \in Nat /\ n.entries[j] \in Nat
        BY <3>1, <2>3, <1>0, <1>1, <1>3
      <4> QED
        BY <4>1
    <3>2. CASE i - x \in 1..y /\ n.entries[i] = n2.entries[i - x]
      <4>1. i - x < j - x
        OBVIOUS
      <4> QED
        BY <4>1, <3>2, <2>3, <1>0, <1>3 DEF Ascending
    <3> QED
      BY <3>1, <3>2, <1>4
  <2> QED
    BY <2>2, <2>3, <1>4
<1>7. Held(n) = Held(n1) \cup Held(n2)
  <2>1. ASSUME NEW i \in 1..x + y
        PROVE  n.entries[i] \in Held(n1) \cup Held(n2)
    BY <1>0, <1>4 DEF Held
  <2>2. ASSUME NEW i \in 1..x
        PROVE  n1.entries[i] \in Held(n)
    <3>1. i \in 1..x + y /\ n.entries[i] = n1.entries[i]
      BY <1>2
    <3> QED
      BY <3>1, <1>2 DEF Held
  <2>3. ASSUME NEW i \in 1..y
        PROVE  n2.entries[i] \in Held(n)
    <3>0. PICK k : k = x + i
      OBVIOUS
    <3>1. k \in 1..x + y /\ ~(k <= x) /\ k - x = i
      BY <3>0
    <3>2. n.entries[k] = n2.entries[i]
      BY <3>1, <1>2
    <3> QED
      BY <3>1, <3>2, <1>2 DEF Held
  <2>4. Held(n) \subseteq Held(n1) \cup Held(n2)
    BY <2>1, <1>2 DEF Held
  <2>5. Held(n1) \subseteq Held(n)
    BY <2>2, <1>0 DEF Held
  <2>6. Held(n2) \subseteq Held(n)
    BY <2>3, <1>0 DEF Held
  <2> QED
    BY <2>4, <2>5, <2>6
<1>8. LeafOK(n, a, b)
  BY <1>5, <1>6 DEF LeafOK
<1> QED
  BY <1>7, <1>8

\* The same with s between them.
Around(t, u, s, v) ==
    /\ Len(t) = Len(u) + Len(v) + 1
    /\ \A i \in 1..Len(u) + Len(v) + 1 :
         t[i] = IF i <= Len(u) THEN u[i] ELSE IF i = Len(u) + 1 THEN s ELSE v[i - (Len(u) + 1)]

\* Two inner nodes joined, with the separator that was between them.
LEMMA InnerJoin ==
    ASSUME NEW n1 \in Nodes, NEW n2 \in Nodes, NEW a \in Nat, NEW s \in Nat, NEW b \in Nat,
           a < s, s < b, NEW l, NEW U, NEW lo, NEW reach, NEW lev,
           InnerOK(n1, a, s), ChildrenOK(n1, a, s, l, U, lo, reach, lev),
           InnerOK(n2, s, b), ChildrenOK(n2, s, b, l, U, lo, reach, lev),
           NEW n \in Nodes, n.kind = "internal", n.next = NoPage,
           Around(n.entries, n1.entries, s, n2.entries), AsOne(n.children, n1.children, n2.children)
    PROVE  InnerOK(n, a, b) /\ ChildrenOK(n, a, b, l, U, lo, reach, lev)
<1>1. /\ Len(n1.entries) \in Nat /\ Len(n2.entries) \in Nat
      /\ \A i \in 1..Len(n1.entries) : n1.entries[i] \in Nat
      /\ \A i \in 1..Len(n2.entries) : n2.entries[i] \in Nat
  BY NodeFacts
<1>0. PICK x \in Nat, y \in Nat : x = Len(n1.entries) /\ y = Len(n2.entries)
  BY <1>1
<1>2. /\ Len(n.entries) = x + y + 1
      /\ \A i \in 1..x + y + 1 :
           n.entries[i] = IF i <= x THEN n1.entries[i] ELSE IF i = x + 1 THEN s
                          ELSE n2.entries[i - (x + 1)]
  BY <1>0 DEF Around
<1>3. /\ Ascending(n1.entries) /\ Ascending(n2.entries)
      /\ \A i \in 1..x : a < n1.entries[i] /\ n1.entries[i] < s
      /\ \A i \in 1..y : s < n2.entries[i] /\ n2.entries[i] < b
      /\ Len(n1.children) = x + 1 /\ Len(n2.children) = y + 1
  BY <1>0 DEF InnerOK
<1>4. /\ Len(n.children) = x + y + 2
      /\ \A i \in 1..x + y + 2 :
           n.children[i] = IF i <= x + 1 THEN n1.children[i] ELSE n2.children[i - (x + 1)]
  BY <1>3 DEF AsOne
<1>5. ASSUME NEW i \in 1..x + y + 1
      PROVE  \/ i \in 1..x /\ n.entries[i] = n1.entries[i]
             \/ i = x + 1 /\ n.entries[i] = s
             \/ i - (x + 1) \in 1..y /\ x + 1 < i /\ n.entries[i] = n2.entries[i - (x + 1)]
  BY <1>2
<1>6. ASSUME NEW i \in 1..x + y + 1
      PROVE  a < n.entries[i] /\ n.entries[i] < b
  <2>1. CASE i \in 1..x /\ n.entries[i] = n1.entries[i]
    BY <2>1, <1>0, <1>1, <1>3
  <2>2. CASE i - (x + 1) \in 1..y /\ n.entries[i] = n2.entries[i - (x + 1)]
    BY <2>2, <1>0, <1>1, <1>3, SMTT(30)
  <2> QED
    BY <2>1, <2>2, <1>5
<1>7. Ascending(n.entries)
  <2> SUFFICES ASSUME NEW i \in 1..x + y + 1, NEW j \in 1..x + y + 1, i < j
               PROVE  n.entries[i] < n.entries[j]
    BY <1>2 DEF Ascending
  <2>1. CASE j \in 1..x /\ n.entries[j] = n1.entries[j]
    <3>1. i \in 1..x /\ n.entries[i] = n1.entries[i]
      BY <2>1, <1>2
    <3> QED
      BY <3>1, <2>1, <1>0, <1>3 DEF Ascending
  <2>2. CASE j = x + 1 /\ n.entries[j] = s
    <3>1. i \in 1..x /\ n.entries[i] = n1.entries[i]
      BY <2>2, <1>2
    <3> QED
      BY <3>1, <2>2, <1>3
  <2>3. CASE j - (x + 1) \in 1..y /\ n.entries[j] = n2.entries[j - (x + 1)]
    <3>0. s < n.entries[j] /\ n.entries[j] \in Nat
      BY <2>3, <1>0, <1>1, <1>3
    <3>1. CASE i \in 1..x /\ n.entries[i] = n1.entries[i]
      <4>1. n.entries[i] < s /\ n.entries[i] \in Nat
        BY <3>1, <1>0, <1>1, <1>3
      <4> QED
        BY <3>0, <4>1
    <3>2. CASE i = x + 1 /\ n.entries[i] = s
      BY <3>0, <3>2
    <3>3. CASE i - (x + 1) \in 1..y /\ n.entries[i] = n2.entries[i - (x + 1)]
      <4>1. i - (x + 1) < j - (x + 1)
        OBVIOUS
      <4> QED
        BY <4>1, <3>3, <2>3, <1>0, <1>3 DEF Ascending
    <3> QED
      BY <3>1, <3>2, <3>3, <1>5
  <2> QED
    BY <2>1, <2>2, <2>3, <1>5
<1>8. InnerOK(n, a, b)
  BY <1>2, <1>4, <1>6, <1>7 DEF InnerOK
<1>9. ASSUME NEW i \in 1..x + y + 2
      PROVE  /\ n.children[i] \in U /\ lev[n.children[i]] + 1 = l
             /\ lo[n.children[i]] = LowOf(n, a, i) /\ reach[n.children[i]] = HighOf(n, b, i)
  <2>1. CASE i <= x + 1
    <3>1. i \in 1..Len(n1.children) /\ n.children[i] = n1.children[i]
      BY <2>1, <1>3, <1>4
    <3>2. /\ n1.children[i] \in U /\ lev[n1.children[i]] + 1 = l
          /\ lo[n1.children[i]] = LowOf(n1, a, i) /\ reach[n1.children[i]] = HighOf(n1, s, i)
      BY <3>1 DEF ChildrenOK
    <3>3. LowOf(n, a, i) = LowOf(n1, a, i)
      <4>1. i # 1 => i - 1 \in 1..x /\ i - 1 \in 1..x + y + 1
        BY <2>1
      <4> QED
        BY <4>1, <1>2 DEF LowOf
    <3>4. HighOf(n, b, i) = HighOf(n1, s, i)
      <4>1. i # Len(n.children) /\ i \in 1..x + y + 1 /\ (i # x + 1 => i <= x)
        BY <2>1, <1>4
      <4>2. n.entries[i] = IF i = x + 1 THEN s ELSE n1.entries[i]
        BY <4>1, <1>2
      <4> QED
        BY <4>1, <4>2, <1>3 DEF HighOf
    <3> QED
      BY <3>1, <3>2, <3>3, <3>4
  <2>2. CASE x + 1 < i
    <3>0. PICK k \in 1..y + 1 : k = i - (x + 1)
      BY <2>2
    <3>1. k \in 1..Len(n2.children) /\ n.children[i] = n2.children[k]
      <4>1. k \in 1..Len(n2.children) /\ i - (x + 1) = k /\ ~(i <= x + 1)
        BY <2>2, <3>0, <1>3
      <4> QED
        BY <4>1, <1>4
    <3>2. /\ n2.children[k] \in U /\ lev[n2.children[k]] + 1 = l
          /\ lo[n2.children[k]] = LowOf(n2, s, k) /\ reach[n2.children[k]] = HighOf(n2, b, k)
      BY <3>1 DEF ChildrenOK
    <3>3. LowOf(n, a, i) = LowOf(n2, s, k)
      <4>1. i # 1 /\ i - 1 \in 1..x + y + 1 /\ (k = 1 => i - 1 = x + 1)
        BY <2>2, <3>0
      <4>2. k # 1 => ~(i - 1 <= x) /\ i - 1 # x + 1 /\ (i - 1) - (x + 1) = k - 1
        BY <2>2, <3>0
      <4>3. n.entries[i - 1] = IF k = 1 THEN s ELSE n2.entries[k - 1]
        BY <4>1, <4>2, <1>2
      <4> QED
        BY <4>1, <4>3 DEF LowOf
    <3>4. HighOf(n, b, i) = HighOf(n2, b, k)
      <4>1. i = Len(n.children) <=> k = Len(n2.children)
        BY <3>0, <1>3, <1>4
      <4>2. i # Len(n.children) => i \in 1..x + y + 1
        BY <1>4
      <4>0. ~(i <= x) /\ i # x + 1 /\ i - (x + 1) = k
        BY <2>2, <3>0
      <4>3. i # Len(n.children) => n.entries[i] = n2.entries[k]
        BY <4>0, <4>2, <1>2
      <4> QED
        BY <4>1, <4>3 DEF HighOf
    <3> QED
      BY <3>1, <3>2, <3>3, <3>4
  <2> QED
    BY <2>1, <2>2
<1>10. ChildrenOK(n, a, b, l, U, lo, reach, lev)
  BY <1>4, <1>9 DEF ChildrenOK
<1> QED
  BY <1>8, <1>10

\* A leaf with one entry more, in its place.
LEMMA LeafWith ==
    ASSUME NEW n \in Nodes, NEW a \in Nat, NEW b \in Nat, LeafOK(n, a, b),
           NEW e \in Entries, a <= e, e < b, e \notin Held(n),
           NEW m \in Nodes, m.kind = "leaf", m.children = <<>>,
           m.entries = InsertAt(n.entries, Place(n.entries, e) + 1, e)
    PROVE  LeafOK(m, a, b) /\ Len(m.entries) = Len(n.entries) + 1 /\ Held(m) = Held(n) \cup {e}
<1>1. /\ n.entries \in Seq(Entries) /\ n.entries \in Seq(Nat) /\ Len(n.entries) \in Nat
      /\ \A i \in 1..Len(n.entries) : n.entries[i] \in Nat
      /\ e \in Nat /\ Ascending(n.entries)
      /\ \A i \in 1..Len(n.entries) : a <= n.entries[i] /\ n.entries[i] < b
  BY NodeFacts, EntryBounds DEF LeafOK
<1>2. PICK x \in Nat : x = Len(n.entries)
  BY <1>1
<1>3. PICK k \in 0..x : /\ k = Place(n.entries, e)
                        /\ \A i \in 1..k : n.entries[i] <= e
                        /\ \A i \in 1..x : k < i => e < n.entries[i]
  BY <1>1, <1>2, PlaceOf
<1>4. /\ Len(m.entries) = x + 1
      /\ \A i \in 1..x + 1 :
           m.entries[i] = IF i < k + 1 THEN n.entries[i] ELSE IF i = k + 1 THEN e ELSE n.entries[i - 1]
  <2>1. PICK t \in Seq(Entries), h \in Nat : t = n.entries /\ h = k + 1
    BY <1>1
  <2>2. h \in 1..Len(t) + 1
    BY <2>1, <1>2
  <2>3. /\ Len(InsertAt(t, h, e)) = Len(t) + 1
        /\ \A i \in 1..Len(t) + 1 :
             InsertAt(t, h, e)[i] = IF i < h THEN t[i] ELSE IF i = h THEN e ELSE t[i - 1]
    BY <2>2, InsertedAt, SMTT(30)
  <2> QED
    BY <2>1, <2>3, <1>2, <1>3
<1>5. ASSUME NEW i \in 1..k
      PROVE  i \in 1..x + 1 /\ m.entries[i] = n.entries[i] /\ n.entries[i] < e /\ i \in 1..x
  <2>1. i \in 1..x + 1 /\ i < k + 1 /\ i \in 1..x
    OBVIOUS
  <2>2. n.entries[i] <= e /\ n.entries[i] # e /\ n.entries[i] \in Nat
    BY <2>1, <1>1, <1>2, <1>3 DEF Held
  <2> QED
    BY <2>1, <2>2, <1>1, <1>4
<1>6. ASSUME NEW i \in k + 1..x
      PROVE  i + 1 \in 1..x + 1 /\ m.entries[i + 1] = n.entries[i] /\ e < n.entries[i] /\ i \in 1..x
  <2>1. i + 1 \in 1..x + 1 /\ ~(i + 1 < k + 1) /\ i + 1 # k + 1 /\ (i + 1) - 1 = i /\ i \in 1..x /\ k < i
    OBVIOUS
  <2> QED
    BY <2>1, <1>3, <1>4
<1>7. k + 1 \in 1..x + 1 /\ m.entries[k + 1] = e
  BY <1>4
<1>8. ASSUME NEW i \in 1..x + 1
      PROVE  i \in 1..k \/ i = k + 1 \/ (i - 1 \in k + 1..x /\ (i - 1) + 1 = i)
  OBVIOUS
<1>9. ASSUME NEW i \in 1..x + 1, NEW j \in 1..x + 1, i < j
      PROVE  m.entries[i] < m.entries[j]
  <2>1. CASE j \in 1..k
    <3>1. i \in 1..k
      BY <2>1, <1>9
    <3>2. n.entries[i] < n.entries[j]
      BY <2>1, <3>1, <1>1, <1>2, <1>5, <1>9 DEF Ascending
    <3> QED
      BY <3>1, <3>2, <2>1, <1>5
  <2>2. CASE j = k + 1
    <3>1. i \in 1..k
      BY <2>2, <1>9
    <3> QED
      BY <3>1, <2>2, <1>5, <1>7
  <2>3. CASE j - 1 \in k + 1..x /\ (j - 1) + 1 = j
    <3>0. PICK h \in k + 1..x : h = j - 1 /\ h + 1 = j
      BY <2>3
    <3>1. m.entries[j] = n.entries[h] /\ e < n.entries[h] /\ h \in 1..x /\ n.entries[h] \in Nat
      BY <3>0, <1>1, <1>2, <1>6
    <3>2. CASE i \in 1..k
      <4>1. m.entries[i] = n.entries[i] /\ n.entries[i] < e /\ n.entries[i] \in Nat
        BY <3>2, <1>1, <1>2, <1>5
      <4> QED
        BY <3>1, <4>1, <1>1
    <3>3. CASE i = k + 1
      BY <3>1, <3>3, <1>7
    <3>4. CASE i - 1 \in k + 1..x /\ (i - 1) + 1 = i
      <4>1. PICK g \in k + 1..x : g = i - 1 /\ g + 1 = i
        BY <3>4
      <4>2. m.entries[i] = n.entries[g] /\ g \in 1..x /\ g < h
        BY <4>1, <3>0, <1>6, <1>9
      <4> QED
        BY <3>1, <4>2, <1>1, <1>2 DEF Ascending
    <3> QED
      BY <3>2, <3>3, <3>4, <1>8
  <2> QED
    BY <2>1, <2>2, <2>3, <1>8
<1>10. ASSUME NEW i \in 1..x + 1
       PROVE  a <= m.entries[i] /\ m.entries[i] < b /\ m.entries[i] \in Held(n) \cup {e}
  <2>1. CASE i \in 1..k
    BY <2>1, <1>1, <1>2, <1>5 DEF Held
  <2>2. CASE i = k + 1
    BY <2>2, <1>7
  <2>3. CASE i - 1 \in k + 1..x /\ (i - 1) + 1 = i
    <3>1. PICK g \in k + 1..x : g + 1 = i
      BY <2>3
    <3>2. m.entries[i] = n.entries[g] /\ g \in 1..x
      BY <3>1, <1>6
    <3> QED
      BY <3>2, <1>1, <1>2 DEF Held
  <2> QED
    BY <2>1, <2>2, <2>3, <1>8
<1>11. Held(n) \cup {e} \subseteq Held(m)
  <2>1. e \in Held(m)
    BY <1>4, <1>7 DEF Held
  <2>2. ASSUME NEW i \in 1..x
        PROVE  n.entries[i] \in Held(m)
    <3>1. CASE i \in 1..k
      BY <3>1, <1>4, <1>5 DEF Held
    <3>2. CASE i \in k + 1..x
      BY <3>2, <1>4, <1>6 DEF Held
    <3> QED
      BY <3>1, <3>2
  <2> QED
    BY <2>1, <2>2, <1>2 DEF Held
<1>12. Held(m) \subseteq Held(n) \cup {e}
  BY <1>4, <1>10 DEF Held
<1>13. LeafOK(m, a, b)
  BY <1>4, <1>9, <1>10 DEF LeafOK, Ascending
<1> QED
  BY <1>2, <1>4, <1>11, <1>12, <1>13

\* A leaf without its entry k.
LEMMA LeafWithout ==
    ASSUME NEW n \in Nodes, NEW a \in Nat, NEW b \in Nat, LeafOK(n, a, b),
           NEW k \in 1..Len(n.entries),
           NEW m \in Nodes, m.kind = "leaf", m.children = <<>>, m.entries = RemoveAt(n.entries, k)
    PROVE  /\ LeafOK(m, a, b) /\ Len(m.entries) = Len(n.entries) - 1
           /\ Held(m) = Held(n) \ {n.entries[k]}
<1>1. /\ n.entries \in Seq(Entries) /\ Len(n.entries) \in Nat
      /\ \A i \in 1..Len(n.entries) : n.entries[i] \in Nat
      /\ Ascending(n.entries)
      /\ \A i \in 1..Len(n.entries) : a <= n.entries[i] /\ n.entries[i] < b
  BY NodeFacts DEF LeafOK
<1>2. PICK x \in Nat : x = Len(n.entries)
  BY <1>1
<1>3. k \in 1..x
  BY <1>2
<1>4. /\ Len(m.entries) = x - 1
      /\ \A i \in 1..x - 1 : m.entries[i] = IF i < k THEN n.entries[i] ELSE n.entries[i + 1]
  <2>1. PICK t \in Seq(Entries) : t = n.entries
    BY <1>1
  <2>2. k \in 1..Len(t)
    BY <2>1
  <2>3. /\ Len(RemoveAt(t, k)) = Len(t) - 1
        /\ \A i \in 1..Len(t) - 1 : RemoveAt(t, k)[i] = IF i < k THEN t[i] ELSE t[i + 1]
    BY <2>2, RemovedAt
  <2> QED
    BY <2>1, <2>3, <1>2
<1> DEFINE from(i) == IF i < k THEN i ELSE i + 1
<1>5. ASSUME NEW i \in 1..x - 1
      PROVE  from(i) \in 1..x /\ from(i) # k /\ m.entries[i] = n.entries[from(i)]
  BY <1>3, <1>4
<1>6. ASSUME NEW i \in 1..x - 1, NEW j \in 1..x - 1, i < j
      PROVE  from(i) < from(j)
  BY <1>3, <1>6
<1>7. ASSUME NEW i \in 1..x, i # k
      PROVE  \E j \in 1..x - 1 : from(j) = i
  <2>1. CASE i < k
    <3>1. i \in 1..x - 1 /\ from(i) = i
      BY <2>1, <1>3
    <3> QED
      BY <3>1
  <2>2. CASE k < i
    <3>1. i - 1 \in 1..x - 1 /\ from(i - 1) = i
      BY <2>2, <1>3
    <3> QED
      BY <3>1
  <2> QED
    BY <2>1, <2>2, <1>3, <1>7
<1> HIDE DEF from
<1>8. ASSUME NEW i \in 1..x - 1, NEW j \in 1..x - 1, i < j
      PROVE  m.entries[i] < m.entries[j]
  BY <1>8, <1>1, <1>2, <1>5, <1>6 DEF Ascending
<1>9. ASSUME NEW i \in 1..x - 1
      PROVE  a <= m.entries[i] /\ m.entries[i] < b
  BY <1>1, <1>2, <1>5
<1>10. LeafOK(m, a, b)
  BY <1>4, <1>8, <1>9 DEF LeafOK, Ascending
<1>11. ASSUME NEW i \in 1..x, NEW j \in 1..x, n.entries[i] = n.entries[j]
       PROVE  i = j
  <2>1. n.entries[i] \in Nat /\ n.entries[j] \in Nat
    BY <1>1, <1>2
  <2>2. ~(i < j) /\ ~(j < i)
    BY <2>1, <1>1, <1>2, <1>11 DEF Ascending
  <2> QED
    BY <2>2
<1>12. ASSUME NEW i \in 1..x - 1
       PROVE  m.entries[i] \in Held(n) \ {n.entries[k]}
  <2>1. from(i) \in 1..x /\ n.entries[from(i)] # n.entries[k]
    BY <1>3, <1>5, <1>11
  <2> QED
    BY <2>1, <1>2, <1>5 DEF Held
<1>13. ASSUME NEW i \in 1..x, n.entries[i] # n.entries[k]
       PROVE  n.entries[i] \in Held(m)
  <2>1. PICK j \in 1..x - 1 : from(j) = i
    BY <1>7, <1>13
  <2> QED
    BY <2>1, <1>4, <1>5 DEF Held
<1>14. Held(m) = Held(n) \ {n.entries[k]}
  BY <1>2, <1>4, <1>12, <1>13 DEF Held
<1> QED
  BY <1>2, <1>4, <1>10, <1>14

-----------------------------------------------------------------------------
(***************************************************************************)
(* Sizes.                                                                   *)
(***************************************************************************)

\* Half a page takes two children and the separator between them: every node
\* that may lend an entry then has two.
Roomy == 2 * (EntrySize + 2 * ChildSize) <= MaxBody

Weight(k, c) == k * EntrySize + c * ChildSize

LEMMA WeightUp ==
    ASSUME NEW k \in Nat, NEW k2 \in Nat, NEW c \in Nat, NEW c2 \in Nat, k <= k2, c <= c2
    PROVE  Weight(k, c) \in Nat /\ Weight(k2, c2) \in Nat /\ Weight(k, c) <= Weight(k2, c2)
<1>1. EntrySize \in Nat /\ ChildSize \in Nat
  BY SizeAssumption
<1>2. k * EntrySize \in Nat /\ k2 * EntrySize \in Nat /\ k * EntrySize <= k2 * EntrySize
  BY <1>1
<1>3. c * ChildSize \in Nat /\ c2 * ChildSize \in Nat /\ c * ChildSize <= c2 * ChildSize
  BY <1>1
<1> QED
  BY <1>2, <1>3 DEF Weight

LEMMA HalfPage ==
    /\ MinBody \in Nat /\ 2 * MinBody <= MaxBody /\ MaxBody <= 2 * MinBody + 1
  BY SizeAssumption DEF MinBody

LEMMA WeightBounds ==
    ASSUME Roomy, NEW k \in Nat
    PROVE  /\ EntrySize + 2 * ChildSize <= MinBody
           /\ Weight(k, 0) > MaxBody => k >= 3
           /\ Weight(k, k + 1) > MaxBody => k >= 3
           /\ Weight(k, 0) > MinBody => k >= 2
           /\ Weight(k, k + 1) > MinBody => k >= 2
           /\ Weight(0, 1) < MinBody
<1>1. EntrySize \in Nat /\ ChildSize \in Nat /\ MaxBody \in Nat /\ EntrySize > 0 /\ ChildSize > 0
  BY SizeAssumption
<1>2. MinBody \in Nat /\ 2 * MinBody <= MaxBody /\ EntrySize + 2 * ChildSize <= MinBody
  BY <1>1, HalfPage DEF Roomy
<1>3. Weight(2, 3) = 2 * EntrySize + 3 * ChildSize /\ Weight(1, 2) = EntrySize + 2 * ChildSize
  BY <1>1 DEF Weight
<1>4. k <= 2 => Weight(k, 0) <= Weight(2, 3) /\ Weight(k, k + 1) <= Weight(2, 3)
  BY WeightUp
<1>5. k <= 1 => Weight(k, 0) <= Weight(1, 2) /\ Weight(k, k + 1) <= Weight(1, 2)
  BY WeightUp
<1>6. Weight(k, 0) \in Nat /\ Weight(k, k + 1) \in Nat
  BY WeightUp
<1>7. Weight(2, 3) <= MaxBody
  BY <1>1, <1>3 DEF Roomy
<1>8. Weight(0, 1) = ChildSize
  BY <1>1 DEF Weight
<1> QED
  BY <1>1, <1>2, <1>3, <1>4, <1>5, <1>6, <1>7, <1>8

LEMMA SizeOf ==
    ASSUME NEW n \in Nodes
    PROVE  BodySize(n) = Weight(Len(n.entries), Len(n.children)) /\ BodySize(n) \in Nat
<1>1. Len(n.entries) \in Nat /\ Len(n.children) \in Nat
  BY NodeFacts
<1>2. BodySize(n) = Weight(Len(n.entries), Len(n.children))
  BY DEF BodySize, Weight
<1>3. Weight(Len(n.entries), Len(n.children)) \in Nat
  <2>1. PICK k \in Nat, c \in Nat : k = Len(n.entries) /\ c = Len(n.children)
    BY <1>1
  <2>2. Weight(k, c) \in Nat
    BY WeightUp
  <2> QED
    BY <2>1, <2>2
<1> QED
  BY <1>2, <1>3

-----------------------------------------------------------------------------
(***************************************************************************)
(* What the leaves hold.                                                    *)
(***************************************************************************)
LeafHeld(nd, X) == UNION {Held(nd[p]) : p \in {q \in X : nd[q].kind = "leaf"}}
Content(nd) == LeafHeld(nd, Pages)

SameBut(nd, nd2, X) == X \subseteq Pages /\ \A q \in Pages : q \notin X => nd2[q] = nd[q]

LEMMA ContentParts ==
    ASSUME NEW nd, NEW nd2, NEW X, SameBut(nd, nd2, X)
    PROVE  /\ Content(nd) = LeafHeld(nd, X) \cup LeafHeld(nd, Pages \ X)
           /\ Content(nd2) = LeafHeld(nd2, X) \cup LeafHeld(nd, Pages \ X)
  BY DEF Content, LeafHeld, SameBut

LEMMA NoLeaves ==
    ASSUME NEW nd, NEW X, \A q \in X : nd[q].kind # "leaf"
    PROVE  LeafHeld(nd, X) = {}
  BY DEF LeafHeld

-----------------------------------------------------------------------------
(***************************************************************************)
(* The pages of a call.                                                     *)
(***************************************************************************)
Path(nd, rt, st, lev) ==
    /\ st \in Seq(Pages)
    /\ \A i \in 1..Len(st) : st[i] \in InUse(nd) /\ lev[st[i]] + i = lev[rt] + 1
    /\ Len(st) > 0 => st[1] = rt
    /\ \A i \in 1..Len(st) - 1 :
         \E j \in 1..Len(nd[st[i]].children) : nd[st[i]].children[j] = st[i + 1]

LEMMA NoPath ==
    ASSUME NEW nd, NEW rt, NEW lev
    PROVE  Path(nd, rt, <<>>, lev)
  BY NoElements DEF Path

\* The parent p of the last page remains, and what is above it.
KeptAbove(nd, rt, st, lev, p, nd2, lev2) ==
    /\ lev \in [Pages -> Nat] /\ Path(nd, rt, st, lev) /\ Len(st) > 1 /\ p = st[Len(st) - 1]
    /\ rt \in Pages /\ lev2[rt] = lev[rt]
    /\ \A q \in InUse(nd) : lev[q] >= lev[p] => q \in InUse(nd2) /\ lev2[q] = lev[q]
    /\ \A q \in InUse(nd) : lev[q] > lev[p] => nd2[q].children = nd[q].children

LEMMA PathFront ==
    ASSUME NEW nd, NEW rt, NEW st, NEW lev, NEW p, NEW nd2, NEW lev2,
           KeptAbove(nd, rt, st, lev, p, nd2, lev2)
    PROVE  Path(nd2, rt, Front(st), lev2) /\ Len(Front(st)) > 0 /\ Front(st)[Len(Front(st))] = p
<1>0. /\ lev \in [Pages -> Nat] /\ Path(nd, rt, st, lev) /\ Len(st) > 1 /\ p = st[Len(st) - 1]
      /\ rt \in Pages /\ lev2[rt] = lev[rt]
      /\ \A q \in InUse(nd) : lev[q] >= lev[p] => q \in InUse(nd2) /\ lev2[q] = lev[q]
      /\ \A q \in InUse(nd) : lev[q] > lev[p] => nd2[q].children = nd[q].children
  BY DEF KeptAbove
<1>1. PICK m \in Nat : m = Len(st)
  BY <1>0, RangeOf DEF Path
<1>2. /\ Front(st) \in Seq(Pages) /\ Len(Front(st)) = m - 1
      /\ \A i \in 1..m - 1 : Front(st)[i] = st[i]
  <2>1. st \in Seq(Pages) /\ Len(st) # 0
    BY <1>0, <1>1 DEF Path
  <2> QED
    BY <2>1, <1>1, FrontOf
<1>3. /\ \A i \in 1..m : st[i] \in InUse(nd) /\ st[i] \in Pages /\ lev[st[i]] + i = lev[rt] + 1
      /\ st[1] = rt
      /\ \A i \in 1..m - 1 :
           \E j \in 1..Len(nd[st[i]].children) : nd[st[i]].children[j] = st[i + 1]
  BY <1>0, <1>1 DEF Path, InUse
<1>4. m - 1 \in 1..m /\ p = st[m - 1]
  BY <1>0, <1>1
<1>5. lev[p] + (m - 1) = lev[rt] + 1 /\ lev[p] \in Nat /\ lev[rt] \in Nat
  BY <1>0, <1>3, <1>4
<1>6. ASSUME NEW i \in 1..m - 1
      PROVE  Front(st)[i] \in InUse(nd2) /\ lev2[Front(st)[i]] + i = lev2[rt] + 1
  <2>1. i \in 1..m /\ lev[st[i]] \in Nat /\ lev[st[i]] + i = lev[rt] + 1 /\ st[i] \in InUse(nd)
    BY <1>0, <1>3
  <2>2. lev[st[i]] >= lev[p]
    BY <2>1, <1>5
  <2> QED
    BY <2>1, <2>2, <1>0, <1>2
<1>7. ASSUME NEW i \in 1..(m - 1) - 1
      PROVE  \E j \in 1..Len(nd2[Front(st)[i]].children) :
                nd2[Front(st)[i]].children[j] = Front(st)[i + 1]
  <2>1. i \in 1..m /\ i \in 1..m - 1 /\ i + 1 \in 1..m - 1
    BY <1>1
  <2>2. lev[st[i]] \in Nat /\ lev[st[i]] + i = lev[rt] + 1 /\ st[i] \in InUse(nd)
    BY <1>0, <1>3, <2>1
  <2>3. lev[st[i]] > lev[p]
    BY <2>2, <1>5
  <2>4. nd2[st[i]].children = nd[st[i]].children
    BY <2>2, <2>3, <1>0
  <2>5. Front(st)[i] = st[i] /\ Front(st)[i + 1] = st[i + 1]
    BY <2>1, <1>2
  <2>6. PICK j \in 1..Len(nd[st[i]].children) : nd[st[i]].children[j] = st[i + 1]
    BY <2>1, <1>3
  <2> QED
    BY <2>4, <2>5, <2>6
<1>8. Front(st)[1] = rt /\ m - 1 > 0
  BY <1>0, <1>1, <1>2, <1>3
<1>9. Path(nd2, rt, Front(st), lev2)
  BY <1>2, <1>6, <1>7, <1>8 DEF Path
<1>10. Front(st)[m - 1] = p
  BY <1>2, <1>4, <1>8
<1> QED
  BY <1>2, <1>8, <1>9, <1>10

\* The same pages, whose children have stayed.
LEMMA PathSame ==
    ASSUME NEW nd, NEW rt, NEW st, NEW lev, Path(nd, rt, st, lev), NEW nd2, NEW lev2,
           lev2[rt] = lev[rt],
           \A q \in InUse(nd) : q \in InUse(nd2) /\ lev2[q] = lev[q]
                                /\ nd2[q].children = nd[q].children
    PROVE  Path(nd2, rt, st, lev2)
<1>1. /\ st \in Seq(Pages) /\ Len(st) \in Nat
      /\ \A i \in 1..Len(st) : st[i] \in InUse(nd) /\ lev[st[i]] + i = lev[rt] + 1
  BY RangeOf DEF Path
<1>2. \A i \in 1..Len(st) : st[i] \in InUse(nd2) /\ lev2[st[i]] + i = lev2[rt] + 1
  BY <1>1
<1>3. ASSUME NEW i \in 1..Len(st) - 1
      PROVE  \E j \in 1..Len(nd2[st[i]].children) : nd2[st[i]].children[j] = st[i + 1]
  <2>1. i \in 1..Len(st)
    BY <1>1
  <2>2. nd2[st[i]].children = nd[st[i]].children
    BY <2>1, <1>1
  <2> QED
    BY <2>2 DEF Path
<1> QED
  BY <1>1, <1>2, <1>3 DEF Path

\* A walk from the root down is the pages of a call.
LEMMA WalkPath ==
    ASSUME NEW nd, NEW lo, NEW top, NEW reach, NEW lev, Core(nd, lo, top, reach, lev), NEW rt \in InUse(nd),
           NEW next, NEW w \in Seq(InUse(nd)), Len(w) > 0, w[1] = rt,
           \A q \in InUse(nd) : next[q] # NoPage =>
               \E j \in 1..Len(nd[q].children) : nd[q].children[j] = next[q],
           \A i \in 1..Len(w) - 1 : next[w[i]] # NoPage /\ w[i + 1] = next[w[i]]
    PROVE  Path(nd, rt, w, lev)
<1>1. Len(w) \in Nat /\ \A i \in 1..Len(w) : w[i] \in InUse(nd)
  BY RangeOf
<1>2. InUse(nd) \subseteq Pages /\ \A q \in InUse(nd) : lev[q] \in Nat
  BY PageFacts DEF InUse
<1>3. w \in Seq(Pages)
  BY <1>2, SeqMonotonic
<1>4. ASSUME NEW i \in 1..Len(w) - 1
      PROVE  /\ \E j \in 1..Len(nd[w[i]].children) : nd[w[i]].children[j] = w[i + 1]
             /\ lev[w[i + 1]] + 1 = lev[w[i]]
  <2>1. i \in 1..Len(w) /\ w[i] \in InUse(nd)
    BY <1>1
  <2>2. PICK j \in 1..Len(nd[w[i]].children) : nd[w[i]].children[j] = w[i + 1]
    BY <2>1
  <2>3. lev[nd[w[i]].children[j]] + 1 = lev[w[i]]
    BY <2>1, ChildFacts
  <2> QED
    BY <2>2, <2>3
<1>5. \A i \in 1..Len(w) : lev[w[i]] + i = lev[rt] + 1
  <2> DEFINE bad == {i \in 1..Len(w) : lev[w[i]] + i # lev[rt] + 1}
  <2>1. ASSUME bad # {}
        PROVE  FALSE
    <3>1. bad \in SUBSET Nat
      BY <1>1
    <3>2. PICK i \in bad : \A k \in bad : i <= k
      BY <2>1, <3>1, LeastNumber
    <3>3. i # 1
      BY <3>2
    <3>4. i - 1 \in 1..Len(w) - 1 /\ i - 1 \in 1..Len(w) /\ i - 1 \notin bad /\ (i - 1) + 1 = i
      BY <1>1, <3>2, <3>3
    <3>5. lev[w[i - 1]] + (i - 1) = lev[rt] + 1 /\ lev[w[i]] + 1 = lev[w[i - 1]]
      BY <3>4, <1>4
    <3>6. lev[w[i]] \in Nat /\ lev[w[i - 1]] \in Nat /\ lev[rt] \in Nat /\ i \in Nat
      BY <1>1, <1>2, <3>2, <3>4
    <3>7. PICK x \in Nat, y \in Nat, z \in Nat : x = lev[w[i - 1]] /\ y = lev[w[i]] /\ z = lev[rt]
      BY <3>6
    <3>8. x + (i - 1) = z + 1 /\ y + 1 = x /\ i \in Nat
      BY <3>5, <3>6, <3>7
    <3>9. y + i = z + 1
      BY <3>8
    <3> QED
      BY <3>2, <3>7, <3>9
  <2> QED
    BY <2>1
<1> QED
  BY <1>1, <1>3, <1>4, <1>5 DEF Path

LeafParts(n, i, q, r, n1, n2) ==
    /\ n1 = Leaf(SubSeq(n.entries, 1, i), q)
    /\ n2 = Leaf(SubSeq(n.entries, i + 1, Len(n.entries)), r)

LEMMA LeafHalves ==
    ASSUME NEW n \in Nodes, NEW i \in 1..Len(n.entries) - 1,
           NEW q \in Pages \cup {NoPage}, NEW r \in Pages \cup {NoPage},
           NEW n1, NEW n2, LeafParts(n, i, q, r, n1, n2)
    PROVE  /\ n1 \in Nodes /\ n2 \in Nodes /\ n1.kind = "leaf" /\ n2.kind = "leaf"
           /\ n1.children = <<>> /\ n2.children = <<>> /\ n1.next = q /\ n2.next = r
           /\ Cut(n, i, 0, n1, n2)
<1>1. PICK s \in Seq(Entries), k \in Nat : s = n.entries /\ k = Len(s)
  BY NodeFacts
<1>2. /\ SubSeq(s, 1, i) \in Seq(Entries) /\ Len(SubSeq(s, 1, i)) = i
      /\ \A j \in 1..i : SubSeq(s, 1, i)[j] = s[j]
  <2>1. 1 \in 1..Len(s) + 1 /\ i \in 0..Len(s) /\ 1 <= i + 1 /\ i - 1 + 1 = i
    BY <1>1
  <2>2. /\ SubSeq(s, 1, i) \in Seq(Entries) /\ Len(SubSeq(s, 1, i)) = i - 1 + 1
        /\ \A j \in 1..i - 1 + 1 : SubSeq(s, 1, i)[j] = s[1 + j - 1]
    BY <2>1, PartOf
  <2>3. \A j \in 1..i : 1 + j - 1 = j
    OBVIOUS
  <2> QED
    BY <2>1, <2>2, <2>3
<1>3. /\ SubSeq(s, i + 1, k) \in Seq(Entries) /\ Len(SubSeq(s, i + 1, k)) = k - i
      /\ \A j \in 1..k - i : SubSeq(s, i + 1, k)[j] = s[i + j]
  <2>1. PICK h \in Nat : h = i + 1
    BY <1>1
  <2>2. h \in 1..Len(s) + 1 /\ k \in 0..Len(s) /\ h <= k + 1 /\ k - h + 1 = k - i
    BY <1>1, <2>1
  <2>3. /\ SubSeq(s, h, k) \in Seq(Entries) /\ Len(SubSeq(s, h, k)) = k - h + 1
        /\ \A j \in 1..k - h + 1 : SubSeq(s, h, k)[j] = s[h + j - 1]
    BY <2>2, PartOf
  <2>4. \A j \in 1..k - i : h + j - 1 = i + j
    BY <1>1, <2>1
  <2> QED
    BY <2>1, <2>2, <2>3, <2>4
<1>4. /\ n1 \in Nodes /\ n1.kind = "leaf" /\ n1.entries = SubSeq(s, 1, i)
      /\ n1.children = <<>> /\ n1.next = q
  BY <1>1, <1>2, LeafIn DEF LeafParts
<1>5. /\ n2 \in Nodes /\ n2.kind = "leaf" /\ n2.entries = SubSeq(s, i + 1, k)
      /\ n2.children = <<>> /\ n2.next = r
  BY <1>1, <1>3, LeafIn DEF LeafParts
<1>6. Cut(n, i, 0, n1, n2)
  <2>1. i + 0 = i /\ k = Len(n.entries) /\ \A j \in 1..k - i : i + 0 + j = i + j
    BY <1>1
  <2>2. \A j \in 1..k - i : n2.entries[j] = n.entries[i + 0 + j]
    BY <2>1, <1>1, <1>3, <1>5
  <2> QED
    BY <2>1, <2>2, <1>1, <1>2, <1>3, <1>4, <1>5 DEF Cut
<1> QED
  BY <1>4, <1>5, <1>6

InnerParts(n, i, n1, n2) ==
    /\ n1 = Internal(SubSeq(n.entries, 1, i), SubSeq(n.children, 1, i + 1))
    /\ n2 = Internal(SubSeq(n.entries, i + 2, Len(n.entries)),
                     SubSeq(n.children, i + 2, Len(n.children)))

LEMMA InnerHalves ==
    ASSUME NEW n \in Nodes, Len(n.children) = Len(n.entries) + 1,
           NEW i \in 1..Len(n.entries) - 1, NEW n1, NEW n2, InnerParts(n, i, n1, n2)
    PROVE  /\ n1 \in Nodes /\ n2 \in Nodes /\ n1.kind = "internal" /\ n2.kind = "internal"
           /\ n1.next = NoPage /\ n2.next = NoPage
           /\ Cut(n, i, 1, n1, n2) /\ CutBelow(n, i, n1, n2)
<1>1. PICK s \in Seq(Entries), k \in Nat, c \in Seq(Pages) :
        s = n.entries /\ k = Len(s) /\ c = n.children /\ Len(c) = k + 1
  BY NodeFacts
<1>10. i \in 1..k - 1 /\ i \in Nat
  BY <1>1
<1>0. PICK i1 \in Nat, i2 \in Nat, k1 \in Nat : i1 = i + 1 /\ i2 = i + 2 /\ k1 = k + 1
  BY <1>10
<1>2. /\ SubSeq(s, 1, i) \in Seq(Entries) /\ Len(SubSeq(s, 1, i)) = i
      /\ \A j \in 1..i : SubSeq(s, 1, i)[j] = s[j]
  <2>1. 1 \in 1..Len(s) + 1 /\ i \in 0..Len(s) /\ 1 <= i + 1 /\ i - 1 + 1 = i
    BY <1>1
  <2>2. /\ SubSeq(s, 1, i) \in Seq(Entries) /\ Len(SubSeq(s, 1, i)) = i - 1 + 1
        /\ \A j \in 1..i - 1 + 1 : SubSeq(s, 1, i)[j] = s[1 + j - 1]
    BY <2>1, PartOf
  <2>3. \A j \in 1..i : 1 + j - 1 = j
    OBVIOUS
  <2> QED
    BY <2>1, <2>2, <2>3
<1>3. /\ SubSeq(c, 1, i1) \in Seq(Pages) /\ Len(SubSeq(c, 1, i1)) = i1
      /\ \A j \in 1..i1 : SubSeq(c, 1, i1)[j] = c[j]
  <2>1. 1 \in 1..Len(c) + 1 /\ i1 \in 0..Len(c) /\ 1 <= i1 + 1 /\ i1 - 1 + 1 = i1
    BY <1>0, <1>1
  <2>2. /\ SubSeq(c, 1, i1) \in Seq(Pages) /\ Len(SubSeq(c, 1, i1)) = i1 - 1 + 1
        /\ \A j \in 1..i1 - 1 + 1 : SubSeq(c, 1, i1)[j] = c[1 + j - 1]
    BY <2>1, PartOf
  <2>3. \A j \in 1..i1 : 1 + j - 1 = j
    OBVIOUS
  <2> QED
    BY <2>1, <2>2, <2>3
<1>4. /\ SubSeq(s, i2, k) \in Seq(Entries) /\ Len(SubSeq(s, i2, k)) = k - i1
      /\ \A j \in 1..k - i1 : SubSeq(s, i2, k)[j] = s[i1 + j]
  <2>2. i2 \in 1..Len(s) + 1 /\ k \in 0..Len(s) /\ i2 <= k + 1 /\ k - i2 + 1 = k - i1
    BY <1>0, <1>1
  <2>3. /\ SubSeq(s, i2, k) \in Seq(Entries) /\ Len(SubSeq(s, i2, k)) = k - i2 + 1
        /\ \A j \in 1..k - i2 + 1 : SubSeq(s, i2, k)[j] = s[i2 + j - 1]
    BY <2>2, PartOf
  <2>4. \A j \in 1..k - i1 : i2 + j - 1 = i1 + j
    BY <1>0, <1>1
  <2> QED
    BY <2>2, <2>3, <2>4
<1>5. /\ SubSeq(c, i2, k1) \in Seq(Pages) /\ Len(SubSeq(c, i2, k1)) = k1 - i1
      /\ \A j \in 1..k1 - i1 : SubSeq(c, i2, k1)[j] = c[i1 + j]
  <2>2. i2 \in 1..Len(c) + 1 /\ k1 \in 0..Len(c) /\ i2 <= k1 + 1 /\ k1 - i2 + 1 = k1 - i1
    BY <1>0, <1>1
  <2>3. /\ SubSeq(c, i2, k1) \in Seq(Pages) /\ Len(SubSeq(c, i2, k1)) = k1 - i2 + 1
        /\ \A j \in 1..k1 - i2 + 1 : SubSeq(c, i2, k1)[j] = c[i2 + j - 1]
    BY <2>2, PartOf
  <2>4. \A j \in 1..k1 - i1 : i2 + j - 1 = i1 + j
    BY <1>0, <1>1
  <2> QED
    BY <2>2, <2>3, <2>4
<1>6. /\ n1 \in Nodes /\ n1.kind = "internal" /\ n1.entries = SubSeq(s, 1, i)
      /\ n1.children = SubSeq(c, 1, i1) /\ n1.next = NoPage
  <2>1. PICK u \in Seq(Entries), v \in Seq(Pages) : u = SubSeq(s, 1, i) /\ v = SubSeq(c, 1, i1)
    BY <1>2, <1>3
  <2>2. n1 = Internal(u, v)
    BY <2>1, <1>0, <1>1 DEF InnerParts
  <2>3. /\ Internal(u, v) \in Nodes /\ Internal(u, v).kind = "internal"
        /\ Internal(u, v).entries = u /\ Internal(u, v).children = v /\ Internal(u, v).next = NoPage
    BY InternalIn
  <2> QED
    BY <2>1, <2>2, <2>3
<1>7. /\ n2 \in Nodes /\ n2.kind = "internal" /\ n2.entries = SubSeq(s, i2, k)
      /\ n2.children = SubSeq(c, i2, k1) /\ n2.next = NoPage
  <2>1. PICK u \in Seq(Entries), v \in Seq(Pages) : u = SubSeq(s, i2, k) /\ v = SubSeq(c, i2, k1)
    BY <1>4, <1>5
  <2>2. n2 = Internal(u, v)
    BY <2>1, <1>0, <1>1 DEF InnerParts
  <2>3. /\ Internal(u, v) \in Nodes /\ Internal(u, v).kind = "internal"
        /\ Internal(u, v).entries = u /\ Internal(u, v).children = v /\ Internal(u, v).next = NoPage
    BY InternalIn
  <2> QED
    BY <2>1, <2>2, <2>3
<1>8. Cut(n, i, 1, n1, n2)
  <2>1. \A j \in 1..k - (i + 1) : n2.entries[j] = n.entries[i + 1 + j]
    BY <1>0, <1>1, <1>4, <1>7
  <2> QED
    BY <2>1, <1>0, <1>1, <1>2, <1>4, <1>6, <1>7 DEF Cut
<1>9. CutBelow(n, i, n1, n2)
  <2>1. \A j \in 1..k1 - (i + 1) : n2.children[j] = n.children[i + 1 + j]
    BY <1>0, <1>1, <1>5, <1>7
  <2>2. k1 = Len(n.children) /\ i1 = i + 1
    BY <1>0, <1>1
  <2> QED
    BY <2>1, <2>2, <1>1, <1>3, <1>5, <1>6, <1>7 DEF CutBelow
<1> QED
  BY <1>6, <1>7, <1>8, <1>9

-----------------------------------------------------------------------------
(***************************************************************************)
(* The invariant.                                                           *)
(***************************************************************************)
Vars ==
    /\ root \in Pages \cup {NoPage} /\ node \in [Pages -> Nodes] /\ rows \subseteq Entries
    /\ stack \in Seq(Pages) /\ sep \in Entries \cup {0} /\ extra \in Pages \cup {NoPage}

\* Only a node that gave an entry up, and is looked at next, may have none left.
Fan(nd, st, ex) ==
    \A p \in InUse(nd) : nd[p].kind = "internal" /\ Len(nd[p].entries) = 0 =>
        ex = NoPage /\ Len(st) > 0 /\ p = st[Len(st)]

Waits(U, st, sp, ex, lo, top, reach, lev) ==
    /\ ex = NoPage => reach = top
    /\ ex # NoPage => /\ Len(st) > 0 /\ ex \in U /\ ex # st[Len(st)] /\ sp \in Entries
                      /\ Pending(top, lo, reach, lev, st[Len(st)], sp, ex)

WellFormed(nd, rt, st, sp, ex, lo, top, reach, lev) ==
    /\ Core(nd, lo, top, reach, lev) /\ Rules(nd, rt, lo, reach, lev)
    /\ Path(nd, rt, st, lev) /\ Waits(InUse(nd), st, sp, ex, lo, top, reach, lev)

Tree(nd, rt, st, sp, ex) ==
    \E lo, top, reach, lev \in [Pages -> Nat] : WellFormed(nd, rt, st, sp, ex, lo, top, reach, lev)

IInv ==
    /\ Vars
    /\ root = NoPage => InUse(node) = {} /\ rows = {} /\ stack = <<>> /\ extra = NoPage
    /\ root # NoPage => /\ rows = Content(node) /\ Fan(node, stack, extra)
                        /\ Tree(node, root, stack, sep, extra)

LEMMA UsedIs == Used = InUse(node)
  BY DEF Used, InUse

LEMMA InvAfter ==
    ASSUME Vars', root' # NoPage, rows' = Content(node'), Fan(node', stack', extra'),
           NEW lo, NEW top, NEW reach, NEW lev,
           WellFormed(node', root', stack', sep', extra', lo, top, reach, lev)
    PROVE  IInv'
<1>1. lo \in [Pages -> Nat] /\ top \in [Pages -> Nat] /\ reach \in [Pages -> Nat] /\ lev \in [Pages -> Nat]
  BY DEF WellFormed, Core, Typed
<1>2. Tree(node', root', stack', sep', extra')
  BY <1>1 DEF Tree
<1> QED
  BY <1>2 DEF IInv

\* Between two calls.
LEMMA AtRest ==
    ASSUME IInv, root # NoPage, stack = <<>>
    PROVE  /\ Vars /\ rows = Content(node) /\ Fan(node, stack, extra) /\ extra = NoPage
           /\ \E lo, top, lev \in [Pages -> Nat] :
                Core(node, lo, top, top, lev) /\ Rules(node, root, lo, top, lev)
<1>1. PICK lo \in [Pages -> Nat], top \in [Pages -> Nat], reach \in [Pages -> Nat], lev \in [Pages -> Nat] :
        WellFormed(node, root, stack, sep, extra, lo, top, reach, lev)
  BY DEF IInv, Tree
<1>2. Len(stack) = 0
  BY NoElements
<1>3. extra = NoPage /\ reach = top
  BY <1>1, <1>2 DEF WellFormed, Waits
<1>4. Core(node, lo, top, top, lev) /\ Rules(node, root, lo, top, lev)
  BY <1>1, <1>3 DEF WellFormed
<1> QED
  BY <1>3, <1>4 DEF IInv

LEMMA NewPageOf ==
    ASSUME NEW n \in Nat \ {0}, Space(n)
    PROVE  NewPage \in Pages /\ NewPage \notin InUse(node)
<1>1. Pages \ Used # {}
  <2>1. ASSUME Pages \ Used = {}
        PROVE  FALSE
    <3>1. Cardinality(Pages \ Used) = 0
      BY <2>1, FS_EmptySet
    <3> QED
      BY <3>1 DEF Space
  <2> QED
    BY <2>1
<1> QED
  BY <1>1, UsedIs DEF NewPage

\* The way down to the leaf whose share holds e.
LEMMA DescentOf ==
    ASSUME NEW lo, NEW top, NEW lev, Core(node, lo, top, top, lev), Rules(node, root, lo, top, lev),
           NEW e \in Nat, e < Top
    PROVE  /\ Path(node, root, Descent(e), lev) /\ Len(Descent(e)) \in 1..MaxPage
           /\ FindLeaf(e) = Descent(e)[Len(Descent(e))]
           /\ FindLeaf(e) \in InUse(node) /\ node[FindLeaf(e)].kind = "leaf"
           /\ lo[FindLeaf(e)] <= e /\ e < top[FindLeaf(e)]
<1> DEFINE next == [p \in Pages |-> IF node[p].kind = "internal" THEN FindChild(node[p], e) ELSE NoPage]
           S == {q \in InUse(node) : lo[q] <= e /\ e < top[q]}
<1>1. MaxPage \in Nat /\ NoPage \notin Pages /\ InUse(node) \subseteq Pages
  BY SizeAssumption DEF InUse
<1>2. root \in InUse(node) /\ lo[root] = 0 /\ top[root] = Top /\ lev \in [Pages -> Nat]
  BY DEF Rules, Core, Typed
<1>3. \A q \in Pages : next[q] = IF node[q].kind = "internal" THEN FindChild(node[q], e) ELSE NoPage
  OBVIOUS
<1>4. Descent(e) = Follow(root, next)
  BY DEF Descent
<1> HIDE DEF next
<1>5. ASSUME NEW q \in S, node[q].kind = "internal"
      PROVE  /\ next[q] \in S /\ lev[next[q]] < lev[q]
             /\ \E j \in 1..Len(node[q].children) : node[q].children[j] = next[q]
  <2>1. PICK n \in Nodes, a \in Nat, b \in Nat : n = node[q] /\ a = lo[q] /\ b = top[q]
    BY PageFacts
  <2>2. InnerOK(n, a, b) /\ a < b /\ a <= e /\ e < b
    BY <1>5, <2>1, PageFacts
  <2>3. PICK j : j = Place(n.entries, e) + 1
    OBVIOUS
  <2>4. j \in 1..Len(n.children) /\ LowOf(n, a, j) <= e /\ e < HighOf(n, b, j)
    BY <2>2, <2>3, ChildFor
  <2>5. next[q] = n.children[j]
    BY <1>1, <1>3, <1>5, <2>1, <2>3 DEF FindChild
  <2>6. j \in 1..Len(node[q].children)
    BY <2>1, <2>4
  <2>7. /\ node[q].children[j] \in InUse(node) /\ lev[node[q].children[j]] + 1 = lev[q]
        /\ lo[node[q].children[j]] = LowOf(node[q], lo[q], j)
        /\ top[node[q].children[j]] = HighOf(node[q], top[q], j)
    BY <2>6, ChildFacts
  <2>8. next[q] \in InUse(node) /\ lev[next[q]] + 1 = lev[q] /\ lo[next[q]] <= e /\ e < top[next[q]]
    BY <2>1, <2>4, <2>5, <2>7
  <2>9. lev[next[q]] \in Nat /\ lev[q] \in Nat
    BY <2>8, <1>1, <1>2
  <2> QED
    BY <2>1, <2>5, <2>6, <2>8, <2>9
<1>6. Downward(root, next, S, lev)
  <2>1. \A q \in S : node[q].kind # "internal" => next[q] = NoPage
    BY <1>1, <1>3
  <2>2. \A q \in S : next[q] = NoPage \/ (next[q] \in S /\ lev[next[q]] < lev[q])
    BY <2>1, <1>5
  <2> QED
    BY <2>2, <1>1, <1>2 DEF Downward
<1>7. PICK w : w = Follow(root, next)
  OBVIOUS
<1>8. /\ w \in Seq(S) /\ Len(w) \in 1..MaxPage /\ w[1] = root
      /\ \A i \in 1..Len(w) - 1 : next[w[i]] # NoPage /\ w[i + 1] = next[w[i]]
      /\ next[w[Len(w)]] = NoPage
  BY <1>6, <1>7, FollowOf
<1>9. Len(w) \in Nat /\ Len(w) > 0 /\ \A i \in 1..Len(w) : w[i] \in S
  BY <1>1, <1>8, RangeOf
<1>10. w[Len(w)] \in S /\ node[w[Len(w)]].kind = "leaf"
  <2>1. w[Len(w)] \in S
    BY <1>9
  <2>2. node[w[Len(w)]].kind # "internal"
    BY <2>1, <1>1, <1>5, <1>8
  <2>3. node[w[Len(w)]].kind \in {"leaf", "internal"}
    BY <2>1, PageFacts
  <2> QED
    BY <2>1, <2>2, <2>3
<1>11. Path(node, root, w, lev)
  <2> DEFINE step == [q \in Pages |-> IF q \in S THEN next[q] ELSE NoPage]
  <2>1. \A q \in S : step[q] = next[q]
    BY <1>1
  <2>2. \A q \in InUse(node) : step[q] # NoPage =>
           \E j \in 1..Len(node[q].children) : node[q].children[j] = step[q]
    <3> SUFFICES ASSUME NEW q \in InUse(node), step[q] # NoPage
                 PROVE  \E j \in 1..Len(node[q].children) : node[q].children[j] = step[q]
      OBVIOUS
    <3>1. q \in Pages /\ q \in S /\ step[q] = next[q]
      BY <1>1
    <3>2. node[q].kind = "internal"
      BY <3>1, <1>3
    <3>3. \E j \in 1..Len(node[q].children) : node[q].children[j] = next[q]
      BY <3>1, <3>2, <1>5
    <3> QED
      BY <3>1, <3>3
  <2>3. ASSUME NEW i \in 1..Len(w) - 1
        PROVE  step[w[i]] # NoPage /\ w[i + 1] = step[w[i]]
    <3>1. i \in 1..Len(w)
      BY <1>9
    <3> QED
      BY <3>1, <2>1, <1>8, <1>9
  <2>4. w \in Seq(InUse(node))
    BY <1>8, SeqMonotonic
  <2>5. root \in InUse(node) /\ Len(w) > 0 /\ w[1] = root
    BY <1>2, <1>8, <1>9
  <2> HIDE DEF step, S
  <2> QED
    BY <2>2, <2>3, <2>4, <2>5, WalkPath
<1>12. Descent(e) = w /\ FindLeaf(e) = w[Len(w)]
  BY <1>4, <1>7 DEF FindLeaf, Last
<1> QED
  BY <1>8, <1>10, <1>11, <1>12

\* What a page that was split leaves behind.
LEMMA HalvedRules ==
    ASSUME NEW nd, NEW lo, NEW top, NEW lev, Core(nd, lo, top, top, lev),
           NEW rt, Rules(nd, rt, lo, top, lev),
           NEW p \in InUse(nd), NEW q \in Pages, q \notin InUse(nd), NEW s \in Nat,
           NEW nd2, InUse(nd2) = InUse(nd) \cup {q},
           NEW lo2, NEW top2, NEW reach2, NEW lev2,
           lo2 = Put(lo, q, s), top2 = Put(Put(top, p, s), q, top[p]),
           reach2 = Put(top, q, top[p]), lev2 = Put(lev, q, lev[p])
    PROVE  Rules(nd2, rt, lo2, reach2, lev2) /\ Pending(top2, lo2, reach2, lev2, p, s, q)
<1>1. /\ lo \in [Pages -> Nat] /\ top \in [Pages -> Nat] /\ lev \in [Pages -> Nat]
      /\ p \in Pages /\ p # q /\ InUse(nd) \subseteq Pages
  BY DEF Core, Typed, InUse
<1>2. /\ \A r \in InUse(nd) : lo2[r] = lo[r] /\ reach2[r] = top[r] /\ lev2[r] = lev[r]
      /\ lev2[q] = lev[p] /\ lo2[q] = s /\ top2[p] = s /\ top2[q] = top[p]
  BY <1>1 DEF Put
<1>3. reach2 = Put(top2, p, top2[q])
  BY <1>1 DEF Put
<1>4. Rules(nd2, rt, lo2, reach2, lev2)
  BY <1>2 DEF Rules
<1> QED
  BY <1>2, <1>3, <1>4 DEF Pending

-----------------------------------------------------------------------------
(***************************************************************************)
(* Every action keeps it.                                                   *)
(***************************************************************************)
LEMMA InitKeeps == Init => IInv
<1> SUFFICES ASSUME Init PROVE IInv
  OBVIOUS
<1>1. \A p \in Pages : node[p] = FreePage
  BY DEF Init
<1>2. InUse(node) = {}
  BY <1>1, FreeIn DEF InUse
<1>3. Vars
  BY FreeIn, NoElements DEF Init, Vars
<1> QED
  BY <1>2, <1>3 DEF Init, IInv

LEMMA CreateKeeps ==
    ASSUME IInv, Create
    PROVE  IInv'
<1>1. /\ InUse(node) = {} /\ rows = {} /\ stack = <<>> /\ extra = NoPage /\ Vars
      /\ NoPage \notin Pages /\ Pages # {}
  BY SizeAssumption DEF IInv, Create, Pages
<1>2. PICK q : q = NewPage
  OBVIOUS
<1>3. q \in Pages
  BY <1>1, <1>2, UsedIs DEF NewPage
<1>4. /\ root' = q /\ node' = [node EXCEPT ![q] = Leaf(<<>>, NoPage)]
      /\ rows' = rows /\ stack' = stack /\ sep' = sep /\ extra' = extra
  BY <1>2 DEF Create, call
<1>5. /\ Leaf(<<>>, NoPage) \in Nodes /\ Leaf(<<>>, NoPage).kind = "leaf"
      /\ Leaf(<<>>, NoPage).entries = <<>> /\ Leaf(<<>>, NoPage).children = <<>>
      /\ Leaf(<<>>, NoPage).next = NoPage
  BY NoElements, LeafIn
<1>6. node' \in [Pages -> Nodes] /\ node'[q] = Leaf(<<>>, NoPage) /\ \A p \in Pages : p # q => node'[p] = node[p]
  BY <1>1, <1>3, <1>4, <1>5 DEF Vars
<1>7. InUse(node') = {q}
  BY <1>1, <1>3, <1>5, <1>6 DEF InUse
<1> DEFINE lo == [p \in Pages |-> 0]
           top == [p \in Pages |-> Top]
           lev == [p \in Pages |-> 0]
<1>8. Core(node', lo, top, top, lev)
  <2>1. Top \in Nat /\ Top > 0
    BY EntryBounds
  <2>2. Typed(node', lo, top, top, lev)
    BY <1>6, <2>1 DEF Typed
  <2>3. Spans(InUse(node'), lo, top) /\ Disjoint(InUse(node'), lo, top, lev)
    BY <1>3, <1>7, <2>1 DEF Spans, Disjoint
  <2>4. Chained(node', lo, top)
    BY <1>3, <1>5, <1>6, <1>7 DEF Chained
  <2>5. NodeOK(node'[q], lo[q], top[q], lev[q], InUse(node'), lo, top, lev)
    BY <1>3, <1>5, <1>6, NoElements DEF NodeOK, LeafOK, ChildrenOK, Ascending
  <2> QED
    BY <1>7, <2>2, <2>3, <2>4, <2>5 DEF Core
<1>9. Rules(node', q, lo, top, lev)
  BY <1>3, <1>7 DEF Rules
<1>10. WellFormed(node', root', stack', sep', extra', lo, top, top, lev)
  <2>1. Path(node', q, <<>>, lev)
    BY NoPath
  <2>2. Waits(InUse(node'), <<>>, sep', NoPage, lo, top, top, lev)
    BY DEF Waits
  <2> QED
    BY <1>1, <1>4, <1>8, <1>9, <2>1, <2>2 DEF WellFormed
<1>11. Content(node') = {}
  <2>1. Held(node'[q]) = {}
    BY <1>5, <1>6, NoElements DEF Held
  <2>2. \A p \in Pages : node'[p].kind = "leaf" => p = q
    BY <1>7 DEF InUse
  <2> QED
    BY <2>1, <2>2 DEF Content, LeafHeld
<1>12. Fan(node', stack', extra')
  BY <1>5, <1>6, <1>7 DEF Fan
<1>13. Vars'
  BY <1>1, <1>3, <1>4, <1>6 DEF Vars
<1>14. root' # NoPage /\ rows' = Content(node')
  BY <1>1, <1>3, <1>4, <1>11
<1> HIDE DEF lo, top, lev
<1> QED
  BY <1>10, <1>12, <1>13, <1>14, InvAfter

\* The leaf takes e in, or is split.
LEMMA InsertKeeps ==
    ASSUME IInv, Roomy, NEW e \in Entries, Insert(e)
    PROVE  IInv'
<1>1. /\ stack = <<>> /\ root # NoPage /\ e \notin rows /\ Space(Spare) /\ Spare \in Nat \ {0}
      /\ rows' = rows \cup {e} /\ root' = root
  BY SizeAssumption DEF Insert
<1>2. Vars /\ rows = Content(node) /\ Fan(node, stack, extra) /\ extra = NoPage
  BY <1>1, AtRest
<1>3. PICK lo \in [Pages -> Nat], top \in [Pages -> Nat], lev \in [Pages -> Nat] :
        Core(node, lo, top, top, lev) /\ Rules(node, root, lo, top, lev)
  BY <1>1, AtRest
<1>4. e \in Nat /\ e < Top /\ NoPage \notin Pages
  BY EntryBounds, SizeAssumption
<1>5. PICK p : p = FindLeaf(e)
  OBVIOUS
<1>6. /\ Path(node, root, Descent(e), lev) /\ Len(Descent(e)) \in 1..MaxPage
      /\ p = Descent(e)[Len(Descent(e))] /\ p \in InUse(node) /\ node[p].kind = "leaf"
      /\ lo[p] <= e /\ e < top[p]
  BY <1>3, <1>4, <1>5, DescentOf
<1>7. PICK n \in Nodes, a \in Nat, b \in Nat : n = node[p] /\ a = lo[p] /\ b = top[p]
  BY <1>3, <1>6, PageFacts
<1>8. LeafOK(n, a, b) /\ lev[p] = 0 /\ p \in Pages /\ n.kind = "leaf"
  BY <1>3, <1>6, <1>7, PageFacts
<1>9. PICK g : g = [node[p] EXCEPT !.entries = InsertAt(@, Place(@, e) + 1, e)]
  OBVIOUS
<1>10. InsertAt(n.entries, Place(n.entries, e) + 1, e) \in Seq(Entries)
  <2>1. PICK s \in Seq(Entries) : s = n.entries
    BY NodeFacts
  <2>2. Ascending(s) /\ s \in Seq(Nat) /\ Len(s) \in Nat
    BY <2>1, <1>8, NodeFacts DEF LeafOK
  <2>0. PICK j : j = Place(s, e)
    OBVIOUS
  <2>5. j \in 0..Len(s)
    BY <2>0, <2>2, <1>4, PlaceOf
  <2>3. PICK k \in Nat : k = Place(s, e) + 1 /\ k \in 1..Len(s) + 1
    BY <2>0, <2>2, <2>5
  <2>4. InsertAt(s, k, e) \in Seq(Entries)
    BY <2>3, InsertedAt
  <2> QED
    BY <2>1, <2>3, <2>4
<1>11. /\ g \in Nodes /\ g.kind = "leaf" /\ g.children = n.children /\ g.next = n.next
       /\ g.entries = InsertAt(n.entries, Place(n.entries, e) + 1, e)
  BY <1>7, <1>8, <1>9, <1>10 DEF Nodes
<1>12. e \notin Held(n)
  BY <1>1, <1>2, <1>7, <1>8 DEF Content, LeafHeld
<1>13. LeafOK(g, a, b) /\ Held(g) = Held(n) \cup {e} /\ g.children = <<>>
  <2>1. g.children = <<>>
    BY <1>8, <1>11 DEF LeafOK
  <2>2. a <= e /\ e < b
    BY <1>6, <1>7
  <2>3. LeafOK(g, a, b) /\ Held(g) = Held(n) \cup {e}
    BY <1>8, <1>11, <1>12, <2>1, <2>2, LeafWith
  <2> QED
    BY <2>1, <2>3
<1>14. LeafHeld(node, {p}) = Held(n)
  BY <1>7, <1>8 DEF LeafHeld
<1>15. CASE Fits(g)
  <2>1. node' = [node EXCEPT ![p] = g] /\ stack' = stack /\ sep' = sep /\ extra' = extra
    BY <1>5, <1>9, <1>15 DEF Insert, call
  <2>2. node' \in [Pages -> Nodes] /\ node'[p] = g /\ \A q \in Pages : q # p => node'[q] = node[q]
    BY <2>1, <1>2, <1>8, <1>11 DEF Vars
  <2>3. NodeOK(node'[p], lo[p], top[p], lev[p], InUse(node), lo, top, lev)
    BY <2>2, <1>7, <1>8, <1>13, NoElements DEF NodeOK, ChildrenOK
  <2>4. InUse(node') = InUse(node) /\ Core(node', lo, top, top, lev)
    <3>1. node'[p].kind = node[p].kind /\ node'[p].next = node[p].next
      BY <2>2, <1>7, <1>8, <1>11
    <3>2. Unmoved(node, p, top, top)
      BY DEF Unmoved
    <3>3. top \in [Pages -> Nat]
      OBVIOUS
    <3> QED
      BY <2>2, <2>3, <3>1, <3>2, <3>3, <1>3, <1>6, Replace
  <2>5. Rules(node', root, lo, top, lev)
    BY <2>4, <1>3 DEF Rules
  <2>6. WellFormed(node', root', stack', sep', extra', lo, top, top, lev)
    <3>1. Path(node', root, <<>>, lev)
      BY NoPath
    <3>2. Waits(InUse(node'), <<>>, sep', NoPage, lo, top, top, lev)
      BY DEF Waits
    <3> QED
      BY <2>1, <2>4, <2>5, <3>1, <3>2, <1>1, <1>2 DEF WellFormed
  <2>7. rows' = Content(node')
    <3>1. LeafHeld(node', {p}) = Held(n) \cup {e}
      BY <2>2, <1>11, <1>13 DEF LeafHeld
    <3>2. {p} \in SUBSET Pages /\ \A q \in Pages : q \notin {p} => node'[q] = node[q]
      BY <2>2, <1>8
    <3>3. /\ Content(node) = LeafHeld(node, {p}) \cup LeafHeld(node, Pages \ {p})
          /\ Content(node') = LeafHeld(node', {p}) \cup LeafHeld(node, Pages \ {p})
      <4>1. PICK X \in SUBSET Pages : X = {p}
        BY <3>2
      <4>2. SameBut(node, node', X)
        BY <3>2, <4>1 DEF SameBut
      <4>3. /\ Content(node) = LeafHeld(node, X) \cup LeafHeld(node, Pages \ X)
            /\ Content(node') = LeafHeld(node', X) \cup LeafHeld(node, Pages \ X)
        BY <4>2, ContentParts
      <4> QED
        BY <4>1, <4>3
    <3> QED
      BY <3>1, <3>3, <1>1, <1>2, <1>14
  <2>8. Fan(node', stack', extra')
    <3>1. \A q \in InUse(node') : node'[q].kind = "internal" => node'[q] = node[q]
      BY <2>2, <1>11 DEF InUse
    <3> QED
      BY <3>1, <2>1, <2>4, <1>2 DEF Fan
  <2>9. Vars' /\ root' # NoPage
    BY <2>1, <2>2, <1>1, <1>2 DEF Vars
  <2> QED
    BY <2>6, <2>7, <2>8, <2>9, InvAfter
<1>16. CASE ~Fits(g)
  <2>0. PICK q, i, k : q = NewPage /\ k = Len(g.entries) /\ i = SplitPoint(k) /\ k \in Nat
    <3>1. Len(g.entries) \in Nat
      BY <1>11, NodeFacts
    <3> QED
      BY <3>1
  <2>1. q \in Pages /\ q \notin InUse(node) /\ q # p
    BY <2>0, <1>1, <1>6, NewPageOf
  <2>2. k >= 3
    <3>0. Len(g.children) = 0 /\ BodySize(g) = Weight(k, Len(g.children)) /\ BodySize(g) \in Nat
      BY <2>0, <1>11, <1>13, NoElements, SizeOf
    <3>1. BodySize(g) > MaxBody /\ BodySize(g) = Weight(k, 0)
      BY <3>0, <1>16, SizeAssumption DEF Fits
    <3> QED
      BY <2>0, <3>1, WeightBounds
  <2>3. i \in 1..k - 1
    BY <2>0, <2>2, SplitPointOf
  <2>4. PICK n1, n2 : /\ n1 = Leaf(SubSeq(g.entries, 1, i), q)
                      /\ n2 = Leaf(SubSeq(g.entries, i + 1, Len(g.entries)), g.next)
    OBVIOUS
  <2>5. /\ node' = [node EXCEPT ![p] = n1, ![q] = n2] /\ stack' = Descent(e)
        /\ sep' = g.entries[i + 1] /\ extra' = q
    BY <2>0, <2>4, <1>5, <1>9, <1>16 DEF Insert, SplitLeaf
  <2>6. /\ n1 \in Nodes /\ n2 \in Nodes /\ n1.kind = "leaf" /\ n2.kind = "leaf"
        /\ n1.children = <<>> /\ n2.children = <<>> /\ n1.next = q /\ n2.next = n.next
        /\ Cut(g, i, 0, n1, n2)
    <3>1. g.next \in Pages \cup {NoPage} /\ q \in Pages \cup {NoPage} /\ i \in 1..Len(g.entries) - 1
      BY <2>0, <2>1, <2>3, <1>11, NodeFacts
    <3>2. PICK r \in Pages \cup {NoPage} : r = g.next
      BY <3>1
    <3>3. LeafParts(g, i, q, r, n1, n2)
      BY <3>2, <2>4 DEF LeafParts
    <3>4. /\ n1 \in Nodes /\ n2 \in Nodes /\ n1.kind = "leaf" /\ n2.kind = "leaf"
          /\ n1.children = <<>> /\ n2.children = <<>> /\ n1.next = q /\ n2.next = r
          /\ Cut(g, i, 0, n1, n2)
      BY <3>1, <3>3, <1>11, LeafHalves
    <3> QED
      BY <3>2, <3>4, <1>11
  <2>7. PICK s : s = g.entries[i + 1]
    OBVIOUS
  <2>8. /\ s \in Entries /\ a < s /\ s < b /\ LeafOK(n1, a, s) /\ LeafOK(n2, s, b)
        /\ Held(g) = Held(n1) \cup Held(n2)
    <3>1. i \in 1..Len(g.entries) - 1
      BY <2>0, <2>3
    <3> QED
      BY <3>1, <2>6, <2>7, <1>11, <1>13, LeafCut
  <2>9. s \in Nat
    BY <2>8, EntryBounds
  <2>10. node' \in [Pages -> Nodes] /\ node'[p] = n1 /\ node'[q] = n2
         /\ \A r \in Pages : r # p /\ r # q => node'[r] = node[r]
    BY <2>1, <2>5, <2>6, <1>2, <1>8 DEF Vars
  <2>11. /\ NodeOK(n1, lo[p], s, lev[p], InUse(node), lo, top, lev)
         /\ NodeOK(n2, s, top[p], lev[p], InUse(node), lo, top, lev)
    BY <2>6, <2>8, <1>7, <1>8, NoElements DEF NodeOK, ChildrenOK
  <2>12. PICK lo2, top2, reach2, lev2 :
           /\ lo2 = Put(lo, q, s) /\ top2 = Put(Put(top, p, s), q, top[p])
           /\ reach2 = Put(top, q, top[p]) /\ lev2 = Put(lev, q, lev[p])
    OBVIOUS
  <2>13. InUse(node') = InUse(node) \cup {q} /\ Core(node', lo2, top2, reach2, lev2)
    <3>1. /\ n1.kind = node[p].kind /\ n2.kind = node[p].kind
          /\ n1.next = q /\ n2.next = node[p].next
          /\ lo[p] < s /\ s < top[p]
      BY <2>6, <2>8, <1>6, <1>7
    <3>2. n1 \in Nodes /\ n2 \in Nodes /\ Core(node, lo, top, top, lev) /\ p \in InUse(node)
      BY <2>6, <1>3, <1>6
    <3>3. /\ InUse(node') = InUse(node) \cup {q}
          /\ Core(node', Put(lo, q, s), Put(Put(top, p, s), q, top[p]), Put(top, q, top[p]),
                  Put(lev, q, lev[p]))
      <4>1. HalfOf(node, lo, top, lev, p, q, n1, n2, s, node')
        BY <2>1, <2>9, <2>10, <2>11, <3>1, <3>2 DEF HalfOf
      <4> QED
        BY <4>1, Halved
    <3> QED
      BY <2>12, <3>3
  <2>14. Rules(node', root, lo2, reach2, lev2) /\ Pending(top2, lo2, reach2, lev2, p, s, q)
    <3>1. Core(node, lo, top, top, lev) /\ Rules(node, root, lo, top, lev) /\ p \in InUse(node)
      BY <1>3, <1>6
    <3>2. InUse(node') = InUse(node) \cup {q}
      BY <2>13
    <3> QED
      BY <2>1, <2>9, <2>12, <3>1, <3>2, HalvedRules
  <2>15. WellFormed(node', root', stack', sep', extra', lo2, top2, reach2, lev2)
    <3>1. Path(node', root, Descent(e), lev2)
      <4>1. \A r \in InUse(node) : r \in Pages /\ r # q /\ r \in InUse(node')
        BY <2>1, <2>13 DEF InUse
      <4>2. \A r \in InUse(node) : lev2[r] = lev[r]
        BY <4>1, <2>1, <2>12 DEF Put
      <4>3. \A r \in InUse(node) : node'[r].children = node[r].children
        <5> TAKE r \in InUse(node)
        <5>1. CASE r = p
          BY <5>1, <2>6, <2>10, <1>7, <1>8 DEF LeafOK
        <5>2. CASE r # p
          BY <5>2, <4>1, <2>10
        <5> QED
          BY <5>1, <5>2
      <4>4. lev2[root] = lev[root]
        BY <4>2, <1>3 DEF Rules
      <4>5. Path(node, root, Descent(e), lev)
        BY <1>6
      <4>6. PICK st : st = Descent(e)
        OBVIOUS
      <4>7. \A r \in InUse(node) : r \in InUse(node') /\ lev2[r] = lev[r]
                                   /\ node'[r].children = node[r].children
        BY <4>1, <4>2, <4>3
      <4>8. Path(node', root, st, lev2)
        BY <4>4, <4>5, <4>6, <4>7, PathSame
      <4> QED
        BY <4>6, <4>8
    <3>2. Waits(InUse(node'), Descent(e), s, q, lo2, top2, reach2, lev2)
      BY <2>1, <2>8, <2>13, <2>14, <1>4, <1>6 DEF Waits
    <3> QED
      BY <2>5, <2>7, <2>13, <2>14, <3>1, <3>2, <1>1 DEF WellFormed
  <2>16. rows' = Content(node')
    <3>1. LeafHeld(node', {p, q}) = Held(n1) \cup Held(n2)
      BY <2>6, <2>10 DEF LeafHeld
    <3>2. LeafHeld(node, {p, q}) = Held(n)
      <4>1. node[q].kind # "leaf"
        BY <2>1 DEF InUse
      <4> QED
        BY <4>1, <1>7, <1>8 DEF LeafHeld
    <3>3. SameBut(node, node', {p, q})
      BY <2>1, <2>10, <1>8 DEF SameBut
    <3>4. /\ Content(node) = LeafHeld(node, {p, q}) \cup LeafHeld(node, Pages \ {p, q})
          /\ Content(node') = LeafHeld(node', {p, q}) \cup LeafHeld(node, Pages \ {p, q})
      BY <3>3, ContentParts
    <3> QED
      BY <3>1, <3>2, <3>4, <2>8, <1>1, <1>2, <1>13
  <2>17. Fan(node', stack', extra')
    <3>1. \A r \in InUse(node') : node'[r].kind = "internal" => r \in InUse(node) /\ node'[r] = node[r]
      BY <2>6, <2>10, <2>13 DEF InUse
    <3>2. \A r \in InUse(node) : node[r].kind = "internal" => Len(node[r].entries) # 0
      BY <1>1, <1>2, NoElements DEF Fan
    <3> QED
      BY <3>1, <3>2 DEF Fan
  <2>18. Vars' /\ root' # NoPage
    BY <2>1, <2>5, <2>7, <2>8, <2>10, <1>1, <1>2, <1>6 DEF Vars, Path
  <2> QED
    BY <2>15, <2>16, <2>17, <2>18, InvAfter
<1> QED
  BY <1>15, <1>16

\* Nothing moves between leaves when none changes.
LEMMA ContentKept ==
    ASSUME NEW nd, NEW nd2, NEW X \in SUBSET Pages,
           \A q \in Pages : q \notin X => nd2[q] = nd[q],
           \A q \in X : nd[q].kind # "leaf" /\ nd2[q].kind # "leaf"
    PROVE  Content(nd2) = Content(nd)
<1>1. \A q \in Pages : (nd2[q].kind = "leaf" <=> nd[q].kind = "leaf")
                       /\ (nd[q].kind = "leaf" => nd2[q] = nd[q])
  OBVIOUS
<1> QED
  BY <1>1 DEF Content, LeafHeld

\* A page that was split, and waits for its parent.
LEMMA Waiting ==
    ASSUME IInv, extra # NoPage
    PROVE  /\ Vars /\ root # NoPage /\ rows = Content(node)
           /\ \A p \in InUse(node) : node[p].kind = "internal" => Len(node[p].entries) # 0
           /\ Len(stack) \in Nat /\ Len(stack) > 0
           /\ \E lo, top, reach, lev \in [Pages -> Nat] :
                /\ Core(node, lo, top, reach, lev) /\ Rules(node, root, lo, reach, lev)
                /\ Path(node, root, stack, lev)
                /\ extra \in InUse(node) /\ extra # stack[Len(stack)] /\ sep \in Entries
                /\ Pending(top, lo, reach, lev, stack[Len(stack)], sep, extra)
<1>1. root # NoPage /\ Vars /\ Fan(node, stack, extra) /\ rows = Content(node)
  BY DEF IInv
<1>2. PICK lo \in [Pages -> Nat], top \in [Pages -> Nat], reach \in [Pages -> Nat], lev \in [Pages -> Nat] :
        WellFormed(node, root, stack, sep, extra, lo, top, reach, lev)
  BY <1>1 DEF IInv, Tree
<1>3. /\ Core(node, lo, top, reach, lev) /\ Rules(node, root, lo, reach, lev)
      /\ Path(node, root, stack, lev)
      /\ Len(stack) > 0 /\ extra \in InUse(node) /\ extra # stack[Len(stack)] /\ sep \in Entries
      /\ Pending(top, lo, reach, lev, stack[Len(stack)], sep, extra)
  BY <1>2 DEF WellFormed, Waits
<1>4. Len(stack) \in Nat
  BY <1>1, RangeOf DEF Vars
<1>5. \A p \in InUse(node) : node[p].kind = "internal" => Len(node[p].entries) # 0
  BY <1>1 DEF Fan
<1> QED
  BY <1>1, <1>3, <1>4, <1>5

\* The parent takes the separator in, or is split itself.
LEMMA InsertInParentKeeps ==
    ASSUME IInv, Roomy, InsertInParent
    PROVE  IInv'
<1>1. extra # NoPage /\ Len(stack) > 1 /\ Space(1) /\ root' = root /\ rows' = rows
  BY DEF InsertInParent
<1>2. /\ Vars /\ root # NoPage /\ rows = Content(node)
      /\ \A p \in InUse(node) : node[p].kind = "internal" => Len(node[p].entries) # 0
  BY <1>1, Waiting
<1>3. PICK lo \in [Pages -> Nat], top \in [Pages -> Nat], reach \in [Pages -> Nat], lev \in [Pages -> Nat] :
        /\ Core(node, lo, top, reach, lev) /\ Rules(node, root, lo, reach, lev)
        /\ Path(node, root, stack, lev)
        /\ extra \in InUse(node) /\ extra # stack[Len(stack)] /\ sep \in Entries
        /\ Pending(top, lo, reach, lev, stack[Len(stack)], sep, extra)
  BY <1>1, Waiting
<1>4. PICK p, c, m : m = Len(stack) /\ p = stack[m - 1] /\ c = stack[m] /\ m \in Nat /\ m > 1
  BY <1>1, Waiting
<1>5. PICK i \in 1..Len(node[p].children) : node[p].children[i] = c
  <2>1. m - 1 \in 1..Len(stack) - 1 /\ (m - 1) + 1 = m
    BY <1>4
  <2> QED
    BY <2>1, <1>3, <1>4 DEF Path
<1>6. p \in InUse(node) /\ c \in InUse(node) /\ c # root /\ p \in Pages /\ c \in Pages
  <2>1. m - 1 \in 1..Len(stack) /\ m \in 1..Len(stack)
    BY <1>4
  <2>2. p \in InUse(node) /\ c \in InUse(node) /\ lev[c] + m = lev[root] + 1
    BY <2>1, <1>3, <1>4 DEF Path
  <2>3. p \in Pages /\ c \in Pages
    BY <2>2 DEF InUse
  <2>4. lev[c] \in Nat
    BY <2>3
  <2> QED
    BY <2>2, <2>3, <2>4, <1>4
<1>7. PICK n \in Nodes, a \in Nat, b \in Nat : n = node[p] /\ a = lo[p] /\ b = top[p]
  BY <1>3, <1>6, PageFacts
<1>8. /\ n.kind = "internal" /\ InnerOK(n, a, b) /\ a < b /\ n.next = NoPage
      /\ lo[c] = LowOf(n, a, i) /\ reach[c] = HighOf(n, b, i) /\ lev[c] + 1 = lev[p]
  <2>1. /\ node[p].kind = "internal" /\ InnerOK(node[p], lo[p], top[p])
        /\ lo[c] = LowOf(node[p], lo[p], i) /\ reach[c] = HighOf(node[p], top[p], i)
        /\ lev[c] + 1 = lev[p]
    BY <1>3, <1>5, <1>6, ChildFacts, SMTT(30)
  <2>2. lo[p] < top[p]
    BY <1>3, <1>6, PageFacts
  <2> QED
    BY <2>1, <2>2, <1>7 DEF InnerOK
<1>9. Pending(top, lo, reach, lev, c, sep, extra) /\ extra # c
  BY <1>3, <1>4
<1>10. sep \in Nat /\ lo[c] < sep /\ sep < reach[c]
  <2>1. lo[c] < top[c] /\ lo[extra] < top[extra]
    BY <1>3, <1>6, PageFacts
  <2> QED
    BY <2>1, <1>3, <1>6, <1>9, EntryBounds DEF Pending, Put
<1>11. Place(n.entries, sep) + 1 = i
  <2>1. LowOf(n, a, i) <= sep /\ sep < HighOf(n, b, i) /\ i \in 1..Len(n.children)
    BY <1>6, <1>7, <1>8, <1>10
  <2>2. a <= sep /\ sep < b
    <3>1. /\ a <= LowOf(n, a, i) /\ HighOf(n, b, i) <= b
          /\ LowOf(n, a, i) \in Nat /\ HighOf(n, b, i) \in Nat
      BY <2>1, <1>8, Shares
    <3> QED
      BY <3>1, <2>1, <1>10
  <2> QED
    BY <2>1, <2>2, <1>8, <1>10, ChildFor
<1>12. PICK g : g = Internal(InsertAt(n.entries, i, sep), InsertAt(n.children, i + 1, extra))
  OBVIOUS
<1>13. /\ g \in Nodes /\ g.kind = "internal" /\ g.next = NoPage
       /\ g.entries = InsertAt(n.entries, i, sep) /\ g.children = InsertAt(n.children, i + 1, extra)
  <2>1. PICK s \in Seq(Entries), t \in Seq(Pages), h \in Nat :
          s = n.entries /\ t = n.children /\ h = i + 1
    BY NodeFacts
  <2>2. i \in 1..Len(s) + 1 /\ h \in 1..Len(t) + 1 /\ extra \in Pages
    <3>1. extra \in Pages
      BY <1>3 DEF InUse
    <3>2. Len(t) = Len(s) + 1 /\ Len(s) \in Nat
      BY <2>1, <1>8, RangeOf DEF InnerOK
    <3>3. i \in 1..Len(t)
      BY <2>1, <1>5, <1>7
    <3> QED
      BY <3>1, <3>2, <3>3, <2>1
  <2>3. InsertAt(s, i, sep) \in Seq(Entries)
    BY <2>2, <1>3, InsertedAt
  <2>4. InsertAt(t, h, extra) \in Seq(Pages)
    BY <2>2, InsertedAt
  <2>5. PICK u \in Seq(Entries), v \in Seq(Pages) : u = InsertAt(s, i, sep) /\ v = InsertAt(t, h, extra)
    BY <2>3, <2>4
  <2>6. g = Internal(u, v)
    BY <2>1, <2>5, <1>12
  <2>7. /\ Internal(u, v) \in Nodes /\ Internal(u, v).kind = "internal"
        /\ Internal(u, v).entries = u /\ Internal(u, v).children = v /\ Internal(u, v).next = NoPage
    BY InternalIn
  <2> QED
    BY <2>1, <2>5, <2>6, <2>7
<1>14. PICK nd : nd = [node EXCEPT ![p] = g]
  OBVIOUS
<1>15. nd \in [Pages -> Nodes] /\ nd[p] = g /\ \A q \in Pages : q # p => nd[q] = node[q]
  BY <1>2, <1>6, <1>13, <1>14 DEF Vars
<1>16. InUse(nd) = InUse(node) /\ Core(nd, lo, top, top, lev) /\ Gains(g, node[p], lo[p], top[p], i, sep, extra)
  <2>1. /\ g.entries = InsertAt(node[p].entries, i, sep)
        /\ g.children = InsertAt(node[p].children, i + 1, extra)
    BY <1>7, <1>13
  <2>2. extra \in InUse(node) /\ sep \in Entries /\ Core(node, lo, top, reach, lev)
    BY <1>3
  <2> QED
    <3>1. GrownFrom(node, lo, top, reach, lev, p, i, c, extra, sep, g, nd)
      BY <2>1, <2>2, <1>5, <1>6, <1>9, <1>13, <1>15 DEF GrownFrom
    <3> QED
      BY <3>1, Grown
<1>17. Rules(nd, root, lo, top, lev)
  <2>1. root \in InUse(node) /\ root \in Pages /\ root # c /\ reach = Put(top, c, top[extra])
    BY <1>3, <1>6, <1>9 DEF Rules, InUse, Pending
  <2>2. top[root] = reach[root]
    BY <2>1 DEF Put
  <2> QED
    BY <2>2, <1>3, <1>16 DEF Rules
<1>18. Len(g.entries) = Len(n.entries) + 1 /\ Len(g.entries) \in Nat /\ Len(n.entries) \in Nat
       /\ Len(g.children) = Len(g.entries) + 1
  BY <1>7, <1>8, <1>13, <1>16, NodeFacts DEF Gains, InnerOK
<1>19. CASE Fits(g)
  <2>1. node' = nd /\ stack' = <<>> /\ extra' = NoPage /\ sep' = sep
    BY <1>4, <1>7, <1>11, <1>12, <1>14, <1>19 DEF InsertInParent
  <2>2. WellFormed(node', root', stack', sep', extra', lo, top, top, lev)
    <3>1. Path(nd, root, <<>>, lev)
      BY NoPath
    <3>2. Waits(InUse(nd), <<>>, sep', NoPage, lo, top, top, lev)
      BY DEF Waits
    <3> QED
      BY <2>1, <3>1, <3>2, <1>1, <1>16, <1>17 DEF WellFormed
  <2>3. rows' = Content(node')
    <3>1. PICK X \in SUBSET Pages : X = {p}
      BY <1>6
    <3>2. /\ \A q \in Pages : q \notin X => nd[q] = node[q]
          /\ \A q \in X : node[q].kind # "leaf" /\ nd[q].kind # "leaf"
      BY <3>1, <1>7, <1>8, <1>13, <1>15
    <3>3. Content(nd) = Content(node)
      BY <3>2, ContentKept
    <3> QED
      BY <3>3, <2>1, <1>1, <1>2
  <2>4. Fan(node', stack', extra')
    <3>1. \A q \in InUse(nd) : nd[q].kind = "internal" => Len(nd[q].entries) # 0
      <4> TAKE q \in InUse(nd)
      <4>1. q \in Pages /\ q \in InUse(node)
        BY <1>16 DEF InUse
      <4>2. CASE q = p
        BY <4>2, <1>15, <1>18
      <4>3. CASE q # p
        BY <4>1, <4>3, <1>2, <1>15
      <4> QED
        BY <4>2, <4>3
    <3> QED
      BY <3>1, <2>1 DEF Fan
  <2>5. Vars' /\ root' # NoPage
    BY <2>1, <1>1, <1>2, <1>15, NoElements DEF Vars
  <2> QED
    BY <2>2, <2>3, <2>4, <2>5, InvAfter
<1>20. CASE ~Fits(g)
  <2>0. PICK q, k, j : q = NewPage /\ k = Len(g.entries) /\ j = SplitPoint(k) /\ k \in Nat
    BY <1>18
  <2>1. q \in Pages /\ q \notin InUse(node) /\ q # p
    BY <2>0, <1>1, <1>6, NewPageOf
  <2>2. k >= 3
    <3>1. BodySize(g) = Weight(k, k + 1) /\ BodySize(g) \in Nat
      BY <2>0, <1>13, <1>18, SizeOf
    <3>2. Weight(k, k + 1) > MaxBody
      BY <3>1, <1>20, SizeAssumption DEF Fits
    <3> QED
      BY <2>0, <3>2, WeightBounds
  <2>3. j \in 1..k - 1 /\ j <= k - 2 /\ j \in Nat
    BY <2>0, <2>2, SplitPointOf
  <2>4. PICK n1, n2 : InnerParts(g, j, n1, n2)
    BY DEF InnerParts
  <2>5. /\ node' = [node EXCEPT ![p] = n1, ![q] = n2] /\ stack' = Front(stack)
        /\ sep' = g.entries[j + 1] /\ extra' = q
    <3>1. SplitInternal(p, g) /\ stack' = Front(stack)
      BY <1>4, <1>7, <1>11, <1>12, <1>20 DEF InsertInParent
    <3> QED
      BY <3>1, <2>0, <2>4 DEF SplitInternal, InnerParts
  <2>6. j \in 1..Len(g.entries) - 1
    BY <2>0, <2>3
  <2>7. /\ n1 \in Nodes /\ n2 \in Nodes /\ n1.kind = "internal" /\ n2.kind = "internal"
        /\ n1.next = NoPage /\ n2.next = NoPage
        /\ Cut(g, j, 1, n1, n2) /\ CutBelow(g, j, n1, n2)
    BY <2>4, <2>6, <1>13, <1>18, InnerHalves
  <2>8. PICK s : s = g.entries[j + 1]
    OBVIOUS
  <2>9. InnerOK(g, a, b) /\ ChildrenOK(g, a, b, lev[p], InUse(node), lo, top, lev)
    <3>1. p \in InUse(nd)
      BY <1>6, <1>16
    <3>2. /\ nd[p].kind = "internal" => InnerOK(nd[p], lo[p], top[p])
          /\ ChildrenOK(nd[p], lo[p], top[p], lev[p], InUse(nd), lo, top, lev)
      BY <3>1, <1>16, PageFacts
    <3> QED
      BY <3>2, <1>7, <1>13, <1>15, <1>16
  <2>10. /\ s \in Entries /\ a < s /\ s < b
         /\ InnerOK(n1, a, s) /\ InnerOK(n2, s, b)
         /\ ChildrenOK(n1, a, s, lev[p], InUse(node), lo, top, lev)
         /\ ChildrenOK(n2, s, b, lev[p], InUse(node), lo, top, lev)
    BY <2>6, <2>7, <2>8, <2>9, <1>13, InnerCut
  <2>11. s \in Nat
    BY <2>10, EntryBounds
  <2>12. node' \in [Pages -> Nodes] /\ node'[p] = n1 /\ node'[q] = n2
         /\ \A r \in Pages : r # p /\ r # q => node'[r] = node[r]
    BY <2>1, <2>5, <2>7, <1>2, <1>6 DEF Vars
  <2>13. PICK lo2, top2, reach2, lev2 :
           /\ lo2 = Put(lo, q, s) /\ top2 = Put(Put(top, p, s), q, top[p])
           /\ reach2 = Put(top, q, top[p]) /\ lev2 = Put(lev, q, lev[p])
    OBVIOUS
  <2>14. InUse(node') = InUse(node) \cup {q} /\ Core(node', lo2, top2, reach2, lev2)
    <3>1. /\ n1.kind = nd[p].kind /\ n2.kind = nd[p].kind /\ nd[p].kind # "leaf"
          /\ lo[p] < s /\ s < top[p]
      BY <2>7, <2>10, <1>7, <1>13, <1>15
    <3>2. n1 \in Nodes /\ n2 \in Nodes /\ Core(nd, lo, top, top, lev)
          /\ p \in InUse(nd) /\ q \in Pages /\ q \notin InUse(nd)
      BY <2>1, <2>7, <1>6, <1>16
    <3>3. /\ NodeOK(n1, lo[p], s, lev[p], InUse(nd), lo, top, lev)
          /\ NodeOK(n2, s, top[p], lev[p], InUse(nd), lo, top, lev)
      BY <2>10, <1>7, <1>16 DEF NodeOK
    <3>4. \A r \in Pages : r # p /\ r # q => node'[r] = nd[r]
      BY <2>12, <1>15
    <3>5. node' \in [Pages -> Nodes] /\ node'[p] = n1 /\ node'[q] = n2
      BY <2>12
    <3>6. /\ InUse(node') = InUse(nd) \cup {q}
          /\ Core(node', Put(lo, q, s), Put(Put(top, p, s), q, top[p]), Put(top, q, top[p]),
                  Put(lev, q, lev[p]))
      <4>1. HalfOf(nd, lo, top, lev, p, q, n1, n2, s, node')
        BY <2>11, <3>1, <3>2, <3>3, <3>4, <3>5 DEF HalfOf
      <4> QED
        BY <4>1, Halved
    <3> QED
      BY <2>13, <3>6, <1>16
  <2>15. Rules(node', root, lo2, reach2, lev2) /\ Pending(top2, lo2, reach2, lev2, p, s, q)
    <3>1. /\ Core(nd, lo, top, top, lev) /\ Rules(nd, root, lo, top, lev) /\ p \in InUse(nd)
          /\ q \in Pages /\ q \notin InUse(nd)
      BY <2>1, <1>6, <1>16, <1>17
    <3>2. InUse(node') = InUse(nd) \cup {q}
      BY <2>14, <1>16
    <3> QED
      BY <2>11, <2>13, <3>1, <3>2, HalvedRules
  <2>16. Path(node', root, Front(stack), lev2) /\ Len(Front(stack)) > 0 /\ Front(stack)[Len(Front(stack))] = p
    <3>1. \A r \in InUse(node) : r \in Pages /\ r # q /\ r \in InUse(node') /\ lev2[r] = lev[r]
      <4>1. \A r \in InUse(node) : r \in Pages /\ r # q /\ r \in InUse(node')
        BY <2>1, <2>14 DEF InUse
      <4> QED
        BY <4>1, <2>1, <2>13 DEF Put
    <3>2. \A r \in InUse(node) : lev[r] > lev[p] => node'[r].children = node[r].children
      <4> SUFFICES ASSUME NEW r \in InUse(node), lev[r] > lev[p]
                   PROVE  node'[r].children = node[r].children
        OBVIOUS
      <4>1. lev[p] \in Nat
        BY <1>6
      <4>2. r # p
        BY <4>1
      <4> QED
        BY <4>2, <3>1, <2>12
    <3>3. root \in Pages /\ lev2[root] = lev[root]
      BY <3>1, <1>3 DEF Rules
    <3>4. Path(node, root, stack, lev) /\ Len(stack) > 1 /\ p = stack[Len(stack) - 1]
      BY <1>1, <1>3, <1>4
    <3>5. \A r \in InUse(node) : lev[r] >= lev[p] => r \in InUse(node') /\ lev2[r] = lev[r]
      BY <3>1
    <3> QED
      <4>1. KeptAbove(node, root, stack, lev, p, node', lev2)
        BY <3>2, <3>3, <3>4, <3>5, <1>3 DEF KeptAbove
      <4> QED
        BY <4>1, PathFront
  <2>17. WellFormed(node', root', stack', sep', extra', lo2, top2, reach2, lev2)
    <3>1. Waits(InUse(node'), Front(stack), s, q, lo2, top2, reach2, lev2)
      BY <2>1, <2>10, <2>14, <2>15, <2>16, SizeAssumption DEF Waits
    <3> QED
      BY <2>5, <2>8, <2>14, <2>15, <2>16, <3>1, <1>1 DEF WellFormed
  <2>18. rows' = Content(node')
    <3>1. PICK X \in SUBSET Pages : X = {p, q}
      BY <2>1, <1>6
    <3>2. \A r \in Pages : r \notin X => node'[r] = node[r]
      BY <3>1, <2>12
    <3>3. \A r \in X : node[r].kind # "leaf" /\ node'[r].kind # "leaf"
      BY <3>1, <2>1, <2>7, <2>12, <1>7, <1>8 DEF InUse
    <3>4. Content(node') = Content(node)
      BY <3>2, <3>3, ContentKept
    <3> QED
      BY <3>4, <1>1, <1>2
  <2>19. Fan(node', stack', extra')
    <3>1. Len(n1.entries) # 0 /\ Len(n2.entries) # 0
      BY <2>0, <2>3, <2>7 DEF Cut
    <3>2. \A r \in InUse(node') : node'[r].kind = "internal" => Len(node'[r].entries) # 0
      <4> TAKE r \in InUse(node')
      <4>1. CASE r = p \/ r = q
        BY <4>1, <3>1, <2>12
      <4>2. CASE r # p /\ r # q
        <5>1. r \in InUse(node) /\ r \in Pages
          BY <4>2, <2>14 DEF InUse
        <5> QED
          BY <4>2, <5>1, <2>12, <1>2
      <4> QED
        BY <4>1, <4>2
    <3> QED
      BY <3>2 DEF Fan
  <2>20. Vars' /\ root' # NoPage
    BY <2>1, <2>5, <2>8, <2>10, <2>12, <2>16, <1>1, <1>2 DEF Vars, Path
  <2> QED
    BY <2>17, <2>18, <2>19, <2>20, InvAfter
<1> QED
  BY <1>19, <1>20

\* A root that was split gets a new one above it.
LEMMA NewRootKeeps ==
    ASSUME IInv, NewRoot
    PROVE  IInv'
<1>1. extra # NoPage /\ Len(stack) = 1 /\ Space(1) /\ rows' = rows /\ sep' = sep
      /\ stack' = <<>> /\ extra' = NoPage
  BY DEF NewRoot
<1>2. /\ Vars /\ root # NoPage /\ rows = Content(node)
      /\ \A p \in InUse(node) : node[p].kind = "internal" => Len(node[p].entries) # 0
  BY <1>1, Waiting
<1>3. PICK lo \in [Pages -> Nat], top \in [Pages -> Nat], reach \in [Pages -> Nat], lev \in [Pages -> Nat] :
        /\ Core(node, lo, top, reach, lev) /\ Rules(node, root, lo, reach, lev)
        /\ Path(node, root, stack, lev)
        /\ extra \in InUse(node) /\ extra # stack[Len(stack)] /\ sep \in Entries
        /\ Pending(top, lo, reach, lev, stack[Len(stack)], sep, extra)
  BY <1>1, Waiting
<1>4. stack[Len(stack)] = root
  BY <1>1, <1>3 DEF Path
<1>5. extra # root /\ Pending(top, lo, reach, lev, root, sep, extra)
  BY <1>3, <1>4
<1>6. PICK r : r = NewPage
  OBVIOUS
<1>7. r \in Pages /\ r \notin InUse(node)
  BY <1>1, <1>6, NewPageOf
<1>8. root' = r /\ node' = [node EXCEPT ![r] = Internal(<<sep>>, <<root, extra>>)]
  BY <1>6 DEF NewRoot
<1>9. /\ Internal(<<sep>>, <<root, extra>>) \in Nodes
      /\ Internal(<<sep>>, <<root, extra>>).kind = "internal"
      /\ Internal(<<sep>>, <<root, extra>>).entries = <<sep>>
  <2>1. root \in Pages /\ extra \in Pages /\ sep \in Entries
    BY <1>3 DEF Rules, InUse
  <2>2. <<sep>> \in Seq(Entries) /\ <<root, extra>> \in Seq(Pages)
    BY <2>1
  <2> QED
    BY <2>2, InternalIn
<1>10. /\ node' \in [Pages -> Nodes] /\ node'[r] = Internal(<<sep>>, <<root, extra>>)
       /\ \A q \in Pages : q # r => node'[q] = node[q]
  BY <1>2, <1>7, <1>8, <1>9 DEF Vars
<1>11. PICK lo2, top2, lev2 :
         lo2 = Put(lo, r, 0) /\ top2 = Put(top, r, Top) /\ lev2 = Put(lev, r, lev[root] + 1)
  OBVIOUS
<1>12. /\ InUse(node') = InUse(node) \cup {r} /\ Core(node', lo2, top2, top2, lev2)
       /\ Rules(node', r, lo2, top2, lev2)
  <2>1. /\ Core(node, lo, top, reach, lev) /\ Rules(node, root, lo, reach, lev)
        /\ extra \in InUse(node) /\ sep \in Entries
    BY <1>3
  <2>2. /\ InUse(node') = InUse(node) \cup {r}
        /\ Core(node', Put(lo, r, 0), Put(top, r, Top), Put(top, r, Top), Put(lev, r, lev[root] + 1))
        /\ Rules(node', r, Put(lo, r, 0), Put(top, r, Top), Put(lev, r, lev[root] + 1))
    <3>1. RootOver(node, lo, top, reach, lev, root, extra, sep, r, node')
      BY <2>1, <1>5, <1>7, <1>10 DEF RootOver
    <3> QED
      BY <3>1, Rooted
  <2> QED
    BY <2>2, <1>11
<1>13. WellFormed(node', root', stack', sep', extra', lo2, top2, top2, lev2)
  <2>1. Path(node', r, <<>>, lev2)
    BY NoPath
  <2>2. Waits(InUse(node'), <<>>, sep', NoPage, lo2, top2, top2, lev2)
    BY DEF Waits
  <2> QED
    BY <2>1, <2>2, <1>1, <1>8, <1>12 DEF WellFormed
<1>14. rows' = Content(node')
  <2>1. PICK X \in SUBSET Pages : X = {r}
    BY <1>7
  <2>2. \A q \in Pages : q \notin X => node'[q] = node[q]
    BY <2>1, <1>10
  <2>3. \A q \in X : node[q].kind # "leaf" /\ node'[q].kind # "leaf"
    BY <2>1, <1>7, <1>9, <1>10 DEF InUse
  <2>4. Content(node') = Content(node)
    BY <2>2, <2>3, ContentKept
  <2> QED
    BY <2>4, <1>1, <1>2
<1>15. Fan(node', stack', extra')
  <2>1. \A q \in InUse(node') : node'[q].kind = "internal" => Len(node'[q].entries) # 0
    <3> TAKE q \in InUse(node')
    <3>0. Len(<<sep>>) # 0
      OBVIOUS
    <3>1. CASE q = r
      BY <3>0, <3>1, <1>9, <1>10
    <3>2. CASE q # r
      <4>1. q \in InUse(node) /\ q \in Pages
        BY <3>2, <1>12 DEF InUse
      <4> QED
        BY <3>2, <4>1, <1>2, <1>10
    <3> QED
      BY <3>1, <3>2
  <2> QED
    BY <2>1 DEF Fan
<1>16. Vars' /\ root' # NoPage
  BY <1>1, <1>2, <1>7, <1>8, <1>10, NoElements, SizeAssumption DEF Vars
<1> QED
  BY <1>13, <1>14, <1>15, <1>16, InvAfter

\* An entry of a leaf's share is in no other leaf.
LEMMA OnlyThere ==
    ASSUME NEW nd, NEW lo, NEW top, NEW reach, NEW lev, Core(nd, lo, top, reach, lev),
           NEW p \in InUse(nd), NEW q \in InUse(nd), nd[p].kind = "leaf", nd[q].kind = "leaf",
           NEW e \in Nat, lo[p] <= e, e < top[p], e \in Held(nd[q])
    PROVE  q = p
<1>1. LeafOK(nd[q], lo[q], top[q]) /\ lev[p] = 0 /\ lev[q] = 0
  BY PageFacts
<1>2. lo[q] <= e /\ e < top[q]
  BY <1>1 DEF LeafOK, Held
<1> QED
  BY <1>1, <1>2, SamePage

\* The entries when one leaf changes.
LEMMA OneLeaf ==
    ASSUME NEW nd, NEW nd2, NEW p \in Pages, nd[p].kind = "leaf", nd2[p].kind = "leaf",
           \A q \in Pages : q # p => nd2[q] = nd[q]
    PROVE  \E R : Content(nd) = Held(nd[p]) \cup R /\ Content(nd2) = Held(nd2[p]) \cup R
                  /\ R = LeafHeld(nd, Pages \ {p})
<1>1. PICK X \in SUBSET Pages : X = {p}
  OBVIOUS
<1>2. SameBut(nd, nd2, X)
  BY <1>1 DEF SameBut
<1>3. /\ Content(nd) = LeafHeld(nd, X) \cup LeafHeld(nd, Pages \ X)
      /\ Content(nd2) = LeafHeld(nd2, X) \cup LeafHeld(nd, Pages \ X)
  BY <1>2, ContentParts
<1>4. LeafHeld(nd, X) = Held(nd[p]) /\ LeafHeld(nd2, X) = Held(nd2[p])
  BY <1>1 DEF LeafHeld
<1> QED
  BY <1>1, <1>3, <1>4

\* The leaf that has e gives it up.
LEMMA DeleteKeeps ==
    ASSUME IInv, NEW e \in Entries, Delete(e)
    PROVE  IInv'
<1>1. /\ stack = <<>> /\ root # NoPage /\ e \in rows /\ stack' = Descent(e)
      /\ rows' = rows \ {e} /\ root' = root /\ sep' = sep /\ extra' = extra
  BY DEF Delete, IInv
<1>2. Vars /\ rows = Content(node) /\ Fan(node, stack, extra) /\ extra = NoPage
  BY <1>1, AtRest
<1>3. PICK lo \in [Pages -> Nat], top \in [Pages -> Nat], lev \in [Pages -> Nat] :
        Core(node, lo, top, top, lev) /\ Rules(node, root, lo, top, lev)
  BY <1>1, AtRest
<1>4. e \in Nat /\ e < Top /\ NoPage \notin Pages
  BY EntryBounds, SizeAssumption
<1>5. PICK p : p = FindLeaf(e)
  OBVIOUS
<1>6. /\ Path(node, root, Descent(e), lev) /\ Len(Descent(e)) \in 1..MaxPage
      /\ p = Descent(e)[Len(Descent(e))] /\ p \in InUse(node) /\ node[p].kind = "leaf"
      /\ lo[p] <= e /\ e < top[p]
  BY <1>3, <1>4, <1>5, DescentOf
<1>7. PICK n \in Nodes, a \in Nat, b \in Nat : n = node[p] /\ a = lo[p] /\ b = top[p]
  BY <1>3, <1>6, PageFacts
<1>8. LeafOK(n, a, b) /\ lev[p] = 0 /\ p \in Pages /\ n.kind = "leaf"
  BY <1>3, <1>6, <1>7, PageFacts
<1>9. \A q \in InUse(node) : node[q].kind = "leaf" /\ e \in Held(node[q]) => q = p
  BY <1>3, <1>4, <1>6, OnlyThere
<1>10. e \in Held(n)
  <2>1. PICK q \in Pages : node[q].kind = "leaf" /\ e \in Held(node[q])
    BY <1>1, <1>2 DEF Content, LeafHeld
  <2>2. q \in InUse(node)
    BY <2>1 DEF InUse
  <2> QED
    BY <2>1, <2>2, <1>7, <1>9
<1>11. PICK k : k = CHOOSE i \in 1..Len(n.entries) : n.entries[i] = e
  OBVIOUS
<1>12. k \in 1..Len(n.entries) /\ n.entries[k] = e /\ Contains(n.entries, e)
  <2>1. PICK i \in 1..Len(n.entries) : n.entries[i] = e
    BY <1>10 DEF Held
  <2>2. k \in 1..Len(n.entries) /\ n.entries[k] = e
    BY <2>1, <1>11
  <2> QED
    BY <2>2 DEF Contains
<1>13. PICK g : g = [node[p] EXCEPT !.entries = RemoveAt(n.entries, k)]
  OBVIOUS
<1>14. /\ g \in Nodes /\ g.kind = "leaf" /\ g.children = n.children /\ g.next = n.next
       /\ g.entries = RemoveAt(n.entries, k)
  <2>1. RemoveAt(n.entries, k) \in Seq(Entries)
    <3>1. PICK s \in Seq(Entries) : s = n.entries
      BY NodeFacts
    <3>2. k \in 1..Len(s)
      BY <3>1, <1>12
    <3>3. RemoveAt(s, k) \in Seq(Entries)
      BY <3>2, RemovedAt
    <3> QED
      BY <3>1, <3>3
  <2> QED
    BY <2>1, <1>7, <1>8, <1>13 DEF Nodes
<1>15. LeafOK(g, a, b) /\ Held(g) = Held(n) \ {e} /\ g.children = <<>>
  <2>1. g.children = <<>>
    BY <1>8, <1>14 DEF LeafOK
  <2>2. LeafOK(g, a, b) /\ Held(g) = Held(n) \ {n.entries[k]}
    BY <1>8, <1>12, <1>14, <2>1, LeafWithout
  <2> QED
    BY <2>1, <2>2, <1>12
<1>16. node' = [node EXCEPT ![p] = g]
  <2>1. node' = [node EXCEPT ![p].entries = RemoveAt(n.entries, k)]
    BY <1>5, <1>7, <1>8, <1>11, <1>12, <1>2 DEF Delete, Vars
  <2> QED
    BY <2>1, <1>13
<1>17. node' \in [Pages -> Nodes] /\ node'[p] = g /\ \A q \in Pages : q # p => node'[q] = node[q]
  BY <1>16, <1>2, <1>8, <1>14 DEF Vars
<1>18. NodeOK(node'[p], lo[p], top[p], lev[p], InUse(node), lo, top, lev)
  BY <1>17, <1>7, <1>8, <1>15, NoElements DEF NodeOK, ChildrenOK
<1>19. InUse(node') = InUse(node) /\ Core(node', lo, top, top, lev)
  <3>1. node'[p].kind = node[p].kind /\ node'[p].next = node[p].next
    BY <1>17, <1>7, <1>8, <1>14
  <3>2. Unmoved(node, p, top, top)
    BY DEF Unmoved
  <3>3. top \in [Pages -> Nat]
    OBVIOUS
  <3> QED
    BY <1>17, <1>18, <3>1, <3>2, <3>3, <1>3, <1>6, Replace
<1>20. Rules(node', root, lo, top, lev)
  BY <1>19, <1>3 DEF Rules
<1>21. Path(node', root, Descent(e), lev)
  <2>1. \A q \in InUse(node) : q \in InUse(node') /\ lev[q] = lev[q]
                               /\ node'[q].children = node[q].children
    BY <1>7, <1>14, <1>17, <1>19 DEF InUse
  <2> QED
    BY <2>1, <1>6, PathSame
<1>22. WellFormed(node', root', stack', sep', extra', lo, top, top, lev)
  <2>1. Waits(InUse(node'), stack', sep', NoPage, lo, top, top, lev)
    BY DEF Waits
  <2> QED
    BY <2>1, <1>1, <1>2, <1>19, <1>20, <1>21 DEF WellFormed
<1>23. rows' = Content(node')
  <2>1. PICK R : /\ Content(node) = Held(node[p]) \cup R /\ Content(node') = Held(node'[p]) \cup R
                 /\ R = LeafHeld(node, Pages \ {p})
    <3>1. p \in Pages /\ node[p].kind = "leaf" /\ node'[p].kind = "leaf"
      BY <1>6, <1>8, <1>14, <1>17
    <3> QED
      BY <3>1, <1>17, OneLeaf
  <2>2. e \notin R
    <3>1. ASSUME e \in R
          PROVE  FALSE
      <4>1. PICK q \in Pages \ {p} : node[q].kind = "leaf" /\ e \in Held(node[q])
        BY <2>1, <3>1 DEF LeafHeld
      <4>2. q \in InUse(node)
        BY <4>1 DEF InUse
      <4> QED
        BY <4>1, <4>2, <1>9
    <3> QED
      BY <3>1
  <2>3. Content(node) \ {e} = (Held(node[p]) \ {e}) \cup R
    BY <2>1, <2>2
  <2> QED
    BY <2>1, <2>3, <1>1, <1>2, <1>7, <1>15, <1>17
<1>24. Fan(node', stack', extra')
  <2>1. \A q \in InUse(node) : node[q].kind = "internal" => Len(node[q].entries) # 0
    <3>1. Len(stack) = 0
      BY <1>1, NoElements
    <3> QED
      BY <3>1, <1>2 DEF Fan
  <2>2. \A q \in InUse(node') : node'[q].kind = "internal" => node'[q] = node[q]
    BY <1>14, <1>17 DEF InUse
  <2> QED
    BY <2>1, <2>2, <1>19 DEF Fan
<1>25. Vars' /\ root' # NoPage
  <2>1. Descent(e) \in Seq(Pages)
    BY <1>6 DEF Path
  <2> QED
    BY <2>1, <1>1, <1>2, <1>17 DEF Vars
<1> QED
  BY <1>22, <1>23, <1>24, <1>25, InvAfter

LEMMA After ==
    ASSUME NEW S, NEW u \in Seq(S), NEW v \in Seq(S)
    PROVE  u \o v \in Seq(S) /\ AsOne(u \o v, u, v)
<1>1. Len(u) \in Nat /\ Len(v) \in Nat
  BY RangeOf
<1>2. u \o v \in Seq(S) /\ Len(u \o v) = Len(u) + Len(v)
  OBVIOUS
<1>3. \A i \in 1..Len(u) + Len(v) : (u \o v)[i] = IF i <= Len(u) THEN u[i] ELSE v[i - Len(u)]
  BY <1>1
<1> QED
  BY <1>2, <1>3 DEF AsOne

LEMMA Enclosed ==
    ASSUME NEW S, NEW u \in Seq(S), NEW e \in S, NEW v \in Seq(S)
    PROVE  u \o <<e>> \o v \in Seq(S) /\ Around(u \o <<e>> \o v, u, e, v)
<1>1. PICK t : t = u \o <<e>> \o v
  OBVIOUS
<1>2. t \in Seq(S) /\ Len(t) = Len(u) + Len(v) + 1
      /\ \A i \in 1..Len(u) + Len(v) + 1 :
           t[i] = IF i <= Len(u) THEN u[i] ELSE IF i = Len(u) + 1 THEN e ELSE v[i - (Len(u) + 1)]
  BY <1>1, Joining
<1>3. Around(t, u, e, v)
  BY <1>2 DEF Around
<1> QED
  BY <1>1, <1>2, <1>3

\* The two neighbours, in the work on p.
Pair(lo, top, lev, p, l, left, right, a, b) ==
    /\ node \in [Pages -> Nodes] /\ Core(node, lo, top, top, lev)
    /\ p \in InUse(node) /\ node[p].kind = "internal" /\ l \in 1..Len(node[p].entries)
    /\ left = node[p].children[l] /\ right = node[p].children[l + 1]
    /\ a = node[left] /\ b = node[right]

LEMMA PairFacts ==
    ASSUME NEW lo, NEW top, NEW lev, NEW p, NEW l, NEW left, NEW right, NEW a, NEW b,
           Pair(lo, top, lev, p, l, left, right, a, b)
    PROVE  /\ left \in InUse(node) /\ right \in InUse(node) /\ left # right /\ p # left /\ p # right
           /\ left \in Pages /\ right \in Pages /\ p \in Pages
           /\ a \in Nodes /\ b \in Nodes /\ a.kind = b.kind /\ a.kind \in {"leaf", "internal"}
           /\ lo[left] \in Nat /\ top[left] \in Nat /\ top[right] \in Nat
           /\ node[p].entries[l] = top[left] /\ lo[right] = top[left] /\ top[left] \in Entries
           /\ lo[left] < top[left] /\ top[left] < top[right]
           /\ lev[left] = lev[right] /\ lev[left] + 1 = lev[p] /\ lev[left] \in Nat
           /\ a.kind = "leaf" => /\ LeafOK(a, lo[left], top[left]) /\ LeafOK(b, top[left], top[right])
                                 /\ lev[left] = 0
           /\ a.kind = "internal" =>
                /\ InnerOK(a, lo[left], top[left]) /\ InnerOK(b, top[left], top[right])
                /\ ChildrenOK(a, lo[left], top[left], lev[left], InUse(node), lo, top, lev)
                /\ ChildrenOK(b, top[left], top[right], lev[left], InUse(node), lo, top, lev)
<1>1. /\ node \in [Pages -> Nodes] /\ Core(node, lo, top, top, lev)
      /\ p \in InUse(node) /\ node[p].kind = "internal" /\ l \in 1..Len(node[p].entries)
      /\ left = node[p].children[l] /\ right = node[p].children[l + 1]
      /\ a = node[left] /\ b = node[right]
  BY DEF Pair
<1>2. Neighbours(node, lo, top, lev, p, l, left, right)
  BY <1>1, NeighboursOf
<1>3. /\ left \in InUse(node) /\ right \in InUse(node) /\ left # right /\ p # left /\ p # right
      /\ lev[left] = lev[right] /\ lev[left] + 1 = lev[p]
      /\ top[left] = node[p].entries[l] /\ lo[right] = node[p].entries[l] /\ a.kind = b.kind
  BY <1>1, <1>2 DEF Neighbours
<1>4. left \in Pages /\ right \in Pages /\ p \in Pages
  BY <1>1, <1>3 DEF InUse
<1>5. node[p].entries[l] \in Entries
  BY <1>1, <1>4, NodeFacts
<1>6. /\ a \in Nodes /\ b \in Nodes /\ lo[left] \in Nat /\ top[left] \in Nat /\ lev[left] \in Nat
      /\ lo[left] < top[left] /\ a.kind \in {"leaf", "internal"}
      /\ a.kind = "leaf" => LeafOK(a, lo[left], top[left]) /\ lev[left] = 0
      /\ a.kind = "internal" => InnerOK(a, lo[left], top[left])
      /\ ChildrenOK(a, lo[left], top[left], lev[left], InUse(node), lo, top, lev)
  BY <1>1, <1>3, <1>4, PageFacts, SMTT(30)
<1>7. /\ top[right] \in Nat /\ lo[right] < top[right]
      /\ b.kind = "leaf" => LeafOK(b, lo[right], top[right])
      /\ b.kind = "internal" => InnerOK(b, lo[right], top[right])
      /\ ChildrenOK(b, lo[right], top[right], lev[right], InUse(node), lo, top, lev)
  BY <1>1, <1>3, <1>4, PageFacts
<1> QED
  BY <1>3, <1>4, <1>5, <1>6, <1>7

\* What both become as one node.
Merged(g, lo, top, lev, left, right, a, b) ==
    /\ g \in Nodes /\ g.kind = a.kind
    /\ a.kind = "leaf" =>
         /\ g.next = b.next /\ g.children = <<>> /\ AsOne(g.entries, a.entries, b.entries)
         /\ LeafOK(g, lo[left], top[right]) /\ Held(g) = Held(a) \cup Held(b)
    /\ a.kind = "internal" =>
         /\ g.next = NoPage /\ Around(g.entries, a.entries, top[left], b.entries)
         /\ AsOne(g.children, a.children, b.children) /\ InnerOK(g, lo[left], top[right])
         /\ ChildrenOK(g, lo[left], top[right], lev[left], InUse(node), lo, top, lev)

LEMMA JoinedIs ==
    ASSUME NEW lo, NEW top, NEW lev, NEW p, NEW l, NEW left, NEW right, NEW a, NEW b,
           Pair(lo, top, lev, p, l, left, right, a, b)
    PROVE  Merged(Joined(p, l), lo, top, lev, left, right, a, b)
<1>1. /\ a \in Nodes /\ b \in Nodes /\ a.kind = b.kind /\ a.kind \in {"leaf", "internal"}
      /\ lo[left] \in Nat /\ top[left] \in Nat /\ top[right] \in Nat
      /\ node[p].entries[l] = top[left] /\ top[left] \in Entries
      /\ lo[left] < top[left] /\ top[left] < top[right]
      /\ a.kind = "leaf" => LeafOK(a, lo[left], top[left]) /\ LeafOK(b, top[left], top[right])
      /\ a.kind = "internal" =>
                /\ InnerOK(a, lo[left], top[left]) /\ InnerOK(b, top[left], top[right])
                /\ ChildrenOK(a, lo[left], top[left], lev[left], InUse(node), lo, top, lev)
                /\ ChildrenOK(b, top[left], top[right], lev[left], InUse(node), lo, top, lev)
  BY PairFacts
<1>2. left = node[p].children[l] /\ right = node[p].children[l + 1] /\ a = node[left] /\ b = node[right]
  BY DEF Pair
<1>3. PICK g : g = Joined(p, l)
  OBVIOUS
<1>4. PICK x \in Nat, s \in Nat, y \in Nat : x = lo[left] /\ s = top[left] /\ y = top[right]
  BY <1>1
<1>5. a.entries \in Seq(Entries) /\ b.entries \in Seq(Entries)
      /\ a.children \in Seq(Pages) /\ b.children \in Seq(Pages) /\ b.next \in Pages \cup {NoPage}
  BY <1>1, NodeFacts
<1>6. CASE a.kind = "leaf"
  <2>1. g = Leaf(a.entries \o b.entries, b.next)
    BY <1>2, <1>3, <1>6 DEF Joined
  <2>2. PICK t \in Seq(Entries) : t = a.entries \o b.entries /\ AsOne(t, a.entries, b.entries)
    BY <1>5, After
  <2>3. /\ Leaf(t, b.next) \in Nodes /\ Leaf(t, b.next).kind = "leaf"
        /\ Leaf(t, b.next).entries = t /\ Leaf(t, b.next).children = <<>>
        /\ Leaf(t, b.next).next = b.next
    BY <1>5, LeafIn
  <2>4. g \in Nodes /\ g.kind = "leaf" /\ g.entries = t /\ g.children = <<>> /\ g.next = b.next
    BY <2>1, <2>2, <2>3
  <2>5. AsOne(g.entries, a.entries, b.entries)
    BY <2>2, <2>4
  <2>6. x < s /\ s < y /\ LeafOK(a, x, s) /\ LeafOK(b, s, y)
    BY <1>1, <1>4, <1>6
  <2>7. LeafOK(g, x, y) /\ Held(g) = Held(a) \cup Held(b)
    BY <2>4, <2>5, <2>6, <1>1, LeafJoin
  <2> QED
    BY <2>4, <2>5, <2>7, <1>3, <1>4, <1>6 DEF Merged
<1>7. CASE a.kind = "internal"
  <2>0. s \in Entries
    BY <1>1, <1>4
  <2>1. g = Internal(a.entries \o <<s>> \o b.entries, a.children \o b.children)
    BY <1>1, <1>2, <1>3, <1>4, <1>7 DEF Joined
  <2>2. PICK t \in Seq(Entries) : t = a.entries \o <<s>> \o b.entries /\ Around(t, a.entries, s, b.entries)
    BY <2>0, <1>5, Enclosed
  <2>3. PICK v \in Seq(Pages) : v = a.children \o b.children /\ AsOne(v, a.children, b.children)
    BY <1>5, After
  <2>4. /\ Internal(t, v) \in Nodes /\ Internal(t, v).kind = "internal"
        /\ Internal(t, v).entries = t /\ Internal(t, v).children = v
        /\ Internal(t, v).next = NoPage
    BY InternalIn
  <2>5. g \in Nodes /\ g.kind = "internal" /\ g.entries = t /\ g.children = v /\ g.next = NoPage
    BY <2>1, <2>2, <2>3, <2>4
  <2>6. Around(g.entries, a.entries, s, b.entries) /\ AsOne(g.children, a.children, b.children)
    BY <2>2, <2>3, <2>5
  <2>7. PICK k, U : k = lev[left] /\ U = InUse(node)
    OBVIOUS
  <2>8. /\ x < s /\ s < y /\ InnerOK(a, x, s) /\ InnerOK(b, s, y)
        /\ ChildrenOK(a, x, s, k, U, lo, top, lev) /\ ChildrenOK(b, s, y, k, U, lo, top, lev)
    BY <2>7, <1>1, <1>4, <1>7
  <2>9. InnerOK(g, x, y) /\ ChildrenOK(g, x, y, k, U, lo, top, lev)
    BY <2>5, <2>6, <2>8, <1>1, InnerJoin
  <2> QED
    BY <2>5, <2>6, <2>7, <2>9, <1>3, <1>4, <1>7 DEF Merged
<1> QED
  BY <1>1, <1>6, <1>7

\* The work on the children of p: what is in it is kept, and what is above p.
Evened(lo, top, lev, p, nd2) ==
    /\ nd2 \in [Pages -> Nodes] /\ Content(nd2) = Content(node)
    /\ InUse(nd2) \subseteq InUse(node)
    /\ \A q \in InUse(node) : lev[q] >= lev[p] => q \in InUse(nd2)
    /\ \A q \in InUse(node) : lev[q] > lev[p] => nd2[q].children = node[q].children
    /\ \A q \in InUse(nd2) : nd2[q].kind = "internal" /\ Len(nd2[q].entries) = 0 => q = p
    /\ \E lo2, top2 \in [Pages -> Nat] :
         /\ Core(nd2, lo2, top2, top2, lev)
         /\ \A q \in InUse(node) : lev[q] >= lev[p] => lo2[q] = lo[q] /\ top2[q] = top[q]

LEMMA PairContent ==
    ASSUME NEW lo, NEW top, NEW lev, NEW p, NEW l, NEW left, NEW right, NEW a, NEW b,
           Pair(lo, top, lev, p, l, left, right, a, b),
           NEW nd2, \A r \in Pages : r # p /\ r # left /\ r # right => nd2[r] = node[r],
           nd2[p].kind = "internal",
           a.kind = "internal" => nd2[left].kind # "leaf" /\ nd2[right].kind # "leaf",
           a.kind = "leaf" =>
             /\ nd2[left].kind = "leaf"
             /\ \/ /\ nd2[right].kind = "leaf"
                   /\ Held(nd2[left]) \cup Held(nd2[right]) = Held(a) \cup Held(b)
                \/ nd2[right].kind # "leaf" /\ Held(nd2[left]) = Held(a) \cup Held(b)
    PROVE  Content(nd2) = Content(node)
<1>1. /\ left \in Pages /\ right \in Pages /\ p \in Pages /\ a.kind = b.kind
      /\ a.kind \in {"leaf", "internal"} /\ p # left /\ p # right /\ left # right
  BY PairFacts
<1>2. a = node[left] /\ b = node[right] /\ node[p].kind = "internal"
  BY DEF Pair
<1>3. PICK X \in SUBSET Pages : X = {p, left, right}
  BY <1>1
<1>4. \A r \in Pages : r \notin X => nd2[r] = node[r]
  BY <1>3
<1>5. CASE a.kind = "internal"
  <2>1. \A r \in X : node[r].kind # "leaf" /\ nd2[r].kind # "leaf"
    BY <1>1, <1>2, <1>3, <1>5
  <2> QED
    BY <2>1, <1>4, ContentKept
<1>6. CASE a.kind = "leaf"
  <2>1. /\ Content(node) = LeafHeld(node, X) \cup LeafHeld(node, Pages \ X)
        /\ Content(nd2) = LeafHeld(nd2, X) \cup LeafHeld(node, Pages \ X)
    <3>1. SameBut(node, nd2, X)
      BY <1>4 DEF SameBut
    <3> QED
      BY <3>1, ContentParts
  <2>2. LeafHeld(node, X) = Held(a) \cup Held(b)
    BY <1>1, <1>2, <1>3, <1>6 DEF LeafHeld
  <2>3. LeafHeld(nd2, X) = Held(a) \cup Held(b)
    <3>1. CASE nd2[right].kind = "leaf"
      <4>1. {q \in X : nd2[q].kind = "leaf"} = {left, right}
        BY <3>1, <1>1, <1>3, <1>6
      <4>2. LeafHeld(nd2, X) = Held(nd2[left]) \cup Held(nd2[right])
        BY <4>1 DEF LeafHeld
      <4> QED
        BY <4>2, <3>1, <1>6
    <3>2. CASE nd2[right].kind # "leaf"
      <4>1. {q \in X : nd2[q].kind = "leaf"} = {left}
        BY <3>2, <1>1, <1>3, <1>6
      <4>2. LeafHeld(nd2, X) = Held(nd2[left])
        BY <4>1 DEF LeafHeld
      <4> QED
        BY <4>2, <3>2, <1>6
    <3> QED
      BY <3>1, <3>2
  <2> QED
    BY <2>1, <2>2, <2>3
<1> QED
  BY <1>1, <1>5, <1>6

\* Nodes without entries: at most the two neighbours.
Lean(left, right) ==
    \A q \in InUse(node) : node[q].kind = "internal" /\ Len(node[q].entries) = 0 =>
        q = left \/ q = right

\* The left neighbour is g, the right one free, and p has one entry less.
Unites(nd2, left, right, p, l, g, n3) ==
    /\ nd2 \in [Pages -> Nodes] /\ nd2[left] = g /\ nd2[right] = FreePage /\ nd2[p] = n3
    /\ \A r \in Pages : r # p /\ r # left /\ r # right => nd2[r] = node[r]
    /\ n3 \in Nodes /\ n3.kind = "internal" /\ n3.next = NoPage
    /\ n3.entries = RemoveAt(node[p].entries, l) /\ n3.children = RemoveAt(node[p].children, l + 1)
    /\ Len(n3.entries) = Len(node[p].entries) - 1 /\ Len(n3.children) = Len(node[p].children) - 1

LEMMA MergeIs ==
    ASSUME NEW lo, NEW top, NEW lev, NEW p, NEW l, NEW left, NEW right, NEW a, NEW b,
           Pair(lo, top, lev, p, l, left, right, a, b)
    PROVE  \E n3 : Unites(Merge(p, l), left, right, p, l, Joined(p, l), n3)
<1>1. /\ left # right /\ p # left /\ p # right
      /\ left \in Pages /\ right \in Pages /\ p \in Pages
  BY PairFacts
<1>2. /\ left = node[p].children[l] /\ right = node[p].children[l + 1] /\ a = node[left] /\ b = node[right]
      /\ node \in [Pages -> Nodes] /\ Core(node, lo, top, top, lev)
      /\ p \in InUse(node) /\ node[p].kind = "internal" /\ l \in 1..Len(node[p].entries)
  BY DEF Pair
<1>3. PICK g : g = Joined(p, l)
  OBVIOUS
<1>4. Merged(g, lo, top, lev, left, right, a, b)
  BY <1>3, JoinedIs
<1>5. PICK n3 : n3 = Without(node[p], l)
  OBVIOUS
<1>6. /\ n3 \in Nodes /\ n3.kind = "internal" /\ n3.next = NoPage
      /\ n3.entries = RemoveAt(node[p].entries, l) /\ n3.children = RemoveAt(node[p].children, l + 1)
      /\ Len(n3.entries) = Len(node[p].entries) - 1 /\ Len(n3.children) = Len(node[p].children) - 1
  <2>1. PICK s \in Seq(Entries), t \in Seq(Pages), h \in Nat :
          s = node[p].entries /\ t = node[p].children /\ h = l + 1
    BY <1>1, <1>2, NodeFacts
  <2>2. InnerOK(node[p], lo[p], top[p])
    BY <1>2, PageFacts
  <2>3. Len(t) = Len(s) + 1 /\ Len(s) \in Nat
    BY <2>1, <2>2, RangeOf DEF InnerOK
  <2>4. l \in 1..Len(s) /\ h \in 1..Len(t)
    BY <2>1, <2>3, <1>2
  <2>5. /\ RemoveAt(s, l) \in Seq(Entries) /\ RemoveAt(t, h) \in Seq(Pages)
        /\ Len(RemoveAt(s, l)) = Len(s) - 1 /\ Len(RemoveAt(t, h)) = Len(t) - 1
    BY <2>4, RemovedAt
  <2>6. PICK u \in Seq(Entries), v \in Seq(Pages) :
          /\ u = RemoveAt(s, l) /\ v = RemoveAt(t, h)
          /\ Len(u) = Len(s) - 1 /\ Len(v) = Len(t) - 1
    BY <2>5
  <2>7. n3 = Internal(u, v)
    BY <2>1, <2>6, <1>5 DEF Without
  <2>8. /\ Internal(u, v) \in Nodes /\ Internal(u, v).kind = "internal"
        /\ Internal(u, v).entries = u /\ Internal(u, v).children = v
        /\ Internal(u, v).next = NoPage
    BY InternalIn
  <2> QED
    BY <2>1, <2>6, <2>7, <2>8
<1>7. PICK nd2 : nd2 = Merge(p, l)
  OBVIOUS
<1>8. nd2 = [node EXCEPT ![left] = g, ![right] = FreePage, ![p] = n3]
  <2>1. nd2 = [node EXCEPT ![left] = g, ![right] = FreePage, ![p] = Without(@, l)]
    BY <1>2, <1>3, <1>7 DEF Merge
  <2> QED
    BY <2>1, <1>1, <1>2, <1>5
<1>9. /\ nd2 \in [Pages -> Nodes] /\ nd2[left] = g /\ nd2[right] = FreePage /\ nd2[p] = n3
      /\ \A r \in Pages : r # p /\ r # left /\ r # right => nd2[r] = node[r]
  <2>1. g \in Nodes
    BY <1>4 DEF Merged
  <2> QED
    BY <2>1, <1>1, <1>2, <1>6, <1>8, FreeIn
<1> QED
  BY <1>3, <1>6, <1>7, <1>9 DEF Unites

\* A merge.
LEMMA MergeEvens ==
    ASSUME NEW lo, NEW top, NEW lev, NEW p, NEW l, NEW left, NEW right, NEW a, NEW b,
           Pair(lo, top, lev, p, l, left, right, a, b), Lean(left, right)
    PROVE  Evened(lo, top, lev, p, Merge(p, l))
<1>1. /\ left \in InUse(node) /\ right \in InUse(node) /\ left # right /\ p # left /\ p # right
      /\ left \in Pages /\ right \in Pages /\ p \in Pages
      /\ a \in Nodes /\ b \in Nodes /\ a.kind = b.kind /\ a.kind \in {"leaf", "internal"}
      /\ lev[left] = lev[right] /\ lev[left] + 1 = lev[p] /\ lev[left] \in Nat
      /\ a.kind = "leaf" => lev[left] = 0
  BY PairFacts
<1>2. /\ left = node[p].children[l] /\ right = node[p].children[l + 1] /\ a = node[left] /\ b = node[right]
      /\ node \in [Pages -> Nodes] /\ Core(node, lo, top, top, lev)
      /\ p \in InUse(node) /\ node[p].kind = "internal" /\ l \in 1..Len(node[p].entries)
  BY DEF Pair
<1>3. PICK g, nd2 : g = Joined(p, l) /\ nd2 = Merge(p, l)
  OBVIOUS
<1>4. Merged(g, lo, top, lev, left, right, a, b)
  BY <1>3, JoinedIs
<1>5. PICK n3 : Unites(nd2, left, right, p, l, g, n3)
  BY <1>3, MergeIs
<1>6. /\ n3 \in Nodes /\ n3.kind = "internal" /\ n3.next = NoPage
      /\ n3.entries = RemoveAt(node[p].entries, l) /\ n3.children = RemoveAt(node[p].children, l + 1)
  BY <1>5 DEF Unites
<1>9. /\ nd2 \in [Pages -> Nodes] /\ nd2[left] = g /\ nd2[right] = FreePage /\ nd2[p] = n3
      /\ \A r \in Pages : r # p /\ r # left /\ r # right => nd2[r] = node[r]
  BY <1>5 DEF Unites
<1>10. /\ InUse(nd2) = InUse(node) \ {right}
       /\ Core(nd2, lo, Put(top, left, top[right]), Put(top, left, top[right]), lev)
  <2>1. g \in Nodes /\ g.kind = a.kind /\ (a.kind = "leaf" => g.next = b.next)
    BY <1>4 DEF Merged
  <2>2. NodeOK(g, lo[left], top[right], lev[left], InUse(node), lo, top, lev)
    <3>1. CASE a.kind = "leaf"
      BY <3>1, <1>1, <1>4, NoElements DEF Merged, NodeOK, ChildrenOK
    <3>2. CASE a.kind = "internal"
      BY <3>2, <1>4 DEF Merged, NodeOK
    <3> QED
      BY <3>1, <3>2, <1>1
  <2>3. UniteOf(node, lo, top, lev, p, l, left, right, g, n3, nd2)
    BY <2>1, <2>2, <1>2, <1>6, <1>9 DEF UniteOf
  <2> QED
    BY <2>3, United
<1>11. Content(nd2) = Content(node)
  <2>1. nd2[p].kind = "internal" /\ nd2[right].kind # "leaf" /\ nd2[left].kind = a.kind
    BY <1>4, <1>6, <1>9, FreeIn DEF Merged
  <2>2. a.kind = "leaf" => Held(nd2[left]) = Held(a) \cup Held(b)
    BY <1>4, <1>9 DEF Merged
  <2> QED
    BY <2>1, <2>2, <1>9, PairContent
<1>12. \A q \in InUse(nd2) : nd2[q].kind = "internal" /\ Len(nd2[q].entries) = 0 => q = p
  <2> SUFFICES ASSUME NEW q \in InUse(nd2), nd2[q].kind = "internal", Len(nd2[q].entries) = 0, q # p
               PROVE  FALSE
    OBVIOUS
  <2>1. q # right /\ q \in InUse(node) /\ q \in Pages
    BY <1>10 DEF InUse
  <2>2. CASE q = left
    <3>1. a.kind = "internal"
      BY <2>2, <1>4, <1>9 DEF Merged
    <3>2. Len(g.entries) = Len(a.entries) + Len(b.entries) + 1
      BY <3>1, <1>4 DEF Merged, Around
    <3>3. PICK x \in Nat, y \in Nat : x = Len(a.entries) /\ y = Len(b.entries)
      BY <1>1, NodeFacts
    <3>4. Len(g.entries) # 0
      <4>1. Len(g.entries) = x + y + 1
        BY <3>2, <3>3
      <4>2. x + y + 1 # 0
        OBVIOUS
      <4> QED
        BY <4>1, <4>2
    <3>5. nd2[q] = g /\ Len(nd2[q].entries) = 0
      BY <2>2, <1>9
    <3> QED
      BY <3>4, <3>5
  <2>3. CASE q # left
    BY <2>1, <2>3, <1>9 DEF Lean
  <2> QED
    BY <2>2, <2>3
<1>13. PICK top2 : top2 = Put(top, left, top[right])
  OBVIOUS
<1>14. /\ lo \in [Pages -> Nat] /\ top2 \in [Pages -> Nat] /\ lev \in [Pages -> Nat]
       /\ top \in [Pages -> Nat] /\ InUse(node) \subseteq Pages
  BY <1>2, <1>10, <1>13 DEF Core, Typed, InUse
<1>15. \A q \in InUse(node) : lev[q] >= lev[p] => q # left /\ q # right
  BY <1>1
<1>16. \A q \in InUse(node) : lev[q] >= lev[p] => lo[q] = lo[q] /\ top2[q] = top[q]
  BY <1>13, <1>14, <1>15 DEF Put
<1>17. \A q \in InUse(node) : lev[q] >= lev[p] => q \in InUse(nd2)
  BY <1>10, <1>15
<1>18. \A q \in InUse(node) : lev[q] > lev[p] => nd2[q].children = node[q].children
  <2> SUFFICES ASSUME NEW q \in InUse(node), lev[q] > lev[p]
               PROVE  nd2[q].children = node[q].children
    OBVIOUS
  <2>1. q \in Pages /\ lev[q] \in Nat /\ lev[p] \in Nat
    BY <1>1, <1>14
  <2>2. q # p /\ q # left /\ q # right
    BY <2>1, <1>15
  <2> QED
    BY <2>1, <2>2, <1>9
<1>19. InUse(nd2) \subseteq InUse(node)
  BY <1>10
<1>20. Core(nd2, lo, top2, top2, lev)
  BY <1>10, <1>13
<1> QED
  BY <1>3, <1>9, <1>11, <1>12, <1>14, <1>16, <1>17, <1>18, <1>19, <1>20 DEF Evened

\* What the two neighbours are after one has lent the other an entry; s is between them.
Lent(lo, top, lev, left, right, a, b, n1, n2, s) ==
    /\ n1 \in Nodes /\ n2 \in Nodes /\ s \in Entries /\ lo[left] < s /\ s < top[right]
    /\ n1.kind = a.kind /\ n1.next = a.next /\ n2.kind = b.kind /\ n2.next = b.next
    /\ NodeOK(n1, lo[left], s, lev[left], InUse(node), lo, top, lev)
    /\ NodeOK(n2, s, top[right], lev[right], InUse(node), lo, top, lev)
    /\ a.kind = "leaf" => Held(n1) \cup Held(n2) = Held(a) \cup Held(b)
    /\ a.kind = "internal" => Len(n1.entries) # 0 /\ Len(n2.entries) # 0

Lending(nd2, left, right, n1, n2, p, l, s) ==
    nd2 = [node EXCEPT ![left] = n1, ![right] = n2, ![p].entries[l] = s]

\* The neighbours with the nodes n1 and n2, and s between them.
Lends(nd2, left, right, n1, n2, p, l, s) ==
    /\ nd2 \in [Pages -> Nodes] /\ nd2[left] = n1 /\ nd2[right] = n2
    /\ nd2[p].kind = "internal" /\ nd2[p].next = NoPage
    /\ nd2[p].entries = Put(node[p].entries, l, s) /\ Len(nd2[p].entries) = Len(node[p].entries)
    /\ nd2[p].children = node[p].children
    /\ \A r \in Pages : r # p /\ r # left /\ r # right => nd2[r] = node[r]

LEMMA LendingIs ==
    ASSUME NEW lo, NEW top, NEW lev, NEW p, NEW l, NEW left, NEW right, NEW a, NEW b,
           Pair(lo, top, lev, p, l, left, right, a, b),
           NEW n1 \in Nodes, NEW n2 \in Nodes, NEW s \in Entries,
           NEW nd2, Lending(nd2, left, right, n1, n2, p, l, s)
    PROVE  Lends(nd2, left, right, n1, n2, p, l, s)
<1>1. /\ left # right /\ p # left /\ p # right
      /\ left \in Pages /\ right \in Pages /\ p \in Pages
  BY PairFacts
<1>2. /\ node \in [Pages -> Nodes] /\ Core(node, lo, top, top, lev)
      /\ p \in InUse(node) /\ node[p].kind = "internal" /\ l \in 1..Len(node[p].entries)
  BY DEF Pair
<1>4. PICK t \in Seq(Entries) : t = node[p].entries
  BY <1>1, <1>2, NodeFacts
<1>5. Put(t, l, s) \in Seq(Entries) /\ Len(Put(t, l, s)) = Len(t)
  <2>1. l \in 1..Len(t) /\ s \in Entries
    BY <1>2, <1>4
  <2>2. [t EXCEPT ![l] = s] \in Seq(Entries) /\ Len([t EXCEPT ![l] = s]) = Len(t)
    BY <2>1
  <2> QED
    BY <2>2 DEF Put
<1>6. PICK n3 : n3 = [node[p] EXCEPT !.entries = Put(t, l, s)]
  OBVIOUS
<1>7. /\ n3 \in Nodes /\ n3.kind = "internal" /\ n3.next = NoPage
      /\ n3.entries = Put(node[p].entries, l, s) /\ n3.children = node[p].children
  <2>1. InnerOK(node[p], lo[p], top[p])
    BY <1>2, PageFacts
  <2>2. node[p] \in Nodes /\ node[p].next = NoPage
    BY <2>1, <1>1, <1>2 DEF InnerOK
  <2>3. n3 \in Nodes
    BY <2>2, <1>5, <1>6 DEF Nodes
  <2>4. n3.kind = node[p].kind /\ n3.next = node[p].next /\ n3.children = node[p].children
        /\ n3.entries = Put(t, l, s)
    BY <2>2, <1>6 DEF Nodes
  <2> QED
    BY <2>2, <2>3, <2>4, <1>2, <1>4
<1>8. nd2 = [node EXCEPT ![left] = n1, ![right] = n2, ![p] = n3]
  <2>1. n3 = [node[p] EXCEPT !.entries[l] = s]
    BY <1>1, <1>2, <1>4, <1>6 DEF Put, Nodes
  <2>2. nd2 = [node EXCEPT ![left] = n1, ![right] = n2, ![p].entries[l] = s]
    BY DEF Lending
  <2> QED
    BY <2>1, <2>2, <1>1, <1>2
<1>9. /\ nd2 \in [Pages -> Nodes] /\ nd2[left] = n1 /\ nd2[right] = n2 /\ nd2[p] = n3
      /\ \A r \in Pages : r # p /\ r # left /\ r # right => nd2[r] = node[r]
  <2>1. left \in Pages /\ right \in Pages /\ p \in Pages /\ node \in [Pages -> Nodes]
    BY <1>1, <1>2
  <2>2. left # right /\ p # left /\ p # right /\ n1 \in Nodes /\ n2 \in Nodes /\ n3 \in Nodes
    BY <1>1, <1>7
  <2> QED
    BY <2>1, <2>2, <1>8
<1>10. Len(nd2[p].entries) = Len(node[p].entries)
  BY <1>4, <1>5, <1>7, <1>9
<1> QED
  BY <1>7, <1>9, <1>10 DEF Lends

LEMMA LentEvens ==
    ASSUME NEW lo, NEW top, NEW lev, NEW p, NEW l, NEW left, NEW right, NEW a, NEW b,
           Pair(lo, top, lev, p, l, left, right, a, b), Lean(left, right),
           NEW n1, NEW n2, NEW s, Lent(lo, top, lev, left, right, a, b, n1, n2, s),
           NEW nd2, Lending(nd2, left, right, n1, n2, p, l, s)
    PROVE  Evened(lo, top, lev, p, nd2)
<1>1. /\ left \in InUse(node) /\ right \in InUse(node) /\ left # right /\ p # left /\ p # right
      /\ left \in Pages /\ right \in Pages /\ p \in Pages
      /\ a \in Nodes /\ b \in Nodes /\ a.kind = b.kind /\ a.kind \in {"leaf", "internal"}
      /\ lev[left] = lev[right] /\ lev[left] + 1 = lev[p] /\ lev[left] \in Nat
  BY PairFacts
<1>2. /\ left = node[p].children[l] /\ right = node[p].children[l + 1] /\ a = node[left] /\ b = node[right]
      /\ node \in [Pages -> Nodes] /\ Core(node, lo, top, top, lev)
      /\ p \in InUse(node) /\ node[p].kind = "internal" /\ l \in 1..Len(node[p].entries)
  BY DEF Pair
<1>3. /\ n1 \in Nodes /\ n2 \in Nodes /\ s \in Entries /\ lo[left] < s /\ s < top[right]
      /\ n1.kind = a.kind /\ n1.next = a.next /\ n2.kind = b.kind /\ n2.next = b.next
      /\ NodeOK(n1, lo[left], s, lev[left], InUse(node), lo, top, lev)
      /\ NodeOK(n2, s, top[right], lev[right], InUse(node), lo, top, lev)
      /\ a.kind = "leaf" => Held(n1) \cup Held(n2) = Held(a) \cup Held(b)
      /\ a.kind = "internal" => Len(n1.entries) # 0 /\ Len(n2.entries) # 0
  BY DEF Lent
<1>4. Lends(nd2, left, right, n1, n2, p, l, s)
  BY <1>3, LendingIs
<1>7. PICK n3 : n3 = nd2[p]
  OBVIOUS
<1>9. /\ nd2 \in [Pages -> Nodes] /\ nd2[left] = n1 /\ nd2[right] = n2 /\ nd2[p] = n3
      /\ \A r \in Pages : r # p /\ r # left /\ r # right => nd2[r] = node[r]
  BY <1>4, <1>7 DEF Lends
<1>8. /\ n3 \in Nodes /\ n3.kind = "internal" /\ n3.next = NoPage
      /\ n3.entries = Put(node[p].entries, l, s) /\ n3.children = node[p].children
  BY <1>1, <1>4, <1>7, <1>9 DEF Lends
<1>10. /\ InUse(nd2) = InUse(node)
       /\ Core(nd2, Put(lo, right, s), Put(top, left, s), Put(top, left, s), lev)
  <2>1. ShiftOf(node, lo, top, lev, p, l, left, right, n1, n2, n3, s, nd2)
    BY <1>2, <1>3, <1>8, <1>9 DEF ShiftOf
  <2> QED
    BY <2>1, Shifted
<1>11. Content(nd2) = Content(node)
  <2>1. nd2[p].kind = "internal" /\ nd2[right].kind = a.kind /\ nd2[left].kind = a.kind
    BY <1>1, <1>3, <1>8, <1>9
  <2>2. a.kind = "leaf" => Held(nd2[left]) \cup Held(nd2[right]) = Held(a) \cup Held(b)
    BY <1>3, <1>9
  <2>3. a.kind = "internal" => nd2[left].kind # "leaf" /\ nd2[right].kind # "leaf"
    BY <2>1
  <2>4. a.kind = "leaf" =>
             /\ nd2[left].kind = "leaf"
             /\ \/ /\ nd2[right].kind = "leaf"
                   /\ Held(nd2[left]) \cup Held(nd2[right]) = Held(a) \cup Held(b)
                \/ nd2[right].kind # "leaf" /\ Held(nd2[left]) = Held(a) \cup Held(b)
    BY <2>1, <2>2
  <2>5. \A r \in Pages : r # p /\ r # left /\ r # right => nd2[r] = node[r]
    BY <1>9
  <2> QED
    BY <2>1, <2>3, <2>4, <2>5, PairContent
<1>12. \A q \in InUse(nd2) : nd2[q].kind = "internal" /\ Len(nd2[q].entries) = 0 => q = p
  <2> SUFFICES ASSUME NEW q \in InUse(nd2), nd2[q].kind = "internal", Len(nd2[q].entries) = 0, q # p
               PROVE  FALSE
    OBVIOUS
  <2>1. q \in InUse(node) /\ q \in Pages
    BY <1>10 DEF InUse
  <2>2. CASE q = left \/ q = right
    BY <2>2, <1>1, <1>3, <1>9
  <2>3. CASE q # left /\ q # right
    BY <2>1, <2>3, <1>9 DEF Lean
  <2> QED
    BY <2>2, <2>3
<1>13. PICK lo2, top2 : lo2 = Put(lo, right, s) /\ top2 = Put(top, left, s)
  OBVIOUS
<1>14. /\ lo2 \in [Pages -> Nat] /\ top2 \in [Pages -> Nat] /\ lev \in [Pages -> Nat]
       /\ top \in [Pages -> Nat] /\ lo \in [Pages -> Nat] /\ InUse(node) \subseteq Pages
  BY <1>2, <1>10, <1>13 DEF Core, Typed, InUse
<1>15. \A q \in InUse(node) : lev[q] >= lev[p] => q # left /\ q # right
  BY <1>1
<1>16. \A q \in InUse(node) : lev[q] >= lev[p] => lo2[q] = lo[q] /\ top2[q] = top[q]
  BY <1>13, <1>14, <1>15 DEF Put
<1>17. \A q \in InUse(node) : lev[q] >= lev[p] => q \in InUse(nd2)
  BY <1>10
<1>18. \A q \in InUse(node) : lev[q] > lev[p] => nd2[q].children = node[q].children
  <2> SUFFICES ASSUME NEW q \in InUse(node), lev[q] > lev[p]
               PROVE  nd2[q].children = node[q].children
    OBVIOUS
  <2>1. q \in Pages /\ lev[q] \in Nat /\ lev[p] \in Nat
    BY <1>1, <1>14
  <2>2. q # p /\ q # left /\ q # right
    BY <2>1, <1>15
  <2> QED
    BY <2>1, <2>2, <1>9
<1>19. InUse(nd2) \subseteq InUse(node)
  BY <1>10
<1>20. Core(nd2, lo2, top2, top2, lev)
  BY <1>10, <1>13
<1> QED
  BY <1>9, <1>11, <1>12, <1>14, <1>16, <1>17, <1>18, <1>19, <1>20 DEF Evened

\* The first i elements and those behind the next d.
Parts(t, i, d, u, v) ==
    /\ Len(u) = i /\ \A j \in 1..i : u[j] = t[j]
    /\ Len(v) = Len(t) - (i + d) /\ \A j \in 1..Len(t) - (i + d) : v[j] = t[i + d + j]

LEMMA CutIs ==
    ASSUME NEW n, NEW i, NEW d, NEW n1, NEW n2, Parts(n.entries, i, d, n1.entries, n2.entries)
    PROVE  Cut(n, i, d, n1, n2)
  BY DEF Cut, Parts

LEMMA CutBelowIs ==
    ASSUME NEW n, NEW i \in Nat, NEW n1, NEW n2, Parts(n.children, i + 1, 0, n1.children, n2.children)
    PROVE  CutBelow(n, i, n1, n2)
<1>1. (i + 1) + 0 = i + 1
  OBVIOUS
<1> QED
  BY <1>1 DEF CutBelow, Parts

LEMMA LeafLent ==
    ASSUME NEW lo, NEW top, NEW lev, NEW p, NEW l, NEW left, NEW right, NEW a, NEW b,
           Pair(lo, top, lev, p, l, left, right, a, b), a.kind = "leaf",
           NEW g, Merged(g, lo, top, lev, left, right, a, b),
           NEW n1 \in Nodes, NEW n2 \in Nodes, n1.kind = "leaf", n2.kind = "leaf",
           n1.children = <<>>, n2.children = <<>>, n1.next = a.next, n2.next = b.next,
           NEW i \in 1..Len(g.entries) - 1, Cut(g, i, 0, n1, n2)
    PROVE  Lent(lo, top, lev, left, right, a, b, n1, n2, g.entries[i + 1])
<1>1. /\ lo[left] \in Nat /\ top[right] \in Nat /\ a.kind = b.kind
      /\ lev[left] = lev[right] /\ lev[left] = 0
  BY PairFacts
<1>2. g \in Nodes /\ LeafOK(g, lo[left], top[right]) /\ Held(g) = Held(a) \cup Held(b)
  BY DEF Merged
<1>3. PICK x \in Nat, y \in Nat : x = lo[left] /\ y = top[right]
  BY <1>1
<1>4. LeafOK(g, x, y)
  BY <1>2, <1>3
<1>5. /\ g.entries[i + 1] \in Entries /\ x < g.entries[i + 1] /\ g.entries[i + 1] < y
      /\ LeafOK(n1, x, g.entries[i + 1]) /\ LeafOK(n2, g.entries[i + 1], y)
      /\ Held(g) = Held(n1) \cup Held(n2)
  BY <1>2, <1>4, LeafCut
<1>6. Len(n1.children) = 0 /\ Len(n2.children) = 0
  BY NoElements
<1>7. /\ NodeOK(n1, lo[left], g.entries[i + 1], lev[left], InUse(node), lo, top, lev)
      /\ NodeOK(n2, g.entries[i + 1], top[right], lev[right], InUse(node), lo, top, lev)
  BY <1>1, <1>3, <1>5, <1>6 DEF NodeOK, ChildrenOK
<1> QED
  BY <1>1, <1>2, <1>3, <1>5, <1>7 DEF Lent

LEMMA InnerLent ==
    ASSUME NEW lo, NEW top, NEW lev, NEW p, NEW l, NEW left, NEW right, NEW a, NEW b,
           Pair(lo, top, lev, p, l, left, right, a, b), a.kind = "internal",
           NEW g, Merged(g, lo, top, lev, left, right, a, b),
           NEW n1 \in Nodes, NEW n2 \in Nodes, n1.kind = "internal", n2.kind = "internal",
           n1.next = NoPage, n2.next = NoPage,
           NEW i \in 1..Len(g.entries) - 2, Cut(g, i, 1, n1, n2), CutBelow(g, i, n1, n2)
    PROVE  Lent(lo, top, lev, left, right, a, b, n1, n2, g.entries[i + 1])
<1>1. /\ lo[left] \in Nat /\ top[right] \in Nat /\ a.kind = b.kind
      /\ lev[left] = lev[right] /\ InnerOK(a, lo[left], top[left]) /\ InnerOK(b, top[left], top[right])
  BY PairFacts
<1>2. /\ g \in Nodes /\ g.kind = "internal" /\ InnerOK(g, lo[left], top[right])
      /\ ChildrenOK(g, lo[left], top[right], lev[left], InUse(node), lo, top, lev)
  BY DEF Merged
<1>3. PICK x \in Nat, y \in Nat : x = lo[left] /\ y = top[right]
  BY <1>1
<1>4. PICK k, U : k = lev[left] /\ U = InUse(node)
  OBVIOUS
<1>5. InnerOK(g, x, y) /\ ChildrenOK(g, x, y, k, U, lo, top, lev)
  BY <1>2, <1>3, <1>4
<1>6. Len(g.entries) \in Nat
  BY <1>2, NodeFacts
<1>7. i \in 1..Len(g.entries) - 1
  BY <1>6
<1>8. /\ g.entries[i + 1] \in Entries /\ x < g.entries[i + 1] /\ g.entries[i + 1] < y
      /\ InnerOK(n1, x, g.entries[i + 1]) /\ InnerOK(n2, g.entries[i + 1], y)
      /\ ChildrenOK(n1, x, g.entries[i + 1], k, U, lo, top, lev)
      /\ ChildrenOK(n2, g.entries[i + 1], y, k, U, lo, top, lev)
  BY <1>2, <1>5, <1>7, InnerCut
<1>9. /\ NodeOK(n1, lo[left], g.entries[i + 1], lev[left], InUse(node), lo, top, lev)
      /\ NodeOK(n2, g.entries[i + 1], top[right], lev[right], InUse(node), lo, top, lev)
  BY <1>1, <1>3, <1>4, <1>8 DEF NodeOK
<1>10. Len(n1.entries) # 0 /\ Len(n2.entries) # 0
  <2>1. Len(n1.entries) = i /\ Len(n2.entries) = Len(g.entries) - (i + 1)
    BY DEF Cut
  <2> QED
    BY <2>1, <1>6
<1>11. a.next = NoPage /\ b.next = NoPage
  BY <1>1 DEF InnerOK
<1> QED
  BY <1>1, <1>3, <1>8, <1>9, <1>10, <1>11 DEF Lent

-----------------------------------------------------------------------------
\* The last of u before v, the first of v behind u.
LastMoved(S, t, u, v, x) ==
    /\ Front(u) \in Seq(S) /\ <<Last(u)>> \o v \in Seq(S)
    /\ Parts(t, x - 1, 0, Front(u), <<Last(u)>> \o v) /\ t[x] = Last(u) /\ Last(u) \in S

LEMMA LastOver ==
    ASSUME NEW S, NEW u \in Seq(S), NEW v \in Seq(S), NEW x \in Nat, x = Len(u), x > 0,
           NEW t, AsOne(t, u, v)
    PROVE  LastMoved(S, t, u, v, x)
<1>1. PICK y \in Nat : y = Len(v)
  BY RangeOf
<1>2. PICK f : f = Front(u)
  OBVIOUS
<1>3. f \in Seq(S) /\ Len(f) = x - 1 /\ \A j \in 1..x - 1 : f[j] = u[j]
  BY <1>2, FrontOf
<1>4. PICK e \in S : e = Last(u)
  <2>1. x \in 1..Len(u)
    OBVIOUS
  <2> QED
    BY <2>1, RangeOf DEF Last
<1>5. PICK w : w = <<e>> \o v
  OBVIOUS
<1>6. w \in Seq(S) /\ Len(w) = y + 1 /\ \A j \in 1..y + 1 : w[j] = IF j = 1 THEN e ELSE v[j - 1]
  BY <1>1, <1>5, Preceded
<1>7. Len(t) = x + y /\ \A j \in 1..x + y : t[j] = IF j <= x THEN u[j] ELSE v[j - x]
  BY <1>1 DEF AsOne
<1>8. t[x] = e
  <2>1. x \in 1..x + y /\ x <= x
    OBVIOUS
  <2>2. t[x] = u[x]
    BY <2>1, <1>7
  <2> QED
    BY <2>2, <1>4 DEF Last
<1>9. \A j \in 1..x - 1 : f[j] = t[j]
  BY <1>3, <1>7
<1>10. ASSUME NEW j \in 1..y + 1
       PROVE  w[j] = t[(x - 1) + 0 + j]
  <2>1. CASE j = 1
    BY <2>1, <1>6, <1>8
  <2>2. CASE j # 1
    <3>1. PICK k : k = (x - 1) + 0 + j
      OBVIOUS
    <3>2. k \in 1..x + y /\ ~(k <= x) /\ k - x = j - 1
      BY <2>2, <3>1
    <3>3. t[k] = v[j - 1]
      BY <3>2, <1>7
    <3> QED
      BY <2>2, <3>1, <3>3, <1>6
  <2> QED
    BY <2>1, <2>2
<1>11. Len(t) - (x - 1 + 0) = y + 1
  BY <1>7
<1>12. Parts(t, x - 1, 0, f, w)
  BY <1>3, <1>6, <1>9, <1>10, <1>11 DEF Parts
<1> QED
  BY <1>2, <1>3, <1>4, <1>5, <1>6, <1>8, <1>12 DEF LastMoved

LEMMA AppendOf ==
    ASSUME NEW S, NEW u \in Seq(S), NEW e \in S
    PROVE  /\ Append(u, e) \in Seq(S) /\ Len(Append(u, e)) = Len(u) + 1
           /\ \A i \in 1..Len(u) + 1 : Append(u, e)[i] = IF i <= Len(u) THEN u[i] ELSE e
  OBVIOUS

LEMMA TailOf ==
    ASSUME NEW S, NEW v \in Seq(S), Len(v) # 0
    PROVE  /\ Tail(v) \in Seq(S) /\ Len(Tail(v)) = Len(v) - 1 /\ Head(v) = v[1] /\ Head(v) \in S
           /\ \A i \in 1..Len(v) - 1 : Tail(v)[i] = v[i + 1]
  OBVIOUS

FirstMoved(S, t, u, v, x) ==
    /\ Append(u, Head(v)) \in Seq(S) /\ Tail(v) \in Seq(S)
    /\ Parts(t, x + 1, 0, Append(u, Head(v)), Tail(v))
    /\ \A j \in 1..Len(v) : t[x + j] = v[j]

LEMMA FirstOver ==
    ASSUME NEW S, NEW u \in Seq(S), NEW v \in Seq(S), NEW x \in Nat, x = Len(u), Len(v) # 0,
           NEW t, AsOne(t, u, v)
    PROVE  FirstMoved(S, t, u, v, x)
<1>1. PICK y \in Nat : y = Len(v)
  BY RangeOf
<1>2. PICK e \in S : e = Head(v) /\ e = v[1]
  BY TailOf
<1>3. PICK f : f = Append(u, e)
  OBVIOUS
<1>4. f \in Seq(S) /\ Len(f) = x + 1 /\ \A j \in 1..x + 1 : f[j] = IF j <= x THEN u[j] ELSE e
  BY <1>3, AppendOf
<1>5. PICK w : w = Tail(v)
  OBVIOUS
<1>6. w \in Seq(S) /\ Len(w) = y - 1 /\ \A j \in 1..y - 1 : w[j] = v[j + 1]
  BY <1>1, <1>5, TailOf
<1>7. Len(t) = x + y /\ \A j \in 1..x + y : t[j] = IF j <= x THEN u[j] ELSE v[j - x]
  BY <1>1 DEF AsOne
<1>8. ASSUME NEW j \in 1..y
      PROVE  t[x + j] = v[j]
  <2>1. x + j \in 1..x + y /\ ~(x + j <= x) /\ x + j - x = j
    OBVIOUS
  <2> QED
    BY <2>1, <1>7
<1>9. ASSUME NEW j \in 1..x + 1
      PROVE  f[j] = t[j]
  <2>1. CASE j <= x
    BY <2>1, <1>4, <1>7
  <2>2. CASE j > x
    <3>1. j = x + 1 /\ 1 \in 1..y
      BY <2>2, <1>1
    <3> QED
      BY <3>1, <1>2, <1>4, <1>8
  <2> QED
    BY <2>1, <2>2
<1>10. ASSUME NEW j \in 1..y - 1
       PROVE  w[j] = t[(x + 1) + 0 + j]
  <2>1. PICK k : k = j + 1
    OBVIOUS
  <2>2. k \in 1..y /\ (x + 1) + 0 + j = x + k
    BY <2>1
  <2>3. t[x + k] = v[k]
    BY <2>2, <1>8
  <2>4. w[j] = v[k]
    BY <2>1, <1>6
  <2>5. t[(x + 1) + 0 + j] = t[x + k]
    BY <2>2
  <2> QED
    BY <2>3, <2>4, <2>5
<1>11. Len(t) - (x + 1 + 0) = y - 1
  <2>1. (x + y) - (x + 1 + 0) = y - 1
    OBVIOUS
  <2>2. Len(t) = x + y
    BY <1>7
  <2> QED
    BY <2>1, <2>2
<1>12. Parts(t, x + 1, 0, f, w)
  BY <1>4, <1>6, <1>9, <1>10, <1>11 DEF Parts
<1> QED
  BY <1>1, <1>2, <1>3, <1>4, <1>5, <1>6, <1>8, <1>12 DEF FirstMoved

\* The same with s between u and v, which goes to the other side.
LastPast(S, t, u, s, v, x) ==
    /\ Front(u) \in Seq(S) /\ <<s>> \o v \in Seq(S)
    /\ Parts(t, x - 1, 1, Front(u), <<s>> \o v) /\ t[x] = Last(u)

LEMMA LastAcross ==
    ASSUME NEW S, NEW u \in Seq(S), NEW s \in S, NEW v \in Seq(S), NEW x \in Nat, x = Len(u), x > 0,
           NEW t, Around(t, u, s, v)
    PROVE  LastPast(S, t, u, s, v, x)
<1>1. PICK y \in Nat : y = Len(v)
  BY RangeOf
<1>2. PICK f : f = Front(u)
  OBVIOUS
<1>3. f \in Seq(S) /\ Len(f) = x - 1 /\ \A j \in 1..x - 1 : f[j] = u[j]
  BY <1>2, FrontOf
<1>5. PICK w : w = <<s>> \o v
  OBVIOUS
<1>6. w \in Seq(S) /\ Len(w) = y + 1 /\ \A j \in 1..y + 1 : w[j] = IF j = 1 THEN s ELSE v[j - 1]
  BY <1>1, <1>5, Preceded
<1>7. Len(t) = x + y + 1
      /\ \A j \in 1..x + y + 1 : t[j] = IF j <= x THEN u[j] ELSE IF j = x + 1 THEN s ELSE v[j - (x + 1)]
  BY <1>1 DEF Around
<1>8. t[x] = Last(u)
  <2>1. x \in 1..x + y + 1 /\ x <= x
    OBVIOUS
  <2>2. t[x] = u[x]
    BY <2>1, <1>7
  <2> QED
    BY <2>2 DEF Last
<1>9. ASSUME NEW j \in 1..x - 1
      PROVE  f[j] = t[j]
  <2>1. j \in 1..x + y + 1 /\ j <= x
    OBVIOUS
  <2> QED
    BY <2>1, <1>3, <1>7
<1>10. ASSUME NEW j \in 1..y + 1
       PROVE  w[j] = t[(x - 1) + 1 + j]
  <2>1. PICK k : k = (x - 1) + 1 + j
    OBVIOUS
  <2>2. k \in 1..x + y + 1 /\ ~(k <= x) /\ k - (x + 1) = j - 1
    BY <2>1
  <2>3. CASE j = 1
    <3>1. k = x + 1
      BY <2>1, <2>3
    <3>2. t[k] = s
      BY <3>1, <2>2, <1>7
    <3> QED
      BY <3>2, <2>1, <2>3, <1>6
  <2>4. CASE j # 1
    <3>1. k # x + 1
      BY <2>2, <2>4
    <3>2. t[k] = v[j - 1]
      BY <3>1, <2>2, <1>7
    <3> QED
      BY <3>2, <2>1, <2>4, <1>6
  <2> QED
    BY <2>3, <2>4
<1>11. Len(t) - (x - 1 + 1) = y + 1
  <2>1. (x + y + 1) - (x - 1 + 1) = y + 1
    OBVIOUS
  <2> QED
    BY <2>1, <1>7
<1>12. Parts(t, x - 1, 1, f, w)
  BY <1>3, <1>6, <1>9, <1>10, <1>11 DEF Parts
<1> QED
  BY <1>2, <1>3, <1>5, <1>6, <1>8, <1>12 DEF LastPast

FirstPast(S, t, u, s, v, x) ==
    /\ Append(u, s) \in Seq(S) /\ Tail(v) \in Seq(S)
    /\ Parts(t, x + 1, 1, Append(u, s), Tail(v)) /\ t[(x + 1) + 1] = Head(v)

LEMMA FirstAcross ==
    ASSUME NEW S, NEW u \in Seq(S), NEW s \in S, NEW v \in Seq(S), NEW x \in Nat, x = Len(u),
           Len(v) # 0, NEW t, Around(t, u, s, v)
    PROVE  FirstPast(S, t, u, s, v, x)
<1>1. PICK y \in Nat : y = Len(v)
  BY RangeOf
<1>2. Head(v) = v[1] /\ y >= 1
  BY <1>1, TailOf
<1>3. PICK f : f = Append(u, s)
  OBVIOUS
<1>4. f \in Seq(S) /\ Len(f) = x + 1 /\ \A j \in 1..x + 1 : f[j] = IF j <= x THEN u[j] ELSE s
  BY <1>3, AppendOf
<1>5. PICK w : w = Tail(v)
  OBVIOUS
<1>6. w \in Seq(S) /\ Len(w) = y - 1 /\ \A j \in 1..y - 1 : w[j] = v[j + 1]
  BY <1>1, <1>5, TailOf
<1>7. Len(t) = x + y + 1
      /\ \A j \in 1..x + y + 1 : t[j] = IF j <= x THEN u[j] ELSE IF j = x + 1 THEN s ELSE v[j - (x + 1)]
  BY <1>1 DEF Around
<1>8. ASSUME NEW j \in 1..y
      PROVE  t[(x + 1) + j] = v[j]
  <2>1. PICK k : k = (x + 1) + j
    OBVIOUS
  <2>2. k \in 1..x + y + 1 /\ ~(k <= x) /\ k # x + 1 /\ k - (x + 1) = j
    BY <2>1
  <2>3. t[k] = v[j]
    BY <2>2, <1>7
  <2> QED
    BY <2>1, <2>3
<1>9. ASSUME NEW j \in 1..x + 1
      PROVE  f[j] = t[j]
  <2>0. j \in 1..x + y + 1
    OBVIOUS
  <2>1. CASE j <= x
    BY <2>0, <2>1, <1>4, <1>7
  <2>2. CASE j > x
    <3>1. j = x + 1 /\ ~(j <= x)
      BY <2>2
    <3> QED
      BY <3>1, <2>0, <1>4, <1>7
  <2> QED
    BY <2>1, <2>2
<1>10. ASSUME NEW j \in 1..y - 1
       PROVE  w[j] = t[(x + 1) + 1 + j]
  <2>1. PICK k : k = j + 1
    OBVIOUS
  <2>2. k \in 1..y /\ (x + 1) + 1 + j = (x + 1) + k
    BY <2>1
  <2>3. t[(x + 1) + k] = v[k]
    BY <2>2, <1>8
  <2>4. w[j] = v[k]
    BY <2>1, <1>6
  <2>5. t[(x + 1) + 1 + j] = t[(x + 1) + k]
    BY <2>2
  <2> QED
    BY <2>3, <2>4, <2>5
<1>11. Len(t) - (x + 1 + 1) = y - 1
  <2>1. (x + y + 1) - (x + 1 + 1) = y - 1
    OBVIOUS
  <2> QED
    BY <2>1, <1>7
<1>12. Parts(t, x + 1, 1, f, w)
  BY <1>4, <1>6, <1>9, <1>10, <1>11 DEF Parts
<1>13. t[(x + 1) + 1] = v[1]
  BY <1>2, <1>8
<1> QED
  BY <1>2, <1>3, <1>4, <1>5, <1>6, <1>12, <1>13 DEF FirstPast

\* A page that lends has two entries.
LEMMA Lender ==
    ASSUME Roomy, NEW n \in Nodes, BodySize(n) > MinBody,
           (n.kind = "leaf" /\ n.children = <<>>)
             \/ (n.kind = "internal" /\ Len(n.children) = Len(n.entries) + 1)
    PROVE  Len(n.entries) \in Nat /\ Len(n.entries) >= 2
<1>1. PICK k \in Nat, c \in Nat : k = Len(n.entries) /\ c = Len(n.children)
  BY NodeFacts
<1>2. BodySize(n) = Weight(k, c)
  BY <1>1, SizeOf
<1>3. c = 0 \/ c = k + 1
  BY <1>1, NoElements
<1>4. Weight(k, c) > MinBody
  BY <1>2
<1> QED
  BY <1>1, <1>3, <1>4, WeightBounds

\* n gave m one entry and, when they are inner nodes, a child.
Gave(n, m, n2, m2) ==
    /\ Len(n2.entries) = Len(n.entries) - 1 /\ Len(m2.entries) = Len(m.entries) + 1
    /\ Len(n2.children) <= Len(n.children) /\ Len(m2.children) <= Len(m.children) + 1

\* The left neighbour lends its last entry.
LEMMA BorrowLeftIs ==
    ASSUME Roomy, NEW lo, NEW top, NEW lev, NEW p, NEW l, NEW left, NEW right, NEW a, NEW b,
           Pair(lo, top, lev, p, l, left, right, a, b), BodySize(a) > MinBody
    PROVE  \E n1, n2, s : /\ Lent(lo, top, lev, left, right, a, b, n1, n2, s)
                          /\ Lending(BorrowLeft(p, l), left, right, n1, n2, p, l, s)
                          /\ Gave(a, b, n1, n2)
<1>1. /\ left # right /\ p # left /\ p # right
      /\ left \in Pages /\ right \in Pages /\ p \in Pages
      /\ a \in Nodes /\ b \in Nodes /\ a.kind = b.kind /\ a.kind \in {"leaf", "internal"}
      /\ node[p].entries[l] = top[left] /\ top[left] \in Entries
      /\ a.kind = "leaf" => LeafOK(a, lo[left], top[left]) /\ LeafOK(b, top[left], top[right])
      /\ a.kind = "internal" => InnerOK(a, lo[left], top[left]) /\ InnerOK(b, top[left], top[right])
  BY PairFacts
<1>2. /\ left = node[p].children[l] /\ right = node[p].children[l + 1] /\ a = node[left] /\ b = node[right]
      /\ node \in [Pages -> Nodes]
  BY DEF Pair
<1>3. PICK g : g = Joined(p, l)
  OBVIOUS
<1>4. Merged(g, lo, top, lev, left, right, a, b)
  BY <1>3, JoinedIs
<1>5. PICK u, v, c, d : u = a.entries /\ v = b.entries /\ c = a.children /\ d = b.children
  OBVIOUS
<1>6. u \in Seq(Entries) /\ v \in Seq(Entries) /\ c \in Seq(Pages) /\ d \in Seq(Pages)
  BY <1>1, <1>5, NodeFacts
<1>7. PICK x \in Nat, y \in Nat : x = Len(u) /\ y = Len(v)
  BY <1>6, RangeOf
<1>8. x >= 2
  <2>1. (a.kind = "leaf" /\ a.children = <<>>)
             \/ (a.kind = "internal" /\ Len(a.children) = Len(a.entries) + 1)
    BY <1>1 DEF LeafOK, InnerOK
  <2> QED
    BY <2>1, <1>1, <1>5, <1>7, Lender
<1>9. x > 0 /\ (x - 1) + 1 = x
  BY <1>8
<1>10. CASE a.kind = "leaf"
  <2>1. AsOne(g.entries, u, v)
    BY <1>4, <1>5, <1>10 DEF Merged
  <2>2. /\ Front(u) \in Seq(Entries) /\ <<Last(u)>> \o v \in Seq(Entries)
        /\ Parts(g.entries, x - 1, 0, Front(u), <<Last(u)>> \o v) /\ g.entries[x] = Last(u)
    <3>1. LastMoved(Entries, g.entries, u, v, x)
      BY <2>1, <1>6, <1>7, <1>9, LastOver
    <3> QED
      BY <3>1 DEF LastMoved
  <2>3. PICK f \in Seq(Entries), w \in Seq(Entries) : f = Front(u) /\ w = <<Last(u)>> \o v
    BY <2>2
  <2>4. PICK n1, n2 : n1 = [a EXCEPT !.entries = f] /\ n2 = [b EXCEPT !.entries = w]
    OBVIOUS
  <2>5. /\ n1 \in Nodes /\ n1.kind = "leaf" /\ n1.entries = f /\ n1.next = a.next /\ n1.children = <<>>
        /\ n2 \in Nodes /\ n2.kind = "leaf" /\ n2.entries = w /\ n2.next = b.next /\ n2.children = <<>>
    BY <2>4, <1>1, <1>10 DEF Nodes, LeafOK
  <2>6. Cut(g, x - 1, 0, n1, n2)
    <3>1. Parts(g.entries, x - 1, 0, n1.entries, n2.entries)
      BY <2>2, <2>3, <2>5
    <3> QED
      BY <3>1, CutIs
  <2>7. x - 1 \in 1..Len(g.entries) - 1
    <3>1. Len(g.entries) = x + y
      BY <2>1, <1>7 DEF AsOne
    <3>2. x - 1 \in 1..x + y - 1
      BY <1>8
    <3> QED
      BY <3>1, <3>2
  <2>8. Lent(lo, top, lev, left, right, a, b, n1, n2, g.entries[(x - 1) + 1])
    BY <2>5, <2>6, <2>7, <1>4, <1>10, LeafLent
  <2>9. PICK s : s = Last(u)
    OBVIOUS
  <2>10. Lent(lo, top, lev, left, right, a, b, n1, n2, s)
    BY <2>2, <2>8, <2>9, <1>9
  <2>11. Lending(BorrowLeft(p, l), left, right, n1, n2, p, l, s)
    <3>1. BorrowLeft(p, l) = [node EXCEPT ![left].entries = Front(@),
                                          ![right].entries = <<s>> \o @, ![p].entries[l] = s]
      BY <2>9, <1>1, <1>2, <1>5, <1>10 DEF BorrowLeft
    <3>2. n1 = [node[left] EXCEPT !.entries = Front(@)] /\ n2 = [node[right] EXCEPT !.entries = <<s>> \o @]
      BY <2>3, <2>4, <2>9, <1>2, <1>5
    <3> QED
      BY <3>1, <3>2, <1>1, <1>2 DEF Lending
  <2>12. Gave(a, b, n1, n2)
    <3>1. Len(g.entries) = x + y /\ Len(f) = x - 1 /\ Len(w) = Len(g.entries) - (x - 1 + 0)
      BY <2>1, <2>2, <2>3, <1>7 DEF AsOne, Parts
    <3>2. Len(w) = y + 1
      BY <3>1
    <3>3. Len(n1.children) = 0 /\ Len(n2.children) = 0 /\ Len(a.children) = 0 /\ Len(b.children) = 0
      BY <2>5, <1>1, <1>10, NoElements DEF LeafOK
    <3> QED
      BY <3>1, <3>2, <3>3, <2>5, <1>5, <1>7 DEF Gave
  <2> QED
    BY <2>10, <2>11, <2>12
<1>11. CASE a.kind = "internal"
  <2>0. PICK z \in Entries : z = top[left] /\ z = node[p].entries[l]
    BY <1>1
  <2>1. Around(g.entries, u, z, v) /\ AsOne(g.children, c, d)
    BY <2>0, <1>4, <1>5, <1>11 DEF Merged
  <2>2. /\ Front(u) \in Seq(Entries) /\ <<z>> \o v \in Seq(Entries)
        /\ Parts(g.entries, x - 1, 1, Front(u), <<z>> \o v) /\ g.entries[x] = Last(u)
    <3>1. LastPast(Entries, g.entries, u, z, v, x)
      BY <2>1, <1>6, <1>7, <1>9, LastAcross
    <3> QED
      BY <3>1 DEF LastPast
  <2>3. Len(c) = x + 1 /\ x + 1 > 0 /\ x + 1 \in Nat /\ (x + 1) - 1 = x
    BY <1>1, <1>5, <1>7, <1>11 DEF InnerOK
  <2>4. PICK h \in Nat : h = x + 1 /\ h = Len(c) /\ h > 0 /\ h - 1 = x
    BY <2>3
  <2>5. /\ Front(c) \in Seq(Pages) /\ <<Last(c)>> \o d \in Seq(Pages)
        /\ Parts(g.children, h - 1, 0, Front(c), <<Last(c)>> \o d)
    <3>1. LastMoved(Pages, g.children, c, d, h)
      BY <2>1, <2>4, <1>6, LastOver
    <3> QED
      BY <3>1 DEF LastMoved
  <2>6. PICK f \in Seq(Entries), w \in Seq(Entries), f2 \in Seq(Pages), w2 \in Seq(Pages) :
          f = Front(u) /\ w = <<z>> \o v /\ f2 = Front(c) /\ w2 = <<Last(c)>> \o d
    BY <2>2, <2>5
  <2>7. PICK n1, n2 : n1 = Internal(f, f2) /\ n2 = Internal(w, w2)
    OBVIOUS
  <2>8. /\ n1 \in Nodes /\ n1.kind = "internal" /\ n1.entries = f /\ n1.children = f2 /\ n1.next = NoPage
        /\ n2 \in Nodes /\ n2.kind = "internal" /\ n2.entries = w /\ n2.children = w2 /\ n2.next = NoPage
    BY <2>7, InternalIn
  <2>9. Cut(g, x - 1, 1, n1, n2)
    <3>1. Parts(g.entries, x - 1, 1, n1.entries, n2.entries)
      BY <2>2, <2>6, <2>8
    <3> QED
      BY <3>1, CutIs
  <2>10. CutBelow(g, x - 1, n1, n2)
    <3>1. h - 1 = (x - 1) + 1 /\ x - 1 \in Nat
      BY <2>4, <1>8
    <3>2. Parts(g.children, h - 1, 0, n1.children, n2.children)
      BY <2>5, <2>6, <2>8
    <3>3. Parts(g.children, (x - 1) + 1, 0, n1.children, n2.children)
      BY <3>1, <3>2
    <3> QED
      BY <3>1, <3>3, CutBelowIs
  <2>11. x - 1 \in 1..Len(g.entries) - 2
    <3>1. Len(g.entries) = x + y + 1
      BY <2>1, <1>7 DEF Around
    <3>2. x - 1 \in 1..x + y + 1 - 2
      BY <1>8
    <3> QED
      BY <3>1, <3>2
  <2>12. Lent(lo, top, lev, left, right, a, b, n1, n2, g.entries[(x - 1) + 1])
    BY <2>8, <2>9, <2>10, <2>11, <1>4, <1>11, InnerLent
  <2>13. PICK s : s = Last(u)
    OBVIOUS
  <2>14. Lent(lo, top, lev, left, right, a, b, n1, n2, s)
    BY <2>2, <2>12, <2>13, <1>9
  <2>15. Lending(BorrowLeft(p, l), left, right, n1, n2, p, l, s)
    <3>1. BorrowLeft(p, l) = [node EXCEPT ![left] = Internal(Front(u), Front(c)),
                                          ![right] = Internal(<<z>> \o v, <<Last(c)>> \o d),
                                          ![p].entries[l] = s]
      BY <2>0, <2>13, <1>1, <1>2, <1>5, <1>11 DEF BorrowLeft
    <3> QED
      BY <3>1, <2>6, <2>7 DEF Lending
  <2>16. Gave(a, b, n1, n2)
    <3>1. /\ Len(g.entries) = x + y + 1 /\ Len(f) = x - 1 /\ Len(w) = Len(g.entries) - (x - 1 + 1)
          /\ Len(g.children) = Len(c) + Len(d) /\ Len(f2) = h - 1
          /\ Len(w2) = Len(g.children) - (h - 1 + 0)
      BY <2>1, <2>2, <2>5, <2>6, <1>7 DEF AsOne, Around, Parts
    <3>2. PICK z2 \in Nat : z2 = Len(d)
      BY <1>6, RangeOf
    <3>5. (x + y + 1) - (x - 1 + 1) = y + 1 /\ (h + z2) - (h - 1 + 0) = z2 + 1
      BY <2>4
    <3>3. Len(w) = y + 1 /\ Len(w2) = z2 + 1 /\ Len(f2) = x
      BY <3>1, <3>2, <3>5, <2>4
    <3>4. x <= x + 1 /\ z2 + 1 <= z2 + 1
      OBVIOUS
    <3> QED
      BY <3>1, <3>2, <3>3, <3>4, <2>3, <2>8, <1>5, <1>7 DEF Gave
  <2> QED
    BY <2>14, <2>15, <2>16
<1> QED
  BY <1>1, <1>10, <1>11

LEMMA BorrowLeftEvens ==
    ASSUME Roomy, NEW lo, NEW top, NEW lev, NEW p, NEW l, NEW left, NEW right, NEW a, NEW b,
           Pair(lo, top, lev, p, l, left, right, a, b), Lean(left, right), BodySize(a) > MinBody
    PROVE  Evened(lo, top, lev, p, BorrowLeft(p, l))
  BY BorrowLeftIs, LentEvens

\* The right neighbour lends its first entry.
LEMMA BorrowRightIs ==
    ASSUME Roomy, NEW lo, NEW top, NEW lev, NEW p, NEW l, NEW left, NEW right, NEW a, NEW b,
           Pair(lo, top, lev, p, l, left, right, a, b), BodySize(b) > MinBody
    PROVE  \E n1, n2, s : /\ Lent(lo, top, lev, left, right, a, b, n1, n2, s)
                          /\ Lending(BorrowRight(p, l), left, right, n1, n2, p, l, s)
                          /\ Gave(b, a, n2, n1)
<1>1. /\ left # right /\ p # left /\ p # right
      /\ left \in Pages /\ right \in Pages /\ p \in Pages
      /\ a \in Nodes /\ b \in Nodes /\ a.kind = b.kind /\ a.kind \in {"leaf", "internal"}
      /\ node[p].entries[l] = top[left] /\ top[left] \in Entries
      /\ a.kind = "leaf" => LeafOK(a, lo[left], top[left]) /\ LeafOK(b, top[left], top[right])
      /\ a.kind = "internal" => InnerOK(a, lo[left], top[left]) /\ InnerOK(b, top[left], top[right])
  BY PairFacts
<1>2. /\ left = node[p].children[l] /\ right = node[p].children[l + 1] /\ a = node[left] /\ b = node[right]
      /\ node \in [Pages -> Nodes]
  BY DEF Pair
<1>3. PICK g : g = Joined(p, l)
  OBVIOUS
<1>4. Merged(g, lo, top, lev, left, right, a, b)
  BY <1>3, JoinedIs
<1>5. PICK u, v, c, d : u = a.entries /\ v = b.entries /\ c = a.children /\ d = b.children
  OBVIOUS
<1>6. u \in Seq(Entries) /\ v \in Seq(Entries) /\ c \in Seq(Pages) /\ d \in Seq(Pages)
  BY <1>1, <1>5, NodeFacts
<1>7. PICK x \in Nat, y \in Nat : x = Len(u) /\ y = Len(v)
  BY <1>6, RangeOf
<1>8. y >= 2
  <2>1. (b.kind = "leaf" /\ b.children = <<>>)
             \/ (b.kind = "internal" /\ Len(b.children) = Len(b.entries) + 1)
    BY <1>1 DEF LeafOK, InnerOK
  <2> QED
    BY <2>1, <1>1, <1>5, <1>7, Lender
<1>9. Len(v) # 0 /\ x + 1 \in Nat
  BY <1>7, <1>8
<1>10. CASE a.kind = "leaf"
  <2>1. AsOne(g.entries, u, v)
    BY <1>4, <1>5, <1>10 DEF Merged
  <2>2. /\ Append(u, Head(v)) \in Seq(Entries) /\ Tail(v) \in Seq(Entries)
        /\ Parts(g.entries, x + 1, 0, Append(u, Head(v)), Tail(v)) /\ g.entries[(x + 1) + 1] = v[2]
    <3>1. FirstMoved(Entries, g.entries, u, v, x)
      BY <2>1, <1>6, <1>7, <1>9, FirstOver
    <3>2. /\ Append(u, Head(v)) \in Seq(Entries) /\ Tail(v) \in Seq(Entries)
          /\ Parts(g.entries, x + 1, 0, Append(u, Head(v)), Tail(v))
          /\ \A j \in 1..Len(v) : g.entries[x + j] = v[j]
      BY <3>1 DEF FirstMoved
    <3>3. 2 \in 1..Len(v) /\ (x + 1) + 1 = x + 2
      BY <1>7, <1>8
    <3>4. g.entries[x + 2] = v[2]
      BY <3>2, <3>3
    <3>5. g.entries[(x + 1) + 1] = g.entries[x + 2]
      BY <3>3
    <3> QED
      BY <3>2, <3>4, <3>5
  <2>3. PICK f \in Seq(Entries), w \in Seq(Entries) : f = Append(u, Head(v)) /\ w = Tail(v)
    BY <2>2
  <2>4. PICK n1, n2 : n1 = [a EXCEPT !.entries = f] /\ n2 = [b EXCEPT !.entries = w]
    OBVIOUS
  <2>5. /\ n1 \in Nodes /\ n1.kind = "leaf" /\ n1.entries = f /\ n1.next = a.next /\ n1.children = <<>>
        /\ n2 \in Nodes /\ n2.kind = "leaf" /\ n2.entries = w /\ n2.next = b.next /\ n2.children = <<>>
    BY <2>4, <1>1, <1>10 DEF Nodes, LeafOK
  <2>6. Cut(g, x + 1, 0, n1, n2)
    <3>1. Parts(g.entries, x + 1, 0, n1.entries, n2.entries)
      BY <2>2, <2>3, <2>5
    <3> QED
      BY <3>1, CutIs
  <2>7. x + 1 \in 1..Len(g.entries) - 1
    <3>1. Len(g.entries) = x + y
      BY <2>1, <1>7 DEF AsOne
    <3>2. x + 1 \in 1..x + y - 1
      BY <1>8
    <3> QED
      BY <3>1, <3>2
  <2>8. Lent(lo, top, lev, left, right, a, b, n1, n2, g.entries[(x + 1) + 1])
    BY <2>5, <2>6, <2>7, <1>4, <1>10, LeafLent
  <2>9. PICK s : s = v[2]
    OBVIOUS
  <2>10. Lent(lo, top, lev, left, right, a, b, n1, n2, s)
    BY <2>2, <2>8, <2>9
  <2>11. Lending(BorrowRight(p, l), left, right, n1, n2, p, l, s)
    <3>1. BorrowRight(p, l) = [node EXCEPT ![left].entries = Append(@, Head(v)),
                                           ![right].entries = Tail(@), ![p].entries[l] = s]
      BY <2>9, <1>1, <1>2, <1>5, <1>10 DEF BorrowRight
    <3>2. n1 = [node[left] EXCEPT !.entries = Append(@, Head(v))] /\ n2 = [node[right] EXCEPT !.entries = Tail(@)]
      BY <2>3, <2>4, <1>2, <1>5
    <3> QED
      BY <3>1, <3>2, <1>1, <1>2 DEF Lending
  <2>12. Gave(b, a, n2, n1)
    <3>1. Len(g.entries) = x + y /\ Len(f) = x + 1 /\ Len(w) = Len(g.entries) - (x + 1 + 0)
      BY <2>1, <2>2, <2>3, <1>7 DEF AsOne, Parts
    <3>2. Len(w) = y - 1
      BY <3>1
    <3>3. Len(n1.children) = 0 /\ Len(n2.children) = 0 /\ Len(a.children) = 0 /\ Len(b.children) = 0
      BY <2>5, <1>1, <1>10, NoElements DEF LeafOK
    <3> QED
      BY <3>1, <3>2, <3>3, <2>5, <1>5, <1>7 DEF Gave
  <2> QED
    BY <2>10, <2>11, <2>12
<1>11. CASE a.kind = "internal"
  <2>0. PICK z \in Entries : z = top[left] /\ z = node[p].entries[l]
    BY <1>1
  <2>1. Around(g.entries, u, z, v) /\ AsOne(g.children, c, d)
    BY <2>0, <1>4, <1>5, <1>11 DEF Merged
  <2>2. /\ Append(u, z) \in Seq(Entries) /\ Tail(v) \in Seq(Entries)
        /\ Parts(g.entries, x + 1, 1, Append(u, z), Tail(v)) /\ g.entries[(x + 1) + 1] = Head(v)
    <3>1. FirstPast(Entries, g.entries, u, z, v, x)
      BY <2>1, <1>6, <1>7, <1>9, FirstAcross
    <3> QED
      BY <3>1 DEF FirstPast
  <2>3. Len(c) = x + 1 /\ Len(d) = y + 1 /\ Len(d) # 0
    BY <1>1, <1>5, <1>7, <1>11 DEF InnerOK
  <2>4. PICK h \in Nat : h = x + 1 /\ h = Len(c)
    BY <2>3
  <2>5. /\ Append(c, Head(d)) \in Seq(Pages) /\ Tail(d) \in Seq(Pages)
        /\ Parts(g.children, h + 1, 0, Append(c, Head(d)), Tail(d))
    <3>1. FirstMoved(Pages, g.children, c, d, h)
      BY <2>1, <2>3, <2>4, <1>6, FirstOver
    <3> QED
      BY <3>1 DEF FirstMoved
  <2>6. PICK f \in Seq(Entries), w \in Seq(Entries), f2 \in Seq(Pages), w2 \in Seq(Pages) :
          f = Append(u, z) /\ w = Tail(v) /\ f2 = Append(c, Head(d)) /\ w2 = Tail(d)
    BY <2>2, <2>5
  <2>7. PICK n1, n2 : n1 = Internal(f, f2) /\ n2 = Internal(w, w2)
    OBVIOUS
  <2>8. /\ n1 \in Nodes /\ n1.kind = "internal" /\ n1.entries = f /\ n1.children = f2 /\ n1.next = NoPage
        /\ n2 \in Nodes /\ n2.kind = "internal" /\ n2.entries = w /\ n2.children = w2 /\ n2.next = NoPage
    BY <2>7, InternalIn
  <2>9. Cut(g, x + 1, 1, n1, n2)
    <3>1. Parts(g.entries, x + 1, 1, n1.entries, n2.entries)
      BY <2>2, <2>6, <2>8
    <3> QED
      BY <3>1, CutIs
  <2>10. CutBelow(g, x + 1, n1, n2)
    <3>1. h + 1 = (x + 1) + 1 /\ x + 1 \in Nat
      BY <2>4
    <3>2. Parts(g.children, h + 1, 0, n1.children, n2.children)
      BY <2>5, <2>6, <2>8
    <3>3. Parts(g.children, (x + 1) + 1, 0, n1.children, n2.children)
      BY <3>1, <3>2
    <3> QED
      BY <3>1, <3>3, CutBelowIs
  <2>11. x + 1 \in 1..Len(g.entries) - 2
    <3>1. Len(g.entries) = x + y + 1
      BY <2>1, <1>7 DEF Around
    <3>2. x + 1 \in 1..x + y + 1 - 2
      BY <1>8
    <3> QED
      BY <3>1, <3>2
  <2>12. Lent(lo, top, lev, left, right, a, b, n1, n2, g.entries[(x + 1) + 1])
    BY <2>8, <2>9, <2>10, <2>11, <1>4, <1>11, InnerLent
  <2>13. PICK s : s = Head(v)
    OBVIOUS
  <2>14. Lent(lo, top, lev, left, right, a, b, n1, n2, s)
    BY <2>2, <2>12, <2>13
  <2>15. Lending(BorrowRight(p, l), left, right, n1, n2, p, l, s)
    <3>1. BorrowRight(p, l) = [node EXCEPT ![left] = Internal(Append(u, z), Append(c, Head(d))),
                                           ![right] = Internal(Tail(v), Tail(d)),
                                           ![p].entries[l] = s]
      BY <2>0, <2>13, <1>1, <1>2, <1>5, <1>11 DEF BorrowRight
    <3> QED
      BY <3>1, <2>6, <2>7 DEF Lending
  <2>16. Gave(b, a, n2, n1)
    <3>1. /\ Len(g.entries) = x + y + 1 /\ Len(f) = x + 1 /\ Len(w) = Len(g.entries) - (x + 1 + 1)
          /\ Len(g.children) = Len(c) + Len(d) /\ Len(f2) = h + 1
          /\ Len(w2) = Len(g.children) - (h + 1 + 0)
      BY <2>1, <2>2, <2>5, <2>6, <1>7 DEF AsOne, Around, Parts
    <3>3. Len(w) = y - 1 /\ Len(w2) = y /\ Len(f2) = (x + 1) + 1
      BY <3>1, <2>3, <2>4
    <3>4. y <= y + 1 /\ (x + 1) + 1 <= (x + 1) + 1
      OBVIOUS
    <3> QED
      BY <3>1, <3>3, <3>4, <2>3, <2>8, <1>5, <1>7 DEF Gave
  <2> QED
    BY <2>14, <2>15, <2>16
<1> QED
  BY <1>1, <1>10, <1>11

LEMMA BorrowRightEvens ==
    ASSUME Roomy, NEW lo, NEW top, NEW lev, NEW p, NEW l, NEW left, NEW right, NEW a, NEW b,
           Pair(lo, top, lev, p, l, left, right, a, b), Lean(left, right), BodySize(b) > MinBody
    PROVE  Evened(lo, top, lev, p, BorrowRight(p, l))
  BY BorrowRightIs, LentEvens

\* Between the steps of a deletion.
LEMMA Returning ==
    ASSUME IInv, extra = NoPage, Len(stack) > 0
    PROVE  /\ Vars /\ root # NoPage /\ rows = Content(node)
           /\ \A p \in InUse(node) : node[p].kind = "internal" /\ Len(node[p].entries) = 0 =>
                p = stack[Len(stack)]
           /\ Len(stack) \in Nat
           /\ \E lo, top, lev \in [Pages -> Nat] :
                /\ Core(node, lo, top, top, lev) /\ Rules(node, root, lo, top, lev)
                /\ Path(node, root, stack, lev)
<1>1. root # NoPage
  <2>1. root = NoPage => Len(stack) = 0
    BY NoElements DEF IInv
  <2> QED
    BY <2>1
<1>2. Vars /\ Fan(node, stack, extra) /\ rows = Content(node)
  BY <1>1 DEF IInv
<1>3. PICK lo \in [Pages -> Nat], top \in [Pages -> Nat], reach \in [Pages -> Nat], lev \in [Pages -> Nat] :
        WellFormed(node, root, stack, sep, extra, lo, top, reach, lev)
  BY <1>1 DEF IInv, Tree
<1>4. reach = top
  BY <1>3 DEF WellFormed, Waits
<1>5. /\ Core(node, lo, top, top, lev) /\ Rules(node, root, lo, top, lev)
      /\ Path(node, root, stack, lev)
  BY <1>3, <1>4 DEF WellFormed
<1>6. Len(stack) \in Nat
  BY <1>2, RangeOf DEF Vars
<1>7. \A p \in InUse(node) : node[p].kind = "internal" /\ Len(node[p].entries) = 0 =>
         p = stack[Len(stack)]
  BY <1>2 DEF Fan
<1> QED
  BY <1>1, <1>2, <1>5, <1>6, <1>7

LEMMA EvenedKeeps ==
    ASSUME Vars, root # NoPage, rows = Content(node), extra = NoPage, Len(stack) > 1,
           NEW lo \in [Pages -> Nat], NEW top \in [Pages -> Nat], NEW lev \in [Pages -> Nat],
           Core(node, lo, top, top, lev), Rules(node, root, lo, top, lev), Path(node, root, stack, lev),
           NEW p \in InUse(node), p = stack[Len(stack) - 1], Evened(lo, top, lev, p, node'),
           stack' = Front(stack), UNCHANGED <<root, rows, sep, extra>>
    PROVE  IInv'
<1>1. root' = root /\ rows' = rows /\ sep' = sep /\ extra' = NoPage
  OBVIOUS
<1>2. /\ node' \in [Pages -> Nodes] /\ Content(node') = Content(node)
      /\ InUse(node') \subseteq InUse(node)
      /\ \A q \in InUse(node) : lev[q] >= lev[p] => q \in InUse(node')
      /\ \A q \in InUse(node) : lev[q] > lev[p] => node'[q].children = node[q].children
      /\ \A q \in InUse(node') : node'[q].kind = "internal" /\ Len(node'[q].entries) = 0 => q = p
  BY DEF Evened
<1>3. PICK lo2 \in [Pages -> Nat], top2 \in [Pages -> Nat] :
         /\ Core(node', lo2, top2, top2, lev)
         /\ \A q \in InUse(node) : lev[q] >= lev[p] => lo2[q] = lo[q] /\ top2[q] = top[q]
  BY DEF Evened
<1>4. /\ root \in InUse(node) /\ lo[root] = 0 /\ top[root] = Top /\ root \in Pages
      /\ \A q \in InUse(node) : lev[q] <= lev[root]
  BY DEF Rules, InUse
<1>5. lev[root] >= lev[p]
  <2>1. p \in Pages /\ lev[p] \in Nat /\ lev[root] \in Nat
    BY <1>4 DEF InUse
  <2>2. lev[p] <= lev[root]
    BY <1>4
  <2> QED
    BY <2>1, <2>2
<1>6. Rules(node', root, lo2, top2, lev)
  BY <1>2, <1>3, <1>4, <1>5 DEF Rules
<1>7. /\ Path(node', root, Front(stack), lev) /\ Len(Front(stack)) > 0
      /\ Front(stack)[Len(Front(stack))] = p
  <2>1. KeptAbove(node, root, stack, lev, p, node', lev)
    BY <1>2, <1>4 DEF KeptAbove
  <2> QED
    BY <2>1, PathFront
<1>8. WellFormed(node', root', stack', sep', extra', lo2, top2, top2, lev)
  <2>1. Waits(InUse(node'), Front(stack), sep', NoPage, lo2, top2, top2, lev)
    BY DEF Waits
  <2> QED
    BY <2>1, <1>1, <1>3, <1>6, <1>7 DEF WellFormed
<1>9. Fan(node', stack', extra')
  BY <1>1, <1>2, <1>7 DEF Fan
<1>10. Vars'
  <2>1. Front(stack) \in Seq(Pages)
    BY <1>7 DEF Path
  <2> QED
    BY <2>1, <1>1, <1>2 DEF Vars
<1> QED
  BY <1>1, <1>2, <1>8, <1>9, <1>10, InvAfter

\* The return into p from its child c.
AtParent(lo, top, lev, p, c, i) ==
    /\ Core(node, lo, top, top, lev) /\ Rules(node, root, lo, top, lev) /\ Path(node, root, stack, lev)
    /\ p = stack[Len(stack) - 1] /\ c = stack[Len(stack)]
    /\ p \in InUse(node) /\ c \in InUse(node) /\ p \in Pages /\ c \in Pages /\ p # c
    /\ node[p].kind = "internal" /\ InnerOK(node[p], lo[p], top[p])
    /\ node[p] \in Nodes /\ Len(node[p].entries) \in Nat /\ Len(node[p].entries) # 0
    /\ i \in 1..Len(node[p].children) /\ node[p].children[i] = c

LEMMA ParentOf ==
    ASSUME IInv, Rebalance
    PROVE  \E lo, top, lev \in [Pages -> Nat] : \E p, c, i : AtParent(lo, top, lev, p, c, i)
<1>1. extra = NoPage /\ Len(stack) > 1
  BY DEF Rebalance
<1>2. /\ Vars /\ Len(stack) \in Nat
      /\ \A p \in InUse(node) : node[p].kind = "internal" /\ Len(node[p].entries) = 0 =>
           p = stack[Len(stack)]
  <2>1. Len(stack) > 0
    <3>1. Len(stack) \in Nat
      BY RangeOf DEF IInv, Vars
    <3> QED
      BY <3>1, <1>1
  <2> QED
    BY <2>1, <1>1, Returning
<1>3. PICK lo \in [Pages -> Nat], top \in [Pages -> Nat], lev \in [Pages -> Nat] :
        /\ Core(node, lo, top, top, lev) /\ Rules(node, root, lo, top, lev)
        /\ Path(node, root, stack, lev)
  <2>1. Len(stack) > 0
    BY <1>1, <1>2
  <2> QED
    BY <2>1, <1>1, Returning
<1>4. PICK p, c, m : m = Len(stack) /\ p = stack[m - 1] /\ c = stack[m] /\ m \in Nat /\ m > 1
  BY <1>1, <1>2
<1>5. PICK i \in 1..Len(node[p].children) : node[p].children[i] = c
  <2>1. m - 1 \in 1..Len(stack) - 1 /\ (m - 1) + 1 = m
    BY <1>4
  <2> QED
    BY <2>1, <1>3, <1>4 DEF Path
<1>6. p \in InUse(node) /\ c \in InUse(node) /\ p \in Pages /\ c \in Pages
  <2>1. m - 1 \in 1..Len(stack) /\ m \in 1..Len(stack)
    BY <1>4
  <2>2. p \in InUse(node) /\ c \in InUse(node)
    BY <2>1, <1>3, <1>4 DEF Path
  <2> QED
    BY <2>2 DEF InUse
<1>7. /\ node[p].kind = "internal" /\ InnerOK(node[p], lo[p], top[p]) /\ lev[c] + 1 = lev[p]
      /\ node[p] \in Nodes /\ Len(node[p].entries) \in Nat
  <2>1. /\ node[p].kind = "internal" /\ InnerOK(node[p], lo[p], top[p]) /\ lev[c] + 1 = lev[p]
    BY <1>3, <1>5, <1>6, ChildFacts
  <2>2. node[p] \in Nodes
    BY <1>2, <1>6 DEF Vars
  <2> QED
    BY <2>1, <2>2, NodeFacts
<1>8. p # c /\ Len(node[p].entries) # 0
  <2>1. lev[c] \in Nat /\ lev[p] \in Nat
    BY <1>6
  <2>2. p # c
    BY <2>1, <1>7
  <2> QED
    BY <2>2, <1>2, <1>4, <1>6, <1>7
<1>9. AtParent(lo, top, lev, p, c, i)
  BY <1>3, <1>4, <1>5, <1>6, <1>7, <1>8 DEF AtParent
<1> QED
  BY <1>9

\* What _rebalance does for c: a neighbour above the threshold lends, else both are merged.
Evens(nd2, lo, top, lev, p, c, l, left, right, a, b) ==
    /\ Pair(lo, top, lev, p, l, left, right, a, b) /\ c \in {left, right}
    /\ \/ nd2 = BorrowRight(p, l) /\ c = left /\ BodySize(b) > MinBody
       \/ nd2 = BorrowLeft(p, l) /\ c = right /\ BodySize(a) > MinBody
       \/ /\ nd2 = Merge(p, l)
          /\ (c = left /\ BodySize(b) <= MinBody) \/ (c = right /\ BodySize(a) <= MinBody)

LEMMA RebalancedIs ==
    ASSUME node \in [Pages -> Nodes], NEW lo, NEW top, NEW lev, NEW p, NEW c, NEW i,
           AtParent(lo, top, lev, p, c, i)
    PROVE  \E l, left, right, a, b : Evens(Rebalanced(p, c), lo, top, lev, p, c, l, left, right, a, b)
<1>1. /\ Core(node, lo, top, top, lev) /\ p \in InUse(node) /\ p \in Pages
      /\ i \in 1..Len(node[p].children) /\ node[p].children[i] = c
      /\ node[p].kind = "internal" /\ Len(node[p].entries) \in Nat /\ Len(node[p].entries) # 0
      /\ Len(node[p].children) = Len(node[p].entries) + 1
  BY DEF AtParent, InnerOK
<1>2. i = CHOOSE j \in 1..Len(node[p].children) : node[p].children[j] = c
  <2>1. \A j \in 1..Len(node[p].children) : node[p].children[j] = c => j = i
    BY <1>1, OneParent
  <2> QED
    BY <2>1, <1>1
<1>3. PICK l \in Nat : l = IF i = 1 THEN 1 ELSE i - 1
  BY <1>1
<1>4. l \in 1..Len(node[p].entries)
  BY <1>1, <1>3
<1>5. PICK left, right : left = node[p].children[l] /\ right = node[p].children[l + 1]
  OBVIOUS
<1>6. PICK a, b : a = node[left] /\ b = node[right]
  OBVIOUS
<1>7. Pair(lo, top, lev, p, l, left, right, a, b)
  BY <1>1, <1>4, <1>5, <1>6 DEF Pair
<1>8. i = 1 => left = c
  BY <1>1, <1>3, <1>5
<1>9. i # 1 => right = c /\ left = node[p].children[i - 1]
  <2>1. i # 1 => l = i - 1 /\ l + 1 = i
    BY <1>1, <1>3
  <2> QED
    BY <2>1, <1>1, <1>5
<1>10. BodySize(a) \in Nat /\ BodySize(b) \in Nat /\ MinBody \in Nat
  BY <1>7, PairFacts, SizeOf, HalfPage
<1>11. PICK nd2 : nd2 = Rebalanced(p, c)
  OBVIOUS
<1>12. CASE i = 1
  <2>1. l = 1 /\ right = node[p].children[2]
    BY <1>3, <1>5, <1>12
  <2>2. nd2 = IF BodySize(b) > MinBody THEN BorrowRight(p, l) ELSE Merge(p, l)
    BY <2>1, <1>2, <1>6, <1>11, <1>12 DEF Rebalanced
  <2>3. BodySize(b) > MinBody \/ (~(BodySize(b) > MinBody) /\ BodySize(b) <= MinBody)
    BY <1>10
  <2>4. Evens(nd2, lo, top, lev, p, c, l, left, right, a, b)
    BY <2>2, <2>3, <1>7, <1>8, <1>12 DEF Evens
  <2> QED
    BY <2>4, <1>11
<1>13. CASE i # 1
  <2>1. l = i - 1 /\ left = node[p].children[i - 1]
    BY <1>3, <1>9, <1>13
  <2>2. nd2 = IF BodySize(a) > MinBody THEN BorrowLeft(p, l) ELSE Merge(p, l)
    <3>1. Rebalanced(p, c) = IF BodySize(node[node[p].children[i - 1]]) > MinBody
                             THEN BorrowLeft(p, i - 1) ELSE Merge(p, i - 1)
      BY <1>2, <1>13 DEF Rebalanced
    <3>2. node[node[p].children[i - 1]] = a
      BY <2>1, <1>6
    <3> QED
      BY <3>1, <3>2, <2>1, <1>11
  <2>3. BodySize(a) > MinBody \/ (~(BodySize(a) > MinBody) /\ BodySize(a) <= MinBody)
    BY <1>10
  <2>4. Evens(nd2, lo, top, lev, p, c, l, left, right, a, b)
    BY <2>2, <2>3, <1>7, <1>9, <1>13 DEF Evens
  <2> QED
    BY <2>4, <1>11
<1> QED
  BY <1>12, <1>13

\* A child that shrank borrows or is merged.
LEMMA RebalanceKeeps ==
    ASSUME IInv, Roomy, Rebalance
    PROVE  IInv'
<1>1. extra = NoPage /\ Len(stack) > 1 /\ stack' = Front(stack) /\ UNCHANGED <<root, rows, sep, extra>>
  BY DEF Rebalance
<1>2. /\ Vars /\ root # NoPage /\ rows = Content(node) /\ Len(stack) \in Nat
      /\ \A p \in InUse(node) : node[p].kind = "internal" /\ Len(node[p].entries) = 0 =>
           p = stack[Len(stack)]
  <2>1. Len(stack) > 0
    <3>1. Len(stack) \in Nat
      BY RangeOf DEF IInv, Vars
    <3> QED
      BY <3>1, <1>1
  <2> QED
    BY <2>1, <1>1, Returning
<1>3. PICK lo \in [Pages -> Nat], top \in [Pages -> Nat], lev \in [Pages -> Nat] :
        \E p, c, i : AtParent(lo, top, lev, p, c, i)
  BY ParentOf
<1>4. PICK p, c, i : AtParent(lo, top, lev, p, c, i)
  BY <1>3
<1>5. /\ Core(node, lo, top, top, lev) /\ Rules(node, root, lo, top, lev) /\ Path(node, root, stack, lev)
      /\ p = stack[Len(stack) - 1] /\ c = stack[Len(stack)] /\ p \in InUse(node) /\ c \in InUse(node)
      /\ c \in Pages
  BY <1>4 DEF AtParent
<1>6. ASSUME Evened(lo, top, lev, p, node')
      PROVE  IInv'
  BY <1>1, <1>2, <1>5, <1>6, EvenedKeeps
<1>7. node' = IF BodySize(node[c]) < MinBody THEN Rebalanced(p, c) ELSE node
  BY <1>5 DEF Rebalance, Last
<1>8. BodySize(node[c]) \in Nat /\ MinBody \in Nat /\ node[c] \in Nodes
  BY <1>2, <1>5, SizeOf, HalfPage DEF Vars
<1>9. CASE BodySize(node[c]) >= MinBody
  <2>1. node' = node
    BY <1>7, <1>8, <1>9
  <2>2. ~(node[c].kind = "internal" /\ Len(node[c].entries) = 0)
    <3>1. ASSUME node[c].kind = "internal", Len(node[c].entries) = 0
          PROVE  FALSE
      <4>1. InnerOK(node[c], lo[c], top[c])
        BY <3>1, <1>5, PageFacts
      <4>2. Len(node[c].children) = 1
        BY <4>1, <3>1 DEF InnerOK
      <4>3. BodySize(node[c]) = Weight(0, 1)
        BY <4>2, <3>1, <1>8, SizeOf
      <4>4. Weight(0, 1) < MinBody
        BY WeightBounds
      <4> QED
        BY <4>3, <4>4, <1>8, <1>9
    <3> QED
      BY <3>1
  <2>3. Evened(lo, top, lev, p, node)
    <3>1. node \in [Pages -> Nodes]
      BY <1>2 DEF Vars
    <3>2. \A q \in InUse(node) : node[q].kind = "internal" /\ Len(node[q].entries) = 0 => q = p
      BY <2>2, <1>2, <1>5
    <3> QED
      BY <3>1, <3>2, <1>5 DEF Evened
  <2> QED
    BY <2>1, <2>3, <1>6
<1>10. CASE BodySize(node[c]) < MinBody
  <2>1. PICK nd2 : nd2 = Rebalanced(p, c)
    OBVIOUS
  <2>2. node' = nd2
    BY <2>1, <1>7, <1>10
  <2>3. PICK l, left, right, a, b : Evens(nd2, lo, top, lev, p, c, l, left, right, a, b)
    <3>1. node \in [Pages -> Nodes]
      BY <1>2 DEF Vars
    <3> QED
      BY <3>1, <2>1, <1>4, RebalancedIs
  <2>4. Pair(lo, top, lev, p, l, left, right, a, b) /\ Lean(left, right)
    BY <2>3, <1>2, <1>5 DEF Evens, Lean
  <2>5. CASE nd2 = BorrowRight(p, l) /\ BodySize(b) > MinBody
    BY <2>2, <2>4, <2>5, <1>6, BorrowRightEvens
  <2>6. CASE nd2 = BorrowLeft(p, l) /\ BodySize(a) > MinBody
    BY <2>2, <2>4, <2>6, <1>6, BorrowLeftEvens
  <2>7. CASE nd2 = Merge(p, l)
    BY <2>2, <2>4, <2>7, <1>6, MergeEvens
  <2> QED
    BY <2>3, <2>5, <2>6, <2>7 DEF Evens
<1> QED
  BY <1>8, <1>9, <1>10

\* The root, when the call has returned.
LEMMA CollapseKeeps ==
    ASSUME IInv, Collapse
    PROVE  IInv'
<1>1. extra = NoPage /\ Len(stack) = 1 /\ stack' = <<>> /\ UNCHANGED <<rows, sep, extra>>
  BY DEF Collapse
<1>2. /\ Vars /\ root # NoPage /\ rows = Content(node)
      /\ \A p \in InUse(node) : node[p].kind = "internal" /\ Len(node[p].entries) = 0 =>
           p = stack[Len(stack)]
  BY <1>1, Returning
<1>3. PICK lo \in [Pages -> Nat], top \in [Pages -> Nat], lev \in [Pages -> Nat] :
        /\ Core(node, lo, top, top, lev) /\ Rules(node, root, lo, top, lev)
        /\ Path(node, root, stack, lev)
  BY <1>1, Returning
<1>4. stack[Len(stack)] = root
  BY <1>1, <1>3 DEF Path
<1>5. root \in InUse(node) /\ root \in Pages /\ node[root] \in Nodes /\ node \in [Pages -> Nodes]
  BY <1>2, <1>3 DEF Vars, Rules, InUse
<1>6. node[root].entries = <<>> <=> Len(node[root].entries) = 0
  <2>1. PICK s \in Seq(Entries) : s = node[root].entries
    BY <1>5, NodeFacts
  <2> QED
    BY <2>1, EmptyIff
<1>7. node[root].kind = "internal" <=> ~IsLeaf(root)
  BY <1>3, <1>5, PageFacts DEF IsLeaf
<1>8. ASSUME NEW rt \in InUse(node'), node' \in [Pages -> Nodes], root' = rt,
             Content(node') = Content(node),
             Core(node', lo, top, top, lev), Rules(node', rt, lo, top, lev),
             \A p \in InUse(node') : node'[p].kind = "internal" => Len(node'[p].entries) # 0
      PROVE  IInv'
  <2>1. WellFormed(node', root', stack', sep', extra', lo, top, top, lev)
    <3>1. Path(node', rt, <<>>, lev)
      BY NoPath
    <3>2. Waits(InUse(node'), <<>>, sep', NoPage, lo, top, top, lev)
      BY DEF Waits
    <3> QED
      BY <3>1, <3>2, <1>1, <1>8 DEF WellFormed
  <2>2. Fan(node', stack', extra')
    BY <1>8 DEF Fan
  <2>3. Vars' /\ root' # NoPage
    <3>1. rt \in Pages /\ NoPage \notin Pages
      BY SizeAssumption DEF InUse
    <3> QED
      BY <3>1, <1>1, <1>2, <1>8, NoElements DEF Vars
  <2> QED
    BY <2>1, <2>2, <2>3, <1>1, <1>2, <1>8, InvAfter
<1>9. CASE ~IsLeaf(root) /\ node[root].entries = <<>>
  <2>1. root' = node[root].children[1] /\ node' = [node EXCEPT ![root] = FreePage]
    BY <1>9 DEF Collapse
  <2>2. node' \in [Pages -> Nodes] /\ node'[root] = FreePage /\ \A q \in Pages : q # root => node'[q] = node[q]
    BY <2>1, <1>5, FreeIn
  <2>3. /\ InUse(node') = InUse(node) \ {root} /\ Core(node', lo, top, top, lev)
        /\ Rules(node', root', lo, top, lev)
    <3>1. node[root].kind = "internal" /\ node[root].entries = <<>>
      BY <1>7, <1>9
    <3>2. CollapseOf(node, lo, top, lev, root, node')
      BY <3>1, <2>1, <2>2, <1>3 DEF CollapseOf
    <3> QED
      BY <3>2, <2>1, Collapsed
  <2>4. Content(node') = Content(node)
    <3>1. PICK X \in SUBSET Pages : X = {root}
      BY <1>5
    <3>2. \A q \in Pages : q \notin X => node'[q] = node[q]
      BY <3>1, <2>2
    <3>3. \A q \in X : node[q].kind # "leaf" /\ node'[q].kind # "leaf"
      BY <3>1, <2>2, <1>7, <1>9, FreeIn
    <3> QED
      BY <3>2, <3>3, ContentKept
  <2>5. \A p \in InUse(node') : node'[p].kind = "internal" => Len(node'[p].entries) # 0
    <3> TAKE p \in InUse(node')
    <3>1. p \in InUse(node) /\ p # root /\ p \in Pages
      BY <2>3 DEF InUse
    <3> QED
      BY <3>1, <2>2, <1>2, <1>4
  <2>6. root' \in InUse(node')
    BY <2>3 DEF Rules
  <2> QED
    BY <2>2, <2>3, <2>4, <2>5, <2>6, <1>8
<1>10. CASE ~(~IsLeaf(root) /\ node[root].entries = <<>>)
  <2>1. root' = root /\ node' = node
    BY <1>10 DEF Collapse
  <2>2. \A p \in InUse(node') : node'[p].kind = "internal" => Len(node'[p].entries) # 0
    BY <2>1, <1>2, <1>4, <1>6, <1>7, <1>10
  <2> QED
    BY <2>1, <2>2, <1>3, <1>5, <1>8
<1> QED
  BY <1>9, <1>10

-----------------------------------------------------------------------------
(***************************************************************************)
(* The levels below a page.                                                 *)
(***************************************************************************)
LevelStep(f, p) ==
    [d \in 0..MaxPage |->
       IF d = 0 THEN {p} ELSE UNION {Range(node[q].children) : q \in f[d - 1]}]

\* The recursive function that Levels defines exists.
LEMMA LevelsExist ==
    ASSUME NEW p
    PROVE  \E f : f = LevelStep(f, p)
<1> DEFINE Value(f, i) == IF i = 0 THEN {p} ELSE UNION {Range(node[q].children) : q \in f[i - 1]}
           Part(f, n) == f = [i \in 0..n |-> Value(f, i)]
           bad == {n \in 0..MaxPage : ~\E f : Part(f, n)}
<1>0. MaxPage \in Nat
  BY SizeAssumption
<1>1. ASSUME bad # {}
      PROVE  FALSE
  <2>1. PICK n \in bad : \A k \in bad : n <= k
    <3>1. bad \in SUBSET Nat
      BY <1>0
    <3> QED
      BY <3>1, <1>1, LeastNumber
  <2>2. n # 0
    <3> SUFFICES ASSUME n = 0
                 PROVE  FALSE
      OBVIOUS
    <3>1. PICK f : f = [i \in 0..0 |-> {p}]
      OBVIOUS
    <3>2. Part(f, 0)
      BY <3>1
    <3>3. ~\E h : Part(h, n)
      OBVIOUS
    <3> HIDE DEF Part
    <3> QED
      BY <3>2, <3>3
  <2>3. n - 1 \in 0..MaxPage /\ n - 1 \notin bad /\ n \in Nat
    <3>1. n \in 0..MaxPage
      OBVIOUS
    <3> HIDE DEF bad
    <3> QED
      BY <3>1, <2>1, <2>2, <1>0
  <2>4. PICK f : Part(f, n - 1)
    BY <2>3
  <2> DEFINE g == [i \in 0..n |-> IF i <= n - 1 THEN f[i] ELSE Value(f, i)]
  <2>5. ASSUME NEW i \in 0..n
        PROVE  g[i] = Value(g, i)
    <3>1. g[i] = IF i <= n - 1 THEN f[i] ELSE Value(f, i)
      OBVIOUS
    <3>2. i <= n - 1 => i \in 0..n - 1
      BY <2>3
    <3>3. g[i] = Value(f, i)
      BY <3>1, <3>2, <2>4
    <3>4. i # 0 => i - 1 \in 0..n /\ i - 1 <= n - 1
      BY <2>3
    <3>5. i # 0 => g[i - 1] = f[i - 1]
      BY <3>4
    <3> HIDE DEF g
    <3> QED
      BY <3>3, <3>5
  <2>6. g = [i \in 0..n |-> g[i]]
    OBVIOUS
  <2> HIDE DEF g
  <2>7. Part(g, n)
    <3>1. [i \in 0..n |-> g[i]] = [i \in 0..n |-> Value(g, i)]
      BY <2>5
    <3> QED
      BY <3>1, <2>6
  <2> HIDE DEF Part
  <2> QED
    BY <2>7
<1>2. MaxPage \in 0..MaxPage
  BY <1>0
<1>3. PICK f : Part(f, MaxPage)
  BY <1>1, <1>2
<1>4. f = LevelStep(f, p)
  BY <1>3 DEF LevelStep
<1> QED
  BY <1>4

LEMMA LevelsOf ==
    ASSUME NEW p
    PROVE  /\ Levels(p)[0] = {p}
           /\ \A d \in 1..MaxPage :
                Levels(p)[d] = UNION {Range(node[q].children) : q \in Levels(p)[d - 1]}
<1> DEFINE w == CHOOSE f : f = LevelStep(f, p)
<1>0. MaxPage \in Nat
  BY SizeAssumption
<1>1. Levels(p) = w
  BY DEF Levels, LevelStep
<1>2. w = LevelStep(w, p)
  BY LevelsExist
<1> HIDE DEF w
<1>3. \A d \in 0..MaxPage :
         w[d] = IF d = 0 THEN {p} ELSE UNION {Range(node[q].children) : q \in w[d - 1]}
  BY <1>2 DEF LevelStep
<1>4. 0 \in 0..MaxPage /\ \A d \in 1..MaxPage : d \in 0..MaxPage /\ d # 0
  BY <1>0
<1> QED
  BY <1>1, <1>3, <1>4

\* Every level has a page for every number.
LEMMA Cover ==
    ASSUME NEW nd, NEW lo, NEW top, NEW lev, Core(nd, lo, top, top, lev),
           NEW rt, Rules(nd, rt, lo, top, lev),
           NEW k \in Nat, k <= lev[rt], NEW x \in Nat, x < Top
    PROVE  \E q \in InUse(nd) : lev[q] = k /\ lo[q] <= x /\ x < top[q]
<1> DEFINE Covered(j) == \E q \in InUse(nd) : lev[q] = j /\ lo[q] <= x /\ x < top[q]
           bad == {j \in Nat : j <= lev[rt] /\ ~Covered(j)}
<1>1. /\ rt \in InUse(nd) /\ lo[rt] = 0 /\ top[rt] = Top /\ lev[rt] \in Nat
      /\ lev \in [Pages -> Nat]
  BY DEF Rules, Core, Typed, InUse
<1>2. ASSUME bad # {}
      PROVE  FALSE
  <2>1. PICK j \in bad : \A h \in bad : h <= j
    <3>1. bad \in SUBSET Nat /\ \A y \in bad : y <= lev[rt]
      OBVIOUS
    <3> HIDE DEF bad
    <3> QED
      BY <3>1, <1>1, <1>2, GreatestNumber
  <2>2. j \in Nat /\ j <= lev[rt] /\ ~Covered(j)
    OBVIOUS
  <2>3. j # lev[rt]
    BY <2>2, <1>1
  <2>4. j + 1 \in Nat /\ j + 1 <= lev[rt] /\ ~(j + 1 <= j)
    BY <2>2, <2>3, <1>1
  <2>5. Covered(j + 1)
    BY <2>1, <2>4
  <2>6. PICK q \in InUse(nd) : lev[q] = j + 1 /\ lo[q] <= x /\ x < top[q]
    BY <2>5
  <2>7. PICK n \in Nodes, a \in Nat, b \in Nat : n = nd[q] /\ a = lo[q] /\ b = top[q]
    BY PageFacts
  <2>8. InnerOK(n, a, b) /\ a < b
    <3>1. nd[q].kind # "leaf"
      <4>1. nd[q].kind = "leaf" => lev[q] = 0
        BY PageFacts
      <4> QED
        BY <4>1, <2>2, <2>6
    <3> QED
      BY <3>1, <2>7, PageFacts
  <2>9. PICK i : i = Place(n.entries, x) + 1
    OBVIOUS
  <2>10. i \in 1..Len(n.children) /\ LowOf(n, a, i) <= x /\ x < HighOf(n, b, i)
    BY <2>6, <2>7, <2>8, <2>9, ChildFor
  <2>11. i \in 1..Len(nd[q].children)
    BY <2>7, <2>10
  <2>12. /\ nd[q].children[i] \in InUse(nd) /\ lev[nd[q].children[i]] + 1 = lev[q]
         /\ lo[nd[q].children[i]] = LowOf(nd[q], lo[q], i)
         /\ top[nd[q].children[i]] = HighOf(nd[q], top[q], i)
    BY <2>11, ChildFacts
  <2>13. PICK r \in InUse(nd) : lev[r] + 1 = lev[q] /\ lo[r] <= x /\ x < top[r]
    BY <2>7, <2>10, <2>12
  <2>14. lev[r] = j
    <3>1. lev[r] \in Nat
      BY <1>1 DEF InUse
    <3> QED
      BY <3>1, <2>2, <2>6, <2>13
  <2> QED
    BY <2>2, <2>13, <2>14
<1> QED
  BY <1>2

\* Every page but the root has a parent.
LEMMA HasParent ==
    ASSUME NEW nd, NEW lo, NEW top, NEW lev, Core(nd, lo, top, top, lev),
           NEW rt, Rules(nd, rt, lo, top, lev), NEW r \in InUse(nd), lev[r] < lev[rt]
    PROVE  \E q \in InUse(nd) : \E i \in 1..Len(nd[q].children) :
              nd[q].children[i] = r /\ lev[q] = lev[r] + 1
<1>1. /\ rt \in InUse(nd) /\ lev[rt] \in Nat /\ lev \in [Pages -> Nat]
  BY DEF Rules, Core, Typed, InUse
<1>2. /\ lev[r] \in Nat /\ lo[r] \in Nat /\ lo[r] < top[r] /\ top[r] <= Top /\ top[r] \in Nat
  BY PageFacts
<1>3. PICK k \in Nat, x \in Nat : k = lev[r] + 1 /\ x = lo[r]
  BY <1>2
<1>4. k <= lev[rt] /\ x < Top
  BY <1>1, <1>2, <1>3, EntryBounds
<1>5. PICK q \in InUse(nd) : lev[q] = k /\ lo[q] <= x /\ x < top[q]
  BY <1>4, Cover
<1>6. PICK n \in Nodes, a \in Nat, b \in Nat : n = nd[q] /\ a = lo[q] /\ b = top[q]
  BY PageFacts
<1>7. InnerOK(n, a, b) /\ a < b
  <2>1. nd[q].kind # "leaf"
    <3>1. nd[q].kind = "leaf" => lev[q] = 0
      BY PageFacts
    <3> QED
      BY <3>1, <1>2, <1>3, <1>5
  <2> QED
    BY <2>1, <1>6, PageFacts
<1>8. PICK i : i = Place(n.entries, x) + 1
  OBVIOUS
<1>9. i \in 1..Len(n.children) /\ LowOf(n, a, i) <= x /\ x < HighOf(n, b, i)
  BY <1>5, <1>6, <1>7, <1>8, ChildFor
<1>10. i \in 1..Len(nd[q].children)
  BY <1>6, <1>9
<1>11. /\ nd[q].children[i] \in InUse(nd) /\ lev[nd[q].children[i]] + 1 = lev[q]
       /\ lo[nd[q].children[i]] = LowOf(nd[q], lo[q], i)
       /\ top[nd[q].children[i]] = HighOf(nd[q], top[q], i)
  BY <1>10, ChildFacts
<1>12. PICK c \in InUse(nd) : c = nd[q].children[i] /\ lev[c] + 1 = lev[q] /\ lo[c] <= x /\ x < top[c]
  BY <1>6, <1>9, <1>11
<1>13. lev[c] = lev[r]
  <2>1. lev[c] \in Nat
    BY <1>1 DEF InUse
  <2> QED
    BY <2>1, <1>2, <1>3, <1>5, <1>12
<1>14. c = r
  BY <1>2, <1>3, <1>12, <1>13, SamePage
<1> QED
  BY <1>3, <1>5, <1>10, <1>12, <1>14

\* What is below p is in its share.
LEMMA LevelsBelow ==
    ASSUME NEW lo, NEW top, NEW lev, Core(node, lo, top, top, lev), NEW p \in InUse(node),
           NEW d \in 0..MaxPage, NEW q \in Levels(p)[d]
    PROVE  /\ q \in InUse(node) /\ lev[q] + d = lev[p] /\ lo[p] <= lo[q] /\ top[q] <= top[p]
<1> DEFINE In(r, j) == /\ r \in InUse(node) /\ lev[r] + j = lev[p] /\ lo[p] <= lo[r] /\ top[r] <= top[p]
           bad == {j \in 0..MaxPage : \E r \in Levels(p)[j] : ~In(r, j)}
<1>0. MaxPage \in Nat
  BY SizeAssumption
<1>1. /\ \A r \in InUse(node) : lev[r] \in Nat /\ lo[r] \in Nat /\ top[r] \in Nat
  BY DEF Core, Typed, InUse
<1>2. ASSUME bad # {}
      PROVE  FALSE
  <2>1. PICK j \in bad : \A h \in bad : j <= h
    <3>1. bad \in SUBSET Nat
      BY <1>0
    <3> HIDE DEF bad
    <3> QED
      BY <3>1, <1>2, LeastNumber
  <2>2. j \in 0..MaxPage /\ j \in Nat
    BY <1>0
  <2>3. PICK r \in Levels(p)[j] : ~In(r, j)
    OBVIOUS
  <2>4. j # 0
    <3>1. ASSUME j = 0
          PROVE  FALSE
      <4>1. r = p
        BY <3>1, <2>3, LevelsOf
      <4>2. In(p, 0)
        BY <1>1
      <4> QED
        BY <4>1, <4>2, <3>1, <2>3
    <3> QED
      BY <3>1
  <2>5. j \in 1..MaxPage /\ j - 1 \in 0..MaxPage /\ ~(j <= j - 1)
    BY <2>2, <2>4, <1>0
  <2>6. Levels(p)[j] = UNION {Range(node[s].children) : s \in Levels(p)[j - 1]}
    BY <2>5, LevelsOf
  <2>7. PICK s \in Levels(p)[j - 1] : r \in Range(node[s].children)
    BY <2>3, <2>6
  <2>8. j - 1 \notin bad
    <3> HIDE DEF bad
    <3> QED
      BY <2>1, <2>5
  <2>9. In(s, j - 1)
    BY <2>5, <2>7, <2>8
  <2>10. node[s] \in Nodes
    BY <2>9, PageFacts
  <2>11. node[s].children \in Seq(Pages)
    BY <2>10, NodeFacts
  <2>12. PICK i \in 1..Len(node[s].children) : r = node[s].children[i]
    BY <2>7, <2>11, RangeOf
  <2>13. /\ r \in InUse(node) /\ lev[r] + 1 = lev[s] /\ lo[s] <= lo[r] /\ top[r] <= top[s]
    BY <2>9, <2>12, ChildFacts
  <2>14. In(r, j)
    <3>1. lev[r] + j = lev[p]
      <4>1. lev[s] + (j - 1) = lev[p] /\ lev[r] + 1 = lev[s]
        BY <2>9, <2>13
      <4>2. lev[s] \in Nat /\ lev[r] \in Nat /\ lev[p] \in Nat
        BY <2>9, <2>13, <1>1
      <4> HIDE DEF bad, In
      <4> QED
        BY <4>1, <4>2, <2>2, SMTT(30)
    <3>2. lo[p] <= lo[r] /\ top[r] <= top[p]
      BY <2>9, <2>13, <1>1, SMTT(30)
    <3> QED
      BY <3>1, <3>2, <2>13
  <2> QED
    BY <2>3, <2>14
<1>3. d \notin bad
  BY <1>2
<1> QED
  BY <1>3

\* The tree is not higher than it has pages.
LEMMA Height ==
    ASSUME NEW lo, NEW top, NEW lev, Core(node, lo, top, top, lev), Rules(node, root, lo, top, lev)
    PROVE  lev[root] \in Nat /\ lev[root] < MaxPage
<1>1. 0 \in Nat /\ 0 < Top /\ MaxPage \in Nat
  BY EntryBounds, SizeAssumption
<1>2. PICK st, f : st = Descent(0) /\ f = FindLeaf(0)
  OBVIOUS
<1>3. /\ Path(node, root, st, lev) /\ Len(st) \in 1..MaxPage /\ f = st[Len(st)]
      /\ f \in InUse(node) /\ node[f].kind = "leaf"
  BY <1>1, <1>2, DescentOf
<1>4. lev[f] = 0
  BY <1>3, PageFacts
<1>5. Len(st) \in Nat /\ Len(st) \in 1..Len(st)
  BY <1>1, <1>3
<1>6. lev[f] + Len(st) = lev[root] + 1
  BY <1>3, <1>5 DEF Path
<1>7. lev[root] \in Nat
  BY DEF Rules, Core, Typed, InUse
<1> QED
  BY <1>1, <1>3, <1>4, <1>5, <1>6, <1>7

\* The levels below the root have every page.
LEMMA LevelsWhole ==
    ASSUME NEW lo, NEW top, NEW lev, Core(node, lo, top, top, lev), Rules(node, root, lo, top, lev),
           NEW d \in Nat, d <= lev[root]
    PROVE  d \in 0..MaxPage /\ Levels(root)[d] = {q \in InUse(node) : lev[q] + d = lev[root]}
<1> DEFINE bad == {j \in Nat : j <= lev[root] /\ \E r \in InUse(node) : lev[r] + j = lev[root]
                                                                       /\ r \notin Levels(root)[j]}
<1>0. MaxPage \in Nat /\ lev[root] \in Nat /\ lev[root] < MaxPage /\ root \in InUse(node)
  BY SizeAssumption, Height DEF Rules
<1>1. \A r \in InUse(node) : lev[r] \in Nat /\ lev[r] <= lev[root]
  BY DEF Rules, Core, Typed, InUse
<1>2. ASSUME bad # {}
      PROVE  FALSE
  <2>1. PICK j \in bad : \A h \in bad : j <= h
    <3>1. bad \in SUBSET Nat
      OBVIOUS
    <3> HIDE DEF bad
    <3> QED
      BY <3>1, <1>2, LeastNumber
  <2>2. j \in Nat /\ j <= lev[root]
    OBVIOUS
  <2>3. PICK r \in InUse(node) : lev[r] + j = lev[root] /\ r \notin Levels(root)[j]
    OBVIOUS
  <2>4. j # 0
    <3>1. ASSUME j = 0
          PROVE  FALSE
      <4>1. lev[r] = lev[root]
        BY <3>1, <2>3, <1>0, <1>1
      <4>2. r = root
        <5>1. /\ lo[r] \in Nat /\ lo[r] < top[r] /\ top[r] <= Top /\ lo[root] = 0 /\ top[root] = Top
              /\ top[r] \in Nat
          BY PageFacts DEF Rules
        <5>2. PICK x \in Nat : x = lo[r]
          BY <5>1
        <5>3. lo[r] <= x /\ x < top[r] /\ lo[root] <= x /\ x < top[root]
          BY <5>1, <5>2, EntryBounds
        <5> QED
          BY <5>3, <4>1, <1>0, SamePage
      <4>3. Levels(root)[0] = {root}
        BY LevelsOf
      <4> QED
        BY <4>2, <4>3, <3>1, <2>3
    <3> QED
      BY <3>1
  <2>5. j \in 1..MaxPage /\ j - 1 \in Nat /\ j - 1 <= lev[root] /\ ~(j <= j - 1)
    BY <2>2, <2>4, <1>0
  <2>6. lev[r] < lev[root]
    <3> HIDE DEF bad
    <3> QED
      BY <2>2, <2>3, <2>4, <1>0, <1>1
  <2>14. PICK s \in InUse(node) : \E i \in 1..Len(node[s].children) :
            node[s].children[i] = r /\ lev[s] = lev[r] + 1
    BY <2>6, HasParent
  <2>7. PICK i \in 1..Len(node[s].children) : node[s].children[i] = r /\ lev[s] = lev[r] + 1
    BY <2>14
  <2>8. lev[s] + (j - 1) = lev[root]
    <3> HIDE DEF bad
    <3> QED
      BY <2>2, <2>3, <2>7, <1>0, <1>1
  <2>9. j - 1 \notin bad
    <3> HIDE DEF bad
    <3> QED
      BY <2>1, <2>5
  <2>10. s \in Levels(root)[j - 1]
    BY <2>5, <2>8, <2>9
  <2>11. Levels(root)[j] = UNION {Range(node[q].children) : q \in Levels(root)[j - 1]}
    BY <2>5, LevelsOf
  <2>12. node[s].children \in Seq(Pages)
    BY PageFacts, NodeFacts
  <2>13. r \in Range(node[s].children)
    BY <2>7, <2>12, RangeOf
  <2> QED
    BY <2>3, <2>10, <2>11, <2>13
<1>3. d \notin bad
  BY <1>2
<1>4. d \in 0..MaxPage
  BY <1>0
<1>5. \A q \in Levels(root)[d] : q \in InUse(node) /\ lev[q] + d = lev[root]
  BY <1>0, <1>4, LevelsBelow
<1> QED
  BY <1>3, <1>4, <1>5

LEMMA Whole ==
    ASSUME NEW lo, NEW top, NEW lev, Core(node, lo, top, top, lev), Rules(node, root, lo, top, lev)
    PROVE  Subtree(root) = InUse(node)
<1>0. MaxPage \in Nat /\ lev[root] \in Nat /\ lev[root] < MaxPage /\ root \in InUse(node)
  BY SizeAssumption, Height DEF Rules
<1>1. \A r \in InUse(node) : lev[r] \in Nat /\ lev[r] <= lev[root]
  BY DEF Rules, Core, Typed, InUse
<1>2. ASSUME NEW r \in Subtree(root)
      PROVE  r \in InUse(node)
  <2>1. PICK d \in 0..MaxPage : r \in Levels(root)[d]
    BY DEF Subtree
  <2> QED
    BY <2>1, <1>0, LevelsBelow
<1>3. ASSUME NEW r \in InUse(node)
      PROVE  r \in Subtree(root)
  <2>1. PICK d \in Nat : d = lev[root] - lev[r] /\ d <= lev[root] /\ lev[r] + d = lev[root]
    <3>1. lev[r] \in Nat /\ lev[r] <= lev[root]
      BY <1>1
    <3> QED
      BY <3>1, <1>0
  <2>2. d \in 0..MaxPage /\ Levels(root)[d] = {q \in InUse(node) : lev[q] + d = lev[root]}
    BY <2>1, LevelsWhole
  <2> QED
    BY <2>1, <2>2 DEF Subtree
<1> QED
  BY <1>2, <1>3

\* Every page is released.
LEMMA DropKeeps ==
    ASSUME IInv, Drop
    PROVE  IInv'
<1>1. /\ stack = <<>> /\ root # NoPage /\ root' = NoPage /\ rows' = {} /\ UNCHANGED call
      /\ node' = [p \in Pages |-> IF p \in Subtree(root) THEN FreePage ELSE node[p]]
  BY DEF Drop
<1>2. Vars /\ extra = NoPage
  BY <1>1, AtRest
<1>3. PICK lo \in [Pages -> Nat], top \in [Pages -> Nat], lev \in [Pages -> Nat] :
        Core(node, lo, top, top, lev) /\ Rules(node, root, lo, top, lev)
  BY <1>1, AtRest
<1>4. Subtree(root) = InUse(node)
  BY <1>3, Whole
<1>5. node' \in [Pages -> Nodes]
  BY <1>1, <1>2, FreeIn DEF Vars
<1>6. InUse(node') = {}
  BY <1>1, <1>4, FreeIn DEF InUse
<1>7. stack' = <<>> /\ extra' = NoPage /\ sep' = sep
  BY <1>1, <1>2 DEF call
<1>8. Vars'
  BY <1>1, <1>2, <1>5, <1>7, NoElements DEF Vars
<1> QED
  BY <1>1, <1>6, <1>7, <1>8 DEF IInv

\* Every step keeps the invariant.
LEMMA StepKeeps ==
    ASSUME IInv, Roomy, [Next]_vars
    PROVE  IInv'
<1>1. CASE Create
  BY <1>1, CreateKeeps
<1>2. CASE Drop
  BY <1>2, DropKeeps
<1>3. ASSUME NEW e \in Entries, Insert(e)
      PROVE  IInv'
  BY <1>3, InsertKeeps
<1>4. ASSUME NEW e \in Entries, Delete(e)
      PROVE  IInv'
  BY <1>4, DeleteKeeps
<1>5. CASE InsertInParent
  BY <1>5, InsertInParentKeeps
<1>6. CASE NewRoot
  BY <1>6, NewRootKeeps
<1>7. CASE Rebalance
  BY <1>7, RebalanceKeeps
<1>8. CASE Collapse
  BY <1>8, CollapseKeeps
<1>9. CASE UNCHANGED vars
  <2>1. UNCHANGED <<root, node, rows, stack, sep, extra>>
    BY <1>9 DEF vars
  <2>2. InUse(node') = InUse(node) /\ Content(node') = Content(node)
    BY <2>1
  <2>3. Fan(node', stack', extra') <=> Fan(node, stack, extra)
    BY <2>1
  <2>4. Tree(node', root', stack', sep', extra') <=> Tree(node, root, stack, sep, extra)
    BY <2>1
  <2>5. Vars'
    BY <2>1 DEF IInv, Vars
  <2> QED
    BY <2>1, <2>2, <2>3, <2>4, <2>5 DEF IInv
<1> QED
  BY <1>1, <1>2, <1>3, <1>4, <1>5, <1>6, <1>7, <1>8, <1>9 DEF Next

\* Every state between two returns of insert or delete (index.py:421-522) gives each page
\* an interval of keys and a level which its node, its parent and the chain of leaves
\* agree with; a split or a merge in progress is short of that at one page only.
THEOREM Reached ==
    ASSUME Roomy
    PROVE  Spec => []IInv
<1>1. Init => IInv
  BY InitKeeps
<1>2. IInv /\ [Next]_vars => IInv'
  BY StepKeeps
<1> QED
  BY <1>1, <1>2, PTL DEF Spec

\* The numbers of a state, whatever the call has left to do.
LEMMA Numbers ==
    ASSUME IInv, root # NoPage
    PROVE  /\ Vars
           /\ \E lo, top, reach, lev \in [Pages -> Nat] :
                /\ Core(node, lo, top, reach, lev) /\ Rules(node, root, lo, reach, lev)
                /\ Path(node, root, stack, lev)
                /\ extra = NoPage \/ extra \in InUse(node)
<1>1. PICK lo \in [Pages -> Nat], top \in [Pages -> Nat], reach \in [Pages -> Nat], lev \in [Pages -> Nat] :
        WellFormed(node, root, stack, sep, extra, lo, top, reach, lev)
  BY DEF IInv, Tree
<1>2. extra = NoPage \/ extra \in InUse(node)
  BY <1>1 DEF WellFormed, Waits
<1>3. /\ Core(node, lo, top, reach, lev) /\ Rules(node, root, lo, reach, lev)
      /\ Path(node, root, stack, lev)
  BY <1>1 DEF WellFormed
<1> QED
  BY <1>2, <1>3 DEF IInv

\* What a page refers to is in use.
LEMMA References ==
    ASSUME NEW lo, NEW top, NEW reach, NEW lev, Core(node, lo, top, reach, lev), NEW p \in InUse(node)
    PROVE  /\ Range(node[p].children) \subseteq InUse(node) /\ node[p].next \in InUse(node) \cup {NoPage}
           /\ Len(node[p].children) = IF IsLeaf(p) THEN 0 ELSE Len(node[p].entries) + 1
<1>1. /\ node[p] \in Nodes /\ node[p].kind \in {"leaf", "internal"}
      /\ node[p].kind = "leaf" => Len(node[p].children) = 0
      /\ node[p].kind = "internal" => InnerOK(node[p], lo[p], top[p])
      /\ ChildrenOK(node[p], lo[p], top[p], lev[p], InUse(node), lo, reach, lev)
  BY PageFacts
<1>2. Range(node[p].children) \subseteq InUse(node)
  <2>1. node[p].children \in Seq(Pages)
    BY <1>1, NodeFacts
  <2>2. Range(node[p].children) = {node[p].children[i] : i \in 1..Len(node[p].children)}
    BY <2>1, RangeOf
  <2> QED
    BY <2>2, <1>1 DEF ChildrenOK
<1>3. node[p].next \in InUse(node) \cup {NoPage}
  <2>1. CASE node[p].kind = "leaf"
    <3>1. Chained(node, lo, top)
      BY DEF Core
    <3> QED
      BY <2>1, <3>1 DEF Chained
  <2>2. CASE node[p].kind = "internal"
    BY <2>2, <1>1 DEF InnerOK
  <2> QED
    BY <2>1, <2>2, <1>1
<1>4. Len(node[p].children) = IF IsLeaf(p) THEN 0 ELSE Len(node[p].entries) + 1
  BY <1>1 DEF IsLeaf, InnerOK
<1> QED
  BY <1>2, <1>3, <1>4

LEMMA Types ==
    ASSUME IInv
    PROVE  TypeOK
<1>1. /\ node \in [Pages -> [kind : {"free", "leaf", "internal"}, entries : Seq(Entries),
                             children : Seq(Pages), next : Pages \cup {NoPage}]]
      /\ rows \subseteq Entries /\ sep \in Entries \cup {0} /\ stack \in Seq(Pages)
  BY DEF IInv, Vars, Nodes
<1>2. CASE root = NoPage
  <2>1. InUse(node) = {} /\ stack = <<>> /\ extra = NoPage
    BY <1>2 DEF IInv
  <2>2. Range(stack) = {}
    BY <2>1 DEF Range
  <2> QED
    BY <2>1, <2>2, <1>1, <1>2, UsedIs DEF TypeOK
<1>3. CASE root # NoPage
  <2>1. PICK lo \in [Pages -> Nat], top \in [Pages -> Nat], reach \in [Pages -> Nat], lev \in [Pages -> Nat] :
          /\ Core(node, lo, top, reach, lev) /\ Rules(node, root, lo, reach, lev)
          /\ Path(node, root, stack, lev)
          /\ extra = NoPage \/ extra \in InUse(node)
    BY <1>3, Numbers
  <2>2. root \in InUse(node)
    BY <2>1 DEF Rules
  <2>3. \A p \in InUse(node) :
          /\ Range(node[p].children) \subseteq InUse(node) /\ node[p].next \in InUse(node) \cup {NoPage}
          /\ Len(node[p].children) = IF IsLeaf(p) THEN 0 ELSE Len(node[p].entries) + 1
    BY <2>1, References
  <2>4. Range(stack) \subseteq InUse(node)
    <3>1. Range(stack) = {stack[i] : i \in 1..Len(stack)}
      BY <1>1, RangeOf
    <3> QED
      BY <3>1, <2>1 DEF Path
  <2> QED
    BY <2>1, <2>2, <2>3, <2>4, <1>1, UsedIs DEF TypeOK
<1> QED
  BY <1>2, <1>3

LEMMA BalancedThen ==
    ASSUME IInv
    PROVE  Balanced
<1>1. TypeOK
  BY Types
<1>2. root = NoPage => Used = {}
  BY UsedIs DEF IInv
<1>3. ASSUME stack = <<>>, root # NoPage
      PROVE  /\ Used = Subtree(root)
             /\ \E d \in 0..MaxPage : \A p \in Used : IsLeaf(p) <=> p \in Levels(root)[d]
             /\ \A p \in Used : ~IsLeaf(p) => node[p].entries # <<>>
             /\ \A p, q \in Used :
                   \A i \in 1..Len(node[p].children) : \A j \in 1..Len(node[q].children) :
                       node[p].children[i] = node[q].children[j] => p = q /\ i = j
  <2>1. PICK lo \in [Pages -> Nat], top \in [Pages -> Nat], lev \in [Pages -> Nat] :
          Core(node, lo, top, top, lev) /\ Rules(node, root, lo, top, lev)
    BY <1>3, AtRest
  <2>2. Used = Subtree(root)
    BY <2>1, Whole, UsedIs
  <2>3. \E d \in 0..MaxPage : \A p \in Used : IsLeaf(p) <=> p \in Levels(root)[d]
    <3>1. PICK d \in Nat : d = lev[root] /\ d <= lev[root]
      BY <2>1, Height
    <3>2. d \in 0..MaxPage /\ Levels(root)[d] = {q \in InUse(node) : lev[q] + d = lev[root]}
      BY <2>1, <3>1, LevelsWhole
    <3>3. ASSUME NEW p \in InUse(node)
          PROVE  IsLeaf(p) <=> p \in Levels(root)[d]
      <4>1. /\ lev[p] \in Nat /\ node[p].kind \in {"leaf", "internal"}
            /\ node[p].kind = "leaf" => lev[p] = 0
            /\ node[p].kind = "internal" => lev[p] > 0
        BY <2>1, PageFacts
      <4>2. IsLeaf(p) <=> lev[p] = 0
        BY <4>1 DEF IsLeaf
      <4>3. p \in Levels(root)[d] <=> lev[p] + d = d
        BY <3>1, <3>2
      <4>4. lev[p] + d = d <=> lev[p] = 0
        BY <4>1
      <4> QED
        BY <4>2, <4>3, <4>4
    <3> QED
      BY <3>2, <3>3, UsedIs
  <2>4. ASSUME NEW p \in Used, ~IsLeaf(p)
        PROVE  node[p].entries # <<>>
    <3>1. p \in InUse(node)
      BY UsedIs
    <3>2. node[p].kind = "internal"
      BY <2>1, <2>4, <3>1, PageFacts DEF IsLeaf
    <3>3. Len(stack) = 0
      BY <1>3, NoElements
    <3>4. Len(node[p].entries) # 0
      BY <1>3, <3>1, <3>2, <3>3, AtRest DEF Fan
    <3> QED
      BY <3>4, NoElements
  <2>5. ASSUME NEW p \in Used, NEW q \in Used,
               NEW i \in 1..Len(node[p].children), NEW j \in 1..Len(node[q].children),
               node[p].children[i] = node[q].children[j]
        PROVE  p = q /\ i = j
    <3>1. p \in InUse(node) /\ q \in InUse(node)
      BY UsedIs
    <3> QED
      BY <3>1, <2>1, <2>5, OneParent
  <2> QED
    BY <2>2, <2>3, <2>4, <2>5
<1> QED
  BY <1>1, <1>2, <1>3 DEF Balanced

\* What is below a page is of its share.
LEMMA BelowIn ==
    ASSUME NEW lo, NEW top, NEW lev, Core(node, lo, top, top, lev), NEW c \in InUse(node),
           NEW e \in Below(c)
    PROVE  e \in Nat /\ lo[c] <= e /\ e < top[c]
<1>1. PICK r \in Subtree(c) : IsLeaf(r) /\ e \in Range(node[r].entries)
  BY DEF Below
<1>2. PICK d \in 0..MaxPage : r \in Levels(c)[d]
  BY <1>1 DEF Subtree
<1>3. r \in InUse(node) /\ lo[c] <= lo[r] /\ top[r] <= top[c]
  BY <1>2, LevelsBelow
<1>4. /\ node[r] \in Nodes /\ lo[r] \in Nat /\ top[r] \in Nat /\ LeafOK(node[r], lo[r], top[r])
  BY <1>1, <1>3, PageFacts DEF IsLeaf
<1>5. node[r].entries \in Seq(Entries)
  BY <1>4, NodeFacts
<1>6. PICK i \in 1..Len(node[r].entries) : e = node[r].entries[i]
  BY <1>1, <1>5, RangeOf
<1>7. lo[r] <= e /\ e < top[r] /\ e \in Nat
  BY <1>4, <1>6, NodeFacts DEF LeafOK
<1>8. lo[c] \in Nat /\ top[c] \in Nat
  BY PageFacts
<1> QED
  BY <1>3, <1>4, <1>7, <1>8

LEMMA OrderedThen ==
    ASSUME IInv
    PROVE  Ordered
<1> SUFFICES ASSUME stack = <<>>, NEW p \in Used, ~IsLeaf(p), NEW i \in 1..Len(node[p].entries)
             PROVE  /\ \A e \in Below(node[p].children[i]) : e < node[p].entries[i]
                    /\ \A e \in Below(node[p].children[i + 1]) : node[p].entries[i] <= e
  BY DEF Ordered
<1>1. p \in InUse(node) /\ root # NoPage
  BY UsedIs DEF IInv
<1>2. PICK lo \in [Pages -> Nat], top \in [Pages -> Nat], lev \in [Pages -> Nat] :
        Core(node, lo, top, top, lev) /\ Rules(node, root, lo, top, lev)
  BY <1>1, AtRest
<1>3. node[p].kind = "internal" /\ InnerOK(node[p], lo[p], top[p]) /\ node[p] \in Nodes
  BY <1>1, <1>2, PageFacts DEF IsLeaf
<1>4. Len(node[p].children) = Len(node[p].entries) + 1 /\ Len(node[p].entries) \in Nat
  BY <1>3, NodeFacts DEF InnerOK
<1>5. /\ i \in 1..Len(node[p].children) /\ i + 1 \in 1..Len(node[p].children)
      /\ i # Len(node[p].children) /\ i + 1 # 1 /\ (i + 1) - 1 = i
  BY <1>4
<1>6. PICK c, d : c = node[p].children[i] /\ d = node[p].children[i + 1]
  OBVIOUS
<1>7. c \in InUse(node) /\ top[c] = node[p].entries[i]
  <2>1. c \in InUse(node) /\ top[c] = HighOf(node[p], top[p], i)
    BY <1>1, <1>2, <1>5, <1>6, ChildFacts
  <2> QED
    BY <2>1, <1>5 DEF HighOf
<1>8. d \in InUse(node) /\ lo[d] = node[p].entries[i]
  <2>1. PICK k : k = i + 1
    OBVIOUS
  <2>2. k \in 1..Len(node[p].children) /\ node[p].children[k] = d
    BY <2>1, <1>5, <1>6
  <2>3. d \in InUse(node) /\ lo[d] = LowOf(node[p], lo[p], k)
    BY <2>2, <1>1, <1>2, ChildFacts
  <2> QED
    BY <2>1, <2>3, <1>5 DEF LowOf
<1>9. \A e \in Below(c) : e < top[c]
  BY <1>2, <1>7, BelowIn
<1>10. \A e \in Below(d) : lo[d] <= e
  BY <1>2, <1>8, BelowIn
<1> QED
  BY <1>6, <1>7, <1>8, <1>9, <1>10

\* Pages hold whole nodes and the call in progress names pages of the tree.
THEOREM TypeCorrect ==
    ASSUME Roomy
    PROVE  Spec => []TypeOK
<1>1. Spec => []IInv
  BY Reached
<1>2. IInv => TypeOK
  BY Types
<1> QED
  BY <1>1, <1>2, PTL

\* Whatever insert and delete do, splits, borrowing and merges up to the root included,
\* every leaf is at the same depth, no inner node has a single child, no page is in the
\* tree twice and none in use is outside it, so that drop releases them all.
THEOREM BalancedHolds ==
    ASSUME Roomy
    PROVE  Spec => []Balanced
<1>1. Spec => []IInv
  BY Reached
<1>2. IInv => Balanced
  BY BalancedThen
<1> QED
  BY <1>1, <1>2, PTL

\* A separator has the entries on its left below it and those on its right not below it,
\* so that _find_leaf, which goes by separators alone, gets to the leaf of a key.
THEOREM OrderedHolds ==
    ASSUME Roomy
    PROVE  Spec => []Ordered
<1>1. Spec => []IInv
  BY Reached
<1>2. IInv => Ordered
  BY OrderedThen
<1> QED
  BY <1>1, <1>2, PTL

-----------------------------------------------------------------------------
(***************************************************************************)
(* The leaf chain.                                                          *)
(***************************************************************************)

\* The leaves w, from p on: each begins where the one before it ends.
Chain(w, p, lo, top) ==
    /\ w \in Seq(InUse(node)) /\ Len(w) \in 1..MaxPage /\ w[1] = p
    /\ \A i \in 1..Len(w) : w[i] \in InUse(node) /\ node[w[i]].kind = "leaf"
    /\ \A i \in 1..Len(w) - 1 : lo[w[i + 1]] = top[w[i]]
    /\ top[w[Len(w)]] = Top

LEMMA ChainOf ==
    ASSUME NEW lo, NEW top, NEW lev, Core(node, lo, top, top, lev),
           NEW p \in InUse(node), node[p].kind = "leaf"
    PROVE  Chain(LeafChain(p), p, lo, top)
<1> DEFINE next == [q \in Pages |-> node[q].next]
           S == {q \in InUse(node) : node[q].kind = "leaf"}
           left == [q \in Pages |-> IF lo[q] <= Top THEN Top - lo[q] ELSE 0]
<1>1. MaxPage \in Nat /\ NoPage \notin Pages /\ InUse(node) \subseteq Pages /\ S \subseteq InUse(node)
  BY SizeAssumption DEF InUse
<1>2. Top \in Nat /\ lo \in [Pages -> Nat] /\ top \in [Pages -> Nat]
  BY EntryBounds DEF Core, Typed
<1>3. left \in [Pages -> Nat] /\ \A q \in Pages : lo[q] <= Top => left[q] = Top - lo[q]
  BY <1>2
<1>4. LeafChain(p) = Follow(p, next) /\ \A q \in Pages : next[q] = node[q].next
  BY DEF LeafChain
<1> HIDE DEF next, left
<1>5. ASSUME NEW q \in S
      PROVE  /\ next[q] = NoPage => top[q] = Top
             /\ next[q] # NoPage => next[q] \in S /\ lo[next[q]] = top[q] /\ left[next[q]] < left[q]
  <2>1. q \in InUse(node) /\ node[q].kind = "leaf" /\ q \in Pages /\ next[q] = node[q].next
    BY <1>1, <1>4
  <2>2. Chained(node, lo, top)
    BY DEF Core
  <2>3. next[q] = NoPage => top[q] = Top
    BY <2>1, <2>2 DEF Chained
  <2>4. next[q] # NoPage => next[q] \in S /\ lo[next[q]] = top[q]
    BY <2>1, <2>2 DEF Chained
  <2>5. ASSUME next[q] # NoPage
        PROVE  left[next[q]] < left[q]
    <3>1. next[q] \in Pages /\ lo[next[q]] = top[q]
      BY <1>1, <2>4, <2>5
    <3>2. lo[q] < top[q] /\ top[q] <= Top /\ lo[q] \in Nat /\ top[q] \in Nat
      BY <2>1, PageFacts
    <3>3. left[q] = Top - lo[q] /\ left[next[q]] = Top - top[q]
      BY <1>2, <1>3, <2>1, <3>1, <3>2
    <3> QED
      BY <1>2, <3>2, <3>3
  <2> QED
    BY <2>3, <2>4, <2>5
<1>6. Downward(p, next, S, left)
  <2>1. S \in SUBSET Pages /\ p \in S
    BY <1>1
  <2> HIDE DEF S
  <2> QED
    BY <2>1, <1>3, <1>5 DEF Downward
<1>7. PICK w : w = Follow(p, next)
  OBVIOUS
<1>8. /\ w \in Seq(S) /\ Len(w) \in 1..MaxPage /\ w[1] = p
      /\ \A i \in 1..Len(w) - 1 : next[w[i]] # NoPage /\ w[i + 1] = next[w[i]]
      /\ next[w[Len(w)]] = NoPage
  BY <1>6, <1>7, FollowOf
<1>9. Len(w) \in Nat /\ Len(w) \in 1..Len(w) /\ \A i \in 1..Len(w) : w[i] \in S
  BY <1>1, <1>8, RangeOf
<1>10. \A i \in 1..Len(w) : w[i] \in InUse(node) /\ node[w[i]].kind = "leaf"
  BY <1>9
<1>11. w \in Seq(InUse(node))
  BY <1>1, <1>8, SeqMonotonic
<1> HIDE DEF S
<1>12. ASSUME NEW i \in 1..Len(w) - 1
       PROVE  lo[w[i + 1]] = top[w[i]]
  <2>1. i \in 1..Len(w)
    BY <1>9
  <2> QED
    BY <2>1, <1>5, <1>8, <1>9
<1>13. top[w[Len(w)]] = Top
  BY <1>5, <1>8, <1>9
<1> QED
  BY <1>4, <1>7, <1>8, <1>10, <1>11, <1>12, <1>13 DEF Chain

\* What is known of a leaf of the chain.
LEMMA OfChain ==
    ASSUME NEW lo, NEW top, NEW lev, Core(node, lo, top, top, lev),
           NEW p, NEW w, Chain(w, p, lo, top), NEW i \in 1..Len(w)
    PROVE  /\ w[i] \in InUse(node) /\ node[w[i]].kind = "leaf" /\ LeafOK(node[w[i]], lo[w[i]], top[w[i]])
           /\ lo[w[i]] \in Nat /\ top[w[i]] \in Nat /\ lo[w[i]] < top[w[i]]
           /\ node[w[i]].entries \in Seq(Entries) /\ Len(node[w[i]].entries) \in Nat
           /\ \A h \in 1..Len(node[w[i]].entries) :
                /\ node[w[i]].entries[h] \in Nat
                /\ lo[w[i]] <= node[w[i]].entries[h] /\ node[w[i]].entries[h] < top[w[i]]
<1>1. w[i] \in InUse(node) /\ node[w[i]].kind = "leaf"
  BY DEF Chain
<1>2. /\ LeafOK(node[w[i]], lo[w[i]], top[w[i]]) /\ node[w[i]] \in Nodes
      /\ lo[w[i]] \in Nat /\ top[w[i]] \in Nat /\ lo[w[i]] < top[w[i]]
  BY <1>1, PageFacts
<1> QED
  BY <1>1, <1>2, NodeFacts DEF LeafOK

\* Leaves further on come later.
LEMMA ChainAscends ==
    ASSUME NEW lo, NEW top, NEW lev, Core(node, lo, top, top, lev),
           NEW p, NEW w, Chain(w, p, lo, top),
           NEW i \in 1..Len(w), NEW j \in 1..Len(w), i < j
    PROVE  top[w[i]] <= lo[w[j]]
<1> DEFINE bad == {k \in i + 1..Len(w) : ~(top[w[i]] <= lo[w[k]])}
<1>1. Len(w) \in Nat /\ i \in Nat /\ j \in Nat
  BY SizeAssumption DEF Chain
<1>2. ASSUME bad # {}
      PROVE  FALSE
  <2>1. bad \in SUBSET Nat
    BY <1>1
  <2>2. PICK k \in bad : \A h \in bad : k <= h
    BY <1>2, <2>1, LeastNumber
  <2>3. k \in 1..Len(w) /\ k - 1 \in 1..Len(w) - 1 /\ k - 1 \in 1..Len(w) /\ (k - 1) + 1 = k /\ k \in Nat
    BY <1>1, <2>2
  <2>4. lo[w[k]] = top[w[k - 1]]
    <3>1. lo[w[(k - 1) + 1]] = top[w[k - 1]]
      BY <2>3 DEF Chain
    <3> QED
      BY <2>3, <3>1
  <2>5. top[w[i]] \in Nat
    BY OfChain
  <2>6. k - 1 # i
    BY <2>2, <2>4, <2>5
  <2>7. k - 1 \in i + 1..Len(w) /\ ~(k <= k - 1)
    BY <1>1, <2>2, <2>3, <2>6
  <2>8. top[w[i]] <= lo[w[k - 1]]
    BY <2>2, <2>7
  <2>9. lo[w[k - 1]] < top[w[k - 1]] /\ lo[w[k - 1]] \in Nat /\ top[w[k - 1]] \in Nat
    BY <2>3, OfChain
  <2> QED
    BY <2>2, <2>4, <2>5, <2>8, <2>9
<1>3. j \in i + 1..Len(w)
  BY <1>1
<1> QED
  BY <1>2, <1>3

\* One of them has the share a number is in.
LEMMA ChainCovers ==
    ASSUME NEW lo, NEW top, NEW lev, Core(node, lo, top, top, lev),
           NEW p, NEW w, Chain(w, p, lo, top), NEW x \in Nat, lo[p] <= x, x < Top
    PROVE  \E i \in 1..Len(w) : lo[w[i]] <= x /\ x < top[w[i]]
<1> DEFINE K == {i \in 1..Len(w) : lo[w[i]] <= x}
<1>1. Len(w) \in Nat /\ 1 \in 1..Len(w) /\ w[1] = p
  BY SizeAssumption DEF Chain
<1>2. K \in SUBSET Nat /\ 1 \in K /\ \A i \in K : i <= Len(w)
  BY <1>1
<1>3. PICK i \in K : \A j \in K : j <= i
  BY <1>1, <1>2, GreatestNumber
<1>4. i \in 1..Len(w) /\ lo[w[i]] <= x /\ i \in Nat
  BY <1>1
<1>5. CASE i = Len(w)
  BY <1>4, <1>5 DEF Chain
<1>6. CASE i # Len(w)
  <2>1. i \in 1..Len(w) - 1 /\ i + 1 \in 1..Len(w) /\ ~(i + 1 <= i)
    BY <1>1, <1>4, <1>6
  <2>2. ~(lo[w[i + 1]] <= x)
    BY <1>3, <2>1
  <2>3. lo[w[i + 1]] = top[w[i]]
    BY <2>1 DEF Chain
  <2>4. top[w[i]] \in Nat
    BY <1>4, OfChain
  <2> QED
    BY <1>4, <2>2, <2>3, <2>4
<1> QED
  BY <1>5, <1>6

\* An entry of the tree from p's share on is in one of them.
LEMMA OnChain ==
    ASSUME NEW lo, NEW top, NEW lev, Core(node, lo, top, top, lev),
           NEW p, NEW w, Chain(w, p, lo, top), NEW e \in Content(node), lo[p] <= e
    PROVE  \E i \in 1..Len(w) : \E h \in 1..Len(node[w[i]].entries) : node[w[i]].entries[h] = e
<1>1. PICK q \in Pages : node[q].kind = "leaf" /\ e \in Held(node[q])
  BY DEF Content, LeafHeld
<1>2. q \in InUse(node)
  BY <1>1 DEF InUse
<1>3. node[q] \in Nodes
  BY <1>2, PageFacts
<1>4. e \in Entries /\ e \in Nat /\ e < Top
  BY <1>1, <1>3, NodeFacts, EntryBounds DEF Held
<1>5. PICK i \in 1..Len(w) : lo[w[i]] <= e /\ e < top[w[i]]
  BY <1>4, ChainCovers
<1>6. w[i] \in InUse(node) /\ node[w[i]].kind = "leaf"
  BY OfChain
<1>7. q = w[i]
  BY <1>1, <1>2, <1>4, <1>5, <1>6, OnlyThere
<1> QED
  BY <1>1, <1>7 DEF Held

\* And nothing else is.
LEMMA ChainHolds ==
    ASSUME NEW lo, NEW top, NEW lev, Core(node, lo, top, top, lev),
           NEW p, NEW w, Chain(w, p, lo, top),
           NEW i \in 1..Len(w), NEW h \in 1..Len(node[w[i]].entries)
    PROVE  node[w[i]].entries[h] \in Content(node)
<1>1. w[i] \in Pages /\ node[w[i]].kind = "leaf"
  BY OfChain DEF InUse
<1>2. node[w[i]].entries[h] \in Held(node[w[i]])
  BY DEF Held
<1> QED
  BY <1>1, <1>2 DEF Content, LeafHeld

\* Entries further on are larger.
LEMMA ChainSorted ==
    ASSUME NEW lo, NEW top, NEW lev, Core(node, lo, top, top, lev),
           NEW p, NEW w, Chain(w, p, lo, top),
           NEW i \in 1..Len(w), NEW j \in 1..Len(w),
           NEW g \in 1..Len(node[w[i]].entries), NEW h \in 1..Len(node[w[j]].entries),
           i < j \/ (i = j /\ g < h)
    PROVE  node[w[i]].entries[g] < node[w[j]].entries[h]
<1>1. /\ node[w[i]].entries[g] \in Nat /\ node[w[i]].entries[g] < top[w[i]] /\ top[w[i]] \in Nat
      /\ LeafOK(node[w[i]], lo[w[i]], top[w[i]])
  BY OfChain
<1>2. node[w[j]].entries[h] \in Nat /\ lo[w[j]] <= node[w[j]].entries[h] /\ lo[w[j]] \in Nat
  BY OfChain
<1>3. CASE i < j
  <2>1. top[w[i]] <= lo[w[j]]
    BY <1>3, ChainAscends
  <2>2. PICK x \in Nat, y \in Nat, t \in Nat, l \in Nat :
          /\ x = node[w[i]].entries[g] /\ y = node[w[j]].entries[h]
          /\ t = top[w[i]] /\ l = lo[w[j]]
    BY <1>1, <1>2
  <2>3. x < t /\ t <= l /\ l <= y
    BY <1>1, <1>2, <2>1, <2>2
  <2>4. x < y
    BY <2>3
  <2> QED
    BY <2>2, <2>4, Zenon
<1>4. CASE i = j /\ g < h
  BY <1>1, <1>4 DEF LeafOK, Ascending
<1> QED
  BY <1>3, <1>4

\* scan_all begins in the leaf whose share begins at nothing.
LEMMA LeftmostOf ==
    ASSUME NEW lo, NEW top, NEW lev, Core(node, lo, top, top, lev), Rules(node, root, lo, top, lev)
    PROVE  LeftmostLeaf \in InUse(node) /\ node[LeftmostLeaf].kind = "leaf" /\ lo[LeftmostLeaf] = 0
<1> DEFINE next == [p \in Pages |-> IF node[p].kind = "internal" THEN node[p].children[1] ELSE NoPage]
           S == {q \in InUse(node) : lo[q] = 0}
<1>1. MaxPage \in Nat /\ NoPage \notin Pages /\ InUse(node) \subseteq Pages /\ S \subseteq InUse(node)
  BY SizeAssumption DEF InUse
<1>2. root \in S /\ lev \in [Pages -> Nat]
  BY DEF Rules, Core, Typed
<1>3. LeftmostLeaf = Last(Follow(root, next))
  BY DEF LeftmostLeaf
<1>4. \A q \in Pages : next[q] = IF node[q].kind = "internal" THEN node[q].children[1] ELSE NoPage
  OBVIOUS
<1> HIDE DEF next
<1>5. ASSUME NEW q \in S, node[q].kind = "internal"
      PROVE  next[q] \in S /\ next[q] # NoPage /\ lev[next[q]] < lev[q]
  <2>1. q \in InUse(node) /\ q \in Pages /\ lo[q] = 0
    BY <1>1
  <2>2. InnerOK(node[q], lo[q], top[q]) /\ node[q] \in Nodes
    BY <1>5, <2>1, PageFacts
  <2>3. 1 \in 1..Len(node[q].children)
    BY <2>2, NodeFacts DEF InnerOK
  <2>4. next[q] = node[q].children[1]
    BY <1>4, <1>5, <2>1
  <2>5. /\ node[q].children[1] \in InUse(node) /\ lev[node[q].children[1]] + 1 = lev[q]
        /\ lo[node[q].children[1]] = LowOf(node[q], lo[q], 1)
    BY <2>1, <2>3, ChildFacts
  <2>6. next[q] \in InUse(node) /\ lo[next[q]] = 0 /\ lev[next[q]] + 1 = lev[q]
    BY <2>1, <2>4, <2>5 DEF LowOf
  <2>7. next[q] \in Pages /\ lev[next[q]] \in Nat /\ lev[q] \in Nat
    BY <1>1, <1>2, <2>1, <2>6
  <2> QED
    BY <1>1, <2>6, <2>7
<1>6. \A q \in S : node[q].kind # "internal" => next[q] = NoPage
  BY <1>1, <1>4
<1>7. Downward(root, next, S, lev)
  <2>1. S \in SUBSET Pages
    BY <1>1
  <2> HIDE DEF S
  <2> QED
    BY <2>1, <1>2, <1>5, <1>6 DEF Downward
<1>8. PICK w : w = Follow(root, next)
  OBVIOUS
<1>9. w \in Seq(S) /\ Len(w) \in 1..MaxPage /\ next[w[Len(w)]] = NoPage
  BY <1>7, <1>8, FollowOf
<1>10. Len(w) \in 1..Len(w) /\ w[Len(w)] \in S
  BY <1>1, <1>9, RangeOf
<1>11. node[w[Len(w)]].kind # "internal"
  BY <1>5, <1>9, <1>10
<1>12. node[w[Len(w)]].kind \in {"leaf", "internal"}
  BY <1>1, <1>10, PageFacts
<1>13. LeftmostLeaf = w[Len(w)]
  BY <1>3, <1>8 DEF Last
<1> QED
  BY <1>10, <1>11, <1>12, <1>13

\* The leaves of the chain up to entry e, which is not above high, have nothing above it.
LEMMA Passed ==
    ASSUME NEW lo, NEW top, NEW lev, Core(node, lo, top, top, lev),
           NEW p, NEW w, Chain(w, p, lo, top), NEW high \in Nat,
           NEW i \in 1..Len(w), NEW j \in 1..Len(node[w[i]].entries), node[w[i]].entries[j] <= high
    PROVE  \A g \in 1..i : \A h \in 1..Len(node[w[g]].entries) :
              (g < i \/ h <= j) => node[w[g]].entries[h] <= high
<1>1. Len(w) \in Nat /\ i \in Nat
  BY SizeAssumption DEF Chain
<1> SUFFICES ASSUME NEW g \in 1..i, NEW h \in 1..Len(node[w[g]].entries), g < i \/ h <= j
             PROVE  node[w[g]].entries[h] <= high
  OBVIOUS
<1>2. g \in 1..Len(w)
  BY <1>1
<1>3. node[w[g]].entries[h] \in Nat /\ Len(node[w[g]].entries) \in Nat
  BY <1>2, OfChain
<1>4. node[w[i]].entries[j] \in Nat /\ Len(node[w[i]].entries) \in Nat
  BY OfChain
<1>5. (g < i \/ (g = i /\ h < j)) \/ (g = i /\ h = j)
  BY <1>1, <1>3, <1>4
<1>6. CASE g < i \/ (g = i /\ h < j)
  <2>1. node[w[g]].entries[h] < node[w[i]].entries[j]
    BY <1>2, <1>6, ChainSorted
  <2>2. PICK x \in Nat, y \in Nat : x = node[w[g]].entries[h] /\ y = node[w[i]].entries[j]
    BY <1>3, <1>4
  <2>3. x < y /\ y <= high
    BY <2>1, <2>2
  <2>4. x <= high
    BY <2>3
  <2> QED
    BY <2>2, <2>4, Zenon
<1>7. CASE g = i /\ h = j
  BY <1>7
<1> QED
  BY <1>5, <1>6, <1>7

\* lookup finds the entries of the tree between low and high.
LEMMA BetweenOf ==
    ASSUME NEW lo, NEW top, NEW lev, Core(node, lo, top, top, lev), Rules(node, root, lo, top, lev),
           NEW low \in Nat, NEW high \in Nat, low < Top, NEW e \in low..high
    PROVE  e \in Between(low, high) <=> e \in Content(node)
<1> DEFINE passed(w, i, j) == \A g \in 1..i : \A h \in 1..Len(node[w[g]].entries) :
                                 (g < i \/ h <= j) => node[w[g]].entries[h] <= high
           Found(w) == \E i \in 1..Len(w) : \E j \in 1..Len(node[w[i]].entries) :
                          node[w[i]].entries[j] = e /\ passed(w, i, j)
<1>1. PICK p : p = FindLeaf(low)
  OBVIOUS
<1>2. /\ p \in InUse(node) /\ node[p].kind = "leaf" /\ lo[p] <= low
  BY <1>1, DescentOf
<1>3. PICK w : w = LeafChain(p)
  OBVIOUS
<1>4. Chain(w, p, lo, top)
  BY <1>2, <1>3, ChainOf
<1>5. e \in Between(low, high) <=> Found(w)
  BY <1>1, <1>3 DEF Between
<1>6. ASSUME Found(w)
      PROVE  e \in Content(node)
  <2>1. PICK i \in 1..Len(w) : \E j \in 1..Len(node[w[i]].entries) : node[w[i]].entries[j] = e
    BY <1>6
  <2>2. PICK j \in 1..Len(node[w[i]].entries) : node[w[i]].entries[j] = e
    BY <2>1
  <2> HIDE DEF Found
  <2> QED
    BY <2>2, <1>4, ChainHolds
<1>7. ASSUME e \in Content(node)
      PROVE  Found(w)
  <2>1. lo[p] <= e /\ e <= high
    <3>1. lo[p] \in Nat
      BY <1>2, PageFacts
    <3> QED
      BY <3>1, <1>2
  <2>2. PICK i \in 1..Len(w) : \E h \in 1..Len(node[w[i]].entries) : node[w[i]].entries[h] = e
    BY <2>1, <1>4, <1>7, OnChain
  <2>3. PICK j \in 1..Len(node[w[i]].entries) : node[w[i]].entries[j] = e
    BY <2>2
  <2>4. node[w[i]].entries[j] <= high
    BY <2>1, <2>3
  <2>5. passed(w, i, j)
    BY <2>4, <1>4, Passed
  <2> HIDE DEF passed
  <2> QED
    BY <2>3, <2>5
<1> QED
  BY <1>5, <1>6, <1>7

LEMMA KeptThen ==
    ASSUME IInv
    PROVE  EntriesKept
<1>1. CASE stack # <<>>
  BY <1>1 DEF EntriesKept
<1>2. CASE root = NoPage
  BY <1>2 DEF EntriesKept, IInv
<1>3. CASE stack = <<>> /\ root # NoPage
  <2>1. PICK lo \in [Pages -> Nat], top \in [Pages -> Nat], lev \in [Pages -> Nat] :
          Core(node, lo, top, top, lev) /\ Rules(node, root, lo, top, lev)
    BY <1>3, AtRest
  <2>2. rows = Content(node)
    BY <1>3, AtRest
  <2>3. PICK p : p = LeftmostLeaf
    OBVIOUS
  <2>4. p \in InUse(node) /\ node[p].kind = "leaf" /\ lo[p] = 0
    BY <2>1, <2>3, LeftmostOf
  <2>5. PICK w : w = LeafChain(p)
    OBVIOUS
  <2>6. Chain(w, p, lo, top)
    BY <2>1, <2>4, <2>5, ChainOf
  <2>7. UNION {Range(node[w[i]].entries) : i \in 1..Len(w)} = rows
    <3>1. ASSUME NEW i \in 1..Len(w)
          PROVE  Range(node[w[i]].entries) = {node[w[i]].entries[h] : h \in 1..Len(node[w[i]].entries)}
      <4>1. node[w[i]].entries \in Seq(Entries)
        BY <2>1, <2>6, OfChain
      <4> QED
        BY <4>1, RangeOf
    <3>2. ASSUME NEW i \in 1..Len(w), NEW h \in 1..Len(node[w[i]].entries)
          PROVE  node[w[i]].entries[h] \in rows
      BY <2>1, <2>2, <2>6, ChainHolds
    <3>3. ASSUME NEW e \in rows
          PROVE  \E i \in 1..Len(w) : e \in Range(node[w[i]].entries)
      <4>1. e \in Nat
        BY EntryBounds DEF IInv, Vars
      <4>2. lo[p] <= e
        BY <4>1, <2>4
      <4>3. \E i \in 1..Len(w) : \E h \in 1..Len(node[w[i]].entries) : node[w[i]].entries[h] = e
        BY <2>1, <2>2, <2>6, <4>2, OnChain
      <4> QED
        BY <4>3, <3>1
    <3>4. ASSUME NEW e
          PROVE  e \in rows <=> \E i \in 1..Len(w) : e \in Range(node[w[i]].entries)
      <4>1. ASSUME NEW i \in 1..Len(w), e \in Range(node[w[i]].entries)
            PROVE  e \in rows
        <5>1. e \in {node[w[i]].entries[h] : h \in 1..Len(node[w[i]].entries)}
          BY <4>1, <3>1
        <5>2. PICK h \in 1..Len(node[w[i]].entries) : e = node[w[i]].entries[h]
          BY <5>1
        <5> QED
          BY <5>2, <3>2
      <4> QED
        BY <4>1, <3>3
    <3> QED
      BY <3>4
  <2>8. \A i, j \in 1..Len(w) :
           \A g \in 1..Len(node[w[i]].entries) : \A h \in 1..Len(node[w[j]].entries) :
               i < j \/ (i = j /\ g < h) => node[w[i]].entries[g] < node[w[j]].entries[h]
    BY <2>1, <2>6, ChainSorted
  <2>9. ASSUME NEW k \in 1..MaxKey
        PROVE  Lookup(k) = {r \in 0..Rids - 1 : Entry(k, r) \in rows}
    <3>1. PICK low, high : low = Entry(k, 0) /\ high = Entry(k, Rids - 1)
      OBVIOUS
    <3>2. 0 \in 0..Rids - 1
      BY SizeAssumption
    <3>3. low \in Nat /\ low < Top /\ high \in Nat
      BY <3>1, <3>2, KeyEntries, EntryBounds
    <3>4. ASSUME NEW r \in 0..Rids - 1
          PROVE  Entry(k, r) \in Between(low, high) <=> Entry(k, r) \in rows
      <4>1. Entry(k, r) \in Nat /\ low <= Entry(k, r) /\ Entry(k, r) <= high
        BY <3>1, KeyEntries, EntryBounds
      <4>2. Entry(k, r) \in low..high
        BY <3>3, <4>1
      <4> QED
        BY <2>1, <2>2, <3>3, <4>2, BetweenOf
    <3>5. Lookup(k) = {r \in 0..Rids - 1 : Entry(k, r) \in Between(low, high)}
      BY <3>1 DEF Lookup
    <3> QED
      BY <3>4, <3>5
  <2> QED
    BY <1>3, <2>3, <2>5, <2>7, <2>8, <2>9 DEF EntriesKept
<1> QED
  BY <1>1, <1>2, <1>3

\* The index answers as the rows it was given would: scan_all walks the chain of leaves
\* over exactly the entries inserted and not deleted, in order, and lookup, which starts
\* where _find_leaf gets to, finds the record ids of its key.
THEOREM EntriesKeptHolds ==
    ASSUME Roomy
    PROVE  Spec => []EntriesKept
<1>1. Spec => []IInv
  BY Reached
<1>2. IInv => EntriesKept
  BY KeptThen
<1> QED
  BY <1>1, <1>2, PTL

-----------------------------------------------------------------------------
(***************************************************************************)
(* Every node fits its page, but for what a merge of two inner nodes makes. *)
(***************************************************************************)

AllFit(nd) == \A p \in Pages : Fits(nd[p])

LEMMA FitsBy ==
    ASSUME NEW n \in Nodes, NEW k \in Nat, NEW c \in Nat,
           Len(n.entries) <= k, Len(n.children) <= c, Weight(k, c) <= MaxBody
    PROVE  Fits(n)
<1>1. PICK x \in Nat, y \in Nat : x = Len(n.entries) /\ y = Len(n.children)
  BY NodeFacts
<1>2. x <= k /\ y <= c
  BY <1>1
<1>3. Weight(x, y) \in Nat /\ Weight(k, c) \in Nat /\ Weight(x, y) <= Weight(k, c)
  BY <1>2, WeightUp
<1>4. BodySize(n) = Weight(x, y)
  BY <1>1, SizeOf
<1>5. Weight(x, y) <= MaxBody
  BY <1>3, SizeAssumption
<1> QED
  BY <1>4, <1>5 DEF Fits

LEMMA FitsThen ==
    ASSUME NEW n \in Nodes, Fits(n)
    PROVE  Weight(Len(n.entries), Len(n.children)) <= MaxBody
  BY SizeOf DEF Fits

\* A node with at most what a node that fits has.
LEMMA FitsLess ==
    ASSUME NEW n \in Nodes, Fits(n), NEW m \in Nodes,
           Len(m.entries) <= Len(n.entries), Len(m.children) <= Len(n.children)
    PROVE  Fits(m)
<1>1. PICK k \in Nat, c \in Nat : k = Len(n.entries) /\ c = Len(n.children)
  BY NodeFacts
<1>2. Weight(k, c) <= MaxBody
  BY <1>1, FitsThen
<1>3. Len(m.entries) <= k /\ Len(m.children) <= c
  BY <1>1
<1> QED
  BY <1>2, <1>3, FitsBy

LEMMA EmptyFits ==
    ASSUME NEW n \in Nodes, n.entries = <<>>, n.children = <<>>
    PROVE  Fits(n)
<1>1. Len(n.entries) = 0 /\ Len(n.children) = 0
  BY NoElements
<1>2. Weight(0, 0) <= MaxBody
  BY SizeAssumption DEF Weight
<1>3. Len(n.entries) <= 0 /\ Len(n.children) <= 0
  BY <1>1
<1> QED
  BY <1>2, <1>3, FitsBy

\* An entry from the one, and the other below the threshold.
LEMMA GaveFits ==
    ASSUME Roomy, NEW n \in Nodes, NEW m \in Nodes, NEW n2 \in Nodes, NEW m2 \in Nodes,
           Gave(n, m, n2, m2), Fits(n), BodySize(m) < MinBody
    PROVE  Fits(n2) /\ Fits(m2)
<1>1. PICK k \in Nat, c \in Nat, k2 \in Nat, c2 \in Nat :
        k = Len(n.entries) /\ c = Len(n.children) /\ k2 = Len(n2.entries) /\ c2 = Len(n2.children)
  BY NodeFacts
<1>2. PICK x \in Nat, y \in Nat : x = Len(m.entries) /\ y = Len(m.children)
  BY NodeFacts
<1>3. k2 = k - 1 /\ c2 <= c /\ Len(m2.entries) = x + 1 /\ Len(m2.children) <= y + 1
  BY <1>1, <1>2 DEF Gave
<1>4. k2 <= k /\ c2 <= c
  BY <1>3
<1>5. Fits(n2)
  BY <1>1, <1>4, FitsLess
<1>6. Weight(x, y) < MinBody
  BY <1>2, SizeOf
<1>7. Weight(x + 1, y + 1) <= MaxBody
  <2>1. Weight(x + 1, y + 1) = Weight(x, y) + EntrySize + ChildSize
    BY SizeAssumption DEF Weight
  <2>2. EntrySize + 2 * ChildSize <= MinBody /\ 2 * MinBody <= MaxBody /\ MinBody \in Nat
    BY WeightBounds, HalfPage
  <2>3. Weight(x, y) \in Nat
    BY WeightUp
  <2> QED
    BY <2>1, <2>2, <2>3, <1>6, SizeAssumption
<1>8. Len(m2.entries) <= x + 1 /\ Len(m2.children) <= y + 1 /\ x + 1 \in Nat /\ y + 1 \in Nat
  BY <1>3
<1>9. Fits(m2)
  BY <1>7, <1>8, FitsBy
<1> QED
  BY <1>5, <1>9

\* Both become one, which fits unless it has taken a separator in.
LEMMA MergedFits ==
    ASSUME NEW lo, NEW top, NEW lev, NEW p, NEW l, NEW left, NEW right, NEW a, NEW b,
           Pair(lo, top, lev, p, l, left, right, a, b), NEW g, Merged(g, lo, top, lev, left, right, a, b),
           \/ BodySize(a) < MinBody /\ BodySize(b) <= MinBody
           \/ BodySize(b) < MinBody /\ BodySize(a) <= MinBody
    PROVE  Fits(g) \/ (a.kind = "internal" /\ BodySize(g) < MaxBody + EntrySize)
<1>1. /\ a \in Nodes /\ b \in Nodes /\ a.kind = b.kind /\ a.kind \in {"leaf", "internal"}
      /\ a.kind = "leaf" => LeafOK(a, lo[left], top[left]) /\ LeafOK(b, top[left], top[right])
      /\ a.kind = "internal" => InnerOK(a, lo[left], top[left]) /\ InnerOK(b, top[left], top[right])
  BY PairFacts
<1>2. PICK x \in Nat, y \in Nat : x = Len(a.entries) /\ y = Len(b.entries)
  BY <1>1, NodeFacts
<1>3. g \in Nodes
  BY DEF Merged
<1>4. /\ BodySize(a) = Weight(x, Len(a.children)) /\ BodySize(b) = Weight(y, Len(b.children))
      /\ MinBody \in Nat /\ 2 * MinBody <= MaxBody
  BY <1>1, <1>2, SizeOf, HalfPage
<1>5. CASE a.kind = "leaf"
  <2>1. Len(a.children) = 0 /\ Len(b.children) = 0 /\ Len(g.children) = 0 /\ Len(g.entries) = x + y
    BY <1>1, <1>2, <1>5, NoElements DEF Merged, LeafOK, AsOne
  <2>2. BodySize(a) = Weight(x, 0) /\ BodySize(b) = Weight(y, 0)
    BY <2>1, <1>4
  <2>3. Weight(x + y, 0) = Weight(x, 0) + Weight(y, 0)
    BY SizeAssumption DEF Weight
  <2>4. Weight(x, 0) \in Nat /\ Weight(y, 0) \in Nat
    BY SizeAssumption DEF Weight
  <2>5. Weight(x + y, 0) <= MaxBody
    BY <2>2, <2>3, <2>4, <1>4, SizeAssumption
  <2>6. Len(g.entries) <= x + y /\ Len(g.children) <= 0 /\ x + y \in Nat
    BY <2>1
  <2> QED
    BY <2>5, <2>6, <1>3, FitsBy
<1>6. CASE a.kind = "internal"
  <2>1. Len(a.children) = x + 1 /\ Len(b.children) = y + 1
    BY <1>1, <1>2, <1>6 DEF InnerOK
  <2>2. BodySize(a) = Weight(x, x + 1) /\ BodySize(b) = Weight(y, y + 1)
    BY <2>1, <1>4
  <2>3. Len(g.entries) = x + y + 1 /\ Len(g.children) = Len(a.children) + Len(b.children)
    BY <1>2, <1>6 DEF Merged, AsOne, Around
  <2>4. Len(g.children) = x + y + 2
    BY <2>1, <2>3
  <2>5. Weight(x + y + 1, x + y + 2) = Weight(x, x + 1) + Weight(y, y + 1) + EntrySize
    BY SizeAssumption DEF Weight
  <2>6. /\ Weight(x, x + 1) \in Nat /\ Weight(y, y + 1) \in Nat
        /\ Weight(x, x + 1) + Weight(y, y + 1) < MaxBody
    <3>1. PICK x1 \in Nat, y1 \in Nat : x1 = x + 1 /\ y1 = y + 1
      OBVIOUS
    <3>2. Weight(x, x1) \in Nat /\ Weight(y, y1) \in Nat
      <4>1. x <= x /\ x1 <= x1 /\ y <= y /\ y1 <= y1
        OBVIOUS
      <4> QED
        BY <4>1, WeightUp
    <3>3. Weight(x, x + 1) \in Nat /\ Weight(y, y + 1) \in Nat
      BY <3>1, <3>2
    <3> QED
      BY <3>3, <2>2, <1>4, SizeAssumption
  <2>7. BodySize(g) = Weight(x + y + 1, x + y + 2)
    <3>1. BodySize(g) = Weight(Len(g.entries), Len(g.children))
      BY <1>3, SizeOf
    <3> QED
      BY <3>1, <2>3, <2>4
  <2>8. BodySize(g) < MaxBody + EntrySize
    BY <2>5, <2>6, <2>7, SizeAssumption
  <2> QED
    BY <2>8, <1>6
<1> QED
  BY <1>1, <1>5, <1>6

\* The actions that take nothing in.
LEMMA InitFits == Init => AllFit(node)
<1> SUFFICES ASSUME Init, NEW p \in Pages
             PROVE  Fits(node[p])
  BY DEF AllFit
<1>1. node[p] = FreePage /\ FreePage \in Nodes /\ FreePage.entries = <<>> /\ FreePage.children = <<>>
  BY FreeIn DEF Init, FreePage
<1> QED
  BY <1>1, EmptyFits

LEMMA FreeFits == Fits(FreePage)
<1>1. FreePage \in Nodes /\ FreePage.entries = <<>> /\ FreePage.children = <<>>
  BY FreeIn DEF FreePage
<1> QED
  BY <1>1, EmptyFits

LEMMA CreateFits ==
    ASSUME IInv, AllFit(node), Create
    PROVE  AllFit(node')
<1>1. node \in [Pages -> Nodes]
  BY DEF IInv, Vars
<1>2. PICK n : n = Leaf(<<>>, NoPage)
  OBVIOUS
<1>3. node' = [node EXCEPT ![root'] = n]
  BY <1>2 DEF Create
<1>4. Fits(n)
  <2>1. n \in Nodes /\ n.entries = <<>> /\ n.children = <<>>
    BY <1>2, NoElements, LeafIn
  <2> QED
    BY <2>1, EmptyFits
<1> QED
  BY <1>1, <1>3, <1>4 DEF AllFit

LEMMA DropFits ==
    ASSUME AllFit(node), Drop
    PROVE  AllFit(node')
<1>1. node' = [p \in Pages |-> IF p \in Subtree(root) THEN FreePage ELSE node[p]]
  BY DEF Drop
<1> QED
  BY <1>1, FreeFits DEF AllFit

LEMMA CollapseFits ==
    ASSUME IInv, AllFit(node), Collapse
    PROVE  AllFit(node')
<1>1. node \in [Pages -> Nodes]
  BY DEF IInv, Vars
<1>2. node' = node \/ node' = [node EXCEPT ![root] = FreePage]
  BY DEF Collapse
<1> QED
  BY <1>1, <1>2, FreeFits DEF AllFit

LEMMA NewRootFits ==
    ASSUME IInv, Roomy, AllFit(node), NewRoot
    PROVE  AllFit(node')
<1>1. node \in [Pages -> Nodes]
  BY DEF IInv, Vars
<1>2. extra # NoPage
  BY DEF NewRoot
<1>3. root \in Pages /\ extra \in Pages /\ sep \in Entries
  BY <1>2, Waiting DEF Rules, InUse
<1>4. PICK n : n = Internal(<<sep>>, <<root, extra>>)
  OBVIOUS
<1>5. node' = [node EXCEPT ![root'] = n]
  BY <1>4 DEF NewRoot
<1>6. Fits(n)
  <2>1. <<sep>> \in Seq(Entries) /\ <<root, extra>> \in Seq(Pages)
        /\ Len(<<sep>>) = 1 /\ Len(<<root, extra>>) = 2
    BY <1>3
  <2>2. n \in Nodes /\ n.entries = <<sep>> /\ n.children = <<root, extra>>
    BY <2>1, <1>4, InternalIn
  <2>3. Len(n.entries) <= 1 /\ Len(n.children) <= 2
    BY <2>1, <2>2
  <2>4. Weight(1, 2) <= MaxBody
    <3>1. Weight(1, 2) = EntrySize + 2 * ChildSize
      BY SizeAssumption DEF Weight
    <3>2. EntrySize + 2 * ChildSize <= MinBody /\ 2 * MinBody <= MaxBody /\ MinBody \in Nat
      BY WeightBounds, HalfPage
    <3> QED
      BY <3>1, <3>2, SizeAssumption
  <2> QED
    BY <2>2, <2>3, <2>4, FitsBy
<1> QED
  BY <1>1, <1>5, <1>6 DEF AllFit

\* One page changes.
LEMMA OneFits ==
    ASSUME AllFit(node), node \in [Pages -> Nodes], NEW p, NEW g, Fits(g),
           NEW nd2, nd2 = [node EXCEPT ![p] = g]
    PROVE  AllFit(nd2)
  BY DEF AllFit

\* Two do.
LEMMA TwoFit ==
    ASSUME AllFit(node), node \in [Pages -> Nodes], NEW p, NEW q, NEW n1, NEW n2, Fits(n1), Fits(n2),
           NEW nd2, nd2 = [node EXCEPT ![p] = n1, ![q] = n2]
    PROVE  AllFit(nd2)
  BY DEF AllFit

\* The halves of an overfull node, which had one entry less.
LEMMA HalvesFit ==
    ASSUME NEW n \in Nodes, Fits(n), NEW g \in Nodes, NEW n1 \in Nodes, NEW n2 \in Nodes,
           Len(g.entries) = Len(n.entries) + 1, NEW i \in 1..Len(g.entries) - 1, NEW d \in {0, 1},
           Cut(g, i, d, n1, n2),
           \/ n1.children = <<>> /\ n2.children = <<>>
           \/ /\ d = 1 /\ CutBelow(g, i, n1, n2) /\ Len(n.children) = Len(n.entries) + 1
              /\ Len(g.children) = Len(g.entries) + 1
    PROVE  Fits(n1) /\ Fits(n2)
<1>1. PICK x \in Nat, c \in Nat : x = Len(n.entries) /\ c = Len(n.children)
  BY NodeFacts
<1>2. i \in 1..x /\ Len(n1.entries) = i /\ Len(n2.entries) = (x + 1) - (i + d)
  <2>1. Len(g.entries) = x + 1
    BY <1>1
  <2>2. i \in 1..(x + 1) - 1
    BY <2>1
  <2> QED
    BY <2>1, <2>2 DEF Cut
<1>3. i <= x /\ (x + 1) - (i + d) <= x
  BY <1>2
<1>4. Len(n1.entries) <= Len(n.entries) /\ Len(n2.entries) <= Len(n.entries)
  BY <1>1, <1>2, <1>3
<1>5. Len(n1.children) <= Len(n.children) /\ Len(n2.children) <= Len(n.children)
  <2>1. CASE n1.children = <<>> /\ n2.children = <<>>
    <3>1. Len(n1.children) = 0 /\ Len(n2.children) = 0
      BY <2>1, NoElements
    <3> QED
      BY <3>1, <1>1
  <2>2. CASE /\ CutBelow(g, i, n1, n2) /\ Len(n.children) = Len(n.entries) + 1
             /\ Len(g.children) = Len(g.entries) + 1
    <3>1. c = x + 1 /\ Len(g.children) = (x + 1) + 1
      BY <2>2, <1>1
    <3>2. Len(n1.children) = i + 1 /\ Len(n2.children) = Len(g.children) - (i + 1)
      BY <2>2 DEF CutBelow
    <3>3. i + 1 <= x + 1 /\ ((x + 1) + 1) - (i + 1) <= x + 1
      BY <1>2
    <3> QED
      BY <3>1, <3>2, <3>3, <1>1
  <2> QED
    BY <2>1, <2>2
<1> QED
  BY <1>4, <1>5, FitsLess

LEMMA InsertFits ==
    ASSUME IInv, Roomy, AllFit(node), NEW e \in Entries, Insert(e)
    PROVE  AllFit(node')
<1>1. /\ stack = <<>> /\ root # NoPage /\ Space(Spare) /\ Spare \in Nat \ {0}
  BY SizeAssumption DEF Insert
<1>2. node \in [Pages -> Nodes]
  BY <1>1, AtRest DEF Vars
<1>3. PICK lo \in [Pages -> Nat], top \in [Pages -> Nat], lev \in [Pages -> Nat] :
        Core(node, lo, top, top, lev) /\ Rules(node, root, lo, top, lev)
  BY <1>1, AtRest
<1>4. e \in Nat /\ e < Top
  BY EntryBounds
<1>5. PICK p : p = FindLeaf(e)
  OBVIOUS
<1>6. p \in InUse(node) /\ node[p].kind = "leaf"
  BY <1>3, <1>4, <1>5, DescentOf
<1>7. PICK n \in Nodes : n = node[p]
  BY <1>3, <1>6, PageFacts
<1>8. n.kind = "leaf" /\ n.children = <<>> /\ Ascending(n.entries) /\ p \in Pages /\ Fits(n)
  BY <1>3, <1>6, <1>7, PageFacts DEF LeafOK, AllFit
<1>9. PICK g : g = [node[p] EXCEPT !.entries = InsertAt(@, Place(@, e) + 1, e)]
  OBVIOUS
<1>10. /\ InsertAt(n.entries, Place(n.entries, e) + 1, e) \in Seq(Entries)
       /\ Len(InsertAt(n.entries, Place(n.entries, e) + 1, e)) = Len(n.entries) + 1
  <2>1. PICK s \in Seq(Entries) : s = n.entries
    BY NodeFacts
  <2>2. Ascending(s) /\ s \in Seq(Nat) /\ Len(s) \in Nat
    BY <2>1, <1>8, NodeFacts
  <2>3. PICK j : j = Place(s, e)
    OBVIOUS
  <2>4. j \in 0..Len(s)
    BY <2>2, <2>3, <1>4, PlaceOf
  <2>7. j + 1 \in Nat /\ j + 1 \in 1..Len(s) + 1
    BY <2>2, <2>4
  <2>5. PICK k \in Nat : k = Place(s, e) + 1 /\ k \in 1..Len(s) + 1
    BY <2>3, <2>7
  <2>6. InsertAt(s, k, e) \in Seq(Entries) /\ Len(InsertAt(s, k, e)) = Len(s) + 1
    BY <2>5, InsertedAt
  <2> QED
    BY <2>1, <2>5, <2>6
<1>11. /\ g \in Nodes /\ g.kind = "leaf" /\ g.children = <<>>
       /\ g.entries = InsertAt(n.entries, Place(n.entries, e) + 1, e)
  BY <1>7, <1>8, <1>9, <1>10 DEF Nodes
<1>12. Len(g.entries) = Len(n.entries) + 1
  BY <1>10, <1>11
<1>13. CASE Fits(g)
  <2>1. node' = [node EXCEPT ![p] = g]
    BY <1>5, <1>9, <1>13 DEF Insert
  <2> QED
    BY <2>1, <1>2, <1>13, OneFits
<1>14. CASE ~Fits(g)
  <2>0. PICK q, i, k : q = NewPage /\ k = Len(g.entries) /\ i = SplitPoint(k) /\ k \in Nat
    <3>1. Len(g.entries) \in Nat
      BY <1>11, NodeFacts
    <3> QED
      BY <3>1
  <2>1. q \in Pages
    BY <2>0, <1>1, NewPageOf
  <2>2. k >= 3
    <3>0. Len(g.children) = 0 /\ BodySize(g) = Weight(k, Len(g.children)) /\ BodySize(g) \in Nat
      BY <2>0, <1>11, NoElements, SizeOf
    <3>1. BodySize(g) > MaxBody /\ BodySize(g) = Weight(k, 0)
      BY <3>0, <1>14, SizeAssumption DEF Fits
    <3> QED
      BY <2>0, <3>1, WeightBounds
  <2>3. i \in 1..Len(g.entries) - 1
    BY <2>0, <2>2, SplitPointOf
  <2>4. PICK r \in Pages \cup {NoPage} : r = g.next
    BY <1>11, NodeFacts
  <2>5. PICK n1, n2 : /\ n1 = Leaf(SubSeq(g.entries, 1, i), q)
                      /\ n2 = Leaf(SubSeq(g.entries, i + 1, Len(g.entries)), r)
    OBVIOUS
  <2>6. node' = [node EXCEPT ![p] = n1, ![q] = n2]
    BY <2>0, <2>4, <2>5, <1>5, <1>9, <1>14 DEF Insert, SplitLeaf
  <2>7. /\ n1 \in Nodes /\ n2 \in Nodes /\ n1.children = <<>> /\ n2.children = <<>>
        /\ Cut(g, i, 0, n1, n2)
    <3>1. LeafParts(g, i, q, r, n1, n2)
      BY <2>5 DEF LeafParts
    <3>2. q \in Pages \cup {NoPage} /\ r \in Pages \cup {NoPage} /\ i \in 1..Len(g.entries) - 1
          /\ g \in Nodes
      BY <2>1, <2>3, <2>4, <1>11
    <3>3. /\ n1 \in Nodes /\ n2 \in Nodes /\ n1.kind = "leaf" /\ n2.kind = "leaf"
          /\ n1.children = <<>> /\ n2.children = <<>> /\ n1.next = q /\ n2.next = r
          /\ Cut(g, i, 0, n1, n2)
      BY <3>1, <3>2, LeafHalves
    <3> QED
      BY <3>3
  <2>8. Fits(n1) /\ Fits(n2)
    BY <2>3, <2>7, <1>8, <1>11, <1>12, HalvesFit
  <2> QED
    BY <2>6, <2>8, <1>2, TwoFit
<1> QED
  BY <1>13, <1>14

LEMMA InsertInParentFits ==
    ASSUME IInv, Roomy, AllFit(node), InsertInParent
    PROVE  AllFit(node')
<1>1. extra # NoPage /\ Len(stack) > 1 /\ Space(1)
  BY DEF InsertInParent
<1>2. node \in [Pages -> Nodes]
  BY <1>1, Waiting DEF Vars
<1>3. PICK lo \in [Pages -> Nat], top \in [Pages -> Nat], reach \in [Pages -> Nat], lev \in [Pages -> Nat] :
        /\ Core(node, lo, top, reach, lev) /\ Path(node, root, stack, lev)
        /\ extra \in InUse(node) /\ sep \in Entries
  BY <1>1, Waiting
<1>4. PICK p, m : m = Len(stack) /\ p = stack[m - 1] /\ m \in Nat /\ m > 1
  BY <1>1, Waiting
<1>5. PICK i : i \in 1..Len(node[p].children)
  <2>1. m - 1 \in 1..Len(stack) - 1 /\ (m - 1) + 1 = m
    BY <1>4
  <2> QED
    BY <2>1, <1>3, <1>4 DEF Path
<1>6. p \in InUse(node) /\ p \in Pages /\ extra \in Pages /\ sep \in Nat
  <2>1. m - 1 \in 1..Len(stack)
    BY <1>4
  <2>2. p \in InUse(node)
    BY <2>1, <1>3, <1>4 DEF Path
  <2> QED
    BY <2>2, <1>3, EntryBounds DEF InUse
<1>7. PICK n \in Nodes : n = node[p]
  BY <1>2, <1>6
<1>8. Ascending(n.entries) /\ Len(n.children) = Len(n.entries) + 1 /\ Fits(n)
  BY <1>3, <1>5, <1>6, <1>7, ChildFacts DEF InnerOK, AllFit
<1>9. PICK at : at = Place(n.entries, sep) + 1
  OBVIOUS
<1>10. PICK g : g = Internal(InsertAt(n.entries, at, sep), InsertAt(n.children, at + 1, extra))
  OBVIOUS
<1>11. /\ g \in Nodes /\ Len(g.entries) = Len(n.entries) + 1 /\ Len(g.children) = Len(g.entries) + 1
       /\ Len(g.entries) \in Nat
  <2>1. PICK s \in Seq(Entries), t \in Seq(Pages) : s = n.entries /\ t = n.children
    BY NodeFacts
  <2>2. Ascending(s) /\ s \in Seq(Nat) /\ Len(s) \in Nat /\ Len(t) = Len(s) + 1
    BY <2>1, <1>8, NodeFacts
  <2>3. PICK j : j = Place(s, sep)
    OBVIOUS
  <2>4. j \in 0..Len(s)
    BY <2>2, <2>3, <1>6, PlaceOf
  <2>5. PICK k \in Nat, h \in Nat : k = at /\ h = at + 1 /\ k \in 1..Len(s) + 1 /\ h \in 1..Len(t) + 1
    <3>1. at = j + 1
      BY <2>1, <2>3, <1>9
    <3> QED
      BY <3>1, <2>2, <2>4
  <2>11. k \in 1..Len(s) + 1 /\ h \in 1..Len(t) + 1 /\ extra \in Pages /\ sep \in Entries
    BY <2>5, <1>3, <1>6
  <2>6. InsertAt(s, k, sep) \in Seq(Entries) /\ Len(InsertAt(s, k, sep)) = Len(s) + 1
    BY <2>11, InsertedAt
  <2>7. InsertAt(t, h, extra) \in Seq(Pages) /\ Len(InsertAt(t, h, extra)) = Len(t) + 1
    BY <2>11, InsertedAt
  <2>8. PICK u \in Seq(Entries), v \in Seq(Pages) :
          u = InsertAt(s, k, sep) /\ v = InsertAt(t, h, extra) /\ Len(u) = Len(s) + 1 /\ Len(v) = Len(t) + 1
    BY <2>6, <2>7
  <2>9. g = Internal(u, v)
    BY <2>1, <2>5, <2>8, <1>10
  <2>10. Internal(u, v) \in Nodes /\ Internal(u, v).entries = u /\ Internal(u, v).children = v
    BY InternalIn
  <2>12. g \in Nodes /\ Len(g.entries) = Len(s) + 1 /\ Len(g.children) = Len(t) + 1
    BY <2>8, <2>9, <2>10
  <2>13. PICK z \in Nat : z = Len(s)
    BY <2>2
  <2>14. Len(g.entries) = z + 1 /\ Len(g.children) = (z + 1) + 1 /\ Len(n.entries) = z
    BY <2>1, <2>2, <2>12, <2>13
  <2> QED
    BY <2>12, <2>14
<1>12. CASE Fits(g)
  <2>1. node' = [node EXCEPT ![p] = g]
    BY <1>4, <1>7, <1>9, <1>10, <1>12 DEF InsertInParent
  <2> QED
    BY <2>1, <1>2, <1>12, OneFits
<1>13. CASE ~Fits(g)
  <2>0. PICK q, k, j : q = NewPage /\ k = Len(g.entries) /\ j = SplitPoint(k) /\ k \in Nat
    BY <1>11
  <2>1. k >= 3
    <3>1. BodySize(g) = Weight(k, k + 1) /\ BodySize(g) \in Nat
      BY <2>0, <1>11, SizeOf
    <3>2. Weight(k, k + 1) > MaxBody
      BY <3>1, <1>13, SizeAssumption DEF Fits
    <3> QED
      BY <2>0, <3>2, WeightBounds
  <2>2. j \in 1..Len(g.entries) - 1
    BY <2>0, <2>1, SplitPointOf
  <2>3. PICK n1, n2 : InnerParts(g, j, n1, n2)
    BY DEF InnerParts
  <2>4. node' = [node EXCEPT ![p] = n1, ![q] = n2]
    <3>1. SplitInternal(p, g)
      BY <1>4, <1>7, <1>9, <1>10, <1>13 DEF InsertInParent
    <3> QED
      BY <3>1, <2>0, <2>3 DEF SplitInternal, InnerParts
  <2>5. n1 \in Nodes /\ n2 \in Nodes /\ Cut(g, j, 1, n1, n2) /\ CutBelow(g, j, n1, n2)
    BY <2>2, <2>3, <1>11, InnerHalves
  <2>6. Fits(n1) /\ Fits(n2)
    BY <2>2, <2>5, <1>8, <1>11, HalvesFit
  <2> QED
    BY <2>4, <2>6, <1>2, TwoFit
<1> QED
  BY <1>12, <1>13

LEMMA DeleteFits ==
    ASSUME IInv, AllFit(node), NEW e \in Entries, Delete(e)
    PROVE  AllFit(node')
<1>1. stack = <<>> /\ e \in rows /\ root # NoPage
  BY DEF Delete, IInv
<1>2. node \in [Pages -> Nodes]
  BY <1>1, AtRest DEF Vars
<1>3. PICK lo \in [Pages -> Nat], top \in [Pages -> Nat], lev \in [Pages -> Nat] :
        Core(node, lo, top, top, lev) /\ Rules(node, root, lo, top, lev)
  BY <1>1, AtRest
<1>4. e \in Nat /\ e < Top
  BY EntryBounds
<1>5. PICK p : p = FindLeaf(e)
  OBVIOUS
<1>6. p \in InUse(node) /\ p \in Pages
  BY <1>3, <1>4, <1>5, DescentOf DEF InUse
<1>7. PICK n \in Nodes : n = node[p]
  BY <1>2, <1>6
<1>8. PICK k : k = CHOOSE i \in 1..Len(n.entries) : n.entries[i] = e
  OBVIOUS
<1>9. CASE Contains(n.entries, e)
  <2>1. k \in 1..Len(n.entries)
    <3>1. \E i \in 1..Len(n.entries) : n.entries[i] = e
      BY <1>9 DEF Contains
    <3> QED
      BY <3>1, <1>8
  <2>2. PICK s \in Seq(Entries) : s = n.entries
    BY NodeFacts
  <2>3. RemoveAt(s, k) \in Seq(Entries) /\ Len(RemoveAt(s, k)) = Len(s) - 1
    BY <2>1, <2>2, RemovedAt
  <2>4. PICK g : g = [node[p] EXCEPT !.entries = RemoveAt(n.entries, k)]
    OBVIOUS
  <2>5. g \in Nodes /\ g.children = n.children /\ Len(g.entries) = Len(n.entries) - 1
    BY <2>2, <2>3, <2>4, <1>7 DEF Nodes
  <2>6. Fits(g)
    <3>1. PICK x \in Nat, c \in Nat : x = Len(n.entries) /\ c = Len(n.children)
      BY NodeFacts
    <3>2. Len(g.entries) <= Len(n.entries) /\ Len(g.children) <= Len(n.children)
      BY <3>1, <2>5
    <3>3. Fits(n)
      BY <1>6, <1>7 DEF AllFit
    <3> QED
      BY <3>2, <3>3, <2>5, FitsLess
  <2>7. node' = [node EXCEPT ![p] = g]
    <3>1. node' = [node EXCEPT ![p].entries = RemoveAt(n.entries, k)]
      BY <1>2, <1>5, <1>6, <1>7, <1>8, <1>9 DEF Delete
    <3> QED
      BY <3>1, <2>4
  <2> QED
    BY <2>6, <2>7, <1>2, OneFits
<1>10. CASE ~Contains(n.entries, e)
  <2>1. node' = node
    BY <1>5, <1>7, <1>10 DEF Delete
  <2> QED
    BY <2>1
<1> QED
  BY <1>9, <1>10

\* Three pages change.
LEMMA ThreeFit ==
    ASSUME AllFit(node), NEW left, NEW right, NEW p, NEW nd2,
           Fits(nd2[left]), Fits(nd2[right]), Fits(nd2[p]),
           \A r \in Pages : r # p /\ r # left /\ r # right => nd2[r] = node[r]
    PROVE  AllFit(nd2)
  BY DEF AllFit

LEMMA LentFits ==
    ASSUME AllFit(node), NEW lo, NEW top, NEW lev, NEW p, NEW l, NEW left, NEW right, NEW a, NEW b,
           Pair(lo, top, lev, p, l, left, right, a, b),
           NEW n1 \in Nodes, NEW n2 \in Nodes, NEW s \in Entries, Fits(n1), Fits(n2),
           NEW nd2, Lending(nd2, left, right, n1, n2, p, l, s)
    PROVE  AllFit(nd2)
<1>1. Lends(nd2, left, right, n1, n2, p, l, s)
  BY LendingIs
<1>2. /\ nd2 \in [Pages -> Nodes] /\ nd2[left] = n1 /\ nd2[right] = n2
      /\ Len(nd2[p].entries) = Len(node[p].entries) /\ nd2[p].children = node[p].children
      /\ \A r \in Pages : r # p /\ r # left /\ r # right => nd2[r] = node[r]
  BY <1>1 DEF Lends
<1>5. p \in Pages
  BY PairFacts
<1>3. p \in Pages /\ node \in [Pages -> Nodes]
  BY <1>5 DEF Pair
<1>4. Fits(nd2[p])
  <2>1. PICK n \in Nodes, m \in Nodes : n = node[p] /\ m = nd2[p]
    BY <1>2, <1>3
  <2>2. PICK x \in Nat, c \in Nat : x = Len(n.entries) /\ c = Len(n.children)
    BY NodeFacts
  <2>3. Len(m.entries) <= Len(n.entries) /\ Len(m.children) <= Len(n.children)
    BY <2>1, <2>2, <1>2
  <2>4. Fits(n)
    BY <2>1, <1>3 DEF AllFit
  <2> QED
    BY <2>1, <2>3, <2>4, FitsLess
<1> QED
  BY <1>2, <1>4, ThreeFit

\* A merge of two inner nodes made the left one too large, by less than an entry.
Outgrew(nd2, p, l) ==
    LET left == node[p].children[l]
    IN  /\ node[left].kind = "internal" /\ nd2 = Merge(p, l)
        /\ BodySize(nd2[left]) < MaxBody + EntrySize
        /\ \A q \in Pages \ {left} : Fits(nd2[q])

LEMMA EvensFit ==
    ASSUME Roomy, AllFit(node), NEW nd2, NEW lo, NEW top, NEW lev, NEW p, NEW c, NEW l,
           NEW left, NEW right, NEW a, NEW b, Evens(nd2, lo, top, lev, p, c, l, left, right, a, b),
           BodySize(node[c]) < MinBody
    PROVE  AllFit(nd2) \/ Outgrew(nd2, p, l)
<1>1. Pair(lo, top, lev, p, l, left, right, a, b)
  BY DEF Evens
<1>6. a \in Nodes /\ b \in Nodes /\ left \in Pages /\ right \in Pages /\ p \in Pages
  BY <1>1, PairFacts
<1>2. /\ a \in Nodes /\ b \in Nodes /\ left \in Pages /\ right \in Pages /\ p \in Pages
      /\ a = node[left] /\ b = node[right] /\ Fits(a) /\ Fits(b) /\ node \in [Pages -> Nodes]
  BY <1>1, <1>6 DEF Pair, AllFit
<1>3. CASE nd2 = BorrowRight(p, l) /\ c = left /\ BodySize(b) > MinBody
  <2>1. PICK n1, n2, s : /\ Lent(lo, top, lev, left, right, a, b, n1, n2, s)
                         /\ Lending(nd2, left, right, n1, n2, p, l, s) /\ Gave(b, a, n2, n1)
    BY <1>1, <1>3, BorrowRightIs
  <2>2. n1 \in Nodes /\ n2 \in Nodes /\ s \in Entries
    BY <2>1 DEF Lent
  <2>3. BodySize(a) < MinBody
    BY <1>2, <1>3
  <2>4. Fits(n1) /\ Fits(n2)
    BY <2>1, <2>2, <2>3, <1>2, GaveFits
  <2> QED
    BY <2>1, <2>2, <2>4, <1>1, LentFits
<1>4. CASE nd2 = BorrowLeft(p, l) /\ c = right /\ BodySize(a) > MinBody
  <2>1. PICK n1, n2, s : /\ Lent(lo, top, lev, left, right, a, b, n1, n2, s)
                         /\ Lending(nd2, left, right, n1, n2, p, l, s) /\ Gave(a, b, n1, n2)
    BY <1>1, <1>4, BorrowLeftIs
  <2>2. n1 \in Nodes /\ n2 \in Nodes /\ s \in Entries
    BY <2>1 DEF Lent
  <2>3. BodySize(b) < MinBody
    BY <1>2, <1>4
  <2>4. Fits(n1) /\ Fits(n2)
    BY <2>1, <2>2, <2>3, <1>2, GaveFits
  <2> QED
    BY <2>1, <2>2, <2>4, <1>1, LentFits
<1>5. CASE /\ nd2 = Merge(p, l)
           /\ (c = left /\ BodySize(b) <= MinBody) \/ (c = right /\ BodySize(a) <= MinBody)
  <2>1. PICK g : g = Joined(p, l)
    OBVIOUS
  <2>2. PICK n3 : Unites(nd2, left, right, p, l, g, n3)
    BY <2>1, <1>1, <1>5, MergeIs
  <2>3. Fits(g) \/ (a.kind = "internal" /\ BodySize(g) < MaxBody + EntrySize)
    <3>1. Merged(g, lo, top, lev, left, right, a, b)
      BY <2>1, <1>1, JoinedIs
    <3>2. \/ BodySize(a) < MinBody /\ BodySize(b) <= MinBody
          \/ BodySize(b) < MinBody /\ BodySize(a) <= MinBody
      BY <1>2, <1>5
    <3> QED
      BY <3>1, <3>2, <1>1, MergedFits
  <2>4. /\ n3 \in Nodes /\ nd2[left] = g /\ nd2[right] = FreePage /\ nd2[p] = n3
        /\ \A r \in Pages : r # p /\ r # left /\ r # right => nd2[r] = node[r]
        /\ Len(n3.entries) = Len(node[p].entries) - 1 /\ Len(n3.children) = Len(node[p].children) - 1
    BY <2>2 DEF Unites
  <2>5. Fits(n3)
    <3>1. PICK n \in Nodes : n = node[p] /\ Fits(n)
      BY <1>2 DEF AllFit
    <3>2. PICK x \in Nat, k \in Nat : x = Len(n.entries) /\ k = Len(n.children)
      BY NodeFacts
    <3>3. Len(n3.entries) <= Len(n.entries) /\ Len(n3.children) <= Len(n.children)
      BY <3>1, <3>2, <2>4
    <3> QED
      BY <3>1, <3>3, <2>4, FitsLess
  <2>6. \A q \in Pages \ {left} : Fits(nd2[q])
    BY <2>4, <2>5, FreeFits DEF AllFit
  <2>7. CASE Fits(g)
    BY <2>4, <2>6, <2>7 DEF AllFit
  <2>8. CASE a.kind = "internal" /\ BodySize(g) < MaxBody + EntrySize
    <3>1. left = node[p].children[l] /\ node[left].kind = "internal" /\ nd2 = Merge(p, l)
      BY <2>8, <1>1, <1>5 DEF Pair
    <3>2. BodySize(nd2[left]) < MaxBody + EntrySize
      BY <2>4, <2>8
    <3> QED
      BY <2>6, <3>1, <3>2 DEF Outgrew
  <2> QED
    BY <2>3, <2>7, <2>8
<1> QED
  BY <1>3, <1>4, <1>5 DEF Evens

LEMMA RebalanceFits ==
    ASSUME IInv, Roomy, AllFit(node), Rebalance
    PROVE  \/ AllFit(node')
           \/ \E p \in InUse(node) : node[p].kind = "internal"
                                     /\ \E l \in 1..Len(node[p].entries) : Outgrew(node', p, l)
<1>1. PICK lo \in [Pages -> Nat], top \in [Pages -> Nat], lev \in [Pages -> Nat] :
        \E p, c, i : AtParent(lo, top, lev, p, c, i)
  BY ParentOf
<1>2. PICK p, c, i : AtParent(lo, top, lev, p, c, i)
  BY <1>1
<1>3. p = stack[Len(stack) - 1] /\ c = Last(stack) /\ node \in [Pages -> Nodes]
  BY <1>2 DEF AtParent, Last, IInv, Vars
<1>4. PICK nd2 : nd2 = Rebalanced(p, c)
  OBVIOUS
<1>5. node' = IF BodySize(node[c]) < MinBody THEN nd2 ELSE node
  BY <1>3, <1>4 DEF Rebalance
<1>6. CASE BodySize(node[c]) < MinBody
  <2>1. PICK l, left, right, a, b : Evens(nd2, lo, top, lev, p, c, l, left, right, a, b)
    BY <1>2, <1>3, <1>4, RebalancedIs
  <2>2. AllFit(nd2) \/ Outgrew(nd2, p, l)
    BY <2>1, <1>6, EvensFit
  <2>3. p \in InUse(node) /\ node[p].kind = "internal" /\ l \in 1..Len(node[p].entries)
    BY <2>1 DEF Evens, Pair
  <2> QED
    BY <2>2, <2>3, <1>5, <1>6
<1>7. CASE ~(BodySize(node[c]) < MinBody)
  BY <1>5, <1>7
<1> QED
  BY <1>6, <1>7

LEMMA StepFits ==
    ASSUME IInv, Roomy, AllFit(node), [Next]_vars
    PROVE  \/ AllFit(node')
           \/ \E p \in InUse(node) : node[p].kind = "internal"
                                     /\ \E l \in 1..Len(node[p].entries) : Outgrew(node', p, l)
<1>1. CASE Create
  BY <1>1, CreateFits
<1>2. CASE Drop
  BY <1>2, DropFits
<1>3. ASSUME NEW e \in Entries, Insert(e)
      PROVE  AllFit(node')
  BY <1>3, InsertFits
<1>4. ASSUME NEW e \in Entries, Delete(e)
      PROVE  AllFit(node')
  BY <1>4, DeleteFits
<1>5. CASE InsertInParent
  BY <1>5, InsertInParentFits
<1>6. CASE NewRoot
  BY <1>6, NewRootFits
<1>7. CASE Rebalance
  BY <1>7, RebalanceFits
<1>8. CASE Collapse
  BY <1>8, CollapseFits
<1>9. CASE UNCHANGED vars
  <2>1. node' = node
    BY <1>9 DEF vars
  <2> QED
    BY <2>1
<1> QED
  BY <1>1, <1>2, <1>3, <1>4, <1>5, <1>6, <1>7, <1>8, <1>9 DEF Next

\* While all nodes fit their pages, no insertion, split, borrowing, merge of leaves or
\* change of the root makes one too large, at any stage of a call.  Only a merge of two
\* inner nodes does, which takes their separator in, and by less than an entry.
THEOREM OnlyMergesOutgrowHolds ==
    ASSUME Roomy
    PROVE  Spec => OnlyMergesOutgrow
<1>1. Spec => []IInv
  BY Reached
<1>2. IInv /\ [Next]_vars =>
        [PageFits => \/ PageFits'
                     \/ \E p \in Used : ~IsLeaf(p) /\ \E l \in 1..Len(node[p].entries) : Outgrown(p, l)]_vars
  <2> SUFFICES ASSUME IInv, [Next]_vars, PageFits, ~PageFits'
               PROVE  \E p \in Used : ~IsLeaf(p) /\ \E l \in 1..Len(node[p].entries) : Outgrown(p, l)
    OBVIOUS
  <2>1. AllFit(node) /\ ~AllFit(node')
    BY DEF AllFit, Fits, PageFits
  <2>2. PICK p \in InUse(node) :
          node[p].kind = "internal" /\ \E l \in 1..Len(node[p].entries) : Outgrew(node', p, l)
    BY <2>1, StepFits
  <2>3. p \in Used /\ ~IsLeaf(p)
    BY <2>2 DEF InUse, Used, IsLeaf
  <2>4. \E l \in 1..Len(node[p].entries) : Outgrown(p, l)
    BY <2>2 DEF Outgrew, Outgrown, IsLeaf, Fits
  <2> QED
    BY <2>3, <2>4
<1> QED
  BY <1>1, <1>2, PTL DEF Spec, OnlyMergesOutgrow
=============================================================================
