-------------------------- MODULE HeapStorage_proof --------------------------
(***************************************************************************)
(* Theorems about HeapStorage, for every number of tables and pages, every  *)
(* page size and every set of rows.                                         *)
(***************************************************************************)
EXTENDS HeapStorage, FiniteSetTheorems, FunctionTheorems, SequenceTheorems, TLAPS

-----------------------------------------------------------------------------
(***************************************************************************)
(* Numbers and sequences.                                                   *)
(***************************************************************************)

\* A set of numbers that is not empty has a least one.
LEMMA LeastNumber ==
    ASSUME NEW S \in SUBSET Nat, S # {}
    PROVE  \E x \in S : \A y \in S : x <= y
<1> DEFINE less == {ss \in Nat \X Nat : ss[1] < ss[2]}
<1>1. IsWellFoundedOn(less, Nat)
  BY NatLessThanWellFounded DEF OpToRel
<1> HIDE DEF less
<1>2. PICK x \in S : \A y \in S : <<y, x>> \notin less
  BY <1>1, WFMin
<1>3. \A y \in S : x <= y
  <2> TAKE y \in S
  <2>1. x \in Nat /\ y \in Nat
    OBVIOUS
  <2>2. ~(y < x)
    BY <1>2, <2>1 DEF less
  <2> QED
    BY <2>1, <2>2
<1> QED
  BY <1>3

\* A bounded one has a greatest.
LEMMA GreatestNumber ==
    ASSUME NEW S \in SUBSET Nat, S # {}, NEW n \in Nat, \A y \in S : y <= n
    PROVE  \E x \in S : \A y \in S : y <= x
<1> DEFINE below == {n - y : y \in S}
<1>0. \A y \in S : n - y \in Nat
  OBVIOUS
<1>1. below \in SUBSET Nat /\ below # {}
  BY <1>0
<1>2. PICK b \in below : \A c \in below : b <= c
  BY <1>1, LeastNumber
<1>3. PICK x \in S : b = n - x
  OBVIOUS
<1>4. \A y \in S : n - x <= n - y
  BY <1>2, <1>3
<1> QED
  BY <1>4

LEMMA IntervalCount ==
    ASSUME NEW n \in Nat
    PROVE  IsFiniteSet(1..n) /\ Cardinality(1..n) = n
  BY FS_Interval

\* The elements of a sequence differ.
Distinct(s) == \A i, j \in 1..Len(s) : s[i] = s[j] => i = j

LEMMA RangeOf ==
    ASSUME NEW S, NEW s \in Seq(S)
    PROVE  /\ \A x : x \in Range(s) <=> \E i \in 1..Len(s) : s[i] = x
           /\ Range(s) \subseteq S
  BY DEF Range

LEMMA RangeOfOne ==
    ASSUME NEW S, NEW s \in Seq(S), Len(s) = 1
    PROVE  s[1] \in S /\ Range(s) = {s[1]}
<1>1. \A i : i \in 1..Len(s) <=> i = 1
  OBVIOUS
<1> QED
  BY <1>1, RangeOf

LEMMA DistinctCount ==
    ASSUME NEW S, NEW s \in Seq(S), Distinct(s)
    PROVE  IsFiniteSet(Range(s)) /\ Cardinality(Range(s)) = Len(s)
<1>1. s \in [1..Len(s) -> Range(s)]
  BY DEF Range
<1>a. s \in Injection(1..Len(s), Range(s))
  BY <1>1, Fun_IsInj DEF Distinct
<1>b. s \in Surjection(1..Len(s), Range(s))
  BY <1>1, Fun_IsSurj DEF Range
<1>2. s \in Bijection(1..Len(s), Range(s))
  BY <1>a, <1>b DEF Bijection
<1>3. ExistsBijection(1..Len(s), Range(s))
  BY <1>2 DEF ExistsBijection
<1>c. Len(s) \in Nat
  OBVIOUS
<1>4. IsFiniteSet(1..Len(s)) /\ Cardinality(1..Len(s)) = Len(s)
  BY <1>c, IntervalCount
<1> QED
  BY <1>3, <1>4, FS_Bijection

\* Distinct pages: no more than there are.
LEMMA DistinctPages ==
    ASSUME NEW s \in Seq(Pages), Distinct(s)
    PROVE  Len(s) <= MaxPage
<1>1. Range(s) \in SUBSET (1..MaxPage)
  BY RangeOf DEF Pages
<1>2. IsFiniteSet(1..MaxPage) /\ Cardinality(1..MaxPage) = MaxPage
  BY IntervalCount, SizesAssumption
<1>3. Cardinality(Range(s)) <= MaxPage
  BY <1>1, <1>2, FS_Subset
<1> QED
  BY <1>3, DistinctCount

LEMMA Reversed ==
    ASSUME NEW S, NEW s \in Seq(S)
    PROVE  /\ Reverse(s) \in Seq(S) /\ Len(Reverse(s)) = Len(s)
           /\ Range(Reverse(s)) = Range(s)
           /\ Distinct(s) => Distinct(Reverse(s))
<1> DEFINE r == Reverse(s)
<1>1. r \in Seq(S) /\ Len(r) = Len(s) /\ \A i \in 1..Len(s) : r[i] = s[(Len(s) - i) + 1]
  BY DEF Reverse
<1> HIDE DEF r
<1>2. \A i \in 1..Len(s) : (Len(s) - i) + 1 \in 1..Len(s)
                            /\ i = (Len(s) - ((Len(s) - i) + 1)) + 1
  OBVIOUS
<1>3. \A x : x \in Range(r) <=> x \in Range(s)
  <2> TAKE x
  <2>1. x \in Range(r) <=> \E i \in 1..Len(r) : r[i] = x
    BY <1>1, RangeOf
  <2>2. x \in Range(s) <=> \E i \in 1..Len(s) : s[i] = x
    BY RangeOf
  <2>3. ASSUME NEW i \in 1..Len(r)
        PROVE  \E j \in 1..Len(s) : s[j] = r[i]
    <3> DEFINE j == (Len(s) - i) + 1
    <3>1. j \in 1..Len(s) /\ s[j] = r[i]
      BY <1>1, <1>2
    <3> QED
      BY <3>1
  <2>4. ASSUME NEW j \in 1..Len(s)
        PROVE  \E i \in 1..Len(r) : r[i] = s[j]
    <3> DEFINE i == (Len(s) - j) + 1
    <3>1. i \in 1..Len(r) /\ r[i] = s[(Len(s) - i) + 1] /\ j = (Len(s) - i) + 1
      BY <1>1, <1>2
    <3> QED
      BY <3>1
  <2>5. ASSUME x \in Range(r)
        PROVE  x \in Range(s)
    <3>1. PICK i \in 1..Len(r) : r[i] = x
      BY <2>1, <2>5
    <3> QED
      BY <3>1, <2>2, <2>3
  <2>6. ASSUME x \in Range(s)
        PROVE  x \in Range(r)
    <3>1. PICK j \in 1..Len(s) : s[j] = x
      BY <2>2, <2>6
    <3> QED
      BY <3>1, <2>1, <2>4
  <2> QED
    BY <2>5, <2>6
<1>4. ASSUME Distinct(s)
      PROVE  Distinct(r)
  <2> SUFFICES ASSUME NEW i \in 1..Len(s), NEW j \in 1..Len(s), r[i] = r[j]
               PROVE  i = j
    BY <1>1 DEF Distinct
  <2> DEFINE a == (Len(s) - i) + 1
             b == (Len(s) - j) + 1
  <2>1. a \in 1..Len(s) /\ b \in 1..Len(s) /\ s[a] = s[b]
    BY <1>1, <1>2
  <2>2. a = b
    BY <2>1, <1>4 DEF Distinct
  <2> QED
    BY <2>2
<1> QED
  BY <1>1, <1>3, <1>4 DEF r

LEMMA Joined ==
    ASSUME NEW S, NEW s \in Seq(S), NEW t \in Seq(S)
    PROVE  /\ s \o t \in Seq(S) /\ Range(s \o t) = Range(s) \cup Range(t)
           /\ Distinct(s) /\ Distinct(t) /\ Range(s) \cap Range(t) = {} => Distinct(s \o t)
<1> DEFINE u == s \o t
<1>1. u \in Seq(S) /\ Len(u) = Len(s) + Len(t)
      /\ \A i \in 1..Len(u) : u[i] = IF i <= Len(s) THEN s[i] ELSE t[i - Len(s)]
  BY ConcatProperties
<1> HIDE DEF u
<1>2. \A i \in 1..Len(s) : i \in 1..Len(u) /\ u[i] = s[i]
  BY <1>1
<1>3. \A i \in 1..Len(t) : i + Len(s) \in 1..Len(u) /\ u[i + Len(s)] = t[i]
  BY <1>1
<1>4. \A i \in 1..Len(u) : \/ i \in 1..Len(s) /\ u[i] = s[i]
                           \/ i - Len(s) \in 1..Len(t) /\ u[i] = t[i - Len(s)]
  BY <1>1
<1>5. \A x : x \in Range(u) <=> x \in Range(s) \cup Range(t)
  <2> TAKE x
  <2>1. x \in Range(u) <=> \E i \in 1..Len(u) : u[i] = x
    BY <1>1, RangeOf
  <2>2. x \in Range(s) <=> \E i \in 1..Len(s) : s[i] = x
    BY RangeOf
  <2>3. x \in Range(t) <=> \E i \in 1..Len(t) : t[i] = x
    BY RangeOf
  <2> QED
    BY <2>1, <2>2, <2>3, <1>2, <1>3, <1>4
<1>6. ASSUME Distinct(s), Distinct(t), Range(s) \cap Range(t) = {}
      PROVE  Distinct(u)
  <2> SUFFICES ASSUME NEW i \in 1..Len(u), NEW j \in 1..Len(u), u[i] = u[j]
               PROVE  i = j
    BY DEF Distinct
  <2>0. i \in Int /\ j \in Int /\ Len(s) \in Nat
    BY <1>1
  <2>1. CASE i \in 1..Len(s) /\ u[i] = s[i] /\ j \in 1..Len(s) /\ u[j] = s[j]
    BY <2>1, <1>6 DEF Distinct
  <2>2. CASE i - Len(s) \in 1..Len(t) /\ u[i] = t[i - Len(s)]
             /\ j - Len(s) \in 1..Len(t) /\ u[j] = t[j - Len(s)]
    <3>1. i - Len(s) = j - Len(s)
      BY <2>2, <1>6 DEF Distinct
    <3> QED
      BY <3>1, <2>0
  <2>3. ASSUME NEW a \in 1..Len(s), NEW b \in 1..Len(t)
        PROVE  s[a] # t[b]
    <3>1. s[a] \in Range(s) /\ t[b] \in Range(t)
      BY RangeOf
    <3> QED
      BY <3>1, <1>6
  <2> QED
    BY <1>4, <2>1, <2>2, <2>3
<1> QED
  BY <1>1, <1>5, <1>6 DEF u

-----------------------------------------------------------------------------
(***************************************************************************)
(* Chains of pages.                                                         *)
(***************************************************************************)

\* The pages s, all different, are linked one to the next and begin with p.
Linked(pages, s, p) ==
    /\ s \in Seq(Pages) /\ Distinct(s)
    /\ s = <<>> <=> p = NoPage
    /\ s # <<>> => s[1] = p
    /\ \A i \in 1..Len(s) : pages[s[i]].next = IF i < Len(s) THEN s[i + 1] ELSE NoPage

\* They are then the chain the code walks.
LEMMA ChainIs ==
    ASSUME NEW pages, NEW s, NEW p, Linked(pages, s, p)
    PROVE  ChainFrom(pages, p) = s
<1> DEFINE Step(f) ==
             [i \in 1..MaxPage |->
                IF i = 1 THEN p
                ELSE IF f[i - 1] = NoPage THEN NoPage ELSE pages[f[i - 1]].next]
           w == [i \in 1..MaxPage |-> IF i <= Len(s) THEN s[i] ELSE NoPage]
           walk == CHOOSE f : f = Step(f)
<1>1. s \in Seq(Pages) /\ Len(s) \in Nat /\ Len(s) <= MaxPage /\ MaxPage \in Nat \ {0}
  BY DistinctPages, SizesAssumption DEF Linked
<1>2. \A i \in 1..Len(s) : s[i] \in Pages /\ s[i] # NoPage
  BY <1>1, SizesAssumption DEF Pages
<1>3. ASSUME NEW i \in 1..MaxPage
      PROVE  w[i] = IF i = 1 THEN p
                    ELSE IF w[i - 1] = NoPage THEN NoPage ELSE pages[w[i - 1]].next
  <2>1. CASE i = 1
    <3>1. CASE s = <<>>
      BY <2>1, <3>1, <1>1 DEF Linked
    <3>2. CASE s # <<>>
      <4>1. 1 <= Len(s)
        BY <3>2, <1>1
      <4> QED
        BY <2>1, <3>2, <4>1, <1>1 DEF Linked
    <3> QED
      BY <3>1, <3>2
  <2>2. CASE i # 1 /\ i - 1 <= Len(s)
    <3>1. i - 1 \in 1..Len(s) /\ i - 1 \in 1..MaxPage
      BY <2>2, <1>1
    <3>2. w[i - 1] = s[i - 1] /\ w[i - 1] # NoPage
      BY <3>1, <1>2
    <3>3. pages[s[i - 1]].next = IF i - 1 < Len(s) THEN s[(i - 1) + 1] ELSE NoPage
      BY <3>1 DEF Linked
    <3> QED
      BY <2>2, <3>1, <3>2, <3>3, <1>1
  <2>3. CASE i # 1 /\ ~(i - 1 <= Len(s))
    BY <2>3, <1>1
  <2> QED
    BY <2>1, <2>2, <2>3
<1>4. w = Step(w)
  BY <1>3
<1>5. ASSUME NEW f, f = Step(f)
      PROVE  f = w
  <2> DEFINE D == {i \in 1..MaxPage : f[i] # w[i]}
  <2>1. DOMAIN f = 1..MaxPage
    BY <1>5
  <2>2. \A i \in 1..MaxPage :
           f[i] = IF i = 1 THEN p
                  ELSE IF f[i - 1] = NoPage THEN NoPage ELSE pages[f[i - 1]].next
    BY <1>5
  <2>3. ASSUME D # {}
        PROVE  FALSE
    <3>1. D \in SUBSET Nat
      OBVIOUS
    <3>2. PICK m \in D : \A i \in D : m <= i
      BY <3>1, <2>3, LeastNumber
    <3>3. m \in 1..MaxPage /\ f[m] # w[m]
      OBVIOUS
    <3>4. m # 1
      BY <3>3, <2>2, <1>3
    <3>5. m - 1 \in 1..MaxPage /\ m - 1 \notin D
      BY <3>2, <3>3, <3>4, <1>1
    <3>6. f[m - 1] = w[m - 1]
      BY <3>5
    <3> HIDE DEF w
    <3> QED
      BY <3>3, <3>4, <3>6, <2>2, <1>3
  <2>4. f = [i \in 1..MaxPage |-> f[i]]
    BY <1>5
  <2> QED
    BY <2>3, <2>4
<1>6. walk = w
  <2>1. walk = Step(walk)
    BY <1>4
  <2> HIDE DEF walk, Step, w
  <2> QED
    BY <2>1, <1>5
<1>7. ChainFrom(pages, p)
        = SubSeq(walk, 1, Cardinality({i \in 1..MaxPage : walk[i] # NoPage}))
  BY DEF ChainFrom
<1>8. {i \in 1..MaxPage : w[i] # NoPage} = 1..Len(s)
  BY <1>1, <1>2
<1>9. Cardinality(1..Len(s)) = Len(s)
  <2>1. Len(s) \in Nat
    BY <1>1
  <2> QED
    BY <2>1, IntervalCount
<1>10. SubSeq(w, 1, Len(s)) = s
  <2>1. \A i \in 1..Len(s) : w[i] = s[i] /\ w[i] \in Pages
    BY <1>1, <1>2
  <2> HIDE DEF w
  <2>2. /\ SubSeq(w, 1, Len(s)) \in Seq(Pages)
        /\ Len(SubSeq(w, 1, Len(s))) = IF 1 <= Len(s) THEN Len(s) - 1 + 1 ELSE 0
        /\ \A i \in 1..Len(s) - 1 + 1 : SubSeq(w, 1, Len(s))[i] = w[1 + i - 1]
    BY <2>1, <1>1, SubSeqProperties
  <2>3. Len(SubSeq(w, 1, Len(s))) = Len(s)
    BY <2>2, <1>1
  <2>4. \A i \in 1..Len(s) : SubSeq(w, 1, Len(s))[i] = s[i]
    BY <2>1, <2>2, <1>1
  <2> HIDE DEF walk
  <2> QED
    BY <2>2, <2>3, <2>4, <1>1, SeqEqual
<1> HIDE DEF walk, w
<1> QED
  BY <1>6, <1>7, <1>8, <1>9, <1>10

LEMMA NoChain ==
    ASSUME NEW pages
    PROVE  Linked(pages, <<>>, NoPage)
<1>1. <<>> \in Seq(Pages) /\ Len(<<>>) = 0
  BY EmptySeq
<1> QED
  BY <1>1 DEF Linked, Distinct

LEMMA OnePage ==
    ASSUME NEW pages, NEW p \in Pages, pages[p].next = NoPage
    PROVE  Linked(pages, <<p>>, p)
<1>1. <<p>> \in Seq(Pages) /\ Len(<<p>>) = 1 /\ <<p>>[1] = p /\ <<p>> # <<>>
  OBVIOUS
<1>2. p # NoPage
  BY SizesAssumption DEF Pages
<1>3. Distinct(<<p>>)
  BY <1>1 DEF Distinct
<1> QED
  BY <1>1, <1>2, <1>3 DEF Linked

\* The rest of a chain is a chain.
LEMMA ChainRest ==
    ASSUME NEW pages, NEW s, NEW p, Linked(pages, s, p), NEW k \in 1..Len(s)
    PROVE  /\ Linked(pages, SubSeq(s, k, Len(s)), s[k])
           /\ SubSeq(s, k, Len(s)) # <<>>
           /\ Range(SubSeq(s, k, Len(s))) \subseteq Range(s)
           /\ Last(SubSeq(s, k, Len(s))) = s[Len(s)]
<1> DEFINE r == SubSeq(s, k, Len(s))
<1>1. s \in Seq(Pages) /\ Len(s) \in Nat /\ k \in Nat /\ k <= Len(s)
  BY DEF Linked
<1>2. /\ r \in Seq(Pages) /\ Len(r) = Len(s) - k + 1
      /\ \A i \in 1..Len(r) : r[i] = s[k + i - 1]
  <2>1. \A i \in k..Len(s) : s[i] \in Pages
    BY <1>1
  <2>2. /\ r \in Seq(Pages)
        /\ Len(r) = IF k <= Len(s) THEN Len(s) - k + 1 ELSE 0
        /\ \A i \in 1..Len(s) - k + 1 : r[i] = s[k + i - 1]
    BY <2>1, <1>1, SubSeqProperties
  <2> HIDE DEF r
  <2> QED
    BY <2>2, <1>1
<1> HIDE DEF r
<1>3. \A i \in 1..Len(r) : k + i - 1 \in 1..Len(s)
  BY <1>1, <1>2
<1>4. Distinct(r)
  <2> SUFFICES ASSUME NEW i \in 1..Len(r), NEW j \in 1..Len(r), r[i] = r[j]
               PROVE  i = j
    BY DEF Distinct
  <2>1. k + i - 1 = k + j - 1
    BY <1>2, <1>3 DEF Linked, Distinct
  <2> QED
    BY <2>1, <1>1
<1>5. r # <<>> /\ r[1] = s[k] /\ r[Len(r)] = s[Len(s)]
  BY <1>1, <1>2
<1>6. s[k] # NoPage
  BY <1>1, SizesAssumption DEF Pages
<1>7. ASSUME NEW i \in 1..Len(r)
      PROVE  pages[r[i]].next = IF i < Len(r) THEN r[i + 1] ELSE NoPage
  <2>1. pages[r[i]].next
          = IF k + i - 1 < Len(s) THEN s[(k + i - 1) + 1] ELSE NoPage
    BY <1>2, <1>3 DEF Linked
  <2>2. CASE i < Len(r)
    <3>1. i + 1 \in 1..Len(r) /\ r[i + 1] = s[k + (i + 1) - 1]
      BY <2>2, <1>2
    <3>2. k + i - 1 < Len(s) /\ k + (i + 1) - 1 = (k + i - 1) + 1
      BY <2>2, <1>1, <1>2
    <3> QED
      BY <2>1, <2>2, <3>1, <3>2
  <2>3. CASE ~(i < Len(r))
    <3>1. ~(k + i - 1 < Len(s))
      BY <2>3, <1>1, <1>2
    <3> QED
      BY <2>1, <2>3, <3>1
  <2> QED
    BY <2>2, <2>3
<1>8. Range(r) \subseteq Range(s)
  BY <1>1, <1>2, <1>3, RangeOf
<1> QED
  BY <1>2, <1>4, <1>5, <1>6, <1>7, <1>8 DEF Linked, Last, r

\* A chain stays one when its pages keep their successors.
LEMMA ChainKept ==
    ASSUME NEW pages, NEW after, NEW s, NEW p, Linked(pages, s, p),
           \A q \in Range(s) : after[q].next = pages[q].next
    PROVE  Linked(after, s, p)
<1>1. \A i \in 1..Len(s) : s[i] \in Range(s)
  BY RangeOf DEF Linked
<1> QED
  BY <1>1 DEF Linked

\* A new page becomes the last one of a chain.
LEMMA ChainGrows ==
    ASSUME NEW pages, NEW after, NEW s, NEW p, Linked(pages, s, p), s # <<>>,
           NEW q \in Pages \ Range(s),
           after[q].next = NoPage, after[s[Len(s)]].next = q,
           \A x \in Range(s) \ {s[Len(s)]} : after[x].next = pages[x].next
    PROVE  Linked(after, Append(s, q), p)
<1> DEFINE r == Append(s, q)
<1>1. s \in Seq(Pages) /\ Len(s) \in Nat /\ Len(s) >= 1
  BY DEF Linked
<1>2. /\ r \in Seq(Pages) /\ Len(r) = Len(s) + 1 /\ r[Len(s) + 1] = q
      /\ \A i \in 1..Len(s) : r[i] = s[i]
  BY <1>1
<1> HIDE DEF r
<1>3. \A i \in 1..Len(s) : s[i] \in Range(s) /\ s[i] # q
  BY <1>1, RangeOf
<1>4. \A i \in 1..Len(r) : i \in 1..Len(s) \/ i = Len(s) + 1
  BY <1>1, <1>2
<1>5. Distinct(r)
  <2> SUFFICES ASSUME NEW i \in 1..Len(r), NEW j \in 1..Len(r), r[i] = r[j]
               PROVE  i = j
    BY DEF Distinct
  <2> QED
    BY <1>2, <1>3, <1>4 DEF Linked, Distinct
<1>6. r # <<>> /\ r[1] = p
  BY <1>1, <1>2 DEF Linked
<1>7. p # NoPage
  BY DEF Linked
<1>8. ASSUME NEW i \in 1..Len(r)
      PROVE  after[r[i]].next = IF i < Len(r) THEN r[i + 1] ELSE NoPage
  <2>1. CASE i = Len(s) + 1
    BY <2>1, <1>1, <1>2
  <2>2. CASE i = Len(s)
    BY <2>2, <1>1, <1>2
  <2>3. CASE i \in 1..Len(s) /\ i # Len(s)
    <3>1. i < Len(s) /\ i + 1 \in 1..Len(s) /\ i < Len(r) /\ Len(s) \in 1..Len(s)
      BY <2>3, <1>1, <1>2
    <3>2. s[i] # s[Len(s)]
      BY <2>3, <3>1 DEF Linked, Distinct
    <3>3. after[s[i]].next = pages[s[i]].next
      BY <2>3, <3>2, <1>3
    <3>4. pages[s[i]].next = s[i + 1]
      BY <2>3, <3>1 DEF Linked
    <3> QED
      BY <2>3, <3>1, <3>3, <3>4, <1>2
  <2> QED
    BY <1>4, <2>1, <2>2, <2>3
<1> QED
  BY <1>2, <1>5, <1>6, <1>7, <1>8 DEF Linked, r

-----------------------------------------------------------------------------
(***************************************************************************)
(* Allocation.                                                              *)
(***************************************************************************)

\* The pages it returns and those it leaves are, without repetition, the free
\* ones and those it adds to the file.
LEMMA Allocation ==
    ASSUME NEW n \in Nat, free \in Seq(Pages), Distinct(free), Range(free) \subseteq Used,
           nextPage \in 1..MaxPage + 1, Allocates(n)
    PROVE  /\ NewPages(n) \in Seq(Pages) /\ Len(NewPages(n)) = n /\ Distinct(NewPages(n))
           /\ AfterNew(n) \in Seq(Pages) /\ Distinct(AfterNew(n))
           /\ nextPage' \in 1..MaxPage + 1 /\ nextPage <= nextPage'
           /\ Range(NewPages(n)) \cap Range(AfterNew(n)) = {}
           /\ Range(NewPages(n)) \cup Range(AfterNew(n))
                = Range(free) \cup (Used' \ Used)
<1> DEFINE new == NewPages(n)
           rest == AfterNew(n)
           size == Len(free)
<1>0. size \in Nat /\ nextPage \in Nat /\ MaxPage \in Nat
  BY SizesAssumption
<1>1. /\ nextPage' \in 1..MaxPage + 1 /\ nextPage <= nextPage'
      /\ n <= size => nextPage' = nextPage
      /\ n > size => nextPage' = nextPage + (n - size)
  BY <1>0 DEF Allocates
<1>u. \A x : x \in Used' \ Used <=> x \in Nat /\ nextPage <= x /\ x < nextPage'
  <2>1. nextPage' \in Nat /\ nextPage >= 1
    BY <1>0, <1>1
  <2>2. \A x : x \in Used' <=> x \in Nat /\ 1 <= x /\ x < nextPage'
    BY <2>1 DEF Used
  <2>3. \A x : x \in Used <=> x \in Nat /\ 1 <= x /\ x < nextPage
    BY <1>0 DEF Used
  <2> QED
    BY <2>1, <2>2, <2>3, <1>0
<1>2. \A i \in 1..size : free[i] \in Pages /\ free[i] \in Range(free) /\ free[i] < nextPage
  <2> TAKE i \in 1..size
  <2>1. free[i] \in Pages /\ free[i] \in Range(free)
    BY RangeOf
  <2>2. free[i] \in 1..nextPage - 1
    BY <2>1 DEF Used
  <2> QED
    BY <2>1, <2>2, <1>0
<1>3. ASSUME NEW i \in 1..n
      PROVE  /\ i <= size => new[i] = free[i]
             /\ i > size => /\ new[i] = nextPage + (i - size - 1)
                            /\ nextPage <= new[i] /\ new[i] < nextPage'
             /\ new[i] \in Pages
  <2>1. i <= size => new[i] = free[i]
    BY DEF NewPages
  <2>2. i > size => /\ new[i] = nextPage + (i - size - 1)
                    /\ nextPage <= new[i] /\ new[i] < nextPage'
    BY <1>0, <1>1 DEF NewPages
  <2> HIDE DEF new
  <2>3. new[i] \in Pages
    <3>1. CASE i <= size
      BY <3>1, <2>1, <1>2, <1>0
    <3>2. CASE i > size
      BY <3>2, <2>2, <1>0, <1>1 DEF Pages
    <3> QED
      BY <3>1, <3>2, <1>0
  <2> QED
    BY <2>1, <2>2, <2>3
<1>4. new \in Seq(Pages) /\ Len(new) = n
  <2>1. \A i \in 1..n : new[i] \in Pages
    BY <1>3
  <2>2. DOMAIN new = 1..n /\ new = [i \in 1..n |-> new[i]]
    BY DEF NewPages
  <2> HIDE DEF new
  <2> QED
    BY <2>1, <2>2
<1>5. /\ rest \in Seq(Pages) /\ Len(rest) = IF n <= size THEN size - n ELSE 0
      /\ \A i \in 1..Len(rest) : n + i \in 1..size /\ rest[i] = free[n + i]
  <2>1. \A i \in n + 1..size : free[i] \in Pages
    BY <1>2, <1>0
  <2>2. /\ rest \in Seq(Pages)
        /\ Len(rest) = IF n + 1 <= size THEN size - (n + 1) + 1 ELSE 0
        /\ \A i \in 1..size - (n + 1) + 1 : rest[i] = free[n + 1 + i - 1]
    BY <2>1, <1>0, SubSeqProperties DEF AfterNew
  <2> HIDE DEF rest
  <2>3. Len(rest) = IF n <= size THEN size - n ELSE 0
    BY <2>2, <1>0
  <2>4. ASSUME NEW i \in 1..Len(rest)
        PROVE  n + i \in 1..size /\ rest[i] = free[n + i]
    <3>1. n + i \in 1..size /\ i \in 1..size - (n + 1) + 1 /\ n + 1 + i - 1 = n + i
      BY <2>3, <1>0
    <3> QED
      BY <3>1, <2>2
  <2> QED
    BY <2>2, <2>3, <2>4
<1> HIDE DEF new, rest
<1>6. Distinct(new)
  <2> SUFFICES ASSUME NEW i \in 1..n, NEW j \in 1..n, new[i] = new[j]
               PROVE  i = j
    BY <1>4 DEF Distinct
  <2>1. CASE i <= size /\ j <= size
    BY <2>1, <1>3, <1>0 DEF Distinct
  <2>2. CASE i > size /\ j > size
    BY <2>2, <1>3, <1>0
  <2>3. ASSUME NEW a \in 1..n, NEW b \in 1..n, a <= size, b > size
        PROVE  new[a] # new[b]
    <3>1. new[a] = free[a] /\ a \in 1..size
      BY <2>3, <1>3, <1>0
    <3>2. new[a] < nextPage /\ new[a] \in Nat
      BY <3>1, <1>2 DEF Pages
    <3>3. nextPage <= new[b] /\ new[b] \in Nat
      BY <2>3, <1>3 DEF Pages
    <3> QED
      BY <3>2, <3>3, <1>0
  <2> QED
    BY <2>1, <2>2, <2>3, <1>0
<1>7. Distinct(rest)
  <2> SUFFICES ASSUME NEW i \in 1..Len(rest), NEW j \in 1..Len(rest), rest[i] = rest[j]
               PROVE  i = j
    BY DEF Distinct
  <2>1. n + i = n + j
    BY <1>5 DEF Distinct
  <2> QED
    BY <2>1
<1>8. Range(new) \cap Range(rest) = {}
  <2> SUFFICES ASSUME NEW i \in 1..n, NEW j \in 1..Len(rest)
               PROVE  new[i] # rest[j]
    BY <1>4, <1>5, RangeOf
  <2>1. n + j \in 1..size /\ rest[j] = free[n + j] /\ i <= size /\ i # n + j
    <3>1. n + j \in 1..size /\ rest[j] = free[n + j] /\ Len(rest) \in Nat
      BY <1>5, <1>0
    <3>2. j \in Nat /\ j >= 1 /\ i \in Nat /\ i <= n
      BY <3>1, <1>0
    <3> QED
      BY <3>1, <3>2, <1>0
  <2>2. new[i] = free[i] /\ i \in 1..size
    BY <2>1, <1>3, <1>0
  <2> QED
    BY <2>1, <2>2 DEF Distinct
<1>9. ASSUME NEW x \in Range(new) \cup Range(rest)
      PROVE  x \in Range(free) \cup (Used' \ Used)
  <2>1. CASE x \in Range(new)
    <3>1. PICK i \in 1..n : new[i] = x
      BY <2>1, <1>4, RangeOf
    <3>2. i \in 1..size => x \in Range(free)
      BY <3>1, <1>2, <1>3, <1>0
    <3>3. i > size => x \in Used' \ Used
      BY <3>1, <1>3, <1>u DEF Pages
    <3> QED
      BY <3>2, <3>3, <1>0
  <2>2. CASE x \in Range(rest)
    <3>1. PICK i \in 1..Len(rest) : rest[i] = x
      BY <2>2, <1>5, RangeOf
    <3> QED
      BY <3>1, <1>2, <1>5
  <2> QED
    BY <2>1, <2>2
<1>10. ASSUME NEW x, x \in Range(free) \cup (Used' \ Used)
       PROVE  x \in Range(new) \cup Range(rest)
  <2>0. (\A i \in 1..n : new[i] \in Range(new)) /\ (\A i \in 1..Len(rest) : rest[i] \in Range(rest))
    BY <1>4, <1>5, RangeOf
  <2>1. CASE x \in Range(free)
    <3>1. PICK j \in 1..size : free[j] = x
      BY <2>1, RangeOf
    <3>2. CASE j <= n
      BY <3>1, <3>2, <1>3, <1>0, <2>0
    <3>3. CASE j > n
      <4>1. j - n \in 1..Len(rest) /\ n + (j - n) = j
        BY <3>1, <3>3, <1>5, <1>0
      <4> QED
        BY <4>1, <3>1, <1>5, <2>0
    <3> QED
      BY <3>2, <3>3, <1>0
  <2>2. CASE x \in Used' \ Used
    <3> DEFINE i == x - nextPage + size + 1
    <3>0. x \in Int /\ nextPage <= x /\ x < nextPage' /\ n > size
          /\ nextPage' = nextPage + (n - size)
      BY <2>2, <1>u, <1>0, <1>1
    <3>1. i \in 1..n /\ i > size /\ nextPage + (i - size - 1) = x
      BY <3>0, <1>0
    <3> QED
      BY <3>1, <1>3, <2>0
  <2> QED
    BY <1>10, <2>1, <2>2
<1> QED
  BY <1>1, <1>4, <1>5, <1>6, <1>7, <1>8, <1>9, <1>10 DEF new, rest

-----------------------------------------------------------------------------
(***************************************************************************)
(* Slots.                                                                   *)
(***************************************************************************)
LEMMA BytesFit ==
    /\ \A e \in Rows \cup {Hole, Tomb} : Bytes(e) \in 0..PageRoom
    /\ \A row \in Rows : Bytes(row) = RowSize[row] /\ RowSize[row] \in 1..PageRoom - 1
    /\ Bytes(Hole) = 0 /\ Bytes(Tomb) = 1 /\ PageRoom \in Nat \ {0}
<1>1. PageRoom \in Nat \ {0} /\ Bytes(Hole) = 0 /\ Bytes(Tomb) = 1
  BY SizesAssumption DEF Bytes
<1>2. \A row \in Rows : Bytes(row) = RowSize[row] /\ RowSize[row] \in 1..PageRoom - 1
  BY SizesAssumption DEF Bytes
<1>3. ASSUME NEW e \in Rows \cup {Hole, Tomb}
      PROVE  Bytes(e) \in 0..PageRoom
  <2>1. CASE e \in Rows
    BY <2>1, <1>1, <1>2
  <2>2. CASE e \in {Hole, Tomb}
    BY <2>2, <1>1
  <2> QED
    BY <2>1, <2>2
<1> QED
  BY <1>1, <1>2, <1>3

LEMMA RoomType ==
    ASSUME NEW s \in Slots
    PROVE  /\ IsFiniteSet(Units(s)) /\ Cardinality(Units(s)) \in Nat
           /\ Room(s) \in Int /\ Room(s) = PageRoom - Cardinality(Units(s))
<1>1. Len(s) \in Nat /\ PageRoom \in Nat
  BY SizesAssumption DEF Slots
<1>2. IsFiniteSet(1..Len(s)) /\ IsFiniteSet(0..PageRoom)
  BY <1>1, FS_Interval
<1>3. IsFiniteSet((1..Len(s)) \X (0..PageRoom))
  BY <1>2, FS_Product
<1>4. Units(s) \in SUBSET ((1..Len(s)) \X (0..PageRoom))
  BY DEF Units
<1>5. IsFiniteSet(Units(s))
  BY <1>3, <1>4, FS_Subset
<1>6. Cardinality(Units(s)) \in Nat
  BY <1>5, FS_CardinalityType
<1> QED
  BY <1>1, <1>5, <1>6 DEF Room

\* Units: slot i takes one, and one for each byte of its record.
LEMMA UnitsOf ==
    ASSUME NEW s \in Slots, NEW i \in Nat, NEW u \in Nat
    PROVE  <<i, u>> \in Units(s) <=> i \in 1..Len(s) /\ u <= Bytes(s[i])
<1>1. i \in 1..Len(s) => Bytes(s[i]) \in 0..PageRoom
  BY BytesFit DEF Slots
<1>2. i \in 1..Len(s) /\ u <= Bytes(s[i]) => u \in 0..PageRoom
  BY <1>1, BytesFit
<1> QED
  BY <1>2 DEF Units

LEMMA UnitsIn ==
    ASSUME NEW s \in Slots, NEW T,
           \A i \in 1..Len(s) : \A u \in Nat : u <= Bytes(s[i]) => <<i, u>> \in T
    PROVE  Units(s) \subseteq T
<1> SUFFICES ASSUME NEW x \in Units(s)
             PROVE  x \in T
  OBVIOUS
<1>1. x \in (1..Len(s)) \X (0..PageRoom) /\ x[2] <= Bytes(s[x[1]])
  BY DEF Units
<1>2. x[1] \in 1..Len(s) /\ x[2] \in Nat /\ x = <<x[1], x[2]>>
  BY <1>1, BytesFit
<1> QED
  BY <1>1, <1>2

\* Less in the slots, more room.
LEMMA RoomGrows ==
    ASSUME NEW a \in Slots, NEW b \in Slots, Units(a) \subseteq Units(b)
    PROVE  Room(b) <= Room(a)
<1>1. Cardinality(Units(a)) <= Cardinality(Units(b))
  BY RoomType, FS_Subset
<1>2. PageRoom \in Nat
  BY SizesAssumption
<1> QED
  BY <1>1, <1>2, RoomType

\* A page in which every slot holds something has few slots.
LEMMA FewSlots ==
    ASSUME NEW s \in Slots, Room(s) >= 0, \A i \in 1..Len(s) : Bytes(s[i]) >= 1
    PROVE  Len(s) <= PageRoom \div 2
<1> DEFINE n == Len(s)
           both == (1..n) \X (1..2)
           place == [x \in both |-> <<x[1], x[2] - 1>>]
<1>1. n \in Nat /\ PageRoom \in Nat
  BY SizesAssumption DEF Slots
<1>2. IsFiniteSet(1..n) /\ Cardinality(1..n) = n
  BY <1>1, IntervalCount
<1>3. IsFiniteSet(1..2) /\ Cardinality(1..2) = 2
  BY IntervalCount
<1>4. IsFiniteSet(both) /\ Cardinality(both) = n * 2
  <2>1. IsFiniteSet((1..n) \X (1..2))
        /\ Cardinality((1..n) \X (1..2)) = Cardinality(1..n) * Cardinality(1..2)
    BY <1>2, <1>3, FS_Product, Zenon
  <2> QED
    BY <1>2, <1>3, <2>1
<1>5. \A x \in both : <<x[1], x[2] - 1>> \in Units(s)
  <2> TAKE x \in both
  <2>1. x[1] \in 1..n /\ x[1] \in Nat /\ x[2] - 1 \in Nat /\ x[2] - 1 <= 1
    BY <1>1
  <2>2. Bytes(s[x[1]]) >= 1 /\ Bytes(s[x[1]]) \in Int
    BY <2>1, BytesFit DEF Slots
  <2>3. x[2] - 1 <= Bytes(s[x[1]])
    BY <2>1, <2>2
  <2> QED
    BY <2>1, <2>3, UnitsOf
<1>6. place \in [both -> Units(s)]
  BY <1>5
<1>7. \A x, y \in both : place[x] = place[y] => x = y
  <2> TAKE x, y \in both
  <2> HAVE place[x] = place[y]
  <2>1. x[1] = y[1] /\ x[2] - 1 = y[2] - 1
    OBVIOUS
  <2>2. x[2] \in Int /\ y[2] \in Int /\ x = <<x[1], x[2]>> /\ y = <<y[1], y[2]>>
    OBVIOUS
  <2> HIDE DEF place, both
  <2> QED
    BY <2>1, <2>2
<1> HIDE DEF both, place
<1>8. place \in Injection(both, Units(s))
  BY <1>6, <1>7, Fun_IsInj
<1>9. n * 2 <= Cardinality(Units(s))
  BY <1>4, <1>8, RoomType, FS_Injection
<1>10. n * 2 <= PageRoom
  BY <1>9, <1>1, RoomType
<1> QED
  BY <1>10, <1>1

\* Compacting keeps the live rows where they are, and makes room.
Smaller(a, b) ==
    /\ a \in Slots /\ Len(a) <= Len(b) /\ Room(b) <= Room(a)
    /\ Live(a) = Live(b) /\ \A i \in Live(b) : a[i] = b[i]

LEMMA SmallerSelf ==
    ASSUME NEW s \in Slots
    PROVE  Smaller(s, s)
<1>1. Room(s) \in Int /\ Len(s) \in Nat
  BY RoomType DEF Slots
<1> QED
  BY <1>1 DEF Smaller

LEMMA Compacted ==
    ASSUME NEW s \in Slots
    PROVE  Smaller(Compact(s), s)
<1> DEFINE last == CHOOSE n \in {0} \cup Live(s) : \A i \in Live(s) : i <= n
           c == Compact(s)
<1>1. Len(s) \in Nat /\ Live(s) \subseteq 1..Len(s)
  BY DEF Live, Slots
<1>2. last \in {0} \cup Live(s) /\ \A i \in Live(s) : i <= last
  <2>1. \E n \in {0} \cup Live(s) : \A i \in Live(s) : i <= n
    <3>1. CASE Live(s) = {}
      BY <3>1
    <3>2. CASE Live(s) # {}
      <4>1. Live(s) \in SUBSET Nat /\ \A i \in Live(s) : i <= Len(s)
        BY <1>1
      <4>2. \E n \in Live(s) : \A i \in Live(s) : i <= n
        BY <3>2, <4>1, <1>1, GreatestNumber
      <4> QED
        BY <4>2
    <3> QED
      BY <3>1, <3>2
  <2> QED
    BY <2>1
<1>3. last \in 0..Len(s)
  <2> HIDE DEF last
  <2>1. CASE last = 0
    BY <2>1, <1>1
  <2>2. CASE last \in Live(s)
    <3>1. last \in 1..Len(s)
      BY <2>2, <1>1
    <3> QED
      BY <3>1, <1>1
  <2> QED
    BY <2>1, <2>2, <1>2
<1>4. c = [i \in 1..last |-> IF s[i] \in Rows THEN s[i] ELSE Hole]
  BY DEF Compact
<1> HIDE DEF last, c
<1>5. /\ c \in Slots /\ Len(c) = last
      /\ \A i \in 1..last : c[i] = IF s[i] \in Rows THEN s[i] ELSE Hole
  <2>1. \A i \in 1..last : c[i] \in Rows \cup {Hole, Tomb}
    BY <1>4
  <2> QED
    BY <1>3, <1>4, <2>1 DEF Slots
<1>6. Live(c) = Live(s)
  BY <1>1, <1>2, <1>3, <1>5, SizesAssumption DEF Live
<1>7. \A i \in Live(s) : c[i] = s[i]
  BY <1>6, <1>5 DEF Live
<1>8. Units(c) \subseteq Units(s)
  <2>1. ASSUME NEW i \in 1..Len(c), NEW u \in Nat, u <= Bytes(c[i])
        PROVE  <<i, u>> \in Units(s)
    <3>1. i \in 1..Len(s) /\ i \in Nat
      BY <1>3, <1>5
    <3>2. s[i] \in Rows \cup {Hole, Tomb}
      BY <3>1 DEF Slots
    <3>3. u <= Bytes(s[i])
      <4>1. CASE s[i] \in Rows
        BY <4>1, <2>1, <1>5
      <4>2. CASE s[i] \notin Rows
        BY <4>2, <2>1, <1>5, <3>2, BytesFit
      <4> QED
        BY <4>1, <4>2
    <3> QED
      BY <3>1, <3>3, UnitsOf
  <2> QED
    BY <1>5, <2>1, UnitsIn
<1>9. Room(s) <= Room(c)
  BY <1>5, <1>8, RoomGrows
<1> QED
  BY <1>3, <1>5, <1>6, <1>7, <1>9 DEF Smaller, c

LEMMA CleanedIs ==
    ASSUME NEW s \in Slots
    PROVE  Smaller(Cleaned(s), s)
  BY Compacted, SmallerSelf DEF Cleaned

\* Delete: the row of one slot goes.
LEMMA RowCut ==
    ASSUME NEW s \in Slots, NEW k \in Live(s)
    PROVE  LET cut == Compact([s EXCEPT ![k] = Hole])
           IN  /\ cut \in Slots /\ Len(cut) <= Len(s) /\ Room(s) <= Room(cut)
               /\ Live(cut) = Live(s) \ {k} /\ \A i \in Live(cut) : cut[i] = s[i]
<1> DEFINE h == [s EXCEPT ![k] = Hole]
           cut == Compact(h)
<1>1. s \in Seq(Rows \cup {Hole, Tomb}) /\ k \in 1..Len(s)
  BY DEF Live, Slots
<1>2. /\ h \in Slots /\ Len(h) = Len(s)
      /\ \A j \in 1..Len(s) : h[j] = IF j = k THEN Hole ELSE s[j]
  BY <1>1, ExceptSeq DEF Slots
<1> HIDE DEF h
<1>3. Smaller(cut, h)
  BY <1>2, Compacted
<1>4. Live(h) = Live(s) \ {k}
  BY <1>1, <1>2, SizesAssumption DEF Live
<1>5. \A i \in Live(h) : h[i] = s[i]
  BY <1>2, <1>4 DEF Live
<1>6. Units(h) \subseteq Units(s)
  <2>1. ASSUME NEW i \in 1..Len(h), NEW u \in Nat, u <= Bytes(h[i])
        PROVE  <<i, u>> \in Units(s)
    <3>1. i \in 1..Len(s) /\ i \in Nat
      BY <1>2
    <3>2. s[i] \in Rows \cup {Hole, Tomb}
      BY <3>1 DEF Slots
    <3>3. u <= Bytes(s[i])
      BY <3>1, <3>2, <2>1, <1>2, BytesFit
    <3> QED
      BY <3>1, <3>3, UnitsOf
  <2> QED
    BY <1>2, <2>1, UnitsIn
<1>7. Room(s) <= Room(h)
  BY <1>2, <1>6, RoomGrows
<1> HIDE DEF cut
<1>8. Room(s) \in Int /\ Room(h) \in Int /\ Room(cut) \in Int
  BY <1>2, <1>3, RoomType DEF Smaller
<1>9. Room(s) <= Room(cut)
  BY <1>3, <1>7, <1>8 DEF Smaller
<1>10. Live(cut) = Live(s) \ {k} /\ \A i \in Live(cut) : cut[i] = s[i]
  BY <1>3, <1>4, <1>5 DEF Smaller
<1>11. cut \in Slots /\ Len(cut) <= Len(s)
  BY <1>2, <1>3 DEF Smaller
<1> QED
  BY <1>9, <1>10, <1>11 DEF cut, h

\* Insert takes a dead slot or a new one.
LEMMA SlotTaken ==
    ASSUME NEW s \in Slots
    PROVE  /\ SlotFor(s) \in 1..Len(s) + 1 /\ SlotFor(s) \notin Live(s)
           /\ SlotFor(s) > Len(s) => Live(s) = 1..Len(s)
<1>1. Len(s) \in Nat /\ Live(s) \subseteq 1..Len(s)
  BY DEF Live, Slots
<1>2. CASE Live(s) = 1..Len(s)
  BY <1>1, <1>2 DEF SlotFor
<1>3. CASE Live(s) # 1..Len(s)
  <2> DEFINE dead == {i \in 1..Len(s) : s[i] \notin Rows}
  <2>1. dead \in SUBSET Nat /\ dead # {}
    BY <1>1, <1>3 DEF Live
  <2>2. PICK i \in dead : \A j \in dead : i <= j
    BY <2>1, LeastNumber
  <2>3. 1..i - 1 \subseteq Live(s)
    BY <2>2, <1>1 DEF Live
  <2>4. SlotFor(s) \in 1..Len(s) /\ s[SlotFor(s)] \notin Rows
    BY <1>3, <2>2, <2>3 DEF SlotFor
  <2> QED
    BY <2>4, <1>1 DEF Live
<1> QED
  BY <1>2, <1>3

LEMMA RowPut ==
    ASSUME NEW s \in Slots, NEW row \in Rows, Fits(s, row)
    PROVE  LET k == SlotFor(s)
               put == Put(s, row)
           IN  /\ put \in Slots /\ Len(put) = (IF k > Len(s) THEN Len(s) + 1 ELSE Len(s))
               /\ k \in 1..Len(put) /\ \A i \in 1..Len(put) : put[i] = IF i = k THEN row ELSE s[i]
               /\ Live(put) = Live(s) \cup {k} /\ k \notin Live(s)
               /\ Room(put) >= 0
               /\ Len(s) <= PageRoom \div 2 => Len(put) <= PageRoom \div 2
<1> DEFINE k == SlotFor(s)
           put == Put(s, row)
           n == IF k > Len(s) THEN Len(s) + 1 ELSE Len(s)
           spent == RowSize[row] + (IF k > Len(s) THEN 1 ELSE 0)
           extra == {k} \X (IF k > Len(s) THEN 0..RowSize[row] ELSE 1..RowSize[row])
<1>1. /\ Len(s) \in Nat /\ k \in 1..Len(s) + 1 /\ k \notin Live(s)
      /\ k > Len(s) => Live(s) = 1..Len(s)
  BY SlotTaken DEF Slots
<1>2. RowSize[row] \in 1..PageRoom - 1 /\ Bytes(row) = RowSize[row] /\ PageRoom \in Nat
  BY BytesFit
<1>3. spent <= Room(s)
  BY DEF Fits
<1>4. 1..Len(s) \cup {k} = 1..n
  BY <1>1
<1>5. put = [i \in 1..n |-> IF i = k THEN row ELSE s[i]]
  BY <1>4 DEF Put
<1> HIDE DEF put, k
<1>6. n \in Nat /\ k \in 1..n
  BY <1>1
<1>7. /\ put \in Slots /\ Len(put) = n
      /\ \A i \in 1..n : put[i] = IF i = k THEN row ELSE s[i]
  <2> HIDE DEF n
  <2>1. \A i \in 1..n : i # k => i \in 1..Len(s)
    BY <1>4
  <2>2. \A i \in 1..n : put[i] \in Rows \cup {Hole, Tomb}
    BY <2>1, <1>5 DEF Slots
  <2> QED
    BY <1>5, <1>6, <2>2 DEF Slots
<1>8. Live(put) = Live(s) \cup {k}
  BY <1>1, <1>4, <1>7 DEF Live
<1>9. Units(put) \subseteq Units(s) \cup extra
  <2>1. ASSUME NEW i \in 1..Len(put), NEW u \in Nat, u <= Bytes(put[i])
        PROVE  <<i, u>> \in Units(s) \cup extra
    <3>0. i \in Nat /\ (i = k \/ i \in 1..Len(s))
      BY <1>4, <1>7
    <3>1. CASE i # k
      <4>1. put[i] = s[i] /\ i \in 1..Len(s)
        BY <3>0, <3>1, <1>7
      <4> QED
        BY <2>1, <3>0, <4>1, UnitsOf
    <3>2. CASE i = k
      <4>1. u <= RowSize[row]
        BY <2>1, <3>2, <1>2, <1>7
      <4>2. CASE k > Len(s) \/ u # 0
        BY <3>2, <4>1, <4>2, <1>2
      <4>3. CASE ~(k > Len(s)) /\ u = 0
        <5>1. k \in 1..Len(s) /\ s[k] \in Rows \cup {Hole, Tomb}
          BY <1>1, <4>3 DEF Slots
        <5>2. Bytes(s[k]) >= 0
          BY <5>1, BytesFit
        <5> QED
          BY <3>0, <3>2, <4>3, <5>1, <5>2, UnitsOf
      <4> QED
        BY <4>2, <4>3
    <3> QED
      BY <3>1, <3>2
  <2> HIDE DEF extra
  <2> QED
    BY <1>7, <2>1, UnitsIn
<1>10. IsFiniteSet(extra) /\ Cardinality(extra) = spent
  <2> DEFINE R == IF k > Len(s) THEN 0..RowSize[row] ELSE 1..RowSize[row]
  <2>1. IsFiniteSet(R) /\ Cardinality(R) = spent
    BY <1>2, FS_Interval
  <2>2. IsFiniteSet({k}) /\ Cardinality({k}) = 1
    BY FS_Singleton
  <2>3. spent \in Nat
    BY <1>2
  <2> HIDE DEF R, spent
  <2>4. IsFiniteSet({k} \X R) /\ Cardinality({k} \X R) = 1 * Cardinality(R)
    BY <2>1, <2>2, FS_Product
  <2> QED
    BY <2>1, <2>3, <2>4 DEF R
<1>11. Cardinality(Units(put)) <= Cardinality(Units(s)) + spent
  <2>1. IsFiniteSet(Units(s)) /\ Cardinality(Units(s)) \in Nat
    BY RoomType
  <2>2. IsFiniteSet(Units(put)) /\ Cardinality(Units(put)) \in Nat
    BY <1>7, RoomType
  <2> HIDE DEF extra
  <2>3. /\ IsFiniteSet(Units(s) \cup extra)
        /\ Cardinality(Units(s) \cup extra)
             = Cardinality(Units(s)) + Cardinality(extra) - Cardinality(Units(s) \cap extra)
    BY <2>1, <1>10, FS_Union
  <2>4. Cardinality(Units(put)) <= Cardinality(Units(s) \cup extra)
    BY <2>3, <1>9, FS_Subset
  <2>5. Cardinality(Units(s) \cap extra) \in Nat
    BY <2>1, FS_Intersection, FS_CardinalityType
  <2>6. spent \in Nat
    BY <1>2
  <2> HIDE DEF spent
  <2> QED
    BY <2>1, <2>2, <2>3, <2>4, <2>5, <2>6, <1>10
<1>12. Room(put) >= 0
  <2>1. spent \in Nat
    BY <1>2
  <2> HIDE DEF spent
  <2> QED
    BY <1>2, <1>3, <1>7, <1>11, <2>1, RoomType
<1>13. ASSUME Len(s) <= PageRoom \div 2
       PROVE  n <= PageRoom \div 2
  <2>1. CASE k > Len(s)
    <3>1. Live(put) = 1..n
      BY <1>1, <1>4, <1>8, <2>1
    <3>2. \A i \in 1..n : Bytes(put[i]) >= 1
      BY <3>1, <1>7, BytesFit DEF Live
    <3> HIDE DEF n
    <3> QED
      BY <3>2, <1>7, <1>12, FewSlots
  <2>2. CASE ~(k > Len(s))
    BY <2>2, <1>13
  <2> QED
    BY <2>1, <2>2
<1> QED
  BY <1>1, <1>6, <1>7, <1>8, <1>12, <1>13 DEF put, k

-----------------------------------------------------------------------------
(***************************************************************************)
(* _write_chain.                                                            *)
(***************************************************************************)

\* Some of the records, one after the other, on a page of their own.
LEMMA RecordsOnPage ==
    ASSUME NEW records \in Seq(Rows), NEW s \in Nat \ {0}, NEW e \in Nat, e <= Len(records)
    PROVE  LET f == SubSeq(records, s, e)
           IN  /\ f \in Slots /\ Len(f) = (IF s <= e THEN e - s + 1 ELSE 0)
               /\ \A j \in 1..Len(f) : /\ s + j - 1 \in s..e /\ f[j] = records[s + j - 1]
                                       /\ f[j] \in Rows
               /\ Live(f) = 1..Len(f)
<1> DEFINE f == SubSeq(records, s, e)
<1>1. \A i \in s..e : records[i] \in Rows
  BY ElementOfSeq
<1>2. /\ f \in Seq(Rows) /\ Len(f) = (IF s <= e THEN e - s + 1 ELSE 0)
      /\ \A i \in 1..e - s + 1 : f[i] = records[s + i - 1]
  BY <1>1, SubSeqProperties
<1> HIDE DEF f
<1>3. \A j \in 1..Len(f) : s + j - 1 \in s..e /\ j \in 1..e - s + 1
  BY <1>2
<1>4. f \in Slots
  BY <1>2, SeqMonotonic DEF Slots
<1>5. \A j \in 1..Len(f) : f[j] \in Rows
  BY <1>2
<1> QED
  BY <1>2, <1>3, <1>4, <1>5 DEF Live, f

LEMMA EmptyPage ==
    /\ <<>> \in Slots /\ Len(<<>>) = 0 /\ Live(<<>>) = {} /\ Room(<<>>) = PageRoom
    /\ PageRoom \in Nat /\ 0 <= PageRoom \div 2
<1>1. <<>> \in Slots /\ Len(<<>>) = 0
  BY EmptySeq DEF Slots
<1>2. Live(<<>>) = {} /\ Units(<<>>) = {}
  BY <1>1 DEF Live, Units
<1>3. PageRoom \in Nat
  BY SizesAssumption
<1> QED
  BY <1>1, <1>2, <1>3, FS_EmptySet DEF Room

\* A page takes any one record.
LEMMA OneRecordFits ==
    ASSUME NEW row \in Rows
    PROVE  /\ Fits(<<>>, row) /\ <<row>> \in Slots /\ Live(<<row>>) = {1} /\ Len(<<row>>) = 1
           /\ Room(<<row>>) >= 0 /\ 1 <= PageRoom \div 2
<1>1. SlotFor(<<>>) = 1
  BY EmptyPage DEF SlotFor
<1>2. Fits(<<>>, row)
  BY <1>1, EmptyPage, BytesFit DEF Fits
<1> DEFINE put == Put(<<>>, row)
<1>3. /\ put \in Slots /\ Len(put) = 1 /\ put[1] = row /\ Live(put) = {1} /\ Room(put) >= 0
      /\ Len(put) <= PageRoom \div 2
  <2>1. <<>> \in Slots /\ Len(<<>>) = 0 /\ Live(<<>>) = {} /\ 0 <= PageRoom \div 2
    BY EmptyPage
  <2>2. LET k == SlotFor(<<>>)
        IN  /\ put \in Slots /\ Len(put) = (IF k > Len(<<>>) THEN Len(<<>>) + 1 ELSE Len(<<>>))
            /\ k \in 1..Len(put)
            /\ \A i \in 1..Len(put) : put[i] = IF i = k THEN row ELSE <<>>[i]
            /\ Live(put) = Live(<<>>) \cup {k}
            /\ Room(put) >= 0
            /\ Len(<<>>) <= PageRoom \div 2 => Len(put) <= PageRoom \div 2
    BY <2>1, <1>2, RowPut
  <2> HIDE DEF put
  <2> QED
    BY <2>1, <2>2, <1>1
<1> HIDE DEF put
<1>4. put = <<row>>
  BY <1>3 DEF Slots
<1> QED
  BY <1>2, <1>3, <1>4

\* The last record of the page that begins with s.
EndOf(records, starts, s) ==
    CHOOSE e \in 0..Len(records) : /\ e = Len(records) \/ (s <= e /\ e + 1 \in starts)
                                   /\ \A x \in starts : x <= s \/ e < x

\* Page beginnings for a sequence of records: the first one, and later ones.
Beginnings(records, starts) ==
    1 \in starts /\ starts \ {1} \subseteq 2..Len(records)

LEMMA EndIs ==
    ASSUME NEW records \in Seq(Rows), NEW starts, Beginnings(records, starts), NEW s \in starts
    PROVE  LET e == EndOf(records, starts, s)
           IN  /\ e \in 0..Len(records)
               /\ e = Len(records) \/ (s <= e /\ e + 1 \in starts)
               /\ \A x \in starts : x <= s \/ e < x
<1> DEFINE Right(e) == /\ e = Len(records) \/ (s <= e /\ e + 1 \in starts)
                       /\ \A x \in starts : x <= s \/ e < x
           later == {x \in starts : x > s}
<1>1. Len(records) \in Nat /\ starts \subseteq Nat /\ s \in Nat
  BY DEF Beginnings
<1>2. \E e \in 0..Len(records) : Right(e)
  <2>1. CASE later = {}
    <3>1. Right(Len(records))
      BY <2>1, <1>1
    <3> QED
      BY <3>1, <1>1
  <2>2. CASE later # {}
    <3>1. later \in SUBSET Nat
      BY <1>1
    <3>2. PICK m \in later : \A x \in later : m <= x
      BY <2>2, <3>1, LeastNumber
    <3>3. m \in starts /\ m > s /\ m \in Nat
      BY <1>1
    <3>4. m \in 2..Len(records)
      BY <3>3, <1>1 DEF Beginnings
    <3>5. Right(m - 1)
      BY <3>2, <3>3, <3>4, <1>1
    <3>6. m - 1 \in 0..Len(records)
      BY <3>4, <1>1
    <3> HIDE DEF Right
    <3> QED
      BY <3>5, <3>6
  <2> QED
    BY <2>1, <2>2
<1> QED
  BY <1>2 DEF EndOf

\* _write_chain fills no page beyond its room.
LEMMA PageFilled ==
    ASSUME NEW records \in Seq(Rows), NEW starts, Beginnings(records, starts),
           Packed(records, starts), NEW s \in starts
    PROVE  LET f == Filled(records, starts, s)
               e == EndOf(records, starts, s)
           IN  /\ f \in Slots /\ Room(f) >= 0 /\ Len(f) <= PageRoom \div 2
               /\ Live(f) = 1..Len(f) /\ Len(f) = (IF s <= e THEN e - s + 1 ELSE 0)
               /\ \A j \in 1..Len(f) : s + j - 1 \in s..e /\ f[j] = records[s + j - 1]
<1> DEFINE e == EndOf(records, starts, s)
           f == SubSeq(records, s, e)
<1>0. Filled(records, starts, s) = f
  BY DEF Filled, EndOf
<1>1. /\ Len(records) \in Nat /\ starts \subseteq Nat \ {0} /\ s \in Nat \ {0}
      /\ s = 1 \/ s \in 2..Len(records)
  BY DEF Beginnings
<1>2. /\ e \in 0..Len(records) /\ e \in Nat /\ e <= Len(records)
      /\ e = Len(records) \/ (s <= e /\ e + 1 \in starts)
      /\ \A x \in starts : x <= s \/ e < x
  BY <1>1, EndIs
<1> HIDE DEF e
<1>3. /\ f \in Slots /\ Len(f) = (IF s <= e THEN e - s + 1 ELSE 0)
      /\ \A j \in 1..Len(f) : s + j - 1 \in s..e /\ f[j] = records[s + j - 1] /\ f[j] \in Rows
      /\ Live(f) = 1..Len(f)
  BY <1>1, <1>2, RecordsOnPage
<1>4. Room(f) >= 0
  <2>1. CASE ~(s <= e)
    <3>1. f = <<>>
      BY <2>1, <1>3 DEF Slots
    <3> QED
      BY <3>1, EmptyPage
  <2>2. CASE s = e
    <3> HIDE DEF f
    <3>0. Len(f) = 1
      BY <2>2, <1>1, <1>2, <1>3
    <3>1. f = <<f[1]>> /\ f[1] \in Rows
      BY <3>0, <1>3 DEF Slots
    <3> QED
      BY <3>1, OneRecordFits
  <2>3. CASE s < e
    <3> DEFINE base == SubSeq(records, s, e - 1)
               from == CHOOSE x \in starts : x < e /\ \A y \in starts : y <= x \/ e <= y
               row == records[e]
    <3>1. e \notin starts /\ e \in 2..Len(records)
      BY <2>3, <1>1, <1>2
    <3>2. from = s
      <4>1. s < e /\ \A y \in starts : y <= s \/ e <= y
        BY <2>3, <1>1, <1>2
      <4>2. \A x \in starts : x < e /\ (\A y \in starts : y <= x \/ e <= y) => x = s
        BY <2>3, <1>1, <1>2
      <4> QED
        BY <4>1, <4>2
    <3>3. Fits(base, row)
      BY <3>1, <3>2 DEF Packed
    <3>4. e - 1 \in Nat /\ e - 1 <= Len(records) /\ s <= e - 1 /\ row \in Rows
      BY <2>3, <1>1, <1>2
    <3>5. /\ base \in Slots /\ Len(base) = e - 1 - s + 1 /\ Live(base) = 1..Len(base)
          /\ \A j \in 1..Len(base) : base[j] = records[s + j - 1]
      BY <3>4, <1>1, RecordsOnPage
    <3> HIDE DEF base, row
    <3> DEFINE put == Put(base, row)
    <3>6. SlotFor(base) = Len(base) + 1 /\ Len(base) \in Nat
      BY <3>5 DEF SlotFor, Slots
    <3>7. /\ put \in Slots /\ Len(put) = Len(base) + 1 /\ Room(put) >= 0
          /\ \A i \in 1..Len(put) : put[i] = IF i = Len(base) + 1 THEN row ELSE base[i]
      BY <3>3, <3>4, <3>5, <3>6, RowPut
    <3> HIDE DEF put
    <3>8. Len(put) = Len(f) /\ Len(f) = e - s + 1
      BY <3>4, <3>5, <3>7, <1>1, <1>2, <1>3
    <3>9. ASSUME NEW i \in 1..Len(f)
          PROVE  put[i] = f[i]
      <4>0. f[i] = records[s + i - 1] /\ i \in 1..Len(put)
        BY <3>8, <1>3
      <4>1. CASE i = Len(base) + 1
        <5>1. s + i - 1 = e
          BY <4>1, <3>5, <1>1, <1>2
        <5> QED
          BY <4>0, <4>1, <5>1, <3>7 DEF row
      <4>2. CASE i # Len(base) + 1
        <5>1. i \in 1..Len(base)
          BY <4>0, <4>2, <3>6, <3>7
        <5> QED
          BY <4>0, <4>2, <5>1, <3>5, <3>7
      <4> QED
        BY <4>1, <4>2
    <3> HIDE DEF f
    <3>10. put = f
      BY <3>7, <3>8, <3>9, <1>3 DEF Slots
    <3> QED
      BY <3>7, <3>10
  <2> QED
    BY <2>1, <2>2, <2>3, <1>1, <1>2
<1> HIDE DEF f
<1>5. \A i \in 1..Len(f) : Bytes(f[i]) >= 1
  BY <1>3, BytesFit
<1>6. Len(f) <= PageRoom \div 2
  BY <1>3, <1>4, <1>5, FewSlots
<1> QED
  BY <1>0, <1>3, <1>4, <1>6 DEF e

-----------------------------------------------------------------------------
(***************************************************************************)
(* Elements in order.                                                       *)
(***************************************************************************)
Rank(S, place, x) == Cardinality({y \in S : place[y] <= place[x]})

\* Elements at different places have different ranks, and every rank is taken.
LEMMA Ranks ==
    ASSUME NEW S, IsFiniteSet(S), NEW place \in [S -> Nat],
           \A x, y \in S : place[x] = place[y] => x = y
    PROVE  /\ \A x \in S : Rank(S, place, x) \in 1..Cardinality(S)
           /\ \A x, y \in S : place[x] < place[y] => Rank(S, place, x) < Rank(S, place, y)
           /\ \A x, y \in S : Rank(S, place, x) = Rank(S, place, y) => x = y
           /\ \A n \in 1..Cardinality(S) : \E x \in S : Rank(S, place, x) = n
<1> DEFINE upto(x) == {y \in S : place[y] <= place[x]}
           rank == [x \in S |-> Rank(S, place, x)]
<1>0. Cardinality(S) \in Nat
  BY FS_CardinalityType
<1>1. ASSUME NEW x \in S
      PROVE  /\ IsFiniteSet(upto(x)) /\ Cardinality(upto(x)) = Rank(S, place, x)
             /\ Rank(S, place, x) \in 1..Cardinality(S) /\ Rank(S, place, x) \in Int
  <2>1. upto(x) \in SUBSET S /\ x \in upto(x)
    OBVIOUS
  <2>2. IsFiniteSet(upto(x)) /\ Cardinality(upto(x)) <= Cardinality(S)
    BY <2>1, FS_Subset
  <2>3. Cardinality(upto(x)) \in Nat /\ Cardinality(upto(x)) # 0
    BY <2>1, <2>2, FS_CardinalityType, FS_EmptySet
  <2> QED
    BY <2>2, <2>3, <1>0 DEF Rank
<1>2. ASSUME NEW x \in S, NEW y \in S, place[x] < place[y]
      PROVE  Rank(S, place, x) < Rank(S, place, y)
  <2>1. upto(x) \in SUBSET upto(y)
    BY <1>2
  <2>2. y \in upto(y) /\ y \notin upto(x)
    BY <1>2
  <2> HIDE DEF upto
  <2>3. Cardinality(upto(x)) <= Cardinality(upto(y)) /\ Cardinality(upto(x)) # Cardinality(upto(y))
    BY <2>1, <2>2, <1>1, FS_Subset
  <2> QED
    BY <2>3, <1>0, <1>1
<1>3. ASSUME NEW x \in S, NEW y \in S, Rank(S, place, x) = Rank(S, place, y)
      PROVE  x = y
  <2>1. place[x] \in Nat /\ place[y] \in Nat
    OBVIOUS
  <2>2. Rank(S, place, x) \in Int
    BY <1>0, <1>1
  <2>3. ~(place[x] < place[y])
    <3> SUFFICES ASSUME place[x] < place[y] PROVE FALSE
      OBVIOUS
    <3>1. Rank(S, place, x) < Rank(S, place, y)
      BY <1>2
    <3> QED
      BY <3>1, <2>2, <1>3
  <2>4. ~(place[y] < place[x])
    <3> SUFFICES ASSUME place[y] < place[x] PROVE FALSE
      OBVIOUS
    <3>1. Rank(S, place, y) < Rank(S, place, x)
      BY <1>2
    <3> QED
      BY <3>1, <2>2, <1>3
  <2> QED
    BY <2>1, <2>3, <2>4
<1>4. rank \in Injection(S, 1..Cardinality(S))
  <2>1. rank \in [S -> 1..Cardinality(S)]
    BY <1>1
  <2>2. \A x, y \in S : rank[x] = rank[y] => x = y
    BY <1>3
  <2> HIDE DEF rank
  <2> QED
    BY <2>1, <2>2, Fun_IsInj
<1>5. rank \in Surjection(S, 1..Cardinality(S))
  <2> HIDE DEF rank
  <2>1. IsFiniteSet(1..Cardinality(S)) /\ Cardinality(1..Cardinality(S)) = Cardinality(S)
    BY <1>0, IntervalCount
  <2> QED
    BY <1>4, <2>1, FS_Injection
<1>6. ASSUME NEW n \in 1..Cardinality(S)
      PROVE  \E x \in S : Rank(S, place, x) = n
  <2>1. PICK x \in S : rank[x] = n
    <3> HIDE DEF rank
    <3> QED
      BY <1>5 DEF Surjection
  <2> QED
    BY <2>1
<1> QED
  BY <1>1, <1>2, <1>3, <1>6

\* The element of rank n.
Nth(S, place, n) == CHOOSE x \in S : Rank(S, place, x) = n

LEMMA NthIs ==
    ASSUME NEW S, IsFiniteSet(S), NEW place \in [S -> Nat],
           \A x, y \in S : place[x] = place[y] => x = y
    PROVE  /\ \A n \in 1..Cardinality(S) : /\ Nth(S, place, n) \in S
                                           /\ Rank(S, place, Nth(S, place, n)) = n
           /\ \A x \in S : /\ Rank(S, place, x) \in 1..Cardinality(S)
                           /\ Nth(S, place, Rank(S, place, x)) = x
<1>1. \A n \in 1..Cardinality(S) : /\ Nth(S, place, n) \in S
                                   /\ Rank(S, place, Nth(S, place, n)) = n
  BY Ranks DEF Nth
<1>2. \A x \in S : Rank(S, place, x) \in 1..Cardinality(S)
  BY Ranks
<1>3. \A x \in S : Nth(S, place, Rank(S, place, x)) = x
  BY <1>1, <1>2, Ranks
<1> QED
  BY <1>1, <1>2, <1>3

\* The i-th page beginning.
StartOf(starts, i) == CHOOSE s \in starts : Cardinality({x \in starts : x <= s}) = i

LEMMA StartIs ==
    ASSUME NEW starts \in SUBSET Nat, IsFiniteSet(starts)
    PROVE  /\ \A i \in 1..Cardinality(starts) : StartOf(starts, i) \in starts
           /\ \A i, j \in 1..Cardinality(starts) : StartOf(starts, i) = StartOf(starts, j) => i = j
           /\ \A s \in starts : \E i \in 1..Cardinality(starts) : StartOf(starts, i) = s
<1> DEFINE count(s) == Cardinality({x \in starts : x <= s})
<1>0. [x \in starts |-> x] \in [starts -> Nat]
  OBVIOUS
<1>1. PICK place \in [starts -> Nat] : \A x \in starts : place[x] = x
  BY <1>0
<1>2. \A s \in starts : count(s) = Rank(starts, place, s)
  <2> TAKE s \in starts
  <2>1. {x \in starts : x <= s} = {x \in starts : place[x] <= place[s]}
    BY <1>1
  <2> QED
    BY <2>1 DEF Rank
<1>3. /\ \A s \in starts : Rank(starts, place, s) \in 1..Cardinality(starts)
      /\ \A s, r \in starts : Rank(starts, place, s) = Rank(starts, place, r) => s = r
      /\ \A i \in 1..Cardinality(starts) : \E s \in starts : Rank(starts, place, s) = i
  <2>1. /\ \A x \in starts : Rank(starts, place, x) \in 1..Cardinality(starts)
        /\ \A x, y \in starts : Rank(starts, place, x) = Rank(starts, place, y) => x = y
        /\ \A n \in 1..Cardinality(starts) : \E x \in starts : Rank(starts, place, x) = n
    <3>1. \A x, y \in starts : place[x] = place[y] => x = y
      BY <1>1
    <3>2. IsFiniteSet(starts) /\ place \in [starts -> Nat]
      OBVIOUS
    <3>3. \A x \in starts : Rank(starts, place, x) \in 1..Cardinality(starts)
      BY <3>1, <3>2, Ranks
    <3>4. \A x, y \in starts : Rank(starts, place, x) = Rank(starts, place, y) => x = y
      BY <3>1, <3>2, Ranks
    <3>5. \A n \in 1..Cardinality(starts) : \E x \in starts : Rank(starts, place, x) = n
      <4> TAKE n \in 1..Cardinality(starts)
      <4>1. \A m \in 1..Cardinality(starts) : /\ Nth(starts, place, m) \in starts
                                              /\ Rank(starts, place, Nth(starts, place, m)) = m
        BY <3>1, <3>2, NthIs, Zenon
      <4> QED
        BY <4>1
    <3> QED
      BY <3>3, <3>4, <3>5
  <2> QED
    BY <2>1
<1>4. /\ \A s \in starts : count(s) \in 1..Cardinality(starts)
      /\ \A s, r \in starts : count(s) = count(r) => s = r
      /\ \A i \in 1..Cardinality(starts) : \E s \in starts : count(s) = i
  BY <1>2, <1>3
<1>5. \A i : StartOf(starts, i) = CHOOSE s \in starts : count(s) = i
  BY DEF StartOf
<1> HIDE DEF count
<1>6. \A i \in 1..Cardinality(starts) : /\ StartOf(starts, i) \in starts
                                            /\ count(StartOf(starts, i)) = i
  BY <1>4, <1>5
<1>7. ASSUME NEW s \in starts
      PROVE  \E i \in 1..Cardinality(starts) : StartOf(starts, i) = s
  <2>1. count(s) \in 1..Cardinality(starts)
    BY <1>4
  <2>2. StartOf(starts, count(s)) = s
    BY <2>1, <1>4, <1>6
  <2> QED
    BY <2>1, <2>2
<1>8. \A i, j \in 1..Cardinality(starts) : StartOf(starts, i) = StartOf(starts, j) => i = j
  BY <1>6
<1> QED
  BY <1>6, <1>7, <1>8

-----------------------------------------------------------------------------
(***************************************************************************)
(* The inductive invariant.                                                 *)
(***************************************************************************)

\* Every root map entry begins a chain.
ChainsLinked == \A t \in Tables : Linked(page, Chain(t), root[t])

\* The pages used are those of the free list and those of the tables, each in
\* one place.
Divided(used, idle, sets) ==
    /\ idle \subseteq used
    /\ \A t \in Tables : sets[t] \subseteq used \ idle
    /\ \A t, u \in Tables : t # u => sets[t] \cap sets[u] = {}
    /\ \A p \in used : p \in idle \/ \E t \in Tables : p \in sets[t]

ChainSets == [t \in Tables |-> ChainSet(t)]

Settled == Distinct(free) /\ Divided(Used, Range(free), ChainSets)

HeapInv == TypeOK /\ ChainsLinked /\ Settled /\ HintsOwned

\* Pages move between one table, the free list and the end of the file.
LEMMA Reassigned ==
    ASSUME NEW used, NEW idle, NEW sets, Divided(used, idle, sets), DOMAIN sets = Tables,
           NEW t \in Tables, NEW used2, used \subseteq used2, NEW own, NEW rest,
           own \cap rest = {}, own \cup rest = idle \cup sets[t] \cup (used2 \ used)
    PROVE  Divided(used2, rest, [sets EXCEPT ![t] = own])
<1> DEFINE after == [sets EXCEPT ![t] = own]
<1>1. after[t] = own /\ \A u \in Tables \ {t} : after[u] = sets[u]
  OBVIOUS
<1> HIDE DEF after
<1>2. own \subseteq used2 /\ rest \subseteq used2
  BY DEF Divided
<1>3. \A u \in Tables \ {t} : sets[u] \cap (own \cup rest) = {} /\ sets[u] \subseteq used2
  BY DEF Divided
<1>4. \A u \in Tables : after[u] \subseteq used2 \ rest
  BY <1>1, <1>2, <1>3
<1>5. \A u, v \in Tables : u # v => after[u] \cap after[v] = {}
  <2> SUFFICES ASSUME NEW u \in Tables, NEW v \in Tables, u # v
               PROVE  after[u] \cap after[v] = {}
    OBVIOUS
  <2>1. CASE u = t
    BY <2>1, <1>1, <1>3
  <2>2. CASE v = t
    BY <2>2, <1>1, <1>3
  <2>3. CASE u # t /\ v # t
    BY <2>3, <1>1 DEF Divided
  <2> QED
    BY <2>1, <2>2, <2>3
<1>6. ASSUME NEW p \in used2
      PROVE  p \in rest \/ \E u \in Tables : p \in after[u]
  <2>1. CASE p \in own \cup rest
    BY <2>1, <1>1
  <2>2. CASE p \notin own \cup rest
    <3>1. p \in used /\ p \notin idle
      BY <2>2
    <3>2. PICK u \in Tables : p \in sets[u]
      BY <3>1 DEF Divided
    <3>3. u # t
      BY <2>2, <3>2
    <3> QED
      BY <3>2, <3>3, <1>1
  <2> QED
    BY <2>1, <2>2
<1> QED
  BY <1>2, <1>4, <1>5, <1>6 DEF Divided, after

LEMMA ChainFacts ==
    ASSUME HeapInv, NEW t \in Tables
    PROVE  /\ Linked(page, Chain(t), root[t]) /\ Chain(t) \in Seq(Pages) /\ Distinct(Chain(t))
           /\ ChainSet(t) \subseteq Pages /\ ChainSet(t) \subseteq Used
           /\ ChainSet(t) \cap Range(free) = {}
           /\ \A u \in Tables \ {t} : ChainSet(t) \cap ChainSet(u) = {}
           /\ root[t] = NoPage => Chain(t) = <<>> /\ ChainSet(t) = {}
           /\ root[t] # NoPage => /\ root[t] \in ChainSet(t) /\ Chain(t)[1] = root[t]
                                  /\ Chain(t) # <<>> /\ Len(Chain(t)) >= 1
<1>1. Linked(page, Chain(t), root[t]) /\ Chain(t) \in Seq(Pages) /\ Distinct(Chain(t))
  BY DEF HeapInv, ChainsLinked, Linked
<1>2. ChainSet(t) \subseteq Pages
  BY <1>1, RangeOf DEF ChainSet
<1>3. ChainSet(t) \subseteq Used /\ ChainSet(t) \cap Range(free) = {}
  BY DEF HeapInv, Settled, Divided, ChainSets
<1>4. \A u \in Tables \ {t} : ChainSet(t) \cap ChainSet(u) = {}
  BY DEF HeapInv, Settled, Divided, ChainSets
<1>5. root[t] = NoPage => Chain(t) = <<>> /\ ChainSet(t) = {}
  BY <1>1 DEF Linked, ChainSet, Range
<1>6. ASSUME root[t] # NoPage
      PROVE  /\ root[t] \in ChainSet(t) /\ Chain(t)[1] = root[t]
             /\ Chain(t) # <<>> /\ Len(Chain(t)) >= 1
  <2>1. Chain(t) # <<>> /\ Chain(t)[1] = root[t]
    BY <1>1, <1>6 DEF Linked
  <2>2. Len(Chain(t)) >= 1 /\ 1 \in 1..Len(Chain(t))
    BY <1>1, <2>1
  <2> QED
    BY <1>1, <2>1, <2>2, RangeOf DEF ChainSet
<1> QED
  BY <1>1, <1>2, <1>3, <1>4, <1>5, <1>6

\* A table's pages and hint, as HintsOwned wants them.
HintFits(t, pages, s, p) ==
    p # NoPage => /\ pages[p].hint \in Range(s) \cup {NoPage}
                  /\ \A q \in Range(s) : pages[q].table \in {0, t} /\ Room(pages[q].slots) >= 0

\* When the pages of the other tables stay as they are.
LEMMA OthersKept ==
    ASSUME HeapInv, NEW t \in Tables, NEW s, Linked(page', s, root'[t]),
           HintFits(t, page', s, root'[t]),
           \A u \in Tables \ {t} : root'[u] = root[u],
           \A u \in Tables \ {t} : \A p \in ChainSet(u) : page'[p] = page[p]
    PROVE  /\ ChainsLinked' /\ HintsOwned'
           /\ Chain(t)' = s /\ \A u \in Tables \ {t} : RowsOf(u)' = RowsOf(u)
           /\ ChainSets' = [ChainSets EXCEPT ![t] = Range(s)]
<1>1. Chain(t)' = s
  BY ChainIs DEF Chain
<1>2. ASSUME NEW u \in Tables \ {t}
      PROVE  Linked(page', Chain(u), root'[u]) /\ Chain(u)' = Chain(u)
  <2>1. Linked(page, Chain(u), root[u])
    BY DEF HeapInv, ChainsLinked
  <2>2. Linked(page', Chain(u), root[u])
    BY <2>1, ChainKept DEF ChainSet
  <2>3. Linked(page', Chain(u), root'[u])
    BY <2>2
  <2>4. Chain(u)' = ChainFrom(page', root'[u])
    BY DEF Chain
  <2> QED
    BY <2>3, <2>4, ChainIs
<1>3. ChainsLinked'
  <2>1. ASSUME NEW u \in Tables
        PROVE  Linked(page', Chain(u)', root'[u])
    BY <1>1, <1>2
  <2> QED
    BY <2>1 DEF ChainsLinked
<1>4. ChainSet(t)' = Range(s) /\ \A u \in Tables \ {t} : ChainSet(u)' = ChainSet(u)
  BY <1>1, <1>2 DEF ChainSet
<1>5. ChainSets' = [ChainSets EXCEPT ![t] = Range(s)]
  BY <1>4 DEF ChainSets
<1>r. ASSUME NEW u \in Tables \ {t}
      PROVE  RowsOf(u)' = RowsOf(u)
  <2>1. ChainSet(u)' = ChainSet(u) /\ \A p \in ChainSet(u) : page'[p] = page[p]
    BY <1>4
  <2>2. {r \in Rids : r[1] \in ChainSet(u)' /\ r[2] \in Live(page'[r[1]].slots)}
          = {r \in Rids : r[1] \in ChainSet(u) /\ r[2] \in Live(page[r[1]].slots)}
    BY <2>1
  <2>3. \A r \in Rids : r[1] \in ChainSet(u) => page'[r[1]].slots[r[2]] = page[r[1]].slots[r[2]]
    BY <2>1
  <2> QED
    BY <2>2, <2>3 DEF RowsOf
<1>6. HintsOwned'
  <2> SUFFICES ASSUME NEW u \in Tables, root'[u] # NoPage
               PROVE  /\ page'[root'[u]].hint \in ChainSet(u)' \cup {NoPage}
                      /\ \A p \in ChainSet(u)' :
                            page'[p].table \in {0, u} /\ Room(page'[p].slots) >= 0
    BY DEF HintsOwned
  <2>1. CASE u = t
    BY <2>1, <1>4 DEF HintFits
  <2>2. CASE u # t
    <3>1. root'[u] = root[u] /\ root[u] \in ChainSet(u)
      BY <2>2, ChainFacts
    <3>2. page'[root[u]] = page[root[u]]
      BY <2>2, <3>1
    <3> QED
      BY <2>2, <3>1, <3>2, <1>4 DEF HeapInv, HintsOwned
  <2> QED
    BY <2>1, <2>2
<1> QED
  BY <1>1, <1>3, <1>5, <1>6, <1>r

-----------------------------------------------------------------------------
(***************************************************************************)
(* The initial states.                                                      *)
(***************************************************************************)
\* A new page, of table t or of none.
LEMMA BlankIs ==
    ASSUME NEW t \in Tables \cup {0}
    PROVE  /\ Blank(t) \in PageType /\ Blank(t).slots = <<>> /\ Blank(t).next = NoPage
           /\ Blank(t).hint = NoPage /\ Blank(t).table = t
           /\ Len(Blank(t).slots) <= PageRoom \div 2 /\ Room(Blank(t).slots) >= 0
<1>1. <<>> \in Slots /\ Len(<<>>) <= PageRoom \div 2 /\ Room(<<>>) >= 0
  BY EmptyPage
<1> QED
  BY <1>1 DEF Blank, PageType

\* The page of a file that an earlier version wrote.
LEMMA LegacyPageIs ==
    ASSUME NEW l \in LegacyPages
    PROVE  /\ l \in PageType /\ l.table = 0 /\ l.next = NoPage /\ l.hint = NoPage
           /\ Len(l.slots) <= PageRoom \div 2 /\ Room(l.slots) >= 0
<1>1. PICK s \in {<<Tomb, r>> : r \in Rows} \cup {<<r, Tomb>> : r \in Rows} :
         Room(s) >= 0 /\ l = [Blank(0) EXCEPT !.slots = s]
  BY DEF LegacyPages
<1>2. PICK r \in Rows : s = <<Tomb, r>> \/ s = <<r, Tomb>>
  BY <1>1
<1>3. s \in Slots /\ Len(s) = 2 /\ \A i \in 1..Len(s) : s[i] \in {Tomb, r}
  <2>1. CASE s = <<Tomb, r>>
    BY <2>1 DEF Slots
  <2>2. CASE s = <<r, Tomb>>
    BY <2>2 DEF Slots
  <2> QED
    BY <1>2, <2>1, <2>2
<1>4. \A i \in 1..Len(s) : Bytes(s[i]) >= 1
  BY <1>3, BytesFit
<1>5. Len(s) <= PageRoom \div 2
  BY <1>1, <1>3, <1>4, FewSlots
<1> QED
  BY <1>1, <1>3, <1>5 DEF Blank, PageType

LEMMA InitInv ==
    ASSUME Init
    PROVE  HeapInv
<1>0. MaxTable \in Nat \ {0} /\ MaxPage \in Nat \ {0} /\ NoPage = 0
  BY SizesAssumption
<1>f. free \in Seq(Pages) /\ Len(free) = 0 /\ Range(free) = {} /\ Distinct(free)
  <2>1. free = <<>>
    BY DEF Init
  <2> QED
    BY <2>1, EmptySeq DEF Range, Distinct
<1>b. FreePage \in PageType /\ Len(FreePage.slots) <= PageRoom \div 2
  BY BlankIs DEF FreePage
<1>1. CASE /\ root = [t \in Tables |-> NoPage]
           /\ nextTable = 1 /\ nextPage = 1
           /\ page = [p \in Pages |-> FreePage]
  <2>1. TypeOK
    BY <1>0, <1>1, <1>f, <1>b DEF TypeOK
  <2>2. \A t \in Tables : Chain(t) = <<>> /\ Linked(page, Chain(t), root[t])
    BY <1>1, NoChain, ChainIs DEF Chain
  <2>3. \A t \in Tables : ChainSet(t) = {}
    BY <2>2 DEF ChainSet, Range
  <2>4. Used = {}
    BY <1>1 DEF Used
  <2>5. Settled
    BY <1>f, <2>3, <2>4 DEF Settled, Divided, ChainSets
  <2>6. HintsOwned
    BY <1>1 DEF HintsOwned
  <2> QED
    BY <2>1, <2>2, <2>5, <2>6 DEF HeapInv, ChainsLinked
<1>2. ASSUME root = [t \in Tables |-> IF t = 1 THEN 1 ELSE NoPage],
             nextTable = 2, nextPage = 2,
             NEW l \in LegacyPages, page = [p \in Pages |-> IF p = 1 THEN l ELSE FreePage]
      PROVE  HeapInv
  <2>0. 1 \in Pages /\ 1 \in Tables /\ page[1] = l
    BY <1>0, <1>2 DEF Pages, Tables
  <2>1. TypeOK
    <3>1. root \in [Tables -> Pages \cup {NoPage}]
      BY <1>2, <2>0
    <3>2. nextTable \in 1..MaxTable + 1 /\ nextPage \in 1..MaxPage + 1
      BY <1>0, <1>2
    <3>3. page \in [Pages -> PageType]
      BY <1>2, <1>b, LegacyPageIs
    <3>4. ASSUME NEW p \in Pages
          PROVE  /\ p >= nextPage => page[p] = FreePage
                 /\ Len(page[p].slots) <= PageRoom \div 2
      BY <1>2, <1>b, LegacyPageIs
    <3> QED
      BY <3>1, <3>2, <3>3, <3>4, <1>f DEF TypeOK
  <2>2. Chain(1) = <<1>> /\ Linked(page, Chain(1), root[1])
    <3>1. Linked(page, <<1>>, 1) /\ root[1] = 1
      BY <1>2, <2>0, LegacyPageIs, OnePage
    <3> QED
      BY <3>1, ChainIs DEF Chain
  <2>3. \A t \in Tables \ {1} : Chain(t) = <<>> /\ Linked(page, Chain(t), root[t])
    BY <1>2, NoChain, ChainIs DEF Chain
  <2>4. ChainSet(1) = {1} /\ \A t \in Tables \ {1} : ChainSet(t) = {}
    BY <2>2, <2>3 DEF ChainSet, Range
  <2>5. Used = {1}
    BY <1>2 DEF Used
  <2>6. Settled
    BY <1>f, <2>0, <2>4, <2>5 DEF Settled, Divided, ChainSets
  <2>7. HintsOwned
    BY <1>2, <2>0, <2>4, LegacyPageIs DEF HintsOwned
  <2>8. ChainsLinked
    BY <2>2, <2>3 DEF ChainsLinked
  <2> QED
    BY <2>1, <2>6, <2>7, <2>8 DEF HeapInv
<1> QED
  BY <1>1, <1>2 DEF Init

-----------------------------------------------------------------------------
(***************************************************************************)
(* The steps.                                                               *)
(***************************************************************************)
LEMMA FreeFacts ==
    ASSUME HeapInv
    PROVE  /\ free \in Seq(Pages) /\ Distinct(free) /\ Range(free) \subseteq Used
           /\ nextPage \in 1..MaxPage + 1 /\ nextPage \in Nat
           /\ ChainSets \in [Tables -> SUBSET Pages]
<1>1. MaxPage \in Nat
  BY SizesAssumption
<1>2. \A t \in Tables : ChainSet(t) \in SUBSET Pages
  BY ChainFacts
<1> QED
  BY <1>1, <1>2 DEF HeapInv, TypeOK, Settled, Divided, ChainSets

LEMMA TypeFacts ==
    ASSUME HeapInv
    PROVE  /\ root \in [Tables -> Pages \cup {NoPage}] /\ nextTable \in 1..MaxTable + 1
           /\ page \in [Pages -> PageType]
           /\ \A q \in Pages : /\ q >= nextPage => page[q] = FreePage
                               /\ Len(page[q].slots) <= PageRoom \div 2
           /\ \A q \in Pages : /\ page[q].slots \in Slots
                               /\ page[q].hint \in Pages \cup {NoPage}
                               /\ page[q].next \in Pages \cup {NoPage}
                               /\ page[q].table \in Tables \cup {0}
<1>1. TypeOK
  BY DEF HeapInv
<1>2. page \in [Pages -> PageType]
  BY <1>1 DEF TypeOK
<1>3. \A q \in Pages : page[q] \in PageType
  BY <1>2
<1>4. \A r \in PageType : /\ r.slots \in Slots /\ r.hint \in Pages \cup {NoPage}
                          /\ r.next \in Pages \cup {NoPage} /\ r.table \in Tables \cup {0}
  BY DEF PageType
<1>5. /\ root \in [Tables -> Pages \cup {NoPage}] /\ nextTable \in 1..MaxTable + 1
      /\ \A q \in Pages : /\ q >= nextPage => page[q] = FreePage
                          /\ Len(page[q].slots) <= PageRoom \div 2
  BY <1>1, Zenon DEF TypeOK
<1> QED
  BY <1>2, <1>3, <1>4, <1>5, Zenon

\* New pages belong to no table.
LEMMA NewPagesApart ==
    ASSUME HeapInv, NEW n \in Nat, Allocates(n)
    PROVE  /\ \A t \in Tables : ChainSet(t) \cap Range(NewPages(n)) = {}
           /\ Used \subseteq Used'
           /\ \A p \in Range(NewPages(n)) : p \in Pages /\ p < nextPage'
           /\ \A p \in Pages : p >= nextPage' => p >= nextPage
<1>1. /\ NewPages(n) \in Seq(Pages) /\ nextPage' \in 1..MaxPage + 1 /\ nextPage <= nextPage'
      /\ Range(NewPages(n)) \subseteq Range(free) \cup (Used' \ Used)
  BY FreeFacts, Allocation
<1>2. nextPage' \in Nat /\ nextPage \in Nat
  BY <1>1, FreeFacts, SizesAssumption
<1>3. \A x : x \in Used' <=> x \in Nat /\ 1 <= x /\ x < nextPage'
  BY <1>2 DEF Used
<1>4. \A x : x \in Used <=> x \in Nat /\ 1 <= x /\ x < nextPage
  BY <1>2 DEF Used
<1>5. Used \subseteq Used'
  BY <1>1, <1>2, <1>3, <1>4
<1>6. \A p \in Range(NewPages(n)) : p \in Used'
  BY <1>1, <1>5, FreeFacts
<1>7. \A p \in Range(NewPages(n)) : p \in Pages /\ p < nextPage'
  BY <1>1, <1>3, <1>6, RangeOf
<1>8. \A t \in Tables : ChainSet(t) \cap Range(NewPages(n)) = {}
  BY <1>1, ChainFacts
<1>9. \A p \in Pages : p >= nextPage' => p >= nextPage
  BY <1>1, <1>2 DEF Pages
<1> QED
  BY <1>5, <1>7, <1>8, <1>9

LEMMA SettledNext ==
    ASSUME HeapInv, NEW t \in Tables, NEW own, ChainSets' = [ChainSets EXCEPT ![t] = own],
           Distinct(free'), Used \subseteq Used', own \cap Range(free') = {},
           own \cup Range(free') = Range(free) \cup ChainSet(t) \cup (Used' \ Used)
    PROVE  Settled'
<1>1. Divided(Used, Range(free), ChainSets) /\ DOMAIN ChainSets = Tables
  BY DEF HeapInv, Settled, ChainSets
<1>2. ChainSets[t] = ChainSet(t)
  BY DEF ChainSets
<1>3. own \cup Range(free') = Range(free) \cup ChainSets[t] \cup (Used' \ Used)
  BY <1>2
<1> DEFINE U == Used
           U2 == Used'
           F == Range(free)
           F2 == Range(free')
           C == ChainSets
<1>4. Divided(U, F, C) /\ DOMAIN C = Tables /\ U \subseteq U2 /\ own \cap F2 = {}
      /\ own \cup F2 = F \cup C[t] \cup (U2 \ U)
  BY <1>1, <1>3
<1>5. ChainSets' = [C EXCEPT ![t] = own]
  OBVIOUS
<1> HIDE DEF U, U2, F, F2, C
<1>6. Divided(U2, F2, [C EXCEPT ![t] = own])
  BY <1>4, Reassigned
<1>7. Divided(Used', Range(free'), ChainSets')
  BY <1>5, <1>6 DEF U2, F2
<1> QED
  BY <1>7 DEF Settled, Divided

LEMMA CreateStep ==
    ASSUME HeapInv, NEW t, t = nextTable, CreateTable
    PROVE  /\ HeapInv' /\ t \in Tables /\ root[t] = NoPage
           /\ \A u \in Tables \ {t} : root'[u] = root[u] /\ RowsOf(u)' = RowsOf(u)
           /\ root'[t] # NoPage /\ Chain(t)' = <<root'[t]>>
           /\ page'[root'[t]].slots = <<>>
<1>0. PICK p : p = NewPages(1)[1]
  OBVIOUS
<1>1. t \in Tables /\ root[t] = NoPage /\ Allocates(1) /\ page' = [page EXCEPT ![p] = Blank(t)]
      /\ root' = [root EXCEPT ![t] = p] /\ free' = AfterNew(1) /\ nextTable' = t + 1
  BY <1>0 DEF CreateTable
<1>2. /\ NewPages(1) \in Seq(Pages) /\ Len(NewPages(1)) = 1
      /\ AfterNew(1) \in Seq(Pages) /\ Distinct(AfterNew(1))
      /\ nextPage' \in 1..MaxPage + 1
      /\ Range(NewPages(1)) \cap Range(AfterNew(1)) = {}
      /\ Range(NewPages(1)) \cup Range(AfterNew(1)) = Range(free) \cup (Used' \ Used)
  BY <1>1, FreeFacts, Allocation
<1>3. p \in Pages /\ Range(NewPages(1)) = {p}
  BY <1>0, <1>2, RangeOfOne
<1>4. /\ \A u \in Tables : p \notin ChainSet(u)
      /\ Used \subseteq Used' /\ p < nextPage'
      /\ \A q \in Pages : q >= nextPage' => q >= nextPage
  BY <1>1, <1>3, NewPagesApart
<1>5. /\ root \in [Tables -> Pages \cup {NoPage}] /\ page \in [Pages -> PageType]
      /\ \A q \in Pages : /\ q >= nextPage => page[q] = FreePage
                          /\ Len(page[q].slots) <= PageRoom \div 2
      /\ MaxTable \in Nat /\ nextPage' \in Nat
  <2>1. MaxTable \in Nat /\ MaxPage \in Nat
    BY SizesAssumption
  <2>2. nextPage' \in Nat
    BY <1>2, <2>1
  <2> QED
    BY <2>1, <2>2, TypeFacts, Zenon
<1>6. page'[p] = Blank(t) /\ \A q \in Pages \ {p} : page'[q] = page[q]
  BY <1>1, <1>3, <1>5
<1>7. root'[t] = p /\ p # NoPage /\ \A u \in Tables \ {t} : root'[u] = root[u]
  BY <1>1, <1>3, <1>5, SizesAssumption DEF Pages
<1>8. TypeOK'
  <2>1. root' \in [Tables -> Pages \cup {NoPage}]
    BY <1>1, <1>3, <1>5
  <2>2. nextTable' \in 1..MaxTable + 1
    BY <1>1, <1>5 DEF Tables
  <2>3. page' \in [Pages -> PageType]
    BY <1>1, <1>5, BlankIs
  <2>4. ASSUME NEW q \in Pages
        PROVE  /\ q >= nextPage' => page'[q] = FreePage
               /\ Len(page'[q].slots) <= PageRoom \div 2
    <3>1. CASE q = p
      <4>1. ~(q >= nextPage')
        BY <3>1, <1>3, <1>4, <1>5 DEF Pages
      <4> QED
        BY <3>1, <4>1, <1>1, <1>6, BlankIs
    <3>2. CASE q # p
      BY <3>2, <1>4, <1>5, <1>6
    <3> QED
      BY <3>1, <3>2
  <2> QED
    BY <1>1, <1>2, <2>1, <2>2, <2>3, <2>4 DEF TypeOK
<1>9. Linked(page', <<p>>, root'[t])
  <2>1. page'[p].next = NoPage
    BY <1>1, <1>6, BlankIs
  <2>2. Linked(page', <<p>>, p)
    BY <2>1, <1>3, OnePage
  <2> QED
    BY <2>2, <1>7
<1>10. Range(<<p>>) = {p}
  BY DEF Range
<1>11. HintFits(t, page', <<p>>, root'[t])
  BY <1>1, <1>6, <1>7, <1>10, BlankIs DEF HintFits
<1>12. /\ ChainsLinked' /\ HintsOwned' /\ Chain(t)' = <<p>>
       /\ \A u \in Tables \ {t} : RowsOf(u)' = RowsOf(u)
       /\ ChainSets' = [ChainSets EXCEPT ![t] = {p}]
  <2>1. \A u \in Tables \ {t} : \A q \in ChainSet(u) : page'[q] = page[q]
    BY <1>4, <1>6, ChainFacts
  <2>2. /\ ChainsLinked' /\ HintsOwned' /\ Chain(t)' = <<p>>
        /\ \A u \in Tables \ {t} : RowsOf(u)' = RowsOf(u)
        /\ ChainSets' = [ChainSets EXCEPT ![t] = Range(<<p>>)]
    BY <1>1, <1>7, <1>9, <1>11, <2>1, OthersKept
  <2> QED
    BY <2>2, <1>10
<1>13. Settled'
  <2>1. ChainSet(t) = {}
    BY <1>1, ChainFacts
  <2>2. Distinct(free') /\ {p} \cap Range(free') = {}
        /\ {p} \cup Range(free') = Range(free) \cup ChainSet(t) \cup (Used' \ Used)
    BY <1>1, <1>2, <1>3, <2>1
  <2> QED
    BY <1>1, <1>4, <1>12, <2>2, SettledNext
<1>14. page'[root'[t]].slots = <<>>
  BY <1>1, <1>6, <1>7, BlankIs
<1>15. HeapInv'
  BY <1>8, <1>12, <1>13 DEF HeapInv
<1> QED
  BY <1>1, <1>7, <1>12, <1>14, <1>15

LEMMA DropStep ==
    ASSUME HeapInv, NEW t \in Tables, DropTable(t)
    PROVE  /\ HeapInv' /\ root'[t] = NoPage
           /\ \A u \in Tables \ {t} : root'[u] = root[u] /\ RowsOf(u)' = RowsOf(u)
<1>1. /\ root[t] # NoPage
      /\ page' = [p \in Pages |-> IF p \in ChainSet(t) THEN FreePage ELSE page[p]]
      /\ free' = Reverse(Chain(t)) \o free /\ root' = [root EXCEPT ![t] = NoPage]
      /\ nextTable' = nextTable /\ nextPage' = nextPage
  BY DEF DropTable
<1>2. root'[t] = NoPage /\ \A u \in Tables \ {t} : root'[u] = root[u]
  BY <1>1, TypeFacts
<1>3. FreePage \in PageType /\ Len(FreePage.slots) <= PageRoom \div 2
  BY BlankIs DEF FreePage
<1>4. free' \in Seq(Pages) /\ Range(free') = ChainSet(t) \cup Range(free) /\ Distinct(free')
  <2>1. Chain(t) \in Seq(Pages) /\ Distinct(Chain(t)) /\ ChainSet(t) \cap Range(free) = {}
    BY ChainFacts
  <2>2. /\ Reverse(Chain(t)) \in Seq(Pages) /\ Range(Reverse(Chain(t))) = ChainSet(t)
        /\ Distinct(Reverse(Chain(t)))
    BY <2>1, Reversed DEF ChainSet
  <2> QED
    BY <1>1, <2>1, <2>2, FreeFacts, Joined
<1>5. TypeOK'
  <2>1. root' \in [Tables -> Pages \cup {NoPage}] /\ nextTable' \in 1..MaxTable + 1
    BY <1>1, TypeFacts
  <2>2. nextPage' \in 1..MaxPage + 1
    BY <1>1, FreeFacts
  <2>3. page' \in [Pages -> PageType]
    BY <1>1, <1>3, TypeFacts
  <2>4. ASSUME NEW q \in Pages
        PROVE  /\ q >= nextPage' => page'[q] = FreePage
               /\ Len(page'[q].slots) <= PageRoom \div 2
    BY <1>1, <1>3, TypeFacts
  <2> QED
    BY <1>4, <2>1, <2>2, <2>3, <2>4 DEF TypeOK
<1>6. Range(<<>>) = {}
  BY DEF Range
<1>7. /\ ChainsLinked' /\ HintsOwned'
      /\ \A u \in Tables \ {t} : RowsOf(u)' = RowsOf(u)
      /\ ChainSets' = [ChainSets EXCEPT ![t] = Range(<<>>)]
  <2>1. Linked(page', <<>>, root'[t])
    BY <1>2, NoChain
  <2>2. HintFits(t, page', <<>>, root'[t])
    BY <1>2 DEF HintFits
  <2>3. \A u \in Tables \ {t} : \A q \in ChainSet(u) : page'[q] = page[q]
    BY <1>1, ChainFacts
  <2> QED
    BY <1>2, <2>1, <2>2, <2>3, OthersKept
<1>8. Settled'
  <2>1. Used' = Used
    BY <1>1 DEF Used
  <2> QED
    BY <1>4, <1>6, <1>7, <2>1, SettledNext
<1> QED
  BY <1>2, <1>5, <1>7, <1>8 DEF HeapInv

-----------------------------------------------------------------------------
\* The pages insert looks at are pages of its table, the last one its last.
LEMMA CandidatesAre ==
    ASSUME HeapInv, NEW t \in Tables, root[t] # NoPage
    PROVE  /\ Candidates(t) \in Seq(Pages) /\ Candidates(t) # <<>>
           /\ Len(Candidates(t)) \in Nat \ {0}
           /\ \A i \in 1..Len(Candidates(t)) : Candidates(t)[i] \in ChainSet(t)
           /\ Last(Candidates(t)) = Chain(t)[Len(Chain(t))]
<1> DEFINE h == IF page[root[t]].hint # NoPage THEN page[root[t]].hint ELSE root[t]
<1>1. h \in ChainSet(t)
  BY ChainFacts DEF HeapInv, HintsOwned
<1>2. Candidates(t) = ChainFrom(page, h)
  BY DEF Candidates
<1> HIDE DEF h
<1>3. Linked(page, Chain(t), root[t]) /\ Chain(t) \in Seq(Pages)
  BY ChainFacts
<1>4. PICK k \in 1..Len(Chain(t)) : Chain(t)[k] = h
  BY <1>1, <1>3, RangeOf DEF ChainSet
<1> DEFINE r == SubSeq(Chain(t), k, Len(Chain(t)))
<1>5. /\ Linked(page, r, h) /\ r # <<>> /\ Range(r) \subseteq Range(Chain(t))
      /\ Last(r) = Chain(t)[Len(Chain(t))]
  BY <1>3, <1>4, ChainRest
<1>6. Candidates(t) = r
  BY <1>2, <1>5, ChainIs
<1> HIDE DEF r
<1>7. r \in Seq(Pages)
  BY <1>5 DEF Linked
<1>8. Len(r) \in Nat \ {0} /\ \A i \in 1..Len(r) : r[i] \in ChainSet(t)
  BY <1>5, <1>7, RangeOf, EmptySeq DEF ChainSet
<1> QED
  BY <1>5, <1>6, <1>7, <1>8

\* Looking at a page may clean it, and nothing else.
LEMMA LookedAtIs ==
    ASSUME HeapInv, NEW t \in Tables, root[t] # NoPage,
           NEW n \in 0..Len(Candidates(t))
    PROVE  LET seen == LookedAt(t, n)
           IN  /\ seen \in [Pages -> PageType]
               /\ \A q \in Pages : /\ q \notin ChainSet(t) => seen[q] = page[q]
                                   /\ seen[q].next = page[q].next /\ seen[q].table = page[q].table
                                   /\ seen[q].hint = page[q].hint
                                   /\ Smaller(seen[q].slots, page[q].slots)
               /\ \A i \in 1..n : seen[Candidates(t)[i]].slots
                                    = Cleaned(page[Candidates(t)[i]].slots)
<1> DEFINE seen == LookedAt(t, n)
           looked == {Candidates(t)[i] : i \in 1..n}
<1>0. n \in Nat /\ n <= Len(Candidates(t))
  BY CandidatesAre
<1>1. \A i \in 1..n : Candidates(t)[i] \in looked /\ Candidates(t)[i] \in Pages
                       /\ Candidates(t)[i] \in ChainSet(t)
  BY <1>0, CandidatesAre, ChainFacts
<1>2. looked \subseteq ChainSet(t)
  BY <1>1
<1>3. seen = [q \in Pages |-> IF q \in looked THEN [page[q] EXCEPT !.slots = Cleaned(@)]
                              ELSE page[q]]
  BY DEF LookedAt
<1> HIDE DEF seen, looked
<1>4. \A q \in Pages : page[q] \in PageType /\ page[q].slots \in Slots
  BY TypeFacts
<1>5. \A q \in Pages : /\ Cleaned(page[q].slots) \in Slots
                       /\ Smaller(Cleaned(page[q].slots), page[q].slots)
                       /\ Smaller(page[q].slots, page[q].slots)
  BY <1>4, CleanedIs, SmallerSelf DEF Smaller
<1>6. ASSUME NEW q \in Pages, q \in looked
      PROVE  /\ seen[q] \in PageType
             /\ seen[q].next = page[q].next /\ seen[q].table = page[q].table
             /\ seen[q].hint = page[q].hint /\ seen[q].slots = Cleaned(page[q].slots)
  <2>1. seen[q] = [page[q] EXCEPT !.slots = Cleaned(page[q].slots)]
    BY <1>3, <1>6
  <2> QED
    BY <2>1, <1>4, <1>5 DEF PageType
<1>7. \A q \in Pages : q \notin looked => seen[q] = page[q]
  BY <1>3
<1>8. seen \in [Pages -> PageType]
  BY <1>3, <1>4, <1>6, <1>7
<1>9. \A q \in Pages : /\ q \notin ChainSet(t) => seen[q] = page[q]
                       /\ seen[q].next = page[q].next /\ seen[q].table = page[q].table
                       /\ seen[q].hint = page[q].hint
                       /\ Smaller(seen[q].slots, page[q].slots)
  BY <1>2, <1>5, <1>6, <1>7
<1>10. \A i \in 1..n : seen[Candidates(t)[i]].slots = Cleaned(page[Candidates(t)[i]].slots)
  BY <1>1, <1>6
<1> QED
  BY <1>8, <1>9, <1>10 DEF seen

-----------------------------------------------------------------------------
\* The rows of a table, one by one.
LEMMA RowsAre ==
    ASSUME NEW t \in Tables
    PROVE  /\ \A r : r \in DOMAIN RowsOf(t) <=> /\ r \in Rids /\ r[1] \in ChainSet(t)
                                                /\ r[2] \in Live(page[r[1]].slots)
           /\ \A r \in DOMAIN RowsOf(t) : RowsOf(t)[r] = page[r[1]].slots[r[2]]
           /\ RowsOf(t) \in [DOMAIN RowsOf(t) -> Rows] /\ DOMAIN RowsOf(t) \in SUBSET Rids
<1> DEFINE D == {r \in Rids : r[1] \in ChainSet(t) /\ r[2] \in Live(page[r[1]].slots)}
<1>1. RowsOf(t) = [r \in D |-> page[r[1]].slots[r[2]]]
  BY DEF RowsOf
<1>2. \A r \in D : page[r[1]].slots[r[2]] \in Rows
  BY DEF Live
<1> QED
  BY <1>1, <1>2

LEMMA NextRowsAre ==
    ASSUME NEW t \in Tables
    PROVE  RowsOf(t)' = [r \in {x \in Rids : /\ x[1] \in ChainSet(t)'
                                             /\ x[2] \in Live(page'[x[1]].slots)}
                            |-> page'[r[1]].slots[r[2]]]
  BY DEF RowsOf

\* A record id is free when no table has a row under it.
FreeRid(rid) == rid \in Rids /\ \A u \in Tables : rid \notin DOMAIN RowsOf(u)

\* One row more, under a free record id.
RowAdded(t, rid, row) ==
    /\ FreeRid(rid)
    /\ RowsOf(t)' = [r \in DOMAIN RowsOf(t) \cup {rid} |-> IF r = rid THEN row ELSE RowsOf(t)[r]]

\* The other tables keep their rows.
OthersSame(t) == \A u \in Tables \ {t} : root'[u] = root[u] /\ RowsOf(u)' = RowsOf(u)

\* One row goes onto page p; the rest of the chain keeps its rows.
LEMMA RowArrives ==
    ASSUME HeapInv, NEW t \in Tables, NEW p \in Pages, NEW k \in Nat \ {0}, NEW row \in Rows,
           p \in ChainSet(t)', ChainSet(t) \subseteq ChainSet(t)',
           ChainSet(t)' \subseteq ChainSet(t) \cup {p},
           \A u \in Tables \ {t} : p \notin ChainSet(u),
           k <= PageRoom \div 2,
           p \in ChainSet(t) => k \notin Live(page[p].slots),
           \A q \in ChainSet(t)' \ {p} :
              /\ Live(page'[q].slots) = Live(page[q].slots)
              /\ \A i \in Live(page[q].slots) : page'[q].slots[i] = page[q].slots[i],
           Live(page'[p].slots)
              = (IF p \in ChainSet(t) THEN Live(page[p].slots) ELSE {}) \cup {k},
           page'[p].slots[k] = row,
           p \in ChainSet(t) =>
              \A i \in Live(page[p].slots) : page'[p].slots[i] = page[p].slots[i]
    PROVE  RowAdded(t, <<p, k>>, row)
<1> DEFINE rid == <<p, k>>
           D == {x \in Rids : x[1] \in ChainSet(t)' /\ x[2] \in Live(page'[x[1]].slots)}
<1>1. rid \in Rids
  BY SizesAssumption DEF Rids
<1>2. FreeRid(rid)
  <2>1. rid \notin DOMAIN RowsOf(t)
    BY RowsAre
  <2>2. \A u \in Tables \ {t} : rid \notin DOMAIN RowsOf(u)
    BY RowsAre
  <2> QED
    BY <1>1, <2>1, <2>2 DEF FreeRid
<1>3. RowsOf(t)' = [r \in D |-> page'[r[1]].slots[r[2]]]
  BY NextRowsAre
<1>4. \A r \in Rids : r = <<r[1], r[2]>>
  BY DEF Rids
<1>5. ASSUME NEW r \in Rids
      PROVE  r \in D <=> r \in DOMAIN RowsOf(t) \cup {rid}
  <2>0. r \in DOMAIN RowsOf(t) <=> r[1] \in ChainSet(t) /\ r[2] \in Live(page[r[1]].slots)
    BY RowsAre
  <2>1. CASE r[1] = p
    <3>1. r = rid <=> r[2] = k
      BY <2>1, <1>4
    <3> QED
      BY <2>0, <2>1, <3>1
  <2>2. CASE r[1] # p
    <3>1. r # rid
      BY <2>2
    <3> QED
      BY <2>0, <2>2, <3>1
  <2> QED
    BY <2>1, <2>2
<1>6. D = DOMAIN RowsOf(t) \cup {rid}
  <2>1. D \subseteq Rids /\ DOMAIN RowsOf(t) \cup {rid} \subseteq Rids
    BY <1>1, RowsAre
  <2> HIDE DEF D, rid
  <2> QED
    BY <1>5, <2>1
<1>7. ASSUME NEW r \in D
      PROVE  page'[r[1]].slots[r[2]] = IF r = rid THEN row ELSE RowsOf(t)[r]
  <2>1. CASE r = rid
    BY <2>1
  <2>2. CASE r # rid
    <3>1. r \in DOMAIN RowsOf(t)
      BY <2>2, <1>6
    <3>2. /\ RowsOf(t)[r] = page[r[1]].slots[r[2]]
          /\ r[1] \in ChainSet(t) /\ r[2] \in Live(page[r[1]].slots)
      BY <3>1, RowsAre
    <3>3. page'[r[1]].slots[r[2]] = page[r[1]].slots[r[2]]
      BY <3>2
    <3> QED
      BY <2>2, <3>2, <3>3
  <2> QED
    BY <2>1, <2>2
<1> HIDE DEF D, rid
<1> QED
  BY <1>2, <1>3, <1>6, <1>7 DEF RowAdded, rid

\* Page p gets the slots s, page r the hint h.
Placed(pages, after, p, s, r, h) ==
    /\ after \in [Pages -> PageType]
    /\ \A q \in Pages : /\ after[q].next = pages[q].next
                        /\ after[q].table = pages[q].table
                        /\ after[q].slots = IF q = p THEN s ELSE pages[q].slots
                        /\ after[q].hint = IF q = r THEN h ELSE pages[q].hint
                        /\ q # p /\ q # r => after[q] = pages[q]

LEMMA SlotsAndHint ==
    ASSUME NEW pages \in [Pages -> PageType], NEW p \in Pages, NEW r \in Pages,
           NEW s \in Slots, NEW h \in Pages
    PROVE  Placed(pages, [[pages EXCEPT ![p].slots = s] EXCEPT ![r].hint = h], p, s, r, h)
<1> DEFINE mid == [pages EXCEPT ![p].slots = s]
           after == [mid EXCEPT ![r].hint = h]
<1>1. ASSUME NEW q \in Pages
      PROVE  /\ mid[q] \in PageType /\ mid[q].next = pages[q].next
             /\ mid[q].table = pages[q].table /\ mid[q].hint = pages[q].hint
             /\ mid[q].slots = IF q = p THEN s ELSE pages[q].slots
             /\ q # p => mid[q] = pages[q]
  BY DEF PageType
<1>2. mid \in [Pages -> PageType]
  BY <1>1
<1> HIDE DEF mid
<1>3. ASSUME NEW q \in Pages
      PROVE  /\ after[q] \in PageType /\ after[q].next = mid[q].next
             /\ after[q].table = mid[q].table /\ after[q].slots = mid[q].slots
             /\ after[q].hint = IF q = r THEN h ELSE mid[q].hint
             /\ q # r => after[q] = mid[q]
  BY <1>2 DEF PageType
<1>4. after \in [Pages -> PageType]
  BY <1>2, <1>3
<1> HIDE DEF after
<1> QED
  BY <1>1, <1>3, <1>4 DEF after, mid, Placed

LEMMA InsertInPageStep ==
    ASSUME HeapInv, NEW t \in Tables, NEW row \in Rows, InsertInPage(t, row)
    PROVE  /\ HeapInv' /\ OthersSame(t) /\ root[t] # NoPage /\ root'[t] = root[t]
           /\ \E rid \in Rids : /\ answer' = <<"inserted", t, rid, row>>
                                /\ RowAdded(t, rid, row)
<1>1. root[t] # NoPage /\ root' = root /\ nextTable' = nextTable /\ nextPage' = nextPage
      /\ free' = free
  BY DEF InsertInPage
<1>2. PICK n \in 1..Len(Candidates(t)) :
         /\ HasRoom(Candidates(t)[n], row)
         /\ page' = [[LookedAt(t, n) EXCEPT ![Candidates(t)[n]].slots = Put(@, row)]
                        EXCEPT ![root[t]].hint = Candidates(t)[n]]
         /\ answer' = <<"inserted", t,
                        <<Candidates(t)[n], SlotFor(LookedAt(t, n)[Candidates(t)[n]].slots)>>, row>>
  BY DEF InsertInPage
<1>3. PICK p, seen : p = Candidates(t)[n] /\ seen = LookedAt(t, n)
  OBVIOUS
<1>4. p \in Pages /\ p \in ChainSet(t) /\ root[t] \in Pages /\ root[t] \in ChainSet(t)
  BY <1>1, <1>3, CandidatesAre, ChainFacts
<1>5. /\ seen \in [Pages -> PageType]
      /\ \A q \in Pages : /\ q \notin ChainSet(t) => seen[q] = page[q]
                          /\ seen[q].next = page[q].next /\ seen[q].table = page[q].table
                          /\ seen[q].hint = page[q].hint
                          /\ Smaller(seen[q].slots, page[q].slots)
      /\ seen[p].slots = Cleaned(page[p].slots)
  <2>1. n \in 0..Len(Candidates(t)) /\ n \in 1..n
    BY <1>1, CandidatesAre
  <2> QED
    BY <1>1, <1>3, <2>1, LookedAtIs
<1>6. PICK base, k, put : base = seen[p].slots /\ k = SlotFor(base) /\ put = Put(base, row)
  OBVIOUS
<1>7. base \in Slots /\ Len(base) <= PageRoom \div 2 /\ Fits(base, row) /\ PageRoom \in Nat
  <2>1. Smaller(base, page[p].slots) /\ Len(page[p].slots) <= PageRoom \div 2
        /\ page[p].slots \in Slots
    BY <1>4, <1>5, <1>6, TypeFacts
  <2>2. Len(base) \in Nat /\ Len(page[p].slots) \in Nat /\ PageRoom \in Nat
    BY <2>1, SizesAssumption DEF Smaller, Slots
  <2>3. Fits(base, row)
    BY <1>2, <1>3, <1>5, <1>6 DEF HasRoom
  <2> QED
    BY <2>1, <2>2, <2>3 DEF Smaller
<1>8. /\ put \in Slots /\ k \in 1..Len(put) /\ put[k] = row /\ k \notin Live(base)
      /\ Live(put) = Live(base) \cup {k} /\ \A i \in Live(base) : put[i] = base[i]
      /\ Room(put) >= 0 /\ Len(put) <= PageRoom \div 2
  <2>1. /\ put \in Slots /\ Len(put) = (IF k > Len(base) THEN Len(base) + 1 ELSE Len(base))
        /\ k \in 1..Len(put) /\ \A i \in 1..Len(put) : put[i] = IF i = k THEN row ELSE base[i]
        /\ Live(put) = Live(base) \cup {k} /\ k \notin Live(base)
        /\ Room(put) >= 0
        /\ Len(base) <= PageRoom \div 2 => Len(put) <= PageRoom \div 2
    <3>1. base \in Slots /\ Fits(base, row)
      BY <1>7
    <3> QED
      BY <1>6, <3>1, RowPut, SMTT(20)
  <2>2. \A i \in Live(base) : i \in 1..Len(put) /\ i # k
    BY <2>1 DEF Live
  <2> QED
    BY <1>7, <2>1, <2>2
<1>9. /\ page' \in [Pages -> PageType]
      /\ \A q \in Pages : /\ page'[q].next = page[q].next
                          /\ page'[q].table = page[q].table
                          /\ page'[q].slots = IF q = p THEN put ELSE seen[q].slots
                          /\ page'[q].hint = IF q = root[t] THEN p ELSE page[q].hint
                          /\ q \notin ChainSet(t) => page'[q] = page[q]
  <2>1. page' = [[seen EXCEPT ![p].slots = put] EXCEPT ![root[t]].hint = p]
    BY <1>2, <1>3, <1>6
  <2>2. PICK r : r = root[t]
    OBVIOUS
  <2>3. seen \in [Pages -> PageType] /\ p \in Pages /\ r \in Pages /\ put \in Slots
    BY <1>4, <1>5, <1>8, <2>2
  <2>4. Placed(seen, [[seen EXCEPT ![p].slots = put] EXCEPT ![r].hint = p], p, put, r, p)
    BY <2>3, SlotsAndHint, Zenon
  <2>5. Placed(seen, page', p, put, root[t], p)
    BY <2>1, <2>2, <2>4
  <2> QED
    BY <2>5, <1>4, <1>5 DEF Placed
<1>10. \A q \in Pages : Smaller(seen[q].slots, page[q].slots) /\ page[q].slots \in Slots
  BY <1>5, TypeFacts
<1>11. \A q \in Pages : Room(page[q].slots) <= Room(seen[q].slots)
                        /\ Len(seen[q].slots) <= PageRoom \div 2
  <2> TAKE q \in Pages
  <2>1. Len(page[q].slots) <= PageRoom \div 2 /\ Len(seen[q].slots) <= Len(page[q].slots)
        /\ Len(page[q].slots) \in Nat /\ Len(seen[q].slots) \in Nat
    BY <1>10, TypeFacts DEF Smaller, Slots
  <2> QED
    BY <2>1, <1>7, <1>10 DEF Smaller
<1>12. TypeOK'
  <2>1. root' \in [Tables -> Pages \cup {NoPage}] /\ nextTable' \in 1..MaxTable + 1
    BY <1>1, TypeFacts
  <2>2. nextPage' \in 1..MaxPage + 1 /\ free' \in Seq(Pages)
    BY <1>1, FreeFacts
  <2>3. ASSUME NEW q \in Pages
        PROVE  /\ q >= nextPage' => page'[q] = FreePage
               /\ Len(page'[q].slots) <= PageRoom \div 2
    <3>1. q \in ChainSet(t) => ~(q >= nextPage)
      BY ChainFacts, FreeFacts DEF Used
    <3>2. q >= nextPage => page[q] = FreePage
      BY TypeFacts
    <3> QED
      BY <3>1, <3>2, <1>1, <1>8, <1>9, <1>11
  <2> QED
    BY <1>9, <2>1, <2>2, <2>3 DEF TypeOK
<1>13. Linked(page', Chain(t), root'[t])
  <2>1. Linked(page, Chain(t), root[t]) /\ \A q \in Range(Chain(t)) : page'[q].next = page[q].next
    BY <1>9, ChainFacts DEF ChainSet
  <2>2. Linked(page', Chain(t), root[t])
    BY <2>1, ChainKept
  <2> QED
    BY <1>1, <2>2
<1>14. HintFits(t, page', Chain(t), root'[t])
  <2>1. ASSUME NEW q \in ChainSet(t)
        PROVE  page'[q].table \in {0, t} /\ Room(page'[q].slots) >= 0
    <3>1. q \in Pages /\ page[q].table \in {0, t} /\ Room(page[q].slots) >= 0
      BY <1>1, ChainFacts DEF HeapInv, HintsOwned
    <3>2. Room(page[q].slots) \in Int /\ Room(seen[q].slots) \in Int
      BY <1>10, <3>1, RoomType DEF Smaller
    <3> QED
      BY <3>1, <3>2, <1>8, <1>9, <1>11
  <2>2. page'[root'[t]].hint = p
    BY <1>1, <1>4, <1>9
  <2> QED
    BY <2>1, <2>2, <1>4 DEF HintFits, ChainSet
<1>15. /\ ChainsLinked' /\ HintsOwned' /\ Chain(t)' = Chain(t)
       /\ \A u \in Tables \ {t} : RowsOf(u)' = RowsOf(u)
       /\ ChainSets' = [ChainSets EXCEPT ![t] = Range(Chain(t))]
  <2>1. \A u \in Tables \ {t} : \A q \in ChainSet(u) : page'[q] = page[q]
    BY <1>9, ChainFacts
  <2>2. \A u \in Tables \ {t} : root'[u] = root[u]
    BY <1>1
  <2> QED
    BY <1>13, <1>14, <2>1, <2>2, OthersKept
<1>16. ChainSet(t)' = ChainSet(t)
  BY <1>15 DEF ChainSet
<1>17. Settled'
  <2>1. Used' = Used
    BY <1>1 DEF Used
  <2>2. Range(Chain(t)) = ChainSet(t)
    BY DEF ChainSet
  <2> QED
    <3>1. Distinct(free') /\ Used \subseteq Used' /\ ChainSet(t) \cap Range(free') = {}
          /\ ChainSet(t) \cup Range(free') = Range(free) \cup ChainSet(t) \cup (Used' \ Used)
      BY <1>1, <2>1, FreeFacts, ChainFacts
    <3>2. ChainSets' = [ChainSets EXCEPT ![t] = ChainSet(t)]
      BY <1>15, <2>2
    <3> QED
      BY <3>1, <3>2, SettledNext
<1>18. RowAdded(t, <<p, k>>, row)
  <2>1. k \in Nat \ {0} /\ k <= PageRoom \div 2
    <3>1. Len(put) \in Nat
      BY <1>8 DEF Slots
    <3> QED
      BY <3>1, <1>7, <1>8
  <2>2. Live(base) = Live(page[p].slots) /\ \A i \in Live(page[p].slots) : base[i] = page[p].slots[i]
    BY <1>4, <1>6, <1>10 DEF Smaller
  <2>3. page'[p].slots = put
    BY <1>4, <1>9
  <2>4. k \notin Live(page[p].slots)
    BY <1>8, <2>2
  <2>5. Live(page'[p].slots) = (IF p \in ChainSet(t) THEN Live(page[p].slots) ELSE {}) \cup {k}
    BY <1>4, <1>8, <2>2, <2>3
  <2>6. \A i \in Live(page[p].slots) : page'[p].slots[i] = page[p].slots[i]
    BY <1>8, <2>2, <2>3
  <2>7. \A q \in ChainSet(t)' \ {p} :
           /\ Live(page'[q].slots) = Live(page[q].slots)
           /\ \A i \in Live(page[q].slots) : page'[q].slots[i] = page[q].slots[i]
    BY <1>9, <1>10, <1>16, ChainFacts DEF Smaller
  <2>8. \A u \in Tables \ {t} : p \notin ChainSet(u)
    BY <1>4, ChainFacts
  <2> QED
    BY <1>4, <1>8, <1>16, <2>1, <2>3, <2>4, <2>5, <2>6, <2>7, <2>8, RowArrives
<1>19. answer' = <<"inserted", t, <<p, k>>, row>> /\ <<p, k>> \in Rids
  BY <1>2, <1>3, <1>6, <1>18 DEF RowAdded, FreeRid
<1> QED
  BY <1>1, <1>12, <1>15, <1>17, <1>18, <1>19 DEF HeapInv, OthersSame

\* Page p, which is new, follows page tail and is the hint of page r.
Extended(pages, after, tail, p, b, r) ==
    /\ after \in [Pages -> PageType] /\ after[p] = b
    /\ \A q \in Pages \ {p} : /\ after[q].next = IF q = tail THEN p ELSE pages[q].next
                              /\ after[q].table = pages[q].table
                              /\ after[q].slots = pages[q].slots
                              /\ after[q].hint = IF q = r THEN p ELSE pages[q].hint
                              /\ q # tail /\ q # r => after[q] = pages[q]

LEMMA PageAppended ==
    ASSUME NEW pages \in [Pages -> PageType], NEW tail \in Pages, NEW p \in Pages,
           NEW r \in Pages, NEW b \in PageType, tail # p, r # p
    PROVE  Extended(pages, [[[pages EXCEPT ![tail].next = p] EXCEPT ![p] = b]
                                EXCEPT ![r].hint = p], tail, p, b, r)
<1> DEFINE grown == [pages EXCEPT ![tail].next = p]
           mid == [grown EXCEPT ![p] = b]
           after == [mid EXCEPT ![r].hint = p]
<1>1. ASSUME NEW q \in Pages
      PROVE  /\ grown[q] \in PageType /\ grown[q].next = IF q = tail THEN p ELSE pages[q].next
             /\ grown[q].table = pages[q].table /\ grown[q].hint = pages[q].hint
             /\ grown[q].slots = pages[q].slots
             /\ q # tail => grown[q] = pages[q]
  BY DEF PageType
<1>2. grown \in [Pages -> PageType]
  BY <1>1
<1> HIDE DEF grown
<1>3. /\ mid \in [Pages -> PageType] /\ mid[p] = b
      /\ \A q \in Pages \ {p} : mid[q] = grown[q]
  BY <1>2
<1> HIDE DEF mid
<1>4. ASSUME NEW q \in Pages
      PROVE  /\ after[q] \in PageType /\ after[q].next = mid[q].next
             /\ after[q].table = mid[q].table /\ after[q].slots = mid[q].slots
             /\ after[q].hint = IF q = r THEN p ELSE mid[q].hint
             /\ q # r => after[q] = mid[q]
  BY <1>3 DEF PageType
<1>5. after \in [Pages -> PageType]
  BY <1>3, <1>4
<1> HIDE DEF after
<1>6. after[p] = b
  BY <1>3, <1>4
<1>7. ASSUME NEW q \in Pages \ {p}
      PROVE  /\ after[q].next = IF q = tail THEN p ELSE pages[q].next
             /\ after[q].table = pages[q].table
             /\ after[q].slots = pages[q].slots
             /\ after[q].hint = IF q = r THEN p ELSE pages[q].hint
             /\ q # tail /\ q # r => after[q] = pages[q]
  BY <1>1, <1>3, <1>4
<1> QED
  BY <1>5, <1>6, <1>7 DEF after, mid, grown, Extended

\* A page with one record.
LEMMA OneRow ==
    ASSUME NEW t \in Tables, NEW row \in Rows
    PROVE  LET b == [Blank(t) EXCEPT !.slots = <<row>>]
           IN  /\ b \in PageType /\ b.slots = <<row>> /\ b.next = NoPage /\ b.table = t
               /\ b.hint = NoPage
  BY OneRecordFits DEF Blank, PageType

LEMMA InsertInNewPageStep ==
    ASSUME HeapInv, NEW t \in Tables, NEW row \in Rows, InsertInNewPage(t, row)
    PROVE  /\ HeapInv' /\ OthersSame(t) /\ root[t] # NoPage /\ root'[t] = root[t]
           /\ \E rid \in Rids : /\ answer' = <<"inserted", t, rid, row>>
                                /\ RowAdded(t, rid, row)
<1>0. PICK p, seen, tail, b, r :
         /\ p = NewPages(1)[1] /\ seen = LookedAt(t, Len(Candidates(t)))
         /\ tail = Last(Candidates(t)) /\ b = [Blank(t) EXCEPT !.slots = <<row>>] /\ r = root[t]
  OBVIOUS
<1>1. /\ root[t] # NoPage /\ Allocates(1) /\ root' = root /\ nextTable' = nextTable
      /\ free' = AfterNew(1)
  BY DEF InsertInNewPage
<1>2. /\ page' = [[[seen EXCEPT ![tail].next = p] EXCEPT ![p] = b] EXCEPT ![r].hint = p]
      /\ answer' = <<"inserted", t, <<p, 1>>, row>>
  BY <1>0 DEF InsertInNewPage
<1>3. /\ NewPages(1) \in Seq(Pages) /\ Len(NewPages(1)) = 1
      /\ AfterNew(1) \in Seq(Pages) /\ Distinct(AfterNew(1))
      /\ nextPage' \in 1..MaxPage + 1
      /\ Range(NewPages(1)) \cap Range(AfterNew(1)) = {}
      /\ Range(NewPages(1)) \cup Range(AfterNew(1)) = Range(free) \cup (Used' \ Used)
  BY <1>1, FreeFacts, Allocation
<1>4. p \in Pages /\ Range(NewPages(1)) = {p}
  BY <1>0, <1>3, RangeOfOne
<1>5. /\ \A u \in Tables : p \notin ChainSet(u)
      /\ Used \subseteq Used' /\ p < nextPage'
      /\ \A q \in Pages : q >= nextPage' => q >= nextPage
  BY <1>1, <1>4, NewPagesApart
<1>6. /\ seen \in [Pages -> PageType]
      /\ \A q \in Pages : /\ q \notin ChainSet(t) => seen[q] = page[q]
                          /\ seen[q].next = page[q].next /\ seen[q].table = page[q].table
                          /\ seen[q].hint = page[q].hint
                          /\ Smaller(seen[q].slots, page[q].slots)
  <2>1. Len(Candidates(t)) \in 0..Len(Candidates(t))
    BY <1>1, CandidatesAre
  <2> QED
    BY <1>0, <1>1, <2>1, LookedAtIs
<1>7. /\ r \in Pages /\ r \in ChainSet(t) /\ r # NoPage /\ tail \in Pages /\ tail \in ChainSet(t)
      /\ Chain(t) # <<>> /\ tail = Chain(t)[Len(Chain(t))] /\ p # tail /\ p # r
  <2>1. Len(Candidates(t)) \in 1..Len(Candidates(t))
        /\ Candidates(t)[Len(Candidates(t))] = Last(Candidates(t))
    BY <1>1, CandidatesAre DEF Last
  <2> QED
    BY <1>0, <1>1, <1>5, <2>1, CandidatesAre, ChainFacts
<1>8. /\ b \in PageType /\ b.slots = <<row>> /\ b.next = NoPage /\ b.table = t
      /\ b.hint = NoPage
  BY <1>0, OneRow
<1>9. Extended(seen, page', tail, p, b, r)
  <2>1. Extended(seen, [[[seen EXCEPT ![tail].next = p] EXCEPT ![p] = b] EXCEPT ![r].hint = p],
                 tail, p, b, r)
    BY <1>4, <1>6, <1>7, <1>8, PageAppended, Zenon
  <2> QED
    BY <1>2, <2>1
<1>10. /\ page' \in [Pages -> PageType] /\ page'[p] = b
       /\ \A q \in Pages \ {p} : /\ page'[q].next = IF q = tail THEN p ELSE page[q].next
                                 /\ page'[q].table = page[q].table
                                 /\ page'[q].slots = seen[q].slots
                                 /\ page'[q].hint = IF q = r THEN p ELSE page[q].hint
                                 /\ q \notin ChainSet(t) => page'[q] = page[q]
  BY <1>6, <1>7, <1>9 DEF Extended
<1>11. \A q \in Pages : Smaller(seen[q].slots, page[q].slots) /\ page[q].slots \in Slots
  BY <1>6, TypeFacts
<1>12. \A q \in Pages : Room(page[q].slots) <= Room(seen[q].slots)
                        /\ Len(seen[q].slots) <= PageRoom \div 2
  <2> TAKE q \in Pages
  <2>1. Len(page[q].slots) <= PageRoom \div 2 /\ Len(seen[q].slots) <= Len(page[q].slots)
        /\ Len(page[q].slots) \in Nat /\ Len(seen[q].slots) \in Nat /\ PageRoom \in Nat
    BY <1>11, TypeFacts, EmptyPage DEF Smaller, Slots
  <2> QED
    BY <2>1, <1>11 DEF Smaller
<1>13. TypeOK'
  <2>1. root' \in [Tables -> Pages \cup {NoPage}] /\ nextTable' \in 1..MaxTable + 1
    BY <1>1, TypeFacts
  <2>2. ASSUME NEW q \in Pages
        PROVE  /\ q >= nextPage' => page'[q] = FreePage
               /\ Len(page'[q].slots) <= PageRoom \div 2
    <3>1. q = p => ~(q >= nextPage')
      <4>1. nextPage' \in Nat /\ p \in Nat
        BY <1>3, <1>4, SizesAssumption DEF Pages
      <4> QED
        BY <4>1, <1>5
    <3>2. q \in ChainSet(t) => ~(q >= nextPage)
      BY ChainFacts, FreeFacts DEF Used
    <3>3. q >= nextPage => page[q] = FreePage
      BY TypeFacts
    <3>4. q = p => Len(page'[q].slots) <= PageRoom \div 2
      BY <1>8, <1>10, OneRecordFits
    <3> QED
      BY <3>1, <3>2, <3>3, <3>4, <1>5, <1>10, <1>12
  <2> QED
    BY <1>1, <1>3, <1>10, <2>1, <2>2 DEF TypeOK
<1> DEFINE s == Append(Chain(t), p)
<1>14. Linked(page', s, root'[t])
  <2>1. Linked(page, Chain(t), root[t]) /\ p \in Pages \ Range(Chain(t)) /\ Chain(t) # <<>>
    BY <1>4, <1>5, <1>7, ChainFacts DEF ChainSet
  <2>2. /\ page'[p].next = NoPage /\ page'[Chain(t)[Len(Chain(t))]].next = p
        /\ \A x \in Range(Chain(t)) \ {Chain(t)[Len(Chain(t))]} : page'[x].next = page[x].next
    <3>1. Range(Chain(t)) \subseteq Pages \ {p}
      BY <1>5, ChainFacts DEF ChainSet
    <3> QED
      BY <3>1, <1>7, <1>8, <1>10
  <2>3. Linked(page', Append(Chain(t), p), root[t])
    BY <2>1, <2>2, ChainGrows
  <2> QED
    BY <1>1, <2>3
<1>15. s \in Seq(Pages) /\ Range(s) = ChainSet(t) \cup {p}
  <2>1. Chain(t) \in Seq(Pages) /\ <<p>> \in Seq(Pages) /\ Range(<<p>>) = {p}
    BY <1>4, ChainFacts DEF Range
  <2>2. PICK c, one : c = Chain(t) /\ one = <<p>>
    OBVIOUS
  <2>3. c \in Seq(Pages) /\ one \in Seq(Pages) /\ s = c \o one
    BY <2>1, <2>2
  <2>4. c \o one \in Seq(Pages) /\ Range(c \o one) = Range(c) \cup Range(one)
    BY <2>3, Joined
  <2> QED
    BY <2>1, <2>2, <2>3, <2>4 DEF ChainSet
<1> HIDE DEF s
<1>16. HintFits(t, page', s, root'[t])
  <2>1. ASSUME NEW q \in ChainSet(t)
        PROVE  page'[q].table \in {0, t} /\ Room(page'[q].slots) >= 0
    <3>1. q \in Pages /\ page[q].table \in {0, t} /\ Room(page[q].slots) >= 0 /\ q # p
      BY <1>1, <1>5, ChainFacts DEF HeapInv, HintsOwned
    <3>2. Room(page[q].slots) \in Int /\ Room(seen[q].slots) \in Int
      BY <1>11, <3>1, RoomType DEF Smaller
    <3> QED
      BY <3>1, <3>2, <1>10, <1>12
  <2>2. page'[root'[t]].hint = p
    BY <1>0, <1>1, <1>7, <1>10
  <2>3. page'[p].table = t /\ Room(page'[p].slots) >= 0
    BY <1>8, <1>10, OneRecordFits
  <2> QED
    BY <2>1, <2>2, <2>3, <1>15 DEF HintFits
<1>17. /\ ChainsLinked' /\ HintsOwned' /\ Chain(t)' = s
       /\ \A u \in Tables \ {t} : RowsOf(u)' = RowsOf(u)
       /\ ChainSets' = [ChainSets EXCEPT ![t] = Range(s)]
  <2>1. \A u \in Tables \ {t} : \A q \in ChainSet(u) : page'[q] = page[q]
    <3>1. \A u \in Tables \ {t} : \A q \in ChainSet(u) :
             q \in Pages \ {p} /\ q \notin ChainSet(t)
      BY <1>5, ChainFacts
    <3> QED
      BY <3>1, <1>10
  <2>2. \A u \in Tables \ {t} : root'[u] = root[u]
    BY <1>1
  <2> QED
    BY <1>14, <1>16, <2>1, <2>2, OthersKept
<1>18. ChainSet(t)' = ChainSet(t) \cup {p}
  BY <1>15, <1>17 DEF ChainSet
<1>19. Settled'
  <2>1. ChainSet(t) \cap Range(free) = {} /\ ChainSet(t) \subseteq Used /\ Range(free) \subseteq Used
        /\ p \in Range(free) \cup (Used' \ Used)
    BY <1>3, <1>4, ChainFacts, FreeFacts
  <2>2. ChainSet(t) \cap Range(AfterNew(1)) = {}
    BY <2>1, <1>3
  <2>3. Distinct(free') /\ Range(s) \cap Range(free') = {}
    BY <2>2, <1>1, <1>3, <1>4, <1>15
  <2>4. Range(s) \cup Range(free') = Range(free) \cup ChainSet(t) \cup (Used' \ Used)
    BY <1>1, <1>3, <1>4, <1>15
  <2> QED
    BY <1>5, <1>17, <2>3, <2>4, SettledNext
<1>20. RowAdded(t, <<p, 1>>, row)
  <2>1. page'[p].slots[1] = row /\ Live(page'[p].slots) = {1} /\ 1 <= PageRoom \div 2
    <3>1. page'[p].slots = <<row>> /\ <<row>>[1] = row
      BY <1>8, <1>10
    <3>2. Live(<<row>>) = {1} /\ 1 <= PageRoom \div 2
      BY OneRecordFits
    <3> QED
      BY <3>1, <3>2
  <2>2. \A q \in ChainSet(t)' \ {p} :
           /\ Live(page'[q].slots) = Live(page[q].slots)
           /\ \A i \in Live(page[q].slots) : page'[q].slots[i] = page[q].slots[i]
    <3>1. ChainSet(t)' \ {p} \subseteq Pages \ {p}
      BY <1>18, ChainFacts
    <3> QED
      BY <3>1, <1>10, <1>11 DEF Smaller
  <2>3. p \notin ChainSet(t) /\ \A u \in Tables \ {t} : p \notin ChainSet(u)
    BY <1>5
  <2> QED
    BY <1>4, <1>18, <2>1, <2>2, <2>3, RowArrives
<1>21. <<p, 1>> \in Rids
  BY <1>20 DEF RowAdded, FreeRid
<1> QED
  BY <1>0, <1>1, <1>2, <1>13, <1>17, <1>19, <1>20, <1>21 DEF HeapInv, OthersSame

\* Page p gets the slots s and the table t.
Tagged(pages, after, p, s, t) ==
    /\ after \in [Pages -> PageType]
    /\ \A q \in Pages : /\ after[q].next = pages[q].next /\ after[q].hint = pages[q].hint
                        /\ after[q].table = IF q = p THEN t ELSE pages[q].table
                        /\ after[q].slots = IF q = p THEN s ELSE pages[q].slots
                        /\ q # p => after[q] = pages[q]

LEMMA SlotsAndTable ==
    ASSUME NEW pages \in [Pages -> PageType], NEW p \in Pages, NEW s \in Slots,
           NEW t \in Tables
    PROVE  Tagged(pages, [pages EXCEPT ![p].slots = s, ![p].table = t], p, s, t)
<1> DEFINE after == [pages EXCEPT ![p].slots = s, ![p].table = t]
<1>1. ASSUME NEW q \in Pages
      PROVE  /\ after[q] \in PageType /\ after[q].next = pages[q].next
             /\ after[q].hint = pages[q].hint
             /\ after[q].table = IF q = p THEN t ELSE pages[q].table
             /\ after[q].slots = IF q = p THEN s ELSE pages[q].slots
             /\ q # p => after[q] = pages[q]
  BY DEF PageType
<1>2. after \in [Pages -> PageType]
  BY <1>1
<1> HIDE DEF after
<1> QED
  BY <1>1, <1>2 DEF after, Tagged

\* Page r gets the hint h.
Hinted(pages, after, r, h) ==
    /\ after \in [Pages -> PageType]
    /\ \A q \in Pages : /\ after[q].next = pages[q].next /\ after[q].table = pages[q].table
                        /\ after[q].slots = pages[q].slots
                        /\ after[q].hint = IF q = r THEN h ELSE pages[q].hint
                        /\ q # r => after[q] = pages[q]

LEMMA HintSet ==
    ASSUME NEW pages \in [Pages -> PageType], NEW r \in Pages, NEW h \in Pages \cup {NoPage}
    PROVE  Hinted(pages, [pages EXCEPT ![r].hint = h], r, h)
<1> DEFINE after == [pages EXCEPT ![r].hint = h]
<1>1. ASSUME NEW q \in Pages
      PROVE  /\ after[q] \in PageType /\ after[q].next = pages[q].next
             /\ after[q].table = pages[q].table /\ after[q].slots = pages[q].slots
             /\ after[q].hint = IF q = r THEN h ELSE pages[q].hint
             /\ q # r => after[q] = pages[q]
  BY DEF PageType
<1>2. after \in [Pages -> PageType]
  BY <1>1
<1> HIDE DEF after
<1> QED
  BY <1>1, <1>2 DEF after, Hinted

\* A record id that fetch and delete accept is one of the table's.
LEMMA NamesOwn ==
    ASSUME HeapInv, NEW t \in Tables, root[t] # NoPage, NEW rid \in Rids
    PROVE  Names(t, rid) <=> rid \in DOMAIN RowsOf(t)
<1> DEFINE p == rid[1]
<1>1. p \in Pages
  BY DEF Rids
<1>2. \A u \in Tables : root[u] # NoPage => \A q \in ChainSet(u) : page[q].table \in {0, u}
  BY DEF HeapInv, HintsOwned
<1>3. Contains(free, p) <=> p \in Range(free)
  BY FreeFacts, RangeOf DEF Contains
<1>4. IsData(p) <=> \E u \in Tables : p \in ChainSet(u)
  <2>1. IsData(p) <=> p \in Used \ Range(free)
    BY <1>3 DEF IsData
  <2>2. p \in Used => p \in Range(free) \/ \E u \in Tables : p \in ChainSet(u)
    BY DEF HeapInv, Settled, Divided, ChainSets
  <2>3. \A u \in Tables : p \in ChainSet(u) => p \in Used \ Range(free)
    BY ChainFacts
  <2> QED
    BY <2>1, <2>2, <2>3
<1>5. Owns(t, p) <=> p \in ChainSet(t)
  <2>1. ASSUME Owns(t, p)
        PROVE  p \in ChainSet(t)
    <3>1. CASE page[p].table = 0 /\ p \in ChainSet(t)
      BY <3>1
    <3>2. CASE page[p].table = t
      <4>1. PICK u \in Tables : p \in ChainSet(u)
        BY <2>1, <1>4 DEF Owns
      <4>2. root[u] # NoPage
        BY <4>1, ChainFacts
      <4>3. t \in {0, u} /\ t # 0
        BY <3>2, <4>1, <4>2, <1>2 DEF Tables
      <4> QED
        BY <4>1, <4>3
    <3> QED
      BY <2>1, <3>1, <3>2 DEF Owns
  <2>2. ASSUME p \in ChainSet(t)
        PROVE  Owns(t, p)
    <3>1. page[p].table \in {0, t} /\ IsData(p)
      BY <2>2, <1>2, <1>4
    <3> QED
      BY <2>2, <3>1 DEF Owns
  <2> QED
    BY <2>1, <2>2
<1> QED
  BY <1>5, RowsAre DEF Names

\* One row less.
RowRemoved(t, rid) ==
    /\ rid \in DOMAIN RowsOf(t)
    /\ RowsOf(t)' = [r \in DOMAIN RowsOf(t) \ {rid} |-> RowsOf(t)[r]]

LEMMA RowLeaves ==
    ASSUME HeapInv, NEW t \in Tables, NEW rid \in DOMAIN RowsOf(t),
           ChainSet(t)' = ChainSet(t),
           \A q \in ChainSet(t) :
              /\ Live(page'[q].slots) = IF q = rid[1] THEN Live(page[q].slots) \ {rid[2]}
                                        ELSE Live(page[q].slots)
              /\ \A i \in Live(page'[q].slots) : page'[q].slots[i] = page[q].slots[i]
    PROVE  RowRemoved(t, rid)
<1> DEFINE D == {x \in Rids : x[1] \in ChainSet(t)' /\ x[2] \in Live(page'[x[1]].slots)}
<1>1. RowsOf(t)' = [r \in D |-> page'[r[1]].slots[r[2]]]
  BY NextRowsAre
<1>2. \A r \in Rids : r = <<r[1], r[2]>>
  BY DEF Rids
<1>3. DOMAIN RowsOf(t) \subseteq Rids
  BY RowsAre
<1>4. ASSUME NEW r \in Rids
      PROVE  r \in D <=> r \in DOMAIN RowsOf(t) \ {rid}
  <2>1. r \in DOMAIN RowsOf(t) <=> r[1] \in ChainSet(t) /\ r[2] \in Live(page[r[1]].slots)
    BY RowsAre
  <2>2. r = rid <=> r[1] = rid[1] /\ r[2] = rid[2]
    BY <1>2, <1>3
  <2>3. r \in D <=> r[1] \in ChainSet(t) /\ r[2] \in Live(page'[r[1]].slots)
    OBVIOUS
  <2> HIDE DEF D
  <2> QED
    BY <2>1, <2>2, <2>3
<1>5. D = DOMAIN RowsOf(t) \ {rid}
  <2>1. D \subseteq Rids
    OBVIOUS
  <2> HIDE DEF D
  <2> QED
    BY <1>3, <1>4, <2>1
<1>6. ASSUME NEW r \in D
      PROVE  page'[r[1]].slots[r[2]] = RowsOf(t)[r]
  <2>1. r[1] \in ChainSet(t) /\ r[2] \in Live(page'[r[1]].slots)
    OBVIOUS
  <2>2. RowsOf(t)[r] = page[r[1]].slots[r[2]]
    BY <1>5, RowsAre
  <2> QED
    BY <2>1, <2>2
<1> HIDE DEF D
<1> QED
  BY <1>1, <1>5, <1>6 DEF RowRemoved

LEMMA DeleteStep ==
    ASSUME HeapInv, NEW t \in Tables, NEW rid \in Rids, Delete(t, rid)
    PROVE  /\ HeapInv' /\ OthersSame(t) /\ root[t] # NoPage /\ root'[t] = root[t]
           /\ answer' = <<"deleted", t, rid>> /\ RowRemoved(t, rid)
<1>0a. PICK p, k, r : p = rid[1] /\ k = rid[2] /\ r = root[t]
  OBVIOUS
<1>0b. PICK cut :
         cut = [page EXCEPT ![p].slots = Compact([@ EXCEPT ![k] = Hole]), ![p].table = t]
  OBVIOUS
<1>0c. PICK h : h = IF cut[r].hint = NoPage \/ p < cut[r].hint THEN p ELSE cut[r].hint
  OBVIOUS
<1>0. /\ p = rid[1] /\ k = rid[2] /\ r = root[t]
      /\ cut = [page EXCEPT ![p].slots = Compact([@ EXCEPT ![k] = Hole]), ![p].table = t]
      /\ h = IF cut[r].hint = NoPage \/ p < cut[r].hint THEN p ELSE cut[r].hint
  BY <1>0a, <1>0b, <1>0c
<1>1. /\ Names(t, rid) /\ root[t] # NoPage /\ answer' = <<"deleted", t, rid>>
      /\ root' = root /\ nextTable' = nextTable /\ nextPage' = nextPage /\ free' = free
  BY DEF Delete, Names
<1>2. page' = [cut EXCEPT ![r].hint = h]
  BY <1>0 DEF Delete
<1>3. /\ rid \in DOMAIN RowsOf(t) /\ p \in Pages /\ p \in ChainSet(t)
      /\ k \in Live(page[p].slots)
  BY <1>0, <1>1, NamesOwn, RowsAre, ChainFacts
<1>4. r \in Pages /\ r \in ChainSet(t) /\ root'[t] = r
  BY <1>0, <1>1, ChainFacts
<1>5. PICK s : s = Compact([page[p].slots EXCEPT ![k] = Hole])
  OBVIOUS
<1>6. /\ s \in Slots /\ Len(s) <= Len(page[p].slots) /\ Room(page[p].slots) <= Room(s)
      /\ Live(s) = Live(page[p].slots) \ {k} /\ \A i \in Live(s) : s[i] = page[p].slots[i]
  <2>1. page[p].slots \in Slots
    BY <1>3, TypeFacts
  <2> QED
    BY <2>1, <1>3, <1>5, RowCut
<1>7. Tagged(page, cut, p, s, t)
  <2>1. cut = [page EXCEPT ![p].slots = s, ![p].table = t]
    BY <1>0, <1>5
  <2>2. page \in [Pages -> PageType]
    BY TypeFacts
  <2>3. Tagged(page, [page EXCEPT ![p].slots = s, ![p].table = t], p, s, t)
    BY <1>3, <1>6, <2>2, SlotsAndTable, Zenon
  <2> QED
    BY <2>1, <2>3
<1>8. cut[r].hint = page[r].hint /\ page[r].hint \in ChainSet(t) \cup {NoPage}
  BY <1>0, <1>1, <1>4, <1>7 DEF Tagged, HeapInv, HintsOwned
<1>9. h \in ChainSet(t) \cup {NoPage} /\ h \in Pages \cup {NoPage}
  BY <1>0, <1>3, <1>8, ChainFacts
<1>10. Hinted(cut, page', r, h)
  <2>1. cut \in [Pages -> PageType]
    BY <1>7 DEF Tagged
  <2>2. Hinted(cut, [cut EXCEPT ![r].hint = h], r, h)
    BY <1>4, <1>9, <2>1, HintSet, Zenon
  <2> QED
    BY <1>2, <2>2
<1>11. /\ page' \in [Pages -> PageType]
       /\ \A q \in Pages : /\ page'[q].next = page[q].next
                           /\ page'[q].table = IF q = p THEN t ELSE page[q].table
                           /\ page'[q].slots = IF q = p THEN s ELSE page[q].slots
                           /\ page'[q].hint = IF q = r THEN h ELSE page[q].hint
                           /\ q \notin ChainSet(t) => page'[q] = page[q]
  BY <1>3, <1>4, <1>7, <1>10 DEF Tagged, Hinted
<1>12. TypeOK'
  <2>1. root' \in [Tables -> Pages \cup {NoPage}] /\ nextTable' \in 1..MaxTable + 1
    BY <1>1, TypeFacts
  <2>2. nextPage' \in 1..MaxPage + 1 /\ free' \in Seq(Pages)
    BY <1>1, FreeFacts
  <2>3. ASSUME NEW q \in Pages
        PROVE  /\ q >= nextPage' => page'[q] = FreePage
               /\ Len(page'[q].slots) <= PageRoom \div 2
    <3>1. q \in ChainSet(t) => ~(q >= nextPage)
      BY ChainFacts, FreeFacts DEF Used
    <3>2. /\ q >= nextPage => page[q] = FreePage
          /\ Len(page[q].slots) <= PageRoom \div 2 /\ Len(page[q].slots) \in Nat
          /\ Len(s) \in Nat /\ PageRoom \div 2 \in Nat
      <4>1. page[q].slots \in Slots /\ PageRoom \in Nat
        BY TypeFacts, EmptyPage
      <4> QED
        BY <4>1, <1>6, TypeFacts DEF Slots
    <3>3. q = p => Len(s) <= PageRoom \div 2
      BY <3>2, <1>6
    <3> QED
      BY <3>1, <3>2, <3>3, <1>1, <1>11
  <2> QED
    BY <1>11, <2>1, <2>2, <2>3 DEF TypeOK
<1>13. Linked(page', Chain(t), root'[t])
  <2>1. Linked(page, Chain(t), root[t]) /\ \A q \in Range(Chain(t)) : page'[q].next = page[q].next
    BY <1>11, ChainFacts DEF ChainSet
  <2>2. Linked(page', Chain(t), root[t])
    BY <2>1, ChainKept
  <2> QED
    BY <1>1, <2>2
<1>14. HintFits(t, page', Chain(t), root'[t])
  <2>1. ASSUME NEW q \in ChainSet(t)
        PROVE  page'[q].table \in {0, t} /\ Room(page'[q].slots) >= 0
    <3>1. q \in Pages /\ page[q].table \in {0, t} /\ Room(page[q].slots) >= 0
      BY <1>1, ChainFacts DEF HeapInv, HintsOwned
    <3>2. Room(page[q].slots) \in Int /\ Room(s) \in Int
      BY <1>6, <3>1, RoomType, TypeFacts
    <3> QED
      BY <3>1, <3>2, <1>6, <1>11
  <2>2. page'[root'[t]].hint = h
    BY <1>4, <1>11
  <2> QED
    BY <2>1, <2>2, <1>9 DEF HintFits, ChainSet
<1>15. /\ ChainsLinked' /\ HintsOwned' /\ Chain(t)' = Chain(t)
       /\ \A u \in Tables \ {t} : RowsOf(u)' = RowsOf(u)
       /\ ChainSets' = [ChainSets EXCEPT ![t] = Range(Chain(t))]
  <2>1. \A u \in Tables \ {t} : \A q \in ChainSet(u) : page'[q] = page[q]
    BY <1>11, ChainFacts
  <2>2. \A u \in Tables \ {t} : root'[u] = root[u]
    BY <1>1
  <2> QED
    BY <1>13, <1>14, <2>1, <2>2, OthersKept
<1>16. ChainSet(t)' = ChainSet(t)
  BY <1>15 DEF ChainSet
<1>17. Settled'
  <2>1. Used' = Used
    BY <1>1 DEF Used
  <2>2. Range(Chain(t)) = ChainSet(t)
    BY DEF ChainSet
  <2> QED
    <3>1. Distinct(free') /\ Used \subseteq Used' /\ ChainSet(t) \cap Range(free') = {}
          /\ ChainSet(t) \cup Range(free') = Range(free) \cup ChainSet(t) \cup (Used' \ Used)
      BY <1>1, <2>1, FreeFacts, ChainFacts
    <3>2. ChainSets' = [ChainSets EXCEPT ![t] = ChainSet(t)]
      BY <1>15, <2>2
    <3> QED
      BY <3>1, <3>2, SettledNext
<1>18. RowRemoved(t, rid)
  <2>1. ASSUME NEW q \in ChainSet(t)
        PROVE  /\ Live(page'[q].slots) = IF q = rid[1] THEN Live(page[q].slots) \ {rid[2]}
                                         ELSE Live(page[q].slots)
               /\ \A i \in Live(page'[q].slots) : page'[q].slots[i] = page[q].slots[i]
    <3>1. q \in Pages
      BY ChainFacts
    <3> QED
      BY <3>1, <1>0, <1>6, <1>11
  <2> QED
    BY <1>3, <1>16, <2>1, RowLeaves
<1> QED
  BY <1>0, <1>1, <1>4, <1>12, <1>15, <1>17, <1>18 DEF HeapInv, OthersSame

-----------------------------------------------------------------------------
(***************************************************************************)
(* Rewriting a table.                                                       *)
(***************************************************************************)
LEMMA Multiples ==
    ASSUME NEW i \in Nat, NEW j \in Nat, NEW n \in Nat, i < j
    PROVE  i * n + n <= j * n
<1>1. PICK d \in Nat : j = (i + 1) + d
  <2>1. j - (i + 1) \in Nat /\ j = (i + 1) + (j - (i + 1))
    OBVIOUS
  <2> QED
    BY <2>1
<1>2. d * n \in Nat /\ i * n \in Nat
  OBVIOUS
<1>3. ((i + 1) + d) * n = i * n + n + d * n
  OBVIOUS
<1> QED
  BY <1>1, <1>2, <1>3

\* Scanning visits every record once.
LEMMA ScanIs ==
    ASSUME HeapInv, NEW t \in Tables, NEW rids \in SUBSET DOMAIN RowsOf(t)
    PROVE  /\ IsFiniteSet(rids) /\ ScanOrder(t, rids) \in Seq(rids)
           /\ Len(ScanOrder(t, rids)) = Cardinality(rids) /\ Cardinality(rids) \in Nat
           /\ \A i, j \in 1..Cardinality(rids) :
                 ScanOrder(t, rids)[i] = ScanOrder(t, rids)[j] => i = j
           /\ \A r \in rids : \E i \in 1..Cardinality(rids) : ScanOrder(t, rids)[i] = r
<1> DEFINE chain == Chain(t)
           pos(r) == CHOOSE i \in 1..Len(chain) : chain[i] = r[1]
           place == [r \in rids |-> pos(r) * PageRoom + r[2]]
           K == Cardinality(rids)
<1>1. rids \subseteq Rids /\ \A r \in rids : r[1] \in Range(chain)
  BY RowsAre DEF ChainSet
<1>2. IsFiniteSet(rids) /\ K \in Nat
  <2>1. IsFiniteSet(Pages) /\ IsFiniteSet(1..PageRoom \div 2)
    BY FS_Interval, SizesAssumption, EmptyPage DEF Pages
  <2>2. IsFiniteSet(Rids)
    BY <2>1, FS_Product DEF Rids
  <2> QED
    BY <1>1, <2>2, FS_Subset, FS_CardinalityType
<1>3. chain \in Seq(Pages)
  BY ChainFacts
<1>4. \A r \in rids : pos(r) \in 1..Len(chain) /\ chain[pos(r)] = r[1]
  BY <1>1, <1>3, RangeOf
<1>5. \A r \in rids : /\ pos(r) \in Nat /\ r[2] \in Nat /\ r[2] >= 1 /\ r[2] < PageRoom
                      /\ r = <<r[1], r[2]>>
  <2>1. PageRoom \in Nat \ {0} /\ Len(chain) \in Nat
    BY SizesAssumption, <1>3
  <2>2. \A r \in rids : r[2] \in 1..PageRoom \div 2 /\ r = <<r[1], r[2]>>
    BY <1>1 DEF Rids
  <2> HIDE DEF pos, chain
  <2>3. \A x \in 1..PageRoom \div 2 : x \in Nat /\ x >= 1 /\ x < PageRoom
    BY <2>1
  <2> QED
    BY <1>4, <2>1, <2>2, <2>3
<1> HIDE DEF pos, chain
<1>6. place \in [rids -> Nat]
  <2>1. PageRoom \in Nat
    BY EmptyPage
  <2>2. \A i \in Nat : i * PageRoom \in Nat
    BY <2>1
  <2> QED
    BY <1>5, <2>2
<1>7. ASSUME NEW x \in rids, NEW y \in rids, place[x] = place[y]
      PROVE  x = y
  <2>1. PageRoom \in Nat /\ pos(x) * PageRoom \in Nat /\ pos(y) * PageRoom \in Nat
        /\ pos(x) * PageRoom + x[2] = pos(y) * PageRoom + y[2]
    BY <1>5, <1>7, EmptyPage
  <2>2. pos(x) < pos(y) => pos(x) * PageRoom + PageRoom <= pos(y) * PageRoom
    BY <1>5, <2>1, Multiples
  <2>3. pos(y) < pos(x) => pos(y) * PageRoom + PageRoom <= pos(x) * PageRoom
    BY <1>5, <2>1, Multiples
  <2>4. pos(x) = pos(y)
    <3> DEFINE a == pos(x) * PageRoom
               b == pos(y) * PageRoom
    <3>1. a \in Nat /\ b \in Nat /\ a + x[2] = b + y[2] /\ PageRoom \in Nat
          /\ (pos(x) < pos(y) => a + PageRoom <= b) /\ (pos(y) < pos(x) => b + PageRoom <= a)
      BY <2>1, <2>2, <2>3
    <3> HIDE DEF a, b
    <3> QED
      BY <3>1, <1>5
  <2> QED
    BY <1>4, <1>5, <2>1, <2>4
<1>8. ScanOrder(t, rids) = [n \in 1..K |-> Nth(rids, place, n)]
  BY DEF ScanOrder, Nth, Rank, pos, chain
<1> HIDE DEF place, K
<1>9. /\ \A n \in 1..K : Nth(rids, place, n) \in rids /\ Rank(rids, place, Nth(rids, place, n)) = n
      /\ \A x \in rids : /\ Rank(rids, place, x) \in 1..K
                         /\ Nth(rids, place, Rank(rids, place, x)) = x
  BY <1>2, <1>6, <1>7, NthIs DEF K
<1>10. ScanOrder(t, rids) \in Seq(rids) /\ Len(ScanOrder(t, rids)) = K
  BY <1>2, <1>8, <1>9
<1> QED
  BY <1>2, <1>8, <1>9, <1>10 DEF K

\* The records a rewrite keeps.
Kept(t, transform) == {r \in DOMAIN RowsOf(t) : transform[RowsOf(t)[r]] # Missing}

LEMMA EncodedIs ==
    ASSUME HeapInv, NEW t \in Tables, NEW transform \in Transforms
    PROVE  /\ Encoded(t, transform) \in Seq(Rows)
           /\ Len(Encoded(t, transform)) = Cardinality(Kept(t, transform))
           /\ \A i \in 1..Len(Encoded(t, transform)) :
                 /\ ScanOrder(t, Kept(t, transform))[i] \in Kept(t, transform)
                 /\ Encoded(t, transform)[i]
                      = transform[RowsOf(t)[ScanOrder(t, Kept(t, transform))[i]]]
<1> DEFINE K == Kept(t, transform)
           kept == ScanOrder(t, K)
<1>1. K \in SUBSET DOMAIN RowsOf(t)
  BY DEF Kept
<1>2. kept \in Seq(K) /\ Len(kept) = Cardinality(K) /\ Cardinality(K) \in Nat
  BY <1>1, ScanIs
<1>3. Encoded(t, transform) = [n \in 1..Len(kept) |-> transform[RowsOf(t)[kept[n]]]]
  BY DEF Encoded, Kept
<1>4. \A r \in K : transform[RowsOf(t)[r]] \in Rows
  BY RowsAre DEF Kept, Transforms
<1> HIDE DEF K, kept
<1>5. \A n \in 1..Len(kept) : kept[n] \in K
  BY <1>2
<1>6. \A n \in 1..Len(kept) : transform[RowsOf(t)[kept[n]]] \in Rows
  BY <1>4, <1>5
<1>7. Encoded(t, transform) \in Seq(Rows) /\ Len(Encoded(t, transform)) = Len(kept)
  BY <1>2, <1>3, <1>6
<1> QED
  BY <1>2, <1>3, <1>5, <1>7 DEF K, kept

\* The i-th page of the new chain.
NewPage(t, records, starts, new, i) ==
    [table |-> t, slots |-> Filled(records, starts, StartOf(starts, i)),
     next |-> IF i < Len(new) THEN new[i + 1] ELSE NoPage,
     hint |-> IF i = 1 THEN new[1] ELSE NoPage]

\* The pages new hold the records, as many on each as fit.
Written(t, pages, records, starts, new) ==
    /\ starts \in SUBSET Nat /\ IsFiniteSet(starts)
    /\ Beginnings(records, starts) /\ Packed(records, starts)
    /\ new \in Seq(Pages) /\ Distinct(new) /\ Len(new) = Cardinality(starts) /\ Len(new) >= 1
    /\ \A i \in 1..Len(new) : pages[new[i]] = NewPage(t, records, starts, new, i)

LEMMA BeginningsCount ==
    ASSUME NEW k \in Nat, NEW more \in SUBSET (2..k)
    PROVE  LET starts == {1} \cup more
           IN  /\ starts \in SUBSET Nat /\ IsFiniteSet(starts)
               /\ Cardinality(starts) \in Nat /\ Cardinality(starts) >= 1
<1> DEFINE starts == {1} \cup more
<1>1. IsFiniteSet(2..k) /\ IsFiniteSet({1})
  <2>1. 2 \in Int /\ k \in Int
    OBVIOUS
  <2>2. IsFiniteSet(2..k)
    BY <2>1, FS_Interval
  <2>3. IsFiniteSet({1})
    BY FS_Singleton
  <2> QED
    BY <2>2, <2>3
<1>2. IsFiniteSet(starts)
  BY <1>1, FS_Subset, FS_Union
<1>3. Cardinality(starts) \in Nat /\ Cardinality(starts) # 0
  BY <1>2, FS_CardinalityType, FS_EmptySet
<1>4. starts \in SUBSET Nat
  OBVIOUS
<1> HIDE DEF starts
<1>5. Cardinality(starts) >= 1
  BY <1>3
<1> QED
  BY <1>2, <1>3, <1>4, <1>5 DEF starts

LEMMA RewriteWrites ==
    ASSUME HeapInv, NEW t \in Tables, NEW transform \in Transforms, RewriteTable(t, transform)
    PROVE  /\ root[t] # NoPage /\ answer' = <<"rewritten", t, transform>>
           /\ nextTable' = nextTable
           /\ \E starts, new, n :
                 /\ n \in Nat /\ n >= 1 /\ Allocates(n) /\ new = NewPages(n)
                 /\ root' = [root EXCEPT ![t] = new[1]]
                 /\ free' = Reverse(Chain(t)) \o AfterNew(n)
                 /\ page' = [q \in Pages |-> page'[q]]
                 /\ \A q \in ChainSet(t) : page'[q] = FreePage
                 /\ \A q \in Pages : q \notin ChainSet(t) /\ q \notin Range(new)
                                       => page'[q] = page[q]
                 /\ Written(t, page', Encoded(t, transform), starts, new)
<1> DEFINE records == Encoded(t, transform)
           old == ChainSet(t)
<1>0. PICK first : first = NewPages(1)[1]
  OBVIOUS
<1>1. /\ root[t] # NoPage /\ answer' = <<"rewritten", t, transform>> /\ nextTable' = nextTable
  BY DEF RewriteTable, Rewrite
<1>2. PICK more \in SUBSET (2..Len(records)) :
        LET starts == {1} \cup more
            n == Cardinality(starts)
            new == NewPages(n)
        IN  /\ Allocates(n)
            /\ Packed(records, starts)
            /\ page' = [p \in Pages |->
                  IF p \in old THEN FreePage
                  ELSE IF p \in Range(new)
                       THEN LET i == CHOOSE j \in 1..n : new[j] = p IN
                            [table |-> t, slots |-> Filled(records, starts, StartOf(starts, i)),
                             next |-> IF i < n THEN new[i + 1] ELSE NoPage,
                             hint |-> IF i = 1 THEN first ELSE NoPage]
                       ELSE page[p]]
            /\ root' = [root EXCEPT ![t] = new[1]]
            /\ free' = Reverse(Chain(t)) \o AfterNew(n)
  <2>1. Rewrite(t, transform, first)
    BY <1>0 DEF RewriteTable
  <2> QED
    BY <2>1, ZenonT(30) DEF Rewrite, StartOf
<1>3. PICK starts : starts = {1} \cup more
  OBVIOUS
<1>4. PICK n : n = Cardinality(starts)
  OBVIOUS
<1>5. PICK new : new = NewPages(n)
  OBVIOUS
<1>6. /\ Allocates(n) /\ Packed(records, starts) /\ root' = [root EXCEPT ![t] = new[1]]
      /\ free' = Reverse(Chain(t)) \o AfterNew(n)
      /\ page' = [p \in Pages |->
            IF p \in old THEN FreePage
            ELSE IF p \in Range(new)
                 THEN LET i == CHOOSE j \in 1..n : new[j] = p IN
                      [table |-> t, slots |-> Filled(records, starts, StartOf(starts, i)),
                       next |-> IF i < n THEN new[i + 1] ELSE NoPage,
                       hint |-> IF i = 1 THEN first ELSE NoPage]
                 ELSE page[p]]
  BY <1>2, <1>3, <1>4, <1>5
<1>7. records \in Seq(Rows) /\ Len(records) \in Nat
  BY EncodedIs
<1> HIDE DEF records
<1>8. /\ starts \in SUBSET Nat /\ IsFiniteSet(starts) /\ n \in Nat /\ n >= 1
      /\ Beginnings(records, starts)
  <2>1. /\ starts \in SUBSET Nat /\ IsFiniteSet(starts)
        /\ Cardinality(starts) \in Nat /\ Cardinality(starts) >= 1
    BY <1>3, <1>7, BeginningsCount
  <2>2. Beginnings(records, starts)
    BY <1>3 DEF Beginnings
  <2> QED
    BY <1>4, <2>1, <2>2
<1>9. /\ new \in Seq(Pages) /\ Len(new) = n /\ Distinct(new)
      /\ \A q \in Range(new) : q \in Pages /\ q \notin old
  BY <1>5, <1>6, <1>8, FreeFacts, Allocation, NewPagesApart
<1>10. first = new[1]
  <2>1. NewPages(1)[1] = IF 1 <= Len(free) THEN free[1] ELSE nextPage + (1 - Len(free) - 1)
    BY DEF NewPages
  <2>2. 1 \in 1..n
    BY <1>8
  <2>3. NewPages(n)[1] = IF 1 <= Len(free) THEN free[1] ELSE nextPage + (1 - Len(free) - 1)
    BY <2>2 DEF NewPages
  <2> QED
    BY <1>0, <1>5, <2>1, <2>3
<1>11. ASSUME NEW i \in 1..n
       PROVE  page'[new[i]] = NewPage(t, records, starts, new, i)
  <2>1. new[i] \in Range(new) /\ new[i] \in Pages /\ new[i] \notin old
    BY <1>9, RangeOf
  <2>2. \A j \in 1..n : new[j] = new[i] => j = i
    BY <1>9 DEF Distinct
  <2>3. (CHOOSE j \in 1..n : new[j] = new[i]) = i
    BY <2>2
  <2>4. page'[new[i]] =
           LET x == CHOOSE j \in 1..n : new[j] = new[i] IN
             [table |-> t, slots |-> Filled(records, starts, StartOf(starts, x)),
              next |-> IF x < n THEN new[x + 1] ELSE NoPage,
              hint |-> IF x = 1 THEN first ELSE NoPage]
    BY <1>6, <2>1
  <2> QED
    BY <1>9, <1>10, <2>3, <2>4 DEF NewPage
<1>12. Written(t, page', records, starts, new)
  BY <1>4, <1>6, <1>8, <1>9, <1>11 DEF Written
<1>13. /\ page' = [q \in Pages |-> page'[q]] /\ \A q \in ChainSet(t) : page'[q] = FreePage
       /\ \A q \in Pages : q \notin ChainSet(t) /\ q \notin Range(new) => page'[q] = page[q]
  <2>1. ChainSet(t) \subseteq Pages
    BY ChainFacts
  <2> QED
    BY <1>6, <2>1
<1> QED
  BY <1>1, <1>5, <1>6, <1>8, <1>12, <1>13 DEF records

\* The pages of the new chain, one by one.
LEMMA WrittenPages ==
    ASSUME NEW t \in Tables, NEW pages, NEW records \in Seq(Rows), NEW starts, NEW new,
           Written(t, pages, records, starts, new)
    PROVE  /\ \A i \in 1..Len(new) :
                 /\ StartOf(starts, i) \in starts /\ pages[new[i]] \in PageType
                 /\ pages[new[i]].table = t
                 /\ pages[new[i]].next = (IF i < Len(new) THEN new[i + 1] ELSE NoPage)
                 /\ pages[new[i]].hint = (IF i = 1 THEN new[1] ELSE NoPage)
                 /\ pages[new[i]].slots = Filled(records, starts, StartOf(starts, i))
                 /\ Len(pages[new[i]].slots) <= PageRoom \div 2
                 /\ Room(pages[new[i]].slots) >= 0
           /\ Linked(pages, new, new[1]) /\ HintFits(t, pages, new, new[1])
           /\ new[1] \in Pages /\ new[1] # NoPage
<1>1. /\ starts \in SUBSET Nat /\ IsFiniteSet(starts)
      /\ Beginnings(records, starts) /\ Packed(records, starts)
      /\ new \in Seq(Pages) /\ Distinct(new) /\ Len(new) = Cardinality(starts) /\ Len(new) >= 1
      /\ \A i \in 1..Len(new) : pages[new[i]] = NewPage(t, records, starts, new, i)
      /\ Len(new) \in Nat
  BY DEF Written
<1>2. \A i \in 1..Len(new) : new[i] \in Pages /\ new[i] \in Range(new)
  BY <1>1, RangeOf
<1>3. 1 \in 1..Len(new) /\ NoPage \notin Pages
  BY <1>1, SizesAssumption DEF Pages
<1>4. new # <<>>
  BY <1>1
<1>5. ASSUME NEW i \in 1..Len(new)
      PROVE  /\ StartOf(starts, i) \in starts /\ pages[new[i]] \in PageType
             /\ pages[new[i]].table = t
             /\ pages[new[i]].next = (IF i < Len(new) THEN new[i + 1] ELSE NoPage)
             /\ pages[new[i]].hint = (IF i = 1 THEN new[1] ELSE NoPage)
             /\ pages[new[i]].slots = Filled(records, starts, StartOf(starts, i))
             /\ Len(pages[new[i]].slots) <= PageRoom \div 2
             /\ Room(pages[new[i]].slots) >= 0
  <2>1. StartOf(starts, i) \in starts
    BY <1>1, StartIs
  <2>2. PICK f : f = Filled(records, starts, StartOf(starts, i))
    OBVIOUS
  <2>3. f \in Slots /\ Room(f) >= 0 /\ Len(f) <= PageRoom \div 2
    BY <1>1, <2>1, <2>2, PageFilled
  <2>4. i < Len(new) => i + 1 \in 1..Len(new)
    BY <1>1
  <2>5. PICK x, h : /\ x = IF i < Len(new) THEN new[i + 1] ELSE NoPage
                    /\ h = IF i = 1 THEN new[1] ELSE NoPage
    OBVIOUS
  <2>6. x \in Pages \cup {NoPage} /\ h \in Pages \cup {NoPage}
    BY <1>2, <1>3, <2>4, <2>5
  <2>7. pages[new[i]] = [table |-> t, slots |-> f, next |-> x, hint |-> h]
    BY <1>1, <2>2, <2>5 DEF NewPage
  <2>8. [table |-> t, slots |-> f, next |-> x, hint |-> h] \in PageType
    BY <2>3, <2>6 DEF PageType
  <2> QED
    BY <2>1, <2>2, <2>3, <2>5, <2>7, <2>8
<1>6. Linked(pages, new, new[1])
  BY <1>1, <1>2, <1>3, <1>4, <1>5 DEF Linked
<1>7. HintFits(t, pages, new, new[1])
  <2>1. pages[new[1]].hint = new[1] /\ new[1] \in Range(new)
    BY <1>2, <1>3, <1>5
  <2>2. \A q \in Range(new) : \E i \in 1..Len(new) : new[i] = q
    BY <1>1, RangeOf
  <2>3. \A q \in Range(new) : pages[q].table = t /\ Room(pages[q].slots) >= 0
    BY <2>2, <1>5
  <2> QED
    BY <2>1, <2>3 DEF HintFits
<1>8. new[1] \in Pages /\ new[1] # NoPage
  BY <1>2, <1>3
<1> QED
  BY <1>5, <1>6, <1>7, <1>8

LEMMA RewriteStep ==
    ASSUME HeapInv, NEW t \in Tables, NEW transform \in Transforms, RewriteTable(t, transform)
    PROVE  /\ HeapInv' /\ OthersSame(t) /\ root[t] # NoPage /\ root'[t] # NoPage
           /\ answer' = <<"rewritten", t, transform>>
           /\ \E starts : Written(t, page', Encoded(t, transform), starts, Chain(t)')
<1> DEFINE records == Encoded(t, transform)
<1>1. /\ root[t] # NoPage /\ answer' = <<"rewritten", t, transform>> /\ nextTable' = nextTable
  BY RewriteWrites
<1>2. PICK starts, new, n :
         /\ n \in Nat /\ n >= 1 /\ Allocates(n) /\ new = NewPages(n)
         /\ root' = [root EXCEPT ![t] = new[1]]
         /\ free' = Reverse(Chain(t)) \o AfterNew(n)
         /\ page' = [q \in Pages |-> page'[q]]
         /\ \A q \in ChainSet(t) : page'[q] = FreePage
         /\ \A q \in Pages : q \notin ChainSet(t) /\ q \notin Range(new) => page'[q] = page[q]
         /\ Written(t, page', records, starts, new)
  BY RewriteWrites
<1>3. records \in Seq(Rows)
  BY EncodedIs
<1> HIDE DEF records
<1>4. /\ new \in Seq(Pages) /\ Len(new) = n /\ Distinct(new)
      /\ AfterNew(n) \in Seq(Pages) /\ Distinct(AfterNew(n))
      /\ nextPage' \in 1..MaxPage + 1
      /\ Range(new) \cap Range(AfterNew(n)) = {}
      /\ Range(new) \cup Range(AfterNew(n)) = Range(free) \cup (Used' \ Used)
  BY <1>2, FreeFacts, Allocation
<1>5. /\ \A u \in Tables : ChainSet(u) \cap Range(new) = {}
      /\ Used \subseteq Used'
      /\ \A q \in Range(new) : q \in Pages /\ q < nextPage'
      /\ \A q \in Pages : q >= nextPage' => q >= nextPage
  BY <1>2, NewPagesApart
<1>6. /\ \A i \in 1..Len(new) :
            /\ page'[new[i]] \in PageType /\ Len(page'[new[i]].slots) <= PageRoom \div 2
      /\ Linked(page', new, new[1]) /\ HintFits(t, page', new, new[1])
      /\ new[1] \in Pages /\ new[1] # NoPage
  <2>1. PICK pages : pages = page'
    OBVIOUS
  <2>2. Written(t, pages, records, starts, new)
    BY <1>2, <2>1
  <2>3. /\ \A i \in 1..Len(new) :
              /\ pages[new[i]] \in PageType /\ Len(pages[new[i]].slots) <= PageRoom \div 2
        /\ Linked(pages, new, new[1]) /\ HintFits(t, pages, new, new[1])
        /\ new[1] \in Pages /\ new[1] # NoPage
    BY <1>3, <2>2, WrittenPages
  <2> QED
    BY <2>1, <2>3
<1>7. \A q \in Range(new) : page'[q] \in PageType /\ Len(page'[q].slots) <= PageRoom \div 2
  <2>1. \A q \in Range(new) : \E i \in 1..Len(new) : new[i] = q
    BY <1>4, RangeOf
  <2> QED
    BY <1>6, <2>1
<1>8. root'[t] = new[1] /\ \A u \in Tables \ {t} : root'[u] = root[u]
  BY <1>2, TypeFacts
<1>9. FreePage \in PageType /\ Len(FreePage.slots) <= PageRoom \div 2
  BY BlankIs DEF FreePage
<1>10. /\ free' \in Seq(Pages) /\ Distinct(free')
       /\ Range(free') = ChainSet(t) \cup Range(AfterNew(n))
  <2>1. Chain(t) \in Seq(Pages) /\ Distinct(Chain(t)) /\ ChainSet(t) \cap Range(free) = {}
        /\ ChainSet(t) \subseteq Used
    BY ChainFacts
  <2>2. /\ Reverse(Chain(t)) \in Seq(Pages) /\ Range(Reverse(Chain(t))) = ChainSet(t)
        /\ Distinct(Reverse(Chain(t)))
    BY <2>1, Reversed DEF ChainSet
  <2>3. Range(Reverse(Chain(t))) \cap Range(AfterNew(n)) = {}
    BY <1>4, <2>1, <2>2
  <2>4. PICK a, b : a = Reverse(Chain(t)) /\ b = AfterNew(n)
    OBVIOUS
  <2>5. a \in Seq(Pages) /\ b \in Seq(Pages) /\ Distinct(a) /\ Distinct(b)
        /\ Range(a) \cap Range(b) = {} /\ Range(a) = ChainSet(t)
    BY <1>4, <2>2, <2>3, <2>4
  <2>6. /\ a \o b \in Seq(Pages) /\ Range(a \o b) = Range(a) \cup Range(b) /\ Distinct(a \o b)
    BY <2>5, Joined
  <2> QED
    BY <1>2, <2>4, <2>5, <2>6
<1>11. TypeOK'
  <2>1. root' \in [Tables -> Pages \cup {NoPage}]
    BY <1>2, <1>6, TypeFacts
  <2>2. nextTable' \in 1..MaxTable + 1
    BY <1>1, TypeFacts
  <2>3. ASSUME NEW q \in Pages
        PROVE  /\ page'[q] \in PageType
               /\ q >= nextPage' => page'[q] = FreePage
               /\ Len(page'[q].slots) <= PageRoom \div 2
    <3>1. CASE q \in ChainSet(t)
      BY <3>1, <1>2, <1>9
    <3>2. CASE q \in Range(new)
      <4>1. q < nextPage' /\ nextPage' \in Nat /\ q \in Nat
        BY <3>2, <1>4, <1>5, SizesAssumption DEF Pages
      <4> QED
        BY <3>2, <4>1, <1>7
    <3>3. CASE q \notin ChainSet(t) /\ q \notin Range(new)
      <4>1. page'[q] = page[q]
        BY <3>3, <1>2
      <4>2. page[q] \in PageType
        BY TypeFacts
      <4>3. Len(page[q].slots) <= PageRoom \div 2
        BY TypeFacts
      <4> QED
        BY <4>1, <4>2, <4>3, <1>5, TypeFacts
    <3> QED
      BY <3>1, <3>2, <3>3
  <2> QED
    BY <1>2, <1>4, <1>10, <2>1, <2>2, <2>3 DEF TypeOK
<1>12. /\ ChainsLinked' /\ HintsOwned' /\ Chain(t)' = new
       /\ \A u \in Tables \ {t} : RowsOf(u)' = RowsOf(u)
       /\ ChainSets' = [ChainSets EXCEPT ![t] = Range(new)]
  <2>1. \A u \in Tables \ {t} : \A q \in ChainSet(u) : page'[q] = page[q]
    <3>1. \A u \in Tables \ {t} : \A q \in ChainSet(u) :
             q \in Pages /\ q \notin ChainSet(t) /\ q \notin Range(new)
      BY <1>5, ChainFacts
    <3> QED
      BY <3>1, <1>2
  <2>2. Linked(page', new, root'[t]) /\ HintFits(t, page', new, root'[t])
    BY <1>6, <1>8
  <2> QED
    BY <1>8, <2>1, <2>2, OthersKept
<1>13. Settled'
  <2>1. Range(new) \cap Range(free') = {}
    BY <1>4, <1>5, <1>10
  <2>2. Range(new) \cup Range(free') = Range(free) \cup ChainSet(t) \cup (Used' \ Used)
    BY <1>4, <1>10
  <2> QED
    BY <1>5, <1>10, <1>12, <2>1, <2>2, SettledNext
<1> QED
  BY <1>1, <1>2, <1>6, <1>8, <1>11, <1>12, <1>13 DEF HeapInv, OthersSame, records

LEMMA InvNext ==
    ASSUME HeapInv, [Next]_vars
    PROVE  HeapInv'
<1>1. CASE CreateTable
  <2>1. PICK t : t = nextTable
    OBVIOUS
  <2> QED
    BY <1>1, <2>1, CreateStep
<1>2. ASSUME NEW t \in Tables, DropTable(t)
      PROVE  HeapInv'
  BY <1>2, DropStep
<1>3. ASSUME NEW t \in Tables, NEW row \in Rows, InsertInPage(t, row)
      PROVE  HeapInv'
  BY <1>3, InsertInPageStep
<1>4. ASSUME NEW t \in Tables, NEW row \in Rows, InsertInNewPage(t, row)
      PROVE  HeapInv'
  BY <1>4, InsertInNewPageStep
<1>5. ASSUME NEW t \in Tables, NEW rid \in Rids, Delete(t, rid)
      PROVE  HeapInv'
  BY <1>5, DeleteStep
<1>6. ASSUME NEW t \in Tables, NEW transform \in Transforms, RewriteTable(t, transform)
      PROVE  HeapInv'
  BY <1>6, RewriteStep
<1>7. CASE UNCHANGED vars
  BY <1>7 DEF vars, HeapInv, TypeOK, ChainsLinked, Settled, HintsOwned, ChainSets, ChainSet,
              Chain, Used
<1> QED
  BY <1>1, <1>2, <1>3, <1>4, <1>5, <1>6, <1>7 DEF Next

\* In every reachable state the root map and the next fields form one chain per
\* table, without repetition; the free list, the chains and the unused end of the
\* file share out all pages; every hint is a page of its own table; and no page
\* holds more than its room (record.py: create_table, insert, delete,
\* rewrite_table and drop_table).
THEOREM HeapAlways == Spec => []HeapInv
<1>1. HeapInv /\ [Next]_vars => HeapInv'
  BY InvNext
<1> QED
  BY InitInv, <1>1, PTL DEF Spec

\* One owner per page, once.
LEMMA OneOwner ==
    ASSUME HeapInv
    PROVE  PagesOwned
<1> DEFINE owners == {Chain(t) : t \in {u \in Tables : root[u] # NoPage}} \cup {free}
<1>1. ASSUME NEW s \in owners
      PROVE  s \in Seq(Pages) /\ Distinct(s) /\ Range(s) \subseteq Used
  BY ChainFacts, FreeFacts DEF ChainSet
<1>2. \A s \in owners : Len(s) = Cardinality(Range(s))
  BY <1>1, DistinctCount
<1>3. ASSUME NEW p \in Used
      PROVE  Cardinality({s \in owners : p \in Range(s)}) = 1
  <2> DEFINE own == {s \in owners : p \in Range(s)}
  <2>1. \E s : own = {s}
    <3>1. CASE p \in Range(free)
      <4>1. \A t \in Tables : p \notin Range(Chain(t))
        BY <3>1, ChainFacts DEF ChainSet
      <4>2. own = {free}
        BY <3>1, <4>1
      <4> QED
        BY <4>2
    <3>2. CASE p \notin Range(free)
      <4>1. PICK t \in Tables : p \in ChainSet(t)
        BY <3>2 DEF HeapInv, Settled, Divided, ChainSets
      <4>2. root[t] # NoPage
        BY <4>1, ChainFacts
      <4>3. \A u \in Tables : p \in Range(Chain(u)) => u = t
        BY <4>1, ChainFacts DEF ChainSet
      <4>4. own = {Chain(t)}
        BY <3>2, <4>1, <4>2, <4>3 DEF ChainSet
      <4> QED
        BY <4>4
    <3> QED
      BY <3>1, <3>2
  <2> QED
    BY <2>1, FS_Singleton
<1>4. ASSUME NEW t \in Tables, NEW u \in Tables, root[t] = root[u], root[t] # NoPage
      PROVE  t = u
  BY <1>4, ChainFacts
<1>5. UNION {Range(s) : s \in owners} \subseteq Used
  BY <1>1
<1> HIDE DEF owners
<1> QED
  BY <1>2, <1>3, <1>4, <1>5 DEF PagesOwned, owners

\* Pages, chains and hints fit together through every creation, insert, deletion,
\* rewrite and drop (record.py): no page is lost or owned twice, and an insertion
\* starts in its own table, on a page that is not over-full.
THEOREM HeapSound == Spec => []ChainsSound
<1>1. HeapInv => ChainsSound
  BY OneOwner DEF ChainsSound, HeapInv
<1> QED
  BY HeapAlways, <1>1, PTL

\* fetch and delete accept a record id exactly when it names a live row of the
\* table they were given (record.py: fetch, delete and _legacy_page_belongs).
THEOREM RidsOwned == Spec => []OwnRidsOnly
<1>1. HeapInv => OwnRidsOnly
  BY NamesOwn DEF OwnRidsOnly
<1> QED
  BY HeapAlways, <1>1, PTL

-----------------------------------------------------------------------------
(***************************************************************************)
(* Record ids keep their rows: HeapStorage implements RecordTables.         *)
(***************************************************************************)

\* The pages of the new chain share out the records.
LEMMA Paged ==
    ASSUME NEW records \in Seq(Rows), NEW starts \in SUBSET Nat, Beginnings(records, starts)
    PROVE  /\ \A s \in starts : /\ EndOf(records, starts, s) \in 0..Len(records) /\ s >= 1
                                /\ s..EndOf(records, starts, s) \subseteq 1..Len(records)
           /\ \A s, x \in starts : \A m \in 1..Len(records) :
                 m \in s..EndOf(records, starts, s) /\ m \in x..EndOf(records, starts, x)
                    => s = x
           /\ \A m \in 1..Len(records) : \E s \in starts : m \in s..EndOf(records, starts, s)
<1> DEFINE e(s) == EndOf(records, starts, s)
           L == Len(records)
<1>1. L \in Nat
  OBVIOUS
<1>2. ASSUME NEW s \in starts
      PROVE  /\ e(s) \in 0..L /\ (e(s) = L \/ (s <= e(s) /\ e(s) + 1 \in starts))
             /\ \A x \in starts : x <= s \/ e(s) < x
  BY EndIs
<1>3. 1 \in starts /\ \A s \in starts : s \in Nat /\ s >= 1
  BY <1>1 DEF Beginnings
<1> HIDE DEF e, L
<1>4. \A s \in starts : s..e(s) \subseteq 1..L
  BY <1>1, <1>2, <1>3
<1>5. ASSUME NEW s \in starts, NEW x \in starts, NEW m \in 1..L, m \in s..e(s), m \in x..e(x)
      PROVE  s = x
  <2>1. x <= s \/ e(s) < x
    BY <1>2
  <2>2. s <= x \/ e(x) < s
    BY <1>2
  <2>3. e(s) \in Nat /\ e(x) \in Nat /\ s \in Nat /\ x \in Nat /\ m \in Nat
    BY <1>1, <1>2, <1>3
  <2> QED
    BY <1>5, <2>1, <2>2, <2>3
<1>6. ASSUME NEW m \in 1..L
      PROVE  \E s \in starts : m \in s..e(s)
  <2> DEFINE S == {x \in starts : x <= m}
  <2>1. 1 \in S /\ S \in SUBSET Nat /\ m \in Nat
    <3>1. m \in Nat /\ 1 <= m
      BY <1>1
    <3> QED
      BY <1>3, <3>1
  <2>2. PICK s \in S : \A y \in S : y <= s
    BY <2>1, GreatestNumber
  <2>3. s \in starts /\ s <= m /\ s \in Nat
    BY <2>1, <2>2
  <2>4. m <= e(s)
    <3>1. CASE e(s) = L
      BY <3>1, <1>1
    <3>2. CASE s <= e(s) /\ e(s) + 1 \in starts
      <4>1. e(s) \in Nat
        BY <1>1, <1>2, <2>3
      <4>2. ~(e(s) + 1 <= m)
        BY <3>2, <4>1, <2>2, <2>3
      <4> QED
        BY <4>1, <4>2, <2>1
    <3> QED
      BY <3>1, <3>2, <1>2, <2>3
  <2>5. e(s) \in Nat
    BY <1>1, <1>2, <2>3
  <2> QED
    BY <2>1, <2>3, <2>4, <2>5
<1> QED
  BY <1>2, <1>3, <1>4, <1>5, <1>6 DEF e, L

\* The slots of the pages that hold rows.
RowSlots(pages, new) ==
    {x \in Rids : x[1] \in Range(new) /\ x[2] \in Live(pages[x[1]].slots)}

\* Every slot of the new chain holds a record of its own, and all are there.
LEMMA Placement ==
    ASSUME NEW t \in Tables, NEW pages, NEW records \in Seq(Rows), NEW starts, NEW new,
           Written(t, pages, records, starts, new)
    PROVE  \E pos \in [RowSlots(pages, new) -> 1..Len(records)] :
              /\ \A x, y \in RowSlots(pages, new) : pos[x] = pos[y] => x = y
              /\ \A m \in 1..Len(records) : \E x \in RowSlots(pages, new) : pos[x] = m
              /\ \A x \in RowSlots(pages, new) : pages[x[1]].slots[x[2]] = records[pos[x]]
<1> DEFINE D == RowSlots(pages, new)
           at(x) == CHOOSE i \in 1..Len(new) : new[i] = x[1]
           start(x) == StartOf(starts, at(x))
           last(s) == EndOf(records, starts, s)
           pos == [x \in D |-> start(x) + x[2] - 1]
           L == Len(records)
<1>1. /\ starts \in SUBSET Nat /\ IsFiniteSet(starts)
      /\ Beginnings(records, starts) /\ Packed(records, starts)
      /\ new \in Seq(Pages) /\ Distinct(new) /\ Len(new) = Cardinality(starts)
      /\ Len(new) \in Nat /\ L \in Nat
  BY DEF Written
<1>2. ASSUME NEW i \in 1..Len(new)
      PROVE  /\ StartOf(starts, i) \in starts
             /\ pages[new[i]].slots = Filled(records, starts, StartOf(starts, i))
             /\ Len(pages[new[i]].slots) <= PageRoom \div 2
             /\ new[i] \in Pages /\ new[i] \in Range(new)
  BY <1>1, WrittenPages, RangeOf
<1>3. /\ \A i, j \in 1..Len(new) : StartOf(starts, i) = StartOf(starts, j) => i = j
      /\ \A s \in starts : \E i \in 1..Len(new) : StartOf(starts, i) = s
  BY <1>1, StartIs
<1>4. ASSUME NEW s \in starts
      PROVE  /\ Live(Filled(records, starts, s)) = 1..Len(Filled(records, starts, s))
             /\ Len(Filled(records, starts, s)) = (IF s <= last(s) THEN last(s) - s + 1 ELSE 0)
             /\ \A j \in 1..Len(Filled(records, starts, s)) :
                   s + j - 1 \in s..last(s) /\ Filled(records, starts, s)[j] = records[s + j - 1]
  BY <1>1, PageFilled
<1>5. /\ \A s \in starts : last(s) \in 0..L /\ s >= 1 /\ s \in Nat /\ s..last(s) \subseteq 1..L
      /\ \A s, x \in starts : \A m \in 1..L : m \in s..last(s) /\ m \in x..last(x) => s = x
      /\ \A m \in 1..L : \E s \in starts : m \in s..last(s)
  BY <1>1, Paged
<1>6. ASSUME NEW x \in D
      PROVE  /\ at(x) \in 1..Len(new) /\ new[at(x)] = x[1] /\ start(x) \in starts
             /\ x = <<x[1], x[2]>> /\ x[2] \in 1..Len(Filled(records, starts, start(x)))
             /\ pages[x[1]].slots = Filled(records, starts, start(x))
  <2>1. x \in Rids /\ x[1] \in Range(new) /\ x[2] \in Live(pages[x[1]].slots)
    BY DEF RowSlots
  <2>2. at(x) \in 1..Len(new) /\ new[at(x)] = x[1]
    BY <2>1, <1>1, RangeOf
  <2>3. x = <<x[1], x[2]>>
    BY <2>1 DEF Rids
  <2> HIDE DEF at
  <2> QED
    BY <1>2, <1>4, <2>1, <2>2, <2>3
<1> HIDE DEF D, at, L
<1>7. ASSUME NEW x \in D
      PROVE  /\ pos[x] = start(x) + x[2] - 1 /\ pos[x] \in start(x)..last(start(x))
             /\ pages[x[1]].slots[x[2]] = records[pos[x]]
  <2>1. pos[x] = start(x) + x[2] - 1
    OBVIOUS
  <2> HIDE DEF pos, start, last
  <2> QED
    BY <2>1, <1>4, <1>6
<1> HIDE DEF pos, last
<1>8. \A x \in D : pos[x] \in 1..L
  BY <1>5, <1>6, <1>7
<1>9. pos \in [D -> 1..L]
  BY <1>8 DEF pos
<1>10. ASSUME NEW x \in D, NEW y \in D, pos[x] = pos[y]
       PROVE  x = y
  <2>1. start(x) = start(y)
    BY <1>5, <1>6, <1>7, <1>8, <1>10
  <2>2. at(x) = at(y)
    BY <1>3, <1>6, <2>1
  <2>3. start(x) \in Nat /\ x[2] \in Nat /\ y[2] \in Nat
    <3>1. Len(Filled(records, starts, start(x))) \in Nat
      <4>1. start(x) \in starts
        BY <1>6
      <4>2. Filled(records, starts, start(x)) \in Slots
        BY <1>1, <4>1, PageFilled
      <4> QED
        BY <4>2 DEF Slots
    <3> QED
      BY <1>5, <1>6, <2>1, <3>1
  <2>4. x[2] = y[2]
    <3> HIDE DEF start
    <3>1. start(x) + x[2] - 1 = start(x) + y[2] - 1
      BY <1>7, <1>10, <2>1
    <3> QED
      BY <2>3, <3>1
  <2> QED
    BY <1>6, <2>2, <2>4
<1>11. ASSUME NEW m \in 1..L
       PROVE  \E x \in D : pos[x] = m
  <2>1. PICK s \in starts : m \in s..last(s)
    BY <1>5
  <2>2. PICK i \in 1..Len(new) : StartOf(starts, i) = s
    BY <1>3
  <2>3. PICK f, j : f = Filled(records, starts, s) /\ j = m - s + 1
    OBVIOUS
  <2>4. /\ s \in Nat /\ last(s) \in Nat /\ m \in Nat /\ s <= m /\ m <= last(s)
        /\ Len(f) = (IF s <= last(s) THEN last(s) - s + 1 ELSE 0) /\ Live(f) = 1..Len(f)
    <3>1. L \in Nat /\ s \in Nat /\ last(s) \in 0..L
      BY <1>1, <1>5
    <3>2. last(s) \in Nat /\ m \in Nat /\ s <= m /\ m <= last(s)
      <4>1. m \in s..last(s)
        BY <2>1
      <4> QED
        BY <3>1, <4>1
    <3>3. Len(f) = (IF s <= last(s) THEN last(s) - s + 1 ELSE 0) /\ Live(f) = 1..Len(f)
      BY <1>4, <2>3
    <3> QED
      BY <3>1, <3>2, <3>3
  <2>5. j \in 1..Len(f) /\ j \in Nat /\ j >= 1 /\ s + j - 1 = m
    BY <2>3, <2>4
  <2>6. pages[new[i]].slots = f /\ Len(f) <= PageRoom \div 2 /\ new[i] \in Pages
        /\ new[i] \in Range(new)
    BY <1>2, <2>2, <2>3
  <2>7. j \in 1..PageRoom \div 2
    <3>1. Len(f) \in Nat /\ PageRoom \div 2 \in Nat
      BY <2>4, EmptyPage
    <3> QED
      BY <3>1, <2>5, <2>6
  <2> DEFINE x == <<new[i], j>>
  <2>8. x \in D
    BY <2>4, <2>5, <2>6, <2>7 DEF D, RowSlots, Rids
  <2>9. new[at(x)] = new[i] /\ at(x) \in 1..Len(new) /\ x[2] = j
    BY <1>6, <2>8
  <2> HIDE DEF x
  <2>10. at(x) = i
    BY <1>1, <2>9 DEF Distinct
  <2>11. pos[x] = s + j - 1
    BY <1>7, <2>2, <2>8, <2>9, <2>10
  <2> QED
    BY <2>5, <2>8, <2>11
<1> QED
  BY <1>7, <1>9, <1>10, <1>11 DEF D, L

\* Rewriting gives every record that is kept one new record id, and no other.
LEMMA RewriteRows ==
    ASSUME HeapInv, NEW t \in Tables, NEW transform \in Transforms, RewriteTable(t, transform)
    PROVE  \E from \in [DOMAIN RowsOf(t)' -> Kept(t, transform)] :
              /\ \A r \in Kept(t, transform) : \E n \in DOMAIN from : from[n] = r
              /\ Cardinality(DOMAIN from) = Cardinality(Kept(t, transform))
              /\ \A n \in DOMAIN from : RowsOf(t)'[n] = transform[RowsOf(t)[from[n]]]
<1>1. PICK records, kept, K, R :
        /\ records = Encoded(t, transform) /\ K = Kept(t, transform)
        /\ kept = ScanOrder(t, Kept(t, transform)) /\ R = RowsOf(t)
  OBVIOUS
<1>2. PICK pages, new : pages = page' /\ new = Chain(t)'
  OBVIOUS
<1>3. PICK starts : Written(t, pages, records, starts, new)
  BY <1>1, <1>2, RewriteStep
<1>4. /\ records \in Seq(Rows) /\ Len(records) = Cardinality(K) /\ Cardinality(K) \in Nat
      /\ \A i \in 1..Len(records) : kept[i] \in K /\ records[i] = transform[R[kept[i]]]
      /\ IsFiniteSet(K)
      /\ \A i, j \in 1..Cardinality(K) : kept[i] = kept[j] => i = j
      /\ \A r \in K : \E i \in 1..Cardinality(K) : kept[i] = r
  <2>1. Kept(t, transform) \in SUBSET DOMAIN RowsOf(t)
    BY DEF Kept
  <2> QED
    BY <1>1, <2>1, EncodedIs, ScanIs
<1>5a. \E pos \in [RowSlots(pages, new) -> 1..Len(records)] :
         /\ \A x, y \in RowSlots(pages, new) : pos[x] = pos[y] => x = y
         /\ \A m \in 1..Len(records) : \E x \in RowSlots(pages, new) : pos[x] = m
         /\ \A x \in RowSlots(pages, new) : pages[x[1]].slots[x[2]] = records[pos[x]]
  <2>1. records \in Seq(Rows)
    BY <1>4
  <2> QED
    BY <1>3, <2>1, Placement
<1> DEFINE D == RowSlots(pages, new)
<1>5. PICK pos \in [D -> 1..Len(records)] :
        /\ \A x, y \in D : pos[x] = pos[y] => x = y
        /\ \A m \in 1..Len(records) : \E x \in D : pos[x] = m
        /\ \A x \in D : pages[x[1]].slots[x[2]] = records[pos[x]]
  <2> HIDE DEF D
  <2> QED
    BY <1>5a DEF D
<1>6. RowsOf(t)' = [x \in D |-> pages[x[1]].slots[x[2]]]
  <2>1. RowsOf(t)' = [r \in {x \in Rids : /\ x[1] \in ChainSet(t)'
                                          /\ x[2] \in Live(page'[x[1]].slots)}
                         |-> page'[r[1]].slots[r[2]]]
    BY NextRowsAre
  <2>2. ChainSet(t)' = Range(new)
    BY <1>2 DEF ChainSet
  <2>3. D = {x \in Rids : x[1] \in ChainSet(t)' /\ x[2] \in Live(page'[x[1]].slots)}
    BY <1>2, <2>2 DEF RowSlots
  <2> HIDE DEF D
  <2> QED
    BY <1>2, <2>1, <2>3
<1> HIDE DEF D
<1> DEFINE from == [x \in D |-> kept[pos[x]]]
<1>7. from \in [D -> K]
  BY <1>4, <1>5
<1>8. \A x, y \in D : from[x] = from[y] => x = y
  BY <1>4, <1>5
<1>9. \A r \in K : \E x \in D : from[x] = r
  BY <1>4, <1>5
<1>10. Cardinality(D) = Cardinality(K)
  <2>1. from \in Bijection(D, K)
    BY <1>7, <1>8, <1>9, Fun_IsBij
  <2>2. ExistsBijection(D, K)
    BY <2>1 DEF ExistsBijection
  <2>3. ExistsBijection(K, D)
    BY <2>2, Fun_ExistsBijSymmetric
  <2> QED
    BY <1>4, <2>3, FS_Bijection
<1>11. \A x \in D : pages[x[1]].slots[x[2]] = transform[R[from[x]]]
  BY <1>4, <1>5
<1>12. DOMAIN from = D /\ DOMAIN RowsOf(t)' = D
  BY <1>6
<1> HIDE DEF from
<1>13. \A n \in D : RowsOf(t)'[n] = transform[R[from[n]]]
  BY <1>6, <1>11
<1> QED
  BY <1>1, <1>7, <1>9, <1>10, <1>12, <1>13

\* The tables of RecordTables.
RowMap == [t \in Tables |-> IF root[t] = NoPage THEN Missing ELSE RowsOf(t)]

LEMMA RowMapIs ==
    ASSUME HeapInv
    PROVE  /\ DOMAIN RowMap = Tables
           /\ \A u \in Tables : /\ root[u] = NoPage <=> RowMap[u] = Missing
                                /\ root[u] # NoPage => RowMap[u] = RowsOf(u)
  BY RowsAre, SizesAssumption DEF RowMap

\* A step of one table.
LEMMA RowMapNext ==
    ASSUME NEW t \in Tables, OthersSame(t)
    PROVE  RowMap' = [RowMap EXCEPT ![t] = IF root'[t] = NoPage THEN Missing ELSE RowsOf(t)']
<1>1. RowMap' = [u \in Tables |-> IF root'[u] = NoPage THEN Missing ELSE RowsOf(u)']
  BY DEF RowMap
<1> QED
  BY <1>1 DEF OthersSame, RowMap

\* The sizes of sets are the same in both modules.
LEMMA SameSize ==
    ASSUME NEW S
    PROVE  Records!Cardinality(S) = Cardinality(S)
  BY DEF Records!Cardinality, Cardinality

LEMMA RecordsInit ==
    ASSUME Init
    PROVE  Records!RInit
<1>1. HeapInv /\ answer = <<"none">>
  BY InitInv DEF Init
<1>2. ASSUME NEW t \in Tables
      PROVE  RowMap[t] = Missing
                \/ (DOMAIN RowMap[t] \subseteq Rids /\ Range(RowMap[t]) \subseteq Rows)
  <2>1. DOMAIN RowsOf(t) \subseteq Rids /\ Range(RowsOf(t)) \subseteq Rows
    BY RowsAre DEF Range
  <2> QED
    BY <1>1, <2>1, RowMapIs
<1> QED
  BY <1>1, <1>2 DEF Records!RInit, Records!Range, RowMap, Range

LEMMA RecordsNext ==
    ASSUME HeapInv, [Next]_vars
    PROVE  Records!RNext \/ UNCHANGED Records!rvars
<1>0. /\ DOMAIN RowMap = Tables
      /\ \A u \in Tables : /\ root[u] = NoPage <=> RowMap[u] = Missing
                           /\ root[u] # NoPage => RowMap[u] = RowsOf(u)
  BY RowMapIs
<1>1. CASE CreateTable
  <2>1. PICK t : t = nextTable
    OBVIOUS
  <2>2. /\ HeapInv' /\ t \in Tables /\ root[t] = NoPage /\ OthersSame(t)
        /\ root'[t] # NoPage /\ Chain(t)' = <<root'[t]>> /\ page'[root'[t]].slots = <<>>
    BY <1>1, <2>1, CreateStep DEF OthersSame
  <2>3. answer' = <<"created", t>>
    BY <1>1, <2>1 DEF CreateTable
  <2>4. RowsOf(t)' = [rid \in {} |-> Missing]
    <3>1. ChainSet(t)' = {root'[t]}
      BY <2>2 DEF ChainSet, Range
    <3>2. Live(page'[root'[t]].slots) = {}
      BY <2>2, EmptyPage
    <3>3. {x \in Rids : x[1] \in ChainSet(t)' /\ x[2] \in Live(page'[x[1]].slots)} = {}
      BY <3>1, <3>2
    <3> QED
      BY <2>2, <3>3, NextRowsAre
  <2>5. RowMap' = [RowMap EXCEPT ![t] = [rid \in {} |-> Missing]]
    BY <2>2, <2>4, RowMapNext
  <2>6. Records!Create(t)
    BY <1>0, <2>2, <2>3, <2>5 DEF Records!Create, RowMap
  <2> QED
    BY <2>2, <2>6 DEF Records!RNext
<1>2. ASSUME NEW t \in Tables, DropTable(t)
      PROVE  Records!RNext
  <2>1. root[t] # NoPage /\ OthersSame(t) /\ root'[t] = NoPage /\ answer' = <<"dropped", t>>
    BY <1>2, DropStep DEF DropTable, OthersSame
  <2>2. RowMap' = [RowMap EXCEPT ![t] = Missing]
    BY <2>1, RowMapNext
  <2>3. Records!Drop(t)
    BY <1>0, <2>1, <2>2 DEF Records!Drop, RowMap
  <2> QED
    BY <2>3 DEF Records!RNext
<1>3. ASSUME NEW t \in Tables, NEW row \in Rows, NEW rid \in Rids,
             OthersSame(t), root[t] # NoPage, root'[t] = root[t],
             answer' = <<"inserted", t, rid, row>>, RowAdded(t, rid, row)
      PROVE  Records!RNext
  <2>1. RowMap[t] = RowsOf(t) /\ RowMap[t] # Missing
    BY <1>0, <1>3
  <2>2. RowMap' = [RowMap EXCEPT ![t] =
                     [r \in DOMAIN RowMap[t] \cup {rid} |-> IF r = rid THEN row ELSE RowMap[t][r]]]
    BY <1>3, <2>1, RowMapNext DEF RowAdded
  <2>3. \A u \in Tables : RowMap[u] = Missing \/ rid \notin DOMAIN RowMap[u]
    BY <1>0, <1>3 DEF RowAdded, FreeRid
  <2>4. Records!Insert(t, rid, row)
    BY <1>3, <2>1, <2>2, <2>3 DEF Records!Insert, RowMap
  <2> QED
    BY <1>3, <2>4 DEF Records!RNext
<1>4. ASSUME NEW t \in Tables, NEW row \in Rows, InsertInPage(t, row) \/ InsertInNewPage(t, row)
      PROVE  Records!RNext
  <2>1. /\ OthersSame(t) /\ root[t] # NoPage /\ root'[t] = root[t]
        /\ \E rid \in Rids : /\ answer' = <<"inserted", t, rid, row>>
                             /\ RowAdded(t, rid, row)
    BY <1>4, InsertInPageStep, InsertInNewPageStep
  <2> QED
    BY <1>3, <2>1
<1>5. ASSUME NEW t \in Tables, NEW rid \in Rids, Delete(t, rid)
      PROVE  Records!RNext
  <2>1. /\ OthersSame(t) /\ root[t] # NoPage /\ root'[t] = root[t]
        /\ answer' = <<"deleted", t, rid>> /\ RowRemoved(t, rid)
    BY <1>5, DeleteStep
  <2>2. RowMap[t] = RowsOf(t) /\ RowMap[t] # Missing
    BY <1>0, <2>1
  <2>3. RowMap' = [RowMap EXCEPT ![t] = [r \in DOMAIN RowMap[t] \ {rid} |-> RowMap[t][r]]]
    BY <2>1, <2>2, RowMapNext DEF RowRemoved
  <2>4. rid \in DOMAIN RowMap[t]
    BY <2>1, <2>2 DEF RowRemoved
  <2>5. Records!Delete(t, rid)
    BY <2>1, <2>2, <2>3, <2>4 DEF Records!Delete, RowMap
  <2> QED
    BY <1>5, <2>5 DEF Records!RNext
<1>6. ASSUME NEW t \in Tables, NEW transform \in Transforms, RewriteTable(t, transform)
      PROVE  Records!RNext
  <2>1. /\ HeapInv' /\ OthersSame(t) /\ root[t] # NoPage /\ root'[t] # NoPage
        /\ answer' = <<"rewritten", t, transform>>
    BY <1>6, RewriteStep
  <2>2. RowMap[t] = RowsOf(t) /\ RowMap[t] # Missing
    BY <1>0, <2>1
  <2>3. RowMap' = [RowMap EXCEPT ![t] = RowsOf(t)']
    BY <2>1, RowMapNext
  <2>4. RowMap'[t] = RowsOf(t)' /\ \A u \in Tables \ {t} : RowMap'[u] = RowMap[u]
    BY <1>0, <2>3
  <2>5. RowMap'[t] # Missing
    <3> DEFINE D == {x \in Rids : x[1] \in ChainSet(t)' /\ x[2] \in Live(page'[x[1]].slots)}
    <3>1. RowsOf(t)' = [r \in D |-> page'[r[1]].slots[r[2]]]
      BY NextRowsAre
    <3>2. \A r \in D : page'[r[1]].slots[r[2]] \in Rows
      BY DEF Live
    <3>3. D \in SUBSET Rids
      OBVIOUS
    <3> HIDE DEF D
    <3>4. RowsOf(t)' \in [D -> Rows]
      BY <3>1, <3>2
    <3> QED
      BY <2>4, <3>3, <3>4, SizesAssumption
  <2>6. Kept(t, transform) = {r \in DOMAIN RowMap[t] : transform[RowMap[t][r]] # Missing}
    BY <2>2 DEF Kept
  <2>7. \E from \in [DOMAIN RowMap'[t] -> Kept(t, transform)] :
           /\ \A r \in Kept(t, transform) : \E n \in DOMAIN from : from[n] = r
           /\ Cardinality(DOMAIN from) = Cardinality(Kept(t, transform))
           /\ \A n \in DOMAIN from : RowMap'[t][n] = transform[RowMap[t][from[n]]]
    BY <1>6, <2>2, <2>4, RewriteRows
  <2>8. PICK before, after, old : before = RowMap /\ after = RowMap' /\ old = Kept(t, transform)
    OBVIOUS
  <2>9. /\ before[t] # Missing /\ after[t] # Missing
        /\ old = {r \in DOMAIN before[t] : transform[before[t][r]] # Missing}
        /\ \A u \in Tables \ {t} : after[u] = before[u]
    BY <2>2, <2>4, <2>5, <2>6, <2>8
  <2>10. \E from \in [DOMAIN after[t] -> old] :
            /\ \A r \in old : \E n \in DOMAIN from : from[n] = r
            /\ Cardinality(DOMAIN from) = Cardinality(old)
            /\ \A n \in DOMAIN from : after[t][n] = transform[before[t][from[n]]]
    BY <2>7, <2>8
  <2>11. Records!Rewrite(t, transform)
    <3>1. \E from \in [DOMAIN after[t] -> old] :
             /\ \A r \in old : \E n \in DOMAIN from : from[n] = r
             /\ Records!Cardinality(DOMAIN from) = Records!Cardinality(old)
             /\ \A n \in DOMAIN from : after[t][n] = transform[before[t][from[n]]]
      BY <2>10, SameSize
    <3>2. \E from \in [DOMAIN RowMap'[t] ->
                        {r \in DOMAIN RowMap[t] : transform[RowMap[t][r]] # Missing}] :
             /\ \A r \in {x \in DOMAIN RowMap[t] : transform[RowMap[t][x]] # Missing} :
                   \E n \in DOMAIN from : from[n] = r
             /\ Records!Cardinality(DOMAIN from) = Records!Cardinality(
                   {r \in DOMAIN RowMap[t] : transform[RowMap[t][r]] # Missing})
             /\ \A n \in DOMAIN from : RowMap'[t][n] = transform[RowMap[t][from[n]]]
      <4>1. {r \in DOMAIN RowMap[t] : transform[RowMap[t][r]] # Missing} = old
        BY <2>6, <2>8
      <4>2. \E from \in [DOMAIN RowMap'[t] -> old] :
               /\ \A r \in old : \E n \in DOMAIN from : from[n] = r
               /\ Records!Cardinality(DOMAIN from) = Records!Cardinality(old)
               /\ \A n \in DOMAIN from : RowMap'[t][n] = transform[RowMap[t][from[n]]]
        BY <2>8, <3>1
      <4> QED
        BY <4>1, <4>2
    <3>3. RowMap[t] # Missing /\ RowMap'[t] # Missing
          /\ \A u \in Tables \ {t} : RowMap'[u] = RowMap[u]
      BY <2>2, <2>4, <2>5
    <3> QED
      BY <2>1, <3>2, <3>3 DEF Records!Rewrite, RowMap
  <2> QED
    BY <1>6, <2>11 DEF Records!RNext, Transforms
<1>7. CASE UNCHANGED vars
  <2>1. RowMap' = RowMap /\ answer' = answer
    BY <1>7 DEF vars, RowMap, RowsOf, ChainSet, Chain
  <2> QED
    BY <2>1 DEF Records!rvars, RowMap
<1> QED
  BY <1>1, <1>2, <1>4, <1>5, <1>6, <1>7 DEF Next

\* The heap implements the tables of rows that the engine is promised: a record id
\* keeps naming its row, in its own table, until the row is deleted or the table
\* rewritten; a new row takes an id that no row of any table has; and a rewrite
\* gives every record it keeps exactly one new id (record.py: _insert_into_page,
\* delete, _write_chain, rewrite_table).
THEOREM RidsKept == Spec => RidsStable
<1>1. Init => Records!RInit
  BY RecordsInit
<1>2. HeapInv /\ [Next]_vars => Records!RNext \/ UNCHANGED Records!rvars
  BY RecordsNext
<1> QED
  BY <1>1, <1>2, HeapAlways, PTL DEF Spec, RidsStable, Records!RSpec
=============================================================================
