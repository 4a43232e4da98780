------------------------- MODULE BufferedPages_proof -------------------------
(***************************************************************************)
(* What BufferedPages promises, for any number of pages, any capacity and   *)
(* any number of failing writes.                                            *)
(***************************************************************************)
EXTENDS BufferedPages, TLAPS

\* The free list reaches only free nodes that were allocated before, and none
\* of them twice: no node points to the head, no two to the same page.
FreeListSound ==
    \A q \in FreePages :
        /\ q < nextPage
        /\ disk[q] \in FreeNode
        /\ disk[q].next # freeHead
        /\ \A r \in FreePages : disk[q].next = disk[r].next => q = r

\* A page in use is whole where it is read from.
WholePages == \A p \in InUse : IF p \in Cached THEN frame[p] \in Data ELSE disk[p] \in Data

PoolInv ==
    /\ TypeOK
    /\ FreeListSound
    /\ FreeUncached
    /\ CleanMatchesDisk
    /\ WholePages

-----------------------------------------------------------------------------
(***************************************************************************)
(* The free list: what is reached from a head is the least closed set.      *)
(***************************************************************************)
File == [Pages -> Data \cup FreeNode \cup {Unused, Torn}]
Head0 == Pages \cup {NoPage}

LEMMA ReachedClosed ==
    ASSUME NEW head \in Head0, NEW file \in File
    PROVE  Reached(head, file) \subseteq Pages /\ Closed(head, file, Reached(head, file))
<1> DEFINE R == Reached(head, file)
<1>1. R \subseteq Pages
  BY DEF Reached
<1>2. head \in R \cup {NoPage}
  BY DEF Reached, Closed, Head0
<1>3. ASSUME NEW q \in R, file[q] \in FreeNode
      PROVE  file[q].next \in R \cup {NoPage}
  <2>1. file[q].next \in Pages \cup {NoPage}
    BY <1>3 DEF FreeNode
  <2>2. ASSUME NEW S \in SUBSET Pages, Closed(head, file, S)
        PROVE  file[q].next \in S \cup {NoPage}
    BY <1>3, <2>2 DEF Reached, Closed
  <2> QED
    BY <2>1, <2>2 DEF Reached
<1> QED
  BY <1>1, <1>2, <1>3 DEF Closed

LEMMA ReachedLeast ==
    ASSUME NEW head, NEW file, NEW S \in SUBSET Pages, Closed(head, file, S)
    PROVE  Reached(head, file) \subseteq S
BY DEF Reached

\* What is written elsewhere does not disturb the list.
LEMMA ReachedUnchanged ==
    ASSUME NEW head \in Head0, NEW file \in File, NEW file2 \in File,
           \A q \in Reached(head, file) : file2[q] = file[q]
    PROVE  Reached(head, file2) = Reached(head, file)
<1> DEFINE R == Reached(head, file)
           R2 == Reached(head, file2)
<1>1. R \subseteq Pages /\ Closed(head, file, R)
  BY ReachedClosed
<1>2. R2 \subseteq Pages /\ Closed(head, file2, R2)
  BY ReachedClosed
<1>3. Closed(head, file2, R)
  BY <1>1 DEF Closed
<1>4. R2 \subseteq R
  BY <1>1, <1>3, ReachedLeast
<1>5. Closed(head, file, R \cap R2)
  BY <1>1, <1>2 DEF Closed
<1>6. R \subseteq R \cap R2
  BY <1>1, <1>5, ReachedLeast
<1> QED
  BY <1>4, <1>6

\* free_page puts a page in front.
LEMMA ReachedPush ==
    ASSUME NEW head \in Head0, NEW file \in File, NEW p \in Pages,
           NoPage \notin Pages, p \notin Reached(head, file)
    PROVE  Reached(p, [file EXCEPT ![p] = [next |-> head]]) = Reached(head, file) \cup {p}
<1> DEFINE R == Reached(head, file)
           file2 == [file EXCEPT ![p] = [next |-> head]]
           R2 == Reached(p, file2)
<1>0. /\ [next |-> head] \in FreeNode
      /\ [next |-> head].next = head
      /\ file2 \in File
      /\ file2[p] = [next |-> head]
      /\ \A q \in Pages \ {p} : file2[q] = file[q]
  BY DEF File, FreeNode, Head0
<1> HIDE DEF file2
<1>1. R \subseteq Pages /\ Closed(head, file, R)
  BY ReachedClosed
<1>2. R2 \subseteq Pages /\ Closed(p, file2, R2)
  BY <1>0, ReachedClosed DEF Head0
<1>3. Closed(p, file2, R \cup {p})
  BY <1>0, <1>1 DEF Closed
<1>4. R2 \subseteq R \cup {p}
  BY <1>1, <1>3, ReachedLeast
<1>5. p \in R2 /\ head \in R2 \cup {NoPage}
  BY <1>0, <1>2 DEF Closed
<1>6. Closed(head, file, R \cap R2)
  BY <1>0, <1>1, <1>2, <1>5 DEF Closed
<1>7. R \subseteq R2
  BY <1>1, <1>6, ReachedLeast
<1> QED
  BY <1>4, <1>5, <1>7 DEF file2

\* allocate_page takes the head, to which no free page points.
LEMMA ReachedPop ==
    ASSUME NEW head \in Pages, NEW file \in File, NEW v,
           NoPage \notin Pages, file[head] \in FreeNode,
           [file EXCEPT ![head] = v] \in File,
           \A q \in Reached(head, file) : file[q] \in FreeNode /\ file[q].next # head
    PROVE  Reached(file[head].next, [file EXCEPT ![head] = v]) = Reached(head, file) \ {head}
<1> DEFINE R == Reached(head, file)
           new == file[head].next
           file2 == [file EXCEPT ![head] = v]
           R2 == Reached(new, file2)
<1>0. /\ new \in Head0 /\ head \in Head0
      /\ \A q \in Pages \ {head} : file2[q] = file[q]
  BY DEF File, FreeNode, Head0
<1>1. R \subseteq Pages /\ Closed(head, file, R) /\ head \in R
  BY <1>0, ReachedClosed DEF Closed
<1> HIDE DEF file2
<1>2. R2 \subseteq Pages /\ Closed(new, file2, R2)
  BY <1>0, ReachedClosed DEF file2
<1>3. Closed(new, file2, R \ {head})
  BY <1>0, <1>1 DEF Closed
<1>4. R2 \subseteq R \ {head}
  BY <1>1, <1>3, ReachedLeast
<1>5. Closed(head, file, R2 \cup {head})
  BY <1>0, <1>2, <1>4 DEF Closed
<1>6. R \subseteq R2 \cup {head}
  BY <1>2, <1>5, ReachedLeast
<1> QED
  BY <1>4, <1>6 DEF file2

LEMMA ReachedNothing ==
    ASSUME NEW file \in File
    PROVE  Reached(NoPage, file) = {}
<1>1. Closed(NoPage, file, {})
  BY DEF Closed
<1> QED
  BY <1>1, ReachedLeast

-----------------------------------------------------------------------------
(***************************************************************************)
(* The order of the cache, a sequence without repetitions.                  *)
(***************************************************************************)
Injective(s) == \A i, j \in 1..Len(s) : s[i] = s[j] => i = j

LEMMA AppendNew ==
    ASSUME NEW s \in Seq(Pages), Injective(s), NEW p \in Pages \ Elements(s)
    PROVE  /\ Append(s, p) \in Seq(Pages) /\ Injective(Append(s, p))
           /\ Len(Append(s, p)) = Len(s) + 1
           /\ Elements(Append(s, p)) = Elements(s) \cup {p}
<1>1. /\ Append(s, p) \in Seq(Pages)
      /\ Len(Append(s, p)) = Len(s) + 1 /\ Len(s) \in Nat
      /\ \A i \in 1..Len(s) : Append(s, p)[i] = s[i]
      /\ Append(s, p)[Len(s) + 1] = p
  OBVIOUS
<1>2. Elements(Append(s, p)) = Elements(s) \cup {p}
  <2>1. Elements(s) \subseteq Elements(Append(s, p))
    BY <1>1 DEF Elements
  <2>2. p \in Elements(Append(s, p))
    BY <1>1 DEF Elements
  <2>3. \A i \in 1..Len(s) + 1 : i \in 1..Len(s) \/ i = Len(s) + 1
    BY <1>1
  <2> QED
    BY <1>1, <2>1, <2>2, <2>3 DEF Elements
<1>3. Injective(Append(s, p))
  BY <1>1 DEF Injective, Elements
<1> QED
  BY <1>1, <1>2, <1>3

LEMMA TailOfInjective ==
    ASSUME NEW s \in Seq(Pages), Injective(s), s # <<>>
    PROVE  /\ Tail(s) \in Seq(Pages) /\ Injective(Tail(s))
           /\ Len(Tail(s)) = Len(s) - 1
           /\ Head(s) \in Elements(s)
           /\ Elements(Tail(s)) = Elements(s) \ {Head(s)}
<1>1. /\ Tail(s) \in Seq(Pages)
      /\ Len(s) \in Nat /\ Len(s) > 0
      /\ Len(Tail(s)) = Len(s) - 1
      /\ Head(s) = s[1]
      /\ \A i \in 1..Len(s) - 1 : Tail(s)[i] = s[i + 1]
  OBVIOUS
<1>2. Injective(Tail(s))
  BY <1>1 DEF Injective
<1>3. Elements(Tail(s)) \subseteq Elements(s) \ {Head(s)}
  BY <1>1 DEF Elements, Injective
<1>4. ASSUME NEW i \in 1..Len(s), s[i] # Head(s)
      PROVE  s[i] \in Elements(Tail(s))
  <2>1. i - 1 \in 1..Len(s) - 1 /\ Tail(s)[i - 1] = s[i]
    BY <1>1, <1>4
  <2> QED
    BY <1>1, <2>1 DEF Elements
<1>5. Head(s) \in Elements(s)
  BY <1>1 DEF Elements
<1> QED
  BY <1>1, <1>2, <1>3, <1>4, <1>5 DEF Elements

LEMMA RemovedOne ==
    ASSUME NEW s \in Seq(Pages), Injective(s), NEW p \in Elements(s)
    PROVE  /\ Removed(s, p) \in Seq(Pages) /\ Injective(Removed(s, p))
           /\ Len(Removed(s, p)) = Len(s) - 1 /\ Len(s) > 0
           /\ Elements(Removed(s, p)) = Elements(s) \ {p}
<1> DEFINE i == CHOOSE n \in 1..Len(s) : s[n] = p
           r == Removed(s, p)
<1>1. i \in 1..Len(s) /\ s[i] = p
  BY DEF Elements
<1>2. r = [n \in 1..Len(s) - 1 |-> IF n < i THEN s[n] ELSE s[n + 1]]
  BY DEF Removed
<1>3. Len(s) \in Nat /\ Len(s) > 0 /\ \A n \in 1..Len(s) : s[n] \in Pages
  BY <1>1
<1> HIDE DEF i, r
<1>4. r \in Seq(Pages) /\ Len(r) = Len(s) - 1
  BY <1>1, <1>2, <1>3
<1>5. Injective(r)
  BY <1>1, <1>2, <1>3, <1>4 DEF Injective
<1>6. Elements(r) \subseteq Elements(s) \ {p}
  BY <1>1, <1>2, <1>3, <1>4 DEF Elements, Injective
<1>7. ASSUME NEW n \in 1..Len(s), s[n] # p
      PROVE  s[n] \in Elements(r)
  <2>1. n # i
    BY <1>1, <1>7
  <2>2. CASE n < i
    <3>1. n \in 1..Len(s) - 1 /\ r[n] = s[n]
      BY <1>1, <1>2, <1>3, <2>2
    <3> QED
      BY <1>4, <3>1 DEF Elements
  <2>3. CASE n > i
    <3>1. n - 1 \in 1..Len(s) - 1 /\ r[n - 1] = s[n]
      BY <1>1, <1>2, <1>3, <2>3
    <3> QED
      BY <1>4, <3>1 DEF Elements
  <2> QED
    BY <1>1, <1>3, <2>1, <2>2, <2>3
<1> QED
  BY <1>3, <1>4, <1>5, <1>6, <1>7 DEF Elements, r

-----------------------------------------------------------------------------
(***************************************************************************)
(* What a step has to know about the free list and the pages in use.        *)
(***************************************************************************)
LEMMA FreeFacts ==
    ASSUME TypeOK
    PROVE  /\ disk \in File /\ freeHead \in Head0 /\ NoPage \notin Pages
           /\ FreePages \subseteq Pages
           /\ freeHead \in FreePages \cup {NoPage}
           /\ \A q \in FreePages : disk[q] \in FreeNode => disk[q].next \in FreePages \cup {NoPage}
           /\ InUse \subseteq Pages
<1>1. disk \in File /\ freeHead \in Head0 /\ NoPage \notin Pages
  BY MarksAssumption DEF TypeOK, File, Head0
<1>2. FreePages \subseteq Pages /\ Closed(freeHead, disk, FreePages)
  BY <1>1, ReachedClosed DEF FreePages
<1>3. InUse \subseteq Pages
  BY SizesAssumption DEF InUse, Pages, TypeOK
<1> QED
  BY <1>1, <1>2, <1>3 DEF Closed

\* Page 0 and the free pages stay as they are.
LEMMA FreeListKept ==
    ASSUME TypeOK, FreeListSound, UNCHANGED meta, disk' \in File,
           \A q \in FreePages : disk'[q] = disk[q]
    PROVE  FreePages' = FreePages /\ InUse' = InUse /\ FreeListSound'
<1>1. FreePages' = FreePages
  BY FreeFacts, ReachedUnchanged DEF FreePages, meta
<1>2. InUse' = InUse
  BY <1>1 DEF InUse, meta
<1> QED
  BY <1>1, <1>2 DEF FreeListSound, meta

LEMMA InitPool ==
    ASSUME Init
    PROVE  PoolInv /\ Space!PInit
<1>1. TypeOK
  BY SizesAssumption DEF Init, TypeOK, Cached, Elements, Pages
<1>2. FreePages = {}
  BY <1>1, FreeFacts, ReachedNothing DEF FreePages, Init
<1>3. InUse = {} /\ Cached = {}
  BY DEF Init, InUse, Cached, Elements
<1> QED
  BY <1>1, <1>2, <1>3
     DEF PoolInv, FreeListSound, FreeUncached, CleanMatchesDisk, WholePages, Space!PInit, Content, Init

(***************************************************************************)
(* Allocation and release.                                                  *)
(***************************************************************************)
LEMMA StepAllocate ==
    ASSUME PoolInv, NEW v \in Data, Allocate(v)
    PROVE  PoolInv' /\ Space!New(v)
<1>0. TypeOK /\ FreeListSound /\ FreeUncached /\ CleanMatchesDisk /\ WholePages
  BY DEF PoolInv
<1>1. PICK p \in Pages :
        /\ IF freeHead # NoPage
           THEN p = freeHead /\ freeHead' = disk[p].next /\ UNCHANGED nextPage
           ELSE p = nextPage /\ nextPage' = nextPage + 1 /\ UNCHANGED freeHead
        /\ disk' = [disk EXCEPT ![p] = v]
        /\ answer' = <<"page", p>>
        /\ UNCHANGED <<args, pool, held, faults>>
  BY DEF Allocate
<1>2. disk' \in File /\ Unused \notin Data
  BY <1>0, <1>1, FreeFacts, MarksAssumption DEF File
<1>3. /\ FreePages' = FreePages \ {p}
      /\ InUse' = InUse \cup {p} /\ p \notin InUse
      /\ nextPage' \in 1..MaxPage + 1 /\ freeHead' \in Pages \cup {NoPage}
      /\ FreeListSound'
  <2>1. CASE freeHead # NoPage
    <3>1. p \in FreePages /\ disk[p] \in FreeNode
      BY <1>0, <1>1, <2>1, FreeFacts DEF FreeListSound
    <3>2. FreePages' = FreePages \ {p}
      <4>1. /\ freeHead \in Pages /\ disk \in File /\ NoPage \notin Pages
            /\ disk[freeHead] \in FreeNode
            /\ [disk EXCEPT ![freeHead] = v] \in File
            /\ \A q \in Reached(freeHead, disk) : disk[q] \in FreeNode /\ disk[q].next # freeHead
        BY <1>0, <1>1, <1>2, <2>1, <3>1, FreeFacts DEF FreeListSound, FreePages
      <4>2. Reached(disk[freeHead].next, [disk EXCEPT ![freeHead] = v]) = Reached(freeHead, disk) \ {freeHead}
        BY <4>1, ReachedPop
      <4> QED
        BY <1>1, <2>1, <4>2 DEF FreePages
    <3>3. nextPage' = nextPage /\ p < nextPage /\ nextPage \in 1..MaxPage + 1
      BY <1>0, <1>1, <2>1, <3>1 DEF FreeListSound, TypeOK
    <3>4. InUse' = InUse \cup {p} /\ p \notin InUse
      BY <3>1, <3>2, <3>3, SizesAssumption DEF InUse, Pages
    <3>5. freeHead' \in Pages \cup {NoPage}
      BY <1>1, <2>1, <3>1 DEF FreeNode
    <3>6. \A q \in FreePages \ {p} : disk'[q] = disk[q]
      BY <1>0, <1>1, FreeFacts DEF File
    <3>7. FreeListSound'
      BY <1>0, <1>1, <2>1, <3>1, <3>2, <3>3, <3>6 DEF FreeListSound
    <3> QED
      BY <3>2, <3>3, <3>4, <3>5, <3>7
  <2>2. CASE freeHead = NoPage
    <3>1. FreePages = {}
      BY <1>0, <2>2, FreeFacts, ReachedNothing DEF FreePages
    <3>2. FreePages' = {}
      BY <1>1, <1>2, <2>2, ReachedNothing DEF FreePages
    <3>3. p = nextPage /\ nextPage' = nextPage + 1 /\ nextPage \in 1..MaxPage + 1 /\ freeHead' = NoPage
      BY <1>0, <1>1, <2>2 DEF TypeOK
    <3>4. InUse' = InUse \cup {p} /\ p \notin InUse /\ nextPage' \in 1..MaxPage + 1
      BY <3>1, <3>2, <3>3, SizesAssumption DEF InUse, Pages
    <3> QED
      BY <3>1, <3>2, <3>3, <3>4 DEF FreeListSound
  <2> QED
    BY <2>1, <2>2
<1>4. Cached' = Cached /\ p \notin Cached
  BY <1>0, <1>1, <1>3 DEF FreeUncached, Cached, pool
<1>5. \A q \in Pages \ {p} : disk'[q] = disk[q]
  BY <1>0, <1>1, FreeFacts DEF File
<1>6. disk'[p] = v
  BY <1>0, <1>1, FreeFacts DEF File
<1>7. TypeOK'
  BY <1>0, <1>1, <1>2, <1>3, <1>4 DEF TypeOK, File, args, pool
<1>8. FreeUncached' /\ CleanMatchesDisk' /\ WholePages'
  <2>1. Cached \subseteq Pages
    BY <1>0, FreeFacts DEF FreeUncached
  <2> QED
    BY <1>0, <1>1, <1>3, <1>4, <1>5, <1>6, <2>1, FreeFacts
       DEF FreeUncached, CleanMatchesDisk, WholePages, pool
<1>9. Space!New(v)
  <2>1. Content[p] = Unused
    BY <1>3 DEF Content
  <2>2. Content' = [Content EXCEPT ![p] = v]
    BY <1>1, <1>3, <1>4, <1>5, <1>6 DEF Content, pool
  <2> QED
    BY <1>1, <2>1, <2>2 DEF Space!New
<1> QED
  BY <1>3, <1>7, <1>8, <1>9 DEF PoolInv

LEMMA StepFree ==
    ASSUME PoolInv, NEW p \in Pages, Free(p)
    PROVE  PoolInv' /\ Space!Release(p)
<1>0. TypeOK /\ FreeListSound /\ FreeUncached /\ CleanMatchesDisk /\ WholePages
  BY DEF PoolInv
<1>1. p \in InUse /\ p \notin FreePages /\ p < nextPage /\ disk' = [disk EXCEPT ![p] = [next |-> freeHead]]
  BY <1>0, SizesAssumption DEF Free, InUse, TypeOK
<1>2. /\ [next |-> freeHead] \in FreeNode /\ disk' \in File
      /\ disk'[p] = [next |-> freeHead] /\ disk'[p].next = freeHead
      /\ \A q \in Pages \ {p} : disk'[q] = disk[q]
  BY <1>0, <1>1, FreeFacts DEF File, FreeNode, Head0
<1>3. FreePages' = FreePages \cup {p}
  <2>1. freeHead \in Head0 /\ disk \in File /\ NoPage \notin Pages /\ p \notin Reached(freeHead, disk)
    BY <1>0, <1>1, FreeFacts DEF FreePages
  <2>2. Reached(p, [disk EXCEPT ![p] = [next |-> freeHead]]) = Reached(freeHead, disk) \cup {p}
    BY <2>1, ReachedPush
  <2> QED
    BY <1>1, <2>2 DEF FreePages, Free
<1>4. InUse' = InUse \ {p}
  BY <1>3 DEF InUse, Free
<1>5. FreeListSound'
  <2>1. \A q \in FreePages : q # p /\ disk'[q] = disk[q] /\ disk[q].next # p
    BY <1>0, <1>1, <1>2, FreeFacts DEF FreeListSound
  <2>2. \A q \in FreePages : disk[q].next # freeHead
    BY <1>0 DEF FreeListSound
  <2>3. freeHead # p
    BY <1>0, <1>1, FreeFacts
  <2>4. nextPage' = nextPage /\ freeHead' = p
    BY DEF Free
  <2> QED
    BY <1>0, <1>1, <1>2, <1>3, <2>1, <2>2, <2>3, <2>4 DEF FreeListSound
<1>6. /\ order' \in Seq(Pages) /\ Len(order') <= capacity
      /\ Injective(order')
      /\ Cached' = Cached \ {p}
  <2>1. order \in Seq(Pages) /\ Injective(order) /\ Len(order) <= capacity /\ capacity \in Nat
    BY <1>0 DEF TypeOK, Injective
  <2>2. CASE p \in Cached
    <3>1. order' = Removed(order, p)
      BY <2>2 DEF Free, Without
    <3> QED
      BY <2>1, <2>2, <3>1, RemovedOne DEF Cached
  <2>3. CASE p \notin Cached
    <3>1. order' = order
      BY <2>3 DEF Free, Without
    <3> QED
      BY <2>1, <2>3, <3>1 DEF Cached
  <2> QED
    BY <2>2, <2>3
<1>7. TypeOK'
  BY <1>0, <1>1, <1>2, <1>6 DEF TypeOK, File, Free, args, Injective
<1>8. FreeUncached' /\ CleanMatchesDisk' /\ WholePages'
  <2>1. Cached \subseteq Pages /\ InUse \subseteq Pages
    BY <1>0, FreeFacts DEF FreeUncached
  <2>2. \A q \in Pages \ {p} : frame'[q] = frame[q]
    BY <1>0 DEF Free, TypeOK
  <2>3. dirty' = dirty \ {p}
    BY DEF Free
  <2> QED
    BY <1>0, <1>2, <1>4, <1>6, <2>1, <2>2, <2>3 DEF FreeUncached, CleanMatchesDisk, WholePages
<1>9. Space!Release(p)
  <2>1. Content[p] # Unused
    BY <1>0, <1>1, MarksAssumption DEF Content, WholePages
  <2>2. \A q \in Pages \ {p} : frame'[q] = frame[q]
    BY <1>0 DEF Free, TypeOK
  <2>3. Content' = [Content EXCEPT ![p] = Unused]
    BY <1>2, <1>4, <1>6, <2>2 DEF Content
  <2> QED
    BY <2>1, <2>3 DEF Space!Release, Free
<1> QED
  BY <1>5, <1>7, <1>8, <1>9 DEF PoolInv

(***************************************************************************)
(* Pages in and out of the pool.                                            *)
(***************************************************************************)

\* A page is read, and others may leave: those that were dirty are written.
LEMMA StepLoad ==
    ASSUME PoolInv, NEW p \in InUse \ Cached,
           NEW rest \in Seq(Pages), Injective(rest), Len(rest) < capacity,
           Elements(rest) \subseteq Cached,
           Load(p, rest, Elements(rest), (Cached \ Elements(rest)) \cap dirty)
    PROVE  PoolInv' /\ Space!Fetch(p)
<1> DEFINE kept == Elements(rest)
           written == (Cached \ kept) \cap dirty
<1>0. TypeOK /\ FreeListSound /\ FreeUncached /\ CleanMatchesDisk /\ WholePages
  BY DEF PoolInv
<1>1. /\ order' = Append(rest, p)
      /\ frame' = [q \in Pages |-> IF q = p THEN disk[p] ELSE IF q \in kept THEN frame[q] ELSE Unused]
      /\ dirty' = dirty \cap kept
      /\ disk' = [q \in Pages |-> IF q \in written THEN frame[q] ELSE disk[q]]
      /\ held' = p
      /\ answer' = <<"data", p, disk[p]>>
      /\ UNCHANGED <<args, meta, faults>>
  BY DEF Load
<1>2. /\ Cached \subseteq InUse /\ InUse \subseteq Pages /\ InUse \cap FreePages = {}
      /\ p \in InUse /\ p \notin Cached /\ kept \subseteq Cached /\ written \subseteq Cached
  BY <1>0, FreeFacts DEF FreeUncached, InUse
<1>3. /\ order' \in Seq(Pages) /\ Injective(order') /\ Len(order') <= capacity'
      /\ Cached' = kept \cup {p}
  <2>1. /\ Append(rest, p) \in Seq(Pages) /\ Injective(Append(rest, p))
        /\ Len(Append(rest, p)) = Len(rest) + 1
        /\ Elements(Append(rest, p)) = Elements(rest) \cup {p}
    BY <1>2, AppendNew
  <2>2. Len(rest) \in Nat /\ capacity \in Nat /\ capacity' = capacity
    BY <1>0, <1>1 DEF TypeOK, args
  <2> QED
    BY <1>1, <2>1, <2>2 DEF Cached
<1> HIDE DEF kept, written
<1>4. \A q \in written : frame[q] \in Data
  BY <1>0, <1>2 DEF WholePages
<1>5. disk' \in File /\ \A q \in FreePages : disk'[q] = disk[q]
  BY <1>0, <1>1, <1>2, <1>4, FreeFacts DEF File
<1>6. FreePages' = FreePages /\ InUse' = InUse /\ FreeListSound'
  BY <1>0, <1>1, <1>5, FreeListKept
<1>7. TypeOK'
  <2>1. disk[p] \in Data
    BY <1>0, <1>2 DEF WholePages
  <2>2. frame' \in [Pages -> Data \cup {Unused}]
    BY <1>0, <1>1, <2>1 DEF TypeOK
  <2>3. dirty' \subseteq Cached' /\ held' \in Cached' \cup {NoPage}
    BY <1>1, <1>3
  <2> QED
    BY <1>0, <1>1, <1>3, <1>5, <2>2, <2>3 DEF TypeOK, File, Injective, args, meta
<1>8. \A q \in Cached \ kept : disk'[q] = frame[q]
  BY <1>0, <1>1, <1>2 DEF CleanMatchesDisk, written
<1>9. FreeUncached' /\ CleanMatchesDisk' /\ WholePages'
  <2>1. \A q \in kept : q # p /\ frame'[q] = frame[q] /\ disk'[q] = disk[q]
    BY <1>1, <1>2 DEF written
  <2>2. frame'[p] = disk[p] /\ disk'[p] = disk[p] /\ p \in Pages
    BY <1>1, <1>2
  <2>3. FreeUncached' /\ CleanMatchesDisk'
    BY <1>0, <1>1, <1>2, <1>3, <1>6, <2>1, <2>2 DEF FreeUncached, CleanMatchesDisk
  <2>4. \A q \in InUse \ Cached : disk'[q] = disk[q]
    BY <1>1, <1>2
  <2>5. WholePages'
    BY <1>0, <1>2, <1>3, <1>6, <1>8, <2>1, <2>2, <2>4 DEF WholePages
  <2> QED
    BY <2>3, <2>5
<1>10. Space!Fetch(p)
  <2>1. Content[p] = disk[p] /\ disk[p] # Unused
    BY <1>0, <1>2, MarksAssumption DEF Content, WholePages
  <2>2. \A q \in Pages : IF q = p THEN frame'[q] = disk[q] /\ q \notin Cached /\ q \in Cached'
                         ELSE IF q \in kept THEN frame'[q] = frame[q] /\ q \in Cached /\ q \in Cached'
                         ELSE IF q \in Cached THEN disk'[q] = frame[q] /\ q \notin Cached'
                         ELSE disk'[q] = disk[q] /\ q \notin Cached'
    BY <1>1, <1>2, <1>3, <1>8
  <2>3. Content' = Content
    BY <1>6, <2>2 DEF Content
  <2> QED
    BY <1>1, <2>1, <2>3 DEF Space!Fetch
<1> QED
  BY <1>6, <1>7, <1>9, <1>10 DEF PoolInv

LEMMA StepHit ==
    ASSUME PoolInv, NEW p \in Pages, Hit(p)
    PROVE  PoolInv' /\ Space!Fetch(p)
<1>0. TypeOK /\ FreeListSound /\ FreeUncached /\ CleanMatchesDisk /\ WholePages
  BY DEF PoolInv
<1>1. order' \in Seq(Pages) /\ Injective(order') /\ Len(order') <= capacity /\ Cached' = Cached
  <2>1. order \in Seq(Pages) /\ Injective(order) /\ Len(order) <= capacity /\ capacity \in Nat
    BY <1>0 DEF TypeOK, Injective
  <2>2. CASE policy = "LRU"
    <3>1. order' = Append(Removed(order, p), p) /\ p \in Elements(order)
      BY <2>2 DEF Hit, Without, Cached
    <3>2. /\ Removed(order, p) \in Seq(Pages) /\ Injective(Removed(order, p))
          /\ Len(Removed(order, p)) = Len(order) - 1
          /\ Elements(Removed(order, p)) = Elements(order) \ {p}
      BY <2>1, <3>1, RemovedOne
    <3>3. /\ order' \in Seq(Pages) /\ Injective(order')
          /\ Len(order') = Len(Removed(order, p)) + 1
          /\ Elements(order') = Elements(Removed(order, p)) \cup {p}
      BY <3>1, <3>2, AppendNew
    <3> QED
      BY <2>1, <3>1, <3>2, <3>3 DEF Cached
  <2>3. CASE policy # "LRU"
    BY <2>1, <2>3 DEF Hit, Cached
  <2> QED
    BY <2>2, <2>3
<1>2. FreePages' = FreePages /\ InUse' = InUse /\ FreeListSound'
  BY <1>0, FreeFacts, FreeListKept DEF Hit
<1>3. TypeOK'
  BY <1>0, <1>1 DEF TypeOK, Hit, args, meta, Injective
<1>4. FreeUncached' /\ CleanMatchesDisk' /\ WholePages'
  BY <1>0, <1>1, <1>2 DEF FreeUncached, CleanMatchesDisk, WholePages, Hit
<1>5. Space!Fetch(p)
  <2>1. Content[p] = frame[p] /\ frame[p] # Unused
    BY <1>0, MarksAssumption DEF Content, WholePages, Hit
  <2>2. Content' = Content
    BY <1>1, <1>2 DEF Content, Hit
  <2> QED
    BY <2>1, <2>2 DEF Space!Fetch, Hit
<1> QED
  BY <1>2, <1>3, <1>4, <1>5 DEF PoolInv

LEMMA StepMiss ==
    ASSUME PoolInv, NEW p \in Pages, MissWithRoom(p) \/ MissEvicting(p)
    PROVE  PoolInv' /\ Space!Fetch(p)
<1>1. /\ order \in Seq(Pages) /\ Injective(order) /\ Len(order) \in Nat
      /\ capacity \in Nat /\ Len(order) <= capacity
  BY DEF PoolInv, TypeOK, Injective
<1>2. CASE MissWithRoom(p)
  <2>1. Load(p, order, Elements(order), (Cached \ Elements(order)) \cap dirty)
    <3>1. (Cached \ Elements(order)) \cap dirty = {}
      BY DEF Cached
    <3> QED
      BY <1>2, <3>1 DEF MissWithRoom, Cached
  <2> QED
    BY <1>1, <1>2, <2>1, StepLoad DEF MissWithRoom, Cached
<1>3. CASE MissEvicting(p)
  <2>1. order # <<>>
    BY <1>1, <1>3, SizesAssumption DEF MissEvicting, PoolInv, TypeOK
  <2>2. /\ Tail(order) \in Seq(Pages) /\ Injective(Tail(order))
        /\ Len(Tail(order)) < capacity
        /\ Head(order) \in Cached
        /\ Elements(Tail(order)) = Cached \ {Head(order)}
    BY <1>1, <2>1, TailOfInjective DEF Cached
  <2>3. (Cached \ Elements(Tail(order))) \cap dirty = {Head(order)} \cap dirty
    BY <2>2
  <2>4. Load(p, Tail(order), Elements(Tail(order)), (Cached \ Elements(Tail(order))) \cap dirty)
    BY <1>3, <2>2, <2>3 DEF MissEvicting
  <2> QED
    BY <1>3, <2>2, <2>4, StepLoad DEF MissEvicting
<1> QED
  BY <1>2, <1>3

(***************************************************************************)
(* Writes.                                                                  *)
(***************************************************************************)
LEMMA StepModify ==
    ASSUME PoolInv, NEW v \in Data, Modify(v)
    PROVE  PoolInv' /\ Space!Store(held, v)
<1>0. TypeOK /\ FreeListSound /\ FreeUncached /\ CleanMatchesDisk /\ WholePages
  BY DEF PoolInv
<1>1. held \in Cached /\ held \in InUse /\ held \in Pages /\ Cached' = Cached
  BY <1>0, FreeFacts DEF TypeOK, Modify, FreeUncached, Cached
<1>2. frame'[held] = v /\ \A q \in Pages \ {held} : frame'[q] = frame[q]
  BY <1>0, <1>1 DEF TypeOK, Modify
<1>3. FreePages' = FreePages /\ InUse' = InUse /\ FreeListSound'
  BY <1>0, FreeFacts, FreeListKept DEF Modify
<1>4. TypeOK'
  BY <1>0, <1>1 DEF TypeOK, Modify, args, meta
<1>5. FreeUncached' /\ CleanMatchesDisk' /\ WholePages'
  BY <1>0, <1>1, <1>2, <1>3, FreeFacts DEF FreeUncached, CleanMatchesDisk, WholePages, Modify
<1>6. Space!Store(held, v)
  <2>1. Content[held] # Unused
    BY <1>0, <1>1, MarksAssumption DEF Content, WholePages
  <2>2. Content' = [Content EXCEPT ![held] = v]
    BY <1>1, <1>2, <1>3 DEF Content, Modify
  <2> QED
    BY <2>1, <2>2 DEF Space!Store, Modify
<1> QED
  BY <1>3, <1>4, <1>5, <1>6 DEF PoolInv

LEMMA StepFlushPage ==
    ASSUME PoolInv, NEW p \in Pages, FlushPage(p)
    PROVE  PoolInv' /\ UNCHANGED Space!pvars
<1>0. TypeOK /\ FreeListSound /\ FreeUncached /\ CleanMatchesDisk /\ WholePages
  BY DEF PoolInv
<1>1. p \in Cached /\ p \in InUse /\ p \notin FreePages /\ Cached' = Cached /\ frame[p] \in Data
  BY <1>0 DEF TypeOK, FlushPage, FreeUncached, Cached, InUse, WholePages
<1>2. /\ disk' \in File /\ disk'[p] = frame[p]
      /\ \A q \in Pages \ {p} : disk'[q] = disk[q]
  BY <1>0, <1>1, FreeFacts DEF File, FlushPage
<1>3. FreePages' = FreePages /\ InUse' = InUse /\ FreeListSound'
  BY <1>0, <1>1, <1>2, FreeFacts, FreeListKept DEF FlushPage
<1>4. TypeOK'
  BY <1>0, <1>1, <1>2 DEF TypeOK, File, FlushPage, args, meta
<1>5. FreeUncached' /\ CleanMatchesDisk' /\ WholePages'
  BY <1>0, <1>1, <1>2, <1>3, FreeFacts DEF FreeUncached, CleanMatchesDisk, WholePages, FlushPage
<1>6. Content' = Content
  BY <1>1, <1>2, <1>3 DEF Content, FlushPage
<1> QED
  BY <1>3, <1>4, <1>5, <1>6 DEF PoolInv, Space!pvars, FlushPage

\* A dirty page is torn in the file, and stays dirty.
LEMMA StepTorn ==
    ASSUME PoolInv, NEW p \in dirty,
           disk' = [disk EXCEPT ![p] = Torn], faults' \in 0..MaxFaults,
           answer' = <<"error">>,
           UNCHANGED <<args, meta, pool, held>>
    PROVE  PoolInv' /\ Space!Failure
<1>0. TypeOK /\ FreeListSound /\ FreeUncached /\ CleanMatchesDisk /\ WholePages
  BY DEF PoolInv
<1>1. p \in Cached /\ p \in InUse /\ p \notin FreePages /\ Cached' = Cached
  BY <1>0 DEF TypeOK, FreeUncached, Cached, InUse, pool
<1>2. disk' \in File /\ \A q \in Pages \ {p} : disk'[q] = disk[q]
  BY <1>0, FreeFacts DEF File
<1>3. FreePages' = FreePages /\ InUse' = InUse /\ FreeListSound'
  BY <1>0, <1>1, <1>2, FreeFacts, FreeListKept
<1>4. TypeOK'
  BY <1>0, <1>1, <1>2 DEF TypeOK, File, args, meta, pool
<1>5. FreeUncached' /\ CleanMatchesDisk' /\ WholePages'
  BY <1>0, <1>1, <1>2, <1>3, FreeFacts DEF FreeUncached, CleanMatchesDisk, WholePages, pool
<1>6. Content' = Content
  BY <1>1, <1>2, <1>3 DEF Content, pool
<1> QED
  BY <1>3, <1>4, <1>5, <1>6 DEF PoolInv, Space!Failure

LEMMA StepWriteFails ==
    ASSUME PoolInv, NEW p \in Pages, EvictionFails(p) \/ FlushFails(p)
    PROVE  PoolInv' /\ Space!Failure
<1>1. faults' \in 0..MaxFaults
  BY SizesAssumption DEF PoolInv, TypeOK, EvictionFails, FlushFails
<1>2. CASE EvictionFails(p)
  BY <1>1, <1>2, StepTorn DEF EvictionFails
<1>3. CASE FlushFails(p)
  BY <1>1, <1>3, StepTorn DEF FlushFails
<1> QED
  BY <1>2, <1>3

-----------------------------------------------------------------------------
\* Every step keeps the invariant and is a step of the space of pages.
LEMMA EveryStep ==
    ASSUME PoolInv, [Next]_vars
    PROVE  PoolInv' /\ [Space!PNext]_(Space!pvars)
<1>1. CASE UNCHANGED vars
  <2>1. PoolInv'
    BY <1>1 DEF PoolInv, TypeOK, FreeListSound, FreeUncached, CleanMatchesDisk, WholePages, Cached,
                InUse, FreePages, vars
  <2>2. UNCHANGED Space!pvars
    BY <1>1 DEF vars, Space!pvars, Content, Cached, InUse, FreePages
  <2> QED
    BY <2>1, <2>2
<1>2. ASSUME NEW v \in Data, Allocate(v)
      PROVE  PoolInv' /\ Space!PNext
  BY <1>2, StepAllocate DEF Space!PNext
<1>3. ASSUME NEW v \in Data, Modify(v)
      PROVE  PoolInv' /\ Space!PNext
  <2>1. held \in Pages
    BY <1>3, FreeFacts DEF Modify, PoolInv, TypeOK, FreeUncached
  <2> QED
    BY <1>3, <2>1, StepModify DEF Space!PNext
<1>4. ASSUME NEW p \in Pages,
             Free(p) \/ Hit(p) \/ MissWithRoom(p) \/ MissEvicting(p) \/ EvictionFails(p) \/ FlushFails(p)
      PROVE  PoolInv' /\ Space!PNext
  BY <1>4, StepFree, StepHit, StepMiss, StepWriteFails DEF Space!PNext
<1>5. ASSUME NEW p \in Pages, FlushPage(p)
      PROVE  PoolInv' /\ UNCHANGED Space!pvars
  BY <1>5, StepFlushPage
<1> QED
  BY <1>1, <1>2, <1>3, <1>4, <1>5 DEF Next

THEOREM PoolInvariant == Spec => []PoolInv
<1>1. Init => PoolInv
  BY InitPool
<1>2. PoolInv /\ [Next]_vars => PoolInv'
  BY EveryStep
<1> QED
  BY <1>1, <1>2, PTL DEF Spec

\* The variables keep their types: the order of the cache is one of different
\* pages, and a dirty page or one a client holds is cached.
THEOREM PoolTypes == Spec => []TypeOK
<1>1. PoolInv => TypeOK
  BY DEF PoolInv
<1> QED
  BY <1>1, PoolInvariant, PTL

\* get_page, flush_page and _evict_one: a page not marked dirty is the same in
\* memory and in the file, whatever write-backs failed before.
THEOREM CleanPagesMatch == Spec => []CleanMatchesDisk
<1>1. PoolInv => CleanMatchesDisk
  BY DEF PoolInv
<1> QED
  BY <1>1, PoolInvariant, PTL

\* discard_page before free_page: no free page is cached.
THEOREM NoFreePageCached == Spec => []FreeUncached
<1>1. PoolInv => FreeUncached
  BY DEF PoolInv
<1> QED
  BY <1>1, PoolInvariant, PTL

\* Pool, free list and page file together are a space of pages: no write is
\* lost and no page given to two owners, whatever the size of the pool.
THEOREM PoolIsPageSpace == Spec => PagesKept
<1>1. Init => Space!PInit
  BY InitPool
<1>2. PoolInv /\ [Next]_vars => [Space!PNext]_(Space!pvars)
  BY EveryStep
<1> QED
  BY <1>1, <1>2, PoolInvariant, PTL DEF Spec, PagesKept, Space!PSpec
=============================================================================
