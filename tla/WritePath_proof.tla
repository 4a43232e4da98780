--------------------------- MODULE WritePath_proof ---------------------------
(***************************************************************************)
(* Theorems about WritePath, for every schema, every set of indexes, every  *)
(* set of triggers and every statement the compiler lets through.           *)
(***************************************************************************)
EXTENDS WritePath, FiniteSetTheorems, FunctionTheorems, TLAPS

\* Tables of rows by record id, and indexes of entries.
HeapTyped(h) ==
    /\ DOMAIN h = Tables
    /\ \A t \in Tables : h[t] \in [DOMAIN h[t] -> Rows] /\ DOMAIN h[t] \subseteq Rids

IndexTyped(x) ==
    /\ DOMAIN x \subseteq IndexDefs
    /\ \A d \in DOMAIN x : x[d] \subseteq [1..Len(d.columns) -> Values] \X Rids

\* The four promises about a store: what the indexes hold, and the keys.
Matches(h, x) == \A d \in DOMAIN x : x[d] = EntriesOf(d, h[d.table])

KeysHold(h) ==
    \A c \in KeyConstraints :
        /\ Distinct(h[c.table], c.columns)
        /\ c.primary => \A i \in DOMAIN h[c.table] : NullFree(KeyOf(h[c.table][i], c.columns))

IndexUnique(h, x) == \A d \in DOMAIN x : d.unique => Distinct(h[d.table], d.columns)

Referenced(h) ==
    \A f \in ForeignKeys : \A child \in Range(h[f.table]) :
        NullFree(KeyOf(child, f.columns)) =>
            \E p \in Range(h[f.parent]) : KeyOf(p, f.references) = KeyOf(child, f.columns)

Typed(st) == HeapTyped(st.heap) /\ IndexTyped(st.index)

Sound(st) ==
    /\ Matches(st.heap, st.index)
    /\ KeysHold(st.heap) /\ IndexUnique(st.heap, st.index)
    /\ Referenced(st.heap)

\* A row event that triggers are still to run for, and a statement in progress.
Due ==
    {run \in [triggers : Seq(TriggerNames), old : Rows \cup {NoRow}, new : Rows \cup {NoRow}] :
        /\ run.triggers # <<>>
        /\ \E t \in Tables, event \in Events :
              /\ run.old \in OldRows(event) /\ run.new \in NewRows(event)
              /\ \A m \in 1..Len(run.triggers) : \E n \in 1..Len(Triggers[t][event]) :
                    run.triggers[m] = Triggers[t][event][n]}

Frame == [trigger : TriggerNames \cup {NoTrigger}, owed : Seq(Due)]

\* The client's statement is at the bottom, each above it is of a trigger of
\* its own, and _active_triggers holds exactly those.
StackOK ==
    /\ stack \in Seq(Frame)
    /\ \A n \in 1..Len(stack) : stack[n].trigger = NoTrigger <=> n = 1
    /\ active = {stack[n].trigger : n \in 2..Len(stack)}
    /\ \A m, n \in 1..Len(stack) : m # n => stack[m].trigger # stack[n].trigger

WriteInv ==
    /\ Typed(Store) /\ (~failed => Sound(Store))
    /\ txn \in {"none", "auto", "explicit"}
    /\ IF txn = "none" THEN saved = NoStore ELSE Typed(saved) /\ Sound(saved)
    /\ failed \in BOOLEAN /\ (failed => txn = "explicit" /\ stack = <<>>)
    /\ stack # <<>> => txn # "none"
    /\ sent \in 0..MaxStatements
    /\ StackOK

-----------------------------------------------------------------------------
(***************************************************************************)
(* Record ids in scan order.                                                *)
(***************************************************************************)

\* A finite set of numbers is listed from the smallest on, each member once.
LEMMA ScanOrder ==
    ASSUME NEW S \in SUBSET Nat, IsFiniteSet(S)
    PROVE  /\ Cardinality(S) \in Nat
           /\ InScanOrder(S) \in [1..Cardinality(S) -> S]
           /\ \A i \in S : \E n \in 1..Cardinality(S) : InScanOrder(S)[n] = i
           /\ \A m, n \in 1..Cardinality(S) : InScanOrder(S)[m] = InScanOrder(S)[n] => m = n
<1> DEFINE Upto(i) == {j \in S : j <= i}
           rank == [i \in S |-> Cardinality(Upto(i))]
           c == Cardinality(S)
<1>1. c \in Nat
    BY FS_CardinalityType
<1>2. ASSUME NEW i \in S
      PROVE  IsFiniteSet(Upto(i)) /\ Cardinality(Upto(i)) \in 1..c
    <2>1. IsFiniteSet(Upto(i)) /\ Cardinality(Upto(i)) \in Nat /\ Cardinality(Upto(i)) <= c
        <3>1. Upto(i) \in SUBSET S
            OBVIOUS
        <3>2. IsFiniteSet(Upto(i)) /\ Cardinality(Upto(i)) <= c
            BY <3>1, FS_Subset
        <3> QED BY <3>2, FS_CardinalityType
    <2>2. Cardinality(Upto(i)) # 0
        <3>1. i \in Upto(i)
            OBVIOUS
        <3>2. Upto(i) # {}
            BY <3>1
        <3> HIDE DEF Upto
        <3> QED BY <2>1, <3>2, FS_EmptySet
    <2> HIDE DEF Upto, c
    <2> QED BY <1>1, <2>1, <2>2
<1>3. ASSUME NEW i \in S, NEW k \in S, i < k
      PROVE  rank[i] # rank[k]
    <2>1. i \in Nat /\ k \in Nat /\ ~(k <= i) /\ k <= k
        BY <1>3
    <2>2. k \in Upto(k) /\ k \notin Upto(i)
        BY <2>1
    <2>3. \A j \in S : j <= i => j <= k
        BY <1>3, <2>1
    <2>4. Upto(i) \in SUBSET Upto(k) /\ Upto(i) # Upto(k)
        BY <2>2, <2>3
    <2> HIDE DEF Upto
    <2>5. Cardinality(Upto(i)) < Cardinality(Upto(k))
        BY <1>2, <2>4, FS_Subset
    <2> QED BY <1>2, <2>5
<1>4. rank \in [S -> 1..c]
    BY <1>2
<1>5. \A i, k \in S : rank[i] = rank[k] => i = k
    <2>1. \A i, k \in S : i < k \/ k < i \/ i = k
        OBVIOUS
    <2> QED BY <1>3, <2>1
<1> HIDE DEF c
<1>6. \A n \in 1..c : \E i \in S : rank[i] = n
    <2> HIDE DEF rank
    <2>1. rank \in Injection(S, 1..c)
        BY <1>4, <1>5, Fun_IsInj
    <2>2. IsFiniteSet(1..c) /\ Cardinality(1..c) = c
        BY <1>1, FS_Interval
    <2>3. Cardinality(S) = Cardinality(1..c)
        BY <2>2 DEF c
    <2>4. rank \in Surjection(S, 1..c)
        BY <2>1, <2>2, <2>3, FS_Injection
    <2> QED BY <2>4 DEF Surjection
<1>7. InScanOrder(S) = [n \in 1..c |-> CHOOSE i \in S : Cardinality({j \in S : j <= i}) = n]
    BY DEF InScanOrder, c
<1>8. ASSUME NEW n \in 1..c
      PROVE  InScanOrder(S)[n] \in S /\ rank[InScanOrder(S)[n]] = n
    <2>1. \A i \in S : rank[i] = Cardinality({j \in S : j <= i})
        OBVIOUS
    <2> HIDE DEF rank
    <2>2. \E i \in S : Cardinality({j \in S : j <= i}) = n
        BY <1>6, <2>1
    <2>3. /\ InScanOrder(S)[n] \in S
          /\ Cardinality({j \in S : j <= InScanOrder(S)[n]}) = n
        BY <1>7, <2>2
    <2> QED BY <2>1, <2>3
<1> HIDE DEF rank
<1>9. \A i \in S : rank[i] \in 1..c /\ InScanOrder(S)[rank[i]] = i
    BY <1>4, <1>5, <1>8
<1>10. InScanOrder(S) \in [1..c -> S]
    BY <1>7, <1>8
<1> QED BY <1>1, <1>8, <1>9, <1>10 DEF c

\* There is a free record id for each of the n rows to insert.
LEMMA FreeEnough ==
    ASSUME NEW rows, DOMAIN rows \subseteq Rids, NEW n \in Nat
    PROVE  /\ \A m \in 1..n : FreeRids(rows, n)[m] \in Nat \ DOMAIN rows
           /\ \A l, m \in 1..n : FreeRids(rows, n)[l] = FreeRids(rows, n)[m] => l = m
<1> DEFINE free == 1..MaxRid + n \ DOMAIN rows
<1>1. MaxRid \in Nat
    BY SchemaAssumption
<1>2. /\ IsFiniteSet(1..MaxRid + n) /\ Cardinality(1..MaxRid + n) = MaxRid + n
      /\ IsFiniteSet(1..MaxRid) /\ Cardinality(1..MaxRid) = MaxRid
    BY <1>1, FS_Interval
<1>3. IsFiniteSet(DOMAIN rows) /\ Cardinality(DOMAIN rows) <= MaxRid
    <2>1. DOMAIN rows \in SUBSET (1..MaxRid)
        BY DEF Rids
    <2> QED BY <1>2, <2>1, FS_Subset
<1>4. Cardinality(DOMAIN rows) \in Nat
    BY <1>3, FS_CardinalityType
<1>5. IsFiniteSet(free) /\ Cardinality(free) = MaxRid + n - Cardinality(DOMAIN rows)
    <2>1. (1..MaxRid + n) \cap DOMAIN rows = DOMAIN rows
        BY <1>1 DEF Rids
    <2>2. /\ IsFiniteSet(free)
          /\ Cardinality(free)
                = Cardinality(1..MaxRid + n) - Cardinality((1..MaxRid + n) \cap DOMAIN rows)
        BY <1>2, FS_Difference
    <2> QED BY <1>1, <1>2, <1>4, <2>1, <2>2
<1>6. free \in SUBSET Nat /\ \A i \in free : i \notin DOMAIN rows
    BY <1>1
<1>7. FreeRids(rows, n) = InScanOrder(free)
    BY DEF FreeRids
<1> HIDE DEF free
<1>8. 1..n \subseteq 1..Cardinality(free)
    BY <1>1, <1>3, <1>4, <1>5
<1>9. /\ InScanOrder(free) \in [1..Cardinality(free) -> free]
      /\ \A l, m \in 1..Cardinality(free) : InScanOrder(free)[l] = InScanOrder(free)[m] => l = m
    BY <1>5, <1>6, ScanOrder
<1> QED BY <1>6, <1>7, <1>8, <1>9

(***************************************************************************)
(* Heap and indexes.                                                        *)
(***************************************************************************)
LEMMA SchemaTyped ==
    /\ \A c \in KeyConstraints : c.table \in Tables
    /\ \A f \in ForeignKeys : f.table \in Tables /\ f.parent \in Tables
    /\ \A d \in IndexDefs : d.table \in Tables /\ d.columns \in Seq(Columns)
BY SchemaAssumption

\* Some of the rows, as they were, are as distinct as all of them.
LEMMA FewerDistinct ==
    ASSUME NEW rows, NEW columns, Distinct(rows, columns),
           NEW left, \A i \in DOMAIN left : i \in DOMAIN rows /\ left[i] = rows[i]
    PROVE  Distinct(left, columns)
BY DEF Distinct

LEMMA EntriesTyped ==
    ASSUME NEW d \in IndexDefs, NEW rows, rows \in [DOMAIN rows -> Rows], DOMAIN rows \subseteq Rids
    PROVE  EntriesOf(d, rows) \subseteq [1..Len(d.columns) -> Values] \X Rids
<1>1. \A n \in 1..Len(d.columns) : d.columns[n] \in Columns
    BY SchemaTyped
<1>2. \A i \in DOMAIN rows : KeyOf(rows[i], d.columns) \in [1..Len(d.columns) -> Values]
    BY <1>1 DEF KeyOf, Rows
<1> QED BY <1>2 DEF EntriesOf

\* RemoveRows takes rows away, and their entries from the indexes there are.
LEMMA Removed ==
    ASSUME NEW st, Typed(st), NEW t \in Tables, NEW out,
           NEW left, left = RemoveRows(st, t, out)
    PROVE  /\ Typed(left)
           /\ DOMAIN left.heap[t] = DOMAIN st.heap[t] \ DOMAIN out
           /\ \A i \in DOMAIN left.heap[t] : left.heap[t][i] = st.heap[t][i]
           /\ \A u \in Tables \ {t} : left.heap[u] = st.heap[u]
           /\ DOMAIN left.index = DOMAIN st.index
           /\ \A d \in DOMAIN st.index :
                 /\ d.table = t => left.index[d] = st.index[d] \ EntriesOf(d, out)
                 /\ d.table # t => left.index[d] = st.index[d]
<1>1. /\ left.heap = [st.heap EXCEPT ![t] = Restrict(@, DOMAIN @ \ DOMAIN out)]
      /\ left.index = [d \in DOMAIN st.index |->
                          IF d.table = t THEN st.index[d] \ EntriesOf(d, out) ELSE st.index[d]]
    BY DEF RemoveRows
<1>2. HeapTyped(st.heap) /\ IndexTyped(st.index)
    BY DEF Typed
<1>3. /\ DOMAIN left.heap = Tables
      /\ left.heap[t] = [i \in DOMAIN st.heap[t] \ DOMAIN out |-> st.heap[t][i]]
      /\ \A u \in Tables \ {t} : left.heap[u] = st.heap[u]
    BY <1>1, <1>2 DEF HeapTyped, Restrict
<1>4. HeapTyped(left.heap)
    BY <1>2, <1>3 DEF HeapTyped
<1>5. IndexTyped(left.index)
    BY <1>1, <1>2 DEF IndexTyped
<1> QED BY <1>1, <1>3, <1>4, <1>5 DEF Typed

\* AddRows enters rows under record ids that are free.
LEMMA Added ==
    ASSUME NEW st, Typed(st), NEW t \in Tables,
           NEW in, in \in [DOMAIN in -> Rows], DOMAIN in \subseteq Rids,
           NEW grown, grown = AddRows(st, t, in)
    PROVE  /\ Typed(grown)
           /\ DOMAIN grown.heap[t] = DOMAIN st.heap[t] \cup DOMAIN in
           /\ \A i \in DOMAIN in : grown.heap[t][i] = in[i]
           /\ \A i \in DOMAIN st.heap[t] \ DOMAIN in : grown.heap[t][i] = st.heap[t][i]
           /\ \A u \in Tables \ {t} : grown.heap[u] = st.heap[u]
           /\ DOMAIN grown.index = DOMAIN st.index
           /\ \A d \in DOMAIN st.index :
                 /\ d.table = t => grown.index[d] = st.index[d] \cup EntriesOf(d, in)
                 /\ d.table # t => grown.index[d] = st.index[d]
<1>1. /\ grown.heap = [st.heap EXCEPT ![t] = [i \in DOMAIN @ \cup DOMAIN in |->
                                                 IF i \in DOMAIN in THEN in[i] ELSE @[i]]]
      /\ grown.index = [d \in DOMAIN st.index |->
                           IF d.table = t THEN st.index[d] \cup EntriesOf(d, in) ELSE st.index[d]]
    BY DEF AddRows
<1>2. HeapTyped(st.heap) /\ IndexTyped(st.index)
    BY DEF Typed
<1>3. /\ DOMAIN grown.heap = Tables
      /\ grown.heap[t] = [i \in DOMAIN st.heap[t] \cup DOMAIN in |->
                             IF i \in DOMAIN in THEN in[i] ELSE st.heap[t][i]]
      /\ \A u \in Tables \ {t} : grown.heap[u] = st.heap[u]
    BY <1>1, <1>2 DEF HeapTyped
<1>4. HeapTyped(grown.heap)
    BY <1>2, <1>3 DEF HeapTyped
<1>5. \A d \in DOMAIN st.index :
          EntriesOf(d, in) \subseteq [1..Len(d.columns) -> Values] \X Rids
    BY <1>2, EntriesTyped DEF IndexTyped
<1>6. IndexTyped(grown.index)
    BY <1>1, <1>2, <1>5 DEF IndexTyped
<1> QED BY <1>1, <1>3, <1>4, <1>6 DEF Typed

\* Both keep the indexes true to the heap.
LEMMA RemovedMatches ==
    ASSUME NEW st, Typed(st), Matches(st.heap, st.index), NEW t \in Tables,
           NEW out, DOMAIN out \subseteq DOMAIN st.heap[t],
           \A i \in DOMAIN out : out[i] = st.heap[t][i],
           NEW left, left = RemoveRows(st, t, out)
    PROVE  Matches(left.heap, left.index)
<1>1. /\ DOMAIN left.heap[t] = DOMAIN st.heap[t] \ DOMAIN out
      /\ \A i \in DOMAIN left.heap[t] : left.heap[t][i] = st.heap[t][i]
      /\ \A u \in Tables \ {t} : left.heap[u] = st.heap[u]
      /\ DOMAIN left.index = DOMAIN st.index
      /\ \A d \in DOMAIN st.index :
            /\ d.table = t => left.index[d] = st.index[d] \ EntriesOf(d, out)
            /\ d.table # t => left.index[d] = st.index[d]
    BY Removed
<1>2. ASSUME NEW d \in DOMAIN left.index
      PROVE  left.index[d] = EntriesOf(d, left.heap[d.table])
    <2>1. d \in DOMAIN st.index /\ d.table \in Tables
        BY <1>1, SchemaTyped DEF Typed, IndexTyped
    <2>2. st.index[d] = EntriesOf(d, st.heap[d.table])
        BY <2>1 DEF Matches
    <2>3. CASE d.table = t
        <3>1. left.index[d] = EntriesOf(d, st.heap[t]) \ EntriesOf(d, out)
            BY <1>1, <2>1, <2>2, <2>3
        <3>2. EntriesOf(d, left.heap[t]) = EntriesOf(d, st.heap[t]) \ EntriesOf(d, out)
            <4> DEFINE entry(rows, i) == <<KeyOf(rows[i], d.columns), i>>
            <4>1. \A rows : \A e : e \in EntriesOf(d, rows) <=> \E i \in DOMAIN rows : e = entry(rows, i)
                BY DEF EntriesOf
            <4>2. \A i \in DOMAIN out : entry(st.heap[t], i) = entry(out, i)
                OBVIOUS
            <4>3. \A i \in DOMAIN left.heap[t] : entry(left.heap[t], i) = entry(st.heap[t], i)
                BY <1>1
            <4>4. \A rows, more, i, j : entry(rows, i) = entry(more, j) => i = j
                OBVIOUS
            <4> HIDE DEF entry
            <4> QED BY <1>1, <4>1, <4>2, <4>3, <4>4
        <3> QED BY <3>1, <3>2, <2>3
    <2>4. CASE d.table # t
        BY <1>1, <2>1, <2>2, <2>4
    <2> QED BY <2>3, <2>4
<1> QED BY <1>2 DEF Matches

LEMMA AddedMatches ==
    ASSUME NEW st, Typed(st), Matches(st.heap, st.index), NEW t \in Tables,
           NEW in, in \in [DOMAIN in -> Rows], DOMAIN in \subseteq Rids,
           \A i \in DOMAIN in : i \notin DOMAIN st.heap[t],
           NEW grown, grown = AddRows(st, t, in)
    PROVE  Matches(grown.heap, grown.index)
<1>1. /\ DOMAIN grown.heap[t] = DOMAIN st.heap[t] \cup DOMAIN in
      /\ \A i \in DOMAIN in : grown.heap[t][i] = in[i]
      /\ \A i \in DOMAIN st.heap[t] \ DOMAIN in : grown.heap[t][i] = st.heap[t][i]
      /\ \A u \in Tables \ {t} : grown.heap[u] = st.heap[u]
      /\ DOMAIN grown.index = DOMAIN st.index
      /\ \A d \in DOMAIN st.index :
            /\ d.table = t => grown.index[d] = st.index[d] \cup EntriesOf(d, in)
            /\ d.table # t => grown.index[d] = st.index[d]
    BY Added
<1>2. ASSUME NEW d \in DOMAIN grown.index
      PROVE  grown.index[d] = EntriesOf(d, grown.heap[d.table])
    <2>1. d \in DOMAIN st.index /\ d.table \in Tables
        BY <1>1, SchemaTyped DEF Typed, IndexTyped
    <2>2. st.index[d] = EntriesOf(d, st.heap[d.table])
        BY <2>1 DEF Matches
    <2>3. CASE d.table = t
        <3>1. grown.index[d] = EntriesOf(d, st.heap[t]) \cup EntriesOf(d, in)
            BY <1>1, <2>1, <2>2, <2>3
        <3>2. EntriesOf(d, grown.heap[t]) = EntriesOf(d, st.heap[t]) \cup EntriesOf(d, in)
            <4> DEFINE entry(rows, i) == <<KeyOf(rows[i], d.columns), i>>
            <4>1. \A rows : \A e : e \in EntriesOf(d, rows) <=> \E i \in DOMAIN rows : e = entry(rows, i)
                BY DEF EntriesOf
            <4>2. /\ \A i \in DOMAIN in : entry(grown.heap[t], i) = entry(in, i)
                  /\ \A i \in DOMAIN st.heap[t] : entry(grown.heap[t], i) = entry(st.heap[t], i)
                BY <1>1
            <4> HIDE DEF entry
            <4> QED BY <1>1, <4>1, <4>2
        <3> QED BY <3>1, <3>2, <2>3
    <2>4. CASE d.table # t
        BY <1>1, <2>1, <2>2, <2>4
    <2> QED BY <2>3, <2>4
<1> QED BY <1>2 DEF Matches

\* Rows that clash with no entry and not with each other keep the keys of the
\* unique indexes unique.
LEMMA AddedUnique ==
    ASSUME NEW st, Typed(st), Matches(st.heap, st.index),
           IndexUnique(st.heap, st.index), NEW t \in Tables,
           NEW in, in \in [DOMAIN in -> Rows], DOMAIN in \subseteq Rids,
           \A i \in DOMAIN in : i \notin DOMAIN st.heap[t],
           ~Clash(st, t, in),
           NEW grown, grown = AddRows(st, t, in)
    PROVE  IndexUnique(grown.heap, grown.index)
<1>1. /\ DOMAIN grown.heap[t] = DOMAIN st.heap[t] \cup DOMAIN in
      /\ \A i \in DOMAIN in : grown.heap[t][i] = in[i]
      /\ \A i \in DOMAIN st.heap[t] : grown.heap[t][i] = st.heap[t][i]
      /\ \A u \in Tables \ {t} : grown.heap[u] = st.heap[u]
      /\ DOMAIN grown.index = DOMAIN st.index
    BY Added
<1>2. ASSUME NEW d \in DOMAIN grown.index, d.unique
      PROVE  Distinct(grown.heap[d.table], d.columns)
    <2>1. d \in DOMAIN st.index /\ d.table \in Tables
        BY <1>1, SchemaTyped DEF Typed, IndexTyped
    <2>2. Distinct(st.heap[d.table], d.columns)
        BY <1>2, <2>1 DEF IndexUnique
    <2>3. CASE d.table # t
        BY <1>1, <2>1, <2>2, <2>3
    <2>4. CASE d.table = t
        <3> DEFINE key(row) == KeyOf(row, d.columns)
        <3>1. st.index[d] = EntriesOf(d, st.heap[t])
            BY <2>1, <2>4 DEF Matches
        <3>2. ASSUME NEW m \in DOMAIN in, NEW n \in DOMAIN st.heap[t], NullFree(key(in[m]))
              PROVE  key(in[m]) # key(st.heap[t][n])
            <4>1. <<key(st.heap[t][n]), n>> \in st.index[d]
                BY <3>1 DEF EntriesOf
            <4>2. \A e \in st.index[d] : e[1] # key(in[m])
                BY <1>2, <2>1, <2>4, <3>2 DEF Clash
            <4> QED BY <4>1, <4>2
        <3>3. ASSUME NEW m \in DOMAIN in, NEW n \in DOMAIN in, m # n, NullFree(key(in[m]))
              PROVE  key(in[m]) # key(in[n])
            BY <1>2, <2>1, <2>4, <3>3 DEF Clash
        <3>4. ASSUME NEW m \in DOMAIN st.heap[t], NEW n \in DOMAIN st.heap[t], m # n,
                     NullFree(key(st.heap[t][m]))
              PROVE  key(st.heap[t][m]) # key(st.heap[t][n])
            BY <2>2, <2>4, <3>4 DEF Distinct
        <3>5. ASSUME NEW i \in DOMAIN grown.heap[t], NEW j \in DOMAIN grown.heap[t], i # j,
                     NullFree(key(grown.heap[t][i])), key(grown.heap[t][i]) = key(grown.heap[t][j])
              PROVE  FALSE
            <4>1. CASE i \in DOMAIN in /\ j \in DOMAIN in
                BY <1>1, <3>3, <3>5, <4>1
            <4>2. CASE i \in DOMAIN in /\ j \in DOMAIN st.heap[t]
                BY <1>1, <3>2, <3>5, <4>2
            <4>3. CASE i \in DOMAIN st.heap[t] /\ j \in DOMAIN in
                <5>1. NullFree(key(in[j]))
                    BY <1>1, <3>5, <4>3
                <5> QED BY <1>1, <3>2, <3>5, <4>3, <5>1
            <4>4. CASE i \in DOMAIN st.heap[t] /\ j \in DOMAIN st.heap[t]
                BY <1>1, <3>4, <3>5, <4>4
            <4> QED BY <1>1, <4>1, <4>2, <4>3, <4>4
        <3> QED BY <2>4, <3>5 DEF Distinct
    <2> QED BY <2>3, <2>4
<1> QED BY <1>2 DEF IndexUnique

(***************************************************************************)
(* What statements owe.                                                     *)
(***************************************************************************)
LEMMA StatementForms ==
    ASSUME NEW s \in Statement
    PROVE  /\ s.op \in {"insert", "update", "delete", "create index", "drop index"}
           /\ s.op = "insert" => s.table \in Tables /\ s.row \in Rows
           /\ s.op = "delete" => s.table \in Tables /\ s.where \in SUBSET Rows
           /\ s.op = "update" => /\ s.table \in Tables /\ s.where \in SUBSET Rows
                                 /\ s.set \in [Rows -> Rows]
           /\ s.op \in {"create index", "drop index"} => s.index \in IndexDefs
BY DEF Statement

LEMMA DueTyped ==
    ASSUME NEW t \in Tables, NEW event \in Events, Triggers[t][event] # <<>>,
           NEW old \in OldRows(event), NEW new \in NewRows(event)
    PROVE  [triggers |-> Triggers[t][event], old |-> old, new |-> new] \in Due
<1>1. Triggers[t][event] \in Seq(TriggerNames)
    BY StatementsAssumption
<1>2. old \in Rows \cup {NoRow} /\ new \in Rows \cup {NoRow}
    BY DEF OldRows, NewRows
<1> QED BY <1>1, <1>2 DEF Due

LEMMA OwedTyped ==
    ASSUME NEW t \in Tables, NEW event \in Events,
           NEW old \in OldRows(event), NEW new \in NewRows(event)
    PROVE  Owed(t, event, old, new) \in Seq(Due)
<1>1. CASE Triggers[t][event] = <<>>
    BY <1>1 DEF Owed
<1>2. CASE Triggers[t][event] # <<>>
    BY <1>2, DueTyped DEF Owed
<1> QED BY <1>1, <1>2

LEMMA OwedAllTyped ==
    ASSUME NEW t \in Tables, NEW event \in Events, NEW old, NEW new, NEW order,
           NEW c \in Nat, NEW S, order \in [1..c -> S],
           \A i \in S : old[i] \in OldRows(event) /\ new[i] \in NewRows(event)
    PROVE  OwedAll(t, event, order, old, new) \in Seq(Due)
<1>1. CASE Triggers[t][event] = <<>>
    BY <1>1 DEF OwedAll
<1>2. CASE Triggers[t][event] # <<>>
    <2>1. order \in Seq(S) /\ Len(order) = c
        OBVIOUS
    <2>2. \A n \in 1..c : [triggers |-> Triggers[t][event],
                           old |-> old[order[n]], new |-> new[order[n]]] \in Due
        BY <1>2, DueTyped
    <2>3. OwedAll(t, event, order, old, new)
              = [n \in 1..c |-> [triggers |-> Triggers[t][event],
                                 old |-> old[order[n]], new |-> new[order[n]]]]
        BY <1>2, <2>1 DEF OwedAll
    <2> QED BY <2>2, <2>3
<1> QED BY <1>1, <1>2

\* With the first trigger gone, what is left is still owed.
LEMMA OwedNextTyped ==
    ASSUME NEW owed \in Seq(Due), owed # <<>>
    PROVE  OwedNext(owed) \in Seq(Due)
<1>1. owed[1] \in Due /\ Tail(owed) \in Seq(Due)
    OBVIOUS
<1>2. CASE Len(owed[1].triggers) = 1
    BY <1>1, <1>2 DEF OwedNext
<1>3. CASE Len(owed[1].triggers) # 1
    <2> DEFINE names == owed[1].triggers
               rest == [owed[1] EXCEPT !.triggers = Tail(@)]
    <2>1. names \in Seq(TriggerNames) /\ names # <<>>
        BY <1>1 DEF Due
    <2>2. /\ Tail(names) \in Seq(TriggerNames) /\ Tail(names) # <<>>
          /\ \A m \in 1..Len(Tail(names)) : Tail(names)[m] = names[m + 1] /\ m + 1 \in 1..Len(names)
        <3>1. Len(names) # 1
            BY <1>3
        <3> HIDE DEF names
        <3>2. Len(names) \in Nat /\ Len(names) > 1
            <4> DEFINE k == Len(names)
            <4>1. k \in Nat /\ k # 0
                BY <2>1
            <4>2. k # 1
                BY <3>1
            <4> HIDE DEF k
            <4>3. k \in Nat /\ k > 1
                BY <4>1, <4>2
            <4> QED BY <4>3 DEF k
        <3>3. Tail(names) \in Seq(TriggerNames) /\ Len(Tail(names)) = Len(names) - 1
            BY <2>1
        <3>4. \A m \in 1..Len(Tail(names)) : Tail(names)[m] = names[m + 1]
            BY <2>1, <3>2, <3>3
        <3>5. \A m \in 1..Len(Tail(names)) : m + 1 \in 1..Len(names)
            BY <3>2, <3>3
        <3>6. Tail(names) # <<>>
            <4> DEFINE k == Len(names)
                       l == Len(Tail(names))
            <4>1. k \in Nat /\ k > 1 /\ l = k - 1
                BY <3>2, <3>3
            <4> HIDE DEF k, l
            <4>2. l # 0
                BY <4>1
            <4>3. Len(<<>>) = 0
                OBVIOUS
            <4> QED BY <4>2, <4>3, Zenon DEF l
        <3> QED BY <3>3, <3>4, <3>5, <3>6
    <2>3. PICK t \in Tables, event \in Events :
             /\ owed[1].old \in OldRows(event) /\ owed[1].new \in NewRows(event)
             /\ \A m \in 1..Len(names) : \E n \in 1..Len(Triggers[t][event]) :
                   names[m] = Triggers[t][event][n]
        BY <1>1 DEF Due
    <2>4. /\ rest \in [triggers : Seq(TriggerNames), old : Rows \cup {NoRow}, new : Rows \cup {NoRow}]
          /\ rest.triggers = Tail(names) /\ rest.old = owed[1].old /\ rest.new = owed[1].new
        <3>1. owed[1] \in [triggers : Seq(TriggerNames), old : Rows \cup {NoRow}, new : Rows \cup {NoRow}]
            BY <1>1 DEF Due
        <3> QED BY <3>1, <2>2
    <2>5. \A m \in 1..Len(Tail(names)) : \E n \in 1..Len(Triggers[t][event]) :
              Tail(names)[m] = Triggers[t][event][n]
        BY <2>2, <2>3
    <2>6. OwedNext(owed) = [owed EXCEPT ![1] = rest]
        BY <1>3 DEF OwedNext
    <2> HIDE DEF rest, names
    <2>7. rest \in Due
        <3>1. /\ rest.old \in OldRows(event) /\ rest.new \in NewRows(event)
              /\ \A m \in 1..Len(rest.triggers) : \E n \in 1..Len(Triggers[t][event]) :
                    rest.triggers[m] = Triggers[t][event][n]
            BY <2>3, <2>4, <2>5
        <3>2. rest.triggers # <<>>
            BY <2>2, <2>4
        <3> QED BY <2>4, <3>1, <3>2 DEF Due
    <2> QED BY <2>6, <2>7
<1> QED BY <1>2, <1>3

(***************************************************************************)
(* What statements leave.                                                   *)
(***************************************************************************)
LEMMA RemovedUnique ==
    ASSUME NEW st, Typed(st), NEW t \in Tables, NEW out,
           KeysHold(st.heap), IndexUnique(st.heap, st.index),
           NEW left, left = RemoveRows(st, t, out)
    PROVE  KeysHold(left.heap) /\ IndexUnique(left.heap, left.index)
<1>1. /\ DOMAIN left.heap[t] = DOMAIN st.heap[t] \ DOMAIN out
      /\ \A i \in DOMAIN left.heap[t] : left.heap[t][i] = st.heap[t][i]
      /\ \A u \in Tables \ {t} : left.heap[u] = st.heap[u]
      /\ DOMAIN left.index = DOMAIN st.index
    BY Removed
<1>2. \A u \in Tables : \A i \in DOMAIN left.heap[u] :
          i \in DOMAIN st.heap[u] /\ left.heap[u][i] = st.heap[u][i]
    BY <1>1
<1>3. \A u \in Tables : \A columns :
          Distinct(st.heap[u], columns) => Distinct(left.heap[u], columns)
    BY <1>2, FewerDistinct
<1>4. KeysHold(left.heap)
    BY <1>2, <1>3, SchemaTyped DEF KeysHold
<1>5. \A d \in DOMAIN left.index : d \in DOMAIN st.index /\ d.table \in Tables
    BY <1>1, SchemaTyped DEF Typed, IndexTyped
<1>6. IndexUnique(left.heap, left.index)
    BY <1>3, <1>5 DEF IndexUnique
<1> QED BY <1>4, <1>6

LEMMA StoreFacts == Store.heap = heap /\ Store.index = index
BY DEF Store

LEMMA RaisesFacts ==
    ASSUME NEW st, NEW owed
    PROVE  /\ Raises(st).store = st /\ Raises(st).owed = <<>> /\ ~Raises(st).ok
           /\ Succeeds(st, owed).store = st /\ Succeeds(st, owed).owed = owed
           /\ Raises(st).owed \in Seq(Due)
BY DEF Raises, Succeeds

\* Of the rows of t, only those at hit go or change; they pass the check of their
\* references.
Rewritten(t, h, hit, rows) ==
    /\ \A u \in Tables \ {t} : rows[u] = h[u]
    /\ \A i \in DOMAIN h[t] \ hit : i \in DOMAIN rows[t] /\ rows[t][i] = h[t][i]
    /\ \A i \in hit : Unreferenced(t, h[t][i], rows)

\* A row that was there and is there still then has its parent.
LEMMA ParentStays ==
    ASSUME NEW t \in Tables, NEW h, NEW hit, NEW rows, Rewritten(t, h, hit, rows), Referenced(h),
           NEW f \in ForeignKeys, NEW child,
           child \in Range(h[f.table]), child \in Range(rows[f.table]),
           NullFree(KeyOf(child, f.columns))
    PROVE  \E p \in Range(rows[f.parent]) : KeyOf(p, f.references) = KeyOf(child, f.columns)
<1> USE DEF Rewritten
<1>1. PICK p \in Range(h[f.parent]) : KeyOf(p, f.references) = KeyOf(child, f.columns)
    BY DEF Referenced
<1>2. CASE f.parent # t
    BY <1>1, <1>2, SchemaTyped
<1>3. CASE f.parent = t
    <2>1. PICK i \in DOMAIN h[t] : p = h[t][i]
        BY <1>1, <1>3 DEF Range
    <2>2. CASE i \notin hit
        BY <1>1, <1>3, <2>1, <2>2 DEF Range
    <2>3. CASE i \in hit
        <3>1. Released(f, p, rows)
            BY <1>3, <2>1, <2>3 DEF Unreferenced
        <3> QED BY <1>1, <1>3, <3>1 DEF Released
    <2> QED BY <2>2, <2>3
<1> QED BY <1>2, <1>3

LEMMA InsertLeaves ==
    ASSUME Typed(Store), NEW s \in Statement, s.op = "insert",
           NEW done, done = RunInsert(s), WithinBound(done)
    PROVE  /\ Typed(done.store) /\ done.owed \in Seq(Due)
           /\ Sound(Store) /\ done.ok => Sound(done.store)
<1> DEFINE t == s.table
           rid == FreeRids(heap[t], 1)[1]
           in == [i \in {rid} |-> s.row]
           grown == AddRows(Store, t, in)
           Passed == Constrained(t, s.row, Range(heap[t]), heap)
<1>1. t \in Tables /\ s.row \in Rows
    BY StatementForms
<1>2. HeapTyped(heap) /\ IndexTyped(index)
    BY StoreFacts DEF Typed
<1>3. rid \notin DOMAIN heap[t]
    BY <1>1, <1>2, FreeEnough DEF HeapTyped
<1>4. /\ ~Passed => done = Raises(Store)
      /\ Passed /\ Clash(Store, t, in) => done = Raises([Store EXCEPT !.heap = grown.heap])
      /\ Passed /\ ~Clash(Store, t, in) =>
            done = Succeeds(grown, Owed(t, "insert", NoRow, s.row))
    BY DEF RunInsert
<1> HIDE DEF rid, t
<1>5. in \in [DOMAIN in -> Rows] /\ DOMAIN in = {rid} /\ in[rid] = s.row
    BY <1>1
<1>6. DOMAIN grown.heap[t] = DOMAIN heap[t] \cup {rid}
    BY <1>1, <1>2, <1>5 DEF AddRows, Store, HeapTyped
<1>7. ASSUME done.store.heap = grown.heap
      PROVE  /\ DOMAIN in \subseteq Rids /\ Typed(grown)
             /\ grown.heap[t][rid] = s.row
             /\ \A i \in DOMAIN heap[t] : grown.heap[t][i] = heap[t][i]
             /\ \A u \in Tables \ {t} : grown.heap[u] = heap[u]
    <2>1. rid \in Rids
        BY <1>1, <1>6, <1>7 DEF WithinBound
    <2> HIDE DEF grown, in
    <2>2. grown = AddRows(Store, t, in)
        BY DEF grown
    <2>3. DOMAIN in \subseteq Rids
        BY <1>5, <2>1
    <2> QED BY <1>1, <1>3, <1>5, <2>2, <2>3, Added, StoreFacts
<1> HIDE DEF Passed
<1>8. CASE ~Passed
    BY <1>4, <1>8, RaisesFacts
<1>9. CASE Passed /\ Clash(Store, t, in)
    <2>1. done = Raises([Store EXCEPT !.heap = grown.heap])
        BY <1>4, <1>9
    <2>2. done.store.heap = grown.heap /\ done.store.index = index /\ ~done.ok /\ done.owed \in Seq(Due)
        BY <2>1, RaisesFacts DEF Store
    <2> HIDE DEF grown
    <2> QED BY <1>2, <1>7, <2>2 DEF Typed
<1>10. CASE Passed /\ ~Clash(Store, t, in)
    <2>1. done = Succeeds(grown, Owed(t, "insert", NoRow, s.row))
        BY <1>4, <1>10
    <2> HIDE DEF grown
    <2>2. done.store = grown /\ done.owed \in Seq(Due)
        BY <1>1, <2>1, RaisesFacts, OwedTyped DEF Events, OldRows, NewRows
    <2>3. /\ DOMAIN in \subseteq Rids /\ Typed(grown)
          /\ grown.heap[t][rid] = s.row
          /\ \A i \in DOMAIN heap[t] : grown.heap[t][i] = heap[t][i]
          /\ \A u \in Tables \ {t} : grown.heap[u] = heap[u]
        BY <1>7, <2>2
    <2>4. ASSUME Sound(Store)
          PROVE  Sound(grown)
        <3>1. Matches(heap, index) /\ KeysHold(heap) /\ IndexUnique(heap, index) /\ Referenced(heap)
            BY <2>4, StoreFacts DEF Sound
        <3>2. \A i \in DOMAIN in : i \notin DOMAIN heap[t]
            BY <1>3, <1>5
        <3>3. grown = AddRows(Store, t, in)
            BY DEF grown
        <3>4. ~Clash(Store, t, in)
            BY <1>10
        <3> HIDE DEF in
        <3>5. Matches(grown.heap, grown.index)
            BY <1>1, <1>5, <2>3, <3>1, <3>2, <3>3, AddedMatches, StoreFacts
        <3>6. IndexUnique(grown.heap, grown.index)
            BY <1>1, <1>5, <2>3, <3>1, <3>2, <3>3, <3>4, AddedUnique, StoreFacts
        <3>7. KeysHold(grown.heap)
            <4>1. ASSUME NEW c \in KeyConstraints, c.table = t
                  PROVE  /\ Distinct(grown.heap[t], c.columns)
                         /\ c.primary => \A i \in DOMAIN grown.heap[t] :
                                             NullFree(KeyOf(grown.heap[t][i], c.columns))
                <5>1. /\ c.primary => NullFree(KeyOf(s.row, c.columns))
                      /\ NullFree(KeyOf(s.row, c.columns)) =>
                            \A i \in DOMAIN heap[t] :
                                KeyOf(heap[t][i], c.columns) # KeyOf(s.row, c.columns)
                    BY <1>10, <4>1 DEF Passed, Constrained, Range
                <5>2. /\ Distinct(heap[t], c.columns)
                      /\ c.primary => \A i \in DOMAIN heap[t] : NullFree(KeyOf(heap[t][i], c.columns))
                    BY <3>1, <4>1 DEF KeysHold
                <5>3. ASSUME NEW i \in DOMAIN grown.heap[t], NEW j \in DOMAIN grown.heap[t], i # j,
                             NullFree(KeyOf(grown.heap[t][i], c.columns))
                      PROVE  KeyOf(grown.heap[t][i], c.columns) # KeyOf(grown.heap[t][j], c.columns)
                    BY <1>6, <2>3, <5>1, <5>2, <5>3 DEF Distinct
                <5> QED BY <1>6, <2>3, <5>1, <5>2, <5>3 DEF Distinct
            <4>2. ASSUME NEW c \in KeyConstraints, c.table # t
                  PROVE  grown.heap[c.table] = heap[c.table]
                BY <2>3, <4>2, SchemaTyped
            <4> QED BY <3>1, <4>1, <4>2 DEF KeysHold
        <3>8. Referenced(grown.heap)
            <4>1. \A u \in Tables : Range(heap[u]) \subseteq Range(grown.heap[u])
                BY <1>6, <2>3 DEF Range
            <4>2. \A u \in Tables : \A child \in Range(grown.heap[u]) :
                      child \in Range(heap[u]) \/ (u = t /\ child = s.row)
                BY <1>6, <2>3 DEF Range
            <4>3. ASSUME NEW f \in ForeignKeys, NEW child \in Range(grown.heap[f.table]),
                         NullFree(KeyOf(child, f.columns))
                  PROVE  \E p \in Range(heap[f.parent]) :
                             KeyOf(p, f.references) = KeyOf(child, f.columns)
                <5>1. CASE child \in Range(heap[f.table])
                    BY <3>1, <4>3, <5>1 DEF Referenced
                <5>2. CASE f.table = t /\ child = s.row
                    BY <1>10, <4>3, <5>2 DEF Passed, Constrained
                <5> QED BY <4>2, <5>1, <5>2, SchemaTyped
            <4> QED BY <4>1, <4>3, SchemaTyped DEF Referenced
        <3> QED BY <3>5, <3>6, <3>7, <3>8 DEF Sound
    <2> QED BY <2>2, <2>3, <2>4
<1> QED BY <1>8, <1>9, <1>10

LEMMA DeleteLeaves ==
    ASSUME Typed(Store), NEW s \in Statement, s.op = "delete",
           NEW done, done = RunDelete(s)
    PROVE  /\ Typed(done.store) /\ done.owed \in Seq(Due)
           /\ Sound(Store) /\ done.ok => Sound(done.store)
<1> DEFINE t == s.table
           hit == Hit(s)
           doomed == Restrict(heap[t], hit)
           final == [heap EXCEPT ![t] = Restrict(@, DOMAIN @ \ hit)]
           refused == {i \in hit : ~Unreferenced(t, doomed[i], final)}
           passed == {i \in hit : \A j \in refused : i < j}
           left == RemoveRows(Store, t, doomed)
<1>1. t \in Tables
    BY StatementForms
<1>2. HeapTyped(heap) /\ IndexTyped(index)
    BY StoreFacts DEF Typed
<1>3. hit \subseteq DOMAIN heap[t] /\ hit \in SUBSET Nat /\ IsFiniteSet(hit)
    <2>1. hit \subseteq DOMAIN heap[t]
        BY DEF Hit
    <2> HIDE DEF hit
    <2>2. hit \in SUBSET (1..MaxRid)
        BY <1>1, <1>2, <2>1 DEF HeapTyped, Rids
    <2>3. IsFiniteSet(1..MaxRid)
        BY SchemaAssumption, FS_Interval
    <2>4. IsFiniteSet(hit)
        BY <2>2, <2>3, FS_Subset
    <2> QED BY <2>1, <2>2, <2>4
<1>4. CASE refused # {}
    <2>1. done = Raises(RemoveRows(Store, t, Restrict(doomed, passed)))
        BY <1>4 DEF RunDelete
    <2>2. Typed(RemoveRows(Store, t, Restrict(doomed, passed)))
        BY <1>1, Removed, StoreFacts
    <2> QED BY <2>1, <2>2, RaisesFacts
<1> HIDE DEF hit
<1>5. CASE refused = {}
    <2>1. done = Succeeds(left, OwedAll(t, "delete", InScanOrder(hit), doomed, [i \in hit |-> NoRow]))
        BY <1>5 DEF RunDelete, hit
    <2>2. DOMAIN doomed = hit /\ \A i \in hit : doomed[i] = heap[t][i] /\ doomed[i] \in Rows
        BY <1>1, <1>2, <1>3 DEF Restrict, HeapTyped
    <2>3. left.heap = final
        BY <2>2 DEF RemoveRows, Store
    <2>4. \A i \in hit : Unreferenced(t, heap[t][i], left.heap)
        BY <1>5, <2>2, <2>3
    <2> HIDE DEF doomed, final, refused, t
    <2>5. OwedAll(t, "delete", InScanOrder(hit), doomed, [i \in hit |-> NoRow]) \in Seq(Due)
        <3>1. Cardinality(hit) \in Nat /\ InScanOrder(hit) \in [1..Cardinality(hit) -> hit]
            BY <1>3, ScanOrder
        <3>2. \A i \in hit : /\ doomed[i] \in OldRows("delete")
                             /\ [j \in hit |-> NoRow][i] \in NewRows("delete")
            BY <2>2 DEF OldRows, NewRows
        <3> QED BY <1>1, <3>1, <3>2, OwedAllTyped DEF Events
    <2>6. /\ Typed(left)
          /\ DOMAIN left.heap[t] = DOMAIN heap[t] \ hit
          /\ \A i \in DOMAIN left.heap[t] : left.heap[t][i] = heap[t][i]
          /\ \A u \in Tables \ {t} : left.heap[u] = heap[u]
        BY <1>1, <2>2, Removed, StoreFacts
    <2>7. ASSUME Sound(Store)
          PROVE  Sound(left)
        <3>1. Matches(heap, index) /\ KeysHold(heap) /\ IndexUnique(heap, index) /\ Referenced(heap)
            BY <2>7, StoreFacts DEF Sound
        <3>2. Matches(left.heap, left.index)
            BY <1>1, <1>3, <2>2, <3>1, RemovedMatches, StoreFacts
        <3>3. KeysHold(left.heap) /\ IndexUnique(left.heap, left.index)
            BY <1>1, <3>1, RemovedUnique, StoreFacts
        <3> HIDE DEF left
        <3>4. ASSUME NEW f \in ForeignKeys, NEW child \in Range(left.heap[f.table]),
                     NullFree(KeyOf(child, f.columns))
              PROVE  \E p \in Range(left.heap[f.parent]) :
                         KeyOf(p, f.references) = KeyOf(child, f.columns)
            <4>1. child \in Range(heap[f.table])
                BY <2>6, SchemaTyped DEF Range
            <4>2. Rewritten(t, heap, hit, left.heap)
                BY <2>4, <2>6 DEF Rewritten
            <4> QED BY <1>1, <3>1, <3>4, <4>1, <4>2, ParentStays
        <3>5. Referenced(left.heap)
            BY <3>4 DEF Referenced
        <3> QED BY <3>2, <3>3, <3>5 DEF Sound
    <2> HIDE DEF left
    <2> QED BY <2>1, <2>5, <2>6, <2>7, RaisesFacts
<1> QED BY <1>4, <1>5

\* The rows of in are those of new, each once.
Assigned(hit, new, in) ==
    /\ in \in [DOMAIN in -> Rows]
    /\ \E from \in [DOMAIN in -> hit] :
          /\ \A i \in DOMAIN in : in[i] = new[from[i]]
          /\ \A i, j \in DOMAIN in : from[i] = from[j] => i = j
          /\ \A h \in hit : \E i \in DOMAIN in : from[i] = h

\* The n-th of new, in one order, is at the n-th record id, in another.
Paired(hit, c, order, rids, new, in) ==
    /\ c \in Nat /\ order \in [1..c -> hit] /\ new \in [hit -> Rows]
    /\ \A h \in hit : \E n \in 1..c : order[n] = h
    /\ \A m, n \in 1..c : order[m] = order[n] => m = n
    /\ \A m, n \in 1..c : rids[m] = rids[n] => m = n
    /\ in = [i \in DOMAIN in |-> in[i]]
    /\ \A i \in DOMAIN in : \E n \in 1..c : i = rids[n]
    /\ \A n \in 1..c : rids[n] \in DOMAIN in /\ in[rids[n]] = new[order[n]]

LEMMA PairedAssigned ==
    ASSUME NEW hit, NEW c, NEW order, NEW rids, NEW new, NEW in,
           Paired(hit, c, order, rids, new, in)
    PROVE  Assigned(hit, new, in)
<1> USE DEF Paired
<1> DEFINE from == [i \in DOMAIN in |-> order[CHOOSE n \in 1..c : rids[n] = i]]
<1>1. ASSUME NEW n \in 1..c
      PROVE  from[rids[n]] = order[n]
    <2>1. (CHOOSE m \in 1..c : rids[m] = rids[n]) = n
        OBVIOUS
    <2>2. rids[n] \in DOMAIN in
        OBVIOUS
    <2> QED BY <2>1, <2>2
<1>2. DOMAIN from = DOMAIN in
    OBVIOUS
<1>3. ASSUME NEW i \in DOMAIN in
      PROVE  from[i] \in hit /\ in[i] \in Rows /\ in[i] = new[from[i]]
    <2>1. PICK n \in 1..c : i = rids[n]
        OBVIOUS
    <2>2. from[i] = order[n] /\ in[i] = new[order[n]] /\ order[n] \in hit
        BY <1>1, <2>1
    <2> HIDE DEF from
    <2> QED BY <2>2
<1>4. from \in [DOMAIN in -> hit]
    BY <1>3
<1> HIDE DEF from
<1>5. in \in [DOMAIN in -> Rows]
    BY <1>3
<1>6. ASSUME NEW i \in DOMAIN in, NEW j \in DOMAIN in, from[i] = from[j]
      PROVE  i = j
    <2>1. PICK m \in 1..c : i = rids[m]
        OBVIOUS
    <2>2. PICK n \in 1..c : j = rids[n]
        OBVIOUS
    <2>3. order[m] = order[n]
        BY <1>1, <1>6, <2>1, <2>2
    <2> QED BY <2>1, <2>2, <2>3
<1>7. ASSUME NEW h \in hit
      PROVE  \E i \in DOMAIN in : from[i] = h
    <2>1. PICK n \in 1..c : order[n] = h
        OBVIOUS
    <2> QED BY <1>1, <2>1
<1> HIDE DEF Paired
<1>8. \E f \in [DOMAIN in -> hit] :
          /\ \A i \in DOMAIN in : in[i] = new[f[i]]
          /\ \A i, j \in DOMAIN in : f[i] = f[j] => i = j
          /\ \A h \in hit : \E i \in DOMAIN in : f[i] = h
    <2> WITNESS from \in [DOMAIN in -> hit]
    <2> QED BY <1>3, <1>6, <1>7
<1> QED BY <1>5, <1>8 DEF Assigned

\* Where an UPDATE of the rows hit puts their new forms: RunUpdate's in.
Placement(hit, new, emptied, in) ==
    LET order == InScanOrder(hit)
        rids == FreeRids(emptied, Len(order))
    IN  in = [i \in {rids[n] : n \in 1..Len(order)} |->
                 new[order[CHOOSE n \in 1..Len(order) : rids[n] = i]]]

\* The rows an UPDATE rewrites come back, each once, at record ids that are free.
LEMMA Placed ==
    ASSUME NEW t \in Tables, HeapTyped(heap), NEW hit \in SUBSET DOMAIN heap[t],
           NEW new, new \in [hit -> Rows],
           NEW emptied, DOMAIN emptied = DOMAIN heap[t] \ hit,
           NEW in, Placement(hit, new, emptied, in)
    PROVE  Assigned(hit, new, in) /\ \A i \in DOMAIN in : i \notin DOMAIN emptied
<1> DEFINE c == Cardinality(hit)
           order == InScanOrder(hit)
           rids == FreeRids(emptied, Len(order))
<1>0. in = [i \in {rids[n] : n \in 1..Len(order)} |->
               new[order[CHOOSE n \in 1..Len(order) : rids[n] = i]]]
    BY DEF Placement
<1>1. hit \in SUBSET (1..MaxRid) /\ hit \in SUBSET Nat /\ IsFiniteSet(hit)
    <2>1. hit \in SUBSET (1..MaxRid)
        BY DEF HeapTyped, Rids
    <2>2. IsFiniteSet(1..MaxRid)
        BY SchemaAssumption, FS_Interval
    <2>3. IsFiniteSet(hit)
        BY <2>1, <2>2, FS_Subset
    <2> QED BY <2>1, <2>3
<1>2. /\ c \in Nat /\ order \in [1..c -> hit]
      /\ \A h \in hit : \E n \in 1..c : order[n] = h
      /\ \A m, n \in 1..c : order[m] = order[n] => m = n
    BY <1>1, ScanOrder
<1> HIDE DEF c, order
<1>3. Len(order) = c
    BY <1>2
<1>4. /\ \A n \in 1..c : rids[n] \in Nat \ DOMAIN emptied
      /\ \A m, n \in 1..c : rids[m] = rids[n] => m = n
    <2>1. DOMAIN emptied \subseteq Rids
        BY DEF HeapTyped
    <2> QED BY <1>2, <1>3, <2>1, FreeEnough
<1> HIDE DEF rids
<1>5. DOMAIN in = {rids[n] : n \in 1..c}
    <2>1. DOMAIN in = {rids[n] : n \in 1..Len(order)}
        BY <1>0
    <2> QED BY <1>3, <2>1
<1>6. ASSUME NEW n \in 1..c
      PROVE  rids[n] \in DOMAIN in /\ in[rids[n]] = new[order[n]]
    <2>1. (CHOOSE m \in 1..c : rids[m] = rids[n]) = n
        BY <1>4
    <2>2. rids[n] \in {rids[m] : m \in 1..Len(order)}
        BY <1>3
    <2>3. in[rids[n]] = new[order[CHOOSE m \in 1..Len(order) : rids[m] = rids[n]]]
        BY <1>0, <2>2
    <2>4. in[rids[n]] = new[order[CHOOSE m \in 1..c : rids[m] = rids[n]]]
        BY <1>3, <2>3
    <2>5. rids[n] \in DOMAIN in
        BY <1>5
    <2> QED BY <2>1, <2>4, <2>5
<1>7. \A i \in DOMAIN in : \E n \in 1..c : i = rids[n]
    BY <1>5
<1>8. in = [i \in DOMAIN in |-> in[i]]
    BY <1>0
<1>9. \A i \in DOMAIN in : i \notin DOMAIN emptied
    BY <1>4, <1>7
<1>10. Paired(hit, c, order, rids, new, in)
    BY <1>2, <1>4, <1>6, <1>7, <1>8 DEF Paired
<1>11. Assigned(hit, new, in)
    BY <1>10, PairedAssigned
<1> QED BY <1>9, <1>11

LEMMA UpdateLeaves ==
    ASSUME Typed(Store), NEW s \in Statement, s.op = "update",
           NEW done, done = RunUpdate(s), WithinBound(done)
    PROVE  /\ Typed(done.store) /\ done.owed \in Seq(Due)
           /\ Sound(Store) /\ done.ok => Sound(done.store)
<1> DEFINE t == s.table
           hit == Hit(s)
           order == InScanOrder(hit)
           old == Restrict(heap[t], hit)
           new == [i \in hit |-> s.set[old[i]]]
           final == [i \in DOMAIN heap[t] |-> IF i \in hit THEN new[i] ELSE heap[t][i]]
           rows == [heap EXCEPT ![t] = final]
           emptied == RemoveRows(Store, t, old)
           rids == FreeRids(emptied.heap[t], Len(order))
           in == [i \in {rids[n] : n \in 1..Len(order)} |->
                     new[order[CHOOSE n \in 1..Len(order) : rids[n] = i]]]
           grown == AddRows(emptied, t, in)
           Refused == \/ \E i \in DOMAIN final :
                            ~Constrained(t, final[i], {final[j] : j \in DOMAIN final \ {i}}, rows)
                      \/ \E i \in hit : ~Unreferenced(t, old[i], rows)
<1>1. t \in Tables /\ s.set \in [Rows -> Rows]
    BY StatementForms
<1>2. HeapTyped(heap) /\ IndexTyped(index)
    BY StoreFacts DEF Typed
<1>3. /\ Refused => done = Raises(Store)
      /\ ~Refused /\ Clash(emptied, t, in) => done = Raises(emptied)
      /\ ~Refused /\ ~Clash(emptied, t, in) =>
            done = Succeeds(grown, OwedAll(t, "update", order, old, new))
    BY DEF RunUpdate
<1>4. hit \in SUBSET DOMAIN heap[t]
    BY DEF Hit
<1> HIDE DEF hit, t
<1>5. DOMAIN old = hit /\ \A i \in hit : old[i] = heap[t][i] /\ old[i] \in Rows
    BY <1>1, <1>2, <1>4 DEF Restrict, HeapTyped
<1> HIDE DEF old
<1>6. new \in [hit -> Rows]
    BY <1>1, <1>5
<1> HIDE DEF new
<1>7. /\ Typed(emptied)
      /\ DOMAIN emptied.heap[t] = DOMAIN heap[t] \ hit
      /\ \A i \in DOMAIN emptied.heap[t] : emptied.heap[t][i] = heap[t][i]
      /\ \A u \in Tables \ {t} : emptied.heap[u] = heap[u]
    BY <1>1, <1>5, Removed, StoreFacts
<1>8. CASE Refused
    BY <1>3, <1>8, RaisesFacts
<1>9. CASE ~Refused /\ Clash(emptied, t, in)
    <2>1. done = Raises(emptied)
        BY <1>3, <1>9
    <2> HIDE DEF emptied
    <2> QED BY <1>7, <2>1, RaisesFacts
<1>10. CASE ~Refused /\ ~Clash(emptied, t, in)
    <2>1. done.store = grown /\ done.owed = OwedAll(t, "update", order, old, new)
        <3>1. done = Succeeds(grown, OwedAll(t, "update", order, old, new))
            BY <1>3, <1>10
        <3> HIDE DEF grown, order
        <3> QED BY <3>1 DEF Succeeds
    <2>2. OwedAll(t, "update", order, old, new) \in Seq(Due)
        <3>1. hit \in SUBSET (1..MaxRid)
            BY <1>1, <1>2, <1>4 DEF HeapTyped, Rids
        <3>2. IsFiniteSet(1..MaxRid)
            BY SchemaAssumption, FS_Interval
        <3>3. IsFiniteSet(hit) /\ hit \in SUBSET Nat
            <4>1. IsFiniteSet(hit)
                BY <3>1, <3>2, FS_Subset
            <4> QED BY <3>1, <4>1
        <3>4. Cardinality(hit) \in Nat /\ order \in [1..Cardinality(hit) -> hit]
            BY <3>3, ScanOrder
        <3>5. \A i \in hit : old[i] \in OldRows("update") /\ new[i] \in NewRows("update")
            BY <1>5, <1>6 DEF OldRows, NewRows
        <3> HIDE DEF order
        <3> QED BY <1>1, <3>4, <3>5, OwedAllTyped DEF Events
    <2>3. Assigned(hit, new, in) /\ \A i \in DOMAIN in : i \notin DOMAIN emptied.heap[t]
        <3>1. DOMAIN emptied.heap[t] = DOMAIN heap[t] \ hit
            BY <1>7
        <3> HIDE DEF emptied
        <3>2. Placement(hit, new, emptied.heap[t], in)
            BY DEF Placement
        <3> HIDE DEF rids, in, order, final, rows, grown, Refused
        <3> QED BY <1>1, <1>2, <1>4, <1>6, <3>1, <3>2, Placed
    <2> HIDE DEF in
    <2>4. in \in [DOMAIN in -> Rows]
        BY <2>3 DEF Assigned
    <2>5. PICK from \in [DOMAIN in -> hit] :
             /\ \A i \in DOMAIN in : in[i] = new[from[i]]
             /\ \A i, j \in DOMAIN in : from[i] = from[j] => i = j
             /\ \A h \in hit : \E i \in DOMAIN in : from[i] = h
        BY <2>3 DEF Assigned
    <2>6. DOMAIN grown.heap[t] = DOMAIN emptied.heap[t] \cup DOMAIN in
        <3>1. t \in DOMAIN emptied.heap
            BY <1>1, <1>7 DEF Typed, HeapTyped
        <3> HIDE DEF emptied
        <3> QED BY <3>1 DEF AddRows
    <2>7. DOMAIN in \subseteq Rids
        BY <1>1, <2>1, <2>6 DEF WithinBound
    <2>8. /\ Typed(grown)
          /\ \A i \in DOMAIN in : grown.heap[t][i] = in[i]
          /\ \A i \in DOMAIN emptied.heap[t] : grown.heap[t][i] = emptied.heap[t][i]
          /\ \A u \in Tables \ {t} : grown.heap[u] = emptied.heap[u]
        <3> HIDE DEF emptied
        <3> QED BY <1>1, <1>7, <2>3, <2>4, <2>7, Added
    \* The rows there are afterwards are those that were checked.
    <2>9. \A i \in DOMAIN in : from[i] \in hit /\ grown.heap[t][i] = final[from[i]]
        BY <1>4, <2>4, <2>5, <2>8
    <2>10. \A i \in DOMAIN heap[t] \ hit :
              i \in DOMAIN grown.heap[t] /\ grown.heap[t][i] = final[i]
        BY <1>7, <2>6, <2>8
    <2>11. \A i \in DOMAIN grown.heap[t] : i \in DOMAIN in \/ i \in DOMAIN heap[t] \ hit
        BY <1>7, <2>6
    <2>12. ASSUME Sound(Store)
           PROVE  Sound(grown)
        <3>1. Matches(heap, index) /\ KeysHold(heap) /\ IndexUnique(heap, index) /\ Referenced(heap)
            BY <2>12, StoreFacts DEF Sound
        <3>2. Matches(emptied.heap, emptied.index)
            BY <1>1, <1>4, <1>5, <3>1, RemovedMatches, StoreFacts
        <3>3. IndexUnique(emptied.heap, emptied.index)
            BY <1>1, <3>1, RemovedUnique, StoreFacts
        <3>4. ~Clash(emptied, t, in)
            BY <1>10
        <3>5. Matches(grown.heap, grown.index)
            <4> HIDE DEF emptied
            <4> QED BY <1>1, <1>7, <2>3, <2>4, <2>7, <3>2, AddedMatches
        <3>6. IndexUnique(grown.heap, grown.index)
            <4> HIDE DEF emptied
            <4> QED BY <1>1, <1>7, <2>3, <2>4, <2>7, <3>2, <3>3, <3>4, AddedUnique
        <3>7. /\ \A i \in DOMAIN final :
                     Constrained(t, final[i], {final[j] : j \in DOMAIN final \ {i}}, rows)
              /\ \A i \in hit : Unreferenced(t, old[i], rows)
            BY <1>10
        <3>8. DOMAIN final = DOMAIN heap[t]
            OBVIOUS
        <3>9. \A i \in DOMAIN heap[t] \ hit : final[i] = heap[t][i]
            OBVIOUS
        <3>10. rows[t] = final /\ \A u \in Tables \ {t} : rows[u] = heap[u]
            BY <1>1, <1>2 DEF HeapTyped
        <3> HIDE DEF grown, emptied, final, rows
        <3>11. KeysHold(grown.heap)
            <4>1. ASSUME NEW c \in KeyConstraints, c.table = t
                  PROVE  /\ Distinct(grown.heap[t], c.columns)
                         /\ c.primary => \A i \in DOMAIN grown.heap[t] :
                                             NullFree(KeyOf(grown.heap[t][i], c.columns))
                <5>1. \A i \in DOMAIN final :
                         /\ c.primary => NullFree(KeyOf(final[i], c.columns))
                         /\ NullFree(KeyOf(final[i], c.columns)) =>
                               \A j \in DOMAIN final \ {i} :
                                   KeyOf(final[j], c.columns) # KeyOf(final[i], c.columns)
                    BY <3>7, <4>1 DEF Constrained
                <5>2. \A i \in DOMAIN grown.heap[t] : \E m \in DOMAIN final :
                          /\ grown.heap[t][i] = final[m]
                          /\ i \in DOMAIN in => m = from[i]
                          /\ i \notin DOMAIN in => m = i /\ i \notin hit
                    BY <1>4, <1>7, <2>3, <2>9, <2>10, <2>11, <3>8
                <5>3. ASSUME NEW i \in DOMAIN grown.heap[t], NEW j \in DOMAIN grown.heap[t], i # j,
                             NullFree(KeyOf(grown.heap[t][i], c.columns))
                      PROVE  KeyOf(grown.heap[t][i], c.columns) # KeyOf(grown.heap[t][j], c.columns)
                    <6>1. PICK m \in DOMAIN final :
                             /\ grown.heap[t][i] = final[m]
                             /\ i \in DOMAIN in => m = from[i]
                             /\ i \notin DOMAIN in => m = i /\ i \notin hit
                        BY <5>2
                    <6>2. PICK n \in DOMAIN final :
                             /\ grown.heap[t][j] = final[n]
                             /\ j \in DOMAIN in => n = from[j]
                             /\ j \notin DOMAIN in => n = j /\ j \notin hit
                        BY <5>2
                    <6>3. m # n
                        BY <2>5, <2>9, <5>3, <6>1, <6>2
                    <6> QED BY <5>1, <5>3, <6>1, <6>2, <6>3
                <5>4. c.primary => \A i \in DOMAIN grown.heap[t] :
                                       NullFree(KeyOf(grown.heap[t][i], c.columns))
                    BY <5>1, <5>2
                <5> QED BY <5>3, <5>4 DEF Distinct
            <4>2. ASSUME NEW c \in KeyConstraints, c.table # t
                  PROVE  grown.heap[c.table] = heap[c.table]
                BY <1>7, <2>8, <4>2, SchemaTyped
            <4> QED BY <3>1, <4>1, <4>2 DEF KeysHold
        <3>12. \A u \in Tables : Range(grown.heap[u]) = Range(rows[u])
            <4>1. \A i \in DOMAIN grown.heap[t] : \E m \in DOMAIN final : grown.heap[t][i] = final[m]
                BY <1>4, <2>9, <2>10, <2>11, <3>8
            <4>2. \A m \in DOMAIN final : \E i \in DOMAIN grown.heap[t] : grown.heap[t][i] = final[m]
                BY <2>4, <2>5, <2>6, <2>9, <2>10, <3>8
            <4>3. Range(grown.heap[t]) = Range(final)
                BY <4>1, <4>2 DEF Range
            <4> QED BY <1>7, <2>8, <3>10, <4>3
        <3>13. ASSUME NEW f \in ForeignKeys, NEW child \in Range(rows[f.table]),
                      NullFree(KeyOf(child, f.columns))
               PROVE  \E p \in Range(rows[f.parent]) :
                          KeyOf(p, f.references) = KeyOf(child, f.columns)
            <4>1. CASE f.table = t
                <5>1. PICK m \in DOMAIN final : child = final[m]
                    BY <3>10, <3>13, <4>1 DEF Range
                <5> QED BY <3>7, <3>13, <4>1, <5>1 DEF Constrained
            <4>2. CASE f.table # t
                <5>1. child \in Range(heap[f.table])
                    BY <3>10, <3>13, <4>2, SchemaTyped
                <5>2. Rewritten(t, heap, hit, rows)
                    BY <1>5, <3>7, <3>8, <3>9, <3>10 DEF Rewritten
                <5> QED BY <1>1, <3>1, <3>13, <5>1, <5>2, ParentStays
            <4> QED BY <4>1, <4>2
        <3>14. Referenced(grown.heap)
            BY <3>12, <3>13, SchemaTyped DEF Referenced
        <3> QED BY <3>5, <3>6, <3>11, <3>14 DEF Sound
    <2> HIDE DEF grown
    <2> QED BY <2>1, <2>2, <2>8, <2>12
<1> QED BY <1>8, <1>9, <1>10

LEMMA NothingOwed ==
    ASSUME NEW st
    PROVE  /\ Succeeds(st, <<>>).store = st /\ Succeeds(st, <<>>).owed \in Seq(Due)
BY DEF Succeeds

LEMMA CreateIndexLeaves ==
    ASSUME Typed(Store), NEW s \in Statement, s.op = "create index",
           NEW done, done = RunCreateIndex(s)
    PROVE  /\ Typed(done.store) /\ done.owed \in Seq(Due)
           /\ Sound(Store) /\ done.ok => Sound(done.store)
<1> DEFINE d == s.index
           rows == heap[d.table]
           grown == [e \in DOMAIN index \cup {d} |-> IF e = d THEN EntriesOf(d, rows) ELSE index[e]]
           built == [Store EXCEPT !.index = grown]
           Refused == d \in DOMAIN index \/ (d.unique /\ ~Distinct(rows, d.columns))
<1>1. d \in IndexDefs /\ d.table \in Tables
    BY StatementForms, SchemaTyped
<1>2. HeapTyped(heap) /\ IndexTyped(index)
    BY StoreFacts DEF Typed
<1>3. CASE Refused
    <2>1. done = Raises(Store)
        BY <1>3 DEF RunCreateIndex
    <2> QED BY <2>1, RaisesFacts
<1>4. CASE ~Refused
    <2>1. done = Succeeds(built, <<>>)
        BY <1>4 DEF RunCreateIndex, Store
    <2>2. (d.unique => Distinct(rows, d.columns)) /\ d \notin DOMAIN index
        BY <1>4
    <2> HIDE DEF d
    <2>3. built.heap = heap /\ built.index = grown
        BY DEF Store
    <2>4. done.store = built /\ done.owed \in Seq(Due)
        <3> HIDE DEF built
        <3> QED BY <2>1, NothingOwed
    <2> HIDE DEF built
    <2>5. EntriesOf(d, rows) \subseteq [1..Len(d.columns) -> Values] \X Rids
        BY <1>1, <1>2, EntriesTyped DEF HeapTyped
    <2>6. IndexTyped(built.index)
        BY <1>1, <1>2, <2>3, <2>5 DEF IndexTyped
    <2>7. Typed(built)
        BY <1>2, <2>3, <2>6 DEF Typed
    <2>8. ASSUME Sound(Store)
          PROVE  Sound(built)
        <3>1. Matches(heap, index) /\ KeysHold(heap) /\ IndexUnique(heap, index) /\ Referenced(heap)
            BY <2>8, StoreFacts DEF Sound
        <3>2. Matches(heap, grown)
            BY <3>1 DEF Matches
        <3>3. IndexUnique(heap, grown)
            BY <2>2, <3>1 DEF IndexUnique
        <3> QED BY <2>3, <3>1, <3>2, <3>3 DEF Sound
    <2> QED BY <2>4, <2>7, <2>8
<1> QED BY <1>3, <1>4

LEMMA DropIndexLeaves ==
    ASSUME Typed(Store), NEW s \in Statement, s.op = "drop index",
           NEW done, done = RunDropIndex(s)
    PROVE  /\ Typed(done.store) /\ done.owed \in Seq(Due)
           /\ Sound(Store) /\ done.ok => Sound(done.store)
<1> DEFINE d == s.index
           rest == Restrict(index, DOMAIN index \ {d})
           bare == [Store EXCEPT !.index = rest]
<1>1. HeapTyped(heap) /\ IndexTyped(index)
    BY StoreFacts DEF Typed
<1>2. CASE d \notin DOMAIN index
    <2>1. done = Raises(Store)
        BY <1>2 DEF RunDropIndex
    <2> QED BY <2>1, RaisesFacts
<1>3. CASE d \in DOMAIN index
    <2>1. done = Succeeds(bare, <<>>)
        BY <1>3 DEF RunDropIndex, Store
    <2> HIDE DEF d
    <2>2. bare.heap = heap /\ bare.index = rest
        BY DEF Store
    <2>3. done.store = bare /\ done.owed \in Seq(Due)
        <3> HIDE DEF bare
        <3> QED BY <2>1, NothingOwed
    <2> HIDE DEF bare
    <2>4. DOMAIN rest \subseteq DOMAIN index /\ \A e \in DOMAIN rest : rest[e] = index[e]
        BY DEF Restrict
    <2> HIDE DEF rest
    <2>5. Typed(bare)
        BY <1>1, <2>2, <2>4 DEF Typed, IndexTyped
    <2>6. ASSUME Sound(Store)
          PROVE  Sound(bare)
        <3>1. Matches(heap, index) /\ KeysHold(heap) /\ IndexUnique(heap, index) /\ Referenced(heap)
            BY <2>6, StoreFacts DEF Sound
        <3>2. Matches(heap, rest)
            BY <2>4, <3>1 DEF Matches
        <3>3. IndexUnique(heap, rest)
            BY <2>4, <3>1 DEF IndexUnique
        <3> QED BY <2>2, <3>1, <3>2, <3>3 DEF Sound
    <2> QED BY <2>3, <2>5, <2>6
<1> QED BY <1>2, <1>3

\* Whatever the statement, what it leaves is typed, and sound if it succeeds.
LEMMA RunLeaves ==
    ASSUME Typed(Store), NEW s \in Statement,
           NEW done, done = Run(s), WithinBound(done)
    PROVE  /\ Typed(done.store) /\ done.owed \in Seq(Due)
           /\ Sound(Store) /\ done.ok => Sound(done.store)
<1>1. CASE s.op = "insert"
    <2>1. done = RunInsert(s)
        BY <1>1 DEF Run
    <2> QED BY <1>1, <2>1, InsertLeaves
<1>2. CASE s.op = "update"
    <2>1. done = RunUpdate(s)
        BY <1>2 DEF Run
    <2> QED BY <1>2, <2>1, UpdateLeaves
<1>3. CASE s.op = "delete"
    <2>1. done = RunDelete(s)
        BY <1>3 DEF Run
    <2> QED BY <1>3, <2>1, DeleteLeaves
<1>4. CASE s.op = "create index"
    <2>1. done = RunCreateIndex(s)
        BY <1>4 DEF Run
    <2> QED BY <1>4, <2>1, CreateIndexLeaves
<1>5. CASE s.op = "drop index"
    <2>1. done = RunDropIndex(s)
        BY <1>5 DEF Run
    <2> QED BY <1>5, <2>1, DropIndexLeaves
<1> QED BY <1>1, <1>2, <1>3, <1>4, <1>5, StatementForms

-----------------------------------------------------------------------------
(***************************************************************************)
(* Every step keeps the invariant.                                          *)
(***************************************************************************)
LEMMA InvInit ==
    ASSUME Init
    PROVE  WriteInv
<1> USE DEF Init
<1>1. \A t \in Tables : heap[t] = <<>> /\ DOMAIN heap[t] = {} /\ Range(heap[t]) = {}
    BY DEF Range
<1>2. DOMAIN index = {}
    OBVIOUS
<1>3. HeapTyped(heap) /\ IndexTyped(index)
    BY <1>1, <1>2 DEF HeapTyped, IndexTyped
<1>4. Matches(heap, index) /\ IndexUnique(heap, index)
    BY <1>2 DEF Matches, IndexUnique
<1>5. KeysHold(heap) /\ Referenced(heap)
    BY <1>1, SchemaTyped DEF KeysHold, Distinct, Referenced
<1>6. Typed(Store) /\ Sound(Store)
    BY <1>3, <1>4, <1>5, StoreFacts DEF Typed, Sound
<1>7. StackOK
    <2>1. stack = <<>> /\ Len(stack) = 0 /\ active = {}
        OBVIOUS
    <2> QED BY <2>1 DEF StackOK
<1>8. 0 \in 0..MaxStatements
    BY SchemaAssumption
<1> QED BY <1>6, <1>7, <1>8 DEF WriteInv

LEMMA StoreNext ==
    ASSUME NEW st, heap' = st.heap, index' = st.index
    PROVE  /\ Typed(st) => Typed(Store)'
           /\ Sound(st) => Sound(Store)'
BY DEF Typed, Sound, Store

LEMMA EmptyStack ==
    ASSUME stack' = <<>>, active' = {}
    PROVE  StackOK'
<1>1. Len(stack') = 0 /\ stack' \in Seq(Frame)
    OBVIOUS
<1>2. 2..Len(stack') = {} /\ 1..Len(stack') = {}
    BY <1>1
<1> QED BY <1>1, <1>2 DEF StackOK

\* A statement that raises ends them all: what was there before the
\* transaction is there again, or is what a rollback will restore.
LEMMA FailKeeps ==
    ASSUME NEW kind \in {"auto", "explicit"}, NEW kept, NEW old, Fail(kind, kept, old),
           Typed(kept), Typed(old), Sound(old), ~failed, failed \in BOOLEAN,
           sent' \in 0..MaxStatements
    PROVE  WriteInv'
<1>1. StackOK'
    BY EmptyStack DEF Fail
<1>2. CASE kind = "auto"
    <2>1. /\ heap' = old.heap /\ index' = old.index
          /\ txn' = "none" /\ saved' = NoStore /\ failed' = failed
        BY <1>2 DEF Fail
    <2>2. Typed(Store)' /\ Sound(Store)'
        BY <2>1, StoreNext
    <2> QED BY <1>1, <2>1, <2>2 DEF WriteInv, Fail
<1>3. CASE kind = "explicit"
    <2>1. /\ heap' = kept.heap /\ index' = kept.index
          /\ txn' = "explicit" /\ saved' = old /\ failed' = TRUE
        BY <1>3 DEF Fail
    <2>2. Typed(Store)'
        BY <2>1, StoreNext
    <2>3. stack' = <<>>
        BY DEF Fail
    <2> QED BY <1>1, <2>1, <2>2, <2>3 DEF WriteInv
<1> QED BY <1>2, <1>3

\* The state a statement starts from: sound, with a sound journal.
LEMMA Underway ==
    ASSUME WriteInv, ~failed
    PROVE  /\ Typed(Store) /\ Sound(Store) /\ StackOK
           /\ sent \in 0..MaxStatements /\ failed = FALSE
           /\ txn # "none" => txn \in {"auto", "explicit"} /\ Typed(saved) /\ Sound(saved)
BY DEF WriteInv

LEMMA BeginKeeps ==
    ASSUME WriteInv, Begin
    PROVE  WriteInv'
<1>1. ~failed /\ stack = <<>>
    BY DEF WriteInv, Begin
<1>2. Typed(Store) /\ Sound(Store) /\ StackOK /\ sent \in 0..MaxStatements /\ failed = FALSE
    BY <1>1, Underway
<1>3. Typed(Store)' /\ Sound(Store)' /\ StackOK'
    BY <1>2, StoreNext, StoreFacts DEF Begin, StackOK
<1>4. Typed(saved)' /\ Sound(saved)'
    BY <1>2 DEF Begin
<1> QED BY <1>1, <1>2, <1>3, <1>4 DEF WriteInv, Begin

LEMMA SubmitKeeps ==
    ASSUME WriteInv, NEW s \in Statements, Submit(s)
    PROVE  WriteInv'
<1> DEFINE done == Run(s)
           kind == IF txn = "none" THEN "auto" ELSE txn
           old == IF txn = "none" THEN Store ELSE saved
<1>1. /\ stack = <<>> /\ ~failed /\ WithinBound(done)
      /\ \/ /\ done.ok
            /\ heap' = done.store.heap /\ index' = done.store.index
            /\ stack' = <<[trigger |-> NoTrigger, owed |-> done.owed]>>
            /\ txn' = kind /\ saved' = old
            /\ UNCHANGED <<active, failed>>
         \/ ~done.ok /\ Fail(kind, done.store, old)
    BY DEF Submit
<1>2. /\ Typed(Store) /\ Sound(Store) /\ StackOK /\ failed = FALSE
      /\ txn # "none" => txn \in {"auto", "explicit"} /\ Typed(saved) /\ Sound(saved)
    BY <1>1, Underway
<1>3. kind \in {"auto", "explicit"} /\ Typed(old) /\ Sound(old)
    BY <1>2
<1>4. sent' \in 0..MaxStatements
    <2>1. sent \in 0..MaxStatements /\ MaxStatements \in Nat
        BY SchemaAssumption DEF WriteInv
    <2> QED BY <2>1 DEF Submit
<1>5. s \in Statement
    BY StatementsAssumption
<1>6. Typed(done.store) /\ done.owed \in Seq(Due) /\ (done.ok => Sound(done.store))
    BY <1>1, <1>2, <1>5, RunLeaves
<1> HIDE DEF done, kind, old
<1>7. CASE ~done.ok
    <2>1. Fail(kind, done.store, old)
        BY <1>1, <1>7
    <2> QED BY <1>2, <1>3, <1>4, <1>6, <2>1, FailKeeps
<1>8. CASE done.ok
    <2>1. /\ heap' = done.store.heap /\ index' = done.store.index
          /\ stack' = <<[trigger |-> NoTrigger, owed |-> done.owed]>>
          /\ txn' = kind /\ saved' = old
          /\ active' = active /\ failed' = failed
        BY <1>1, <1>8
    <2>2. Typed(Store)' /\ Sound(Store)'
        BY <1>6, <1>8, <2>1, StoreNext
    <2>3. StackOK'
        <3>1. active = {stack[n].trigger : n \in 2..Len(stack)} /\ Len(stack) = 0
            BY <1>1, <1>2 DEF StackOK
        <3>2. active' = {}
            BY <2>1, <3>1
        <3>3. [trigger |-> NoTrigger, owed |-> done.owed] \in Frame
            BY <1>6 DEF Frame
        <3>4. Len(stack') = 1 /\ stack'[1].trigger = NoTrigger /\ stack' \in Seq(Frame)
            BY <2>1, <3>3
        <3> QED BY <3>2, <3>4 DEF StackOK
    <2> QED BY <1>2, <1>3, <1>4, <2>1, <2>2, <2>3 DEF WriteInv
<1> QED BY <1>7, <1>8

\* The trigger to run next has a name and, for its row event, a statement.
LEMMA NextTrigger ==
    ASSUME StackOK, stack # <<>>, Last(stack).owed # <<>>,
           NEW run, run = Head(Last(stack).owed)
    PROVE  /\ Len(stack) \in Nat \ {0} /\ stack[Len(stack)] \in Frame
           /\ OwedNext(stack[Len(stack)].owed) \in Seq(Due)
           /\ Head(run.triggers) \in TriggerNames
           /\ Action(Head(run.triggers), run.old, run.new) \in Statement
<1>1. stack \in Seq(Frame)
    BY DEF StackOK
<1>2. Len(stack) \in Nat /\ Len(stack) # 0
    BY <1>1
<1>3. stack[Len(stack)] \in Frame /\ Last(stack) = stack[Len(stack)]
    BY <1>1, <1>2 DEF Last
<1>4. Last(stack).owed \in Seq(Due)
    BY <1>3 DEF Frame
<1>5. OwedNext(stack[Len(stack)].owed) \in Seq(Due)
    BY <1>3, <1>4, OwedNextTyped
<1>6. run \in Due
    BY <1>4
<1>7. run.triggers \in Seq(TriggerNames) /\ run.triggers # <<>>
    BY <1>6 DEF Due
<1>8. Head(run.triggers) \in TriggerNames
    BY <1>7
<1>9. PICK t \in Tables, event \in Events :
         /\ run.old \in OldRows(event) /\ run.new \in NewRows(event)
         /\ \A m \in 1..Len(run.triggers) : \E n \in 1..Len(Triggers[t][event]) :
               run.triggers[m] = Triggers[t][event][n]
    BY <1>6 DEF Due
<1>10. 1 \in 1..Len(run.triggers) /\ Head(run.triggers) = run.triggers[1]
    BY <1>7
<1>11. PICK n \in 1..Len(Triggers[t][event]) : Head(run.triggers) = Triggers[t][event][n]
    BY <1>9, <1>10
<1>12. Action(Triggers[t][event][n], run.old, run.new) \in Statement
    BY <1>9, StatementsAssumption
<1> QED BY <1>2, <1>3, <1>5, <1>8, <1>11, <1>12

LEMMA Appended ==
    ASSUME NEW S, NEW s \in Seq(S), NEW e \in S
    PROVE  /\ Append(s, e) \in Seq(S) /\ Len(Append(s, e)) = Len(s) + 1
           /\ Append(s, e)[Len(s) + 1] = e
           /\ \A n \in 1..Len(s) : Append(s, e)[n] = s[n]
OBVIOUS

LEMMA FrontOf ==
    ASSUME NEW S, NEW s \in Seq(S), s # <<>>
    PROVE  /\ Front(s) \in Seq(S) /\ Len(Front(s)) = Len(s) - 1
           /\ \A n \in 1..Len(s) - 1 : Front(s)[n] = s[n]
<1>1. Len(s) \in Nat /\ Len(s) # 0
    OBVIOUS
<1>2. 1..Len(s) - 1 \subseteq 1..Len(s)
    BY <1>1
<1>3. Front(s) = [n \in 1..Len(s) - 1 |-> s[n]]
    BY <1>1 DEF Front
<1>4. \A n \in 1..Len(s) - 1 : s[n] \in S
    BY <1>1
<1>5. Len(s) - 1 \in Nat
    BY <1>1
<1> QED BY <1>3, <1>4, <1>5

\* A trigger that is not running goes on top.
LEMMA Pushed ==
    ASSUME StackOK, stack # <<>>, NEW trigger \in TriggerNames, trigger \notin active,
           NEW owed \in Seq(Due), NEW rest \in Seq(Due),
           stack' = Append([stack EXCEPT ![Len(stack)].owed = rest],
                           [trigger |-> trigger, owed |-> owed]),
           active' = active \cup {trigger}
    PROVE  StackOK' /\ stack' # <<>>
<1> DEFINE len == Len(stack)
           below == [stack EXCEPT ![len].owed = rest]
           top == [trigger |-> trigger, owed |-> owed]
<1>1. /\ stack \in Seq(Frame)
      /\ \A n \in 1..len : stack[n].trigger = NoTrigger <=> n = 1
      /\ active = {stack[n].trigger : n \in 2..len}
      /\ \A m, n \in 1..len : m # n => stack[m].trigger # stack[n].trigger
    BY DEF StackOK
<1>2. len \in Nat /\ len # 0 /\ stack[len] \in Frame
    BY <1>1
<1>3. top \in Frame /\ top.trigger = trigger
    BY DEF Frame
<1>4. /\ below \in Seq(Frame) /\ Len(below) = len
      /\ \A n \in 1..len : below[n].trigger = stack[n].trigger
    <2> DEFINE last == [stack[len] EXCEPT !.owed = rest]
    <2>1. last \in Frame /\ last.trigger = stack[len].trigger
        BY <1>2 DEF Frame
    <2>2. below = [stack EXCEPT ![len] = last]
        OBVIOUS
    <2> HIDE DEF last, below
    <2> QED BY <1>1, <1>2, <2>1, <2>2
<1>5. stack' = Append(below, top)
    OBVIOUS
<1> HIDE DEF below, top, len
<1>6. /\ stack' \in Seq(Frame) /\ Len(stack') = len + 1
      /\ stack'[len + 1] = top /\ \A n \in 1..len : stack'[n] = below[n]
    <2>1. /\ Append(below, top) \in Seq(Frame) /\ Len(Append(below, top)) = Len(below) + 1
          /\ Append(below, top)[Len(below) + 1] = top
          /\ \A n \in 1..Len(below) : Append(below, top)[n] = below[n]
        BY <1>3, <1>4, Appended
    <2> QED BY <1>4, <1>5, <2>1
<1>7. /\ stack'[len + 1].trigger = trigger
      /\ \A n \in 1..len : stack'[n].trigger = stack[n].trigger
    BY <1>3, <1>4, <1>6
<1>8. trigger # NoTrigger /\ \A n \in 1..len : stack[n].trigger # trigger
    <2>1. trigger # NoTrigger
        BY StatementsAssumption
    <2>2. \A n \in 1..len : n = 1 \/ n \in 2..len
        BY <1>2
    <2> QED BY <1>1, <2>1, <2>2
<1>9. \A n \in 1..len + 1 : n \in 1..len \/ n = len + 1
    BY <1>2
<1>10. \A n \in 1..Len(stack') : stack'[n].trigger = NoTrigger <=> n = 1
    <2>1. len + 1 # 1
        BY <1>2
    <2> QED BY <1>1, <1>6, <1>7, <1>8, <1>9, <2>1
<1>11. active' = {stack'[n].trigger : n \in 2..Len(stack')}
    <2>1. \A n \in 2..len + 1 : n \in 2..len \/ n = len + 1
        BY <1>2
    <2>2. \A n \in 2..len : n \in 1..len /\ n \in 2..len + 1
        BY <1>2
    <2>3. len + 1 \in 2..len + 1
        BY <1>2
    <2> QED BY <1>1, <1>6, <1>7, <2>1, <2>2, <2>3
<1>12. \A m, n \in 1..Len(stack') : m # n => stack'[m].trigger # stack'[n].trigger
    BY <1>1, <1>6, <1>7, <1>8, <1>9
<1>13. stack' # <<>>
    <2>1. Len(stack') # 0
        BY <1>2, <1>6
    <2>2. Len(<<>>) = 0
        OBVIOUS
    <2> QED BY <2>1, <2>2, Zenon
<1> QED BY <1>6, <1>10, <1>11, <1>12, <1>13 DEF StackOK

LEMMA FireTriggerKeeps ==
    ASSUME WriteInv, FireTrigger
    PROVE  WriteInv'
<1> DEFINE run == Head(Last(stack).owed)
           trigger == Head(run.triggers)
           done == Run(Action(trigger, run.old, run.new))
<1>1. /\ stack # <<>> /\ Last(stack).owed # <<>> /\ sent' = sent
      /\ \/ Fail(txn, Store, saved)
         \/ WithinBound(done) /\ ~done.ok /\ Fail(txn, done.store, saved)
         \/ /\ trigger \notin active /\ WithinBound(done)
            /\ done.ok
            /\ heap' = done.store.heap /\ index' = done.store.index
            /\ stack' = Append([stack EXCEPT ![Len(stack)].owed = OwedNext(@)],
                               [trigger |-> trigger, owed |-> done.owed])
            /\ active' = active \cup {trigger}
            /\ UNCHANGED <<txn, failed, saved>>
    BY DEF FireTrigger
<1>2. ~failed /\ txn # "none"
    BY <1>1 DEF WriteInv
<1>3. /\ Typed(Store) /\ Sound(Store) /\ StackOK
      /\ sent \in 0..MaxStatements /\ failed = FALSE
      /\ txn \in {"auto", "explicit"} /\ Typed(saved) /\ Sound(saved)
    BY <1>2, Underway
<1>4. /\ Len(stack) \in Nat \ {0} /\ stack[Len(stack)] \in Frame
      /\ OwedNext(stack[Len(stack)].owed) \in Seq(Due)
      /\ trigger \in TriggerNames
      /\ Action(trigger, run.old, run.new) \in Statement
    BY <1>1, <1>3, NextTrigger
<1>5. WithinBound(done) => /\ Typed(done.store) /\ done.owed \in Seq(Due)
                           /\ done.ok => Sound(done.store)
    BY <1>3, <1>4, RunLeaves
<1> HIDE DEF done, trigger, run
<1>6. CASE Fail(txn, Store, saved)
    BY <1>1, <1>2, <1>3, <1>6, FailKeeps
<1>7. CASE WithinBound(done) /\ ~done.ok /\ Fail(txn, done.store, saved)
    BY <1>1, <1>2, <1>3, <1>5, <1>7, FailKeeps
<1>8. CASE /\ trigger \notin active /\ WithinBound(done)
           /\ done.ok
           /\ heap' = done.store.heap /\ index' = done.store.index
           /\ stack' = Append([stack EXCEPT ![Len(stack)].owed = OwedNext(@)],
                              [trigger |-> trigger, owed |-> done.owed])
           /\ active' = active \cup {trigger}
           /\ UNCHANGED <<txn, failed, saved>>
    <2>1. Typed(Store)' /\ Sound(Store)'
        BY <1>5, <1>8, StoreNext
    <2>2. [stack EXCEPT ![Len(stack)].owed = OwedNext(@)]
              = [stack EXCEPT ![Len(stack)].owed = OwedNext(stack[Len(stack)].owed)]
        OBVIOUS
    <2>3. StackOK'
        BY <1>1, <1>3, <1>4, <1>5, <1>8, <2>2, Pushed
    <2> QED BY <1>1, <1>3, <1>8, <2>1, <2>3 DEF WriteInv
<1> QED BY <1>1, <1>6, <1>7, <1>8

\* The innermost statement goes, and its trigger is free to run again.
LEMMA Popped ==
    ASSUME StackOK, stack # <<>>, stack' = Front(stack),
           active' = active \ {Last(stack).trigger}
    PROVE  StackOK' /\ (stack' # <<>> => Len(stack) # 1)
<1> DEFINE len == Len(stack)
<1>1. /\ stack \in Seq(Frame)
      /\ \A n \in 1..len : stack[n].trigger = NoTrigger <=> n = 1
      /\ active = {stack[n].trigger : n \in 2..len}
      /\ \A m, n \in 1..len : m # n => stack[m].trigger # stack[n].trigger
    BY DEF StackOK
<1>2. len \in Nat /\ len # 0 /\ Last(stack) = stack[len]
    BY <1>1 DEF Last
<1>3. /\ stack' \in Seq(Frame) /\ Len(stack') = len - 1
      /\ \A n \in 1..len - 1 : stack'[n] = stack[n]
    BY <1>1, FrontOf
<1> HIDE DEF len
<1>4. \A n \in 1..len - 1 : n \in 1..len /\ n # len
    BY <1>2
<1>5. \A n \in 1..Len(stack') : stack'[n].trigger = NoTrigger <=> n = 1
    BY <1>1, <1>3, <1>4
<1>6. \A m, n \in 1..Len(stack') : m # n => stack'[m].trigger # stack'[n].trigger
    BY <1>1, <1>3, <1>4
<1>7. active' = {stack'[n].trigger : n \in 2..Len(stack')}
    <2>1. \A n \in 2..len - 1 : n \in 2..len /\ n \in 1..len - 1 /\ n \in 1..len /\ n # len
        BY <1>2
    <2>2. \A n \in 2..len : n \in 2..len - 1 \/ n = len
        BY <1>2
    <2>3. len \in 1..len
        BY <1>2
    <2>4. \A n \in 2..len - 1 : stack'[n].trigger = stack[n].trigger
                                /\ stack[n].trigger # stack[len].trigger
        BY <1>1, <1>3, <2>1, <2>3
    <2>5. active' = active \ {stack[len].trigger}
        BY <1>2
    <2>6. ASSUME NEW x
          PROVE  x \in active' <=> \E n \in 2..len - 1 : x = stack'[n].trigger
        <3>1. x \in active' <=> /\ \E n \in 2..len : x = stack[n].trigger
                               /\ x # stack[len].trigger
            BY <1>1, <2>5
        <3> QED BY <2>1, <2>2, <2>4, <3>1
    <2> QED BY <1>3, <2>6
<1>8. stack' # <<>> => len # 1
    BY <1>2, <1>3
<1> QED BY <1>3, <1>5, <1>6, <1>7, <1>8 DEF StackOK, len

LEMMA ReturnKeeps ==
    ASSUME WriteInv, Return
    PROVE  WriteInv'
<1>1. ~failed /\ txn # "none"
    BY DEF WriteInv, Return
<1>2. /\ Typed(Store) /\ Sound(Store) /\ StackOK
      /\ sent \in 0..MaxStatements /\ failed = FALSE
      /\ txn \in {"auto", "explicit"} /\ Typed(saved) /\ Sound(saved)
    BY <1>1, Underway
<1>3. StackOK' /\ (stack' # <<>> => Len(stack) # 1)
    BY <1>2, Popped DEF Return
<1>4. Typed(Store)' /\ Sound(Store)'
    BY <1>2, StoreNext, StoreFacts DEF Return
<1>5. failed' = FALSE /\ sent' = sent
    BY <1>2 DEF Return
<1>6. CASE Len(stack) = 1 /\ txn = "auto"
    <2>1. txn' = "none" /\ saved' = NoStore
        BY <1>6 DEF Return
    <2> QED BY <1>2, <1>3, <1>4, <1>5, <1>6, <2>1 DEF WriteInv
<1>7. CASE ~(Len(stack) = 1 /\ txn = "auto")
    <2>1. txn' = txn /\ saved' = saved
        BY <1>7 DEF Return
    <2> QED BY <1>2, <1>3, <1>4, <1>5, <2>1 DEF WriteInv
<1> QED BY <1>6, <1>7

LEMMA CommitKeeps ==
    ASSUME WriteInv, Commit
    PROVE  WriteInv'
<1>1. ~failed /\ stack' = <<>>
    BY DEF Commit
<1>2. Typed(Store) /\ Sound(Store) /\ StackOK /\ failed = FALSE
    BY <1>1, Underway
<1>3. Typed(Store)' /\ Sound(Store)'
    BY <1>2, StoreNext, StoreFacts DEF Commit
<1>4. StackOK'
    BY <1>2 DEF StackOK, Commit
<1>5. 0 \in 0..MaxStatements
    BY SchemaAssumption
<1> QED BY <1>1, <1>2, <1>3, <1>4, <1>5 DEF WriteInv, Commit

LEMMA RollbackKeeps ==
    ASSUME WriteInv, Rollback
    PROVE  WriteInv'
<1>1. Typed(saved) /\ Sound(saved) /\ StackOK
    BY DEF WriteInv, Rollback
<1>2. Typed(Store)' /\ Sound(Store)'
    BY <1>1, StoreNext DEF Rollback
<1>3. StackOK'
    BY <1>1 DEF StackOK, Rollback
<1>4. 0 \in 0..MaxStatements
    BY SchemaAssumption
<1> QED BY <1>1, <1>2, <1>3, <1>4 DEF WriteInv, Rollback

LEMMA StutterKeeps ==
    ASSUME WriteInv, UNCHANGED vars
    PROVE  WriteInv'
BY DEF WriteInv, vars, Store, StackOK

\* Always: the store, the journal and the statements in progress are in order.
\* Until a statement has failed, the store keeps its constraints; the journal
\* of a transaction, which a rollback brings back, always does.
THEOREM WriteAlways == Spec => []WriteInv
<1>1. ASSUME WriteInv, [Next]_vars
      PROVE  WriteInv'
    <2>1. CASE UNCHANGED vars
        BY <1>1, <2>1, StutterKeeps
    <2>2. CASE Begin
        BY <1>1, <2>2, BeginKeeps
    <2>3. CASE Commit
        BY <1>1, <2>3, CommitKeeps
    <2>4. CASE Rollback
        BY <1>1, <2>4, RollbackKeeps
    <2>5. ASSUME NEW s \in Statements, Submit(s)
          PROVE  WriteInv'
        BY <1>1, <2>5, SubmitKeeps
    <2>6. CASE FireTrigger
        BY <1>1, <2>6, FireTriggerKeeps
    <2>7. CASE Return
        BY <1>1, <2>7, ReturnKeeps
    <2> QED BY <1>1, <2>1, <2>2, <2>3, <2>4, <2>5, <2>6, <2>7 DEF Next
<1> QED BY <1>1, InvInit, PTL DEF Spec

-----------------------------------------------------------------------------
\* Every index has exactly one entry for every row of its table: what an index
\* scan finds is what a table scan finds (IndexManager and the triggers).
THEOREM IndexesFollow == Spec => []IndexesMatch
<1>1. ASSUME WriteInv
      PROVE  IndexesMatch
    <2>1. ASSUME ~failed
          PROVE  Matches(heap, index)
        BY <1>1, <2>1, Underway, StoreFacts DEF Sound
    <2> QED BY <2>1 DEF Matches, IndexesMatch
<1> QED BY <1>1, WriteAlways, PTL

\* No two rows share a key of a PRIMARY KEY, of a UNIQUE constraint or of a unique
\* index, nor has a primary key a NULL, whatever the order of an UPDATE's rows and
\* whatever the triggers wrote.
THEOREM KeysDiffer == Spec => []KeysUnique
<1>1. ASSUME WriteInv
      PROVE  KeysUnique
    <2>1. ASSUME ~failed
          PROVE  KeysHold(heap) /\ IndexUnique(heap, index)
        BY <1>1, <2>1, Underway, StoreFacts DEF Sound
    <2> QED BY <2>1 DEF KeysUnique, KeysHold, IndexUnique, Range
<1> QED BY <1>1, WriteAlways, PTL

\* Every key of a foreign key without a NULL is that of a row of the table it
\* references, be the referenced columns a primary key or a UNIQUE key.
THEOREM ParentsExist == Spec => []ReferencesHold
<1>1. ASSUME WriteInv
      PROVE  ReferencesHold
    <2>1. ASSUME ~failed
          PROVE  Referenced(heap)
        BY <1>1, <2>1, Underway, StoreFacts DEF Sound
    <2> QED BY <2>1 DEF ReferencesHold, Referenced
<1> QED BY <1>1, WriteAlways, PTL

\* The journal is there exactly while a transaction runs, triggers run only
\* inside one, and none runs inside itself, through whatever chain of others.
THEOREM TriggersNest == Spec => []NoReentry
<1>1. ASSUME NEW st, Typed(st)
      PROVE  StoreOK(st)
    BY <1>1 DEF Typed, HeapTyped, IndexTyped, StoreOK, Range
<1>2. ASSUME WriteInv
      PROVE  NoReentry
    <2>1. StoreOK(Store) /\ (txn # "none" => StoreOK(saved))
        BY <1>1, <1>2 DEF WriteInv
    <2>2. TypeOK
        BY <1>2, <2>1 DEF WriteInv, TypeOK
    <2> QED BY <1>2, <2>2 DEF WriteInv, StackOK, NoReentry
<1> QED BY <1>2, WriteAlways, PTL
=============================================================================
