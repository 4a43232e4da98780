---------------------------- MODULE Catalog_proof ----------------------------
(***************************************************************************)
(* What the system tables promise, for every set of names and every bound:  *)
(* the objects of ObjectCatalog, and the users and grants of Accounts.      *)
(***************************************************************************)
EXTENDS ObjectCatalog, Accounts, FiniteSetTheorems, FunctionTheorems, TLAPS

(***************************************************************************)
(* 1. Objects: theorems about ObjectCatalog.                                *)
(***************************************************************************)

Table == [id : 1..MaxId, columns : ColumnSets]
Trigger == [table : TableNames, writes : TableNames]
Index == [table : TableNames, column : Columns, root : 1..MaxTree]
Dependency == {"table", "view"} \X Relations

\* The rows a dictionary stands for, one operator per system table.
TableRows(ts) == {[id |-> ts[n].id, name |-> n, columns |-> ts[n].columns] : n \in DOMAIN ts}
ConstraintRows(cs) == UNION {{[table |-> n, constraint |-> k] : k \in cs[n]} : n \in DOMAIN cs}
ViewRows(vs) == {[name |-> n, reads |-> vs[n]] : n \in DOMAIN vs}
DepRows(ds) == UNION {{[view |-> n, on |-> d] : d \in ds[n]} : n \in DOMAIN ds}
TriggerRows(gs) == {[name |-> g, table |-> gs[g].table, writes |-> gs[g].writes] : g \in DOMAIN gs}

\* The dictionaries are functions on names, their entries whole, and no
\* constraint list or dependency list is empty.
Typed ==
    /\ DOMAIN tables \subseteq TableNames /\ tables \in [DOMAIN tables -> Table]
    /\ DOMAIN constraints \subseteq DOMAIN tables
    /\ constraints \in [DOMAIN constraints -> (SUBSET Constraints) \ {{}}]
    /\ DOMAIN views \subseteq ViewNames /\ views \in [DOMAIN views -> Relations]
    /\ deps \in [DOMAIN views -> (SUBSET Dependency) \ {{}}]
    /\ DOMAIN triggers \subseteq TriggerNames /\ triggers \in [DOMAIN triggers -> Trigger]
    /\ DOMAIN indexes \subseteq IndexNames /\ indexes \in [DOMAIN indexes -> Index]
    /\ trees \subseteq 1..MaxTree
    /\ nextId \in 1..MaxId + 1

\* Ids are never given twice.
IdsUnique ==
    /\ \A t \in DOMAIN tables : tables[t].id < nextId
    /\ \A s, t \in DOMAIN tables : tables[s].id = tables[t].id => s = t

\* The system tables hold exactly the rows of the dictionaries.
RowsMatch ==
    stored = [tables |-> TableRows(tables), constraints |-> ConstraintRows(constraints),
              views |-> ViewRows(views), deps |-> DepRows(deps),
              triggers |-> TriggerRows(triggers), indexes |-> IndexRows(indexes)]

\* A view depends, at least, on what it reads, and all it depends on is there.
DepsHold ==
    \A v \in DOMAIN views :
        /\ <<"table", views[v]>> \in deps[v] \/ <<"view", views[v]>> \in deps[v]
        /\ \A m \in Relations : <<"table", m>> \in deps[v] => Has(tables, m)
        /\ \A m \in Relations : <<"view", m>> \in deps[v] => Has(views, m)

CatalogInv == Typed /\ IdsUnique /\ RowsMatch /\ DepsHold /\ ObjectsResolve

-----------------------------------------------------------------------------
\* Membership in the rows of a dictionary of sets.
LEMMA ConstraintRow ==
    ASSUME NEW cs, NEW r
    PROVE  r \in ConstraintRows(cs)
              <=> \E n \in DOMAIN cs : \E k \in cs[n] : r = [table |-> n, constraint |-> k]
BY DEF ConstraintRows

LEMMA DepRow ==
    ASSUME NEW ds, NEW r
    PROVE  r \in DepRows(ds) <=> \E n \in DOMAIN ds : \E d \in ds[n] : r = [view |-> n, on |-> d]
BY DEF DepRows

(***************************************************************************)
(* Loading the rows gives the dictionaries back.                            *)
(***************************************************************************)
LoadedTables == [n \in {r.name : r \in stored.tables} |->
                    LET r == CHOOSE x \in stored.tables : x.name = n
                    IN  [id |-> r.id, columns |-> r.columns]]

LEMMA TablesLoad ==
    ASSUME Typed, RowsMatch
    PROVE  LoadedTables = tables
<1>1. stored.tables = TableRows(tables)
    BY DEF RowsMatch
<1>2. {r.name : r \in stored.tables} = DOMAIN tables
    <2>1. ASSUME NEW n \in DOMAIN tables PROVE \E r \in stored.tables : r.name = n
        <3>1. [id |-> tables[n].id, name |-> n, columns |-> tables[n].columns]
                 \in stored.tables
            BY <1>1 DEF TableRows
        <3> QED BY <3>1
    <2>2. \A r \in stored.tables : r.name \in DOMAIN tables
        BY <1>1 DEF TableRows
    <2> QED BY <2>1, <2>2
<1>3. ASSUME NEW n \in DOMAIN tables
      PROVE  LET r == CHOOSE x \in stored.tables : x.name = n
             IN  [id |-> r.id, columns |-> r.columns] = tables[n]
    <2>1. \E x \in stored.tables : x.name = n
        BY <1>2
    <2>2. \A x \in stored.tables :
              x.name = n => x.id = tables[n].id /\ x.columns = tables[n].columns
        BY <1>1 DEF TableRows
    <2>3. tables[n] = [id |-> tables[n].id, columns |-> tables[n].columns]
        BY DEF Typed, Table
    <2> QED BY <2>1, <2>2, <2>3
<1>4. LoadedTables = [n \in DOMAIN tables |-> tables[n]]
    BY <1>2, <1>3 DEF LoadedTables
<1> QED BY <1>4 DEF Typed

LEMMA ConstraintsLoad ==
    ASSUME Typed, RowsMatch,
           NEW owned, owned = {r \in stored.constraints : r.table \in DOMAIN tables}
    PROVE  [n \in {r.table : r \in owned} |->
               {r.constraint : r \in {x \in owned : x.table = n}}] = constraints
<1>1. stored.constraints = ConstraintRows(constraints)
    BY DEF RowsMatch
<1>2. \A r : r \in owned <=> \E n \in DOMAIN constraints :
                                \E k \in constraints[n] : r = [table |-> n, constraint |-> k]
    BY <1>1, ConstraintRow DEF Typed
<1>3. {r.table : r \in owned} = DOMAIN constraints
    <2>1. ASSUME NEW n \in DOMAIN constraints PROVE \E r \in owned : r.table = n
        <3>1. PICK k \in constraints[n] : TRUE
            BY DEF Typed
        <3>2. [table |-> n, constraint |-> k] \in owned
            BY <1>2
        <3> QED BY <3>2
    <2>2. \A r \in owned : r.table \in DOMAIN constraints
        BY <1>2
    <2> QED BY <2>1, <2>2
<1>4. ASSUME NEW n \in DOMAIN constraints
      PROVE  {r.constraint : r \in {x \in owned : x.table = n}} = constraints[n]
    <2>1. \A r \in owned : r.table = n => r.constraint \in constraints[n]
        BY <1>2
    <2>2. ASSUME NEW k \in constraints[n] PROVE \E r \in owned : r.table = n /\ r.constraint = k
        <3>1. [table |-> n, constraint |-> k] \in owned
            BY <1>2
        <3> QED BY <3>1
    <2> QED BY <2>1, <2>2
<1>5. constraints = [n \in DOMAIN constraints |-> constraints[n]]
    BY DEF Typed
<1> QED BY <1>3, <1>4, <1>5

LEMMA ViewsLoad ==
    ASSUME Typed, RowsMatch
    PROVE  [n \in {r.name : r \in stored.views} |->
               (CHOOSE x \in stored.views : x.name = n).reads] = views
<1>1. stored.views = ViewRows(views)
    BY DEF RowsMatch
<1>2. {r.name : r \in stored.views} = DOMAIN views
    <2>1. ASSUME NEW n \in DOMAIN views PROVE \E r \in stored.views : r.name = n
        <3>1. [name |-> n, reads |-> views[n]]
                 \in stored.views
            BY <1>1 DEF ViewRows
        <3> QED BY <3>1
    <2>2. \A r \in stored.views : r.name \in DOMAIN views
        BY <1>1 DEF ViewRows
    <2> QED BY <2>1, <2>2
<1>3. ASSUME NEW n \in DOMAIN views
      PROVE  (CHOOSE x \in stored.views : x.name = n).reads = views[n]
    <2>1. \E x \in stored.views : x.name = n
        BY <1>2
    <2>2. \A x \in stored.views : x.name = n => x.reads = views[n]
        BY <1>1 DEF ViewRows
    <2> QED BY <2>1, <2>2
<1>4. views = [n \in DOMAIN views |-> views[n]]
    BY DEF Typed
<1> QED BY <1>2, <1>3, <1>4

LEMMA DepsLoad ==
    ASSUME Typed, RowsMatch
    PROVE  [n \in {r.view : r \in stored.deps} |->
               {r.on : r \in {x \in stored.deps : x.view = n}}] = deps
<1>1. stored.deps = DepRows(deps) /\ DOMAIN deps = DOMAIN views
    BY DEF RowsMatch, Typed
<1>2. \A r : r \in stored.deps <=> \E n \in DOMAIN deps :
                                      \E d \in deps[n] : r = [view |-> n, on |-> d]
    BY <1>1, DepRow
<1>3. {r.view : r \in stored.deps} = DOMAIN deps
    <2>1. ASSUME NEW n \in DOMAIN deps PROVE \E r \in stored.deps : r.view = n
        <3>1. PICK d \in deps[n] : TRUE
            BY <1>1 DEF Typed
        <3>2. [view |-> n, on |-> d] \in stored.deps
            BY <1>2
        <3> QED BY <3>2
    <2>2. \A r \in stored.deps : r.view \in DOMAIN deps
        BY <1>2
    <2> QED BY <2>1, <2>2
<1>4. ASSUME NEW n \in DOMAIN deps
      PROVE  {r.on : r \in {x \in stored.deps : x.view = n}} = deps[n]
    <2>1. \A r \in stored.deps : r.view = n => r.on \in deps[n]
        BY <1>2
    <2>2. ASSUME NEW d \in deps[n] PROVE \E r \in stored.deps : r.view = n /\ r.on = d
        <3>1. [view |-> n, on |-> d] \in stored.deps
            BY <1>2
        <3> QED BY <3>1
    <2> QED BY <2>1, <2>2
<1>5. deps = [n \in DOMAIN deps |-> deps[n]]
    BY DEF Typed
<1> QED BY <1>3, <1>4, <1>5

LEMMA TriggersLoad ==
    ASSUME Typed, RowsMatch
    PROVE  [n \in {r.name : r \in stored.triggers} |->
               LET r == CHOOSE x \in stored.triggers : x.name = n
               IN  [table |-> r.table, writes |-> r.writes]] = triggers
<1>1. stored.triggers = TriggerRows(triggers)
    BY DEF RowsMatch
<1>2. {r.name : r \in stored.triggers} = DOMAIN triggers
    <2>1. ASSUME NEW n \in DOMAIN triggers PROVE \E r \in stored.triggers : r.name = n
        <3>1. [name |-> n, table |-> triggers[n].table, writes |-> triggers[n].writes]
                 \in stored.triggers
            BY <1>1 DEF TriggerRows
        <3> QED BY <3>1
    <2>2. \A r \in stored.triggers : r.name \in DOMAIN triggers
        BY <1>1 DEF TriggerRows
    <2> QED BY <2>1, <2>2
<1>3. ASSUME NEW n \in DOMAIN triggers
      PROVE  LET r == CHOOSE x \in stored.triggers : x.name = n
             IN  [table |-> r.table, writes |-> r.writes] = triggers[n]
    <2>1. \E x \in stored.triggers : x.name = n
        BY <1>2
    <2>2. \A x \in stored.triggers :
              x.name = n => x.table = triggers[n].table /\ x.writes = triggers[n].writes
        BY <1>1 DEF TriggerRows
    <2>3. triggers[n] = [table |-> triggers[n].table, writes |-> triggers[n].writes]
        BY DEF Typed, Trigger
    <2> QED BY <2>1, <2>2, <2>3
<1>4. triggers = [n \in DOMAIN triggers |-> triggers[n]]
    BY DEF Typed
<1> QED BY <1>2, <1>3, <1>4

LEMMA IndexesLoad ==
    ASSUME Typed, RowsMatch
    PROVE  [n \in {r.name : r \in stored.indexes} |->
               LET r == CHOOSE x \in stored.indexes : x.name = n
               IN  [table |-> r.table, column |-> r.column, root |-> r.root]] = indexes
<1>1. stored.indexes = IndexRows(indexes)
    BY DEF RowsMatch
<1>2. {r.name : r \in stored.indexes} = DOMAIN indexes
    <2>1. ASSUME NEW n \in DOMAIN indexes PROVE \E r \in stored.indexes : r.name = n
        <3>1. [name |-> n, table |-> indexes[n].table,
              column |-> indexes[n].column, root |-> indexes[n].root]
                 \in stored.indexes
            BY <1>1 DEF IndexRows
        <3> QED BY <3>1
    <2>2. \A r \in stored.indexes : r.name \in DOMAIN indexes
        BY <1>1 DEF IndexRows
    <2> QED BY <2>1, <2>2
<1>3. ASSUME NEW n \in DOMAIN indexes
      PROVE  LET r == CHOOSE x \in stored.indexes : x.name = n
             IN  [table |-> r.table, column |-> r.column, root |-> r.root] = indexes[n]
    <2>1. \E x \in stored.indexes : x.name = n
        BY <1>2
    <2>2. \A x \in stored.indexes :
              x.name = n => /\ x.table = indexes[n].table /\ x.column = indexes[n].column
                            /\ x.root = indexes[n].root
        BY <1>1 DEF IndexRows
    <2>3. indexes[n] = [table |-> indexes[n].table, column |-> indexes[n].column,
                        root |-> indexes[n].root]
        BY DEF Typed, Index
    <2> QED BY <2>1, <2>2, <2>3
<1>4. indexes = [n \in DOMAIN indexes |-> indexes[n]]
    BY DEF Typed
<1> QED BY <1>2, <1>3, <1>4

LEMMA InvReloads == CatalogInv => ReloadAgrees
<1> SUFFICES ASSUME CatalogInv PROVE ReloadAgrees
    OBVIOUS
<1> USE DEF CatalogInv
<1>1. TypeOK
    BY NamesAssumption DEF Typed, IdsUnique, TypeOK, Table, Range
<1>2. Loaded.tables = tables
    BY TablesLoad DEF Loaded, LoadedTables
<1>3. Loaded.constraints = constraints
    <2> DEFINE owned == {r \in stored.constraints : r.table \in DOMAIN tables}
    <2>1. Loaded.constraints = [n \in {r.table : r \in owned} |->
                                   {r.constraint : r \in {x \in owned : x.table = n}}]
        BY TablesLoad DEF Loaded, LoadedTables, Has
    <2> QED BY <2>1, ConstraintsLoad
<1>4. Loaded.views = views /\ Loaded.deps = deps
    BY ViewsLoad, DepsLoad DEF Loaded
<1>5. Loaded.triggers = triggers /\ Loaded.indexes = indexes
    BY TriggersLoad, IndexesLoad DEF Loaded
<1>6. Loaded = [tables |-> Loaded.tables, constraints |-> Loaded.constraints,
                views |-> Loaded.views, deps |-> Loaded.deps,
                triggers |-> Loaded.triggers, indexes |-> Loaded.indexes]
    BY DEF Loaded
<1> QED BY <1>1, <1>2, <1>3, <1>4, <1>5, <1>6 DEF ReloadAgrees

(***************************************************************************)
(* Views.                                                                   *)
(***************************************************************************)

\* What a query on a relation that is there goes through is there.
LEMMA ReadsThere ==
    ASSUME Typed, DepsHold, NEW n \in Relations, Has(tables, n) \/ Has(views, n)
    PROVE  /\ Reads(n) \subseteq Dependency
           /\ \A m \in Relations : <<"table", m>> \in Reads(n) => Has(tables, m)
           /\ \A m \in Relations : <<"view", m>> \in Reads(n) => Has(views, m)
           /\ <<IF Has(tables, n) THEN "table" ELSE "view", n>> \in Reads(n)
<1> DEFINE There == {m \in Relations : Has(tables, m) \/ Has(views, m)}
           Through == {x \in Relations : \A S \in SUBSET Relations : Expanded(n, S) => x \in S}
<1>1. Expanded(n, There)
    <2>1. ASSUME NEW m \in There, Has(views, m) PROVE views[m] \in There
        BY <2>1 DEF Typed, DepsHold, Has
    <2> QED BY <2>1 DEF Expanded
<1>2. Through \subseteq There
    BY <1>1
<1>3. n \in Through
    BY DEF Expanded
<1>4. Reads(n) = {<<IF Has(tables, m) THEN "table" ELSE IF Has(views, m) THEN "view"
                    ELSE "missing", m>> : m \in Through}
    BY DEF Reads
<1> HIDE DEF Through
<1> QED BY <1>2, <1>3, <1>4 DEF Dependency

LEMMA InvResolves == CatalogInv => ViewsResolve /\ DependenciesOwned
<1> SUFFICES ASSUME CatalogInv PROVE ViewsResolve /\ DependenciesOwned
    OBVIOUS
<1>1. ASSUME NEW v \in DOMAIN views PROVE \A d \in Reads(views[v]) : d[1] # "missing"
    <2>1. views[v] \in Relations /\ (Has(tables, views[v]) \/ Has(views, views[v]))
        BY DEF CatalogInv, Typed, DepsHold
    <2>2. Reads(views[v]) \subseteq Dependency
        BY <2>1, ReadsThere DEF CatalogInv
    <2> QED BY <2>2 DEF Dependency
<1> QED BY <1>1 DEF ViewsResolve, DependenciesOwned, CatalogInv, Typed

(***************************************************************************)
(* Entering and removing a name.                                            *)
(***************************************************************************)
LEMMA PutFacts ==
    ASSUME NEW f, NEW x, NEW v
    PROVE  /\ DOMAIN Put(f, x, v) = DOMAIN f \cup {x}
           /\ Put(f, x, v)[x] = v
           /\ \A y \in DOMAIN f \ {x} : Put(f, x, v)[y] = f[y]
           /\ \A S : f \in [DOMAIN f -> S] /\ v \in S => Put(f, x, v) \in [DOMAIN f \cup {x} -> S]
BY DEF Put

LEMMA WithoutFacts ==
    ASSUME NEW f, NEW x
    PROVE  /\ DOMAIN Without(f, x) = DOMAIN f \ {x}
           /\ \A y \in DOMAIN f \ {x} : Without(f, x)[y] = f[y]
           /\ \A S : f \in [DOMAIN f -> S] => Without(f, x) \in [DOMAIN f \ {x} -> S]
BY DEF Without, Restrict

\* What it does to the rows.
LEMMA PutRows ==
    ASSUME NEW f, NEW x, x \notin DOMAIN f, NEW v
    PROVE  /\ TableRows(Put(f, x, v))
                  = TableRows(f) \cup {[id |-> v.id, name |-> x, columns |-> v.columns]}
           /\ ConstraintRows(Put(f, x, v))
                  = ConstraintRows(f) \cup {[table |-> x, constraint |-> k] : k \in v}
           /\ ViewRows(Put(f, x, v)) = ViewRows(f) \cup {[name |-> x, reads |-> v]}
           /\ DepRows(Put(f, x, v)) = DepRows(f) \cup {[view |-> x, on |-> d] : d \in v}
           /\ TriggerRows(Put(f, x, v))
                  = TriggerRows(f) \cup {[name |-> x, table |-> v.table, writes |-> v.writes]}
<1> DEFINE g == Put(f, x, v)
<1>1. /\ DOMAIN g = DOMAIN f \cup {x} /\ g[x] = v
      /\ \A y \in DOMAIN f : g[y] = f[y]
    BY DEF Put
<1> HIDE DEF g
<1>2. TableRows(g) = TableRows(f) \cup {[id |-> v.id, name |-> x, columns |-> v.columns]}
    BY <1>1 DEF TableRows
<1>3. ConstraintRows(g) = ConstraintRows(f) \cup {[table |-> x, constraint |-> k] : k \in v}
    BY <1>1 DEF ConstraintRows
<1>4. ViewRows(g) = ViewRows(f) \cup {[name |-> x, reads |-> v]}
    BY <1>1 DEF ViewRows
<1>5. DepRows(g) = DepRows(f) \cup {[view |-> x, on |-> d] : d \in v}
    BY <1>1 DEF DepRows
<1>6. TriggerRows(g)
          = TriggerRows(f) \cup {[name |-> x, table |-> v.table, writes |-> v.writes]}
    BY <1>1 DEF TriggerRows
<1> QED BY <1>2, <1>3, <1>4, <1>5, <1>6 DEF g

LEMMA WithoutRows ==
    ASSUME NEW f, NEW x
    PROVE  /\ ViewRows(Without(f, x)) = {r \in ViewRows(f) : r.name # x}
           /\ DepRows(Without(f, x)) = {r \in DepRows(f) : r.view # x}
           /\ TriggerRows(Without(f, x)) = {r \in TriggerRows(f) : r.name # x}
           /\ IndexRows(Without(f, x)) = {r \in IndexRows(f) : r.name # x}
<1> DEFINE g == Without(f, x)
<1>1. DOMAIN g = DOMAIN f \ {x} /\ \A y \in DOMAIN g : g[y] = f[y]
    BY DEF Without, Restrict
<1> HIDE DEF g
<1>2. ViewRows(g) = {r \in ViewRows(f) : r.name # x}
    BY <1>1 DEF ViewRows
<1>3. DepRows(g) = {r \in DepRows(f) : r.view # x}
    BY <1>1 DEF DepRows
<1>4. TriggerRows(g) = {r \in TriggerRows(f) : r.name # x}
    BY <1>1 DEF TriggerRows
<1>5. IndexRows(g) = {r \in IndexRows(f) : r.name # x}
    BY <1>1 DEF IndexRows
<1> QED BY <1>2, <1>3, <1>4, <1>5 DEF g

\* Table rows are removed by id, constraint rows by table.
LEMMA TableRowsLeft ==
    ASSUME IdsUnique, NEW t \in DOMAIN tables
    PROVE  TableRows(Without(tables, t)) = {r \in TableRows(tables) : r.id # tables[t].id}
<1> DEFINE g == Without(tables, t)
<1>1. DOMAIN g = DOMAIN tables \ {t} /\ \A y \in DOMAIN g : g[y] = tables[y]
    BY DEF Without, Restrict
<1> HIDE DEF g
<1>2. TableRows(g) = {r \in TableRows(tables) : r.id # tables[t].id}
    BY <1>1 DEF TableRows, IdsUnique
<1> QED BY <1>2 DEF g

LEMMA ConstraintRowsLeft ==
    ASSUME NEW cs, NEW S
    PROVE  ConstraintRows(Restrict(cs, DOMAIN cs \ S))
              = {r \in ConstraintRows(cs) : r.table \notin S}
<1> DEFINE g == Restrict(cs, DOMAIN cs \ S)
<1>1. DOMAIN g = DOMAIN cs \ S /\ \A y \in DOMAIN g : g[y] = cs[y]
    BY DEF Restrict
<1> HIDE DEF g
<1>2. ConstraintRows(g) = {r \in ConstraintRows(cs) : r.table \notin S}
    BY <1>1 DEF ConstraintRows
<1> QED BY <1>2 DEF g

(***************************************************************************)
(* Rebuilding the indexes of a table.                                       *)
(***************************************************************************)
LEMMA InjectionExists ==
    ASSUME NEW S, NEW T, IsFiniteSet(S), IsFiniteSet(T), Cardinality(S) <= Cardinality(T)
    PROVE  \E f \in [S -> T] : \A i, j \in S : i # j => f[i] # f[j]
<1>1. /\ Cardinality(S) \in Nat /\ Cardinality(T) \in Nat
      /\ ExistsBijection(1..Cardinality(S), S) /\ ExistsBijection(1..Cardinality(T), T)
    BY FS_CardinalityType
<1>2. PICK b : b \in Bijection(S, 1..Cardinality(S))
    BY <1>1, Fun_ExistsBijSymmetric DEF ExistsBijection
<1>3. PICK d : d \in Bijection(1..Cardinality(T), T)
    BY <1>1 DEF ExistsBijection
<1>4. /\ b \in [S -> 1..Cardinality(S)] /\ \A i, j \in S : b[i] = b[j] => i = j
    BY <1>2, Fun_BijectionProperties
<1>5. /\ d \in [1..Cardinality(T) -> T]
      /\ \A i, j \in 1..Cardinality(T) : d[i] = d[j] => i = j
    BY <1>3, Fun_BijectionProperties
<1>6. 1..Cardinality(S) \subseteq 1..Cardinality(T)
    BY <1>1
<1> DEFINE f == [s \in S |-> d[b[s]]]
<1>7. f \in [S -> T] /\ \A i, j \in S : i # j => f[i] # f[j]
    BY <1>4, <1>5, <1>6
<1> QED BY <1>7

\* _rebuild_indexes gives every index that survives a tree nothing else uses.
LEMMA FreshExists ==
    ASSUME NEW kept, IsFiniteSet(kept), NEW left \in SUBSET (1..MaxTree),
           Cardinality(kept) <= MaxTree - Cardinality(left)
    PROVE  \E f \in [kept -> 1..MaxTree \ left] : \A i, j \in kept : i # j => f[i] # f[j]
<1>1. IsFiniteSet(1..MaxTree) /\ Cardinality(1..MaxTree) = MaxTree
    BY NamesAssumption, FS_Interval
<1>2. IsFiniteSet(1..MaxTree \ left)
    BY <1>1, FS_Difference
<1>3. Cardinality(1..MaxTree \ left) = MaxTree - Cardinality(left)
    <2>1. (1..MaxTree) \cap left = left
        OBVIOUS
    <2>2. Cardinality(1..MaxTree \ left)
              = Cardinality(1..MaxTree) - Cardinality((1..MaxTree) \cap left)
        BY <1>1, FS_Difference
    <2> QED BY <1>1, <2>1, <2>2
<1> QED BY <1>2, <1>3, InjectionExists

\* What is left after it: indexes of other tables as they were, those of t on
\* columns the table still has, and a tree for each alone.
LEMMA RebuildStep ==
    ASSUME Typed, ObjectsResolve, NEW t \in TableNames, NEW u \in TableNames,
           NEW columns, Rebuild(t, u, columns)
    PROVE  /\ DOMAIN indexes' \subseteq DOMAIN indexes
           /\ indexes' \in [DOMAIN indexes' -> Index]
           /\ trees' \subseteq 1..MaxTree
           /\ \A i \in DOMAIN indexes' :
                 /\ indexes'[i].column = indexes[i].column
                 /\ indexes'[i].root \in trees'
                 /\ IF indexes[i].table = t
                    THEN indexes'[i].table = u /\ indexes[i].column \in columns
                    ELSE indexes'[i].table = indexes[i].table
           /\ \A i, j \in DOMAIN indexes' : indexes'[i].root = indexes'[j].root => i = j
<1> DEFINE old == IndexesOn(t)
           kept == {i \in old : indexes[i].column \in columns}
           left == trees \ {indexes[i].root : i \in kept}
           fresh == CHOOSE f \in [kept -> 1..MaxTree \ left] :
                        \A i, j \in kept : i # j => f[i] # f[j]
<1>1. /\ Cardinality(kept) <= MaxTree - Cardinality(left)
      /\ trees' = left \cup {fresh[i] : i \in kept}
      /\ indexes' = [i \in (DOMAIN indexes \ old) \cup kept |->
                        IF i \in kept THEN [indexes[i] EXCEPT !.table = u, !.root = fresh[i]]
                        ELSE indexes[i]]
    BY DEF Rebuild
<1>2. old = {i \in DOMAIN indexes : indexes[i].table = t} /\ kept \subseteq old
    BY DEF IndexesOn
<1>3. IsFiniteSet(kept)
    <2>1. kept \subseteq IndexNames
        BY <1>2 DEF Typed
    <2> QED BY <2>1, NamesAssumption, FS_Subset
<1>4. left \in SUBSET (1..MaxTree)
    BY DEF Typed
<1>5. /\ fresh \in [kept -> 1..MaxTree \ left]
      /\ \A i, j \in kept : i # j => fresh[i] # fresh[j]
    <2> HIDE DEF kept, left
    <2>1. \E f \in [kept -> 1..MaxTree \ left] : \A i, j \in kept : i # j => f[i] # f[j]
        BY <1>1, <1>3, <1>4, FreshExists
    <2> QED BY <2>1
<1>6. ASSUME NEW i \in DOMAIN indexes \ old PROVE indexes[i].root \in left
    BY <1>2 DEF ObjectsResolve
<1>7. \A i \in kept : i \in DOMAIN indexes /\ indexes[i].table = t /\ indexes[i].column \in columns
    BY <1>2
<1> HIDE DEF old, kept, left, fresh
<1>8. /\ DOMAIN indexes' = (DOMAIN indexes \ old) \cup kept
      /\ \A i \in kept : /\ indexes'[i].table = u /\ indexes'[i].column = indexes[i].column
                         /\ indexes'[i].root = fresh[i]
                         /\ indexes'[i] \in Index
      /\ \A i \in DOMAIN indexes \ old : indexes'[i] = indexes[i]
    <2>1. ASSUME NEW i \in kept
          PROVE  /\ indexes'[i].table = u /\ indexes'[i].column = indexes[i].column
                 /\ indexes'[i].root = fresh[i]
                 /\ indexes'[i] \in Index
        <3>1. indexes'[i] = [indexes[i] EXCEPT !.table = u, !.root = fresh[i]]
            BY <1>1
        <3>2. indexes[i] \in Index /\ fresh[i] \in 1..MaxTree
            BY <1>5, <1>7 DEF Typed
        <3> QED BY <3>1, <3>2 DEF Index
    <2>2. \A i \in DOMAIN indexes \ old : indexes'[i] = indexes[i]
        BY <1>1, <1>2
    <2> QED BY <1>1, <2>1, <2>2
<1>9. DOMAIN indexes' \subseteq DOMAIN indexes /\ trees' \subseteq 1..MaxTree
    <2>1. {fresh[i] : i \in kept} \subseteq 1..MaxTree
        BY <1>5
    <2> QED BY <2>1, <1>1, <1>4, <1>7, <1>8
<1>10. indexes' \in [DOMAIN indexes' -> Index]
    <2>1. \A i \in DOMAIN indexes' : indexes'[i] \in Index
        BY <1>8 DEF Typed
    <2>2. indexes' = [i \in DOMAIN indexes' |-> indexes'[i]]
        BY <1>1
    <2> QED BY <2>1, <2>2
<1>11. ASSUME NEW i \in DOMAIN indexes'
       PROVE  /\ indexes'[i].column = indexes[i].column
              /\ indexes'[i].root \in trees'
              /\ IF indexes[i].table = t
                 THEN indexes'[i].table = u /\ indexes[i].column \in columns
                 ELSE indexes'[i].table = indexes[i].table
    <2>1. CASE i \in kept
        <3>1. fresh[i] \in trees'
            BY <2>1, <1>1
        <3> QED BY <2>1, <3>1, <1>7, <1>8
    <2>2. CASE i \in DOMAIN indexes \ old
        BY <2>2, <1>1, <1>2, <1>6, <1>8
    <2> QED BY <2>1, <2>2, <1>8
<1>12. ASSUME NEW i \in DOMAIN indexes', NEW j \in DOMAIN indexes',
              indexes'[i].root = indexes'[j].root
       PROVE  i = j
    <2>1. CASE i \in kept /\ j \in kept
        BY <2>1, <1>12, <1>5, <1>8
    <2>2. CASE i \in DOMAIN indexes \ old /\ j \in DOMAIN indexes \ old
        BY <2>2, <1>12, <1>8 DEF ObjectsResolve
    <2>3. ASSUME NEW k \in kept, NEW l \in DOMAIN indexes \ old
          PROVE  indexes'[k].root # indexes'[l].root
        BY <1>5, <1>6, <1>8
    <2> QED BY <2>1, <2>2, <2>3, <1>8, <1>12
<1> QED BY <1>9, <1>10, <1>11, <1>12

(***************************************************************************)
(* ALTER TABLE.                                                             *)
(***************************************************************************)
LEMMA AlterStep ==
    ASSUME CatalogInv, NEW t \in DOMAIN tables, NEW u \in TableNames,
           u = t \/ u \notin DOMAIN tables,
           NEW columns \in SUBSET Columns, NEW cs \in SUBSET Constraints,
           Alter(t, u, columns, cs)
    PROVE  CatalogInv'
<1> DEFINE row == [tables[t] EXCEPT !.columns = columns]
           others == Restrict(constraints, DOMAIN constraints \ {t, u})
<1>1. /\ Dependents("table", t) = {}
      /\ columns \in ColumnSets /\ \A k \in cs : k.column \in columns
      /\ tables' = Put(Without(tables, t), u, row)
      /\ constraints' = IF cs = {} THEN others ELSE Put(others, u, cs)
      /\ Rebuild(t, u, columns)
      /\ UNCHANGED <<views, deps, triggers, nextId>>
    BY DEF Alter, SchemaOK, Save, ColumnSets
<1>2. stored' = [stored EXCEPT
          !.tables = {r \in @ : r.id # tables[t].id}
                        \cup {[id |-> tables[t].id, name |-> u, columns |-> columns]},
          !.constraints = {r \in @ : r.table \notin {t, u}}
                             \cup {[table |-> u, constraint |-> k] : k \in cs},
          !.indexes = IndexRows(indexes')]
    BY DEF Alter
<1>3. Typed /\ IdsUnique /\ RowsMatch /\ DepsHold /\ ObjectsResolve
    BY DEF CatalogInv
<1>4. row \in Table /\ row.id = tables[t].id /\ row.columns = columns
    <2>1. tables[t] \in Table
        BY <1>3 DEF Typed
    <2> QED BY <2>1, <1>1 DEF Table
<1> HIDE DEF row
<1>5. /\ DOMAIN tables' = (DOMAIN tables \ {t}) \cup {u}
      /\ tables'[u] = row
      /\ \A n \in DOMAIN tables \ {t} : n # u /\ tables'[n] = tables[n]
      /\ tables' \in [DOMAIN tables' -> Table]
    BY <1>1, <1>3, <1>4 DEF Put, Without, Restrict, Typed
<1>6. /\ DOMAIN others = DOMAIN constraints \ {t, u}
      /\ \A n \in DOMAIN others : others[n] = constraints[n]
      /\ others \in [DOMAIN others -> (SUBSET Constraints) \ {{}}]
    BY <1>3 DEF Restrict, Typed
<1> HIDE DEF others
<1>7. /\ DOMAIN constraints' \subseteq DOMAIN others \cup {u}
      /\ \A n \in DOMAIN constraints' :
            IF n = u THEN constraints'[n] = cs ELSE constraints'[n] = constraints[n]
      /\ constraints' \in [DOMAIN constraints' -> (SUBSET Constraints) \ {{}}]
    <2>1. CASE cs = {}
        BY <2>1, <1>1, <1>6
    <2>2. CASE cs # {}
        <3>1. constraints' = Put(others, u, cs)
            BY <2>2, <1>1
        <3> QED BY <3>1, <2>2, <1>6 DEF Put
    <2> QED BY <2>1, <2>2
<1>8. /\ DOMAIN indexes' \subseteq DOMAIN indexes
      /\ indexes' \in [DOMAIN indexes' -> Index]
      /\ trees' \subseteq 1..MaxTree
      /\ \A i \in DOMAIN indexes' :
            /\ indexes'[i].column = indexes[i].column
            /\ indexes'[i].root \in trees'
            /\ IF indexes[i].table = t
               THEN indexes'[i].table = u /\ indexes[i].column \in columns
               ELSE indexes'[i].table = indexes[i].table
      /\ \A i, j \in DOMAIN indexes' : indexes'[i].root = indexes'[j].root => i = j
    <2>1. t \in TableNames
        BY <1>3 DEF Typed
    <2> QED BY <2>1, <1>1, <1>3, RebuildStep
<1>9. Typed'
    BY <1>1, <1>3, <1>5, <1>6, <1>7, <1>8 DEF Typed
<1>10. IdsUnique'
    BY <1>1, <1>3, <1>4, <1>5 DEF IdsUnique
<1>11. RowsMatch'
    <2>1. TableRows(tables') = {r \in TableRows(tables) : r.id # tables[t].id}
                                  \cup {[id |-> tables[t].id, name |-> u, columns |-> columns]}
        <3>1. u \notin DOMAIN Without(tables, t)
            BY DEF Without, Restrict
        <3>2. TableRows(tables')
                  = TableRows(Without(tables, t))
                       \cup {[id |-> row.id, name |-> u, columns |-> row.columns]}
            BY <3>1, <1>1, PutRows
        <3> QED BY <3>2, <1>3, <1>4, TableRowsLeft
    <2>2. ConstraintRows(others) = {r \in ConstraintRows(constraints) : r.table \notin {t, u}}
        BY ConstraintRowsLeft DEF others
    <2>3. ConstraintRows(constraints')
              = ConstraintRows(others) \cup {[table |-> u, constraint |-> k] : k \in cs}
        <3>1. CASE cs = {}
            BY <3>1, <1>1
        <3>2. CASE cs # {}
            <4>1. constraints' = Put(others, u, cs) /\ u \notin DOMAIN others
                BY <3>2, <1>1, <1>6
            <4> QED BY <4>1, PutRows
        <3> QED BY <3>1, <3>2
    <2> QED BY <2>1, <2>2, <2>3, <1>1, <1>2, <1>3 DEF RowsMatch
<1>12. DepsHold'
    <2>1. ASSUME NEW v \in DOMAIN views, NEW m \in Relations, <<"table", m>> \in deps[v]
          PROVE  m \in DOMAIN tables'
        <3>1. m \in DOMAIN tables /\ v \in DOMAIN deps
            BY <2>1, <1>3 DEF DepsHold, Has, Typed
        <3>2. m # t
            BY <2>1, <3>1, <1>1 DEF Dependents
        <3> QED BY <3>1, <3>2, <1>5
    <2> QED BY <2>1, <1>1, <1>3 DEF DepsHold, Has
<1>13. ObjectsResolve'
    <2>1. ASSUME NEW i \in DOMAIN indexes'
          PROVE  /\ indexes'[i].table \in DOMAIN tables'
                 /\ indexes'[i].column \in tables'[indexes'[i].table].columns
                 /\ indexes'[i].root \in trees'
        <3>1. CASE indexes[i].table = t
            BY <3>1, <1>4, <1>5, <1>8
        <3>2. CASE indexes[i].table # t
            <4>1. /\ indexes[i].table \in DOMAIN tables \ {t}
                  /\ indexes[i].column \in tables[indexes[i].table].columns
                BY <3>2, <1>3, <1>8 DEF ObjectsResolve, Has
            <4> QED BY <3>2, <4>1, <1>5, <1>8
        <3> QED BY <3>1, <3>2
    <2>2. ASSUME NEW n \in DOMAIN constraints'
          PROVE  n \in DOMAIN tables' /\ \A k \in constraints'[n] : k.column \in tables'[n].columns
        <3>1. CASE n = u
            BY <3>1, <1>1, <1>4, <1>5, <1>7
        <3>2. CASE n # u
            <4>1. n \in DOMAIN constraints /\ n # t /\ constraints'[n] = constraints[n]
                BY <3>2, <1>6, <1>7
            <4>2. n \in DOMAIN tables /\ \A k \in constraints[n] : k.column \in tables[n].columns
                BY <4>1, <1>3 DEF ObjectsResolve, Has
            <4> QED BY <4>1, <4>2, <1>5
        <3> QED BY <3>1, <3>2
    <2> QED BY <2>1, <2>2, <1>8 DEF ObjectsResolve, Has
<1> QED BY <1>9, <1>10, <1>11, <1>12, <1>13 DEF CatalogInv

(***************************************************************************)
(* The other statements.                                                    *)
(***************************************************************************)

\* What entering a new table leaves of the other names, and of its rows.
LEMMA Registered ==
    ASSUME Typed, IdsUnique, NEW t \in TableNames, ~Has(tables, t),
           NEW columns \in ColumnSets, Register(t, columns)
    PROVE  /\ DOMAIN tables' = DOMAIN tables \cup {t}
           /\ tables' \in [DOMAIN tables' -> Table]
           /\ tables'[t].columns = columns
           /\ \A n \in DOMAIN tables : n # t /\ tables'[n] = tables[n]
           /\ nextId' \in 1..MaxId + 1
           /\ IdsUnique'
           /\ TableRows(tables')
                 = TableRows(tables) \cup {[id |-> nextId, name |-> t, columns |-> columns]}
<1> DEFINE row == [id |-> nextId, columns |-> columns]
<1>1. /\ nextId \in 1..MaxId /\ nextId' = nextId + 1
      /\ tables' = Put(tables, t, row)
      /\ t \notin DOMAIN tables
    BY NamesAssumption DEF Register, Has, Typed
<1>2. row \in Table /\ row.id = nextId /\ row.columns = columns
    BY <1>1 DEF Table
<1> HIDE DEF row
<1>3. /\ DOMAIN tables' = DOMAIN tables \cup {t}
      /\ tables'[t] = row
      /\ \A n \in DOMAIN tables : n # t /\ tables'[n] = tables[n]
      /\ tables' \in [DOMAIN tables' -> Table]
    BY <1>1, <1>2 DEF Put, Typed
<1>4. \A n \in DOMAIN tables : tables[n].id \in Nat
    BY DEF Typed, Table
<1>5. IdsUnique'
    <2>1. \A n \in DOMAIN tables : tables[n].id < nextId /\ tables[n].id < nextId'
        BY <1>1, <1>4 DEF IdsUnique
    <2> QED BY <2>1, <1>1, <1>2, <1>3 DEF IdsUnique
<1>6. TableRows(tables') = TableRows(tables) \cup {[id |-> nextId, name |-> t, columns |-> columns]}
    BY <1>1, <1>2, PutRows
<1>7. nextId' \in 1..MaxId + 1
    BY <1>1, NamesAssumption
<1> QED BY <1>2, <1>3, <1>5, <1>6, <1>7

LEMMA PlainTableStep ==
    ASSUME CatalogInv, NEW t \in TableNames, NEW columns \in ColumnSets,
           CreatePlainTable(t, columns)
    PROVE  CatalogInv'
<1>1. Typed /\ IdsUnique /\ RowsMatch /\ DepsHold /\ ObjectsResolve
    BY DEF CatalogInv
<1>2. /\ UNCHANGED <<constraints, views, deps, triggers, indexes, trees>>
      /\ stored' = [stored EXCEPT
            !.tables = @ \cup {[id |-> nextId, name |-> t, columns |-> columns]}]
    BY DEF CreatePlainTable, objects
<1>3. /\ DOMAIN tables' = DOMAIN tables \cup {t}
      /\ tables' \in [DOMAIN tables' -> Table]
      /\ \A n \in DOMAIN tables : n # t /\ tables'[n] = tables[n]
      /\ nextId' \in 1..MaxId + 1
      /\ IdsUnique'
      /\ TableRows(tables')
            = TableRows(tables) \cup {[id |-> nextId, name |-> t, columns |-> columns]}
    BY <1>1, Registered DEF CreatePlainTable
<1>4. Typed'
    BY <1>1, <1>2, <1>3 DEF Typed
<1>5. RowsMatch'
    BY <1>1, <1>2, <1>3 DEF RowsMatch
<1>6. DepsHold'
    BY <1>1, <1>2, <1>3 DEF DepsHold, Has
<1>7. ObjectsResolve'
    BY <1>1, <1>2, <1>3 DEF ObjectsResolve, Has, Typed
<1> QED BY <1>3, <1>4, <1>5, <1>6, <1>7 DEF CatalogInv

LEMMA TableStep ==
    ASSUME CatalogInv, NEW t \in TableNames, NEW columns \in ColumnSets,
           NEW cs \in SUBSET Constraints, CreateTable(t, columns, cs)
    PROVE  CatalogInv'
<1>1. Typed /\ IdsUnique /\ RowsMatch /\ DepsHold /\ ObjectsResolve
    BY DEF CatalogInv
<1>2. /\ cs # {} /\ t \notin DOMAIN tables
      /\ \A k \in cs : k.column \in columns
      /\ constraints' = Put(constraints, t, cs)
      /\ UNCHANGED <<views, deps, triggers, indexes, trees>>
      /\ stored' = [stored EXCEPT
            !.tables = @ \cup {[id |-> nextId, name |-> t, columns |-> columns]},
            !.constraints = @ \cup {[table |-> t, constraint |-> k] : k \in cs}]
    BY DEF CreateTable, Has, SchemaOK
<1>3. /\ DOMAIN tables' = DOMAIN tables \cup {t}
      /\ tables' \in [DOMAIN tables' -> Table]
      /\ tables'[t].columns = columns
      /\ \A n \in DOMAIN tables : n # t /\ tables'[n] = tables[n]
      /\ nextId' \in 1..MaxId + 1
      /\ IdsUnique'
      /\ TableRows(tables')
            = TableRows(tables) \cup {[id |-> nextId, name |-> t, columns |-> columns]}
    BY <1>1, Registered DEF CreateTable
<1>4. t \notin DOMAIN constraints
    BY <1>1, <1>2 DEF Typed
<1>5. /\ DOMAIN constraints' = DOMAIN constraints \cup {t}
      /\ constraints'[t] = cs
      /\ \A n \in DOMAIN constraints : n # t /\ constraints'[n] = constraints[n]
      /\ constraints' \in [DOMAIN constraints' -> (SUBSET Constraints) \ {{}}]
    BY <1>1, <1>2, <1>4 DEF Put, Typed
<1>6. ConstraintRows(constraints')
          = ConstraintRows(constraints) \cup {[table |-> t, constraint |-> k] : k \in cs}
    BY <1>2, <1>4, PutRows
<1>7. Typed'
    BY <1>1, <1>2, <1>3, <1>5 DEF Typed
<1>8. RowsMatch'
    BY <1>1, <1>2, <1>3, <1>6 DEF RowsMatch
<1>9. DepsHold'
    BY <1>1, <1>2, <1>3 DEF DepsHold, Has
<1>10. ObjectsResolve'
    BY <1>1, <1>2, <1>3, <1>5 DEF ObjectsResolve, Has, Typed
<1> QED BY <1>3, <1>7, <1>8, <1>9, <1>10 DEF CatalogInv

LEMMA DropTableStep ==
    ASSUME CatalogInv, NEW t \in TableNames, DropTable(t)
    PROVE  CatalogInv'
<1>1. Typed /\ IdsUnique /\ RowsMatch /\ DepsHold /\ ObjectsResolve
    BY DEF CatalogInv
<1>2. /\ t \in DOMAIN tables
      /\ ConstraintsOf(t) = {} /\ IndexesOn(t) = {} /\ Dependents("table", t) = {}
      /\ tables' = Without(tables, t)
      /\ stored' = [stored EXCEPT !.tables = {r \in @ : r.id # tables[t].id}]
      /\ UNCHANGED <<constraints, views, deps, triggers, indexes, trees, nextId>>
    BY DEF DropTable, Has, objects
<1>3. /\ DOMAIN tables' = DOMAIN tables \ {t}
      /\ \A n \in DOMAIN tables' : tables'[n] = tables[n]
      /\ tables' \in [DOMAIN tables' -> Table]
    BY <1>1, <1>2 DEF Without, Restrict, Typed
<1>4. t \notin DOMAIN constraints
    BY <1>1, <1>2 DEF ConstraintsOf, Has, Typed
<1>5. Typed'
    BY <1>1, <1>2, <1>3, <1>4 DEF Typed
<1>6. IdsUnique'
    BY <1>1, <1>2, <1>3 DEF IdsUnique
<1>7. RowsMatch'
    <2>1. TableRows(tables') = {r \in TableRows(tables) : r.id # tables[t].id}
        BY <1>1, <1>2, TableRowsLeft
    <2> QED BY <2>1, <1>1, <1>2 DEF RowsMatch
<1>8. DepsHold'
    <2>1. ASSUME NEW v \in DOMAIN views, NEW m \in Relations, <<"table", m>> \in deps[v]
          PROVE  m \in DOMAIN tables'
        <3>1. m \in DOMAIN tables /\ v \in DOMAIN deps
            BY <2>1, <1>1 DEF DepsHold, Has, Typed
        <3>2. m # t
            BY <2>1, <3>1, <1>2 DEF Dependents
        <3> QED BY <3>1, <3>2, <1>3
    <2> QED BY <2>1, <1>1, <1>2 DEF DepsHold, Has
<1>9. ObjectsResolve'
    <2>1. \A i \in DOMAIN indexes : indexes[i].table # t
        BY <1>2 DEF IndexesOn
    <2> QED BY <2>1, <1>1, <1>2, <1>3, <1>4 DEF ObjectsResolve, Has
<1> QED BY <1>5, <1>6, <1>7, <1>8, <1>9 DEF CatalogInv

LEMMA CreateViewStep ==
    ASSUME CatalogInv, NEW v \in ViewNames, NEW n \in Relations, CreateView(v, n)
    PROVE  CatalogInv'
<1>1. Typed /\ IdsUnique /\ RowsMatch /\ DepsHold /\ ObjectsResolve
    BY DEF CatalogInv
<1>2. /\ v \notin DOMAIN tables /\ v \notin DOMAIN views /\ v \notin DOMAIN deps
      /\ views' = Put(views, v, n)
      /\ deps' = Put(deps, v, Reads(n))
      /\ stored' = [stored EXCEPT !.views = @ \cup {[name |-> v, reads |-> n]},
                                  !.deps = @ \cup {[view |-> v, on |-> d] : d \in Reads(n)}]
      /\ UNCHANGED <<tables, constraints, triggers, indexes, trees, nextId>>
    BY <1>1 DEF CreateView, Has, Typed
<1>3. /\ Reads(n) \subseteq Dependency /\ Reads(n) # {}
      /\ \A m \in Relations : <<"table", m>> \in Reads(n) => m \in DOMAIN tables
      /\ \A m \in Relations : <<"view", m>> \in Reads(n) => m \in DOMAIN views
      /\ <<"table", n>> \in Reads(n) \/ <<"view", n>> \in Reads(n)
    <2>1. Has(tables, n) \/ Has(views, n)
        BY DEF CreateView
    <2>2. /\ Reads(n) \subseteq Dependency
          /\ \A m \in Relations : <<"table", m>> \in Reads(n) => Has(tables, m)
          /\ \A m \in Relations : <<"view", m>> \in Reads(n) => Has(views, m)
          /\ <<IF Has(tables, n) THEN "table" ELSE "view", n>> \in Reads(n)
        BY <2>1, <1>1, ReadsThere
    <2> QED BY <2>2 DEF Has
<1>4. /\ DOMAIN views' = DOMAIN views \cup {v} /\ views'[v] = n
      /\ \A m \in DOMAIN views : m # v /\ views'[m] = views[m]
      /\ views' \in [DOMAIN views' -> Relations]
    BY <1>1, <1>2 DEF Put, Typed
<1>5. /\ DOMAIN deps' = DOMAIN views' /\ deps'[v] = Reads(n)
      /\ \A m \in DOMAIN views : deps'[m] = deps[m]
      /\ deps' \in [DOMAIN views' -> (SUBSET Dependency) \ {{}}]
    BY <1>1, <1>2, <1>3, <1>4 DEF Put, Typed
<1>6. Typed'
    BY <1>1, <1>2, <1>4, <1>5 DEF Typed
<1>7. IdsUnique'
    BY <1>1, <1>2 DEF IdsUnique
<1>8. RowsMatch'
    <2>1. /\ ViewRows(views') = ViewRows(views) \cup {[name |-> v, reads |-> n]}
          /\ DepRows(deps') = DepRows(deps) \cup {[view |-> v, on |-> d] : d \in Reads(n)}
        BY <1>2, PutRows
    <2> QED BY <2>1, <1>1, <1>2 DEF RowsMatch
<1>9. DepsHold'
    BY <1>1, <1>2, <1>3, <1>4, <1>5 DEF DepsHold, Has
<1>10. ObjectsResolve'
    BY <1>1, <1>2 DEF ObjectsResolve, Has
<1> QED BY <1>6, <1>7, <1>8, <1>9, <1>10 DEF CatalogInv

LEMMA DropViewStep ==
    ASSUME CatalogInv, NEW v \in ViewNames, DropView(v)
    PROVE  CatalogInv'
<1>1. Typed /\ IdsUnique /\ RowsMatch /\ DepsHold /\ ObjectsResolve
    BY DEF CatalogInv
<1>2. /\ Dependents("view", v) = {}
      /\ views' = Without(views, v) /\ deps' = Without(deps, v)
      /\ stored' = [stored EXCEPT !.views = {r \in @ : r.name # v},
                                  !.deps = {r \in @ : r.view # v}]
      /\ UNCHANGED <<tables, constraints, triggers, indexes, trees, nextId>>
    BY DEF DropView
<1>3. /\ DOMAIN views' = DOMAIN views \ {v}
      /\ \A m \in DOMAIN views' : views'[m] = views[m] /\ deps'[m] = deps[m]
      /\ views' \in [DOMAIN views' -> Relations]
      /\ deps' \in [DOMAIN views' -> (SUBSET Dependency) \ {{}}]
    BY <1>1, <1>2 DEF Without, Restrict, Typed
<1>4. Typed'
    BY <1>1, <1>2, <1>3 DEF Typed
<1>5. IdsUnique'
    BY <1>1, <1>2 DEF IdsUnique
<1>6. RowsMatch'
    <2>1. /\ ViewRows(views') = {r \in ViewRows(views) : r.name # v}
          /\ DepRows(deps') = {r \in DepRows(deps) : r.view # v}
        BY <1>2, WithoutRows
    <2> QED BY <2>1, <1>1, <1>2 DEF RowsMatch
<1>7. DepsHold'
    <2>1. ASSUME NEW w \in DOMAIN views, NEW m \in Relations, <<"view", m>> \in deps[w]
          PROVE  m \in DOMAIN views'
        <3>1. m \in DOMAIN views /\ w \in DOMAIN deps
            BY <2>1, <1>1 DEF DepsHold, Has, Typed
        <3>2. m # v
            BY <2>1, <3>1, <1>2 DEF Dependents
        <3> QED BY <3>1, <3>2, <1>3
    <2> QED BY <2>1, <1>1, <1>2, <1>3 DEF DepsHold, Has
<1>8. ObjectsResolve'
    BY <1>1, <1>2 DEF ObjectsResolve, Has
<1> QED BY <1>4, <1>5, <1>6, <1>7, <1>8 DEF CatalogInv

LEMMA TriggersStep ==
    ASSUME CatalogInv,
           DOMAIN triggers' \subseteq TriggerNames, triggers' \in [DOMAIN triggers' -> Trigger],
           stored' = [stored EXCEPT !.triggers = TriggerRows(triggers')],
           UNCHANGED <<tables, constraints, views, deps, indexes, trees, nextId>>
    PROVE  CatalogInv'
<1>1. Typed /\ IdsUnique /\ RowsMatch /\ DepsHold /\ ObjectsResolve
    BY DEF CatalogInv
<1>2. Typed'
    BY <1>1 DEF Typed
<1>3. IdsUnique' /\ DepsHold' /\ ObjectsResolve'
    BY <1>1 DEF IdsUnique, DepsHold, ObjectsResolve, Has
<1>4. RowsMatch'
    BY <1>1 DEF RowsMatch
<1> QED BY <1>2, <1>3, <1>4 DEF CatalogInv

LEMMA CreateTriggerStep ==
    ASSUME CatalogInv, NEW g \in TriggerNames, NEW t \in TableNames, NEW w \in TableNames,
           CreateTrigger(g, t, w)
    PROVE  CatalogInv'
<1>1. /\ triggers' = Put(triggers, g, [table |-> t, writes |-> w])
      /\ g \notin DOMAIN triggers
      /\ stored' = [stored EXCEPT
            !.triggers = @ \cup {[name |-> g, table |-> t, writes |-> w]}]
      /\ UNCHANGED <<tables, constraints, views, deps, indexes, trees, nextId>>
    BY DEF CreateTrigger, Has
<1>2. DOMAIN triggers' = DOMAIN triggers \cup {g} /\ triggers' \in [DOMAIN triggers' -> Trigger]
    BY <1>1 DEF Put, CatalogInv, Typed, Trigger
<1>3. TriggerRows(triggers') = TriggerRows(triggers) \cup {[name |-> g, table |-> t, writes |-> w]}
    BY <1>1, PutRows
<1>4. stored' = [stored EXCEPT !.triggers = TriggerRows(triggers')]
    BY <1>1, <1>3 DEF CatalogInv, RowsMatch
<1> QED BY <1>1, <1>2, <1>4, TriggersStep DEF CatalogInv, Typed

LEMMA DropTriggerStep ==
    ASSUME CatalogInv, NEW g \in TriggerNames, DropTrigger(g)
    PROVE  CatalogInv'
<1>1. /\ triggers' = Without(triggers, g)
      /\ stored' = [stored EXCEPT !.triggers = {r \in @ : r.name # g}]
      /\ UNCHANGED <<tables, constraints, views, deps, indexes, trees, nextId>>
    BY DEF DropTrigger
<1>2. DOMAIN triggers' = DOMAIN triggers \ {g} /\ triggers' \in [DOMAIN triggers' -> Trigger]
    BY <1>1 DEF Without, Restrict, CatalogInv, Typed
<1>3. TriggerRows(triggers') = {r \in TriggerRows(triggers) : r.name # g}
    BY <1>1, WithoutRows
<1>4. stored' = [stored EXCEPT !.triggers = TriggerRows(triggers')]
    BY <1>1, <1>3 DEF CatalogInv, RowsMatch
<1> QED BY <1>1, <1>2, <1>4, TriggersStep DEF CatalogInv, Typed

LEMMA CreateIndexStep ==
    ASSUME CatalogInv, NEW i \in IndexNames, NEW t \in TableNames, NEW c \in Columns,
           CreateIndex(i, t, c)
    PROVE  CatalogInv'
<1>1. Typed /\ IdsUnique /\ RowsMatch /\ DepsHold /\ ObjectsResolve
    BY DEF CatalogInv
<1>2. PICK root \in 1..MaxTree \ trees :
          /\ trees' = trees \cup {root}
          /\ indexes' = Put(indexes, i, [table |-> t, column |-> c, root |-> root])
    BY DEF CreateIndex
<1>3. /\ i \notin DOMAIN indexes
      /\ t \in DOMAIN tables /\ c \in tables[t].columns
      /\ stored' = [stored EXCEPT !.indexes = IndexRows(indexes')]
      /\ UNCHANGED <<tables, constraints, views, deps, triggers, nextId>>
    BY DEF CreateIndex, Has
<1>4. /\ DOMAIN indexes' = DOMAIN indexes \cup {i}
      /\ indexes'[i] = [table |-> t, column |-> c, root |-> root]
      /\ \A j \in DOMAIN indexes : j # i /\ indexes'[j] = indexes[j]
      /\ indexes' \in [DOMAIN indexes' -> Index]
    BY <1>1, <1>2, <1>3 DEF Put, Typed, Index
<1>5. Typed'
    BY <1>1, <1>2, <1>3, <1>4 DEF Typed
<1>6. IdsUnique' /\ DepsHold'
    BY <1>1, <1>3 DEF IdsUnique, DepsHold, Has
<1>7. RowsMatch'
    BY <1>1, <1>3 DEF RowsMatch
<1>8. ObjectsResolve'
    BY <1>1, <1>2, <1>3, <1>4 DEF ObjectsResolve, Has
<1> QED BY <1>5, <1>6, <1>7, <1>8 DEF CatalogInv

LEMMA DropIndexStep ==
    ASSUME CatalogInv, NEW i \in IndexNames, DropIndex(i)
    PROVE  CatalogInv'
<1>1. Typed /\ IdsUnique /\ RowsMatch /\ DepsHold /\ ObjectsResolve
    BY DEF CatalogInv
<1>2. /\ i \in DOMAIN indexes
      /\ trees' = trees \/ trees' = trees \ {indexes[i].root}
      /\ indexes' = Without(indexes, i)
      /\ stored' = [stored EXCEPT !.indexes = {r \in @ : r.name # i}]
      /\ UNCHANGED <<tables, constraints, views, deps, triggers, nextId>>
    BY DEF DropIndex, Has
<1>3. /\ DOMAIN indexes' = DOMAIN indexes \ {i}
      /\ \A j \in DOMAIN indexes' : indexes'[j] = indexes[j]
      /\ indexes' \in [DOMAIN indexes' -> Index]
    BY <1>1, <1>2 DEF Without, Restrict, Typed
<1>4. Typed'
    BY <1>1, <1>2, <1>3 DEF Typed
<1>5. IdsUnique' /\ DepsHold'
    BY <1>1, <1>2 DEF IdsUnique, DepsHold, Has
<1>6. RowsMatch'
    <2>1. IndexRows(indexes') = {r \in IndexRows(indexes) : r.name # i}
        BY <1>2, WithoutRows
    <2> QED BY <2>1, <1>1, <1>2 DEF RowsMatch
<1>7. ObjectsResolve'
    BY <1>1, <1>2, <1>3 DEF ObjectsResolve, Has
<1> QED BY <1>4, <1>5, <1>6, <1>7 DEF CatalogInv

LEMMA AlterActions ==
    ASSUME CatalogInv, NEW t \in TableNames,
           \/ \E c \in Columns : AddColumn(t, c) \/ DropColumn(t, c)
           \/ \E c, d \in Columns : RenameColumn(t, c, d)
           \/ \E k \in Constraints : AddConstraint(t, k) \/ DropConstraint(t, k)
           \/ \E u \in TableNames : RenameTable(t, u)
    PROVE  CatalogInv'
<1>1. t \in DOMAIN tables
    BY DEF AddColumn, DropColumn, RenameColumn, AddConstraint, DropConstraint, RenameTable, Has
<1>2. tables[t].columns \in SUBSET Columns
    BY <1>1 DEF CatalogInv, Typed, Table, ColumnSets
<1>3. ConstraintsOf(t) \in SUBSET Constraints
    BY DEF CatalogInv, Typed, ConstraintsOf, Has
<1>4. ASSUME NEW c \in Columns, AddColumn(t, c) \/ DropColumn(t, c)
      PROVE  CatalogInv'
    <2>1. PICK columns \in SUBSET Columns : Alter(t, t, columns, ConstraintsOf(t))
        BY <1>2, <1>4 DEF AddColumn, DropColumn
    <2> QED BY <2>1, <1>1, <1>3, AlterStep
<1>5. ASSUME NEW c \in Columns, NEW d \in Columns, RenameColumn(t, c, d)
      PROVE  CatalogInv'
    <2>1. PICK columns \in SUBSET Columns : Alter(t, t, columns, ConstraintsOf(t))
        BY <1>2, <1>5 DEF RenameColumn
    <2> QED BY <2>1, <1>1, <1>3, AlterStep
<1>6. ASSUME NEW k \in Constraints, AddConstraint(t, k) \/ DropConstraint(t, k)
      PROVE  CatalogInv'
    <2>1. PICK cs \in SUBSET Constraints : Alter(t, t, tables[t].columns, cs)
        BY <1>3, <1>6 DEF AddConstraint, DropConstraint
    <2> QED BY <2>1, <1>1, <1>2, AlterStep
<1>7. ASSUME NEW u \in TableNames, RenameTable(t, u)
      PROVE  CatalogInv'
    BY <1>1, <1>2, <1>3, <1>7, AlterStep DEF RenameTable, Has
<1> QED BY <1>4, <1>5, <1>6, <1>7

LEMMA InvInit == Init => CatalogInv
<1> SUFFICES ASSUME Init PROVE CatalogInv
    OBVIOUS
<1>1. ASSUME NEW S PROVE <<>> \in [{} -> S] /\ DOMAIN <<>> = {}
    OBVIOUS
<1>2. /\ tables = <<>> /\ constraints = <<>> /\ views = <<>> /\ deps = <<>>
      /\ triggers = <<>> /\ indexes = <<>> /\ trees = {} /\ nextId = 1
      /\ stored = [tables |-> {}, constraints |-> {}, views |-> {}, deps |-> {},
                   triggers |-> {}, indexes |-> {}]
    BY DEF Init
<1>3. Typed
    BY <1>1, <1>2, NamesAssumption DEF Typed
<1>4. RowsMatch
    <2>1. /\ TableRows(tables) = {} /\ ConstraintRows(constraints) = {}
          /\ ViewRows(views) = {} /\ DepRows(deps) = {}
          /\ TriggerRows(triggers) = {} /\ IndexRows(indexes) = {}
        BY <1>1, <1>2 DEF TableRows, ConstraintRows, ViewRows, DepRows, TriggerRows, IndexRows
    <2> QED BY <1>2, <2>1 DEF RowsMatch
<1>5. IdsUnique /\ DepsHold /\ ObjectsResolve
    BY <1>1, <1>2 DEF IdsUnique, DepsHold, ObjectsResolve
<1> QED BY <1>3, <1>4, <1>5 DEF CatalogInv

LEMMA InvNext == CatalogInv /\ [Next]_vars => CatalogInv'
<1> SUFFICES ASSUME CatalogInv, [Next]_vars PROVE CatalogInv'
    OBVIOUS
<1>1. ASSUME NEW t \in TableNames, NEW columns \in ColumnSets, CreatePlainTable(t, columns)
      PROVE  CatalogInv'
    BY <1>1, PlainTableStep
<1>2. ASSUME NEW t \in TableNames, NEW columns \in ColumnSets, NEW k \in Constraints,
             CreateTable(t, columns, {k})
      PROVE  CatalogInv'
    <2>1. {k} \in SUBSET Constraints
        OBVIOUS
    <2> QED BY <1>2, <2>1, TableStep
<1>3. ASSUME NEW t \in TableNames, DropTable(t)
      PROVE  CatalogInv'
    BY <1>3, DropTableStep
<1>4. ASSUME NEW t \in TableNames,
             \/ \E c \in Columns : AddColumn(t, c) \/ DropColumn(t, c)
             \/ \E c, d \in Columns : RenameColumn(t, c, d)
             \/ \E k \in Constraints : AddConstraint(t, k) \/ DropConstraint(t, k)
             \/ \E u \in TableNames : RenameTable(t, u)
      PROVE  CatalogInv'
    BY <1>4, AlterActions
<1>5. ASSUME NEW g \in TriggerNames, NEW t \in TableNames, NEW w \in TableNames,
             CreateTrigger(g, t, w)
      PROVE  CatalogInv'
    BY <1>5, CreateTriggerStep
<1>6. ASSUME NEW i \in IndexNames, NEW t \in TableNames, NEW c \in Columns, CreateIndex(i, t, c)
      PROVE  CatalogInv'
    BY <1>6, CreateIndexStep
<1>7. ASSUME NEW v \in ViewNames, DropView(v)
      PROVE  CatalogInv'
    BY <1>7, DropViewStep
<1>8. ASSUME NEW v \in ViewNames, NEW n \in Relations, CreateView(v, n)
      PROVE  CatalogInv'
    BY <1>8, CreateViewStep
<1>9. ASSUME NEW g \in TriggerNames, DropTrigger(g)
      PROVE  CatalogInv'
    BY <1>9, DropTriggerStep
<1>10. ASSUME NEW i \in IndexNames, DropIndex(i)
       PROVE  CatalogInv'
    BY <1>10, DropIndexStep
<1>11. CASE UNCHANGED vars
    BY <1>11 DEF vars, objects, CatalogInv, Typed, IdsUnique, RowsMatch, DepsHold,
                 ObjectsResolve, Has
<1> QED BY <1>1, <1>2, <1>3, <1>4, <1>5, <1>6, <1>7, <1>8, <1>9, <1>10, <1>11 DEF Next

\* CatalogInv holds in every state: what the theorems below rest on.
THEOREM CatalogAlways == Spec => []CatalogInv
<1>1. Init => CatalogInv
    BY InvInit
<1>2. CatalogInv /\ [Next]_vars => CatalogInv'
    BY InvNext
<1> QED BY <1>1, <1>2, PTL DEF Spec

-----------------------------------------------------------------------------
\* No statement changes only one of the two copies of a definition: the rows
\* of the system tables always load the dictionaries this connection works
\* with (engine/objects.py, _restore).
THEOREM Reloads == Spec => []ReloadAgrees
<1>1. CatalogInv => ReloadAgrees
    BY InvReloads
<1> QED BY <1>1, CatalogAlways, PTL

\* Whatever was dropped, renamed or created since, a view can be expanded: the
\* test of the dependents in DROP and ALTER is enough.
THEOREM ViewsExpand == Spec => []ViewsResolve
<1>1. CatalogInv => ViewsResolve
    BY InvResolves
<1> QED BY <1>1, CatalogAlways, PTL

\* A dropped view takes its dependencies with it, and no other loses them.
THEOREM DependenciesFollow == Spec => []DependenciesOwned
<1>1. CatalogInv => DependenciesOwned
    BY InvResolves
<1> QED BY <1>1, CatalogAlways, PTL

\* ALTER TABLE leaves no index and no constraint on what is gone, and no two
\* indexes on one tree (_rebuild_indexes, _save_constraints).
THEOREM ObjectsStay == Spec => []ObjectsResolve
<1>1. CatalogInv => ObjectsResolve
    BY DEF CatalogInv
<1> QED BY <1>1, CatalogAlways, PTL

-----------------------------------------------------------------------------
(***************************************************************************)
(* 2. Accounts: theorems about Accounts, for any connections, names, rights *)
(* and plans.                                                               *)
(***************************************************************************)

\* What is true of every file a connection can be working on.
Sound(f) ==
    /\ Enforced(Load(f)) => \E u \in Users : Admins(Load(f)) = {u}
    /\ \A u \in Users : f.users[u] = NoAccount => \A r \in Rights : f.grants[u][r] = 0

\* The explicit transaction in progress is the one of the lock's holder, and
\* without one there is only one file.
LockInv ==
    /\ \A c \in Conns : pc[c] = "explicit" <=> holder = c
    /\ holder = Nobody => work = file

AccountsInv ==
    /\ AccountsTypeOK
    /\ LockInv
    /\ MemoryMatchesRows
    /\ Sound(file) /\ Sound(work)

-----------------------------------------------------------------------------
(***************************************************************************)
(* Files and what is loaded from them.                                      *)
(***************************************************************************)
LEMMA LoadType ==
    ASSUME NEW f \in File
    PROVE  /\ Load(f) \in Memory /\ Load(f).users = f.users
           /\ \A u \in Users, r \in Rights : <<u, r>> \in Load(f).grants <=> f.grants[u][r] > 0
<1>1. Load(f) = [users |-> f.users, grants |-> {g \in Users \X Rights : f.grants[g[1]][g[2]] > 0}]
  BY DEF Load
<1>2. f.users \in [Users -> Account \cup {NoAccount}]
  BY DEF File
<1> QED
  BY <1>1, <1>2 DEF Memory

LEMMA Counts ==
    ASSUME NEW f \in File, NEW u \in Users
    PROVE  /\ f.users[u] \in Account \cup {NoAccount}
           /\ f.grants[u] \in [Rights -> 0..MaxRows]
BY DEF File

\* The account of one user is replaced.
LEMMA UserReplaced ==
    ASSUME NEW f \in File, NEW u \in Users, NEW a \in Account \cup {NoAccount}
    PROVE  LET g == [f EXCEPT !.users[u] = a] IN
           /\ g \in File /\ g.grants = f.grants
           /\ g.users[u] = a
           /\ \A v \in Users \ {u} : g.users[v] = f.users[v]
           /\ Load(g) = [Load(f) EXCEPT !.users[u] = a]
<1> DEFINE g == [f EXCEPT !.users[u] = a]
<1>1. f.users \in [Users -> Account \cup {NoAccount}] /\ f.grants \in [Users -> [Rights -> 0..MaxRows]]
  BY DEF File
<1>2. g = [users |-> [f.users EXCEPT ![u] = a], grants |-> f.grants]
  <2>1. g = [f EXCEPT !.users = [f.users EXCEPT ![u] = a]]
    BY DEF File
  <2>2. f = [users |-> f.users, grants |-> f.grants]
    BY DEF File
  <2> QED
    BY <2>1, <2>2
<1>3. g \in File
  BY <1>1, <1>2 DEF File
<1>4. Load(g) = [Load(f) EXCEPT !.users[u] = a]
  <2>1. g.users = [f.users EXCEPT ![u] = a] /\ g.grants = f.grants
    BY <1>2
  <2> DEFINE G == {h \in Users \X Rights : f.grants[h[1]][h[2]] > 0}
  <2>2. Load(f) = [users |-> f.users, grants |-> G]
    BY DEF Load
  <2> HIDE DEF G
  <2>3. Load(g) = [users |-> [f.users EXCEPT ![u] = a], grants |-> G]
    BY <2>1 DEF Load, G
  <2>4. [Load(f) EXCEPT !.users[u] = a] = [Load(f) EXCEPT !.users = [f.users EXCEPT ![u] = a]]
    BY <2>2
  <2> QED
    BY <2>2, <2>3, <2>4
<1> QED
  BY <1>1, <1>2, <1>3, <1>4

\* The rows of one user's grants are replaced.
LEMMA GrantsReplaced ==
    ASSUME NEW f \in File, NEW u \in Users, NEW row \in [Rights -> 0..MaxRows]
    PROVE  LET g == [f EXCEPT !.grants[u] = row] IN
           /\ g \in File /\ g.users = f.users
           /\ g.grants[u] = row
           /\ \A v \in Users \ {u} : g.grants[v] = f.grants[v]
           /\ Load(g).users = f.users
           /\ g.grants = [f.grants EXCEPT ![u] = row]
<1> DEFINE g == [f EXCEPT !.grants[u] = row]
<1>1. f.users \in [Users -> Account \cup {NoAccount}] /\ f.grants \in [Users -> [Rights -> 0..MaxRows]]
  BY DEF File
<1>2. g = [users |-> f.users, grants |-> [f.grants EXCEPT ![u] = row]]
  <2>1. g = [f EXCEPT !.grants = [f.grants EXCEPT ![u] = row]]
    BY DEF File
  <2>2. f = [users |-> f.users, grants |-> f.grants]
    BY DEF File
  <2> QED
    BY <2>1, <2>2
<1>3. g \in File
  BY <1>1, <1>2 DEF File
<1> QED
  BY <1>1, <1>2, <1>3, LoadType

-----------------------------------------------------------------------------
\* Whoever runs a statement sees the file it will change.
LEMMA RunningSees ==
    ASSUME AccountsInv, NEW c \in Conns, Running(c)
    PROVE  /\ Disk(c) \in File /\ View(c) = Load(Disk(c)) /\ Sound(Disk(c))
           /\ Disk(c) = IF pc[c] = "waiting" THEN file ELSE work
           /\ pc[c] = "waiting" => holder = Nobody /\ \A d \in Conns : pc[d] # "explicit"
           /\ pc[c] # "waiting" => pc[c] = "explicit" /\ ~failed[c] /\ holder = c
BY AccountsAssumption
   DEF AccountsInv, AccountsTypeOK, LockInv, MemoryMatchesRows, Running, Disk, View

\* A statement keeps the invariant if what it writes is sound and is what its
\* memory says.
LEMMA AttemptKeeps ==
    ASSUME AccountsInv, NEW c \in Conns, NEW permitted \in BOOLEAN, NEW m, NEW f,
           Attempt(c, permitted, m, f),
           permitted => f \in File /\ Sound(f) /\ m = Load(f),
           lastId' \in 0..MaxIds, used' \in [Rights -> BOOLEAN]
    PROVE  AccountsInv'
<1>1. Running(c)
  BY DEF Attempt
<1>2. /\ Disk(c) \in File /\ View(c) = Load(Disk(c)) /\ Sound(Disk(c))
      /\ pc[c] = "waiting" => holder = Nobody /\ \A d \in Conns : pc[d] # "explicit"
      /\ pc[c] # "waiting" => pc[c] = "explicit" /\ ~failed[c] /\ holder = c
  BY <1>1, RunningSees
<1>3. /\ AccountsTypeOK /\ LockInv /\ MemoryMatchesRows /\ Sound(file) /\ Sound(work)
      /\ file \in File /\ work \in File
      /\ pc \in [Conns -> {"idle", "waiting", "explicit"}] /\ memory \in [Conns -> Memory]
      /\ failed \in [Conns -> BOOLEAN]
  BY DEF AccountsInv, AccountsTypeOK
<1>4. CASE permitted /\ Succeed(c, m, f)
  <2>1. f \in File /\ Sound(f) /\ m = Load(f) /\ m \in Memory
    BY <1>4, LoadType
  <2>2. CASE pc[c] = "waiting"
    <3>1. /\ file' = f /\ work' = f /\ pc' = [pc EXCEPT ![c] = "idle"]
          /\ memory' = [memory EXCEPT ![c] = m]
          /\ UNCHANGED <<session, failed, holder>>
      BY <1>4, <2>2 DEF Succeed
    <3>2. AccountsTypeOK'
      BY <1>3, <2>1, <3>1 DEF AccountsTypeOK
    <3>3. LockInv'
      BY <1>2, <1>3, <2>2, <3>1, AccountsAssumption DEF LockInv
    <3>4. MemoryMatchesRows'
      BY <1>2, <1>3, <2>2, <3>1 DEF MemoryMatchesRows
    <3> QED
      BY <2>1, <3>1, <3>2, <3>3, <3>4 DEF AccountsInv
  <2>3. CASE pc[c] # "waiting"
    <3>1. /\ work' = f /\ file' = file /\ pc' = pc
          /\ memory' = [memory EXCEPT ![c] = m]
          /\ UNCHANGED <<session, failed, holder>>
      BY <1>4, <2>3 DEF Succeed
    <3>2. AccountsTypeOK'
      BY <1>3, <2>1, <3>1 DEF AccountsTypeOK
    <3>3. LockInv'
      BY <1>2, <1>3, <2>3, <3>1, AccountsAssumption DEF LockInv
    <3>4. MemoryMatchesRows'
      BY <1>2, <1>3, <2>1, <2>3, <3>1 DEF MemoryMatchesRows, LockInv
    <3> QED
      BY <1>3, <2>1, <3>1, <3>2, <3>3, <3>4 DEF AccountsInv
  <2> QED
    BY <2>2, <2>3
<1>5. ASSUME NEW n, Raise(c, n), n \in Memory
      PROVE  AccountsInv'
  <2>1. CASE pc[c] = "waiting"
    <3>1. /\ memory' = [memory EXCEPT ![c] = Load(file)] /\ pc' = [pc EXCEPT ![c] = "idle"]
          /\ UNCHANGED <<failed, file, work, session, holder>>
      BY <1>5, <2>1 DEF Raise
    <3>2. AccountsTypeOK'
      BY <1>3, <3>1, LoadType DEF AccountsTypeOK
    <3>3. LockInv' /\ MemoryMatchesRows'
      BY <1>2, <1>3, <2>1, <3>1, AccountsAssumption DEF LockInv, MemoryMatchesRows
    <3> QED
      BY <1>3, <3>1, <3>2, <3>3 DEF AccountsInv
  <2>2. CASE pc[c] # "waiting"
    <3>1. /\ memory' = [memory EXCEPT ![c] = n] /\ failed' = [failed EXCEPT ![c] = TRUE]
          /\ UNCHANGED <<pc, file, work, session, holder>>
      BY <1>5, <2>2 DEF Raise
    <3>2. AccountsTypeOK'
      BY <1>3, <1>5, <3>1 DEF AccountsTypeOK
    <3>3. LockInv' /\ MemoryMatchesRows'
      BY <1>2, <1>3, <2>2, <3>1, AccountsAssumption DEF LockInv, MemoryMatchesRows
    <3> QED
      BY <1>3, <3>1, <3>2, <3>3 DEF AccountsInv
  <2> QED
    BY <2>1, <2>2
<1>6. View(c) \in Memory
  BY <1>2, LoadType
<1>7. permitted => m \in Memory
  BY LoadType
<1> QED
  BY <1>4, <1>5, <1>6, <1>7 DEF Attempt

-----------------------------------------------------------------------------
(***************************************************************************)
(* Who may do what: a connection decides by its memory as the rows say.     *)
(***************************************************************************)
ByEntitled ==
    \A c \in Conns :
        /\ pc[c] = "waiting" /\ pc'[c] = "idle" => Entitled(file, file', session[c])
        /\ pc[c] = "explicit" /\ pc'[c] = "explicit" => Entitled(work, work', session[c])

LEMMA DecidesByRows ==
    ASSUME NEW f \in File, NEW s \in Session \cup {NoSession}
    PROVE  /\ ~Enforced(Load(f)) \/ IsAdmin(Load(f), s) => MayManage(f, s)
           /\ \A rights \in SUBSET Rights : Permitted(Load(f), s, rights) =>
                 \A r \in rights : MayUse(f, s, r)
           /\ Current(Load(f), s) # NoAccount =>
                 s # NoSession /\ f.users[s.name] # NoAccount /\ f.users[s.name].id = s.id
<1>1. Load(f).users = f.users /\ \A u \in Users, r \in Rights : <<u, r>> \in Load(f).grants <=> f.grants[u][r] > 0
  BY LoadType
<1>2. s # NoSession => s.name \in Users
  BY DEF Session
<1>3. ~Enforced(Load(f)) \/ IsAdmin(Load(f), s) => MayManage(f, s)
  BY <1>1 DEF IsAdmin, Current, MayManage
<1>4. Current(Load(f), s) # NoAccount =>
          s # NoSession /\ f.users[s.name] # NoAccount /\ f.users[s.name].id = s.id
  BY <1>1 DEF Current
<1>5. ASSUME NEW rights \in SUBSET Rights, Permitted(Load(f), s, rights), NEW r \in rights
      PROVE  MayUse(f, s, r)
  <2>1. CASE ~Enforced(Load(f))
    BY <2>1 DEF MayUse
  <2>2. CASE Enforced(Load(f))
    <3>1. /\ Current(Load(f), s) # NoAccount
          /\ IsAdmin(Load(f), s) \/ <<s.name, r>> \in Load(f).grants
      BY <1>5, <2>2 DEF Permitted
    <3>2. IsAdmin(Load(f), s) => f.users[s.name].admin
      BY <1>1 DEF IsAdmin, Current
    <3>3. s # NoSession /\ f.users[s.name] # NoAccount /\ f.users[s.name].id = s.id
      BY <1>4, <3>1
    <3>4. r \in Rights
      BY <1>5
    <3> QED
      BY <1>1, <1>2, <3>1, <3>2, <3>3, <3>4 DEF MayUse
  <2> QED
    BY <2>1, <2>2
<1> QED
  BY <1>3, <1>4, <1>5

\* One statement: it keeps the invariant, and its session was entitled to it.
LEMMA AttemptStep ==
    ASSUME AccountsInv, NEW c \in Conns, NEW permitted \in BOOLEAN, NEW m, NEW f,
           Attempt(c, permitted, m, f),
           permitted => /\ f \in File /\ Sound(f) /\ m = Load(f)
                        /\ Entitled(Disk(c), f, session[c]),
           lastId' \in 0..MaxIds, used' \in [Rights -> BOOLEAN],
           \A r \in Rights : used'[r] # used[r] => MayUse(Disk(c), session[c], r)
    PROVE  AccountsInv' /\ ByEntitled
<1>0. (permitted /\ Succeed(c, m, f)) \/ Raise(c, m) \/ Raise(c, View(c))
  BY Zenon DEF Attempt
<1>1. AccountsInv'
  BY AttemptKeeps
<1>2. Running(c)
  BY DEF Attempt
<1>3. /\ Disk(c) = IF pc[c] = "waiting" THEN file ELSE work
      /\ pc[c] = "waiting" => \A d \in Conns : pc[d] # "explicit"
      /\ pc[c] # "waiting" => pc[c] = "explicit" /\ holder = c
  BY <1>2, RunningSees
<1>4. \A d \in Conns \ {c} : pc'[d] = pc[d] /\ pc[d] # "explicit"
  BY <1>3 DEF Attempt, Succeed, Raise, AccountsInv, AccountsTypeOK, LockInv
<1>5. Entitled(Disk(c), Disk(c), session[c])
  BY DEF Entitled
<1>6. CASE pc[c] = "waiting"
  <2>1. Succeed(c, m, f) => file' = f
    BY <1>6 DEF Succeed
  <2>2. (Raise(c, m) => file' = file) /\ (Raise(c, View(c)) => file' = file)
    BY DEF Raise
  <2>3. permitted /\ Succeed(c, m, f) => Entitled(Disk(c), file', session[c])
    BY <2>1
  <2>4. Raise(c, m) \/ Raise(c, View(c)) => Entitled(Disk(c), file', session[c])
    BY <1>3, <1>5, <1>6, <2>2
  <2>5. Entitled(Disk(c), file', session[c])
    BY <1>0, <2>3, <2>4
  <2> QED
    BY <1>1, <1>3, <1>4, <1>6, <2>5 DEF ByEntitled
<1>7. CASE pc[c] # "waiting"
  <2>1. Succeed(c, m, f) => work' = f
    BY <1>7 DEF Succeed
  <2>2. (Raise(c, m) => work' = work) /\ (Raise(c, View(c)) => work' = work)
    BY DEF Raise
  <2>3. permitted /\ Succeed(c, m, f) => Entitled(Disk(c), work', session[c])
    BY <2>1
  <2>4. Raise(c, m) \/ Raise(c, View(c)) => Entitled(Disk(c), work', session[c])
    BY <1>3, <1>5, <1>7, <2>2
  <2>5. Entitled(Disk(c), work', session[c])
    BY <1>0, <2>3, <2>4
  <2> QED
    BY <1>1, <1>3, <1>4, <1>7, <2>5 DEF ByEntitled
<1> QED
  BY <1>6, <1>7

\* What the statements below start from.
LEMMA StatementFacts ==
    ASSUME AccountsInv, NEW c \in Conns, Running(c)
    PROVE  /\ Disk(c) \in File /\ View(c) = Load(Disk(c)) /\ Sound(Disk(c))
           /\ View(c).users = Disk(c).users
           /\ session[c] \in Session \cup {NoSession}
           /\ lastId \in 0..MaxIds /\ used \in [Rights -> BOOLEAN]
BY RunningSees, LoadType DEF AccountsInv, AccountsTypeOK

(***************************************************************************)
(* The statements.                                                          *)
(***************************************************************************)
LEMMA StepCreateUser ==
    ASSUME AccountsInv, NEW c \in Conns, NEW u \in Users, CreateUser(c, u)
    PROVE  AccountsInv' /\ ByEntitled
<1> DEFINE D == Disk(c)
           a == [id |-> lastId + 1, admin |-> Founder(c)]
           g == [D EXCEPT !.users[u] = a]
           permitted == View(c).users[u] = NoAccount /\ (Founder(c) \/ IsAdmin(View(c), session[c]))
<1>1. /\ lastId < MaxIds /\ used' = used
      /\ lastId' = IF permitted THEN lastId + 1 ELSE lastId
      /\ Attempt(c, permitted, [View(c) EXCEPT !.users[u] = a], g)
  BY DEF CreateUser, Renew
<1>2. /\ D \in File /\ View(c) = Load(D) /\ Sound(D)
      /\ View(c).users = D.users
      /\ session[c] \in Session \cup {NoSession}
      /\ lastId \in 0..MaxIds /\ used \in [Rights -> BOOLEAN]
  BY <1>1, StatementFacts DEF Attempt
<1>3. a \in Account /\ a # NoAccount /\ a.admin = Founder(c)
  <2>1. Founder(c) \in BOOLEAN
    BY DEF Founder
  <2>2. lastId + 1 \in 1..MaxIds
    BY <1>1, <1>2, AccountsAssumption
  <2> QED
    BY <2>1, <2>2, AccountsAssumption DEF Account
<1>4. /\ g \in File /\ g.grants = D.grants
      /\ g.users[u] = a
      /\ \A v \in Users \ {u} : g.users[v] = D.users[v]
      /\ Load(g) = [Load(D) EXCEPT !.users[u] = a]
  BY <1>2, <1>3, UserReplaced
<1>5. Load(g).users = g.users /\ Load(D).users = D.users
  BY <1>2, <1>4, LoadType
<1> HIDE DEF D, a, g
<1>6. ASSUME permitted
      PROVE  Sound(g) /\ Entitled(D, g, session[c])
  <2>1. D.users[u] = NoAccount /\ \A r \in Rights : D.grants[u][r] = 0
    BY <1>2, <1>6 DEF Sound
  <2>2. ASSUME Founder(c)
        PROVE  Sound(g)
    <3>1. \A v \in Users : D.users[v] = NoAccount
      BY <1>2, <1>5, <2>2 DEF Founder, Enforced
    <3>2. Admins(Load(g)) = {u}
      BY ZenonT(30), <1>3, <1>4, <1>5, <2>2, <3>1 DEF Admins
    <3>3. \A v \in Users : g.users[v] = NoAccount => \A r \in Rights : g.grants[v][r] = 0
      BY <1>2, <1>3, <1>4 DEF Sound
    <3> QED
      BY <3>2, <3>3 DEF Sound
  <2>3. ASSUME ~Founder(c)
        PROVE  Sound(g)
    <3>1. Enforced(Load(D))
      BY <1>2, <2>3 DEF Founder
    <3>2. Admins(Load(g)) = Admins(Load(D))
      BY <1>3, <1>4, <1>5, <2>1, <2>3 DEF Admins
    <3>3. \E v \in Users : Admins(Load(D)) = {v}
      BY <1>2, <3>1 DEF Sound
    <3>4. \A v \in Users : g.users[v] = NoAccount => \A r \in Rights : g.grants[v][r] = 0
      BY <1>2, <1>3, <1>4 DEF Sound
    <3> QED
      BY <3>2, <3>3, <3>4 DEF Sound
  <2>4. Sound(g)
    BY <2>2, <2>3
  <2>5. MayManage(D, session[c])
    BY <1>2, <1>6, DecidesByRows DEF Founder
  <2> QED
    BY <1>1, <1>4, <2>4, <2>5 DEF Entitled
<1> HIDE DEF permitted
<1>7. permitted \in BOOLEAN
  BY DEF permitted
<1>8. lastId' \in 0..MaxIds
  BY <1>1, <1>2, AccountsAssumption
<1> QED
  BY <1>1, <1>2, <1>4, <1>6, <1>7, <1>8, AttemptStep DEF D

LEMMA StepAlterUser ==
    ASSUME AccountsInv, NEW c \in Conns, NEW u \in Users, AlterUser(c, u)
    PROVE  AccountsInv' /\ ByEntitled
<1> DEFINE D == Disk(c)
           s == session[c]
           a == [id |-> lastId + 1, admin |-> View(c).users[u].admin]
           g == [D EXCEPT !.users[u] = a]
           permitted == /\ View(c).users[u] # NoAccount
                        /\ Current(View(c), s) # NoAccount
                        /\ IsAdmin(View(c), s) \/ s.name = u
<1>1. /\ lastId < MaxIds /\ used' = used
      /\ lastId' = IF permitted THEN lastId + 1 ELSE lastId
      /\ Attempt(c, permitted, [View(c) EXCEPT !.users[u] = a], g)
  BY DEF AlterUser, Renew
<1>2. /\ D \in File /\ View(c) = Load(D) /\ Sound(D)
      /\ View(c).users = D.users
      /\ s \in Session \cup {NoSession}
      /\ lastId \in 0..MaxIds /\ used \in [Rights -> BOOLEAN]
  BY <1>1, StatementFacts DEF Attempt
<1>3. ASSUME permitted
      PROVE  g \in File /\ Sound(g) /\ Load(g) = [View(c) EXCEPT !.users[u] = a] /\ Entitled(D, g, s)
  <2>1. D.users[u] # NoAccount /\ D.users[u] \in Account
    <3>1. D.users[u] # NoAccount
      BY <1>2, <1>3
    <3> HIDE DEF D
    <3>2. D.users[u] \in Account \cup {NoAccount}
      BY <1>2, Counts
    <3> QED
      BY <3>1, <3>2
  <2>2. a \in Account /\ a # NoAccount /\ a.admin = D.users[u].admin
    BY <1>1, <1>2, <2>1, AccountsAssumption DEF Account
  <2>3. /\ g \in File /\ g.grants = D.grants
        /\ g.users[u] = a
        /\ \A v \in Users \ {u} : g.users[v] = D.users[v]
        /\ Load(g) = [Load(D) EXCEPT !.users[u] = a]
    BY <1>2, <2>2, UserReplaced
  <2>4. Load(g).users = g.users /\ Load(D).users = D.users
    BY <1>2, <2>3, LoadType
  <2> HIDE DEF D, a, g
  <2>5. Admins(Load(g)) = Admins(Load(D)) /\ Enforced(Load(D))
    BY <2>1, <2>2, <2>3, <2>4 DEF Admins, Enforced
  <2>6. \E v \in Users : Admins(Load(D)) = {v}
    BY <1>2, <2>5 DEF Sound
  <2>7. Sound(g)
    BY <1>2, <2>2, <2>3, <2>5, <2>6 DEF Sound
  <2>8. IsAdmin(View(c), s) => MayManage(D, s)
    BY <1>2, DecidesByRows
  <2>9. s # NoSession /\ D.users[s.name].id = s.id
    BY <1>2, <1>3, DecidesByRows
  <2>10. Entitled(D, g, s)
    BY <1>1, <1>3, <2>1, <2>3, <2>8, <2>9 DEF Entitled
  <2> QED
    BY <1>2, <2>3, <2>7, <2>10
<1> HIDE DEF D, a, g, permitted
<1>7. permitted \in BOOLEAN
  BY DEF permitted
<1>8. lastId' \in 0..MaxIds
  BY <1>1, <1>2, AccountsAssumption
<1> QED
  BY <1>1, <1>2, <1>3, <1>7, <1>8, AttemptStep DEF D

\* An account and its grants are removed.
LEMMA AccountRemoved ==
    ASSUME NEW f \in File, NEW u \in Users
    PROVE  LET g == [f EXCEPT !.users[u] = NoAccount, !.grants[u] = [r \in Rights |-> 0]] IN
           /\ g \in File
           /\ g.users[u] = NoAccount /\ \A r \in Rights : g.grants[u][r] = 0
           /\ \A v \in Users \ {u} : g.users[v] = f.users[v] /\ g.grants[v] = f.grants[v]
           /\ Load(g) = [users |-> [Load(f).users EXCEPT ![u] = NoAccount],
                         grants |-> {h \in Load(f).grants : h[1] # u}]
<1> DEFINE none == [r \in Rights |-> 0]
           g1 == [f EXCEPT !.users[u] = NoAccount]
           g == [f EXCEPT !.users[u] = NoAccount, !.grants[u] = none]
<1>1. f.users \in [Users -> Account \cup {NoAccount}] /\ f.grants \in [Users -> [Rights -> 0..MaxRows]]
  BY DEF File
<1>2. g = [users |-> [f.users EXCEPT ![u] = NoAccount], grants |-> [f.grants EXCEPT ![u] = none]]
  <2>1. g1 \in File /\ g1.grants = f.grants /\ g1.users = [f.users EXCEPT ![u] = NoAccount]
    <3>1. g1 = [f EXCEPT !.users = [f.users EXCEPT ![u] = NoAccount]]
      BY DEF File
    <3>2. f = [users |-> f.users, grants |-> f.grants]
      BY DEF File
    <3>3. g1 = [users |-> [f.users EXCEPT ![u] = NoAccount], grants |-> f.grants]
      BY <3>1, <3>2
    <3> QED
      BY <1>1, <3>3 DEF File
  <2>2. g = [g1 EXCEPT !.grants[u] = none]
    OBVIOUS
  <2> HIDE DEF g1, g, none
  <2>3. g = [g1 EXCEPT !.grants = [g1.grants EXCEPT ![u] = none]]
    BY <2>1, <2>2 DEF File
  <2>4. g1 = [users |-> g1.users, grants |-> g1.grants]
    BY <2>1 DEF File
  <2> QED
    BY <2>1, <2>3, <2>4
<1>3. none \in [Rights -> 0..MaxRows] /\ \A r \in Rights : none[r] = 0
  BY AccountsAssumption
<1> HIDE DEF g, none
<1>4. g \in File
  BY <1>1, <1>2, <1>3 DEF File
<1>5. Load(g) = [users |-> [f.users EXCEPT ![u] = NoAccount], grants |-> {h \in Load(f).grants : h[1] # u}]
  <2>1. \A h \in Users \X Rights : g.grants[h[1]][h[2]] > 0 <=> h[1] # u /\ f.grants[h[1]][h[2]] > 0
    <3> SUFFICES ASSUME NEW v \in Users, NEW r \in Rights
                 PROVE  g.grants[v][r] > 0 <=> v # u /\ f.grants[v][r] > 0
      OBVIOUS
    <3> QED
      BY <1>1, <1>2, <1>3
  <2>2. {h \in Users \X Rights : g.grants[h[1]][h[2]] > 0} = {h \in Load(f).grants : h[1] # u}
    BY <2>1 DEF Load
  <2> QED
    BY <1>2, <2>2 DEF Load
<1> QED
  BY <1>1, <1>2, <1>3, <1>4, <1>5, LoadType DEF g, none

LEMMA StepDropUser ==
    ASSUME AccountsInv, NEW c \in Conns, NEW u \in Users, DropUser(c, u)
    PROVE  AccountsInv' /\ ByEntitled
<1> DEFINE D == Disk(c)
           s == session[c]
           m == [users |-> [View(c).users EXCEPT ![u] = NoAccount],
                 grants |-> {h \in View(c).grants : h[1] # u}]
           g == [D EXCEPT !.users[u] = NoAccount, !.grants[u] = [r \in Rights |-> 0]]
           permitted == /\ View(c).users[u] # NoAccount
                        /\ IsAdmin(View(c), s)
                        /\ ~(View(c).users[u].admin /\ Cardinality(Admins(View(c))) <= 1)
<1>1. lastId' = lastId /\ used' = used /\ Attempt(c, permitted, m, g)
  BY DEF DropUser
<1>2. /\ D \in File /\ View(c) = Load(D) /\ Sound(D)
      /\ View(c).users = D.users
      /\ s \in Session \cup {NoSession}
      /\ lastId \in 0..MaxIds /\ used \in [Rights -> BOOLEAN]
  BY <1>1, StatementFacts DEF Attempt
<1>3. /\ g \in File
      /\ g.users[u] = NoAccount /\ \A r \in Rights : g.grants[u][r] = 0
      /\ \A v \in Users \ {u} : g.users[v] = D.users[v] /\ g.grants[v] = D.grants[v]
      /\ Load(g) = m
  <2> HIDE DEF D
  <2> QED
    BY ZenonT(30), <1>2, AccountRemoved
<1>4. Load(g).users = g.users /\ Load(D).users = D.users
  BY <1>2, <1>3, LoadType
<1> HIDE DEF D, g, m
<1>5. ASSUME permitted
      PROVE  Sound(g) /\ Entitled(D, g, s)
  <2>1. Enforced(Load(D)) /\ D.users[u] # NoAccount
    BY <1>2, <1>5 DEF Enforced
  <2>2. PICK v \in Users : Admins(Load(D)) = {v}
    BY <1>2, <2>1 DEF Sound
  <2>3. Cardinality(Admins(Load(D))) = 1
    BY <2>2, FS_Singleton
  <2>4. ~D.users[u].admin
    BY <1>2, <1>5, <2>3
  <2>5. Admins(Load(g)) = Admins(Load(D))
    BY <1>3, <1>4, <2>4 DEF Admins
  <2>6. Sound(g)
    BY <1>2, <1>3, <2>2, <2>5 DEF Sound
  <2>7. MayManage(D, s)
    BY <1>2, <1>5, DecidesByRows
  <2> QED
    BY <1>1, <2>6, <2>7 DEF Entitled
<1> HIDE DEF permitted
<1>6. permitted \in BOOLEAN
  BY DEF permitted
<1> QED
  BY <1>1, <1>2, <1>3, <1>5, <1>6, AttemptStep DEF D

\* GRANT and REVOKE: the rows of one account change, as its rights do.
LEMMA StepRows ==
    ASSUME AccountsInv, NEW c \in Conns, NEW u \in Users, NEW row \in [Rights -> 0..MaxRows],
           NEW permitted \in BOOLEAN, NEW m,
           permitted => /\ Disk(c).users[u] # NoAccount
                        /\ ~Enforced(Load(Disk(c))) \/ IsAdmin(Load(Disk(c)), session[c])
                        /\ m = Load([Disk(c) EXCEPT !.grants[u] = row]),
           Attempt(c, permitted, m, [Disk(c) EXCEPT !.grants[u] = row]),
           lastId' = lastId, used' = used
    PROVE  AccountsInv' /\ ByEntitled
<1> DEFINE D == Disk(c)
           s == session[c]
           g == [D EXCEPT !.grants[u] = row]
<1>2. /\ D \in File /\ View(c) = Load(D) /\ Sound(D)
      /\ s \in Session \cup {NoSession}
      /\ lastId \in 0..MaxIds /\ used \in [Rights -> BOOLEAN]
  BY StatementFacts DEF Attempt
<1>3. /\ g \in File /\ g.users = D.users
      /\ \A v \in Users \ {u} : g.grants[v] = D.grants[v]
      /\ Load(g).users = D.users /\ Load(D).users = D.users
  <2> HIDE DEF D
  <2> QED
    BY <1>2, GrantsReplaced, LoadType
<1>4. permitted => /\ D.users[u] # NoAccount
                   /\ ~Enforced(Load(D)) \/ IsAdmin(Load(D), s)
                   /\ m = Load(g)
  OBVIOUS
<1>5. Attempt(c, permitted, m, g)
  OBVIOUS
<1> HIDE DEF D, g
<1>6. ASSUME permitted
      PROVE  Sound(g) /\ Entitled(D, g, s)
  <2>1. Admins(Load(g)) = Admins(Load(D)) /\ (Enforced(Load(g)) <=> Enforced(Load(D)))
    BY <1>3 DEF Admins, Enforced
  <2>2. \A v \in Users : g.users[v] = NoAccount => \A r \in Rights : g.grants[v][r] = 0
    BY <1>2, <1>3, <1>4, <1>6 DEF Sound
  <2>3. Sound(g)
    BY <1>2, <2>1, <2>2 DEF Sound
  <2>4. MayManage(D, s)
    BY <1>2, <1>4, <1>6, DecidesByRows
  <2> QED
    BY <1>3, <2>3, <2>4 DEF Entitled
<1> QED
  BY <1>2, <1>3, <1>4, <1>5, <1>6, AttemptStep DEF D

LEMMA StepGrant ==
    ASSUME AccountsInv, NEW c \in Conns, NEW u \in Users, NEW rights \in SUBSET Rights,
           Grant(c, u, rights)
    PROVE  AccountsInv' /\ ByEntitled
<1> DEFINE D == Disk(c)
           given == [r \in Rights |-> D.grants[u][r] + IF r \in rights THEN 1 ELSE 0]
           m == [View(c) EXCEPT !.grants = @ \cup ({u} \X rights)]
           g == [D EXCEPT !.grants[u] = given]
           permitted == View(c).users[u] # NoAccount /\ (Enforced(View(c)) => IsAdmin(View(c), session[c]))
<1>1. /\ \A r \in Rights : given[r] <= MaxRows
      /\ lastId' = lastId /\ used' = used /\ Attempt(c, permitted, m, g)
  BY DEF Grant
<1>2. D \in File /\ View(c) = Load(D) /\ View(c).users = D.users
  BY <1>1, StatementFacts DEF Attempt
<1>3. given \in [Rights -> 0..MaxRows]
  <2>1. \A r \in Rights : D.grants[u][r] \in 0..MaxRows
    <3> HIDE DEF D
    <3> QED
      BY <1>2, Counts
  <2> QED
    BY <1>1, <2>1, AccountsAssumption
<1>4. m = Load(g)
  <2> HIDE DEF D
  <2>1. D.grants \in [Users -> [Rights -> 0..MaxRows]]
    BY <1>2 DEF File
  <2>2. \A v \in Users, r \in Rights :
           given[r] > 0 <=> D.grants[u][r] > 0 \/ r \in rights
    BY <2>1, AccountsAssumption
  <2> HIDE DEF given
  <2>3. g.users = D.users /\ g.grants = [D.grants EXCEPT ![u] = given]
    BY <1>2, <1>3, GrantsReplaced
  <2>4. \A v \in Users, r \in Rights :
           g.grants[v][r] > 0 <=> D.grants[v][r] > 0 \/ (v = u /\ r \in rights)
    BY <2>1, <2>2, <2>3
  <2> HIDE DEF g
  <2>5. {h \in Users \X Rights : g.grants[h[1]][h[2]] > 0}
           = {h \in Users \X Rights : D.grants[h[1]][h[2]] > 0} \cup ({u} \X rights)
    BY <2>4
  <2> DEFINE G == {h \in Users \X Rights : D.grants[h[1]][h[2]] > 0}
  <2>6. Load(D) = [users |-> D.users, grants |-> G]
    BY DEF Load
  <2>7. Load(g) = [users |-> D.users, grants |-> G \cup ({u} \X rights)]
    BY <2>3, <2>5 DEF Load
  <2> HIDE DEF G
  <2> QED
    BY <1>2, <2>6, <2>7
<1> HIDE DEF given, m
<1>5. permitted \in BOOLEAN
  OBVIOUS
<1>6. permitted => D.users[u] # NoAccount /\ (~Enforced(Load(D)) \/ IsAdmin(Load(D), session[c]))
  BY <1>2
<1> HIDE DEF permitted
<1> QED
  BY <1>1, <1>3, <1>4, <1>5, <1>6, StepRows

LEMMA StepRevoke ==
    ASSUME AccountsInv, NEW c \in Conns, NEW u \in Users, NEW rights \in SUBSET Rights,
           Revoke(c, u, rights)
    PROVE  AccountsInv' /\ ByEntitled
<1> DEFINE D == Disk(c)
           left == [r \in Rights |-> IF r \in rights THEN Left(D.grants[u][r]) ELSE D.grants[u][r]]
           m == [View(c) EXCEPT !.grants = @ \ ({u} \X rights)]
           g == [D EXCEPT !.grants[u] = left]
           permitted == View(c).users[u] # NoAccount /\ (Enforced(View(c)) => IsAdmin(View(c), session[c]))
<1>1. lastId' = lastId /\ used' = used /\ Attempt(c, permitted, m, g)
  BY DEF Revoke
<1>2. D \in File /\ View(c) = Load(D) /\ View(c).users = D.users
  BY <1>1, StatementFacts DEF Attempt
<1>3. left \in [Rights -> 0..MaxRows]
  <2>1. \A r \in Rights : D.grants[u][r] \in 0..MaxRows
    <3> HIDE DEF D
    <3> QED
      BY <1>2, Counts
  <2> QED
    BY <2>1, AccountsAssumption DEF Left
<1>4. m = Load(g)
  <2> HIDE DEF D
  <2>1. D.grants \in [Users -> [Rights -> 0..MaxRows]]
    BY <1>2 DEF File
  <2>2. \A v \in Users, r \in Rights :
           left[r] > 0 <=> D.grants[u][r] > 0 /\ r \notin rights
    BY <2>1, AccountsAssumption DEF Left
  <2> HIDE DEF left
  <2>3. g.users = D.users /\ g.grants = [D.grants EXCEPT ![u] = left]
    BY <1>2, <1>3, GrantsReplaced
  <2>4. \A v \in Users, r \in Rights :
           g.grants[v][r] > 0 <=> D.grants[v][r] > 0 /\ ~(v = u /\ r \in rights)
    BY <2>1, <2>2, <2>3
  <2> HIDE DEF g
  <2>5. {h \in Users \X Rights : g.grants[h[1]][h[2]] > 0}
           = {h \in Users \X Rights : D.grants[h[1]][h[2]] > 0} \ ({u} \X rights)
    BY <2>4
  <2> DEFINE G == {h \in Users \X Rights : D.grants[h[1]][h[2]] > 0}
  <2>6. Load(D) = [users |-> D.users, grants |-> G]
    BY DEF Load
  <2>7. Load(g) = [users |-> D.users, grants |-> G \ ({u} \X rights)]
    BY <2>3, <2>5 DEF Load
  <2> HIDE DEF G
  <2> QED
    BY <1>2, <2>6, <2>7
<1> HIDE DEF left, m
<1>5. permitted \in BOOLEAN
  OBVIOUS
<1>6. permitted => D.users[u] # NoAccount /\ (~Enforced(Load(D)) \/ IsAdmin(Load(D), session[c]))
  BY <1>2
<1> HIDE DEF permitted
<1> QED
  BY <1>1, <1>3, <1>4, <1>5, <1>6, StepRows

\* Any other statement: the rights it used, its trigger's too, were its session's.
LEMMA StepUse ==
    ASSUME AccountsInv, NEW c \in Conns, NEW plan \in Plans, Use(c, plan)
    PROVE  AccountsInv' /\ ByEntitled
<1> DEFINE D == Disk(c)
           s == session[c]
           plain == Permitted(View(c), s, plan.needs)
           rights == IF plain THEN plan.needs \cup {r \in plan.action : Permitted(View(c), s, {r})} ELSE {}
           permitted == plain /\ Permitted(View(c), s, plan.action)
<1>1. /\ lastId' = lastId /\ Attempt(c, permitted, View(c), D)
      /\ used' = [r \in Rights |-> (r \in rights) # used[r]]
  BY DEF Use
<1>2. /\ D \in File /\ View(c) = Load(D) /\ Sound(D)
      /\ s \in Session \cup {NoSession}
      /\ lastId \in 0..MaxIds /\ used \in [Rights -> BOOLEAN]
  BY <1>1, StatementFacts DEF Attempt
<1>3. plan.needs \subseteq Rights /\ plan.action \subseteq Rights
  BY AccountsAssumption
<1>4. \A r \in rights : MayUse(D, s, r)
  <2> HIDE DEF D
  <2>1. ASSUME plain, NEW r \in plan.needs
        PROVE  MayUse(D, s, r)
    BY <1>2, <1>3, <2>1, DecidesByRows
  <2>2. ASSUME NEW r \in plan.action, Permitted(View(c), s, {r})
        PROVE  MayUse(D, s, r)
    <3>1. {r} \in SUBSET Rights /\ Permitted(Load(D), s, {r})
      BY <1>2, <1>3, <2>2
    <3> QED
      BY <1>2, <3>1, DecidesByRows
  <2> QED
    BY <2>1, <2>2
<1>5. permitted \in BOOLEAN
  BY DEF Permitted
<1> HIDE DEF rights, permitted
<1>6. /\ used' \in [Rights -> BOOLEAN]
      /\ \A r \in Rights : used'[r] # used[r] => MayUse(D, s, r)
  <2>1. \A r \in Rights : used'[r] = ((r \in rights) # used[r])
    BY <1>1
  <2>2. ASSUME NEW r \in Rights, used'[r] # used[r]
        PROVE  r \in rights
    <3>1. CASE r \notin rights
      <4>1. used[r] \in BOOLEAN
        BY <1>2
      <4>2. (r \in rights) = FALSE
        BY <3>1
      <4>3. used'[r] = (FALSE # used[r])
        BY <2>1, <4>2
      <4> QED
        BY <2>2, <4>1, <4>3
    <3> QED
      BY <3>1
  <2> QED
    BY <1>1, <1>4, <2>2
<1>7. Entitled(D, D, s)
  BY <1>6 DEF Entitled
<1> QED
  BY <1>1, <1>2, <1>5, <1>6, <1>7, AttemptStep

-----------------------------------------------------------------------------
(***************************************************************************)
(* Transactions, login and logout.                                          *)
(***************************************************************************)

\* A step that changes no account, no grant and uses no right.
LEMMA Quiet ==
    ASSUME used' = used,
           \A c \in Conns : pc[c] = "waiting" /\ pc'[c] = "idle" => file' = file,
           \A c \in Conns : pc[c] = "explicit" /\ pc'[c] = "explicit" => work' = work
    PROVE  ByEntitled
BY DEF ByEntitled, Entitled

LEMMA StepOther ==
    ASSUME AccountsInv, NEW c \in Conns,
           \/ Statement(c) \/ Busy(c) \/ Begin(c) \/ Commit(c) \/ Rollback(c) \/ Logout(c)
           \/ \E u \in Users, right \in BOOLEAN : Login(c, u, right)
    PROVE  AccountsInv' /\ ByEntitled
<1>1. /\ AccountsTypeOK /\ LockInv /\ MemoryMatchesRows /\ Sound(file) /\ Sound(work)
      /\ file \in File /\ work \in File /\ Load(file) \in Memory
      /\ pc \in [Conns -> {"idle", "waiting", "explicit"}] /\ memory \in [Conns -> Memory]
      /\ session \in [Conns -> Session \cup {NoSession}]
      /\ failed \in [Conns -> BOOLEAN]
  BY LoadType DEF AccountsInv, AccountsTypeOK
<1>2. CASE Statement(c) \/ Busy(c)
  <2>1. PICK where \in {"idle", "waiting"} : pc' = [pc EXCEPT ![c] = where]
    BY <1>2 DEF Statement, Busy
  <2>2. pc[c] # "explicit" /\ UNCHANGED <<file, work, memory, session, failed, holder, lastId, used>>
    BY <1>2 DEF Statement, Busy
  <2>3. AccountsTypeOK' /\ LockInv' /\ MemoryMatchesRows'
    BY <1>1, <2>1, <2>2 DEF AccountsTypeOK, LockInv, MemoryMatchesRows
  <2> QED
    BY <1>1, <2>2, <2>3, Quiet DEF AccountsInv
<1>3. CASE Begin(c)
  <2>1. /\ pc[c] = "idle" /\ holder = Nobody
        /\ pc' = [pc EXCEPT ![c] = "explicit"] /\ holder' = c /\ work' = file
        /\ memory' = [memory EXCEPT ![c] = Load(file)]
        /\ UNCHANGED <<file, session, failed, lastId, used>>
    BY <1>3 DEF Begin
  <2>2. AccountsTypeOK'
    BY <1>1, <2>1 DEF AccountsTypeOK
  <2>3. \A d \in Conns : pc[d] # "explicit"
    BY <1>1, <2>1, AccountsAssumption DEF LockInv
  <2>4. LockInv' /\ MemoryMatchesRows'
    BY <1>1, <2>1, <2>3, AccountsAssumption DEF LockInv, MemoryMatchesRows
  <2> QED
    BY <1>1, <2>1, <2>2, <2>3, <2>4, Quiet DEF AccountsInv
<1>4. CASE Commit(c) \/ Rollback(c)
  <2>1. PICK f \in {file, work} : End(c, f)
    BY <1>4 DEF Commit, Rollback
  <2>2. memory' \in [Conns -> Memory] /\ \A d \in Conns \ {c} : memory'[d] = memory[d]
    BY <1>1, <1>4 DEF Commit, Rollback
  <2>3. /\ pc[c] = "explicit" /\ pc' = [pc EXCEPT ![c] = "idle"]
        /\ failed' = [failed EXCEPT ![c] = FALSE] /\ holder' = Nobody
        /\ file' = f /\ work' = f
        /\ UNCHANGED <<session, lastId, used>>
    BY <2>1 DEF End
  <2>4. AccountsTypeOK'
    BY <1>1, <2>2, <2>3 DEF AccountsTypeOK
  <2>5. \A d \in Conns \ {c} : pc[d] # "explicit" /\ pc'[d] = pc[d]
    BY <1>1, <2>3 DEF LockInv
  <2>6. pc'[c] = "idle"
    BY <1>1, <2>3
  <2>7. LockInv' /\ MemoryMatchesRows'
    BY <2>3, <2>5, <2>6, AccountsAssumption DEF LockInv, MemoryMatchesRows
  <2>8. Sound(file') /\ Sound(work')
    BY <1>1, <2>3
  <2>9. ByEntitled
    BY <2>3, <2>5, <2>6 DEF ByEntitled
  <2> QED
    BY <2>4, <2>7, <2>8, <2>9 DEF AccountsInv
<1>5. CASE Logout(c)
  <2>1. UNCHANGED <<file, work, memory, pc, failed, holder, lastId, used>>
        /\ session' = [session EXCEPT ![c] = NoSession]
    BY <1>5 DEF Logout
  <2>2. AccountsTypeOK' /\ LockInv' /\ MemoryMatchesRows'
    BY <1>1, <2>1 DEF AccountsTypeOK, LockInv, MemoryMatchesRows
  <2> QED
    BY <1>1, <2>1, <2>2, Quiet DEF AccountsInv
<1>6. ASSUME NEW u \in Users, NEW right \in BOOLEAN, Login(c, u, right)
      PROVE  AccountsInv' /\ ByEntitled
  <2>1. /\ UNCHANGED <<file, work, pc, failed, holder, lastId, used>>
        /\ \/ pc[c] = "idle" /\ memory' = [memory EXCEPT ![c] = Load(file)]
           \/ memory' = memory
        /\ session' = [session EXCEPT ![c] = IF right THEN Identity(memory'[c], u) ELSE NoSession]
    BY <1>6 DEF Login
  <2>2. memory' \in [Conns -> Memory]
    BY <1>1, <2>1
  <2>3. Identity(memory'[c], u) \in Session \cup {NoSession}
    <3>1. memory'[c].users[u] \in Account \cup {NoAccount}
      BY <2>2 DEF Memory
    <3> HIDE <2>1, <2>2
    <3> QED
      BY <3>1 DEF Identity, Session, Account
  <2>4. session' \in [Conns -> Session \cup {NoSession}]
    BY <1>1, <2>1, <2>3
  <2>5. AccountsTypeOK' /\ LockInv' /\ MemoryMatchesRows'
    BY <1>1, <2>1, <2>2, <2>4 DEF AccountsTypeOK, LockInv, MemoryMatchesRows
  <2> QED
    BY <1>1, <2>1, <2>5, Quiet DEF AccountsInv
<1> QED
  BY <1>2, <1>3, <1>4, <1>5, <1>6

-----------------------------------------------------------------------------
(***************************************************************************)
(* The theorems.                                                            *)
(***************************************************************************)
LEMMA InitSound == AccountsInit => AccountsInv
<1> SUFFICES ASSUME AccountsInit
             PROVE  AccountsInv
  OBVIOUS
<1>1. EmptyFile \in File /\ \A u \in Users : EmptyFile.users[u] = NoAccount
  BY AccountsAssumption DEF EmptyFile, File
<1>2. \A u \in Users, r \in Rights : EmptyFile.grants[u][r] = 0
  BY DEF EmptyFile
<1>3. Sound(EmptyFile)
  <2>1. ~Enforced(Load(EmptyFile))
    BY <1>1, LoadType DEF Enforced
  <2> QED
    BY <1>2, <2>1 DEF Sound
<1>4. AccountsTypeOK
  BY <1>1, LoadType, AccountsAssumption DEF AccountsInit, AccountsTypeOK
<1>5. LockInv /\ MemoryMatchesRows
  BY AccountsAssumption DEF AccountsInit, LockInv, MemoryMatchesRows
<1> QED
  BY <1>3, <1>4, <1>5 DEF AccountsInit, AccountsInv

LEMMA EveryStep == AccountsInv /\ [AccountsNext]_accountVars => AccountsInv' /\ [ByEntitled]_accountVars
<1> SUFFICES ASSUME AccountsInv, [AccountsNext]_accountVars
             PROVE  AccountsInv' /\ [ByEntitled]_accountVars
  OBVIOUS
<1>1. CASE UNCHANGED accountVars
  BY <1>1 DEF accountVars, AccountsInv, AccountsTypeOK, LockInv, MemoryMatchesRows
<1>2. ASSUME NEW c \in Conns, NEW u \in Users, CreateUser(c, u) \/ AlterUser(c, u) \/ DropUser(c, u)
      PROVE  AccountsInv' /\ ByEntitled
  BY <1>2, StepCreateUser, StepAlterUser, StepDropUser
<1>3. ASSUME NEW c \in Conns, NEW u \in Users, NEW rights \in (SUBSET Rights) \ {{}},
             Grant(c, u, rights) \/ Revoke(c, u, rights)
      PROVE  AccountsInv' /\ ByEntitled
  BY <1>3, StepGrant, StepRevoke
<1>4. ASSUME NEW c \in Conns, NEW plan \in Plans, Use(c, plan)
      PROVE  AccountsInv' /\ ByEntitled
  BY <1>4, StepUse
<1> QED
  BY <1>1, <1>2, <1>3, <1>4, StepOther DEF AccountsNext

THEOREM AccountsInvariant == AccountsSpec => []AccountsInv
<1>1. AccountsInv /\ [AccountsNext]_accountVars => AccountsInv'
  BY EveryStep
<1> QED
  BY <1>1, InitSound, PTL DEF AccountsSpec

\* Accounts, grants, identities and sessions keep their types.
THEOREM AccountTypes == AccountsSpec => []AccountsTypeOK
<1>1. AccountsInv => AccountsTypeOK
  BY DEF AccountsInv
<1> QED
  BY <1>1, AccountsInvariant, PTL

\* What a connection decides by in a transaction is what it will commit.
THEOREM MemoryKept == AccountsSpec => []MemoryMatchesRows
<1>1. AccountsInv => MemoryMatchesRows
  BY DEF AccountsInv
<1> QED
  BY <1>1, AccountsInvariant, PTL

\* The first account founds the database, once, and stays its administrator.
THEOREM FounderKept == AccountsSpec => []OneFounder
<1>1. AccountsInv => OneFounder
  BY DEF AccountsInv, Sound, OneFounder
<1> QED
  BY <1>1, AccountsInvariant, PTL

\* DROP USER takes the grants along, whoever wrote them and when.
THEOREM GrantsGoAlong == AccountsSpec => []GrantsOwned
<1>1. AccountsInv => GrantsOwned
  BY DEF AccountsInv, Sound, GrantsOwned
<1> QED
  BY <1>1, AccountsInvariant, PTL

\* No statement of any connection changes or uses what the rows, as they are
\* when it runs, do not entitle its session to.
THEOREM OnlyEntitled == AccountsSpec => EntitledOnly
<1>1. AccountsInv /\ [AccountsNext]_accountVars => [ByEntitled]_accountVars
  BY EveryStep
<1> QED
  BY <1>1, AccountsInvariant, PTL DEF AccountsSpec, EntitledOnly, ByEntitled

=============================================================================
