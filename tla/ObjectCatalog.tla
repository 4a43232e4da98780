---------------------------- MODULE ObjectCatalog ----------------------------
(***************************************************************************)
(* The catalogs (engine/catalog.py, engine/objects.py) and the statements   *)
(* that define objects: CREATE and DROP of tables, views, triggers and      *)
(* indexes, and ALTER TABLE, with the checks the compiler makes first       *)
(* (compiler/extended_semantic.py).                                         *)
(*                                                                         *)
(* Every definition is kept twice: in dictionaries, which the compiler and  *)
(* the executor read, and as rows of system tables, from which the next     *)
(* transaction loads its own dictionaries.  A table has columns and an id,  *)
(* a view reads one relation, a trigger on a table inserts into another,    *)
(* an index is on one column and owns a tree.                               *)
(***************************************************************************)
EXTENDS Naturals, FiniteSets, Functions

CONSTANTS
    TableNames, ViewNames,        \* may share names: there is one name space for both
    TriggerNames, IndexNames, Columns,
    MaxId,                        \* bound: table ids
    MaxTree,                      \* bound: index trees
    NoTable

Relations == TableNames \cup ViewNames
ColumnSets == (SUBSET Columns) \ {{}}

\* A key, or a foreign key to a key of another table.
Unique(c) == [kind |-> "UNIQUE", column |-> c, ref |-> NoTable]
ForeignKey(c, t) == [kind |-> "FOREIGN KEY", column |-> c, ref |-> t]
Constraints == {Unique(c) : c \in Columns}
                  \cup {ForeignKey(c, t) : c \in Columns, t \in TableNames}

ASSUME NamesAssumption ==
    /\ NoTable \notin Relations
    /\ IsFiniteSet(IndexNames)
    /\ MaxId \in Nat /\ MaxTree \in Nat

VARIABLES
    tables,        \* PersistentCatalog.tables: tables[name] = [id, columns]
    constraints,   \* _constraints: constraints[name], a set
    views,         \* _views: views[name], the relation the query reads
    deps,          \* _deps: deps[view], a set of <<kind, name>>
    triggers,      \* _triggers: triggers[name] = [table, writes]
    indexes,       \* _indexes: indexes[name] = [table, column, root]
    stored,        \* the rows of the system tables
    trees,         \* the root pages of the index trees in the file
    nextId         \* next_table_id

objects == <<constraints, views, deps, triggers, indexes>>
vars == <<tables, objects, stored, trees, nextId>>

Init ==
    /\ tables = <<>> /\ constraints = <<>> /\ views = <<>> /\ deps = <<>>
    /\ triggers = <<>> /\ indexes = <<>>
    /\ stored = [tables |-> {}, constraints |-> {}, views |-> {}, deps |-> {},
                 triggers |-> {}, indexes |-> {}]
    /\ trees = {} /\ nextId = 1

Has(f, x) == x \in DOMAIN f
Put(f, x, v) == [y \in DOMAIN f \cup {x} |-> IF y = x THEN v ELSE f[y]]
Without(f, x) == Restrict(f, DOMAIN f \ {x})

ConstraintsOf(t) == IF Has(constraints, t) THEN constraints[t] ELSE {}
IndexesOn(t) == {i \in DOMAIN indexes : indexes[i].table = t}
Dependents(kind, name) == {v \in DOMAIN deps : <<kind, name>> \in deps[v]}

-----------------------------------------------------------------------------
(***************************************************************************)
(* What bootstrap and _restore build from the system tables.                *)
(***************************************************************************)
Loaded ==
    LET t == [n \in {r.name : r \in stored.tables} |->
                 LET r == CHOOSE x \in stored.tables : x.name = n IN [id |-> r.id, columns |-> r.columns]]
        \* constraints of a table that is gone are skipped
        owned == {r \in stored.constraints : Has(t, r.table)}
    IN  [tables |-> t,
         constraints |-> [n \in {r.table : r \in owned} |->
                             {r.constraint : r \in {x \in owned : x.table = n}}],
         views |-> [n \in {r.name : r \in stored.views} |->
                       (CHOOSE x \in stored.views : x.name = n).reads],
         deps |-> [n \in {r.view : r \in stored.deps} |->
                       {r.on : r \in {x \in stored.deps : x.view = n}}],
         triggers |-> [n \in {r.name : r \in stored.triggers} |->
                          LET r == CHOOSE x \in stored.triggers : x.name = n
                          IN  [table |-> r.table, writes |-> r.writes]],
         indexes |-> [n \in {r.name : r \in stored.indexes} |->
                         LET r == CHOOSE x \in stored.indexes : x.name = n
                         IN  [table |-> r.table, column |-> r.column, root |-> r.root]]]

(***************************************************************************)
(* Names, as the compiler resolves them: a table first, then a view.        *)
(***************************************************************************)

\* S holds n and, with a view the name resolves to, what that view reads.
Expanded(n, S) ==
    n \in S /\ \A m \in S : Has(views, m) /\ ~Has(tables, m) => views[m] \in S

\* What the expansion of a query on n depends on: all it goes through.
Reads(n) ==
    {<<IF Has(tables, m) THEN "table" ELSE IF Has(views, m) THEN "view" ELSE "missing", m>> :
        m \in {x \in Relations : \A S \in SUBSET Relations : Expanded(n, S) => x \in S}}

\* check_schema: the columns of the constraints exist, and so do the keys the
\* foreign keys reference; a table may reference itself.
SchemaOK(name, columns, cs) ==
    /\ columns # {}
    /\ \A c \in cs : c.column \in columns
    /\ \A c \in cs : c.kind = "FOREIGN KEY" =>
          IF c.ref = name THEN Unique(c.column) \in cs
          ELSE Has(tables, c.ref) /\ Unique(c.column) \in ConstraintsOf(c.ref)

(***************************************************************************)
(* CREATE TABLE.                                                            *)
(***************************************************************************)

\* The storage gives the id, the catalog enters the name.
Register(t, columns) ==
    /\ nextId <= MaxId
    /\ tables' = Put(tables, t, [id |-> nextId, columns |-> columns])
    /\ nextId' = nextId + 1

\* A table of INT and VARCHAR columns without constraints takes the old path,
\* which does not look at the views.
CreatePlainTable(t, columns) ==
    /\ ~Has(tables, t)
    /\ Register(t, columns)
    /\ stored' = [stored EXCEPT !.tables = @ \cup {[id |-> nextId, name |-> t, columns |-> columns]}]
    /\ UNCHANGED <<objects, trees>>

CreateTable(t, columns, cs) ==
    /\ cs # {}
    /\ ~Has(tables, t) /\ ~Has(views, t)
    /\ SchemaOK(t, columns, cs)
    /\ Register(t, columns)
    /\ constraints' = Put(constraints, t, cs)
    /\ stored' = [stored EXCEPT
          !.tables = @ \cup {[id |-> nextId, name |-> t, columns |-> columns]},
          !.constraints = @ \cup {[table |-> t, constraint |-> c] : c \in cs}]
    /\ UNCHANGED <<views, deps, triggers, indexes, trees>>

(***************************************************************************)
(* DROP TABLE.                                                              *)
(***************************************************************************)

\* Mutation of DropTable: nobody asks for the dependents.
DropTable_Unasked(t) ==
    /\ Has(tables, t)
    /\ ConstraintsOf(t) = {} /\ IndexesOn(t) = {}
    /\ tables' = Without(tables, t)
    /\ stored' = [stored EXCEPT !.tables = {r \in @ : r.id # tables[t].id}]
    /\ UNCHANGED <<objects, trees, nextId>>

\* With a constraint or an index the statement becomes an extended one, which
\* has no handler for DROP TABLE.
DropTable(t) ==
    /\ Has(tables, t)
    /\ ConstraintsOf(t) = {} /\ IndexesOn(t) = {}
    /\ Dependents("table", t) = {}
    /\ tables' = Without(tables, t)
    /\ stored' = [stored EXCEPT !.tables = {r \in @ : r.id # tables[t].id}]
    /\ UNCHANGED <<objects, trees, nextId>>

(***************************************************************************)
(* ALTER TABLE: table t becomes table u with other columns or constraints.  *)
(***************************************************************************)

\* _rebuild_indexes drops the trees it can name the columns of, unregisters all
\* indexes of the table and builds those that still have their column.
Rebuild(t, u, columns) ==
    LET old == IndexesOn(t)
        kept == {i \in old : indexes[i].column \in columns}
        left == trees \ {indexes[i].root : i \in kept}
    IN  /\ Cardinality(kept) <= MaxTree - Cardinality(left)
        /\ LET fresh == CHOOSE f \in [kept -> 1..MaxTree \ left] :
                            \A i, j \in kept : i # j => f[i] # f[j]
           IN  /\ trees' = left \cup {fresh[i] : i \in kept}
               /\ indexes' = [i \in (DOMAIN indexes \ old) \cup kept |->
                                 IF i \in kept THEN [indexes[i] EXCEPT !.table = u, !.root = fresh[i]]
                                 ELSE indexes[i]]

IndexRows(ixs) == {[name |-> i, table |-> ixs[i].table, column |-> ixs[i].column,
                    root |-> ixs[i].root] : i \in DOMAIN ixs}

\* Mutation of Save: the constraints stay under the old name too.
Save_KeepsOld(t, u, cs) ==
    constraints' = IF cs = {} THEN Without(constraints, u) ELSE Put(constraints, u, cs)

\* _save_constraints, and unregister_constraints of the name a table loses.
Save(t, u, cs) ==
    LET others == Restrict(constraints, DOMAIN constraints \ {t, u})
    IN  constraints' = IF cs = {} THEN others ELSE Put(others, u, cs)

\* Mutation of Alter: the indexes stay as they were.
Alter_KeepsIndexes(t, u, columns, cs) ==
    /\ Dependents("table", t) = {}
    /\ SchemaOK(u, columns, cs)
    /\ tables' = Put(Without(tables, t), u, [tables[t] EXCEPT !.columns = columns])
    /\ Save(t, u, cs)
    /\ stored' = [stored EXCEPT
          !.tables = {r \in @ : r.id # tables[t].id}
                        \cup {[id |-> tables[t].id, name |-> u, columns |-> columns]},
          !.constraints = {r \in @ : r.table \notin {t, u}}
                             \cup {[table |-> u, constraint |-> c] : c \in cs}]
    /\ UNCHANGED <<views, deps, triggers, indexes, trees, nextId>>

Alter(t, u, columns, cs) ==
    /\ Dependents("table", t) = {}
    /\ SchemaOK(u, columns, cs)
    /\ tables' = Put(Without(tables, t), u, [tables[t] EXCEPT !.columns = columns])
    /\ Save(t, u, cs)
    /\ Rebuild(t, u, columns)
    /\ stored' = [stored EXCEPT
          !.tables = {r \in @ : r.id # tables[t].id}
                        \cup {[id |-> tables[t].id, name |-> u, columns |-> columns]},
          !.constraints = {r \in @ : r.table \notin {t, u}}
                             \cup {[table |-> u, constraint |-> c] : c \in cs},
          !.indexes = IndexRows(indexes')]
    /\ UNCHANGED <<views, deps, triggers, nextId>>

AddColumn(t, c) ==
    /\ Has(tables, t) /\ c \notin tables[t].columns
    /\ Alter(t, t, tables[t].columns \cup {c}, ConstraintsOf(t))

DropColumn(t, c) ==
    /\ Has(tables, t) /\ c \in tables[t].columns
    /\ \A k \in ConstraintsOf(t) : k.column # c
    /\ Alter(t, t, tables[t].columns \ {c}, ConstraintsOf(t))

RenameColumn(t, c, d) ==
    /\ Has(tables, t) /\ c \in tables[t].columns /\ d \notin tables[t].columns
    /\ \A k \in ConstraintsOf(t) : k.column # c
    /\ Alter(t, t, (tables[t].columns \ {c}) \cup {d}, ConstraintsOf(t))

AddConstraint(t, k) ==
    /\ Has(tables, t) /\ k \notin ConstraintsOf(t)
    /\ Alter(t, t, tables[t].columns, ConstraintsOf(t) \cup {k})

DropConstraint(t, k) ==
    /\ Has(tables, t) /\ k \in ConstraintsOf(t)
    /\ Alter(t, t, tables[t].columns, ConstraintsOf(t) \ {k})

RenameTable(t, u) ==
    /\ Has(tables, t) /\ ~Has(tables, u) /\ ~Has(views, u)
    /\ Alter(t, u, tables[t].columns, ConstraintsOf(t))

(***************************************************************************)
(* Views.                                                                   *)
(***************************************************************************)
CreateView(v, reads) ==
    /\ ~Has(tables, v) /\ ~Has(views, v)
    /\ Has(tables, reads) \/ Has(views, reads)
    /\ views' = Put(views, v, reads)
    /\ deps' = Put(deps, v, Reads(reads))
    /\ stored' = [stored EXCEPT !.views = @ \cup {[name |-> v, reads |-> reads]},
                                !.deps = @ \cup {[view |-> v, on |-> d] : d \in Reads(reads)}]
    /\ UNCHANGED <<tables, constraints, triggers, indexes, trees, nextId>>

\* Mutation of DropView: the view's own dependencies stay.
DropView_KeepsDeps(v) ==
    /\ Has(views, v)
    /\ Dependents("view", v) = {}
    /\ views' = Without(views, v)
    /\ stored' = [stored EXCEPT !.views = {r \in @ : r.name # v}]
    /\ UNCHANGED <<tables, deps, constraints, triggers, indexes, trees, nextId>>

\* assert_droppable, remove_object and unregister_view.
DropView(v) ==
    /\ Has(views, v)
    /\ Dependents("view", v) = {}
    /\ views' = Without(views, v)
    /\ deps' = Without(deps, v)
    /\ stored' = [stored EXCEPT !.views = {r \in @ : r.name # v},
                                !.deps = {r \in @ : r.view # v}]
    /\ UNCHANGED <<tables, constraints, triggers, indexes, trees, nextId>>

(***************************************************************************)
(* Triggers and indexes.                                                    *)
(***************************************************************************)

\* The catalog gives the compiler no writes of the other triggers, so the test
\* for cycles only sees a trigger that fires itself.
CreateTrigger(g, t, w) ==
    /\ ~Has(triggers, g)
    /\ Has(tables, t) /\ Has(tables, w)
    /\ t # w
    /\ triggers' = Put(triggers, g, [table |-> t, writes |-> w])
    /\ stored' = [stored EXCEPT !.triggers = @ \cup {[name |-> g, table |-> t, writes |-> w]}]
    /\ UNCHANGED <<tables, constraints, views, deps, indexes, trees, nextId>>

DropTrigger(g) ==
    /\ Has(triggers, g)
    /\ triggers' = Without(triggers, g)
    /\ stored' = [stored EXCEPT !.triggers = {r \in @ : r.name # g}]
    /\ UNCHANGED <<tables, constraints, views, deps, indexes, trees, nextId>>

CreateIndex(i, t, c) ==
    /\ ~Has(indexes, i)
    /\ Has(tables, t) /\ c \in tables[t].columns
    /\ \E root \in 1..MaxTree \ trees :
          /\ \A r \in 1..MaxTree \ trees : root <= r
          /\ trees' = trees \cup {root}
          /\ indexes' = Put(indexes, i, [table |-> t, column |-> c, root |-> root])
    /\ stored' = [stored EXCEPT !.indexes = IndexRows(indexes')]
    /\ UNCHANGED <<tables, constraints, views, deps, triggers, nextId>>

DropIndex(i) ==
    /\ Has(indexes, i)
    /\ Has(tables, indexes[i].table)
    /\ trees' = IF indexes[i].column \in tables[indexes[i].table].columns
                THEN trees \ {indexes[i].root} ELSE trees
    /\ indexes' = Without(indexes, i)
    /\ stored' = [stored EXCEPT !.indexes = {r \in @ : r.name # i}]
    /\ UNCHANGED <<tables, constraints, views, deps, triggers, nextId>>

Next ==
    \/ \E t \in TableNames :
          \/ \E cols \in ColumnSets :
                \/ CreatePlainTable(t, cols)
                \/ \E k \in Constraints : CreateTable(t, cols, {k})
          \/ DropTable(t)
          \/ \E c \in Columns : AddColumn(t, c) \/ DropColumn(t, c)
          \/ \E c, d \in Columns : RenameColumn(t, c, d)
          \/ \E k \in Constraints : AddConstraint(t, k) \/ DropConstraint(t, k)
          \/ \E u \in TableNames : RenameTable(t, u)
          \/ \E g \in TriggerNames, w \in TableNames : CreateTrigger(g, t, w)
          \/ \E i \in IndexNames, c \in Columns : CreateIndex(i, t, c)
    \/ \E v \in ViewNames : DropView(v) \/ (\E n \in Relations : CreateView(v, n))
    \/ \E g \in TriggerNames : DropTrigger(g)
    \/ \E i \in IndexNames : DropIndex(i)

Spec == Init /\ [][Next]_vars

-----------------------------------------------------------------------------
TypeOK ==
    /\ DOMAIN tables \subseteq TableNames
    /\ \A t \in DOMAIN tables : tables[t].id \in 1..MaxId /\ tables[t].columns \in ColumnSets
    /\ \A t \in DOMAIN constraints : constraints[t] \subseteq Constraints
    /\ DOMAIN views \subseteq ViewNames /\ Range(views) \subseteq Relations
    /\ DOMAIN triggers \subseteq TriggerNames /\ DOMAIN indexes \subseteq IndexNames
    /\ trees \subseteq 1..MaxTree
    /\ \A s, t \in DOMAIN tables : tables[s].id = tables[t].id => s = t

\* The next transaction, and another connection, load the very definitions
\* this one works with: no statement changes only one of the two copies.
ReloadAgrees ==
    /\ TypeOK
    /\ Loaded = [tables |-> tables, constraints |-> constraints, views |-> views,
                 deps |-> deps, triggers |-> triggers, indexes |-> indexes]

\* Every view can be expanded down to tables, whatever was dropped, renamed or
\* created since (DEPENDENT_OBJECT protects what a view reads).
ViewsResolve ==
    \A v \in DOMAIN views : \A d \in Reads(views[v]) : d[1] # "missing"

\* Exactly the views that exist hold dependencies, so a dropped view never
\* keeps a table from being dropped or altered.
DependenciesOwned == DOMAIN deps = DOMAIN views

\* Every index is on a column its table has and owns a tree of its own that is
\* still in the file, and every constraint is on a column of a table that is
\* there, through renames and rebuilds.
ObjectsResolve ==
    /\ \A i \in DOMAIN indexes :
          /\ Has(tables, indexes[i].table)
          /\ indexes[i].column \in tables[indexes[i].table].columns
          /\ indexes[i].root \in trees
    /\ \A i, j \in DOMAIN indexes : indexes[i].root = indexes[j].root => i = j
    /\ \A t \in DOMAIN constraints :
          Has(tables, t) /\ \A k \in constraints[t] : k.column \in tables[t].columns
=============================================================================
