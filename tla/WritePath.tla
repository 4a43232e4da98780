------------------------------ MODULE WritePath ------------------------------
(***************************************************************************)
(* INSERT, UPDATE and DELETE with constraints, indexes and AFTER row        *)
(* triggers, and CREATE and DROP INDEX (engine/write_path.py), inside the   *)
(* transactions of engine/database.py.                                      *)
(*                                                                         *)
(* A statement checks and writes all its rows in one step; the triggers of  *)
(* its row events then run one by one, each a statement of its own on top   *)
(* of the stack.  The heap answers with record ids and an index is the set  *)
(* of its entries (HeapStorage and BTreeIndex keep those promises); a       *)
(* rollback restores what was saved (TransactionalDatabase keeps that one). *)
(***************************************************************************)
EXTENDS Naturals, Sequences, FiniteSets, SequencesExt, Functions

CONSTANTS
    Tables, Columns, Keys, Null,
    MaxRid,             \* bound: rows of a table
    KeyConstraints,     \* PRIMARY KEY and UNIQUE of a table: [table, columns, primary]
    ForeignKeys,        \* [table, columns, parent, references]: the columns referenced
    Admitted,           \* Admitted[t]: the rows its NOT NULL and CHECK constraints let pass
    IndexDefs,          \* the indexes there may be: [table, columns, unique]
    TriggerNames,
    Triggers,           \* Triggers[t][event]: their names, in creation order
    Action(_, _, _),    \* the statement of a trigger, for an OLD and a NEW row
    Statements,         \* the statements a client may send
    MaxStatements,      \* bound: statements of an explicit transaction
    NoRow, NoTrigger, NoStore

Values == Keys \cup {Null}
Rows == [Columns -> Values]     \* a column that a table lacks is NULL in all its rows
Rids == 1..MaxRid

\* A key is any number of columns in any order.  When a foreign key is made, a
\* PRIMARY KEY or UNIQUE of the parent has the columns it references (compiler,
\* INVALID_FOREIGN_KEY); as that constraint may be dropped later, nothing here asks
\* for it.
ASSUME SchemaAssumption ==
    /\ MaxRid \in Nat /\ MaxStatements \in Nat
    /\ KeyConstraints \subseteq [table : Tables, columns : Seq(Columns), primary : BOOLEAN]
    /\ ForeignKeys \subseteq [table : Tables, columns : Seq(Columns),
                              parent : Tables, references : Seq(Columns)]
    /\ IndexDefs \subseteq [table : Tables, columns : Seq(Columns), unique : BOOLEAN]

\* What the compiler lets through: it names tables and indexes that are there,
\* and its rows are of the table's type.  where: the rows the condition is true
\* for; set: the new row that the assignments make of an old one.
Statement ==
    [op : {"insert"}, table : Tables, row : Rows]
    \cup [op : {"delete"}, table : Tables, where : SUBSET Rows]
    \cup [op : {"update"}, table : Tables, where : SUBSET Rows, set : [Rows -> Rows]]
    \cup [op : {"create index", "drop index"}, index : IndexDefs]

\* A trigger sees the old row, the new row or both.
Events == {"insert", "update", "delete"}
OldRows(event) == IF event = "insert" THEN {NoRow} ELSE Rows
NewRows(event) == IF event = "delete" THEN {NoRow} ELSE Rows

ASSUME StatementsAssumption ==
    /\ Statements \subseteq Statement
    /\ NoTrigger \notin TriggerNames
    /\ \A t \in Tables, event \in Events :
          /\ Triggers[t][event] \in Seq(TriggerNames)
          /\ \A n \in 1..Len(Triggers[t][event]), old \in OldRows(event), new \in NewRows(event) :
                Action(Triggers[t][event][n], old, new) \in Statement

VARIABLES
    heap,      \* heap[t]: the rows of table t, a function of their record ids
    index,     \* index[d]: the entries <<key, rid>> of index d, for the indexes there are
    stack,     \* the statements in progress, each with the trigger runs it still owes
    active,    \* _active_triggers
    txn,       \* the transaction: none, auto or explicit
    failed,    \* _failed
    saved,     \* the journal: heap and index as the transaction found them, or NoStore
    sent       \* the statements the explicit transaction got

vars == <<heap, index, stack, active, txn, failed, saved, sent>>

Store == [heap |-> heap, index |-> index]

Init ==
    /\ heap = [t \in Tables |-> <<>>]
    /\ index = <<>>
    /\ stack = <<>>
    /\ active = {}
    /\ txn = "none"
    /\ failed = FALSE
    /\ saved = NoStore
    /\ sent = 0

InScanOrder(rids) ==
    [n \in 1..Cardinality(rids) |-> CHOOSE i \in rids : Cardinality({j \in rids : j <= i}) = n]

\* The values of a row in the columns of a key, and whether none is NULL.
KeyOf(row, columns) == [n \in 1..Len(columns) |-> row[columns[n]]]
NullFree(key) == \A n \in DOMAIN key : key[n] # Null

EntriesOf(d, rows) == {<<KeyOf(rows[i], d.columns), i>> : i \in DOMAIN rows}

\* No two rows have the same key, but for keys with a NULL.
Distinct(rows, columns) ==
    \A i, j \in DOMAIN rows : i # j /\ NullFree(KeyOf(rows[i], columns)) =>
        KeyOf(rows[i], columns) # KeyOf(rows[j], columns)

\* The record ids that inserts take, one after the other (not more than MaxRid
\* will be left in use, see WithinBound).
FreeRids(rows, n) == InScanOrder(1..MaxRid + n \ DOMAIN rows)

(***************************************************************************)
(* Constraints.                                                             *)
(***************************************************************************)

\* Mutation of Constrained: only a primary key is searched for.
Constrained_PrimaryOnly(t, row, others, rows) ==
    /\ row \in Admitted[t]
    /\ \A c \in KeyConstraints : c.table = t /\ c.primary =>
          /\ NullFree(KeyOf(row, c.columns))
          /\ \A o \in others : KeyOf(o, c.columns) # KeyOf(row, c.columns)
    /\ \A f \in ForeignKeys : f.table = t /\ NullFree(KeyOf(row, f.columns)) =>
          \E p \in Range(rows[f.parent]) : KeyOf(p, f.references) = KeyOf(row, f.columns)

\* _check_constraints: a row against the other rows of its table, and against the
\* rows its foreign keys are looked up in.  A NULL makes a UNIQUE or a foreign key
\* hold (MATCH SIMPLE), and a primary key fail.
Constrained(t, row, others, rows) ==
    /\ row \in Admitted[t]
    /\ \A c \in KeyConstraints : c.table = t =>
          /\ c.primary => NullFree(KeyOf(row, c.columns))
          /\ NullFree(KeyOf(row, c.columns)) =>
                \A o \in others : KeyOf(o, c.columns) # KeyOf(row, c.columns)
    /\ \A f \in ForeignKeys : f.table = t /\ NullFree(KeyOf(row, f.columns)) =>
          \E p \in Range(rows[f.parent]) : KeyOf(p, f.references) = KeyOf(row, f.columns)

\* A foreign key finds no reference to row among rows, or its key is still there.
Released(f, row, rows) ==
    LET key == KeyOf(row, f.references)
    IN  NullFree(key) /\ (\A o \in Range(rows[f.parent]) : KeyOf(o, f.references) # key) =>
            \A child \in Range(rows[f.table]) : KeyOf(child, f.columns) # key

\* Mutation of Unreferenced: only other tables are searched for references.
Unreferenced_OthersOnly(t, row, rows) ==
    \A f \in ForeignKeys : f.parent = t /\ f.table # t => Released(f, row, rows)

\* _check_parent_references of a row of t that is replaced or deleted; rows are
\* those the statement will leave.
Unreferenced(t, row, rows) ==
    \A f \in ForeignKeys : f.parent = t => Released(f, row, rows)

(***************************************************************************)
(* Heap and indexes.  out and in are rows of t by their record ids.         *)
(***************************************************************************)

\* storage.delete and _index_delete of each row.
RemoveRows(store, t, out) ==
    [heap  |-> [store.heap EXCEPT ![t] = Restrict(@, DOMAIN @ \ DOMAIN out)],
     index |-> [d \in DOMAIN store.index |-> IF d.table = t THEN store.index[d] \ EntriesOf(d, out)
                                            ELSE store.index[d]]]

\* storage.insert and _index_insert of each row.
AddRows(store, t, in) ==
    [heap  |-> [store.heap EXCEPT ![t] = [i \in DOMAIN @ \cup DOMAIN in |->
                                             IF i \in DOMAIN in THEN in[i] ELSE @[i]]],
     index |-> [d \in DOMAIN store.index |-> IF d.table = t THEN store.index[d] \cup EntriesOf(d, in)
                                            ELSE store.index[d]]]

\* Mutation of Clash: the index is searched, but not the rows of the statement.
Clash_IgnoresBatch(store, t, in) ==
    \E d \in DOMAIN store.index, i \in DOMAIN in :
        /\ d.table = t /\ d.unique /\ NullFree(KeyOf(in[i], d.columns))
        /\ \E e \in store.index[d] : e[1] = KeyOf(in[i], d.columns)

\* _index_insert finds the key of a row in a unique index.
Clash(store, t, in) ==
    \E d \in DOMAIN store.index, i \in DOMAIN in :
        /\ d.table = t /\ d.unique /\ NullFree(KeyOf(in[i], d.columns))
        /\ \/ \E e \in store.index[d] : e[1] = KeyOf(in[i], d.columns)
           \/ \E j \in DOMAIN in \ {i} : KeyOf(in[j], d.columns) = KeyOf(in[i], d.columns)

(***************************************************************************)
(* Statements: what a handler leaves, and the trigger runs it owes.  What   *)
(* one that raises had written can only be rolled back, so it matters no    *)
(* further how far it got: the model stops it at the first row in doubt.    *)
(***************************************************************************)

\* A row event, with the triggers that are still to run for it.
Owed(t, event, old, new) ==
    IF Triggers[t][event] = <<>> THEN <<>>
    ELSE <<[triggers |-> Triggers[t][event], old |-> old, new |-> new]>>

\* Mutation of OwedAll: the triggers run once per statement, for its first row.
OwedAll_PerStatement(t, event, order, old, new) ==
    IF order = <<>> THEN <<>> ELSE Owed(t, event, old[order[1]], new[order[1]])

OwedAll(t, event, order, old, new) ==
    IF Triggers[t][event] = <<>> THEN <<>>
    ELSE [n \in 1..Len(order) |-> [triggers |-> Triggers[t][event],
                                   old |-> old[order[n]], new |-> new[order[n]]]]

\* What is owed once the first trigger of the first row event ran.
OwedNext(owed) ==
    IF Len(owed[1].triggers) = 1 THEN Tail(owed) ELSE [owed EXCEPT ![1].triggers = Tail(@)]

Succeeds(store, owed) == [ok |-> TRUE, store |-> store, owed |-> owed]
Raises(store) == [ok |-> FALSE, store |-> store, owed |-> <<>>]

RunInsert(s) ==
    LET t == s.table
        in == [i \in {FreeRids(heap[t], 1)[1]} |-> s.row]
    IN  IF ~Constrained(t, s.row, Range(heap[t]), heap) THEN Raises(Store)
        ELSE IF Clash(Store, t, in) THEN Raises([Store EXCEPT !.heap = AddRows(Store, t, in).heap])
        ELSE Succeeds(AddRows(Store, t, in), Owed(t, "insert", NoRow, s.row))

\* The rows that satisfy the WHERE condition.
Hit(s) == {i \in DOMAIN heap[s.table] : heap[s.table][i] \in s.where}

\* Rows are checked against what will be left, and deleted, one by one.
RunDelete(s) ==
    LET t == s.table
        doomed == Restrict(heap[t], Hit(s))
        final == [heap EXCEPT ![t] = Restrict(@, DOMAIN @ \ Hit(s))]
        refused == {i \in Hit(s) : ~Unreferenced(t, doomed[i], final)}
        passed == {i \in Hit(s) : \A j \in refused : i < j}
    IN  IF refused # {} THEN Raises(RemoveRows(Store, t, Restrict(doomed, passed)))
        ELSE Succeeds(RemoveRows(Store, t, doomed),
                      OwedAll(t, "delete", InScanOrder(Hit(s)), doomed, [i \in Hit(s) |-> NoRow]))

\* Mutation of RunUpdate: the index entries of the new rows are removed.
RunUpdate_RemovesNew(s) ==
    LET t == s.table
        old == Restrict(heap[t], Hit(s))
        new == [i \in Hit(s) |-> s.set[old[i]]]
        emptied == [RemoveRows(Store, t, new) EXCEPT !.heap[t] = Restrict(heap[t], DOMAIN heap[t] \ Hit(s))]
    IN  Succeeds(AddRows(emptied, t, new), OwedAll(t, "update", InScanOrder(Hit(s)), old, new))

\* The new rows are computed from the old ones and all rows of the table are
\* checked as they will be.  Then the old rows go with their index entries, and
\* the new ones come in the same order, at the record ids that are free.
RunUpdate(s) ==
    LET t == s.table
        order == InScanOrder(Hit(s))
        old == Restrict(heap[t], Hit(s))
        new == [i \in Hit(s) |-> s.set[old[i]]]
        final == [i \in DOMAIN heap[t] |-> IF i \in Hit(s) THEN new[i] ELSE heap[t][i]]
        rows == [heap EXCEPT ![t] = final]
        emptied == RemoveRows(Store, t, old)
        rids == FreeRids(emptied.heap[t], Len(order))
        in == [i \in {rids[n] : n \in 1..Len(order)} |->
                  new[order[CHOOSE n \in 1..Len(order) : rids[n] = i]]]
    IN  IF \/ \E i \in DOMAIN final : ~Constrained(t, final[i],
                                          {final[j] : j \in DOMAIN final \ {i}}, rows)
           \/ \E i \in Hit(s) : ~Unreferenced(t, old[i], rows)
        THEN Raises(Store)
        ELSE IF Clash(emptied, t, in) THEN Raises(emptied)
        ELSE Succeeds(AddRows(emptied, t, in), OwedAll(t, "update", order, old, new))

\* _build_index fails on rows that share a key of a unique index.
RunCreateIndex(s) ==
    LET d == s.index
        rows == heap[d.table]
    IN  IF d \in DOMAIN index \/ (d.unique /\ ~Distinct(rows, d.columns)) THEN Raises(Store)
        ELSE Succeeds([Store EXCEPT !.index =
                          [e \in DOMAIN @ \cup {d} |-> IF e = d THEN EntriesOf(d, rows) ELSE @[e]]], <<>>)

RunDropIndex(s) ==
    IF s.index \notin DOMAIN index THEN Raises(Store)
    ELSE Succeeds([Store EXCEPT !.index = Restrict(@, DOMAIN @ \ {s.index})], <<>>)

Run(s) ==
    CASE s.op = "insert" -> RunInsert(s)
      [] s.op = "update" -> RunUpdate(s)
      [] s.op = "delete" -> RunDelete(s)
      [] s.op = "create index" -> RunCreateIndex(s)
      [] s.op = "drop index" -> RunDropIndex(s)

\* Bound: rows of a table.
WithinBound(done) == \A t \in Tables : DOMAIN done.store.heap[t] \subseteq Rids

(***************************************************************************)
(* Steps.                                                                   *)
(***************************************************************************)
Begin ==
    /\ txn = "none"
    /\ txn' = "explicit"
    /\ saved' = Store
    /\ UNCHANGED <<heap, index, stack, active, failed, sent>>

\* The exception leaves every handler on the stack; an automatic transaction is
\* rolled back, an explicit one is poisoned.
Fail(kind, kept, old) ==
    /\ stack' = <<>>
    /\ active' = {}
    /\ \/ /\ kind = "auto"
          /\ heap' = old.heap /\ index' = old.index
          /\ txn' = "none" /\ saved' = NoStore
          /\ UNCHANGED failed
       \/ /\ kind = "explicit"
          /\ heap' = kept.heap /\ index' = kept.index
          /\ txn' = kind /\ saved' = old
          /\ failed' = TRUE

\* A client sends a statement, inside its transaction or in one of its own.
Submit(s) ==
    /\ stack = <<>> /\ ~failed
    /\ IF txn = "none" THEN UNCHANGED sent ELSE sent < MaxStatements /\ sent' = sent + 1
    /\ LET done == Run(s)
           kind == IF txn = "none" THEN "auto" ELSE txn
           old == IF txn = "none" THEN Store ELSE saved
       IN  /\ WithinBound(done)
           /\ \/ /\ done.ok
                 /\ heap' = done.store.heap /\ index' = done.store.index
                 /\ stack' = <<[trigger |-> NoTrigger, owed |-> done.owed]>>
                 /\ txn' = kind /\ saved' = old
                 /\ UNCHANGED <<active, failed>>
              \/ ~done.ok /\ Fail(kind, done.store, old)

\* Mutation of FireTrigger: a trigger that is running may run again.
FireTrigger_Reenters ==
    /\ stack # <<>>
    /\ Last(stack).owed # <<>>
    /\ UNCHANGED sent
    /\ LET run == Head(Last(stack).owed)
           trigger == Head(run.triggers)
           done == Run(Action(trigger, run.old, run.new))
       IN  /\ WithinBound(done)
           /\ IF ~done.ok THEN Fail(txn, done.store, saved)
              ELSE /\ heap' = done.store.heap /\ index' = done.store.index
                   /\ stack' = Append([stack EXCEPT ![Len(stack)].owed = OwedNext(@)],
                                      [trigger |-> trigger, owed |-> done.owed])
                   /\ active' = active \cup {trigger}
                   /\ UNCHANGED <<txn, failed, saved>>

\* _fire_triggers: the next trigger owed to the innermost statement runs, unless
\* it is running already.
FireTrigger ==
    /\ stack # <<>>
    /\ Last(stack).owed # <<>>
    /\ UNCHANGED sent
    /\ LET run == Head(Last(stack).owed)
           trigger == Head(run.triggers)
           done == Run(Action(trigger, run.old, run.new))
       IN  \/ trigger \in active /\ Fail(txn, Store, saved)     \* RECURSIVE_TRIGGER
           \/ /\ trigger \notin active /\ WithinBound(done)
              /\ ~done.ok /\ Fail(txn, done.store, saved)
           \/ /\ trigger \notin active /\ WithinBound(done)
              /\ done.ok
              /\ heap' = done.store.heap /\ index' = done.store.index
              /\ stack' = Append([stack EXCEPT ![Len(stack)].owed = OwedNext(@)],
                                 [trigger |-> trigger, owed |-> done.owed])
              /\ active' = active \cup {trigger}
              /\ UNCHANGED <<txn, failed, saved>>

\* The innermost statement owes nothing more; the outermost one then commits
\* its own transaction.
Return ==
    /\ stack # <<>>
    /\ Last(stack).owed = <<>>
    /\ stack' = Front(stack)
    /\ active' = active \ {Last(stack).trigger}
    /\ IF Len(stack) = 1 /\ txn = "auto"
       THEN txn' = "none" /\ saved' = NoStore
       ELSE UNCHANGED <<txn, saved>>
    /\ UNCHANGED <<heap, index, failed, sent>>

Commit ==
    /\ txn = "explicit" /\ stack = <<>> /\ ~failed
    /\ txn' = "none" /\ saved' = NoStore
    /\ sent' = 0
    /\ UNCHANGED <<heap, index, stack, active, failed>>

Rollback ==
    /\ txn = "explicit" /\ stack = <<>>
    /\ txn' = "none" /\ saved' = NoStore
    /\ failed' = FALSE
    /\ heap' = saved.heap /\ index' = saved.index
    /\ sent' = 0
    /\ UNCHANGED <<stack, active>>

Next ==
    \/ Begin \/ Commit \/ Rollback
    \/ \E s \in Statements : Submit(s)
    \/ FireTrigger \/ Return

Spec == Init /\ [][Next]_vars

-----------------------------------------------------------------------------
StoreOK(store) ==
    /\ \A t \in Tables : DOMAIN store.heap[t] \subseteq Rids /\ Range(store.heap[t]) \subseteq Rows
    /\ DOMAIN store.index \subseteq IndexDefs
    /\ \A d \in DOMAIN store.index :
          store.index[d] \subseteq [1..Len(d.columns) -> Values] \X Rids

\* A journal exists exactly while a transaction runs.
TypeOK ==
    /\ StoreOK(Store)
    /\ txn \in {"none", "auto", "explicit"}
    /\ IF txn = "none" THEN saved = NoStore ELSE StoreOK(saved)
    /\ failed \in BOOLEAN /\ (failed => txn = "explicit")
    /\ stack # <<>> => txn # "none"
    /\ sent \in 0..MaxStatements

\* Every index has exactly one entry for every row of its table, under the
\* row's key and record id, in the middle of a statement's triggers too: what
\* an index scan finds is what a table scan finds.
IndexesMatch ==
    ~failed => \A d \in DOMAIN index : index[d] = EntriesOf(d, heap[d.table])

\* No two rows share a key of a PRIMARY KEY, of a UNIQUE constraint or of a unique
\* index, nor has a primary key a NULL, whatever order the rows of an UPDATE came in
\* and whatever the triggers wrote.
KeysUnique ==
    ~failed =>
        /\ \A c \in KeyConstraints :
              /\ Distinct(heap[c.table], c.columns)
              /\ c.primary => \A row \in Range(heap[c.table]) : NullFree(KeyOf(row, c.columns))
        /\ \A d \in DOMAIN index : d.unique => Distinct(heap[d.table], d.columns)

\* Every key of a foreign key without a NULL is that of a row of the table it
\* references, by a PRIMARY KEY or by a UNIQUE constraint, be it the same table.
ReferencesHold ==
    ~failed => \A f \in ForeignKeys : \A row \in Range(heap[f.table]) :
        NullFree(KeyOf(row, f.columns)) =>
            \E parent \in Range(heap[f.parent]) :
                KeyOf(parent, f.references) = KeyOf(row, f.columns)

\* Triggers nest only inside a transaction, and one never runs inside itself,
\* through whatever chain of others.
NoReentry ==
    /\ TypeOK
    /\ \A m, n \in 1..Len(stack) : m # n => stack[m].trigger # stack[n].trigger
=============================================================================
