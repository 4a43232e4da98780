----------------------------- MODULE MCWritePath -----------------------------
(***************************************************************************)
(* A small schema.  node is a table whose rows reference each other by a    *)
(* UNIQUE column that may be NULL; edge, which has a primary key and a      *)
(* CHECK, references node; mirror has no constraints.  Triggers copy every  *)
(* change of edge to mirror; a row deleted from mirror takes the node it    *)
(* names with it, and a node its edge, which closes a cycle.                *)
(***************************************************************************)
EXTENDS WritePath, TLC

MCTables == {"node", "edge", "mirror"}
MCKeyConstraints ==
    {[table |-> "node", columns |-> <<"k">>, primary |-> FALSE],
     [table |-> "edge", columns |-> <<"k">>, primary |-> TRUE]}
MCForeignKeys ==
    {[table |-> t, columns |-> <<"r">>, parent |-> "node", references |-> <<"k">>] : t \in {"node", "edge"}}
MCAdmitted == [t \in MCTables |-> IF t = "edge" THEN {row \in Rows : ~(row.k = 2 /\ row.r = 2)} ELSE Rows]

NodeByRef == [table |-> "node", columns |-> <<"r">>, unique |-> TRUE]
EdgeByRef == [table |-> "edge", columns |-> <<"r", "k">>, unique |-> FALSE]
MCIndexDefs == {NodeByRef, EdgeByRef}

Where(column, values) == {row \in Rows : row[column] \in values \ {Null}}
Always == Rows
Insert(t, k, r) == [op |-> "insert", table |-> t, row |-> [k |-> k, r |-> r]]
Delete(t, where) == [op |-> "delete", table |-> t, where |-> where]
Update(t, where, column, value) ==
    [op |-> "update", table |-> t, where |-> where,
     set |-> [row \in Rows |-> [row EXCEPT ![column] = value[@]]]]

MCTriggers ==
    [t \in MCTables |-> [event \in Events |->
        CASE t = "edge" /\ event = "insert"   -> <<"copy">>
          [] t = "edge" /\ event = "delete"   -> <<"erase">>
          [] t = "edge" /\ event = "update"   -> <<"change">>
          [] t = "mirror" /\ event = "delete" -> <<"chain">>
          [] t = "node" /\ event = "delete"   -> <<"detach">>
          [] OTHER -> <<>>]]

MCAction(name, old, new) ==
    CASE name = "copy"   -> Insert("mirror", new.k, new.r)
      [] name = "erase"  -> Delete("mirror", Where("k", {old.k}))
      [] name = "change" -> Update("mirror", Where("k", {old.k}), "r", [v \in Values |-> new.r])
      [] name = "chain"  -> Delete("node", Where("k", {old.r}))
      [] name = "detach" -> Delete("edge", Where("k", {old.k}))

Swap == [v \in Values |-> CASE v = 1 -> 2 [] v = 2 -> 1 [] OTHER -> v]
Const(x) == [v \in Values |-> x]

MCStatements ==
    {Insert("node", k, r) : k \in Keys, r \in Values} \cup {Insert("node", Null, Null)}
    \cup {Insert("edge", Null, 1), Insert("edge", 1, 1), Insert("edge", 1, 2), Insert("edge", 2, 1)}
    \cup {Delete("node", Always), Delete("node", Where("k", {1})), Delete("edge", Always)}
    \cup {Update("node", Always, "k", Swap), Update("node", Always, "r", Const(1)),
          Update("node", Always, "r", Swap), Update("edge", Always, "r", Swap),
          Update("edge", Where("k", {1}), "r", Const(Null))}
    \cup {[op |-> op, index |-> d] : op \in {"create index", "drop index"}, d \in MCIndexDefs}

\* The triggers keep mirror a copy of edge: every row event ran its trigger
\* once, with the right OLD and NEW rows, or the statement failed.
Mirrored ==
    stack = <<>> /\ ~failed => Range(heap["mirror"]) = Range(heap["edge"])
=============================================================================
