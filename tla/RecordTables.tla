---------------------------- MODULE RecordTables ----------------------------
(***************************************************************************)
(* What the record layer promises the engine (contracts/interfaces.py,      *)
(* RecordStorage): tables of rows, each row under a record id that keeps    *)
(* naming it, for the indexes, until that row is deleted or the table is    *)
(* rewritten.                                                               *)
(***************************************************************************)
EXTENDS Naturals, FiniteSets, Functions

CONSTANTS Tables, Rids, Rows, Missing

VARIABLES rows,     \* rows[t]: a function from record ids to rows, or Missing
          answer    \* the last call, with its arguments and what it returned

rvars == <<rows, answer>>

\* The rows the file holds when it is opened.
RInit ==
    /\ \A t \in Tables : rows[t] = Missing
                          \/ (DOMAIN rows[t] \subseteq Rids /\ Range(rows[t]) \subseteq Rows)
    /\ answer = <<"none">>

Create(t) ==
    /\ answer' = <<"created", t>>
    /\ rows[t] = Missing
    /\ rows' = [rows EXCEPT ![t] = [rid \in {} |-> Missing]]

Drop(t) ==
    /\ answer' = <<"dropped", t>>
    /\ rows[t] # Missing
    /\ rows' = [rows EXCEPT ![t] = Missing]

\* A record id names one row, of one table.
Insert(t, rid, row) ==
    /\ answer' = <<"inserted", t, rid, row>>
    /\ rows[t] # Missing
    /\ \A u \in Tables : rows[u] = Missing \/ rid \notin DOMAIN rows[u]
    /\ rows' = [rows EXCEPT ![t] =
                  [r \in DOMAIN @ \cup {rid} |-> IF r = rid THEN row ELSE @[r]]]

Delete(t, rid) ==
    /\ answer' = <<"deleted", t, rid>>
    /\ rows[t] # Missing
    /\ rid \in DOMAIN rows[t]
    /\ rows' = [rows EXCEPT ![t] = [r \in DOMAIN @ \ {rid} |-> @[r]]]

\* Every row is transformed or dropped, none is lost or duplicated; the record
\* ids are new.
Rewrite(t, transform) ==
    /\ answer' = <<"rewritten", t, transform>>
    /\ rows[t] # Missing
    /\ LET before == rows[t]
           after == rows'[t]
           old == {r \in DOMAIN before : transform[before[r]] # Missing}
       IN  /\ after # Missing
           /\ \E from \in [DOMAIN after -> old] :
                 /\ \A r \in old : \E n \in DOMAIN from : from[n] = r
                 /\ Cardinality(DOMAIN from) = Cardinality(old)
                 /\ \A n \in DOMAIN from : after[n] = transform[before[from[n]]]
    /\ \A u \in Tables \ {t} : rows'[u] = rows[u]

RNext ==
    \/ \E t \in Tables :
          \/ Create(t) \/ Drop(t)
          \/ \E rid \in Rids :
                \/ Delete(t, rid)
                \/ \E row \in Rows : Insert(t, rid, row)
          \/ \E transform \in [Rows -> Rows \cup {Missing}] : Rewrite(t, transform)

RSpec == RInit /\ [][RNext]_rvars
=============================================================================
