------------------------------ MODULE Queries ------------------------------
(***************************************************************************)
(* How SELECT is answered: the three-valued evaluator (engine/expr.py),    *)
(* the constant folder and the choice of an index                          *)
(* (compiler/extended_optimizer.py) and the plan operators of the executor *)
(* (engine/executor.py), over one table and the indexes that exist on it.  *)
(*                                                                         *)
(* Numbers are counted in tenths, so an INT is a multiple of ten.  An      *)
(* expression is a tuple <<operator, argument, ...>>: <<"literal", v>>,    *)
(* <<"column", source, name>>, <<"=", e, f>>, <<"EXISTS", source, e>> (a   *)
(* subquery over the table).  A context maps sources to rows.  Err is a    *)
(* run-time error, which ends the whole statement.  An index holds exactly *)
(* the entries of the rows, in key order: WritePath and BTreeIndex check   *)
(* that it does.                                                           *)
(***************************************************************************)
EXTENDS Integers, FiniteSets, SequencesExt

CONSTANTS
  Null, Err,      \* model values: SQL's NULL, and an error
  Kind,           \* the table's columns: name -> "INT" or "DECIMAL"
  Values,         \* column -> the values stored in it
  IndexColumns,   \* the indexes, in name order: a sequence of column sequences
  MaxRows,        \* bound: record ids of the table
  IntMax,         \* the largest INT, in tenths
  KeyDigits,      \* significant digits of a DECIMAL that an index key keeps
  Predicates, BasicPredicates,      \* the WHERE clauses asked, and those of
                                    \* the basic dialect
  Expressions, JoinConditions       \* the expressions folded, the ON clauses

ASSUME SizesAssumption == MaxRows \in Nat /\ IntMax \in Nat /\ KeyDigits \in Nat \ {0}

VARIABLES
  table,      \* record id -> row, for the rows that exist
  available   \* positions in IndexColumns of the indexes that exist

vars == <<table, available>>

Columns == DOMAIN Kind
Comparisons == {"=", "!=", "<", "<=", ">", ">="}
RangeOps == Comparisons \ {"!="}
NullRow == [c \in Columns |-> Null]

(* TableScan yields the rows in record-id order, each with its id. *)
Scan ==
  LET ids == SelectSeq([i \in 1..MaxRows |-> i], LAMBDA i : i \in DOMAIN table)
  IN  [i \in DOMAIN ids |-> table[ids[i]] @@ [rid |-> ids[i]]]

-----------------------------------------------------------------------------
(* The evaluator. *)

Failing(xs) == Err \in xs

Plus(x, y) ==
  IF Failing({x, y}) THEN Err
  ELSE IF Null \in {x, y} THEN Null
  ELSE IF x + y > IntMax THEN Err ELSE x + y

Holds(op, x, y) ==
  \/ op = "=" /\ x = y
  \/ op = "!=" /\ x # y
  \/ op = "<" /\ x < y
  \/ op = "<=" /\ x <= y
  \/ op = ">" /\ x > y
  \/ op = ">=" /\ x >= y

Compare(op, x, y) ==
  IF Failing({x, y}) THEN Err ELSE IF Null \in {x, y} THEN Null ELSE Holds(op, x, y)

(* Both operands have been evaluated: an error in either is an error. *)
BooleanValues(op, x, y) ==
  LET decisive == op = "OR"
  IN  IF Failing({x, y}) THEN Err
      ELSE IF decisive \in {x, y} THEN decisive
      ELSE IF Null \in {x, y} THEN Null ELSE ~decisive

(* IN over a list stops at the first TRUE: items after it are not evaluated. *)
InItem(sofar, x, y) ==
  IF sofar = TRUE THEN TRUE ELSE BooleanValues("OR", sofar, Compare("=", x, y))

(* The sources whose columns an expression names, subqueries excluded. *)
RECURSIVE Sources(_)
Sources(e) ==
  IF e[1] = "column" THEN {e[2]}
  ELSE IF e[1] \in {"literal", "EXISTS"} THEN {}
  ELSE UNION {Sources(e[i]) : i \in 2..Len(e)}

(* The source under which each scan of a query block binds its rows: its own *)
(* when the block names a column of it, else the only source named and not   *)
(* yet taken whose columns fit (every source scans the same table here),     *)
(* else none.                                                                *)
ScanAssignments(leaves, named) ==
  LET assign(done, leaf) ==
        LET free == named \ ToSet(done)
            key == IF leaf \in free THEN leaf
                   ELSE IF Cardinality(free) = 1 THEN CHOOSE s \in free : TRUE ELSE Null
        IN  Append(done, key)
  IN  FoldLeft(assign, <<>>, leaves)

RECURSIVE Eval(_, _)
Eval(e, context) ==
  LET arg(i) == Eval(e[i + 1], context)
      key == ScanAssignments(<<e[2]>>, Sources(e[3]))[1]
      inner(row) == IF key = Null THEN context ELSE (key :> row) @@ context
      sub == {Eval(e[3], inner(row)) : row \in ToSet(Scan)}
  IN  CASE e[1] = "literal" -> e[2]
        [] e[1] = "column" -> context[e[2]][e[3]]
        [] e[1] = "+" -> Plus(arg(1), arg(2))
        [] e[1] \in Comparisons -> Compare(e[1], arg(1), arg(2))
        [] e[1] \in {"AND", "OR"} -> BooleanValues(e[1], arg(1), arg(2))
        [] e[1] = "NOT" -> IF arg(1) \in {Null, Err} THEN arg(1) ELSE ~arg(1)
        [] e[1] = "IS NULL" -> IF arg(1) = Err THEN Err ELSE arg(1) = Null
        [] e[1] = "IN" ->
             FoldLeftDomain(LAMBDA acc, i : IF i < 3 THEN acc ELSE InItem(acc, arg(1), arg(i - 1)),
                            FALSE, e)
        [] e[1] = "EXISTS" -> IF Failing(sub) THEN Err ELSE TRUE \in sub

-----------------------------------------------------------------------------
(* Constant folding.  Err here means that the expression is left as it is. *)

(* Mutant: NULL decides AND before FALSE does. *)
FoldedValue_NullFirst(op, xs) ==
  CASE op = "IS NULL" -> xs[1] = Null
    [] op = "NOT" -> IF xs[1] = Null THEN Null ELSE ~xs[1]
    [] op \in {"AND", "OR"} -> IF Null \in ToSet(xs) THEN Null ELSE (op = "OR") = (TRUE \in ToSet(xs))
    [] op \in Comparisons -> IF Null \in ToSet(xs) THEN Null ELSE Holds(op, xs[1], xs[2])
    [] OTHER -> Err

FoldedValue(op, xs) ==
  CASE op = "IS NULL" -> xs[1] = Null
    [] op = "NOT" -> IF xs[1] = Null THEN Null ELSE ~xs[1]
    [] op = "AND" -> IF FALSE \in ToSet(xs) THEN FALSE ELSE IF Null \in ToSet(xs) THEN Null ELSE TRUE
    [] op = "OR" -> IF TRUE \in ToSet(xs) THEN TRUE ELSE IF Null \in ToSet(xs) THEN Null ELSE FALSE
    [] op \in Comparisons -> IF Null \in ToSet(xs) THEN Null ELSE Holds(op, xs[1], xs[2])
    [] op = "+" -> IF Null \in ToSet(xs) THEN Null
                   ELSE IF xs[1] + xs[2] > IntMax THEN Err ELSE xs[1] + xs[2]
    [] OTHER -> Err

RECURSIVE Fold(_)
Fold(e) ==
  IF e[1] \in {"literal", "column", "EXISTS"} THEN e
  ELSE LET args == [i \in 1..(Len(e) - 1) |-> Fold(e[i + 1])]
           constant == \A i \in DOMAIN args : args[i][1] = "literal"
           value == FoldedValue(e[1], [i \in DOMAIN args |-> args[i][2]])
       IN  IF constant /\ value # Err THEN <<"literal", value>> ELSE <<e[1]>> \o args

-----------------------------------------------------------------------------
(* Choosing an index for Filter over TableScan. *)

RECURSIVE Terms(_)
Terms(e) == IF e[1] = "AND" THEN Terms(e[2]) \o Terms(e[3]) ELSE <<e>>

(* A predicate that may fail on a row is never given a narrower scan. *)
RECURSIVE Safe(_)
Safe(e) ==
  \/ e[1] \in {"literal", "column"}
  \/ /\ e[1] \in Comparisons \cup {"AND", "OR", "NOT", "IS NULL"}
     /\ \A i \in 2..Len(e) : Safe(e[i])

Flip == [op \in RangeOps |->
           CASE op = "<" -> ">" [] op = "<=" -> ">=" [] op = ">" -> "<" [] op = ">=" -> "<="
             [] OTHER -> op]

(* Mutant: the operands are exchanged and the operator is not. *)
Normal_NoFlip(t) ==
  IF t[2][1] = "literal" /\ t[3][1] = "column" THEN <<t[1], t[3], t[2]>> ELSE t

(* A comparison with the literal first is read from right to left. *)
Normal(t) ==
  IF t[2][1] = "literal" /\ t[3][1] = "column" THEN <<Flip[t[1]], t[3], t[2]>> ELSE t

(* The bounds <<column, operator, literal>> a predicate gives a column. *)
Matches(e, column) ==
  LET compared == SelectSeq(Terms(e), LAMBDA t : t[1] \in RangeOps)
      normal == [i \in DOMAIN compared |-> Normal(compared[i])]
      usable(t) == /\ t[2][1] = "column" /\ t[2][3] = column
                   /\ t[3][1] = "literal" /\ t[3][2] # Null
      found == SelectSeq(normal, usable)
  IN  [i \in DOMAIN found |-> <<column, found[i][1], found[i][3][2]>>]

Equalities(bounds, column) == SelectSeq(bounds, LAMBDA b : b[1] = column /\ b[2] = "=")

(* How many leading columns of an index are bound by an equality. *)
EqualPrefix(columns, bounds) ==
  Max({n \in 0..Len(columns) :
         \A i \in 1..n : Equalities(bounds[columns[i]], columns[i]) # <<>>})

Choice(columns, of, n) ==
  LET range == IF n < Len(columns) THEN of[columns[n + 1]] ELSE <<>>
  IN  [equal |-> n, ranged |-> range # <<>>,
       bounds |-> FlattenSeq([i \in 1..n |-> Equalities(of[columns[i]], columns[i])]) \o range]

Chosen(e, columns) ==
  LET of == [c \in ToSet(columns) |-> Matches(e, c)]
  IN  Choice(columns, of, EqualPrefix(columns, of))

(* Most equalities first, then a range, then the name. *)
Better(choices, i, j) ==
  LET x == choices[i] y == choices[j]
  IN  \/ x.equal > y.equal
      \/ x.equal = y.equal /\ x.ranged /\ ~y.ranged
      \/ x.equal = y.equal /\ x.ranged = y.ranged /\ i <= j

Best(choices, candidates) ==
  {i \in candidates : \A j \in candidates : Better(choices, i, j)}

(* The index to scan and its bounds, or none. *)
BestIndex(e) ==
  LET choices == [i \in available |-> Chosen(e, IndexColumns[i])]
      usable == {i \in available : choices[i].bounds # <<>>}
  IN  IF ~Safe(e) THEN {}
      ELSE {[columns |-> IndexColumns[i], bounds |-> choices[i].bounds] : i \in Best(choices, usable)}

-----------------------------------------------------------------------------
(* Index keys and the scan between two bounds. *)

NumberOfDigits(v) == CHOOSE d \in 1..9 : 10 ^ (d - 1) <= v + (IF v = 0 THEN 1 ELSE 0) /\ v < 10 ^ d

(* Decimal.normalize() rounds half-even to the digits of the context. *)
RoundedTo(v, unit) ==
  unit * ((v \div unit) + IF 2 * (v % unit) + ((v \div unit) % 2) > unit THEN 1 ELSE 0)
Normalized(v) == RoundedTo(v, 10 ^ Max({0, NumberOfDigits(v) - KeyDigits}))

EncodeValue(column, v) ==
  IF v = Null \/ Kind[column] = "INT" THEN v ELSE Normalized(v)

Encode(columns, xs) == [i \in DOMAIN xs |-> EncodeValue(columns[i], xs[i])]

(* The mark of NULL is below that of a value; a prefix is below its extensions. *)
ValueBelow(x, y) == y # Null /\ (x = Null \/ x < y)
KeyBelow(k, l) ==
  \/ IsStrictPrefix(k, l)
  \/ \E i \in DOMAIN k \cap DOMAIN l :
       SubSeq(k, 1, i - 1) = SubSeq(l, 1, i - 1) /\ k[i] # l[i] /\ ValueBelow(k[i], l[i])

RowKey(columns, row) == Encode(columns, [i \in DOMAIN columns |-> row[columns[i]]])

(* The index's entries, in order. *)
Entries(columns) ==
  LET rows == Scan
      below(x, y) == KeyBelow(x.key, y.key) \/ (x.key = y.key /\ x.row.rid < y.row.rid)
  IN  SortSeq([i \in DOMAIN rows |-> [key |-> RowKey(columns, rows[i]), row |-> rows[i]]], below)

(* A bound outside the eight bytes of an INT cannot be packed. *)
Packable(columns, key) ==
  \A i \in DOMAIN key : key[i] = Null \/ Kind[columns[i]] = "DECIMAL" \/ key[i] <= IntMax

Project(rows, column) == [i \in DOMAIN rows |-> rows[i][column]]

Skipped(key, low, inclusive) ==
  low # <<>> /\ (KeyBelow(key, low) \/ (~inclusive /\ IsPrefix(low, key)))
Beyond(key, high, inclusive) ==
  high # <<>> /\ IF IsPrefix(high, key) THEN ~inclusive ELSE KeyBelow(high, key)

(* The scan ends at the first entry beyond: so are all those after it. *)
EntriesBetween(entries, low, high, lowInclusive, highInclusive) ==
  SelectSeq(entries, LAMBDA x : ~Skipped(x.key, low, lowInclusive)
                                /\ ~Beyond(x.key, high, highInclusive))

RangeScan(columns, lo, hi, loInclusive, hiInclusive) ==
  IF ~Packable(columns, lo) \/ ~Packable(columns, hi) THEN Err
  ELSE Project(EntriesBetween(Entries(columns), Encode(columns, lo), Encode(columns, hi),
                              loInclusive, hiInclusive), "row")

(* An INT column compared with a DECIMAL: the bound is widened to an INT. *)
CoerceIndexBound(column, v, direction) ==
  IF Kind[column] = "DECIMAL" \/ v % 10 = 0 THEN v
  ELSE IF direction = "hi" THEN v - (v % 10) + 10 ELSE v - (v % 10)

ScanAfter(columns, bounds, n) ==
  LET equal == [i \in 1..n |->
                  CoerceIndexBound(columns[i], Equalities(bounds, columns[i])[1][3], "=")]
      side(ops) == IF n = Len(columns) THEN <<>>
                   ELSE SelectSeq(bounds, LAMBDA b : b[1] = columns[n + 1] /\ b[2] \in ops)
      extend(found, direction) ==
        IF found = <<>> THEN equal
        ELSE equal \o <<CoerceIndexBound(columns[n + 1], found[1][3], direction)>>
      inclusive(found, op) == found = <<>> \/ found[1][2] = op
      lower == side({">", ">="})
      upper == side({"<", "<="})
  IN  RangeScan(columns, extend(lower, "lo"), extend(upper, "hi"),
                inclusive(lower, ">="), inclusive(upper, "<="))

IndexScan(columns, bounds) ==
  ScanAfter(columns, bounds,
            EqualPrefix(columns, [c \in ToSet(columns) |-> SelectSeq(bounds, LAMBDA b : b[1] = c)]))

-----------------------------------------------------------------------------
(* Plan operators. *)

Filter(e, rows) ==
  LET keep(kept, r) ==
        LET value == Eval(e, 1 :> r)
        IN  IF kept = Err \/ value = Err THEN Err
            ELSE IF value = TRUE THEN Append(kept, r) ELSE kept
  IN  IF rows = Err THEN Err ELSE FoldLeft(keep, <<>>, rows)

(* SELECT * FROM t WHERE e, as compiled and optimised. *)
Select(e) ==
  LET folded == Fold(e)
      scans == {IndexScan(x.columns, x.bounds) : x \in BestIndex(folded)}
  IN  Filter(folded, IF scans = {} THEN Scan ELSE CHOOSE scan \in scans : TRUE)

(* The basic dialect has a compiler, optimiser and evaluator of its own: it  *)
(* answers queries on tables of plain columns until an index is created.     *)
RECURSIVE MayOverflow(_)
MayOverflow(e) ==
  e[1] = "+" \/ (e[1] \notin {"literal", "column"} /\ \E i \in 2..Len(e) : MayOverflow(e[i]))

Constant(e, value) == e[1] = "literal" /\ e[2] = value

(* AND with FALSE and OR with TRUE absorb only an operand that cannot fail.  *)
Absorbs(e, absorbing) ==
  \/ Constant(e[2], absorbing) /\ ~MayOverflow(e[3])
  \/ Constant(e[3], absorbing) /\ ~MayOverflow(e[2])

(* One node, its operands folded. *)
SimplifyBasic(f) ==
  LET neutral == f[1] = "AND"
  IN  CASE \A i \in 2..Len(f) : f[i][1] = "literal" ->
             IF Eval(f, << >>) = Err THEN f ELSE <<"literal", Eval(f, << >>)>>
        [] f[1] = "NOT" /\ f[2][1] = "NOT" -> f[2][2]
        [] f[1] \in {"AND", "OR"} /\ Constant(f[2], neutral) -> f[3]
        [] f[1] \in {"AND", "OR"} /\ Constant(f[3], neutral) -> f[2]
        [] f[1] \in {"AND", "OR"} /\ Absorbs(f, ~neutral) -> <<"literal", ~neutral>>
        [] OTHER -> f

RECURSIVE FoldBasic(_)
FoldBasic(e) ==
  IF e[1] \in {"literal", "column"} THEN e
  ELSE SimplifyBasic(<<e[1]>> \o [i \in 1..(Len(e) - 1) |-> FoldBasic(e[i + 1])])

(* Its evaluator decides the operators it has as Eval does. *)
BasicScan(e) == Filter(e, Scan)

(* TRUE drops the filter, FALSE the scan. *)
BasicSelect(e) ==
  LET folded == FoldBasic(e)
  IN  IF Constant(folded, TRUE) THEN Scan
      ELSE IF Constant(folded, FALSE) THEN <<>> ELSE BasicScan(folded)

(* Stable sort: r before s when its key is smaller (larger when descending). *)
StableSorted(rows, column, descending) ==
  LET before(i, j) == LET x == rows[i][column] y == rows[j][column]
                      IN  IF x = y THEN i < j ELSE IF descending THEN x > y ELSE x < y
      rank(i) == Cardinality({j \in DOMAIN rows : j # i /\ before(j, i)})
  IN  [n \in DOMAIN rows |-> rows[CHOOSE i \in DOMAIN rows : rank(i) = n - 1]]

SortPass(rows, column, descending) ==
  LET nulls == SelectSeq(rows, LAMBDA r : r[column] = Null)
      valued == StableSorted(SelectSeq(rows, LAMBDA r : r[column] # Null), column, descending)
  IN  IF descending THEN nulls \o valued ELSE valued \o nulls

(* Mutant: the passes run from the first key to the last. *)
SortRows_FirstToLast(rows, keys) ==
  FoldLeft(LAMBDA sorted, k : SortPass(sorted, k.column, k.descending), rows, keys)

(* keys: a sequence of [column, descending]; one pass per key, last key first. *)
SortRows(rows, keys) ==
  FoldRight(LAMBDA k, sorted : SortPass(sorted, k.column, k.descending), keys, rows)

(* Mutant: an unknown condition accepts the pair. *)
Matched_Unknown(on, l, r) == Eval(on, <<l, r>>) # FALSE

(* An ON condition accepts a pair only when it is TRUE, not when it is unknown. *)
Matched(on, l, r) == Eval(on, <<l, r>>) = TRUE

(* Nested loops; the outer side's rows without a partner are padded with NULLs. *)
JoinRows(kind, left, right, on) ==
  LET partnersOfLeft(l) == SelectSeq(right, LAMBDA r : Matched(on, l, r))
      partnersOfRight(r) == SelectSeq(left, LAMBDA l : Matched(on, l, r))
      leftRow(l) ==
        LET found == partnersOfLeft(l)
        IN  IF found = <<>> /\ kind = "LEFT" THEN <<<<l, NullRow>>>>
            ELSE [i \in DOMAIN found |-> <<l, found[i]>>]
      rightRow(r) ==
        LET found == partnersOfRight(r)
        IN  IF found = <<>> THEN <<<<NullRow, r>>>> ELSE [i \in DOMAIN found |-> <<found[i], r>>]
      failing == \E l \in ToSet(left), r \in ToSet(right) : Eval(on, <<l, r>>) = Err
  IN  IF failing THEN Err
      ELSE IF kind = "RIGHT" THEN FlattenSeq([i \in DOMAIN right |-> rightRow(right[i])])
      ELSE FlattenSeq([i \in DOMAIN left |-> leftRow(left[i])])

(* Mutant: NULL, unequal to itself in a comparison, is always kept. *)
Dedupe_KeepsNulls(xs) ==
  FoldLeft(LAMBDA kept, x : IF x # Null /\ x \in ToSet(kept) THEN kept ELSE Append(kept, x), <<>>, xs)

(* First occurrences in order; NULL is a duplicate of NULL. *)
Dedupe(xs) ==
  FoldLeft(LAMBDA kept, x : IF x \in ToSet(kept) THEN kept ELSE Append(kept, x), <<>>, xs)

SetOperation(kind, left, right) ==
  CASE kind = "UNION ALL" -> left \o right
    [] kind = "UNION" -> Dedupe(left \o right)
    [] kind = "INTERSECT" -> Dedupe(SelectSeq(left, LAMBDA x : x \in ToSet(right)))
    [] kind = "EXCEPT" -> Dedupe(SelectSeq(left, LAMBDA x : x \notin ToSet(right)))

(* OFFSET and LIMIT. *)
Slice(rows, offset, limit) == SubSeq(rows, offset + 1, Min({Len(rows), offset + limit}))

(* The operators above the filter: projection, DISTINCT, ORDER BY and LIMIT, *)
(* in this order.                                                            *)
Arranged(query, found) ==
  LET projected == [i \in DOMAIN found |-> Restrict(found[i], query.columns)]
      unique == IF query.distinct THEN Dedupe(projected) ELSE projected
  IN  IF found = Err THEN Err
      ELSE Slice(SortRows(unique, query.keys), query.offset, query.limit)

(* COUNT( * ), COUNT(c), SUM(c), MAX(c) and MIN(c) over the rows of a group. *)
AggregateValue(op, column, members) ==
  LET values == SelectSeq(Project(members, column), LAMBDA v : v # Null)
      total == FoldLeft(LAMBDA x, y : x + y, 0, values)
  IN  CASE op = "COUNT(*)" -> Len(members)
        [] op = "COUNT" -> Len(values)
        [] values = <<>> -> Null
        [] op = "SUM" -> IF Kind[column] = "INT" /\ total > IntMax THEN Err ELSE total
        [] op = "MAX" -> Max(ToSet(values))
        [] op = "MIN" -> Min(ToSet(values))

(* GROUP BY column: one bucket per key, in the order the keys first appear. *)
Groups(rows, column) ==
  LET bucket(groups, row) ==
        IF \E i \in DOMAIN groups : groups[i].key = row[column]
        THEN [i \in DOMAIN groups |->
                IF groups[i].key = row[column]
                THEN [groups[i] EXCEPT !.members = Append(@, row)] ELSE groups[i]]
        ELSE Append(groups, [key |-> row[column], members |-> <<row>>])
  IN  FoldLeft(bucket, <<>>, rows)

-----------------------------------------------------------------------------
Init == table = << >> /\ available = {}

Insert(rid, row) ==
  /\ rid \notin DOMAIN table
  /\ table' = table @@ (rid :> row)
  /\ UNCHANGED available

Delete(rid) ==
  /\ rid \in DOMAIN table
  /\ table' = [r \in DOMAIN table \ {rid} |-> table[r]]
  /\ UNCHANGED available

CreateIndex(i) == i \notin available /\ available' = available \cup {i} /\ UNCHANGED table
DropIndex(i) == i \in available /\ available' = available \ {i} /\ UNCHANGED table

Rows == {row \in [Columns -> UNION {Values[c] : c \in Columns}] : \A c \in Columns : row[c] \in Values[c]}

Next ==
  \/ \E rid \in 1..MaxRows, row \in Rows : Insert(rid, row)
  \/ \E rid \in 1..MaxRows : Delete(rid)
  \/ \E i \in DOMAIN IndexColumns : CreateIndex(i) \/ DropIndex(i)

Spec == Init /\ [][Next]_vars

-----------------------------------------------------------------------------
(* Answers are the same rows, or both are errors. *)
SameAnswer(x, y) ==
  IF x = Err \/ y = Err THEN x = y ELSE ToSet(x) = ToSet(y) /\ Len(x) = Len(y)

(* What does not look at the indexes is decided once per table. *)
NoIndexes == available = {}

(* Neither optimiser changes an answer: whatever indexes exist, the folded *)
(* predicate over the chosen index scan gives the rows, or the error, that *)
(* the predicate as written gives over the whole table; and so does the    *)
(* basic dialect, which answers until the first index is created.          *)
IndexAnswers ==
  /\ \A e \in Predicates : SameAnswer(Select(e), Filter(e, Scan))
  /\ NoIndexes => \A e \in BasicPredicates : SameAnswer(BasicSelect(e), Filter(e, Scan))

(* Folding keeps the value of an expression on every stored row: NULL,     *)
(* TRUE, FALSE and the overflow error included.                            *)
FoldSound ==
  NoIndexes => \A e \in Expressions :
    LET folded == Fold(e)
    IN  \A r \in ToSet(Scan) : Eval(folded, 1 :> r) = Eval(e, 1 :> r)

(* joined holds each row of a side once per partner, or padded if it has none. *)
Preserves(on, side, joined) ==
  \A r \in ToSet(Scan) :
    LET mine == SelectSeq(joined, LAMBDA pair : pair[side] = r)
        padded == \E pair \in ToSet(mine) : pair[3 - side] = NullRow
        partners == {q \in ToSet(Scan) : Eval(on, IF side = 1 THEN <<r, q>> ELSE <<q, r>>) = TRUE}
    IN  IF Eval(<<"EXISTS", 3 - side, on>>, side :> r)
        THEN ~padded /\ Len(mine) = Cardinality(partners)
        ELSE padded /\ Len(mine) = 1

(* An outer join agrees with the correlated subquery: a preserved row is   *)
(* padded exactly when NOT EXISTS (the other side, ON), and appears once   *)
(* per partner otherwise; RIGHT preserves its side the way LEFT does.      *)
OuterJoinsAgree ==
  NoIndexes => \A on \in JoinConditions :
    /\ Preserves(on, 1, JoinRows("LEFT", Scan, Scan, on))
    /\ Preserves(on, 2, JoinRows("RIGHT", Scan, Scan, on))

(* The order that a list of keys asks for; tied decides between equal keys. *)
Precedes(x, y, descending) ==
  IF descending THEN (x = Null /\ y # Null) \/ (x # Null /\ y # Null /\ x > y)
  ELSE (x # Null /\ y = Null) \/ (x # Null /\ y # Null /\ x < y)

Ascending(rows, keys, tied(_, _)) ==
  \A i, j \in DOMAIN rows : i < j =>
    LET r == rows[i] s == rows[j]
    IN  \/ \E k \in DOMAIN keys :
             /\ Precedes(r[keys[k].column], s[keys[k].column], keys[k].descending)
             /\ \A l \in 1..(k - 1) : r[keys[l].column] = s[keys[l].column]
        \/ /\ \A k \in DOMAIN keys : r[keys[k].column] = s[keys[k].column]
           /\ tied(r, s)

(* ORDER BY with several keys is the lexicographic order, NULL last when   *)
(* ascending and first when descending, with ties left in scan order,      *)
(* although it is computed by one single-key pass per key; pages of one    *)
(* row each, put end to end, are the whole answer; DISTINCT keeps the      *)
(* order and one row of each kind.                                         *)
SortStable ==
  \A c, d \in Columns, cDescending, dDescending \in BOOLEAN :
    LET keys == <<[column |-> c, descending |-> cDescending],
                  [column |-> d, descending |-> dDescending]>>
        query == [columns |-> Columns \cup {"rid"}, distinct |-> FALSE, keys |-> keys,
                  offset |-> 0, limit |-> MaxRows]
        kindsOnly == [query EXCEPT !.columns = {c, d}, !.distinct = TRUE]
        page(n) == [query EXCEPT !.offset = n, !.limit = 1]
    IN  /\ \E sorted \in {Arranged(query, Scan)} :
             /\ ToSet(sorted) = ToSet(Scan)
             /\ Ascending(sorted, keys, LAMBDA r, s : r.rid < s.rid)
             /\ sorted = FlattenSeq([n \in 1..MaxRows |-> Arranged(page(n - 1), Scan)])
        /\ \E kinds \in {Arranged(kindsOnly, Scan)} :
             /\ ToSet(kinds) = {Restrict(r, {c, d}) : r \in ToSet(Scan)}
             /\ Ascending(kinds, keys, LAMBDA r, s : FALSE)

(* DISTINCT, GROUP BY, UNION, INTERSECT and EXCEPT have one notion of a    *)
(* duplicate, in which NULL equals NULL; the groups partition the rows, so *)
(* their COUNT and SUM add up and no extreme value is lost between them.   *)
DuplicatesAgree ==
  \A c, d \in Columns :
    LET xs == Project(Scan, c)
        ys == Project(Scan, d)
        distinct == Dedupe(xs)
        groups == Groups(Scan, c)
        inBoth == SetOperation("INTERSECT", xs, ys)
        onlyLeft == SetOperation("EXCEPT", xs, ys)
        part(op) == [i \in DOMAIN groups |-> AggregateValue(op, d, groups[i].members)]
        parts(op) == {part(op)[i] : i \in DOMAIN groups} \ {Null}
        total(op) ==
          FoldFunction(LAMBDA v, sum : IF v = Null THEN sum ELSE sum + v, 0, part(op))
        whole(op) == AggregateValue(op, d, Scan)
    IN  /\ Cardinality(ToSet(distinct)) = Len(distinct)
        /\ Project(groups, "key") = distinct
        /\ SetOperation("UNION", xs, xs) = distinct
        /\ ToSet(inBoth) \cup ToSet(onlyLeft) = ToSet(xs)
        /\ Len(inBoth) + Len(onlyLeft) = Len(distinct)
        /\ \A op \in {"COUNT(*)", "COUNT"} : total(op) = whole(op)
        /\ whole("SUM") \notin {Null, Err} => total("SUM") = whole("SUM")
        /\ whole("MAX") = IF parts("MAX") = {} THEN Null ELSE Max(parts("MAX"))
        /\ whole("MIN") = IF parts("MIN") = {} THEN Null ELSE Min(parts("MIN"))
=============================================================================
