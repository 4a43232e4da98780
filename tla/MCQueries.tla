----------------------------- MODULE MCQueries -----------------------------
(* Two columns, d DECIMAL and n INT, an index on (d) and one on (n, d).     *)
EXTENDS Queries

MCKind == [d |-> "DECIMAL", n |-> "INT"]
MCValues == [d |-> {10, 11, Null}, n |-> {10, 20, Null}]
MCIndexColumns == << <<"d">>, <<"n", "d">> >>

Column(c) == <<"column", 1, c>>
Literal(v) == <<"literal", v>>
Literals == {Literal(v) : v \in {10, 11}}
Both(x, y) == <<"AND", x, y>>

ColumnFirst == {<<op, Column("d"), l>> : op \in RangeOps, l \in Literals}
               \cup {<<op, Column("n"), Literal(11)>> : op \in RangeOps}
LiteralFirst == {<<op, Literal(11), Column("d")>> : op \in {"=", "<"}}
                \cup {<<op, Literal(10), Column("n")>> : op \in {"=", "<"}}

(* n + 1 fails where n = 2; 1 + 1 folds to 2 and 2 + 1 overflows. *)
Sum == <<"+", Column("n"), Literal(10)>>
Failing1 == {<<"<", Sum, Literal(30)>>, <<"=", <<"+", Literal(20), Literal(10)>>, Column("n")>>}

OnDecimal == {x \in ColumnFirst : x[2] = Column("d")}
MCPredicates ==
  {Both(x, y) : x \in ColumnFirst, y \in LiteralFirst}
  \cup {Both(x, y) : x \in OnDecimal, y \in Failing1}
  \cup {Both(<<"=", Column("n"), <<"+", Literal(10), Literal(10)>>>>, x) : x \in OnDecimal}
  \cup {Both(<<"<", Column("d"), Literal(Null)>>, x) : x \in OnDecimal}
  \cup {<<"NOT", x>> : x \in OnDecimal}
  \cup {<<"OR", x, <<"IS NULL", Column("n")>>>> : x \in OnDecimal}

Numbers == {Literal(10), Literal(Null), Column("n"), <<"+", Literal(10), Literal(20)>>, Sum}
Tests == {<<op, x, y>> : op \in {"=", "<"}, x \in Numbers, y \in Numbers}
         \cup {<<"IS NULL", x>> : x \in Numbers}
(* One test for each outcome: TRUE, FALSE, NULL and the error.              *)
Decided == {<<"=", Literal(10), Literal(10)>>, <<"<", Literal(10), Literal(10)>>,
            <<"=", Literal(10), Literal(Null)>>, <<"=", Sum, Literal(10)>>}
MCExpressions ==
  {<<op, x, y>> : op \in {"AND", "OR"}, x \in {t \in Tests : t[1] # "<"}, y \in Decided}
  \cup {<<"NOT", x>> : x \in Tests}
  \cup {<<"IN", x, Literal(10), y>> : x, y \in Numbers}

(* The basic dialect: no NULL literal, and an operand that may overflow.    *)
Plain == {<<"literal", TRUE>>, <<"literal", FALSE>>, <<"=", Literal(10), Literal(20)>>,
          <<"<", Column("n"), Literal(20)>>, <<"<", Sum, Literal(30)>>,
          <<"=", <<"+", Literal(20), Literal(10)>>, Literal(30)>>}
MCBasicPredicates ==
  Plain \cup {<<"NOT", <<"NOT", x>>>> : x \in Plain}
  \cup {<<op, x, y>> : op \in {"AND", "OR"}, x \in Plain, y \in Plain}

Side(s, c) == <<"column", s, c>>
Links == {<<op, Side(1, c), Side(2, b)>> : op \in {"=", "<"}, c \in {"d", "n"}, b \in {"d", "n"}}
MCJoinConditions ==
  Links \cup {<<"NOT", x>> : x \in Links}
  \cup {<<"OR", x, <<"IS NULL", Side(2, "n")>>>> : x \in Links}

(* A literal one above IntMax, once it is rounded up to an INT.              *)
MCWideBounds == {<<op, Column("n"), Literal(25)>> : op \in RangeOps}

(* Conditions that name only one of the two sources.                        *)
MCOneSided == {<<"=", Side(s, "n"), Literal(10)>> : s \in {1, 2}}
=============================================================================
