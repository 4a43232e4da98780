SPECIFICATION Spec
CONSTANTS
  Null = Null
  Err = Err
  Kind <- MCKind
  Values <- MCValues
  IndexColumns <- MCIndexColumns
  MaxRows = 3
  IntMax = 20
  KeyDigits = 2
  Predicates <- MCPredicates
  BasicPredicates <- MCBasicPredicates
  Expressions <- MCExpressions
  JoinConditions <- MCJoinConditions
INVARIANT IndexAnswers
INVARIANT FoldSound
INVARIANT OuterJoinsAgree
INVARIANT SortStable
INVARIANT DuplicatesAgree
