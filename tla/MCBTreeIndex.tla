---------------------------- MODULE MCBTreeIndex ----------------------------
(***************************************************************************)
(* BTreeIndex on a small instance.  The behaviour does not depend on which  *)
(* page a node is in, so trees that differ only in their page numbers are   *)
(* one state: the view is the tree as a value, each leaf with the entries   *)
(* of its successor, the place of the call in it, and the number of pages.  *)
(***************************************************************************)
EXTENDS BTreeIndex

EntriesOf(p) == IF p = NoPage THEN <<>> ELSE node[p].entries

RECURSIVE Tree(_)
Tree(p) ==
    <<Contains(stack, p), EntriesOf(p), EntriesOf(node[p].next),
      [i \in 1..Len(node[p].children) |-> Tree(node[p].children[i])]>>

TreeOf(p) == IF p = NoPage THEN <<>> ELSE Tree(p)

Shape == <<TreeOf(root), TreeOf(extra), IF extra = NoPage THEN 0 ELSE sep, Len(stack),
           Cardinality(Used), rows>>
=============================================================================
