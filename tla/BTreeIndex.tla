----------------------------- MODULE BTreeIndex -----------------------------
(***************************************************************************)
(* BTreeIndex (storage/index.py): insertion with splits, deletion with      *)
(* borrowing and merging, drop, and the walks of lookup and scan_all.       *)
(*                                                                         *)
(* An entry is the key's encoding followed by that of the record id, and    *)
(* compared as a byte string: here the number Entry(k, r).  A separator is  *)
(* an entry too.  Sizes are in units: an entry takes EntrySize, a reference *)
(* to a child ChildSize.                                                    *)
(*                                                                         *)
(* _insert and _delete call themselves down to a leaf and work on the way   *)
(* back.  A call's first action walks down and changes the leaf; each later *)
(* one is the return into the parent, which takes a separator in or looks   *)
(* at a child that shrank.  Nothing else runs before the call has returned. *)
(***************************************************************************)
EXTENDS Naturals, Sequences, FiniteSets, SequencesExt, Functions

CONSTANTS
    MaxKey, Rids,       \* bound: keys are 1..MaxKey, record ids 0..Rids - 1
    MaxPage,            \* bound: pages of the tree
    Spare,              \* bound: an insertion begins with so many free pages
    EntrySize, ChildSize, MaxBody,
    NoPage

Pages == 1..MaxPage
MinBody == MaxBody \div 2

ASSUME SizeAssumption ==
    /\ MaxKey \in Nat \ {0} /\ Rids \in Nat \ {0} /\ MaxPage \in Nat \ {0}
    /\ Spare \in Nat \ {0}
    /\ EntrySize \in Nat \ {0} /\ ChildSize \in Nat \ {0} /\ MaxBody \in Nat
    /\ EntrySize + ChildSize <= MaxBody
    /\ NoPage \notin Pages

Entry(k, r) == k * Rids + r
Entries == {Entry(k, r) : k \in 1..MaxKey, r \in 0..Rids - 1}

VARIABLES
    root,    \* root_page; NoPage: there is no index
    node,    \* node[p]: the node in page p, or FreePage
    rows,    \* the entries of the rows the table has: what was inserted and not deleted
    stack,   \* the pages of the activations of _insert or _delete, the root's first; <<>>: no call
    sep, extra   \* what _insert returned: the separator and the new page; NoPage: nothing

call == <<stack, sep, extra>>
vars == <<root, node, rows, stack, sep, extra>>

\* Child i + 1 of an internal node is right of separator i; the first is child0.
Leaf(entries, next) == [kind |-> "leaf", entries |-> entries, children |-> <<>>, next |-> next]
Internal(entries, children) ==
    [kind |-> "internal", entries |-> entries, children |-> children, next |-> NoPage]
FreePage == [kind |-> "free", entries |-> <<>>, children |-> <<>>, next |-> NoPage]

Used == {p \in Pages : node[p].kind # "free"}
IsLeaf(p) == node[p].kind = "leaf"

BodySize(n) == Len(n.entries) * EntrySize + Len(n.children) * ChildSize

\* Mutation of Fits: the size is taken before the entry is added.
Fits_BeforeInsert(n) == BodySize(n) - EntrySize <= MaxBody

\* _insert's test of a node that has just got one entry more.
Fits(n) == BodySize(n) <= MaxBody

Init ==
    /\ root = NoPage
    /\ node = [p \in Pages |-> FreePage]
    /\ rows = {}
    /\ stack = <<>> /\ sep = 0 /\ extra = NoPage

\* allocate_page gives a page nobody uses; its number does not matter here.
NewPage == CHOOSE p \in Pages : p \notin Used
Space(n) == Cardinality(Pages \ Used) >= n

-----------------------------------------------------------------------------
(***************************************************************************)
(* Walks.                                                                   *)
(***************************************************************************)

\* The entries before the first one that is larger than e: _find_child's loop,
\* and the place e itself takes.
Place(entries, e) ==
    CHOOSE k \in 0..Len(entries) :
        /\ \A i \in 1..k : entries[i] <= e
        /\ k < Len(entries) => e < entries[k + 1]

FindChild(n, e) == n.children[Place(n.entries, e) + 1]

\* The pages from p on, each the one the former leads to.
Follow(p, next) ==
    LET walk[i \in 1..MaxPage] ==
          IF i = 1 THEN p
          ELSE LET q == walk[i - 1] IN IF q = NoPage THEN NoPage ELSE next[q]
    IN  SubSeq(walk, 1, Cardinality({i \in 1..MaxPage : walk[i] # NoPage}))

Descent(e) ==
    Follow(root, [p \in Pages |-> IF node[p].kind = "internal" THEN FindChild(node[p], e) ELSE NoPage])
FindLeaf(e) == Last(Descent(e))

LeftmostLeaf ==
    Last(Follow(root, [p \in Pages |-> IF node[p].kind = "internal" THEN node[p].children[1] ELSE NoPage]))

LeafChain(p) == Follow(p, [q \in Pages |-> node[q].next])

\* The entries from low to high, as the loops of lookup and range_scan find them: they
\* start in the leaf of low and return at the first entry above high.
Between(low, high) ==
    LET chain == LeafChain(FindLeaf(low))
        passed(i, j) == \A g \in 1..i : \A h \in 1..Len(node[chain[g]].entries) :
                            (g < i \/ h <= j) => node[chain[g]].entries[h] <= high
    IN  {e \in low..high : \E i \in 1..Len(chain) : \E j \in 1..Len(node[chain[i]].entries) :
                              node[chain[i]].entries[j] = e /\ passed(i, j)}
Lookup(k) == {r \in 0..Rids - 1 : Entry(k, r) \in Between(Entry(k, 0), Entry(k, Rids - 1))}

(***************************************************************************)
(* Insertion.                                                               *)
(***************************************************************************)
Distance(a, b) == IF a > b THEN a - b ELSE b - a

\* _split_entries: the first position that divides the bytes most evenly.
SplitPoint(n) ==
    LET diff(i) == Distance(i, n - i)
    IN  CHOOSE i \in 1..n - 1 : \A j \in 1..n - 1 :
            diff(i) < diff(j) \/ (diff(i) = diff(j) /\ i <= j)

\* Mutation of SplitLeaf: the new right leaf ends the chain.
SplitLeaf_CutsChain(p, n) ==
    LET i == SplitPoint(Len(n.entries))
        q == NewPage
    IN  /\ node' = [node EXCEPT ![p] = Leaf(SubSeq(n.entries, 1, i), q),
                                ![q] = Leaf(SubSeq(n.entries, i + 1, Len(n.entries)), NoPage)]
        /\ sep' = n.entries[i + 1] /\ extra' = q

\* The page p of an overfull node n keeps one half, a new page gets the other.
SplitLeaf(p, n) ==
    LET i == SplitPoint(Len(n.entries))
        q == NewPage
    IN  /\ node' = [node EXCEPT ![p] = Leaf(SubSeq(n.entries, 1, i), q),
                                ![q] = Leaf(SubSeq(n.entries, i + 1, Len(n.entries)), n.next)]
        /\ sep' = n.entries[i + 1] /\ extra' = q

SplitInternal(p, n) ==
    LET i == SplitPoint(Len(n.entries))
        q == NewPage
    IN  /\ node' = [node EXCEPT
                      ![p] = Internal(SubSeq(n.entries, 1, i), SubSeq(n.children, 1, i + 1)),
                      ![q] = Internal(SubSeq(n.entries, i + 2, Len(n.entries)),
                                      SubSeq(n.children, i + 2, Len(n.children)))]
        /\ sep' = n.entries[i + 1] /\ extra' = q

\* Down to the leaf.  The caller never inserts the same key and record id twice.
Insert(e) ==
    /\ stack = <<>> /\ root # NoPage /\ e \notin rows /\ Space(Spare)
    /\ LET p == FindLeaf(e)
           grown == [node[p] EXCEPT !.entries = InsertAt(@, Place(@, e) + 1, e)]
       IN  IF Fits(grown) THEN node' = [node EXCEPT ![p] = grown] /\ UNCHANGED call
           ELSE SplitLeaf(p, grown) /\ stack' = Descent(e)
    /\ rows' = rows \cup {e}
    /\ UNCHANGED root

\* The return into the parent of a page that was split.  Entries are sorted, so
\* the separator's place is where sorting puts it.
InsertInParent ==
    /\ extra # NoPage /\ Len(stack) > 1 /\ Space(1)
    /\ LET p == stack[Len(stack) - 1]
           at == Place(node[p].entries, sep) + 1
           grown == Internal(InsertAt(node[p].entries, at, sep),
                             InsertAt(node[p].children, at + 1, extra))
       IN  IF Fits(grown)
           THEN /\ node' = [node EXCEPT ![p] = grown]
                /\ stack' = <<>> /\ extra' = NoPage /\ UNCHANGED sep
           ELSE SplitInternal(p, grown) /\ stack' = Front(stack)
    /\ UNCHANGED <<root, rows>>

\* insert: the root itself was split.
NewRoot ==
    /\ extra # NoPage /\ Len(stack) = 1 /\ Space(1)
    /\ root' = NewPage
    /\ node' = [node EXCEPT ![root'] = Internal(<<sep>>, <<root, extra>>)]
    /\ stack' = <<>> /\ extra' = NoPage
    /\ UNCHANGED <<rows, sep>>

(***************************************************************************)
(* Deletion.  left and right are neighbours, with separator l of their      *)
(* parent p between them.                                                   *)
(***************************************************************************)

\* The last entry of left moves to right.
BorrowLeft(p, l) ==
    LET left == node[p].children[l]
        right == node[p].children[l + 1]
        a == node[left]
        b == node[right]
    IN  IF b.kind = "leaf"
        THEN [node EXCEPT ![left].entries = Front(@),
                          ![right].entries = <<Last(a.entries)>> \o @,
                          ![p].entries[l] = Last(a.entries)]
        ELSE [node EXCEPT ![left] = Internal(Front(a.entries), Front(a.children)),
                          ![right] = Internal(<<node[p].entries[l]>> \o b.entries,
                                              <<Last(a.children)>> \o b.children),
                          ![p].entries[l] = Last(a.entries)]

\* Mutation of BorrowRight: the parent keeps its old separator.
BorrowRight_KeepsSep(p, l) ==
    LET left == node[p].children[l]
        right == node[p].children[l + 1]
        a == node[left]
        b == node[right]
    IN  IF a.kind = "leaf"
        THEN [node EXCEPT ![left].entries = Append(@, Head(b.entries)), ![right].entries = Tail(@)]
        ELSE [node EXCEPT ![left] = Internal(Append(a.entries, node[p].entries[l]),
                                             Append(a.children, Head(b.children))),
                          ![right] = Internal(Tail(b.entries), Tail(b.children))]

\* The first entry of right moves to left.
BorrowRight(p, l) ==
    LET left == node[p].children[l]
        right == node[p].children[l + 1]
        a == node[left]
        b == node[right]
    IN  IF a.kind = "leaf"
        THEN [node EXCEPT ![left].entries = Append(@, Head(b.entries)),
                          ![right].entries = Tail(@),
                          ![p].entries[l] = b.entries[2]]
        ELSE [node EXCEPT ![left] = Internal(Append(a.entries, node[p].entries[l]),
                                             Append(a.children, Head(b.children))),
                          ![right] = Internal(Tail(b.entries), Tail(b.children)),
                          ![p].entries[l] = Head(b.entries)]

\* What both become in the left page; an internal node takes the separator down.
Joined(p, l) ==
    LET a == node[node[p].children[l]]
        b == node[node[p].children[l + 1]]
    IN  IF a.kind = "leaf" THEN Leaf(a.entries \o b.entries, b.next)
        ELSE Internal(a.entries \o <<node[p].entries[l]>> \o b.entries, a.children \o b.children)
Without(n, l) == Internal(RemoveAt(n.entries, l), RemoveAt(n.children, l + 1))

\* Mutation of Merge: the page that was emptied is not released.
Merge_LeaksPage(p, l) ==
    [node EXCEPT ![node[p].children[l]] = Joined(p, l), ![p] = Without(@, l)]

\* The right page is released.
Merge(p, l) ==
    [node EXCEPT ![node[p].children[l]] = Joined(p, l),
                 ![node[p].children[l + 1]] = FreePage,
                 ![p] = Without(@, l)]

\* Mutation of Rebalanced: the size of the child is looked at, not the sibling's.
Rebalanced_ChecksChild(p, child) ==
    LET n == node[p]
        i == CHOOSE j \in 1..Len(n.children) : n.children[j] = child
    IN  IF BodySize(node[child]) > MinBody
        THEN IF i = 1 THEN BorrowRight(p, 1) ELSE BorrowLeft(p, i - 1)
        ELSE Merge(p, IF i = 1 THEN 1 ELSE i - 1)

\* _rebalance: the sibling is the left one, for the leftmost child the right one.
Rebalanced(p, child) ==
    LET n == node[p]
        i == CHOOSE j \in 1..Len(n.children) : n.children[j] = child
        sibling == n.children[IF i = 1 THEN 2 ELSE i - 1]
    IN  IF BodySize(node[sibling]) > MinBody
        THEN IF i = 1 THEN BorrowRight(p, 1) ELSE BorrowLeft(p, i - 1)
        ELSE Merge(p, IF i = 1 THEN 1 ELSE i - 1)

\* Down to the leaf.  The write path deletes the entries of rows that are there.
Delete(e) ==
    /\ stack = <<>> /\ e \in rows
    /\ LET p == FindLeaf(e) IN
       node' = IF Contains(node[p].entries, e)
               THEN [node EXCEPT ![p].entries = RemoveAt(@, CHOOSE i \in 1..Len(@) : @[i] = e)]
               ELSE node
    /\ stack' = Descent(e)
    /\ rows' = rows \ {e}
    /\ UNCHANGED <<root, sep, extra>>

\* The return into the parent.
Rebalance ==
    /\ extra = NoPage /\ Len(stack) > 1
    /\ LET p == stack[Len(stack) - 1]
           child == Last(stack)
       IN  node' = IF BodySize(node[child]) < MinBody THEN Rebalanced(p, child) ELSE node
    /\ stack' = Front(stack)
    /\ UNCHANGED <<root, rows, sep, extra>>

\* delete: a root left with one child goes.
Collapse ==
    /\ extra = NoPage /\ Len(stack) = 1
    /\ IF ~IsLeaf(root) /\ node[root].entries = <<>>
       THEN root' = node[root].children[1] /\ node' = [node EXCEPT ![root] = FreePage]
       ELSE UNCHANGED <<root, node>>
    /\ stack' = <<>>
    /\ UNCHANGED <<rows, sep, extra>>

(***************************************************************************)
(* The whole tree.                                                          *)
(***************************************************************************)

\* _collect_pages, level by level: the pages d steps below p.
Levels(p) ==
    LET level[d \in 0..MaxPage] ==
          IF d = 0 THEN {p} ELSE UNION {Range(node[q].children) : q \in level[d - 1]}
    IN  level
Subtree(p) == UNION {Levels(p)[d] : d \in 0..MaxPage}

\* create: an empty leaf.  CREATE INDEX then inserts the rows one at a time.
Create ==
    /\ root = NoPage
    /\ root' = NewPage
    /\ node' = [node EXCEPT ![root'] = Leaf(<<>>, NoPage)]
    /\ UNCHANGED <<rows, call>>

\* drop: every page reached from the root is released.
Drop ==
    /\ stack = <<>> /\ root # NoPage
    /\ node' = [p \in Pages |-> IF p \in Subtree(root) THEN FreePage ELSE node[p]]
    /\ root' = NoPage
    /\ rows' = {}
    /\ UNCHANGED call

Next ==
    \/ Create \/ Drop
    \/ \E e \in Entries : Insert(e) \/ Delete(e)
    \/ InsertInParent \/ NewRoot \/ Rebalance \/ Collapse

Spec == Init /\ [][Next]_vars

-----------------------------------------------------------------------------
\* Every reference of a node, to a child or to the next leaf, is to a page in use.
TypeOK ==
    /\ root \in Used \cup {NoPage}
    /\ rows \subseteq Entries
    /\ node \in [Pages -> [kind : {"free", "leaf", "internal"}, entries : Seq(Entries),
                           children : Seq(Pages), next : Pages \cup {NoPage}]]
    /\ \A p \in Used : /\ Range(node[p].children) \subseteq Used
                       /\ node[p].next \in Used \cup {NoPage}
                       /\ Len(node[p].children) = IF IsLeaf(p) THEN 0 ELSE Len(node[p].entries) + 1
    /\ Range(stack) \subseteq Used /\ sep \in Entries \cup {0} /\ extra \in Used \cup {NoPage}

\* Between two calls the pages in use are the tree's, each in one place: drop,
\* which walks the tree, frees them all.  All leaves are at one depth, and no inner
\* node has a single child.
Balanced ==
    /\ TypeOK
    /\ stack = <<>> /\ root # NoPage =>
         /\ Used = Subtree(root)
         /\ \E d \in 0..MaxPage : \A p \in Used : IsLeaf(p) <=> p \in Levels(root)[d]
         /\ \A p \in Used : ~IsLeaf(p) => node[p].entries # <<>>
         /\ \A p, q \in Used :
               \A i \in 1..Len(node[p].children) : \A j \in 1..Len(node[q].children) :
                   node[p].children[i] = node[q].children[j] => p = q /\ i = j
    /\ root = NoPage => Used = {}

\* Between two calls every separator divides what is below it: searches and the
\* leaf chain agree.
Below(p) == UNION {Range(node[q].entries) : q \in {r \in Subtree(p) : IsLeaf(r)}}

Ordered ==
    stack = <<>> =>
        \A p \in Used : ~IsLeaf(p) =>
            \A i \in 1..Len(node[p].entries) :
                /\ \A e \in Below(node[p].children[i]) : e < node[p].entries[i]
                /\ \A e \in Below(node[p].children[i + 1]) : node[p].entries[i] <= e

\* A node always fits its page (index.py, MIN_BODY_SIZE: "2*MIN <= MAX, so a
\* merge always fits"): otherwise the page cannot be written any more.
PageFits == \A p \in Pages : BodySize(node[p]) <= MaxBody

\* Where that fails, two inner nodes were merged: they take the separator between
\* them down as well.  No insertion, split, borrowing or merge of leaves, at any
\* stage of a call, makes a node too large, and the merge does by less than an entry.
Outgrown(p, l) ==
    LET left == node[p].children[l]
    IN  /\ ~IsLeaf(left) /\ node' = Merge(p, l)
        /\ BodySize(node'[left]) < MaxBody + EntrySize
        /\ \A q \in Pages \ {left} : BodySize(node'[q]) <= MaxBody

OnlyMergesOutgrow ==
    [][PageFits => \/ PageFits'
                   \/ \E p \in Used : ~IsLeaf(p) /\ \E l \in 1..Len(node[p].entries) : Outgrown(p, l)]_vars

\* Splits, borrows, merges and root changes never lose, duplicate or invent an
\* entry: scan_all returns them in order, each once (ORDER BY on an index), and
\* lookup finds exactly the record ids of its key.
EntriesKept ==
    stack = <<>> =>
        IF root = NoPage THEN rows = {}
        ELSE LET leaves == LeafChain(LeftmostLeaf) IN
             /\ UNION {Range(node[leaves[i]].entries) : i \in 1..Len(leaves)} = rows
             /\ \A i, j \in 1..Len(leaves) :
                   \A g \in 1..Len(node[leaves[i]].entries) : \A h \in 1..Len(node[leaves[j]].entries) :
                       i < j \/ (i = j /\ g < h) =>
                           node[leaves[i]].entries[g] < node[leaves[j]].entries[h]
             /\ \A k \in 1..MaxKey : Lookup(k) = {r \in 0..Rids - 1 : Entry(k, r) \in rows}
=============================================================================
