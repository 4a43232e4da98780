----------------------------- MODULE HeapStorage -----------------------------
(***************************************************************************)
(* HeapStorage (storage/record.py) over the page space of BufferedPages:    *)
(* tables as chains of slotted pages, the root map and the counters of      *)
(* page 0, the insertion hint in the root page's header, and the files of   *)
(* earlier versions, whose pages carry no table id and whose deleted        *)
(* records still occupy bytes.                                              *)
(*                                                                         *)
(* A slot holds a row, a Hole (deleted, no bytes) or a Tomb (deleted by an  *)
(* earlier version, bytes still there).  Sizes are in units: one unit per   *)
(* slot, RowSize[row] units per record.                                     *)
(***************************************************************************)
EXTENDS Naturals, Sequences, FiniteSets, SequencesExt, Functions

CONSTANTS
    MaxTable,     \* bound: table ids are 1..MaxTable
    MaxPage,      \* bound: page ids are 1..MaxPage
    PageRoom,     \* units of a page after its header
    Rows, RowSize,
    LegacyFile,   \* TRUE: the file may come from an earlier version
    NoPage, Hole, Tomb, Missing

Tables == 1..MaxTable
Pages == 1..MaxPage
Rids == Pages \X (1..PageRoom \div 2)     \* a record takes at least two units

ASSUME SizesAssumption ==
    /\ MaxTable \in Nat \ {0} /\ MaxPage \in Nat \ {0} /\ PageRoom \in Nat \ {0}
    /\ \A row \in Rows : RowSize[row] \in 1..PageRoom - 1   \* MAX_RECORD_SIZE
    /\ NoPage = 0 /\ Hole \notin Rows /\ Tomb \notin Rows /\ Hole # Tomb
    /\ Missing \notin Rows
    /\ \A rids \in SUBSET Rids : \A rows \in [rids -> Rows] : rows # Missing

VARIABLES
    root,       \* the root map of page 0: root[t], or NoPage
    nextTable, nextPage,
    free,       \* the free list, head first
    page,       \* page[p]: table id, next page of the chain, insertion hint, slots
    answer      \* the last call, with its arguments and what it returned

vars == <<root, nextTable, nextPage, free, page, answer>>

Blank(t) == [table |-> t, next |-> NoPage, hint |-> NoPage, slots |-> <<>>]
FreePage == Blank(0)     \* page type FREE, or never written
Used == 1..nextPage - 1
IsData(p) == p \in Used /\ ~Contains(free, p)

\* The chain that starts at p: its pages up to the one without a next.
ChainFrom(pages, p) ==
    LET walk[i \in 1..MaxPage] ==
          IF i = 1 THEN p
          ELSE IF walk[i - 1] = NoPage THEN NoPage ELSE pages[walk[i - 1]].next
    IN  SubSeq(walk, 1, Cardinality({i \in 1..MaxPage : walk[i] # NoPage}))
Chain(t) == ChainFrom(page, root[t])
ChainSet(t) == Range(Chain(t))

Live(slots) == {i \in 1..Len(slots) : slots[i] \in Rows}
RowsOf(t) ==
    LET own == ChainSet(t)
    IN  [rid \in {r \in Rids : r[1] \in own /\ r[2] \in Live(page[r[1]].slots)}
            |-> page[rid[1]].slots[rid[2]]]

-----------------------------------------------------------------------------
(***************************************************************************)
(* Pages: allocate_page and free_page.                                      *)
(***************************************************************************)

\* The next n pages allocate_page returns, and what they leave behind.
NewPages(n) ==
    [i \in 1..n |-> IF i <= Len(free) THEN free[i] ELSE nextPage + (i - Len(free) - 1)]

Allocates(n) ==
    /\ n <= Len(free) + (MaxPage + 1 - nextPage)
    /\ nextPage' = nextPage + (IF n > Len(free) THEN n - Len(free) ELSE 0)
AfterNew(n) == SubSeq(free, n + 1, Len(free))

(***************************************************************************)
(* Slots: _compact_page and _insert_into_page.                              *)
(***************************************************************************)
Bytes(entry) == IF entry = Hole THEN 0 ELSE IF entry = Tomb THEN 1 ELSE RowSize[entry]

\* The units a page uses: <<i, 0>> is the slot, <<i, u>> the u-th of its record.
Units(slots) == {x \in (1..Len(slots)) \X (0..PageRoom) : x[2] <= Bytes(slots[x[1]])}
Room(slots) == PageRoom - Cardinality(Units(slots))

\* Dead slots lose their bytes, and those at the end their slot.
Compact(slots) ==
    LET last == CHOOSE n \in {0} \cup Live(slots) : \A i \in Live(slots) : i <= n
    IN  [i \in 1..last |-> IF slots[i] \in Rows THEN slots[i] ELSE Hole]

\* What insert makes of a page it looks at.
Cleaned(slots) == IF Contains(slots, Tomb) THEN Compact(slots) ELSE slots

\* The slot a new record takes: the first dead one, or a new one.
SlotFor(slots) ==
    IF Live(slots) = 1..Len(slots) THEN Len(slots) + 1
    ELSE CHOOSE i \in 1..Len(slots) : slots[i] \notin Rows /\ 1..i - 1 \subseteq Live(slots)
Fits(slots, row) ==
    RowSize[row] + (IF SlotFor(slots) > Len(slots) THEN 1 ELSE 0) <= Room(slots)
Put(slots, row) ==
    [i \in 1..Len(slots) \cup {SlotFor(slots)} |-> IF i = SlotFor(slots) THEN row ELSE slots[i]]

\* The one page of a table written by an earlier version: a record was deleted.
LegacyPages ==
    {[Blank(0) EXCEPT !.slots = s] :
        s \in {x \in {<<Tomb, r>> : r \in Rows} \cup {<<r, Tomb>> : r \in Rows} : Room(x) >= 0}}

Init ==
    /\ \/ /\ root = [t \in Tables |-> NoPage]
          /\ nextTable = 1 /\ nextPage = 1
          /\ page = [p \in Pages |-> FreePage]
       \/ /\ LegacyFile
          /\ root = [t \in Tables |-> IF t = 1 THEN 1 ELSE NoPage]
          /\ nextTable = 2 /\ nextPage = 2
          /\ \E l \in LegacyPages : page = [p \in Pages |-> IF p = 1 THEN l ELSE FreePage]
    /\ free = <<>> /\ answer = <<"none">>

(***************************************************************************)
(* RecordStorage.                                                           *)
(***************************************************************************)
CreateTable ==
    /\ nextTable \in Tables
    /\ root[nextTable] = NoPage
    /\ Allocates(1)
    /\ LET p == NewPages(1)[1] IN
       /\ page' = [page EXCEPT ![p] = Blank(nextTable)]
       /\ root' = [root EXCEPT ![nextTable] = p]
    /\ free' = AfterNew(1)
    /\ nextTable' = nextTable + 1
    /\ answer' = <<"created", nextTable>>

DropTable(t) ==
    /\ root[t] # NoPage
    /\ page' = [p \in Pages |-> IF p \in ChainSet(t) THEN FreePage ELSE page[p]]
    /\ free' = Reverse(Chain(t)) \o free
    /\ root' = [root EXCEPT ![t] = NoPage]
    /\ answer' = <<"dropped", t>>
    /\ UNCHANGED <<nextTable, nextPage>>

\* The pages insert looks at, from the hint on, and the first that has room.
Candidates(t) == ChainFrom(page, IF page[root[t]].hint # NoPage THEN page[root[t]].hint ELSE root[t])
HasRoom(p, row) == Fits(Cleaned(page[p].slots), row)

\* The table's pages after insert looked at the first n candidates.
LookedAt(t, n) ==
    [p \in Pages |-> IF p \in {Candidates(t)[i] : i \in 1..n}
                     THEN [page[p] EXCEPT !.slots = Cleaned(@)] ELSE page[p]]

InsertInPage(t, row) ==
    /\ root[t] # NoPage
    /\ \E n \in 1..Len(Candidates(t)) :
          LET p == Candidates(t)[n]
              seen == LookedAt(t, n)
              slot == SlotFor(seen[p].slots)
          IN  /\ HasRoom(p, row)
              /\ \A i \in 1..n - 1 : ~HasRoom(Candidates(t)[i], row)
              /\ page' = [[seen EXCEPT ![p].slots = Put(@, row)] EXCEPT ![root[t]].hint = p]
              /\ answer' = <<"inserted", t, <<p, slot>>, row>>
    /\ UNCHANGED <<root, nextTable, nextPage, free>>

\* The last page is full too: the chain grows.
InsertInNewPage(t, row) ==
    /\ root[t] # NoPage
    /\ \A i \in 1..Len(Candidates(t)) : ~HasRoom(Candidates(t)[i], row)
    /\ Allocates(1)
    /\ LET p == NewPages(1)[1]
           seen == LookedAt(t, Len(Candidates(t)))
           tail == Last(Candidates(t))
       IN  /\ page' = [[[seen EXCEPT ![tail].next = p]
                             EXCEPT ![p] = [Blank(t) EXCEPT !.slots = <<row>>]]
                             EXCEPT ![root[t]].hint = p]
           /\ answer' = <<"inserted", t, <<p, 1>>, row>>
    /\ free' = AfterNew(1)
    /\ UNCHANGED <<root, nextTable>>

\* _legacy_page_belongs: a page without table id is looked up in the chain.
Owns(t, p) ==
    /\ IsData(p)
    /\ page[p].table = t \/ (page[p].table = 0 /\ p \in ChainSet(t))

\* Mutation of Names: the owner of the page is not checked.
Names_AnyTable(t, rid) ==
    /\ root[t] # NoPage
    /\ IsData(rid[1])
    /\ rid[2] \in Live(page[rid[1]].slots)

\* The checks of fetch and delete on a record id.
Names(t, rid) ==
    /\ root[t] # NoPage
    /\ Owns(t, rid[1])
    /\ rid[2] \in Live(page[rid[1]].slots)

\* Mutation of Delete: later rows move to earlier slots.
Delete_CompactsSlots(t, rid) ==
    /\ Names(t, rid)
    /\ page' = [page EXCEPT ![rid[1]].slots = SelectSeq(RemoveAt(@, rid[2]), LAMBDA e : e \in Rows)]
    /\ answer' = <<"deleted", t, rid>>
    /\ UNCHANGED <<root, nextTable, nextPage, free>>

\* The row goes, its page is compacted and gets its table id, and the hint moves
\* back when its page number is larger.
Delete(t, rid) ==
    /\ Names(t, rid)
    /\ LET p == rid[1]
           cut == [page EXCEPT ![p].slots = Compact([@ EXCEPT ![rid[2]] = Hole]),
                               ![p].table = t]
           hint == cut[root[t]].hint
       IN  page' = [cut EXCEPT ![root[t]].hint = IF hint = NoPage \/ p < hint THEN p ELSE @]
    /\ answer' = <<"deleted", t, rid>>
    /\ UNCHANGED <<root, nextTable, nextPage, free>>

\* The record ids rids of t in scan order: by page of the chain, then by slot.
ScanOrder(t, rids) ==
    LET chain == Chain(t)
        place == [rid \in rids |->
                    (CHOOSE i \in 1..Len(chain) : chain[i] = rid[1]) * PageRoom + rid[2]]
    IN  [n \in 1..Cardinality(rids) |->
            CHOOSE rid \in rids : Cardinality({x \in rids : place[x] <= place[rid]}) = n]

\* The records that are written again.
Encoded(t, transform) ==
    LET rows == RowsOf(t)
        kept == ScanOrder(t, {rid \in DOMAIN rows : transform[rows[rid]] # Missing})
    IN  [n \in 1..Len(kept) |-> transform[rows[kept[n]]]]

\* The page that begins with record s holds those up to the next one to begin
\* a page; starts are the records that do.
Filled(records, starts, s) ==
    SubSeq(records, s, CHOOSE e \in 0..Len(records) :
                          /\ e = Len(records) \/ (s <= e /\ e + 1 \in starts)
                          /\ \A x \in starts : x <= s \/ e < x)

\* _write_chain: a record begins a page when it does not fit in the last one,
\* behind the records there, which begin with s.
Packed(records, starts) ==
    \A n \in 2..Len(records) :
        LET s == CHOOSE x \in starts : x < n /\ \A y \in starts : y <= x \/ n <= y
        IN  n \in starts <=> ~Fits(SubSeq(records, s, n - 1), records[n])

\* Encode everything, write a new chain, switch to it, free the old one.
Rewrite(t, transform, hint) ==
    /\ root[t] # NoPage
    /\ LET records == Encoded(t, transform)
           old == ChainSet(t)
       IN
       \E more \in SUBSET (2..Len(records)) :
          LET starts == {1} \cup more
              n == Cardinality(starts)
              new == NewPages(n)
              start(i) == CHOOSE s \in starts : Cardinality({x \in starts : x <= s}) = i
          IN  /\ Allocates(n)
              /\ Packed(records, starts)
              /\ page' = [p \in Pages |->
                    IF p \in old THEN FreePage
                    ELSE IF p \in Range(new)
                         THEN LET i == CHOOSE j \in 1..n : new[j] = p IN
                              [table |-> t, slots |-> Filled(records, starts, start(i)),
                               next |-> IF i < n THEN new[i + 1] ELSE NoPage,
                               hint |-> IF i = 1 THEN hint ELSE NoPage]
                         ELSE page[p]]
              /\ root' = [root EXCEPT ![t] = new[1]]
              /\ free' = Reverse(Chain(t)) \o AfterNew(n)
    /\ answer' = <<"rewritten", t, transform>>
    /\ UNCHANGED nextTable

\* Mutation of RewriteTable: the hint of the old root page is carried over.
RewriteTable_KeepsHint(t, transform) == Rewrite(t, transform, page[root[t]].hint)

RewriteTable(t, transform) == Rewrite(t, transform, NewPages(1)[1])

Transforms == [Rows -> Rows \cup {Missing}]

Next ==
    \/ CreateTable
    \/ \E t \in Tables :
          \/ DropTable(t)
          \/ \E row \in Rows : InsertInPage(t, row) \/ InsertInNewPage(t, row)
          \/ \E rid \in Rids : Delete(t, rid)
          \/ \E transform \in Transforms : RewriteTable(t, transform)

Spec == Init /\ [][Next]_vars

-----------------------------------------------------------------------------
Slots == Seq(Rows \cup {Hole, Tomb})
PageType == [table : Tables \cup {0}, slots : Slots, next : Pages \cup {NoPage},
             hint : Pages \cup {NoPage}]

TypeOK ==
    /\ root \in [Tables -> Pages \cup {NoPage}]
    /\ nextTable \in 1..MaxTable + 1
    /\ nextPage \in 1..MaxPage + 1
    /\ free \in Seq(Pages)
    /\ page \in [Pages -> PageType]
    /\ \A p \in Pages : /\ p >= nextPage => page[p] = FreePage
                        /\ Len(page[p].slots) <= PageRoom \div 2

\* Every allocated page has exactly one owner: one table's chain, once, or the
\* free list.  Nothing leaks, and no page is handed out twice.
PagesOwned ==
    LET owners == {Chain(t) : t \in {u \in Tables : root[u] # NoPage}} \cup {free}
    IN  /\ \A s \in owners : Len(s) = Cardinality(Range(s))
        /\ \A p \in Used : Cardinality({s \in owners : p \in Range(s)}) = 1
        /\ \A t, u \in Tables : root[t] = root[u] /\ root[t] # NoPage => t = u
        /\ UNION {Range(s) : s \in owners} \subseteq Used

\* Insertion starts inside its own table, in a page that is not over-full.
HintsOwned ==
    \A t \in Tables : root[t] # NoPage =>
        /\ page[root[t]].hint \in ChainSet(t) \cup {NoPage}
        /\ \A p \in ChainSet(t) : page[p].table \in {0, t} /\ Room(page[p].slots) >= 0

\* Pages, chains and hints fit together through creation, deletion, rewrites
\* and drops: no table can reach another's rows and no page is lost.
ChainsSound == TypeOK /\ PagesOwned /\ HintsOwned

Records == INSTANCE RecordTables WITH
    rows <- [t \in Tables |-> IF root[t] = NoPage THEN Missing ELSE RowsOf(t)]

\* fetch and delete accept a record id exactly when it names a live row of that
\* table: a stale id, kept by an index or a plan, never reaches another table.
OwnRidsOnly ==
    \A t \in Tables : root[t] # NoPage =>
        \A rid \in Rids : Names(t, rid) <=> rid \in DOMAIN RowsOf(t)

\* Every record id keeps naming its row, in its own table, until the row is
\* deleted or the table rewritten, and a new row never takes an id in use.
RidsStable == Records!RSpec
=============================================================================
