---------------------------- MODULE BufferedPages ----------------------------
(***************************************************************************)
(* DiskPageManager (storage/page.py) under PageBufferPool                   *)
(* (storage/buffer.py), used the way HeapStorage and BTreeIndex use them:   *)
(* page 0 and a freshly allocated page are written straight to the file,    *)
(* every other page through the pool, and a page that was fetched is        *)
(* changed before the next one is fetched.                                  *)
(*                                                                         *)
(* The content of a page is one value; a free page holds a pointer to the   *)
(* next free one.  A page whose write failed half way is Torn.              *)
(***************************************************************************)
EXTENDS Naturals, Sequences

CONSTANTS
    MaxPage,       \* bound: page ids are 1..MaxPage
    MaxCapacity,   \* bound: pool sizes are 1..MaxCapacity
    Data,          \* what a client can write to a page
    MaxFaults,     \* bound: failed page writes
    NoPage, Unused, Torn

Pages == 1..MaxPage

ASSUME SizesAssumption == MaxPage \in Nat \ {0} /\ MaxCapacity \in Nat \ {0} /\ MaxFaults \in Nat
ASSUME MarksAssumption == NoPage \notin Pages /\ Unused \notin Data /\ Torn \notin Data

FreeNode == [next : Pages \cup {NoPage}]

VARIABLES
    policy, capacity,   \* the pool's arguments
    disk,       \* disk[p]: the page in the file
    nextPage,   \* next_page_id of page 0
    freeHead,   \* free_list_head of page 0
    order,      \* _cache: the cached pages, next victim first
    frame,      \* frame[p]: the bytes cached for p
    dirty,      \* _dirty
    held,       \* the page whose bytes the client holds
    answer, faults

vars == <<policy, capacity, disk, nextPage, freeHead, order, frame, dirty, held, answer, faults>>
pool == <<order, frame, dirty>>
args == <<policy, capacity>>
meta == <<nextPage, freeHead>>

Elements(s) == {s[i] : i \in 1..Len(s)}
Cached == Elements(order)

\* The free list of a file, followed from its head: the pages in every set that
\* has the head and goes with a page to the one it points to.
Closed(head, file, S) ==
    /\ head \in S \cup {NoPage}
    /\ \A q \in S : file[q] \in FreeNode => file[q].next \in S \cup {NoPage}

Reached(head, file) == {p \in Pages : \A S \in SUBSET Pages : Closed(head, file, S) => p \in S}

FreePages == Reached(freeHead, disk)

InUse == (1..nextPage - 1) \ FreePages

Init ==
    /\ policy \in {"LRU", "FIFO"} /\ capacity \in 1..MaxCapacity
    /\ disk = [p \in Pages |-> Unused]
    /\ nextPage = 1 /\ freeHead = NoPage
    /\ order = <<>> /\ dirty = {} /\ frame = [p \in Pages |-> Unused]
    /\ held = NoPage /\ answer = <<"none">> /\ faults = 0

-----------------------------------------------------------------------------
(***************************************************************************)
(* DiskPageManager.                                                         *)
(***************************************************************************)

\* allocate_page pops the free list or extends the file; the caller initialises
\* the page in the file (_init_data_page, _write_fresh_node).
Allocate(v) ==
    \E p \in Pages :
        /\ IF freeHead # NoPage
           THEN p = freeHead /\ freeHead' = disk[p].next /\ UNCHANGED nextPage
           ELSE p = nextPage /\ nextPage' = nextPage + 1 /\ UNCHANGED freeHead
        /\ disk' = [disk EXCEPT ![p] = v]
        /\ answer' = <<"page", p>>
        /\ UNCHANGED <<args, pool, held, faults>>

\* move_to_end and pop take a page out of its place in _cache.
Removed(s, p) ==
    LET i == CHOOSE n \in 1..Len(s) : s[n] = p
    IN  [n \in 1..Len(s) - 1 |-> IF n < i THEN s[n] ELSE s[n + 1]]

Without(p) == IF p \in Cached THEN Removed(order, p) ELSE order

\* Mutation of Free: the cached copy is not discarded.
Free_KeepsFrame(p) ==
    /\ p \in InUse
    /\ disk' = [disk EXCEPT ![p] = [next |-> freeHead]]
    /\ freeHead' = p
    /\ held' = IF held = p THEN NoPage ELSE held
    /\ UNCHANGED <<args, nextPage, pool, answer, faults>>

\* discard_page, then free_page, as every drop, rewrite and merge does.
Free(p) ==
    /\ p \in InUse
    /\ order' = Without(p)
    /\ frame' = [frame EXCEPT ![p] = Unused]
    /\ dirty' = dirty \ {p}
    /\ disk' = [disk EXCEPT ![p] = [next |-> freeHead]]
    /\ freeHead' = p
    /\ held' = IF held = p THEN NoPage ELSE held
    /\ UNCHANGED <<args, nextPage, answer, faults>>

(***************************************************************************)
(* PageBufferPool.get_page.                                                 *)
(***************************************************************************)
Hit(p) ==
    /\ p \in InUse \cap Cached
    /\ order' = IF policy = "LRU" THEN Append(Without(p), p) ELSE order
    /\ held' = p
    /\ answer' = <<"data", p, frame[p]>>
    /\ UNCHANGED <<args, meta, disk, frame, dirty, faults>>

\* The page is read before a victim is evicted, and a dirty victim is written.
Load(p, rest, kept, written) ==
    /\ order' = Append(rest, p)
    /\ frame' = [q \in Pages |-> IF q = p THEN disk[p]
                                 ELSE IF q \in kept THEN frame[q] ELSE Unused]
    /\ dirty' = dirty \cap kept
    /\ disk' = [q \in Pages |-> IF q \in written THEN frame[q] ELSE disk[q]]
    /\ held' = p
    /\ answer' = <<"data", p, disk[p]>>
    /\ UNCHANGED <<args, meta, faults>>

MissWithRoom(p) ==
    /\ p \in InUse \ Cached
    /\ Len(order) < capacity
    /\ Load(p, order, Cached, {})

\* Mutation of MissEvicting: a dirty victim is dropped.
MissEvicting_Drops(p) ==
    /\ p \in InUse \ Cached
    /\ Len(order) >= capacity
    /\ Load(p, Tail(order), Cached \ {Head(order)}, {})

MissEvicting(p) ==
    /\ p \in InUse \ Cached
    /\ Len(order) >= capacity
    /\ LET victim == Head(order)
       IN  Load(p, Tail(order), Cached \ {victim}, {victim} \cap dirty)

\* The write of the victim fails half way: it stays cached and dirty.
EvictionFails(p) ==
    /\ p \in InUse \ Cached
    /\ Len(order) >= capacity
    /\ Head(order) \in dirty
    /\ faults < MaxFaults
    /\ faults' = faults + 1
    /\ disk' = [disk EXCEPT ![Head(order)] = Torn]
    /\ answer' = <<"error">>
    /\ UNCHANGED <<args, meta, pool, held>>

(***************************************************************************)
(* The client changes the page it fetched and marks it; flush_all.          *)
(***************************************************************************)
Modify(v) ==
    /\ held # NoPage
    /\ frame' = [frame EXCEPT ![held] = v]
    /\ dirty' = dirty \cup {held}
    /\ UNCHANGED <<args, meta, disk, order, held, answer, faults>>

FlushPage(p) ==
    /\ p \in dirty
    /\ disk' = [disk EXCEPT ![p] = frame[p]]
    /\ dirty' = dirty \ {p}
    /\ UNCHANGED <<args, meta, order, frame, held, answer, faults>>

\* Mutation of FlushFails: the page is taken for clean before its write succeeded.
FlushFails_Cleans(p) ==
    /\ p \in dirty
    /\ faults < MaxFaults
    /\ faults' = faults + 1
    /\ disk' = [disk EXCEPT ![p] = Torn]
    /\ dirty' = dirty \ {p}
    /\ answer' = <<"error">>
    /\ UNCHANGED <<args, meta, order, frame, held>>

FlushFails(p) ==
    /\ p \in dirty
    /\ faults < MaxFaults
    /\ faults' = faults + 1
    /\ disk' = [disk EXCEPT ![p] = Torn]
    /\ answer' = <<"error">>
    /\ UNCHANGED <<args, meta, pool, held>>

Next ==
    \/ \E v \in Data : Allocate(v) \/ Modify(v)
    \/ \E p \in Pages :
          \/ Free(p) \/ Hit(p) \/ MissWithRoom(p) \/ MissEvicting(p) \/ EvictionFails(p)
          \/ FlushPage(p) \/ FlushFails(p)

Spec == Init /\ [][Next]_vars

-----------------------------------------------------------------------------
TypeOK ==
    /\ policy \in {"LRU", "FIFO"} /\ capacity \in 1..MaxCapacity
    /\ disk \in [Pages -> Data \cup FreeNode \cup {Unused, Torn}]
    /\ nextPage \in 1..MaxPage + 1
    /\ freeHead \in Pages \cup {NoPage}
    /\ order \in Seq(Pages) /\ Len(order) <= capacity
    /\ \A i, j \in 1..Len(order) : order[i] = order[j] => i = j
    /\ frame \in [Pages -> Data \cup {Unused}]
    /\ dirty \subseteq Cached
    /\ held \in Cached \cup {NoPage}
    /\ faults \in 0..MaxFaults

\* A page the pool takes for clean is in the file as it is in memory, whatever
\* writes failed: flush_all before the commit writes everything there is
\* (buffer.py: a dirty page is kept when its write-back fails).
CleanMatchesDisk == \A p \in Cached \ dirty : frame[p] = disk[p]

\* No copy of a free page is left in the pool.  Allocation and initialisation
\* bypass it, so such a copy would hide, and later overwrite, the new page.
FreeUncached == Cached \subseteq InUse

\* The pages as their owners see them.
Content == [p \in Pages |-> IF p \notin InUse THEN Unused
                            ELSE IF p \in Cached THEN frame[p] ELSE disk[p]]

Space == INSTANCE PageSpace WITH content <- Content

\* Through evictions, failed writes, releases and reallocations every page in
\* use holds what was last written to it, and no page has two owners.
PagesKept == Space!PSpec
=============================================================================
