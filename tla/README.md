# MiniSQL: models, model checking and proofs

This directory holds TLA+ models of MiniSQL, the single-file SQL database of this repository
(`src/src/minisql`), with the TLC runs that check them and the TLAPS proofs about most of
them. Paths below are relative to `src/src/minisql` unless they start with `src/`.

- [The system](#the-system)
- [The modules](#the-modules)
- [The runs](#the-runs)
- [What is proved](#what-is-proved)
- [Where code and documentation disagree](#where-code-and-documentation-disagree)
- [What is not modelled](#what-is-not-modelled)
- [Plan](#plan)

## The system

A database is a directory: `minisql.db` (pages of 4096 bytes), `minisql.journal` (the before-image of
the file while a transaction runs) and `minisql.lock`. A connection runs statements in one thread at a
time; several connections, in one process or in several, exclude each other with a file lock.

| component | state | operations | what makes it correct |
|---|---|---|---|
| connection (`engine/database.py`) | active, explicit, failed, broken; caches | open, statement, BEGIN, COMMIT, ROLLBACK, close | transactions are atomic and serial, answers are truthful, a call returns |
| journal and lock (`storage/journal.py`) | the journal file, the lock | begin, restore, recover, commit mark, remove; acquire with a deadline | every image a crash leaves recovers to a whole state |
| pages (`storage/page.py`) | page 0: next page, free list, table roots | allocate, free, read, write | a page has one owner |
| buffer (`storage/buffer.py`) | cached pages, dirty set | get, mark dirty, flush, discard, evict | no write is lost, no freed page comes back |
| heap (`storage/record.py`) | a chain of data pages per table, slots, insert hint | create, drop, insert, delete, fetch, scan, rewrite | rows and record ids are kept; no page is leaked or shared |
| B+ tree (`storage/index.py`) | a tree of pages, linked leaves | create, insert, delete, lookup, scan, drop | balanced, ordered, within pages, complete |
| write path (`engine/write_path.py`) | indexes, triggers being run | INSERT, UPDATE, DELETE, CREATE/DROP INDEX, triggers | constraints hold after every statement; indexes match tables |
| object catalog (`engine/objects.py`, `catalog.py`) | tables, views, indexes, triggers, constraints, dependencies, and their system rows | DDL, reload | nothing names an object that is gone; memory and system rows agree |
| queries (`engine/executor.py`, `expr.py`, `compiler/*optimizer.py`) | none | plan, evaluate | an optimised answer is the answer |
| accounts (`engine/auth.py`, `objects.py`) | accounts, grants, sessions | login, grant, revoke, check | revocation is immediate; identity is not a name |
| workbench (`gui/session.py`, `server.py`) | sessions, pending calls, one worker per session | connect, execute, close, idle expiry, shutdown | an ended session holds no transaction |
| migration (`engine/migrate.py`) | two files, a backup | rebuild, replace | a crash leaves one usable database |

How they interact: a statement takes the lock, recovers and begins a journal, then reloads page 0 and
the catalog; the write path calls the heap and the B+ trees, both of which keep nodes and rows in the
pool and page 0 on disk; a trigger's statement runs inside the statement that fired it; commit flushes
the pool, syncs the file and only then marks the journal. Memory is never patched after a rollback:
it is loaded again from the file.

Hard to test are: crashes, power losses and file errors between any two of these steps; two connections
around them; a migration beside them; requests, callbacks, the sweep and the shutdown of the workbench in any
order; a session that outlives its account; a dirty page leaving the pool in the middle of a statement; reuse of freed pages and slots;
long runs of splits and merges; UPDATEs that exchange keys; triggers that change the table being
changed; sequences of DDL; NULL, overflow and errors in predicates that an index scan may skip.
`PROJECT.json` lists each with its line and the properties that look for it.

## The modules

| module | models | composes or refines |
|---|---|---|
| `AtomicStore` | what the transaction layer promises (`src/docs/事务与恢复.md`): one value, whole transactions one at a time, a truthful answer | |
| `TransactionalDatabase` | connection, journal, lock and disk | refines `AtomicStore` (`AtomicSerial`) |
| `TransactionalDatabase_proof` | its theorems | extends `TransactionalDatabase`, `TLAPS` |
| `PageSpace` | pages in memory: what pool and page file promise together | |
| `BufferedPages` | pool, free list and page file | refines `PageSpace` (`PagesKept`) |
| `RecordTables` | rows under record ids that are never given twice while they live | |
| `BufferedPages_proof` | its theorems | extends `BufferedPages`, `TLAPS` |
| `HeapStorage` | pages, chains, slots, hints | refines `RecordTables` (`RidsStable`) |
| `HeapStorage_proof` | its theorems | extends `HeapStorage`, `TLAPS` |
| `BTreeIndex` | the B+ tree over the page allocator | |
| `BTreeIndex_proof` | its theorems | extends `BTreeIndex`, `TLAPS` |
| `WritePath` | statements, constraints, triggers, transactions | takes the promises of the heap, the tree and the transaction layer as given |
| `WritePath_proof` | its theorems | extends `WritePath`, `TLAPS` |
| `ObjectCatalog` | DDL, and the system rows it is loaded from | |
| `Queries` | evaluator, optimisers, plan operators, index scan | takes indexes as complete, which `WritePath` and `BTreeIndex` check |
| `Accounts` | accounts, grants, sessions, the checks before a statement and a trigger's action | takes transactions as given, which `TransactionalDatabase` checks |
| `Catalog_proof` | the theorems about what the system tables hold | extends `ObjectCatalog`, `Accounts`, `TLAPS` |
| `Workbench` | handler threads, the table of sessions, workers and their queues, the main thread, the locks of directories | what a call does to the data is in the other modules |
| `Workbench_proof` | its theorems | extends `Workbench`, `TLAPS` |
| `Migration` | `migrate()` in processes of its own | composed with `TransactionalDatabase`, whose actions it runs beside |
| `Migration_proof` | its theorems | extends `Migration`, `TLAPS`; takes an instance of `TransactionalDatabase_proof` |

`MC*` modules give constants their values; `MCWorkbench` also chooses between two groups of clients. The lines each definition stands for are in
`PROJECT.json`, under `map`.

**TransactionalDatabase.** One action per effect on the disk, so that a crash, an I/O error or the step
of another connection comes between any two. `pc[c]` is the place of connection `c` in its call,
`task[c]` the reason it is in recovery: at the start of a transaction (`_start`), in the except clause of
`_start`, or in a rollback. The database file is one number, and a writing statement adds one to what its
connection loaded: a lost update, a dirty read or half a transaction is then a wrong number. A file being
written is `Torn`. `survive` is the set of images that a power loss may leave: every effect adds the images
in which it did or did not reach the disk, a sync removes those it rules out. `OrderedMetadata` says that
the file system never makes a later write durable before an earlier rename or unlink in the same
directory. With `FALSE` the design is not recoverable: a second connection may restore from a journal whose
directory entry is not yet durable, and lose that entry after it has rewritten the file. The property
`ImagesRecover` is therefore claimed for `TRUE` only.

**BufferedPages, HeapStorage.** Page 0 is written through and every other page goes through the pool, as in
the code. A failed write-back keeps the victim dirty. LRU and FIFO differ in the order of hits only, and
the policy is chosen in the initial state. In `HeapStorage` a row is a model value with a size in units of
page room; slots are kept, emptied or cut from the end as `_compact_page` does, and the root map, the table
counter and the hint are parts of page 0. `LegacyFile` starts from a file written before the hint existed.
The loop of `_write_chain` is stated by what it ends with: the records that begin a page (`Packed`), and those behind each (`Filled`).
In `BufferedPages` the free list is a chain through the freed pages; what is reached from its head is stated as the least set closed under the links (`Reached`), so that it
can be reasoned about without recursion.

**BTreeIndex.** A node is a leaf or internal, with a sequence of entries, one of children and a next leaf; child `i + 1` is
the one packed behind entry `i`, the first is `child0`. An entry has a size, and a page bounds the sum, with
the code's thresholds: split above `MaxBody`, rebalance below half. `_insert` and `_delete` are
recursive: `stack` holds the pages of their activations. The first action of a call goes down and changes the leaf; each
later one is a return into the parent (`InsertInParent`, `Rebalance`), the last what `insert` and `delete` do with the
root (`NewRoot`, `Collapse`). Nothing else runs in between, and the properties of whole trees are about
states without a call. A walk along children or leaves is a function of the number of steps (`Follow`, `Levels`), so that it can be reasoned about.

**WritePath.** A stack of statements in progress, each with the trigger runs it still owes. A statement
checks and writes all its rows in one step, because nothing else runs meanwhile; its triggers then run one
at a time and each may push a statement. `Constrained` is the whole of `_check_constraints`: `KeyConstraints` are the PRIMARY KEY and
UNIQUE constraints (a NULL fails the one and passes the other), `ForeignKeys` name the columns they reference, and
NOT NULL and CHECK, which look at one row, are the rows `Admitted`. `SchemaAssumption` is about the shape of a schema only. When a
foreign key is made, the compiler asks for a PRIMARY KEY or UNIQUE on the referenced columns
(`compiler/extended_semantic.py:439`); that constraint may be dropped later, so neither model nor proofs ask for it. An index is a function from
the indexes that exist to their entries. `StatementsAssumption` is what the compiler guarantees of a statement and of
every trigger's action: it names tables, columns and indexes that are there, and its values are of their columns' type. An error anywhere unwinds the whole stack and rolls back, or
poisons an explicit transaction. `failed` states are outside most invariants: the code allows nothing
but ROLLBACK there.

**ObjectCatalog.** Each kind of object as the dictionary in memory and, in `stored`, as rows of the system
tables. `Loaded` is what `_restore` makes of the rows. What the expansion of a view goes through (`Reads`) is the least set
that is closed under what views read, as the free list of the pool is, so that it can be reasoned about without recursion. ALTER drops and rebuilds the indexes of its table.

**Queries.** Numbers are counted in tenths, an INT being a multiple of ten. `Eval` is the evaluator; `Err`
ends the statement. `Select` is the extended pipeline (fold, choose an index, range scan, residual
filter), `BasicSelect` the one of the basic dialect. `ScanAssignments` models how the executor finds out
which source a scan belongs to. The state is one table and the indexes that exist on it; the queries are in
the invariants. The module has RECURSIVE operators (expressions are trees), so no theorem is stated in it.

**Accounts.** The file is the rows of `__users` and `__grants`; each connection has what its last reload made of
them, and an identity (name and account id). An automatic statement takes the lock, reloads, runs and commits or
changes nothing, which is one step; an explicit transaction works on `work` until it commits or rolls back, with
login and logout inside it. The specification is `AccountsSpec`, so that the module can stand beside `ObjectCatalog`. A plan is the rights it needs and those of the trigger actions it fires. `used`
makes the use of a right visible to the properties.

**Workbench.** One action per step between two points at which another thread can run: handlers look a session
up under `sessions_lock`, submit under its guard, add the callback (which runs at once when the call is done
already), wait, reply. A worker takes one job at a time: it waits for the lock of a directory or gives up with
`LOCK_TIMEOUT`, then finishes the call. The main thread sweeps idle sessions, is interrupted anywhere in
`serve_forever`, closes what the table held at that moment, and joins the workers. Only "a transaction is open"
and "the lock is held" is kept of a connection.

**Migration.** `MNext` runs connections and migrations over one disk. A migration keeps the value of the
database, so the disk of `TransactionalDatabase` does not tell a V1 file from its V2 copy; `version`, `backup`
and `temp` are beside it, and `images` is to them what `survive` is to the database. `Layout` is what the pages of
the file hold: heaps, roots of trees, and the roots that the rows of `__indexes` name.

## The runs

| run | instance | asks |
|---|---|---|
| `TxnFailures` | 2 connections, values 0..2, 1 crash, 1 power loss; an existing database with 2 faults, or a fresh directory without; symmetry | `LockHeld`, `ImagesRecover`, `WriteAhead`, and `AtomicSerial`: the refinement of `AtomicStore` |
| `Migration` | 2 migrations beside 2 connections in a fresh directory or one in a V1 directory, 1 crash, 1 power loss, failures of a migration without bound; fairness | `BackupHolds`, `AtomicSerial` (bootstrap, replacement and transactions together), `CallReturns` |
| `MigratedIndexes` | a V1 file of two heap pages and one index page | violates `IndexesOpen` |
| `Accounts` | 2 connections, 2 names, 1 right, 3 identities, a grant repeated twice, symmetry | `MemoryMatchesRows`, `OneFounder`, `GrantsOwned`, `EntitledOnly` |
| `Workbench` | 2 sessions; 2 handlers and 1 directory, or 1 handler and 2 directories; calls connect and execute; fairness | `ClosedForGood`, `LocksExplained`, `NeverCutOff`, `Answered`, `Abandoned` |
| `BufferedPages` | 3 pages, capacity 1 or 2, both policies, 1 fault, symmetry in the data | `CleanMatchesDisk`, `FreeUncached`, `PagesKept`: the refinement of `PageSpace` |
| `HeapTables` | 2 tables, 3 pages of room 4, two row sizes, a legacy file | `ChainsSound`, `OwnRidsOnly`, and `RidsStable`: the refinement of `RecordTables` |
| `IndexTree` | 3 keys x 3 record ids, entries of 4, pointers of 1, pages of 14, at most 12 pages | `Balanced`, `Ordered`, `OnlyMergesOutgrow`, `EntriesKept` |
| `IndexMerge` | the same | violates `PageFits` |
| `WriteTriggers` | 3 tables with 2 columns, 2 keys and NULL, 2 rows per table, a PRIMARY KEY, a UNIQUE, a CHECK, 2 foreign keys (one to its own table), 2 indexes, 5 triggers, 2 statements per transaction | `IndexesMatch`, `KeysUnique`, `ReferencesHold`, `NoReentry`, `Mirrored` |
| `ObjectCatalog` | 2 table names, 2 view names (one shared), a trigger, an index, 2 columns | `ReloadAgrees`, `ViewsResolve`, `DependenciesOwned`, `ObjectsResolve` |
| `QueryPlans` | a DECIMAL and an INT column, 3 values each with NULL, 3 rows, 2 indexes | `IndexAnswers`, `FoldSound`, `OuterJoinsAgree`, `SortStable`, `DuplicatesAgree` |

What the properties say, and of which code, is in the comment above each of them. Types are part of the
proofs, and in the modules without one they are part of an invariant: `ChainsSound`, `Balanced`, `NoReentry`, `ReloadAgrees`. Every property was seen to fail on a mutated
definition: the mutants sit beside the definition they change (`Load_KeepsCache` beside `Load`) and are
listed in `PROJECT.json`. They are not part of any next-state relation.

**Bounds.** *Transactions:* two connections suffice for exclusion and staleness, as the lock has one holder
and a third would only wait; two values beyond the first let one connection commit twice or both once, which
a stale cache needs; two faults reach a fault inside the except clause or inside a rollback; the crash and
the power loss can come in either order and in the middle of a recovery from the other. In `TxnFailures` a fresh directory is checked without
faults: with one, the rollback creates the system tables unjournaled (see below).
*Migration:* a second migration is one that passed the first look at the version before the first replaced the
file; `OldConns` lets one connection open a directory that was V1, both a fresh one; a migration can fail at
each step any number of times, as it keeps no counter. *Accounts:* three identities are a name given again
while another account lives; a grant held twice tells rows from a set; two connections remember what the other
has changed. *Workbench:* with two handlers and one session, one closes what the other calls, and only one of them connects
(a worker does not ask who sent a call, and one handler can still connect both sessions); the
second session waits for the directory's lock or is swept meanwhile; `Cap` equals the number of sessions
that may ever be made. A second group of clients (`MCWorkbench`) has one
handler and two directories: one session changes from its database to that of the other and back, which it may do only outside a
transaction, and keeps its own connection open while it waits. Two handlers and two directories at once are too many states; workers,
sweep and shutdown run beside the one. "login", "state", "logout" and "disconnect" are in the module and in its theorems; the run leaves them out of
`Requests`: each takes the lock as "execute" does, or nothing, or does what a close does. *Pool:* three pages over at most two frames
force evictions at each miss. *Heap:* rows of two sizes and pages that hold one large or two small ones give
full pages, holes and reuse in a chain of two, by two tables that compete for the pages. *Tree:* nine entries
at three per leaf and two per inner node give three levels, both kinds of borrowing and merging at two levels; `Spare` free pages
let no insertion stand still half-way. `VIEW Shape` makes
one state of trees that differ only in the numbers of their pages: no operation compares page numbers. A leaf of 14 takes three entries
of 4; an inner node, whose entries are one longer, takes two with its first child. Two inner nodes of one entry are at the threshold and with the separator come to 16: `IndexMerge`
finds this defect (see below), `IndexTree` that no other step makes a node too large. Behind such a merge the model goes on, where the
program stops with an error. *Write path:* two keys
suffice to swap, a NULL to pass a UNIQUE and a foreign key, three tables close a cycle of triggers, and two statements let one statement undo another's
premise. *Catalog:* a name shared by a table and a view gives the clashes; one trigger and one index are
enough for a dangling reference, and the second table for renames. `HeapTables` and `ObjectCatalog` stop when they
have filled their bounds, `Workbench` when the process has ended, hence `CHECK_DEADLOCK FALSE` in these three only.
*Queries:* three
rows are needed for ties and for a page boundary inside a tie. Every predicate in `MCQueries` is asked of every
table and every set of indexes. `KeyDigits = 2` keeps the stored values exactly, as 28 digits do for
values of up to 28 digits. With `KeyDigits = 1`, or with a literal above the largest INT (`MCWideBounds`), `IndexAnswers` fails, and with ON
conditions that name one source (`MCOneSided`) `OuterJoinsAgree` does: the code does not answer these well (see below). What does not look at
indexes is checked on the tables without an index only: those are all tables.

**Fairness.** *Connections* (`Migration`): weak fairness of `Progress(c)`, the thread of a call, which keeps running
until the call returns. This includes `Busy`, since `DatabaseLock.acquire` polls until a deadline. Nothing is
assumed of the client (it may leave a transaction open for ever), of crashes, of write-backs, or of a migration,
which may stand still with the lock in its hands: `CallReturns` holds beside it. *Workbench:* weak fairness of each
handler once it has found its session, of each worker, of the clock and of the main thread, which are threads
the system schedules; nothing of clients. `Sweep` has strong fairness, because it waits for `sessions_lock`: handlers
hold it for moments only, but again and again, and a lock that is free infinitely often is not promised to a waiting
thread by weak fairness. In `Answered` and `Abandoned` the end of the process counts as an end.

## What is proved

| theorem | statement | for every | under |
|---|---|---|---|
| `TypeCorrect` | `Spec => []TypeOK` | set of connections, bounds | the assumptions of `TransactionalDatabase` |
| `MutualExclusion` | `Spec => []LockHeld` | the same | the same |
| `Recoverability` | `Spec => []ImagesRecover` | the same | `OrderedExisting` |
| `WritesAreJournaled` | `Spec => WriteAhead` | the same | `OrderedExisting` |
| `Atomicity` | `Spec => AtomicSerial` (the refinement of `AtomicStore`) | the same | `OrderedExisting` |
| `BackupsHold` | `MSpec => []BackupHolds` | connections, migrators, bounds | `OrderedMetadata` |
| `MigratedAtomicity` | `MSpec => AtomicSerial` | the same | `OrderedMetadata`, a directory that began as V1 |
| `CleanPagesMatch`, `NoFreePageCached` | `Spec => []CleanMatchesDisk`, `Spec => []FreeUncached` | number of pages, capacity, policy, faults | the assumption of `BufferedPages` |
| `PoolIsPageSpace` | `Spec => PagesKept` (the refinement of `PageSpace`) | the same | the same |
| `HeapSound`, `RidsOwned` | `Spec => []ChainsSound`, `Spec => []OwnRidsOnly` | tables, pages, page room, rows and their sizes, new and old files | the assumption of `HeapStorage` |
| `RidsKept` | `Spec => RidsStable` (the refinement of `RecordTables`) | the same | the same |
| `TypeCorrect`, `BalancedHolds`, `OrderedHolds` (of `BTreeIndex_proof`) | `Spec => []TypeOK`, `[]Balanced`, `[]Ordered` | entries, pages, sizes of a page, an entry and a pointer | the assumption of `BTreeIndex`, `Roomy` |
| `EntriesKeptHolds` | `Spec => []EntriesKept` | the same | `Roomy` |
| `OnlyMergesOutgrowHolds` | `Spec => OnlyMergesOutgrow` | the same | `Roomy` |
| `MemoryKept`, `FounderKept`, `GrantsGoAlong` | `AccountsSpec => []MemoryMatchesRows`, `[]OneFounder`, `[]GrantsOwned` | connections, names, rights, plans, bounds | the assumption of `Accounts` |
| `OnlyEntitled` | `AccountsSpec => EntitledOnly` | the same | the same |
| `DisconnectIsLast`, `EveryLockExplained` | `Spec => []ClosedForGood`, `[]LocksExplained` | handlers, sessions, directories, calls | finitely many handlers |
| `SweepTakesIdle` | `Spec => NeverCutOff` | the same | finitely many handlers |
| `IndexesFollow`, `KeysDiffer` | `Spec => []IndexesMatch`, `[]KeysUnique` | tables, keys, indexes, triggers and their actions, statements, bounds | the two assumptions of `WritePath` |
| `ParentsExist`, `TriggersNest` | `Spec => []ReferencesHold`, `[]NoReentry` | the same | the same |
| `Reloads`, `ViewsExpand` | `Spec => []ReloadAgrees`, `[]ViewsResolve` | names, columns, ids and trees | the assumption of `ObjectCatalog` |
| `DependenciesFollow`, `ObjectsStay` | `Spec => []DependenciesOwned`, `[]ObjectsResolve` | the same | the same |

*Transactions.* `OrderedExisting` says that metadata is ordered and that the database existed before: without the first
`Recoverability` is false (see the model of the disk above), without the second `WritesAreJournaled` is
(see the bootstrap below).

*The control invariant* (`ControlInv`) is `TypeOK`, `LockHeld` and `JournalThere`: at the steps that read or
extend the journal, it exists. Types alone are not inductive, since the before-image and the mark are read
from the journal at those steps; and the journal stays only because no other connection is past the lock.

*The disk invariant* (`DiskInv`) is a shape of the disk, and what each step knows. The shape (`DiskShape`)
says of every image a power loss may leave: its database is not empty; the before-image of its journal, if it
has one, is a whole value; and without a journal, or with one that is fully marked, its database is a whole
value. This alone gives `ImagesRecover`. It is not inductive: removing the journal needs that all images hold
one and the same database (`SettledDb`), which is what the steps from the sync up to the removal know, and
writing the database needs that the journal counts (`Undecided`), which is what the steps before the mark know
(`StepKnows`). One lemma for each kind of effect (writing the database, writing the journal, a sync)
shows what becomes of shape and knowledge, and there is one step per action. `OthersKnow` says why no other
connection's knowledge is disturbed: it is not past the lock. `WritesAreJournaled` is read off both
invariants: each step that writes the database is one at which the journal exists, the two bootstrap steps
being unreachable from an existing database.

*The refinement* (`Atomicity`) adds `StoreInv`: `CallShape` says how place, task, lock and flags of a call fit
together, and `OutcomeKnows` which values a recovery may still produce (`Outcomes`, over all images) at each place, and
what the file and the cache of the lock holder have to do with them. Until the end of the marker is being written
only the before-image can come back; from then on both can, and the step that makes the marker durable leaves the new value alone. With
it every step is shown to be one of `AtomicStore`, a commit where the answer is decided and a stutter everywhere else, the crash,
the power loss and the steps of a recovery included.

*Migration* (`MigrationInv`): a migrator that holds the lock looks to the connections like nobody, apart from a `Busy`. So
`Migration_proof` takes the lemmas about the transaction layer over a view of the state (`Layer`, with `Seen` for `lock`): each
step of a connection is one of the layer, each step of a migrator nothing, or an fsync that settles whether an old
journal is gone (`OwnLayer`). To `LayerInv` come what an image of the directory may show (`Directory`), what a migrator relies on at each
step (`MigratorKnows`: the lock, no journal, from the copy on a backup equal to the file, from its fsync on one
outcome and one image, a synced file when it is renamed) and `Backed`, which says of the backup that nothing recovery may
produce, and nothing a transaction under way would commit, is older (`Floor`). That every step of `AtomicStore` keeps a
`Floor` is the reason why backups stay good afterwards: `BackupsHold` rests on the refinement. The theorem about `AtomicSerial` leaves out the fresh
directory, where the bootstrap would have to be journaled (see below); TLC checks it without faults.

*The pool* (`PoolInv`): beside the two invariants, `FreeListSound` (no free page is the next of two, and
none points back to the head, so taking the head leaves exactly the others) and `WholePages` (a page in use is whole
where it is read from). Four lemmas say what push, pop and writes elsewhere make of `Reached`; each follows from
its being the least closed set. With `PoolInv` every step is one of `PageSpace`: a hit or a miss answers what was
last stored, an eviction changes nothing that can be seen, a failed write is a `Failure`.

*The heap* (`HeapInv`): `ChainsLinked` says that each root begins a sequence of different pages linked by their next fields, which is
then what the walk of the code returns (`ChainIs`); `Settled` that the free list, the chains and nothing else share out the used pages; to
these come types and `HintsOwned`. `ChainsSound` counts owners, and a count is not inductive: `HeapInv` names them. `OthersKept` shows
once for all steps that pages of one table say nothing about another; `Reassigned` that pages may move between a table, the free list and the
end of the file. `RidsKept` rests on `RowPut` and `RowCut` (what becomes of the other slots of a page) and, for a rewrite, on `ScanIs` (scanning meets each record
once), `Paged` and `Placement` (the new pages share out the records): together they are the one-to-one map from new record ids to old ones that
`RecordTables` asks for.

*The tree* (`IInv`, theorem `Reached`) gives every page in use four numbers: what is below page `p` lies from `lo[p]` to
below `top[p]`, its parent takes that to end at `reach[p]`, and `lev[p]` is its height. `Core` says that nodes and numbers agree, page
by page: entries rise within the interval, the children of a node share it out and are one level lower, a leaf's `next` begins where the
leaf ends, and the intervals of one level do not overlap. `Rules` says that the root has the whole interval and is highest. No walk
and no recursion is in it, so that a step is judged at the two or three pages it changes. `reach` differs from `top` only for a page that was
split and whose parent has not yet taken in the separator; an inner node without entries can only be the one looked at next (`Fan`). The lemmas
say what becomes of the numbers when a node is cut in two (`InnerCut`, `LeafHalves`), takes a child in, when
an entry passes between neighbours (`Lends`) and when they unite (`Unites`), each for leaves and inner nodes; every action is
one of these. `Numbers` then yields the properties of whole trees: `Height` bounds the levels by the pages, descending numbers show that
the levels end at the leaves, and the leaf chain is the order of the intervals, which is what lookup and
scan need (`EntriesKeptHolds`). `OnlyMergesOutgrowHolds` is about the sizes of the nodes a step
writes: halves of a node one entry too large, a lender's and a borrower's node, two nodes united.

`Roomy` says that half a page takes two children and the separator between them. A node that lends has more than half a page and then has
two entries, so a borrowing empties nobody. With pages of 4096 bytes, keys up to 2018 bytes meet it; the
code takes keys up to 4058 bytes, and for the others borrowing can fail, as listed under `hazards`. That a node
always fits its page (`PageFits`, the claim of `storage/index.py:40`) is not proved, as it is false: two inner nodes and their separator may
exceed the page, with INT keys for example, and `IndexMerge` shows it. What is proved asks nothing of the sizes but `Roomy` and says how
far the claim is wrong: at that one step, and by less than an entry. `IndexTree` checks the same.

*Accounts* (`AccountsInv`): types, `LockInv` (the explicit transaction is the lock holder's, and with the lock
free there is one file), `MemoryMatchesRows`, and `Sound` of both files: one administrator, no grants under a free name.
`LockInv` is what makes a reload read the rows the check is judged by: `EntitledOnly` is about the file at the moment of the
step, the code decides from memory. Lemmas say what a changed account and a changed count of rows make of
`Load`. `DropUser` keeps `Sound` because it refuses the last administrator and takes the grants along; the first account can be created by one connection alone because `Founder` is judged after the reload.

*The write path* (`WriteInv`): the promises about rows, keys, references and indexes (`Sound`) hold of the store until a statement
fails, and of the journal always; without the latter a rollback could bring back anything. `RunLeaves` is the heart: whatever the
statement, what it leaves is typed, and sound if it succeeded. Its hardest case is UPDATE, where rows are
checked in their old places and come back at record ids that others of the statement have freed: `Placed` says
that each checked row has exactly one place (that there are enough free ids, `FreeEnough`, is a count). `StackOK` says that `_active_triggers` are those on the stack, each
once, which is what the test for recursion needs; `Due` that what is still owed of a row event are triggers of that event, so that their
actions are statements.

*The catalog* (`CatalogInv`): the system rows are exactly those of the dictionaries (`RowsMatch`), and ids are never given twice, or the rows
would not tell a table from another of its name. A view depends at least on what it reads and nothing it depends on
is gone (`DepsHold`), which is why the set of all relations that exist is closed and contains all that an expansion goes through.

*The workbench* (`WorkbenchInv`): `ClosedForGood` needs that a "close" is the last entry of a closed session's queue
(`CloseLast`), which needs that who works on a session works on one that was made (`Targets`) and that
`sessions_lock` is held from the lookup to the submission (`TableLock`). `NeverCutOff` needs that `pending` counts at least
the handlers whose callback is to come and the worker that is running one (`Counted`, a cardinality, hence
the finite set of handlers); every queued call belongs to one of those handlers and to no other entry (`Jobs`, `Flags`), and until
the interrupt nobody closes a registered session (`Registered`). `LocksExplained` needs what a worker between taking the
lock and finishing may assume of its call (`Workers`).

Only model-checked: liveness (`CallReturns`, `Answered`, `Abandoned`), `Mirrored` (which is about the
triggers of the instance), and the properties of `Queries`. Liveness under fairness,
and what recursive operators compute (the evaluation of expressions), are beyond the prover.

## Where code and documentation disagree

Each of these two has a run that ends in a violation, and each was reproduced with the program.

1. *A merge of internal nodes may not fit* (`IndexMerge`; `storage/index.py:40`). The comment counts the two
   nodes but not the separator between them.
2. *A migrated file has indexes without trees* (`MigratedIndexes`; `engine/migrate.py:172`). The module's comment
   wants the system tables rebuilt along so that indexes are not lost. The rows of `__indexes` are copied with the
   root pages and record ids of the old file, and no tree is built.

Also met while modelling; those that a test may meet again are listed under `hazards`. The first four are what a model here
shows when it is given the constants named, and each was reproduced with the program.

- *The bootstrap after a rollback is not journaled* (`engine/database.py:151`). The comment at line 120
  says that all writes, the first creation included, come after the journal. A rollback to an empty file removes the
  journal and then reloads, which creates page 0 and the system tables. `TransactionalDatabase` violates `WriteAhead` in a fresh directory
  with one fault (`InitialDb = Empty`, `MaxFaults = 1`). On the program, with the sync of the first commit failing, all page writes of the
  reload happen without `minisql.journal`, and a file of nine pages is left.
- *DECIMAL index keys are rounded to 28 digits* (`storage/index.py:140`). The module's comment (line 3) says that the order of
  keys is the order of values. Values of up to 38 digits may share a key, and an exclusive bound loses rows: `IndexAnswers` with
  `KeyDigits = 1`; on the program, `WHERE d > ...` with two DECIMAL(33,1) values that differ in the 31st digit gives one row, and none
  after `CREATE INDEX`.
- *A bound beyond 64 bits has no key* (`storage/index.py:91`). `_coerce_index_bound` (`engine/executor.py:161`) is to widen a bound that is not
  exact: `IndexAnswers` with `MCWideBounds`; on the program, `n < 99999999999999999999.5` on an INT column is answered without an index and
  ends in `struct.error` with one.
- *A scan may be bound to another source* (`engine/executor.py:343`, against `src/docs/接口约定.md:130`). When a query block
  names no column of its own table, the fallback by column name can pick the binding of another source or of the outer query:
  `OuterJoinsAgree` with `MCOneSided`; on the program, with `l = {1, 2}` and `r = {2}`, `l LEFT JOIN r ON l.n = 1` pairs row 1, but
  `SELECT l.n FROM l WHERE EXISTS (SELECT 1 FROM r WHERE l.n = 1)` gives none.
- *A trigger does not protect its table* (`engine/write_path.py:417`). `src/docs/SQL扩展契约提案-成员三.md:33` says that
  triggers are recorded as dependents; only views are. `ObjectsResolve` leaves triggers out.
- A script `ROLLBACK; BEGIN;` after an error leaves `Session.failed` true in a healthy transaction
  (`gui/session.py:132`): the page then offers nothing but ROLLBACK.
- The insert hint compares page numbers where the order of the chain matters (`storage/record.py:663`): after page
  reuse, a hole before the hint is not filled.
- Table numbers are never given again, and page 0 holds about a thousand (`storage/record.py:304`).
- Deleting from a tree with long keys may end in `IndexError`: borrowing from a right sibling with one entry
  empties it (`storage/index.py:574`).
- Compiled trigger actions are cached by name for a whole transaction (`engine/write_path.py:432`).
- Renaming the parent of a foreign key, or dropping its UNIQUE constraint, leaves the child's constraint
  naming what is gone (`engine/write_path.py:233`).
- Renaming or dropping an indexed column drops the index and leaks its pages (`engine/write_path.py:293`).
- Grants name objects, not their identity: a table created under the name of a dropped one inherits its grants.

## What is not modelled

- Text: lexer, parsers, error positions, tracing, the command line and the browser page. They keep no state.
- In the transaction layer: the check that a transaction stays in its thread, `NOT_LOGGED_IN`, and the
  journal's temporary file before its rename (a crash there leaves nothing that is read again). None of them
  changes the database.
- In the write path: DEFAULT (the compiler puts it into the row), several actions in one trigger, subqueries in WHERE and
  SET, trigger and constraint DDL inside a transaction, and the basic dialect's INSERT and DELETE (they call the heap
  alone). Permissions are in `Accounts`.
- In the catalog: ALTER of a column's type, the conversion of rows, CHECK/NOT NULL/DEFAULT.
- In queries: LIKE, BETWEEN, IS NOT NULL, AVG, DECIMAL arithmetic and division, unary minus, functions,
  scalar subqueries, derived tables, several tables (every source of a join scans the one table).
- Byte layouts, and what a corrupted file does to the decoders.
- In accounts: password hashes (a password is right or wrong) and which right each operator needs.
- In the workbench: HTTP headers, the token, the payload of replies, and a failing thread start.
- In migration: `--no-backup`, which leaves out the copy, and the V1 decoder.

## Plan

1. Done: every component that keeps state has a module; theorems about transactions and their refinement, migration, the
   pool, the heap, the tree, the write path, the catalog, accounts and the workbench.
2. `BTreeIndex`: entries of two sizes, in a run of its own with few keys; `Roomy` then becomes a question about single nodes.
3. `WritePath`: trigger DDL with the cache of compiled actions, the basic dialect's statements, and following a
   renamed parent of a foreign key.
4. `HeapStorage` over `BufferedPages`, for callers that keep a page across another `get_page`
   (`storage/buffer.py:46`).
