------------------------ MODULE TransactionalDatabase ------------------------
(***************************************************************************)
(* The transaction layer: TransactionalDatabase (engine/database.py) over   *)
(* DatabaseLock and RollbackJournal (storage/journal.py), one step per      *)
(* effect on the disk, with I/O errors, process crashes and power losses    *)
(* between any two of them.                                                 *)
(*                                                                         *)
(* The content of minisql.db is one integer; a statement that writes adds   *)
(* one to what its connection loaded.  A file that is half written is Torn. *)
(* "survive" is the set of disk images a power loss may leave: an effect    *)
(* adds images, an fsync removes those it rules out.                        *)
(***************************************************************************)
EXTENDS Naturals, FiniteSets

CONSTANTS
    Conns,            \* connections: own file handle, own lock handle, own cache
    MaxValue,         \* bound: writes stop at this value
    MaxFaults,        \* bound: I/O errors
    MaxCrashes,       \* bound: process crashes
    MaxPowerLosses,   \* bound: power losses
    InitialDb,        \* what the first open finds: Empty or a value
    OrderedMetadata,  \* TRUE: the file system never makes data durable before
                      \* an earlier rename or unlink in the same directory
    Empty,            \* a database file of length zero, or none
    Torn,             \* a file that is neither the old nor the new content
    NoJournal, Nobody

Value == 0..MaxValue

ASSUME BoundsAssumption ==
    /\ MaxValue \in Nat
    /\ MaxFaults \in Nat /\ MaxCrashes \in Nat /\ MaxPowerLosses \in Nat
    /\ OrderedMetadata \in BOOLEAN
ASSUME ContentAssumption ==
    /\ Empty \notin Nat /\ Torn \notin Nat /\ Empty # Torn
    /\ InitialDb \in Value \cup {Empty}
    /\ NoJournal \notin [before: Value \cup {Empty, Torn}, mark: {"none", "part", "full"}]
    /\ Nobody \notin Conns

Content == Value \cup {Empty, Torn}
\* minisql.journal: the before-image and how much of MSQL-COMMITTED follows it.
Journal == [before: Content, mark: {"none", "part", "full"}]
Image == [db: Content, journal: Journal \cup {NoJournal}]

VARIABLES
    pc,        \* pc[c]: the next step of connection c's current call
    kind,      \* kind[c]: the call: open, auto, explicit (BEGIN) or close
    task,      \* task[c]: who runs recovery: _start, its except clause, rollback
    failed,    \* failed[c]: _failed
    broken,    \* broken[c]: _broken
    cache,     \* cache[c]: what c's buffer pool holds; stale between transactions
    lock,      \* holder of the flock on minisql.lock
    db,        \* minisql.db as the operating system shows it
    journal,   \* minisql.journal as the operating system shows it
    survive,   \* the images a power loss may leave
    result,    \* result[c]: the last answer of connection c
    faults, crashes, losses

disk == <<db, journal, survive>>
budget == <<faults, crashes, losses>>
vars == <<pc, kind, task, failed, broken, cache, lock, db, journal, survive,
          result, faults, crashes, losses>>

Resting == {"none", "idle"}
RecoverSteps == {"recover", "truncate", "rewrite", "syncdb", "unlink", "syncdir"}
BeginSteps == {"journal", "publish"}
LoadSteps == {"load", "bootstrap", "register"}
CommitSteps == {"flush", "syncdata"}
MarkSteps == {"mark", "markrest", "marksync"}
CleanSteps == {"cunlink", "csyncdir"}
Steps == Resting \cup {"acquire", "txn"} \cup RecoverSteps \cup BeginSteps
            \cup LoadSteps \cup CommitSteps \cup MarkSteps \cup CleanSteps
Kinds == {"open", "auto", "explicit", "close"}
Tasks == {"start", "undo", "rollback"}
Results == {"none", "committed", "aborted", "uncertain", "error", "busy", "unknown"}

(***************************************************************************)
(* The disk.                                                                *)
(***************************************************************************)
Current == [db |-> db, journal |-> journal]

\* What the next recovery makes of an image; an empty file becomes value 0.
Recovered(i) ==
    LET x == IF i.journal = NoJournal \/ i.journal.mark = "full"
             THEN i.db ELSE i.journal.before
    IN  IF x = Empty THEN 0 ELSE x

WriteDb(x) ==
    /\ db' = x
    /\ survive' = survive \cup
          [db: {x, Torn},
           journal: IF OrderedMetadata THEN {journal} ELSE {i.journal : i \in survive}]

WriteJournal(j) ==
    /\ journal' = j
    /\ survive' = survive \cup {[db |-> i.db, journal |-> j] : i \in survive}

\* fsync of the journal or of its directory entry; fsync of everything.
SyncJournal == survive' = {[db |-> i.db, journal |-> journal] : i \in survive}
SyncAll == survive' = {Current}

(***************************************************************************)
(* Initial state: nobody connected, a closed database file holding x, no    *)
(* journal, and some of the faults there may be spent.                      *)
(***************************************************************************)
InitWith(x, spent) ==
    /\ pc = [c \in Conns |-> "none"]
    /\ kind = [c \in Conns |-> "close"]
    /\ task = [c \in Conns |-> "start"]
    /\ failed = [c \in Conns |-> FALSE]
    /\ broken = [c \in Conns |-> FALSE]
    /\ cache = [c \in Conns |-> 0]
    /\ lock = Nobody
    /\ db = x
    /\ journal = NoJournal
    /\ survive = {[db |-> x, journal |-> NoJournal]}
    /\ result = [c \in Conns |-> "none"]
    /\ faults = spent /\ crashes = 0 /\ losses = 0

Init == InitWith(InitialDb, 0)

Goto(c, step) == pc' = [pc EXCEPT ![c] = step]

\* A call of c ends with answer r: locks and flags as _reset_transaction, and
\* the connection object is gone after a failed open or a close.
\* What its cache holds stays in it, stale, until the next load.
Finish(c, r, breaks, kept) ==
    LET gone == kind[c] = "close" \/ (kind[c] = "open" /\ r # "committed") IN
    /\ Goto(c, IF gone THEN "none" ELSE "idle")
    /\ broken' = [broken EXCEPT ![c] = breaks /\ ~gone]
    /\ failed' = [failed EXCEPT ![c] = FALSE]
    /\ result' = [result EXCEPT ![c] = r]
    /\ cache' = [cache EXCEPT ![c] = IF gone THEN 0 ELSE kept]
    /\ kind' = [kind EXCEPT ![c] = "close"]
    /\ task' = [task EXCEPT ![c] = "start"]
    /\ lock' = Nobody

(***************************************************************************)
(* Calls and the lock.                                                      *)
(***************************************************************************)
StartCall(c, k) ==
    /\ pc[c] = IF k = "open" THEN "none" ELSE "idle"
    /\ k # "close" /\ ~broken[c]
    /\ Goto(c, "acquire")
    /\ kind' = [kind EXCEPT ![c] = k]
    /\ UNCHANGED <<task, failed, broken, cache, lock, disk, result, budget>>

\* A connection at rest has no transaction: close only drops the file handles.
CloseIdle(c) ==
    /\ pc[c] = "idle"
    /\ Goto(c, "none")
    /\ broken' = [broken EXCEPT ![c] = FALSE]
    /\ cache' = [cache EXCEPT ![c] = 0]
    /\ UNCHANGED <<kind, task, failed, lock, disk, result, budget>>

Acquire(c) ==
    /\ pc[c] = "acquire"
    /\ lock = Nobody
    /\ lock' = c
    /\ Goto(c, "recover")
    /\ task' = [task EXCEPT ![c] = "start"]
    /\ UNCHANGED <<kind, failed, broken, cache, disk, result, budget>>

\* Mutation of Busy: only the constructor gives up waiting.
Busy_OpenOnly(c) ==
    /\ pc[c] = "acquire"
    /\ kind[c] = "open"
    /\ lock \notin {Nobody, c}
    /\ Goto(c, "none")
    /\ result' = [result EXCEPT ![c] = "busy"]
    /\ kind' = [kind EXCEPT ![c] = "close"]
    /\ UNCHANGED <<task, failed, broken, cache, lock, disk, budget>>

\* The deadline of DatabaseLock.acquire passes while another connection holds it.
Busy(c) ==
    /\ pc[c] = "acquire"
    /\ lock \notin {Nobody, c}
    /\ Goto(c, IF kind[c] = "open" THEN "none" ELSE "idle")
    /\ result' = [result EXCEPT ![c] = "busy"]
    /\ kind' = [kind EXCEPT ![c] = "close"]
    /\ UNCHANGED <<task, failed, broken, cache, lock, disk, budget>>

(***************************************************************************)
(* RollbackJournal.recover and .rollback.                                   *)
(***************************************************************************)

\* What an exception does in the step c is at: the except clause of _start
\* recovers once more; inside that clause, or in a rollback, it ends the call.
Raise(c) ==
    /\ \/ /\ task[c] = "start"
          /\ Goto(c, "recover")
          /\ task' = [task EXCEPT ![c] = "undo"]
          /\ UNCHANGED <<kind, failed, broken, cache, lock, result>>
       \/ /\ task[c] # "start"
          /\ Finish(c, "error", TRUE, cache[c])
    /\ UNCHANGED disk

\* The call of c goes on to another step.
Continue(c, step) ==
    /\ Goto(c, step)
    /\ UNCHANGED <<kind, task, failed, broken, cache, lock, result>>

\* _read: absent, committed (keep the data) or not (restore the before-image).
Recover(c) ==
    /\ pc[c] = "recover"
    /\ IF journal = NoJournal
       THEN IF task[c] = "start" THEN Continue(c, "journal")
            ELSE Finish(c, "error", TRUE, cache[c])
       ELSE IF journal.mark # "full" THEN Continue(c, "truncate")
       ELSE IF task[c] # "rollback" THEN Continue(c, "unlink")
       ELSE Finish(c, "error", TRUE, cache[c])
    /\ UNCHANGED <<disk, budget>>

\* _restore: open "w+b" empties the file, then the before-image is written.
Truncate(c) ==
    /\ pc[c] = "truncate"
    /\ WriteDb(Torn)
    /\ Continue(c, "rewrite")
    /\ UNCHANGED <<journal, budget>>

Rewrite(c) ==
    /\ pc[c] = "rewrite"
    /\ WriteDb(journal.before)
    /\ Continue(c, "syncdb")
    /\ UNCHANGED <<journal, budget>>

\* Mutation of SyncRestored: _restore returns without fsync.
SyncRestored_Skipped(c) ==
    /\ pc[c] = "syncdb"
    /\ Continue(c, "unlink")
    /\ UNCHANGED <<disk, budget>>

\* fsync of the file and of the directory, both inside _restore.
SyncRestored(c) ==
    /\ pc[c] = "syncdb"
    /\ SyncAll
    /\ Continue(c, "unlink")
    /\ UNCHANGED <<db, journal, budget>>

Unlink(c) ==
    /\ pc[c] = "unlink"
    /\ WriteJournal(NoJournal)
    /\ Continue(c, "syncdir")
    /\ UNCHANGED <<db, budget>>

\* _remove is done: _start goes on to begin, its except clause gives up and
\* raises, a rollback reloads.
SyncUnlink(c) ==
    /\ pc[c] = "syncdir"
    /\ SyncJournal
    /\ CASE task[c] = "start" -> Continue(c, "journal")
         [] task[c] = "undo" -> Finish(c, "error", TRUE, cache[c])
         [] task[c] = "rollback" -> Continue(c, "load")
    /\ UNCHANGED <<db, journal, budget>>

(***************************************************************************)
(* RollbackJournal.begin and _reload.                                       *)
(***************************************************************************)

\* Mutation of PublishJournal: only the first transaction of a connection is journaled.
PublishJournal_FirstOnly(c) ==
    /\ pc[c] = "journal"
    /\ IF kind[c] = "open" THEN WriteJournal([before |-> db, mark |-> "none"])
       ELSE UNCHANGED <<journal, survive>>
    /\ Continue(c, "publish")
    /\ UNCHANGED <<db, budget>>

\* The temporary file is complete and synced before os.replace publishes it.
PublishJournal(c) ==
    /\ pc[c] = "journal"
    /\ journal = NoJournal
    /\ WriteJournal([before |-> db, mark |-> "none"])
    /\ Continue(c, "publish")
    /\ UNCHANGED <<db, budget>>

SyncPublished(c) ==
    /\ pc[c] = "publish"
    /\ SyncJournal
    /\ Continue(c, "load")
    /\ UNCHANGED <<db, journal, budget>>

\* Mutation of Load: a connection that has a cache keeps it.
Load_KeepsCache(c) ==
    /\ pc[c] = "load"
    /\ db \in Value
    /\ IF task[c] = "rollback" THEN Finish(c, "aborted", FALSE, db)
       ELSE /\ cache' = [cache EXCEPT ![c] = IF @ = 0 THEN db ELSE @]
            /\ Goto(c, "txn")
            /\ UNCHANGED <<kind, task, failed, broken, lock, result>>
    /\ UNCHANGED <<disk, budget>>

\* A new cache over the file as it is now; it ends a rollback, and it starts a
\* transaction after begin.
Load(c) ==
    /\ pc[c] = "load"
    /\ db # Empty
    /\ IF db = Torn THEN Raise(c)    \* CORRUPT_DATABASE
       ELSE IF task[c] = "rollback" THEN Finish(c, "aborted", FALSE, db)
       ELSE /\ cache' = [cache EXCEPT ![c] = db]
            /\ Goto(c, "txn")
            /\ UNCHANGED <<kind, task, failed, broken, lock, result>>
    /\ UNCHANGED <<disk, budget>>

\* FileManager creates a missing file; DiskPageManager finds it empty.
LoadEmpty(c) ==
    /\ pc[c] = "load"
    /\ db = Empty
    /\ Continue(c, "bootstrap")
    /\ UNCHANGED <<disk, budget>>

\* DiskPageManager writes page 0, PersistentCatalog the system tables.
BootstrapPages(c) ==
    /\ pc[c] = "bootstrap"
    /\ WriteDb(Torn)
    /\ Continue(c, "register")
    /\ UNCHANGED <<journal, budget>>

BootstrapCatalog(c) ==
    /\ pc[c] = "register"
    /\ WriteDb(0)
    /\ Continue(c, "load")
    /\ UNCHANGED <<journal, budget>>

(***************************************************************************)
(* Inside a transaction.                                                    *)
(***************************************************************************)

\* A statement succeeds and adds w; an automatic transaction then commits.
Execute(c, w) ==
    /\ pc[c] = "txn"
    /\ ~failed[c]
    /\ w > 0 => kind[c] # "open" /\ cache[c] < MaxValue
    /\ cache' = [cache EXCEPT ![c] = @ + w]
    /\ Goto(c, IF kind[c] = "explicit" THEN "txn" ELSE "flush")
    /\ UNCHANGED <<kind, task, failed, broken, lock, disk, result, budget>>

ToRollback(c) ==
    /\ Goto(c, "recover")
    /\ task' = [task EXCEPT ![c] = "rollback"]

\* A statement raises after part of its work: the transaction is poisoned, an
\* automatic one is rolled back.
StatementFails(c, w) ==
    /\ pc[c] = "txn"
    /\ ~failed[c]
    /\ kind[c] \in {"auto", "explicit"}
    /\ w > 0 => cache[c] < MaxValue
    /\ cache' = [cache EXCEPT ![c] = @ + w]
    /\ \/ /\ kind[c] = "explicit"
          /\ failed' = [failed EXCEPT ![c] = TRUE]
          /\ UNCHANGED <<pc, task>>
       \/ /\ kind[c] = "auto"
          /\ ToRollback(c)
          /\ UNCHANGED failed
    /\ UNCHANGED <<kind, broken, lock, disk, result, budget>>

\* Dirty pages are evicted, or page 0 is written through, before the commit.
WriteBack(c) ==
    /\ pc[c] = "txn"
    /\ cache[c] # Recovered(Current)
    /\ db # Torn
    /\ WriteDb(Torn)
    /\ UNCHANGED <<pc, kind, task, failed, broken, cache, lock, journal, result, budget>>

CommitCall(c) ==
    /\ pc[c] = "txn"
    /\ kind[c] = "explicit" /\ ~failed[c]
    /\ Continue(c, "flush")
    /\ UNCHANGED <<disk, budget>>

\* ROLLBACK, an interrupt (a BaseException that is no Exception), or close.
RollbackCall(c, k) ==
    /\ pc[c] = "txn"
    /\ kind[c] = "explicit"
    /\ k \in {"explicit", "close"}
    /\ kind' = [kind EXCEPT ![c] = k]
    /\ ToRollback(c)
    /\ UNCHANGED <<failed, broken, cache, lock, disk, result, budget>>

(***************************************************************************)
(* _commit_locked and RollbackJournal.commit.                               *)
(***************************************************************************)

Flush(c) ==
    /\ pc[c] = "flush"
    /\ WriteDb(cache[c])
    /\ Continue(c, "syncdata")
    /\ UNCHANGED <<journal, budget>>

SyncData(c) ==
    /\ pc[c] = "syncdata"
    /\ SyncAll
    /\ Continue(c, "mark")
    /\ UNCHANGED <<db, journal, budget>>

\* The marker reaches the file in two parts: a prefix decides nothing.
MarkPrefix(c) ==
    /\ pc[c] = "mark"
    /\ WriteJournal([journal EXCEPT !.mark = "part"])
    /\ Continue(c, "markrest")
    /\ UNCHANGED <<db, budget>>

MarkCommitted(c) ==
    /\ pc[c] = "markrest"
    /\ WriteJournal([journal EXCEPT !.mark = "full"])
    /\ Continue(c, "marksync")
    /\ UNCHANGED <<db, budget>>

\* Mutation of SyncMark: the lock is released before the journal is removed.
SyncMark_Unlocks(c) ==
    /\ pc[c] = "marksync"
    /\ SyncJournal
    /\ Goto(c, "cunlink")
    /\ lock' = Nobody
    /\ UNCHANGED <<kind, task, failed, broken, cache, result, db, journal, budget>>

SyncMark(c) ==
    /\ pc[c] = "marksync"
    /\ SyncJournal
    /\ Continue(c, "cunlink")
    /\ UNCHANGED <<db, journal, budget>>

CommitUnlink(c) ==
    /\ pc[c] = "cunlink"
    /\ WriteJournal(NoJournal)
    /\ Continue(c, "csyncdir")
    /\ UNCHANGED <<db, budget>>

CommitSyncUnlink(c) ==
    /\ pc[c] = "csyncdir"
    /\ SyncJournal
    /\ Finish(c, "committed", FALSE, cache[c])
    /\ UNCHANGED <<db, journal, budget>>

(***************************************************************************)
(* I/O errors, process crashes and power losses.                            *)
(***************************************************************************)
IOError == faults < MaxFaults /\ faults' = faults + 1 /\ UNCHANGED <<crashes, losses>>

\* In recovery, begin or reload.
StartFault(c) ==
    /\ pc[c] \in RecoverSteps \cup BeginSteps \cup LoadSteps
    /\ IOError
    /\ Raise(c)

\* Before the marker: COMMIT fails and leaves the transaction poisoned; an
\* automatic commit, and the one of the constructor's close, rolls back.
FlushFault(c) ==
    /\ pc[c] \in CommitSteps
    /\ IOError
    /\ \/ /\ kind[c] = "explicit"
          /\ Goto(c, "txn")
          /\ failed' = [failed EXCEPT ![c] = TRUE]
          /\ UNCHANGED task
       \/ /\ kind[c] # "explicit"
          /\ ToRollback(c)
          /\ UNCHANGED failed
    /\ UNCHANGED <<kind, broken, cache, lock, disk, result>>

\* At the marker: COMMIT_UNCERTAIN, whatever reached the disk.
MarkFault(c) ==
    /\ pc[c] \in MarkSteps
    /\ IOError
    /\ Finish(c, "uncertain", TRUE, cache[c])
    /\ UNCHANGED disk

\* After the marker: the error is swallowed, the next recovery cleans up.
CleanFault(c) ==
    /\ pc[c] \in CleanSteps
    /\ IOError
    /\ Finish(c, "committed", FALSE, cache[c])
    /\ UNCHANGED disk

\* The process of c dies; the operating system releases its lock.
Crash(c) ==
    /\ pc[c] # "none"
    /\ crashes < MaxCrashes
    /\ crashes' = crashes + 1
    /\ Goto(c, "none")
    /\ lock' = IF lock = c THEN Nobody ELSE lock
    /\ broken' = [broken EXCEPT ![c] = FALSE]
    /\ failed' = [failed EXCEPT ![c] = FALSE]
    /\ result' = [result EXCEPT ![c] = "unknown"]
    /\ kind' = [kind EXCEPT ![c] = "close"]
    /\ task' = [task EXCEPT ![c] = "start"]
    /\ cache' = [cache EXCEPT ![c] = 0]
    /\ UNCHANGED <<disk, faults, losses>>

PowerLoss ==
    /\ losses < MaxPowerLosses
    /\ losses' = losses + 1
    /\ \E i \in survive :
          /\ db' = i.db
          /\ journal' = i.journal
          /\ survive' = {i}
    /\ pc' = [c \in Conns |-> "none"]
    /\ lock' = Nobody
    /\ broken' = [c \in Conns |-> FALSE]
    /\ failed' = [c \in Conns |-> FALSE]
    /\ result' = [c \in Conns |-> "unknown"]
    /\ kind' = [c \in Conns |-> "close"]
    /\ task' = [c \in Conns |-> "start"]
    /\ cache' = [c \in Conns |-> 0]
    /\ UNCHANGED <<faults, crashes>>

-----------------------------------------------------------------------------
\* The steps a call takes by itself once it was made.
Progress(c) ==
    \/ Acquire(c) \/ Busy(c)
    \/ Recover(c) \/ Truncate(c) \/ Rewrite(c) \/ SyncRestored(c)
    \/ Unlink(c) \/ SyncUnlink(c)
    \/ PublishJournal(c) \/ SyncPublished(c)
    \/ Load(c) \/ LoadEmpty(c) \/ BootstrapPages(c) \/ BootstrapCatalog(c)
    \/ kind[c] # "explicit" /\ \E w \in 0..1 : Execute(c, w)
    \/ Flush(c) \/ SyncData(c) \/ MarkPrefix(c) \/ MarkCommitted(c) \/ SyncMark(c)
    \/ CommitUnlink(c) \/ CommitSyncUnlink(c)

\* The steps the caller chooses.
Request(c) ==
    \/ \E k \in Kinds : StartCall(c, k)
    \/ CloseIdle(c)
    \/ kind[c] = "explicit" /\ \E w \in 0..1 : Execute(c, w)
    \/ \E w \in 0..1 : StatementFails(c, w)
    \/ CommitCall(c)
    \/ \E k \in Kinds : RollbackCall(c, k)

Environment(c) ==
    \/ WriteBack(c)
    \/ StartFault(c) \/ FlushFault(c) \/ MarkFault(c) \/ CleanFault(c)
    \/ Crash(c)

Next ==
    \/ \E c \in Conns : Progress(c) \/ Request(c) \/ Environment(c)
    \/ PowerLoss

Spec == Init /\ [][Next]_vars

\* Once called, a connection's thread keeps running until the call returns.
FairSpec == Spec /\ \A c \in Conns : WF_vars(Progress(c))

-----------------------------------------------------------------------------
TypeOK ==
    /\ pc \in [Conns -> Steps]
    /\ kind \in [Conns -> Kinds]
    /\ task \in [Conns -> Tasks]
    /\ failed \in [Conns -> BOOLEAN]
    /\ broken \in [Conns -> BOOLEAN]
    /\ cache \in [Conns -> Value]
    /\ lock \in Conns \cup {Nobody}
    /\ db \in Content
    /\ journal \in Journal \cup {NoJournal}
    /\ survive \in SUBSET Image
    /\ result \in [Conns -> Results]
    /\ faults \in 0..MaxFaults
    /\ crashes \in 0..MaxCrashes
    /\ losses \in 0..MaxPowerLosses

\* Every step between acquiring and releasing runs under the OS lock, error
\* paths and restarts included (docs: transactions run one at a time).
LockHeld == \A c \in Conns : pc[c] \notin Resting \cup {"acquire"} => lock = c

\* Whatever power loss leaves, at any step of a commit, a rollback or a
\* recovery, recovery finds a whole value: the before-image outlives every
\* half-written database file (journal.py, _restore and _remove).
ImagesRecover == \A i \in survive : Recovered(i) \in Value

\* The file is only ever changed while a published journal exists
\* (_start: "all writes happen after the journal").
WriteAhead == [][db' # db /\ losses' = losses => journal # NoJournal]_vars

\* The abstract transaction of c: from the first load to the answer.
Phase(c) ==
    IF lock # c \/ task[c] = "undo" THEN "idle"
    ELSE IF task[c] = "rollback" \/ failed[c] THEN "aborting"
    ELSE IF pc[c] \in {"txn", "mark", "markrest"} \cup CommitSteps THEN "open"
    ELSE IF pc[c] \in {"marksync"} \cup CleanSteps THEN "prepared"
    ELSE "idle"

Store == INSTANCE AtomicStore WITH
    InitialValue <- Recovered([db |-> InitialDb, journal |-> NoJournal]),
    outcomes <- {Recovered(i) : i \in survive},
    phase <- [c \in Conns |-> Phase(c)],
    view <- [c \in Conns |-> IF Phase(c) \in {"open", "prepared"} THEN cache[c] ELSE 0]

\* Answers are truthful, transactions are atomic and serial, nothing is lost:
\* the layer implements AtomicStore over every failure it models.
AtomicSerial == Store!ASpec

\* Every call returns, whoever else holds the lock and whatever failed.
CallReturns ==
    \A c \in Conns : pc[c] \notin Resting \cup {"txn"} ~> pc[c] \in Resting \cup {"txn"}
=============================================================================
