------------------------------ MODULE Migration ------------------------------
(***************************************************************************)
(* migrate() of engine/migrate.py, run by processes of its own beside the   *)
(* connections of TransactionalDatabase: the backup, the rebuild of a V1    *)
(* file as V2 in a temporary file, and the replacement, with I/O errors,    *)
(* crashes and power losses between any two effects.                        *)
(*                                                                         *)
(* A migration keeps the value of the database, so db and survive do not    *)
(* tell a V1 file from its V2 copy: the entry of minisql.db in the          *)
(* directory and the backup are here, and "images" is what a power loss may *)
(* leave of them.                                                           *)
(***************************************************************************)
EXTENDS TransactionalDatabase

CONSTANTS Migrators, \* processes that call migrate(directory, apply=True)
          OldConns,  \* bound: the connections that open a directory once V1
          HeapPages, \* pages of the V1 file that hold rows
          IndexPages \* pages of the V1 file that are roots of indexes

ASSUME MigrationAssumption ==
    /\ Migrators \cap (Conns \cup {Nobody}) = {}
    /\ OldConns \subseteq Conns
    /\ HeapPages \in SUBSET Nat /\ IsFiniteSet(HeapPages)
    /\ IndexPages \in SUBSET (Nat \ HeapPages)

VARIABLES
    mstep,     \* mstep[m]: the next step of migrator m
    version,   \* detect_format_version of minisql.db
    backup,    \* minisql.db.v1.bak: Empty (none), Torn or a value
    temp,      \* minisql.db.migrating
    images,    \* the pairs of version and backup a power loss may leave
    origin     \* the version the directory began with; never changes

own == <<mstep, version, backup, temp, images, origin>>
mvars == <<vars, own>>

Busily == {"copy", "write", "bsync", "clean", "rebuild", "fill", "tsync", "replace", "rsync"}
MSteps == {"rest", "wait"} \cup Busily
TempFiles == {"none", "partial", "whole", "synced"}

Shown == [version |-> version, backup |-> backup]

\* A fresh directory gets a V2 database; an old one holds a V1 database.
MInit ==
    /\ mstep = [m \in Migrators |-> "rest"]
    /\ \/ InitWith(Empty, 0) /\ version = 2
       \/ InitWith(0, 0) /\ version = 1
    /\ origin = version
    /\ backup = Empty
    /\ temp = "none"
    /\ images = {Shown}

(***************************************************************************)
(* The connections.  Every fsync of the directory makes the rename of       *)
(* minisql.db durable along with the journal's own entry.                   *)
(***************************************************************************)
DirectorySyncs == {"syncdb", "syncdir", "publish", "syncdata", "csyncdir"}

Beside(c) ==
    /\ images' = IF pc[c] \in DirectorySyncs /\ budget' = budget THEN {Shown} ELSE images
    /\ UNCHANGED <<mstep, version, backup, temp, origin>>

Connection(c) ==
    /\ \/ Progress(c) \/ Environment(c)
       \/ (origin = 1 => c \in OldConns) /\ Request(c)
    /\ Beside(c)

(***************************************************************************)
(* migrate().                                                               *)
(***************************************************************************)
To(m, step) == mstep' = [mstep EXCEPT ![m] = step]
Held == <<pc, kind, task, failed, broken, cache, result>>

\* The first, unlocked look at the format.  A half-written file may still show
\* its header; with no file, or a V2 file, migrate returns.
Inspect(m) ==
    /\ mstep[m] = "rest"
    /\ version = 1 /\ db # Empty
    /\ To(m, "wait")
    /\ UNCHANGED <<version, backup, temp, images, vars>>

\* Mutation of Refused: the version is not looked at again under the lock.
Refused_JournalOnly == journal # NoJournal

\* Under the lock: _reject_pending_journal, and the version once more.
Refused == journal # NoJournal \/ version = 2

Enter(m) ==
    /\ mstep[m] = "wait"
    /\ lock = Nobody
    /\ ~Refused
    /\ lock' = m
    /\ To(m, "copy")
    /\ UNCHANGED <<version, backup, temp, images, Held, disk, budget>>

\* The lock is taken and given back, or DATABASE_BUSY after the deadline.  A
\* migration without apply ends here too: it counts the rows.
Leave(m) ==
    /\ mstep[m] = "wait"
    /\ To(m, "rest")
    /\ UNCHANGED <<version, backup, temp, images, vars>>

\* The backup is being written, in place of an earlier one.
WriteBackup(x) ==
    /\ backup' = x
    /\ images' = images \cup {[i EXCEPT !.backup = b] : i \in images, b \in {x, Torn}}

CopyStarts(m) ==
    /\ mstep[m] = "copy"
    /\ WriteBackup(Torn)
    /\ To(m, "write")
    /\ UNCHANGED <<version, temp, vars>>

CopyEnds(m) ==
    /\ mstep[m] = "write"
    /\ WriteBackup(db)
    /\ To(m, "bsync")
    /\ UNCHANGED <<version, temp, vars>>

\* fsync of the backup and of the directory.
SyncBackup(m) ==
    /\ mstep[m] = "bsync"
    /\ images' = {Shown}
    /\ SyncJournal
    /\ To(m, "clean")
    /\ UNCHANGED <<version, backup, temp, Held, lock, db, journal, budget>>

\* What an interrupted migration left is removed before FileManager opens it.
CleanTemp(m) ==
    /\ mstep[m] = "clean"
    /\ temp' = "none"
    /\ To(m, "rebuild")
    /\ UNCHANGED <<version, backup, images, vars>>

RebuildStarts(m) ==
    /\ mstep[m] = "rebuild"
    /\ temp' = "partial"
    /\ To(m, "fill")
    /\ UNCHANGED <<version, backup, images, vars>>

\* Mutation of RebuildEnds: _fsync_file is forgotten.
RebuildEnds_Unsynced(m) ==
    /\ mstep[m] = "fill"
    /\ temp' = "whole"
    /\ To(m, "replace")
    /\ UNCHANGED <<version, backup, images, vars>>

RebuildEnds(m) ==
    /\ mstep[m] = "fill"
    /\ temp' = "whole"
    /\ To(m, "tsync")
    /\ UNCHANGED <<version, backup, images, vars>>

SyncTemp(m) ==
    /\ mstep[m] = "tsync"
    /\ temp' = "synced"
    /\ To(m, "replace")
    /\ UNCHANGED <<version, backup, images, vars>>

\* os.replace: a file whose content was never synced may turn out half written.
Replace(m) ==
    /\ mstep[m] = "replace"
    /\ version' = 2
    /\ temp' = "none"
    /\ images' = images \cup {[i EXCEPT !.version = 2] : i \in images}
    /\ survive' = survive \cup
          IF temp = "synced" THEN {} ELSE {[i EXCEPT !.db = Torn] : i \in survive}
    /\ To(m, "rsync")
    /\ UNCHANGED <<backup, Held, lock, db, journal, budget>>

\* The directory is synced by durable_replace and again by migrate; then the
\* lock is closed.
SyncReplaced(m) ==
    /\ mstep[m] = "rsync"
    /\ images' = {Shown}
    /\ SyncJournal
    /\ lock' = Nobody
    /\ To(m, "rest")
    /\ UNCHANGED <<version, backup, temp, Held, db, journal, budget>>

\* Failures of a migration need no bound: it keeps no counter.
\* An I/O error: the except clause removes the temporary file, the finally
\* clause gives the lock back.
MigrationFault(m) ==
    /\ mstep[m] \in Busily
    /\ temp' = IF mstep[m] \in {"rebuild", "fill", "tsync", "replace"} THEN "none" ELSE temp
    /\ lock' = Nobody
    /\ To(m, "rest")
    /\ UNCHANGED <<version, backup, images, Held, disk, budget>>

MigratorCrash(m) ==
    /\ mstep[m] \in Busily
    /\ lock' = Nobody
    /\ To(m, "rest")
    /\ UNCHANGED <<version, backup, temp, images, Held, disk, budget>>

\* A temporary file that survives is never read, whatever is left in it.
PowerFails ==
    /\ PowerLoss
    /\ \E i \in images :
          /\ version' = i.version
          /\ backup' = i.backup
          /\ images' = {i}
    /\ temp' = IF temp = "none" THEN "none" ELSE "partial"
    /\ mstep' = [m \in Migrators |-> "rest"]

-----------------------------------------------------------------------------
Migrate(m) ==
    \/ Inspect(m) \/ Enter(m) \/ Leave(m)
    \/ CopyStarts(m) \/ CopyEnds(m) \/ SyncBackup(m)
    \/ CleanTemp(m) \/ RebuildStarts(m) \/ RebuildEnds(m) \/ SyncTemp(m)
    \/ Replace(m) \/ SyncReplaced(m)
    \/ MigrationFault(m) \/ MigratorCrash(m)

MNext ==
    \/ \E c \in Conns : Connection(c)
    \/ \E m \in Migrators : Migrate(m) /\ UNCHANGED origin
    \/ PowerFails /\ UNCHANGED origin

\* Once called, a connection's thread keeps running until the call returns; a
\* migration may stand still for good with the lock in its hands.
MSpec == MInit /\ [][MNext]_mvars /\ \A c \in Conns : WF_mvars(Progress(c) /\ Beside(c))

-----------------------------------------------------------------------------
\* Whatever a power loss, a crash or a second migration does, a file that is V2
\* by migration has beside it a whole backup, and of a value that was really
\* committed ("先备份原文件": the original is backed up first).  The backup is
\* rewritten in place by every attempt, so this needs the order of the copy's
\* fsync and the rename, and the second look at the version.
BackupHolds ==
    origin = 1 =>
        \A i \in images : i.version = 2 =>
            /\ i.backup \in Value
            /\ \A s \in survive : i.backup <= Recovered(s)

(***************************************************************************)
(* The rows of __indexes, each naming the root page of its tree.            *)
(***************************************************************************)
Original == [heaps |-> HeapPages, roots |-> IndexPages, named |-> IndexPages]

\* _rebuild: every row of every table is inserted again, those of __indexes as
\* they are; the pages are new, and no index is built.
Rebuilt(f) == [heaps |-> 1..Cardinality(f.heaps), roots |-> {}, named |-> f.named]

Layout ==
    IF origin = 2 THEN [heaps |-> {}, roots |-> {}, named |-> {}]
    ELSE IF version = 1 THEN Original ELSE Rebuilt(Original)

\* Every index the catalog names can be opened: its root is the root of a tree
\* in this file (migrate.py: the system tables are rebuilt along "避免视图/索引/
\* 账户元数据在迁移后丢失").
IndexesOpen == Layout.named \subseteq Layout.roots
=============================================================================
