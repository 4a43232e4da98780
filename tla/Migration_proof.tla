--------------------------- MODULE Migration_proof ---------------------------
(***************************************************************************)
(* Theorems about Migration, for any number of connections and migrators:   *)
(* BackupHolds, and that the connections of a directory that is migrated    *)
(* under them still implement AtomicStore.                                  *)
(*                                                                         *)
(* To the connections a migrator that holds the lock looks like nobody: the *)
(* lemmas of TransactionalDatabase_proof are used of that view.             *)
(***************************************************************************)
EXTENDS Migration, TLAPS

Seen == IF lock \in Migrators THEN Nobody ELSE lock

Layer == INSTANCE TransactionalDatabase_proof WITH lock <- Seen, InitialDb <- 0

LEMMA ZeroContent ==
    0 \in Value /\ 0 \in Nat
BY BoundsAssumption DEF Value

-----------------------------------------------------------------------------
\* A step of a connection is a step of the layer; the one difference is that
\* Busy may find a migrator in the way.
LEMMA ConnectionSeen ==
    ASSUME NEW c \in Conns, task[c] \in Tasks, Progress(c) \/ Request(c) \/ Environment(c)
    PROVE  Layer!Next \/ (lock \in Migrators /\ Busy(c))
<1> USE MigrationAssumption
        DEF Seen, Goto, Layer!Goto, disk, Layer!disk, budget, Layer!budget,
            Continue, Layer!Continue
<1>1. Acquire(c) => Layer!Acquire(c)
    BY DEF Acquire, Layer!Acquire
<1>2. Busy(c) => Layer!Busy(c) \/ lock \in Migrators
    BY DEF Busy, Layer!Busy
<1>3. ASSUME NEW r, NEW b, NEW k, Finish(c, r, b, k) PROVE Layer!Finish(c, r, b, k)
    BY <1>3 DEF Finish, Layer!Finish
<1>4. Raise(c) => Layer!Raise(c)
    BY <1>3 DEF Raise, Layer!Raise
<1>5. /\ Recover(c) => Layer!Recover(c)
      /\ Load(c) => Layer!Load(c)
      /\ SyncUnlink(c) => Layer!SyncUnlink(c)
      /\ CommitSyncUnlink(c) => Layer!CommitSyncUnlink(c)
    <2>1. Recover(c) => Layer!Recover(c)
        BY <1>3 DEF Recover, Layer!Recover
    <2>2. Load(c) => Layer!Load(c)
        BY <1>3, <1>4 DEF Load, Layer!Load
    <2>3. ASSUME SyncUnlink(c) PROVE Layer!SyncUnlink(c)
        <3>1. CASE task[c] = "start"
            BY <2>3, <3>1 DEF SyncUnlink, Layer!SyncUnlink, SyncJournal, Layer!SyncJournal
        <3>2. CASE task[c] = "undo"
            BY <1>3, <2>3, <3>2
               DEF SyncUnlink, Layer!SyncUnlink, SyncJournal, Layer!SyncJournal
        <3>3. CASE task[c] = "rollback"
            BY <2>3, <3>3 DEF SyncUnlink, Layer!SyncUnlink, SyncJournal, Layer!SyncJournal
        <3> QED BY <3>1, <3>2, <3>3 DEF Tasks
    <2>4. CommitSyncUnlink(c) => Layer!CommitSyncUnlink(c)
        BY <1>3 DEF CommitSyncUnlink, Layer!CommitSyncUnlink, SyncJournal, Layer!SyncJournal
    <2> QED BY <2>1, <2>2, <2>3, <2>4
<1>6. /\ Truncate(c) => Layer!Truncate(c)
      /\ Rewrite(c) => Layer!Rewrite(c)
      /\ BootstrapPages(c) => Layer!BootstrapPages(c)
      /\ BootstrapCatalog(c) => Layer!BootstrapCatalog(c)
      /\ Flush(c) => Layer!Flush(c)
    BY DEF Truncate, Layer!Truncate, Rewrite, Layer!Rewrite, BootstrapPages,
       Layer!BootstrapPages, BootstrapCatalog, Layer!BootstrapCatalog, Flush, Layer!Flush,
       WriteDb, Layer!WriteDb
<1>7. WriteBack(c) => Layer!WriteBack(c)
    BY DEF WriteBack, Layer!WriteBack, WriteDb, Layer!WriteDb, Recovered, Layer!Recovered,
       Current, Layer!Current
<1>8. /\ Unlink(c) => Layer!Unlink(c)
      /\ PublishJournal(c) => Layer!PublishJournal(c)
      /\ MarkPrefix(c) => Layer!MarkPrefix(c)
      /\ MarkCommitted(c) => Layer!MarkCommitted(c)
      /\ CommitUnlink(c) => Layer!CommitUnlink(c)
    BY DEF Unlink, Layer!Unlink, PublishJournal, Layer!PublishJournal, MarkPrefix,
       Layer!MarkPrefix, MarkCommitted, Layer!MarkCommitted, CommitUnlink,
       Layer!CommitUnlink, WriteJournal, Layer!WriteJournal
<1>9. /\ SyncRestored(c) => Layer!SyncRestored(c)
      /\ SyncPublished(c) => Layer!SyncPublished(c)
      /\ SyncData(c) => Layer!SyncData(c)
      /\ SyncMark(c) => Layer!SyncMark(c)
      /\ LoadEmpty(c) => Layer!LoadEmpty(c)
    BY DEF SyncRestored, Layer!SyncRestored, SyncPublished, Layer!SyncPublished,
       SyncData, Layer!SyncData, SyncMark, Layer!SyncMark, LoadEmpty, Layer!LoadEmpty,
       SyncAll, Layer!SyncAll, SyncJournal, Layer!SyncJournal, Current, Layer!Current
<1>10. ASSUME NEW w \in 0..1
       PROVE  /\ Execute(c, w) => Layer!Execute(c, w)
              /\ StatementFails(c, w) => Layer!StatementFails(c, w)
    BY DEF Execute, Layer!Execute, StatementFails, Layer!StatementFails,
       ToRollback, Layer!ToRollback
<1>11. ASSUME NEW k \in Kinds
       PROVE  /\ StartCall(c, k) => Layer!StartCall(c, k)
              /\ RollbackCall(c, k) => Layer!RollbackCall(c, k)
    BY DEF StartCall, Layer!StartCall, RollbackCall, Layer!RollbackCall,
       ToRollback, Layer!ToRollback
<1>12. /\ CloseIdle(c) => Layer!CloseIdle(c)
       /\ CommitCall(c) => Layer!CommitCall(c)
       /\ Crash(c) => Layer!Crash(c)
    BY DEF CloseIdle, Layer!CloseIdle, CommitCall, Layer!CommitCall, Crash, Layer!Crash
<1>13. /\ StartFault(c) => Layer!StartFault(c)
       /\ MarkFault(c) => Layer!MarkFault(c)
       /\ CleanFault(c) => Layer!CleanFault(c)
    BY <1>3, <1>4 DEF StartFault, Layer!StartFault, MarkFault, Layer!MarkFault, CleanFault,
       Layer!CleanFault, IOError, Layer!IOError, RecoverSteps, Layer!RecoverSteps,
       BeginSteps, Layer!BeginSteps, LoadSteps, Layer!LoadSteps, MarkSteps,
       Layer!MarkSteps, CleanSteps, Layer!CleanSteps
<1>14. FlushFault(c) => Layer!FlushFault(c)
    BY DEF FlushFault, Layer!FlushFault, IOError, Layer!IOError, CommitSteps,
       Layer!CommitSteps, ToRollback, Layer!ToRollback
<1> HIDE MigrationAssumption
         DEF Seen, Goto, Layer!Goto, disk, Layer!disk, budget, Layer!budget,
             Continue, Layer!Continue
<1> QED
    <2>1. ASSUME Progress(c) PROVE Layer!Progress(c) \/ (lock \in Migrators /\ Busy(c))
        BY <2>1, <1>1, <1>2, <1>5, <1>6, <1>8, <1>9, <1>10 DEF Progress, Layer!Progress
    <2>2. ASSUME Request(c) PROVE Layer!Request(c)
        BY <2>2, <1>10, <1>11, <1>12 DEF Request, Layer!Request, Kinds, Layer!Kinds
    <2>3. ASSUME Environment(c) PROVE Layer!Environment(c)
        BY <2>3, <1>7, <1>12, <1>13, <1>14 DEF Environment, Layer!Environment
    <2> QED BY <2>1, <2>2, <2>3 DEF Layer!Next

-----------------------------------------------------------------------------
(***************************************************************************)
(* The inductive invariant, for a directory that began as V1.               *)
(***************************************************************************)

\* What is known of the connections and the files they share.
LayerInv == Layer!ControlInv /\ Layer!DiskInv /\ Layer!StoreInv

\* The directory as the operating system shows it is one a power loss may leave;
\* it shows V2 as soon as any of them does.
Directory ==
    /\ images \subseteq [version : {1, 2}, backup : Content]
    /\ Shown \in images
    /\ version = 1 => \A i \in images : i.version = 1

\* The backup beside every V2 file is whole, and no later than what is committed.
Backed == \A i \in images : i.version = 2 => i.backup \in Value /\ Layer!Floor(i.backup)

\* Steps after the copy was written, after it was synced, and up to the rename.
Copied == Busily \ {"copy", "write"}
Synced == Copied \ {"bsync"}
Staged == Synced \ {"rsync"}

\* What each step of a migration relies on.
MigratorKnows(m) ==
    /\ mstep[m] \in Busily => lock = m /\ journal = NoJournal
    /\ mstep[m] \in Busily \ {"rsync"} => version = 1
    /\ mstep[m] \in Copied => backup = db
    /\ mstep[m] \in Synced => Layer!Outcomes = {db}
    /\ mstep[m] \in Staged => images = {Shown}
    /\ mstep[m] = "replace" => temp = "synced"

MigrationInv ==
    /\ mstep \in [Migrators -> MSteps]
    /\ LayerInv /\ Directory /\ Backed
    /\ \A m \in Migrators : MigratorKnows(m)

-----------------------------------------------------------------------------
(***************************************************************************)
(* The layer below: what the lemmas about it say here.                      *)
(***************************************************************************)
LEMMA LayerStep ==
    ASSUME OrderedMetadata, LayerInv, [Layer!Next]_(Layer!vars)
    PROVE  LayerInv' /\ Layer!AbstractStep
<1> USE ZeroContent, BoundsAssumption, ContentAssumption DEF Layer!Value, Value
<1>1. Layer!OrderedExisting
    BY DEF Layer!OrderedExisting
<1>2. Layer!ControlInv /\ Layer!DiskInv /\ Layer!StoreInv
    BY DEF LayerInv
<1>3. Layer!ControlInv'
    BY <1>2, Layer!ControlStep
<1>4. Layer!DiskInv'
    BY <1>1, <1>2, Layer!DiskStep
<1>5. Layer!StoreInv'
    BY <1>1, <1>2, Layer!StoreStep
<1>6. Layer!AbstractStep
    BY <1>1, <1>2, Layer!Simulates
<1> QED BY <1>3, <1>4, <1>5, <1>6 DEF LayerInv

\* A migrator that only works on its own files is not noticed.
LEMMA LayerQuiet ==
    ASSUME OrderedMetadata, LayerInv, UNCHANGED <<Held, disk, budget>>, Seen' = Seen
    PROVE  /\ LayerInv' /\ Layer!AbstractStep
           /\ Layer!Outcomes' = Layer!Outcomes
<1>1. UNCHANGED Layer!vars
    BY DEF Layer!vars, Held, disk, budget
<1>2. Layer!Outcomes' = Layer!Outcomes
    BY DEF disk, Layer!Outcomes, Layer!Recovered
<1> QED BY <1>1, <1>2, LayerStep

\* While nobody is seen to hold the lock every connection waits or rests.
LEMMA NobodyBusy ==
    ASSUME LayerInv, Seen \notin Conns
    PROVE  /\ \A c \in Conns : pc[c] \in Resting \cup {"acquire"}
           /\ \A c \in Conns : Layer!Phase(c) = "idle" /\ ~failed[c]
BY DEF LayerInv, Layer!ControlInv, Layer!LockHeld, Layer!Resting, Resting, Layer!Phase,
       Layer!StoreInv, Layer!CallShape

LEMMA HeldUnseen ==
    /\ lock \in Migrators => Seen = Nobody
    /\ lock = Nobody => Seen = Nobody
    /\ Seen \notin Conns <=> lock \notin Conns
    /\ Nobody \notin Conns /\ Nobody \notin Migrators
    /\ \A m \in Migrators : m \notin Conns
BY MigrationAssumption, ContentAssumption DEF Seen

LEMMA LayerRests ==
    ASSUME LayerInv, Seen \notin Conns, Seen' = Seen, failed' = failed,
           Layer!TypeOK', Layer!DiskShape',
           \A c \in Conns : pc'[c] \in Resting \cup {"acquire"}
    PROVE  LayerInv' /\ \A c \in Conns : Layer!Phase(c)' = "idle"
<1>1. \A c \in Conns : Layer!Phase(c)' = "idle" /\ ~failed'[c] /\ Seen' # c
    BY NobodyBusy DEF Layer!Phase
<1> USE DEF Resting, Layer!Resting, Layer!Guarded, Layer!RecoverSteps, Layer!BeginSteps,
            Layer!LoadSteps, Layer!CommitSteps, Layer!MarkSteps, Layer!CleanSteps
<1>2. Layer!ControlInv'
    BY DEF Layer!ControlInv, Layer!LockHeld, Layer!JournalThere
<1>3. Layer!DiskInv'
    BY DEF Layer!DiskInv, Layer!StepKnows
<1>4. Layer!StoreInv'
    BY <1>1 DEF Layer!StoreInv, Layer!CallShape, Layer!OutcomeKnows
<1> QED BY <1>1, <1>2, <1>3, <1>4 DEF LayerInv

\* The fsyncs of a migration settle whether an old journal is gone.
LEMMA MigratorSyncs ==
    ASSUME LayerInv, lock \in Migrators, Seen' = Seen, journal = NoJournal,
           SyncJournal, UNCHANGED <<Held, db, journal, budget>>
    PROVE  LayerInv' /\ Layer!AbstractStep /\ Layer!Outcomes' = {db}
<1> USE ZeroContent, BoundsAssumption, ContentAssumption DEF Layer!Value, Value
<1>1. Layer!TypeOK /\ Layer!DiskShape /\ Seen \notin Conns
    BY HeldUnseen DEF LayerInv, Layer!ControlInv, Layer!DiskInv
<1>2. Layer!SyncJournal /\ UNCHANGED <<db, journal>>
    BY DEF SyncJournal, Layer!SyncJournal
<1>3. Layer!DiskShape'
    BY <1>1, <1>2, Layer!SyncJournalShape
<1>4. Layer!TypeOK'
    <2>1. survive' \in SUBSET Layer!Image
        BY <1>1, <1>2 DEF Layer!TypeOK, Layer!SyncJournal, Layer!Image
    <2> QED BY <1>1, <2>1 DEF Layer!TypeOK, Held, budget
<1>5. LayerInv' /\ \A c \in Conns : Layer!Phase(c)' = Layer!Phase(c)
    <2>1. UNCHANGED <<pc, failed>>
        BY DEF Held
    <2> QED BY <1>1, <1>3, <1>4, <2>1, NobodyBusy, LayerRests
<1>6. Layer!Outcomes' = {db} /\ db \in Layer!Outcomes
    BY <1>1, <1>2, Layer!SyncJournalOutcomes, Layer!RecoveredNow DEF Layer!Undecided
<1>7. Layer!AbstractStep
    <2>1. Layer!PhaseMap' = Layer!PhaseMap /\ Layer!ViewMap' = Layer!ViewMap
        BY <1>5 DEF Layer!PhaseMap, Layer!ViewMap, Layer!View, Held
    <2>2. Layer!Store!Settle
        BY <1>6, <2>1 DEF Layer!Store!Settle, Layer!PhaseMap, Layer!ViewMap, Layer!View,
           Layer!Outcomes, Held
    <2> QED BY <2>2 DEF Layer!AbstractStep, Layer!Store!ANext
<1> QED BY <1>5, <1>6, <1>7

\* A connection that finds a migrator in the way waits or is told so.
LEMMA BusyMigrated ==
    ASSUME LayerInv, lock \in Migrators, NEW c \in Conns, Busy(c)
    PROVE  LayerInv' /\ Layer!AbstractStep
<1>1. /\ Layer!TypeOK /\ Layer!DiskShape /\ Seen \notin Conns /\ Seen' = Seen
      /\ UNCHANGED disk /\ failed' = failed
    BY HeldUnseen DEF LayerInv, Layer!ControlInv, Layer!DiskInv, Busy, Seen
<1>2. Layer!DiskShape'
    BY <1>1 DEF Layer!DiskShape, disk, Layer!Current, Layer!Undecided, Layer!SettledDb
<1>3. Layer!TypeOK' /\ \A d \in Conns : pc'[d] \in Resting \cup {"acquire"}
    <2>1. \A d \in Conns : pc[d] \in Resting \cup {"acquire"}
        BY <1>1, NobodyBusy
    <2> QED BY <1>1, <2>1 DEF Layer!TypeOK, Busy, Goto, disk, budget, Resting, Layer!Steps,
            Layer!Resting, Layer!Results, Layer!Kinds
<1>4. LayerInv' /\ \A d \in Conns : Layer!Phase(d)' = Layer!Phase(d)
    BY <1>1, <1>2, <1>3, NobodyBusy, LayerRests
<1>5. Layer!AbstractStep
    <2>1. /\ Layer!PhaseMap' = Layer!PhaseMap /\ Layer!ViewMap' = Layer!ViewMap
          /\ Layer!Outcomes' = Layer!Outcomes
        BY <1>4 DEF Layer!PhaseMap, Layer!ViewMap, Layer!View, Layer!Outcomes,
           Layer!Recovered, Busy, disk
    <2>2. Layer!Outcomes # {} /\ Layer!Phase(c) = "idle"
        BY <1>1, NobodyBusy DEF Layer!Outcomes, Layer!DiskShape
    <2>3. Layer!Store!Refuse(c)
        BY <2>1, <2>2 DEF Layer!Store!Refuse, Layer!PhaseMap, Layer!ViewMap, Layer!View,
           Layer!Outcomes, Busy
    <2> QED BY <2>3 DEF Layer!AbstractStep, Layer!Store!ANext
<1> QED BY <1>4, <1>5

LEMMA ConnectionStep ==
    ASSUME OrderedMetadata, LayerInv, NEW c \in Conns, Connection(c)
    PROVE  LayerInv' /\ Layer!AbstractStep
<1>1. Progress(c) \/ Request(c) \/ Environment(c)
    BY DEF Connection
<1>2. task[c] \in Tasks
    BY DEF LayerInv, Layer!ControlInv, Layer!TypeOK, Tasks, Layer!Tasks
<1> QED BY <1>1, <1>2, ConnectionSeen, LayerStep, BusyMigrated

\* Whatever a connection does, a migrator that holds the lock finds its files as
\* it left them.
LEMMA ConnectionQuiet ==
    ASSUME LayerInv, lock \in Migrators, NEW c \in Conns, Connection(c)
    PROVE  UNCHANGED <<lock, disk, images>>
<1>1. pc[c] \in {"none", "idle", "acquire"} /\ c # lock /\ lock # Nobody /\ ~failed[c]
    BY HeldUnseen, NobodyBusy DEF Resting
<1>2. images' = images
    BY <1>1 DEF Connection, Beside, DirectorySyncs
<1>3. ASSUME Progress(c) PROVE UNCHANGED <<lock, disk>>
    BY <1>1, <1>3 DEF Progress, Acquire, Busy, Recover, Truncate, Rewrite, SyncRestored,
       Unlink, SyncUnlink, PublishJournal, SyncPublished, Load, LoadEmpty, BootstrapPages,
       BootstrapCatalog, Execute, Flush, SyncData, MarkPrefix, MarkCommitted, SyncMark,
       CommitUnlink, CommitSyncUnlink
<1>4. ASSUME Request(c) PROVE UNCHANGED <<lock, disk>>
    BY <1>1, <1>4 DEF Request, StartCall, CloseIdle, Execute, StatementFails, CommitCall,
       RollbackCall
<1>5. ASSUME Environment(c) PROVE UNCHANGED <<lock, disk>>
    BY <1>1, <1>5 DEF Environment, WriteBack, StartFault, FlushFault, MarkFault, CleanFault,
       Crash, RecoverSteps, BeginSteps, LoadSteps, CommitSteps, MarkSteps, CleanSteps
<1> QED BY <1>2, <1>3, <1>4, <1>5 DEF Connection

-----------------------------------------------------------------------------
(***************************************************************************)
(* The invariant is kept.                                                   *)
(***************************************************************************)
LEMMA BackedKept ==
    ASSUME Backed, LayerInv, Layer!AbstractStep,
           \A i \in images' : i.version = 2 =>
               \E j \in images : j.version = 2 /\ j.backup = i.backup
    PROVE  Backed'
<1> SUFFICES ASSUME NEW i \in images', i.version = 2
             PROVE  i.backup \in Value /\ Layer!Floor(i.backup)'
    BY DEF Backed
<1>1. PICK b : b = i.backup
    OBVIOUS
<1>2. b \in Value /\ b \in Nat /\ Layer!Floor(b)
    BY <1>1 DEF Backed, Value
<1>3. Layer!TypeOK
    BY DEF LayerInv, Layer!ControlInv
<1>4. Layer!Floor(b)'
    BY <1>2, <1>3, Layer!FloorKept, ZeroContent, BoundsAssumption, ContentAssumption
       DEF Layer!Value, Value
<1> QED BY <1>1, <1>2, <1>4 DEF Layer!Floor

\* What a migrator knows lasts while its files and the directory stand still.
LEMMA KnowsKept ==
    ASSUME NEW m \in Migrators, MigratorKnows(m), mstep'[m] = mstep[m],
           mstep[m] \in Busily =>
               /\ UNCHANGED <<lock, db, journal, version, backup, temp, images>>
               /\ Layer!Outcomes' = Layer!Outcomes
    PROVE  MigratorKnows(m)'
BY DEF MigratorKnows, Busily, Copied, Synced, Staged, Shown

LEMMA ConnectionKeeps ==
    ASSUME OrderedMetadata, MigrationInv, NEW c \in Conns, Connection(c)
    PROVE  MigrationInv'
<1>1. LayerInv /\ LayerInv' /\ Layer!AbstractStep
    BY ConnectionStep DEF MigrationInv
<1>2. UNCHANGED <<mstep, version, backup, temp>> /\ (images' = images \/ images' = {Shown})
    BY DEF Connection, Beside
<1>3. Directory'
    BY <1>2 DEF MigrationInv, Directory, Shown
<1>4. Backed'
    BY <1>1, <1>2, BackedKept DEF MigrationInv, Directory
<1>5. ASSUME NEW m \in Migrators PROVE MigratorKnows(m)'
    <2>1. MigratorKnows(m) /\ (mstep[m] \in Busily => lock = m)
        BY DEF MigrationInv, MigratorKnows
    <2>2. ASSUME mstep[m] \in Busily
          PROVE  /\ UNCHANGED <<lock, db, journal, images>>
                 /\ Layer!Outcomes' = Layer!Outcomes
        BY <1>1, <2>1, <2>2, ConnectionQuiet DEF disk, Layer!Outcomes, Layer!Recovered
    <2> QED BY <1>2, <2>1, <2>2, KnowsKept
<1> QED BY <1>1, <1>2, <1>3, <1>4, <1>5 DEF MigrationInv

\* A step of m leaves what the others know: only the lock holder knows anything.
LEMMA OtherMigrators ==
    ASSUME MigrationInv, NEW m \in Migrators, NEW s, To(m, s),
           mstep[m] \in Busily \/ lock = Nobody
               \/ UNCHANGED <<vars, version, backup, temp, images>>,
           NEW n \in Migrators, n # m
    PROVE  MigratorKnows(n)'
<1>1. mstep'[n] = mstep[n] /\ MigratorKnows(n) /\ MigratorKnows(m)
    BY DEF To, MigrationInv
<1>2. n \in Migrators /\ m \in Migrators /\ Nobody \notin Migrators
    BY HeldUnseen
<1>3. CASE mstep[n] \in Busily
    <2>1. lock = n /\ mstep[m] \notin Busily
        BY <1>1, <1>3 DEF MigratorKnows
    <2>2. UNCHANGED <<lock, db, journal, version, backup, temp, images>>
          /\ Layer!Outcomes' = Layer!Outcomes
        BY <1>2, <2>1 DEF vars, Layer!Outcomes, Layer!Recovered
    <2> QED BY <1>1, <2>2, KnowsKept
<1>4. CASE mstep[n] \notin Busily
    BY <1>1, <1>4, KnowsKept
<1> QED BY <1>3, <1>4

\* To the connections a migrator at work does nothing, or an fsync.
LEMMA OwnLayer ==
    ASSUME OrderedMetadata, MigrationInv, NEW m \in Migrators,
           lock \in {m, Nobody}, lock' \in {m, Nobody},
           UNCHANGED <<Held, db, journal, budget>>,
           survive' = survive \/ (lock = m /\ journal = NoJournal /\ SyncJournal)
    PROVE  /\ LayerInv' /\ Layer!AbstractStep
           /\ survive' = survive => Layer!Outcomes' = Layer!Outcomes
           /\ SyncJournal /\ lock = m /\ journal = NoJournal => Layer!Outcomes' = {db}
<1>1. LayerInv /\ Seen' = Seen
    BY HeldUnseen DEF MigrationInv, Seen
<1>2. CASE survive' = survive
    <2>1. UNCHANGED disk
        BY <1>2 DEF disk
    <2>2. LayerInv' /\ Layer!AbstractStep /\ Layer!Outcomes' = Layer!Outcomes
        BY <1>1, <2>1, LayerQuiet
    <2>3. lock = m /\ journal = NoJournal /\ SyncJournal => Layer!Outcomes' = {db}
        BY <1>1, MigratorSyncs
    <2> QED BY <2>2, <2>3
<1>3. CASE survive' # survive
    BY <1>1, <1>3, MigratorSyncs
<1> QED BY <1>2, <1>3

\* A step that leaves the directory as it was, or changes an image of a V1 file.
LEMMA OwnStep ==
    ASSUME OrderedMetadata, MigrationInv, NEW m \in Migrators, NEW s \in MSteps, To(m, s),
           mstep[m] \in Busily \/ lock = Nobody,
           lock' \in {lock, m, Nobody}, UNCHANGED <<Held, db, journal, budget>>,
           survive' = survive \/ (mstep[m] \in Busily /\ SyncJournal),
           Directory',
           \A i \in images' : i.version = 2 =>
               \E j \in images : j.version = 2 /\ j.backup = i.backup,
           Layer!Outcomes' = Layer!Outcomes \/ Layer!Outcomes' = {db} => MigratorKnows(m)'
    PROVE  MigrationInv' /\ Layer!AbstractStep
<1>1. MigratorKnows(m) /\ LayerInv /\ Backed
    BY DEF MigrationInv
<1>2. mstep[m] \in Busily => lock = m /\ journal = NoJournal
    BY <1>1 DEF MigratorKnows
<1>3. /\ LayerInv' /\ Layer!AbstractStep
      /\ Layer!Outcomes' = Layer!Outcomes \/ Layer!Outcomes' = {db}
    BY <1>2, OwnLayer
<1>4. Backed'
    BY <1>1, <1>3, BackedKept
<1>5. \A n \in Migrators : MigratorKnows(n)'
    BY <1>3, OtherMigrators
<1>6. mstep' \in [Migrators -> MSteps]
    BY DEF MigrationInv, To
<1> QED BY <1>3, <1>4, <1>5, <1>6 DEF MigrationInv

LEMMA MigratorStep ==
    ASSUME OrderedMetadata, MigrationInv, NEW m \in Migrators, Migrate(m)
    PROVE  MigrationInv' /\ Layer!AbstractStep
<1>a. /\ mstep \in [Migrators -> MSteps] /\ LayerInv /\ Directory /\ Backed
      /\ MigratorKnows(m) /\ m # Nobody
    BY HeldUnseen DEF MigrationInv
<1>b. ASSUME NEW s, To(m, s) PROVE mstep'[m] = s
    BY <1>a, <1>b DEF To
<1>c. /\ UNCHANGED vars => UNCHANGED <<Held, db, journal, survive, lock, budget>>
      /\ UNCHANGED disk => UNCHANGED <<db, journal, survive>>
    BY DEF vars, Held, budget, disk
<1>d. UNCHANGED <<version, backup, images>> => Directory'
    BY <1>a DEF Directory, Shown
<1> USE DEF MSteps, Busily, Copied, Synced, Staged
<1>1. CASE Inspect(m) \/ Leave(m)
    <2>1. PICK s \in {"wait", "rest"} : To(m, s) /\ UNCHANGED <<version, backup, temp, images, vars>>
        BY <1>1 DEF Inspect, Leave
    <2>2. LayerInv' /\ Layer!AbstractStep /\ Backed'
        <3>1. UNCHANGED <<Held, disk, budget>> /\ Seen' = Seen
            BY <2>1 DEF vars, Held, disk, budget, Seen
        <3>2. LayerInv' /\ Layer!AbstractStep
            BY <1>a, <3>1, LayerQuiet
        <3> QED BY <1>a, <2>1, <3>2, BackedKept
    <2>3. MigratorKnows(m)'
        BY <1>b, <2>1 DEF MigratorKnows
    <2>4. \A n \in Migrators : MigratorKnows(n)'
        BY <2>1, <2>3, OtherMigrators
    <2>5. mstep' \in [Migrators -> MSteps]
        BY <1>a, <2>1 DEF To
    <2> QED BY <1>d, <2>1, <2>2, <2>4, <2>5 DEF MigrationInv
<1>2. CASE Enter(m)
    <2>1. /\ To(m, "copy") /\ lock = Nobody /\ lock' = m /\ journal = NoJournal /\ version # 2
          /\ UNCHANGED <<version, backup, temp, images, Held, db, journal, survive, budget>>
        BY <1>2, <1>c DEF Enter, Refused
    <2>2. version' = 1
        BY <1>a, <2>1 DEF Directory, Shown
    <2>3. MigratorKnows(m)'
        BY <1>b, <2>1, <2>2 DEF MigratorKnows
    <2> QED BY <1>d, <2>1, <2>3, OwnStep
<1>3. CASE CopyStarts(m) \/ CopyEnds(m)
    <2>1. PICK x \in Content, s \in {"write", "bsync"} :
              /\ To(m, s) /\ WriteBackup(x) /\ (s = "bsync" => x = db)
              /\ mstep[m] \in {"copy", "write"}
              /\ UNCHANGED <<version, temp, vars>>
        <3>1. db \in Content /\ Torn \in Content
            BY <1>a DEF LayerInv, Layer!ControlInv, Layer!TypeOK, Layer!Content, Content,
               Layer!Value, Value
        <3> QED BY <1>3, <3>1 DEF CopyStarts, CopyEnds
    <2>2. lock = m /\ journal = NoJournal /\ version = 1 /\ lock' = m
        BY <1>a, <1>c, <2>1 DEF MigratorKnows
    <2>3. /\ backup' = x
          /\ images' = images \cup {[i EXCEPT !.backup = b] : i \in images, b \in {x, Torn}}
        BY <2>1 DEF WriteBackup
    <2>4. ASSUME NEW i \in images'
          PROVE  i \in [version : {1, 2}, backup : Content] /\ i.version = 1
        <3>1. x \in Content /\ Torn \in Content
            BY DEF Content
        <3> QED BY <1>a, <2>2, <2>3, <2>4, <3>1 DEF Directory
    <2>5. Directory'
        <3>1. [Shown EXCEPT !.backup = x] = Shown'
            BY <2>1, <2>3 DEF Shown
        <3> QED BY <1>a, <2>3, <2>4, <3>1 DEF Directory
    <2>6. MigratorKnows(m)'
        BY <1>b, <1>c, <2>1, <2>2, <2>3 DEF MigratorKnows
    <2> QED BY <1>c, <2>1, <2>2, <2>4, <2>5, <2>6, OwnStep
<1>4. CASE SyncBackup(m)
    <2>1. /\ To(m, "clean") /\ images' = {Shown} /\ SyncJournal /\ mstep[m] = "bsync"
          /\ UNCHANGED <<version, backup, temp, Held, lock, db, journal, budget>>
        BY <1>4 DEF SyncBackup
    <2>2. lock = m /\ journal = NoJournal /\ version = 1 /\ backup = db
        BY <1>a, <2>1 DEF MigratorKnows
    <2>3. Directory'
        BY <1>a, <2>1 DEF Directory, Shown
    <2>4. Layer!Outcomes' = {db}
        BY <2>1, <2>2, OwnLayer
    <2>5. MigratorKnows(m)'
        BY <1>b, <2>1, <2>2, <2>4 DEF MigratorKnows, Shown
    <2> QED BY <1>a, <2>1, <2>2, <2>3, <2>5, OwnStep DEF Directory
<1>5. CASE CleanTemp(m) \/ RebuildStarts(m) \/ RebuildEnds(m) \/ SyncTemp(m)
    <2>1. PICK s \in {"rebuild", "fill", "tsync", "replace"} :
              /\ To(m, s) /\ (s = "replace" => temp' = "synced")
              /\ mstep[m] \in Staged \ {"replace"}
              /\ UNCHANGED <<version, backup, images, vars>>
        BY <1>5 DEF CleanTemp, RebuildStarts, RebuildEnds, SyncTemp
    <2>2. /\ lock = m /\ journal = NoJournal /\ version = 1 /\ backup = db
          /\ Layer!Outcomes = {db} /\ images = {Shown}
        BY <1>a, <2>1 DEF MigratorKnows
    <2>3. Layer!Outcomes' = Layer!Outcomes
        BY <1>c, <2>1 DEF Layer!Outcomes, Layer!Recovered
    <2>4. MigratorKnows(m)'
        BY <1>b, <1>c, <2>1, <2>2, <2>3 DEF MigratorKnows, Shown
    <2> QED BY <1>c, <1>d, <2>1, <2>2, <2>4, OwnStep
<1>6. CASE Replace(m)
    <2>1. /\ To(m, "rsync") /\ version' = 2 /\ mstep[m] = "replace"
          /\ images' = images \cup {[i EXCEPT !.version = 2] : i \in images}
          /\ UNCHANGED <<backup, Held, lock, db, journal, budget>>
        BY <1>6 DEF Replace
    <2>2. /\ lock = m /\ journal = NoJournal /\ version = 1 /\ backup = db
          /\ Layer!Outcomes = {db} /\ images = {Shown} /\ temp = "synced"
        BY <1>a, <2>1 DEF MigratorKnows
    <2>3. survive' = survive
        BY <1>6, <2>2 DEF Replace
    <2>4. /\ LayerInv' /\ Layer!AbstractStep /\ Layer!Outcomes' = {db}
        BY <2>1, <2>2, <2>3, OwnLayer
    <2>5. \A i \in images' : i \in [version : {1, 2}, backup : Content] /\ i.backup = db
        BY <1>a, <2>1, <2>2 DEF Directory, Shown
    <2>6. Directory'
        <3>1. [Shown EXCEPT !.version = 2] = Shown'
            BY <2>1 DEF Shown
        <3> QED BY <2>1, <2>2, <2>5, <3>1 DEF Directory
    <2>7. Backed'
        <3>1. db \in Value
            BY <1>a, <2>2 DEF LayerInv, Layer!DiskInv, Layer!DiskShape, Layer!Undecided,
               Layer!SettledDb, Layer!Value, Value
        <3>2. \A c \in Conns : Layer!Phase(c)' = "idle"
            <4>1. LayerInv' /\ Seen' \notin Conns
                BY <2>1, <2>2, <2>4, HeldUnseen DEF Seen
            <4>2. \A c \in Conns : Seen' # c
                BY <4>1
            <4> QED BY <4>2 DEF Layer!Phase
        <3>3. Layer!Floor(db)'
            BY <2>1, <2>4, <3>1, <3>2 DEF Layer!Floor, Value
        <3> QED BY <2>1, <2>5, <3>1, <3>3 DEF Backed, Layer!Floor
    <2>8. MigratorKnows(m)'
        BY <1>b, <2>1, <2>2, <2>4 DEF MigratorKnows
    <2>9. \A n \in Migrators : MigratorKnows(n)'
        BY <2>1, <2>8, OtherMigrators
    <2>10. mstep' \in [Migrators -> MSteps]
        BY <1>a, <2>1 DEF To
    <2> QED BY <2>4, <2>6, <2>7, <2>9, <2>10 DEF MigrationInv
<1>7. CASE SyncReplaced(m)
    <2>1. /\ To(m, "rest") /\ images' = {Shown} /\ SyncJournal /\ mstep[m] = "rsync"
          /\ lock' = Nobody
          /\ UNCHANGED <<version, backup, temp, Held, db, journal, budget>>
        BY <1>7 DEF SyncReplaced
    <2>2. Directory'
        BY <1>a, <2>1 DEF Directory, Shown
    <2>3. MigratorKnows(m)'
        BY <1>b, <2>1 DEF MigratorKnows
    <2> QED BY <1>a, <2>1, <2>2, <2>3, OwnStep DEF Directory
<1>8. CASE MigrationFault(m) \/ MigratorCrash(m)
    <2>1. /\ To(m, "rest") /\ mstep[m] \in Busily /\ lock' = Nobody
          /\ UNCHANGED <<version, backup, images, Held, db, journal, survive, budget>>
        BY <1>8, <1>c DEF MigrationFault, MigratorCrash
    <2>2. MigratorKnows(m)'
        BY <1>b, <2>1 DEF MigratorKnows
    <2> QED BY <1>d, <2>1, <2>2, OwnStep
<1> HIDE DEF MSteps, Busily, Copied, Synced, Staged
<1> QED BY <1>1, <1>2, <1>3, <1>4, <1>5, <1>6, <1>7, <1>8 DEF Migrate

LEMMA PowerStep ==
    ASSUME OrderedMetadata, MigrationInv, PowerFails
    PROVE  MigrationInv' /\ Layer!AbstractStep
<1>a. LayerInv /\ Directory /\ Backed
    BY DEF MigrationInv
<1>1. PICK i \in images : version' = i.version /\ backup' = i.backup /\ images' = {i}
    BY DEF PowerFails
<1>2. Layer!Next
    BY MigrationAssumption
       DEF PowerFails, PowerLoss, Layer!Next, Layer!PowerLoss, Seen
<1>3. LayerInv' /\ Layer!AbstractStep
    BY <1>a, <1>2, LayerStep
<1>4. Backed'
    BY <1>a, <1>1, <1>3, BackedKept
<1>5. Directory'
    <2>1. i \in [version : {1, 2}, backup : Content]
        BY <1>a DEF Directory
    <2>2. Shown' = i
        BY <1>1, <2>1 DEF Shown
    <2> QED BY <1>1, <2>1, <2>2 DEF Directory
<1>6. mstep' = [m \in Migrators |-> "rest"]
    BY DEF PowerFails
<1>7. mstep' \in [Migrators -> MSteps] /\ \A m \in Migrators : MigratorKnows(m)'
    BY <1>6 DEF MSteps, MigratorKnows, Busily, Copied, Synced, Staged
<1> QED BY <1>3, <1>4, <1>5, <1>7 DEF MigrationInv

LEMMA MigrationStep ==
    ASSUME OrderedMetadata, MigrationInv, [MNext]_mvars
    PROVE  MigrationInv' /\ Layer!AbstractStep
<1>1. ASSUME NEW c \in Conns, Connection(c) PROVE MigrationInv' /\ Layer!AbstractStep
    BY <1>1, ConnectionKeeps, ConnectionStep DEF MigrationInv
<1>2. ASSUME NEW m \in Migrators, Migrate(m) PROVE MigrationInv' /\ Layer!AbstractStep
    BY <1>2, MigratorStep
<1>3. CASE PowerFails
    BY <1>3, PowerStep
<1>4. CASE UNCHANGED mvars
    <2>1. UNCHANGED <<mstep, version, backup, temp, images, vars>>
        BY <1>4 DEF mvars, own
    <2>2. UNCHANGED <<lock, db, journal, survive>> /\ UNCHANGED <<Held, disk, budget>>
        BY <2>1 DEF vars, Held, disk, budget
    <2>3. LayerInv' /\ Layer!AbstractStep /\ Layer!Outcomes' = Layer!Outcomes
        BY <2>2, LayerQuiet DEF MigrationInv, Seen
    <2>4. Directory' /\ Backed'
        BY <2>1, <2>3, BackedKept DEF MigrationInv, Directory, Shown
    <2>5. \A m \in Migrators : MigratorKnows(m)'
        BY <2>1, <2>2, <2>3, KnowsKept DEF MigrationInv
    <2> QED BY <2>1, <2>3, <2>4, <2>5 DEF MigrationInv
<1> QED BY <1>1, <1>2, <1>3, <1>4 DEF MNext

LEMMA MigrationStart ==
    ASSUME OrderedMetadata, MInit, origin = 1
    PROVE  MigrationInv /\ Layer!Store!AInit
<1> USE ZeroContent, BoundsAssumption, ContentAssumption DEF Layer!Value, Value
<1>1. /\ InitWith(0, 0) /\ version = 1 /\ backup = Empty /\ images = {Shown}
      /\ mstep = [m \in Migrators |-> "rest"]
    BY DEF MInit
<1>2. Layer!Init
    BY <1>1, HeldUnseen DEF InitWith, Layer!Init, Layer!InitWith
<1>3. Layer!OrderedExisting
    BY DEF Layer!OrderedExisting
<1>4. LayerInv /\ Layer!Store!AInit
    BY <1>2, <1>3, Layer!ControlInit, Layer!DiskInit, Layer!StoreInit DEF LayerInv
<1>5. Directory /\ Backed
    BY <1>1 DEF Directory, Backed, Shown, Content
<1>6. \A m \in Migrators : MigratorKnows(m)
    BY <1>1 DEF MigratorKnows, Busily, Copied, Synced, Staged
<1> QED BY <1>1, <1>4, <1>5, <1>6 DEF MigrationInv, MSteps

LEMMA OriginStays == [MNext]_mvars => origin' = origin
BY DEF MNext, Connection, Beside, mvars, own

LEMMA MigrationAlways == OrderedMetadata /\ MSpec => [](origin = 1 => MigrationInv)
<1> SUFFICES ASSUME OrderedMetadata PROVE MSpec => [](origin = 1 => MigrationInv)
    OBVIOUS
<1>1. MInit => (origin = 1 => MigrationInv)
    BY MigrationStart
<1>2. (origin = 1 => MigrationInv) /\ [MNext]_mvars => (origin = 1 => MigrationInv)'
    BY MigrationStep, OriginStays
<1> QED BY <1>1, <1>2, PTL DEF MSpec

\* Whatever crashes, fails or loses power, and however many migrations are tried:
\* a file that is V2 by migration has beside it a whole backup of a value that
\* was committed, on a file system that keeps the order of directory changes.
THEOREM BackupsHold == OrderedMetadata /\ MSpec => []BackupHolds
<1>1. (origin = 1 => MigrationInv) => BackupHolds
    <2> SUFFICES ASSUME MigrationInv, NEW i \in images, i.version = 2
                 PROVE  i.backup \in Value /\ \A s \in survive : i.backup <= Recovered(s)
        BY DEF BackupHolds
    <2>1. i.backup \in Value /\ Layer!Floor(i.backup)
        BY DEF MigrationInv, Backed
    <2>2. \A s \in survive : Recovered(s) \in Layer!Outcomes
        BY DEF Layer!Outcomes, Layer!Recovered, Recovered
    <2> QED BY <2>1, <2>2 DEF Layer!Floor
<1> QED BY <1>1, MigrationAlways, PTL

-----------------------------------------------------------------------------
\* AtomicStore of Migration itself and of the view: a migrator in place of nobody
\* changes no transaction.
LEMMA SameStore ==
    Layer!AbstractStep => [Store!ANext]_(Store!avars)
<1> SUFFICES ASSUME Layer!AbstractStep PROVE [Store!ANext]_(Store!avars)
    OBVIOUS
<1>1. PICK o, p, w, o1, p1, w1 :
          /\ o = {Recovered(i) : i \in survive} /\ o1 = {Recovered(i) : i \in survive}'
          /\ p = [c \in Conns |-> Phase(c)] /\ p1 = [c \in Conns |-> Phase(c)]'
          /\ w = [c \in Conns |-> IF Phase(c) \in {"open", "prepared"} THEN cache[c] ELSE 0]
          /\ w1 = [c \in Conns |-> IF Phase(c) \in {"open", "prepared"} THEN cache[c] ELSE 0]'
    OBVIOUS
<1>2. \A c \in Conns : Layer!Phase(c) = Phase(c) /\ Layer!Phase(c)' = Phase(c)'
    <2>1. \A c \in Conns : (Seen # c <=> lock # c) /\ (Seen' # c <=> lock' # c)
        BY MigrationAssumption, ContentAssumption DEF Seen
    <2> QED BY <2>1 DEF Phase, Layer!Phase, CommitSteps, Layer!CommitSteps, CleanSteps,
            Layer!CleanSteps
<1>3. /\ o = {Layer!Recovered(i) : i \in survive} /\ o1 = {Layer!Recovered(i) : i \in survive}'
      /\ p = [c \in Conns |-> Layer!Phase(c)] /\ p1 = [c \in Conns |-> Layer!Phase(c)]'
      /\ w = [c \in Conns |-> IF Layer!Phase(c) \in {"open", "prepared"} THEN cache[c] ELSE 0]
      /\ w1 = [c \in Conns |-> IF Layer!Phase(c) \in {"open", "prepared"} THEN cache[c] ELSE 0]'
    BY <1>1, <1>2 DEF Recovered, Layer!Recovered
<1>4. CASE UNCHANGED Layer!Store!avars
    BY <1>1, <1>3, <1>4 DEF Store!avars, Layer!Store!avars
<1>5. CASE Layer!Store!Settle \/ Layer!Store!PowerLoss
    BY <1>1, <1>3, <1>5
       DEF Store!ANext, Store!Settle, Layer!Store!Settle, Store!PowerLoss, Layer!Store!PowerLoss
<1>6. ASSUME NEW c \in Conns, NEW r
      PROVE  Layer!Store!End(c, r) => Store!End(c, r)
    BY <1>1, <1>3 DEF Store!End, Layer!Store!End
<1>7. ASSUME NEW c \in Conns,
             \/ Layer!Store!Begin(c) \/ Layer!Store!Write(c) \/ Layer!Store!GiveUp(c)
             \/ Layer!Store!Prepare(c) \/ Layer!Store!Refuse(c)
      PROVE  Store!ANext
    <2>1. Layer!Store!Begin(c) => Store!Begin(c)
        BY <1>1, <1>3 DEF Store!Begin, Layer!Store!Begin
    <2>2. Layer!Store!Write(c) => Store!Write(c)
        BY <1>1, <1>3 DEF Store!Write, Layer!Store!Write
    <2>3. Layer!Store!GiveUp(c) => Store!GiveUp(c)
        BY <1>1, <1>3 DEF Store!GiveUp, Layer!Store!GiveUp
    <2>4. Layer!Store!Prepare(c) => Store!Prepare(c)
        BY <1>1, <1>3 DEF Store!Prepare, Layer!Store!Prepare
    <2>5. Layer!Store!Refuse(c) => Store!Refuse(c)
        BY <1>1, <1>3 DEF Store!Refuse, Layer!Store!Refuse
    <2> QED BY <1>7, <2>1, <2>2, <2>3, <2>4, <2>5 DEF Store!ANext
<1>8. ASSUME NEW c \in Conns,
             \/ Layer!Store!Abort(c) \/ Layer!Store!Commit(c)
             \/ Layer!Store!Doubt(c) \/ Layer!Store!Crash(c)
      PROVE  Store!ANext
    <2>1. Layer!Store!Abort(c) => Store!Abort(c)
        BY <1>1, <1>3, <1>6 DEF Store!Abort, Layer!Store!Abort
    <2>2. Layer!Store!Commit(c) => Store!Commit(c)
        BY <1>1, <1>3, <1>6 DEF Store!Commit, Layer!Store!Commit
    <2>3. Layer!Store!Doubt(c) => Store!Doubt(c)
        BY <1>1, <1>3, <1>6 DEF Store!Doubt, Layer!Store!Doubt
    <2>4. Layer!Store!Crash(c) => Store!Crash(c)
        BY <1>1, <1>3, <1>6 DEF Store!Crash, Layer!Store!Crash
    <2> QED BY <1>8, <2>1, <2>2, <2>3, <2>4 DEF Store!ANext
<1> QED BY <1>4, <1>5, <1>7, <1>8 DEF Layer!AbstractStep, Layer!Store!ANext

\* The connections of a directory that began as V1 implement AtomicStore, with
\* migrations taking the lock, syncing, replacing the file and failing in between:
\* in particular no replacement makes a half-written file the database.
THEOREM MigratedAtomicity ==
    OrderedMetadata /\ InitialDb \in {Empty, 0} /\ origin = 1 /\ MSpec => AtomicSerial
<1> SUFFICES ASSUME OrderedMetadata, InitialDb \in {Empty, 0}
             PROVE  origin = 1 /\ MSpec => AtomicSerial
    OBVIOUS
<1>1. origin = 1 /\ MInit => Store!AInit
    <2> SUFFICES ASSUME origin = 1, MInit PROVE Store!AInit
        OBVIOUS
    <2>1. InitWith(0, 0)
        BY DEF MInit
    <2>2. Recovered([db |-> 0, journal |-> NoJournal]) = 0
          /\ Recovered([db |-> InitialDb, journal |-> NoJournal]) = 0
        BY ContentAssumption DEF Recovered
    <2>3. \A c \in Conns : Phase(c) = "idle"
        BY <2>1, ContentAssumption DEF InitWith, Phase
    <2> QED BY <2>1, <2>2, <2>3 DEF InitWith, Store!AInit
<1>2. (origin = 1 => MigrationInv) /\ origin = 1 /\ [MNext]_mvars => [Store!ANext]_(Store!avars)
    BY MigrationStep, SameStore
<1>3. origin = 1 /\ [MNext]_mvars => (origin = 1)'
    BY OriginStays
<1>4. MSpec => [](origin = 1 => MigrationInv)
    BY MigrationAlways
<1> QED BY <1>1, <1>2, <1>3, <1>4, PTL DEF MSpec, AtomicSerial, Store!ASpec
=============================================================================
