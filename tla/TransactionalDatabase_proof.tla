--------------------- MODULE TransactionalDatabase_proof ---------------------
(***************************************************************************)
(* Theorems about TransactionalDatabase, for every number of connections,  *)
(* values, faults, crashes and power losses.                                *)
(***************************************************************************)
EXTENDS TransactionalDatabase, TLAPS

\* Steps at which a journal is published and holds no whole commit marker.
Guarded == {"truncate", "rewrite", "syncdb", "publish", "txn", "mark"} \cup CommitSteps

\* The control facts behind LockHeld: the journal is there for every step that
\* reads it or relies on it.
JournalThere ==
    \A c \in Conns :
        /\ pc[c] \in Guarded \cup {"markrest"} => journal # NoJournal
        /\ pc[c] \in LoadSteps /\ task[c] # "rollback" => journal # NoJournal

ControlInv == TypeOK /\ LockHeld /\ JournalThere

\* A step of c that ends its call, or raises, leaves the control facts true:
\* nobody else was past the lock.
LEMMA FinishControl ==
    ASSUME ControlInv, NEW c \in Conns, lock = c,
           NEW r \in Results, NEW b \in BOOLEAN, NEW k \in Value, Finish(c, r, b, k),
           db' \in Content, journal' \in Journal \cup {NoJournal}, survive' \in SUBSET Image,
           faults' \in 0..MaxFaults, crashes' \in 0..MaxCrashes,
           losses' \in 0..MaxPowerLosses
    PROVE  ControlInv'
<1> USE BoundsAssumption, ContentAssumption
       DEF ControlInv, TypeOK, LockHeld, JournalThere, Guarded, Steps, Resting,
           RecoverSteps, BeginSteps, LoadSteps, CommitSteps,
            MarkSteps, CleanSteps,
            Kinds, Tasks, Results, Value, Content, Journal, Image, Current, disk, budget, Goto
<1>1. /\ \A d \in Conns \ {c} : pc'[d] = pc[d] /\ pc[d] \in Resting \cup {"acquire"}
      /\ pc'[c] \in Resting
    BY ZenonT(30) DEF Finish
<1>2. LockHeld' /\ JournalThere'
    BY <1>1
<1>3. TypeOK'
    <2>1. pc' \in [Conns -> Steps]
        BY DEF Finish
    <2>2. kind' \in [Conns -> Kinds] /\ task' \in [Conns -> Tasks]
        BY DEF Finish
    <2>3. failed' \in [Conns -> BOOLEAN] /\ broken' \in [Conns -> BOOLEAN]
        BY DEF Finish
    <2>4. cache' \in [Conns -> Value] /\ result' \in [Conns -> Results]
        BY DEF Finish
    <2>5. lock' = Nobody
        BY DEF Finish
    <2> QED BY <2>1, <2>2, <2>3, <2>4, <2>5
<1> QED BY <1>2, <1>3

LEMMA RaiseControl ==
    ASSUME ControlInv, NEW c \in Conns, lock = c, Raise(c),
           faults' \in 0..MaxFaults, crashes' \in 0..MaxCrashes,
           losses' \in 0..MaxPowerLosses
    PROVE  ControlInv'
<1> USE BoundsAssumption, ContentAssumption
       DEF ControlInv, TypeOK, LockHeld, JournalThere, Guarded, Steps, Resting,
           RecoverSteps, BeginSteps, LoadSteps, CommitSteps,
            MarkSteps, CleanSteps,
            Kinds, Tasks, Results, Value, Content, Journal, Image, Current, disk, budget, Goto
<1>1. CASE task[c] = "start"
    BY <1>1 DEF Raise
<1>2. CASE task[c] # "start"
    <2>1. Finish(c, "error", TRUE, cache[c])
        BY <1>2 DEF Raise
    <2>2. cache[c] \in Value /\ "error" \in Results /\ UNCHANGED disk
        BY <1>2 DEF Raise
    <2> HIDE DEF ControlInv
    <2> QED BY ZenonT(30), <2>1, <2>2, FinishControl, ControlInv DEF ControlInv
<1> QED BY <1>1, <1>2

\* The disk stays typed whatever a step writes or syncs.
LEMMA DiskTyped ==
    ASSUME TypeOK,
           \/ \E x \in Content : WriteDb(x) /\ journal' = journal
           \/ \E j \in Journal \cup {NoJournal} : WriteJournal(j) /\ db' = db
           \/ (SyncJournal \/ SyncAll) /\ UNCHANGED <<db, journal>>
           \/ UNCHANGED disk
    PROVE  db' \in Content /\ journal' \in Journal \cup {NoJournal} /\ survive' \in SUBSET Image
BY
   DEF TypeOK, Content, Image, Current, WriteDb, WriteJournal, SyncJournal, SyncAll,
       disk

LEMMA ControlStep == ControlInv /\ [Next]_vars => ControlInv'
<1> SUFFICES ASSUME ControlInv, [Next]_vars PROVE ControlInv'
    OBVIOUS
<1> USE BoundsAssumption, ContentAssumption
       DEF ControlInv, TypeOK, LockHeld, JournalThere, Guarded, Steps, Resting,
           RecoverSteps, BeginSteps, LoadSteps, CommitSteps,
            MarkSteps, CleanSteps,
            Kinds, Tasks, Results, Value, Content, Journal, Image, Current, disk, budget, Goto,
            Continue, ToRollback, IOError
<1>1. ASSUME NEW c \in Conns, NEW k \in Kinds, StartCall(c, k) PROVE ControlInv'
    BY <1>1 DEF StartCall
<1>2. ASSUME NEW c \in Conns, CloseIdle(c) PROVE ControlInv'
    BY <1>2 DEF CloseIdle
<1>3. ASSUME NEW c \in Conns, Acquire(c) PROVE ControlInv'
    BY <1>3 DEF Acquire
<1>4. ASSUME NEW c \in Conns, Busy(c) PROVE ControlInv'
    BY <1>4 DEF Busy
<1>5. ASSUME NEW c \in Conns, Recover(c) PROVE ControlInv'
    <2>1. lock = c /\ UNCHANGED disk /\ UNCHANGED budget
        BY <1>5 DEF Recover
    <2>2. ASSUME Finish(c, "error", TRUE, cache[c]) PROVE ControlInv'
        <3>1. faults' \in 0..MaxFaults /\ UNCHANGED <<crashes, losses>>
            BY <2>1
        <3>2. db' \in Content /\ journal' \in Journal \cup {NoJournal} /\ survive' \in SUBSET Image
            BY <2>1, DiskTyped
        <3> QED BY ZenonT(30), <2>1, <2>2, <3>1, <3>2, FinishControl
    <2>3. CASE journal = NoJournal
        <3>1. CASE task[c] = "start"
            BY <2>3, <3>1, <1>5 DEF Recover
        <3>2. CASE task[c] # "start"
            BY <2>2, <2>3, <3>2, <1>5 DEF Recover
        <3> QED BY <3>1, <3>2
    <2>4. CASE journal # NoJournal /\ journal.mark # "full"
        BY <2>2, <2>4, <1>5 DEF Recover
    <2>5. CASE journal # NoJournal /\ journal.mark = "full"
        <3>1. CASE task[c] # "rollback"
            BY <2>5, <3>1, <1>5 DEF Recover
        <3>2. CASE task[c] = "rollback"
            BY <2>2, <2>5, <3>2, <1>5 DEF Recover
        <3> QED BY <3>1, <3>2
    <2> QED BY <2>3, <2>4, <2>5
<1>6. ASSUME NEW c \in Conns, Truncate(c) PROVE ControlInv'
    BY <1>6 DEF Truncate, WriteDb
<1>7. ASSUME NEW c \in Conns, Rewrite(c) PROVE ControlInv'
    BY <1>7 DEF Rewrite, WriteDb
<1>8. ASSUME NEW c \in Conns, SyncRestored(c) PROVE ControlInv'
    BY <1>8 DEF SyncRestored, SyncAll
<1>9. ASSUME NEW c \in Conns, Unlink(c) PROVE ControlInv'
    BY <1>9 DEF Unlink, WriteJournal
<1>10. ASSUME NEW c \in Conns, SyncUnlink(c) PROVE ControlInv'
    <2>1. CASE task[c] = "start"
        BY <2>1, <1>10 DEF SyncUnlink, SyncJournal
    <2>2. CASE task[c] = "undo"
        <3>1. lock = c /\ UNCHANGED budget /\ Finish(c, "error", TRUE, cache[c])
            BY <2>2, <1>10 DEF SyncUnlink
        <3>2. db' \in Content /\ journal' \in Journal \cup {NoJournal} /\ survive' \in SUBSET Image
            BY <1>10, DiskTyped DEF SyncUnlink
        <3> QED BY <3>1, <3>2, FinishControl
    <2>3. CASE task[c] = "rollback"
        BY <2>3, <1>10 DEF SyncUnlink, SyncJournal
    <2> QED BY <2>1, <2>2, <2>3
<1>11. ASSUME NEW c \in Conns, PublishJournal(c) PROVE ControlInv'
    BY <1>11 DEF PublishJournal, WriteJournal
<1>12. ASSUME NEW c \in Conns, SyncPublished(c) PROVE ControlInv'
    BY <1>12 DEF SyncPublished, SyncJournal
<1>13. ASSUME NEW c \in Conns, Load(c) PROVE ControlInv'
    <2>1. CASE db = Torn
        BY <2>1, <1>13, RaiseControl DEF Load
    <2>2. CASE db # Torn /\ task[c] = "rollback"
        BY <2>2, <1>13, FinishControl DEF Load
    <2>3. CASE db # Torn /\ task[c] # "rollback"
        BY <2>3, <1>13 DEF Load
    <2> QED BY <2>1, <2>2, <2>3
<1>14. ASSUME NEW c \in Conns, LoadEmpty(c) PROVE ControlInv'
    BY <1>14 DEF LoadEmpty
<1>15. ASSUME NEW c \in Conns, BootstrapPages(c) PROVE ControlInv'
    BY <1>15 DEF BootstrapPages, WriteDb
<1>16. ASSUME NEW c \in Conns, BootstrapCatalog(c) PROVE ControlInv'
    BY <1>16 DEF BootstrapCatalog, WriteDb
<1>17. ASSUME NEW c \in Conns, NEW w \in 0..1, Execute(c, w) PROVE ControlInv'
    BY <1>17 DEF Execute
<1>18. ASSUME NEW c \in Conns, NEW w \in 0..1, StatementFails(c, w) PROVE ControlInv'
    <2>1. CASE kind[c] = "explicit"
        <3>1. failed' \in [Conns -> BOOLEAN]
            BY <2>1, <1>18 DEF StatementFails
        <3> QED BY <2>1, <3>1, <1>18 DEF StatementFails
    <2>2. CASE kind[c] = "auto"
        BY <2>2, <1>18 DEF StatementFails
    <2> QED BY <2>1, <2>2, <1>18 DEF StatementFails
<1>19. ASSUME NEW c \in Conns, WriteBack(c) PROVE ControlInv'
    BY <1>19 DEF WriteBack, WriteDb
<1>20. ASSUME NEW c \in Conns, CommitCall(c) PROVE ControlInv'
    BY <1>20 DEF CommitCall
<1>21. ASSUME NEW c \in Conns, NEW k \in Kinds, RollbackCall(c, k) PROVE ControlInv'
    BY <1>21 DEF RollbackCall
<1>22. ASSUME NEW c \in Conns, Flush(c) PROVE ControlInv'
    BY <1>22 DEF Flush, WriteDb
<1>23. ASSUME NEW c \in Conns, SyncData(c) PROVE ControlInv'
    BY <1>23 DEF SyncData, SyncAll
<1>24. ASSUME NEW c \in Conns, MarkPrefix(c) PROVE ControlInv'
    BY <1>24 DEF MarkPrefix, WriteJournal
<1>25. ASSUME NEW c \in Conns, MarkCommitted(c) PROVE ControlInv'
    BY <1>25 DEF MarkCommitted, WriteJournal
<1>26. ASSUME NEW c \in Conns, SyncMark(c) PROVE ControlInv'
    BY <1>26 DEF SyncMark, SyncJournal
<1>27. ASSUME NEW c \in Conns, CommitUnlink(c) PROVE ControlInv'
    BY <1>27 DEF CommitUnlink, WriteJournal
<1>28. ASSUME NEW c \in Conns, CommitSyncUnlink(c) PROVE ControlInv'
    <2>1. lock = c /\ Finish(c, "committed", FALSE, cache[c])
        BY <1>28 DEF CommitSyncUnlink
    <2>2. faults' \in 0..MaxFaults /\ UNCHANGED <<crashes, losses>>
        BY <1>28 DEF CommitSyncUnlink
    <2>3. db' \in Content /\ journal' \in Journal \cup {NoJournal} /\ survive' \in SUBSET Image
        BY <1>28, DiskTyped DEF CommitSyncUnlink
    <2> QED BY <2>1, <2>2, <2>3, FinishControl
<1>29. ASSUME NEW c \in Conns, StartFault(c) PROVE ControlInv'
    BY <1>29, RaiseControl DEF StartFault
<1>30. ASSUME NEW c \in Conns, FlushFault(c) PROVE ControlInv'
    <2>1. CASE kind[c] = "explicit"
        <3>1. failed' \in [Conns -> BOOLEAN]
            BY <2>1, <1>30 DEF FlushFault
        <3> QED BY <2>1, <3>1, <1>30 DEF FlushFault
    <2>2. CASE kind[c] # "explicit"
        BY <2>2, <1>30 DEF FlushFault
    <2> QED BY <2>1, <2>2
<1>31. ASSUME NEW c \in Conns, MarkFault(c) PROVE ControlInv'
    <2>1. lock = c /\ Finish(c, "uncertain", TRUE, cache[c])
        BY <1>31 DEF MarkFault
    <2>2. faults' \in 0..MaxFaults /\ UNCHANGED <<crashes, losses>>
        BY <1>31 DEF MarkFault
    <2>3. db' \in Content /\ journal' \in Journal \cup {NoJournal} /\ survive' \in SUBSET Image
        BY <1>31, DiskTyped DEF MarkFault
    <2> QED BY <2>1, <2>2, <2>3, FinishControl
<1>32. ASSUME NEW c \in Conns, CleanFault(c) PROVE ControlInv'
    <2>1. lock = c /\ Finish(c, "committed", FALSE, cache[c])
        BY <1>32 DEF CleanFault
    <2>2. faults' \in 0..MaxFaults /\ UNCHANGED <<crashes, losses>>
        BY <1>32 DEF CleanFault
    <2>3. db' \in Content /\ journal' \in Journal \cup {NoJournal} /\ survive' \in SUBSET Image
        BY <1>32, DiskTyped DEF CleanFault
    <2> QED BY <2>1, <2>2, <2>3, FinishControl
<1>33. ASSUME NEW c \in Conns, Crash(c) PROVE ControlInv'
    BY <1>33 DEF Crash
<1>34. CASE PowerLoss
    BY <1>34 DEF PowerLoss
<1>35. CASE UNCHANGED vars
    BY <1>35 DEF vars
<1> QED
    <2> HIDE DEF ControlInv, TypeOK, LockHeld, JournalThere, Guarded, Steps, Resting,
       RecoverSteps, BeginSteps, LoadSteps, CommitSteps, MarkSteps, CleanSteps, Kinds,
       Tasks, Results, Value, Content, Journal, Image, Current, disk, budget, Goto
    <2> QED BY <1>1, <1>2, <1>3, <1>4, <1>5, <1>6, <1>7, <1>8, <1>9, <1>10, <1>11,
               <1>12, <1>13, <1>14, <1>15, <1>16, <1>17, <1>18, <1>19, <1>20, <1>21,
               <1>22, <1>23, <1>24, <1>25, <1>26, <1>27, <1>28, <1>29, <1>30, <1>31,
               <1>32, <1>33, <1>34, <1>35
               DEF Next, Progress, Request, Environment

-----------------------------------------------------------------------------
\* The theorems below are about a file system that keeps the order of changes to
\* a directory, and about a database file that already holds a value.
OrderedExisting == OrderedMetadata /\ InitialDb \in Value

\* The journal, if any, holds no whole commit marker: its before-image counts.
Undecided == journal # NoJournal /\ journal.mark # "full"
\* Every power loss leaves the same whole database file.
SettledDb == db \in Value /\ \A i \in survive : i.db = db

\* What the disk looks like between any two steps.
DiskShape ==
    /\ Current \in survive
    /\ \A i \in survive :
          /\ i.db # Empty
          /\ i.journal # NoJournal => i.journal.before \in Value
          /\ i.journal = NoJournal \/ i.journal.mark = "full" => i.db \in Value
    /\ ~Undecided => SettledDb

\* What each step relies on.
StepKnows(c) ==
    /\ pc[c] \notin {"bootstrap", "register"}
    /\ pc[c] \in Guarded \cup {"markrest"} => Undecided
    /\ pc[c] = "load" /\ task[c] # "rollback" => Undecided
    /\ pc[c] = "syncdb" => db = journal.before
    /\ pc[c] = "syncdata" => db \in Value
    /\ pc[c] \in {"unlink", "cunlink"} \cup MarkSteps => SettledDb

DiskInv == DiskShape /\ \A c \in Conns : StepKnows(c)

LEMMA ShapeRecovers == TypeOK /\ DiskShape => ImagesRecover
BY ContentAssumption
   DEF TypeOK, DiskShape, ImagesRecover, Recovered, Image, Journal, Value, Content

\* The effects on the disk, one lemma each.
LEMMA WriteDbShape ==
    ASSUME OrderedExisting, TypeOK, DiskShape, Undecided,
           NEW x \in Value \cup {Torn}, WriteDb(x), journal' = journal
    PROVE  DiskShape' /\ Undecided'
<1>1. x # Empty /\ Torn # Empty
    BY ContentAssumption DEF Value
<1>2. survive' = survive \cup [db : {x, Torn}, journal : {journal}] /\ db' = x
    BY DEF WriteDb, OrderedExisting
<1>3. journal.before \in Value
    BY DEF DiskShape, Undecided, Current
<1>4. Undecided'
    BY DEF Undecided
<1>5. Current' \in survive'
    BY <1>2 DEF Current
<1>6. ASSUME NEW i \in survive'
      PROVE  /\ i.db # Empty
             /\ i.journal # NoJournal => i.journal.before \in Value
             /\ i.journal = NoJournal \/ i.journal.mark = "full" => i.db \in Value
    BY <1>1, <1>2, <1>3, <1>6 DEF DiskShape, Undecided
<1> QED BY <1>4, <1>5, <1>6 DEF DiskShape

LEMMA WriteJournalShape ==
    ASSUME TypeOK, DiskShape, NEW j \in Journal \cup {NoJournal},
           j # NoJournal => j.before \in Value,
           j = NoJournal \/ j.mark = "full" => SettledDb,
           WriteJournal(j), db' = db
    PROVE  DiskShape' /\ (SettledDb => SettledDb')
<1>1. /\ journal' = j
      /\ survive' = survive \cup {[db |-> i.db, journal |-> j] : i \in survive}
    BY DEF WriteJournal
<1>2. ASSUME NEW i \in survive' PROVE \E k \in survive : i.db = k.db
    BY <1>1
<1>3. SettledDb => SettledDb'
    BY <1>2 DEF SettledDb
<1>4. Current' \in survive'
    BY <1>1 DEF Current, DiskShape
<1>5. ASSUME NEW i \in survive'
      PROVE  /\ i.db # Empty
             /\ i.journal # NoJournal => i.journal.before \in Value
             /\ i.journal = NoJournal \/ i.journal.mark = "full" => i.db \in Value
    <2>1. CASE i \in survive
        BY <2>1 DEF DiskShape
    <2>2. CASE i \notin survive
        <3>1. i.journal = j /\ i.db # Empty
            BY <2>2, <1>1 DEF DiskShape
        <3>2. j = NoJournal \/ j.mark = "full" => i.db \in Value
            BY <1>2 DEF SettledDb
        <3> QED BY <3>1, <3>2
    <2> QED BY <2>1, <2>2
<1>6. ~Undecided' => SettledDb'
    BY <1>1, <1>3 DEF Undecided
<1> QED BY <1>3, <1>4, <1>5, <1>6 DEF DiskShape

LEMMA SyncJournalShape ==
    ASSUME TypeOK, DiskShape, SyncJournal, UNCHANGED <<db, journal>>
    PROVE  DiskShape' /\ (SettledDb => SettledDb')
<1>1. survive' = {[db |-> i.db, journal |-> journal] : i \in survive}
    BY DEF SyncJournal
<1>2. SettledDb => SettledDb'
    BY <1>1 DEF SettledDb
<1>3. Current' \in survive'
    BY <1>1 DEF Current, DiskShape
<1>4. ASSUME NEW i \in survive'
      PROVE  /\ i.db # Empty
             /\ i.journal # NoJournal => i.journal.before \in Value
             /\ i.journal = NoJournal \/ i.journal.mark = "full" => i.db \in Value
    <2>1. i.journal = journal /\ \E k \in survive : i.db = k.db
        BY <1>1
    <2>2. i.db # Empty
        BY <2>1 DEF DiskShape
    <2>3. journal # NoJournal => journal.before \in Value
        BY DEF DiskShape, Current
    <2>4. journal = NoJournal \/ journal.mark = "full" => i.db \in Value
        BY <2>1 DEF DiskShape, Undecided, SettledDb
    <2> QED BY <2>1, <2>2, <2>3, <2>4
<1>5. ~Undecided' => SettledDb'
    BY <1>2 DEF DiskShape, Undecided
<1> QED BY <1>2, <1>3, <1>4, <1>5 DEF DiskShape

LEMMA SyncAllShape ==
    ASSUME DiskShape, SyncAll, UNCHANGED <<db, journal>>
    PROVE  DiskShape' /\ (db \in Value => SettledDb')
<1>1. survive' = {Current} /\ Current' = Current
    BY DEF SyncAll, Current
<1>2. Current.db = db /\ Current.journal = journal
    BY DEF Current
<1> QED BY <1>1, <1>2 DEF DiskShape, Undecided, SettledDb

LEMMA PowerLossShape ==
    ASSUME TypeOK, DiskShape, PowerLoss
    PROVE  DiskShape'
<1>1. PICK i \in survive : db' = i.db /\ journal' = i.journal /\ survive' = {i}
    BY DEF PowerLoss
<1>2. i = Current'
    BY <1>1 DEF TypeOK, Image, Current
<1>3. ~Undecided' => i.db \in Value
    BY <1>1 DEF DiskShape, Undecided
<1> QED BY <1>1, <1>2, <1>3 DEF DiskShape, SettledDb, Undecided

\* Only the connection past the lock relies on the disk.
LEMMA OthersKnow ==
    ASSUME ControlInv, NEW c \in Conns,
           \A d \in Conns \ {c} : pc'[d] = pc[d] /\ task'[d] = task[d],
           lock # c => UNCHANGED disk,
           DiskInv,
           DiskShape', StepKnows(c)'
    PROVE  DiskInv'
<1>1. ASSUME NEW d \in Conns \ {c} PROVE StepKnows(d)'
    <2>1. CASE lock = c
        <3>1. pc'[d] \in Resting \cup {"acquire"}
            BY <2>1 DEF ControlInv, LockHeld
        <3> QED BY <3>1 DEF StepKnows, Guarded, Resting, CommitSteps, MarkSteps
    <2>2. CASE lock # c
        BY <2>2 DEF DiskInv, StepKnows, disk, Undecided, SettledDb
    <2> QED BY <2>1, <2>2
<1> QED BY <1>1 DEF DiskInv


\* Steps that leave the disk alone.
LEMMA QuietShape == DiskShape /\ UNCHANGED disk => DiskShape'
BY DEF DiskShape, disk, Current, Undecided, SettledDb

\* A call that ends knows nothing of the disk.
LEMMA EndKnows ==
    ASSUME ControlInv, DiskInv, NEW c \in Conns, lock = c,
           NEW r, NEW b, NEW k, Finish(c, r, b, k), DiskShape'
    PROVE  DiskInv'
<1>1. /\ pc'[c] \in Resting
      /\ \A d \in Conns \ {c} : pc'[d] = pc[d] /\ task'[d] = task[d]
    BY DEF Finish, Goto, ControlInv, TypeOK, Resting
<1>2. StepKnows(c)'
    BY <1>1 DEF StepKnows, Resting, Guarded, CommitSteps, MarkSteps
<1> QED BY <1>1, <1>2, OthersKnow

LEMMA DiskStep ==
    ASSUME OrderedExisting, ControlInv, DiskInv, [Next]_vars
    PROVE  DiskInv'
<1> USE
       DEF Steps, Resting, RecoverSteps, BeginSteps, LoadSteps, CommitSteps, MarkSteps,
            CleanSteps, Guarded, Goto, Continue, ToRollback
<1>a. TypeOK /\ LockHeld /\ JournalThere /\ DiskShape /\ \A c \in Conns : StepKnows(c)
    BY DEF ControlInv, DiskInv
<1>1. ASSUME NEW c \in Conns, NEW k \in Kinds, StartCall(c, k) PROVE DiskInv'
    <2>1. UNCHANGED disk /\ \A d \in Conns \ {c} : pc'[d] = pc[d] /\ task'[d] = task[d]
        BY <1>a, <1>1 DEF StartCall, TypeOK
    <2>2. DiskShape'
        BY <1>a, <2>1, QuietShape
    <2>3. StepKnows(c)'
        BY <1>a, <1>1 DEF StartCall, StepKnows, TypeOK, disk, Undecided, SettledDb
    <2> QED BY <2>1, <2>2, <2>3, OthersKnow
<1>2. ASSUME NEW c \in Conns, CloseIdle(c) PROVE DiskInv'
    <2>1. UNCHANGED disk /\ \A d \in Conns \ {c} : pc'[d] = pc[d] /\ task'[d] = task[d]
        BY <1>a, <1>2 DEF CloseIdle, TypeOK
    <2>2. DiskShape'
        BY <1>a, <2>1, QuietShape
    <2>3. StepKnows(c)'
        BY <1>a, <1>2 DEF CloseIdle, StepKnows, TypeOK, disk, Undecided, SettledDb
    <2> QED BY <2>1, <2>2, <2>3, OthersKnow
<1>3. ASSUME NEW c \in Conns, Acquire(c) PROVE DiskInv'
    <2>1. UNCHANGED disk /\ \A d \in Conns \ {c} : pc'[d] = pc[d] /\ task'[d] = task[d]
        BY <1>a, <1>3 DEF Acquire, TypeOK
    <2>2. DiskShape'
        BY <1>a, <2>1, QuietShape
    <2>3. StepKnows(c)'
        BY <1>a, <1>3 DEF Acquire, StepKnows, TypeOK, disk, Undecided, SettledDb
    <2> QED BY <2>1, <2>2, <2>3, OthersKnow
<1>4. ASSUME NEW c \in Conns, Busy(c) PROVE DiskInv'
    <2>1. UNCHANGED disk /\ \A d \in Conns \ {c} : pc'[d] = pc[d] /\ task'[d] = task[d]
        BY <1>a, <1>4 DEF Busy, TypeOK
    <2>2. DiskShape'
        BY <1>a, <2>1, QuietShape
    <2>3. StepKnows(c)'
        BY <1>a, <1>4 DEF Busy, StepKnows, TypeOK, disk, Undecided, SettledDb
    <2> QED BY <2>1, <2>2, <2>3, OthersKnow
<1>5. ASSUME NEW c \in Conns, Recover(c) PROVE DiskInv'
    <2>1. lock = c /\ UNCHANGED disk
        BY <1>a, <1>5 DEF Recover, LockHeld
    <2>2. DiskShape'
        BY <1>a, <2>1, QuietShape
    <2>3. CASE Finish(c, "error", TRUE, cache[c])
        BY <2>1, <2>2, <2>3, EndKnows
    <2>4. CASE \E step \in {"journal", "truncate", "unlink"} :
                   Continue(c, step) /\ (step = "truncate" => Undecided)
                                     /\ (step = "unlink" => ~Undecided)
        <3>1. StepKnows(c)'
            BY <1>a, <2>1, <2>2, <2>4
               DEF StepKnows, TypeOK, DiskShape, disk, Undecided, SettledDb
        <3>2. \A d \in Conns \ {c} : pc'[d] = pc[d] /\ task'[d] = task[d]
            BY <1>a, <2>4 DEF TypeOK
        <3> QED BY <2>1, <2>2, <3>1, <3>2, OthersKnow
    <2> QED BY <2>3, <2>4, <1>5 DEF Recover, Undecided
<1>6. ASSUME NEW c \in Conns, Truncate(c) PROVE DiskInv'
    <2>1. lock = c /\ \A d \in Conns \ {c} : pc'[d] = pc[d] /\ task'[d] = task[d]
        BY <1>a, <1>6 DEF Truncate, LockHeld, TypeOK
    <2>2. DiskShape' /\ Undecided /\ Undecided'
        BY <1>a, <1>6, WriteDbShape, BoundsAssumption, ContentAssumption
           DEF Truncate, StepKnows, TypeOK, DiskShape, Current, Undecided, Value
    <2>3. StepKnows(c)'
        BY <1>a, <2>2, <1>6
           DEF Truncate, StepKnows, TypeOK, WriteDb, Undecided, DiskShape, Current
    <2> QED BY <2>1, <2>2, <2>3, OthersKnow
<1>7. ASSUME NEW c \in Conns, Rewrite(c) PROVE DiskInv'
    <2>1. lock = c /\ \A d \in Conns \ {c} : pc'[d] = pc[d] /\ task'[d] = task[d]
        BY <1>a, <1>7 DEF Rewrite, LockHeld, TypeOK
    <2>2. DiskShape' /\ Undecided /\ Undecided'
        BY <1>a, <1>7, WriteDbShape, BoundsAssumption, ContentAssumption
           DEF Rewrite, StepKnows, TypeOK, DiskShape, Current, Undecided, Value
    <2>3. StepKnows(c)'
        BY <1>a, <2>2, <1>7
           DEF Rewrite, StepKnows, TypeOK, WriteDb, Undecided, DiskShape, Current
    <2> QED BY <2>1, <2>2, <2>3, OthersKnow
<1>8. ASSUME NEW c \in Conns, SyncRestored(c) PROVE DiskInv'
    <2>1. lock = c /\ \A d \in Conns \ {c} : pc'[d] = pc[d] /\ task'[d] = task[d]
        BY <1>a, <1>8 DEF SyncRestored, LockHeld, TypeOK
    <2>2. DiskShape' /\ (db \in Value => SettledDb')
        BY <1>a, <1>8, SyncAllShape DEF SyncRestored
    <2>3. StepKnows(c)'
        BY <1>a, <2>2, <1>8
           DEF SyncRestored, StepKnows, TypeOK, SyncAll, Undecided, DiskShape, Current
    <2> QED BY <2>1, <2>2, <2>3, OthersKnow
<1>9. ASSUME NEW c \in Conns, Unlink(c) PROVE DiskInv'
    <2>1. lock = c /\ \A d \in Conns \ {c} : pc'[d] = pc[d] /\ task'[d] = task[d]
        BY <1>a, <1>9 DEF Unlink, LockHeld, TypeOK
    <2>2. DiskShape' /\ (SettledDb => SettledDb')
        BY <1>a, <1>9, WriteJournalShape, BoundsAssumption, ContentAssumption
           DEF Unlink, StepKnows, TypeOK, Journal, Content, SettledDb, Undecided,
               DiskShape, Current
    <2>3. StepKnows(c)'
        BY <1>a, <2>2, <1>9
           DEF Unlink, StepKnows, TypeOK, WriteJournal, Undecided, DiskShape, Current
    <2> QED BY <2>1, <2>2, <2>3, OthersKnow
<1>10. ASSUME NEW c \in Conns, SyncUnlink(c) PROVE DiskInv'
    <2>1. lock = c
        BY <1>a, <1>10 DEF SyncUnlink, LockHeld
    <2>2. DiskShape'
        BY <1>a, <1>10, SyncJournalShape DEF SyncUnlink
    <2>3. CASE Finish(c, "error", TRUE, cache[c])
        BY <2>1, <2>2, <2>3, EndKnows
    <2>4. ASSUME NEW step \in {"journal", "load"}, Continue(c, step),
                 step = "load" => task[c] = "rollback"
          PROVE  DiskInv'
        <3>1. StepKnows(c)'
            BY <1>a, <2>4 DEF StepKnows, TypeOK
        <3>2. \A d \in Conns \ {c} : pc'[d] = pc[d] /\ task'[d] = task[d]
            BY <1>a, <2>4 DEF TypeOK
        <3> QED BY <2>1, <2>2, <3>1, <3>2, OthersKnow
    <2>5. CASE task[c] = "undo"
        BY <2>3, <2>5, <1>10 DEF SyncUnlink
    <2>6. CASE task[c] = "start"
        BY <2>4, <2>6, <1>10 DEF SyncUnlink
    <2>7. CASE task[c] = "rollback"
        BY <2>4, <2>7, <1>10 DEF SyncUnlink
    <2> QED BY <1>a, <2>5, <2>6, <2>7 DEF TypeOK, Tasks
<1>11. ASSUME NEW c \in Conns, PublishJournal(c) PROVE DiskInv'
    <2>1. lock = c /\ \A d \in Conns \ {c} : pc'[d] = pc[d] /\ task'[d] = task[d]
        BY <1>a, <1>11 DEF PublishJournal, LockHeld, TypeOK
    <2>2. DiskShape' /\ (SettledDb => SettledDb')
        BY <1>a, <1>11, WriteJournalShape, BoundsAssumption, ContentAssumption
           DEF PublishJournal, StepKnows, TypeOK, Journal, Content, SettledDb,
               Undecided, DiskShape, Current
    <2>4. Undecided' /\ (SettledDb => SettledDb')
        <3>1. journal' \in Journal /\ journal'.mark # "full"
            BY <1>a, <1>11, ContentAssumption
               DEF PublishJournal, WriteJournal, StepKnows, Undecided, TypeOK, Journal,
                   Content, Value
        <3> QED BY <2>2, <3>1, ContentAssumption DEF Undecided, Journal, Content
    <2>3. StepKnows(c)'
        BY <1>a, <2>4, <1>11 DEF PublishJournal, StepKnows, TypeOK
    <2> QED BY <2>1, <2>2, <2>3, OthersKnow
<1>12. ASSUME NEW c \in Conns, SyncPublished(c) PROVE DiskInv'
    <2>1. lock = c /\ \A d \in Conns \ {c} : pc'[d] = pc[d] /\ task'[d] = task[d]
        BY <1>a, <1>12 DEF SyncPublished, LockHeld, TypeOK
    <2>2. DiskShape' /\ (SettledDb => SettledDb')
        BY <1>a, <1>12, SyncJournalShape DEF SyncPublished
    <2>3. StepKnows(c)'
        BY <1>a, <2>2, <1>12
           DEF SyncPublished, StepKnows, TypeOK, SyncJournal, Undecided, DiskShape,
               Current
    <2> QED BY <2>1, <2>2, <2>3, OthersKnow
<1>13. ASSUME NEW c \in Conns, Load(c) PROVE DiskInv'
    <2>1. lock = c /\ UNCHANGED disk
        BY <1>a, <1>13 DEF Load, LockHeld
    <2>2. DiskShape'
        BY <1>a, <2>1, QuietShape
    <2>3. CASE \E b : Finish(c, "error", TRUE, b) \/ Finish(c, "aborted", FALSE, b)
        BY <2>1, <2>2, <2>3, EndKnows
    <2>4. CASE Goto(c, "recover") /\ task' = [task EXCEPT ![c] = "undo"]
        <3>1. StepKnows(c)'
            BY <1>a, <2>4 DEF StepKnows, TypeOK
        <3>2. \A d \in Conns \ {c} : pc'[d] = pc[d] /\ task'[d] = task[d]
            BY <1>a, <2>4 DEF TypeOK
        <3> QED BY <2>1, <2>2, <3>1, <3>2, OthersKnow
    <2>5. CASE task[c] # "rollback" /\ Goto(c, "txn") /\ task' = task
        <3>1. StepKnows(c)'
            BY <1>a, <2>1, <2>5, <1>13 DEF StepKnows, TypeOK, Load, disk, Undecided
        <3>2. \A d \in Conns \ {c} : pc'[d] = pc[d] /\ task'[d] = task[d]
            BY <1>a, <2>5 DEF TypeOK
        <3> QED BY <2>1, <2>2, <3>1, <3>2, OthersKnow
    <2> QED BY <2>3, <2>4, <2>5, <1>13 DEF Load, Raise
<1>14. ASSUME NEW c \in Conns, LoadEmpty(c) PROVE DiskInv'
    <2>1. UNCHANGED disk /\ \A d \in Conns \ {c} : pc'[d] = pc[d] /\ task'[d] = task[d]
        BY <1>a, <1>14 DEF LoadEmpty, TypeOK
    <2>2. DiskShape'
        BY <1>a, <2>1, QuietShape
    <2>3. StepKnows(c)'
        BY <1>a, <1>14
           DEF LoadEmpty, StepKnows, TypeOK, disk, Undecided, SettledDb, DiskShape,
               Current, Content
    <2> QED BY <2>1, <2>2, <2>3, OthersKnow
<1>15. ASSUME NEW c \in Conns, BootstrapPages(c) PROVE DiskInv'
    <2>1. lock = c /\ \A d \in Conns \ {c} : pc'[d] = pc[d] /\ task'[d] = task[d]
        BY <1>a, <1>15 DEF BootstrapPages, LockHeld, TypeOK
    <2>2. DiskShape' /\ Undecided /\ Undecided'
        BY <1>a, <1>15, WriteDbShape, BoundsAssumption, ContentAssumption
           DEF BootstrapPages, StepKnows, TypeOK, DiskShape, Current, Undecided, Value
    <2>3. StepKnows(c)'
        BY <1>a, <2>2, <1>15
           DEF BootstrapPages, StepKnows, TypeOK, WriteDb, Undecided, DiskShape, Current
    <2> QED BY <2>1, <2>2, <2>3, OthersKnow
<1>16. ASSUME NEW c \in Conns, BootstrapCatalog(c) PROVE DiskInv'
    <2>1. lock = c /\ \A d \in Conns \ {c} : pc'[d] = pc[d] /\ task'[d] = task[d]
        BY <1>a, <1>16 DEF BootstrapCatalog, LockHeld, TypeOK
    <2>2. DiskShape' /\ Undecided /\ Undecided'
        BY <1>a, <1>16, WriteDbShape, BoundsAssumption, ContentAssumption
           DEF BootstrapCatalog, StepKnows, TypeOK, DiskShape, Current, Undecided, Value
    <2>3. StepKnows(c)'
        BY <1>a, <2>2, <1>16
           DEF BootstrapCatalog, StepKnows, TypeOK, WriteDb, Undecided, DiskShape,
               Current
    <2> QED BY <2>1, <2>2, <2>3, OthersKnow
<1>17. ASSUME NEW c \in Conns, NEW w \in 0..1, Execute(c, w) PROVE DiskInv'
    <2>1. UNCHANGED disk /\ \A d \in Conns \ {c} : pc'[d] = pc[d] /\ task'[d] = task[d]
        BY <1>a, <1>17 DEF Execute, TypeOK
    <2>2. DiskShape'
        BY <1>a, <2>1, QuietShape
    <2>3. StepKnows(c)'
        BY <1>a, <1>17 DEF Execute, StepKnows, TypeOK, disk, Undecided, SettledDb
    <2> QED BY <2>1, <2>2, <2>3, OthersKnow
<1>18. ASSUME NEW c \in Conns, NEW w \in 0..1, StatementFails(c, w) PROVE DiskInv'
    <2>1. UNCHANGED disk /\ \A d \in Conns \ {c} : pc'[d] = pc[d] /\ task'[d] = task[d]
        BY <1>a, <1>18 DEF StatementFails, TypeOK
    <2>2. DiskShape'
        BY <1>a, <2>1, QuietShape
    <2>3. StepKnows(c)'
        BY <1>a, <1>18
           DEF StatementFails, StepKnows, TypeOK, disk, Undecided, SettledDb
    <2> QED BY <2>1, <2>2, <2>3, OthersKnow
<1>19. ASSUME NEW c \in Conns, WriteBack(c) PROVE DiskInv'
    <2>1. lock = c /\ \A d \in Conns \ {c} : pc'[d] = pc[d] /\ task'[d] = task[d]
        BY <1>a, <1>19 DEF WriteBack, LockHeld, TypeOK
    <2>2. DiskShape' /\ Undecided /\ Undecided'
        BY <1>a, <1>19, WriteDbShape, BoundsAssumption, ContentAssumption
           DEF WriteBack, StepKnows, TypeOK, DiskShape, Current, Undecided, Value
    <2>3. StepKnows(c)'
        BY <1>a, <2>2, <1>19
           DEF WriteBack, StepKnows, TypeOK, WriteDb, Undecided, DiskShape, Current
    <2> QED BY <2>1, <2>2, <2>3, OthersKnow
<1>20. ASSUME NEW c \in Conns, CommitCall(c) PROVE DiskInv'
    <2>1. UNCHANGED disk /\ \A d \in Conns \ {c} : pc'[d] = pc[d] /\ task'[d] = task[d]
        BY <1>a, <1>20 DEF CommitCall, TypeOK
    <2>2. DiskShape'
        BY <1>a, <2>1, QuietShape
    <2>3. StepKnows(c)'
        BY <1>a, <1>20 DEF CommitCall, StepKnows, TypeOK, disk, Undecided, SettledDb
    <2> QED BY <2>1, <2>2, <2>3, OthersKnow
<1>21. ASSUME NEW c \in Conns, NEW k \in Kinds, RollbackCall(c, k) PROVE DiskInv'
    <2>1. UNCHANGED disk /\ \A d \in Conns \ {c} : pc'[d] = pc[d] /\ task'[d] = task[d]
        BY <1>a, <1>21 DEF RollbackCall, TypeOK
    <2>2. DiskShape'
        BY <1>a, <2>1, QuietShape
    <2>3. StepKnows(c)'
        BY <1>a, <1>21
           DEF RollbackCall, StepKnows, TypeOK, disk, Undecided, SettledDb
    <2> QED BY <2>1, <2>2, <2>3, OthersKnow
<1>22. ASSUME NEW c \in Conns, Flush(c) PROVE DiskInv'
    <2>1. lock = c /\ \A d \in Conns \ {c} : pc'[d] = pc[d] /\ task'[d] = task[d]
        BY <1>a, <1>22 DEF Flush, LockHeld, TypeOK
    <2>2. DiskShape' /\ Undecided /\ Undecided'
        BY <1>a, <1>22, WriteDbShape, BoundsAssumption, ContentAssumption
           DEF Flush, StepKnows, TypeOK, DiskShape, Current, Undecided, Value
    <2>3. StepKnows(c)'
        BY <1>a, <2>2, <1>22
           DEF Flush, StepKnows, TypeOK, WriteDb, Undecided, DiskShape, Current
    <2> QED BY <2>1, <2>2, <2>3, OthersKnow
<1>23. ASSUME NEW c \in Conns, SyncData(c) PROVE DiskInv'
    <2>1. lock = c /\ \A d \in Conns \ {c} : pc'[d] = pc[d] /\ task'[d] = task[d]
        BY <1>a, <1>23 DEF SyncData, LockHeld, TypeOK
    <2>2. DiskShape' /\ (db \in Value => SettledDb')
        BY <1>a, <1>23, SyncAllShape DEF SyncData
    <2>3. StepKnows(c)'
        BY <1>a, <2>2, <1>23
           DEF SyncData, StepKnows, TypeOK, SyncAll, Undecided, DiskShape, Current
    <2> QED BY <2>1, <2>2, <2>3, OthersKnow
<1>24. ASSUME NEW c \in Conns, MarkPrefix(c) PROVE DiskInv'
    <2>1. lock = c /\ \A d \in Conns \ {c} : pc'[d] = pc[d] /\ task'[d] = task[d]
        BY <1>a, <1>24 DEF MarkPrefix, LockHeld, TypeOK
    <2>2. DiskShape' /\ (SettledDb => SettledDb')
        BY <1>a, <1>24, WriteJournalShape, BoundsAssumption, ContentAssumption
           DEF MarkPrefix, StepKnows, TypeOK, Journal, Content, SettledDb, Undecided,
               DiskShape, Current
    <2>4. Undecided' /\ (SettledDb => SettledDb')
        <3>1. journal' \in Journal /\ journal'.mark # "full"
            BY <1>a, <1>24, ContentAssumption
               DEF MarkPrefix, WriteJournal, StepKnows, Undecided, TypeOK, Journal,
                   Content, Value
        <3> QED BY <2>2, <3>1, ContentAssumption DEF Undecided, Journal, Content
    <2>3. StepKnows(c)'
        BY <1>a, <2>4, <1>24 DEF MarkPrefix, StepKnows, TypeOK
    <2> QED BY <2>1, <2>2, <2>3, OthersKnow
<1>25. ASSUME NEW c \in Conns, MarkCommitted(c) PROVE DiskInv'
    <2>1. lock = c /\ \A d \in Conns \ {c} : pc'[d] = pc[d] /\ task'[d] = task[d]
        BY <1>a, <1>25 DEF MarkCommitted, LockHeld, TypeOK
    <2>2. DiskShape' /\ (SettledDb => SettledDb')
        BY <1>a, <1>25, WriteJournalShape, BoundsAssumption, ContentAssumption
           DEF MarkCommitted, StepKnows, TypeOK, Journal, Content, SettledDb, Undecided,
               DiskShape, Current
    <2>3. StepKnows(c)'
        BY <1>a, <2>2, <1>25
           DEF MarkCommitted, StepKnows, TypeOK, WriteJournal, Undecided, DiskShape,
               Current
    <2> QED BY <2>1, <2>2, <2>3, OthersKnow
<1>26. ASSUME NEW c \in Conns, SyncMark(c) PROVE DiskInv'
    <2>1. lock = c /\ \A d \in Conns \ {c} : pc'[d] = pc[d] /\ task'[d] = task[d]
        BY <1>a, <1>26 DEF SyncMark, LockHeld, TypeOK
    <2>2. DiskShape' /\ (SettledDb => SettledDb')
        BY <1>a, <1>26, SyncJournalShape DEF SyncMark
    <2>3. StepKnows(c)'
        BY <1>a, <2>2, <1>26
           DEF SyncMark, StepKnows, TypeOK, SyncJournal, Undecided, DiskShape, Current
    <2> QED BY <2>1, <2>2, <2>3, OthersKnow
<1>27. ASSUME NEW c \in Conns, CommitUnlink(c) PROVE DiskInv'
    <2>1. lock = c /\ \A d \in Conns \ {c} : pc'[d] = pc[d] /\ task'[d] = task[d]
        BY <1>a, <1>27 DEF CommitUnlink, LockHeld, TypeOK
    <2>2. DiskShape' /\ (SettledDb => SettledDb')
        BY <1>a, <1>27, WriteJournalShape, BoundsAssumption, ContentAssumption
           DEF CommitUnlink, StepKnows, TypeOK, Journal, Content, SettledDb, Undecided,
               DiskShape, Current
    <2>3. StepKnows(c)'
        BY <1>a, <2>2, <1>27
           DEF CommitUnlink, StepKnows, TypeOK, WriteJournal, Undecided, DiskShape,
               Current
    <2> QED BY <2>1, <2>2, <2>3, OthersKnow
<1>28. ASSUME NEW c \in Conns, CommitSyncUnlink(c) PROVE DiskInv'
    <2>1. lock = c /\ Finish(c, "committed", FALSE, cache[c])
        BY <1>a, <1>28 DEF CommitSyncUnlink, LockHeld
    <2>2. DiskShape'
        BY <1>a, <1>28, SyncJournalShape DEF CommitSyncUnlink
    <2> QED BY <2>1, <2>2, EndKnows
<1>29. ASSUME NEW c \in Conns, StartFault(c) PROVE DiskInv'
    <2>1. lock = c /\ UNCHANGED disk
        BY <1>a, <1>29 DEF StartFault, LockHeld, Raise
    <2>2. DiskShape'
        BY <1>a, <2>1, QuietShape
    <2>3. CASE Finish(c, "error", TRUE, cache[c])
        BY <2>1, <2>2, <2>3, EndKnows
    <2>4. CASE Goto(c, "recover") /\ task' = [task EXCEPT ![c] = "undo"]
        <3>1. StepKnows(c)'
            BY <1>a, <2>4 DEF StepKnows, TypeOK
        <3>2. \A d \in Conns \ {c} : pc'[d] = pc[d] /\ task'[d] = task[d]
            BY <1>a, <2>4 DEF TypeOK
        <3> QED BY <2>1, <2>2, <3>1, <3>2, OthersKnow
    <2> QED BY <2>3, <2>4, <1>29 DEF StartFault, Raise
<1>30. ASSUME NEW c \in Conns, FlushFault(c) PROVE DiskInv'
    <2>1. UNCHANGED disk /\ \A d \in Conns \ {c} : pc'[d] = pc[d] /\ task'[d] = task[d]
        BY <1>a, <1>30 DEF FlushFault, TypeOK
    <2>2. DiskShape'
        BY <1>a, <2>1, QuietShape
    <2>3. StepKnows(c)'
        BY <1>a, <1>30 DEF FlushFault, StepKnows, TypeOK, disk, Undecided, SettledDb
    <2> QED BY <2>1, <2>2, <2>3, OthersKnow
<1>31. ASSUME NEW c \in Conns, MarkFault(c) PROVE DiskInv'
    <2>1. lock = c /\ UNCHANGED disk /\ Finish(c, "uncertain", TRUE, cache[c])
        BY <1>a, <1>31 DEF MarkFault, LockHeld
    <2>2. DiskShape'
        BY <1>a, <2>1, QuietShape
    <2> QED BY <2>1, <2>2, EndKnows
<1>32. ASSUME NEW c \in Conns, CleanFault(c) PROVE DiskInv'
    <2>1. lock = c /\ UNCHANGED disk /\ Finish(c, "committed", FALSE, cache[c])
        BY <1>a, <1>32 DEF CleanFault, LockHeld
    <2>2. DiskShape'
        BY <1>a, <2>1, QuietShape
    <2> QED BY <2>1, <2>2, EndKnows
<1>33. ASSUME NEW c \in Conns, Crash(c) PROVE DiskInv'
    <2>1. UNCHANGED disk /\ \A d \in Conns \ {c} : pc'[d] = pc[d] /\ task'[d] = task[d]
        BY <1>a, <1>33 DEF Crash, TypeOK
    <2>2. DiskShape'
        BY <1>a, <2>1, QuietShape
    <2>3. StepKnows(c)'
        BY <1>a, <1>33 DEF Crash, StepKnows, TypeOK, disk, Undecided, SettledDb
    <2> QED BY <2>1, <2>2, <2>3, OthersKnow
<1>34. CASE PowerLoss
    <2>1. DiskShape'
        BY <1>a, <1>34, PowerLossShape
    <2>2. ASSUME NEW c \in Conns PROVE StepKnows(c)'
        BY <1>34 DEF PowerLoss, StepKnows
    <2> QED BY <2>1, <2>2 DEF DiskInv
<1>35. CASE UNCHANGED vars
    <2>1. UNCHANGED disk /\ UNCHANGED <<pc, task>>
        BY <1>35 DEF vars, disk
    <2>2. DiskShape'
        BY <1>a, <2>1, QuietShape
    <2>3. ASSUME NEW c \in Conns PROVE StepKnows(c)'
        BY <1>a, <2>1 DEF StepKnows, disk, Undecided, SettledDb
    <2> QED BY <2>2, <2>3 DEF DiskInv
<1> HIDE DEF Steps, Resting, RecoverSteps, BeginSteps, LoadSteps, CommitSteps, MarkSteps,
            CleanSteps, Guarded, Goto, Continue, ToRollback
<1> QED
    BY <1>1, <1>2, <1>3, <1>4, <1>5, <1>6, <1>7, <1>8, <1>9, <1>10, <1>11, <1>12,
       <1>13, <1>14, <1>15, <1>16, <1>17, <1>18, <1>19, <1>20, <1>21, <1>22, <1>23,
       <1>24, <1>25, <1>26, <1>27, <1>28, <1>29, <1>30, <1>31, <1>32, <1>33, <1>34,
       <1>35
       DEF Next, Progress, Request, Environment

-----------------------------------------------------------------------------
LEMMA ControlInit == Init => ControlInv
BY BoundsAssumption, ContentAssumption
   DEF Init, InitWith, ControlInv, TypeOK, LockHeld, JournalThere, Guarded, Steps, Resting,
       RecoverSteps, BeginSteps, LoadSteps, CommitSteps, MarkSteps, CleanSteps,
       Kinds, Tasks, Results, Value, Content, Journal, Image

\* The state of every connection, the lock and the disk stay typed, whatever
\* fails: in particular _restore and _mark_committed never meet a missing journal.
THEOREM TypeCorrect == Spec => []TypeOK
<1>1. Spec => []ControlInv
    BY ControlInit, ControlStep, PTL DEF Spec
<1>2. ControlInv => TypeOK
    BY DEF ControlInv
<1> QED BY <1>1, <1>2, PTL

\* Every step between _start and _reset_transaction, recovery and error paths
\* included, runs under the lock of minisql.lock: transactions exclude each other.
THEOREM MutualExclusion == Spec => []LockHeld
<1>1. Spec => []ControlInv
    BY ControlInit, ControlStep, PTL DEF Spec
<1>2. ControlInv => LockHeld
    BY DEF ControlInv
<1> QED BY <1>1, <1>2, PTL

LEMMA DiskInit == OrderedExisting /\ Init => DiskInv
BY ContentAssumption
   DEF OrderedExisting, Init, InitWith, DiskInv, DiskShape, StepKnows, Current,
       Undecided, SettledDb,
       Guarded, CommitSteps, MarkSteps, Value

LEMMA DiskAlways == OrderedExisting /\ Spec => []DiskInv
<1> SUFFICES ASSUME OrderedExisting PROVE Spec => []DiskInv
    OBVIOUS
<1>1. Init => ControlInv /\ DiskInv
    BY ControlInit, DiskInit
<1>2. ControlInv /\ DiskInv /\ [Next]_vars => (ControlInv /\ DiskInv)'
    BY ControlStep, DiskStep
<1> QED BY <1>1, <1>2, PTL DEF Spec

\* At every step of begin, commit, rollback and recovery, whatever image of the
\* two files a power loss leaves, the next recovery makes a whole value of it.
THEOREM Recoverability == OrderedExisting /\ Spec => []ImagesRecover
<1> SUFFICES ASSUME OrderedExisting PROVE Spec => []ImagesRecover
    OBVIOUS
<1>1. Spec => [](ControlInv /\ DiskInv)
    BY ControlInit, ControlStep, DiskAlways, PTL DEF Spec
<1>2. ControlInv /\ DiskInv => ImagesRecover
    BY ShapeRecovers DEF ControlInv, DiskInv
<1> QED BY <1>1, <1>2, PTL

\* No step changes the database file before the journal that undoes it exists.
THEOREM WritesAreJournaled == OrderedExisting /\ Spec => WriteAhead
<1> SUFFICES ASSUME OrderedExisting PROVE Spec => WriteAhead
    OBVIOUS
<1>1. ControlInv /\ DiskInv /\ [Next]_vars
         => [db' # db /\ losses' = losses => journal # NoJournal]_vars
    <2> SUFFICES ASSUME ControlInv, DiskInv, [Next]_vars, db' # db, losses' = losses
                 PROVE  journal # NoJournal
        OBVIOUS
    <2>1. PICK c \in Conns :
              \/ Truncate(c) \/ Rewrite(c) \/ BootstrapPages(c) \/ BootstrapCatalog(c)
              \/ WriteBack(c) \/ Flush(c)
        <3>1. ASSUME NEW d \in Conns, Progress(d)
              PROVE  \/ Truncate(d) \/ Rewrite(d) \/ BootstrapPages(d)
                     \/ BootstrapCatalog(d) \/ Flush(d)
            BY <3>1
               DEF Progress, Acquire, Busy, Recover, SyncRestored, Unlink, SyncUnlink,
               PublishJournal, SyncPublished, Load, Raise, LoadEmpty, Execute, SyncData, MarkPrefix,
               MarkCommitted, SyncMark, CommitUnlink, CommitSyncUnlink, disk
        <3>2. ASSUME NEW d \in Conns, Request(d) PROVE FALSE
            BY <3>2
               DEF Request, StartCall, CloseIdle, Execute, StatementFails, CommitCall,
               RollbackCall, disk
        <3>3. ASSUME NEW d \in Conns, Environment(d) PROVE WriteBack(d)
            BY <3>3
               DEF Environment, StartFault, FlushFault, MarkFault, CleanFault, Raise,
                   Crash, disk
        <3>4. ~PowerLoss
            BY DEF PowerLoss, ControlInv, TypeOK
        <3> QED BY <3>1, <3>2, <3>3, <3>4 DEF Next, vars
    <2>2. pc[c] \in {"truncate", "rewrite", "bootstrap", "register", "txn", "flush"}
        BY <2>1
           DEF Truncate, Rewrite, BootstrapPages, BootstrapCatalog, WriteBack, Flush
    <2> QED BY <2>2 DEF DiskInv, StepKnows, Guarded, CommitSteps, Undecided
<1>2. Spec => [](ControlInv /\ DiskInv)
    BY ControlInit, ControlStep, DiskAlways, PTL DEF Spec
<1> QED BY <1>1, <1>2, PTL DEF Spec, WriteAhead

-----------------------------------------------------------------------------
\* What recovery may still produce: the outcomes of AtomicStore.
Outcomes == {Recovered(i) : i \in survive}
\* What the next recovery makes of the files as they are now.
Now == Recovered(Current)

\* The answers, flags and steps of one call fit together: who holds the lock is
\* past acquire, a poisoned transaction waits in txn or rolls back, and a commit
\* under way is neither poisoned nor a recovery.
CallShape(c) ==
    /\ lock = c => pc[c] \notin Resting \cup {"acquire"}
    /\ failed[c] => lock = c /\ (pc[c] = "txn" \/ task[c] = "rollback")
    /\ pc[c] \in BeginSteps \cup {"txn"} \cup CommitSteps \cup MarkSteps \cup CleanSteps
          => task[c] = "start"
    /\ pc[c] = "load" => task[c] # "undo"
    /\ pc[c] \in CommitSteps \cup MarkSteps \cup CleanSteps => ~failed[c]

\* Which values recovery may still produce, and what the file and the cache of
\* the lock holder have to do with them: nothing is in doubt from the load to
\* the end of the marker, nor once the marker is durable.
OutcomeKnows(c) ==
    /\ pc[c] = "publish" => db = journal.before
    /\ pc[c] = "load" /\ task[c] = "start" => db = journal.before /\ Outcomes = {db}
    /\ pc[c] \in {"txn", "mark", "markrest"} \cup CommitSteps => Outcomes = {journal.before}
    /\ pc[c] \in {"syncdata"} \cup MarkSteps \cup CleanSteps => db = cache[c]
    /\ pc[c] \in CleanSteps => Outcomes = {db}
    /\ pc[c] = "unlink" => Now = db
    /\ pc[c] = "marksync" => ~Undecided

StoreInv == \A c \in Conns : CallShape(c) /\ OutcomeKnows(c)

\* Recovery of an image that DiskShape describes.
LEMMA RecoveredValue ==
    ASSUME TypeOK, DiskShape, NEW i \in survive
    PROVE  Recovered(i) = IF i.journal = NoJournal \/ i.journal.mark = "full"
                          THEN i.db ELSE i.journal.before
BY ContentAssumption DEF DiskShape, Recovered, Value

LEMMA RecoveredNow ==
    ASSUME TypeOK, DiskShape
    PROVE  /\ Now \in Outcomes
           /\ Undecided => Now = journal.before
           /\ ~Undecided => Now = db
BY RecoveredValue DEF DiskShape, Outcomes, Undecided, Current, Now

\* Writing the database file under a journal that undoes it changes no outcome.
LEMMA WriteDbOutcomes ==
    ASSUME OrderedExisting, TypeOK, DiskShape, Undecided,
           NEW x \in Value \cup {Torn}, WriteDb(x), journal' = journal
    PROVE  Outcomes' = Outcomes
<1>1. survive' = survive \cup [db : {x, Torn}, journal : {journal}]
    BY DEF WriteDb, OrderedExisting
<1>2. journal.before \in Value /\ journal.before # Empty
    BY ContentAssumption DEF DiskShape, Undecided, Current, Value
<1>3. ASSUME NEW i \in [db : {x, Torn}, journal : {journal}]
      PROVE  Recovered(i) = journal.before
    BY <1>2 DEF Recovered, Undecided
<1>4. journal.before \in Outcomes
    BY RecoveredNow
<1>5. Outcomes' = {Recovered(i) : i \in survive'}
    BY DEF Outcomes, Recovered
<1> QED BY <1>1, <1>3, <1>4, <1>5 DEF Outcomes

\* An fsync, of the journal or of everything, leaves one outcome: the current one.
LEMMA SyncJournalOutcomes ==
    ASSUME TypeOK, DiskShape, SyncJournal, UNCHANGED <<db, journal>>
    PROVE  Outcomes' = {Now} /\ Now' = Now
<1>1. survive' = {[db |-> i.db, journal |-> journal] : i \in survive}
    BY DEF SyncJournal
<1>2. Current \in survive /\ TypeOK
    BY DEF DiskShape
<1>3. ASSUME NEW i \in survive
      PROVE  Recovered([db |-> i.db, journal |-> journal]) = Now
    <2>1. CASE Undecided
        BY <2>1 DEF Undecided, Recovered, Current, Now
    <2>2. CASE ~Undecided
        BY <2>2 DEF DiskShape, SettledDb, Recovered, Current, Now
    <2> QED BY <2>1, <2>2
<1>4. Outcomes' = {Recovered(i) : i \in survive'} /\ Now' = Now
    BY DEF Outcomes, Recovered, Current, Now
<1> QED BY <1>1, <1>2, <1>3, <1>4

LEMMA SyncAllOutcomes ==
    ASSUME SyncAll, UNCHANGED <<db, journal>>
    PROVE  Outcomes' = {Now} /\ Now' = Now
<1>1. Outcomes' = {Recovered(i) : i \in survive'} /\ Now' = Now
    BY DEF Outcomes, Recovered, Current, Now
<1> QED BY <1>1 DEF SyncAll, Now

\* Publishing, marking or removing the journal adds at most what it makes of the
\* current file.
LEMMA WriteJournalOutcomes ==
    ASSUME TypeOK, DiskShape, NEW j \in Journal \cup {NoJournal},
           j = NoJournal \/ j.mark = "full" => SettledDb,
           WriteJournal(j), db' = db
    PROVE  Outcomes' = Outcomes \cup {Now'}
<1>1. survive' = survive \cup {[db |-> i.db, journal |-> j] : i \in survive}
    BY DEF WriteJournal
<1>2. Current \in survive /\ Now' = Recovered([db |-> db, journal |-> j])
    BY DEF DiskShape, Current, WriteJournal, Recovered, Now
<1>3. ASSUME NEW i \in survive
      PROVE  Recovered([db |-> i.db, journal |-> j]) = Recovered([db |-> db, journal |-> j])
    <2>1. CASE j = NoJournal \/ j.mark = "full"
        BY <2>1 DEF SettledDb, Recovered
    <2>2. CASE ~(j = NoJournal \/ j.mark = "full")
        BY <2>2 DEF Recovered
    <2> QED BY <2>1, <2>2
<1>4. Outcomes' = {Recovered(i) : i \in survive'}
    BY DEF Outcomes, Recovered
<1> QED BY <1>1, <1>2, <1>3, <1>4 DEF Outcomes

LEMMA QuietOutcomes ==
    UNCHANGED disk => Outcomes' = Outcomes /\ Now' = Now
BY DEF disk, Outcomes, Recovered, Current, Now

\* The actions by their effect on the outcomes.
LEMMA ActionOutcomes ==
    ASSUME OrderedExisting, ControlInv, DiskInv, NEW c \in Conns
    PROVE  /\ Truncate(c) \/ Rewrite(c) \/ WriteBack(c) \/ Flush(c)
                 => Outcomes' = Outcomes /\ Undecided /\ journal' = journal
           /\ (\/ Unlink(c) \/ PublishJournal(c)
               \/ MarkPrefix(c) \/ MarkCommitted(c) \/ CommitUnlink(c))
                 => Outcomes' = Outcomes \cup {Now'}
           /\ (\/ SyncRestored(c) \/ SyncUnlink(c) \/ SyncPublished(c)
               \/ SyncData(c) \/ SyncMark(c) \/ CommitSyncUnlink(c))
                 => Outcomes' = {Now} /\ Now' = Now
<1>a. TypeOK /\ DiskShape /\ StepKnows(c)
    BY DEF ControlInv, DiskInv
<1>1. ASSUME Truncate(c) PROVE Outcomes' = Outcomes /\ Undecided /\ journal' = journal
    BY <1>a, <1>1, WriteDbOutcomes, BoundsAssumption
       DEF Truncate, StepKnows, Guarded, CommitSteps, TypeOK, DiskShape, Current,
           Undecided, Value
<1>2. ASSUME Rewrite(c) PROVE Outcomes' = Outcomes /\ Undecided /\ journal' = journal
    BY <1>a, <1>2, WriteDbOutcomes, BoundsAssumption
       DEF Rewrite, StepKnows, Guarded, CommitSteps, TypeOK, DiskShape, Current,
           Undecided, Value
<1>3. ASSUME WriteBack(c) PROVE Outcomes' = Outcomes /\ Undecided /\ journal' = journal
    BY <1>a, <1>3, WriteDbOutcomes, BoundsAssumption
       DEF WriteBack, StepKnows, Guarded, CommitSteps, TypeOK, DiskShape, Current,
           Undecided, Value
<1>4. ASSUME Flush(c) PROVE Outcomes' = Outcomes /\ Undecided /\ journal' = journal
    BY <1>a, <1>4, WriteDbOutcomes, BoundsAssumption
       DEF Flush, StepKnows, Guarded, CommitSteps, TypeOK, DiskShape, Current, Undecided,
           Value
<1>5. ASSUME Unlink(c) PROVE Outcomes' = Outcomes \cup {Now'}
    BY <1>a, <1>5, WriteJournalOutcomes, BoundsAssumption, ContentAssumption
       DEF Unlink, StepKnows, Guarded, MarkSteps, TypeOK, Journal, Content, DiskShape,
           Undecided
<1>6. ASSUME PublishJournal(c) PROVE Outcomes' = Outcomes \cup {Now'}
    BY <1>a, <1>6, WriteJournalOutcomes, BoundsAssumption, ContentAssumption
       DEF PublishJournal, StepKnows, Guarded, MarkSteps, TypeOK, Journal, Content,
           DiskShape, Undecided
<1>7. ASSUME MarkPrefix(c) PROVE Outcomes' = Outcomes \cup {Now'}
    BY <1>a, <1>7, WriteJournalOutcomes, BoundsAssumption, ContentAssumption
       DEF MarkPrefix, StepKnows, Guarded, MarkSteps, TypeOK, Journal, Content,
           DiskShape, Undecided
<1>8. ASSUME MarkCommitted(c) PROVE Outcomes' = Outcomes \cup {Now'}
    BY <1>a, <1>8, WriteJournalOutcomes, BoundsAssumption, ContentAssumption
       DEF MarkCommitted, StepKnows, Guarded, MarkSteps, TypeOK, Journal, Content,
           DiskShape, Undecided
<1>9. ASSUME CommitUnlink(c) PROVE Outcomes' = Outcomes \cup {Now'}
    BY <1>a, <1>9, WriteJournalOutcomes, BoundsAssumption, ContentAssumption
       DEF CommitUnlink, StepKnows, Guarded, MarkSteps, TypeOK, Journal, Content,
           DiskShape, Undecided
<1>10. ASSUME SyncRestored(c)
      PROVE  Outcomes' = {Now} /\ Now' = Now
    BY <1>a, <1>10, SyncAllOutcomes DEF SyncRestored
<1>11. ASSUME SyncUnlink(c)
      PROVE  Outcomes' = {Now} /\ Now' = Now
    BY <1>a, <1>11, SyncJournalOutcomes DEF SyncUnlink
<1>12. ASSUME SyncPublished(c)
      PROVE  Outcomes' = {Now} /\ Now' = Now
    BY <1>a, <1>12, SyncJournalOutcomes DEF SyncPublished
<1>13. ASSUME SyncData(c)
      PROVE  Outcomes' = {Now} /\ Now' = Now
    BY <1>a, <1>13, SyncAllOutcomes DEF SyncData
<1>14. ASSUME SyncMark(c)
      PROVE  Outcomes' = {Now} /\ Now' = Now
    BY <1>a, <1>14, SyncJournalOutcomes DEF SyncMark
<1>15. ASSUME CommitSyncUnlink(c)
      PROVE  Outcomes' = {Now} /\ Now' = Now
    BY <1>a, <1>15, SyncJournalOutcomes DEF CommitSyncUnlink
<1> QED
    BY <1>1, <1>2, <1>3, <1>4, <1>5, <1>6, <1>7, <1>8,
       <1>9, <1>10, <1>11, <1>12, <1>13, <1>14, <1>15

\* Only the connection past the lock has a transaction; the others keep their facts.
LEMMA OthersStore ==
    ASSUME ControlInv, StoreInv, NEW c \in Conns,
           \A d \in Conns \ {c} : /\ pc'[d] = pc[d] /\ task'[d] = task[d]
                                  /\ failed'[d] = failed[d] /\ cache'[d] = cache[d],
           lock' = lock \/ (lock \in {c, Nobody} /\ lock' \in {c, Nobody}),
           lock # c => UNCHANGED disk,
           CallShape(c)', OutcomeKnows(c)'
    PROVE  StoreInv'
<1>1. ASSUME NEW d \in Conns \ {c} PROVE CallShape(d)'
    <2>1. lock' = d <=> lock = d
        BY ContentAssumption
    <2> QED BY <2>1 DEF StoreInv, CallShape
<1>2. ASSUME NEW d \in Conns \ {c} PROVE OutcomeKnows(d)'
    <2>1. CASE lock = c
        <3>1. pc'[d] \in Resting \cup {"acquire"}
            BY <2>1 DEF ControlInv, LockHeld
        <3> QED BY <3>1 DEF OutcomeKnows, Resting, CommitSteps, MarkSteps, CleanSteps
    <2>2. CASE lock # c
        BY <2>2, QuietOutcomes DEF StoreInv, OutcomeKnows, disk, Undecided
    <2> QED BY <2>1, <2>2
<1> QED BY <1>1, <1>2 DEF StoreInv

LEMMA EndStore ==
    ASSUME ControlInv, StoreInv, NEW c \in Conns, lock = c,
           NEW r, NEW b, NEW k, Finish(c, r, b, k)
    PROVE  StoreInv'
<1>1. /\ pc'[c] \in Resting /\ failed'[c] = FALSE /\ lock' = Nobody
      /\ \A d \in Conns \ {c} : /\ pc'[d] = pc[d] /\ task'[d] = task[d]
                                /\ failed'[d] = failed[d] /\ cache'[d] = cache[d]
    BY DEF Finish, Goto, ControlInv, TypeOK, Resting
<1>2. CallShape(c)' /\ OutcomeKnows(c)'
    BY <1>1, ContentAssumption
       DEF CallShape, OutcomeKnows, Resting, BeginSteps, CommitSteps, MarkSteps, CleanSteps
<1> QED BY <1>1, <1>2, OthersStore


LEMMA StoreStep ==
    ASSUME OrderedExisting, ControlInv, DiskInv, StoreInv, [Next]_vars
    PROVE  StoreInv'
<1> USE
       DEF Steps, Resting, RecoverSteps, BeginSteps, LoadSteps, CommitSteps, MarkSteps,
            CleanSteps, Guarded, Goto, Continue, ToRollback
<1>a. TypeOK /\ LockHeld /\ DiskShape /\ \A c \in Conns : StepKnows(c)
    BY DEF ControlInv, DiskInv
<1>b. \A c \in Conns : CallShape(c) /\ OutcomeKnows(c)
    BY DEF StoreInv
<1>1. ASSUME NEW c \in Conns, NEW k \in Kinds, StartCall(c, k) PROVE StoreInv'
    <2>1. /\ \A d \in Conns \ {c} : /\ pc'[d] = pc[d] /\ task'[d] = task[d]
                                    /\ failed'[d] = failed[d] /\ cache'[d] = cache[d]
          /\ lock' = lock /\ UNCHANGED disk
        BY <1>a, <1>1 DEF StartCall, LockHeld, TypeOK, disk
    <2>2. Outcomes' = Outcomes /\ Now' = Now
        BY <2>1, QuietOutcomes
    <2>3. CallShape(c)'
        BY <1>a, <1>b, <1>1, ContentAssumption DEF StartCall, CallShape, TypeOK, LockHeld
    <2>4. OutcomeKnows(c)'
        BY <1>a, <1>b, <2>2, <1>1
           DEF StartCall, OutcomeKnows, StepKnows, CallShape, TypeOK, disk
    <2> QED BY <2>1, <2>3, <2>4, OthersStore
<1>2. ASSUME NEW c \in Conns, CloseIdle(c) PROVE StoreInv'
    <2>1. /\ \A d \in Conns \ {c} : /\ pc'[d] = pc[d] /\ task'[d] = task[d]
                                    /\ failed'[d] = failed[d] /\ cache'[d] = cache[d]
          /\ lock' = lock /\ UNCHANGED disk
        BY <1>a, <1>2 DEF CloseIdle, LockHeld, TypeOK, disk
    <2>2. Outcomes' = Outcomes /\ Now' = Now
        BY <2>1, QuietOutcomes
    <2>3. CallShape(c)'
        BY <1>a, <1>b, <1>2, ContentAssumption DEF CloseIdle, CallShape, TypeOK, LockHeld
    <2>4. OutcomeKnows(c)'
        BY <1>a, <1>b, <2>2, <1>2
           DEF CloseIdle, OutcomeKnows, StepKnows, CallShape, TypeOK, disk
    <2> QED BY <2>1, <2>3, <2>4, OthersStore
<1>3. ASSUME NEW c \in Conns, Acquire(c) PROVE StoreInv'
    <2>1. /\ \A d \in Conns \ {c} : /\ pc'[d] = pc[d] /\ task'[d] = task[d]
                                    /\ failed'[d] = failed[d] /\ cache'[d] = cache[d]
          /\ lock = Nobody /\ lock' = c /\ UNCHANGED disk
        BY <1>a, <1>3 DEF Acquire, LockHeld, TypeOK, disk
    <2>2. Outcomes' = Outcomes /\ Now' = Now
        BY <2>1, QuietOutcomes
    <2>3. CallShape(c)'
        BY <1>a, <1>b, <1>3, ContentAssumption DEF Acquire, CallShape, TypeOK, LockHeld
    <2>4. OutcomeKnows(c)'
        BY <1>a, <1>b, <2>2, <1>3
           DEF Acquire, OutcomeKnows, StepKnows, CallShape, TypeOK, disk
    <2> QED BY <2>1, <2>3, <2>4, OthersStore
<1>4. ASSUME NEW c \in Conns, Busy(c) PROVE StoreInv'
    <2>1. /\ \A d \in Conns \ {c} : /\ pc'[d] = pc[d] /\ task'[d] = task[d]
                                    /\ failed'[d] = failed[d] /\ cache'[d] = cache[d]
          /\ lock' = lock /\ UNCHANGED disk
        BY <1>a, <1>4 DEF Busy, LockHeld, TypeOK, disk
    <2>2. Outcomes' = Outcomes /\ Now' = Now
        BY <2>1, QuietOutcomes
    <2>3. CallShape(c)'
        BY <1>a, <1>b, <1>4, ContentAssumption DEF Busy, CallShape, TypeOK, LockHeld
    <2>4. OutcomeKnows(c)'
        BY <1>a, <1>b, <2>2, <1>4 DEF Busy, OutcomeKnows, StepKnows, CallShape, TypeOK, disk
    <2> QED BY <2>1, <2>3, <2>4, OthersStore
<1>5. ASSUME NEW c \in Conns, Recover(c) PROVE StoreInv'
    <2>1. lock = c /\ UNCHANGED disk
        BY <1>a, <1>5 DEF Recover, LockHeld
    <2>2. CASE Finish(c, "error", TRUE, cache[c])
        BY <2>1, <2>2, EndStore
    <2>3. CASE /\ \E s \in {"journal", "truncate", "unlink"} : Continue(c, s)
               /\ pc'[c] = "journal" => task[c] = "start"
               /\ pc'[c] = "unlink" => ~Undecided
        <3>1. /\ \A d \in Conns \ {c} : /\ pc'[d] = pc[d] /\ task'[d] = task[d]
                                        /\ failed'[d] = failed[d] /\ cache'[d] = cache[d]
              /\ lock' = lock
            BY <1>a, <2>3 DEF TypeOK
        <3>2. CallShape(c)'
            BY <1>a, <1>b, <2>1, <2>3, <1>5 DEF Recover, CallShape, TypeOK
        <3>3. OutcomeKnows(c)'
            BY <1>a, <2>1, <2>3, RecoveredNow, QuietOutcomes DEF OutcomeKnows, TypeOK, disk
        <3> QED BY <2>1, <3>1, <3>2, <3>3, OthersStore
    <2> QED BY <1>a, <2>2, <2>3, <1>5 DEF Recover, TypeOK, Undecided
<1>6. ASSUME NEW c \in Conns, Truncate(c) PROVE StoreInv'
    <2>1. /\ \A d \in Conns \ {c} : /\ pc'[d] = pc[d] /\ task'[d] = task[d]
                                    /\ failed'[d] = failed[d] /\ cache'[d] = cache[d]
          /\ lock' = lock /\ lock = c
        BY <1>a, <1>6 DEF Truncate, LockHeld, TypeOK, disk
    <2>2. Outcomes' = Outcomes /\ Undecided /\ journal' = journal
        BY <1>6, ActionOutcomes
    <2>3. CallShape(c)'
        BY <1>a, <1>b, <2>1, <1>6, ContentAssumption DEF Truncate, CallShape, TypeOK
    <2>4. OutcomeKnows(c)'
        BY <1>a, <1>b, <2>1, <2>2, <1>6, RecoveredNow
           DEF Truncate, OutcomeKnows, CallShape, StepKnows, Undecided, TypeOK
    <2> QED BY <2>1, <2>3, <2>4, OthersStore
<1>7. ASSUME NEW c \in Conns, Rewrite(c) PROVE StoreInv'
    <2>1. /\ \A d \in Conns \ {c} : /\ pc'[d] = pc[d] /\ task'[d] = task[d]
                                    /\ failed'[d] = failed[d] /\ cache'[d] = cache[d]
          /\ lock' = lock /\ lock = c
        BY <1>a, <1>7 DEF Rewrite, LockHeld, TypeOK, disk
    <2>2. Outcomes' = Outcomes /\ Undecided /\ journal' = journal
        BY <1>7, ActionOutcomes
    <2>3. CallShape(c)'
        BY <1>a, <1>b, <2>1, <1>7, ContentAssumption DEF Rewrite, CallShape, TypeOK
    <2>4. OutcomeKnows(c)'
        BY <1>a, <1>b, <2>1, <2>2, <1>7, RecoveredNow
           DEF Rewrite, OutcomeKnows, CallShape, StepKnows, Undecided, TypeOK
    <2> QED BY <2>1, <2>3, <2>4, OthersStore
<1>8. ASSUME NEW c \in Conns, SyncRestored(c) PROVE StoreInv'
    <2>1. /\ \A d \in Conns \ {c} : /\ pc'[d] = pc[d] /\ task'[d] = task[d]
                                    /\ failed'[d] = failed[d] /\ cache'[d] = cache[d]
          /\ lock' = lock /\ lock = c
        BY <1>a, <1>8 DEF SyncRestored, LockHeld, TypeOK, disk
    <2>2. Outcomes' = {Now} /\ Now' = Now
        BY <1>8, ActionOutcomes
    <2>3. CallShape(c)'
        BY <1>a, <1>b, <2>1, <1>8, ContentAssumption DEF SyncRestored, CallShape, TypeOK
    <2>4. OutcomeKnows(c)'
        BY <1>a, <1>b, <2>1, <2>2, <1>8, RecoveredNow
           DEF SyncRestored, OutcomeKnows, CallShape, StepKnows, Undecided, TypeOK
    <2> QED BY <2>1, <2>3, <2>4, OthersStore
<1>9. ASSUME NEW c \in Conns, Unlink(c) PROVE StoreInv'
    <2>1. /\ \A d \in Conns \ {c} : /\ pc'[d] = pc[d] /\ task'[d] = task[d]
                                    /\ failed'[d] = failed[d] /\ cache'[d] = cache[d]
          /\ lock' = lock /\ lock = c
        BY <1>a, <1>9 DEF Unlink, LockHeld, TypeOK, disk
    <2>2. Outcomes' = Outcomes \cup {Now'}
        BY <1>9, ActionOutcomes
    <2>3. CallShape(c)'
        BY <1>a, <1>b, <2>1, <1>9, ContentAssumption DEF Unlink, CallShape, TypeOK
    <2>4. OutcomeKnows(c)'
        BY <1>a, <1>b, <2>1, <2>2, <1>9, RecoveredNow
           DEF Unlink, OutcomeKnows, CallShape, StepKnows, Undecided, TypeOK
    <2> QED BY <2>1, <2>3, <2>4, OthersStore
<1>10. ASSUME NEW c \in Conns, SyncUnlink(c) PROVE StoreInv'
    <2>1. lock = c
        BY <1>a, <1>10 DEF SyncUnlink, LockHeld
    <2>2. CASE task[c] = "undo"
        BY <2>1, <2>2, <1>10, EndStore DEF SyncUnlink
    <2>3. CASE task[c] # "undo"
        <3>1. /\ Continue(c, IF task[c] = "start" THEN "journal" ELSE "load")
              /\ task[c] \in {"start", "rollback"}
            BY <1>a, <2>3, <1>10 DEF SyncUnlink, TypeOK, Tasks
        <3>2. /\ \A d \in Conns \ {c} : /\ pc'[d] = pc[d] /\ task'[d] = task[d]
                                        /\ failed'[d] = failed[d] /\ cache'[d] = cache[d]
              /\ lock' = lock
            BY <1>a, <3>1 DEF TypeOK
        <3>3. CallShape(c)'
            BY <1>a, <1>b, <2>1, <3>1, <1>10 DEF SyncUnlink, CallShape, TypeOK
        <3>4. OutcomeKnows(c)'
            BY <1>a, <3>1 DEF OutcomeKnows, TypeOK
        <3> QED BY <2>1, <3>2, <3>3, <3>4, OthersStore
    <2> QED BY <2>2, <2>3
<1>11. ASSUME NEW c \in Conns, PublishJournal(c) PROVE StoreInv'
    <2>1. /\ \A d \in Conns \ {c} : /\ pc'[d] = pc[d] /\ task'[d] = task[d]
                                    /\ failed'[d] = failed[d] /\ cache'[d] = cache[d]
          /\ lock' = lock /\ lock = c
        BY <1>a, <1>11 DEF PublishJournal, LockHeld, TypeOK, disk
    <2>2. Outcomes' = Outcomes \cup {Now'}
        BY <1>11, ActionOutcomes
    <2>3. CallShape(c)'
        BY <1>a, <1>b, <2>1, <1>11, ContentAssumption DEF PublishJournal, CallShape, TypeOK
    <2>4. OutcomeKnows(c)'
        BY <1>a, <1>b, <2>1, <2>2, <1>11, RecoveredNow
           DEF PublishJournal, OutcomeKnows, CallShape, StepKnows, Undecided, TypeOK,
               WriteJournal
    <2> QED BY <2>1, <2>3, <2>4, OthersStore
<1>12. ASSUME NEW c \in Conns, SyncPublished(c) PROVE StoreInv'
    <2>1. /\ \A d \in Conns \ {c} : /\ pc'[d] = pc[d] /\ task'[d] = task[d]
                                    /\ failed'[d] = failed[d] /\ cache'[d] = cache[d]
          /\ lock' = lock /\ lock = c
        BY <1>a, <1>12 DEF SyncPublished, LockHeld, TypeOK, disk
    <2>2. Outcomes' = {Now} /\ Now' = Now
        BY <1>12, ActionOutcomes
    <2>3. CallShape(c)'
        BY <1>a, <1>b, <2>1, <1>12, ContentAssumption DEF SyncPublished, CallShape, TypeOK
    <2>4. OutcomeKnows(c)'
        BY <1>a, <1>b, <2>1, <2>2, <1>12, RecoveredNow
           DEF SyncPublished, OutcomeKnows, CallShape, StepKnows, Undecided, TypeOK
    <2> QED BY <2>1, <2>3, <2>4, OthersStore
<1>13. ASSUME NEW c \in Conns, Load(c) PROVE StoreInv'
    <2>1. lock = c /\ UNCHANGED disk
        BY <1>a, <1>13 DEF Load, LockHeld, Raise, disk
    <2>2. CASE task[c] = "rollback"
        BY <2>1, <2>2, <1>13, EndStore DEF Load, Raise
    <2>3. CASE task[c] # "rollback"
        <3>1. task[c] = "start" /\ db = journal.before /\ Outcomes = {db} /\ Undecided
            BY <1>a, <1>b, <2>3, <1>13
               DEF Load, OutcomeKnows, CallShape, StepKnows, TypeOK, Tasks
        <3>2. db # Torn
            BY <1>a, <3>1, ContentAssumption DEF DiskShape, Undecided, Current, Value
        <3>3. /\ cache' = [cache EXCEPT ![c] = db] /\ Goto(c, "txn")
              /\ UNCHANGED <<task, failed, lock>>
            BY <2>3, <3>2, <1>13 DEF Load
        <3>4. \A d \in Conns \ {c} : /\ pc'[d] = pc[d] /\ task'[d] = task[d]
                                     /\ failed'[d] = failed[d] /\ cache'[d] = cache[d]
            BY <1>a, <3>3 DEF TypeOK
        <3>5. CallShape(c)'
            BY <1>a, <1>b, <2>1, <3>1, <3>3, <1>13 DEF CallShape, TypeOK
        <3>6. OutcomeKnows(c)'
            BY <1>a, <2>1, <3>1, <3>3, QuietOutcomes DEF OutcomeKnows, TypeOK, disk
        <3> QED BY <2>1, <3>3, <3>4, <3>5, <3>6, OthersStore
    <2> QED BY <2>2, <2>3
<1>14. ASSUME NEW c \in Conns, LoadEmpty(c) PROVE StoreInv'
    BY <1>a, <1>14 DEF LoadEmpty, DiskShape, Current
<1>15. ASSUME NEW c \in Conns, BootstrapPages(c) PROVE StoreInv'
    BY <1>a, <1>15 DEF BootstrapPages, StepKnows
<1>16. ASSUME NEW c \in Conns, BootstrapCatalog(c) PROVE StoreInv'
    BY <1>a, <1>16 DEF BootstrapCatalog, StepKnows
<1>17. ASSUME NEW c \in Conns, NEW w \in 0..1, Execute(c, w) PROVE StoreInv'
    <2>1. /\ \A d \in Conns \ {c} : /\ pc'[d] = pc[d] /\ task'[d] = task[d]
                                    /\ failed'[d] = failed[d] /\ cache'[d] = cache[d]
          /\ lock' = lock /\ UNCHANGED disk
        BY <1>a, <1>17 DEF Execute, LockHeld, TypeOK, disk
    <2>2. Outcomes' = Outcomes /\ Now' = Now
        BY <2>1, QuietOutcomes
    <2>3. CallShape(c)'
        BY <1>a, <1>b, <1>17, ContentAssumption DEF Execute, CallShape, TypeOK, LockHeld
    <2>4. OutcomeKnows(c)'
        BY <1>a, <1>b, <2>2, <1>17
           DEF Execute, OutcomeKnows, StepKnows, CallShape, TypeOK, disk
    <2> QED BY <2>1, <2>3, <2>4, OthersStore
<1>18. ASSUME NEW c \in Conns, NEW w \in 0..1, StatementFails(c, w) PROVE StoreInv'
    <2>1. /\ \A d \in Conns \ {c} : /\ pc'[d] = pc[d] /\ task'[d] = task[d]
                                    /\ failed'[d] = failed[d] /\ cache'[d] = cache[d]
          /\ lock' = lock /\ UNCHANGED disk
        BY <1>a, <1>18 DEF StatementFails, LockHeld, TypeOK, disk
    <2>2. Outcomes' = Outcomes /\ Now' = Now
        BY <2>1, QuietOutcomes
    <2>3. CallShape(c)'
        BY <1>a, <1>b, <1>18, ContentAssumption
           DEF StatementFails, CallShape, TypeOK, LockHeld
    <2>4. OutcomeKnows(c)'
        BY <1>a, <1>b, <2>2, <1>18
           DEF StatementFails, OutcomeKnows, StepKnows, CallShape, TypeOK, disk
    <2> QED BY <2>1, <2>3, <2>4, OthersStore
<1>19. ASSUME NEW c \in Conns, WriteBack(c) PROVE StoreInv'
    <2>1. /\ \A d \in Conns \ {c} : /\ pc'[d] = pc[d] /\ task'[d] = task[d]
                                    /\ failed'[d] = failed[d] /\ cache'[d] = cache[d]
          /\ lock' = lock /\ lock = c
        BY <1>a, <1>19 DEF WriteBack, LockHeld, TypeOK, disk
    <2>2. Outcomes' = Outcomes /\ Undecided /\ journal' = journal
        BY <1>19, ActionOutcomes
    <2>3. CallShape(c)'
        BY <1>a, <1>b, <2>1, <1>19, ContentAssumption DEF WriteBack, CallShape, TypeOK
    <2>4. OutcomeKnows(c)'
        BY <1>a, <1>b, <2>1, <2>2, <1>19, RecoveredNow
           DEF WriteBack, OutcomeKnows, CallShape, StepKnows, Undecided, TypeOK
    <2> QED BY <2>1, <2>3, <2>4, OthersStore
<1>20. ASSUME NEW c \in Conns, CommitCall(c) PROVE StoreInv'
    <2>1. /\ \A d \in Conns \ {c} : /\ pc'[d] = pc[d] /\ task'[d] = task[d]
                                    /\ failed'[d] = failed[d] /\ cache'[d] = cache[d]
          /\ lock' = lock /\ UNCHANGED disk
        BY <1>a, <1>20 DEF CommitCall, LockHeld, TypeOK, disk
    <2>2. Outcomes' = Outcomes /\ Now' = Now
        BY <2>1, QuietOutcomes
    <2>3. CallShape(c)'
        BY <1>a, <1>b, <1>20, ContentAssumption DEF CommitCall, CallShape, TypeOK, LockHeld
    <2>4. OutcomeKnows(c)'
        BY <1>a, <1>b, <2>2, <1>20
           DEF CommitCall, OutcomeKnows, StepKnows, CallShape, TypeOK, disk
    <2> QED BY <2>1, <2>3, <2>4, OthersStore
<1>21. ASSUME NEW c \in Conns, NEW k \in Kinds, RollbackCall(c, k) PROVE StoreInv'
    <2>1. /\ \A d \in Conns \ {c} : /\ pc'[d] = pc[d] /\ task'[d] = task[d]
                                    /\ failed'[d] = failed[d] /\ cache'[d] = cache[d]
          /\ lock' = lock /\ UNCHANGED disk
        BY <1>a, <1>21 DEF RollbackCall, LockHeld, TypeOK, disk
    <2>2. Outcomes' = Outcomes /\ Now' = Now
        BY <2>1, QuietOutcomes
    <2>3. CallShape(c)'
        BY <1>a, <1>b, <1>21, ContentAssumption
           DEF RollbackCall, CallShape, TypeOK, LockHeld
    <2>4. OutcomeKnows(c)'
        BY <1>a, <1>b, <2>2, <1>21
           DEF RollbackCall, OutcomeKnows, StepKnows, CallShape, TypeOK, disk
    <2> QED BY <2>1, <2>3, <2>4, OthersStore
<1>22. ASSUME NEW c \in Conns, Flush(c) PROVE StoreInv'
    <2>1. /\ \A d \in Conns \ {c} : /\ pc'[d] = pc[d] /\ task'[d] = task[d]
                                    /\ failed'[d] = failed[d] /\ cache'[d] = cache[d]
          /\ lock' = lock /\ lock = c
        BY <1>a, <1>22 DEF Flush, LockHeld, TypeOK, disk
    <2>2. Outcomes' = Outcomes /\ Undecided /\ journal' = journal
        BY <1>22, ActionOutcomes
    <2>3. CallShape(c)'
        BY <1>a, <1>b, <2>1, <1>22, ContentAssumption DEF Flush, CallShape, TypeOK
    <2>4. OutcomeKnows(c)'
        BY <1>a, <1>b, <2>1, <2>2, <1>22, RecoveredNow
           DEF Flush, OutcomeKnows, CallShape, StepKnows, Undecided, TypeOK, WriteDb
    <2> QED BY <2>1, <2>3, <2>4, OthersStore
<1>23. ASSUME NEW c \in Conns, SyncData(c) PROVE StoreInv'
    <2>1. /\ \A d \in Conns \ {c} : /\ pc'[d] = pc[d] /\ task'[d] = task[d]
                                    /\ failed'[d] = failed[d] /\ cache'[d] = cache[d]
          /\ lock' = lock /\ lock = c
        BY <1>a, <1>23 DEF SyncData, LockHeld, TypeOK, disk
    <2>2. Outcomes' = {Now} /\ Now' = Now
        BY <1>23, ActionOutcomes
    <2>3. CallShape(c)'
        BY <1>a, <1>b, <2>1, <1>23, ContentAssumption DEF SyncData, CallShape, TypeOK
    <2>4. OutcomeKnows(c)'
        BY <1>a, <1>b, <2>1, <2>2, <1>23, RecoveredNow
           DEF SyncData, OutcomeKnows, CallShape, StepKnows, Undecided, TypeOK
    <2> QED BY <2>1, <2>3, <2>4, OthersStore
<1>24. ASSUME NEW c \in Conns, MarkPrefix(c) PROVE StoreInv'
    <2>1. /\ \A d \in Conns \ {c} : /\ pc'[d] = pc[d] /\ task'[d] = task[d]
                                    /\ failed'[d] = failed[d] /\ cache'[d] = cache[d]
          /\ lock' = lock /\ lock = c
        BY <1>a, <1>24 DEF MarkPrefix, LockHeld, TypeOK, disk
    <2>2. Outcomes' = Outcomes \cup {Now'}
        BY <1>24, ActionOutcomes
    <2>5. Now' = journal.before /\ journal'.before = journal.before
        BY <1>a, <1>24, ContentAssumption
           DEF MarkPrefix, WriteJournal, StepKnows, Undecided, DiskShape, TypeOK, Journal,
               Recovered, Current, Now, Value
    <2>3. CallShape(c)'
        BY <1>a, <1>b, <2>1, <1>24, ContentAssumption DEF MarkPrefix, CallShape, TypeOK
    <2>4. OutcomeKnows(c)'
        BY <1>a, <1>b, <2>1, <2>2, <2>5, <1>24, RecoveredNow
           DEF MarkPrefix, OutcomeKnows, CallShape, StepKnows, Undecided, TypeOK,
               WriteJournal
    <2> QED BY <2>1, <2>3, <2>4, OthersStore
<1>25. ASSUME NEW c \in Conns, MarkCommitted(c) PROVE StoreInv'
    <2>1. /\ \A d \in Conns \ {c} : /\ pc'[d] = pc[d] /\ task'[d] = task[d]
                                    /\ failed'[d] = failed[d] /\ cache'[d] = cache[d]
          /\ lock' = lock /\ lock = c
        BY <1>a, <1>25 DEF MarkCommitted, LockHeld, TypeOK, disk
    <2>2. Outcomes' = Outcomes \cup {Now'}
        BY <1>25, ActionOutcomes
    <2>5. ~Undecided'
        BY <1>a, <1>25
           DEF MarkCommitted, WriteJournal, StepKnows, Undecided, TypeOK, Journal
    <2>3. CallShape(c)'
        BY <1>a, <1>b, <2>1, <1>25, ContentAssumption DEF MarkCommitted, CallShape, TypeOK
    <2>4. OutcomeKnows(c)'
        BY <1>a, <1>b, <2>1, <2>2, <2>5, <1>25, RecoveredNow
           DEF MarkCommitted, OutcomeKnows, CallShape, StepKnows, Undecided, TypeOK,
               WriteJournal
    <2> QED BY <2>1, <2>3, <2>4, OthersStore
<1>26. ASSUME NEW c \in Conns, SyncMark(c) PROVE StoreInv'
    <2>1. /\ \A d \in Conns \ {c} : /\ pc'[d] = pc[d] /\ task'[d] = task[d]
                                    /\ failed'[d] = failed[d] /\ cache'[d] = cache[d]
          /\ lock' = lock /\ lock = c
        BY <1>a, <1>26 DEF SyncMark, LockHeld, TypeOK, disk
    <2>2. Outcomes' = {Now} /\ Now' = Now
        BY <1>26, ActionOutcomes
    <2>3. CallShape(c)'
        BY <1>a, <1>b, <2>1, <1>26, ContentAssumption DEF SyncMark, CallShape, TypeOK
    <2>4. OutcomeKnows(c)'
        BY <1>a, <1>b, <2>1, <2>2, <1>26, RecoveredNow
           DEF SyncMark, OutcomeKnows, CallShape, StepKnows, Undecided, TypeOK
    <2> QED BY <2>1, <2>3, <2>4, OthersStore
<1>27. ASSUME NEW c \in Conns, CommitUnlink(c) PROVE StoreInv'
    <2>1. /\ \A d \in Conns \ {c} : /\ pc'[d] = pc[d] /\ task'[d] = task[d]
                                    /\ failed'[d] = failed[d] /\ cache'[d] = cache[d]
          /\ lock' = lock /\ lock = c
        BY <1>a, <1>27 DEF CommitUnlink, LockHeld, TypeOK, disk
    <2>2. Outcomes' = Outcomes \cup {Now'}
        BY <1>27, ActionOutcomes
    <2>5. Now' = db
        BY <1>a, <1>27, ContentAssumption
           DEF CommitUnlink, WriteJournal, StepKnows, SettledDb, Recovered, Current, Now,
               Value
    <2>3. CallShape(c)'
        BY <1>a, <1>b, <2>1, <1>27, ContentAssumption DEF CommitUnlink, CallShape, TypeOK
    <2>4. OutcomeKnows(c)'
        BY <1>a, <1>b, <2>1, <2>2, <2>5, <1>27, RecoveredNow
           DEF CommitUnlink, OutcomeKnows, CallShape, StepKnows, Undecided, TypeOK,
               WriteJournal
    <2> QED BY <2>1, <2>3, <2>4, OthersStore
<1>28. ASSUME NEW c \in Conns, CommitSyncUnlink(c) PROVE StoreInv'
    BY <1>a, <1>28, EndStore DEF CommitSyncUnlink, LockHeld
<1>29. ASSUME NEW c \in Conns, StartFault(c) PROVE StoreInv'
    <2>1. lock = c /\ UNCHANGED disk
        BY <1>a, <1>29 DEF StartFault, LockHeld, Raise
    <2>2. CASE Finish(c, "error", TRUE, cache[c])
        BY <2>1, <2>2, EndStore
    <2>3. CASE /\ task[c] = "start" /\ Goto(c, "recover")
               /\ task' = [task EXCEPT ![c] = "undo"]
               /\ UNCHANGED <<failed, cache, lock>>
        <3>1. CallShape(c)'
            BY <1>a, <1>b, <2>1, <2>3, <1>29 DEF StartFault, CallShape, TypeOK
        <3>2. OutcomeKnows(c)'
            BY <1>a, <2>3 DEF OutcomeKnows, TypeOK
        <3>3. \A d \in Conns \ {c} : /\ pc'[d] = pc[d] /\ task'[d] = task[d]
                                     /\ failed'[d] = failed[d] /\ cache'[d] = cache[d]
            BY <1>a, <2>3 DEF TypeOK
        <3> QED BY <2>1, <2>3, <3>1, <3>2, <3>3, OthersStore
    <2> QED BY <2>2, <2>3, <1>29 DEF StartFault, Raise
<1>30. ASSUME NEW c \in Conns, FlushFault(c) PROVE StoreInv'
    <2>1. /\ \A d \in Conns \ {c} : /\ pc'[d] = pc[d] /\ task'[d] = task[d]
                                    /\ failed'[d] = failed[d] /\ cache'[d] = cache[d]
          /\ lock' = lock /\ UNCHANGED disk
        BY <1>a, <1>30 DEF FlushFault, LockHeld, TypeOK, disk
    <2>2. Outcomes' = Outcomes /\ Now' = Now
        BY <2>1, QuietOutcomes
    <2>3. CallShape(c)'
        BY <1>a, <1>b, <1>30, ContentAssumption DEF FlushFault, CallShape, TypeOK, LockHeld
    <2>4. OutcomeKnows(c)'
        BY <1>a, <1>b, <2>2, <1>30
           DEF FlushFault, OutcomeKnows, StepKnows, CallShape, TypeOK, disk
    <2> QED BY <2>1, <2>3, <2>4, OthersStore
<1>31. ASSUME NEW c \in Conns, MarkFault(c) PROVE StoreInv'
    BY <1>a, <1>31, EndStore DEF MarkFault, LockHeld
<1>32. ASSUME NEW c \in Conns, CleanFault(c) PROVE StoreInv'
    BY <1>a, <1>32, EndStore DEF CleanFault, LockHeld
<1>33. ASSUME NEW c \in Conns, Crash(c) PROVE StoreInv'
    <2>1. /\ UNCHANGED disk /\ pc'[c] = "none" /\ failed'[c] = FALSE
          /\ lock' # c /\ (lock' = lock \/ (lock = c /\ lock' = Nobody))
          /\ \A d \in Conns \ {c} : /\ pc'[d] = pc[d] /\ task'[d] = task[d]
                                     /\ failed'[d] = failed[d] /\ cache'[d] = cache[d]
        BY <1>a, <1>33, ContentAssumption DEF Crash, TypeOK
    <2>2. CallShape(c)' /\ OutcomeKnows(c)'
        BY <2>1 DEF CallShape, OutcomeKnows
    <2> QED BY <2>1, <2>2, OthersStore
<1>34. CASE PowerLoss
    BY <1>34, ContentAssumption DEF PowerLoss, StoreInv, CallShape, OutcomeKnows
<1>35. CASE UNCHANGED vars
    <2>1. UNCHANGED disk /\ UNCHANGED <<pc, task, failed, cache, lock>>
        BY <1>35 DEF vars, disk
    <2> QED BY <1>b, <2>1, QuietOutcomes
           DEF StoreInv, CallShape, OutcomeKnows, disk, Undecided
<1> HIDE DEF Steps, Resting, RecoverSteps, BeginSteps, LoadSteps, CommitSteps, MarkSteps,
            CleanSteps, Guarded, Goto, Continue, ToRollback
<1> QED
    BY <1>1, <1>2, <1>3, <1>4, <1>5, <1>6, <1>7, <1>8, <1>9, <1>10, <1>11,
       <1>12, <1>13, <1>14, <1>15, <1>16, <1>17, <1>18, <1>19, <1>20, <1>21,
       <1>22, <1>23, <1>24, <1>25, <1>26, <1>27, <1>28, <1>29, <1>30, <1>31,
       <1>32, <1>33, <1>34, <1>35
       DEF Next, Progress, Request, Environment

\* The abstract state, as the INSTANCE of AtomicStore maps it.
View(c) == IF Phase(c) \in {"open", "prepared"} THEN cache[c] ELSE 0
PhaseMap == [c \in Conns |-> Phase(c)]
ViewMap == [c \in Conns |-> View(c)]
AbstractStep == [Store!ANext]_(Store!avars)

\* Only the lock holder has an abstract transaction, so a step of c moves the
\* abstract state of c alone.
LEMMA OthersIdle ==
    ASSUME NEW c \in Conns, lock \in {c, Nobody}, lock' \in {c, Nobody}
    PROVE  /\ PhaseMap' = [PhaseMap EXCEPT ![c] = Phase(c)']
           /\ ViewMap' = [ViewMap EXCEPT ![c] = View(c)']
           /\ \A d \in Conns \ {c} : Phase(d) = "idle"
<1>1. ASSUME NEW d \in Conns \ {c}
      PROVE  Phase(d) = "idle" /\ Phase(d)' = "idle" /\ View(d) = 0 /\ View(d)' = 0
    BY ContentAssumption DEF Phase, View
<1> QED BY <1>1 DEF PhaseMap, ViewMap

\* A step that leaves phase, view, outcomes and answer of every connection alone.
LEMMA Stutters ==
    ASSUME NEW c \in Conns,
           \/ lock \in {c, Nobody} /\ lock' \in {c, Nobody}
           \/ lock' = lock /\ \A d \in Conns \ {c} : /\ pc'[d] = pc[d] /\ task'[d] = task[d]
                                                    /\ failed'[d] = failed[d] /\ cache'[d] = cache[d],
           Phase(c)' = Phase(c), View(c)' = View(c), Outcomes' = Outcomes, result' = result
    PROVE  AbstractStep
<1>1. ASSUME NEW d \in Conns PROVE Phase(d)' = Phase(d) /\ View(d)' = View(d)
    <2>1. CASE d = c
        BY <2>1
    <2>2. CASE d # c /\ lock \in {c, Nobody} /\ lock' \in {c, Nobody}
        BY <2>2, ContentAssumption DEF Phase, View
    <2>3. CASE /\ d # c /\ lock' = lock
               /\ pc'[d] = pc[d] /\ task'[d] = task[d]
               /\ failed'[d] = failed[d] /\ cache'[d] = cache[d]
        BY <2>3 DEF Phase, View
    <2> QED BY <2>1, <2>2, <2>3
<1>2. PhaseMap' = PhaseMap /\ ViewMap' = ViewMap
    BY <1>1 DEF PhaseMap, ViewMap
<1> QED BY <1>2 DEF AbstractStep, Store!avars, PhaseMap, ViewMap, View, Outcomes

\* The doubt narrows and nothing else happens.
LEMMA Settles ==
    ASSUME NEW c \in Conns, lock \in {c, Nobody}, lock' \in {c, Nobody},
           Phase(c)' = Phase(c), View(c)' = View(c), result' = result,
           NEW v \in Outcomes, Outcomes' = {v}
    PROVE  AbstractStep
<1>1. PhaseMap' = PhaseMap /\ ViewMap' = ViewMap
    BY OthersIdle DEF PhaseMap, ViewMap
<1>2. Store!Settle
    BY <1>1 DEF Store!Settle, PhaseMap, ViewMap, View, Outcomes
<1> QED BY <1>2 DEF AbstractStep, Store!ANext

\* A call that ends while it holds the lock: its abstract transaction ends too.
LEMMA EndsStore ==
    ASSUME TypeOK, NEW c \in Conns, lock = c, NEW r, NEW b, NEW k, Finish(c, r, b, k)
    PROVE  Store!End(c, r)
<1>1. lock' = Nobody /\ result' = [result EXCEPT ![c] = r]
    BY DEF Finish
<1>2. Phase(c)' = "idle" /\ View(c)' = 0
    BY <1>1, ContentAssumption DEF Phase, View
<1>3. PhaseMap' = [PhaseMap EXCEPT ![c] = "idle"] /\ ViewMap' = [ViewMap EXCEPT ![c] = 0]
    BY <1>1, <1>2, OthersIdle
<1> QED BY <1>1, <1>3 DEF Store!End, PhaseMap, ViewMap, View

\* "error" ends an abstract transaction that aborts, or refuses one that never
\* began; what was in doubt may have been settled on the way.
LEMMA ErrorEnds ==
    ASSUME TypeOK, NEW c \in Conns, lock = c, NEW b, NEW k, Finish(c, "error", b, k),
           \/ Phase(c) = "aborting" /\ Outcomes' = Outcomes
           \/ Phase(c) = "idle" /\ Outcomes' # {} /\ Outcomes' \subseteq Outcomes
    PROVE  AbstractStep
<1>1. Store!End(c, "error")
    BY EndsStore
<1>2. CASE Phase(c) = "aborting" /\ Outcomes' = Outcomes
    <2>1. Store!Abort(c)
        BY <1>1, <1>2 DEF Store!Abort, Outcomes
    <2> QED BY <2>1 DEF AbstractStep, Store!ANext
<1>3. CASE Phase(c) = "idle" /\ Outcomes' # {} /\ Outcomes' \subseteq Outcomes
    <2>1. lock' = Nobody /\ result' = [result EXCEPT ![c] = "error"]
        BY DEF Finish
    <2>2. Phase(c)' = "idle" /\ View(c)' = 0 /\ View(c) = 0
        BY <1>3, <2>1, ContentAssumption DEF Phase, View
    <2>3. PhaseMap' = PhaseMap /\ ViewMap' = ViewMap
        BY <1>3, <2>1, <2>2, OthersIdle DEF PhaseMap, ViewMap
    <2>4. Store!Refuse(c)
        BY <1>3, <2>1, <2>3 DEF Store!Refuse, PhaseMap, ViewMap, View, Outcomes
    <2> QED BY <2>4 DEF AbstractStep, Store!ANext
<1> QED BY <1>2, <1>3

\* From an error on, an open transaction can only end without effect.
LEMMA GivesUp ==
    ASSUME NEW c \in Conns, lock = c, lock' = c, Phase(c) = "open", Phase(c)' = "aborting",
           Outcomes' = Outcomes, result' = result
    PROVE  AbstractStep
<1>1. PhaseMap' = [PhaseMap EXCEPT ![c] = "aborting"] /\ ViewMap' = [ViewMap EXCEPT ![c] = 0]
    BY OthersIdle DEF View
<1>2. Store!GiveUp(c)
    BY <1>1 DEF Store!GiveUp, PhaseMap, ViewMap, View, Outcomes
<1> QED BY <1>2 DEF AbstractStep, Store!ANext

\* Every step of the transaction layer is a step of AtomicStore, or leaves it alone.
LEMMA Simulates ==
    ASSUME OrderedExisting, ControlInv, DiskInv, StoreInv, [Next]_vars
    PROVE  AbstractStep
<1> USE
       DEF Steps, Resting, RecoverSteps, BeginSteps, LoadSteps, CommitSteps, MarkSteps,
            CleanSteps, Goto, Continue, ToRollback
<1>a. TypeOK /\ LockHeld /\ DiskShape /\ \A c \in Conns : StepKnows(c)
    BY DEF ControlInv, DiskInv
<1>b. \A c \in Conns : CallShape(c) /\ OutcomeKnows(c)
    BY DEF StoreInv
<1>c. Now \in Outcomes /\ (Undecided => Now = journal.before) /\ (~Undecided => Now = db)
    BY <1>a, RecoveredNow
<1>1. ASSUME NEW c \in Conns, NEW k \in Kinds, StartCall(c, k) PROVE AbstractStep
    <2>1. /\ \A d \in Conns \ {c} : /\ pc'[d] = pc[d] /\ task'[d] = task[d]
                                    /\ failed'[d] = failed[d] /\ cache'[d] = cache[d]
          /\ lock' = lock /\ result' = result /\ UNCHANGED disk
        BY <1>a, <1>1 DEF StartCall, TypeOK, disk
    <2>2. Phase(c)' = Phase(c) /\ View(c)' = View(c)
        BY <1>a, <1>b, <1>1, ContentAssumption
           DEF StartCall, Phase, View, CallShape, LockHeld, TypeOK
    <2> QED BY <2>1, <2>2, QuietOutcomes, Stutters
<1>2. ASSUME NEW c \in Conns, CloseIdle(c) PROVE AbstractStep
    <2>1. /\ \A d \in Conns \ {c} : /\ pc'[d] = pc[d] /\ task'[d] = task[d]
                                    /\ failed'[d] = failed[d] /\ cache'[d] = cache[d]
          /\ lock' = lock /\ result' = result /\ UNCHANGED disk
        BY <1>a, <1>2 DEF CloseIdle, TypeOK, disk
    <2>2. Phase(c)' = Phase(c) /\ View(c)' = View(c)
        BY <1>a, <1>b, <1>2, ContentAssumption
           DEF CloseIdle, Phase, View, CallShape, LockHeld, TypeOK
    <2> QED BY <2>1, <2>2, QuietOutcomes, Stutters
<1>3. ASSUME NEW c \in Conns, Acquire(c) PROVE AbstractStep
    <2>1. /\ lock = Nobody /\ lock' = c /\ UNCHANGED disk /\ result' = result
          /\ task'[c] = "start" /\ pc'[c] = "recover" /\ failed'[c] = FALSE
        BY <1>a, <1>b, <1>3, ContentAssumption DEF Acquire, CallShape, TypeOK
    <2>2. Phase(c)' = Phase(c) /\ View(c)' = View(c)
        BY <2>1, ContentAssumption DEF Phase, View
    <2> QED BY <2>1, <2>2, QuietOutcomes, Stutters
<1>4. ASSUME NEW c \in Conns, Busy(c) PROVE AbstractStep
    <2>1. /\ lock # c /\ lock' = lock /\ UNCHANGED disk /\ result' = [result EXCEPT ![c] = "busy"]
          /\ \A d \in Conns \ {c} : /\ pc'[d] = pc[d] /\ task'[d] = task[d]
                                    /\ failed'[d] = failed[d] /\ cache'[d] = cache[d]
        BY <1>a, <1>4 DEF Busy, TypeOK, disk
    <2>2. ASSUME NEW d \in Conns PROVE Phase(d)' = Phase(d) /\ View(d)' = View(d)
        BY <2>1 DEF Phase, View
    <2>3. PhaseMap' = PhaseMap /\ ViewMap' = ViewMap /\ Phase(c) = "idle"
        BY <2>1, <2>2 DEF PhaseMap, ViewMap, Phase
    <2>4. Outcomes' = Outcomes /\ Outcomes # {}
        BY <1>c, <2>1, QuietOutcomes
    <2>5. Store!Refuse(c)
        BY <2>1, <2>3, <2>4 DEF Store!Refuse, PhaseMap, ViewMap, View, Outcomes
    <2> QED BY <2>5 DEF AbstractStep, Store!ANext
<1>5. ASSUME NEW c \in Conns, Recover(c) PROVE AbstractStep
    <2>1. lock = c /\ UNCHANGED disk /\ Outcomes' = Outcomes /\ Outcomes # {}
        BY <1>a, <1>c, <1>5, QuietOutcomes DEF Recover, LockHeld
    <2>2. CASE task[c] # "start" /\ Finish(c, "error", TRUE, cache[c])
        <3>1. Phase(c) \in {"aborting", "idle"}
            BY <1>a, <2>1, <2>2 DEF Phase, TypeOK, Tasks
        <3> QED BY <1>a, <2>1, <2>2, <3>1, ErrorEnds
    <2>3. CASE \E s \in {"journal", "truncate", "unlink"} : Continue(c, s)
        <3>1. lock' = lock /\ result' = result /\ Phase(c)' = Phase(c) /\ View(c)' = View(c)
            BY <1>a, <2>1, <2>3, <1>5 DEF Recover, Phase, View, TypeOK
        <3> QED BY <2>1, <3>1, Stutters
    <2> QED BY <1>a, <2>2, <2>3, <1>5 DEF Recover, TypeOK
<1>6. ASSUME NEW c \in Conns, Truncate(c) PROVE AbstractStep
    <2>1. lock = c /\ lock' = c /\ result' = result /\ Phase(c)' = Phase(c) /\ View(c)' = View(c)
        BY <1>a, <1>6 DEF Truncate, LockHeld, Phase, View, TypeOK
    <2> QED BY <2>1, <1>6, ActionOutcomes, Stutters
<1>7. ASSUME NEW c \in Conns, Rewrite(c) PROVE AbstractStep
    <2>1. lock = c /\ lock' = c /\ result' = result /\ Phase(c)' = Phase(c) /\ View(c)' = View(c)
        BY <1>a, <1>7 DEF Rewrite, LockHeld, Phase, View, TypeOK
    <2> QED BY <2>1, <1>7, ActionOutcomes, Stutters
<1>8. ASSUME NEW c \in Conns, SyncRestored(c) PROVE AbstractStep
    <2>1. lock = c /\ lock' = c /\ result' = result /\ Phase(c)' = Phase(c) /\ View(c)' = View(c)
        BY <1>a, <1>8 DEF SyncRestored, LockHeld, Phase, View, TypeOK
    <2> QED BY <1>c, <2>1, <1>8, ActionOutcomes, Settles
<1>9. ASSUME NEW c \in Conns, Unlink(c) PROVE AbstractStep
    <2>1. lock = c /\ lock' = c /\ result' = result /\ Phase(c)' = Phase(c) /\ View(c)' = View(c)
        BY <1>a, <1>9 DEF Unlink, LockHeld, Phase, View, TypeOK
    <2>2. Now' \in Outcomes
        BY <1>a, <1>b, <1>c, <1>9, ContentAssumption
           DEF Unlink, WriteJournal, OutcomeKnows, StepKnows, SettledDb, Recovered,
               Current, Now, Value
    <2>3. Outcomes' = Outcomes
        BY <2>2, <1>9, ActionOutcomes
    <2> QED BY <2>1, <2>3, Stutters
<1>10. ASSUME NEW c \in Conns, SyncUnlink(c) PROVE AbstractStep
    <2>1. lock = c /\ Outcomes' = {Now}
        BY <1>a, <1>10, ActionOutcomes DEF SyncUnlink, LockHeld
    <2>2. CASE task[c] = "undo"
        <3>1. Phase(c) = "idle"
            BY <2>2 DEF Phase
        <3> QED BY <1>a, <1>c, <2>1, <2>2, <3>1, <1>10, ErrorEnds DEF SyncUnlink
    <2>3. CASE task[c] # "undo"
        <3>1. Continue(c, IF task[c] = "start" THEN "journal" ELSE "load")
            BY <1>a, <2>3, <1>10 DEF SyncUnlink, TypeOK, Tasks
        <3>2. lock' = c /\ result' = result /\ Phase(c)' = Phase(c) /\ View(c)' = View(c)
            BY <1>a, <2>1, <2>3, <3>1, <1>10 DEF SyncUnlink, Phase, View, TypeOK
        <3> QED BY <1>c, <2>1, <3>2, Settles
    <2> QED BY <2>2, <2>3
<1>11. ASSUME NEW c \in Conns, PublishJournal(c) PROVE AbstractStep
    <2>1. lock = c /\ lock' = c /\ result' = result /\ Phase(c)' = Phase(c) /\ View(c)' = View(c)
        BY <1>a, <1>11 DEF PublishJournal, LockHeld, Phase, View, TypeOK
    <2>2. Now' \in Outcomes
        BY <1>a, <1>b, <1>c, <1>11, ContentAssumption
           DEF PublishJournal, WriteJournal, Undecided, DiskShape, SettledDb, Recovered,
               Current, Now, Value
    <2>3. Outcomes' = Outcomes
        BY <2>2, <1>11, ActionOutcomes
    <2> QED BY <2>1, <2>3, Stutters
<1>12. ASSUME NEW c \in Conns, SyncPublished(c) PROVE AbstractStep
    <2>1. lock = c /\ lock' = c /\ result' = result /\ Phase(c)' = Phase(c) /\ View(c)' = View(c)
        BY <1>a, <1>12 DEF SyncPublished, LockHeld, Phase, View, TypeOK
    <2> QED BY <1>c, <2>1, <1>12, ActionOutcomes, Settles
<1>13. ASSUME NEW c \in Conns, Load(c) PROVE AbstractStep
    <2>1. lock = c /\ UNCHANGED disk /\ Outcomes' = Outcomes
        BY <1>a, <1>13, QuietOutcomes DEF Load, LockHeld, Raise, disk
    <2>2. CASE task[c] = "rollback"
        <3>1. Phase(c) = "aborting"
            BY <2>1, <2>2 DEF Phase
        <3>2. CASE db = Torn
            <4>1. Finish(c, "error", TRUE, cache[c])
                BY <2>2, <3>2, <1>13 DEF Load, Raise
            <4> QED BY <1>a, <2>1, <3>1, <4>1, ErrorEnds
        <3>3. CASE db # Torn
            <4>1. Store!End(c, "aborted")
                BY <1>a, <2>1, <2>2, <3>3, <1>13, EndsStore DEF Load
            <4>2. Store!Abort(c)
                BY <2>1, <3>1, <4>1 DEF Store!Abort, Outcomes
            <4> QED BY <4>2 DEF AbstractStep, Store!ANext
        <3> QED BY <3>2, <3>3
    <2>3. CASE task[c] # "rollback"
        <3>1. task[c] = "start" /\ db = journal.before /\ Outcomes = {db} /\ Undecided
            BY <1>a, <1>b, <2>3, <1>13
               DEF Load, OutcomeKnows, CallShape, StepKnows, TypeOK, Tasks
        <3>2. db # Torn
            BY <1>a, <3>1, ContentAssumption DEF DiskShape, Undecided, Current, Value
        <3>3. /\ cache' = [cache EXCEPT ![c] = db] /\ Goto(c, "txn")
              /\ UNCHANGED <<task, failed, lock, result>>
            BY <2>3, <3>2, <1>13 DEF Load
        <3>4. ~failed[c]
            BY <1>b, <3>1, <1>13 DEF Load, CallShape
        <3>5. Phase(c) = "idle" /\ Phase(c)' = "open" /\ View(c)' = db
            BY <1>a, <2>1, <3>1, <3>3, <3>4, <1>13 DEF Load, Phase, View, TypeOK
        <3>6. /\ PhaseMap' = [PhaseMap EXCEPT ![c] = "open"]
              /\ ViewMap' = [ViewMap EXCEPT ![c] = db]
              /\ \A d \in Conns : Phase(d) = "idle"
            BY <2>1, <3>3, <3>5, OthersIdle
        <3>7. Store!Begin(c)
            BY <2>1, <3>1, <3>3, <3>6 DEF Store!Begin, PhaseMap, ViewMap, View, Outcomes
        <3> QED BY <3>7 DEF AbstractStep, Store!ANext
    <2> QED BY <2>2, <2>3
<1>14. ASSUME NEW c \in Conns, LoadEmpty(c) PROVE AbstractStep
    BY <1>a, <1>14 DEF LoadEmpty, DiskShape, Current
<1>15. ASSUME NEW c \in Conns, BootstrapPages(c) PROVE AbstractStep
    BY <1>a, <1>15 DEF BootstrapPages, StepKnows
<1>16. ASSUME NEW c \in Conns, BootstrapCatalog(c) PROVE AbstractStep
    BY <1>a, <1>16 DEF BootstrapCatalog, StepKnows
<1>17. ASSUME NEW c \in Conns, NEW w \in 0..1, Execute(c, w) PROVE AbstractStep
    <2>1. /\ lock = c /\ lock' = c /\ UNCHANGED disk /\ result' = result
          /\ Phase(c) = "open" /\ Phase(c)' = "open" /\ View(c)' = View(c) + w
        BY <1>a, <1>b, <1>17 DEF Execute, LockHeld, CallShape, Phase, View, TypeOK
    <2>2. Outcomes' = Outcomes
        BY <2>1, QuietOutcomes
    <2>3. CASE w = 0
        <3>1. View(c)' = View(c)
            BY <1>a, <2>1, <2>3, BoundsAssumption DEF View, TypeOK, Value
        <3> QED BY <2>1, <2>2, <3>1, Stutters
    <2>4. CASE w = 1
        <3>1. PhaseMap' = PhaseMap /\ ViewMap' = [ViewMap EXCEPT ![c] = View(c) + 1]
            BY <2>1, <2>4, OthersIdle DEF PhaseMap
        <3>2. Store!Write(c)
            BY <2>1, <2>2, <3>1 DEF Store!Write, PhaseMap, ViewMap, View, Outcomes
        <3> QED BY <3>2 DEF AbstractStep, Store!ANext
    <2> QED BY <2>3, <2>4
<1>18. ASSUME NEW c \in Conns, NEW w \in 0..1, StatementFails(c, w) PROVE AbstractStep
    <2>1. /\ lock = c /\ lock' = c /\ UNCHANGED disk /\ result' = result
          /\ Phase(c) = "open" /\ Phase(c)' = "aborting"
        BY <1>a, <1>b, <1>18 DEF StatementFails, LockHeld, CallShape, Phase, TypeOK
    <2> QED BY <2>1, QuietOutcomes, GivesUp
<1>19. ASSUME NEW c \in Conns, WriteBack(c) PROVE AbstractStep
    <2>1. lock = c /\ lock' = c /\ result' = result /\ Phase(c)' = Phase(c) /\ View(c)' = View(c)
        BY <1>a, <1>19 DEF WriteBack, LockHeld, Phase, View, TypeOK
    <2> QED BY <2>1, <1>19, ActionOutcomes, Stutters
<1>20. ASSUME NEW c \in Conns, CommitCall(c) PROVE AbstractStep
    <2>1. /\ \A d \in Conns \ {c} : /\ pc'[d] = pc[d] /\ task'[d] = task[d]
                                    /\ failed'[d] = failed[d] /\ cache'[d] = cache[d]
          /\ lock' = lock /\ result' = result /\ UNCHANGED disk
        BY <1>a, <1>20 DEF CommitCall, TypeOK, disk
    <2>2. Phase(c)' = Phase(c) /\ View(c)' = View(c)
        BY <1>a, <1>b, <1>20, ContentAssumption
           DEF CommitCall, Phase, View, CallShape, LockHeld, TypeOK
    <2> QED BY <2>1, <2>2, QuietOutcomes, Stutters
<1>21. ASSUME NEW c \in Conns, NEW k \in Kinds, RollbackCall(c, k) PROVE AbstractStep
    <2>1. lock = c /\ lock' = c /\ UNCHANGED disk /\ result' = result /\ Phase(c)' = "aborting"
        BY <1>a, <1>21 DEF RollbackCall, LockHeld, Phase, TypeOK
    <2>2. CASE failed[c]
        <3>1. Phase(c) = "aborting" /\ View(c)' = View(c)
            BY <1>a, <1>b, <2>1, <2>2, <1>21 DEF RollbackCall, CallShape, Phase, View
        <3> QED BY <2>1, <3>1, QuietOutcomes, Stutters
    <2>3. CASE ~failed[c]
        <3>1. Phase(c) = "open"
            BY <1>b, <2>1, <2>3, <1>21 DEF RollbackCall, CallShape, Phase
        <3> QED BY <2>1, <3>1, QuietOutcomes, GivesUp
    <2> QED BY <2>2, <2>3
<1>22. ASSUME NEW c \in Conns, Flush(c) PROVE AbstractStep
    <2>1. lock = c /\ lock' = c /\ result' = result /\ Phase(c)' = Phase(c) /\ View(c)' = View(c)
        BY <1>a, <1>22 DEF Flush, LockHeld, Phase, View, TypeOK
    <2> QED BY <2>1, <1>22, ActionOutcomes, Stutters
<1>23. ASSUME NEW c \in Conns, SyncData(c) PROVE AbstractStep
    <2>1. lock = c /\ lock' = c /\ result' = result /\ Phase(c)' = Phase(c) /\ View(c)' = View(c)
        BY <1>a, <1>23 DEF SyncData, LockHeld, Phase, View, TypeOK
    <2> QED BY <1>c, <2>1, <1>23, ActionOutcomes, Settles
<1>24. ASSUME NEW c \in Conns, MarkPrefix(c) PROVE AbstractStep
    <2>1. lock = c /\ lock' = c /\ result' = result /\ Phase(c)' = Phase(c) /\ View(c)' = View(c)
        BY <1>a, <1>24 DEF MarkPrefix, LockHeld, Phase, View, TypeOK
    <2>2. Now' \in Outcomes
        BY <1>a, <1>b, <1>c, <1>24, ContentAssumption
           DEF MarkPrefix, WriteJournal, OutcomeKnows, StepKnows, Guarded, Undecided,
               DiskShape, TypeOK,
               Journal, Recovered, Current, Now, Value
    <2>3. Outcomes' = Outcomes
        BY <2>2, <1>24, ActionOutcomes
    <2> QED BY <2>1, <2>3, Stutters
<1>25. ASSUME NEW c \in Conns, MarkCommitted(c) PROVE AbstractStep
    <2>1. /\ lock = c /\ lock' = c /\ result' = result
          /\ Phase(c) = "open" /\ Phase(c)' = "prepared"
          /\ View(c) = cache[c] /\ View(c)' = cache[c]
        BY <1>a, <1>b, <1>25 DEF MarkCommitted, LockHeld, CallShape, Phase, View, TypeOK
    <2>2. Now' = cache[c]
        BY <1>a, <1>b, <1>25, ContentAssumption
           DEF MarkCommitted, WriteJournal, OutcomeKnows, StepKnows, Undecided, SettledDb,
               TypeOK, Journal, Recovered, Current, Now, Value
    <2>3. Outcomes' = Outcomes \cup {View(c)}
        BY <2>1, <2>2, <1>25, ActionOutcomes
    <2>4. PhaseMap' = [PhaseMap EXCEPT ![c] = "prepared"] /\ ViewMap' = ViewMap
        BY <2>1, OthersIdle DEF ViewMap
    <2>5. Store!Prepare(c)
        BY <2>1, <2>3, <2>4 DEF Store!Prepare, PhaseMap, ViewMap, View, Outcomes
    <2> QED BY <2>5 DEF AbstractStep, Store!ANext
<1>26. ASSUME NEW c \in Conns, SyncMark(c) PROVE AbstractStep
    <2>1. lock = c /\ lock' = c /\ result' = result /\ Phase(c)' = Phase(c) /\ View(c)' = View(c)
        BY <1>a, <1>26 DEF SyncMark, LockHeld, Phase, View, TypeOK
    <2> QED BY <1>c, <2>1, <1>26, ActionOutcomes, Settles
<1>27. ASSUME NEW c \in Conns, CommitUnlink(c) PROVE AbstractStep
    <2>1. lock = c /\ lock' = c /\ result' = result /\ Phase(c)' = Phase(c) /\ View(c)' = View(c)
        BY <1>a, <1>27 DEF CommitUnlink, LockHeld, Phase, View, TypeOK
    <2>2. Now' \in Outcomes
        BY <1>a, <1>b, <1>c, <1>27, ContentAssumption
           DEF CommitUnlink, WriteJournal, OutcomeKnows, StepKnows, SettledDb, Recovered,
               Current, Now, Value
    <2>3. Outcomes' = Outcomes
        BY <2>2, <1>27, ActionOutcomes
    <2> QED BY <2>1, <2>3, Stutters
<1>28. ASSUME NEW c \in Conns, CommitSyncUnlink(c) PROVE AbstractStep
    <2>1. lock = c /\ Finish(c, "committed", FALSE, cache[c])
        BY <1>a, <1>28 DEF CommitSyncUnlink, LockHeld
    <2>2. Outcomes = {cache[c]} /\ Phase(c) = "prepared" /\ View(c) = cache[c]
        BY <1>b, <2>1, <1>28 DEF CommitSyncUnlink, OutcomeKnows, CallShape, Phase, View
    <2>3. Outcomes' = Outcomes
        BY <1>c, <2>2, <1>28, ActionOutcomes DEF CommitSyncUnlink
    <2>4. Store!End(c, "committed")
        BY <1>a, <2>1, EndsStore
    <2>5. Store!Commit(c)
        BY <2>2, <2>3, <2>4 DEF Store!Commit, View, Outcomes
    <2> QED BY <2>5 DEF AbstractStep, Store!ANext
<1>29. ASSUME NEW c \in Conns, StartFault(c) PROVE AbstractStep
    <2>1. lock = c /\ UNCHANGED disk /\ Outcomes' = Outcomes /\ Outcomes # {}
        BY <1>a, <1>c, <1>29, QuietOutcomes DEF StartFault, LockHeld, Raise
    <2>2. CASE task[c] # "start"
        <3>1. Phase(c) \in {"aborting", "idle"}
            BY <1>a, <2>1, <2>2 DEF Phase, TypeOK, Tasks
        <3> QED BY <1>a, <2>1, <2>2, <3>1, <1>29, ErrorEnds DEF StartFault, Raise
    <2>3. CASE task[c] = "start"
        <3>1. lock' = lock /\ result' = result /\ task'[c] = "undo"
            BY <1>a, <2>3, <1>29 DEF StartFault, Raise, TypeOK
        <3>2. ~failed[c]
            BY <1>b, <2>3, <1>29 DEF StartFault, CallShape
        <3>3. Phase(c) = "idle" /\ Phase(c)' = "idle" /\ View(c)' = View(c)
            BY <2>3, <3>1, <3>2, <1>29 DEF StartFault, Phase, View
        <3> QED BY <2>1, <3>1, <3>3, Stutters
    <2> QED BY <2>2, <2>3
<1>30. ASSUME NEW c \in Conns, FlushFault(c) PROVE AbstractStep
    <2>1. /\ lock = c /\ lock' = c /\ UNCHANGED disk /\ result' = result
          /\ Phase(c) = "open" /\ Phase(c)' = "aborting"
        BY <1>a, <1>b, <1>30 DEF FlushFault, LockHeld, CallShape, Phase, TypeOK
    <2> QED BY <2>1, QuietOutcomes, GivesUp
<1>31. ASSUME NEW c \in Conns, MarkFault(c) PROVE AbstractStep
    <2>1. lock = c /\ UNCHANGED disk /\ Finish(c, "uncertain", TRUE, cache[c])
        BY <1>a, <1>31 DEF MarkFault, LockHeld
    <2>2. Phase(c) \in {"open", "prepared"}
        BY <1>b, <2>1, <1>31 DEF MarkFault, CallShape, Phase
    <2>3. Store!End(c, "uncertain") /\ Outcomes' = Outcomes
        BY <1>a, <2>1, EndsStore, QuietOutcomes
    <2>4. Store!Doubt(c)
        BY <2>2, <2>3 DEF Store!Doubt, Outcomes
    <2> QED BY <2>4 DEF AbstractStep, Store!ANext
<1>32. ASSUME NEW c \in Conns, CleanFault(c) PROVE AbstractStep
    <2>1. lock = c /\ Finish(c, "committed", FALSE, cache[c])
        BY <1>a, <1>32 DEF CleanFault, LockHeld
    <2>2. Outcomes = {cache[c]} /\ Phase(c) = "prepared" /\ View(c) = cache[c]
        BY <1>b, <2>1, <1>32 DEF CleanFault, OutcomeKnows, CallShape, Phase, View
    <2>3. Outcomes' = Outcomes
        BY <1>c, <2>2, <1>32, QuietOutcomes DEF CleanFault
    <2>4. Store!End(c, "committed")
        BY <1>a, <2>1, EndsStore
    <2>5. Store!Commit(c)
        BY <2>2, <2>3, <2>4 DEF Store!Commit, View, Outcomes
    <2> QED BY <2>5 DEF AbstractStep, Store!ANext
<1>33. ASSUME NEW c \in Conns, Crash(c) PROVE AbstractStep
    <2>1. /\ UNCHANGED disk /\ lock' # c /\ result' = [result EXCEPT ![c] = "unknown"]
          /\ lock' = lock \/ (lock = c /\ lock' = Nobody)
          /\ \A d \in Conns \ {c} : /\ pc'[d] = pc[d] /\ task'[d] = task[d]
                                    /\ failed'[d] = failed[d] /\ cache'[d] = cache[d]
        BY <1>a, <1>33, ContentAssumption DEF Crash, TypeOK
    <2>2. ASSUME NEW d \in Conns \ {c} PROVE Phase(d)' = Phase(d) /\ View(d)' = View(d)
        BY <2>1, ContentAssumption DEF Phase, View
    <2>3. Phase(c)' = "idle" /\ View(c)' = 0
        BY <2>1 DEF Phase, View
    <2>4. PhaseMap' = [PhaseMap EXCEPT ![c] = "idle"] /\ ViewMap' = [ViewMap EXCEPT ![c] = 0]
        BY <2>2, <2>3 DEF PhaseMap, ViewMap
    <2>5. Store!Crash(c)
        BY <2>1, <2>4, QuietOutcomes
           DEF Store!Crash, Store!End, PhaseMap, ViewMap, View, Outcomes
    <2> QED BY <2>5 DEF AbstractStep, Store!ANext
<1>34. CASE PowerLoss
    <2>1. /\ result' = [c \in Conns |-> "unknown"] /\ lock' = Nobody
          /\ \E i \in survive : survive' = {i}
        BY <1>34 DEF PowerLoss
    <2>2. \E v \in Outcomes : Outcomes' = {v}
        <3>1. PICK i \in survive : survive' = {i}
            BY <2>1
        <3>2. Outcomes' = {Recovered(j) : j \in survive'}
            BY DEF Outcomes, Recovered
        <3> QED BY <3>1, <3>2 DEF Outcomes
    <2>3. ASSUME NEW c \in Conns PROVE Phase(c)' = "idle" /\ View(c)' = 0
        BY <2>1, ContentAssumption DEF Phase, View
    <2>4. PhaseMap' = [c \in Conns |-> "idle"] /\ ViewMap' = [c \in Conns |-> 0]
        BY <2>3 DEF PhaseMap, ViewMap
    <2>5. Store!PowerLoss
        BY <2>1, <2>2, <2>4 DEF Store!PowerLoss, PhaseMap, ViewMap, View, Outcomes
    <2> QED BY <2>5 DEF AbstractStep, Store!ANext
<1>35. CASE UNCHANGED vars
    <2>1. UNCHANGED <<pc, task, failed, cache, lock, survive, result>>
        BY <1>35 DEF vars
    <2>2. PhaseMap' = PhaseMap /\ ViewMap' = ViewMap /\ Outcomes' = Outcomes
        BY <2>1 DEF PhaseMap, ViewMap, Phase, View, Outcomes, Recovered
    <2> QED BY <2>1, <2>2 DEF AbstractStep, Store!avars, PhaseMap, ViewMap, View, Outcomes
<1> HIDE DEF Steps, Resting, RecoverSteps, BeginSteps, LoadSteps, CommitSteps, MarkSteps,
            CleanSteps, Goto, Continue, ToRollback
<1> QED
    BY <1>1, <1>2, <1>3, <1>4, <1>5, <1>6, <1>7, <1>8, <1>9, <1>10, <1>11,
       <1>12, <1>13, <1>14, <1>15, <1>16, <1>17, <1>18, <1>19, <1>20, <1>21,
       <1>22, <1>23, <1>24, <1>25, <1>26, <1>27, <1>28, <1>29, <1>30, <1>31,
       <1>32, <1>33, <1>34, <1>35
       DEF Next, Progress, Request, Environment

-----------------------------------------------------------------------------
\* A bound from below on what recovery may still produce, and on what the
\* transaction under way would commit.
Floor(b) ==
    /\ \A v \in Outcomes : b <= v
    /\ \A c \in Conns : Phase(c) = "open" => b <= View(c)

\* Transactions only add, so no step of the abstract store breaks such a bound.
LEMMA FloorKept ==
    ASSUME TypeOK, NEW b \in Nat, Floor(b), AbstractStep
    PROVE  Floor(b)'
<1> DEFINE Low(o, p, w) == /\ \A v \in o : b <= v
                           /\ \A c \in Conns : p[c] = "open" => b <= w[c]
<1>1. PICK o, p, w, o1, p1, w1 :
          /\ o = Outcomes /\ p = PhaseMap /\ w = ViewMap
          /\ o1 = Outcomes' /\ p1 = PhaseMap' /\ w1 = ViewMap'
    OBVIOUS
<1>2. /\ \A c \in Conns : p[c] = Phase(c) /\ w[c] = View(c) /\ w[c] \in Nat
      /\ \A c \in Conns : p1[c] = Phase(c)' /\ w1[c] = View(c)'
      /\ DOMAIN p = Conns /\ DOMAIN w = Conns
    BY <1>1 DEF PhaseMap, ViewMap, TypeOK, View, Value
<1>3. Low(o, p, w) /\ (Low(o1, p1, w1) => Floor(b)')
    BY <1>1, <1>2 DEF Floor
<1>4. /\ o = {Recovered(i) : i \in survive} /\ o1 = {Recovered(i) : i \in survive}'
      /\ p = [c \in Conns |-> Phase(c)] /\ p1 = [c \in Conns |-> Phase(c)]'
      /\ w = [c \in Conns |-> IF Phase(c) \in {"open", "prepared"} THEN cache[c] ELSE 0]
      /\ w1 = [c \in Conns |-> IF Phase(c) \in {"open", "prepared"} THEN cache[c] ELSE 0]'
    BY <1>1 DEF Outcomes, PhaseMap, ViewMap, View
<1>5. ASSUME NEW c \in Conns,
             p1 = [p EXCEPT ![c] = "idle"], w1 = [w EXCEPT ![c] = 0], o1 = o
      PROVE  Low(o1, p1, w1)
    BY <1>2, <1>3, <1>5
<1>6. CASE \E c \in Conns : Store!Begin(c)
    <2>1. PICK c \in Conns, v \in o : p1 = [p EXCEPT ![c] = "open"] /\ w1 = [w EXCEPT ![c] = v] /\ o1 = o
        BY <1>4, <1>6 DEF Store!Begin
    <2> QED BY <1>2, <1>3, <2>1
<1>7. CASE \E c \in Conns : Store!Write(c)
    <2>1. PICK c \in Conns : /\ p[c] = "open" /\ p1 = p /\ w1 = [w EXCEPT ![c] = @ + 1] /\ o1 = o
        BY <1>4, <1>7 DEF Store!Write
    <2> QED BY <1>2, <1>3, <2>1
<1>8. CASE \E c \in Conns : Store!GiveUp(c)
    <2>1. PICK c \in Conns : p1 = [p EXCEPT ![c] = "aborting"] /\ w1 = [w EXCEPT ![c] = 0] /\ o1 = o
        BY <1>4, <1>8 DEF Store!GiveUp
    <2> QED BY <1>2, <1>3, <2>1
<1>9. CASE \E c \in Conns : Store!Prepare(c)
    <2>1. PICK c \in Conns : /\ p[c] = "open" /\ p1 = [p EXCEPT ![c] = "prepared"]
                             /\ w1 = w /\ o1 = o \cup {w[c]}
        BY <1>4, <1>9 DEF Store!Prepare
    <2> QED BY <1>2, <1>3, <2>1
<1>10. CASE \/ \E c \in Conns : \/ Store!Abort(c) \/ Store!Commit(c)
                                \/ Store!Doubt(c) \/ Store!Crash(c)
    <2>1. PICK c \in Conns : Store!Abort(c) \/ Store!Commit(c) \/ Store!Doubt(c) \/ Store!Crash(c)
        BY <1>10
    <2>2. (\E r : Store!End(c, r)) /\ o1 = o
        BY <1>4, <2>1 DEF Store!Abort, Store!Commit, Store!Doubt, Store!Crash
    <2>3. PICK r : Store!End(c, r)
        BY <2>2
    <2>4. p1 = [p EXCEPT ![c] = "idle"] /\ w1 = [w EXCEPT ![c] = 0]
        BY <1>4, <2>3 DEF Store!End
    <2> QED BY <1>3, <1>5, <2>2, <2>4
<1>11. CASE Store!Settle \/ \E c \in Conns : Store!Refuse(c)
    <2>1. o1 \subseteq o /\ p1 = p /\ w1 = w
        BY <1>4, <1>11 DEF Store!Settle, Store!Refuse
    <2> QED BY <1>3, <2>1
<1>12. CASE Store!PowerLoss
    <2>1. PICK v \in o : o1 = {v} /\ p1 = [c \in Conns |-> "idle"]
        BY <1>4, <1>12 DEF Store!PowerLoss
    <2> QED BY <1>3, <2>1
<1>13. CASE UNCHANGED Store!avars
    BY <1>3, <1>4, <1>13 DEF Store!avars
<1> QED BY <1>6, <1>7, <1>8, <1>9, <1>10, <1>11, <1>12, <1>13 DEF AbstractStep, Store!ANext

LEMMA StoreInit == OrderedExisting /\ Init => StoreInv /\ Store!AInit
<1> SUFFICES ASSUME OrderedExisting, Init PROVE StoreInv /\ Store!AInit
    OBVIOUS
<1>1. /\ lock = Nobody /\ \A c \in Conns : pc[c] = "none" /\ ~failed[c]
      /\ survive = {[db |-> InitialDb, journal |-> NoJournal]}
      /\ result = [c \in Conns |-> "none"]
    BY DEF Init, InitWith
<1>2. StoreInv
    BY <1>1, ContentAssumption
       DEF StoreInv, CallShape, OutcomeKnows, Resting, BeginSteps, CommitSteps, MarkSteps,
           CleanSteps
<1>3. \A c \in Conns : Phase(c) = "idle" /\ View(c) = 0
    BY <1>1, ContentAssumption DEF Phase, View
<1>4. Outcomes = {Recovered([db |-> InitialDb, journal |-> NoJournal])}
    BY <1>1 DEF Outcomes
<1> QED BY <1>1, <1>2, <1>3, <1>4 DEF Store!AInit, View, Outcomes

LEMMA StoreAlways == OrderedExisting /\ Spec => []StoreInv
<1> SUFFICES ASSUME OrderedExisting PROVE Spec => []StoreInv
    OBVIOUS
<1>1. Init => ControlInv /\ DiskInv /\ StoreInv
    BY ControlInit, DiskInit, StoreInit
<1>2. ControlInv /\ DiskInv /\ StoreInv /\ [Next]_vars => (ControlInv /\ DiskInv /\ StoreInv)'
    BY ControlStep, DiskStep, StoreStep
<1> QED BY <1>1, <1>2, PTL DEF Spec

\* The transaction layer implements AtomicStore whatever fails and whenever: one
\* value, changed only by whole transactions that run one at a time, every answer
\* truthful, "committed" said only when no other outcome is left.
THEOREM Atomicity == OrderedExisting /\ Spec => AtomicSerial
<1> SUFFICES ASSUME OrderedExisting PROVE Spec => AtomicSerial
    OBVIOUS
<1>1. Init => Store!AInit
    BY StoreInit
<1>2. ControlInv /\ DiskInv /\ StoreInv /\ [Next]_vars => [Store!ANext]_(Store!avars)
    BY Simulates DEF AbstractStep
<1>3. Spec => [](ControlInv /\ DiskInv /\ StoreInv)
    BY ControlInit, ControlStep, DiskAlways, StoreAlways, PTL DEF Spec
<1> QED BY <1>1, <1>2, <1>3, PTL DEF Spec, AtomicSerial, Store!ASpec
=============================================================================
