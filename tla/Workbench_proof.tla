---------------------------- MODULE Workbench_proof ----------------------------
(***************************************************************************)
(* What Workbench promises for any number of handler threads, sessions and  *)
(* directories: its types, ClosedForGood, LocksExplained and NeverCutOff.   *)
(***************************************************************************)
EXTENDS Workbench, FiniteSetTheorems, TLAPS

(***************************************************************************)
(* The inductive invariant.                                                 *)
(***************************************************************************)

\* sessions_lock is held from the lookup of a session to the end of submit.
TableLock == \A h \in Handlers : at[h] \in {"found", "submitted"} <=> slock = h

\* Who works on a session works on one that was created, and only those close.
Targets ==
    /\ \A p \in Procs : at[p] \notin {"ready", "received"} => target[p] \in made
    /\ at[Main] \in {"ready", "closing", "draining"}
    /\ todo \subseteq made
    /\ \A s \in Sessions : closed[s] => s \in made

\* A future is there from submit to the reply.
Flags ==
    \A h \in Handlers :
        /\ at[h] \notin {"submitted", "waiting"} => ~answered[h]
        /\ watched[h] => at[h] = "waiting"

\* A queued call belongs to a handler that waits for it, and to no other entry.
Queued(s, i) ==
    LET h == queue[s][i].who IN
    queue[s][i].act # "close" =>
        /\ at[h] \in {"submitted", "waiting"} /\ target[h] = s
        /\ ~answered[h] /\ (at[h] = "waiting" => watched[h])

Jobs ==
    \A s \in Sessions : \A i \in 1..Len(queue[s]) :
        /\ Queued(s, i)
        /\ \A j \in 1..Len(queue[s]) :
              /\ queue[s][i].act # "close" /\ queue[s][j].act # "close"
              /\ queue[s][i].who = queue[s][j].who
              => i = j

\* The disconnect of a session is queued once, when it is closed, and last.
CloseLast ==
    \A s \in Sessions : \A i \in 1..Len(queue[s]) :
        queue[s][i].act = "close" => i = Len(queue[s]) /\ closed[s]

\* The handlers whose callback is still to come, and the one that is running.
Due(s) == {h \in Handlers : target[h] = s /\ \/ at[h] = "submitted"
                                             \/ at[h] = "waiting" /\ watched[h] /\ ~answered[h]}
Settling(s) == IF step[s] = "settle" THEN 1 ELSE 0
Counted == \A s \in Sessions : pending[s] >= Cardinality(Due(s)) + Settling(s)

\* A worker holds a lock by itself only for the call at the head of its queue.
Workers ==
    \A s \in Sessions :
        /\ step[s] = "locked" =>
              /\ queue[s] # <<>> /\ ~inTx[s]
              /\ Call(s).act \in {"connect", "login", "state", "execute"}
              /\ Call(s).act # "connect" => db[s] # NoDb
        /\ inTx[s] => db[s] # NoDb

\* Until the interrupt nobody closes a registered session.
Registered ==
    mode = "serving" =>
        /\ \A p \in Procs : at[p] \in {"closing", "draining"} => target[p] \notin sessions
        /\ todo \cap sessions = {}
        /\ \A s \in sessions : ~closed[s]

WorkbenchInv ==
    /\ TypeOK /\ TableLock /\ Targets /\ Flags /\ Jobs /\ CloseLast /\ Counted /\ Workers
    /\ LocksExplained /\ Registered /\ ClosedForGood

-----------------------------------------------------------------------------
(***************************************************************************)
(* Queues.                                                                  *)
(***************************************************************************)
LEMMA Appended ==
    ASSUME NEW q \in Seq(Job), NEW j \in Job
    PROVE  /\ Append(q, j) \in Seq(Job) /\ Append(q, j) # <<>>
           /\ Len(Append(q, j)) = Len(q) + 1 /\ Len(q) \in Nat
           /\ \A i \in 1..Len(q) : Append(q, j)[i] = q[i]
           /\ Append(q, j)[Len(q) + 1] = j
           /\ q # <<>> => Head(Append(q, j)) = Head(q)
<1>1. /\ Append(q, j) \in Seq(Job) /\ Len(Append(q, j)) = Len(q) + 1 /\ Len(q) \in Nat
      /\ \A i \in 1..Len(q) : Append(q, j)[i] = q[i]
      /\ Append(q, j)[Len(q) + 1] = j
  OBVIOUS
<1>2. Append(q, j) # <<>>
  BY <1>1
<1>3. ASSUME q # <<>>
      PROVE  Head(Append(q, j)) = Head(q)
  <2>1. Len(q) >= 1
    BY <1>1, <1>3
  <2>2. Head(q) = q[1] /\ Head(Append(q, j)) = Append(q, j)[1]
    BY <1>1, <1>2, <1>3
  <2> QED
    BY <1>1, <2>1, <2>2
<1> QED
  BY <1>1, <1>2, <1>3

LEMMA Tailed ==
    ASSUME NEW q \in Seq(Job), q # <<>>
    PROVE  /\ Tail(q) \in Seq(Job) /\ Len(q) \in Nat /\ Len(q) >= 1
           /\ Len(Tail(q)) = Len(q) - 1
           /\ \A i \in 1..Len(Tail(q)) : Tail(q)[i] = q[i + 1]
           /\ Head(q) = q[1] /\ q[1] \in Job
OBVIOUS

LEMMA Emptied ==
    ASSUME NEW q \in Seq(Job), Len(q) = 0
    PROVE  q = <<>>
OBVIOUS

(***************************************************************************)
(* What the larger steps do.                                                *)
(***************************************************************************)
Refused(h) ==
    /\ at' = [at EXCEPT ![h] = "ready"] /\ target' = [target EXCEPT ![h] = Nobody]
    /\ slock' = Nobody
    /\ UNCHANGED <<answered, watched, closed, worker>>

Accepted(h, act, d) ==
    LET s == target[h]
        job == [act |-> act, who |-> h, dir |-> d]
    IN  /\ at' = [at EXCEPT ![h] = "submitted"]
        /\ ~closed[s] /\ job \in Job
        /\ pending' = [pending EXCEPT ![s] = pending[s] + 1]
        /\ idle' = [idle EXCEPT ![s] = FALSE]
        /\ queue' = [queue EXCEPT ![s] = Append(queue[s], job)]
        /\ UNCHANGED <<target, answered, watched, slock, closed, step, gone>>

LEMMA SubmitDoes ==
    ASSUME TypeOK, Targets, NEW h \in Handlers, NEW act \in Requests, NEW d \in Directories,
           Submit(h, act, d)
    PROVE  /\ at[h] = "found" /\ target[h] \in Sessions
           /\ UNCHANGED <<server, conn>>
           /\ \/ /\ Refused(h)
                 /\ \/ UNCHANGED <<pending, idle>>
                    \/ /\ pending' = [pending EXCEPT ![target[h]] = pending[target[h]] + 1]
                       /\ idle' = [idle EXCEPT ![target[h]] = FALSE]
              \/ Accepted(h, act, d)
<1>1. at[h] = "found" /\ target[h] \in Sessions
  BY DEF Submit, TypeOK, Targets, Procs
<1>2. [act |-> act, who |-> h, dir |-> d] \in Job
  BY WorkbenchAssumption DEF Job
<1>3. UNCHANGED <<server, conn>>
  BY DEF Submit
<1> QED
  BY <1>1, <1>2, <1>3 DEF Submit, Refused, Accepted, Return, Goto, Count, usage, worker

LEMMA CloseDoes ==
    ASSUME TypeOK, Targets, NEW p \in Procs, Close(p)
    PROVE  LET s == target[p] IN
           /\ at[p] = "closing" /\ s \in Sessions
           /\ closed' = [closed EXCEPT ![s] = TRUE]
           /\ UNCHANGED <<answered, watched, slock, server, pending, idle, step, gone, conn>>
           /\ \/ /\ at' = [at EXCEPT ![p] = "ready"] /\ target' = [target EXCEPT ![p] = Nobody]
                 /\ queue' = queue
              \/ /\ at' = [at EXCEPT ![p] = "draining"] /\ target' = target
                 /\ ~closed[s] /\ [act |-> "close"] \in Job
                 /\ queue' = [queue EXCEPT ![s] = Append(queue[s], [act |-> "close"])]
<1>1. at[p] = "closing" /\ target[p] \in Sessions
  BY DEF Close, TypeOK, Targets
<1>2. [act |-> "close"] \in Job
  BY DEF Job
<1> QED
  BY <1>1, <1>2 DEF Close, Return, Goto

\* A worker that ends a call takes it from the head of its queue.
Finish(s) ==
    \/ Busy(s) \/ (\E dir \in Directories \cup {NoDb} : Connect(s, dir))
    \/ (\E open \in BOOLEAN : Execute(s, open)) \/ Disconnect(s) \/ Decline(s)

LEMMA FinishDoes ==
    ASSUME TypeOK, Jobs, NEW s \in Sessions, Finish(s)
    PROVE  /\ queue[s] # <<>> /\ step[s] \in {"rest", "locked"}
           /\ Call(s) = queue[s][1] /\ Call(s) \in Job
           /\ queue' = [queue EXCEPT ![s] = Tail(queue[s])]
           /\ UNCHANGED <<at, target, watched, slock, server, usage>>
           /\ \/ /\ Call(s).act = "close" /\ answered' = answered
                 /\ gone' = [gone EXCEPT ![s] = TRUE]
                 /\ step' = [step EXCEPT ![s] = "rest"]
              \/ /\ Call(s).act # "close" /\ gone' = gone
                 /\ Call(s).who \in Handlers /\ target[Call(s).who] = s
                 /\ at[Call(s).who] \in {"submitted", "waiting"} /\ ~answered[Call(s).who]
                 /\ at[Call(s).who] = "waiting" => watched[Call(s).who]
                 /\ answered' = [answered EXCEPT ![Call(s).who] = TRUE]
                 /\ step' = [step EXCEPT ![s] = IF watched[Call(s).who] THEN "settle" ELSE "rest"]
<1>1. queue[s] # <<>> /\ step[s] \in {"rest", "locked"} /\ Done(s)
  BY DEF Finish, Busy, Connect, Execute, Disconnect, Decline, At, Opens, Automatic
<1>2. /\ queue[s] \in Seq(Job)
      /\ \A i \in 1..Len(queue[s]) : Queued(s, i)
  BY DEF TypeOK, Jobs
<1>3. /\ Call(s) = queue[s][1] /\ Call(s) \in Job /\ 1 \in 1..Len(queue[s])
  BY <1>1, <1>2, Tailed DEF Call
<1>4. Call(s).act # "close" => Call(s).who \in Handlers
  BY <1>3 DEF Job
<1>5. Queued(s, 1)
  BY <1>2, <1>3
<1> QED
  BY <1>1, <1>3, <1>4, <1>5 DEF Done, Queued

-----------------------------------------------------------------------------
(***************************************************************************)
(* One invariant after the other.                                           *)
(***************************************************************************)
LEMMA TableLockKept ==
    ASSUME WorkbenchInv, Next
    PROVE  TableLock'
<1>1. /\ TypeOK /\ TableLock /\ Targets /\ Jobs
      /\ at \in [Procs -> Points] /\ slock \in Handlers \cup {Nobody}
      /\ Handlers \subseteq Procs /\ Nobody \notin Handlers /\ Main \in Procs \ Handlers
  BY ThreadAssumption DEF WorkbenchInv, TypeOK, Procs
<1>2. ASSUME NEW h \in Handlers, Receive(h) \/ Open(h) \/ Watch(h) \/ Reply(h)
      PROVE  TableLock'
  BY <1>1, <1>2
     DEF Receive, Open, Watch, Reply, Return, Goto, TableLock
<1>3. ASSUME NEW h \in Handlers, NEW s \in Sessions, Lookup(h, s)
      PROVE  TableLock'
  BY <1>1, <1>3 DEF Lookup, Return, Goto, TableLock
<1>4. ASSUME NEW h \in Handlers, Pop(h)
      PROVE  TableLock'
  <2>1. at[h] = "found" /\ slock' = Nobody
    BY <1>4 DEF Pop
  <2>2. at' = [at EXCEPT ![h] = "closing"] \/ at' = [at EXCEPT ![h] = "ready"]
    BY <1>4 DEF Pop, Return, Goto
  <2> QED
    BY <1>1, <2>1, <2>2 DEF TableLock
<1>5. ASSUME NEW h \in Handlers, NEW act \in Requests, NEW d \in Directories, Submit(h, act, d)
      PROVE  TableLock'
  <2>1. at[h] = "found" /\ (Refused(h) \/ Accepted(h, act, d))
    BY <1>1, <1>5, SubmitDoes
  <2>2. CASE Refused(h)
    BY <1>1, <2>1, <2>2 DEF Refused, TableLock
  <2>3. CASE Accepted(h, act, d)
    BY <1>1, <2>1, <2>3 DEF Accepted, TableLock
  <2> QED
    BY <2>1, <2>2, <2>3
<1>6. ASSUME NEW p \in Procs, Shut(p)
      PROVE  TableLock'
  <2>1. /\ at[p] \in {"closing", "draining"} /\ slock' = slock
        /\ at' = [at EXCEPT ![p] = "ready"] \/ at' = [at EXCEPT ![p] = "draining"]
    <3>1. CASE Close(p)
      BY <1>1, <3>1, CloseDoes
    <3>2. CASE Drained(p)
      BY <3>2 DEF Drained, Return, Goto
    <3> QED
      BY <1>6, <3>1, <3>2 DEF Shut
  <2> QED
    BY <1>1, <2>1 DEF TableLock
<1>7. ASSUME Interrupt \/ \E s \in Sessions : CloseNext(s)
      PROVE  TableLock'
  BY <1>1, <1>7
     DEF Interrupt, CloseNext, Return, Goto, TableLock
<1>8. ASSUME UNCHANGED <<at, slock>>
      PROVE  TableLock'
  BY <1>1, <1>8 DEF TableLock
<1>9. ASSUME Sweep \/ Clear \/ Exit
      PROVE  UNCHANGED <<at, slock>>
  BY <1>9 DEF Sweep, Clear, Exit, handler
<1>10. ASSUME NEW s \in Sessions, Idle(s) \/ Work(s)
       PROVE  UNCHANGED <<at, slock>>
  BY <1>1, <1>10, FinishDoes DEF Idle, Work, Finish, Settle, Acquire, handler
<1> QED
  BY <1>2, <1>3, <1>4, <1>5, <1>6, <1>7, <1>8, <1>9, <1>10 DEF Next, Serve, Supervise, Procs

LEMMA TargetsKept ==
    ASSUME WorkbenchInv, Next
    PROVE  Targets'
<1>1. /\ TypeOK /\ Targets /\ Jobs
      /\ at \in [Procs -> Points] /\ target \in [Procs -> Sessions \cup {Nobody}]
      /\ made \subseteq Sessions /\ sessions \subseteq made /\ closed \in [Sessions -> BOOLEAN]
      /\ Handlers \subseteq Procs /\ Main \in Procs \ Handlers
  BY ThreadAssumption DEF WorkbenchInv, TypeOK, Procs
<1>2. ASSUME NEW h \in Handlers, Receive(h) \/ Open(h) \/ Watch(h) \/ Reply(h)
      PROVE  Targets'
  <2>1. made \subseteq made' /\ UNCHANGED <<todo, closed>>
    BY <1>2 DEF Receive, Open, Watch, Reply, server, usage
  <2>2. \/ at' = [at EXCEPT ![h] = "received"] /\ target' = target
        \/ at' = [at EXCEPT ![h] = "ready"] /\ target' = [target EXCEPT ![h] = Nobody]
        \/ at[h] = "submitted" /\ at' = [at EXCEPT ![h] = "waiting"] /\ target' = target
    BY <1>2 DEF Receive, Open, Watch, Reply, Return, Goto
  <2> QED
    BY <1>1, <2>1, <2>2 DEF Targets
<1>3. ASSUME NEW h \in Handlers, NEW s \in Sessions, Lookup(h, s)
      PROVE  Targets'
  <2>1. UNCHANGED <<made, todo, closed>>
    BY <1>3 DEF Lookup, server, usage
  <2>2. \/ at' = [at EXCEPT ![h] = "found"] /\ target' = [target EXCEPT ![h] = s] /\ s \in made
        \/ at' = [at EXCEPT ![h] = "ready"] /\ target' = [target EXCEPT ![h] = Nobody]
    BY <1>3 DEF Lookup, Return, Goto
  <2> QED
    BY <1>1, <2>1, <2>2 DEF Targets
<1>4. ASSUME NEW h \in Handlers, Pop(h)
      PROVE  Targets'
  <2>1. at[h] = "found" /\ UNCHANGED <<made, todo, closed>>
    BY <1>4 DEF Pop, usage
  <2>2. \/ at' = [at EXCEPT ![h] = "closing"] /\ target' = target
        \/ at' = [at EXCEPT ![h] = "ready"] /\ target' = [target EXCEPT ![h] = Nobody]
    BY <1>4 DEF Pop, Return, Goto
  <2> QED
    BY <1>1, <2>1, <2>2 DEF Targets
<1>5. ASSUME NEW h \in Handlers, NEW act \in Requests, NEW d \in Directories, Submit(h, act, d)
      PROVE  Targets'
  <2>1. /\ at[h] = "found" /\ (Refused(h) \/ Accepted(h, act, d))
        /\ UNCHANGED <<made, todo, closed>>
    BY <1>1, <1>5, SubmitDoes DEF server, Refused, Accepted
  <2>2. \/ at' = [at EXCEPT ![h] = "submitted"] /\ target' = target
        \/ at' = [at EXCEPT ![h] = "ready"] /\ target' = [target EXCEPT ![h] = Nobody]
    BY <2>1 DEF Refused, Accepted
  <2> QED
    BY <1>1, <2>1, <2>2 DEF Targets
<1>6. ASSUME NEW p \in Procs, Shut(p)
      PROVE  Targets'
  <2>1. /\ at[p] \in {"closing", "draining"} /\ UNCHANGED <<made, todo>>
        /\ closed' = closed \/ closed' = [closed EXCEPT ![target[p]] = TRUE]
        /\ \/ at' = [at EXCEPT ![p] = "draining"] /\ target' = target
           \/ at' = [at EXCEPT ![p] = "ready"] /\ target' = [target EXCEPT ![p] = Nobody]
    <3>1. CASE Close(p)
      BY <1>1, <3>1, CloseDoes DEF server
    <3>2. CASE Drained(p)
      BY <3>2 DEF Drained, Return, Goto, server, usage
    <3> QED
      BY <1>6, <3>1, <3>2 DEF Shut
  <2> QED
    BY <1>1, <2>1 DEF Targets
<1>7. ASSUME Interrupt \/ Sweep \/ Clear \/ Exit \/ \E s \in Sessions : CloseNext(s)
      PROVE  Targets'
  <2>1. made' = made /\ closed' = closed /\ todo' \subseteq made
    BY <1>1, <1>7 DEF Interrupt, Sweep, Clear, Exit, CloseNext, usage, Targets
  <2>2. \/ at' = at /\ target' = target
        \/ at' = [at EXCEPT ![Main] = "ready"] /\ target' = [target EXCEPT ![Main] = Nobody]
        \/ \E s \in made : at' = [at EXCEPT ![Main] = "closing"]
                              /\ target' = [target EXCEPT ![Main] = s]
    BY <1>1, <1>7 DEF Interrupt, Sweep, Clear, Exit, CloseNext, Return, Goto, handler, Targets
  <2> QED
    BY <1>1, <2>1, <2>2 DEF Targets
<1>8. ASSUME NEW s \in Sessions, Idle(s) \/ Work(s)
      PROVE  Targets'
  <2>1. UNCHANGED <<at, target, made, todo, closed>>
    BY <1>1, <1>8, FinishDoes
       DEF Idle, Work, Finish, Settle, Acquire, Count, handler, server, usage
  <2> QED
    BY <1>1, <2>1 DEF Targets
<1> QED
  BY <1>2, <1>3, <1>4, <1>5, <1>6, <1>7, <1>8, <1>1 DEF Next, Serve, Supervise

LEMMA FlagsKept ==
    ASSUME WorkbenchInv, Next
    PROVE  Flags'
<1>1. /\ TypeOK /\ Targets /\ Jobs /\ Flags
      /\ at \in [Procs -> Points]
      /\ answered \in [Handlers -> BOOLEAN] /\ watched \in [Handlers -> BOOLEAN]
      /\ Handlers \subseteq Procs /\ Main \in Procs \ Handlers
  BY ThreadAssumption DEF WorkbenchInv, TypeOK, Procs
<1>2. ASSUME NEW h \in Handlers, Receive(h) \/ Open(h) \/ Pop(h) \/ \E s \in Sessions : Lookup(h, s)
      PROVE  Flags'
  <2>1. /\ at[h] \notin {"submitted", "waiting"} /\ UNCHANGED <<answered, watched>>
        /\ \E point \in Points \ {"submitted", "waiting"} : at' = [at EXCEPT ![h] = point]
    BY <1>2 DEF Receive, Open, Pop, Lookup, Return, Goto, Points
  <2> QED
    BY <1>1, <2>1 DEF Flags
<1>3. ASSUME NEW h \in Handlers, NEW act \in Requests, NEW d \in Directories, Submit(h, act, d)
      PROVE  Flags'
  <2>1. at[h] = "found" /\ (Refused(h) \/ Accepted(h, act, d))
    BY <1>1, <1>3, SubmitDoes
  <2>2. /\ UNCHANGED <<answered, watched>>
        /\ at' = [at EXCEPT ![h] = "submitted"] \/ at' = [at EXCEPT ![h] = "ready"]
    BY <2>1 DEF Refused, Accepted
  <2> QED
    BY <1>1, <2>1, <2>2 DEF Flags
<1>4. ASSUME NEW h \in Handlers, Watch(h) \/ Reply(h)
      PROVE  Flags'
  BY <1>1, <1>4 DEF Watch, Reply, Return, Goto, Flags
<1>5. ASSUME NEW p \in Procs, Shut(p)
      PROVE  Flags'
  <2>1. /\ at[p] \in {"closing", "draining"} /\ UNCHANGED <<answered, watched>>
        /\ at' = [at EXCEPT ![p] = "draining"] \/ at' = [at EXCEPT ![p] = "ready"]
    <3>1. CASE Close(p)
      BY <1>1, <3>1, CloseDoes
    <3>2. CASE Drained(p)
      BY <3>2 DEF Drained, Return, Goto
    <3> QED
      BY <1>5, <3>1, <3>2 DEF Shut
  <2> QED
    BY <1>1, <2>1 DEF Flags
<1>6. ASSUME Interrupt \/ \E s \in Sessions : CloseNext(s)
      PROVE  Flags'
  BY <1>1, <1>6 DEF Interrupt, CloseNext, Return, Goto, Flags
<1>7. ASSUME NEW s \in Sessions, Finish(s)
      PROVE  Flags'
  <2>1. /\ UNCHANGED <<at, watched>>
        /\ \/ answered' = answered
           \/ \E h \in Handlers : at[h] \in {"submitted", "waiting"}
                                     /\ answered' = [answered EXCEPT ![h] = TRUE]
    BY <1>1, <1>7, FinishDoes
  <2> QED
    BY <1>1, <2>1 DEF Flags
<1>8. ASSUME UNCHANGED <<at, answered, watched>>
      PROVE  Flags'
  BY <1>1, <1>8 DEF Flags
<1>9. ASSUME Sweep \/ Clear \/ Exit \/ \E s \in Sessions : Idle(s) \/ Settle(s) \/ Acquire(s)
      PROVE  UNCHANGED <<at, answered, watched>>
  BY <1>9 DEF Sweep, Clear, Exit, Idle, Settle, Acquire, handler
<1> QED
  BY <1>1, <1>2, <1>3, <1>4, <1>5, <1>6, <1>7, <1>8, <1>9 DEF Next, Serve, Supervise, Work, Finish

LEMMA JobsKept ==
    ASSUME WorkbenchInv, Next
    PROVE  Jobs'
<1>1. /\ TypeOK /\ Targets /\ Jobs /\ Flags
      /\ at \in [Procs -> Points] /\ target \in [Procs -> Sessions \cup {Nobody}]
      /\ answered \in [Handlers -> BOOLEAN] /\ watched \in [Handlers -> BOOLEAN]
      /\ queue \in [Sessions -> Seq(Job)]
      /\ Handlers \subseteq Procs /\ Main \in Procs \ Handlers
  BY ThreadAssumption DEF WorkbenchInv, TypeOK, Procs
<1>2. \A s \in Sessions : \A i \in 1..Len(queue[s]) :
         queue[s][i] \in Job /\ (queue[s][i].act # "close" => queue[s][i].who \in Handlers)
  <2>1. \A s \in Sessions : queue[s] \in Seq(Job)
    BY <1>1
  <2>2. \A s \in Sessions : \A i \in 1..Len(queue[s]) : queue[s][i] \in Job
    BY <2>1
  <2> QED
    BY <2>2 DEF Job
<1>0. \A r \in Sessions : \A i, j \in 1..Len(queue[r]) :
         /\ queue[r][i].act # "close" /\ queue[r][j].act # "close"
         /\ queue[r][i].who = queue[r][j].who
         => i = j
  BY <1>1 DEF Jobs
<1>3. ASSUME NEW p \in Procs, at[p] \notin {"submitted", "waiting"}, NEW point \in Points,
             NEW s \in Sessions \cup {Nobody},
             at' = [at EXCEPT ![p] = point], target' = [target EXCEPT ![p] = s],
             UNCHANGED <<queue, answered, watched>>
      PROVE  Jobs'
  BY <1>1, <1>2, <1>3 DEF Jobs, Queued
<1>4. ASSUME NEW h \in Handlers, Receive(h) \/ Open(h) \/ Pop(h) \/ \E s \in Sessions : Lookup(h, s)
      PROVE  Jobs'
  <2>1. /\ at[h] \notin {"submitted", "waiting"} /\ UNCHANGED <<queue, answered, watched>>
        /\ \E point \in Points : at' = [at EXCEPT ![h] = point]
    BY <1>4 DEF Receive, Open, Pop, Lookup, Return, Goto, Points, worker
  <2>2. target' = target \/ \E s \in Sessions \cup {Nobody} : target' = [target EXCEPT ![h] = s]
    BY <1>4 DEF Receive, Open, Pop, Lookup, Return
  <2>3. target[h] \in Sessions \cup {Nobody} /\ target = [target EXCEPT ![h] = target[h]]
    BY <1>1
  <2> QED
    BY <1>1, <1>3, <2>1, <2>2, <2>3
<1>5. ASSUME NEW h \in Handlers, NEW act \in Requests, NEW d \in Directories, Submit(h, act, d)
      PROVE  Jobs'
  <2>1. at[h] = "found" /\ target[h] \in Sessions /\ (Refused(h) \/ Accepted(h, act, d))
    BY <1>1, <1>5, SubmitDoes
  <2>2. CASE Refused(h)
    BY <1>1, <1>3, <2>1, <2>2 DEF Refused, Points, worker
  <2>3. CASE Accepted(h, act, d)
    <3> DEFINE s == target[h]
               job == [act |-> act, who |-> h, dir |-> d]
    <3>1. /\ at' = [at EXCEPT ![h] = "submitted"] /\ job \in Job
          /\ queue' = [queue EXCEPT ![s] = Append(queue[s], job)]
          /\ UNCHANGED <<target, answered, watched>>
      BY <2>3 DEF Accepted
    <3>2. /\ Len(queue'[s]) = Len(queue[s]) + 1 /\ Len(queue[s]) \in Nat
          /\ \A i \in 1..Len(queue[s]) : queue'[s][i] = queue[s][i]
          /\ queue'[s][Len(queue[s]) + 1] = job
      BY <1>1, <2>1, <3>1, Appended
    <3>3. \A r \in Sessions \ {s} : queue'[r] = queue[r]
      BY <1>1, <2>1, <3>1
    <3>4. /\ target[h] = s /\ s \in Sessions /\ ~answered[h] /\ at'[h] = "submitted" /\ job.who = h
          /\ \A r \in Sessions : \A i \in 1..Len(queue[r]) :
                queue[r][i].act # "close" => queue[r][i].who # h
      BY <1>1, <1>2, <2>1, <3>1 DEF Jobs, Queued, Flags
    <3> HIDE DEF s, job
    <3>5. \A r \in Sessions : \A i \in 1..Len(queue[r]) : Queued(r, i)
      BY <1>1 DEF Jobs
    <3>6. ASSUME NEW r \in Sessions, NEW i \in 1..Len(queue'[r])
          PROVE  Queued(r, i)'
      <4>1. CASE r = s /\ i = Len(queue[s]) + 1
        BY <3>1, <3>2, <3>4, <4>1 DEF Queued
      <4>2. CASE ~(r = s /\ i = Len(queue[s]) + 1)
        <5>1. i \in 1..Len(queue[r]) /\ queue'[r][i] = queue[r][i]
          BY <3>2, <3>3, <3>6, <4>2
        <5> QED
          BY <1>1, <1>2, <3>1, <3>4, <3>5, <5>1 DEF Queued
      <4> QED
        BY <4>1, <4>2
    <3>7. ASSUME NEW r \in Sessions, NEW i \in 1..Len(queue'[r]), NEW j \in 1..Len(queue'[r]),
                 queue'[r][i].act # "close", queue'[r][j].act # "close",
                 queue'[r][i].who = queue'[r][j].who
          PROVE  i = j
      <4>1. CASE r # s
        BY <1>0, <3>3, <3>7, <4>1
      <4>2. CASE r = s
        <5>1. \A k \in 1..Len(queue'[s]) : k \in 1..Len(queue[s]) \/ k = Len(queue[s]) + 1
          BY <3>2
        <5>2. \A k \in 1..Len(queue'[s]) : queue'[s][k].act # "close" =>
                 (queue'[s][k].who = h <=> k = Len(queue[s]) + 1)
          BY <3>2, <3>4, <5>1
        <5>3. CASE i = Len(queue[s]) + 1 \/ j = Len(queue[s]) + 1
          BY <3>7, <4>2, <5>2, <5>3
        <5>4. CASE i \in 1..Len(queue[s]) /\ j \in 1..Len(queue[s])
          <6>1. queue'[s][i] = queue[s][i] /\ queue'[s][j] = queue[s][j]
            BY <3>2, <5>4
          <6>2. /\ queue[s][i].act # "close" /\ queue[s][j].act # "close"
                /\ queue[s][i].who = queue[s][j].who
            BY <3>7, <4>2, <6>1
          <6> QED
            BY <1>0, <3>4, <5>4, <6>2
        <5> QED
          BY <3>7, <4>2, <5>1, <5>3, <5>4
      <4> QED
        BY <4>1, <4>2
    <3> QED
      BY <3>6, <3>7 DEF Jobs
  <2> QED
    BY <2>1, <2>2, <2>3
<1>6. ASSUME NEW h \in Handlers, Watch(h) \/ Reply(h)
      PROVE  Jobs'
  <2>1. queue' = queue /\ answered[h] \in BOOLEAN
    BY <1>1, <1>6 DEF Watch, Reply, worker
  <2>2. \A r \in Sessions : \A i \in 1..Len(queue[r]) :
           answered[h] /\ queue[r][i].act # "close" => queue[r][i].who # h
    BY <1>1 DEF Jobs, Queued
  <2>3. CASE Watch(h)
    <3>1. /\ at[h] = "submitted" /\ at' = [at EXCEPT ![h] = "waiting"]
          /\ target' = target /\ answered' = answered
          /\ ~answered[h] => watched' = [watched EXCEPT ![h] = TRUE]
          /\ answered[h] => watched' = watched
      BY <2>3 DEF Watch, Goto
    <3>2. \A r \in Sessions : \A i \in 1..Len(queue[r]) : Queued(r, i)'
      <4>1. ASSUME NEW r \in Sessions, NEW i \in 1..Len(queue[r]), queue[r][i].act # "close"
            PROVE  LET w == queue[r][i].who IN
                   /\ at'[w] \in {"submitted", "waiting"} /\ target'[w] = r
                   /\ ~answered'[w] /\ (at'[w] = "waiting" => watched'[w])
        <5>1. Queued(r, i) /\ (answered[h] => queue[r][i].who # h)
          BY <1>1, <2>2, <4>1 DEF Jobs
        <5>2. queue[r][i].who \in Handlers
          BY <1>2, <4>1
        <5>3. PICK w \in Handlers : w = queue[r][i].who
          BY <5>2
        <5>4. /\ at[w] \in {"submitted", "waiting"} /\ target[w] = r
              /\ ~answered[w] /\ (at[w] = "waiting" => watched[w])
          BY <4>1, <5>1, <5>3 DEF Queued
        <5> QED
          BY <1>1, <3>1, <5>1, <5>3, <5>4
      <4> QED
        BY <2>1, <4>1 DEF Queued
    <3> QED
      BY <1>1, <2>1, <3>2 DEF Jobs
  <2>4. CASE Reply(h)
    <3>1. /\ answered[h] /\ at' = [at EXCEPT ![h] = "ready"]
          /\ target' = [target EXCEPT ![h] = Nobody]
          /\ answered' = [answered EXCEPT ![h] = FALSE]
          /\ watched' = [watched EXCEPT ![h] = FALSE]
      BY <2>4 DEF Reply, Return, Goto
    <3>2. \A r \in Sessions : \A i \in 1..Len(queue[r]) : Queued(r, i)'
      <4>1. ASSUME NEW r \in Sessions, NEW i \in 1..Len(queue[r]), queue[r][i].act # "close"
            PROVE  LET w == queue[r][i].who IN
                   /\ at'[w] \in {"submitted", "waiting"} /\ target'[w] = r
                   /\ ~answered'[w] /\ (at'[w] = "waiting" => watched'[w])
        <5>1. Queued(r, i) /\ (answered[h] => queue[r][i].who # h)
          BY <1>1, <2>2, <4>1 DEF Jobs
        <5>2. queue[r][i].who \in Handlers
          BY <1>2, <4>1
        <5>3. PICK w \in Handlers : w = queue[r][i].who
          BY <5>2
        <5>4. /\ at[w] \in {"submitted", "waiting"} /\ target[w] = r
              /\ ~answered[w] /\ (at[w] = "waiting" => watched[w])
          BY <4>1, <5>1, <5>3 DEF Queued
        <5> QED
          BY <1>1, <3>1, <5>1, <5>3, <5>4
      <4> QED
        BY <2>1, <4>1 DEF Queued
    <3> QED
      BY <1>1, <2>1, <3>2 DEF Jobs
  <2> QED
    BY <1>6, <2>3, <2>4
<1>7. ASSUME NEW p \in Procs, Drained(p)
      PROVE  Jobs'
  BY <1>1, <1>3, <1>7 DEF Drained, Return, Goto, Points, worker
<1>8. ASSUME NEW p \in Procs, Close(p)
      PROVE  Jobs'
  <2> DEFINE s == target[p]
             job == [act |-> "close"]
  <2>1. /\ at[p] = "closing" /\ s \in Sessions
        /\ UNCHANGED <<answered, watched>>
        /\ \/ /\ at' = [at EXCEPT ![p] = "ready"] /\ target' = [target EXCEPT ![p] = Nobody]
              /\ queue' = queue
           \/ /\ at' = [at EXCEPT ![p] = "draining"] /\ target' = target
              /\ job \in Job
              /\ queue' = [queue EXCEPT ![s] = Append(queue[s], job)]
    BY <1>1, <1>8, CloseDoes
  <2>2. CASE queue' = queue /\ target' = [target EXCEPT ![p] = Nobody] /\ at' = [at EXCEPT ![p] = "ready"]
    BY <1>1, <1>3, <2>1, <2>2 DEF Points
  <2>3. CASE /\ at' = [at EXCEPT ![p] = "draining"] /\ target' = target
             /\ job \in Job
             /\ queue' = [queue EXCEPT ![s] = Append(queue[s], job)]
    <3>1. /\ Len(queue'[s]) = Len(queue[s]) + 1 /\ Len(queue[s]) \in Nat
          /\ \A i \in 1..Len(queue[s]) : queue'[s][i] = queue[s][i]
          /\ queue'[s][Len(queue[s]) + 1].act = "close"
      BY <1>1, <2>1, <2>3, Appended
    <3>2. \A r \in Sessions \ {s} : queue'[r] = queue[r]
      BY <1>1, <2>1, <2>3
    <3>3. \A r \in Sessions : \A i \in 1..Len(queue'[r]) :
             \/ queue'[r][i].act = "close"
             \/ i \in 1..Len(queue[r]) /\ queue'[r][i] = queue[r][i]
      BY SMTT(30), <3>1, <3>2
    <3> HIDE DEF s
    <3>4. \A r \in Sessions : \A i \in 1..Len(queue[r]) : Queued(r, i)
      BY <1>1 DEF Jobs
    <3>5. ASSUME NEW r \in Sessions, NEW i \in 1..Len(queue'[r])
          PROVE  Queued(r, i)'
      <4>1. CASE queue'[r][i].act = "close"
        BY <4>1 DEF Queued
      <4>2. CASE queue'[r][i].act # "close"
        <5>1. i \in 1..Len(queue[r]) /\ queue'[r][i] = queue[r][i]
          BY <3>3, <3>5, <4>2
        <5>2. Queued(r, i) /\ queue[r][i].who \in Handlers
          BY <1>2, <3>4, <4>2, <5>1
        <5> QED
          BY <1>1, <2>1, <2>3, <4>2, <5>1, <5>2 DEF Queued
      <4> QED
        BY <4>1, <4>2
    <3>6. ASSUME NEW r \in Sessions, NEW i \in 1..Len(queue'[r]), NEW j \in 1..Len(queue'[r]),
                 queue'[r][i].act # "close", queue'[r][j].act # "close",
                 queue'[r][i].who = queue'[r][j].who
          PROVE  i = j
      BY <1>0, <3>3, <3>6
    <3> QED
      BY <3>5, <3>6 DEF Jobs
  <2> QED
    BY <2>1, <2>2, <2>3
<1>9. ASSUME NEW s \in Sessions, Finish(s)
      PROVE  Jobs'
  <2>1. /\ queue[s] # <<>> /\ queue' = [queue EXCEPT ![s] = Tail(queue[s])]
        /\ UNCHANGED <<at, target, watched>>
        /\ \/ answered' = answered
           \/ /\ queue[s][1].act # "close" /\ queue[s][1].who \in Handlers
              /\ target[queue[s][1].who] = s
              /\ answered' = [answered EXCEPT ![queue[s][1].who] = TRUE]
    BY <1>1, <1>9, FinishDoes
  <2>2. /\ Len(queue[s]) \in Nat /\ Len(queue[s]) >= 1
        /\ Len(queue'[s]) = Len(queue[s]) - 1
        /\ \A i \in 1..Len(queue'[s]) : queue'[s][i] = queue[s][i + 1]
    BY <1>1, <2>1, Tailed
  <2>3. \A r \in Sessions \ {s} : queue'[r] = queue[r]
    BY <1>1, <2>1
  <2>4. \A r \in Sessions : \A i \in 1..Len(queue[r]) : Queued(r, i)
    BY <1>1 DEF Jobs
  <2>5. \A i \in 1..Len(queue'[s]) : i + 1 \in 1..Len(queue[s]) /\ i + 1 # 1 /\ 1 \in 1..Len(queue[s])
    BY <2>2
  <2>6. ASSUME NEW r \in Sessions, NEW i \in 1..Len(queue'[r])
        PROVE  Queued(r, i)'
    <3>1. CASE r = s
      <4>1. queue[s][1].act # "close" /\ queue[s][i + 1].act # "close" =>
               queue[s][i + 1].who # queue[s][1].who
        BY <1>1, <2>5, <2>6, <3>1 DEF Jobs
      <4>2. Queued(s, i + 1) /\ (queue[s][i + 1].act # "close" => queue[s][i + 1].who \in Handlers)
        BY <1>2, <2>4, <2>5, <2>6, <3>1
      <4>3. queue'[s][i] = queue[s][i + 1]
        BY <2>2, <2>6, <3>1
      <4> QED
        BY <1>1, <2>1, <3>1, <4>1, <4>2, <4>3 DEF Queued
    <3>2. CASE r # s
      <4>1. Queued(r, i) /\ (queue[r][i].act # "close" => queue[r][i].who \in Handlers)
            /\ queue'[r][i] = queue[r][i]
        BY <1>2, <2>3, <2>4, <2>6, <3>2
      <4> QED
        BY <1>1, <2>1, <3>2, <4>1 DEF Queued
    <3> QED
      BY <3>1, <3>2
  <2>7. ASSUME NEW r \in Sessions, NEW i \in 1..Len(queue'[r]), NEW j \in 1..Len(queue'[r]),
               queue'[r][i].act # "close", queue'[r][j].act # "close",
               queue'[r][i].who = queue'[r][j].who
        PROVE  i = j
    <3>1. CASE r # s
      BY <1>0, <2>3, <2>7, <3>1
    <3>2. CASE r = s
      <4>1. i + 1 \in 1..Len(queue[s]) /\ j + 1 \in 1..Len(queue[s])
        BY <2>5, <2>7, <3>2
      <4>2. queue'[s][i] = queue[s][i + 1] /\ queue'[s][j] = queue[s][j + 1]
        BY <2>2, <2>7, <3>2
      <4>3. i + 1 = j + 1
        BY <1>0, <2>7, <3>2, <4>1, <4>2
      <4> QED
        BY <2>2, <2>7, <3>2, <4>3
    <3> QED
      BY <3>1, <3>2
  <2> QED
    BY <2>6, <2>7 DEF Jobs
<1>10. ASSUME Interrupt \/ \E s \in Sessions : CloseNext(s)
       PROVE  Jobs'
  <2>1. /\ at[Main] \notin {"submitted", "waiting"} /\ UNCHANGED <<queue, answered, watched>>
        /\ \E point \in Points, s \in Sessions \cup {Nobody} :
              at' = [at EXCEPT ![Main] = point] /\ target' = [target EXCEPT ![Main] = s]
    BY <1>1, <1>10 DEF Interrupt, CloseNext, Return, Goto, Points, worker, Targets
  <2> QED
    BY <1>1, <1>3, <2>1
<1>11. ASSUME UNCHANGED <<queue, at, target, answered, watched>>
       PROVE  Jobs'
  BY <1>1, <1>11 DEF Jobs, Queued
<1>12. ASSUME Sweep \/ Clear \/ Exit \/ \E s \in Sessions : Idle(s) \/ Settle(s) \/ Acquire(s)
       PROVE  UNCHANGED <<queue, at, target, answered, watched>>
  BY <1>12 DEF Sweep, Clear, Exit, Idle, Settle, Acquire, handler, worker
<1> QED
  BY <1>1, <1>4, <1>5, <1>6, <1>7, <1>8, <1>9, <1>10, <1>11, <1>12
     DEF Next, Serve, Shut, Supervise, Work, Finish

LEMMA CloseLastKept ==
    ASSUME WorkbenchInv, Next
    PROVE  CloseLast'
<1>1. /\ TypeOK /\ Targets /\ Jobs /\ CloseLast
      /\ queue \in [Sessions -> Seq(Job)] /\ closed \in [Sessions -> BOOLEAN]
      /\ Handlers \subseteq Procs
  BY DEF WorkbenchInv, TypeOK, Procs
<1>2. ASSUME NEW h \in Handlers, NEW act \in Requests, NEW d \in Directories, Submit(h, act, d)
      PROVE  CloseLast'
  <2> DEFINE s == target[h]
             job == [act |-> act, who |-> h, dir |-> d]
  <2>1. s \in Sessions /\ (Refused(h) \/ Accepted(h, act, d))
    BY <1>1, <1>2, SubmitDoes
  <2>2. CASE Refused(h)
    BY <1>1, <2>2 DEF Refused, worker, CloseLast
  <2>3. CASE Accepted(h, act, d)
    <3>1. /\ ~closed[s] /\ closed' = closed /\ job \in Job /\ job.act # "close"
          /\ queue' = [queue EXCEPT ![s] = Append(queue[s], job)]
      BY <2>3, WorkbenchAssumption DEF Accepted, Calls
    <3>2. /\ Len(queue'[s]) = Len(queue[s]) + 1 /\ Len(queue[s]) \in Nat
          /\ \A i \in 1..Len(queue[s]) : queue'[s][i] = queue[s][i]
          /\ queue'[s][Len(queue[s]) + 1].act # "close"
      BY <1>1, <2>1, <3>1, Appended
    <3>3. \A r \in Sessions \ {s} : queue'[r] = queue[r]
      BY <1>1, <2>1, <3>1
    <3> HIDE DEF s, job
    <3>4. \A i \in 1..Len(queue'[s]) : queue'[s][i].act # "close"
      BY <1>1, <2>1, <3>1, <3>2 DEF CloseLast
    <3> QED
      BY <1>1, <2>1, <3>1, <3>3, <3>4 DEF CloseLast
  <2> QED
    BY <2>1, <2>2, <2>3
<1>3. ASSUME NEW p \in Procs, Close(p)
      PROVE  CloseLast'
  <2> DEFINE s == target[p]
             job == [act |-> "close"]
  <2>1. /\ s \in Sessions /\ closed' = [closed EXCEPT ![s] = TRUE]
        /\ \/ queue' = queue
           \/ /\ ~closed[s] /\ job \in Job
              /\ queue' = [queue EXCEPT ![s] = Append(queue[s], job)]
    BY <1>1, <1>3, CloseDoes
  <2>2. CASE queue' = queue
    BY <1>1, <2>1, <2>2 DEF CloseLast
  <2>3. CASE ~closed[s] /\ job \in Job /\ queue' = [queue EXCEPT ![s] = Append(queue[s], job)]
    <3>1. /\ Len(queue'[s]) = Len(queue[s]) + 1 /\ Len(queue[s]) \in Nat
          /\ \A i \in 1..Len(queue[s]) : queue'[s][i] = queue[s][i]
      BY <1>1, <2>1, <2>3, Appended
    <3>2. \A r \in Sessions \ {s} : queue'[r] = queue[r]
      BY <1>1, <2>1, <2>3
    <3> HIDE DEF s, job
    <3>3. \A i \in 1..Len(queue[s]) : queue'[s][i].act # "close"
      BY <1>1, <2>1, <2>3, <3>1 DEF CloseLast
    <3>4. \A i \in 1..Len(queue'[s]) : i \in 1..Len(queue[s]) \/ i = Len(queue'[s])
      BY <3>1
    <3> QED
      BY <1>1, <2>1, <3>2, <3>3, <3>4 DEF CloseLast
  <2> QED
    BY <2>1, <2>2, <2>3
<1>4. ASSUME NEW s \in Sessions, Finish(s)
      PROVE  CloseLast'
  <2>1. queue[s] # <<>> /\ queue' = [queue EXCEPT ![s] = Tail(queue[s])] /\ closed' = closed
    BY <1>1, <1>4, FinishDoes DEF usage
  <2>2. /\ Len(queue[s]) \in Nat /\ Len(queue'[s]) = Len(queue[s]) - 1
        /\ \A i \in 1..Len(queue'[s]) : queue'[s][i] = queue[s][i + 1] /\ i + 1 \in 1..Len(queue[s])
    BY <1>1, <2>1, Tailed
  <2>3. \A r \in Sessions \ {s} : queue'[r] = queue[r]
    BY <1>1, <2>1
  <2>4. \A i \in 1..Len(queue'[s]) :
           queue'[s][i].act = "close" => i = Len(queue'[s]) /\ closed[s]
    BY <1>1, <2>2 DEF CloseLast
  <2> QED
    BY <1>1, <2>1, <2>3, <2>4 DEF CloseLast
<1>5. ASSUME UNCHANGED <<queue, closed>>
      PROVE  CloseLast'
  BY <1>1, <1>5 DEF CloseLast
<1>6. ASSUME NEW p \in Procs, Drained(p)
      PROVE  UNCHANGED <<queue, closed>>
  BY <1>6 DEF Drained, usage, worker
<1>7. ASSUME NEW h \in Handlers,
             Receive(h) \/ Open(h) \/ Pop(h) \/ Watch(h) \/ Reply(h) \/ \E s \in Sessions : Lookup(h, s)
      PROVE  UNCHANGED <<queue, closed>>
  BY <1>7 DEF Receive, Open, Pop, Watch, Reply, Lookup, usage, worker
<1>8. ASSUME \/ Sweep \/ Clear \/ Exit \/ Interrupt
             \/ \E s \in Sessions : Idle(s) \/ Settle(s) \/ Acquire(s) \/ CloseNext(s)
      PROVE  UNCHANGED <<queue, closed>>
  BY <1>8 DEF Sweep, Clear, Exit, Interrupt, Idle, Settle, Acquire, CloseNext, Count, usage, worker
<1> QED
  BY <1>1, <1>2, <1>3, <1>4, <1>5, <1>6, <1>7, <1>8, ThreadAssumption
     DEF Next, Serve, Shut, Supervise, Work, Finish, Procs

\* What a client adds to a queue leaves its head alone.
LEMMA HeadKept ==
    ASSUME WorkbenchInv,
           \/ \E h \in Handlers, act \in Requests, d \in Directories : Submit(h, act, d)
           \/ \E p \in Procs : Close(p)
    PROVE  /\ UNCHANGED <<step, gone, conn, mode>>
           /\ \A s \in Sessions :
                 /\ queue[s] # <<>> => queue'[s] # <<>> /\ Call(s)' = Call(s)
                 /\ closed[s] => closed'[s] /\ queue'[s] = queue[s]
<1>1. /\ TypeOK /\ Targets /\ ClosedForGood
      /\ queue \in [Sessions -> Seq(Job)] /\ closed \in [Sessions -> BOOLEAN]
  BY DEF WorkbenchInv, TypeOK
<1>2. /\ UNCHANGED <<step, gone, conn, mode>>
      /\ \A s \in Sessions : closed[s] => closed'[s]
      /\ \/ queue' = queue
         \/ \E r \in Sessions, job \in Job : ~closed[r] /\ queue' = [queue EXCEPT ![r] = Append(queue[r], job)]
  <2>1. ASSUME NEW h \in Handlers, NEW act \in Requests, NEW d \in Directories, Submit(h, act, d)
        PROVE  <1>2
    <3>1. target[h] \in Sessions /\ UNCHANGED <<server, conn>> /\ (Refused(h) \/ Accepted(h, act, d))
      BY <1>1, <2>1, SubmitDoes
    <3>2. CASE Refused(h)
      BY <3>1, <3>2 DEF Refused, server, worker
    <3>3. CASE Accepted(h, act, d)
      BY <3>1, <3>3 DEF Accepted, server
    <3> QED
      BY <3>1, <3>2, <3>3
  <2>2. ASSUME NEW p \in Procs, Close(p)
        PROVE  <1>2
    BY <1>1, <2>2, CloseDoes DEF server
  <2> QED
    BY <2>1, <2>2
<1>3. ASSUME NEW r \in Sessions, NEW job \in Job, queue' = [queue EXCEPT ![r] = Append(queue[r], job)],
             NEW s \in Sessions
      PROVE  queue[s] # <<>> => queue'[s] # <<>> /\ Call(s)' = Call(s)
  <2>1. CASE s = r
    BY <1>1, <1>3, <2>1, Appended DEF Call
  <2>2. CASE s # r
    BY <1>1, <1>3, <2>2 DEF Call
  <2> QED
    BY <2>1, <2>2
<1>4. \A s \in Sessions : queue[s] # <<>> => queue'[s] # <<>> /\ Call(s)' = Call(s)
  BY <1>2, <1>3 DEF Call
<1>5. \A s \in Sessions : closed[s] => queue'[s] = queue[s]
  BY <1>1, <1>2
<1> QED
  BY <1>2, <1>4, <1>5

\* The steps of threads that look at no queue.
Aside ==
    \/ \E h \in Handlers : Receive(h) \/ Open(h) \/ Pop(h) \/ Watch(h) \/ Reply(h)
    \/ \E h \in Handlers, s \in Sessions : Lookup(h, s)
    \/ \E p \in Procs : Drained(p)
    \/ Sweep \/ Clear \/ Interrupt
    \/ \E s \in Sessions : Idle(s) \/ CloseNext(s)

Queueing ==
    \/ \E h \in Handlers, act \in Requests, d \in Directories : Submit(h, act, d)
    \/ \E p \in Procs : Close(p)

LEMMA AsideDoes ==
    ASSUME Aside
    PROVE  UNCHANGED <<queue, closed, step, gone, db, inTx, holder>>
BY DEF Aside, Receive, Open, Pop, Watch, Reply, Lookup, Drained, Sweep, Clear, Interrupt, Idle,
       CloseNext, usage, worker, conn

LEMMA Steps ==
    ASSUME Next
    PROVE  \/ Aside \/ Queueing \/ Exit
           \/ \E s \in Sessions : Settle(s) \/ Acquire(s) \/ Finish(s)
BY ThreadAssumption DEF Next, Serve, Shut, Supervise, Work, Finish, Aside, Queueing, Procs

LEMMA WorkersKept ==
    ASSUME WorkbenchInv, Next
    PROVE  Workers'
<1>1. /\ TypeOK /\ Jobs /\ Workers
      /\ step \in [Sessions -> WorkerSteps] /\ inTx \in [Sessions -> BOOLEAN]
      /\ db \in [Sessions -> Directories \cup {NoDb}]
      /\ queue \in [Sessions -> Seq(Job)]
  BY DEF WorkbenchInv, TypeOK
<1>2. CASE Aside \/ Exit
  <2>1. UNCHANGED <<queue, step, db, inTx>>
    BY <1>2, AsideDoes DEF Exit, worker
  <2> QED
    BY <1>1, <2>1 DEF Workers, Call
<1>3. CASE Queueing
  <2>1. /\ UNCHANGED <<step, db, inTx>>
        /\ \A s \in Sessions : queue[s] # <<>> => queue'[s] # <<>> /\ Call(s)' = Call(s)
    BY <1>3, HeadKept DEF Queueing, conn
  <2> QED
    BY <1>1, <2>1 DEF Workers
<1>4. ASSUME NEW s \in Sessions, Settle(s)
      PROVE  Workers'
  BY <1>1, <1>4 DEF Settle, Workers, Call, conn
<1>5. ASSUME NEW s \in Sessions, Acquire(s)
      PROVE  Workers'
  <2>1. /\ queue[s] # <<>> /\ ~inTx[s] /\ step' = [step EXCEPT ![s] = "locked"]
        /\ UNCHANGED <<queue, db, inTx>>
    BY <1>5 DEF Acquire, Opens, Automatic, At
  <2>2. /\ Call(s).act \in {"connect", "login", "state", "execute"}
        /\ Call(s).act # "connect" => db[s] # NoDb
    BY <1>5 DEF Acquire, Opens, Automatic, At
  <2> QED
    BY <1>1, <2>1, <2>2 DEF Workers, Call
<1>6. ASSUME NEW s \in Sessions, Finish(s)
      PROVE  Workers'
  <2>1. /\ queue' = [queue EXCEPT ![s] = Tail(queue[s])]
        /\ \E where \in {"rest", "settle"} : step' = [step EXCEPT ![s] = where]
    BY <1>1, <1>6, FinishDoes
  <2>2. /\ \A r \in Sessions \ {s} : db'[r] = db[r] /\ inTx'[r] = inTx[r]
        /\ inTx'[s] => db'[s] # NoDb
    <3>1. CASE Busy(s) \/ Decline(s)
      BY <1>1, <3>1 DEF Busy, Decline, conn, Workers
    <3>2. ASSUME NEW dir \in Directories \cup {NoDb}, Connect(s, dir)
          PROVE  <2>2
      BY <1>1, <3>2 DEF Connect, At, Workers
    <3>3. ASSUME NEW open \in BOOLEAN, Execute(s, open)
          PROVE  <2>2
      BY <1>1, <3>3 DEF Execute, At, Workers
    <3>4. CASE Disconnect(s)
      BY <1>1, <3>4 DEF Disconnect
    <3> QED
      BY <1>6, <3>1, <3>2, <3>3, <3>4 DEF Finish
  <2> QED
    BY <1>1, <2>1, <2>2 DEF Workers, Call
<1> QED
  BY <1>2, <1>3, <1>4, <1>5, <1>6, Steps

LEMMA LocksKept ==
    ASSUME WorkbenchInv, Next
    PROVE  LocksExplained'
<1>1. /\ TypeOK /\ Jobs /\ Workers /\ LocksExplained /\ mode # "exited"
      /\ step \in [Sessions -> WorkerSteps] /\ inTx \in [Sessions -> BOOLEAN]
      /\ db \in [Sessions -> Directories \cup {NoDb}]
      /\ queue \in [Sessions -> Seq(Job)]
      /\ holder \in [Directories -> Sessions \cup {Nobody}] /\ Nobody \notin Sessions
  BY ThreadAssumption DEF WorkbenchInv, TypeOK, Next
<1>2. \A d \in Directories, r \in Sessions :
         holder[d] = r <=> \/ inTx[r] /\ db[r] = d
                           \/ step[r] = "locked" /\ LockDir(r) = d
  BY <1>1 DEF LocksExplained
<1>3. CASE Aside
  BY <1>2, <1>3, AsideDoes DEF LocksExplained, LockDir, Call
<1>4. CASE Exit
  BY <1>4 DEF Exit, LocksExplained
<1>5. CASE Queueing
  <2>1. /\ UNCHANGED <<step, db, inTx, holder>>
        /\ \A r \in Sessions : queue[r] # <<>> => Call(r)' = Call(r)
    BY <1>5, HeadKept DEF Queueing, conn
  <2>2. \A r \in Sessions : step[r] = "locked" => LockDir(r)' = LockDir(r)
    BY <1>1, <2>1 DEF LockDir, Workers
  <2> QED
    BY <1>2, <2>1, <2>2 DEF LocksExplained
<1>6. ASSUME NEW s \in Sessions, Settle(s)
      PROVE  LocksExplained'
  BY <1>1, <1>2, <1>6 DEF Settle, LocksExplained, LockDir, Call, conn
<1>7. ASSUME NEW s \in Sessions, Acquire(s)
      PROVE  LocksExplained'
  <2>1. /\ ~inTx[s] /\ step[s] = "rest" /\ step' = [step EXCEPT ![s] = "locked"]
        /\ holder[LockDir(s)] = Nobody
        /\ holder' = [holder EXCEPT ![LockDir(s)] = s]
        /\ UNCHANGED <<queue, db, inTx>>
    BY <1>7 DEF Acquire, Opens, Automatic, At
  <2>2. \A r \in Sessions : LockDir(r)' = LockDir(r)
    BY <2>1 DEF LockDir, Call
  <2> QED
    BY <1>1, <1>2, <2>1, <2>2 DEF LocksExplained
<1>8. ASSUME NEW s \in Sessions, Finish(s)
      PROVE  LocksExplained'
  <2>1. /\ queue' = [queue EXCEPT ![s] = Tail(queue[s])]
        /\ \E where \in {"rest", "settle"} : step' = [step EXCEPT ![s] = where]
    BY <1>1, <1>8, FinishDoes
  <2>2. \A r \in Sessions \ {s} : db'[r] = db[r] /\ inTx'[r] = inTx[r]
    BY <1>1, <1>8 DEF Finish, Busy, Decline, Connect, Execute, Disconnect, conn
  <2>3. \A r \in Sessions \ {s} : LockDir(r)' = LockDir(r) /\ step'[r] = step[r]
    BY <1>1, <2>1, <2>2 DEF LockDir, Call
  <2>4. \A d \in Directories : /\ holder'[d] = s <=> inTx'[s] /\ db'[s] = d
                               /\ \A r \in Sessions \ {s} : holder'[d] = r <=> holder[d] = r
    <3>1. CASE Busy(s) \/ Decline(s)
      BY <1>1, <1>2, <3>1 DEF Busy, Decline, Opens, Automatic, At, conn
    <3>2. ASSUME NEW dir \in Directories \cup {NoDb}, Connect(s, dir)
          PROVE  <2>4
      BY <1>1, <1>2, <3>2 DEF Connect, At, Workers, Free
    <3>3. ASSUME NEW open \in BOOLEAN, Execute(s, open)
          PROVE  <2>4
      BY <1>1, <1>2, <3>3 DEF Execute, At, Workers, Free, LockDir
    <3>4. CASE Disconnect(s)
      BY <1>1, <1>2, <3>4 DEF Disconnect, Free
    <3> QED
      BY <1>8, <3>1, <3>2, <3>3, <3>4 DEF Finish
  <2>5. step'[s] # "locked"
    BY <1>1, <2>1
  <2> QED
    BY <1>2, <2>2, <2>3, <2>4, <2>5 DEF LocksExplained
<1> QED
  BY <1>3, <1>4, <1>5, <1>6, <1>7, <1>8, Steps

LEMMA ClosedKept ==
    ASSUME WorkbenchInv, Next
    PROVE  ClosedForGood'
<1>1. /\ TypeOK /\ Jobs /\ Workers /\ CloseLast /\ ClosedForGood
      /\ step \in [Sessions -> WorkerSteps] /\ inTx \in [Sessions -> BOOLEAN]
      /\ db \in [Sessions -> Directories \cup {NoDb}] /\ gone \in [Sessions -> BOOLEAN]
      /\ queue \in [Sessions -> Seq(Job)]
  BY DEF WorkbenchInv, TypeOK
<1>2. CASE Aside \/ Exit
  <2>1. UNCHANGED <<queue, closed, step, gone, db, inTx>>
    BY <1>2, AsideDoes DEF Exit, worker, usage
  <2> QED
    BY <1>1, <2>1 DEF ClosedForGood
<1>3. CASE Queueing
  <2>1. /\ UNCHANGED <<step, gone, db, inTx>>
        /\ \A s \in Sessions : closed[s] => closed'[s] /\ queue'[s] = queue[s]
    BY <1>3, HeadKept DEF Queueing, conn
  <2> QED
    BY <1>1, <2>1 DEF ClosedForGood
<1>4. ASSUME NEW s \in Sessions, Settle(s) \/ Acquire(s)
      PROVE  ClosedForGood'
  <2>1. /\ UNCHANGED <<queue, closed, gone, db, inTx>>
        /\ \/ step' = [step EXCEPT ![s] = "rest"]
           \/ queue[s] # <<>> /\ step' = [step EXCEPT ![s] = "locked"]
    BY <1>4 DEF Settle, Acquire, Opens, Automatic, At, Count, usage, conn
  <2> QED
    BY <1>1, <2>1 DEF ClosedForGood
<1>5. ASSUME NEW s \in Sessions, Finish(s)
      PROVE  ClosedForGood'
  <2>1. /\ queue[s] # <<>> /\ queue' = [queue EXCEPT ![s] = Tail(queue[s])] /\ closed' = closed
        /\ Call(s) = queue[s][1]
        /\ \E where \in {"rest", "settle"} : step' = [step EXCEPT ![s] = where]
        /\ \/ Call(s).act = "close" /\ gone' = [gone EXCEPT ![s] = TRUE]
           \/ Call(s).act # "close" /\ gone' = gone
    BY <1>1, <1>5, FinishDoes DEF usage
  <2>2. ~gone[s]
    BY <1>1, <2>1 DEF ClosedForGood
  <2>3. \A r \in Sessions \ {s} :
           /\ db'[r] = db[r] /\ inTx'[r] = inTx[r] /\ step'[r] = step[r]
           /\ queue'[r] = queue[r] /\ gone'[r] = gone[r]
    BY <1>1, <1>5, <2>1 DEF Finish, Busy, Decline, Connect, Execute, Disconnect, conn
  <2>4. CASE Call(s).act = "close"
    <3>1. db'[s] = NoDb /\ inTx'[s] = FALSE
      BY <1>1, <1>5, <2>4
         DEF Finish, Busy, Decline, Connect, Execute, Disconnect, Opens, Automatic, At
    <3>2. /\ Len(queue[s]) \in Nat /\ Len(queue[s]) >= 1
          /\ Tail(queue[s]) \in Seq(Job) /\ Len(Tail(queue[s])) = Len(queue[s]) - 1
      BY <1>1, <2>1, Tailed
    <3>3. Len(queue[s]) = 1 /\ closed[s]
      <4>1. 1 \in 1..Len(queue[s]) /\ queue[s][1].act = "close"
        BY <2>1, <2>4, <3>2
      <4>2. \A i \in 1..Len(queue[s]) : queue[s][i].act = "close" => i = Len(queue[s]) /\ closed[s]
        BY <1>1 DEF CloseLast
      <4>3. queue[s][1].act = "close" => 1 = Len(queue[s]) /\ closed[s]
        BY <4>1, <4>2
      <4> QED
        BY <4>1, <4>3
    <3>4. Tail(queue[s]) = <<>>
      <4>1. Len(Tail(queue[s])) = 0
        BY <3>2, <3>3
      <4>2. \A q \in Seq(Job) : Len(q) = 0 => q = <<>>
        BY Emptied
      <4> QED
        BY <3>2, <4>1, <4>2
    <3> QED
      BY <1>1, <2>1, <2>3, <3>1, <3>3, <3>4 DEF ClosedForGood
  <2>5. CASE Call(s).act # "close"
    BY <1>1, <2>1, <2>2, <2>3, <2>5 DEF ClosedForGood
  <2> QED
    BY <2>4, <2>5
<1> QED
  BY <1>2, <1>3, <1>4, <1>5, Steps

LEMMA RegisteredKept ==
    ASSUME WorkbenchInv, Next
    PROVE  Registered'
<1>1. /\ TypeOK /\ Targets /\ TableLock /\ Jobs /\ Registered
      /\ at \in [Procs -> Points] /\ target \in [Procs -> Sessions \cup {Nobody}]
      /\ sessions \subseteq made /\ made \subseteq Sessions /\ closed \in [Sessions -> BOOLEAN]
      /\ Handlers \subseteq Procs /\ Main \in Procs \ Handlers
  BY ThreadAssumption DEF WorkbenchInv, TypeOK, Procs
<1>2. ASSUME NEW h \in Handlers, Receive(h) \/ Watch(h) \/ Reply(h)
      PROVE  Registered'
  <2>1. UNCHANGED <<mode, todo, sessions, closed>>
    BY <1>2 DEF Receive, Watch, Reply, server, usage
  <2>2. /\ \E point \in Points \ {"closing", "draining"} : at' = [at EXCEPT ![h] = point]
        /\ \A p \in Procs \ {h} : target'[p] = target[p]
    BY <1>1, <1>2 DEF Receive, Watch, Reply, Return, Goto, Points
  <2> QED
    BY <1>1, <2>1, <2>2 DEF Registered
<1>3. ASSUME NEW h \in Handlers, Open(h)
      PROVE  Registered'
  <2>1. /\ at' = [at EXCEPT ![h] = "ready"] /\ target' = [target EXCEPT ![h] = Nobody]
        /\ UNCHANGED <<mode, todo, closed>>
        /\ \/ sessions' = sessions
           \/ \E s \in Sessions \ made : sessions' = sessions \cup {s}
    BY <1>1, <1>3 DEF Open, Return, Goto, server, usage
  <2> QED
    BY <1>1, <2>1 DEF Registered, Targets
<1>4. ASSUME NEW h \in Handlers, NEW s \in Sessions, Lookup(h, s)
      PROVE  Registered'
  <2>1. UNCHANGED <<mode, todo, sessions, closed>>
    BY <1>4 DEF Lookup, server, usage
  <2>2. \/ at' = [at EXCEPT ![h] = "found"] /\ target' = [target EXCEPT ![h] = s]
        \/ at' = [at EXCEPT ![h] = "ready"] /\ target' = [target EXCEPT ![h] = Nobody]
    BY <1>4 DEF Lookup, Return, Goto
  <2> QED
    BY <1>1, <2>1, <2>2 DEF Registered
<1>5. ASSUME NEW h \in Handlers, Pop(h)
      PROVE  Registered'
  <2>1. /\ UNCHANGED <<mode, todo, closed>> /\ sessions' = sessions \ {target[h]}
        /\ \/ at' = [at EXCEPT ![h] = "closing"] /\ target' = target
           \/ at' = [at EXCEPT ![h] = "ready"] /\ target' = [target EXCEPT ![h] = Nobody]
    BY <1>5 DEF Pop, Return, Goto, usage
  <2> QED
    BY <1>1, <2>1 DEF Registered
<1>6. ASSUME NEW h \in Handlers, NEW act \in Requests, NEW d \in Directories, Submit(h, act, d)
      PROVE  Registered'
  <2>1. (Refused(h) \/ Accepted(h, act, d)) /\ UNCHANGED <<mode, todo, sessions, closed>>
    BY <1>1, <1>6, SubmitDoes DEF server, Refused, Accepted
  <2>2. \/ at' = [at EXCEPT ![h] = "submitted"] /\ target' = target
        \/ at' = [at EXCEPT ![h] = "ready"] /\ target' = [target EXCEPT ![h] = Nobody]
    BY <2>1 DEF Refused, Accepted
  <2> QED
    BY <1>1, <2>1, <2>2 DEF Registered
<1>7. ASSUME NEW p \in Procs, Shut(p)
      PROVE  Registered'
  <2>1. /\ at[p] \in {"closing", "draining"} /\ UNCHANGED <<mode, todo, sessions>>
        /\ closed' = closed \/ closed' = [closed EXCEPT ![target[p]] = TRUE]
        /\ \/ at' = [at EXCEPT ![p] = "draining"] /\ target' = target
           \/ at' = [at EXCEPT ![p] = "ready"] /\ target' = [target EXCEPT ![p] = Nobody]
    <3>1. CASE Close(p)
      BY <1>1, <3>1, CloseDoes DEF server
    <3>2. CASE Drained(p)
      BY <3>2 DEF Drained, Return, Goto, server, usage
    <3> QED
      BY <1>7, <3>1, <3>2 DEF Shut
  <2> QED
    BY <1>1, <2>1 DEF Registered
<1>8. CASE Sweep
  BY <1>1, <1>8 DEF Sweep, handler, usage, Registered
<1>9. ASSUME NEW s \in Sessions, CloseNext(s)
      PROVE  Registered'
  <2>1. /\ s \in todo /\ todo' = todo \ {s} /\ UNCHANGED <<mode, sessions, closed>>
        /\ at' = [at EXCEPT ![Main] = "closing"] /\ target' = [target EXCEPT ![Main] = s]
    BY <1>9 DEF CloseNext, Goto, usage
  <2> QED
    BY <1>1, <2>1 DEF Registered
<1>10. CASE Interrupt \/ Clear \/ Exit
  BY <1>10 DEF Interrupt, Clear, Exit, Registered
<1>11. ASSUME NEW s \in Sessions, Idle(s) \/ Work(s)
       PROVE  Registered'
  <2>1. UNCHANGED <<at, target, mode, todo, sessions, closed>>
    BY <1>1, <1>11, FinishDoes
       DEF Idle, Work, Finish, Settle, Acquire, Count, handler, server, usage
  <2> QED
    BY <1>1, <2>1 DEF Registered
<1> QED
  BY <1>1, <1>2, <1>3, <1>4, <1>5, <1>6, <1>7, <1>8, <1>9, <1>10, <1>11 DEF Next, Serve, Supervise

(***************************************************************************)
(* pending counts at least the callbacks that are still to come.            *)
(***************************************************************************)
LEMMA DueFinite ==
    ASSUME NEW s
    PROVE  IsFiniteSet(Due(s)) /\ Cardinality(Due(s)) \in Nat
BY ThreadAssumption, FS_Subset, FS_CardinalityType DEF Due

\* Nothing more is due than before, and nothing was counted off.
LEMMA NothingSettled ==
    ASSUME WorkbenchInv,
           \A s \in Sessions : /\ pending'[s] \in Nat /\ pending'[s] >= pending[s]
                               /\ Due(s)' \subseteq Due(s)
                               /\ step'[s] = "settle" => step[s] = "settle"
    PROVE  Counted'
<1>1. ASSUME NEW s \in Sessions
      PROVE  Cardinality(Due(s)') \in Nat /\ Cardinality(Due(s)') <= Cardinality(Due(s))
  BY <1>1, DueFinite, FS_Subset, FS_CardinalityType
<1>2. \A s \in Sessions : pending[s] \in Nat /\ pending[s] >= Cardinality(Due(s)) + Settling(s)
  BY DEF WorkbenchInv, TypeOK, Counted
<1>3. ASSUME NEW s \in Sessions
      PROVE  pending'[s] >= Cardinality(Due(s)') + Settling(s)'
  <2>1. Settling(s) \in {0, 1} /\ Settling(s)' \in {0, 1} /\ Settling(s)' <= Settling(s)
    BY DEF Settling
  <2>2. Cardinality(Due(s)) \in Nat
    BY DueFinite
  <2> QED
    BY <1>1, <1>2, <2>1, <2>2
<1> QED
  BY <1>3 DEF Counted

LEMMA PendingDue ==
    ASSUME WorkbenchInv, NEW s \in Sessions
    PROVE  /\ pending[s] \in Nat
           /\ step[s] = "settle" => pending[s] >= 1
           /\ \A h \in Handlers : h \in Due(s) => pending[s] >= 1
<1>1. pending[s] \in Nat /\ pending[s] >= Cardinality(Due(s)) + Settling(s)
  BY DEF WorkbenchInv, TypeOK, Counted
<1>2. Cardinality(Due(s)) \in Nat /\ IsFiniteSet(Due(s))
  BY DueFinite
<1>3. Settling(s) \in {0, 1} /\ (step[s] = "settle" => Settling(s) = 1)
  BY DEF Settling
<1>4. \A h \in Handlers : h \in Due(s) => Cardinality(Due(s)) # 0
  BY <1>2, FS_EmptySet
<1> QED
  BY <1>1, <1>2, <1>3, <1>4

LEMMA CountedKept ==
    ASSUME WorkbenchInv, Next
    PROVE  Counted'
<1>1. /\ TypeOK /\ Targets /\ Jobs /\ Flags /\ Counted
      /\ at \in [Procs -> Points] /\ target \in [Procs -> Sessions \cup {Nobody}]
      /\ answered \in [Handlers -> BOOLEAN] /\ watched \in [Handlers -> BOOLEAN]
      /\ step \in [Sessions -> WorkerSteps]
      /\ Handlers \subseteq Procs /\ Main \in Procs \ Handlers /\ Nobody \notin Sessions
  BY ThreadAssumption DEF WorkbenchInv, TypeOK, Procs
<1>2. \A s \in Sessions : /\ pending[s] \in Nat /\ Cardinality(Due(s)) \in Nat
                          /\ Settling(s) \in {0, 1}
                          /\ pending[s] >= Cardinality(Due(s)) + Settling(s)
  BY <1>1, DueFinite DEF TypeOK, Counted, Settling
<1>3. pending \in [Sessions -> Nat]
  BY <1>1 DEF TypeOK
<1>4. ASSUME NEW h \in Handlers, NEW act \in Requests, NEW d \in Directories, Submit(h, act, d)
      PROVE  Counted'
  <2>0. PICK s \in Sessions : s = target[h]
    BY <1>1, <1>4, SubmitDoes
  <2>1. /\ at[h] = "found"
        /\ \/ /\ Refused(h)
              /\ pending' = pending \/ pending' = [pending EXCEPT ![s] = pending[s] + 1]
           \/ Accepted(h, act, d)
    BY <1>1, <1>4, <2>0, SubmitDoes
  <2>2. CASE Refused(h) /\ (pending' = pending \/ pending' = [pending EXCEPT ![s] = pending[s] + 1])
    <3>1. \A r \in Sessions : Due(r)' \subseteq Due(r)
      BY <1>1, <2>0, <2>1, <2>2 DEF Refused, Due
    <3>2. step' = step /\ \A r \in Sessions : pending'[r] \in Nat /\ pending'[r] >= pending[r]
      BY <1>2, <1>3, <2>1, <2>2 DEF Refused, worker
    <3> QED
      BY <3>1, <3>2, NothingSettled
  <2>3. CASE Accepted(h, act, d)
    <3>1. /\ at' = [at EXCEPT ![h] = "submitted"] /\ UNCHANGED <<target, answered, watched, step>>
          /\ pending' = [pending EXCEPT ![s] = pending[s] + 1]
      BY <2>0, <2>3 DEF Accepted
    <3>2. h \notin Due(s) /\ Due(s)' = Due(s) \cup {h}
      BY <1>1, <2>0, <2>1, <3>1 DEF Due
    <3>3. \A r \in Sessions \ {s} : Due(r)' = Due(r)
      BY <1>1, <2>0, <2>1, <3>1 DEF Due
    <3>4. Cardinality(Due(s)') = Cardinality(Due(s)) + 1
      BY <3>2, DueFinite, FS_AddElement
    <3>5. \A r \in Sessions : Settling(r)' = Settling(r)
      BY <3>1 DEF Settling
    <3>6. pending'[s] >= Cardinality(Due(s)') + Settling(s)'
      BY <1>2, <1>3, <2>1, <3>1, <3>4, <3>5
    <3>7. \A r \in Sessions \ {s} : pending'[r] >= Cardinality(Due(r)') + Settling(r)'
      BY <1>2, <1>3, <2>1, <3>1, <3>3, <3>5
    <3> QED
      BY <3>6, <3>7 DEF Counted
  <2> QED
    BY <2>1, <2>2, <2>3
<1>5. ASSUME NEW h \in Handlers, Watch(h)
      PROVE  Counted'
  <2>0. PICK s \in Sessions : s = target[h]
    <3>1. at[h] = "submitted"
      BY <1>5 DEF Watch
    <3> QED
      BY <1>1, <3>1 DEF Targets, TypeOK
  <2>1. /\ at[h] = "submitted" /\ at' = [at EXCEPT ![h] = "waiting"]
        /\ UNCHANGED <<target, answered, step>>
        /\ \/ /\ answered[h] /\ watched' = watched
              /\ pending' = [pending EXCEPT ![s] = pending[s] - 1]
           \/ /\ ~answered[h] /\ watched' = [watched EXCEPT ![h] = TRUE]
              /\ pending' = pending
    BY <1>1, <1>5, <2>0 DEF Watch, Count, Goto, worker
  <2>2. CASE answered[h] /\ watched' = watched /\ pending' = [pending EXCEPT ![s] = pending[s] - 1]
    <3>1. h \in Due(s) /\ Due(s)' = Due(s) \ {h}
      BY <1>1, <2>0, <2>1, <2>2 DEF Due
    <3>2. \A r \in Sessions \ {s} : Due(r)' = Due(r)
      BY <1>1, <2>0, <2>1, <2>2 DEF Due
    <3>3. Cardinality(Due(s)') = Cardinality(Due(s)) - 1
      BY <3>1, DueFinite, FS_RemoveElement
    <3>4. \A r \in Sessions : Settling(r)' = Settling(r)
      BY <2>1 DEF Settling
    <3>5. s \in Sessions /\ pending' = [pending EXCEPT ![s] = pending[s] - 1]
      BY <2>1, <2>2
    <3>6. pending'[s] >= Cardinality(Due(s)') + Settling(s)'
      BY <1>2, <1>3, <3>3, <3>4, <3>5
    <3>7. \A r \in Sessions \ {s} : pending'[r] >= Cardinality(Due(r)') + Settling(r)'
      BY <1>2, <1>3, <3>2, <3>4, <3>5
    <3> QED
      BY <3>6, <3>7 DEF Counted
  <2>3. CASE ~answered[h] /\ watched' = [watched EXCEPT ![h] = TRUE] /\ pending' = pending
    <3>1. \A r \in Sessions : Due(r)' \subseteq Due(r)
      BY <1>1, <2>1, <2>3 DEF Due
    <3> QED
      BY <1>2, <2>1, <2>3, <3>1, NothingSettled
  <2> QED
    BY <2>1, <2>2, <2>3
<1>6. ASSUME NEW s \in Sessions, Finish(s)
      PROVE  Counted'
  <2> DEFINE k == Call(s).who
  <2>1. /\ step[s] \in {"rest", "locked"} /\ UNCHANGED <<at, target, watched, pending>>
        /\ \/ answered' = answered /\ step' = [step EXCEPT ![s] = "rest"]
           \/ /\ k \in Handlers /\ target[k] = s
              /\ at[k] \in {"submitted", "waiting"} /\ ~answered[k]
              /\ at[k] = "waiting" => watched[k]
              /\ answered' = [answered EXCEPT ![k] = TRUE]
              /\ step' = [step EXCEPT ![s] = IF watched[k] THEN "settle" ELSE "rest"]
    BY <1>1, <1>6, FinishDoes DEF usage
  <2> HIDE DEF k
  <2>2. \A r \in Sessions : Due(r)' \subseteq Due(r)
    BY <1>1, <2>1 DEF Due
  <2>3. CASE step' = [step EXCEPT ![s] = "rest"]
    BY <1>1, <1>2, <2>1, <2>2, <2>3, NothingSettled
  <2>4. CASE /\ k \in Handlers /\ target[k] = s /\ watched[k] /\ ~answered[k]
             /\ answered' = [answered EXCEPT ![k] = TRUE]
             /\ step' = [step EXCEPT ![s] = "settle"]
    <3>1. at[k] = "waiting"
      BY <1>1, <2>4 DEF Flags
    <3>2. k \in Due(s) /\ Due(s)' = Due(s) \ {k}
      BY <1>1, <2>1, <2>4, <3>1 DEF Due
    <3>3. Cardinality(Due(s)') = Cardinality(Due(s)) - 1
      BY <3>2, DueFinite, FS_RemoveElement
    <3>4. \A r \in Sessions \ {s} : Due(r)' = Due(r)
      BY <1>1, <2>1, <2>4 DEF Due
    <3>5. /\ Settling(s) = 0 /\ Settling(s)' = 1
          /\ \A r \in Sessions \ {s} : Settling(r)' = Settling(r)
      BY <1>1, <2>1, <2>4 DEF Settling
    <3>6. pending'[s] >= Cardinality(Due(s)') + Settling(s)'
      BY <1>2, <2>1, <3>3, <3>5
    <3>7. \A r \in Sessions \ {s} : pending'[r] >= Cardinality(Due(r)') + Settling(r)'
      BY <1>2, <2>1, <3>4, <3>5
    <3> QED
      BY <3>6, <3>7 DEF Counted
  <2> QED
    BY <1>1, <2>1, <2>3, <2>4
<1>7. ASSUME NEW s \in Sessions, Settle(s)
      PROVE  Counted'
  <2>1. /\ step[s] = "settle" /\ step' = [step EXCEPT ![s] = "rest"]
        /\ pending' = [pending EXCEPT ![s] = pending[s] - 1]
        /\ UNCHANGED <<at, target, answered, watched>>
    BY <1>7 DEF Settle, Count, handler
  <2>2. \A r \in Sessions : Due(r)' = Due(r)
    BY <2>1 DEF Due
  <2>3. /\ Settling(s) = 1 /\ Settling(s)' = 0
        /\ \A r \in Sessions \ {s} : Settling(r)' = Settling(r)
    BY <1>1, <2>1 DEF Settling
  <2>4. pending'[s] >= Cardinality(Due(s)') + Settling(s)'
    BY <1>2, <1>3, <2>1, <2>2, <2>3
  <2>5. \A r \in Sessions \ {s} : pending'[r] >= Cardinality(Due(r)') + Settling(r)'
    BY <1>2, <1>3, <2>1, <2>2, <2>3
  <2> QED
    BY <2>4, <2>5 DEF Counted
<1>8. ASSUME NEW p \in Procs, at[p] \notin {"submitted", "waiting"} \/ (p \in Handlers /\ answered[p]
                                                                         /\ at[p] = "waiting"),
             NEW point \in Points \ {"submitted", "waiting"}, at' = [at EXCEPT ![p] = point],
             \A q \in Procs \ {p} : target'[q] = target[q],
             \A h \in Handlers \ {p} : answered'[h] = answered[h] /\ watched'[h] = watched[h],
             UNCHANGED <<pending, step>>
      PROVE  Counted'
  <2>1. \A r \in Sessions : Due(r)' \subseteq Due(r)
    BY <1>1, <1>8 DEF Due
  <2> QED
    BY <1>2, <1>8, <2>1, NothingSettled
<1>9. ASSUME NEW h \in Handlers,
             Receive(h) \/ Open(h) \/ Pop(h) \/ Reply(h) \/ \E s \in Sessions : Lookup(h, s)
      PROVE  Counted'
  <2>1. /\ at[h] \notin {"submitted", "waiting"} \/ (answered[h] /\ at[h] = "waiting")
        /\ \E point \in Points \ {"submitted", "waiting"} : at' = [at EXCEPT ![h] = point]
        /\ UNCHANGED <<pending, step>>
    BY <1>9 DEF Receive, Open, Pop, Reply, Lookup, Return, Goto, Points, usage, worker
  <2>2. /\ \A q \in Procs \ {h} : target'[q] = target[q]
        /\ \A k \in Handlers \ {h} : answered'[k] = answered[k] /\ watched'[k] = watched[k]
    BY <1>1, <1>9 DEF Receive, Open, Pop, Reply, Lookup, Return
  <2> QED
    BY <1>1, <1>8, <2>1, <2>2
<1>10. ASSUME NEW p \in Procs, Shut(p)
       PROVE  Counted'
  <2>1. /\ at[p] \in {"closing", "draining"} /\ UNCHANGED <<answered, watched, pending, step>>
        /\ at' = [at EXCEPT ![p] = "draining"] \/ at' = [at EXCEPT ![p] = "ready"]
        /\ target' = target \/ target' = [target EXCEPT ![p] = Nobody]
    <3>1. CASE Close(p)
      BY <1>1, <3>1, CloseDoes
    <3>2. CASE Drained(p)
      BY <3>2 DEF Drained, Return, Goto, usage, worker
    <3> QED
      BY <1>10, <3>1, <3>2 DEF Shut
  <2>2. \A q \in Procs \ {p} : target'[q] = target[q]
    BY <1>1, <2>1
  <2> QED
    BY <1>8, <2>1, <2>2 DEF Points
<1>11. ASSUME Interrupt \/ \E s \in Sessions : CloseNext(s)
       PROVE  Counted'
  <2>1. /\ at[Main] \notin {"submitted", "waiting"} /\ UNCHANGED <<answered, watched, pending, step>>
        /\ at' = [at EXCEPT ![Main] = "ready"] \/ at' = [at EXCEPT ![Main] = "closing"]
        /\ \A q \in Procs \ {Main} : target'[q] = target[q]
    BY <1>1, <1>11 DEF Interrupt, CloseNext, Return, Goto, usage, worker, Targets
  <2> QED
    BY <1>1, <1>8, <2>1 DEF Points
<1>12. ASSUME Sweep \/ Clear \/ Exit \/ \E s \in Sessions : Idle(s) \/ Acquire(s)
       PROVE  Counted'
  <2>1. /\ UNCHANGED <<at, target, answered, watched, pending>>
        /\ \/ step' = step
           \/ \E s \in Sessions : step' = [step EXCEPT ![s] = "locked"]
    BY <1>12 DEF Sweep, Clear, Exit, Idle, Acquire, handler, usage, worker
  <2>2. \A r \in Sessions : Due(r)' = Due(r) /\ (step'[r] = "settle" => step[r] = "settle")
    BY <1>1, <2>1 DEF Due
  <2> QED
    BY <1>2, <2>1, <2>2, NothingSettled
<1> QED
  BY <1>1, <1>4, <1>5, <1>6, <1>7, <1>9, <1>10, <1>11, <1>12 DEF Next, Serve, Supervise, Work, Finish

LEMMA TypesKept ==
    ASSUME WorkbenchInv, Next
    PROVE  TypeOK'
<1>1. /\ TypeOK /\ TableLock /\ Targets /\ Jobs
      /\ at \in [Procs -> Points] /\ target \in [Procs -> Sessions \cup {Nobody}]
      /\ answered \in [Handlers -> BOOLEAN] /\ watched \in [Handlers -> BOOLEAN]
      /\ slock \in Handlers \cup {Nobody} /\ mode \in Modes /\ todo \subseteq Sessions
      /\ made \subseteq Sessions /\ sessions \subseteq made
      /\ Handlers \subseteq Procs /\ Main \in Procs
  BY DEF WorkbenchInv, TypeOK, Procs
<1>2. /\ closed \in [Sessions -> BOOLEAN] /\ pending \in [Sessions -> Nat]
      /\ idle \in [Sessions -> BOOLEAN] /\ queue \in [Sessions -> Seq(Job)]
      /\ step \in [Sessions -> WorkerSteps] /\ gone \in [Sessions -> BOOLEAN]
      /\ db \in [Sessions -> Directories \cup {NoDb}] /\ inTx \in [Sessions -> BOOLEAN]
      /\ holder \in [Directories -> Sessions \cup {Nobody}]
  BY <1>1 DEF TypeOK
<1>3. ASSUME NEW h \in Handlers, Receive(h) \/ Open(h) \/ Pop(h) \/ Reply(h)
      PROVE  TypeOK'
  <2>1. UNCHANGED <<todo, usage, worker, conn>>
    BY <1>3 DEF Receive, Open, Pop, Reply, server
  <2>2. at' \in [Procs -> Points] /\ target' \in [Procs -> Sessions \cup {Nobody}]
    BY <1>1, <1>3 DEF Receive, Open, Pop, Reply, Return, Goto, Points
  <2>3. /\ answered' \in [Handlers -> BOOLEAN] /\ watched' \in [Handlers -> BOOLEAN]
        /\ slock' \in Handlers \cup {Nobody} /\ mode' = mode
    BY <1>1, <1>3 DEF Receive, Open, Pop, Reply, server
  <2>4. made' \subseteq Sessions /\ sessions' \subseteq made'
    BY <1>1, <1>3 DEF Receive, Open, Pop, Reply, server
  <2> QED
    BY <1>1, <1>2, <2>1, <2>2, <2>3, <2>4 DEF TypeOK, usage, worker, conn
<1>4. ASSUME NEW h \in Handlers, NEW s \in Sessions, Lookup(h, s)
      PROVE  TypeOK'
  <2>1. UNCHANGED <<answered, watched, server, usage, worker, conn>>
    BY <1>4 DEF Lookup
  <2>2. /\ at' \in [Procs -> Points] /\ target' \in [Procs -> Sessions \cup {Nobody}]
        /\ slock' \in Handlers \cup {Nobody}
    BY <1>1, <1>4 DEF Lookup, Return, Goto, Points
  <2> QED
    BY <1>1, <1>2, <2>1, <2>2 DEF TypeOK, server, usage, worker, conn
<1>5. ASSUME NEW h \in Handlers, NEW act \in Requests, NEW d \in Directories, Submit(h, act, d)
      PROVE  TypeOK'
  <2> DEFINE s == target[h]
             job == [act |-> act, who |-> h, dir |-> d]
  <2>1. /\ s \in Sessions /\ UNCHANGED <<server, conn>>
        /\ \/ /\ Refused(h)
              /\ \/ UNCHANGED <<pending, idle>>
                 \/ /\ pending' = [pending EXCEPT ![s] = pending[s] + 1]
                    /\ idle' = [idle EXCEPT ![s] = FALSE]
           \/ Accepted(h, act, d)
    BY <1>1, <1>5, SubmitDoes
  <2>2. pending' \in [Sessions -> Nat] /\ idle' \in [Sessions -> BOOLEAN]
    <3>1. \/ UNCHANGED <<pending, idle>>
          \/ /\ pending' = [pending EXCEPT ![s] = pending[s] + 1]
             /\ idle' = [idle EXCEPT ![s] = FALSE]
      BY <2>1 DEF Accepted
    <3>2. pending[s] + 1 \in Nat
      BY <1>2, <2>1
    <3> HIDE DEF s
    <3> QED
      BY <1>2, <3>1, <3>2
  <2>3. /\ at' \in [Procs -> Points] /\ target' \in [Procs -> Sessions \cup {Nobody}]
        /\ slock' \in Handlers \cup {Nobody} /\ UNCHANGED <<answered, watched, closed, step, gone>>
    BY <1>1, <2>1 DEF Refused, Accepted, Points, worker
  <2>4. queue' \in [Sessions -> Seq(Job)]
    <3>1. CASE Refused(h)
      BY <1>2, <3>1 DEF Refused, worker
    <3>2. CASE Accepted(h, act, d)
      <4>1. job \in Job /\ queue' = [queue EXCEPT ![s] = Append(queue[s], job)]
        BY <3>2 DEF Accepted
      <4>2. Append(queue[s], job) \in Seq(Job)
        BY <1>2, <2>1, <4>1, Appended
      <4> QED
        BY <1>2, <4>1, <4>2
    <3> QED
      BY <2>1, <3>1, <3>2
  <2> QED
    BY <1>1, <1>2, <2>1, <2>2, <2>3, <2>4 DEF TypeOK, server, conn
<1>6. ASSUME NEW h \in Handlers, Watch(h)
      PROVE  TypeOK'
  <2>1. /\ at[h] = "submitted" /\ at' = [at EXCEPT ![h] = "waiting"] /\ slock' = Nobody
        /\ UNCHANGED <<target, answered, server, closed, worker, conn>>
        /\ \/ watched' = watched /\ Count(target[h], pending[target[h]] - 1)
           \/ watched' = [watched EXCEPT ![h] = TRUE] /\ UNCHANGED <<pending, idle>>
    BY <1>6 DEF Watch, Goto
  <2>2. target[h] \in Sessions /\ h \in Due(target[h])
    BY <1>1, <2>1 DEF Targets, Due
  <2>3. pending[target[h]] \in Nat /\ pending[target[h]] >= 1
    BY <2>2, PendingDue
  <2>4. pending' \in [Sessions -> Nat] /\ idle' \in [Sessions -> BOOLEAN]
    <3>1. PICK n \in Nat : n = pending[target[h]] - 1
      BY <2>3
    <3>2. \/ UNCHANGED <<pending, idle>>
          \/ /\ pending' = [pending EXCEPT ![target[h]] = n]
             /\ idle' = [idle EXCEPT ![target[h]] = FALSE]
      BY <2>1, <3>1 DEF Count
    <3>3. CASE UNCHANGED <<pending, idle>>
      BY <1>2, <3>3
    <3>4. CASE /\ pending' = [pending EXCEPT ![target[h]] = n]
               /\ idle' = [idle EXCEPT ![target[h]] = FALSE]
      BY <1>2, <3>4
    <3> QED
      BY <3>2, <3>3, <3>4
  <2>5. at' \in [Procs -> Points] /\ watched' \in [Handlers -> BOOLEAN]
    BY <1>1, <2>1 DEF Points
  <2> QED
    BY <1>1, <1>2, <2>1, <2>4, <2>5 DEF TypeOK, server, worker, conn
<1>7. ASSUME NEW p \in Procs, Close(p)
      PROVE  TypeOK'
  <2> DEFINE s == target[p]
             job == [act |-> "close"]
  <2>1. /\ s \in Sessions /\ closed' = [closed EXCEPT ![s] = TRUE]
        /\ UNCHANGED <<answered, watched, slock, server, pending, idle, step, gone, conn>>
        /\ \/ /\ at' = [at EXCEPT ![p] = "ready"] /\ target' = [target EXCEPT ![p] = Nobody]
              /\ queue' = queue
           \/ /\ at' = [at EXCEPT ![p] = "draining"] /\ target' = target
              /\ job \in Job
              /\ queue' = [queue EXCEPT ![s] = Append(queue[s], job)]
    BY <1>1, <1>7, CloseDoes
  <2>2. job \in Job => Append(queue[s], job) \in Seq(Job)
    BY <1>2, <2>1, Appended
  <2> HIDE DEF job
  <2>3. queue' \in [Sessions -> Seq(Job)] /\ closed' \in [Sessions -> BOOLEAN]
    BY <1>2, <2>1, <2>2
  <2>4. at' \in [Procs -> Points] /\ target' \in [Procs -> Sessions \cup {Nobody}]
    BY <1>1, <2>1 DEF Points
  <2> QED
    BY <1>1, <1>2, <2>1, <2>3, <2>4 DEF TypeOK, server, conn
<1>8. ASSUME NEW p \in Procs, Drained(p)
      PROVE  TypeOK'
  <2>1. /\ at' = [at EXCEPT ![p] = "ready"] /\ target' = [target EXCEPT ![p] = Nobody]
        /\ UNCHANGED <<answered, watched, slock, server, usage, worker, conn>>
    BY <1>8 DEF Drained, Return, Goto
  <2>2. at' \in [Procs -> Points] /\ target' \in [Procs -> Sessions \cup {Nobody}]
    BY <1>1, <2>1 DEF Points
  <2> QED
    BY <1>1, <1>2, <2>1, <2>2 DEF TypeOK, server, usage, worker, conn
<1>9. ASSUME Sweep \/ Clear \/ Interrupt \/ \E s \in Sessions : CloseNext(s)
      PROVE  TypeOK'
  <2>1. UNCHANGED <<answered, watched, slock, made, closed, pending, worker, conn>>
    BY <1>9 DEF Sweep, Clear, Interrupt, CloseNext, handler, usage
  <2>2. at' \in [Procs -> Points] /\ target' \in [Procs -> Sessions \cup {Nobody}]
    BY <1>1, <1>9 DEF Sweep, Clear, Interrupt, CloseNext, Return, Goto, Points, handler
  <2>3. /\ mode' \in Modes /\ todo' \subseteq Sessions /\ sessions' \subseteq made
        /\ idle' \in [Sessions -> BOOLEAN]
    BY <1>1, <1>2, <1>9 DEF Sweep, Clear, Interrupt, CloseNext, Modes, usage
  <2> QED
    BY <1>1, <1>2, <2>1, <2>2, <2>3 DEF TypeOK, worker, conn
<1>10. CASE Exit
  <2>1. mode' \in Modes /\ holder' \in [Directories -> Sessions \cup {Nobody}]
    BY <1>10 DEF Exit, Modes
  <2> QED
    BY <1>1, <1>2, <1>10, <2>1 DEF Exit, TypeOK, handler, usage, worker
<1>11. ASSUME NEW s \in Sessions, Idle(s)
       PROVE  TypeOK'
  BY <1>1, <1>2, <1>11 DEF Idle, TypeOK, handler, server, worker, conn
<1>12. ASSUME NEW s \in Sessions, Settle(s)
       PROVE  TypeOK'
  <2>1. pending[s] \in Nat /\ pending[s] >= 1
    BY <1>12, PendingDue DEF Settle
  <2>2. /\ pending' \in [Sessions -> Nat] /\ idle' \in [Sessions -> BOOLEAN]
        /\ step' \in [Sessions -> WorkerSteps]
        /\ UNCHANGED <<handler, server, closed, queue, gone, conn>>
    BY <1>2, <1>12, <2>1 DEF Settle, Count, WorkerSteps
  <2> QED
    BY <1>1, <1>2, <2>2 DEF TypeOK, handler, server, conn
<1>13. ASSUME NEW s \in Sessions, Acquire(s)
       PROVE  TypeOK'
  <2>1. /\ step' = [step EXCEPT ![s] = "locked"]
        /\ holder' = [holder EXCEPT ![LockDir(s)] = s]
        /\ UNCHANGED <<handler, server, usage, queue, gone, db, inTx>>
    BY <1>13 DEF Acquire
  <2>2. /\ step' \in [Sessions -> WorkerSteps]
        /\ holder' \in [Directories -> Sessions \cup {Nobody}]
    BY <1>2, <2>1 DEF WorkerSteps
  <2> QED
    BY <1>1, <1>2, <2>1, <2>2 DEF TypeOK, handler, server, usage
<1>14. ASSUME NEW s \in Sessions, Finish(s)
       PROVE  TypeOK'
  <2>1. /\ queue[s] # <<>> /\ queue' = [queue EXCEPT ![s] = Tail(queue[s])]
        /\ UNCHANGED <<at, target, watched, slock, server, usage>>
        /\ answered' = answered \/ \E h \in Handlers : answered' = [answered EXCEPT ![h] = TRUE]
        /\ gone' = gone \/ gone' = [gone EXCEPT ![s] = TRUE]
        /\ \E where \in {"rest", "settle"} : step' = [step EXCEPT ![s] = where]
    BY <1>1, <1>14, FinishDoes
  <2>2. Tail(queue[s]) \in Seq(Job)
    BY <1>2, <2>1, Tailed
  <2>3. /\ queue' \in [Sessions -> Seq(Job)] /\ answered' \in [Handlers -> BOOLEAN]
        /\ gone' \in [Sessions -> BOOLEAN] /\ step' \in [Sessions -> WorkerSteps]
    <3>1. queue' \in [Sessions -> Seq(Job)]
      BY <1>2, <2>1, <2>2
    <3>2. answered' \in [Handlers -> BOOLEAN]
      BY <1>1, <2>1
    <3>3. gone' \in [Sessions -> BOOLEAN]
      BY <1>2, <2>1
    <3>4. step' \in [Sessions -> WorkerSteps]
      <4>1. PICK where \in {"rest", "settle"} : step' = [step EXCEPT ![s] = where]
        BY <2>1
      <4>2. where \in WorkerSteps
        BY DEF WorkerSteps
      <4> QED
        BY <1>2, <4>1, <4>2
    <3> QED
      BY <3>1, <3>2, <3>3, <3>4
  <2>4. /\ db' \in [Sessions -> Directories \cup {NoDb}] /\ inTx' \in [Sessions -> BOOLEAN]
        /\ holder' \in [Directories -> Sessions \cup {Nobody}]
    <3>1. CASE Busy(s) \/ Decline(s)
      BY <1>2, <3>1 DEF Busy, Decline, conn
    <3>2. ASSUME NEW dir \in Directories \cup {NoDb}, Connect(s, dir)
          PROVE  /\ db' \in [Sessions -> Directories \cup {NoDb}]
                 /\ inTx' \in [Sessions -> BOOLEAN]
                 /\ holder' \in [Directories -> Sessions \cup {Nobody}]
      BY <1>2, <3>2 DEF Connect, Free
    <3>3. ASSUME NEW open \in BOOLEAN, Execute(s, open)
          PROVE  /\ db' \in [Sessions -> Directories \cup {NoDb}]
                 /\ inTx' \in [Sessions -> BOOLEAN]
                 /\ holder' \in [Directories -> Sessions \cup {Nobody}]
      BY <1>2, <3>3 DEF Execute, Free
    <3>4. CASE Disconnect(s)
      BY <1>2, <3>4 DEF Disconnect, Free
    <3> QED
      BY <1>14, <3>1, <3>2, <3>3, <3>4 DEF Finish
  <2> QED
    BY <1>1, <1>2, <2>1, <2>3, <2>4 DEF TypeOK, server, usage
<1> QED
  BY <1>3, <1>4, <1>5, <1>6, <1>7, <1>8, <1>9, <1>10, <1>11, <1>12, <1>13, <1>14, ThreadAssumption
     DEF Next, Serve, Shut, Supervise, Work, Finish, Procs

-----------------------------------------------------------------------------
(***************************************************************************)
(* The theorems.                                                            *)
(***************************************************************************)
LEMMA InitHolds == Init => WorkbenchInv
<1> SUFFICES ASSUME Init
             PROVE  WorkbenchInv
  OBVIOUS
<1>1. TypeOK /\ TableLock /\ Targets /\ Flags
  BY ThreadAssumption, WorkbenchAssumption
     DEF Init, TypeOK, TableLock, Targets, Flags, Points, Modes, WorkerSteps, Procs
<1>2. \A s \in Sessions : queue[s] = <<>> /\ step[s] = "rest" /\ ~gone[s] /\ ~inTx[s]
  BY DEF Init
<1>3. Jobs /\ CloseLast
  BY <1>2 DEF Jobs, CloseLast
<1>4. Workers /\ ClosedForGood /\ Registered
  BY <1>2 DEF Init, Workers, ClosedForGood, Registered
<1>5. LocksExplained
  BY <1>2, ThreadAssumption DEF Init, LocksExplained
<1>6. Counted
  <2>1. \A s \in Sessions : Due(s) = {} /\ Settling(s) = 0 /\ pending[s] = 0
    BY ThreadAssumption DEF Init, Due, Settling, Procs
  <2> QED
    BY <2>1, FS_EmptySet DEF Counted
<1> QED
  BY <1>1, <1>3, <1>4, <1>5, <1>6 DEF WorkbenchInv

LEMMA InvKept == WorkbenchInv /\ [Next]_vars => WorkbenchInv'
<1>1. CASE UNCHANGED vars
  BY <1>1 DEF vars, WorkbenchInv, TypeOK, TableLock, Targets, Flags, Jobs, Queued, CloseLast, Counted,
              Due, Settling, Workers, Call, LocksExplained, LockDir, Registered, ClosedForGood
<1>2. WorkbenchInv /\ Next => WorkbenchInv'
  BY TypesKept, TableLockKept, TargetsKept, FlagsKept, JobsKept, CloseLastKept, CountedKept,
     WorkersKept, LocksKept, RegisteredKept, ClosedKept DEF WorkbenchInv
<1> QED
  BY <1>1, <1>2

THEOREM WorkbenchInvariant == Spec => []WorkbenchInv
  BY InitHolds, InvKept, PTL DEF Spec

\* Threads, queues, connections and locks keep their types; no callback is
\* counted off twice.
THEOREM WorkbenchTypes == Spec => []TypeOK
<1>1. WorkbenchInv => TypeOK
  BY DEF WorkbenchInv
<1> QED
  BY <1>1, WorkbenchInvariant, PTL

\* However many threads race with the close of a session, its disconnect is
\* the last call of its worker.
THEOREM DisconnectIsLast == Spec => []ClosedForGood
<1>1. WorkbenchInv => ClosedForGood
  BY DEF WorkbenchInv
<1> QED
  BY <1>1, WorkbenchInvariant, PTL

\* Nobody holds the lock of a directory without a transaction or a call that
\* is running.
THEOREM EveryLockExplained == Spec => []LocksExplained
<1>1. WorkbenchInv => LocksExplained
  BY DEF WorkbenchInv
<1> QED
  BY <1>1, WorkbenchInvariant, PTL

\* The sweep takes no session that has an accepted call left: pending counts
\* every one of them.
THEOREM SweepTakesIdle == Spec => NeverCutOff
<1> DEFINE Cut == \A s \in todo' \ todo : mode' = "serving" => queue[s] = <<>> /\ step[s] = "rest"
<1>1. ASSUME WorkbenchInv, Next
      PROVE  Cut
  <2>1. CASE Sweep
    <3>1. ASSUME NEW s \in todo' \ todo
          PROVE  queue[s] = <<>> /\ step[s] = "rest"
      <4>1. s \in sessions /\ s \in Sessions /\ pending[s] = 0 /\ mode = "serving"
        BY <1>1, <2>1, <3>1 DEF Sweep, Expired, WorkbenchInv, TypeOK
      <4>2. step[s] # "settle" /\ \A h \in Handlers : h \notin Due(s)
        BY <1>1, <4>1, PendingDue
      <4>3. ~closed[s]
        BY <1>1, <4>1 DEF WorkbenchInv, Registered
      <4>4. queue[s] \in Seq(Job) /\ step[s] \in WorkerSteps
        BY <1>1, <4>1 DEF WorkbenchInv, TypeOK
      <4>5. queue[s] = <<>>
        <5>1. SUFFICES ASSUME queue[s] # <<>>
                       PROVE  FALSE
          OBVIOUS
        <5>2. 1 \in 1..Len(queue[s]) /\ queue[s][1] \in Job
          BY <4>4, <5>1, Tailed
        <5>3. queue[s][1].act # "close"
          BY <1>1, <4>1, <4>3, <5>2 DEF WorkbenchInv, CloseLast
        <5>4. queue[s][1].who \in Handlers
          BY <5>2, <5>3 DEF Job
        <5>5. Queued(s, 1)
          BY <1>1, <4>1, <5>2 DEF WorkbenchInv, Jobs
        <5> QED
          BY <4>2, <5>3, <5>4, <5>5 DEF Queued, Due
      <4>6. step[s] # "locked"
        BY <1>1, <4>1, <4>5 DEF WorkbenchInv, Workers
      <4> QED
        BY <4>2, <4>4, <4>5, <4>6 DEF WorkerSteps
    <3> QED
      BY <3>1
  <2>2. ASSUME ~Sweep, mode' = "serving"
        PROVE  todo' \subseteq todo
    <3>1. ASSUME NEW h \in Handlers, Receive(h) \/ Open(h) \/ Serve(h) \/ \E s \in Sessions : Lookup(h, s)
          PROVE  todo' = todo
      BY <3>1 DEF Receive, Open, Serve, Pop, Submit, Watch, Reply, Lookup, server
    <3>2. ASSUME NEW p \in Procs, Shut(p)
          PROVE  todo' = todo
      BY <3>2 DEF Shut, Close, Drained, server
    <3>3. ASSUME Clear \/ Exit \/ Interrupt \/ \E s \in Sessions : CloseNext(s)
          PROVE  todo' \subseteq todo
      BY <2>2, <3>3 DEF Clear, Exit, Interrupt, CloseNext
    <3>4. ASSUME NEW s \in Sessions, Idle(s) \/ Work(s)
          PROVE  todo' = todo
      <4>1. TypeOK /\ Jobs
        BY <1>1 DEF WorkbenchInv
      <4> QED
        BY <3>4, <4>1, FinishDoes DEF Idle, Work, Finish, Settle, Acquire, server
    <3> QED
      BY <1>1, <2>2, <3>1, <3>2, <3>3, <3>4, ThreadAssumption DEF Next, Supervise, Procs
  <2> QED
    BY <2>1, <2>2
<1>2. WorkbenchInv /\ [Next]_vars => [Cut]_vars
  BY <1>1
<1> QED
  BY <1>2, WorkbenchInvariant, PTL DEF Spec, NeverCutOff
=============================================================================
