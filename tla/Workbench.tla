------------------------------ MODULE Workbench ------------------------------
(***************************************************************************)
(* The browser workbench: WorkbenchServer and Handler (gui/server.py) over  *)
(* Session (gui/session.py).  A handler thread per request passes calls to  *)
(* the one worker thread of the session; the main thread closes sessions    *)
(* nobody uses and, after an interrupt, all of them.                        *)
(*                                                                         *)
(* What a call does to the data is left to the other modules: here a        *)
(* connection is open or not, in a transaction or not, poisoned or not, and *)
(* holds the lock of its directory or not.                                  *)
(***************************************************************************)
EXTENDS Naturals, Sequences, FiniteSets

CONSTANTS
    Handlers,     \* handler threads, each serving one request after another
    Main,         \* the thread of serve_forever
    Sessions,     \* bound: the sessions a run may create
    Cap,          \* sessions registered at once (16)
    Directories,  \* database directories, each with its lock
    Requests,     \* the calls clients send, beside "session" and "close"
    Nobody, NoDb

Calls == {"connect", "login", "state", "execute", "logout", "disconnect"}
Procs == Handlers \cup {Main}

\* An entry of a worker's queue; the call of a handler completes its future.
Job == [act: Calls, who: Handlers, dir: Directories] \cup [act: {"close"}]

ASSUME ThreadAssumption ==
    /\ IsFiniteSet(Handlers) /\ Main \notin Handlers /\ Nobody \notin Procs \cup Sessions
ASSUME WorkbenchAssumption ==
    /\ Cap \in Nat \ {0} /\ Requests \subseteq Calls
    /\ NoDb \notin Directories

VARIABLES
    at,        \* at[p]: the point thread p has reached
    target,    \* target[p]: the session thread p is working on
    answered,  \* answered[h]: the future h waits for is done
    watched,   \* watched[h]: its add_done_callback was called before that
    slock,     \* who holds sessions_lock between two steps
    mode,      \* the main thread: serving, stopping, down or exited
    todo,      \* the sessions the main thread still has to close
    sessions,  \* WorkbenchServer.sessions
    made,      \* the sessions created so far
    closed,    \* Session.closed
    pending,   \* Session.pending
    idle,      \* last_used lies more than IDLE_SECONDS back
    queue,     \* the work queue of the session's executor
    step,      \* how far the worker is with it
    gone,      \* the _disconnect of Session.close is done
    db,        \* Session.db: the directory of the open connection
    inTx,      \* db.in_transaction
    holder     \* holder[d]: the session holding the lock of directory d

handler == <<at, target, answered, watched, slock>>
server == <<mode, todo, sessions, made>>
usage == <<closed, pending, idle>>
worker == <<queue, step, gone>>
conn == <<db, inTx, holder>>
vars == <<at, target, answered, watched, slock, mode, todo, sessions, made, closed,
          pending, idle, queue, step, gone, db, inTx, holder>>

Points == {"ready", "received", "found", "submitted", "waiting",
           "closing", "draining"}
Modes == {"serving", "stopping", "down", "exited"}
WorkerSteps == {"rest", "locked", "settle"}

Init ==
    /\ at = [p \in Procs |-> "ready"]
    /\ target = [p \in Procs |-> Nobody]
    /\ answered = [h \in Handlers |-> FALSE]
    /\ watched = [h \in Handlers |-> FALSE]
    /\ slock = Nobody
    /\ mode = "serving" /\ todo = {}
    /\ sessions = {} /\ made = {}
    /\ closed = [s \in Sessions |-> FALSE]
    /\ pending = [s \in Sessions |-> 0]
    /\ idle = [s \in Sessions |-> FALSE]
    /\ queue = [s \in Sessions |-> <<>>]
    /\ step = [s \in Sessions |-> "rest"]
    /\ gone = [s \in Sessions |-> FALSE]
    /\ db = [s \in Sessions |-> NoDb]
    /\ inTx = [s \in Sessions |-> FALSE]
    /\ holder = [d \in Directories |-> Nobody]

Goto(p, point) == at' = [at EXCEPT ![p] = point]

\* Thread p has answered its request, or closed a session, and forgets it.
Return(p) ==
    /\ Goto(p, "ready")
    /\ target' = [target EXCEPT ![p] = Nobody]

\* Session.submit and _finished, both under the session's guard.
Count(s, n) ==
    /\ pending' = [pending EXCEPT ![s] = n]
    /\ idle' = [idle EXCEPT ![s] = FALSE]

(***************************************************************************)
(* Handler threads: do_POST.                                                *)
(***************************************************************************)

\* The server hands a new request to a thread; after an interrupt its socket
\* is closed, but requests received before go on.
Receive(h) ==
    /\ at[h] = "ready" /\ mode = "serving"
    /\ Goto(h, "received")
    /\ UNCHANGED <<target, answered, watched, slock, server, usage, worker, conn>>

\* "session": a new page, refused when Cap pages are open.
Open(h) ==
    /\ at[h] = "received" /\ slock = Nobody
    /\ Return(h)
    /\ IF Cardinality(sessions) >= Cap THEN UNCHANGED server
       ELSE LET s == CHOOSE x \in Sessions \ made : TRUE IN
            /\ made # Sessions
            /\ made' = made \cup {s}
            /\ sessions' = sessions \cup {s}
            /\ UNCHANGED <<mode, todo>>
    /\ UNCHANGED <<answered, watched, slock, usage, worker, conn>>

\* sessions.get(key): 410 when the session is no longer registered.
Lookup(h, s) ==
    /\ at[h] = "received" /\ slock = Nobody
    /\ s \in made
    /\ IF s \in sessions
       THEN /\ Goto(h, "found")
            /\ target' = [target EXCEPT ![h] = s]
            /\ slock' = h
       ELSE Return(h) /\ UNCHANGED slock
    /\ UNCHANGED <<answered, watched, server, usage, worker, conn>>

\* "close": the key is popped under the lock, the session closed outside it;
\* server_close may have cleared the table in between (KeyError).
Pop(h) ==
    /\ at[h] = "found"
    /\ slock' = Nobody
    /\ IF target[h] \in sessions
       THEN Goto(h, "closing") /\ UNCHANGED target
       ELSE Return(h)
    /\ sessions' = sessions \ {target[h]}
    /\ UNCHANGED <<answered, watched, mode, todo, made, usage, worker, conn>>

\* Mutation of Submit: a closed session still accepts calls.
Submit_Unchecked(h, act, d) ==
    LET s == target[h] IN
    /\ at[h] = "found" /\ act \in Requests
    /\ Goto(h, "submitted")
    /\ Count(s, pending[s] + 1)
    /\ queue' = [queue EXCEPT ![s] = Append(@, [act |-> act, who |-> h, dir |-> d])]
    /\ UNCHANGED <<target, answered, watched, slock, closed, step, gone, server, conn>>

\* Session.submit: refused by a closed session; the executor itself refuses
\* (RuntimeError) once the interpreter is shutting down.
Submit(h, act, d) ==
    LET s == target[h] IN
    /\ at[h] = "found"
    /\ act \in Requests
    /\ \/ /\ closed[s]
          /\ Return(h) /\ slock' = Nobody
          /\ UNCHANGED <<answered, watched, usage, worker>>
       \/ /\ ~closed[s] /\ mode = "down"
          /\ Return(h) /\ slock' = Nobody
          /\ Count(s, pending[s] + 1)
          /\ UNCHANGED <<answered, watched, closed, worker>>
       \/ /\ ~closed[s] /\ mode # "down"
          /\ Goto(h, "submitted")
          /\ Count(s, pending[s] + 1)
          /\ queue' = [queue EXCEPT ![s] = Append(@, [act |-> act, who |-> h, dir |-> d])]
          /\ UNCHANGED <<target, answered, watched, slock, closed, step, gone>>
    /\ UNCHANGED <<server, conn>>

\* Mutation of Watch: a call that is done already gets no callback.
Watch_Late(h) ==
    /\ at[h] = "submitted"
    /\ watched' = [watched EXCEPT ![h] = ~answered[h]]
    /\ Goto(h, "waiting")
    /\ slock' = Nobody
    /\ UNCHANGED <<target, answered, server, usage, worker, conn>>

\* add_done_callback(_finished): it runs at once, here, if the call is done.
Watch(h) ==
    /\ at[h] = "submitted"
    /\ IF answered[h]
       THEN Count(target[h], pending[target[h]] - 1) /\ UNCHANGED watched
       ELSE watched' = [watched EXCEPT ![h] = TRUE] /\ UNCHANGED <<pending, idle>>
    /\ Goto(h, "waiting")
    /\ slock' = Nobody
    /\ UNCHANGED <<target, answered, server, closed, worker, conn>>

\* future.result() and the reply.
Reply(h) ==
    /\ at[h] = "waiting" /\ answered[h]
    /\ Return(h)
    /\ answered' = [answered EXCEPT ![h] = FALSE]
    /\ watched' = [watched EXCEPT ![h] = FALSE]
    /\ UNCHANGED <<slock, server, usage, worker, conn>>

(***************************************************************************)
(* Session.close, called by handlers and by the main thread.                *)
(***************************************************************************)

\* Only the first closer queues the disconnect, behind every accepted call.
Close(p) ==
    LET s == target[p] IN
    /\ at[p] = "closing"
    /\ closed' = [closed EXCEPT ![s] = TRUE]
    /\ IF closed[s] \/ mode = "down"
       THEN Return(p) /\ UNCHANGED queue
       ELSE /\ Goto(p, "draining")
            /\ queue' = [queue EXCEPT ![s] = Append(@, [act |-> "close"])]
            /\ UNCHANGED target
    /\ UNCHANGED <<answered, watched, slock, server, pending, idle, step, gone, conn>>

\* future.result(), then worker.shutdown(wait=True).
Drained(p) ==
    LET s == target[p] IN
    /\ at[p] = "draining"
    /\ gone[s] /\ queue[s] = <<>> /\ step[s] = "rest"
    /\ Return(p)
    /\ UNCHANGED <<answered, watched, slock, server, usage, worker, conn>>

(***************************************************************************)
(* The main thread.                                                         *)
(***************************************************************************)
\* Session.expired, and a mutation: only the clock counts.
Expired_Clock(s) == idle[s]
Expired(s) == pending[s] = 0 /\ idle[s]

\* service_actions: the expired sessions leave the table together.
Sweep ==
    LET expired == {s \in sessions : Expired(s)} IN
    /\ mode = "serving" /\ at[Main] = "ready" /\ todo = {}
    /\ slock = Nobody /\ expired # {}
    /\ sessions' = sessions \ expired
    /\ todo' = expired
    /\ UNCHANGED <<handler, mode, made, usage, worker, conn>>

CloseNext(s) ==
    /\ at[Main] = "ready"
    /\ s \in todo
    /\ todo' = todo \ {s}
    /\ Goto(Main, "closing")
    /\ target' = [target EXCEPT ![Main] = s]
    /\ UNCHANGED <<answered, watched, slock, mode, sessions, made, usage, worker, conn>>

\* Ctrl+C anywhere in serve_forever: server_close takes a snapshot of the
\* table, without sessions_lock; sessions a sweep had popped are dropped.
\* (Nobody reads last_used any more: the model forgets it.)
Interrupt ==
    /\ mode = "serving"
    /\ mode' = "stopping"
    /\ todo' = sessions
    /\ idle' = [s \in Sessions |-> FALSE]
    /\ Return(Main)
    /\ UNCHANGED <<answered, watched, slock, sessions, made, closed, pending, worker, conn>>

\* sessions.clear(); main returns and the interpreter joins the workers.
Clear ==
    /\ mode = "stopping" /\ at[Main] = "ready" /\ todo = {}
    /\ mode' = "down"
    /\ sessions' = {}
    /\ UNCHANGED <<handler, todo, made, usage, worker, conn>>

\* The process ends once the workers have emptied their queues; its handler
\* threads are daemons, and the operating system frees its locks.
Exit ==
    /\ mode = "down"
    /\ \A s \in Sessions : queue[s] = <<>> /\ step[s] = "rest"
    /\ mode' = "exited"
    /\ holder' = [d \in Directories |-> Nobody]
    /\ UNCHANGED <<handler, todo, sessions, made, usage, worker, db, inTx>>

\* The clock: a session becomes idle when nothing renews last_used.
Idle(s) ==
    /\ mode = "serving" /\ s \in sessions /\ ~idle[s]
    /\ idle' = [idle EXCEPT ![s] = TRUE]
    /\ UNCHANGED <<handler, server, closed, pending, worker, conn>>

(***************************************************************************)
(* The worker thread of a session: Session.call, execute and _disconnect.   *)
(***************************************************************************)
\* The worker is at the head of its queue; it leaves it when it is done.
Call(s) == Head(queue[s])
At(s, point, acts) == queue[s] # <<>> /\ step[s] = point /\ Call(s).act \in acts

\* The job is done: its future is set, then the callback runs, if there is one
\* yet.  The future of "close" is the one its closer waits for.
Done(s) ==
    /\ queue' = [queue EXCEPT ![s] = Tail(@)]
    /\ IF Call(s).act = "close"
       THEN /\ gone' = [gone EXCEPT ![s] = TRUE]
            /\ step' = [step EXCEPT ![s] = "rest"]
            /\ UNCHANGED answered
       ELSE /\ answered' = [answered EXCEPT ![Call(s).who] = TRUE]
            /\ step' = [step EXCEPT ![s] = IF watched[Call(s).who] THEN "settle" ELSE "rest"]
            /\ UNCHANGED gone
    /\ UNCHANGED <<at, target, watched, slock, server, usage>>

\* _finished, run by the worker.
Settle(s) ==
    /\ step[s] = "settle"
    /\ step' = [step EXCEPT ![s] = "rest"]
    /\ Count(s, pending[s] - 1)
    /\ UNCHANGED <<handler, server, closed, queue, gone, conn>>

\* Mutation of Opens: another directory may be opened inside a transaction.
Opens_InTransaction(s) == At(s, "rest", {"connect"})

\* The directory whose lock the call has to take first, if any.
Opens(s) == At(s, "rest", {"connect"}) /\ ~inTx[s]
Automatic(s) == At(s, "rest", {"login", "state", "execute"}) /\ db[s] # NoDb /\ ~inTx[s]
LockDir(s) == IF Call(s).act = "connect" THEN Call(s).dir ELSE db[s]

Acquire(s) ==
    /\ Opens(s) \/ Automatic(s)
    /\ holder[LockDir(s)] = Nobody
    /\ holder' = [holder EXCEPT ![LockDir(s)] = s]
    /\ step' = [step EXCEPT ![s] = "locked"]
    /\ UNCHANGED <<handler, server, usage, queue, gone, db, inTx>>

\* Mutation of Busy: opening a database waits for its lock for ever.
Busy_Statement(s) ==
    /\ Automatic(s)
    /\ holder[LockDir(s)] # Nobody
    /\ Done(s)
    /\ UNCHANGED conn

\* LOCK_TIMEOUT after lock_timeout seconds; the old connection stays as it is.
Busy(s) ==
    /\ Opens(s) \/ Automatic(s)
    /\ holder[LockDir(s)] # Nobody
    /\ Done(s)
    /\ UNCHANGED conn

Free(s) == holder' = [d \in Directories |-> IF holder[d] = s THEN Nobody ELSE holder[d]]

\* The candidate is open and unlocked; then the old connection is closed.  The
\* candidate may fail to open (the old one stays), the old one to close.
Connect(s, dir) ==
    /\ At(s, "locked", {"connect"})
    /\ dir \in {Call(s).dir, db[s], NoDb}
    /\ db' = [db EXCEPT ![s] = dir]
    /\ Free(s)
    /\ Done(s)
    /\ UNCHANGED inTx

\* db.execute of a script, which succeeds or stops at an error: either way it
\* leaves the connection in a transaction or not.  login, and the BEGIN and
\* ROLLBACK of "state", end outside one.
Execute(s, open) ==
    /\ \/ At(s, "locked", {"execute"} \cup IF open THEN {} ELSE {"login", "state"})
       \/ At(s, "rest", {"execute"}) /\ inTx[s]
    /\ inTx' = [inTx EXCEPT ![s] = open]
    /\ IF open THEN UNCHANGED holder ELSE Free(s)
    /\ Done(s)
    /\ UNCHANGED db

\* Mutation of Disconnect: the connection is dropped, not closed.
Disconnect_Drops(s) ==
    /\ At(s, "rest", {"disconnect", "close"})
    /\ db' = [db EXCEPT ![s] = NoDb]
    /\ inTx' = [inTx EXCEPT ![s] = FALSE]
    /\ Done(s)
    /\ UNCHANGED holder

\* _disconnect: the connection is forgotten even if its close raises.
Disconnect(s) ==
    /\ At(s, "rest", {"disconnect", "close"})
    /\ db' = [db EXCEPT ![s] = NoDb]
    /\ inTx' = [inTx EXCEPT ![s] = FALSE]
    /\ Free(s)
    /\ Done(s)

\* What touches neither lock nor transaction: logout, calls without a
\* connection, login and state inside a transaction, connect refused in one.
Decline(s) ==
    /\ \/ At(s, "rest", {"logout"})
       \/ At(s, "rest", {"connect", "login", "state"}) /\ inTx[s]
       \/ At(s, "rest", {"login", "state", "execute"}) /\ db[s] = NoDb
    /\ Done(s)
    /\ UNCHANGED conn

-----------------------------------------------------------------------------
Work(s) ==
    \/ Settle(s) \/ Acquire(s) \/ Busy(s)
    \/ \E dir \in Directories \cup {NoDb} : Connect(s, dir)
    \/ \E open \in BOOLEAN : Execute(s, open)
    \/ Disconnect(s) \/ Decline(s)

\* What a thread goes on with by itself: a handler once it has found the
\* session, anyone who closes one, the main thread.
Serve(h) ==
    \/ Pop(h) \/ \E act \in Requests, d \in Directories : Submit(h, act, d)
    \/ Watch(h) \/ Reply(h)
Shut(p) == Close(p) \/ Drained(p)
Supervise == Shut(Main) \/ (\E s \in Sessions : CloseNext(s)) \/ Clear \/ Exit

Next ==
    /\ mode # "exited"
    /\ \/ \E h \in Handlers :
             \/ Receive(h) \/ Open(h) \/ Serve(h) \/ Shut(h)
             \/ \E s \in Sessions : Lookup(h, s)
       \/ Supervise \/ Sweep \/ Interrupt
       \/ \E s \in Sessions : Idle(s) \/ Work(s)

Spec == Init /\ [][Next]_vars

\* Threads are scheduled, time passes, and the main thread gets sessions_lock,
\* which handlers hold for moments only, if it is free again and again.
Fairness ==
    /\ \A h \in Handlers : WF_vars(Serve(h) \/ Shut(h))
    /\ \A s \in Sessions : WF_vars(Work(s)) /\ WF_vars(Idle(s))
    /\ WF_vars(Supervise) /\ SF_vars(Sweep)

FairSpec == Spec /\ Fairness

-----------------------------------------------------------------------------
TypeOK ==
    /\ at \in [Procs -> Points]
    /\ target \in [Procs -> Sessions \cup {Nobody}]
    /\ answered \in [Handlers -> BOOLEAN] /\ watched \in [Handlers -> BOOLEAN]
    /\ slock \in Handlers \cup {Nobody}
    /\ mode \in Modes /\ todo \subseteq Sessions
    /\ made \subseteq Sessions /\ sessions \subseteq made
    /\ closed \in [Sessions -> BOOLEAN]
    /\ pending \in [Sessions -> Nat]
    /\ idle \in [Sessions -> BOOLEAN]
    /\ queue \in [Sessions -> Seq(Job)]
    /\ step \in [Sessions -> WorkerSteps]
    /\ gone \in [Sessions -> BOOLEAN]
    /\ db \in [Sessions -> Directories \cup {NoDb}]
    /\ inTx \in [Sessions -> BOOLEAN]
    /\ holder \in [Directories -> Sessions \cup {Nobody}]

\* Whatever calls race with the close of a session (another page's request,
\* the sweep, server_close without sessions_lock), its disconnect is the last
\* thing its worker does: no call reconnects it, nothing stays open.
ClosedForGood ==
    \A s \in Sessions : gone[s] =>
        closed[s] /\ queue[s] = <<>> /\ step[s] # "locked" /\ db[s] = NoDb /\ ~inTx[s]

\* A lock is held for a transaction the user can still end, or for the call
\* that runs now: reconnecting, timeouts and closing leave none behind.
LocksExplained ==
    mode # "exited" =>
        \A d \in Directories, s \in Sessions :
            holder[d] = s <=> \/ inTx[s] /\ db[s] = d
                              \/ step[s] = "locked" /\ LockDir(s) = d

\* A session the sweep takes has no accepted call left to run: its transaction
\* is not rolled back behind a request under way, however long that takes.
NeverCutOff ==
    [][\A s \in todo' \ todo : mode' = "serving" => queue[s] = <<>> /\ step[s] = "rest"]_vars

\* Every accepted call and every close returns, whatever other sessions lock
\* and whoever closes the session first, or the process has ended.
Answered ==
    \A h \in Handlers :
        at[h] \in {"submitted", "closing"} ~> (at[h] = "ready" \/ mode = "exited")

\* A page that is left alone loses its transaction and frees the database for
\* the others: by the sweep, by server_close, or at the end of the process for
\* a session that slipped past server_close.
Abandoned ==
    \A s \in Sessions :
        <>[](\A h \in Handlers : target[h] # s) => []<>(\A d \in Directories : holder[d] # s)
=============================================================================
