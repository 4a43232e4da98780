------------------------------- MODULE Accounts -------------------------------
(***************************************************************************)
(* Accounts, sessions and grants (engine/auth.py, PersistentAccountStore in *)
(* engine/objects.py), the statements that change them and the permission   *)
(* checks of every statement (engine/write_path.py), for several            *)
(* connections that log in and out between and inside transactions          *)
(* (engine/database.py).                                                    *)
(*                                                                         *)
(* The file is the rows of __users and __grants.  Connections keep accounts *)
(* and grants in memory from one transaction to the next.  An automatic     *)
(* transaction takes the lock, reloads, runs and commits, or changes        *)
(* nothing: that is one step here, and TransactionalDatabase shows why it   *)
(* may be.                                                                  *)
(***************************************************************************)
EXTENDS Naturals, FiniteSets

CONSTANTS
    Conns,
    Users,       \* account names
    Rights,      \* a permission on an object
    Plans,       \* statements: the rights they need, and those of the triggers they fire
    MaxIds,      \* bound: account identities
    MaxRows,     \* bound: rows of __grants that say the same
    NoAccount, NoSession, Nobody

Account == [id: 1..MaxIds, admin: BOOLEAN]
Session == [name: Users, id: 1..MaxIds]

ASSUME AccountsAssumption ==
    /\ MaxIds \in Nat /\ MaxRows \in Nat \ {0}
    /\ Plans \subseteq [needs: SUBSET Rights, action: SUBSET Rights]
    /\ NoAccount \notin Account /\ NoSession \notin Session /\ Nobody \notin Conns

File == [users: [Users -> Account \cup {NoAccount}],
         grants: [Users -> [Rights -> 0..MaxRows]]]
Memory == [users: [Users -> Account \cup {NoAccount}], grants: SUBSET (Users \X Rights)]

VARIABLES
    file,      \* the committed file
    work,      \* the file as the explicit transaction in progress has it
    memory,    \* memory[c]: AccountStore.accounts and .grants
    session,   \* session[c]: the identity of the connection
    pc,        \* pc[c]: idle, waiting for an automatic statement, or explicit
    failed,    \* _failed
    holder,    \* the connection holding the file lock between two steps
    lastId,    \* the identities given so far (uuid4: never given twice)
    used       \* for each right, whether it was used an odd number of times

accountVars == <<file, work, memory, session, pc, failed, holder, lastId, used>>

\* PersistentAccountStore.bootstrap: what a reload makes of the rows.
Load(f) == [users |-> f.users,
            grants |-> {g \in Users \X Rights : f.grants[g[1]][g[2]] > 0}]

EmptyFile == [users |-> [u \in Users |-> NoAccount],
              grants |-> [u \in Users |-> [r \in Rights |-> 0]]]

AccountsInit ==
    /\ file = EmptyFile /\ work = EmptyFile
    /\ memory = [c \in Conns |-> Load(EmptyFile)]
    /\ session = [c \in Conns |-> NoSession]
    /\ pc = [c \in Conns |-> "idle"]
    /\ failed = [c \in Conns |-> FALSE]
    /\ holder = Nobody
    /\ lastId = 0
    /\ used = [r \in Rights |-> FALSE]

(***************************************************************************)
(* Who is asking: an automatic statement reloads first.                     *)
(***************************************************************************)
View(c) == IF pc[c] = "waiting" THEN Load(file) ELSE memory[c]
Disk(c) == IF pc[c] = "waiting" THEN file ELSE work

\* _enforcing: without accounts everything is permitted (initialisation).
Enforced(m) == \E u \in Users : m.users[u] # NoAccount

\* Mutation of Current: a session goes by its name.
Current_ByName(m, s) == IF s = NoSession THEN NoAccount ELSE m.users[s.name]

\* _account: the account of a session, if it is still the one that logged in.
Current(m, s) ==
    IF s # NoSession /\ m.users[s.name] # NoAccount /\ m.users[s.name].id = s.id
    THEN m.users[s.name] ELSE NoAccount

IsAdmin(m, s) == Current(m, s) # NoAccount /\ Current(m, s).admin

\* _enforce_plan_permissions and require, for the rights of a plan.
Permitted(m, s, rights) ==
    Enforced(m) =>
        /\ Current(m, s) # NoAccount
        /\ IsAdmin(m, s) \/ \A r \in rights : <<s.name, r>> \in m.grants

(***************************************************************************)
(* Transactions, login and logout.                                          *)
(***************************************************************************)

\* A statement outside a transaction: NOT_LOGGED_IN is judged on what the
\* connection remembers, before it waits for the lock.
Statement(c) ==
    /\ pc[c] = "idle"
    /\ Enforced(memory[c]) => session[c] # NoSession
    /\ pc' = [pc EXCEPT ![c] = "waiting"]
    /\ UNCHANGED <<file, work, memory, session, failed, holder, lastId, used>>

\* LOCK_TIMEOUT.
Busy(c) ==
    /\ pc[c] = "waiting" /\ holder # Nobody
    /\ pc' = [pc EXCEPT ![c] = "idle"]
    /\ UNCHANGED <<file, work, memory, session, failed, holder, lastId, used>>

Begin(c) ==
    /\ pc[c] = "idle" /\ holder = Nobody
    /\ pc' = [pc EXCEPT ![c] = "explicit"]
    /\ holder' = c
    /\ work' = file
    /\ memory' = [memory EXCEPT ![c] = Load(file)]
    /\ UNCHANGED <<file, session, failed, lastId, used>>

\* The explicit transaction of c ends, and f is the file.
End(c, f) ==
    /\ pc[c] = "explicit"
    /\ pc' = [pc EXCEPT ![c] = "idle"]
    /\ failed' = [failed EXCEPT ![c] = FALSE]
    /\ holder' = Nobody
    /\ file' = f /\ work' = f
    /\ UNCHANGED <<session, lastId, used>>

Commit(c) == ~failed[c] /\ End(c, work) /\ UNCHANGED memory

\* The reload does not touch the session: it may name an account that is gone.
Rollback(c) ==
    /\ End(c, file)
    /\ memory' = [memory EXCEPT ![c] = Load(file)]

\* authenticate.  A refused login leaves the connection without a session.
Identity(m, u) ==
    IF m.users[u] = NoAccount THEN NoSession ELSE [name |-> u, id |-> m.users[u].id]

\* Outside a transaction login reloads under the lock; inside, even a failed
\* one, it asks the accounts in memory.
Login(c, u, right) ==
    /\ \/ /\ pc[c] = "idle" /\ holder = Nobody
          /\ memory' = [memory EXCEPT ![c] = Load(file)]
       \/ pc[c] = "explicit" /\ UNCHANGED memory
    /\ session' = [session EXCEPT ![c] = IF right THEN Identity(memory'[c], u) ELSE NoSession]
    /\ UNCHANGED <<file, work, pc, failed, holder, lastId, used>>

Logout(c) ==
    /\ pc[c] # "waiting" /\ session[c] # NoSession
    /\ session' = [session EXCEPT ![c] = NoSession]
    /\ UNCHANGED <<file, work, memory, pc, failed, holder, lastId, used>>

(***************************************************************************)
(* Statements.  Each changes the accounts in memory, then the rows; an      *)
(* error, or an I/O error in between, rolls an automatic statement back and *)
(* leaves an explicit transaction failed, its memory ahead of its rows.     *)
(* Inside a transaction NOT_LOGGED_IN is one more way to be refused.        *)
(***************************************************************************)
Running(c) ==
    \/ pc[c] = "waiting" /\ holder = Nobody
    \/ pc[c] = "explicit" /\ ~failed[c]

Succeed(c, m, f) ==
    /\ memory' = [memory EXCEPT ![c] = m]
    /\ IF pc[c] = "waiting"
       THEN file' = f /\ work' = f /\ pc' = [pc EXCEPT ![c] = "idle"]
       ELSE work' = f /\ UNCHANGED <<file, pc>>
    /\ UNCHANGED <<session, failed, holder>>

Raise(c, m) ==
    /\ IF pc[c] = "waiting"
       THEN /\ memory' = [memory EXCEPT ![c] = Load(file)]
            /\ pc' = [pc EXCEPT ![c] = "idle"]
            /\ UNCHANGED failed
       ELSE /\ memory' = [memory EXCEPT ![c] = m]
            /\ failed' = [failed EXCEPT ![c] = TRUE]
            /\ UNCHANGED pc
    /\ UNCHANGED <<file, work, session, holder>>

Attempt(c, permitted, m, f) ==
    /\ Running(c)
    /\ IF permitted THEN Succeed(c, m, f) \/ Raise(c, m) ELSE Raise(c, View(c))

\* Mutation of Founder: judged on what the connection remembered before.
Founder_Stale(c) == ~Enforced(memory[c])

\* The first account is the administrator.
Founder(c) == ~Enforced(View(c))

\* u gets an account with an identity of its own.
Renew(c, u, permitted, admin) ==
    LET account == [id |-> lastId + 1, admin |-> admin] IN
    /\ lastId < MaxIds
    /\ lastId' = IF permitted THEN lastId + 1 ELSE lastId
    /\ Attempt(c, permitted, [View(c) EXCEPT !.users[u] = account],
                              [Disk(c) EXCEPT !.users[u] = account])
    /\ UNCHANGED used

CreateUser(c, u) ==
    Renew(c, u, /\ View(c).users[u] = NoAccount
                /\ Founder(c) \/ IsAdmin(View(c), session[c]), Founder(c))

\* A new password is a new identity: every session of the account ends.
AlterUser(c, u) ==
    LET m == View(c) IN
    Renew(c, u, /\ m.users[u] # NoAccount
                /\ Current(m, session[c]) # NoAccount
                /\ IsAdmin(m, session[c]) \/ session[c].name = u, m.users[u].admin)

\* Mutation of DropUser: the grants of the account stay.
DropUser_KeepsGrants(c, u) ==
    LET m == View(c) IN
    /\ Attempt(c, m.users[u] # NoAccount /\ IsAdmin(m, session[c]) /\ ~m.users[u].admin,
               [m EXCEPT !.users[u] = NoAccount], [Disk(c) EXCEPT !.users[u] = NoAccount])
    /\ UNCHANGED <<lastId, used>>

Admins(m) == {u \in Users : m.users[u] # NoAccount /\ m.users[u].admin}

\* remove_account: never the last administrator; grants go with the account.
DropUser(c, u) ==
    LET m == View(c) IN
    /\ Attempt(c, /\ m.users[u] # NoAccount
                  /\ IsAdmin(m, session[c])
                  /\ ~(m.users[u].admin /\ Cardinality(Admins(m)) <= 1),
               [users |-> [m.users EXCEPT ![u] = NoAccount],
                grants |-> {g \in m.grants : g[1] # u}],
               [Disk(c) EXCEPT !.users[u] = NoAccount, !.grants[u] = [r \in Rights |-> 0]])
    /\ UNCHANGED <<lastId, used>>

\* Memory holds a set of rights, __grants a row for every GRANT.
Grant(c, u, rights) ==
    LET m == View(c)
        given == [r \in Rights |-> Disk(c).grants[u][r] + IF r \in rights THEN 1 ELSE 0]
    IN  /\ \A r \in Rights : given[r] <= MaxRows
        /\ Attempt(c, m.users[u] # NoAccount /\ (Enforced(m) => IsAdmin(m, session[c])),
                   [m EXCEPT !.grants = @ \cup ({u} \X rights)], [Disk(c) EXCEPT !.grants[u] = given])
        /\ UNCHANGED <<lastId, used>>

\* Mutation of Left: REVOKE deletes one of the rows.
Left_OneLess(n) == IF n = 0 THEN 0 ELSE n - 1

\* _delete_rows: every row that says so.
Left(n) == 0

Revoke(c, u, rights) ==
    LET m == View(c)
        left == [r \in Rights |-> IF r \in rights THEN Left(Disk(c).grants[u][r]) ELSE Disk(c).grants[u][r]]
    IN  /\ Attempt(c, m.users[u] # NoAccount /\ (Enforced(m) => IsAdmin(m, session[c])),
                   [m EXCEPT !.grants = @ \ ({u} \X rights)], [Disk(c) EXCEPT !.grants[u] = left])
        /\ UNCHANGED <<lastId, used>>

\* Any other statement: its plan is checked before it runs, each action of a
\* trigger it fires when its turn comes, both for the caller's session.
Use(c, plan) ==
    LET m == View(c)
        plain == Permitted(m, session[c], plan.needs)
        rights == IF plain THEN plan.needs \cup {r \in plan.action : Permitted(m, session[c], {r})} ELSE {}
    IN  /\ Attempt(c, plain /\ Permitted(m, session[c], plan.action), m, Disk(c))
        /\ used' = [r \in Rights |-> (r \in rights) # used[r]]
        /\ UNCHANGED lastId

-----------------------------------------------------------------------------
AccountsNext ==
    \E c \in Conns :
        \/ Statement(c) \/ Busy(c) \/ Begin(c) \/ Commit(c) \/ Rollback(c) \/ Logout(c)
        \/ \E u \in Users, right \in BOOLEAN : Login(c, u, right)
        \/ \E u \in Users : CreateUser(c, u) \/ AlterUser(c, u) \/ DropUser(c, u)
        \/ \E u \in Users, rights \in (SUBSET Rights) \ {{}} : Grant(c, u, rights) \/ Revoke(c, u, rights)
        \/ \E plan \in Plans : Use(c, plan)

AccountsSpec == AccountsInit /\ [][AccountsNext]_accountVars

-----------------------------------------------------------------------------
AccountsTypeOK ==
    /\ file \in File /\ work \in File
    /\ memory \in [Conns -> Memory]
    /\ session \in [Conns -> Session \cup {NoSession}]
    /\ pc \in [Conns -> {"idle", "waiting", "explicit"}]
    /\ failed \in [Conns -> BOOLEAN]
    /\ holder \in Conns \cup {Nobody}
    /\ lastId \in 0..MaxIds
    /\ used \in [Rights -> BOOLEAN]

\* What a connection decides by inside a transaction is what it will commit:
\* accounts and grants in memory are those the next reload makes of the rows,
\* however often a right was granted, revoked and granted again.
MemoryMatchesRows ==
    \A c \in Conns : pc[c] = "explicit" /\ ~failed[c] => memory[c] = Load(work)

\* There is one administrator from the first account on: two connections that
\* both remember an empty database do not make two, and none is ever lost.
OneFounder ==
    \A f \in {file, work} :
        Enforced(Load(f)) => \E u \in Users : Admins(Load(f)) = {u}

\* A name that is free carries no rights: whoever gets it starts with none.
GrantsOwned ==
    \A f \in {file, work}, u \in Users :
        f.users[u] = NoAccount => \A r \in Rights : f.grants[u][r] = 0

\* What a session may do to file f, by the rows of f.
MayUse(f, s, r) ==
    Enforced(Load(f)) =>
        /\ s # NoSession /\ f.users[s.name] # NoAccount /\ f.users[s.name].id = s.id
        /\ f.users[s.name].admin \/ f.grants[s.name][r] > 0
MayManage(f, s) ==
    Enforced(Load(f)) =>
        s # NoSession /\ f.users[s.name] # NoAccount /\ f.users[s.name].id = s.id /\ f.users[s.name].admin

Entitled(f, g, s) ==
    /\ \A r \in Rights : used'[r] # used[r] => MayUse(f, s, r)
    /\ \A u \in Users : g.users[u] # f.users[u] =>
          \/ MayManage(f, s)
          \/ s # NoSession /\ s.name = u /\ f.users[u] # NoAccount /\ f.users[u].id = s.id
    /\ g.grants # f.grants => MayManage(f, s)

\* Every change is made by a session that the rows, as they are at that moment,
\* entitle to it: not one of a dropped and recreated account, of an account
\* that was rolled back or changed its password, or one whose grant is revoked,
\* be it by another connection or through a trigger.
EntitledOnly ==
    [][\A c \in Conns :
        /\ pc[c] = "waiting" /\ pc'[c] = "idle" => Entitled(file, file', session[c])
        /\ pc[c] = "explicit" /\ pc'[c] = "explicit" => Entitled(work, work', session[c])]_accountVars
=============================================================================
