----------------------------- MODULE AtomicStore -----------------------------
(***************************************************************************)
(* What the transaction layer promises (docs/事务与恢复.md, "使用与失败行为" *)
(* and "并发约定"): one value, changed only by whole transactions, one       *)
(* transaction at a time, and a truthful answer to every caller.            *)
(*                                                                         *)
(* The value is an integer and every write adds one to what the transaction *)
(* read, so a lost update, a dirty read or a half-applied transaction is a  *)
(* wrong number.  "outcomes" is the set of values the store may turn out to *)
(* hold: it has two members only while a commit decision is in doubt.       *)
(***************************************************************************)
EXTENDS Naturals

CONSTANTS Conns, InitialValue

VARIABLES outcomes,   \* the values recovery may still produce
          phase,      \* phase[c]: where connection c's transaction stands
          view,       \* view[c]: the value c's transaction would commit
          result      \* result[c]: the last answer connection c got

avars == <<outcomes, phase, view, result>>

Results == {"none", "committed", "aborted", "uncertain", "error", "busy", "unknown"}

AInit ==
    /\ outcomes = {InitialValue}
    /\ phase = [c \in Conns |-> "idle"]
    /\ view = [c \in Conns |-> 0]
    /\ result = [c \in Conns |-> "none"]

\* The transaction of c ends with answer r.
End(c, r) ==
    /\ phase' = [phase EXCEPT ![c] = "idle"]
    /\ view' = [view EXCEPT ![c] = 0]
    /\ result' = [result EXCEPT ![c] = r]

\* A transaction starts alone, and only on a value that is no longer in doubt.
Begin(c) ==
    /\ \A d \in Conns : phase[d] = "idle"
    /\ \E v \in outcomes :
          /\ outcomes = {v}
          /\ view' = [view EXCEPT ![c] = v]
    /\ phase' = [phase EXCEPT ![c] = "open"]
    /\ UNCHANGED <<outcomes, result>>

Write(c) ==
    /\ phase[c] = "open"
    /\ view' = [view EXCEPT ![c] = @ + 1]
    /\ UNCHANGED <<outcomes, phase, result>>

\* After an error a transaction can only end without effect.
GiveUp(c) ==
    /\ phase[c] = "open"
    /\ phase' = [phase EXCEPT ![c] = "aborting"]
    /\ view' = [view EXCEPT ![c] = 0]
    /\ UNCHANGED <<outcomes, result>>

Abort(c) ==
    /\ phase[c] = "aborting"
    /\ \E r \in {"aborted", "error"} : End(c, r)
    /\ UNCHANGED outcomes

Prepare(c) ==
    /\ phase[c] = "open"
    /\ phase' = [phase EXCEPT ![c] = "prepared"]
    /\ outcomes' = outcomes \cup {view[c]}
    /\ UNCHANGED <<view, result>>

\* The doubt narrows: never to a value that was not possible before.
Settle ==
    /\ outcomes' \in (SUBSET outcomes) \ {{}}
    /\ UNCHANGED <<phase, view, result>>

\* "committed" is said only when no other outcome is left.
Commit(c) ==
    /\ phase[c] = "prepared"
    /\ outcomes = {view[c]}
    /\ End(c, "committed")
    /\ UNCHANGED outcomes

Doubt(c) ==
    /\ phase[c] \in {"open", "prepared"}
    /\ End(c, "uncertain")
    /\ UNCHANGED outcomes

\* A call is refused before its transaction started; it may have settled what
\* an earlier commit left in doubt.
Refuse(c) ==
    /\ phase[c] = "idle"
    /\ \E r \in {"error", "busy"} : result' = [result EXCEPT ![c] = r]
    /\ outcomes' \in (SUBSET outcomes) \ {{}}
    /\ UNCHANGED <<phase, view>>

Crash(c) ==
    /\ End(c, "unknown")
    /\ UNCHANGED outcomes

PowerLoss ==
    /\ \E v \in outcomes : outcomes' = {v}
    /\ phase' = [c \in Conns |-> "idle"]
    /\ view' = [c \in Conns |-> 0]
    /\ result' = [c \in Conns |-> "unknown"]

ANext ==
    \/ \E c \in Conns :
          \/ Begin(c) \/ Write(c) \/ GiveUp(c) \/ Abort(c) \/ Prepare(c)
          \/ Commit(c) \/ Doubt(c) \/ Refuse(c) \/ Crash(c)
    \/ Settle
    \/ PowerLoss

ASpec == AInit /\ [][ANext]_avars
=============================================================================
