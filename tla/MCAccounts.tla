---------------------------- MODULE MCAccounts ----------------------------
(***************************************************************************)
(* Two connections, two names and one right.  One statement needs it, the   *)
(* other fires a trigger whose action needs it.                             *)
(***************************************************************************)
EXTENDS Accounts, TLC
MCPlans == {[needs |-> Rights, action |-> {}], [needs |-> {}, action |-> Rights]}
MCSymmetry == Permutations(Conns) \cup Permutations(Users)
=============================================================================
