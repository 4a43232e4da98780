----------------------- MODULE MCTransactionalDatabase -----------------------
(***************************************************************************)
(* Finite instances of TransactionalDatabase for TLC: an existing database, *)
(* or a fresh directory.  A fresh one meets crashes and power losses but no *)
(* faults, because a rollback to an empty file is not journaled.            *)
(***************************************************************************)
EXTENDS TransactionalDatabase, TLC

Symmetry == Permutations(Conns)

MCInit == Init \/ InitWith(Empty, MaxFaults)
MCSpec == MCInit /\ [][Next]_vars
=============================================================================
