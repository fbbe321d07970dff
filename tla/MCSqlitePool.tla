---------------------------- MODULE MCSqlitePool ----------------------------
(* Instances of SqlitePool for TLC.                                           *)
EXTENDS SqlitePool, TLC

PoolSymmetry == Permutations(Connection) \cup Permutations(Transaction)
=============================================================================
