------------------------------ MODULE MCTimers ------------------------------
(* Instances of Timers for TLC.                                               *)
EXTENDS Timers, TLC

BothWays == {-2, 1}

SleeperSymmetry == Permutations(Sleeper)
=============================================================================
