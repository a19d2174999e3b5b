---------------------------- MODULE MCAccountFifo ----------------------------
(* Small instance of AccountFifo: two interchangeable markets.             *)
EXTENDS AccountFifo, TLC

CONSTANTS m1, m2

Symmetry == Permutations(Markets)
=============================================================================
