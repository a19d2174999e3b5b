---------------------------- MODULE MCPaperVenue ----------------------------
(* Small instances of PaperVenue.  Threads and markets are interchangeable. *)
EXTENDS PaperVenue, TLC

CONSTANTS t1, t2, m1, m2

Symmetry == Permutations(Threads) \cup Permutations(Markets)
=============================================================================
