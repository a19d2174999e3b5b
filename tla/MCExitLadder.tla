----------------------------- MODULE MCExitLadder -----------------------------
(* A small instance of ExitLadder: an entry at 100 rupees in tenths of a   *)
(* rupee, with quotes on both sides of every threshold.                    *)
EXTENDS ExitLadder

MCGains == {-280, -120, -60, -40, 0, 10, 40, 60, 90, 130, 250}

MCRawMove == [b \in 0..MaxBars |-> 130 * b]
=============================================================================
