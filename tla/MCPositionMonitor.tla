-------------------------- MODULE MCPositionMonitor --------------------------
(* Small instances of PositionMonitor: a call and a put on one underlying, *)
(* and a contract of a second underlying in the other league whose symbol  *)
(* contains the name of the first, as BANKNIFTY contains NIFTY.            *)
EXTENDS PositionMonitor, TLC

CONSTANTS ce, pe, mx, nifty, bank, idx, mcx

MCUnderlyingOf == [c \in Contracts |-> IF c = mx THEN bank ELSE nifty]
MCAccountOf == [c \in Contracts |-> IF c = mx THEN mcx ELSE idx]
MCSubstringsOf == [c \in Contracts |-> IF c = mx THEN {mx, bank, nifty} ELSE {c, nifty}]

Symmetry == Permutations({ce, pe})
=============================================================================
