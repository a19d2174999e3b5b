---------------------------- MODULE MCTradingHalt ----------------------------
(* Small instances of TradingHalt: the number of dates is the only bound.   *)
EXTENDS TradingHalt
=============================================================================
