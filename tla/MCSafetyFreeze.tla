-------------------------- MODULE MCSafetyFreeze --------------------------
EXTENDS SafetyFreeze, TLC

(* Nothing; a short beside a refused order; a long beside a holding.  The   *)
(* prices differ by more than five percent of the one, not of the other.   *)
MCKiteBooks ==
    {Nothing,
     [Nothing EXCEPT !.qty = -1, !.price = 20, !.refused = TRUE],
     [Nothing EXCEPT !.qty = 2, !.price = 19, !.held = TRUE]}

(* What the monitor reconciles is everything. *)
MCScopes == {{a} : a \in Assets}
===========================================================================
