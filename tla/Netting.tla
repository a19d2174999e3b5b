------------------------------- MODULE Netting -------------------------------
(***************************************************************************)
(* The arithmetic of a paper account seen as open quantity per market and  *)
(* direction.  Account.apply_trade (bots/portfolio/models.py) first closes *)
(* opposite exposure, oldest position first, and opens what is left of the *)
(* trade as a new position.  Which lot is closed does not change the       *)
(* quantities, so two counters per market are enough here; the lots        *)
(* themselves are the subject of module AccountFifo.                       *)
(*                                                                         *)
(* Quantities are naturals: the code rounds every quantity to 6 decimals,  *)
(* so a natural counts millionths of a unit.                               *)
(***************************************************************************)
EXTENDS Naturals

CONSTANT Markets

Sides == {"long", "short"}

Opposite(s) == IF s = "long" THEN "short" ELSE "long"

Books == [Markets -> [Sides -> Nat]]

EmptyBook == [m \in Markets |-> [s \in Sides |-> 0]]

Trades == [market : Markets, side : Sides, qty : Nat]

(* What an order on side s could close: PaperVenue._open_opposing_quantity *)
Closable(b, m, s) == b[m][Opposite(s)]

(* Mutant: the close is not limited to what is open. *)
ClosedUnbounded(b, tr) == tr.qty

(* The part of trade tr that closes existing exposure. *)
ClosedBy(b, tr) ==
    LET c == Closable(b, tr.market, tr.side)
    IN  IF tr.qty <= c THEN tr.qty ELSE c

(* Mutant: the whole trade is opened, not what is left of it. *)
NetOpensAll(b, tr) ==
    [b EXCEPT ![tr.market] =
        [s \in Sides |-> IF s = tr.side THEN b[tr.market][s] + tr.qty
                         ELSE b[tr.market][s] - ClosedBy(b, tr)]]

(* Mutant: a trade that closed something opens nothing. *)
NetNoRest(b, tr) ==
    [b EXCEPT ![tr.market] =
        [s \in Sides |-> IF s # tr.side THEN b[tr.market][s] - ClosedBy(b, tr)
                         ELSE IF ClosedBy(b, tr) = 0 THEN b[tr.market][s] + tr.qty
                         ELSE b[tr.market][s]]]

(* The book after the trade: opposite side reduced, the remainder opened. *)
Net(b, tr) ==
    [b EXCEPT ![tr.market] =
        [s \in Sides |-> IF s = tr.side
                         THEN b[tr.market][s] + (tr.qty - ClosedBy(b, tr))
                         ELSE b[tr.market][s] - ClosedBy(b, tr)]]

(* No market is long and short at the same time. *)
OneSided(b) == \A m \in Markets : \E s \in Sides : b[m][s] = 0

HasOpen(b) == \E m \in Markets : \E s \in Sides : b[m][s] > 0
=============================================================================
