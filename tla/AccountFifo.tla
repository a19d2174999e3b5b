------------------------------ MODULE AccountFifo ------------------------------
(***************************************************************************)
(* Account.apply_trade lot by lot: the positions of one account, first-in  *)
(* first-out netting, and the cash the closed lots leave behind.           *)
(*                                                                         *)
(* A trade is dated when it is recorded and a position opens at its        *)
(* trade's date, so the index of a trade in the trade table is both its id *)
(* and its date.  Trades are applied in any order: the threads that record *)
(* them race to the account.                                               *)
(*                                                                         *)
(* Prices and quantities are integers (the code rounds to 6 decimals).     *)
(***************************************************************************)
EXTENDS Integers, Sequences, FiniteSetsExt

CONSTANTS Markets,
          Prices,          \* bound: the fill and ticker prices considered
          MaxQty,          \* bound: largest trade
          MaxTrades,       \* bound: number of trades
          InitialBalance

ASSUME PricesAssumption == Prices \subseteq Nat /\ IsFiniteSet(Prices)
ASSUME BoundsAssumption == MaxQty \in Nat /\ MaxTrades \in Nat
ASSUME BalanceAssumption == InitialBalance \in Int

N == INSTANCE Netting

VARIABLES trades,   \* the trade table
          applied,  \* ids of the trades applied to the account
          lots,     \* Account.positions, by position id (the opening trade)
          cash,     \* Account.cash
          realized  \* Account.realized_pnl

vars == <<trades, applied, lots, cash, realized>>

Trades == [market : Markets, side : N!Sides, qty : 1..MaxQty, price : Prices]

Lots == [market : Markets, side : N!Sides, qty : 1..MaxQty, entry : Prices,
         current : Prices, unrealized : Int, open : BOOLEAN]

Sign(s) == IF s = "long" THEN 1 ELSE -1

(* What a position of this side and entry gains at a price. *)
Gain(side, entry, price, qty) == Sign(side) * (price - entry) * qty

Init ==
    /\ trades = <<>>
    /\ applied = {}
    /\ lots = <<>>
    /\ cash = InitialBalance
    /\ realized = 0

Record ==
    /\ Len(trades) < MaxTrades
    /\ \E tr \in Trades : trades' = Append(trades, tr)
    /\ UNCHANGED <<applied, lots, cash, realized>>

(* Position.update_price *)
UpdatePrice(l, price) ==
    [l EXCEPT !.current = price,
              !.unrealized = IF l.open THEN Gain(l.side, l.entry, price, l.qty)
                                       ELSE 0]

------------------------------------------------------------------------------
(* apply_trade's loop.  st is the account part-way through it: its lots,   *)
(* what has been realized so far and what is left of the trade.            *)

CloseFully(st, id, tr) ==
    LET l == st.lots[id]
    IN  [lots |-> [st.lots EXCEPT ![id].current = tr.price,
                                  ![id].unrealized = 0,
                                  ![id].open = FALSE],
         gained |-> st.gained + Gain(l.side, l.entry, tr.price, l.qty),
         left |-> st.left - l.qty]

(* Mutant: the gain is taken on the whole lot. *)
ClosePartlyWholeGain(st, id, tr) ==
    LET l == st.lots[id]
    IN  [lots |-> [st.lots EXCEPT ![id] =
                     UpdatePrice([l EXCEPT !.qty = @ - st.left], tr.price)],
         gained |-> st.gained + Gain(l.side, l.entry, tr.price, l.qty),
         left |-> 0]

ClosePartly(st, id, tr) ==
    LET l == st.lots[id]
    IN  [lots |-> [st.lots EXCEPT ![id] =
                     UpdatePrice([l EXCEPT !.qty = @ - st.left], tr.price)],
         gained |-> st.gained + Gain(l.side, l.entry, tr.price, st.left),
         left |-> 0]

Match(tr, st, id) ==
    IF st.left = 0 THEN st
    ELSE IF st.left >= st.lots[id].qty THEN CloseFully(st, id, tr)
                                       ELSE ClosePartly(st, id, tr)

(* Mutant: closed lots are matched again. *)
OppositeEvenClosed(ls, tr) ==
    {id \in DOMAIN ls : ls[id].market = tr.market /\ ls[id].side # tr.side}

OppositeIds(ls, tr) ==
    {id \in DOMAIN ls : /\ ls[id].market = tr.market
                        /\ ls[id].open
                        /\ ls[id].side # tr.side}

(* Mutant: last in, first out. *)
OldestLast(ids) == Min(ids)

(* A loop over lots in the order they were opened ends with the newest. *)
NewestLast(ids) == Max(ids)

(* What the loop over the opposite lots ids makes of st. *)
MatchAll(tr, st, ids) ==
    MapThenFoldSet(LAMBDA id, s : Match(tr, s, id), st,
                   LAMBDA id : id, NewestLast, ids)

(* Position(...) for what is left of the trade, under the trade's id. *)
WithLot(st, id, tr) ==
    [i \in DOMAIN st.lots \cup {id} |->
        IF i = id
        THEN [market |-> tr.market, side |-> tr.side, qty |-> st.left,
              entry |-> tr.price, current |-> tr.price, unrealized |-> 0,
              open |-> TRUE]
        ELSE st.lots[i]]

(* Mutant: a lot is opened even when nothing is left. *)
OpenAlways(st, id, tr) == WithLot(st, id, tr)

OpenRest(st, id, tr) == IF st.left = 0 THEN st.lots ELSE WithLot(st, id, tr)

ApplyTrade(id) ==
    LET tr == trades[id]
        st == MatchAll(tr, [lots |-> lots, gained |-> 0, left |-> tr.qty],
                       OppositeIds(lots, tr))
    IN  /\ id \in DOMAIN trades \ applied
        /\ applied' = applied \cup {id}
        /\ lots' = OpenRest(st, id, tr)
        /\ cash' = cash + st.gained
        /\ realized' = realized + st.gained
        /\ UNCHANGED trades

(* The monitor marks every open position of a market at the live price. *)
MarkToMarket(m, price) ==
    /\ lots' = [id \in DOMAIN lots |->
                  IF lots[id].market = m /\ lots[id].open
                  THEN UpdatePrice(lots[id], price) ELSE lots[id]]
    /\ UNCHANGED <<trades, applied, cash, realized>>

Next ==
    \/ Record
    \/ \E id \in 1..MaxTrades : ApplyTrade(id)
    \/ \E m \in Markets, p \in Prices : MarkToMarket(m, p)

Spec == Init /\ [][Next]_vars

------------------------------------------------------------------------------
(* Every variable has its type. *)
TypeOK ==
    /\ trades \in Seq(Trades)
    /\ applied \subseteq DOMAIN trades
    /\ DOMAIN lots \subseteq applied
    /\ \A id \in DOMAIN lots : lots[id] \in Lots
    /\ cash \in Int
    /\ realized \in Int

Open(ls) == {id \in DOMAIN ls : ls[id].open}

(* What the open lots are worth at the prices x, and what the trades ids   *)
(* gained at them.                                                         *)
Worth(ls, x) ==
    MapThenSumSet(LAMBDA id : Gain(ls[id].side, ls[id].entry, x[ls[id].market],
                                   ls[id].qty), Open(ls))

Gained(table, ids, x) ==
    MapThenSumSet(LAMBDA id : Gain(table[id].side, table[id].price,
                                   x[table[id].market], table[id].qty), ids)

(* At any price x of any market, what the account has realized plus what   *)
(* its open lots are worth is what the trades themselves gained or lost:   *)
(* netting moves profit between the two but neither makes nor loses any,   *)
(* however the lots were split. The unrealized gain stored with a lot,     *)
(* which equity adds up, is what its remaining quantity is worth.          *)
ProfitConserved ==
    /\ cash = InitialBalance + realized
    /\ \A x \in [Markets -> Prices] :
          realized + Worth(lots, x) = Gained(trades, applied, x)
    /\ \A id \in DOMAIN lots :
          lots[id].unrealized =
              IF lots[id].open
              THEN Gain(lots[id].side, lots[id].entry, lots[id].current, lots[id].qty)
              ELSE 0

QtyLeft(ls, id) == IF id \in DOMAIN ls /\ ls[id].open THEN ls[id].qty ELSE 0

QtySum(table, ids) == MapThenSumSet(LAMBDA id : table[id].qty, ids)

(* What a trade of this quantity still needs once used has been closed. *)
Want(qty, used) == IF qty > used THEN qty - used ELSE 0

(* FIFO, against its definition: a trade takes from each opposite lot what *)
(* it still needs once every older opposite lot has been used up.          *)
FirstInFirstOut ==
    [][\A id \in applied' \ applied :
          LET tr == trades[id]
              opp == OppositeIds(lots, tr)
          IN  \A i \in opp :
                QtyLeft(lots, i) - QtyLeft(lots', i)
                  = LET want == Want(tr.qty, QtySum(lots, {j \in opp : j < i}))
                    IN  IF want < lots[i].qty THEN want ELSE lots[i].qty
      ]_vars

HeldIds(ls, m, s) ==
    {id \in DOMAIN ls : ls[id].market = m /\ ls[id].open /\ ls[id].side = s}

OpenBook == [m \in Markets |-> [s \in N!Sides |-> QtySum(lots, HeldIds(lots, m, s))]]

BookedQty == (QtySum(trades, applied) - QtySum(lots, Open(lots))) \div 2

LedgerTrades ==
    [i \in DOMAIN trades |-> [market |-> trades[i].market, side |-> trades[i].side,
                              qty |-> trades[i].qty]]

(* The ledger this account is: its lots added up. *)
L == INSTANCE Ledger WITH trades <- LedgerTrades, book <- OpenBook, booked <- BookedQty
(* Lot by lot, the account is still the ledger of module Ledger.           *)
ImplementsLedger == L!Spec
=============================================================================
