------------------------------ MODULE PaperVenue ------------------------------
(***************************************************************************)
(* The paper account and the operations that trade on it.                  *)
(*                                                                         *)
(* PaperVenue.place_order, the two orchestrator pipelines and the exit     *)
(* monitor's mark-to-market all read the whole account, change their copy  *)
(* and write the whole account back.  None of them takes a lock, and they  *)
(* are called from the bot's loop thread, the Telegram thread, the Flask   *)
(* request threads and the command worker.  (The recovery of the           *)
(* reconciliation engine writes the account too; it is not modelled here.) *)
(*                                                                         *)
(* One database statement or transaction is one step; whatever a thread    *)
(* computes in memory in between belongs to the next step.  A thread runs  *)
(* one operation at a time: the steps of Script, in order.                 *)
(***************************************************************************)
EXTENDS Netting, Sequences, FiniteSetsExt

CONSTANTS Threads,      \* the threads that call into the account
          Kinds,        \* the operations they call, a subset of AllKinds
          MaxQty,       \* bound: largest quantity of an order
          MaxTrades,    \* bound: number of trades recorded
          PartialFills, \* the friction profile may fill less than ordered
          WriteFaults,  \* a write transaction may fail
          ReadFaults,   \* a SELECT may fail
          Crashes       \* the process may be killed and started again

AllKinds == {"venue", "paper", "full", "mark"}

ASSUME KindsAssumption == Kinds \subseteq AllKinds
ASSUME MaxQtyAssumption == MaxQty \in Nat \ {0}
ASSUME MaxTradesAssumption == MaxTrades \in Nat
ASSUME SwitchesAssumption ==
    {PartialFills, WriteFaults, ReadFaults, Crashes} \subseteq BOOLEAN

VARIABLES
    connected,  \* PaperVenue._connection_state = CONNECTED
    trades,     \* table trades, in insertion order; a trade's id is its index
    taxed,      \* ids in table tax_events
    saved,      \* table portfolio has a row for this account
    booked,     \* that row: quantity whose profit or loss is in its cash
    book,       \* table positions: open quantity per market and side
    applied,    \* ids of the trades those positions reflect (history)
    filled,     \* ids whose caller was told FILLED (history)
    pc,         \* per thread, its next step, or "idle"
    op,         \* per thread, the operation it runs
    acc         \* per thread, its copy of the account

tables == <<trades, taxed, saved, booked, book, applied, filled>>
vars == <<connected, tables, pc, op, acc>>

(* The steps of each operation, in its order: the first, and for each step *)
(* the next.  "check" is PaperVenue._open_opposing_quantity, "execute"     *)
(* ExecutionBot.execute, "row" and "positions" the two SELECTs of          *)
(* load_account, "tax" TaxLedger.record_event, "save" save_account.        *)
First == [venue |-> "execute", paper |-> "execute", full |-> "row", mark |-> "row"]

Then ==
    [venue |-> [check |-> "execute", execute |-> "row", row |-> "positions",
                positions |-> "tax", tax |-> "save"],
     paper |-> [execute |-> "tax", tax |-> "row", row |-> "positions",
                positions |-> "save"],
     full  |-> [row |-> "positions", positions |-> "execute", execute |-> "tax",
                tax |-> "save"],
     mark  |-> [row |-> "positions", positions |-> "save"]]

Steps == {"check", "execute", "row", "positions", "tax", "save"}

Accounts == [booked : Nat, book : Books, applied : SUBSET Nat]

(* The account load_account returns when there is no row, and also when a  *)
(* SELECT raises: starting cash and no positions.                          *)
DefaultAccount == [booked |-> 0, book |-> EmptyBook, applied |-> {}]

Orders == [kind : AllKinds \ {"mark"}, market : Markets, side : Sides, qty : Nat,
           reduceOnly : BOOLEAN, trade : Nat]
Mark == [kind |-> "mark"]
NoOp == [kind |-> "none"]

Init ==
    /\ connected = FALSE
    /\ trades = <<>>
    /\ taxed = {}
    /\ saved = FALSE
    /\ booked = 0
    /\ book = EmptyBook
    /\ applied = {}
    /\ filled = {}
    /\ pc = [t \in Threads |-> "idle"]
    /\ op = [t \in Threads |-> NoOp]
    /\ acc = [t \in Threads |-> DefaultAccount]

------------------------------------------------------------------------------
(* Session *)

Connect ==
    /\ connected' = TRUE
    /\ UNCHANGED <<tables, pc, op, acc>>

Disconnect ==
    /\ connected' = FALSE
    /\ UNCHANGED <<tables, pc, op, acc>>

------------------------------------------------------------------------------
(* Calls *)

Call(t, o, first) ==
    /\ pc[t] = "idle"
    /\ Len(trades) < MaxTrades
    /\ op' = [op EXCEPT ![t] = o]
    /\ pc' = [pc EXCEPT ![t] = first]
    /\ UNCHANGED <<connected, tables, acc>>

(* place_order: raises unless connected; only reduce-only orders look at   *)
(* the account before they execute.                                        *)
PlaceOrder(t) ==
    /\ "venue" \in Kinds
    /\ connected
    /\ \E m \in Markets, s \in Sides, q \in 1..MaxQty, ro \in BOOLEAN :
          Call(t, [kind |-> "venue", market |-> m, side |-> s, qty |-> q,
                   reduceOnly |-> ro, trade |-> 0],
               IF ro THEN "check" ELSE First["venue"])

(* execute_paper_trade and execute_full_pipeline trade at most one unit,   *)
(* here the unit of quantity.                                              *)
RunPipeline(t) ==
    \E k \in Kinds \cap {"paper", "full"}, m \in Markets, s \in Sides :
        Call(t, [kind |-> k, market |-> m, side |-> s, qty |-> 1,
                 reduceOnly |-> FALSE, trade |-> 0],
             First[k])

MarkToMarket(t) ==
    /\ "mark" \in Kinds
    /\ Call(t, Mark, First["mark"])

------------------------------------------------------------------------------
(* The steps of an operation *)

Proceed(t) == pc' = [pc EXCEPT ![t] = Then[op[t].kind][pc[t]]]

Finish(t) ==
    /\ pc' = [pc EXCEPT ![t] = "idle"]
    /\ op' = [op EXCEPT ![t] = NoOp]
    /\ acc' = [acc EXCEPT ![t] = DefaultAccount]

(* What the first load_account of a reduce-only order may return. *)
Readable == {book} \cup (IF ReadFaults THEN {EmptyBook} ELSE {})

(* Mutant: the quantity is not capped to what can be closed. *)
CheckWithoutCap(t) ==
    /\ pc[t] = "check"
    /\ \E b \in Readable :
          IF Closable(b, op[t].market, op[t].side) = 0
          THEN Finish(t)
          ELSE Proceed(t) /\ UNCHANGED <<op, acc>>
    /\ UNCHANGED <<connected, tables>>

CheckReduceOnly(t) ==
    /\ pc[t] = "check"
    /\ \E b \in Readable :
          LET closable == Closable(b, op[t].market, op[t].side)
          IN  \/ /\ closable = 0                           \* REJECTED
                 /\ Finish(t)
              \/ /\ closable > 0
                 /\ Proceed(t)
                 /\ op' = [op EXCEPT ![t].qty = IF @ > closable THEN closable
                                                                ELSE @]
                 /\ UNCHANGED acc
    /\ UNCHANGED <<connected, tables>>

(* Quote, friction, then the trade row.                                    *)
RecordTrade(t, fill) ==
    /\ Len(trades) < MaxTrades
    /\ trades' = Append(trades, [market |-> op[t].market, side |-> op[t].side,
                                 qty |-> fill])
    /\ UNCHANGED <<connected, taxed, saved, booked, book, applied, filled>>

Execute(t) ==
    /\ pc[t] = "execute"
    /\ \E fill \in IF PartialFills THEN 1..op[t].qty ELSE {op[t].qty} :
          /\ RecordTrade(t, fill)
          /\ op' = [op EXCEPT ![t].qty = fill, ![t].trade = Len(trades) + 1]
    /\ Proceed(t)
    /\ UNCHANGED acc

(* SqliteTradeStore.save commits the trade, then raises on the replay row. *)
ExecuteThenRaise(t) ==
    /\ WriteFaults
    /\ pc[t] = "execute"
    /\ RecordTrade(t, op[t].qty)
    /\ Finish(t)

LoadFails(t) ==
    /\ acc' = [acc EXCEPT ![t] = DefaultAccount]
    /\ pc' = [pc EXCEPT ![t] = Then[op[t].kind]["positions"]]

LoadRow(t) ==
    /\ pc[t] = "row"
    /\ \/ /\ saved
          /\ acc' = [acc EXCEPT ![t].booked = booked]
          /\ Proceed(t)
       \/ /\ ~saved \/ ReadFaults
          /\ LoadFails(t)
    /\ UNCHANGED <<connected, tables, op>>

(* Mutant: only the positions of the order's own market are loaded. *)
LoadOneMarket(t) ==
    /\ pc[t] = "positions"
    /\ acc' = [acc EXCEPT ![t].applied = applied,
                          ![t].book = [m \in Markets |->
                              IF op[t].kind # "mark" /\ m # op[t].market
                              THEN EmptyBook[m] ELSE book[m]]]
    /\ Proceed(t)
    /\ UNCHANGED <<connected, tables, op>>

LoadPositions(t) ==
    /\ pc[t] = "positions"
    /\ \/ /\ acc' = [acc EXCEPT ![t].book = book, ![t].applied = applied]
          /\ Proceed(t)
       \/ /\ ReadFaults
          /\ LoadFails(t)
    /\ UNCHANGED <<connected, tables, op>>

(* Mutant: an exception of the tax ledger is swallowed. *)
RecordTaxOrNot(t) ==
    /\ pc[t] = "tax"
    /\ taxed' \in {taxed, taxed \cup {op[t].trade}}
    /\ Proceed(t)
    /\ UNCHANGED <<connected, trades, saved, booked, book, applied, filled,
                   op, acc>>

RecordTax(t) ==
    /\ pc[t] = "tax"
    /\ taxed' = taxed \cup {op[t].trade}
    /\ Proceed(t)
    /\ UNCHANGED <<connected, trades, saved, booked, book, applied, filled,
                   op, acc>>

(* apply_trade on the copy, then the whole account in one transaction.     *)
SaveTrade(t) ==
    LET tr == trades[op[t].trade]
        a == acc[t]
    IN  /\ pc[t] = "save"
        /\ op[t].kind # "mark"
        /\ saved' = TRUE
        /\ book' = Net(a.book, tr)
        /\ booked' = a.booked + ClosedBy(a.book, tr)
        /\ applied' = a.applied \cup {op[t].trade}
        /\ filled' = filled \cup {op[t].trade}
        /\ Finish(t)
        /\ UNCHANGED <<connected, trades, taxed>>

(* The monitor rewrites the account if it has an open position.            *)
SaveMark(t) ==
    /\ pc[t] = "save"
    /\ op[t].kind = "mark"
    /\ IF HasOpen(acc[t].book)
       THEN /\ saved' = TRUE
            /\ book' = acc[t].book
            /\ booked' = acc[t].booked
            /\ applied' = acc[t].applied
       ELSE UNCHANGED <<saved, book, booked, applied>>
    /\ Finish(t)
    /\ UNCHANGED <<connected, trades, taxed, filled>>

(* Mutant: a failed save_account keeps its DELETE of the positions. *)
RaiseAfterDelete(t) ==
    /\ pc[t] \in {"execute", "tax", "save"}
    /\ IF pc[t] = "save" THEN book' = EmptyBook /\ applied' = {}
                         ELSE UNCHANGED <<book, applied>>
    /\ Finish(t)
    /\ UNCHANGED <<connected, trades, taxed, saved, booked, filled>>

(* No quote, a risk refusal, or a write that rolls back: the exception     *)
(* leaves the operation where it stands.                                   *)
Raise(t) ==
    /\ \/ pc[t] = "execute"
       \/ WriteFaults /\ pc[t] \in {"tax", "save"}
    /\ Finish(t)
    /\ UNCHANGED <<connected, tables>>

Step(t) ==
    \/ CheckReduceOnly(t)
    \/ Execute(t)
    \/ ExecuteThenRaise(t)
    \/ LoadRow(t)
    \/ LoadPositions(t)
    \/ RecordTax(t)
    \/ SaveTrade(t)
    \/ SaveMark(t)
    \/ Raise(t)

------------------------------------------------------------------------------
(* The supervisor kills the process and starts it again: every thread is   *)
(* gone, the tables stay.                                                  *)
Crash ==
    /\ Crashes
    /\ \E t \in Threads : pc[t] # "idle"
    /\ connected' = FALSE
    /\ pc' = [t \in Threads |-> "idle"]
    /\ op' = [t \in Threads |-> NoOp]
    /\ acc' = [t \in Threads |-> DefaultAccount]
    /\ UNCHANGED tables

Next ==
    \/ Connect
    \/ Disconnect
    \/ \E t \in Threads : PlaceOrder(t) \/ RunPipeline(t) \/ MarkToMarket(t)
                          \/ Step(t)
    \/ Crash

Spec == Init /\ [][Next]_vars

------------------------------------------------------------------------------
(* Every variable has its type. *)
TypeOK ==
    /\ connected \in BOOLEAN
    /\ trades \in Seq(Trades)
    /\ taxed \subseteq Nat
    /\ saved \in BOOLEAN
    /\ booked \in Nat
    /\ book \in Books
    /\ applied \subseteq Nat
    /\ filled \subseteq Nat
    /\ pc \in [Threads -> Steps \cup {"idle"}]
    /\ op \in [Threads -> Orders \cup {Mark, NoOp}]
    /\ acc \in [Threads -> Accounts]

(* However the threads interleave, whatever they lose, and whenever the    *)
(* process dies, the stored account is never long and short in one market: *)
(* Account.apply_trade nets before it opens.                               *)
NeverHedged == OneSided(book)

(* Every trade the positions table reflects, and every trade a caller was  *)
(* told is FILLED, is in the trade table and has its tax event.  place_    *)
(* order writes trade, tax event and account in three transactions, and a  *)
(* crash or an exception can fall between any two of them.                 *)
Provenance == applied \cup filled \subseteq taxed /\ taxed \subseteq DOMAIN trades

TradedQty(m, s) ==
    MapThenSumSet(LAMBDA i : trades[i].qty,
                  {i \in applied : trades[i].market = m /\ trades[i].side = s})

(* Net exposure is fully explained by the trades the account reflects: in  *)
(* every market, what was bought is what was sold plus the net position.   *)
ExposureExplained ==
    \A m \in Markets :
        TradedQty(m, "long") + book[m]["short"]
            = TradedQty(m, "short") + book[m]["long"]

(* A trade reported FILLED stays in the account: no later save loses it.   *)
FilledStaysBooked == filled \subseteq applied

(* "Reduce-only orders must never open exposure": the step that books a    *)
(* reduce-only order does not increase what is open on its own side.       *)
ReduceOnlyNeverOpens ==
    [][\A t \in Threads :
          (pc[t] = "save" /\ op[t].kind = "venue" /\ op[t].reduceOnly
             /\ op'[t] = NoOp)
              => book'[op[t].market][op[t].side] <= book[op[t].market][op[t].side]
      ]_vars

L == INSTANCE Ledger
(* The account implements the ledger of module Ledger: each recorded trade *)
(* is settled at most once, in full, on top of all that was settled before. *)
ImplementsLedger == L!Spec
=============================================================================
