--------------------------- MODULE PaperVenue_proofs ---------------------------
(***************************************************************************)
(* What module PaperVenue promises, for any number of threads and          *)
(* markets, any bounds, and with every fault switched on or off: its type, *)
(* NeverHedged, Provenance and ExposureExplained.  Serial adds what the    *)
(* other three need: one thread, and reads that do not fail.  TLC shows    *)
(* each of them violated without it.                                       *)
(*                                                                         *)
(* Hardly any is inductive alone: a save writes a copy that was read       *)
(* earlier, so the copies, and where each thread is in its script, have to *)
(* be part of the invariant.                                               *)
(***************************************************************************)
EXTENDS PaperVenue, Sums

(* Thread at step p running o: p is a step of that operation's script. *)
InScript(o, p) ==
    \/ p = "idle"
    \/ o = Mark /\ p \in {"row", "positions", "save"}
    \/ o \in Orders /\ p \in Steps /\ (p = "check" => o.kind = "venue")

(* At these steps the trade of the operation is in the trade table ... *)
Recorded(o, p) ==
    \/ o.kind = "venue" /\ p \in {"row", "positions", "tax", "save"}
    \/ o.kind = "paper" /\ p \in {"tax", "row", "positions", "save"}
    \/ o.kind = "full" /\ p \in {"tax", "save"}

(* ... and at these it has its tax event. *)
Taxed(o, p) ==
    \/ o.kind \in {"venue", "full"} /\ p = "save"
    \/ o.kind = "paper" /\ p \in {"row", "positions", "save"}

(* One thread, when ids are the trades recorded and tx those with a tax    *)
(* event.                                                                  *)
ThreadOK(p, o, a, ids, tx) ==
    /\ p \in Steps \cup {"idle"}
    /\ o \in Orders \cup {Mark, NoOp}
    /\ a \in Accounts
    /\ InScript(o, p)
    /\ Recorded(o, p) => o.trade \in ids
    /\ Taxed(o, p) => o.trade \in tx
    /\ OneSided(a.book)
    /\ a.applied \subseteq tx

ThreadsOK ==
    /\ pc \in [Threads -> Steps \cup {"idle"}]
    /\ op \in [Threads -> Orders \cup {Mark, NoOp}]
    /\ acc \in [Threads -> Accounts]
    /\ \A t \in Threads : ThreadOK(pc[t], op[t], acc[t], DOMAIN trades, taxed)

TablesOK ==
    /\ connected \in BOOLEAN
    /\ trades \in Seq(Trades)
    /\ saved \in BOOLEAN
    /\ booked \in Nat
    /\ book \in Books
    /\ OneSided(book)
    /\ applied \cup filled \subseteq taxed
    /\ taxed \subseteq DOMAIN trades

IInv == TablesOK /\ ThreadsOK

------------------------------------------------------------------------------
(* Netting one trade into a book. *)

(* A trade closes no more than it trades, and no more than is open.        *)
LEMMA ClosedByBounds ==
    ASSUME NEW b \in Books, NEW tr \in Trades
    PROVE  /\ ClosedBy(b, tr) \in Nat
           /\ ClosedBy(b, tr) <= tr.qty
           /\ ClosedBy(b, tr) <= b[tr.market][Opposite(tr.side)]
           /\ ClosedBy(b, tr) = tr.qty
                \/ ClosedBy(b, tr) = b[tr.market][Opposite(tr.side)]
  <1>1. /\ tr.market \in Markets
        /\ tr.qty \in Nat
        /\ Opposite(tr.side) \in Sides
    BY DEF Trades, Sides, Opposite
  <1>2. b[tr.market][Opposite(tr.side)] \in Nat
    BY <1>1 DEF Books
  <1> QED
    BY <1>1, <1>2 DEF ClosedBy, Closable

(* What Net writes, side by side.                                          *)
LEMMA NetCells ==
    ASSUME NEW b \in Books, NEW tr \in Trades
    PROVE  /\ Net(b, tr) \in Books
           /\ \A m \in Markets \ {tr.market} : Net(b, tr)[m] = b[m]
           /\ Net(b, tr)[tr.market][tr.side]
                = b[tr.market][tr.side] + (tr.qty - ClosedBy(b, tr))
           /\ Net(b, tr)[tr.market][Opposite(tr.side)]
                = b[tr.market][Opposite(tr.side)] - ClosedBy(b, tr)
  <1> DEFINE c == ClosedBy(b, tr)
             row == [s \in Sides |-> IF s = tr.side
                                     THEN b[tr.market][s] + (tr.qty - c)
                                     ELSE b[tr.market][s] - c]
  <1>1. /\ tr.market \in Markets
        /\ tr.side \in Sides
        /\ tr.qty \in Nat
        /\ Opposite(tr.side) \in Sides
        /\ Opposite(tr.side) # tr.side
        /\ \A s \in Sides : s = tr.side \/ s = Opposite(tr.side)
    BY DEF Trades, Sides, Opposite
  <1>2. /\ c \in Nat
        /\ c <= tr.qty
        /\ c <= b[tr.market][Opposite(tr.side)]
    BY ClosedByBounds
  <1>3. \A s \in Sides : b[tr.market][s] \in Nat
    BY <1>1 DEF Books
  <1>4. Net(b, tr) = [b EXCEPT ![tr.market] = row]
    BY DEF Net
  <1> HIDE DEF c
  <1>5. row \in [Sides -> Nat]
    <2>1. ASSUME NEW s \in Sides PROVE row[s] \in Nat
      <3>1. CASE s = tr.side
        BY <1>1, <1>2, <1>3, <3>1
      <3>2. CASE s = Opposite(tr.side)
        BY <1>1, <1>2, <1>3, <3>2
      <3> QED
        BY <1>1, <3>1, <3>2
    <2> QED
      BY <2>1
  <1>6. /\ row[tr.side] = b[tr.market][tr.side] + (tr.qty - c)
        /\ row[Opposite(tr.side)] = b[tr.market][Opposite(tr.side)] - c
    BY <1>1
  <1> HIDE DEF row
  <1>7. /\ Net(b, tr) \in Books
        /\ \A m \in Markets \ {tr.market} : Net(b, tr)[m] = b[m]
        /\ Net(b, tr)[tr.market] = row
    BY <1>1, <1>4, <1>5 DEF Books
  <1> QED
    BY <1>6, <1>7 DEF c

(* Netting never leaves a market long and short (Account.apply_trade opens *)
(* only what no opposite position could absorb).                           *)
LEMMA NetOneSided ==
    ASSUME NEW b \in Books, NEW tr \in Trades, OneSided(b)
    PROVE  OneSided(Net(b, tr))
  <1> DEFINE n == Net(b, tr)
             o == Opposite(tr.side)
  <1>1. /\ tr.market \in Markets
        /\ tr.side \in Sides
        /\ o \in Sides
        /\ tr.qty \in Nat
        /\ Sides = {tr.side, o}
    BY DEF Trades, Sides, Opposite
  <1>2. /\ b[tr.market][tr.side] \in Nat
        /\ b[tr.market][o] \in Nat
    BY <1>1 DEF Books
  <1>3. /\ n[tr.market][tr.side] = b[tr.market][tr.side] + (tr.qty - ClosedBy(b, tr))
        /\ n[tr.market][o] = b[tr.market][o] - ClosedBy(b, tr)
        /\ \A m \in Markets \ {tr.market} : n[m] = b[m]
    BY NetCells
  <1>4. ClosedBy(b, tr) = IF tr.qty <= b[tr.market][o] THEN tr.qty ELSE b[tr.market][o]
    BY DEF ClosedBy, Closable
  <1>5. b[tr.market][tr.side] = 0 \/ b[tr.market][o] = 0
    BY <1>1 DEF OneSided
  <1> HIDE DEF n, o
  <1>6. n[tr.market][tr.side] = 0 \/ n[tr.market][o] = 0
    BY <1>1, <1>2, <1>3, <1>4, <1>5
  <1>7. \A m \in Markets : \E s \in Sides : n[m][s] = 0
    <2>1. TAKE m \in Markets
    <2>2. CASE m = tr.market
      BY <1>1, <1>6, <2>2
    <2>3. CASE m # tr.market
      <3>1. n[m] = b[m]
        BY <1>3, <2>3
      <3> QED
        BY <3>1 DEF OneSided
    <2> QED
      BY <2>2, <2>3
  <1> QED
    BY <1>7 DEF OneSided, n

(* An order no larger than the opposite exposure opens nothing.            *)
THEOREM NetReduces ==
    ASSUME NEW b \in Books, NEW tr \in Trades,
           tr.qty <= Closable(b, tr.market, tr.side)
    PROVE  Net(b, tr)[tr.market][tr.side] = b[tr.market][tr.side]
  <1>1. ClosedBy(b, tr) = tr.qty
    BY DEF ClosedBy
  <1>2. tr.qty \in Nat /\ b[tr.market][tr.side] \in Nat
    BY DEF Trades, Books
  <1> QED
    BY <1>1, <1>2, NetCells

------------------------------------------------------------------------------

LEMMA EmptyBookOK == EmptyBook \in Books /\ OneSided(EmptyBook)
  BY DEF EmptyBook, Books, OneSided, Sides

LEMMA DefaultAccountOK ==
    /\ DefaultAccount \in Accounts
    /\ OneSided(DefaultAccount.book)
    /\ DefaultAccount.applied = {}
    /\ DefaultAccount.book = EmptyBook
  BY EmptyBookOK DEF DefaultAccount, Accounts

LEMMA Kinds3 ==
    /\ Mark.kind = "mark"
    /\ NoOp.kind = "none"
    /\ \A o \in Orders : /\ o.kind \in {"venue", "paper", "full"}
                         /\ o.market \in Markets /\ o.side \in Sides
                         /\ o.qty \in Nat /\ o.trade \in Nat
                         /\ o.reduceOnly \in BOOLEAN
  BY DEF Mark, NoOp, Orders, AllKinds

(* An idle thread is in order whatever the tables hold. *)
LEMMA IdleOK ==
    ASSUME NEW ids, NEW tx
    PROVE  ThreadOK("idle", NoOp, DefaultAccount, ids, tx)
  BY DefaultAccountOK, Kinds3 DEF ThreadOK, InScript, Recorded, Taxed, Steps

(* The trade and tax tables only grow, so what held of the other threads   *)
(* still does: it is enough to look at the thread that moved.              *)
LEMMA ThreadMoves ==
    ASSUME IInv,
           NEW t \in Threads, NEW p, NEW o, NEW a,
           pc' = [pc EXCEPT ![t] = p],
           op' = [op EXCEPT ![t] = o],
           acc' = [acc EXCEPT ![t] = a],
           DOMAIN trades \subseteq DOMAIN trades',
           taxed \subseteq taxed',
           ThreadOK(p, o, a, DOMAIN trades', taxed')
    PROVE  ThreadsOK'
  <1>1. /\ p \in Steps \cup {"idle"}
        /\ o \in Orders \cup {Mark, NoOp}
        /\ a \in Accounts
    BY DEF ThreadOK
  <1>2. /\ pc' \in [Threads -> Steps \cup {"idle"}]
        /\ op' \in [Threads -> Orders \cup {Mark, NoOp}]
        /\ acc' \in [Threads -> Accounts]
        /\ pc'[t] = p /\ op'[t] = o /\ acc'[t] = a
        /\ \A u \in Threads \ {t} : pc'[u] = pc[u] /\ op'[u] = op[u] /\ acc'[u] = acc[u]
    BY <1>1 DEF IInv, ThreadsOK
  <1>3. ASSUME NEW u \in Threads
        PROVE  ThreadOK(pc'[u], op'[u], acc'[u], DOMAIN trades', taxed')
    <2>1. CASE u = t
      BY <1>2, <2>1
    <2>2. CASE u # t
      <3>1. ThreadOK(pc[u], op[u], acc[u], DOMAIN trades, taxed)
        BY DEF IInv, ThreadsOK
      <3> QED
        BY <1>2, <2>2, <3>1 DEF ThreadOK
    <2> QED
      BY <2>1, <2>2
  <1> QED
    BY <1>2, <1>3 DEF ThreadsOK

LEMMA InitOK == Init => IInv
  <1> SUFFICES ASSUME Init PROVE IInv
    OBVIOUS
  <1>1. TablesOK
    <2>1. <<>> \in Seq(Trades)
      OBVIOUS
    <2> QED
      BY <2>1, EmptyBookOK DEF Init, TablesOK
  <1>2. ThreadsOK
    <2>1. ASSUME NEW t \in Threads
          PROVE  ThreadOK(pc[t], op[t], acc[t], DOMAIN trades, taxed)
      <3>1. pc[t] = "idle" /\ op[t] = NoOp /\ acc[t] = DefaultAccount
        BY DEF Init
      <3> QED
        BY <3>1, IdleOK
    <2> QED
      BY <2>1, DefaultAccountOK DEF Init, ThreadsOK
  <1> QED
    BY <1>1, <1>2 DEF IInv

(* A thread that ends its operation, whatever the outcome. *)
LEMMA FinishOK ==
    ASSUME IInv, NEW t \in Threads, Finish(t),
           DOMAIN trades \subseteq DOMAIN trades', taxed \subseteq taxed'
    PROVE  ThreadsOK'
  BY ThreadMoves, IdleOK DEF Finish

LEMMA CallOK ==
    ASSUME IInv, NEW t \in Threads, NEW o, NEW first, Call(t, o, first),
           \/ o = Mark /\ first = "row"
           \/ o \in Orders /\ o.kind = "venue" /\ first \in {"check", "execute"}
           \/ o \in Orders /\ o.kind = "paper" /\ first = "execute"
           \/ o \in Orders /\ o.kind = "full" /\ first = "row"
    PROVE  IInv'
  <1>1. ThreadOK(pc[t], op[t], acc[t], DOMAIN trades, taxed)
    BY DEF IInv, ThreadsOK
  <1>2. UNCHANGED <<connected, tables>>
    BY DEF Call
  <1>3. TablesOK'
    BY <1>2 DEF IInv, TablesOK, tables
  <1>4. ThreadOK(first, o, acc[t], DOMAIN trades, taxed)
    BY <1>1, Kinds3 DEF ThreadOK, InScript, Recorded, Taxed, Steps
  <1>5. acc' = [acc EXCEPT ![t] = acc[t]]
    BY DEF Call, IInv, ThreadsOK
  <1> QED
    BY <1>2, <1>3, <1>4, <1>5, ThreadMoves DEF Call, tables, IInv

LEMMA PlaceOrderOK ==
    ASSUME IInv, NEW t \in Threads, PlaceOrder(t)
    PROVE  IInv'
  <1>1. PICK m \in Markets, s \in Sides, q \in 1..MaxQty, ro \in BOOLEAN :
          Call(t, [kind |-> "venue", market |-> m, side |-> s, qty |-> q,
                   reduceOnly |-> ro, trade |-> 0],
               IF ro THEN "check" ELSE First["venue"])
    BY DEF PlaceOrder
  <1>2. [kind |-> "venue", market |-> m, side |-> s, qty |-> q,
         reduceOnly |-> ro, trade |-> 0] \in Orders
    BY DEF Orders, AllKinds
  <1> QED
    BY <1>1, <1>2, CallOK DEF First

LEMMA RunPipelineOK ==
    ASSUME IInv, NEW t \in Threads, RunPipeline(t)
    PROVE  IInv'
  <1>1. PICK k \in Kinds \cap {"paper", "full"}, m \in Markets, s \in Sides :
          Call(t, [kind |-> k, market |-> m, side |-> s, qty |-> 1,
                   reduceOnly |-> FALSE, trade |-> 0], First[k])
    BY DEF RunPipeline
  <1>2. [kind |-> k, market |-> m, side |-> s, qty |-> 1,
         reduceOnly |-> FALSE, trade |-> 0] \in Orders
    BY DEF Orders, AllKinds
  <1> QED
    BY <1>1, <1>2, CallOK DEF First

LEMMA MarkToMarketOK ==
    ASSUME IInv, NEW t \in Threads, MarkToMarket(t)
    PROVE  IInv'
  BY CallOK DEF MarkToMarket, First

------------------------------------------------------------------------------
(* The steps of an operation *)

LEMMA ThenFacts ==
    /\ Then["venue"]["check"] = "execute"
    /\ Then["venue"]["execute"] = "row"
    /\ Then["venue"]["row"] = "positions"
    /\ Then["venue"]["positions"] = "tax"
    /\ Then["venue"]["tax"] = "save"
    /\ Then["paper"]["execute"] = "tax"
    /\ Then["paper"]["tax"] = "row"
    /\ Then["paper"]["row"] = "positions"
    /\ Then["paper"]["positions"] = "save"
    /\ Then["full"]["row"] = "positions"
    /\ Then["full"]["positions"] = "execute"
    /\ Then["full"]["execute"] = "tax"
    /\ Then["full"]["tax"] = "save"
    /\ Then["mark"]["row"] = "positions"
    /\ Then["mark"]["positions"] = "save"
  BY DEF Then

LEMMA CheckReduceOnlyOK ==
    ASSUME IInv, NEW t \in Threads, CheckReduceOnly(t)
    PROVE  IInv'
  <1>1. ThreadOK(pc[t], op[t], acc[t], DOMAIN trades, taxed)
    BY DEF IInv, ThreadsOK
  <1>2. UNCHANGED <<connected, tables>> /\ pc[t] = "check"
    BY DEF CheckReduceOnly
  <1>3. TablesOK'
    BY <1>2 DEF IInv, TablesOK, tables
  <1>4. CASE Finish(t)
    BY <1>2, <1>3, <1>4, FinishOK DEF tables, IInv
  <1>5. CASE \E c \in Nat : /\ Proceed(t)
                           /\ op' = [op EXCEPT ![t].qty = IF @ > c THEN c ELSE @]
                           /\ UNCHANGED acc
    <2>1. PICK c \in Nat : /\ Proceed(t)
                           /\ op' = [op EXCEPT ![t].qty = IF @ > c THEN c ELSE @]
                           /\ UNCHANGED acc
      BY <1>5
    <2> DEFINE o == [op[t] EXCEPT !.qty = IF @ > c THEN c ELSE @]
    <2>2. op[t] \in Orders /\ op[t].kind = "venue"
      BY <1>1, <1>2, Kinds3 DEF ThreadOK, InScript
    <2>3. o \in Orders /\ o.kind = "venue"
      BY <2>2 DEF Orders, AllKinds
    <2>4. pc' = [pc EXCEPT ![t] = "execute"]
      BY <2>1, <2>2, <1>2, ThenFacts DEF Proceed
    <2>5. op' = [op EXCEPT ![t] = o] /\ acc' = [acc EXCEPT ![t] = acc[t]]
      BY <2>1 DEF IInv, ThreadsOK
    <2> HIDE DEF o
    <2>6. ThreadOK("execute", o, acc[t], DOMAIN trades, taxed)
      BY <1>1, <2>3 DEF ThreadOK, InScript, Recorded, Taxed, Steps
    <2> QED
      BY <1>2, <1>3, <2>4, <2>5, <2>6, ThreadMoves DEF tables, IInv
  <1>6. \A b \in Readable : Closable(b, op[t].market, op[t].side) \in Nat
    <2>1. op[t] \in Orders
      BY <1>1, <1>2, Kinds3 DEF ThreadOK, InScript
    <2>2. Readable \subseteq Books
      BY EmptyBookOK DEF Readable, IInv, TablesOK
    <2>3. /\ op[t].market \in Markets
          /\ Opposite(op[t].side) \in Sides
      BY <2>1, Kinds3 DEF Opposite, Sides
    <2> QED
      BY <2>2, <2>3 DEF Closable, Books
  <1> QED
    BY <1>4, <1>5, <1>6 DEF CheckReduceOnly

(* A new trade row: the table grows by one well-formed trade. *)
LEMMA RecordTradeOK ==
    ASSUME IInv, NEW t \in Threads, op[t] \in Orders,
           NEW fill \in Nat, RecordTrade(t, fill)
    PROVE  /\ TablesOK'
           /\ DOMAIN trades \subseteq DOMAIN trades'
           /\ Len(trades) + 1 \in DOMAIN trades'
           /\ taxed' = taxed
  <1> DEFINE tr == [market |-> op[t].market, side |-> op[t].side, qty |-> fill]
  <1>1. tr \in Trades
    BY Kinds3 DEF Trades
  <1>2. trades' = Append(trades, tr) /\ trades \in Seq(Trades)
    BY DEF RecordTrade, IInv, TablesOK
  <1> HIDE DEF tr
  <1>3. /\ trades' \in Seq(Trades)
        /\ DOMAIN trades \subseteq DOMAIN trades'
        /\ Len(trades) + 1 \in DOMAIN trades'
    BY <1>1, <1>2
  <1> QED
    BY <1>3 DEF RecordTrade, IInv, TablesOK

LEMMA ExecuteOK ==
    ASSUME IInv, NEW t \in Threads, Execute(t)
    PROVE  IInv'
  <1>1. ThreadOK(pc[t], op[t], acc[t], DOMAIN trades, taxed)
    BY DEF IInv, ThreadsOK
  <1>2. op[t] \in Orders /\ pc[t] = "execute"
    BY <1>1, Kinds3 DEF Execute, ThreadOK, InScript
  <1>3. PICK fill \in IF PartialFills THEN 1..op[t].qty ELSE {op[t].qty} :
          /\ RecordTrade(t, fill)
          /\ op' = [op EXCEPT ![t].qty = fill, ![t].trade = Len(trades) + 1]
    BY DEF Execute
  <1>4. fill \in Nat
    BY <1>2, Kinds3
  <1>5. /\ TablesOK'
        /\ DOMAIN trades \subseteq DOMAIN trades'
        /\ Len(trades) + 1 \in DOMAIN trades'
        /\ taxed' = taxed
    BY <1>2, <1>3, <1>4, RecordTradeOK
  <1>6. Len(trades) + 1 \in Nat
    BY DEF IInv, TablesOK
  <1> DEFINE o == [op[t] EXCEPT !.qty = fill, !.trade = Len(trades) + 1]
             p == Then[op[t].kind]["execute"]
  <1>7. op' = [op EXCEPT ![t] = o] /\ acc' = [acc EXCEPT ![t] = acc[t]]
    BY <1>3 DEF Execute, IInv, ThreadsOK
  <1>8. /\ o \in Orders
        /\ o.kind = op[t].kind
        /\ o.trade = Len(trades) + 1
    BY <1>2, <1>4, <1>6 DEF Orders
  <1>9. pc' = [pc EXCEPT ![t] = p]
    BY <1>2 DEF Execute, Proceed
  <1>10. \/ o.kind = "venue" /\ p = "row"
         \/ o.kind = "paper" /\ p = "tax"
         \/ o.kind = "full" /\ p = "tax"
    BY <1>2, <1>8, Kinds3, ThenFacts
  <1> HIDE DEF o, p
  <1>11. ThreadOK(p, o, acc[t], DOMAIN trades', taxed')
    BY <1>1, <1>5, <1>8, <1>10 DEF ThreadOK, InScript, Recorded, Taxed, Steps
  <1> QED
    BY <1>5, <1>7, <1>9, <1>11, ThreadMoves DEF IInv

LEMMA ExecuteThenRaiseOK ==
    ASSUME IInv, NEW t \in Threads, ExecuteThenRaise(t)
    PROVE  IInv'
  <1>1. ThreadOK(pc[t], op[t], acc[t], DOMAIN trades, taxed)
    BY DEF IInv, ThreadsOK
  <1>2. op[t] \in Orders /\ op[t].qty \in Nat
    BY <1>1, Kinds3 DEF ExecuteThenRaise, ThreadOK, InScript
  <1>3. TablesOK' /\ DOMAIN trades \subseteq DOMAIN trades' /\ taxed' = taxed
    BY <1>2, RecordTradeOK DEF ExecuteThenRaise
  <1> QED
    BY <1>3, FinishOK DEF ExecuteThenRaise, IInv

LEMMA LoadFailsOK ==
    ASSUME IInv, NEW t \in Threads, LoadFails(t), UNCHANGED <<connected, tables, op>>,
           pc[t] \in {"row", "positions"}
    PROVE  IInv'
  <1>1. ThreadOK(pc[t], op[t], acc[t], DOMAIN trades, taxed)
    BY DEF IInv, ThreadsOK
  <1>2. TablesOK'
    BY DEF IInv, TablesOK, tables
  <1> DEFINE p == Then[op[t].kind]["positions"]
  <1>3. ThreadOK(p, op[t], DefaultAccount, DOMAIN trades, taxed)
    <2>1. CASE op[t] = Mark
      BY <1>1, <2>1, Kinds3, ThenFacts, DefaultAccountOK
      DEF ThreadOK, InScript, Recorded, Taxed, Steps
    <2>2. CASE op[t] \in Orders
      BY <1>1, <2>2, Kinds3, ThenFacts, DefaultAccountOK
      DEF ThreadOK, InScript, Recorded, Taxed, Steps
    <2> QED
      BY <1>1, <2>1, <2>2 DEF ThreadOK, InScript
  <1>4. op' = [op EXCEPT ![t] = op[t]]
    BY DEF IInv, ThreadsOK
  <1>5. pc' = [pc EXCEPT ![t] = p] /\ acc' = [acc EXCEPT ![t] = DefaultAccount]
    BY DEF LoadFails
  <1> HIDE DEF p
  <1> QED
    BY <1>2, <1>3, <1>4, <1>5, ThreadMoves DEF tables, IInv

(* Reading the account row changes only the cash of the copy. *)
LEMMA LoadRowOK ==
    ASSUME IInv, NEW t \in Threads, LoadRow(t)
    PROVE  IInv'
  <1>1. ThreadOK(pc[t], op[t], acc[t], DOMAIN trades, taxed) /\ pc[t] = "row"
    BY DEF IInv, ThreadsOK, LoadRow
  <1>2. UNCHANGED <<connected, tables, op>>
    BY DEF LoadRow
  <1>3. CASE LoadFails(t)
    BY <1>1, <1>2, <1>3, LoadFailsOK
  <1>4. CASE acc' = [acc EXCEPT ![t].booked = booked] /\ Proceed(t)
    <2> DEFINE a == [acc[t] EXCEPT !.booked = booked]
               p == Then[op[t].kind]["row"]
    <2>1. TablesOK'
      BY <1>2 DEF IInv, TablesOK, tables
    <2>2. /\ a \in Accounts
          /\ a.book = acc[t].book
          /\ a.applied = acc[t].applied
      BY <1>1 DEF ThreadOK, Accounts, IInv, TablesOK
    <2>3. /\ pc' = [pc EXCEPT ![t] = p]
          /\ acc' = [acc EXCEPT ![t] = a]
          /\ op' = [op EXCEPT ![t] = op[t]]
      BY <1>1, <1>2, <1>4 DEF Proceed, IInv, ThreadsOK
    <2>4. /\ op[t] = Mark => p = "positions"
          /\ op[t] \in Orders => p = "positions"
      BY Kinds3, ThenFacts
    <2> HIDE DEF a, p
    <2>5. ThreadOK(p, op[t], a, DOMAIN trades, taxed)
      <3>1. CASE op[t] = Mark
        BY <1>1, <2>2, <2>4, <3>1, Kinds3
        DEF ThreadOK, InScript, Recorded, Taxed, Steps
      <3>2. CASE op[t] \in Orders
        BY <1>1, <2>2, <2>4, <3>2, Kinds3
        DEF ThreadOK, InScript, Recorded, Taxed, Steps
      <3> QED
        BY <1>1, <3>1, <3>2 DEF ThreadOK, InScript
    <2> QED
      BY <1>2, <2>1, <2>3, <2>5, ThreadMoves DEF tables, IInv
  <1> QED
    BY <1>3, <1>4 DEF LoadRow

LEMMA LoadPositionsOK ==
    ASSUME IInv, NEW t \in Threads, LoadPositions(t)
    PROVE  IInv'
  <1>1. ThreadOK(pc[t], op[t], acc[t], DOMAIN trades, taxed) /\ pc[t] = "positions"
    BY DEF IInv, ThreadsOK, LoadPositions
  <1>2. UNCHANGED <<connected, tables, op>>
    BY DEF LoadPositions
  <1>3. CASE LoadFails(t)
    BY <1>1, <1>2, <1>3, LoadFailsOK
  <1>4. CASE acc' = [acc EXCEPT ![t].book = book, ![t].applied = applied] /\ Proceed(t)
    <2> DEFINE a == [acc[t] EXCEPT !.book = book, !.applied = applied]
               p == Then[op[t].kind]["positions"]
    <2>1. TablesOK'
      BY <1>2 DEF IInv, TablesOK, tables
    <2>2. applied \subseteq Nat
      BY DEF IInv, TablesOK
    <2>3. /\ a \in Accounts
          /\ a.book = book
          /\ a.applied = applied
      BY <1>1, <2>2 DEF ThreadOK, Accounts, IInv, TablesOK
    <2>4. /\ pc' = [pc EXCEPT ![t] = p]
          /\ acc' = [acc EXCEPT ![t] = a]
          /\ op' = [op EXCEPT ![t] = op[t]]
      BY <1>1, <1>2, <1>4 DEF Proceed, IInv, ThreadsOK
    <2>5. OneSided(a.book) /\ a.applied \subseteq taxed
      BY <2>3 DEF IInv, TablesOK
    <2>6. /\ op[t] = Mark => p = "save"
          /\ op[t] \in Orders =>
                \/ op[t].kind = "venue" /\ p = "tax"
                \/ op[t].kind = "paper" /\ p = "save"
                \/ op[t].kind = "full" /\ p = "execute"
      BY Kinds3, ThenFacts
    <2> HIDE DEF a, p
    <2>7. ThreadOK(p, op[t], a, DOMAIN trades, taxed)
      <3>1. CASE op[t] = Mark
        BY <1>1, <2>3, <2>5, <2>6, <3>1, Kinds3
        DEF ThreadOK, InScript, Recorded, Taxed, Steps
      <3>2. CASE op[t] \in Orders
        BY <1>1, <2>3, <2>5, <2>6, <3>2, Kinds3
        DEF ThreadOK, InScript, Recorded, Taxed, Steps
      <3> QED
        BY <1>1, <3>1, <3>2 DEF ThreadOK, InScript
    <2> QED
      BY <1>2, <2>1, <2>4, <2>7, ThreadMoves DEF tables, IInv
  <1> QED
    BY <1>3, <1>4 DEF LoadPositions

LEMMA RecordTaxOK ==
    ASSUME IInv, NEW t \in Threads, RecordTax(t)
    PROVE  IInv'
  <1>1. ThreadOK(pc[t], op[t], acc[t], DOMAIN trades, taxed) /\ pc[t] = "tax"
    BY DEF IInv, ThreadsOK, RecordTax
  <1>2. /\ op[t] \in Orders
        /\ op[t].trade \in DOMAIN trades
        /\ op[t].kind \in {"venue", "paper", "full"}
    BY <1>1, Kinds3 DEF ThreadOK, InScript, Recorded
  <1>3. taxed' = taxed \cup {op[t].trade} /\ trades' = trades
    BY DEF RecordTax
  <1>4. TablesOK'
    BY <1>2, <1>3 DEF RecordTax, IInv, TablesOK
  <1> DEFINE p == Then[op[t].kind]["tax"]
  <1>5. /\ pc' = [pc EXCEPT ![t] = p]
        /\ acc' = [acc EXCEPT ![t] = acc[t]]
        /\ op' = [op EXCEPT ![t] = op[t]]
    BY <1>1 DEF RecordTax, Proceed, IInv, ThreadsOK
  <1>6. \/ op[t].kind = "venue" /\ p = "save"
        \/ op[t].kind = "paper" /\ p = "row"
        \/ op[t].kind = "full" /\ p = "save"
    BY <1>2, ThenFacts
  <1> HIDE DEF p
  <1>7. ThreadOK(p, op[t], acc[t], DOMAIN trades', taxed')
    BY <1>1, <1>2, <1>3, <1>6 DEF ThreadOK, InScript, Recorded, Taxed, Steps
  <1> QED
    BY <1>3, <1>4, <1>5, <1>7, ThreadMoves DEF IInv

(* The save nets the trade into the copy: a one-sided copy stays one-sided *)
(* and the trade it adds has its tax event.                                *)
LEMMA SaveTradeOK ==
    ASSUME IInv, NEW t \in Threads, SaveTrade(t)
    PROVE  IInv'
  <1>1. ThreadOK(pc[t], op[t], acc[t], DOMAIN trades, taxed)
        /\ pc[t] = "save" /\ op[t].kind # "mark"
    BY DEF IInv, ThreadsOK, SaveTrade
  <1>2. /\ op[t] \in Orders
        /\ op[t].trade \in DOMAIN trades
        /\ op[t].trade \in taxed
    BY <1>1, Kinds3 DEF ThreadOK, InScript, Recorded, Taxed
  <1> DEFINE tr == trades[op[t].trade]
             a == acc[t]
  <1>3. tr \in Trades
    BY <1>2 DEF IInv, TablesOK
  <1>4. /\ a.book \in Books
        /\ OneSided(a.book)
        /\ a.booked \in Nat
        /\ a.applied \subseteq taxed
    BY <1>1 DEF ThreadOK, Accounts
  <1>5. /\ saved' = TRUE
        /\ book' = Net(a.book, tr)
        /\ booked' = a.booked + ClosedBy(a.book, tr)
        /\ applied' = a.applied \cup {op[t].trade}
        /\ filled' = filled \cup {op[t].trade}
        /\ Finish(t)
        /\ UNCHANGED <<connected, trades, taxed>>
    BY DEF SaveTrade
  <1> HIDE DEF tr, a
  <1>6. book' \in Books /\ OneSided(book') /\ booked' \in Nat
    BY <1>3, <1>4, <1>5, NetCells, NetOneSided, ClosedByBounds
  <1>7. applied' \cup filled' \subseteq taxed'
    BY <1>2, <1>4, <1>5 DEF IInv, TablesOK
  <1>8. TablesOK'
    BY <1>5, <1>6, <1>7 DEF IInv, TablesOK
  <1> QED
    BY <1>5, <1>8, FinishOK DEF IInv

LEMMA SaveMarkOK ==
    ASSUME IInv, NEW t \in Threads, SaveMark(t)
    PROVE  IInv'
  <1>1. ThreadOK(pc[t], op[t], acc[t], DOMAIN trades, taxed)
    BY DEF IInv, ThreadsOK
  <1>2. /\ acc[t].book \in Books
        /\ OneSided(acc[t].book)
        /\ acc[t].booked \in Nat
        /\ acc[t].applied \subseteq taxed
    BY <1>1 DEF ThreadOK, Accounts
  <1>3. Finish(t) /\ UNCHANGED <<connected, trades, taxed, filled>>
    BY DEF SaveMark
  <1>4. TablesOK'
    <2>1. CASE HasOpen(acc[t].book)
      BY <1>2, <2>1 DEF SaveMark, IInv, TablesOK
    <2>2. CASE ~HasOpen(acc[t].book)
      BY <2>2 DEF SaveMark, IInv, TablesOK
    <2> QED
      BY <2>1, <2>2
  <1> QED
    BY <1>3, <1>4, FinishOK DEF IInv

LEMMA RaiseOK ==
    ASSUME IInv, NEW t \in Threads, Raise(t)
    PROVE  IInv'
  <1>1. TablesOK'
    BY DEF Raise, IInv, TablesOK, tables
  <1> QED
    BY <1>1, FinishOK DEF Raise, tables, IInv

LEMMA CrashOK == IInv /\ Crash => IInv'
  <1> SUFFICES ASSUME IInv, Crash PROVE IInv'
    OBVIOUS
  <1>1. UNCHANGED tables /\ connected' = FALSE
    BY DEF Crash
  <1>2. TablesOK'
    BY <1>1 DEF IInv, TablesOK, tables
  <1>3. ThreadsOK'
    BY IdleOK, DefaultAccountOK DEF Crash, ThreadsOK
  <1> QED
    BY <1>2, <1>3 DEF IInv

------------------------------------------------------------------------------
(* Every step keeps the invariant, one case per action of Next. *)
LEMMA NextOK == IInv /\ [Next]_vars => IInv'
  <1> SUFFICES ASSUME IInv, [Next]_vars PROVE IInv'
    OBVIOUS
  <1>1. CASE Connect \/ Disconnect
    <2>1. connected' \in BOOLEAN /\ UNCHANGED <<tables, pc, op, acc>>
      BY <1>1 DEF Connect, Disconnect
    <2> QED
      BY <2>1 DEF IInv, TablesOK, ThreadsOK, tables
  <1>2. ASSUME NEW t \in Threads,
               PlaceOrder(t) \/ RunPipeline(t) \/ MarkToMarket(t)
        PROVE  IInv'
    BY <1>2, PlaceOrderOK, RunPipelineOK, MarkToMarketOK
  <1>3. ASSUME NEW t \in Threads, Step(t)
        PROVE  IInv'
    BY <1>3, CheckReduceOnlyOK, ExecuteOK, ExecuteThenRaiseOK, LoadRowOK,
       LoadPositionsOK, RecordTaxOK, SaveTradeOK, SaveMarkOK, RaiseOK
    DEF Step
  <1>4. CASE Crash
    BY <1>4, CrashOK
  <1>5. CASE UNCHANGED vars
    BY <1>5 DEF IInv, TablesOK, ThreadsOK, vars, tables
  <1> QED
    BY <1>1, <1>2, <1>3, <1>4, <1>5 DEF Next

LEMMA Inductive == Spec => []IInv
  BY InitOK, NextOK, PTL DEF Spec

(* In every reachable state of every instance the account has its type.    *)
THEOREM TypeCorrect == Spec => []TypeOK
  <1>1. IInv => TypeOK
    BY DEF IInv, TablesOK, ThreadsOK, TypeOK
  <1> QED
    BY <1>1, Inductive, PTL

(* The stored account is never long and short in one market, under every   *)
(* interleaving, torn read, failed load and crash of PaperVenue's callers. *)
THEOREM NeverHedgedHolds == Spec => []NeverHedged
  <1>1. IInv => NeverHedged
    BY DEF IInv, TablesOK, NeverHedged
  <1> QED
    BY <1>1, Inductive, PTL

(* Whatever the positions table reflects or a caller was told is recorded  *)
(* and taxed, although trade, tax event and account are three transactions.*)
THEOREM ProvenanceHolds == Spec => []Provenance
  <1>1. IInv => Provenance
    BY DEF IInv, TablesOK, Provenance
  <1> QED
    BY <1>1, Inductive, PTL

------------------------------------------------------------------------------
(* The positions are explained by the trades they reflect.                 *)
(*                                                                         *)
(* This holds with any number of threads and every fault: a save may lose  *)
(* what others booked, but the positions and the trades they reflect are   *)
(* lost together.  What it rests on is that a trade is added to no copy    *)
(* that already has it: the trade of an operation under way is in no copy, *)
(* not in the table, and of no other operation.                            *)

Traded(table, A, m, s) ==
    MapThenSumSet(LAMBDA i : table[i].qty,
                  {i \in A : table[i].market = m /\ table[i].side = s})

(* The positions b are those the trades in A leave. *)
Explained(b, A) ==
    \A m \in Markets : Traded(trades, A, m, "long") + b[m]["short"]
                         = Traded(trades, A, m, "short") + b[m]["long"]

(* The trade under way in o is not yet in A. *)
NotIn(o, A) == o \in Orders => o.trade \notin A

Fresh ==
    \A t \in Threads :
        /\ op[t] \in Orders => op[t].trade \in {0} \cup DOMAIN trades
        /\ NotIn(op[t], applied)
        /\ \A s \in Threads : NotIn(op[t], acc[s].applied)
        /\ \A s \in Threads \ {t} :
              op[t] \in Orders /\ op[s] \in Orders
                => op[t].trade = 0 \/ op[s].trade # op[t].trade

ExposureInv ==
    /\ Fresh
    /\ Explained(book, applied)
    /\ \A t \in Threads : Explained(acc[t].book, acc[t].applied)

(* Positions and the trades they reflect as they stand somewhere. *)
Stands(b, A) ==
    \/ b = EmptyBook /\ A = {}
    \/ b = book /\ A = applied
    \/ \E t \in Threads : b = acc[t].book /\ A = acc[t].applied

(* The trade table as it was, perhaps with a trade more. *)
Kept ==
    /\ Len(trades') \in Nat /\ DOMAIN trades' = 1..Len(trades')
    /\ \A i \in DOMAIN trades : i \in DOMAIN trades' /\ trades'[i] = trades[i]

LEMMA TradedTotal ==
    ASSUME NEW trs, NEW A, NEW m, NEW s
    PROVE  Traded(trs, A, m, s)
             = Total([i \in {j \in A : trs[j].market = m /\ trs[j].side = s}
                          |-> trs[i].qty],
                     {j \in A : trs[j].market = m /\ trs[j].side = s})
  <1> DEFINE S == {j \in A : trs[j].market = m /\ trs[j].side = s}
             q == [i \in S |-> trs[i].qty]
             R(g) == g = [u \in SUBSET S |->
                              IF u = {} THEN 0
                              ELSE trs[CHOOSE x \in u : TRUE].qty
                                     + g[u \ {CHOOSE x \in u : TRUE}]]
  <1>1. Traded(trs, A, m, s) = (CHOOSE g : R(g))[S]
    BY DEF Traded, MapThenSumSet, MapThenFoldSet
  <1>2. Total(q, S) = (CHOOSE g : IsSum(g, q, S))[S]
    BY DEF Total, MapThenSumSet, MapThenFoldSet, IsSum, Some
  <1>3. ASSUME NEW g
        PROVE  R(g) <=> IsSum(g, q, S)
    <2>1. \A u \in SUBSET S : u # {} => q[Some(u)] = trs[Some(u)].qty
      BY SomeOf
    <2> QED
      BY <2>1 DEF IsSum, Some
  <1> HIDE DEF R
  <1>4. (CHOOSE g : R(g)) = (CHOOSE g : IsSum(g, q, S))
    BY <1>3
  <1> QED
    BY <1>1, <1>2, <1>4

(* What a set of recorded trades adds up to depends on those trades only.  *)
LEMMA TradedSame ==
    ASSUME NEW p, NEW q, NEW A, \A i \in A : p[i] = q[i], NEW m, NEW s
    PROVE  Traded(p, A, m, s) = Traded(q, A, m, s)
  <1> DEFINE S(table) == {j \in A : table[j].market = m /\ table[j].side = s}
             f(table) == [i \in S(table) |-> table[i].qty]
  <1>1. S(p) = S(q)
    OBVIOUS
  <1>2. f(p) = f(q)
    BY <1>1
  <1>3. Traded(p, A, m, s) = Total(f(p), S(p)) /\ Traded(q, A, m, s) = Total(f(q), S(q))
    BY TradedTotal
  <1> QED
    BY <1>1, <1>2, <1>3

(* One trade more. *)
LEMMA TradedMore ==
    ASSUME trades \in Seq(Trades), NEW A \in SUBSET DOMAIN trades,
           NEW x \in DOMAIN trades, x \notin A, NEW m, NEW s
    PROVE  /\ Traded(trades, A, m, s) \in Int
           /\ (trades[x].market = m /\ trades[x].side = s)
                => Traded(trades, A \cup {x}, m, s)
                     = Traded(trades, A, m, s) + trades[x].qty
           /\ ~(trades[x].market = m /\ trades[x].side = s)
                => Traded(trades, A \cup {x}, m, s) = Traded(trades, A, m, s)
  <1> DEFINE Has(i) == trades[i].market = m /\ trades[i].side = s
             S == {i \in A : Has(i)}
             T == {i \in A \cup {x} : Has(i)}
             q == [i \in T |-> trades[i].qty]
             p == [i \in S |-> trades[i].qty]
  <1>1. \A i \in DOMAIN trades : trades[i].qty \in Nat
    <2>1. \A i \in DOMAIN trades : trades[i] \in Trades
      OBVIOUS
    <2> QED
      BY <2>1 DEF Trades
  <1>2. IsFiniteSet(S) /\ x \notin S
    <2>1. IsFiniteSet(DOMAIN trades)
      <3>1. Len(trades) \in Nat /\ DOMAIN trades = 1..Len(trades)
        OBVIOUS
      <3> QED
        BY <3>1, FS_Interval
    <2>2. S \in SUBSET DOMAIN trades
      OBVIOUS
    <2> QED
      BY <2>1, <2>2, FS_Subset
  <1>3. Traded(trades, A, m, s) = Total(p, S) /\ Traded(trades, A \cup {x}, m, s) = Total(q, T)
    BY TradedTotal
  <1>4. \A i \in S : q[i] = p[i] /\ p[i] \in Int
    BY <1>1
  <1>5. Total(q, S) = Total(p, S)
    BY <1>4, TotalSame
  <1>6. Total(p, S) \in Int
    BY <1>2, <1>4, TotalInt
  <1>7. CASE Has(x)
    <2>1. T = S \cup {x} /\ q[x] = trades[x].qty
      BY <1>7
    <2>2. \A i \in S \cup {x} : q[i] \in Int
      BY <1>1, <1>4, <2>1
    <2>3. Total(q, S \cup {x}) = q[x] + Total(q, S)
      BY <1>2, <2>2, TotalWith
    <2> HIDE DEF S, T, q, p
    <2>4. trades[x].qty \in Int
      BY <1>1
    <2> QED
      BY <1>3, <1>5, <1>6, <1>7, <2>1, <2>3, <2>4
  <1>8. CASE ~Has(x)
    <2>1. T = S
      BY <1>8
    <2> HIDE DEF S, T, q, p
    <2> QED
      BY <1>3, <1>5, <1>6, <1>8, <2>1
  <1> QED
    BY <1>7, <1>8

LEMMA NothingTraded == \A m, s : Traded(trades, {}, m, s) = 0
  <1> SUFFICES ASSUME NEW m, NEW s
               PROVE  Traded(trades, {}, m, s) = 0
    OBVIOUS
  <1>1. {j \in {} : trades[j].market = m /\ trades[j].side = s} = {}
    OBVIOUS
  <1> QED
    BY <1>1, TradedTotal, TotalEmpty

LEMMA StandsOK ==
    ASSUME IInv, ExposureInv, NEW b, NEW A, Stands(b, A)
    PROVE  /\ Explained(b, A) /\ A \subseteq DOMAIN trades
           /\ \A t \in Threads : NotIn(op[t], A)
  <1>1. CASE b = EmptyBook /\ A = {}
    <2>1. \A m \in Markets : b[m]["short"] = 0 /\ b[m]["long"] = 0
      BY <1>1 DEF EmptyBook, Sides
    <2> QED
      BY <1>1, <2>1, NothingTraded DEF Explained, NotIn
  <1>2. CASE b = book /\ A = applied
    BY <1>2 DEF ExposureInv, Fresh, IInv, TablesOK
  <1>3. ASSUME NEW s \in Threads, b = acc[s].book, A = acc[s].applied
        PROVE  /\ Explained(b, A) /\ A \subseteq DOMAIN trades
               /\ \A t \in Threads : NotIn(op[t], A)
    <2>1. A \subseteq DOMAIN trades
      BY <1>3 DEF IInv, TablesOK, ThreadsOK, ThreadOK
    <2> QED
      BY <1>3, <2>1 DEF ExposureInv, Fresh
  <1> QED
    BY <1>1, <1>2, <1>3 DEF Stands

LEMMA ExplainedStays ==
    ASSUME Kept, NEW b, NEW A \in SUBSET DOMAIN trades, Explained(b, A)
    PROVE  Explained(b, A)'
  <1>1. \A m, s : Traded(trades', A, m, s) = Traded(trades, A, m, s)
    BY TradedSame DEF Kept
  <1> QED
    BY <1>1 DEF Explained

(* A step that moves positions only together with the trades they reflect, *)
(* and at most gives thread t's operation a new trade.                     *)
LEMMA ExposureMoves ==
    ASSUME IInv, ExposureInv, Kept, NEW t \in Threads,
           Stands(book', applied'),
           \A s \in Threads : Stands(acc'[s].book, acc'[s].applied),
           \A s \in Threads : op'[s] \in Orders =>
               \/ op'[s].trade = 0
               \/ op[s] \in Orders /\ op'[s].trade = op[s].trade
               \/ s = t /\ op'[s].trade \in DOMAIN trades' \ DOMAIN trades
    PROVE  ExposureInv'
  <1>1. 0 \notin DOMAIN trades
    BY DEF IInv, TablesOK
  <1>2. ASSUME NEW s \in Threads, op'[s] \in Orders
        PROVE  op'[s].trade \in {0} \cup DOMAIN trades'
    BY <1>2 DEF ExposureInv, Fresh, Kept
  <1>3. ASSUME NEW b, NEW A, Stands(b, A), NEW s \in Threads
        PROVE  NotIn(op'[s], A)
    <2>1. A \subseteq DOMAIN trades /\ NotIn(op[s], A)
      BY <1>3, StandsOK
    <2> QED
      BY <1>1, <2>1 DEF NotIn
  <1>4. ASSUME NEW s \in Threads, NEW u \in Threads \ {s},
               op'[s] \in Orders, op'[u] \in Orders
        PROVE  op'[s].trade = 0 \/ op'[u].trade # op'[s].trade
    <2>1. CASE op'[s].trade = 0
      BY <2>1
    <2>2. CASE op[s] \in Orders /\ op'[s].trade = op[s].trade /\ op'[s].trade # 0
      <3>1. op'[s].trade \in DOMAIN trades
        BY <2>2 DEF ExposureInv, Fresh
      <3>2. CASE op'[u].trade = 0
        BY <2>2, <3>2
      <3>3. CASE op[u] \in Orders /\ op'[u].trade = op[u].trade
        BY <2>2, <3>3 DEF ExposureInv, Fresh
      <3>4. CASE op'[u].trade \in DOMAIN trades' \ DOMAIN trades
        BY <3>1, <3>4
      <3> QED
        BY <1>4, <3>2, <3>3, <3>4
    <2>3. CASE s = t /\ op'[s].trade \in DOMAIN trades' \ DOMAIN trades
      <3>1. op'[u].trade = 0 \/ (op[u] \in Orders /\ op'[u].trade = op[u].trade)
        BY <1>4, <2>3
      <3>2. op'[u].trade \in {0} \cup DOMAIN trades
        BY <3>1 DEF ExposureInv, Fresh
      <3> QED
        BY <2>1, <2>3, <3>2
    <2> QED
      BY <1>4, <2>1, <2>2, <2>3
  <1>5. Fresh'
    BY <1>2, <1>3, <1>4 DEF Fresh
  <1>6. ASSUME NEW b, NEW A, Stands(b, A)
        PROVE  Explained(b, A)'
    BY <1>6, StandsOK, ExplainedStays
  <1>7. Explained(book, applied)'
    <2>1. PICK b, A : b = book' /\ A = applied'
      OBVIOUS
    <2>2. Explained(b, A)'
      BY <1>6, <2>1
    <2> QED
      BY <2>1, <2>2 DEF Explained
  <1>8. ASSUME NEW s \in Threads
        PROVE  Explained(acc[s].book, acc[s].applied)'
    <2>1. PICK b, A : b = acc'[s].book /\ A = acc'[s].applied
      OBVIOUS
    <2>2. Explained(b, A)'
      BY <1>6, <2>1
    <2> QED
      BY <2>1, <2>2 DEF Explained
  <1> QED
    BY <1>5, <1>7, <1>8 DEF ExposureInv

LEMMA KeptSame ==
    ASSUME IInv, UNCHANGED trades
    PROVE  Kept
  BY DEF Kept, IInv, TablesOK

LEMMA KeptMore ==
    ASSUME IInv, NEW t \in Threads, NEW fill, RecordTrade(t, fill)
    PROVE  /\ Kept /\ Len(trades) + 1 \in DOMAIN trades' \ DOMAIN trades
           /\ UNCHANGED <<book, applied>>
  <1>1. \E tr : trades' = Append(trades, tr)
    BY DEF RecordTrade
  <1>2. trades \in Seq(Trades)
    BY DEF IInv, TablesOK
  <1> QED
    BY <1>1, <1>2 DEF Kept, RecordTrade

LEMMA StandsHere ==
    /\ Stands(book, applied) /\ Stands(EmptyBook, {})
    /\ \A t \in Threads : Stands(acc[t].book, acc[t].applied)
    /\ Stands(DefaultAccount.book, DefaultAccount.applied)
  BY DefaultAccountOK DEF Stands

(* Thread t moves, positions stay, and its operation keeps its trade. *)
LEMMA ExposureThread ==
    ASSUME IInv, ExposureInv, NEW t \in Threads, Kept, NEW o, NEW a,
           op' = [op EXCEPT ![t] = o], acc' = [acc EXCEPT ![t] = a],
           UNCHANGED <<book, applied>>, Stands(a.book, a.applied),
           o \in Orders =>
               \/ o.trade = 0
               \/ op[t] \in Orders /\ o.trade = op[t].trade
               \/ o.trade \in DOMAIN trades' \ DOMAIN trades
    PROVE  ExposureInv'
  <1>1. /\ op \in [Threads -> Orders \cup {Mark, NoOp}] /\ acc \in [Threads -> Accounts]
    BY DEF IInv, ThreadsOK
  <1>2. \A s \in Threads : op'[s] = (IF s = t THEN o ELSE op[s])
                              /\ acc'[s] = (IF s = t THEN a ELSE acc[s])
    BY <1>1
  <1>3. \A s \in Threads : Stands(acc'[s].book, acc'[s].applied)
    BY <1>2, StandsHere
  <1>4. Stands(book', applied')
    BY StandsHere
  <1>5. \A s \in Threads : op'[s] \in Orders =>
            \/ op'[s].trade = 0
            \/ op[s] \in Orders /\ op'[s].trade = op[s].trade
            \/ s = t /\ op'[s].trade \in DOMAIN trades' \ DOMAIN trades
    BY <1>2
  <1> QED
    BY <1>3, <1>4, <1>5, ExposureMoves

LEMMA NoOpFree == NoOp \notin Orders /\ Mark \notin Orders
  BY Kinds3

LEMMA ExposureFinish ==
    ASSUME IInv, ExposureInv, NEW t \in Threads, Kept, Finish(t), UNCHANGED <<book, applied>>
    PROVE  ExposureInv'
  <1>1. op' = [op EXCEPT ![t] = NoOp] /\ acc' = [acc EXCEPT ![t] = DefaultAccount]
    BY DEF Finish
  <1> QED
    BY <1>1, NoOpFree, StandsHere, ExposureThread

LEMMA SameCopy ==
    ASSUME IInv, NEW t \in Threads
    PROVE  /\ acc = [acc EXCEPT ![t] = acc[t]] /\ op = [op EXCEPT ![t] = op[t]]
           /\ Stands(acc[t].book, acc[t].applied)
  BY StandsHere DEF IInv, ThreadsOK

LEMMA ExposureCalls ==
    ASSUME IInv, ExposureInv, NEW t \in Threads, NEW o, NEW first, Call(t, o, first),
           o \in Orders => o.trade = 0
    PROVE  ExposureInv'
  <1>1. op' = [op EXCEPT ![t] = o] /\ UNCHANGED <<trades, book, applied, acc>>
    BY DEF Call, tables
  <1>2. Kept
    BY <1>1, KeptSame
  <1>3. acc' = [acc EXCEPT ![t] = acc[t]] /\ Stands(acc[t].book, acc[t].applied)
    BY <1>1, SameCopy
  <1> QED
    BY <1>1, <1>2, <1>3, ExposureThread

LEMMA ExposureCall ==
    ASSUME IInv, ExposureInv, NEW t \in Threads,
           PlaceOrder(t) \/ RunPipeline(t) \/ MarkToMarket(t)
    PROVE  ExposureInv'
  <1>1. CASE PlaceOrder(t)
    <2>1. PICK m \in Markets, s \in Sides, q \in 1..MaxQty, ro \in BOOLEAN :
            Call(t, [kind |-> "venue", market |-> m, side |-> s, qty |-> q,
                     reduceOnly |-> ro, trade |-> 0],
                 IF ro THEN "check" ELSE First["venue"])
      BY <1>1 DEF PlaceOrder
    <2> QED
      BY <2>1, ExposureCalls
  <1>2. CASE RunPipeline(t)
    <2>1. PICK k \in Kinds \cap {"paper", "full"}, m \in Markets, s \in Sides :
            Call(t, [kind |-> k, market |-> m, side |-> s, qty |-> 1,
                     reduceOnly |-> FALSE, trade |-> 0], First[k])
      BY <1>2 DEF RunPipeline
    <2> QED
      BY <2>1, ExposureCalls
  <1>3. CASE MarkToMarket(t)
    BY <1>3, NoOpFree, ExposureCalls DEF MarkToMarket
  <1> QED
    BY <1>1, <1>2, <1>3

(* The steps that move no positions. *)
LEMMA ExposureStep ==
    ASSUME IInv, ExposureInv, NEW t \in Threads,
           \/ CheckReduceOnly(t) \/ Execute(t) \/ ExecuteThenRaise(t) \/ LoadRow(t)
           \/ LoadPositions(t) \/ RecordTax(t) \/ Raise(t)
    PROVE  ExposureInv'
  <1>1. CASE CheckReduceOnly(t)
    <2>1. UNCHANGED <<trades, book, applied>> /\ Kept
      BY <1>1, KeptSame DEF CheckReduceOnly, tables
    <2>2. CASE Finish(t)
      BY <2>1, <2>2, ExposureFinish
    <2>3. ASSUME NEW q, op' = [op EXCEPT ![t].qty = q], UNCHANGED acc
          PROVE  ExposureInv'
      <3> DEFINE o == [op[t] EXCEPT !.qty = q]
      <3>1. op' = [op EXCEPT ![t] = o]
        BY <2>3
      <3>2. o \in Orders => op[t] \in Orders /\ o.trade = op[t].trade
        <4>1. op[t] \in Orders \cup {Mark, NoOp}
          BY DEF IInv, ThreadsOK
        <4>2. op[t] \in {Mark, NoOp} => o = op[t]
          BY DEF Mark, NoOp
        <4>3. op[t] \in Orders => o.trade = op[t].trade
          BY DEF Orders
        <4> QED
          BY <4>1, <4>2, <4>3, NoOpFree
      <3> HIDE DEF o
      <3>3. acc' = [acc EXCEPT ![t] = acc[t]] /\ Stands(acc[t].book, acc[t].applied)
        BY <2>3, SameCopy
      <3> QED
        BY <2>1, <3>1, <3>2, <3>3, ExposureThread
    <2>4. Finish(t) \/ \E q : op' = [op EXCEPT ![t].qty = q] /\ UNCHANGED acc
      BY <1>1 DEF CheckReduceOnly
    <2> QED
      BY <2>2, <2>3, <2>4
  <1>2. CASE Execute(t)
    <2>1. PICK fill : RecordTrade(t, fill)
                        /\ op' = [op EXCEPT ![t].qty = fill, ![t].trade = Len(trades) + 1]
      BY <1>2 DEF Execute
    <2> DEFINE o == [op[t] EXCEPT !.qty = fill, !.trade = Len(trades) + 1]
    <2>2. op' = [op EXCEPT ![t] = o]
      BY <2>1
    <2>3. o \in Orders => o.trade = Len(trades) + 1
      <3>1. op[t] \in Orders \cup {Mark, NoOp}
        BY DEF IInv, ThreadsOK
      <3>2. op[t] \in {Mark, NoOp} => o = op[t]
        BY DEF Mark, NoOp
      <3>3. op[t] \in Orders => o.trade = Len(trades) + 1
        BY DEF Orders
      <3> QED
        BY <3>1, <3>2, <3>3, NoOpFree
    <2> HIDE DEF o
    <2>4. acc' = [acc EXCEPT ![t] = acc[t]] /\ Stands(acc[t].book, acc[t].applied)
      BY <1>2, SameCopy DEF Execute
    <2>5. Kept /\ Len(trades) + 1 \in DOMAIN trades' \ DOMAIN trades
               /\ UNCHANGED <<book, applied>>
      BY <2>1, KeptMore
    <2> QED
      BY <2>2, <2>3, <2>4, <2>5, ExposureThread
  <1>3. CASE ExecuteThenRaise(t)
    BY <1>3, KeptMore, ExposureFinish DEF ExecuteThenRaise
  <1>4. CASE LoadRow(t) \/ LoadPositions(t)
    <2>1. UNCHANGED <<trades, book, applied, op>> /\ Kept
      BY <1>4, KeptSame DEF LoadRow, LoadPositions, tables
    <2>2. ASSUME NEW a, acc' = [acc EXCEPT ![t] = a], Stands(a.book, a.applied)
          PROVE  ExposureInv'
      <3>1. op' = [op EXCEPT ![t] = op[t]]
        BY <2>1, SameCopy
      <3> QED
        BY <2>1, <2>2, <3>1, ExposureThread
    <2>3. acc[t] \in Accounts
      BY DEF IInv, ThreadsOK
    <2>4. CASE acc' = [acc EXCEPT ![t] = DefaultAccount]
      BY <2>2, <2>4, StandsHere
    <2>5. CASE acc' = [acc EXCEPT ![t].booked = booked]
      <3> DEFINE a == [acc[t] EXCEPT !.booked = booked]
      <3>1. acc' = [acc EXCEPT ![t] = a]
        BY <2>5
      <3>2. a.book = acc[t].book /\ a.applied = acc[t].applied
        BY <2>3 DEF Accounts
      <3> HIDE DEF a
      <3> QED
        BY <2>2, <3>1, <3>2, StandsHere
    <2>6. CASE acc' = [acc EXCEPT ![t].book = book, ![t].applied = applied]
      <3> DEFINE a == [acc[t] EXCEPT !.book = book, !.applied = applied]
      <3>1. acc' = [acc EXCEPT ![t] = a]
        BY <2>6
      <3>2. a.book = book /\ a.applied = applied
        BY <2>3 DEF Accounts
      <3> HIDE DEF a
      <3> QED
        BY <2>2, <3>1, <3>2, StandsHere
    <2> QED
      BY <1>4, <2>4, <2>5, <2>6 DEF LoadRow, LoadPositions, LoadFails
  <1>5. CASE RecordTax(t)
    <2>1. UNCHANGED <<trades, book, applied, op, acc>> /\ Kept
      BY <1>5, KeptSame DEF RecordTax
    <2>2. /\ op' = [op EXCEPT ![t] = op[t]] /\ acc' = [acc EXCEPT ![t] = acc[t]]
          /\ Stands(acc[t].book, acc[t].applied)
      BY <2>1, SameCopy
    <2> QED
      BY <2>1, <2>2, ExposureThread
  <1>6. CASE Raise(t)
    BY <1>6, KeptSame, ExposureFinish DEF Raise, tables
  <1> QED
    BY <1>1, <1>2, <1>3, <1>4, <1>5, <1>6

LEMMA ExposureSaveMark ==
    ASSUME IInv, ExposureInv, NEW t \in Threads, SaveMark(t)
    PROVE  ExposureInv'
  <1>1. Finish(t) /\ UNCHANGED trades
    BY DEF SaveMark
  <1>2. /\ op \in [Threads -> Orders \cup {Mark, NoOp}] /\ acc \in [Threads -> Accounts]
    BY DEF IInv, ThreadsOK
  <1>3. \A s \in Threads : op'[s] = (IF s = t THEN NoOp ELSE op[s])
                              /\ acc'[s] = (IF s = t THEN DefaultAccount ELSE acc[s])
    BY <1>1, <1>2 DEF Finish
  <1>4. \A s \in Threads : Stands(acc'[s].book, acc'[s].applied)
    BY <1>3, StandsHere
  <1>5. Stands(book', applied')
    BY StandsHere DEF SaveMark
  <1>6. \A s \in Threads : op'[s] \in Orders => op[s] \in Orders /\ op'[s].trade = op[s].trade
    BY <1>3, NoOpFree
  <1>7. Kept
    BY <1>1, KeptSame
  <1> QED
    BY <1>4, <1>5, <1>6, <1>7, ExposureMoves

(* Netting one recorded trade more into positions that are explained.      *)
LEMMA ExplainedMore ==
    ASSUME trades \in Seq(Trades), NEW A \in SUBSET DOMAIN trades, NEW b \in Books,
           NEW x \in DOMAIN trades, x \notin A, Explained(b, A)
    PROVE  Explained(Net(b, trades[x]), A \cup {x})
  <1>1. PICK tr : tr = trades[x]
    OBVIOUS
  <1>2. tr \in Trades
    BY <1>1
  <1>3. PICK n : n = Net(b, tr)
    OBVIOUS
  <1>4. PICK c : c = ClosedBy(b, tr)
    OBVIOUS
  <1>5. /\ n \in Books
        /\ \A k \in Markets \ {tr.market} : n[k] = b[k]
        /\ n[tr.market][tr.side] = b[tr.market][tr.side] + (tr.qty - c)
        /\ n[tr.market][Opposite(tr.side)] = b[tr.market][Opposite(tr.side)] - c
    BY <1>2, <1>3, <1>4, NetCells
  <1>6. c \in Nat /\ tr.qty \in Nat /\ tr.side \in Sides
    BY <1>2, <1>4, ClosedByBounds DEF Trades
  <1>7. ASSUME NEW m \in Markets
        PROVE  Traded(trades, A \cup {x}, m, "long") + n[m]["short"]
                 = Traded(trades, A \cup {x}, m, "short") + n[m]["long"]
    <2>1. PICK bl, bs, nl, ns : /\ bl = b[m]["long"] /\ bs = b[m]["short"]
                                /\ nl = n[m]["long"] /\ ns = n[m]["short"]
      OBVIOUS
    <2>2. PICK tl, ts, ul, us : /\ tl = Traded(trades, A, m, "long")
                                /\ ts = Traded(trades, A, m, "short")
                                /\ ul = Traded(trades, A \cup {x}, m, "long")
                                /\ us = Traded(trades, A \cup {x}, m, "short")
      OBVIOUS
    <2>3. bl \in Int /\ bs \in Int
      BY <2>1 DEF Books, Sides
    <2>4. tl + bs = ts + bl
      BY <2>1, <2>2 DEF Explained
    <2>5. /\ tl \in Int
          /\ (tr.market = m /\ tr.side = "long") => ul = tl + tr.qty
          /\ ~(tr.market = m /\ tr.side = "long") => ul = tl
      <3>1. /\ Traded(trades, A, m, "long") \in Int
            /\ (trades[x].market = m /\ trades[x].side = "long")
                 => Traded(trades, A \cup {x}, m, "long")
                      = Traded(trades, A, m, "long") + trades[x].qty
            /\ ~(trades[x].market = m /\ trades[x].side = "long")
                 => Traded(trades, A \cup {x}, m, "long") = Traded(trades, A, m, "long")
        BY TradedMore
      <3> QED
        BY <1>1, <2>2, <3>1
    <2>6. /\ ts \in Int
          /\ (tr.market = m /\ tr.side = "short") => us = ts + tr.qty
          /\ ~(tr.market = m /\ tr.side = "short") => us = ts
      <3>1. /\ Traded(trades, A, m, "short") \in Int
            /\ (trades[x].market = m /\ trades[x].side = "short")
                 => Traded(trades, A \cup {x}, m, "short")
                      = Traded(trades, A, m, "short") + trades[x].qty
            /\ ~(trades[x].market = m /\ trades[x].side = "short")
                 => Traded(trades, A \cup {x}, m, "short") = Traded(trades, A, m, "short")
        BY TradedMore
      <3> QED
        BY <1>1, <2>2, <3>1
    <2>7. tr.market # m => nl = bl /\ ns = bs
      <3> SUFFICES ASSUME tr.market # m PROVE nl = bl /\ ns = bs
        OBVIOUS
      <3>1. n[m] = b[m]
        BY <1>5
      <3> QED
        BY <2>1, <3>1
    <2>8. tr.market = m /\ tr.side = "long" => nl = bl + (tr.qty - c) /\ ns = bs - c
      BY <1>5, <2>1 DEF Opposite
    <2>9. tr.market = m /\ tr.side = "short" => ns = bs + (tr.qty - c) /\ nl = bl - c
      BY <1>5, <2>1 DEF Opposite
    <2>10. tr.side = "long" \/ tr.side = "short"
      BY <1>6 DEF Sides
    <2>11. PICK q : q = tr.qty /\ q \in Int
      BY <1>6
    <2>12. ul + ns = us + nl
      <3>1. CASE tr.market # m
        BY <2>3, <2>4, <2>5, <2>6, <2>7, <3>1
      <3>2. CASE tr.market = m /\ tr.side = "long"
        <4>1. ul = tl + q /\ us = ts /\ nl = bl + (q - c) /\ ns = bs - c
          BY <2>5, <2>6, <2>8, <2>11, <3>2
        <4>2. tl \in Int /\ ts \in Int /\ c \in Int /\ q \in Int
          BY <1>6, <2>5, <2>6, <2>11
        <4> QED
          BY <2>3, <2>4, <4>1, <4>2
      <3>3. CASE tr.market = m /\ tr.side = "short"
        <4>1. ul = tl /\ us = ts + q /\ ns = bs + (q - c) /\ nl = bl - c
          BY <2>5, <2>6, <2>9, <2>11, <3>3
        <4>2. tl \in Int /\ ts \in Int /\ c \in Int /\ q \in Int
          BY <1>6, <2>5, <2>6, <2>11
        <4> QED
          BY <2>3, <2>4, <4>1, <4>2
      <3> QED
        BY <2>10, <3>1, <3>2, <3>3
    <2> QED
      BY <2>1, <2>2, <2>12
  <1> QED
    BY <1>1, <1>3, <1>7 DEF Explained

(* The save adds one trade to the copy and to what it reflects. *)
LEMMA ExposureSaveTrade ==
    ASSUME IInv, ExposureInv, NEW t \in Threads, SaveTrade(t)
    PROVE  ExposureInv'
  <1> DEFINE x == op[t].trade
             tr == trades[x]
             a == acc[t]
  <1>1. ThreadOK(pc[t], op[t], a, DOMAIN trades, taxed) /\ pc[t] = "save" /\ op[t].kind # "mark"
    BY DEF IInv, ThreadsOK, SaveTrade
  <1>2. op[t] \in Orders /\ x \in DOMAIN trades
    BY <1>1, Kinds3 DEF ThreadOK, InScript, Recorded
  <1>3. /\ trades \in Seq(Trades) /\ tr \in Trades /\ x # 0
        /\ a.applied \in SUBSET DOMAIN trades /\ a.book \in Books
    BY <1>1, <1>2 DEF IInv, TablesOK, ThreadOK, Accounts
  <1>4. x \notin a.applied /\ Explained(a.book, a.applied)
    BY <1>2 DEF ExposureInv, Fresh, NotIn
  <1>5. /\ book' = Net(a.book, tr) /\ applied' = a.applied \cup {x}
        /\ Finish(t) /\ UNCHANGED trades
    BY DEF SaveTrade
  <1>6. /\ op \in [Threads -> Orders \cup {Mark, NoOp}] /\ acc \in [Threads -> Accounts]
    BY DEF IInv, ThreadsOK
  <1>7. \A s \in Threads : op'[s] = (IF s = t THEN NoOp ELSE op[s])
                              /\ acc'[s] = (IF s = t THEN DefaultAccount ELSE acc[s])
    BY <1>5, <1>6 DEF Finish
  <1> DEFINE A == a.applied
             b == a.book
             n == Net(b, tr)
  <1>8. Explained(n, A \cup {x})
    <2>1. /\ trades \in Seq(Trades) /\ A \in SUBSET DOMAIN trades /\ b \in Books
          /\ x \in DOMAIN trades /\ x \notin A /\ Explained(b, A)
      BY <1>2, <1>3, <1>4
    <2> HIDE DEF x, A, b
    <2> QED
      BY <2>1, ExplainedMore
  <1>9. \A s \in Threads : NotIn(op'[s], applied')
    <2>1. ASSUME NEW s \in Threads, s # t, op[s] \in Orders
          PROVE  op[s].trade # x /\ op[s].trade \notin A
      <3>1. op[s].trade \notin A
        BY <2>1 DEF ExposureInv, Fresh, NotIn
      <3>2. x = 0 \/ op[s].trade # x
        BY <1>2, <2>1 DEF ExposureInv, Fresh
      <3> QED
        BY <1>3, <3>1, <3>2
    <2> QED
      BY <1>5, <1>7, <2>1, NoOpFree DEF NotIn
  <1>10. \A s, u \in Threads : NotIn(op'[s], acc'[u].applied)
    BY <1>7, NoOpFree, DefaultAccountOK DEF ExposureInv, Fresh, NotIn
  <1>11. Fresh'
    BY <1>5, <1>7, <1>9, <1>10, NoOpFree DEF ExposureInv, Fresh
  <1>12. Explained(book, applied)'
    BY <1>5, <1>8 DEF Explained
  <1>13. ASSUME NEW s \in Threads
         PROVE  Explained(acc[s].book, acc[s].applied)'
    <2>1. Explained(acc'[s].book, acc'[s].applied)
      BY <1>7, StandsOK, StandsHere
    <2> QED
      BY <1>5, <2>1 DEF Explained
  <1> QED
    BY <1>11, <1>12, <1>13 DEF ExposureInv

LEMMA ExposureNext == IInv /\ ExposureInv /\ [Next]_vars => ExposureInv'
  <1> SUFFICES ASSUME IInv, ExposureInv, [Next]_vars
               PROVE  ExposureInv'
    OBVIOUS
  <1>1. CASE Connect \/ Disconnect \/ UNCHANGED vars
    BY <1>1 DEF Connect, Disconnect, vars, tables, ExposureInv, Fresh, Explained
  <1>2. ASSUME NEW t \in Threads, PlaceOrder(t) \/ RunPipeline(t) \/ MarkToMarket(t)
        PROVE  ExposureInv'
    BY <1>2, ExposureCall
  <1>3. ASSUME NEW t \in Threads, Step(t)
        PROVE  ExposureInv'
    BY <1>3, ExposureStep, ExposureSaveTrade, ExposureSaveMark DEF Step
  <1>4. CASE Crash
    <2>1. PICK t \in Threads : pc[t] # "idle"
      BY <1>4 DEF Crash
    <2>2. Kept /\ UNCHANGED <<book, applied>>
      BY <1>4, KeptSame DEF Crash, tables
    <2>3. \A s \in Threads : op'[s] = NoOp /\ acc'[s] = DefaultAccount
      BY <1>4 DEF Crash
    <2>4. \A s \in Threads : Stands(acc'[s].book, acc'[s].applied)
      BY <2>3, StandsHere
    <2>5. Stands(book', applied')
      BY <2>2, StandsHere
    <2> QED
      BY <2>2, <2>3, <2>4, <2>5, NoOpFree, ExposureMoves
  <1> QED
    BY <1>1, <1>2, <1>3, <1>4 DEF Next

LEMMA ExposureInit == Init => ExposureInv
  <1> SUFFICES ASSUME Init
               PROVE  ExposureInv
    OBVIOUS
  <1>1. \A t \in Threads : op[t] = NoOp /\ acc[t].applied = {} /\ acc[t].book = EmptyBook
    BY DefaultAccountOK DEF Init
  <1>2. Fresh
    BY <1>1, NoOpFree DEF Fresh, NotIn
  <1>3. Explained(EmptyBook, {})
    <2>1. \A m \in Markets : EmptyBook[m]["short"] = 0 /\ EmptyBook[m]["long"] = 0
      BY DEF EmptyBook, Sides
    <2> QED
      BY <2>1, NothingTraded DEF Explained
  <1> QED
    BY <1>1, <1>2, <1>3 DEF Init, ExposureInv

(* However the threads interleave, whatever a save overwrites and whenever *)
(* the process dies: in every market what the reflected trades bought is   *)
(* what they sold plus the net position.                                   *)
THEOREM ExposureExplainedHolds == Spec => []ExposureExplained
  <1>1. IInv /\ ExposureInv => ExposureExplained
    BY DEF ExposureInv, Explained, Traded, ExposureExplained, TradedQty
  <1> QED
    BY <1>1, ExposureInit, ExposureNext, Inductive, PTL DEF Spec

------------------------------------------------------------------------------
(* One thread and no failed reads: the account implements the ledger.      *)
(*                                                                         *)
(* Writes may still fail and the process may still die between any two     *)
(* steps.  What a second thread or a failed SELECT breaks is shown by the  *)
(* runs: a copy of the account that is not the stored one any more.        *)

(* The case in which the read-change-write of the account is atomic. *)
Serial == (\A s, t \in Threads : s = t) /\ ReadFaults = FALSE

(* At these steps the thread holds its copy of the account ... *)
Loaded(o, p) ==
    \/ o.kind = "venue" /\ p \in {"tax", "save"}
    \/ o.kind = "paper" /\ p = "save"
    \/ o.kind = "full" /\ p \in {"execute", "tax", "save"}
    \/ o.kind = "mark" /\ p = "save"

(* ... which is the stored account, its own trade is in the table and not  *)
(* in the account, and a reduce-only order asks for no more than is open.  *)
SerialThread(p, o, a, trs, bkd, bk, app) ==
    /\ p = "positions" => a.booked = bkd
    /\ Loaded(o, p) => a = [booked |-> bkd, book |-> bk, applied |-> app]
    /\ Recorded(o, p) =>
          /\ o.trade \in DOMAIN trs \ app
          /\ trs[o.trade] = [market |-> o.market, side |-> o.side, qty |-> o.qty]
    /\ o.kind = "venue" /\ p \notin {"idle", "check"} =>
          (o.reduceOnly => o.qty <= Closable(bk, o.market, o.side))

(* An account never saved is the default one, and no save loses a fill. *)
SerialTables ==
    /\ ~saved => book = EmptyBook /\ booked = 0 /\ applied = {}
    /\ filled \subseteq applied

SerialInv ==
    /\ SerialTables
    /\ \A t \in Threads :
          SerialThread(pc[t], op[t], acc[t], trades, booked, book, applied)

LEMMA SerialIdle ==
    ASSUME NEW a, NEW trs, NEW bkd, NEW bk, NEW app
    PROVE  SerialThread("idle", NoOp, a, trs, bkd, bk, app)
  BY Kinds3 DEF SerialThread, Loaded, Recorded

(* With one thread it is enough to look at the thread that moved. *)
LEMMA SerialMoves ==
    ASSUME Serial, IInv, NEW t \in Threads, NEW p, NEW o, NEW a,
           pc' = [pc EXCEPT ![t] = p],
           op' = [op EXCEPT ![t] = o],
           acc' = [acc EXCEPT ![t] = a],
           SerialTables',
           SerialThread(p, o, a, trades', booked', book', applied')
    PROVE  SerialInv'
  <1>1. pc'[t] = p /\ op'[t] = o /\ acc'[t] = a
    BY DEF IInv, ThreadsOK
  <1>2. \A u \in Threads : u = t
    BY DEF Serial
  <1> QED
    BY <1>1, <1>2 DEF SerialInv

LEMMA SerialFinish ==
    ASSUME Serial, IInv, NEW t \in Threads, Finish(t), SerialTables'
    PROVE  SerialInv'
  BY SerialMoves, SerialIdle DEF Finish

LEMMA SerialCall ==
    ASSUME Serial, IInv, SerialInv, NEW t \in Threads, NEW o, NEW first,
           Call(t, o, first),
           \/ o = Mark /\ first = "row"
           \/ o \in Orders /\ o.kind = "venue" /\ first = "check"
           \/ o \in Orders /\ o.kind = "venue" /\ ~o.reduceOnly /\ first = "execute"
           \/ o \in Orders /\ o.kind = "paper" /\ first = "execute"
           \/ o \in Orders /\ o.kind = "full" /\ first = "row"
    PROVE  SerialInv'
  <1>1. UNCHANGED tables /\ SerialTables'
    BY DEF Call, tables, SerialInv, SerialTables
  <1>2. SerialThread(first, o, acc[t], trades', booked', book', applied')
    BY Kinds3 DEF SerialThread, Loaded, Recorded
  <1>3. acc' = [acc EXCEPT ![t] = acc[t]]
    BY DEF Call, IInv, ThreadsOK
  <1> QED
    BY <1>1, <1>2, <1>3, SerialMoves DEF Call

LEMMA SerialCalls ==
    ASSUME Serial, IInv, SerialInv, NEW t \in Threads,
           PlaceOrder(t) \/ RunPipeline(t) \/ MarkToMarket(t)
    PROVE  SerialInv'
  <1>1. CASE PlaceOrder(t)
    <2>1. PICK m \in Markets, s \in Sides, q \in 1..MaxQty, ro \in BOOLEAN :
            Call(t, [kind |-> "venue", market |-> m, side |-> s, qty |-> q,
                     reduceOnly |-> ro, trade |-> 0],
                 IF ro THEN "check" ELSE First["venue"])
      BY <1>1 DEF PlaceOrder
    <2>2. [kind |-> "venue", market |-> m, side |-> s, qty |-> q,
           reduceOnly |-> ro, trade |-> 0] \in Orders
      BY DEF Orders, AllKinds
    <2> QED
      BY <2>1, <2>2, SerialCall DEF First
  <1>2. CASE RunPipeline(t)
    <2>1. PICK k \in Kinds \cap {"paper", "full"}, m \in Markets, s \in Sides :
            Call(t, [kind |-> k, market |-> m, side |-> s, qty |-> 1,
                     reduceOnly |-> FALSE, trade |-> 0], First[k])
      BY <1>2 DEF RunPipeline
    <2>2. [kind |-> k, market |-> m, side |-> s, qty |-> 1,
           reduceOnly |-> FALSE, trade |-> 0] \in Orders
      BY DEF Orders, AllKinds
    <2> QED
      BY <2>1, <2>2, SerialCall DEF First
  <1>3. CASE MarkToMarket(t)
    BY <1>3, SerialCall DEF MarkToMarket, First
  <1> QED
    BY <1>1, <1>2, <1>3

(* The check reads the stored book, and caps the order to it. *)
LEMMA SerialCheck ==
    ASSUME Serial, IInv, SerialInv, NEW t \in Threads, CheckReduceOnly(t)
    PROVE  SerialInv'
  <1>1. ThreadOK(pc[t], op[t], acc[t], DOMAIN trades, taxed) /\ pc[t] = "check"
    BY DEF IInv, ThreadsOK, CheckReduceOnly
  <1>2. op[t] \in Orders /\ op[t].kind = "venue"
    BY <1>1, Kinds3 DEF ThreadOK, InScript
  <1>3. UNCHANGED tables /\ SerialTables'
    BY DEF CheckReduceOnly, tables, SerialInv, SerialTables
  <1>4. CASE Finish(t)
    BY <1>3, <1>4, SerialFinish
  <1> DEFINE c == Closable(book, op[t].market, op[t].side)
             o == [op[t] EXCEPT !.qty = IF @ > c THEN c ELSE @]
  <1>5. CASE /\ Proceed(t)
             /\ op' = [op EXCEPT ![t].qty = IF @ > c THEN c ELSE @]
             /\ UNCHANGED acc
    <2>1. c \in Nat
      BY <1>2, Kinds3 DEF IInv, TablesOK, Books, Closable, Opposite, Sides
    <2>2. /\ op' = [op EXCEPT ![t] = o]
          /\ acc' = [acc EXCEPT ![t] = acc[t]]
      BY <1>5 DEF IInv, ThreadsOK
    <2>3. pc' = [pc EXCEPT ![t] = "execute"]
      BY <1>1, <1>2, <1>5, ThenFacts DEF Proceed
    <2>4. /\ o.kind = "venue" /\ o.market = op[t].market /\ o.side = op[t].side
          /\ o.qty <= c
      BY <1>2, <2>1, Kinds3 DEF Orders
    <2> HIDE DEF o
    <2>5. SerialThread("execute", o, acc[t], trades', booked', book', applied')
      BY <1>3, <2>4 DEF SerialThread, Loaded, Recorded, tables
    <2> QED
      BY <1>3, <2>2, <2>3, <2>5, SerialMoves
  <1>6. Readable = {book}
    BY DEF Readable, Serial
  <1> QED
    BY <1>4, <1>5, <1>6 DEF CheckReduceOnly

(* A new row is not in the account yet: the account holds recorded trades. *)
LEMMA SerialExecute ==
    ASSUME Serial, IInv, SerialInv, NEW t \in Threads, Execute(t)
    PROVE  SerialInv'
  <1>1. ThreadOK(pc[t], op[t], acc[t], DOMAIN trades, taxed) /\ pc[t] = "execute"
    BY DEF IInv, ThreadsOK, Execute
  <1>2. op[t] \in Orders
    BY <1>1, Kinds3 DEF ThreadOK, InScript
  <1>3. PICK fill \in IF PartialFills THEN 1..op[t].qty ELSE {op[t].qty} :
          /\ RecordTrade(t, fill)
          /\ op' = [op EXCEPT ![t].qty = fill, ![t].trade = Len(trades) + 1]
    BY DEF Execute
  <1>4. fill \in Nat /\ fill <= op[t].qty /\ op[t].qty \in Nat
    BY <1>2, Kinds3
  <1> DEFINE o == [op[t] EXCEPT !.qty = fill, !.trade = Len(trades) + 1]
             tr == [market |-> op[t].market, side |-> op[t].side, qty |-> fill]
             p == Then[op[t].kind]["execute"]
  <1>5. /\ op' = [op EXCEPT ![t] = o]
        /\ acc' = [acc EXCEPT ![t] = acc[t]]
        /\ pc' = [pc EXCEPT ![t] = p]
    BY <1>1, <1>3 DEF Execute, Proceed, IInv, ThreadsOK
  <1>6. /\ o.kind = op[t].kind /\ o.market = op[t].market /\ o.side = op[t].side
        /\ o.reduceOnly = op[t].reduceOnly
        /\ o.qty = fill /\ o.trade = Len(trades) + 1
    BY <1>2 DEF Orders
  <1>7. /\ trades' = Append(trades, tr)
        /\ UNCHANGED <<saved, booked, book, applied, filled>>
    BY <1>3 DEF RecordTrade
  <1>8. applied \subseteq DOMAIN trades /\ trades \in Seq(Trades)
    BY DEF IInv, TablesOK
  <1>9. SerialTables'
    BY <1>7 DEF SerialInv, SerialTables
  <1>10. tr \in Trades
    BY <1>2, <1>4, Kinds3 DEF Trades
  <1>11. SerialThread(pc[t], op[t], acc[t], trades, booked, book, applied)
    BY DEF SerialInv
  <1>12. \/ op[t].kind = "venue" /\ p = "row"
         \/ op[t].kind = "paper" /\ p = "tax"
         \/ op[t].kind = "full" /\ p = "tax"
    BY <1>2, Kinds3, ThenFacts
  <1>13. o.trade \in DOMAIN trades' \ applied'
    <2>1. DOMAIN trades = 1..Len(trades) /\ Len(trades) \in Nat
      BY <1>8
    <2>2. DOMAIN trades' = 1..(Len(trades) + 1)
      BY <1>7, <1>8, <1>10
    <2> HIDE DEF o
    <2> QED
      BY <1>6, <1>7, <1>8, <2>1, <2>2
  <1>14. trades'[o.trade] = [market |-> o.market, side |-> o.side, qty |-> o.qty]
    <2>1. trades'[Len(trades) + 1] = tr
      BY <1>7, <1>8, <1>10
    <2> HIDE DEF o
    <2> QED
      BY <1>6, <2>1
  <1>15. op[t].kind = "venue" /\ op[t].reduceOnly =>
            fill <= Closable(book', op[t].market, op[t].side)
    <2> SUFFICES ASSUME op[t].kind = "venue", op[t].reduceOnly
                 PROVE  fill <= Closable(book, op[t].market, op[t].side)
      BY <1>7
    <2>1. op[t].qty <= Closable(book, op[t].market, op[t].side)
      BY <1>1, <1>11 DEF SerialThread
    <2>2. Closable(book, op[t].market, op[t].side) \in Nat
      BY <1>2, Kinds3 DEF IInv, TablesOK, Books, Closable, Opposite, Sides
    <2> QED
      BY <1>4, <2>1, <2>2
  <1>16. op[t].kind = "full" => acc[t] = [booked |-> booked', book |-> book',
                                          applied |-> applied']
    BY <1>1, <1>7, <1>11 DEF SerialThread, Loaded
  <1> HIDE DEF o, tr, p
  <1>17. SerialThread(p, o, acc[t], trades', booked', book', applied')
    BY <1>6, <1>12, <1>13, <1>14, <1>15, <1>16 DEF SerialThread, Loaded
  <1> QED
    BY <1>5, <1>9, <1>17, SerialMoves

(* Reading the stored account, or the default one where none is stored.    *)
LEMMA SerialLoad ==
    ASSUME Serial, IInv, SerialInv, NEW t \in Threads,
           LoadRow(t) \/ LoadPositions(t)
    PROVE  SerialInv'
  <1>1. ThreadOK(pc[t], op[t], acc[t], DOMAIN trades, taxed)
        /\ pc[t] \in {"row", "positions"}
    BY DEF IInv, ThreadsOK, LoadRow, LoadPositions
  <1>2. UNCHANGED <<connected, tables, op>>
    BY DEF LoadRow, LoadPositions
  <1>3. SerialTables'
    BY <1>2 DEF SerialInv, SerialTables, tables
  <1>4. op' = [op EXCEPT ![t] = op[t]]
    BY <1>2 DEF IInv, ThreadsOK
  <1>5. SerialThread(pc[t], op[t], acc[t], trades, booked, book, applied)
    BY DEF SerialInv
  <1>6. acc[t] \in Accounts /\ (op[t] = Mark \/ op[t] \in Orders)
    BY <1>1 DEF ThreadOK, InScript
  <1>7. CASE LoadRow(t) /\ acc' = [acc EXCEPT ![t].booked = booked] /\ Proceed(t)
    <2> DEFINE a == [acc[t] EXCEPT !.booked = booked]
    <2>1. pc[t] = "row" /\ acc' = [acc EXCEPT ![t] = a]
      BY <1>7 DEF LoadRow, IInv, ThreadsOK
    <2>2. Then[op[t].kind]["row"] = "positions"
      BY <1>6, Kinds3 DEF Then, Mark
    <2>3. pc' = [pc EXCEPT ![t] = "positions"]
      BY <1>7, <2>1, <2>2 DEF Proceed
    <2>4. a.booked = booked
      BY <1>6 DEF Accounts
    <2> HIDE DEF a
    <2>5. SerialThread("positions", op[t], a, trades', booked', book', applied')
      BY <1>2, <1>5, <2>1, <2>4 DEF SerialThread, Loaded, Recorded, tables
    <2> QED
      BY <1>3, <1>4, <2>1, <2>3, <2>5, SerialMoves
  <1>8. CASE LoadPositions(t)
    <2> DEFINE a == [acc[t] EXCEPT !.book = book, !.applied = applied]
               p == Then[op[t].kind]["positions"]
    <2>1. /\ pc[t] = "positions" /\ acc' = [acc EXCEPT ![t] = a]
          /\ pc' = [pc EXCEPT ![t] = p]
      BY <1>8 DEF LoadPositions, Proceed, Serial, IInv, ThreadsOK
    <2>2. acc[t].booked = booked
      BY <1>5, <2>1 DEF SerialThread
    <2>3. a = [booked |-> booked, book |-> book, applied |-> applied]
      <3>1. a \in Accounts
        <4>1. applied \in SUBSET Nat /\ book \in Books
          BY DEF IInv, TablesOK
        <4> QED
          BY <1>6, <4>1 DEF Accounts
      <3>2. a.booked = booked /\ a.book = book /\ a.applied = applied
        BY <1>6, <2>2 DEF Accounts
      <3> HIDE DEF a
      <3>3. a = [booked |-> a.booked, book |-> a.book, applied |-> a.applied]
        BY <3>1 DEF Accounts
      <3> QED
        BY <3>2, <3>3
    <2>4. \/ op[t].kind = "mark" /\ p = "save"
          \/ op[t].kind = "venue" /\ p = "tax"
          \/ op[t].kind = "paper" /\ p = "save"
          \/ op[t].kind = "full" /\ p = "execute"
      BY <1>6, Kinds3, ThenFacts
    <2> HIDE DEF a, p
    <2>5. SerialThread(p, op[t], a, trades', booked', book', applied')
      BY <1>2, <1>5, <2>1, <2>3, <2>4 DEF SerialThread, Loaded, Recorded, tables
    <2> QED
      BY <1>3, <1>4, <2>1, <2>5, SerialMoves
  <1>9. CASE LoadRow(t) /\ ~saved /\ LoadFails(t)
    <2> DEFINE p == Then[op[t].kind]["positions"]
    <2>1. /\ pc[t] = "row" /\ acc' = [acc EXCEPT ![t] = DefaultAccount]
          /\ pc' = [pc EXCEPT ![t] = p]
      BY <1>9 DEF LoadRow, LoadFails
    <2>2. DefaultAccount = [booked |-> booked, book |-> book, applied |-> applied]
      BY <1>9 DEF DefaultAccount, SerialInv, SerialTables
    <2>3. \/ op[t].kind = "mark" /\ p = "save"
          \/ op[t].kind = "venue" /\ p = "tax"
          \/ op[t].kind = "paper" /\ p = "save"
          \/ op[t].kind = "full" /\ p = "execute"
      BY <1>6, Kinds3, ThenFacts
    <2> HIDE DEF p
    <2>4. SerialThread(p, op[t], DefaultAccount, trades', booked', book', applied')
      BY <1>2, <1>5, <2>1, <2>2, <2>3 DEF SerialThread, Loaded, Recorded, tables
    <2> QED
      BY <1>3, <1>4, <2>1, <2>4, SerialMoves
  <1> QED
    BY <1>7, <1>8, <1>9 DEF LoadRow, Serial

LEMMA SerialTax ==
    ASSUME Serial, IInv, SerialInv, NEW t \in Threads, RecordTax(t)
    PROVE  SerialInv'
  <1>1. ThreadOK(pc[t], op[t], acc[t], DOMAIN trades, taxed) /\ pc[t] = "tax"
    BY DEF IInv, ThreadsOK, RecordTax
  <1>2. op[t] \in Orders
    BY <1>1, Kinds3 DEF ThreadOK, InScript
  <1> DEFINE p == Then[op[t].kind]["tax"]
  <1>3. /\ pc' = [pc EXCEPT ![t] = p]
        /\ acc' = [acc EXCEPT ![t] = acc[t]]
        /\ op' = [op EXCEPT ![t] = op[t]]
        /\ UNCHANGED <<trades, saved, booked, book, applied, filled>>
    BY <1>1 DEF RecordTax, Proceed, IInv, ThreadsOK
  <1>4. SerialTables'
    BY <1>3 DEF SerialInv, SerialTables
  <1>5. \/ op[t].kind = "venue" /\ p = "save"
        \/ op[t].kind = "paper" /\ p = "row"
        \/ op[t].kind = "full" /\ p = "save"
    BY <1>2, Kinds3, ThenFacts
  <1>6. SerialThread(pc[t], op[t], acc[t], trades, booked, book, applied)
    BY DEF SerialInv
  <1> HIDE DEF p
  <1>7. SerialThread(p, op[t], acc[t], trades', booked', book', applied')
    BY <1>1, <1>3, <1>5, <1>6 DEF SerialThread, Loaded, Recorded
  <1> QED
    BY <1>3, <1>4, <1>7, SerialMoves

(* What a save writes: the stored account with this one trade on top.      *)
LEMMA SerialSettles ==
    ASSUME Serial, IInv, SerialInv, NEW t \in Threads, SaveTrade(t)
    PROVE  /\ op[t].trade \in DOMAIN trades \ applied
           /\ op[t] \in Orders
           /\ trades[op[t].trade] =
                 [market |-> op[t].market, side |-> op[t].side, qty |-> op[t].qty]
           /\ book' = Net(book, trades[op[t].trade])
           /\ booked' = booked + ClosedBy(book, trades[op[t].trade])
           /\ applied' = applied \cup {op[t].trade}
           /\ trades' = trades
  <1>1. ThreadOK(pc[t], op[t], acc[t], DOMAIN trades, taxed)
        /\ pc[t] = "save" /\ op[t].kind # "mark"
    BY DEF IInv, ThreadsOK, SaveTrade
  <1>2. op[t] \in Orders
    BY <1>1, Kinds3 DEF ThreadOK, InScript
  <1>3. SerialThread(pc[t], op[t], acc[t], trades, booked, book, applied)
    BY DEF SerialInv
  <1>4. Loaded(op[t], pc[t]) /\ Recorded(op[t], pc[t])
    BY <1>1, <1>2, Kinds3 DEF Loaded, Recorded
  <1>5. /\ acc[t].booked = booked /\ acc[t].book = book /\ acc[t].applied = applied
        /\ op[t].trade \in DOMAIN trades \ applied
        /\ trades[op[t].trade] =
              [market |-> op[t].market, side |-> op[t].side, qty |-> op[t].qty]
    BY <1>3, <1>4 DEF SerialThread
  <1>6. /\ book' = Net(acc[t].book, trades[op[t].trade])
        /\ booked' = acc[t].booked + ClosedBy(acc[t].book, trades[op[t].trade])
        /\ applied' = acc[t].applied \cup {op[t].trade}
        /\ trades' = trades
    BY DEF SaveTrade
  <1> QED
    BY <1>2, <1>5, <1>6

LEMMA SerialSaveTrade ==
    ASSUME Serial, IInv, SerialInv, NEW t \in Threads, SaveTrade(t)
    PROVE  SerialInv'
  <1>1. /\ saved' = TRUE
        /\ applied' = applied \cup {op[t].trade}
        /\ filled' = filled \cup {op[t].trade}
        /\ Finish(t)
    BY SerialSettles DEF SaveTrade
  <1>2. SerialTables'
    BY <1>1 DEF SerialInv, SerialTables
  <1> QED
    BY <1>1, <1>2, SerialFinish

(* The mark-to-market writes back what is stored.                          *)
LEMMA SerialSaveMark ==
    ASSUME Serial, IInv, SerialInv, NEW t \in Threads, SaveMark(t)
    PROVE  SerialInv' /\ UNCHANGED <<trades, applied, book, booked>>
  <1>1. SerialThread(pc[t], op[t], acc[t], trades, booked, book, applied)
    BY DEF SerialInv
  <1>2. acc[t].booked = booked /\ acc[t].book = book /\ acc[t].applied = applied
    BY <1>1 DEF SerialThread, Loaded, SaveMark
  <1>3. UNCHANGED <<trades, applied, book, booked, filled>> /\ Finish(t)
        /\ (saved' = TRUE \/ saved' = saved)
    BY <1>2 DEF SaveMark
  <1>4. SerialTables'
    BY <1>3 DEF SerialInv, SerialTables
  <1> QED
    BY <1>3, <1>4, SerialFinish

(* Steps that end an operation and leave the account alone.                *)
LEMMA SerialRaise ==
    ASSUME Serial, IInv, SerialInv, NEW t \in Threads,
           Raise(t) \/ ExecuteThenRaise(t)
    PROVE  SerialInv' /\ UNCHANGED <<applied, book, booked>>
  <1>1. UNCHANGED <<saved, applied, book, booked, filled>> /\ Finish(t)
    BY DEF Raise, ExecuteThenRaise, RecordTrade, tables
  <1>2. SerialTables'
    BY <1>1 DEF SerialInv, SerialTables
  <1> QED
    BY <1>1, <1>2, SerialFinish

LEMMA SerialCrash ==
    ASSUME Serial, IInv, SerialInv, Crash
    PROVE  SerialInv'
  <1>1. UNCHANGED tables
    BY DEF Crash
  <1>2. SerialTables'
    BY <1>1 DEF SerialInv, SerialTables, tables
  <1>3. \A t \in Threads : pc'[t] = "idle" /\ op'[t] = NoOp
    BY DEF Crash
  <1> QED
    BY <1>2, <1>3, SerialIdle DEF SerialInv

LEMMA SerialInit == Init => SerialInv
  <1> SUFFICES ASSUME Init PROVE SerialInv
    OBVIOUS
  <1>1. SerialTables
    BY DEF Init, SerialTables
  <1>2. \A t \in Threads : pc[t] = "idle" /\ op[t] = NoOp
    BY DEF Init
  <1> QED
    BY <1>1, <1>2, SerialIdle DEF SerialInv

LEMMA SerialNext == Serial /\ IInv /\ SerialInv /\ [Next]_vars => SerialInv'
  <1> SUFFICES ASSUME Serial, IInv, SerialInv, [Next]_vars PROVE SerialInv'
    OBVIOUS
  <1>1. CASE UNCHANGED <<tables, pc, op, acc>>
    <2>1. UNCHANGED <<trades, saved, booked, book, applied, filled, pc, op, acc>>
      BY <1>1 DEF tables
    <2> QED
      BY <2>1 DEF SerialInv, SerialTables
  <1>2. ASSUME NEW t \in Threads,
               PlaceOrder(t) \/ RunPipeline(t) \/ MarkToMarket(t)
        PROVE  SerialInv'
    BY <1>2, SerialCalls
  <1>3. ASSUME NEW t \in Threads, Step(t)
        PROVE  SerialInv'
    BY <1>3, SerialCheck, SerialExecute, SerialLoad, SerialTax, SerialSaveTrade,
       SerialSaveMark, SerialRaise DEF Step
  <1>4. CASE Crash
    BY <1>4, SerialCrash
  <1> QED
    BY <1>1, <1>2, <1>3, <1>4 DEF Next, Connect, Disconnect, vars

LEMMA SerialInductive == Serial => (Spec => []SerialInv)
  <1> SUFFICES ASSUME Serial PROVE Spec => []SerialInv
    OBVIOUS
  <1>1. IInv /\ SerialInv /\ [Next]_vars => SerialInv'
    BY SerialNext
  <1> QED
    BY <1>1, SerialInit, Inductive, PTL DEF Spec

(* No save loses a trade whose caller was told it is filled.               *)
THEOREM FilledStaysBookedHolds == Serial => (Spec => []FilledStaysBooked)
  <1> SUFFICES ASSUME Serial PROVE Spec => []FilledStaysBooked
    OBVIOUS
  <1>1. SerialInv => FilledStaysBooked
    BY DEF SerialInv, SerialTables, FilledStaysBooked
  <1> QED
    BY <1>1, SerialInductive, PTL

------------------------------------------------------------------------------
(* What each step does to the account, seen from the ledger: nothing, one  *)
(* new trade, or one trade settled on top of the stored account.           *)

LEMMA AccountStep ==
    ASSUME Serial, IInv, SerialInv, [Next]_vars
    PROVE  \/ UNCHANGED <<trades, applied, book, booked>>
           \/ /\ UNCHANGED <<applied, book, booked>>
              /\ \E t \in Threads, fill \in Nat : op[t] \in Orders /\ RecordTrade(t, fill)
           \/ \E t \in Threads : SaveTrade(t)
  <1>1. CASE UNCHANGED <<tables, pc, op, acc>> \/ Crash
    BY <1>1 DEF tables, Crash
  <1>2. ASSUME NEW t \in Threads,
               PlaceOrder(t) \/ RunPipeline(t) \/ MarkToMarket(t)
        PROVE  UNCHANGED <<trades, applied, book, booked>>
    BY <1>2 DEF PlaceOrder, RunPipeline, MarkToMarket, Call, tables
  <1>3. ASSUME NEW t \in Threads,
               CheckReduceOnly(t) \/ LoadRow(t) \/ LoadPositions(t) \/ RecordTax(t)
                  \/ Raise(t)
        PROVE  UNCHANGED <<trades, applied, book, booked>>
    BY <1>3 DEF CheckReduceOnly, LoadRow, LoadPositions, RecordTax, Raise, tables
  <1>4. ASSUME NEW t \in Threads, Execute(t) \/ ExecuteThenRaise(t)
        PROVE  /\ UNCHANGED <<applied, book, booked>>
               /\ \E fill \in Nat : op[t] \in Orders /\ RecordTrade(t, fill)
    <2>1. ThreadOK(pc[t], op[t], acc[t], DOMAIN trades, taxed) /\ pc[t] = "execute"
      BY <1>4 DEF IInv, ThreadsOK, Execute, ExecuteThenRaise
    <2>2. op[t] \in Orders /\ op[t].qty \in Nat
      BY <2>1, Kinds3 DEF ThreadOK, InScript
    <2>3. CASE Execute(t)
      <3>1. PICK fill \in IF PartialFills THEN 1..op[t].qty ELSE {op[t].qty} :
                  RecordTrade(t, fill)
        BY <2>3 DEF Execute
      <3>2. fill \in Nat
        BY <2>2, <3>1
      <3> QED
        BY <2>2, <3>1, <3>2 DEF RecordTrade
    <2>4. CASE ExecuteThenRaise(t)
      BY <2>2, <2>4 DEF ExecuteThenRaise, RecordTrade
    <2> QED
      BY <1>4, <2>3, <2>4
  <1>5. ASSUME NEW t \in Threads, SaveMark(t)
        PROVE  UNCHANGED <<trades, applied, book, booked>>
    BY <1>5, SerialSaveMark
  <1> QED
    BY <1>1, <1>2, <1>3, <1>4, <1>5 DEF Next, Step, Connect, Disconnect, vars

(* A step of the account is a step of the ledger.                          *)
LEMMA LedgerStep ==
    ASSUME Serial, IInv, SerialInv, [Next]_vars
    PROVE  [L!Next]_(L!vars)
  <1>1. CASE UNCHANGED <<trades, applied, book, booked>>
    BY <1>1 DEF L!vars
  <1>2. ASSUME NEW t \in Threads, NEW fill \in Nat, op[t] \in Orders,
               RecordTrade(t, fill), UNCHANGED <<applied, book, booked>>
        PROVE  L!Record
    <2> DEFINE tr == [market |-> op[t].market, side |-> op[t].side, qty |-> fill]
    <2>1. tr \in Trades
      BY <1>2, Kinds3 DEF Trades
    <2>2. trades' = Append(trades, tr) /\ trades \in Seq(Trades)
      BY <1>2 DEF RecordTrade, IInv, TablesOK
    <2> HIDE DEF tr
    <2>3. /\ trades' \in Seq(Trades)
          /\ Len(trades') = Len(trades) + 1
          /\ \A i \in DOMAIN trades : trades'[i] = trades[i]
      BY <2>1, <2>2
    <2>4. L!Trades = Trades
      BY DEF L!Trades, Trades, L!Sides, Sides
    <2> QED
      BY <1>2, <2>3, <2>4 DEF L!Record
  <1>3. ASSUME NEW t \in Threads, SaveTrade(t)
        PROVE  L!Next
    <2> DEFINE i == op[t].trade
    <2>1. /\ i \in DOMAIN trades \ applied
          /\ book' = Net(book, trades[i])
          /\ booked' = booked + ClosedBy(book, trades[i])
          /\ applied' = applied \cup {i}
          /\ trades' = trades
      BY <1>3, SerialSettles
    <2> HIDE DEF i
    <2>2. L!ClosedBy(book, trades[i]) = ClosedBy(book, trades[i])
      BY DEF L!ClosedBy, ClosedBy, L!Closable, Closable, L!Opposite, Opposite
    <2>3. L!Net(book, trades[i]) = Net(book, trades[i])
      BY <2>2 DEF L!Net, Net, L!Sides, Sides
    <2>4. L!Settle(i)
      BY <2>1, <2>2, <2>3 DEF L!Settle
    <2> QED
      BY <2>1, <2>4 DEF L!Next
  <1> QED
    BY <1>1, <1>2, <1>3, AccountStep DEF L!Next

(* One trading thread and no failed reads: whatever writes fail and        *)
(* whenever the process dies, every step of the account is a stutter, a    *)
(* recorded trade or one trade settled in full, once, on top of the rest.  *)
THEOREM SerialImplementsLedger == Serial => (Spec => ImplementsLedger)
  <1> SUFFICES ASSUME Serial PROVE Spec => ImplementsLedger
    OBVIOUS
  <1>1. Init => L!Init
    BY DEF Init, L!Init, EmptyBook, L!EmptyBook, L!Sides, Sides
  <1>2. IInv /\ SerialInv /\ [Next]_vars => [L!Next]_(L!vars)
    BY LedgerStep
  <1> QED
    BY <1>1, <1>2, Inductive, SerialInductive, PTL DEF Spec, ImplementsLedger, L!Spec

(* A booked reduce-only order never increases what is open on its side.    *)
THEOREM ReduceOnlyHolds == Serial => (Spec => ReduceOnlyNeverOpens)
  <1> SUFFICES ASSUME Serial PROVE Spec => ReduceOnlyNeverOpens
    OBVIOUS
  <1> DEFINE A == \A t \in Threads :
                    (pc[t] = "save" /\ op[t].kind = "venue" /\ op[t].reduceOnly
                       /\ op'[t] = NoOp)
                    => book'[op[t].market][op[t].side] <= book[op[t].market][op[t].side]
  <1>1. IInv /\ SerialInv /\ [Next]_vars => [A]_vars
    <2> SUFFICES ASSUME IInv, SerialInv, [Next]_vars, NEW t \in Threads,
                        pc[t] = "save", op[t].kind = "venue", op[t].reduceOnly
                 PROVE  book'[op[t].market][op[t].side] <= book[op[t].market][op[t].side]
      OBVIOUS
    <2>1. op[t] \in Orders
      <3>1. ThreadOK(pc[t], op[t], acc[t], DOMAIN trades, taxed)
        BY DEF IInv, ThreadsOK
      <3> QED
        BY <3>1, Kinds3 DEF ThreadOK, InScript
    <2>2. book[op[t].market][op[t].side] \in Nat
      BY <2>1, Kinds3 DEF IInv, TablesOK, Books
    <2>3. CASE book' = book
      BY <2>2, <2>3
    <2>4. ASSUME NEW u \in Threads, SaveTrade(u)
          PROVE  book'[op[t].market][op[t].side] = book[op[t].market][op[t].side]
      <3>1. u = t
        BY DEF Serial
      <3> DEFINE tr == trades[op[t].trade]
      <3>2. /\ tr = [market |-> op[t].market, side |-> op[t].side, qty |-> op[t].qty]
            /\ op[t].trade \in DOMAIN trades
            /\ book' = Net(book, tr)
        BY <2>4, <3>1, SerialSettles
      <3>3. tr \in Trades /\ book \in Books
        BY <3>2 DEF IInv, TablesOK
      <3>4. SerialThread(pc[t], op[t], acc[t], trades, booked, book, applied)
        BY DEF SerialInv
      <3>5. op[t].qty <= Closable(book, op[t].market, op[t].side)
        BY <3>4 DEF SerialThread
      <3> HIDE DEF tr
      <3>6. tr.qty <= Closable(book, tr.market, tr.side)
        BY <3>2, <3>5
      <3>7. Net(book, tr)[tr.market][tr.side] = book[tr.market][tr.side]
        BY <3>3, <3>6, NetReduces
      <3> QED
        BY <3>2, <3>7
    <2> QED
      BY <2>2, <2>3, <2>4, AccountStep
  <1> QED
    BY <1>1, Inductive, SerialInductive, PTL DEF Spec, ReduceOnlyNeverOpens
=============================================================================
