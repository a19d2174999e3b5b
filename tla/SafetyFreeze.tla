---------------------------- MODULE SafetyFreeze ----------------------------
(***************************************************************************)
(* The watchdog's dead man's switch and the reconciliation it leads to.    *)
(* The monitor of shared/watchdog/watchdog.py freezes the universe when    *)
(* the broker is away and reconciles the books when it is back; the        *)
(* dashboard and the chat reconcile on their own threads; the health check *)
(* freezes too.  shared/reconciliation compares the local account with the *)
(* venue, repairs the account and lifts freezes.                           *)
(*                                                                         *)
(* The active venue is the paper venue, which answers from the very        *)
(* account it is compared with, or Kite, whose book is its own.  An order  *)
(* of the paper venue is recorded and booked in two steps, since a         *)
(* reconciliation may look between them; PaperVenue models the others, and *)
(* partial closes.  Kite's positions, holdings and orders are read in one  *)
(* step.                                                                   *)
(***************************************************************************)
EXTENDS Integers, Sequences, FiniteSets

CONSTANTS
    Assets,
    Universe,      \* the assets of the profile's active universe
    FreezeAfter,   \* failed checks in a row that freeze (6 in the code)
    RecoverAfter,  \* good checks in a row that recover (3 in the code)
    Sides,         \* signs of the positions the paper venue opens
    Prices,        \* prices of its fills
    KiteBooks,     \* what Kite may come to hold of an asset
    KiteCash,      \* the cash Kite reports
    Scopes,        \* what reconciliations are asked for: one asset, or everything
    MaxEvents      \* bound on orders at both venues, reads and writes that fail,
                   \* losses and returns of the connection, and reconciliations
                   \* asked for, together

(* What a venue has of an asset: a position, a holding, a refused or partly *)
(* filled order in its list.                                               *)
Entry == [qty : Int, price : Nat, held : BOOLEAN, refused : BOOLEAN]
Nothing == [qty |-> 0, price |-> 0, held |-> FALSE, refused |-> FALSE]

ASSUME FreezeAssumption ==
    /\ Universe \subseteq Assets /\ "PORTFOLIO" \notin Assets
    /\ {FreezeAfter, RecoverAfter} \subseteq Nat \ {0}
    /\ Sides \subseteq {-1, 1} /\ Prices \subseteq Nat /\ KiteBooks \subseteq Entry
    /\ Scopes \subseteq SUBSET (Assets \cup {"PORTFOLIO"})
    /\ {KiteCash, MaxEvents} \subseteq Nat

Reconcilers == {"monitor", "request"}
Kinds == {"CASH", "MISSING", "PHANTOM", "DIRECTION", "QUANTITY", "PRICE", "FAR",
          "HOLDING", "ORDER", "ORPHAN"}

VARIABLES
    venue,      \* "paper" or "kite"
    link,       \* the venue answers
    rows,       \* the account's positions of each asset, in dictionary order
    cash,       \* the account's cash
    kite,       \* what Kite holds of each asset
    traded,     \* assets with an open row in the trade store
    flight,     \* orders recorded there and not yet booked
    frozen,     \* reconciliation_freezes
    flag,       \* Watchdog._broker_connected_state
    downs, ups, \* _consecutive_disconnects, _consecutive_reconnects
    run,        \* the reconciliation of each thread
    spared,     \* history: assets the outage's freeze did not reach, or a
                \* reconciliation thawed during the outage
    foiled,     \* history: the recovery after the last outage was denied or
                \* ended by an exception, or somebody froze after it had begun;
                \* TRUE also when there was no outage yet
    jumbled,    \* history: assets with a lot booked after a younger one, or
                \* reconstructed beside an open one
    orders,     \* orders of the paper venue so far, its clock
    events

bookVars == <<rows, cash, kite, traded, flight>>
linkVars == <<flag, downs, ups>>
history == <<spared, foiled, jumbled>>
counts == <<orders, events>>
vars == <<venue, link, rows, cash, kite, traded, flight, frozen, flag, downs, ups, run,
          spared, foiled, jumbled, orders, events>>

(* A reconciliation: its step, the assets it is about, its snapshot of the *)
(* broker, its discrepancies and the repaired account it is about to save. *)
(* History: whether every read so far succeeded and no book changed since. *)
NoRun == [step |-> "idle", scope |-> Assets \cup {"PORTFOLIO"}, cash |-> 0,
          book |-> [a \in Assets |-> Nothing], found |-> {}, copy |-> <<>>, sure |-> TRUE]
At(r, step) == run[r].step = step
Goto(r, step) == run' = [run EXCEPT ![r] = [@ EXCEPT !.step = step]]

Abs(n) == IF n < 0 THEN -n ELSE n
Sign(n) == IF n < 0 THEN -1 ELSE 1
Opened(q, p, t) == [qty |-> q, open |-> TRUE, price |-> p, at |-> t]
(* Of a closed lot nothing is looked at again, only that it is there.      *)
Closed == [qty |-> 0, open |-> FALSE, price |-> 0, at |-> 0]
OpenRows(s) == {i \in DOMAIN s : s[i].open}
Last(s) == s[Len(s)]
Greatest(S) == CHOOSE i \in S : \A j \in S : j <= i

(* Clock: the n-th order is executed at 2n, what is reconstructed after it *)
(* and before the next at 2n + 1.                                          *)
Now == 2 * orders + 1
-----------------------------------------------------------------------------
(* Snapshots: one entry per symbol, the last one of a dictionary wins. *)
PaperBook ==
    [a \in Assets |->
        IF OpenRows(rows[a]) = {} THEN Nothing
        ELSE LET lot == rows[a][Greatest(OpenRows(rows[a]))]
             IN  [Nothing EXCEPT !.qty = lot.qty, !.price = lot.price]]
BrokerBook == IF venue = "paper" THEN PaperBook ELSE kite
BrokerCash == IF venue = "paper" THEN cash ELSE KiteCash

Event == events < MaxEvents /\ events' = events + 1

(* A read or a write fails in this step, or none does. *)
Fault(fails) == IF fails THEN Event ELSE UNCHANGED events

(* LocalSnapshot.capture: an account that cannot be loaded is taken for an *)
(* empty one, and trades that cannot be for none.                          *)
LocalViews ==
    {[rows |-> IF loaded THEN rows ELSE [a \in Assets |-> <<>>],
      cash |-> IF loaded THEN cash ELSE 0,
      traded |-> IF listed THEN traded ELSE {}] : loaded, listed \in BOOLEAN}
Saw(v) == v.rows = rows /\ v.cash = cash
Here == [rows |-> rows, cash |-> cash, traded |-> traded]

(* Mutant: the first position of a symbol stands for it. *)
LocalOfFirst(s) == IF s = <<>> THEN Closed ELSE s[1]

LocalOf(s) == IF s = <<>> THEN Closed ELSE Last(s)

(* PRICE_MISMATCH freezes above five percent. *)
Far(b, l) == l.price > 0 /\ 20 * Abs(b.price - l.price) > l.price

(* Mutant: quantities are not compared. *)
KindWithoutQuantity(b, l) ==
    IF b.qty = 0 THEN {k \in {"MISSING"} : l.open}
    ELSE IF ~l.open THEN {"PHANTOM"}
    ELSE {k \in {"DIRECTION", "PRICE", "FAR"} :
              \/ k = "DIRECTION" /\ Sign(b.qty) # Sign(l.qty)
              \/ k = "PRICE" /\ b.price # l.price /\ ~Far(b, l)
              \/ k = "FAR" /\ Far(b, l)}

(* _diff_positions: the broker's position b and the local lot l. *)
Kind(b, l) ==
    IF b.qty = 0 THEN {k \in {"MISSING"} : l.open}
    ELSE IF ~l.open THEN {"PHANTOM"}
    ELSE {k \in {"DIRECTION", "QUANTITY", "PRICE", "FAR"} :
              \/ k = "DIRECTION" /\ Sign(b.qty) # Sign(l.qty)
              \/ k = "QUANTITY" /\ Abs(b.qty) # Abs(l.qty)
              \/ k = "PRICE" /\ b.price # l.price /\ ~Far(b, l)
              \/ k = "FAR" /\ Far(b, l)}

(* _diff_holdings and _diff_orders: a holding the account knows nothing of, *)
(* an order refused or partly filled, an open trade without any position.  *)
Stray(b, s, inStore) ==
    {k \in {"HOLDING", "ORDER", "ORPHAN"} :
        \/ k = "HOLDING" /\ b.held /\ s = <<>>
        \/ k = "ORDER" /\ b.refused
        \/ k = "ORPHAN" /\ inStore /\ s = <<>>}

Within(S, ds) == {d \in ds : d[2] \in S}
Diff(r, v) ==
    LET b == run[r].book
    IN  Within(run[r].scope,
            {d \in Kinds \X Assets : d[1] \in Kind(b[d[2]], LocalOf(v.rows[d[2]]))
                 \cup Stray(b[d[2]], v.rows[d[2]], d[2] \in v.traded)}
            \cup {<<"CASH", "PORTFOLIO">> : c \in {run[r].cash} \ {v.cash}})

(* classify: what freezes, and what _apply_safe_local_recovery thaws. *)
Mismatch == {"DIRECTION", "QUANTITY", "PRICE", "FAR"}
Freezing(ds) == {d[2] : d \in {e \in ds : e[1] \in
                    {"CASH", "MISSING", "PHANTOM", "QUANTITY", "FAR", "HOLDING"}}}
Synced(ds) == {d[2] : d \in {e \in ds : e[1] \in {"MISSING", "PHANTOM"} \cup Mismatch}}

(* The positions of one asset after the repair: one reconstructed, all     *)
(* closed, or the broker's quantity and price on every open one.  A holding *)
(* beside a position leads to no second one: both would have one id.       *)
Repaired(s, kinds, b, now) ==
    IF "PHANTOM" \in kinds THEN Append(s, Opened(b.qty, b.price, now))
    ELSE IF "MISSING" \in kinds THEN [i \in DOMAIN s |-> Closed]
    ELSE IF kinds \cap Mismatch # {}
         THEN [i \in DOMAIN s |->
                  IF s[i].open
                  THEN Opened(Sign(s[i].qty) * Abs(b.qty), b.price, s[i].at) ELSE s[i]]
    ELSE s

(* The repaired account, or nothing when no position was touched. *)
Of(r, a) == {d[1] : d \in Within({a}, run[r].found)}
Repair(r) ==
    LET touched == {a \in Synced(run[r].found) : \/ "PHANTOM" \in Of(r, a)
                                                \/ OpenRows(rows[a]) # {}}
        balance == Of(r, "PORTFOLIO") # {}
    IN  IF touched = {} /\ ~balance THEN <<>>
        ELSE <<[rows |-> [a \in Assets |->
                             Repaired(rows[a], Of(r, a), run[r].book[a], Now)],
                cash |-> IF balance THEN run[r].cash ELSE cash]>>
-----------------------------------------------------------------------------
Disturbed(others) ==
    [r \in Reconcilers |-> IF r \in others /\ ~At(r, "idle")
                           THEN [run[r] EXCEPT !.sure = FALSE] ELSE run[r]]

(* The paper venue executes an order and records the trade. *)
Opposite(s, side) == {i \in OpenRows(s) : Sign(s[i].qty) # side}
Execute(a) ==
    /\ Event /\ (venue = "paper" => link)
    /\ \E side \in {-1, 1}, p \in Prices :
           /\ side \in Sides \/ Opposite(rows[a], side) # {}
           /\ flight' = flight \cup {[asset |-> a, side |-> side, price |-> p,
                                     at |-> 2 * (orders + 1)]}
    /\ traded' = traded \cup {a}
    /\ orders' = orders + 1
    /\ UNCHANGED <<venue, link, rows, cash, kite, frozen, linkVars, run, history>>

(* It books the trade: the oldest opposite lot is closed, else one opened. *)
Book(o) ==
    LET s == rows[o.asset]
        opposite == Opposite(s, o.side)
    IN  /\ o \in flight /\ flight' = flight \ {o}
        /\ \/ /\ opposite = {}
              /\ rows' = [rows EXCEPT ![o.asset] =
                             Append(s, Opened(o.side, o.price, o.at))]
              /\ jumbled' = jumbled \cup
                     {a \in {o.asset} : \E i \in OpenRows(s) : s[i].at > o.at}
              /\ UNCHANGED cash
           \/ /\ \E i \in opposite :
                     /\ \A j \in opposite : \/ s[i].at < s[j].at
                                             \/ (s[i].at = s[j].at /\ i <= j)
                     /\ rows' = [rows EXCEPT ![o.asset] = [s EXCEPT ![i] = Closed]]
              /\ cash' = cash + 1
              /\ UNCHANGED jumbled
        /\ run' = Disturbed(Reconcilers)
        /\ UNCHANGED <<venue, link, kite, traded, frozen, linkVars, spared, foiled, counts>>

(* The account cannot be loaded or saved: the trade stays without position. *)
LoseFill(o) ==
    /\ o \in flight /\ flight' = flight \ {o}
    /\ Fault(TRUE)
    /\ UNCHANGED <<venue, link, rows, cash, kite, traded, frozen, linkVars, run,
                   history, orders>>

(* Somebody trades at the broker. *)
External(a) ==
    /\ Event /\ venue = "kite"
    /\ \E b \in KiteBooks : b # kite[a] /\ kite' = [kite EXCEPT ![a] = b]
    /\ run' = Disturbed(Reconcilers)
    /\ UNCHANGED <<venue, link, rows, cash, traded, flight, frozen, linkVars, history,
                   orders>>

Flip ==
    /\ Event
    /\ link' = ~link
    /\ UNCHANGED <<venue, bookVars, frozen, linkVars, run, history, orders>>
-----------------------------------------------------------------------------
(* One check of the monitor loop. *)
Least(m, n) == IF m < n THEN m ELSE n
MonitorDown ==
    /\ At("monitor", "idle") /\ ~link
    /\ ups' = 0 /\ downs' = Least(downs + 1, FreezeAfter)
    /\ flag' = (flag /\ downs' < FreezeAfter)
    /\ Goto("monitor", IF flag /\ ~flag' THEN "freeze" ELSE "idle")
    /\ UNCHANGED <<venue, link, bookVars, frozen, history, counts>>

(* Mutant: good checks are not counted. *)
MonitorUpForgets ==
    /\ At("monitor", "idle") /\ link
    /\ downs' = 0 /\ ups' = Least(1, RecoverAfter)
    /\ flag' = (flag \/ ups' >= RecoverAfter)
    /\ spared' = IF flag' THEN {} ELSE spared
    /\ Goto("monitor", IF flag' /\ ~flag THEN "cash" ELSE "idle")
    /\ UNCHANGED <<venue, link, bookVars, frozen, foiled, jumbled, counts>>

MonitorUp ==
    /\ At("monitor", "idle") /\ link
    /\ downs' = 0 /\ ups' = Least(ups + 1, RecoverAfter)
    /\ flag' = (flag \/ ups' >= RecoverAfter)
    /\ spared' = IF flag' THEN {} ELSE spared
    /\ Goto("monitor", IF flag' /\ ~flag THEN "cash" ELSE "idle")
    /\ UNCHANGED <<venue, link, bookVars, frozen, foiled, jumbled, counts>>

(* The reconciliation store swallows the failure of a write: some of the   *)
(* assets S it is to freeze or to thaw stay as they were.                  *)
Freeze(S) == \E T \in SUBSET S : frozen' = frozen \cup T /\ Fault(T # S)
Unfreeze(S) == \E T \in SUBSET S : frozen' = frozen \ T /\ Fault(T # S)

(* _freeze_trading_due_to_hazard freezes the universe, or "PORTFOLIO",     *)
(* which no order asks for, when the profile cannot be read.               *)
FreezeUniverse ==
    \/ Freeze(Universe)
    \/ frozen' = frozen \cup {"PORTFOLIO"} /\ Fault(TRUE)

(* The monitor has lost the broker. *)
MonitorFreeze ==
    /\ At("monitor", "freeze")
    /\ FreezeUniverse
    /\ spared' = Universe \ frozen' /\ foiled' = FALSE
    /\ Goto("monitor", "idle")
    /\ UNCHANGED <<venue, link, bookVars, linkVars, jumbled, orders>>

(* check_system_health freezes when the monitor's flag was down as it      *)
(* looked, when the database is locked, and so does a denied restart.      *)
HealthFreeze ==
    /\ FreezeUniverse
    /\ foiled' = (foiled \/ flag)
    /\ UNCHANGED <<venue, link, bookVars, linkVars, run, spared, jumbled, orders>>
-----------------------------------------------------------------------------
(* A reconciliation is asked for. *)
Request ==
    /\ At("request", "idle") /\ Event
    /\ \E S \in Scopes :
           run' = [run EXCEPT !["request"] = [@ EXCEPT !.step = "cash", !.scope = S]]
    /\ UNCHANGED <<venue, link, bookVars, frozen, linkVars, history, orders>>

(* BrokerSnapshot.capture: what cannot be read is taken for nothing. *)
ReadCash(r) ==
    /\ At(r, "cash")
    /\ \E got \in {link, FALSE} :
           /\ run' = [run EXCEPT ![r] = [@ EXCEPT !.step = "book", !.sure = got,
                                                  !.cash = IF got THEN BrokerCash ELSE 0]]
           /\ Fault(got # link)
    /\ UNCHANGED <<venue, link, bookVars, frozen, linkVars, history, orders>>

ReadBook(r) ==
    /\ At(r, "book")
    /\ \E got \in {link, FALSE} :
           /\ run' = [run EXCEPT ![r] =
                         [@ EXCEPT !.step = "compare", !.sure = run[r].sure /\ got,
                                   !.book = IF got THEN BrokerBook ELSE NoRun.book]]
           /\ Fault(got # link)
    /\ UNCHANGED <<venue, link, bookVars, frozen, linkVars, history, orders>>

(* Mutant: whoever asks for it, a healthy report lifts the freezes. *)
ConcludeLifts(r, ds, sure) ==
    IF ds # {} THEN NoRun
    ELSE [run[r] EXCEPT !.step = "lift", !.found = {}, !.sure = sure]

(* A report without discrepancies is healthy: each lowers the score. *)
Conclude(r, ds, sure) ==
    IF ds # {} \/ r = "request" THEN NoRun
    ELSE [run[r] EXCEPT !.step = "lift", !.found = {}, !.sure = sure]

(* Mutant: a clean report lifts the freezes of what it was about. *)
CompareThaws(r) ==
    /\ At(r, "compare")
    /\ \E v \in LocalViews :
           LET ds == Diff(r, v)
               sure == run[r].sure /\ Saw(v)
           IN  /\ Fault(v # Here)
               /\ frozen' = IF ds = {} THEN frozen \ run[r].scope
                            ELSE frozen \cup Freezing(ds)
               /\ foiled' = (foiled \/ (r = "request" /\ flag /\ Freezing(ds) # {}))
               /\ run' = [run EXCEPT ![r] =
                             IF ds = {} THEN Conclude(r, {}, sure)
                             ELSE [@ EXCEPT !.step = "repair", !.found = ds, !.sure = sure]]
    /\ UNCHANGED <<venue, link, bookVars, linkVars, spared, jumbled, orders>>

(* The local snapshot, the difference and the freezes. *)
Compare(r) ==
    /\ At(r, "compare")
    /\ \E v \in LocalViews :
           LET ds == Diff(r, v)
               sure == run[r].sure /\ Saw(v)
           IN  /\ \/ v = Here /\ Freeze(Freezing(ds))
                  \/ v # Here /\ frozen' = frozen \cup Freezing(ds) /\ Fault(TRUE)
               /\ foiled' = (foiled \/ (r = "request" /\ flag /\ Freezing(ds) # {}))
               /\ run' = [run EXCEPT ![r] =
                             IF ds = {} THEN Conclude(r, {}, sure)
                             ELSE [@ EXCEPT !.step = "repair", !.found = ds, !.sure = sure]]
    /\ UNCHANGED <<venue, link, bookVars, linkVars, spared, jumbled, orders>>

(* The account is loaded and repaired in memory, *)
LoadRepair(r) ==
    /\ At(r, "repair")
    /\ run' = [run EXCEPT ![r] =
                  [@ EXCEPT !.copy = Repair(r),
                            !.step = IF Repair(r) = <<>> THEN "again" ELSE "save"]]
    /\ jumbled' = jumbled \cup {a \in Assets : "PHANTOM" \in Of(r, a) /\ OpenRows(rows[a]) # {}}
    /\ UNCHANGED <<venue, link, bookVars, frozen, linkVars, spared, foiled, counts>>

(* saved as a whole, *)
Save(r) ==
    /\ At(r, "save")
    /\ rows' = Head(run[r].copy).rows /\ cash' = Head(run[r].copy).cash
    /\ run' = [Disturbed(Reconcilers \ {r}) EXCEPT
                  ![r] = [@ EXCEPT !.step = "thaw", !.copy = <<>>]]
    /\ UNCHANGED <<venue, link, kite, traded, flight, frozen, linkVars, history, counts>>

(* unless loading or saving it raises: the recovery swallows the exception *)
(* and is not tried again.                                                 *)
Raise(r) ==
    /\ At(r, "repair") \/ At(r, "save")
    /\ Fault(TRUE)
    /\ run' = [run EXCEPT ![r] = NoRun]
    /\ foiled' = (foiled \/ r = "monitor")
    /\ UNCHANGED <<venue, link, bookVars, frozen, linkVars, spared, jumbled, orders>>

(* The assets are thawed without another look. *)
Thaw(r) ==
    /\ At(r, "thaw")
    /\ Unfreeze(Synced(run[r].found))
    /\ spared' = IF flag THEN spared ELSE spared \cup Synced(run[r].found)
    /\ Goto(r, "again")
    /\ UNCHANGED <<venue, link, bookVars, linkVars, foiled, jumbled, orders>>

(* The second comparison uses the first snapshot of the broker. *)
Again(r) ==
    /\ At(r, "again")
    /\ \E v \in LocalViews :
           /\ foiled' = (foiled \/ (r = "monitor" /\ Diff(r, v) # {}))
           /\ run' = [run EXCEPT ![r] =
                         Conclude(r, Diff(r, v), run[r].sure /\ Saw(v))]
           /\ Fault(v # Here)
    /\ UNCHANGED <<venue, link, bookVars, frozen, linkVars, spared, jumbled, orders>>

(* _trigger_safe_recovery after a healthy report.  The universe stays       *)
(* frozen when the profile cannot be read, an asset when its write fails.  *)
Lift ==
    /\ At("monitor", "lift")
    /\ \/ Unfreeze(Universe \cup {"PORTFOLIO"})
       \/ frozen' = frozen \ {"PORTFOLIO"} /\ Fault(TRUE)
    /\ foiled' = (foiled \/ frozen' \cap Universe # {})
    /\ run' = [run EXCEPT !["monitor"] = NoRun]
    /\ UNCHANGED <<venue, link, bookVars, linkVars, spared, jumbled, orders>>

Reconcile(r) ==
    \/ ReadCash(r) \/ ReadBook(r) \/ Compare(r) \/ LoadRepair(r)
    \/ Save(r) \/ Raise(r) \/ Thaw(r) \/ Again(r)

Monitor == MonitorDown \/ MonitorUp \/ MonitorFreeze \/ Lift \/ Reconcile("monitor")
-----------------------------------------------------------------------------
Init ==
    /\ venue \in {"paper", "kite"}
    /\ link = TRUE
    /\ rows = [a \in Assets |-> <<>>] /\ cash = 1 /\ kite = NoRun.book
    /\ traded = {} /\ flight = {}
    /\ frozen = {}
    /\ flag = TRUE /\ downs = 0 /\ ups = 0
    /\ run = [r \in Reconcilers |-> NoRun]
    /\ spared = {} /\ foiled = TRUE /\ jumbled = {}
    /\ orders = 0 /\ events = 0

Next ==
    \/ \E a \in Assets : Execute(a) \/ External(a)
    \/ \E o \in flight : Book(o) \/ LoseFill(o)
    \/ Flip
    \/ Monitor
    \/ HealthFreeze
    \/ Request \/ Reconcile("request")

(* The monitor's loop never ends while the process runs. *)
Spec == Init /\ [][Next]_vars /\ WF_vars(Monitor)
-----------------------------------------------------------------------------
(* Every variable has its type. *)
Row == {l \in [qty : Int, open : BOOLEAN, price : Nat, at : Nat] : l.open <=> l.qty # 0}
Order == [asset : Assets, side : {-1, 1}, price : Nat, at : Nat]
TypeOK ==
    /\ venue \in {"paper", "kite"}
    /\ {link, flag, foiled} \subseteq BOOLEAN
    /\ rows \in [Assets -> Seq(Row)] /\ cash \in Nat /\ kite \in [Assets -> Entry]
    /\ traded \subseteq Assets /\ flight \subseteq Order
    /\ frozen \subseteq Assets \cup {"PORTFOLIO"}
    /\ spared \cup jumbled \subseteq Assets
    /\ downs \in 0 .. FreezeAfter /\ ups \in 0 .. RecoverAfter
    /\ events \in 0 .. MaxEvents /\ orders \in 0 .. events
    /\ \A r \in Reconcilers :
           /\ run[r].step \in {"idle", "freeze", "cash", "book", "compare", "repair",
                               "save", "thaw", "again", "lift"}
           /\ run[r].scope \subseteq Assets \cup {"PORTFOLIO"}
           /\ run[r].book \in [Assets -> Entry] /\ run[r].cash \in Nat
           /\ run[r].found \subseteq Kinds \X (Assets \cup {"PORTFOLIO"})
           /\ (At(r, "save") <=> run[r].copy # <<>>)
    /\ ~At("request", "lift")

(* The open lots, at most one, are the broker's position b. *)
Holds(s, b) ==
    IF OpenRows(s) = {} THEN b.qty = 0
    ELSE \A i \in OpenRows(s) : s[i].qty = b.qty /\ s[i].price = b.price

(* Every freeze of the universe is lifted only when the account agrees     *)
(* with the venue in cash and in every position, unless a read failed,     *)
(* something changed meanwhile, or the position consists of two lots or    *)
(* was booked out of order: the comparison sees the last lot.              *)
LiftMeansAligned ==
    At("monitor", "lift") /\ run["monitor"].sure =>
        /\ cash = BrokerCash
        /\ \A a \in Assets \ jumbled :
               Cardinality(OpenRows(rows[a])) <= 1 => Holds(rows[a], BrokerBook[a])

(* The paper venue answers from the account itself: reconciling with it    *)
(* freezes and repairs nothing, unless the account changes or a read fails *)
(* while it looks, however often lots were opened, closed and repaired     *)
(* before; what it can report is a trade without a position.  The          *)
(* exception: an asset whose lots no longer stand in the order in which    *)
(* they were opened, since it sees the last lot and a fill closes the      *)
(* oldest.                                                                 *)
PaperAgreesWithItself ==
    \A r \in Reconcilers :
        venue = "paper" /\ run[r].sure =>
            Freezing(run[r].found) \cup Synced(run[r].found) \subseteq jumbled

(* From the freeze that answers an outage to the next good connection      *)
(* every asset of the universe that it reached stays frozen, except those  *)
(* a reconciliation thawed after it had repaired them, also during the     *)
(* outage.  It does not reach an asset whose write failed, and none when   *)
(* the profile cannot be read.                                             *)
OutageFreezeHolds ==
    ~flag /\ ~At("monitor", "freeze") => Universe \subseteq frozen \cup spared

(* An outage's freeze ends when the connection is back and stays, unless   *)
(* the recovery is denied or ended by an exception, or somebody has frozen *)
(* again: nothing retries a recovery.                                      *)
FreezeEnds ==
    ~flag /\ link ~>
        frozen \cap Universe = {} \/ foiled \/ ~link
=============================================================================
