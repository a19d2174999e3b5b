-------------------------- MODULE SafetyFreeze_proofs --------------------------
(***************************************************************************)
(* What freezes and reconciliations guarantee for any assets, prices and   *)
(* books of the broker, and any number of orders, outages and failures.    *)
(***************************************************************************)
EXTENDS SafetyFreeze, SequenceTheorems, FiniteSetTheorems, WellFoundedInduction, TLAPS

All == Assets \cup {"PORTFOLIO"}

Steps == {"idle", "freeze", "cash", "book", "compare", "repair", "save", "thaw",
          "again", "lift"}

Rows == Seq(Row)
Accounts == [rows : [Assets -> Rows], cash : Nat]

Runs == [step : Steps, scope : SUBSET All, cash : Nat, book : [Assets -> Entry],
         found : SUBSET (Kinds \X All), copy : Seq(Accounts), sure : BOOLEAN]

(* The open lots of an asset are the last ones it opened, all long or all  *)
(* short, and stand in the order of their dates: what both the comparison, *)
(* which looks at the last, and the venue, which closes the oldest, rely   *)
(* on.                                                                     *)
Neat(s) ==
    \A i, j \in 1..Len(s) :
        i < j /\ s[i].open =>
            /\ s[j].open
            /\ s[i].at <= s[j].at
            /\ Sign(s[i].qty) = Sign(s[j].qty)

------------------------------------------------------------------------------
(* Lots *)

LEMMA OpenedOK ==
    ASSUME NEW q \in Int, q # 0, NEW p \in Nat, NEW t \in Nat
    PROVE  Opened(q, p, t) \in Row /\ Opened(q, p, t).open
  BY DEF Opened, Row

LEMMA ClosedRow == Closed \in Row /\ ~Closed.open
  BY DEF Closed, Row

LEMMA LastOK ==
    ASSUME NEW s \in Rows, s # <<>>
    PROVE  Len(s) \in 1..Len(s) /\ Last(s) = s[Len(s)] /\ s[Len(s)] \in Row
  <1>1. Len(s) \in Nat \ {0}
    BY EmptySeq DEF Rows
  <1> QED
    BY <1>1, ElementOfSeq DEF Rows, Last

LEMMA LocalOfOK == ASSUME NEW s \in Rows PROVE LocalOf(s) \in Row
  <1>1. CASE s = <<>>
    BY <1>1, ClosedRow DEF LocalOf
  <1>2. CASE s # <<>>
    BY <1>2, LastOK DEF LocalOf
  <1> QED
    BY <1>1, <1>2

(* The paper venue and the comparison see the same lot.                    *)
LEMMA SameLot ==
    ASSUME NEW s \in Rows, Neat(s)
    PROVE  IF OpenRows(s) = {} THEN ~LocalOf(s).open
           ELSE LocalOf(s).open /\ s[Greatest(OpenRows(s))] = LocalOf(s)
  <1>1. DOMAIN s = 1..Len(s) /\ Len(s) \in Nat
    BY LenProperties DEF Rows
  <1>2. CASE OpenRows(s) = {}
    <2>1. s # <<>> => ~Last(s).open
      BY <1>1, <1>2, LastOK DEF OpenRows
    <2> QED
      BY <1>2, <2>1, ClosedRow DEF LocalOf
  <1>3. CASE OpenRows(s) # {}
    <2>1. PICK i \in 1..Len(s) : s[i].open
      BY <1>1, <1>3 DEF OpenRows
    <2>2. s # <<>>
      BY <1>1, <2>1, EmptySeq
    <2>3. s[Len(s)].open
      <3>1. CASE i = Len(s)
        BY <2>1, <3>1
      <3>2. CASE i < Len(s)
        BY <1>1, <2>1, <3>2 DEF Neat
      <3>3. i = Len(s) \/ i < Len(s)
        <4>1. Len(s) \in Nat
          BY <1>1
        <4> QED
          BY <2>1, <4>1
      <3> QED
        BY <3>1, <3>2, <3>3, Zenon
    <2>4. Len(s) \in OpenRows(s) /\ \A j \in OpenRows(s) : j \in Int /\ j <= Len(s)
      BY <1>1, <2>1, <2>3 DEF OpenRows
    <2>5. Greatest(OpenRows(s)) = Len(s)
      <3> DEFINE g == Greatest(OpenRows(s))
      <3>1. g \in OpenRows(s) /\ \A j \in OpenRows(s) : j <= g
        BY <2>4 DEF Greatest
      <3> QED
        BY <2>4, <3>1
    <2>6. LocalOf(s) = s[Len(s)]
      BY <2>2, LastOK DEF LocalOf
    <2> QED
      BY <1>3, <2>3, <2>5, <2>6
  <1> QED
    BY <1>2, <1>3

LEMMA AppendRows ==
    ASSUME NEW s \in Rows, NEW e \in Row
    PROVE  Append(s, e) \in Rows
  BY DEF Rows

LEMMA AppendNeat ==
    ASSUME NEW s \in Rows, Neat(s), NEW e \in Row, e.open,
           \A i \in OpenRows(s) : s[i].at <= e.at /\ Sign(s[i].qty) = Sign(e.qty)
    PROVE  Neat(Append(s, e))
  <1> DEFINE t == Append(s, e)
  <1>1. /\ Len(t) = Len(s) + 1 /\ t[Len(s) + 1] = e
        /\ \A i \in 1..Len(s) : t[i] = s[i]
    BY DEF Rows
  <1>2. Len(s) \in Nat /\ DOMAIN s = 1..Len(s)
    BY LenProperties DEF Rows
  <1> HIDE DEF t
  <1>3. SUFFICES ASSUME NEW i \in 1..Len(t), NEW j \in 1..Len(t), i < j, t[i].open
                 PROVE  t[j].open /\ t[i].at <= t[j].at /\ Sign(t[i].qty) = Sign(t[j].qty)
    BY DEF Neat, t
  <1>4. i \in 1..Len(s) /\ t[i] = s[i]
    BY <1>1, <1>2, <1>3
  <1>5. CASE j = Len(s) + 1
    <2>1. i \in OpenRows(s) /\ t[j] = e
      BY <1>1, <1>2, <1>3, <1>4, <1>5 DEF OpenRows
    <2> QED
      BY <1>4, <2>1
  <1>6. CASE j \in 1..Len(s)
    BY <1>1, <1>3, <1>4, <1>6 DEF Neat
  <1> QED
    BY <1>1, <1>2, <1>5, <1>6

(* A map over the lots. *)
LEMMA MapOK ==
    ASSUME NEW s \in Rows, NEW t, DOMAIN t = DOMAIN s,
           t = [i \in DOMAIN s |-> t[i]],
           \A i \in DOMAIN s : t[i] \in Row
    PROVE  t \in Rows /\ Len(t) = Len(s)
  <1>1. DOMAIN s = 1..Len(s) /\ Len(s) \in Nat
    BY DEF Rows
  <1>2. t \in [1..Len(s) -> Row]
    BY <1>1
  <1>3. t \in Seq(Row)
    BY <1>1, <1>2, SeqDef
  <1> QED
    BY <1>1, <1>3, LenProperties DEF Rows

LEMMA CloseRows ==
    ASSUME NEW s \in Rows, NEW i \in OpenRows(s)
    PROVE  /\ [s EXCEPT ![i] = Closed] \in Rows
           /\ Neat(s) /\ (\A j \in OpenRows(s) : i <= j)
                 => Neat([s EXCEPT ![i] = Closed])
  <1> DEFINE t == [s EXCEPT ![i] = Closed]
  <1>1. DOMAIN s = 1..Len(s) /\ Len(s) \in Nat
    BY LenProperties DEF Rows
  <1>2. i \in 1..Len(s)
    BY <1>1 DEF OpenRows
  <1>3. /\ t \in Seq(Row) /\ Len(t) = Len(s)
        /\ \A j \in 1..Len(s) : t[j] = IF j = i THEN Closed ELSE s[j]
    BY <1>2, ClosedRow, ExceptSeq DEF Rows
  <1> HIDE DEF t
  <1>4. ASSUME Neat(s), \A j \in OpenRows(s) : i <= j PROVE Neat(t)
    <2>1. SUFFICES ASSUME NEW k \in 1..Len(s), NEW j \in 1..Len(s), k < j, t[k].open
                   PROVE  t[j].open /\ t[k].at <= t[j].at /\ Sign(t[k].qty) = Sign(t[j].qty)
      BY <1>3 DEF Neat
    <2>2. k # i /\ t[k] = s[k]
      BY <1>3, <2>1, ClosedRow
    <2>3. k \in OpenRows(s)
      BY <1>1, <2>1, <2>2 DEF OpenRows
    <2>4. i <= k
      BY <1>4, <2>3
    <2>5. j # i
      BY <1>2, <2>1, <2>4
    <2>6. t[j] = s[j]
      BY <1>3, <2>5
    <2> QED
      BY <1>4, <2>1, <2>2, <2>6 DEF Neat
  <1> QED
    BY <1>3, <1>4 DEF t, Rows

(* The oldest of the lots an order closes is the first open one. *)
LEMMA OldestFirst ==
    ASSUME NEW s \in Rows, Neat(s), NEW side, NEW i \in Opposite(s, side),
           \A j \in Opposite(s, side) : \/ s[i].at < s[j].at
                                        \/ (s[i].at = s[j].at /\ i <= j)
    PROVE  i \in OpenRows(s) /\ \A j \in OpenRows(s) : i <= j
  <1>1. DOMAIN s = 1..Len(s) /\ Len(s) \in Nat
    BY LenProperties DEF Rows
  <1>2. i \in OpenRows(s) /\ Sign(s[i].qty) # side /\ i \in 1..Len(s)
    BY <1>1 DEF Opposite, OpenRows
  <1>3. ASSUME NEW j \in OpenRows(s), ~(i <= j) PROVE FALSE
    <2>1. j \in 1..Len(s) /\ s[j].open /\ j < i
      BY <1>1, <1>2, <1>3 DEF OpenRows
    <2>2. s[j].at <= s[i].at /\ Sign(s[j].qty) = Sign(s[i].qty)
      BY <1>2, <2>1 DEF Neat
    <2>3. j \in Opposite(s, side)
      BY <1>2, <1>3, <2>2 DEF Opposite
    <2>4. s[i].at < s[j].at \/ (s[i].at = s[j].at /\ i <= j)
      BY <2>3
    <2>5. s[i].at \in Nat /\ s[j].at \in Nat
      BY <1>2, <2>1, ElementOfSeq DEF Rows, Row
    <2> QED
      BY <1>3, <2>2, <2>4, <2>5
  <1> QED
    BY <1>2, <1>3

(* The repair of an asset's lots. *)
LEMMA RepairedOK ==
    ASSUME NEW s \in Rows, NEW ks, NEW b \in Entry, NEW now \in Nat,
           ks \cap ({"PHANTOM"} \cup Mismatch) # {} => b.qty # 0
    PROVE  /\ Repaired(s, ks, b, now) \in Rows
           /\ Neat(s) /\ ("PHANTOM" \in ks => OpenRows(s) = {})
                 => Neat(Repaired(s, ks, b, now))
  <1> DEFINE t == Repaired(s, ks, b, now)
  <1>1. DOMAIN s = 1..Len(s) /\ Len(s) \in Nat /\ \A i \in DOMAIN s : s[i] \in Row
    BY LenProperties, ElementOfSeq DEF Rows
  <1>b. b.qty \in Int /\ b.price \in Nat
    BY DEF Entry
  <1>2. CASE "PHANTOM" \in ks
    <2> DEFINE e == Opened(b.qty, b.price, now)
    <2>1. t = Append(s, e)
      BY <1>2 DEF Repaired
    <2>2. e \in Row /\ e.open
      BY <1>2, <1>b, OpenedOK
    <2> HIDE DEF e
    <2>3. Append(s, e) \in Rows
      BY <2>2, AppendRows
    <2>4. Neat(s) /\ OpenRows(s) = {} => Neat(Append(s, e))
      BY <2>2, AppendNeat
    <2> QED
      BY <1>2, <2>1, <2>3, <2>4
  <1>3. CASE "PHANTOM" \notin ks /\ "MISSING" \in ks
    <2>1. t = [i \in DOMAIN s |-> Closed]
      BY <1>3 DEF Repaired
    <2>2. \A i \in DOMAIN s : t[i] = Closed
      BY <2>1
    <2> HIDE DEF t
    <2>3. t \in Rows /\ Len(t) = Len(s)
      BY <2>1, <2>2, ClosedRow, MapOK
    <2>4. Neat(t)
      BY <1>1, <2>2, <2>3, ClosedRow DEF Neat
    <2> QED
      BY <2>3, <2>4 DEF t
  <1>4. CASE "PHANTOM" \notin ks /\ "MISSING" \notin ks /\ ks \cap Mismatch # {}
    <2> DEFINE L(i) == Opened(Sign(s[i].qty) * Abs(b.qty), b.price, s[i].at)
    <2>1. t = [i \in DOMAIN s |-> IF s[i].open THEN L(i) ELSE s[i]]
      BY <1>4 DEF Repaired
    <2>2. ASSUME NEW i \in DOMAIN s
          PROVE  /\ t[i] \in Row /\ t[i].open = s[i].open
                 /\ s[i].open => t[i].at = s[i].at /\ Sign(t[i].qty) = Sign(s[i].qty)
      <3>1. CASE s[i].open
        <4>1. b.qty \in Int /\ b.qty # 0
          BY <1>4, <1>b
        <4>2. Abs(b.qty) \in Int /\ Abs(b.qty) > 0
          BY <4>1 DEF Abs
        <4>3. s[i] \in Row /\ s[i].qty \in Int /\ s[i].at \in Nat
          BY <1>1 DEF Row
        <4> DEFINE q == Sign(s[i].qty) * Abs(b.qty)
        <4>4. q \in Int /\ q # 0 /\ Sign(q) = Sign(s[i].qty)
          <5>1. CASE s[i].qty < 0
            BY <4>2, <4>3, <5>1 DEF Sign
          <5>2. CASE ~(s[i].qty < 0)
            BY <4>2, <4>3, <5>2 DEF Sign
          <5> QED
            BY <5>1, <5>2
        <4>5. t[i] = Opened(q, b.price, s[i].at)
          BY <2>1, <3>1
        <4> HIDE DEF q, t
        <4>6. t[i] \in Row /\ t[i].open /\ t[i].at = s[i].at /\ t[i].qty = q
          BY <4>3, <4>4, <4>5, <1>b, OpenedOK DEF Opened
        <4>7. t[i].open = s[i].open
          BY <3>1, <4>3, <4>6 DEF Row
        <4> QED
          BY <4>4, <4>6, <4>7
      <3>2. CASE ~s[i].open
        BY <1>1, <2>1, <3>2
      <3> QED
        BY <3>1, <3>2
    <2>3. DOMAIN t = DOMAIN s /\ t = [i \in DOMAIN s |-> t[i]]
      BY <2>1
    <2> HIDE DEF t
    <2>4. t \in Rows /\ Len(t) = Len(s)
      BY <2>2, <2>3, MapOK
    <2>5. Neat(s) => Neat(t)
      BY <1>1, <2>2, <2>4 DEF Neat
    <2> QED
      BY <2>4, <2>5 DEF t
  <1>5. CASE "PHANTOM" \notin ks /\ "MISSING" \notin ks /\ ks \cap Mismatch = {}
    BY <1>5 DEF Repaired
  <1> QED
    BY <1>2, <1>3, <1>4, <1>5

------------------------------------------------------------------------------
(* Differences *)

Positional == {"MISSING", "PHANTOM"} \cup Mismatch

LEMMA KindOK ==
    ASSUME NEW b \in Entry, NEW l \in Row
    PROVE  /\ Kind(b, l) \subseteq Positional
           /\ Kind(b, l) = {} <=>
                  IF b.qty = 0 THEN ~l.open
                  ELSE l.open /\ l.qty = b.qty /\ l.price = b.price
           /\ Kind(b, l) \cap ({"PHANTOM"} \cup Mismatch) # {} => b.qty # 0
  <1>1. /\ b.qty \in Int /\ b.price \in Nat /\ l.qty \in Int /\ l.price \in Nat
        /\ l.open <=> l.qty # 0
    BY DEF Entry, Row
  <1>2. CASE b.qty = 0
    BY <1>2 DEF Kind, Positional, Mismatch
  <1>3. CASE b.qty # 0 /\ ~l.open
    BY <1>3 DEF Kind, Positional, Mismatch
  <1>4. CASE b.qty # 0 /\ l.open
    <2> DEFINE K == {k \in {"DIRECTION", "QUANTITY", "PRICE", "FAR"} :
                       \/ k = "DIRECTION" /\ Sign(b.qty) # Sign(l.qty)
                       \/ k = "QUANTITY" /\ Abs(b.qty) # Abs(l.qty)
                       \/ k = "PRICE" /\ b.price # l.price /\ ~Far(b, l)
                       \/ k = "FAR" /\ Far(b, l)}
    <2>1. Kind(b, l) = K
      BY <1>4 DEF Kind
    <2>2. Kind(b, l) \subseteq Positional
      BY <2>1 DEF Positional, Mismatch
    <2>3. K = {} <=> /\ Sign(b.qty) = Sign(l.qty) /\ Abs(b.qty) = Abs(l.qty)
                     /\ b.price = l.price \/ Far(b, l)
                     /\ ~Far(b, l)
      OBVIOUS
    <2>4. b.price = l.price => ~Far(b, l)
      BY <1>1 DEF Far, Abs
    <2>5. Sign(b.qty) = Sign(l.qty) /\ Abs(b.qty) = Abs(l.qty) <=> l.qty = b.qty
      BY <1>1, <1>4 DEF Sign, Abs
    <2>6. Kind(b, l) = {} <=> l.qty = b.qty /\ l.price = b.price
      <3> HIDE DEF K
      <3> QED
        BY <2>1, <2>3, <2>4, <2>5
    <2> QED
      BY <1>4, <2>2, <2>6
  <1> QED
    BY <1>2, <1>3, <1>4

------------------------------------------------------------------------------
(* A reconciliation is well formed: it has discrepancies exactly while it  *)
(* repairs them, a copy of the account exactly until it saves it; what it  *)
(* repairs are assets, and a discrepancy that gives a lot a quantity gives *)
(* it one other than zero.                                                 *)
Working == {"repair", "save", "thaw", "again"}

FoundOK(ds, book) ==
    /\ ds \subseteq Kinds \X All
    /\ \A d \in ds :
           /\ d[1] \in Positional => d[2] \in Assets
           /\ d[1] \in {"PHANTOM"} \cup Mismatch => book[d[2]].qty # 0

RunOK(x) ==
    /\ x \in Runs
    /\ x.found # {} <=> x.step \in Working
    /\ FoundOK(x.found, x.book)
    /\ x.step = "save" <=> x.copy # <<>>

RunsOK ==
    /\ run \in [Reconcilers -> Runs]
    /\ \A r \in Reconcilers : RunOK(run[r])
    /\ run["monitor"].scope = All
    /\ run["request"].step \notin {"freeze", "lift"}

VarsOK ==
    /\ venue \in {"paper", "kite"}
    /\ link \in BOOLEAN /\ flag \in BOOLEAN /\ foiled \in BOOLEAN
    /\ rows \in [Assets -> Rows] /\ cash \in Nat /\ kite \in [Assets -> Entry]
    /\ traded \subseteq Assets /\ flight \subseteq Order
    /\ frozen \subseteq All /\ spared \subseteq Assets /\ jumbled \subseteq Assets
    /\ downs \in 0 .. FreezeAfter /\ ups \in 0 .. RecoverAfter
    /\ events \in 0 .. MaxEvents /\ orders \in Nat /\ orders <= events

LotsOK == \A a \in Assets \ jumbled : Neat(rows[a])

(* A copy keeps the lots in order.  What a reconciliation in which nothing *)
(* failed and nothing changed has seen of Kite still holds, and of the     *)
(* paper venue until it compares; it finds nothing there to repair.        *)
Copied(x) == x.copy # <<>> => \A a \in Assets \ jumbled : Neat(Head(x.copy).rows[a])

Sees(x) ==
    /\ Copied(x)
    /\ x.sure =>
          /\ \/ x.step \in {"book", "compare"}
             \/ venue = "kite" /\ x.step \notin {"idle", "freeze", "cash"}
             => x.cash = BrokerCash
          /\ \/ x.step = "compare"
             \/ venue = "kite" /\ x.step \notin {"idle", "freeze", "cash", "book"}
             => x.book = BrokerBook
          /\ venue = "paper" => Freezing(x.found) \cup Synced(x.found) \subseteq jumbled

Views == \A r \in Reconcilers : Sees(run[r])

LiftAgrees ==
    run["monitor"].step = "lift" /\ run["monitor"].sure =>
        /\ run["monitor"].cash = cash
        /\ \A a \in Assets : Kind(run["monitor"].book[a], LocalOf(rows[a])) = {}

(* The monitor's flag and where the monitor is. *)
FlagAgrees ==
    /\ run["monitor"].step \notin {"idle", "freeze"} => flag
    /\ run["monitor"].step = "freeze" => ~flag

FreezeInv ==
    /\ VarsOK /\ RunsOK
    /\ LotsOK /\ Views
    /\ LiftAgrees /\ FlagAgrees /\ OutageFreezeHolds

------------------------------------------------------------------------------
(* Runs *)

LEMMA SetField ==
    ASSUME NEW x \in Runs
    PROVE  /\ \A v \in Steps : [x EXCEPT !.step = v] \in Runs
           /\ \A v \in SUBSET All : [x EXCEPT !.scope = v] \in Runs
           /\ \A v \in Nat : [x EXCEPT !.cash = v] \in Runs
           /\ \A v \in [Assets -> Entry] : [x EXCEPT !.book = v] \in Runs
           /\ \A v \in SUBSET (Kinds \X All) : [x EXCEPT !.found = v] \in Runs
           /\ \A v \in Seq(Accounts) : [x EXCEPT !.copy = v] \in Runs
           /\ \A v \in BOOLEAN : [x EXCEPT !.sure = v] \in Runs
  <1>1. \A v \in Steps : [x EXCEPT !.step = v] \in Runs
    BY DEF Runs
  <1>2. \A v \in SUBSET All : [x EXCEPT !.scope = v] \in Runs
    BY DEF Runs
  <1>3. \A v \in Nat : [x EXCEPT !.cash = v] \in Runs
    BY DEF Runs
  <1>4. \A v \in [Assets -> Entry] : [x EXCEPT !.book = v] \in Runs
    BY DEF Runs
  <1>5. \A v \in SUBSET (Kinds \X All) : [x EXCEPT !.found = v] \in Runs
    BY DEF Runs
  <1>6. \A v \in Seq(Accounts) : [x EXCEPT !.copy = v] \in Runs
    BY DEF Runs
  <1>7. \A v \in BOOLEAN : [x EXCEPT !.sure = v] \in Runs
    BY DEF Runs
  <1> QED
    BY <1>1, <1>2, <1>3, <1>4, <1>5, <1>6, <1>7

LEMMA NoBook == NoRun.book \in [Assets -> Entry] /\ \A a \in Assets : NoRun.book[a] = Nothing
  BY DEF NoRun, Nothing, Entry

LEMMA NoRunOK ==
    /\ RunOK(NoRun) /\ Sees(NoRun)
    /\ NoRun.step = "idle" /\ NoRun.scope = All
  <1>1. NoRun \in Runs
    <2>1. NoRun.book \in [Assets -> Entry]
      BY NoBook
    <2> DEFINE b == [a \in Assets |-> Nothing]
    <2>2. NoRun = [step |-> "idle", scope |-> All, cash |-> 0, book |-> b,
                   found |-> {}, copy |-> <<>>, sure |-> TRUE]
      BY DEF NoRun, All
    <2>3. <<>> \in Seq(Accounts) /\ {} \in SUBSET (Kinds \X All) /\ "idle" \in Steps
      BY DEF Steps
    <2>4. b \in [Assets -> Entry]
      BY DEF Nothing, Entry
    <2> HIDE DEF b
    <2> QED
      BY <2>2, <2>3, <2>4 DEF Runs
  <1>2. /\ NoRun.step = "idle" /\ NoRun.scope = All /\ NoRun.found = {}
        /\ NoRun.copy = <<>>
    BY DEF NoRun, All
  <1> QED
    BY <1>1, <1>2 DEF RunOK, FoundOK, Working, Sees, Copied, Freezing, Synced

(* One thread's run becomes y. *)
LEMMA Advances ==
    ASSUME RunsOK, NEW r \in Reconcilers, NEW y, RunOK(y),
           r = "monitor" => y.scope = All,
           r = "request" => y.step \notin {"freeze", "lift"},
           run' = [run EXCEPT ![r] = y]
    PROVE  RunsOK'
  <1>1. y \in Runs
    BY DEF RunOK
  <1>2. run' \in [Reconcilers -> Runs]
    BY <1>1 DEF RunsOK
  <1>3. \A t \in Reconcilers : RunOK(run'[t])
    BY DEF RunsOK
  <1>4. run'["monitor"].scope = All /\ run'["request"].step \notin {"freeze", "lift"}
    BY DEF RunsOK, Reconcilers
  <1> QED
    BY <1>2, <1>3, <1>4 DEF RunsOK

(* What was seen still holds while the books stand still. *)
LEMMA SeesOn ==
    ASSUME NEW y, Sees(y), UNCHANGED <<venue, cash, rows, kite>>, jumbled \subseteq jumbled'
    PROVE  Sees(y)'
  <1>1. BrokerCash' = BrokerCash /\ BrokerBook' = BrokerBook
    BY DEF BrokerCash, BrokerBook, PaperBook, OpenRows
  <1> QED
    BY <1>1 DEF Sees, Copied

LEMMA Keeps ==
    ASSUME RunsOK, Views, NEW r \in Reconcilers, NEW y, Sees(y)',
           run' = [run EXCEPT ![r] = y],
           UNCHANGED <<venue, cash, rows, kite>>, jumbled \subseteq jumbled'
    PROVE  Views'
  <1>1. SUFFICES ASSUME NEW t \in Reconcilers PROVE Sees(run[t])'
    BY DEF Views
  <1>2. run'[t] = (IF t = r THEN y ELSE run[t])
    BY DEF RunsOK
  <1>3. Sees(y)' /\ Sees(run[t])
    BY DEF Views
  <1>4. CASE t = r
    BY <1>2, <1>3, <1>4 DEF Sees, Copied
  <1>5. CASE t # r
    <2> DEFINE x == run[t]
    <2>1. Sees(x)
      BY <1>3
    <2>2. PICK z : z = run[t]
      OBVIOUS
    <2>3. Sees(z)
      BY <1>3, <2>2
    <2>4. BrokerCash' = BrokerCash /\ BrokerBook' = BrokerBook
      BY DEF BrokerCash, BrokerBook, PaperBook, OpenRows
    <2>5. run'[t] = run[t]
      BY <1>2, <1>5
    <2> QED
      BY <2>1, <2>4, <2>5 DEF Sees, Copied
  <1> QED
    BY <1>4, <1>5

(* The books change under the others' reconciliations. *)
LEMMA DisturbedOK ==
    ASSUME RunsOK, NEW S \in SUBSET Reconcilers
    PROVE  /\ Disturbed(S) \in [Reconcilers -> Runs]
           /\ \A r \in Reconcilers :
                  /\ Disturbed(S)[r].step = run[r].step
                  /\ Disturbed(S)[r].scope = run[r].scope
                  /\ Disturbed(S)[r].found = run[r].found
                  /\ Disturbed(S)[r].copy = run[r].copy
                  /\ r \in S /\ run[r].step # "idle" => Disturbed(S)[r].sure = FALSE
                  /\ r \notin S \/ run[r].step = "idle" => Disturbed(S)[r] = run[r]
                  /\ RunOK(Disturbed(S)[r])
  <1>1. ASSUME NEW r \in Reconcilers
        PROVE  /\ Disturbed(S)[r] \in Runs
               /\ Disturbed(S)[r].step = run[r].step
               /\ Disturbed(S)[r].scope = run[r].scope
               /\ Disturbed(S)[r].found = run[r].found
               /\ Disturbed(S)[r].copy = run[r].copy
               /\ r \in S /\ run[r].step # "idle" => Disturbed(S)[r].sure = FALSE
               /\ r \notin S \/ run[r].step = "idle" => Disturbed(S)[r] = run[r]
               /\ RunOK(Disturbed(S)[r])
    <2>1. run[r] \in Runs /\ RunOK(run[r])
      BY DEF RunsOK
    <2> DEFINE y == [run[r] EXCEPT !.sure = FALSE]
    <2>2. y \in Runs
      BY <2>1, SetField
    <2>3. /\ y.step = run[r].step /\ y.scope = run[r].scope /\ y.found = run[r].found
          /\ y.book = run[r].book /\ y.copy = run[r].copy /\ y.sure = FALSE
      BY <2>1 DEF Runs
    <2> HIDE DEF y
    <2>4. RunOK(y)
      BY <2>1, <2>2, <2>3 DEF RunOK
    <2>5. Disturbed(S)[r] = IF r \in S /\ run[r].step # "idle" THEN y ELSE run[r]
      BY DEF Disturbed, y, At
    <2> QED
      BY <2>1, <2>2, <2>3, <2>4, <2>5
  <1>2. Disturbed(S) \in [Reconcilers -> Runs]
    BY <1>1 DEF Disturbed
  <1> QED
    BY <1>1, <1>2

(* Nothing but the monitor can be about to lift, and only the account      *)
(* decides whether what it saw still agrees.                               *)
LEMMA LiftKept ==
    ASSUME LiftAgrees, UNCHANGED <<cash, rows>>,
           \/ run'["monitor"] = run["monitor"]
           \/ run'["monitor"].step # "lift"
    PROVE  LiftAgrees'
  BY DEF LiftAgrees

(* Steps of a reconciliation that leave the account and the books alone. *)
LEMMA OnlyRun ==
    ASSUME RunsOK, Views, LiftAgrees, NEW r \in Reconcilers, NEW y, RunOK(y), Sees(y)',
           y.scope = run[r].scope \/ (r = "monitor" => y.scope = All),
           r = "request" => y.step \notin {"freeze", "lift"},
           r = "monitor" => y.step # "lift",
           run' = [run EXCEPT ![r] = y],
           UNCHANGED <<venue, cash, rows, kite>>, jumbled \subseteq jumbled'
    PROVE  /\ RunsOK' /\ Views' /\ LiftAgrees'
           /\ run'["monitor"].step = IF r = "monitor" THEN y.step ELSE run["monitor"].step
  <1>1. RunsOK' /\ Views'
    <2>1. r = "monitor" => y.scope = All
      BY DEF RunsOK
    <2> QED
      BY <2>1, Advances, Keeps
  <1>2. run'["monitor"] = IF r = "monitor" THEN y ELSE run["monitor"]
    BY DEF RunsOK, Reconcilers
  <1>3. LiftAgrees'
    BY <1>2, LiftKept
  <1> QED
    BY <1>1, <1>2, <1>3

LEMMA GotoOK ==
    ASSUME RunsOK, Views, LiftAgrees, NEW r \in Reconcilers, NEW s \in Steps \ {"lift"},
           s \in Working <=> run[r].step \in Working,
           "save" \notin {s, run[r].step},
           s \in {"idle", "freeze", "cash"}
               \/ run[r].step \notin {"idle", "freeze", "cash", "book"},
           s \notin {"book", "compare"},
           r = "request" => s \notin {"freeze", "lift"},
           Goto(r, s), UNCHANGED <<venue, cash, rows, kite>>, jumbled' = jumbled
    PROVE  /\ RunsOK' /\ Views' /\ LiftAgrees'
           /\ run'["monitor"].step = IF r = "monitor" THEN s ELSE run["monitor"].step
  <1> DEFINE y == [run[r] EXCEPT !.step = s]
  <1>1. run[r] \in Runs /\ RunOK(run[r]) /\ Sees(run[r])
    BY DEF RunsOK, Views
  <1>2. y \in Runs
    BY <1>1, SetField
  <1>3. /\ y.step = s /\ y.scope = run[r].scope /\ y.cash = run[r].cash
        /\ y.book = run[r].book /\ y.found = run[r].found /\ y.copy = run[r].copy
        /\ y.sure = run[r].sure
    BY <1>1 DEF Runs
  <1>4. run' = [run EXCEPT ![r] = y]
    BY DEF Goto
  <1> HIDE DEF y
  <1>5. RunOK(y)
    BY <1>1, <1>2, <1>3 DEF RunOK
  <1>6. Sees(y)
    BY <1>1, <1>3 DEF Sees, Copied
  <1>7. PICK z : z = y
    OBVIOUS
  <1>8. Sees(z)' /\ RunOK(z) /\ z.step = s /\ z.scope = run[r].scope
        /\ run' = [run EXCEPT ![r] = z]
    BY <1>3, <1>4, <1>5, <1>6, <1>7, SeesOn
  <1>9. RunsOK' /\ Views' /\ LiftAgrees'
        /\ run'["monitor"].step = IF r = "monitor" THEN z.step ELSE run["monitor"].step
    BY <1>8, OnlyRun
  <1> QED
    BY <1>8, <1>9

(* The books change: no reconciliation under way is sure any more. *)
LEMMA DisturbedViews ==
    ASSUME RunsOK, Views, run' = Disturbed(Reconcilers), venue' = venue,
           jumbled \subseteq jumbled'
    PROVE  /\ RunsOK' /\ Views' /\ LiftAgrees'
           /\ \A r \in Reconcilers : run'[r].step = run[r].step
  <1>1. /\ run' \in [Reconcilers -> Runs]
        /\ \A r \in Reconcilers :
              /\ run'[r].step = run[r].step /\ run'[r].scope = run[r].scope
              /\ run'[r].found = run[r].found /\ run'[r].copy = run[r].copy
              /\ RunOK(run'[r])
              /\ run[r].step # "idle" => run'[r].sure = FALSE
    BY DisturbedOK
  <1>2. RunsOK'
    BY <1>1 DEF RunsOK, Reconcilers
  <1>3. Views'
    <2> SUFFICES ASSUME NEW r \in Reconcilers PROVE Sees(run[r])'
      BY DEF Views
    <2>1. Copied(run[r])'
      BY <1>1 DEF Views, Sees, Copied
    <2>2. CASE run[r].step # "idle"
      BY <1>1, <2>1, <2>2 DEF Sees
    <2>3. CASE run[r].step = "idle"
      <3>1. run'[r].found = {} /\ run'[r].step = "idle"
        BY <1>1, <2>3 DEF RunsOK, RunOK, Working
      <3> QED
        BY <2>1, <3>1 DEF Sees, Freezing, Synced
    <2> QED
      BY <2>2, <2>3
  <1>4. LiftAgrees'
    BY <1>1 DEF LiftAgrees, Reconcilers
  <1> QED
    BY <1>1, <1>2, <1>3, <1>4

(* Freezes and counters do not matter to what was seen. *)
LEMMA Still ==
    ASSUME RunsOK, LotsOK, Views, LiftAgrees,
           UNCHANGED <<venue, cash, rows, kite, run, jumbled>>
    PROVE  RunsOK' /\ LotsOK' /\ Views' /\ LiftAgrees'
  <1>1. RunsOK' /\ LotsOK' /\ LiftAgrees'
    BY LiftKept DEF RunsOK, LotsOK
  <1>2. BrokerCash' = BrokerCash /\ BrokerBook' = BrokerBook
    BY DEF BrokerCash, BrokerBook, PaperBook, OpenRows
  <1>3. ASSUME NEW r \in Reconcilers PROVE Sees(run[r])'
    <2>1. Sees(run[r])
      BY DEF Views
    <2> QED
      BY <1>2, <2>1 DEF Sees, Copied
  <1> QED
    BY <1>1, <1>3 DEF Views

(* Bounds *)
LEMMA Counts ==
    ASSUME VarsOK, Event \/ UNCHANGED events, orders' = orders
    PROVE  events' \in 0 .. MaxEvents /\ orders' \in Nat /\ orders' <= events'
  BY FreezeAssumption DEF VarsOK, Event

------------------------------------------------------------------------------
(* Steps *)

LEMMA InitOK == Init => FreezeInv
  <1> SUFFICES ASSUME Init PROVE FreezeInv
    OBVIOUS
  <1>1. VarsOK
    <2>1. rows \in [Assets -> Rows] /\ cash \in Nat
      BY DEF Init, Rows
    <2>2. kite \in [Assets -> Entry]
      BY NoBook DEF Init
    <2>3. downs \in 0 .. FreezeAfter /\ ups \in 0 .. RecoverAfter
      BY FreezeAssumption DEF Init
    <2>4. events \in 0 .. MaxEvents /\ orders \in Nat /\ orders <= events
      BY FreezeAssumption DEF Init
    <2>5. link \in BOOLEAN /\ flag \in BOOLEAN /\ foiled \in BOOLEAN
      BY Zenon DEF Init
    <2> QED
      BY <2>1, <2>2, <2>3, <2>4, <2>5 DEF Init, VarsOK
  <1>2. RunsOK /\ Views
    <2>1. NoRun \in Runs
      BY NoRunOK DEF RunOK
    <2>2. \A r \in Reconcilers : run[r] = NoRun
      BY DEF Init
    <2>3. run \in [Reconcilers -> Runs]
      BY <2>1 DEF Init
    <2>4. \A r \in Reconcilers : RunOK(run[r]) /\ Sees(run[r])
      BY <2>2, NoRunOK
    <2>5. run["monitor"] = NoRun /\ run["request"] = NoRun
      BY <2>2 DEF Reconcilers
    <2>6. run["monitor"].scope = All /\ run["request"].step \notin {"freeze", "lift"}
      BY <2>5, NoRunOK
    <2> QED
      BY <2>3, <2>4, <2>6 DEF RunsOK, Views
  <1>3. LotsOK
    BY DEF Init, LotsOK, Neat
  <1>4. run["monitor"].step = "idle"
    BY NoRunOK DEF Init, Reconcilers
  <1>5. LiftAgrees /\ FlagAgrees
    BY <1>4 DEF LiftAgrees, FlagAgrees
  <1>6. OutageFreezeHolds
    BY DEF Init, OutageFreezeHolds
  <1> QED
    BY <1>1, <1>2, <1>3, <1>5, <1>6 DEF FreezeInv

LEMMA MonitorDownOK == FreezeInv /\ MonitorDown => FreezeInv'
  <1> SUFFICES ASSUME FreezeInv, MonitorDown PROVE FreezeInv'
    OBVIOUS
  <1> USE DEF FreezeInv
  <1> DEFINE s == IF flag /\ ~flag' THEN "freeze" ELSE "idle"
  <1>1. VarsOK'
    <2>1. ups' \in 0..RecoverAfter /\ downs' \in 0..FreezeAfter
      BY FreezeAssumption DEF MonitorDown, VarsOK, Least
    <2>2. flag' \in BOOLEAN
      BY DEF MonitorDown, VarsOK
    <2> QED
      BY <2>1, <2>2 DEF MonitorDown, VarsOK, bookVars, history, counts
  <1>2. "monitor" \in Reconcilers /\ s \in {"idle", "freeze"} /\ Goto("monitor", s)
    BY DEF MonitorDown, Reconcilers
  <1>3. /\ run["monitor"].step = "idle"
        /\ UNCHANGED <<venue, cash, rows, kite, frozen, spared, jumbled>>
    BY DEF MonitorDown, bookVars, history, At
  <1>4. /\ RunsOK' /\ Views' /\ LiftAgrees' /\ run'["monitor"].step = s
    BY <1>2, <1>3, GotoOK DEF Steps, Working
  <1>5. LotsOK'
    BY <1>3 DEF LotsOK
  <1>6. FlagAgrees'
    BY <1>4 DEF FlagAgrees, VarsOK
  <1>7. OutageFreezeHolds'
    BY <1>3, <1>4 DEF OutageFreezeHolds, MonitorDown, At, VarsOK
  <1> QED
    BY <1>1, <1>4, <1>5, <1>6, <1>7

LEMMA MonitorUpOK == FreezeInv /\ MonitorUp => FreezeInv'
  <1> SUFFICES ASSUME FreezeInv, MonitorUp PROVE FreezeInv'
    OBVIOUS
  <1> USE DEF FreezeInv
  <1> DEFINE s == IF flag' /\ ~flag THEN "cash" ELSE "idle"
  <1>1. VarsOK'
    <2>1. ups' \in 0..RecoverAfter /\ downs' \in 0..FreezeAfter
      BY FreezeAssumption DEF MonitorUp, VarsOK, Least
    <2>2. flag' \in BOOLEAN /\ spared' \subseteq Assets
      BY DEF MonitorUp, VarsOK
    <2> QED
      BY <2>1, <2>2 DEF MonitorUp, VarsOK, bookVars, counts
  <1>2. "monitor" \in Reconcilers /\ s \in {"idle", "cash"} /\ Goto("monitor", s)
    BY DEF MonitorUp, Reconcilers
  <1>3. /\ run["monitor"].step = "idle"
        /\ UNCHANGED <<venue, cash, rows, kite, frozen, jumbled>>
    BY DEF MonitorUp, bookVars, At
  <1>4. /\ RunsOK' /\ Views' /\ LiftAgrees' /\ run'["monitor"].step = s
    BY <1>2, <1>3, GotoOK DEF Steps, Working
  <1>5. LotsOK'
    BY <1>3 DEF LotsOK
  <1>6. FlagAgrees'
    BY <1>4 DEF FlagAgrees, VarsOK
  <1>7. OutageFreezeHolds'
    BY <1>3, <1>4 DEF OutageFreezeHolds, MonitorUp, At, VarsOK
  <1> QED
    BY <1>1, <1>4, <1>5, <1>6, <1>7

(* What a freeze and a thaw do when writes may fail. *)
LEMMA FreezeOK ==
    ASSUME VarsOK, NEW S \in SUBSET All, Freeze(S)
    PROVE  /\ frozen \subseteq frozen' /\ frozen' \subseteq All
           /\ Event \/ UNCHANGED events
  BY DEF Freeze, Fault, VarsOK

LEMMA UnfreezeOK ==
    ASSUME VarsOK, NEW S, Unfreeze(S)
    PROVE  /\ frozen \ S \subseteq frozen' /\ frozen' \subseteq All
           /\ Event \/ UNCHANGED events
  BY DEF Unfreeze, Fault, VarsOK

LEMMA FreezeUniverseOK ==
    ASSUME VarsOK, FreezeUniverse
    PROVE  /\ frozen \subseteq frozen' /\ frozen' \subseteq All
           /\ Event \/ UNCHANGED events
  <1>1. CASE Freeze(Universe)
    <2>1. Universe \in SUBSET All
      BY FreezeAssumption DEF All
    <2> QED
      BY <1>1, <2>1, FreezeOK
  <1>2. CASE frozen' = frozen \cup {"PORTFOLIO"} /\ Fault(TRUE)
    BY <1>2 DEF Fault, VarsOK, All
  <1> QED
    BY <1>1, <1>2 DEF FreezeUniverse

LEMMA MonitorFreezeOK == FreezeInv /\ MonitorFreeze => FreezeInv'
  <1> SUFFICES ASSUME FreezeInv, MonitorFreeze PROVE FreezeInv'
    OBVIOUS
  <1> USE DEF FreezeInv
  <1>0. frozen' \subseteq All /\ (Event \/ UNCHANGED events)
    BY FreezeUniverseOK DEF MonitorFreeze
  <1>1. VarsOK'
    <2>1. events' \in 0 .. MaxEvents /\ orders' \in Nat /\ orders' <= events'
      BY <1>0, Counts DEF MonitorFreeze
    <2>2. spared' \subseteq Assets /\ foiled' \in BOOLEAN
      BY FreezeAssumption DEF MonitorFreeze
    <2> QED
      BY <1>0, <2>1, <2>2 DEF MonitorFreeze, VarsOK, bookVars, linkVars
  <1>2. "monitor" \in Reconcilers /\ Goto("monitor", "idle")
    BY DEF MonitorFreeze, Reconcilers
  <1>3. /\ run["monitor"].step = "freeze"
        /\ UNCHANGED <<venue, cash, rows, kite, jumbled>>
    BY DEF MonitorFreeze, bookVars, At
  <1>4. /\ RunsOK' /\ Views' /\ LiftAgrees' /\ run'["monitor"].step = "idle"
    BY <1>2, <1>3, GotoOK DEF Steps, Working
  <1>5. LotsOK'
    BY <1>3 DEF LotsOK
  <1>6. FlagAgrees'
    BY <1>4 DEF FlagAgrees
  <1>7. OutageFreezeHolds'
    BY DEF OutageFreezeHolds, MonitorFreeze
  <1> QED
    BY <1>1, <1>4, <1>5, <1>6, <1>7

LEMMA HealthFreezeOK == FreezeInv /\ HealthFreeze => FreezeInv'
  <1> SUFFICES ASSUME FreezeInv, HealthFreeze PROVE FreezeInv'
    OBVIOUS
  <1> USE DEF FreezeInv
  <1>1. UNCHANGED <<venue, cash, rows, kite, run, flag, jumbled, spared>>
    BY DEF HealthFreeze, bookVars, linkVars
  <1>2. frozen \subseteq frozen' /\ frozen' \subseteq All /\ (Event \/ UNCHANGED events)
    BY FreezeUniverseOK DEF HealthFreeze
  <1>3. VarsOK'
    <2>1. events' \in 0 .. MaxEvents /\ orders' \in Nat /\ orders' <= events'
      BY <1>2, Counts DEF HealthFreeze
    <2>2. foiled' \in BOOLEAN
      BY DEF HealthFreeze, VarsOK
    <2> QED
      BY <1>1, <1>2, <2>1, <2>2 DEF HealthFreeze, VarsOK, bookVars, linkVars
  <1>4. RunsOK' /\ LotsOK' /\ Views' /\ LiftAgrees'
    BY <1>1, Still
  <1>5. FlagAgrees' /\ OutageFreezeHolds'
    BY <1>1, <1>2 DEF FlagAgrees, OutageFreezeHolds, At
  <1> QED
    BY <1>3, <1>4, <1>5

LEMMA FlipOK == FreezeInv /\ Flip => FreezeInv'
  <1> SUFFICES ASSUME FreezeInv, Flip PROVE FreezeInv'
    OBVIOUS
  <1> USE DEF FreezeInv
  <1>1. UNCHANGED <<venue, cash, rows, kite, run, flag, frozen, jumbled, spared>>
    BY DEF Flip, bookVars, linkVars, history
  <1>2. VarsOK'
    <2>1. link' \in BOOLEAN
      BY DEF Flip, VarsOK
    <2>2. events' \in 0 .. MaxEvents /\ orders' \in Nat /\ orders' <= events'
      BY Counts DEF Flip
    <2> QED
      BY <2>1, <2>2 DEF Flip, VarsOK, bookVars, linkVars, history
  <1>3. RunsOK' /\ LotsOK' /\ Views' /\ LiftAgrees'
    BY <1>1, Still
  <1>4. FlagAgrees' /\ OutageFreezeHolds'
    BY <1>1 DEF FlagAgrees, OutageFreezeHolds, At
  <1> QED
    BY <1>2, <1>3, <1>4

LEMMA ExecuteOK == ASSUME NEW a \in Assets PROVE FreezeInv /\ Execute(a) => FreezeInv'
  <1> SUFFICES ASSUME FreezeInv, Execute(a) PROVE FreezeInv'
    OBVIOUS
  <1> USE DEF FreezeInv
  <1>1. UNCHANGED <<venue, cash, rows, kite, run, flag, frozen, jumbled, spared>>
    BY DEF Execute, linkVars, history
  <1>2. orders \in Nat /\ \A p \in Prices : p \in Nat
    BY FreezeAssumption DEF VarsOK
  <1>3. flight' \subseteq Order
    <2>1. PICK side \in {-1, 1}, p \in Prices :
             flight' = flight \cup {[asset |-> a, side |-> side, price |-> p,
                                     at |-> 2 * (orders + 1)]}
      BY DEF Execute
    <2>2. 2 * (orders + 1) \in Nat /\ p \in Nat
      BY <1>2
    <2> QED
      BY <2>1, <2>2 DEF Order, VarsOK
  <1>4. events' \in 0 .. MaxEvents /\ orders' \in Nat /\ orders' <= events'
    BY FreezeAssumption DEF Execute, VarsOK, Event
  <1>5. traded' \subseteq Assets
    BY DEF Execute, VarsOK
  <1>6. VarsOK'
    BY <1>1, <1>3, <1>4, <1>5 DEF Execute, VarsOK, linkVars, history
  <1>7. RunsOK' /\ LotsOK' /\ Views' /\ LiftAgrees'
    BY <1>1, Still
  <1>8. FlagAgrees' /\ OutageFreezeHolds'
    BY <1>1 DEF FlagAgrees, OutageFreezeHolds, At
  <1> QED
    BY <1>6, <1>7, <1>8

LEMMA LoseFillOK == ASSUME NEW o \in flight PROVE FreezeInv /\ LoseFill(o) => FreezeInv'
  <1> SUFFICES ASSUME FreezeInv, LoseFill(o) PROVE FreezeInv'
    OBVIOUS
  <1> USE DEF FreezeInv
  <1>1. UNCHANGED <<venue, cash, rows, kite, run, flag, frozen, jumbled, spared>>
    BY DEF LoseFill, linkVars, history
  <1>2. VarsOK'
    <2>1. events' \in 0 .. MaxEvents /\ orders' \in Nat /\ orders' <= events'
      BY Counts DEF LoseFill, Fault
    <2> QED
      BY <1>1, <2>1 DEF LoseFill, VarsOK, linkVars, history
  <1>3. RunsOK' /\ LotsOK' /\ Views' /\ LiftAgrees'
    BY <1>1, Still
  <1>4. FlagAgrees' /\ OutageFreezeHolds'
    BY <1>1 DEF FlagAgrees, OutageFreezeHolds, At
  <1> QED
    BY <1>2, <1>3, <1>4

LEMMA BookOK == ASSUME NEW o \in flight PROVE FreezeInv /\ Book(o) => FreezeInv'
  <1> SUFFICES ASSUME FreezeInv, Book(o) PROVE FreezeInv'
    OBVIOUS
  <1> USE DEF FreezeInv
  <1> DEFINE a == o.asset
             s == rows[a]
             e == Opened(o.side, o.price, o.at)
             opposite == Opposite(s, o.side)
  <1>1. o \in Order /\ a \in Assets /\ s \in Rows
    BY DEF VarsOK, Order
  <1>2. o.side \in {-1, 1} /\ o.price \in Nat /\ o.at \in Nat
    BY <1>1 DEF Order
  <1>3. jumbled \subseteq jumbled' /\ jumbled' \subseteq Assets
    BY <1>1 DEF Book, VarsOK
  <1>4. UNCHANGED <<venue, flag, frozen, spared>> /\ run' = Disturbed(Reconcilers)
    BY DEF Book, linkVars
  <1>5. RunsOK' /\ Views' /\ LiftAgrees' /\ \A r \in Reconcilers : run'[r].step = run[r].step
    BY <1>3, <1>4, DisturbedViews
  <1>6. FlagAgrees' /\ OutageFreezeHolds'
    BY <1>4, <1>5 DEF FlagAgrees, OutageFreezeHolds, At, Reconcilers
  <1>7. ASSUME NEW t \in Rows, a \notin jumbled' => Neat(t), rows' = [rows EXCEPT ![a] = t]
        PROVE  rows' \in [Assets -> Rows] /\ LotsOK'
    <2>1. rows \in [Assets -> Rows]
      BY DEF VarsOK
    <2>2. \A b \in Assets : rows'[b] = IF b = a THEN t ELSE rows[b]
      BY <1>7, <2>1
    <2> QED
      BY <1>1, <1>3, <1>7, <2>1, <2>2 DEF LotsOK
  <1>8. rows' \in [Assets -> Rows] /\ LotsOK' /\ cash' \in Nat
    <2>1. CASE /\ opposite = {}
               /\ rows' = [rows EXCEPT ![a] = Append(s, e)]
               /\ jumbled' = jumbled \cup {b \in {a} : \E i \in OpenRows(s) : s[i].at > o.at}
               /\ cash' = cash
      <3>1. e \in Row /\ e.open /\ e.at = o.at /\ e.qty = o.side
        BY <1>2, OpenedOK DEF Opened
      <3>2. Sign(o.side) = o.side
        BY <1>2 DEF Sign
      <3> HIDE DEF e
      <3>3. Append(s, e) \in Rows
        BY <1>1, <3>1, AppendRows
      <3>4. ASSUME a \notin jumbled' PROVE Neat(Append(s, e))
        <4>1. Neat(s)
          BY <1>1, <2>1, <3>4 DEF LotsOK
        <4>2. \A i \in OpenRows(s) : s[i].at <= e.at /\ Sign(s[i].qty) = Sign(e.qty)
          <5> SUFFICES ASSUME NEW i \in OpenRows(s)
                       PROVE  s[i].at <= e.at /\ Sign(s[i].qty) = Sign(e.qty)
            OBVIOUS
          <5>1. Sign(s[i].qty) = o.side
            BY <2>1 DEF Opposite
          <5>2. ~(s[i].at > o.at)
            BY <2>1, <3>4
          <5>3. s[i].at \in Nat
            <6>1. i \in 1..Len(s)
              BY <1>1, LenProperties DEF OpenRows, Rows
            <6> QED
              BY <1>1, <6>1, ElementOfSeq DEF Rows, Row
          <5> QED
            BY <1>2, <3>1, <3>2, <5>1, <5>2, <5>3
        <4> QED
          BY <1>1, <3>1, <4>1, <4>2, AppendNeat
      <3>5. rows' = [rows EXCEPT ![a] = Append(s, e)]
        BY <2>1
      <3>6. rows' \in [Assets -> Rows] /\ LotsOK'
        <4> HIDE DEF s, a
        <4> QED
          BY <1>7, <3>3, <3>4, <3>5
      <3> QED
        BY <2>1, <3>6 DEF VarsOK
    <2>2. CASE /\ \E i \in opposite :
                      /\ \A j \in opposite : \/ s[i].at < s[j].at
                                              \/ (s[i].at = s[j].at /\ i <= j)
                      /\ rows' = [rows EXCEPT ![a] = [s EXCEPT ![i] = Closed]]
               /\ cash' = cash + 1
               /\ jumbled' = jumbled
      <3>1. PICK i \in opposite :
                      /\ \A j \in opposite : \/ s[i].at < s[j].at
                                              \/ (s[i].at = s[j].at /\ i <= j)
                      /\ rows' = [rows EXCEPT ![a] = [s EXCEPT ![i] = Closed]]
        BY <2>2
      <3>2. i \in OpenRows(s)
        BY DEF Opposite
      <3>3. [s EXCEPT ![i] = Closed] \in Rows
        BY <1>1, <3>2, CloseRows
      <3>4. a \notin jumbled' => Neat([s EXCEPT ![i] = Closed])
        <4> SUFFICES ASSUME a \notin jumbled' PROVE Neat([s EXCEPT ![i] = Closed])
          OBVIOUS
        <4>1. Neat(s)
          BY <1>1, <2>2 DEF LotsOK
        <4>2. \A j \in OpenRows(s) : i <= j
          BY <1>1, <3>1, <4>1, OldestFirst
        <4> QED
          BY <1>1, <3>2, <4>1, <4>2, CloseRows
      <3>5. PICK t : t = [s EXCEPT ![i] = Closed]
        OBVIOUS
      <3>6. rows' \in [Assets -> Rows] /\ LotsOK'
        <4>1. t \in Rows /\ (a \notin jumbled' => Neat(t)) /\ rows' = [rows EXCEPT ![a] = t]
          BY <3>1, <3>3, <3>4, <3>5
        <4> HIDE DEF s, a
        <4> QED
          BY <1>7, <4>1
      <3> QED
        BY <2>2, <3>6 DEF VarsOK
    <2> QED
      BY <2>1, <2>2 DEF Book
  <1>9. flight' \subseteq Order /\ UNCHANGED <<events, orders, link, kite, traded, downs, ups, foiled>>
    BY DEF Book, VarsOK, linkVars, counts
  <1>10. VarsOK'
    BY <1>3, <1>4, <1>8, <1>9 DEF VarsOK
  <1> QED
    BY <1>5, <1>6, <1>8, <1>10

LEMMA ExternalOK == ASSUME NEW a \in Assets PROVE FreezeInv /\ External(a) => FreezeInv'
  <1> SUFFICES ASSUME FreezeInv, External(a) PROVE FreezeInv'
    OBVIOUS
  <1> USE DEF FreezeInv
  <1>1. /\ UNCHANGED <<venue, flag, frozen, spared, jumbled, rows, cash>>
        /\ run' = Disturbed(Reconcilers)
    BY DEF External, linkVars, history
  <1>2. RunsOK' /\ Views' /\ LiftAgrees' /\ \A r \in Reconcilers : run'[r].step = run[r].step
    BY <1>1, DisturbedViews
  <1>3. FlagAgrees' /\ OutageFreezeHolds'
    BY <1>1, <1>2 DEF FlagAgrees, OutageFreezeHolds, At, Reconcilers
  <1>4. kite' \in [Assets -> Entry]
    BY FreezeAssumption DEF External, VarsOK
  <1>5. events' \in 0 .. MaxEvents /\ orders' \in Nat /\ orders' <= events'
    BY Counts DEF External
  <1>6. LotsOK'
    BY <1>1 DEF LotsOK
  <1>7. VarsOK'
    BY <1>1, <1>4, <1>5 DEF External, VarsOK, linkVars, history
  <1> QED
    BY <1>2, <1>3, <1>6, <1>7

------------------------------------------------------------------------------
(* Steps of a reconciliation *)

(* The dictionary's last open lot exists. *)
LEMMA GreatestOK ==
    ASSUME NEW s \in Rows, OpenRows(s) # {}
    PROVE  Greatest(OpenRows(s)) \in OpenRows(s)
  <1>1. DOMAIN s = 1..Len(s) /\ Len(s) \in Nat
    BY LenProperties DEF Rows
  <1> DEFINE T == {Len(s) - i : i \in OpenRows(s)}
  <1>2. T \subseteq Nat /\ T # {}
    BY <1>1 DEF OpenRows
  <1>3. PICK n \in T : \A m \in T : ~(<<m, n>> \in OpToRel(<, Nat))
    <2> HIDE DEF T
    <2> QED
      BY <1>2, NatLessThanWellFounded, WFMin
  <1>4. \A m \in T : ~(m < n)
    BY <1>2, <1>3 DEF OpToRel
  <1>5. PICK g \in OpenRows(s) : n = Len(s) - g
    OBVIOUS
  <1>6. \A j \in OpenRows(s) : j <= g
    <2> SUFFICES ASSUME NEW j \in OpenRows(s) PROVE j <= g
      OBVIOUS
    <2>1. ~(Len(s) - j < Len(s) - g)
      BY <1>4, <1>5
    <2>2. j \in Int /\ g \in Int
      BY <1>1 DEF OpenRows
    <2> QED
      BY <1>1, <2>1, <2>2
  <1> QED
    BY <1>6 DEF Greatest

LEMMA BrokerOK == VarsOK => BrokerCash \in Nat /\ BrokerBook \in [Assets -> Entry]
  <1> SUFFICES ASSUME VarsOK PROVE BrokerCash \in Nat /\ BrokerBook \in [Assets -> Entry]
    OBVIOUS
  <1>1. BrokerCash \in Nat
    BY FreezeAssumption DEF VarsOK, BrokerCash
  <1>2. ASSUME NEW a \in Assets PROVE PaperBook[a] \in Entry
    <2>1. rows[a] \in Rows
      BY DEF VarsOK
    <2>2. CASE OpenRows(rows[a]) = {}
      BY <2>2 DEF PaperBook, Nothing, Entry
    <2>3. CASE OpenRows(rows[a]) # {}
      <3> DEFINE lot == rows[a][Greatest(OpenRows(rows[a]))]
      <3>1. Greatest(OpenRows(rows[a])) \in 1..Len(rows[a])
        BY <2>1, <2>3, GreatestOK, LenProperties DEF OpenRows, Rows
      <3>2. lot.qty \in Int /\ lot.price \in Nat
        BY <2>1, <3>1, ElementOfSeq DEF Rows, Row
      <3>3. PaperBook[a] = [Nothing EXCEPT !.qty = lot.qty, !.price = lot.price]
        BY <2>3 DEF PaperBook
      <3> HIDE DEF lot
      <3> QED
        BY <3>2, <3>3 DEF Nothing, Entry
    <2> QED
      BY <2>2, <2>3
  <1>3. PaperBook \in [Assets -> Entry]
    BY <1>2 DEF PaperBook
  <1> QED
    BY <1>1, <1>3 DEF BrokerBook, VarsOK

LEMMA RequestOK == FreezeInv /\ Request => FreezeInv'
  <1> SUFFICES ASSUME FreezeInv, Request PROVE FreezeInv'
    OBVIOUS
  <1> USE DEF FreezeInv
  <1> DEFINE r == "request"
             x == run[r]
             Y(S) == [x EXCEPT !.step = "cash", !.scope = S]
  <1>1. PICK S \in Scopes : run' = [run EXCEPT ![r] = Y(S)]
    BY DEF Request
  <1>2. S \in SUBSET All
    BY FreezeAssumption DEF All
  <1>3. x \in Runs /\ RunOK(x) /\ Sees(x) /\ x.step = "idle" /\ r \in Reconcilers
    BY DEF RunsOK, Views, Request, At, Reconcilers
  <1> DEFINE c == [x EXCEPT !.step = "cash"]
  <1>4. c \in Runs
    BY <1>3, SetField DEF Steps
  <1>5. [c EXCEPT !.scope = S] \in Runs
    BY <1>2, <1>4, SetField
  <1>6. Y(S) \in Runs
    BY <1>5, Zenon
  <1>7. /\ Y(S).step = "cash" /\ Y(S).found = x.found /\ Y(S).copy = x.copy
        /\ Y(S).book = x.book
    BY <1>3 DEF Runs
  <1>8. PICK y : y = Y(S)
    OBVIOUS
  <1>9. RunOK(y) /\ y.step = "cash" /\ y.found = {} /\ y.copy = <<>>
    BY <1>3, <1>6, <1>7, <1>8 DEF RunOK, Working
  <1>10. Sees(y)'
    BY <1>9 DEF Sees, Copied, Freezing, Synced
  <1>11. run' = [run EXCEPT ![r] = y]
    BY <1>1, <1>8
  <1>12. UNCHANGED <<venue, cash, rows, kite, flag, frozen, spared, jumbled>>
    BY DEF Request, bookVars, linkVars, history
  <1>13. /\ RunsOK' /\ Views' /\ LiftAgrees'
         /\ run'["monitor"].step = run["monitor"].step
    BY <1>3, <1>9, <1>10, <1>11, <1>12, OnlyRun
  <1>14. FlagAgrees' /\ OutageFreezeHolds' /\ LotsOK'
    BY <1>12, <1>13 DEF FlagAgrees, OutageFreezeHolds, LotsOK, At
  <1>15. events' \in 0 .. MaxEvents /\ orders' \in Nat /\ orders' <= events'
    BY Counts DEF Request
  <1>16. VarsOK'
    BY <1>12, <1>15 DEF Request, VarsOK, bookVars, linkVars, history
  <1> QED
    BY <1>13, <1>14, <1>16

LEMMA ReadCashOK == ASSUME NEW r \in Reconcilers PROVE FreezeInv /\ ReadCash(r) => FreezeInv'
  <1> SUFFICES ASSUME FreezeInv, ReadCash(r) PROVE FreezeInv'
    OBVIOUS
  <1> USE DEF FreezeInv
  <1>0. PICK got \in {link, FALSE} :
            /\ run' = [run EXCEPT ![r] = [@ EXCEPT !.step = "book", !.sure = got,
                                                   !.cash = IF got THEN BrokerCash ELSE 0]]
            /\ Fault(got # link)
    BY DEF ReadCash
  <1> DEFINE x == run[r]
             v == IF got THEN BrokerCash ELSE 0
             z == [x EXCEPT !.step = "book", !.sure = got, !.cash = v]
             c1 == [x EXCEPT !.step = "book"]
             c2 == [c1 EXCEPT !.sure = got]
  <1>1. x \in Runs /\ RunOK(x) /\ Sees(x) /\ x.step = "cash"
    BY DEF RunsOK, Views, ReadCash, At
  <1>2. v \in Nat /\ got \in BOOLEAN
    BY BrokerOK DEF VarsOK
  <1>10. run' = [run EXCEPT ![r] = z]
    BY <1>0
  <1>v. got => v = BrokerCash
    OBVIOUS
  <1> HIDE DEF v
  <1>3. c1 \in Runs
    BY <1>1, SetField DEF Steps
  <1>4. c2 \in Runs
    <2> HIDE DEF c1
    <2> QED
      BY <1>2, <1>3, SetField
  <1>6. [c2 EXCEPT !.cash = v] \in Runs
    <2> HIDE DEF c2
    <2> QED
      BY <1>2, <1>4, SetField
  <1>7. z \in Runs
    BY <1>6, Zenon
  <1>8. /\ z.step = "book" /\ z.scope = x.scope /\ z.cash = v /\ z.book = x.book
        /\ z.found = x.found /\ z.copy = x.copy /\ z.sure = got
    BY <1>1 DEF Runs
  <1>9. PICK y : y = z
    OBVIOUS
  <1>11. /\ run' = [run EXCEPT ![r] = y] /\ y.scope = x.scope /\ y.step = "book"
    BY <1>8, <1>9, <1>10
  <1>12. RunOK(y) /\ y.found = {} /\ y.copy = <<>>
    BY <1>1, <1>7, <1>8, <1>9 DEF RunOK, Working
  <1>14. UNCHANGED <<venue, cash, rows, kite, flag, frozen, spared, jumbled>>
    BY DEF ReadCash, bookVars, linkVars, history
  <1>13. Sees(y)'
    <2>1. Sees(y)
      BY <1>8, <1>9, <1>12, <1>v DEF Sees, Copied, Freezing, Synced
    <2> QED
      BY <1>14, <2>1, SeesOn
  <1>15. /\ RunsOK' /\ Views' /\ LiftAgrees'
         /\ run'["monitor"].step = IF r = "monitor" THEN y.step ELSE run["monitor"].step
    BY <1>11, <1>12, <1>13, <1>14, OnlyRun
  <1>16. FlagAgrees' /\ OutageFreezeHolds' /\ LotsOK'
    BY <1>1, <1>11, <1>14, <1>15 DEF FlagAgrees, OutageFreezeHolds, LotsOK, At
  <1>17. VarsOK'
    <2>1. events' \in 0 .. MaxEvents /\ orders' \in Nat /\ orders' <= events'
      BY <1>0, Counts DEF ReadCash, Fault
    <2> QED
      BY <1>14, <2>1 DEF ReadCash, VarsOK, bookVars, linkVars, history
  <1> QED
    BY <1>15, <1>16, <1>17

LEMMA ReadBookOK == ASSUME NEW r \in Reconcilers PROVE FreezeInv /\ ReadBook(r) => FreezeInv'
  <1> SUFFICES ASSUME FreezeInv, ReadBook(r) PROVE FreezeInv'
    OBVIOUS
  <1> USE DEF FreezeInv
  <1>0. PICK got \in {link, FALSE} :
            /\ run' = [run EXCEPT ![r] =
                          [@ EXCEPT !.step = "compare", !.sure = run[r].sure /\ got,
                                    !.book = IF got THEN BrokerBook ELSE NoRun.book]]
            /\ Fault(got # link)
    BY DEF ReadBook
  <1> DEFINE x == run[r]
             v == IF got THEN BrokerBook ELSE NoRun.book
             o == x.sure /\ got
             z == [x EXCEPT !.step = "compare", !.sure = o, !.book = v]
             c1 == [x EXCEPT !.step = "compare"]
             c2 == [c1 EXCEPT !.sure = o]
  <1>1. x \in Runs /\ RunOK(x) /\ Sees(x) /\ x.step = "book"
    BY DEF RunsOK, Views, ReadBook, At
  <1>2. v \in [Assets -> Entry]
    BY BrokerOK, NoBook
  <1>3. o \in BOOLEAN /\ (o => x.sure /\ v = BrokerBook)
    BY DEF VarsOK
  <1>10. run' = [run EXCEPT ![r] = z]
    BY <1>0, Zenon
  <1>4. c1 \in Runs
    BY <1>1, SetField DEF Steps
  <1>5. c2 \in Runs
    <2> HIDE DEF c1, o
    <2> QED
      BY <1>3, <1>4, SetField
  <1>6. [c2 EXCEPT !.book = v] \in Runs
    <2> HIDE DEF c2, v
    <2> QED
      BY <1>2, <1>5, SetField
  <1>7. z \in Runs
    BY <1>6, Zenon
  <1> HIDE DEF v, o
  <1>8. /\ z.step = "compare" /\ z.scope = x.scope /\ z.cash = x.cash /\ z.book = v
        /\ z.found = x.found /\ z.copy = x.copy /\ z.sure = o
    BY <1>1 DEF Runs
  <1>9. PICK y : y = z
    OBVIOUS
  <1>11. /\ run' = [run EXCEPT ![r] = y] /\ y.scope = x.scope /\ y.step = "compare"
    BY <1>8, <1>9, <1>10
  <1>12. RunOK(y) /\ y.found = {} /\ y.copy = <<>>
    BY <1>1, <1>7, <1>8, <1>9 DEF RunOK, FoundOK, Working
  <1>14. UNCHANGED <<venue, cash, rows, kite, flag, frozen, spared, jumbled>>
    BY DEF ReadBook, bookVars, linkVars, history
  <1>13. Sees(y)'
    <2>1. Sees(y)
      BY <1>1, <1>3, <1>8, <1>9, <1>12 DEF Sees, Copied, Freezing, Synced
    <2> QED
      BY <1>14, <2>1, SeesOn
  <1>15. /\ RunsOK' /\ Views' /\ LiftAgrees'
         /\ run'["monitor"].step = IF r = "monitor" THEN y.step ELSE run["monitor"].step
    BY <1>11, <1>12, <1>13, <1>14, OnlyRun
  <1>16. FlagAgrees' /\ OutageFreezeHolds' /\ LotsOK'
    BY <1>1, <1>11, <1>14, <1>15 DEF FlagAgrees, OutageFreezeHolds, LotsOK, At
  <1>17. VarsOK'
    <2>1. events' \in 0 .. MaxEvents /\ orders' \in Nat /\ orders' <= events'
      BY <1>0, Counts DEF ReadBook, Fault
    <2> QED
      BY <1>14, <2>1 DEF ReadBook, VarsOK, bookVars, linkVars, history
  <1> QED
    BY <1>15, <1>16, <1>17

LEMMA ViewOK ==
    ASSUME VarsOK, NEW v \in LocalViews
    PROVE  v.rows \in [Assets -> Rows] /\ v.cash \in Nat
  <1>1. PICK loaded \in BOOLEAN, listed \in BOOLEAN :
           v = [rows |-> IF loaded THEN rows ELSE [a \in Assets |-> <<>>],
                cash |-> IF loaded THEN cash ELSE 0,
                traded |-> IF listed THEN traded ELSE {}]
    BY DEF LocalViews
  <1>2. [a \in Assets |-> <<>>] \in [Assets -> Rows]
    BY DEF Rows
  <1>3. rows \in [Assets -> Rows] /\ cash \in Nat
    BY DEF VarsOK
  <1> QED
    BY <1>1, <1>2, <1>3

(* What a comparison may find, *)
LEMMA DiffOK ==
    ASSUME VarsOK, RunsOK, NEW r \in Reconcilers, NEW v \in LocalViews
    PROVE  FoundOK(Diff(r, v), run[r].book)
  <1>1. run[r].book \in [Assets -> Entry]
    BY DEF RunsOK, Runs
  <1>2. SUFFICES ASSUME NEW d \in Diff(r, v)
        PROVE  /\ d \in Kinds \X All
               /\ d[1] \in Positional => d[2] \in Assets
               /\ d[1] \in {"PHANTOM"} \cup Mismatch => run[r].book[d[2]].qty # 0
    BY DEF FoundOK
  <1>3. CASE /\ d \in Kinds \X Assets
             /\ d[1] \in Kind(run[r].book[d[2]], LocalOf(v.rows[d[2]]))
                    \cup Stray(run[r].book[d[2]], v.rows[d[2]], d[2] \in v.traded)
    <2>1. /\ d[2] \in Assets /\ run[r].book[d[2]] \in Entry
          /\ LocalOf(v.rows[d[2]]) \in Row
      BY <1>1, <1>3, LocalOfOK, ViewOK
    <2>2. CASE d[1] \in Kind(run[r].book[d[2]], LocalOf(v.rows[d[2]]))
      BY <1>3, <2>1, <2>2, KindOK DEF All
    <2>3. CASE d[1] \in Stray(run[r].book[d[2]], v.rows[d[2]], d[2] \in v.traded)
      <3>1. d[1] \in {"HOLDING", "ORDER", "ORPHAN"}
        BY <2>3 DEF Stray
      <3> QED
        BY <1>3, <2>1, <3>1 DEF All, Positional, Mismatch
    <2> QED
      BY <1>3, <2>2, <2>3
  <1>4. CASE d = <<"CASH", "PORTFOLIO">>
    BY <1>4 DEF Kinds, All, Positional, Mismatch
  <1> QED
    BY <1>2, <1>3, <1>4 DEF Diff, Within

(* what it says when it finds nothing about anything, *)
LEMMA DiffEmpty ==
    ASSUME VarsOK, RunsOK, NEW v \in LocalViews, Saw(v), Diff("monitor", v) = {}
    PROVE  /\ run["monitor"].cash = cash
           /\ \A a \in Assets : Kind(run["monitor"].book[a], LocalOf(rows[a])) = {}
  <1> DEFINE x == run["monitor"]
  <1>1. x.scope = All /\ x.book \in [Assets -> Entry] /\ v.rows = rows /\ v.cash = cash
    BY DEF RunsOK, Runs, Reconcilers, Saw
  <1>2. x.cash = cash
    <2> SUFFICES ASSUME x.cash # cash PROVE FALSE
      OBVIOUS
    <2>1. <<"CASH", "PORTFOLIO">> \in Diff("monitor", v)
      BY <1>1 DEF Diff, Within, All
    <2> QED
      BY <2>1
  <1>3. ASSUME NEW a \in Assets PROVE Kind(x.book[a], LocalOf(rows[a])) = {}
    <2>1. x.book[a] \in Entry /\ LocalOf(rows[a]) \in Row
      BY <1>1, LocalOfOK DEF VarsOK
    <2>2. Kind(x.book[a], LocalOf(rows[a])) \subseteq Kinds
      BY <2>1, KindOK DEF Positional, Mismatch, Kinds
    <2>3. \A k \in Kinds : k \in Kind(x.book[a], LocalOf(rows[a])) => <<k, a>> \in Diff("monitor", v)
      BY <1>1 DEF Diff, Within, All
    <2> QED
      BY <2>2, <2>3
  <1> QED
    BY <1>2, <1>3

(* and what it finds when it compares the paper venue with itself: trades  *)
(* without a position, which neither freeze nor are repaired.              *)
LEMMA DiffPaper ==
    ASSUME VarsOK, RunsOK, LotsOK, NEW r \in Reconcilers, NEW v \in LocalViews, Saw(v),
           venue = "paper", run[r].cash = BrokerCash, run[r].book = BrokerBook
    PROVE  Freezing(Diff(r, v)) \cup Synced(Diff(r, v)) \subseteq jumbled
  <1>1. run[r].cash = v.cash /\ v.rows = rows
    BY DEF BrokerCash, Saw
  <1>2. ASSUME NEW a \in Assets \ jumbled
        PROVE  /\ Kind(run[r].book[a], LocalOf(v.rows[a])) = {}
               /\ "HOLDING" \notin Stray(run[r].book[a], v.rows[a], a \in v.traded)
    <2> DEFINE s == rows[a]
               b == PaperBook[a]
    <2>1. s \in Rows /\ Neat(s) /\ LocalOf(s) \in Row
      BY LocalOfOK DEF VarsOK, LotsOK
    <2>2. run[r].book[a] = b /\ v.rows[a] = s
      BY <1>1 DEF BrokerBook
    <2>3. CASE OpenRows(s) = {}
      <3>1. b = Nothing /\ ~LocalOf(s).open
        BY <2>1, <2>3, SameLot DEF PaperBook
      <3>2. b \in Entry /\ b.qty = 0 /\ ~b.held
        BY <3>1 DEF Nothing, Entry
      <3> HIDE DEF s, b
      <3> QED
        BY <2>1, <2>2, <3>1, <3>2, KindOK DEF Stray
    <2>4. CASE OpenRows(s) # {}
      <3>1. LocalOf(s).open /\ s[Greatest(OpenRows(s))] = LocalOf(s)
        BY <2>1, <2>4, SameLot
      <3> DEFINE l == LocalOf(s)
      <3>2. b = [Nothing EXCEPT !.qty = l.qty, !.price = l.price]
        BY <2>4, <3>1 DEF PaperBook
      <3>3. l \in Row /\ l.open
        BY <2>1, <3>1
      <3>4. PICK k : k = l
        OBVIOUS
      <3> HIDE DEF s, b, l
      <3>5. k.qty \in Int /\ k.price \in Nat /\ k.qty # 0
        BY <3>3, <3>4 DEF Row
      <3>6. b \in Entry /\ b.qty = k.qty /\ b.price = k.price /\ ~b.held
        BY <3>2, <3>4, <3>5 DEF Nothing, Entry
      <3>7. Kind(b, k) = {}
        BY <3>3, <3>4, <3>5, <3>6, KindOK
      <3> QED
        BY <2>2, <3>4, <3>6, <3>7 DEF Stray, l
    <2> QED
      BY <2>3, <2>4
  <1>3. ASSUME NEW d \in Diff(r, v),
               d[1] \in {"CASH", "HOLDING"} \cup Positional
        PROVE  d[2] \in jumbled
    <2>1. d # <<"CASH", "PORTFOLIO">>
      BY <1>1, <1>3 DEF Diff, Within, Kinds, Kind, Stray, Positional, Mismatch
    <2>2. /\ d \in Kinds \X Assets
          /\ d[1] \in Kind(run[r].book[d[2]], LocalOf(v.rows[d[2]]))
                \cup Stray(run[r].book[d[2]], v.rows[d[2]], d[2] \in v.traded)
      BY <1>1, <2>1 DEF Diff, Within
    <2>3. Stray(run[r].book[d[2]], v.rows[d[2]], d[2] \in v.traded)
              \subseteq {"HOLDING", "ORDER", "ORPHAN"}
      BY DEF Stray
    <2>4. /\ {"ORDER", "ORPHAN"} \cap ({"CASH", "HOLDING"} \cup Positional) = {}
      BY DEF Positional, Mismatch
    <2> QED
      BY <1>2, <1>3, <2>2, <2>3, <2>4
  <1>4. Freezing(Diff(r, v)) \subseteq jumbled
    BY <1>3 DEF Freezing, Positional, Mismatch
  <1>5. Synced(Diff(r, v)) \subseteq jumbled
    BY <1>3 DEF Synced, Positional
  <1> QED
    BY <1>4, <1>5

LEMMA ConcludeOK ==
    ASSUME RunsOK, Views, NEW r \in Reconcilers, NEW ds, NEW sure \in BOOLEAN,
           run[r].step \in {"compare", "again"}, sure => run[r].sure,
           NEW y, y = Conclude(r, ds, sure)
    PROVE  /\ RunOK(y) /\ Sees(y)
           /\ y.scope = run[r].scope \/ (r = "monitor" => y.scope = All)
           /\ y.step \in {"idle", "lift"}
           /\ r = "request" => y.step \notin {"freeze", "lift"}
           /\ y.step = "lift" => /\ ds = {} /\ y.sure = sure
                                 /\ y.cash = run[r].cash /\ y.book = run[r].book
  <1> DEFINE x == run[r]
             z == [x EXCEPT !.step = "lift", !.found = {}, !.sure = sure]
             c1 == [x EXCEPT !.step = "lift"]
             c2 == [c1 EXCEPT !.found = {}]
  <1>1. x \in Runs /\ RunOK(x) /\ Sees(x)
    BY DEF RunsOK, Views
  <1>2. c1 \in Runs
    BY <1>1, SetField DEF Steps
  <1>3. c2 \in Runs
    <2> HIDE DEF c1
    <2> QED
      BY <1>2, SetField
  <1>3a. [c2 EXCEPT !.sure = sure] \in Runs
    <2> HIDE DEF c2
    <2> QED
      BY <1>3, SetField
  <1>4. z \in Runs
    BY <1>3a, Zenon
  <1>5. /\ z.step = "lift" /\ z.scope = x.scope /\ z.cash = x.cash /\ z.book = x.book
        /\ z.found = {} /\ z.copy = x.copy /\ z.sure = sure
    BY <1>1 DEF Runs
  <1>6. y = IF ds # {} \/ r = "request" THEN NoRun ELSE z
    BY DEF Conclude
  <1> HIDE DEF z
  <1>7. RunOK(z)
    BY <1>1, <1>4, <1>5 DEF RunOK, FoundOK, Working
  <1>8. Sees(z)
    BY <1>1, <1>5 DEF Sees, Copied, RunOK, Freezing, Synced
  <1>10. CASE ds # {} \/ r = "request"
    BY <1>6, <1>10, NoRunOK
  <1>11. CASE ~(ds # {} \/ r = "request")
    BY <1>5, <1>6, <1>7, <1>8, <1>11
  <1> QED
    BY <1>10, <1>11

(* A step at the end of a comparison; the books do not move. *)
LEMMA Concluded ==
    ASSUME VarsOK, RunsOK, Views, LiftAgrees, NEW r \in Reconcilers,
           NEW v \in LocalViews, NEW sure \in BOOLEAN, sure <=> run[r].sure /\ Saw(v),
           run[r].step \in {"compare", "again"},
           run' = [run EXCEPT ![r] = Conclude(r, Diff(r, v), sure)],
           UNCHANGED <<venue, cash, rows, kite, jumbled>>
    PROVE  /\ RunsOK' /\ Views' /\ LiftAgrees'
           /\ \/ run'["monitor"].step = run["monitor"].step
              \/ /\ run["monitor"].step \notin {"idle", "freeze"}
                 /\ run'["monitor"].step \in {"idle", "lift"}
  <1>0. PICK z : z = Conclude(r, Diff(r, v), sure)
    OBVIOUS
  <1>1. /\ RunOK(z) /\ Sees(z)
        /\ z.scope = run[r].scope \/ (r = "monitor" => z.scope = All)
        /\ z.step \in {"idle", "lift"}
        /\ r = "request" => z.step \notin {"freeze", "lift"}
        /\ z.step = "lift" => /\ Diff(r, v) = {} /\ z.sure = sure
                             /\ z.cash = run[r].cash /\ z.book = run[r].book
    BY <1>0, ConcludeOK
  <1>2. run' = [run EXCEPT ![r] = z]
    BY <1>0
  <1>3. RunsOK' /\ Views'
    <2>1. r = "monitor" => z.scope = All
      BY <1>1 DEF RunsOK
    <2>2. Sees(z)'
      BY <1>1, SeesOn
    <2> QED
      BY <1>1, <1>2, <2>1, <2>2, Advances, Keeps
  <1>4. run'["monitor"] = IF r = "monitor" THEN z ELSE run["monitor"]
    BY <1>2 DEF RunsOK, Reconcilers
  <1>5. LiftAgrees'
    <2>1. CASE r = "monitor" /\ z.step = "lift"
      <3>1. ASSUME z.sure
            PROVE  /\ run["monitor"].cash = cash
                   /\ \A a \in Assets : Kind(run["monitor"].book[a], LocalOf(rows[a])) = {}
        BY <1>1, <2>1, <3>1, DiffEmpty
      <3> QED
        BY <1>1, <1>4, <2>1, <3>1 DEF LiftAgrees
    <2>2. CASE ~(r = "monitor" /\ z.step = "lift")
      BY <1>4, <2>2, LiftKept
    <2> QED
      BY <2>1, <2>2
  <1> QED
    BY <1>1, <1>3, <1>4, <1>5

LEMMA CompareOK == ASSUME NEW r \in Reconcilers PROVE FreezeInv /\ Compare(r) => FreezeInv'
  <1> SUFFICES ASSUME FreezeInv, Compare(r) PROVE FreezeInv'
    OBVIOUS
  <1> USE DEF FreezeInv
  <1>0. PICK v \in LocalViews :
            /\ \/ v = Here /\ Freeze(Freezing(Diff(r, v)))
               \/ v # Here /\ frozen' = frozen \cup Freezing(Diff(r, v)) /\ Fault(TRUE)
            /\ run' = [run EXCEPT ![r] =
                          IF Diff(r, v) = {} THEN Conclude(r, {}, run[r].sure /\ Saw(v))
                          ELSE [@ EXCEPT !.step = "repair", !.found = Diff(r, v),
                                         !.sure = run[r].sure /\ Saw(v)]]
            /\ foiled' = (foiled \/ (r = "request" /\ flag /\ Freezing(Diff(r, v)) # {}))
    BY DEF Compare
  <1>1. run[r] \in Runs /\ RunOK(run[r]) /\ Sees(run[r]) /\ run[r].step = "compare"
    BY DEF RunsOK, Views, Compare, At
  <1>2. UNCHANGED <<venue, cash, rows, kite, flag, spared, jumbled>>
    BY DEF Compare, bookVars, linkVars
  <1>o. PICK sure \in BOOLEAN : sure = (run[r].sure /\ Saw(v))
    <2>1. (run[r].sure /\ Saw(v)) \in BOOLEAN
      BY DEF Saw
    <2> QED
      BY <2>1
  <1>f. PICK D : D = Diff(r, v)
    OBVIOUS
  <1>d. FoundOK(D, run[r].book)
    BY <1>f, DiffOK
  <1>3. /\ RunsOK' /\ Views' /\ LiftAgrees'
        /\ \/ run'["monitor"].step = run["monitor"].step
           \/ /\ run["monitor"].step \notin {"idle", "freeze"}
              /\ run'["monitor"].step \in {"idle", "lift", "repair"}
    <2>1. CASE D = {}
      <3>1. run' = [run EXCEPT ![r] = Conclude(r, Diff(r, v), sure)]
        BY <1>0, <1>f, <1>o, <2>1
      <3>2. sure <=> run[r].sure /\ Saw(v)
        BY <1>o
      <3>3. run[r].step \in {"compare", "again"}
        BY <1>1
      <3> QED
        BY <1>2, <3>1, <3>2, <3>3, Concluded
    <2>2. CASE D # {}
      <3> DEFINE x == run[r]
                 z == [x EXCEPT !.step = "repair", !.found = D, !.sure = sure]
                 c1 == [x EXCEPT !.step = "repair"]
                 c2 == [c1 EXCEPT !.found = D]
      <3>3. venue = "paper" /\ sure => Freezing(D) \cup Synced(D) \subseteq jumbled
        BY <1>1, <1>f, <1>o, DiffPaper DEF Sees
      <3>4. run' = [run EXCEPT ![r] = z]
        BY <1>0, <1>f, <1>o, <2>2
      <3>5. c1 \in Runs
        BY <1>1, SetField DEF Steps
      <3>6. c2 \in Runs
        <4>1. D \in SUBSET (Kinds \X All)
          BY <1>d DEF FoundOK
        <4> HIDE DEF c1
        <4> QED
          BY <3>5, <4>1, SetField
      <3>6a. [c2 EXCEPT !.sure = sure] \in Runs
        <4> HIDE DEF c2
        <4> QED
          BY <3>6, SetField
      <3>7. z \in Runs
        BY <3>6a, Zenon
      <3>8. /\ z.step = "repair" /\ z.scope = x.scope /\ z.cash = x.cash /\ z.book = x.book
            /\ z.found = D /\ z.copy = x.copy /\ z.sure = sure
        BY <1>1 DEF Runs
      <3>9. PICK y : y = z
        OBVIOUS
      <3> HIDE DEF z
      <3>10. RunOK(y)
        BY <1>1, <1>d, <2>2, <3>7, <3>8, <3>9 DEF RunOK, Working
      <3>11. Sees(y)
        BY <1>1, <1>o, <3>3, <3>8, <3>9 DEF Sees, Copied
      <3>12. Sees(y)'
        BY <1>2, <3>11, SeesOn
      <3>13. run' = [run EXCEPT ![r] = y] /\ y.scope = run[r].scope /\ y.step = "repair"
        BY <3>4, <3>8, <3>9
      <3>14. /\ RunsOK' /\ Views' /\ LiftAgrees'
             /\ run'["monitor"].step = IF r = "monitor" THEN y.step ELSE run["monitor"].step
        BY <1>2, <3>10, <3>12, <3>13, OnlyRun
      <3> QED
        BY <1>1, <3>13, <3>14
    <2> QED
      BY <2>1, <2>2
  <1>5. frozen \subseteq frozen' /\ frozen' \subseteq All /\ (Event \/ UNCHANGED events)
    <2>1. Freezing(D) \in SUBSET All
      <3>1. \A d \in D : d[2] \in All
        BY <1>d DEF FoundOK
      <3> QED
        BY <3>1 DEF Freezing
    <2>2. CASE Freeze(Freezing(D))
      BY <2>1, <2>2, FreezeOK
    <2>3. CASE frozen' = frozen \cup Freezing(D) /\ Fault(TRUE)
      BY <2>1, <2>3 DEF Fault, VarsOK
    <2> QED
      BY <1>0, <1>f, <2>2, <2>3
  <1>6. FlagAgrees' /\ OutageFreezeHolds' /\ LotsOK'
    BY <1>2, <1>3, <1>5 DEF FlagAgrees, OutageFreezeHolds, LotsOK, At
  <1>7. VarsOK'
    <2>1. events' \in 0 .. MaxEvents /\ orders' \in Nat /\ orders' <= events'
      BY <1>5, Counts DEF Compare
    <2>2. foiled' \in BOOLEAN
      BY <1>0 DEF VarsOK
    <2> QED
      BY <1>2, <1>5, <2>1, <2>2 DEF Compare, VarsOK, bookVars, linkVars
  <1> QED
    BY <1>3, <1>6, <1>7

LEMMA AgainOK == ASSUME NEW r \in Reconcilers PROVE FreezeInv /\ Again(r) => FreezeInv'
  <1> SUFFICES ASSUME FreezeInv, Again(r) PROVE FreezeInv'
    OBVIOUS
  <1> USE DEF FreezeInv
  <1>0. PICK v \in LocalViews :
            /\ foiled' = (foiled \/ (r = "monitor" /\ Diff(r, v) # {}))
            /\ run' = [run EXCEPT ![r] = Conclude(r, Diff(r, v), run[r].sure /\ Saw(v))]
            /\ Fault(v # Here)
    BY DEF Again
  <1>1. run[r] \in Runs /\ run[r].step = "again"
    BY DEF Again, At, RunsOK
  <1>2. UNCHANGED <<venue, cash, rows, kite, flag, frozen, spared, jumbled>>
    BY DEF Again, bookVars, linkVars
  <1>o. PICK sure \in BOOLEAN : sure = (run[r].sure /\ Saw(v))
    <2>1. (run[r].sure /\ Saw(v)) \in BOOLEAN
      BY DEF Saw
    <2> QED
      BY <2>1
  <1>3. /\ RunsOK' /\ Views' /\ LiftAgrees'
        /\ \/ run'["monitor"].step = run["monitor"].step
           \/ /\ run["monitor"].step \notin {"idle", "freeze"}
              /\ run'["monitor"].step \in {"idle", "lift"}
    <2>1. run' = [run EXCEPT ![r] = Conclude(r, Diff(r, v), sure)]
      BY <1>0, <1>o
    <2>2. sure <=> run[r].sure /\ Saw(v)
      BY <1>o
    <2>3. run[r].step \in {"compare", "again"}
      BY <1>1
    <2> QED
      BY <1>2, <2>1, <2>2, <2>3, Concluded
  <1>4. FlagAgrees' /\ OutageFreezeHolds' /\ LotsOK'
    BY <1>2, <1>3 DEF FlagAgrees, OutageFreezeHolds, LotsOK, At
  <1>5. VarsOK'
    <2>1. events' \in 0 .. MaxEvents /\ orders' \in Nat /\ orders' <= events'
      BY <1>0, Counts DEF Again, Fault
    <2>2. foiled' \in BOOLEAN
      BY <1>0 DEF VarsOK
    <2> QED
      BY <1>2, <2>1, <2>2 DEF Again, VarsOK, bookVars, linkVars
  <1> QED
    BY <1>3, <1>4, <1>5

LEMMA ThawOK == ASSUME NEW r \in Reconcilers PROVE FreezeInv /\ Thaw(r) => FreezeInv'
  <1> SUFFICES ASSUME FreezeInv, Thaw(r) PROVE FreezeInv'
    OBVIOUS
  <1> USE DEF FreezeInv
  <1>1. run[r].step = "thaw" /\ Goto(r, "again")
    BY DEF Thaw, At
  <1>2. UNCHANGED <<venue, cash, rows, kite, flag, jumbled>>
    BY DEF Thaw, bookVars, linkVars
  <1>3. /\ RunsOK' /\ Views' /\ LiftAgrees'
        /\ run'["monitor"].step = IF r = "monitor" THEN "again" ELSE run["monitor"].step
    BY <1>1, <1>2, GotoOK DEF Steps, Working
  <1>s. Synced(run[r].found) \subseteq Assets
    <2>1. FoundOK(run[r].found, run[r].book)
      BY DEF RunsOK, RunOK
    <2> QED
      BY <2>1 DEF Synced, FoundOK, Positional
  <1>f. /\ frozen \ Synced(run[r].found) \subseteq frozen' /\ frozen' \subseteq All
        /\ Event \/ UNCHANGED events
    BY UnfreezeOK DEF Thaw
  <1>4. FlagAgrees' /\ LotsOK'
    BY <1>1, <1>2, <1>3 DEF FlagAgrees, LotsOK
  <1>5. OutageFreezeHolds'
    <2> SUFFICES ASSUME ~flag, run'["monitor"].step # "freeze"
                 PROVE  Universe \subseteq frozen' \cup spared'
      BY <1>2 DEF OutageFreezeHolds, At
    <2>1. run["monitor"].step # "freeze"
      BY <1>1, <1>3
    <2>2. Universe \subseteq frozen \cup spared
      BY <2>1 DEF OutageFreezeHolds, At
    <2>3. spared' = spared \cup Synced(run[r].found)
      BY DEF Thaw
    <2> QED
      BY <1>f, <2>2, <2>3
  <1>6. VarsOK'
    <2>1. events' \in 0 .. MaxEvents /\ orders' \in Nat /\ orders' <= events'
      BY <1>f, Counts DEF Thaw
    <2>2. spared' \subseteq Assets
      BY <1>s DEF Thaw, VarsOK
    <2> QED
      BY <1>2, <1>f, <2>1, <2>2 DEF Thaw, VarsOK, bookVars, linkVars
  <1> QED
    BY <1>3, <1>4, <1>5, <1>6

(* The end of a reconciliation. *)
LEMMA Ended ==
    ASSUME RunsOK, Views, LiftAgrees, NEW r \in Reconcilers,
           run' = [run EXCEPT ![r] = NoRun],
           UNCHANGED <<venue, cash, rows, kite, jumbled>>
    PROVE  /\ RunsOK' /\ Views' /\ LiftAgrees'
           /\ run'["monitor"].step = IF r = "monitor" THEN "idle" ELSE run["monitor"].step
  <1>1. PICK y : y = NoRun
    OBVIOUS
  <1>2. RunOK(y) /\ Sees(y) /\ y.step = "idle" /\ y.scope = All
        /\ run' = [run EXCEPT ![r] = y]
    BY <1>1, NoRunOK
  <1>3. Sees(y)'
    BY <1>2, SeesOn
  <1> QED
    BY <1>2, <1>3, OnlyRun

LEMMA RaiseOK == ASSUME NEW r \in Reconcilers PROVE FreezeInv /\ Raise(r) => FreezeInv'
  <1> SUFFICES ASSUME FreezeInv, Raise(r) PROVE FreezeInv'
    OBVIOUS
  <1> USE DEF FreezeInv
  <1>1. run[r].step \in {"repair", "save"} /\ run' = [run EXCEPT ![r] = NoRun]
    BY DEF Raise, At
  <1>2. UNCHANGED <<venue, cash, rows, kite, flag, frozen, spared, jumbled>>
    BY DEF Raise, bookVars, linkVars
  <1>3. /\ RunsOK' /\ Views' /\ LiftAgrees'
        /\ run'["monitor"].step = IF r = "monitor" THEN "idle" ELSE run["monitor"].step
    BY <1>1, <1>2, Ended
  <1>4. FlagAgrees' /\ OutageFreezeHolds' /\ LotsOK'
    BY <1>1, <1>2, <1>3 DEF FlagAgrees, OutageFreezeHolds, LotsOK, At
  <1>5. VarsOK'
    <2>1. events' \in 0 .. MaxEvents /\ orders' \in Nat /\ orders' <= events'
      BY Counts DEF Raise, Fault
    <2>2. foiled' \in BOOLEAN
      BY DEF Raise, VarsOK
    <2> QED
      BY <1>2, <2>1, <2>2 DEF Raise, VarsOK, bookVars, linkVars
  <1> QED
    BY <1>3, <1>4, <1>5

LEMMA LiftOK == FreezeInv /\ Lift => FreezeInv'
  <1> SUFFICES ASSUME FreezeInv, Lift PROVE FreezeInv'
    OBVIOUS
  <1> USE DEF FreezeInv
  <1>1. /\ run["monitor"].step = "lift" /\ run' = [run EXCEPT !["monitor"] = NoRun]
        /\ "monitor" \in Reconcilers
    BY DEF Lift, At, Reconcilers
  <1>2. UNCHANGED <<venue, cash, rows, kite, flag, spared, jumbled>> /\ flag
    BY <1>1 DEF Lift, bookVars, linkVars, FlagAgrees
  <1>3. /\ RunsOK' /\ Views' /\ LiftAgrees' /\ run'["monitor"].step = "idle"
    BY <1>1, <1>2, Ended
  <1>4. FlagAgrees' /\ OutageFreezeHolds' /\ LotsOK'
    BY <1>2, <1>3 DEF FlagAgrees, OutageFreezeHolds, LotsOK
  <1>5. frozen' \subseteq All /\ (Event \/ UNCHANGED events)
    <2>1. CASE Unfreeze(Universe \cup {"PORTFOLIO"})
      BY <2>1, UnfreezeOK
    <2>2. CASE frozen' = frozen \ {"PORTFOLIO"} /\ Fault(TRUE)
      BY <2>2 DEF Fault, VarsOK
    <2> QED
      BY <2>1, <2>2 DEF Lift
  <1>6. VarsOK'
    <2>1. events' \in 0 .. MaxEvents /\ orders' \in Nat /\ orders' <= events'
      BY <1>5, Counts DEF Lift
    <2>2. foiled' \in BOOLEAN
      BY DEF Lift, VarsOK
    <2> QED
      BY <1>2, <1>5, <2>1, <2>2 DEF Lift, VarsOK, bookVars, linkVars
  <1> QED
    BY <1>3, <1>4, <1>6

(* A repaired account is one, and its lots are in order but where one was  *)
(* reconstructed beside an open one.                                       *)
LEMMA RepairTyped ==
    ASSUME VarsOK, RunsOK, LotsOK, NEW r \in Reconcilers, NEW J,
           \A a \in Assets \ J : "PHANTOM" \in Of(r, a) => OpenRows(rows[a]) = {}
    PROVE  /\ Repair(r) \in Seq(Accounts)
           /\ Repair(r) # <<>> =>
                  \A a \in Assets \ (jumbled \cup J) : Neat(Head(Repair(r)).rows[a])
  <1> DEFINE R == [a \in Assets |-> Repaired(rows[a], Of(r, a), run[r].book[a], Now)]
             k == IF Of(r, "PORTFOLIO") # {} THEN run[r].cash ELSE cash
             acc == [rows |-> R, cash |-> k]
  <1>1. run[r] \in Runs /\ RunOK(run[r])
    BY DEF RunsOK
  <1>2. ASSUME NEW a \in Assets
        PROVE  /\ R[a] \in Rows
               /\ a \notin jumbled \cup J => Neat(R[a])
    <2>1. rows[a] \in Rows /\ run[r].book[a] \in Entry
      BY <1>1 DEF VarsOK, Runs
    <2>2. Of(r, a) \cap ({"PHANTOM"} \cup Mismatch) # {} => run[r].book[a].qty # 0
      BY <1>1 DEF RunOK, FoundOK, Within, Of
    <2>3. Now \in Nat
      BY DEF Now, VarsOK
    <2>4. PICK ks, now : ks = Of(r, a) /\ now = Now
      OBVIOUS
    <2>5. R[a] = Repaired(rows[a], ks, run[r].book[a], now)
      BY <2>4
    <2>6. a \notin jumbled \cup J => Neat(rows[a]) /\ ("PHANTOM" \in ks => OpenRows(rows[a]) = {})
      BY <2>4 DEF LotsOK
    <2> HIDE DEF R
    <2>7. now \in Nat /\ (ks \cap ({"PHANTOM"} \cup Mismatch) # {} => run[r].book[a].qty # 0)
      BY <2>2, <2>3, <2>4
    <2>8. /\ Repaired(rows[a], ks, run[r].book[a], now) \in Rows
          /\ Neat(rows[a]) /\ ("PHANTOM" \in ks => OpenRows(rows[a]) = {})
                => Neat(Repaired(rows[a], ks, run[r].book[a], now))
      BY <2>1, <2>7, RepairedOK
    <2> QED
      BY <2>5, <2>6, <2>8
  <1>3. R \in [Assets -> Rows]
    BY <1>2
  <1>4. k \in Nat
    BY <1>1 DEF Runs, VarsOK
  <1>5. Repair(r) = <<>> \/ Repair(r) = <<acc>>
    BY DEF Repair
  <1> HIDE DEF R, k
  <1>6. acc \in Accounts /\ acc.rows = R
    BY <1>3, <1>4 DEF Accounts
  <1> HIDE DEF acc
  <1>7. <<>> \in Seq(Accounts) /\ <<acc>> \in Seq(Accounts) /\ Head(<<acc>>) = acc
    BY <1>6
  <1> QED
    BY <1>2, <1>5, <1>6, <1>7

LEMMA LoadRepairOK == ASSUME NEW r \in Reconcilers PROVE FreezeInv /\ LoadRepair(r) => FreezeInv'
  <1> SUFFICES ASSUME FreezeInv, LoadRepair(r) PROVE FreezeInv'
    OBVIOUS
  <1> USE DEF FreezeInv
  <1> DEFINE x == run[r]
             J == {a \in Assets : "PHANTOM" \in Of(r, a) /\ OpenRows(rows[a]) # {}}
  <1>p. PICK k : k = Repair(r)
    OBVIOUS
  <1> DEFINE s == IF k = <<>> THEN "again" ELSE "save"
             z == [x EXCEPT !.copy = k, !.step = s]
             c1 == [x EXCEPT !.copy = k]
  <1>1. x \in Runs /\ RunOK(x) /\ Sees(x) /\ x.step = "repair"
    BY DEF RunsOK, Views, LoadRepair, At
  <1>0. jumbled' = jumbled \cup J /\ J \subseteq Assets
    BY DEF LoadRepair
  <1>2. /\ k \in Seq(Accounts)
        /\ k # <<>> => \A a \in Assets \ jumbled' : Neat(Head(k).rows[a])
    <2>1. \A a \in Assets \ J : "PHANTOM" \in Of(r, a) => OpenRows(rows[a]) = {}
      OBVIOUS
    <2> HIDE DEF J
    <2> QED
      BY <1>0, <1>p, <2>1, RepairTyped
  <1>3. run' = [run EXCEPT ![r] = z]
    BY <1>p DEF LoadRepair
  <1>4. c1 \in Runs
    BY <1>1, <1>2, SetField
  <1>5. [c1 EXCEPT !.step = s] \in Runs
    <2> HIDE DEF c1
    <2> QED
      BY <1>4, SetField DEF Steps
  <1>6. z \in Runs
    BY <1>5, Zenon
  <1>7. /\ z.step = s /\ z.scope = x.scope /\ z.cash = x.cash /\ z.book = x.book
        /\ z.found = x.found /\ z.copy = k /\ z.sure = x.sure
    BY <1>1 DEF Runs
  <1>q. PICK y : y = z
    OBVIOUS
  <1> HIDE DEF z
  <1>8. RunOK(y)
    BY <1>1, <1>2, <1>6, <1>7, <1>q DEF RunOK, FoundOK, Working
  <1>10. UNCHANGED <<venue, cash, rows, kite, flag, frozen, spared>>
    BY DEF LoadRepair, bookVars, linkVars
  <1>9. Sees(y)'
    <2>1. BrokerCash' = BrokerCash /\ BrokerBook' = BrokerBook
      BY <1>10 DEF BrokerCash, BrokerBook, PaperBook, OpenRows
    <2>2. Copied(y)'
      BY <1>2, <1>7, <1>q DEF Copied
    <2>3. y.sure = x.sure /\ y.cash = x.cash /\ y.book = x.book /\ y.found = x.found
          /\ y.step \in {"again", "save"} /\ jumbled \subseteq jumbled'
      BY <1>0, <1>7, <1>q
    <2> HIDE DEF x
    <2> QED
      BY <1>1, <1>10, <2>1, <2>2, <2>3 DEF Sees
  <1>11. /\ run' = [run EXCEPT ![r] = y] /\ y.scope = run[r].scope /\ y.step \in {"again", "save"}
    BY <1>3, <1>7, <1>q
  <1>12. /\ RunsOK' /\ Views' /\ LiftAgrees'
         /\ run'["monitor"].step = IF r = "monitor" THEN y.step ELSE run["monitor"].step
    BY <1>0, <1>8, <1>9, <1>10, <1>11, OnlyRun
  <1>13. FlagAgrees' /\ OutageFreezeHolds' /\ LotsOK'
    BY <1>0, <1>1, <1>10, <1>11, <1>12 DEF FlagAgrees, OutageFreezeHolds, LotsOK, At
  <1>14. VarsOK'
    BY <1>0, <1>10 DEF LoadRepair, VarsOK, bookVars, linkVars, counts
  <1> QED
    BY <1>12, <1>13, <1>14

LEMMA SaveOK == ASSUME NEW r \in Reconcilers PROVE FreezeInv /\ Save(r) => FreezeInv'
  <1> SUFFICES ASSUME FreezeInv, Save(r) PROVE FreezeInv'
    OBVIOUS
  <1> USE DEF FreezeInv
  <1> DEFINE x == run[r]
             Others == Reconcilers \ {r}
             z == [x EXCEPT !.step = "thaw", !.copy = <<>>]
             c1 == [x EXCEPT !.step = "thaw"]
  <1>1. x \in Runs /\ RunOK(x) /\ Sees(x) /\ x.step = "save"
    BY DEF RunsOK, Views, Save, At
  <1>2. Others \in SUBSET Reconcilers /\ r \notin Others
    OBVIOUS
  <1>3. Disturbed(Others)[r] = x
    BY <1>2, DisturbedOK
  <1>4. c1 \in Runs
    BY <1>1, SetField DEF Steps
  <1>5. [c1 EXCEPT !.copy = <<>>] \in Runs
    <2>1. <<>> \in Seq(Accounts)
      OBVIOUS
    <2> HIDE DEF c1
    <2> QED
      BY <1>4, <2>1, SetField
  <1>6. z \in Runs
    BY <1>5, Zenon
  <1>7. /\ z.step = "thaw" /\ z.scope = x.scope /\ z.cash = x.cash /\ z.book = x.book
        /\ z.found = x.found /\ z.copy = <<>> /\ z.sure = x.sure
    BY <1>1 DEF Runs
  <1>8. run' = [Disturbed(Others) EXCEPT ![r] = [Disturbed(Others)[r] EXCEPT !.step = "thaw",
                                                                            !.copy = <<>>]]
    BY Zenon DEF Save
  <1>9. run' = [Disturbed(Others) EXCEPT ![r] = z]
    BY <1>3, <1>8
  <1> HIDE DEF z
  <1>10. RunOK(z)
    BY <1>1, <1>6, <1>7 DEF RunOK, FoundOK, Working
  <1>11. /\ run' \in [Reconcilers -> Runs] /\ run'[r] = z
         /\ \A t \in Others :
                /\ run'[t].step = run[t].step /\ run'[t].scope = run[t].scope
                /\ run'[t].found = run[t].found /\ run'[t].copy = run[t].copy
                /\ RunOK(run'[t])
                /\ run[t].step # "idle" => run'[t].sure = FALSE
    <2> HIDE DEF Others
    <2>1. Disturbed(Others) \in [Reconcilers -> Runs]
      BY <1>2, DisturbedOK
    <2>2. run' \in [Reconcilers -> Runs] /\ run'[r] = z
      BY <1>6, <1>9, <2>1
    <2>3. ASSUME NEW t \in Others
          PROVE  /\ run'[t].step = run[t].step /\ run'[t].scope = run[t].scope
                 /\ run'[t].found = run[t].found /\ run'[t].copy = run[t].copy
                 /\ RunOK(run'[t])
                 /\ run[t].step # "idle" => run'[t].sure = FALSE
      <3>1. t # r /\ t \in Reconcilers
        BY <1>2
      <3>2. run'[t] = Disturbed(Others)[t]
        BY <1>9, <2>1, <3>1
      <3>3. /\ Disturbed(Others)[t].step = run[t].step
            /\ Disturbed(Others)[t].scope = run[t].scope
            /\ Disturbed(Others)[t].found = run[t].found
            /\ Disturbed(Others)[t].copy = run[t].copy
        BY <1>2, <3>1, DisturbedOK
      <3>4. run[t].step # "idle" => Disturbed(Others)[t].sure = FALSE
        BY <1>2, <3>1, DisturbedOK
      <3>5. RunOK(Disturbed(Others)[t])
        BY <1>2, <3>1, DisturbedOK
      <3> QED
        BY <3>2, <3>3, <3>4, <3>5
    <2> QED
      BY <2>2, <2>3
  <1>12. RunsOK'
    <2>1. \A t \in Reconcilers : RunOK(run'[t])
      BY <1>10, <1>11
    <2>2. \A t \in Reconcilers : run'[t].scope = run[t].scope
      BY <1>7, <1>11
    <2>3. run'["request"].step \notin {"freeze", "lift"}
      BY <1>7, <1>11 DEF RunsOK, Reconcilers
    <2> QED
      BY <1>11, <2>1, <2>2, <2>3 DEF RunsOK, Reconcilers
  <1>13. UNCHANGED <<venue, kite, flag, frozen, spared, jumbled>>
    BY DEF Save, linkVars, history
  <1>14. Views'
    <2> SUFFICES ASSUME NEW t \in Reconcilers PROVE Sees(run[t])'
      BY DEF Views
    <2>1. CASE t = r
      <3>1. venue # "paper" => BrokerCash' = BrokerCash /\ BrokerBook' = BrokerBook
        BY <1>13 DEF BrokerCash, BrokerBook
      <3>2. venue = "kite" => venue # "paper"
        OBVIOUS
      <3>3. run'[t] = z
        BY <1>11, <2>1
      <3>4. Copied(run[t])'
        BY <1>7, <3>3 DEF Copied
      <3> QED
        BY <1>1, <1>7, <1>13, <3>1, <3>2, <3>3, <3>4 DEF Sees
    <2>2. CASE t # r
      <3>1. t \in Others
        BY <2>2
      <3>2. Copied(run[t])'
        BY <1>11, <1>13, <3>1 DEF Views, Sees, Copied
      <3>3. CASE run[t].step # "idle"
        BY <1>11, <3>1, <3>2, <3>3 DEF Sees
      <3>4. CASE run[t].step = "idle"
        <4>1. run'[t].found = {} /\ run'[t].step = "idle"
          BY <1>11, <3>1, <3>4 DEF RunsOK, RunOK, Working
        <4> QED
          BY <3>2, <4>1 DEF Sees, Freezing, Synced
      <3> QED
        BY <3>3, <3>4
    <2> QED
      BY <2>1, <2>2
  <1>15. LiftAgrees'
    BY <1>7, <1>11 DEF LiftAgrees, Reconcilers
  <1>16. \/ run'["monitor"].step = run["monitor"].step
         \/ run["monitor"].step = "save" /\ run'["monitor"].step = "thaw"
    BY <1>1, <1>7, <1>11 DEF Reconcilers
  <1>17. FlagAgrees' /\ OutageFreezeHolds'
    BY <1>13, <1>16 DEF FlagAgrees, OutageFreezeHolds, At
  <1>18. VarsOK' /\ LotsOK'
    <2> DEFINE h == Head(x.copy)
    <2>1. h \in Accounts /\ \A a \in Assets \ jumbled : Neat(h.rows[a])
      <3>1. x.copy \in Seq(Accounts) /\ x.copy # <<>>
        BY <1>1 DEF Runs, RunOK
      <3>2. Head(x.copy) \in Accounts
        BY <3>1
      <3> QED
        BY <1>1, <3>1, <3>2 DEF Sees, Copied
    <2>2. rows' = h.rows /\ cash' = h.cash
      BY DEF Save
    <2> HIDE DEF h
    <2>3. rows' \in [Assets -> Rows] /\ cash' \in Nat
      BY <2>1, <2>2 DEF Accounts
    <2>4. LotsOK'
      BY <1>13, <2>1, <2>2 DEF LotsOK
    <2> QED
      BY <1>13, <2>3, <2>4 DEF Save, VarsOK, linkVars, history, counts
  <1> QED
    BY <1>12, <1>14, <1>15, <1>17, <1>18

LEMMA NextOK == FreezeInv /\ [Next]_vars => FreezeInv'
  <1> SUFFICES ASSUME FreezeInv, [Next]_vars PROVE FreezeInv'
    OBVIOUS
  <1>1. CASE UNCHANGED vars
    <2>1. UNCHANGED <<venue, link, rows, cash, kite, traded, flight, frozen, flag, downs,
                      ups, run, spared, foiled, jumbled, orders, events>>
      BY <1>1 DEF vars
    <2>2. VarsOK' /\ FlagAgrees'
      BY <2>1 DEF FreezeInv, VarsOK, FlagAgrees
    <2>3. RunsOK' /\ LotsOK' /\ Views' /\ LiftAgrees'
      BY <2>1, Still DEF FreezeInv
    <2>4. OutageFreezeHolds'
      BY <2>1 DEF FreezeInv, OutageFreezeHolds, At
    <2> QED
      BY <2>2, <2>3, <2>4 DEF FreezeInv
  <1>2. CASE \E a \in Assets : Execute(a) \/ External(a)
    BY <1>2, ExecuteOK, ExternalOK
  <1>3. CASE \E o \in flight : Book(o) \/ LoseFill(o)
    BY <1>3, BookOK, LoseFillOK
  <1>4. CASE Flip \/ HealthFreeze \/ Request
    BY <1>4, FlipOK, HealthFreezeOK, RequestOK
  <1>5. CASE \E r \in Reconcilers : Reconcile(r)
    BY <1>5, ReadCashOK, ReadBookOK, CompareOK, LoadRepairOK, SaveOK, RaiseOK, ThawOK,
       AgainOK DEF Reconcile
  <1>6. CASE MonitorDown \/ MonitorUp \/ MonitorFreeze \/ Lift
    BY <1>6, MonitorDownOK, MonitorUpOK, MonitorFreezeOK, LiftOK
  <1> QED
    BY <1>1, <1>2, <1>3, <1>4, <1>5, <1>6 DEF Next, Monitor, Reconcilers

LEMMA InvHolds == Spec => []FreezeInv
  BY InitOK, NextOK, PTL DEF Spec

------------------------------------------------------------------------------
(* What follows *)

(* Every variable of the dead man's switch and of the reconciliations      *)
(* keeps its type; a saved copy exists exactly between repair and save.    *)
THEOREM TypeCorrect == Spec => []TypeOK
  <1>1. FreezeInv => TypeOK
    <2> SUFFICES ASSUME FreezeInv PROVE TypeOK
      OBVIOUS
    <2>1. {link, flag, foiled} \subseteq BOOLEAN
      BY Zenon DEF FreezeInv, VarsOK
    <2>2. \A r \in Reconcilers :
             /\ run[r].step \in Steps
             /\ run[r].scope \subseteq All
             /\ run[r].book \in [Assets -> Entry] /\ run[r].cash \in Nat
             /\ run[r].found \subseteq Kinds \X All
             /\ (At(r, "save") <=> run[r].copy # <<>>)
      BY DEF FreezeInv, RunsOK, RunOK, Runs, At
    <2>3. ~At("request", "lift")
      BY DEF FreezeInv, RunsOK, At
    <2>4. orders \in 0 .. events
      BY DEF FreezeInv, VarsOK
    <2> QED
      BY <2>1, <2>2, <2>3, <2>4 DEF FreezeInv, VarsOK, TypeOK, Rows, All, Steps
  <1> QED
    BY <1>1, InvHolds, PTL

(* The paper venue never disagrees with itself: a reconciliation with it   *)
(* in which nothing changed and nothing failed freezes and repairs nothing *)
(* but assets whose lots were booked or reconstructed out of order.        *)
THEOREM PaperQuiet == Spec => []PaperAgreesWithItself
  <1>1. FreezeInv => PaperAgreesWithItself
    BY DEF FreezeInv, Views, Sees, PaperAgreesWithItself
  <1> QED
    BY <1>1, InvHolds, PTL

(* From an outage's freeze to the next good connection what it reached of  *)
(* the universe stays frozen but for the assets a reconciliation repaired. *)
THEOREM FreezeHolds == Spec => []OutageFreezeHolds
  <1>1. FreezeInv => OutageFreezeHolds
    BY DEF FreezeInv
  <1> QED
    BY <1>1, InvHolds, PTL

(* A single open lot of a neat list is the one the comparison sees.        *)
LEMMA OnlyLot ==
    ASSUME NEW s \in Rows, Neat(s), Cardinality(OpenRows(s)) <= 1
    PROVE  /\ OpenRows(s) # {} <=> LocalOf(s).open
           /\ \A i \in OpenRows(s) : s[i] = LocalOf(s)
  <1>1. DOMAIN s = 1..Len(s) /\ Len(s) \in Nat
    BY LenProperties DEF Rows
  <1>2. OpenRows(s) # {} <=> LocalOf(s).open
    BY SameLot
  <1>3. ASSUME NEW i \in OpenRows(s) PROVE s[i] = LocalOf(s)
    <2> DEFINE g == Greatest(OpenRows(s))
    <2>1. g \in OpenRows(s) /\ s[g] = LocalOf(s)
      BY <1>3, SameLot, GreatestOK
    <2> HIDE DEF g
    <2>2. {i, g} \subseteq OpenRows(s)
      BY <1>3, <2>1
    <2>3. IsFiniteSet(OpenRows(s))
      <3>1. IsFiniteSet(1..Len(s))
        BY <1>1, FS_Interval
      <3> QED
        BY <1>1, <3>1, FS_Subset DEF OpenRows
    <2>4. Cardinality({i, g}) <= 1 /\ IsFiniteSet({i, g})
      <3>1. IsFiniteSet({i, g}) /\ Cardinality({i, g}) <= Cardinality(OpenRows(s))
        BY <2>2, <2>3, FS_Subset
      <3>2. Cardinality({i, g}) \in Nat /\ Cardinality(OpenRows(s)) \in Nat
        BY <2>3, <3>1, FS_CardinalityType
      <3> QED
        BY <3>1, <3>2
    <2>5. Cardinality({i, g}) = 0 \/ Cardinality({i, g}) = 1
      BY <2>4, FS_CardinalityType
    <2>6. PICK e : {i, g} = {e}
      BY <2>4, <2>5, FS_EmptySet, FS_Singleton
    <2>7. i \in {e} /\ g \in {e}
      BY <2>6, Zenon
    <2> QED
      BY <2>1, <2>7
  <1> QED
    BY <1>2, <1>3

(* The freezes of an outage are lifted only when the account agrees with   *)
(* the venue, as far as an undisturbed comparison can tell.                *)
THEOREM LiftAligned == Spec => []LiftMeansAligned
  <1>1. FreezeInv => LiftMeansAligned
    <2> SUFFICES ASSUME FreezeInv, At("monitor", "lift"), run["monitor"].sure
                 PROVE  /\ cash = BrokerCash
                        /\ \A a \in Assets \ jumbled :
                               Cardinality(OpenRows(rows[a])) <= 1
                                   => Holds(rows[a], BrokerBook[a])
      BY DEF LiftMeansAligned
    <2> USE DEF FreezeInv
    <2>0. "monitor" \in Reconcilers /\ run["monitor"].step = "lift"
      BY DEF At, Reconcilers
    <2>1. /\ run["monitor"].cash = cash
          /\ \A a \in Assets : Kind(run["monitor"].book[a], LocalOf(rows[a])) = {}
      BY <2>0 DEF LiftAgrees
    <2>2. venue = "kite" => run["monitor"].cash = BrokerCash /\ run["monitor"].book = BrokerBook
      BY <2>0 DEF Views, Sees
    <2>3. cash = BrokerCash
      BY <2>1, <2>2 DEF BrokerCash, VarsOK
    <2>4. ASSUME NEW a \in Assets \ jumbled, Cardinality(OpenRows(rows[a])) <= 1
          PROVE  Holds(rows[a], BrokerBook[a])
      <3> DEFINE s == rows[a]
      <3>1. s \in Rows /\ Neat(s)
        BY DEF VarsOK, LotsOK
      <3>2. PICK l : l = LocalOf(s)
        OBVIOUS
      <3>3. /\ OpenRows(s) # {} <=> l.open
            /\ \A i \in OpenRows(s) : s[i] = l
        BY <2>4, <3>1, <3>2, OnlyLot
      <3>4. l \in Row
        BY <3>1, <3>2, LocalOfOK
      <3>5. PICK b : b = BrokerBook[a]
        OBVIOUS
      <3>6. IF b.qty = 0 THEN ~l.open ELSE l.open /\ l.qty = b.qty /\ l.price = b.price
        <4>1. CASE venue = "kite"
          <5>1. b \in Entry
            BY <3>5, BrokerOK
          <5>2. Kind(b, l) = {}
            BY <2>1, <2>2, <3>2, <3>5, <4>1
          <5> QED
            BY <3>4, <5>1, <5>2, KindOK
        <4>2. CASE venue = "paper"
          <5>1. b = PaperBook[a]
            BY <3>5, <4>2 DEF BrokerBook
          <5>2. CASE OpenRows(s) = {}
            <6>1. b = Nothing
              BY <5>1, <5>2 DEF PaperBook
            <6> QED
              BY <3>3, <5>2, <6>1 DEF Nothing
          <5>3. CASE OpenRows(s) # {}
            <6>1. s[Greatest(OpenRows(s))] = l
              BY <3>1, <3>3, <5>3, GreatestOK
            <6>2. b = [Nothing EXCEPT !.qty = l.qty, !.price = l.price]
              BY <5>1, <5>3, <6>1 DEF PaperBook
            <6>3. b.qty = l.qty /\ b.price = l.price
              BY <6>2 DEF Nothing
            <6> QED
              BY <3>3, <3>4, <5>3, <6>3 DEF Row
          <5> QED
            BY <5>2, <5>3
        <4> QED
          BY <4>1, <4>2 DEF VarsOK
      <3> HIDE DEF s
      <3>7. Holds(s, b)
        <4>1. CASE OpenRows(s) = {}
          BY <3>3, <3>6, <4>1 DEF Holds
        <4>2. CASE OpenRows(s) # {}
          <5>1. \A i \in OpenRows(s) : s[i].qty = b.qty /\ s[i].price = b.price
            BY <3>3, <3>6, <4>2
          <5> QED
            BY <4>2, <5>1 DEF Holds
        <4> QED
          BY <4>1, <4>2
      <3> QED
        BY <3>5, <3>7 DEF s
    <2> QED
      BY <2>3, <2>4
  <1> QED
    BY <1>1, InvHolds, PTL
================================================================================
