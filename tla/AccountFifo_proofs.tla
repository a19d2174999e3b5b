-------------------------- MODULE AccountFifo_proofs --------------------------
(***************************************************************************)
(* Theorems about AccountFifo, for any markets, prices, quantities and     *)
(* number of trades: what Account.apply_trade's loop over the opposite     *)
(* lots comes to, however many lots there are and whichever of them the    *)
(* trade reaches.                                                          *)
(*                                                                         *)
(* The loop is a fold from the oldest lot to the newest.  Looped says what *)
(* it has done once it has been through some of them, oldest first, and    *)
(* is shown for all of them by induction on that set (Subsets, of module   *)
(* Sums).  Moved says what one lot's change does to every sum over lots.   *)
(***************************************************************************)
EXTENDS AccountFifo, Sums

------------------------------------------------------------------------------
(* The loop over the opposite lots.  As with sums, it is a recursive       *)
(* function on the subsets of the lots, and what it computes is shown by   *)
(* induction on them.                                                      *)

(* g maps each subset of S to what matching it makes of st. *)
IsLoop(g, tr, st, S) ==
    g = [s \in SUBSET S |->
            IF s = {} THEN st
            ELSE Match(tr, g[s \ {NewestLast(s)}], NewestLast(s))]

LEMMA NewestIsLast ==
    ASSUME NEW S \in SUBSET Int, IsFiniteSet(S), S # {}
    PROVE  NewestLast(S) \in S /\ \A x \in S : x <= NewestLast(S)
  <1> DEFINE P == {s \in SUBSET S : s = {} \/ \E n \in s : \A x \in s : x <= n}
  <1>1. ASSUME NEW s \in SUBSET S, \A t \in SUBSET s : t # s => t \in P
        PROVE  s \in P
    <2> SUFFICES ASSUME NEW y \in s
                 PROVE  \E n \in s : \A x \in s : x <= n
      OBVIOUS
    <2>1. s \ {y} \in P
      BY <1>1
    <2>2. CASE s \ {y} = {}
      BY <2>2
    <2>3. ASSUME NEW n \in s \ {y}, \A x \in s \ {y} : x <= n
          PROVE  \E k \in s : \A x \in s : x <= k
      <3>1. CASE n <= y
        BY <2>3, <3>1
      <3>2. CASE y <= n
        BY <2>3, <3>2
      <3> QED
        BY <3>1, <3>2
    <2> QED
      BY <2>1, <2>2, <2>3
  <1> HIDE DEF P
  <1>2. S \in P
    BY <1>1, Subsets
  <1>3. \E n \in S : \A x \in S : n >= x
    BY <1>2 DEF P
  <1> QED
    BY <1>3 DEF NewestLast, Max

LEMMA LoopUnique ==
    ASSUME NEW S \in SUBSET Int, IsFiniteSet(S), NEW T, NEW tr, NEW st, NEW g, NEW h,
           IsLoop(g, tr, st, S), IsLoop(h, tr, st, T)
    PROVE  \A s \in SUBSET (S \cap T) : g[s] = h[s]
  <1> DEFINE P == {s \in SUBSET (S \cap T) : g[s] = h[s]}
  <1>1. IsFiniteSet(S \cap T)
    BY FS_Subset
  <1>2. ASSUME NEW s \in SUBSET (S \cap T), \A t \in SUBSET s : t # s => t \in P
        PROVE  s \in P
    <2>1. /\ g[s] = IF s = {} THEN st ELSE Match(tr, g[s \ {NewestLast(s)}], NewestLast(s))
          /\ h[s] = IF s = {} THEN st ELSE Match(tr, h[s \ {NewestLast(s)}], NewestLast(s))
      BY DEF IsLoop
    <2>2. CASE s = {}
      BY <2>1, <2>2
    <2>3. CASE s # {}
      <3>1. NewestLast(s) \in s
        BY <1>1, <2>3, FS_Subset, NewestIsLast
      <3>2. s \ {NewestLast(s)} \in P
        BY <1>2, <3>1
      <3> QED
        BY <2>1, <2>3, <3>2
    <2> QED
      BY <2>2, <2>3
  <1> HIDE DEF P
  <1>3. \A s \in SUBSET (S \cap T) : s \in P
    BY <1>1, <1>2, Subsets
  <1> QED
    BY <1>3 DEF P

LEMMA LoopExists ==
    ASSUME NEW S \in SUBSET Int, IsFiniteSet(S), NEW tr, NEW st
    PROVE  \E g : IsLoop(g, tr, st, S)
  <1> DEFINE P == {s \in SUBSET S : \E g : IsLoop(g, tr, st, s)}
             G(s) == CHOOSE g : IsLoop(g, tr, st, s)
  <1>0. \A s \in SUBSET S : s # {} => NewestLast(s) \in s
    BY FS_Subset, NewestIsLast
  <1>1. ASSUME NEW s \in SUBSET S, \A t \in SUBSET s : t # s => t \in P
        PROVE  s \in P
    <2> DEFINE Rest(t) == t \ {NewestLast(t)}
               v == IF s = {} THEN st
                    ELSE Match(tr, G(Rest(s))[Rest(s)], NewestLast(s))
               g == [t \in SUBSET s |-> IF t = s THEN v ELSE G(t)[t]]
    <2>1. \A t \in SUBSET s : t # s => IsLoop(G(t), tr, st, t) /\ IsFiniteSet(t)
      BY <1>1, FS_Subset
    <2>2. ASSUME NEW t \in SUBSET s
          PROVE  g[t] = IF t = {} THEN st ELSE Match(tr, g[Rest(t)], NewestLast(t))
      <3>1. CASE t = {} /\ t = s
        BY <3>1
      <3>2. CASE t = {} /\ t # s
        <4>1. IsLoop(G(t), tr, st, t)
          BY <2>1, <3>2
        <4>2. G(t)[t] = st
          BY <3>2, <4>1 DEF IsLoop
        <4> QED
          BY <3>2, <4>2
      <3>3. CASE t # {}
        <4> DEFINE u == Rest(t)
        <4>1. u \in SUBSET t /\ u \in SUBSET s /\ u # t /\ u # s
          BY <1>0, <3>3
        <4>2. g[u] = G(u)[u]
          BY <4>1
        <4>3. CASE t = s
          BY <3>3, <4>2, <4>3
        <4>4. CASE t # s
          <5>1. /\ IsLoop(G(t), tr, st, t) /\ IsFiniteSet(t) /\ t \in SUBSET Int
                /\ IsLoop(G(u), tr, st, u)
            BY <2>1, <4>1, <4>4
          <5>2. G(t)[t] = Match(tr, G(t)[u], NewestLast(t))
            BY <3>3, <5>1 DEF IsLoop
          <5> HIDE DEF G, u
          <5>3. G(t)[u] = G(u)[u]
            BY <4>1, <5>1, LoopUnique
          <5>4. g[t] = G(t)[t]
            BY <4>4
          <5> QED
            BY <3>3, <4>2, <5>2, <5>3, <5>4 DEF u
        <4> QED
          BY <4>3, <4>4
      <3> QED
        BY <3>1, <3>2, <3>3
    <2>3. IsLoop(g, tr, st, s)
      <3>1. g = [t \in SUBSET s |-> g[t]]
        OBVIOUS
      <3> HIDE DEF g
      <3>2. [t \in SUBSET s |-> g[t]]
              = [t \in SUBSET s |->
                    IF t = {} THEN st ELSE Match(tr, g[Rest(t)], NewestLast(t))]
        BY <2>2
      <3> QED
        BY <3>1, <3>2 DEF IsLoop
    <2> QED
      BY <2>3
  <1> HIDE DEF P
  <1>2. \A s \in SUBSET S : s \in P
    BY <1>1, Subsets
  <1> QED
    BY <1>2 DEF P

(* The loop over S matches its newest lot last. *)
LEMMA MatchAllStep ==
    ASSUME NEW S \in SUBSET Int, IsFiniteSet(S), NEW tr, NEW st
    PROVE  /\ MatchAll(tr, st, {}) = st
           /\ S # {} => MatchAll(tr, st, S)
                          = Match(tr, MatchAll(tr, st, S \ {NewestLast(S)}), NewestLast(S))
  <1> DEFINE G(s) == CHOOSE g : IsLoop(g, tr, st, s)
             u == S \ {NewestLast(S)}
  <1>1. \A s : MatchAll(tr, st, s) = G(s)[s]
    BY DEF MatchAll, MapThenFoldSet, IsLoop
  <1>2. IsFiniteSet(u) /\ u \in SUBSET S /\ IsFiniteSet({})
    BY FS_Subset, FS_EmptySet
  <1>3. IsLoop(G(S), tr, st, S) /\ IsLoop(G(u), tr, st, u) /\ IsLoop(G({}), tr, st, {})
    BY <1>2, LoopExists
  <1> HIDE DEF G
  <1>4. /\ S # {} => G(S)[S] = Match(tr, G(S)[u], NewestLast(S))
        /\ G({})[{}] = st
    BY <1>3 DEF IsLoop
  <1>5. G(S)[u] = G(u)[u]
    BY <1>2, <1>3, LoopUnique
  <1> QED
    BY <1>1, <1>4, <1>5

------------------------------------------------------------------------------
(* Gains.  Closing quantity c of a lot at the trade's price realizes what  *)
(* that part of the lot is worth at any price x plus what the trade would  *)
(* have gained on it there.                                                *)

LEMMA SignType == \A s : Sign(s) \in {1, -1}
  BY DEF Sign

LEMMA TwoSides ==
    /\ N!Sides = {"long", "short"}
    /\ \A s, t \in N!Sides : s # t => Sign(s) = 0 - Sign(t) /\ t = N!Opposite(s)
  <1>1. N!Sides = {"long", "short"}
    BY DEF N!Sides
  <1>2. Sign("long") = 1 /\ Sign("short") = 0 - 1
    BY DEF Sign
  <1>3. N!Opposite("long") = "short" /\ N!Opposite("short") = "long"
    BY DEF N!Opposite
  <1>4. ASSUME NEW s \in N!Sides, NEW t \in N!Sides, s # t
        PROVE  Sign(s) = 0 - Sign(t) /\ t = N!Opposite(s)
    <2>1. CASE s = "long" /\ t = "short"
      BY <1>2, <1>3, <2>1
    <2>2. CASE s = "short" /\ t = "long"
      BY <1>2, <1>3, <2>2
    <2> QED
      BY <1>1, <1>4, <2>1, <2>2
  <1> QED
    BY <1>1, <1>4

LEMMA GainFacts ==
    ASSUME NEW s, NEW e \in Int, NEW p \in Int, NEW a \in Int, NEW c \in Int
    PROVE  /\ Gain(s, e, p, a) \in Int
           /\ Gain(s, e, p, 0) = 0
           /\ Gain(s, e, p, a - c) = Gain(s, e, p, a) - Gain(s, e, p, c)
  <1>1. CASE Sign(s) = 1
    BY <1>1 DEF Gain
  <1>2. CASE Sign(s) = -1
    BY <1>2 DEF Gain
  <1> QED
    BY <1>1, <1>2, SignType

LEMMA GainLess ==
    ASSUME NEW s, NEW e \in Int, NEW p \in Int, NEW a \in Int, NEW c \in Int,
           NEW b, b = a - c
    PROVE  Gain(s, e, p, b) = Gain(s, e, p, a) - Gain(s, e, p, c)
  BY GainFacts

LEMMA GainClosed ==
    ASSUME NEW s \in N!Sides, NEW t \in N!Sides, s # t,
           NEW e \in Int, NEW p \in Int, NEW x \in Int, NEW c \in Int
    PROVE  Gain(s, e, p, c) = Gain(s, e, x, c) + Gain(t, p, x, c)
  <1>1. (p - e) * c = (x - e) * c - (x - p) * c
    OBVIOUS
  <1>2. (p - e) * c \in Int /\ (x - e) * c \in Int /\ (x - p) * c \in Int
    OBVIOUS
  <1>3. CASE Sign(s) = 1 /\ Sign(t) = -1
    BY <1>1, <1>2, <1>3 DEF Gain
  <1>4. CASE Sign(s) = -1 /\ Sign(t) = 1
    BY <1>1, <1>2, <1>4 DEF Gain
  <1> QED
    BY <1>3, <1>4, TwoSides, SignType

------------------------------------------------------------------------------
(* Sums over lots and over trades. *)

Qtys(table, S) == [i \in S |-> table[i].qty]

Worths(ls, x) ==
    [i \in Open(ls) |-> Gain(ls[i].side, ls[i].entry, x[ls[i].market], ls[i].qty)]

Gains(table, A, x) ==
    [i \in A |-> Gain(table[i].side, table[i].price, x[table[i].market], table[i].qty)]

LEMMA QtySumTotal ==
    ASSUME NEW table, NEW S
    PROVE  QtySum(table, S) = Total(Qtys(table, S), S)
  <1> DEFINE f == Qtys(table, S)
             R(g) == g = [u \in SUBSET S |->
                              IF u = {} THEN 0
                              ELSE table[CHOOSE x \in u : TRUE].qty
                                     + g[u \ {CHOOSE x \in u : TRUE}]]
  <1>1. QtySum(table, S) = (CHOOSE g : R(g))[S]
    BY DEF QtySum, MapThenSumSet, MapThenFoldSet
  <1>2. Total(f, S) = (CHOOSE g : IsSum(g, f, S))[S]
    BY DEF Total, MapThenSumSet, MapThenFoldSet, IsSum, Some
  <1>3. ASSUME NEW g
        PROVE  R(g) <=> IsSum(g, f, S)
    <2>1. \A u \in SUBSET S : u # {} => f[Some(u)] = table[Some(u)].qty
      BY SomeOf DEF Qtys
    <2> HIDE DEF f
    <2> QED
      BY <2>1 DEF IsSum, Some
  <1> HIDE DEF R, f
  <1>4. (CHOOSE g : R(g)) = (CHOOSE g : IsSum(g, f, S))
    BY <1>3
  <1> QED
    BY <1>1, <1>2, <1>4 DEF f

LEMMA WorthTotal ==
    ASSUME NEW ls, NEW x
    PROVE  Worth(ls, x) = Total(Worths(ls, x), Open(ls))
  <1> DEFINE S == Open(ls)
             f == Worths(ls, x)
             V(i) == Gain(ls[i].side, ls[i].entry, x[ls[i].market], ls[i].qty)
             R(g) == g = [u \in SUBSET S |->
                              IF u = {} THEN 0
                              ELSE V(CHOOSE y \in u : TRUE)
                                     + g[u \ {CHOOSE y \in u : TRUE}]]
  <1>1. Worth(ls, x) = (CHOOSE g : R(g))[S]
    BY DEF Worth, MapThenSumSet, MapThenFoldSet
  <1>2. Total(f, S) = (CHOOSE g : IsSum(g, f, S))[S]
    BY DEF Total, MapThenSumSet, MapThenFoldSet, IsSum, Some
  <1>3. ASSUME NEW g
        PROVE  R(g) <=> IsSum(g, f, S)
    <2>1. \A u \in SUBSET S : u # {} => f[Some(u)] = V(Some(u))
      BY SomeOf DEF Worths
    <2> HIDE DEF f, V, S
    <2> QED
      BY <2>1 DEF IsSum, Some
  <1> HIDE DEF R, f, S
  <1>4. (CHOOSE g : R(g)) = (CHOOSE g : IsSum(g, f, S))
    BY <1>3
  <1> QED
    BY <1>1, <1>2, <1>4 DEF f, S

LEMMA GainedTotal ==
    ASSUME NEW table, NEW A, NEW x
    PROVE  Gained(table, A, x) = Total(Gains(table, A, x), A)
  <1> DEFINE f == Gains(table, A, x)
             V(i) == Gain(table[i].side, table[i].price, x[table[i].market], table[i].qty)
             R(g) == g = [u \in SUBSET A |->
                              IF u = {} THEN 0
                              ELSE V(CHOOSE y \in u : TRUE)
                                     + g[u \ {CHOOSE y \in u : TRUE}]]
  <1>1. Gained(table, A, x) = (CHOOSE g : R(g))[A]
    BY DEF Gained, MapThenSumSet, MapThenFoldSet
  <1>2. Total(f, A) = (CHOOSE g : IsSum(g, f, A))[A]
    BY DEF Total, MapThenSumSet, MapThenFoldSet, IsSum, Some
  <1>3. ASSUME NEW g
        PROVE  R(g) <=> IsSum(g, f, A)
    <2>1. \A u \in SUBSET A : u # {} => f[Some(u)] = V(Some(u))
      BY SomeOf DEF Gains
    <2> HIDE DEF f, V
    <2> QED
      BY <2>1 DEF IsSum, Some
  <1> HIDE DEF R, f
  <1>4. (CHOOSE g : R(g)) = (CHOOSE g : IsSum(g, f, A))
    BY <1>3
  <1> QED
    BY <1>1, <1>2, <1>4 DEF f

------------------------------------------------------------------------------
(* One lot of the loop. *)

(* The unrealized gain stored with a lot is what its quantity is worth. *)
LotOK(l) ==
    /\ l \in Lots
    /\ l.unrealized = IF l.open THEN Gain(l.side, l.entry, l.current, l.qty) ELSE 0

SameKind(k, l) == k.market = l.market /\ k.side = l.side /\ k.entry = l.entry

LEMMA LotType ==
    ASSUME NEW l \in Lots
    PROVE  /\ l.entry \in Int /\ l.current \in Int /\ l.qty \in Int /\ l.qty > 0
           /\ l.side \in N!Sides /\ l.market \in Markets /\ l.open \in BOOLEAN
           /\ l.entry \in Prices /\ l.qty \in 1..MaxQty
  <1>1. MaxQty \in Int /\ \A p \in Prices : p \in Nat
    BY BoundsAssumption, PricesAssumption
  <1>2. l.entry \in Prices /\ l.current \in Prices /\ l.qty \in 1..MaxQty
    BY DEF Lots
  <1>3. l.side \in N!Sides /\ l.market \in Markets /\ l.open \in BOOLEAN
    BY DEF Lots
  <1>4. l.entry \in Int /\ l.current \in Int
    BY <1>1, <1>2
  <1>5. l.qty \in Int /\ l.qty > 0
    BY <1>1, <1>2
  <1> QED
    BY <1>2, <1>3, <1>4, <1>5

LEMMA TradeType ==
    ASSUME NEW tr \in Trades
    PROVE  /\ tr.price \in Int /\ tr.price \in Prices
           /\ tr.qty \in Nat /\ tr.qty > 0 /\ tr.qty \in 1..MaxQty
           /\ tr.side \in N!Sides /\ tr.market \in Markets
  <1>1. MaxQty \in Int /\ \A p \in Prices : p \in Nat
    BY BoundsAssumption, PricesAssumption
  <1>2. tr.price \in Prices /\ tr.qty \in 1..MaxQty
    BY DEF Trades
  <1>3. tr.side \in N!Sides /\ tr.market \in Markets
    BY DEF Trades
  <1>4. tr.price \in Int
    BY <1>1, <1>2
  <1>5. tr.qty \in Nat /\ tr.qty > 0
    BY <1>1, <1>2
  <1> QED
    BY <1>2, <1>3, <1>4, <1>5

(* Matching closes c of lot l, and nothing else.                           *)
LEMMA MatchOne ==
    ASSUME NEW tr \in Trades, NEW st, NEW id \in DOMAIN st.lots, NEW l, l = st.lots[id],
           LotOK(l), l.open, st.left \in Nat, st.gained \in Int,
           NEW c, c = IF st.left < l.qty THEN st.left ELSE l.qty,
           NEW n, n = Match(tr, st, id)
    PROVE  /\ n.left = st.left - c
           /\ n.gained = st.gained + Gain(l.side, l.entry, tr.price, c)
           /\ DOMAIN n.lots = DOMAIN st.lots
           /\ \A i \in DOMAIN st.lots \ {id} : n.lots[i] = st.lots[i]
           /\ LotOK(n.lots[id]) /\ SameKind(n.lots[id], l) /\ QtyLeft(n.lots, id) = l.qty - c
  <1>1. /\ l \in Lots /\ l.entry \in Int /\ l.current \in Int /\ l.qty \in Int /\ l.qty > 0
        /\ l.entry \in Prices /\ l.qty \in 1..MaxQty
    BY LotType DEF LotOK
  <1>2. tr.price \in Int /\ tr.price \in Prices
    BY TradeType
  <1>3. CASE st.left = 0
    <2>1. c = 0 /\ n = st
      BY <1>1, <1>3 DEF Match
    <2>2. Gain(l.side, l.entry, tr.price, 0) = 0
      BY <1>1, <1>2, GainFacts
    <2> QED
      BY <1>1, <2>1, <2>2 DEF QtyLeft, SameKind
  <1>4. CASE st.left # 0 /\ st.left >= l.qty
    <2>1. c = l.qty /\ n = CloseFully(st, id, tr)
      BY <1>1, <1>4 DEF Match
    <2> DEFINE k == [l EXCEPT !.current = tr.price, !.unrealized = 0, !.open = FALSE]
    <2>2. /\ DOMAIN n.lots = DOMAIN st.lots
          /\ \A i \in DOMAIN st.lots \ {id} : n.lots[i] = st.lots[i]
          /\ n.lots[id] = k
          /\ n.gained = st.gained + Gain(l.side, l.entry, tr.price, l.qty)
          /\ n.left = st.left - l.qty
      <3>1. n.lots = [st.lots EXCEPT ![id].current = tr.price,
                                    ![id].unrealized = 0,
                                    ![id].open = FALSE]
        BY <2>1 DEF CloseFully
      <3>2. /\ n.gained = st.gained + Gain(l.side, l.entry, tr.price, l.qty)
            /\ n.left = st.left - l.qty
        BY <2>1 DEF CloseFully
      <3> QED
        BY <3>1, <3>2
    <2>3. k \in Lots /\ ~k.open /\ k.unrealized = 0 /\ SameKind(k, l)
      <3>1. k.market = l.market /\ k.side = l.side /\ k.entry = l.entry
        BY <1>1 DEF Lots
      <3>2. k \in Lots
        <4>1. 0 \in Int /\ FALSE \in BOOLEAN
          OBVIOUS
        <4> QED
          BY <1>1, <1>2, <4>1 DEF Lots
      <3>3. ~k.open /\ k.unrealized = 0
        BY <1>1 DEF Lots
      <3> QED
        BY <3>1, <3>2, <3>3 DEF SameKind
    <2>4. LotOK(k) /\ QtyLeft(n.lots, id) = 0
      BY <2>2, <2>3 DEF LotOK, QtyLeft
    <2> HIDE DEF k
    <2> QED
      BY <1>1, <2>1, <2>2, <2>3, <2>4
  <1>5. CASE st.left # 0 /\ st.left < l.qty
    <2>1. c = st.left /\ n = ClosePartly(st, id, tr)
      BY <1>1, <1>5 DEF Match
    <2> DEFINE q == l.qty - st.left
               k == UpdatePrice([l EXCEPT !.qty = q], tr.price)
    <2>2. /\ n.lots = [st.lots EXCEPT ![id] = k]
          /\ n.gained = st.gained + Gain(l.side, l.entry, tr.price, st.left)
          /\ n.left = 0
      BY <2>1 DEF ClosePartly
    <2>3. q \in 1..MaxQty
      BY <1>1, <1>5, BoundsAssumption
    <2>4. Gain(l.side, l.entry, tr.price, q) \in Int
      BY <1>1, <1>2, <2>3, BoundsAssumption, GainFacts
    <2> HIDE DEF q
    <2>5. k = [l EXCEPT !.qty = q, !.current = tr.price,
                        !.unrealized = Gain(l.side, l.entry, tr.price, q)]
      BY <1>1 DEF UpdatePrice, Lots
    <2>6. /\ k \in Lots /\ k.open /\ SameKind(k, l) /\ k.qty = q
          /\ k.current = tr.price /\ k.unrealized = Gain(l.side, l.entry, tr.price, q)
      BY <1>1, <1>2, <2>3, <2>4, <2>5 DEF Lots, SameKind
    <2> HIDE DEF k
    <2>7. LotOK(k) /\ QtyLeft(n.lots, id) = q
      BY <2>2, <2>6 DEF LotOK, QtyLeft, SameKind
    <2> QED
      BY <1>1, <2>1, <2>2, <2>6, <2>7 DEF q
  <1> QED
    BY <1>1, <1>3, <1>4, <1>5

------------------------------------------------------------------------------
(* What the sums over the lots become when one lot changes. *)

QtyShare(table, S, i) == IF i \in S THEN table[i].qty ELSE 0

LEMMA QtyChange ==
    ASSUME NEW S, IsFiniteSet(S), NEW T, IsFiniteSet(T), NEW p, NEW q, NEW e,
           \A i \in S : p[i].qty \in Int, \A i \in T : q[i].qty \in Int,
           S \ {e} = T \ {e}, \A i \in S \ {e} : p[i].qty = q[i].qty
    PROVE  /\ QtySum(q, T) = QtySum(p, S) - QtyShare(p, S, e) + QtyShare(q, T, e)
           /\ QtySum(p, S) \in Int
  <1> DEFINE f == Qtys(p, S)
             h == Qtys(q, T)
  <1>1. /\ \A i \in S : f[i] = p[i].qty
        /\ \A i \in T : h[i] = q[i].qty
    BY DEF Qtys
  <1>2. QtySum(p, S) = Total(f, S) /\ QtySum(q, T) = Total(h, T)
    BY QtySumTotal
  <1> HIDE DEF f, h
  <1>3. /\ Total(h, T) = Total(f, S) - Share(f, S, e) + Share(h, T, e)
        /\ Total(f, S) \in Int /\ Share(f, S, e) \in Int /\ Share(h, T, e) \in Int
    BY <1>1, TotalChange
  <1>4. Share(f, S, e) = QtyShare(p, S, e) /\ Share(h, T, e) = QtyShare(q, T, e)
    BY <1>1 DEF Share, QtyShare
  <1> QED
    BY <1>2, <1>3, <1>4

LEMMA PriceType ==
    ASSUME NEW x \in [Markets -> Prices], NEW m \in Markets
    PROVE  x[m] \in Int /\ x[m] \in Prices
  <1>1. \A p \in Prices : p \in Int
    BY PricesAssumption
  <1> QED
    BY <1>1

(* The worth of a lot, whether open or not. *)
LEMMA LotWorth ==
    ASSUME NEW ls, NEW x \in [Markets -> Prices], \A i \in DOMAIN ls : LotOK(ls[i])
    PROVE  \A i \in Open(ls) :
              /\ Worths(ls, x)[i] \in Int
              /\ Worths(ls, x)[i] = Gain(ls[i].side, ls[i].entry, x[ls[i].market],
                                         QtyLeft(ls, i))
  <1> SUFFICES ASSUME NEW i \in Open(ls)
               PROVE  /\ Worths(ls, x)[i] \in Int
                      /\ Worths(ls, x)[i] = Gain(ls[i].side, ls[i].entry,
                                                 x[ls[i].market], QtyLeft(ls, i))
    OBVIOUS
  <1>1. i \in DOMAIN ls /\ ls[i].open /\ ls[i] \in Lots
    BY DEF Open, LotOK
  <1>2. ls[i].entry \in Int /\ ls[i].qty \in Int /\ ls[i].market \in Markets
    BY <1>1, LotType
  <1>3. x[ls[i].market] \in Int
    BY <1>2, PriceType
  <1>4. Gain(ls[i].side, ls[i].entry, x[ls[i].market], ls[i].qty) \in Int
    BY <1>2, <1>3, GainFacts
  <1> QED
    BY <1>1, <1>4 DEF Worths, QtyLeft

(* Lot id, of market m0, side s0 and entry e0, changes or is opened ... *)
OneLot(ls, ks, id, m0, s0, e0) ==
    /\ IsFiniteSet(DOMAIN ls) /\ IsFiniteSet(DOMAIN ks)
    /\ DOMAIN ls \ {id} = DOMAIN ks \ {id}
    /\ \A i \in DOMAIN ls \ {id} : ks[i] = ls[i]
    /\ \A i \in DOMAIN ls : LotOK(ls[i])
    /\ \A i \in DOMAIN ks : LotOK(ks[i])
    /\ id \in DOMAIN ls => ls[id].market = m0 /\ ls[id].side = s0 /\ ls[id].entry = e0
    /\ id \in DOMAIN ks => ks[id].market = m0 /\ ks[id].side = s0 /\ ks[id].entry = e0

(* ... and its open quantity goes from a to b. *)
Moved(ls, ks, m0, s0, e0, a, b) ==
    /\ \A x \in [Markets -> Prices] :
          /\ Worth(ls, x) \in Int
          /\ Worth(ks, x) = Worth(ls, x) - Gain(s0, e0, x[m0], a)
                              + Gain(s0, e0, x[m0], b)
    /\ QtySum(ls, Open(ls)) \in Int
    /\ QtySum(ks, Open(ks)) = QtySum(ls, Open(ls)) - a + b
    /\ \A m, s : /\ QtySum(ls, HeldIds(ls, m, s)) \in Int
                 /\ (m = m0 /\ s = s0)
                      => QtySum(ks, HeldIds(ks, m, s))
                           = QtySum(ls, HeldIds(ls, m, s)) - a + b
                 /\ ~(m = m0 /\ s = s0)
                      => QtySum(ks, HeldIds(ks, m, s)) = QtySum(ls, HeldIds(ls, m, s))

LEMMA LotChange ==
    ASSUME NEW ls, NEW ks, NEW id, NEW m0 \in Markets, NEW s0, NEW e0 \in Int,
           OneLot(ls, ks, id, m0, s0, e0),
           NEW a, a = QtyLeft(ls, id), NEW b, b = QtyLeft(ks, id)
    PROVE  a \in Int /\ b \in Int /\ Moved(ls, ks, m0, s0, e0, a, b)
  <1>0. /\ IsFiniteSet(DOMAIN ls) /\ IsFiniteSet(DOMAIN ks)
        /\ DOMAIN ls \ {id} = DOMAIN ks \ {id}
        /\ \A i \in DOMAIN ls \ {id} : ks[i] = ls[i]
        /\ \A i \in DOMAIN ls : LotOK(ls[i])
        /\ \A i \in DOMAIN ks : LotOK(ks[i])
        /\ id \in DOMAIN ls => ls[id].market = m0 /\ ls[id].side = s0 /\ ls[id].entry = e0
        /\ id \in DOMAIN ks => ks[id].market = m0 /\ ks[id].side = s0 /\ ks[id].entry = e0
    BY DEF OneLot
  <1>1. /\ \A i \in DOMAIN ls : ls[i].qty \in Int /\ ls[i].open \in BOOLEAN
        /\ \A i \in DOMAIN ks : ks[i].qty \in Int /\ ks[i].open \in BOOLEAN
    BY <1>0, LotType DEF LotOK
  <1>2. a \in Int /\ b \in Int
    BY <1>1 DEF QtyLeft
  <1>3. /\ IsFiniteSet(Open(ls)) /\ IsFiniteSet(Open(ks))
        /\ Open(ls) \ {id} = Open(ks) \ {id}
    <2>1. Open(ls) \in SUBSET DOMAIN ls /\ Open(ks) \in SUBSET DOMAIN ks
      BY DEF Open
    <2>2. Open(ls) \ {id} = Open(ks) \ {id}
      BY <1>0 DEF Open
    <2> QED
      BY <1>0, <2>1, <2>2, FS_Subset
  <1>4. /\ a = IF id \in Open(ls) THEN ls[id].qty ELSE 0
        /\ b = IF id \in Open(ks) THEN ks[id].qty ELSE 0
        /\ a = QtyShare(ls, Open(ls), id) /\ b = QtyShare(ks, Open(ks), id)
    BY DEF Open, QtyLeft, QtyShare
  <1>5. /\ \A i \in Open(ls) : ls[i].qty \in Int
        /\ \A i \in Open(ks) : ks[i].qty \in Int
        /\ \A i \in Open(ls) \ {id} : ls[i].qty = ks[i].qty
    BY <1>0, <1>1 DEF Open
  <1>6. /\ QtySum(ls, Open(ls)) \in Int
        /\ QtySum(ks, Open(ks)) = QtySum(ls, Open(ls)) - a + b
    BY <1>3, <1>4, <1>5, QtyChange
  <1>7. ASSUME NEW x \in [Markets -> Prices]
        PROVE  /\ Worth(ls, x) \in Int
               /\ Worth(ks, x) = Worth(ls, x) - Gain(s0, e0, x[m0], a)
                                   + Gain(s0, e0, x[m0], b)
    <2> DEFINE f == Worths(ls, x)
               h == Worths(ks, x)
    <2>1. /\ \A i \in Open(ls) : /\ f[i] \in Int
                                 /\ f[i] = Gain(ls[i].side, ls[i].entry, x[ls[i].market],
                                                QtyLeft(ls, i))
          /\ \A i \in Open(ks) : /\ h[i] \in Int
                                 /\ h[i] = Gain(ks[i].side, ks[i].entry, x[ks[i].market],
                                                QtyLeft(ks, i))
      BY <1>0, LotWorth
    <2>2. Worth(ls, x) = Total(f, Open(ls)) /\ Worth(ks, x) = Total(h, Open(ks))
      BY WorthTotal
    <2> HIDE DEF f, h
    <2>3. \A i \in Open(ls) \ {id} : f[i] = h[i]
      <3> SUFFICES ASSUME NEW i \in Open(ls), i # id
                   PROVE  f[i] = h[i]
        OBVIOUS
      <3>1. i \in Open(ks) /\ i \in DOMAIN ls /\ i \in DOMAIN ks
        BY <1>3 DEF Open
      <3>2. ks[i] = ls[i]
        BY <1>0, <3>1
      <3>3. QtyLeft(ls, i) = QtyLeft(ks, i)
        BY <3>1, <3>2 DEF QtyLeft
      <3> QED
        BY <2>1, <3>1, <3>2, <3>3
    <2>4. /\ Total(h, Open(ks)) = Total(f, Open(ls)) - Share(f, Open(ls), id)
                                    + Share(h, Open(ks), id)
          /\ Total(f, Open(ls)) \in Int
      <3>1. /\ \A i \in Open(ls) : f[i] \in Int
            /\ \A i \in Open(ks) : h[i] \in Int
        BY <2>1
      <3> QED
        BY <1>3, <2>3, <3>1, TotalChange
    <2>5. Gain(s0, e0, x[m0], 0) = 0
      BY PriceType, GainFacts
    <2>6. Share(f, Open(ls), id) = Gain(s0, e0, x[m0], a)
      <3>1. CASE id \in Open(ls)
        <4>1. ls[id].market = m0 /\ ls[id].side = s0 /\ ls[id].entry = e0
          BY <1>0, <3>1 DEF Open
        <4> QED
          BY <2>1, <3>1, <4>1 DEF Share
      <3>2. CASE id \notin Open(ls)
        BY <1>4, <2>5, <3>2 DEF Share
      <3> QED
        BY <3>1, <3>2
    <2>7. Share(h, Open(ks), id) = Gain(s0, e0, x[m0], b)
      <3>1. CASE id \in Open(ks)
        <4>1. ks[id].market = m0 /\ ks[id].side = s0 /\ ks[id].entry = e0
          BY <1>0, <3>1 DEF Open
        <4> QED
          BY <2>1, <3>1, <4>1 DEF Share
      <3>2. CASE id \notin Open(ks)
        BY <1>4, <2>5, <3>2 DEF Share
      <3> QED
        BY <3>1, <3>2
    <2> QED
      BY <2>2, <2>4, <2>6, <2>7
  <1>8. ASSUME NEW m, NEW s
        PROVE  /\ QtySum(ls, HeldIds(ls, m, s)) \in Int
               /\ (m = m0 /\ s = s0)
                    => QtySum(ks, HeldIds(ks, m, s))
                         = QtySum(ls, HeldIds(ls, m, s)) - a + b
               /\ ~(m = m0 /\ s = s0)
                    => QtySum(ks, HeldIds(ks, m, s)) = QtySum(ls, HeldIds(ls, m, s))
    <2> DEFINE S == HeldIds(ls, m, s)
               T == HeldIds(ks, m, s)
    <2>1. S \in SUBSET DOMAIN ls /\ T \in SUBSET DOMAIN ks
      BY DEF HeldIds
    <2>2. S \ {id} = T \ {id}
      BY <1>0 DEF HeldIds
    <2>3. IsFiniteSet(S) /\ IsFiniteSet(T)
      BY <1>0, <2>1, FS_Subset
    <2>4. /\ (m = m0 /\ s = s0) => a = QtyShare(ls, S, id) /\ b = QtyShare(ks, T, id)
          /\ ~(m = m0 /\ s = s0) => QtyShare(ls, S, id) = 0 /\ QtyShare(ks, T, id) = 0
      BY <1>0 DEF HeldIds, QtyLeft, QtyShare
    <2>5. /\ \A i \in S : ls[i].qty \in Int
          /\ \A i \in T : ks[i].qty \in Int
          /\ \A i \in S \ {id} : ls[i].qty = ks[i].qty
      BY <1>0, <1>1, <2>1
    <2> HIDE DEF S, T
    <2>6. /\ QtySum(ls, S) \in Int
          /\ QtySum(ks, T) = QtySum(ls, S) - QtyShare(ls, S, id) + QtyShare(ks, T, id)
      BY <2>2, <2>3, <2>5, QtyChange
    <2>7. CASE m = m0 /\ s = s0
      BY <2>4, <2>6, <2>7 DEF S, T
    <2>8. CASE ~(m = m0 /\ s = s0)
      <3>1. QtySum(ls, S) - 0 + 0 = QtySum(ls, S)
        BY <2>6
      <3> QED
        BY <2>4, <2>6, <2>8, <3>1 DEF S, T
    <2> QED
      BY <2>7, <2>8
  <1> QED
    BY <1>2, <1>6, <1>7, <1>8 DEF Moved

------------------------------------------------------------------------------
(* The whole loop. *)

Older(S, i) == {j \in S : j < i}

(* What trade tr takes from lot i when the lots S are matched. *)
Taken(tr, S, i) ==
    LET want == Want(tr.qty, QtySum(lots, Older(S, i)))
    IN  IF want < lots[i].qty THEN want ELSE lots[i].qty

LotsOK ==
    /\ DOMAIN lots \in SUBSET Int /\ IsFiniteSet(DOMAIN lots)
    /\ \A i \in DOMAIN lots : LotOK(lots[i])

(* What is left of tr when c of it has been matched, on side s of market m. *)
Closed(tr, m, s, c) == IF m = tr.market /\ s # tr.side /\ s \in N!Sides THEN c ELSE 0

(* The account part-way through the loop, when the lots S are matched.     *)
Looped(tr, st, S) ==
    /\ st.left \in Nat /\ st.gained \in Int
    /\ st.left = Want(tr.qty, QtySum(lots, S))
    /\ DOMAIN st.lots = DOMAIN lots
    /\ \A i \in DOMAIN lots \ S : st.lots[i] = lots[i]
    /\ \A i \in S : /\ LotOK(st.lots[i]) /\ SameKind(st.lots[i], lots[i])
                    /\ QtyLeft(st.lots, i) = lots[i].qty - Taken(tr, S, i)
    /\ \A x \in [Markets -> Prices] :
          /\ Worth(st.lots, x) \in Int
          /\ st.gained + Worth(st.lots, x) + Gain(tr.side, tr.price, x[tr.market], st.left)
               = Worth(lots, x) + Gain(tr.side, tr.price, x[tr.market], tr.qty)
    /\ QtySum(st.lots, Open(st.lots)) \in Int
    /\ QtySum(st.lots, Open(st.lots)) = QtySum(lots, Open(lots)) - (tr.qty - st.left)
    /\ \A m, s :
          /\ QtySum(st.lots, HeldIds(st.lots, m, s)) \in Int
          /\ QtySum(st.lots, HeldIds(st.lots, m, s))
               = QtySum(lots, HeldIds(lots, m, s)) - Closed(tr, m, s, tr.qty - st.left)

LEMMA UsedMore ==
    ASSUME NEW p, NEW S, IsFiniteSet(S), \A i \in S : p[i].qty \in Nat
    PROVE  /\ QtySum(p, S) \in Nat
           /\ QtySum(p, {}) = 0
           /\ \A i \in S : QtySum(p, S) = p[i].qty + QtySum(p, S \ {i})
  <1>1. QtySum(p, {}) = 0
    BY QtySumTotal, TotalEmpty
  <1>2. ASSUME NEW T, IsFiniteSet(T), \A i \in T : p[i].qty \in Nat, NEW i \in T
        PROVE  QtySum(p, T) = p[i].qty + QtySum(p, T \ {i})
    <2> DEFINE f == Qtys(p, T)
               h == Qtys(p, T \ {i})
    <2>1. /\ \A k \in T : f[k] = p[k].qty
          /\ \A k \in T \ {i} : h[k] = f[k]
      BY DEF Qtys
    <2>2. QtySum(p, T) = Total(f, T) /\ QtySum(p, T \ {i}) = Total(h, T \ {i})
      BY QtySumTotal
    <2> HIDE DEF f, h
    <2>3. \A k \in T : f[k] \in Int
      BY <1>2, <2>1
    <2>4. Total(f, T) = f[i] + Total(f, T \ {i})
      BY <1>2, <2>3, TotalWithout
    <2>5. Total(h, T \ {i}) = Total(f, T \ {i})
      BY <2>1, TotalSame
    <2> QED
      BY <2>1, <2>2, <2>4, <2>5
  <1> DEFINE P == {s \in SUBSET S : QtySum(p, s) \in Nat}
  <1>3. ASSUME NEW s \in SUBSET S, \A t \in SUBSET s : t # s => t \in P
        PROVE  s \in P
    <2>1. CASE s = {}
      BY <1>1, <2>1
    <2>2. ASSUME NEW i \in s
          PROVE  s \in P
      <3>1. IsFiniteSet(s) /\ \A k \in s : p[k].qty \in Nat
        BY FS_Subset
      <3>2. QtySum(p, s) = p[i].qty + QtySum(p, s \ {i})
        BY <1>2, <3>1
      <3>3. s \ {i} \in P
        BY <1>3
      <3> QED
        BY <3>1, <3>2, <3>3
    <2> QED
      BY <2>1, <2>2
  <1> HIDE DEF P
  <1>4. S \in P
    BY <1>3, Subsets
  <1>5. QtySum(p, S) \in Nat
    BY <1>4 DEF P
  <1> QED
    BY <1>1, <1>2, <1>5

LEMMA OlderFacts ==
    ASSUME NEW S \in SUBSET Int, NEW n \in S, \A i \in S : i <= n
    PROVE  /\ Older(S, n) = S \ {n}
           /\ \A i \in S \ {n} : Older(S, i) = Older(S \ {n}, i)
  <1>1. \A i \in S : i \in Int /\ i <= n
    OBVIOUS
  <1>2. \A i \in S : i < n <=> i # n
    BY <1>1
  <1>3. Older(S, n) = S \ {n}
    BY <1>2 DEF Older
  <1>4. \A i, j \in S : j < i => j # n
    BY <1>1
  <1>5. ASSUME NEW i \in S \ {n}
        PROVE  Older(S, i) = Older(S \ {n}, i)
    BY <1>4 DEF Older
  <1> QED
    BY <1>3, <1>5

LEMMA LotSums ==
    ASSUME LotsOK
    PROVE  /\ \A x \in [Markets -> Prices] : Worth(lots, x) \in Int
           /\ QtySum(lots, Open(lots)) \in Int
           /\ \A m, s : QtySum(lots, HeldIds(lots, m, s)) \in Int
  <1>1. \A S \in SUBSET DOMAIN lots : IsFiniteSet(S) /\ QtySum(lots, S) \in Nat
    <2> SUFFICES ASSUME NEW S \in SUBSET DOMAIN lots
                 PROVE  IsFiniteSet(S) /\ QtySum(lots, S) \in Nat
      OBVIOUS
    <2>1. IsFiniteSet(S)
      BY FS_Subset DEF LotsOK
    <2>2. \A i \in S : lots[i] \in Lots
      BY DEF LotsOK, LotOK
    <2>3. \A i \in S : lots[i].qty \in Nat
      BY <2>2, LotType
    <2> QED
      BY <2>1, <2>3, UsedMore
  <1>2. Open(lots) \in SUBSET DOMAIN lots
    BY DEF Open
  <1>3. \A m, s : HeldIds(lots, m, s) \in SUBSET DOMAIN lots
    BY DEF HeldIds
  <1>4. ASSUME NEW x \in [Markets -> Prices]
        PROVE  Worth(lots, x) \in Int
    <2>1. \A i \in Open(lots) : Worths(lots, x)[i] \in Int
      BY LotWorth DEF LotsOK
    <2>2. Total(Worths(lots, x), Open(lots)) \in Int
      BY <1>1, <1>2, <2>1, TotalInt
    <2> QED
      BY <2>2, WorthTotal
  <1> QED
    BY <1>1, <1>2, <1>3, <1>4

LEMMA LoopStep ==
    ASSUME LotsOK, NEW tr \in Trades, NEW S \in SUBSET OppositeIds(lots, tr),
           NEW n \in S, \A i \in S : i <= n,
           NEW st, Looped(tr, st, S \ {n}), NEW u, u = Match(tr, st, n)
    PROVE  Looped(tr, u, S)
  <1>1. PICK l : l = lots[n]
    OBVIOUS
  <1>2. PICK c : c = IF st.left < l.qty THEN st.left ELSE l.qty
    OBVIOUS
  <1>3. /\ n \in DOMAIN lots /\ DOMAIN st.lots = DOMAIN lots /\ l = st.lots[n]
        /\ l.market = tr.market /\ l.open /\ l.side # tr.side /\ LotOK(l)
        /\ st.left \in Nat /\ st.gained \in Int
    BY <1>1 DEF LotsOK, Looped, OppositeIds
  <1>4. /\ u.left = st.left - c
        /\ u.gained = st.gained + Gain(l.side, l.entry, tr.price, c)
        /\ DOMAIN u.lots = DOMAIN st.lots
        /\ \A i \in DOMAIN st.lots \ {n} : u.lots[i] = st.lots[i]
        /\ LotOK(u.lots[n]) /\ SameKind(u.lots[n], l) /\ QtyLeft(u.lots, n) = l.qty - c
    BY <1>2, <1>3, MatchOne
  <1>5. /\ l.qty \in Nat /\ l.qty > 0 /\ l.entry \in Int /\ l.side \in N!Sides
        /\ l.market \in Markets
    BY <1>3, LotType DEF LotOK
  <1>6. /\ tr.qty \in Nat /\ tr.price \in Int /\ tr.side \in N!Sides /\ tr.market \in Markets
    BY TradeType
  <1>7. c \in Nat /\ c <= st.left /\ c <= l.qty
    BY <1>2, <1>3, <1>5
  <1>8. /\ IsFiniteSet(S) /\ S \in SUBSET DOMAIN lots /\ S \in SUBSET Int
    <2>1. S \in SUBSET DOMAIN lots
      BY DEF OppositeIds
    <2> QED
      BY <2>1, FS_Subset DEF LotsOK
  <1>9. \A i \in DOMAIN lots : lots[i].qty \in Nat
    <2>1. \A i \in DOMAIN lots : lots[i] \in Lots
      BY DEF LotsOK, LotOK
    <2> QED
      BY <2>1, LotType
  <1>10. /\ QtySum(lots, S) = l.qty + QtySum(lots, S \ {n})
         /\ QtySum(lots, S \ {n}) \in Nat
    <2>1. /\ IsFiniteSet(S \ {n}) /\ \A i \in S : lots[i].qty \in Nat
      BY <1>8, <1>9, FS_Subset
    <2> QED
      BY <1>1, <1>8, <2>1, UsedMore
  <1>11. PICK used \in Nat : used = QtySum(lots, S \ {n})
    BY <1>10
  <1>12. st.left = Want(tr.qty, used)
    BY <1>11 DEF Looped
  <1>13. u.left \in Nat /\ u.left = Want(tr.qty, QtySum(lots, S))
    <2>1. u.left \in Nat
      BY <1>3, <1>4, <1>7
    <2>2. u.left = Want(tr.qty, l.qty + used)
      BY <1>2, <1>4, <1>5, <1>6, <1>12 DEF Want
    <2> QED
      BY <1>10, <1>11, <2>1, <2>2
  <1>14. Gain(l.side, l.entry, tr.price, c) \in Int
    BY <1>5, <1>6, <1>7, GainFacts
  <1>15. u.gained \in Int
    BY <1>3, <1>4, <1>14
  <1>16. Older(S, n) = S \ {n} /\ \A i \in S \ {n} : Older(S, i) = Older(S \ {n}, i)
    BY <1>8, OlderFacts
  <1>17. Taken(tr, S, n) = c
    BY <1>1, <1>2, <1>11, <1>12, <1>16 DEF Taken
  <1>18. \A i \in S : /\ LotOK(u.lots[i]) /\ SameKind(u.lots[i], lots[i])
                      /\ QtyLeft(u.lots, i) = lots[i].qty - Taken(tr, S, i)
    <2> SUFFICES ASSUME NEW i \in S
                 PROVE  /\ LotOK(u.lots[i]) /\ SameKind(u.lots[i], lots[i])
                        /\ QtyLeft(u.lots, i) = lots[i].qty - Taken(tr, S, i)
      OBVIOUS
    <2>1. CASE i = n
      BY <1>1, <1>4, <1>17, <2>1
    <2>2. CASE i # n
      <3>1. Taken(tr, S, i) = Taken(tr, S \ {n}, i)
        BY <1>16, <2>2 DEF Taken
      <3>2. /\ LotOK(st.lots[i]) /\ SameKind(st.lots[i], lots[i])
            /\ QtyLeft(st.lots, i) = lots[i].qty - Taken(tr, S \ {n}, i)
        BY <2>2 DEF Looped
      <3>3. i \in DOMAIN st.lots /\ i \in DOMAIN u.lots /\ u.lots[i] = st.lots[i]
        BY <1>3, <1>4, <1>8, <2>2
      <3>4. QtyLeft(u.lots, i) = QtyLeft(st.lots, i)
        BY <3>3 DEF QtyLeft
      <3> QED
        BY <3>1, <3>2, <3>3, <3>4
    <2> QED
      BY <2>1, <2>2
  <1>19. \A i \in DOMAIN lots \ S : u.lots[i] = lots[i]
    BY <1>3, <1>4 DEF Looped
  <1>20. /\ \A i \in DOMAIN st.lots : LotOK(st.lots[i])
         /\ \A i \in DOMAIN u.lots : LotOK(u.lots[i])
    <2>1. \A i \in DOMAIN lots : LotOK(st.lots[i])
      BY DEF Looped, LotsOK
    <2> QED
      BY <1>3, <1>4, <2>1
  <1>21. /\ IsFiniteSet(DOMAIN st.lots) /\ IsFiniteSet(DOMAIN u.lots)
         /\ DOMAIN st.lots \ {n} = DOMAIN u.lots \ {n}
    BY <1>3, <1>4 DEF LotsOK
  <1>22. QtyLeft(st.lots, n) = l.qty
    BY <1>3 DEF QtyLeft
  <1>23. /\ st.lots[n].market = tr.market /\ st.lots[n].side = l.side
         /\ st.lots[n].entry = l.entry
         /\ u.lots[n].market = tr.market /\ u.lots[n].side = l.side
         /\ u.lots[n].entry = l.entry
    BY <1>3, <1>4 DEF SameKind
  <1>24. PICK a, b : a = QtyLeft(st.lots, n) /\ b = QtyLeft(u.lots, n)
    OBVIOUS
  <1>25. PICK ls, ks : ls = st.lots /\ ks = u.lots
    OBVIOUS
  <1>26. a \in Int /\ b \in Int /\ Moved(ls, ks, tr.market, l.side, l.entry, a, b)
    <2>1. OneLot(ls, ks, n, tr.market, l.side, l.entry)
      BY <1>4, <1>20, <1>21, <1>23, <1>25 DEF OneLot
    <2>2. tr.market \in Markets /\ l.entry \in Int
      BY <1>5, <1>6
    <2> QED
      BY <1>24, <1>25, <2>1, <2>2, LotChange
  <1>27. a = l.qty /\ b = l.qty - c
    BY <1>4, <1>22, <1>24
  <1>28. /\ QtySum(ks, Open(ks)) \in Int
         /\ QtySum(ks, Open(ks)) = QtySum(lots, Open(lots)) - (tr.qty - u.left)
    <2>1. PICK t, v, w : /\ t = QtySum(lots, Open(lots)) /\ v = QtySum(ls, Open(ls))
                         /\ w = QtySum(ks, Open(ks))
      OBVIOUS
    <2>2. t \in Int /\ v \in Int /\ w = v - a + b
      BY <1>26, <2>1, LotSums DEF Moved
    <2>3. v = t - (tr.qty - st.left)
      BY <1>25, <2>1 DEF Looped
    <2>4. w \in Int /\ w = t - (tr.qty - u.left)
      BY <1>3, <1>4, <1>5, <1>6, <1>7, <1>26, <1>27, <2>2, <2>3
    <2> QED
      BY <2>1, <2>4
  <1>29. ASSUME NEW m, NEW s
         PROVE  /\ QtySum(ks, HeldIds(ks, m, s)) \in Int
                /\ QtySum(ks, HeldIds(ks, m, s))
                     = QtySum(lots, HeldIds(lots, m, s)) - Closed(tr, m, s, tr.qty - u.left)
    <2>1. PICK t, v, w : /\ t = QtySum(lots, HeldIds(lots, m, s))
                         /\ v = QtySum(ls, HeldIds(ls, m, s))
                         /\ w = QtySum(ks, HeldIds(ks, m, s))
      OBVIOUS
    <2>2. /\ t \in Int /\ v \in Int
          /\ (m = tr.market /\ s = l.side) => w = v - a + b
          /\ ~(m = tr.market /\ s = l.side) => w = v
      BY <1>26, <2>1, LotSums DEF Moved
    <2>3. v = t - Closed(tr, m, s, tr.qty - st.left)
      BY <1>25, <2>1 DEF Looped
    <2>4. s = l.side <=> s # tr.side /\ s \in N!Sides
      BY <1>3, <1>5, <1>6, TwoSides
    <2>5. CASE m = tr.market /\ s = l.side
      <3>1. v = t - (tr.qty - st.left) /\ w = v - a + b
        BY <2>2, <2>3, <2>4, <2>5 DEF Closed
      <3>2. w \in Int /\ w = t - (tr.qty - u.left)
        BY <1>3, <1>4, <1>5, <1>6, <1>7, <1>26, <1>27, <2>2, <3>1
      <3>3. Closed(tr, m, s, tr.qty - u.left) = tr.qty - u.left
        BY <2>4, <2>5 DEF Closed
      <3> QED
        BY <2>1, <3>2, <3>3
    <2>6. CASE ~(m = tr.market /\ s = l.side)
      <3>1. /\ Closed(tr, m, s, tr.qty - u.left) = 0
            /\ Closed(tr, m, s, tr.qty - st.left) = 0
        BY <2>4, <2>6 DEF Closed
      <3> QED
        BY <2>1, <2>2, <2>3, <2>6, <3>1
    <2> QED
      BY <2>5, <2>6
  <1>30. ASSUME NEW x \in [Markets -> Prices]
         PROVE  /\ Worth(ks, x) \in Int
                /\ u.gained + Worth(ks, x)
                       + Gain(tr.side, tr.price, x[tr.market], u.left)
                     = Worth(lots, x) + Gain(tr.side, tr.price, x[tr.market], tr.qty)
    <2>1. PICK p : p = x[tr.market] /\ p \in Int
      BY <1>6, PriceType
    <2>2. PICK t, v, w : t = Worth(lots, x) /\ v = Worth(ls, x) /\ w = Worth(ks, x)
      OBVIOUS
    <2>3. PICK wa, wb, wc, real :
             /\ wa = Gain(l.side, l.entry, p, a) /\ wb = Gain(l.side, l.entry, p, b)
             /\ wc = Gain(l.side, l.entry, p, c)
             /\ real = Gain(l.side, l.entry, tr.price, c)
      OBVIOUS
    <2>4. PICK all, was, now, cut :
             /\ all = Gain(tr.side, tr.price, p, tr.qty)
             /\ was = Gain(tr.side, tr.price, p, st.left)
             /\ now = Gain(tr.side, tr.price, p, u.left)
             /\ cut = Gain(tr.side, tr.price, p, c)
      OBVIOUS
    <2>5. t \in Int /\ v \in Int /\ w = v - wa + wb
      BY <1>26, <2>1, <2>2, <2>3, LotSums DEF Moved
    <2>6. st.gained + v + was = t + all
      BY <1>25, <2>1, <2>2, <2>4 DEF Looped
    <2>7. wa \in Int /\ wc \in Int /\ wb = wa - wc
      <3>1. l.qty \in Int /\ c \in Int
        BY <1>5, <1>7
      <3>2. a \in Int /\ c \in Int /\ b = a - c
        BY <1>27, <3>1
      <3>3. wa \in Int /\ wc \in Int
        BY <1>5, <2>1, <2>3, <3>2, GainFacts
      <3>4. Gain(l.side, l.entry, p, b) = Gain(l.side, l.entry, p, a) - Gain(l.side, l.entry, p, c)
        BY <1>5, <2>1, <3>2, GainLess
      <3> QED
        BY <2>3, <3>3, <3>4
    <2>8. was \in Int /\ cut \in Int /\ all \in Int /\ now = was - cut
      <3>1. st.left \in Int /\ c \in Int /\ tr.qty \in Int /\ u.left = st.left - c
        BY <1>3, <1>4, <1>6, <1>7
      <3>2. was \in Int /\ cut \in Int /\ all \in Int
        BY <1>6, <2>1, <2>4, <3>1, GainFacts
      <3>3. Gain(tr.side, tr.price, p, u.left)
              = Gain(tr.side, tr.price, p, st.left) - Gain(tr.side, tr.price, p, c)
        BY <1>6, <2>1, <3>1, GainLess
      <3> QED
        BY <2>4, <3>2, <3>3
    <2>9. real = wc + cut
      BY <1>3, <1>5, <1>6, <1>7, <2>1, <2>3, <2>4, GainClosed
    <2>10. u.gained = st.gained + real
      BY <1>4, <2>3
    <2>11. w \in Int /\ u.gained + w + now = t + all
      BY <1>3, <2>5, <2>6, <2>7, <2>8, <2>9, <2>10
    <2> QED
      BY <2>1, <2>2, <2>4, <2>11
  <1>31. DOMAIN u.lots = DOMAIN lots
    BY <1>3, <1>4
  <1> QED
    BY <1>13, <1>15, <1>18, <1>19, <1>25, <1>28, <1>29, <1>30, <1>31 DEF Looped

Start(tr) == [lots |-> lots, gained |-> 0, left |-> tr.qty]

LEMMA LoopStart ==
    ASSUME LotsOK, NEW tr \in Trades
    PROVE  Looped(tr, Start(tr), {})
  <1>1. PICK st : st = Start(tr)
    OBVIOUS
  <1>2. st.lots = lots /\ st.gained = 0 /\ st.left = tr.qty
    BY <1>1 DEF Start
  <1>3. tr.qty \in Nat /\ tr.qty > 0
    BY TradeType
  <1>4. QtySum(lots, {}) = 0
    BY UsedMore, FS_EmptySet
  <1>5. Want(tr.qty, 0) = tr.qty
    BY <1>3 DEF Want
  <1>6. tr.qty - st.left = 0
    BY <1>2, <1>3
  <1>7. \A x \in [Markets -> Prices] :
          /\ Worth(st.lots, x) \in Int
          /\ st.gained + Worth(st.lots, x) + Gain(tr.side, tr.price, x[tr.market], st.left)
               = Worth(lots, x) + Gain(tr.side, tr.price, x[tr.market], tr.qty)
    <2> SUFFICES ASSUME NEW x \in [Markets -> Prices]
                 PROVE  /\ Worth(st.lots, x) \in Int
                        /\ st.gained + Worth(st.lots, x)
                               + Gain(tr.side, tr.price, x[tr.market], st.left)
                             = Worth(lots, x) + Gain(tr.side, tr.price, x[tr.market], tr.qty)
      OBVIOUS
    <2>1. PICK w \in Int : w = Worth(lots, x)
      BY LotSums
    <2>2. 0 + w = w
      OBVIOUS
    <2> QED
      BY <1>2, <2>1, <2>2
  <1>8. /\ QtySum(st.lots, Open(st.lots)) \in Int
        /\ QtySum(st.lots, Open(st.lots)) = QtySum(lots, Open(lots)) - (tr.qty - st.left)
    <2>1. PICK w \in Int : w = QtySum(lots, Open(lots))
      BY LotSums
    <2> QED
      BY <1>2, <1>6, <2>1
  <1>9. \A m, s :
          /\ QtySum(st.lots, HeldIds(st.lots, m, s)) \in Int
          /\ QtySum(st.lots, HeldIds(st.lots, m, s))
               = QtySum(lots, HeldIds(lots, m, s)) - Closed(tr, m, s, tr.qty - st.left)
    <2> SUFFICES ASSUME NEW m, NEW s
                 PROVE  /\ QtySum(st.lots, HeldIds(st.lots, m, s)) \in Int
                        /\ QtySum(st.lots, HeldIds(st.lots, m, s))
                             = QtySum(lots, HeldIds(lots, m, s))
                                 - Closed(tr, m, s, tr.qty - st.left)
      OBVIOUS
    <2>1. PICK w \in Int : w = QtySum(lots, HeldIds(lots, m, s))
      BY LotSums
    <2>2. Closed(tr, m, s, tr.qty - st.left) = 0
      BY <1>6 DEF Closed
    <2> QED
      BY <1>2, <2>1, <2>2
  <1>10. Looped(tr, st, {})
    BY <1>2, <1>3, <1>4, <1>5, <1>7, <1>8, <1>9 DEF Looped
  <1> QED
    BY <1>1, <1>10

LEMMA LoopAll ==
    ASSUME LotsOK, NEW tr \in Trades
    PROVE  Looped(tr, MatchAll(tr, Start(tr), OppositeIds(lots, tr)), OppositeIds(lots, tr))
  <1> DEFINE O == OppositeIds(lots, tr)
             M(s) == MatchAll(tr, Start(tr), s)
             P == {s \in SUBSET O : Looped(tr, M(s), s)}
  <1>1. O \in SUBSET DOMAIN lots
    BY DEF OppositeIds
  <1>2. \A s \in SUBSET O : IsFiniteSet(s) /\ s \in SUBSET Int
    BY <1>1, FS_Subset DEF LotsOK
  <1>3. ASSUME NEW s \in SUBSET O, \A t \in SUBSET s : t # s => t \in P
        PROVE  s \in P
    <2>1. CASE s = {}
      <3>1. M(s) = Start(tr)
        BY <1>2, <2>1, MatchAllStep
      <3> QED
        BY <2>1, <3>1, LoopStart
    <2>2. CASE s # {}
      <3>1. PICK n \in s : n = NewestLast(s) /\ \A i \in s : i <= n
        BY <1>2, <2>2, NewestIsLast
      <3>2. M(s) = Match(tr, M(s \ {n}), n)
        BY <1>2, <2>2, <3>1, MatchAllStep
      <3>3. Looped(tr, M(s \ {n}), s \ {n})
        BY <1>3
      <3> HIDE DEF M
      <3>4. s \in SUBSET OppositeIds(lots, tr)
        OBVIOUS
      <3>5. Looped(tr, M(s), s)
        BY <3>1, <3>2, <3>3, <3>4, LoopStep
      <3> QED
        BY <3>5
    <2> QED
      BY <2>1, <2>2
  <1>4. IsFiniteSet(O)
    BY <1>2
  <1> HIDE DEF P, O
  <1>5. O \in P
    BY <1>3, <1>4, Subsets
  <1> QED
    BY <1>5 DEF P, O

------------------------------------------------------------------------------
(* TypeOK and ProfitConserved are inductive together: the gain of a lot    *)
(* that is closed is what the trade and the lot are worth.                 *)

IInv == TypeOK /\ ProfitConserved

LEMMA ProfitMeans ==
    ProfitConserved <=>
        /\ cash = InitialBalance + realized
        /\ \A x \in [Markets -> Prices] :
              realized + Worth(lots, x) = Gained(trades, applied, x)
        /\ \A i \in DOMAIN lots :
              lots[i].unrealized =
                  IF lots[i].open
                  THEN Gain(lots[i].side, lots[i].entry, lots[i].current, lots[i].qty)
                  ELSE 0
  BY DEF ProfitConserved

LEMMA Ids ==
    ASSUME TypeOK
    PROVE  /\ IsFiniteSet(applied) /\ applied \in SUBSET Nat
           /\ IsFiniteSet(DOMAIN lots) /\ DOMAIN lots \in SUBSET Nat
           /\ \A i \in DOMAIN trades : trades[i] \in Trades
  <1>1. Len(trades) \in Nat /\ DOMAIN trades = 1..Len(trades)
    BY DEF TypeOK
  <1>2. IsFiniteSet(DOMAIN trades)
    BY <1>1, FS_Interval
  <1>3. applied \in SUBSET DOMAIN trades /\ DOMAIN lots \in SUBSET DOMAIN trades
    BY DEF TypeOK
  <1>4. IsFiniteSet(applied) /\ IsFiniteSet(DOMAIN lots)
    BY <1>2, <1>3, FS_Subset
  <1> QED
    BY <1>1, <1>3, <1>4 DEF TypeOK

LEMMA LotsAreOK ==
    ASSUME IInv
    PROVE  LotsOK
  <1>1. \A i \in DOMAIN lots : LotOK(lots[i])
    BY ProfitMeans DEF IInv, TypeOK, LotOK
  <1> QED
    BY <1>1, Ids DEF IInv, LotsOK

LEMMA GainNothing ==
    ASSUME NEW s, NEW e \in Int, NEW q \in Int
    PROVE  Gain(s, e, e, q) = 0
  <1>1. (e - e) * q = 0
    OBVIOUS
  <1>2. CASE Sign(s) = 1
    BY <1>1, <1>2 DEF Gain
  <1>3. CASE Sign(s) = -1
    BY <1>1, <1>3 DEF Gain
  <1> QED
    BY <1>2, <1>3, SignType

(* What apply_trade leaves: the lots of the loop, and one for the rest.    *)
LEMMA Apply ==
    ASSUME IInv, NEW id, ApplyTrade(id), NEW tr, tr = trades[id],
           NEW st, st = MatchAll(tr, Start(tr), OppositeIds(lots, tr)),
           NEW ks, ks = lots'
    PROVE  /\ id \in DOMAIN trades /\ id \notin applied /\ id \notin DOMAIN lots
           /\ tr \in Trades /\ Looped(tr, st, OppositeIds(lots, tr))
           /\ trades' = trades /\ applied' = applied \cup {id}
           /\ cash' = cash + st.gained /\ realized' = realized + st.gained
           /\ DOMAIN ks \in SUBSET (DOMAIN lots \cup {id})
           /\ \A i \in DOMAIN ks : LotOK(ks[i])
           /\ \A i \in DOMAIN lots : i \in DOMAIN ks /\ ks[i] = st.lots[i]
           /\ Moved(st.lots, ks, tr.market, tr.side, tr.price, 0, st.left)
  <1>1. /\ id \in DOMAIN trades /\ id \notin applied /\ trades' = trades
        /\ applied' = applied \cup {id}
        /\ ks = OpenRest(st, id, tr)
        /\ cash' = cash + st.gained /\ realized' = realized + st.gained
    BY DEF ApplyTrade, Start
  <1>2. id \notin DOMAIN lots
    BY <1>1 DEF IInv, TypeOK
  <1>3. tr \in Trades
    BY <1>1, Ids DEF IInv
  <1>4. LotsOK
    BY LotsAreOK
  <1>5. Looped(tr, st, OppositeIds(lots, tr))
    BY <1>3, <1>4, LoopAll
  <1>6. /\ DOMAIN st.lots = DOMAIN lots
        /\ \A i \in DOMAIN lots : LotOK(st.lots[i])
    BY <1>4, <1>5 DEF Looped, LotsOK
  <1>7. /\ tr.price \in Int /\ tr.price \in Prices /\ tr.qty \in Nat /\ tr.qty \in 1..MaxQty
        /\ tr.side \in N!Sides /\ tr.market \in Markets
    BY <1>3, TradeType
  <1>8. st.left \in Nat /\ st.left <= tr.qty
    <2>1. st.left \in Nat /\ st.left = Want(tr.qty, QtySum(lots, OppositeIds(lots, tr)))
      BY <1>5 DEF Looped
    <2>2. IsFiniteSet(OppositeIds(lots, tr)) /\ OppositeIds(lots, tr) \in SUBSET DOMAIN lots
      <3>1. OppositeIds(lots, tr) \in SUBSET DOMAIN lots
        BY DEF OppositeIds
      <3> QED
        BY <1>4, <3>1, FS_Subset DEF LotsOK
    <2>3. \A i \in OppositeIds(lots, tr) : lots[i].qty \in Nat
      <3>1. \A i \in OppositeIds(lots, tr) : lots[i] \in Lots
        BY <1>4, <2>2 DEF LotsOK, LotOK
      <3> QED
        BY <3>1, LotType
    <2>4. QtySum(lots, OppositeIds(lots, tr)) \in Nat
      BY <2>2, <2>3, UsedMore
    <2> QED
      BY <1>7, <2>1, <2>4 DEF Want
  <1> DEFINE new == [market |-> tr.market, side |-> tr.side, qty |-> st.left,
                     entry |-> tr.price, current |-> tr.price, unrealized |-> 0,
                     open |-> TRUE]
  <1>9. \/ st.left = 0 /\ ks = st.lots
        \/ /\ st.left # 0 /\ DOMAIN ks = DOMAIN lots \cup {id}
           /\ ks[id] = new /\ \A i \in DOMAIN lots : ks[i] = st.lots[i]
    <2>1. CASE st.left = 0
      BY <1>1, <2>1 DEF OpenRest
    <2>2. CASE st.left # 0
      <3>1. ks = [i \in DOMAIN st.lots \cup {id} |-> IF i = id THEN new ELSE st.lots[i]]
        BY <1>1, <2>2 DEF OpenRest, WithLot
      <3> HIDE DEF new
      <3> QED
        BY <1>2, <1>6, <2>2, <3>1
    <2> QED
      BY <2>1, <2>2
  <1>10. st.left # 0 => LotOK(new)
    <2> SUFFICES ASSUME st.left # 0
                 PROVE  LotOK(new)
      OBVIOUS
    <2>1. st.left \in 1..MaxQty
      BY <1>7, <1>8, BoundsAssumption
    <2>2. new \in Lots
      <3>1. 0 \in Int /\ TRUE \in BOOLEAN
        OBVIOUS
      <3> QED
        BY <1>7, <2>1, <3>1 DEF Lots
    <2>3. Gain(tr.side, tr.price, tr.price, st.left) = 0
      BY <1>7, <1>8, GainNothing
    <2> QED
      BY <2>2, <2>3 DEF LotOK
  <1>11. id \in DOMAIN ks =>
            /\ ks[id].market = tr.market /\ ks[id].side = tr.side
            /\ ks[id].entry = tr.price /\ ks[id].open /\ ks[id].qty = st.left /\ st.left # 0
    BY <1>2, <1>6, <1>9
  <1>12. id \notin DOMAIN ks => st.left = 0
    BY <1>9
  <1> HIDE DEF new
  <1>13. /\ DOMAIN ks \in SUBSET (DOMAIN lots \cup {id})
         /\ \A i \in DOMAIN ks : LotOK(ks[i])
         /\ \A i \in DOMAIN lots : i \in DOMAIN ks /\ ks[i] = st.lots[i]
    BY <1>6, <1>9, <1>10
  <1>14. IsFiniteSet(DOMAIN lots) /\ IsFiniteSet(DOMAIN ks)
    <2>1. IsFiniteSet(DOMAIN lots)
      BY <1>4 DEF LotsOK
    <2>2. IsFiniteSet(DOMAIN lots \cup {id})
      BY <2>1, FS_AddElement
    <2> QED
      BY <1>13, <2>1, <2>2, FS_Subset
  <1>15. PICK ls : ls = st.lots
    OBVIOUS
  <1>16. OneLot(ls, ks, id, tr.market, tr.side, tr.price)
    BY <1>2, <1>6, <1>11, <1>13, <1>14, <1>15 DEF OneLot
  <1>17. QtyLeft(ls, id) = 0 /\ QtyLeft(ks, id) = st.left
    BY <1>2, <1>6, <1>11, <1>12, <1>15 DEF QtyLeft
  <1>18. PICK a, b : a = 0 /\ b = st.left
    OBVIOUS
  <1>19. Moved(ls, ks, tr.market, tr.side, tr.price, a, b)
    BY <1>7, <1>16, <1>17, <1>18, LotChange
  <1> QED
    BY <1>1, <1>2, <1>3, <1>5, <1>13, <1>15, <1>18, <1>19

(* One trade more, and trades recorded that are not applied yet.           *)
LEMMA GainedMore ==
    ASSUME NEW A, IsFiniteSet(A), NEW id, id \notin A, NEW x \in [Markets -> Prices],
           \A i \in A \cup {id} : trades[i] \in Trades
    PROVE  /\ Gained(trades, A, x) \in Int
           /\ Gained(trades, A \cup {id}, x)
                = Gained(trades, A, x)
                    + Gain(trades[id].side, trades[id].price, x[trades[id].market],
                           trades[id].qty)
  <1> DEFINE B == A \cup {id}
             f == Gains(trades, A, x)
             h == Gains(trades, B, x)
             V(i) == Gain(trades[i].side, trades[i].price, x[trades[i].market],
                          trades[i].qty)
  <1>1. \A i \in B : V(i) \in Int
    <2> SUFFICES ASSUME NEW i \in B
                 PROVE  V(i) \in Int
      OBVIOUS
    <2>1. trades[i].price \in Int /\ trades[i].qty \in Int /\ trades[i].market \in Markets
      BY TradeType
    <2>2. x[trades[i].market] \in Int
      BY <2>1, PriceType
    <2> QED
      BY <2>1, <2>2, GainFacts
  <1>2. /\ \A i \in A : f[i] = V(i)
        /\ \A i \in B : h[i] = V(i)
    BY DEF Gains
  <1>3. Gained(trades, A, x) = Total(f, A) /\ Gained(trades, B, x) = Total(h, B)
    BY GainedTotal
  <1> HIDE DEF f, h, V
  <1>4. /\ \A i \in A : f[i] \in Int /\ f[i] = h[i]
        /\ \A i \in A \cup {id} : h[i] \in Int
    BY <1>1, <1>2
  <1>5. Total(h, B) = h[id] + Total(h, A) /\ Total(h, A) \in Int
    BY <1>4, TotalWith
  <1>6. Total(f, A) = Total(h, A)
    BY <1>4, TotalSame
  <1>7. h[id] = V(id) /\ V(id) \in Int
    BY <1>1, <1>2
  <1>8. Gained(trades, A, x) \in Int /\ Gained(trades, B, x) = Gained(trades, A, x) + V(id)
    BY <1>3, <1>5, <1>6, <1>7
  <1> QED
    BY <1>8 DEF V

LEMMA GainedSame ==
    ASSUME NEW p, NEW q, NEW A, \A i \in A : p[i] = q[i], NEW x
    PROVE  Gained(p, A, x) = Gained(q, A, x) /\ QtySum(p, A) = QtySum(q, A)
  <1>1. Gains(p, A, x) = Gains(q, A, x) /\ Qtys(p, A) = Qtys(q, A)
    BY DEF Gains, Qtys
  <1> QED
    BY <1>1, GainedTotal, QtySumTotal

(* Marking moves prices only. *)
LEMMA MarkSame ==
    ASSUME NEW ls, NEW ks, DOMAIN ks = DOMAIN ls,
           \A i \in DOMAIN ls :
              /\ ks[i].market = ls[i].market /\ ks[i].side = ls[i].side
              /\ ks[i].entry = ls[i].entry /\ ks[i].qty = ls[i].qty
              /\ ks[i].open = ls[i].open
    PROVE  /\ \A x : Worth(ks, x) = Worth(ls, x)
           /\ QtySum(ks, Open(ks)) = QtySum(ls, Open(ls))
           /\ \A m, s : QtySum(ks, HeldIds(ks, m, s)) = QtySum(ls, HeldIds(ls, m, s))
  <1>1. Open(ks) = Open(ls) /\ \A m, s : HeldIds(ks, m, s) = HeldIds(ls, m, s)
    BY DEF Open, HeldIds
  <1>2. \A x : Worths(ks, x) = Worths(ls, x)
    BY <1>1 DEF Worths, Open
  <1>3. \A S \in SUBSET DOMAIN ls : Qtys(ks, S) = Qtys(ls, S)
    BY DEF Qtys
  <1>4. Open(ls) \in SUBSET DOMAIN ls /\ \A m, s : HeldIds(ls, m, s) \in SUBSET DOMAIN ls
    BY DEF Open, HeldIds
  <1> QED
    BY <1>1, <1>2, <1>3, <1>4, WorthTotal, QtySumTotal

LEMMA MarkFacts ==
    ASSUME IInv, NEW m \in Markets, NEW p \in Prices, MarkToMarket(m, p), NEW ks, ks = lots'
    PROVE  /\ DOMAIN ks = DOMAIN lots
           /\ \A i \in DOMAIN lots :
                 /\ LotOK(ks[i])
                 /\ ks[i].market = lots[i].market /\ ks[i].side = lots[i].side
                 /\ ks[i].entry = lots[i].entry /\ ks[i].qty = lots[i].qty
                 /\ ks[i].open = lots[i].open
  <1>1. ks = [i \in DOMAIN lots |->
                IF lots[i].market = m /\ lots[i].open
                THEN UpdatePrice(lots[i], p) ELSE lots[i]]
    BY DEF MarkToMarket
  <1>2. ASSUME NEW l, LotOK(l), l.open, NEW r, r = UpdatePrice(l, p)
        PROVE  LotOK(r) /\ r.market = l.market /\ r.side = l.side
                 /\ r.entry = l.entry /\ r.qty = l.qty /\ r.open = l.open
    <2> DEFINE g == Gain(l.side, l.entry, p, l.qty)
               k == [l EXCEPT !.current = p, !.unrealized = g]
    <2>1. r = k
      BY <1>2 DEF UpdatePrice, LotOK, Lots
    <2>2. l \in Lots /\ l.entry \in Int /\ l.qty \in Int /\ p \in Int
      <3>1. \A y \in Prices : y \in Int
        BY PricesAssumption
      <3> QED
        BY <1>2, <3>1, LotType DEF LotOK
    <2>3. g \in Int
      BY <2>2, GainFacts
    <2> HIDE DEF g
    <2>4. /\ k.market = l.market /\ k.side = l.side /\ k.entry = l.entry
          /\ k.qty = l.qty /\ k.open = l.open /\ k.current = p /\ k.unrealized = g
      BY <2>2 DEF Lots
    <2>5. k \in Lots
      BY <2>2, <2>3 DEF Lots
    <2> HIDE DEF k
    <2> QED
      BY <1>2, <2>1, <2>4, <2>5 DEF LotOK, g
  <1>3. \A i \in DOMAIN lots : LotOK(lots[i])
    BY LotsAreOK DEF LotsOK
  <1>4. ASSUME NEW i \in DOMAIN lots
        PROVE  /\ LotOK(ks[i])
               /\ ks[i].market = lots[i].market /\ ks[i].side = lots[i].side
               /\ ks[i].entry = lots[i].entry /\ ks[i].qty = lots[i].qty
               /\ ks[i].open = lots[i].open
    <2>1. CASE lots[i].market = m /\ lots[i].open
      <3>1. PICK l, r : l = lots[i] /\ r = ks[i]
        OBVIOUS
      <3>2. LotOK(l) /\ l.open /\ r = UpdatePrice(l, p)
        BY <1>1, <1>3, <2>1, <3>1
      <3>3. LotOK(r) /\ r.market = l.market /\ r.side = l.side
              /\ r.entry = l.entry /\ r.qty = l.qty /\ r.open = l.open
        BY <1>2, <3>2
      <3> QED
        BY <3>1, <3>3
    <2>2. CASE ~(lots[i].market = m /\ lots[i].open)
      <3>1. ks[i] = lots[i]
        BY <1>1, <2>2
      <3> QED
        BY <1>3, <3>1
    <2> QED
      BY <2>1, <2>2
  <1> QED
    BY <1>1, <1>4

(* The invariant of the next state, from what is known of its variables.   *)
LEMMA Shown ==
    ASSUME trades' \in Seq(Trades), applied' \in SUBSET DOMAIN trades',
           NEW ks, ks = lots', DOMAIN ks \in SUBSET applied',
           \A i \in DOMAIN ks : LotOK(ks[i]),
           realized' \in Int, cash' = InitialBalance + realized',
           \A x \in [Markets -> Prices] :
              realized' + Worth(ks, x) = Gained(trades', applied', x)
    PROVE  IInv'
  <1>1. TypeOK'
    BY BalanceAssumption DEF TypeOK, LotOK
  <1>2. ProfitConserved'
    <2>1. \A x \in [Markets -> Prices] :
             realized' + Worth(lots', x) = Gained(trades', applied', x)
      OBVIOUS
    <2>2. \A i \in DOMAIN lots' : LotOK(lots'[i])
      OBVIOUS
    <2>3. \A i \in DOMAIN lots' :
             lots'[i].unrealized =
                 IF lots'[i].open
                 THEN Gain(lots'[i].side, lots'[i].entry, lots'[i].current, lots'[i].qty)
                 ELSE 0
      BY <2>2 DEF LotOK
    <2> QED
      BY <2>1, <2>3 DEF ProfitConserved
  <1> QED
    BY <1>1, <1>2 DEF IInv

LEMMA InitHolds == Init => IInv
  <1> SUFFICES ASSUME Init
               PROVE  IInv
    OBVIOUS
  <1>1. DOMAIN lots = {} /\ DOMAIN trades = {} /\ Open(lots) = {}
    BY DEF Init, Open
  <1>2. TypeOK
    BY <1>1, BalanceAssumption DEF Init, TypeOK
  <1>3. \A x : Worth(lots, x) = 0 /\ Gained(trades, applied, x) = 0
    BY <1>1, WorthTotal, GainedTotal, TotalEmpty DEF Init
  <1>4. ProfitConserved
    BY <1>1, <1>3, ProfitMeans, BalanceAssumption DEF Init
  <1> QED
    BY <1>2, <1>4 DEF IInv

LEMMA NextHolds == IInv /\ [Next]_vars => IInv'
  <1> SUFFICES ASSUME IInv, [Next]_vars
               PROVE  IInv'
    OBVIOUS
  <1>1. /\ trades \in Seq(Trades) /\ applied \in SUBSET DOMAIN trades
        /\ DOMAIN lots \in SUBSET applied /\ realized \in Int
        /\ cash = InitialBalance + realized
        /\ \A i \in DOMAIN lots : LotOK(lots[i])
        /\ \A x \in [Markets -> Prices] :
              realized + Worth(lots, x) = Gained(trades, applied, x)
    BY ProfitMeans, LotsAreOK DEF IInv, TypeOK, LotsOK
  <1>2. PICK ks : ks = lots'
    OBVIOUS
  <1>3. CASE Record
    <2>1. PICK tr \in Trades : trades' = Append(trades, tr)
      BY <1>3 DEF Record
    <2>2. UNCHANGED <<applied, lots, cash, realized>>
      BY <1>3 DEF Record
    <2>3. trades' \in Seq(Trades) /\ DOMAIN trades \in SUBSET DOMAIN trades'
      BY <1>1, <2>1
    <2>4. \A i \in applied : trades'[i] = trades[i]
      BY <1>1, <2>1
    <2>5. \A x : Gained(trades', applied, x) = Gained(trades, applied, x)
      BY <2>4, GainedSame
    <2> QED
      BY <1>1, <1>2, <2>2, <2>3, <2>5, Shown
  <1>4. ASSUME NEW id, ApplyTrade(id)
        PROVE  IInv'
    <2>1. PICK tr : tr = trades[id]
      OBVIOUS
    <2>2. PICK st : st = MatchAll(tr, Start(tr), OppositeIds(lots, tr))
      OBVIOUS
    <2>3. /\ id \in DOMAIN trades /\ id \notin applied
          /\ tr \in Trades /\ Looped(tr, st, OppositeIds(lots, tr))
          /\ trades' = trades /\ applied' = applied \cup {id}
          /\ cash' = cash + st.gained /\ realized' = realized + st.gained
          /\ DOMAIN ks \in SUBSET (DOMAIN lots \cup {id})
          /\ \A i \in DOMAIN ks : LotOK(ks[i])
          /\ Moved(st.lots, ks, tr.market, tr.side, tr.price, 0, st.left)
      BY <1>2, <1>4, <2>1, <2>2, Apply
    <2>4. st.gained \in Int /\ st.left \in Nat
      BY <2>3 DEF Looped
    <2>5. realized' \in Int /\ cash' = InitialBalance + realized'
      BY <1>1, <2>3, <2>4, BalanceAssumption
    <2>6. applied' \in SUBSET DOMAIN trades' /\ DOMAIN ks \in SUBSET applied'
      BY <1>1, <2>3
    <2>7. /\ tr.price \in Int /\ tr.qty \in Int /\ tr.market \in Markets
      BY <2>3, TradeType
    <2>8. ASSUME NEW x \in [Markets -> Prices]
          PROVE  realized' + Worth(ks, x) = Gained(trades', applied', x)
      <3>1. PICK p \in Int : p = x[tr.market]
        BY <2>7, PriceType
      <3>2. PICK w, v, u : w = Worth(lots, x) /\ v = Worth(st.lots, x) /\ u = Worth(ks, x)
        OBVIOUS
      <3>3. PICK rest, all, none : /\ rest = Gain(tr.side, tr.price, p, st.left)
                                   /\ all = Gain(tr.side, tr.price, p, tr.qty)
                                   /\ none = Gain(tr.side, tr.price, p, 0)
        OBVIOUS
      <3>4. rest \in Int /\ all \in Int /\ none = 0
        <4>1. st.left \in Int
          BY <2>4
        <4>2. /\ Gain(tr.side, tr.price, p, st.left) \in Int
              /\ Gain(tr.side, tr.price, p, 0) = 0
          BY <2>7, <4>1, GainFacts
        <4>3. Gain(tr.side, tr.price, p, tr.qty) \in Int
          BY <2>7, GainFacts
        <4> QED
          BY <3>3, <4>2, <4>3
      <3>5. v \in Int /\ st.gained + v + rest = w + all
        BY <2>3, <3>1, <3>2, <3>3 DEF Looped
      <3>6. u = v - none + rest
        BY <2>3, <3>1, <3>2, <3>3 DEF Moved
      <3>7. PICK g : g = Gained(trades, applied, x)
        OBVIOUS
      <3>8. realized + w = g
        BY <1>1, <3>2, <3>7
      <3>9. w \in Int
        BY <3>2, LotsAreOK, LotSums
      <3>10. Gained(trades', applied', x) = g + all
        <4>1. /\ IsFiniteSet(applied) /\ \A i \in applied \cup {id} : trades[i] \in Trades
          BY <1>1, <2>3, Ids DEF IInv
        <4>2. Gained(trades, applied \cup {id}, x)
                = Gained(trades, applied, x)
                    + Gain(trades[id].side, trades[id].price, x[trades[id].market],
                           trades[id].qty)
          BY <2>3, <4>1, GainedMore
        <4> QED
          BY <2>1, <2>3, <3>1, <3>3, <3>7, <4>2
      <3>11. (realized + st.gained) + u = g + all
        <4>1. PICK re \in Int : re = realized
          BY <1>1
        <4>2. PICK sg \in Int : sg = st.gained
          BY <2>4
        <4>3. re + w = g /\ sg + v + rest = w + all /\ u = v - 0 + rest
          BY <3>4, <3>5, <3>6, <3>8, <4>1, <4>2
        <4>4. (re + sg) + u = g + all
          BY <3>4, <3>5, <3>9, <4>3
        <4> QED
          BY <4>1, <4>2, <4>4
      <3> QED
        BY <2>3, <3>2, <3>10, <3>11
    <2> QED
      BY <1>1, <1>2, <2>3, <2>5, <2>6, <2>8, Shown
  <1>5. ASSUME NEW m \in Markets, NEW p \in Prices, MarkToMarket(m, p)
        PROVE  IInv'
    <2>1. UNCHANGED <<trades, applied, cash, realized>>
      BY <1>5 DEF MarkToMarket
    <2>2. /\ DOMAIN ks = DOMAIN lots
          /\ \A i \in DOMAIN lots :
                 /\ LotOK(ks[i])
                 /\ ks[i].market = lots[i].market /\ ks[i].side = lots[i].side
                 /\ ks[i].entry = lots[i].entry /\ ks[i].qty = lots[i].qty
                 /\ ks[i].open = lots[i].open
      BY <1>2, <1>5, MarkFacts
    <2>3. \A x : Worth(ks, x) = Worth(lots, x)
      BY <2>2, MarkSame
    <2> QED
      BY <1>1, <1>2, <2>1, <2>2, <2>3, Shown
  <1>6. CASE UNCHANGED vars
    <2>1. UNCHANGED <<trades, applied, cash, realized>> /\ ks = lots
      BY <1>2, <1>6 DEF vars
    <2> QED
      BY <1>1, <1>2, <2>1, Shown
  <1> QED
    BY <1>3, <1>4, <1>5, <1>6 DEF Next

LEMMA Inductive == Spec => []IInv
  BY InitHolds, NextHolds, PTL DEF Spec

(* The lots are those of applied trades, of the trade's market and with a  *)
(* quantity between one and the largest trade's, however they were split.  *)
THEOREM TypeCorrect == Spec => []TypeOK
  <1>1. IInv => TypeOK
    BY DEF IInv
  <1> QED
    BY <1>1, Inductive, PTL

(* Account.apply_trade neither makes nor loses profit: at any prices what  *)
(* was realized and what the open lots are worth is what the trades gained. *)
THEOREM ProfitHolds == Spec => []ProfitConserved
  <1>1. IInv => ProfitConserved
    BY DEF IInv
  <1> QED
    BY <1>1, Inductive, PTL

------------------------------------------------------------------------------
(* First in, first out. *)

LEMMA TakenType ==
    ASSUME LotsOK, NEW tr \in Trades, NEW i \in OppositeIds(lots, tr)
    PROVE  /\ Taken(tr, OppositeIds(lots, tr), i) \in Int
           /\ QtyLeft(lots, i) = lots[i].qty /\ lots[i].qty \in Int /\ i \in DOMAIN lots
  <1> DEFINE O == OppositeIds(lots, tr)
             S == Older(O, i)
  <1>1. i \in DOMAIN lots /\ lots[i].open /\ lots[i] \in Lots
    BY DEF OppositeIds, LotsOK, LotOK
  <1>2. lots[i].qty \in Int
    BY <1>1, LotType
  <1>3. S \in SUBSET DOMAIN lots
    BY DEF OppositeIds, Older
  <1>4. IsFiniteSet(S) /\ \A j \in S : lots[j].qty \in Nat
    <2>1. \A j \in S : lots[j] \in Lots
      BY <1>3 DEF LotsOK, LotOK
    <2>2. IsFiniteSet(S)
      BY <1>3, FS_Subset DEF LotsOK
    <2> HIDE DEF S
    <2> QED
      BY <2>1, <2>2, LotType
  <1> HIDE DEF S
  <1>5. QtySum(lots, S) \in Nat
    BY <1>4, UsedMore
  <1>6. tr.qty \in Nat
    BY TradeType
  <1>7. Want(tr.qty, QtySum(lots, S)) \in Int
    BY <1>5, <1>6 DEF Want
  <1> QED
    BY <1>1, <1>2, <1>7 DEF Taken, QtyLeft, S

(* A trade takes from each opposite lot what it still needs once every     *)
(* older opposite lot is used up, for any number of lots and in whatever   *)
(* order the trades reach the account.                                     *)
THEOREM FifoHolds == Spec => FirstInFirstOut
  <1> DEFINE Fifo(id) ==
        \A i \in OppositeIds(lots, trades[id]) :
            QtyLeft(lots, i) - QtyLeft(lots', i)
              = LET want == Want(trades[id].qty,
                                 QtySum(lots, {j \in OppositeIds(lots, trades[id]) : j < i}))
                IN  IF want < lots[i].qty THEN want ELSE lots[i].qty
  <1>1. ASSUME IInv, NEW id, ApplyTrade(id)
        PROVE  applied' \ applied = {id} /\ Fifo(id)
    <2>1. PICK tr : tr = trades[id]
      OBVIOUS
    <2>2. PICK st, ks : /\ st = MatchAll(tr, Start(tr), OppositeIds(lots, tr))
                        /\ ks = lots'
      OBVIOUS
    <2>3. /\ id \notin applied /\ tr \in Trades /\ applied' = applied \cup {id}
          /\ Looped(tr, st, OppositeIds(lots, tr))
          /\ \A i \in DOMAIN lots : i \in DOMAIN ks /\ ks[i] = st.lots[i]
      BY <1>1, <2>1, <2>2, Apply
    <2>4. ASSUME NEW i \in OppositeIds(lots, tr)
          PROVE  QtyLeft(lots, i) - QtyLeft(ks, i) = Taken(tr, OppositeIds(lots, tr), i)
      <3>1. PICK t : t = Taken(tr, OppositeIds(lots, tr), i)
        OBVIOUS
      <3>2. /\ t \in Int /\ QtyLeft(lots, i) = lots[i].qty
            /\ lots[i].qty \in Int /\ i \in DOMAIN lots
        BY <1>1, <2>3, <3>1, LotsAreOK, TakenType
      <3>3. QtyLeft(st.lots, i) = lots[i].qty - t /\ DOMAIN st.lots = DOMAIN lots
        BY <2>3, <3>1 DEF Looped
      <3>4. QtyLeft(ks, i) = QtyLeft(st.lots, i)
        BY <2>3, <3>2, <3>3 DEF QtyLeft
      <3> QED
        BY <3>1, <3>2, <3>3, <3>4
    <2>5. Fifo(id)
      BY <2>1, <2>2, <2>4 DEF Taken, Older
    <2> QED
      BY <2>3, <2>5
  <1>2. IInv /\ [Next]_vars => \A id \in applied' \ applied : Fifo(id)
    <2> SUFFICES ASSUME IInv, [Next]_vars, NEW id \in applied' \ applied
                 PROVE  Fifo(id)
      OBVIOUS
    <2>1. CASE UNCHANGED applied
      BY <2>1
    <2>2. ASSUME NEW k, ApplyTrade(k)
          PROVE  Fifo(id)
      <3>1. applied' \ applied = {k} /\ Fifo(k)
        BY <1>1, <2>2
      <3> QED
        BY <3>1
    <2> HIDE DEF Fifo
    <2> QED
      BY <2>1, <2>2 DEF Next, Record, MarkToMarket, vars
  <1>3. IInv /\ [Next]_vars
          => [\A id \in applied' \ applied :
                LET tr == trades[id]
                    opp == OppositeIds(lots, tr)
                IN  \A i \in opp :
                      QtyLeft(lots, i) - QtyLeft(lots', i)
                        = LET want == Want(tr.qty, QtySum(lots, {j \in opp : j < i}))
                          IN  IF want < lots[i].qty THEN want ELSE lots[i].qty]_vars
    BY <1>2
  <1> QED
    BY <1>3, Inductive, PTL DEF Spec, FirstInFirstOut

------------------------------------------------------------------------------
(* The account is the ledger of module Ledger. *)

LEMMA SameOpposite ==
    ASSUME LotsOK, NEW tr \in Trades
    PROVE  OppositeIds(lots, tr) = HeldIds(lots, tr.market, N!Opposite(tr.side))
  <1>1. tr.side \in N!Sides
    BY TradeType
  <1>2. \A s \in N!Sides : s # tr.side <=> s = N!Opposite(tr.side)
    BY <1>1, TwoSides DEF N!Opposite
  <1>3. \A i \in DOMAIN lots : lots[i].side \in N!Sides
    BY LotType DEF LotsOK, LotOK
  <1> QED
    BY <1>2, <1>3 DEF OppositeIds, HeldIds

LEMMA LedgerNames ==
    /\ L!Sides = N!Sides /\ L!Trades = [market : Markets, side : N!Sides, qty : Nat]
    /\ \A s : L!Opposite(s) = N!Opposite(s)
  BY DEF L!Sides, N!Sides, L!Trades, L!Opposite, N!Opposite

LEMMA LedgerInit == Init => L!Init
  <1> SUFFICES ASSUME Init
               PROVE  L!Init
    OBVIOUS
  <1>1. DOMAIN lots = {} /\ DOMAIN trades = {} /\ applied = {}
    BY DEF Init
  <1>2. LedgerTrades = <<>>
    BY <1>1 DEF LedgerTrades
  <1>3. Open(lots) = {} /\ \A m, s : HeldIds(lots, m, s) = {}
    BY <1>1 DEF Open, HeldIds
  <1>4. \A p : QtySum(p, {}) = 0
    BY UsedMore, FS_EmptySet
  <1>5. OpenBook = L!EmptyBook
    BY <1>3, <1>4, LedgerNames DEF OpenBook, L!EmptyBook
  <1>6. BookedQty = 0
    <2>1. BookedQty = (0 - 0) \div 2
      BY <1>1, <1>3, <1>4 DEF BookedQty
    <2> QED
      BY <2>1
  <1> QED
    BY <1>1, <1>2, <1>5, <1>6 DEF L!Init

LEMMA LedgerRecord ==
    ASSUME IInv, Record
    PROVE  L!Record
  <1>1. PICK tr \in Trades : trades' = Append(trades, tr)
    BY DEF Record
  <1>2. UNCHANGED <<applied, lots, cash, realized>>
    BY DEF Record
  <1>3. /\ trades \in Seq(Trades) /\ Len(trades) \in Nat /\ DOMAIN trades = 1..Len(trades)
        /\ applied \in SUBSET DOMAIN trades
    BY DEF IInv, TypeOK
  <1>4. /\ trades' \in Seq(Trades) /\ Len(trades') = Len(trades) + 1
        /\ DOMAIN trades' = 1..Len(trades) + 1
        /\ \A i \in DOMAIN trades : trades'[i] = trades[i]
    BY <1>1, <1>3
  <1>5. \A i \in DOMAIN trades' : trades'[i] \in Trades
    BY <1>4
  <1>6. PICK t, u : t = LedgerTrades /\ u = LedgerTrades'
    OBVIOUS
  <1>7. /\ t = [i \in 1..Len(trades) |->
                  [market |-> trades[i].market, side |-> trades[i].side,
                   qty |-> trades[i].qty]]
        /\ u = [i \in 1..Len(trades) + 1 |->
                  [market |-> trades'[i].market, side |-> trades'[i].side,
                   qty |-> trades'[i].qty]]
    BY <1>3, <1>4, <1>6 DEF LedgerTrades
  <1>8. \A i \in 1..Len(trades) + 1 :
            /\ trades'[i].market \in Markets /\ trades'[i].side \in N!Sides
            /\ trades'[i].qty \in Nat
    BY <1>4, <1>5, TradeType
  <1>9. \A i \in 1..Len(trades) + 1 : u[i] \in L!Trades
    BY <1>7, <1>8, LedgerNames
  <1>10. u \in Seq(L!Trades) /\ Len(u) = Len(t) + 1
    BY <1>3, <1>7, <1>9
  <1>11. \A i \in DOMAIN t : u[i] = t[i]
    BY <1>3, <1>4, <1>7
  <1>12. QtySum(trades', applied) = QtySum(trades, applied)
    BY <1>3, <1>4, GainedSame
  <1>13. OpenBook' = OpenBook /\ BookedQty' = BookedQty
    BY <1>2, <1>12 DEF OpenBook, BookedQty
  <1> QED
    BY <1>2, <1>6, <1>10, <1>11, <1>13 DEF L!Record

LEMMA LedgerSettle ==
    ASSUME IInv, NEW id, ApplyTrade(id)
    PROVE  id \in DOMAIN LedgerTrades \ applied /\ L!Settle(id)
  <1>1. PICK tr : tr = trades[id]
    OBVIOUS
  <1>2. PICK st, ks : /\ st = MatchAll(tr, Start(tr), OppositeIds(lots, tr))
                      /\ ks = lots'
    OBVIOUS
  <1>3. /\ id \in DOMAIN trades /\ id \notin applied
        /\ tr \in Trades /\ Looped(tr, st, OppositeIds(lots, tr))
        /\ trades' = trades /\ applied' = applied \cup {id}
        /\ Moved(st.lots, ks, tr.market, tr.side, tr.price, 0, st.left)
    BY <1>1, <1>2, Apply
  <1>4. LotsOK
    BY LotsAreOK
  <1>5. /\ tr.qty \in Nat /\ tr.side \in N!Sides /\ tr.market \in Markets
    BY <1>3, TradeType
  <1>6. PICK le : le = LedgerTrades[id]
    OBVIOUS
  <1>7. /\ id \in DOMAIN LedgerTrades \ applied
        /\ le.market = tr.market /\ le.side = tr.side /\ le.qty = tr.qty
    BY <1>1, <1>3, <1>6 DEF LedgerTrades
  <1>8. LedgerTrades' = LedgerTrades
    BY <1>3 DEF LedgerTrades
  <1> DEFINE other == N!Opposite(tr.side)
             H(l, m, s) == QtySum(l, HeldIds(l, m, s))
             c == tr.qty - st.left
  <1>9. other \in N!Sides /\ other # tr.side
    BY <1>5, TwoSides DEF N!Opposite
  <1>10. \A m \in Markets, s \in N!Sides : OpenBook[m][s] = H(lots, m, s)
    BY DEF OpenBook
  <1>11. \A m \in Markets, s \in N!Sides : OpenBook'[m][s] = H(ks, m, s)
    BY <1>2 DEF OpenBook
  <1>12. st.left \in Nat /\ st.left = Want(tr.qty, H(lots, tr.market, other))
    BY <1>3, <1>4, SameOpposite DEF Looped
  <1>13. \A m, s : H(lots, m, s) \in Int
    BY <1>4, LotSums
  <1>14. c = L!ClosedBy(OpenBook, le)
    <2>1. L!ClosedBy(OpenBook, le)
            = IF tr.qty <= OpenBook[tr.market][other] THEN tr.qty
              ELSE OpenBook[tr.market][other]
      BY <1>7, LedgerNames DEF L!ClosedBy, L!Closable
    <2>2. PICK h \in Int : h = H(lots, tr.market, other)
      BY <1>13
    <2>3. OpenBook[tr.market][other] = h
      BY <1>5, <1>9, <1>10, <2>2
    <2> QED
      BY <1>5, <1>12, <2>1, <2>2, <2>3 DEF Want
  <1>15. ASSUME NEW m \in Markets, NEW s \in N!Sides
         PROVE  H(ks, m, s) = IF m # tr.market THEN H(lots, m, s)
                              ELSE IF s = tr.side THEN H(lots, m, s) + (tr.qty - c)
                              ELSE H(lots, m, s) - c
    <2>1. PICK h, k, n : h \in Int /\ h = H(lots, m, s) /\ k = H(st.lots, m, s) /\ n = H(ks, m, s)
      BY <1>13
    <2>2. k = h - Closed(tr, m, s, c)
      BY <1>3, <2>1 DEF Looped
    <2>3. /\ (m = tr.market /\ s = tr.side) => n = k - 0 + st.left
          /\ ~(m = tr.market /\ s = tr.side) => n = k
      BY <1>3, <2>1 DEF Moved
    <2>4. c \in Int /\ st.left = tr.qty - c
      BY <1>5, <1>12
    <2> HIDE DEF c
    <2>5. CASE m # tr.market
      <3>1. Closed(tr, m, s, c) = 0
        BY <2>5 DEF Closed
      <3> QED
        BY <2>1, <2>2, <2>3, <2>5, <3>1
    <2>6. CASE m = tr.market /\ s = tr.side
      <3>1. Closed(tr, m, s, c) = 0
        BY <2>6 DEF Closed
      <3>2. n = h + (tr.qty - c)
        BY <1>5, <2>1, <2>2, <2>3, <2>4, <2>6, <3>1
      <3> QED
        BY <2>1, <2>6, <3>2
    <2>7. CASE m = tr.market /\ s # tr.side
      <3>1. Closed(tr, m, s, c) = c
        BY <2>7 DEF Closed
      <3> QED
        BY <2>1, <2>2, <2>3, <2>7, <3>1
    <2> QED
      BY <2>5, <2>6, <2>7
  <1>16. OpenBook' = L!Net(OpenBook, le)
    <2>1. PICK b, k : b = OpenBook /\ k = OpenBook'
      OBVIOUS
    <2>2. /\ b = [m \in Markets |-> [s \in N!Sides |-> b[m][s]]]
          /\ k = [m \in Markets |-> [s \in N!Sides |-> k[m][s]]]
      BY <2>1 DEF OpenBook
    <2>3. \A m \in Markets, s \in N!Sides :
             /\ m # tr.market => k[m][s] = b[m][s]
             /\ m = tr.market /\ s = tr.side => k[m][s] = b[m][s] + (tr.qty - c)
             /\ m = tr.market /\ s # tr.side => k[m][s] = b[m][s] - c
      <3> HIDE DEF H, c
      <3> QED
        BY <1>10, <1>11, <1>15, <2>1
    <2>4. PICK d : d = c
      OBVIOUS
    <2>5. PICK row : row = [s \in N!Sides |-> IF s = tr.side
                                              THEN b[tr.market][s] + (tr.qty - d)
                                              ELSE b[tr.market][s] - d]
      OBVIOUS
    <2>6. L!Net(b, le) = [b EXCEPT ![tr.market] = row]
      BY <1>7, <1>14, <2>1, <2>4, <2>5, LedgerNames DEF L!Net
    <2>7. k[tr.market] = row
      <3>1. \A s \in N!Sides : k[tr.market][s] = IF s = tr.side
                                                 THEN b[tr.market][s] + (tr.qty - d)
                                                 ELSE b[tr.market][s] - d
        BY <1>5, <2>3, <2>4
      <3>2. k[tr.market] = [s \in N!Sides |-> k[tr.market][s]]
        BY <1>5, <2>2
      <3> QED
        BY <2>5, <3>1, <3>2
    <2>8. \A m \in Markets : m # tr.market => k[m] = b[m]
      <3> SUFFICES ASSUME NEW m \in Markets, m # tr.market
                   PROVE  k[m] = b[m]
        OBVIOUS
      <3>1. /\ k[m] = [s \in N!Sides |-> k[m][s]]
            /\ b[m] = [s \in N!Sides |-> b[m][s]]
        BY <2>2
      <3>2. \A s \in N!Sides : k[m][s] = b[m][s]
        BY <2>3
      <3> QED
        BY <3>1, <3>2
    <2>9. /\ DOMAIN k = Markets /\ DOMAIN b = Markets
          /\ k = [m \in Markets |-> k[m]] /\ b = [m \in Markets |-> b[m]]
      BY <2>2
    <2>10. k = [b EXCEPT ![tr.market] = row]
      BY <1>5, <2>7, <2>8, <2>9
    <2> QED
      BY <2>1, <2>6, <2>10
  <1>17. BookedQty' = BookedQty + c
    <2>1. /\ IsFiniteSet(applied) /\ IsFiniteSet(applied')
          /\ applied' \in SUBSET DOMAIN trades
      <3>1. IsFiniteSet(applied) /\ applied \in SUBSET DOMAIN trades
        BY Ids DEF IInv, TypeOK
      <3> QED
        BY <1>3, <3>1, FS_AddElement
    <2>2. \A i \in applied' : trades[i].qty \in Nat
      <3>1. \A i \in applied' : trades[i] \in Trades
        BY <2>1, Ids DEF IInv
      <3> QED
        BY <3>1, TradeType
    <2>3. /\ QtySum(trades, applied') = tr.qty + QtySum(trades, applied)
          /\ QtySum(trades, applied) \in Nat
      <3>1. PICK A : A = applied'
        OBVIOUS
      <3>2. id \in A /\ A \ {id} = applied /\ applied \in SUBSET A
        BY <1>3, <3>1
      <3>3. QtySum(trades, A) = trades[id].qty + QtySum(trades, A \ {id})
        BY <2>1, <2>2, <3>1, <3>2, UsedMore
      <3>4. QtySum(trades, applied) \in Nat
        BY <2>1, <2>2, <3>1, <3>2, UsedMore
      <3> QED
        BY <1>1, <3>1, <3>2, <3>3, <3>4
    <2>4. PICK g, h, u, v :
             /\ g \in Int /\ h \in Int /\ u \in Int
             /\ g = QtySum(trades, applied) /\ h = QtySum(lots, Open(lots))
             /\ u = QtySum(st.lots, Open(st.lots)) /\ v = QtySum(ks, Open(ks))
      BY <1>3, <1>4, <2>3, LotSums DEF Looped
    <2>5. u = h - (tr.qty - st.left) /\ v = u - 0 + st.left
      BY <1>3, <2>4 DEF Looped, Moved
    <2>6. BookedQty = (g - h) \div 2
      BY <2>4 DEF BookedQty
    <2>7. BookedQty' = ((tr.qty + g) - v) \div 2
      <3>1. BookedQty' = (QtySum(trades', applied') - QtySum(ks, Open(ks))) \div 2
        BY <1>2 DEF BookedQty
      <3>2. QtySum(trades', applied') = tr.qty + g
        BY <1>3, <2>3, <2>4
      <3> QED
        BY <2>4, <3>1, <3>2
    <2>8. (tr.qty + g) - v = (g - h) + 2 * c
      BY <1>5, <1>12, <2>4, <2>5
    <2>9. PICK d \in Int, n \in Int : d = g - h /\ n = c
      BY <1>5, <1>12, <2>4
    <2>10. (d + 2 * n) \div 2 = d \div 2 + n
      OBVIOUS
    <2> QED
      BY <2>6, <2>7, <2>8, <2>9, <2>10
  <1> QED
    BY <1>3, <1>6, <1>7, <1>8, <1>14, <1>16, <1>17 DEF L!Settle

LEMMA LedgerMark ==
    ASSUME IInv, NEW m \in Markets, NEW p \in Prices, MarkToMarket(m, p)
    PROVE  UNCHANGED L!vars
  <1>1. trades' = trades /\ applied' = applied
    BY DEF MarkToMarket
  <1>2. PICK ks : ks = lots'
    OBVIOUS
  <1>3. /\ QtySum(ks, Open(ks)) = QtySum(lots, Open(lots))
        /\ \A i, s : QtySum(ks, HeldIds(ks, i, s)) = QtySum(lots, HeldIds(lots, i, s))
    BY <1>2, MarkFacts, MarkSame
  <1>4. OpenBook' = OpenBook
    BY <1>2, <1>3 DEF OpenBook
  <1>5. BookedQty' = BookedQty
    BY <1>1, <1>2, <1>3 DEF BookedQty
  <1>6. LedgerTrades' = LedgerTrades
    BY <1>1 DEF LedgerTrades
  <1> QED
    BY <1>1, <1>4, <1>5, <1>6 DEF L!vars

LEMMA LedgerStep == IInv /\ [Next]_vars => [L!Next]_(L!vars)
  <1> SUFFICES ASSUME IInv, [Next]_vars
               PROVE  [L!Next]_(L!vars)
    OBVIOUS
  <1>1. CASE Record
    BY <1>1, LedgerRecord DEF L!Next
  <1>2. ASSUME NEW id \in 1..MaxTrades, ApplyTrade(id)
        PROVE  L!Next
    BY <1>2, LedgerSettle DEF L!Next
  <1>3. ASSUME NEW m \in Markets, NEW p \in Prices, MarkToMarket(m, p)
        PROVE  UNCHANGED L!vars
    BY <1>3, LedgerMark
  <1>4. CASE UNCHANGED vars
    BY <1>4 DEF vars, L!vars, LedgerTrades, OpenBook, BookedQty
  <1> QED
    BY <1>1, <1>2, <1>3, <1>4 DEF Next

(* Added up per market and side, the lots are the ledger's book: every     *)
(* step of the account records trades, settles one trade in full, once and *)
(* on top of the rest, or changes prices only.                             *)
THEOREM ImplementsLedgerHolds == Spec => ImplementsLedger
  BY LedgerInit, LedgerStep, Inductive, PTL DEF Spec, ImplementsLedger, L!Spec
=============================================================================
