--------------------------------- MODULE Sums ---------------------------------
(***************************************************************************)
(* Facts about sums over finite sets, for the proofs of the accounts.  The *)
(* models add quantities and gains up with MapThenSumSet, which takes the  *)
(* elements of a set in an arbitrary order; what the proofs need is that   *)
(* the order does not matter.                                              *)
(*                                                                         *)
(* The sum is a recursive function on the subsets of the set.  Nothing is  *)
(* assumed of it: that such a function exists, and which values it has, is *)
(* shown by taking a smallest subset for which the claim might fail.       *)
(***************************************************************************)
EXTENDS Integers, FiniteSetsExt, FiniteSetTheorems, WellFoundedInduction, TLAPS

(* The sum of f over S. *)
Total(f, S) == MapThenSumSet(LAMBDA i : f[i], S)

Some(s) == CHOOSE x \in s : TRUE

(* g maps each subset of S to the sum of f over it. *)
IsSum(g, f, S) ==
    g = [s \in SUBSET S |-> IF s = {} THEN 0 ELSE f[Some(s)] + g[s \ {Some(s)}]]

(* A set of numbers that is not empty has a least. *)
LEMMA LeastNumber ==
    ASSUME NEW S \in SUBSET Nat, S # {}
    PROVE  \E n \in S : \A m \in S : n <= m
  <1> DEFINE R == {ss \in Nat \X Nat : ss[1] < ss[2]}
  <1>1. IsWellFoundedOn(R, Nat)
    BY NatLessThanWellFounded DEF OpToRel
  <1>2. \A x, y \in Nat : y < x => <<y, x>> \in R
    OBVIOUS
  <1> HIDE DEF R
  <1>3. PICK n \in S : \A m \in S : ~(<<m, n>> \in R)
    BY <1>1, WFMin
  <1>4. ASSUME NEW m \in S
        PROVE  n <= m
    <2>1. m \in Nat /\ n \in Nat
      OBVIOUS
    <2>2. m < n => <<m, n>> \in R
      BY <1>2, <2>1
    <2>3. ~(m < n)
      BY <1>3, <2>2
    <2> QED
      BY <2>1, <2>3
  <1> QED
    BY <1>4

(* Induction on finite sets: a set P of subsets of S that holds a subset   *)
(* whenever it holds the smaller ones holds every subset.                  *)
LEMMA Subsets ==
    ASSUME NEW S, IsFiniteSet(S), NEW P,
           \A s \in SUBSET S : (\A t \in SUBSET s : t # s => t \in P) => s \in P
    PROVE  \A s \in SUBSET S : s \in P
  <1> SUFFICES ASSUME NEW u \in SUBSET S, u \notin P
               PROVE  FALSE
    OBVIOUS
  <1> DEFINE Bad == {s \in SUBSET S : s \notin P}
             Sizes == {Cardinality(s) : s \in Bad}
  <1>1. \A s \in SUBSET S : IsFiniteSet(s) /\ Cardinality(s) \in Nat
    BY FS_Subset, FS_CardinalityType
  <1>2. Sizes \in SUBSET Nat /\ Sizes # {}
    BY <1>1
  <1>3. PICK n \in Sizes : \A m \in Sizes : n <= m
    BY <1>2, LeastNumber
  <1>4. PICK s \in Bad : n = Cardinality(s)
    OBVIOUS
  <1>5. \A t \in Bad : Cardinality(s) <= Cardinality(t)
    BY <1>3, <1>4
  <1>6. PICK t \in SUBSET s : t # s /\ t \notin P
    OBVIOUS
  <1>7. t \in Bad /\ Cardinality(t) <= Cardinality(s) /\ Cardinality(s) # Cardinality(t)
    BY <1>1, <1>6, FS_Subset
  <1>8. Cardinality(s) <= Cardinality(t)
    BY <1>5, <1>7
  <1> HIDE DEF Bad, Sizes
  <1>9. Cardinality(s) \in Nat /\ Cardinality(t) \in Nat
    BY <1>1, <1>4, <1>7 DEF Bad
  <1> QED
    BY <1>7, <1>8, <1>9

LEMMA SomeOf ==
    ASSUME NEW s, s # {}
    PROVE  Some(s) \in s
  BY DEF Some

(* One recursion, whichever sets it runs over. *)
LEMMA SumUnique ==
    ASSUME NEW S, IsFiniteSet(S), NEW T, NEW f, NEW g, NEW h,
           IsSum(g, f, S), IsSum(h, f, T)
    PROVE  \A s \in SUBSET (S \cap T) : g[s] = h[s]
  <1> DEFINE P == {s \in SUBSET (S \cap T) : g[s] = h[s]}
  <1>1. IsFiniteSet(S \cap T)
    BY FS_Subset
  <1>2. ASSUME NEW s \in SUBSET (S \cap T), \A t \in SUBSET s : t # s => t \in P
        PROVE  s \in P
    <2>1. /\ g[s] = IF s = {} THEN 0 ELSE f[Some(s)] + g[s \ {Some(s)}]
          /\ h[s] = IF s = {} THEN 0 ELSE f[Some(s)] + h[s \ {Some(s)}]
      BY DEF IsSum
    <2>2. CASE s = {}
      BY <2>1, <2>2
    <2>3. CASE s # {}
      <3>1. s \ {Some(s)} \in P
        BY <1>2, <2>3, SomeOf
      <3> QED
        BY <2>1, <2>3, <3>1
    <2> QED
      BY <2>2, <2>3
  <1> HIDE DEF P
  <1>3. \A s \in SUBSET (S \cap T) : s \in P
    BY <1>1, <1>2, Subsets
  <1> QED
    BY <1>3 DEF P

LEMMA SumExists ==
    ASSUME NEW S, IsFiniteSet(S), NEW f
    PROVE  \E g : IsSum(g, f, S)
  <1> DEFINE P == {s \in SUBSET S : \E g : IsSum(g, f, s)}
             G(s) == CHOOSE g : IsSum(g, f, s)
  <1>1. ASSUME NEW s \in SUBSET S, \A t \in SUBSET s : t # s => t \in P
        PROVE  s \in P
    <2> DEFINE v == IF s = {} THEN 0 ELSE f[Some(s)] + G(s \ {Some(s)})[s \ {Some(s)}]
               g == [t \in SUBSET s |-> IF t = s THEN v ELSE G(t)[t]]
    <2>1. \A t \in SUBSET s : t # s => IsSum(G(t), f, t) /\ IsFiniteSet(t)
      BY <1>1, FS_Subset
    <2>2. ASSUME NEW t \in SUBSET s
          PROVE  g[t] = IF t = {} THEN 0 ELSE f[Some(t)] + g[t \ {Some(t)}]
      <3>1. CASE t = {} /\ t = s
        BY <3>1
      <3>2. CASE t = {} /\ t # s
        <4>1. IsSum(G(t), f, t)
          BY <2>1, <3>2
        <4>2. G(t)[t] = 0
          BY <3>2, <4>1 DEF IsSum
        <4> QED
          BY <3>2, <4>2
      <3>3. CASE t # {}
        <4> DEFINE u == t \ {Some(t)}
        <4>1. u \in SUBSET t /\ u \in SUBSET s /\ u # t /\ u # s
          BY <3>3, SomeOf
        <4>2. g[u] = G(u)[u]
          BY <4>1
        <4>3. CASE t = s
          BY <3>3, <4>2, <4>3
        <4>4. CASE t # s
          <5>1. IsSum(G(t), f, t) /\ IsFiniteSet(t) /\ IsSum(G(u), f, u)
            BY <2>1, <4>1, <4>4
          <5>2. G(t)[t] = f[Some(t)] + G(t)[u]
            BY <3>3, <5>1 DEF IsSum
          <5> HIDE DEF G, u
          <5>3. G(t)[u] = G(u)[u]
            BY <4>1, <5>1, SumUnique
          <5>4. g[t] = G(t)[t]
            BY <4>4
          <5> QED
            BY <3>3, <4>2, <5>2, <5>3, <5>4 DEF u
        <4> QED
          BY <4>3, <4>4
      <3> QED
        BY <3>1, <3>2, <3>3
    <2>3. IsSum(g, f, s)
      <3>1. g = [t \in SUBSET s |-> g[t]]
        OBVIOUS
      <3> HIDE DEF g
      <3>2. [t \in SUBSET s |-> g[t]]
              = [t \in SUBSET s |-> IF t = {} THEN 0 ELSE f[Some(t)] + g[t \ {Some(t)}]]
        BY <2>2
      <3> QED
        BY <3>1, <3>2 DEF IsSum
    <2> QED
      BY <2>3
  <1> HIDE DEF P
  <1>2. \A s \in SUBSET S : s \in P
    BY <1>1, Subsets
  <1> QED
    BY <1>2 DEF P

(* A sum is one element more than the sum without that element: first for  *)
(* the element the recursion takes, then for any.                          *)
LEMMA TotalSome ==
    ASSUME NEW S, IsFiniteSet(S), NEW f
    PROVE  Total(f, S) = IF S = {} THEN 0 ELSE f[Some(S)] + Total(f, S \ {Some(S)})
  <1> DEFINE G(s) == CHOOSE g : IsSum(g, f, s)
  <1>1. \A s : Total(f, s) = G(s)[s]
    BY DEF Total, MapThenSumSet, MapThenFoldSet, IsSum, Some
  <1> DEFINE u == S \ {Some(S)}
  <1>2. IsFiniteSet(u) /\ u \in SUBSET S
    BY FS_Subset
  <1>3. IsSum(G(S), f, S) /\ IsSum(G(u), f, u)
    BY <1>2, SumExists
  <1> HIDE DEF G
  <1>4. G(S)[S] = IF S = {} THEN 0 ELSE f[Some(S)] + G(S)[u]
    BY <1>3 DEF IsSum
  <1>5. G(S)[u] = G(u)[u]
    BY <1>2, <1>3, SumUnique
  <1> QED
    BY <1>1, <1>4, <1>5

LEMMA TotalEmpty == \A f : Total(f, {}) = 0
  BY TotalSome, FS_EmptySet

LEMMA TotalInt ==
    ASSUME NEW S, IsFiniteSet(S), NEW f, \A x \in S : f[x] \in Int
    PROVE  Total(f, S) \in Int
  <1> DEFINE P == {s \in SUBSET S : Total(f, s) \in Int}
  <1>1. ASSUME NEW s \in SUBSET S, \A t \in SUBSET s : t # s => t \in P
        PROVE  s \in P
    <2>1. IsFiniteSet(s)
      BY FS_Subset
    <2>2. Total(f, s) = IF s = {} THEN 0 ELSE f[Some(s)] + Total(f, s \ {Some(s)})
      BY <2>1, TotalSome
    <2>3. CASE s = {}
      BY <2>2, <2>3
    <2>4. CASE s # {}
      <3>1. Some(s) \in S /\ s \ {Some(s)} \in P
        BY <1>1, <2>4, SomeOf
      <3> QED
        BY <2>2, <2>4, <3>1
    <2> QED
      BY <2>3, <2>4
  <1> HIDE DEF P
  <1>2. \A s \in SUBSET S : s \in P
    BY <1>1, Subsets
  <1> QED
    BY <1>2 DEF P

LEMMA TotalWithout ==
    ASSUME NEW S, IsFiniteSet(S), NEW f, \A x \in S : f[x] \in Int, NEW e \in S
    PROVE  Total(f, S) = f[e] + Total(f, S \ {e})
  <1> DEFINE P == {s \in SUBSET S : \A x \in s : Total(f, s) = f[x] + Total(f, s \ {x})}
  <1>1. ASSUME NEW s \in SUBSET S, \A t \in SUBSET s : t # s => t \in P
        PROVE  s \in P
    <2> SUFFICES ASSUME NEW x \in s
                 PROVE  Total(f, s) = f[x] + Total(f, s \ {x})
      OBVIOUS
    <2> DEFINE y == Some(s)
    <2>1. y \in s
      BY SomeOf
    <2>2. \A t \in SUBSET s : IsFiniteSet(t) /\ Total(f, t) \in Int
      BY FS_Subset, TotalInt
    <2>3. Total(f, s) = f[y] + Total(f, s \ {y})
      BY <2>1, <2>2, TotalSome
    <2> HIDE DEF y
    <2>4. CASE x = y
      BY <2>3, <2>4
    <2>5. CASE x # y
      <3> DEFINE b == s \ {x, y}
      <3>1. s \ {y} \in P /\ x \in s \ {y} /\ s \ {x} \in P /\ y \in s \ {x}
        BY <1>1, <2>1, <2>5
      <3>2. (s \ {y}) \ {x} = b /\ (s \ {x}) \ {y} = b
        OBVIOUS
      <3> HIDE DEF b
      <3>3. Total(f, s \ {y}) = f[x] + Total(f, b)
        BY <3>1, <3>2
      <3>4. Total(f, s \ {x}) = f[y] + Total(f, b)
        BY <3>1, <3>2
      <3>5. f[x] \in Int /\ f[y] \in Int /\ Total(f, b) \in Int
        BY <2>1, <2>2 DEF b
      <3> QED
        BY <2>3, <3>3, <3>4, <3>5
    <2> QED
      BY <2>4, <2>5
  <1> HIDE DEF P
  <1>2. \A s \in SUBSET S : s \in P
    BY <1>1, Subsets
  <1> QED
    BY <1>2 DEF P

(* One element more. *)
LEMMA TotalWith ==
    ASSUME NEW S, IsFiniteSet(S), NEW e, e \notin S, NEW f, \A x \in S \cup {e} : f[x] \in Int
    PROVE  /\ Total(f, S \cup {e}) = f[e] + Total(f, S)
           /\ Total(f, S) \in Int
  <1>1. IsFiniteSet(S \cup {e})
    BY FS_AddElement
  <1>2. (S \cup {e}) \ {e} = S
    OBVIOUS
  <1> QED
    BY <1>1, <1>2, TotalWithout, TotalInt

(* Only the values on the set count. *)
LEMMA TotalSame ==
    ASSUME NEW S, NEW f, NEW h, \A x \in S : f[x] = h[x]
    PROVE  Total(f, S) = Total(h, S)
  <1>1. ASSUME NEW g
        PROVE  IsSum(g, f, S) <=> IsSum(g, h, S)
    <2>1. ASSUME NEW s \in SUBSET S, s # {}
          PROVE  f[Some(s)] = h[Some(s)]
      BY <2>1, SomeOf
    <2> QED
      BY <2>1 DEF IsSum
  <1>2. (CHOOSE g : IsSum(g, f, S)) = (CHOOSE g : IsSum(g, h, S))
    BY <1>1
  <1>3. \A k : Total(k, S) = (CHOOSE g : IsSum(g, k, S))[S]
    BY DEF Total, MapThenSumSet, MapThenFoldSet, IsSum, Some
  <1> QED
    BY <1>2, <1>3

(* What element e adds to the sum of f over S. *)
Share(f, S, e) == IF e \in S THEN f[e] ELSE 0

(* Two sums that differ in one element differ by what it adds.             *)
LEMMA TotalApart ==
    ASSUME NEW S, IsFiniteSet(S), NEW f, \A x \in S : f[x] \in Int, NEW e
    PROVE  /\ Total(f, S) = Share(f, S, e) + Total(f, S \ {e})
           /\ Share(f, S, e) \in Int /\ Total(f, S \ {e}) \in Int
  <1>1. IsFiniteSet(S \ {e})
    BY FS_Subset
  <1>2. Total(f, S \ {e}) \in Int
    BY <1>1, TotalInt
  <1>3. CASE e \in S
    BY <1>2, <1>3, TotalWithout DEF Share
  <1>4. CASE e \notin S
    <2>1. S \ {e} = S
      BY <1>4
    <2>2. Share(f, S, e) = 0
      BY <1>4 DEF Share
    <2>3. PICK n \in Int : n = Total(f, S \ {e})
      BY <1>2
    <2>4. Total(f, S) = n
      BY <2>1, <2>3
    <2> QED
      BY <2>2, <2>3, <2>4
  <1> QED
    BY <1>3, <1>4

LEMMA TotalChange ==
    ASSUME NEW S, IsFiniteSet(S), NEW f, \A x \in S : f[x] \in Int,
           NEW T, IsFiniteSet(T), NEW h, \A x \in T : h[x] \in Int,
           NEW e, S \ {e} = T \ {e}, \A x \in S \ {e} : f[x] = h[x]
    PROVE  /\ Total(h, T) = Total(f, S) - Share(f, S, e) + Share(h, T, e)
           /\ Total(f, S) \in Int /\ Share(f, S, e) \in Int /\ Share(h, T, e) \in Int
  <1>1. Total(f, S \ {e}) = Total(h, T \ {e})
    BY TotalSame
  <1>2. /\ Total(f, S) = Share(f, S, e) + Total(f, S \ {e})
        /\ Share(f, S, e) \in Int /\ Total(f, S \ {e}) \in Int
    BY TotalApart
  <1>3. /\ Total(h, T) = Share(h, T, e) + Total(h, T \ {e})
        /\ Share(h, T, e) \in Int
    BY TotalApart
  <1> QED
    BY <1>1, <1>2, <1>3
=============================================================================
