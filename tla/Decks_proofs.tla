---- MODULE Decks_proofs ----
(***************************************************************************)
(* No two decks have the same name, whatever is renamed, moved, imported,  *)
(* merged by a sync or repaired: UniqueNames.  Until a sync merges another *)
(* collection into it, a tree keeps every parent its decks need            *)
(* (TreeWhole), and cards come home from filtered decks as they left, or   *)
(* go with their home deck (HomeAgain, LostWithTheirHome).  A database     *)
(* check leaves what it promises (RepairsHold).                            *)
(*                                                                         *)
(* update_single_deck_undoable looks whether the name is taken, and the    *)
(* other operations append to it until it is free.  So the collections     *)
(* that operations lead to are Sound: their rows are of their types and    *)
(* no two decks have one name.  What an operation does deck by deck is a   *)
(* fold over the decks in an order of their names, which is shown to be    *)
(* total; each step of it leaves a sound collection.                       *)
(***************************************************************************)
EXTENDS Decks, FiniteSetTheorems, WellFoundedInduction, TLAPS

---------------------------------------------------------------------------
(* Folds *)

\* One equation of a fold, for a choice of elements and a step that are functions.
FoldStep(h, b, pick, G, s) ==
  IF s = {} THEN b ELSE G[<<h[s \ {pick[s]}], pick[s]>>]
FoldSolution(h, b, pick, G, S) == h = [s \in SUBSET S |-> FoldStep(h, b, pick, G, s)]
Picks(pick, S) == \A s \in SUBSET S : s # {} => pick[s] \in s

\* A set of natural numbers that is not empty has a least one.
LEMMA LeastNatural ==
  ASSUME NEW bad \in SUBSET Nat, bad # {}
  PROVE  \E n \in bad : \A m \in bad : n <= m
<1> DEFINE R == {ss \in Nat \X Nat : ss[1] < ss[2]}
<1>1. IsWellFoundedOn(R, Nat)
  BY NatLessThanWellFounded DEF OpToRel
<1>2. PICK n \in bad : \A m \in bad : ~(<<m, n>> \in R)
  <2> HIDE DEF R
  <2> QED BY <1>1, WFMin
<1>3. \A m \in bad : ~(m < n)
  BY <1>2
<1> QED BY <1>3

\* The equations have a solution.
LEMMA FoldExists ==
  ASSUME NEW S, IsFiniteSet(S), NEW b, NEW pick, Picks(pick, S), NEW G
  PROVE  \E h : FoldSolution(h, b, pick, G, S)
<1> DEFINE Small(n) == {s \in SUBSET S : Cardinality(s) <= n}
           Solves(h, n) == h = [s \in Small(n) |-> FoldStep(h, b, pick, G, s)]
           Bad == {n \in Nat : \A h : ~Solves(h, n)}
<1>1. ASSUME NEW s \in SUBSET S PROVE Cardinality(s) \in Nat
  BY FS_Subset, FS_CardinalityType
<1>2. ASSUME NEW s \in SUBSET S, s # {}
      PROVE  s \ {pick[s]} \in SUBSET S /\ Cardinality(s \ {pick[s]}) = Cardinality(s) - 1
  <2>1. pick[s] \in s
    BY <1>2 DEF Picks
  <2>2. IsFiniteSet(s)
    BY FS_Subset
  <2> QED BY <2>1, <2>2, FS_RemoveElement
<1>3. 0 \notin Bad
  <2> DEFINE h == [s \in Small(0) |-> b]
  <2>1. \A s \in Small(0) : s = {}
    <3>1. ASSUME NEW s \in Small(0) PROVE s = {}
      <4>1. Cardinality(s) = 0 /\ IsFiniteSet(s)
        BY <1>1, FS_Subset
      <4> QED BY <4>1, FS_EmptySet
    <3> QED BY <3>1
  <2>2. \A s \in Small(0) : FoldStep(h, b, pick, G, s) = b
    BY <2>1 DEF FoldStep
  <2>3. h = [s \in Small(0) |-> FoldStep(h, b, pick, G, s)]
    BY <2>2
  <2> QED BY <2>3
<1>4. ASSUME NEW n \in Nat, NEW h, Solves(h, n)
      PROVE  \E g : Solves(g, n + 1)
  <2> DEFINE g == [s \in Small(n + 1) |-> FoldStep(h, b, pick, G, s)]
  <2>1. ASSUME NEW s \in Small(n) PROVE s \in Small(n + 1) /\ g[s] = h[s]
    <3>1. s \in Small(n + 1)
      BY <1>1
    <3>2. h[s] = FoldStep(h, b, pick, G, s)
      BY <1>4
    <3> HIDE DEF Small
    <3> QED BY <3>1, <3>2
  <2>2. ASSUME NEW s \in Small(n + 1)
        PROVE  FoldStep(h, b, pick, G, s) = FoldStep(g, b, pick, G, s)
    <3>1. CASE s = {}
      BY <3>1 DEF FoldStep
    <3>2. CASE s # {}
      <4>1. s \ {pick[s]} \in Small(n)
        BY <1>1, <1>2, <3>2
      <4>2. g[s \ {pick[s]}] = h[s \ {pick[s]}]
        BY <2>1, <4>1
      <4> QED BY <3>2, <4>2 DEF FoldStep
    <3> QED BY <3>1, <3>2
  <2>3. g = [s \in Small(n + 1) |-> FoldStep(g, b, pick, G, s)]
    <3>1. \A s \in Small(n + 1) : FoldStep(h, b, pick, G, s) = FoldStep(g, b, pick, G, s)
      BY <2>2
    <3> HIDE DEF Small
    <3> QED BY <3>1
  <2> QED BY <2>3
<1>5. Bad = {}
  <2>1. ASSUME Bad # {} PROVE FALSE
    <3>1. PICK n \in Bad : \A m \in Bad : n <= m
      <4>1. Bad \in SUBSET Nat
        OBVIOUS
      <4> HIDE DEF Bad
      <4> QED BY <2>1, <4>1, LeastNatural
    <3>2. n \in Nat /\ n # 0
      <4>1. n \in Nat
        OBVIOUS
      <4> HIDE DEF Bad
      <4> QED BY <1>3, <3>1, <4>1
    <3>3. n - 1 \in Nat /\ n - 1 \notin Bad
      <4> HIDE DEF Bad
      <4> QED BY <3>1, <3>2
    <3>4. PICK h : Solves(h, n - 1)
      BY <3>3
    <3>5. (n - 1) + 1 = n
      BY <3>2
    <3>6. \E g : Solves(g, (n - 1) + 1)
      <4> HIDE DEF Solves
      <4> QED BY <1>4, <3>3, <3>4
    <3>7. \E g : Solves(g, n)
      <4> HIDE DEF Solves
      <4> QED BY <3>5, <3>6
    <3>8. \A g : ~Solves(g, n)
      OBVIOUS
    <3> HIDE DEF Solves
    <3> QED BY <3>7, <3>8
  <2> QED BY <2>1
<1>6. Small(Cardinality(S)) = SUBSET S
  <2>1. \A s \in SUBSET S : Cardinality(s) <= Cardinality(S)
    BY FS_Subset
  <2> QED BY <2>1
<1>7. \E h : Solves(h, Cardinality(S))
  <2>1. Cardinality(S) \in Nat
    BY FS_CardinalityType
  <2> HIDE DEF Solves, Small
  <2> QED BY <1>5, <2>1
<1> HIDE DEF Small
<1> QED BY <1>6, <1>7 DEF FoldSolution

\* What holds at first and is kept by every step holds in the end.
LEMMA FoldKeeps ==
  ASSUME NEW S, IsFiniteSet(S), NEW pick, Picks(pick, S), NEW X, NEW f, f[{}] \in X,
         \A s \in SUBSET S : (s # {} /\ f[s \ {pick[s]}] \in X) => f[s] \in X
  PROVE  f[S] \in X
<1> DEFINE bad == {s \in SUBSET S : f[s] \notin X}
           R == StrictSubsetOrdering(S)
<1>1. ASSUME bad # {} PROVE FALSE
  <2>1. IsWellFoundedOn(R, SUBSET S)
    BY FS_StrictSubsetOrderingWellFounded, FS_FiniteSubsetsOfFinite
  <2>2. PICK s \in bad : \A y \in bad : ~(<<y, s>> \in R)
    <3>1. bad \subseteq SUBSET S
      OBVIOUS
    <3> HIDE DEF R, bad
    <3> QED BY <1>1, <2>1, <3>1, WFMin
  <2>3. s # {} /\ s \in SUBSET S /\ f[s] \notin X
    OBVIOUS
  <2>4. pick[s] \in s
    BY <2>3 DEF Picks
  <2>5. <<s \ {pick[s]}, s>> \in R
    BY <2>3, <2>4 DEF StrictSubsetOrdering
  <2>6. s \ {pick[s]} \notin bad
    <3> HIDE DEF R, bad
    <3> QED BY <2>2, <2>5
  <2>7. f[s \ {pick[s]}] \in X
    BY <2>3, <2>6
  <2> QED BY <2>3, <2>7
<1>2. S \notin bad
  BY <1>1
<1> QED BY <1>2

---------------------------------------------------------------------------
(* Orders *)

\* The greatest and the least of some natural numbers.
LEMMA LeastAndGreatest ==
  ASSUME NEW N \in SUBSET Nat, N # {}
  PROVE  /\ Min(N) \in N /\ \A n \in N : Min(N) <= n
         /\ IsFiniteSet(N) => Max(N) \in N /\ \A n \in N : n <= Max(N)
<1>1. \E x \in N : \A y \in N : x <= y
  BY LeastNatural
<1>2. ASSUME IsFiniteSet(N) PROVE \E x \in N : \A y \in N : x >= y
  <2> DEFINE above(x) == {y \in N : y > x}
             sizes == {Cardinality(above(x)) : x \in N}
  <2>1. ASSUME NEW x \in N PROVE IsFiniteSet(above(x)) /\ Cardinality(above(x)) \in Nat
    BY <1>2, FS_Subset, FS_CardinalityType
  <2>2. PICK n \in sizes : \A m \in sizes : n <= m
    <3>1. sizes \in SUBSET Nat /\ sizes # {}
      BY <2>1
    <3> HIDE DEF sizes
    <3> QED BY <3>1, LeastNatural
  <2>3. PICK x \in N : n = Cardinality(above(x))
    BY <2>2
  <2>4. ASSUME NEW y \in N, ~(x >= y) PROVE FALSE
    <3>1. above(y) \in SUBSET above(x) /\ y \in above(x) /\ y \notin above(y)
      <4>1. x \in Nat /\ y \in Nat /\ y > x
        BY <2>4
      <4>2. ASSUME NEW z \in above(y) PROVE z \in above(x)
        <5>1. z \in Nat
          OBVIOUS
        <5> QED BY <4>1, <5>1
      <4>3. y \in above(x)
        BY <4>1
      <4>4. y \notin above(y)
        BY <4>1
      <4> HIDE DEF above
      <4> QED BY <4>2, <4>3, <4>4
    <3>2. Cardinality(above(y)) <= Cardinality(above(x))
          /\ (Cardinality(above(x)) = Cardinality(above(y)) => above(x) = above(y))
      <4>1. IsFiniteSet(above(x))
        BY <2>1
      <4> HIDE DEF above
      <4> QED BY <3>1, <4>1, FS_Subset
    <3>3. Cardinality(above(y)) \in sizes
      OBVIOUS
    <3>4. Cardinality(above(x)) <= Cardinality(above(y))
      BY <2>2, <2>3, <3>3
    <3>5. Cardinality(above(x)) \in Nat /\ Cardinality(above(y)) \in Nat
      BY <2>1
    <3>6. above(x) = above(y)
      <4> HIDE DEF above, sizes
      <4> QED BY <3>2, <3>4, <3>5
    <3> QED BY <3>1, <3>6
  <2> QED BY <2>4
<1>3. /\ Min(N) \in N /\ \A n \in N : Min(N) <= n
  BY <1>1 DEF Min
<1>4. ASSUME IsFiniteSet(N) PROVE Max(N) \in N /\ \A n \in N : n <= Max(N)
  <2>1. Max(N) \in N /\ \A n \in N : Max(N) >= n
    BY <1>2, <1>4 DEF Max
  <2> QED BY <2>1
<1> QED BY <1>3, <1>4

\* A relation that puts the elements of a set in one order.
TotalOrder(R, S) ==
  /\ \A s \in S : <<s, s>> \notin R
  /\ \A s, t \in S : s # t => <<s, t>> \in R \/ <<t, s>> \in R
  /\ \A s, t, u \in S : <<s, t>> \in R /\ <<t, u>> \in R => <<s, u>> \in R

\* In a finite set that is ordered, different elements have different numbers of
\* elements before them.
LEMMA PlacesDiffer ==
  ASSUME NEW S, IsFiniteSet(S), NEW R, TotalOrder(R, S)
  PROVE  /\ \A s \in S : Cardinality({r \in S : <<r, s>> \in R}) \in 0..(Cardinality(S) - 1)
         /\ \A s, t \in S : s # t => Cardinality({r \in S : <<r, s>> \in R})
                                      # Cardinality({r \in S : <<r, t>> \in R})
<1> DEFINE before(s) == {r \in S : <<r, s>> \in R}
           n == Cardinality(S)
<1>1. n \in Nat
  BY FS_CardinalityType
<1>2. ASSUME NEW s \in S
      PROVE  IsFiniteSet(before(s)) /\ Cardinality(before(s)) \in 0..(n - 1)
  <2>1. before(s) \in SUBSET S /\ s \notin before(s)
    BY DEF TotalOrder
  <2> HIDE DEF before
  <2>2. /\ IsFiniteSet(before(s)) /\ Cardinality(before(s)) <= n
        /\ (n = Cardinality(before(s)) => S = before(s))
    BY <2>1, FS_Subset
  <2>3. Cardinality(before(s)) \in Nat
    BY <2>2, FS_CardinalityType
  <2> QED BY <1>1, <2>1, <2>2, <2>3
<1>3. ASSUME NEW s \in S, NEW t \in S, <<s, t>> \in R
      PROVE  Cardinality(before(s)) # Cardinality(before(t))
  <2>1. before(s) \in SUBSET before(t) /\ s \in before(t) /\ s \notin before(s)
    BY <1>3 DEF TotalOrder
  <2>2. IsFiniteSet(before(t))
    BY <1>2
  <2> HIDE DEF before
  <2> QED BY <2>1, <2>2, FS_Subset
<1>4. ASSUME NEW s \in S, NEW t \in S, s # t
      PROVE  Cardinality(before(s)) # Cardinality(before(t))
  <2>1. <<s, t>> \in R \/ <<t, s>> \in R
    BY <1>4 DEF TotalOrder
  <2> HIDE DEF before
  <2> QED BY <1>3, <2>1
<1>5. \A s \in S : Cardinality(before(s)) \in 0..(n - 1)
  BY <1>2
<1>6. \A s, t \in S : s # t => Cardinality(before(s)) # Cardinality(before(t))
  BY <1>4
<1> QED BY <1>5, <1>6, Zenon

\* So some element has each number of elements before it.
LEMMA EachPlaceTaken ==
  ASSUME NEW S, IsFiniteSet(S), NEW R, TotalOrder(R, S), NEW i \in 1..Cardinality(S)
  PROVE  \E s \in S : Cardinality({r \in S : <<r, s>> \in R}) = i - 1
<1> DEFINE before(s) == {r \in S : <<r, s>> \in R}
           n == Cardinality(S)
           places == (0..(n - 1)) \ {i - 1}
           place == [s \in S |-> Cardinality(before(s))]
<1>1. n \in Nat /\ i - 1 \in 0..(n - 1)
  BY FS_CardinalityType
<1>2. ASSUME NEW s \in S PROVE Cardinality(before(s)) \in 0..(n - 1)
  BY PlacesDiffer, Zenon
<1>4. ASSUME \A s \in S : Cardinality(before(s)) # i - 1 PROVE FALSE
  <2>1. place \in [S -> places]
    BY <1>2, <1>4
  <2>2. IsFiniteSet(places) /\ Cardinality(places) = n - 1
    <3> HIDE DEF n
    <3>1. IsFiniteSet(0..(n - 1)) /\ Cardinality(0..(n - 1)) = n
      BY <1>1, FS_Interval
    <3> DEFINE all == 0..(n - 1)
    <3>2. i - 1 \in all /\ IsFiniteSet(all) /\ Cardinality(all) = n
      BY <1>1, <3>1
    <3>3. places = all \ {i - 1}
      OBVIOUS
    <3> HIDE DEF all, places
    <3>4. IsFiniteSet(places) /\ Cardinality(places) = Cardinality(all) - 1
      BY <3>2, <3>3, FS_RemoveElement
    <3> QED BY <3>2, <3>4
  <2>3. PICK s, t \in S : s # t /\ place[s] = place[t]
    <3>1. Cardinality(places) < Cardinality(S)
      BY <1>1, <2>2
    <3> HIDE DEF place, places, n
    <3> QED BY <2>1, <2>2, <3>1, FS_PigeonHole
  <2>4. Cardinality(before(s)) = Cardinality(before(t))
    BY <2>3
  <2>5. \A u, v \in S : u # v => Cardinality(before(u)) # Cardinality(before(v))
    BY PlacesDiffer, Zenon
  <2> HIDE DEF before
  <2> QED BY <2>3, <2>4, <2>5
<1> QED BY <1>4

---------------------------------------------------------------------------
(* Folds over sequences *)

\* The last place of each set of places.
LEMMA LastPlace ==
  ASSUME NEW n \in Nat, NEW s \in SUBSET (1..n), s # {}
  PROVE  Max(s) \in s /\ IsFiniteSet(s)
<1>1. IsFiniteSet(s) /\ s \in SUBSET Nat
  <2>1. IsFiniteSet(1..n)
    BY FS_Interval
  <2>2. IsFiniteSet(s)
    BY <2>1, FS_Subset
  <2>3. s \in SUBSET Nat
    OBVIOUS
  <2> QED BY <2>2, <2>3
<1> QED BY <1>1, LeastAndGreatest

LeftSolution(h, b, G, seq, n) ==
  h = [s \in SUBSET (1..n) |-> IF s = {} THEN b ELSE G[<<h[s \ {Max(s)}], seq[Max(s)]>>]]

\* The equations of a fold from the left have a solution that stays in X.
LEMMA LeftFoldExists ==
  ASSUME NEW n \in Nat, NEW T, NEW seq \in [1..n -> T], NEW X, NEW b \in X,
         NEW G \in [X \X T -> X]
  PROVE  \E h : /\ LeftSolution(h, b, G, seq, n)
                /\ \A s \in SUBSET (1..n) : h[s] \in X
<1> DEFINE S == 1..n
           pick == [s \in SUBSET S |-> Max(s)]
           H == [p \in X \X S |-> G[<<p[1], seq[p[2]]>>]]
<1>1. IsFiniteSet(S)
  BY FS_Interval
<1>2. Picks(pick, S)
  BY LastPlace DEF Picks
<1>3. PICK h : h = [s \in SUBSET S |-> FoldStep(h, b, pick, H, s)]
  <2>1. \E h : FoldSolution(h, b, pick, H, S)
    <3> HIDE DEF S, pick, H
    <3> QED BY <1>1, <1>2, FoldExists
  <2> HIDE DEF S, pick, H
  <2> QED BY <2>1 DEF FoldSolution
<1>4. ASSUME NEW s \in SUBSET S, s # {}
      PROVE  /\ Max(s) \in S /\ pick[s] = Max(s) /\ h[s] = H[<<h[s \ {Max(s)}], Max(s)>>]
  <2>1. Max(s) \in S /\ pick[s] = Max(s)
    BY <1>4, LastPlace
  <2>2. h[s] = FoldStep(h, b, pick, H, s)
    BY <1>3
  <2> QED BY <1>4, <2>1, <2>2 DEF FoldStep
<1>5. h[{}] = b
  <2>1. {} \in SUBSET S
    OBVIOUS
  <2> HIDE DEF S, pick, H
  <2> QED BY <1>3, <2>1 DEF FoldStep
<1>6. ASSUME NEW s \in SUBSET S, s # {}, h[s \ {Max(s)}] \in X
      PROVE  /\ h[s] = G[<<h[s \ {Max(s)}], seq[Max(s)]>>] /\ h[s] \in X
  <2>1. h[s] = G[<<h[s \ {Max(s)}], seq[Max(s)]>>]
    BY <1>4, <1>6
  <2>2. seq[Max(s)] \in T
    BY <1>4, <1>6
  <2> QED BY <1>6, <2>1, <2>2
<1>7. ASSUME NEW u \in SUBSET S PROVE h[u] \in X
  <2>1. IsFiniteSet(u)
    BY <1>1, FS_Subset
  <2>2. Picks(pick, u)
    BY <1>2 DEF Picks
  <2>3. \A s \in SUBSET u : (s # {} /\ h[s \ {pick[s]}] \in X) => h[s] \in X
    <3>1. ASSUME NEW s \in SUBSET u, s # {}, h[s \ {pick[s]}] \in X PROVE h[s] \in X
      <4>1. s \in SUBSET S
        OBVIOUS
      <4> HIDE DEF S, pick
      <4> QED BY <1>4, <1>6, <3>1, <4>1
    <3> QED BY <3>1
  <2> HIDE DEF pick
  <2> QED BY <1>5, <2>1, <2>2, <2>3, FoldKeeps
<1>8. h = [s \in SUBSET S |-> IF s = {} THEN b ELSE G[<<h[s \ {Max(s)}], seq[Max(s)]>>]]
  <2>1. h = [s \in SUBSET S |-> h[s]]
    BY <1>3
  <2>2. ASSUME NEW s \in SUBSET S
        PROVE  h[s] = IF s = {} THEN b ELSE G[<<h[s \ {Max(s)}], seq[Max(s)]>>]
    <3>1. CASE s = {}
      BY <1>5, <3>1
    <3>2. CASE s # {}
      <4>1. s \ {Max(s)} \in SUBSET S
        OBVIOUS
      <4>2. h[s \ {Max(s)}] \in X
        BY <1>7, <4>1
      <4> QED BY <1>6, <3>2, <4>2
    <3> QED BY <3>1, <3>2
  <2> HIDE DEF S
  <2> QED BY <2>1, <2>2
<1> QED BY <1>7, <1>8 DEF LeftSolution

\* What each step of a fold from the left keeps holds of its result.
LEMMA LeftFoldKeeps ==
  ASSUME NEW n \in Nat, NEW X, NEW f, f[{}] \in X,
         \A s \in SUBSET (1..n) : (s # {} /\ f[s \ {Max(s)}] \in X) => f[s] \in X
  PROVE  f[1..n] \in X
<1> DEFINE S == 1..n
           pick == [s \in SUBSET S |-> Max(s)]
<1>1. IsFiniteSet(S)
  BY FS_Interval
<1>4. Picks(pick, S)
  BY LastPlace DEF Picks
<1>2. \A s \in SUBSET S : (s # {} /\ f[s \ {pick[s]}] \in X) => f[s] \in X
  OBVIOUS
<1>3. f[S] \in X
  <2> HIDE DEF S, pick
  <2> QED BY <1>1, <1>4, <1>2, FoldKeeps
<1> QED BY <1>3

\* The same of a statement about the places passed so far.
LEMMA LeftFoldGoes ==
  ASSUME NEW n \in Nat, NEW f, NEW Y, <<f[{}], {}>> \in Y,
         \A s \in SUBSET (1..n) :
           (s # {} /\ <<f[s \ {Max(s)}], s \ {Max(s)}>> \in Y) => <<f[s], s>> \in Y
  PROVE  <<f[1..n], 1..n>> \in Y
<1> DEFINE g == [s \in SUBSET (1..n) |-> <<f[s], s>>]
<1>1. g[{}] \in Y
  OBVIOUS
<1>2. ASSUME NEW s \in SUBSET (1..n), s # {}, g[s \ {Max(s)}] \in Y PROVE g[s] \in Y
  <2>1. s \ {Max(s)} \in SUBSET (1..n)
    OBVIOUS
  <2> QED BY <1>2, <2>1
<1>3. g[1..n] = <<f[1..n], 1..n>>
  OBVIOUS
<1> HIDE DEF g
<1>4. \A s \in SUBSET (1..n) : (s # {} /\ g[s \ {Max(s)}] \in Y) => g[s] \in Y
  BY <1>2
<1>5. g[1..n] \in Y
  BY <1>1, <1>4, LeftFoldKeeps
<1> QED BY <1>3, <1>5

\* The same for folds over sets.
SetSolution(h, b, G, S) ==
  h = [s \in SUBSET S |-> IF s = {} THEN b
                          ELSE G[<<h[s \ {CHOOSE x \in s : TRUE}], CHOOSE x \in s : TRUE>>]]

LEMMA SetFoldExists ==
  ASSUME NEW S, IsFiniteSet(S), NEW X, NEW b \in X, NEW G \in [X \X S -> X]
  PROVE  \E h : SetSolution(h, b, G, S) /\ \A s \in SUBSET S : h[s] \in X
<1> DEFINE pick == [s \in SUBSET S |-> CHOOSE x \in s : TRUE]
<1>2. Picks(pick, S)
  <2>1. ASSUME NEW s \in SUBSET S, s # {} PROVE (CHOOSE x \in s : TRUE) \in s
    BY <2>1
  <2> QED BY <2>1 DEF Picks
<1>3. PICK h : h = [s \in SUBSET S |-> FoldStep(h, b, pick, G, s)]
  <2>1. \E h : FoldSolution(h, b, pick, G, S)
    <3> HIDE DEF pick
    <3> QED BY <1>2, FoldExists
  <2> HIDE DEF pick
  <2> QED BY <2>1 DEF FoldSolution
<1>4. ASSUME NEW s \in SUBSET S, s # {}
      PROVE  pick[s] \in s /\ h[s] = G[<<h[s \ {pick[s]}], pick[s]>>]
  <2>1. h[s] = FoldStep(h, b, pick, G, s)
    BY <1>3
  <2> QED BY <1>2, <1>4, <2>1 DEF FoldStep, Picks
<1>5. h[{}] = b
  <2>1. {} \in SUBSET S
    OBVIOUS
  <2> HIDE DEF pick
  <2> QED BY <1>3, <2>1 DEF FoldStep
<1>7. ASSUME NEW u \in SUBSET S PROVE h[u] \in X
  <2>1. IsFiniteSet(u)
    BY FS_Subset
  <2>2. Picks(pick, u)
    BY <1>2 DEF Picks
  <2>3. \A s \in SUBSET u : (s # {} /\ h[s \ {pick[s]}] \in X) => h[s] \in X
    <3>1. ASSUME NEW s \in SUBSET u, s # {}, h[s \ {pick[s]}] \in X PROVE h[s] \in X
      <4>1. s \in SUBSET S
        OBVIOUS
      <4> HIDE DEF pick
      <4>2. pick[s] \in S /\ h[s] = G[<<h[s \ {pick[s]}], pick[s]>>]
        BY <1>4, <3>1, <4>1
      <4> QED BY <3>1, <4>2
    <3> QED BY <3>1
  <2> HIDE DEF pick
  <2> QED BY <1>5, <2>1, <2>2, <2>3, FoldKeeps
<1>8. SetSolution(h, b, G, S)
  <2>1. h = [s \in SUBSET S |-> h[s]]
    BY <1>3
  <2>2. \A s \in SUBSET S : pick[s] = CHOOSE x \in s : TRUE
    OBVIOUS
  <2> HIDE DEF pick
  <2>3. ASSUME NEW s \in SUBSET S
        PROVE  h[s] = IF s = {} THEN b
                      ELSE G[<<h[s \ {CHOOSE x \in s : TRUE}], CHOOSE x \in s : TRUE>>]
    BY <1>4, <1>5, <2>2
  <2> QED BY <2>1, <2>3 DEF SetSolution
<1> QED BY <1>7, <1>8

LEMMA SetFoldKeeps ==
  ASSUME NEW S, IsFiniteSet(S), NEW X, NEW f, f[{}] \in X,
         \A s \in SUBSET S : \A c \in s :
           (c = (CHOOSE x \in s : TRUE) /\ f[s \ {c}] \in X) => f[s] \in X
  PROVE  f[S] \in X
<1> DEFINE pick == [s \in SUBSET S |-> CHOOSE x \in s : TRUE]
<1>1. ASSUME NEW s \in SUBSET S, s # {}
      PROVE  pick[s] \in s /\ pick[s] = CHOOSE x \in s : TRUE
  BY <1>1
<1>2. Picks(pick, S)
  BY <1>1 DEF Picks
<1> HIDE DEF pick
<1>3. \A s \in SUBSET S : (s # {} /\ f[s \ {pick[s]}] \in X) => f[s] \in X
  BY <1>1
<1> QED BY <1>2, <1>3, FoldKeeps

---------------------------------------------------------------------------
(* The order of names *)

Agree(m, n, j) == \A l \in 1..j : m[l] = n[l]

\* What two sequences have in common at the beginning.
LEMMA SameBeginning ==
  ASSUME NEW S, NEW m \in Seq(S), NEW n \in Seq(S), NEW j \in Nat, j <= Len(m), j <= Len(n)
  PROVE  SubSeq(m, 1, j) = SubSeq(n, 1, j) <=> Agree(m, n, j)
<1> DEFINE a == SubSeq(m, 1, j)
           b == SubSeq(n, 1, j)
<1>1. /\ a \in Seq(S) /\ Len(a) = j /\ \A l \in 1..j : a[l] = m[l]
      /\ b \in Seq(S) /\ Len(b) = j /\ \A l \in 1..j : b[l] = n[l]
  <2>1. ASSUME NEW s \in Seq(S), j <= Len(s)
        PROVE  /\ SubSeq(s, 1, j) \in Seq(S) /\ Len(SubSeq(s, 1, j)) = j
               /\ \A l \in 1..j : SubSeq(s, 1, j)[l] = s[l]
    BY <2>1
  <2> QED BY <2>1
<1> HIDE DEF a, b
<1>2. ASSUME Agree(m, n, j) PROVE a = b
  <2>1. \A l \in 1..j : a[l] = b[l]
    BY <1>1, <1>2 DEF Agree
  <2> QED BY <1>1, <2>1
<1>3. ASSUME a = b PROVE Agree(m, n, j)
  BY <1>1, <1>3 DEF Agree
<1> QED BY <1>2, <1>3 DEF a, b

LEMMA StrictPrefix ==
  ASSUME NEW S, NEW m \in Seq(S), NEW n \in Seq(S)
  PROVE  IsStrictPrefix(m, n) <=> Len(m) < Len(n) /\ Agree(m, n, Len(m))
<1>1. Len(m) \in Nat /\ Len(n) \in Nat
  OBVIOUS
<1>2. IsPrefix(m, n) <=> Len(m) <= Len(n) /\ Agree(m, n, Len(m))
  BY <1>1, SameBeginning DEF IsPrefix
<1>3. ASSUME Len(m) = Len(n), Agree(m, n, Len(m)) PROVE m = n
  BY <1>3 DEF Agree
<1> QED BY <1>1, <1>2, <1>3 DEF IsStrictPrefix

\* Two sequences that are not the same differ somewhere first, or one is the longer.
LEMMA FirstDifference ==
  ASSUME NEW S, NEW m \in Seq(S), NEW n \in Seq(S), m # n
  PROVE  \E i \in Nat \ {0} :
           /\ Agree(m, n, i - 1)
           /\ \/ i = Len(m) + 1 /\ i <= Len(n)
              \/ i = Len(n) + 1 /\ i <= Len(m)
              \/ i <= Len(m) /\ i <= Len(n) /\ m[i] # n[i]
<1> DEFINE D == {i \in Nat : i >= 1 /\ i <= Len(m) /\ i <= Len(n) /\ m[i] # n[i]}
<1>1. Len(m) \in Nat /\ Len(n) \in Nat
  OBVIOUS
<1>2. CASE D # {}
  <2>1. D \in SUBSET Nat
    OBVIOUS
  <2>2. PICK i \in D : \A j \in D : i <= j
    <3> HIDE DEF D
    <3> QED BY <1>2, <2>1, LeastNatural
  <2>3. i \in Nat \ {0} /\ i <= Len(m) /\ i <= Len(n) /\ m[i] # n[i]
    BY <2>2
  <2>4. Agree(m, n, i - 1)
    BY <1>1, <2>2, <2>3 DEF Agree
  <2> QED BY <2>3, <2>4
<1>3. CASE D = {}
  <2>1. \A i \in Nat : (i >= 1 /\ i <= Len(m) /\ i <= Len(n)) => m[i] = n[i]
    BY <1>3
  <2>2. CASE Len(m) < Len(n)
    BY <1>1, <2>1, <2>2 DEF Agree
  <2>3. CASE Len(n) < Len(m)
    BY <1>1, <2>1, <2>3 DEF Agree
  <2>4. CASE Len(m) = Len(n)
    BY <1>1, <2>1, <2>4
  <2> QED BY <1>1, <2>2, <2>3, <2>4
<1> QED BY <1>2, <1>3

\* The order of suffixes of one length.
SuffixAt(s, t, i) == i \in 1..Len(s) /\ Agree(s, t, i - 1) /\ s[i] = "*" /\ t[i] = "+"

LEMMA SuffixOrder ==
  ASSUME NEW c \in Components, NEW d \in Components
  PROVE  ComponentLess(c, d)
           <=> \/ c[1] < d[1]
               \/ c[1] = d[1] /\ Len(c[2]) < Len(d[2])
               \/ c[1] = d[1] /\ Len(c[2]) = Len(d[2]) /\ \E i \in Nat : SuffixAt(c[2], d[2], i)
<1>1. c[2] \in Seq({"+", "*"}) /\ d[2] \in Seq({"+", "*"})
  BY DEF Components, NameSuffixes
<1>2. ASSUME Len(c[2]) = Len(d[2]), NEW i \in DOMAIN c[2]
      PROVE  /\ i \in Nat /\ i \in 1..Len(c[2])
             /\ SubSeq(c[2], 1, i - 1) = SubSeq(d[2], 1, i - 1) <=> Agree(c[2], d[2], i - 1)
  <2>1. i \in Nat /\ i \in 1..Len(c[2]) /\ i - 1 \in Nat /\ i - 1 <= Len(c[2])
    BY <1>1, <1>2
  <2> QED BY <1>1, <1>2, <2>1, SameBeginning
<1>3. DOMAIN c[2] = 1..Len(c[2])
  BY <1>1
<1> QED BY <1>2, <1>3 DEF ComponentLess, SuffixAt

LEMMA ComponentOrder ==
  ASSUME NEW c \in Components, NEW d \in Components, NEW e \in Components
  PROVE  /\ ~ComponentLess(c, c)
         /\ c # d => ComponentLess(c, d) \/ ComponentLess(d, c)
         /\ ComponentLess(c, d) /\ ComponentLess(d, e) => ComponentLess(c, e)
<1>1. \A x \in {c, d, e} : /\ x \in Components /\ x[1] \in Nat
                           /\ x[2] \in Seq({"+", "*"}) /\ Len(x[2]) \in Nat
  BY DEF Components, NameSuffixes
<1>2. ~ComponentLess(c, c)
  BY <1>1, SuffixOrder DEF SuffixAt
<1>3. ASSUME c # d, c[1] = d[1], Len(c[2]) = Len(d[2])
      PROVE  \E i \in Nat : SuffixAt(c[2], d[2], i) \/ SuffixAt(d[2], c[2], i)
  <2>1. c[2] # d[2]
    BY <1>3 DEF Components
  <2>2. PICK i \in Nat \ {0} :
          /\ Agree(c[2], d[2], i - 1)
          /\ \/ i = Len(c[2]) + 1 /\ i <= Len(d[2])
             \/ i = Len(d[2]) + 1 /\ i <= Len(c[2])
             \/ i <= Len(c[2]) /\ i <= Len(d[2]) /\ c[2][i] # d[2][i]
    BY <1>1, <2>1, FirstDifference
  <2>3. i \in 1..Len(c[2]) /\ i \in 1..Len(d[2]) /\ c[2][i] # d[2][i]
    BY <1>1, <1>3, <2>2
  <2>4. c[2][i] \in {"+", "*"} /\ d[2][i] \in {"+", "*"}
    BY <1>1, <2>3
  <2>5. Agree(d[2], c[2], i - 1)
    BY <2>2 DEF Agree
  <2> QED BY <2>2, <2>3, <2>4, <2>5 DEF SuffixAt
<1>4. ASSUME NEW i \in Nat, NEW j \in Nat, SuffixAt(c[2], d[2], i), SuffixAt(d[2], e[2], j),
             Len(c[2]) = Len(d[2]), Len(d[2]) = Len(e[2])
      PROVE  \E l \in Nat : SuffixAt(c[2], e[2], l)
  <2>1. CASE i < j
    <3>1. SuffixAt(c[2], e[2], i)
      BY <1>1, <1>4, <2>1 DEF SuffixAt, Agree
    <3> QED BY <3>1
  <2>2. CASE j < i
    <3>1. SuffixAt(c[2], e[2], j)
      BY <1>1, <1>4, <2>2 DEF SuffixAt, Agree
    <3> QED BY <3>1
  <2>3. CASE i = j
    BY <1>4, <2>3 DEF SuffixAt
  <2> QED BY <2>1, <2>2, <2>3
<1>5. c # d => ComponentLess(c, d) \/ ComponentLess(d, c)
  BY <1>1, <1>3, SuffixOrder
<1>6. ASSUME ComponentLess(c, d), ComponentLess(d, e) PROVE ComponentLess(c, e)
  <2>1. /\ c[1] <= d[1] /\ d[1] <= e[1]
        /\ c[1] = d[1] => Len(c[2]) <= Len(d[2])
        /\ d[1] = e[1] => Len(d[2]) <= Len(e[2])
    BY <1>1, <1>6, SuffixOrder
  <2>2. CASE c[1] = d[1] /\ d[1] = e[1] /\ Len(c[2]) = Len(d[2]) /\ Len(d[2]) = Len(e[2])
    <3>1. PICK i \in Nat : SuffixAt(c[2], d[2], i)
      BY <1>1, <1>6, <2>2, SuffixOrder
    <3>2. PICK j \in Nat : SuffixAt(d[2], e[2], j)
      BY <1>1, <1>6, <2>2, SuffixOrder
    <3>3. \E l \in Nat : SuffixAt(c[2], e[2], l)
      BY <1>4, <2>2, <3>1, <3>2
    <3> QED BY <2>2, <3>3, SuffixOrder
  <2>3. CASE ~(c[1] = d[1] /\ d[1] = e[1] /\ Len(c[2]) = Len(d[2]) /\ Len(d[2]) = Len(e[2]))
    <3>1. c[1] < e[1] \/ (c[1] = e[1] /\ Len(c[2]) < Len(e[2]))
      BY <1>1, <2>1, <2>3
    <3> QED BY <3>1, SuffixOrder
  <2> QED BY <2>2, <2>3
<1> QED BY <1>2, <1>5, <1>6

\* Where one name comes before another.
NameAt(m, n, i) ==
  /\ i \in Nat \ {0} /\ i <= Len(n) /\ Agree(m, n, i - 1)
  /\ i = Len(m) + 1 \/ (i <= Len(m) /\ ComponentLess(m[i], n[i]))

LEMMA NameLessAt ==
  ASSUME NEW m \in Names, NEW n \in Names
  PROVE  NameLess(m, n) <=> \E i : NameAt(m, n, i)
<1>1. /\ m \in Seq(Components) /\ Len(m) \in Nat
      /\ n \in Seq(Components) /\ Len(n) \in Nat
  BY DEF Names
<1>2. Min({Len(m), Len(n)}) = IF Len(m) <= Len(n) THEN Len(m) ELSE Len(n)
  <2>1. /\ Min({Len(m), Len(n)}) \in {Len(m), Len(n)}
        /\ Min({Len(m), Len(n)}) <= Len(m) /\ Min({Len(m), Len(n)}) <= Len(n)
    BY <1>1, LeastAndGreatest
  <2> QED BY <1>1, <2>1
<1>3. ASSUME NEW i \in Nat \ {0}, i <= Len(m), i <= Len(n)
      PROVE  SubSeq(m, 1, i - 1) = SubSeq(n, 1, i - 1) <=> Agree(m, n, i - 1)
  <2>1. i - 1 \in Nat /\ i - 1 <= Len(m) /\ i - 1 <= Len(n)
    BY <1>1, <1>3
  <2> QED BY <1>1, <2>1, SameBeginning
<1>4. NameLess(m, n)
        <=> \/ Len(m) < Len(n) /\ Agree(m, n, Len(m))
            \/ \E i \in Nat \ {0} : /\ i <= Len(m) /\ i <= Len(n) /\ Agree(m, n, i - 1)
                                    /\ ComponentLess(m[i], n[i])
  <2>1. IsStrictPrefix(m, n) <=> Len(m) < Len(n) /\ Agree(m, n, Len(m))
    BY <1>1, StrictPrefix
  <2>2. \A i : i \in 1..Min({Len(m), Len(n)})
                 <=> i \in Nat \ {0} /\ i <= Len(m) /\ i <= Len(n)
    BY <1>1, <1>2
  <2> QED BY <1>3, <2>1, <2>2 DEF NameLess
<1>5. (Len(m) < Len(n) /\ Agree(m, n, Len(m))) <=> NameAt(m, n, Len(m) + 1)
  BY <1>1 DEF NameAt
<1> QED BY <1>1, <1>4, <1>5 DEF NameAt

LEMMA NameOrder ==
  ASSUME NEW m \in Names, NEW n \in Names, NEW o \in Names
  PROVE  /\ ~NameLess(m, m)
         /\ m # n => NameLess(m, n) \/ NameLess(n, m)
         /\ NameLess(m, n) /\ NameLess(n, o) => NameLess(m, o)
<1>1. \A x \in {m, n, o} : x \in Names /\ x \in Seq(Components) /\ Len(x) \in Nat
                           /\ \A i \in 1..Len(x) : x[i] \in Components
  BY DEF Names
<1>2. ASSUME NEW i, NameAt(m, m, i) PROVE FALSE
  BY <1>1, <1>2, ComponentOrder DEF NameAt
<1>3. ASSUME m # n PROVE \E i : NameAt(m, n, i) \/ NameAt(n, m, i)
  <2>1. PICK i \in Nat \ {0} :
          /\ Agree(m, n, i - 1)
          /\ \/ i = Len(m) + 1 /\ i <= Len(n)
             \/ i = Len(n) + 1 /\ i <= Len(m)
             \/ i <= Len(m) /\ i <= Len(n) /\ m[i] # n[i]
    BY <1>1, <1>3, FirstDifference
  <2>2. Agree(n, m, i - 1)
    BY <2>1 DEF Agree
  <2>3. ASSUME i <= Len(m), i <= Len(n), m[i] # n[i]
        PROVE  ComponentLess(m[i], n[i]) \/ ComponentLess(n[i], m[i])
    <3>1. m[i] \in Components /\ n[i] \in Components
      BY <1>1, <2>3
    <3> QED BY <2>3, <3>1, ComponentOrder
  <2> QED BY <2>1, <2>2, <2>3 DEF NameAt
<1>4. ASSUME NEW i, NEW j, NameAt(m, n, i), NameAt(n, o, j)
      PROVE  \E l : NameAt(m, o, l)
  <2>1. CASE i < j
    <3>1. NameAt(m, o, i)
      BY <1>1, <1>4, <2>1 DEF NameAt, Agree
    <3> QED BY <3>1
  <2>2. CASE j < i
    <3>1. NameAt(m, o, j)
      BY <1>1, <1>4, <2>2 DEF NameAt, Agree
    <3> QED BY <3>1
  <2>3. CASE i = j
    <3>1. i \in Nat \ {0} /\ i <= Len(o) /\ i <= Len(n) /\ Agree(m, o, i - 1)
      BY <1>1, <1>4, <2>3 DEF NameAt, Agree
    <3>2. CASE i = Len(m) + 1
      BY <3>1, <3>2 DEF NameAt
    <3>3. CASE i # Len(m) + 1
      <4>1. i <= Len(m) /\ ComponentLess(m[i], n[i]) /\ ComponentLess(n[i], o[i])
        BY <1>1, <1>4, <2>3, <3>1, <3>3 DEF NameAt
      <4>2. m[i] \in Components /\ n[i] \in Components /\ o[i] \in Components
        BY <1>1, <3>1, <4>1
      <4>3. ComponentLess(m[i], o[i])
        BY <4>1, <4>2, ComponentOrder
      <4> QED BY <3>1, <4>1, <4>3 DEF NameAt
    <3> QED BY <3>2, <3>3
  <2> QED BY <1>4, <2>1, <2>2, <2>3 DEF NameAt
<1>5. ~NameLess(m, m)
  BY <1>2, NameLessAt
<1>6. m # n => NameLess(m, n) \/ NameLess(n, m)
  BY <1>3, NameLessAt
<1>7. NameLess(m, n) /\ NameLess(n, o) => NameLess(m, o)
  BY <1>4, NameLessAt
<1> QED BY <1>5, <1>6, <1>7

---------------------------------------------------------------------------
(* Sound collections *)

Ids == Nat \ {0}
FiniteIds == {D \in SUBSET Ids : IsFiniteSet(D)}
DeckRow == [name : Names, kind : Kinds, mtime : Nat, dirty : BOOLEAN]
CardRow == [did : Ids, odid : Nat, type : {"new", "learn", "review"},
            queue : {"new", "learn", "daylearn", "review", "preview", "held"},
            due : Dues, odue : Dues, mtime : Nat, dirty : BOOLEAN]
DeckTables == UNION {[D -> DeckRow] : D \in FiniteIds}
CardTables == UNION {[D -> CardRow] : D \in FiniteIds}
Collections == [decks : DeckTables, cards : CardTables, graves : SUBSET Nat,
                schema : BOOLEAN, failed : BOOLEAN, now : Nat, next : Ids]

NamesDiffer(decks) ==
  \A d, e \in DOMAIN decks : Same(decks[d].name, decks[e].name) => d = e

Sound == {k \in Collections : NamesDiffer(k.decks)}

\* What an operation may do to the rest of a collection: it adds decks, or it
\* also changes some of them; it does not touch the cards, and stays failed.
Adds(k, j) ==
  /\ j.cards = k.cards /\ (k.failed => j.failed)
  /\ DOMAIN k.decks \subseteq DOMAIN j.decks
  /\ \A d \in DOMAIN k.decks : j.decks[d] = k.decks[d]
Extends(k, j) ==
  /\ j.cards = k.cards /\ (k.failed => j.failed)
  /\ DOMAIN k.decks \subseteq DOMAIN j.decks
  /\ \A d \in DOMAIN k.decks : IsFiltered(j, d) <=> IsFiltered(k, d)

LEMMA AddsSteps ==
  ASSUME NEW k, NEW j, NEW l
  PROVE  /\ Adds(k, k) /\ (Adds(k, j) /\ Adds(j, l) => Adds(k, l))
         /\ (Adds(k, j) => Extends(k, j))
BY DEF Adds, Extends, IsFiltered

LEMMA ExtendsSteps ==
  ASSUME NEW k, NEW j, NEW l
  PROVE  Extends(k, k) /\ (Extends(k, j) /\ Extends(j, l) => Extends(k, l))
BY DEF Extends

LEMMA DeckTable ==
  ASSUME NEW t
  PROVE  t \in DeckTables <=> /\ t = [d \in DOMAIN t |-> t[d]] /\ DOMAIN t \in SUBSET Ids
                              /\ IsFiniteSet(DOMAIN t) /\ \A d \in DOMAIN t : t[d] \in DeckRow
BY DEF DeckTables, FiniteIds

LEMMA CardTable ==
  ASSUME NEW t
  PROVE  t \in CardTables <=> /\ t = [c \in DOMAIN t |-> t[c]] /\ DOMAIN t \in SUBSET Ids
                              /\ IsFiniteSet(DOMAIN t) /\ \A c \in DOMAIN t : t[c] \in CardRow
BY DEF CardTables, FiniteIds

\* The parts of a sound collection.
LEMMA SoundParts ==
  ASSUME NEW k \in Sound
  PROVE  /\ k \in Collections /\ k.decks \in DeckTables /\ k.cards \in CardTables
         /\ k.graves \in SUBSET Nat /\ k.schema \in BOOLEAN /\ k.failed \in BOOLEAN
         /\ k.now \in Nat /\ k.next \in Ids
         /\ DOMAIN k.decks \in SUBSET Ids /\ IsFiniteSet(DOMAIN k.decks)
         /\ \A d \in DOMAIN k.decks : k.decks[d] \in DeckRow /\ k.decks[d].name \in Names
         /\ DOMAIN k.cards \in SUBSET Ids /\ IsFiniteSet(DOMAIN k.cards)
         /\ \A c \in DOMAIN k.cards : k.cards[c] \in CardRow
         /\ NamesDiffer(k.decks)
<1>1. k \in Collections /\ NamesDiffer(k.decks)
  BY DEF Sound
<1>2. /\ k.decks \in DeckTables /\ k.cards \in CardTables
      /\ k.graves \in SUBSET Nat /\ k.schema \in BOOLEAN /\ k.failed \in BOOLEAN
      /\ k.now \in Nat /\ k.next \in Ids
  BY <1>1 DEF Collections
<1>3. \A d \in DOMAIN k.decks : k.decks[d] \in DeckRow /\ k.decks[d].name \in Names
  BY <1>2, DeckTable DEF DeckRow
<1> QED BY <1>1, <1>2, <1>3, DeckTable, CardTable

\* Names that are the same but for case.
LEMMA SameNames ==
  ASSUME NEW m, NEW n, NEW o
  PROVE  /\ Same(m, m) /\ Same(m, n) => Same(n, m)
         /\ Same(m, n) /\ Same(n, o) => Same(m, o)
BY DEF Same

LEMMA EqualIntervals ==
  ASSUME NEW a \in Nat, NEW b \in Nat, 1..a = 1..b
  PROVE  a = b
<1>1. CASE a < b
  <2>1. b \in 1..b
    BY <1>1
  <2>2. b \in 1..a
    BY <2>1
  <2> QED BY <1>1, <2>2
<1>2. CASE b < a
  <2>1. a \in 1..a
    BY <1>2
  <2>2. a \in 1..b
    BY <2>1
  <2> QED BY <1>2, <2>2
<1> QED BY <1>1, <1>2

LEMMA SameParts ==
  ASSUME NEW m \in Names, NEW n \in Names
  PROVE  /\ Same(m, n) <=> /\ Len(m) = Len(n)
                           /\ \A i \in 1..Len(m) : Fold(m[i][1]) = Fold(n[i][1]) /\ m[i][2] = n[i][2]
<1>1. /\ Len(m) \in Nat /\ DOMAIN m = 1..Len(m)
      /\ Len(n) \in Nat /\ DOMAIN n = 1..Len(n)
  BY DEF Names
<1>2. ASSUME Same(m, n)
      PROVE  /\ Len(m) = Len(n)
             /\ \A i \in 1..Len(m) : Fold(m[i][1]) = Fold(n[i][1]) /\ m[i][2] = n[i][2]
  <2>1. DOMAIN Folded(m) = DOMAIN Folded(n)
    BY <1>2 DEF Same
  <2>a. DOMAIN Folded(m) = 1..Len(m) /\ DOMAIN Folded(n) = 1..Len(n)
    BY <1>1 DEF Folded
  <2>2. Len(m) = Len(n)
    BY <1>1, <2>1, <2>a, EqualIntervals
  <2>3. ASSUME NEW i \in 1..Len(m)
        PROVE  Fold(m[i][1]) = Fold(n[i][1]) /\ m[i][2] = n[i][2]
    <3>1. Folded(m)[i] = <<Fold(m[i][1]), m[i][2]>> /\ Folded(n)[i] = <<Fold(n[i][1]), n[i][2]>>
      BY <1>1, <2>2 DEF Folded
    <3> QED BY <1>2, <3>1 DEF Same
  <2> QED BY <2>2, <2>3
<1>3. ASSUME Len(m) = Len(n),
             \A i \in 1..Len(m) : Fold(m[i][1]) = Fold(n[i][1]) /\ m[i][2] = n[i][2]
      PROVE  Same(m, n)
  BY <1>1, <1>3 DEF Same, Folded
<1> QED BY <1>2, <1>3

\* Putting a deck where its name is free.
LEMMA PutSound ==
  ASSUME NEW k \in Sound, NEW d \in Ids, NEW row \in DeckRow, Named(k, row.name) \subseteq {d}
  PROVE  /\ PutDeck(k, d, row) \in Sound
         /\ DOMAIN PutDeck(k, d, row).decks = DOMAIN k.decks \cup {d}
         /\ PutDeck(k, d, row).decks
              = [e \in DOMAIN k.decks \cup {d} |-> IF e = d THEN row ELSE k.decks[e]]
         /\ PutDeck(k, d, row).cards = k.cards /\ PutDeck(k, d, row).failed = k.failed
<1> DEFINE t == [e \in DOMAIN k.decks \cup {d} |-> IF e = d THEN row ELSE k.decks[e]]
           p == PutDeck(k, d, row)
<1>1. /\ k \in Collections /\ DOMAIN k.decks \in SUBSET Ids /\ IsFiniteSet(DOMAIN k.decks)
      /\ \A e \in DOMAIN k.decks : k.decks[e] \in DeckRow
      /\ NamesDiffer(k.decks)
  BY SoundParts
<1>2. DOMAIN t = DOMAIN k.decks \cup {d} /\ \A e \in DOMAIN t : t[e] = IF e = d THEN row ELSE k.decks[e]
  OBVIOUS
<1>3. t \in DeckTables
  <2>1. IsFiniteSet(DOMAIN t)
    BY <1>1, <1>2, FS_AddElement
  <2>2. t = [e \in DOMAIN t |-> t[e]]
    OBVIOUS
  <2> HIDE DEF t
  <2> QED BY <1>1, <1>2, <2>1, <2>2, DeckTable
<1>4. p = [k EXCEPT !.decks = t]
  BY DEF PutDeck
<1> HIDE DEF t, p
<1>5. p \in Collections /\ p.decks = t /\ p.cards = k.cards /\ p.failed = k.failed
  BY <1>1, <1>3, <1>4 DEF Collections
<1>6. NamesDiffer(t)
  <2>1. ASSUME NEW e \in DOMAIN k.decks, Same(k.decks[e].name, row.name) PROVE e = d
    BY <2>1 DEF Named
  <2>2. ASSUME NEW e \in DOMAIN k.decks, Same(row.name, k.decks[e].name) PROVE e = d
    BY <2>1, <2>2 DEF Same
  <2> QED BY <1>1, <1>2, <2>1, <2>2 DEF NamesDiffer
<1> QED BY <1>2, <1>5, <1>6 DEF Sound, p, t

LEMMA FailSound ==
  ASSUME NEW k \in Sound
  PROVE  /\ Fail(k) \in Sound /\ Fail(k).decks = k.decks /\ Fail(k).cards = k.cards
         /\ Fail(k).failed /\ Adds(k, Fail(k))
<1>1. /\ Fail(k) \in Collections /\ Fail(k).decks = k.decks /\ Fail(k).cards = k.cards
      /\ Fail(k).failed
  BY SoundParts DEF Fail, Collections
<1>2. Fail(k) \in Sound
  BY <1>1, SoundParts DEF Sound
<1> QED BY <1>1, <1>2 DEF Adds

LEMMA ModifiedRow ==
  ASSUME NEW k \in Sound, NEW row \in DeckRow
  PROVE  /\ Modified(k, row) \in DeckRow
         /\ Modified(k, row).name = row.name /\ Modified(k, row).kind = row.kind
BY SoundParts DEF Modified, DeckRow

\* A row that is updated keeps the others.
LEMMA UpdateRowSound ==
  ASSUME NEW k \in Sound, NEW d \in Ids, NEW row \in DeckRow
  PROVE  LET j == UpdateRow(k, d, row) IN
         /\ j \in Sound /\ j.cards = k.cards /\ (k.failed => j.failed)
         /\ DOMAIN k.decks \subseteq DOMAIN j.decks
         /\ DOMAIN j.decks \subseteq DOMAIN k.decks \cup {d}
         /\ \/ j.failed /\ j.decks = k.decks
            \/ j.decks = [e \in DOMAIN k.decks \cup {d} |-> IF e = d THEN row ELSE k.decks[e]]
<1>1. CASE Named(k, row.name) \subseteq {d}
  <2> DEFINE j == PutDeck(k, d, row)
  <2>1. UpdateRow(k, d, row) = j
    BY <1>1 DEF UpdateRow
  <2>2. /\ j \in Sound /\ DOMAIN j.decks = DOMAIN k.decks \cup {d}
        /\ j.decks = [e \in DOMAIN k.decks \cup {d} |-> IF e = d THEN row ELSE k.decks[e]]
        /\ j.cards = k.cards /\ j.failed = k.failed
    BY <1>1, PutSound
  <2> HIDE DEF j
  <2> QED BY <2>1, <2>2
<1>2. CASE ~(Named(k, row.name) \subseteq {d})
  <2>1. UpdateRow(k, d, row) = Fail(k)
    BY <1>2 DEF UpdateRow
  <2> QED BY <2>1, FailSound
<1> QED BY <1>1, <1>2

\* A deck that stays filtered or normal when its row is updated.
LEMMA UpdateRowExtends ==
  ASSUME NEW k \in Sound, NEW d \in DOMAIN k.decks, NEW row \in DeckRow,
         (row.kind # "normal") <=> IsFiltered(k, d)
  PROVE  Extends(k, UpdateRow(k, d, row))
<1> DEFINE j == UpdateRow(k, d, row)
<1>1. /\ j.cards = k.cards /\ (k.failed => j.failed) /\ DOMAIN k.decks \subseteq DOMAIN j.decks
      /\ \/ j.decks = k.decks
         \/ j.decks = [e \in DOMAIN k.decks \cup {d} |-> IF e = d THEN row ELSE k.decks[e]]
  <2>1. d \in Ids
    BY SoundParts
  <2> QED BY <2>1, UpdateRowSound
<1> HIDE DEF j
<1>2. \A e \in DOMAIN k.decks : IsFiltered(j, e) <=> IsFiltered(k, e)
  BY <1>1 DEF IsFiltered
<1> QED BY <1>1, <1>2 DEF Extends, j

\* The id of a new deck is new.
LEMMA AllocatedNew ==
  ASSUME NEW k \in Sound
  PROVE  AllocatedId(k) \in Ids /\ AllocatedId(k) \notin DOMAIN k.decks
<1> DEFINE D == DOMAIN k.decks
<1>1. D \in SUBSET Nat /\ IsFiniteSet(D) /\ k.next \in Ids
  BY SoundParts DEF Ids
<1>2. CASE k.next \in D
  <2>1. AllocatedId(k) = Max(D) + 1
    BY <1>2 DEF AllocatedId
  <2> HIDE DEF D
  <2>2. Max(D) \in D /\ \A d \in D : d <= Max(D)
    BY <1>1, <1>2, LeastAndGreatest
  <2> DEFINE m == Max(D)
  <2>5. m \in D /\ \A d \in D : d \in Nat /\ d <= m
    BY <1>1, <2>2
  <2> HIDE DEF m
  <2>6. m + 1 \in Nat \ {0} /\ m + 1 \notin D
    BY <2>5
  <2>3. Max(D) \in Nat /\ Max(D) + 1 \in Nat \ {0}
    BY <2>5, <2>6 DEF m
  <2>4. Max(D) + 1 \notin D
    BY <2>6 DEF m
  <2> QED BY <2>1, <2>3, <2>4 DEF Ids, D
<1>3. CASE k.next \notin D
  BY <1>1, <1>3 DEF AllocatedId
<1> QED BY <1>2, <1>3

\* A deck that is added takes no other name, and no deck away.
LEMMA AddRowSound ==
  ASSUME NEW k \in Sound, NEW name \in Names, NEW kind \in Kinds, Named(k, name) = {}
  PROVE  LET j == AddRow(k, name, kind) IN
         /\ j \in Sound /\ Adds(k, j)
         /\ \A n : (Named(k, n) = {} /\ ~Same(name, n)) => Named(j, n) = {}
         /\ j.failed \/ Named(j, name) # {}
         /\ \A d \in DOMAIN j.decks \ DOMAIN k.decks :
              j.decks[d].name = name /\ j.decks[d].kind = kind
<1>1. CASE AllocatedId(k) > MaxId
  <2> DEFINE j == Fail(k)
  <2>1. AddRow(k, name, kind) = j
    BY <1>1 DEF AddRow
  <2>2. j \in Sound /\ j.decks = k.decks /\ j.cards = k.cards /\ j.failed
    BY FailSound
  <2> HIDE DEF j
  <2> QED BY <2>1, <2>2 DEF Adds, Named
<1>2. CASE ~(AllocatedId(k) > MaxId)
  <2> DEFINE row == [name |-> name, kind |-> kind, mtime |-> 0, dirty |-> TRUE]
             new == Modified(k, row)
             id == AllocatedId(k)
             p == PutDeck(k, id, new)
             a == [p EXCEPT !.next = @ + 2]
  <2>1. row \in DeckRow /\ row.name = name /\ row.kind = kind
    BY DEF DeckRow
  <2>2. new \in DeckRow /\ new.name = name /\ new.kind = kind
    <3> HIDE DEF row
    <3> QED BY <2>1, ModifiedRow
  <2>3. AddRow(k, name, kind) = a
    BY <1>2 DEF AddRow
  <2> HIDE DEF row, new
  <2>0. id \in Ids /\ id \notin DOMAIN k.decks
    BY AllocatedNew
  <2> HIDE DEF id
  <2>4. /\ p \in Sound /\ DOMAIN p.decks = DOMAIN k.decks \cup {id}
        /\ p.decks = [e \in DOMAIN k.decks \cup {id} |-> IF e = id THEN new ELSE k.decks[e]]
        /\ p.cards = k.cards /\ p.failed = k.failed
    BY <2>0, <2>2, PutSound
  <2> HIDE DEF p
  <2>5. a \in Collections /\ a.decks = p.decks /\ a.cards = p.cards /\ a.failed = p.failed
    BY <2>4, SoundParts DEF Collections, Ids
  <2> HIDE DEF a
  <2>6. a \in Sound
    BY <2>4, <2>5 DEF Sound
  <2>7. ASSUME NEW n, Named(k, n) = {}, ~Same(name, n) PROVE Named(a, n) = {}
    BY <2>2, <2>4, <2>5, <2>7 DEF Named
  <2>8. Adds(k, a)
    BY <2>0, <2>4, <2>5 DEF Adds
  <2>9. id \in Named(a, name)
    <3>1. id \in DOMAIN a.decks /\ a.decks[id].name = name
      BY <2>2, <2>4, <2>5
    <3>2. Same(name, name)
      BY DEF Same
    <3> QED BY <3>1, <3>2 DEF Named
  <2>10. \A d \in DOMAIN a.decks \ DOMAIN k.decks : a.decks[d] = new
    BY <2>4, <2>5
  <2> QED BY <2>2, <2>3, <2>6, <2>7, <2>8, <2>9, <2>10
<1> QED BY <1>1, <1>2

---------------------------------------------------------------------------
(* Names that are free *)

\* The name with n times "+" appended to its last component.
WithPluses(name, n) ==
  [name EXCEPT ![Len(name)] = <<@[1], @[2] \o [i \in 1..n |-> "+"]>>]

Extended(name, s) == [name EXCEPT ![Len(name)] = <<@[1], @[2] \o s>>]

LEMMA Appended ==
  ASSUME NEW name \in Names, NEW s \in NameSuffixes
  PROVE  /\ Extended(name, s) \in Names /\ Len(Extended(name, s)) = Len(name)
         /\ Len(Extended(name, s)[Len(name)][2]) = Len(name[Len(name)][2]) + Len(s)
         /\ Len(name[Len(name)][2]) \in Nat
<1> DEFINE L == Len(name)
           c == <<name[L][1], name[L][2] \o s>>
           new == [name EXCEPT ![L] = c]
<1>1. name \in Seq(Components) /\ name # <<>> /\ L \in Nat
  BY DEF Names
<1>2. L \in 1..L /\ DOMAIN name = 1..L
  BY <1>1
<1>3. name[L] \in Components
  BY <1>1, <1>2
<1>4. name[L][1] \in Nat /\ name[L][2] \in Seq({"+", "*"}) /\ s \in Seq({"+", "*"})
  BY <1>3 DEF Components, NameSuffixes
<1>5. /\ name[L][2] \o s \in Seq({"+", "*"})
      /\ Len(name[L][2] \o s) = Len(name[L][2]) + Len(s) /\ Len(name[L][2]) \in Nat
  BY <1>4
<1>6. c \in Components /\ c[2] = name[L][2] \o s
  BY <1>4, <1>5 DEF Components, NameSuffixes
<1> HIDE DEF c
<1>7. new \in Seq(Components) /\ Len(new) = L /\ new[L] = c
  BY <1>1, <1>2, <1>6
<1>8. new # <<>>
  BY <1>2, <1>7
<1>9. Extended(name, s) = new
  BY DEF Extended, c
<1> HIDE DEF new
<1> QED BY <1>5, <1>6, <1>7, <1>8, <1>9 DEF Names

LEMMA Pluses ==
  ASSUME NEW name \in Names, NEW n \in Nat
  PROVE  /\ WithPluses(name, n) \in Names /\ Len(WithPluses(name, n)) = Len(name)
         /\ Len(name[Len(name)][2]) \in Nat
         /\ Len(WithPluses(name, n)[Len(name)][2]) = Len(name[Len(name)][2]) + n
<1> DEFINE s == [i \in 1..n |-> "+"]
<1>1. s \in NameSuffixes /\ Len(s) = n
  BY DEF NameSuffixes
<1> HIDE DEF s
<1>2. WithPluses(name, n) = Extended(name, s)
  BY DEF WithPluses, Extended, s
<1>3. /\ Extended(name, s) \in Names /\ Len(Extended(name, s)) = Len(name)
      /\ Len(Extended(name, s)[Len(name)][2]) = Len(name[Len(name)][2]) + Len(s)
      /\ Len(name[Len(name)][2]) \in Nat
  BY <1>1, Appended
<1> QED BY <1>1, <1>2, <1>3

LEMMA Suffixed ==
  ASSUME NEW name \in Names, NEW x \in {"+", "*"}
  PROVE  WithSuffix(name, x) \in Names
<1>1. name \in Seq(Components) /\ Len(name) \in Nat /\ Len(name) \in 1..Len(name)
  BY DEF Names
<1>2. name[Len(name)] \in Components
  BY <1>1
<1>3. name[Len(name)][1] \in Nat /\ name[Len(name)][2] \in Seq({"+", "*"})
  BY <1>2 DEF Components, NameSuffixes
<1>4. Append(name[Len(name)][2], x) \in Seq({"+", "*"})
  BY <1>3
<1> DEFINE c == <<name[Len(name)][1], Append(name[Len(name)][2], x)>>
<1>5. c \in Components
  BY <1>3, <1>4 DEF Components, NameSuffixes
<1>6. WithSuffix(name, x) = [name EXCEPT ![Len(name)] = c]
  BY DEF WithSuffix
<1> HIDE DEF c
<1>7. WithSuffix(name, x) \in Seq(Components) /\ Len(WithSuffix(name, x)) = Len(name)
  BY <1>1, <1>5, <1>6
<1>8. WithSuffix(name, x) # <<>>
  BY <1>1, <1>7
<1> QED BY <1>7, <1>8 DEF Names

\* Of one more name than there are decks, one is free; the name that was asked for is
\* extended to it.
LEMMA UniqueNameFree ==
  ASSUME NEW k \in Sound, NEW d, NEW name \in Names
  PROVE  /\ UniqueName(k, d, name) \in Names
         /\ Named(k, UniqueName(k, d, name)) \subseteq {d}
         /\ \E n \in Nat : UniqueName(k, d, name) = WithPluses(name, n)
<1> DEFINE D == DOMAIN k.decks
           N == Cardinality(D)
           Free(n) == Named(k, WithPluses(name, n)) \subseteq {d}
           F == {n \in 0..N : Free(n)}
           f == [n \in 0..N |-> CHOOSE e \in D : e # d /\ Same(k.decks[e].name, WithPluses(name, n))]
<1>1. IsFiniteSet(D) /\ N \in Nat
  BY SoundParts, FS_CardinalityType
<1>2. ASSUME F = {} PROVE FALSE
  <2>1. ASSUME NEW n \in 0..N
        PROVE  f[n] \in D /\ Same(k.decks[f[n]].name, WithPluses(name, n))
    <3>1. ~Free(n)
      BY <1>2
    <3>2. \E e \in D : e # d /\ Same(k.decks[e].name, WithPluses(name, n))
      BY <3>1 DEF Named
    <3> DEFINE P(e) == e # d /\ Same(k.decks[e].name, WithPluses(name, n))
    <3>3. f[n] = CHOOSE e \in D : P(e)
      OBVIOUS
    <3>4. \E e \in D : P(e)
      BY <3>2
    <3>5. f[n] \in D /\ P(f[n])
      <4> HIDE DEF P, f, D
      <4> QED BY <3>3, <3>4
    <3> QED BY <3>5
  <2>2. f \in [0..N -> D]
    BY <2>1
  <2>3. IsFiniteSet(0..N) /\ Cardinality(0..N) = N + 1
    BY <1>1, FS_Interval
  <2>4. PICK m, n \in 0..N : m # n /\ f[m] = f[n]
    <3> HIDE DEF f, D
    <3>1. Cardinality(D) < Cardinality(0..N)
      BY <1>1, <2>3
    <3> QED BY <1>1, <2>2, <2>3, <3>1, FS_PigeonHole
  <2>5. Same(WithPluses(name, m), WithPluses(name, n))
    <3>1. Same(k.decks[f[m]].name, WithPluses(name, m)) /\ Same(k.decks[f[m]].name, WithPluses(name, n))
      BY <2>1, <2>4
    <3> HIDE DEF f
    <3> QED BY <3>1 DEF Same
  <2>6. m \in Nat /\ n \in Nat /\ m # n
    BY <1>1, <2>4
  <2>7. /\ WithPluses(name, m) \in Names /\ WithPluses(name, n) \in Names
        /\ Len(WithPluses(name, m)) = Len(name) /\ Len(name[Len(name)][2]) \in Nat
        /\ Len(WithPluses(name, m)[Len(name)][2]) = Len(name[Len(name)][2]) + m
        /\ Len(WithPluses(name, n)[Len(name)][2]) = Len(name[Len(name)][2]) + n
    BY <2>6, Pluses
  <2>8. Len(name) \in 1..Len(name)
    BY DEF Names
  <2>9. WithPluses(name, m)[Len(name)][2] = WithPluses(name, n)[Len(name)][2]
    BY <2>5, <2>7, <2>8, SameParts
  <2> QED BY <2>6, <2>7, <2>9
<1>3. Min(F) \in F
  <2>1. F \in SUBSET Nat
    OBVIOUS
  <2> HIDE DEF F
  <2> QED BY <1>2, <2>1, LeastAndGreatest
<1>4. UniqueName(k, d, name) = WithPluses(name, Min(F))
  BY DEF UniqueName, WithPluses
<1>5. Min(F) \in Nat /\ Free(Min(F))
  BY <1>3
<1> HIDE DEF F
<1> QED BY <1>4, <1>5, Pluses

\* A name that is free stays as it is.
LEMMA FreeNameStays ==
  ASSUME NEW k \in Sound, NEW d, NEW name \in Names, Named(k, name) = {}
  PROVE  UniqueName(k, d, name) = name
<1> DEFINE N == Cardinality(DOMAIN k.decks)
           Free(n) == Named(k, WithPluses(name, n)) \subseteq {d}
           F == {n \in 0..N : Free(n)}
           L == Len(name)
           s == [i \in 1..0 |-> "+"]
<1>1. N \in Nat
  BY SoundParts, FS_CardinalityType
<1>2. WithPluses(name, 0) = name
  <2>1. name \in Seq(Components) /\ L \in 1..L /\ DOMAIN name = 1..L
    BY DEF Names
  <2>2. name[L] \in Components
    BY <2>1
  <2>3. name[L] = <<name[L][1], name[L][2]>> /\ name[L][2] \in Seq({"+", "*"})
    BY <2>2 DEF Components, NameSuffixes
  <2>4. s = <<>>
    OBVIOUS
  <2>5. name[L][2] \o <<>> = name[L][2]
    BY <2>3
  <2>6. <<name[L][1], name[L][2] \o s>> = name[L]
    BY <2>3, <2>4, <2>5
  <2>7. WithPluses(name, 0) = [name EXCEPT ![L] = <<name[L][1], name[L][2] \o s>>]
    BY DEF WithPluses
  <2>8. [name EXCEPT ![L] = name[L]] = name
    BY <2>1
  <2> HIDE DEF s, L
  <2> QED BY <2>6, <2>7, <2>8
<1>3. 0 \in F
  BY <1>1, <1>2
<1>4. F \in SUBSET Nat
  OBVIOUS
<1>5. UniqueName(k, d, name) = WithPluses(name, Min(F))
  BY DEF UniqueName, WithPluses
<1> HIDE DEF F
<1>6. Min(F) \in Nat /\ Min(F) <= 0
  BY <1>3, <1>4, LeastAndGreatest
<1>7. Min(F) = 0
  BY <1>6
<1> QED BY <1>2, <1>5, <1>7

---------------------------------------------------------------------------
(* Parents *)

\* A part of a name.
LEMMA Beginning ==
  ASSUME NEW name \in Names, NEW i \in 1..(Len(name) - 1)
  PROVE  SubSeq(name, 1, i) \in Names /\ Len(SubSeq(name, 1, i)) = i
<1>1. name \in Seq(Components) /\ Len(name) \in Nat
  BY DEF Names
<1>2. SubSeq(name, 1, i) \in Seq(Components) /\ Len(SubSeq(name, 1, i)) = i
  BY <1>1
<1>3. SubSeq(name, 1, i) # <<>>
  BY <1>2
<1> QED BY <1>2, <1>3 DEF Names

\* A name put in front of the rest of another one.
LEMMA Spliced ==
  ASSUME NEW m \in Names, NEW name \in Names, NEW i \in Nat
  PROVE  m \o SubSeq(name, i + 1, Len(name)) \in Names
<1>1. /\ m \in Seq(Components) /\ m # <<>> /\ Len(m) \in Nat
      /\ name \in Seq(Components) /\ Len(name) \in Nat
  BY DEF Names
<1>2. SubSeq(name, i + 1, Len(name)) \in Seq(Components)
  BY <1>1
<1> DEFINE t == SubSeq(name, i + 1, Len(name))
<1> HIDE DEF t
<1>3. m \o t \in Seq(Components) /\ Len(m \o t) = Len(m) + Len(t) /\ Len(t) \in Nat
  BY <1>1, <1>2 DEF t
<1>4. m \o t # <<>>
  BY <1>1, <1>3
<1> QED BY <1>3, <1>4 DEF Names, t

\* The closest parent there is.
LEMMA ExistingParent ==
  ASSUME NEW k \in Sound, NEW name \in Names, FirstExistingParent(k, name) # {}
  PROVE  \E i \in 1..(Len(name) - 1) :
           \A d \in FirstExistingParent(k, name) :
             d \in DOMAIN k.decks /\ Same(k.decks[d].name, SubSeq(name, 1, i))
<1> DEFINE E == {i \in 1..(Len(name) - 1) : Named(k, SubSeq(name, 1, i)) # {}}
<1>1. Len(name) \in Nat
  BY DEF Names
<1>2. E # {} /\ FirstExistingParent(k, name) = Named(k, SubSeq(name, 1, Max(E)))
  BY DEF FirstExistingParent
<1>3. E \in SUBSET Nat /\ IsFiniteSet(E)
  <2>1. E \in SUBSET (1..(Len(name) - 1)) /\ E \in SUBSET Nat
    OBVIOUS
  <2>2. IsFiniteSet(1..(Len(name) - 1))
    BY <1>1, FS_Interval
  <2> HIDE DEF E
  <2> QED BY <2>1, <2>2, FS_Subset
<1>4. Max(E) \in E
  <2> HIDE DEF E
  <2> QED BY <1>2, <1>3, LeastAndGreatest
<1>5. Max(E) \in 1..(Len(name) - 1)
  BY <1>4
<1> HIDE DEF E
<1> QED BY <1>2, <1>5 DEF Named

\* What a sequence followed by another one has at each place.
LEMMA Concatenated ==
  ASSUME NEW S, NEW m \in Seq(S), NEW n \in Seq(S)
  PROVE  /\ Len(m) \in Nat /\ Len(n) \in Nat /\ Len(m \o n) = Len(m) + Len(n)
         /\ \A j \in 1..(Len(m) + Len(n)) :
              (m \o n)[j] = IF j <= Len(m) THEN m[j] ELSE n[j - Len(m)]
OBVIOUS

\* A name that takes its parent's spelling stays the same but for case.
LEMMA MatchedNameSame ==
  ASSUME NEW k \in Sound, NEW name \in Names
  PROVE  MatchedName(k, name) \in Names /\ Same(MatchedName(k, name), name)
<1>1. CASE FirstExistingParent(k, name) = {}
  BY <1>1 DEF MatchedName, Same
<1>2. CASE FirstExistingParent(k, name) # {}
  <2> DEFINE d == CHOOSE d \in FirstExistingParent(k, name) : TRUE
             n == k.decks[d].name
             t == SubSeq(name, Len(n) + 1, Len(name))
  <2>1. d \in FirstExistingParent(k, name)
    BY <1>2
  <2> HIDE DEF d
  <2>2. PICK i \in 1..(Len(name) - 1) :
          d \in DOMAIN k.decks /\ Same(n, SubSeq(name, 1, i))
    BY <1>2, <2>1, ExistingParent
  <2>3. n \in Names
    BY <2>2, SoundParts
  <2>4. MatchedName(k, name) = n \o t
    BY <1>2 DEF MatchedName, d
  <2> HIDE DEF n
  <2>5. SubSeq(name, 1, i) \in Names /\ Len(SubSeq(name, 1, i)) = i
    BY Beginning
  <2>6. /\ Len(n) = i
        /\ \A j \in 1..i : Fold(n[j][1]) = Fold(SubSeq(name, 1, i)[j][1])
                           /\ n[j][2] = SubSeq(name, 1, i)[j][2]
    <3> DEFINE u == SubSeq(name, 1, i)
    <3>1. u \in Names /\ Len(u) = i /\ Same(n, u)
      BY <2>2, <2>5
    <3> HIDE DEF u
    <3>2. /\ Len(n) = Len(u)
          /\ \A j \in 1..Len(n) : Fold(n[j][1]) = Fold(u[j][1]) /\ n[j][2] = u[j][2]
      BY <2>3, <3>1, SameParts
    <3> QED BY <3>1, <3>2 DEF u
  <2>7. /\ name \in Seq(Components) /\ Len(name) \in Nat /\ i \in Nat /\ i < Len(name)
        /\ n \in Seq(Components)
    BY <2>3 DEF Names
  <2>8. /\ t \in Seq(Components) /\ Len(t) = Len(name) - i
        /\ \A j \in 1..(Len(name) - i) : t[j] = name[j + i]
    BY <2>6, <2>7
  <2>9. \A j \in 1..i : SubSeq(name, 1, i)[j] = name[j]
    BY <2>7
  <2>10. n \o t \in Names
    BY <2>3, <2>7, <2>6, Spliced
  <2> HIDE DEF t
  <2>11. /\ Len(n \o t) = Len(name)
         /\ \A j \in 1..Len(name) : (n \o t)[j] = IF j <= i THEN n[j] ELSE t[j - i]
    <3> DEFINE c == n \o t
    <3>1. /\ Len(n) \in Nat /\ Len(t) \in Nat /\ Len(c) = Len(n) + Len(t)
          /\ \A j \in 1..(Len(n) + Len(t)) : c[j] = IF j <= Len(n) THEN n[j] ELSE t[j - Len(n)]
      BY <2>7, <2>8, Concatenated
    <3> HIDE DEF c
    <3>2. Len(n) = i /\ Len(n) + Len(t) = Len(name)
      BY <2>6, <2>7, <2>8
    <3>3. Len(c) = Len(name) /\ \A j \in 1..Len(name) : c[j] = IF j <= i THEN n[j] ELSE t[j - i]
      BY <3>1, <3>2
    <3> QED BY <3>3 DEF c
  <2>12. ASSUME NEW j \in 1..Len(name)
         PROVE  Fold((n \o t)[j][1]) = Fold(name[j][1]) /\ (n \o t)[j][2] = name[j][2]
    <3>1. CASE j <= i
      <4>1. (n \o t)[j] = n[j] /\ j \in 1..i
        BY <2>7, <2>11, <3>1
      <4> QED BY <2>6, <2>9, <4>1
    <3>2. CASE ~(j <= i)
      <4>1. (n \o t)[j] = t[j - i] /\ j - i \in 1..(Len(name) - i) /\ (j - i) + i = j
        BY <2>7, <2>11, <3>2
      <4>2. (n \o t)[j] = name[j]
        BY <2>8, <4>1
      <4> QED BY <4>2
    <3> QED BY <3>1, <3>2
  <2>13. Same(n \o t, name)
    BY <2>10, <2>11, <2>12, SameParts
  <2> QED BY <2>4, <2>10, <2>13
<1> QED BY <1>1, <1>2

\* Parents that are created are normal decks with the names of parents, which
\* are shorter than the name they are created for.
ParentsAdded(k, name, j) ==
  /\ Adds(k, j)
  /\ \A m \in Names : (Named(k, m) = {} /\ Len(m) >= Len(name)) => Named(j, m) = {}
  /\ \A d \in DOMAIN j.decks \ DOMAIN k.decks :
       j.decks[d].name \in ParentNames(name) /\ j.decks[d].kind = "normal"

AddParent(acc, p) == IF Named(acc, p) # {} THEN acc ELSE AddRow(acc, p, "normal")
MissingParents(name) == [i \in 1..(Len(name) - 1) |-> SubSeq(name, 1, Len(name) - i)]

LEMMA ParentsOfNames ==
  ASSUME NEW name \in Names
  PROVE  /\ \A p \in ParentNames(name) : p \in Names /\ Len(p) < Len(name)
         /\ MissingParents(name) \in [1..(Len(name) - 1) -> ParentNames(name)]
         /\ \A p \in ParentNames(name) : \E i \in 1..(Len(name) - 1) :
              p = MissingParents(name)[i]
<1>1. Len(name) \in Nat \ {0}
  BY DEF Names
<1>2. ASSUME NEW i \in 1..(Len(name) - 1)
      PROVE  SubSeq(name, 1, i) \in Names /\ Len(SubSeq(name, 1, i)) = i /\ i < Len(name)
  BY <1>1, Beginning
<1>3. ASSUME NEW i \in 1..(Len(name) - 1)
      PROVE  Len(name) - i \in 1..(Len(name) - 1) /\ Len(name) - (Len(name) - i) = i
  BY <1>1
<1> QED BY <1>2, <1>3 DEF ParentNames, MissingParents

\* The closest parent of a name, and of a parent of it.
LEMMA Fronts ==
  ASSUME NEW name \in Names
  PROVE  /\ Front(name) = <<>> <=> ~(Len(name) > 1)
         /\ Len(name) > 1 => Front(name) \in ParentNames(name) /\ Front(name) \in Names
         /\ \A p \in ParentNames(name) : Len(p) > 1 => Front(p) \in ParentNames(name)
<1>1. name \in Seq(Components) /\ Len(name) \in Nat \ {0}
  BY DEF Names
<1>2. Front(name) = SubSeq(name, 1, Len(name) - 1)
  BY DEF Front
<1>3. ASSUME Len(name) > 1 PROVE Front(name) \in ParentNames(name) /\ Front(name) \in Names
  <2>1. Len(name) - 1 \in 1..(Len(name) - 1)
    BY <1>1, <1>3
  <2> QED BY <1>2, <2>1, Beginning DEF ParentNames
<1>4. Front(name) = <<>> <=> ~(Len(name) > 1)
  <2>1. Len(name) > 1 => Front(name) # <<>>
    BY <1>3 DEF Names
  <2>2. Len(name) = 1 => Front(name) = <<>>
    BY <1>1, <1>2
  <2>3. Len(name) = 1 \/ Len(name) > 1
    <3> DEFINE L == Len(name)
    <3>1. L \in Nat /\ L # 0
      BY <1>1
    <3> HIDE DEF L
    <3>2. L = 1 \/ L > 1
      BY <3>1
    <3> QED BY <3>2 DEF L
  <2>4. CASE Len(name) = 1
    <3>1. ~(Len(name) > 1)
      BY <2>4
    <3> QED BY <2>2, <2>4, <3>1
  <2>5. CASE Len(name) > 1
    BY <2>1, <2>5
  <2> QED BY <2>3, <2>4, <2>5
<1>5. ASSUME NEW p \in ParentNames(name), Len(p) > 1 PROVE Front(p) \in ParentNames(name)
  <2>1. PICK i \in 1..(Len(name) - 1) : p = SubSeq(name, 1, i)
    BY DEF ParentNames
  <2>2. Len(p) = i /\ i \in 2..(Len(name) - 1) /\ i - 1 \in 1..(Len(name) - 1)
    BY <1>1, <1>5, <2>1, Beginning
  <2>3. Front(p) = SubSeq(p, 1, i - 1)
    BY <2>2 DEF Front
  <2>4. SubSeq(SubSeq(name, 1, i), 1, i - 1) = SubSeq(name, 1, i - 1)
    BY <1>1, <2>2
  <2> QED BY <2>1, <2>2, <2>3, <2>4 DEF ParentNames
<1> QED BY <1>3, <1>4, <1>5

\* Decks with a name stay when others are added.
LEMMA NamedStays ==
  ASSUME NEW k, NEW j, Adds(k, j), NEW n
  PROVE  Named(k, n) \subseteq Named(j, n)
BY DEF Adds, Named

LEMMA AddParentSound ==
  ASSUME NEW k \in Sound, NEW name \in Names, NEW j \in Sound, ParentsAdded(k, name, j),
         NEW p \in ParentNames(name)
  PROVE  LET a == AddParent(j, p) IN
         /\ a \in Sound /\ ParentsAdded(k, name, a) /\ Adds(j, a)
         /\ a.failed \/ Named(a, p) # {}
<1>0. p \in Names /\ Len(p) < Len(name) /\ Len(name) \in Nat /\ Len(p) \in Nat
  BY ParentsOfNames DEF Names
<1>1. CASE Named(j, p) # {}
  BY <1>1, AddsSteps DEF AddParent
<1>2. CASE Named(j, p) = {}
  <2> DEFINE a == AddRow(j, p, "normal")
  <2>1. /\ a \in Sound /\ Adds(j, a)
        /\ \A m : (Named(j, m) = {} /\ ~Same(p, m)) => Named(a, m) = {}
        /\ a.failed \/ Named(a, p) # {}
        /\ \A d \in DOMAIN a.decks \ DOMAIN j.decks :
             a.decks[d].name = p /\ a.decks[d].kind = "normal"
    BY <1>0, <1>2, AddRowSound DEF Kinds
  <2>2. AddParent(j, p) = a
    BY <1>2 DEF AddParent
  <2> HIDE DEF a
  <2>3. ASSUME NEW m \in Names, Named(k, m) = {}, Len(m) >= Len(name)
        PROVE  Named(a, m) = {}
    <3>1. Named(j, m) = {}
      BY <2>3 DEF ParentsAdded
    <3>2. ~Same(p, m)
      <4>1. ASSUME Same(p, m) PROVE Len(p) = Len(m)
        BY <1>0, <4>1, SameParts
      <4> QED BY <1>0, <2>3, <4>1
    <3> QED BY <2>1, <3>1, <3>2
  <2>4. Adds(k, j) /\ Adds(k, a)
    BY <2>1, AddsSteps DEF ParentsAdded
  <2>5. ASSUME NEW d \in DOMAIN a.decks \ DOMAIN k.decks
        PROVE  a.decks[d].name \in ParentNames(name) /\ a.decks[d].kind = "normal"
    <3>1. CASE d \in DOMAIN j.decks
      <4>1. a.decks[d] = j.decks[d]
        BY <2>1, <3>1 DEF Adds
      <4> QED BY <2>5, <3>1, <4>1 DEF ParentsAdded
    <3>2. CASE d \notin DOMAIN j.decks
      BY <2>1, <2>5, <3>2
    <3> QED BY <3>1, <3>2
  <2> QED BY <2>1, <2>2, <2>3, <2>4, <2>5 DEF ParentsAdded
<1> QED BY <1>1, <1>2

LEMMA CreateMissingParentsTurns ==
  ASSUME NEW k \in Sound, NEW name \in Names
  PROVE  \E f : /\ f[{}] = k /\ f[1..(Len(name) - 1)] = CreateMissingParents(k, name)
               /\ \A s \in SUBSET (1..(Len(name) - 1)) : s # {} =>
                    f[s] = AddParent(f[s \ {Max(s)}], MissingParents(name)[Max(s)])
<1> DEFINE n == Len(name) - 1
           seq == MissingParents(name)
           T == ParentNames(name)
           X == {j \in Sound : ParentsAdded(k, name, j)}
           G == [p \in X \X T |-> AddParent(p[1], p[2])]
           Solves(f) == f = [s \in SUBSET (1..n) |->
                               IF s = {} THEN k ELSE AddParent(f[s \ {Max(s)}], seq[Max(s)])]
<1>1. n \in Nat
  BY DEF Names
<1>2. seq \in [1..n -> T]
  BY ParentsOfNames
<1>3. k \in X
  BY AddsSteps DEF ParentsAdded
<1>4. ASSUME NEW j \in X, NEW p \in T PROVE AddParent(j, p) \in X
  BY AddParentSound
<1>5. CreateMissingParents(k, name) = (CHOOSE f : Solves(f))[1..n]
  <2> DEFINE step(acc, p) == IF Named(acc, p) # {} THEN acc ELSE AddRow(acc, p, "normal")
             places == [i \in 1..(Len(name) - 1) |-> SubSeq(name, 1, Len(name) - i)]
  <2>1. DOMAIN places = 1..n
    OBVIOUS
  <2>2. CreateMissingParents(k, name) = FoldLeft(step, k, places)
    BY Zenon DEF CreateMissingParents
  <2>3. FoldLeft(step, k, places)
          = (CHOOSE f : f = [s \in SUBSET (1..n) |->
                 IF s = {} THEN k ELSE step(f[s \ {Max(s)}], places[Max(s)])])[1..n]
    <3> HIDE DEF step, places
    <3> QED BY <2>1, Zenon DEF FoldLeft, MapThenFoldSet
  <2> QED BY <2>2, <2>3, Zenon DEF AddParent, MissingParents
<1> HIDE DEF seq, T, X, n
<1>6. \E f : Solves(f)
  <2>1. G \in [X \X T -> X]
    BY <1>4
  <2>2. PICK h : /\ LeftSolution(h, k, G, seq, n)
                 /\ \A s \in SUBSET (1..n) : h[s] \in X
    <3> HIDE DEF G
    <3> QED BY <1>1, <1>2, <1>3, <2>1, LeftFoldExists
  <2>3. ASSUME NEW s \in SUBSET (1..n), s # {}
        PROVE  G[<<h[s \ {Max(s)}], seq[Max(s)]>>] = AddParent(h[s \ {Max(s)}], seq[Max(s)])
    <3>1. h[s \ {Max(s)}] \in X /\ seq[Max(s)] \in T
      BY <1>1, <1>2, <2>2, <2>3, LastPlace
    <3> QED BY <3>1
  <2>4. Solves(h)
    <3> HIDE DEF G
    <3> QED BY <2>2, <2>3 DEF LeftSolution
  <2> QED BY <2>4
<1>7. PICK f : Solves(f) /\ f[1..n] = CreateMissingParents(k, name)
  <2> HIDE DEF Solves
  <2>1. Solves(CHOOSE f : Solves(f))
    BY <1>6
  <2> QED BY <1>5, <2>1
<1>8. f[{}] = k /\ \A s \in SUBSET (1..n) : s # {} => f[s] = AddParent(f[s \ {Max(s)}], seq[Max(s)])
  BY <1>7
<1> HIDE DEF Solves
<1> QED BY <1>7, <1>8 DEF n, seq

LEMMA CreateMissingParentsSound ==
  ASSUME NEW k \in Sound, NEW name \in Names
  PROVE  LET j == CreateMissingParents(k, name) IN
         /\ j \in Sound /\ ParentsAdded(k, name, j)
         /\ j.failed \/ \A p \in ParentNames(name) : Named(j, p) # {}
<1> DEFINE n == Len(name) - 1
           seq == MissingParents(name)
           X == {j \in Sound : ParentsAdded(k, name, j)}
           Y == {q \in X \X SUBSET (1..n) :
                   q[1].failed \/ \A i \in q[2] : Named(q[1], seq[i]) # {}}
<1>1. PICK f : /\ f[{}] = k /\ f[1..n] = CreateMissingParents(k, name)
               /\ \A s \in SUBSET (1..n) : s # {} =>
                    f[s] = AddParent(f[s \ {Max(s)}], seq[Max(s)])
  BY CreateMissingParentsTurns
<1>2. n \in Nat /\ seq \in [1..n -> ParentNames(name)]
  BY ParentsOfNames DEF Names
<1>3. <<f[{}], {}>> \in Y
  BY <1>1, AddsSteps DEF ParentsAdded
<1>4. ASSUME NEW s \in SUBSET (1..n), s # {}, <<f[s \ {Max(s)}], s \ {Max(s)}>> \in Y
      PROVE  <<f[s], s>> \in Y
  <2> DEFINE j == f[s \ {Max(s)}]
             p == seq[Max(s)]
             a == f[s]
  <2>1. /\ j \in Sound /\ ParentsAdded(k, name, j)
        /\ j.failed \/ \A i \in s \ {Max(s)} : Named(j, seq[i]) # {}
    BY <1>4
  <2>2. Max(s) \in s /\ p \in ParentNames(name)
    BY <1>2, <1>4, LastPlace
  <2>3. a = AddParent(j, p)
    BY <1>1, <1>4
  <2>4. /\ a \in Sound /\ ParentsAdded(k, name, a) /\ Adds(j, a)
        /\ a.failed \/ Named(a, p) # {}
    <3> HIDE DEF j, p, a, seq
    <3> QED BY <2>1, <2>2, <2>3, AddParentSound
  <2>5. a.failed \/ \A i \in s : Named(a, seq[i]) # {}
    <3>1. ASSUME ~a.failed, NEW i \in s PROVE Named(a, seq[i]) # {}
      <4>1. CASE i = Max(s)
        BY <2>4, <3>1, <4>1
      <4>2. CASE i # Max(s)
        <5>1. ~j.failed
          BY <2>4, <3>1 DEF Adds
        <5>2. Named(j, seq[i]) # {}
          BY <2>1, <4>2, <5>1
        <5> HIDE DEF j, a, seq
        <5> QED BY <2>4, <5>2, NamedStays
      <4> QED BY <4>1, <4>2
    <3> QED BY <3>1
  <2> QED BY <2>4, <2>5
<1>5. <<f[1..n], 1..n>> \in Y
  <2>1. \A s \in SUBSET (1..n) :
          (s # {} /\ <<f[s \ {Max(s)}], s \ {Max(s)}>> \in Y) => <<f[s], s>> \in Y
    BY <1>4
  <2> HIDE DEF Y, n
  <2> QED BY <1>2, <1>3, <2>1, LeftFoldGoes
<1>6. /\ f[1..n] \in Sound /\ ParentsAdded(k, name, f[1..n])
      /\ f[1..n].failed \/ \A i \in 1..n : Named(f[1..n], seq[i]) # {}
  BY <1>5
<1>7. \A p \in ParentNames(name) : \E i \in 1..n : p = seq[i]
  BY ParentsOfNames
<1> HIDE DEF n, seq
<1> QED BY <1>1, <1>6, <1>7

---------------------------------------------------------------------------
(* Decks in the order of their names, and numbers in theirs *)

Ordered(S, R) ==
  [i \in 1..Cardinality(S) |-> CHOOSE s \in S : Cardinality({r \in S : <<r, s>> \in R}) = i - 1]

\* A sequence of all elements of a set, each once.
Lists(seq, S) ==
  /\ \A s \in S : \E i \in 1..Cardinality(S) : seq[i] = s
  /\ \A i, j \in 1..Cardinality(S) : seq[i] = seq[j] => i = j

LEMMA OrderedPlaces ==
  ASSUME NEW S, IsFiniteSet(S), NEW R, TotalOrder(R, S)
  PROVE  /\ Cardinality(S) \in Nat /\ Ordered(S, R) \in [1..Cardinality(S) -> S]
         /\ Lists(Ordered(S, R), S)
<1> DEFINE n == Cardinality(S)
           count(s) == Cardinality({r \in S : <<r, s>> \in R})
           seq == [i \in 1..n |-> CHOOSE s \in S : count(s) = i - 1]
<1>1. n \in Nat
  BY FS_CardinalityType
<1>2. Ordered(S, R) = seq
  BY DEF Ordered
<1>3. ASSUME NEW i \in 1..n PROVE \E s \in S : count(s) = i - 1
  BY <1>3, EachPlaceTaken
<1>4. \A s \in S : count(s) \in 0..(n - 1)
  BY PlacesDiffer, Zenon
<1>5. \A s, t \in S : s # t => count(s) # count(t)
  BY PlacesDiffer, Zenon
<1> HIDE DEF count, n
<1>6. ASSUME NEW i \in 1..n PROVE seq[i] \in S /\ count(seq[i]) = i - 1
  BY <1>3, <1>6
<1>7. seq \in [1..n -> S]
  BY <1>6
<1>8. ASSUME NEW s \in S PROVE \E i \in 1..n : seq[i] = s
  <2> DEFINE i == count(s) + 1
  <2>1. i \in 1..n /\ i - 1 = count(s)
    BY <1>1, <1>4
  <2> HIDE DEF i, seq
  <2>2. seq[i] \in S /\ count(seq[i]) = count(s)
    BY <1>6, <2>1
  <2>3. seq[i] = s
    BY <1>5, <2>2
  <2> QED BY <2>1, <2>3
<1>9. ASSUME NEW i \in 1..n, NEW j \in 1..n, seq[i] = seq[j] PROVE i = j
  <2> HIDE DEF seq
  <2>1. i - 1 = j - 1
    BY <1>6, <1>9
  <2> QED BY <1>1, <2>1
<1> HIDE DEF seq
<1> QED BY <1>1, <1>2, <1>7, <1>8, <1>9 DEF Lists, n

ByName(k, S) == InOrder(S, LAMBDA d, e : NameLess(k.decks[d].name, k.decks[e].name))
ByNumber(S) == InOrder(S, <)

LEMMA DecksByName ==
  ASSUME NEW k \in Sound, NEW S \in SUBSET (DOMAIN k.decks)
  PROVE  /\ Cardinality(S) \in Nat /\ ByName(k, S) \in [1..Cardinality(S) -> S]
         /\ Lists(ByName(k, S), S)
<1> DEFINE less(d, e) == NameLess(k.decks[d].name, k.decks[e].name)
           R == {p \in S \X S : less(p[1], p[2])}
<1>1. IsFiniteSet(S) /\ \A d \in S : k.decks[d].name \in Names
  BY SoundParts, FS_Subset
<1>2. \A d, e \in S : <<d, e>> \in R <=> less(d, e)
  OBVIOUS
<1>3. TotalOrder(R, S)
  <2>1. \A s \in S : ~less(s, s)
    BY <1>1, NameOrder
  <2>2. ASSUME NEW s \in S, NEW t \in S, s # t PROVE less(s, t) \/ less(t, s)
    <3>1. k.decks[s].name # k.decks[t].name
      BY <2>2, SoundParts DEF NamesDiffer, Same
    <3> QED BY <1>1, <3>1, NameOrder
  <2>3. ASSUME NEW s \in S, NEW t \in S, NEW u \in S, less(s, t), less(t, u) PROVE less(s, u)
    BY <1>1, <2>3, NameOrder
  <2> HIDE DEF less, R
  <2> QED BY <1>2, <2>1, <2>2, <2>3 DEF TotalOrder
<1>4. ByName(k, S) = Ordered(S, R)
  <2>1. ASSUME NEW s \in S PROVE {r \in S : less(r, s)} = {r \in S : <<r, s>> \in R}
    BY <1>2
  <2>2. ByName(k, S) = [i \in 1..Cardinality(S) |->
                          CHOOSE s \in S : Cardinality({r \in S : less(r, s)}) = i - 1]
    BY DEF ByName, InOrder
  <2> HIDE DEF less, R
  <2>3. \A i : (CHOOSE s \in S : Cardinality({r \in S : less(r, s)}) = i - 1)
                 = (CHOOSE s \in S : Cardinality({r \in S : <<r, s>> \in R}) = i - 1)
    BY <2>1
  <2> QED BY <2>2, <2>3 DEF Ordered
<1> HIDE DEF R
<1> QED BY <1>1, <1>3, <1>4, OrderedPlaces

LEMMA NumbersInOrder ==
  ASSUME NEW S \in SUBSET Nat, IsFiniteSet(S)
  PROVE  /\ Cardinality(S) \in Nat /\ ByNumber(S) \in [1..Cardinality(S) -> S]
         /\ Lists(ByNumber(S), S)
<1> DEFINE R == {p \in S \X S : p[1] < p[2]}
<1>2. \A d, e \in S : <<d, e>> \in R <=> d < e
  OBVIOUS
<1>3. TotalOrder(R, S)
  <2> HIDE DEF R
  <2> QED BY <1>2 DEF TotalOrder
<1>4. ByNumber(S) = Ordered(S, R)
  <2>1. ASSUME NEW s \in S PROVE {r \in S : r < s} = {r \in S : <<r, s>> \in R}
    BY <1>2
  <2>2. ByNumber(S) = [i \in 1..Cardinality(S) |->
                          CHOOSE s \in S : Cardinality({r \in S : r < s}) = i - 1]
    BY Zenon DEF ByNumber, InOrder
  <2> HIDE DEF R
  <2>3. \A i : (CHOOSE s \in S : Cardinality({r \in S : r < s}) = i - 1)
                 = (CHOOSE s \in S : Cardinality({r \in S : <<r, s>> \in R}) = i - 1)
    BY <2>1
  <2> QED BY <2>2, <2>3 DEF Ordered
<1> HIDE DEF R
<1> QED BY <1>3, <1>4, OrderedPlaces

Moved(name, old, new) == new \o SubSeq(name, Len(old) + 1, Len(name))
RenameChild(acc, d, old, new) ==
  LET row == acc.decks[d] IN
  UpdateRow(acc, d, Modified(acc, [row EXCEPT !.name = Moved(@, old, new)]))

\* The decks of R have been moved from old to new, the others not.
Renamed(k, j, R, old, new) ==
  /\ Extends(k, j) /\ DOMAIN j.decks = DOMAIN k.decks
  /\ \A d \in DOMAIN k.decks : j.decks[d].kind = k.decks[d].kind
  /\ \/ j.failed
     \/ \A d \in DOMAIN k.decks :
          j.decks[d].name = IF d \in R THEN Moved(k.decks[d].name, old, new)
                            ELSE k.decks[d].name

LEMMA RenameChildSound ==
  ASSUME NEW k \in Sound, NEW d \in DOMAIN k.decks, NEW old \in Names, NEW new \in Names
  PROVE  /\ RenameChild(k, d, old, new) \in Sound
         /\ Renamed(k, RenameChild(k, d, old, new), {d}, old, new)
<1> DEFINE row == k.decks[d]
           name == Moved(row.name, old, new)
           moved == [row EXCEPT !.name = name]
           changed == Modified(k, moved)
           j == UpdateRow(k, d, changed)
<1>1. d \in Ids /\ row \in DeckRow /\ row.name \in Names
  BY SoundParts
<1>2. Len(old) \in Nat
  BY DEF Names
<1>3. name \in Names
  <2> HIDE DEF row
  <2> QED BY <1>1, <1>2, Spliced DEF Moved
<1>4. moved \in DeckRow /\ moved.name = name /\ moved.kind = row.kind
  <2> HIDE DEF row, name
  <2> QED BY <1>1, <1>3 DEF DeckRow
<1>5. changed \in DeckRow /\ changed.name = name /\ changed.kind = row.kind
  <2> HIDE DEF moved, row, name
  <2> QED BY <1>4, ModifiedRow
<1>6. RenameChild(k, d, old, new) = j
  BY DEF RenameChild
<1> HIDE DEF changed, name
<1>7. /\ j \in Sound
      /\ DOMAIN k.decks \subseteq DOMAIN j.decks
      /\ DOMAIN j.decks \subseteq DOMAIN k.decks \cup {d}
      /\ \/ j.failed /\ j.decks = k.decks
         \/ j.decks = [e \in DOMAIN k.decks \cup {d} |-> IF e = d THEN changed ELSE k.decks[e]]
  BY <1>1, <1>5, UpdateRowSound
<1>8. Extends(k, j)
  BY <1>5, UpdateRowExtends DEF IsFiltered
<1> HIDE DEF j
<1>9. \A e \in DOMAIN k.decks : j.decks[e].kind = k.decks[e].kind
  BY <1>5, <1>7
<1>10. j.failed \/ \A e \in DOMAIN k.decks :
         j.decks[e].name = IF e = d THEN name ELSE k.decks[e].name
  BY <1>5, <1>7
<1> QED BY <1>6, <1>7, <1>8, <1>9, <1>10 DEF Renamed, name

LEMMA RenamedSteps ==
  ASSUME NEW k, NEW j, NEW l, NEW R, NEW d \in DOMAIN k.decks, NEW old, NEW new
  PROVE  /\ Renamed(k, k, {}, old, new)
         /\ (d \notin R /\ Renamed(k, j, R, old, new) /\ Renamed(j, l, {d}, old, new))
              => Renamed(k, l, R \cup {d}, old, new)
<1>1. Renamed(k, k, {}, old, new)
  BY ExtendsSteps DEF Renamed
<1>2. ASSUME d \notin R, Renamed(k, j, R, old, new), Renamed(j, l, {d}, old, new)
      PROVE  Renamed(k, l, R \cup {d}, old, new)
  <2>1. Extends(k, l) /\ DOMAIN l.decks = DOMAIN k.decks
    BY <1>2, ExtendsSteps DEF Renamed
  <2>2. \A e \in DOMAIN k.decks : l.decks[e].kind = k.decks[e].kind
    BY <1>2 DEF Renamed
  <2>3. ASSUME ~l.failed, NEW e \in DOMAIN k.decks
        PROVE  l.decks[e].name = IF e \in R \cup {d} THEN Moved(k.decks[e].name, old, new)
                                 ELSE k.decks[e].name
    <3>1. ~j.failed
      BY <1>2, <2>3 DEF Renamed, Extends
    <3>2. j.decks[e].name = IF e \in R THEN Moved(k.decks[e].name, old, new)
                            ELSE k.decks[e].name
      BY <1>2, <3>1 DEF Renamed
    <3>3. l.decks[e].name = IF e = d THEN Moved(j.decks[e].name, old, new)
                            ELSE j.decks[e].name
      BY <1>2, <2>3 DEF Renamed
    <3> QED BY <1>2, <3>2, <3>3
  <2> QED BY <2>1, <2>2, <2>3 DEF Renamed
<1> QED BY <1>1, <1>2

\* The decks below a name.
Descendants(k, name) == {d \in DOMAIN k.decks : Below(k.decks[d].name, name)}

LEMMA ChildDecksListed ==
  ASSUME NEW k \in Sound, NEW name
  PROVE  LET S == Descendants(k, name) IN
         /\ Cardinality(S) \in Nat /\ ChildDecks(k, name) \in [1..Cardinality(S) -> S]
         /\ Lists(ChildDecks(k, name), S)
<1> DEFINE S == Descendants(k, name)
<1>1. ChildDecks(k, name) = ByName(k, S)
  BY Zenon DEF ChildDecks, ByName, Descendants
<1>2. S \in SUBSET (DOMAIN k.decks)
  BY DEF Descendants
<1> HIDE DEF S
<1>3. /\ Cardinality(S) \in Nat /\ ByName(k, S) \in [1..Cardinality(S) -> S]
      /\ Lists(ByName(k, S), S)
  BY <1>2, DecksByName
<1> QED BY <1>1, <1>3 DEF S

LEMMA RenameChildDecksTurns ==
  ASSUME NEW k \in Sound, NEW old \in Names, NEW new \in Names
  PROVE  LET n == Cardinality(Descendants(k, old)) IN
         \E f : /\ f[{}] = k /\ f[1..n] = RenameChildDecks(k, old, new)
               /\ \A s \in SUBSET (1..n) : s # {} =>
                    f[s] = RenameChild(f[s \ {Max(s)}], ChildDecks(k, old)[Max(s)], old, new)
<1> DEFINE n == Cardinality(Descendants(k, old))
           seq == ChildDecks(k, old)
           T == DOMAIN k.decks
           X == {j \in Sound : DOMAIN j.decks = T}
           turn(j, d) == RenameChild(j, d, old, new)
           G == [p \in X \X T |-> turn(p[1], p[2])]
           Solves(f) == f = [s \in SUBSET (1..n) |->
                               IF s = {} THEN k ELSE turn(f[s \ {Max(s)}], seq[Max(s)])]
<1>1. n \in Nat
  BY ChildDecksListed
<1>2. seq \in [1..n -> T]
  <2>1. seq \in [1..n -> Descendants(k, old)] /\ Descendants(k, old) \subseteq T
    BY ChildDecksListed DEF Descendants
  <2> HIDE DEF seq, n, T
  <2> QED BY <2>1
<1>3. k \in X
  OBVIOUS
<1>4. ASSUME NEW j \in X, NEW d \in T PROVE turn(j, d) \in X
  BY RenameChildSound DEF Renamed
<1>5. RenameChildDecks(k, old, new) = (CHOOSE f : Solves(f))[1..n]
  <2> DEFINE step(acc, d) ==
             LET row == acc.decks[d] IN
             UpdateRow(acc, d, Modified(acc, [row EXCEPT !.name =
               new \o SubSeq(@, Len(old) + 1, Len(@))]))
  <2>1. DOMAIN seq = 1..n
    BY <1>2
  <2>2. RenameChildDecks(k, old, new) = FoldLeft(step, k, seq)
    BY Zenon DEF RenameChildDecks
  <2>3. FoldLeft(step, k, seq)
          = (CHOOSE f : f = [s \in SUBSET (1..n) |->
                 IF s = {} THEN k ELSE step(f[s \ {Max(s)}], seq[Max(s)])])[1..n]
    <3> HIDE DEF step, seq
    <3> QED BY <2>1, Zenon DEF FoldLeft, MapThenFoldSet
  <2> HIDE DEF seq, n
  <2> QED BY <2>2, <2>3, Zenon DEF RenameChild, Moved
<1> HIDE DEF seq, T, X, n, turn
<1>6. \E f : Solves(f)
  <2>1. G \in [X \X T -> X]
    BY <1>4
  <2>2. PICK h : /\ LeftSolution(h, k, G, seq, n)
                 /\ \A s \in SUBSET (1..n) : h[s] \in X
    <3> HIDE DEF G
    <3> QED BY <1>1, <1>2, <1>3, <2>1, LeftFoldExists
  <2>3. ASSUME NEW s \in SUBSET (1..n), s # {}
        PROVE  G[<<h[s \ {Max(s)}], seq[Max(s)]>>] = turn(h[s \ {Max(s)}], seq[Max(s)])
    <3>1. h[s \ {Max(s)}] \in X /\ seq[Max(s)] \in T
      BY <1>1, <1>2, <2>2, <2>3, LastPlace
    <3> QED BY <3>1
  <2>4. Solves(h)
    <3> HIDE DEF G
    <3> QED BY <2>2, <2>3 DEF LeftSolution
  <2> QED BY <2>4
<1>7. PICK f : Solves(f) /\ f[1..n] = RenameChildDecks(k, old, new)
  <2> HIDE DEF Solves
  <2>1. Solves(CHOOSE f : Solves(f))
    BY <1>6
  <2> QED BY <1>5, <2>1
<1>8. f[{}] = k /\ \A s \in SUBSET (1..n) : s # {} => f[s] = turn(f[s \ {Max(s)}], seq[Max(s)])
  BY <1>7
<1> HIDE DEF Solves
<1> QED BY <1>7, <1>8 DEF n, seq, turn

\* What comes below a deck that is renamed is renamed with it, and nothing else.
LEMMA RenameChildDecksSound ==
  ASSUME NEW k \in Sound, NEW old \in Names, NEW new \in Names
  PROVE  /\ RenameChildDecks(k, old, new) \in Sound
         /\ Renamed(k, RenameChildDecks(k, old, new), Descendants(k, old), old, new)
<1> DEFINE S == Descendants(k, old)
           n == Cardinality(S)
           seq == ChildDecks(k, old)
           Passed(s) == {seq[i] : i \in s}
           Y == {q \in Sound \X SUBSET (1..n) : Renamed(k, q[1], Passed(q[2]), old, new)}
<1>1. PICK f : /\ f[{}] = k /\ f[1..n] = RenameChildDecks(k, old, new)
               /\ \A s \in SUBSET (1..n) : s # {} =>
                    f[s] = RenameChild(f[s \ {Max(s)}], seq[Max(s)], old, new)
  BY RenameChildDecksTurns
<1>2. /\ n \in Nat /\ seq \in [1..n -> S] /\ Lists(seq, S) /\ S \subseteq DOMAIN k.decks
  BY ChildDecksListed DEF Descendants
<1> HIDE DEF seq, S
<1>3. <<f[{}], {}>> \in Y
  <2>1. Passed({}) = {}
    OBVIOUS
  <2>2. Renamed(k, k, {}, old, new)
    BY ExtendsSteps DEF Renamed
  <2> HIDE DEF Passed
  <2> QED BY <1>1, <2>1, <2>2
<1>4. ASSUME NEW s \in SUBSET (1..n), s # {}, <<f[s \ {Max(s)}], s \ {Max(s)}>> \in Y
      PROVE  <<f[s], s>> \in Y
  <2> DEFINE j == f[s \ {Max(s)}]
             d == seq[Max(s)]
             l == RenameChild(j, d, old, new)
             before == Passed(s \ {Max(s)})
  <2>1. j \in Sound /\ Renamed(k, j, before, old, new)
    BY <1>4
  <2>2. Max(s) \in s /\ d \in S /\ d \in DOMAIN k.decks
    BY <1>2, <1>4, LastPlace
  <2>3. f[s] = l
    BY <1>1, <1>4
  <2>4. d \notin before /\ Passed(s) = before \cup {d}
    BY <1>2, <2>2 DEF Lists
  <2>5. d \in DOMAIN j.decks
    BY <2>1, <2>2 DEF Renamed
  <2>6. l \in Sound /\ Renamed(j, l, {d}, old, new)
    <3> HIDE DEF j, d
    <3> QED BY <2>1, <2>5, RenameChildSound
  <2>7. Renamed(k, l, before \cup {d}, old, new)
    <3> HIDE DEF j, d, l, before
    <3> QED BY <2>1, <2>2, <2>4, <2>6, RenamedSteps
  <2> HIDE DEF j, d, l, before, Passed
  <2> QED BY <2>3, <2>4, <2>6, <2>7
<1>5. <<f[1..n], 1..n>> \in Y
  <2>1. \A s \in SUBSET (1..n) :
          (s # {} /\ <<f[s \ {Max(s)}], s \ {Max(s)}>> \in Y) => <<f[s], s>> \in Y
    BY <1>4
  <2> HIDE DEF Y, n
  <2> QED BY <1>2, <1>3, <2>1, LeftFoldGoes
<1>6. f[1..n] \in Sound /\ Renamed(k, f[1..n], Passed(1..n), old, new)
  BY <1>5
<1>7. Passed(1..n) = S
  BY <1>2 DEF Lists
<1> HIDE DEF Passed, n
<1> QED BY <1>1, <1>6, <1>7 DEF S

---------------------------------------------------------------------------
(* Adding, renaming and moving decks *)

LEMMA SameLength ==
  ASSUME NEW m \in Names, NEW n \in Names, Same(m, n)
  PROVE  Len(m) = Len(n)
BY SameParts

LEMMA MatchOrCreateParentsSound ==
  ASSUME NEW k \in Sound, NEW name \in Names
  PROVE  LET m == MatchedName(k, name)
             j == MatchOrCreateParents(k, name) IN
         /\ j \in Sound /\ ParentsAdded(k, m, j)
         /\ \/ j.failed
            \/ /\ \A d \in FirstExistingParent(k, name) : ~IsFiltered(k, d)
               /\ \A p \in ParentNames(m) : Named(j, p) # {}
<1> DEFINE m == MatchedName(k, name)
<1>1. m \in Names
  BY MatchedNameSame
<1>2. CASE \E d \in FirstExistingParent(k, name) : IsFiltered(k, d)
  <2>1. MatchOrCreateParents(k, name) = Fail(k)
    BY <1>2 DEF MatchOrCreateParents
  <2>2. /\ Fail(k) \in Sound /\ Fail(k).decks = k.decks /\ Fail(k).failed
        /\ Adds(k, Fail(k))
    BY FailSound
  <2> QED BY <2>1, <2>2 DEF ParentsAdded, Named
<1>3. CASE ~\E d \in FirstExistingParent(k, name) : IsFiltered(k, d)
  <2>1. MatchOrCreateParents(k, name) = CreateMissingParents(k, m)
    BY <1>3 DEF MatchOrCreateParents
  <2> HIDE DEF m
  <2>2. /\ CreateMissingParents(k, m) \in Sound
        /\ ParentsAdded(k, m, CreateMissingParents(k, m))
        /\ \/ CreateMissingParents(k, m).failed
           \/ \A p \in ParentNames(m) : Named(CreateMissingParents(k, m), p) # {}
    BY <1>1, CreateMissingParentsSound
  <2> QED BY <1>3, <2>1, <2>2 DEF m
<1> QED BY <1>2, <1>3

\* A deck is added under a name that no deck has, with the parents it lacks.
DeckAdded(k, j, name, kind) ==
  /\ Adds(k, j)
  /\ \/ j.failed
     \/ Named(j, name) # {} /\ \A p \in ParentNames(name) : Named(j, p) # {}
  /\ \A d \in DOMAIN j.decks \ DOMAIN k.decks :
       \/ j.decks[d].name = name /\ j.decks[d].kind = kind
       \/ j.decks[d].name \in ParentNames(name) /\ j.decks[d].kind = "normal"

LEMMA AddDeckSound ==
  ASSUME NEW k \in Sound, NEW name \in Names, NEW kind \in Kinds
  PROVE  LET j == AddDeck(k, name, kind)
             unique == UniqueName(k, 0, name) IN
         /\ unique \in Names /\ Named(k, unique) = {}
         /\ j \in Sound /\ DeckAdded(k, j, MatchedName(k, unique), kind)
         /\ j.failed \/ \A d \in FirstExistingParent(k, unique) : ~IsFiltered(k, d)
<1> DEFINE unique == UniqueName(k, 0, name)
           parented == MatchOrCreateParents(k, unique)
           m == MatchedName(k, unique)
           j == AddRow(parented, m, kind)
<1>1. unique \in Names /\ Named(k, unique) = {}
  <2>1. unique \in Names /\ Named(k, unique) \subseteq {0}
    BY UniqueNameFree
  <2>2. 0 \notin Named(k, unique)
    BY SoundParts DEF Named, Ids
  <2> QED BY <2>1, <2>2
<1>2. AddDeck(k, name, kind) = j
  BY DEF AddDeck
<1> HIDE DEF unique
<1>3. m \in Names /\ Same(m, unique)
  BY <1>1, MatchedNameSame
<1>4. /\ parented \in Sound /\ ParentsAdded(k, m, parented)
      /\ \/ parented.failed
         \/ /\ \A d \in FirstExistingParent(k, unique) : ~IsFiltered(k, d)
            /\ \A p \in ParentNames(m) : Named(parented, p) # {}
  BY <1>1, MatchOrCreateParentsSound
<1>5. Named(k, m) = {}
  BY <1>1, <1>3 DEF Named, Same
<1>6. Named(parented, m) = {}
  <2>1. Len(m) >= Len(m)
    BY <1>3 DEF Names
  <2> HIDE DEF m, parented
  <2> QED BY <1>3, <1>4, <1>5, <2>1 DEF ParentsAdded
<1> HIDE DEF m, parented
<1>7. /\ j \in Sound /\ Adds(parented, j)
      /\ j.failed \/ Named(j, m) # {}
      /\ \A d \in DOMAIN j.decks \ DOMAIN parented.decks :
           j.decks[d].name = m /\ j.decks[d].kind = kind
  BY <1>3, <1>4, <1>6, AddRowSound
<1> HIDE DEF j
<1>8. parented.failed => j.failed
  BY <1>7 DEF Adds
<1>9. Adds(k, j)
  BY <1>4, <1>7, AddsSteps DEF ParentsAdded
<1>10. ASSUME ~j.failed, NEW p \in ParentNames(m) PROVE Named(j, p) # {}
  BY <1>4, <1>7, <1>8, <1>10, NamedStays
<1>11. ASSUME NEW d \in DOMAIN j.decks \ DOMAIN k.decks
       PROVE  \/ j.decks[d].name = m /\ j.decks[d].kind = kind
              \/ j.decks[d].name \in ParentNames(m) /\ j.decks[d].kind = "normal"
  <2>1. CASE d \in DOMAIN parented.decks
    <3>1. j.decks[d] = parented.decks[d]
      BY <1>7, <2>1 DEF Adds
    <3> QED BY <1>4, <1>11, <2>1, <3>1 DEF ParentsAdded
  <2>2. CASE d \notin DOMAIN parented.decks
    BY <1>7, <1>11, <2>2
  <2> QED BY <2>1, <2>2
<1>12. DeckAdded(k, j, m, kind)
  BY <1>7, <1>9, <1>10, <1>11 DEF DeckAdded
<1>13. j.failed \/ \A d \in FirstExistingParent(k, unique) : ~IsFiltered(k, d)
  BY <1>4, <1>8
<1> QED BY <1>1, <1>2, <1>7, <1>12, <1>13 DEF m, unique

\* A deck whose name or kind changes leaves the decks sound, and takes none away.
LEMMA UpdateDeckSound ==
  ASSUME NEW k \in Sound, NEW d \in DOMAIN k.decks, NEW name \in Names, NEW kind \in Kinds
  PROVE  LET j == UpdateDeck(k, d, name, kind) IN
         /\ j \in Sound
         /\ ((kind # "normal") <=> IsFiltered(k, d)) => Extends(k, j)
<1> DEFINE original == k.decks[d]
           unique == UniqueName(k, d, name)
           renamed == unique # original.name
           final == IF renamed THEN MatchedName(k, unique) ELSE unique
           parented == MatchOrCreateParents(k, unique)
           moved == RenameChildDecks(parented, original.name, final)
           children == IF ~renamed THEN k ELSE moved
           row == [original EXCEPT !.name = final, !.kind = kind]
           changed == Modified(k, row)
           updated == UpdateRow(children, d, changed)
           created == CreateMissingParents(updated, final)
           same == (kind # "normal") <=> IsFiltered(k, d)
<1>1. d \in Ids /\ original \in DeckRow /\ original.name \in Names
  BY SoundParts
<1>2. unique \in Names
  BY UniqueNameFree
<1>3. UpdateDeck(k, d, name, kind)
        = IF ~renamed /\ kind = original.kind THEN k
          ELSE IF renamed THEN created ELSE updated
  BY DEF UpdateDeck
<1> HIDE DEF unique, original
<1>4. final \in Names
  BY <1>2, MatchedNameSame
<1>5. parented \in Sound /\ Extends(k, parented)
  BY <1>2, MatchOrCreateParentsSound, AddsSteps DEF ParentsAdded
<1> HIDE DEF final, parented
<1>6. moved \in Sound /\ Extends(parented, moved)
  BY <1>1, <1>4, <1>5, RenameChildDecksSound DEF Renamed
<1> HIDE DEF moved
<1>7. children \in Sound /\ Extends(k, children)
  BY <1>5, <1>6, ExtendsSteps
<1> HIDE DEF children
<1>8. row \in DeckRow /\ row.kind = kind
  BY <1>1, <1>4 DEF DeckRow
<1> HIDE DEF row
<1>9. changed \in DeckRow /\ changed.kind = kind
  BY <1>8, ModifiedRow
<1> HIDE DEF changed
<1>10. updated \in Sound
  BY <1>1, <1>7, <1>9, UpdateRowSound
<1>11. same => Extends(k, updated)
  <2>1. d \in DOMAIN children.decks /\ (IsFiltered(children, d) <=> IsFiltered(k, d))
    BY <1>7 DEF Extends
  <2>2. same => Extends(children, updated)
    BY <1>7, <1>9, <2>1, UpdateRowExtends
  <2> HIDE DEF updated, same
  <2> QED BY <1>7, <2>2, ExtendsSteps
<1> HIDE DEF updated
<1>12. created \in Sound /\ Extends(updated, created)
  BY <1>4, <1>10, CreateMissingParentsSound, AddsSteps DEF ParentsAdded
<1> HIDE DEF renamed, created
<1>13. same => Extends(k, created)
  <2> HIDE DEF same
  <2> QED BY <1>11, <1>12, ExtendsSteps
<1> QED BY <1>3, <1>10, <1>11, <1>12, <1>13, ExtendsSteps

LEMMA ReparentedNames ==
  ASSUME NEW name \in Names, NEW target \in Names \cup {<<>>}
  PROVE  ReparentedName(name, target) \in Names
<1>1. target \in Seq(Components)
  <2>1. <<>> \in Seq(Components)
    OBVIOUS
  <2> QED BY <2>1 DEF Names
<1>2. Last(name) \in Components
  <2>1. name \in Seq(Components) /\ Len(name) \in 1..Len(name)
    BY DEF Names
  <2> QED BY <2>1 DEF Last
<1>3. Append(target, Last(name)) \in Names
  <2> DEFINE c == Last(name)
  <2> HIDE DEF c
  <2>1. c \in Components
    BY <1>2 DEF c
  <2>2. Append(target, c) \in Seq(Components) /\ Append(target, c) # <<>>
    BY <1>1, <2>1
  <2> QED BY <2>2 DEF Names, c
<1> QED BY <1>3 DEF ReparentedName

\* A deck is dropped on target, with what is below it.
DropDeck(acc, d, target) ==
  LET row == acc.decks[d]
      new == ReparentedName(row.name, target)
      unique == UniqueName(acc, d, new)
  IN  IF d \notin DOMAIN acc.decks \/ new = row.name THEN acc
      ELSE UpdateRow(RenameChildDecks(acc, row.name, unique), d,
                     Modified(acc, [row EXCEPT !.name = unique]))

LEMMA DropDeckSound ==
  ASSUME NEW j \in Sound, NEW d \in Ids, NEW target \in Names \cup {<<>>}
  PROVE  DropDeck(j, d, target) \in Sound /\ Extends(j, DropDeck(j, d, target))
<1> DEFINE row == j.decks[d]
           new == ReparentedName(row.name, target)
           unique == UniqueName(j, d, new)
           moved == RenameChildDecks(j, row.name, unique)
           placed == [row EXCEPT !.name = unique]
           changed == Modified(j, placed)
           l == DropDeck(j, d, target)
<1>1. CASE d \notin DOMAIN j.decks \/ new = row.name
  <2>1. l = j
    BY <1>1 DEF DropDeck
  <2> HIDE DEF l
  <2> QED BY <2>1, ExtendsSteps DEF l
<1>2. CASE ~(d \notin DOMAIN j.decks \/ new = row.name)
  <2>1. l = UpdateRow(moved, d, changed)
    BY <1>2 DEF DropDeck
  <2> HIDE DEF l
  <2>2. d \in DOMAIN j.decks /\ row \in DeckRow /\ row.name \in Names
    BY <1>2, SoundParts
  <2>3. row.kind # "normal" <=> IsFiltered(j, d)
    BY DEF IsFiltered
  <2> HIDE DEF row
  <2>4. new \in Names
    BY <2>2, ReparentedNames
  <2> HIDE DEF new
  <2>5. unique \in Names
    BY <2>4, UniqueNameFree
  <2> HIDE DEF unique
  <2>6. moved \in Sound /\ Extends(j, moved)
    BY <2>2, <2>5, RenameChildDecksSound DEF Renamed
  <2> HIDE DEF moved
  <2>7. placed \in DeckRow /\ placed.kind = row.kind
    BY <2>2, <2>5 DEF DeckRow
  <2> HIDE DEF placed
  <2>8. changed \in DeckRow /\ changed.kind = row.kind
    BY <2>7, ModifiedRow
  <2> HIDE DEF changed
  <2>9. d \in DOMAIN moved.decks /\ (changed.kind # "normal" <=> IsFiltered(moved, d))
    BY <2>2, <2>3, <2>6, <2>8 DEF Extends
  <2>10. UpdateRow(moved, d, changed) \in Sound /\ Extends(moved, UpdateRow(moved, d, changed))
    BY <2>6, <2>8, <2>9, UpdateRowSound, UpdateRowExtends
  <2>11. l \in Sound /\ Extends(j, l)
    <3> HIDE DEF moved, changed
    <3> QED BY <2>1, <2>6, <2>10, ExtendsSteps
  <2> QED BY <2>11 DEF l
<1> QED BY <1>1, <1>2

LEMMA ReparentDecksTurns ==
  ASSUME NEW k \in Sound, NEW ids \in Seq(Ids), NEW target \in Names \cup {<<>>}
  PROVE  \E f : /\ f[{}] = k /\ f[1..Len(ids)] = ReparentDecks(k, ids, target)
               /\ \A s \in SUBSET (1..Len(ids)) : s # {} =>
                    f[s] = DropDeck(f[s \ {Max(s)}], ids[Max(s)], target)
<1> DEFINE n == Len(ids)
           seq == ids
           T == Ids
           X == Sound
           turn(j, d) == DropDeck(j, d, target)
           G == [p \in X \X T |-> turn(p[1], p[2])]
           Solves(f) == f = [s \in SUBSET (1..n) |->
                               IF s = {} THEN k ELSE turn(f[s \ {Max(s)}], seq[Max(s)])]
<1>1. n \in Nat
  OBVIOUS
<1>2. seq \in [1..n -> T]
  OBVIOUS
<1>3. k \in X
  OBVIOUS
<1>4. ASSUME NEW j \in X, NEW d \in T PROVE turn(j, d) \in X
  BY DropDeckSound
<1>5. ReparentDecks(k, ids, target) = (CHOOSE f : Solves(f))[1..n]
  <2> DEFINE step(acc, d) ==
             LET row == acc.decks[d]
                 new == ReparentedName(row.name, target)
                 unique == UniqueName(acc, d, new)
             IN  IF d \notin DOMAIN acc.decks \/ new = row.name THEN acc
                 ELSE UpdateRow(RenameChildDecks(acc, row.name, unique), d,
                                Modified(acc, [row EXCEPT !.name = unique]))
  <2>1. DOMAIN seq = 1..n
    BY <1>2
  <2>2. ReparentDecks(k, ids, target) = FoldLeft(step, k, seq)
    BY Zenon DEF ReparentDecks
  <2>3. FoldLeft(step, k, seq)
          = (CHOOSE f : f = [s \in SUBSET (1..n) |->
                 IF s = {} THEN k ELSE step(f[s \ {Max(s)}], seq[Max(s)])])[1..n]
    <3> HIDE DEF step, seq
    <3> QED BY <2>1, Zenon DEF FoldLeft, MapThenFoldSet
  <2> HIDE DEF seq, n
  <2> QED BY <2>2, <2>3, Zenon DEF DropDeck
<1> HIDE DEF seq, T, X, n, turn
<1>6. \E f : Solves(f)
  <2>1. G \in [X \X T -> X]
    BY <1>4
  <2>2. PICK h : /\ LeftSolution(h, k, G, seq, n)
                 /\ \A s \in SUBSET (1..n) : h[s] \in X
    <3> HIDE DEF G
    <3> QED BY <1>1, <1>2, <1>3, <2>1, LeftFoldExists
  <2>3. ASSUME NEW s \in SUBSET (1..n), s # {}
        PROVE  G[<<h[s \ {Max(s)}], seq[Max(s)]>>] = turn(h[s \ {Max(s)}], seq[Max(s)])
    <3>1. h[s \ {Max(s)}] \in X /\ seq[Max(s)] \in T
      BY <1>1, <1>2, <2>2, <2>3, LastPlace
    <3> QED BY <3>1
  <2>4. Solves(h)
    <3> HIDE DEF G
    <3> QED BY <2>2, <2>3 DEF LeftSolution
  <2> QED BY <2>4
<1>7. PICK f : Solves(f) /\ f[1..n] = ReparentDecks(k, ids, target)
  <2> HIDE DEF Solves
  <2>1. Solves(CHOOSE f : Solves(f))
    BY <1>6
  <2> QED BY <1>5, <2>1
<1>8. f[{}] = k /\ \A s \in SUBSET (1..n) : s # {} => f[s] = turn(f[s \ {Max(s)}], seq[Max(s)])
  BY <1>7
<1> HIDE DEF Solves
<1> QED BY <1>7, <1>8 DEF n, seq, turn

\* Decks that are dropped on another one.
LEMMA ReparentDecksSound ==
  ASSUME NEW k \in Sound, NEW ids \in Seq(Ids), NEW target \in Names \cup {<<>>}
  PROVE  /\ ReparentDecks(k, ids, target) \in Sound
         /\ Extends(k, ReparentDecks(k, ids, target))
<1> DEFINE n == Len(ids)
           X == {j \in Sound : Extends(k, j)}
<1>1. PICK f : /\ f[{}] = k /\ f[1..n] = ReparentDecks(k, ids, target)
               /\ \A s \in SUBSET (1..n) : s # {} =>
                    f[s] = DropDeck(f[s \ {Max(s)}], ids[Max(s)], target)
  BY ReparentDecksTurns
<1>2. n \in Nat /\ ids \in [1..n -> Ids]
  OBVIOUS
<1> HIDE DEF n
<1>3. f[{}] \in X
  BY <1>1, ExtendsSteps
<1>4. ASSUME NEW s \in SUBSET (1..n), s # {}, f[s \ {Max(s)}] \in X PROVE f[s] \in X
  <2> DEFINE j == f[s \ {Max(s)}]
             d == ids[Max(s)]
             l == DropDeck(j, d, target)
  <2>1. d \in Ids /\ j \in Sound /\ Extends(k, j) /\ f[s] = l
    BY <1>1, <1>2, <1>4, LastPlace
  <2> HIDE DEF d, j
  <2>2. l \in Sound /\ Extends(j, l)
    BY <2>1, DropDeckSound
  <2> HIDE DEF l
  <2> QED BY <2>1, <2>2, ExtendsSteps
<1>5. f[1..n] \in X
  <2> HIDE DEF X
  <2> QED BY <1>2, <1>3, <1>4, LeftFoldKeeps
<1> QED BY <1>1, <1>5

---------------------------------------------------------------------------
(* The tree of decks *)

\* A parent is a name that another one begins with.
LEMMA Parents ==
  ASSUME NEW name \in Names, NEW p
  PROVE  p \in ParentNames(name)
           <=> p \in Names /\ Len(p) < Len(name) /\ Agree(p, name, Len(p))
<1>1. name \in Seq(Components) /\ Len(name) \in Nat
  BY DEF Names
<1>2. ASSUME NEW i \in 1..(Len(name) - 1), p = SubSeq(name, 1, i)
      PROVE  p \in Names /\ Len(p) < Len(name) /\ Agree(p, name, Len(p))
  <2>1. p \in Names /\ Len(p) = i
    BY <1>2, Beginning
  <2>2. \A l \in 1..i : SubSeq(name, 1, i)[l] = name[l]
    BY <1>1
  <2> QED BY <1>1, <1>2, <2>1, <2>2 DEF Agree
<1>3. ASSUME p \in Names, Len(p) < Len(name), Agree(p, name, Len(p))
      PROVE  p \in ParentNames(name)
  <2>1. p \in Seq(Components) /\ Len(p) \in Nat /\ p # <<>>
    BY <1>3 DEF Names
  <2>2. SubSeq(p, 1, Len(p)) = SubSeq(name, 1, Len(p))
    BY <1>1, <1>3, <2>1, SameBeginning
  <2>3. SubSeq(p, 1, Len(p)) = p
    BY <2>1
  <2>4. Len(p) \in 1..(Len(name) - 1)
    <3>1. Len(p) # 0
      BY <2>1
    <3> QED BY <1>1, <1>3, <2>1, <3>1
  <2> QED BY <2>2, <2>3, <2>4 DEF ParentNames
<1> QED BY <1>2, <1>3 DEF ParentNames

LEMMA ParentsOfParents ==
  ASSUME NEW name \in Names, NEW p \in ParentNames(name)
  PROVE  ParentNames(p) \subseteq ParentNames(name)
<1>1. p \in Names /\ Len(p) < Len(name) /\ Agree(p, name, Len(p))
  BY Parents
<1>2. Len(name) \in Nat /\ Len(p) \in Nat
  BY <1>1 DEF Names
<1>3. ASSUME NEW q \in ParentNames(p) PROVE q \in ParentNames(name)
  <2>1. q \in Names /\ Len(q) < Len(p) /\ Agree(q, p, Len(q))
    BY <1>1, Parents
  <2>2. Len(q) \in Nat
    BY <2>1 DEF Names
  <2>3. Agree(q, name, Len(q))
    BY <1>1, <1>2, <2>1, <2>2 DEF Agree
  <2> QED BY <1>1, <1>2, <2>1, <2>2, <2>3, Parents
<1> QED BY <1>3

\* What comes below a name begins with it, upper and lower case aside.
FoldAgree(m, n, j) ==
  \A l \in 1..j : Fold(m[l][1]) = Fold(n[l][1]) /\ m[l][2] = n[l][2]

LEMMA BelowParts ==
  ASSUME NEW m \in Names, NEW n \in Names
  PROVE  /\ Below(n, m) <=> Len(m) < Len(n) /\ FoldAgree(m, n, Len(m))
         /\ Same(m, n) <=> Len(m) = Len(n) /\ FoldAgree(m, n, Len(m))
<1> DEFINE a == Folded(m)
           b == Folded(n)
           S == {a[i] : i \in 1..Len(m)} \cup {b[i] : i \in 1..Len(n)}
<1>1. Len(m) \in Nat /\ DOMAIN m = 1..Len(m) /\ Len(n) \in Nat /\ DOMAIN n = 1..Len(n)
  BY DEF Names
<1>2. a = [i \in 1..Len(m) |-> <<Fold(m[i][1]), m[i][2]>>]
      /\ b = [i \in 1..Len(n) |-> <<Fold(n[i][1]), n[i][2]>>]
  BY <1>1 DEF Folded
<1> HIDE DEF a, b
<1>3. a \in Seq(S) /\ Len(a) = Len(m) /\ b \in Seq(S) /\ Len(b) = Len(n)
  <2>1. a \in [1..Len(m) -> S] /\ b \in [1..Len(n) -> S]
    BY <1>2
  <2> HIDE DEF S
  <2> QED BY <1>1, <2>1
<1> HIDE DEF S
<1>4. IsStrictPrefix(a, b) <=> Len(a) < Len(b) /\ Agree(a, b, Len(a))
  BY <1>3, StrictPrefix
<1>5. ASSUME Len(m) < Len(n) PROVE Agree(a, b, Len(m)) <=> FoldAgree(m, n, Len(m))
  <2>1. ASSUME NEW l \in 1..Len(m)
        PROVE  a[l] = b[l] <=> Fold(m[l][1]) = Fold(n[l][1]) /\ m[l][2] = n[l][2]
    <3>1. a[l] = <<Fold(m[l][1]), m[l][2]>> /\ b[l] = <<Fold(n[l][1]), n[l][2]>>
      BY <1>1, <1>2, <1>5
    <3> QED BY <3>1
  <2> QED BY <2>1 DEF Agree, FoldAgree
<1>6. Below(n, m) <=> Len(m) < Len(n) /\ FoldAgree(m, n, Len(m))
  BY <1>3, <1>4, <1>5 DEF Below, a, b
<1> QED BY <1>6, SameParts DEF FoldAgree

\* Below a part of a name, and below a name, is below.
LEMMA BelowBelow ==
  ASSUME NEW name \in Names, NEW p \in ParentNames(name), NEW old \in Names
  PROVE  /\ Same(p, old) \/ Below(p, old) => Below(name, old)
         /\ Below(name, old) => (Len(p) > Len(old) => Below(p, old))
         /\ Below(name, old) => \E q \in ParentNames(name) : Same(q, old) /\ Len(q) = Len(old)
<1>1. p \in Names /\ Len(p) < Len(name) /\ Agree(p, name, Len(p))
  BY Parents
<1>2. Len(name) \in Nat /\ Len(p) \in Nat /\ Len(old) \in Nat \ {0} /\ name \in Seq(Components)
  BY <1>1 DEF Names
<1>3. ASSUME Same(p, old) \/ Below(p, old) PROVE Below(name, old)
  <2>1. Len(old) <= Len(p) /\ FoldAgree(old, p, Len(old))
    <3>1. CASE Same(p, old)
      <4>1. Same(old, p)
        BY <3>1 DEF Same
      <4> QED BY <1>1, <1>2, <4>1, BelowParts
    <3>2. CASE Below(p, old)
      BY <1>1, <1>2, <3>2, BelowParts
    <3> QED BY <1>3, <3>1, <3>2
  <2>2. FoldAgree(old, name, Len(old))
    BY <1>1, <1>2, <2>1 DEF FoldAgree, Agree
  <2> QED BY <1>1, <1>2, <2>1, <2>2, BelowParts
<1>4. ASSUME Below(name, old), Len(p) > Len(old) PROVE Below(p, old)
  <2>1. FoldAgree(old, name, Len(old))
    BY <1>4, BelowParts
  <2>2. FoldAgree(old, p, Len(old))
    BY <1>1, <1>2, <1>4, <2>1 DEF FoldAgree, Agree
  <2> QED BY <1>1, <1>4, <2>2, BelowParts
<1>5. ASSUME Below(name, old) PROVE \E q \in ParentNames(name) : Same(q, old) /\ Len(q) = Len(old)
  <2> DEFINE L == Len(old)
             q == SubSeq(name, 1, L)
  <2>1. L < Len(name) /\ FoldAgree(old, name, L)
    BY <1>5, BelowParts
  <2>2. L \in 1..(Len(name) - 1)
    <3>1. L \in Nat /\ L # 0
      BY <1>2
    <3> HIDE DEF L
    <3> QED BY <1>2, <2>1, <3>1
  <2>3. q \in ParentNames(name) /\ Len(q) = L /\ q \in Names
    BY <2>2, Beginning DEF ParentNames
  <2> HIDE DEF q
  <2>4. Agree(q, name, L)
    BY <2>3, Parents
  <2>5. FoldAgree(old, q, L)
    BY <2>1, <2>4 DEF FoldAgree, Agree
  <2>6. Same(old, q)
    BY <2>3, <2>5, BelowParts
  <2>7. Same(q, old)
    BY <2>6 DEF Same
  <2> QED BY <2>3, <2>7
<1> QED BY <1>3, <1>4, <1>5

\* A name that moves with its parent.
LEMMA MovedName ==
  ASSUME NEW name \in Names, NEW old \in Names, NEW new \in Names, Len(old) < Len(name)
  PROVE  LET t == Moved(name, old, new) IN
         /\ t \in Names /\ Len(t) = Len(new) + (Len(name) - Len(old))
         /\ \A j \in 1..Len(t) : t[j] = IF j <= Len(new) THEN new[j]
                                        ELSE name[j - Len(new) + Len(old)]
<1> DEFINE r == SubSeq(name, Len(old) + 1, Len(name))
           t == new \o r
<1>1. /\ name \in Seq(Components) /\ Len(name) \in Nat /\ Len(old) \in Nat
      /\ new \in Seq(Components) /\ Len(new) \in Nat
  BY DEF Names
<1>2. /\ r \in Seq(Components) /\ Len(r) = Len(name) - Len(old)
      /\ \A j \in 1..(Len(name) - Len(old)) : r[j] = name[j + Len(old)]
  BY <1>1
<1>3. t \in Names
  BY <1>1, Spliced
<1> HIDE DEF r
<1>4. /\ Len(t) = Len(new) + Len(r)
      /\ \A j \in 1..(Len(new) + Len(r)) : t[j] = IF j <= Len(new) THEN new[j] ELSE r[j - Len(new)]
  BY <1>1, <1>2, Concatenated
<1> HIDE DEF t
<1>5. ASSUME NEW j \in 1..Len(t)
      PROVE  t[j] = IF j <= Len(new) THEN new[j] ELSE name[j - Len(new) + Len(old)]
  <2>1. CASE j <= Len(new)
    BY <1>4, <1>5, <2>1
  <2>2. CASE ~(j <= Len(new))
    <3>1. j - Len(new) \in 1..(Len(name) - Len(old))
      BY <1>1, <1>2, <1>4, <2>2
    <3>2. t[j] = r[j - Len(new)]
      BY <1>4, <2>2
    <3> QED BY <1>2, <2>2, <3>1, <3>2
  <2> QED BY <2>1, <2>2
<1>6. Moved(name, old, new) = t
  BY DEF Moved, t, r
<1> QED BY <1>2, <1>3, <1>4, <1>5, <1>6

\* Its parents move, or are those of the new name.
LEMMA MovedParents ==
  ASSUME NEW name \in Names, NEW old \in Names, NEW new \in Names, Len(old) < Len(name),
         NEW q \in ParentNames(Moved(name, old, new))
  PROVE  \/ q \in ParentNames(new) \/ q = new
         \/ \E p \in ParentNames(name) : Len(p) > Len(old) /\ q = Moved(p, old, new)
<1> DEFINE t == Moved(name, old, new)
           a == Len(old)
           b == Len(new)
           c == Len(name)
           l == Len(q)
<1>1. /\ t \in Names /\ Len(t) = b + (c - a)
      /\ \A j \in 1..Len(t) : t[j] = IF j <= b THEN new[j] ELSE name[j - b + a]
  BY MovedName
<1> HIDE DEF t
<1>2. q \in Names /\ l < Len(t) /\ Agree(q, t, l)
  BY <1>1, Parents DEF t
<1>3. /\ a \in Nat /\ b \in Nat /\ c \in Nat /\ a < c /\ l \in Nat
      /\ q \in Seq(Components) /\ new \in Seq(Components) /\ name \in Seq(Components) /\ name # <<>>
      /\ Len(q) = l /\ Len(new) = b /\ Len(name) = c
  BY <1>2 DEF Names
<1>4. CASE l < b
  <2>1. Agree(q, new, l)
    <3> HIDE DEF a, b, c, l
    <3> QED BY <1>1, <1>2, <1>3, <1>4 DEF Agree
  <2> QED BY <1>2, <1>4, <2>1, Parents
<1>5. CASE l = b
  <2>1. Agree(q, new, l)
    <3> HIDE DEF a, b, c, l
    <3> QED BY <1>1, <1>2, <1>3, <1>5 DEF Agree
  <2>2. q = new
    <3> HIDE DEF a, c
    <3> QED BY <1>3, <1>5, <2>1 DEF Agree
  <2> QED BY <2>2
<1>6. CASE l > b
  <2> DEFINE i == l - b + a
             p == SubSeq(name, 1, i)
  <2>1. i \in 1..(c - 1) /\ i > a
    <3> HIDE DEF a, b, c, l
    <3> QED BY <1>1, <1>2, <1>3, <1>6
  <2>2. p \in Names /\ Len(p) = i /\ p \in ParentNames(name) /\ Agree(p, name, i)
    <3>1. p \in Names /\ Len(p) = i /\ p \in ParentNames(name)
      BY <2>1, Beginning DEF ParentNames
    <3> QED BY <3>1, Parents
  <2> HIDE DEF p
  <2> DEFINE u == Moved(p, old, new)
  <2>3. /\ u \in Names /\ Len(u) = b + (i - a)
        /\ \A j \in 1..Len(u) : u[j] = IF j <= b THEN new[j] ELSE p[j - b + a]
    BY <2>1, <2>2, MovedName
  <2> HIDE DEF u
  <2>4. Len(u) = l
    <3> HIDE DEF a, b, c, l
    <3> QED BY <1>3, <2>1, <2>3
  <2>5. ASSUME NEW j \in 1..l PROVE u[j] = q[j]
    <3> HIDE DEF a, b, c, l
    <3>1. q[j] = t[j] /\ j \in 1..Len(t)
      BY <1>1, <1>2, <1>3 DEF Agree
    <3>2. CASE j <= b
      BY <1>1, <2>3, <2>4, <3>1, <3>2
    <3>3. CASE ~(j <= b)
      <4>1. j - b + a \in 1..i
        BY <1>3, <2>1, <3>3
      <4>2. p[j - b + a] = name[j - b + a]
        BY <2>2, <4>1 DEF Agree
      <4> QED BY <1>1, <2>3, <2>4, <3>1, <3>3, <4>2
    <3> QED BY <3>2, <3>3
  <2>6. u = q
    <3>1. u \in Seq(Components)
      BY <2>3 DEF Names
    <3> HIDE DEF a, b, c
    <3> QED BY <1>3, <2>4, <2>5, <3>1
  <2> QED BY <2>1, <2>2, <2>6 DEF u
<1> QED BY <1>3, <1>4, <1>5, <1>6

\* The decks of both kinds.
NormalDecks(k) == {d \in DOMAIN k.decks : ~IsFiltered(k, d)}
FilteredDecks(k) == {d \in DOMAIN k.decks : IsFiltered(k, d)}

\* The parents of every deck are there, spelled as in its name, and are not filtered decks.
IsThere(k, p) == \E e \in NormalDecks(k) : k.decks[e].name = p
Whole(k) == \A d \in DOMAIN k.decks : \A p \in ParentNames(k.decks[d].name) : IsThere(k, p)
Fits(k, name) ==
  \A p \in ParentNames(name) : \A d \in Named(k, p) : d \in NormalDecks(k) /\ k.decks[d].name = p

LEMMA OneSpelling ==
  ASSUME NEW k \in Sound, NEW p, IsThere(k, p), NEW q, Same(p, q), NEW d \in Named(k, q)
  PROVE  d \in NormalDecks(k) /\ k.decks[d].name = p
<1>1. PICK e \in NormalDecks(k) : k.decks[e].name = p
  BY DEF IsThere
<1>2. d \in DOMAIN k.decks /\ e \in DOMAIN k.decks /\ Same(k.decks[d].name, k.decks[e].name)
  BY <1>1 DEF Named, NormalDecks, Same
<1>3. d = e
  BY <1>2, SoundParts DEF NamesDiffer
<1> QED BY <1>1, <1>3

\* The decks that are only looked at by kind and name.
LEMMA SameTree ==
  ASSUME NEW k, NEW j, Whole(k), DOMAIN j.decks = DOMAIN k.decks,
         \A d \in DOMAIN k.decks : /\ j.decks[d].name = k.decks[d].name
                                   /\ IsFiltered(j, d) <=> IsFiltered(k, d)
  PROVE  Whole(j) /\ \A p : IsThere(k, p) => IsThere(j, p)
BY DEF Whole, IsThere, NormalDecks

\* A tree that has only a place left for name is whole once its parents are there.
LEMMA TreeGrows ==
  ASSUME NEW k \in Sound, NEW j \in Sound, Adds(k, j), NEW name \in Names, Fits(k, name),
         \A d \in DOMAIN k.decks : \A p \in ParentNames(k.decks[d].name) :
           p \in ParentNames(name) \/ IsThere(k, p),
         \A p \in ParentNames(name) : Named(j, p) # {},
         \A d \in DOMAIN j.decks \ DOMAIN k.decks :
           \/ j.decks[d].name = name
           \/ j.decks[d].name \in ParentNames(name) /\ j.decks[d].kind = "normal"
  PROVE  Whole(j) /\ \A p \in ParentNames(name) : IsThere(j, p)
<1>1. ASSUME NEW p, IsThere(k, p) PROVE IsThere(j, p)
  BY <1>1 DEF IsThere, NormalDecks, IsFiltered, Adds
<1>2. ASSUME NEW p \in ParentNames(name) PROVE IsThere(j, p)
  <2>1. PICK d \in Named(j, p) : TRUE
    BY <1>2
  <2>2. d \in DOMAIN j.decks /\ Same(j.decks[d].name, p)
    BY <2>1 DEF Named
  <2>3. p \in Names /\ Len(p) < Len(name) /\ Agree(p, name, Len(p))
    BY Parents
  <2>4. CASE d \in DOMAIN k.decks
    <3>1. d \in Named(k, p) /\ j.decks[d] = k.decks[d]
      BY <2>2, <2>4 DEF Named, Adds
    <3>2. d \in NormalDecks(k) /\ k.decks[d].name = p
      BY <1>2, <3>1 DEF Fits
    <3> QED BY <1>1, <3>2 DEF IsThere
  <2>5. CASE d \notin DOMAIN k.decks
    <3> DEFINE n == j.decks[d].name
    <3>1. n \in Names /\ Len(n) = Len(p)
      BY <2>2, <2>3, SoundParts, SameLength
    <3>2. n # name
      BY <2>3, <3>1 DEF Names
    <3>3. n \in ParentNames(name) /\ j.decks[d].kind = "normal"
      BY <2>2, <2>5, <3>2
    <3>4. Agree(n, name, Len(n))
      BY <3>1, <3>3, Parents
    <3>5. n = p
      <4>1. n \in Seq(Components) /\ p \in Seq(Components) /\ Len(n) = Len(p)
        BY <2>3, <3>1 DEF Names
      <4>2. \A l \in 1..Len(p) : n[l] = p[l]
        BY <2>3, <3>1, <3>4 DEF Agree
      <4> HIDE DEF n
      <4> QED BY <4>1, <4>2
    <3> QED BY <2>2, <3>3, <3>5 DEF IsThere, NormalDecks, IsFiltered
  <2> QED BY <2>4, <2>5
<1>3. ASSUME NEW d \in DOMAIN j.decks, NEW p \in ParentNames(j.decks[d].name) PROVE IsThere(j, p)
  <2>1. CASE d \in DOMAIN k.decks
    <3>1. j.decks[d] = k.decks[d]
      BY <2>1 DEF Adds
    <3> QED BY <1>1, <1>2, <1>3, <2>1, <3>1
  <2>2. CASE d \notin DOMAIN k.decks
    <3>1. CASE j.decks[d].name = name
      BY <1>2, <1>3, <3>1
    <3>2. CASE j.decks[d].name \in ParentNames(name)
      <4>1. ParentNames(j.decks[d].name) \subseteq ParentNames(name)
        BY <3>2, ParentsOfParents
      <4> QED BY <1>2, <1>3, <4>1
    <3> QED BY <2>2, <3>1, <3>2
  <2> QED BY <2>1, <2>2
<1> QED BY <1>2, <1>3 DEF Whole

\* A name that takes its closest parent's spelling takes that of all of its parents.
LEMMA MatchedFits ==
  ASSUME NEW k \in Sound, Whole(k), NEW name \in Names,
         \A d \in FirstExistingParent(k, name) : ~IsFiltered(k, d)
  PROVE  Fits(k, MatchedName(k, name))
<1> DEFINE m == MatchedName(k, name)
           E == {i \in 1..(Len(name) - 1) : Named(k, SubSeq(name, 1, i)) # {}}
           M == Max(E)
           first == FirstExistingParent(k, name)
           a == CHOOSE d \in first : TRUE
           n == k.decks[a].name
<1>1. m \in Names /\ Same(m, name)
  BY MatchedNameSame
<1>2. SUFFICES ASSUME NEW p \in ParentNames(m), NEW d \in Named(k, p)
               PROVE  d \in NormalDecks(k) /\ k.decks[d].name = p
  BY DEF Fits
<1> DEFINE l == Len(p)
           q == SubSeq(name, 1, l)
<1>3. p \in Names /\ l < Len(m) /\ Agree(p, m, l)
  <2> HIDE DEF m
  <2> QED BY <1>1, <1>2, Parents
<1>4. Len(m) = Len(name) /\ FoldAgree(m, name, Len(m))
  <2> HIDE DEF m
  <2> QED BY <1>1, BelowParts
<1>5. l \in 1..(Len(name) - 1) /\ l \in Nat /\ Len(name) \in Nat
  <2>1. p \in Seq(Components) /\ p # <<>> /\ name \in Seq(Components)
    BY <1>3 DEF Names
  <2>2. l \in Nat /\ l # 0 /\ Len(name) \in Nat
    BY <2>1
  <2> HIDE DEF l, m
  <2> QED BY <1>3, <1>4, <2>2
<1>6. q \in Names /\ Len(q) = l /\ q \in ParentNames(name) /\ Agree(q, name, l)
  <2>1. q \in Names /\ Len(q) = l /\ q \in ParentNames(name)
    BY <1>5, Beginning DEF ParentNames
  <2> QED BY <2>1, Parents
<1>7. Same(p, q)
  <2>1. FoldAgree(p, q, l)
    <3> HIDE DEF l, m, q
    <3> QED BY <1>3, <1>4, <1>5, <1>6 DEF FoldAgree, Agree
  <2> HIDE DEF q
  <2> QED BY <1>3, <1>6, <2>1, BelowParts
<1>8. d \in Named(k, q) /\ d \in DOMAIN k.decks
  BY <1>2, <1>7 DEF Named, Same
<1>9. l \in E /\ first = Named(k, SubSeq(name, 1, M))
  <2>1. l \in E
    BY <1>5, <1>8
  <2>2. first = Named(k, SubSeq(name, 1, M))
    BY <2>1 DEF FirstExistingParent
  <2> QED BY <2>1, <2>2
<1>10. M \in E /\ l <= M
  <2>1. E \in SUBSET Nat /\ IsFiniteSet(E)
    <3>1. E \in SUBSET (1..(Len(name) - 1)) /\ E \in SUBSET Nat
      OBVIOUS
    <3>2. IsFiniteSet(1..(Len(name) - 1))
      BY <1>5, FS_Interval
    <3> HIDE DEF E
    <3> QED BY <3>1, <3>2, FS_Subset
  <2> HIDE DEF E, l
  <2> QED BY <1>9, <2>1, LeastAndGreatest
<1> DEFINE o == SubSeq(name, 1, M)
<1>11. M \in 1..(Len(name) - 1) /\ o \in Names /\ Len(o) = M /\ first = Named(k, o) /\ first # {}
  <2>1. M \in 1..(Len(name) - 1) /\ Named(k, o) # {}
    BY <1>10
  <2> HIDE DEF E
  <2> QED BY <1>9, <2>1, Beginning
<1>12. a \in first /\ a \in DOMAIN k.decks /\ Same(n, o)
  <2>1. a \in first
    BY <1>11
  <2> HIDE DEF a, o, first
  <2> QED BY <1>11, <2>1 DEF Named
<1>13. n \in Names /\ Len(n) = M
  <2>1. n \in Names
    BY <1>12, SoundParts
  <2> HIDE DEF n, o, M
  <2> QED BY <1>11, <1>12, <2>1, SameLength
<1>14. m = Moved(name, n, n)
  BY <1>11 DEF MatchedName, Moved
<1> HIDE DEF m, q, o, a, first, E
<1>15. /\ Len(m) = Len(name) /\ \A j \in 1..Len(m) : j <= M => m[j] = n[j]
  <2> DEFINE t == Moved(name, n, n)
  <2>1. M \in Nat /\ M < Len(name)
    <3> HIDE DEF M
    <3> QED BY <1>5, <1>11
  <2>2. \A j \in 1..Len(t) : t[j] = IF j <= Len(n) THEN n[j] ELSE name[j - Len(n) + Len(n)]
    <3> HIDE DEF n, M
    <3> QED BY <1>13, <2>1, MovedName
  <2> HIDE DEF t, n, M
  <2> QED BY <1>4, <1>13, <1>14, <2>2 DEF t
<1> HIDE DEF n, M, l
<1>16. Agree(p, n, l)
  BY <1>3, <1>4, <1>5, <1>10, <1>11, <1>15 DEF Agree
<1>17. a \in NormalDecks(k)
  BY <1>12 DEF first, NormalDecks
<1>18. IsThere(k, p)
  <2>1. CASE l = M
    <3>1. p = n
      <4>1. p \in Seq(Components) /\ n \in Seq(Components) /\ Len(p) = Len(n)
        BY <1>3, <1>13, <2>1 DEF Names, l
      <4>2. \A i \in 1..Len(p) : p[i] = n[i]
        BY <1>16 DEF Agree, l
      <4> QED BY <4>1, <4>2
    <3> QED BY <1>17, <3>1 DEF IsThere, n
  <2>2. CASE l < M
    <3>1. p \in ParentNames(n)
      BY <1>3, <1>13, <1>16, <2>2, Parents DEF l
    <3> QED BY <1>12, <3>1 DEF Whole, n
  <2>3. l = M \/ l < M
    BY <1>5, <1>10, <1>11
  <2> QED BY <2>1, <2>2, <2>3
<1> QED BY <1>2, <1>18, OneSpelling DEF Same

\* What an operation does to a tree, when it does not fail.
Grows(k, j) == Whole(k) => j.failed \/ Whole(j)

LEMMA GrowsSteps ==
  ASSUME NEW k, NEW j, NEW l
  PROVE  /\ Grows(k, k)
         /\ (Grows(k, j) /\ Grows(j, l) /\ (j.failed => l.failed)) => Grows(k, l)
         /\ j.decks = k.decks => Grows(k, j)
<1>1. ASSUME j.decks = k.decks, Whole(k) PROVE Whole(j)
  BY <1>1, SameTree DEF IsFiltered
<1> QED BY <1>1 DEF Grows

LEMMA AddDeckWhole ==
  ASSUME NEW k \in Sound, NEW name \in Names, NEW kind \in Kinds
  PROVE  Grows(k, AddDeck(k, name, kind))
<1> DEFINE j == AddDeck(k, name, kind)
           unique == UniqueName(k, 0, name)
           m == MatchedName(k, unique)
<1>1. /\ unique \in Names /\ j \in Sound /\ DeckAdded(k, j, m, kind)
      /\ j.failed \/ \A d \in FirstExistingParent(k, unique) : ~IsFiltered(k, d)
  BY AddDeckSound
<1> HIDE DEF j, unique
<1>2. m \in Names
  BY <1>1, MatchedNameSame
<1>3. ASSUME Whole(k), ~j.failed PROVE Whole(j)
  <2>1. Fits(k, m)
    BY <1>1, <1>3, MatchedFits
  <2> HIDE DEF m
  <2>2. /\ Adds(k, j) /\ \A p \in ParentNames(m) : Named(j, p) # {}
        /\ \A d \in DOMAIN j.decks \ DOMAIN k.decks :
             \/ j.decks[d].name = m
             \/ j.decks[d].name \in ParentNames(m) /\ j.decks[d].kind = "normal"
    BY <1>1, <1>3 DEF DeckAdded
  <2>3. \A d \in DOMAIN k.decks : \A p \in ParentNames(k.decks[d].name) : IsThere(k, p)
    BY <1>3 DEF Whole
  <2> QED BY <1>1, <1>2, <2>1, <2>2, <2>3, TreeGrows
<1> QED BY <1>3 DEF Grows, j

\* A deck has the name m, what was below it is below m, and nothing else has moved.
MovedTo(k, j, d, m) ==
  /\ DOMAIN j.decks = DOMAIN k.decks
  /\ \A e \in DOMAIN k.decks :
       /\ IsFiltered(j, e) <=> IsFiltered(k, e)
       /\ j.decks[e].name =
            IF e = d THEN m
            ELSE IF e \in Descendants(k, k.decks[d].name)
                 THEN Moved(k.decks[e].name, k.decks[d].name, m)
            ELSE k.decks[e].name

LEMMA RowMoved ==
  ASSUME NEW k \in Sound, NEW d \in DOMAIN k.decks, NEW m \in Names, NEW row \in DeckRow,
         row.name = m, row.kind # "normal" <=> IsFiltered(k, d)
  PROVE  LET j == UpdateRow(RenameChildDecks(k, k.decks[d].name, m), d, row) IN
         j.failed \/ MovedTo(k, j, d, m)
<1> DEFINE old == k.decks[d].name
           c == RenameChildDecks(k, old, m)
           j == UpdateRow(c, d, row)
<1>1. d \in Ids /\ old \in Names
  BY SoundParts
<1>2. c \in Sound /\ Renamed(k, c, Descendants(k, old), old, m)
  BY <1>1, RenameChildDecksSound
<1> HIDE DEF c
<1>3. /\ c.failed => j.failed
      /\ \/ j.failed
         \/ j.decks = [e \in DOMAIN c.decks \cup {d} |-> IF e = d THEN row ELSE c.decks[e]]
  BY <1>1, <1>2, UpdateRowSound
<1> HIDE DEF j
<1>4. ASSUME ~j.failed PROVE MovedTo(k, j, d, m)
  <2>1. /\ DOMAIN c.decks = DOMAIN k.decks
        /\ \A e \in DOMAIN k.decks : IsFiltered(c, e) <=> IsFiltered(k, e)
        /\ \A e \in DOMAIN k.decks :
             c.decks[e].name = IF e \in Descendants(k, old) THEN Moved(k.decks[e].name, old, m)
                               ELSE k.decks[e].name
    BY <1>2, <1>3, <1>4 DEF Renamed, Extends
  <2>2. j.decks = [e \in DOMAIN k.decks |-> IF e = d THEN row ELSE c.decks[e]]
    BY <1>3, <1>4, <2>1
  <2>3. ASSUME NEW e \in DOMAIN k.decks
        PROVE  /\ IsFiltered(j, e) <=> IsFiltered(k, e)
               /\ j.decks[e].name = IF e = d THEN m
                                    ELSE IF e \in Descendants(k, old)
                                         THEN Moved(k.decks[e].name, old, m)
                                    ELSE k.decks[e].name
    <3>1. j.decks[e] = IF e = d THEN row ELSE c.decks[e]
      BY <2>2
    <3> QED BY <2>1, <3>1 DEF IsFiltered
  <2> QED BY <2>2, <2>3 DEF MovedTo
<1> QED BY <1>4 DEF j, c

\* What a moved deck lacks are parents of its new name.
LEMMA MovedTree ==
  ASSUME NEW k \in Sound, Whole(k), NEW d \in DOMAIN k.decks, NEW m \in Names,
         NEW j \in Sound, MovedTo(k, j, d, m)
  PROVE  /\ \A e \in DOMAIN j.decks : \A q \in ParentNames(j.decks[e].name) :
              q \in ParentNames(m) \/ IsThere(j, q)
         /\ (\A p \in ParentNames(m) : IsThere(k, p)) => Fits(j, m)
         /\ \A t \in NormalDecks(k) :
              (t # d /\ ~Below(k.decks[t].name, k.decks[d].name)) =>
                 t \in NormalDecks(j) /\ j.decks[t].name = k.decks[t].name
<1> DEFINE old == k.decks[d].name
           R == Descendants(k, old)
<1>1. old \in Names /\ \A e \in DOMAIN k.decks : k.decks[e].name \in Names
  BY SoundParts
<1>2. ASSUME NEW e \in DOMAIN k.decks
      PROVE  /\ e = d => j.decks[e].name = m
             /\ (e # d /\ e \in R) => j.decks[e].name = Moved(k.decks[e].name, old, m)
             /\ (e # d /\ e \notin R) => j.decks[e].name = k.decks[e].name
             /\ e \in NormalDecks(j) <=> e \in NormalDecks(k)
             /\ e \in R <=> Below(k.decks[e].name, old)
  BY DEF MovedTo, NormalDecks, Descendants
<1>3. DOMAIN j.decks = DOMAIN k.decks
  BY DEF MovedTo
<1> HIDE DEF old, R
<1>4. ASSUME NEW e \in R, e \in DOMAIN k.decks
      PROVE  /\ Len(old) < Len(k.decks[e].name) /\ d \in NormalDecks(k)
             /\ \E q \in ParentNames(k.decks[e].name) : Same(q, old)
  <2> DEFINE n == k.decks[e].name
  <2>1. n \in Names /\ Below(n, old)
    BY <1>1, <1>2, <1>4
  <2>2. Len(old) < Len(n)
    BY <1>1, <2>1, BelowParts
  <2>3. PICK q \in ParentNames(n) : Same(q, old)
    <3>1. ParentNames(n) # {}
      <4>1. Len(old) \in Nat \ {0} /\ Len(n) \in Nat
        BY <1>1, <2>1 DEF Names
      <4>2. 1 \in 1..(Len(n) - 1)
        BY <2>2, <4>1
      <4> QED BY <4>2 DEF ParentNames
    <3> QED BY <1>1, <2>1, <3>1, BelowBelow
  <2>4. IsThere(k, q)
    BY <1>4, <2>3 DEF Whole
  <2>5. d \in Named(k, old)
    BY DEF Named, Same, old
  <2>6. d \in NormalDecks(k)
    BY <2>3, <2>4, <2>5, OneSpelling
  <2> QED BY <2>2, <2>3, <2>6
<1>5. ASSUME NEW e \in DOMAIN k.decks, NEW q \in ParentNames(j.decks[e].name)
      PROVE  q \in ParentNames(m) \/ IsThere(j, q)
  <2> DEFINE n == k.decks[e].name
  <2>1. n \in Names
    BY <1>1
  <2>2. CASE e = d
    BY <1>2, <1>5, <2>2
  <2>3. CASE e # d /\ e \in R
    <3>1. /\ Len(old) < Len(n) /\ d \in NormalDecks(k) /\ Below(n, old)
          /\ q \in ParentNames(Moved(n, old, m))
      BY <1>2, <1>4, <1>5, <2>3
    <3> HIDE DEF n
    <3>2. \/ q \in ParentNames(m) \/ q = m
          \/ \E p \in ParentNames(n) : Len(p) > Len(old) /\ q = Moved(p, old, m)
      BY <1>1, <2>1, <3>1, MovedParents
    <3>3. CASE q = m
      BY <1>2, <3>1, <3>3 DEF IsThere, NormalDecks
    <3>4. ASSUME NEW p \in ParentNames(n), Len(p) > Len(old), q = Moved(p, old, m)
          PROVE  IsThere(j, q)
      <4>1. Below(p, old)
        BY <1>1, <2>1, <3>1, <3>4, BelowBelow
      <4>2. PICK f \in NormalDecks(k) : k.decks[f].name = p
        BY <1>5, <3>4 DEF Whole, IsThere, n
      <4>3. f \in DOMAIN k.decks /\ f \in R
        BY <1>2, <4>1, <4>2 DEF NormalDecks
      <4>4. f # d
        <5>1. Len(p) \in Nat /\ Len(old) \in Nat /\ p # old
          BY <1>1, <3>4, <4>2, <4>3 DEF Names
        <5> QED BY <4>2, <5>1 DEF old
      <4>5. j.decks[f].name = q /\ f \in NormalDecks(j)
        BY <1>2, <3>4, <4>2, <4>3, <4>4
      <4> QED BY <4>5 DEF IsThere
    <3> QED BY <3>2, <3>3, <3>4
  <2>4. CASE e # d /\ e \notin R
    <3>1. q \in ParentNames(n) /\ ~Below(n, old)
      BY <1>2, <1>5, <2>4
    <3>2. PICK f \in NormalDecks(k) : k.decks[f].name = q
      BY <1>5, <3>1 DEF Whole, IsThere
    <3>3. f \in DOMAIN k.decks
      BY <3>2 DEF NormalDecks
    <3>4. ~(Same(q, old) \/ Below(q, old))
      <4> HIDE DEF n
      <4> QED BY <1>1, <2>1, <3>1, BelowBelow
    <3>5. f # d /\ f \notin R
      BY <1>2, <3>2, <3>3, <3>4 DEF old, Same
    <3>6. j.decks[f].name = q /\ f \in NormalDecks(j)
      BY <1>2, <3>2, <3>3, <3>5
    <3> QED BY <3>6 DEF IsThere
  <2> QED BY <2>2, <2>3, <2>4
<1>6. ASSUME \A p \in ParentNames(m) : IsThere(k, p), NEW p \in ParentNames(m), NEW f \in Named(j, p)
      PROVE  f \in NormalDecks(j) /\ j.decks[f].name = p
  <2> DEFINE n == j.decks[f].name
  <2>1. f \in DOMAIN k.decks /\ n \in Names /\ Same(n, p)
    BY <1>3, <1>6, SoundParts DEF Named
  <2>2. p \in Names /\ Len(p) < Len(m)
    BY <1>6, Parents
  <2>3. Len(n) < Len(m) /\ Len(n) \in Nat /\ Len(m) \in Nat
    <3> HIDE DEF n
    <3>1. Len(n) = Len(p)
      BY <2>1, <2>2, SameLength
    <3> QED BY <2>1, <2>2, <3>1 DEF Names
  <2>4. f # d
    BY <1>2, <2>1, <2>3
  <2>5. f \notin R
    <3> SUFFICES ASSUME f \in R PROVE FALSE
      OBVIOUS
    <3> DEFINE o == k.decks[f].name
    <3>1. Len(old) < Len(o) /\ o \in Names /\ n = Moved(o, old, m)
      BY <1>1, <1>2, <1>4, <2>1, <2>4
    <3> HIDE DEF n, o
    <3>2. Len(n) = Len(m) + (Len(o) - Len(old))
      BY <1>1, <3>1, MovedName
    <3>3. Len(o) \in Nat /\ Len(old) \in Nat
      BY <1>1, <3>1 DEF Names
    <3> QED BY <2>3, <3>1, <3>2, <3>3
  <2>6. n = k.decks[f].name
    BY <1>2, <2>1, <2>4, <2>5
  <2>7. f \in Named(k, p)
    BY <2>1, <2>6 DEF Named
  <2>8. f \in NormalDecks(k) /\ k.decks[f].name = p
    BY <1>6, <2>7, OneSpelling DEF Same
  <2> QED BY <1>2, <2>1, <2>6, <2>8
<1>7. ASSUME NEW t \in NormalDecks(k), t # d, ~Below(k.decks[t].name, old)
      PROVE  t \in NormalDecks(j) /\ j.decks[t].name = k.decks[t].name
  BY <1>2, <1>7 DEF NormalDecks
<1> QED BY <1>3, <1>5, <1>6, <1>7 DEF Fits, old

\* A deck that is renamed takes what is below it along, and gets the parents it lacks, also
\* when these were its old name or below it.
LEMMA UpdateDeckWhole ==
  ASSUME NEW k \in Sound, NEW d \in DOMAIN k.decks, NEW name \in Names, NEW kind \in Kinds,
         kind # "normal" <=> IsFiltered(k, d)
  PROVE  Grows(k, UpdateDeck(k, d, name, kind))
<1> DEFINE original == k.decks[d]
           unique == UniqueName(k, d, name)
           renamed == unique # original.name
           final == IF renamed THEN MatchedName(k, unique) ELSE unique
           m == MatchedName(k, unique)
           parented == MatchOrCreateParents(k, unique)
           moved == RenameChildDecks(parented, original.name, final)
           children == IF ~renamed THEN k ELSE moved
           row == [original EXCEPT !.name = final, !.kind = kind]
           changed == Modified(k, row)
           updated == UpdateRow(children, d, changed)
           created == CreateMissingParents(updated, final)
           j == UpdateDeck(k, d, name, kind)
<1>1. d \in Ids /\ original \in DeckRow /\ original.name \in Names
  BY SoundParts
<1>2. unique \in Names
  BY UniqueNameFree
<1>3. j = IF ~renamed /\ kind = original.kind THEN k ELSE IF renamed THEN created ELSE updated
  BY DEF UpdateDeck
<1> HIDE DEF unique, original
<1>4. final \in Names /\ m \in Names
  BY <1>2, MatchedNameSame
<1> HIDE DEF final, j, m
<1>5. row \in DeckRow /\ row.kind = kind /\ row.name = final
  BY <1>1, <1>4 DEF DeckRow
<1> HIDE DEF row
<1>6. changed \in DeckRow /\ changed.kind = kind /\ changed.name = final
  BY <1>5, ModifiedRow
<1> HIDE DEF changed
<1>7. SUFFICES ASSUME Whole(k), ~j.failed PROVE Whole(j)
  BY DEF Grows, j
<1>8. CASE ~renamed /\ kind = original.kind
  BY <1>3, <1>7, <1>8
<1>9. CASE ~renamed /\ kind # original.kind
  <2>1. j = updated /\ children = k /\ final = original.name
    BY <1>3, <1>9 DEF final
  <2>2. j.failed \/ j.decks = [e \in DOMAIN k.decks \cup {d} |-> IF e = d THEN changed ELSE k.decks[e]]
    BY <1>1, <1>6, <2>1, UpdateRowSound
  <2> HIDE DEF updated
  <2>3. /\ DOMAIN j.decks = DOMAIN k.decks
        /\ \A e \in DOMAIN k.decks : j.decks[e] = IF e = d THEN changed ELSE k.decks[e]
    BY <1>7, <2>2
  <2>4. \A e \in DOMAIN k.decks : /\ j.decks[e].name = k.decks[e].name
                                  /\ IsFiltered(j, e) <=> IsFiltered(k, e)
    BY <1>6, <2>1, <2>3 DEF IsFiltered, original
  <2> QED BY <1>7, <2>3, <2>4, SameTree
<1>10. CASE renamed
  <2>1. j = created /\ children = moved /\ final = m
    BY <1>3, <1>10 DEF final, m
  <2>2. /\ parented \in Sound /\ ParentsAdded(k, m, parented)
        /\ \/ parented.failed
           \/ /\ \A e \in FirstExistingParent(k, unique) : ~IsFiltered(k, e)
              /\ \A p \in ParentNames(m) : Named(parented, p) # {}
    BY <1>2, MatchOrCreateParentsSound DEF m
  <2> HIDE DEF parented, renamed
  <2>3. moved \in Sound /\ Extends(parented, moved)
    BY <1>1, <1>4, <2>2, RenameChildDecksSound DEF Renamed
  <2>4. updated \in Sound /\ (moved.failed => updated.failed)
    <3> HIDE DEF moved
    <3> QED BY <1>1, <1>6, <2>1, <2>3, UpdateRowSound
  <2>5. created \in Sound /\ ParentsAdded(updated, m, created)
        /\ (created.failed \/ \A p \in ParentNames(m) : Named(created, p) # {})
    <3> HIDE DEF updated
    <3> QED BY <1>4, <2>1, <2>4, CreateMissingParentsSound
  <2>6. ~created.failed /\ ~updated.failed /\ ~parented.failed
    <3> HIDE DEF created, updated, moved, children
    <3> QED BY <1>7, <2>1, <2>3, <2>4, <2>5 DEF ParentsAdded, Adds, Extends
  <2>7. Adds(k, parented) /\ d \in DOMAIN parented.decks /\ parented.decks[d] = original
    BY <2>2 DEF ParentsAdded, Adds, original
  <2>8. Fits(k, m)
    BY <1>2, <1>7, <2>2, <2>6, MatchedFits DEF m
  <2>9. Whole(parented) /\ \A p \in ParentNames(m) : IsThere(parented, p)
    <3>1. \A e \in DOMAIN k.decks : \A p \in ParentNames(k.decks[e].name) : IsThere(k, p)
      BY <1>7 DEF Whole
    <3>2. \A e \in DOMAIN parented.decks \ DOMAIN k.decks :
            parented.decks[e].name \in ParentNames(m) /\ parented.decks[e].kind = "normal"
      BY <2>2 DEF ParentsAdded
    <3> HIDE DEF created, updated, moved, children
    <3> QED BY <1>4, <2>2, <2>6, <2>7, <2>8, <3>1, <3>2, TreeGrows
  <2>10. MovedTo(parented, updated, d, m)
    <3>1. changed.kind # "normal" <=> IsFiltered(parented, d)
      BY <1>6, <2>7 DEF IsFiltered, original
    <3>2. updated = UpdateRow(RenameChildDecks(parented, parented.decks[d].name, m), d, changed)
      BY <2>1, <2>7
    <3> HIDE DEF updated, created, moved, children
    <3> QED BY <1>4, <1>6, <2>1, <2>2, <2>6, <2>7, <3>1, <3>2, RowMoved
  <2> HIDE DEF created, updated, moved, children
  <2>11. /\ \A e \in DOMAIN updated.decks : \A q \in ParentNames(updated.decks[e].name) :
              q \in ParentNames(m) \/ IsThere(updated, q)
         /\ Fits(updated, m)
    BY <1>4, <2>2, <2>4, <2>7, <2>9, <2>10, MovedTree
  <2>12. /\ Adds(updated, created)
         /\ \A e \in DOMAIN created.decks \ DOMAIN updated.decks :
              created.decks[e].name \in ParentNames(m) /\ created.decks[e].kind = "normal"
    BY <2>5 DEF ParentsAdded
  <2>13. Whole(created)
    BY <1>4, <2>4, <2>5, <2>6, <2>11, <2>12, TreeGrows
  <2> QED BY <2>1, <2>13
<1> QED BY <1>8, <1>9, <1>10

\* A name that is made unique keeps its parents.
LEMMA UniqueNameParents ==
  ASSUME NEW k \in Sound, NEW d, NEW name \in Names
  PROVE  ParentNames(UniqueName(k, d, name)) = ParentNames(name)
<1> DEFINE u == UniqueName(k, d, name)
<1>1. PICK n \in Nat : u = WithPluses(name, n)
  BY UniqueNameFree
<1>2. u \in Names /\ Len(u) = Len(name)
  BY <1>1, Pluses
<1> HIDE DEF u
<1>3. name \in Seq(Components) /\ Len(name) \in Nat \ {0} /\ DOMAIN name = 1..Len(name)
  BY DEF Names
<1>4. \A i \in 1..(Len(name) - 1) : u[i] = name[i]
  BY <1>1, <1>3 DEF WithPluses
<1>5. ASSUME NEW p \in Names, Len(p) < Len(name) PROVE Agree(p, u, Len(p)) <=> Agree(p, name, Len(p))
  <2>1. Len(p) \in Nat
    BY DEF Names
  <2>2. \A i \in 1..Len(p) : u[i] = name[i]
    BY <1>3, <1>4, <1>5, <2>1
  <2> QED BY <2>2 DEF Agree
<1>6. ASSUME NEW p PROVE p \in ParentNames(u) <=> p \in ParentNames(name)
  BY <1>2, <1>5, Parents
<1> QED BY <1>6 DEF u

\* The parents of a name that is dropped on target are target and its parents.
LEMMA AppendedParents ==
  ASSUME NEW target \in Names \cup {<<>>}, NEW c \in Components, NEW q \in ParentNames(Append(target, c))
  PROVE  target \in Names /\ (q = target \/ q \in ParentNames(target))
<1> DEFINE name == Append(target, c)
           L == Len(target)
<1>1. target \in Seq(Components) /\ L \in Nat
  <2>1. <<>> \in Seq(Components)
    OBVIOUS
  <2>2. target \in Seq(Components)
    BY <2>1 DEF Names
  <2> QED BY <2>2
<1>2. /\ name \in Seq(Components) /\ Len(name) = L + 1 /\ name # <<>>
      /\ \A i \in 1..L : name[i] = target[i]
  BY <1>1
<1>3. name \in Names
  BY <1>2 DEF Names
<1> HIDE DEF name, L
<1>4. q \in Names /\ Len(q) < L + 1 /\ Agree(q, name, Len(q))
  BY <1>2, <1>3, Parents DEF name
<1>5. q \in Seq(Components) /\ Len(q) \in Nat \ {0}
  BY <1>4 DEF Names
<1>6. target \in Names
  <2>1. L # 0
    BY <1>1, <1>4, <1>5
  <2>2. target # <<>>
    BY <2>1 DEF L
  <2> QED BY <2>2
<1>7. Agree(q, target, Len(q))
  BY <1>1, <1>2, <1>4, <1>5 DEF Agree
<1>8. CASE Len(q) = L
  <2>1. q = target
    BY <1>1, <1>5, <1>7, <1>8 DEF Agree, L
  <2> QED BY <1>6, <2>1
<1>9. CASE Len(q) # L
  <2>1. Len(q) < Len(target)
    BY <1>1, <1>4, <1>5, <1>9 DEF L
  <2> QED BY <1>4, <1>6, <1>7, <2>1, Parents
<1> QED BY <1>8, <1>9

\* A name starts with itself, and with its parents.
LEMMA StartsWithParents ==
  ASSUME NEW target \in Names, NEW name \in Names, name = target \/ name \in ParentNames(target)
  PROVE  StartsWith(target, name) /\ target[1] = name[1]
<1> DEFINE n == Len(name)
<1>1. /\ name \in Seq(Components) /\ target \in Seq(Components) /\ n \in Nat /\ Len(target) \in Nat
      /\ name # <<>>
  BY DEF Names
<1>2. n <= Len(target) /\ Agree(name, target, n)
  BY <1>1, Parents DEF Agree
<1>3. n \in 1..n /\ 1 \in 1..n
  <2>1. n # 0
    BY <1>1
  <2> HIDE DEF n
  <2> QED BY <1>1, <2>1
<1>4. Front(name) = SubSeq(target, 1, n - 1)
  <2>1. n - 1 \in Nat /\ n - 1 <= Len(name) /\ n - 1 <= Len(target)
    BY <1>1, <1>2, <1>3
  <2>2. Agree(name, target, n - 1)
    BY <1>1, <1>2 DEF Agree
  <2>3. SubSeq(name, 1, n - 1) = SubSeq(target, 1, n - 1)
    <3> DEFINE o == n - 1
    <3> HIDE DEF o
    <3> QED BY <1>1, <2>1, <2>2, SameBeginning DEF o
  <2> QED BY <2>3 DEF Front
<1>5. name[n] = target[n] /\ name[1] = target[1]
  BY <1>2, <1>3 DEF Agree
<1>6. IsPrefix(name[n][2], target[n][2])
  <2> DEFINE s == name[n][2]
  <2>1. s \in Seq({"+", "*"})
    BY <1>1, <1>3 DEF Components, NameSuffixes
  <2> HIDE DEF s
  <2>2. Len(s) <= Len(s)
    BY <2>1
  <2>3. IsPrefix(s, s)
    BY <2>2 DEF IsPrefix
  <2> QED BY <1>5, <2>3 DEF s
<1> QED BY <1>2, <1>4, <1>5, <1>6 DEF StartsWith

\* A deck that is dropped on target is not above it, and target stays where it is.
TargetStays(k, target) == target = <<>> \/ IsThere(k, target)

LEMMA DropDeckWhole ==
  ASSUME NEW j \in Sound, NEW d \in Ids, NEW target \in Names \cup {<<>>},
         Whole(j), TargetStays(j, target)
  PROVE  LET l == DropDeck(j, d, target) IN
         l.failed \/ (Whole(l) /\ TargetStays(l, target))
<1> DEFINE row == j.decks[d]
           name == row.name
           new == ReparentedName(name, target)
           unique == UniqueName(j, d, new)
           moved == RenameChildDecks(j, name, unique)
           placed == [row EXCEPT !.name = unique]
           changed == Modified(j, placed)
           l == DropDeck(j, d, target)
<1>1. CASE d \notin DOMAIN j.decks \/ new = name
  <2>1. l = j
    BY <1>1 DEF DropDeck
  <2> QED BY <2>1
<1>2. CASE ~(d \notin DOMAIN j.decks \/ new = name)
  <2>1. l = UpdateRow(moved, d, changed)
    BY <1>2 DEF DropDeck
  <2> HIDE DEF l
  <2>2. d \in DOMAIN j.decks /\ row \in DeckRow /\ name \in Names
    BY <1>2, SoundParts
  <2>3. new \in Names
    BY <2>2, ReparentedNames
  <2>4. /\ new = Append(target, Last(name))
        /\ target # <<>> => ~(StartsWith(target, name) /\ target[1] = name[1])
    BY <1>2 DEF ReparentedName
  <2> HIDE DEF new
  <2>5. unique \in Names /\ ParentNames(unique) = ParentNames(new)
    BY <2>3, UniqueNameFree, UniqueNameParents
  <2> HIDE DEF unique
  <2>6. placed \in DeckRow /\ placed.kind = row.kind /\ placed.name = unique
    BY <2>2, <2>5 DEF DeckRow
  <2> HIDE DEF placed
  <2>7. changed \in DeckRow /\ changed.kind = row.kind /\ changed.name = unique
    BY <2>6, ModifiedRow
  <2> HIDE DEF changed
  <2>8. SUFFICES ASSUME ~l.failed PROVE Whole(l) /\ TargetStays(l, target)
    BY DEF l
  <2>9. l \in Sound
    BY <2>2, DropDeckSound DEF l
  <2>10. MovedTo(j, l, d, unique)
    <3>1. changed.kind # "normal" <=> IsFiltered(j, d)
      BY <2>7 DEF IsFiltered
    <3> QED BY <2>1, <2>2, <2>5, <2>7, <2>8, <3>1, RowMoved
  <2>11. /\ \A e \in DOMAIN l.decks : \A q \in ParentNames(l.decks[e].name) :
              q \in ParentNames(unique) \/ IsThere(l, q)
         /\ \A t \in NormalDecks(j) :
              (t # d /\ ~Below(j.decks[t].name, name)) =>
                 t \in NormalDecks(l) /\ l.decks[t].name = j.decks[t].name
    BY <2>2, <2>5, <2>9, <2>10, MovedTree
  <2>12. Last(name) \in Components
    <3>1. name \in Seq(Components) /\ Len(name) \in 1..Len(name)
      BY <2>2 DEF Names
    <3> QED BY <3>1 DEF Last
  <2>13. ASSUME NEW q, target \in Names, q = target \/ q \in ParentNames(target)
         PROVE  IsThere(l, q)
    <3>1. target # <<>>
      BY <2>13 DEF Names
    <3>2. IsThere(j, target)
      BY <3>1 DEF TargetStays
    <3>3. \A p \in ParentNames(target) : IsThere(j, p)
      BY <3>2 DEF IsThere, Whole, NormalDecks
    <3>4. ~(name = target \/ name \in ParentNames(target))
      BY <2>2, <2>4, <2>13, <3>1, StartsWithParents
    <3>5. d \in Named(j, name)
      BY <2>2 DEF Named, Same
    <3> HIDE DEF row, name
    <3>6. ASSUME NEW p, p = target \/ p \in ParentNames(target), Same(p, name) PROVE FALSE
      <4>1. IsThere(j, p)
        BY <3>2, <3>3, <3>6
      <4>2. j.decks[d].name = p
        BY <3>5, <3>6, <4>1, OneSpelling
      <4> QED BY <3>4, <3>6, <4>2 DEF name, row
    <3>7. ~Below(target, name)
      <4> SUFFICES ASSUME Below(target, name) PROVE FALSE
        OBVIOUS
      <4>1. ParentNames(target) # {}
        <5>1. Len(name) \in Nat \ {0} /\ Len(target) \in Nat /\ Len(name) < Len(target)
          BY <2>2, <2>13, BelowParts DEF Names
        <5>2. 1 \in 1..(Len(target) - 1)
          BY <5>1
        <5> QED BY <5>2 DEF ParentNames
      <4>2. PICK p \in ParentNames(target) : Same(p, name)
        BY <2>2, <2>13, <4>1, BelowBelow
      <4> QED BY <3>6, <4>2
    <3>8. ~Same(q, name) /\ ~Below(q, name)
      <4>1. CASE q = target
        BY <2>13, <3>6, <3>7, <4>1
      <4>2. CASE q \in ParentNames(target)
        BY <2>2, <2>13, <3>6, <3>7, <4>2, BelowBelow
      <4> QED BY <2>13, <4>1, <4>2
    <3>9. PICK t \in NormalDecks(j) : j.decks[t].name = q
      BY <2>13, <3>2, <3>3 DEF IsThere
    <3>10. t # d
      BY <3>8, <3>9 DEF Same, name, row
    <3> QED BY <2>11, <3>8, <3>9, <3>10 DEF IsThere
  <2>14. ASSUME NEW q \in ParentNames(unique) PROVE IsThere(l, q)
    <3>1. target \in Names /\ (q = target \/ q \in ParentNames(target))
      BY <2>4, <2>5, <2>12, <2>14, AppendedParents
    <3> QED BY <2>13, <3>1
  <2>15. Whole(l)
    BY <2>11, <2>14 DEF Whole
  <2>16. TargetStays(l, target)
    BY <2>13 DEF TargetStays
  <2> QED BY <2>15, <2>16
<1> QED BY <1>1, <1>2

LEMMA ReparentDecksWhole ==
  ASSUME NEW k \in Sound, NEW ids \in Seq(Ids), NEW target \in Names \cup {<<>>},
         TargetStays(k, target)
  PROVE  Grows(k, ReparentDecks(k, ids, target))
<1> DEFINE n == Len(ids)
           X == {j \in Sound : j.failed \/ (Whole(j) /\ TargetStays(j, target))}
<1>1. PICK f : /\ f[{}] = k /\ f[1..n] = ReparentDecks(k, ids, target)
               /\ \A s \in SUBSET (1..n) : s # {} =>
                    f[s] = DropDeck(f[s \ {Max(s)}], ids[Max(s)], target)
  BY ReparentDecksTurns
<1>2. n \in Nat /\ ids \in [1..n -> Ids]
  OBVIOUS
<1> HIDE DEF n
<1>3. ASSUME NEW s \in SUBSET (1..n), s # {}, f[s \ {Max(s)}] \in X PROVE f[s] \in X
  <2> DEFINE j == f[s \ {Max(s)}]
             d == ids[Max(s)]
             l == DropDeck(j, d, target)
  <2>1. d \in Ids /\ j \in X /\ f[s] = l
    BY <1>1, <1>2, <1>3, LastPlace
  <2> HIDE DEF d, j
  <2>2. l \in Sound /\ (j.failed => l.failed)
    BY <2>1, DropDeckSound DEF Extends
  <2>3. (Whole(j) /\ TargetStays(j, target)) => l.failed \/ (Whole(l) /\ TargetStays(l, target))
    BY <2>1, DropDeckWhole
  <2> HIDE DEF l
  <2> QED BY <2>1, <2>2, <2>3
<1>4. ASSUME Whole(k) PROVE f[1..n] \in X
  <2>1. f[{}] \in X
    BY <1>1, <1>4
  <2> HIDE DEF X
  <2> QED BY <1>2, <1>3, <2>1, LeftFoldKeeps
<1> QED BY <1>1, <1>4 DEF Grows

---------------------------------------------------------------------------
(* Cards and filtered decks *)

\* An operation on cards leaves the decks alone.
OnlyCards(k, j) ==
  /\ j \in Sound /\ j.decks = k.decks /\ DOMAIN j.cards = DOMAIN k.cards
  /\ j.now = k.now /\ (k.failed => j.failed)
Touched(k, card) == [card EXCEPT !.mtime = k.now, !.dirty = TRUE]

LEMMA UpdateCardSound ==
  ASSUME NEW k \in Sound, NEW c \in DOMAIN k.cards, NEW card \in CardRow
  PROVE  /\ OnlyCards(k, UpdateCard(k, c, card))
         /\ UpdateCard(k, c, card).cards = [k.cards EXCEPT ![c] = Touched(k, card)]
         /\ UpdateCard(k, c, card).failed = k.failed
<1> DEFINE row == Touched(k, card)
           t == [k.cards EXCEPT ![c] = row]
           j == UpdateCard(k, c, card)
<1>1. row \in CardRow
  BY SoundParts DEF CardRow, Touched
<1>2. j = [k EXCEPT !.cards = t]
  BY DEF UpdateCard, Touched
<1> HIDE DEF row, j
<1>3. k.cards = [x \in DOMAIN k.cards |-> k.cards[x]]
  BY SoundParts, CardTable
<1>4. /\ t = [x \in DOMAIN t |-> t[x]] /\ DOMAIN t = DOMAIN k.cards
      /\ \A x \in DOMAIN t : t[x] \in CardRow
  BY <1>1, <1>3, SoundParts
<1> HIDE DEF t
<1>5. t \in CardTables
  BY <1>4, SoundParts, CardTable
<1>6. /\ j \in Collections /\ j.decks = k.decks /\ j.cards = t
      /\ j.now = k.now /\ j.failed = k.failed
  BY <1>2, <1>5, SoundParts DEF Collections
<1>7. j \in Sound
  BY <1>6, SoundParts DEF Sound
<1> QED BY <1>4, <1>6, <1>7 DEF OnlyCards, j, t, row

LEMMA RestoredQueues ==
  ASSUME NEW card \in CardRow
  PROVE  RestoredQueue(card) \in {"new", "learn", "daylearn", "review"}
<1>1. card.type \in {"new", "learn", "review"}
  BY DEF CardRow
<1> QED BY <1>1 DEF RestoredQueue

LEMMA CardsGoHome ==
  ASSUME NEW card \in CardRow
  PROVE  RemovedFromFiltered(card) \in CardRow
<1> DEFINE home == [card EXCEPT !.did = card.odid, !.odid = 0,
                      !.due = IF card.odue # "zero" THEN card.odue ELSE @,
                      !.odue = "zero"]
<1>1. CASE card.odid = 0
  BY <1>1 DEF RemovedFromFiltered
<1>2. CASE card.odid # 0
  <2>1. card.odid \in Ids
    BY <1>2 DEF CardRow, Ids
  <2>2. home \in CardRow
    BY <2>1 DEF CardRow, Dues
  <2>3. RemovedFromFiltered(card)
          = IF card.queue = "held" THEN home ELSE [home EXCEPT !.queue = RestoredQueue(home)]
    BY <1>2 DEF RemovedFromFiltered
  <2> HIDE DEF home
  <2>4. RestoredQueue(home) \in {"new", "learn", "daylearn", "review"}
    BY <2>2, RestoredQueues
  <2>5. [home EXCEPT !.queue = RestoredQueue(home)] \in CardRow
    BY <2>2, <2>4 DEF CardRow
  <2> QED BY <2>2, <2>3, <2>5
<1> QED BY <1>1, <1>2

LEMMA MovedIntoRow ==
  ASSUME NEW k, NEW d \in Ids, NEW card \in CardRow
  PROVE  MovedInto(k, d, card) \in CardRow
<1>1. card.did \in Nat
  BY DEF CardRow, Ids
<1>2. "review" \in {"new", "learn", "daylearn", "review", "preview", "held"} /\ "position" \in Dues
  BY DEF Dues
<1> QED BY <1>1, <1>2 DEF MovedInto, CardRow

\* The cards of S are changed by F, the others not.
Filled(k, j, S, F) ==
  /\ OnlyCards(k, j)
  /\ \A c \in DOMAIN k.cards :
       j.cards[c] = IF c \in S THEN Touched(k, F[k.cards[c]]) ELSE k.cards[c]

LEMMA CardsFilled ==
  ASSUME NEW k \in Sound, NEW S \in SUBSET (DOMAIN k.cards), NEW F \in [CardRow -> CardRow],
         NEW f, f[{}] = k,
         \A s \in SUBSET S : \A c \in s :
           (c = (CHOOSE x \in s : TRUE) /\ OnlyCards(k, f[s \ {c}])) =>
              f[s] = UpdateCard(f[s \ {c}], c, F[f[s \ {c}].cards[c]])
  PROVE  Filled(k, f[S], S, F)
<1> DEFINE Y == {q \in Sound \X SUBSET S : Filled(k, q[1], q[2], F)}
           g == [s \in SUBSET S |-> <<f[s], s>>]
<1>1. IsFiniteSet(S)
  BY SoundParts, FS_Subset
<1>2. g[{}] \in Y
  <2>1. Filled(k, k, {}, F)
    BY DEF Filled, OnlyCards
  <2> QED BY <2>1
<1>3. ASSUME NEW s \in SUBSET S, NEW c \in s, c = (CHOOSE x \in s : TRUE), g[s \ {c}] \in Y
      PROVE  g[s] \in Y
  <2> DEFINE j == f[s \ {c}]
             card == F[j.cards[c]]
             l == UpdateCard(j, c, card)
  <2>1. j \in Sound /\ Filled(k, j, s \ {c}, F)
    BY <1>3
  <2>2. f[s] = l
    <3>1. OnlyCards(k, f[s \ {c}])
      BY <2>1 DEF Filled
    <3>2. c = (CHOOSE x \in s : TRUE)
      BY <1>3
    <3> HIDE DEF g, Y
    <3> QED BY <3>1, <3>2
  <2>3. c \in DOMAIN j.cards /\ j.cards[c] = k.cards[c] /\ j.cards[c] \in CardRow /\ j.now = k.now
    BY <2>1, SoundParts DEF Filled, OnlyCards
  <2>4. card \in CardRow /\ card = F[k.cards[c]]
    BY <2>3
  <2> HIDE DEF j, card
  <2>5. OnlyCards(j, l) /\ l.cards = [j.cards EXCEPT ![c] = Touched(j, card)]
    BY <2>1, <2>3, <2>4, UpdateCardSound
  <2> HIDE DEF l
  <2>6. OnlyCards(k, l)
    BY <2>1, <2>5 DEF Filled, OnlyCards
  <2>7. ASSUME NEW x \in DOMAIN k.cards
        PROVE  l.cards[x] = IF x \in s THEN Touched(k, F[k.cards[x]]) ELSE k.cards[x]
    <3>1. x \in DOMAIN j.cards
      BY <2>1 DEF Filled, OnlyCards
    <3>2. j.cards[x] = IF x \in s \ {c} THEN Touched(k, F[k.cards[x]]) ELSE k.cards[x]
      BY <2>1 DEF Filled
    <3>3. Touched(j, card) = Touched(k, F[k.cards[c]])
      BY <2>3, <2>4 DEF Touched
    <3> QED BY <1>3, <2>5, <3>1, <3>2, <3>3
  <2>8. Filled(k, l, s, F) /\ l \in Sound
    BY <2>6, <2>7 DEF Filled, OnlyCards
  <2> QED BY <2>2, <2>8
<1>4. g[S] \in Y
  <2> HIDE DEF g, Y
  <2>1. \A s \in SUBSET S : \A c \in s :
          (c = (CHOOSE x \in s : TRUE) /\ g[s \ {c}] \in Y) => g[s] \in Y
    BY <1>3
  <2> QED BY <1>1, <1>2, <2>1, SetFoldKeeps
<1> QED BY <1>4

GoingHome == [card \in CardRow |-> RemovedFromFiltered(card)]

LEMMA ReturnCardsSound ==
  ASSUME NEW k \in Sound, NEW cs \in SUBSET (DOMAIN k.cards)
  PROVE  Filled(k, ReturnCards(k, cs), cs, GoingHome)
<1> DEFINE S == cs
           X == {j \in Sound : OnlyCards(k, j)}
           step(acc, c) == UpdateCard(acc, c, RemovedFromFiltered(acc.cards[c]))
           G == [p \in X \X S |-> step(p[1], p[2])]
           Solves(f) == f = [s \in SUBSET S |->
             IF s = {} THEN k
             ELSE step(f[s \ {CHOOSE x \in s : TRUE}], CHOOSE x \in s : TRUE)]
<1>1. IsFiniteSet(S)
  BY SoundParts, FS_Subset
<1>3. k \in X
  BY DEF OnlyCards
<1>4. ASSUME NEW j \in X, NEW c \in S PROVE step(j, c) \in X
  <2>1. j \in Sound /\ OnlyCards(k, j) /\ DOMAIN j.cards = DOMAIN k.cards
    BY DEF OnlyCards
  <2>2. c \in DOMAIN j.cards /\ j.cards[c] \in CardRow
    BY <2>1, SoundParts
  <2>3. RemovedFromFiltered(j.cards[c]) \in CardRow
    BY <2>2, CardsGoHome
  <2>4. OnlyCards(j, step(j, c))
    BY <2>1, <2>2, <2>3, UpdateCardSound
  <2> HIDE DEF step
  <2> QED BY <2>1, <2>4 DEF OnlyCards
<1>5. ReturnCards(k, cs) = (CHOOSE f : Solves(f))[S]
  BY Zenon DEF ReturnCards, FoldSet, MapThenFoldSet
<1> HIDE DEF S, X, step
<1>6. \E f : Solves(f)
  <2>1. G \in [X \X S -> X]
    BY <1>4
  <2>2. PICK h : SetSolution(h, k, G, S) /\ \A s \in SUBSET S : h[s] \in X
    <3> HIDE DEF G
    <3> QED BY <1>1, <1>3, <2>1, SetFoldExists
  <2>3. ASSUME NEW s \in SUBSET S, s # {}
        PROVE  G[<<h[s \ {CHOOSE x \in s : TRUE}], CHOOSE x \in s : TRUE>>]
                 = step(h[s \ {CHOOSE x \in s : TRUE}], CHOOSE x \in s : TRUE)
    <3>1. (CHOOSE x \in s : TRUE) \in s
      BY <2>3
    <3>2. h[s \ {CHOOSE x \in s : TRUE}] \in X
      BY <2>2
    <3> DEFINE c == CHOOSE x \in s : TRUE
    <3> HIDE DEF c
    <3>3. c \in S /\ h[s \ {c}] \in X
      BY <3>1, <3>2 DEF c
    <3>4. G[<<h[s \ {c}], c>>] = step(h[s \ {c}], c)
      BY <3>3
    <3> QED BY <3>4 DEF c
  <2>4. Solves(h)
    <3> HIDE DEF G
    <3> QED BY <2>2, <2>3 DEF SetSolution
  <2> QED BY <2>4
<1>7. PICK f : Solves(f) /\ f[S] = ReturnCards(k, cs)
  <2> HIDE DEF Solves
  <2>1. Solves(CHOOSE f : Solves(f))
    BY <1>6
  <2> QED BY <1>5, <2>1
<1>8. f[{}] = k
  BY <1>7
<1>9. ASSUME NEW s \in SUBSET S, NEW c \in s, c = (CHOOSE x \in s : TRUE),
             OnlyCards(k, f[s \ {c}])
      PROVE  f[s] = UpdateCard(f[s \ {c}], c, GoingHome[f[s \ {c}].cards[c]])
  <2>1. f[s] = step(f[s \ {c}], c)
    BY <1>7, <1>9
  <2>2. c \in DOMAIN k.cards
    BY DEF S
  <2>3. f[s \ {c}].cards[c] \in CardRow
    BY <1>9, <2>2, SoundParts DEF OnlyCards
  <2> QED BY <2>1, <2>3 DEF step, GoingHome
<1>10. GoingHome \in [CardRow -> CardRow]
  BY CardsGoHome DEF GoingHome
<1>11. S \in SUBSET (DOMAIN k.cards)
  BY DEF S
<1> HIDE DEF Solves
<1>12. Filled(k, f[S], S, GoingHome)
  BY <1>8, <1>9, <1>10, <1>11, CardsFilled
<1> QED BY <1>7, <1>12 DEF S

LEMMA ReturnAllCardsSound ==
  ASSUME NEW k \in Sound, NEW d
  PROVE  /\ OnlyCards(k, ReturnAllCards(k, d))
         /\ \/ ReturnAllCards(k, d) = Fail(k)
            \/ Filled(k, ReturnAllCards(k, d), InDeck(k, d), GoingHome)
<1>1. OnlyCards(k, Fail(k))
  BY FailSound, SoundParts DEF Fail, Collections, OnlyCards
<1>2. InDeck(k, d) \in SUBSET (DOMAIN k.cards)
  BY DEF InDeck
<1>3. Filled(k, ReturnCards(k, InDeck(k, d)), InDeck(k, d), GoingHome)
  BY <1>2, ReturnCardsSound
<1>4. OnlyCards(k, ReturnCards(k, InDeck(k, d)))
  BY <1>3 DEF Filled
<1> QED BY <1>1, <1>3, <1>4 DEF ReturnAllCards

GoingInto(r, d) == [card \in CardRow |-> MovedInto(r, d, card)]

LEMMA RebuildSound ==
  ASSUME NEW k \in Sound, NEW d \in Ids, NEW found
  PROVE  LET r == ReturnAllCards(k, d)
             j == Rebuild(k, d, found) IN
         \/ j = Fail(k)
         \/ /\ IsFiltered(k, d)
            /\ Filled(r, j, found \cap Searchable(r), GoingInto(r, d))
<1> DEFINE r == ReturnAllCards(k, d)
           S == found \cap Searchable(r)
           X == {j \in Sound : OnlyCards(r, j)}
           step(acc, c) == UpdateCard(acc, c, MovedInto(acc, d, acc.cards[c]))
           G == [p \in X \X S |-> step(p[1], p[2])]
           Solves(f) == f = [s \in SUBSET S |->
             IF s = {} THEN r
             ELSE step(f[s \ {CHOOSE x \in s : TRUE}], CHOOSE x \in s : TRUE)]
           filled == FoldSet(LAMBDA c, acc : step(acc, c), r, S)
<1>1. r \in Sound /\ IsFiniteSet(S)
  <2>1. r \in Sound
    BY ReturnAllCardsSound DEF OnlyCards
  <2> HIDE DEF r
  <2>2. IsFiniteSet(DOMAIN r.cards) /\ S \in SUBSET (DOMAIN r.cards)
    BY <2>1, SoundParts DEF Searchable
  <2> HIDE DEF S
  <2>3. IsFiniteSet(S)
    BY <2>2, FS_Subset
  <2> QED BY <2>1, <2>3
<1> HIDE DEF r
<1>3. r \in X
  BY <1>1 DEF OnlyCards
<1>4. ASSUME NEW j \in X, NEW c \in S PROVE step(j, c) \in X
  <2>1. j \in Sound /\ OnlyCards(r, j) /\ DOMAIN j.cards = DOMAIN r.cards
    BY DEF OnlyCards
  <2>2. c \in DOMAIN j.cards /\ j.cards[c] \in CardRow
    BY <2>1, SoundParts DEF Searchable
  <2>3. MovedInto(j, d, j.cards[c]) \in CardRow
    BY <2>2, MovedIntoRow
  <2>4. OnlyCards(j, step(j, c))
    BY <2>1, <2>2, <2>3, UpdateCardSound
  <2> HIDE DEF step
  <2> QED BY <2>1, <2>4 DEF OnlyCards
<1>5. filled = (CHOOSE f : Solves(f))[S]
  BY Zenon DEF FoldSet, MapThenFoldSet
<1> HIDE DEF S, X, step, filled
<1>6. \E f : Solves(f)
  <2>1. G \in [X \X S -> X]
    BY <1>4
  <2>2. PICK h : SetSolution(h, r, G, S) /\ \A s \in SUBSET S : h[s] \in X
    <3> HIDE DEF G
    <3> QED BY <1>1, <1>3, <2>1, SetFoldExists
  <2>3. ASSUME NEW s \in SUBSET S, s # {}
        PROVE  G[<<h[s \ {CHOOSE x \in s : TRUE}], CHOOSE x \in s : TRUE>>]
                 = step(h[s \ {CHOOSE x \in s : TRUE}], CHOOSE x \in s : TRUE)
    <3>1. (CHOOSE x \in s : TRUE) \in s
      BY <2>3
    <3>2. h[s \ {CHOOSE x \in s : TRUE}] \in X
      BY <2>2
    <3> DEFINE c == CHOOSE x \in s : TRUE
    <3> HIDE DEF c
    <3>3. c \in S /\ h[s \ {c}] \in X
      BY <3>1, <3>2 DEF c
    <3>4. G[<<h[s \ {c}], c>>] = step(h[s \ {c}], c)
      BY <3>3
    <3> QED BY <3>4 DEF c
  <2>4. Solves(h)
    <3> HIDE DEF G
    <3> QED BY <2>2, <2>3 DEF SetSolution
  <2> QED BY <2>4
<1>7. PICK f : Solves(f) /\ f[S] = filled
  <2> HIDE DEF Solves
  <2>1. Solves(CHOOSE f : Solves(f))
    BY <1>6
  <2> QED BY <1>5, <2>1
<1>8. f[{}] = r
  BY <1>7
<1>11. S \in SUBSET (DOMAIN r.cards)
  BY DEF S, Searchable
<1>12. ASSUME NEW s \in SUBSET S, NEW c \in s, c = (CHOOSE x \in s : TRUE),
              OnlyCards(r, f[s \ {c}])
       PROVE  f[s] = UpdateCard(f[s \ {c}], c, GoingInto(r, d)[f[s \ {c}].cards[c]])
  <2> DEFINE j == f[s \ {c}]
  <2>1. f[s] = step(j, c)
    BY <1>7, <1>12
  <2>2. j.cards[c] \in CardRow
    BY <1>11, <1>12, SoundParts DEF OnlyCards
  <2>3. MovedInto(j, d, j.cards[c]) = MovedInto(r, d, j.cards[c])
    BY <1>12 DEF MovedInto, OnlyCards
  <2> HIDE DEF j
  <2> QED BY <2>1, <2>2, <2>3 DEF step, GoingInto, j
<1>13. GoingInto(r, d) \in [CardRow -> CardRow]
  BY MovedIntoRow DEF GoingInto
<1>14. Filled(r, filled, S, GoingInto(r, d))
  <2> HIDE DEF Solves
  <2> QED BY <1>1, <1>7, <1>8, <1>11, <1>12, <1>13, CardsFilled
<1>9. CASE IsFiltered(k, d)
  <2>1. Rebuild(k, d, found) = filled
    BY <1>9, Zenon DEF Rebuild, filled, step, S, r
  <2> QED BY <1>9, <1>14, <2>1 DEF S, r
<1>10. CASE ~IsFiltered(k, d)
  BY <1>10 DEF Rebuild
<1> QED BY <1>9, <1>10

---------------------------------------------------------------------------
(* Cards and their homes *)

Home(card) == IF card.odid # 0 THEN card.odid ELSE card.did

\* No card begins with a due value of 0, which says in a filtered deck that none was kept.
DuesKnown == \A c \in Cards : InitialCards[c].due # "zero"

Housed(k, card) ==
  IF card.odid # 0 THEN card.did \in FilteredDecks(k) /\ card.odid \in NormalDecks(k)
  ELSE card.did \in NormalDecks(k)
Kept(c, card) ==
  /\ c \in Cards
  /\ IF card.odid # 0 THEN card.odue = InitialCards[c].due
     ELSE /\ card.due = InitialCards[c].due /\ card.odue = "zero"
          /\ card.queue \in {"held", RestoredQueue(card)}
AtHome(k, c, card) == Housed(k, card) /\ (DuesKnown => Kept(c, card))
Homely(k) == \A c \in DOMAIN k.cards : AtHome(k, c, k.cards[c])

LEMMA TouchedAtHome ==
  ASSUME NEW k, NEW j, NEW c, NEW card \in CardRow, AtHome(k, c, card)
  PROVE  AtHome(k, c, Touched(j, card)) /\ Home(Touched(j, card)) = Home(card)
<1> DEFINE t == Touched(j, card)
<1>1. /\ t.did = card.did /\ t.odid = card.odid /\ t.type = card.type
      /\ t.due = card.due /\ t.odue = card.odue /\ t.queue = card.queue
  BY DEF Touched, CardRow
<1> HIDE DEF t
<1>2. RestoredQueue(t) = RestoredQueue(card)
  BY <1>1 DEF RestoredQueue
<1> QED BY <1>1, <1>2 DEF AtHome, Housed, Kept, Home, t

\* A card that goes home gets back what it left with.
LEMMA GoesHome ==
  ASSUME NEW k, NEW c, NEW card \in CardRow, AtHome(k, c, card)
  PROVE  LET home == RemovedFromFiltered(card) IN
         /\ AtHome(k, c, home) /\ home.odid = 0 /\ home.did = Home(card)
<1> DEFINE home == [card EXCEPT !.did = card.odid, !.odid = 0,
                      !.due = IF card.odue # "zero" THEN card.odue ELSE @,
                      !.odue = "zero"]
           there == RemovedFromFiltered(card)
<1>1. CASE card.odid = 0
  BY <1>1 DEF RemovedFromFiltered, Home
<1>2. CASE card.odid # 0
  <2>1. /\ home.did = card.odid /\ home.odid = 0 /\ home.odue = "zero"
        /\ home.type = card.type /\ home.queue = card.queue
        /\ home.due = (IF card.odue # "zero" THEN card.odue ELSE card.due)
    BY DEF CardRow
  <2>2. there = IF card.queue = "held" THEN home
                ELSE [home EXCEPT !.queue = RestoredQueue(home)]
    BY <1>2 DEF RemovedFromFiltered
  <2>3. home = [home EXCEPT !.queue = home.queue] /\ "queue" \in DOMAIN home
    BY DEF CardRow
  <2> DEFINE queue == IF card.queue = "held" THEN "held" ELSE RestoredQueue(home)
  <2>4. there = [home EXCEPT !.queue = queue]
    BY <2>1, <2>2, <2>3
  <2> HIDE DEF home
  <2>5. /\ there.did = card.odid /\ there.odid = 0 /\ there.odue = "zero"
        /\ there.type = home.type /\ there.due = home.due /\ there.queue = queue
    BY <2>1, <2>3, <2>4
  <2> HIDE DEF there
  <2>6. RestoredQueue(there) = RestoredQueue(home)
    BY <2>5 DEF RestoredQueue
  <2>7. Housed(k, there) /\ there.did = Home(card)
    BY <1>2, <2>5 DEF AtHome, Housed, Home
  <2>8. ASSUME DuesKnown PROVE Kept(c, there)
    <3>1. c \in Cards /\ card.odue = InitialCards[c].due
      BY <1>2, <2>8 DEF AtHome, Kept
    <3>2. card.odue # "zero"
      BY <2>8, <3>1 DEF DuesKnown
    <3> QED BY <2>1, <2>5, <2>6, <3>1, <3>2 DEF Kept
  <2> QED BY <2>5, <2>7, <2>8 DEF AtHome, there
<1> QED BY <1>1, <1>2

\* A card that is gathered by a filtered deck takes its home and its due value with it.
LEMMA GoesInto ==
  ASSUME NEW k, NEW c, NEW d \in FilteredDecks(k), d # 0, NEW card \in CardRow,
         card.odid = 0, AtHome(k, c, card)
  PROVE  LET there == MovedInto(k, d, card) IN
         AtHome(k, c, there) /\ Home(there) = Home(card)
<1> DEFINE there == MovedInto(k, d, card)
<1>1. CASE card.odue # "zero"
  BY <1>1 DEF MovedInto
<1>2. CASE card.odue = "zero"
  <2>1. /\ there.did = d /\ there.odid = card.did /\ there.odue = card.due
    BY <1>2 DEF MovedInto, CardRow
  <2>2. card.did # 0
    BY DEF CardRow, Ids
  <2> HIDE DEF there
  <2>3. Housed(k, there) /\ Home(there) = Home(card)
    BY <2>1, <2>2 DEF AtHome, Housed, Home
  <2>4. ASSUME DuesKnown PROVE Kept(c, there)
    BY <2>1, <2>2, <2>4 DEF AtHome, Kept
  <2> QED BY <2>3, <2>4 DEF AtHome, there
<1> QED BY <1>1, <1>2

\* Where a card is depends on which decks there are, and of which kind.
LEMMA SameDecksAtHome ==
  ASSUME NEW k, NEW j, NEW c, NEW card, AtHome(k, c, card),
         card.did \in DOMAIN k.decks => card.did \in DOMAIN j.decks,
         card.odid \in DOMAIN k.decks => card.odid \in DOMAIN j.decks,
         \A d \in DOMAIN k.decks \cap DOMAIN j.decks : IsFiltered(j, d) <=> IsFiltered(k, d)
  PROVE  AtHome(j, c, card)
BY DEF AtHome, Housed, NormalDecks, FilteredDecks

\* What a successful operation may do to cards: the cards it removes lose their home deck,
\* the default deck apart, and the others are at home, or know theirs.
Loses(k, j) ==
  \A c \in DOMAIN k.cards \ DOMAIN j.cards :
    Home(k.cards[c]) = Default \/ Home(k.cards[c]) \notin DOMAIN j.decks
Keeps(k, j) == j \in Sound /\ (Homely(k) => Homely(j) /\ Loses(k, j))

LEMMA KeepsSteps ==
  ASSUME NEW k \in Sound, NEW j \in Sound
  PROVE  /\ Keeps(k, k)
         /\ Extends(k, j) => Keeps(k, j)
         /\ (j.decks = k.decks /\ j.cards = k.cards) => Keeps(k, j)
<1>1. Keeps(k, k)
  BY DEF Keeps, Loses
<1>2. ASSUME Extends(k, j) PROVE Keeps(k, j)
  <2>1. /\ j.cards = k.cards /\ DOMAIN k.decks \subseteq DOMAIN j.decks
        /\ \A d \in DOMAIN k.decks : IsFiltered(j, d) <=> IsFiltered(k, d)
    BY <1>2 DEF Extends
  <2>2. ASSUME Homely(k) PROVE Homely(j)
    <3>1. ASSUME NEW c \in DOMAIN j.cards PROVE AtHome(j, c, j.cards[c])
      <4>1. AtHome(k, c, j.cards[c])
        BY <2>1, <2>2 DEF Homely
      <4> QED BY <2>1, <4>1, SameDecksAtHome
    <3> QED BY <3>1 DEF Homely
  <2> QED BY <2>1, <2>2 DEF Keeps, Loses
<1>3. ASSUME j.decks = k.decks, j.cards = k.cards PROVE Keeps(k, j)
  <2>1. ASSUME NEW c, NEW card PROVE AtHome(k, c, card) <=> AtHome(j, c, card)
    BY <1>3 DEF AtHome, Housed, NormalDecks, FilteredDecks, IsFiltered
  <2> QED BY <1>3, <2>1 DEF Keeps, Homely, Loses
<1> QED BY <1>1, <1>2, <1>3

\* Cards that are changed one by one stay at home.
LEMMA FilledKeeps ==
  ASSUME NEW k \in Sound, NEW j, NEW S \in SUBSET (DOMAIN k.cards), NEW F \in [CardRow -> CardRow],
         Filled(k, j, S, F),
         \A c \in S : AtHome(k, c, k.cards[c]) => AtHome(k, c, F[k.cards[c]])
  PROVE  Keeps(k, j)
<1>1. /\ j \in Sound /\ j.decks = k.decks /\ DOMAIN j.cards = DOMAIN k.cards
      /\ \A c \in DOMAIN k.cards :
           j.cards[c] = IF c \in S THEN Touched(k, F[k.cards[c]]) ELSE k.cards[c]
  BY DEF Filled, OnlyCards
<1>2. ASSUME Homely(k), NEW c \in DOMAIN k.cards PROVE AtHome(j, c, j.cards[c])
  <2>1. k.cards[c] \in CardRow /\ F[k.cards[c]] \in CardRow
    BY SoundParts
  <2>2. AtHome(k, c, k.cards[c])
    BY <1>2 DEF Homely
  <2>3. c \in S => AtHome(k, c, Touched(k, F[k.cards[c]]))
    BY <2>1, <2>2, TouchedAtHome
  <2>4. AtHome(k, c, j.cards[c])
    BY <1>1, <2>2, <2>3
  <2>5. \A d \in DOMAIN k.decks : IsFiltered(j, d) <=> IsFiltered(k, d)
    BY <1>1 DEF IsFiltered
  <2> QED BY <1>1, <2>4, <2>5, SameDecksAtHome
<1>3. Homely(k) => Homely(j)
  BY <1>1, <1>2 DEF Homely
<1>4. Loses(k, j)
  BY <1>1 DEF Loses
<1> QED BY <1>1, <1>3, <1>4 DEF Keeps

LEMMA GoingHomeKeeps ==
  ASSUME NEW k \in Sound, NEW j, NEW S \in SUBSET (DOMAIN k.cards), Filled(k, j, S, GoingHome)
  PROVE  Keeps(k, j)
<1>1. GoingHome \in [CardRow -> CardRow]
  BY CardsGoHome DEF GoingHome
<1>2. ASSUME NEW c \in S, AtHome(k, c, k.cards[c]) PROVE AtHome(k, c, GoingHome[k.cards[c]])
  <2>1. k.cards[c] \in CardRow
    BY SoundParts
  <2> QED BY <1>2, <2>1, GoesHome DEF GoingHome
<1> QED BY <1>1, <1>2, FilledKeeps

LEMMA ReturnAllCardsKeeps ==
  ASSUME NEW k \in Sound, NEW d
  PROVE  Keeps(k, ReturnAllCards(k, d))
<1>1. InDeck(k, d) \in SUBSET (DOMAIN k.cards)
  BY DEF InDeck
<1>2. Keeps(k, Fail(k))
  BY FailSound, KeepsSteps
<1> QED BY <1>1, <1>2, ReturnAllCardsSound, GoingHomeKeeps

LEMMA RebuildKeeps ==
  ASSUME NEW k \in Sound, NEW d \in DOMAIN k.decks, NEW found
  PROVE  Keeps(k, Rebuild(k, d, found))
<1> DEFINE r == ReturnAllCards(k, d)
           j == Rebuild(k, d, found)
           S == found \cap Searchable(r)
<1>1. r \in Sound /\ Keeps(k, r) /\ r.decks = k.decks /\ DOMAIN r.cards = DOMAIN k.cards
  BY ReturnAllCardsKeeps, ReturnAllCardsSound DEF OnlyCards
<1>2. d \in Ids
  BY SoundParts
<1>3. CASE j = Fail(k)
  BY <1>3, FailSound, KeepsSteps
<1>4. CASE IsFiltered(k, d) /\ Filled(r, j, S, GoingInto(r, d))
  <2> HIDE DEF j
  <2>1. S \in SUBSET (DOMAIN r.cards) /\ \A c \in S : r.cards[c].odid = 0
    BY DEF Searchable
  <2> HIDE DEF r, S
  <2>2. GoingInto(r, d) \in [CardRow -> CardRow]
    BY <1>2, MovedIntoRow DEF GoingInto
  <2>3. d \in FilteredDecks(r) /\ d # 0
    BY <1>1, <1>2, <1>4 DEF FilteredDecks, IsFiltered, Ids
  <2>4. ASSUME NEW c \in S, AtHome(r, c, r.cards[c])
        PROVE  AtHome(r, c, GoingInto(r, d)[r.cards[c]])
    <3>1. r.cards[c] \in CardRow
      BY <1>1, <2>1, SoundParts
    <3> QED BY <2>1, <2>3, <2>4, <3>1, GoesInto DEF GoingInto
  <2>5. Keeps(r, j)
    BY <1>1, <1>4, <2>1, <2>2, <2>4, FilledKeeps
  <2>6. DOMAIN j.cards = DOMAIN k.cards
    BY <1>1, <1>4 DEF Filled, OnlyCards
  <2>7. Keeps(k, j)
    BY <1>1, <2>5, <2>6 DEF Keeps, Loses
  <2> QED BY <2>7 DEF j
<1> QED BY <1>2, <1>3, <1>4, RebuildSound

LEMMA RebuildOnlyCards ==
  ASSUME NEW k \in Sound, NEW d \in Ids, NEW found
  PROVE  OnlyCards(k, Rebuild(k, d, found))
<1> DEFINE r == ReturnAllCards(k, d)
           j == Rebuild(k, d, found)
<1>1. OnlyCards(k, r)
  BY ReturnAllCardsSound
<1>2. OnlyCards(k, Fail(k))
  BY FailSound, SoundParts DEF Fail, Collections, OnlyCards
<1>3. j = Fail(k) \/ OnlyCards(r, j)
  BY RebuildSound DEF Filled
<1> HIDE DEF r, j
<1>4. OnlyCards(k, j)
  BY <1>1, <1>2, <1>3 DEF OnlyCards
<1> QED BY <1>4 DEF j

LEMMA SaveFilteredKeeps ==
  ASSUME NEW k \in Sound, NEW d \in FilteredDecks(k) \cup {0}, NEW name \in Names,
         NEW kind \in FilteredKinds, NEW found, NEW allowEmpty
  PROVE  /\ Keeps(k, AddOrUpdateFilteredDeck(k, d, name, kind, found, allowEmpty))
         /\ Grows(k, AddOrUpdateFilteredDeck(k, d, name, kind, found, allowEmpty))
<1> DEFINE saved == IF d = 0 THEN AddDeck(k, name, kind) ELSE UpdateDeck(k, d, name, kind)
           added == {e \in DOMAIN saved.decks : e \notin DOMAIN k.decks}
           new == added \cup {0}
           id == IF d = 0 THEN Max(new) ELSE d
<1>1. saved \in Sound /\ Extends(k, saved) /\ Grows(k, saved)
  <2>1. kind \in Kinds /\ kind # "normal"
    BY DEF FilteredKinds
  <2>2. d # 0 => d \in DOMAIN k.decks /\ IsFiltered(k, d)
    BY DEF FilteredDecks
  <2>3. ASSUME d = 0 PROVE AddDeck(k, name, kind) \in Sound /\ Extends(k, AddDeck(k, name, kind))
    BY <2>1, AddDeckSound, AddsSteps DEF DeckAdded
  <2>4. ASSUME d # 0
        PROVE  UpdateDeck(k, d, name, kind) \in Sound /\ Extends(k, UpdateDeck(k, d, name, kind))
    BY <2>1, <2>2, <2>4, UpdateDeckSound
  <2>5. d = 0 => Grows(k, AddDeck(k, name, kind))
    BY <2>1, AddDeckWhole
  <2>6. d # 0 => Grows(k, UpdateDeck(k, d, name, kind))
    BY <2>1, <2>2, UpdateDeckWhole
  <2> QED BY <2>3, <2>4, <2>5, <2>6
<1> HIDE DEF saved
<1>2. Max(new) \in new
  <2>1. DOMAIN saved.decks \in SUBSET Ids /\ IsFiniteSet(DOMAIN saved.decks)
    BY <1>1, SoundParts
  <2>2. IsFiniteSet(added)
    BY <2>1, FS_Subset
  <2>3. new \in SUBSET Nat /\ new # {} /\ new = added \cup {0}
    BY <2>1 DEF Ids
  <2> HIDE DEF added
  <2>4. IsFiniteSet(new)
    BY <2>2, <2>3, FS_AddElement
  <2> HIDE DEF new
  <2> QED BY <2>3, <2>4, LeastAndGreatest
<1>3. id # 0 => id \in DOMAIN saved.decks
  <2>1. new \subseteq DOMAIN saved.decks \cup {0}
    OBVIOUS
  <2> HIDE DEF new
  <2>2. d # 0 => d \in DOMAIN saved.decks
    BY <1>1 DEF Extends, FilteredDecks
  <2> QED BY <1>2, <2>1, <2>2
<1>4. AddOrUpdateFilteredDeck(k, d, name, kind, found, allowEmpty)
        = IF saved.failed \/ id = 0 THEN Fail(k)
          ELSE IF ~allowEmpty /\ found \cap Searchable(ReturnAllCards(saved, id)) = {}
          THEN Fail(k)
          ELSE Rebuild(saved, id, found)
  BY DEF AddOrUpdateFilteredDeck, saved
<1> HIDE DEF id
<1>5. ASSUME id # 0
      PROVE  Keeps(k, Rebuild(saved, id, found)) /\ Grows(k, Rebuild(saved, id, found))
  <2> DEFINE j == Rebuild(saved, id, found)
  <2>1. Keeps(saved, j) /\ Keeps(k, saved)
    BY <1>1, <1>3, <1>5, RebuildKeeps, KeepsSteps
  <2>4. OnlyCards(saved, j)
    BY <1>1, <1>3, <1>5, SoundParts, RebuildOnlyCards
  <2> HIDE DEF j
  <2>2. saved.cards = k.cards
    BY <1>1 DEF Extends
  <2>3. Keeps(k, j)
    BY <2>1, <2>2 DEF Keeps, Loses
  <2>5. Grows(k, j)
    BY <1>1, <2>4, GrowsSteps DEF OnlyCards
  <2> QED BY <2>3, <2>5 DEF j
<1>6. Keeps(k, Fail(k)) /\ Grows(k, Fail(k))
  BY FailSound, KeepsSteps, GrowsSteps
<1> QED BY <1>4, <1>5, <1>6

---------------------------------------------------------------------------
(* Removing decks *)

\* Fewer decks and fewer cards.
LEMMA Without ==
  ASSUME NEW k \in Sound, NEW D, NEW C
  PROVE  [k EXCEPT !.decks = [d \in DOMAIN @ \ D |-> @[d]],
                   !.cards = [c \in DOMAIN @ \ C |-> @[c]]] \in Sound
<1> DEFINE decks == [d \in DOMAIN k.decks \ D |-> k.decks[d]]
           cards == [c \in DOMAIN k.cards \ C |-> k.cards[c]]
           j == [k EXCEPT !.decks = decks, !.cards = cards]
<1>1. decks \in DeckTables
  <2>1. /\ DOMAIN decks \in SUBSET (DOMAIN k.decks) /\ decks = [d \in DOMAIN decks |-> decks[d]]
        /\ \A d \in DOMAIN decks : decks[d] = k.decks[d]
    OBVIOUS
  <2> HIDE DEF decks
  <2>2. IsFiniteSet(DOMAIN decks)
    BY <2>1, SoundParts, FS_Subset
  <2> QED BY <2>1, <2>2, SoundParts, DeckTable
<1>2. cards \in CardTables
  <2>1. /\ DOMAIN cards \in SUBSET (DOMAIN k.cards) /\ cards = [d \in DOMAIN cards |-> cards[d]]
        /\ \A d \in DOMAIN cards : cards[d] = k.cards[d]
    OBVIOUS
  <2> HIDE DEF cards
  <2>2. IsFiniteSet(DOMAIN cards)
    BY <2>1, SoundParts, FS_Subset
  <2> QED BY <2>1, <2>2, SoundParts, CardTable
<1>3. NamesDiffer(decks)
  BY SoundParts DEF NamesDiffer
<1> HIDE DEF decks, cards
<1>4. j \in Collections /\ j.decks = decks
  BY <1>1, <1>2, SoundParts DEF Collections
<1>5. j \in Sound
  BY <1>3, <1>4 DEF Sound
<1>6. j = [k EXCEPT !.decks = [d \in DOMAIN @ \ D |-> @[d]],
                    !.cards = [c \in DOMAIN @ \ C |-> @[c]]]
  BY DEF decks, cards
<1> HIDE DEF j
<1> QED BY <1>5, <1>6

LEMMA RemoveCardsSound ==
  ASSUME NEW k \in Sound, NEW cs \in SUBSET (DOMAIN k.cards)
  PROVE  RemoveCards(k, cs) \in Sound /\ RemoveCards(k, cs).decks = k.decks
<1> DEFINE cards == [c \in DOMAIN k.cards \ cs |-> k.cards[c]]
           j == [k EXCEPT !.cards = cards, !.graves = k.graves \cup cs]
<1>1. cards \in CardTables
  <2>1. /\ DOMAIN cards \in SUBSET (DOMAIN k.cards) /\ cards = [d \in DOMAIN cards |-> cards[d]]
        /\ \A d \in DOMAIN cards : cards[d] = k.cards[d]
    OBVIOUS
  <2> HIDE DEF cards
  <2>2. IsFiniteSet(DOMAIN cards)
    BY <2>1, SoundParts, FS_Subset
  <2> QED BY <2>1, <2>2, SoundParts, CardTable
<1>2. cs \in SUBSET Nat
  BY SoundParts DEF Ids
<1>3. RemoveCards(k, cs) = j
  BY DEF RemoveCards
<1> HIDE DEF cards
<1>4. j \in Collections /\ j.decks = k.decks
  BY <1>1, <1>2, SoundParts DEF Collections
<1> HIDE DEF j
<1> QED BY <1>3, <1>4, SoundParts DEF Sound

LEMMA WithoutDecks ==
  ASSUME NEW k \in Sound, NEW D, NEW g \in SUBSET Nat
  PROVE  [k EXCEPT !.decks = [d \in DOMAIN @ \ D |-> @[d]], !.graves = g] \in Sound
<1> DEFINE decks == [d \in DOMAIN k.decks \ D |-> k.decks[d]]
           j == [k EXCEPT !.decks = decks, !.graves = g]
<1>1. decks \in DeckTables
  <2>1. /\ DOMAIN decks \in SUBSET (DOMAIN k.decks) /\ decks = [d \in DOMAIN decks |-> decks[d]]
        /\ \A d \in DOMAIN decks : decks[d] = k.decks[d]
    OBVIOUS
  <2> HIDE DEF decks
  <2>2. IsFiniteSet(DOMAIN decks)
    BY <2>1, SoundParts, FS_Subset
  <2> QED BY <2>1, <2>2, SoundParts, DeckTable
<1>3. NamesDiffer(decks)
  BY SoundParts DEF NamesDiffer
<1>4. [k EXCEPT !.decks = [d \in DOMAIN @ \ D |-> @[d]], !.graves = g] = j
  OBVIOUS
<1> HIDE DEF decks
<1>5. j \in Collections /\ j.decks = decks
  BY <1>1, SoundParts DEF Collections
<1> HIDE DEF j
<1> QED BY <1>3, <1>4, <1>5 DEF Sound

\* Removing decks and cards leaves the other decks their kind and the other cards their home.
Sheds(k, j) ==
  /\ Homely(j)
  /\ DOMAIN j.decks \subseteq DOMAIN k.decks /\ DOMAIN j.cards \subseteq DOMAIN k.cards
  /\ Default \in DOMAIN k.decks => Default \in DOMAIN j.decks
  /\ \A d \in DOMAIN j.decks : j.decks[d].kind = k.decks[d].kind
  /\ \A c \in DOMAIN j.cards : Home(j.cards[c]) = Home(k.cards[c])
  /\ Loses(k, j)

LEMMA ShedsSteps ==
  ASSUME NEW k, NEW j, NEW l
  PROVE  /\ Homely(k) => Sheds(k, k)
         /\ Sheds(k, j) /\ Sheds(j, l) => Sheds(k, l)
<1>1. Homely(k) => Sheds(k, k)
  BY DEF Sheds, Loses
<1>2. ASSUME Sheds(k, j), Sheds(j, l) PROVE Sheds(k, l)
  <2>1. ASSUME NEW c \in DOMAIN k.cards \ DOMAIN l.cards
        PROVE  Home(k.cards[c]) = Default \/ Home(k.cards[c]) \notin DOMAIN l.decks
    <3>1. CASE c \in DOMAIN j.cards
      <4>1. Home(j.cards[c]) = Default \/ Home(j.cards[c]) \notin DOMAIN l.decks
        BY <1>2, <3>1 DEF Sheds, Loses
      <4>2. Home(j.cards[c]) = Home(k.cards[c])
        BY <1>2, <3>1 DEF Sheds
      <4> QED BY <4>1, <4>2
    <3>2. CASE c \notin DOMAIN j.cards
      <4>1. Home(k.cards[c]) = Default \/ Home(k.cards[c]) \notin DOMAIN j.decks
        BY <1>2, <3>2 DEF Sheds, Loses
      <4> QED BY <1>2, <4>1 DEF Sheds
    <3> QED BY <3>1, <3>2
  <2> QED BY <1>2, <2>1 DEF Sheds, Loses
<1> QED BY <1>1, <1>2

\* The cards of a deck are removed with it when it is their home, or else go home.
Emptied(k, d, row) == IF row.kind = "normal" THEN RemoveCards(k, InDeck(k, d))
                      ELSE ReturnCards(k, InDeck(k, d))

LEMMA EmptiedSound ==
  ASSUME NEW k \in Sound, NEW d \in Ids, NEW row
  PROVE  LET j == Emptied(k, d, row) IN
         /\ j \in Sound /\ j.decks = k.decks
         /\ (Homely(k) /\ (d \in DOMAIN k.decks => row.kind = k.decks[d].kind)) =>
              /\ Homely(j) /\ DOMAIN j.cards \subseteq DOMAIN k.cards
              /\ \A c \in DOMAIN j.cards :
                   /\ j.cards[c].did # d /\ j.cards[c].odid # d
                   /\ Home(j.cards[c]) = Home(k.cards[c])
              /\ \A c \in DOMAIN k.cards \ DOMAIN j.cards : Home(k.cards[c]) = d
<1> DEFINE j == Emptied(k, d, row)
           S == InDeck(k, d)
<1>1. S \in SUBSET (DOMAIN k.cards)
  BY DEF InDeck
<1>2. \A c \in DOMAIN k.cards : c \in S <=> (k.cards[c].did = d \/ k.cards[c].odid = d)
  BY DEF InDeck
<1>3. \A c \in DOMAIN k.cards : k.cards[c] \in CardRow
  BY SoundParts
<1>4. CASE row.kind = "normal"
  <2>1. j = RemoveCards(k, S)
    BY <1>4 DEF Emptied
  <2>2. j \in Sound /\ j.decks = k.decks
    BY <1>1, <2>1, RemoveCardsSound
  <2>3. j.cards = [c \in DOMAIN k.cards \ S |-> k.cards[c]]
    BY <2>1, SoundParts DEF RemoveCards, Collections
  <2> HIDE DEF j, S
  <2>4. DOMAIN j.cards = DOMAIN k.cards \ S /\ \A c \in DOMAIN j.cards : j.cards[c] = k.cards[c]
    BY <2>3
  <2>5. ASSUME Homely(k) PROVE Homely(j)
    <3>1. ASSUME NEW c \in DOMAIN j.cards PROVE AtHome(j, c, j.cards[c])
      <4>1. AtHome(k, c, j.cards[c])
        BY <2>4, <2>5 DEF Homely
      <4>2. \A e \in DOMAIN k.decks : IsFiltered(j, e) <=> IsFiltered(k, e)
        BY <2>2 DEF IsFiltered
      <4> QED BY <2>2, <4>1, <4>2, SameDecksAtHome
    <3> QED BY <3>1 DEF Homely
  <2>6. ASSUME Homely(k), d \in DOMAIN k.decks => row.kind = k.decks[d].kind, NEW c \in S
        PROVE  Home(k.cards[c]) = d
    <3>1. AtHome(k, c, k.cards[c])
      BY <1>1, <2>6 DEF Homely
    <3>2. k.cards[c].did = d \/ k.cards[c].odid = d
      BY <1>1, <1>2
    <3> QED BY <1>4, <2>6, <3>1, <3>2 DEF AtHome, Housed, NormalDecks, FilteredDecks, IsFiltered,
                                        Home, Ids
  <2> QED BY <1>2, <2>2, <2>4, <2>5, <2>6 DEF j
<1>5. CASE row.kind # "normal"
  <2>1. j = ReturnCards(k, S)
    BY <1>5 DEF Emptied
  <2>2. Filled(k, j, S, GoingHome)
    BY <1>1, <2>1, ReturnCardsSound
  <2> HIDE DEF j, S
  <2>3. /\ j \in Sound /\ j.decks = k.decks /\ DOMAIN j.cards = DOMAIN k.cards
        /\ \A c \in DOMAIN k.cards :
             j.cards[c] = IF c \in S THEN Touched(k, GoingHome[k.cards[c]]) ELSE k.cards[c]
    BY <2>2 DEF Filled, OnlyCards
  <2>4. Keeps(k, j)
    BY <1>1, <2>2, GoingHomeKeeps
  <2>5. ASSUME Homely(k), d \in DOMAIN k.decks => row.kind = k.decks[d].kind,
               NEW c \in DOMAIN k.cards
        PROVE  /\ j.cards[c].did # d /\ j.cards[c].odid # d
               /\ Home(j.cards[c]) = Home(k.cards[c])
    <3> DEFINE card == k.cards[c]
               home == RemovedFromFiltered(card)
    <3>1. AtHome(k, c, card) /\ card \in CardRow
      BY <1>3, <2>5 DEF Homely
    <3>2. CASE c \notin S
      BY <1>2, <2>3, <3>2
    <3>3. CASE c \in S
      <4>1. home.odid = 0 /\ home.did = Home(card) /\ home \in CardRow
        BY <3>1, GoesHome, CardsGoHome
      <4>2. j.cards[c] = Touched(k, home)
        BY <2>3, <3>1, <3>3 DEF GoingHome
      <4>3. Home(card) \in NormalDecks(k)
        BY <3>1 DEF AtHome, Housed, Home
      <4>4. Home(card) # d
        BY <1>5, <2>5, <4>3 DEF NormalDecks, IsFiltered
      <4> HIDE DEF card, home
      <4>5. j.cards[c].odid = 0 /\ j.cards[c].did = Home(card)
        BY <4>1, <4>2 DEF Touched, CardRow
      <4> QED BY <4>4, <4>5 DEF Home, Ids, card
    <3> QED BY <3>2, <3>3
  <2> QED BY <2>3, <2>4, <2>5 DEF j, Keeps
<1> QED BY <1>4, <1>5

LEMMA DefaultNamed ==
  <<Component(DefaultWord)>> \in Names /\ Len(<<Component(DefaultWord)>>) = 1
<1> DEFINE c == Component(DefaultWord)
<1>1. <<>> \in Seq({"+", "*"})
  OBVIOUS
<1>2. c \in Components
  BY <1>1, WordsAssumption DEF Component, Components, NameSuffixes
<1> HIDE DEF c
<1>3. <<c>> \in Seq(Components) /\ <<c>> # <<>> /\ Len(<<c>>) = 1
  BY <1>2
<1> QED BY <1>3 DEF Names, c

\* A deck is removed with its cards, or without the cards it has to give back.
LEMMA RemoveSingleDeckSound ==
  ASSUME NEW k \in Sound, NEW d \in Ids, NEW row \in DeckRow
  PROVE  /\ RemoveSingleDeck(k, d, row) \in Sound
         /\ (/\ Homely(k) /\ (d \in DOMAIN k.decks => row.kind = k.decks[d].kind)
             /\ (d = Default => d \in DOMAIN k.decks)) =>
               Sheds(k, RemoveSingleDeck(k, d, row))
<1> DEFINE emptied == Emptied(k, d, row)
           unique == UniqueName(emptied, d, <<Component(DefaultWord)>>)
           named == [row EXCEPT !.name = unique]
           changed == Modified(k, named)
           default == UpdateRow(emptied, d, changed)
           gone == [emptied EXCEPT !.decks = [e \in DOMAIN @ \ {d} |-> @[e]],
                                   !.graves = @ \cup {d}]
           j == RemoveSingleDeck(k, d, row)
           Expected == /\ Homely(k) /\ (d \in DOMAIN k.decks => row.kind = k.decks[d].kind)
                       /\ (d = Default => d \in DOMAIN k.decks)
<1>2. /\ emptied \in Sound /\ emptied.decks = k.decks
      /\ Expected =>
           /\ Homely(emptied) /\ DOMAIN emptied.cards \subseteq DOMAIN k.cards
           /\ \A c \in DOMAIN emptied.cards :
                /\ emptied.cards[c].did # d /\ emptied.cards[c].odid # d
                /\ Home(emptied.cards[c]) = Home(k.cards[c])
           /\ \A c \in DOMAIN k.cards \ DOMAIN emptied.cards : Home(k.cards[c]) = d
  <2>1. /\ emptied \in Sound /\ emptied.decks = k.decks
        /\ (Homely(k) /\ (d \in DOMAIN k.decks => row.kind = k.decks[d].kind)) =>
             /\ Homely(emptied) /\ DOMAIN emptied.cards \subseteq DOMAIN k.cards
             /\ \A c \in DOMAIN emptied.cards :
                  /\ emptied.cards[c].did # d /\ emptied.cards[c].odid # d
                  /\ Home(emptied.cards[c]) = Home(k.cards[c])
             /\ \A c \in DOMAIN k.cards \ DOMAIN emptied.cards : Home(k.cards[c]) = d
    BY EmptiedSound
  <2> HIDE DEF emptied
  <2> QED BY <2>1
<1>3. j = IF d = Default THEN default ELSE gone
  BY DEF RemoveSingleDeck, Emptied
<1> HIDE DEF emptied
<1>4. <<Component(DefaultWord)>> \in Names
  BY DefaultNamed
<1>5. unique \in Names
  BY <1>2, <1>4, UniqueNameFree
<1> HIDE DEF unique
<1>6. named \in DeckRow /\ named.kind = row.kind
  BY <1>5 DEF DeckRow
<1> HIDE DEF named
<1>7. changed \in DeckRow /\ changed.kind = row.kind
  BY <1>6, ModifiedRow
<1> HIDE DEF changed
<1>8. /\ default \in Sound /\ default.cards = emptied.cards
      /\ d \in DOMAIN k.decks =>
           /\ DOMAIN default.decks = DOMAIN k.decks
           /\ \A e \in DOMAIN k.decks :
                \/ default.decks[e].kind = k.decks[e].kind
                \/ e = d /\ default.decks[e].kind = row.kind
  <2>1. /\ default \in Sound /\ default.cards = emptied.cards
        /\ \/ default.decks = k.decks
           \/ default.decks = [e \in DOMAIN k.decks \cup {d} |->
                                 IF e = d THEN changed ELSE k.decks[e]]
    BY <1>2, <1>7, UpdateRowSound
  <2> HIDE DEF default
  <2>2. CASE default.decks = k.decks
    BY <2>1, <2>2
  <2>3. CASE default.decks = [e \in DOMAIN k.decks \cup {d} |->
                                IF e = d THEN changed ELSE k.decks[e]]
    BY <1>7, <2>1, <2>3
  <2> QED BY <2>1, <2>2, <2>3
<1> HIDE DEF default
<1>9. /\ gone \in Sound /\ gone.cards = emptied.cards
      /\ gone.decks = [e \in DOMAIN k.decks \ {d} |-> k.decks[e]]
  <2>1. emptied.graves \cup {d} \in SUBSET Nat
    BY <1>2, SoundParts DEF Ids
  <2>2. gone = [emptied EXCEPT !.decks = [e \in DOMAIN @ \ {d} |-> @[e]],
                               !.graves = emptied.graves \cup {d}]
    OBVIOUS
  <2>3. gone.cards = emptied.cards /\ gone.decks = [e \in DOMAIN k.decks \ {d} |-> k.decks[e]]
    BY <1>2, SoundParts DEF Collections
  <2> HIDE DEF gone
  <2> QED BY <1>2, <2>1, <2>2, <2>3, WithoutDecks
<1> HIDE DEF gone, j
<1>10. ASSUME Expected PROVE Sheds(k, j)
  <2>1. /\ j.cards = emptied.cards /\ DOMAIN j.decks \subseteq DOMAIN k.decks
        /\ DOMAIN k.decks \ {d} \subseteq DOMAIN j.decks
        /\ d = Default => d \in DOMAIN j.decks
        /\ d # Default => d \notin DOMAIN j.decks
        /\ \A e \in DOMAIN j.decks : j.decks[e].kind = k.decks[e].kind
    <3>1. CASE d = Default
      BY <1>3, <1>8, <1>10, <3>1 DEF j
    <3>2. CASE d # Default
      BY <1>3, <1>9, <3>2 DEF j
    <3> QED BY <3>1, <3>2
  <2>2. ASSUME NEW c \in DOMAIN j.cards PROVE AtHome(j, c, j.cards[c])
    <3>1. AtHome(emptied, c, j.cards[c]) /\ j.cards[c].did # d /\ j.cards[c].odid # d
      BY <1>2, <1>10, <2>1 DEF Homely
    <3>2. \A e \in DOMAIN j.decks : IsFiltered(j, e) <=> IsFiltered(emptied, e)
      BY <1>2, <2>1 DEF IsFiltered
    <3> QED BY <1>2, <2>1, <3>1, <3>2, SameDecksAtHome
  <2>3. Loses(k, j)
    BY <1>2, <1>10, <2>1 DEF Loses
  <2>4. Default \in DOMAIN k.decks => Default \in DOMAIN j.decks
    BY <2>1
  <2>5. Homely(j)
    BY <2>2 DEF Homely
  <2> QED BY <1>2, <1>10, <2>1, <2>3, <2>4, <2>5 DEF Sheds
<1> HIDE DEF Expected
<1> QED BY <1>3, <1>8, <1>9, <1>10 DEF Expected, j

\* A deck disappears, or is the default deck, which moves to the top level.
LEMMA RemovedDeck ==
  ASSUME NEW k \in Sound, NEW d \in Ids, NEW row \in DeckRow
  PROVE  LET j == RemoveSingleDeck(k, d, row) IN
         /\ DOMAIN j.decks = IF d = Default THEN DOMAIN k.decks \cup {d} ELSE DOMAIN k.decks \ {d}
         /\ \A e \in DOMAIN j.decks : IF e = d THEN Len(j.decks[e].name) = 1
                                      ELSE j.decks[e] = k.decks[e]
<1> DEFINE emptied == Emptied(k, d, row)
           unique == UniqueName(emptied, d, <<Component(DefaultWord)>>)
           named == [row EXCEPT !.name = unique]
           changed == Modified(k, named)
           default == UpdateRow(emptied, d, changed)
           gone == [emptied EXCEPT !.decks = [e \in DOMAIN @ \ {d} |-> @[e]],
                                   !.graves = @ \cup {d}]
           j == RemoveSingleDeck(k, d, row)
<1>1. emptied \in Sound /\ emptied.decks = k.decks
  BY EmptiedSound
<1>2. j = IF d = Default THEN default ELSE gone
  BY DEF RemoveSingleDeck, Emptied
<1> HIDE DEF emptied, j
<1>3. CASE d = Default
  <2>1. unique \in Names /\ Named(emptied, unique) \subseteq {d}
    BY <1>1, DefaultNamed, UniqueNameFree
  <2>2. Len(unique) = 1
    <3> DEFINE n == <<Component(DefaultWord)>>
    <3>1. n \in Names /\ Len(n) = 1
      BY DefaultNamed
    <3> HIDE DEF n
    <3>2. PICK i \in Nat : UniqueName(emptied, d, n) = WithPluses(n, i)
      BY <1>1, <3>1, UniqueNameFree
    <3>3. Len(UniqueName(emptied, d, n)) = 1
      BY <3>1, <3>2, Pluses
    <3> QED BY <3>3 DEF n
  <2> HIDE DEF unique
  <2>3. named \in DeckRow /\ named.name = unique
    BY <2>1 DEF DeckRow
  <2> HIDE DEF named
  <2>4. changed \in DeckRow /\ changed.name = unique
    BY <2>3, ModifiedRow
  <2> HIDE DEF changed
  <2>5. j = PutDeck(emptied, d, changed)
    BY <1>2, <1>3, <2>1, <2>4 DEF UpdateRow
  <2>6. j.decks = [e \in DOMAIN k.decks \cup {d} |-> IF e = d THEN changed ELSE k.decks[e]]
    BY <1>1, <2>1, <2>4, <2>5, PutSound
  <2>7. /\ DOMAIN j.decks = DOMAIN k.decks \cup {d}
        /\ \A e \in DOMAIN j.decks : j.decks[e] = IF e = d THEN changed ELSE k.decks[e]
    BY <2>6
  <2> QED BY <1>3, <2>2, <2>4, <2>7 DEF j
<1>4. CASE d # Default
  <2>1. gone.decks = [e \in DOMAIN k.decks \ {d} |-> k.decks[e]]
    BY <1>1, SoundParts DEF Collections
  <2>2. j.decks = [e \in DOMAIN k.decks \ {d} |-> k.decks[e]]
    BY <1>2, <1>4, <2>1
  <2>3. /\ DOMAIN j.decks = DOMAIN k.decks \ {d}
        /\ \A e \in DOMAIN j.decks : e # d /\ j.decks[e] = k.decks[e]
    BY <2>2
  <2> QED BY <1>4, <2>3 DEF j
<1> QED BY <1>3, <1>4

\* A deck with what is below it, in the order of names.
Subtree(k, d) == <<d>> \o ChildDecks(k, k.decks[d].name)
RemoveTree(k, d) ==
  FoldLeft(LAMBDA a, e : RemoveSingleDeck(a, e, k.decks[e]), k, Subtree(k, d))

LEMMA SubtreeListed ==
  ASSUME NEW k \in Sound, NEW d \in DOMAIN k.decks
  PROVE  LET seq == Subtree(k, d) IN
         /\ Len(seq) \in Nat /\ seq \in [1..Len(seq) -> DOMAIN k.decks]
         /\ \A e \in DOMAIN k.decks : (e = d \/ Below(k.decks[e].name, k.decks[d].name)) <=>
              \E i \in 1..Len(seq) : seq[i] = e
<1> DEFINE name == k.decks[d].name
           S == Descendants(k, name)
           c == ChildDecks(k, name)
           n == Cardinality(S)
           seq == <<d>> \o c
<1>1. n \in Nat /\ c \in [1..n -> S] /\ Lists(c, S)
  BY ChildDecksListed
<1>2. S \subseteq DOMAIN k.decks
  BY DEF Descendants
<1> HIDE DEF c, S, n
<1>3. c \in Seq(DOMAIN k.decks) /\ Len(c) = n
  BY <1>1, <1>2
<1>4. <<d>> \in Seq(DOMAIN k.decks) /\ Len(<<d>>) = 1
  <2> DEFINE D == DOMAIN k.decks
  <2>1. d \in D
    OBVIOUS
  <2> HIDE DEF D
  <2>2. <<d>> \in Seq(D) /\ Len(<<d>>) = 1
    BY <2>1
  <2> QED BY <2>2 DEF D
<1>5. /\ seq \in Seq(DOMAIN k.decks) /\ Len(seq) = n + 1
      /\ \A i \in 1..(n + 1) : seq[i] = IF i = 1 THEN d ELSE c[i - 1]
  BY <1>1, <1>3, <1>4
<1> HIDE DEF seq
<1>6. ASSUME NEW e \in DOMAIN k.decks, e = d \/ e \in S PROVE \E i \in 1..(n + 1) : seq[i] = e
  <2>1. CASE e = d
    <3>1. 1 \in 1..(n + 1) /\ seq[1] = d
      BY <1>1, <1>5
    <3> QED BY <2>1, <3>1
  <2>2. CASE e \in S
    <3>1. PICK i \in 1..n : c[i] = e
      BY <1>1, <2>2 DEF Lists, n
    <3>2. i + 1 \in 1..(n + 1) /\ i + 1 # 1 /\ (i + 1) - 1 = i
      BY <1>1
    <3>3. seq[i + 1] = e
      BY <1>5, <3>1, <3>2
    <3> QED BY <3>2, <3>3
  <2> QED BY <1>6, <2>1, <2>2
<1>7. ASSUME NEW i \in 1..(n + 1) PROVE seq[i] = d \/ seq[i] \in S
  <2>1. CASE i = 1
    BY <1>5, <2>1
  <2>2. CASE i # 1
    <3>1. i - 1 \in 1..n
      BY <1>1, <2>2
    <3> QED BY <1>1, <1>5, <2>2, <3>1
  <2> QED BY <2>1, <2>2
<1>8. ASSUME NEW e \in DOMAIN k.decks
      PROVE  (e = d \/ Below(k.decks[e].name, name)) <=> \E i \in 1..Len(seq) : seq[i] = e
  <2>1. e \in S <=> Below(k.decks[e].name, name)
    BY DEF S, Descendants
  <2> QED BY <1>5, <1>6, <1>7, <2>1
<1>9. Len(seq) \in Nat /\ seq \in [1..Len(seq) -> DOMAIN k.decks]
  BY <1>5
<1> QED BY <1>8, <1>9 DEF Subtree, seq, c

LEMMA RemoveTreeTurns ==
  ASSUME NEW k \in Sound, NEW d \in DOMAIN k.decks
  PROVE  LET seq == Subtree(k, d)
             n == Len(seq) IN
         \E f : /\ f[{}] = k /\ f[1..n] = RemoveTree(k, d)
               /\ \A s \in SUBSET (1..n) : s # {} =>
                    f[s] = RemoveSingleDeck(f[s \ {Max(s)}], seq[Max(s)], k.decks[seq[Max(s)]])
<1> DEFINE seq == Subtree(k, d)
           n == Len(seq)
           T == DOMAIN k.decks
           X == Sound
           step(a, e) == RemoveSingleDeck(a, e, k.decks[e])
           G == [p \in X \X T |-> step(p[1], p[2])]
           Solves(f) == f = [s \in SUBSET (1..n) |->
                               IF s = {} THEN k ELSE step(f[s \ {Max(s)}], seq[Max(s)])]
<1>1. n \in Nat
  BY SubtreeListed
<1>2. seq \in [1..n -> T]
  BY SubtreeListed
<1>3. k \in X
  OBVIOUS
<1>4. ASSUME NEW j \in X, NEW e \in T PROVE step(j, e) \in X
  <2>1. e \in Ids /\ k.decks[e] \in DeckRow
    BY SoundParts
  <2> QED BY <2>1, RemoveSingleDeckSound
<1>5. RemoveTree(k, d) = (CHOOSE f : Solves(f))[1..n]
  <2>1. DOMAIN seq = 1..n
    <3> HIDE DEF seq
    <3> QED BY <1>2
  <2>2. RemoveTree(k, d) = FoldLeft(step, k, seq)
    BY Zenon DEF RemoveTree, seq, step
  <2> HIDE DEF step, seq
  <2> QED BY <2>1, <2>2, Zenon DEF FoldLeft, MapThenFoldSet
<1> HIDE DEF seq, T, X, step, n
<1>6. \E f : Solves(f)
  <2>1. G \in [X \X T -> X]
    BY <1>4
  <2>2. PICK h : LeftSolution(h, k, G, seq, n) /\ \A s \in SUBSET (1..n) : h[s] \in X
    <3> HIDE DEF G
    <3> QED BY <1>1, <1>2, <1>3, <2>1, LeftFoldExists
  <2>3. ASSUME NEW s \in SUBSET (1..n), s # {}
        PROVE  G[<<h[s \ {Max(s)}], seq[Max(s)]>>] = step(h[s \ {Max(s)}], seq[Max(s)])
    <3>1. h[s \ {Max(s)}] \in X /\ seq[Max(s)] \in T
      BY <1>1, <1>2, <2>2, <2>3, LastPlace
    <3> QED BY <3>1
  <2>4. Solves(h)
    <3> HIDE DEF G
    <3> QED BY <2>2, <2>3 DEF LeftSolution
  <2> QED BY <2>4
<1>7. PICK f : Solves(f) /\ f[1..n] = RemoveTree(k, d)
  <2> HIDE DEF Solves
  <2>1. Solves(CHOOSE f : Solves(f))
    BY <1>6
  <2> QED BY <1>5, <2>1
<1>8. f[{}] = k /\ \A s \in SUBSET (1..n) : s # {} => f[s] = step(f[s \ {Max(s)}], seq[Max(s)])
  BY <1>7
<1> HIDE DEF Solves
<1> QED BY <1>7, <1>8 DEF n, seq, step

\* A deck is removed before what is below it.
LEMMA RemoveTreeSound ==
  ASSUME NEW k \in Sound, NEW d \in DOMAIN k.decks
  PROVE  /\ RemoveTree(k, d) \in Sound
         /\ Homely(k) => Sheds(k, RemoveTree(k, d))
<1> DEFINE seq == Subtree(k, d)
           n == Len(seq)
           X == {j \in Sound : Homely(k) => Sheds(k, j)}
           step(a, e) == RemoveSingleDeck(a, e, k.decks[e])
<1>1. PICK f : /\ f[{}] = k /\ f[1..n] = RemoveTree(k, d)
               /\ \A s \in SUBSET (1..n) : s # {} => f[s] = step(f[s \ {Max(s)}], seq[Max(s)])
  BY RemoveTreeTurns
<1>2. n \in Nat /\ seq \in [1..n -> DOMAIN k.decks]
  BY SubtreeListed
<1>3. f[{}] \in X
  BY <1>1, ShedsSteps
<1>4. ASSUME NEW j \in X, NEW e \in DOMAIN k.decks PROVE step(j, e) \in X
  <2>1. e \in Ids /\ k.decks[e] \in DeckRow
    BY SoundParts
  <2>2. j \in Sound /\ step(j, e) \in Sound
    BY <2>1, RemoveSingleDeckSound
  <2>3. ASSUME Homely(k) PROVE Sheds(k, step(j, e))
    <3>1. Sheds(k, j)
      BY <2>3
    <3>2. /\ Homely(j) /\ (e \in DOMAIN j.decks => k.decks[e].kind = j.decks[e].kind)
          /\ (e = Default => e \in DOMAIN j.decks)
      BY <3>1 DEF Sheds
    <3>3. Sheds(j, step(j, e))
      BY <2>1, <2>2, <3>2, RemoveSingleDeckSound
    <3> HIDE DEF step
    <3> QED BY <3>1, <3>3, ShedsSteps
  <2> QED BY <2>2, <2>3
<1> HIDE DEF seq, n, X, step
<1>5. ASSUME NEW s \in SUBSET (1..n), s # {}, f[s \ {Max(s)}] \in X PROVE f[s] \in X
  <2>1. seq[Max(s)] \in DOMAIN k.decks
    BY <1>2, <1>5, LastPlace
  <2> QED BY <1>1, <1>4, <1>5, <2>1
<1>6. f[1..n] \in X
  BY <1>2, <1>3, <1>5, LeftFoldKeeps
<1> QED BY <1>1, <1>6 DEF X

\* All of T has gone, but for the default deck, which is at the top level.
Cut(k, j, T) ==
  /\ DOMAIN j.decks = {e \in DOMAIN k.decks : e \notin T \/ e = Default}
  /\ \A e \in DOMAIN j.decks : IF e \in T THEN Len(j.decks[e].name) = 1
                               ELSE j.decks[e] = k.decks[e]

LEMMA CutSteps ==
  ASSUME NEW k, NEW j \in Sound, NEW T, Cut(k, j, T), NEW d \in DOMAIN k.decks, d \in Ids,
         NEW row \in DeckRow
  PROVE  Cut(k, RemoveSingleDeck(j, d, row), T \cup {d})
<1> DEFINE l == RemoveSingleDeck(j, d, row)
<1>1. /\ DOMAIN l.decks = IF d = Default THEN DOMAIN j.decks \cup {d} ELSE DOMAIN j.decks \ {d}
      /\ \A e \in DOMAIN l.decks : IF e = d THEN Len(l.decks[e].name) = 1
                                   ELSE l.decks[e] = j.decks[e]
  BY RemovedDeck
<1> HIDE DEF l
<1>2. DOMAIN l.decks = {e \in DOMAIN k.decks : e \notin T \cup {d} \/ e = Default}
  BY <1>1 DEF Cut
<1>3. ASSUME NEW e \in DOMAIN l.decks
      PROVE  IF e \in T \cup {d} THEN Len(l.decks[e].name) = 1 ELSE l.decks[e] = k.decks[e]
  <2>1. CASE e = d
    BY <1>1, <2>1
  <2>2. CASE e # d
    <3>1. l.decks[e] = j.decks[e] /\ e \in DOMAIN j.decks
      BY <1>1, <2>2
    <3> QED BY <2>2, <3>1 DEF Cut
  <2> QED BY <2>1, <2>2
<1> QED BY <1>2, <1>3 DEF Cut, l

\* The decks that are left have kept their parents.
LEMMA RemoveTreeWhole ==
  ASSUME NEW k \in Sound, NEW d \in DOMAIN k.decks, Whole(k)
  PROVE  Whole(RemoveTree(k, d))
<1> DEFINE seq == Subtree(k, d)
           n == Len(seq)
           Passed(s) == {seq[i] : i \in s}
           Y == {y \in Sound \X SUBSET (1..n) : Cut(k, y[1], Passed(y[2]))}
           step(a, e) == RemoveSingleDeck(a, e, k.decks[e])
           T == Passed(1..n)
           j == RemoveTree(k, d)
           old == k.decks[d].name
<1>1. PICK f : /\ f[{}] = k /\ f[1..n] = j
               /\ \A s \in SUBSET (1..n) : s # {} => f[s] = step(f[s \ {Max(s)}], seq[Max(s)])
  BY RemoveTreeTurns
<1>2. /\ n \in Nat /\ seq \in [1..n -> DOMAIN k.decks]
      /\ \A e \in DOMAIN k.decks : (e = d \/ Below(k.decks[e].name, old)) <=>
           \E i \in 1..n : seq[i] = e
  BY SubtreeListed
<1>3. <<f[{}], {}>> \in Y
  BY <1>1 DEF Cut
<1> HIDE DEF seq, n
<1>4. ASSUME NEW s \in SUBSET (1..n), s # {}, <<f[s \ {Max(s)}], s \ {Max(s)}>> \in Y
      PROVE  <<f[s], s>> \in Y
  <2> DEFINE a == f[s \ {Max(s)}]
             e == seq[Max(s)]
  <2>1. Max(s) \in s
    BY <1>2, LastPlace, <1>4
  <2>2. e \in DOMAIN k.decks /\ e \in Ids /\ k.decks[e] \in DeckRow
    BY <1>2, <2>1, SoundParts
  <2>3. a \in Sound /\ Cut(k, a, Passed(s \ {Max(s)}))
    BY <1>4
  <2>4. Passed(s \ {Max(s)}) \cup {e} = Passed(s)
    BY <2>1
  <2>5. f[s] = step(a, e)
    BY <1>1, <1>4
  <2> DEFINE row == k.decks[e]
  <2>6. row \in DeckRow /\ step(a, e) = RemoveSingleDeck(a, e, row)
    BY <2>2
  <2> HIDE DEF a, e, Passed, row, step
  <2>7. RemoveSingleDeck(a, e, row) \in Sound
    BY <2>2, <2>3, <2>6, RemoveSingleDeckSound
  <2>8. Cut(k, RemoveSingleDeck(a, e, row), Passed(s \ {Max(s)}) \cup {e})
    BY <2>2, <2>3, <2>6, CutSteps
  <2>9. step(a, e) \in Sound /\ Cut(k, step(a, e), Passed(s))
    BY <2>4, <2>6, <2>7, <2>8
  <2> QED BY <2>5, <2>9
<1>5. <<j, 1..n>> \in Y
  <2> HIDE DEF Y, j
  <2> QED BY <1>1, <1>2, <1>3, <1>4, LeftFoldGoes
<1>6. Cut(k, j, T)
  BY <1>5
<1>7. ASSUME NEW e \in DOMAIN k.decks
      PROVE  e \in T <=> (e = d \/ Below(k.decks[e].name, old))
  BY <1>2
<1> HIDE DEF T, j, Y, Passed, step, old
<1>8. ASSUME NEW e \in DOMAIN j.decks, NEW p \in ParentNames(j.decks[e].name) PROVE IsThere(j, p)
  <2>1. e \notin T
    <3> SUFFICES ASSUME e \in T PROVE FALSE
      OBVIOUS
    <3>1. Len(j.decks[e].name) = 1
      BY <1>6 DEF Cut
    <3> QED BY <1>8, <3>1 DEF ParentNames
  <2>2. e \in DOMAIN k.decks /\ j.decks[e] = k.decks[e]
    BY <1>6, <2>1 DEF Cut
  <2>3. PICK g \in NormalDecks(k) : k.decks[g].name = p
    BY <1>8, <2>2 DEF Whole, IsThere
  <2>4. g \in DOMAIN k.decks
    BY <2>3 DEF NormalDecks
  <2>5. g \notin T
    <3>1. k.decks[e].name \in Names /\ old \in Names
      BY <2>2, SoundParts DEF old
    <3>2. ~Below(k.decks[e].name, old)
      BY <1>7, <2>1, <2>2
    <3>3. ~(Same(p, old) \/ Below(p, old))
      BY <1>8, <2>2, <3>1, <3>2, BelowBelow
    <3> QED BY <1>7, <2>3, <2>4, <3>3 DEF old, Same
  <2>6. g \in DOMAIN j.decks /\ j.decks[g] = k.decks[g]
    BY <1>6, <2>4, <2>5 DEF Cut
  <2> QED BY <2>3, <2>6 DEF IsThere, NormalDecks, IsFiltered
<1> QED BY <1>8 DEF Whole, j

LEMMA RemoveDecksSound ==
  ASSUME NEW k \in Sound, NEW ids \in Seq(Ids)
  PROVE  /\ RemoveDecks(k, ids) \in Sound
         /\ Homely(k) => Sheds(k, RemoveDecks(k, ids))
         /\ Whole(k) => Whole(RemoveDecks(k, ids))
<1> DEFINE n == Len(ids)
           seq == ids
           T == Ids
           X == {j \in Sound : (Homely(k) => Sheds(k, j)) /\ (Whole(k) => Whole(j))}
           step(acc, d) == IF d \notin DOMAIN acc.decks THEN acc ELSE RemoveTree(acc, d)
           G == [p \in X \X T |-> step(p[1], p[2])]
           Solves(f) == f = [s \in SUBSET (1..n) |->
                               IF s = {} THEN k ELSE step(f[s \ {Max(s)}], seq[Max(s)])]
<1>1. n \in Nat
  OBVIOUS
<1>2. seq \in [1..n -> T]
  OBVIOUS
<1>3. k \in X
  BY ShedsSteps
<1>4. ASSUME NEW j \in X, NEW d \in T PROVE step(j, d) \in X
  <2>1. CASE d \notin DOMAIN j.decks
    BY <2>1
  <2>2. CASE d \in DOMAIN j.decks
    <3> DEFINE l == RemoveTree(j, d)
    <3>1. l \in Sound /\ (Homely(j) => Sheds(j, l)) /\ (Whole(j) => Whole(l))
      BY <2>2, RemoveTreeSound, RemoveTreeWhole
    <3>2. step(j, d) = l
      BY <2>2
    <3> HIDE DEF l, step
    <3>3. ASSUME Homely(k) PROVE Sheds(k, l)
      <4>1. Sheds(k, j)
        BY <3>3
      <4>2. Sheds(j, l)
        BY <3>1, <4>1 DEF Sheds
      <4> QED BY <4>1, <4>2, ShedsSteps
    <3> QED BY <3>1, <3>2, <3>3
  <2> QED BY <2>1, <2>2
<1>5. RemoveDecks(k, ids) = (CHOOSE f : Solves(f))[1..n]
  <2>1. DOMAIN seq = 1..n
    BY <1>2
  <2>2. RemoveDecks(k, ids) = FoldLeft(step, k, seq)
    BY Zenon DEF RemoveDecks, RemoveTree, Subtree
  <2> HIDE DEF step, seq
  <2> QED BY <2>1, <2>2, Zenon DEF FoldLeft, MapThenFoldSet
<1> HIDE DEF seq, T, X, step, n
<1>6. \E f : Solves(f)
  <2>1. G \in [X \X T -> X]
    BY <1>4
  <2>2. PICK h : LeftSolution(h, k, G, seq, n) /\ \A s \in SUBSET (1..n) : h[s] \in X
    <3> HIDE DEF G
    <3> QED BY <1>1, <1>2, <1>3, <2>1, LeftFoldExists
  <2>3. ASSUME NEW s \in SUBSET (1..n), s # {}
        PROVE  G[<<h[s \ {Max(s)}], seq[Max(s)]>>] = step(h[s \ {Max(s)}], seq[Max(s)])
    <3>1. h[s \ {Max(s)}] \in X /\ seq[Max(s)] \in T
      BY <1>1, <1>2, <2>2, <2>3, LastPlace
    <3> QED BY <3>1
  <2>4. Solves(h)
    <3> HIDE DEF G
    <3> QED BY <2>2, <2>3 DEF LeftSolution
  <2> QED BY <2>4
<1>7. ASSUME NEW f, Solves(f) PROVE f[1..n] \in X
  <2>1. f[{}] = k
    BY <1>7
  <2>2. ASSUME NEW s \in SUBSET (1..n), s # {}, f[s \ {Max(s)}] \in X PROVE f[s] \in X
    <3>1. f[s] = step(f[s \ {Max(s)}], seq[Max(s)])
      BY <1>7, <2>2
    <3>2. seq[Max(s)] \in T
      BY <1>1, <1>2, <2>2, LastPlace
    <3> QED BY <1>4, <2>2, <3>1, <3>2
  <2> HIDE DEF Solves
  <2> QED BY <1>1, <1>3, <2>1, <2>2, LeftFoldKeeps
<1>8. RemoveDecks(k, ids) \in X
  <2> HIDE DEF Solves
  <2>1. Solves(CHOOSE f : Solves(f))
    BY <1>6
  <2> QED BY <1>5, <1>7, <2>1
<1> QED BY <1>8 DEF X

---------------------------------------------------------------------------
(* Importing the decks of a package *)

PackageDecks == [name : Names, kind : Kinds]
Moves == Seq(Names \X Names)

\* The name a deck gets when a parent of it was renamed.
LEMMA ImportedNames ==
  ASSUME NEW name \in Names, NEW renamed \in Moves
  PROVE  Reparented(name, renamed) \in Names
<1> DEFINE hits == {i \in DOMAIN renamed :
                      Len(name) > Len(renamed[i][1])
                      /\ SubSeq(name, 1, Len(renamed[i][1])) = renamed[i][1]}
           i == Min(hits)
<1>1. CASE hits = {}
  BY <1>1 DEF Reparented
<1>2. CASE hits # {}
  <2>1. Reparented(name, renamed) = renamed[i][2] \o SubSeq(name, Len(renamed[i][1]) + 1, Len(name))
    BY <1>2 DEF Reparented
  <2>2. hits \in SUBSET (DOMAIN renamed) /\ DOMAIN renamed \in SUBSET Nat
    BY DEF Moves
  <2> HIDE DEF hits
  <2>3. i \in DOMAIN renamed
    BY <1>2, <2>2, LeastAndGreatest
  <2> HIDE DEF i
  <2>4. renamed[i] \in Names \X Names
    BY <2>3 DEF Moves
  <2>5. renamed[i][1] \in Names /\ renamed[i][2] \in Names /\ Len(renamed[i][1]) \in Nat
    BY <2>4 DEF Names
  <2> QED BY <2>1, <2>5, Spliced
<1> QED BY <1>1, <1>2

LEMMA ImportDeckSound ==
  ASSUME NEW acc \in [k : Sound, renamed : Moves], NEW deck \in PackageDecks
  PROVE  /\ ImportDeck(acc, deck) \in [k : Sound, renamed : Moves]
         /\ Extends(acc.k, ImportDeck(acc, deck).k) /\ Grows(acc.k, ImportDeck(acc, deck).k)
<1> DEFINE k == acc.k
           name == Reparented(deck.name, acc.renamed)
           existing == Named(k, name)
           sameKind == \E d \in existing : IsFiltered(k, d) = (deck.kind # "normal")
           unique == IF existing = {} THEN name ELSE WithSuffix(name, "*")
           renamed == IF existing = {} THEN acc.renamed ELSE Append(acc.renamed, <<name, unique>>)
           ancestor == {d \in FirstExistingParent(k, unique) : IsFiltered(k, d)}
           a == CHOOSE d \in ancestor : TRUE
           old == IF ancestor = {} THEN <<>> ELSE k.decks[a].name
           added == IF ancestor = {} THEN k ELSE AddDeck(k, WithSuffix(old, "*"), "normal")
           moves == IF ancestor = {} THEN renamed
                    ELSE Append(renamed, <<old, WithSuffix(old, "*")>>)
           final == IF ancestor = {} THEN unique ELSE Reparented(unique, moves)
           e == CHOOSE d \in existing : TRUE
           kind == IF IsFiltered(k, e) THEN deck.kind ELSE "normal"
<1>1. /\ k \in Sound /\ acc.renamed \in Moves /\ deck.name \in Names /\ deck.kind \in Kinds
      /\ "normal" \in Kinds
  BY DEF PackageDecks, Kinds
<1>2. ImportDeck(acc, deck)
        = IF sameKind THEN [acc EXCEPT !.k = UpdateDeck(k, e, k.decks[e].name, kind)]
          ELSE [k |-> AddDeck(added, final, deck.kind), renamed |-> moves]
  BY DEF ImportDeck
<1>a. sameKind => existing # {}
  OBVIOUS
<1>b. existing \in SUBSET (DOMAIN k.decks)
  BY DEF Named
<1>c. ancestor \in SUBSET (DOMAIN k.decks)
  <2>1. ASSUME NEW n PROVE Named(k, n) \subseteq DOMAIN k.decks
    BY DEF Named
  <2>2. FirstExistingParent(k, unique) \subseteq DOMAIN k.decks
    BY <2>1 DEF FirstExistingParent
  <2> QED BY <2>2
<1>3. name \in Names
  BY <1>1, ImportedNames
<1>d. sameKind => ((kind # "normal") <=> IsFiltered(k, e))
  <2> SUFFICES ASSUME sameKind PROVE (kind # "normal") <=> IsFiltered(k, e)
    OBVIOUS
  <2>1. PICK d \in existing : IsFiltered(k, d) = (deck.kind # "normal")
    OBVIOUS
  <2>2. e \in existing
    BY <2>1
  <2>3. d = e
    <3>1. NamesDiffer(k.decks) /\ e \in DOMAIN k.decks /\ d \in DOMAIN k.decks
      BY <1>1, <1>b, <2>1, <2>2, SoundParts
    <3>2. Same(k.decks[d].name, name) /\ Same(k.decks[e].name, name)
      BY <2>1, <2>2 DEF Named
    <3> HIDE DEF k, name, e
    <3> QED BY <3>1, <3>2 DEF NamesDiffer, Same
  <2> HIDE DEF k, e, existing
  <2> QED BY <2>1, <2>3 DEF IsFiltered
<1> HIDE DEF k, name, ancestor, sameKind
<1>4. unique \in Names
  BY <1>3, Suffixed
<1>5. renamed \in Moves
  <2>1. CASE existing = {}
    BY <1>1, <2>1
  <2>2. CASE existing # {}
    <3>1. <<name, unique>> \in Names \X Names
      BY <1>3, <1>4
    <3> DEFINE p == <<name, unique>>
    <3> HIDE DEF p, unique, existing
    <3>2. Append(acc.renamed, p) \in Moves
      BY <1>1, <3>1 DEF Moves, p
    <3> QED BY <2>2, <3>2 DEF p
  <2> QED BY <2>1, <2>2
<1> HIDE DEF unique, renamed
<1>6. ASSUME ancestor # {} PROVE old \in Names /\ WithSuffix(old, "*") \in Names
  <2>1. a \in DOMAIN k.decks
    BY <1>6, <1>c
  <2>2. old \in Names
    BY <1>1, <1>6, <2>1, SoundParts
  <2> HIDE DEF old
  <2> QED BY <2>2, Suffixed
<1> HIDE DEF old
<1>7. added \in Sound /\ Extends(k, added) /\ Grows(k, added)
  BY <1>1, <1>6, AddDeckSound, AddDeckWhole, AddsSteps, GrowsSteps DEF DeckAdded
<1> HIDE DEF added
<1>8. moves \in Moves
  <2>1. CASE ancestor = {}
    BY <1>5, <2>1
  <2>2. CASE ancestor # {}
    <3> DEFINE p == <<old, WithSuffix(old, "*")>>
    <3>1. p \in Names \X Names
      BY <1>6, <2>2
    <3> HIDE DEF p
    <3>2. Append(renamed, p) \in Moves
      BY <1>5, <3>1 DEF Moves
    <3> QED BY <2>2, <3>2 DEF p
  <2> QED BY <2>1, <2>2
<1> HIDE DEF moves
<1>9. final \in Names
  BY <1>4, <1>8, ImportedNames
<1> HIDE DEF final
<1>10. ASSUME sameKind
       PROVE  /\ UpdateDeck(k, e, k.decks[e].name, kind) \in Sound
              /\ Extends(k, UpdateDeck(k, e, k.decks[e].name, kind))
              /\ Grows(k, UpdateDeck(k, e, k.decks[e].name, kind))
  <2>1. e \in existing
    BY <1>10, <1>a
  <2>2. e \in DOMAIN k.decks /\ k.decks[e].name \in Names
    BY <1>1, <1>b, <2>1, SoundParts
  <2>3. kind \in Kinds
    BY <1>1
  <2>4. (kind # "normal") <=> IsFiltered(k, e)
    BY <1>10, <1>d
  <2> HIDE DEF e, kind
  <2> QED BY <1>1, <2>2, <2>3, <2>4, UpdateDeckSound, UpdateDeckWhole
<1>11. /\ AddDeck(added, final, deck.kind) \in Sound /\ Extends(k, AddDeck(added, final, deck.kind))
       /\ Grows(k, AddDeck(added, final, deck.kind))
  <2> DEFINE j == AddDeck(added, final, deck.kind)
  <2>5. added \in Sound /\ deck.kind \in Kinds
    BY <1>1, <1>7
  <2>6. j \in Sound /\ DeckAdded(added, j, MatchedName(added, UniqueName(added, 0, final)), deck.kind)
    BY <1>9, <2>5, AddDeckSound
  <2>1. j \in Sound /\ Extends(added, j)
    BY <2>6, AddsSteps DEF DeckAdded
  <2>4. Grows(added, j)
    BY <1>1, <1>7, <1>9, AddDeckWhole
  <2> HIDE DEF j
  <2>2. added.failed => j.failed
    BY <2>1 DEF Extends
  <2>3. Extends(k, j) /\ Grows(k, j)
    BY <1>7, <2>1, <2>2, <2>4, ExtendsSteps, GrowsSteps
  <2> QED BY <2>1, <2>3 DEF j
<1> DEFINE u == UpdateDeck(k, e, k.decks[e].name, kind)
           n == AddDeck(added, final, deck.kind)
<1>12. ImportDeck(acc, deck)
        = IF sameKind THEN [acc EXCEPT !.k = u] ELSE [k |-> n, renamed |-> moves]
  BY <1>2
<1>13. /\ sameKind => (u \in Sound /\ Extends(k, u) /\ Grows(k, u))
       /\ n \in Sound /\ Extends(k, n) /\ Grows(k, n)
  BY <1>10, <1>11
<1> HIDE DEF u, n
<1>14. /\ ImportDeck(acc, deck) \in [k : Sound, renamed : Moves]
       /\ Extends(k, ImportDeck(acc, deck).k) /\ Grows(k, ImportDeck(acc, deck).k)
  <2>1. CASE sameKind
    BY <1>1, <1>12, <1>13, <2>1
  <2>2. CASE ~sameKind
    BY <1>8, <1>12, <1>13, <2>2
  <2> QED BY <2>1, <2>2
<1> QED BY <1>14 DEF k

ByLength(package) ==
  InOrder(package, LAMBDA p, q :
             \/ Len(p.name) < Len(q.name)
             \/ Len(p.name) = Len(q.name) /\ NameLess(p.name, q.name))

\* A package is a finite set of decks with different names.
Package(package) ==
  /\ IsFiniteSet(package) /\ package \subseteq PackageDecks
  /\ \A p, q \in package : p.name = q.name => p = q

LEMMA PackageInOrder ==
  ASSUME NEW S, Package(S)
  PROVE  Cardinality(S) \in Nat /\ ByLength(S) \in [1..Cardinality(S) -> S]
<1> DEFINE less(p, q) == \/ Len(p.name) < Len(q.name)
                         \/ Len(p.name) = Len(q.name) /\ NameLess(p.name, q.name)
           R == {p \in S \X S : less(p[1], p[2])}
<1>1. IsFiniteSet(S) /\ \A p \in S : p.name \in Names /\ Len(p.name) \in Nat
  BY DEF Package, PackageDecks, Names
<1>2. \A d, e \in S : <<d, e>> \in R <=> less(d, e)
  OBVIOUS
<1>3. TotalOrder(R, S)
  <2>1. \A s \in S : ~less(s, s)
    BY <1>1, NameOrder
  <2>2. ASSUME NEW s \in S, NEW t \in S, s # t PROVE less(s, t) \/ less(t, s)
    <3>1. s.name # t.name
      BY <2>2 DEF Package
    <3>2. NameLess(s.name, t.name) \/ NameLess(t.name, s.name)
      BY <1>1, <3>1, NameOrder
    <3> QED BY <1>1, <3>2
  <2>3. ASSUME NEW s \in S, NEW t \in S, NEW u \in S, less(s, t), less(t, u) PROVE less(s, u)
    <3>1. NameLess(s.name, t.name) /\ NameLess(t.name, u.name) => NameLess(s.name, u.name)
      BY <1>1, NameOrder
    <3> QED BY <1>1, <2>3, <3>1
  <2> HIDE DEF less, R
  <2> QED BY <1>2, <2>1, <2>2, <2>3 DEF TotalOrder
<1>4. ByLength(S) = Ordered(S, R)
  <2>1. ASSUME NEW s \in S PROVE {r \in S : less(r, s)} = {r \in S : <<r, s>> \in R}
    BY <1>2
  <2>2. ByLength(S) = [i \in 1..Cardinality(S) |->
                          CHOOSE s \in S : Cardinality({r \in S : less(r, s)}) = i - 1]
    BY Zenon DEF ByLength, InOrder
  <2> HIDE DEF less, R
  <2>3. \A i : (CHOOSE s \in S : Cardinality({r \in S : less(r, s)}) = i - 1)
                 = (CHOOSE s \in S : Cardinality({r \in S : <<r, s>> \in R}) = i - 1)
    BY <2>1
  <2> QED BY <2>2, <2>3 DEF Ordered
<1> HIDE DEF R
<1> QED BY <1>1, <1>3, <1>4, OrderedPlaces

LEMMA ImportDecksSound ==
  ASSUME NEW k \in Sound, NEW package, Package(package)
  PROVE  /\ ImportDecks(k, package) \in Sound /\ Extends(k, ImportDecks(k, package))
         /\ Grows(k, ImportDecks(k, package))
<1> DEFINE n == Cardinality(package)
           seq == ByLength(package)
           T == package
           X == [k : {j \in Sound : Extends(k, j) /\ Grows(k, j)}, renamed : Moves]
           b == [k |-> k, renamed |-> <<>>]
           step(acc, d) == ImportDeck(acc, d)
           last == FoldLeft(ImportDeck, b, seq)
           G == [p \in X \X T |-> step(p[1], p[2])]
           Solves(f) == f = [s \in SUBSET (1..n) |->
                               IF s = {} THEN b ELSE step(f[s \ {Max(s)}], seq[Max(s)])]
<1>1. n \in Nat
  BY PackageInOrder
<1>2. seq \in [1..n -> T]
  BY PackageInOrder
<1>3. b \in X
  <2>1. <<>> \in Moves
    <3>1. <<>> \in Seq(Names \X Names)
      OBVIOUS
    <3> QED BY <3>1 DEF Moves
  <2> QED BY <2>1, ExtendsSteps, GrowsSteps
<1>4. ASSUME NEW j \in X, NEW d \in T PROVE step(j, d) \in X
  <2>1. /\ j \in [k : Sound, renamed : Moves] /\ d \in PackageDecks
        /\ Extends(k, j.k) /\ Grows(k, j.k)
    BY DEF Package
  <2>2. /\ step(j, d) \in [k : Sound, renamed : Moves]
        /\ Extends(j.k, step(j, d).k) /\ Grows(j.k, step(j, d).k)
    BY <2>1, ImportDeckSound
  <2> HIDE DEF step
  <2>4. j.k.failed => step(j, d).k.failed
    BY <2>2 DEF Extends
  <2>3. Extends(k, step(j, d).k) /\ Grows(k, step(j, d).k)
    BY <2>1, <2>2, <2>4, ExtendsSteps, GrowsSteps
  <2> QED BY <2>2, <2>3
<1>5. last = (CHOOSE f : Solves(f))[1..n]
  <2>1. DOMAIN seq = 1..n
    BY <1>2
  <2> HIDE DEF seq
  <2> QED BY <2>1, Zenon DEF FoldLeft, MapThenFoldSet
<1>9. ImportDecks(k, package) = last.k
  BY Zenon DEF ImportDecks, ByLength
<1> HIDE DEF seq, T, X, step, n, b, last
<1>6. \E f : Solves(f)
  <2>1. G \in [X \X T -> X]
    BY <1>4
  <2>2. PICK h : LeftSolution(h, b, G, seq, n) /\ \A s \in SUBSET (1..n) : h[s] \in X
    <3> HIDE DEF G
    <3> QED BY <1>1, <1>2, <1>3, <2>1, LeftFoldExists
  <2>3. ASSUME NEW s \in SUBSET (1..n), s # {}
        PROVE  G[<<h[s \ {Max(s)}], seq[Max(s)]>>] = step(h[s \ {Max(s)}], seq[Max(s)])
    <3>1. h[s \ {Max(s)}] \in X /\ seq[Max(s)] \in T
      BY <1>1, <1>2, <2>2, <2>3, LastPlace
    <3> QED BY <3>1
  <2>4. Solves(h)
    <3> HIDE DEF G
    <3> QED BY <2>2, <2>3 DEF LeftSolution
  <2> QED BY <2>4
<1>7. ASSUME NEW f, Solves(f) PROVE f[1..n] \in X
  <2>1. f[{}] = b
    BY <1>7
  <2>2. ASSUME NEW s \in SUBSET (1..n), s # {}, f[s \ {Max(s)}] \in X PROVE f[s] \in X
    <3>1. f[s] = step(f[s \ {Max(s)}], seq[Max(s)])
      BY <1>7, <2>2
    <3>2. seq[Max(s)] \in T
      BY <1>1, <1>2, <2>2, LastPlace
    <3> QED BY <1>4, <2>2, <3>1, <3>2
  <2> HIDE DEF Solves
  <2> QED BY <1>1, <1>3, <2>1, <2>2, LeftFoldKeeps
<1>8. last \in X
  <2> HIDE DEF Solves
  <2>1. Solves(CHOOSE f : Solves(f))
    BY <1>6
  <2> QED BY <1>5, <1>7, <2>1
<1> QED BY <1>8, <1>9 DEF X

---------------------------------------------------------------------------
(* The database check *)

\* Cards in no deck get one, under a name that is free.
LEMMA RecoverMissingDecksSound ==
  ASSUME NEW k \in Sound
  PROVE  LET j == RecoverMissingDecks(k) IN
         /\ j \in Sound /\ j.cards = k.cards
         /\ \A c \in DOMAIN k.cards : k.cards[c].did \in DOMAIN j.decks
<1> DEFINE missing == {k.cards[c].did : c \in DOMAIN k.cards} \ DOMAIN k.decks
           n == Cardinality(missing)
           seq == ByNumber(missing)
           T == missing
           X == {j \in Sound : Adds(k, j)}
           step(acc, d) ==
             PutDeck(acc, d, Modified(acc, [name |-> UniqueName(acc, d, Recovered(d)),
                                            kind |-> "normal", mtime |-> 0, dirty |-> TRUE]))
           G == [p \in X \X T |-> step(p[1], p[2])]
           Solves(f) == f = [s \in SUBSET (1..n) |->
                               IF s = {} THEN k ELSE step(f[s \ {Max(s)}], seq[Max(s)])]
           Y == {q \in X \X SUBSET (1..n) : \A i \in q[2] : seq[i] \in DOMAIN q[1].decks}
<1>0. missing \in SUBSET Ids /\ missing \in SUBSET Nat /\ IsFiniteSet(missing)
  <2> DEFINE C == DOMAIN k.cards
             all == {k.cards[c].did : c \in C}
  <2>1. IsFiniteSet(C) /\ \A c \in C : k.cards[c].did \in Ids
    BY SoundParts DEF CardRow
  <2>2. IsFiniteSet(all)
    <3> DEFINE f == [c \in C |-> k.cards[c].did]
    <3>1. f \in Surjection(C, all)
      BY DEF Surjection
    <3> HIDE DEF C, f, all
    <3> QED BY <2>1, <3>1, FS_Surjection
  <2>3. all \in SUBSET Ids
    BY <2>1
  <2>4. missing \in SUBSET all
    OBVIOUS
  <2> HIDE DEF missing, all
  <2>5. IsFiniteSet(missing)
    BY <2>2, <2>4, FS_Subset
  <2> QED BY <2>3, <2>4, <2>5 DEF Ids
<1>1. n \in Nat /\ seq \in [1..n -> T] /\ \A d \in missing : \E i \in 1..n : seq[i] = d
  <2> HIDE DEF missing
  <2> QED BY <1>0, NumbersInOrder DEF Lists
<1>2. seq \in [1..n -> T]
  BY <1>1
<1>3. k \in X
  BY AddsSteps
<1>4. ASSUME NEW j \in X, NEW d \in T
      PROVE  step(j, d) \in X /\ DOMAIN step(j, d).decks = DOMAIN j.decks \cup {d}
  <2>0. j \in Sound /\ Adds(k, j) /\ d \in Ids /\ d \notin DOMAIN k.decks
    BY <1>0
  <2> DEFINE name == UniqueName(j, d, Recovered(d))
             row == [name |-> name, kind |-> "normal", mtime |-> 0, dirty |-> TRUE]
             changed == Modified(j, row)
  <2>1. Recovered(d) \in Names
    <3> DEFINE c == <<d, <<>>>>
    <3>1. <<>> \in Seq({"+", "*"}) /\ d \in Nat
      BY <2>0 DEF Ids
    <3>2. c \in Components
      BY <3>1 DEF Components, NameSuffixes
    <3> HIDE DEF c
    <3>3. <<c>> \in Seq(Components) /\ <<c>> # <<>>
      BY <3>2
    <3> QED BY <3>3 DEF Names, Recovered, c
  <2>2. name \in Names /\ Named(j, name) \subseteq {d}
    BY <2>0, <2>1, UniqueNameFree
  <2> HIDE DEF name
  <2>3. row \in DeckRow /\ row.name = name
    BY <2>2 DEF DeckRow, Kinds
  <2> HIDE DEF row
  <2>4. changed \in DeckRow /\ changed.name = name
    BY <2>0, <2>3, ModifiedRow
  <2>5. step(j, d) = PutDeck(j, d, changed)
    BY DEF row, name
  <2> HIDE DEF changed, step
  <2>6. Named(j, changed.name) \subseteq {d}
    BY <2>2, <2>4
  <2>7. /\ PutDeck(j, d, changed) \in Sound
        /\ DOMAIN PutDeck(j, d, changed).decks = DOMAIN j.decks \cup {d}
        /\ \A e \in DOMAIN j.decks \ {d} : PutDeck(j, d, changed).decks[e] = j.decks[e]
        /\ PutDeck(j, d, changed).cards = j.cards /\ PutDeck(j, d, changed).failed = j.failed
    <3> HIDE DEF missing
    <3>1. PutDeck(j, d, changed).decks
            = [e \in DOMAIN j.decks \cup {d} |-> IF e = d THEN changed ELSE j.decks[e]]
      BY <2>0, <2>4, <2>6, PutSound
    <3>2. /\ PutDeck(j, d, changed) \in Sound
          /\ PutDeck(j, d, changed).cards = j.cards /\ PutDeck(j, d, changed).failed = j.failed
      BY <2>0, <2>4, <2>6, PutSound
    <3> QED BY <3>1, <3>2
  <2> DEFINE l == PutDeck(j, d, changed)
  <2> HIDE DEF l
  <2>8. l \in Sound /\ Adds(k, l) /\ DOMAIN l.decks = DOMAIN j.decks \cup {d}
    BY <2>0, <2>7 DEF l, Adds
  <2> QED BY <2>5, <2>8 DEF l
<1>5. RecoverMissingDecks(k) = (CHOOSE f : Solves(f))[1..n]
  <2>1. DOMAIN seq = 1..n
    BY <1>2
  <2>2. RecoverMissingDecks(k) = FoldLeft(step, k, seq)
    BY Zenon DEF RecoverMissingDecks, ByNumber
  <2> HIDE DEF step, seq
  <2> QED BY <2>1, <2>2, Zenon DEF FoldLeft, MapThenFoldSet
<1> HIDE DEF seq, T, X, step, n, missing
<1>6. \E f : Solves(f)
  <2>1. G \in [X \X T -> X]
    BY <1>4
  <2>2. PICK h : LeftSolution(h, k, G, seq, n) /\ \A s \in SUBSET (1..n) : h[s] \in X
    <3> HIDE DEF G
    <3>1. n \in Nat
      BY <1>1
    <3> QED BY <1>2, <1>3, <2>1, <3>1, LeftFoldExists
  <2>3. ASSUME NEW s \in SUBSET (1..n), s # {}
        PROVE  G[<<h[s \ {Max(s)}], seq[Max(s)]>>] = step(h[s \ {Max(s)}], seq[Max(s)])
    <3>1. h[s \ {Max(s)}] \in X /\ seq[Max(s)] \in T
      BY <1>1, <1>2, <2>2, <2>3, LastPlace
    <3> QED BY <3>1
  <2>4. Solves(h)
    <3> HIDE DEF G
    <3> QED BY <2>2, <2>3 DEF LeftSolution
  <2> QED BY <2>4
<1>7. ASSUME NEW f, Solves(f) PROVE <<f[1..n], 1..n>> \in Y
  <2>1. f[{}] = k
    BY <1>7
  <2>2. <<f[{}], {}>> \in Y
    BY <1>3, <2>1
  <2>3. ASSUME NEW s \in SUBSET (1..n), s # {}, <<f[s \ {Max(s)}], s \ {Max(s)}>> \in Y
        PROVE  <<f[s], s>> \in Y
    <3> DEFINE j == f[s \ {Max(s)}]
               d == seq[Max(s)]
    <3>1. f[s] = step(j, d)
      BY <1>7, <2>3
    <3>2. d \in T /\ j \in X /\ \A i \in s \ {Max(s)} : seq[i] \in DOMAIN j.decks
      BY <1>1, <1>2, <2>3, LastPlace
    <3> HIDE DEF j
    <3>3. f[s] \in X /\ DOMAIN f[s].decks = DOMAIN j.decks \cup {d}
      BY <1>4, <3>1, <3>2
    <3>4. \A i \in s : seq[i] \in DOMAIN f[s].decks
      BY <3>2, <3>3
    <3> QED BY <3>3, <3>4
  <2> HIDE DEF Solves, Y
  <2> QED BY <1>1, <2>2, <2>3, LeftFoldGoes
<1>8. <<RecoverMissingDecks(k), 1..n>> \in Y
  <2> HIDE DEF Solves, Y
  <2>1. Solves(CHOOSE f : Solves(f))
    BY <1>6
  <2> QED BY <1>5, <1>7, <2>1
<1> DEFINE r == RecoverMissingDecks(k)
<1> HIDE DEF r
<1>9. r \in Sound /\ Adds(k, r) /\ \A i \in 1..n : seq[i] \in DOMAIN r.decks
  BY <1>8 DEF r, X
<1>10. ASSUME NEW c \in DOMAIN k.cards PROVE k.cards[c].did \in DOMAIN r.decks
  BY <1>1, <1>9 DEF Adds, missing
<1> QED BY <1>9, <1>10 DEF Adds, r

LEMMA CheckFilteredCardsSound ==
  ASSUME NEW k \in Sound
  PROVE  LET j == CheckFilteredCards(k) IN
         /\ j \in Sound /\ j.decks = k.decks /\ DOMAIN j.cards = DOMAIN k.cards
         /\ \A c \in DOMAIN k.cards :
              /\ j.cards[c].did = k.cards[c].did
              /\ (j.cards[c].odid # 0 /\ k.cards[c].did \in DOMAIN k.decks) =>
                   IsFiltered(k, k.cards[c].did)
<1> DEFINE t == [c \in DOMAIN k.cards |->
                   IF c \in WronglyFiltered(k) THEN [k.cards[c] EXCEPT !.odid = 0, !.odue = "zero"]
                   ELSE k.cards[c]]
           j == [k EXCEPT !.cards = t]
<1>1. ASSUME NEW c \in DOMAIN k.cards PROVE t[c] \in CardRow
  <2>1. k.cards[c] \in CardRow
    BY SoundParts
  <2>2. [k.cards[c] EXCEPT !.odid = 0, !.odue = "zero"] \in CardRow
    BY <2>1 DEF CardRow, Dues
  <2> QED BY <2>1, <2>2
<1>2. DOMAIN t = DOMAIN k.cards /\ t = [c \in DOMAIN t |-> t[c]]
  OBVIOUS
<1>3. CheckFilteredCards(k) = j
  BY DEF CheckFilteredCards
<1>6. ASSUME NEW c \in DOMAIN k.cards
      PROVE  /\ t[c].did = k.cards[c].did
             /\ (t[c].odid # 0 /\ k.cards[c].did \in DOMAIN k.decks) =>
                  IsFiltered(k, k.cards[c].did)
  <2>1. k.cards[c] \in CardRow
    BY SoundParts
  <2>2. CASE c \in WronglyFiltered(k)
    <3>1. t[c].odid = 0 /\ t[c].did = k.cards[c].did
      BY <2>1, <2>2 DEF CardRow
    <3> QED BY <3>1
  <2>3. CASE c \notin WronglyFiltered(k)
    <3>1. t[c] = k.cards[c]
      BY <2>3
    <3> QED BY <2>3, <3>1 DEF WronglyFiltered
  <2> QED BY <2>2, <2>3
<1> HIDE DEF t
<1>4. t \in CardTables
  BY <1>1, <1>2, SoundParts, CardTable
<1>5. j \in Collections /\ j.decks = k.decks /\ j.cards = t
  BY <1>4, SoundParts DEF Collections
<1> HIDE DEF j
<1> QED BY <1>2, <1>3, <1>5, <1>6, SoundParts DEF Sound

\* The closest parent of a deck exists.
Parented(k, name) == Len(name) > 1 => Named(k, Front(name)) # {}

\* A deck is added with all the parents it lacks.
LEMMA MissingDeckAdded ==
  ASSUME NEW k \in Sound, NEW name \in Names, Named(k, name) = {}
  PROVE  LET j == AddDeck(k, name, "normal") IN
         /\ j \in Sound /\ Adds(k, j)
         /\ \/ j.failed
            \/ /\ Named(j, name) # {}
               /\ \A d \in DOMAIN j.decks \ DOMAIN k.decks : Parented(j, j.decks[d].name)
<1> DEFINE j == AddDeck(k, name, "normal")
           m == MatchedName(k, name)
<1>1. UniqueName(k, 0, name) = name
  BY FreeNameStays
<1>2. j \in Sound /\ DeckAdded(k, j, m, "normal")
  BY <1>1, AddDeckSound DEF Kinds
<1>3. m \in Names /\ Same(m, name)
  BY MatchedNameSame
<1> HIDE DEF j, m
<1>4. ASSUME ~j.failed
      PROVE  /\ Named(j, name) # {}
             /\ \A d \in DOMAIN j.decks \ DOMAIN k.decks : Parented(j, j.decks[d].name)
  <2>1. Named(j, m) # {} /\ \A p \in ParentNames(m) : Named(j, p) # {}
    BY <1>2, <1>4 DEF DeckAdded
  <2>2. Named(j, name) # {}
    BY <1>3, <2>1 DEF Named, Same
  <2>3. ASSUME NEW d \in DOMAIN j.decks \ DOMAIN k.decks PROVE Parented(j, j.decks[d].name)
    <3>1. j.decks[d].name = m \/ j.decks[d].name \in ParentNames(m)
      BY <1>2 DEF DeckAdded
    <3>2. Parented(j, m)
      BY <1>3, <2>1, Fronts DEF Parented
    <3>3. \A p \in ParentNames(m) : Parented(j, p)
      BY <1>3, <2>1, Fronts DEF Parented
    <3> QED BY <3>1, <3>2, <3>3
  <2> QED BY <2>2, <2>3
<1> QED BY <1>2, <1>4 DEF DeckAdded, j

LEMMA AddMissingDeckNamesSound ==
  ASSUME NEW k \in Sound
  PROVE  LET j == AddMissingDeckNames(k) IN
         /\ j \in Sound /\ Adds(k, j)
         /\ j.failed \/ \A d \in DOMAIN j.decks : Parented(j, j.decks[d].name)
<1> DEFINE n == Cardinality(DOMAIN k.decks)
           seq == ByName(k, DOMAIN k.decks)
           T == DOMAIN k.decks
           X == {j \in Sound : Adds(k, j)}
           step(acc, d) ==
             LET parent == Front(k.decks[d].name) IN
             IF parent = <<>> \/ Named(acc, parent) # {} THEN acc
             ELSE AddDeck(acc, parent, "normal")
           G == [p \in X \X T |-> step(p[1], p[2])]
           Solves(f) == f = [s \in SUBSET (1..n) |->
                               IF s = {} THEN k ELSE step(f[s \ {Max(s)}], seq[Max(s)])]
           Done(j, s) ==
             /\ \A i \in s : Parented(j, k.decks[seq[i]].name)
             /\ \A d \in DOMAIN j.decks \ DOMAIN k.decks : Parented(j, j.decks[d].name)
           Y == {q \in X \X SUBSET (1..n) : q[1].failed \/ Done(q[1], q[2])}
<1>1. n \in Nat
  BY DecksByName
<1>2. seq \in [1..n -> T]
  BY DecksByName
<1>3. k \in X
  BY AddsSteps
<1>4. ASSUME NEW j \in X, NEW d \in T
      PROVE  LET l == step(j, d) IN
             /\ l \in X /\ Adds(j, l)
             /\ \/ l.failed
                \/ /\ Parented(l, k.decks[d].name)
                   /\ \A e \in DOMAIN l.decks \ DOMAIN j.decks : Parented(l, l.decks[e].name)
  <2> DEFINE name == k.decks[d].name
             parent == Front(name)
             added == AddDeck(j, parent, "normal")
             l == step(j, d)
  <2>1. name \in Names /\ j \in Sound /\ Adds(k, j)
    BY SoundParts
  <2>2. l = IF parent = <<>> \/ Named(j, parent) # {} THEN j ELSE added
    OBVIOUS
  <2> HIDE DEF name, step
  <2>3. (parent = <<>> <=> ~(Len(name) > 1)) /\ (Len(name) > 1 => parent \in Names)
    BY <2>1, Fronts
  <2>4. CASE parent = <<>> \/ Named(j, parent) # {}
    <3>1. l = j /\ Parented(j, name)
      BY <2>2, <2>3, <2>4 DEF Parented
    <3> QED BY <2>1, <3>1, AddsSteps DEF name
  <2>5. CASE ~(parent = <<>> \/ Named(j, parent) # {})
    <3>1. l = added /\ parent \in Names /\ Named(j, parent) = {}
      BY <2>2, <2>3, <2>5
    <3> HIDE DEF l, parent
    <3>2. /\ l \in Sound /\ Adds(j, l)
          /\ \/ l.failed
             \/ /\ Named(l, parent) # {}
                /\ \A e \in DOMAIN l.decks \ DOMAIN j.decks : Parented(l, l.decks[e].name)
      BY <2>1, <3>1, MissingDeckAdded
    <3>3. Adds(k, l)
      BY <2>1, <3>2, AddsSteps
    <3> QED BY <3>2, <3>3 DEF Parented, parent, name, l
  <2> QED BY <2>4, <2>5
<1>5. AddMissingDeckNames(k) = (CHOOSE f : Solves(f))[1..n]
  <2>1. DOMAIN seq = 1..n
    BY <1>2
  <2>2. AddMissingDeckNames(k) = FoldLeft(step, k, seq)
    BY Zenon DEF AddMissingDeckNames, ByName
  <2> HIDE DEF step, seq
  <2> QED BY <2>1, <2>2, Zenon DEF FoldLeft, MapThenFoldSet
<1> HIDE DEF seq, T, X, step, n
<1>6. \E f : Solves(f)
  <2>1. G \in [X \X T -> X]
    BY <1>4
  <2>2. PICK h : LeftSolution(h, k, G, seq, n) /\ \A s \in SUBSET (1..n) : h[s] \in X
    <3> HIDE DEF G
    <3> QED BY <1>1, <1>2, <1>3, <2>1, LeftFoldExists
  <2>3. ASSUME NEW s \in SUBSET (1..n), s # {}
        PROVE  G[<<h[s \ {Max(s)}], seq[Max(s)]>>] = step(h[s \ {Max(s)}], seq[Max(s)])
    <3>1. h[s \ {Max(s)}] \in X /\ seq[Max(s)] \in T
      BY <1>1, <1>2, <2>2, <2>3, LastPlace
    <3> QED BY <3>1
  <2>4. Solves(h)
    <3> HIDE DEF G
    <3> QED BY <2>2, <2>3 DEF LeftSolution
  <2> QED BY <2>4
<1> HIDE DEF Done
<1>7. ASSUME NEW f, Solves(f) PROVE <<f[1..n], 1..n>> \in Y
  <2>1. f[{}] = k
    BY <1>7
  <2>2. <<f[{}], {}>> \in Y
    BY <1>3, <2>1 DEF Done
  <2>3. ASSUME NEW s \in SUBSET (1..n), s # {}, <<f[s \ {Max(s)}], s \ {Max(s)}>> \in Y
        PROVE  <<f[s], s>> \in Y
    <3> DEFINE j == f[s \ {Max(s)}]
               d == seq[Max(s)]
               l == f[s]
    <3>1. l = step(j, d)
      BY <1>7, <2>3
    <3>2. d \in T /\ j \in X /\ (j.failed \/ Done(j, s \ {Max(s)}))
      BY <1>1, <1>2, <2>3, LastPlace
    <3> HIDE DEF j, l, d
    <3>3. /\ l \in X /\ Adds(j, l)
          /\ \/ l.failed
             \/ /\ Parented(l, k.decks[d].name)
                /\ \A e \in DOMAIN l.decks \ DOMAIN j.decks : Parented(l, l.decks[e].name)
      BY <1>4, <3>1, <3>2
    <3>4. ASSUME ~l.failed PROVE Done(l, s)
      <4>1. Done(j, s \ {Max(s)})
        BY <3>2, <3>3, <3>4 DEF Adds
      <4>2. ASSUME NEW name, Parented(j, name) PROVE Parented(l, name)
        BY <3>3, <4>2, NamedStays DEF Parented
      <4>3. ASSUME NEW i \in s PROVE Parented(l, k.decks[seq[i]].name)
        <5>1. CASE i = Max(s)
          BY <3>3, <3>4, <5>1 DEF d
        <5>2. CASE i # Max(s)
          BY <4>1, <4>2, <5>2 DEF Done
        <5> QED BY <5>1, <5>2
      <4>4. ASSUME NEW e \in DOMAIN l.decks \ DOMAIN k.decks PROVE Parented(l, l.decks[e].name)
        <5>1. CASE e \in DOMAIN j.decks
          <6>1. l.decks[e] = j.decks[e]
            BY <3>3, <5>1 DEF Adds
          <6> QED BY <4>1, <4>2, <4>4, <5>1, <6>1 DEF Done
        <5>2. CASE e \notin DOMAIN j.decks
          BY <3>3, <3>4, <4>4, <5>2
        <5> QED BY <5>1, <5>2
      <4> QED BY <4>3, <4>4 DEF Done
    <3> QED BY <3>3, <3>4 DEF l
  <2> HIDE DEF Solves, Y
  <2> QED BY <1>1, <2>2, <2>3, LeftFoldGoes
<1>8. <<AddMissingDeckNames(k), 1..n>> \in Y
  <2> HIDE DEF Solves, Y
  <2>1. Solves(CHOOSE f : Solves(f))
    BY <1>6
  <2> QED BY <1>5, <1>7, <2>1
<1> DEFINE l == AddMissingDeckNames(k)
<1> HIDE DEF l
<1>9. l \in Sound /\ Adds(k, l) /\ (l.failed \/ Done(l, 1..n))
  BY <1>8 DEF l, X
<1>10. ASSUME Done(l, 1..n), NEW d \in DOMAIN l.decks PROVE Parented(l, l.decks[d].name)
  <2>1. CASE d \in DOMAIN k.decks
    <3>1. PICK i \in 1..n : seq[i] = d
      BY <2>1, DecksByName DEF Lists, seq, n
    <3>2. l.decks[d] = k.decks[d]
      BY <1>9, <2>1 DEF Adds
    <3> QED BY <1>10, <3>1, <3>2 DEF Done
  <2>2. CASE d \notin DOMAIN k.decks
    BY <1>10, <2>2 DEF Done
  <2> QED BY <2>1, <2>2
<1> QED BY <1>9, <1>10 DEF l

\* What a database check leaves.
Repaired(k) ==
  /\ \A c \in DOMAIN k.cards :
       /\ k.cards[c].did \in DOMAIN k.decks
       /\ k.cards[c].odid # 0 => IsFiltered(k, k.cards[c].did)
  /\ \A d \in DOMAIN k.decks : Parented(k, k.decks[d].name)

\* Decks are recovered first, so that a card is never looked at without its deck, and the
\* decks that are added for their names at last leave the cards alone.
LEMMA CheckDatabaseSound ==
  ASSUME NEW k \in Sound
  PROVE  LET j == CheckDatabase(k) IN j \in Sound /\ (j.failed \/ Repaired(j))
<1> DEFINE r == RecoverMissingDecks(k)
           q == CheckFilteredCards(r)
           j == AddMissingDeckNames(q)
<1>1. /\ r \in Sound /\ r.cards = k.cards
      /\ \A c \in DOMAIN k.cards : k.cards[c].did \in DOMAIN r.decks
  BY RecoverMissingDecksSound
<1> HIDE DEF r
<1>2. /\ q \in Sound /\ q.decks = r.decks /\ DOMAIN q.cards = DOMAIN r.cards
      /\ \A c \in DOMAIN r.cards :
           /\ q.cards[c].did = r.cards[c].did
           /\ (q.cards[c].odid # 0 /\ r.cards[c].did \in DOMAIN r.decks) =>
                IsFiltered(r, r.cards[c].did)
  BY <1>1, CheckFilteredCardsSound
<1> HIDE DEF q
<1>3. /\ j \in Sound /\ Adds(q, j)
      /\ j.failed \/ \A d \in DOMAIN j.decks : Parented(j, j.decks[d].name)
  BY <1>2, AddMissingDeckNamesSound
<1>4. CheckDatabase(k) = j
  BY DEF CheckDatabase, q, r
<1> HIDE DEF j
<1>5. ASSUME NEW c \in DOMAIN j.cards
      PROVE  /\ j.cards[c].did \in DOMAIN j.decks
             /\ j.cards[c].odid # 0 => IsFiltered(j, j.cards[c].did)
  <2>1. /\ c \in DOMAIN r.cards /\ j.cards[c] = q.cards[c] /\ q.cards[c].did = r.cards[c].did
        /\ r.cards[c].did \in DOMAIN r.decks
    BY <1>1, <1>2, <1>3 DEF Adds
  <2>2. j.cards[c].did \in DOMAIN q.decks /\ j.decks[j.cards[c].did] = r.decks[j.cards[c].did]
    BY <1>2, <1>3, <2>1 DEF Adds
  <2>3. j.cards[c].odid # 0 => IsFiltered(r, j.cards[c].did)
    BY <1>2, <2>1
  <2> QED BY <1>3, <2>2, <2>3 DEF Adds, IsFiltered
<1> QED BY <1>3, <1>4, <1>5 DEF Repaired

---------------------------------------------------------------------------
(* Sync *)

LEMMA ApplyGravesSound ==
  ASSUME NEW k \in Sound, NEW graves
  PROVE  ApplyGraves(k, graves) \in Sound
BY Without DEF ApplyGraves

\* A deck that comes in takes a name that is free.
LEMMA MergeDecksSound ==
  ASSUME NEW k \in Sound, NEW rows \in DeckTables
  PROVE  MergeDecks(k, rows) \in Sound
<1> DEFINE dirty == Dirty(rows)
           n == Cardinality(dirty)
           seq == ByNumber(dirty)
           T == DOMAIN rows
           X == Sound
           step(acc, d) ==
             IF d \in DOMAIN acc.decks /\ acc.decks[d].mtime > rows[d].mtime THEN acc
             ELSE PutDeck(acc, d, [rows[d] EXCEPT !.name = UniqueName(acc, d, @)])
           G == [p \in X \X T |-> step(p[1], p[2])]
           Solves(f) == f = [s \in SUBSET (1..n) |->
                               IF s = {} THEN k ELSE step(f[s \ {Max(s)}], seq[Max(s)])]
<1>0. dirty \in SUBSET T /\ dirty \in SUBSET Nat /\ IsFiniteSet(dirty)
  <2>1. dirty \in SUBSET T
    BY DEF Dirty
  <2>2. T \in SUBSET Nat /\ IsFiniteSet(T)
    BY DeckTable DEF Ids
  <2> HIDE DEF dirty, T
  <2> QED BY <2>1, <2>2, FS_Subset
<1>1. n \in Nat
  <2> HIDE DEF dirty
  <2> QED BY <1>0, NumbersInOrder
<1>2. seq \in [1..n -> T]
  <2> HIDE DEF dirty
  <2>1. ByNumber(dirty) \in [1..n -> dirty]
    BY <1>0, NumbersInOrder
  <2> QED BY <1>0, <2>1
<1>3. k \in X
  OBVIOUS
<1>4. ASSUME NEW j \in X, NEW d \in T PROVE step(j, d) \in X
  <2> DEFINE row == rows[d]
             name == UniqueName(j, d, row.name)
             changed == [row EXCEPT !.name = name]
  <2>1. d \in Ids /\ row \in DeckRow /\ row.name \in Names
    BY DeckTable DEF DeckRow
  <2>2. step(j, d) = IF d \in DOMAIN j.decks /\ j.decks[d].mtime > row.mtime THEN j
                     ELSE PutDeck(j, d, changed)
    OBVIOUS
  <2> HIDE DEF row, step
  <2>3. name \in Names /\ Named(j, name) \subseteq {d}
    BY <2>1, UniqueNameFree
  <2> HIDE DEF name
  <2>4. changed \in DeckRow /\ changed.name = name
    BY <2>1, <2>3 DEF DeckRow
  <2> HIDE DEF changed
  <2>5. PutDeck(j, d, changed) \in Sound
    BY <2>1, <2>3, <2>4, PutSound
  <2> QED BY <2>2, <2>5
<1>5. MergeDecks(k, rows) = (CHOOSE f : Solves(f))[1..n]
  <2>1. DOMAIN seq = 1..n
    BY <1>2
  <2>2. MergeDecks(k, rows) = FoldLeft(step, k, seq)
    BY Zenon DEF MergeDecks, ByNumber
  <2> HIDE DEF step, seq
  <2> QED BY <2>1, <2>2, Zenon DEF FoldLeft, MapThenFoldSet
<1> HIDE DEF seq, T, X, step, n
<1>6. \E f : Solves(f)
  <2>1. G \in [X \X T -> X]
    BY <1>4
  <2>2. PICK h : LeftSolution(h, k, G, seq, n) /\ \A s \in SUBSET (1..n) : h[s] \in X
    <3> HIDE DEF G
    <3> QED BY <1>1, <1>2, <1>3, <2>1, LeftFoldExists
  <2>3. ASSUME NEW s \in SUBSET (1..n), s # {}
        PROVE  G[<<h[s \ {Max(s)}], seq[Max(s)]>>] = step(h[s \ {Max(s)}], seq[Max(s)])
    <3>1. h[s \ {Max(s)}] \in X /\ seq[Max(s)] \in T
      BY <1>1, <1>2, <2>2, <2>3, LastPlace
    <3> QED BY <3>1
  <2>4. Solves(h)
    <3> HIDE DEF G
    <3> QED BY <2>2, <2>3 DEF LeftSolution
  <2> QED BY <2>4
<1>7. ASSUME NEW f, Solves(f) PROVE f[1..n] \in X
  <2>1. f[{}] = k
    BY <1>7
  <2>2. ASSUME NEW s \in SUBSET (1..n), s # {}, f[s \ {Max(s)}] \in X PROVE f[s] \in X
    <3>1. f[s] = step(f[s \ {Max(s)}], seq[Max(s)])
      BY <1>7, <2>2
    <3>2. seq[Max(s)] \in T
      BY <1>1, <1>2, <2>2, LastPlace
    <3> QED BY <1>4, <2>2, <3>1, <3>2
  <2> HIDE DEF Solves
  <2> QED BY <1>1, <1>3, <2>1, <2>2, LeftFoldKeeps
<1>8. MergeDecks(k, rows) \in X
  <2> HIDE DEF Solves
  <2>1. Solves(CHOOSE f : Solves(f))
    BY <1>6
  <2> QED BY <1>5, <1>7, <2>1
<1> QED BY <1>8 DEF X

LEMMA MergeCardsSound ==
  ASSUME NEW k \in Sound, NEW rows \in CardTables
  PROVE  MergeCards(k, rows) \in Sound
<1> DEFINE newer == {c \in Dirty(rows) : c \notin DOMAIN k.cards
                       \/ ~k.cards[c].dirty \/ k.cards[c].mtime < rows[c].mtime}
           t == [c \in DOMAIN k.cards \cup newer |-> IF c \in newer THEN rows[c] ELSE k.cards[c]]
           j == [k EXCEPT !.cards = t]
<1>1. newer \in SUBSET (DOMAIN rows)
  BY DEF Dirty
<1>2. MergeCards(k, rows) = j
  BY DEF MergeCards
<1> HIDE DEF newer
<1>3. /\ t = [c \in DOMAIN t |-> t[c]] /\ DOMAIN t = DOMAIN k.cards \cup newer
      /\ \A c \in DOMAIN t : t[c] = IF c \in newer THEN rows[c] ELSE k.cards[c]
  OBVIOUS
<1> HIDE DEF t
<1>4. t \in CardTables
  <2>1. IsFiniteSet(DOMAIN rows) /\ DOMAIN rows \in SUBSET Ids
        /\ \A c \in DOMAIN rows : rows[c] \in CardRow
    BY CardTable
  <2>2. IsFiniteSet(newer)
    BY <1>1, <2>1, FS_Subset
  <2>3. IsFiniteSet(DOMAIN k.cards \cup newer)
    BY <2>2, SoundParts, FS_Union
  <2> QED BY <1>1, <1>3, <2>1, <2>3, SoundParts, CardTable
<1>5. j \in Collections /\ j.decks = k.decks
  BY <1>4, SoundParts DEF Collections
<1> HIDE DEF j
<1> QED BY <1>2, <1>5, SoundParts DEF Sound

LEMMA SyncedSound ==
  ASSUME NEW k \in Sound
  PROVE  Synced(k) \in Sound
<1> DEFINE decks == Clean(k.decks)
           cards == Clean(k.cards)
           j == [k EXCEPT !.decks = decks, !.cards = cards, !.graves = {}]
<1>1. /\ DOMAIN decks = DOMAIN k.decks /\ decks = [d \in DOMAIN decks |-> decks[d]]
      /\ \A d \in DOMAIN decks : decks[d] = [k.decks[d] EXCEPT !.mtime = 0, !.dirty = FALSE]
  BY DEF Clean
<1>2. /\ DOMAIN cards = DOMAIN k.cards /\ cards = [c \in DOMAIN cards |-> cards[c]]
      /\ \A c \in DOMAIN cards : cards[c] = [k.cards[c] EXCEPT !.mtime = 0, !.dirty = FALSE]
  BY DEF Clean
<1>3. Synced(k) = j
  BY DEF Synced
<1> HIDE DEF decks, cards
<1>4. ASSUME NEW d \in DOMAIN decks
      PROVE  decks[d] \in DeckRow /\ decks[d].name = k.decks[d].name
  <2> DEFINE row == k.decks[d]
  <2>1. row \in DeckRow /\ decks[d] = [row EXCEPT !.mtime = 0, !.dirty = FALSE]
    BY <1>1, SoundParts
  <2> HIDE DEF row
  <2>2. [row EXCEPT !.mtime = 0, !.dirty = FALSE] \in DeckRow
        /\ [row EXCEPT !.mtime = 0, !.dirty = FALSE].name = row.name
    BY <2>1 DEF DeckRow
  <2> QED BY <2>1, <2>2 DEF row
<1>5. ASSUME NEW c \in DOMAIN cards PROVE cards[c] \in CardRow
  <2> DEFINE row == k.cards[c]
  <2>1. row \in CardRow /\ cards[c] = [row EXCEPT !.mtime = 0, !.dirty = FALSE]
    BY <1>2, SoundParts
  <2> HIDE DEF row
  <2>2. [row EXCEPT !.mtime = 0, !.dirty = FALSE] \in CardRow
    BY <2>1 DEF CardRow
  <2> QED BY <2>1, <2>2
<1>6. decks \in DeckTables
  BY <1>1, <1>4, SoundParts, DeckTable
<1>7. cards \in CardTables
  BY <1>2, <1>5, SoundParts, CardTable
<1>8. NamesDiffer(decks)
  BY <1>1, <1>4, SoundParts DEF NamesDiffer
<1>9. j \in Collections /\ j.decks = decks
  BY <1>6, <1>7, SoundParts DEF Collections
<1> HIDE DEF j
<1> QED BY <1>3, <1>8, <1>9 DEF Sound

LEMMA NormalSyncSound ==
  ASSUME NEW client \in Sound, NEW server \in Sound
  PROVE  NormalSync(client, server) \in Sound \X Sound
<1> DEFINE c == ApplyGraves(client, server.graves)
           s == ApplyGraves(server, client.graves)
           a == MergeDecks(c, s.decks)
           b == MergeDecks(s, c.decks)
<1>1. NormalSync(client, server)
        = <<Synced(MergeCards(a, s.cards)), Synced(MergeCards(b, c.cards))>>
  BY DEF NormalSync
<1>2. c \in Sound /\ s \in Sound
  BY ApplyGravesSound
<1> HIDE DEF c, s
<1>3. /\ c.decks \in DeckTables /\ c.cards \in CardTables
      /\ s.decks \in DeckTables /\ s.cards \in CardTables
  BY <1>2, SoundParts
<1>4. a \in Sound /\ b \in Sound
  BY <1>2, <1>3, MergeDecksSound
<1> HIDE DEF a, b
<1>5. MergeCards(a, s.cards) \in Sound /\ MergeCards(b, c.cards) \in Sound
  BY <1>3, <1>4, MergeCardsSound
<1>6. Synced(MergeCards(a, s.cards)) \in Sound /\ Synced(MergeCards(b, c.cards)) \in Sound
  BY <1>5, SyncedSound
<1> QED BY <1>1, <1>6

---------------------------------------------------------------------------
(* The two devices *)

\* What holds of both collections in every state: until a sync the tree is whole and cards
\* are at home, and a database check makes sure of what it looks at.
IInv ==
  /\ ops \in [Devices -> Nat] /\ col \in [Devices -> Sound]
  /\ health \in [Devices -> {"sound", "merged", "checked"}]
  /\ \A x \in Devices : health[x] = "sound" => Homely(col[x]) /\ Whole(col[x])
  /\ \A x \in Devices : health[x] = "checked" => Repaired(col[x])

LEMMA DevicesFinite == IsFiniteSet(Devices) /\ Devices \subseteq {1, 2}
<1>1. IsFiniteSet({1}) /\ IsFiniteSet({1, 2})
  <2>1. IsFiniteSet({1})
    BY FS_Singleton
  <2>2. IsFiniteSet({1} \cup {2})
    BY <2>1, FS_AddElement
  <2>3. {1} \cup {2} = {1, 2}
    OBVIOUS
  <2> QED BY <2>1, <2>2, <2>3
<1> QED BY <1>1 DEF Devices

\* The clock counts the operations.
LEMMA Clock ==
  ASSUME ops \in [Devices -> Nat]
  PROVE  Now \in Nat
<1> DEFINE S == Devices
           X == Nat
           step(acc, x) == ops[x] + acc
           G == [p \in X \X S |-> step(p[1], p[2])]
           Solves(f) == f = [s \in SUBSET S |->
             IF s = {} THEN 0
             ELSE step(f[s \ {CHOOSE x \in s : TRUE}], CHOOSE x \in s : TRUE)]
<1>1. IsFiniteSet(S)
  BY DevicesFinite
<1>3. 0 \in X
  OBVIOUS
<1>4. ASSUME NEW j \in X, NEW x \in S PROVE step(j, x) \in X
  <2>1. ops[x] \in Nat
    OBVIOUS
  <2> QED BY <2>1
<1>5. Now = (CHOOSE f : Solves(f))[S]
  BY Zenon DEF Now, MapThenSumSet, MapThenFoldSet
<1> HIDE DEF S, X, step
<1>6. \E f : Solves(f)
  <2>1. G \in [X \X S -> X]
    BY <1>4
  <2>2. PICK h : SetSolution(h, 0, G, S) /\ \A s \in SUBSET S : h[s] \in X
    <3> HIDE DEF G
    <3> QED BY <1>1, <1>3, <2>1, SetFoldExists
  <2>3. ASSUME NEW s \in SUBSET S, s # {}
        PROVE  G[<<h[s \ {CHOOSE x \in s : TRUE}], CHOOSE x \in s : TRUE>>]
                 = step(h[s \ {CHOOSE x \in s : TRUE}], CHOOSE x \in s : TRUE)
    <3>1. (CHOOSE x \in s : TRUE) \in s
      BY <2>3
    <3>2. h[s \ {CHOOSE x \in s : TRUE}] \in X
      BY <2>2
    <3> DEFINE c == CHOOSE x \in s : TRUE
    <3> HIDE DEF c
    <3>3. c \in S /\ h[s \ {c}] \in X
      BY <3>1, <3>2 DEF c
    <3>4. G[<<h[s \ {c}], c>>] = step(h[s \ {c}], c)
      BY <3>3
    <3> QED BY <3>4 DEF c
  <2>4. Solves(h)
    <3> HIDE DEF G
    <3> QED BY <2>2, <2>3 DEF SetSolution
  <2> QED BY <2>4
<1>7. ASSUME NEW f, Solves(f) PROVE f[S] \in X
  <2>1. f[{}] = 0
    BY <1>7
  <2>2. ASSUME NEW s \in SUBSET S, NEW c \in s, c = (CHOOSE x \in s : TRUE), f[s \ {c}] \in X
        PROVE  f[s] \in X
    <3>1. f[s] = step(f[s \ {c}], c)
      BY <1>7, <2>2
    <3> QED BY <1>4, <2>2, <3>1
  <2> HIDE DEF Solves
  <2> QED BY <1>1, <1>3, <2>1, <2>2, SetFoldKeeps
<1>8. Now \in X
  <2> HIDE DEF Solves
  <2>1. Solves(CHOOSE f : Solves(f))
    BY <1>6
  <2> QED BY <1>5, <1>7, <2>1
<1> QED BY <1>8 DEF X

LEMMA InitialSound ==
  ASSUME NEW x \in Devices
  PROVE  LET k == InitialCollection(x) IN k \in Sound /\ Homely(k) /\ Whole(k)
<1> DEFINE Card(c) == LET start == InitialCards[c] IN
             [did |-> start.did, odid |-> 0, type |-> start.type, due |-> start.due,
              odue |-> "zero", queue |-> RestoredQueue(start), mtime |-> 0, dirty |-> FALSE]
           cards == [c \in Cards |-> Card(c)]
           last == Max(DOMAIN InitialDecks)
           k == InitialCollection(x)
<1>1. ASSUME NEW c \in Cards PROVE Card(c) \in CardRow
  <2> DEFINE start == InitialCards[c]
             queue == RestoredQueue(start)
  <2>1. /\ start.type \in {"new", "learn", "review"} /\ start.due \in Dues /\ start.did \in Ids
    BY InitialCardsAssumption, InitialDecksAssumption DEF CardTypes, Ids
  <2> HIDE DEF start
  <2>2. queue \in {"new", "learn", "daylearn", "review"}
    BY <2>1 DEF RestoredQueue
  <2>3. Card(c) = [did |-> start.did, odid |-> 0, type |-> start.type, due |-> start.due,
                   odue |-> "zero", queue |-> queue, mtime |-> 0, dirty |-> FALSE]
    BY DEF start
  <2> HIDE DEF queue, Card
  <2>4. "zero" \in Dues
    BY DEF Dues
  <2> QED BY <2>1, <2>2, <2>3, <2>4 DEF CardRow
<1>2. cards \in CardTables
  <2>1. Cards \in SUBSET Ids /\ IsFiniteSet(Cards)
    BY BoundsAssumption, CardsAssumption, InitialCardsAssumption DEF Ids
  <2>2. DOMAIN cards = Cards /\ cards = [c \in DOMAIN cards |-> cards[c]]
        /\ \A c \in DOMAIN cards : cards[c] \in CardRow
    BY <1>1
  <2> HIDE DEF cards
  <2> QED BY <2>1, <2>2, CardTable
<1>3. InitialDecks \in DeckTables
  <2>1. ASSUME NEW r \in InitialRows PROVE r \in DeckRow
    <3>1. {0} \subseteq Nat /\ {FALSE} \subseteq BOOLEAN
      OBVIOUS
    <3> QED BY <3>1, Zenon DEF InitialRows, DeckRow
  <2>2. /\ InitialDecks = [d \in DOMAIN InitialDecks |-> InitialDecks[d]]
        /\ \A d \in DOMAIN InitialDecks : InitialDecks[d] \in InitialRows
    BY InitialDecksAssumption
  <2>3. DOMAIN InitialDecks \in SUBSET Ids /\ IsFiniteSet(DOMAIN InitialDecks)
    BY InitialDecksAssumption DEF Ids
  <2> QED BY <2>1, <2>2, <2>3, DeckTable
<1>4. last + x \in Ids
  <2>1. DOMAIN InitialDecks \in SUBSET Nat /\ IsFiniteSet(DOMAIN InitialDecks)
        /\ DOMAIN InitialDecks # {}
    BY InitialDecksAssumption, DecksAssumption
  <2>2. last \in Nat
    BY <2>1, LeastAndGreatest
  <2>3. x \in {1, 2}
    BY DevicesFinite
  <2> QED BY <2>2, <2>3 DEF Ids
<1>5. k = [decks |-> InitialDecks, cards |-> cards, graves |-> {}, schema |-> FALSE,
           failed |-> FALSE, now |-> 0, next |-> last + x]
  BY DEF InitialCollection
<1>8. ASSUME NEW c \in Cards PROVE AtHome(k, c, cards[c])
  <2> DEFINE start == InitialCards[c]
             card == cards[c]
  <2>1. /\ card.did = start.did /\ card.odid = 0 /\ card.type = start.type
        /\ card.due = start.due /\ card.odue = "zero" /\ card.queue = RestoredQueue(start)
    OBVIOUS
  <2>2. start.did \in NormalDecks(k)
    BY <1>5, InitialCardsAssumption DEF NormalDecks, IsFiltered
  <2> HIDE DEF card
  <2>3. RestoredQueue(card) = RestoredQueue(start)
    BY <2>1 DEF RestoredQueue
  <2> HIDE DEF k, start
  <2>4. Housed(k, card)
    BY <2>1, <2>2 DEF Housed
  <2>5. Kept(c, card)
    BY <2>1, <2>3 DEF Kept, start
  <2> QED BY <2>4, <2>5 DEF AtHome, card
<1>9. k.cards = cards /\ DOMAIN cards = Cards
  BY <1>5
<1> HIDE DEF cards, last
<1>6. k \in Collections /\ k.decks = InitialDecks
  BY <1>2, <1>3, <1>4, <1>5 DEF Collections
<1>7. NamesDiffer(InitialDecks)
  BY InitialDecksAssumption DEF NamesDiffer
<1> HIDE DEF k
<1>10. Whole(k)
  BY <1>6, InitialDecksAssumption DEF Whole, IsThere, NormalDecks, IsFiltered
<1> QED BY <1>6, <1>7, <1>8, <1>9, <1>10 DEF Sound, Homely, k

\* The collection an operation starts from, and the step it takes.
Begun(x) == [col[x] EXCEPT !.now = Now + 1]
Leads(x, k) == /\ ~k.failed /\ ops' = [ops EXCEPT ![x] = @ + 1]
               /\ col' = [col EXCEPT ![x] = [k EXCEPT !.now = 0]]
               /\ health' = [health EXCEPT ![x] = IF @ = "sound" THEN @ ELSE "merged"]

\* What every step does: it keeps the invariant, and no card is lost without its home.
Preserves ==
  /\ IInv'
  /\ \A x \in Devices : (health[x] = "sound" /\ health'[x] = "sound") => Loses(col[x], col'[x])

LEMMA AtTime ==
  ASSUME NEW k \in Sound, NEW n \in Nat
  PROVE  /\ [k EXCEPT !.now = n] \in Sound
         /\ [k EXCEPT !.now = n].decks = k.decks /\ [k EXCEPT !.now = n].cards = k.cards
<1> DEFINE j == [k EXCEPT !.now = n]
<1>1. j \in Collections /\ j.decks = k.decks /\ j.cards = k.cards
  BY SoundParts DEF Collections
<1> HIDE DEF j
<1>2. j \in Sound
  BY <1>1, SoundParts DEF Sound
<1> QED BY <1>1, <1>2 DEF j

LEMMA BegunSound ==
  ASSUME IInv, NEW x \in Devices
  PROVE  /\ col[x] \in Sound /\ Begun(x) \in Sound
         /\ Begun(x).decks = col[x].decks /\ Begun(x).cards = col[x].cards
<1>1. col[x] \in Sound
  BY DEF IInv
<1>2. Now + 1 \in Nat
  BY Clock DEF IInv
<1> QED BY <1>1, <1>2, AtTime DEF Begun

LEMMA LeadsSound ==
  ASSUME IInv, NEW x \in Devices, NEW k, Keeps(Begun(x), k), Grows(Begun(x), k), Leads(x, k)
  PROVE  Preserves
<1> DEFINE b == Begun(x)
           j == [k EXCEPT !.now = 0]
<1>1. /\ b \in Sound /\ col[x] \in Sound /\ b.decks = col[x].decks /\ b.cards = col[x].cards
  BY BegunSound
<1>2. k \in Sound /\ (Homely(b) => Homely(k) /\ Loses(b, k))
  BY DEF Keeps
<1>3. j \in Sound /\ j.decks = k.decks /\ j.cards = k.cards
  BY <1>2, AtTime
<1>4. /\ col' = [col EXCEPT ![x] = j] /\ ops' = [ops EXCEPT ![x] = @ + 1]
      /\ health' = [health EXCEPT ![x] = IF @ = "sound" THEN @ ELSE "merged"]
  BY DEF Leads
<1>10. Grows(b, k) /\ ~k.failed
  BY DEF Leads
<1> HIDE DEF b, j
<1>5. ASSUME health[x] = "sound" PROVE Homely(j) /\ Whole(j) /\ Loses(col[x], j)
  <2>1. Homely(b)
    BY <1>1, <1>5, KeepsSteps DEF IInv, Keeps
  <2>2. Homely(j)
    BY <1>2, <1>3, <2>1, KeepsSteps DEF Keeps
  <2>3. Whole(col[x])
    BY <1>5 DEF IInv
  <2>4. Whole(b)
    BY <1>1, <2>3, SameTree DEF IsFiltered
  <2>5. Whole(k)
    BY <1>10, <2>4 DEF Grows
  <2>6. Whole(j)
    BY <1>3, <2>5, SameTree DEF IsFiltered
  <2> QED BY <1>1, <1>2, <1>3, <2>1, <2>2, <2>6 DEF Loses
<1>6. /\ col'[x] = j /\ \A y \in Devices \ {x} : col'[y] = col[y] /\ health'[y] = health[y]
      /\ health'[x] = IF health[x] = "sound" THEN "sound" ELSE "merged"
      /\ health[x] \in {"sound", "merged", "checked"}
  BY <1>4 DEF IInv
<1>7. /\ ops' \in [Devices -> Nat] /\ col' \in [Devices -> Sound]
      /\ health' \in [Devices -> {"sound", "merged", "checked"}]
  BY <1>3, <1>4 DEF IInv
<1>8. ASSUME NEW y \in Devices
      PROVE  /\ health'[y] = "sound" => Homely(col'[y]) /\ Whole(col'[y])
             /\ health'[y] = "checked" => Repaired(col'[y])
             /\ (health[y] = "sound" /\ health'[y] = "sound") => Loses(col[y], col'[y])
  <2>1. CASE y = x
    BY <1>5, <1>6, <2>1
  <2>2. CASE y # x
    BY <1>6, <2>2 DEF IInv, Loses
  <2> QED BY <2>1, <2>2
<1>9. IInv'
  BY <1>7, <1>8 DEF IInv
<1> QED BY <1>8, <1>9 DEF Preserves

LEMMA SelectionsAreIds ==
  ASSUME IInv, NEW x \in Devices, NEW s \in Selections(x)
  PROVE  s \in Seq(Ids)
<1>1. DeckIds(x) \in SUBSET Ids
  BY BegunSound, SoundParts DEF DeckIds
<1>2. ASSUME NEW d \in DeckIds(x), s = <<d>> PROVE s \in Seq(Ids)
  <2>1. d \in Ids
    BY <1>1
  <2> QED BY <1>2, <2>1
<1>3. ASSUME s \in DeckIds(x) \X DeckIds(x) PROVE s \in Seq(Ids)
  <2>1. s = <<s[1], s[2]>> /\ s[1] \in Ids /\ s[2] \in Ids
    BY <1>1, <1>3
  <2> DEFINE a == s[1]
             b == s[2]
  <2> HIDE DEF a, b
  <2>2. s = <<a, b>> /\ a \in Ids /\ b \in Ids
    BY <2>1 DEF a, b
  <2> QED BY <2>2
<1> QED BY <1>2, <1>3 DEF Selections

\* Operations on decks.
LEMMA AddDeckOpSound ==
  ASSUME IInv, NEW x \in Devices, AddDeckOp(x)
  PROVE  Preserves
<1>1. PICK name \in TypedNames : Leads(x, AddDeck(Begun(x), name, "normal"))
  BY DEF AddDeckOp, Op, Commit, Leads, Begun
<1>2. name \in Names /\ "normal" \in Kinds
  BY TypedNamesAssumption DEF Kinds
<1>3. Keeps(Begun(x), AddDeck(Begun(x), name, "normal"))
  BY <1>2, BegunSound, AddDeckSound, AddsSteps, KeepsSteps DEF DeckAdded
<1>4. Grows(Begun(x), AddDeck(Begun(x), name, "normal"))
  BY <1>2, BegunSound, AddDeckWhole
<1> QED BY <1>1, <1>3, <1>4, LeadsSound

LEMMA RenameDeckOpSound ==
  ASSUME IInv, NEW x \in Devices, RenameDeckOp(x)
  PROVE  Preserves
<1> DEFINE k == Begun(x)
<1>1. PICK d \in DeckIds(x), name \in TypedNames :
        Leads(x, UpdateDeck(k, d, name, k.decks[d].kind))
  BY DEF RenameDeckOp, Op, Commit, Leads, Begun
<1>2. k \in Sound /\ d \in DOMAIN k.decks /\ name \in Names
  BY TypedNamesAssumption, BegunSound DEF DeckIds
<1> HIDE DEF k
<1>3. k.decks[d].kind \in Kinds
  BY <1>2, SoundParts DEF DeckRow
<1>4. /\ Keeps(k, UpdateDeck(k, d, name, k.decks[d].kind))
      /\ Grows(k, UpdateDeck(k, d, name, k.decks[d].kind))
  <2>1. (k.decks[d].kind # "normal") <=> IsFiltered(k, d)
    BY DEF IsFiltered
  <2> QED BY <1>2, <1>3, <2>1, UpdateDeckSound, UpdateDeckWhole, KeepsSteps
<1> QED BY <1>1, <1>4, LeadsSound DEF k

LEMMA ReparentDecksOpSound ==
  ASSUME IInv, NEW x \in Devices, ReparentDecksOp(x)
  PROVE  Preserves
<1> DEFINE k == Begun(x)
<1>1. PICK ids \in Selections(x), target \in NormalIds(x) \cup {0} :
        Leads(x, ReparentDecks(k, ids, IF target = 0 THEN <<>> ELSE k.decks[target].name))
  BY DEF ReparentDecksOp, Op, Commit, Leads, Begun
<1>2. k \in Sound /\ (target # 0 => target \in NormalDecks(k) /\ target \in DOMAIN k.decks)
  BY BegunSound DEF NormalIds, FilteredIds, DeckIds, NormalDecks, IsFiltered
<1> HIDE DEF k
<1>3. (IF target = 0 THEN <<>> ELSE k.decks[target].name) \in Names \cup {<<>>}
  BY <1>2, SoundParts
<1>4. ids \in Seq(Ids)
  BY SelectionsAreIds
<1>5. Keeps(k, ReparentDecks(k, ids, IF target = 0 THEN <<>> ELSE k.decks[target].name))
  BY <1>2, <1>3, <1>4, ReparentDecksSound, KeepsSteps
<1>6. TargetStays(k, IF target = 0 THEN <<>> ELSE k.decks[target].name)
  BY <1>2 DEF TargetStays, IsThere
<1>7. Grows(k, ReparentDecks(k, ids, IF target = 0 THEN <<>> ELSE k.decks[target].name))
  BY <1>2, <1>3, <1>4, <1>6, ReparentDecksWhole
<1> QED BY <1>1, <1>5, <1>7, LeadsSound DEF k

LEMMA RemoveDecksOpSound ==
  ASSUME IInv, NEW x \in Devices, RemoveDecksOp(x)
  PROVE  Preserves
<1>1. PICK ids \in Selections(x) : Leads(x, RemoveDecks(Begun(x), ids))
  BY DEF RemoveDecksOp, Op, Commit, Leads, Begun
<1>2. Keeps(Begun(x), RemoveDecks(Begun(x), ids)) /\ Grows(Begun(x), RemoveDecks(Begun(x), ids))
  BY SelectionsAreIds, BegunSound, RemoveDecksSound DEF Sheds, Keeps, Grows
<1> QED BY <1>1, <1>2, LeadsSound

LEMMA SaveFilteredDeckSound ==
  ASSUME IInv, NEW x \in Devices, SaveFilteredDeck(x)
  PROVE  Preserves
<1> DEFINE k == Begun(x)
<1>1. PICK d \in FilteredIds(x) \cup {0}, name \in TypedNames, kind \in FilteredKinds,
           found \in SUBSET Cards, allowEmpty \in BOOLEAN :
        Op(x, "filtered", LAMBDA j :
             AddOrUpdateFilteredDeck(j, d, name, kind, found, allowEmpty))
  BY Zenon DEF SaveFilteredDeck
<1>4. Leads(x, AddOrUpdateFilteredDeck(k, d, name, kind, found, allowEmpty))
  BY <1>1 DEF Op, Commit, Leads, Begun
<1>2. k \in Sound /\ d \in FilteredDecks(k) \cup {0} /\ name \in Names
  BY TypedNamesAssumption, BegunSound DEF FilteredIds, DeckIds, FilteredDecks, IsFiltered
<1> HIDE DEF k
<1>3. /\ Keeps(k, AddOrUpdateFilteredDeck(k, d, name, kind, found, allowEmpty))
      /\ Grows(k, AddOrUpdateFilteredDeck(k, d, name, kind, found, allowEmpty))
  BY <1>2, SaveFilteredKeeps
<1> QED BY <1>3, <1>4, LeadsSound DEF k

LEMMA RebuildFilteredDeckSound ==
  ASSUME IInv, NEW x \in Devices, RebuildFilteredDeck(x)
  PROVE  Preserves
<1>1. PICK d \in FilteredIds(x), found \in SUBSET Cards : Leads(x, Rebuild(Begun(x), d, found))
  BY DEF RebuildFilteredDeck, Op, Commit, Leads, Begun
<1>2. d \in DOMAIN Begun(x).decks
  BY BegunSound DEF FilteredIds, DeckIds
<1>3. Keeps(Begun(x), Rebuild(Begun(x), d, found))
  BY <1>2, BegunSound, RebuildKeeps
<1>4. d \in Ids
  BY <1>2, BegunSound, SoundParts
<1>5. Grows(Begun(x), Rebuild(Begun(x), d, found))
  BY <1>4, BegunSound, RebuildOnlyCards, GrowsSteps DEF OnlyCards
<1> QED BY <1>1, <1>3, <1>5, LeadsSound

LEMMA EmptyFilteredDeckSound ==
  ASSUME IInv, NEW x \in Devices, EmptyFilteredDeck(x)
  PROVE  Preserves
<1>1. PICK d \in FilteredIds(x) : Leads(x, ReturnAllCards(Begun(x), d))
  BY DEF EmptyFilteredDeck, Op, Commit, Leads, Begun
<1>2. Keeps(Begun(x), ReturnAllCards(Begun(x), d))
  BY BegunSound, ReturnAllCardsKeeps
<1>3. Grows(Begun(x), ReturnAllCards(Begun(x), d))
  BY BegunSound, ReturnAllCardsSound, GrowsSteps DEF OnlyCards
<1> QED BY <1>1, <1>2, <1>3, LeadsSound

LEMMA ImportPackageSound ==
  ASSUME IInv, NEW x \in Devices, ImportPackage(x)
  PROVE  Preserves
<1>1. PICK package \in Packages : Leads(x, ImportDecks(Begun(x), package))
  BY DEF ImportPackage, Op, Commit, Leads, Begun
<1>2. Package(package)
  BY PackagesAssumption DEF Package, PackageDecks
<1>3. /\ Keeps(Begun(x), ImportDecks(Begun(x), package))
      /\ Grows(Begun(x), ImportDecks(Begun(x), package))
  BY <1>2, BegunSound, ImportDecksSound, KeepsSteps
<1> QED BY <1>1, <1>3, LeadsSound

\* Operations on cards.
LEMMA UpdateCardKeeps ==
  ASSUME NEW k \in Sound, NEW c \in DOMAIN k.cards, NEW card \in CardRow,
         AtHome(k, c, k.cards[c]) => AtHome(k, c, card)
  PROVE  Keeps(k, UpdateCard(k, c, card)) /\ Grows(k, UpdateCard(k, c, card))
<1> DEFINE j == UpdateCard(k, c, card)
<1>1. OnlyCards(k, j) /\ j.cards = [k.cards EXCEPT ![c] = Touched(k, card)]
  BY UpdateCardSound
<1> HIDE DEF j
<1>2. ASSUME Homely(k), NEW e \in DOMAIN j.cards PROVE AtHome(j, e, j.cards[e])
  <2>1. AtHome(k, e, k.cards[e])
    BY <1>1, <1>2 DEF OnlyCards, Homely
  <2>2. CASE e = c
    <3>1. AtHome(k, e, Touched(k, card))
      BY <2>1, <2>2, TouchedAtHome
    <3>2. j.cards[e] = Touched(k, card)
      BY <1>1, <2>2
    <3> QED BY <1>1, <3>1, <3>2 DEF OnlyCards, AtHome, Housed, NormalDecks, FilteredDecks, IsFiltered
  <2>3. CASE e # c
    <3>1. j.cards[e] = k.cards[e]
      BY <1>1, <1>2, <2>3 DEF OnlyCards
    <3> QED BY <1>1, <2>1, <3>1 DEF OnlyCards, AtHome, Housed, NormalDecks, FilteredDecks, IsFiltered
  <2> QED BY <2>2, <2>3
<1>3. Homely(k) => Homely(j)
  BY <1>2 DEF Homely
<1>4. Grows(k, j)
  BY <1>1, GrowsSteps DEF OnlyCards
<1> QED BY <1>1, <1>3, <1>4 DEF OnlyCards, Keeps, Loses, j

LEMMA SetDeckSound ==
  ASSUME IInv, NEW x \in Devices, SetDeck(x)
  PROVE  Preserves
<1> DEFINE k == Begun(x)
<1>1. PICK c \in DOMAIN col[x].cards, d \in NormalIds(x) :
        Leads(x, UpdateCard(k, c, [RemovedFromFiltered(k.cards[c]) EXCEPT !.did = d]))
  BY DEF SetDeck, Op, Commit, Leads, Begun
<1>2. k \in Sound /\ c \in DOMAIN k.cards /\ d \in Ids /\ d \in NormalDecks(k)
  BY BegunSound, SoundParts DEF NormalIds, FilteredIds, DeckIds, NormalDecks, IsFiltered
<1> HIDE DEF k
<1> DEFINE home == RemovedFromFiltered(k.cards[c])
           card == [home EXCEPT !.did = d]
<1>3. home \in CardRow
  BY <1>2, SoundParts, CardsGoHome
<1>4. Leads(x, UpdateCard(k, c, card))
  BY <1>1
<1>7. AtHome(k, c, k.cards[c]) => AtHome(k, c, home) /\ home.odid = 0
  BY <1>2, SoundParts, GoesHome
<1> HIDE DEF home
<1>5. card \in CardRow
  BY <1>2, <1>3 DEF CardRow
<1>8. ASSUME AtHome(k, c, home), home.odid = 0 PROVE AtHome(k, c, card)
  <2>1. /\ card.did = d /\ card.odid = home.odid /\ card.type = home.type /\ card.due = home.due
        /\ card.odue = home.odue /\ card.queue = home.queue
    BY <1>3 DEF CardRow
  <2> HIDE DEF card
  <2>2. RestoredQueue(card) = RestoredQueue(home)
    BY <2>1 DEF RestoredQueue
  <2> QED BY <1>2, <1>8, <2>1, <2>2 DEF AtHome, Housed, Kept
<1> HIDE DEF card
<1>6. /\ Keeps(k, UpdateCard(k, c, card))
      /\ Grows(k, UpdateCard(k, c, card))
  BY <1>2, <1>5, <1>7, <1>8, UpdateCardKeeps
<1> QED BY <1>4, <1>6, LeadsSound DEF k

LEMMA SuspendCardSound ==
  ASSUME IInv, NEW x \in Devices, SuspendCard(x)
  PROVE  Preserves
<1> DEFINE k == Begun(x)
<1>1. PICK c \in DOMAIN col[x].cards : Leads(x, UpdateCard(k, c, [k.cards[c] EXCEPT !.queue = "held"]))
  BY DEF SuspendCard, Op, Commit, Leads, Begun
<1>2. k \in Sound /\ c \in DOMAIN k.cards
  BY BegunSound
<1>3. k.cards[c] \in CardRow
  BY <1>2, SoundParts
<1> HIDE DEF k
<1>4. [k.cards[c] EXCEPT !.queue = "held"] \in CardRow
  BY <1>3 DEF CardRow
<1> DEFINE card == k.cards[c]
           new == [k.cards[c] EXCEPT !.queue = "held"]
<1>6. AtHome(k, c, card) => AtHome(k, c, new)
  <2>1. /\ new.did = card.did /\ new.odid = card.odid /\ new.type = card.type
        /\ new.due = card.due /\ new.odue = card.odue /\ new.queue = "held"
    BY <1>3 DEF CardRow
  <2> HIDE DEF new, card
  <2> QED BY <2>1 DEF AtHome, Housed, Kept
<1>5. /\ Keeps(k, UpdateCard(k, c, [k.cards[c] EXCEPT !.queue = "held"]))
      /\ Grows(k, UpdateCard(k, c, [k.cards[c] EXCEPT !.queue = "held"]))
  BY <1>2, <1>4, <1>6, UpdateCardKeeps
<1> QED BY <1>1, <1>5, LeadsSound DEF k

LEMMA UnsuspendCardSound ==
  ASSUME IInv, NEW x \in Devices, UnsuspendCard(x)
  PROVE  Preserves
<1> DEFINE k == Begun(x)
<1>1. PICK c \in DOMAIN col[x].cards : Leads(x, UpdateCard(k, c, [k.cards[c] EXCEPT !.queue = RestoredQueue(k.cards[c])]))
  BY DEF UnsuspendCard, Op, Commit, Leads, Begun
<1>2. k \in Sound /\ c \in DOMAIN k.cards
  BY BegunSound
<1>3. k.cards[c] \in CardRow
  BY <1>2, SoundParts
<1> HIDE DEF k
<1>4. [k.cards[c] EXCEPT !.queue = RestoredQueue(k.cards[c])] \in CardRow
  BY <1>3, RestoredQueues DEF CardRow
<1> DEFINE card == k.cards[c]
           new == [k.cards[c] EXCEPT !.queue = RestoredQueue(k.cards[c])]
<1>6. AtHome(k, c, card) => AtHome(k, c, new)
  <2>1. /\ new.did = card.did /\ new.odid = card.odid /\ new.type = card.type
        /\ new.due = card.due /\ new.odue = card.odue /\ new.queue = RestoredQueue(card)
    BY <1>3 DEF CardRow
  <2> HIDE DEF new, card
  <2>2. RestoredQueue(new) = RestoredQueue(card)
    BY <2>1 DEF RestoredQueue
  <2> QED BY <2>1, <2>2 DEF AtHome, Housed, Kept
<1>5. /\ Keeps(k, UpdateCard(k, c, [k.cards[c] EXCEPT !.queue = RestoredQueue(k.cards[c])]))
      /\ Grows(k, UpdateCard(k, c, [k.cards[c] EXCEPT !.queue = RestoredQueue(k.cards[c])]))
  BY <1>2, <1>4, <1>6, UpdateCardKeeps
<1> QED BY <1>1, <1>5, LeadsSound DEF k

LEMMA PreviewAgainSound ==
  ASSUME IInv, NEW x \in Devices, PreviewAgain(x)
  PROVE  Preserves
<1> DEFINE k == Begun(x)
<1>1. PICK c \in Previewed(x) : Leads(x, UpdateCard(k, c, [k.cards[c] EXCEPT !.queue = "preview", !.due = "timestamp"]))
  BY DEF PreviewAgain, Op, Commit, Leads, Begun
<1>2. k \in Sound /\ c \in DOMAIN k.cards
  BY BegunSound DEF Previewed
<1>7. k.cards[c].odid # 0
  BY BegunSound DEF Previewed
<1>3. k.cards[c] \in CardRow
  BY <1>2, SoundParts
<1> HIDE DEF k
<1>4. [k.cards[c] EXCEPT !.queue = "preview", !.due = "timestamp"] \in CardRow
  BY <1>3 DEF CardRow, Dues
<1> DEFINE card == k.cards[c]
           new == [k.cards[c] EXCEPT !.queue = "preview", !.due = "timestamp"]
<1>6. AtHome(k, c, card) => AtHome(k, c, new)
  <2>1. /\ new.did = card.did /\ new.odid = card.odid /\ new.odue = card.odue /\ card.odid # 0
    BY <1>3, <1>7 DEF CardRow
  <2> HIDE DEF new, card
  <2> QED BY <2>1 DEF AtHome, Housed, Kept
<1>5. /\ Keeps(k, UpdateCard(k, c, [k.cards[c] EXCEPT !.queue = "preview", !.due = "timestamp"]))
      /\ Grows(k, UpdateCard(k, c, [k.cards[c] EXCEPT !.queue = "preview", !.due = "timestamp"]))
  BY <1>2, <1>4, <1>6, UpdateCardKeeps
<1> QED BY <1>1, <1>5, LeadsSound DEF k

LEMMA PreviewDoneSound ==
  ASSUME IInv, NEW x \in Devices, PreviewDone(x)
  PROVE  Preserves
<1> DEFINE k == Begun(x)
<1>1. PICK c \in Previewed(x) : Leads(x, UpdateCard(k, c, RemovedFromFiltered(k.cards[c])))
  BY DEF PreviewDone, Op, Commit, Leads, Begun
<1>2. k \in Sound /\ c \in DOMAIN k.cards
  BY BegunSound DEF Previewed
<1>3. k.cards[c] \in CardRow
  BY <1>2, SoundParts
<1> HIDE DEF k
<1>4. RemovedFromFiltered(k.cards[c]) \in CardRow
  BY <1>3, CardsGoHome
<1>6. AtHome(k, c, k.cards[c]) => AtHome(k, c, RemovedFromFiltered(k.cards[c]))
  BY <1>3, GoesHome
<1>5. /\ Keeps(k, UpdateCard(k, c, RemovedFromFiltered(k.cards[c])))
      /\ Grows(k, UpdateCard(k, c, RemovedFromFiltered(k.cards[c])))
  BY <1>2, <1>4, <1>6, UpdateCardKeeps
<1> QED BY <1>1, <1>5, LeadsSound DEF k

LEMMA DatabaseCheckSound ==
  ASSUME IInv, NEW x \in Devices, DatabaseCheck(x)
  PROVE  Preserves
<1> DEFINE k == [col[x] EXCEPT !.now = Now]
           c == CheckDatabase(k)
           wrong == WronglyFiltered(RecoverMissingDecks(k)) # {}
           checked == [c EXCEPT !.now = 0, !.schema = @ \/ wrong]
<1>1. /\ col' = [col EXCEPT ![x] = checked] /\ ops' = ops
      /\ health' = [health EXCEPT ![x] = "checked"] /\ ~checked.failed
  BY DEF DatabaseCheck
<1>2. k \in Sound
  BY BegunSound, Clock, AtTime DEF IInv
<1> HIDE DEF k
<1>3. c \in Sound /\ (c.failed \/ Repaired(c))
  BY <1>2, CheckDatabaseSound
<1> HIDE DEF c
<1> DEFINE s == c.schema \/ wrong
<1>4. s \in BOOLEAN
  OBVIOUS
<1>5. checked = [c EXCEPT !.now = 0, !.schema = s]
  OBVIOUS
<1> HIDE DEF wrong, s, checked
<1>6. /\ checked \in Collections /\ checked.decks = c.decks /\ checked.cards = c.cards
      /\ checked.failed = c.failed
  BY <1>3, <1>4, <1>5, SoundParts DEF Collections
<1>7. checked \in Sound
  BY <1>3, <1>6, SoundParts DEF Sound
<1>8. Repaired(checked)
  BY <1>1, <1>3, <1>6 DEF Repaired, Parented, Named, IsFiltered
<1>9. /\ ops' \in [Devices -> Nat] /\ col' \in [Devices -> Sound]
      /\ health' \in [Devices -> {"sound", "merged", "checked"}]
  BY <1>1, <1>7 DEF IInv
<1>10. /\ col'[x] = checked /\ health'[x] = "checked"
       /\ \A y \in Devices \ {x} : col'[y] = col[y] /\ health'[y] = health[y]
  BY <1>1 DEF IInv
<1>11. ASSUME NEW y \in Devices
       PROVE  /\ health'[y] = "sound" => Homely(col'[y]) /\ Whole(col'[y])
              /\ health'[y] = "checked" => Repaired(col'[y])
              /\ (health[y] = "sound" /\ health'[y] = "sound") => Loses(col[y], col'[y])
  <2>1. CASE y = x
    BY <1>8, <1>10, <2>1
  <2>2. CASE y # x
    BY <1>10, <2>2 DEF IInv, Loses
  <2> QED BY <2>1, <2>2
<1>12. IInv'
  BY <1>9, <1>11 DEF IInv
<1> QED BY <1>11, <1>12 DEF Preserves

LEMMA SyncSound ==
  ASSUME IInv, Sync
  PROVE  Preserves
<1> DEFINE merged == NormalSync(col[1], col[2])
           Copy(from, to) == [Synced(col[from]) EXCEPT !.next = col[to].next, !.schema = FALSE]
<1>1. Devices = {1, 2} /\ ops' = ops /\ health' = [x \in Devices |-> "merged"]
  BY DEF Sync, Devices
<1>2. \A x \in Devices : col[x] \in Sound
  BY DEF IInv
<1>3. \/ col' = [x \in Devices |-> merged[x]]
      \/ \E x \in Devices : col' = [y \in Devices |-> Copy(x, y)]
  BY DEF Sync
<1>4. merged \in Sound \X Sound
  BY <1>1, <1>2, NormalSyncSound
<1>5. ASSUME NEW x \in Devices, NEW y \in Devices PROVE Copy(x, y) \in Sound
  <2> DEFINE k == Synced(col[x])
             j == [k EXCEPT !.next = col[y].next, !.schema = FALSE]
  <2>1. k \in Sound /\ col[y].next \in Ids
    BY <1>2, SyncedSound, SoundParts
  <2>2. Copy(x, y) = j
    OBVIOUS
  <2> HIDE DEF k, Copy
  <2>3. j \in Collections /\ j.decks = k.decks
    BY <2>1, SoundParts DEF Collections
  <2> HIDE DEF j
  <2> QED BY <2>1, <2>2, <2>3, SoundParts DEF Sound
<1> HIDE DEF merged, Copy
<1>6. CASE col' = [x \in Devices |-> merged[x]]
  BY <1>1, <1>4, <1>6 DEF IInv, Preserves
<1>7. CASE \E x \in Devices : col' = [y \in Devices |-> Copy(x, y)]
  BY <1>1, <1>5, <1>7 DEF IInv, Preserves
<1> QED BY <1>3, <1>6, <1>7

LEMMA NamesOfSound ==
  ASSUME IInv
  PROVE  NamesUnique
<1>1. ASSUME NEW x \in Devices PROVE NamesDiffer(col[x].decks)
  BY BegunSound, SoundParts
<1> QED BY <1>1 DEF NamesUnique, NamesDiffer, DeckIds

LEMMA InitialInv ==
  ASSUME Init
  PROVE  IInv
<1>1. ASSUME NEW x \in Devices
      PROVE  col[x] \in Sound /\ Homely(col[x]) /\ Whole(col[x]) /\ health[x] = "sound"
  BY InitialSound DEF Init
<1>2. /\ ops \in [Devices -> Nat] /\ col \in [Devices -> Sound]
      /\ health \in [Devices -> {"sound", "merged", "checked"}]
  BY <1>1 DEF Init
<1> QED BY <1>1, <1>2 DEF IInv

LEMMA NextPreserves ==
  ASSUME IInv, [Next]_vars
  PROVE  Preserves
<1>1. CASE UNCHANGED vars
  BY <1>1 DEF vars, IInv, Preserves, Loses
<1>2. CASE Sync
  BY <1>2, SyncSound
<1>3. ASSUME NEW x \in Devices, Operate(x) PROVE Preserves
  BY <1>3, AddDeckOpSound, RenameDeckOpSound, ReparentDecksOpSound, RemoveDecksOpSound,
     SaveFilteredDeckSound, RebuildFilteredDeckSound, EmptyFilteredDeckSound, SetDeckSound,
     SuspendCardSound, UnsuspendCardSound, PreviewAgainSound, PreviewDoneSound,
     ImportPackageSound, DatabaseCheckSound DEF Operate
<1> QED BY <1>1, <1>2, <1>3 DEF Next

LEMMA Invariance == Spec => []IInv
<1>1. Init => IInv
  BY InitialInv
<1>2. IInv /\ [Next]_vars => IInv'
  BY NextPreserves DEF Preserves
<1> QED BY <1>1, <1>2, PTL DEF Spec

\* No two decks of a collection have the same name, upper and lower case aside, whatever
\* the words, the decks there are at first, the packages and the devices: the deck that is
\* added, renamed, moved, imported, merged by a sync or recovered by the database check
\* finds a free name (ensure_deck_name_unique), and update_deck refuses one that is taken.
THEOREM UniqueNames == Spec => []NamesUnique
BY Invariance, NamesOfSound, PTL

\* Without merging, a card is in an existing deck, it has a home deck elsewhere exactly while
\* it is in a filtered deck, and it comes home with the due value and the queue it left
\* with, whatever is done to its filtered deck, to its home or to their parents
\* (remove_from_filtered_deck_restoring_queue, remove_single_deck), for cards that begin
\* with a due value: an original due value of 0 stands for none.
THEOREM HomeAgain ==
  ASSUME DuesKnown
  PROVE  Spec => []CardsReturnHome
<1>1. IInv => CardsReturnHome
  BY DEF IInv, CardsReturnHome, Homely, AtHome, Housed, Kept, NormalDecks, FilteredDecks,
         NormalIds, FilteredIds, DeckIds
<1> QED BY <1>1, Invariance, PTL

\* Only removing a card's home deck removes the card: a filtered deck that is removed,
\* emptied or rebuilt gives its cards back, and so does one that is removed with its parent
\* (remove_decks_and_child_decks).
THEOREM LostWithTheirHome == Spec => CardsGoWithTheirHome
<1> DEFINE Gone == \A x \in Devices : health[x] = "sound" /\ health'[x] = "sound" =>
                     \A c \in DOMAIN col[x].cards \ DOMAIN col'[x].cards :
                       LET card == col[x].cards[c]
                           home == IF card.odid # 0 THEN card.odid ELSE card.did
                       IN  home = Default \/ home \notin DOMAIN col'[x].decks
<1>1. ASSUME IInv, [Next]_vars PROVE Gone
  BY <1>1, NextPreserves DEF Preserves, Loses, Home
<1>2. IInv /\ [Next]_vars => [Gone]_vars
  BY <1>1
<1> HIDE DEF Gone
<1>3. Spec => [][Gone]_vars
  BY <1>2, Invariance, PTL DEF Spec
<1> QED BY <1>3 DEF CardsGoWithTheirHome, Gone

\* Right after a database check no card is in a missing deck, no deck lacks its parent, and
\* no card of a normal deck is marked as filtered, whatever the collection went through:
\* decks are recovered before cards are looked at, and the parents that are added with a
\* missing deck have parents themselves (check_database_inner).
THEOREM RepairsHold == Spec => []CheckRepairs
<1>1. IInv => CheckRepairs
  BY DEF IInv, CheckRepairs, Repaired, Parented, DeckIds
<1> QED BY <1>1, Invariance, PTL

\* Without merging, the parents of every deck exist, spelled as in its name, and none of
\* them is a filtered deck, whatever is added, renamed (also below itself), dragged, removed
\* with what is below it, or imported: a deck gets its missing parents, and its name takes
\* the spelling of those there are (match_or_create_parents, rename_child_decks,
\* create_missing_parents, remove_decks_and_child_decks).
THEOREM TreeWhole == Spec => []TreeSound
<1>1. IInv => TreeSound
  BY DEF IInv, TreeSound, Whole, IsThere, NormalDecks, NormalIds, FilteredIds, DeckIds
<1> QED BY <1>1, Invariance, PTL
====
