----------------------------- MODULE ListProofs -----------------------------
(***************************************************************************)
(* Facts about the lists that loops make and about sorted lists, for the   *)
(* proofs of the modules that use them.  Induction and recursion go        *)
(* through sets and functions, so that a fact can be cited for any of      *)
(* them: a set that has 0, and with a number the next one, has them all;   *)
(* and a function that takes what a loop has to what it has a turn later   *)
(* determines what the loop has after any number of turns.                 *)
(***************************************************************************)
EXTENDS Lists, SequencesExt, FiniteSetTheorems, SequenceTheorems, WellFoundedInduction, TLAPS

----------------------------------------------------------------------------
(* Numbers *)

(* Every nonempty set of naturals has a least element. *)
LEMMA LeastNatural ==
  ASSUME NEW S \in SUBSET Nat, S # {}
  PROVE  \E x \in S : \A y \in S : x <= y
<1> DEFINE R == {ss \in Nat \X Nat : ss[1] < ss[2]}
<1>1. IsWellFoundedOn(R, Nat)
  BY NatLessThanWellFounded, Zenon DEF OpToRel
<1>2. \A x, y \in Nat : y < x => <<y, x>> \in R
  OBVIOUS
<1> HIDE DEF R
<1>3. PICK x \in S : \A y \in S : ~(<<y, x>> \in R)
  BY <1>1, WFMin
<1>4. ASSUME NEW y \in S
      PROVE  x <= y
  <2>1. x \in Nat /\ y \in Nat /\ ~(y < x)
    BY <1>2, <1>3
  <2>2. QED
    BY <2>1
<1>5. QED
  BY <1>4

(* A set that has 0, and the successor of each of its elements below n, has
   all numbers up to n. *)
LEMMA Induction ==
  ASSUME NEW n \in Nat, NEW T, 0 \in T, \A i \in 0..(n - 1) : i \in T => i + 1 \in T
  PROVE  \A i \in 0..n : i \in T
<1> DEFINE Out == {i \in 0..n : i \notin T}
<1>1. SUFFICES ASSUME Out # {}
               PROVE  FALSE
  OBVIOUS
<1>2. Out \in SUBSET Nat
  OBVIOUS
<1>3. PICK x \in Out : \A y \in Out : x <= y
  <2> HIDE DEF Out
  <2>1. QED
    BY <1>1, <1>2, LeastNatural
<1>4. x # 0 /\ x \in 0..n /\ x \notin T
  OBVIOUS
<1>5. x - 1 \in 0..(n - 1) /\ x - 1 \in 0..n /\ ~(x <= x - 1) /\ (x - 1) + 1 = x
  BY <1>4
<1>6. x - 1 \in T
  BY <1>3, <1>5
<1>7. QED
  BY <1>4, <1>5, <1>6

\* f has what a loop of n turns begins with and what it has after each of them.
Turns(f, b, n, F) == f[0] = b /\ \A i \in 1..n : f[i] = F[<<f[i - 1], i>>]

(* A first value and a function that gives the next one determine the values
   of a loop. *)
LEMMA Recursion ==
  ASSUME NEW V, NEW b \in V, NEW n \in Nat, NEW F \in [V \X (1..n) -> V]
  PROVE  \E f \in [0..n -> V] : Turns(f, b, n, F)
<1> DEFINE Runs(m) == \E f \in [0..m -> V] : f[0] = b /\ \A i \in 1..m : f[i] = F[<<f[i - 1], i>>]
           T == {m \in 0..n : Runs(m)}
<1>1. 0 \in T
  <2> DEFINE f == [i \in 0..0 |-> b]
  <2>1. f \in [0..0 -> V] /\ f[0] = b /\ \A i \in 1..0 : FALSE
    OBVIOUS
  <2> HIDE DEF f
  <2>2. Runs(0)
    BY <2>1
  <2>3. QED
    BY <2>2
<1>2. ASSUME NEW m \in 0..(n - 1), m \in T
      PROVE  m + 1 \in T
  <2>1. PICK f \in [0..m -> V] : f[0] = b /\ \A i \in 1..m : f[i] = F[<<f[i - 1], i>>]
    BY <1>2
  <2>2. m \in 0..m /\ f[m] \in V /\ m + 1 \in 1..n
    BY <2>1
  <2> DEFINE g == [i \in 0..(m + 1) |-> IF i = m + 1 THEN F[<<f[m], m + 1>>] ELSE f[i]]
  <2>3. F[<<f[m], m + 1>>] \in V
    BY <2>2
  <2>4. g \in [0..(m + 1) -> V]
    <3>1. \A i \in 0..(m + 1) : i # m + 1 => i \in 0..m
      OBVIOUS
    <3>2. \A i \in 0..(m + 1) : (IF i = m + 1 THEN F[<<f[m], m + 1>>] ELSE f[i]) \in V
      BY <2>1, <2>3, <3>1
    <3>3. QED
      BY <3>2
  <2>5. g[0] = b
    BY <2>1
  <2>6. ASSUME NEW i \in 1..(m + 1)
        PROVE  g[i] = F[<<g[i - 1], i>>]
    <3>1. CASE i = m + 1
      <4>1. g[i] = F[<<f[m], m + 1>>] /\ g[i - 1] = f[m]
        BY <3>1
      <4> HIDE DEF g
      <4>2. QED
        BY <3>1, <4>1
    <3>2. CASE i # m + 1
      <4>1. i \in 1..m /\ g[i] = f[i] /\ g[i - 1] = f[i - 1]
        BY <3>2
      <4> HIDE DEF g
      <4>2. QED
        BY <2>1, <4>1
    <3>3. QED
      BY <3>1, <3>2
  <2> HIDE DEF g
  <2>7. Runs(m + 1)
    BY <2>4, <2>5, <2>6
  <2>8. m + 1 \in 0..n
    OBVIOUS
  <2> HIDE DEF Runs
  <2>9. QED
    BY <2>7, <2>8
<1> HIDE DEF Runs
<1>3. \A i \in 0..n : i \in T
  <2> HIDE DEF T
  <2>1. QED
    BY <1>1, <1>2, Induction
<1>4. Runs(n)
  BY <1>3
<1>5. QED
  BY <1>4 DEF Runs, Turns

(* What a loop begins with and what each of its turns keeps it to is the type
   of what it has. *)
LEMMA LoopType ==
  ASSUME NEW n \in Nat, NEW V, NEW g, g = [i \in 0..n |-> g[i]], g[0] \in V,
         \A i \in 1..n : g[i - 1] \in V => g[i] \in V
  PROVE  g \in [0..n -> V]
<1> DEFINE T == {i \in 0..n : g[i] \in V}
<1>1. 0 \in T
  OBVIOUS
<1>2. ASSUME NEW i \in 0..(n - 1), i \in T
      PROVE  i + 1 \in T
  <2>1. i + 1 \in 1..n /\ i + 1 \in 0..n /\ (i + 1) - 1 = i /\ g[i] \in V
    BY <1>2
  <2>2. g[i + 1] \in V
    BY <2>1
  <2>3. QED
    BY <2>1, <2>2
<1>3. \A i \in 0..n : i \in T
  <2> HIDE DEF T
  <2>1. QED
    BY <1>1, <1>2, Induction
<1>4. QED
  BY <1>3

----------------------------------------------------------------------------
(* Sublists *)

\* kept has what the loop of Sublist has after each of its turns.
Keeps(kept, list, positions) ==
  /\ kept[0] = << >>
  /\ \A n \in 1..Len(list) :
       kept[n] = IF n \in positions THEN Append(kept[n - 1], list[n]) ELSE kept[n - 1]

(* The loop of Sublist makes lists of what is in the list. *)
LEMMA SublistIs ==
  ASSUME NEW S, NEW list \in Seq(S), NEW positions
  PROVE  \E kept \in [0..Len(list) -> Seq(S)] :
           Keeps(kept, list, positions) /\ Sublist(list, positions) = kept[Len(list)]
<1> DEFINE m == Len(list)
           V == Seq(S)
           F == [p \in V \X (1..m) |-> IF p[2] \in positions THEN Append(p[1], list[p[2]]) ELSE p[1]]
<1>1. m \in Nat /\ << >> \in V /\ \A i \in 1..m : list[i] \in S
  OBVIOUS
<1>2. F \in [V \X (1..m) -> V]
  <2>1. ASSUME NEW p \in V \X (1..m)
        PROVE  (IF p[2] \in positions THEN Append(p[1], list[p[2]]) ELSE p[1]) \in V
    <3>1. p[1] \in Seq(S) /\ list[p[2]] \in S
      BY <1>1
    <3>2. QED
      BY <3>1
  <2>2. QED
    BY <2>1
<1>3. \A v \in V, i \in 1..m : F[<<v, i>>] = IF i \in positions THEN Append(v, list[i]) ELSE v
  OBVIOUS
<1> HIDE DEF m, V, F
<1>4. PICK f \in [0..m -> V] : Turns(f, << >>, m, F)
  BY <1>1, <1>2, Recursion, Zenon
<1>5. ASSUME NEW i \in 1..m
      PROVE  f[i] = IF i \in positions THEN Append(f[i - 1], list[i]) ELSE f[i - 1]
  <2>1. i - 1 \in 0..m
    BY <1>1
  <2>2. f[i - 1] \in V
    BY <2>1
  <2>3. QED
    BY <1>3, <1>4, <2>2 DEF Turns
<1>6. f = [n \in 0..m |-> IF n = 0 THEN << >>
                          ELSE IF n \in positions THEN Append(f[n - 1], list[n]) ELSE f[n - 1]]
  <2>1. ASSUME NEW n \in 0..m
        PROVE  f[n] = IF n = 0 THEN << >>
                      ELSE IF n \in positions THEN Append(f[n - 1], list[n]) ELSE f[n - 1]
    <3>1. n = 0 \/ n \in 1..m
      BY <1>1
    <3>2. QED
      BY <1>4, <1>5, <3>1 DEF Turns
  <2>2. f = [n \in 0..m |-> f[n]]
    BY <1>4
  <2>3. QED
    BY <2>1, <2>2
<1> DEFINE Is(k) == k = [n \in 0..m |-> IF n = 0 THEN << >>
                          ELSE IF n \in positions THEN Append(k[n - 1], list[n]) ELSE k[n - 1]]
           kept == CHOOSE k : Is(k)
<1>7. Sublist(list, positions) = kept[m]
  BY Zenon DEF Sublist, m
<1>8. Is(kept)
  <2>1. Is(f)
    BY <1>6
  <2> HIDE DEF Is
  <2>2. QED
    BY <2>1
<1> HIDE DEF kept
<1>9. DOMAIN kept = 0..m /\ kept[0] = << >>
      /\ \A n \in 1..m : kept[n] = IF n \in positions THEN Append(kept[n - 1], list[n]) ELSE kept[n - 1]
  <2>1. DOMAIN kept = 0..m
    BY <1>8
  <2>2. \A n \in 0..m : kept[n] = IF n = 0 THEN << >>
                          ELSE IF n \in positions THEN Append(kept[n - 1], list[n]) ELSE kept[n - 1]
    BY <1>8
  <2>3. 0 \in 0..m /\ \A n \in 1..m : n \in 0..m /\ n # 0
    BY <1>1
  <2> HIDE DEF Is
  <2>4. QED
    BY <2>1, <2>2, <2>3
<1>10. ASSUME NEW n \in 1..m, kept[n - 1] \in V
       PROVE  kept[n] \in V
  <2>1. kept[n - 1] \in Seq(S) /\ list[n] \in S
    BY <1>1, <1>10 DEF V
  <2>2. Append(kept[n - 1], list[n]) \in V
    BY <2>1 DEF V
  <2>3. QED
    BY <1>9, <1>10, <2>2
<1>11. kept \in [0..m -> V]
  <2>1. kept = [n \in 0..m |-> kept[n]]
    BY <1>8
  <2>2. m \in Nat /\ kept[0] \in V
    BY <1>1, <1>9
  <2>3. QED
    BY <1>10, <2>1, <2>2, LoopType
<1>12. QED
  BY <1>7, <1>9, <1>11 DEF Keeps, m, V

(* What the loops of two sublists have to do with one another: true before
   the first turn and kept by every turn, it is true of the sublists. *)
LEMMA SublistsTogether ==
  ASSUME NEW S, NEW list \in Seq(S), NEW positions,
         NEW U, NEW other \in Seq(U), NEW places, Len(other) = Len(list),
         NEW T, <<0, << >>, << >>>> \in T,
         \A n \in 1..Len(list), v \in Seq(S), w \in Seq(U) :
           <<n - 1, v, w>> \in T =>
             <<n, IF n \in positions THEN Append(v, list[n]) ELSE v,
                  IF n \in places THEN Append(w, other[n]) ELSE w>> \in T
  PROVE  /\ <<Len(list), Sublist(list, positions), Sublist(other, places)>> \in T
         /\ Sublist(list, positions) \in Seq(S)
         /\ Sublist(other, places) \in Seq(U)
<1> DEFINE m == Len(list)
<1>1. m \in Nat
  OBVIOUS
<1>2. PICK f \in [0..m -> Seq(S)] : Keeps(f, list, positions) /\ Sublist(list, positions) = f[m]
  BY SublistIs
<1>3. PICK g \in [0..m -> Seq(U)] : Keeps(g, other, places) /\ Sublist(other, places) = g[m]
  BY SublistIs
<1> HIDE DEF m
<1> DEFINE R == {n \in 0..m : <<n, f[n], g[n]>> \in T}
<1>4. 0 \in R
  <2>1. f[0] = << >> /\ g[0] = << >>
    BY <1>2, <1>3, Zenon DEF Keeps
  <2>2. <<0, f[0], g[0]>> \in T
    BY <2>1, Zenon
  <2>3. 0 \in 0..m
    BY <1>1
  <2>4. QED
    BY <2>2, <2>3, Zenon
<1>5. ASSUME NEW i \in 0..(m - 1), i \in R
      PROVE  i + 1 \in R
  <2> DEFINE n == i + 1
  <2>1. n \in 1..m /\ n \in 0..m /\ n - 1 = i /\ i \in 0..m /\ <<i, f[i], g[i]>> \in T
    BY <1>1, <1>5
  <2> HIDE DEF n
  <2>2. f[i] \in Seq(S) /\ g[i] \in Seq(U)
    BY <2>1
  <2>3. <<n, IF n \in positions THEN Append(f[i], list[n]) ELSE f[i],
             IF n \in places THEN Append(g[i], other[n]) ELSE g[i]>> \in T
    BY <2>1, <2>2 DEF m
  <2>4. f[n] = IF n \in positions THEN Append(f[i], list[n]) ELSE f[i]
    BY <1>2, <2>1 DEF Keeps, m
  <2>5. g[n] = IF n \in places THEN Append(g[i], other[n]) ELSE g[i]
    BY <1>3, <2>1 DEF Keeps, m
  <2>6. <<n, f[n], g[n]>> \in T
    BY <2>3, <2>4, <2>5
  <2>7. QED
    BY <2>1, <2>6 DEF n
<1>6. \A i \in 0..m : i \in R
  <2> HIDE DEF R
  <2>1. QED
    BY <1>1, <1>4, <1>5, Induction
<1>7. m \in 0..m
  BY <1>1
<1>8. QED
  BY <1>2, <1>3, <1>6, <1>7 DEF m

(* A sublist has what is at the positions and nothing else. *)
LEMMA SublistHas ==
  ASSUME NEW S, NEW list \in Seq(S), NEW positions
  PROVE  LET part == Sublist(list, positions)
         IN  /\ part \in Seq(S)
             /\ \A k \in 1..Len(part) : \E i \in positions : i \in 1..Len(list) /\ part[k] = list[i]
             /\ \A i \in positions : i \in 1..Len(list) => \E k \in 1..Len(part) : part[k] = list[i]
<1> DEFINE Has(n, v) == /\ \A k \in 1..Len(v) : \E i \in positions : i \in 1..n /\ v[k] = list[i]
                        /\ \A i \in positions : i \in 1..n => \E k \in 1..Len(v) : v[k] = list[i]
           T == {t \in Nat \X Seq(S) \X Seq(S) : Has(t[1], t[2])}
<1>1. <<0, << >>, << >>>> \in T
  <2>1. << >> \in Seq(S) /\ Has(0, << >>)
    OBVIOUS
  <2> HIDE DEF Has
  <2>2. QED
    BY <2>1
<1>2. ASSUME NEW n \in 1..Len(list), NEW v \in Seq(S), NEW w \in Seq(S), <<n - 1, v, w>> \in T
      PROVE  <<n, IF n \in positions THEN Append(v, list[n]) ELSE v,
                  IF n \in positions THEN Append(w, list[n]) ELSE w>> \in T
  <2>1. list[n] \in S /\ n \in Nat /\ n - 1 \in Nat /\ Has(n - 1, v)
    <3> HIDE DEF Has
    <3>1. QED
      BY <1>2
  <2>2. Append(v, list[n]) \in Seq(S) /\ Append(w, list[n]) \in Seq(S)
    BY <2>1
  <2>3. CASE n \in positions
    <3> DEFINE more == Append(v, list[n])
    <3>1. /\ Len(more) = Len(v) + 1 /\ more[Len(v) + 1] = list[n] /\ Len(v) \in Nat
          /\ \A k \in 1..Len(v) : more[k] = v[k]
      BY <2>1
    <3> HIDE DEF more
    <3>2. ASSUME NEW k \in 1..Len(more)
          PROVE  \E i \in positions : i \in 1..n /\ more[k] = list[i]
      <4>1. CASE k = Len(v) + 1
        BY <2>3, <3>1, <4>1
      <4>2. CASE k # Len(v) + 1
        <5>1. k \in 1..Len(v)
          BY <3>1, <4>2
        <5>2. PICK i \in positions : i \in 1..(n - 1) /\ v[k] = list[i]
          BY <2>1, <5>1
        <5>3. i \in 1..n /\ more[k] = list[i]
          BY <3>1, <5>1, <5>2
        <5>4. QED
          BY <5>3
      <4>3. QED
        BY <4>1, <4>2
    <3>3. ASSUME NEW i \in positions, i \in 1..n
          PROVE  \E k \in 1..Len(more) : more[k] = list[i]
      <4>1. CASE i = n
        <5>1. Len(v) + 1 \in 1..Len(more)
          BY <3>1
        <5>2. QED
          BY <3>1, <4>1, <5>1
      <4>2. CASE i # n
        <5>1. i \in 1..(n - 1)
          BY <3>3, <4>2
        <5>2. PICK k \in 1..Len(v) : v[k] = list[i]
          BY <2>1, <5>1
        <5>3. k \in 1..Len(more) /\ more[k] = list[i]
          BY <3>1, <5>2
        <5>4. QED
          BY <5>3
      <4>3. QED
        BY <4>1, <4>2
    <3>4. Has(n, more)
      BY <3>2, <3>3
    <3> HIDE DEF Has
    <3>5. QED
      BY <2>1, <2>2, <2>3, <3>4 DEF more
  <2>4. CASE n \notin positions
    <3>1. ASSUME NEW i \in positions, i \in 1..n
          PROVE  i \in 1..(n - 1)
      BY <2>4, <3>1
    <3>2. ASSUME NEW k \in 1..Len(v)
          PROVE  \E i \in positions : i \in 1..n /\ v[k] = list[i]
      <4>1. PICK i \in positions : i \in 1..(n - 1) /\ v[k] = list[i]
        BY <2>1
      <4>2. QED
        BY <4>1
    <3>3. Has(n, v)
      BY <2>1, <3>1, <3>2
    <3> HIDE DEF Has
    <3>4. QED
      BY <2>1, <2>4, <3>3
  <2>5. QED
    BY <2>3, <2>4
<1> HIDE DEF T
<1>3. <<Len(list), Sublist(list, positions), Sublist(list, positions)>> \in T /\ Sublist(list, positions) \in Seq(S)
  BY <1>1, <1>2, SublistsTogether
<1>4. Has(Len(list), Sublist(list, positions))
  <2> HIDE DEF Has
  <2>1. QED
    BY <1>3 DEF T
<1>5. QED
  BY <1>3, <1>4

(* Sublists at the same positions of lists that correspond, element by
   element, correspond in the same way. *)
LEMMA SublistsCorrespond ==
  ASSUME NEW S, NEW list \in Seq(S), NEW U, NEW other \in Seq(U), Len(other) = Len(list),
         NEW positions, NEW R, \A i \in 1..Len(list) : i \in positions => <<list[i], other[i]>> \in R
  PROVE  /\ Len(Sublist(other, positions)) = Len(Sublist(list, positions))
         /\ \A k \in 1..Len(Sublist(list, positions)) :
              <<Sublist(list, positions)[k], Sublist(other, positions)[k]>> \in R
<1> DEFINE Alike(v, w) == Len(w) = Len(v) /\ \A k \in 1..Len(v) : <<v[k], w[k]>> \in R
           T == {t \in Nat \X Seq(S) \X Seq(U) : Alike(t[2], t[3])}
<1>1. <<0, << >>, << >>>> \in T
  <2>1. << >> \in Seq(S) /\ << >> \in Seq(U) /\ Alike(<< >>, << >>)
    OBVIOUS
  <2> HIDE DEF Alike
  <2>2. QED
    BY <2>1
<1>2. ASSUME NEW n \in 1..Len(list), NEW v \in Seq(S), NEW w \in Seq(U), <<n - 1, v, w>> \in T
      PROVE  <<n, IF n \in positions THEN Append(v, list[n]) ELSE v,
                  IF n \in positions THEN Append(w, other[n]) ELSE w>> \in T
  <2>1. list[n] \in S /\ other[n] \in U /\ n \in Nat /\ Alike(v, w)
    <3> HIDE DEF Alike
    <3>1. QED
      BY <1>2
  <2>2. CASE n \in positions
    <3> DEFINE v2 == Append(v, list[n])
               w2 == Append(w, other[n])
    <3>1. /\ v2 \in Seq(S) /\ Len(v2) = Len(v) + 1 /\ v2[Len(v) + 1] = list[n] /\ Len(v) \in Nat
          /\ \A k \in 1..Len(v) : v2[k] = v[k]
      BY <2>1
    <3>2. /\ w2 \in Seq(U) /\ Len(w2) = Len(w) + 1 /\ w2[Len(w) + 1] = other[n]
          /\ \A k \in 1..Len(w) : w2[k] = w[k]
      BY <2>1
    <3> HIDE DEF v2, w2
    <3>3. ASSUME NEW k \in 1..Len(v2)
          PROVE  <<v2[k], w2[k]>> \in R
      <4>1. CASE k = Len(v) + 1
        BY <2>1, <2>2, <3>1, <3>2, <4>1
      <4>2. CASE k # Len(v) + 1
        <5>1. k \in 1..Len(v) /\ k \in 1..Len(w)
          BY <2>1, <3>1, <4>2
        <5>2. QED
          BY <2>1, <3>1, <3>2, <5>1
      <4>3. QED
        BY <4>1, <4>2
    <3>4. Alike(v2, w2)
      BY <2>1, <3>1, <3>2, <3>3
    <3> HIDE DEF Alike
    <3>5. QED
      BY <2>1, <2>2, <3>1, <3>2, <3>4 DEF v2, w2
  <2>3. CASE n \notin positions
    <3> HIDE DEF Alike
    <3>1. QED
      BY <2>1, <2>3
  <2>4. QED
    BY <2>2, <2>3
<1> HIDE DEF T
<1>3. <<Len(list), Sublist(list, positions), Sublist(other, positions)>> \in T
  BY <1>1, <1>2, SublistsTogether
<1>4. Alike(Sublist(list, positions), Sublist(other, positions))
  <2> HIDE DEF Alike
  <2>1. QED
    BY <1>3 DEF T
<1>5. QED
  BY <1>4

(* The sublist at all positions is the list. *)
LEMMA SublistAll ==
  ASSUME NEW S, NEW list \in Seq(S), NEW positions, 1..Len(list) \subseteq positions
  PROVE  Sublist(list, positions) = list
<1> DEFINE Begins(n, v) == Len(v) = n /\ \A k \in 1..n : v[k] = list[k]
           T == {t \in Nat \X Seq(S) \X Seq(S) : Begins(t[1], t[2])}
<1>1. <<0, << >>, << >>>> \in T
  <2>1. << >> \in Seq(S) /\ Begins(0, << >>)
    OBVIOUS
  <2> HIDE DEF Begins
  <2>2. QED
    BY <2>1
<1>2. ASSUME NEW n \in 1..Len(list), NEW v \in Seq(S), NEW w \in Seq(S), <<n - 1, v, w>> \in T
      PROVE  <<n, IF n \in positions THEN Append(v, list[n]) ELSE v,
                  IF n \in positions THEN Append(w, list[n]) ELSE w>> \in T
  <2>1. list[n] \in S /\ n \in Nat /\ n \in positions /\ Begins(n - 1, v)
    <3> HIDE DEF Begins
    <3>1. QED
      BY <1>2
  <2> DEFINE more == Append(v, list[n])
  <2>2. /\ more \in Seq(S) /\ Append(w, list[n]) \in Seq(S)
        /\ Len(more) = Len(v) + 1 /\ more[Len(v) + 1] = list[n]
        /\ \A k \in 1..Len(v) : more[k] = v[k]
    BY <2>1
  <2> HIDE DEF more
  <2>3. Len(v) = n - 1 /\ Len(more) = n
    BY <2>1, <2>2
  <2>4. ASSUME NEW k \in 1..n
        PROVE  more[k] = list[k]
    <3>1. k = n \/ k \in 1..(n - 1)
      OBVIOUS
    <3>2. QED
      BY <2>1, <2>2, <2>3, <3>1
  <2>5. Begins(n, more)
    BY <2>3, <2>4
  <2> HIDE DEF Begins
  <2>6. QED
    BY <2>1, <2>2, <2>5 DEF more
<1> HIDE DEF T
<1>3. <<Len(list), Sublist(list, positions), Sublist(list, positions)>> \in T /\ Sublist(list, positions) \in Seq(S)
  BY <1>1, <1>2, SublistsTogether
<1>4. Begins(Len(list), Sublist(list, positions))
  <2> HIDE DEF Begins
  <2>1. QED
    BY <1>3 DEF T
<1>5. QED
  BY <1>3, <1>4, SeqEqual

(* One more position after all the others adds what is there at the end. *)
LEMMA SublistMore ==
  ASSUME NEW S, NEW list \in Seq(S), NEW positions, NEW m \in 1..Len(list),
         \A i \in positions \cap (1..Len(list)) : i < m
  PROVE  Sublist(list, positions \cup {m}) = Append(Sublist(list, positions), list[m])
<1> DEFINE places == positions \cup {m}
           Goes(n, v, w) == IF n < m THEN w = v ELSE w = Append(v, list[m])
           T == {t \in Nat \X Seq(S) \X Seq(S) : Goes(t[1], t[2], t[3])}
<1>1. <<0, << >>, << >>>> \in T
  <2>1. << >> \in Seq(S) /\ Goes(0, << >>, << >>)
    OBVIOUS
  <2> HIDE DEF Goes
  <2>2. QED
    BY <2>1
<1>2. ASSUME NEW n \in 1..Len(list), NEW v \in Seq(S), NEW w \in Seq(S), <<n - 1, v, w>> \in T
      PROVE  <<n, IF n \in positions THEN Append(v, list[n]) ELSE v,
                  IF n \in places THEN Append(w, list[n]) ELSE w>> \in T
  <2> DEFINE v2 == IF n \in positions THEN Append(v, list[n]) ELSE v
             w2 == IF n \in places THEN Append(w, list[n]) ELSE w
  <2>1. list[n] \in S /\ n \in Nat /\ Goes(n - 1, v, w)
    <3> HIDE DEF Goes
    <3>1. QED
      BY <1>2
  <2>2. v2 \in Seq(S) /\ w2 \in Seq(S)
    <3>1. Append(v, list[n]) \in Seq(S) /\ Append(w, list[n]) \in Seq(S)
      BY <2>1
    <3>2. QED
      BY <3>1
  <2>3. Goes(n, v2, w2) => <<n, v2, w2>> \in T
    <3> HIDE DEF Goes, v2, w2
    <3>1. QED
      BY <2>1, <2>2
  <2>4. ASSUME n < m PROVE Goes(n, v2, w2)
    <3>1. n - 1 < m /\ (n \in places <=> n \in positions)
      BY <2>4
    <3>2. w = v
      BY <2>1, <3>1
    <3>3. w2 = v2
      BY <3>1, <3>2
    <3>4. QED
      <4> HIDE DEF v2, w2
      <4>1. QED
        BY <2>4, <3>3
  <2>5. ASSUME n = m PROVE Goes(n, v2, w2)
    <3>1. n \notin positions /\ n \in places /\ n - 1 < m
      BY <2>5
    <3>2. w = v /\ v2 = v /\ w2 = Append(w, list[n])
      BY <2>1, <3>1
    <3>3. QED
      <4> HIDE DEF v2, w2
      <4>1. QED
        BY <2>5, <3>2
  <2>6. ASSUME m < n PROVE Goes(n, v2, w2)
    <3>1. n \notin positions /\ n \notin places /\ ~(n - 1 < m)
      BY <2>6
    <3>2. w = Append(v, list[m]) /\ v2 = v /\ w2 = w
      BY <2>1, <3>1
    <3>3. QED
      <4> HIDE DEF v2, w2
      <4>1. QED
        BY <2>6, <3>2
  <2>7. Goes(n, v2, w2)
    <3>1. n < m \/ n = m \/ m < n
      BY <2>1
    <3> HIDE DEF Goes, v2, w2
    <3>2. QED
      BY <2>4, <2>5, <2>6, <3>1
  <2>8. <<n, v2, w2>> \in T
    <3> HIDE DEF Goes, v2, w2, T
    <3>1. QED
      BY <2>3, <2>7
  <2> HIDE DEF Goes, T
  <2>9. QED
    BY <2>8
<1> HIDE DEF T, places
<1>3. <<Len(list), Sublist(list, positions), Sublist(list, places)>> \in T
  BY <1>1, <1>2, SublistsTogether
<1>4. Goes(Len(list), Sublist(list, positions), Sublist(list, places))
  <2> HIDE DEF Goes
  <2>1. QED
    BY <1>3 DEF T
<1>5. ~(Len(list) < m)
  OBVIOUS
<1>6. QED
  BY <1>4, <1>5 DEF places

\* A part of a list opens with the element at m, and has the rest after it.
Opens(part, list, m, rest) == part # << >> /\ Head(part) = list[m] /\ Tail(part) = rest

(* A sublist begins with what is at the first of its positions, and goes on
   with the sublist at the others. *)
LEMMA SublistFirst ==
  ASSUME NEW S, NEW list \in Seq(S), NEW positions, NEW m \in positions, m \in 1..Len(list),
         \A i \in positions \cap (1..Len(list)) : m <= i
  PROVE  Opens(Sublist(list, positions), list, m, Sublist(list, positions \ {m}))
<1> DEFINE places == positions \ {m}
           Goes(n, v, w) == IF n < m THEN v = << >> /\ w = << >>
                            ELSE v # << >> /\ Head(v) = list[m] /\ Tail(v) = w
           T == {t \in Nat \X Seq(S) \X Seq(S) : Goes(t[1], t[2], t[3])}
<1>1. <<0, << >>, << >>>> \in T
  <2>1. << >> \in Seq(S) /\ Goes(0, << >>, << >>)
    OBVIOUS
  <2> HIDE DEF Goes
  <2>2. QED
    BY <2>1
<1>2. ASSUME NEW n \in 1..Len(list), NEW v \in Seq(S), NEW w \in Seq(S), <<n - 1, v, w>> \in T
      PROVE  <<n, IF n \in positions THEN Append(v, list[n]) ELSE v,
                  IF n \in places THEN Append(w, list[n]) ELSE w>> \in T
  <2> DEFINE v2 == IF n \in positions THEN Append(v, list[n]) ELSE v
             w2 == IF n \in places THEN Append(w, list[n]) ELSE w
  <2>1. list[n] \in S /\ n \in Nat /\ Goes(n - 1, v, w)
    <3> HIDE DEF Goes
    <3>1. QED
      BY <1>2
  <2>2. v2 \in Seq(S) /\ w2 \in Seq(S)
    <3>1. Append(v, list[n]) \in Seq(S) /\ Append(w, list[n]) \in Seq(S)
      BY <2>1
    <3>2. QED
      BY <3>1
  <2>3. Goes(n, v2, w2) => <<n, v2, w2>> \in T
    <3> HIDE DEF Goes, v2, w2
    <3>1. QED
      BY <2>1, <2>2
  <2>4. ASSUME n < m PROVE Goes(n, v2, w2)
    <3>1. n - 1 < m /\ n \notin places /\ n \notin positions
      BY <2>4
    <3>2. v = << >> /\ w = << >> /\ v2 = v /\ w2 = w
      BY <2>1, <3>1
    <3>3. Goes(n, v2, w2)
      <4> HIDE DEF v2, w2
      <4>1. QED
        BY <2>4, <3>2
    <3>4. QED
      BY <3>3
  <2>5. ASSUME n = m PROVE Goes(n, v2, w2)
    <3>1. n \in positions /\ n \notin places /\ n - 1 < m
      BY <2>5
    <3>2. v = << >> /\ w = << >> /\ v2 = Append(v, list[m]) /\ w2 = w
      BY <2>1, <2>5, <3>1
    <3>3. Append(<< >>, list[m]) # << >> /\ Head(Append(<< >>, list[m])) = list[m] /\ Tail(Append(<< >>, list[m])) = << >>
      BY <2>1, <2>5, EmptySeq, HeadTailAppend, AppendProperties
    <3>4. Goes(n, v2, w2)
      <4> HIDE DEF v2, w2
      <4>1. QED
        BY <2>5, <3>2, <3>3
    <3>5. QED
      BY <3>4
  <2>6. ASSUME m < n PROVE Goes(n, v2, w2)
    <3>1. (n \in places <=> n \in positions) /\ ~(n - 1 < m)
      BY <2>6
    <3>2. v # << >> /\ Head(v) = list[m] /\ Tail(v) = w
      BY <2>1, <3>1
    <3>3. /\ Append(v, list[n]) # << >> /\ Head(Append(v, list[n])) = list[m]
          /\ Tail(Append(v, list[n])) = Append(w, list[n])
      BY <2>1, <3>2, HeadTailAppend, AppendProperties
    <3>4. v2 # << >> /\ Head(v2) = list[m] /\ Tail(v2) = w2
      BY <3>1, <3>2, <3>3
    <3>5. Goes(n, v2, w2)
      <4> HIDE DEF v2, w2
      <4>1. QED
        BY <2>6, <3>4
    <3>6. QED
      BY <3>5
  <2>7. Goes(n, v2, w2)
    <3>1. n < m \/ n = m \/ m < n
      BY <2>1
    <3> HIDE DEF Goes, v2, w2
    <3>2. QED
      BY <2>4, <2>5, <2>6, <3>1
  <2>8. <<n, v2, w2>> \in T
    <3> HIDE DEF Goes, v2, w2, T
    <3>1. QED
      BY <2>3, <2>7
  <2> HIDE DEF Goes, T
  <2>9. QED
    BY <2>8
<1> HIDE DEF T, places
<1>3. <<Len(list), Sublist(list, positions), Sublist(list, places)>> \in T
  BY <1>1, <1>2, SublistsTogether
<1>4. Goes(Len(list), Sublist(list, positions), Sublist(list, places))
  <2> HIDE DEF Goes
  <2>1. QED
    BY <1>3 DEF T
<1>5. ~(Len(list) < m)
  OBVIOUS
<1>6. QED
  BY <1>4, <1>5 DEF places, Opens

----------------------------------------------------------------------------
(* Sequences that are put together *)

\* flat has what FlattenSeq has put together after each of the sequences.
Flattens(flat, seqs, n) ==
  /\ flat[0] = << >>
  /\ \A i \in 1..n : flat[i] = flat[i - 1] \o seqs[i]

\* Sequences of at least a length.
AtLeast(d, seqs, n) == \A i \in 1..n : d <= Len(seqs[i])

(* FlattenSeq puts the sequences together one after the other. *)
LEMMA Flattening ==
  ASSUME NEW S, NEW n \in Nat, NEW seqs \in [1..n -> Seq(S)]
  PROVE  \E flat \in [0..n -> Seq(S)] :
           Flattens(flat, seqs, n) /\ FlattenSeq(seqs) = flat[n]
<1> DEFINE m == n
           V == Seq(S)
           F == [p \in V \X (1..m) |-> p[1] \o seqs[p[2]]]
<1>1. m \in Nat /\ << >> \in V /\ \A i \in 1..m : seqs[i] \in V
  OBVIOUS
<1>2. F \in [V \X (1..m) -> V]
  <2>1. ASSUME NEW p \in V \X (1..m)
        PROVE  p[1] \o seqs[p[2]] \in V
    <3>1. p[1] \in Seq(S) /\ seqs[p[2]] \in Seq(S)
      BY <1>1
    <3>2. QED
      BY <3>1, ConcatProperties
  <2>2. QED
    BY <2>1
<1>3. \A v \in V, i \in 1..m : F[<<v, i>>] = v \o seqs[i]
  OBVIOUS
<1> HIDE DEF m, V, F
<1>4. PICK f \in [0..m -> V] : Turns(f, << >>, m, F)
  BY <1>1, <1>2, Recursion, Zenon
<1>5. ASSUME NEW i \in 1..m
      PROVE  f[i] = f[i - 1] \o seqs[i]
  <2>1. i - 1 \in 0..m
    BY <1>1
  <2>2. f[i - 1] \in V
    BY <2>1
  <2>3. QED
    BY <1>3, <1>4, <2>2 DEF Turns
<1>6. f[0] = << >>
  BY <1>4 DEF Turns
<1>7. CASE m = 0
  <2>1. FlattenSeq(seqs) = << >>
    <3>1. Len(seqs) = 0 /\ seqs = << >>
      BY <1>7 DEF m
    <3>2. QED
      BY <3>1 DEF FlattenSeq
  <2>2. QED
    BY <1>5, <1>6, <1>7, <2>1 DEF Flattens, m, V
<1>8. CASE m # 0
  <2> DEFINE Is(k) == k = [i \in 1..m |-> IF i = 1 THEN seqs[i] ELSE k[i - 1] \o seqs[i]]
             flatten == CHOOSE k : Is(k)
             g == [i \in 1..m |-> f[i]]
  <2>0. Len(seqs) = m
    BY DEF m
  <2>1. FlattenSeq(seqs) = flatten[m]
    BY <1>1, <1>8, <2>0, Zenon DEF FlattenSeq
  <2>2. ASSUME NEW i \in 1..m
        PROVE  g[i] = IF i = 1 THEN seqs[i] ELSE g[i - 1] \o seqs[i]
    <3>1. CASE i = 1
      <4>0. 1 \in 1..m /\ 1 - 1 = 0
        BY <1>1, <3>1
      <4>1. seqs[1] \in Seq(S) /\ f[1] = << >> \o seqs[1]
        <5>1. seqs[1] \in V
          BY <1>1, <4>0
        <5>2. f[1] = f[0] \o seqs[1]
          BY <1>5, <4>0
        <5>3. QED
          BY <1>6, <5>1, <5>2, Zenon DEF V
      <4>2. QED
        BY <3>1, <4>1, ConcatEmptySeq
    <3>2. CASE i # 1
      <4>1. i - 1 \in 1..m
        BY <1>1, <3>2
      <4>2. QED
        BY <1>5, <3>2, <4>1
    <3>3. QED
      BY <3>1, <3>2
  <2>3. Is(g)
    <3>1. g = [i \in 1..m |-> g[i]]
      OBVIOUS
    <3> HIDE DEF g
    <3>2. QED
      BY <2>2, <3>1
  <2> HIDE DEF g
  <2>4. Is(flatten)
    <3> HIDE DEF Is
    <3>1. QED
      BY <2>3
  <2> HIDE DEF flatten
  <2>5. \A i \in 1..m : flatten[i] = IF i = 1 THEN seqs[i] ELSE flatten[i - 1] \o seqs[i]
    BY <2>4
  <2> HIDE DEF Is
  <2> DEFINE T == {i \in 0..m : i > 0 => flatten[i] = f[i]}
  <2>6. 0 \in T
    BY <1>1
  <2>7. ASSUME NEW i \in 0..(m - 1), i \in T
        PROVE  i + 1 \in T
    <3>1. i + 1 \in 1..m /\ i + 1 \in 0..m /\ (i + 1) - 1 = i
      BY <1>1
    <3>2. CASE i = 0
      <4>0. 1 \in 1..m /\ 1 - 1 = 0
        BY <3>1, <3>2
      <4>1. seqs[1] \in Seq(S) /\ f[1] = << >> \o seqs[1]
        <5>1. seqs[1] \in V
          BY <1>1, <4>0
        <5>2. f[1] = f[0] \o seqs[1]
          BY <1>5, <4>0
        <5>3. QED
          BY <1>6, <5>1, <5>2, Zenon DEF V
      <4>2. f[1] = seqs[1]
        BY <4>1, ConcatEmptySeq
      <4>3. flatten[i + 1] = f[i + 1]
        BY <2>5, <3>1, <3>2, <4>2
      <4>4. QED
        BY <3>1, <4>3
    <3>3. CASE i # 0
      <4>1. flatten[i] = f[i] /\ i + 1 # 1
        BY <2>7, <3>3
      <4>2. flatten[i + 1] = flatten[i] \o seqs[i + 1] /\ f[i + 1] = f[i] \o seqs[i + 1]
        BY <1>5, <2>5, <3>1, <4>1
      <4>3. QED
        BY <3>1, <4>1, <4>2
    <3>4. QED
      BY <3>2, <3>3
  <2>8. \A i \in 0..m : i \in T
    <3> HIDE DEF T
    <3>1. QED
      BY <1>1, <2>6, <2>7, Induction
  <2>9. flatten[m] = f[m]
    BY <1>1, <1>8, <2>8
  <2>10. QED
    BY <1>5, <1>6, <2>1, <2>9 DEF Flattens, m, V
<1>9. QED
  BY <1>7, <1>8

\* One sequence begins another that is longer by at least a number.
Leads(part, whole, more) ==
  /\ Len(part) + more <= Len(whole)
  /\ \A k \in 1..Len(part) : whole[k] = part[k]

(* What has been put together begins what is put together later, and is
   shorter by the lengths of what comes in between. *)
LEMMA FlatBegins ==
  ASSUME NEW S, NEW n \in Nat, NEW seqs \in [1..n -> Seq(S)], NEW flat \in [0..n -> Seq(S)], Flattens(flat, seqs, n),
         NEW d \in Nat, AtLeast(d, seqs, n),
         NEW i \in 0..n, NEW j \in i..n
  PROVE  Leads(flat[i], flat[j], (j - i) * d)
<1> DEFINE m == n
           Begins(x) == Leads(flat[i], flat[i + x], x * d)
           T == {x \in 0..(m - i) : Begins(x)}
<1>1. m \in Nat /\ i \in 0..m /\ j \in i..m /\ flat[i] \in Seq(S) /\ m - i \in Nat
  OBVIOUS
<1>2. 0 \in T
  <2>1. Begins(0)
    BY <1>1 DEF Leads
  <2> HIDE DEF Begins
  <2>2. QED
    BY <1>1, <2>1
<1>3. ASSUME NEW x \in 0..(m - i - 1), x \in T
      PROVE  x + 1 \in T
  <2>1. i + x + 1 \in 1..m /\ i + x \in 0..m /\ x + 1 \in 0..(m - i) /\ x \in Nat
    BY <1>1
  <2>2. Begins(x)
    BY <1>3
  <2>3. PICK y, a, b, c, e : /\ y = i + x + 1 /\ y - 1 = i + x /\ e = flat[i]
                             /\ a = flat[y - 1] /\ b = seqs[y] /\ c = flat[y]
    BY <2>1
  <2>9. a \in Seq(S) /\ b \in Seq(S) /\ e \in Seq(S)
    BY <1>1, <2>1, <2>3
  <2>10. c = a \o b
    <3>1. y \in 1..n
      BY <2>1, <2>3
    <3>2. flat[y] = flat[y - 1] \o seqs[y]
      BY <3>1, Zenon DEF Flattens
    <3>3. QED
      BY <2>3, <3>2, Zenon
  <2>4. Len(c) = Len(a) + Len(b) /\ \A k \in 1..Len(a) : c[k] = a[k]
    BY <2>9, <2>10, ConcatProperties
  <2>5. d <= Len(b) /\ (x + 1) * d = x * d + d /\ x * d \in Nat
    BY <2>1, <2>3 DEF AtLeast
  <2>6. Len(e) + x * d <= Len(a) /\ \A k \in 1..Len(e) : a[k] = e[k]
    BY <2>2, <2>3 DEF Leads
  <2>7. Begins(x + 1)
    <3>1. Len(e) + (x + 1) * d <= Len(c)
      BY <2>4, <2>5, <2>6, <2>9
    <3>2. PICK z \in Nat : z = x * d
      BY <2>5
    <3>3. Len(e) + z <= Len(a)
      BY <2>6, <3>2
    <3>4. \A k \in 1..Len(e) : k \in 1..Len(a)
      BY <2>9, <3>3
    <3>5. \A k \in 1..Len(e) : c[k] = e[k]
      BY <2>4, <2>6, <3>4
    <3>6. Leads(e, c, (x + 1) * d)
      BY <3>1, <3>5 DEF Leads
    <3>7. y = i + (x + 1)
      BY <1>1, <2>1, <2>3
    <3>8. QED
      BY <2>3, <3>6, <3>7, Zenon
  <2> HIDE DEF Begins
  <2>8. QED
    BY <2>1, <2>7
<1>4. \A x \in 0..(m - i) : x \in T
  <2>1. 0 \in T /\ m - i \in Nat /\ \A x \in 0..(m - i - 1) : x \in T => x + 1 \in T
    BY <1>1, <1>2, <1>3
  <2> HIDE DEF T
  <2>2. QED
    BY <2>1, Induction
<1>5. j - i \in 0..(m - i) /\ i + (j - i) = j
  BY <1>1
<1>6. Begins(j - i)
  BY <1>4, <1>5
<1>7. QED
  BY <1>5, <1>6

\* Where what is put together in a turn lies in the whole.
LiesIn(flat, seqs, n, i) ==
  /\ Len(flat[i]) = Len(flat[i - 1]) + Len(seqs[i])
  /\ Len(flat[i]) <= Len(flat[n])
  /\ \A k \in 1..Len(seqs[i]) : flat[n][Len(flat[i - 1]) + k] = seqs[i][k]

(* What is put together in a turn lies after what was before it. *)
LEMMA FlatHas ==
  ASSUME NEW S, NEW n \in Nat, NEW seqs \in [1..n -> Seq(S)], NEW flat \in [0..n -> Seq(S)], Flattens(flat, seqs, n),
         NEW i \in 1..n
  PROVE  LiesIn(flat, seqs, n, i)
<1>1. i - 1 \in 0..n /\ i \in 0..n /\ n \in i..n
  OBVIOUS
<1>2. PICK a, b, c, d : a = flat[i - 1] /\ b = seqs[i] /\ c = flat[i] /\ d = flat[n]
  OBVIOUS
<1>3. a \in Seq(S) /\ b \in Seq(S) /\ c \in Seq(S) /\ d \in Seq(S)
  BY <1>1, <1>2
<1>4. c = a \o b
  BY <1>1, <1>2 DEF Flattens
<1>5. Len(c) = Len(a) + Len(b) /\ \A k \in 1..Len(b) : c[Len(a) + k] = b[k]
  BY <1>3, <1>4, ConcatProperties
<1>6. Leads(c, d, (n - i) * 0)
  <2>1. 0 \in Nat /\ AtLeast(0, seqs, n)
    <3>1. \A j \in 1..n : seqs[j] \in Seq(S)
      OBVIOUS
    <3>2. QED
      BY <3>1 DEF AtLeast
  <2>2. QED
    BY <1>1, <1>2, <2>1, FlatBegins, Zenon
<1>7. \A k \in 1..Len(b) : d[Len(a) + k] = b[k]
  BY <1>3, <1>5, <1>6 DEF Leads
<1>8. Len(c) <= Len(d)
  BY <1>3, <1>6 DEF Leads
<1>9. QED
  BY <1>2, <1>5, <1>7, <1>8, Zenon DEF LiesIn

SameUpTo(s, t, m) == \A i \in 1..m : s[i] = t[i]
SameAt(f, g, m) == f[m] = g[m]

(* What is put together of the same sequences is the same. *)
LEMMA FlatsAgree ==
  ASSUME NEW S, NEW n \in Nat, NEW seqs \in [1..n -> Seq(S)], NEW flat \in [0..n -> Seq(S)], Flattens(flat, seqs, n),
         NEW n2 \in Nat, NEW seqs2 \in [1..n2 -> Seq(S)], NEW flat2 \in [0..n2 -> Seq(S)], Flattens(flat2, seqs2, n2),
         NEW m \in 0..n, m <= n2, SameUpTo(seqs, seqs2, m)
  PROVE  SameAt(flat, flat2, m)
<1> DEFINE T == {i \in 0..m : flat[i] = flat2[i]}
<1>1. 0 \in T
  <2>1. flat[0] = << >> /\ flat2[0] = << >>
    BY Zenon DEF Flattens
  <2>2. 0 \in 0..m
    OBVIOUS
  <2>3. QED
    BY <2>1, <2>2
<1>2. ASSUME NEW i \in 0..(m - 1), i \in T
      PROVE  i + 1 \in T
  <2>1. i + 1 \in 1..n /\ i + 1 \in 1..n2 /\ i + 1 \in 1..m /\ i + 1 \in 0..m /\ (i + 1) - 1 = i /\ flat[i] = flat2[i]
    BY <1>2
  <2>2. flat[i + 1] = flat[i] \o seqs[i + 1] /\ flat2[i + 1] = flat2[i] \o seqs2[i + 1]
    BY <2>1 DEF Flattens
  <2>3. flat[i + 1] = flat2[i + 1]
    BY <2>1, <2>2 DEF SameUpTo
  <2>4. QED
    BY <2>1, <2>3
<1>3. \A i \in 0..m : i \in T
  <2> HIDE DEF T
  <2>1. m \in Nat
    OBVIOUS
  <2>2. QED
    BY <1>1, <1>2, <2>1, Induction
<1>4. m \in 0..m
  OBVIOUS
<1>5. QED
  BY <1>3, <1>4 DEF SameAt
=============================================================================
