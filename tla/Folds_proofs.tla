----------------------------- MODULE Folds_proofs -----------------------------
(***************************************************************************)
(* Sums and folds over finite sets, which the models of the usage ledger,  *)
(* of the decisions on findings, of the alignment of two versions and of   *)
(* the chunks of a text are built from.  They are recursions over the      *)
(* subsets of a finite set; an argument by induction over those subsets    *)
(* takes the set of the subsets that are as they should be for its         *)
(* hypothesis.                                                             *)
(***************************************************************************)
EXTENDS Naturals, FiniteSets, FiniteSetsExt, FiniteSetTheorems, WellFoundedInduction, TLAPS

(* ---------------------------- Finite sets ------------------------------ *)
(* Sums and folds are defined by recursion over the subsets of a finite    *)
(* set.  What follows says that such a recursion has one solution, and     *)
(* allows arguments by induction over the subsets.                         *)

\* A set that has every subset of S whose own subsets it has, has them all.
LEMMA SubsetInduction ==
  ASSUME NEW S, IsFiniteSet(S), NEW G,
         \A T \in SUBSET S : (\A U \in SUBSET T : U # T => U \in G) => T \in G
  PROVE  SUBSET S \subseteq G
<1> SUFFICES ASSUME (SUBSET S) \ G # {} PROVE FALSE
  OBVIOUS
<1>1. PICK P : P = SUBSET S
  OBVIOUS
<1> DEFINE R == StrictSubsetOrdering(S)
           H == P \ G
<1>2. IsWellFoundedOn(StrictSubsetOrdering(S), FiniteSubsetsOf(S))
  BY FS_StrictSubsetOrderingWellFounded
<1>3. FiniteSubsetsOf(S) = SUBSET S
  BY FS_FiniteSubsetsOfFinite
<1>4. IsWellFoundedOn(R, P)
  BY <1>1, <1>2, <1>3
<1>5. H \subseteq P /\ H # {}
  BY <1>1
<1>6. \A T, U \in P : <<U, T>> \in R <=> U \subseteq T /\ U # T
  BY <1>1 DEF StrictSubsetOrdering
<1> HIDE DEF H, R
<1>7. PICK T \in H : \A U \in H : ~(<<U, T>> \in R)
  BY <1>4, <1>5, WFMin
<1>8. T \in P /\ T \notin G
  BY <1>7 DEF H
<1>9. ASSUME NEW U \in SUBSET T, U # T PROVE U \in G
  <2>1. U \in P /\ <<U, T>> \in R
    BY <1>1, <1>6, <1>8, <1>9
  <2> QED
    BY <1>7, <2>1 DEF H
<1> QED
  BY <1>1, <1>8, <1>9

\* g is defined on the subsets of S by recursion: take c[s] out of s, and make
\* a step from what g is for the others.
Recurses(S, c, base, step, g) ==
    g = [s \in SUBSET S |-> IF s = {} THEN base ELSE step[<<c[s], g[s \ {c[s]}]>>]]

\* Recursions along one choice agree where both are defined.
LEMMA RecursionsAgree ==
  ASSUME NEW S, IsFiniteSet(S), NEW c, \A s \in SUBSET S : s # {} => c[s] \in s,
         NEW base, NEW step, NEW T \in SUBSET S, NEW U \in SUBSET S,
         NEW g, Recurses(T, c, base, step, g), NEW h, Recurses(U, c, base, step, h)
  PROVE  \A s \in SUBSET (T \cap U) : g[s] = h[s]
<1>1. PICK V : V = T \cap U
  OBVIOUS
<1> DEFINE G == {s \in SUBSET V : g[s] = h[s]}
<1>2. ASSUME NEW s \in SUBSET V, \A u \in SUBSET s : u # s => u \in G
      PROVE  s \in G
  <2>1. CASE s = {}
    BY <2>1 DEF Recurses
  <2>2. CASE s # {}
    <3>1. c[s] \in s /\ s \in SUBSET T /\ s \in SUBSET U
      BY <1>1, <2>2
    <3>2. g[s \ {c[s]}] = h[s \ {c[s]}]
      BY <1>2, <3>1
    <3>3. /\ g[s] = step[<<c[s], g[s \ {c[s]}]>>]
          /\ h[s] = step[<<c[s], h[s \ {c[s]}]>>]
      BY <2>2, <3>1 DEF Recurses
    <3> QED
      BY <3>2, <3>3
  <2> QED
    BY <2>1, <2>2
<1> HIDE DEF G
<1>3. IsFiniteSet(V)
  BY <1>1, FS_Subset
<1>4. SUBSET V \subseteq G
  BY <1>2, <1>3, SubsetInduction
<1> QED
  BY <1>1, <1>4 DEF G

\* There is such a function on the subsets of every finite set.
LEMMA RecursionExists ==
  ASSUME NEW S, IsFiniteSet(S), NEW c, \A s \in SUBSET S : s # {} => c[s] \in s,
         NEW base, NEW step
  PROVE  \E g : Recurses(S, c, base, step, g)
<1> DEFINE G == {T \in SUBSET S : \E g : Recurses(T, c, base, step, g)}
           On(T) == CHOOSE g : Recurses(T, c, base, step, g)
<1>1. ASSUME NEW T \in SUBSET S, \A U \in SUBSET T : U # T => U \in G
      PROVE  T \in G
  <2> DEFINE body(s) == IF s = {} THEN base ELSE step[<<c[s], On(s \ {c[s]})[s \ {c[s]}]>>]
             g == [s \in SUBSET T |-> body(s)]
  <2>1. \A U \in SUBSET T : U # T => Recurses(U, c, base, step, On(U))
    BY <1>1
  <2> HIDE DEF On
  <2>2. ASSUME NEW u \in SUBSET T, u # T PROVE g[u] = On(u)[u]
    <3>1. CASE u = {}
      BY <2>1, <2>2, <3>1 DEF Recurses
    <3>2. CASE u # {}
      <4> DEFINE v == u \ {c[u]}
      <4>1. c[u] \in u /\ v \in SUBSET u /\ v # T /\ v \in SUBSET T
        BY <2>2, <3>2
      <4>2. Recurses(u, c, base, step, On(u)) /\ Recurses(v, c, base, step, On(v))
        BY <2>1, <2>2, <4>1
      <4>3. On(u)[v] = On(v)[v]
        <5> HIDE DEF v
        <5>1. u \in SUBSET S /\ v \in SUBSET S /\ v \in SUBSET (u \cap v)
          BY <4>1
        <5>2. \A s \in SUBSET (u \cap v) : On(u)[s] = On(v)[s]
          BY <4>2, <5>1, RecursionsAgree
        <5> QED
          BY <5>1, <5>2
      <4>4. On(u)[u] = step[<<c[u], On(u)[v]>>]
        BY <3>2, <4>2 DEF Recurses
      <4>5. g[u] = step[<<c[u], On(v)[v]>>]
        BY <3>2
      <4> QED
        BY <4>3, <4>4, <4>5
    <3> QED
      BY <3>1, <3>2
  <2>3. ASSUME NEW s \in SUBSET T, s # {}
        PROVE  g[s] = step[<<c[s], g[s \ {c[s]}]>>]
    <3>1. c[s] \in s /\ s \ {c[s]} \in SUBSET T /\ s \ {c[s]} # T
      BY <2>3
    <3>2. g[s \ {c[s]}] = On(s \ {c[s]})[s \ {c[s]}]
      BY <2>2, <3>1
    <3>3. g[s] = step[<<c[s], On(s \ {c[s]})[s \ {c[s]}]>>]
      BY <2>3
    <3> QED
      BY <3>2, <3>3
  <2>4. g[{}] = base
    OBVIOUS
  <2>5. g = [s \in SUBSET T |-> g[s]]
    OBVIOUS
  <2> HIDE DEF g
  <2>6. Recurses(T, c, base, step, g)
    BY <2>3, <2>4, <2>5 DEF Recurses
  <2> QED
    BY <2>6
<1> HIDE DEF G
<1>2. SUBSET S \subseteq G
  BY <1>1, SubsetInduction
<1>3. S \in G
  BY <1>2
<1> QED
  BY <1>3 DEF G

\* The greatest of finitely many numbers
LEMMA GreatestExists ==
  ASSUME NEW n \in Nat, NEW u \in SUBSET (1..n), u # {}
  PROVE  Max(u) \in u /\ \A y \in u : y <= Max(u)
<1>1. PICK S : S = 1..n
  OBVIOUS
<1> DEFINE G == {T \in SUBSET S : T # {} => \E m \in T : \A y \in T : m >= y}
<1>2. ASSUME NEW T \in SUBSET S, \A U \in SUBSET T : U # T => U \in G
      PROVE  T \in G
  <2>1. CASE T = {}
    BY <2>1
  <2>2. CASE T # {}
    <3>1. PICK x \in T : TRUE
      BY <2>2
    <3>2. T \ {x} \in G
      BY <1>2, <3>1
    <3>3. CASE T \ {x} = {}
      <4>1. \A y \in T : x >= y
        BY <1>1, <3>1, <3>3
      <4> QED
        BY <4>1
    <3>4. CASE T \ {x} # {}
      <4>1. PICK m \in T \ {x} : \A y \in T \ {x} : m >= y
        BY <3>2, <3>4
      <4>2. CASE x >= m
        BY <1>1, <3>1, <4>1, <4>2
      <4>3. CASE ~(x >= m)
        BY <1>1, <3>1, <4>1, <4>3
      <4> QED
        BY <4>2, <4>3
    <3> QED
      BY <3>3, <3>4
  <2> QED
    BY <2>1, <2>2
<1> HIDE DEF G
<1>3. IsFiniteSet(S)
  BY <1>1, FS_Interval
<1>4. SUBSET S \subseteq G
  BY <1>2, <1>3, SubsetInduction
<1>5. \E m \in u : \A y \in u : m >= y
  BY <1>1, <1>4 DEF G
<1> QED
  BY <1>5 DEF Max

\* In an order that is total on a finite set, some element comes last.
LEMMA LastOfOrder ==
  ASSUME NEW S, IsFiniteSet(S), S # {}, NEW order,
         \A x, y \in S : x # y => <<x, y>> \in order \/ <<y, x>> \in order,
         \A x, y, z \in S : <<x, y>> \in order /\ <<y, z>> \in order => <<x, z>> \in order
  PROVE  \E m \in S : \A x \in S \ {m} : <<x, m>> \in order
<1> DEFINE G == {T \in SUBSET S : T # {} => \E m \in T : \A x \in T \ {m} : <<x, m>> \in order}
<1>1. ASSUME NEW T \in SUBSET S, \A U \in SUBSET T : U # T => U \in G
      PROVE  T \in G
  <2>1. CASE T = {}
    BY <2>1
  <2>2. CASE T # {}
    <3>1. PICK x \in T : TRUE
      BY <2>2
    <3>2. T \ {x} \in G
      <4>1. T \ {x} \in SUBSET T /\ T \ {x} # T
        BY <3>1
      <4> QED
        BY <1>1, <4>1
    <3>3. CASE T \ {x} = {}
      BY <3>1, <3>3
    <3>4. CASE T \ {x} # {}
      <4>1. PICK m \in T \ {x} : \A y \in (T \ {x}) \ {m} : <<y, m>> \in order
        BY <3>2, <3>4
      <4>2. CASE <<x, m>> \in order
        BY <4>1, <4>2
      <4>3. CASE <<m, x>> \in order
        <5>1. \A y \in T \ {x} : <<y, x>> \in order
          BY <3>1, <4>1, <4>3
        <5> QED
          BY <3>1, <5>1
      <4> QED
        BY <3>1, <4>1, <4>2, <4>3
    <3> QED
      BY <3>3, <3>4
  <2> QED
    BY <2>1, <2>2
<1> HIDE DEF G
<1>2. SUBSET S \subseteq G
  BY <1>1, SubsetInduction
<1> QED
  BY <1>2 DEF G

\* A function of the subsets of S that is in R for none, and for each other
\* subset when it is for the subset without the element that c takes out of it
StaysIn(R, S, c, h) ==
    /\ IsFiniteSet(S) /\ \A s \in SUBSET S : s # {} => c[s] \in s
    /\ h[{}] \in R
    /\ \A s \in SUBSET S : s # {} /\ h[s \ {c[s]}] \in R => h[s] \in R

LEMMA RecursionStays ==
  ASSUME NEW R, NEW S, NEW c, NEW h, StaysIn(R, S, c, h)
  PROVE  \A s \in SUBSET S : h[s] \in R
<1> DEFINE G == {s \in SUBSET S : h[s] \in R}
<1>1. ASSUME NEW s \in SUBSET S, \A u \in SUBSET s : u # s => u \in G
      PROVE  s \in G
  <2>1. CASE s = {}
    BY <2>1 DEF StaysIn
  <2>2. CASE s # {}
    <3>1. c[s] \in s /\ s \ {c[s]} \in SUBSET s /\ s \ {c[s]} # s
      BY <2>2 DEF StaysIn
    <3>2. h[s \ {c[s]}] \in R
      BY <1>1, <3>1
    <3> QED
      BY <2>2, <3>2 DEF StaysIn
  <2> QED
    BY <2>1, <2>2
<1> HIDE DEF G
<1>2. SUBSET S \subseteq G
  BY <1>1, SubsetInduction DEF StaysIn
<1> QED
  BY <1>2 DEF G

\* There is a recursion by steps that lead from R to R, and it stays in R.
LEMMA RecursionInExists ==
  ASSUME NEW S, IsFiniteSet(S), NEW c, \A s \in SUBSET S : s # {} => c[s] \in s,
         NEW R, NEW base \in R, NEW step, \A x \in S, r \in R : step[<<x, r>>] \in R
  PROVE  \E g : Recurses(S, c, base, step, g) /\ \A s \in SUBSET S : g[s] \in R
<1>1. PICK g : Recurses(S, c, base, step, g)
  BY RecursionExists
<1>2. g[{}] \in R
  BY <1>1 DEF Recurses
<1>3. ASSUME NEW s \in SUBSET S, s # {}, g[s \ {c[s]}] \in R
      PROVE  g[s] \in R
  <2>1. c[s] \in S /\ g[s] = step[<<c[s], g[s \ {c[s]}]>>]
    BY <1>1, <1>3 DEF Recurses
  <2> QED
    BY <1>3, <2>1
<1>4. StaysIn(R, S, c, g)
  BY <1>2, <1>3 DEF StaysIn
<1> QED
  BY <1>1, <1>4, RecursionStays

(* ------------------------------ Prefixes ------------------------------- *)
(* A fold over a sequence takes its elements out from the last.  What its  *)
(* result says is what it has made of each prefix.                         *)

\* What holds of 0 and of the next number holds of all up to n.
LEMMA PrefixInduction ==
  ASSUME NEW n \in Nat, NEW G, 0 \in G, \A k \in 1..n : k - 1 \in G => k \in G
  PROVE  0..n \subseteq G
<1>1. PICK S : S = 1..n
  OBVIOUS
<1> DEFINE H == {T \in SUBSET S : \A k \in 0..n : T = 1..k => k \in G}
<1>2. ASSUME NEW T \in SUBSET S, \A U \in SUBSET T : U # T => U \in H
      PROVE  T \in H
  <2> SUFFICES ASSUME NEW k \in 0..n, T = 1..k PROVE k \in G
    OBVIOUS
  <2>1. CASE k = 0
    BY <2>1
  <2>2. CASE k # 0
    <3>1. k \in 1..n /\ k - 1 \in 0..n /\ k \in T /\ 1..(k - 1) \in SUBSET T /\ k \notin 1..(k - 1)
      BY <2>2
    <3>2. 1..(k - 1) \in H
      BY <1>2, <3>1
    <3> QED
      BY <3>1, <3>2
  <2> QED
    BY <2>1, <2>2
<1> HIDE DEF H
<1>3. IsFiniteSet(S)
  BY <1>1, FS_Interval
<1>4. SUBSET S \subseteq H
  BY <1>2, <1>3, SubsetInduction
<1> SUFFICES ASSUME NEW k \in 0..n PROVE k \in G
  OBVIOUS
<1>5. 1..k \in SUBSET S
  BY <1>1
<1> QED
  BY <1>4, <1>5 DEF H

\* The prefixes of a sequence of n, from the longest to the empty one
LEMMA PrefixSteps ==
  ASSUME NEW n \in Nat
  PROVE  /\ IsFiniteSet(1..n) /\ 1..0 = {}
         /\ \A u \in SUBSET (1..n) : u # {} => Max(u) \in u
         /\ \A k \in 1..n : /\ 1..k \in SUBSET (1..n) /\ 1..k # {} /\ Max(1..k) = k
                            /\ (1..k) \ {k} = 1..(k - 1) /\ k - 1 \in 0..n
<1>1. IsFiniteSet(1..n)
  BY FS_Interval
<1>2. \A u \in SUBSET (1..n) : u # {} => Max(u) \in u /\ \A y \in u : y <= Max(u)
  BY GreatestExists
<1>3. ASSUME NEW k \in 1..n
      PROVE  /\ 1..k \in SUBSET (1..n) /\ 1..k # {} /\ Max(1..k) = k
             /\ (1..k) \ {k} = 1..(k - 1) /\ k - 1 \in 0..n
  <2>1. 1..k \in SUBSET (1..n) /\ k \in 1..k
    OBVIOUS
  <2>2. Max(1..k) \in 1..k /\ k <= Max(1..k)
    BY <1>2, <2>1
  <2>3. Max(1..k) = k
    BY <2>2
  <2>4. (1..k) \ {k} = 1..(k - 1)
    OBVIOUS
  <2> QED
    BY <2>1, <2>3, <2>4
<1> QED
  BY <1>1, <1>2, <1>3

PrefixRecurses(n, base, step, g) ==
    g = [u \in SUBSET (1..n) |-> IF u = {} THEN base ELSE step[<<Max(u), g[u \ {Max(u)}]>>]]

\* A recursion over the subsets of 1..n that takes out the greatest, by steps
\* that lead from R to R
LEMMA PrefixRecursion ==
  ASSUME NEW n \in Nat, NEW R, NEW base \in R, NEW step,
         \A k \in 1..n, r \in R : step[<<k, r>>] \in R
  PROVE  \E g : PrefixRecurses(n, base, step, g) /\ \A u \in SUBSET (1..n) : g[u] \in R
<1>1. PICK S : S = 1..n
  OBVIOUS
<1>2. PICK c : c = [u \in SUBSET S |-> Max(u)]
  OBVIOUS
<1>3. IsFiniteSet(S) /\ \A u \in SUBSET S : c[u] = Max(u) /\ (u # {} => c[u] \in u)
  BY <1>1, <1>2, PrefixSteps
<1>4. PICK g : Recurses(S, c, base, step, g) /\ \A u \in SUBSET S : g[u] \in R
  <2>1. IsFiniteSet(S) /\ base \in R /\ \A u \in SUBSET S : u # {} => c[u] \in u
    BY <1>3
  <2>2. \A k \in S, r \in R : step[<<k, r>>] \in R
    BY <1>1
  <2> QED
    BY <2>1, <2>2, RecursionInExists
<1>5. g = [u \in SUBSET S |-> IF u = {} THEN base ELSE step[<<Max(u), g[u \ {Max(u)}]>>]]
  BY <1>3, <1>4 DEF Recurses
<1> QED
  BY <1>1, <1>4, <1>5 DEF PrefixRecurses

(* -------------------------------- Sums --------------------------------- *)

\* The recursion that SumFunction makes, which takes out what CHOOSE gives
Adds(f, S, g) ==
    g = [s \in SUBSET S |-> IF s = {} THEN 0
                            ELSE LET x == CHOOSE x \in s : TRUE IN f[x] + g[s \ {x}]]

\* A function with finitely many values, all of them numbers
Summable(f) == IsFiniteSet(DOMAIN f) /\ \A x \in DOMAIN f : f[x] \in Nat

\* The sum of a function is what such a recursion gives for its domain.
LEMMA SumAdds ==
  ASSUME NEW f, Summable(f)
  PROVE  \E g : /\ Adds(f, DOMAIN f, g) /\ SumFunction(f) = g[DOMAIN f]
                /\ \A s \in SUBSET DOMAIN f : g[s] \in Nat
<1>1. PICK S : S = DOMAIN f
  OBVIOUS
<1> DEFINE c == [s \in SUBSET S |-> CHOOSE x \in s : TRUE]
           step == [p \in S \X Nat |-> f[p[1]] + p[2]]
<1>2. IsFiniteSet(S) /\ \A x \in S : f[x] \in Nat
  BY <1>1 DEF Summable
<1>3. \A s \in SUBSET S : s # {} => c[s] \in s
  OBVIOUS
<1>4. \A s \in SUBSET S : c[s] = CHOOSE x \in s : TRUE
  OBVIOUS
<1>5. \A x \in S, n \in Nat : step[<<x, n>>] = f[x] + n
  OBVIOUS
<1> HIDE DEF c, step
<1>6. PICK g : Recurses(S, c, 0, step, g)
  BY <1>2, <1>3, RecursionExists
<1> DEFINE G == {s \in SUBSET S : g[s] \in Nat}
<1>7. ASSUME NEW s \in SUBSET S, \A u \in SUBSET s : u # s => u \in G
      PROVE  s \in G
  <2>1. CASE s = {}
    BY <1>6, <2>1 DEF Recurses
  <2>2. CASE s # {}
    <3>1. c[s] \in s /\ g[s \ {c[s]}] \in Nat
      BY <1>3, <1>7, <2>2
    <3>2. g[s] = step[<<c[s], g[s \ {c[s]}]>>]
      BY <1>6, <2>2 DEF Recurses
    <3>3. g[s] = f[c[s]] + g[s \ {c[s]}] /\ f[c[s]] \in Nat
      BY <1>2, <1>5, <3>1, <3>2
    <3> QED
      BY <3>1, <3>3
  <2> QED
    BY <2>1, <2>2
<1> HIDE DEF G
<1>8. SUBSET S \subseteq G
  BY <1>2, <1>7, SubsetInduction
<1>9. \A s \in SUBSET S : g[s] \in Nat
  BY <1>8 DEF G
<1>10. ASSUME NEW s \in SUBSET S, s # {}
       PROVE  g[s] = f[CHOOSE x \in s : TRUE] + g[s \ {CHOOSE x \in s : TRUE}]
  <2>1. c[s] \in s /\ s \ {c[s]} \in SUBSET S
    BY <1>3, <1>10
  <2>2. g[s] = step[<<c[s], g[s \ {c[s]}]>>]
    BY <1>6, <1>10 DEF Recurses
  <2> QED
    BY <1>4, <1>5, <1>9, <2>1, <2>2
<1>11. g = [s \in SUBSET S |-> g[s]] /\ g[{}] = 0
  BY <1>6 DEF Recurses
<1>12. Adds(f, S, g)
  BY <1>10, <1>11 DEF Adds
<1> DEFINE h == CHOOSE g0 : Adds(f, DOMAIN f, g0)
<1>13. Adds(f, DOMAIN f, h)
  BY <1>1, <1>12
<1>14. SumFunction(f) = h[DOMAIN f]
  BY DEF SumFunction, SumFunctionOnSet, FoldFunctionOnSet, MapThenFoldSet, Adds
<1> HIDE DEF h
<1>15. PICK k : k = h
  OBVIOUS
<1> QED
  <2> DEFINE K == {s \in SUBSET S : k[s] = g[s]}
  <2>1. Adds(f, S, k)
    BY <1>1, <1>13, <1>15
  <2>2. ASSUME NEW s \in SUBSET S, \A u \in SUBSET s : u # s => u \in K
        PROVE  s \in K
    <3>1. CASE s = {}
      BY <1>12, <2>1, <3>1 DEF Adds
    <3>2. CASE s # {}
      <4> DEFINE x == CHOOSE x \in s : TRUE
      <4>1. x \in s
        BY <3>2
      <4>2. k[s] = f[x] + k[s \ {x}] /\ g[s] = f[x] + g[s \ {x}]
        BY <1>12, <2>1, <3>2 DEF Adds
      <4> HIDE DEF x
      <4>3. k[s \ {x}] = g[s \ {x}]
        BY <2>2, <4>1
      <4> QED
        BY <4>2, <4>3
    <3> QED
      BY <3>1, <3>2
  <2> HIDE DEF K
  <2>3. SUBSET S \subseteq K
    BY <1>2, <2>2, SubsetInduction
  <2>4. k[S] = g[S]
    BY <2>3 DEF K
  <2> QED
    BY <1>1, <1>9, <1>12, <1>14, <1>15, <2>4

\* It does not matter which element is taken out.
LEMMA AddsAnyOrder ==
  ASSUME NEW f, NEW S, IsFiniteSet(S), \A x \in S : f[x] \in Nat,
         NEW g, Adds(f, S, g), \A s \in SUBSET S : g[s] \in Nat
  PROVE  \A s \in SUBSET S : \A x \in s : g[s] = f[x] + g[s \ {x}]
<1> DEFINE G == {s \in SUBSET S : \A x \in s : g[s] = f[x] + g[s \ {x}]}
<1>1. ASSUME NEW s \in SUBSET S, \A u \in SUBSET s : u # s => u \in G
      PROVE  s \in G
  <2>1. SUFFICES ASSUME NEW x \in s PROVE g[s] = f[x] + g[s \ {x}]
    OBVIOUS
  <2> DEFINE y == CHOOSE y \in s : TRUE
  <2>2. y \in s /\ g[s] = f[y] + g[s \ {y}]
    BY DEF Adds
  <2> HIDE DEF y
  <2>3. CASE x = y
    BY <2>2, <2>3
  <2>4. CASE x # y
    <3>1. PICK v : v = (s \ {y}) \ {x}
      OBVIOUS
    <3>2. v = (s \ {x}) \ {y} /\ v \in SUBSET S
      BY <3>1
    <3>3. s \ {y} \in G /\ s \ {x} \in G
      BY <1>1, <2>2
    <3>4. g[s \ {y}] = f[x] + g[v] /\ g[s \ {x}] = f[y] + g[v]
      BY <2>2, <2>4, <3>1, <3>2, <3>3
    <3>5. f[x] \in Nat /\ f[y] \in Nat /\ g[v] \in Nat
      BY <2>2, <3>2
    <3> QED
      BY <2>2, <3>4, <3>5
  <2> QED
    BY <2>3, <2>4
<1> HIDE DEF G
<1>2. SUBSET S \subseteq G
  BY <1>1, SubsetInduction
<1> QED
  BY <1>2 DEF G

LEMMA SumIsNatural == ASSUME NEW f, Summable(f) PROVE SumFunction(f) \in Nat
BY SumAdds

LEMMA SumOfNothing == ASSUME NEW f, DOMAIN f = {} PROVE SumFunction(f) = 0
<1>1. Summable(f)
  BY FS_EmptySet DEF Summable
<1>2. PICK g : Adds(f, DOMAIN f, g) /\ SumFunction(f) = g[DOMAIN f]
  BY <1>1, SumAdds
<1> QED
  BY <1>2 DEF Adds

\* One more value adds to the sum what it is.
LEMMA SumGrows ==
  ASSUME NEW f, Summable(f), NEW k, k \notin DOMAIN f, NEW n \in Nat,
         NEW h, DOMAIN h = DOMAIN f \cup {k}, h[k] = n, \A x \in DOMAIN f : h[x] = f[x]
  PROVE  Summable(h) /\ SumFunction(h) = SumFunction(f) + n
<1>1. PICK S, T : S = DOMAIN f /\ T = DOMAIN f \cup {k}
  OBVIOUS
<1>2. /\ IsFiniteSet(S) /\ IsFiniteSet(T) /\ DOMAIN h = T
      /\ \A x \in S : f[x] \in Nat /\ h[x] = f[x]
      /\ h[k] = n /\ k \notin S /\ T = S \cup {k}
  BY <1>1, FS_AddElement DEF Summable
<1>3. Summable(h)
  BY <1>2 DEF Summable
<1>4. PICK p : /\ Adds(f, S, p) /\ SumFunction(f) = p[S]
               /\ \A s \in SUBSET S : p[s] \in Nat
  BY <1>1, SumAdds
<1>5. PICK q : /\ Adds(h, T, q) /\ SumFunction(h) = q[T]
               /\ \A s \in SUBSET T : q[s] \in Nat
  BY <1>2, <1>3, SumAdds
<1> DEFINE G == {s \in SUBSET S : p[s] = q[s]}
<1>6. ASSUME NEW s \in SUBSET S, \A u \in SUBSET s : u # s => u \in G
      PROVE  s \in G
  <2>1. s \in SUBSET T
    BY <1>2
  <2>2. CASE s = {}
    BY <1>4, <1>5, <2>1, <2>2 DEF Adds
  <2>3. CASE s # {}
    <3> DEFINE x == CHOOSE x \in s : TRUE
    <3>1. x \in s
      BY <2>3
    <3>2. p[s] = f[x] + p[s \ {x}] /\ q[s] = h[x] + q[s \ {x}]
      BY <1>4, <1>5, <2>1, <2>3 DEF Adds
    <3> HIDE DEF x
    <3>3. p[s \ {x}] = q[s \ {x}]
      BY <1>6, <3>1
    <3> QED
      BY <1>2, <3>1, <3>2, <3>3
  <2> QED
    BY <2>2, <2>3
<1> HIDE DEF G
<1>7. SUBSET S \subseteq G
  BY <1>2, <1>6, SubsetInduction
<1>8. p[S] = q[S]
  BY <1>7 DEF G
<1>9. \A x \in T : h[x] \in Nat
  BY <1>3, <1>2 DEF Summable
<1>10. T \ {k} = S /\ k \in T /\ T \in SUBSET T
  BY <1>2
<1>11. q[T] = h[k] + q[T \ {k}]
  BY <1>2, <1>5, <1>9, <1>10, AddsAnyOrder
<1>12. q[T] = n + p[S] /\ p[S] \in Nat
  BY <1>2, <1>4, <1>8, <1>10, <1>11
<1> QED
  BY <1>3, <1>4, <1>5, <1>12
===============================================================================
