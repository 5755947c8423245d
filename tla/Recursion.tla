------------------------------ MODULE Recursion ------------------------------
(***************************************************************************)
(* Induction and recursion over the natural numbers, stated with sets and  *)
(* functions where the library's theorems take operators.                  *)
(***************************************************************************)
EXTENDS Integers, WellFoundedInduction, TLAPS

\* Every set of natural numbers has a least element.
LEMMA LeastNumber ==
    ASSUME NEW T \in SUBSET Nat, T # {}
    PROVE  \E x \in T : \A y \in T : x <= y
<1> DEFINE R == {ss \in Nat \X Nat : ss[1] < ss[2]}
<1>1. IsWellFoundedOn(R, Nat)
    BY NatLessThanWellFounded DEF OpToRel
<1>2. PICK x \in T : \A y \in T : ~(<<y, x>> \in R)
  <2> HIDE DEF R
  <2> QED BY <1>1, WFMin
<1>3. ASSUME NEW y \in T PROVE x <= y
  <2>1. x \in Nat /\ y \in Nat /\ <<y, x>> \notin R
      BY <1>2
  <2>2. ~(y < x)
      BY <2>1, Zenon
  <2> QED BY <2>1, <2>2
<1> QED BY <1>3

\* Induction up to m.
LEMMA InductionUpTo ==
    ASSUME NEW m \in Nat, NEW T, 0 \in T,
           \A n \in 1..m : n - 1 \in T => n \in T
    PROVE  \A n \in 0..m : n \in T
<1> SUFFICES ASSUME NEW n \in 0..m, n \notin T PROVE FALSE
    OBVIOUS
<1>1. PICK x \in (0..m) \ T : \A y \in (0..m) \ T : x <= y
  <2>1. (0..m) \ T \in SUBSET Nat /\ (0..m) \ T # {}
      OBVIOUS
  <2> QED BY <2>1, LeastNumber
<1>2. x \in 1..m /\ x - 1 \in 0..m
    BY <1>1
<1>3. x - 1 \in T
    BY <1>1, <1>2
<1> QED BY <1>1, <1>2, <1>3

\* Functions that start at the same value and stay together are the same.
LEMMA InStep ==
    ASSUME NEW m \in Nat, NEW f, NEW g, f[0] = g[0],
           \A n \in 1..m : f[n - 1] = g[n - 1] => f[n] = g[n]
    PROVE  \A n \in 0..m : f[n] = g[n]
<1> DEFINE T == {n \in Nat : f[n] = g[n]}
<1>1. 0 \in T /\ \A n \in 1..m : n - 1 \in T => n \in T
    OBVIOUS
<1>2. \A n \in 0..m : n \in T
  <2> HIDE DEF T
  <2> QED BY <1>1, InductionUpTo
<1> QED BY <1>2

\* h takes the steps up to n.
Takes(h, n, A, a, step) ==
    /\ h \in [0..n -> A]
    /\ h[0] = a
    /\ \A i \in 1..n : h[i] = step[i][h[i - 1]]

\* f begins with a, and steps from each value to the next.
Recurs(f, D, A, a, step) ==
    /\ f \in [D -> A]
    /\ 0 \in D => f[0] = a
    /\ \A n \in D : n # 0 => f[n] = step[n][f[n - 1]]

\* A function may be defined by its first value and the step from one value to
\* the next, on Nat or up to any number.
LEMMA RecursionExists ==
    ASSUME NEW D, NEW A, NEW a, NEW step,
           D \in SUBSET Nat, \A n \in D : n = 0 \/ n - 1 \in D,
           a \in A, step \in [D -> [A -> A]]
    PROVE  \E f : Recurs(f, D, A, a, step)
<1> DEFINE all == [n \in Nat |-> IF n \in D THEN step[n] ELSE [x \in A |-> x]]
           T == {n \in Nat : \E h : Takes(h, n, A, a, all)}
<1>1. all \in [Nat -> [A -> A]] /\ \A n \in D : all[n] = step[n]
    OBVIOUS
<1> HIDE DEF all
<1>2. 0 \in T
  <2>1. Takes([i \in 0..0 |-> a], 0, A, a, all)
      BY DEF Takes
  <2> QED BY <2>1
<1>3. ASSUME NEW n \in Nat \ {0}, n - 1 \in T PROVE n \in T
  <2>1. PICK h : Takes(h, n - 1, A, a, all)
      BY <1>3
  <2> DEFINE g == [i \in 0..n |-> IF i = n THEN all[n][h[n - 1]] ELSE h[i]]
  <2>2. h \in [0..(n - 1) -> A] /\ h[n - 1] \in A
      BY <1>3, <2>1 DEF Takes
  <2>3. all[n][h[n - 1]] \in A
      BY <1>1, <2>2
  <2>4. g \in [0..n -> A] /\ g[0] = a
      BY <1>3, <2>1, <2>2, <2>3 DEF Takes
  <2>5. ASSUME NEW i \in 1..n PROVE g[i] = all[i][g[i - 1]]
    <3>1. CASE i = n
        BY <1>3, <2>2, <3>1
    <3>2. CASE i # n
        BY <1>3, <2>1, <2>2, <3>2 DEF Takes
    <3> QED BY <3>1, <3>2
  <2>6. Takes(g, n, A, a, all)
      BY <2>4, <2>5 DEF Takes
  <2> QED BY <2>6
<1>4. \A n \in Nat : \E h : Takes(h, n, A, a, all)
  <2> SUFFICES ASSUME NEW n \in Nat PROVE n \in T
      OBVIOUS
  <2> HIDE DEF T
  <2>1. \A i \in 1..n : i - 1 \in T => i \in T
      BY <1>3
  <2> QED BY <1>2, <2>1, InductionUpTo
<1> DEFINE H == [n \in Nat |-> CHOOSE h : Takes(h, n, A, a, all)]
<1>5. \A n \in Nat : Takes(H[n], n, A, a, all)
    BY <1>4
<1> HIDE DEF H, T
<1>6. ASSUME NEW n \in Nat \ {0} PROVE H[n][n - 1] = H[n - 1][n - 1]
  <2>1. Takes(H[n], n, A, a, all) /\ Takes(H[n - 1], n - 1, A, a, all)
      BY <1>5
  <2> DEFINE g == H[n]
             h == H[n - 1]
  <2>2. Takes(g, n, A, a, all) /\ Takes(h, n - 1, A, a, all)
      BY <2>1
  <2> HIDE DEF g, h
  <2>6. g[0] = h[0] /\ \A i \in 1..(n - 1) : g[i - 1] = h[i - 1] => g[i] = h[i]
    <3>1. \A i \in 1..(n - 1) : i \in 1..n
        OBVIOUS
    <3> QED BY <2>2, <3>1 DEF Takes
  <2>3. n - 1 \in Nat
      OBVIOUS
  <2>4. \A i \in 0..(n - 1) : g[i] = h[i]
      BY <2>3, <2>6, InStep
  <2>5. n - 1 \in 0..(n - 1)
      BY <2>3
  <2> QED BY <2>4, <2>5 DEF g, h
<1> DEFINE f == [n \in D |-> H[n][n]]
<1>7. f \in [D -> A]
    BY <1>5 DEF Takes
<1>8. ASSUME NEW n \in D, n # 0 PROVE f[n] = step[n][f[n - 1]]
  <2>1. n \in Nat \ {0} /\ n - 1 \in D
      BY <1>8
  <2>2. Takes(H[n], n, A, a, all) /\ n \in 1..n
      BY <1>5, <2>1
  <2>3. H[n][n] = all[n][H[n][n - 1]]
      BY <2>2 DEF Takes
  <2> QED BY <1>1, <1>6, <1>8, <2>1, <2>3
<1>9. 0 \in D => f[0] = a
    BY <1>5 DEF Takes
<1> QED BY <1>7, <1>8, <1>9 DEF Recurs

\* f multiplies factors up, one after the other.
Multiplies(f, m, factor) ==
    f[0] = 1 /\ \A n \in 1..m : f[n] = factor[n] * f[n - 1]

\* There is a function that does.
LEMMA ProductsExist ==
    ASSUME NEW m \in Nat, NEW factor \in [1..m -> Nat]
    PROVE  \E f : f \in [0..m -> Nat] /\ Multiplies(f, m, factor)
<1> DEFINE D == 0..m
           A == Nat
           a == 1
           step == [n \in D |-> IF n = 0 THEN [x \in A |-> x] ELSE [x \in A |-> factor[n] * x]]
<1>1. D \in SUBSET Nat /\ (\A n \in D : n = 0 \/ n - 1 \in D) /\ a \in A
    OBVIOUS
<1>2. step \in [D -> [A -> A]]
    OBVIOUS
<1>3. PICK f : Recurs(f, D, A, a, step)
  <2> HIDE DEF D, A, a, step
  <2> QED BY <1>1, <1>2, RecursionExists
<1>4. /\ f \in [D -> A] /\ (0 \in D => f[0] = a)
      /\ \A n \in D : n # 0 => f[n] = step[n][f[n - 1]]
    BY <1>3 DEF Recurs
<1>5. ASSUME NEW n \in 1..m PROVE f[n] = factor[n] * f[n - 1]
  <2>1. n \in D /\ n - 1 \in D /\ f[n - 1] \in Nat /\ n # 0
      BY <1>4
  <2>2. step[n][f[n - 1]] = factor[n] * f[n - 1]
      BY <2>1
  <2> HIDE DEF step, D
  <2> QED BY <1>4, <2>1, <2>2
<1>6. 0 \in D
    OBVIOUS
<1>7. f \in [0..m -> Nat] /\ f[0] = 1
    BY <1>4, <1>6
<1> QED BY <1>5, <1>7 DEF Multiplies

\* Whatever does has natural numbers for values.
LEMMA ProductsAreNumbers ==
    ASSUME NEW m \in Nat, NEW factor \in [1..m -> Nat], NEW f, Multiplies(f, m, factor)
    PROVE  \A n \in 0..m : f[n] \in Nat
<1> DEFINE T == {n \in 0..m : f[n] \in Nat}
<1>1. 0 \in T
    BY DEF Multiplies
<1>2. ASSUME NEW n \in 1..m, n - 1 \in T PROVE n \in T
  <2>1. f[n] = factor[n] * f[n - 1] /\ f[n - 1] \in Nat /\ factor[n] \in Nat
      BY <1>2 DEF Multiplies
  <2> QED BY <2>1
<1>3. \A n \in 0..m : n \in T
  <2> HIDE DEF T
  <2> QED BY <1>1, <1>2, InductionUpTo
<1> QED BY <1>3
=============================================================================
