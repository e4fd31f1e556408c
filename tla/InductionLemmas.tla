-------------------------- MODULE InductionLemmas ---------------------------
(***************************************************************************)
(* What the proofs about loops and tables need of the numbers: least and   *)
(* greatest elements, induction over a set, and that a function may be     *)
(* defined by recursion.  They are stated for sets and functions, so that  *)
(* the provers can use them.                                               *)
(***************************************************************************)
EXTENDS Integers, FiniteSetsExt, WellFoundedInduction, TLAPS

\* A least number, and so Min().
LEMMA MinLemma ==
  ASSUME NEW S \in SUBSET Nat, S # {}
  PROVE  Min(S) \in S /\ \A y \in S : Min(S) <= y
<1> DEFINE R == OpToRel(<, Nat)
<1>1. IsWellFoundedOn(R, Nat)
  BY Zenon, NatLessThanWellFounded
<1>2. \A x, y \in Nat : y < x => <<y, x>> \in R
  BY DEF OpToRel
<1> HIDE DEF R
<1>3. PICK x \in S : \A y \in S : ~(<<y, x>> \in R)
  BY Zenon, <1>1, WFMin
<1>4. ASSUME NEW y \in S PROVE x <= y
  <2>1. x \in Nat /\ y \in Nat
    OBVIOUS
  <2>2. ~(y < x)
    BY Zenon, <1>2, <1>3, <2>1
  <2> QED BY <2>1, <2>2
<1> QED BY Zenon, <1>4 DEF Min

\* A greatest number of a bounded set, and so Max().
LEMMA MaxLemma ==
  ASSUME NEW S \in SUBSET Nat, S # {}, NEW k \in Nat, \A x \in S : x <= k
  PROVE  Max(S) \in S /\ \A y \in S : y <= Max(S)
<1> DEFINE T == {k - x : x \in S}
<1>1. T \in SUBSET Nat /\ T # {}
  <2>1. ASSUME NEW x \in S PROVE k - x \in Nat
    <3>1. x \in Nat /\ x <= k
      BY SMTT(30)
    <3> QED BY <3>1
  <2> QED BY Zenon, <2>1
<1>2. Min(T) \in T /\ \A y \in T : Min(T) <= y
  BY Zenon, <1>1, MinLemma
<1>3. PICK x \in S : Min(T) = k - x
  BY Zenon, <1>2
<1>4. ASSUME NEW y \in S PROVE y <= x
  <2>1. x \in Nat /\ y \in Nat /\ k - y \in T
    OBVIOUS
  <2>2. k - x <= k - y
    BY Zenon, <1>2, <1>3, <2>1
  <2> QED BY <2>1, <2>2
<1> QED BY Zenon, <1>4 DEF Max

\* Induction, for sets of numbers.
LEMMA Induction ==
  ASSUME NEW S \in SUBSET Nat, 0 \in S, \A n \in S : n + 1 \in S
  PROVE  S = Nat
<1> SUFFICES ASSUME Nat \ S # {} PROVE FALSE
  BY Zenon
<1> DEFINE x == Min(Nat \ S)
<1>1. x \in Nat \ S /\ \A y \in Nat \ S : x <= y
  BY MinLemma
<1> HIDE DEF x
<1>2. x # 0 /\ x - 1 \in Nat
  BY <1>1
<1>3. x - 1 \in S
  BY <1>1, <1>2
<1>4. (x - 1) + 1 \in S
  BY Zenon, <1>3
<1> QED BY <1>1, <1>4

\* a sequence of elements of D that starts with a and goes on as F says
Unrolls(D, a, F) ==
  \E g \in [Nat -> D] : g[0] = a /\ \A n \in Nat : g[n + 1] = F[<<g[n], n>>]

\* A function on the numbers may be defined by recursion.
LEMMA Recursion ==
  ASSUME NEW D, NEW a \in D, NEW F \in [D \X Nat -> D]
  PROVE  Unrolls(D, a, F)
<1> DEFINE App(n, h) == h \in [0..n -> D] /\ h[0] = a /\ \A m \in 0..(n - 1) : h[m + 1] = F[<<h[m], m>>]
           S == {n \in Nat : \E h : App(n, h)}
<1> HIDE DEF App
<1>1. 0 \in S
  <2>1. App(0, [m \in 0..0 |-> a])
    BY DEF App
  <2> QED BY Zenon, <2>1
<1>2. ASSUME NEW n \in S PROVE n + 1 \in S
  <2>1. n \in Nat /\ \E h : App(n, h)
    BY Zenon
  <2>2. PICK h : App(n, h)
    BY Zenon, <2>1
  <2> DEFINE z == F[<<h[n], n>>]
             k == [m \in 0..(n + 1) |-> IF m = n + 1 THEN z ELSE h[m]]
  <2>3. h \in [0..n -> D] /\ h[0] = a /\ \A m \in 0..(n - 1) : h[m + 1] = F[<<h[m], m>>]
    BY Zenon, <2>2 DEF App
  <2>4. h[n] \in D /\ z \in D
    BY <2>1, <2>3
  <2> HIDE DEF z
  <2>5. k \in [0..(n + 1) -> D] /\ k[0] = a /\ k[n + 1] = z /\ \A m \in 0..n : k[m] = h[m]
    BY <2>1, <2>3, <2>4
  <2> HIDE DEF k
  <2>6. ASSUME NEW m \in 0..n PROVE k[m + 1] = F[<<k[m], m>>]
    <3>1. CASE m = n
      BY <2>1, <2>5, <3>1 DEF z
    <3>2. CASE m # n
      <4>1. m \in 0..(n - 1) /\ m + 1 \in 0..n
        BY <2>1, <3>2
      <4> QED BY Zenon, <2>3, <2>5, <4>1
    <3> QED BY <3>1, <3>2
  <2>7. (n + 1) - 1 = n /\ n + 1 \in Nat
    BY <2>1
  <2>8. App(n + 1, k)
    BY Zenon, <2>5, <2>6, <2>7 DEF App
  <2> QED BY Zenon, <2>7, <2>8
<1>3. S = Nat
  <2>1. S \in SUBSET Nat
    OBVIOUS
  <2> HIDE DEF S
  <2> QED BY Zenon, <1>1, <1>2, <2>1, Induction
<1> DEFINE A(n) == CHOOSE h : App(n, h)
<1>4. ASSUME NEW n \in Nat PROVE App(n, A(n))
  BY Zenon, <1>3
<1> HIDE DEF A, S
<1>5. ASSUME NEW n \in Nat
      PROVE  A(n) \in [0..n -> D] /\ A(n)[0] = a /\ \A m \in 0..(n - 1) : A(n)[m + 1] = F[<<A(n)[m], m>>]
  BY Zenon, <1>4 DEF App
<1>6. ASSUME NEW n \in Nat PROVE A(n + 1)[n] = A(n)[n]
  <2> DEFINE h == A(n)
             k == A(n + 1)
             T == {m \in Nat : m \in 0..n => h[m] = k[m]}
  <2>1. n + 1 \in Nat /\ (n + 1) - 1 = n
    OBVIOUS
  <2>2. /\ h[0] = a /\ \A m \in 0..(n - 1) : h[m + 1] = F[<<h[m], m>>]
        /\ k[0] = a /\ \A m \in 0..n : k[m + 1] = F[<<k[m], m>>]
    BY Zenon, <1>5, <2>1
  <2> HIDE DEF h, k
  <2>3. 0 \in T
    BY <2>2
  <2>4. ASSUME NEW m \in T PROVE m + 1 \in T
    <3>1. m \in Nat /\ m + 1 \in Nat /\ (m \in 0..n => h[m] = k[m])
      OBVIOUS
    <3>2. ASSUME m + 1 \in 0..n PROVE h[m + 1] = k[m + 1]
      <4>1. m \in 0..(n - 1) /\ m \in 0..n
        BY <3>1, <3>2
      <4> QED BY Zenon, <2>2, <3>1, <4>1
    <3> QED BY Zenon, <3>1, <3>2
  <2>5. T = Nat
    <3>1. T \in SUBSET Nat
      OBVIOUS
    <3> HIDE DEF T
    <3> QED BY Zenon, <2>3, <2>4, <3>1, Induction
  <2>6. n \in T /\ n \in 0..n
    BY <2>5
  <2> QED BY <2>6 DEF h, k
<1> DEFINE g == [n \in Nat |-> A(n)[n]]
<1>7. \A n \in Nat : g[n] = A(n)[n]
  BY Zenon
<1>8. ASSUME NEW n \in Nat PROVE A(n)[n] \in D
  <2>1. n \in 0..n
    OBVIOUS
  <2> QED BY Zenon, <1>5, <2>1
<1>9. g \in [Nat -> D]
  BY Zenon, <1>8
<1> HIDE DEF g
<1>10. g[0] = a
  BY <1>5, <1>7
<1>11. ASSUME NEW n \in Nat PROVE g[n + 1] = F[<<g[n], n>>]
  <2>1. n + 1 \in Nat /\ n \in 0..((n + 1) - 1)
    OBVIOUS
  <2>2. A(n + 1)[n + 1] = F[<<A(n + 1)[n], n>>]
    BY Zenon, <1>5, <2>1
  <2> QED BY Zenon, <1>6, <1>7, <2>1, <2>2
<1> QED BY ZenonT(30), <1>9, <1>10, <1>11 DEF Unrolls

\* Multiples of c keep their distance.
LEMMA MulLemma ==
  ASSUME NEW a \in Nat, NEW b \in Nat, NEW c \in Nat, a < b
  PROVE  a * c \in Nat /\ b * c \in Nat /\ a * c + c <= b * c
<1> DEFINE d == b - a - 1
<1>1. d \in Nat /\ b = a + 1 + d
  OBVIOUS
<1>2. b * c = a * c + c + d * c
  BY <1>1
<1>3. d * c \in Nat /\ a * c \in Nat /\ b * c \in Nat
  BY <1>1
<1> QED BY <1>2, <1>3

\* And their order.
LEMMA MulOrder ==
  ASSUME NEW a \in Nat, NEW b \in Nat, NEW c \in Nat, a <= b
  PROVE  a * c \in Nat /\ b * c \in Nat /\ a * c <= b * c
<1>1. CASE a = b
  BY <1>1
<1>2. CASE a < b
  BY <1>2, MulLemma
<1> QED BY <1>1, <1>2

\* The multiple of c at or below x.
LEMMA DivLemma ==
  ASSUME NEW x \in Nat, NEW c \in Nat \ {0}
  PROVE  x \div c \in Nat /\ (x \div c) * c <= x /\ x < (x \div c) * c + c
BY SMTT(30)

\* There is only one.
LEMMA DivIs ==
  ASSUME NEW x \in Nat, NEW c \in Nat \ {0}, NEW k \in Nat, k * c <= x, x < k * c + c
  PROVE  x \div c = k
<1> DEFINE q == x \div c
<1>1. q \in Nat /\ q * c <= x /\ x < q * c + c
  BY DivLemma
<1> HIDE DEF q
<1>2. ~(k < q)
  BY <1>1, MulLemma
<1>3. ~(q < k)
  BY <1>1, MulLemma
<1>4. q = k
  BY <1>1, <1>2, <1>3
<1> QED BY <1>4 DEF q

\* Induction up to n.
LEMMA InductionTo ==
  ASSUME NEW n \in Nat, NEW S, 0 \in S, \A i \in S : i \in 0..(n - 1) => i + 1 \in S
  PROVE  \A i \in 0..n : i \in S
<1> DEFINE T == {i \in Nat : i <= n => i \in S}
<1>1. 0 \in T
  OBVIOUS
<1>2. ASSUME NEW i \in T PROVE i + 1 \in T
  <2>1. i \in Nat /\ i + 1 \in Nat /\ (i <= n => i \in S)
    OBVIOUS
  <2>2. ASSUME i + 1 <= n PROVE i + 1 \in S
    <3>1. i <= n /\ i \in 0..(n - 1)
      BY <2>1, <2>2
    <3> QED BY Zenon, <2>1, <3>1
  <2> QED BY Zenon, <2>1, <2>2
<1>3. T = Nat
  <2>1. T \in SUBSET Nat
    OBVIOUS
  <2> HIDE DEF T
  <2> QED BY Zenon, <1>1, <1>2, <2>1, Induction
<1>4. ASSUME NEW i \in 0..n PROVE i \in S
  <2>1. i \in Nat /\ i <= n
    OBVIOUS
  <2> QED BY Zenon, <1>3, <2>1
<1> QED BY Zenon, <1>4

\* h is what a loop of n rounds holds after each of them
Rounds(D, a, n, F, h) ==
  h \in [0..n -> D] /\ h[0] = a /\ \A i \in 1..n : h[i] = F[<<h[i - 1], i>>]

\* A loop has what it computes.
LEMMA RoundsExist ==
  ASSUME NEW D, NEW a \in D, NEW n \in Nat, NEW F \in [D \X (1..n) -> D]
  PROVE  \E h : Rounds(D, a, n, F, h)
<1> DEFINE At(x, m) == IF m + 1 \in 1..n THEN F[<<x, m + 1>>] ELSE x
           G == [x \in D \X Nat |-> At(x[1], x[2])]
<1>1. ASSUME NEW x \in D, NEW m \in Nat PROVE At(x, m) \in D
  BY Zenon
<1>2. G \in [D \X Nat -> D] /\ \A x \in D, m \in Nat : G[<<x, m>>] = At(x, m)
  <2> HIDE DEF At
  <2>1. \A x \in D \X Nat : x[1] \in D /\ x[2] \in Nat
    BY Zenon
  <2>2. \A x \in D \X Nat : At(x[1], x[2]) \in D
    BY Zenon, <1>1, <2>1
  <2> QED BY <2>2
<1> HIDE DEF G
<1>3. PICK g \in [Nat -> D] : g[0] = a /\ \A m \in Nat : g[m + 1] = G[<<g[m], m>>]
  <2>1. Unrolls(D, a, G)
    BY Zenon, <1>2, Recursion
  <2> QED BY Zenon, <2>1 DEF Unrolls
<1> DEFINE h == [i \in 0..n |-> g[i]]
<1>4. ASSUME NEW i \in 1..n PROVE g[i] = F[<<g[i - 1], i>>]
  <2> DEFINE m == i - 1
  <2>1. m \in Nat /\ m + 1 = i
    OBVIOUS
  <2> HIDE DEF m
  <2>2. g[m] \in D
    BY Zenon, <2>1
  <2>3. g[m + 1] = At(g[m], m)
    BY Zenon, <1>2, <1>3, <2>1, <2>2
  <2>4. At(g[m], m) = F[<<g[m], m + 1>>]
    BY Zenon, <2>1
  <2> QED BY Zenon, <2>1, <2>3, <2>4 DEF m
<1>5. h \in [0..n -> D] /\ h[0] = a /\ \A i \in 1..n : h[i] = g[i] /\ h[i - 1] = g[i - 1]
  BY <1>3
<1> HIDE DEF h
<1>6. Rounds(D, a, n, F, h)
  BY Zenon, <1>4, <1>5 DEF Rounds
<1> QED BY Zenon, <1>6
=============================================================================
