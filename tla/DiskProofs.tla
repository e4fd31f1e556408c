----------------------------- MODULE DiskProofs -----------------------------
(***************************************************************************)
(* The path of a read, for any number of ports, vectors and sectors: a     *)
(* read that returns 0 has filled its caller's buffers with the sectors    *)
(* asked for, and the controller writes nothing else, and nothing after    *)
(* the call has returned; and the registry lists disks and partitions in   *)
(* their order.                                                            *)
(***************************************************************************)
EXTENDS Disk, SequenceTheorems, FiniteSetTheorems, InductionLemmas

-----------------------------------------------------------------------------
(* Sequences that are put together.                                        *)

\* h is what Flatten() has after each of the sequences
FlatRounds(S, ss, h) ==
  h \in [0..Len(ss) -> Seq(S)] /\ h[0] = <<>> /\ \A i \in 1..Len(ss) : h[i] = h[i - 1] \o ss[i]

\* Flatten() ends with the last sequence.
LEMMA FlatLemma ==
  ASSUME NEW S, NEW ss \in Seq(Seq(S))
  PROVE  \E h : FlatRounds(S, ss, h) /\ Flatten(ss) = h[Len(ss)]
<1> DEFINE n == Len(ss)
           D == Seq(S)
           a == <<>>
           F == [x \in D \X (1..n) |-> x[1] \o ss[x[2]]]
<1>1. n \in Nat /\ DOMAIN ss = 1..n /\ a \in D /\ \A i \in 1..n : ss[i] \in D
  OBVIOUS
<1>2. ASSUME NEW x \in D, NEW i \in 1..n PROVE x \o ss[i] \in D
  BY <1>1, ConcatProperties
<1> HIDE DEF D, n, a
<1>5. F \in [D \X (1..n) -> D] /\ \A x \in D, i \in 1..n : F[<<x, i>>] = x \o ss[i]
  <2>1. \A x \in D \X (1..n) : x[1] \in D /\ x[2] \in 1..n
    BY Zenon
  <2>2. \A x \in D \X (1..n) : x[1] \o ss[x[2]] \in D
    BY Zenon, <1>2, <2>1
  <2> QED BY Zenon, <2>2
<1> HIDE DEF F
<1>6. PICK h : Rounds(D, a, n, F, h)
  BY Zenon, <1>1, <1>5, RoundsExist
<1>7. h \in [0..n -> D] /\ h[0] = a /\ \A i \in 1..n : h[i] = F[<<h[i - 1], i>>]
  BY Zenon, <1>6 DEF Rounds
<1>8. ASSUME NEW i \in 1..n PROVE h[i] = h[i - 1] \o ss[i] /\ h[i] \in D /\ h[i - 1] \in D
  <2>1. i - 1 \in 0..n /\ i \in 0..n
    BY <1>1
  <2>2. h[i - 1] \in D /\ h[i] \in D
    BY Zenon, <1>7, <2>1
  <2> QED BY Zenon, <1>5, <1>7, <2>2
<1>9. FlatRounds(S, ss, h)
  BY Zenon, <1>7, <1>8 DEF FlatRounds, D, n, a
<1> DEFINE R(f, i) == IF i = 0 THEN <<>> ELSE f[i - 1] \o ss[i]
           Is(f) == f = [i \in 0..n |-> R(f, i)]
           k == CHOOSE f : Is(f)
<1>10. Is(h)
  <2>1. ASSUME NEW i \in 0..n PROVE h[i] = R(h, i)
    <3>1. CASE i = 0
      BY Zenon, <1>7, <3>1 DEF a
    <3>2. CASE i # 0
      <4>1. i \in 1..n
        BY <1>1, <3>2
      <4> QED BY Zenon, <1>8, <3>2, <4>1
    <3> QED BY <3>1, <3>2
  <2> HIDE DEF R
  <2>2. [i \in 0..n |-> h[i]] = [i \in 0..n |-> R(h, i)]
    BY Zenon, <2>1
  <2>3. h = [i \in 0..n |-> h[i]]
    BY Zenon, <1>7
  <2> QED BY Zenon, <2>2, <2>3
<1>11. Is(k)
  <2> HIDE DEF Is
  <2> QED BY Zenon, <1>10
<1>12. Flatten(ss) = k[n]
  BY Zenon DEF Flatten, n
<1> HIDE DEF k
<1>13. \A i \in 0..n : k[i] = R(k, i)
  <2> HIDE DEF R
  <2> QED BY Zenon, <1>11
<1> DEFINE T == {i \in 0..n : k[i] = h[i]}
<1>14. 0 \in T
  <2>1. 0 \in 0..n
    BY <1>1
  <2> QED BY Zenon, <1>7, <1>13, <2>1 DEF a
<1>15. ASSUME NEW i \in T, i \in 0..(n - 1) PROVE i + 1 \in T
  <2>1. i + 1 \in 1..n /\ i + 1 \in 0..n /\ (i + 1) - 1 = i /\ i + 1 # 0 /\ k[i] = h[i]
    BY <1>1, <1>15
  <2>2. h[i + 1] = h[i] \o ss[i + 1]
    BY Zenon, <1>8, <2>1
  <2>3. k[i + 1] = k[i] \o ss[i + 1]
    BY Zenon, <1>13, <2>1
  <2> QED BY Zenon, <2>1, <2>2, <2>3
<1> HIDE DEF T
<1>16. \A i \in 0..n : i \in T
  BY Zenon, <1>1, <1>14, <1>15, InductionTo
<1>17. n \in 0..n
  BY <1>1
<1>18. k[n] = h[n]
  BY Zenon, <1>16, <1>17 DEF T
<1> QED BY Zenon, <1>9, <1>12, <1>18 DEF n

\* It is the end of whatever goes the same way.
LEMMA FlatIs ==
  ASSUME NEW S, NEW ss \in Seq(Seq(S)), NEW h, FlatRounds(S, ss, h)
  PROVE  Flatten(ss) = h[Len(ss)]
<1>1. PICK g : FlatRounds(S, ss, g) /\ Flatten(ss) = g[Len(ss)]
  BY Zenon, FlatLemma
<1> DEFINE n == Len(ss)
           T == {i \in 0..n : g[i] = h[i]}
<1>2. n \in Nat
  OBVIOUS
<1>3. g[0] = h[0] /\ \A i \in 1..n : g[i] = g[i - 1] \o ss[i] /\ h[i] = h[i - 1] \o ss[i]
  BY Zenon, <1>1 DEF FlatRounds
<1> HIDE DEF n
<1>4. 0 \in T
  BY <1>2, <1>3
<1>5. ASSUME NEW i \in T, i \in 0..(n - 1) PROVE i + 1 \in T
  <2>1. i + 1 \in 1..n /\ i + 1 \in 0..n /\ (i + 1) - 1 = i /\ g[i] = h[i]
    BY <1>2, <1>5
  <2> QED BY Zenon, <1>3, <2>1
<1> HIDE DEF T
<1>6. \A i \in 0..n : i \in T
  BY Zenon, <1>2, <1>4, <1>5, InductionTo
<1>7. n \in 0..n
  BY <1>2
<1> QED BY Zenon, <1>1, <1>6, <1>7 DEF T, n

\* What is flattened is a sequence of the same elements.
LEMMA FlatType ==
  ASSUME NEW S, NEW ss \in Seq(Seq(S))
  PROVE  Flatten(ss) \in Seq(S)
<1>1. PICK h : FlatRounds(S, ss, h) /\ Flatten(ss) = h[Len(ss)]
  BY Zenon, FlatLemma
<1>2. Len(ss) \in 0..Len(ss)
  OBVIOUS
<1> QED BY Zenon, <1>1, <1>2 DEF FlatRounds

Associate(s, t, u) == (s \o t) \o u = s \o (t \o u)

\* Concatenation is associative.
LEMMA AssociateLemma == \A S : \A s, t, u \in Seq(S) : Associate(s, t, u)
BY ZenonT(30), ConcatAssociative DEF Associate

\* Flattening goes through concatenation.
LEMMA FlatConcat ==
  ASSUME NEW S, NEW s \in Seq(Seq(S)), NEW t \in Seq(Seq(S))
  PROVE  Flatten(s \o t) = Flatten(s) \o Flatten(t)
<1>1. PICK f : FlatRounds(S, s, f) /\ Flatten(s) = f[Len(s)]
  BY Zenon, FlatLemma
<1>2. PICK g : FlatRounds(S, t, g) /\ Flatten(t) = g[Len(t)]
  BY Zenon, FlatLemma
<1> DEFINE n == Len(s)
           m == Len(t)
           st == s \o t
           h == [i \in 0..(n + m) |-> IF i <= n THEN f[i] ELSE f[n] \o g[i - n]]
<1>3. n \in Nat /\ m \in Nat
  OBVIOUS
<1>4. /\ st \in Seq(Seq(S)) /\ Len(st) = n + m
      /\ \A i \in 1..(n + m) : st[i] = IF i <= n THEN s[i] ELSE t[i - n]
  BY ConcatProperties
<1>5. /\ f \in [0..n -> Seq(S)] /\ f[0] = <<>> /\ \A i \in 1..n : f[i] = f[i - 1] \o s[i]
      /\ g \in [0..m -> Seq(S)] /\ g[0] = <<>> /\ \A i \in 1..m : g[i] = g[i - 1] \o t[i]
  BY Zenon, <1>1, <1>2 DEF FlatRounds
<1>6. \A j \in 1..m : t[j] \in Seq(S)
  OBVIOUS
<1> HIDE DEF n, m, st
<1>7. f[n] \in Seq(S)
  <2>1. n \in 0..n
    BY <1>3
  <2> QED BY Zenon, <1>5, <2>1
<1>8. ASSUME NEW i \in 0..(n + m), ~(i <= n) PROVE i - n \in 1..m /\ i - n \in 0..m /\ (i - n) - 1 \in 0..m
  BY <1>3, <1>8
<1>9. ASSUME NEW i \in 0..(n + m) PROVE h[i] \in Seq(S)
  <2>1. CASE i <= n
    <3>1. i \in 0..n
      BY <1>3, <2>1
    <3> QED BY Zenon, <1>5, <2>1, <3>1
  <2>2. CASE ~(i <= n)
    <3>1. g[i - n] \in Seq(S)
      BY Zenon, <1>5, <1>8, <2>2
    <3>2. f[n] \o g[i - n] \in Seq(S)
      BY ZenonT(30), <1>7, <3>1, ConcatProperties
    <3> QED BY Zenon, <2>2, <3>2
  <2> QED BY <2>1, <2>2
<1>10. ASSUME NEW i \in 1..(n + m) PROVE h[i] = h[i - 1] \o st[i]
  <2>0. i \in 0..(n + m) /\ i - 1 \in 0..(n + m)
    BY <1>3
  <2>1. CASE i <= n
    <3>1. i \in 1..n /\ i - 1 <= n
      BY <1>3, <2>1
    <3>2. h[i] = f[i] /\ h[i - 1] = f[i - 1]
      BY Zenon, <2>0, <2>1, <3>1
    <3> QED BY Zenon, <1>4, <1>5, <2>1, <3>1, <3>2
  <2>2. CASE ~(i <= n)
    <3>1. i - n \in 1..m /\ (i - n) - 1 = (i - 1) - n /\ (i - n) - 1 \in 0..m
      BY <1>3, <2>2
    <3>2. h[i] = f[n] \o (g[(i - n) - 1] \o t[i - n])
      BY Zenon, <1>5, <2>0, <2>2, <3>1
    <3>3. g[(i - n) - 1] \in Seq(S) /\ t[i - n] \in Seq(S)
      BY Zenon, <1>5, <1>6, <3>1
    <3>4. h[i] = (f[n] \o g[(i - n) - 1]) \o t[i - n]
      <4> HIDE DEF h
      <4>1. Associate(f[n], g[(i - n) - 1], t[i - n])
        BY ZenonT(30), <1>7, <3>3, AssociateLemma
      <4> QED BY Zenon, <3>2, <4>1 DEF Associate
    <3>5. st[i] = t[i - n]
      BY Zenon, <1>4, <2>2
    <3>6. h[i - 1] = f[n] \o g[(i - n) - 1]
      <4>1. CASE i - 1 <= n
        <5>1. i - 1 = n /\ (i - n) - 1 = 0
          BY <1>3, <2>2, <4>1
        <5>2. f[n] \o <<>> = f[n]
          BY Zenon, <1>7, ConcatEmptySeq
        <5>3. h[i - 1] = f[i - 1]
          BY Zenon, <2>0, <4>1
        <5> HIDE DEF h
        <5> QED BY Zenon, <1>5, <5>1, <5>2, <5>3
      <4>2. CASE ~(i - 1 <= n)
        BY Zenon, <2>0, <3>1, <4>2
      <4> QED BY Zenon, <4>1, <4>2
    <3> HIDE DEF h
    <3> QED BY Zenon, <3>4, <3>5, <3>6
  <2> QED BY Zenon, <2>1, <2>2
<1>11. h[0] = <<>>
  <2>1. 0 \in 0..(n + m) /\ 0 <= n
    BY <1>3
  <2> QED BY Zenon, <1>5, <2>1
<1>12. FlatRounds(S, st, h)
  <2>1. h \in [0..(n + m) -> Seq(S)]
    <3>1. \A i \in 0..(n + m) : (IF i <= n THEN f[i] ELSE f[n] \o g[i - n]) \in Seq(S)
      BY Zenon, <1>9
    <3> QED BY Zenon, <3>1
  <2> HIDE DEF h
  <2> QED BY Zenon, <1>4, <1>10, <1>11, <2>1 DEF FlatRounds
<1>13. Flatten(st) = h[n + m]
  <2> HIDE DEF h
  <2> QED BY ZenonT(30), <1>4, <1>12, FlatIs
<1>14. h[n + m] = f[n] \o g[m]
  <2>1. n + m \in 0..(n + m) /\ (n + m) - n = m
    BY <1>3
  <2>2. CASE n + m <= n
    <3>1. m = 0 /\ n + m = n
      BY <1>3, <2>2
    <3>2. f[n] \o <<>> = f[n]
      BY Zenon, <1>7, ConcatEmptySeq
    <3>3. h[n + m] = f[n + m]
      BY Zenon, <2>1, <2>2
    <3> HIDE DEF h
    <3> QED BY Zenon, <1>5, <3>1, <3>2, <3>3
  <2>3. CASE ~(n + m <= n)
    BY Zenon, <2>1, <2>3
  <2> QED BY Zenon, <2>2, <2>3
<1> HIDE DEF h
<1> QED BY Zenon, <1>1, <1>2, <1>13, <1>14 DEF n, m, st

\* x is an element of one of the sequences
In(x, ss) == \E i \in 1..Len(ss) : \E j \in 1..Len(ss[i]) : x = ss[i][j]

\* Nothing else is in what is flattened.
LEMMA FlatMember ==
  ASSUME NEW S, NEW ss \in Seq(Seq(S)), NEW k \in 1..Len(Flatten(ss))
  PROVE  In(Flatten(ss)[k], ss)
<1>1. PICK h : FlatRounds(S, ss, h) /\ Flatten(ss) = h[Len(ss)]
  BY Zenon, FlatLemma
<1> DEFINE n == Len(ss)
           T == {i \in 0..n : \A j \in 1..Len(h[i]) : In(h[i][j], ss)}
<1>2. n \in Nat /\ \A i \in 1..n : ss[i] \in Seq(S)
  OBVIOUS
<1>3. h \in [0..n -> Seq(S)] /\ h[0] = <<>> /\ \A i \in 1..n : h[i] = h[i - 1] \o ss[i]
  BY Zenon, <1>1 DEF FlatRounds
<1> HIDE DEF n
<1>4. 0 \in T
  BY <1>2, <1>3
<1>5. ASSUME NEW i \in T, i \in 0..(n - 1) PROVE i + 1 \in T
  <2>1. i + 1 \in 1..n /\ i + 1 \in 0..n /\ (i + 1) - 1 = i /\ i \in 0..n
    BY <1>2, <1>5
  <2>2. h[i] \in Seq(S) /\ ss[i + 1] \in Seq(S) /\ h[i + 1] = h[i] \o ss[i + 1]
    BY Zenon, <1>2, <1>3, <2>1
  <2> DEFINE x == h[i]
             y == ss[i + 1]
             z == h[i + 1]
             a == Len(x)
             b == Len(y)
  <2>3. x \in Seq(S) /\ y \in Seq(S) /\ z = x \o y
    BY Zenon, <2>2
  <2> HIDE DEF x, y, z
  <2>4. /\ a \in Nat /\ b \in Nat /\ Len(z) = a + b
        /\ \A j \in 1..(a + b) : z[j] = IF j <= a THEN x[j] ELSE y[j - a]
    BY <2>3, ConcatProperties
  <2> HIDE DEF a, b
  <2>5. ASSUME NEW j \in 1..Len(z) PROVE In(z[j], ss)
    <3>0. j \in 1..(a + b)
      BY Zenon, <2>4
    <3>1. CASE j <= a
      <4>1. j \in 1..a
        BY <2>4, <3>0, <3>1
      <4>2. z[j] = x[j]
        BY Zenon, <2>4, <3>0, <3>1
      <4> QED BY Zenon, <1>5, <4>1, <4>2 DEF x, a
    <3>2. CASE ~(j <= a)
      <4>1. j - a \in 1..b
        BY <2>4, <3>0, <3>2
      <4>2. z[j] = y[j - a]
        BY Zenon, <2>4, <3>0, <3>2
      <4>3. \E l \in 1..b : z[j] = y[l]
        BY ZenonT(30), <4>1, <4>2
      <4> QED BY Zenon, <2>1, <4>3 DEF In, n, y, b
    <3> QED BY <3>1, <3>2
  <2> QED BY Zenon, <2>1, <2>5 DEF z
<1> HIDE DEF T
<1>6. \A i \in 0..n : i \in T
  BY Zenon, <1>2, <1>4, <1>5, InductionTo
<1>7. n \in 0..n
  BY <1>2
<1> QED BY Zenon, <1>1, <1>6, <1>7 DEF T, n

-----------------------------------------------------------------------------
(* The addresses of a command's descriptors.                               *)

Region == [addr : Nat, len : Nat]

\* the addresses from a on
Run(a, n) == [j \in 1..n |-> a + j - 1]

\* the addresses of each region
Runs(regions) == [i \in DOMAIN regions |-> Run(regions[i].addr, regions[i].len)]

\* A run is a sequence of addresses.
LEMMA RunType ==
  ASSUME NEW a \in Nat, NEW n \in Nat
  PROVE  Run(a, n) \in Seq(Nat) /\ Len(Run(a, n)) = n
<1>1. \A j \in 1..n : a + j - 1 \in Nat
  OBVIOUS
<1> DEFINE r == Run(a, n)
<1>2. r \in [1..n -> Nat]
  BY Zenon, <1>1 DEF Run
<1> HIDE DEF r
<1>3. r \in Seq(Nat) /\ Len(r) = n
  BY <1>2
<1> QED BY Zenon, <1>3 DEF r

\* Two runs, the second of which goes on where the first ends, are one.
LEMMA RunConcat ==
  ASSUME NEW a \in Nat, NEW n \in Nat, NEW m \in Nat
  PROVE  Run(a, n) \o Run(a + n, m) = Run(a, n + m)
<1> DEFINE r == Run(a, n)
           s == Run(a + n, m)
           t == Run(a, n + m)
<1>0. a + n \in Nat /\ n + m \in Nat
  OBVIOUS
<1>1. /\ r \in Seq(Nat) /\ Len(r) = n /\ s \in Seq(Nat) /\ Len(s) = m
      /\ t \in Seq(Nat) /\ Len(t) = n + m
  BY Zenon, <1>0, RunType
<1>2. /\ \A j \in 1..n : r[j] = a + j - 1
      /\ \A j \in 1..m : s[j] = (a + n) + j - 1
      /\ \A j \in 1..(n + m) : t[j] = a + j - 1
  BY Zenon DEF Run
<1> HIDE DEF r, s, t
<1> DEFINE u == r \o s
<1>3. /\ u \in Seq(Nat) /\ Len(u) = n + m
      /\ \A i \in 1..(n + m) : u[i] = IF i <= n THEN r[i] ELSE s[i - n]
  BY Zenon, <1>1, ConcatProperties
<1> HIDE DEF u
<1>4. ASSUME NEW j \in 1..(n + m) PROVE u[j] = t[j]
  <2>1. CASE j <= n
    <3>1. j \in 1..n
      BY <2>1
    <3> QED BY <1>2, <1>3, <2>1, <3>1
  <2>2. CASE ~(j <= n)
    <3>1. j - n \in 1..m /\ (a + n) + (j - n) - 1 = a + j - 1
      BY <2>2
    <3> QED BY Zenon, <1>2, <1>3, <2>2, <3>1
  <2> QED BY <2>1, <2>2
<1>5. u = t
  BY <1>1, <1>3, <1>4
<1> QED BY Zenon, <1>5 DEF r, s, t, u

\* Addresses() flattens the runs.
LEMMA RunsType ==
  ASSUME NEW A \in Seq(Region)
  PROVE  /\ Runs(A) \in Seq(Seq(Nat)) /\ Len(Runs(A)) = Len(A)
         /\ \A i \in 1..Len(A) : Runs(A)[i] = Run(A[i].addr, A[i].len)
         /\ Addresses(A) = Flatten(Runs(A)) /\ Addresses(A) \in Seq(Nat)
<1>1. DOMAIN A = 1..Len(A) /\ Len(A) \in Nat /\ \A i \in 1..Len(A) : A[i] \in Region
  OBVIOUS
<1>2. \A i \in 1..Len(A) : A[i].addr \in Nat /\ A[i].len \in Nat
  BY <1>1 DEF Region
<1>3. \A i \in 1..Len(A) : Run(A[i].addr, A[i].len) \in Seq(Nat)
  BY Zenon, <1>2, RunType
<1>4. Runs(A) \in [1..Len(A) -> Seq(Nat)]
  BY Zenon, <1>1, <1>3 DEF Runs
<1>5. Runs(A) \in Seq(Seq(Nat)) /\ Len(Runs(A)) = Len(A)
  <2> DEFINE r == Runs(A)
  <2>1. r \in [1..Len(A) -> Seq(Nat)]
    BY Zenon, <1>4
  <2> HIDE DEF r
  <2>2. r \in Seq(Seq(Nat)) /\ Len(r) = Len(A)
    BY <1>1, <2>1
  <2> QED BY Zenon, <2>2 DEF r
<1>6. \A i \in 1..Len(A) : Runs(A)[i] = Run(A[i].addr, A[i].len)
  BY Zenon, <1>1 DEF Runs
<1>7. Addresses(A) = Flatten(Runs(A))
  BY Zenon DEF Addresses, Runs, Run
<1>8. Flatten(Runs(A)) \in Seq(Nat)
  BY Zenon, <1>5, FlatType
<1> QED BY Zenon, <1>5, <1>6, <1>7, <1>8

\* The addresses of two lists of regions, one after the other.
LEMMA AddrConcat ==
  ASSUME NEW A \in Seq(Region), NEW B \in Seq(Region)
  PROVE  Addresses(A \o B) = Addresses(A) \o Addresses(B)
<1> DEFINE C == A \o B
           n == Len(A)
           m == Len(B)
<1>1. /\ C \in Seq(Region) /\ Len(C) = n + m /\ n \in Nat /\ m \in Nat
      /\ \A i \in 1..(n + m) : C[i] = IF i <= n THEN A[i] ELSE B[i - n]
  BY ConcatProperties
<1>2. /\ Runs(A) \in Seq(Seq(Nat)) /\ Len(Runs(A)) = n
      /\ \A i \in 1..n : Runs(A)[i] = Run(A[i].addr, A[i].len)
      /\ Addresses(A) = Flatten(Runs(A))
  BY Zenon, RunsType
<1>3. /\ Runs(B) \in Seq(Seq(Nat)) /\ Len(Runs(B)) = m
      /\ \A i \in 1..m : Runs(B)[i] = Run(B[i].addr, B[i].len)
      /\ Addresses(B) = Flatten(Runs(B))
  BY Zenon, RunsType
<1> HIDE DEF C, n, m
<1>4. /\ Runs(C) \in Seq(Seq(Nat)) /\ Len(Runs(C)) = n + m
      /\ \A i \in 1..(n + m) : Runs(C)[i] = Run(C[i].addr, C[i].len)
      /\ Addresses(C) = Flatten(Runs(C))
  <2>1. /\ Runs(C) \in Seq(Seq(Nat)) /\ Len(Runs(C)) = Len(C)
        /\ \A i \in 1..Len(C) : Runs(C)[i] = Run(C[i].addr, C[i].len)
        /\ Addresses(C) = Flatten(Runs(C))
    BY Zenon, <1>1, RunsType
  <2> QED BY Zenon, <1>1, <2>1
<1> DEFINE a == Runs(A)
           b == Runs(B)
           c == Runs(C)
<1>5. ASSUME NEW i \in 1..(n + m) PROVE c[i] = IF i <= n THEN a[i] ELSE b[i - n]
  <2>1. CASE i <= n
    <3>1. i \in 1..n
      BY <1>1, <2>1
    <3> QED BY Zenon, <1>1, <1>2, <1>4, <2>1, <3>1
  <2>2. CASE ~(i <= n)
    <3>1. i - n \in 1..m
      BY <1>1, <2>2
    <3> QED BY Zenon, <1>1, <1>3, <1>4, <2>2, <3>1
  <2> QED BY <2>1, <2>2
<1>6. a \in Seq(Seq(Nat)) /\ Len(a) = n /\ b \in Seq(Seq(Nat)) /\ Len(b) = m /\ c \in Seq(Seq(Nat)) /\ Len(c) = n + m
  BY Zenon, <1>2, <1>3, <1>4
<1> HIDE DEF a, b, c
<1>7. c = a \o b
  <2> DEFINE d == a \o b
  <2>1. d \in Seq(Seq(Nat)) /\ Len(d) = n + m /\ \A i \in 1..(n + m) : d[i] = IF i <= n THEN a[i] ELSE b[i - n]
    BY Zenon, <1>6, ConcatProperties
  <2> HIDE DEF d
  <2>2. \A i \in 1..(n + m) : c[i] = d[i]
    BY Zenon, <1>5, <2>1
  <2>3. c \in Seq(Seq(Nat)) /\ Len(c) = n + m /\ d \in Seq(Seq(Nat)) /\ Len(d) = n + m
    BY Zenon, <1>6, <2>1
  <2>4. c = d
    BY <2>2, <2>3
  <2> QED BY Zenon, <2>4 DEF d
<1>8. Flatten(a \o b) = Flatten(a) \o Flatten(b)
  BY Zenon, <1>6, FlatConcat
<1> QED BY Zenon, <1>2, <1>3, <1>4, <1>7, <1>8 DEF a, b, c, C

\* What is left over by a division.
LEMMA ModIs ==
  ASSUME NEW x \in Nat, NEW c \in Nat \ {0}, NEW k \in Nat, NEW r \in Nat, x = k * c + r, r < c
  PROVE  x % c = r
BY SMTT(30)

\* What ahci_build_prdt() makes of a vector.
Width(l, i) == IF i * REGION_MAX <= l THEN REGION_MAX ELSE l % REGION_MAX
Count(l) == (l + REGION_MAX - 1) \div REGION_MAX
\* how much of it the first i descriptors cover
Covered(l, i) == IF i < Count(l) THEN i * REGION_MAX ELSE l

\* The lengths of the descriptors add up.
LEMMA CoveredStep ==
  ASSUME NEW l \in Nat \ {0}
  PROVE  /\ Count(l) \in Nat /\ Covered(l, 0) = 0 /\ Covered(l, Count(l)) = l
         /\ \A i \in 0..Count(l) : Covered(l, i) \in Nat
         /\ \A i \in 1..Count(l) : /\ Width(l, i) \in Nat
                                   /\ Covered(l, i - 1) = (i - 1) * REGION_MAX
                                   /\ Covered(l, i) = Covered(l, i - 1) + Width(l, i)
<1> DEFINE M == REGION_MAX
           n == Count(l)
<1>1. M \in Nat /\ M > 0
  BY DiskAssumption
<1> HIDE DEF M
<1>2. n \in Nat /\ n * M <= l + M - 1 /\ l + M - 1 < n * M + M
  <2>1. l + M - 1 \in Nat /\ M \in Nat \ {0}
    BY <1>1
  <2> DEFINE q == (l + M - 1) \div M
  <2>2. q \in Nat /\ q * M <= l + M - 1 /\ l + M - 1 < q * M + M
    BY <2>1, DivLemma
  <2>3. n = q
    BY Zenon DEF Count, M
  <2> QED BY Zenon, <2>2, <2>3
<1> HIDE DEF n
<1>3. n >= 1
  <2>1. n = 0 => n * M = 0
    BY <1>1
  <2> QED BY <1>1, <1>2, <2>1
<1>4. n - 1 \in Nat /\ (n - 1) * M \in Nat /\ n * M = (n - 1) * M + M
  BY <1>1, <1>2, <1>3
<1>5. (n - 1) * M < l /\ l <= n * M
  BY <1>1, <1>2, <1>4
<1>6. \A i : Covered(l, i) = IF i < n THEN i * M ELSE l
  BY Zenon DEF Covered, n, M
<1>7. \A i : Width(l, i) = IF i * M <= l THEN M ELSE l % M
  BY Zenon DEF Width, M
<1>8. ASSUME NEW i \in 0..n PROVE Covered(l, i) \in Nat
  <2>1. i * M \in Nat
    BY <1>1, <1>2
  <2> QED BY <1>6, <2>1
<1>9. ASSUME NEW i \in 1..n
      PROVE  Width(l, i) \in Nat /\ Covered(l, i - 1) = (i - 1) * M /\ Covered(l, i) = Covered(l, i - 1) + Width(l, i)
  <2>1. i \in Nat /\ i - 1 \in Nat /\ i - 1 < n /\ (i - 1) * M \in Nat /\ i * M = (i - 1) * M + M
    BY <1>1, <1>2
  <2>2. Covered(l, i - 1) = (i - 1) * M
    BY Zenon, <1>6, <2>1
  <2>3. CASE i < n
    <3>1. i <= n - 1
      BY <1>2, <2>1, <2>3
    <3>2. i * M <= (n - 1) * M
      BY <1>1, <1>4, <2>1, <3>1, MulOrder
    <3>3. i * M <= l
      BY <1>1, <1>4, <1>5, <2>1, <3>2
    <3>4. Width(l, i) = M
      BY Zenon, <1>7, <3>3
    <3>5. Covered(l, i) = i * M
      BY Zenon, <1>6, <2>3
    <3> QED BY <1>1, <2>1, <2>2, <3>4, <3>5
  <2>4. CASE ~(i < n)
    <3>1. i = n
      BY <1>2, <2>4
    <3>2. Covered(l, i) = l
      BY Zenon, <1>6, <2>4
    <3>3. CASE i * M <= l
      <4>1. Width(l, i) = M
        BY Zenon, <1>7, <3>3
      <4>2. l = (i - 1) * M + M
        BY <1>1, <1>4, <1>5, <2>1, <3>1, <3>3
      <4> QED BY <1>1, <2>2, <3>2, <4>1, <4>2
    <3>4. CASE ~(i * M <= l)
      <4>1. Width(l, i) = l % M
        BY Zenon, <1>7, <3>4
      <4> DEFINE k == n - 1
      <4>2. k \in Nat /\ M \in Nat \ {0} /\ l \in Nat /\ k * M <= l /\ l < k * M + M
        BY <1>1, <1>4, <1>5, <2>1, <3>1, <3>4
      <4> HIDE DEF k
      <4> DEFINE r == l - k * M
      <4>3. l % M = r
        <5>1. r \in Nat /\ l = k * M + r /\ r < M
          <6>1. k * M \in Nat
            BY Zenon, <1>4 DEF k
          <6> QED BY SMTT(30), <4>2, <6>1
        <5> HIDE DEF r
        <5> QED BY Zenon, <4>2, <5>1, ModIs
      <4>4. k * M = (i - 1) * M
        BY Zenon, <3>1 DEF k
      <4>5. l - k * M \in Nat /\ l = k * M + (l - k * M)
        <5>1. k * M \in Nat
          BY Zenon, <1>4 DEF k
        <5> QED BY <4>2, <5>1
      <4> QED BY ZenonT(30), <2>2, <3>2, <4>1, <4>3, <4>4, <4>5
    <3> QED BY <3>3, <3>4
  <2> QED BY Zenon, <2>2, <2>3, <2>4
<1>10. Covered(l, 0) = 0
  <2>1. 0 < n /\ 0 * M = 0
    BY <1>1, <1>2, <1>3
  <2> QED BY Zenon, <1>6, <2>1
<1>11. Covered(l, n) = l
  <2>1. ~(n < n)
    BY <1>2
  <2> QED BY Zenon, <1>6, <2>1
<1> QED BY Zenon, <1>2, <1>8, <1>9, <1>10, <1>11 DEF n, M

Vector == [addr : Nat, length : Nat \ {0}]

\* The descriptors of a vector cover it and nothing else.
LEMMA RegionsAddr ==
  ASSUME NEW v \in Vector
  PROVE  Regions(v) \in Seq(Region) /\ Addresses(Regions(v)) = Run(v.addr, v.length)
<1> DEFINE a == v.addr
           l == v.length
           n == Count(l)
           A == Regions(v)
           C(i) == Covered(l, i)
           W(i) == Width(l, i)
           h == [i \in 0..n |-> Run(a, C(i))]
<1>1. a \in Nat /\ l \in Nat \ {0} /\ REGION_MAX \in Nat
  BY DiskAssumption DEF Vector
<1>2. A = [i \in 1..n |-> [addr |-> a + (i - 1) * REGION_MAX, len |-> W(i)]]
  BY Zenon DEF Regions, Count, Width
<1> HIDE DEF a, l
<1>3. /\ n \in Nat /\ C(0) = 0 /\ C(n) = l /\ \A i \in 0..n : C(i) \in Nat
      /\ \A i \in 1..n : W(i) \in Nat /\ C(i - 1) = (i - 1) * REGION_MAX /\ C(i) = C(i - 1) + W(i)
  BY Zenon, <1>1, CoveredStep
<1> HIDE DEF n, C, W, A
<1>4. ASSUME NEW i \in 1..n
      PROVE  /\ A[i] \in Region /\ A[i].addr = a + C(i - 1) /\ A[i].len = W(i)
             /\ i - 1 \in 0..n /\ i \in 0..n
  <2>1. A[i] = [addr |-> a + (i - 1) * REGION_MAX, len |-> W(i)]
    BY Zenon, <1>2
  <2>2. i - 1 \in 0..n /\ i \in 0..n
    BY <1>3
  <2>3. C(i - 1) \in Nat /\ C(i - 1) = (i - 1) * REGION_MAX /\ W(i) \in Nat
    BY Zenon, <1>3, <2>2
  <2>4. A[i] = [addr |-> a + C(i - 1), len |-> W(i)]
    BY Zenon, <2>1, <2>3
  <2>5. a + C(i - 1) \in Nat
    BY <1>1, <2>3
  <2> DEFINE x == a + C(i - 1)
             w == W(i)
             r == A[i]
  <2>6. x \in Nat /\ w \in Nat /\ r = [addr |-> x, len |-> w]
    BY Zenon, <2>3, <2>4, <2>5
  <2> HIDE DEF x, w, r
  <2>7. r \in Region /\ r.addr = x /\ r.len = w
    BY SMTT(30), <2>6 DEF Region
  <2> QED BY ZenonT(30), <2>2, <2>7 DEF x, w, r
<1>5. A \in Seq(Region) /\ Len(A) = n
  <2>1. \A i \in 1..n : A[i] \in Region
    BY Zenon, <1>4
  <2>2. A \in [1..n -> Region]
    <3>1. DOMAIN A = 1..n /\ A = [i \in 1..n |-> A[i]]
      BY Zenon, <1>2
    <3> QED BY Zenon, <2>1, <3>1
  <2> QED BY <1>3, <2>2
<1>6. /\ Runs(A) \in Seq(Seq(Nat)) /\ Len(Runs(A)) = n
      /\ \A i \in 1..n : Runs(A)[i] = Run(A[i].addr, A[i].len)
      /\ Addresses(A) = Flatten(Runs(A))
  <2>1. /\ Runs(A) \in Seq(Seq(Nat)) /\ Len(Runs(A)) = Len(A)
        /\ \A i \in 1..Len(A) : Runs(A)[i] = Run(A[i].addr, A[i].len)
        /\ Addresses(A) = Flatten(Runs(A))
    BY Zenon, <1>5, RunsType
  <2> QED BY Zenon, <1>5, <2>1
<1>7. FlatRounds(Nat, Runs(A), h)
  <2>1. \A i \in 0..n : Run(a, C(i)) \in Seq(Nat)
    BY Zenon, <1>1, <1>3, RunType
  <2>2. h \in [0..n -> Seq(Nat)]
    BY Zenon, <2>1
  <2>3. h[0] = <<>>
    <3>1. 0 \in 0..n
      BY <1>3
    <3>2. Run(a, 0) = <<>>
      BY DEF Run
    <3> QED BY Zenon, <1>3, <3>1, <3>2
  <2>4. ASSUME NEW i \in 1..n PROVE h[i] = h[i - 1] \o Runs(A)[i]
    <3>1. C(i - 1) \in Nat /\ W(i) \in Nat /\ C(i) = C(i - 1) + W(i)
      BY Zenon, <1>3, <1>4
    <3>2. Runs(A)[i] = Run(a + C(i - 1), W(i))
      BY Zenon, <1>4, <1>6
    <3>3. Run(a, C(i - 1)) \o Run(a + C(i - 1), W(i)) = Run(a, C(i - 1) + W(i))
      BY Zenon, <1>1, <3>1, RunConcat
    <3>4. h[i] = Run(a, C(i)) /\ h[i - 1] = Run(a, C(i - 1))
      BY Zenon, <1>4
    <3> HIDE DEF h
    <3> QED BY Zenon, <3>1, <3>2, <3>3, <3>4
  <2> HIDE DEF h
  <2> QED BY Zenon, <1>6, <2>2, <2>3, <2>4 DEF FlatRounds
<1>8. h[n] = Run(a, l)
  <2>1. n \in 0..n
    BY <1>3
  <2> QED BY Zenon, <1>3, <2>1
<1> HIDE DEF h
<1>9. Flatten(Runs(A)) = h[n]
  BY Zenon, <1>6, <1>7, FlatIs
<1> QED BY Zenon, <1>5, <1>6, <1>8, <1>9 DEF A, a, l

Parts(iovec) == [i \in DOMAIN iovec |-> Regions(iovec[i])]
Whole(iovec) == [i \in DOMAIN iovec |-> [addr |-> iovec[i].addr, len |-> iovec[i].length]]

\* The command's table names the addresses of the caller's vectors, in their
\* order, however ahci_build_prdt() has cut them.
LEMMA PrdtAddr ==
  ASSUME NEW iovec \in Seq(Vector)
  PROVE  /\ Addresses(Build_prdt(iovec)) = Buffers(iovec)
         /\ Runs(Whole(iovec)) \in Seq(Seq(Nat)) /\ Len(Runs(Whole(iovec))) = Len(iovec)
         /\ \A i \in 1..Len(iovec) : Runs(Whole(iovec))[i] = Run(iovec[i].addr, iovec[i].length)
         /\ Buffers(iovec) = Flatten(Runs(Whole(iovec))) /\ Buffers(iovec) \in Seq(Nat)
<1> DEFINE n == Len(iovec)
           R == Parts(iovec)
           B == Whole(iovec)
<1>1. n \in Nat /\ DOMAIN iovec = 1..n /\ \A i \in 1..n : iovec[i] \in Vector
  OBVIOUS
<1> HIDE DEF n
<1>2. \A i \in 1..n : Regions(iovec[i]) \in Seq(Region)
                   /\ Addresses(Regions(iovec[i])) = Run(iovec[i].addr, iovec[i].length)
  BY Zenon, <1>1, RegionsAddr
<1>3. \A i \in 1..n : R[i] = Regions(iovec[i])
  BY Zenon, <1>1 DEF Parts
<1>4. R \in Seq(Seq(Region)) /\ Len(R) = n
  <2>1. R \in [1..n -> Seq(Region)]
    BY Zenon, <1>1, <1>2 DEF Parts
  <2> HIDE DEF R
  <2> QED BY <1>1, <2>1
<1>5. \A i \in 1..n : B[i].addr = iovec[i].addr /\ B[i].len = iovec[i].length /\ B[i] \in Region
  <2>1. ASSUME NEW i \in 1..n
        PROVE  B[i].addr = iovec[i].addr /\ B[i].len = iovec[i].length /\ B[i] \in Region
    <3> DEFINE v == iovec[i]
               r == B[i]
    <3>1. v \in Vector
      BY Zenon, <1>1
    <3>2. r = [addr |-> v.addr, len |-> v.length]
      BY Zenon, <1>1 DEF Whole
    <3> HIDE DEF v, r
    <3>3. r.addr = v.addr /\ r.len = v.length /\ r \in Region
      BY <3>1, <3>2 DEF Vector, Region
    <3> QED BY Zenon, <3>3 DEF v, r
  <2> QED BY Zenon, <2>1
<1>6. B \in Seq(Region) /\ Len(B) = n
  <2>1. B = [i \in 1..n |-> B[i]]
    BY Zenon, <1>1 DEF Whole
  <2> HIDE DEF B
  <2>2. B \in [1..n -> Region]
    BY Zenon, <1>5, <2>1
  <2> QED BY <1>1, <2>2
<1>7. Build_prdt(iovec) = Flatten(R) /\ Buffers(iovec) = Addresses(B)
  BY Zenon DEF Build_prdt, Parts, Buffers, Whole
<1> HIDE DEF R, B
<1>8. /\ Runs(B) \in Seq(Seq(Nat)) /\ Len(Runs(B)) = n
      /\ \A i \in 1..n : Runs(B)[i] = Run(B[i].addr, B[i].len)
      /\ Addresses(B) = Flatten(Runs(B)) /\ Addresses(B) \in Seq(Nat)
  <2>1. /\ Runs(B) \in Seq(Seq(Nat)) /\ Len(Runs(B)) = Len(B)
        /\ \A i \in 1..Len(B) : Runs(B)[i] = Run(B[i].addr, B[i].len)
        /\ Addresses(B) = Flatten(Runs(B)) /\ Addresses(B) \in Seq(Nat)
    BY Zenon, <1>6, RunsType
  <2> QED BY Zenon, <1>6, <2>1
<1>9. \A i \in 1..n : Runs(B)[i] = Run(iovec[i].addr, iovec[i].length)
  BY Zenon, <1>5, <1>8
<1>10. PICK g : FlatRounds(Region, R, g) /\ Flatten(R) = g[Len(R)]
  BY Zenon, <1>4, FlatLemma
<1>11. g \in [0..n -> Seq(Region)] /\ g[0] = <<>> /\ \A i \in 1..n : g[i] = g[i - 1] \o R[i]
  BY Zenon, <1>4, <1>10 DEF FlatRounds
<1> DEFINE h == [i \in 0..n |-> Addresses(g[i])]
<1>12. FlatRounds(Nat, Runs(B), h)
  <2>1. \A i \in 0..n : Addresses(g[i]) \in Seq(Nat)
    BY Zenon, <1>11, RunsType
  <2>2. h \in [0..n -> Seq(Nat)]
    BY Zenon, <2>1
  <2>3. h[0] = <<>>
    <3>1. 0 \in 0..n
      BY <1>1
    <3>2. Addresses(<<>>) = <<>>
      <4> DEFINE e == [i \in DOMAIN <<>> |-> [j \in 1..(<<>>)[i].len |-> (<<>>)[i].addr + j - 1]]
      <4>1. e = <<>>
        OBVIOUS
      <4> HIDE DEF e
      <4>2. Flatten(e) = e
        <5>1. Len(e) = 0 /\ e \in Seq(Seq(Nat))
          BY <4>1
        <5>2. PICK f : FlatRounds(Nat, e, f) /\ Flatten(e) = f[Len(e)]
          BY Zenon, <5>1, FlatLemma
        <5> QED BY Zenon, <4>1, <5>1, <5>2 DEF FlatRounds
      <4>3. Addresses(<<>>) = Flatten(e)
        BY Zenon DEF Addresses, e
      <4> QED BY Zenon, <4>1, <4>2, <4>3
    <3> QED BY Zenon, <1>11, <3>1, <3>2
  <2>4. ASSUME NEW i \in 1..n PROVE h[i] = h[i - 1] \o Runs(B)[i]
    <3>1. i - 1 \in 0..n /\ i \in 0..n
      BY <1>1
    <3>2. g[i - 1] \in Seq(Region) /\ R[i] \in Seq(Region) /\ g[i] = g[i - 1] \o R[i]
      BY Zenon, <1>2, <1>3, <1>11, <3>1
    <3>3. Addresses(g[i - 1] \o R[i]) = Addresses(g[i - 1]) \o Addresses(R[i])
      BY Zenon, <3>2, AddrConcat
    <3>4. Addresses(R[i]) = Runs(B)[i]
      BY Zenon, <1>2, <1>3, <1>9
    <3>5. h[i] = Addresses(g[i]) /\ h[i - 1] = Addresses(g[i - 1])
      BY Zenon, <3>1
    <3> HIDE DEF h
    <3> QED BY Zenon, <3>2, <3>3, <3>4, <3>5
  <2> HIDE DEF h
  <2> QED BY Zenon, <1>8, <2>2, <2>3, <2>4 DEF FlatRounds
<1>13. h[n] = Addresses(Flatten(R))
  <2>1. n \in 0..n
    BY <1>1
  <2> QED BY Zenon, <1>4, <1>10, <2>1
<1> HIDE DEF h
<1>14. Flatten(Runs(B)) = h[n]
  BY Zenon, <1>8, <1>12, FlatIs
<1> QED BY Zenon, <1>7, <1>8, <1>9, <1>13, <1>14 DEF B, n

-----------------------------------------------------------------------------
(* The registry.                                                           *)

\* list holds the first entries of D, in the order of Before
Listed(D, list) ==
  /\ D \subseteq Entries
  /\ \A d \in D : \A c \in Entries : Before(c, d) => c \in D
  /\ Len(list) = IF Cardinality(D) <= BLOCK_DEV_MAX THEN Cardinality(D) ELSE BLOCK_DEV_MAX
  /\ \A d \in D : Rank(d) < BLOCK_DEV_MAX => list[Rank(d) + 1] = Device_of(d)

Earlier(d) == {c \in Entries : Before(c, d)}

\* A disk or a partition is a pair of numbers.
LEMMA EntryType ==
  ASSUME NEW d \in Entries
  PROVE  /\ d = <<d[1], d[2]>> /\ d[1] \in Sata /\ d[1] \in Nat /\ d[2] \in 0..MBR_ENTRY_COUNT /\ d[2] \in Nat
         /\ d[2] = 0 \/ Mbr[d[1]][d[2]].sys_id # 0
<1>1. d \in Sata \X (0..MBR_ENTRY_COUNT) /\ (d[2] = 0 \/ Mbr[d[1]][d[2]].sys_id # 0)
  BY Zenon DEF Entries
<1>2. d = <<d[1], d[2]>> /\ d[1] \in Sata /\ d[2] \in 0..MBR_ENTRY_COUNT
  BY <1>1
<1>3. d[1] \in 0..(NPorts - 1) /\ NPorts \in Nat /\ MBR_ENTRY_COUNT \in Nat
  BY Zenon, <1>2, DiskAssumption
<1>4. d[1] \in Nat /\ d[2] \in Nat
  BY <1>2, <1>3
<1> QED BY Zenon, <1>1, <1>2, <1>4

\* Before orders what there is to register.
LEMMA BeforeLemma ==
  ASSUME NEW c \in Entries, NEW d \in Entries
  PROVE  ~Before(c, c) /\ (c = d \/ Before(c, d) \/ Before(d, c))
<1>1. c = <<c[1], c[2]>> /\ c[1] \in Nat /\ c[2] \in Nat
  BY Zenon, EntryType
<1>2. d = <<d[1], d[2]>> /\ d[1] \in Nat /\ d[2] \in Nat
  BY Zenon, EntryType
<1>3. c[1] = d[1] /\ c[2] = d[2] => c = d
  BY Zenon, <1>1, <1>2
<1> QED BY <1>1, <1>2, <1>3 DEF Before

\* There are finitely many.
LEMMA EntriesFinite ==
  /\ IsFiniteSet(Entries)
  /\ \A D \in SUBSET Entries : IsFiniteSet(D) /\ Cardinality(D) \in Nat
  /\ \A d : Earlier(d) \in SUBSET Entries /\ Rank(d) = Cardinality(Earlier(d)) /\ Rank(d) \in Nat
<1>1. Sata \in SUBSET (0..(NPorts - 1)) /\ 0 \in Int /\ NPorts - 1 \in Int /\ MBR_ENTRY_COUNT \in Int
  BY DiskAssumption
<1>2. IsFiniteSet(0..(NPorts - 1)) /\ IsFiniteSet(0..MBR_ENTRY_COUNT)
  BY Zenon, <1>1, FS_Interval
<1>3. IsFiniteSet(Sata)
  BY Zenon, <1>1, <1>2, FS_Subset
<1>4. IsFiniteSet(Sata \X (0..MBR_ENTRY_COUNT))
  BY Zenon, <1>2, <1>3, FS_Product
<1>5. Entries \in SUBSET (Sata \X (0..MBR_ENTRY_COUNT))
  BY Zenon DEF Entries
<1>6. IsFiniteSet(Entries)
  BY Zenon, <1>4, <1>5, FS_Subset
<1>7. ASSUME NEW D \in SUBSET Entries PROVE IsFiniteSet(D) /\ Cardinality(D) \in Nat
  <2>1. IsFiniteSet(D)
    BY Zenon, <1>6, FS_Subset
  <2> QED BY Zenon, <2>1, FS_CardinalityType
<1>8. \A d : Earlier(d) \in SUBSET Entries /\ Rank(d) = Cardinality(Earlier(d))
  BY Zenon DEF Earlier, Rank
<1> QED BY Zenon, <1>6, <1>7, <1>8

\* What is listed ranks below the number of what is listed.
LEMMA RankBelow ==
  ASSUME NEW D \in SUBSET Entries, \A d \in D : \A c \in Entries : Before(c, d) => c \in D, NEW d \in D
  PROVE  Rank(d) < Cardinality(D)
<1>1. IsFiniteSet(D) /\ Cardinality(D) \in Nat /\ Rank(d) = Cardinality(Earlier(d)) /\ Rank(d) \in Nat
  BY Zenon, EntriesFinite
<1>2. d \in Entries
  BY Zenon
<1>3. Earlier(d) \in SUBSET (D \ {d})
  <2>1. ASSUME NEW c \in Earlier(d) PROVE c \in D /\ c # d
    <3>1. c \in Entries /\ Before(c, d)
      BY Zenon, <2>1 DEF Earlier
    <3> QED BY Zenon, <1>2, <3>1, BeforeLemma
  <2> QED BY Zenon, <2>1
<1>4. IsFiniteSet(D \ {d}) /\ Cardinality(D \ {d}) = Cardinality(D) - 1
  BY Zenon, <1>1, FS_RemoveElement
<1>5. Cardinality(Earlier(d)) <= Cardinality(D \ {d})
  BY Zenon, <1>3, <1>4, FS_Subset
<1>6. Rank(d) <= Cardinality(D) - 1
  BY Zenon, <1>1, <1>4, <1>5
<1> QED BY <1>1, <1>6

\* block_dev_register() of what comes next.
LEMMA ListedNext ==
  ASSUME NEW X, NEW D, NEW list \in Seq(X), Listed(D, list), NEW c \in Entries, Earlier(c) = D, Device_of(c) \in X
  PROVE  Listed(D \cup {c}, Register(list, Device_of(c)))
<1> DEFINE n == Cardinality(D)
           M == BLOCK_DEV_MAX
           E == D \cup {c}
           new == Register(list, Device_of(c))
<1>1. /\ D \in SUBSET Entries /\ \A d \in D : \A e \in Entries : Before(e, d) => e \in D
      /\ Len(list) = (IF n <= M THEN n ELSE M)
      /\ \A d \in D : Rank(d) < M => list[Rank(d) + 1] = Device_of(d)
  BY Zenon DEF Listed
<1>2. IsFiniteSet(D) /\ n \in Nat /\ Rank(c) = n /\ M \in Nat
  BY Zenon, <1>1, EntriesFinite, DiskAssumption
<1>3. c \notin D
  BY Zenon, BeforeLemma DEF Earlier
<1>4. Cardinality(E) = n + 1
  BY Zenon, <1>2, <1>3, FS_AddElement
<1>5. E \subseteq Entries /\ \A d \in E : \A e \in Entries : Before(e, d) => e \in E
  BY Zenon, <1>1 DEF Earlier
<1>6. \A d \in D : Rank(d) \in Nat /\ Rank(d) < n
  BY Zenon, <1>1, RankBelow, EntriesFinite
<1> HIDE DEF n, M
<1>7. CASE Len(list) >= M
  <2>1. n >= M
    BY <1>1, <1>2, <1>7
  <2>2. new = list
    BY Zenon, <1>7 DEF Register, M
  <2>3. Len(list) = IF n + 1 <= M THEN n + 1 ELSE M
    BY <1>1, <1>2, <2>1
  <2>4. \A d \in E : Rank(d) < M => list[Rank(d) + 1] = Device_of(d)
    <3>1. ~(Rank(c) < M)
      BY <1>2, <2>1
    <3> QED BY Zenon, <1>1, <3>1
  <2> HIDE DEF E, new
  <2> QED BY ZenonT(30), <1>4, <1>5, <2>2, <2>3, <2>4 DEF Listed, M, E, new
<1>8. CASE ~(Len(list) >= M)
  <2>1. n < M /\ Len(list) = n
    BY <1>1, <1>2, <1>8
  <2> DEFINE x == Device_of(c)
  <2>2. new = Append(list, x)
    BY Zenon, <1>8 DEF Register, M
  <2>3. x \in X
    OBVIOUS
  <2> HIDE DEF new, x
  <2>4. Len(new) = n + 1 /\ new[n + 1] = x /\ \A i \in 1..n : new[i] = list[i]
    BY <2>1, <2>2, <2>3, <1>2
  <2>5. Len(new) = IF n + 1 <= M THEN n + 1 ELSE M
    BY <1>2, <2>1, <2>4
  <2>6. ASSUME NEW d \in E, Rank(d) < M PROVE new[Rank(d) + 1] = Device_of(d)
    <3>1. CASE d = c
      BY Zenon, <1>2, <2>4, <3>1 DEF x
    <3>2. CASE d # c
      <4>1. d \in D
        BY Zenon, <3>2
      <4>2. Rank(d) + 1 \in 1..n
        <5>1. Rank(d) \in Nat /\ Rank(d) < n
          BY Zenon, <1>6, <4>1
        <5> QED BY <1>2, <5>1
      <4> QED BY ZenonT(30), <1>1, <2>4, <2>6, <4>1, <4>2
    <3> QED BY <3>1, <3>2
  <2> HIDE DEF E
  <2> QED BY Zenon, <1>4, <1>5, <2>5, <2>6 DEF Listed, M, E, new, x
<1> QED BY <1>7, <1>8

\* When the registry is full, nothing that follows is missed.
LEMMA ListedFull ==
  ASSUME NEW D, NEW list, Listed(D, list), Len(list) >= BLOCK_DEV_MAX,
         NEW E \in SUBSET Entries, D \subseteq E, \A d \in E : \A c \in Entries : Before(c, d) => c \in E
  PROVE  Listed(E, list)
<1> DEFINE n == Cardinality(D)
           m == Cardinality(E)
           M == BLOCK_DEV_MAX
<1>1. /\ D \in SUBSET Entries /\ \A d \in D : \A e \in Entries : Before(e, d) => e \in D
      /\ Len(list) = (IF n <= M THEN n ELSE M)
      /\ \A d \in D : Rank(d) < M => list[Rank(d) + 1] = Device_of(d)
  BY Zenon DEF Listed
<1>2. n \in Nat /\ m \in Nat /\ M \in Nat /\ IsFiniteSet(E)
  BY Zenon, <1>1, EntriesFinite, DiskAssumption
<1>3. n <= m
  BY Zenon, <1>2, FS_Subset
<1> HIDE DEF n, m
<1>4. Len(list) >= M
  BY Zenon
<1> HIDE DEF M
<1>5. n >= M /\ Len(list) = IF m <= M THEN m ELSE M
  BY <1>1, <1>2, <1>3, <1>4
<1>6. ASSUME NEW d \in E, d \notin D PROVE ~(Rank(d) < M)
  <2>1. D \in SUBSET Earlier(d)
    <3>1. ASSUME NEW c \in D PROVE c \in Entries /\ Before(c, d)
      BY Zenon, <1>1, <1>6, BeforeLemma
    <3> QED BY Zenon, <3>1 DEF Earlier
  <2>2. Rank(d) \in Nat /\ Rank(d) = Cardinality(Earlier(d)) /\ IsFiniteSet(Earlier(d))
    BY Zenon, EntriesFinite
  <2>3. n <= Rank(d)
    BY Zenon, <2>1, <2>2, FS_Subset DEF n
  <2> QED BY <1>2, <1>5, <2>2, <2>3
<1>7. \A d \in E : Rank(d) < M => list[Rank(d) + 1] = Device_of(d)
  BY Zenon, <1>1, <1>6
<1> QED BY Zenon, <1>5, <1>7 DEF Listed, m, M

Dev == [port : Sata, lba_start : Nat]

\* What is registered is a device.
LEMMA DeviceType ==
  ASSUME NEW d \in Entries
  PROVE  Device_of(d) \in Dev
<1>1. d[1] \in Sata /\ d[2] \in 0..MBR_ENTRY_COUNT /\ d[2] \in Nat
  BY Zenon, EntryType
<1> DEFINE l == IF d[2] = 0 THEN 0 ELSE Mbr[d[1]][d[2]].lba_start
<1>2. l \in Nat
  <2>1. CASE d[2] = 0
    BY <2>1
  <2>2. CASE d[2] # 0
    <3>1. d[2] \in 1..MBR_ENTRY_COUNT
      BY <1>1, <2>2, DiskAssumption
    <3>2. Mbr[d[1]] \in [1..MBR_ENTRY_COUNT -> [sys_id : Nat, lba_start : Nat]]
      BY Zenon, <1>1, DiskAssumption
    <3>3. Mbr[d[1]][d[2]] \in [sys_id : Nat, lba_start : Nat]
      BY Zenon, <3>1, <3>2
    <3>4. Mbr[d[1]][d[2]].lba_start \in Nat
      BY Zenon, <3>3
    <3> QED BY Zenon, <2>2, <3>4
  <2> QED BY <2>1, <2>2
<1>3. Device_of(d) = [port |-> d[1], lba_start |-> l]
  BY Zenon DEF Device_of
<1> HIDE DEF l
<1> QED BY SMTT(30), <1>1, <1>2, <1>3 DEF Dev

\* A list that a device is registered in.
LEMMA RegisterLemma ==
  ASSUME NEW list \in Seq(Dev), NEW x \in Dev
  PROVE  /\ Register(list, x) \in Seq(Dev) /\ Len(list) <= Len(Register(list, x))
         /\ \A k \in 1..Len(list) : Register(list, x)[k] = list[k]
         /\ Len(list) >= BLOCK_DEV_MAX => Register(list, x) = list
         /\ ~(Len(list) >= BLOCK_DEV_MAX) =>
              Len(Register(list, x)) = Len(list) + 1 /\ Register(list, x)[Len(list) + 1] = x
<1> DEFINE new == Register(list, x)
<1>1. CASE Len(list) >= BLOCK_DEV_MAX
  <2>1. new = list
    BY Zenon, <1>1 DEF Register
  <2>2. Len(list) <= Len(list)
    OBVIOUS
  <2> HIDE DEF new
  <2> QED BY Zenon, <1>1, <2>1, <2>2 DEF new
<1>2. CASE ~(Len(list) >= BLOCK_DEV_MAX)
  <2>1. new = Append(list, x)
    BY Zenon, <1>2 DEF Register
  <2> HIDE DEF new
  <2>2. /\ new \in Seq(Dev) /\ Len(list) <= Len(new) /\ Len(new) = Len(list) + 1 /\ new[Len(list) + 1] = x
        /\ \A k \in 1..Len(list) : new[k] = list[k]
    BY <2>1
  <2> QED BY Zenon, <1>2, <2>2 DEF new
<1> QED BY <1>1, <1>2

\* the disks of the ports below t, and with them the partitions of those
Disks(t) == {d \in Entries : d[2] = 0 /\ d[1] < t}
Below(t) == {d \in Entries : d[2] = 0 \/ d[1] < t}

\* the first e devices are disks in the order of their ports
Chain(list, e) ==
  /\ \A k \in 1..e : list[k].port \in Sata
  /\ \A k \in 1..e : \A p \in Sata : p < list[k].port <=> \E j \in 1..(k - 1) : list[j].port = p

\* all of them, unless the registry is full
Complete(list, e, t) ==
  Len(list) >= BLOCK_DEV_MAX \/ \A p \in Sata : p < t => \E j \in 1..e : list[j].port = p

Probing(list, n) ==
  /\ Listed(Disks(n), list)
  /\ Chain(list, Len(list)) /\ Complete(list, Len(list), n)
  /\ \A k \in 1..Len(list) : list[k].port < n

Scanning(list, n, e) ==
  /\ n \in 1..(e + 1) /\ e \in 0..Len(list)
  /\ Chain(list, e) /\ Complete(list, e, NPorts)
  /\ n <= e => Listed(Below(list[n].port), list)
  /\ n = e + 1 => Listed(Entries, list)

\* Nothing is registered before the first port.
LEMMA ProbingInit == Probing(<<>>, 0)
<1>1. Disks(0) = {}
  <2>1. \A d \in Entries : d[1] \in Nat
    BY Zenon, EntryType
  <2>2. \A d \in Entries : ~(d[1] < 0)
    BY <2>1
  <2> QED BY Zenon, <2>2 DEF Disks
<1>2. Len(<<>>) = 0 /\ 1..0 = {} /\ 0 <= BLOCK_DEV_MAX
  BY DiskAssumption
<1>3. Cardinality({}) = 0
  BY Zenon, FS_EmptySet
<1>4. Listed(Disks(0), <<>>)
  BY Zenon, <1>1, <1>2, <1>3 DEF Listed
<1>5. \A p \in Sata : ~(p < 0)
  <2>1. \A p \in Sata : p \in 0..(NPorts - 1)
    BY Zenon, DiskAssumption
  <2> QED BY <2>1, DiskAssumption
<1> QED BY Zenon, <1>2, <1>4, <1>5 DEF Probing, Chain, Complete

\* A port without a disk changes nothing.
LEMMA ProbingSkip ==
  ASSUME NEW list \in Seq(Dev), NEW n \in Nat, n \notin Sata, Probing(list, n)
  PROVE  Probing(list, n + 1)
<1>1. ASSUME NEW p \in Sata PROVE p < n + 1 <=> p < n
  <2>1. p \in 0..(NPorts - 1) /\ p # n
    BY Zenon, DiskAssumption
  <2> QED BY <2>1, DiskAssumption
<1>2. Disks(n + 1) = Disks(n)
  <2>1. \A d \in Entries : d[1] \in Sata
    BY Zenon, EntryType
  <2>2. \A d : d \in Disks(n + 1) <=> d \in Disks(n)
    BY Zenon, <1>1, <2>1 DEF Disks
  <2> QED BY Zenon, <2>2
<1>3. \A k \in 1..Len(list) : list[k].port < n => list[k].port < n + 1
  <2>1. ASSUME NEW k \in 1..Len(list) PROVE list[k].port \in Nat
    <3>1. list[k] \in Dev
      OBVIOUS
    <3>2. list[k].port \in 0..(NPorts - 1)
      BY Zenon, <3>1, DiskAssumption DEF Dev
    <3> QED BY <3>2, DiskAssumption
  <2> QED BY <2>1
<1>4. Complete(list, Len(list), n + 1)
  BY Zenon, <1>1 DEF Complete, Probing
<1> QED BY Zenon, <1>2, <1>3, <1>4 DEF Probing

\* A disk is registered after those of the ports before it.
LEMMA ProbingAdd ==
  ASSUME NEW list \in Seq(Dev), NEW n \in Sata, Probing(list, n)
  PROVE  Probing(Register(list, [port |-> n, lba_start |-> 0]), n + 1)
<1> DEFINE c == <<n, 0>>
           x == [port |-> n, lba_start |-> 0]
           new == Register(list, x)
           l == Len(list)
<1>0. n \in Nat /\ l \in Nat /\ BLOCK_DEV_MAX \in Nat /\ \A p \in Sata : p \in Nat
  <2>1. \A p \in Sata : p \in 0..(NPorts - 1)
    BY Zenon, DiskAssumption
  <2> QED BY <2>1, DiskAssumption
<1>1. c \in Entries /\ Device_of(c) = x /\ c[1] = n /\ c[2] = 0
  <2>1. c[1] = n /\ c[2] = 0
    OBVIOUS
  <2>2. 0 \in 0..MBR_ENTRY_COUNT
    BY DiskAssumption
  <2>3. c \in Sata \X (0..MBR_ENTRY_COUNT)
    BY Zenon, <2>2
  <2> HIDE DEF c
  <2> QED BY Zenon, <2>1, <2>3 DEF Entries, Device_of
<1>2. x \in Dev
  BY Zenon, <1>1, DeviceType
<1> HIDE DEF c
<1>3. Earlier(c) = Disks(n) /\ Disks(n + 1) = Disks(n) \cup {c}
  <2>1. ASSUME NEW d \in Entries PROVE /\ Before(d, c) <=> d[2] = 0 /\ d[1] < n
                                       /\ (d[2] = 0 /\ d[1] < n + 1) <=> (d[2] = 0 /\ d[1] < n) \/ d = c
    <3>1. d = <<d[1], d[2]>> /\ d[1] \in Nat /\ d[2] \in Nat
      BY Zenon, EntryType
    <3>2. Before(d, c) <=> d[2] = 0 /\ d[1] < n
      BY <1>0, <1>1, <3>1 DEF Before
    <3>3. d = c <=> d[1] = n /\ d[2] = 0
      BY Zenon, <1>1, <3>1 DEF c
    <3> QED BY <1>0, <3>1, <3>2, <3>3
  <2>2. \A d : d \in Earlier(c) <=> d \in Disks(n)
    BY Zenon, <2>1 DEF Earlier, Disks
  <2>3. \A d : d \in Disks(n + 1) <=> d \in Disks(n) \cup {c}
    BY Zenon, <1>1, <2>1 DEF Disks
  <2> QED BY Zenon, <2>2, <2>3
<1>4. Listed(Disks(n + 1), new)
  <2>1. Listed(Disks(n), list)
    BY Zenon DEF Probing
  <2>2. Listed(Disks(n) \cup {c}, Register(list, Device_of(c)))
    <3>1. Device_of(c) \in Dev /\ Earlier(c) = Disks(n) /\ c \in Entries
      BY ZenonT(30), <1>1, <1>3, DeviceType
    <3> QED BY Zenon, <2>1, <3>1, ListedNext
  <2> QED BY Zenon, <1>1, <1>3, <2>2
<1>5. /\ \A k \in 1..l : list[k].port \in Sata /\ list[k].port < n
      /\ \A k \in 1..l : \A p \in Sata : p < list[k].port <=> \E j \in 1..(k - 1) : list[j].port = p
      /\ l >= BLOCK_DEV_MAX \/ \A p \in Sata : p < n => \E j \in 1..l : list[j].port = p
  BY Zenon DEF Probing, Chain, Complete
<1>6. CASE l >= BLOCK_DEV_MAX
  <2>1. new = list
    BY Zenon, <1>2, <1>6, RegisterLemma
  <2>2. \A k \in 1..l : list[k].port < n + 1
    <3>1. \A p \in Sata : p < n => p < n + 1
      BY SMTT(30), <1>0
    <3> QED BY Zenon, <1>5, <3>1
  <2> HIDE DEF new
  <2> QED BY ZenonT(30), <1>4, <1>5, <1>6, <2>1, <2>2 DEF Probing, Chain, Complete, new
<1>7. CASE ~(l >= BLOCK_DEV_MAX)
  <2>1. Len(new) = l + 1 /\ new[l + 1] = x /\ \A k \in 1..l : new[k] = list[k]
    BY Zenon, <1>2, <1>7, RegisterLemma
  <2>2. x.port = n
    OBVIOUS
  <2> HIDE DEF new, x
  <2>3. ASSUME NEW k \in 1..(l + 1) PROVE k \in 1..l \/ k = l + 1
    BY <1>0
  <2>4. \A j \in 1..l : new[j].port = list[j].port
    BY Zenon, <2>1
  <2>5. ASSUME NEW k \in 1..(l + 1) PROVE new[k].port \in Sata /\ new[k].port < n + 1
    <3>1. n < n + 1 /\ \A p \in Sata : p < n => p < n + 1
      BY <1>0
    <3> QED BY ZenonT(30), <1>5, <2>1, <2>2, <2>3, <2>4, <3>1
  <2>6. ASSUME NEW k \in 1..(l + 1), NEW p \in Sata
        PROVE  p < new[k].port <=> \E j \in 1..(k - 1) : new[j].port = p
    <3>1. CASE k \in 1..l
      <4>1. \A j \in 1..(k - 1) : j \in 1..l
        BY <1>0, <3>1
      <4>2. (\E j \in 1..(k - 1) : new[j].port = p) <=> \E j \in 1..(k - 1) : list[j].port = p
        BY Zenon, <2>4, <4>1
      <4>3. p < list[k].port <=> \E j \in 1..(k - 1) : list[j].port = p
        BY Zenon, <1>5, <3>1
      <4>4. new[k].port = list[k].port
        BY ZenonT(30), <2>4, <3>1
      <4> QED BY Zenon, <4>2, <4>3, <4>4
    <3>2. CASE k = l + 1
      <4>1. k - 1 = l
        BY <1>0, <3>2
      <4>2. new[k].port = n
        BY Zenon, <2>1, <2>2, <3>2
      <4>3. p < n <=> \E j \in 1..l : list[j].port = p
        BY Zenon, <1>5, <1>7
      <4> QED BY ZenonT(30), <2>4, <4>1, <4>2, <4>3
    <3> QED BY <2>3, <3>1, <3>2
  <2>7. ASSUME NEW p \in Sata, p < n + 1 PROVE \E j \in 1..(l + 1) : new[j].port = p
    <3>1. p = n \/ p < n
      BY <1>0, <2>7
    <3>2. l + 1 \in 1..(l + 1) /\ \A j \in 1..l : j \in 1..(l + 1)
      BY <1>0
    <3> QED BY ZenonT(30), <1>5, <1>7, <2>1, <2>2, <2>4, <3>1, <3>2
  <2> QED BY ZenonT(30), <1>4, <2>1, <2>5, <2>6, <2>7 DEF Probing, Chain, Complete, new, x
<1> QED BY <1>6, <1>7

\* A port has a number below NPorts.
LEMMA SataType == NPorts \in Nat /\ \A p \in Sata : p \in Nat /\ p < NPorts
<1>1. NPorts \in Nat /\ \A p \in Sata : p \in 0..(NPorts - 1)
  BY Zenon, DiskAssumption
<1> QED BY <1>1

\* All there is is what comes before nothing that is missing.
LEMMA EntriesClosed == \A d \in Entries : \A c \in Entries : Before(c, d) => c \in Entries
BY Zenon

\* vfs_scan_partitions() begins when the disks are known.
LEMMA ScanBegins ==
  ASSUME NEW list \in Seq(Dev), Probing(list, NPorts)
  PROVE  Scanning(list, 1, Len(list))
<1> DEFINE e == Len(list)
           D == Disks(NPorts)
<1>1. e \in Nat /\ 1..0 = {} /\ 1 - 1 = 0
  OBVIOUS
<1>2. Listed(D, list) /\ Chain(list, e) /\ Complete(list, e, NPorts)
  BY Zenon DEF Probing
<1>3. \A d : d \in D <=> d \in Entries /\ d[2] = 0
  BY Zenon, EntryType, SataType DEF Disks
<1> HIDE DEF D, e
<1>4. ASSUME 1 <= e PROVE Listed(Below(list[1].port), list)
  <2>1. 1 \in 1..e
    BY <1>1, <1>4
  <2>2. \A p \in Sata : ~(p < list[1].port)
    BY Zenon, <1>1, <1>2, <2>1 DEF Chain
  <2>3. \A d : d \in Below(list[1].port) <=> d \in D
    BY Zenon, <1>3, <2>2, EntryType DEF Below
  <2>4. Below(list[1].port) = D
    BY Zenon, <2>3
  <2> QED BY Zenon, <1>2, <2>4
<1>5. ASSUME 1 = e + 1 PROVE Listed(Entries, list)
  <2>1. e = 0
    BY <1>1, <1>5
  <2>2. CASE Len(list) >= BLOCK_DEV_MAX
    <3>1. D \subseteq Entries /\ Entries \in SUBSET Entries
      BY Zenon, <1>3
    <3> QED BY ZenonT(30), <1>2, <2>2, <3>1, EntriesClosed, ListedFull
  <2>3. CASE ~(Len(list) >= BLOCK_DEV_MAX)
    <3>1. \A p \in Sata : FALSE
      BY ZenonT(30), <1>1, <1>2, <2>1, <2>3, SataType DEF Complete
    <3>2. \A d : d \in D <=> d \in Entries
      BY Zenon, <1>3, <3>1, EntryType
    <3>3. D = Entries
      BY Zenon, <3>2
    <3> QED BY Zenon, <1>2, <3>3
  <2> QED BY <2>2, <2>3
<1>6. 1 \in 1..(e + 1) /\ e \in 0..e
  BY <1>1
<1> QED BY ZenonT(30), <1>2, <1>4, <1>5, <1>6 DEF Scanning, e

\* the loop of partition_scan() over the table of port p
UsedLoop(p, g) ==
  /\ g[0] = devs
  /\ \A i \in 1..MBR_ENTRY_COUNT :
       g[i] = IF Mbr[p][i].sys_id = 0 THEN g[i - 1]
              ELSE Register(g[i - 1], [port |-> p, lba_start |-> Mbr[p][i].lba_start])

\* Register_used() is the end of that loop.
LEMMA UsedLemma ==
  ASSUME devs \in Seq(Dev), NEW p \in Sata
  PROVE  \E g : /\ g \in [0..MBR_ENTRY_COUNT -> Seq(Dev)] /\ UsedLoop(p, g)
                /\ Register_used(p) = g[MBR_ENTRY_COUNT]
<1> DEFINE n == MBR_ENTRY_COUNT
           D == Seq(Dev)
           a == devs
           N(i) == [port |-> p, lba_start |-> Mbr[p][i].lba_start]
           St(x, i) == IF Mbr[p][i].sys_id = 0 THEN x ELSE Register(x, N(i))
           F == [x \in D \X (1..n) |-> St(x[1], x[2])]
           Is(f) == f = [i \in 0..n |-> IF i = 0 THEN a ELSE St(f[i - 1], i)]
           k == CHOOSE f : Is(f)
<1>1. n \in Nat /\ a \in D
  BY Zenon, DiskAssumption
<1>2. ASSUME NEW i \in 1..n PROVE N(i) \in Dev
  <2>1. Mbr[p] \in [1..n -> [sys_id : Nat, lba_start : Nat]]
    BY Zenon, DiskAssumption
  <2>2. Mbr[p][i] \in [sys_id : Nat, lba_start : Nat]
    BY Zenon, <2>1
  <2>3. Mbr[p][i].lba_start \in Nat
    BY Zenon, <2>2
  <2> DEFINE l == Mbr[p][i].lba_start
  <2> HIDE DEF l
  <2>4. [port |-> p, lba_start |-> l] \in Dev
    BY <2>3 DEF Dev, l
  <2> QED BY Zenon, <2>4 DEF l
<1> HIDE DEF N
<1>3. ASSUME NEW x \in D, NEW i \in 1..n PROVE St(x, i) \in D
  BY Zenon, <1>2, RegisterLemma
<1>4. Register_used(p) = k[n]
  BY Zenon DEF Register_used, N
<1> HIDE DEF St, D, n, a
<1>5. F \in [D \X (1..n) -> D] /\ \A x \in D, i \in 1..n : F[<<x, i>>] = St(x, i)
  <2>1. \A x \in D \X (1..n) : x[1] \in D /\ x[2] \in 1..n
    BY Zenon
  <2>2. \A x \in D \X (1..n) : St(x[1], x[2]) \in D
    BY Zenon, <1>3, <2>1
  <2> QED BY Zenon, <2>2
<1> HIDE DEF F
<1>6. PICK h : Rounds(D, a, n, F, h)
  BY Zenon, <1>1, <1>5, RoundsExist
<1>7. h \in [0..n -> D] /\ h[0] = a /\ \A i \in 1..n : h[i] = F[<<h[i - 1], i>>]
  BY Zenon, <1>6 DEF Rounds
<1>8. ASSUME NEW i \in 1..n PROVE h[i] = St(h[i - 1], i)
  <2>1. i - 1 \in 0..n
    BY <1>1
  <2> QED BY Zenon, <1>5, <1>7, <2>1
<1>9. Is(h)
  <2> DEFINE R(i) == IF i = 0 THEN a ELSE St(h[i - 1], i)
  <2>1. ASSUME NEW i \in 0..n PROVE h[i] = R(i)
    <3>1. i # 0 => i \in 1..n
      BY <1>1
    <3> QED BY ZenonT(30), <1>7, <1>8, <3>1
  <2> HIDE DEF R
  <2>2. h = [i \in 0..n |-> h[i]]
    BY Zenon, <1>7
  <2>3. h = [i \in 0..n |-> R(i)]
    BY Zenon, <2>1, <2>2
  <2> QED BY Zenon, <2>3 DEF R
<1>10. Is(k)
  <2> HIDE DEF Is
  <2> QED BY Zenon, <1>9
<1> HIDE DEF k
<1>11. \A i \in 0..n : k[i] = IF i = 0 THEN a ELSE St(k[i - 1], i)
  BY Zenon, <1>10
<1> HIDE DEF Is
<1>12. k[0] = a /\ \A i \in 1..n : k[i] = St(k[i - 1], i)
  <2>1. 0 \in 0..n /\ \A i \in 1..n : i \in 0..n /\ i # 0
    BY <1>1
  <2> QED BY Zenon, <1>11, <2>1
<1> DEFINE T == {i \in 0..n : k[i] = h[i]}
<1>13. 0 \in T
  BY <1>1, <1>7, <1>12
<1>14. ASSUME NEW i \in T, i \in 0..(n - 1) PROVE i + 1 \in T
  <2>1. i + 1 \in 1..n /\ i + 1 \in 0..n /\ (i + 1) - 1 = i
    BY <1>1, <1>14
  <2> QED BY Zenon, <1>8, <1>12, <2>1
<1> HIDE DEF T
<1>15. \A i \in 0..n : i \in T
  BY ZenonT(30), <1>1, <1>13, <1>14, InductionTo
<1>16. Register_used(p) = h[n]
  <2>1. n \in 0..n
    BY <1>1
  <2> QED BY ZenonT(30), <1>4, <1>15, <2>1 DEF T
<1>17. UsedLoop(p, h)
  BY Zenon, <1>7, <1>8 DEF UsedLoop, St, N, a, n
<1> QED BY Zenon, <1>7, <1>16, <1>17 DEF D, n

\* and the first i entries of the table of port q
Up(q, i) == {d \in Entries : d[2] = 0 \/ d[1] < q \/ (d[1] = q /\ d[2] <= i)}

\* The next entry of a table is what comes next, if it is used.
LEMMA UpLemma ==
  ASSUME NEW q \in Sata, NEW i \in 0..(MBR_ENTRY_COUNT - 1)
  PROVE  IF Mbr[q][i + 1].sys_id = 0 THEN Up(q, i + 1) = Up(q, i)
         ELSE /\ <<q, i + 1>> \in Entries /\ Earlier(<<q, i + 1>>) = Up(q, i)
              /\ Up(q, i + 1) = Up(q, i) \cup {<<q, i + 1>>}
              /\ Device_of(<<q, i + 1>>) = [port |-> q, lba_start |-> Mbr[q][i + 1].lba_start]
<1> DEFINE c == <<q, i + 1>>
<1>1. q \in Nat /\ i \in Nat /\ i + 1 \in 0..MBR_ENTRY_COUNT /\ i + 1 # 0
  BY SataType, DiskAssumption
<1>2. c[1] = q /\ c[2] = i + 1
  OBVIOUS
<1>3. c \in Sata \X (0..MBR_ENTRY_COUNT)
  BY Zenon, <1>1
<1>4. ASSUME NEW d \in Entries
      PROVE  /\ d = c <=> d[1] = q /\ d[2] = i + 1
             /\ Before(d, c) <=> d[2] = 0 \/ d[1] < q \/ (d[1] = q /\ d[2] <= i)
             /\ d[2] <= i + 1 <=> d[2] <= i \/ d[2] = i + 1
             /\ d[2] = 0 \/ Mbr[d[1]][d[2]].sys_id # 0
  <2>1. d = <<d[1], d[2]>> /\ d[1] \in Nat /\ d[2] \in Nat /\ (d[2] = 0 \/ Mbr[d[1]][d[2]].sys_id # 0)
    BY Zenon, EntryType
  <2>2. d = c <=> d[1] = q /\ d[2] = i + 1
    BY Zenon, <1>2, <2>1
  <2> HIDE DEF c
  <2>3. Before(d, c) <=> d[2] = 0 \/ d[1] < q \/ (d[1] = q /\ d[2] <= i)
    BY <1>1, <1>2, <2>1 DEF Before
  <2>4. d[2] <= i + 1 <=> d[2] <= i \/ d[2] = i + 1
    BY <1>1, <2>1
  <2> QED BY ZenonT(30), <2>1, <2>2, <2>3, <2>4
<1> HIDE DEF c
<1>5. CASE Mbr[q][i + 1].sys_id = 0
  <2>1. ASSUME NEW d \in Entries PROVE ~(d[1] = q /\ d[2] = i + 1)
    BY Zenon, <1>1, <1>4, <1>5
  <2>2. \A d : d \in Up(q, i + 1) <=> d \in Up(q, i)
    BY Zenon, <1>4, <2>1 DEF Up
  <2>3. Up(q, i + 1) = Up(q, i)
    BY Zenon, <2>2
  <2> QED BY Zenon, <1>5, <2>3
<1>6. CASE Mbr[q][i + 1].sys_id # 0
  <2>1. c \in Entries
    BY Zenon, <1>2, <1>3, <1>6 DEF Entries
  <2>2. \A d : d \in Earlier(c) <=> d \in Up(q, i)
    BY Zenon, <1>4 DEF Earlier, Up
  <2>3. \A d : d \in Up(q, i + 1) <=> d \in Up(q, i) \cup {c}
    BY Zenon, <1>4, <2>1 DEF Up
  <2>4. Earlier(c) = Up(q, i) /\ Up(q, i + 1) = Up(q, i) \cup {c}
    BY Zenon, <2>2, <2>3
  <2>5. Device_of(c) = [port |-> q, lba_start |-> Mbr[q][i + 1].lba_start]
    BY Zenon, <1>1, <1>2 DEF Device_of
  <2> QED BY ZenonT(30), <1>6, <2>1, <2>4, <2>5 DEF c
<1> QED BY <1>5, <1>6

\* partition_scan() registers the partitions of its disk, and what was there
\* stays where it is.
LEMMA UsedListed ==
  ASSUME devs \in Seq(Dev), NEW q \in Sata, Listed(Below(q), devs)
  PROVE  /\ Register_used(q) \in Seq(Dev) /\ Listed(Below(q + 1), Register_used(q))
         /\ Len(devs) <= Len(Register_used(q)) /\ \A k \in 1..Len(devs) : Register_used(q)[k] = devs[k]
<1> DEFINE n == MBR_ENTRY_COUNT
           l == Len(devs)
<1>1. PICK g : g \in [0..n -> Seq(Dev)] /\ UsedLoop(q, g) /\ Register_used(q) = g[n]
  BY Zenon, UsedLemma
<1> DEFINE Good(i) == /\ Listed(Up(q, i), g[i]) /\ l <= Len(g[i]) /\ \A k \in 1..l : g[i][k] = devs[k]
           T == {i \in 0..n : Good(i)}
<1>2. n \in Nat /\ l \in Nat /\ q \in Nat
  BY DiskAssumption, SataType
<1>3. g[0] = devs /\ \A i \in 1..n : g[i] = IF Mbr[q][i].sys_id = 0 THEN g[i - 1]
              ELSE Register(g[i - 1], [port |-> q, lba_start |-> Mbr[q][i].lba_start])
  BY Zenon, <1>1 DEF UsedLoop
<1>4. ASSUME NEW d \in Entries
      PROVE  /\ ~(d[2] <= 0) \/ d[2] = 0 
             /\ d[2] <= n /\ (d[1] < q + 1 <=> d[1] < q \/ d[1] = q)
  <2>1. d[1] \in Nat /\ d[2] \in Nat /\ d[2] \in 0..n
    BY Zenon, EntryType
  <2> QED BY <1>2, <2>1
<1>5. Up(q, 0) = Below(q) /\ Up(q, n) = Below(q + 1)
  <2>1. \A d : (d \in Up(q, 0) <=> d \in Below(q)) /\ (d \in Up(q, n) <=> d \in Below(q + 1))
    BY Zenon, <1>4 DEF Up, Below
  <2> QED BY Zenon, <2>1
<1>6. 0 \in T
  <2>1. 0 \in 0..n /\ l <= l
    BY <1>2
  <2> QED BY ZenonT(30), <1>3, <1>5, <2>1
<1> HIDE DEF l
<1>7. ASSUME NEW i \in T, i \in 0..(n - 1) PROVE i + 1 \in T
  <2>1. i + 1 \in 1..n /\ i + 1 \in 0..n /\ (i + 1) - 1 = i /\ i \in 0..n
    BY <1>2, <1>7
  <2>2. Good(i) /\ g[i] \in Seq(Dev) /\ g[i + 1] \in Seq(Dev)
    BY Zenon, <1>1, <2>1
  <2>3. CASE Mbr[q][i + 1].sys_id = 0
    <3>1. g[i + 1] = g[i]
      BY ZenonT(30), <1>3, <2>1, <2>3
    <3>2. Up(q, i + 1) = Up(q, i)
      BY ZenonT(30), <1>7, <2>3, UpLemma
    <3>3. Good(i + 1)
      BY ZenonT(30), <2>2, <3>1, <3>2
    <3> QED BY Zenon, <2>1, <3>3
  <2>4. CASE Mbr[q][i + 1].sys_id # 0
    <3> DEFINE c == <<q, i + 1>>
               x == Device_of(c)
    <3>1. /\ c \in Entries /\ Earlier(c) = Up(q, i) /\ Up(q, i + 1) = Up(q, i) \cup {c}
          /\ x = [port |-> q, lba_start |-> Mbr[q][i + 1].lba_start]
      BY Zenon, <1>7, <2>4, UpLemma
    <3> HIDE DEF c
    <3>2. x \in Dev
      BY Zenon, <3>1, DeviceType
    <3>3. g[i + 1] = Register(g[i], x)
      BY ZenonT(30), <1>3, <2>1, <2>4, <3>1
    <3>4. Listed(Up(q, i) \cup {c}, Register(g[i], x))
      BY ZenonT(30), <2>2, <3>1, <3>2, ListedNext
    <3> HIDE DEF x
    <3> DEFINE a == g[i]
               b == Register(a, x)
    <3>5. a \in Seq(Dev) /\ l <= Len(a) /\ \A k \in 1..l : a[k] = devs[k]
      BY Zenon, <2>2
    <3> HIDE DEF a
    <3>6. b \in Seq(Dev) /\ Len(a) <= Len(b) /\ \A k \in 1..Len(a) : b[k] = a[k]
      BY ZenonT(30), <3>2, <3>5, RegisterLemma
    <3> HIDE DEF b
    <3>7. l <= Len(b) /\ \A k \in 1..l : k \in 1..Len(a)
      BY <1>2, <3>5, <3>6
    <3>8. \A k \in 1..l : b[k] = devs[k]
      BY ZenonT(30), <3>5, <3>6, <3>7
    <3>9. g[i + 1] = b /\ Listed(Up(q, i + 1), b)
      BY Zenon, <3>1, <3>3, <3>4 DEF a, b
    <3>10. Good(i + 1)
      BY ZenonT(30), <3>7, <3>8, <3>9
    <3> QED BY Zenon, <2>1, <3>10
  <2> QED BY <2>3, <2>4
<1> HIDE DEF T
<1>8. \A i \in 0..n : i \in T
  BY ZenonT(30), <1>2, <1>6, <1>7, InductionTo
<1>9. n \in 0..n
  BY <1>2
<1>10. Good(n)
  BY Zenon, <1>8, <1>9 DEF T
<1> QED BY ZenonT(30), <1>1, <1>5, <1>9, <1>10 DEF l

\* vfs_scan_partitions() goes on with the next disk.
LEMMA ScanNext ==
  ASSUME devs \in Seq(Dev), NEW n \in Nat, NEW e \in Nat, n <= e, Scanning(devs, n, e)
  PROVE  /\ n \in DOMAIN devs /\ devs[n].port \in Sata
         /\ Register_used(devs[n].port) \in Seq(Dev) /\ Scanning(Register_used(devs[n].port), n + 1, e)
<1> DEFINE q == devs[n].port
           new == Register_used(q)
           l == Len(devs)
<1>1. /\ n \in 1..(e + 1) /\ e \in 0..l /\ Chain(devs, e) /\ Complete(devs, e, NPorts)
      /\ Listed(Below(q), devs)
  BY Zenon DEF Scanning
<1>2. l \in Nat /\ DOMAIN devs = 1..l
  OBVIOUS
<1>3. n \in 1..e /\ n \in 1..l /\ e <= l /\ \A k \in 1..e : k \in 1..l
  BY <1>1, <1>2
<1>4. q \in Sata /\ q \in Nat
  BY ZenonT(30), <1>1, <1>3, SataType DEF Chain
<1> HIDE DEF q
<1>5. new \in Seq(Dev) /\ Listed(Below(q + 1), new) /\ l <= Len(new) /\ \A k \in 1..l : new[k] = devs[k]
  BY ZenonT(30), <1>1, <1>4, UsedListed
<1> HIDE DEF new, l
<1>6. Len(new) \in Nat /\ BLOCK_DEV_MAX \in Nat /\ e \in 0..Len(new) /\ n + 1 \in 1..(e + 1)
      /\ (l >= BLOCK_DEV_MAX => Len(new) >= BLOCK_DEV_MAX)
  BY <1>2, <1>3, <1>5, DiskAssumption
<1>7. \A k \in 1..e : new[k].port = devs[k].port
  BY Zenon, <1>3, <1>5
<1>8. Chain(new, e)
  <2>1. \A k \in 1..e : new[k].port \in Sata
    BY Zenon, <1>1, <1>7 DEF Chain
  <2>2. ASSUME NEW k \in 1..e, NEW p \in Sata
        PROVE  p < new[k].port <=> \E j \in 1..(k - 1) : new[j].port = p
    <3>1. \A j \in 1..(k - 1) : j \in 1..e
      OBVIOUS
    <3>2. (\E j \in 1..(k - 1) : new[j].port = p) <=> \E j \in 1..(k - 1) : devs[j].port = p
      BY Zenon, <1>7, <3>1
    <3>3. p < devs[k].port <=> \E j \in 1..(k - 1) : devs[j].port = p
      BY Zenon, <1>1 DEF Chain
    <3>4. new[k].port = devs[k].port
      BY Zenon, <1>7
    <3> QED BY Zenon, <3>2, <3>3, <3>4
  <2> QED BY Zenon, <2>1, <2>2 DEF Chain
<1>9. Complete(new, e, NPorts)
  BY Zenon, <1>1, <1>6, <1>7 DEF Complete, l
<1>10. \A p \in Sata : p < q + 1 <=> (p = q \/ \E j \in 1..(n - 1) : devs[j].port = p)
  <2>1. \A p \in Sata : p < q + 1 <=> p = q \/ p < q
    BY <1>4, SataType
  <2>2. \A p \in Sata : p < q <=> \E j \in 1..(n - 1) : devs[j].port = p
    BY Zenon, <1>1, <1>3 DEF Chain, q
  <2> QED BY Zenon, <2>1, <2>2
<1>11. \A p \in Sata : p < q + 1 <=> \E j \in 1..n : devs[j].port = p
  <2>1. \A j : j \in 1..n <=> j = n \/ j \in 1..(n - 1)
    BY <1>3
  <2> QED BY Zenon, <1>10, <2>1 DEF q
<1>12. ASSUME n + 1 <= e PROVE Listed(Below(new[n + 1].port), new)
  <2>1. n + 1 \in 1..e /\ (n + 1) - 1 = n
    BY <1>12
  <2>2. \A p \in Sata : p < devs[n + 1].port <=> \E j \in 1..n : devs[j].port = p
    BY Zenon, <1>1, <2>1 DEF Chain
  <2>3. \A p \in Sata : p < new[n + 1].port <=> p < q + 1
    BY ZenonT(30), <1>7, <1>11, <2>1, <2>2
  <2>4. \A d : d \in Below(new[n + 1].port) <=> d \in Below(q + 1)
    BY Zenon, <2>3, EntryType DEF Below
  <2>5. Below(new[n + 1].port) = Below(q + 1)
    BY Zenon, <2>4
  <2> QED BY Zenon, <1>5, <2>5
<1>13. ASSUME n + 1 = e + 1 PROVE Listed(Entries, new)
  <2>1. n = e
    BY <1>13
  <2>2. CASE Len(new) >= BLOCK_DEV_MAX
    <3>1. Below(q + 1) \subseteq Entries /\ Entries \in SUBSET Entries
      BY Zenon DEF Below
    <3> QED BY ZenonT(30), <1>5, <2>2, <3>1, EntriesClosed, ListedFull
  <2>3. CASE ~(Len(new) >= BLOCK_DEV_MAX)
    <3>1. \A p \in Sata : p < q + 1
      BY ZenonT(30), <1>1, <1>6, <1>11, <2>1, <2>3, SataType DEF Complete, l
    <3>2. \A d : d \in Below(q + 1) <=> d \in Entries
      BY Zenon, <3>1, EntryType DEF Below
    <3>3. Below(q + 1) = Entries
      BY Zenon, <3>2
    <3> QED BY Zenon, <1>5, <3>3
  <2> QED BY <2>2, <2>3
<1>14. Scanning(new, n + 1, e)
  BY ZenonT(30), <1>6, <1>8, <1>9, <1>12, <1>13 DEF Scanning
<1> QED BY ZenonT(30), <1>2, <1>3, <1>4, <1>5, <1>14 DEF q, new

-----------------------------------------------------------------------------
(* Boot.                                                                   *)

Request == [lba : Nat, count : Nat, iovec : Seq(Vector)]
Calls == [pc : {"idle", "issue", "poll", "returned"}, use : {"none", "identify", "mbr", "read"}, port : Nat,
          start : Nat, req : Request, res : {"none", "ok", "EIO", "ENOMEM"}]
Phases == [step : {"probe", "scan", "run", "panic"}, n : Nat, end : Nat]

\* what a call under way says of the stage boot is in
Linked ==
  /\ call.pc = "idle" <=> call.use = "none"
  /\ call.use = "identify" =>
       phase.step = "probe" /\ phase.n < phase.end /\ phase.n \in Sata /\ call.port = phase.n
  /\ call.use = "mbr" =>
       phase.step = "scan" /\ phase.n <= phase.end /\ call.port = devs[phase.n].port
  /\ call.use = "read" => phase.step = "run" /\ call.port \in Sata

\* and what has been registered by then
Stage ==
  /\ phase.step = "probe" => Probing(devs, phase.n) /\ phase.end = NPorts /\ phase.n <= NPorts
  /\ phase.step = "scan" => Scanning(devs, phase.n, phase.end)
  /\ phase.step = "run" => Listed(Entries, devs)

RegInv == call \in Calls /\ devs \in Seq(Dev) /\ phase \in Phases /\ Linked /\ Stage

\* the call is c
CallIs(pc, use, p, start, q, res) ==
  call' = [pc |-> pc, use |-> use, port |-> p, start |-> start, req |-> q, res |-> res]

CallHas(pc, use, p, start, q, res) ==
  /\ call' \in Calls /\ call'.pc = pc /\ call'.use = use /\ call'.port = p
  /\ call'.start = start /\ call'.req = q /\ call'.res = res

\* A call that has these parts is one.
LEMMA CallLemma ==
  ASSUME NEW pc \in {"idle", "issue", "poll", "returned"}, NEW use \in {"none", "identify", "mbr", "read"},
         NEW p \in Nat, NEW start \in Nat, NEW q \in Request, NEW res \in {"none", "ok", "EIO", "ENOMEM"},
         CallIs(pc, use, p, start, q, res)
  PROVE  CallHas(pc, use, p, start, q, res)
BY SMTT(30) DEF Calls, CallIs, CallHas

Begun(ports, p, op, start, q, use) ==
  /\ call' \in Calls /\ call'.pc \in {"issue", "returned"} /\ call'.use = use /\ call'.port = p
  /\ call'.start = start /\ call'.req = q /\ call'.res # "ok"
  /\ call'.pc = "returned" => port' = ports
  /\ call'.pc = "issue" => port' = [ports EXCEPT ![p].cmd = Command(op, start + q.lba, q.count, q.iovec)]

\* What __ahci_read() and ahci_identify() begin.
LEMMA BeginLemma ==
  ASSUME NEW ports, NEW p \in Nat, NEW op, NEW start \in Nat, NEW q \in Request, NEW use \in {"identify", "mbr", "read"},
         Begin(ports, p, op, start, q, use)
  PROVE  Begun(ports, p, op, start, q, use)
<1>1. CASE Len(Build_prdt(q.iovec)) > MAX_ENTRIES
  <2>1. CallIs("returned", use, p, start, q, "ENOMEM") /\ port' = ports
    BY Zenon, <1>1 DEF Begin, CallIs
  <2>2. CallHas("returned", use, p, start, q, "ENOMEM")
    BY Zenon, <2>1, CallLemma
  <2> QED BY ZenonT(30), <2>1, <2>2 DEF CallHas, Begun
<1>2. CASE ~(Len(Build_prdt(q.iovec)) > MAX_ENTRIES)
  <2>1. /\ CallIs("issue", use, p, start, q, "none")
        /\ port' = [ports EXCEPT ![p].cmd = Command(op, start + q.lba, q.count, q.iovec)]
    BY Zenon, <1>2 DEF Begin, CallIs
  <2>2. CallHas("issue", use, p, start, q, "none")
    BY ZenonT(30), <2>1, CallLemma
  <2> QED BY ZenonT(30), <2>1, <2>2 DEF CallHas, Begun
<1> QED BY <1>1, <1>2

\* A page of the driver is a request.
LEMMA BufferLemma ==
  ASSUME NEW c \in Nat
  PROVE  [lba |-> 0, count |-> c, iovec |-> Buffer(SectorSize)] \in Request
<1> DEFINE v == [addr |-> 0, length |-> SectorSize]
<1>1. v \in Vector
  BY DiskAssumption DEF Vector
<1> HIDE DEF v
<1> DEFINE b == <<v>>
<1>2. b \in Seq(Vector)
  BY <1>1
<1>3. Buffer(SectorSize) = b
  BY Zenon DEF Buffer, v
<1> HIDE DEF b
<1>4. [lba |-> 0, count |-> c, iovec |-> b] \in Request
  BY <1>2 DEF Request
<1> QED BY Zenon, <1>3, <1>4

\* The call that has returned is over.
LEMMA NoCallLemma ==
  ASSUME call' = NoCall
  PROVE  call' \in Calls /\ call'.pc = "idle" /\ call'.use = "none"
<1> DEFINE q == [lba |-> 0, count |-> 0, iovec |-> <<>>]
<1>1. q \in Request
  BY DEF Request
<1> HIDE DEF q
<1>2. CallIs("idle", "none", 0, 0, q, "none")
  BY Zenon DEF CallIs, NoCall, q
<1>3. CallHas("idle", "none", 0, 0, q, "none")
  <2>1. 0 \in Nat
    BY SMTT(30)
  <2> QED BY ZenonT(30), <1>1, <1>2, <2>1, CallLemma
<1> QED BY Zenon, <1>3 DEF CallHas

\* Boot begins with the first port.
LEMMA RegInvInit == Init => RegInv
<1> SUFFICES ASSUME Init PROVE RegInv
  OBVIOUS
<1>1. call = NoCall /\ devs = <<>> /\ phase = [step |-> "probe", n |-> 0, end |-> NPorts]
  BY Zenon DEF Init
<1>2. call \in Calls /\ call.pc = "idle" /\ call.use = "none"
  <2>1. <<>> \in Seq(Vector)
    OBVIOUS
  <2> DEFINE q == [lba |-> 0, count |-> 0, iovec |-> <<>>]
  <2>2. q \in Request
    BY <2>1 DEF Request
  <2> HIDE DEF q
  <2>3. call = [pc |-> "idle", use |-> "none", port |-> 0, start |-> 0, req |-> q, res |-> "none"]
    BY Zenon, <1>1 DEF NoCall, q
  <2> QED BY <2>2, <2>3 DEF Calls
<1>3. phase \in Phases /\ phase.step = "probe" /\ phase.n = 0 /\ phase.end = NPorts /\ 0 <= NPorts
  BY <1>1, DiskAssumption DEF Phases
<1>4. devs \in Seq(Dev)
  BY <1>1
<1>5. Linked
  BY Zenon, <1>2 DEF Linked
<1>6. Stage
  BY ZenonT(30), <1>1, <1>3, ProbingInit DEF Stage
<1> QED BY ZenonT(30), <1>2, <1>3, <1>4, <1>5, <1>6 DEF RegInv

PhaseHas(step, n, end) == phase' \in Phases /\ phase'.step = step /\ phase'.n = n /\ phase'.end = end

\* Boot goes on, or to another stage.
LEMMA PhaseLemma ==
  ASSUME phase \in Phases
  PROVE  /\ phase' = [phase EXCEPT !.n = @ + 1] => PhaseHas(phase.step, phase.n + 1, phase.end)
         /\ \A step \in {"probe", "scan", "run", "panic"}, n, end \in Nat :
              phase' = [step |-> step, n |-> n, end |-> end] => PhaseHas(step, n, end)
BY SMTT(30) DEF Phases, PhaseHas

\* The kernel panics.
LEMMA PanicLemma ==
  ASSUME phase \in Phases, Panic, call' \in Calls, call'.pc = "idle", call'.use = "none", devs' \in Seq(Dev)
  PROVE  RegInv'
<1>1. phase' \in Phases /\ phase'.step = "panic"
  <2>1. 0 \in Nat /\ phase' = [step |-> "panic", n |-> 0, end |-> 0]
    BY DEF Panic
  <2>2. PhaseHas("panic", 0, 0)
    BY Zenon, <2>1, PhaseLemma
  <2> QED BY Zenon, <2>2 DEF PhaseHas
<1>2. Linked'
  BY Zenon DEF Linked
<1>3. Stage'
  BY Zenon, <1>1 DEF Stage
<1> QED BY ZenonT(30), <1>1, <1>2, <1>3 DEF RegInv

\* What ahci_issue_cmd() does with the call.
LEMMA ReturnLemma ==
  ASSUME call \in Calls, NEW pc \in {"idle", "issue", "poll", "returned"}, NEW res \in {"none", "ok", "EIO", "ENOMEM"}
  PROVE  /\ call' = [call EXCEPT !.pc = pc] => CallHas(pc, call.use, call.port, call.start, call.req, call.res)
         /\ call' = [call EXCEPT !.pc = pc, !.res = res] =>
              CallHas(pc, call.use, call.port, call.start, call.req, res)
<1>1. ASSUME call' = [call EXCEPT !.pc = pc]
      PROVE  CallHas(pc, call.use, call.port, call.start, call.req, call.res)
  BY SMTT(30), <1>1 DEF Calls, CallHas
<1>2. ASSUME call' = [call EXCEPT !.pc = pc, !.res = res]
      PROVE  CallHas(pc, call.use, call.port, call.start, call.req, res)
  <2>1. call' \in Calls
    BY Zenon, <1>2 DEF Calls
  <2>2. call'.use = call.use /\ call'.port = call.port /\ call'.start = call.start /\ call'.req = call.req
    BY Zenon, <1>2 DEF Calls
  <2>3. call'.pc = pc /\ call'.res = res
    BY Zenon, <1>2 DEF Calls
  <2> QED BY ZenonT(30), <2>1, <2>2, <2>3 DEF CallHas
<1> QED BY <1>1, <1>2

\* Each step of boot registers what comes next.
LEMMA RegInvStep == RegInv /\ [Next]_vars => RegInv'
<1> SUFFICES ASSUME RegInv, [Next]_vars PROVE RegInv'
  OBVIOUS
<1>0. call \in Calls /\ devs \in Seq(Dev) /\ phase \in Phases /\ Linked /\ Stage
  BY Zenon DEF RegInv
<1>a. phase.n \in Nat /\ phase.end \in Nat /\ call.port \in Nat
  BY <1>0 DEF Phases, Calls
<1>b. ASSUME UNCHANGED <<call, devs, phase>> PROVE RegInv'
  <2>1. call' = call /\ devs' = devs /\ phase' = phase
    BY Zenon, <1>b
  <2> QED BY Zenon, <1>0, <2>1 DEF RegInv, Linked, Stage
<1>c. ASSUME UNCHANGED <<devs, phase>>, call.pc # "idle", call'.pc # "idle", call' \in Calls,
             call'.use = call.use, call'.port = call.port
      PROVE  RegInv'
  <2>1. devs' = devs /\ phase' = phase
    BY Zenon, <1>c
  <2> QED BY ZenonT(30), <1>0, <1>c, <2>1 DEF RegInv, Linked, Stage
<1>d. ASSUME NEW p \in Nat, NEW op, NEW start \in Nat, NEW q \in Request, NEW use \in {"identify", "mbr", "read"},
             NEW ports, Begin(ports, p, op, start, q, use), UNCHANGED <<devs, phase>>,
             use = "identify" => phase.step = "probe" /\ phase.n < phase.end /\ phase.n \in Sata /\ p = phase.n,
             use = "mbr" => phase.step = "scan" /\ phase.n <= phase.end /\ p = devs[phase.n].port,
             use = "read" => phase.step = "run" /\ p \in Sata
      PROVE  RegInv'
  <2>1. call' \in Calls /\ call'.pc \in {"issue", "returned"} /\ call'.use = use /\ call'.port = p
    <3>1. Begun(ports, p, op, start, q, use)
      BY Zenon, <1>d, BeginLemma
    <3> QED BY Zenon, <3>1 DEF Begun
  <2>2. devs' = devs /\ phase' = phase /\ call'.pc # "idle" /\ use # "none"
    BY Zenon, <1>d, <2>1
  <2>3. Linked'
    BY ZenonT(30), <1>d, <2>1, <2>2 DEF Linked
  <2> QED BY ZenonT(30), <1>0, <2>1, <2>2, <2>3 DEF RegInv, Stage
<1>1. CASE Boot_fails
  BY ZenonT(30), <1>0, <1>1, PanicLemma DEF Boot_fails, Linked
<1>2. CASE Probe_port
  <2>1. phase.step = "probe" /\ phase.n < phase.end /\ call.pc = "idle" /\ devs' = devs
    BY Zenon, <1>2 DEF Probe_port
  <2>2. CASE phase.n \in Sata
    <3>1. /\ Begin(Ahci_init_port(phase.n), phase.n, "identify", 0,
                   [lba |-> 0, count |-> 0, iovec |-> Buffer(SectorSize)], "identify")
          /\ phase' = phase
      BY Zenon, <1>2, <2>2 DEF Probe_port
    <3>2. [lba |-> 0, count |-> 0, iovec |-> Buffer(SectorSize)] \in Request /\ 0 \in Nat
      BY BufferLemma
    <3> DEFINE q == [lba |-> 0, count |-> 0, iovec |-> Buffer(SectorSize)]
    <3> HIDE DEF q
    <3>3. q \in Request /\ 0 \in Nat /\ Begin(Ahci_init_port(phase.n), phase.n, "identify", 0, q, "identify")
      BY Zenon, <3>1, <3>2 DEF q
    <3> QED BY ZenonT(30), <1>a, <1>d, <2>1, <2>2, <3>1, <3>3
  <2>3. CASE phase.n \notin Sata
    <3>1. phase' = [phase EXCEPT !.n = @ + 1] /\ call' = call
      BY Zenon, <1>2, <2>3 DEF Probe_port
    <3>2. PhaseHas("probe", phase.n + 1, phase.end)
      BY ZenonT(30), <1>0, <2>1, <3>1, PhaseLemma
    <3>3. Probing(devs, phase.n) /\ phase.end = NPorts /\ call.use = "none"
      BY Zenon, <1>0, <2>1 DEF Stage, Linked
    <3>4. Probing(devs, phase.n + 1)
      BY ZenonT(30), <1>0, <1>a, <2>3, <3>3, ProbingSkip
    <3>5. phase.n + 1 <= phase.end
      BY <1>a, <2>1
    <3>6. Stage'
      BY ZenonT(30), <2>1, <3>2, <3>3, <3>4, <3>5 DEF Stage, PhaseHas
    <3>7. Linked'
      BY ZenonT(30), <2>1, <3>1, <3>3 DEF Linked
    <3> QED BY ZenonT(30), <1>0, <2>1, <3>1, <3>2, <3>6, <3>7 DEF RegInv, PhaseHas
  <2> QED BY <2>2, <2>3
<1>3. CASE Identified
  <2>1. call.pc = "returned" /\ call.use = "identify" /\ call' = NoCall
    BY Zenon, <1>3 DEF Identified
  <2>2. phase.step = "probe" /\ phase.n < phase.end /\ phase.n \in Sata /\ call.port = phase.n
    BY Zenon, <1>0, <2>1 DEF Linked
  <2>3. call' \in Calls /\ call'.pc = "idle" /\ call'.use = "none"
    BY Zenon, <2>1, NoCallLemma
  <2>4. CASE Panic /\ UNCHANGED devs
    BY ZenonT(30), <1>0, <2>3, <2>4, PanicLemma
  <2>5. CASE /\ devs' = Register(devs, [port |-> call.port, lba_start |-> 0])
             /\ phase' = [phase EXCEPT !.n = @ + 1]
    <3> DEFINE x == [port |-> phase.n, lba_start |-> 0]
    <3>1. devs' = Register(devs, x)
      BY Zenon, <2>2, <2>5
    <3>2. x \in Dev
      BY <2>2 DEF Dev
    <3>3. Probing(devs, phase.n) /\ phase.end = NPorts
      BY Zenon, <1>0, <2>2 DEF Stage
    <3>4. Probing(Register(devs, x), phase.n + 1)
      BY ZenonT(30), <1>0, <2>2, <3>3, ProbingAdd
    <3> HIDE DEF x
    <3>5. Probing(devs', phase.n + 1) /\ devs' \in Seq(Dev)
      BY ZenonT(30), <1>0, <3>1, <3>2, <3>4, RegisterLemma
    <3>6. PhaseHas("probe", phase.n + 1, phase.end)
      BY ZenonT(30), <1>0, <2>2, <2>5, PhaseLemma
    <3>7. phase.n + 1 <= phase.end
      BY <1>a, <2>2
    <3>8. Stage'
      BY ZenonT(30), <3>3, <3>5, <3>6, <3>7 DEF Stage, PhaseHas
    <3>9. Linked'
      BY Zenon, <2>3 DEF Linked
    <3> QED BY ZenonT(30), <2>3, <3>5, <3>6, <3>8, <3>9 DEF RegInv, PhaseHas
  <2> QED BY ZenonT(30), <1>3, <2>4, <2>5 DEF Identified
<1>4. CASE Scan_begins
  <2>1. /\ phase.step = "probe" /\ phase.n = phase.end /\ devs' = devs /\ call' = call
        /\ phase' = [step |-> "scan", n |-> 1, end |-> Len(devs)]
    BY Zenon, <1>4 DEF Scan_begins
  <2>2. call.use = "none"
    <3>1. ~(phase.n < phase.end)
      BY <1>a, <2>1
    <3>2. call.use \in {"none", "identify", "mbr", "read"}
      BY Zenon, <1>0 DEF Calls
    <3> QED BY ZenonT(30), <1>0, <2>1, <3>1, <3>2 DEF Linked
  <2>3. Probing(devs, NPorts)
    BY Zenon, <1>0, <2>1 DEF Stage
  <2>4. Scanning(devs, 1, Len(devs))
    BY ZenonT(30), <1>0, <2>3, ScanBegins
  <2>5. 1 \in Nat /\ Len(devs) \in Nat
    BY <1>0
  <2>6. PhaseHas("scan", 1, Len(devs))
    BY ZenonT(30), <1>0, <2>1, <2>5, PhaseLemma
  <2>7. Stage'
    BY ZenonT(30), <2>1, <2>4, <2>6 DEF Stage, PhaseHas
  <2>8. Linked'
    BY ZenonT(30), <1>0, <2>1, <2>2 DEF Linked
  <2> QED BY ZenonT(30), <1>0, <2>1, <2>6, <2>7, <2>8 DEF RegInv, PhaseHas
<1>5. CASE Scan_disk
  <2> DEFINE d == devs[phase.n]
             q == [lba |-> 0, count |-> 1, iovec |-> Buffer(SectorSize)]
  <2>1. /\ phase.step = "scan" /\ phase.n <= phase.end /\ call.pc = "idle"
        /\ Begin(port, d.port, "read", d.lba_start, q, "mbr") /\ UNCHANGED <<devs, phase>>
    BY Zenon, <1>5 DEF Scan_disk
  <2>2. q \in Request
    BY BufferLemma
  <2> HIDE DEF q
  <2>3. phase.n \in DOMAIN devs
    BY ZenonT(30), <1>0, <1>a, <2>1, ScanNext DEF Stage
  <2>4. d \in Dev
    BY <1>0, <2>3
  <2>5. d.port \in Sata /\ d.port \in Nat /\ d.lba_start \in Nat
    BY Zenon, <2>4, SataType DEF Dev
  <2> QED BY ZenonT(30), <1>d, <2>1, <2>2, <2>5
<1>6. CASE Scanned
  <2>1. call.pc = "returned" /\ call.use = "mbr" /\ call' = NoCall
    BY Zenon, <1>6 DEF Scanned
  <2>2. phase.step = "scan" /\ phase.n <= phase.end /\ call.port = devs[phase.n].port
    BY Zenon, <1>0, <2>1 DEF Linked
  <2>3. call' \in Calls /\ call'.pc = "idle" /\ call'.use = "none"
    BY ZenonT(30), <2>1, NoCallLemma
  <2>4. CASE Panic /\ UNCHANGED devs
    BY Zenon, <1>0, <2>3, <2>4, PanicLemma
  <2>5. CASE devs' = Register_used(call.port) /\ phase' = [phase EXCEPT !.n = @ + 1]
    <3>1. Scanning(devs, phase.n, phase.end)
      BY Zenon, <1>0, <2>2 DEF Stage
    <3>2. devs' \in Seq(Dev) /\ Scanning(devs', phase.n + 1, phase.end)
      BY ZenonT(30), <1>0, <1>a, <2>2, <2>5, <3>1, ScanNext
    <3>3. PhaseHas("scan", phase.n + 1, phase.end)
      BY ZenonT(30), <1>0, <2>2, <2>5, PhaseLemma
    <3>4. Stage'
      BY ZenonT(30), <3>2, <3>3 DEF Stage, PhaseHas
    <3>5. Linked'
      BY Zenon, <2>3 DEF Linked
    <3> QED BY ZenonT(30), <2>3, <3>2, <3>3, <3>4, <3>5 DEF RegInv, PhaseHas
  <2> QED BY ZenonT(30), <1>6, <2>4, <2>5 DEF Scanned
<1>7. CASE Booted
  <2>1. /\ phase.step = "scan" /\ phase.n = phase.end + 1 /\ devs' = devs /\ call' = call
        /\ phase' = [step |-> "run", n |-> 0, end |-> 0]
    BY Zenon, <1>7 DEF Booted
  <2>2. call.use = "none"
    <3>1. ~(phase.n <= phase.end)
      BY SMTT(30), <1>a, <2>1
    <3>2. call.use \in {"none", "identify", "mbr", "read"}
      BY Zenon, <1>0 DEF Calls
    <3> QED BY ZenonT(30), <1>0, <2>1, <3>1, <3>2 DEF Linked
  <2>3. Listed(Entries, devs)
    BY Zenon, <1>0, <2>1 DEF Stage, Scanning
  <2>4. 0 \in Nat
    OBVIOUS
  <2>5. PhaseHas("run", 0, 0)
    BY ZenonT(30), <1>0, <2>1, <2>4, PhaseLemma
  <2>6. Stage'
    BY ZenonT(30), <2>1, <2>3, <2>5 DEF Stage, PhaseHas
  <2>7. Linked'
    BY ZenonT(30), <1>0, <2>1, <2>2 DEF Linked
  <2> QED BY ZenonT(30), <1>0, <2>1, <2>5, <2>6, <2>7 DEF RegInv, PhaseHas
<1>8. ASSUME NEW i \in DOMAIN devs, NEW q \in Requests, Read(devs[i], q) PROVE RegInv'
  <2>1. /\ phase.step = "run" /\ call.pc = "idle" /\ UNCHANGED <<devs, phase>>
        /\ Begin(port, devs[i].port, "read", devs[i].lba_start, q, "read")
    BY Zenon, <1>8 DEF Read
  <2>2. devs[i] \in Dev
    BY <1>0
  <2>3. devs[i].port \in Sata /\ devs[i].port \in Nat /\ devs[i].lba_start \in Nat
    BY Zenon, <2>2, SataType DEF Dev
  <2>4. q \in Request
    BY Zenon, DiskAssumption DEF Request, Vector
  <2> QED BY ZenonT(30), <1>d, <2>1, <2>3, <2>4
<1>9. CASE Read_returns
  <2>1. call' = NoCall /\ devs' = devs /\ phase' = phase
    BY Zenon, <1>9 DEF Read_returns
  <2>2. call' \in Calls /\ call'.pc = "idle" /\ call'.use = "none"
    BY ZenonT(30), <2>1, NoCallLemma
  <2>3. Linked'
    BY Zenon, <2>2 DEF Linked
  <2> QED BY ZenonT(30), <1>0, <2>1, <2>2, <2>3 DEF RegInv, Stage
<1>10. CASE Issue_cmd
  <2>1. call.pc = "issue" /\ call' = [call EXCEPT !.pc = "poll"] /\ UNCHANGED <<devs, phase>>
    BY Zenon, <1>10 DEF Issue_cmd
  <2>2. CallHas("poll", call.use, call.port, call.start, call.req, call.res)
    BY ZenonT(30), <1>0, <2>1, ReturnLemma
  <2>3. call.pc # "idle" /\ call'.pc # "idle"
    BY Zenon, <2>1, <2>2 DEF CallHas
  <2> QED BY ZenonT(30), <1>c, <2>1, <2>2, <2>3 DEF CallHas
<1>11. CASE Issue_timeout \/ Poll
  <2>1. PICK res \in {"ok", "EIO"} : /\ call.pc \in {"issue", "poll"} /\ UNCHANGED <<devs, phase>>
                                    /\ call' = [call EXCEPT !.pc = "returned", !.res = res]
    BY Zenon, <1>11 DEF Issue_timeout, Poll, Return
  <2>2. CallHas("returned", call.use, call.port, call.start, call.req, res)
    BY ZenonT(30), <1>0, <2>1, ReturnLemma
  <2>3. call.pc # "idle" /\ call'.pc # "idle"
    BY Zenon, <2>1, <2>2 DEF CallHas
  <2> QED BY ZenonT(30), <1>c, <2>1, <2>2, <2>3 DEF CallHas
<1>12. CASE \E p \in Sata : Device(p) \/ Device_ready(p)
  BY Zenon, <1>12, <1>b DEF Device, Device_runs, Device_fails, Device_ready
<1>13. CASE Poll_again \/ Idle \/ UNCHANGED vars
  BY Zenon, <1>13, <1>b DEF Poll_again, Idle, vars
<1> QED BY ZenonT(30), <1>1, <1>2, <1>3, <1>4, <1>5, <1>6, <1>7, <1>8, <1>9, <1>10, <1>11, <1>12, <1>13 DEF Next, Driver

\* The smaller of two numbers.
LEMMA MinTwo ==
  ASSUME NEW a \in Nat, NEW b \in Nat
  PROVE  Min({a, b}) = IF a <= b THEN a ELSE b
<1> DEFINE S == {a, b}
<1>1. S \in SUBSET Nat /\ S # {}
  OBVIOUS
<1>2. Min(S) \in S /\ \A y \in S : Min(S) <= y
  BY Zenon, <1>1, MinLemma
<1> QED BY <1>2

\* For any ports, tables and size of the registry: when boot is over, the
\* registry lists the disks in the order of their ports and then the
\* partitions, disk by disk in the order of their tables, as many as it holds,
\* although vfs_scan_partitions() walks a list that partition_scan() appends to.
THEOREM RegistryCorrect == Spec => []RegistryInOrder
<1>1. RegInv => RegistryInOrder
  <2> SUFFICES ASSUME RegInv, phase.step = "run"
               PROVE  /\ Len(devs) = Min({Cardinality(Entries), BLOCK_DEV_MAX})
                      /\ \A d \in Entries : Rank(d) < BLOCK_DEV_MAX => devs[Rank(d) + 1] = Device_of(d)
    BY Zenon DEF RegistryInOrder
  <2>1. Listed(Entries, devs)
    BY Zenon DEF RegInv, Stage
  <2> DEFINE a == Cardinality(Entries)
             b == BLOCK_DEV_MAX
  <2>2. a \in Nat /\ b \in Nat
    BY Zenon, EntriesFinite, DiskAssumption
  <2>3. Len(devs) = IF a <= b THEN a ELSE b
    BY Zenon, <2>1 DEF Listed
  <2> HIDE DEF a, b
  <2>4. Min({a, b}) = IF a <= b THEN a ELSE b
    BY ZenonT(30), <2>2, MinTwo
  <2>5. \A d \in Entries : Rank(d) < BLOCK_DEV_MAX => devs[Rank(d) + 1] = Device_of(d)
    BY Zenon, <2>1 DEF Listed
  <2>6. Len(devs) = Min({a, b})
    BY <2>3, <2>4
  <2> QED BY ZenonT(30), <2>5, <2>6 DEF a, b
<1> QED BY <1>1, RegInvInit, RegInvStep, PTL DEF Spec

-----------------------------------------------------------------------------
(* What the controller writes.                                             *)

Ports == 0..(NPorts - 1)
Op(use) == IF use = "identify" THEN "identify" ELSE "read"
Commands == {Command(op, lba, count, iovec) : op \in {"identify", "read"}, lba \in Nat, count \in Nat, iovec \in Seq(Vector)}
PortState == [st : BOOLEAN, ci : BOOLEAN, tfes : BOOLEAN, bsy : BOOLEAN, wedged : BOOLEAN,
              cmd : Commands \cup {NoCommand}]

\* the command of the call under way
Asked == Command(Op(call.use), call.start + call.req.lba, call.req.count, call.req.iovec)

\* the sectors that the call asked for are where it wants them
Delivered ==
  call.use = "read" /\ call.req.count <= COUNT_MOD =>
    LET to == Buffers(call.req.iovec)
    IN  \A i \in 1..Min({Len(to), call.req.count * SectorSize}) :
          mem[to[i]] = <<call.port, (call.start + call.req.lba) * SectorSize + i - 1>>

\* a command that the controller may still run is the one that a call waits
\* for: an error is final, so that no early return leaves one behind
DmaInv ==
  /\ port \in [Ports -> PortState]
  /\ \A p \in Ports : port[p].tfes => port[p].wedged
  /\ \A p \in Ports : port[p].ci /\ ~port[p].wedged => call.pc = "poll" /\ call.port = p
  /\ call.pc \in {"issue", "poll"} => port[call.port].cmd = Asked
  /\ call.use = "read" => call.req \in Requests
  /\ call.pc = "poll" /\ ~port[call.port].ci => Delivered
  /\ call.pc = "returned" /\ call.res = "ok" => Delivered /\ ~port[call.port].tfes

\* A call is for a port with a disk.
LEMMA CallPort ==
  ASSUME RegInv, call.pc # "idle"
  PROVE  call.port \in Sata /\ call.port \in Ports
<1>1. call \in Calls /\ devs \in Seq(Dev) /\ phase \in Phases /\ Linked /\ Stage
  BY Zenon DEF RegInv
<1>2. phase.n \in Nat /\ phase.end \in Nat /\ call.use \in {"none", "identify", "mbr", "read"}
  BY Zenon, <1>1 DEF Phases, Calls
<1>3. call.use = "mbr" => call.port \in Sata
  BY ZenonT(30), <1>1, <1>2, ScanNext DEF Linked, Stage
<1>4. call.port \in Sata
  BY ZenonT(30), <1>1, <1>2, <1>3 DEF Linked
<1>5. Sata \subseteq Ports
  BY Zenon, DiskAssumption DEF Ports
<1> QED BY Zenon, <1>4, <1>5

\* How many bytes a command reads.
Bytes(c) == (IF c.op = "identify" THEN 1 ELSE IF c.count = 0 THEN COUNT_MOD ELSE c.count) * SectorSize

\* The bytes of a command.
LEMMA SectorsLemma ==
  ASSUME NEW p, NEW c, c.count \in Nat
  PROVE  /\ Bytes(c) \in Nat /\ Len(Sectors(p, c)) = Bytes(c)
         /\ c.op = "read" => \A i \in 1..Bytes(c) : Sectors(p, c)[i] = <<p, c.lba * SectorSize + i - 1>>
<1> DEFINE k == Bytes(c)
           V(i) == IF c.op = "identify" THEN <<p, -i>> ELSE <<p, c.lba * SectorSize + i - 1>>
           s == Sectors(p, c)
<1>1. k \in Nat
  BY DiskAssumption DEF Bytes
<1>2. s = [i \in 1..k |-> V(i)]
  BY Zenon DEF Sectors, Bytes
<1> HIDE DEF k, s
<1>3. c.op = "read" => \A i \in 1..k : s[i] = <<p, c.lba * SectorSize + i - 1>>
  BY Zenon, <1>2
<1> HIDE DEF V
<1> DEFINE X == {V(i) : i \in 1..k}
<1>4. s \in [1..k -> X]
  BY Zenon, <1>2
<1> HIDE DEF X
<1>5. Len(s) = k
  BY <1>1, <1>4
<1> QED BY ZenonT(30), <1>1, <1>3, <1>5 DEF k, s

\* A count that fits is the one the controller has, but for zero.
LEMMA CountLemma ==
  ASSUME NEW count \in Nat, count <= COUNT_MOD, count # 0, NEW c, c.op = "read", c.count = count % COUNT_MOD
  PROVE  Bytes(c) = count * SectorSize
<1>1. COUNT_MOD \in Nat \ {0}
  BY Zenon, DiskAssumption
<1>2. CASE count = COUNT_MOD
  <2>1. count = 1 * COUNT_MOD + 0 /\ 0 < COUNT_MOD /\ 0 \in Nat /\ 1 \in Nat
    BY <1>1, <1>2
  <2>2. count % COUNT_MOD = 0
    BY ZenonT(30), <1>1, <2>1, ModIs
  <2> QED BY Zenon, <1>2, <2>2 DEF Bytes
<1>3. CASE count # COUNT_MOD
  <2>1. count = 0 * COUNT_MOD + count /\ count < COUNT_MOD /\ 0 \in Nat
    BY <1>1, <1>3
  <2>2. count % COUNT_MOD = count
    BY ZenonT(30), <1>1, <2>1, ModIs
  <2> QED BY Zenon, <2>2 DEF Bytes
<1> QED BY <1>2, <1>3

\* memory after the first n bytes of from have been put where to says
Copied(to, n, from, old) ==
  [a \in DOMAIN old \cup {to[i] : i \in 1..n} |->
     IF \E i \in 1..n : to[i] = a THEN from[Max({i \in 1..n : to[i] = a})] ELSE old[a]]

OnlyThere(to, n, old, new) ==
  \A a \in DOMAIN new : (a \notin DOMAIN old \/ new[a] # old[a]) => \E i \in 1..n : to[i] = a

Filled(to, n, from, new) == \A i \in 1..n : new[to[i]] = from[i]

\* What is at each address after the controller has filled to from from.
LEMMA CopyLemma ==
  ASSUME NEW to \in Seq(Nat), NEW n \in Nat, n <= Len(to), NEW from, NEW old, NEW new,
         new = Copied(to, n, from, old)
  PROVE  /\ OnlyThere(to, n, old, new)
         /\ IsInjective(to) => Filled(to, n, from, new)
<1>1. ASSUME NEW a \in DOMAIN new, a \notin DOMAIN old \/ new[a] # old[a] PROVE \E i \in 1..n : to[i] = a
  <2>1. a \in DOMAIN old \cup {to[i] : i \in 1..n}
    BY Zenon, <1>1 DEF Copied
  <2>2. new[a] = IF \E i \in 1..n : to[i] = a THEN from[Max({i \in 1..n : to[i] = a})] ELSE old[a]
    BY Zenon, <2>1 DEF Copied
  <2> QED BY ZenonT(30), <1>1, <2>1, <2>2
<1>2. ASSUME IsInjective(to), NEW i \in 1..n PROVE new[to[i]] = from[i]
  <2> DEFINE S == {j \in 1..n : to[j] = to[i]}
  <2>1. new[to[i]] = from[Max(S)]
    BY Zenon DEF Copied
  <2>2. \A j \in S : j = i
    <3>1. \A j \in 1..n : j \in DOMAIN to
      OBVIOUS
    <3> QED BY Zenon, <1>2, <3>1 DEF IsInjective
  <2>3. S \in SUBSET Nat /\ S # {} /\ \A j \in S : j <= n
    <3>1. S \subseteq 1..n /\ i \in S
      BY Zenon
    <3>2. \A j \in 1..n : j \in Nat /\ j <= n
      OBVIOUS
    <3> HIDE DEF S
    <3> QED BY Zenon, <3>1, <3>2
  <2> HIDE DEF S
  <2>4. Max(S) \in S
    BY ZenonT(30), <2>3, MaxLemma
  <2> QED BY ZenonT(30), <2>1, <2>2, <2>4
<1> QED BY ZenonT(30), <1>1, <1>2 DEF OnlyThere, Filled

HasParts(c, op, lba, count, iovec) ==
  c.op = op /\ c.lba = lba /\ c.count = count % COUNT_MOD /\ c.prdt = Build_prdt(iovec)

\* The parts of a command.
LEMMA CommandLemma ==
  ASSUME NEW op, NEW lba, NEW count, NEW iovec, NEW c, c = Command(op, lba, count, iovec)
  PROVE  HasParts(c, op, lba, count, iovec)
BY SMTT(30) DEF Command, HasParts

\* An address of the caller's vectors.
LEMMA BuffersLemma ==
  ASSUME NEW iovec \in Seq(Vector), NEW k \in 1..Len(Buffers(iovec))
  PROVE  \E i \in DOMAIN iovec : Buffers(iovec)[k] \in iovec[i].addr..(iovec[i].addr + iovec[i].length - 1)
<1> DEFINE ss == Runs(Whole(iovec))
           x == Buffers(iovec)[k]
           n == Len(iovec)
<1>1. /\ ss \in Seq(Seq(Nat)) /\ Len(ss) = n /\ \A i \in 1..n : ss[i] = Run(iovec[i].addr, iovec[i].length)
      /\ Buffers(iovec) = Flatten(ss)
  BY Zenon, PrdtAddr
<1>2. DOMAIN iovec = 1..n /\ \A i \in 1..n : iovec[i] \in Vector
  OBVIOUS
<1> HIDE DEF ss, n
<1>3. In(x, ss)
  BY Zenon, <1>1, FlatMember
<1>4. PICK i \in 1..n : \E j \in 1..Len(ss[i]) : x = ss[i][j]
  BY Zenon, <1>1, <1>3 DEF In
<1>5. PICK j \in 1..Len(ss[i]) : x = ss[i][j]
  BY Zenon, <1>4
<1> HIDE DEF x
<1> DEFINE a == iovec[i].addr
           l == iovec[i].length
<1>6. a \in Nat /\ l \in Nat
  <2>1. iovec[i] \in Vector
    BY Zenon, <1>2
  <2> QED BY Zenon, <2>1 DEF Vector
<1>7. ss[i] = Run(a, l)
  BY Zenon, <1>1
<1> HIDE DEF a, l
<1>8. j \in 1..l /\ x = Run(a, l)[j]
  BY ZenonT(30), <1>5, <1>6, <1>7, RunType
<1>9. x = a + j - 1
  BY Zenon, <1>8 DEF Run
<1>10. x \in a..(a + l - 1)
  BY SMTT(30), <1>6, <1>8, <1>9
<1> QED BY ZenonT(30), <1>2, <1>10 DEF a, l, x

\* The controller fills the vectors of the call that waits for it, and no
\* other memory, with the sectors the call asked for.
LEMMA DeviceCopies ==
  ASSUME RegInv, DmaInv, NEW p \in Sata, Device_runs(p)
  PROVE  /\ call.pc = "poll" /\ call.port = p
         /\ \A a \in DOMAIN mem' : (a \notin DOMAIN mem \/ mem'[a] # mem[a]) =>
              \E i \in DOMAIN call.req.iovec :
                a \in call.req.iovec[i].addr..(call.req.iovec[i].addr + call.req.iovec[i].length - 1)
         /\ Delivered'
<1> DEFINE c == port[p].cmd
           q == call.req
           to == Buffers(q.iovec)
           from == Sectors(p, c)
           n == Min({Len(to), Len(from)})
           lba == call.start + q.lba
<1>1. p \in Ports
  BY Zenon, DiskAssumption DEF Ports
<1>2. call.pc = "poll" /\ call.port = p /\ c = Asked
  BY Zenon, <1>1 DEF DmaInv, Device_runs
<1>3. call \in Calls /\ q \in Request /\ call.start \in Nat /\ q.lba \in Nat /\ q.count \in Nat /\ q.iovec \in Seq(Vector)
  <2>1. call \in Calls
    BY Zenon DEF RegInv
  <2>2. q \in Request /\ call.start \in Nat
    BY Zenon, <2>1 DEF Calls
  <2> QED BY Zenon, <2>1, <2>2 DEF Request
<1>4. c.op = Op(call.use) /\ c.lba = lba /\ c.count = q.count % COUNT_MOD /\ c.prdt = Build_prdt(q.iovec)
  <2>1. c = Command(Op(call.use), lba, q.count, q.iovec)
    BY Zenon, <1>2 DEF Asked
  <2> HIDE DEF c, lba, q
  <2>2. HasParts(c, Op(call.use), lba, q.count, q.iovec)
    BY ZenonT(30), <2>1, CommandLemma
  <2> QED BY Zenon, <2>2 DEF HasParts
<1>5. Addresses(c.prdt) = to /\ to \in Seq(Nat)
  BY ZenonT(30), <1>3, <1>4, PrdtAddr
<1>6. c.count \in Nat
  <2>1. COUNT_MOD \in Nat \ {0}
    BY Zenon, DiskAssumption
  <2>2. q.count % COUNT_MOD \in Nat
    BY <1>3, <2>1
  <2> QED BY ZenonT(30), <1>4, <2>2
<1> HIDE DEF c
<1>7. /\ Bytes(c) \in Nat /\ Len(from) = Bytes(c)
      /\ c.op = "read" => \A i \in 1..Bytes(c) : from[i] = <<p, c.lba * SectorSize + i - 1>>
  BY Zenon, <1>6, SectorsLemma
<1>8. mem' = Copied(to, n, from, mem)
  BY ZenonT(30), <1>5 DEF Device_runs, Copied, c
<1>9. UNCHANGED <<devs, call, phase, reads>>
  BY Zenon DEF Device_runs
<1> HIDE DEF to, from, q
<1>10. Len(to) \in Nat
  BY <1>5
<1>11. n = IF Len(to) <= Bytes(c) THEN Len(to) ELSE Bytes(c)
  BY ZenonT(30), <1>7, <1>10, MinTwo
<1> HIDE DEF n
<1>12. n \in Nat /\ n <= Len(to) /\ \A i \in 1..n : i \in 1..Len(to) /\ i \in 1..Bytes(c)
  BY <1>7, <1>10, <1>11
<1>13. /\ OnlyThere(to, n, mem, mem')
       /\ IsInjective(to) => Filled(to, n, from, mem')
  BY ZenonT(30), <1>5, <1>8, <1>12, CopyLemma
<1>14. ASSUME NEW a \in DOMAIN mem', a \notin DOMAIN mem \/ mem'[a] # mem[a]
       PROVE  \E i \in DOMAIN q.iovec : a \in q.iovec[i].addr..(q.iovec[i].addr + q.iovec[i].length - 1)
  <2>1. PICK k \in 1..n : to[k] = a
    BY ZenonT(30), <1>13, <1>14 DEF OnlyThere
  <2>2. k \in 1..Len(Buffers(q.iovec)) /\ Buffers(q.iovec)[k] = a
    BY ZenonT(30), <1>12, <2>1 DEF to
  <2> QED BY ZenonT(30), <1>3, <2>2, BuffersLemma
<1>15. ASSUME call.use = "read", q.count <= COUNT_MOD, NEW i \in 1..Min({Len(to), q.count * SectorSize})
       PROVE  mem'[to[i]] = <<call.port, lba * SectorSize + i - 1>>
  <2>1. c.op = "read"
    BY ZenonT(30), <1>4, <1>15 DEF Op
  <2>2. IsInjective(to)
    <3>1. q \in Requests
      BY Zenon, <1>15 DEF DmaInv, q
    <3> QED BY ZenonT(30), <3>1, BufferAssumption DEF to
  <2> DEFINE b == q.count * SectorSize
  <2>3. SectorSize \in Nat /\ b \in Nat
    BY <1>3, DiskAssumption
  <2>4. Min({Len(to), b}) = IF Len(to) <= b THEN Len(to) ELSE b
    BY ZenonT(30), <1>10, <2>3, MinTwo
  <2>5. q.count # 0
    <3>1. ASSUME q.count = 0 PROVE FALSE
      <4>1. b = 0
        BY <2>3, <3>1
      <4> HIDE DEF b
      <4>2. i \in 1..Min({Len(to), b})
        BY Zenon DEF b
      <4> QED BY SMTT(30), <1>10, <2>4, <4>1, <4>2
    <3> QED BY Zenon, <3>1
  <2>6. Bytes(c) = b
    BY ZenonT(30), <1>3, <1>4, <1>15, <2>1, <2>5, CountLemma
  <2>7. i \in 1..n
    <3>1. i \in 1..Min({Len(to), b})
      OBVIOUS
    <3> HIDE DEF b
    <3> QED BY SMTT(30), <1>7, <1>10, <1>11, <2>4, <2>6, <3>1
  <2>8. from[i] = <<p, c.lba * SectorSize + i - 1>>
    BY ZenonT(30), <1>7, <1>12, <2>1, <2>7
  <2> QED BY ZenonT(30), <1>2, <1>4, <1>13, <2>2, <2>7, <2>8 DEF Filled
<1>16. Delivered'
  <2>1. call' = call
    BY Zenon, <1>9
  <2> QED BY ZenonT(30), <1>15, <2>1 DEF Delivered, to, q
<1> QED BY ZenonT(30), <1>2, <1>14, <1>16 DEF q

\* port p has these registers now, and the others are as they were
Updated(p, ci, tfes, wedged, cmd) ==
  /\ port' \in [Ports -> PortState] /\ \A r \in Ports : r # p => port'[r] = port[r]
  /\ port'[p].ci = ci /\ port'[p].tfes = tfes /\ port'[p].wedged = wedged /\ port'[p].cmd = cmd

\* A port's record is replaced.
LEMMA PortIs ==
  ASSUME port \in [Ports -> PortState], NEW p \in Ports, NEW r \in PortState, port' = [port EXCEPT ![p] = r]
  PROVE  Updated(p, r.ci, r.tfes, r.wedged, r.cmd)
<1>1. port' \in [Ports -> PortState] /\ port'[p] = r /\ \A s \in Ports : s # p => port'[s] = port[s]
  BY Zenon
<1> QED BY Zenon, <1>1 DEF Updated

\* Each register of it that changes.
LEMMA PortLemma ==
  ASSUME port \in [Ports -> PortState], NEW p \in Ports
  PROVE  LET r == port[p]
         IN  /\ port' = [port EXCEPT ![p].ci = FALSE] => Updated(p, FALSE, r.tfes, r.wedged, r.cmd)
             /\ port' = [port EXCEPT ![p].bsy = FALSE] => Updated(p, r.ci, r.tfes, r.wedged, r.cmd)
             /\ port' = [port EXCEPT ![p].tfes = FALSE, ![p].ci = TRUE] => Updated(p, TRUE, FALSE, r.wedged, r.cmd)
             /\ port' = [port EXCEPT ![p].st = TRUE] => Updated(p, r.ci, r.tfes, r.wedged, r.cmd)
             /\ \A b \in BOOLEAN : port' = [port EXCEPT ![p].tfes = TRUE, ![p].wedged = TRUE, ![p].bsy = b] =>
                  Updated(p, r.ci, TRUE, TRUE, r.cmd)
             /\ \A c \in Commands : port' = [port EXCEPT ![p].cmd = c] => Updated(p, r.ci, r.tfes, r.wedged, c)
             /\ \A c \in Commands : port' = [[port EXCEPT ![p].st = TRUE] EXCEPT ![p].cmd = c] =>
                  Updated(p, r.ci, r.tfes, r.wedged, c)
<1> DEFINE r == port[p]
<1>1. r \in PortState
  BY Zenon
<1>2. ASSUME port' = [port EXCEPT ![p].ci = FALSE] PROVE Updated(p, FALSE, r.tfes, r.wedged, r.cmd)
  <2> DEFINE n == [r EXCEPT !.ci = FALSE]
  <2>1. port' = [port EXCEPT ![p] = n]
    BY Zenon, <1>2
  <2>2. n \in PortState /\ n.ci = FALSE /\ n.tfes = r.tfes /\ n.wedged = r.wedged /\ n.cmd = r.cmd
    BY Zenon, <1>1 DEF PortState
  <2> HIDE DEF n
  <2> QED BY ZenonT(30), <2>1, <2>2, PortIs
<1>3. ASSUME port' = [port EXCEPT ![p].bsy = FALSE] PROVE Updated(p, r.ci, r.tfes, r.wedged, r.cmd)
  <2> DEFINE n == [r EXCEPT !.bsy = FALSE]
  <2>1. port' = [port EXCEPT ![p] = n]
    BY Zenon, <1>3
  <2>2. n \in PortState /\ n.ci = r.ci /\ n.tfes = r.tfes /\ n.wedged = r.wedged /\ n.cmd = r.cmd
    BY Zenon, <1>1 DEF PortState
  <2> HIDE DEF n
  <2> QED BY ZenonT(30), <2>1, <2>2, PortIs
<1>4. ASSUME port' = [port EXCEPT ![p].tfes = FALSE, ![p].ci = TRUE] PROVE Updated(p, TRUE, FALSE, r.wedged, r.cmd)
  <2> DEFINE n == [r EXCEPT !.tfes = FALSE, !.ci = TRUE]
  <2>1. port' = [port EXCEPT ![p] = n]
    BY Zenon, <1>4
  <2>2. n \in PortState /\ n.ci = TRUE /\ n.tfes = FALSE /\ n.wedged = r.wedged /\ n.cmd = r.cmd
    BY Zenon, <1>1 DEF PortState
  <2> HIDE DEF n
  <2> QED BY ZenonT(30), <2>1, <2>2, PortIs
<1>5. ASSUME NEW b \in BOOLEAN, port' = [port EXCEPT ![p].tfes = TRUE, ![p].wedged = TRUE, ![p].bsy = b]
      PROVE  Updated(p, r.ci, TRUE, TRUE, r.cmd)
  <2> DEFINE n == [r EXCEPT !.tfes = TRUE, !.wedged = TRUE, !.bsy = b]
  <2>1. port' = [port EXCEPT ![p] = n]
    BY Zenon, <1>5
  <2>2. n \in PortState /\ n.ci = r.ci /\ n.tfes = TRUE /\ n.wedged = TRUE /\ n.cmd = r.cmd
    BY Zenon, <1>1 DEF PortState
  <2> HIDE DEF n
  <2> QED BY ZenonT(30), <2>1, <2>2, PortIs
<1>6. ASSUME NEW c \in Commands, port' = [port EXCEPT ![p].cmd = c] PROVE Updated(p, r.ci, r.tfes, r.wedged, c)
  <2> DEFINE n == [r EXCEPT !.cmd = c]
  <2>1. port' = [port EXCEPT ![p] = n]
    BY Zenon, <1>6
  <2>2. n \in PortState /\ n.ci = r.ci /\ n.tfes = r.tfes /\ n.wedged = r.wedged /\ n.cmd = c
    BY ZenonT(30), <1>1 DEF PortState
  <2> HIDE DEF n
  <2> QED BY ZenonT(30), <2>1, <2>2, PortIs
<1>7. ASSUME NEW c \in Commands, port' = [[port EXCEPT ![p].st = TRUE] EXCEPT ![p].cmd = c]
      PROVE  Updated(p, r.ci, r.tfes, r.wedged, c)
  <2> DEFINE n == [[r EXCEPT !.st = TRUE] EXCEPT !.cmd = c]
  <2>1. port' = [port EXCEPT ![p] = n]
    BY Zenon, <1>7
  <2>2. n \in PortState /\ n.ci = r.ci /\ n.tfes = r.tfes /\ n.wedged = r.wedged /\ n.cmd = c
    BY ZenonT(30), <1>1 DEF PortState
  <2> HIDE DEF n
  <2> QED BY Zenon, <2>1, <2>2, PortIs
<1>8. ASSUME port' = [port EXCEPT ![p].st = TRUE] PROVE Updated(p, r.ci, r.tfes, r.wedged, r.cmd)
  <2> DEFINE n == [r EXCEPT !.st = TRUE]
  <2>1. port' = [port EXCEPT ![p] = n]
    BY Zenon, <1>8
  <2>2. n \in PortState /\ n.ci = r.ci /\ n.tfes = r.tfes /\ n.wedged = r.wedged /\ n.cmd = r.cmd
    BY Zenon, <1>1 DEF PortState
  <2> HIDE DEF n
  <2> QED BY Zenon, <2>1, <2>2, PortIs
<1> QED BY ZenonT(30), <1>2, <1>3, <1>4, <1>5, <1>6, <1>7, <1>8

SameCall == call'.use = call.use /\ call'.port = call.port /\ call'.start = call.start /\ call'.req = call.req

\* What has been delivered stays, while nothing is written.
LEMMA DeliveredKept ==
  ASSUME SameCall, mem' = mem
  PROVE  (Delivered => Delivered') /\ Asked' = Asked
BY Zenon DEF SameCall, Delivered, Asked

\* A command of a request is one.
LEMMA AskedType ==
  ASSUME NEW op \in {"identify", "read"}, NEW start \in Nat, NEW q \in Request
  PROVE  Command(op, start + q.lba, q.count, q.iovec) \in Commands
<1>1. q.lba \in Nat /\ q.count \in Nat /\ q.iovec \in Seq(Vector)
  BY Zenon DEF Request
<1>2. start + q.lba \in Nat
  BY <1>1
<1> QED BY SMTT(30), <1>1, <1>2 DEF Commands

\* Before the first command nothing is asked for.
LEMMA DmaInvInit == Init => DmaInv
<1> SUFFICES ASSUME Init PROVE DmaInv
  OBVIOUS
<1>1. call.pc = "idle" /\ call.use = "none"
  BY DEF Init, NoCall
<1>2. port \in [Ports -> [st : {FALSE}, ci : {FALSE}, tfes : {FALSE}, bsy : BOOLEAN, wedged : {FALSE}, cmd : {NoCommand}]]
  BY Zenon DEF Init, Ports
<1>3. \A p \in Ports : port[p] \in [st : {FALSE}, ci : {FALSE}, tfes : {FALSE}, bsy : BOOLEAN, wedged : {FALSE}, cmd : {NoCommand}]
  BY Zenon, <1>2
<1>4. \A p \in Ports : port[p] \in PortState /\ port[p].ci = FALSE /\ port[p].tfes = FALSE
  BY Zenon, <1>3 DEF PortState
<1>5. port \in [Ports -> PortState]
  BY ZenonT(30), <1>2, <1>4
<1> QED BY ZenonT(30), <1>1, <1>4, <1>5 DEF DmaInv

\* Every step of the driver and of the controller keeps that.
LEMMA DmaInvStep == RegInv /\ RegInv' /\ DmaInv /\ [Next]_vars => DmaInv'
<1> SUFFICES ASSUME RegInv, RegInv', DmaInv, [Next]_vars PROVE DmaInv'
  OBVIOUS
<1>0. /\ port \in [Ports -> PortState]
      /\ \A p \in Ports : port[p].tfes => port[p].wedged
      /\ \A p \in Ports : port[p].ci /\ ~port[p].wedged => call.pc = "poll" /\ call.port = p
      /\ call.pc \in {"issue", "poll"} => port[call.port].cmd = Asked
      /\ call.use = "read" => call.req \in Requests
      /\ call.pc = "poll" /\ ~port[call.port].ci => Delivered
      /\ call.pc = "returned" /\ call.res = "ok" => Delivered /\ ~port[call.port].tfes
  BY Zenon DEF DmaInv
<1>a. call \in Calls /\ call' \in Calls /\ devs \in Seq(Dev) /\ phase \in Phases /\ Linked /\ Stage
  BY Zenon DEF RegInv
<1>b. Sata \subseteq Ports
  BY Zenon, DiskAssumption DEF Ports
<1>1. ASSUME UNCHANGED <<port, mem, call>> PROVE DmaInv'
  <2>1. port' = port /\ mem' = mem /\ call' = call
    BY Zenon, <1>1
  <2>2. SameCall
    BY Zenon, <2>1 DEF SameCall
  <2>3. (Delivered => Delivered') /\ Asked' = Asked
    BY ZenonT(30), <2>1, <2>2, DeliveredKept
  <2> QED BY ZenonT(30), <1>0, <2>1, <2>3 DEF DmaInv
<1>2. ASSUME UNCHANGED <<port, mem>>, call' = NoCall, call.pc # "poll" PROVE DmaInv'
  <2>1. port' = port /\ mem' = mem /\ call'.pc = "idle" /\ call'.use = "none"
    BY ZenonT(30), <1>2, NoCallLemma
  <2> QED BY ZenonT(30), <1>0, <1>2, <2>1 DEF DmaInv
<1>3. ASSUME NEW p \in Sata, NEW op \in {"identify", "read"}, NEW start \in Nat, NEW q \in Request,
             NEW use \in {"identify", "mbr", "read"}, NEW ports, ports = port \/ ports = Ahci_init_port(p),
             Begin(ports, p, op, start, q, use), mem' = mem, call.pc = "idle", op = Op(use),
             use = "read" => q \in Requests
      PROVE  DmaInv'
  <2>1. p \in Nat /\ p \in Ports
    BY ZenonT(30), <1>3, <1>b, SataType
  <2>2. Begun(ports, p, op, start, q, use)
    BY ZenonT(30), <1>3, <2>1, BeginLemma
  <2> DEFINE c == Command(op, start + q.lba, q.count, q.iovec)
             r == port[p]
  <2>3. c \in Commands
    BY ZenonT(30), <1>3, AskedType
  <2>4. /\ call'.pc \in {"issue", "returned"} /\ call'.use = use /\ call'.port = p
        /\ call'.start = start /\ call'.req = q /\ call'.res # "ok"
        /\ call'.pc = "returned" => port' = ports
        /\ call'.pc = "issue" => port' = [ports EXCEPT ![p].cmd = c]
    BY Zenon, <2>2 DEF Begun
  <2>5. Asked' = c
    BY ZenonT(30), <1>3, <2>4 DEF Asked
  <2> HIDE DEF c
  <2>6. ASSUME call'.pc = "issue" PROVE Updated(p, r.ci, r.tfes, r.wedged, c)
    BY ZenonT(30), <1>0, <1>3, <2>1, <2>3, <2>4, <2>6, PortLemma DEF Ahci_init_port
  <2>7. ASSUME call'.pc = "returned" PROVE port' = port \/ Updated(p, r.ci, r.tfes, r.wedged, r.cmd)
    BY ZenonT(30), <1>0, <1>3, <2>1, <2>3, <2>4, <2>7, PortLemma DEF Ahci_init_port
  <2>8. port' \in [Ports -> PortState]
    BY ZenonT(30), <1>0, <2>4, <2>6, <2>7 DEF Updated
  <2>9. ASSUME NEW s \in Ports
        PROVE  port'[s].ci = port[s].ci /\ port'[s].tfes = port[s].tfes /\ port'[s].wedged = port[s].wedged
    BY ZenonT(30), <2>4, <2>6, <2>7 DEF Updated
  <2>10. \A s \in Ports : (port'[s].tfes => port'[s].wedged) /\ ~(port'[s].ci /\ ~port'[s].wedged)
    BY ZenonT(30), <1>0, <1>3, <2>9
  <2>11. call'.pc \in {"issue", "poll"} => port'[call'.port].cmd = Asked'
    BY ZenonT(30), <2>4, <2>5, <2>6 DEF Updated
  <2>12. call'.use = "read" => call'.req \in Requests
    BY ZenonT(30), <1>3, <2>4
  <2>13. ~(call'.pc = "poll") /\ ~(call'.pc = "returned" /\ call'.res = "ok")
    BY Zenon, <2>4
  <2> QED BY ZenonT(30), <2>8, <2>10, <2>11, <2>12, <2>13 DEF DmaInv
<1>4. CASE Probe_port
  <2>1. /\ phase.step = "probe" /\ phase.n < phase.end /\ call.pc = "idle" /\ mem' = mem
        /\ IF phase.n \in Sata
           THEN Begin(Ahci_init_port(phase.n), phase.n, "identify", 0,
                      [lba |-> 0, count |-> 0, iovec |-> Buffer(SectorSize)], "identify")
           ELSE UNCHANGED <<port, call>>
    BY Zenon, <1>4 DEF Probe_port
  <2>2. CASE phase.n \in Sata
    <3> DEFINE q == [lba |-> 0, count |-> 0, iovec |-> Buffer(SectorSize)]
    <3>1. q \in Request /\ 0 \in Nat
      BY BufferLemma
    <3> HIDE DEF q
    <3>2. Begin(Ahci_init_port(phase.n), phase.n, "identify", 0, q, "identify")
      BY ZenonT(30), <2>1, <2>2 DEF q
    <3>3. "identify" = Op("identify")
      BY Zenon DEF Op
    <3> QED BY ZenonT(30), <1>3, <2>1, <2>2, <3>1, <3>2, <3>3
  <2>3. CASE phase.n \notin Sata
    BY ZenonT(30), <1>1, <2>1, <2>3
  <2> QED BY <2>2, <2>3
<1>5. CASE Scan_disk
  <2> DEFINE d == devs[phase.n]
             q == [lba |-> 0, count |-> 1, iovec |-> Buffer(SectorSize)]
  <2>1. /\ phase.step = "scan" /\ phase.n <= phase.end /\ call.pc = "idle" /\ mem' = mem
        /\ Begin(port, d.port, "read", d.lba_start, q, "mbr")
    BY Zenon, <1>5 DEF Scan_disk
  <2>2. q \in Request
    BY BufferLemma
  <2> HIDE DEF q
  <2>3. phase.n \in Nat /\ phase.end \in Nat
    BY Zenon, <1>a DEF Phases
  <2>4. phase.n \in DOMAIN devs
    BY ZenonT(30), <1>a, <2>1, <2>3, ScanNext DEF Stage
  <2>5. d \in Dev
    BY <1>a, <2>4
  <2>6. d.port \in Sata /\ d.lba_start \in Nat /\ "read" = Op("mbr")
    BY Zenon, <2>5 DEF Dev, Op
  <2> QED BY ZenonT(30), <1>3, <2>1, <2>2, <2>6
<1>6. ASSUME NEW i \in DOMAIN devs, NEW q \in Requests, Read(devs[i], q) PROVE DmaInv'
  <2>1. /\ call.pc = "idle" /\ mem' = mem
        /\ Begin(port, devs[i].port, "read", devs[i].lba_start, q, "read")
    BY Zenon, <1>6 DEF Read
  <2>2. devs[i] \in Dev
    BY <1>a
  <2>3. devs[i].port \in Sata /\ devs[i].lba_start \in Nat /\ "read" = Op("read")
    BY Zenon, <2>2 DEF Dev, Op
  <2>4. q \in Request
    BY Zenon, DiskAssumption DEF Request, Vector
  <2> QED BY ZenonT(30), <1>3, <1>6, <2>1, <2>3, <2>4
<1>7. CASE Identified \/ Scanned \/ Read_returns
  <2>1. call.pc # "poll" /\ call' = NoCall /\ UNCHANGED <<port, mem>>
    BY Zenon, <1>7 DEF Identified, Scanned, Read_returns
  <2> QED BY ZenonT(30), <1>2, <2>1
<1>8. CASE Boot_fails \/ Scan_begins \/ Booted \/ Poll_again \/ Idle \/ UNCHANGED vars
  BY ZenonT(30), <1>1, <1>8 DEF Boot_fails, Scan_begins, Booted, Poll_again, Idle, vars
<1>9. CASE Issue_cmd
  <2> DEFINE p == call.port
             r == port[p]
  <2>1. /\ call.pc = "issue" /\ port' = [port EXCEPT ![p].tfes = FALSE, ![p].ci = TRUE]
        /\ call' = [call EXCEPT !.pc = "poll"] /\ mem' = mem
    BY Zenon, <1>9 DEF Issue_cmd
  <2>2. CallHas("poll", call.use, call.port, call.start, call.req, call.res)
    BY ZenonT(30), <1>a, <2>1, ReturnLemma
  <2>3. call'.pc = "poll" /\ SameCall
    BY Zenon, <2>2 DEF CallHas, SameCall
  <2>4. Asked' = Asked
    BY ZenonT(30), <2>1, <2>3, DeliveredKept
  <2>5. p \in Ports
    <3>1. call.pc # "idle"
      BY Zenon, <2>1
    <3> QED BY ZenonT(30), <3>1, CallPort
  <2>6. Updated(p, TRUE, FALSE, r.wedged, r.cmd)
    BY ZenonT(30), <1>0, <2>1, <2>5, PortLemma
  <2>7. \A s \in Ports : port'[s].tfes => port'[s].wedged
    BY ZenonT(30), <1>0, <2>6 DEF Updated
  <2>8. \A s \in Ports : port'[s].ci /\ ~port'[s].wedged => s = p
    <3>1. call.pc # "poll"
      BY Zenon, <2>1
    <3> QED BY ZenonT(30), <1>0, <2>6, <3>1 DEF Updated
  <2>9. port'[call'.port].cmd = Asked' /\ port'[call'.port].ci
    BY ZenonT(30), <1>0, <2>1, <2>3, <2>4, <2>6 DEF Updated, SameCall
  <2>10. call'.use = "read" => call'.req \in Requests
    BY ZenonT(30), <1>0, <2>3 DEF SameCall
  <2>11. port' \in [Ports -> PortState]
    BY Zenon, <2>6 DEF Updated
  <2> QED BY ZenonT(30), <2>3, <2>7, <2>8, <2>9, <2>10, <2>11 DEF DmaInv, SameCall
<1>10. ASSUME NEW res \in {"ok", "EIO"}, Return(res), UNCHANGED <<port, mem>>, call.pc \in {"issue", "poll"},
              call.pc = "poll" => ~port[call.port].ci \/ port[call.port].tfes,
              res = "ok" => call.pc = "poll" /\ ~port[call.port].tfes
       PROVE  DmaInv'
  <2>1. CallHas("returned", call.use, call.port, call.start, call.req, res)
    BY ZenonT(30), <1>10, <1>a, ReturnLemma DEF Return
  <2>2. call'.pc = "returned" /\ call'.res = res /\ SameCall /\ mem' = mem /\ port' = port
    BY ZenonT(30), <1>10, <2>1 DEF CallHas, SameCall
  <2>3. Delivered => Delivered'
    BY ZenonT(30), <2>2, DeliveredKept
  <2>4. call.port \in Ports
    <3>1. call.pc # "idle"
      BY Zenon, <1>10
    <3> QED BY ZenonT(30), <3>1, CallPort
  <2>5. \A s \in Ports : ~(port[s].ci /\ ~port[s].wedged)
    BY ZenonT(30), <1>0, <1>10, <2>4
  <2>6. res = "ok" => Delivered' /\ ~port'[call'.port].tfes
    BY ZenonT(30), <1>0, <1>10, <2>2, <2>3 DEF SameCall
  <2> QED BY ZenonT(30), <1>0, <2>2, <2>5, <2>6 DEF DmaInv, SameCall
<1>11. CASE Issue_timeout
  <2>1. call.pc = "issue" /\ Return("EIO") /\ UNCHANGED <<port, mem>>
    BY Zenon, <1>11 DEF Issue_timeout
  <2> QED BY ZenonT(30), <1>10, <2>1
<1>12. CASE Poll
  <2>1. /\ call.pc = "poll" /\ (~port[call.port].ci \/ port[call.port].tfes)
        /\ Return(IF port[call.port].tfes THEN "EIO" ELSE "ok") /\ UNCHANGED <<port, mem>>
    BY Zenon, <1>12 DEF Poll
  <2>2. CASE port[call.port].tfes
    <3>1. Return("EIO")
      BY ZenonT(30), <2>1, <2>2
    <3> QED BY ZenonT(30), <1>10, <2>1, <2>2, <3>1
  <2>3. CASE ~port[call.port].tfes
    <3>1. Return("ok")
      BY ZenonT(30), <2>1, <2>3
    <3> QED BY ZenonT(30), <1>10, <2>1, <2>3, <3>1
  <2> QED BY <2>2, <2>3
<1>13. ASSUME NEW p \in Sata, Device_runs(p) PROVE DmaInv'
  <2> DEFINE r == port[p]
  <2>1. port' = [port EXCEPT ![p].ci = FALSE] /\ call' = call
    BY Zenon, <1>13 DEF Device_runs
  <2>2. call.pc = "poll" /\ call.port = p /\ Delivered'
    BY ZenonT(30), <1>13, DeviceCopies
  <2>3. p \in Ports
    BY Zenon, <1>b
  <2>4. Updated(p, FALSE, r.tfes, r.wedged, r.cmd)
    BY ZenonT(30), <1>0, <2>1, <2>3, PortLemma
  <2>5. \A s \in Ports : port'[s].tfes => port'[s].wedged
    BY ZenonT(30), <1>0, <2>4 DEF Updated
  <2>6. \A s \in Ports : port'[s].ci /\ ~port'[s].wedged => s = p
    BY ZenonT(30), <1>0, <2>2, <2>4 DEF Updated
  <2>7. port'[p].cmd = Asked'
    <3>1. Asked' = Asked
      BY Zenon, <2>1 DEF Asked
    <3> QED BY ZenonT(30), <1>0, <2>2, <2>4, <3>1 DEF Updated
  <2>8. port' \in [Ports -> PortState]
    BY Zenon, <2>4 DEF Updated
  <2>9. call'.pc = "poll" /\ call'.port = p /\ call'.use = call.use /\ call'.req = call.req
    BY ZenonT(30), <2>1, <2>2
  <2> QED BY ZenonT(30), <1>0, <2>2, <2>5, <2>6, <2>7, <2>8, <2>9 DEF DmaInv
<1>14. ASSUME NEW p \in Sata, Device_fails(p) PROVE DmaInv'
  <2> DEFINE r == port[p]
  <2>1. PICK busy \in BOOLEAN :
          /\ r.ci /\ ~r.wedged /\ call' = call /\ mem' = mem
          /\ port' = [port EXCEPT ![p].tfes = TRUE, ![p].wedged = TRUE, ![p].bsy = busy]
    BY Zenon, <1>14 DEF Device_fails
  <2>2. p \in Ports
    BY Zenon, <1>b
  <2>3. call.pc = "poll" /\ call.port = p
    BY ZenonT(30), <1>0, <2>1, <2>2
  <2>4. Updated(p, r.ci, TRUE, TRUE, r.cmd)
    BY ZenonT(30), <1>0, <2>1, <2>2, PortLemma
  <2>5. \A s \in Ports : port'[s].tfes => port'[s].wedged
    BY ZenonT(30), <1>0, <2>4 DEF Updated
  <2>6. \A s \in Ports : port'[s].ci /\ ~port'[s].wedged => s = p
    BY ZenonT(30), <1>0, <2>3, <2>4 DEF Updated
  <2>7. port'[p].cmd = Asked' /\ port'[p].ci
    <3>1. Asked' = Asked
      BY Zenon, <2>1 DEF Asked
    <3> QED BY ZenonT(30), <1>0, <2>1, <2>3, <2>4, <3>1 DEF Updated
  <2>8. port' \in [Ports -> PortState]
    BY Zenon, <2>4 DEF Updated
  <2>9. call'.pc = "poll" /\ call'.port = p /\ call'.use = call.use /\ call'.req = call.req
    BY ZenonT(30), <2>1, <2>3
  <2> QED BY ZenonT(30), <1>0, <2>5, <2>6, <2>7, <2>8, <2>9 DEF DmaInv
<1>15. ASSUME NEW p \in Sata, Device_ready(p) PROVE DmaInv'
  <2> DEFINE r == port[p]
  <2>1. call' = call /\ mem' = mem /\ port' = [port EXCEPT ![p].bsy = FALSE]
    BY ZenonT(30), <1>15 DEF Device_ready
  <2>2. p \in Ports
    BY Zenon, <1>b
  <2>3. Updated(p, r.ci, r.tfes, r.wedged, r.cmd)
    BY ZenonT(30), <1>0, <2>1, <2>2, PortLemma
  <2>4. \A s \in Ports : /\ port'[s].ci = port[s].ci /\ port'[s].tfes = port[s].tfes
                         /\ port'[s].wedged = port[s].wedged /\ port'[s].cmd = port[s].cmd
    BY Zenon, <2>3 DEF Updated
  <2>5. port' \in [Ports -> PortState]
    BY Zenon, <2>3 DEF Updated
  <2>6. SameCall
    BY Zenon, <2>1 DEF SameCall
  <2>7. (Delivered => Delivered') /\ Asked' = Asked
    BY ZenonT(30), <2>1, <2>6, DeliveredKept
  <2>8. call.pc # "idle" => call.port \in Ports
    BY Zenon, CallPort
  <2>9. \A s \in Ports : port'[s].tfes => port'[s].wedged
    BY ZenonT(30), <1>0, <2>4
  <2>10. \A s \in Ports : port'[s].ci /\ ~port'[s].wedged => call'.pc = "poll" /\ call'.port = s
    BY ZenonT(30), <1>0, <2>1, <2>4
  <2>11. call'.pc \in {"issue", "poll"} => port'[call'.port].cmd = Asked'
    BY ZenonT(30), <1>0, <2>1, <2>4, <2>7, <2>8
  <2>12. call'.pc = "poll" /\ ~port'[call'.port].ci => Delivered'
    BY ZenonT(30), <1>0, <2>1, <2>4, <2>7, <2>8
  <2>13. call'.pc = "returned" /\ call'.res = "ok" => Delivered' /\ ~port'[call'.port].tfes
    BY ZenonT(30), <1>0, <2>1, <2>4, <2>7, <2>8
  <2>14. call'.use = "read" => call'.req \in Requests
    BY ZenonT(30), <1>0, <2>1
  <2> QED BY ZenonT(30), <2>5, <2>9, <2>10, <2>11, <2>12, <2>13, <2>14 DEF DmaInv
<1> QED BY ZenonT(30), <1>4, <1>5, <1>6, <1>7, <1>8, <1>9, <1>11, <1>12, <1>13, <1>14, <1>15 DEF Next, Driver, Device

\* Both hold from boot on.
LEMMA DmaInvAlways == Spec => [](RegInv /\ DmaInv)
<1>1. RegInv /\ DmaInv /\ [Next]_vars => RegInv' /\ DmaInv'
  BY Zenon, RegInvStep, DmaInvStep
<1> QED BY <1>1, RegInvInit, DmaInvInit, PTL DEF Spec

\* For any ports, requests and sizes of sectors, regions and tables: a call
\* that returns 0 has met no error, and a read that returns 0 has filled the
\* caller's vectors, in order, with the sectors asked for, counted from the
\* start of the partition, whatever descriptors ahci_build_prdt() has cut them
\* into and whatever errors there were before.
THEOREM ReadCorrect == Spec => []ReadDelivers
<1>1. RegInv /\ DmaInv => ReadDelivers
  BY Zenon DEF DmaInv, Delivered, ReadDelivers
<1> QED BY <1>1, DmaInvAlways, PTL

\* The controller writes memory only while a call waits for it, and only in
\* that call's vectors: no early return of ahci_issue_cmd() leaves a command
\* behind.
THEOREM DmaCorrect == Spec => DmaOnlyDuringCall
<1>1. ASSUME RegInv, DmaInv, Next, mem' # mem
      PROVE  /\ call.pc = "poll"
             /\ \A a \in DOMAIN mem' : (a \notin DOMAIN mem \/ mem'[a] # mem[a]) =>
                  \E i \in DOMAIN call.req.iovec :
                    a \in call.req.iovec[i].addr..(call.req.iovec[i].addr + call.req.iovec[i].length - 1)
  <2>1. PICK p \in Sata : Device_runs(p)
    BY Zenon, <1>1 DEF Next, Driver, Boot_fails, Poll_again, Idle, Read, Device, Device_fails, Device_ready,
       Probe_port, Identified, Scan_begins, Scan_disk, Scanned, Booted, Read_returns, Issue_cmd, Issue_timeout, Poll, vars
  <2> QED BY ZenonT(30), <1>1, <2>1, DeviceCopies
<1>2. RegInv /\ DmaInv /\ [Next]_vars =>
        [mem' # mem =>
           /\ call.pc = "poll"
           /\ \A a \in DOMAIN mem' : (a \notin DOMAIN mem \/ mem'[a] # mem[a]) =>
                \E i \in DOMAIN call.req.iovec :
                  a \in call.req.iovec[i].addr..(call.req.iovec[i].addr + call.req.iovec[i].length - 1)]_vars
  BY Zenon, <1>1
<1> QED BY <1>2, DmaInvAlways, PTL DEF Spec, DmaOnlyDuringCall
=============================================================================
