------------------------------- MODULE ListProofs -------------------------------
(***************************************************************************)
(* What the operators of Lists compute, for every list: induction and      *)
(* recursion over an interval, what an erasure leaves, what a list weighs, *)
(* and lists without repetition.                                           *)
(***************************************************************************)
EXTENDS Lists, Functions, TLAPS, WellFoundedInduction, FiniteSetTheorems

-----------------------------------------------------------------------------
(* Induction and recursion over an interval.                               *)

\* Induction up to n, for a set G of numbers.
LEMMA UpTo ==
    ASSUME NEW n \in Nat, NEW G, 0 \in G, \A i \in 1 .. n : i - 1 \in G => i \in G
    PROVE  \A i \in 0 .. n : i \in G
<1> DEFINE R == {ss \in Nat \X Nat : ss[1] < ss[2]}
           T == {i \in 0 .. n : i \notin G}
<1>1. IsWellFoundedOn(R, Nat)
  BY NatLessThanWellFounded, Zenon DEF OpToRel
<1> SUFFICES ASSUME T # {} PROVE FALSE
  BY Zenon
<1>2. T \subseteq Nat
  OBVIOUS
<1>3. PICK m \in T : \A k \in T : ~(<<k, m>> \in R)
  <2> HIDE DEF R, T
  <2> QED
    BY <1>1, <1>2, WFMin
<1>4. m \in 0 .. n /\ m \notin G
  BY Zenon
<1>5. m # 0
  BY <1>4
<1>6. m \in 1 .. n /\ m - 1 \in 0 .. n
  BY <1>4, <1>5
<1>7. m - 1 \in T
  BY <1>4, <1>6
<1>8. <<m - 1, m>> \in Nat \X Nat /\ <<m - 1, m>>[1] = m - 1 /\ <<m - 1, m>>[2] = m /\ m - 1 < m
  BY <1>6
<1>9. <<m - 1, m>> \in R
  BY <1>8, Zenon
<1> QED
  BY <1>3, <1>7, <1>9, Zenon

\* f is computed from v by the steps of g.
Computes(f, n, v, g) == f = [i \in 0 .. n |-> IF i = 0 THEN v ELSE g[<<i, f[i - 1]>>]]

\* Recursion up to n.
LEMMA RecursionExists ==
    ASSUME NEW n \in Nat, NEW v, NEW g
    PROVE  \E f : Computes(f, n, v, g)
<1> DEFINE G == {k \in 0 .. n : \E f : Computes(f, k, v, g)}
<1>1. 0 \in G
  <2>1. Computes([i \in 0 .. 0 |-> v], 0, v, g)
    BY DEF Computes
  <2>2. 0 \in 0 .. n
    OBVIOUS
  <2> QED
    BY <2>1, <2>2, Zenon
<1>2. ASSUME NEW m \in 1 .. n, m - 1 \in G
      PROVE  m \in G
  <2>1. PICK f : Computes(f, m - 1, v, g)
    BY <1>2, Zenon
  <2> DEFINE h == [i \in 0 .. m |-> IF i = m THEN g[<<m, f[m - 1]>>] ELSE f[i]]
  <2>2. ASSUME NEW i \in 0 .. m
        PROVE  h[i] = IF i = 0 THEN v ELSE g[<<i, h[i - 1]>>]
    <3>1. CASE i = 0
      <4>1. 0 \in 0 .. m - 1 /\ h[0] = f[0]
        OBVIOUS
      <4>2. f[0] = v
        BY <2>1, <4>1 DEF Computes
      <4> QED
        BY <3>1, <4>1, <4>2
    <3>2. CASE i = m
      <4>1. h[i - 1] = f[m - 1] /\ h[i] = g[<<m, f[m - 1]>>] /\ i # 0
        BY <3>2
      <4> QED
        BY <3>2, <4>1, Zenon
    <3>3. CASE i # 0 /\ i # m
      <4>1. h[i] = f[i] /\ h[i - 1] = f[i - 1] /\ i \in 0 .. m - 1
        BY <3>3
      <4>2. f[i] = g[<<i, f[i - 1]>>]
        BY <2>1, <3>3, <4>1 DEF Computes
      <4> QED
        BY <3>3, <4>1, <4>2, Zenon
    <3> QED
      BY <3>1, <3>2, <3>3
  <2>3. Computes(h, m, v, g)
    <3>1. h = [i \in 0 .. m |-> h[i]]
      OBVIOUS
    <3> QED
      BY <2>2, <3>1 DEF Computes
  <2>4. m \in 0 .. n
    OBVIOUS
  <2> QED
    BY <2>3, <2>4, Zenon
<1>3. n \in 0 .. n
  OBVIOUS
<1>4. \A i \in 0 .. n : i \in G
  <2> HIDE DEF G
  <2> QED
    BY <1>1, <1>2, UpTo
<1> QED
  BY <1>3, <1>4, Zenon

-----------------------------------------------------------------------------
(* Kept.                                                                   *)

\* The function Kept is defined by, and what it is at each position.
KeepOf(s, S) ==
    CHOOSE f : f = [n \in 0 .. Len(s) |-> IF n = 0 THEN <<>>
                                          ELSE IF s[n] \in S THEN Append(f[n - 1], s[n])
                                          ELSE f[n - 1]]
Keeps(f, s, S) ==
    /\ f[0] = <<>>
    /\ \A n \in 1 .. Len(s) : f[n] = IF s[n] \in S THEN Append(f[n - 1], s[n]) ELSE f[n - 1]

\* Kept is computed position by position.
LEMMA KeptSteps ==
    ASSUME NEW X, NEW s \in Seq(X), NEW S
    PROVE  Kept(s, S) = KeepOf(s, S)[Len(s)] /\ Keeps(KeepOf(s, S), s, S)
<1> DEFINE L == Len(s)
           g == [ix \in (1 .. L) \X Seq(X) |->
                   IF s[ix[1]] \in S THEN Append(ix[2], s[ix[1]]) ELSE ix[2]]
           H(f) == f = [n \in 0 .. L |-> IF n = 0 THEN <<>>
                                         ELSE IF s[n] \in S THEN Append(f[n - 1], s[n])
                                         ELSE f[n - 1]]
<1>0. L \in Nat /\ \A n \in 1 .. L : s[n] \in X
  OBVIOUS
<1>1. PICK f : Computes(f, L, <<>>, g)
  <2> HIDE DEF g, L
  <2> QED
    BY <1>0, RecursionExists
<1>2. \A n \in 0 .. L : f[n] = IF n = 0 THEN <<>> ELSE g[<<n, f[n - 1]>>]
  <2> HIDE DEF g, L
  <2> QED
    BY <1>1 DEF Computes
<1>3. ASSUME NEW n \in 1 .. L, f[n - 1] \in Seq(X)
      PROVE  /\ f[n] = IF s[n] \in S THEN Append(f[n - 1], s[n]) ELSE f[n - 1]
             /\ f[n] \in Seq(X)
  <2>1. n \in 0 .. L /\ n # 0
    BY <1>0
  <2>2. f[n] = g[<<n, f[n - 1]>>]
    BY ONLY <1>2, <2>1, Zenon
  <2>3. <<n, f[n - 1]>> \in (1 .. L) \X Seq(X)
    BY <1>3
  <2>4. g[<<n, f[n - 1]>>] = IF s[n] \in S THEN Append(f[n - 1], s[n]) ELSE f[n - 1]
    BY ONLY <2>3
  <2>5. s[n] \in X
    BY <1>0
  <2> QED
    BY ONLY <1>3, <2>2, <2>4, <2>5
<1> DEFINE G == {n \in 0 .. L : f[n] \in Seq(X)}
<1>4. \A n \in 0 .. L : n \in G
  <2>1. 0 \in G
    <3>1. 0 \in 0 .. L
      BY <1>0
    <3>2. f[0] = <<>>
      BY ONLY <1>2, <3>1
    <3>3. <<>> \in Seq(X)
      OBVIOUS
    <3> QED
      BY ONLY <3>1, <3>2, <3>3, Zenon
  <2>2. ASSUME NEW n \in 1 .. L, n - 1 \in G
        PROVE  n \in G
    <3>1. n \in 0 .. L
      BY <1>0
    <3> QED
      BY ONLY <1>3, <2>2, <3>1, Zenon
  <2> HIDE DEF G, L
  <2> QED
    BY <1>0, <2>1, <2>2, UpTo
<1>5. ASSUME NEW n \in 0 .. L
      PROVE  f[n] = IF n = 0 THEN <<>>
                    ELSE IF s[n] \in S THEN Append(f[n - 1], s[n]) ELSE f[n - 1]
  <2>1. CASE n = 0
    BY <1>2, <2>1
  <2>2. CASE n # 0
    <3>1. n \in 1 .. L /\ n - 1 \in 0 .. L
      BY <1>0, <2>2
    <3>2. f[n - 1] \in Seq(X)
      BY <1>4, <3>1, Zenon
    <3> QED
      BY ONLY <1>3, <2>2, <3>1, <3>2, Zenon
  <2> QED
    BY <2>1, <2>2
<1>6. H(f)
  <2>1. f = [n \in 0 .. L |-> f[n]]
    <3> HIDE DEF g, L
    <3> QED
      BY <1>1 DEF Computes
  <2> HIDE DEF L
  <2> QED
    BY ONLY <1>5, <2>1
<1>7. H(KeepOf(s, S))
  BY <1>6, Zenon DEF KeepOf
<1>8. Kept(s, S) = KeepOf(s, S)[L]
  BY DEF Kept, KeepOf
<1> DEFINE F == KeepOf(s, S)
<1>9. F = [n \in 0 .. L |-> IF n = 0 THEN <<>>
                            ELSE IF s[n] \in S THEN Append(F[n - 1], s[n]) ELSE F[n - 1]]
  BY <1>7
<1> HIDE DEF F, L
<1>10. F[0] = <<>>
  BY <1>0, <1>9
<1>11. ASSUME NEW n \in 1 .. L
       PROVE  F[n] = IF s[n] \in S THEN Append(F[n - 1], s[n]) ELSE F[n - 1]
  <2>1. n \in 0 .. L /\ n # 0
    BY ONLY <1>0, n \in 1 .. L
  <2> QED
    BY ONLY <1>9, <2>1
<1> QED
  BY <1>8, <1>10, <1>11, Zenon DEF F, L, Keeps

\* f says where in the first n of s the elements of r come from: r is what is
\* left of them, in order, when those outside S are erased.
Embeds(f, r, s, n, S) ==
    /\ f \in [1 .. Len(r) -> 1 .. n]
    /\ \A i \in 1 .. Len(r) : r[i] = s[f[i]] /\ s[f[i]] \in S
    /\ \A i, k \in 1 .. Len(r) : f[i] = f[k] => i = k
    /\ \A k \in 1 .. n : s[k] \in S => \E i \in 1 .. Len(r) : f[i] = k

\* Erasing keeps the other elements, each once.
LEMMA KeptEmbeds ==
    ASSUME NEW X, NEW s \in Seq(X), NEW S
    PROVE  /\ Kept(s, S) \in Seq(X) /\ Len(Kept(s, S)) <= Len(s)
           /\ \E f : Embeds(f, Kept(s, S), s, Len(s), S)
<1> DEFINE L == Len(s)
           K == KeepOf(s, S)
           P(n) == K[n] \in Seq(X) /\ Len(K[n]) <= n /\ \E f : Embeds(f, K[n], s, n, S)
           G == {n \in 0 .. L : P(n)}
<1>0. L \in Nat /\ \A n \in 1 .. L : s[n] \in X
  OBVIOUS
<1>1. Kept(s, S) = K[L] /\ Keeps(K, s, S)
  BY KeptSteps
<1> HIDE DEF K
<1>2. K[0] = <<>> /\ \A n \in 1 .. L : K[n] = IF s[n] \in S THEN Append(K[n - 1], s[n]) ELSE K[n - 1]
  BY <1>1 DEF Keeps
<1>3. P(0)
  <2>1. Embeds([i \in 1 .. 0 |-> 0], <<>>, s, 0, S)
    BY DEF Embeds
  <2>2. <<>> \in Seq(X) /\ Len(<<>>) <= 0
    OBVIOUS
  <2> QED
    BY <1>2, <2>1, <2>2, Zenon
<1> HIDE DEF L
<1>4. ASSUME NEW n \in 1 .. L, P(n - 1)
      PROVE  P(n)
  <2> DEFINE A == K[n - 1]
             M == Len(A)
  <2>1. A \in Seq(X) /\ M <= n - 1
    BY <1>4, Zenon
  <2>2. PICK f : Embeds(f, A, s, n - 1, S)
    BY <1>4, Zenon
  <2>3. M \in Nat
    BY <2>1
  <2>4. n \in Nat /\ n - 1 \in Nat /\ s[n] \in X
    BY <1>0
  <2>5. /\ f \in [1 .. M -> 1 .. (n - 1)]
        /\ \A i \in 1 .. M : A[i] = s[f[i]] /\ s[f[i]] \in S
        /\ \A i, k \in 1 .. M : f[i] = f[k] => i = k
        /\ \A k \in 1 .. (n - 1) : s[k] \in S => \E i \in 1 .. M : f[i] = k
    BY <2>2 DEF Embeds
  <2> HIDE DEF A
  <2>6. CASE s[n] \notin S
    <3>1. K[n] = A
      BY <1>2, <2>6 DEF A
    <3> HIDE DEF M
    <3>2. f \in [1 .. M -> 1 .. n]
      BY ONLY <2>3, <2>4, <2>5
    <3>3. ASSUME NEW k \in 1 .. n, s[k] \in S
          PROVE  \E i \in 1 .. M : f[i] = k
      <4>1. k \in 1 .. (n - 1)
        BY <2>4, <2>6, <3>3
      <4> QED
        BY <2>5, <3>3, <4>1, Zenon
    <3>4. Embeds(f, A, s, n, S)
      BY ONLY <2>5, <3>2, <3>3, Zenon DEF Embeds, M
    <3>5. Len(A) <= n
      BY <2>1, <2>3, <2>4 DEF M
    <3> QED
      BY <2>1, <3>1, <3>4, <3>5, Zenon
  <2>7. CASE s[n] \in S
    <3>1. K[n] = Append(A, s[n])
      BY <1>2, <2>7 DEF A
    <3>2. Len(K[n]) = M + 1 /\ K[n] \in Seq(X)
      BY <2>1, <2>4, <3>1
    <3>3. K[n][M + 1] = s[n] /\ \A i \in 1 .. M : K[n][i] = A[i]
      BY <2>1, <2>4, <3>1
    <3> HIDE DEF M
    <3> DEFINE h == [i \in 1 .. M + 1 |-> IF i = M + 1 THEN n ELSE f[i]]
    <3>4. h[M + 1] = n /\ \A i \in 1 .. M : h[i] = f[i] /\ h[i] \in 1 .. (n - 1)
      BY ONLY <2>3, <2>5
    <3>5. h \in [1 .. M + 1 -> 1 .. n]
      BY ONLY <2>3, <2>4, <2>5
    <3>6. \A i \in 1 .. M + 1 : i = M + 1 \/ i \in 1 .. M
      BY ONLY <2>3
    <3>7. n \notin 1 .. (n - 1)
      BY ONLY <2>4
    <3> HIDE DEF h
    <3>8. ASSUME NEW i \in 1 .. M + 1
          PROVE  K[n][i] = s[h[i]] /\ s[h[i]] \in S
      BY ONLY <2>5, <2>7, <3>3, <3>4, <3>6, Zenon
    <3>9. ASSUME NEW i \in 1 .. M + 1, NEW k \in 1 .. M + 1, h[i] = h[k]
          PROVE  i = k
      BY ONLY <2>5, <3>4, <3>6, <3>7, <3>9, Zenon
    <3>10. ASSUME NEW k \in 1 .. n, s[k] \in S
           PROVE  \E i \in 1 .. M + 1 : h[i] = k
      <4>1. M + 1 \in 1 .. M + 1 /\ 1 .. M \subseteq 1 .. M + 1
        BY ONLY <2>3
      <4>2. k = n \/ k \in 1 .. (n - 1)
        BY ONLY <2>4, k \in 1 .. n
      <4> QED
        BY ONLY <2>5, <3>4, <3>10, <4>1, <4>2, Zenon
    <3>11. Embeds(h, K[n], s, n, S)
      BY ONLY <3>2, <3>5, <3>8, <3>9, <3>10, Zenon DEF Embeds
    <3>12. Len(K[n]) <= n
      BY ONLY <2>1, <2>3, <2>4, <3>2 DEF M
    <3> QED
      BY <3>2, <3>11, <3>12, Zenon
  <2> QED
    BY <2>6, <2>7
<1>5. \A n \in 0 .. L : n \in G
  <2>1. 0 \in 0 .. L
    BY <1>0
  <2>2. 0 \in G
    BY <1>3, <2>1, Zenon
  <2>3. ASSUME NEW n \in 1 .. L, n - 1 \in G
        PROVE  n \in G
    <3>1. n \in 0 .. L
      BY <1>0
    <3> QED
      BY <1>4, <2>3, <3>1, Zenon
  <2> HIDE DEF G
  <2> QED
    BY <1>0, <2>2, <2>3, UpTo
<1>6. L \in 0 .. L
  BY <1>0
<1>7. P(L)
  BY <1>5, <1>6, Zenon
<1> QED
  BY <1>1, <1>7, Zenon DEF L

-----------------------------------------------------------------------------
(* Weight.                                                                 *)

\* Every element has a weight.
Weighs(W, X) == \A x \in X : W[x] \in Nat

\* The function Weight is defined by, and what it is at each position.
SumOf(s, W) ==
    CHOOSE f : f = [n \in 0 .. Len(s) |-> IF n = 0 THEN 0 ELSE f[n - 1] + W[s[n]]]
SumsUp(f, s, W) ==
    /\ f[0] = 0
    /\ \A n \in 1 .. Len(s) : f[n] = f[n - 1] + W[s[n]] /\ W[s[n]] \in Nat
    /\ \A n \in 0 .. Len(s) : f[n] \in Nat

\* Weight is computed position by position, and is a number.
LEMMA WeightSteps ==
    ASSUME NEW X, NEW W, Weighs(W, X), NEW s \in Seq(X)
    PROVE  Weight(s, W) = SumOf(s, W)[Len(s)] /\ SumsUp(SumOf(s, W), s, W)
<1> DEFINE L == Len(s)
           g == [ix \in (1 .. L) \X Nat |-> ix[2] + W[s[ix[1]]]]
           H(f) == f = [n \in 0 .. L |-> IF n = 0 THEN 0 ELSE f[n - 1] + W[s[n]]]
<1>0. L \in Nat /\ \A n \in 1 .. L : W[s[n]] \in Nat
  <2>1. L \in Nat /\ \A n \in 1 .. L : s[n] \in X
    OBVIOUS
  <2> QED
    BY <2>1 DEF Weighs
<1>1. PICK f : Computes(f, L, 0, g)
  <2> HIDE DEF g, L
  <2> QED
    BY <1>0, RecursionExists
<1>2. \A n \in 0 .. L : f[n] = IF n = 0 THEN 0 ELSE g[<<n, f[n - 1]>>]
  <2> HIDE DEF g, L
  <2> QED
    BY <1>1 DEF Computes
<1>3. f = [n \in 0 .. L |-> f[n]]
  <2> HIDE DEF g, L
  <2> QED
    BY <1>1 DEF Computes
<1>4. ASSUME NEW n \in 1 .. L, f[n - 1] \in Nat
      PROVE  f[n] = f[n - 1] + W[s[n]] /\ f[n] \in Nat
  <2>1. n \in 0 .. L /\ n # 0
    BY <1>0
  <2>2. f[n] = g[<<n, f[n - 1]>>]
    BY ONLY <1>2, <2>1, Zenon
  <2>3. <<n, f[n - 1]>> \in (1 .. L) \X Nat
    BY <1>4
  <2>4. g[<<n, f[n - 1]>>] = f[n - 1] + W[s[n]]
    BY ONLY <2>3
  <2>5. W[s[n]] \in Nat
    BY <1>0
  <2> QED
    BY ONLY <1>4, <2>2, <2>4, <2>5
<1> HIDE DEF L, g
<1>5. \A n \in 0 .. L : f[n] \in Nat
  <2> DEFINE G == {n \in 0 .. L : f[n] \in Nat}
  <2>1. 0 \in 0 .. L
    BY <1>0
  <2>2. f[0] = 0
    BY ONLY <1>2, <2>1
  <2>3. 0 \in G
    BY ONLY <2>1, <2>2
  <2>4. ASSUME NEW n \in 1 .. L, n - 1 \in G
        PROVE  n \in G
    <3>1. n \in 0 .. L
      BY <1>0
    <3> QED
      BY ONLY <1>4, <2>4, <3>1, Zenon
  <2>5. \A n \in 0 .. L : n \in G
    <3> HIDE DEF G
    <3> QED
      BY <1>0, <2>3, <2>4, UpTo
  <2> QED
    BY <2>5, Zenon
<1>6. ASSUME NEW n \in 0 .. L
      PROVE  f[n] = IF n = 0 THEN 0 ELSE f[n - 1] + W[s[n]]
  <2>1. CASE n = 0
    BY <1>2, <2>1
  <2>2. CASE n # 0
    <3>1. n \in 1 .. L /\ n - 1 \in 0 .. L
      BY <1>0, <2>2
    <3>2. f[n - 1] \in Nat
      BY <1>5, <3>1, Zenon
    <3> QED
      BY ONLY <1>4, <2>2, <3>1, <3>2, Zenon
  <2> QED
    BY <2>1, <2>2
<1>7. H(f)
  BY ONLY <1>3, <1>6
<1> DEFINE F == SumOf(s, W)
<1>8. H(F)
  BY <1>7, Zenon DEF SumOf, L
<1>9. Weight(s, W) = F[L]
  BY DEF Weight, SumOf, L
<1> HIDE DEF F
<1>10. F[0] = 0
  <2>1. 0 \in 0 .. L
    BY <1>0
  <2> QED
    BY ONLY <1>8, <2>1
<1>11. ASSUME NEW n \in 1 .. L
       PROVE  F[n] = F[n - 1] + W[s[n]]
  <2>1. n \in 0 .. L /\ n # 0
    BY ONLY <1>0, n \in 1 .. L
  <2> QED
    BY ONLY <1>8, <2>1
<1>12. \A n \in 0 .. L : F[n] \in Nat
  <2> DEFINE G == {n \in 0 .. L : F[n] \in Nat}
  <2>1. 0 \in G
    BY ONLY <1>0, <1>10
  <2>2. ASSUME NEW n \in 1 .. L, n - 1 \in G
        PROVE  n \in G
    <3>1. n \in 0 .. L /\ W[s[n]] \in Nat
      BY <1>0
    <3>2. F[n - 1] \in Nat
      BY <2>2
    <3> QED
      BY ONLY <1>11, <3>1, <3>2, n \in 1 .. L
  <2>3. \A n \in 0 .. L : n \in G
    <3> HIDE DEF G
    <3> QED
      BY <1>0, <2>1, <2>2, UpTo
  <2> QED
    BY <2>3, Zenon
<1> QED
  BY <1>0, <1>9, <1>10, <1>11, <1>12, Zenon DEF SumsUp, F, L

\* b is what follows the first d of a, at least for m elements.
Overlap(X, W, a, b, d, m) ==
    /\ Weighs(W, X)
    /\ a \in Seq(X) /\ b \in Seq(X) /\ d \in Nat /\ m \in Nat
    /\ d + m <= Len(a) /\ m <= Len(b)
    /\ \A i \in 1 .. m : a[d + i] = b[i]

\* Sums over a common part agree.
LEMMA SumsAgree ==
    ASSUME NEW X, NEW W, NEW a, NEW b, NEW d, NEW m, Overlap(X, W, a, b, d, m)
    PROVE  SumOf(a, W)[d + m] = SumOf(a, W)[d] + SumOf(b, W)[m]
<1> DEFINE A == SumOf(a, W)
           B == SumOf(b, W)
           LA == Len(a)
           LB == Len(b)
           G == {n \in 0 .. m : A[d + n] = A[d] + B[n]}
<1>0. /\ Weighs(W, X) /\ a \in Seq(X) /\ b \in Seq(X) /\ d \in Nat /\ m \in Nat
      /\ d + m <= LA /\ m <= LB /\ \A i \in 1 .. m : a[d + i] = b[i]
  BY DEF Overlap
<1>1. LA \in Nat /\ LB \in Nat
  BY <1>0
<1>2. SumsUp(A, a, W) /\ SumsUp(B, b, W)
  BY <1>0, WeightSteps
<1> HIDE DEF A, B
<1>3. /\ A[0] = 0 /\ B[0] = 0
      /\ \A n \in 1 .. LA : A[n] = A[n - 1] + W[a[n]] /\ W[a[n]] \in Nat
      /\ \A n \in 1 .. LB : B[n] = B[n - 1] + W[b[n]] /\ W[b[n]] \in Nat
      /\ (\A n \in 0 .. LA : A[n] \in Nat) /\ \A n \in 0 .. LB : B[n] \in Nat
  BY <1>2 DEF SumsUp
<1> HIDE DEF LA, LB
<1>4. A[d] \in Nat
  BY ONLY <1>0, <1>1, <1>3
<1>5. 0 \in G
  BY ONLY <1>0, <1>3, <1>4
<1>6. ASSUME NEW n \in 1 .. m, n - 1 \in G
      PROVE  n \in G
  <2>1. A[d + (n - 1)] = A[d] + B[n - 1]
    BY <1>6
  <2>2. /\ n \in 1 .. LB /\ d + n \in 1 .. LA /\ (d + n) - 1 = d + (n - 1)
        /\ n \in 0 .. m /\ n - 1 \in 0 .. LB
    BY ONLY <1>0, <1>1, n \in 1 .. m
  <2>3. A[d + n] = A[d + (n - 1)] + W[a[d + n]]
    BY ONLY <1>3, <2>2
  <2>4. B[n] = B[n - 1] + W[b[n]] /\ W[b[n]] \in Nat /\ B[n - 1] \in Nat
    BY ONLY <1>3, <2>2
  <2>5. a[d + n] = b[n]
    BY ONLY <1>0, n \in 1 .. m
  <2>6. A[d + n] = A[d] + B[n]
    BY ONLY <1>4, <2>1, <2>3, <2>4, <2>5
  <2> QED
    BY ONLY <2>2, <2>6
<1>7. \A n \in 0 .. m : n \in G
  <2> HIDE DEF G
  <2> QED
    BY <1>0, <1>5, <1>6, UpTo
<1>8. m \in 0 .. m
  BY <1>0
<1> QED
  BY <1>7, <1>8, Zenon DEF A, B

\* Appending an element adds its weight.
LEMMA WeightAppend ==
    ASSUME NEW X, NEW W, Weighs(W, X), NEW s \in Seq(X), NEW e \in X
    PROVE  /\ Weight(Append(s, e), W) = Weight(s, W) + W[e]
           /\ Weight(s, W) \in Nat /\ W[e] \in Nat
<1> DEFINE a == Append(s, e)
           L == Len(s)
<1>1. /\ a \in Seq(X) /\ Len(a) = L + 1 /\ L \in Nat
      /\ a[L + 1] = e /\ \A i \in 1 .. L : a[i] = s[i]
  OBVIOUS
<1>2. W[e] \in Nat
  BY DEF Weighs
<1> HIDE DEF a, L
<1>3. Overlap(X, W, a, s, 0, L)
  BY ONLY <1>1, s \in Seq(X), Weighs(W, X) DEF Overlap, L
<1>4. SumOf(a, W)[0 + L] = SumOf(a, W)[0] + SumOf(s, W)[L]
  BY <1>3, SumsAgree
<1>5. SumsUp(SumOf(a, W), a, W) /\ Weight(a, W) = SumOf(a, W)[L + 1]
  BY <1>1, WeightSteps
<1>6. SumsUp(SumOf(s, W), s, W) /\ Weight(s, W) = SumOf(s, W)[L]
  BY WeightSteps DEF L
<1>7. SumOf(a, W)[0] = 0 /\ SumOf(a, W)[L + 1] = SumOf(a, W)[(L + 1) - 1] + W[a[L + 1]]
  <2>1. L + 1 \in 1 .. Len(a)
    BY <1>1
  <2> QED
    BY ONLY <1>5, <2>1, Zenon DEF SumsUp
<1>8. SumOf(s, W)[L] \in Nat
  <2>1. L \in 0 .. Len(s)
    BY <1>1 DEF L
  <2> QED
    BY ONLY <1>6, <2>1, Zenon DEF SumsUp
<1>9. 0 + L = L /\ (L + 1) - 1 = L
  BY <1>1
<1> QED
  BY <1>1, <1>2, <1>4, <1>5, <1>6, <1>7, <1>8, <1>9 DEF a

\* A list weighs a number, and an empty one nothing.
LEMMA WeightNat ==
    ASSUME NEW X, NEW W, Weighs(W, X), NEW s \in Seq(X)
    PROVE  Weight(s, W) \in Nat /\ (Len(s) = 0 => Weight(s, W) = 0)
<1>1. Len(s) \in Nat /\ Len(s) \in 0 .. Len(s)
  OBVIOUS
<1>2. Weight(s, W) = SumOf(s, W)[Len(s)] /\ SumsUp(SumOf(s, W), s, W)
  BY WeightSteps
<1>3. SumOf(s, W)[0] = 0 /\ \A n \in 0 .. Len(s) : SumOf(s, W)[n] \in Nat
  BY <1>2, Zenon DEF SumsUp
<1>4. Weight(s, W) \in Nat
  BY ONLY <1>1, <1>2, <1>3, Zenon
<1>5. ASSUME Len(s) = 0
      PROVE  Weight(s, W) = 0
  BY ONLY <1>2, <1>3, <1>5, Zenon
<1> QED
  BY <1>4, <1>5

\* The front and the rest of a list weigh what the list weighs.
LEMMA WeightSplit ==
    ASSUME NEW X, NEW W, Weighs(W, X), NEW s \in Seq(X), NEW k \in 0 .. Len(s)
    PROVE  Weight(s, W) = Weight(SubSeq(s, 1, k), W) + Weight(SubSeq(s, k + 1, Len(s)), W)
<1> DEFINE L == Len(s)
           p == SubSeq(s, 1, k)
           r == SubSeq(s, k + 1, L)
           M == Len(r)
<1>1. L \in Nat /\ k \in Nat /\ k <= L
  OBVIOUS
<1>2. p \in Seq(X) /\ Len(p) = k /\ \A i \in 1 .. k : p[i] = s[i]
  BY <1>1
<1>3. r \in Seq(X) /\ M = L - k /\ M \in Nat
  BY <1>1
<1>4. \A i \in 1 .. M : r[i] = s[k + i]
  BY <1>1, <1>3
<1> HIDE DEF p, r
<1>5. Overlap(X, W, s, p, 0, k)
  <2> HIDE DEF L
  <2> QED
    BY ONLY <1>1, <1>2, s \in Seq(X), Weighs(W, X) DEF Overlap, L
<1>6. Overlap(X, W, s, r, k, M)
  <2>1. k + M <= L
    BY ONLY <1>1, <1>3
  <2> HIDE DEF M
  <2> QED
    BY ONLY <1>1, <1>3, <1>4, <2>1, s \in Seq(X), Weighs(W, X) DEF Overlap, M
<1>7. SumOf(s, W)[0 + k] = SumOf(s, W)[0] + SumOf(p, W)[k]
  BY <1>5, SumsAgree
<1>8. SumOf(s, W)[k + M] = SumOf(s, W)[k] + SumOf(r, W)[M]
  BY <1>6, SumsAgree
<1>9. /\ Weight(s, W) = SumOf(s, W)[L] /\ Weight(p, W) = SumOf(p, W)[Len(p)]
      /\ Weight(r, W) = SumOf(r, W)[M] /\ SumsUp(SumOf(s, W), s, W)
  BY <1>2, <1>3, WeightSteps, Zenon
<1>10. Weight(p, W) \in Nat /\ Weight(r, W) \in Nat
  BY <1>2, <1>3, WeightNat
<1>11. 0 + k = k /\ k + M = L
  BY ONLY <1>1, <1>3
<1>12. SumOf(s, W)[0] = 0
  BY ONLY <1>9, Zenon DEF SumsUp
<1> QED
  <2>1. SumOf(s, W)[k] = SumOf(p, W)[k]
    BY ONLY <1>2, <1>7, <1>9, <1>10, <1>11, <1>12
  <2>2. Weight(p, W) = SumOf(p, W)[k] /\ SumOf(s, W)[L] = SumOf(s, W)[k] + SumOf(r, W)[M]
    BY ONLY <1>2, <1>8, <1>9, <1>11
  <2> HIDE DEF M, L
  <2>3. Weight(s, W) = Weight(p, W) + Weight(r, W)
    BY ONLY <1>9, <2>1, <2>2
  <2> QED
    BY <2>3 DEF p, r, L

\* What an erasure leaves and what it erases weigh what the list weighs.
LEMMA KeptWeight ==
    ASSUME NEW X, NEW W, Weighs(W, X), NEW s \in Seq(X), NEW S, NEW T,
           \A x \in Range(s) : x \in T <=> x \notin S
    PROVE  Weight(s, W) = Weight(Kept(s, S), W) + Weight(Kept(s, T), W)
<1> DEFINE L == Len(s)
           A == SumOf(s, W)
           K == KeepOf(s, S)
           J == KeepOf(s, T)
           P(n) == /\ K[n] \in Seq(X) /\ J[n] \in Seq(X)
                   /\ A[n] = Weight(K[n], W) + Weight(J[n], W)
           G == {n \in 0 .. L : P(n)}
<1>0. L \in Nat /\ \A n \in 1 .. L : s[n] \in X /\ (s[n] \in T <=> s[n] \notin S)
  BY DEF Range
<1>1. Kept(s, S) = K[L] /\ Keeps(K, s, S) /\ Kept(s, T) = J[L] /\ Keeps(J, s, T)
  BY KeptSteps
<1>2. Weight(s, W) = A[L] /\ SumsUp(A, s, W)
  BY WeightSteps
<1> HIDE DEF A, K, J
<1>3. /\ K[0] = <<>> /\ J[0] = <<>> /\ A[0] = 0
      /\ \A n \in 1 .. L : K[n] = IF s[n] \in S THEN Append(K[n - 1], s[n]) ELSE K[n - 1]
      /\ \A n \in 1 .. L : J[n] = IF s[n] \in T THEN Append(J[n - 1], s[n]) ELSE J[n - 1]
      /\ \A n \in 1 .. L : A[n] = A[n - 1] + W[s[n]] /\ W[s[n]] \in Nat
      /\ \A n \in 0 .. L : A[n] \in Nat
  BY <1>1, <1>2 DEF Keeps, SumsUp
<1>4. P(0)
  <2>1. <<>> \in Seq(X) /\ Len(<<>>) = 0
    OBVIOUS
  <2>2. Weight(<<>>, W) = 0
    BY <2>1, WeightNat
  <2> QED
    BY ONLY <1>3, <2>1, <2>2
<1> HIDE DEF L
<1>5. ASSUME NEW n \in 1 .. L, P(n - 1)
      PROVE  P(n)
  <2>1. /\ K[n - 1] \in Seq(X) /\ J[n - 1] \in Seq(X) /\ s[n] \in X
        /\ A[n - 1] = Weight(K[n - 1], W) + Weight(J[n - 1], W)
        /\ A[n] = A[n - 1] + W[s[n]] /\ W[s[n]] \in Nat
    BY <1>0, <1>3, <1>5
  <2>2. Weight(K[n - 1], W) \in Nat /\ Weight(J[n - 1], W) \in Nat
    BY <2>1, WeightNat
  <2>3. CASE s[n] \in S
    <3>1. K[n] = Append(K[n - 1], s[n]) /\ J[n] = J[n - 1]
      BY ONLY <1>0, <1>3, <2>3, n \in 1 .. L
    <3>2. Weight(K[n], W) = Weight(K[n - 1], W) + W[s[n]]
      BY <2>1, <3>1, WeightAppend
    <3>3. K[n] \in Seq(X)
      BY ONLY <2>1, <3>1
    <3> QED
      BY ONLY <2>1, <2>2, <3>1, <3>2, <3>3
  <2>4. CASE s[n] \notin S
    <3>1. J[n] = Append(J[n - 1], s[n]) /\ K[n] = K[n - 1]
      BY ONLY <1>0, <1>3, <2>4, n \in 1 .. L
    <3>2. Weight(J[n], W) = Weight(J[n - 1], W) + W[s[n]]
      BY <2>1, <3>1, WeightAppend
    <3>3. J[n] \in Seq(X)
      BY ONLY <2>1, <3>1
    <3> QED
      BY ONLY <2>1, <2>2, <3>1, <3>2, <3>3
  <2> QED
    BY <2>3, <2>4
<1>6. \A n \in 0 .. L : n \in G
  <2>1. 0 \in G
    BY <1>0, <1>4
  <2>2. ASSUME NEW n \in 1 .. L, n - 1 \in G
        PROVE  n \in G
    <3>1. n \in 0 .. L
      BY <1>0
    <3> QED
      BY <1>5, <2>2, <3>1, Zenon
  <2> HIDE DEF G
  <2> QED
    BY <1>0, <2>1, <2>2, UpTo
<1>7. L \in 0 .. L
  BY <1>0
<1>8. P(L)
  BY <1>6, <1>7, Zenon
<1> QED
  BY <1>1, <1>2, <1>8, Zenon

-----------------------------------------------------------------------------
(* Lists without repetition.                                               *)

\* Taking the first element.
LEMMA TailList ==
    ASSUME NEW X, NEW s \in Seq(X), s # <<>>, IsInjective(s)
    PROVE  /\ Tail(s) \in Seq(X) /\ IsInjective(Tail(s))
           /\ Head(s) \in Range(s) /\ Range(Tail(s)) = Range(s) \ {Head(s)}
<1> DEFINE L == Len(s)
           r == Tail(s)
<1>1. L \in Nat /\ L >= 1 /\ DOMAIN s = 1 .. L /\ Head(s) = s[1]
  OBVIOUS
<1>2. r \in Seq(X) /\ Len(r) = L - 1 /\ DOMAIN r = 1 .. (L - 1)
  OBVIOUS
<1>3. \A i \in 1 .. (L - 1) : r[i] = s[i + 1]
  OBVIOUS
<1> HIDE DEF L, r
<1>4. \A i \in 1 .. (L - 1) : i + 1 \in 1 .. L /\ i + 1 # 1
  BY ONLY <1>1
<1>5. \A i, k \in 1 .. L : s[i] = s[k] => i = k
  BY <1>1 DEF IsInjective
<1>6. IsInjective(r)
  <2> SUFFICES ASSUME NEW i \in 1 .. (L - 1), NEW k \in 1 .. (L - 1), r[i] = r[k]
               PROVE  i = k
    BY <1>2 DEF IsInjective
  <2>1. i + 1 = k + 1
    BY ONLY <1>3, <1>4, <1>5, i \in 1 .. (L - 1), k \in 1 .. (L - 1), r[i] = r[k], Zenon
  <2> QED
    BY ONLY <1>1, <2>1, i \in 1 .. (L - 1), k \in 1 .. (L - 1)
<1>7. 1 \in 1 .. L
  BY <1>1
<1>8. Head(s) \in Range(s)
  BY <1>1, <1>7 DEF Range
<1>9. ASSUME NEW x \in Range(r)
      PROVE  x \in Range(s) \ {Head(s)}
  <2>1. PICK i \in 1 .. (L - 1) : x = r[i]
    BY <1>2, <1>9 DEF Range
  <2>2. x = s[i + 1] /\ i + 1 \in 1 .. L /\ i + 1 # 1
    BY <1>3, <1>4, <2>1
  <2>3. x # s[1]
    BY ONLY <1>5, <1>7, <2>2
  <2> QED
    BY <1>1, <2>2, <2>3 DEF Range
<1>10. ASSUME NEW x \in Range(s) \ {Head(s)}
       PROVE  x \in Range(r)
  <2>1. PICK i \in 1 .. L : x = s[i]
    BY <1>1, <1>10 DEF Range
  <2>2. i # 1
    BY <1>1, <1>10, <2>1
  <2>3. i - 1 \in 1 .. (L - 1) /\ (i - 1) + 1 = i
    BY ONLY <1>1, <2>2, i \in 1 .. L
  <2>4. x = r[i - 1]
    BY ONLY <1>3, <2>1, <2>3
  <2> QED
    BY <1>2, <2>3, <2>4 DEF Range
<1> QED
  BY <1>2, <1>6, <1>8, <1>9, <1>10 DEF r

\* Appending an element that is not in the list.
LEMMA AppendList ==
    ASSUME NEW X, NEW s \in Seq(X), IsInjective(s), NEW x \in X, x \notin Range(s)
    PROVE  /\ Append(s, x) \in Seq(X) /\ IsInjective(Append(s, x))
           /\ Range(Append(s, x)) = Range(s) \cup {x}
<1> DEFINE L == Len(s)
           r == Append(s, x)
<1>1. L \in Nat /\ DOMAIN s = 1 .. L
  OBVIOUS
<1>2. /\ r \in Seq(X) /\ DOMAIN r = 1 .. L + 1 /\ r[L + 1] = x
      /\ \A i \in 1 .. L : r[i] = s[i]
  OBVIOUS
<1> HIDE DEF L, r
<1>3. (\A i \in 1 .. L + 1 : i = L + 1 \/ i \in 1 .. L) /\ L + 1 \in 1 .. L + 1 /\ 1 .. L \subseteq 1 .. L + 1
  BY ONLY <1>1
<1>4. \A i \in 1 .. L : s[i] \in Range(s)
  BY <1>1 DEF Range
<1>5. IsInjective(r)
  <2>1. \A i, k \in 1 .. L : s[i] = s[k] => i = k
    BY <1>1 DEF IsInjective
  <2> SUFFICES ASSUME NEW i \in 1 .. L + 1, NEW k \in 1 .. L + 1, r[i] = r[k]
               PROVE  i = k
    BY <1>2 DEF IsInjective
  <2> QED
    BY ONLY <1>2, <1>3, <1>4, <2>1, i \in 1 .. L + 1, k \in 1 .. L + 1, r[i] = r[k], x \notin Range(s)
<1>6. Range(r) = Range(s) \cup {x}
  BY ONLY <1>1, <1>2, <1>3 DEF Range
<1> QED
  BY <1>2, <1>5, <1>6 DEF r

\* Erasing elements.
LEMMA EraseList ==
    ASSUME NEW X, NEW s \in Seq(X), IsInjective(s), NEW S, S \subseteq Range(s)
    PROVE  LET r == Kept(s, S) IN
           r \in Seq(X) /\ IsInjective(r) /\ Range(r) = S
<1> DEFINE r == Kept(s, S)
           L == Len(s)
           M == Len(r)
<1>1. r \in Seq(X)
  BY KeptEmbeds
<1>2. PICK f : Embeds(f, r, s, L, S)
  BY KeptEmbeds, Zenon
<1>3. DOMAIN s = 1 .. L /\ DOMAIN r = 1 .. M
  BY <1>1
<1> HIDE DEF r, L, M
<1>4. /\ f \in [1 .. M -> 1 .. L]
      /\ \A i \in 1 .. M : r[i] = s[f[i]] /\ s[f[i]] \in S
      /\ \A i, k \in 1 .. M : f[i] = f[k] => i = k
      /\ \A k \in 1 .. L : s[k] \in S => \E i \in 1 .. M : f[i] = k
  BY <1>2, Zenon DEF Embeds, M
<1>5. \A i \in 1 .. M : f[i] \in 1 .. L
  BY ONLY <1>4
<1>6. IsInjective(r)
  <2>1. \A i, k \in 1 .. L : s[i] = s[k] => i = k
    BY <1>3 DEF IsInjective
  <2> SUFFICES ASSUME NEW i \in 1 .. M, NEW k \in 1 .. M, r[i] = r[k]
               PROVE  i = k
    BY <1>3 DEF IsInjective
  <2>2. s[f[i]] = s[f[k]] /\ f[i] \in 1 .. L /\ f[k] \in 1 .. L
    BY ONLY <1>4, <1>5, i \in 1 .. M, k \in 1 .. M, r[i] = r[k], Zenon
  <2>3. f[i] = f[k]
    BY ONLY <2>1, <2>2, Zenon
  <2> QED
    BY ONLY <1>4, <2>3, i \in 1 .. M, k \in 1 .. M, Zenon
<1>7. Range(r) \subseteq S
  BY ONLY <1>3, <1>4 DEF Range
<1>8. ASSUME NEW y \in S
      PROVE  y \in Range(r)
  <2>1. PICK k \in 1 .. L : y = s[k]
    BY <1>3, <1>8 DEF Range
  <2>2. PICK i \in 1 .. M : f[i] = k
    BY <1>4, <1>8, <2>1
  <2>3. y = r[i]
    BY ONLY <1>4, <2>1, <2>2
  <2> QED
    BY <1>3, <2>3 DEF Range
<1>9. Range(r) = S
  BY ONLY <1>7, <1>8
<1> QED
  BY <1>1, <1>6, <1>9 DEF r

\* What is left when the first k are taken.
LEMMA RestList ==
    ASSUME NEW X, NEW s \in Seq(X), IsInjective(s), NEW k \in 0 .. Len(s)
    PROVE  LET p == SubSeq(s, 1, k)
               r == SubSeq(s, k + 1, Len(s)) IN
           /\ p \in Seq(X) /\ r \in Seq(X) /\ Len(r) = Len(s) - k
           /\ IsInjective(r) /\ Range(r) = Range(s) \ Range(p) /\ Range(p) \subseteq Range(s)
<1> DEFINE L == Len(s)
           p == SubSeq(s, 1, k)
           r == SubSeq(s, k + 1, L)
           M == L - k
<1>1. L \in Nat /\ k \in Nat /\ k <= L
  OBVIOUS
<1>2. p \in Seq(X) /\ DOMAIN p = 1 .. k /\ \A i \in 1 .. k : p[i] = s[i]
  BY <1>1
<1>3. r \in Seq(X) /\ Len(r) = L - k
  BY <1>1
<1>4. DOMAIN r = 1 .. L - k
  BY <1>3
<1>13. \A i \in 1 .. Len(r) : r[i] = s[k + i]
  BY <1>1, <1>3
<1>14. Len(r) = M /\ DOMAIN r = 1 .. M /\ \A i \in 1 .. M : r[i] = s[k + i]
  BY ONLY <1>3, <1>4, <1>13
<1>15. DOMAIN s = 1 .. L
  OBVIOUS
<1> HIDE DEF p, r, L
<1>5. /\ M \in Nat /\ \A i \in 1 .. M : k + i \in 1 .. L /\ k + i \notin 1 .. k
      /\ 1 .. k \subseteq 1 .. L
      /\ \A i \in 1 .. L : i \in 1 .. k \/ (i - k \in 1 .. M /\ k + (i - k) = i)
      /\ \A i, j \in 1 .. M : k + i = k + j => i = j
  <2>1. M \in Nat /\ k + M = L
    BY <1>1
  <2> HIDE DEF M
  <2>2. \A i \in 1 .. M : k + i \in 1 .. L /\ k + i \notin 1 .. k
    BY ONLY <1>1, <2>1
  <2>3. \A i \in 1 .. L : i \in 1 .. k \/ (i - k \in 1 .. M /\ k + (i - k) = i)
    BY ONLY <1>1, <2>1
  <2> QED
    BY ONLY <1>1, <2>1, <2>2, <2>3
<1> HIDE DEF M
<1>6. \A i, j \in 1 .. L : s[i] = s[j] => i = j
  BY <1>15 DEF IsInjective
<1>7. IsInjective(r)
  <2> SUFFICES ASSUME NEW i \in 1 .. M, NEW j \in 1 .. M, r[i] = r[j]
               PROVE  i = j
    BY <1>14 DEF IsInjective
  <2> QED
    BY ONLY <1>14, <1>5, <1>6, i \in 1 .. M, j \in 1 .. M, r[i] = r[j], Zenon
<1>8. Range(p) \subseteq Range(s)
  BY ONLY <1>2, <1>5, <1>15 DEF Range
<1>9. ASSUME NEW x \in Range(r)
      PROVE  x \in Range(s) \ Range(p)
  <2>1. PICK i \in 1 .. M : x = r[i]
    BY <1>14, <1>9 DEF Range
  <2>2. x = s[k + i] /\ k + i \in 1 .. L /\ k + i \notin 1 .. k
    BY <1>14, <1>5, <2>1
  <2>3. x \in Range(s)
    BY <1>15, <2>2 DEF Range
  <2>4. ASSUME NEW j \in 1 .. k, x = p[j]
        PROVE  FALSE
    BY ONLY <1>2, <1>5, <1>6, <2>2, <2>4, Zenon
  <2> QED
    BY <1>2, <2>3, <2>4 DEF Range
<1>10. ASSUME NEW x \in Range(s) \ Range(p)
       PROVE  x \in Range(r)
  <2>1. PICK i \in 1 .. L : x = s[i]
    BY <1>15, <1>10 DEF Range
  <2>2. i \notin 1 .. k
    BY <1>2, <1>10, <2>1 DEF Range
  <2>3. i - k \in 1 .. M /\ x = r[i - k]
    BY ONLY <1>14, <1>5, <2>1, <2>2
  <2> QED
    BY <1>14, <2>3 DEF Range
<1> QED
  BY <1>2, <1>3, <1>7, <1>8, <1>9, <1>10 DEF p, r, L

\* A list without repetition has as many elements as positions.
LEMMA ListCount ==
    ASSUME NEW X, NEW s \in Seq(X), IsInjective(s)
    PROVE  IsFiniteSet(Range(s)) /\ Cardinality(Range(s)) = Len(s)
<1>1. Len(s) \in Nat /\ DOMAIN s = 1 .. Len(s) /\ s = [i \in 1 .. Len(s) |-> s[i]]
  OBVIOUS
<1>2. s \in Bijection(1 .. Len(s), Range(s))
  BY <1>1 DEF Bijection, Injection, Surjection, IsInjective, Range
<1>3. IsFiniteSet(1 .. Len(s)) /\ Cardinality(1 .. Len(s)) = Len(s)
  <2>1. 1 \in Int /\ Len(s) \in Int
    BY <1>1
  <2>2. IsFiniteSet(1 .. Len(s))
    BY <2>1, FS_Interval
  <2>3. Cardinality(1 .. Len(s)) = IF 1 > Len(s) THEN 0 ELSE Len(s) - 1 + 1
    BY <2>1, FS_Interval
  <2> QED
    BY <1>1, <2>2, <2>3
<1> QED
  BY <1>2, <1>3, FS_Bijection DEF ExistsBijection

\* A function has no more values than arguments.
LEMMA RangeBound ==
    ASSUME NEW f, f = [x \in DOMAIN f |-> f[x]], IsFiniteSet(DOMAIN f)
    PROVE  /\ IsFiniteSet(Range(f)) /\ Cardinality(Range(f)) \in Nat
           /\ Cardinality(Range(f)) <= Cardinality(DOMAIN f)
<1>1. f \in Surjection(DOMAIN f, Range(f))
  BY DEF Surjection, Range
<1>2. IsFiniteSet(Range(f)) /\ Cardinality(Range(f)) <= Cardinality(DOMAIN f)
  BY <1>1, FS_Surjection
<1> QED
  BY <1>2, FS_CardinalityType
=============================================================================
