-------------------------- MODULE SeqFilterProofs ---------------------------
(***************************************************************************)
(* What Subsequence computes, for every sequence and every set of          *)
(* positions: its items are those at the positions, each once and in their *)
(* order, and it is the only sequence of which that is true.  The          *)
(* inductions are by the least counterexample, a natural number.           *)
(***************************************************************************)
EXTENDS SeqFilter, WellFoundedInduction, TLAPS

(* Every set of naturals that is not empty has a least element. *)
LEMMA LeastNat ==
  ASSUME NEW T \in SUBSET Nat, T # {}
  PROVE  \E x \in T : \A y \in T : x <= y
<1> DEFINE R == OpToRel(<, Nat)
<1>1. IsWellFoundedOn(R, Nat)
  BY NatLessThanWellFounded
<1>2. PICK x \in T : \A y \in T : ~(<<y, x>> \in R)
  <2> HIDE DEF R
  <2> QED
    BY <1>1, WFMin
<1>3. ASSUME NEW y \in T, y < x PROVE FALSE
  BY <1>2, <1>3 DEF OpToRel
<1> QED
  BY <1>3

(* One step of the recursion of Subsequence, and the function it defines:  *)
(* there is one, and its last value is the subsequence.                    *)
Row(g, q, I, n) ==
   IF n = 0 THEN <<>> ELSE IF n \in I THEN Append(g[n - 1], q[n]) ELSE g[n - 1]

(* A function that satisfies the recursion up to N exists. *)
LEMMA RowsExist ==
  ASSUME NEW q, NEW I, NEW N \in Nat
  PROVE  \E g : g = [n \in 0 .. N |-> Row(g, q, I, n)]
<1> DEFINE T == {m \in Nat : ~ \E g : g = [n \in 0 .. m |-> Row(g, q, I, n)]}
<1> SUFFICES ASSUME N \in T PROVE FALSE
  OBVIOUS
<1>1. PICK m \in T : \A k \in T : m <= k
  <2>1. T \in SUBSET Nat /\ T # {}
    OBVIOUS
  <2> HIDE DEF T
  <2> QED
    BY <2>1, LeastNat
<1>2. CASE m = 0
  <2> DEFINE g == [n \in 0 .. 0 |-> <<>>]
  <2>1. g = [n \in 0 .. 0 |-> Row(g, q, I, n)]
    BY DEF Row
  <2> QED
    BY <1>2, <2>1
<1>3. CASE m # 0
  <2>1. m - 1 \in Nat /\ m - 1 \notin T
    BY <1>1, <1>3
  <2>2. PICK f : f = [n \in 0 .. m - 1 |-> Row(f, q, I, n)]
    BY <2>1
  <2> DEFINE g == [n \in 0 .. m |-> IF n = m THEN Row(f, q, I, m) ELSE f[n]]
  <2>3. ASSUME NEW n \in 0 .. m PROVE g[n] = Row(g, q, I, n)
    <3>1. n # 0 => n - 1 \in 0 .. m - 1 /\ g[n - 1] = f[n - 1]
      OBVIOUS
    <3>2. Row(g, q, I, n) = Row(f, q, I, n)
      BY <3>1 DEF Row
    <3>3. CASE n = m
      BY <3>2, <3>3
    <3>4. CASE n # m
      <4>1. n \in 0 .. m - 1
        BY <3>4
      <4>2. f[n] = Row(f, q, I, n)
        BY <2>2, <4>1
      <4> QED
        BY <4>2, <3>2, <3>4
    <3> QED
      BY <3>3, <3>4
  <2>4. g = [n \in 0 .. m |-> Row(g, q, I, n)]
    BY <2>3
  <2> QED
    BY <2>4
<1> QED
  BY <1>2, <1>3

(* Subsequence is the last value of such a function. *)
LEMMA Rows ==
  ASSUME NEW E, NEW q \in Seq(E), NEW I
  PROVE  \E g : /\ g = [n \in 0 .. Len(q) |-> Row(g, q, I, n)]
                /\ Subsequence(q, I) = g[Len(q)]
<1> DEFINE g == CHOOSE g : g = [n \in 0 .. Len(q) |-> Row(g, q, I, n)]
<1>1. g = [n \in 0 .. Len(q) |-> Row(g, q, I, n)]
  BY RowsExist
<1>2. Subsequence(q, I) = g[Len(q)]
  BY DEF Subsequence, Row
<1> QED
  BY <1>1, <1>2

(* h lists the positions J of q, in their order, whose items make up r. *)
Lists(h, r, q, J) ==
  /\ h \in [1 .. Len(r) -> J]
  /\ \A i \in 1 .. Len(r) : r[i] = q[h[i]]
  /\ \A i, k \in 1 .. Len(r) : i < k => h[i] < h[k]
  /\ \A x \in J : \E i \in 1 .. Len(r) : h[i] = x

(* Appending the item at a later position lists that position too. *)
LEMMA ListsAppend ==
  ASSUME NEW E, NEW q \in Seq(E), NEW n \in 1 .. Len(q), NEW J \in SUBSET (1 .. n - 1),
         NEW r \in Seq(E), NEW h, Lists(h, r, q, J)
  PROVE  LET s == Append(r, q[n])
         IN  s \in Seq(E) /\ \E f : Lists(f, s, q, J \cup {n})
<1> DEFINE s == Append(r, q[n])
           f == [i \in 1 .. Len(r) + 1 |-> IF i = Len(r) + 1 THEN n ELSE h[i]]
<1>1. s \in Seq(E) /\ Len(s) = Len(r) + 1 /\ Len(r) \in Nat /\ s[Len(r) + 1] = q[n]
      /\ \A i \in 1 .. Len(r) : s[i] = r[i]
  <2>1. q[n] \in E
    OBVIOUS
  <2> QED
    BY <2>1
<1>2. \A i \in 1 .. Len(r) : h[i] \in J /\ h[i] < n /\ f[i] = h[i]
  <2>1. ASSUME NEW i \in 1 .. Len(r) PROVE h[i] \in J /\ f[i] = h[i]
    <3>1. h \in [1 .. Len(r) -> J]
      BY DEF Lists
    <3>2. h[i] \in J
      BY <3>1
    <3>3. i # Len(r) + 1 /\ i \in 1 .. Len(r) + 1
      BY <1>1
    <3> QED
      BY <3>2, <3>3
  <2>2. \A j \in J : j < n
    OBVIOUS
  <2> QED
    BY <2>1, <2>2
<1>3. f \in [1 .. Len(s) -> J \cup {n}]
  <2>1. ASSUME NEW i \in 1 .. Len(r) + 1
        PROVE  (IF i = Len(r) + 1 THEN n ELSE h[i]) \in J \cup {n}
    <3>1. i # Len(r) + 1 => i \in 1 .. Len(r)
      BY <1>1
    <3> QED
      BY <3>1, <1>2
  <2> QED
    BY <2>1, <1>1
<1>4. \A i \in 1 .. Len(s) : s[i] = q[f[i]]
  BY <1>1, <1>2 DEF Lists
<1>5. ASSUME NEW i \in 1 .. Len(s), NEW k \in 1 .. Len(s), i < k PROVE f[i] < f[k]
  <2>1. i \in 1 .. Len(r) /\ (k \in 1 .. Len(r) \/ k = Len(r) + 1)
    BY <1>1, <1>5
  <2>2. f[Len(r) + 1] = n
    BY <1>1
  <2>3. k \in 1 .. Len(r) => h[i] < h[k]
    BY <1>5, <2>1 DEF Lists
  <2> HIDE DEF f, s
  <2> QED
    BY <1>2, <2>1, <2>2, <2>3
<1>6. \A x \in J \cup {n} : \E i \in 1 .. Len(s) : f[i] = x
  <2>1. f[Len(s)] = n /\ Len(s) \in 1 .. Len(s)
    BY <1>1
  <2>2. ASSUME NEW x \in J PROVE \E i \in 1 .. Len(s) : f[i] = x
    BY <1>1, <1>2 DEF Lists
  <2> QED
    BY <2>1, <2>2
<1>7. Lists(f, s, q, J \cup {n})
  <2> HIDE DEF f, s
  <2> QED
    BY <1>3, <1>4, <1>5, <1>6 DEF Lists
<1> QED
  BY <1>1, <1>7

(* The subsequence is a sequence of the same items, listed by its positions. *)
LEMMA SubsequenceLists ==
  ASSUME NEW E, NEW q \in Seq(E), NEW I \in SUBSET (1 .. Len(q))
  PROVE  /\ Subsequence(q, I) \in Seq(E)
         /\ \E h : Lists(h, Subsequence(q, I), q, I)
<1>1. PICK g : /\ g = [n \in 0 .. Len(q) |-> Row(g, q, I, n)]
               /\ Subsequence(q, I) = g[Len(q)]
  BY Rows
<1> DEFINE Good(n) == g[n] \in Seq(E) /\ \E h : Lists(h, g[n], q, I \cap (1 .. n))
           T == {n \in 0 .. Len(q) : ~Good(n)}
<1>0. Len(q) \in Nat
  OBVIOUS
<1>2. ASSUME T # {} PROVE FALSE
  <2>1. PICK m \in T : \A k \in T : m <= k
    <3>1. T \in SUBSET Nat
      OBVIOUS
    <3> HIDE DEF T
    <3> QED
      BY <3>1, <1>2, LeastNat
  <2>2. g[m] = Row(g, q, I, m)
    BY <1>1
  <2>3. CASE m = 0
    <3>1. g[0] = <<>> /\ I \cap (1 .. 0) = {}
      BY <2>2, <2>3 DEF Row
    <3>2. Lists(<<>>, <<>>, q, {})
      BY DEF Lists
    <3>3. Good(0)
      BY <3>1, <3>2
    <3> QED
      BY <3>3, <2>3
  <2>4. CASE m # 0
    <3>1. m - 1 \in 0 .. Len(q) /\ m \in 1 .. Len(q) /\ m - 1 \notin T
      <4>1. m \in 1 .. Len(q)
        BY <2>4, <1>0
      <4>2. m - 1 \notin T
        <5> HIDE DEF T
        <5> QED
          BY <2>1, <4>1, <1>0
      <4> HIDE DEF T
      <4> QED
        BY <4>1, <4>2, <1>0
    <3>2. Good(m - 1)
      BY <3>1
    <3>3. PICK h : Lists(h, g[m - 1], q, I \cap (1 .. m - 1))
      BY <3>2
    <3>4. CASE m \in I
      <4>1. g[m] = Append(g[m - 1], q[m])
        BY <2>2, <2>4, <3>4 DEF Row
      <4>2. I \cap (1 .. m) = (I \cap (1 .. m - 1)) \cup {m}
        BY <3>1, <3>4
      <4>3. I \cap (1 .. m - 1) \in SUBSET (1 .. m - 1)
        OBVIOUS
      <4>4. Good(m)
        <5>1. \A J \in SUBSET (1 .. m - 1) : Lists(h, g[m - 1], q, J) =>
                LET s == Append(g[m - 1], q[m])
                IN  s \in Seq(E) /\ \E f : Lists(f, s, q, J \cup {m})
          BY <3>1, <3>2, ListsAppend
        <5> HIDE DEF Lists
        <5> QED
          BY <5>1, <3>3, <4>1, <4>2, <4>3
      <4> QED
        BY <4>4
    <3>5. CASE m \notin I
      <4>1. g[m] = g[m - 1]
        BY <2>2, <2>4, <3>5 DEF Row
      <4>2. I \cap (1 .. m) = I \cap (1 .. m - 1)
        BY <3>1, <3>5
      <4> QED
        BY <3>2, <4>1, <4>2
    <3> QED
      BY <3>4, <3>5
  <2> QED
    BY <2>3, <2>4
<1>3. Good(Len(q))
  <2>1. Len(q) \in 0 .. Len(q)
    BY <1>0
  <2> HIDE DEF Good
  <2> QED
    BY <1>2, <2>1
<1>4. I \cap (1 .. Len(q)) = I
  OBVIOUS
<1> QED
  BY <1>1, <1>3, <1>4

(* h increases up to M; every value of h up to M is one of f up to N. *)
Increasing(h, M) ==
  /\ \A i \in 1 .. M : h[i] \in Nat
  /\ \A i, k \in 1 .. M : i < k => h[i] < h[k]
Covers(f, N, h, M) == \A i \in 1 .. M : \E k \in 1 .. N : f[k] = h[i]

(* There is one way to list a set of numbers in increasing order. *)
LEMMA OneOrder ==
  ASSUME NEW M \in Nat, NEW N \in Nat, NEW h, NEW f, Increasing(h, M), Increasing(f, N),
         Covers(f, N, h, M), Covers(h, M, f, N)
  PROVE  \A i \in 1 .. M : i \in 1 .. N /\ h[i] = f[i]
<1> USE DEF Increasing, Covers
<1> DEFINE T == {i \in 1 .. M : ~(i \in 1 .. N /\ h[i] = f[i])}
<1> SUFFICES ASSUME T # {} PROVE FALSE
  OBVIOUS
<1>1. PICK m \in T : \A k \in T : m <= k
  <2>1. T \in SUBSET Nat
    OBVIOUS
  <2> HIDE DEF T
  <2> QED
    BY <2>1, LeastNat
<1>2. ASSUME NEW i \in 1 .. M, i < m PROVE i \in 1 .. N /\ h[i] = f[i]
  <2>1. i \notin T
    <3>1. m \in Nat
      OBVIOUS
    <3> HIDE DEF T
    <3> QED
      BY <3>1, <1>1, <1>2
  <2> QED
    BY <2>1
<1>3. m \in 1 .. M /\ ~(m \in 1 .. N /\ h[m] = f[m])
  OBVIOUS
<1> HIDE DEF T
<1>4. PICK k \in 1 .. N : f[k] = h[m]
  BY <1>3
<1>5. m < k
  <2>1. ASSUME k < m PROVE FALSE
    <3>1. k \in 1 .. M /\ h[k] = f[k] /\ h[k] < h[m]
      BY <2>1, <1>2, <1>3
    <3> QED
      BY <3>1, <1>3, <1>4
  <2>2. k # m
    BY <1>3, <1>4
  <2> QED
    BY <2>1, <2>2, <1>3
<1>6. m \in 1 .. N /\ f[m] < f[k]
  BY <1>3, <1>5
<1>7. PICK l \in 1 .. M : h[l] = f[m]
  BY <1>6
<1>8. l < m
  <2>1. ASSUME m < l PROVE FALSE
    <3>1. h[m] < h[l]
      BY <2>1, <1>3
    <3> QED
      BY <3>1, <1>3, <1>4, <1>6, <1>7
  <2>2. l # m
    BY <1>3, <1>6, <1>7
  <2> QED
    BY <2>1, <2>2, <1>3
<1>9. l \in 1 .. N /\ f[l] = f[m] /\ f[l] < f[m]
  BY <1>2, <1>6, <1>7, <1>8
<1> QED
  BY <1>6, <1>9

(* So the positions determine what they list. *)
LEMMA ListsUnique ==
  ASSUME NEW E, NEW q, NEW J \in SUBSET Nat, NEW r \in Seq(E), NEW s \in Seq(E),
         NEW h, NEW f, Lists(h, r, q, J), Lists(f, s, q, J)
  PROVE  r = s
<1>1. Len(r) \in Nat /\ Len(s) \in Nat
  OBVIOUS
<1>2. /\ \A i \in 1 .. Len(r) : h[i] \in J /\ h[i] \in Nat
      /\ \A i \in 1 .. Len(s) : f[i] \in J /\ f[i] \in Nat
  BY DEF Lists
<1>3. Covers(f, Len(s), h, Len(r)) /\ Covers(h, Len(r), f, Len(s))
  BY <1>2 DEF Lists, Covers
<1>4. Increasing(h, Len(r)) /\ Increasing(f, Len(s))
  BY <1>2 DEF Lists, Increasing
<1>5. \A i \in 1 .. Len(r) : i \in 1 .. Len(s) /\ h[i] = f[i]
  BY <1>1, <1>3, <1>4, OneOrder
<1>6. \A i \in 1 .. Len(s) : i \in 1 .. Len(r) /\ f[i] = h[i]
  BY <1>1, <1>3, <1>4, OneOrder
<1>7. Len(r) = Len(s)
  BY <1>1, <1>5, <1>6
<1>8. \A i \in 1 .. Len(r) : r[i] = s[i]
  BY <1>5 DEF Lists
<1> QED
  BY <1>7, <1>8

(* What lists the positions I of q is the subsequence. *)
LEMMA SubsequenceUnique ==
  ASSUME NEW E, NEW q \in Seq(E), NEW I \in SUBSET (1 .. Len(q)),
         NEW r \in Seq(E), NEW h, Lists(h, r, q, I)
  PROVE  r = Subsequence(q, I)
<1>1. Subsequence(q, I) \in Seq(E)
  BY SubsequenceLists
<1>2. PICK f : Lists(f, Subsequence(q, I), q, I)
  BY SubsequenceLists
<1>3. I \in SUBSET Nat
  OBVIOUS
<1> QED
  BY <1>1, <1>2, <1>3, ListsUnique

(* Appending an item to the sequence appends it to the subsequence if its  *)
(* position is chosen, and leaves it alone otherwise.                      *)
LEMMA SubsequenceAppend ==
  ASSUME NEW E, NEW q \in Seq(E), NEW x \in E, NEW I \in SUBSET (1 .. Len(q))
  PROVE  /\ Subsequence(Append(q, x), I) = Subsequence(q, I)
         /\ Subsequence(Append(q, x), I \cup {Len(q) + 1}) = Append(Subsequence(q, I), x)
<1>1. PICK p, r, n : p = Append(q, x) /\ r = Subsequence(q, I) /\ n = Len(q) + 1
  OBVIOUS
<1>2. r \in Seq(E) /\ \E h : Lists(h, r, q, I)
  BY <1>1, SubsequenceLists
<1>3. PICK h : Lists(h, r, q, I)
  BY <1>2
<1>4. p \in Seq(E) /\ Len(p) = n /\ p[n] = x /\ n \in Nat /\ \A i \in 1 .. Len(q) : p[i] = q[i]
  BY <1>1
<1>5. Lists(h, r, p, I)
  <2>1. \A i \in 1 .. Len(r) : h[i] \in I
    BY <1>3 DEF Lists
  <2>2. \A i \in 1 .. Len(r) : r[i] = p[h[i]]
    BY <1>3, <1>4, <2>1 DEF Lists
  <2> QED
    BY <1>3, <2>2 DEF Lists
<1>6. n \in 1 .. Len(p) /\ I \in SUBSET (1 .. n - 1) /\ I \in SUBSET (1 .. Len(p))
  BY <1>1, <1>4
<1>7. r = Subsequence(p, I)
  BY <1>2, <1>4, <1>5, <1>6, SubsequenceUnique
<1>8. Append(r, p[n]) \in Seq(E) /\ \E f : Lists(f, Append(r, p[n]), p, I \cup {n})
  BY <1>2, <1>4, <1>5, <1>6, ListsAppend
<1>9. PICK f, s, J : s = Append(r, p[n]) /\ J = I \cup {n} /\ Lists(f, s, p, J)
  BY <1>8
<1>10. s \in Seq(E) /\ J \in SUBSET (1 .. Len(p))
  BY <1>6, <1>8, <1>9
<1>11. s = Subsequence(p, J)
  BY <1>4, <1>9, <1>10, SubsequenceUnique
<1> QED
  BY <1>1, <1>4, <1>7, <1>9, <1>11

(* A bounded set of numbers that is not empty has a greatest. *)
LEMMA GreatestNat ==
  ASSUME NEW N \in Nat, NEW T \in SUBSET (0 .. N), T # {}
  PROVE  \E x \in T : \A y \in T : y <= x
<1> DEFINE U == {N - y : y \in T}
<1>1. U \in SUBSET Nat /\ U # {}
  <2>1. \A y \in T : N - y \in Nat
    OBVIOUS
  <2> QED
    BY <2>1
<1>2. PICK u \in U : \A v \in U : u <= v
  <2> HIDE DEF U
  <2> QED
    BY <1>1, LeastNat
<1>3. PICK x \in T : u = N - x
  OBVIOUS
<1>4. ASSUME NEW y \in T PROVE y <= x
  <2>1. N - x <= N - y
    BY <1>2, <1>3
  <2>2. x \in Int /\ y \in Int
    OBVIOUS
  <2> QED
    BY <2>1, <2>2
<1> QED
  BY <1>4
=============================================================================
