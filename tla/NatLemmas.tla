----------------------------- MODULE NatLemmas -----------------------------
(***************************************************************************)
(* Induction and recursion on the naturals, for sets and functions: the    *)
(* proofs about recursive definitions apply these to the set of the        *)
(* numbers at which a claim holds, or to the function that a step of the   *)
(* recursion applies.                                                      *)
(***************************************************************************)
EXTENDS Integers, TLAPS, WellFoundedInduction

\* A non-empty set of naturals has a least element.
LEMMA LeastNat ==
    ASSUME NEW T, T \subseteq Nat, T # {}
    PROVE  \E x \in T : \A y \in T : x =< y
<1> DEFINE R == OpToRel(<, Nat)
<1>1. IsWellFoundedOn(R, Nat)
  BY NatLessThanWellFounded
<1>2. \A x, y \in Nat : x < y => <<x, y>> \in R
  BY DEF OpToRel
<1> HIDE DEF R
<1>3. PICK x \in T : \A y \in T : ~ (<<y, x>> \in R)
  BY <1>1, WFMin, Zenon
<1>4. \A y \in T : ~(y < x)
  BY <1>2, <1>3
<1>5. \A y \in T : y \in Nat /\ x \in Nat
  OBVIOUS
<1>6. \A y \in T : x =< y
  BY <1>4, <1>5
<1>7. QED BY <1>6

\* A set of naturals that contains zero and with a number its successor
\* contains every natural.
LEMMA SetInduction ==
    ASSUME NEW S, 0 \in S, \A n \in Nat : n \in S => n + 1 \in S
    PROVE  \A n \in Nat : n \in S
<1> DEFINE T == {n \in Nat : n \notin S}
<1>1. SUFFICES ASSUME T # {} PROVE FALSE
  OBVIOUS
<1>2. PICK x \in T : \A y \in T : x =< y
  BY <1>1, LeastNat
<1>3. x # 0 /\ x \in Nat
  OBVIOUS
<1>4. x - 1 \in Nat /\ ~(x =< x - 1) /\ (x - 1) + 1 = x
  BY <1>3
<1>5. x - 1 \in S
  BY <1>2, <1>4
<1>6. x \in S
  BY <1>4, <1>5
<1>7. QED BY <1>6
-----------------------------------------------------------------------------
\* The first n + 1 values of the recursion that starts with a and applies D[i]
\* to the value at i.
Approximates(g, n, V, a, D) ==
    /\ g \in [0 .. n -> V]
    /\ g[0] = a
    /\ \A i \in 0 .. n - 1 : g[i + 1] = D[i][g[i]]

\* Two approximations agree where both are defined.
LEMMA ApproximationsAgree ==
    ASSUME NEW V, NEW a, NEW D,
           NEW m \in Nat, NEW n \in Nat, NEW g, NEW h,
           Approximates(g, m, V, a, D), Approximates(h, n, V, a, D)
    PROVE  \A i \in Nat : i =< m /\ i =< n => g[i] = h[i]
<1> DEFINE S == {i \in Nat : i =< m /\ i =< n => g[i] = h[i]}
<1>1. 0 \in S
  BY DEF Approximates
<1>2. ASSUME NEW i \in Nat, i \in S PROVE i + 1 \in S
  <2> SUFFICES ASSUME i + 1 =< m, i + 1 =< n PROVE g[i + 1] = h[i + 1]
    OBVIOUS
  <2>1. g[i] = h[i]
    BY <1>2
  <2>2. i \in 0 .. m - 1 /\ i \in 0 .. n - 1
    OBVIOUS
  <2>3. QED BY <2>1, <2>2 DEF Approximates
<1> HIDE DEF S
<1>3. \A i \in Nat : i \in S
  BY <1>1, <1>2, SetInduction
<1>4. QED BY <1>3 DEF S

LEMMA ApproximationsExist ==
    ASSUME NEW V, NEW a \in V, NEW D \in [Nat -> [V -> V]]
    PROVE  \A n \in Nat : \E g : Approximates(g, n, V, a, D)
<1> DEFINE S == {n \in Nat : \E g : Approximates(g, n, V, a, D)}
<1>1. 0 \in S
  <2> DEFINE g == [i \in 0 .. 0 |-> a]
  <2>1. Approximates(g, 0, V, a, D)
    BY DEF Approximates
  <2>2. QED BY <2>1
<1>2. ASSUME NEW n \in Nat, n \in S PROVE n + 1 \in S
  <2>1. PICK g : Approximates(g, n, V, a, D)
    BY <1>2
  <2>2. /\ n \in 0 .. n /\ g[n] \in V
        /\ \A i \in 0 .. n : g[i] \in V
        /\ D[n][g[n]] \in V
    BY <2>1 DEF Approximates
  <2> DEFINE h == [i \in 0 .. n + 1 |-> IF i = n + 1 THEN D[n][g[n]] ELSE g[i]]
  <2>3. h \in [0 .. n + 1 -> V]
    BY <2>2
  <2>4. h[0] = a
    BY <2>1 DEF Approximates
  <2>5. ASSUME NEW i \in 0 .. (n + 1) - 1 PROVE h[i + 1] = D[i][h[i]]
    <3>1. i \in 0 .. n /\ i # n + 1 /\ i \in 0 .. n + 1 /\ i + 1 \in 0 .. n + 1
      OBVIOUS
    <3>2. h[i] = g[i]
      BY <3>1
    <3>3. CASE i = n
      BY <3>1, <3>2, <3>3
    <3>4. CASE i # n
      <4>1. i \in 0 .. n - 1 /\ i + 1 # n + 1
        BY <3>1, <3>4
      <4>2. h[i + 1] = g[i + 1]
        BY <3>1, <4>1
      <4>3. g[i + 1] = D[i][g[i]]
        BY <2>1, <4>1 DEF Approximates
      <4>4. QED BY <3>2, <4>2, <4>3
    <3>5. QED BY <3>3, <3>4
  <2> HIDE DEF h
  <2>6. Approximates(h, n + 1, V, a, D)
    BY <2>3, <2>4, <2>5 DEF Approximates
  <2>7. QED BY <2>6
<1> HIDE DEF S
<1>3. \A n \in Nat : n \in S
  BY <1>1, <1>2, SetInduction
<1>4. QED BY <1>3 DEF S

Solves(f, V, a, D) ==
    /\ f \in [Nat -> V]
    /\ f[0] = a
    /\ \A n \in Nat : f[n + 1] = D[n][f[n]]

\* Every such recursion has a solution.
LEMMA PrimitiveRecursion ==
    ASSUME NEW V, NEW a \in V, NEW D \in [Nat -> [V -> V]]
    PROVE  \E f : Solves(f, V, a, D)
<1> DEFINE A(n) == CHOOSE g : Approximates(g, n, V, a, D)
           f == [n \in Nat |-> A(n)[n]]
<1>1. \A n \in Nat : Approximates(A(n), n, V, a, D)
  BY ApproximationsExist
<1> HIDE DEF A
<1>2. f \in [Nat -> V]
  BY <1>1 DEF Approximates
<1>3. f[0] = a
  BY <1>1 DEF Approximates
<1>4. ASSUME NEW n \in Nat PROVE f[n + 1] = D[n][f[n]]
  <2>1. n + 1 \in Nat /\ n =< n /\ n =< n + 1 /\ n \in 0 .. (n + 1) - 1
    OBVIOUS
  <2>2. A(n + 1)[n + 1] = D[n][A(n + 1)[n]]
    BY <1>1, <2>1 DEF Approximates
  <2>3. Approximates(A(n), n, V, a, D) /\ Approximates(A(n + 1), n + 1, V, a, D)
    BY <1>1, <2>1
  <2>4. A(n + 1)[n] = A(n)[n]
    <3>1. PICK m, g, h : m \in Nat /\ m = n + 1 /\ g = A(m) /\ h = A(n)
      BY <2>1
    <3>2. Approximates(g, m, V, a, D) /\ Approximates(h, n, V, a, D)
      BY <2>3, <3>1
    <3>3. \A i \in Nat : i =< m /\ i =< n => g[i] = h[i]
      BY <3>1, <3>2, ApproximationsAgree
    <3>4. QED BY <2>1, <3>1, <3>3
  <2>5. QED BY <2>1, <2>2, <2>4
<1> HIDE DEF f
<1>5. Solves(f, V, a, D)
  BY <1>2, <1>3, <1>4 DEF Solves
<1>6. QED BY <1>5
-----------------------------------------------------------------------------
(* Division by a divisor that is not a number. *)

LEMMA DivFacts ==
    ASSUME NEW a \in Nat, NEW d \in Nat, d >= 1
    PROVE  \E q \in Nat, r \in 0 .. d - 1 : q = a \div d /\ a = d * q + r
<1>0. a - d * (a \div d) \in 0 .. d - 1
  OBVIOUS
<1>1. PICK q \in Int : q = a \div d
  OBVIOUS
<1>2. q >= 0
  BY <1>1
<1>3. a - d * q \in 0 .. d - 1
  BY <1>0, <1>1
<1>4. a = d * q + (a - d * q)
  OBVIOUS
<1>5. QED BY <1>1, <1>2, <1>3, <1>4

LEMMA TimesMonotone ==
    ASSUME NEW d \in Nat, NEW x \in Int, NEW y \in Int, x =< y
    PROVE  d * x =< d * y
  OBVIOUS

\* The quotient is determined by a remainder in range.
LEMMA DivUnique ==
    ASSUME NEW d \in Nat, d >= 1, NEW a \in Nat, NEW q \in Nat,
           NEW r \in 0 .. d - 1, a = d * q + r
    PROVE  a \div d = q
<1>1. PICK t \in Nat, u \in 0 .. d - 1 : t = a \div d /\ a = d * t + u
  BY DivFacts
<1>2. a = d * t + u
  BY <1>1
<1>3. ~(t < q)
  <2> SUFFICES ASSUME t < q PROVE FALSE
    OBVIOUS
  <2>1. d * (t + 1) =< d * q
    BY TimesMonotone
  <2>2. d * (t + 1) = d * t + d
    OBVIOUS
  <2>3. QED BY <1>2, <2>1, <2>2
<1>4. ~(q < t)
  <2> SUFFICES ASSUME q < t PROVE FALSE
    OBVIOUS
  <2>1. d * (q + 1) =< d * t
    BY TimesMonotone
  <2>2. d * (q + 1) = d * q + d
    OBVIOUS
  <2>3. QED BY <1>2, <2>1, <2>2
<1>5. QED BY <1>1, <1>3, <1>4

\* Dividing by d and then by two is dividing by 2 * d.
LEMMA DivHalves ==
    ASSUME NEW a \in Nat, NEW d \in Nat, d >= 1
    PROVE  (a \div d) \div 2 = a \div (2 * d)
<1>1. PICK q \in Nat, r \in 0 .. d - 1 : q = a \div d /\ a = d * q + r
  BY DivFacts
<1>2. a = d * q + r
  BY <1>1
<1>3. PICK s \in Nat, t \in 0 .. 1 : s = q \div 2 /\ q = 2 * s + t
  OBVIOUS
<1>4. d * q = (2 * d) * s + d * t
  BY <1>3
<1>5. d * t + r \in 0 .. 2 * d - 1
  <2>1. CASE t = 0
    BY <2>1
  <2>2. CASE t = 1
    BY <2>2
  <2>3. QED BY <2>1, <2>2
<1>6. a = (2 * d) * s + (d * t + r)
  BY <1>2, <1>4
<1>7. 2 * d \in Nat /\ 2 * d >= 1
  OBVIOUS
<1>8. a \div (2 * d) = s
  BY <1>5, <1>6, <1>7, DivUnique
<1>9. QED BY <1>1, <1>3, <1>8
=============================================================================
