------------------------ MODULE WaksmanRouterProofs ------------------------
(***************************************************************************)
(* Proofs about the router of the permutation network, for every width: no *)
(* assertion of route() fails, the halves it calls itself on are           *)
(* permutations that the walk has filled completely, and every switch and  *)
(* every intermediate node within the bounds is assigned.                  *)
(***************************************************************************)
EXTENDS WaksmanWalkProofs, NatLemmas

\* Where the switches and the nodes of the k-th activation start: the end of
\* those of the one before it.
SwitchesFrom(k) == IF k \in DOMAIN frames THEN frames[k].sw ELSE numSwitches[width]
NodesFrom(k) == IF k \in DOMAIN frames THEN frames[k].iv ELSE NumIntermediate(width)

\* A wire has no node of its own: its two ends were one node of the caller.
NodesBefore == IF frames # <<>> /\ Frame.n = 1 THEN Frame.iv - 1 ELSE NodesFrom(1)

\* The k-th activation is a permutation, and it ends where the next begins.
FrameOK(k) ==
    /\ IsPermutation(frames[k])
    /\ k > 1 => frames[k].n >= 2
    /\ SwitchesFrom(k + 1) = frames[k].sw + numSwitches[frames[k].n]
    /\ NodesFrom(k + 1) = frames[k].iv + NumIntermediate(frames[k].n)
    /\ SwitchesFrom(k + 1) =< numSwitches[width]
    /\ NodesFrom(k + 1) =< NumIntermediate(width)

FramesInv ==
    /\ frames \in Seq(Range(frames))
    /\ \A k \in DOMAIN frames : FrameOK(k)

PcInv ==
    /\ pc \in {"call", "left", "right", "done"}
    /\ pc = "call" => /\ DOMAIN switches = 0 .. SwitchesFrom(1) - 1
                      /\ DOMAIN intermediate = 0 .. NodesBefore - 1
    /\ pc = "done" => /\ DOMAIN switches = 0 .. numSwitches[width] - 1
                      /\ DOMAIN intermediate = 0 .. NumIntermediate(width) - 1
    /\ pc \in {"left", "right"} => frames # <<>> /\ Frame.n >= 3 /\ LoopOK(loop, switches, intermediate, pc)

IInv == width \in Nat /\ width >= 2 /\ FramesInv /\ PcInv
-----------------------------------------------------------------------------
(***************************************************************************)
(* The numbers of switches and of intermediate nodes.                      *)
(***************************************************************************)

\* The first n + 1 values of CeilLog2.
Logs(g, n) ==
    /\ DOMAIN g = 0 .. n
    /\ \A i \in 0 .. n : g[i] = IF i =< 1 THEN 0 ELSE 1 + g[(i + 1) \div 2]

LEMMA HalfIsLess ==
    ASSUME NEW i \in Nat, i >= 2
    PROVE  (i + 1) \div 2 \in Nat /\ (i + 1) \div 2 < i /\ (i + 1) \div 2 >= 1
  OBVIOUS

LEMMA LogsAgree ==
    ASSUME NEW m \in Nat, NEW n \in Nat, NEW g, NEW h, Logs(g, m), Logs(h, n)
    PROVE  \A i \in Nat : i =< m /\ i =< n => g[i] = h[i]
<1> DEFINE T == {i \in Nat : i =< m /\ i =< n /\ g[i] # h[i]}
<1>1. SUFFICES ASSUME T # {} PROVE FALSE
  BY Zenon
<1>2. PICK x \in T : \A y \in T : x =< y
  BY <1>1, LeastNat, Zenon
<1>3. x \in Nat /\ x =< m /\ x =< n /\ g[x] # h[x]
  BY <1>2, Zenon
<1>4. x >= 2
  BY <1>3 DEF Logs
<1>5. PICK k \in Nat : k = (x + 1) \div 2 /\ k < x
  BY <1>3, <1>4, HalfIsLess, Zenon
<1>6. g[x] = 1 + g[k] /\ h[x] = 1 + h[k]
  BY <1>3, <1>4, <1>5 DEF Logs
<1>7. g[k] # h[k]
  BY <1>3, <1>6, Zenon
<1>8. k \in T
  BY <1>3, <1>5, <1>7
<1>9. QED BY <1>2, <1>3, <1>5, <1>8

LEMMA LogsExist == \A n \in Nat : \E g : Logs(g, n)
<1> DEFINE S == {n \in Nat : \E g : Logs(g, n)}
<1>1. 0 \in S
  <2> DEFINE g == [i \in 0 .. 0 |-> 0]
  <2>1. Logs(g, 0)
    BY DEF Logs
  <2>2. QED BY <2>1, Zenon
<1>2. ASSUME NEW n \in Nat, n \in S PROVE n + 1 \in S
  <2>1. PICK g : Logs(g, n)
    BY <1>2, Zenon
  <2> DEFINE v == IF n = 0 THEN 0 ELSE 1 + g[(n + 2) \div 2]
             h == [i \in 0 .. n + 1 |-> IF i = n + 1 THEN v ELSE g[i]]
  <2>2. DOMAIN h = 0 .. n + 1 /\ h[n + 1] = v /\ \A i \in 0 .. n : h[i] = g[i]
    OBVIOUS
  <2> HIDE DEF h
  <2>3. ASSUME NEW i \in 0 .. n + 1
        PROVE  h[i] = IF i =< 1 THEN 0 ELSE 1 + h[(i + 1) \div 2]
    <3>1. CASE i =< 1 /\ i =< n
      BY <2>1, <2>2, <3>1 DEF Logs
    <3>2. CASE i =< 1 /\ i = n + 1
      BY <2>2, <3>2
    <3>3. CASE i > 1
      <4>1. PICK k \in Nat : k = (i + 1) \div 2 /\ k < i /\ k \in 0 .. n
        BY <3>3, HalfIsLess
      <4>2. CASE i =< n
        BY <2>1, <2>2, <3>3, <4>1, <4>2 DEF Logs
      <4>3. CASE i = n + 1
        <5>1. (n + 2) \div 2 = k /\ n # 0
          BY <3>3, <4>1, <4>3
        <5>2. QED BY <2>2, <3>3, <4>1, <4>3, <5>1
      <4>4. QED BY <4>2, <4>3
    <3>4. QED BY <3>1, <3>2, <3>3
  <2>4. Logs(h, n + 1)
    BY <2>2, <2>3, Zenon DEF Logs
  <2>5. n + 1 \in Nat
    OBVIOUS
  <2>6. QED BY <2>4, <2>5, Zenon
<1> HIDE DEF S
<1>3. \A n \in Nat : n \in S
  BY <1>1, <1>2, SetInduction, Zenon
<1>4. QED BY <1>3, Zenon DEF S

LEMMA CeilLog2Facts ==
    /\ \A i \in Nat : CeilLog2[i] \in Nat
    /\ CeilLog2[1] = 0
    /\ \A i \in Nat : i >= 2 => CeilLog2[i] = 1 + CeilLog2[(i + 1) \div 2]
<1> DEFINE A(n) == CHOOSE g : Logs(g, n)
           F == [n \in Nat |-> A(n)[n]]
           E(f) == [i \in Nat |-> IF i =< 1 THEN 0 ELSE 1 + f[(i + 1) \div 2]]
<1>1. \A n \in Nat : Logs(A(n), n)
  BY LogsExist, Zenon
<1> HIDE DEF A
<1>2. ASSUME NEW i \in Nat PROVE F[i] = IF i =< 1 THEN 0 ELSE 1 + F[(i + 1) \div 2]
  <2>1. CASE i =< 1
    BY <1>1, <2>1 DEF Logs
  <2>2. CASE i > 1
    <3>1. PICK k, g, h : /\ k \in Nat /\ k = (i + 1) \div 2 /\ k < i
                         /\ g = A(i) /\ h = A(k)
      BY <2>2, HalfIsLess
    <3>2. Logs(g, i) /\ Logs(h, k)
      BY <1>1, <3>1, Zenon
    <3>3. \A l \in Nat : l =< i /\ l =< k => g[l] = h[l]
      BY <3>1, <3>2, LogsAgree
    <3>4. g[k] = h[k]
      BY <3>1, <3>3
    <3>5. g[i] = 1 + g[k]
      BY <2>2, <3>1, <3>2 DEF Logs
    <3>6. F[i] = g[i] /\ F[k] = h[k]
      BY <3>1, Zenon
    <3> HIDE DEF F
    <3>7. QED BY <2>2, <3>1, <3>4, <3>5, <3>6
  <2>3. QED BY <2>1, <2>2
<1>3. F = E(F)
  <2>1. F = [i \in Nat |-> F[i]]
    BY Zenon
  <2> HIDE DEF F
  <2>2. QED BY <1>2, <2>1, Zenon
<1> HIDE DEF F
<1>4. CeilLog2 = E(CeilLog2)
  <2>1. CeilLog2 = CHOOSE g : g = E(g)
    BY Zenon DEF CeilLog2
  <2> HIDE DEF E
  <2>2. QED BY <1>3, <2>1, Zenon
<1>5. \A i \in Nat : CeilLog2[i] = IF i =< 1 THEN 0 ELSE 1 + CeilLog2[(i + 1) \div 2]
  <2> DEFINE C == CeilLog2
  <2>1. C = E(C)
    BY <1>4, Zenon
  <2> HIDE DEF C
  <2>2. \A i \in Nat : C[i] = IF i =< 1 THEN 0 ELSE 1 + C[(i + 1) \div 2]
    BY <2>1, Zenon
  <2>3. QED BY <2>2, Zenon DEF C
<1>6. \A i \in Nat : CeilLog2[i] \in Nat
  <2> DEFINE T == {i \in Nat : CeilLog2[i] \notin Nat}
  <2>1. SUFFICES ASSUME T # {} PROVE FALSE
    BY Zenon
  <2>2. PICK x \in T : \A y \in T : x =< y
    BY <2>1, LeastNat, Zenon
  <2>3. x \in Nat /\ CeilLog2[x] \notin Nat
    BY <2>2, Zenon
  <2>4. x >= 2
    BY <1>5, <2>3
  <2>5. PICK k \in Nat : k = (x + 1) \div 2 /\ k < x
    BY <2>3, <2>4, HalfIsLess, Zenon
  <2>6. CeilLog2[x] = 1 + CeilLog2[k]
    BY <1>5, <2>3, <2>4, <2>5
  <2>7. k \in T
    BY <2>3, <2>5, <2>6
  <2>8. QED BY <2>2, <2>3, <2>5, <2>7
<1>7. QED BY <1>5, <1>6

LEMMA NumSwitchesFacts ==
    /\ \A n \in Nat : numSwitches[n] \in Nat
    /\ numSwitches[0] = 0
    /\ \A n \in Nat : numSwitches[n + 1] = CeilLog2[n + 1] + numSwitches[n]
<1> DEFINE D == [n \in Nat |-> [v \in Nat |-> CeilLog2[n + 1] + v]]
           E(f) == [n \in Nat |-> IF n = 0 THEN 0 ELSE CeilLog2[n] + f[n - 1]]
<1>0. \A n \in Nat : CeilLog2[n] \in Nat
  BY CeilLog2Facts, Zenon
<1>1. D \in [Nat -> [Nat -> Nat]] /\ 0 \in Nat
  BY <1>0
<1>2. PICK f : Solves(f, Nat, 0, D)
  <2> HIDE DEF D
  <2>1. QED BY <1>1, PrimitiveRecursion, Zenon
<1>3. \A n \in Nat : f[n] = IF n = 0 THEN 0 ELSE CeilLog2[n] + f[n - 1]
  <2> SUFFICES ASSUME NEW n \in Nat, n # 0 PROVE f[n] = CeilLog2[n] + f[n - 1]
    BY <1>2, Zenon DEF Solves
  <2>1. n - 1 \in Nat /\ (n - 1) + 1 = n
    OBVIOUS
  <2>2. f[(n - 1) + 1] = D[n - 1][f[n - 1]] /\ f[n - 1] \in Nat
    BY <1>2, <2>1, Zenon DEF Solves
  <2>3. QED BY <2>1, <2>2, Zenon
<1>4. f = E(f)
  BY <1>2, <1>3, Zenon DEF Solves
<1>5. numSwitches = E(numSwitches)
  <2>1. numSwitches = CHOOSE g : g = E(g)
    BY Zenon DEF numSwitches
  <2> HIDE DEF E
  <2>2. QED BY <1>4, <2>1, Zenon
<1>6. \A n \in Nat : numSwitches[n] = IF n = 0 THEN 0 ELSE CeilLog2[n] + numSwitches[n - 1]
  <2> DEFINE P == numSwitches
  <2>1. P = E(P)
    BY <1>5, Zenon
  <2> HIDE DEF P
  <2>2. \A n \in Nat : P[n] = IF n = 0 THEN 0 ELSE CeilLog2[n] + P[n - 1]
    BY <2>1, Zenon
  <2>3. QED BY <2>2, Zenon DEF P
<1>7. \A n \in Nat : numSwitches[n + 1] = CeilLog2[n + 1] + numSwitches[n]
  <2> SUFFICES ASSUME NEW n \in Nat
               PROVE  numSwitches[n + 1] = CeilLog2[n + 1] + numSwitches[n]
    BY Zenon
  <2>1. n + 1 \in Nat /\ n + 1 # 0 /\ (n + 1) - 1 = n
    OBVIOUS
  <2>2. QED BY <1>6, <2>1, Zenon
<1> DEFINE S == {n \in Nat : numSwitches[n] \in Nat}
<1>8. 0 \in S
  BY <1>6
<1>9. ASSUME NEW n \in Nat, n \in S PROVE n + 1 \in S
  BY <1>0, <1>7, <1>9, SMTT(30)
<1> HIDE DEF S
<1>10. \A n \in Nat : n \in S
  BY <1>8, <1>9, SetInduction, Zenon
<1>11. QED BY <1>6, <1>7, <1>10, Zenon DEF S

\* A network has two columns and two halves, and at least one switch less
\* than it has inputs.
LEMMA SwitchesOfHalves ==
    ASSUME NEW n \in Nat, n >= 2
    PROVE  /\ numSwitches[n] = n - 1 + numSwitches[n \div 2] + numSwitches[(n + 1) \div 2]
           /\ numSwitches[n] >= n - 1
<1> DEFINE S == {k \in Nat : /\ numSwitches[k + 2]
                                  = k + 1 + numSwitches[(k + 2) \div 2] + numSwitches[(k + 3) \div 2]
                             /\ numSwitches[k + 2] >= k + 1}
<1>1. numSwitches[1] = 0 /\ numSwitches[2] = 1
  <2>1. numSwitches[0 + 1] = CeilLog2[0 + 1] + numSwitches[0]
    BY NumSwitchesFacts, Zenon
  <2>2. numSwitches[1 + 1] = CeilLog2[1 + 1] + numSwitches[1]
    BY NumSwitchesFacts, Zenon
  <2>3. CeilLog2[2] = 1 + CeilLog2[(2 + 1) \div 2]
    BY CeilLog2Facts
  <2>4. (2 + 1) \div 2 = 1 /\ 0 + 1 = 1 /\ 1 + 1 = 2
    OBVIOUS
  <2>5. QED BY <2>1, <2>2, <2>3, <2>4, CeilLog2Facts, NumSwitchesFacts
<1>2. 0 \in S
  <2>1. (0 + 2) \div 2 = 1 /\ (0 + 3) \div 2 = 1 /\ 0 + 2 = 2
    OBVIOUS
  <2>2. QED BY <1>1, <2>1
<1>3. ASSUME NEW k \in Nat, k \in S PROVE k + 1 \in S
  <2>1. PICK a \in Nat : a = (k + 2) \div 2 /\ (k + 4) \div 2 = a + 1
    <3>1. PICK h \in Nat : h = k \div 2 /\ (k = 2 * h \/ k = 2 * h + 1)
      OBVIOUS
    <3>2. (k + 2) \div 2 = h + 1 /\ (k + 4) \div 2 = h + 2
      BY <3>1
    <3>3. QED BY <3>2
  <2>2. PICK m \in Nat, b \in Nat : m = k + 3 /\ b = (k + 3) \div 2
    OBVIOUS
  <2>3. numSwitches[m] = CeilLog2[m] + numSwitches[k + 2]
    <3>1. k + 2 \in Nat /\ (k + 2) + 1 = m
      BY <2>2
    <3>2. QED BY <3>1, NumSwitchesFacts, Zenon
  <2>4. CeilLog2[m] = 1 + CeilLog2[a + 1]
    <3>1. m >= 2 /\ (m + 1) \div 2 = a + 1
      BY <2>1, <2>2
    <3>2. QED BY <3>1, CeilLog2Facts, Zenon
  <2>5. numSwitches[a + 1] = CeilLog2[a + 1] + numSwitches[a]
    BY NumSwitchesFacts, Zenon
  <2>6. /\ numSwitches[k + 2] = k + 1 + numSwitches[a] + numSwitches[b]
        /\ numSwitches[k + 2] >= k + 1
    BY <1>3, <2>1, <2>2, Zenon
  <2>7. a + 1 \in Nat /\ k + 2 \in Nat
    OBVIOUS
  <2>8. /\ numSwitches[a] \in Nat /\ numSwitches[b] \in Nat /\ numSwitches[k + 2] \in Nat
        /\ CeilLog2[a + 1] \in Nat
    BY <2>7, NumSwitchesFacts, CeilLog2Facts, Zenon
  <2>9. /\ numSwitches[m] = k + 2 + numSwitches[b] + numSwitches[a + 1]
        /\ numSwitches[m] >= k + 2
    BY <2>3, <2>4, <2>5, <2>6, <2>8, SMTT(30)
  <2>10. /\ (k + 1) + 2 = m /\ ((k + 1) + 2) \div 2 = b /\ ((k + 1) + 3) \div 2 = a + 1
         /\ (k + 1) + 1 = k + 2 /\ k + 1 \in Nat
    BY <2>1, <2>2
  <2>11. QED BY <2>9, <2>10, Zenon
<1> HIDE DEF S
<1>4. \A k \in Nat : k \in S
  BY <1>2, <1>3, SetInduction, Zenon
<1>5. PICK k \in Nat : k = n - 2 /\ n = k + 2
  OBVIOUS
<1>6. /\ numSwitches[k + 2] = k + 1 + numSwitches[(k + 2) \div 2] + numSwitches[(k + 3) \div 2]
      /\ numSwitches[k + 2] >= k + 1
  BY <1>4, Zenon DEF S
<1>7. k + 3 = n + 1 /\ k + 2 = n /\ k + 1 = n - 1
  BY <1>5
<1>8. QED BY <1>6, <1>7, Zenon

LEMMA SmallNetworks ==
    /\ numSwitches[1] = 0 /\ NumIntermediate(1) = -1
    /\ numSwitches[2] = 1 /\ NumIntermediate(2) = 0
<1>1. numSwitches[0 + 1] = CeilLog2[0 + 1] + numSwitches[0]
  BY NumSwitchesFacts, Zenon
<1>2. numSwitches[1] = 0
  BY <1>1, CeilLog2Facts, NumSwitchesFacts
<1>3. numSwitches[2] = 2 - 1 + numSwitches[2 \div 2] + numSwitches[(2 + 1) \div 2]
  BY SwitchesOfHalves
<1>4. 2 \div 2 = 1 /\ (2 + 1) \div 2 = 1
  OBVIOUS
<1>5. numSwitches[2] = 1
  BY <1>2, <1>3, <1>4
<1>6. QED BY <1>2, <1>5 DEF NumIntermediate

NodesAdd(n) ==
    /\ NumIntermediate(n) \in Nat
    /\ NumIntermediate(n)
         = 2 * (n - 1) + NumIntermediate(n \div 2) + NumIntermediate((n + 1) \div 2)

LEMMA NodesOfHalves ==
    ASSUME NEW n \in Nat, n >= 2
    PROVE  NodesAdd(n)
<1>1. PICK a \in Nat, b \in Nat : a = n \div 2 /\ b = (n + 1) \div 2 /\ a + b = n
  OBVIOUS
<1>2. /\ numSwitches[n] \in Nat /\ numSwitches[a] \in Nat /\ numSwitches[b] \in Nat
      /\ numSwitches[n] = n - 1 + numSwitches[a] + numSwitches[b]
      /\ numSwitches[n] >= n - 1
  BY <1>1, NumSwitchesFacts, SwitchesOfHalves, Zenon
<1>3. QED BY <1>1, <1>2 DEF NumIntermediate, NodesAdd
-----------------------------------------------------------------------------
(***************************************************************************)
(* The activations not yet run.                                            *)
(***************************************************************************)

LEMMA SeqFacts ==
    ASSUME NEW s, s \in Seq(Range(s))
    PROVE  /\ Len(s) \in Nat /\ DOMAIN s = 1 .. Len(s)
           /\ s = <<>> <=> Len(s) = 0
           /\ s # <<>> => 1 \in DOMAIN s /\ Head(s) = s[1]
  OBVIOUS

LEMMA RangeOfSeq ==
    ASSUME NEW S, NEW s, s \in Seq(S)
    PROVE  s \in Seq(Range(s))
<1>1. DOMAIN s = 1 .. Len(s) /\ Len(s) \in Nat
  OBVIOUS
<1>2. \A k \in 1 .. Len(s) : s[k] \in Range(s)
  BY <1>1, Zenon DEF Range
<1>3. QED BY <1>1, <1>2

LEMMA TailFacts ==
    ASSUME NEW s, s \in Seq(Range(s)), s # <<>>, NEW t, t = Tail(s)
    PROVE  /\ t \in Seq(Range(t))
           /\ DOMAIN t = 1 .. Len(s) - 1
           /\ \A k \in 1 .. Len(s) - 1 : t[k] = s[k + 1] /\ k + 1 \in DOMAIN s
<1>1. t \in Seq(Range(s)) /\ Len(t) = Len(s) - 1
  OBVIOUS
<1>2. t \in Seq(Range(t))
  BY <1>1, RangeOfSeq, Zenon
<1>3. QED BY <1>1, <1>2

\* a and b take the place of the head of s.
SplitInto(s, a, b, t) ==
    /\ t \in Seq(Range(t))
    /\ DOMAIN t = 1 .. Len(s) + 1
    /\ t[1] = a /\ t[2] = b
    /\ \A k \in 3 .. Len(s) + 1 : t[k] = s[k - 1] /\ k - 1 \in DOMAIN s

LEMMA SplitFacts ==
    ASSUME NEW s, s \in Seq(Range(s)), s # <<>>, NEW a, NEW b
    PROVE  SplitInto(s, a, b, <<a, b>> \o Tail(s))
<1> DEFINE S == Range(s) \cup {a, b}
           u == Tail(s)
           t == <<a, b>> \o u
<1>1. u \in Seq(S) /\ Len(u) = Len(s) - 1 /\ \A k \in 1 .. Len(u) : u[k] = s[k + 1]
  <2>1. s \in Seq(S)
    OBVIOUS
  <2> HIDE DEF S
  <2>2. QED BY <2>1
<1>2. <<a, b>> \in Seq(S) /\ Len(<<a, b>>) = 2
  OBVIOUS
<1> HIDE DEF S, u, t
<1>3. Len(s) \in Nat /\ Len(s) >= 1 /\ DOMAIN s = 1 .. Len(s)
  BY SeqFacts
<1>4. t = <<a, b>> \o u
  BY Zenon DEF t
<1>5. t \in Seq(S) /\ Len(t) = Len(s) + 1
  <2>1. PICK w : w = <<a, b>> /\ w \in Seq(S) /\ Len(w) = 2
    BY <1>2, Zenon
  <2>2. w \o u \in Seq(S) /\ Len(w \o u) = Len(w) + Len(u)
    BY <1>1, <2>1
  <2>3. t = w \o u
    BY <1>4, <2>1, Zenon
  <2>4. Len(u) = Len(s) - 1 /\ Len(w) = 2
    BY <1>1, <2>1, Zenon
  <2>5. t \in Seq(S) /\ Len(t) = Len(w) + Len(u)
    BY <2>2, <2>3, Zenon
  <2>6. PICK l \in Nat : l = Len(s)
    BY <1>3, Zenon
  <2>7. 2 + (l - 1) = l + 1
    OBVIOUS
  <2>8. QED BY <2>4, <2>5, <2>6, <2>7, Zenon
<1>6. t[1] = a /\ t[2] = b
  BY <1>1, <1>2, <1>4
<1>7. ASSUME NEW k \in 3 .. Len(s) + 1 PROVE t[k] = s[k - 1] /\ k - 1 \in DOMAIN s
  <2>1. t[k] = u[k - 2] /\ k - 2 \in 1 .. Len(u)
    BY <1>1, <1>2, <1>3, <1>4, SMTT(30)
  <2>2. QED BY <1>1, <1>3, <2>1, SMTT(30)
<1>8. t \in Seq(Range(t))
  BY <1>5, RangeOfSeq, Zenon
<1>9. DOMAIN t = 1 .. Len(s) + 1
  BY <1>3, <1>5
<1>10. SplitInto(s, a, b, t)
  BY <1>6, <1>7, <1>8, <1>9, Zenon DEF SplitInto
<1>11. QED BY <1>10, Zenon DEF t, u

\* The nodes of the two columns are within the network.
LEMMA NodesInside ==
    ASSUME NEW f, IsPermutation(f), f.n >= 3
    PROVE  NodesEnd(f) =< f.iv + NumIntermediate(f.n)
<1>1. /\ \E n \in Nat : n = f.n /\ n >= 3
      /\ f.iv \in Nat
  BY Zenon DEF IsPermutation
<1>2. PICK n \in Nat : n = f.n /\ n >= 3
  BY <1>1, Zenon
<1>3. PICK a \in Nat : a = n \div 2 /\ (n = 2 * a \/ n = 2 * a + 1)
  OBVIOUS
<1>4. PICK b \in Nat : b = (n + 1) \div 2 /\ b >= 2
  BY <1>2
<1>5. NumIntermediate(n) = 2 * (n - 1) + NumIntermediate(a) + NumIntermediate(b)
  BY <1>2, <1>3, <1>4, NodesOfHalves DEF NodesAdd
<1>6. NumIntermediate(b) \in Nat
  BY <1>4, NodesOfHalves, Zenon DEF NodesAdd
<1>7. CASE n = 3
  <2>1. a = 1
    BY <1>3, <1>7
  <2>2. QED BY <1>1, <1>2, <1>5, <1>6, <1>7, <2>1, SmallNetworks, SMTT(30) DEF NodesEnd
<1>8. CASE n # 3
  <2>1. a >= 2
    BY <1>2, <1>3, <1>8
  <2>2. NumIntermediate(a) \in Nat
    BY <2>1, NodesOfHalves, Zenon DEF NodesAdd
  <2>3. QED BY <1>1, <1>2, <1>5, <1>6, <1>8, <2>2, SMTT(30) DEF NodesEnd
<1>9. QED BY <1>7, <1>8, Zenon

-----------------------------------------------------------------------------
(***************************************************************************)
(* Each step preserves the invariant.                                      *)
(***************************************************************************)

\* The activation at the head, and the end of its switches and nodes.
LEMMA HeadFacts ==
    ASSUME IInv, frames # <<>>
    PROVE  /\ 1 \in DOMAIN frames /\ Frame = frames[1] /\ IsPermutation(Frame)
           /\ SwitchesFrom(1) = Frame.sw /\ NodesFrom(1) = Frame.iv
           /\ SwitchesFrom(2) = Frame.sw + numSwitches[Frame.n]
           /\ NodesFrom(2) = Frame.iv + NumIntermediate(Frame.n)
           /\ SwitchesFrom(2) =< numSwitches[width]
           /\ NodesFrom(2) =< NumIntermediate(width)
<1>1. 1 \in DOMAIN frames /\ Frame = frames[1]
  BY SeqFacts, Zenon DEF IInv, FramesInv, Frame
<1>2. FrameOK(1)
  BY <1>1, Zenon DEF IInv, FramesInv
<1>3. 1 + 1 = 2
  OBVIOUS
<1>4. QED BY <1>1, <1>2, <1>3, Zenon DEF FrameOK, SwitchesFrom, NodesFrom

Top == [n |-> Frame.n \div 2, left |-> loop.topL, right |-> loop.topR,
        sw |-> Frame.sw + LeftSwitchCt + RightSwitchCt,
        iv |-> Frame.iv + 2 * LeftSwitchCt + 2 * RightSwitchCt]
Bottom == [n |-> (Frame.n + 1) \div 2, left |-> loop.botL, right |-> loop.botR,
           sw |-> Top.sw + numSwitches[Top.n], iv |-> Top.iv + NumIntermediate(Top.n)]

\* The numbers that the halves of a network of n start with, when its own
\* are s and v.
CountsOfHalves(n, s, v, a, b) ==
    /\ a >= 1 /\ b >= 2 /\ (a = 1 <=> n = 3)
    /\ a - 1 + (n % 2) = n - 1 - a
    /\ numSwitches[a] \in Nat /\ NumIntermediate(a) \in Int
    /\ s + (n - 1) + numSwitches[a] \in Nat
    /\ v + 2 * (n - 1) + NumIntermediate(a) \in Nat
    /\ s + numSwitches[n] \in Nat /\ v + NumIntermediate(n) \in Nat
    /\ s + numSwitches[n] = (s + (n - 1) + numSwitches[a]) + numSwitches[b]
    /\ v + NumIntermediate(n) = (v + 2 * (n - 1) + NumIntermediate(a)) + NumIntermediate(b)
    /\ s + (n - 1) + numSwitches[a] =< s + numSwitches[n]
    /\ v + 2 * (n - 1) + NumIntermediate(a) =< v + NumIntermediate(n)

LEMMA HalfCounts ==
    ASSUME NEW n \in Nat, n >= 3, NEW s \in Nat, NEW v \in Nat,
           NEW a \in Nat, a = n \div 2, NEW b \in Nat, b = (n + 1) \div 2
    PROVE  CountsOfHalves(n, s, v, a, b)
<1>1. n = 2 * a \/ n = 2 * a + 1
  OBVIOUS
<1>2. a >= 1 /\ b >= 2 /\ (a = 1 <=> n = 3) /\ a - 1 + (n % 2) = n - 1 - a
  BY <1>1
<1>3. /\ numSwitches[n] \in Nat /\ numSwitches[a] \in Nat /\ numSwitches[b] \in Nat
      /\ numSwitches[n] = n - 1 + numSwitches[a] + numSwitches[b]
  <2>1. numSwitches[n] = n - 1 + numSwitches[n \div 2] + numSwitches[(n + 1) \div 2]
    BY SwitchesOfHalves
  <2>2. QED BY <2>1, NumSwitchesFacts, Zenon
<1>4. /\ NumIntermediate(n) \in Nat /\ NumIntermediate(b) \in Nat
      /\ NumIntermediate(n) = 2 * (n - 1) + NumIntermediate(a) + NumIntermediate(b)
  <2>1. NumIntermediate(b) \in Nat
    BY <1>2, NodesOfHalves, Zenon DEF NodesAdd
  <2>2. /\ NumIntermediate(n) \in Nat
        /\ NumIntermediate(n)
             = 2 * (n - 1) + NumIntermediate(n \div 2) + NumIntermediate((n + 1) \div 2)
    <3>1. NodesAdd(n)
      BY NodesOfHalves
    <3>2. QED BY <3>1, Zenon DEF NodesAdd
  <2>3. QED BY <2>1, <2>2, Zenon
<1>5. NumIntermediate(a) \in Int /\ NumIntermediate(a) >= -1
  <2>1. CASE a = 1
    BY <2>1, SmallNetworks
  <2>2. CASE a >= 2
    BY <2>2, NodesOfHalves DEF NodesAdd
  <2>3. QED BY <1>2, <2>1, <2>2
<1>6. QED BY <1>2, <1>3, <1>4, <1>5 DEF CountsOfHalves

\* The numbers that the two halves start with.
LEMMA HalfNumbers ==
    ASSUME IInv, frames # <<>>, Frame.n >= 3
    PROVE  /\ Top.n \in Nat /\ Top.n >= 1 /\ Bottom.n \in Nat /\ Bottom.n >= 2
           /\ Top.n = 1 <=> Frame.n = 3
           /\ Top.sw \in Nat /\ Top.iv \in Nat /\ Bottom.sw \in Nat /\ Bottom.iv \in Nat
           /\ Top.sw = Frame.sw + Frame.n - 1 /\ Top.iv = Frame.iv + 2 * (Frame.n - 1)
           /\ Bottom.sw = Top.sw + numSwitches[Top.n]
           /\ Bottom.iv = Top.iv + NumIntermediate(Top.n)
           /\ SwitchesFrom(2) = Bottom.sw + numSwitches[Bottom.n]
           /\ NodesFrom(2) = Bottom.iv + NumIntermediate(Bottom.n)
           /\ Bottom.sw =< SwitchesFrom(2) /\ Bottom.iv =< NodesFrom(2)
           /\ SwitchesFrom(2) \in Int /\ NodesFrom(2) \in Int
<1> DEFINE n == Frame.n
           s == Frame.sw
           v == Frame.iv
           a == n \div 2
           b == (n + 1) \div 2
<1>1. n \in Nat /\ n >= 3 /\ s \in Nat /\ v \in Nat
  BY HeadFacts, Zenon DEF IsPermutation
<1>2. a \in Nat /\ b \in Nat
  <2> HIDE DEF n
  <2>1. QED BY <1>1
<1>3. SwitchesFrom(2) = s + numSwitches[n] /\ NodesFrom(2) = v + NumIntermediate(n)
  BY HeadFacts, Zenon
<1>4. /\ Top.n = a /\ Top.sw = s + a + (a - 1 + (n % 2))
      /\ Top.iv = v + 2 * a + 2 * (a - 1 + (n % 2))
  BY Zenon DEF Top, LeftSwitchCt, RightSwitchCt
<1>5. /\ Bottom.n = b
      /\ Bottom.sw = Top.sw + numSwitches[Top.n] /\ Bottom.iv = Top.iv + NumIntermediate(Top.n)
  BY Zenon DEF Bottom
<1>6. a = n \div 2 /\ b = (n + 1) \div 2
  BY Zenon
<1> HIDE DEF n, s, v, a, b
<1>7. CountsOfHalves(n, s, v, a, b)
  BY <1>1, <1>2, <1>6, HalfCounts, Zenon
<1>8. Top.sw = s + (n - 1) /\ Top.iv = v + 2 * (n - 1)
  BY <1>1, <1>2, <1>4, <1>7 DEF CountsOfHalves
<1>9. /\ Bottom.sw = s + (n - 1) + numSwitches[a]
      /\ Bottom.iv = v + 2 * (n - 1) + NumIntermediate(a)
  BY <1>4, <1>5, <1>8, Zenon
<1>10. Top.sw \in Nat /\ Top.iv \in Nat /\ s + (n - 1) = s + n - 1
  BY <1>1, <1>8
<1>11. QED BY <1>2, <1>3, <1>4, <1>5, <1>7, <1>8, <1>9, <1>10, SMTT(30) DEF n, s, v, CountsOfHalves

\* Descend: the two halves take the place of the activation.
LEMMA DescendFrames ==
    ASSUME IInv, frames # <<>>, Frame.n >= 3, IsPermutation(Top), IsPermutation(Bottom),
           frames' = <<Top, Bottom>> \o Tail(frames), width' = width
    PROVE  FramesInv' /\ frames' # <<>> /\ Frame' = Top
<1> DEFINE N == Len(frames)
<1>1. N \in Nat /\ N >= 1 /\ DOMAIN frames = 1 .. N
  BY SeqFacts DEF IInv, FramesInv
<1>2. /\ frames' \in Seq(Range(frames'))
      /\ DOMAIN frames' = 1 .. N + 1
      /\ frames'[1] = Top /\ frames'[2] = Bottom
      /\ \A k \in 3 .. N + 1 : frames'[k] = frames[k - 1] /\ k - 1 \in DOMAIN frames
  <2>1. SplitInto(frames, Top, Bottom, <<Top, Bottom>> \o Tail(frames))
    BY SplitFacts, Zenon DEF IInv, FramesInv
  <2>2. SplitInto(frames, Top, Bottom, frames')
    BY <2>1, Zenon
  <2>3. QED BY <2>2, Zenon DEF SplitInto
<1> HIDE DEF N
<1>3. /\ SwitchesFrom(2)' = Bottom.sw /\ NodesFrom(2)' = Bottom.iv
  <2>1. 2 \in DOMAIN frames'
    BY <1>1, <1>2
  <2>2. QED BY <1>2, <2>1, Zenon DEF SwitchesFrom, NodesFrom
<1>4. ASSUME NEW k \in 3 .. N + 2
      PROVE  SwitchesFrom(k)' = SwitchesFrom(k - 1) /\ NodesFrom(k)' = NodesFrom(k - 1)
  <2>1. k \in DOMAIN frames' <=> k - 1 \in DOMAIN frames
    BY <1>1, <1>2
  <2>2. k \in DOMAIN frames' => frames'[k] = frames[k - 1]
    BY <1>1, <1>2
  <2>3. QED BY <2>1, <2>2, Zenon DEF SwitchesFrom, NodesFrom
<1>5. SwitchesFrom(3)' = SwitchesFrom(2) /\ NodesFrom(3)' = NodesFrom(2)
  <2>1. 3 \in 3 .. N + 2 /\ 3 - 1 = 2
    BY <1>1
  <2>2. QED BY <1>4, <2>1, Zenon
<1>6. FrameOK(1)'
  <2>1. /\ Bottom.sw = Top.sw + numSwitches[Top.n] /\ Bottom.iv = Top.iv + NumIntermediate(Top.n)
        /\ Bottom.sw =< numSwitches[width] /\ Bottom.iv =< NumIntermediate(width)
    <3>1. width \in Nat
      BY Zenon DEF IInv
    <3>2. numSwitches[width] \in Nat
      BY <3>1, NumSwitchesFacts, Zenon
    <3>3. NumIntermediate(width) \in Int
      BY <3>1, <3>2 DEF NumIntermediate
    <3>4. /\ Bottom.sw = Top.sw + numSwitches[Top.n]
          /\ Bottom.iv = Top.iv + NumIntermediate(Top.n)
          /\ Bottom.sw \in Nat /\ Bottom.sw =< SwitchesFrom(2) /\ SwitchesFrom(2) \in Int
          /\ Bottom.iv \in Nat /\ Bottom.iv =< NodesFrom(2) /\ NodesFrom(2) \in Int
      BY HalfNumbers, Zenon
    <3>5. SwitchesFrom(2) =< numSwitches[width] /\ NodesFrom(2) =< NumIntermediate(width)
      BY HeadFacts, Zenon
    <3>6. QED BY <3>2, <3>3, <3>4, <3>5
  <2>2. 1 + 1 = 2 /\ ~(1 > 1)
    OBVIOUS
  <2>3. frames[1]' = Top /\ numSwitches[width]' = numSwitches[width]
        /\ NumIntermediate(width)' = NumIntermediate(width)
    BY <1>2, Zenon
  <2>4. QED BY <1>2, <1>3, <2>1, <2>2, <2>3, Zenon DEF FrameOK
<1>7. FrameOK(2)'
  <2>1. /\ SwitchesFrom(2) = Bottom.sw + numSwitches[Bottom.n]
        /\ NodesFrom(2) = Bottom.iv + NumIntermediate(Bottom.n) /\ Bottom.n >= 2
        /\ SwitchesFrom(2) =< numSwitches[width] /\ NodesFrom(2) =< NumIntermediate(width)
    BY HeadFacts, HalfNumbers, Zenon
  <2>2. 2 + 1 = 3
    OBVIOUS
  <2>3. QED BY <1>2, <1>5, <2>1, <2>2, Zenon DEF FrameOK
<1>8. ASSUME NEW k \in 3 .. N + 1 PROVE FrameOK(k)'
  <2>1. PICK l : l \in DOMAIN frames /\ l = k - 1 /\ l + 1 = k /\ l > 1 /\ frames'[k] = frames[l]
    BY <1>1, <1>2
  <2>2. FrameOK(l)
    BY <2>1, Zenon DEF IInv, FramesInv
  <2>3. SwitchesFrom(k + 1)' = SwitchesFrom(l + 1) /\ NodesFrom(k + 1)' = NodesFrom(l + 1)
    <3>1. k + 1 \in 3 .. N + 2 /\ (k + 1) - 1 = l + 1
      BY <1>1, <2>1
    <3>2. QED BY <1>4, <3>1, Zenon
  <2>4. QED BY <2>1, <2>2, <2>3, Zenon DEF FrameOK
<1>9. FramesInv'
  <2>1. \A k \in DOMAIN frames' : k = 1 \/ k = 2 \/ k \in 3 .. N + 1
    BY <1>1, <1>2
  <2>2. \A k \in DOMAIN frames' : FrameOK(k)'
    BY <1>6, <1>7, <1>8, <2>1, Zenon
  <2>3. QED BY <1>2, <2>2, Zenon DEF FramesInv
<1>10. frames' # <<>> /\ Frame' = Top
  <2>1. 1 \in DOMAIN frames'
    BY <1>1, <1>2
  <2>2. frames' # <<>>
    BY <2>1
  <2>3. Head(frames') = frames'[1]
    BY <1>2, <2>2, SeqFacts, Zenon
  <2>4. QED BY <1>2, <2>2, <2>3, Zenon DEF Frame
<1>11. QED BY <1>9, <1>10, Zenon

LEMMA Descends ==
    ASSUME IInv, Descend
    PROVE  IInv'
<1>1. /\ frames # <<>> /\ Frame.n >= 3 /\ LoopOK(loop, switches, intermediate, pc)
  BY Zenon DEF IInv, PcInv, Descend
<1>2. IsPermutation(Frame)
  BY <1>1, HeadFacts, Zenon
<1>3. PICK B : /\ Routed(loop.routedL, B, switches, intermediate, loop)
               /\ LinksBelow(loop.routedL, B)
  BY <1>1, Zenon DEF LoopOK
<1>4. loop.routedL = Packets
  <2>1. Unrouted(loop.routedL) = {} \/ Unrouted(loop.routedR) = {}
    BY Zenon DEF Descend
  <2>2. PICK R, lp : R = loop.routedL /\ lp = loop
    BY Zenon
  <2>3. Routed(R, B, switches, intermediate, lp)
    BY <1>3, <2>2, Zenon
  <2>4. R = Packets
    BY <1>2, <2>1, <2>2, <2>3, AllRouted, Zenon
  <2>5. QED BY <2>2, <2>4, Zenon
<1>5. Routed(Packets, B, switches, intermediate, loop) /\ LinksBelow(Packets, B)
  BY <1>3, <1>4, Zenon
<1>6. IsPermutation(Top) /\ IsPermutation(Bottom)
  <2>1. PICK s \in Nat, v \in Nat, t \in Nat, u \in Nat :
          s = Top.sw /\ v = Top.iv /\ t = Bottom.sw /\ u = Bottom.iv
    BY <1>1, HalfNumbers, Zenon
  <2>2. /\ Top = [n |-> Frame.n \div 2, left |-> loop.topL, right |-> loop.topR,
                  sw |-> s, iv |-> v]
        /\ Bottom = [n |-> (Frame.n + 1) \div 2, left |-> loop.botL, right |-> loop.botR,
                     sw |-> t, iv |-> u]
    BY <2>1, Zenon DEF Top, Bottom
  <2>3. QED BY <1>1, <1>2, <1>5, <2>2, HalvesArePermutations, Zenon
<1>7. frames' = <<Top, Bottom>> \o Tail(frames)
  BY Zenon DEF Descend, Top, Bottom
<1>8. /\ pc' = "call" /\ width' = width /\ switches' = switches
      /\ intermediate' = intermediate
  BY Zenon DEF Descend
<1>9. FramesInv' /\ frames' # <<>> /\ Frame' = Top
  BY <1>1, <1>6, <1>7, <1>8, DescendFrames, Zenon
<1>10. SwitchesFrom(1)' = Top.sw /\ NodesFrom(1)' = Top.iv
  <2>1. 1 \in DOMAIN frames' /\ frames'[1] = Top
    <3>1. frames' \in Seq(Range(frames'))
      BY <1>9, Zenon DEF FramesInv
    <3>2. 1 \in DOMAIN frames' /\ Head(frames') = frames'[1]
      BY <1>9, <3>1, SeqFacts, Zenon
    <3>3. QED BY <1>9, <3>2, Zenon DEF Frame
  <2>2. QED BY <2>1, Zenon DEF SwitchesFrom, NodesFrom
<1>11. DOMAIN switches' = 0 .. SwitchesFrom(1)' - 1
  <2>1. DOMAIN switches = 0 .. Frame.sw + Frame.n - 2
    BY <1>1, <1>2, <1>5, ColumnsSet, Zenon DEF Routed
  <2>2. Frame.sw \in Nat /\ Frame.n \in Nat
    BY <1>2, Zenon DEF IsPermutation
  <2>3. Top.sw = Frame.sw + Frame.n - 1
    BY <1>1, HalfNumbers, Zenon
  <2>4. Frame.sw + Frame.n - 2 = Top.sw - 1
    BY <2>2, <2>3
  <2>5. QED BY <1>8, <1>10, <2>1, <2>4, Zenon
<1>12. DOMAIN intermediate' = 0 .. NodesBefore' - 1
  <2>1. DOMAIN intermediate = 0 .. NodesEnd(Frame) - 1
    <3>1. /\ B \in [Packets -> BOOLEAN] /\ NodesAssigned(Packets, B, intermediate)
          /\ Alternates(LeftMate, Packets, B) /\ Alternates(RightMate, Packets, B)
      BY <1>5, Zenon DEF Routed
    <3>2. QED BY <1>1, <1>2, <3>1, ColumnsAssigned, Zenon
  <2>2. NodesBefore' = IF Top.n = 1 THEN Top.iv - 1 ELSE Top.iv
    BY <1>9, <1>10, Zenon DEF NodesBefore
  <2>3. /\ Top.iv = Frame.iv + 2 * (Frame.n - 1)
        /\ Top.n = 1 <=> Frame.n = 3
    BY <1>1, HalfNumbers, Zenon
  <2>4. Frame.iv \in Nat /\ Frame.n \in Nat
    BY <1>2, Zenon DEF IsPermutation
  <2>5. NodesEnd(Frame) = NodesBefore'
    BY <2>2, <2>3, <2>4 DEF NodesEnd
  <2>6. QED BY <1>8, <2>1, <2>5, Zenon
<1>13. PcInv'
  BY <1>8, <1>11, <1>12, Zenon DEF PcInv
<1>14. QED BY <1>8, <1>9, <1>13, Zenon DEF IInv

\* The other activations after the base case.
LEMMA TailFrames ==
    ASSUME IInv, frames # <<>>, frames' = Tail(frames), width' = width
    PROVE  /\ FramesInv'
           /\ SwitchesFrom(1)' = SwitchesFrom(2) /\ NodesFrom(1)' = NodesFrom(2)
           /\ NodesBefore' = NodesFrom(1)'
<1> DEFINE N == Len(frames)
<1>1. N \in Nat /\ N >= 1 /\ DOMAIN frames = 1 .. N
  BY SeqFacts DEF IInv, FramesInv
<1>2. /\ frames' \in Seq(Range(frames'))
      /\ DOMAIN frames' = 1 .. N - 1
      /\ \A k \in 1 .. N - 1 : frames'[k] = frames[k + 1] /\ k + 1 \in DOMAIN frames
  BY TailFacts, Zenon DEF IInv, FramesInv
<1> HIDE DEF N
<1>3. ASSUME NEW k \in 1 .. N
      PROVE  SwitchesFrom(k)' = SwitchesFrom(k + 1) /\ NodesFrom(k)' = NodesFrom(k + 1)
  <2>1. k \in DOMAIN frames' <=> k + 1 \in DOMAIN frames
    BY <1>1, <1>2
  <2>2. k \in DOMAIN frames' => frames'[k] = frames[k + 1]
    BY <1>1, <1>2, Zenon
  <2>3. QED BY <2>1, <2>2, Zenon DEF SwitchesFrom, NodesFrom
<1>4. ASSUME NEW k \in 1 .. N - 1 PROVE FrameOK(k)' /\ frames'[k].n >= 2
  <2>1. PICK l : l \in DOMAIN frames /\ l = k + 1 /\ l > 1 /\ frames'[k] = frames[l]
    BY <1>1, <1>2
  <2>2. FrameOK(l)
    BY <2>1, Zenon DEF IInv, FramesInv
  <2>3. SwitchesFrom(k + 1)' = SwitchesFrom(l + 1) /\ NodesFrom(k + 1)' = NodesFrom(l + 1)
    <3>1. k + 1 \in 1 .. N
      BY <1>1
    <3>2. SwitchesFrom(l)' = SwitchesFrom(l + 1) /\ NodesFrom(l)' = NodesFrom(l + 1)
      BY <1>3, <2>1, <3>1, Zenon
    <3>3. QED BY <2>1, <3>2, Zenon
  <2>4. QED BY <2>1, <2>2, <2>3, Zenon DEF FrameOK
<1>5. FramesInv'
  BY <1>2, <1>4, Zenon DEF FramesInv
<1>6. SwitchesFrom(1)' = SwitchesFrom(2) /\ NodesFrom(1)' = NodesFrom(2)
  <2>1. 1 \in 1 .. N /\ 1 + 1 = 2
    BY <1>1
  <2>2. QED BY <1>3, <2>1, Zenon
<1>7. NodesBefore' = NodesFrom(1)'
  <2>1. CASE frames' = <<>>
    BY <2>1, Zenon DEF NodesBefore
  <2>2. CASE frames' # <<>>
    <3>1. 1 \in DOMAIN frames' /\ Head(frames') = frames'[1]
      BY <1>2, <2>2, SeqFacts, Zenon
    <3>2. frames'[1].n >= 2
      BY <1>2, <1>4, <3>1, Zenon
    <3>3. \A m : m >= 2 => m # 1
      OBVIOUS
    <3>4. Frame' = frames'[1]
      BY <3>1, Zenon DEF Frame
    <3>5. QED BY <3>2, <3>3, <3>4, Zenon DEF NodesBefore
  <2>3. QED BY <2>1, <2>2, Zenon
<1>8. QED BY <1>5, <1>6, <1>7, Zenon

LEMMA RoutesBase ==
    ASSUME IInv, RouteBase
    PROVE  IInv'
<1>1. /\ pc = "call" /\ frames # <<>> /\ Frame.n =< 2
      /\ frames' = Tail(frames) /\ width' = width /\ intermediate' = intermediate
  BY Zenon DEF RouteBase
<1>2. IsPermutation(Frame)
  BY <1>1, HeadFacts, Zenon
<1>3. PICK s \in Nat, v \in Nat : s = Frame.sw /\ v = Frame.iv
  BY <1>2, Zenon DEF IsPermutation
<1>4. Frame.n = 1 \/ Frame.n = 2
  BY <1>1, <1>2 DEF IsPermutation
<1>5. DOMAIN switches = 0 .. s - 1 /\ DOMAIN intermediate = 0 .. NodesBefore - 1
  BY <1>1, <1>3, HeadFacts, Zenon DEF IInv, PcInv
<1>6. /\ FramesInv'
      /\ SwitchesFrom(1)' = s + numSwitches[Frame.n]
      /\ NodesBefore' = v + NumIntermediate(Frame.n)
  BY <1>1, <1>3, HeadFacts, TailFrames, Zenon
<1>7. pc' = "call" /\ DOMAIN switches' = 0 .. SwitchesFrom(1)' - 1
  <2>1. CASE Frame.n = 1
    <3>1. Frame.left[0].dst = 0 /\ Frame.right[Frame.left[0].dst] = Frame.left[0]
      BY <1>2, <2>1 DEF IsPermutation
    <3>2. pc' = "call" /\ switches' = switches
      <4>1. Frame.left[0].data = Frame.right[0].data /\ Frame.n # 2
        BY <2>1, <3>1
      <4>2. QED BY <4>1, Zenon DEF RouteBase
    <3>3. SwitchesFrom(1)' = s
      BY <1>3, <1>6, <2>1, SmallNetworks
    <3>4. QED BY <1>5, <3>2, <3>3, Zenon
  <2>2. CASE Frame.n = 2
    <3> DEFINE swap == Frame.left[0].data # Frame.right[0].data
    <3>1. /\ Frame.left[0].dst = 0 \/ Frame.left[0].dst = 1
          /\ Frame.right[Frame.left[0].dst] = Frame.left[0]
      BY <1>2, <2>2 DEF IsPermutation
    <3>2. swap => Frame.left[0].data = Frame.right[1].data
      BY <3>1, Zenon
    <3>3. Frame.sw \notin DOMAIN switches
      BY <1>3, <1>5
    <3>4. pc' = "call" /\ switches' = Assign(switches, Frame.sw, swap)
      BY <2>2, <3>2, <3>3, Zenon DEF RouteBase
    <3>5. DOMAIN switches' = DOMAIN switches \cup {s}
      BY <1>3, <3>4, Zenon DEF Assign
    <3>6. SwitchesFrom(1)' = s + 1
      BY <1>3, <1>6, <2>2, SmallNetworks, Zenon
    <3>7. DOMAIN switches' = 0 .. s
      BY <1>5, <3>5
    <3>8. QED BY <3>4, <3>6, <3>7
  <2>3. QED BY <1>4, <2>1, <2>2, Zenon
<1>8. DOMAIN intermediate' = 0 .. NodesBefore' - 1
  <2>1. NodesBefore = IF Frame.n = 1 THEN v - 1 ELSE v
    BY <1>1, <1>3, HeadFacts, Zenon DEF NodesBefore
  <2>2. NodesBefore' = NodesBefore
    BY <1>3, <1>4, <1>6, <2>1, SmallNetworks, SMTT(30)
  <2>3. QED BY <1>1, <1>5, <2>2, Zenon
<1>9. PcInv'
  BY <1>7, <1>8, Zenon DEF PcInv
<1>10. QED BY <1>1, <1>6, <1>9, Zenon DEF IInv

-----------------------------------------------------------------------------
\* The activation that wak_route starts with.
SortLeft(n, dst) == [i \in 0 .. n - 1 |-> [data |-> i, src |-> i, dst |-> dst[i]]]
SortSrc(n, dst) == [j \in 0 .. n - 1 |-> CHOOSE i \in 0 .. n - 1 : dst[i] = j]
SortRight(n, dst) == [j \in 0 .. n - 1 |-> SortLeft(n, dst)[SortSrc(n, dst)[j]]]
Whole(n, dst) ==
    [n |-> n, left |-> SortLeft(n, dst), right |-> SortRight(n, dst), sw |-> 0, iv |-> 0]

LEMMA SortIsPermutation ==
    ASSUME NEW n \in Nat, n >= 1, NEW dst \in Bijection(0 .. n - 1, 0 .. n - 1)
    PROVE  IsPermutation(Whole(n, dst))
<1> DEFINE f == Whole(n, dst)
           left == SortLeft(n, dst)
           right == SortRight(n, dst)
           src == SortSrc(n, dst)
<1>1. dst \in [0 .. n - 1 -> 0 .. n - 1]
  BY Zenon DEF Bijection, Injection, Surjection
<1>2. \A i, k \in 0 .. n - 1 : dst[i] = dst[k] => i = k
  BY Zenon DEF Bijection, Injection, IsInjective
<1>3. \A j \in 0 .. n - 1 : \E i \in 0 .. n - 1 : dst[i] = j
  BY Zenon DEF Bijection, Surjection
<1>4. ASSUME NEW j \in 0 .. n - 1 PROVE src[j] \in 0 .. n - 1 /\ dst[src[j]] = j
  BY <1>3, Zenon DEF SortSrc
<1>5. f.n = n /\ f.left = left /\ f.right = right /\ f.sw = 0 /\ f.iv = 0
  BY Zenon DEF Whole
<1>6. /\ DOMAIN left = 0 .. n - 1
      /\ \A i \in 0 .. n - 1 :
           left[i] \in Packet /\ left[i].src = i /\ left[i].dst = dst[i] /\ left[i].data = i
  BY <1>1 DEF Packet, SortLeft
<1>7. left = [i \in 0 .. n - 1 |-> left[i]]
  BY Zenon DEF SortLeft
<1>8. right = [j \in 0 .. n - 1 |-> left[src[j]]]
  BY Zenon DEF SortRight
<1> HIDE DEF f, left, right, src
<1>9. ASSUME NEW i \in 0 .. n - 1 PROVE src[dst[i]] = i
  BY <1>1, <1>2, <1>4, Zenon
<1>10. left \in [0 .. n - 1 -> Packet]
  BY <1>6, <1>7, Zenon
<1>11. right \in [0 .. n - 1 -> Packet] /\ \A j \in 0 .. n - 1 : right[j] = left[src[j]]
  BY <1>4, <1>6, <1>8, Zenon
<1>12. ASSUME NEW i \in 0 .. n - 1
       PROVE  left[i].src = i /\ left[i].dst \in 0 .. n - 1 /\ right[left[i].dst] = left[i]
  <2>1. left[i].src = i /\ left[i].dst = dst[i] /\ dst[i] \in 0 .. n - 1
    BY <1>1, <1>6, Zenon
  <2>2. right[dst[i]] = left[i]
    BY <1>9, <1>11, <2>1, Zenon
  <2>3. QED BY <2>1, <2>2, Zenon
<1>13. ASSUME NEW i \in 0 .. n - 1
       PROVE  right[i].dst = i /\ right[i].src \in 0 .. n - 1 /\ left[right[i].src] = right[i]
  <2>1. right[i] = left[src[i]] /\ src[i] \in 0 .. n - 1 /\ dst[src[i]] = i
    BY <1>4, <1>11, Zenon
  <2>2. right[i].dst = i /\ right[i].src = src[i]
    BY <1>6, <2>1, Zenon
  <2>3. QED BY <2>1, <2>2, Zenon
<1>14. IsPermutation(f)
  BY <1>5, <1>10, <1>11, <1>12, <1>13, SMTT(30) DEF IsPermutation
<1>15. QED BY <1>14, Zenon DEF f

LEMMA InitInv ==
    ASSUME Init
    PROVE  IInv
<1>0. MaxWidth \in Nat
  BY WaksmanAssumptions, Zenon
<1> DEFINE Starts(n, dst) ==
        LET src(j) == CHOOSE i \in 0 .. n - 1 : dst[i] = j
            left == [i \in 0 .. n - 1 |-> [data |-> i, src |-> i, dst |-> dst[i]]]
            right == [j \in 0 .. n - 1 |-> left[src(j)]]
        IN /\ width = n
           /\ frames = <<[n |-> n, left |-> left, right |-> right, sw |-> 0, iv |-> 0]>>
           /\ switches = <<>>
           /\ intermediate = <<>>
           /\ pc = "call"
<1>1. PICK n \in 2 .. MaxWidth : \E dst \in Bijection(0 .. n - 1, 0 .. n - 1) : Starts(n, dst)
  BY Zenon DEF Init
<1>2. PICK dst \in Bijection(0 .. n - 1, 0 .. n - 1) : Starts(n, dst)
  BY <1>1, Zenon
<1> DEFINE f == Whole(n, dst)
<1>3. n \in Nat /\ n >= 2 /\ n # 1
  BY <1>0
<1>4. width = n /\ pc = "call" /\ switches = <<>> /\ intermediate = <<>>
  BY <1>2, Zenon
<1>5. frames = <<f>>
  <2>1. SortRight(n, dst)
          = [j \in 0 .. n - 1 |-> SortLeft(n, dst)[CHOOSE i \in 0 .. n - 1 : dst[i] = j]]
    BY DEF SortRight, SortSrc
  <2>2. frames = <<[n |-> n, left |-> SortLeft(n, dst),
                    right |-> [j \in 0 .. n - 1 |->
                                 SortLeft(n, dst)[CHOOSE i \in 0 .. n - 1 : dst[i] = j]],
                    sw |-> 0, iv |-> 0]>>
    BY <1>2, Zenon DEF SortLeft
  <2>3. QED BY <2>1, <2>2, Zenon DEF Whole
<1>6. IsPermutation(f) /\ f.n = n /\ f.sw = 0 /\ f.iv = 0
  BY <1>3, SortIsPermutation DEF Whole
<1> HIDE DEF f
<1>7. /\ frames \in Seq(Range(frames)) /\ DOMAIN frames = {1} /\ frames[1] = f
      /\ frames # <<>> /\ Frame = f
  <2>1. <<f>> \in Seq({f}) /\ Len(<<f>>) = 1 /\ <<f>>[1] = f /\ <<f>> # <<>> /\ Head(<<f>>) = f
    OBVIOUS
  <2>2. frames \in Seq(Range(frames))
    BY <1>5, <2>1, RangeOfSeq, Zenon
  <2>3. DOMAIN frames = {1}
    BY <1>5
  <2>4. QED BY <1>5, <2>1, <2>2, <2>3, Zenon DEF Frame
<1>8. /\ SwitchesFrom(1) = 0 /\ NodesFrom(1) = 0 /\ NodesBefore = 0
      /\ SwitchesFrom(2) = numSwitches[n] /\ NodesFrom(2) = NumIntermediate(n)
  <2>1. 2 \notin DOMAIN frames /\ 1 \in DOMAIN frames
    BY <1>7
  <2>2. /\ SwitchesFrom(1) = 0 /\ NodesFrom(1) = 0
        /\ SwitchesFrom(2) = numSwitches[n] /\ NodesFrom(2) = NumIntermediate(n)
    BY <1>4, <1>6, <1>7, <2>1, Zenon DEF SwitchesFrom, NodesFrom
  <2>3. QED BY <1>3, <1>6, <1>7, <2>2, Zenon DEF NodesBefore
<1>9. FrameOK(1)
  <2>1. numSwitches[n] \in Nat
    BY <1>3, NumSwitchesFacts, Zenon
  <2>2. NumIntermediate(n) \in Int
    BY <1>3, <2>1 DEF NumIntermediate
  <2>3. 1 + 1 = 2 /\ ~(1 > 1)
    OBVIOUS
  <2>4. /\ SwitchesFrom(2) = 0 + numSwitches[n] /\ NodesFrom(2) = 0 + NumIntermediate(n)
        /\ SwitchesFrom(2) =< numSwitches[n] /\ NodesFrom(2) =< NumIntermediate(n)
    BY <1>8, <2>1, <2>2
  <2>5. QED BY <1>4, <1>6, <1>7, <2>3, <2>4, Zenon DEF FrameOK
<1>10. FramesInv
  BY <1>7, <1>9, Zenon DEF FramesInv
<1>11. PcInv
  <2>1. DOMAIN <<>> = {} /\ 0 .. 0 - 1 = {}
    OBVIOUS
  <2>2. QED BY <1>4, <1>8, <2>1, Zenon DEF PcInv
<1>12. QED BY <1>3, <1>4, <1>10, <1>11, Zenon DEF IInv

\* The steps of the walk leave the activations alone.
LEMMA FramesStay ==
    ASSUME FramesInv, frames' = frames, width' = width
    PROVE  FramesInv'
<1>1. \A k : SwitchesFrom(k)' = SwitchesFrom(k) /\ NodesFrom(k)' = NodesFrom(k)
  BY Zenon DEF SwitchesFrom, NodesFrom
<1>2. \A k \in DOMAIN frames : FrameOK(k)'
  BY <1>1, Zenon DEF FramesInv, FrameOK
<1>3. QED BY <1>2, Zenon DEF FramesInv

LEMMA WalkInv ==
    ASSUME IInv, frames # <<>>, Frame.n >= 3, frames' = frames, width' = width,
           pc' \in {"left", "right"}, LoopOK(loop', switches', intermediate', pc')
    PROVE  IInv'
<1>1. FramesInv'
  BY FramesStay, Zenon DEF IInv
<1>2. LoopOK(loop, switches, intermediate, pc)'
  BY SameFrame, Zenon
<1>3. frames' # <<>> /\ Frame'.n >= 3
  BY Zenon DEF Frame
<1>4. PcInv'
  BY <1>2, <1>3, Zenon DEF PcInv
<1>5. QED BY <1>1, <1>4, Zenon DEF IInv

LEMMA NextInv ==
    ASSUME IInv, Next
    PROVE  IInv'
<1>1. CASE RouteBase
  BY <1>1, RoutesBase, Zenon
<1>2. CASE RouteFirst
  <2>1. frames # <<>> /\ Frame.n > 2 /\ frames' = frames /\ width' = width /\ pc = "call"
    BY <1>2, Zenon DEF RouteFirst
  <2>2. IsPermutation(Frame)
    BY <2>1, HeadFacts, Zenon
  <2>3. Frame.n >= 3 /\ Frame.n # 1
    BY <2>1, <2>2 DEF IsPermutation
  <2>4. DOMAIN switches = 0 .. Frame.sw - 1 /\ DOMAIN intermediate = 0 .. Frame.iv - 1
    BY <2>1, <2>3, HeadFacts, Zenon DEF IInv, PcInv, NodesBefore
  <2>5. pc' = "left" /\ LoopOK(loop', switches', intermediate', "left")
    BY <1>2, <2>2, <2>3, <2>4, RoutesFirst, Zenon
  <2>6. QED BY <2>1, <2>3, <2>5, WalkInv, Zenon
<1>3. CASE RouteLeftToRight
  <2>1. frames' = frames /\ width' = width /\ pc = "left"
    BY <1>3, Zenon DEF RouteLeftToRight
  <2>2. frames # <<>> /\ Frame.n >= 3 /\ LoopOK(loop, switches, intermediate, "left")
    BY <2>1, Zenon DEF IInv, PcInv
  <2>3. IsPermutation(Frame)
    BY <2>2, HeadFacts, Zenon
  <2>4. pc' = "right" /\ LoopOK(loop', switches', intermediate', "right")
    BY <1>3, <2>2, <2>3, LeftToRight, Zenon
  <2>5. QED BY <2>1, <2>2, <2>4, WalkInv, Zenon
<1>4. CASE RouteRightToLeft
  <2>1. frames' = frames /\ width' = width /\ pc = "right"
    BY <1>4, Zenon DEF RouteRightToLeft
  <2>2. frames # <<>> /\ Frame.n >= 3 /\ LoopOK(loop, switches, intermediate, "right")
    BY <2>1, Zenon DEF IInv, PcInv
  <2>3. IsPermutation(Frame)
    BY <2>2, HeadFacts, Zenon
  <2>4. pc' = "left" /\ LoopOK(loop', switches', intermediate', "left")
    BY <1>4, <2>2, <2>3, RightToLeft, Zenon
  <2>5. QED BY <2>1, <2>2, <2>4, WalkInv, Zenon
<1>5. CASE Descend
  BY <1>5, Descends, Zenon
<1>6. CASE Return
  <2>1. /\ pc = "call" /\ frames = <<>> /\ pc' = "done"
        /\ frames' = frames /\ width' = width
        /\ switches' = switches /\ intermediate' = intermediate
    BY <1>6, Zenon DEF Return
  <2>2. FramesInv'
    BY <2>1, FramesStay, Zenon DEF IInv
  <2>3. 1 \notin DOMAIN frames
    BY <2>1
  <2>4. SwitchesFrom(1) = numSwitches[width] /\ NodesBefore = NumIntermediate(width)
    BY <2>1, <2>3, Zenon DEF SwitchesFrom, NodesBefore, NodesFrom
  <2>5. /\ DOMAIN switches = 0 .. numSwitches[width] - 1
        /\ DOMAIN intermediate = 0 .. NumIntermediate(width) - 1
    BY <2>1, <2>4, Zenon DEF IInv, PcInv
  <2>6. PcInv'
    BY <2>1, <2>5, Zenon DEF PcInv
  <2>7. QED BY <2>1, <2>2, <2>6, Zenon DEF IInv
<1>7. QED BY <1>1, <1>2, <1>3, <1>4, <1>5, <1>6, Zenon DEF Next

\* Nothing but the steps of route() changes the state.
LEMMA StutterInv ==
    ASSUME IInv, UNCHANGED vars
    PROVE  IInv'
<1>1. /\ width' = width /\ frames' = frames /\ loop' = loop /\ switches' = switches
      /\ intermediate' = intermediate /\ pc' = pc
  BY Zenon DEF vars
<1>2. FramesInv'
  BY <1>1, FramesStay, Zenon DEF IInv
<1>3. CASE pc \in {"left", "right"}
  <2>1. frames # <<>> /\ Frame.n >= 3 /\ LoopOK(loop, switches, intermediate, pc)
    BY <1>3, Zenon DEF IInv, PcInv
  <2>2. LoopOK(loop', switches', intermediate', pc')
    BY <1>1, <2>1, Zenon
  <2>3. QED BY <1>1, <1>3, <2>1, <2>2, WalkInv, Zenon
<1>4. CASE pc \notin {"left", "right"}
  <2>1. /\ SwitchesFrom(1)' = SwitchesFrom(1) /\ NodesBefore' = NodesBefore
        /\ numSwitches[width]' = numSwitches[width]
        /\ NumIntermediate(width)' = NumIntermediate(width)
    BY <1>1, Zenon DEF SwitchesFrom, NodesBefore, NodesFrom, Frame
  <2>2. PcInv'
    BY <1>1, <1>4, <2>1, Zenon DEF IInv, PcInv
  <2>3. QED BY <1>1, <1>2, <2>2, Zenon DEF IInv
<1>5. QED BY <1>3, <1>4, Zenon

LEMMA Invariance == Spec => []IInv
<1>1. Init => IInv
  BY InitInv, Zenon
<1>2. IInv /\ [Next]_vars => IInv'
  BY NextInv, StutterInv, Zenon
<1>3. QED BY <1>1, <1>2, PTL DEF Spec

-----------------------------------------------------------------------------
\* In every execution, for every width and every sorted order, no assertion of
\* route() fails: the two ends of a cycle never need one switch in different
\* positions, no switch of a base case is set twice, and the base cases get
\* the packets they expect.
THEOREM NoAssertion == Spec => []NoAssertFails
<1>1. IInv => NoAssertFails
  BY Zenon DEF IInv, PcInv, NoAssertFails
<1>2. QED BY <1>1, Invariance, PTL

\* In every execution the arrays that route() hands to its two recursive calls
\* are written completely, and are the two ends of one permutation.
THEOREM HalvesComplete == Spec => []HalvesFilled
<1>1. IInv => HalvesFilled
  <2> SUFFICES ASSUME IInv, NEW k \in DOMAIN frames
               PROVE  /\ DOMAIN frames[k].left = 0 .. frames[k].n - 1
                      /\ DOMAIN frames[k].right = 0 .. frames[k].n - 1
                      /\ \A i \in 0 .. frames[k].n - 1 :
                           frames[k].right[frames[k].left[i].dst].src = i
    BY Zenon DEF HalvesFilled
  <2>1. PICK f : f = frames[k] /\ IsPermutation(f)
    BY Zenon DEF IInv, FramesInv, FrameOK
  <2>2. /\ DOMAIN f.left = 0 .. f.n - 1 /\ DOMAIN f.right = 0 .. f.n - 1
        /\ \A i \in 0 .. f.n - 1 : f.right[f.left[i].dst].src = i
    BY <2>1 DEF IsPermutation
  <2>3. QED BY <2>1, <2>2, Zenon
<1>2. QED BY <1>1, Invariance, PTL

\* The nodes and switches of an activation are within the whole network.
LEMMA WithinBounds ==
    ASSUME IInv
    PROVE  /\ DOMAIN switches \subseteq 0 .. numSwitches[width] - 1
           /\ DOMAIN intermediate \subseteq 0 .. NumIntermediate(width) - 1
<1> DEFINE S == numSwitches[width]
           I == NumIntermediate(width)
<1>1. S \in Nat /\ I \in Int
  <2>1. width \in Nat
    BY Zenon DEF IInv
  <2>2. numSwitches[width] \in Nat
    BY <2>1, NumSwitchesFacts, Zenon
  <2>3. QED BY <2>1, <2>2 DEF NumIntermediate
<1>2. CASE pc = "done"
  BY <1>2, Zenon DEF IInv, PcInv
<1>3. CASE pc = "call" /\ frames = <<>>
  <2>1. 1 \notin DOMAIN frames
    BY <1>3
  <2>2. SwitchesFrom(1) = S /\ NodesBefore = I
    BY <1>3, <2>1, Zenon DEF SwitchesFrom, NodesBefore, NodesFrom
  <2>3. QED BY <1>3, <2>2, Zenon DEF IInv, PcInv
<1>4. CASE frames # <<>>
  <2> DEFINE n == Frame.n
             s == Frame.sw
             v == Frame.iv
  <2>1. IsPermutation(Frame) /\ SwitchesFrom(1) = s /\ NodesFrom(1) = v
    BY <1>4, HeadFacts, Zenon
  <2>2. n \in Nat /\ n >= 1 /\ s \in Nat /\ v \in Nat
    BY <2>1, Zenon DEF IsPermutation
  <2>3. s + numSwitches[n] =< S /\ v + NumIntermediate(n) =< I
    BY <1>4, HeadFacts, Zenon
  <2>4. pc = "call" => /\ DOMAIN switches = 0 .. s - 1
                       /\ DOMAIN intermediate = 0 .. (IF n = 1 THEN v - 1 ELSE v) - 1
    BY <1>4, <2>1, Zenon DEF IInv, PcInv, NodesBefore
  <2>5. pc \in {"left", "right"} =>
          /\ n >= 3 /\ DOMAIN switches \subseteq 0 .. s + n - 2
          /\ DOMAIN intermediate \subseteq 0 .. NodesEnd(Frame) - 1
    BY Zenon DEF IInv, PcInv, LoopOK, Routed, SwitchesTurned, NodesAssigned
  <2>6. n >= 3 => NodesEnd(Frame) =< v + NumIntermediate(n)
    BY <2>1, NodesInside, Zenon
  <2>7. n >= 3 => NodesEnd(Frame) \in Int
    BY <2>2 DEF NodesEnd
  <2> HIDE DEF n, s, v, S, I
  <2>8. /\ numSwitches[n] \in Nat /\ numSwitches[n] >= n - 1
        /\ NumIntermediate(n) \in Int
        /\ NumIntermediate(n) >= (IF n = 1 THEN -1 ELSE 0)
    <3>1. CASE n = 1
      BY <3>1, SmallNetworks
    <3>2. CASE n >= 2
      <4>1. NumIntermediate(n) \in Nat
        BY <2>2, <3>2, NodesOfHalves, Zenon DEF NodesAdd
      <4>2. numSwitches[n] \in Nat /\ numSwitches[n] >= n - 1
        BY <2>2, <3>2, NumSwitchesFacts, SwitchesOfHalves, Zenon
      <4>3. QED BY <3>2, <4>1, <4>2
    <3>3. QED BY <2>2, <3>1, <3>2
  <2>9. CASE pc = "call"
    <3>1. s =< S /\ (IF n = 1 THEN v - 1 ELSE v) =< I
      BY <1>1, <2>2, <2>3, <2>8, SMTT(30)
    <3>2. QED BY <1>1, <2>2, <2>4, <2>9, <3>1, SMTT(30) DEF S, I
  <2>10. CASE pc \in {"left", "right"}
    <3>1. n >= 3 /\ s + n - 1 =< S /\ NodesEnd(Frame) =< I
      BY <1>1, <2>2, <2>3, <2>5, <2>6, <2>7, <2>8, <2>10, SMTT(30)
    <3>2. QED BY <1>1, <2>2, <2>5, <2>7, <2>10, <3>1, SMTT(30) DEF S, I
  <2>11. QED BY <1>2, <2>9, <2>10, Zenon DEF IInv, PcInv
<1>5. QED BY <1>2, <1>3, <1>4, Zenon DEF IInv, PcInv

\* In every execution route() writes within the arrays that
\* compute_waksman_network allocates, and when it returns it has assigned
\* every switch and every intermediate node: nothing that the prover copies to
\* its variables is left over from before.
THEOREM AllSet == Spec => []AllAssigned
<1>1. IInv => AllAssigned
  <2> SUFFICES ASSUME IInv PROVE AllAssigned
    BY Zenon
  <2>1. /\ DOMAIN switches \subseteq 0 .. numSwitches[width] - 1
        /\ DOMAIN intermediate \subseteq 0 .. NumIntermediate(width) - 1
    BY WithinBounds, Zenon
  <2>2. pc = "done" => /\ DOMAIN switches = 0 .. numSwitches[width] - 1
                       /\ DOMAIN intermediate = 0 .. NumIntermediate(width) - 1
    BY Zenon DEF IInv, PcInv
  <2>3. QED BY <2>1, <2>2, Zenon DEF AllAssigned
<1>2. QED BY <1>1, Invariance, PTL
=============================================================================
